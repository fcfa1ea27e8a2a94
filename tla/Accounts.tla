------------------------------- MODULE Accounts -------------------------------
(***************************************************************************)
(* Accounts, and what one transaction does to them: checkInclusion,        *)
(* applyTransferTransaction and applyTransaction of                        *)
(* packages/chain/src/execution.ts.  What a contract does on its way is in *)
(* ContractCalls; here a call keeps the value that is attached to it, or   *)
(* fails, and costs some fuel.                                             *)
(***************************************************************************)
EXTENDS Integers, Functions

CONSTANTS
  Addr,    \* public keys and contract ids
  Fee,     \* computeFee: the fee of a transaction before fuel
  MaxFee   \* maxFee of a call

ASSUME FeeAssumption == Fee \in Nat \ {0} /\ MaxFee \in Nat /\ MaxFee >= Fee

\* Accounts are a function on the addresses that have one: the state root tells
\* an absent account from an empty one.
EmptyAccount == [balance |-> 0, nonce |-> 0]

\* getAccount, setAccount.
Account(accounts, a) == IF a \in DOMAIN accounts THEN accounts[a] ELSE EmptyAccount

SetAccount(accounts, a, account) ==
  [x \in DOMAIN accounts \cup {a} |-> IF x = a THEN account ELSE accounts[x]]

Credit(accounts, a, amount) ==
  SetAccount(accounts, a, [Account(accounts, a) EXCEPT !.balance = @ + amount])

\* What inclusion takes from the sender.
Charge(accounts, a, amount) ==
  LET account == Account(accounts, a) IN
  SetAccount(accounts, a,
    [balance |-> account.balance - amount, nonce |-> account.nonce + 1])

\* For the properties: all the money there is.
BalancesOf(accounts) == [a \in DOMAIN accounts |-> accounts[a].balance]
SumOf(accounts)      == SumFunction(BalancesOf(accounts))

-----------------------------------------------------------------------------
\* requiredBalance: a transfer may be unable to pay its amount, a call may not.
Required(tx) == IF tx.kind = "transfer" THEN Fee ELSE MaxFee + tx.amount

\* (mutant: any nonce will do)
IncludableByFunds(accounts, tx) == Account(accounts, tx.sender).balance >= Required(tx)

\* checkInclusion, for a transaction that is well signed.
Includable(accounts, tx) ==
  /\ tx.nonce = Account(accounts, tx.sender).nonce
  /\ Account(accounts, tx.sender).balance >= Required(tx)

\* (mutant: the fee is not taken first)
SucceedsBeforeFee(accounts, tx) ==
  IF tx.kind = "transfer" THEN Account(accounts, tx.sender).balance >= tx.amount
                          ELSE tx.succeeds

\* Whether the payload of an includable transaction takes effect.
Succeeds(accounts, tx) ==
  IF tx.kind = "transfer"
    THEN Account(accounts, tx.sender).balance - Fee >= tx.amount
    ELSE tx.succeeds

\* applyTransferTransaction: the recipient is read after the sender is written,
\* the proposer after the recipient.
ApplyTransfer(accounts, tx, proposer) ==
  IF Succeeds(accounts, tx)
    THEN Credit(Credit(Charge(accounts, tx.sender, Fee + tx.amount), tx.to, tx.amount),
                proposer, Fee)
    ELSE Credit(Charge(accounts, tx.sender, Fee), proposer, Fee)

\* The attached value moves before the action runs; no value, no write.
Attach(accounts, tx) ==
  IF tx.amount = 0 THEN accounts
  ELSE Credit(Credit(accounts, tx.sender, -tx.amount), tx.to, tx.amount)

\* applyTransaction: reserve, payload, refund, fee.
ApplyCall(accounts, tx, proposer) ==
  LET reserved == Charge(accounts, tx.sender, MaxFee)
      executed == IF tx.succeeds THEN Attach(reserved, tx) ELSE reserved
      fee      == IF Fee + tx.fuel <= MaxFee THEN Fee + tx.fuel ELSE MaxFee
  IN  Credit(Credit(executed, tx.sender, MaxFee - fee), proposer, fee)

Apply(accounts, tx, proposer) ==
  IF tx.kind = "transfer" THEN ApplyTransfer(accounts, tx, proposer)
                          ELSE ApplyCall(accounts, tx, proposer)
=============================================================================
