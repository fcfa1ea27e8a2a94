----------------------------- MODULE ContractCalls -----------------------------
(***************************************************************************)
(* applyTransaction, executePayload and runContract of                     *)
(* packages/chain/src/execution.ts: one transaction after another, of any  *)
(* kind but a transfer, and in it the contracts that it runs.  What a      *)
(* contract does is up to it: any sequence of host functions, calls of     *)
(* other contracts among them, and then success or failure.                *)
(*                                                                         *)
(* A write overlay appears as the state it shows (see Overlay): that of    *)
(* the block is state, that of the transaction is the first frame's view,  *)
(* and every call of a contract by a contract has a view of its own.       *)
(***************************************************************************)
EXTENDS Accounts, Sequences, FiniteSets

CONSTANTS
  Contract,      \* contract ids; they are addresses
  App,           \* app ids
  AppAddress,    \* appAddress: the address an app's outcome calls come from
  Tx,            \* the transactions that may be included
  Proposer,      \* the validators, which are addresses
  Balance,       \* genesis: the balance of those who have an account
  Amount,        \* what a contract may pay at a time
  MaxCallDepth,  \* MAX_CALL_DEPTH
  MaxEvents      \* MAX_EVENTS

ASSUME ContractAssumption ==
  /\ IsFiniteSet(Addr) /\ Contract \subseteq Addr /\ Proposer \subseteq Addr
  /\ AppAddress \in [App -> Addr]
  /\ DOMAIN Balance \subseteq Addr /\ \A a \in DOMAIN Balance : Balance[a] \in Nat
  /\ Amount \subseteq Nat
  /\ MaxCallDepth \in Nat /\ MaxEvents \in Nat

\* A contract's id is a hash, which nobody has a key of.
ASSUME TxAssumption ==
  \A tx \in Tx :
    /\ tx.kind \in {"deploy", "register", "update", "anchor", "execute"}
    /\ tx.sender \in Addr \ Contract
    /\ tx.contract \in Contract /\ tx.app \in App
    /\ tx.validators \subseteq Addr
    /\ {tx.amount, tx.epoch, tx.height} \subseteq Nat
    /\ tx.calls \in BOOLEAN

VARIABLES
  state,      \* accounts, storage, code, apps, anchors: as the block has made them
  frames,     \* the contracts that are running, the innermost last
  current,    \* the transaction in execution, with its proposer
  events,     \* its events; TRUE marks those of a call that has failed since
  exhausted,  \* its host meter is over the budget
  before,     \* history: the state before the last transaction
  receipt,    \* history: its outcome
  settled     \* history: the outcome calls that took effect, app by app

vars == <<state, frames, current, events, exhausted, before, receipt, settled>>

NoTx  == [kind |-> "none"]
NoApp == [owner |-> "none"]

Depth == Len(frames) - 1
Top   == frames[Len(frames)]
Outer == SubSeq(frames, 1, Depth)
View  == Top.view

\* Strictly more than two thirds.
AnchorQuorum(validators) == (2 * Cardinality(validators)) \div 3 + 1

-----------------------------------------------------------------------------
(* What a payload does to a state.                                         *)

\* (mutant: the recipient is read first)
MoveUnread(view, from, to, amount) ==
  LET recipient == Account(view.accounts, to) IN
  [view EXCEPT !.accounts =
     SetAccount(Credit(@, from, -amount), to, [recipient EXCEPT !.balance = @ + amount])]

\* Money moves: the recipient is read after the payer is written.
Move(view, from, to, amount) ==
  [view EXCEPT !.accounts = Credit(Credit(@, from, -amount), to, amount)]

BalanceOf(view, a) == Account(view.accounts, a).balance

\* The head of runContract: is there such a contract, can the caller pay?
Runs(view, contract, caller, value) ==
  /\ contract \in view.code
  /\ value > 0 => BalanceOf(view, caller) >= value

Frame(view, contract, caller, value, mark) ==
  [contract |-> contract, mark |-> mark,
   view |-> IF value > 0 THEN Move(view, caller, contract, value) ELSE view]

\* (mutant: an epoch may be anchored again)
AnchorableAgain(view, tx) ==
  /\ view.apps[tx.app] # NoApp
  /\ tx.epoch >= view.anchors[tx.app].epoch
  /\ tx.signers \subseteq view.apps[tx.app].validators
  /\ Cardinality(tx.signers) >= AnchorQuorum(view.apps[tx.app].validators)

\* An anchor's checks; nobody can sign for a set of validators that is empty.
Anchorable(view, tx) ==
  /\ view.apps[tx.app] # NoApp
  /\ tx.epoch > view.anchors[tx.app].epoch
  /\ tx.signers \subseteq view.apps[tx.app].validators
  /\ Cardinality(tx.signers) >= AnchorQuorum(view.apps[tx.app].validators)

Anchored(view, tx) ==
  [view EXCEPT !.anchors[tx.app] = [epoch |-> tx.epoch, height |-> tx.height]]

Registered(view, tx, owner) ==
  [view EXCEPT !.apps[tx.app] = [owner |-> owner, validators |-> tx.validators]]

\* Whether a payload that runs no contract succeeds, and its effect.
PlainOk(view, tx) ==
  CASE tx.kind = "deploy"   -> tx.contract \notin view.code
    [] tx.kind = "register" -> view.apps[tx.app] = NoApp
    [] tx.kind = "update"   -> view.apps[tx.app] # NoApp /\ view.apps[tx.app].owner = tx.sender
    [] tx.kind = "anchor"   -> Anchorable(view, tx)

Plain(view, tx) ==
  CASE tx.kind = "deploy"               -> [view EXCEPT !.code = @ \cup {tx.contract}]
    [] tx.kind \in {"register", "update"} -> Registered(view, tx, tx.sender)
    [] tx.kind = "anchor"               -> Anchored(view, tx)

\* register_app, update_app and an anchor tell of themselves, whatever the contracts
\* have emitted.
WithOwn(told, tx) == IF tx.kind = "deploy" THEN told ELSE Append(told, FALSE)

-----------------------------------------------------------------------------
(* The end of a transaction.                                               *)

\* (mutant: the payload's overlay is kept)
ResultKept(base, view, succeeds) == view

\* What is left of the payload.
Result(base, view, succeeds) == IF succeeds THEN view ELSE base

\* (mutant: the unused reserve goes to the proposer, too)
SettleReserve(base, view, told, tx, proposer, succeeds) ==
  \E fee \in Fee .. MaxFee :
    LET result == Result(base, view, succeeds) IN
    /\ state' = [result EXCEPT !.accounts = Credit(@, proposer, MaxFee)]
    /\ receipt' = [tx |-> tx, proposer |-> proposer, succeeds |-> succeeds, fee |-> fee,
                   events |-> IF succeeds THEN told ELSE <<>>]
    /\ current' = NoTx /\ frames' = <<>>
    /\ events' = <<>> /\ exhausted' = FALSE

\* The refund, the fee, which may be anything from Fee to MaxFee, and the receipt with
\* the events of a success.
Settle(base, view, told, tx, proposer, succeeds) ==
  \E fee \in Fee .. MaxFee :
    LET result == Result(base, view, succeeds) IN
    /\ state' = [result EXCEPT !.accounts =
                   Credit(Credit(@, tx.sender, MaxFee - fee), proposer, fee)]
    /\ receipt' = [tx |-> tx, proposer |-> proposer, succeeds |-> succeeds, fee |-> fee,
                   events |-> IF succeeds THEN told ELSE <<>>]
    /\ current' = NoTx /\ frames' = <<>>
    /\ events' = <<>> /\ exhausted' = FALSE

\* The payload's outermost contract is done.
EndCall(succeeds) ==
  LET tx == current.tx IN
  IF tx.kind = "anchor" /\ succeeds
    THEN /\ Settle(state, Anchored(View, tx), WithOwn(events, tx), tx, current.proposer, TRUE)
         /\ settled' = [settled EXCEPT ![tx.app] = @ + 1]
    ELSE /\ Settle(state, View, events, tx, current.proposer, succeeds)
         /\ UNCHANGED settled

-----------------------------------------------------------------------------
\* Includable, and the reserve is taken and the nonce used up.
Reserved(tx) == [state EXCEPT !.accounts = Charge(@, tx.sender, MaxFee)]

MayInclude(tx) ==
  /\ current = NoTx
  /\ Includable(state.accounts, tx)
  /\ tx.kind = "anchor" => tx.signers # {}

\* A transaction whose payload runs no contract.
IncludePlain(tx, proposer) ==
  LET base == Reserved(tx) IN
  /\ MayInclude(tx)
  /\ tx.kind # "execute" /\ ~(tx.kind = "anchor" /\ tx.calls)
  /\ LET succeeds == PlainOk(base, tx) IN
     Settle(base, IF succeeds THEN Plain(base, tx) ELSE base, WithOwn(<<>>, tx), tx, proposer,
            succeeds)
  /\ before' = state
  /\ UNCHANGED settled

\* execute_contract, or an anchor with an outcome call: the checks, and if they
\* hold the contract starts.
Caller(tx) == IF tx.kind = "execute" THEN tx.sender ELSE AppAddress[tx.app]

IncludeCall(tx, proposer) ==
  LET base == Reserved(tx) IN
  /\ MayInclude(tx)
  /\ tx.kind = "execute" \/ (tx.kind = "anchor" /\ tx.calls)
  /\ IF /\ tx.kind = "anchor" => Anchorable(base, tx)
        /\ Runs(base, tx.contract, Caller(tx), tx.amount)
       THEN /\ state' = base
            /\ current' = [kind |-> "tx", tx |-> tx, proposer |-> proposer]
            /\ frames' = <<Frame(base, tx.contract, Caller(tx), tx.amount, 0)>>
            /\ UNCHANGED <<events, exhausted, receipt>>
       ELSE Settle(base, base, <<>>, tx, proposer, FALSE)
  /\ before' = state
  /\ UNCHANGED settled

-----------------------------------------------------------------------------
(* Host functions.  Each is charged first, and none can be once the meter  *)
(* is over the budget.                                                     *)

Running == current # NoTx /\ ~exhausted

WriteView(view) == frames' = Append(Outer, [Top EXCEPT !.view = view])

\* storageSet; 0 for storageDelete.
StorageSet(value) ==
  /\ Running
  /\ WriteView([View EXCEPT !.storage[Top.contract] = value])
  /\ UNCHANGED <<state, current, events, exhausted, before, receipt, settled>>

\* (mutant: the balance is not looked at)
CanTransfer(amount) == TRUE

CanPay(amount) == BalanceOf(View, Top.contract) >= amount

\* transfer: refused, and told so, when the balance is too small.
Transfer(to, amount) ==
  /\ Running
  /\ CanPay(amount)
  /\ WriteView(Move(View, Top.contract, to, amount))
  /\ UNCHANGED <<state, current, events, exhausted, before, receipt, settled>>

Emit ==
  /\ Running
  /\ Len(events) < MaxEvents
  /\ events' = Append(events, FALSE)
  /\ UNCHANGED <<state, frames, current, exhausted, before, receipt, settled>>

\* call: into an overlay of its own.
Call(contract, value) ==
  /\ Running
  /\ Depth < MaxCallDepth
  /\ Runs(View, contract, Top.contract, value)
  /\ frames' = Append(frames, Frame(View, contract, Top.contract, value, Len(events)))
  /\ UNCHANGED <<state, current, events, exhausted, before, receipt, settled>>

-----------------------------------------------------------------------------
(* The end of a contract's run.                                            *)

\* Success: the overlay of a call is merged into its caller's.
Return ==
  /\ current # NoTx
  /\ IF Depth = 0 THEN EndCall(TRUE)
     ELSE /\ frames' = [Outer EXCEPT ![Depth].view = View]
          /\ UNCHANGED <<state, current, events, exhausted, receipt, settled>>
  /\ UNCHANGED before

\* Abort, a trap, no fuel: the caller is told, and goes on.  A host function that
\* cannot be charged ends the run, and leaves the meter over the budget for the
\* callers.  The events stay.
Fail(meter) ==
  /\ current # NoTx
  /\ IF Depth = 0 THEN EndCall(FALSE)
     ELSE /\ frames' = Outer
          /\ events' = [i \in DOMAIN events |-> events[i] \/ i > Top.mark]
          /\ exhausted' = (exhausted \/ meter)
          /\ UNCHANGED <<state, current, receipt, settled>>
  /\ UNCHANGED before

-----------------------------------------------------------------------------
Init ==
  /\ state = [accounts |-> [a \in DOMAIN Balance |-> [balance |-> Balance[a], nonce |-> 0]],
              storage |-> [c \in Contract |-> 0], code |-> {},
              apps |-> [a \in App |-> NoApp],
              anchors |-> [a \in App |-> [epoch |-> 0, height |-> 0]]]
  /\ frames = <<>> /\ current = NoTx /\ events = <<>> /\ exhausted = FALSE
  /\ before = state
  /\ receipt = NoTx
  /\ settled = [a \in App |-> 0]

Next ==
  \/ \E tx \in Tx, proposer \in Proposer : IncludePlain(tx, proposer) \/ IncludeCall(tx, proposer)
  \/ \E value \in {0, 1} : StorageSet(value)
  \/ \E to \in Addr, amount \in Amount : Transfer(to, amount)
  \/ Emit
  \/ \E contract \in Contract, value \in Amount : Call(contract, value)
  \/ Return
  \/ \E meter \in BOOLEAN : Fail(meter)

Spec == Init /\ [][Next]_vars
-----------------------------------------------------------------------------
(* Properties.                                                             *)

AccountsOk(accounts) ==
  /\ DOMAIN accounts \subseteq Addr
  /\ \A a \in DOMAIN accounts : accounts[a] \in [balance : Nat, nonce : Nat]

\* Types; and no balance is ever negative, which could not be encoded.
TypeOK ==
  /\ AccountsOk(state.accounts)
  /\ \A i \in DOMAIN frames : AccountsOk(frames[i].view.accounts)
  /\ Depth <= MaxCallDepth /\ Len(events) <= MaxEvents
  /\ state.code \subseteq Contract
  /\ frames # <<>> <=> current # NoTx

Supply == SumFunction(Balance)

\* Contracts pay each other, themselves and their callers, and fail half-way:
\* the balances add up to those of the genesis, less the reserve while it is held,
\* and none is overdrawn.
Conserved ==
  LET held == IF current = NoTx THEN 0 ELSE MaxFee IN
  /\ TypeOK
  /\ \A accounts \in {state.accounts} \cup {frames[i].view.accounts : i \in DOMAIN frames} :
       SumOf(accounts) = Supply - held

Done == current = NoTx /\ receipt # NoTx

\* "its payload effects revert atomically, but the fee is charged and the nonce
\* consumed" (docs/src/architecture/chain.md:48): whatever a failed transaction
\* has run, nothing else is left of it; an anchor's epoch is not used up either.
FailureLeavesTheFee ==
  (Done /\ ~receipt.succeeds) =>
    state = [before EXCEPT !.accounts =
               Credit(Charge(@, receipt.tx.sender, receipt.fee), receipt.proposer, receipt.fee)]

\* No contract takes more from the sender than the attached value.
LossIsBounded ==
  Done =>
    LET sender == receipt.tx.sender IN
    BalanceOf(state, sender) >= BalanceOf(before, sender) - receipt.fee - receipt.tx.amount

\* An app has at most one outcome call per epoch that took effect.
OutcomeOncePerEpoch == \A a \in App : settled[a] <= state.anchors[a].epoch

\* "emit(bytes) appends to the receipt's event list (<=64 events, <=4 KiB each, kept
\* only on success)" (docs/src/contracts/model.md:49): the record of a receipt has room
\* for no more (chain.ts:131), and a callee that failed has told nothing.
EventsAsDocumented ==
  Done => /\ Len(receipt.events) <= MaxEvents
          /\ \A i \in DOMAIN receipt.events : ~receipt.events[i]
=============================================================================
