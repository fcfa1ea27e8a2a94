-------------------------------- MODULE Ledger --------------------------------
(***************************************************************************)
(* What the chain promises of a block's execution: includable transactions *)
(* are applied one after the other to the accounts as the last one left    *)
(* them, a proposer earns their fees, and the result is kept as a whole or *)
(* dropped as a whole.                                                     *)
(***************************************************************************)
EXTENDS Accounts

CONSTANT Tx

VARIABLES
  committed,  \* the accounts after the last block
  accounts    \* and as the block in execution has made them

Include(tx, proposer) ==
  /\ Includable(accounts, tx)
  /\ accounts' = Apply(accounts, tx, proposer)
  /\ UNCHANGED committed

Drop   == accounts' = committed /\ UNCHANGED committed
Commit == committed' = accounts /\ UNCHANGED accounts

Init ==
  /\ DOMAIN committed \subseteq Addr
  /\ \A a \in DOMAIN committed : committed[a] \in [balance : Nat, nonce : {0}]
  /\ accounts = committed

Next ==
  \/ \E tx \in Tx, proposer \in Addr : Include(tx, proposer)
  \/ Drop \/ Commit

Spec == Init /\ [][Next]_<<committed, accounts>>
=============================================================================
