-------------------------- MODULE MCBlockExecution ----------------------------
(* Values for model checking BlockExecution. *)
EXTENDS BlockExecution

\* 1 and 2 have accounts, 3 has none; 2 and 3 are validators, 4 is a contract.
FourAddrs  == 1 .. 4
TwoAndThree == {2, 3}
Genesis    == [a \in {1, 2} |-> IF a = 1 THEN 4 ELSE 2]

Transfers(senders, nonces, amounts) ==
  [kind : {"transfer"}, sender : senders, nonce : nonces, to : 1 .. 3, amount : amounts,
   succeeds : {TRUE}, fuel : {0}]

Calls(senders, nonces) ==
  [kind : {"call"}, sender : senders, nonce : nonces, to : {4}, amount : {0, 1},
   succeeds : BOOLEAN, fuel : {0, 2}]

\* Fuel may cost more than the call offers, and a call that fails has attached
\* something that it gets back.
MixedTxs ==
  Transfers({1, 2}, {0, 1}, {0, 2}) \cup Transfers({3}, {0}, {0, 2})
    \cup {tx \in Calls({1}, {0, 1}) : tx.succeeds \/ tx.amount > 0}
=============================================================================
