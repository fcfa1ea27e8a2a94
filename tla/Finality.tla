------------------------------ MODULE Finality ------------------------------
(***************************************************************************)
(* What the consensus engine promises the rest of the program              *)
(* (docs/src/architecture/consensus.md): one chain, final at once.  There  *)
(* is a single sequence of final blocks that only grows; every node's      *)
(* ledger is a prefix of it and only ever moves forward.  Chain.height,    *)
(* RPC answers, anchors and app state all rely on a committed block never  *)
(* being taken back.                                                       *)
(***************************************************************************)
EXTENDS Naturals, Sequences

CONSTANTS
  Nodes,      \* the correct nodes
  MaxHeight   \* bound on the height

VARIABLES
  final,   \* the final chain
  ledger   \* ledger[n]: the blocks node n has committed

vars == <<final, ledger>>

\* Node n moves to height k of the final chain, which it may extend by one block.
Commit(n, k) ==
  /\ k > Len(ledger[n])
  /\ Len(final') \in {Len(final), Len(final) + 1}
  /\ SubSeq(final', 1, Len(final)) = final
  /\ k \in 1 .. Len(final')
  /\ Len(final') > Len(final) => k = Len(final')
  /\ ledger' = [ledger EXCEPT ![n] = SubSeq(final', 1, k)]

Init == final = <<>> /\ ledger = [n \in Nodes |-> <<>>]

Next == \E n \in Nodes, k \in 1 .. MaxHeight : Commit(n, k)

Spec == Init /\ [][Next]_vars
=============================================================================
