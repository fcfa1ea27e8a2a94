-------------------------- MODULE NestedTransactions --------------------------
(***************************************************************************)
(* What execution relies on in its overlays: transactions nested in one    *)
(* another, each a copy of the map it began on; the innermost one writes,  *)
(* and ends by replacing that map or by vanishing.  The outermost level is *)
(* the store.                                                              *)
(***************************************************************************)
EXTENDS Sequences, Integers

CONSTANTS Key, Value, Empty, MaxDepth

VARIABLE view   \* view[i]: the map that level i reads; view[1] is the store

depth == Len(view)
Below == SubSeq(view, 1, depth - 1)

Begin == depth < MaxDepth /\ view' = Append(view, view[depth])

Write(k, v) ==
  /\ depth > 1
  /\ view' = [view EXCEPT ![depth][k] = v]

Commit == depth > 1 /\ view' = [Below EXCEPT ![depth - 1] = view[depth]]

Abort == depth > 1 /\ view' = Below

Init == view = <<[k \in Key |-> Empty]>>

Next ==
  \/ Begin \/ Commit \/ Abort
  \/ \E k \in Key, v \in Value \cup {Empty} : Write(k, v)

Spec == Init /\ [][Next]_view
=============================================================================
