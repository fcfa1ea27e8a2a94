------------------------------ MODULE StateStore ------------------------------
(***************************************************************************)
(* What execution relies on in the StateStore interface of                 *)
(* packages/state/src/store.ts: a map of which a read returns the present  *)
(* value, and to which a block's changes are applied all at once.          *)
(* Every validator reads the same values, so that "all validators execute  *)
(* identically" (docs/src/architecture/chain.md).                          *)
(***************************************************************************)
CONSTANTS Key, Value, Empty

VARIABLES
  data,     \* data[k]: the present value; Empty when there is none
  answer    \* what execution read last: [key, value]; at first no key, no value

vars == <<data, answer>>

Get(k) ==
  /\ answer' = [key |-> k, value |-> data[k]]
  /\ UNCHANGED data

\* Some keys get new values, or lose theirs.
ApplyChanges ==
  /\ data' \in [Key -> Value \cup {Empty}]
  /\ UNCHANGED answer

Init ==
  /\ data = [k \in Key |-> Empty]
  /\ answer = [key |-> Empty, value |-> Empty]

Next == ApplyChanges \/ \E k \in Key : Get(k)

Spec == Init /\ [][Next]_vars
=============================================================================
