------------------------------ MODULE StateRoot -------------------------------
(***************************************************************************)
(* How a state is read in order and committed to: entries, change lists    *)
(* and computeStateRootWith of packages/state/src/store.ts.                *)
(*                                                                         *)
(* A key is a number, its place in the byte order; a value is a number and *)
(* Empty stands for none.  The Merkle root of a list of leaves is the list *)
(* itself: hashes do not collide, and the order of the leaves counts.      *)
(***************************************************************************)
EXTENDS Integers, Sequences, SequencesExt

CONSTANT Key

ASSUME KeyAssumption == Key \subseteq Nat /\ IsFiniteSet(Key)

Empty == 0

Entry(k, v)   == <<k, v>>
InKeyOrder(e, f) == e[1] < f[1]

\* The members of a set by ascending key.
Ascending(S) == CHOOSE q \in SetToSeqs(S) : IsSorted(q, InKeyOrder)

\* applyChanges: each change puts a value or, with Empty, deletes; of two changes
\* of a key the later one counts.
ChangesOf(k, changes) == {i \in DOMAIN changes : changes[i][1] = k}

Applied(store, changes) ==
  [k \in Key |-> IF ChangesOf(k, changes) = {} THEN store[k]
                 ELSE changes[Max(ChangesOf(k, changes))][2]]

\* entries: what is there, in ascending key order.
Entries(store) == Ascending({Entry(k, store[k]) : k \in {k \in Key : store[k] # Empty}})

Root(leaves) == leaves

\* computeStateRoot of a store that is not about to change.
StoredRoot(store) == Root(Entries(store))

-----------------------------------------------------------------------------
(* computeStateRootWith: the entries merge-joined with the changes.        *)

\* push: a deletion leaves no leaf.
Push(leaves, c) == IF c[2] = Empty THEN leaves ELSE Append(leaves, c)
Pushed(changes) == FoldLeft(Push, <<>>, changes)

\* Where the inner loop stops that starts at change i and has reached key k: at
\* the first change not below k.
StopsAt(changes, i, k) ==
  LET stops == {j \in i .. Len(changes) : changes[j][1] >= k}
  IN IF stops = {} THEN Len(changes) + 1 ELSE Min(stops)

\* (mutant: a change of a key that exists does not shadow the entry)
MergeUnshadowed(acc, e, changes) ==
  LET stop == StopsAt(changes, acc.i, e[1])
  IN [i |-> stop,
      leaves |-> acc.leaves \o Pushed(SubSeq(changes, acc.i, stop - 1)) \o <<e>>]

\* One turn of the outer loop: the changes below the entry, then the change of
\* its key or the entry itself.
Merge(acc, e, changes) ==
  LET stop     == StopsAt(changes, acc.i, e[1])
      shadowed == stop <= Len(changes) /\ changes[stop][1] = e[1]
      next     == IF shadowed THEN stop + 1 ELSE stop
  IN [i |-> next,
      leaves |-> acc.leaves \o Pushed(SubSeq(changes, acc.i, next - 1))
                            \o (IF shadowed THEN <<>> ELSE <<e>>)]

RootWith(store, changes) ==
  LET start == [i |-> 1, leaves |-> <<>>]
      done  == FoldLeft(LAMBDA acc, e : Merge(acc, e, changes), start, Entries(store))
  IN Root(done.leaves \o Pushed(SubSeq(changes, done.i, Len(changes))))
=============================================================================
