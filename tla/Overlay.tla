------------------------------- MODULE Overlay --------------------------------
(***************************************************************************)
(* The write overlays of packages/state/src/overlay.ts as execution stacks *)
(* them: one for the block on the store, one for the transaction on that   *)
(* of the block, and one for each contract that a contract calls.  Only    *)
(* the innermost one is written; it is merged into the one below when its  *)
(* transaction or call succeeds, and dropped when it fails.                *)
(***************************************************************************)
EXTENDS StateRoot

CONSTANTS
  Value,      \* values to write
  MaxLayers   \* bound: overlays at a time (block, transaction, nested calls)

Unwritten == Empty - 1   \* no entry in writes

VARIABLES
  store,   \* the state store below the overlays
  layers   \* layers[i][k]: a value to put, Empty to delete, or Unwritten

vars == <<store, layers>>

-----------------------------------------------------------------------------
\* get, getSync: a layer's own write, if any, or what the reader below has.
Writers(i, k) == {j \in 1 .. i : layers[j][k] # Unwritten}

Get(i, k) == IF Writers(i, k) = {} THEN store[k] ELSE layers[Max(Writers(i, k))][k]

Top  == Len(layers)
Rest == SubSeq(layers, 1, Top - 1)

\* changes: the writes of a layer, in ascending key order.
Changes(layer) == Ascending({Entry(k, layer[k]) : k \in {k \in Key : layer[k] # Unwritten}})

\* (mutant: a deletion is not handed on)
MergedPuts(layer, below) ==
  [k \in Key |-> IF layer[k] \in {Unwritten, Empty} THEN below[k] ELSE layer[k]]

\* commitInto: each change is set or deleted in the parent.
Merged(layer, below) ==
  [k \in Key |-> IF layer[k] = Unwritten THEN below[k] ELSE layer[k]]

-----------------------------------------------------------------------------
\* new Overlay on the store or on the innermost overlay.
Open ==
  /\ Top < MaxLayers
  /\ layers' = Append(layers, [k \in Key |-> Unwritten])
  /\ UNCHANGED store

Set(k, v) ==
  /\ layers # <<>>
  /\ layers' = [layers EXCEPT ![Top][k] = v]
  /\ UNCHANGED store

Delete(k) ==
  /\ layers # <<>>
  /\ layers' = [layers EXCEPT ![Top][k] = Empty]
  /\ UNCHANGED store

CommitInto ==
  /\ Top > 1
  /\ layers' = [Rest EXCEPT ![Top - 1] = Merged(layers[Top], layers[Top - 1])]
  /\ UNCHANGED store

\* The block is committed, in one batch: applyChanges(changes()).
Apply ==
  /\ Top = 1
  /\ store' = Merged(layers[1], store)
  /\ layers' = <<>>

Drop == layers # <<>> /\ layers' = Rest /\ UNCHANGED store

Init ==
  /\ store = [k \in Key |-> Empty]
  /\ layers = <<>>

Next ==
  \/ Open \/ CommitInto \/ Apply \/ Drop
  \/ \E k \in Key : Delete(k) \/ \E v \in Value : Set(k, v)

Spec == Init /\ [][Next]_vars

-----------------------------------------------------------------------------
(* Properties.                                                             *)

\* The state root that draftBlock and verifyBlock compute before anything is
\* written is the root of the store that commitVerified will leave.
RootIsOfResult ==
  \A i \in DOMAIN layers :
    RootWith(store, Changes(layers[i])) = StoredRoot(Merged(layers[i], store))

\* The overlays are transactions nested in one another: reads see what was
\* written, what failed is forgotten, what succeeded is handed on.
Promise == INSTANCE NestedTransactions WITH
  MaxDepth <- MaxLayers + 1,
  view <- [i \in 1 .. Top + 1 |-> [k \in Key |-> Get(i - 1, k)]]

ImplementsTransactions == Promise!Spec
=============================================================================
