-------------------------------- MODULE Storage --------------------------------
(***************************************************************************)
(* What a node keeps: the chain on its two stores (ChainStore), the state      *)
(* store behind its cache (LevelStore), and the overlays that blocks,          *)
(* transactions and calls write (Overlay).                                   *)
(*                                                                          *)
(* To each the one below is a map of keys, which the two abstract modules      *)
(* state, so a behaviour follows one of them (`level`).                      *)
(***************************************************************************)
EXTENDS ChainStore

CONSTANTS
  CachedKey, Engine, Others, Capacity, MaxCommits,   \* of LevelStore
  LayerValue, MaxLayers                                \* of Overlay

ASSUME StorageAssumption ==
  /\ CachedKey \subseteq Nat \ {0} /\ IsFiniteSet(CachedKey)
  /\ Engine \notin Others /\ Capacity \in Nat \ {0} /\ MaxCommits \in Nat
  /\ LayerValue \subseteq Nat \ {Empty} /\ MaxLayers \in Nat \ {0}

VARIABLES
  level,                                                       \* which is followed
  db, cache, reads, batch, written, commits, answer, overtaken,  \* of LevelStore
  store, layers                                                  \* of Overlay

Store    == INSTANCE LevelStore WITH Key <- CachedKey
Overlays == INSTANCE Overlay WITH Value <- LayerValue

storeVars == <<db, cache, reads, batch, written, commits, answer, overtaken>>
overlayVars == <<store, layers>>
storageVars == <<level, vars, storeVars, overlayVars>>

StorageInit ==
  /\ level \in {"chain", "store", "overlays"}
  /\ Init /\ Store!Init /\ Overlays!Init

StorageNext ==
  \/ level = "chain"    /\ Next          /\ UNCHANGED <<level, storeVars, overlayVars>>
  \/ level = "store"    /\ Store!Next    /\ UNCHANGED <<level, vars, overlayVars>>
  \/ level = "overlays" /\ Overlays!Next /\ UNCHANGED <<level, vars, storeVars>>

StorageSpec == StorageInit /\ [][StorageNext]_storageVars

-----------------------------------------------------------------------------
(* The cache is bounded, and stale only where a commit overtook a get           *)
(* (LevelStore).                                                             *)
CacheIsSound == Store!CacheIsBounded /\ Store!StaleOnlyIfOvertaken

(* The store is the map that execution takes it for (LevelStore). *)
ImplementsStateStore == Store!ImplementsStateStore

(* Roots are those of the result: of any overlay (Overlay), and of a running     *)
(* node's own draft, which is the one every validator makes (ChainStore).      *)
RootsAgree == Overlays!RootIsOfResult /\ DraftsAgree

(* Overlays are nested transactions (Overlay). *)
ImplementsTransactions == Overlays!ImplementsTransactions
=============================================================================
