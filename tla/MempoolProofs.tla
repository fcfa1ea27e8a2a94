----------------------------- MODULE MempoolProofs ----------------------------
(***************************************************************************)
(* Proofs about the way of a transaction into a block: Mempool, TxGossip   *)
(* and SignaturePool; and, after them, about Settlement and DevnetBench.   *)
(* Each is on its own, for any values of its constants.                    *)
(*                                                                         *)
(* Mempool: IInv is inductive.  What it adds to the properties: the pool is *)
(* finite, an admission waits with a nonce the account had at some time,    *)
(* and while prune is under way the stale transactions that are not late    *)
(* belong to senders it has yet to visit.                                  *)
(***************************************************************************)
EXTENDS Mempool, TxGossip, SignaturePool, Settlement, DevnetBench, FoldProofs, SequenceTheorems,
        FiniteSetTheorems, FunctionTheorems, TLAPS

PoolIsFinite == IsFiniteSet(pool)

AddsSawThePast ==
  \A a \in Admission : adds[a] # NoAdd => adds[a].nonce <= nonce[adds[a].tx.sender]

PruneReachesStale ==
  /\ pruned => Stale \subseteq late
  /\ engine.kind = "prune" => \A t \in Stale \ late : t.sender \in engine.todo

PickedOnlyByTake == engine.kind # "take" => engine.picked = {}

IInv ==
  /\ TypeOK /\ CountAgrees /\ NoEmptyMap /\ OnePerNonce /\ TakenIsIncludable
  /\ PoolIsFinite /\ AddsSawThePast /\ PruneReachesStale /\ PickedOnlyByTake

-----------------------------------------------------------------------------
(* Sets and their sizes.                                                   *)

\* Removing a part of a finite set takes its size away.
LEMMA Removal ==
  ASSUME NEW S, IsFiniteSet(S), NEW T \in SUBSET S
  PROVE  /\ IsFiniteSet(T) /\ IsFiniteSet(S \ T)
         /\ Cardinality(S) \in Nat /\ Cardinality(T) \in Nat
         /\ Cardinality(S \ T) = Cardinality(S) - Cardinality(T)
         /\ Cardinality(S \ T) \in Nat
<1>1. IsFiniteSet(T) /\ IsFiniteSet(S \ T)
  BY FS_Subset
<1>2. Cardinality(S) \in Nat /\ Cardinality(T) \in Nat /\ Cardinality(S \ T) \in Nat
  BY <1>1, FS_CardinalityType
<1>3. (S \ T) \cup T = S /\ (S \ T) \cap T = {}
  OBVIOUS
<1>4. Cardinality(S) = Cardinality(S \ T) + Cardinality(T) - Cardinality({})
  BY <1>1, <1>3, FS_Union
<1> QED
  BY <1>1, <1>2, <1>4, FS_EmptySet

LEMMA IntervalSize ==
  ASSUME NEW lo \in Int, NEW hi \in Int, lo <= hi + 1
  PROVE  IsFiniteSet(lo .. hi) /\ Cardinality(lo .. hi) = hi - lo + 1
<1>1. Cardinality(lo .. hi) = IF lo > hi THEN 0 ELSE hi - lo + 1
  BY FS_Interval
<1> QED
  BY <1>1, FS_Interval

\* The size of a union is at most the sum of the sizes.
LEMMA UnionSize ==
  ASSUME NEW S, NEW T, IsFiniteSet(S), IsFiniteSet(T)
  PROVE  /\ Cardinality(S) \in Nat /\ Cardinality(T) \in Nat
         /\ Cardinality(S \cup T) \in Nat
         /\ Cardinality(S \cup T) <= Cardinality(S) + Cardinality(T)
<1>1. IsFiniteSet(S \cup T) /\ IsFiniteSet(S \cap T)
  BY FS_Union, FS_Subset
<1>2. /\ Cardinality(S) \in Nat /\ Cardinality(T) \in Nat
      /\ Cardinality(S \cup T) \in Nat /\ Cardinality(S \cap T) \in Nat
  BY <1>1, FS_CardinalityType
<1>3. Cardinality(S \cup T) = Cardinality(S) + Cardinality(T) - Cardinality(S \cap T)
  BY FS_Union
<1> QED
  BY <1>2, <1>3

\* A set of one sender's picks with nonces in an interval is no larger than it.
LEMMA PicksInInterval ==
  ASSUME NEW s, NEW lo \in Int, NEW hi \in Int, NEW P,
         \A p \in P : p = <<s, p[2]>> /\ p[2] \in lo .. hi
  PROVE  /\ IsFiniteSet(P)
         /\ Cardinality(P) <= Cardinality(lo .. hi)
<1> DEFINE f == [p \in P |-> p[2]]
<1>1. f \in Injection(P, lo .. hi)
  <2>1. f \in [P -> lo .. hi]
    OBVIOUS
  <2>2. \A p, q \in P : f[p] = f[q] => p = q
    OBVIOUS
  <2> QED
    BY <2>1, <2>2 DEF Injection, IsInjective
<1>2. IsFiniteSet(lo .. hi)
  BY FS_Interval
<1> HIDE DEF f
<1> QED
  BY <1>1, <1>2, FS_Injection

\* A sender's passed transactions are among its pending ones, all of them finite.
LEMMA PendingFinite ==
  ASSUME PoolIsFinite, NEW s, NEW n
  PROVE  /\ Pending(s) \subseteq pool /\ Passed(s, n) \subseteq Pending(s)
         /\ IsFiniteSet(Pending(s)) /\ IsFiniteSet(Passed(s, n))
         /\ Cardinality(Pending(s)) \in Nat /\ Cardinality(Passed(s, n)) \in Nat
         /\ IsFiniteSet(Pending(s) \ Passed(s, n))
         /\ Cardinality(Pending(s) \ Passed(s, n)) \in Nat
         /\ Cardinality(Pending(s) \ Passed(s, n)) <= Cardinality(Pending(s))
<1>1. Pending(s) \subseteq pool /\ Passed(s, n) \subseteq Pending(s)
  BY DEF Pending, Passed
<1>2. IsFiniteSet(Pending(s))
  BY <1>1, FS_Subset DEF PoolIsFinite
<1>3. IsFiniteSet(Passed(s, n)) /\ IsFiniteSet(Pending(s) \ Passed(s, n))
  BY <1>1, <1>2, FS_Subset
<1>4. Cardinality(Pending(s) \ Passed(s, n)) <= Cardinality(Pending(s))
  BY <1>2, FS_Subset
<1> QED
  BY <1>1, <1>2, <1>3, <1>4, FS_CardinalityType

LEMMA NonceType ==
  ASSUME TypeOK
  PROVE  /\ MaxNonce \in Nat /\ Nonce \subseteq Nat
         /\ \A s \in Sender : nonce[s] \in Nat /\ nonce[s] <= MaxNonce + 1
<1>1. MaxNonce \in Nat /\ Nonce \subseteq Nat
  BY MempoolAssumption DEF Nonce
<1>2. nonce \in [Sender -> 0 .. MaxNonce + 1]
  BY DEF TypeOK
<1>3. ASSUME NEW n \in 0 .. MaxNonce + 1
      PROVE  n \in Nat /\ n <= MaxNonce + 1
  BY <1>1
<1>4. \A s \in Sender : nonce[s] \in 0 .. MaxNonce + 1
  BY <1>2
<1> QED
  BY <1>1, <1>3, <1>4

LEMMA WaitingType ==
  ASSUME TypeOK, NEW a \in Admission, adds[a] # NoAdd
  PROVE  /\ adds[a].tx \in Tx /\ adds[a].nonce \in Nat
         /\ adds[a].tx.sender \in Sender /\ adds[a].tx.nonce \in Nat
<1>1. adds[a] \in [tx : Tx, nonce : 0 .. MaxNonce + 1]
  BY DEF TypeOK
<1>2. adds[a].tx \in Tx /\ adds[a].nonce \in 0 .. MaxNonce + 1
  BY <1>1
<1>3. adds[a].tx.sender \in Sender /\ adds[a].tx.nonce \in Nonce
  BY <1>2 DEF Tx
<1> QED
  BY <1>2, <1>3, MempoolAssumption DEF Nonce

-----------------------------------------------------------------------------
(* The properties hold at first.                                           *)

LEMMA InitSafe == Init => IInv
<1> SUFFICES ASSUME Init PROVE IInv
  OBVIOUS
<1> USE MempoolAssumption DEF Init
<1>1. TypeOK
  BY DEF TypeOK, Idle, Nonce
<1>2. CountAgrees /\ PoolIsFinite
  BY FS_EmptySet DEF CountAgrees, PoolIsFinite
<1>3. NoEmptyMap
  BY DEF NoEmptyMap, Idle
<1>4. OnePerNonce
  <2>1. \A s \in Sender : Pending(s) = {}
    BY DEF Pending
  <2> QED
    BY <2>1, FS_EmptySet DEF OnePerNonce
<1>5. TakenIsIncludable /\ PickedOnlyByTake
  BY FS_EmptySet DEF TakenIsIncludable, Picked, Idle, PickedOnlyByTake
<1>6. AddsSawThePast /\ PruneReachesStale
  BY DEF AddsSawThePast, PruneReachesStale, Idle, Stale
<1> QED
  BY <1>1, <1>2, <1>3, <1>4, <1>5, <1>6 DEF IInv

-----------------------------------------------------------------------------
(* Steps that leave the pool alone.                                        *)

LEMMA SamePool ==
  ASSUME UNCHANGED pool
  PROVE  /\ \A s : Pending(s)' = Pending(s)
         /\ \A s, n : HasPending(s, n)' = HasPending(s, n)
         /\ \A s, n : Passed(s, n)' = Passed(s, n)
         /\ CountAgrees /\ UNCHANGED count => CountAgrees'
         /\ OnePerNonce => OnePerNonce'
         /\ PoolIsFinite => PoolIsFinite'
<1>1. \A s : Pending(s)' = Pending(s)
  BY DEF Pending
<1> QED
  BY <1>1 DEF HasPending, Passed, CountAgrees, OnePerNonce, PoolIsFinite

LEMMA AddSafe ==
  ASSUME IInv, NEW a \in Admission, NEW t \in Tx, Add(a, t)
  PROVE  IInv'
<1> USE DEF IInv, Add
<1>1. TypeOK'
  <2>1. nonce[t.sender] \in 0 .. MaxNonce + 1
    BY DEF TypeOK, Tx
  <2> QED
    BY <2>1 DEF TypeOK
<1>2. CountAgrees' /\ OnePerNonce' /\ PoolIsFinite'
  BY SamePool
<1>3. NoEmptyMap' /\ PickedOnlyByTake' /\ PruneReachesStale'
  BY DEF NoEmptyMap, PickedOnlyByTake, PruneReachesStale, Stale
<1>4. TakenIsIncludable'
  BY SamePool DEF TakenIsIncludable, Picked
<1>5. AddsSawThePast'
  <2> SUFFICES ASSUME NEW b \in Admission, adds'[b] # NoAdd
               PROVE  adds'[b].nonce <= nonce[adds'[b].tx.sender]
    BY DEF AddsSawThePast
  <2>1. CASE b = a
    <3>1. adds'[b] = [tx |-> t, nonce |-> nonce[t.sender]]
      BY <2>1 DEF TypeOK
    <3>2. nonce[t.sender] \in Int
      BY NonceType DEF Tx
    <3> QED
      BY <3>1, <3>2
  <2>2. CASE b # a
    BY <2>2 DEF TypeOK, AddsSawThePast
  <2> QED
    BY <2>1, <2>2
<1> QED
  BY <1>1, <1>2, <1>3, <1>4, <1>5

LEMMA StartSafe ==
  ASSUME IInv, NEW kind \in {"take", "repair"}, Start(kind)
  PROVE  IInv'
<1> USE DEF IInv, Start
<1>1. TypeOK'
  BY DEF TypeOK
<1>2. CountAgrees' /\ OnePerNonce' /\ PoolIsFinite'
  BY SamePool
<1>3. NoEmptyMap' /\ PickedOnlyByTake' /\ PruneReachesStale' /\ AddsSawThePast'
  BY DEF NoEmptyMap, PickedOnlyByTake, PruneReachesStale, Stale, AddsSawThePast
<1>4. TakenIsIncludable'
  BY FS_EmptySet, MempoolAssumption DEF TakenIsIncludable, Picked
<1> QED
  BY <1>1, <1>2, <1>3, <1>4

LEMMA FinishSafe ==
  ASSUME IInv, Finish
  PROVE  IInv'
<1> USE DEF IInv, Finish, Idle
<1>1. TypeOK'
  BY DEF TypeOK
<1>2. CountAgrees' /\ OnePerNonce' /\ PoolIsFinite'
  BY SamePool
<1>3. NoEmptyMap' /\ PickedOnlyByTake' /\ AddsSawThePast'
  BY DEF NoEmptyMap, PickedOnlyByTake, AddsSawThePast
<1>4. TakenIsIncludable'
  BY FS_EmptySet, MempoolAssumption DEF TakenIsIncludable, Picked
<1>5. PruneReachesStale'
  BY DEF PruneReachesStale, Stale, TakeIsDone
<1> QED
  BY <1>1, <1>2, <1>3, <1>4, <1>5

-----------------------------------------------------------------------------
(* Taking a block, and commits.                                            *)

LEMMA VisitToTakeSafe ==
  ASSUME IInv, NEW s \in Sender, VisitToTake(s)
  PROVE  IInv'
<1>a. TypeOK /\ TakenIsIncludable
  BY DEF IInv
<1> DEFINE room  == MaxTake - Cardinality(engine.picked)
           taken == {<<s, n>> : n \in {n \in Run(s) : n < nonce[s] + room}}
<1>0. /\ engine.kind = "take" /\ s \in engine.todo /\ room > 0
      /\ engine' = [engine EXCEPT !.todo = @ \ {s}, !.picked = @ \cup taken]
      /\ UNCHANGED <<nonce, bySender, pool, count, adds, pruned, late>>
  BY DEF VisitToTake
<1> HIDE DEF taken
<1>1. /\ engine.picked \subseteq Sender \X Nonce
      /\ engine'.picked = engine.picked \cup taken
      /\ engine'.todo = engine.todo \ {s} /\ engine'.kind = engine.kind
  BY <1>0, <1>a DEF TypeOK
<1>2. taken \subseteq Sender \X Nonce
  BY DEF taken, Run
<1>3. TypeOK'
  BY <1>0, <1>1, <1>2, <1>a DEF TypeOK
<1>4. CountAgrees' /\ OnePerNonce' /\ PoolIsFinite'
  BY <1>0, SamePool DEF IInv
<1>5. NoEmptyMap' /\ PickedOnlyByTake' /\ PruneReachesStale' /\ AddsSawThePast'
  BY <1>0, <1>1 DEF IInv, NoEmptyMap, PickedOnlyByTake, PruneReachesStale, Stale,
                   AddsSawThePast
<1>6. nonce[s] \in Int /\ MaxTake \in Nat /\ Nonce \subseteq Int
  BY <1>a, NonceType, MempoolAssumption
<1>7. IsFiniteSet(engine.picked) /\ Cardinality(engine.picked) \in Nat
  <2>1. IsFiniteSet(Nonce)
    BY FS_Interval, MempoolAssumption DEF Nonce
  <2>2. IsFiniteSet(Sender \X Nonce)
    BY <2>1, MempoolAssumption, FS_Product
  <2> QED
    BY <1>1, <2>2, FS_Subset, FS_CardinalityType
<1>8. Cardinality(engine'.picked) <= MaxTake
  <2> DEFINE hi == nonce[s] + room - 1
  <2>1. room \in Int /\ hi \in Int /\ room > 0
    BY <1>0, <1>6, <1>7
  <2>2. \A p \in taken : p = <<s, p[2]>> /\ p[2] \in nonce[s] .. hi
    BY <1>6, <2>1 DEF taken, Run, Nonce
  <2> HIDE DEF hi, room
  <2>3. IsFiniteSet(taken) /\ Cardinality(taken) <= Cardinality(nonce[s] .. hi)
    BY <1>6, <2>1, <2>2, PicksInInterval
  <2>4. Cardinality(nonce[s] .. hi) = room
    BY <1>6, <2>1, IntervalSize DEF hi
  <2>5. /\ Cardinality(taken) \in Nat /\ Cardinality(engine.picked \cup taken) \in Nat
        /\ Cardinality(engine.picked \cup taken) <= Cardinality(engine.picked) + Cardinality(taken)
    BY <1>7, <2>3, UnionSize
  <2> QED
    BY <1>1, <1>6, <1>7, <2>1, <2>3, <2>4, <2>5 DEF room
<1>9. ASSUME NEW r \in Sender, NEW p \in engine'.picked, p[1] = r
      PROVE  /\ nonce[r] <= p[2] /\ HasPending(r, p[2])
             /\ \A m \in nonce[r] .. p[2] : <<r, m>> \in engine'.picked
  <2>1. CASE p \in engine.picked
    BY <1>1, <1>9, <2>1, <1>a DEF TakenIsIncludable, Picked
  <2>2. CASE p \in taken
    <3>1. PICK n \in Run(s) : n < nonce[s] + room /\ p = <<s, n>>
      BY <2>2 DEF taken
    <3>2. r = s /\ p[2] = n /\ n \in Nonce /\ n >= nonce[s]
          /\ \A m \in nonce[s] .. n : HasPending(s, m)
      BY <1>9, <3>1 DEF Run
    <3>3. n \in Int /\ n \in nonce[s] .. n
      <4>1. n \in Int
        BY <1>6, <3>2
      <4> QED
        BY <1>6, <3>2, <4>1
    <3>4. ASSUME NEW m \in nonce[s] .. n
          PROVE  <<s, m>> \in taken
      <4>0. nonce[s] \in Nat /\ room \in Int
        BY <1>a, <1>6, <1>7, NonceType
      <4>1. m \in Nonce /\ m >= nonce[s] /\ m < nonce[s] + room
        <5>1. m \in Int /\ m >= nonce[s] /\ m <= n
          BY <3>3, <4>0
        <5>2. n \in 0 .. MaxNonce /\ n < nonce[s] + room /\ MaxNonce \in Nat
          BY <1>a, <3>1, <3>2, NonceType DEF Nonce
        <5> HIDE DEF room
        <5> QED
          BY <3>3, <4>0, <5>1, <5>2 DEF Nonce
      <4>2. \A l \in nonce[s] .. m : HasPending(s, l)
        BY <1>6, <3>2, <3>3
      <4> QED
        BY <4>1, <4>2 DEF taken, Run
    <3> QED
      BY <1>1, <3>2, <3>3, <3>4
  <2> QED
    BY <1>1, <1>9, <2>1, <2>2
<1>10. TakenIsIncludable'
  <2>1. \A r, m : HasPending(r, m)' = HasPending(r, m)
    BY <1>0, SamePool
  <2> QED
    BY <1>0, <1>8, <1>9, <2>1 DEF TakenIsIncludable, Picked
<1> QED
  BY <1>3, <1>4, <1>5, <1>10 DEF IInv

\* What was taken of a sender is at most what is left of its nonces.
LEMMA PickedFits ==
  ASSUME IInv, NEW s \in Sender
  PROVE  /\ Cardinality(Picked(s)) \in Nat
         /\ nonce[s] + Cardinality(Picked(s)) <= MaxNonce + 1
<1>a. TypeOK /\ TakenIsIncludable
  BY DEF IInv
<1>1. nonce[s] \in Nat /\ nonce[s] <= MaxNonce + 1 /\ MaxNonce \in Nat
  BY <1>a, NonceType
<1>2. \A p \in Picked(s) : p = <<s, p[2]>> /\ p[2] \in nonce[s] .. MaxNonce
  <2>1. ASSUME NEW p \in Picked(s)
        PROVE  p = <<s, p[2]>> /\ p[2] \in Nonce /\ nonce[s] <= p[2]
    BY <1>a DEF TypeOK, Picked, TakenIsIncludable
  <2> QED
    BY <1>1, <2>1 DEF Nonce
<1>3. IsFiniteSet(Picked(s))
      /\ Cardinality(Picked(s)) <= Cardinality(nonce[s] .. MaxNonce)
  <2>1. nonce[s] \in Int /\ MaxNonce \in Int
    BY <1>1
  <2> QED
    BY <1>2, <2>1, PicksInInterval
<1>4. Cardinality(nonce[s] .. MaxNonce) = MaxNonce + 1 - nonce[s]
  BY <1>1, IntervalSize
<1>5. Cardinality(Picked(s)) \in Nat
  BY <1>3, FS_CardinalityType
<1> QED
  BY <1>1, <1>3, <1>4, <1>5

\* A commit raises nonces; prune follows, or the pool counts as not pruned.
LEMMA CommitKeeps ==
  ASSUME IInv, nonce' \in [Sender -> 0 .. MaxNonce + 1],
         \A s \in Sender : nonce[s] <= nonce'[s],
         engine' \in {Idle, [kind |-> "prune", todo |-> bySender, picked |-> {}]},
         pruned' = FALSE, UNCHANGED <<bySender, pool, count, adds, late>>
  PROVE  IInv'
<1>a. /\ TypeOK /\ CountAgrees /\ NoEmptyMap /\ OnePerNonce /\ TakenIsIncludable
      /\ PoolIsFinite /\ AddsSawThePast
  BY DEF IInv
<1>b. /\ engine'.kind \in {"idle", "prune"} /\ engine'.picked = {}
      /\ engine'.todo \subseteq bySender
      /\ engine'.kind = "prune" => engine'.todo = bySender
      /\ engine' \in [kind : {"idle", "take", "repair", "prune"},
                     todo : SUBSET Sender, picked : SUBSET (Sender \X Nonce)]
  BY <1>a DEF Idle, TypeOK
<1>1. TypeOK'
  BY <1>a, <1>b DEF TypeOK
<1>2. CountAgrees' /\ OnePerNonce' /\ PoolIsFinite'
  BY <1>a, SamePool
<1>3. NoEmptyMap' /\ PickedOnlyByTake'
  BY <1>a, <1>b DEF NoEmptyMap, PickedOnlyByTake
<1>4. PruneReachesStale'
  BY <1>a, <1>b DEF PruneReachesStale, Stale, NoEmptyMap
<1>5. TakenIsIncludable'
  BY <1>b, FS_EmptySet, MempoolAssumption DEF TakenIsIncludable, Picked
<1>6. AddsSawThePast'
  <2> SUFFICES ASSUME NEW a \in Admission, adds[a] # NoAdd
               PROVE  adds[a].nonce <= nonce'[adds[a].tx.sender]
    BY DEF AddsSawThePast
  <2>1. adds[a].tx.sender \in Sender /\ adds[a].nonce \in Nat
    BY <1>a, WaitingType
  <2>2. \A s \in Sender : nonce[s] \in Nat /\ nonce'[s] \in Nat
    BY <1>a, NonceType
  <2>3. adds[a].nonce <= nonce[adds[a].tx.sender]
    BY <1>a DEF AddsSawThePast
  <2> QED
    BY <2>1, <2>2, <2>3
<1> QED
  BY <1>1, <1>2, <1>3, <1>4, <1>5, <1>6 DEF IInv

LEMMA CommitTakenSafe ==
  ASSUME IInv, CommitTaken
  PROVE  IInv'
<1>1. nonce' = [s \in Sender |-> nonce[s] + Cardinality(Picked(s))]
  BY DEF CommitTaken
<1>2. \A s \in Sender : nonce'[s] \in 0 .. MaxNonce + 1 /\ nonce[s] <= nonce'[s]
  <2> TAKE s \in Sender
  <2>1. nonce[s] \in Nat /\ MaxNonce \in Nat
    BY NonceType DEF IInv
  <2>2. Cardinality(Picked(s)) \in Nat /\ nonce[s] + Cardinality(Picked(s)) <= MaxNonce + 1
    BY PickedFits
  <2> QED
    BY <1>1, <2>1, <2>2
<1> QED
  BY <1>1, <1>2, CommitKeeps DEF CommitTaken

LEMMA CommitOtherSafe ==
  ASSUME IInv, NEW s \in Sender, NEW prunes \in BOOLEAN, CommitOther(s, prunes)
  PROVE  IInv'
<1>1. nonce' = [nonce EXCEPT ![s] = @ + 1] /\ nonce[s] <= MaxNonce
  BY DEF CommitOther
<1>2. /\ nonce \in [Sender -> 0 .. MaxNonce + 1] /\ MaxNonce \in Nat
      /\ \A r \in Sender : nonce[r] \in Nat
  BY NonceType DEF IInv, TypeOK
<1>3. /\ nonce' \in [Sender -> 0 .. MaxNonce + 1]
      /\ \A r \in Sender : nonce[r] <= nonce'[r]
  BY <1>1, <1>2
<1> QED
  BY <1>3, CommitKeeps DEF CommitOther

-----------------------------------------------------------------------------
(* Steps that change the pool.                                             *)

\* Some transactions of a sender go, all of them below the account's nonce.
LEMMA Removing ==
  ASSUME IInv, NEW s \in Sender, NEW n \in Nat, n <= nonce[s],
         Without(Passed(s, n))
  PROVE  /\ pool' \subseteq pool /\ late' \subseteq pool' /\ PoolIsFinite' /\ CountAgrees'
         /\ count' \in Nat
         /\ OnePerNonce'
         /\ Pending(s)' = Pending(s) \ Passed(s, n)
         /\ \A r \in Sender \ {s} : Pending(r)' = Pending(r)
         /\ \A t \in pool : t.nonce >= nonce[t.sender] => t \in pool'
<1> DEFINE gone == Passed(s, n)
<1>a. TypeOK /\ CountAgrees /\ OnePerNonce /\ PoolIsFinite
  BY DEF IInv
<1>1. gone \subseteq pool /\ pool' = pool \ gone /\ late' = late \ gone
      /\ count' = count - Cardinality(gone)
  BY DEF Without, Passed, Pending
<1>2. \A t \in gone : t.sender = s /\ t.nonce < n
  BY DEF Passed, Pending
<1>3. pool' \subseteq pool /\ late' \subseteq pool'
  BY <1>a, <1>1 DEF TypeOK
<1>4. PoolIsFinite' /\ CountAgrees' /\ count' \in Nat
  <2> HIDE DEF gone
  <2>1. /\ IsFiniteSet(pool \ gone) /\ Cardinality(pool \ gone) \in Nat
        /\ Cardinality(pool \ gone) = Cardinality(pool) - Cardinality(gone)
    BY <1>a, <1>1, Removal DEF PoolIsFinite
  <2> QED
    BY <1>a, <1>1, <2>1 DEF PoolIsFinite, CountAgrees
<1>5. /\ Pending(s)' = Pending(s) \ gone
      /\ \A r \in Sender \ {s} : Pending(r)' = Pending(r)
  BY <1>1, <1>2 DEF Pending
<1>6. OnePerNonce'
  <2>1. ASSUME NEW r \in Sender
        PROVE  Cardinality(Pending(r)') <= MaxPerSender
    <3>1. /\ Cardinality(Pending(r)) <= MaxPerSender /\ MaxPerSender \in Nat
          /\ IsFiniteSet(Pending(r)) /\ Cardinality(Pending(r)) \in Nat
      BY <1>a, PendingFinite, MempoolAssumption DEF OnePerNonce
    <3>2. Pending(r)' \in SUBSET Pending(r)
      BY <1>3 DEF Pending
    <3>3. /\ Cardinality(Pending(r)') <= Cardinality(Pending(r))
          /\ Cardinality(Pending(r)') \in Nat
      BY <3>1, <3>2, FS_Subset, FS_CardinalityType
    <3> QED
      BY <3>1, <3>3
  <2> QED
    BY <1>a, <1>3, <2>1 DEF OnePerNonce
<1>7. ASSUME NEW t \in pool, t.nonce >= nonce[t.sender]
      PROVE  t \in pool'
  <2>1. t.nonce \in Nat /\ nonce[s] \in Nat
    BY <1>a, NonceType DEF TypeOK, Tx
  <2>2. t \notin gone
    BY <1>2, <1>7, <2>1
  <2> QED
    BY <1>1, <2>2
<1> QED
  BY <1>3, <1>4, <1>5, <1>6, <1>7

LEMMA VisitToPruneSafe ==
  ASSUME IInv, NEW s \in Sender, VisitToPrune(s)
  PROVE  IInv'
<1>a. /\ TypeOK /\ NoEmptyMap /\ TakenIsIncludable /\ AddsSawThePast
      /\ PruneReachesStale /\ PickedOnlyByTake
  BY DEF IInv
<1>0. /\ engine.kind \in {"prune", "repair"} /\ s \in engine.todo
      /\ Without(Passed(s, nonce[s]))
      /\ bySender' = IF Pending(s) = Passed(s, nonce[s]) THEN bySender \ {s} ELSE bySender
      /\ engine' = [engine EXCEPT !.todo = @ \ {s}]
      /\ UNCHANGED <<nonce, adds, pruned>>
  BY DEF VisitToPrune, PruneAt
<1>1. nonce[s] \in Nat /\ nonce[s] <= nonce[s]
  BY <1>a, NonceType
<1>2. /\ pool' \subseteq pool /\ late' \subseteq pool' /\ PoolIsFinite' /\ CountAgrees'
      /\ count' \in Nat /\ OnePerNonce'
      /\ Pending(s)' = Pending(s) \ Passed(s, nonce[s])
      /\ \A r \in Sender \ {s} : Pending(r)' = Pending(r)
  BY <1>0, <1>1, Removing
<1>3. /\ engine'.kind = engine.kind /\ engine'.picked = engine.picked
      /\ engine'.todo = engine.todo \ {s} /\ engine.picked = {}
  BY <1>0, <1>a DEF TypeOK, PickedOnlyByTake
<1>4. TypeOK'
  BY <1>0, <1>2, <1>a DEF TypeOK
<1>5. NoEmptyMap'
  <2>1. \A r : (r \in {t.sender : t \in pool}) <=> Pending(r) # {}
    BY DEF Pending
  <2>2. \A r : (r \in {t.sender : t \in pool}') <=> Pending(r)' # {}
    BY DEF Pending
  <2>3. \A t \in pool : t.sender \in Sender
    BY <1>a DEF TypeOK, Tx
  <2>4. ASSUME NEW r PROVE (r \in bySender') <=> (r \in {t.sender : t \in pool}')
    <3>1. (r \in bySender) <=> Pending(r) # {}
      BY <1>a, <2>1 DEF NoEmptyMap
    <3>2. CASE r = s
      <4>1. Passed(s, nonce[s]) \subseteq Pending(s)
        BY DEF Passed
      <4>2. (r \in bySender') <=> (r \in bySender /\ Pending(s) # Passed(s, nonce[s]))
        BY <1>0, <3>2
      <4> QED
        BY <1>2, <2>2, <3>1, <3>2, <4>1, <4>2
    <3>3. CASE r # s
      <4>1. Pending(r)' = Pending(r)
        <5>1. CASE r \in Sender
          BY <1>2, <3>3, <5>1
        <5>2. CASE r \notin Sender
          BY <1>2, <2>3, <5>2 DEF Pending
        <5> QED
          BY <5>1, <5>2
      <4>2. (r \in bySender') <=> (r \in bySender)
        BY <1>0, <3>3
      <4> QED
        BY <2>2, <3>1, <4>1, <4>2
    <3> QED
      BY <3>2, <3>3
  <2>5. engine'.todo \subseteq bySender'
    BY <1>0, <1>3, <1>a DEF NoEmptyMap
  <2> QED
    BY <2>4, <2>5 DEF NoEmptyMap
<1>6. TakenIsIncludable' /\ PickedOnlyByTake'
  BY <1>0, <1>3, FS_EmptySet, MempoolAssumption
  DEF TakenIsIncludable, Picked, PickedOnlyByTake
<1>7. AddsSawThePast'
  BY <1>0, <1>a DEF AddsSawThePast
<1>8. PruneReachesStale'
  <2>1. Stale' \subseteq Stale /\ Stale' \ late' \subseteq Stale \ late
    BY <1>0, <1>2, <1>a DEF Stale, Without, PruneReachesStale
  <2>2. \A t \in Stale' : t.sender # s
    BY <1>0, <1>1 DEF Stale, Without, Passed, Pending
  <2> QED
    BY <1>0, <1>3, <1>a, <2>1, <2>2 DEF PruneReachesStale
<1> QED
  BY <1>2, <1>4, <1>5, <1>6, <1>7, <1>8 DEF IInv

\* What an admission finds when it goes on.
LEMMA AddWaits ==
  ASSUME IInv, NEW a \in Admission, AddReturn(a)
  PROVE  /\ adds[a].tx \in Tx /\ adds[a].tx.sender \in Sender
         /\ adds[a].nonce \in Nat /\ adds[a].nonce <= nonce[adds[a].tx.sender]
         /\ adds' = [adds EXCEPT ![a] = NoAdd] /\ nonce' = nonce /\ pruned' = pruned
         /\ AddsSawThePast'
         /\ adds' \in [Admission -> {NoAdd} \cup [tx : Tx, nonce : 0 .. MaxNonce + 1]]
<1>1. adds[a] # NoAdd /\ adds' = [adds EXCEPT ![a] = NoAdd] /\ nonce' = nonce /\ pruned' = pruned
  BY DEF AddReturn
<1>2. TypeOK /\ AddsSawThePast
  BY DEF IInv
<1>3. adds \in [Admission -> {NoAdd} \cup [tx : Tx, nonce : 0 .. MaxNonce + 1]]
  BY <1>2 DEF TypeOK
<1>4. AddsSawThePast'
  BY <1>1, <1>2, <1>3 DEF AddsSawThePast
<1>5. adds[a].nonce <= nonce[adds[a].tx.sender]
  BY <1>1, <1>2 DEF AddsSawThePast
<1> QED
  BY <1>1, <1>2, <1>3, <1>4, <1>5, WaitingType

\* An admission that is refused: its sender keeps a transaction at least.
LEMMA RefusalSafe ==
  ASSUME IInv, NEW a \in Admission, AddReturn(a),
         NEW t \in Tx, t = adds[a].tx, NEW n \in Nat, n = adds[a].nonce,
         ~Admits(t, n)
  PROVE  IInv'
<1> DEFINE s == t.sender
<1>a. /\ TypeOK /\ NoEmptyMap /\ TakenIsIncludable /\ CountAgrees /\ OnePerNonce
      /\ PoolIsFinite /\ PruneReachesStale /\ PickedOnlyByTake
  BY DEF IInv
<1>b. /\ t \in Tx /\ s \in Sender /\ n \in Nat /\ n <= nonce[s]
      /\ nonce' = nonce /\ pruned' = pruned /\ AddsSawThePast'
      /\ adds' \in [Admission -> {NoAdd} \cup [tx : Tx, nonce : 0 .. MaxNonce + 1]]
  BY AddWaits
<1>c. /\ IF t.nonce >= n THEN Without(Passed(s, n)) ELSE UNCHANGED <<pool, count, late>>
      /\ UNCHANGED <<bySender, engine>>
  BY DEF AddReturn
<1>d. t.nonce \in Nat /\ t.nonce \in Nonce /\ nonce[s] \in Nat
  BY <1>a, <1>b, NonceType DEF Tx
<1> HIDE DEF s
<1>1. CASE t.nonce < n
  <2>1. UNCHANGED <<pool, count, late, bySender, engine, nonce, pruned>>
    BY <1>b, <1>c, <1>d, <1>1
  <2>2. CountAgrees' /\ OnePerNonce' /\ PoolIsFinite'
    BY <1>a, <2>1, SamePool
  <2>3. TypeOK' /\ NoEmptyMap' /\ PruneReachesStale' /\ PickedOnlyByTake'
    BY <1>a, <1>b, <2>1 DEF TypeOK, NoEmptyMap, PruneReachesStale, Stale, PickedOnlyByTake
  <2>4. TakenIsIncludable'
    BY <1>a, <2>1, SamePool DEF TakenIsIncludable, Picked
  <2> QED
    BY <1>b, <2>2, <2>3, <2>4 DEF IInv
<1>2. CASE t.nonce >= n
  <2>0. Without(Passed(s, n))
    BY <1>c, <1>2
  <2>1. /\ pool' \subseteq pool /\ late' \subseteq pool' /\ PoolIsFinite' /\ CountAgrees'
        /\ count' \in Nat /\ OnePerNonce'
        /\ Pending(s)' = Pending(s) \ Passed(s, n)
        /\ \A r \in Sender \ {s} : Pending(r)' = Pending(r)
        /\ \A u \in pool : u.nonce >= nonce[u.sender] => u \in pool'
    BY <1>b, <2>0, Removing
  <2>2. TypeOK'
    BY <1>a, <1>b, <1>c, <2>1 DEF TypeOK
  <2>3. Pending(s) \ Passed(s, n) # {}
    <3>1. CASE HasPending(s, t.nonce)
      <4>1. PICK u \in pool : u.sender = s /\ u.nonce = t.nonce
        BY <3>1 DEF HasPending
      <4>2. ~(u.nonce < n)
        BY <1>2, <1>b, <1>d, <4>1
      <4> QED
        BY <4>1, <4>2 DEF Pending, Passed
    <3>2. CASE ~HasPending(s, t.nonce)
      <4>1. ~(Cardinality(Pending(s) \ Passed(s, n)) < MaxPerSender)
        BY <1>2, <3>2 DEF Admits, s
      <4>2. Cardinality(Pending(s) \ Passed(s, n)) # 0
        BY <4>1, MempoolAssumption
      <4> QED
        BY <4>2, FS_EmptySet
    <3> QED
      BY <3>1, <3>2
  <2>4. NoEmptyMap'
    <3>1. \A u \in pool : u.sender \in Sender
      BY <1>a DEF TypeOK, Tx
    <3>2. ASSUME NEW u \in pool
          PROVE  \E v \in pool' : v.sender = u.sender
      <4>1. CASE u.sender = s
        BY <2>1, <2>3, <4>1 DEF Pending
      <4>2. CASE u.sender # s
        <5>1. Pending(u.sender)' = Pending(u.sender)
          BY <2>1, <3>1, <4>2
        <5> QED
          BY <5>1 DEF Pending
      <4> QED
        BY <4>1, <4>2
    <3>3. {u.sender : u \in pool}' = {u.sender : u \in pool}
      BY <2>1, <3>2
    <3> QED
      BY <1>a, <1>c, <3>3 DEF NoEmptyMap
  <2>5. TakenIsIncludable' /\ PickedOnlyByTake'
    <3>1. engine.picked \subseteq Sender \X Nonce
      BY <1>a DEF TypeOK
    <3>2. ASSUME NEW r \in Sender, NEW p \in engine.picked, p[1] = r
          PROVE  HasPending(r, p[2])'
      <4>1. HasPending(r, p[2]) /\ nonce[r] <= p[2]
        BY <1>a, <3>2 DEF TakenIsIncludable, Picked
      <4>2. PICK u \in pool : u.sender = r /\ u.nonce = p[2]
        BY <4>1 DEF HasPending
      <4>3. p[2] \in Nat /\ nonce[r] \in Nat
        BY <1>a, <3>1, <3>2, NonceType
      <4>4. u \in pool'
        BY <2>1, <4>1, <4>2, <4>3
      <4> QED
        BY <4>2, <4>4 DEF HasPending
    <3> QED
      BY <1>a, <1>b, <1>c, <3>2 DEF TakenIsIncludable, Picked, PickedOnlyByTake
  <2>6. PruneReachesStale'
    <3>1. Stale' \subseteq Stale /\ Stale' \ late' \subseteq Stale \ late
      BY <1>b, <2>0, <2>1 DEF Stale, Without
    <3> QED
      BY <1>a, <1>b, <1>c, <3>1, <2>0 DEF PruneReachesStale, Without, Stale
  <2> QED
    BY <1>b, <2>1, <2>2, <2>4, <2>5, <2>6 DEF IInv
<1> QED
  BY <1>1, <1>2, <1>b, <1>d

\* An admission that is accepted: it is below the limit, at a nonce of its own.
LEMMA AcceptanceSafe ==
  ASSUME IInv, NEW a \in Admission, AddReturn(a),
         NEW t \in Tx, t = adds[a].tx, NEW n \in Nat, n = adds[a].nonce,
         Admits(t, n)
  PROVE  IInv'
<1> DEFINE s == t.sender
           gone == Passed(s, n)
<1>a. /\ TypeOK /\ NoEmptyMap /\ TakenIsIncludable /\ CountAgrees /\ OnePerNonce
      /\ PoolIsFinite /\ PruneReachesStale /\ PickedOnlyByTake
  BY DEF IInv
<1>b. /\ s \in Sender /\ n <= nonce[s]
      /\ nonce' = nonce /\ pruned' = pruned /\ AddsSawThePast'
      /\ adds' \in [Admission -> {NoAdd} \cup [tx : Tx, nonce : 0 .. MaxNonce + 1]]
  BY AddWaits
<1>c. /\ pool' = (pool \ gone) \cup {t}
      /\ count' = count - Cardinality(gone) + 1
      /\ bySender' = bySender \cup {s}
      /\ late' = IF t.nonce < nonce[s] THEN (late \ gone) \cup {t} ELSE late \ gone
      /\ engine' = IF engine.kind = "prune" /\ s \notin bySender
                     THEN [engine EXCEPT !.todo = @ \cup {s}] ELSE engine
  BY DEF AddReturn
<1>d. t.nonce \in Nat /\ t.nonce \in Nonce /\ nonce[s] \in Nat
  BY <1>a, <1>b, NonceType DEF Tx
<1>e. /\ t.nonce >= n /\ ~HasPending(s, t.nonce)
      /\ Cardinality(Pending(s) \ gone) < MaxPerSender
  BY DEF Admits
<1>f. gone \subseteq pool /\ \A u \in gone : u.sender = s /\ u.nonce < n
  BY DEF Passed, Pending
<1>g. /\ engine'.kind = engine.kind /\ engine'.picked = engine.picked
      /\ engine'.todo = IF engine.kind = "prune" /\ s \notin bySender
                           THEN engine.todo \cup {s} ELSE engine.todo
      /\ engine' \in [kind : {"idle", "take", "repair", "prune"},
                     todo : SUBSET Sender, picked : SUBSET (Sender \X Nonce)]
  BY <1>a, <1>b, <1>c DEF TypeOK
<1>h. t \notin pool
  BY <1>e DEF HasPending
<1> HIDE DEF s, gone
<1>1. PoolIsFinite' /\ CountAgrees' /\ count' \in Nat
  <2>1. /\ IsFiniteSet(pool \ gone) /\ Cardinality(pool \ gone) \in Nat
        /\ Cardinality(pool \ gone) = Cardinality(pool) - Cardinality(gone)
    BY <1>a, <1>f, Removal DEF PoolIsFinite
  <2>2. /\ IsFiniteSet((pool \ gone) \cup {t})
        /\ Cardinality((pool \ gone) \cup {t}) = Cardinality(pool \ gone) + 1
    BY <1>h, <2>1, FS_AddElement
  <2> QED
    BY <1>a, <1>c, <2>1, <2>2 DEF PoolIsFinite, CountAgrees
<1>2. TypeOK'
  <2>1. pool' \subseteq Tx /\ late' \subseteq pool' /\ bySender' \subseteq Sender
    BY <1>a, <1>b, <1>c DEF TypeOK
  <2> QED
    BY <1>a, <1>b, <1>g, <1>1, <2>1 DEF TypeOK
<1>3. OnePerNonce'
  <2>1. \A u \in pool : ~(u.sender = s /\ u.nonce = t.nonce)
    BY <1>e DEF HasPending
  <2>2. \A u, v \in pool' : u.sender = v.sender /\ u.nonce = v.nonce => u = v
    BY <1>a, <1>c, <2>1 DEF OnePerNonce, s
  <2>3. ASSUME NEW r \in Sender
        PROVE  Cardinality(Pending(r)') <= MaxPerSender
    <3>1. /\ Cardinality(Pending(r)) <= MaxPerSender /\ MaxPerSender \in Nat
          /\ IsFiniteSet(Pending(r)) /\ Cardinality(Pending(r)) \in Nat
      BY <1>a, PendingFinite, MempoolAssumption DEF OnePerNonce
    <3>2. CASE r = s
      <4>1. Pending(r)' = (Pending(s) \ gone) \cup {t}
        BY <1>c, <3>2 DEF Pending, s
      <4>2. IsFiniteSet(Pending(s) \ gone) /\ Cardinality(Pending(s) \ gone) \in Nat
        BY <3>1, <3>2, FS_Subset, FS_CardinalityType
      <4>3. t \notin Pending(s) \ gone
        BY <1>h DEF Pending
      <4>4. Cardinality(Pending(r)') = Cardinality(Pending(s) \ gone) + 1
        BY <4>1, <4>2, <4>3, FS_AddElement
      <4> QED
        BY <1>e, <3>1, <4>2, <4>4
    <3>3. CASE r # s
      <4>1. Pending(r)' = Pending(r)
        BY <1>c, <1>f, <3>3 DEF Pending, s
      <4> QED
        BY <3>1, <4>1
    <3> QED
      BY <3>2, <3>3
  <2> QED
    BY <2>2, <2>3 DEF OnePerNonce
<1>4. NoEmptyMap'
  <2>1. {u.sender : u \in pool'} = bySender'
    BY <1>a, <1>c, <1>f DEF NoEmptyMap, s
  <2>2. engine'.todo \subseteq bySender'
    BY <1>a, <1>c, <1>g DEF NoEmptyMap
  <2> QED
    BY <2>1, <2>2 DEF NoEmptyMap
<1>5. TakenIsIncludable' /\ PickedOnlyByTake'
  <2>1. engine.picked \subseteq Sender \X Nonce
    BY <1>a DEF TypeOK
  <2>2. ASSUME NEW r \in Sender, NEW p \in engine.picked, p[1] = r
        PROVE  HasPending(r, p[2])'
    <3>1. HasPending(r, p[2]) /\ nonce[r] <= p[2]
      BY <1>a, <2>2 DEF TakenIsIncludable, Picked
    <3>2. PICK u \in pool : u.sender = r /\ u.nonce = p[2]
      BY <3>1 DEF HasPending
    <3>3. p[2] \in Nat /\ nonce[r] \in Nat
      BY <1>a, <2>1, <2>2, NonceType
    <3>4. u \notin gone
      BY <1>b, <1>d, <1>f, <3>1, <3>2, <3>3
    <3> QED
      BY <1>c, <3>2, <3>4 DEF HasPending
  <2> QED
    BY <1>a, <1>b, <1>g, <2>2 DEF TakenIsIncludable, Picked, PickedOnlyByTake
<1>6. PruneReachesStale'
  <2>1. Stale' \ late' \subseteq Stale \ late
    BY <1>b, <1>c DEF Stale, s
  <2>2. ASSUME NEW u \in Stale', u \notin Stale
        PROVE  u \in late'
    BY <1>b, <1>c, <2>2 DEF Stale, s
  <2>3. ASSUME NEW u \in Stale', u \in late
        PROVE  u \in late'
    BY <1>b, <1>c, <2>3, <1>f, <1>h, <1>a DEF Stale, s, TypeOK
  <2> QED
    BY <1>a, <1>b, <1>g, <2>1, <2>2, <2>3 DEF PruneReachesStale
<1> QED
  BY <1>b, <1>1, <1>2, <1>3, <1>4, <1>5, <1>6 DEF IInv

-----------------------------------------------------------------------------
(* The theorems.                                                           *)

LEMMA SafeStep == IInv /\ [Next]_vars => IInv'
<1> SUFFICES ASSUME IInv, [Next]_vars PROVE IInv'
  OBVIOUS
<1>1. ASSUME NEW a \in Admission, NEW t \in Tx, Add(a, t) PROVE IInv'
  BY <1>1, AddSafe
<1>2. ASSUME NEW a \in Admission, AddReturn(a) PROVE IInv'
  <2>1. adds[a].tx \in Tx /\ adds[a].nonce \in Nat
    BY <1>2, AddWaits
  <2>2. PICK t \in Tx : t = adds[a].tx
    BY <2>1
  <2>3. PICK n \in Nat : n = adds[a].nonce
    BY <2>1
  <2> QED
    BY <1>2, <2>2, <2>3, AcceptanceSafe, RefusalSafe
<1>3. ASSUME NEW kind \in {"take", "repair"}, Start(kind) PROVE IInv'
  BY <1>3, StartSafe
<1>4. ASSUME NEW s \in Sender, VisitToPrune(s) PROVE IInv'
  BY <1>4, VisitToPruneSafe
<1>5. ASSUME NEW s \in Sender, VisitToTake(s) PROVE IInv'
  BY <1>5, VisitToTakeSafe
<1>6. ASSUME NEW s \in Sender, NEW prunes \in BOOLEAN, CommitOther(s, prunes) PROVE IInv'
  BY <1>6, CommitOtherSafe
<1>7. CASE Finish
  BY <1>7, FinishSafe
<1>8. CASE CommitTaken
  BY <1>8, CommitTakenSafe
<1>9. CASE UNCHANGED vars
  <2>1. UNCHANGED pool /\ UNCHANGED <<nonce, bySender, count, adds, engine, pruned, late>>
    BY <1>9 DEF vars
  <2>2. CountAgrees' /\ OnePerNonce' /\ PoolIsFinite'
    BY <2>1, SamePool DEF IInv
  <2>3. TypeOK' /\ NoEmptyMap' /\ AddsSawThePast' /\ PruneReachesStale' /\ PickedOnlyByTake'
    BY <2>1 DEF IInv, TypeOK, NoEmptyMap, AddsSawThePast, PruneReachesStale, Stale,
                PickedOnlyByTake
  <2>4. TakenIsIncludable'
    BY <2>1, SamePool DEF IInv, TakenIsIncludable, Picked
  <2> QED
    BY <2>2, <2>3, <2>4 DEF IInv
<1> QED
  BY <1>1, <1>2, <1>3, <1>4, <1>5, <1>6, <1>7, <1>8, <1>9 DEF Next

\* The inductive invariant holds of the mempool.
THEOREM SafetyInvariant == Spec => []IInv
  BY InitSafe, SafeStep, PTL DEF Spec

\* The mempool's variables keep their types.
THEOREM TypeCorrect == Spec => []TypeOK
<1>1. IInv => TypeOK
  BY DEF IInv
<1> QED
  BY <1>1, SafetyInvariant, PTL

\* size is the number of pending transactions (mempool.ts: count).
THEOREM SizeIsExact == Spec => []CountAgrees
<1>1. IInv => CountAgrees
  BY DEF IInv
<1> QED
  BY <1>1, SafetyInvariant, PTL

\* takeForBlock and prune never find a sender without a transaction, however
\* admissions interleave with them.
THEOREM FirstPendingExists == Spec => []NoEmptyMap
<1>1. IInv => NoEmptyMap
  BY DEF IInv
<1> QED
  BY <1>1, SafetyInvariant, PTL

\* No replacement of a pending transaction, and no sender above the limit.
THEOREM OneTransactionPerNonce == Spec => []OnePerNonce
<1>1. IInv => OnePerNonce
  BY DEF IInv
<1> QED
  BY <1>1, SafetyInvariant, PTL

\* The three, with the types, as one statement about the pool at every await.
THEOREM ConsistentPool == Spec => []PoolIsConsistent
  BY TypeCorrect, SizeIsExact, FirstPendingExists, OneTransactionPerNonce, PTL
     DEF PoolIsConsistent

\* takeForBlock returns next nonces without gaps, within its limit.
THEOREM TakesWhatFits == Spec => []TakenIsIncludable
<1>1. IInv => TakenIsIncludable
  BY DEF IInv
<1> QED
  BY <1>1, SafetyInvariant, PTL

\* After a prune, only a late admission leaves what the chain has passed.
THEOREM PruneIsComplete == Spec => []StaleOnlyIfLate
<1>1. IInv => StaleOnlyIfLate
  BY DEF IInv, PruneReachesStale, StaleOnlyIfLate
<1> QED
  BY <1>1, SafetyInvariant, PTL
-----------------------------------------------------------------------------
(* TxGossip: NothingLostInGossip for any peers, entrance and limits.  Two      *)
(* things make it inductive.  Everything under way was submitted at the         *)
(* entrance, which has it pending until it is executed (Known), so what arrives  *)
(* there is not new and need not be on its way to anyone.  And backlog and       *)
(* admissions keep their bounds, so the backlog's offset and what waits beyond   *)
(* it stay together.                                                         *)

\* Transactions that are pending at the entrance, or too old to matter.
Known == {t \in Nat : t >= executed => t \in pooled[Entrance]}

Frames(T) == [kind : {"txs"}, txs : Seq(T)] \cup [kind : {"request"}, nonce : Nat]
Backlogs(T) == [txs : Seq(T), offset : Nat]
Admissions(T) == [tx : T, at : Nat]

\* Types, where T are the transactions there are.
Typed(T) ==
  /\ executed \in Nat /\ gossipFaults \in Nat
  /\ pooled \in [Peer -> SUBSET T] /\ \A p \in Peer : IsFiniteSet(pooled[p])
  /\ batch \in [Peer -> Seq(T)]
  /\ wire \in [Links -> Seq(Frames(T))]
  /\ backlog \in [Peer -> Backlogs(T)]
  /\ admitting \in [Peer -> SUBSET Admissions(T)]
  /\ life \in [Peer -> {"running", "stopping", "closed"}]

WithinBacklog(b) == b.offset <= Len(b.txs)
WithinAdmissions(as) == IsFiniteSet(as) /\ Cardinality(as) <= MaxAdmissions

Bounded ==
  \A p \in Peer :
    /\ WithinAdmissions(admitting[p])
    /\ Running(p) => WithinBacklog(backlog[p])

AllRunning == gossipFaults = 0 => \A p \in Peer : Running(p)

ClosedIdle == \A p \in Peer : life[p] = "closed" => admitting[p] = {}

Has(t, p) == t \in pooled[p] \/ OnItsWay(t, p)

NothingLost ==
  gossipFaults = 0 => \A t \in pooled[Entrance], p \in Peer \ {Entrance} : Has(t, p)

GossipInv ==
  /\ Typed(Known) /\ Bounded /\ AllRunning /\ ClosedIdle /\ NothingLost
  /\ \A t \in pooled[Entrance] : t >= executed

\* What a step owes to each transaction but for those it executes.
Kept ==
  \A t \in Nat, p \in Peer \ {Entrance} :
    gossipFaults' = 0 /\ t >= executed' /\ Has(t, p) => Has(t, p)'

-----------------------------------------------------------------------------
(* The backlog. *)

LEMMA WaitsIs ==
  ASSUME NEW T, NEW b \in Backlogs(T), WithinBacklog(b)
  PROVE  /\ Waits(b) \in Seq(T) /\ Len(Waits(b)) = Len(b.txs) - b.offset
         /\ \A i \in 1 .. Len(Waits(b)) : Waits(b)[i] = b.txs[b.offset + i]
<1> DEFINE m == b.offset + 1
           n == Len(b.txs)
<1>1. b.txs \in Seq(T) /\ b.offset \in Nat /\ n \in Nat /\ b.offset <= n
  BY LenProperties DEF Backlogs, WithinBacklog
<1>2. m \in Int /\ n \in Int /\ \A i \in m .. n : b.txs[i] \in T
  BY <1>1, ElementOfSeq
<1>3. /\ SubSeq(b.txs, m, n) \in Seq(T)
      /\ Len(SubSeq(b.txs, m, n)) = IF m <= n THEN n - m + 1 ELSE 0
      /\ \A i \in 1 .. n - m + 1 : SubSeq(b.txs, m, n)[i] = b.txs[m + i - 1]
  <2> HIDE DEF m, n
  <2> QED BY <1>2, SubSeqProperties
<1>4. Waits(b) = SubSeq(b.txs, m, n)
  BY DEF Waits
<1>5. Len(Waits(b)) = n - b.offset
  BY <1>1, <1>3, <1>4
<1>6. ASSUME NEW i \in 1 .. Len(Waits(b)) PROVE Waits(b)[i] = b.txs[b.offset + i]
  <2>1. i \in 1 .. n - m + 1 /\ m + i - 1 = b.offset + i
    BY <1>1, <1>5
  <2> QED BY <1>3, <1>4, <2>1
<1> QED
  BY <1>3, <1>4, <1>5, <1>6

\* What a frame brings waits behind what did.
LEMMA FrameWaits ==
  ASSUME NEW T, NEW b \in Backlogs(T), WithinBacklog(b), NEW txs \in Seq(T)
  PROVE  LET c == [b EXCEPT !.txs = b.txs \o txs] IN
         /\ c \in Backlogs(T) /\ WithinBacklog(c)
         /\ Range(Waits(b)) \cup Range(txs) \subseteq Range(Waits(c))
<1> DEFINE c == [b EXCEPT !.txs = b.txs \o txs]
<1>1. /\ b.txs \in Seq(T) /\ b.offset \in Nat /\ Len(b.txs) \in Nat /\ Len(txs) \in Nat
      /\ b.offset <= Len(b.txs)
  BY LenProperties DEF Backlogs, WithinBacklog
<1>2. /\ b.txs \o txs \in Seq(T)
      /\ Len(b.txs \o txs) = Len(b.txs) + Len(txs)
      /\ \A i \in 1 .. Len(b.txs) + Len(txs) :
           (b.txs \o txs)[i] = IF i <= Len(b.txs) THEN b.txs[i] ELSE txs[i - Len(b.txs)]
  BY <1>1, ConcatProperties
<1>3. c \in Backlogs(T) /\ c.txs = b.txs \o txs /\ c.offset = b.offset
  BY <1>1, <1>2 DEF Backlogs
<1> HIDE DEF c
<1>4. WithinBacklog(c)
  BY <1>1, <1>2, <1>3 DEF WithinBacklog
<1>5. /\ Waits(b) \in Seq(T) /\ Len(Waits(b)) = Len(b.txs) - b.offset
      /\ Waits(c) \in Seq(T) /\ Len(Waits(c)) = Len(b.txs) + Len(txs) - b.offset
      /\ \A i \in 1 .. Len(Waits(b)) : Waits(b)[i] = b.txs[b.offset + i]
      /\ \A i \in 1 .. Len(Waits(c)) : Waits(c)[i] = (b.txs \o txs)[b.offset + i]
  <2>1. /\ Waits(c) \in Seq(T) /\ Len(Waits(c)) = Len(c.txs) - c.offset
        /\ \A i \in 1 .. Len(Waits(c)) : Waits(c)[i] = c.txs[c.offset + i]
    BY <1>3, <1>4, WaitsIs
  <2>2. /\ Waits(b) \in Seq(T) /\ Len(Waits(b)) = Len(b.txs) - b.offset
        /\ \A i \in 1 .. Len(Waits(b)) : Waits(b)[i] = b.txs[b.offset + i]
    BY WaitsIs
  <2>3. \A i \in 1 .. Len(Waits(c)) : Waits(c)[i] = (b.txs \o txs)[b.offset + i]
    BY <1>3, <2>1
  <2>4. Len(Waits(c)) = Len(b.txs) + Len(txs) - b.offset
    <3>1. Len(b.txs \o txs) = Len(b.txs) + Len(txs)
      BY <1>2
    <3>2. Len(Waits(c)) = Len(b.txs \o txs) - b.offset
      BY <1>3, <2>1
    <3> QED BY <1>1, <3>1, <3>2
  <2> QED BY <2>1, <2>2, <2>3, <2>4
<1>6. ASSUME NEW i \in 1 .. Len(Waits(b)) PROVE Waits(b)[i] \in Range(Waits(c))
  <2>1. i \in 1 .. Len(Waits(c)) /\ b.offset + i <= Len(b.txs)
    BY <1>1, <1>5
  <2>2. Waits(c)[i] = Waits(b)[i]
    <3>1. b.offset + i \in 1 .. Len(b.txs) + Len(txs)
      BY <1>1, <2>1
    <3> QED BY <1>2, <1>5, <2>1, <3>1
  <2> QED BY <1>5, <2>1, <2>2, RangeEquality
<1>7. ASSUME NEW i \in 1 .. Len(txs) PROVE txs[i] \in Range(Waits(c))
  <2> DEFINE k == Len(b.txs) - b.offset + i
  <2>1. /\ k \in 1 .. Len(Waits(c)) /\ b.offset + k = Len(b.txs) + i
        /\ Len(b.txs) + i \in 1 .. Len(b.txs) + Len(txs)
    <3>1. Len(Waits(c)) = Len(b.txs) + Len(txs) - b.offset
      BY <1>5
    <3>2. b.offset \in Nat /\ Len(b.txs) \in Nat /\ Len(txs) \in Nat /\ b.offset <= Len(b.txs)
      BY <1>1
    <3> QED BY <3>1, <3>2
  <2>2. (b.txs \o txs)[Len(b.txs) + i] = txs[i]
    <3>1. ~(Len(b.txs) + i <= Len(b.txs)) /\ Len(b.txs) + i - Len(b.txs) = i
      BY <1>1
    <3> QED BY <1>2, <2>1, <3>1
  <2> HIDE DEF k
  <2>3. Waits(c)[k] = txs[i]
    BY <1>5, <2>1, <2>2
  <2> QED BY <1>5, <2>1, <2>3, RangeEquality
<1>8. /\ Range(Waits(b)) = {Waits(b)[i] : i \in 1 .. Len(Waits(b))}
      /\ Range(txs) = {txs[i] : i \in 1 .. Len(txs)}
  BY <1>5, RangeEquality
<1> QED
  BY <1>3, <1>4, <1>6, <1>7, <1>8 DEF c

\* Cutting off the part that was read leaves what waits.
LEMMA CutKeeps ==
  ASSUME NEW T, NEW b \in Backlogs(T), WithinBacklog(b)
  PROVE  Cut(b) \in Backlogs(T) /\ WithinBacklog(Cut(b)) /\ Waits(Cut(b)) = Waits(b)
<1> DEFINE c == [txs |-> Waits(b), offset |-> 0]
<1>1. Waits(b) \in Seq(T) /\ Len(Waits(b)) \in Nat
  BY WaitsIs, LenProperties
<1>2. c \in Backlogs(T) /\ WithinBacklog(c)
  BY <1>1 DEF Backlogs, WithinBacklog
<1>3. Waits(c) = Waits(b)
  <2> DEFINE s == Waits(b)
  <2>1. c.txs = s /\ c.offset + 1 = 1
    OBVIOUS
  <2>2. Waits(c) = SubSeq(s, 1, Len(s))
    BY <2>1 DEF Waits
  <2> HIDE DEF s
  <2> QED BY <1>1, <2>2, SubSeqFull DEF s
<1> QED
  BY <1>2, <1>3 DEF Cut

\* drainTxBacklog moves what waits, in order, to admissions, as many as there may be.
LEMMA DrainKeeps ==
  ASSUME NEW T, NEW p \in Peer, NEW b \in Backlogs(T), WithinBacklog(b),
         NEW waiting \in SUBSET Admissions(T), WithinAdmissions(waiting),
         backlog \in [Peer -> Backlogs(T)], admitting \in [Peer -> SUBSET Admissions(T)],
         Drain(p, b, waiting)
  PROVE  /\ backlog' \in [Peer -> Backlogs(T)]
         /\ admitting' \in [Peer -> SUBSET Admissions(T)]
         /\ WithinBacklog(backlog'[p]) /\ WithinAdmissions(admitting'[p])
         /\ waiting \subseteq admitting'[p]
         /\ \A t \in Range(Waits(b)) :
              t \in Range(Waits(backlog'[p])) \/ \E a \in admitting'[p] : a.tx = t
         /\ \A q \in Peer \ {p} : backlog'[q] = backlog[q] /\ admitting'[q] = admitting[q]
<1> DEFINE room == MaxAdmissions - Cardinality(waiting)
           n == IF room < Len(Waits(b)) THEN room ELSE Len(Waits(b))
           begun == {[tx |-> Waits(b)[i], at |-> b.offset + i] : i \in 1 .. n}
           c == [b EXCEPT !.offset = b.offset + n]
<1>1. /\ Waits(b) \in Seq(T) /\ Len(Waits(b)) \in Nat
      /\ b.txs \in Seq(T) /\ b.offset \in Nat /\ Len(b.txs) \in Nat
      /\ Len(Waits(b)) = Len(b.txs) - b.offset
      /\ Cardinality(waiting) \in Nat /\ MaxAdmissions \in Nat
  BY WaitsIs, LenProperties, FS_CardinalityType, GossipAssumption
  DEF Backlogs, WithinAdmissions
<1>2. n \in 0 .. Len(Waits(b)) /\ n <= room
  BY <1>1 DEF WithinAdmissions
<1>3. /\ backlog' = [backlog EXCEPT ![p] = c]
      /\ admitting' = [admitting EXCEPT ![p] = waiting \cup begun]
  BY DEF Drain
<1> HIDE DEF n, room
<1>4. begun \in SUBSET Admissions(T)
  <2> SUFFICES ASSUME NEW i \in 1 .. n
               PROVE  [tx |-> Waits(b)[i], at |-> b.offset + i] \in Admissions(T)
    OBVIOUS
  <2>1. Waits(b)[i] \in T
    BY <1>1, <1>2, ElementOfSeq
  <2> QED BY <1>1, <1>2, <2>1 DEF Admissions
<1>5. IsFiniteSet(begun) /\ Cardinality(begun) <= n
  <2> DEFINE f == [i \in 1 .. n |-> [tx |-> Waits(b)[i], at |-> b.offset + i]]
  <2>1. f \in Surjection(1 .. n, begun)
    BY DEF Surjection
  <2>2. IsFiniteSet(1 .. n) /\ Cardinality(1 .. n) = n
    BY <1>1, <1>2, FS_Interval
  <2> HIDE DEF f, begun
  <2> QED BY <2>1, <2>2, FS_Surjection
<1>6. c \in Backlogs(T) /\ c.txs = b.txs /\ c.offset = b.offset + n
  <2>1. b.offset + n \in Nat
    BY <1>1, <1>2
  <2> HIDE DEF begun
  <2> QED BY <1>1, <2>1 DEF Backlogs
<1>7. ASSUME NEW i \in 1 .. n PROVE \E a \in begun : a.tx = Waits(b)[i]
  <2>1. [tx |-> Waits(b)[i], at |-> b.offset + i] \in begun
    OBVIOUS
  <2> HIDE DEF begun
  <2> QED BY <2>1
<1> HIDE DEF begun, c
<1>8. WithinAdmissions(waiting \cup begun)
  <2>1. /\ IsFiniteSet(waiting \cup begun)
        /\ Cardinality(waiting \cup begun) =
             Cardinality(waiting) + Cardinality(begun) - Cardinality(waiting \cap begun)
    BY <1>5, FS_Union DEF WithinAdmissions
  <2>2. IsFiniteSet(waiting \cap begun)
    BY <1>5, FS_Subset, waiting \cap begun \subseteq begun
  <2>3. Cardinality(begun) \in Nat /\ Cardinality(waiting \cap begun) \in Nat
    BY <1>5, <2>2, FS_CardinalityType
  <2>4. n <= MaxAdmissions - Cardinality(waiting)
    BY <1>2 DEF room
  <2> QED
    BY <1>1, <1>2, <1>5, <2>1, <2>3, <2>4 DEF WithinAdmissions
<1>9. WithinBacklog(c)
  BY <1>1, <1>2, <1>6 DEF WithinBacklog
<1>10. ASSUME NEW t \in Range(Waits(b))
       PROVE  t \in Range(Waits(c)) \/ \E a \in begun : a.tx = t
  <2>1. PICK i \in 1 .. Len(Waits(b)) : t = Waits(b)[i]
    BY <1>1, RangeEquality
  <2>2. CASE i <= n
    BY <1>2, <1>7, <2>1, <2>2
  <2>3. CASE i > n
    <3>1. /\ Waits(c) \in Seq(T) /\ Len(Waits(c)) = Len(Waits(b)) - n
          /\ \A j \in 1 .. Len(Waits(c)) : Waits(c)[j] = b.txs[b.offset + n + j]
      <4>1. /\ Waits(c) \in Seq(T) /\ Len(Waits(c)) = Len(c.txs) - c.offset
            /\ \A j \in 1 .. Len(Waits(c)) : Waits(c)[j] = c.txs[c.offset + j]
        BY <1>6, <1>9, WaitsIs
      <4> QED BY <1>1, <1>2, <1>6, <4>1
    <3>2. i - n \in 1 .. Len(Waits(c))
      BY <1>1, <1>2, <2>1, <2>3, <3>1
    <3>3. Waits(c)[i - n] = b.txs[b.offset + i]
      <4>1. b.offset + n + (i - n) = b.offset + i
        BY <1>1, <1>2
      <4> QED BY <3>1, <3>2, <4>1
    <3>4. Waits(c)[i - n] = t
      BY <2>1, <3>3, WaitsIs
    <3> QED BY <3>1, <3>2, <3>4, RangeEquality
  <2> QED BY <1>1, <1>2, <2>2, <2>3
<1>11. /\ backlog'[p] = c /\ admitting'[p] = waiting \cup begun
       /\ \A q \in Peer \ {p} : backlog'[q] = backlog[q] /\ admitting'[q] = admitting[q]
  BY <1>3
<1> QED
  BY <1>3, <1>4, <1>6, <1>8, <1>9, <1>10, <1>11

-----------------------------------------------------------------------------
(* The wire. *)

FramesTxs(ws) == UNION {Range(ws[i].txs) : i \in {j \in DOMAIN ws : ws[j].kind = "txs"}}

LEMMA FramesOfLink == \A l : InFrames(l) = FramesTxs(wire[l])
BY DEF InFrames, FramesTxs

\* Frames sent go behind those that are there.
LEMMA FramesGrow ==
  ASSUME NEW T, NEW ws \in Seq(Frames(T)), NEW fs \in Seq(Frames(T))
  PROVE  /\ ws \o fs \in Seq(Frames(T))
         /\ FramesTxs(ws) \cup FramesTxs(fs) \subseteq FramesTxs(ws \o fs)
<1> DEFINE s == ws \o fs
<1>1. /\ Len(ws) \in Nat /\ DOMAIN ws = 1 .. Len(ws)
      /\ Len(fs) \in Nat /\ DOMAIN fs = 1 .. Len(fs)
  BY LenProperties
<1>2. /\ s \in Seq(Frames(T)) /\ Len(s) = Len(ws) + Len(fs)
      /\ \A i \in 1 .. Len(ws) + Len(fs) :
           s[i] = IF i <= Len(ws) THEN ws[i] ELSE fs[i - Len(ws)]
  BY ConcatProperties
<1> HIDE DEF s
<1>3. DOMAIN s = 1 .. Len(ws) + Len(fs)
  BY <1>2, LenProperties
<1>4. ASSUME NEW i \in DOMAIN ws PROVE i \in DOMAIN s /\ s[i] = ws[i]
  BY <1>1, <1>2, <1>3
<1>5. ASSUME NEW i \in DOMAIN fs
      PROVE  Len(ws) + i \in DOMAIN s /\ s[Len(ws) + i] = fs[i]
  <2>1. /\ Len(ws) + i \in 1 .. Len(ws) + Len(fs)
        /\ ~(Len(ws) + i <= Len(ws)) /\ Len(ws) + i - Len(ws) = i
    BY <1>1
  <2> QED BY <1>2, <1>3, <2>1
<1>6. FramesTxs(ws) \subseteq FramesTxs(s)
  BY <1>4 DEF FramesTxs
<1>7. FramesTxs(fs) \subseteq FramesTxs(s)
  BY <1>5 DEF FramesTxs
<1> QED
  BY <1>2, <1>6, <1>7 DEF s

\* The first frame is received; the others stay.
LEMMA FramesShrink ==
  ASSUME NEW T, NEW ws \in Seq(Frames(T)), ws # <<>>
  PROVE  /\ Tail(ws) \in Seq(Frames(T)) /\ Head(ws) \in Frames(T)
         /\ FramesTxs(ws) \subseteq FramesTxs(Tail(ws)) \cup
              (IF Head(ws).kind = "txs" THEN Range(Head(ws).txs) ELSE {})
<1>1. /\ Len(ws) \in Nat \ {0} /\ DOMAIN ws = 1 .. Len(ws)
      /\ Head(ws) \in Frames(T) /\ Head(ws) = ws[1]
      /\ Tail(ws) \in Seq(Frames(T)) /\ Len(Tail(ws)) = Len(ws) - 1
      /\ \A i \in 1 .. Len(Tail(ws)) : Tail(ws)[i] = ws[i + 1]
  BY LenProperties, HeadTailProperties, EmptySeq
<1>2. DOMAIN Tail(ws) = 1 .. Len(ws) - 1
  BY <1>1, LenProperties
<1>3. ASSUME NEW i \in DOMAIN ws, i # 1
      PROVE  i - 1 \in DOMAIN Tail(ws) /\ Tail(ws)[i - 1] = ws[i]
  <2>1. i - 1 \in 1 .. Len(ws) - 1 /\ i - 1 + 1 = i
    BY <1>1, <1>3
  <2> QED BY <1>1, <1>2, <2>1
<1>4. ASSUME NEW t \in FramesTxs(ws)
      PROVE  \/ t \in FramesTxs(Tail(ws))
             \/ Head(ws).kind = "txs" /\ t \in Range(Head(ws).txs)
  <2>1. PICK i \in DOMAIN ws : ws[i].kind = "txs" /\ t \in Range(ws[i].txs)
    BY DEF FramesTxs
  <2>2. CASE i = 1
    BY <1>1, <2>1, <2>2
  <2>3. CASE i # 1
    BY <1>3, <2>1, <2>3 DEF FramesTxs
  <2> QED BY <2>2, <2>3
<1> QED
  BY <1>1, <1>4

\* A frame of transactions has all of them.
LEMMA FrameHas ==
  ASSUME NEW T, NEW txs \in Seq(T)
  PROVE  /\ Frame(txs) \in Seq(Frames(T))
         /\ Range(txs) \subseteq FramesTxs(Frame(txs))
<1>1. CASE txs = <<>>
  <2>1. Range(txs) = {}
    BY <1>1 DEF Range
  <2> QED BY <1>1, <2>1 DEF Frame
<1>2. CASE txs # <<>>
  <2> DEFINE f == [kind |-> "txs", txs |-> txs]
  <2>1. f \in Frames(T) /\ f.kind = "txs" /\ f.txs = txs
    BY DEF Frames
  <2>2. Frame(txs) = <<f>>
    BY <1>2 DEF Frame
  <2> HIDE DEF f
  <2>3. <<f>> \in Seq(Frames(T)) /\ DOMAIN <<f>> = {1} /\ <<f>>[1] = f
    BY <2>1
  <2> QED BY <2>1, <2>2, <2>3 DEF FramesTxs
<1> QED BY <1>1, <1>2

LEMMA BroadcastSends ==
  ASSUME NEW T, wire \in [Links -> Seq(Frames(T))], NEW p \in Peer,
         NEW fs \in Seq(Frames(T)), Broadcast(p, fs)
  PROVE  /\ wire' \in [Links -> Seq(Frames(T))]
         /\ \A l \in Links : FramesTxs(wire[l]) \subseteq FramesTxs(wire'[l])
         /\ \A l \in Links : l[1] = p => FramesTxs(fs) \subseteq FramesTxs(wire'[l])
<1>1. wire' = [l \in Links |-> IF l[1] = p THEN wire[l] \o fs ELSE wire[l]]
  BY DEF Broadcast
<1>2. \A l \in Links : /\ wire[l] \o fs \in Seq(Frames(T))
                       /\ FramesTxs(wire[l]) \cup FramesTxs(fs) \subseteq FramesTxs(wire[l] \o fs)
  BY FramesGrow
<1>3. \A l \in Links : wire'[l] = IF l[1] = p THEN wire[l] \o fs ELSE wire[l]
  BY <1>1
<1> QED
  BY <1>1, <1>2, <1>3

\* broadcastTxBytes: what waits in the batch, and t, wait in it or are sent.
LEMMA BatchSends ==
  ASSUME NEW T, batch \in [Peer -> Seq(T)], wire \in [Links -> Seq(Frames(T))],
         NEW p \in Peer, NEW t \in T, BroadcastTxBytes(p, t)
  PROVE  /\ batch' \in [Peer -> Seq(T)] /\ wire' \in [Links -> Seq(Frames(T))]
         /\ \A q \in Peer \ {p} : batch'[q] = batch[q]
         /\ \A l \in Links : FramesTxs(wire[l]) \subseteq FramesTxs(wire'[l])
         /\ \A q \in Peer \ {p} : Range(batch[p]) \cup {t} \subseteq
              Range(batch'[p]) \cup FramesTxs(wire'[<<p, q>>])
<1> DEFINE rest == IF Joins(p, t) THEN Append(batch[p], t) ELSE <<t>>
           goes == Size(t) > MaxBytes \/ Len(rest) >= MaxBatch \/ BytesOf(rest) >= MaxBytes
           before == FullBefore(p, t)
           after == IF goes THEN Frame(rest) ELSE <<>>
           kept == IF goes THEN <<>> ELSE rest
           fs == Frame(before) \o after
<1>1. batch' = [batch EXCEPT ![p] = kept] /\ Broadcast(p, fs)
  BY DEF BroadcastTxBytes
<1>2. batch[p] \in Seq(T) /\ <<>> \in Seq(T) /\ <<t>> \in Seq(T) /\ Range(<<t>>) = {t}
  BY DEF Range
<1>3. /\ rest \in Seq(T) /\ before \in Seq(T)
      /\ Range(batch[p]) \cup {t} \subseteq Range(before) \cup Range(rest)
  <2>1. CASE Joins(p, t)
    <3>1. rest = batch[p] \o <<t>> /\ before = <<>>
      BY <1>2, <2>1, AppendIsConcat DEF FullBefore
    <3>2. batch[p] \o <<t>> \in Seq(T) /\ Range(batch[p] \o <<t>>) = Range(batch[p]) \cup {t}
      <4> DEFINE u == batch[p]
                 v == <<t>>
      <4>1. u \in Seq(T) /\ v \in Seq(T) /\ Range(v) = {t}
        BY <1>2
      <4> HIDE DEF u, v
      <4>2. u \o v \in Seq(T) /\ Range(u \o v) = Range(u) \cup {t}
        BY <4>1, ConcatProperties, RangeConcatenation
      <4> QED BY <4>2 DEF u, v
    <3> QED BY <1>2, <3>1, <3>2
  <2>2. CASE ~Joins(p, t)
    <3>1. rest = <<t>> /\ before = batch[p]
      BY <2>2 DEF FullBefore
    <3> QED BY <1>2, <3>1
  <2> QED BY <2>1, <2>2
<1> HIDE DEF rest, before
<1>4. goes \in BOOLEAN
  OBVIOUS
<1> HIDE DEF goes
<1>5. /\ kept \in Seq(T) /\ after \in Seq(Frames(T))
      /\ Range(rest) \subseteq Range(kept) \cup FramesTxs(after)
  <2>1. Frame(rest) \in Seq(Frames(T)) /\ Range(rest) \subseteq FramesTxs(Frame(rest))
    BY <1>3, FrameHas
  <2>2. <<>> \in Seq(Frames(T))
    OBVIOUS
  <2> QED BY <1>2, <1>3, <2>1, <2>2
<1> HIDE DEF kept, after
<1>6. /\ fs \in Seq(Frames(T))
      /\ Range(before) \cup FramesTxs(after) \subseteq FramesTxs(fs)
  <2>1. Frame(before) \in Seq(Frames(T)) /\ Range(before) \subseteq FramesTxs(Frame(before))
    BY <1>3, FrameHas
  <2>2. /\ Frame(before) \o after \in Seq(Frames(T))
        /\ FramesTxs(Frame(before)) \cup FramesTxs(after)
             \subseteq FramesTxs(Frame(before) \o after)
    BY <1>5, <2>1, FramesGrow
  <2> QED BY <2>1, <2>2
<1> HIDE DEF fs
<1>7. /\ wire' \in [Links -> Seq(Frames(T))]
      /\ \A l \in Links : FramesTxs(wire[l]) \subseteq FramesTxs(wire'[l])
      /\ \A l \in Links : l[1] = p => FramesTxs(fs) \subseteq FramesTxs(wire'[l])
  BY <1>1, <1>6, BroadcastSends
<1>8. /\ batch' \in [Peer -> Seq(T)] /\ batch'[p] = kept
      /\ \A q \in Peer \ {p} : batch'[q] = batch[q]
  BY <1>1, <1>5
<1>9. ASSUME NEW q \in Peer \ {p}
      PROVE  Range(batch[p]) \cup {t} \subseteq Range(batch'[p]) \cup FramesTxs(wire'[<<p, q>>])
  <2>1. <<p, q>> \in Links /\ <<p, q>>[1] = p
    BY DEF Links
  <2>2. FramesTxs(fs) \subseteq FramesTxs(wire'[<<p, q>>])
    BY <1>7, <2>1
  <2> QED BY <1>3, <1>5, <1>6, <1>8, <2>2
<1> QED
  BY <1>7, <1>8, <1>9

-----------------------------------------------------------------------------
(* What each place keeps or hands on. *)

LEMMA HandedOn ==
  ASSUME \A p \in Peer \ {Entrance} : \A t \in pooled[p] : t >= executed' => t \in pooled'[p],
         \A p \in Peer \ {Entrance} :
           Range(batch[Entrance]) \subseteq
             Range(batch'[Entrance]) \cup FramesTxs(wire'[<<Entrance, p>>]),
         \A p \in Peer \ {Entrance} : \A t \in FramesTxs(wire[<<Entrance, p>>]) :
           \/ t \in FramesTxs(wire'[<<Entrance, p>>])
           \/ t \in Range(Waits(backlog'[p])) \/ \E a \in admitting'[p] : a.tx = t,
         \A p \in Peer \ {Entrance} : \A t \in Range(Waits(backlog[p])) :
           t \in Range(Waits(backlog'[p])) \/ \E a \in admitting'[p] : a.tx = t,
         \A p \in Peer \ {Entrance} : \A a \in admitting[p] :
           a.tx >= executed' => a \in admitting'[p] \/ a.tx \in pooled'[p]
  PROVE  Kept
<1> SUFFICES ASSUME NEW t \in Nat, NEW p \in Peer \ {Entrance}, t >= executed', Has(t, p)
             PROVE  Has(t, p)'
  BY DEF Kept
<1>1. InFrames(<<Entrance, p>>) = FramesTxs(wire[<<Entrance, p>>])
  BY FramesOfLink
<1>2. InFrames(<<Entrance, p>>)' = FramesTxs(wire'[<<Entrance, p>>])
  BY DEF InFrames, FramesTxs
<1>3. Has(t, p)' <=> \/ t \in pooled'[p] \/ t \in Range(batch'[Entrance])
                     \/ t \in FramesTxs(wire'[<<Entrance, p>>])
                     \/ t \in Range(Waits(backlog'[p])) \/ \E a \in admitting'[p] : a.tx = t
  BY <1>2 DEF Has, OnItsWay, Waits
<1>4. \/ t \in pooled[p] \/ t \in Range(batch[Entrance])
      \/ t \in FramesTxs(wire[<<Entrance, p>>])
      \/ t \in Range(Waits(backlog[p])) \/ \E a \in admitting[p] : a.tx = t
  BY <1>1 DEF Has, OnItsWay
<1> QED
  BY <1>3, <1>4

\* What every step of a handler or a timer owes: types, bounds, and each transaction.
Safe(T) == Typed(T) /\ Bounded /\ AllRunning /\ ClosedIdle

LEMMA SubmitTxSafe ==
  ASSUME NEW T, Safe(T), NEW t \in T, SubmitTx(t)
  PROVE  /\ Safe(T)' /\ Kept
         /\ \A p \in Peer \ {Entrance} : gossipFaults' = 0 => Has(t, p)'
<1>1. /\ UNCHANGED <<executed, backlog, admitting, life, gossipFaults>>
      /\ pooled' = [pooled EXCEPT ![Entrance] = pooled[Entrance] \cup {t}]
      /\ IF Running(Entrance) THEN BroadcastTxBytes(Entrance, t) ELSE UNCHANGED <<batch, wire>>
  BY DEF SubmitTx
<1>2. Entrance \in Peer
  BY GossipAssumption
<1>3. /\ batch \in [Peer -> Seq(T)] /\ wire \in [Links -> Seq(Frames(T))]
      /\ pooled \in [Peer -> SUBSET T] /\ \A p \in Peer : IsFiniteSet(pooled[p])
  BY DEF Safe, Typed
<1>4. /\ batch' \in [Peer -> Seq(T)] /\ wire' \in [Links -> Seq(Frames(T))]
      /\ \A l \in Links : FramesTxs(wire[l]) \subseteq FramesTxs(wire'[l])
      /\ \A p \in Peer \ {Entrance} :
           Range(batch[Entrance]) \cup (IF Running(Entrance) THEN {t} ELSE {}) \subseteq
             Range(batch'[Entrance]) \cup FramesTxs(wire'[<<Entrance, p>>])
  <2>1. CASE Running(Entrance)
    BY <1>1, <1>2, <1>3, <2>1, BatchSends
  <2>2. CASE ~Running(Entrance)
    BY <1>1, <1>3, <2>2
  <2> QED BY <2>1, <2>2
<1>5. \A p \in Peer \ {Entrance} : <<Entrance, p>> \in Links
  BY <1>2 DEF Links
<1>6. /\ pooled' \in [Peer -> SUBSET T] /\ \A p \in Peer : IsFiniteSet(pooled'[p])
      /\ \A p \in Peer : pooled[p] \subseteq pooled'[p]
  BY <1>1, <1>3, FS_AddElement
<1>7. Safe(T)'
  BY <1>1, <1>4, <1>6 DEF Safe, Typed, Bounded, AllRunning, ClosedIdle, Running
<1>8. Kept
  BY <1>1, <1>4, <1>5, <1>6, HandedOn
<1>9. ASSUME NEW p \in Peer \ {Entrance}, gossipFaults' = 0 PROVE Has(t, p)'
  <2>1. Running(Entrance)
    BY <1>1, <1>2, <1>9 DEF Safe, AllRunning
  <2>2. InFrames(<<Entrance, p>>)' = FramesTxs(wire'[<<Entrance, p>>])
    BY DEF InFrames, FramesTxs
  <2> QED BY <1>4, <2>1, <2>2 DEF Has, OnItsWay
<1> QED BY <1>7, <1>8, <1>9

LEMMA FlushTimerSafe ==
  ASSUME NEW T, Safe(T), NEW p \in Peer, FlushTimer(p)
  PROVE  Safe(T)' /\ Kept
<1>1. /\ UNCHANGED <<executed, pooled, backlog, admitting, life, gossipFaults>>
      /\ batch' = [batch EXCEPT ![p] = <<>>] /\ Broadcast(p, Frame(batch[p]))
  BY DEF FlushTimer
<1>2. /\ batch \in [Peer -> Seq(T)] /\ wire \in [Links -> Seq(Frames(T))]
  BY DEF Safe, Typed
<1>3. Frame(batch[p]) \in Seq(Frames(T)) /\ Range(batch[p]) \subseteq FramesTxs(Frame(batch[p]))
  BY <1>2, FrameHas
<1>4. /\ wire' \in [Links -> Seq(Frames(T))]
      /\ \A l \in Links : FramesTxs(wire[l]) \subseteq FramesTxs(wire'[l])
      /\ \A l \in Links : l[1] = p => FramesTxs(Frame(batch[p])) \subseteq FramesTxs(wire'[l])
  BY <1>1, <1>2, <1>3, BroadcastSends
<1>5. batch' \in [Peer -> Seq(T)] /\ \A q \in Peer \ {p} : batch'[q] = batch[q]
  BY <1>1, <1>2
<1>6. Safe(T)'
  BY <1>1, <1>4, <1>5 DEF Safe, Typed, Bounded, AllRunning, ClosedIdle, Running
<1>7. ASSUME NEW q \in Peer \ {Entrance}
      PROVE  /\ FramesTxs(wire[<<Entrance, q>>]) \subseteq FramesTxs(wire'[<<Entrance, q>>])
             /\ Range(batch[Entrance]) \subseteq
                  Range(batch'[Entrance]) \cup FramesTxs(wire'[<<Entrance, q>>])
  <2>1. <<Entrance, q>> \in Links /\ <<Entrance, q>>[1] = Entrance /\ Entrance \in Peer
    BY GossipAssumption DEF Links
  <2>2. CASE p = Entrance
    BY <1>3, <1>4, <2>1, <2>2
  <2>3. CASE p # Entrance
    BY <1>4, <1>5, <2>1, <2>3
  <2> QED BY <2>2, <2>3
<1>8. Kept
  BY <1>1, <1>7, HandedOn
<1> QED BY <1>6, <1>8

LEMMA ReceiveSafe ==
  ASSUME NEW T, Safe(T), NEW l \in Links, Receive(l)
  PROVE  Safe(T)' /\ Kept
<1> DEFINE p == l[2]
           frame == Head(wire[l])
           b == [backlog[p] EXCEPT !.txs = backlog[p].txs \o frame.txs]
<1>1. /\ UNCHANGED <<executed, pooled, batch, life, gossipFaults>>
      /\ Running(p) /\ wire[l] # <<>> /\ frame.kind = "txs"
      /\ wire' = [wire EXCEPT ![l] = Tail(wire[l])]
      /\ Drain(p, b, admitting[p])
  BY DEF Receive
<1>2. /\ wire \in [Links -> Seq(Frames(T))] /\ p \in Peer
      /\ backlog \in [Peer -> Backlogs(T)] /\ admitting \in [Peer -> SUBSET Admissions(T)]
      /\ WithinBacklog(backlog[p]) /\ WithinAdmissions(admitting[p])
  BY <1>1 DEF Safe, Typed, Bounded, Links
<1>3. /\ Tail(wire[l]) \in Seq(Frames(T)) /\ frame \in Frames(T)
      /\ FramesTxs(wire[l]) \subseteq FramesTxs(Tail(wire[l])) \cup Range(frame.txs)
  BY <1>1, <1>2, FramesShrink
<1>4. frame.txs \in Seq(T)
  BY <1>1, <1>3 DEF Frames
<1>5. /\ b \in Backlogs(T) /\ WithinBacklog(b)
      /\ Range(Waits(backlog[p])) \cup Range(frame.txs) \subseteq Range(Waits(b))
  BY <1>2, <1>4, FrameWaits
<1> HIDE DEF b, frame
<1>6. /\ backlog' \in [Peer -> Backlogs(T)]
      /\ admitting' \in [Peer -> SUBSET Admissions(T)]
      /\ WithinBacklog(backlog'[p]) /\ WithinAdmissions(admitting'[p])
      /\ admitting[p] \subseteq admitting'[p]
      /\ \A t \in Range(Waits(b)) :
           t \in Range(Waits(backlog'[p])) \/ \E a \in admitting'[p] : a.tx = t
      /\ \A q \in Peer \ {p} : backlog'[q] = backlog[q] /\ admitting'[q] = admitting[q]
  BY <1>1, <1>2, <1>5, DrainKeeps
<1>7. /\ wire' \in [Links -> Seq(Frames(T))] /\ wire'[l] = Tail(wire[l])
      /\ \A k \in Links \ {l} : wire'[k] = wire[k]
  BY <1>1, <1>2, <1>3
<1> HIDE DEF p
<1>8. Safe(T)'
  <2>1. Typed(T)'
    BY <1>1, <1>6, <1>7 DEF Safe, Typed
  <2>2. Bounded' /\ ClosedIdle'
    BY <1>1, <1>2, <1>6 DEF Safe, Bounded, ClosedIdle, Running
  <2>3. AllRunning'
    BY <1>1 DEF Safe, AllRunning, Running
  <2> QED BY <2>1, <2>2, <2>3 DEF Safe
<1>9. ASSUME NEW q \in Peer \ {Entrance}
      PROVE  /\ \A t \in FramesTxs(wire[<<Entrance, q>>]) :
                  \/ t \in FramesTxs(wire'[<<Entrance, q>>])
                  \/ t \in Range(Waits(backlog'[q])) \/ \E a \in admitting'[q] : a.tx = t
             /\ \A t \in Range(Waits(backlog[q])) :
                  t \in Range(Waits(backlog'[q])) \/ \E a \in admitting'[q] : a.tx = t
             /\ admitting[q] \subseteq admitting'[q]
  <2>1. <<Entrance, q>> \in Links
    BY GossipAssumption DEF Links
  <2>2. /\ \A t \in Range(Waits(backlog[q])) :
             t \in Range(Waits(backlog'[q])) \/ \E a \in admitting'[q] : a.tx = t
        /\ admitting[q] \subseteq admitting'[q]
    BY <1>5, <1>6
  <2>3. CASE l = <<Entrance, q>>
    <3>1. p = q
      BY <2>3 DEF p
    <3> QED BY <1>3, <1>5, <1>6, <1>7, <2>2, <2>3, <3>1
  <2>4. CASE l # <<Entrance, q>>
    BY <1>7, <2>1, <2>2, <2>4
  <2> QED BY <2>3, <2>4
<1>10. Kept
  BY <1>1, <1>9, HandedOn
<1> QED BY <1>8, <1>10

\* What an admission leaves out is too old.
LEMMA AdmittedSafe ==
  ASSUME NEW T, Safe(T), NEW p \in Peer, NEW a \in admitting[p], Admitted(p, a)
  PROVE  /\ Safe(T)' /\ Kept
         /\ \A t \in pooled'[Entrance] : t \in pooled[Entrance] \/ (t = a.tx /\ t >= executed)
<1>1. /\ UNCHANGED <<executed, batch, wire, life, gossipFaults>>
      /\ pooled' = IF a.tx >= executed THEN [pooled EXCEPT ![p] = pooled[p] \cup {a.tx}]
                   ELSE pooled
      /\ IF Running(p) THEN Drain(p, Cut(backlog[p]), admitting[p] \ {a})
         ELSE admitting' = [admitting EXCEPT ![p] = admitting[p] \ {a}] /\ UNCHANGED backlog
  BY DEF Admitted
<1>2. /\ pooled \in [Peer -> SUBSET T] /\ \A q \in Peer : IsFiniteSet(pooled[q])
      /\ backlog \in [Peer -> Backlogs(T)] /\ admitting \in [Peer -> SUBSET Admissions(T)]
      /\ WithinAdmissions(admitting[p])
      /\ Running(p) => WithinBacklog(backlog[p])
      /\ a.tx \in T
  BY DEF Safe, Typed, Bounded, Admissions
<1>3. admitting[p] \ {a} \in SUBSET Admissions(T) /\ WithinAdmissions(admitting[p] \ {a})
  <2> DEFINE as == admitting[p]
             left == as \ {a}
  <2>1. as \in SUBSET Admissions(T) /\ IsFiniteSet(as) /\ Cardinality(as) <= MaxAdmissions
    BY <1>2 DEF WithinAdmissions
  <2>2. left \in SUBSET as
    OBVIOUS
  <2> HIDE DEF as, left
  <2>3. IsFiniteSet(left) /\ Cardinality(left) <= Cardinality(as)
    BY <2>1, <2>2, FS_Subset
  <2>4. Cardinality(left) \in Nat /\ Cardinality(as) \in Nat /\ MaxAdmissions \in Nat
    BY <2>1, <2>3, FS_CardinalityType, GossipAssumption
  <2>5. Cardinality(left) <= MaxAdmissions
    <3> DEFINE m == Cardinality(left)
               n == Cardinality(as)
    <3>1. m \in Nat /\ n \in Nat /\ MaxAdmissions \in Nat /\ m <= n /\ n <= MaxAdmissions
      BY <2>1, <2>3, <2>4
    <3> HIDE DEF m, n
    <3>2. m <= MaxAdmissions
      BY <3>1
    <3> QED BY <3>2 DEF m
  <2>6. left \in SUBSET Admissions(T) /\ WithinAdmissions(left)
    BY <2>1, <2>2, <2>3, <2>5 DEF WithinAdmissions
  <2> QED BY <2>6 DEF as, left
<1>4. /\ backlog' \in [Peer -> Backlogs(T)]
      /\ admitting' \in [Peer -> SUBSET Admissions(T)]
      /\ Running(p) => WithinBacklog(backlog'[p])
      /\ WithinAdmissions(admitting'[p]) /\ admitting[p] \ {a} \subseteq admitting'[p]
      /\ \A t \in Range(Waits(backlog[p])) :
           t \in Range(Waits(backlog'[p])) \/ \E c \in admitting'[p] : c.tx = t
      /\ \A q \in Peer \ {p} : backlog'[q] = backlog[q] /\ admitting'[q] = admitting[q]
  <2>1. CASE Running(p)
    <3> DEFINE b == Cut(backlog[p])
    <3>1. b \in Backlogs(T) /\ WithinBacklog(b) /\ Waits(b) = Waits(backlog[p])
      <4> DEFINE k == backlog[p]
      <4>1. k \in Backlogs(T) /\ WithinBacklog(k)
        BY <1>2, <2>1
      <4> HIDE DEF k
      <4>2. Cut(k) \in Backlogs(T) /\ WithinBacklog(Cut(k)) /\ Waits(Cut(k)) = Waits(k)
        BY <4>1, CutKeeps
      <4> QED BY <4>2 DEF k
    <3>2. Drain(p, b, admitting[p] \ {a})
      BY <1>1, <2>1
    <3> HIDE DEF b
    <3> QED BY <1>2, <1>3, <3>1, <3>2, DrainKeeps
  <2>2. CASE ~Running(p)
    BY <1>1, <1>2, <1>3, <2>2
  <2> QED BY <2>1, <2>2
<1>5. /\ pooled' \in [Peer -> SUBSET T] /\ \A q \in Peer : IsFiniteSet(pooled'[q])
      /\ \A q \in Peer : pooled[q] \subseteq pooled'[q]
      /\ a.tx >= executed => a.tx \in pooled'[p]
      /\ \A q \in Peer : \A t \in pooled'[q] : t \in pooled[q] \/ t = a.tx
      /\ a.tx >= executed \/ pooled' = pooled
  <2>1. CASE a.tx >= executed
    <3>1. pooled' = [pooled EXCEPT ![p] = pooled[p] \cup {a.tx}]
      BY <1>1, <2>1
    <3> DEFINE x == a.tx
               more == pooled[p] \cup {x}
    <3>2. IsFiniteSet(more) /\ more \in SUBSET T
      BY <1>2, FS_AddElement
    <3>3. /\ DOMAIN pooled' = Peer /\ pooled' = [q \in Peer |-> pooled'[q]]
          /\ pooled'[p] = more /\ \A q \in Peer \ {p} : pooled'[q] = pooled[q]
      BY <1>2, <3>1
    <3>4. /\ x \in more /\ pooled[p] \subseteq more
          /\ \A t \in more : t \in pooled[p] \/ t = x
      OBVIOUS
    <3>5. x >= executed
      BY <2>1
    <3> HIDE DEF more
    <3>6. \A q \in Peer : pooled'[q] \in SUBSET T /\ IsFiniteSet(pooled'[q])
      BY <1>2, <3>2, <3>3
    <3>7. /\ \A q \in Peer : pooled[q] \subseteq pooled'[q]
          /\ x \in pooled'[p]
          /\ \A q \in Peer : \A t \in pooled'[q] : t \in pooled[q] \/ t = x
      BY <3>3, <3>4
    <3>8. pooled' \in [Peer -> SUBSET T]
      BY <3>3, <3>6
    <3>9. /\ \A q \in Peer : IsFiniteSet(pooled'[q])
          /\ a.tx \in pooled'[p]
          /\ \A q \in Peer : \A t \in pooled'[q] : t \in pooled[q] \/ t = a.tx
      BY <3>6, <3>7 DEF x
    <3> QED BY <2>1, <3>7, <3>8, <3>9
  <2>2. CASE ~(a.tx >= executed)
    <3>1. pooled' = pooled
      BY <1>1, <2>2
    <3> QED BY <1>2, <2>2, <3>1
  <2> QED BY <2>1, <2>2
<1>6. Safe(T)'
  <2>1. Typed(T)'
    BY <1>1, <1>4, <1>5 DEF Safe, Typed
  <2>2. Bounded'
    BY <1>1, <1>4 DEF Safe, Bounded, Running
  <2>3. AllRunning' /\ ClosedIdle'
    BY <1>1, <1>4 DEF Safe, AllRunning, ClosedIdle, Running
  <2> QED BY <2>1, <2>2, <2>3 DEF Safe
<1>7. ASSUME NEW q \in Peer
      PROVE  /\ \A t \in Range(Waits(backlog[q])) :
                  t \in Range(Waits(backlog'[q])) \/ \E c \in admitting'[q] : c.tx = t
             /\ \A c \in admitting[q] :
                  c.tx >= executed' => c \in admitting'[q] \/ c.tx \in pooled'[q]
  BY <1>1, <1>4, <1>5
<1>8. Kept
  BY <1>1, <1>5, <1>7, HandedOn
<1>9. ASSUME NEW t \in pooled'[Entrance]
      PROVE  t \in pooled[Entrance] \/ (t = a.tx /\ t >= executed)
  <2>1. t \in pooled[Entrance] \/ t = a.tx
    BY <1>5, GossipAssumption
  <2>2. CASE a.tx >= executed
    BY <2>1, <2>2
  <2>3. CASE ~(a.tx >= executed)
    <3>1. pooled' = pooled
      BY <1>5, <2>3
    <3> QED BY <3>1
  <2> QED BY <2>2, <2>3
<1> QED BY <1>6, <1>8, <1>9

LEMMA ProposeSafe ==
  ASSUME NEW T, Safe(T), NEW p \in Peer, Propose(p)
  PROVE  Safe(T)' /\ Kept /\ executed' >= executed
<1>1. /\ UNCHANGED <<batch, wire, backlog, admitting, life, gossipFaults>>
      /\ executed' = executed + Cardinality(Contiguous(p))
      /\ pooled' = [q \in Peer |-> {t \in pooled[q] : t >= executed'}]
  BY DEF Propose
<1>2. /\ pooled \in [Peer -> SUBSET T] /\ \A q \in Peer : IsFiniteSet(pooled[q])
      /\ executed \in Nat
  BY DEF Safe, Typed
<1>3. Cardinality(Contiguous(p)) \in Nat
  <2>1. Contiguous(p) \in SUBSET pooled[p]
    BY DEF Contiguous
  <2> QED BY <1>2, <2>1, FS_Subset, FS_CardinalityType
<1>4. executed' \in Nat /\ executed' >= executed
  BY <1>1, <1>2, <1>3
<1>5. \A q \in Peer : pooled'[q] \in SUBSET pooled[q] /\ IsFiniteSet(pooled'[q])
  <2>1. \A q \in Peer : pooled'[q] \in SUBSET pooled[q]
    BY <1>1
  <2> QED BY <1>2, <2>1, FS_Subset
<1>6. pooled' \in [Peer -> SUBSET T]
  BY <1>1, <1>2
<1>7. Safe(T)'
  BY <1>1, <1>4, <1>5, <1>6 DEF Safe, Typed, Bounded, AllRunning, ClosedIdle, Running
<1>8. Kept
  BY <1>1, HandedOn
<1> QED BY <1>4, <1>7, <1>8

LEMMA RequestMissingSafe ==
  ASSUME NEW T, Safe(T), NEW p \in Peer, RequestMissing(p)
  PROVE  Safe(T)' /\ Kept
<1> DEFINE f == [kind |-> "request", nonce |-> executed]
           fs == <<f>>
<1>1. /\ UNCHANGED <<executed, pooled, batch, backlog, admitting, life, gossipFaults>>
      /\ Broadcast(p, fs)
  BY DEF RequestMissing
<1>2. f \in Frames(T)
  BY DEF Frames, Safe, Typed
<1>3. fs \in Seq(Frames(T))
  <2> HIDE DEF f
  <2> QED BY <1>2
<1> HIDE DEF fs
<1>4. /\ wire' \in [Links -> Seq(Frames(T))]
      /\ \A l \in Links : FramesTxs(wire[l]) \subseteq FramesTxs(wire'[l])
  BY <1>1, <1>3, BroadcastSends DEF Safe, Typed
<1>5. Safe(T)'
  BY <1>1, <1>4 DEF Safe, Typed, Bounded, AllRunning, ClosedIdle, Running
<1>6. \A q \in Peer \ {Entrance} : <<Entrance, q>> \in Links
  BY GossipAssumption DEF Links
<1>7. Kept
  BY <1>1, <1>4, <1>6, HandedOn
<1> QED BY <1>5, <1>7

LEMMA AnswerRequestSafe ==
  ASSUME NEW T, Safe(T), NEW l \in Links, AnswerRequest(l)
  PROVE  Safe(T)' /\ Kept
<1> DEFINE p == l[2]
           back == <<p, l[1]>>
           frame == Head(wire[l])
           has == IF frame.nonce \in pooled[p] THEN <<frame.nonce>> ELSE <<>>
<1>1. /\ UNCHANGED <<executed, pooled, batch, backlog, admitting, life, gossipFaults>>
      /\ wire[l] # <<>> /\ frame.kind = "request"
      /\ wire' = [wire EXCEPT ![l] = Tail(@), ![back] = @ \o Frame(has)]
  BY DEF AnswerRequest
<1>2. /\ wire \in [Links -> Seq(Frames(T))] /\ pooled \in [Peer -> SUBSET T]
      /\ p \in Peer /\ back \in Links /\ back # l
  BY DEF Safe, Typed, Links
<1>3. has \in Seq(T)
  <2>1. CASE frame.nonce \in pooled[p]
    <3> DEFINE t == frame.nonce
    <3>1. t \in T
      BY <1>2, <2>1
    <3> HIDE DEF t
    <3>2. <<t>> \in Seq(T)
      BY <3>1
    <3> QED BY <2>1, <3>2 DEF t
  <2>2. CASE frame.nonce \notin pooled[p]
    BY <2>2
  <2> QED BY <2>1, <2>2
<1> HIDE DEF has, back
<1>4. /\ wire'[l] = Tail(wire[l]) /\ wire'[back] = wire[back] \o Frame(has)
      /\ \A k \in Links \ {l, back} : wire'[k] = wire[k]
      /\ DOMAIN wire' = Links /\ wire' = [k \in Links |-> wire'[k]]
  BY <1>1, <1>2
<1>5. /\ Tail(wire[l]) \in Seq(Frames(T))
      /\ FramesTxs(wire[l]) \subseteq FramesTxs(Tail(wire[l]))
  BY <1>1, <1>2, FramesShrink
<1>6. /\ wire[back] \o Frame(has) \in Seq(Frames(T))
      /\ FramesTxs(wire[back]) \subseteq FramesTxs(wire[back] \o Frame(has))
  BY <1>2, <1>3, FrameHas, FramesGrow
<1>7. /\ wire' \in [Links -> Seq(Frames(T))]
      /\ \A k \in Links : FramesTxs(wire[k]) \subseteq FramesTxs(wire'[k])
  BY <1>2, <1>4, <1>5, <1>6
<1>8. Safe(T)'
  BY <1>1, <1>7 DEF Safe, Typed, Bounded, AllRunning, ClosedIdle, Running
<1>9. \A q \in Peer \ {Entrance} : <<Entrance, q>> \in Links
  BY GossipAssumption DEF Links
<1>10. Kept
  BY <1>1, <1>7, <1>9, HandedOn
<1> QED BY <1>8, <1>10

\* A fault, or a step that needs one before it, owes nothing to what is under way.
LEMMA DisconnectSafe ==
  ASSUME NEW T, Safe(T), NEW l \in Links, Disconnect(l)
  PROVE  Safe(T)' /\ Kept
<1>1. /\ UNCHANGED <<executed, pooled, batch, backlog, admitting, life>>
      /\ wire' = [wire EXCEPT ![l] = <<>>] /\ gossipFaults' = gossipFaults + 1
  BY DEF Disconnect, GossipFault
<1>2. gossipFaults' \in Nat \ {0} /\ wire' \in [Links -> Seq(Frames(T))]
  BY <1>1 DEF Safe, Typed
<1> QED
  BY <1>1, <1>2 DEF Safe, Typed, Bounded, AllRunning, ClosedIdle, Running, Kept

LEMMA StopEngineSafe ==
  ASSUME NEW T, Safe(T), NEW p \in Peer, StopEngine(p)
  PROVE  Safe(T)' /\ Kept
<1>1. /\ UNCHANGED <<executed, pooled, batch, wire, admitting>>
      /\ Running(p) /\ gossipFaults' = gossipFaults + 1
      /\ life' = [life EXCEPT ![p] = "stopping"]
      /\ backlog' = [backlog EXCEPT ![p].txs = <<>>]
  BY DEF StopEngine, GossipFault
<1>2. gossipFaults' \in Nat \ {0}
  BY <1>1 DEF Safe, Typed
<1>3. /\ life' \in [Peer -> {"running", "stopping", "closed"}] /\ life'[p] = "stopping"
      /\ \A q \in Peer \ {p} : life'[q] = life[q]
  BY <1>1 DEF Safe, Typed
<1>4. /\ backlog' \in [Peer -> Backlogs(T)]
      /\ \A q \in Peer \ {p} : backlog'[q] = backlog[q]
  <2>1. backlog \in [Peer -> Backlogs(T)]
    BY DEF Safe, Typed
  <2>2. [backlog[p] EXCEPT !.txs = <<>>] \in Backlogs(T)
    <3> DEFINE k == backlog[p]
    <3>1. k \in Backlogs(T) /\ <<>> \in Seq(T)
      BY <2>1
    <3> HIDE DEF k
    <3>2. k = [txs |-> k.txs, offset |-> k.offset] /\ k.offset \in Nat
      BY <3>1 DEF Backlogs
    <3>3. [k EXCEPT !.txs = <<>>] = [txs |-> <<>>, offset |-> k.offset]
      BY <3>2
    <3>4. [k EXCEPT !.txs = <<>>] \in Backlogs(T)
      BY <3>1, <3>2, <3>3 DEF Backlogs
    <3> QED BY <3>4 DEF k
  <2>3. backlog' = [backlog EXCEPT ![p] = [backlog[p] EXCEPT !.txs = <<>>]]
    BY <1>1
  <2> QED BY <2>1, <2>2, <2>3
<1>5. Typed(T)'
  BY <1>1, <1>2, <1>3, <1>4 DEF Safe, Typed
<1>6. Bounded' /\ ClosedIdle' /\ AllRunning' /\ Kept
  BY <1>1, <1>2, <1>3, <1>4 DEF Safe, Bounded, ClosedIdle, AllRunning, Running, Kept
<1> QED BY <1>5, <1>6 DEF Safe

LEMMA CloseChainSafe ==
  ASSUME NEW T, Safe(T), NEW p \in Peer, CloseChain(p)
  PROVE  Safe(T)' /\ Kept
<1>1. /\ UNCHANGED <<executed, pooled, batch, backlog, admitting, gossipFaults>>
      /\ life[p] = "stopping" /\ admitting[p] = {}
      /\ life' = [life EXCEPT ![p] = "closed"]
      /\ wire' = [l \in Links |-> IF p \in {l[1], l[2]} THEN <<>> ELSE wire[l]]
  BY DEF CloseChain, TxIdle
<1>2. gossipFaults' # 0
  BY <1>1 DEF Safe, AllRunning, Running
<1>3. wire' \in [Links -> Seq(Frames(T))]
  <2>1. <<>> \in Seq(Frames(T)) /\ \A l \in Links : wire[l] \in Seq(Frames(T))
    BY DEF Safe, Typed
  <2> QED BY <1>1, <2>1
<1>4. /\ life' \in [Peer -> {"running", "stopping", "closed"}] /\ life'[p] = "closed"
      /\ \A q \in Peer \ {p} : life'[q] = life[q]
  BY <1>1 DEF Safe, Typed
<1>5. Typed(T)'
  BY <1>1, <1>3, <1>4 DEF Safe, Typed
<1>6. Bounded' /\ ClosedIdle' /\ AllRunning' /\ Kept
  BY <1>1, <1>2, <1>4 DEF Safe, Bounded, ClosedIdle, AllRunning, Running, Kept
<1> QED BY <1>5, <1>6 DEF Safe

-----------------------------------------------------------------------------
LEMMA TypedGrows ==
  ASSUME NEW S, NEW T, S \subseteq T, Typed(S)
  PROVE  Typed(T)
<1>1. Seq(S) \subseteq Seq(T)
  BY SeqMonotonic
<1>2. Frames(S) \subseteq Frames(T) /\ Backlogs(S) \subseteq Backlogs(T)
      /\ Admissions(S) \subseteq Admissions(T)
  BY <1>1 DEF Frames, Backlogs, Admissions
<1>3. Seq(Frames(S)) \subseteq Seq(Frames(T))
  BY <1>2, SeqMonotonic
<1> QED
  BY <1>1, <1>2, <1>3 DEF Typed

LEMMA GossipStarts == GossipInit => GossipInv
<1> SUFFICES ASSUME GossipInit PROVE GossipInv
  OBVIOUS
<1> USE DEF GossipInit
<1>1. Typed(Known)
  <2>1. \A T : <<>> \in Seq(T)
    OBVIOUS
  <2>2. IsFiniteSet({})
    BY FS_EmptySet
  <2>3. [txs |-> <<>>, offset |-> 0] \in Backlogs(Known)
    BY <2>1 DEF Backlogs
  <2> QED BY <2>1, <2>2, <2>3 DEF Typed
<1>2. Bounded
  BY FS_EmptySet, GossipAssumption DEF Bounded, WithinAdmissions, WithinBacklog
<1>3. AllRunning /\ ClosedIdle
  BY DEF AllRunning, ClosedIdle, Running
<1>4. pooled[Entrance] = {}
  BY GossipAssumption
<1> QED
  BY <1>1, <1>2, <1>3, <1>4 DEF GossipInv, NothingLost

\* Nothing the pools may hold gets unknown.
LEMMA KnownGrows ==
  ASSUME executed \in Nat, executed' \in Nat, executed' >= executed,
         \A t \in pooled[Entrance] : t >= executed' => t \in pooled'[Entrance]
  PROVE  Known \subseteq Known'
BY DEF Known

\* What a step owes, put together.
LEMMA Preserved ==
  ASSUME GossipInv, NEW T, T = Known', Safe(T)', Kept, gossipFaults' = 0 => gossipFaults = 0,
         \A t \in pooled'[Entrance] : t >= executed',
         \A t \in pooled'[Entrance] :
           \/ t \in pooled[Entrance]
           \/ \A p \in Peer \ {Entrance} : gossipFaults' = 0 => Has(t, p)'
  PROVE  GossipInv'
<1>1. \A t \in pooled'[Entrance] : t \in Nat
  BY GossipAssumption DEF Safe, Typed, Known
<1>2. NothingLost'
  <2> SUFFICES ASSUME gossipFaults' = 0, NEW t \in pooled'[Entrance],
                      NEW p \in Peer \ {Entrance}
               PROVE  Has(t, p)'
    BY DEF NothingLost
  <2>1. CASE t \in pooled[Entrance]
    <3>1. Has(t, p)
      BY <2>1 DEF GossipInv, NothingLost
    <3> QED BY <1>1, <3>1 DEF Kept
  <2>2. CASE t \notin pooled[Entrance]
    BY <2>2
  <2> QED BY <2>1, <2>2
<1>3. Typed(Known)'
  BY DEF Safe
<1> QED
  BY <1>2, <1>3 DEF GossipInv, Safe

LEMMA StepHolds == GossipInv /\ [GossipNext]_gossipVars => GossipInv'
<1> SUFFICES ASSUME GossipInv, [GossipNext]_gossipVars
             PROVE  GossipInv'
  OBVIOUS
<1>1. /\ executed \in Nat /\ gossipFaults \in Nat /\ Entrance \in Peer
      /\ pooled \in [Peer -> SUBSET Known] /\ \A q \in Peer : IsFiniteSet(pooled[q])
      /\ admitting \in [Peer -> SUBSET Admissions(Known)]
      /\ \A t \in pooled[Entrance] : t >= executed
  BY GossipAssumption DEF GossipInv, Typed
<1>2. PICK T : T = Known'
  OBVIOUS
<1>3. ASSUME Known \subseteq T PROVE Safe(T)
  <2> DEFINE S == Known
  <2>1. Typed(S)
    BY DEF GossipInv
  <2>2. S \subseteq T
    BY <1>3
  <2> HIDE DEF S
  <2>3. Typed(T)
    BY <2>1, <2>2, TypedGrows
  <2> QED BY <2>3 DEF Safe, GossipInv
<1>4. ASSUME NEW t \in Nonces, SubmitTx(t) PROVE GossipInv'
  <2>1. /\ UNCHANGED <<executed, gossipFaults>> /\ t >= executed
        /\ pooled'[Entrance] = pooled[Entrance] \cup {t}
    BY <1>1, <1>4 DEF SubmitTx
  <2>2. t \in Nat
    BY GossipAssumption DEF Nonces
  <2>3. Known \subseteq T /\ t \in T
    BY <1>1, <1>2, <2>1, <2>2 DEF Known
  <2>4. Safe(T)' /\ Kept /\ \A p \in Peer \ {Entrance} : gossipFaults' = 0 => Has(t, p)'
    BY <1>3, <1>4, <2>3, SubmitTxSafe
  <2> QED BY <1>1, <1>2, <2>1, <2>4, Preserved
<1>5. ASSUME NEW l \in Links, Receive(l) PROVE GossipInv'
  <2>1. UNCHANGED <<executed, pooled, gossipFaults>>
    BY <1>5 DEF Receive
  <2>2. Known \subseteq T
    BY <1>1, <1>2, <2>1 DEF Known
  <2>3. Safe(T)' /\ Kept
    BY <1>3, <1>5, <2>2, ReceiveSafe
  <2> QED BY <1>1, <1>2, <2>1, <2>3, Preserved
<1>6. ASSUME NEW l \in Links, AnswerRequest(l) PROVE GossipInv'
  <2>1. UNCHANGED <<executed, pooled, gossipFaults>>
    BY <1>6 DEF AnswerRequest
  <2>2. Known \subseteq T
    BY <1>1, <1>2, <2>1 DEF Known
  <2>3. Safe(T)' /\ Kept
    BY <1>3, <1>6, <2>2, AnswerRequestSafe
  <2> QED BY <1>1, <1>2, <2>1, <2>3, Preserved
<1>7. ASSUME NEW l \in Links, Disconnect(l) PROVE GossipInv'
  <2>1. UNCHANGED <<executed, pooled>> /\ gossipFaults' = gossipFaults + 1
    BY <1>7 DEF Disconnect, GossipFault
  <2>2. Known \subseteq T
    BY <1>1, <1>2, <2>1 DEF Known
  <2>3. Safe(T)' /\ Kept
    BY <1>3, <1>7, <2>2, DisconnectSafe
  <2>4. gossipFaults' # 0
    BY <1>1, <2>1
  <2> QED BY <1>1, <1>2, <2>1, <2>3, <2>4, Preserved
<1>8. ASSUME NEW p \in Peer, FlushTimer(p) PROVE GossipInv'
  <2>1. UNCHANGED <<executed, pooled, gossipFaults>>
    BY <1>8 DEF FlushTimer
  <2>2. Known \subseteq T
    BY <1>1, <1>2, <2>1 DEF Known
  <2>3. Safe(T)' /\ Kept
    BY <1>3, <1>8, <2>2, FlushTimerSafe
  <2> QED BY <1>1, <1>2, <2>1, <2>3, Preserved
<1>9. ASSUME NEW p \in Peer, NEW a \in admitting[p], Admitted(p, a) PROVE GossipInv'
  <2>1. UNCHANGED <<executed, gossipFaults>>
    BY <1>9 DEF Admitted
  <2>2. pooled[Entrance] \subseteq pooled'[Entrance]
    BY <1>1, <1>9 DEF Admitted
  <2>3. Known \subseteq T
    BY <1>1, <1>2, <2>1, <2>2 DEF Known
  <2>4. /\ Safe(T)' /\ Kept
        /\ \A t \in pooled'[Entrance] : t \in pooled[Entrance] \/ (t = a.tx /\ t >= executed)
    BY <1>3, <1>9, <2>3, AdmittedSafe
  <2>5. a.tx \in Known
    BY <1>1 DEF Admissions
  <2>6. \A t \in pooled'[Entrance] : t \in pooled[Entrance]
    BY <2>4, <2>5 DEF Known
  <2> QED BY <1>1, <1>2, <2>1, <2>4, <2>6, Preserved
<1>10. ASSUME NEW p \in Peer, Propose(p) PROVE GossipInv'
  <2>1. /\ UNCHANGED gossipFaults
        /\ pooled'[Entrance] = {t \in pooled[Entrance] : t >= executed'}
        /\ executed' = executed + Cardinality(Contiguous(p))
    BY <1>1, <1>10 DEF Propose
  <2>2. Cardinality(Contiguous(p)) \in Nat
    <3>1. Contiguous(p) \in SUBSET pooled[p]
      BY DEF Contiguous
    <3> QED BY <1>1, <3>1, FS_Subset, FS_CardinalityType
  <2>3. executed' \in Nat /\ executed' >= executed
    BY <1>1, <2>1, <2>2
  <2>4. Known \subseteq T
    BY <1>1, <1>2, <2>1, <2>3, KnownGrows
  <2>5. Safe(T)' /\ Kept
    BY <1>3, <1>10, <2>4, ProposeSafe
  <2> QED BY <1>1, <1>2, <2>1, <2>5, Preserved
<1>11. ASSUME NEW p \in Peer, RequestMissing(p) PROVE GossipInv'
  <2>1. UNCHANGED <<executed, pooled, gossipFaults>>
    BY <1>11 DEF RequestMissing
  <2>2. Known \subseteq T
    BY <1>1, <1>2, <2>1 DEF Known
  <2>3. Safe(T)' /\ Kept
    BY <1>3, <1>11, <2>2, RequestMissingSafe
  <2> QED BY <1>1, <1>2, <2>1, <2>3, Preserved
<1>12. ASSUME NEW p \in Peer, StopEngine(p) PROVE GossipInv'
  <2>1. UNCHANGED <<executed, pooled>> /\ gossipFaults' = gossipFaults + 1
    BY <1>12 DEF StopEngine, GossipFault
  <2>2. Known \subseteq T
    BY <1>1, <1>2, <2>1 DEF Known
  <2>3. Safe(T)' /\ Kept
    BY <1>3, <1>12, <2>2, StopEngineSafe
  <2>4. gossipFaults' # 0
    BY <1>1, <2>1
  <2> QED BY <1>1, <1>2, <2>1, <2>3, <2>4, Preserved
<1>13. ASSUME NEW p \in Peer, CloseChain(p) PROVE GossipInv'
  <2>1. UNCHANGED <<executed, pooled, gossipFaults>>
    BY <1>13 DEF CloseChain
  <2>2. Known \subseteq T
    BY <1>1, <1>2, <2>1 DEF Known
  <2>3. Safe(T)' /\ Kept
    BY <1>3, <1>13, <2>2, CloseChainSafe
  <2> QED BY <1>1, <1>2, <2>1, <2>3, Preserved
<1>14. ASSUME \/ \E p \in Peer : RequestTimeOut(p)
              \/ UNCHANGED gossipVars
       PROVE  GossipInv'
  <2>1. UNCHANGED <<executed, pooled, batch, wire, backlog, admitting, life, gossipFaults>>
    BY <1>14 DEF RequestTimeOut, gossipVars
  <2>2. Known \subseteq T
    BY <1>1, <1>2, <2>1 DEF Known
  <2>3. Safe(T)
    BY <1>3, <2>2
  <2>4. Safe(T)'
    BY <2>1, <2>3
    DEF Safe, Typed, Bounded, AllRunning, ClosedIdle, Running, WithinBacklog,
        WithinAdmissions
  <2>5. Kept
    BY <2>1, HandedOn
  <2> QED BY <1>1, <1>2, <2>1, <2>4, <2>5, Preserved
<1> QED
  BY <1>4, <1>5, <1>6, <1>7, <1>8, <1>9, <1>10, <1>11, <1>12, <1>13, <1>14 DEF GossipNext

-----------------------------------------------------------------------------
(* Batches, frames, the backlog with its offset and the admissions hold only   *)
(* transactions that the entrance has pending or that were executed; no more   *)
(* admissions wait than may; and what is pending at the entrance is pending,    *)
(* or on its way, everywhere.                                                *)
THEOREM GossipInvariant == GossipSpec => []GossipInv
<1>1. GossipInit => GossipInv
  BY GossipStarts
<1>2. GossipInv /\ [GossipNext]_gossipVars => GossipInv'
  BY StepHolds
<1> QED
  BY <1>1, <1>2, PTL DEF GossipSpec

(* For any mesh and any limits on batches, admissions and the backlog, gossip    *)
(* loses no submitted transaction while no connection breaks and no node stops; *)
(* and a node closes its chain only when no admission uses it.               *)
THEOREM GossipLosesNothing == GossipSpec => []NothingLostInGossip
<1>1. GossipInv => NothingLostInGossip
  BY DEF GossipInv, NothingLost, NothingLostInGossip, ClosedIdle, Has
<1> QED
  BY <1>1, GossipInvariant, PTL

-----------------------------------------------------------------------------
(* SignaturePool: FirstForgedIsFound for any transactions, workers, callers    *)
(* and sizes of the cache.  The cache holds valid hashes only, so what a        *)
(* request leaves out needs no check; its jobs are in the order of the block    *)
(* and have every forged transaction (JobsFor); and the workers' chunks, one    *)
(* after the other, are the jobs (ChunksAreJobs).                            *)

Jobs == Seq([index : Nat, hash : Hash])
Valid == Hash \ Forged

LEMMA JobsAre ==
  /\ <<>> \in Jobs
  /\ \A a, b \in Jobs : a \o b \in Jobs
  /\ \A a \in Jobs, e \in [index : Nat, hash : Hash] : Append(a, e) \in Jobs
  /\ \A a \in Jobs : /\ Len(a) \in Nat /\ DOMAIN a = 1 .. Len(a)
                    /\ \A i \in 1 .. Len(a) : a[i] \in [index : Nat, hash : Hash]
<1> DEFINE Job == [index : Nat, hash : Hash]
<1>1. Jobs = Seq(Job)
  BY DEF Jobs
<1> HIDE DEF Job
<1>2. <<>> \in Seq(Job) /\ \A a \in Seq(Job), e \in Job : Append(a, e) \in Seq(Job)
  OBVIOUS
<1>3. \A a, b \in Seq(Job) : a \o b \in Seq(Job)
  BY ConcatProperties
<1>4. \A a \in Seq(Job) : /\ Len(a) \in Nat /\ DOMAIN a = 1 .. Len(a)
                          /\ \A i \in 1 .. Len(a) : a[i] \in Job
  OBVIOUS
<1> QED BY <1>1, <1>2, <1>3, <1>4 DEF Job

(* The three folds: jobs from transactions, from chunks, and a cache from jobs.  *)
WithJob(jobs, ts, i) ==
  IF IsCached(ts[i]) THEN jobs ELSE Append(jobs, [index |-> i, hash |-> ts[i]])

Positions(ts) == [i \in DOMAIN ts |-> i]

JobsGo(ts, g) ==
  g = [s \in SUBSET (DOMAIN Positions(ts)) |->
         IF s = {} THEN <<>>
         ELSE LET x == Max(s) IN WithJob(g[s \ {x}], ts, Positions(ts)[x])]

LEMMA JobsOfIsChosen ==
  ASSUME NEW ts
  PROVE  JobsOf(ts) = (CHOOSE g : JobsGo(ts, g))[DOMAIN Positions(ts)]
BY DEF JobsOf, FoldLeft, MapThenFoldSet, JobsGo, WithJob, Positions

AllJobs(chunks) == FoldLeft(LAMBDA all, chunk : all \o chunk.jobs, <<>>, chunks)

AllGo(chunks, g) ==
  g = [s \in SUBSET (DOMAIN chunks) |->
         IF s = {} THEN <<>> ELSE LET x == Max(s) IN g[s \ {x}] \o chunks[x].jobs]

LEMMA AllJobsIsChosen ==
  ASSUME NEW chunks
  PROVE  AllJobs(chunks) = (CHOOSE g : AllGo(chunks, g))[DOMAIN chunks]
BY DEF AllJobs, FoldLeft, MapThenFoldSet, AllGo

WithHash(seq, j) == IF j.hash \in Forged THEN seq ELSE Remember(seq, j.hash)

RememberGo(jobs, g) ==
  g = [s \in SUBSET (DOMAIN jobs) |->
         IF s = {} THEN cache ELSE LET x == Max(s) IN WithHash(g[s \ {x}], jobs[x])]

LEMMA RememberValidIsChosen ==
  ASSUME NEW jobs
  PROVE  RememberValid(jobs) = (CHOOSE g : RememberGo(jobs, g))[DOMAIN jobs]
BY DEF RememberValid, FoldLeft, MapThenFoldSet, RememberGo, WithHash

LEMMA RememberKeeps ==
  ASSUME NEW seq \in Seq(Valid), NEW t \in Valid
  PROVE  Remember(seq, t) \in Seq(Valid)
<1>1. CASE t \in Range(seq)
  BY <1>1 DEF Remember
<1>2. CASE t \notin Range(seq) /\ Len(seq) < MaxVerified
  BY <1>2 DEF Remember
<1>3. CASE t \notin Range(seq) /\ ~(Len(seq) < MaxVerified)
  <2> DEFINE trim == IF MaxVerified \div 10 > 1 THEN MaxVerified \div 10 ELSE 1
             more == Append(seq, t)
  <2>1. more \in Seq(Valid) /\ Len(more) = Len(seq) + 1 /\ Len(seq) \in Nat
    OBVIOUS
  <2>2. trim \in Nat /\ trim >= 1
    BY SignatureAssumption
  <2>3. Remember(seq, t) = SubSeq(more, trim + 1, Len(seq) + 1)
    BY <1>3 DEF Remember
  <2> HIDE DEF trim, more
  <2>4. \A i \in (trim + 1) .. (Len(seq) + 1) : i \in 1 .. Len(more)
    BY <2>1, <2>2
  <2>5. SubSeq(more, trim + 1, Len(seq) + 1) \in Seq(Valid)
    BY <2>1, <2>2, <2>4, SubSeqProperties
  <2> QED BY <2>3, <2>5
<1> QED BY <1>1, <1>2, <1>3

\* From one transaction to the next.
LEMMA JobsOfIs ==
  ASSUME NEW ts \in Seq(Hash)
  PROVE  \E w : /\ w[0] = <<>> /\ w[Len(ts)] = JobsOf(ts)
                /\ \A j \in 1 .. Len(ts) : w[j] = WithJob(w[j - 1], ts, j)
<1> DEFINE n == Len(ts)
           A == Jobs
           F == [ja \in (1 .. n) \X A |-> WithJob(ja[2], ts, ja[1])]
<1>1. /\ n \in Nat /\ DOMAIN ts = 1 .. n /\ \A j \in 1 .. n : ts[j] \in Hash
      /\ DOMAIN Positions(ts) = 1 .. n /\ \A j \in 1 .. n : Positions(ts)[j] = j
      /\ <<>> \in A
  BY JobsAre DEF Positions
<1> HIDE DEF n
<1>2. ASSUME NEW a \in A, NEW j \in 1 .. n
      PROVE  WithJob(a, ts, j) \in A /\ F[<<j, a>>] = WithJob(a, ts, j)
  <2>1. WithJob(a, ts, j) \in A
    <3>1. [index |-> j, hash |-> ts[j]] \in [index : Nat, hash : Hash]
      BY <1>1
    <3> QED BY <3>1, JobsAre DEF WithJob
  <2>2. <<j, a>> \in (1 .. n) \X A
    OBVIOUS
  <2> HIDE DEF A
  <2> QED BY <2>1, <2>2
<1>3. F \in [(1 .. n) \X A -> A]
  <2>1. ASSUME NEW ja \in (1 .. n) \X A PROVE WithJob(ja[2], ts, ja[1]) \in A
    <3>1. ja[1] \in 1 .. n /\ ja[2] \in A
      OBVIOUS
    <3> HIDE DEF A
    <3> QED BY <1>2, <3>1
  <2> HIDE DEF A
  <2> QED BY <2>1
<1>4. <<>> \in A
  BY <1>1
<1> HIDE DEF A, F
<1>5. PICK g \in [SUBSET (1 .. n) -> A] : FoldsAlong(F, <<>>, n, g)
  BY <1>1, <1>3, <1>4, FoldExists
<1>6. \A s \in SUBSET (1 .. n) :
        s # {} => Max(s) \in 1 .. n /\ s \ {Max(s)} \in SUBSET (1 .. n)
  BY <1>1, MaxIsIn
<1>7. JobsGo(ts, g)
  <2>1. g = [s \in SUBSET (1 .. n) |-> g[s]]
    OBVIOUS
  <2>2. ASSUME NEW s \in SUBSET (1 .. n)
        PROVE  g[s] = IF s = {} THEN <<>>
                      ELSE LET x == Max(s) IN WithJob(g[s \ {x}], ts, Positions(ts)[x])
    <3>1. CASE s = {}
      BY <1>5, <3>1 DEF FoldsAlong
    <3>2. CASE s # {}
      <4>1. g[s] = F[<<Max(s), g[s \ {Max(s)}]>>]
        BY <1>5, <3>2 DEF FoldsAlong
      <4>2. Max(s) \in 1 .. n /\ g[s \ {Max(s)}] \in A
        BY <1>6, <3>2
      <4>3. Positions(ts)[Max(s)] = Max(s)
        BY <1>1, <4>2
      <4> QED BY <1>2, <3>2, <4>1, <4>2, <4>3
    <3> QED BY <3>1, <3>2
  <2> QED BY <1>1, <2>1, <2>2 DEF JobsGo
<1> DEFINE h == CHOOSE h : JobsGo(ts, h)
<1>8. JobsGo(ts, h)
  BY <1>7
<1>9. JobsOf(ts) = h[1 .. n]
  BY <1>1, JobsOfIsChosen
<1> HIDE DEF h
<1>10. h[1 .. 0] = <<>>
  BY <1>1, <1>8 DEF JobsGo
<1>11. ASSUME NEW j \in 1 .. n PROVE h[1 .. j] = WithJob(h[1 .. j - 1], ts, j)
  <2>1. /\ 1 .. j \in SUBSET (1 .. n) /\ 1 .. j # {} /\ Max(1 .. j) = j
        /\ (1 .. j) \ {j} = 1 .. j - 1
    BY <1>1, PrefixIs
  <2>2. h[1 .. j] = LET x == Max(1 .. j)
                    IN WithJob(h[(1 .. j) \ {x}], ts, Positions(ts)[x])
    BY <1>1, <1>8, <2>1 DEF JobsGo
  <2> QED BY <1>1, <2>1, <2>2
<1> DEFINE w == [j \in 0 .. n |-> h[1 .. j]]
<1>12. w[0] = <<>> /\ w[n] = JobsOf(ts)
  BY <1>1, <1>9, <1>10
<1>13. ASSUME NEW j \in 1 .. n PROVE w[j] = WithJob(w[j - 1], ts, j)
  <2>1. j \in 0 .. n /\ j - 1 \in 0 .. n
    BY <1>1
  <2>2. w[j] = h[1 .. j] /\ w[j - 1] = h[1 .. j - 1]
    BY <2>1
  <2> QED BY <1>11, <2>2
<1> HIDE DEF w
<1> QED BY <1>12, <1>13 DEF n

\* From one chunk to the next.
LEMMA AllJobsIs ==
  ASSUME NEW n0 \in Nat, NEW chunks, DOMAIN chunks = 1 .. n0, \A j \in 1 .. n0 : chunks[j].jobs \in Jobs
  PROVE  \E w : /\ w[0] = <<>> /\ w[n0] = AllJobs(chunks)
                /\ \A j \in 1 .. n0 : w[j] = w[j - 1] \o chunks[j].jobs
<1> DEFINE n == n0
           A == Jobs
           F == [ja \in (1 .. n) \X A |-> ja[2] \o chunks[ja[1]].jobs]
<1>1. /\ n \in Nat /\ DOMAIN chunks = 1 .. n /\ \A j \in 1 .. n : chunks[j].jobs \in Jobs
      /\ <<>> \in A
  BY JobsAre
<1> HIDE DEF n
<1>2. ASSUME NEW a \in A, NEW j \in 1 .. n
      PROVE  a \o chunks[j].jobs \in A /\ F[<<j, a>>] = a \o chunks[j].jobs
  <2>1. a \o chunks[j].jobs \in A
    BY <1>1, JobsAre
  <2>2. <<j, a>> \in (1 .. n) \X A
    OBVIOUS
  <2> HIDE DEF A
  <2> QED BY <2>1, <2>2
<1>3. F \in [(1 .. n) \X A -> A]
  <2>1. ASSUME NEW ja \in (1 .. n) \X A PROVE ja[2] \o chunks[ja[1]].jobs \in A
    <3>1. ja[1] \in 1 .. n /\ ja[2] \in A
      OBVIOUS
    <3> HIDE DEF A
    <3> QED BY <1>2, <3>1
  <2> HIDE DEF A
  <2> QED BY <2>1
<1>4. <<>> \in A
  BY <1>1
<1> HIDE DEF A, F
<1>5. PICK g \in [SUBSET (1 .. n) -> A] : FoldsAlong(F, <<>>, n, g)
  BY <1>1, <1>3, <1>4, FoldExists
<1>6. \A s \in SUBSET (1 .. n) :
        s # {} => Max(s) \in 1 .. n /\ s \ {Max(s)} \in SUBSET (1 .. n)
  BY <1>1, MaxIsIn
<1>7. AllGo(chunks, g)
  <2>1. g = [s \in SUBSET (1 .. n) |-> g[s]]
    OBVIOUS
  <2>2. ASSUME NEW s \in SUBSET (1 .. n)
        PROVE  g[s] = IF s = {} THEN <<>>
                      ELSE LET x == Max(s) IN g[s \ {x}] \o chunks[x].jobs
    <3>1. CASE s = {}
      BY <1>5, <3>1 DEF FoldsAlong
    <3>2. CASE s # {}
      <4>1. g[s] = F[<<Max(s), g[s \ {Max(s)}]>>]
        BY <1>5, <3>2 DEF FoldsAlong
      <4>2. Max(s) \in 1 .. n /\ g[s \ {Max(s)}] \in A
        BY <1>6, <3>2
      <4> QED BY <1>2, <3>2, <4>1, <4>2
    <3> QED BY <3>1, <3>2
  <2> QED BY <1>1, <2>1, <2>2 DEF AllGo
<1> DEFINE h == CHOOSE h : AllGo(chunks, h)
<1>8. AllGo(chunks, h)
  BY <1>7
<1>9. AllJobs(chunks) = h[1 .. n]
  BY <1>1, AllJobsIsChosen
<1> HIDE DEF h
<1>10. h[1 .. 0] = <<>>
  BY <1>1, <1>8 DEF AllGo
<1>11. ASSUME NEW j \in 1 .. n PROVE h[1 .. j] = h[1 .. j - 1] \o chunks[j].jobs
  <2>1. /\ 1 .. j \in SUBSET (1 .. n) /\ 1 .. j # {} /\ Max(1 .. j) = j
        /\ (1 .. j) \ {j} = 1 .. j - 1
    BY <1>1, PrefixIs
  <2>2. h[1 .. j] = LET x == Max(1 .. j) IN h[(1 .. j) \ {x}] \o chunks[x].jobs
    BY <1>1, <1>8, <2>1 DEF AllGo
  <2> QED BY <2>1, <2>2
<1> DEFINE w == [j \in 0 .. n |-> h[1 .. j]]
<1>12. w[0] = <<>> /\ w[n] = AllJobs(chunks)
  BY <1>1, <1>9, <1>10
<1>13. ASSUME NEW j \in 1 .. n PROVE w[j] = w[j - 1] \o chunks[j].jobs
  <2>1. j \in 0 .. n /\ j - 1 \in 0 .. n
    BY <1>1
  <2>2. w[j] = h[1 .. j] /\ w[j - 1] = h[1 .. j - 1]
    BY <2>1
  <2> QED BY <1>11, <2>2
<1> HIDE DEF w
<1> QED BY <1>12, <1>13 DEF n

\* From one job to the next.
LEMMA RememberValidIs ==
  ASSUME NEW jobs \in Jobs, cache \in Seq(Valid)
  PROVE  \E w : /\ w[0] = cache /\ w[Len(jobs)] = RememberValid(jobs)
                /\ \A j \in 1 .. Len(jobs) : w[j] = WithHash(w[j - 1], jobs[j])
<1> DEFINE n == Len(jobs)
           A == Seq(Valid)
           F == [ja \in (1 .. n) \X A |-> WithHash(ja[2], jobs[ja[1]])]
<1>1. /\ n \in Nat /\ DOMAIN jobs = 1 .. n
      /\ \A j \in 1 .. n : jobs[j].hash \in Forged \/ jobs[j].hash \in Valid
      /\ cache \in A
  BY JobsAre DEF Valid
<1> HIDE DEF n
<1>2. ASSUME NEW a \in A, NEW j \in 1 .. n
      PROVE  WithHash(a, jobs[j]) \in A /\ F[<<j, a>>] = WithHash(a, jobs[j])
  <2>1. WithHash(a, jobs[j]) \in A
    BY <1>1, RememberKeeps DEF WithHash
  <2>2. <<j, a>> \in (1 .. n) \X A
    OBVIOUS
  <2> HIDE DEF A
  <2> QED BY <2>1, <2>2
<1>3. F \in [(1 .. n) \X A -> A]
  <2>1. ASSUME NEW ja \in (1 .. n) \X A PROVE WithHash(ja[2], jobs[ja[1]]) \in A
    <3>1. ja[1] \in 1 .. n /\ ja[2] \in A
      OBVIOUS
    <3> HIDE DEF A
    <3> QED BY <1>2, <3>1
  <2> HIDE DEF A
  <2> QED BY <2>1
<1>4. cache \in A
  BY <1>1
<1> HIDE DEF A, F
<1>5. PICK g \in [SUBSET (1 .. n) -> A] : FoldsAlong(F, cache, n, g)
  BY <1>1, <1>3, <1>4, FoldExists
<1>6. \A s \in SUBSET (1 .. n) :
        s # {} => Max(s) \in 1 .. n /\ s \ {Max(s)} \in SUBSET (1 .. n)
  BY <1>1, MaxIsIn
<1>7. RememberGo(jobs, g)
  <2>1. g = [s \in SUBSET (1 .. n) |-> g[s]]
    OBVIOUS
  <2>2. ASSUME NEW s \in SUBSET (1 .. n)
        PROVE  g[s] = IF s = {} THEN cache
                      ELSE LET x == Max(s) IN WithHash(g[s \ {x}], jobs[x])
    <3>1. CASE s = {}
      BY <1>5, <3>1 DEF FoldsAlong
    <3>2. CASE s # {}
      <4>1. g[s] = F[<<Max(s), g[s \ {Max(s)}]>>]
        BY <1>5, <3>2 DEF FoldsAlong
      <4>2. Max(s) \in 1 .. n /\ g[s \ {Max(s)}] \in A
        BY <1>6, <3>2
      <4> QED BY <1>2, <3>2, <4>1, <4>2
    <3> QED BY <3>1, <3>2
  <2> QED BY <1>1, <2>1, <2>2 DEF RememberGo
<1> DEFINE h == CHOOSE h : RememberGo(jobs, h)
<1>8. RememberGo(jobs, h)
  BY <1>7
<1>9. RememberValid(jobs) = h[1 .. n]
  BY <1>1, RememberValidIsChosen
<1> HIDE DEF h
<1>10. h[1 .. 0] = cache
  BY <1>1, <1>8 DEF RememberGo
<1>11. ASSUME NEW j \in 1 .. n PROVE h[1 .. j] = WithHash(h[1 .. j - 1], jobs[j])
  <2>1. /\ 1 .. j \in SUBSET (1 .. n) /\ 1 .. j # {} /\ Max(1 .. j) = j
        /\ (1 .. j) \ {j} = 1 .. j - 1
    BY <1>1, PrefixIs
  <2>2. h[1 .. j] = LET x == Max(1 .. j) IN WithHash(h[(1 .. j) \ {x}], jobs[x])
    BY <1>1, <1>8, <2>1 DEF RememberGo
  <2> QED BY <2>1, <2>2
<1> DEFINE w == [j \in 0 .. n |-> h[1 .. j]]
<1>12. w[0] = cache /\ w[n] = RememberValid(jobs)
  BY <1>1, <1>9, <1>10
<1>13. ASSUME NEW j \in 1 .. n PROVE w[j] = WithHash(w[j - 1], jobs[j])
  <2>1. j \in 0 .. n /\ j - 1 \in 0 .. n
    BY <1>1
  <2>2. w[j] = h[1 .. j] /\ w[j - 1] = h[1 .. j - 1]
    BY <2>1
  <2> QED BY <1>11, <2>2
<1> HIDE DEF w
<1> QED BY <1>12, <1>13 DEF n

\* A cache of valid hashes remains one, whatever jobs are remembered.
LEMMA RememberValidKeeps ==
  ASSUME NEW jobs \in Jobs, cache \in Seq(Valid)
  PROVE  RememberValid(jobs) \in Seq(Valid)
<1> DEFINE n == Len(jobs)
<1>1. /\ n \in Nat
      /\ \A j \in 1 .. n : jobs[j].hash \in Forged \/ jobs[j].hash \in Valid
  BY JobsAre DEF Valid
<1>2. PICK w : /\ w[0] = cache /\ w[n] = RememberValid(jobs)
               /\ \A j \in 1 .. n : w[j] = WithHash(w[j - 1], jobs[j])
  BY RememberValidIs
<1> DEFINE Good == {j \in 0 .. n : w[j] \in Seq(Valid)}
<1> HIDE DEF n
<1>3. ASSUME NEW j \in 1 .. n, j - 1 \in Good PROVE j \in Good
  <2>1. w[j - 1] \in Seq(Valid) /\ j \in 0 .. n
    BY <1>1, <1>3
  <2>2. WithHash(w[j - 1], jobs[j]) \in Seq(Valid)
    BY <1>1, <2>1, RememberKeeps DEF WithHash
  <2> QED BY <1>2, <2>1, <2>2
<1>4. 0 \in Good
  BY <1>1, <1>2
<1> HIDE DEF Good
<1>5. \A j \in 0 .. n : j \in Good
  BY <1>1, <1>3, <1>4, CountsUpTo
<1>6. n \in 0 .. n
  BY <1>1
<1> QED BY <1>2, <1>5, <1>6 DEF Good

\* The jobs of the first n of the transactions ts.
JobsUpTo(ts, n, jobs) ==
  /\ jobs \in Jobs
  /\ \A i \in 1 .. Len(jobs) : jobs[i].index \in 1 .. n /\ jobs[i].hash = ts[jobs[i].index]
  /\ \A i, k \in 1 .. Len(jobs) : i < k => jobs[i].index < jobs[k].index
  /\ \A p \in 1 .. n : ts[p] \in Forged => \E i \in 1 .. Len(jobs) : jobs[i].index = p

JobsFor(ts, jobs) == JobsUpTo(ts, Len(ts), jobs)

LEMMA OneMoreJob ==
  ASSUME NEW ts \in Seq(Hash), cache \in Seq(Valid), NEW j \in 1 .. Len(ts),
         NEW jobs, JobsUpTo(ts, j - 1, jobs)
  PROVE  JobsUpTo(ts, j, WithJob(jobs, ts, j))
<1>0. /\ jobs \in Jobs /\ Len(jobs) \in Nat /\ j \in Nat /\ j >= 1 /\ ts[j] \in Hash
      /\ \A i \in 1 .. Len(jobs) : jobs[i] \in [index : Nat, hash : Hash]
  BY JobsAre DEF JobsUpTo
<1>1. CASE IsCached(ts[j])
  <2>1. ts[j] \notin Forged
    <3>1. PICK i \in DOMAIN cache : cache[i] = ts[j]
      BY <1>1 DEF IsCached, Range
    <3> QED BY <3>1 DEF Valid
  <2>2. WithJob(jobs, ts, j) = jobs
    BY <1>1 DEF WithJob
  <2>3. \A p \in 1 .. j : p \in 1 .. j - 1 \/ p = j
    BY <1>0
  <2>4. \A p \in 1 .. j - 1 : p \in 1 .. j
    BY <1>0
  <2> QED BY <2>1, <2>2, <2>3, <2>4 DEF JobsUpTo
<1>2. CASE ~IsCached(ts[j])
  <2> DEFINE e == [index |-> j, hash |-> ts[j]]
             more == Append(jobs, e)
             l == Len(jobs)
  <2>1. WithJob(jobs, ts, j) = more
    BY <1>2 DEF WithJob
  <2>2. e \in [index : Nat, hash : Hash] /\ e.index = j /\ e.hash = ts[j]
    BY <1>0
  <2>3. /\ more \in Jobs /\ Len(more) = l + 1
        /\ \A i \in 1 .. l : more[i] = jobs[i]
        /\ more[l + 1] = e
    <3> HIDE DEF e
    <3> QED BY <1>0, <2>2, AppendProperties DEF Jobs
  <2>4. l \in Nat
    BY <1>0
  <2>5. \A i \in 1 .. l : jobs[i].index \in 1 .. j - 1 /\ jobs[i].hash = ts[jobs[i].index]
    BY DEF JobsUpTo
  <2>6. \A i, k \in 1 .. l : i < k => jobs[i].index < jobs[k].index
    BY DEF JobsUpTo
  <2>7. \A p \in 1 .. j - 1 : ts[p] \in Forged => \E i \in 1 .. l : jobs[i].index = p
    BY DEF JobsUpTo
  <2> HIDE DEF e, more, l
  <2>8. \A i \in 1 .. l + 1 : i \in 1 .. l \/ i = l + 1
    BY <2>4
  <2>9. \A i \in 1 .. l : i \in 1 .. l + 1 /\ ~(l + 1 < i)
    BY <2>4
  <2>10. l + 1 \in 1 .. l + 1 /\ ~(l + 1 < l + 1)
    BY <2>4
  <2>11. \A p \in 1 .. j - 1 : p \in 1 .. j /\ p < j
    BY <1>0
  <2>12. \A p \in 1 .. j : p \in 1 .. j - 1 \/ p = j
    BY <1>0
  <2>13. j \in 1 .. j
    BY <1>0
  <2>14. \A i \in 1 .. l + 1 : more[i].index \in 1 .. j /\ more[i].hash = ts[more[i].index]
    BY ONLY <2>2, <2>3, <2>5, <2>8, <2>11, <2>13
  <2>15. \A i, k \in 1 .. l + 1 : i < k => more[i].index < more[k].index
    BY ONLY <2>2, <2>3, <2>5, <2>6, <2>8, <2>9, <2>10, <2>11
  <2>16. \A p \in 1 .. j : ts[p] \in Forged => \E i \in 1 .. l + 1 : more[i].index = p
    BY ONLY <2>2, <2>3, <2>7, <2>9, <2>10, <2>12
  <2> QED BY <2>1, <2>3, <2>14, <2>15, <2>16 DEF JobsUpTo
<1> QED BY <1>1, <1>2

\* With a cache of valid hashes, nothing that is forged is left out.
LEMMA JobsOfAre ==
  ASSUME NEW ts \in Seq(Hash), cache \in Seq(Valid)
  PROVE  JobsFor(ts, JobsOf(ts))
<1> DEFINE n == Len(ts)
<1>1. n \in Nat
  OBVIOUS
<1>2. PICK w : /\ w[0] = <<>> /\ w[n] = JobsOf(ts)
               /\ \A j \in 1 .. n : w[j] = WithJob(w[j - 1], ts, j)
  BY JobsOfIs
<1> DEFINE Good == {j \in 0 .. n : JobsUpTo(ts, j, w[j])}
<1>3. ASSUME NEW j \in 1 .. n, j - 1 \in Good PROVE j \in Good
  <2>1. JobsUpTo(ts, j, WithJob(w[j - 1], ts, j))
    BY <1>3, OneMoreJob
  <2>2. j \in 0 .. n
    BY <1>1
  <2> QED BY <1>2, <2>1, <2>2
<1>4. 0 \in Good
  <2>1. JobsUpTo(ts, 0, <<>>)
    BY JobsAre DEF JobsUpTo
  <2> QED BY <1>1, <1>2, <2>1
<1> HIDE DEF n, Good
<1>5. \A j \in 0 .. n : j \in Good
  BY <1>1, <1>3, <1>4, CountsUpTo
<1>6. n \in 0 .. n
  BY <1>1
<1>7. JobsUpTo(ts, n, w[n])
  BY <1>5, <1>6 DEF Good
<1> QED BY <1>2, <1>7 DEF JobsFor, n

-----------------------------------------------------------------------------
\* The first forged job is about the first forged transaction.
FirstOf(ts) == SelectInSeq(ts, LAMBDA t : t \in Forged)
Invalid(jobs) == IF FirstForged(jobs) = 0 THEN 0 ELSE jobs[FirstForged(jobs)].index

LEMMA LeastIs ==
  ASSUME NEW S \in SUBSET Nat, S # {}
  PROVE  Min(S) \in S /\ \A k \in S : Min(S) <= k
BY LeastNatural DEF Min

LEMMA FirstOfIs ==
  ASSUME NEW ts \in Seq(Hash)
  PROVE  IF \E p \in 1 .. Len(ts) : ts[p] \in Forged
         THEN /\ FirstOf(ts) \in 1 .. Len(ts) /\ ts[FirstOf(ts)] \in Forged
              /\ \A p \in 1 .. Len(ts) : ts[p] \in Forged => FirstOf(ts) <= p
         ELSE FirstOf(ts) = 0
<1> DEFINE S == {p \in 1 .. Len(ts) : ts[p] \in Forged}
<1>1. FirstOf(ts) = IF S # {} THEN Min(S) ELSE 0
  BY DEF FirstOf, SelectInSeq
<1>2. S \in SUBSET Nat
  OBVIOUS
<1>3. S # {} => Min(S) \in S /\ \A k \in S : Min(S) <= k
  <2> HIDE DEF S
  <2> QED BY <1>2, LeastIs
<1> QED BY <1>1, <1>3

LEMMA FirstForgedIs ==
  ASSUME NEW jobs \in Jobs
  PROVE  IF \E i \in 1 .. Len(jobs) : jobs[i].hash \in Forged
         THEN /\ FirstForged(jobs) \in 1 .. Len(jobs)
              /\ jobs[FirstForged(jobs)].hash \in Forged
              /\ \A i \in 1 .. Len(jobs) : jobs[i].hash \in Forged => FirstForged(jobs) <= i
         ELSE FirstForged(jobs) = 0
<1> DEFINE S == {i \in 1 .. Len(jobs) : jobs[i].hash \in Forged}
<1>1. FirstForged(jobs) = IF S # {} THEN Min(S) ELSE 0
  BY DEF FirstForged, SelectInSeq
<1>2. S \in SUBSET Nat
  OBVIOUS
<1>3. S # {} => Min(S) \in S /\ \A k \in S : Min(S) <= k
  <2> HIDE DEF S
  <2> QED BY <1>2, LeastIs
<1> QED BY <1>1, <1>3

LEMMA FirstIsFirst ==
  ASSUME NEW ts \in Seq(Hash), NEW jobs, JobsFor(ts, jobs)
  PROVE  Invalid(jobs) = FirstOf(ts)
<1> DEFINE n == Len(ts)
           l == Len(jobs)
           k == FirstForged(jobs)
           f == FirstOf(ts)
<1>1. /\ jobs \in Jobs
      /\ \A i \in 1 .. l : jobs[i].index \in 1 .. n /\ jobs[i].hash = ts[jobs[i].index]
      /\ \A i, m \in 1 .. l : i < m => jobs[i].index < jobs[m].index
      /\ \A p \in 1 .. n : ts[p] \in Forged => \E i \in 1 .. l : jobs[i].index = p
  BY DEF JobsFor, JobsUpTo
<1>2. l \in Nat /\ n \in Nat
  BY <1>1, JobsAre
<1>3. CASE \E p \in 1 .. n : ts[p] \in Forged
  <2>1. f \in 1 .. n /\ ts[f] \in Forged /\ \A p \in 1 .. n : ts[p] \in Forged => f <= p
    BY <1>3, FirstOfIs
  <2>2. PICK i \in 1 .. l : jobs[i].index = f
    BY <1>1, <2>1
  <2>3. jobs[i].hash \in Forged
    BY <1>1, <2>1, <2>2
  <2>4. /\ k \in 1 .. l /\ jobs[k].hash \in Forged
        /\ \A m \in 1 .. l : jobs[m].hash \in Forged => k <= m
    BY <1>1, <2>3, FirstForgedIs
  <2>5. jobs[k].index \in 1 .. n /\ f <= jobs[k].index
    BY <1>1, <2>1, <2>4
  <2> HIDE DEF k, f, n, l
  <2>6. ~(k < i)
    <3>1. k < i => jobs[k].index < jobs[i].index
      BY <1>1, <2>4
    <3> QED BY <1>2, <2>1, <2>2, <2>5, <3>1
  <2>7. k = i
    BY <1>2, <2>3, <2>4, <2>6
  <2> QED BY <1>2, <2>2, <2>4, <2>7 DEF Invalid, k, f
<1>4. CASE ~\E p \in 1 .. n : ts[p] \in Forged
  <2>1. f = 0
    BY <1>4, FirstOfIs
  <2>2. ~\E i \in 1 .. l : jobs[i].hash \in Forged
    BY <1>1, <1>4
  <2>3. k = 0
    BY <1>1, <2>2, FirstForgedIs
  <2> QED BY <2>1, <2>3 DEF Invalid
<1> QED BY <1>3, <1>4

-----------------------------------------------------------------------------
\* One after the other, the chunks are the jobs.
ChunkSize(jobs) == (Len(jobs) + Threads - 1) \div Threads
ChunkEnd(jobs, w) ==
  IF w * ChunkSize(jobs) < Len(jobs) THEN w * ChunkSize(jobs) ELSE Len(jobs)

LEMMA ChunksCover ==
  ASSUME NEW n \in Nat
  PROVE  /\ (n + Threads - 1) \div Threads \in Nat
         /\ Threads * ((n + Threads - 1) \div Threads) >= n
<1>1. Threads \in Nat /\ Threads > 0
  BY SignatureAssumption
<1> DEFINE m == n + Threads - 1
           q == m \div Threads
           r == m % Threads
<1>2. m \in Nat /\ m + 1 = n + Threads
  BY <1>1
<1> HIDE DEF m
<1>3. q \in Int /\ r \in 0 .. Threads - 1 /\ m = Threads * q + r
  BY <1>1, <1>2
<1> QED BY <1>1, <1>2, <1>3 DEF m

LEMMA ChunkIs ==
  ASSUME NEW jobs \in Jobs, NEW w \in Threads_
  PROVE  /\ ChunkEnd(jobs, w) \in 0 .. Len(jobs) /\ ChunkEnd(jobs, w - 1) \in 0 .. Len(jobs)
         /\ ChunkEnd(jobs, w - 1) <= ChunkEnd(jobs, w)
         /\ Chunk(jobs, w) = SubSeq(jobs, ChunkEnd(jobs, w - 1) + 1, ChunkEnd(jobs, w))
<1> DEFINE n == Len(jobs)
           size == ChunkSize(jobs)
           last == ChunkEnd(jobs, w)
           prev == ChunkEnd(jobs, w - 1)
           p == (w - 1) * size
           q == w * size
<1>1. n \in Nat /\ size \in Nat /\ w \in Nat /\ w - 1 \in Nat
  BY JobsAre, ChunksCover, SignatureAssumption DEF ChunkSize, Threads_
<1>2. last = (IF q < n THEN q ELSE n) /\ prev = (IF p < n THEN p ELSE n)
  BY DEF ChunkEnd
<1>3. Chunk(jobs, w) = SubSeq(jobs, p + 1, last)
  BY DEF Chunk, ChunkEnd, ChunkSize
<1> HIDE DEF n, size
<1>4. p \in Nat /\ q \in Nat /\ q = p + size
  <2>1. w * size = (w - 1) * size + size
    BY <1>1
  <2> QED BY <1>1, <2>1
<1> HIDE DEF p, q, last, prev
<1>5. last \in 0 .. n /\ prev \in 0 .. n /\ prev <= last
  BY <1>1, <1>2, <1>4
<1>6. SubSeq(jobs, p + 1, last) = SubSeq(jobs, prev + 1, last)
  <2>1. CASE p < n
    BY <1>2, <2>1
  <2>2. CASE ~(p < n)
    <3>1. last = n /\ prev = n /\ n < p + 1 /\ n < n + 1 /\ p + 1 \in Int /\ n + 1 \in Int
      BY <1>1, <1>2, <1>4, <2>2
    <3> QED BY <1>1, <3>1, SubSeqEmpty
  <2> QED BY <2>1, <2>2
<1> QED BY <1>3, <1>5, <1>6 DEF n, last, prev

LEMMA ChunksAreJobs ==
  ASSUME NEW jobs \in Jobs, NEW chunks, DOMAIN chunks = Threads_,
         \A w \in Threads_ : chunks[w].jobs = Chunk(jobs, w)
  PROVE  AllJobs(chunks) = jobs
<1> DEFINE n == Len(jobs)
           End(w) == ChunkEnd(jobs, w)
<1>1. n \in Nat /\ Threads \in Nat
  BY JobsAre, SignatureAssumption
<1>2. \A w \in 1 .. Threads : chunks[w].jobs \in Jobs
  <2> SUFFICES ASSUME NEW w \in 1 .. Threads PROVE chunks[w].jobs \in Jobs
    OBVIOUS
  <2>1. /\ End(w) \in 0 .. n /\ End(w - 1) \in 0 .. n
        /\ chunks[w].jobs = SubSeq(jobs, End(w - 1) + 1, End(w))
    BY ChunkIs DEF Threads_
  <2> HIDE DEF End, n
  <2>2. \A i \in End(w - 1) + 1 .. End(w) : i \in 1 .. n
    BY <1>1, <2>1
  <2>3. \A i \in End(w - 1) + 1 .. End(w) : jobs[i] \in [index : Nat, hash : Hash]
    BY <2>2, JobsAre DEF n
  <2>4. SubSeq(jobs, End(w - 1) + 1, End(w)) \in Seq([index : Nat, hash : Hash])
    <3>1. End(w - 1) + 1 \in Int /\ End(w) \in Int
      BY <1>1, <2>1
    <3> QED BY <2>3, <3>1, SubSeqProperties
  <2> QED BY <2>1, <2>4 DEF Jobs
<1>3. PICK a : /\ a[0] = <<>> /\ a[Threads] = AllJobs(chunks)
               /\ \A w \in 1 .. Threads : a[w] = a[w - 1] \o chunks[w].jobs
  BY <1>1, <1>2, AllJobsIs DEF Threads_
<1> DEFINE Good == {w \in 0 .. Threads : a[w] = SubSeq(jobs, 1, End(w))}
<1>4. 0 \in Good
  <2>1. End(0) = 0
    <3>1. ChunkSize(jobs) \in Nat
      BY <1>1, ChunksCover DEF ChunkSize
    <3>2. 0 * ChunkSize(jobs) = 0
      BY <3>1
    <3> QED BY <1>1, <3>2 DEF ChunkEnd
  <2>2. SubSeq(jobs, 1, 0) = <<>>
    BY SubSeqEmpty
  <2>3. a[0] = SubSeq(jobs, 1, End(0))
    BY <1>3, <2>1, <2>2
  <2>4. 0 \in 0 .. Threads
    BY <1>1
  <2> HIDE DEF End
  <2> QED BY <2>3, <2>4
<1>5. ASSUME NEW w \in 1 .. Threads, w - 1 \in Good PROVE w \in Good
  <2>1. /\ End(w) \in 0 .. n /\ End(w - 1) \in 0 .. n /\ End(w - 1) <= End(w)
        /\ chunks[w].jobs = SubSeq(jobs, End(w - 1) + 1, End(w))
    BY ChunkIs DEF Threads_
  <2> HIDE DEF End
  <2>2. a[w] = SubSeq(jobs, 1, End(w - 1)) \o SubSeq(jobs, End(w - 1) + 1, End(w))
    BY <1>3, <1>5, <2>1
  <2>3. SubSeq(jobs, 1, End(w - 1)) \o SubSeq(jobs, End(w - 1) + 1, End(w))
          = SubSeq(jobs, 1, End(w))
    <3>1. 1 \in 1 .. Len(jobs) + 1 /\ End(w - 1) \in 1 - 1 .. Len(jobs)
          /\ End(w) \in End(w - 1) .. Len(jobs)
      BY <1>1, <2>1
    <3>2. jobs \in Seq([index : Nat, hash : Hash])
      BY DEF Jobs
    <3> QED BY <3>1, <3>2, ConcatAdjacentSubSeq
  <2>4. w \in 0 .. Threads
    BY <1>1
  <2> QED BY <2>2, <2>3, <2>4
<1>6. End(Threads) = n
  <2>1. Threads * ChunkSize(jobs) >= n /\ ChunkSize(jobs) \in Nat
    BY <1>1, ChunksCover DEF ChunkSize
  <2>2. Threads * ChunkSize(jobs) \in Nat
    BY <1>1, <2>1
  <2> QED BY <1>1, <2>1, <2>2 DEF ChunkEnd
<1> HIDE DEF Good
<1>7. \A w \in 0 .. Threads : w \in Good
  BY <1>1, <1>4, <1>5, CountsUpTo
<1>8. a[Threads] = SubSeq(jobs, 1, n)
  <2>1. Threads \in Good
    BY <1>1, <1>7
  <2> HIDE DEF End
  <2> QED BY <1>6, <2>1 DEF Good
<1>9. SubSeq(jobs, 1, n) = jobs
  BY SubSeqFull DEF Jobs
<1> QED BY <1>3, <1>8, <1>9

-----------------------------------------------------------------------------
(* The invariant: the cache holds valid hashes; a request that waits has jobs    *)
(* for its transactions, one that is decided the right answer; the line is of   *)
(* callers that wait, each once; and the workers have the chunks of the first.  *)
RequestIsGood(r) ==
  /\ r.at = "waits" => r.txs \in Seq(Hash) /\ JobsFor(r.txs, r.jobs)
  /\ r.at = "decided" => r.invalid = FirstOf(r.txs)

LineIsGood(callers, requests) ==
  /\ callers \in Seq(Caller)
  /\ \A i \in 1 .. Len(callers) : requests[callers[i]].at = "waits"
  /\ \A i, k \in 1 .. Len(callers) : callers[i] = callers[k] => i = k

ThreadsAreGood(chunks, callers, requests) ==
  /\ DOMAIN chunks = Threads_
  /\ \/ \A w \in Threads_ : chunks[w] = NoChunk
     \/ /\ callers # <<>>
        /\ \A w \in Threads_ :
             chunks[w] \in [at : {"works", "answered"},
                            jobs : {Chunk(requests[Head(callers)].jobs, w)}]

SignatureInv ==
  /\ cache \in Seq(Valid)
  /\ DOMAIN request = Caller /\ \A c \in Caller : RequestIsGood(request[c])
  /\ LineIsGood(line, request)
  /\ ThreadsAreGood(thread, line, request)

With(requests, c, r) == [requests EXCEPT ![c] = r]

\* Nobody in the line but the caller itself sees its request change.
LEMMA LineStays ==
  ASSUME NEW callers, NEW requests, DOMAIN requests = Caller, LineIsGood(callers, requests),
         NEW c \in Caller, NEW r, requests[c].at # "waits"
  PROVE  /\ LineIsGood(callers, With(requests, c, r))
         /\ \A i \in 1 .. Len(callers) : With(requests, c, r)[callers[i]] = requests[callers[i]]
<1> DEFINE after == With(requests, c, r)
<1>1. \A d \in Caller : d # c => after[d] = requests[d]
  BY DEF With
<1>2. \A i \in 1 .. Len(callers) : callers[i] \in Caller /\ callers[i] # c
  BY DEF LineIsGood
<1> HIDE DEF after
<1>3. \A i \in 1 .. Len(callers) : after[callers[i]] = requests[callers[i]]
  BY <1>1, <1>2
<1>4. LineIsGood(callers, after)
  BY <1>3 DEF LineIsGood
<1> QED BY <1>3, <1>4 DEF after

\* The first one's request is answered, and the next one is the first.
LEMMA LineGoesOn ==
  ASSUME NEW callers, NEW requests, DOMAIN requests = Caller, LineIsGood(callers, requests),
         callers # <<>>, NEW r
  PROVE  /\ Head(callers) \in Caller /\ requests[Head(callers)].at = "waits"
         /\ LineIsGood(Tail(callers), With(requests, Head(callers), r))
<1> DEFINE after == With(requests, Head(callers), r)
           l == Len(callers)
           rest == Tail(callers)
<1>1. callers \in Seq(Caller) /\ l \in Nat /\ l >= 1 /\ Head(callers) = callers[1]
  BY DEF LineIsGood
<1>2. /\ Head(callers) \in Caller /\ rest \in Seq(Caller) /\ Len(rest) = l - 1
      /\ \A i \in 1 .. l - 1 : rest[i] = callers[i + 1]
  BY <1>1, HeadTailProperties
<1>3. \A i \in 1 .. l : callers[i] \in Caller
  BY <1>1
<1>4. /\ \A i \in 1 .. l : requests[callers[i]].at = "waits"
      /\ \A i, k \in 1 .. l : callers[i] = callers[k] => i = k
  BY DEF LineIsGood
<1>5. \A d \in Caller : d # callers[1] => after[d] = requests[d]
  BY <1>1, <1>2 DEF With
<1> HIDE DEF after, l, rest
<1>6. \A i \in 1 .. l - 1 : i + 1 \in 1 .. l /\ i + 1 # 1
  BY <1>1
<1>7. 1 \in 1 .. l
  BY <1>1
<1>8. \A i \in 1 .. l - 1 : after[rest[i]].at = "waits"
  BY <1>2, <1>3, <1>4, <1>5, <1>6, <1>7
<1>9. ASSUME NEW i \in 1 .. l - 1, NEW k \in 1 .. l - 1, rest[i] = rest[k] PROVE i = k
  <2>1. i + 1 = k + 1
    BY <1>2, <1>4, <1>6, <1>9
  <2> QED BY <1>1, <2>1
<1>10. LineIsGood(rest, after)
  BY <1>2, <1>8, <1>9 DEF LineIsGood
<1> QED BY <1>1, <1>2, <1>4, <1>7, <1>10 DEF after, rest

LEMMA SignatureStarts == SignatureInit => SignatureInv
<1> SUFFICES ASSUME SignatureInit PROVE SignatureInv
  OBVIOUS
<1>1. cache \in Seq(Valid) /\ DOMAIN request = Caller
  BY DEF SignatureInit
<1>2. \A c \in Caller : RequestIsGood(request[c])
  BY DEF SignatureInit, RequestIsGood, NoRequest
<1>3. LineIsGood(line, request)
  BY DEF SignatureInit, LineIsGood
<1>4. ThreadsAreGood(thread, line, request)
  BY DEF SignatureInit, ThreadsAreGood
<1> QED BY <1>1, <1>2, <1>3, <1>4 DEF SignatureInv

LEMMA SignatureKeeps == SignatureInv /\ [SignatureNext]_signatureVars => SignatureInv'
<1> SUFFICES ASSUME SignatureInv, [SignatureNext]_signatureVars PROVE SignatureInv'
  OBVIOUS
<1>0. /\ cache \in Seq(Valid)
      /\ DOMAIN request = Caller /\ \A c \in Caller : RequestIsGood(request[c])
      /\ LineIsGood(line, request) /\ ThreadsAreGood(thread, line, request)
  BY DEF SignatureInv
<1>1. ASSUME NEW c \in Caller, NEW ts \in Batches, VerifyInPlace(c, ts) PROVE SignatureInv'
  <2> DEFINE jobs == JobsOf(ts)
             k == FirstForged(jobs)
             valid == IF k = 0 THEN jobs ELSE SubSeq(jobs, 1, k - 1)
             r == Decided(ts, Invalid(jobs))
  <2>1. /\ request[c].at # "waits" /\ cache' = RememberValid(valid)
        /\ request' = [request EXCEPT ![c] = r] /\ line' = line /\ thread' = thread
    BY <1>1 DEF VerifyInPlace, Invalid
  <2>2. ts \in Seq(Hash)
    BY SignatureAssumption
  <2>3. JobsFor(ts, jobs) /\ jobs \in Jobs
    BY <1>0, <2>2, JobsOfAre DEF JobsFor, JobsUpTo
  <2> HIDE DEF jobs
  <2>4. valid \in Jobs
    <3>1. CASE k = 0
      BY <2>3, <3>1
    <3>2. CASE k # 0
      <4>1. k \in 1 .. Len(jobs) /\ Len(jobs) \in Nat
        BY <2>3, <3>2, FirstForgedIs, JobsAre
      <4> HIDE DEF k
      <4>2. \A i \in 1 .. k - 1 : i \in 1 .. Len(jobs)
        BY <4>1
      <4>3. \A i \in 1 .. k - 1 : jobs[i] \in [index : Nat, hash : Hash]
        BY <2>3, <4>2, JobsAre
      <4>4. SubSeq(jobs, 1, k - 1) \in Seq([index : Nat, hash : Hash])
        <5>1. k - 1 \in Int
          BY <4>1
        <5> QED BY <4>3, <5>1, SubSeqProperties
      <4> QED BY <3>2, <4>4 DEF Jobs
    <3> QED BY <3>1, <3>2
  <2>5. cache' \in Seq(Valid)
    BY <1>0, <2>1, <2>4, RememberValidKeeps
  <2>6. RequestIsGood(r)
    <3>1. Invalid(jobs) = FirstOf(ts)
      BY <2>2, <2>3, FirstIsFirst
    <3> QED BY <3>1 DEF RequestIsGood, Decided
  <2> HIDE DEF r
  <2>7. DOMAIN request' = Caller /\ \A d \in Caller : RequestIsGood(request'[d])
    BY <1>0, <2>1, <2>6
  <2>8. /\ LineIsGood(line', request')
        /\ \A i \in 1 .. Len(line) : request'[line[i]] = request[line[i]]
    <3>1. request' = With(request, c, r)
      BY <2>1 DEF With
    <3>2. request[c].at # "waits" /\ line' = line
      BY <2>1
    <3>3. /\ LineIsGood(line, With(request, c, r))
          /\ \A i \in 1 .. Len(line) : With(request, c, r)[line[i]] = request[line[i]]
      BY <1>0, <3>2, LineStays
    <3> QED BY <3>1, <3>2, <3>3
  <2>9. ThreadsAreGood(thread', line', request')
    <3>1. line # <<>> => request'[Head(line)] = request[Head(line)]
      <4>1. line # <<>> => 1 \in 1 .. Len(line) /\ Head(line) = line[1]
        BY <1>0 DEF LineIsGood
      <4> QED BY <2>8, <4>1
    <3> QED BY <1>0, <2>1, <3>1 DEF ThreadsAreGood
  <2> QED BY <2>5, <2>7, <2>8, <2>9 DEF SignatureInv
<1>2. ASSUME NEW c \in Caller, NEW ts \in Batches, VerifyInPool(c, ts) PROVE SignatureInv'
  <2> DEFINE r == [at |-> "waits", txs |-> ts, jobs |-> JobsOf(ts)]
             l == Len(line)
  <2>1. /\ request[c].at # "waits" /\ cache' = cache /\ thread' = thread
        /\ request' = [request EXCEPT ![c] = r] /\ line' = Append(line, c)
    BY <1>2 DEF VerifyInPool
  <2>2. RequestIsGood(r) /\ r.at = "waits"
    <3>1. ts \in Seq(Hash)
      BY SignatureAssumption
    <3>2. JobsFor(ts, JobsOf(ts))
      BY <1>0, <3>1, JobsOfAre
    <3> QED BY <3>1, <3>2 DEF RequestIsGood
  <2> HIDE DEF r
  <2>3. /\ DOMAIN request' = Caller /\ \A d \in Caller : RequestIsGood(request'[d])
        /\ request'[c].at = "waits"
    BY <1>0, <2>1, <2>2
  <2>4. /\ LineIsGood(line, request')
        /\ \A i \in 1 .. l : request'[line[i]] = request[line[i]]
    <3>1. request' = With(request, c, r)
      BY <2>1 DEF With
    <3>2. request[c].at # "waits"
      BY <2>1
    <3>3. /\ LineIsGood(line, With(request, c, r))
          /\ \A i \in 1 .. Len(line) : With(request, c, r)[line[i]] = request[line[i]]
      BY <1>0, <3>2, LineStays
    <3> QED BY <3>1, <3>2, <3>3
  <2>5. /\ line \in Seq(Caller) /\ l \in Nat
        /\ \A i \in 1 .. l : request[line[i]].at = "waits"
        /\ \A i, k \in 1 .. l : line[i] = line[k] => i = k
    BY <1>0 DEF LineIsGood
  <2>6. /\ line' \in Seq(Caller) /\ Len(line') = l + 1 /\ line'[l + 1] = c
        /\ \A i \in 1 .. l : line'[i] = line[i]
    BY <2>1, <2>5, AppendProperties
  <2>7. \A i \in 1 .. l + 1 : i \in 1 .. l \/ i = l + 1
    BY <2>5
  <2>8. \A i \in 1 .. l : line[i] # c
    BY <2>1, <2>5
  <2> HIDE DEF l
  <2>9. \A i \in 1 .. l + 1 : request'[line'[i]].at = "waits"
    BY <2>3, <2>4, <2>5, <2>6, <2>7
  <2>10. \A i, k \in 1 .. l + 1 : line'[i] = line'[k] => i = k
    BY <2>5, <2>6, <2>7, <2>8
  <2>11. LineIsGood(line', request')
    BY <2>6, <2>9, <2>10 DEF LineIsGood
  <2>12. ThreadsAreGood(thread', line', request')
    <3>1. line # <<>> => /\ line' # <<>> /\ Head(line') = Head(line)
                         /\ request'[Head(line)] = request[Head(line)]
      <4>1. line # <<>> => 1 \in 1 .. l /\ Head(line) = line[1]
        BY <2>5 DEF l
      <4>2. line' # <<>> /\ Head(line') = line'[1]
        BY <2>5, <2>6
      <4> QED BY <2>4, <2>6, <4>1, <4>2
    <3> QED BY <1>0, <2>1, <3>1 DEF ThreadsAreGood
  <2> QED BY <1>0, <2>1, <2>3, <2>11, <2>12 DEF SignatureInv
<1>3. CASE StartChunks
  <2>1. /\ line # <<>> /\ cache' = cache /\ request' = request /\ line' = line
        /\ thread' = [w \in Threads_ |->
                        [at |-> IF Chunk(request[Head(line)].jobs, w) = <<>> THEN "answered"
                                ELSE "works",
                         jobs |-> Chunk(request[Head(line)].jobs, w)]]
    BY <1>3 DEF StartChunks
  <2>2. DOMAIN thread' = Threads_
    BY <2>1
  <2>3. \A w \in Threads_ : thread'[w] \in [at : {"works", "answered"},
                                           jobs : {Chunk(request[Head(line)].jobs, w)}]
    BY <2>1
  <2>4. ThreadsAreGood(thread', line', request')
    BY <2>1, <2>2, <2>3 DEF ThreadsAreGood
  <2> QED BY <1>0, <2>1, <2>4 DEF SignatureInv
<1>4. ASSUME NEW w \in Threads_, WorkerAnswers(w) PROVE SignatureInv'
  <2>1. /\ thread[w].at = "works" /\ thread' = [thread EXCEPT ![w].at = "answered"]
        /\ cache' = cache /\ request' = request /\ line' = line
    BY <1>4 DEF WorkerAnswers
  <2>2. DOMAIN thread = Threads_ /\ thread[w] # NoChunk
    BY <1>0, <2>1 DEF ThreadsAreGood, NoChunk
  <2>3. /\ line # <<>>
        /\ \A v \in Threads_ : thread[v] \in [at : {"works", "answered"},
                                             jobs : {Chunk(request[Head(line)].jobs, v)}]
    BY <1>0, <2>2 DEF ThreadsAreGood
  <2>4. thread'[w] \in [at : {"works", "answered"},
                        jobs : {Chunk(request[Head(line)].jobs, w)}]
    BY <2>1, <2>2, <2>3
  <2>5. \A v \in Threads_ : v # w => thread'[v] = thread[v]
    BY <2>1, <2>2
  <2>6. DOMAIN thread' = Threads_
    BY <2>1, <2>2
  <2>7. ThreadsAreGood(thread', line', request')
    BY <2>1, <2>3, <2>4, <2>5, <2>6 DEF ThreadsAreGood
  <2> QED BY <1>0, <2>1, <2>7 DEF SignatureInv
<1>5. CASE PoolDecides
  <2> DEFINE c == Head(line)
             ts == request[c].txs
             jobs == request[c].jobs
             r == Decided(ts, Invalid(jobs))
  <2>1. line # <<>> /\ \A w \in Threads_ : thread[w].at = "answered"
    BY <1>5 DEF PoolDecides
  <2>2. c \in Caller /\ request[c].at = "waits"
    BY <1>0, <2>1, LineGoesOn
  <2>3. ts \in Seq(Hash) /\ JobsFor(ts, jobs) /\ jobs \in Jobs
    BY <1>0, <2>2 DEF RequestIsGood, JobsFor, JobsUpTo
  <2>4. AllJobs(thread) = jobs
    <3>1. 1 \in Threads_
      BY SignatureAssumption DEF Threads_
    <3>2. thread[1] # NoChunk
      BY <2>1, <3>1 DEF NoChunk
    <3>3. /\ DOMAIN thread = Threads_
          /\ \A w \in Threads_ : thread[w] \in [at : {"works", "answered"},
                                               jobs : {Chunk(jobs, w)}]
      BY <1>0, <3>1, <3>2 DEF ThreadsAreGood
    <3> HIDE DEF jobs
    <3>4. \A w \in Threads_ : thread[w].jobs = Chunk(jobs, w)
      BY <3>3
    <3> QED BY <2>3, <3>3, <3>4, ChunksAreJobs
  <2>5. /\ cache' = RememberValid(AllJobs(thread))
        /\ request' = [request EXCEPT ![c] = Decided(ts, Invalid(AllJobs(thread)))]
        /\ line' = Tail(line) /\ thread' = [w \in Threads_ |-> NoChunk]
    BY <1>5 DEF PoolDecides, AllJobs, Invalid
  <2>6. cache' \in Seq(Valid)
    BY <1>0, <2>3, <2>4, <2>5, RememberValidKeeps
  <2>7. RequestIsGood(r)
    <3>1. Invalid(jobs) = FirstOf(ts)
      BY <2>3, FirstIsFirst
    <3> QED BY <3>1 DEF RequestIsGood, Decided
  <2>8. request' = [request EXCEPT ![c] = r]
    BY <2>4, <2>5
  <2> HIDE DEF r
  <2>9. DOMAIN request' = Caller /\ \A d \in Caller : RequestIsGood(request'[d])
    BY <1>0, <2>2, <2>7, <2>8
  <2>10. LineIsGood(line', request')
    <3>1. request' = With(request, Head(line), r)
      BY <2>8 DEF With
    <3>2. LineIsGood(Tail(line), With(request, Head(line), r))
      BY <1>0, <2>1, LineGoesOn
    <3> QED BY <2>5, <3>1, <3>2
  <2>11. ThreadsAreGood(thread', line', request')
    BY <2>5 DEF ThreadsAreGood
  <2> QED BY <2>6, <2>9, <2>10, <2>11 DEF SignatureInv
<1>6. ASSUME NEW w \in Threads_, WorkerDies(w) PROVE SignatureInv'
  <2>1. CASE thread[w].at = "works"
    <3>1. /\ request' = [request EXCEPT ![Head(line)] = NoRequest]
          /\ line' = Tail(line) /\ thread' = [v \in Threads_ |-> NoChunk] /\ cache' = cache
      BY <1>6, <2>1 DEF WorkerDies
    <3>2. line # <<>>
      <4>1. thread[w] # NoChunk
        BY <2>1 DEF NoChunk
      <4> QED BY <1>0, <4>1 DEF ThreadsAreGood
    <3>3. LineIsGood(line', request')
      <4>1. request' = With(request, Head(line), NoRequest)
        BY <3>1 DEF With
      <4>2. LineIsGood(Tail(line), With(request, Head(line), NoRequest))
        BY <1>0, <3>2, LineGoesOn
      <4> QED BY <3>1, <4>1, <4>2
    <3>4. RequestIsGood(NoRequest)
      BY DEF RequestIsGood, NoRequest
    <3>5. DOMAIN request' = Caller /\ \A d \in Caller : RequestIsGood(request'[d])
      BY <1>0, <3>1, <3>4
    <3>6. ThreadsAreGood(thread', line', request')
      BY <3>1 DEF ThreadsAreGood
    <3> QED BY <1>0, <3>1, <3>3, <3>5, <3>6 DEF SignatureInv
  <2>2. CASE thread[w].at # "works"
    BY <1>0, <1>6, <2>2 DEF WorkerDies, SignatureInv
  <2> QED BY <2>1, <2>2
<1>7. CASE UNCHANGED signatureVars
  BY <1>0, <1>7 DEF signatureVars, SignatureInv
<1> QED
  BY <1>1, <1>2, <1>3, <1>4, <1>5, <1>6, <1>7 DEF SignatureNext, SignatureStep

\* For any transactions, callers, worker threads and size of the cache: the
\* cache holds valid hashes only, what waits has a job for every forged
\* transaction, in the order of the block, and the workers share the jobs of
\* the first in the line among them.
THEOREM SignatureInvariant == SignatureSpec => []SignatureInv
<1> QED BY SignatureStarts, SignatureKeeps, PTL DEF SignatureSpec

\* For any transactions, callers, worker threads and size of the cache, and
\* whichever worker answers first or dies: what verifyTransactionSignatures
\* answers is the first transaction of the block with a wrong signature.
THEOREM ForgedIsFound == SignatureSpec => []FirstForgedIsFound
<1>1. SignatureInv => FirstForgedIsFound
  <2> SUFFICES ASSUME SignatureInv PROVE FirstForgedIsFound
    OBVIOUS
  <2>1. \A t \in Forged : ~IsCached(t)
    <3> SUFFICES ASSUME NEW t \in Forged, IsCached(t) PROVE FALSE
      OBVIOUS
    <3>1. PICK i \in DOMAIN cache : cache[i] = t
      BY DEF IsCached, Range
    <3> QED BY <3>1 DEF SignatureInv, Valid
  <2>2. \A c \in Caller : request[c].at = "decided" =>
          request[c].invalid = SelectInSeq(request[c].txs, LAMBDA t : t \in Forged)
    BY DEF SignatureInv, RequestIsGood, FirstOf
  <2> QED BY <2>1, <2>2 DEF FirstForgedIsFound
<1> QED BY <1>1, SignatureInvariant, PTL

-----------------------------------------------------------------------------
(* Settlement: PaidForDelivery for any validators, runs of their daemons,  *)
(* orders and faults.  What makes it inductive: whatever a run carries     *)
(* from one await to the next, and whatever a relayer has sent, names a    *)
(* delivery that was made for what its order says (Vouched), which no      *)
(* later step can undo: a delivery and the terms of an order never change. *)
(* The rest is the market's own test.                                      *)

Orders == {NoOrder} \cup [phase : {"open", "cancelled", "settled"}, terms : Terms]
Deliveries == {NoDelivery} \cup [height : Nat \ {0}, seller : Seller, terms : Delivered]
Call == {NoCallToMake} \cup [order : Order, seller : Seller]
Body == [height : Nat, call : Call]
Anchor == [next : BOOLEAN, body : Body]

Resting    == [at : {"idle", "epoch"}]
ReadingOrders == [at : {"orders"}, next : BOOLEAN, seen : SUBSET Order]
Signing == [at : {"signing"}, next : BOOLEAN, signers : SUBSET Validator,
            asked : SUBSET Validator, body : Body]
Sent    == [at : {"wait"}, tx : Anchor, receipt : {"none", "success", "failed"}]

SettlementTypeOK ==
  /\ orders \in [Order -> Orders]
  /\ payouts \in [Order -> Seq(Seller \cup {"buyer"})]
  /\ deliveries \in [Order -> Deliveries]
  /\ head \in Nat /\ height \in [Validator -> Nat] /\ written \in [Validator -> Nat]
  /\ \A r \in runs : r[1] \in Validator
  /\ run \in [runs -> Resting \cup ReadingOrders \cup Signing \cup Sent]
  /\ sent \in [Validator -> SUBSET Anchor]

\* Orders are given their ids in turn, so a new one is new.
OrdersInTurn ==
  \E n \in 0 .. Cardinality(Order) : \A o \in Order : orders[o].phase # "none" <=> o < n

\* A copy of the app chain is a part of it.
CopiesLag == \A v \in Validator : written[v] <= head

Made(o) == deliveries[o].height \in 1 .. head
DeliveriesInPast == \A o \in Order : deliveries[o] # NoDelivery => Made(o)

\* A call that would pay for what was ordered and delivered.
Vouched(due) ==
  due # NoCallToMake =>
    /\ Made(due.order) /\ due.seller = deliveries[due.order].seller
    /\ orders[due.order].phase # "none"
    /\ orders[due.order].terms = deliveries[due.order].terms

RunVouched(x) ==
  /\ x.at = "orders"  => \A o \in x.seen : Made(o)
  /\ x.at = "signing" => Vouched(x.body.call)
  /\ x.at = "wait"    => Vouched(x.tx.body.call)

AllVouched ==
  /\ \A r \in runs : RunVouched(run[r])
  /\ \A v \in Validator : \A tx \in sent[v] : Vouched(tx.body.call)

\* What was paid, by the phase of the order.
PaidByPhase ==
  \A o \in Order :
    /\ orders[o].phase \in {"none", "open"} => payouts[o] = <<>>
    /\ orders[o].phase = "cancelled" => payouts[o] = <<"buyer">>
    /\ orders[o].phase = "settled" =>
         /\ payouts[o] = <<deliveries[o].seller>> /\ Made(o)
         /\ orders[o].terms = deliveries[o].terms

SettlementInv == SettlementTypeOK /\ OrdersInTurn /\ CopiesLag /\ DeliveriesInPast /\ AllVouched /\ PaidByPhase

-----------------------------------------------------------------------------
LEMMA MinIsMember ==
  ASSUME NEW S \in SUBSET Nat, S # {}
  PROVE  Min(S) \in S
<1> DEFINE less == OpToRel(<, Nat)
<1>1. IsWellFoundedOn(less, Nat)
  BY NatLessThanWellFounded
<1>2. PICK m \in S : \A k \in S : ~(<<k, m>> \in less)
  <2> HIDE DEF less
  <2> QED BY <1>1, WFMin
<1>3. \A k \in S : m <= k
  <2> SUFFICES ASSUME NEW k \in S PROVE m <= k
    OBVIOUS
  <2>1. ~(k < m)
    BY <1>2 DEF OpToRel
  <2> QED BY <2>1
<1> QED
  BY <1>3 DEF Min

LEMMA OrderIsNat == Order \in SUBSET Nat /\ IsFiniteSet(Order) /\ Cardinality(Order) \in Nat
BY OrderAssumption, FS_CardinalityType

\* What an outcome selects from deliveries that were made is vouched for.
LEMMA SelectionIsVouched ==
  ASSUME SettlementTypeOK, NEW seen \in SUBSET Order, \A o \in seen : Made(o)
  PROVE  SelectSettlement(seen) \in Call /\ Vouched(SelectSettlement(seen))
<1> DEFINE due == {o \in seen : IsOpen(o) /\ orders[o].terms = deliveries[o].terms}
<1>1. CASE due = {}
  BY <1>1 DEF SelectSettlement, Call, Vouched
<1>2. CASE due # {}
  <2>1. Min(due) \in due
    BY <1>2, MinIsMember, OrderIsNat
  <2> DEFINE o == Min(due)
  <2>2. o \in Order /\ Made(o) /\ orders[o].phase = "open" /\ orders[o].terms = deliveries[o].terms
    BY <2>1 DEF IsOpen
  <2>3. SelectSettlement(seen) = [order |-> o, seller |-> deliveries[o].seller]
    BY <1>2 DEF SelectSettlement
  <2> HIDE DEF o
  <2>4. deliveries[o] \in [height : Nat \ {0}, seller : Seller, terms : Delivered]
    BY <2>2 DEF SettlementTypeOK, Deliveries, Made, NoDelivery
  <2> QED
    BY <2>2, <2>3, <2>4 DEF Call, Vouched
<1> QED BY <1>1, <1>2

-----------------------------------------------------------------------------
\* No step undoes a delivery or changes the terms of an order: then what was
\* vouched for stays so.
Lasting ==
  \A o \in Order :
    /\ Made(o) => Made(o)' /\ deliveries'[o] = deliveries[o]
    /\ orders[o].phase # "none" =>
         orders'[o].phase # "none" /\ orders'[o].terms = orders[o].terms

LEMMA VouchedStays ==
  ASSUME Lasting, NEW due \in Call, Vouched(due)
  PROVE  Vouched(due)'
<1>1. CASE due = NoCallToMake
  BY <1>1 DEF Vouched
<1>2. CASE due # NoCallToMake
  <2>1. due.order \in Order
    BY <1>2 DEF Call
  <2> QED
    BY <1>2, <2>1 DEF Vouched, Lasting
<1> QED BY <1>1, <1>2

LEMMA RunVouchedStays ==
  ASSUME Lasting, NEW x \in Resting \cup ReadingOrders \cup Signing \cup Sent, RunVouched(x)
  PROVE  RunVouched(x)'
<1>1. CASE x \in Resting
  BY <1>1 DEF RunVouched, Resting
<1>2. CASE x \in ReadingOrders
  BY <1>2 DEF RunVouched, ReadingOrders, Lasting
<1>3. CASE x \in Signing
  <2>1. x.body.call \in Call /\ x.at = "signing"
    BY <1>3 DEF Signing, Body
  <2>2. Vouched(x.body.call)'
    BY <2>1, VouchedStays DEF RunVouched
  <2> QED BY <2>1, <2>2 DEF RunVouched
<1>4. CASE x \in Sent
  <2>1. x.tx.body.call \in Call /\ x.at = "wait"
    BY <1>4 DEF Sent, Anchor, Body
  <2>2. Vouched(x.tx.body.call)'
    BY <2>1, VouchedStays DEF RunVouched
  <2> QED BY <2>1, <2>2 DEF RunVouched
<1> QED BY <1>1, <1>2, <1>3, <1>4

\* A step of the market or of the app chain leaves the daemons alone.
LEMMA AllVouchedStays ==
  ASSUME SettlementTypeOK, AllVouched, Lasting, UNCHANGED <<runs, run, sent>>
  PROVE  AllVouched'
<1>1. ASSUME NEW r \in runs PROVE RunVouched(run[r])'
  <2>1. run[r] \in Resting \cup ReadingOrders \cup Signing \cup Sent
    BY DEF SettlementTypeOK
  <2>2. RunVouched(run[r])
    BY DEF AllVouched
  <2>3. RunVouched(run[r])'
    BY <2>1, <2>2, RunVouchedStays
  <2> QED BY <2>3
<1>2. ASSUME NEW v \in Validator, NEW tx \in sent[v] PROVE Vouched(tx.body.call)'
  <2>1. tx.body.call \in Call
    BY DEF SettlementTypeOK, Anchor, Body
  <2> QED BY <2>1, VouchedStays DEF AllVouched
<1> QED
  BY <1>1, <1>2 DEF AllVouched

-----------------------------------------------------------------------------
LEMMA SettlementStarts == SettlementInit => SettlementInv
<1> SUFFICES ASSUME SettlementInit PROVE SettlementInv
  OBVIOUS
<1> USE DEF SettlementInit
<1>1. SettlementTypeOK
  <2>1. \A r \in runs : r[1] \in Validator
    BY RunsAssumption
  <2>2. \A o \in Order : payouts[o] = <<>>
    OBVIOUS
  <2>3. payouts \in [Order -> Seq(Seller \cup {"buyer"})]
    BY <2>2
  <2>4. run \in [runs -> Resting \cup ReadingOrders \cup Signing \cup Sent]
    BY DEF Resting, Waiting
  <2> QED
    BY <2>1, <2>3, <2>4 DEF SettlementTypeOK, Orders, Deliveries
<1>2. OrdersInTurn
  <2>1. \A o \in Order : orders[o].phase = "none" /\ o >= 0
    BY OrderAssumption, OrderIsNat DEF NoOrder
  <2>2. 0 \in 0 .. Cardinality(Order)
    BY OrderIsNat
  <2> QED
    BY <2>1, <2>2, OrderIsNat DEF OrdersInTurn
<1>3. CopiesLag
  BY DEF CopiesLag
<1>4. DeliveriesInPast
  BY DEF DeliveriesInPast
<1>5. AllVouched
  BY DEF AllVouched, RunVouched, Waiting
<1>6. PaidByPhase
  BY DEF PaidByPhase, NoOrder
<1> QED
  BY <1>1, <1>2, <1>3, <1>4, <1>5, <1>6 DEF SettlementInv

-----------------------------------------------------------------------------
\* The market.

LEMMA PlaceOrderSafe ==
  ASSUME SettlementInv, NEW terms \in Terms, PlaceOrder(terms)
  PROVE  SettlementInv'
<1> DEFINE placed == {p \in Order : orders[p] # NoOrder}
           new == Cardinality(placed)
<1>1. PICK n \in 0 .. Cardinality(Order) : \A o \in Order : orders[o].phase # "none" <=> o < n
  BY DEF SettlementInv, OrdersInTurn
<1>2. \A o \in Order : orders[o] # NoOrder <=> orders[o].phase # "none"
  <2> SUFFICES ASSUME NEW o \in Order PROVE orders[o] # NoOrder <=> orders[o].phase # "none"
    OBVIOUS
  <2>1. NoOrder.phase = "none"
    BY DEF NoOrder
  <2>2. orders[o] = NoOrder \/ orders[o].phase \in {"open", "cancelled", "settled"}
    BY DEF SettlementInv, SettlementTypeOK, Orders
  <2> QED BY <2>1, <2>2
<1>3. placed = 0 .. n - 1
  BY <1>1, <1>2, OrderAssumption, OrderIsNat
<1>4. new = n
  <2>1. n \in Nat
    BY OrderIsNat
  <2>2. Cardinality(0 .. n - 1) = IF 0 > n - 1 THEN 0 ELSE n - 1 - 0 + 1
    BY <2>1, FS_Interval
  <2> HIDE DEF placed
  <2> QED BY <1>3, <2>1, <2>2
<1>5. /\ n \in Order /\ orders[n] = NoOrder
      /\ orders' = [orders EXCEPT ![n] = [phase |-> "open", terms |-> terms]]
  <2>1. new \in Order /\ orders' = [orders EXCEPT ![new] = [phase |-> "open", terms |-> terms]]
    BY DEF PlaceOrder
  <2>2. n \in Order
    BY <1>4, <2>1
  <2>3. ~(n < n)
    BY OrderIsNat
  <2> HIDE DEF new
  <2> QED
    BY <1>1, <1>2, <1>4, <2>1, <2>2, <2>3
<1> HIDE DEF new, placed
<1>6. UNCHANGED <<payouts, deliveries, head, height, written, run, lastAnchored, sent, runs>>
  BY DEF PlaceOrder, appVars, daemonVars
<1>7. orders \in [Order -> Orders]
  BY DEF SettlementInv, SettlementTypeOK
<1>8. /\ \A o \in Order : o # n => orders'[o] = orders[o]
      /\ orders'[n] = [phase |-> "open", terms |-> terms]
  BY <1>5, <1>7
<1>9. orders[n].phase = "none"
  BY <1>5 DEF NoOrder
<1>10. SettlementTypeOK'
  <2>1. orders' \in [Order -> Orders]
    BY <1>5, <1>7 DEF Orders
  <2> QED
    BY <1>6, <2>1 DEF SettlementInv, SettlementTypeOK
<1>11. OrdersInTurn'
  <2>1. n + 1 \in 0 .. Cardinality(Order)
    BY <1>5, OrderAssumption, OrderIsNat
  <2>2. ASSUME NEW o \in Order PROVE orders'[o].phase # "none" <=> o < n + 1
    <3>1. CASE o = n
      BY <1>8, <3>1, OrderIsNat
    <3>2. CASE o # n
      BY <1>1, <1>8, <3>2, OrderIsNat
    <3> QED BY <3>1, <3>2
  <2> QED
    BY <2>1, <2>2 DEF OrdersInTurn
<1>12. Lasting
  BY <1>6, <1>8, <1>9 DEF Lasting, Made
<1>13. AllVouched'
  BY <1>6, <1>12, AllVouchedStays DEF SettlementInv
<1>14. CopiesLag' /\ DeliveriesInPast'
  BY <1>6 DEF SettlementInv, CopiesLag, DeliveriesInPast, Made
<1>15. PaidByPhase'
  <2> SUFFICES ASSUME NEW o \in Order
               PROVE  /\ orders'[o].phase \in {"none", "open"} => payouts'[o] = <<>>
                      /\ orders'[o].phase = "cancelled" => payouts'[o] = <<"buyer">>
                      /\ orders'[o].phase = "settled" =>
                           /\ payouts'[o] = <<deliveries'[o].seller>> /\ Made(o)'
                           /\ orders'[o].terms = deliveries'[o].terms
    BY DEF PaidByPhase
  <2>1. CASE o = n
    BY <1>6, <1>8, <1>9, <2>1 DEF SettlementInv, PaidByPhase
  <2>2. CASE o # n
    BY <1>6, <1>8, <2>2 DEF SettlementInv, PaidByPhase, Made
  <2> QED BY <2>1, <2>2
<1> QED
  BY <1>10, <1>11, <1>13, <1>14, <1>15 DEF SettlementInv

\* An order that is open changes its phase, and its escrow is paid out.
LEMMA PaidOut ==
  ASSUME SettlementInv, NEW o \in Order, IsOpen(o), NEW phase \in {"cancelled", "settled"},
         NEW to \in Seller \cup {"buyer"},
         orders' = [orders EXCEPT ![o].phase = phase],
         payouts' = [payouts EXCEPT ![o] = Append(payouts[o], to)],
         UNCHANGED <<deliveries, head, height, written, runs>>,
         phase = "cancelled" => to = "buyer",
         phase = "settled" =>
           to = deliveries[o].seller /\ Made(o) /\ orders[o].terms = deliveries[o].terms
  PROVE  /\ orders' \in [Order -> Orders]
         /\ payouts' \in [Order -> Seq(Seller \cup {"buyer"})]
         /\ OrdersInTurn' /\ Lasting /\ PaidByPhase'
<1>1. /\ orders \in [Order -> Orders]
      /\ payouts \in [Order -> Seq(Seller \cup {"buyer"})]
  BY DEF SettlementInv, SettlementTypeOK
<1>2. orders[o] \in [phase : {"open", "cancelled", "settled"}, terms : Terms]
  BY <1>1 DEF IsOpen, Orders, NoOrder
<1>3. /\ orders'[o] = [orders[o] EXCEPT !.phase = phase]
      /\ \A p \in Order : p # o => orders'[p] = orders[p]
  BY <1>1
<1>4. orders'[o].phase = phase /\ orders'[o].terms = orders[o].terms
  BY <1>2, <1>3
<1>5. payouts[o] = <<>>
  BY DEF SettlementInv, PaidByPhase, IsOpen
<1>6. /\ payouts'[o] = <<to>>
      /\ \A p \in Order : p # o => payouts'[p] = payouts[p]
  BY <1>1, <1>5
<1>7. orders' \in [Order -> Orders]
  BY <1>1, <1>2 DEF Orders
<1>8. payouts' \in [Order -> Seq(Seller \cup {"buyer"})]
  BY <1>1
<1>9. OrdersInTurn'
  <2>1. \A p \in Order : orders'[p].phase # "none" <=> orders[p].phase # "none"
    BY <1>3, <1>4 DEF IsOpen
  <2> QED
    BY <2>1 DEF SettlementInv, OrdersInTurn
<1>10. Lasting
  BY <1>3, <1>4 DEF Lasting, Made
<1>11. PaidByPhase'
  <2> SUFFICES ASSUME NEW p \in Order
               PROVE  /\ orders'[p].phase \in {"none", "open"} => payouts'[p] = <<>>
                      /\ orders'[p].phase = "cancelled" => payouts'[p] = <<"buyer">>
                      /\ orders'[p].phase = "settled" =>
                           /\ payouts'[p] = <<deliveries'[p].seller>> /\ Made(p)'
                           /\ orders'[p].terms = deliveries'[p].terms
    BY DEF PaidByPhase
  <2>1. CASE p = o
    BY <1>4, <1>6, <2>1 DEF Made
  <2>2. CASE p # o
    BY <1>3, <1>6, <2>2 DEF SettlementInv, PaidByPhase, Made
  <2> QED BY <2>1, <2>2
<1> QED
  BY <1>7, <1>8, <1>9, <1>10, <1>11

LEMMA CancelOrderSafe ==
  ASSUME SettlementInv, NEW o \in Order, CancelOrder(o)
  PROVE  SettlementInv'
<1>1. /\ IsOpen(o) /\ orders' = [orders EXCEPT ![o].phase = "cancelled"]
      /\ payouts' = [payouts EXCEPT ![o] = Append(payouts[o], "buyer")]
      /\ UNCHANGED <<deliveries, head, height, written, run, sent, runs>>
  BY DEF CancelOrder, appVars, daemonVars
<1>2. /\ orders' \in [Order -> Orders]
      /\ payouts' \in [Order -> Seq(Seller \cup {"buyer"})]
      /\ OrdersInTurn' /\ Lasting /\ PaidByPhase'
  BY <1>1, PaidOut
<1>3. AllVouched'
  BY <1>1, <1>2, AllVouchedStays DEF SettlementInv
<1>4. SettlementTypeOK'
  BY <1>1, <1>2 DEF SettlementInv, SettlementTypeOK
<1> QED
  BY <1>1, <1>2, <1>3, <1>4 DEF SettlementInv, CopiesLag, DeliveriesInPast, Made

-----------------------------------------------------------------------------
\* The app chain and its copies.

LEMMA AppBlockSafe ==
  ASSUME SettlementInv, NEW o \in Order, NEW seller \in Seller, NEW terms \in Delivered,
         AppBlock(o, seller, terms)
  PROVE  SettlementInv'
<1> DEFINE new == [height |-> head + 1, seller |-> seller, terms |-> terms]
<1>1. /\ head' = head + 1 /\ head \in Nat
      /\ UNCHANGED <<height, written, orders, payouts, run, sent, runs>>
  BY DEF AppBlock, SettlementInv, SettlementTypeOK, orderVars, daemonVars
<1>2. /\ deliveries \in [Order -> Deliveries]
      /\ \/ deliveries' = deliveries
         \/ deliveries[o] = NoDelivery /\ deliveries' = [deliveries EXCEPT ![o] = new]
  BY DEF AppBlock, SettlementInv, SettlementTypeOK
<1>3. \A p \in Order : Made(p) => deliveries[p] # NoDelivery
  BY <1>1 DEF Made, NoDelivery
<1>4. \A p \in Order : Made(p) => Made(p)' /\ deliveries'[p] = deliveries[p]
  <2> SUFFICES ASSUME NEW p \in Order, Made(p)
               PROVE  Made(p)' /\ deliveries'[p] = deliveries[p]
    OBVIOUS
  <2>1. deliveries'[p] = deliveries[p]
    BY <1>2, <1>3
  <2>2. deliveries[p] \in Deliveries /\ deliveries[p] # NoDelivery
    BY <1>2, <1>3
  <2>3. deliveries[p].height \in Nat
    BY <2>2 DEF Deliveries
  <2> QED
    BY <1>1, <2>1, <2>3 DEF Made
<1>5. new \in Deliveries /\ new.height \in 1 .. head'
  BY <1>1 DEF Deliveries
<1>6. deliveries' \in [Order -> Deliveries]
  <2> HIDE DEF new
  <2> QED BY <1>2, <1>5
<1>7. Lasting
  BY <1>1, <1>4 DEF Lasting
<1>8. AllVouched'
  BY <1>1, <1>7, AllVouchedStays DEF SettlementInv
<1>9. DeliveriesInPast'
  <2> SUFFICES ASSUME NEW p \in Order, deliveries'[p] # NoDelivery PROVE Made(p)'
    BY DEF DeliveriesInPast
  <2>1. CASE deliveries'[p] = deliveries[p]
    <3>1. Made(p)
      BY <2>1 DEF SettlementInv, DeliveriesInPast
    <3> QED BY <1>4, <3>1
  <2>2. CASE deliveries'[p] # deliveries[p]
    <3>1. deliveries'[p] = new
      BY <1>2, <2>2
    <3> QED
      BY <1>5, <3>1 DEF Made
  <2> QED BY <2>1, <2>2
<1>10. PaidByPhase'
  BY <1>1, <1>4 DEF SettlementInv, PaidByPhase
<1>11. OrdersInTurn'
  BY <1>1 DEF SettlementInv, OrdersInTurn
<1>12. CopiesLag'
  BY <1>1 DEF SettlementInv, SettlementTypeOK, CopiesLag
<1>13. SettlementTypeOK'
  BY <1>1, <1>6 DEF SettlementInv, SettlementTypeOK
<1> QED
  BY <1>8, <1>9, <1>10, <1>11, <1>12, <1>13 DEF SettlementInv

\* A step that changes copies of the app chain only.
LEMMA CopySafe ==
  ASSUME SettlementInv, UNCHANGED <<orders, payouts, deliveries, head, run, sent, runs>>,
         height' \in [Validator -> Nat], written' \in [Validator -> Nat],
         \A v \in Validator : written'[v] <= head
  PROVE  SettlementInv'
<1>1. Lasting
  BY DEF Lasting, Made
<1>2. AllVouched'
  BY <1>1, AllVouchedStays DEF SettlementInv
<1>3. SettlementTypeOK'
  BY DEF SettlementInv, SettlementTypeOK
<1>4. OrdersInTurn' /\ CopiesLag' /\ DeliveriesInPast' /\ PaidByPhase'
  BY DEF SettlementInv, OrdersInTurn, CopiesLag, DeliveriesInPast, PaidByPhase, Made
<1> QED
  BY <1>2, <1>3, <1>4 DEF SettlementInv

LEMMA WriteStateSafe ==
  ASSUME SettlementInv, NEW v \in Validator, WriteState(v)
  PROVE  SettlementInv'
<1>1. /\ UNCHANGED <<orders, payouts, deliveries, head, height, run, sent, runs>>
      /\ written[v] = height[v] /\ height[v] < head
      /\ written' = [written EXCEPT ![v] = written[v] + 1]
  BY DEF WriteState, orderVars, daemonVars
<1>2. head \in Nat /\ height \in [Validator -> Nat] /\ written \in [Validator -> Nat]
  BY DEF SettlementInv, SettlementTypeOK
<1>3. written' \in [Validator -> Nat] /\ \A w \in Validator : written'[w] <= head
  BY <1>1, <1>2 DEF SettlementInv, CopiesLag
<1> QED
  BY <1>1, <1>2, <1>3, CopySafe

LEMMA MoveHeadSafe ==
  ASSUME SettlementInv, NEW v \in Validator, MoveHead(v)
  PROVE  SettlementInv'
<1>1. /\ UNCHANGED <<orders, payouts, deliveries, head, written, run, sent, runs>>
      /\ height' = [height EXCEPT ![v] = written[v]]
  BY DEF MoveHead, orderVars, daemonVars
<1>2. height' \in [Validator -> Nat] /\ written' \in [Validator -> Nat]
  BY <1>1 DEF SettlementInv, SettlementTypeOK
<1> QED
  BY <1>1, <1>2, CopySafe DEF SettlementInv, CopiesLag

-----------------------------------------------------------------------------
\* The daemons: a step of a run vouches for where the run goes and what it sends.
LEMMA DaemonSafe ==
  ASSUME SettlementInv, DaemonKeeps,
         run' \in [runs -> Resting \cup ReadingOrders \cup Signing \cup Sent],
         \A r \in runs : run'[r] = run[r] \/ RunVouched(run'[r]),
         sent' \in [Validator -> SUBSET Anchor],
         \A v \in Validator : \A tx \in sent'[v] : tx \in sent[v] \/ Vouched(tx.body.call)
  PROVE  SettlementInv'
<1>1. UNCHANGED <<orders, payouts, deliveries, head, height, written, runs>>
  BY DEF DaemonKeeps, orderVars, appVars
<1>2. Lasting
  BY <1>1 DEF Lasting, Made
<1>3. AllVouched'
  <2>1. ASSUME NEW r \in runs PROVE RunVouched(run[r])'
    <3>1. RunVouched(run'[r])
      BY DEF SettlementInv, AllVouched
    <3>2. run'[r] \in Resting \cup ReadingOrders \cup Signing \cup Sent
      OBVIOUS
    <3> QED
      BY <1>1, <3>1 DEF RunVouched, Vouched, Made
  <2>2. ASSUME NEW v \in Validator, NEW tx \in sent'[v] PROVE Vouched(tx.body.call)'
    <3>1. Vouched(tx.body.call)
      BY DEF SettlementInv, AllVouched
    <3> QED
      BY <1>1, <3>1 DEF Vouched, Made
  <2> QED
    BY <1>1, <2>1, <2>2 DEF AllVouched
<1>4. SettlementTypeOK'
  BY <1>1 DEF SettlementInv, SettlementTypeOK
<1>5. OrdersInTurn' /\ CopiesLag' /\ DeliveriesInPast' /\ PaidByPhase'
  BY <1>1 DEF SettlementInv, OrdersInTurn, CopiesLag, DeliveriesInPast, PaidByPhase, Made
<1> QED
  BY <1>3, <1>4, <1>5 DEF SettlementInv

LEMMA GoesSafe ==
  ASSUME SettlementInv, DaemonKeeps, NEW r \in runs,
         NEW after \in Resting \cup ReadingOrders \cup Signing \cup Sent, RunVouched(after),
         Goes(r, after), UNCHANGED sent
  PROVE  SettlementInv'
<1>1. run \in [runs -> Resting \cup ReadingOrders \cup Signing \cup Sent]
  BY DEF SettlementInv, SettlementTypeOK
<1>2. /\ run' \in [runs -> Resting \cup ReadingOrders \cup Signing \cup Sent]
      /\ \A s \in runs : run'[s] = run[s] \/ RunVouched(run'[s])
  BY <1>1 DEF Goes
<1>3. sent' \in [Validator -> SUBSET Anchor]
  BY DEF SettlementInv, SettlementTypeOK
<1> QED
  BY <1>2, <1>3, DaemonSafe

LEMMA WaitingIsVouched ==
  /\ Waiting \in Resting /\ RunVouched(Waiting)
  /\ [at |-> "epoch"] \in Resting /\ RunVouched([at |-> "epoch"])
BY DEF Waiting, Resting, RunVouched

\* The type of a run, by where it is.
LEMMA RunIs ==
  ASSUME SettlementInv, NEW r \in runs
  PROVE  /\ r[1] \in Validator /\ RunVouched(run[r])
         /\ run[r].at \in {"idle", "epoch", "orders", "signing", "wait"}
         /\ run[r].at = "orders"  => run[r] \in ReadingOrders
         /\ run[r].at = "signing" => run[r] \in Signing
         /\ run[r].at = "wait"    => run[r] \in Sent
<1>1. run[r] \in Resting \cup ReadingOrders \cup Signing \cup Sent
  BY DEF SettlementInv, SettlementTypeOK
<1>2. r[1] \in Validator /\ RunVouched(run[r])
  BY DEF SettlementInv, SettlementTypeOK, AllVouched
<1> QED
  BY <1>1, <1>2 DEF Resting, ReadingOrders, Signing, Sent

LEMMA StartAnchorSafe ==
  ASSUME SettlementInv, NEW r \in runs, StartAnchor(r)
  PROVE  SettlementInv'
BY WaitingIsVouched, GoesSafe DEF StartAnchor

LEMMA DeliveriesReadSafe ==
  ASSUME SettlementInv, NEW r \in runs, DeliveriesRead(r)
  PROVE  SettlementInv'
<1> DEFINE seen == {o \in Order : deliveries[o].height \in 1 .. written[r[1]]}
           after == [at |-> "orders", next |-> TRUE, seen |-> seen]
<1>1. /\ head \in Nat /\ written[r[1]] \in Nat /\ written[r[1]] <= head
      /\ deliveries \in [Order -> Deliveries]
  BY RunIs DEF SettlementInv, SettlementTypeOK, CopiesLag
<1>2. \A o \in seen : Made(o)
  <2> SUFFICES ASSUME NEW o \in Order, deliveries[o].height \in 1 .. written[r[1]]
               PROVE  Made(o)
    OBVIOUS
  <2> QED BY <1>1 DEF Made
<1>3. after \in ReadingOrders /\ after.at = "orders" /\ after.seen = seen
  BY DEF ReadingOrders
<1>4. RunVouched(after)
  <2> HIDE DEF after, seen
  <2> QED BY <1>2, <1>3 DEF RunVouched
<1>5. DaemonKeeps /\ Goes(r, after) /\ UNCHANGED sent
  BY DEF DeliveriesRead
<1> QED
  <2> HIDE DEF after, seen
  <2> QED BY <1>3, <1>4, <1>5, GoesSafe

LEMMA OrdersReadSafe ==
  ASSUME SettlementInv, NEW r \in runs, OrdersRead(r)
  PROVE  SettlementInv'
<1> DEFINE due == SelectSettlement(run[r].seen)
           body == [height |-> height[r[1]], call |-> due]
           after == [at |-> "signing", next |-> run[r].next, signers |-> {r[1]},
                    asked |-> {r[1]}, body |-> body]
<1>1. /\ run[r] \in ReadingOrders /\ run[r].at = "orders" /\ r[1] \in Validator
      /\ \A o \in run[r].seen : Made(o)
  BY RunIs DEF OrdersRead, RunVouched
<1>2. run[r].seen \in SUBSET Order /\ run[r].next \in BOOLEAN
  BY <1>1 DEF ReadingOrders
<1>3. due \in Call /\ Vouched(due)
  BY <1>1, <1>2, SelectionIsVouched DEF SettlementInv
<1>4. height[r[1]] \in Nat
  BY <1>1 DEF SettlementInv, SettlementTypeOK
<1>5. DaemonKeeps /\ Goes(r, after) /\ UNCHANGED sent
  BY DEF OrdersRead
<1> HIDE DEF due
<1>6. body \in Body /\ body.call = due
  BY <1>3, <1>4 DEF Body
<1> HIDE DEF body
<1>7. after \in Signing /\ after.at = "signing" /\ after.body = body
  BY <1>1, <1>2, <1>6 DEF Signing
<1> HIDE DEF after
<1>8. RunVouched(after)
  BY <1>3, <1>6, <1>7 DEF RunVouched
<1> QED
  BY <1>5, <1>7, <1>8, GoesSafe

LEMMA AskCosignerSafe ==
  ASSUME SettlementInv, NEW r \in runs, NEW w \in Validator, AskCosigner(r, w)
  PROVE  SettlementInv'
<1>1. run[r] \in Signing /\ run[r].at = "signing" /\ Vouched(run[r].body.call)
  BY RunIs DEF AskCosigner, RunVouched
<1> DEFINE more(ss) == [run[r] EXCEPT !.signers = ss, !.asked = run[r].asked \cup {w}]
<1>2. \A ss \in SUBSET Validator : more(ss) \in Signing /\ RunVouched(more(ss))
  <2> SUFFICES ASSUME NEW ss \in SUBSET Validator
               PROVE  more(ss) \in Signing /\ RunVouched(more(ss))
    OBVIOUS
  <2>1. more(ss) \in Signing /\ more(ss).at = "signing" /\ more(ss).body = run[r].body
    BY <1>1 DEF Signing
  <2> HIDE DEF more
  <2> QED BY <1>1, <2>1 DEF RunVouched
<1>3. /\ DaemonKeeps /\ UNCHANGED sent
      /\ \/ run' = [run EXCEPT ![r] = more(run[r].signers \cup {w})]
         \/ run' = [run EXCEPT ![r] = [run[r] EXCEPT !.asked = run[r].asked \cup {w}]]
  BY DEF AskCosigner, Goes
<1>4. /\ run[r].signers \in SUBSET Validator
      /\ [run[r] EXCEPT !.asked = run[r].asked \cup {w}] = more(run[r].signers)
  BY <1>1 DEF Signing
<1>5. \E ss \in SUBSET Validator : Goes(r, more(ss))
  <2>1. run[r].signers \cup {w} \in SUBSET Validator
    BY <1>4
  <2> HIDE DEF more
  <2> QED BY <1>3, <1>4, <2>1 DEF Goes
<1> HIDE DEF more
<1> QED
  BY <1>2, <1>3, <1>5, GoesSafe

LEMMA NoQuorumSafe ==
  ASSUME SettlementInv, NEW r \in runs, NoQuorum(r)
  PROVE  SettlementInv'
BY WaitingIsVouched, GoesSafe DEF NoQuorum

LEMMA SubmitAnchorSafe ==
  ASSUME SettlementInv, NEW r \in runs, SubmitAnchor(r)
  PROVE  SettlementInv'
<1> DEFINE v == r[1]
           tx == [next |-> run[r].next, body |-> run[r].body]
           after == [at |-> "wait", tx |-> tx, receipt |-> "none"]
<1>1. /\ run[r] \in Signing /\ run[r].at = "signing" /\ Vouched(run[r].body.call)
      /\ v \in Validator
  BY RunIs DEF SubmitAnchor, RunVouched
<1>2. tx \in Anchor /\ tx.body = run[r].body
  BY <1>1 DEF Signing, Anchor
<1>3. DaemonKeeps
  BY DEF SubmitAnchor
<1>4. \/ Goes(r, after) /\ sent' = [sent EXCEPT ![v] = {tx}]
      \/ Goes(r, Waiting) /\ UNCHANGED sent
  BY DEF SubmitAnchor
<1> HIDE DEF tx
<1>5. after \in Sent /\ after.at = "wait" /\ after.tx = tx
  BY <1>2 DEF Sent
<1> HIDE DEF after, v
<1>6. RunVouched(after)
  BY <1>1, <1>2, <1>5 DEF RunVouched
<1>7. CASE Goes(r, Waiting) /\ UNCHANGED sent
  BY <1>3, <1>7, WaitingIsVouched, GoesSafe
<1>8. CASE Goes(r, after) /\ sent' = [sent EXCEPT ![v] = {tx}]
  <2>1. /\ run \in [runs -> Resting \cup ReadingOrders \cup Signing \cup Sent]
        /\ sent \in [Validator -> SUBSET Anchor]
    BY DEF SettlementInv, SettlementTypeOK
  <2>2. /\ run' \in [runs -> Resting \cup ReadingOrders \cup Signing \cup Sent]
        /\ \A s \in runs : run'[s] = run[s] \/ RunVouched(run'[s])
    BY <1>5, <1>6, <1>8, <2>1 DEF Goes
  <2>3. /\ sent' \in [Validator -> SUBSET Anchor]
        /\ \A u \in Validator : \A t \in sent'[u] : t \in sent[u] \/ t = tx
    BY <1>2, <1>8, <2>1
  <2>4. Vouched(tx.body.call)
    BY <1>1, <1>2
  <2>5. \A u \in Validator : \A t \in sent'[u] : t \in sent[u] \/ Vouched(t.body.call)
    BY <2>3, <2>4
  <2> QED
    BY <1>3, <2>2, <2>3, <2>5, DaemonSafe
<1> QED
  BY <1>4, <1>7, <1>8

LEMMA AnchorReceiptSafe ==
  ASSUME SettlementInv, NEW r \in runs, AnchorReceipt(r)
  PROVE  SettlementInv'
BY WaitingIsVouched, GoesSafe DEF AnchorReceipt

LEMMA WaitOverSafe ==
  ASSUME SettlementInv, NEW r \in runs, WaitOver(r)
  PROVE  SettlementInv'
BY WaitingIsVouched, GoesSafe DEF WaitOver

LEMMA DaemonRestartsSafe ==
  ASSUME SettlementInv, NEW v \in Validator, DaemonRestarts(v)
  PROVE  SettlementInv'
<1>1. /\ run \in [runs -> Resting \cup ReadingOrders \cup Signing \cup Sent]
      /\ sent \in [Validator -> SUBSET Anchor]
  BY DEF SettlementInv, SettlementTypeOK
<1>2. /\ DaemonKeeps /\ UNCHANGED sent
      /\ run' = [r \in runs |-> IF r[1] = v THEN Waiting ELSE run[r]]
  BY DEF DaemonRestarts
<1>3. /\ run' \in [runs -> Resting \cup ReadingOrders \cup Signing \cup Sent]
      /\ \A r \in runs : run'[r] = run[r] \/ RunVouched(run'[r])
  BY <1>1, <1>2, WaitingIsVouched
<1> QED
  BY <1>1, <1>2, <1>3, DaemonSafe

LEMMA AnchorLostSafe ==
  ASSUME SettlementInv, NEW v \in Validator, AnchorLost(v)
  PROVE  SettlementInv'
<1>1. /\ sent' = [sent EXCEPT ![v] = {}]
      /\ UNCHANGED <<orderVars, appVars, run, runs>>
  BY DEF AnchorLost, daemonVars
<1>2. /\ run \in [runs -> Resting \cup ReadingOrders \cup Signing \cup Sent]
      /\ sent \in [Validator -> SUBSET Anchor]
  BY DEF SettlementInv, SettlementTypeOK
<1>3. /\ sent' \in [Validator -> SUBSET Anchor]
      /\ \A u \in Validator : sent'[u] \subseteq sent[u]
  BY <1>1, <1>2
<1>4. DaemonKeeps
  BY <1>1 DEF DaemonKeeps
<1> QED
  BY <1>1, <1>2, <1>3, <1>4, DaemonSafe
-----------------------------------------------------------------------------
\* A block with an anchor changes in a run and in what is sent only whether it is
\* still the next one, and the receipt.

LEMMA OutdatedAnchor ==
  ASSUME NEW tx \in Anchor
  PROVE  Outdated(tx) \in Anchor /\ Outdated(tx).body = tx.body
<1>1. "next" \in DOMAIN tx /\ Outdated(tx) = [tx EXCEPT !.next = FALSE]
  BY DEF Outdated, Anchor
<1> QED
  BY <1>1 DEF Anchor

LEMMA OutdatedRun ==
  ASSUME NEW x \in Resting \cup ReadingOrders \cup Signing \cup Sent, RunVouched(x)
  PROVE  Outdated(x) \in Resting \cup ReadingOrders \cup Signing \cup Sent /\ RunVouched(Outdated(x))
<1>1. CASE x \in Resting
  <2>1. DOMAIN x = {"at"}
    BY <1>1 DEF Resting
  <2>2. Outdated(x) = x
    BY <2>1 DEF Outdated
  <2> QED BY <2>2
<1>2. CASE x \in ReadingOrders
  <2>1. "next" \in DOMAIN x
    BY <1>2 DEF ReadingOrders
  <2>2. Outdated(x) = [x EXCEPT !.next = FALSE]
    BY <2>1 DEF Outdated
  <2>3. Outdated(x) \in ReadingOrders /\ Outdated(x).at = "orders" /\ Outdated(x).seen = x.seen
    BY <1>2, <2>2 DEF ReadingOrders
  <2>4. x.at = "orders"
    BY <1>2 DEF ReadingOrders
  <2> QED BY <2>3, <2>4 DEF RunVouched
<1>3. CASE x \in Signing
  <2>1. "next" \in DOMAIN x
    BY <1>3 DEF Signing
  <2>2. Outdated(x) = [x EXCEPT !.next = FALSE]
    BY <2>1 DEF Outdated
  <2>3. Outdated(x) \in Signing /\ Outdated(x).at = "signing" /\ Outdated(x).body = x.body
    BY <1>3, <2>2 DEF Signing
  <2>4. x.at = "signing"
    BY <1>3 DEF Signing
  <2> QED BY <2>3, <2>4 DEF RunVouched
<1>4. CASE x \in Sent
  <2>1. DOMAIN x = {"at", "tx", "receipt"} /\ x.at = "wait" /\ x.tx \in Anchor
    BY <1>4 DEF Sent
  <2> DEFINE tx == [x.tx EXCEPT !.next = FALSE]
  <2>2. tx \in Anchor /\ tx.body = x.tx.body
    BY <2>1 DEF Anchor
  <2>3. Outdated(x) = [x EXCEPT !.tx = tx]
    BY <2>1 DEF Outdated
  <2> HIDE DEF tx
  <2>4. Outdated(x) \in Sent /\ Outdated(x).at = "wait" /\ Outdated(x).tx = tx
    BY <1>4, <2>2, <2>3 DEF Sent
  <2> QED BY <2>1, <2>2, <2>4 DEF RunVouched
<1> QED BY <1>1, <1>2, <1>3, <1>4

LEMMA WithReceiptRun ==
  ASSUME NEW x \in Resting \cup ReadingOrders \cup Signing \cup Sent, RunVouched(x),
         NEW tx, NEW success \in BOOLEAN
  PROVE  /\ WithReceipt(x, tx, success) \in Resting \cup ReadingOrders \cup Signing \cup Sent
         /\ RunVouched(WithReceipt(x, tx, success))
<1>1. CASE x.at = "wait" /\ x.receipt = "none" /\ x.tx = tx
  <2>1. x \in Sent
    BY <1>1 DEF Resting, ReadingOrders, Signing
  <2> DEFINE receipt == IF success THEN "success" ELSE "failed"
             y == [x EXCEPT !.receipt = receipt]
  <2>2. WithReceipt(x, tx, success) = y
    BY <1>1 DEF WithReceipt
  <2>3. receipt \in {"none", "success", "failed"}
    OBVIOUS
  <2> HIDE DEF receipt
  <2>4. y \in Sent /\ y.at = "wait" /\ y.tx = x.tx
    BY <2>1, <2>3 DEF Sent
  <2> HIDE DEF y
  <2>5. RunVouched(y)
    BY <1>1, <2>4 DEF RunVouched
  <2> QED BY <2>2, <2>4, <2>5
<1>2. CASE ~(x.at = "wait" /\ x.receipt = "none" /\ x.tx = tx)
  BY <1>2 DEF WithReceipt
<1> QED BY <1>1, <1>2

LEMMA SettlementBlockSafe ==
  ASSUME SettlementInv, NEW v \in Validator, SettlementBlock(v)
  PROVE  SettlementInv'
<1> DEFINE State == Resting \cup ReadingOrders \cup Signing \cup Sent
           others == [sent EXCEPT ![v] = {}]
           told(t) == [r \in runs |-> IF r[1] = v
                                          THEN WithReceipt(run[r], t, AnchorSucceeds(t))
                                          ELSE run[r]]
           settles(t) == AnchorSucceeds(t) /\ t.body.call # NoCallToMake
<1>1. PICK tx \in sent[v] :
        /\ sent' = IF AnchorSucceeds(tx)
                   THEN [w \in Validator |-> {Outdated(t) : t \in others[w]}] ELSE others
        /\ run' = IF AnchorSucceeds(tx) THEN [r \in runs |-> Outdated(told(tx)[r])]
                  ELSE told(tx)
        /\ orders' = IF settles(tx) THEN [orders EXCEPT ![tx.body.call.order].phase = "settled"]
                     ELSE orders
        /\ payouts' = IF settles(tx)
                      THEN [payouts EXCEPT ![tx.body.call.order] =
                              Append(payouts[tx.body.call.order], tx.body.call.seller)]
                      ELSE payouts
        /\ UNCHANGED <<appVars, lastAnchored, runs, anchorFaults>>
  BY DEF SettlementBlock
<1>2. /\ run \in [runs -> State] /\ \A r \in runs : RunVouched(run[r])
      /\ sent \in [Validator -> SUBSET Anchor]
      /\ \A w \in Validator : \A t \in sent[w] : Vouched(t.body.call)
  BY DEF SettlementInv, SettlementTypeOK, AllVouched
<1>3. UNCHANGED <<deliveries, head, height, written, runs>>
  BY <1>1 DEF appVars
<1>4. AnchorSucceeds(tx) \in BOOLEAN
  BY DEF AnchorSucceeds, IsOpen
<1>5. \A r \in runs : told(tx)[r] \in State /\ RunVouched(told(tx)[r])
  BY <1>2, <1>4, WithReceiptRun
<1>6. run' \in [runs -> State] /\ \A r \in runs : RunVouched(run'[r])
  <2> HIDE DEF told
  <2>1. told(tx) \in [runs -> State]
    BY <1>5 DEF told
  <2>2. \A r \in runs : /\ Outdated(told(tx)[r]) \in State
                        /\ RunVouched(Outdated(told(tx)[r]))
    BY <1>5, OutdatedRun
  <2> QED BY <1>1, <1>5, <2>1, <2>2
<1>7. /\ others \in [Validator -> SUBSET Anchor]
      /\ \A w \in Validator : \A t \in others[w] : t \in sent[w]
  BY <1>2
<1>8. /\ sent' \in [Validator -> SUBSET Anchor]
      /\ \A w \in Validator : \A t \in sent'[w] : Vouched(t.body.call)
  <2> HIDE DEF others
  <2>1. \A w \in Validator : \A t \in others[w] :
          Outdated(t) \in Anchor /\ Vouched(t.body.call) /\ Outdated(t).body = t.body
    BY <1>2, <1>7, OutdatedAnchor
  <2>2. CASE AnchorSucceeds(tx)
    <3>1. sent' = [w \in Validator |-> {Outdated(t) : t \in others[w]}]
      BY <1>1, <2>2
    <3>2. \A w \in Validator : \A t \in sent'[w] : t \in Anchor /\ Vouched(t.body.call)
      <4> SUFFICES ASSUME NEW w \in Validator, NEW t \in sent'[w]
                   PROVE  t \in Anchor /\ Vouched(t.body.call)
        OBVIOUS
      <4>1. PICK u \in others[w] : t = Outdated(u)
        BY <3>1
      <4>2. t \in Anchor /\ t.body = u.body /\ Vouched(u.body.call)
        BY <2>1, <4>1
      <4> QED BY <4>2
    <3> QED BY <3>1, <3>2
  <2>3. CASE ~AnchorSucceeds(tx)
    BY <1>1, <1>7, <2>1, <2>3
  <2> QED BY <2>2, <2>3
<1>9. /\ orders' \in [Order -> Orders]
      /\ payouts' \in [Order -> Seq(Seller \cup {"buyer"})]
      /\ OrdersInTurn' /\ Lasting /\ PaidByPhase'
  <2>1. CASE settles(tx)
    <3> DEFINE o == tx.body.call.order
               to == tx.body.call.seller
    <3>1. tx.body.call \in Call /\ tx.body.call # NoCallToMake /\ IsOpen(o)
      BY <1>2, <2>1 DEF AnchorSucceeds, Anchor, Body
    <3>2. o \in Order /\ to \in Seller \cup {"buyer"}
      BY <3>1 DEF Call
    <3>3. to = deliveries[o].seller /\ Made(o) /\ orders[o].terms = deliveries[o].terms
      BY <1>2, <3>1 DEF Vouched
    <3>4. /\ orders' = [orders EXCEPT ![o].phase = "settled"]
          /\ payouts' = [payouts EXCEPT ![o] = Append(payouts[o], to)]
      BY <1>1, <2>1
    <3> HIDE DEF o, to
    <3> QED
      BY <1>3, <3>1, <3>2, <3>3, <3>4, PaidOut
  <2>2. CASE ~settles(tx)
    <3>1. UNCHANGED <<orders, payouts>>
      BY <1>1, <2>2
    <3> QED
      BY <1>3, <3>1
      DEF SettlementInv, SettlementTypeOK, OrdersInTurn, Lasting, PaidByPhase, Made
  <2> QED BY <2>1, <2>2
<1>10. SettlementTypeOK'
  BY <1>3, <1>6, <1>8, <1>9 DEF SettlementInv, SettlementTypeOK
<1>11. AllVouched'
  <2>1. ASSUME NEW r \in runs PROVE RunVouched(run[r])'
    <3>1. PICK x \in State : x = run'[r]
      BY <1>6
    <3>2. RunVouched(x)
      BY <1>6, <3>1
    <3>3. RunVouched(x)'
      BY <1>9, <3>2, RunVouchedStays
    <3> QED BY <3>1, <3>3 DEF RunVouched, Vouched, Made
  <2>2. ASSUME NEW w \in Validator, NEW t \in sent'[w] PROVE Vouched(t.body.call)'
    <3>1. t.body.call \in Call /\ Vouched(t.body.call)
      BY <1>8 DEF Anchor, Body
    <3> QED BY <1>9, <3>1, VouchedStays
  <2> QED BY <1>3, <2>1, <2>2 DEF AllVouched
<1> QED
  BY <1>3, <1>9, <1>10, <1>11 DEF SettlementInv, CopiesLag, DeliveriesInPast, Made

-----------------------------------------------------------------------------
LEMMA StepSafe == SettlementInv /\ [SettlementNext]_settlementVars => SettlementInv'
<1> SUFFICES ASSUME SettlementInv, [SettlementNext]_settlementVars PROVE SettlementInv'
  OBVIOUS
<1>1. ASSUME NEW terms \in Terms, PlaceOrder(terms) PROVE SettlementInv'
  BY <1>1, PlaceOrderSafe
<1>2. ASSUME NEW o \in Order, CancelOrder(o) PROVE SettlementInv'
  BY <1>2, CancelOrderSafe
<1>3. ASSUME NEW o \in Order, NEW seller \in Seller, NEW terms \in Delivered,
             AppBlock(o, seller, terms)
      PROVE  SettlementInv'
  BY <1>3, AppBlockSafe
<1>4. ASSUME NEW r \in runs, AnchorStep(r) PROVE SettlementInv'
  BY <1>4, StartAnchorSafe, DeliveriesReadSafe, OrdersReadSafe, AskCosignerSafe, NoQuorumSafe,
     SubmitAnchorSafe, AnchorReceiptSafe, WaitOverSafe DEF AnchorStep
<1>5. ASSUME NEW v \in Validator,
             \/ WriteState(v) \/ MoveHead(v) \/ DaemonRestarts(v)
             \/ SettlementBlock(v) \/ AnchorLost(v)
      PROVE  SettlementInv'
  BY <1>5, WriteStateSafe, MoveHeadSafe, DaemonRestartsSafe, SettlementBlockSafe, AnchorLostSafe
<1>6. CASE UNCHANGED settlementVars
  <2>1. /\ UNCHANGED <<orders, payouts, deliveries, head, height, written, run, sent, runs>>
    BY <1>6 DEF settlementVars, orderVars, appVars, daemonVars
  <2>2. height' \in [Validator -> Nat] /\ written' \in [Validator -> Nat]
        /\ \A v \in Validator : written'[v] <= head
    BY <2>1 DEF SettlementInv, SettlementTypeOK, CopiesLag
  <2> QED BY <2>1, <2>2, CopySafe
<1> QED
  BY <1>1, <1>2, <1>3, <1>4, <1>5, <1>6 DEF SettlementNext

LEMMA PaidByPhaseIsPaidForDelivery == SettlementInv => PaidForDelivery
<1> SUFFICES ASSUME SettlementInv, NEW o \in Order
             PROVE  /\ Len(payouts[o]) <= 1
                    /\ \A i \in DOMAIN payouts[o] :
                         \/ payouts[o][i] = "buyer" /\ orders[o].phase = "cancelled"
                         \/ /\ orders[o].phase = "settled" /\ Made(o)
                            /\ payouts[o][i] = deliveries[o].seller
                            /\ orders[o].terms = deliveries[o].terms
  BY DEF PaidForDelivery, Made
<1>1. orders[o].phase \in {"none", "open", "cancelled", "settled"}
  BY DEF SettlementInv, SettlementTypeOK, Orders, NoOrder
<1>2. CASE orders[o].phase \in {"none", "open"}
  BY <1>2 DEF SettlementInv, PaidByPhase
<1>3. CASE orders[o].phase = "cancelled"
  <2>1. payouts[o] = <<"buyer">>
    BY <1>3 DEF SettlementInv, PaidByPhase
  <2> QED BY <1>3, <2>1
<1>4. CASE orders[o].phase = "settled"
  <2>1. /\ payouts[o] = <<deliveries[o].seller>> /\ Made(o)
        /\ orders[o].terms = deliveries[o].terms
    BY <1>4 DEF SettlementInv, PaidByPhase
  <2> QED BY <1>4, <2>1
<1> QED BY <1>1, <1>2, <1>3, <1>4

\* Every reachable state of the market, the app chain and its daemons satisfies
\* the inductive invariant: what a run of a daemon has read, had signed or sent
\* still names a delivery made for what its order says.
THEOREM SettlementInvariant == SettlementSpec => []SettlementInv
<1>1. SettlementInit => SettlementInv
  BY SettlementStarts
<1>2. SettlementInv /\ [SettlementNext]_settlementVars => SettlementInv'
  BY StepSafe
<1> QED
  BY <1>1, <1>2, PTL DEF SettlementSpec

\* The market pays an escrow out once, to the buyer who cancelled or to the seller
\* of a delivery of what was ordered, for any number of validators and of
\* overlapping, restarted or lagging runs of their daemons.
THEOREM DeliveryPaidOnce == SettlementSpec => []PaidForDelivery
<1>1. SettlementInv => PaidForDelivery
  BY PaidByPhaseIsPaidForDelivery
<1> QED
  BY <1>1, SettlementInvariant, PTL

-----------------------------------------------------------------------------
(* DevnetBench: ReportIsTrue for any numbers of nodes, transactions, windows and *)
(* attempts.  A block is of transactions that wait at its proposer, so the chain *)
(* holds no more than were taken to submit (PendingInv); a report is of a block  *)
(* its node has (ReportInv); and while every block is counted under its height,  *)
(* the count is the sum of the blocks whose heights are known (CountInv), which   *)
(* is all transactions only when it is all blocks.  From then on nothing is left *)
(* to propose, some node stands at the head, and no status of that node is older  *)
(* (ControlInv): so when all of them are at one head, it is that one.            *)

(* What each variable holds. *)
BenchBlock == [kind : {"block"}, height : Nat, block : Nat, head : Nat]
BenchStatus == [kind : {"status"}, head : Nat]
Job == [doing : {"submit"}, tx : Nat, target : Node, attempt : Nat]
Counts == [count : Nat, height : Nat, head : Nat, known : SUBSET (Nat \X Nat)]
SubmitPhase == [phase : {"submit", "count"}, until : 0 .. Txs]
NodeStatus == [node : Node, head : Nat]
Convergence ==
  [phase : {"converge"}, until : 0 .. Txs, statuses : SUBSET NodeStatus,
   target : [height : Nat, head : Nat]]

ChainTypes ==
  /\ mode \in {"cluster", "in process"} /\ blocks \in Seq(Nat \ {0})
  /\ at \in [Node -> Nat] /\ mempool \in [Node -> SUBSET Nat]

SubmitTypes ==
  /\ ingest \in SUBSET [tx : Nat, to : Node]
  /\ submitter \in [Submitters -> Job \cup {NoWork}] /\ next \in Nat

ReportTypes ==
  /\ reported \in [Node -> Nat] /\ reading \in [Node -> SUBSET Nat]
  /\ outbox \in [Node -> Seq(BenchBlock \cup BenchStatus)] /\ committed \in Counts

ControlTypes ==
  /\ In("submit") \/ In("count") => control \in SubmitPhase
  /\ In("converge") => control \in Convergence

BenchTypes == ChainTypes /\ SubmitTypes /\ ReportTypes /\ ControlTypes

\* The nonce of the sender at the head.
Total == NonceAt(Len(blocks))

\* What waits or is under way was taken from the queue and is not applied at its node.
PendingInv ==
  /\ \A v \in Node : at[v] <= Len(blocks) /\ \A t \in mempool[v] : Account(v) <= t /\ t < next
  /\ \A copy \in ingest : copy.tx < next
  /\ \A s \in Submitters : submitter[s] # NoWork => submitter[s].tx < next
  /\ Total <= next /\ next <= Txs

\* A message of a node is of what that node has, and so is what is known of it.
IsReported(m, v) ==
  m.head <= at[v] /\ (m.kind = "block" => 1 <= m.block /\ m.block <= at[v])

ReportInv ==
  /\ \A v \in Node :
       /\ reported[v] <= at[v] /\ \A h \in reading[v] : 1 <= h /\ h <= at[v]
       /\ \A i \in DOMAIN outbox[v] : IsReported(outbox[v][i], v)
  /\ \A k \in committed.known : \E v \in Node : 1 <= k[2] /\ k[2] <= at[v]
  /\ mode = "in process" =>
       committed.known = {} /\ \A v \in Node : outbox[v] = <<>> /\ reading[v] = {}

\* The transactions of the first blocks of a chain, and the heights that count.
SumTo(chain, h) == SumFunctionOnSet(chain, 1 .. h)

Heights == {k[1] : k \in committed.known}

\* The count is the transactions of the blocks that are known, or read in order.
CountInv ==
  /\ mode = "cluster" => (ByTheirHeight => committed.count = SumFunctionOnSet(blocks, Heights))
  /\ mode = "in process" =>
       /\ committed.height <= at[0] /\ committed.head = committed.height
       /\ committed.count = SumTo(blocks, committed.height)

\* A node has one status at a time: on its way, or with the controller.
IsStatus(v, i) == outbox[v][i].kind = "status"
HasStatus(v) == \E i \in DOMAIN outbox[v] : IsStatus(v, i)

OneStatusEach ==
  /\ \A v \in Node : \A i, j \in DOMAIN outbox[v] : IsStatus(v, i) /\ IsStatus(v, j) => i = j
  /\ \A s \in control.statuses : ~HasStatus(s.node) /\ s.head <= at[s.node]
  /\ \A s, t \in control.statuses : s.node = t.node => s = t

\* A node that has every block, of which no older status is under way.
AtTheHead(w) ==
  /\ at[w] = Len(blocks)
  /\ \A s \in control.statuses : s.node = w => s.head = Len(blocks)
  /\ \A i \in DOMAIN outbox[w] : IsStatus(w, i) => outbox[w][i].head = Len(blocks)

\* What the controller went on from, in each phase.
ControlInv ==
  /\ In("submit") \/ In("count") => \A v \in Node : ~HasStatus(v)
  /\ In("submit") => control.until <= committed.count + Window
  /\ In("converge") =>
       /\ control.until <= committed.count
       /\ OneStatusEach
       /\ ByTheirHeight /\ control.until = Txs =>
            control.target.head = committed.head /\ \E w \in Node : AtTheHead(w)
  /\ In("written") /\ ByTheirHeight =>
       /\ control.count = Txs /\ Total = Txs /\ control.head = Len(blocks)
       /\ \A v \in Node : at[v] = Len(blocks)

\* The inductive invariant.
BenchInv == BenchTypes /\ PendingInv /\ ReportInv /\ CountInv /\ ControlInv

-----------------------------------------------------------------------------
(* The chain and the count, as sums. *)
\* The nonce of the sender at a height is the sum of the blocks up to it.
LEMMA NonceIsSum ==
  /\ \A h \in Nat : blocks \in Seq(Nat \ {0}) /\ h <= Len(blocks) => NonceAt(h) = SumTo(blocks, h)
  /\ \A h \in Nat : blocks' \in Seq(Nat \ {0}) /\ h <= Len(blocks') =>
       NonceAt(h)' = SumTo(blocks', h)
<1>1. ASSUME NEW h \in Nat
      PROVE  /\ NonceAt(h) = SumFunctionOnSet(SubSeq(blocks, 1, h), DOMAIN SubSeq(blocks, 1, h))
             /\ NonceAt(h)' = SumFunctionOnSet(SubSeq(blocks', 1, h), DOMAIN SubSeq(blocks', 1, h))
  <2>1. NonceAt(h) = SumFunctionOnSet(SubSeq(blocks, 1, h), DOMAIN SubSeq(blocks, 1, h))
    BY DEF NonceAt, FoldSeq, FoldFunction, SumFunctionOnSet
  <2>2. NonceAt(h)' = SumFunctionOnSet(SubSeq(blocks', 1, h), DOMAIN SubSeq(blocks', 1, h))
    BY DEF NonceAt, FoldSeq, FoldFunction, SumFunctionOnSet, FoldFunctionOnSet, MapThenFoldSet
  <2> QED BY <2>1, <2>2
<1>2. ASSUME NEW chain \in Seq(Nat \ {0}), NEW h \in Nat, h <= Len(chain)
      PROVE  SumFunctionOnSet(SubSeq(chain, 1, h), DOMAIN SubSeq(chain, 1, h)) = SumTo(chain, h)
  <2>1. /\ DOMAIN SubSeq(chain, 1, h) = 1 .. h
        /\ \A i \in 1 .. h : SubSeq(chain, 1, h)[i] = chain[i]
    BY <1>2
  <2>2. IsFiniteSet(1 .. h)
    BY FS_Interval
  <2> DEFINE part == SubSeq(chain, 1, h)
  <2>3. SumFunctionOnSet(part, 1 .. h) = SumFunctionOnSet(chain, 1 .. h)
    <3>1. \A i \in 1 .. h : part[i] = chain[i]
      BY <2>1
    <3> HIDE DEF part
    <3> QED BY <3>1, <2>2, SumsAgree
  <2> QED BY <2>1, <2>3 DEF SumTo
<1> QED BY <1>1, <1>2

LEMMA SumToIs ==
  ASSUME NEW chain \in Seq(Nat \ {0}), NEW h \in Nat, h <= Len(chain)
  PROVE  /\ SumTo(chain, h) \in Nat /\ SumTo(chain, 0) = 0
         /\ h # 0 => SumTo(chain, h) = chain[h] + SumTo(chain, h - 1)
<1>1. IsFiniteSet(1 .. h) /\ \A i \in 1 .. h : chain[i] \in Nat /\ chain[i] \in Int
  BY FS_Interval
<1>2. SumTo(chain, h) \in Nat
  BY <1>1, SumIsNat DEF SumTo
<1>3. SumTo(chain, 0) = 0
  <2>1. 1 .. 0 = {}
    OBVIOUS
  <2> QED BY <2>1, SumOfNothing DEF SumTo
<1>4. ASSUME h # 0 PROVE SumTo(chain, h) = chain[h] + SumTo(chain, h - 1)
  <2>1. (1 .. h) \ {h} = 1 .. h - 1 /\ h \in 1 .. h
    BY <1>4
  <2>2. SumFunctionOnSet(chain, 1 .. h) = chain[h] + SumFunctionOnSet(chain, (1 .. h) \ {h})
    BY <1>1, <2>1, SumLess
  <2> QED BY <2>1, <2>2 DEF SumTo
<1> QED BY <1>2, <1>3, <1>4

\* Blocks hold transactions, so the nonce grows with the height.
LEMMA SumToGrows ==
  ASSUME NEW chain \in Seq(Nat \ {0}), NEW h \in Nat, h <= Len(chain), NEW g \in Nat, g <= h
  PROVE  SumTo(chain, g) <= SumTo(chain, h) /\ (g < h => SumTo(chain, g) < SumTo(chain, h))
<1>1. IsFiniteSet(1 .. h) /\ \A i \in 1 .. h : chain[i] \in Nat
  BY FS_Interval
<1>2. SumTo(chain, g) <= SumTo(chain, h)
  <2>1. 1 .. g \in SUBSET (1 .. h)
    OBVIOUS
  <2> QED BY <1>1, <2>1, SumGrows DEF SumTo
<1>3. ASSUME g < h PROVE SumTo(chain, g) < SumTo(chain, h)
  <2>1. h - 1 \in Nat /\ 1 .. g \in SUBSET (1 .. h - 1) /\ IsFiniteSet(1 .. h - 1)
        /\ \A i \in 1 .. h - 1 : chain[i] \in Nat
    <3>1. h - 1 \in Int
      OBVIOUS
    <3>2. IsFiniteSet(1 .. h - 1)
      BY <3>1, FS_Interval
    <3> QED BY <1>3, <3>2
  <2>2. SumTo(chain, g) <= SumTo(chain, h - 1)
    BY <2>1, SumGrows DEF SumTo
  <2>3. SumTo(chain, g) \in Nat /\ SumTo(chain, h - 1) \in Nat /\ chain[h] \in Nat \ {0}
        /\ SumTo(chain, h) = chain[h] + SumTo(chain, h - 1)
    BY <1>3, <2>1, SumToIs
  <2> QED BY <2>2, <2>3
<1> QED BY <1>2, <1>3

LEMMA SumWithOneMore ==
  ASSUME NEW f, NEW some, IsFiniteSet(some), NEW b, b \notin some,
         \A x \in some \cup {b} : f[x] \in Int
  PROVE  SumFunctionOnSet(f, some \cup {b}) = f[b] + SumFunctionOnSet(f, some)
<1> DEFINE s == some \cup {b}
<1>1. b \in s /\ s \ {b} = some /\ \A x \in s : f[x] \in Int
  OBVIOUS
<1>2. IsFiniteSet(s)
  BY FS_AddElement
<1> HIDE DEF s
<1>3. SumFunctionOnSet(f, s) = f[b] + SumFunctionOnSet(f, s \ {b})
  BY <1>1, <1>2, SumLess
<1> QED BY <1>1, <1>3 DEF s

\* Some of the blocks hold no more than all, and less when one is missing.
LEMMA SumOfSome ==
  ASSUME NEW chain \in Seq(Nat \ {0}), NEW some \in SUBSET (1 .. Len(chain))
  PROVE  /\ SumFunctionOnSet(chain, some) \in Nat
         /\ SumFunctionOnSet(chain, some) <= SumTo(chain, Len(chain))
         /\ \A h \in 1 .. Len(chain) :
              h \notin some => SumFunctionOnSet(chain, some) < SumTo(chain, Len(chain))
<1> DEFINE all == 1 .. Len(chain)
<1>1. IsFiniteSet(all) /\ \A i \in all : chain[i] \in Nat \ {0}
  BY FS_Interval
<1>2. ASSUME NEW part \in SUBSET all
      PROVE  /\ IsFiniteSet(part) /\ SumFunctionOnSet(chain, part) \in Nat
             /\ SumFunctionOnSet(chain, part) <= SumFunctionOnSet(chain, all)
  <2> HIDE DEF all
  <2>1. IsFiniteSet(part)
    BY <1>1, FS_Subset
  <2>2. \A i \in all : chain[i] \in Nat
    BY <1>1
  <2> QED BY <1>1, <2>1, <2>2, SumIsNat, SumGrows
<1>3. SumTo(chain, Len(chain)) = SumFunctionOnSet(chain, all)
  BY DEF SumTo
<1>4. ASSUME NEW h \in all, h \notin some
      PROVE  SumFunctionOnSet(chain, some) < SumFunctionOnSet(chain, all)
  <2> DEFINE more == some \cup {h}
  <2>1. SumFunctionOnSet(chain, more) = chain[h] + SumFunctionOnSet(chain, some)
    <3>1. \A x \in more : chain[x] \in Int
      BY <1>1
    <3>2. IsFiniteSet(some)
      BY <1>2
    <3> QED BY <1>4, <3>1, <3>2, SumWithOneMore
  <2>2. more \in SUBSET all
    OBVIOUS
  <2>3. chain[h] \in Nat /\ chain[h] > 0
    BY <1>1
  <2> HIDE DEF more
  <2>4. /\ SumFunctionOnSet(chain, more) <= SumFunctionOnSet(chain, all)
        /\ SumFunctionOnSet(chain, more) \in Nat /\ SumFunctionOnSet(chain, all) \in Nat
        /\ SumFunctionOnSet(chain, some) \in Nat
    BY <1>2, <2>2
  <2> QED BY <2>1, <2>3, <2>4
<1> QED BY <1>2, <1>3, <1>4

LEMMA SumsOfLonger ==
  ASSUME NEW chain \in Seq(Nat \ {0}), NEW size \in Nat \ {0}
  PROVE  LET longer == Append(chain, size) IN
         /\ \A some \in SUBSET (1 .. Len(chain)) :
              SumFunctionOnSet(longer, some) = SumFunctionOnSet(chain, some)
         /\ \A h \in 0 .. Len(chain) : SumTo(longer, h) = SumTo(chain, h)
         /\ SumTo(longer, Len(longer)) = size + SumTo(chain, Len(chain))
<1> DEFINE longer == Append(chain, size)
           n == Len(chain)
<1>1. longer \in Seq(Nat \ {0}) /\ Len(longer) = n + 1 /\ n \in Nat /\ longer[n + 1] = size
      /\ \A i \in 1 .. n : longer[i] = chain[i]
  OBVIOUS
<1>2. ASSUME NEW some \in SUBSET (1 .. n)
      PROVE  SumFunctionOnSet(longer, some) = SumFunctionOnSet(chain, some)
  <2>1. IsFiniteSet(some)
    <3>1. IsFiniteSet(1 .. n)
      BY <1>1, FS_Interval
    <3> QED BY <3>1, FS_Subset
  <2>2. \A i \in some : longer[i] = chain[i]
    BY <1>1
  <2> HIDE DEF longer
  <2> QED BY <2>1, <2>2, SumsAgree
<1>3. ASSUME NEW h \in 0 .. n PROVE SumTo(longer, h) = SumTo(chain, h)
  <2>1. 1 .. h \in SUBSET (1 .. n)
    BY <1>1
  <2> QED BY <1>2, <2>1 DEF SumTo
<1>4. SumTo(longer, n + 1) = size + SumTo(chain, n)
  <2>1. PICK h \in Nat : h = n + 1 /\ h <= Len(longer) /\ h # 0 /\ h - 1 = n /\ longer[h] = size
    BY <1>1
  <2>2. longer \in Seq(Nat \ {0}) /\ SumTo(longer, n) = SumTo(chain, n)
    BY <1>1, <1>3
  <2> HIDE DEF longer, n
  <2>3. SumTo(longer, h) = longer[h] + SumTo(longer, h - 1)
    BY <2>1, <2>2, SumToIs
  <2> QED BY <2>1, <2>2, <2>3
<1> QED BY <1>1, <1>2, <1>3, <1>4

-----------------------------------------------------------------------------
(* What the parts of the invariant say of each other. *)
\* What the types say of each variable.
LEMMA BenchTypesSay ==
  ASSUME BenchTypes
  PROVE  /\ mode = "cluster" \/ mode = "in process"
         /\ blocks \in Seq(Nat \ {0}) /\ Len(blocks) \in Nat
         /\ \A i \in 1 .. Len(blocks) : blocks[i] \in Nat
         /\ at \in [Node -> Nat] /\ \A v \in Node : at[v] \in Nat
         /\ mempool \in [Node -> SUBSET Nat] /\ \A v \in Node : \A t \in mempool[v] : t \in Nat
         /\ next \in Nat
         /\ reported \in [Node -> Nat] /\ \A v \in Node : reported[v] \in Nat
         /\ reading \in [Node -> SUBSET Nat] /\ \A v \in Node : \A h \in reading[v] : h \in Nat
<1>1. mode = "cluster" \/ mode = "in process"
  BY DEF BenchTypes, ChainTypes, SubmitTypes, ReportTypes
<1>2. blocks \in Seq(Nat \ {0})
  BY DEF BenchTypes, ChainTypes, SubmitTypes, ReportTypes
<1>3. at \in [Node -> Nat] /\ mempool \in [Node -> SUBSET Nat]
  BY DEF BenchTypes, ChainTypes, SubmitTypes, ReportTypes
<1>4. reported \in [Node -> Nat] /\ reading \in [Node -> SUBSET Nat] /\ next \in Nat
  BY DEF BenchTypes, ChainTypes, SubmitTypes, ReportTypes
<1>5. Len(blocks) \in Nat /\ \A i \in 1 .. Len(blocks) : blocks[i] \in Nat
  BY <1>2
<1>6. \A v \in Node : at[v] \in Nat /\ \A t \in mempool[v] : t \in Nat
  BY <1>3
<1>7. \A v \in Node : reported[v] \in Nat /\ \A h \in reading[v] : h \in Nat
  BY <1>4
<1> QED BY <1>1, <1>2, <1>3, <1>4, <1>5, <1>6, <1>7, Zenon

LEMMA CountsSay ==
  ASSUME BenchTypes
  PROVE  /\ committed.count \in Nat /\ committed.height \in Nat /\ committed.head \in Nat
         /\ \A k \in committed.known : k[1] \in Nat /\ k[2] \in Nat /\ k = <<k[1], k[2]>>
<1>1. committed \in Counts
  BY DEF BenchTypes, ChainTypes, SubmitTypes, ReportTypes
<1> QED BY <1>1 DEF Counts

LEMMA MessagesSay ==
  ASSUME BenchTypes, NEW v \in Node, NEW i \in DOMAIN outbox[v]
  PROVE  /\ outbox[v] \in Seq(BenchBlock \cup BenchStatus)
         /\ outbox[v][i] \in BenchBlock \cup BenchStatus /\ outbox[v][i].head \in Nat
         /\ \/ /\ outbox[v][i] \in BenchBlock /\ outbox[v][i].kind = "block"
               /\ outbox[v][i].height \in Nat /\ outbox[v][i].block \in Nat
            \/ outbox[v][i] \in BenchStatus /\ outbox[v][i].kind = "status"
<1> DEFINE M == BenchBlock \cup BenchStatus
<1>1. outbox \in [Node -> Seq(M)]
  BY DEF BenchTypes, ChainTypes, SubmitTypes, ReportTypes
<1> HIDE DEF M
<1>2. outbox[v] \in Seq(M)
  BY <1>1
<1>3. outbox[v][i] \in M
  BY <1>2
<1> QED BY <1>2, <1>3 DEF M, BenchBlock, BenchStatus

LEMMA ControlSays ==
  ASSUME BenchTypes
  PROVE  /\ In("submit") \/ In("count") \/ In("converge") =>
              control.until \in 0 .. Txs /\ control.until \in Nat
         /\ In("converge") => /\ control.statuses \in SUBSET NodeStatus
                              /\ \A s \in control.statuses : s.node \in Node /\ s.head \in Nat
                              /\ control.target.height \in Nat /\ control.target.head \in Nat
<1>1. Txs \in Nat
  BY BenchAssumption
<1>2. ASSUME In("submit") \/ In("count") PROVE control.until \in 0 .. Txs
  <2>1. control \in SubmitPhase
    BY <1>2 DEF BenchTypes, ControlTypes
  <2> QED BY <2>1 DEF SubmitPhase
<1>3. ASSUME In("converge")
      PROVE  /\ control.until \in 0 .. Txs /\ control.statuses \in SUBSET NodeStatus
             /\ control.target.height \in Nat /\ control.target.head \in Nat
  <2>1. control \in Convergence
    BY <1>3 DEF BenchTypes, ControlTypes
  <2> QED BY <2>1 DEF Convergence
<1>4. \A s \in NodeStatus : s.node \in Node /\ s.head \in Nat
  BY DEF NodeStatus
<1> QED BY <1>1, <1>2, <1>3, <1>4

\* What the chain and the reports say of each other.
LEMMA NoncesAre ==
  ASSUME BenchTypes
  PROVE  /\ Total \in Nat /\ Total = SumTo(blocks, Len(blocks)) /\ NonceAt(0) = 0
         /\ \A h \in Nat : h <= Len(blocks) =>
              /\ NonceAt(h) \in Nat /\ NonceAt(h) = SumTo(blocks, h)
              /\ NonceAt(h) <= Total /\ (h < Len(blocks) => NonceAt(h) < Total)
         /\ \A h \in Nat : h + 1 <= Len(blocks) =>
              /\ blocks[h + 1] \in Nat \ {0} /\ NonceAt(h + 1) = NonceAt(h) + blocks[h + 1]
<1>1. blocks \in Seq(Nat \ {0}) /\ Len(blocks) \in Nat
  BY BenchTypesSay
<1>2. ASSUME NEW h \in Nat, h <= Len(blocks)
      PROVE  /\ NonceAt(h) \in Nat /\ NonceAt(h) = SumTo(blocks, h)
             /\ SumTo(blocks, h) <= SumTo(blocks, Len(blocks))
             /\ (h < Len(blocks) => SumTo(blocks, h) < SumTo(blocks, Len(blocks)))
  <2>1. NonceAt(h) = SumTo(blocks, h)
    BY <1>1, <1>2, NonceIsSum
  <2>2. SumTo(blocks, h) \in Nat
    BY <1>1, <1>2, SumToIs
  <2> QED BY <1>1, <1>2, <2>1, <2>2, SumToGrows
<1>3. Total = SumTo(blocks, Len(blocks)) /\ Total \in Nat
  BY <1>1, <1>2 DEF Total
<1>4. NonceAt(0) = 0
  BY <1>1, <1>2, SumToIs
<1>5. ASSUME NEW h \in Nat, h + 1 <= Len(blocks)
      PROVE  blocks[h + 1] \in Nat \ {0} /\ NonceAt(h + 1) = NonceAt(h) + blocks[h + 1]
  <2>1. PICK k \in Nat : k = h + 1 /\ k <= Len(blocks) /\ k # 0 /\ k - 1 = h /\ h <= Len(blocks)
    BY <1>1, <1>5
  <2>2. blocks[k] \in Nat \ {0}
    BY <1>1, <2>1
  <2>3. SumTo(blocks, k) = blocks[k] + SumTo(blocks, k - 1)
    BY <1>1, <2>1, SumToIs
  <2>4. NonceAt(k) = SumTo(blocks, k) /\ NonceAt(h) = SumTo(blocks, h) /\ SumTo(blocks, h) \in Nat
    BY <1>2, <2>1
  <2> QED BY <2>1, <2>2, <2>3, <2>4
<1> QED BY <1>2, <1>3, <1>4, <1>5

LEMMA HeightsAre ==
  ASSUME BenchTypes, PendingInv, ReportInv, ByTheirHeight
  PROVE  /\ Heights \in SUBSET (1 .. Len(blocks))
         /\ \A h \in Heights : \E v \in Node : h <= at[v]
<1> SUFFICES ASSUME NEW k \in committed.known
             PROVE  k[1] \in 1 .. Len(blocks) /\ \E v \in Node : k[1] <= at[v]
  BY DEF Heights
<1>1. PICK v \in Node : 1 <= k[2] /\ k[2] <= at[v]
  BY DEF ReportInv
<1>2. k[1] = k[2] /\ at[v] \in Nat /\ at[v] <= Len(blocks) /\ Len(blocks) \in Nat
  BY BenchTypesSay DEF ByTheirHeight, PendingInv
<1>3. k[1] \in Nat
  BY CountsSay
<1> QED BY <1>1, <1>2, <1>3

\* What is counted is on the chain, and when all of it is counted, all blocks
\* are known, and some node stands at the head.
LEMMA CountIsOnChain ==
  ASSUME BenchTypes, PendingInv, ReportInv, CountInv, ByTheirHeight
  PROVE  /\ committed.count \in Nat /\ committed.count <= Total /\ Total <= Txs /\ Total \in Nat
         /\ Txs <= committed.count =>
              /\ Total = Txs
              /\ mode = "cluster" => /\ 1 .. Len(blocks) \subseteq Heights
                                     /\ \E v \in Node : at[v] = Len(blocks)
              /\ mode = "in process" => at[0] = Len(blocks) /\ committed.height = Len(blocks)
<1>1. /\ blocks \in Seq(Nat \ {0}) /\ Len(blocks) \in Nat
      /\ committed.count \in Nat /\ committed.height \in Nat
      /\ \A v \in Node : at[v] \in Nat /\ at[v] <= Len(blocks)
  BY BenchTypesSay, CountsSay DEF PendingInv
<1>2. Total \in Nat /\ Total = SumTo(blocks, Len(blocks)) /\ Total <= Txs /\ Txs \in Nat
  <2>1. Total \in Nat /\ Total = SumTo(blocks, Len(blocks))
    BY NoncesAre
  <2>2. Total <= next /\ next <= Txs
    BY DEF PendingInv
  <2>3. next \in Nat /\ Txs \in Nat
    BY BenchTypesSay, BenchAssumption
  <2> QED BY <2>1, <2>2, <2>3
<1>3. 0 \in Node
  BY BenchAssumption DEF Node
<1>4. CASE mode = "cluster"
  <2>1. committed.count = SumFunctionOnSet(blocks, Heights)
    BY <1>4 DEF CountInv
  <2>2. Heights \in SUBSET (1 .. Len(blocks))
    BY HeightsAre
  <2>3. /\ SumFunctionOnSet(blocks, Heights) <= SumTo(blocks, Len(blocks))
        /\ \A h \in 1 .. Len(blocks) :
             h \notin Heights => SumFunctionOnSet(blocks, Heights) < SumTo(blocks, Len(blocks))
    BY <1>1, <2>2, SumOfSome
  <2>4. ASSUME Txs <= committed.count
        PROVE  /\ Total = Txs /\ 1 .. Len(blocks) \subseteq Heights
               /\ \E v \in Node : at[v] = Len(blocks)
    <3>1. Total = Txs
      BY <1>1, <1>2, <2>1, <2>3, <2>4
    <3>2. ASSUME NEW h \in 1 .. Len(blocks), h \notin Heights PROVE FALSE
      <4>1. SumFunctionOnSet(blocks, Heights) < SumTo(blocks, Len(blocks))
        BY <2>3, <3>2
      <4> QED BY <1>1, <1>2, <2>1, <2>4, <3>1, <4>1
    <3>3. \E v \in Node : at[v] = Len(blocks)
      <4>1. CASE Len(blocks) = 0
        BY <1>1, <1>3, <4>1
      <4>2. CASE Len(blocks) # 0
        <5>1. Len(blocks) \in Heights
          BY <1>1, <3>2, <4>2
        <5>2. PICK v \in Node : Len(blocks) <= at[v]
          BY <5>1, HeightsAre
        <5> QED BY <1>1, <5>2
      <4> QED BY <4>1, <4>2
    <3> QED BY <3>1, <3>2, <3>3
  <2> QED BY <1>1, <1>2, <1>4, <2>1, <2>3, <2>4
<1>5. CASE mode = "in process"
  <2>1. committed.count = SumTo(blocks, committed.height) /\ committed.height <= at[0]
    BY <1>5 DEF CountInv
  <2>2. committed.height <= Len(blocks) /\ at[0] <= Len(blocks) /\ at[0] \in Nat
    BY <1>1, <1>3, <2>1
  <2>3. /\ SumTo(blocks, committed.height) <= Total
        /\ (committed.height < Len(blocks) => SumTo(blocks, committed.height) < Total)
    BY <1>1, <2>2, NoncesAre
  <2>4. ASSUME Txs <= committed.count
        PROVE  Total = Txs /\ at[0] = Len(blocks) /\ committed.height = Len(blocks)
    BY <1>1, <1>2, <2>1, <2>2, <2>3, <2>4
  <2> QED BY <1>1, <1>2, <1>5, <2>1, <2>3, <2>4
<1> QED BY <1>4, <1>5, BenchTypesSay

\* A proposer at the head takes no more than was submitted.
LEMMA TakesSubmitted ==
  ASSUME BenchTypes, PendingInv, NEW v \in Node, at[v] = Len(blocks)
  PROVE  Ready(v) \in Nat /\ Total + Ready(v) <= next
<1> DEFINE a == Account(v)
           S == {t \in mempool[v] : a .. t \subseteq mempool[v]}
<1>1. a = Total /\ a \in Nat /\ next \in Nat /\ a <= next
  <2>1. Account(v) = Total
    BY DEF Account, Total
  <2> QED BY <2>1, NoncesAre, BenchTypesSay DEF PendingInv
<1>2. S \in SUBSET (a .. next - 1)
  <2>1. \A t \in mempool[v] : t \in Nat /\ a <= t /\ t < next
    BY BenchTypesSay DEF PendingInv, Account
  <2> HIDE DEF a
  <2> QED BY <1>1, <2>1
<1> HIDE DEF a
<1>3. IsFiniteSet(a .. next - 1) /\ Cardinality(a .. next - 1) = next - a
  <2>1. next - 1 \in Int /\ a \in Int
    BY <1>1
  <2>2. /\ IsFiniteSet(a .. next - 1)
        /\ Cardinality(a .. next - 1) = IF a > next - 1 THEN 0 ELSE next - 1 - a + 1
    BY <2>1, FS_Interval
  <2> QED BY <1>1, <2>2
<1> HIDE DEF S
<1>4. Cardinality(S) \in Nat /\ Cardinality(S) <= next - a
  <2>1. IsFiniteSet(S) /\ Cardinality(S) <= Cardinality(a .. next - 1)
    BY <1>2, <1>3, FS_Subset
  <2> QED BY <1>3, <2>1, FS_CardinalityType
<1>5. Ready(v) = Cardinality(S)
  BY DEF Ready, S, a
<1> QED BY <1>1, <1>4, <1>5

\* What is under way.
LEMMA SubmittingSays ==
  ASSUME BenchTypes
  PROVE  /\ \A copy \in ingest : copy.tx \in Nat /\ copy.to \in Node
         /\ \A s \in Submitters : submitter[s] # NoWork =>
              /\ submitter[s].tx \in Nat /\ submitter[s].target \in Node
              /\ submitter[s].attempt \in Nat /\ submitter[s].doing = "submit"
         /\ \A s \in Submitters : submitter[s].doing = "submit" => submitter[s] # NoWork
<1>1. ingest \in SUBSET [tx : Nat, to : Node] /\ submitter \in [Submitters -> Job \cup {NoWork}]
  BY DEF BenchTypes, SubmitTypes
<1>2. \A copy \in ingest : copy.tx \in Nat /\ copy.to \in Node
  BY <1>1
<1>3. ASSUME NEW s \in Submitters, submitter[s] # NoWork
      PROVE  /\ submitter[s].tx \in Nat /\ submitter[s].target \in Node
             /\ submitter[s].attempt \in Nat /\ submitter[s].doing = "submit"
  <2>1. submitter[s] \in Job
    BY <1>1, <1>3
  <2> QED BY <2>1 DEF Job
<1>4. ASSUME NEW s \in Submitters, submitter[s].doing = "submit" PROVE submitter[s] # NoWork
  BY <1>4 DEF NoWork
<1> QED BY <1>2, <1>3, <1>4

LEMMA ProposedAre ==
  ASSUME BenchTypes, PendingInv, NEW v \in Node, ProposeBlock(v)
  PROVE  \E size \in Nat \ {0} :
           /\ blocks' = Append(blocks, size) /\ blocks' \in Seq(Nat \ {0})
           /\ Len(blocks') = Len(blocks) + 1
           /\ at[v] = Len(blocks) /\ Total + size <= next /\ Total' = Total + size
<1> DEFINE size == IF Ready(v) < MaxBlock THEN Ready(v) ELSE MaxBlock
<1>1. at[v] = Len(blocks) /\ Ready(v) > 0 /\ blocks' = Append(blocks, size)
  BY DEF ProposeBlock
<1>2. Ready(v) \in Nat /\ Total + Ready(v) <= next
  BY <1>1, TakesSubmitted
<1>3. size \in Nat \ {0} /\ size <= Ready(v)
  BY <1>1, <1>2, BenchAssumption
<1>4. blocks \in Seq(Nat \ {0}) /\ Len(blocks) \in Nat
  BY BenchTypesSay
<1> HIDE DEF size
<1>5. blocks' \in Seq(Nat \ {0}) /\ Len(blocks') = Len(blocks) + 1
  BY <1>1, <1>3, <1>4
<1>6. Total = SumTo(blocks, Len(blocks)) /\ Total \in Nat /\ next \in Nat
  BY NoncesAre, BenchTypesSay
<1>7. Total' = SumTo(blocks', Len(blocks'))
  <2>2. Len(blocks') \in Nat /\ Len(blocks') <= Len(blocks')
    BY <1>4, <1>5
  <2>3. Total' = SumTo(blocks', Len(blocks'))
    BY <1>5, NonceIsSum, <2>2 DEF Total
  <2> QED BY <2>3
<1>8. SumTo(blocks', Len(blocks')) = size + SumTo(blocks, Len(blocks))
  BY <1>1, <1>3, <1>4, SumsOfLonger
<1>9. Total' = Total + size /\ Total + size <= next
  BY <1>2, <1>3, <1>6, <1>7, <1>8
<1> QED BY <1>1, <1>3, <1>5, <1>9

-----------------------------------------------------------------------------
(* What waits and is under way: PendingInv. *)
LEMMA NoncesStay ==
  ASSUME BenchTypes, blocks' = blocks
  PROVE  Total' = Total /\ \A h \in Nat : h <= Len(blocks) => NonceAt(h)' = NonceAt(h)
<1>1. blocks \in Seq(Nat \ {0}) /\ Len(blocks) \in Nat
  BY BenchTypesSay
<1>2. ASSUME NEW h \in Nat, h <= Len(blocks) PROVE NonceAt(h)' = NonceAt(h)
  BY <1>1, <1>2, NonceIsSum
<1>3. Total' = SumTo(blocks', Len(blocks')) /\ Total = SumTo(blocks, Len(blocks))
  BY <1>1, NonceIsSum DEF Total
<1> QED BY <1>2, <1>3

LEMMA AccountIs ==
  ASSUME NEW v \in Node, blocks' \in Seq(Nat \ {0}), at'[v] \in Nat, at'[v] <= Len(blocks')
  PROVE  Account(v)' = SumTo(blocks', at'[v])
BY NonceIsSum DEF Account

\* A copy that is admitted was submitted, and is not applied yet.
LEMMA AdmitsPending ==
  ASSUME BenchTypes, PendingInv, blocks' = blocks, at' = at, next' = next,
         NEW v \in Node, NEW tx \in Nat, tx < next, Admit(v, tx)
  PROVE  \A w \in Node : at[w] <= Len(blocks) /\ \A t \in mempool'[w] : Account(w)' <= t /\ t < next
<1> SUFFICES ASSUME NEW w \in Node
             PROVE  at[w] <= Len(blocks) /\ \A t \in mempool'[w] : Account(w)' <= t /\ t < next
  OBVIOUS
<1>1. Account(w)' = Account(w)
  <2>1. at[w] \in Nat /\ at[w] <= Len(blocks) /\ blocks \in Seq(Nat \ {0})
    BY BenchTypesSay DEF PendingInv
  <2>2. Account(w) = SumTo(blocks, at[w])
    BY <2>1, NonceIsSum DEF Account
  <2> QED BY <2>1, <2>2, AccountIs
<1>2. at[w] <= Len(blocks) /\ \A t \in mempool[w] : Account(w) <= t /\ t < next
  BY DEF PendingInv
<1>3. \A t \in mempool'[w] : t \in mempool[w] \/ (t = tx /\ w = v /\ tx >= Account(v))
  BY BenchTypesSay DEF Admit
<1>4. Account(v) \in Nat
  BY NoncesAre, BenchTypesSay DEF Account, PendingInv
<1> QED BY <1>1, <1>2, <1>3, <1>4

LEMMA ProposingKeepsPending ==
  ASSUME BenchTypes, PendingInv, NEW v \in Node, ProposeBlock(v) PROVE PendingInv'
<1>1. PICK size \in Nat \ {0} :
           /\ blocks' = Append(blocks, size) /\ blocks' \in Seq(Nat \ {0})
           /\ Len(blocks') = Len(blocks) + 1
           /\ at[v] = Len(blocks) /\ Total + size <= next /\ Total' = Total + size
  BY ProposedAre
<1>2. UNCHANGED <<at, mempool, ingest, submitter, next>>
  BY DEF ProposeBlock
<1>3. blocks \in Seq(Nat \ {0}) /\ Len(blocks) \in Nat /\ Total \in Nat /\ next \in Nat
  BY BenchTypesSay, NoncesAre
<1>4. ASSUME NEW w \in Node
      PROVE  at'[w] <= Len(blocks') /\ \A t \in mempool'[w] : Account(w)' <= t /\ t < next'
  <2>1. at[w] \in Nat /\ at[w] <= Len(blocks) /\ \A t \in mempool[w] : Account(w) <= t /\ t < next
    BY BenchTypesSay DEF PendingInv
  <2>2. NonceAt(at[w]) = SumTo(blocks, at[w])
    BY <2>1, NoncesAre
  <2>3. NonceAt(at[w])' = SumTo(blocks', at[w])
    BY <1>1, <1>2, <1>3, <2>1, NonceIsSum
  <2>4. SumTo(blocks', at[w]) = SumTo(blocks, at[w])
    BY <1>1, <1>3, <2>1, SumsOfLonger
  <2> QED BY <1>1, <1>2, <1>3, <2>1, <2>2, <2>3, <2>4 DEF Account
<1>5. \A copy \in ingest' : copy.tx < next'
  BY <1>2 DEF PendingInv
<1>6. \A s \in Submitters : submitter'[s] # NoWork => submitter'[s].tx < next'
  BY <1>2 DEF PendingInv
<1>7. Total' <= next' /\ next' <= Txs
  BY <1>1, <1>2, <1>3 DEF PendingInv
<1> QED BY <1>4, <1>5, <1>6, <1>7 DEF PendingInv

LEMMA CommittingKeepsPending ==
  ASSUME BenchTypes, PendingInv, NEW v \in Node, CommitsBlock(v) PROVE PendingInv'
<1>1. /\ at[v] < Len(blocks) /\ at' = [at EXCEPT ![v] = @ + 1]
      /\ mempool' = [mempool EXCEPT ![v] = {t \in @ : t >= NonceAt(at[v] + 1)}]
      /\ UNCHANGED <<blocks, ingest, submitter, next>>
  BY DEF CommitsBlock
<1>2. at \in [Node -> Nat] /\ mempool \in [Node -> SUBSET Nat] /\ Len(blocks) \in Nat
  BY BenchTypesSay
<1>3. ASSUME NEW w \in Node
      PROVE  at'[w] <= Len(blocks') /\ \A t \in mempool'[w] : Account(w)' <= t /\ t < next'
  <2>1. at[w] <= Len(blocks) /\ \A t \in mempool[w] : Account(w) <= t /\ t < next
    BY DEF PendingInv
  <2>2. Account(w) = SumTo(blocks, at[w]) /\ blocks \in Seq(Nat \ {0}) /\ at[w] \in Nat
    BY <2>1, BenchTypesSay, NonceIsSum DEF Account
  <2>3. CASE w = v
    <3>1. at'[w] = at[v] + 1 /\ mempool'[w] = {t \in mempool[v] : t >= NonceAt(at[v] + 1)}
      BY <1>1, <1>2, <2>3
    <3>2. at[v] \in Nat /\ at[v] + 1 <= Len(blocks) /\ at[v] + 1 \in Nat
      BY <1>1, <1>2
    <3>3. NonceAt(at[v] + 1) \in Nat /\ \A t \in mempool[v] : t \in Nat
      BY BenchTypesSay, <3>2, NoncesAre
    <3>4. Account(w)' = SumTo(blocks, at[v] + 1) /\ NonceAt(at[v] + 1) = SumTo(blocks, at[v] + 1)
      BY <1>1, <2>2, <3>1, <3>2, AccountIs, NoncesAre
    <3> QED BY <1>1, <2>1, <2>3, <3>1, <3>2, <3>3, <3>4
  <2>4. CASE w # v
    <3>1. at'[w] = at[w] /\ mempool'[w] = mempool[w]
      BY <1>1, <1>2, <2>4
    <3>2. Account(w)' = Account(w)
      BY <1>1, <2>1, <2>2, <3>1, AccountIs
    <3> QED BY <1>1, <2>1, <3>1, <3>2
  <2> QED BY <2>3, <2>4
<1>4. /\ \A copy \in ingest' : copy.tx < next'
      /\ \A s \in Submitters : submitter'[s] # NoWork => submitter'[s].tx < next'
      /\ next' <= Txs
  BY <1>1 DEF PendingInv
<1>5. Total' <= next'
  BY <1>1, NoncesStay DEF PendingInv
<1> QED BY <1>3, <1>4, <1>5 DEF PendingInv

\* The other steps leave the chain alone; what they submit or pass on was taken.
LEMMA SubmittingKeepsPending ==
  ASSUME BenchTypes, PendingInv, blocks' = blocks, at' = at,
         next' \in Nat, next <= next', next' <= Txs,
         \A w \in Node : \A t \in mempool'[w] : Account(w)' <= t /\ t < next',
         \A copy \in ingest' : copy.tx < next',
         \A s \in Submitters : submitter'[s] # NoWork => submitter'[s].tx < next'
  PROVE  PendingInv'
<1>1. \A w \in Node : at'[w] <= Len(blocks')
  BY DEF PendingInv
<1>2. Total' <= next'
  <2>1. Total' = Total
    BY NoncesStay
  <2>2. Total \in Nat /\ Total <= next /\ next \in Nat
    BY NoncesAre, BenchTypesSay DEF PendingInv
  <2> QED BY <2>1, <2>2
<1> QED BY <1>1, <1>2 DEF PendingInv

LEMMA NextStays ==
  ASSUME BenchTypes, PendingInv, next' = next
  PROVE  next' \in Nat /\ next <= next' /\ next' <= Txs
<1>1. next \in Nat
  BY BenchTypesSay
<1>2. next <= Txs
  BY DEF PendingInv
<1> QED BY <1>1, <1>2

LEMMA TakingKeepsPending ==
  ASSUME BenchTypes, PendingInv, NEW s \in Submitters, NEW v \in Node, TakeIndex(s, v)
  PROVE  SubmitTypes' /\ PendingInv'
<1> DEFINE job == [doing |-> "submit", tx |-> next, target |-> v, attempt |-> 1]
<1>1. /\ submitter' = [submitter EXCEPT ![s] = job] /\ next' = next + 1
      /\ In("submit") /\ next < control.until /\ UNCHANGED <<blocks, at, mempool, ingest>>
  BY DEF TakeIndex, chainVars
<1>2. next \in Nat /\ job \in Job /\ job.tx = next
  BY BenchTypesSay DEF Job
<1> HIDE DEF job
<1>3. next' \in Nat /\ next <= next' /\ next' <= Txs
  <2>1. control.until \in 0 .. Txs /\ Txs \in Nat
    BY <1>1, ControlSays, BenchAssumption
  <2> QED BY <1>1, <1>2, <2>1
<1>4. submitter \in [Submitters -> Job \cup {NoWork}] /\ ingest \in SUBSET [tx : Nat, to : Node]
  BY DEF BenchTypes, SubmitTypes
<1>5. submitter' \in [Submitters -> Job \cup {NoWork}]
  BY <1>1, <1>2, <1>4
<1>6. SubmitTypes'
  BY <1>1, <1>3, <1>4, <1>5 DEF SubmitTypes
<1>7. \A w \in Node : \A t \in mempool'[w] : Account(w)' <= t /\ t < next'
  <2> SUFFICES ASSUME NEW w \in Node, NEW t \in mempool'[w] PROVE Account(w)' <= t /\ t < next'
    OBVIOUS
  <2>1. t \in Nat /\ Account(w) <= t /\ t < next /\ at[w] \in Nat /\ at[w] <= Len(blocks)
        /\ blocks \in Seq(Nat \ {0})
    BY <1>1, BenchTypesSay DEF PendingInv
  <2>2. Account(w)' = SumTo(blocks, at[w]) /\ Account(w) = SumTo(blocks, at[w])
    BY <1>1, <2>1, AccountIs, NonceIsSum DEF Account
  <2> QED BY <1>1, <1>2, <2>1, <2>2
<1>8. \A copy \in ingest' : copy.tx < next'
  BY <1>1, <1>2, SubmittingSays DEF PendingInv
<1>9. \A r \in Submitters : submitter'[r] # NoWork => submitter'[r].tx < next'
  <2> SUFFICES ASSUME NEW r \in Submitters, submitter'[r] # NoWork PROVE submitter'[r].tx < next'
    OBVIOUS
  <2>1. CASE r = s
    BY <1>1, <1>2, <1>4, <2>1
  <2>2. CASE r # s
    <3>1. submitter'[r] = submitter[r]
      BY <1>1, <1>4, <2>2
    <3> QED BY <1>1, <1>2, <3>1, SubmittingSays DEF PendingInv
  <2> QED BY <2>1, <2>2
<1> QED BY <1>1, <1>3, <1>6, <1>7, <1>8, <1>9, SubmittingKeepsPending

LEMMA ArrivingKeepsPending ==
  ASSUME BenchTypes, PendingInv, NEW copy \in ingest, NEW isLost \in BOOLEAN,
         CopyArrives(copy, isLost)
  PROVE  SubmitTypes' /\ PendingInv' /\ mempool' \in [Node -> SUBSET Nat]
<1>1. /\ ingest' = ingest \ {copy} /\ UNCHANGED <<blocks, at, submitter, next>>
      /\ mempool' = mempool \/ Admit(copy.to, copy.tx)
  BY DEF CopyArrives
<1>2. copy.tx \in Nat /\ copy.to \in Node /\ copy.tx < next
  BY SubmittingSays DEF PendingInv
<1>3. SubmitTypes'
  <2>1. ingest \in SUBSET [tx : Nat, to : Node] /\ SubmitTypes
    BY DEF BenchTypes, SubmitTypes
  <2> QED BY <1>1, <2>1 DEF SubmitTypes
<1>4. mempool' \in [Node -> SUBSET Nat]
  <2>1. CASE mempool' = mempool
    BY <2>1, BenchTypesSay
  <2>2. CASE Admit(copy.to, copy.tx)
    BY <1>2, <2>2, BenchTypesSay DEF Admit
  <2> QED BY <1>1, <2>1, <2>2
<1>5. \A w \in Node : \A t \in mempool'[w] : Account(w)' <= t /\ t < next'
  <2>1. CASE mempool' = mempool
    <3> SUFFICES ASSUME NEW w \in Node, NEW t \in mempool'[w] PROVE Account(w)' <= t /\ t < next'
      OBVIOUS
    <3>1. Account(w) <= t /\ t < next /\ at[w] \in Nat /\ at[w] <= Len(blocks)
          /\ blocks \in Seq(Nat \ {0})
      BY <2>1, BenchTypesSay DEF PendingInv
    <3>2. Account(w)' = SumTo(blocks, at[w]) /\ Account(w) = SumTo(blocks, at[w])
      BY <1>1, <3>1, AccountIs, NonceIsSum DEF Account
    <3> QED BY <1>1, <3>1, <3>2
  <2>2. CASE Admit(copy.to, copy.tx)
    BY <1>1, <1>2, <2>2, AdmitsPending
  <2> QED BY <1>1, <2>1, <2>2
<1>6. next' \in Nat /\ next <= next' /\ next' <= Txs
  BY <1>1, NextStays
<1>7. \A c \in ingest' : c.tx < next'
  BY <1>1 DEF PendingInv
<1>8. \A s \in Submitters : submitter'[s] # NoWork => submitter'[s].tx < next'
  BY <1>1 DEF PendingInv
<1> QED BY <1>1, <1>3, <1>4, <1>5, <1>6, <1>7, <1>8, SubmittingKeepsPending

LEMMA AnswerKeepsPending ==
  ASSUME BenchTypes, PendingInv, NEW s \in Submitters, Submitted(s)
  PROVE  SubmitTypes' /\ PendingInv' /\ mempool' \in [Node -> SUBSET Nat]
<1> DEFINE job == submitter[s]
<1>1. /\ job.doing = "submit" /\ Admit(job.target, job.tx)
      /\ ingest' = ingest \/ ingest' = ingest \cup Copies(job.tx, job.target)
      /\ submitter' = [submitter EXCEPT ![s] = NoWork]
      /\ UNCHANGED <<blocks, at, next>>
  BY DEF Submitted
<1>2. job.tx \in Nat /\ job.target \in Node /\ job.tx < next
  BY <1>1, SubmittingSays DEF PendingInv
<1>3. ingest \in SUBSET [tx : Nat, to : Node] /\ submitter \in [Submitters -> Job \cup {NoWork}]
  BY DEF BenchTypes, SubmitTypes
<1>4. mempool' \in [Node -> SUBSET Nat]
  BY <1>1, <1>2, BenchTypesSay DEF Admit
<1>5. Copies(job.tx, job.target) \in SUBSET [tx : Nat, to : Node]
      /\ \A c \in Copies(job.tx, job.target) : c.tx < next
  BY <1>2 DEF Copies
<1> HIDE DEF job
<1>6. next' \in Nat /\ next <= next' /\ next' <= Txs
  BY <1>1, NextStays
<1>7. SubmitTypes'
  <2>1. ingest' \in SUBSET [tx : Nat, to : Node]
    BY <1>1, <1>3, <1>5
  <2>2. submitter' \in [Submitters -> Job \cup {NoWork}]
    BY <1>1, <1>3
  <2> QED BY <1>6, <2>1, <2>2 DEF SubmitTypes
<1>8. \A w \in Node : \A t \in mempool'[w] : Account(w)' <= t /\ t < next'
  BY <1>1, <1>2, AdmitsPending
<1>9. \A c \in ingest' : c.tx < next'
  BY <1>1, <1>5 DEF PendingInv
<1>10. \A r \in Submitters : submitter'[r] # NoWork => submitter'[r].tx < next'
  <2>1. \A r \in Submitters : submitter'[r] # NoWork => submitter'[r] = submitter[r]
    BY <1>1, <1>3
  <2> QED BY <1>1, <2>1 DEF PendingInv
<1> QED BY <1>1, <1>4, <1>6, <1>7, <1>8, <1>9, <1>10, SubmittingKeepsPending

\* The next attempt is for the same transaction, at the next node.
LEMMA RetriesAre ==
  ASSUME NEW job \in Job
  PROVE  LET retry == [job EXCEPT !.target = (@ + 1) % Processes, !.attempt = @ + 1]
         IN  retry \in Job /\ retry.tx = job.tx
<1>1. (job.target + 1) % Processes \in Node
  BY BenchAssumption DEF Job, Node
<1>2. job.attempt + 1 \in Nat
  BY DEF Job
<1> QED BY <1>1, <1>2 DEF Job

LEMMA FailingKeepsPending ==
  ASSUME BenchTypes, PendingInv, NEW s \in Submitters, NEW isUnderWay \in BOOLEAN,
         AttemptFails(s, isUnderWay)
  PROVE  SubmitTypes' /\ PendingInv'
<1> DEFINE job == submitter[s]
           retry == [job EXCEPT !.target = (@ + 1) % Processes, !.attempt = @ + 1]
           copy == [tx |-> job.tx, to |-> job.target]
<1>1. /\ job.doing = "submit" /\ UNCHANGED <<blocks, at, mempool, next>>
      /\ ingest' = ingest \/ ingest' = ingest \cup {copy}
  BY DEF AttemptFails, chainVars
<1>2. submitter' = [t \in Submitters |-> NoWork] \/ submitter' = [submitter EXCEPT ![s] = retry]
  BY DEF AttemptFails
<1>3. job.tx \in Nat /\ job.target \in Node /\ job.tx < next
  BY <1>1, SubmittingSays DEF PendingInv
<1>4. ingest \in SUBSET [tx : Nat, to : Node] /\ submitter \in [Submitters -> Job \cup {NoWork}]
  BY DEF BenchTypes, SubmitTypes
<1>5. retry \in Job /\ retry.tx = job.tx
  <2>1. job \in Job
    BY <1>1, <1>4, SubmittingSays
  <2> QED BY <2>1, RetriesAre
<1>6. copy \in [tx : Nat, to : Node] /\ copy.tx < next
  BY <1>3
<1> HIDE DEF retry, copy
<1>7. next' \in Nat /\ next <= next' /\ next' <= Txs
  BY <1>1, NextStays
<1>8. SubmitTypes'
  <2>1. ingest' \in SUBSET [tx : Nat, to : Node]
    BY <1>1, <1>4, <1>6
  <2>2. submitter' \in [Submitters -> Job \cup {NoWork}]
    BY <1>2, <1>4, <1>5
  <2> QED BY <1>7, <2>1, <2>2 DEF SubmitTypes
<1>9. \A w \in Node : \A t \in mempool'[w] : Account(w)' <= t /\ t < next'
  <2> SUFFICES ASSUME NEW w \in Node, NEW t \in mempool'[w] PROVE Account(w)' <= t /\ t < next'
    OBVIOUS
  <2>1. Account(w) <= t /\ t < next /\ at[w] \in Nat /\ at[w] <= Len(blocks)
        /\ blocks \in Seq(Nat \ {0})
    BY <1>1, BenchTypesSay DEF PendingInv
  <2>2. Account(w)' = SumTo(blocks, at[w]) /\ Account(w) = SumTo(blocks, at[w])
    BY <1>1, <2>1, AccountIs, NonceIsSum DEF Account
  <2> QED BY <1>1, <2>1, <2>2
<1>10. \A c \in ingest' : c.tx < next'
  BY <1>1, <1>6 DEF PendingInv
<1>11. \A r \in Submitters : submitter'[r] # NoWork => submitter'[r].tx < next'
  <2> SUFFICES ASSUME NEW r \in Submitters, submitter'[r] # NoWork PROVE submitter'[r].tx < next'
    OBVIOUS
  <2>1. CASE submitter' = [t \in Submitters |-> NoWork]
    BY <2>1
  <2>2. CASE submitter' = [submitter EXCEPT ![s] = retry]
    <3>1. CASE r = s
      BY <1>1, <1>3, <1>4, <1>5, <2>2, <3>1
    <3>2. CASE r # s
      <4>1. submitter'[r] = submitter[r]
        BY <1>4, <2>2, <3>2
      <4> QED BY <1>1, <4>1 DEF PendingInv
    <3> QED BY <3>1, <3>2
  <2> QED BY <1>2, <2>1, <2>2
<1> QED BY <1>1, <1>7, <1>8, <1>9, <1>10, <1>11, SubmittingKeepsPending

\* Reports and the controller leave what is pending alone.
LEMMA OthersKeepPending ==
  ASSUME BenchTypes, PendingInv, UNCHANGED <<blocks, at, mempool, ingest, submitter, next>>
  PROVE  PendingInv'
<1>1. \A w \in Node : \A t \in mempool'[w] : Account(w)' <= t /\ t < next'
  <2> SUFFICES ASSUME NEW w \in Node, NEW t \in mempool'[w] PROVE Account(w)' <= t /\ t < next'
    OBVIOUS
  <2>1. Account(w) <= t /\ t < next /\ at[w] \in Nat /\ at[w] <= Len(blocks)
        /\ blocks \in Seq(Nat \ {0})
    BY BenchTypesSay DEF PendingInv
  <2>2. Account(w)' = SumTo(blocks, at[w]) /\ Account(w) = SumTo(blocks, at[w])
    BY <2>1, AccountIs, NonceIsSum DEF Account
  <2> QED BY <2>1, <2>2
<1>2. next' \in Nat /\ next <= next' /\ next' <= Txs
  BY NextStays
<1>3. \A c \in ingest' : c.tx < next'
  BY DEF PendingInv
<1>4. \A s \in Submitters : submitter'[s] # NoWork => submitter'[s].tx < next'
  BY DEF PendingInv
<1> QED BY <1>1, <1>2, <1>3, <1>4, SubmittingKeepsPending

-----------------------------------------------------------------------------
(* Reports and the count: ReportInv and CountInv. *)
LEMMA OutboxAppended ==
  ASSUME BenchTypes, NEW v \in Node, NEW m \in BenchBlock \cup BenchStatus,
         outbox' = [outbox EXCEPT ![v] = Append(@, m)]
  PROVE  /\ outbox' \in [Node -> Seq(BenchBlock \cup BenchStatus)]
         /\ \A w \in Node : w # v => outbox'[w] = outbox[w]
         /\ \A i \in DOMAIN outbox'[v] :
              \/ i \in DOMAIN outbox[v] /\ outbox'[v][i] = outbox[v][i]
              \/ i = Len(outbox[v]) + 1 /\ i \notin DOMAIN outbox[v] /\ outbox'[v][i] = m
<1> DEFINE M == BenchBlock \cup BenchStatus
<1>1. outbox \in [Node -> Seq(M)] /\ m \in M
  BY DEF BenchTypes, ReportTypes
<1> HIDE DEF M
<1>2. outbox[v] \in Seq(M) /\ outbox'[v] = Append(outbox[v], m)
  BY <1>1
<1>3. outbox' \in [Node -> Seq(M)]
  <2>1. Append(outbox[v], m) \in Seq(M)
    BY <1>1, <1>2
  <2> QED BY <1>1, <2>1
<1>4. \A i \in DOMAIN outbox'[v] :
              \/ i \in DOMAIN outbox[v] /\ outbox'[v][i] = outbox[v][i]
              \/ i = Len(outbox[v]) + 1 /\ i \notin DOMAIN outbox[v] /\ outbox'[v][i] = m
  BY <1>2
<1>5. \A w \in Node : w # v => outbox'[w] = outbox[w]
  BY <1>1
<1> QED BY <1>3, <1>4, <1>5 DEF M

LEMMA OutboxTaken ==
  ASSUME BenchTypes, NEW v \in Node, outbox[v] # <<>>, outbox' = [outbox EXCEPT ![v] = Tail(@)]
  PROVE  /\ outbox' \in [Node -> Seq(BenchBlock \cup BenchStatus)]
         /\ 1 \in DOMAIN outbox[v] /\ Head(outbox[v]) = outbox[v][1]
         /\ \A w \in Node : w # v => outbox'[w] = outbox[w]
         /\ \A i \in DOMAIN outbox'[v] :
              i \in Nat \ {0} /\ i + 1 \in DOMAIN outbox[v] /\ outbox'[v][i] = outbox[v][i + 1]
<1> DEFINE M == BenchBlock \cup BenchStatus
<1>1. outbox \in [Node -> Seq(M)]
  BY DEF BenchTypes, ReportTypes
<1> HIDE DEF M
<1>2. outbox[v] \in Seq(M) /\ outbox'[v] = Tail(outbox[v])
  BY <1>1
<1>3. outbox' \in [Node -> Seq(M)]
  <2>1. Tail(outbox[v]) \in Seq(M)
    BY <1>2
  <2> QED BY <1>1, <2>1
<1>4. \A i \in DOMAIN outbox'[v] :
         i \in Nat \ {0} /\ i + 1 \in DOMAIN outbox[v] /\ outbox'[v][i] = outbox[v][i + 1]
  <2>1. PICK s \in Seq(M) : s = outbox[v] /\ s # <<>>
    BY <1>2
  <2>2. Tail(s) \in Seq(M) /\ Len(Tail(s)) = Len(s) - 1 /\ \A i \in 1 .. Len(Tail(s)) : Tail(s)[i] = s[i + 1]
    BY <2>1, HeadTailProperties
  <2>3. \A i \in 1 .. Len(Tail(s)) : i \in Nat \ {0} /\ i + 1 \in 1 .. Len(s)
    BY <2>1, <2>2
  <2>4. DOMAIN s = 1 .. Len(s) /\ DOMAIN Tail(s) = 1 .. Len(Tail(s))
    BY <2>1, <2>2
  <2>5. outbox'[v] = Tail(s)
    BY <1>2, <2>1
  <2> QED BY <2>1, <2>2, <2>3, <2>4, <2>5
<1>5. \A w \in Node : w # v => outbox'[w] = outbox[w]
  BY <1>1
<1>6. 1 \in DOMAIN outbox[v] /\ Head(outbox[v]) = outbox[v][1]
  BY <1>2
<1> QED BY <1>3, <1>4, <1>5, <1>6 DEF M

\* What a report at the head of an outbox does to the count.
LEMMA ReceivedIs ==
  ASSUME BenchTypes, PendingInv, ReportInv, NEW v \in Node, ReceiveBlock(v)
  PROVE  LET m == outbox[v][1] IN
         /\ m \in BenchBlock /\ m.block \in 1 .. Len(blocks) /\ m.block <= at[v] /\ m.height \in Nat
         /\ committed' \in Counts /\ committed.count <= committed'.count
         /\ \/ committed' = committed
            \/ /\ \A k \in committed.known : k[1] # m.height
               /\ committed'.count = committed.count + blocks[m.block]
               /\ committed'.known = committed.known \cup {<<m.height, m.block>>}
<1> DEFINE m == outbox[v][1]
<1>1. outbox[v] # <<>> /\ Head(outbox[v]).kind = "block"
      /\ outbox' = [outbox EXCEPT ![v] = Tail(@)] /\ committed' = Counted(Head(outbox[v]))
  BY DEF ReceiveBlock
<1>2. 1 \in DOMAIN outbox[v] /\ Head(outbox[v]) = m
  BY <1>1, OutboxTaken
<1>3. m \in BenchBlock /\ m.block \in Nat /\ m.height \in Nat /\ m.head \in Nat
  BY <1>1, <1>2, MessagesSay
<1>4. 1 <= m.block /\ m.block <= at[v] /\ at[v] \in Nat /\ at[v] <= Len(blocks)
      /\ Len(blocks) \in Nat
  BY <1>1, <1>2, BenchTypesSay DEF ReportInv, IsReported, PendingInv
<1>5. m.block \in 1 .. Len(blocks) /\ blocks[m.block] \in Nat
  <2>1. m.block \in 1 .. Len(blocks)
    BY <1>3, <1>4
  <2> QED BY <2>1, BenchTypesSay
<1>6. committed \in Counts
  BY DEF BenchTypes, ReportTypes
<1>7. committed' = IF \A k \in committed.known : k[1] # m.height THEN CountedAt(m) ELSE committed
  BY <1>1, <1>2 DEF Counted
<1>8. /\ CountedAt(m) \in Counts /\ CountedAt(m).count = committed.count + blocks[m.block]
      /\ CountedAt(m).known = committed.known \cup {<<m.height, m.block>>}
  <2>1. PICK size \in Nat, h \in Nat, top \in Nat, block \in Nat :
              size = blocks[m.block] /\ h = m.height /\ top = m.head /\ block = m.block
    BY <1>3, <1>5
  <2>2. CountedAt(m) = [committed EXCEPT !.count = @ + size, !.height = h, !.head = top,
                                         !.known = @ \cup {<<h, block>>}]
    BY <2>1 DEF CountedAt
  <2>3. PICK c \in Counts : c = committed
    BY <1>6
  <2> DEFINE n == [c EXCEPT !.count = @ + size, !.height = h, !.head = top,
                            !.known = @ \cup {<<h, block>>}]
  <2>4. n \in Counts /\ n.count = c.count + size /\ n.known = c.known \cup {<<h, block>>}
    <3>1. c.count + size \in Nat /\ c.known \cup {<<h, block>>} \in SUBSET (Nat \X Nat)
      BY DEF Counts
    <3> QED BY <3>1 DEF Counts
  <2>5. CountedAt(m) = n
    BY <2>2, <2>3
  <2> HIDE DEF n
  <2> QED BY <2>1, <2>3, <2>4, <2>5
<1>9. committed.count \in Nat
  BY CountsSay
<1>10. committed' \in Counts /\ committed.count <= committed'.count
  BY <1>5, <1>6, <1>7, <1>8, <1>9
<1> QED BY <1>3, <1>4, <1>5, <1>7, <1>8, <1>10 DEF m

\* What a node has is counted in naturals.
LEMMA NodesSay ==
  ASSUME BenchTypes, NEW v \in Node
  PROVE  at[v] \in Nat /\ reported[v] \in Nat /\ \A h \in reading[v] : h \in Nat
BY BenchTypesSay

LEMMA FirstNode == 0 \in Node
BY BenchAssumption DEF Node

\* A count stays true while nodes commit.
LEMMA CountStays ==
  ASSUME BenchTypes, CountInv, UNCHANGED <<mode, blocks, committed>>,
         at'[0] \in Nat, at[0] <= at'[0]
  PROVE  CountInv'
<1>1. (mode = "cluster" => (ByTheirHeight => committed.count = SumFunctionOnSet(blocks, Heights)))'
  BY DEF CountInv, ByTheirHeight, Heights
<1>2. ASSUME (mode = "in process")'
      PROVE  (/\ committed.height <= at[0] /\ committed.head = committed.height
              /\ committed.count = SumTo(blocks, committed.height))'
  <2>1. /\ committed.height <= at[0] /\ committed.head = committed.height
        /\ committed.count = SumTo(blocks, committed.height)
    BY <1>2 DEF CountInv
  <2>2. committed.height \in Nat /\ at[0] \in Nat
    BY CountsSay, NodesSay, FirstNode
  <2> QED BY <2>1, <2>2
<1> QED BY <1>1, <1>2 DEF CountInv

LEMMA OthersKeepReports ==
  ASSUME BenchTypes, ReportInv, CountInv, UNCHANGED <<mode, blocks, at, reportVars>>
  PROVE  ReportTypes' /\ ReportInv' /\ CountInv'
<1>1. ReportTypes'
  BY DEF BenchTypes, ReportTypes, reportVars
<1>2. ReportInv'
  BY DEF ReportInv, IsReported, reportVars
<1>3. CountInv'
  <2>1. at[0] \in Nat /\ at'[0] = at[0] /\ committed' = committed
    BY NodesSay, FirstNode DEF reportVars
  <2> QED BY <2>1, CountStays
<1> QED BY <1>1, <1>2, <1>3

LEMMA ProposingKeepsReports ==
  ASSUME BenchTypes, PendingInv, ReportInv, CountInv, NEW v \in Node, ProposeBlock(v)
  PROVE  ReportTypes' /\ ReportInv' /\ CountInv'
<1>1. UNCHANGED <<mode, at, reported, reading, outbox, committed>>
  BY DEF ProposeBlock, reportVars
<1>2. PICK size \in Nat \ {0} : blocks' = Append(blocks, size)
  BY ProposedAre
<1>3. ReportTypes' /\ ReportInv'
  BY <1>1 DEF BenchTypes, ReportTypes, ReportInv, IsReported
<1>4. ASSUME mode = "cluster", ByTheirHeight'
      PROVE  committed.count = SumFunctionOnSet(blocks', Heights)
  <2>1. ByTheirHeight
    BY <1>1, <1>4 DEF ByTheirHeight
  <2>2. Heights \in SUBSET (1 .. Len(blocks)) /\ committed.count = SumFunctionOnSet(blocks, Heights)
    BY <1>4, <2>1, HeightsAre DEF CountInv
  <2>3. blocks \in Seq(Nat \ {0})
    BY BenchTypesSay
  <2> QED BY <1>2, <2>2, <2>3, SumsOfLonger
<1>5. ASSUME mode = "in process"
      PROVE  /\ committed.height <= at[0] /\ committed.head = committed.height
             /\ committed.count = SumTo(blocks', committed.height)
  <2>1. /\ committed.height <= at[0] /\ committed.head = committed.height
        /\ committed.count = SumTo(blocks, committed.height)
    BY <1>5 DEF CountInv
  <2>2. committed.height \in 0 .. Len(blocks) /\ blocks \in Seq(Nat \ {0})
    <3>1. 0 \in Node
      BY FirstNode
    <3>2. at[0] \in Nat /\ at[0] <= Len(blocks) /\ committed.height \in Nat /\ Len(blocks) \in Nat
          /\ blocks \in Seq(Nat \ {0})
      BY <3>1, BenchTypesSay, CountsSay DEF PendingInv
    <3> QED BY <2>1, <3>2
  <2> QED BY <1>2, <2>1, <2>2, SumsOfLonger
<1>6. CountInv'
  <2>1. (mode = "cluster" => (ByTheirHeight => committed.count = SumFunctionOnSet(blocks, Heights)))'
    BY <1>1, <1>4 DEF Heights
  <2> QED BY <1>1, <1>5, <2>1 DEF CountInv
<1> QED BY <1>3, <1>6

LEMMA CommittingKeepsReports ==
  ASSUME BenchTypes, ReportInv, CountInv, NEW v \in Node, CommitsBlock(v)
  PROVE  ReportTypes' /\ ReportInv' /\ CountInv'
<1>1. at' = [at EXCEPT ![v] = @ + 1] /\ UNCHANGED <<mode, blocks, reported, reading, outbox, committed>>
  BY DEF CommitsBlock, reportVars
<1>2. \A w \in Node : at[w] \in Nat /\ at'[w] \in Nat /\ at[w] <= at'[w]
  <2>1. at \in [Node -> Nat]
    BY BenchTypesSay
  <2> QED BY <1>1, <2>1
<1>3. ReportTypes'
  BY <1>1 DEF BenchTypes, ReportTypes
<1>4. ASSUME NEW w \in Node
      PROVE  /\ reported[w] <= at'[w] /\ \A h \in reading[w] : 1 <= h /\ h <= at'[w]
             /\ \A i \in DOMAIN outbox[w] : IsReported(outbox[w][i], w)'
  <2> reported[w] <= at[w] /\ \A h \in reading[w] : 1 <= h /\ h <= at[w]
    BY DEF ReportInv
  <2> at[w] \in Nat /\ reported[w] \in Nat /\ \A h \in reading[w] : h \in Nat
    BY NodesSay
  <2>1. reported[w] <= at'[w]
    BY <1>2
  <2>2. \A h \in reading[w] : 1 <= h /\ h <= at'[w]
    BY <1>2
  <2>3. ASSUME NEW i \in DOMAIN outbox[w] PROVE IsReported(outbox[w][i], w)'
    <3>1. IsReported(outbox[w][i], w)
      BY DEF ReportInv
    <3>2. outbox[w][i].head \in Nat /\ (outbox[w][i].kind = "block" => outbox[w][i].block \in Nat)
      <4>1. outbox[w][i].kind = "status" => outbox[w][i].kind # "block"
        OBVIOUS
      <4> QED BY <4>1, MessagesSay
    <3> QED BY <1>1, <1>2, <3>1, <3>2 DEF IsReported
  <2> QED BY <2>1, <2>2, <2>3
<1>5. \A k \in committed.known : \E w \in Node : 1 <= k[2] /\ k[2] <= at'[w]
  <2> SUFFICES ASSUME NEW k \in committed.known PROVE \E w \in Node : 1 <= k[2] /\ k[2] <= at'[w]
    OBVIOUS
  <2>1. PICK w \in Node : 1 <= k[2] /\ k[2] <= at[w]
    BY DEF ReportInv
  <2>2. k[2] \in Nat
    BY CountsSay
  <2> QED BY <1>2, <2>1, <2>2
<1>6. mode = "in process" =>
       committed.known = {} /\ \A w \in Node : outbox[w] = <<>> /\ reading[w] = {}
  BY DEF ReportInv
<1>7. ReportInv'
  BY <1>1, <1>4, <1>5, <1>6 DEF ReportInv
<1>8. CountInv'
  <2>1. 0 \in Node
    BY FirstNode
  <2> QED BY <1>1, <1>2, <2>1, CountStays
<1> QED BY <1>3, <1>7, <1>8

\* A count does not change while reports are made.
LEMMA CountUntouched ==
  ASSUME BenchTypes, CountInv, UNCHANGED <<mode, blocks, at, committed>>
  PROVE  CountInv'
<1>1. at[0] \in Nat /\ at'[0] = at[0]
  BY NodesSay, FirstNode
<1> QED BY <1>1, CountStays

\* Who has something to report is on a cluster.
LEMMA ReportsInCluster ==
  ASSUME BenchTypes, ReportInv, NEW v \in Node, outbox[v] # <<>> \/ reading[v] # {}
  PROVE  mode = "cluster"
BY BenchTypesSay DEF ReportInv

\* ReportInv, of a step that makes or takes reports.
LEMMA ReportingHolds ==
  ASSUME BenchTypes, ReportInv, at' = at, mode' = mode,
         mode = "in process" =>
           committed'.known = {} /\ \A v \in Node : outbox'[v] = <<>> /\ reading'[v] = {},
         \A k \in committed'.known :
           k \in committed.known \/ \E v \in Node : 1 <= k[2] /\ k[2] <= at[v],
         \A v \in Node :
           /\ reported'[v] <= at[v]
           /\ \A h \in reading'[v] : h \in reading[v] \/ (1 <= h /\ h <= at[v])
           /\ \A i \in DOMAIN outbox'[v] :
                \/ \E j \in DOMAIN outbox[v] : outbox'[v][i] = outbox[v][j]
                \/ IsReported(outbox'[v][i], v)
  PROVE  ReportInv'
<1>1. ASSUME NEW v \in Node
      PROVE  /\ reported'[v] <= at'[v] /\ \A h \in reading'[v] : 1 <= h /\ h <= at'[v]
             /\ \A i \in DOMAIN outbox'[v] : IsReported(outbox[v][i], v)'
  <2>1. \A h \in reading'[v] : 1 <= h /\ h <= at'[v]
    BY DEF ReportInv
  <2>2. ASSUME NEW i \in DOMAIN outbox'[v] PROVE IsReported(outbox[v][i], v)'
    <3>1. IsReported(outbox'[v][i], v)
      BY DEF ReportInv
    <3> QED BY <3>1 DEF IsReported
  <2> QED BY <2>1, <2>2
<1>2. \A k \in committed'.known : \E v \in Node : 1 <= k[2] /\ k[2] <= at'[v]
  BY DEF ReportInv
<1> QED BY <1>1, <1>2 DEF ReportInv

LEMMA ReportNextKeepsReports ==
  ASSUME BenchTypes, ReportInv, CountInv, NEW v \in Node, ReportNext(v)
  PROVE  ReportTypes' /\ ReportInv' /\ CountInv'
<1>1. /\ mode = "cluster" /\ reported[v] < at[v] /\ reported' = [reported EXCEPT ![v] = @ + 1]
      /\ reading' = [reading EXCEPT ![v] = @ \cup {reported'[v]}]
      /\ UNCHANGED <<mode, blocks, at, outbox, committed>>
  BY DEF ReportNext, ReportKeeps, chainVars
<1>2. reported \in [Node -> Nat] /\ reading \in [Node -> SUBSET Nat]
  BY BenchTypesSay
<1>3. reported[v] \in Nat /\ at[v] \in Nat /\ reported'[v] = reported[v] + 1
  BY <1>1, <1>2, NodesSay
<1>4. reported' \in [Node -> Nat] /\ reading' \in [Node -> SUBSET Nat]
  BY <1>1, <1>2, <1>3
<1>5. ReportTypes'
  BY <1>1, <1>4 DEF BenchTypes, ReportTypes
<1>6. ASSUME NEW w \in Node
      PROVE  /\ reported'[w] <= at[w]
             /\ \A h \in reading'[w] : h \in reading[w] \/ (1 <= h /\ h <= at[w])
  <2>1. reported[w] <= at[w]
    BY DEF ReportInv
  <2>2. CASE w = v
    <3>1. reading'[v] = reading[v] \cup {reported[v] + 1}
      BY <1>1, <1>2, <1>3
    <3> QED BY <1>1, <1>3, <2>2, <3>1
  <2>3. CASE w # v
    <3>1. reading'[w] = reading[w] /\ reported'[w] = reported[w]
      BY <1>1, <1>2, <2>3
    <3> QED BY <2>1, <3>1
  <2> QED BY <2>2, <2>3
<1>7. ReportInv'
  BY <1>1, <1>6, ReportingHolds
<1> QED BY <1>1, <1>5, <1>7, CountUntouched

LEMMA SendingKeepsReports ==
  ASSUME BenchTypes, PendingInv, ReportInv, CountInv, NEW v \in Node, NEW h \in reading[v],
         BlockSent(v, h)
  PROVE  /\ ReportTypes' /\ ReportInv' /\ CountInv'
         /\ \E m \in BenchBlock : outbox' = [outbox EXCEPT ![v] = Append(@, m)]
<1> DEFINE m == [kind |-> "block", height |-> reported[v], block |-> h, head |-> at[v]]
<1>1. /\ reading' = [reading EXCEPT ![v] = @ \ {h}]
      /\ outbox' = [outbox EXCEPT ![v] = Append(@, m)]
      /\ UNCHANGED <<mode, blocks, at, reported, committed>>
  BY DEF BlockSent, ReportKeeps, chainVars
<1>2. reading \in [Node -> SUBSET Nat]
  BY BenchTypesSay
<1>3. h \in Nat /\ at[v] \in Nat /\ reported[v] \in Nat /\ 1 <= h /\ h <= at[v]
  BY NodesSay DEF ReportInv
<1>4. m \in BenchBlock /\ m.head = at[v] /\ m.block = h
  BY <1>3 DEF BenchBlock
<1> HIDE DEF m
<1>5. /\ outbox' \in [Node -> Seq(BenchBlock \cup BenchStatus)]
      /\ \A w \in Node : w # v => outbox'[w] = outbox[w]
      /\ \A i \in DOMAIN outbox'[v] :
           \/ i \in DOMAIN outbox[v] /\ outbox'[v][i] = outbox[v][i]
           \/ outbox'[v][i] = m
  BY <1>1, <1>4, OutboxAppended
<1>6. ReportTypes'
  <2>1. reading' \in [Node -> SUBSET Nat]
    BY <1>1, <1>2
  <2> QED BY <1>1, <1>5, <2>1 DEF BenchTypes, ReportTypes
<1>7. IsReported(m, v)
  BY <1>3, <1>4 DEF IsReported
<1>8. \A w \in Node : reading'[w] \subseteq reading[w]
  BY <1>1, <1>2
<1>9. ReportInv'
  <2>1. mode = "cluster"
    BY ReportsInCluster
  <2>2. ASSUME NEW w \in Node
        PROVE  \A i \in DOMAIN outbox'[w] :
                 \/ \E j \in DOMAIN outbox[w] : outbox'[w][i] = outbox[w][j]
                 \/ IsReported(outbox'[w][i], w)
    BY <1>5, <1>7
  <2>3. \A w \in Node : reported'[w] <= at[w]
    BY <1>1 DEF ReportInv
  <2> QED BY <1>1, <1>8, <2>1, <2>2, <2>3, ReportingHolds
<1> QED BY <1>1, <1>4, <1>6, <1>9, CountUntouched

LEMMA ReadFailsKeepsReports ==
  ASSUME BenchTypes, ReportInv, CountInv, NEW v \in Node, NEW h \in reading[v], ReadFails(v, h)
  PROVE  ReportTypes' /\ ReportInv' /\ CountInv'
<1>1. /\ reading' = [reading EXCEPT ![v] = @ \ {h}]
      /\ UNCHANGED <<mode, blocks, at, reported, outbox, committed>>
  BY DEF ReadFails, ReportKeeps, chainVars
<1>2. reading \in [Node -> SUBSET Nat]
  BY BenchTypesSay
<1>3. ReportTypes'
  <2>1. reading' \in [Node -> SUBSET Nat]
    BY <1>1, <1>2
  <2> QED BY <1>1, <2>1 DEF BenchTypes, ReportTypes
<1>4. \A w \in Node : reading'[w] \subseteq reading[w]
  BY <1>1, <1>2
<1>5. mode = "cluster"
  BY ReportsInCluster
<1>6. \A w \in Node : reported'[w] <= at[w]
  BY <1>1 DEF ReportInv
<1>7. ReportInv'
  BY <1>1, <1>4, <1>5, <1>6, ReportingHolds
<1> QED BY <1>1, <1>3, <1>7, CountUntouched

LEMMA StatusKeepsReports ==
  ASSUME BenchTypes, PendingInv, ReportInv, CountInv, NEW v \in Node, StatusSent(v)
  PROVE  /\ ReportTypes' /\ ReportInv' /\ CountInv'
         /\ \E m \in BenchStatus : m.head = at[v] /\ outbox' = [outbox EXCEPT ![v] = Append(@, m)]
<1> DEFINE m == [kind |-> "status", head |-> at[v]]
<1>1. /\ mode = "cluster" /\ outbox' = [outbox EXCEPT ![v] = Append(@, m)]
      /\ UNCHANGED <<mode, blocks, at, reported, reading, committed>>
  BY DEF StatusSent, ControlKeeps, chainVars
<1>2. at[v] \in Nat
  BY NodesSay
<1>3. m \in BenchStatus /\ m.head = at[v] /\ m.kind # "block"
  BY <1>2 DEF BenchStatus
<1> HIDE DEF m
<1>4. /\ outbox' \in [Node -> Seq(BenchBlock \cup BenchStatus)]
      /\ \A w \in Node : w # v => outbox'[w] = outbox[w]
      /\ \A i \in DOMAIN outbox'[v] :
           \/ i \in DOMAIN outbox[v] /\ outbox'[v][i] = outbox[v][i]
           \/ outbox'[v][i] = m
  BY <1>1, <1>3, OutboxAppended
<1>5. ReportTypes'
  BY <1>1, <1>4 DEF BenchTypes, ReportTypes
<1>6. IsReported(m, v)
  BY <1>2, <1>3 DEF IsReported
<1>7. ReportInv'
  <2>1. ASSUME NEW w \in Node
        PROVE  \A i \in DOMAIN outbox'[w] :
                 \/ \E j \in DOMAIN outbox[w] : outbox'[w][i] = outbox[w][j]
                 \/ IsReported(outbox'[w][i], w)
    BY <1>4, <1>6
  <2>2. \A w \in Node : reported'[w] <= at[w]
    BY <1>1 DEF ReportInv
  <2> QED BY <1>1, <2>1, <2>2, ReportingHolds
<1> QED BY <1>1, <1>3, <1>5, <1>7, CountUntouched

LEMMA StatusTakenKeepsReports ==
  ASSUME BenchTypes, PendingInv, ReportInv, CountInv, NEW v \in Node, ReceiveStatus(v)
  PROVE  ReportTypes' /\ ReportInv' /\ CountInv'
<1>1. /\ outbox[v] # <<>> /\ outbox' = [outbox EXCEPT ![v] = Tail(@)]
      /\ UNCHANGED <<mode, blocks, at, reported, reading, committed>>
  BY DEF ReceiveStatus, ControlKeeps, chainVars
<1>2. /\ outbox' \in [Node -> Seq(BenchBlock \cup BenchStatus)]
      /\ \A w \in Node : w # v => outbox'[w] = outbox[w]
      /\ \A i \in DOMAIN outbox'[v] : i + 1 \in DOMAIN outbox[v] /\ outbox'[v][i] = outbox[v][i + 1]
  BY <1>1, OutboxTaken
<1>3. ReportTypes'
  BY <1>1, <1>2 DEF BenchTypes, ReportTypes
<1>4. mode = "cluster"
  BY <1>1, ReportsInCluster
<1>5. ReportInv'
  <2>1. ASSUME NEW w \in Node
        PROVE  \A i \in DOMAIN outbox'[w] : \E j \in DOMAIN outbox[w] : outbox'[w][i] = outbox[w][j]
    BY <1>2
  <2>2. \A w \in Node : reported'[w] <= at[w]
    BY <1>1 DEF ReportInv
  <2> QED BY <1>1, <1>4, <2>1, <2>2, ReportingHolds
<1> QED BY <1>1, <1>3, <1>5, CountUntouched

LEMMA ReceivingKeepsReports ==
  ASSUME BenchTypes, PendingInv, ReportInv, CountInv, NEW v \in Node, ReceiveBlock(v)
  PROVE  ReportTypes' /\ ReportInv' /\ CountInv'
<1> DEFINE m == outbox[v][1]
<1>1. /\ outbox[v] # <<>> /\ outbox' = [outbox EXCEPT ![v] = Tail(@)]
      /\ UNCHANGED <<mode, blocks, at, reported, reading>>
  BY DEF ReceiveBlock, ReportKeeps, chainVars
<1>2. /\ outbox' \in [Node -> Seq(BenchBlock \cup BenchStatus)]
      /\ \A w \in Node : w # v => outbox'[w] = outbox[w]
      /\ \A i \in DOMAIN outbox'[v] : i + 1 \in DOMAIN outbox[v] /\ outbox'[v][i] = outbox[v][i + 1]
  BY <1>1, OutboxTaken
<1>3. /\ m.block \in 1 .. Len(blocks) /\ m.block <= at[v] /\ m.height \in Nat
      /\ committed' \in Counts
      /\ \/ committed' = committed
         \/ /\ \A k \in committed.known : k[1] # m.height
            /\ committed'.count = committed.count + blocks[m.block]
            /\ committed'.known = committed.known \cup {<<m.height, m.block>>}
  BY ReceivedIs
<1> HIDE DEF m
<1>4. ReportTypes'
  BY <1>1, <1>2, <1>3 DEF BenchTypes, ReportTypes
<1>5. mode = "cluster"
  BY <1>1, ReportsInCluster
<1>6. ReportInv'
  <2>1. ASSUME NEW w \in Node
        PROVE  \A i \in DOMAIN outbox'[w] : \E j \in DOMAIN outbox[w] : outbox'[w][i] = outbox[w][j]
    BY <1>2
  <2>2. \A w \in Node : reported'[w] <= at[w]
    BY <1>1 DEF ReportInv
  <2>3. \A k \in committed'.known :
          k \in committed.known \/ \E w \in Node : 1 <= k[2] /\ k[2] <= at[w]
    BY <1>3
  <2> QED BY <1>1, <1>5, <2>1, <2>2, <2>3, ReportingHolds
<1>7. ASSUME ByTheirHeight' PROVE committed'.count = SumFunctionOnSet(blocks, Heights')
  <2>1. CASE committed' = committed
    BY <1>5, <1>7, <2>1 DEF ByTheirHeight, Heights, CountInv
  <2>2. CASE /\ \A k \in committed.known : k[1] # m.height
             /\ committed'.count = committed.count + blocks[m.block]
             /\ committed'.known = committed.known \cup {<<m.height, m.block>>}
    <3>1. PICK b \in 1 .. Len(blocks), h \in Nat : b = m.block /\ h = m.height
      BY <1>3
    <3>2. /\ committed'.known = committed.known \cup {<<h, b>>}
          /\ \A k \in committed.known : k[1] # h
          /\ committed'.count = committed.count + blocks[b]
      BY <2>2, <3>1
    <3>3. ByTheirHeight /\ h = b
      <4>1. \A k \in committed'.known : k[1] = k[2]
        BY <1>7 DEF ByTheirHeight
      <4>2. <<h, b>>[1] = <<h, b>>[2]
        BY <3>2, <4>1
      <4> QED BY <3>2, <4>1, <4>2 DEF ByTheirHeight
    <3>4. Heights \in SUBSET (1 .. Len(blocks)) /\ committed.count = SumFunctionOnSet(blocks, Heights)
      BY <1>5, <3>3, HeightsAre DEF CountInv
    <3>5. Heights' = Heights \cup {b} /\ b \notin Heights
      <4>1. \A x : x \in Heights <=> \E k \in committed.known : x = k[1]
        BY DEF Heights
      <4>2. \A x : x \in Heights' <=> \E k \in committed'.known : x = k[1]
        BY DEF Heights
      <4>3. \A x : x \in Heights' <=> x \in Heights \/ x = b
        <5>1. <<h, b>>[1] = b
          BY <3>3
        <5>2. \A k : k \in committed'.known <=> k \in committed.known \/ k = <<h, b>>
          BY <3>2
        <5> QED BY <5>1, <5>2, <4>1, <4>2
      <4> QED BY <3>2, <3>3, <4>1, <4>3
    <3>6. SumFunctionOnSet(blocks, Heights \cup {b}) = blocks[b] + SumFunctionOnSet(blocks, Heights)
      <4>1. Len(blocks) \in Nat /\ \A i \in 1 .. Len(blocks) : blocks[i] \in Nat
        BY BenchTypesSay
      <4>2. IsFiniteSet(Heights)
        <5>1. IsFiniteSet(1 .. Len(blocks))
          BY <4>1, FS_Interval
        <5> QED BY <3>4, <5>1, FS_Subset
      <4>3. \A x \in Heights \cup {b} : blocks[x] \in Int
        BY <3>4, <4>1
      <4> QED BY <3>5, <4>2, <4>3, SumWithOneMore
    <3>7. SumFunctionOnSet(blocks, Heights') = SumFunctionOnSet(blocks, Heights \cup {b})
      BY <3>5
    <3>8. blocks[b] \in Nat /\ committed.count \in Nat
      <4>1. \A i \in 1 .. Len(blocks) : blocks[i] \in Nat
        BY BenchTypesSay
      <4> QED BY <4>1, CountsSay
    <3> QED BY <3>2, <3>4, <3>6, <3>7, <3>8
  <2> QED BY <1>3, <2>1, <2>2
<1>8. CountInv'
  <2>1. (mode = "cluster" => (ByTheirHeight => committed.count = SumFunctionOnSet(blocks, Heights)))'
    BY <1>1, <1>7 DEF Heights
  <2>2. mode' # "in process"
    BY <1>1, <1>5
  <2> QED BY <2>1, <2>2 DEF CountInv
<1> QED BY <1>4, <1>6, <1>8

LEMMA FirstKeepsReports ==
  ASSUME BenchTypes, PendingInv, ReportInv, CountInv, CountAtFirst
  PROVE  ReportTypes' /\ ReportInv' /\ CountInv'
<1> DEFINE h == committed.height
<1>1. /\ mode = "in process" /\ h < at[0]
      /\ committed' = [committed EXCEPT !.height = @ + 1, !.head = h + 1, !.count = @ + blocks[h + 1]]
      /\ UNCHANGED <<mode, blocks, at, reported, reading, outbox>>
  BY DEF CountAtFirst, ReportKeeps, chainVars
<1>2. committed \in Counts /\ h \in Nat
  BY CountsSay DEF BenchTypes, ReportTypes
<1>3. at[0] \in Nat /\ at[0] <= Len(blocks) /\ Len(blocks) \in Nat /\ blocks \in Seq(Nat \ {0})
  BY FirstNode, NodesSay, BenchTypesSay DEF PendingInv
<1>4. blocks[h + 1] \in Nat /\ h + 1 <= Len(blocks) /\ h + 1 \in Nat
  <2>1. h < at[0]
    BY <1>1
  <2>2. h + 1 \in 1 .. Len(blocks)
    BY <1>2, <1>3, <2>1
  <2> QED BY <1>3, <2>2
<1>5. /\ committed' \in Counts /\ committed'.count = committed.count + blocks[h + 1]
      /\ committed'.height = h + 1 /\ committed'.head = h + 1
      /\ committed'.known = committed.known
  <2>1. PICK size \in Nat : size = blocks[h + 1]
    BY <1>4
  <2>2. committed.count + size \in Nat
    BY <1>2 DEF Counts
  <2> QED BY <1>1, <1>2, <1>4, <2>1, <2>2 DEF Counts
<1>6. ReportTypes'
  BY <1>1, <1>5 DEF BenchTypes, ReportTypes
<1>7. ReportInv'
  <2>1. \A w \in Node : reported'[w] <= at[w]
    BY <1>1 DEF ReportInv
  <2>2. committed'.known = {} /\ \A w \in Node : outbox'[w] = <<>> /\ reading'[w] = {}
    BY <1>1, <1>5 DEF ReportInv
  <2> QED BY <1>1, <1>5, <2>1, <2>2, ReportingHolds
<1>8. CountInv'
  <2>1. committed.count = SumTo(blocks, h)
    BY <1>1 DEF CountInv
  <2>2. PICK k \in Nat : k = h + 1 /\ k <= Len(blocks) /\ k # 0 /\ k - 1 = h
    BY <1>2, <1>4
  <2>3. SumTo(blocks, k) = blocks[k] + SumTo(blocks, k - 1)
    BY <1>3, <2>2, SumToIs
  <2>4. committed'.count = SumTo(blocks, committed'.height)
    <3>1. committed.count \in Nat
      BY CountsSay
    <3> QED BY <1>4, <1>5, <2>1, <2>2, <2>3, <3>1
  <2>5. committed'.height <= at[0] /\ committed'.head = committed'.height
    <3>1. h < at[0] /\ committed'.height = h + 1 /\ committed'.head = h + 1
      BY <1>1, <1>5
    <3> QED BY <1>2, <1>3, <3>1
  <2> QED BY <1>1, <2>4, <2>5 DEF CountInv
<1> QED BY <1>6, <1>7, <1>8

LEMMA WindowKeepsReports ==
  ASSUME BenchTypes, PendingInv, ReportInv, CountInv, WindowSubmitted
  PROVE  ReportTypes' /\ ReportInv' /\ CountInv'
<1>1. /\ committed' = IF mode = "in process" THEN NothingCommitted ELSE committed
      /\ UNCHANGED <<mode, blocks, at, reported, reading, outbox>>
  BY DEF WindowSubmitted, chainVars
<1>2. CASE mode = "cluster"
  <2>1. committed' = committed
    BY <1>1, <1>2
  <2> QED BY <1>1, <2>1, OthersKeepReports DEF reportVars
<1>3. CASE mode = "in process"
  <2>1. committed' = NothingCommitted
    BY <1>1, <1>3
  <2>2. /\ committed' \in Counts /\ committed'.count = 0 /\ committed'.height = 0
        /\ committed'.known = {} /\ committed'.head = 0
    BY <2>1 DEF NothingCommitted, Counts
  <2>3. ReportTypes'
    BY <1>1, <2>2 DEF BenchTypes, ReportTypes
  <2>4. ReportInv'
    <3>1. \A w \in Node : reported'[w] <= at[w]
      BY <1>1 DEF ReportInv
    <3>2. \A w \in Node : outbox'[w] = <<>> /\ reading'[w] = {}
      BY <1>1, <1>3 DEF ReportInv
    <3> QED BY <1>1, <2>2, <3>1, <3>2, ReportingHolds
  <2>5. CountInv'
    <3>1. blocks \in Seq(Nat \ {0}) /\ at[0] \in Nat /\ Len(blocks) \in Nat
      BY FirstNode, NodesSay, BenchTypesSay
    <3>2. SumTo(blocks, 0) = 0
      BY <3>1, SumToIs
    <3>3. committed'.height <= at'[0] /\ committed'.head = committed'.height
          /\ committed'.count = SumTo(blocks', committed'.height)
      <4>1. 0 <= at[0] /\ at'[0] = at[0] /\ blocks' = blocks
        <5>1. at' = at /\ blocks' = blocks
          BY <1>1
        <5>2. 0 <= at[0]
          BY <3>1
        <5> QED BY <5>1, <5>2
      <4> QED BY <2>2, <3>2, <4>1
    <3>4. mode' = "in process"
      BY <1>1, <1>3
    <3> QED BY <3>3, <3>4 DEF CountInv
  <2> QED BY <2>3, <2>4, <2>5
<1> QED BY <1>2, <1>3, BenchTypesSay

-----------------------------------------------------------------------------
(* The controller: ControlInv. *)
\* Indices of a node's messages are positive.
LEMMA OutboxIndices ==
  ASSUME BenchTypes, NEW v \in Node
  PROVE  \A i \in DOMAIN outbox[v] : i \in Nat
<1> DEFINE M == BenchBlock \cup BenchStatus
<1>1. outbox \in [Node -> Seq(M)]
  BY DEF BenchTypes, ReportTypes
<1> HIDE DEF M
<1>2. outbox[v] \in Seq(M)
  BY <1>1
<1> QED BY <1>2

\* The statuses that are on their way stay, each as it is, or the first message
\* of a node is taken.
StatusesStay(d) ==
  \A w \in Node : \A i \in DOMAIN outbox'[w] :
    outbox'[w][i].kind = "status" =>
      i \in Nat /\ i + d[w] \in DOMAIN outbox[w] /\ outbox'[w][i] = outbox[w][i + d[w]]

LEMMA ControlUntouched ==
  ASSUME BenchTypes, ControlInv, UNCHANGED <<blocks, at, control>>,
         committed'.count \in Nat, committed.count <= committed'.count,
         ByTheirHeight' => ByTheirHeight,
         In("converge") /\ ByTheirHeight' /\ control.until = Txs => committed'.head = committed.head,
         NEW d \in [Node -> Nat], StatusesStay(d)
  PROVE  ControlTypes' /\ ControlInv'
<1>1. ControlTypes'
  BY DEF BenchTypes, ControlTypes, In
<1>2. ASSUME NEW w \in Node PROVE HasStatus(w)' => HasStatus(w)
  BY DEF HasStatus, IsStatus, StatusesStay
<1>3. ASSUME (In("submit") \/ In("count"))', NEW w \in Node PROVE ~HasStatus(w)'
  BY <1>2, <1>3 DEF ControlInv, In
<1>4. committed.count \in Nat /\ Window \in Nat
  BY CountsSay, BenchAssumption
<1>5. ASSUME In("submit")' PROVE control.until <= committed'.count + Window
  <2>1. control.until <= committed.count + Window /\ control.until \in Nat
    BY <1>5, ControlSays DEF ControlInv, In
  <2> QED BY <1>4, <2>1
<1>6. ASSUME In("converge")'
      PROVE  /\ control.until <= committed'.count
             /\ OneStatusEach'
             /\ ByTheirHeight' /\ control.until = Txs =>
                  control.target.head = committed'.head /\ \E w \in Node : AtTheHead(w)'
  <2>1. /\ control.until <= committed.count /\ control.until \in Nat
        /\ OneStatusEach
        /\ ByTheirHeight /\ control.until = Txs =>
             control.target.head = committed.head /\ \E w \in Node : AtTheHead(w)
    BY <1>6, ControlSays DEF ControlInv, In
  <2>2. control.until <= committed'.count
    BY <1>4, <2>1
  <2>3. OneStatusEach'
    <3>1. ASSUME NEW w \in Node, NEW i \in DOMAIN outbox'[w], NEW j \in DOMAIN outbox'[w],
                 IsStatus(w, i)', IsStatus(w, j)'
          PROVE  i = j
      <4>1. /\ i \in Nat /\ i + d[w] \in DOMAIN outbox[w] /\ outbox'[w][i] = outbox[w][i + d[w]]
            /\ j \in Nat /\ j + d[w] \in DOMAIN outbox[w] /\ outbox'[w][j] = outbox[w][j + d[w]]
        BY <3>1 DEF StatusesStay, IsStatus
      <4>2. IsStatus(w, i + d[w]) /\ IsStatus(w, j + d[w])
        BY <3>1, <4>1 DEF IsStatus
      <4>3. i + d[w] = j + d[w]
        BY <2>1, <4>1, <4>2 DEF OneStatusEach
      <4> QED BY <4>1, <4>3
    <3>2. \A s \in control.statuses : s.node \in Node /\ ~HasStatus(s.node)' /\ s.head <= at[s.node]
      BY <1>2, <1>6, <2>1, ControlSays DEF OneStatusEach, In
    <3> QED BY <2>1, <3>1, <3>2 DEF OneStatusEach
  <2>4. ASSUME ByTheirHeight', control.until = Txs
        PROVE  control.target.head = committed'.head /\ \E w \in Node : AtTheHead(w)'
    <3>1. PICK w \in Node : AtTheHead(w) /\ control.target.head = committed.head
      BY <2>1, <2>4
    <3>2. ASSUME NEW i \in DOMAIN outbox'[w], IsStatus(w, i)'
          PROVE  outbox'[w][i].head = Len(blocks)
      BY <3>1, <3>2 DEF AtTheHead, IsStatus, StatusesStay
    <3>3. AtTheHead(w)'
      BY <3>1, <3>2 DEF AtTheHead
    <3>4. control.target.head = committed'.head
      BY <1>6, <2>4, <3>1 DEF In
    <3> QED BY <3>3, <3>4
  <2> QED BY <2>2, <2>3, <2>4
<1>7. ASSUME In("written")', ByTheirHeight'
      PROVE  /\ control.count = Txs /\ Total' = Txs /\ control.head = Len(blocks)
             /\ \A v \in Node : at[v] = Len(blocks)
  BY <1>7, NoncesStay DEF ControlInv, In
<1> QED BY <1>1, <1>3, <1>5, <1>6, <1>7 DEF ControlInv, In

LEMMA ControlFrame ==
  ASSUME BenchTypes, ControlInv, UNCHANGED <<blocks, at, outbox, committed, control>>
  PROVE  ControlTypes' /\ ControlInv'
<1> DEFINE d == [w \in Node |-> 0]
<1>1. StatusesStay(d)
  BY OutboxIndices DEF StatusesStay
<1>2. d \in [Node -> Nat]
  OBVIOUS
<1>3. committed'.count \in Nat /\ committed.count <= committed'.count
  BY CountsSay
<1>4. ByTheirHeight' => ByTheirHeight
  BY DEF ByTheirHeight
<1> HIDE DEF d
<1> QED BY <1>1, <1>2, <1>3, <1>4, ControlUntouched

LEMMA ProposingKeepsControl ==
  ASSUME BenchInv, NEW v \in Node, ProposeBlock(v)
  PROVE  ControlTypes' /\ ControlInv'
<1>1. UNCHANGED <<mode, at, outbox, committed, control>>
  BY DEF ProposeBlock, reportVars
<1>2. Total < Txs
  <2>1. PICK size \in Nat \ {0} : Total + size <= next
    BY ProposedAre DEF BenchInv
  <2>2. Total \in Nat /\ next \in Nat
    BY NoncesAre, BenchTypesSay DEF BenchInv
  <2>3. next <= Txs
    BY DEF BenchInv, PendingInv
  <2> QED BY <2>1, <2>2, <2>3, BenchAssumption
<1>3. ByTheirHeight' => ByTheirHeight
  BY <1>1 DEF ByTheirHeight
<1>4. ControlTypes'
  BY <1>1 DEF BenchInv, BenchTypes, ControlTypes, In
<1>5. ASSUME In("converge"), ByTheirHeight, control.until = Txs PROVE FALSE
  <2>1. control.until <= committed.count
    BY <1>5 DEF BenchInv, ControlInv
  <2>2. Total = Txs
    BY <1>5, <2>1, CountIsOnChain DEF BenchInv
  <2> QED BY <1>2, <2>2, NoncesAre DEF BenchInv
<1>6. ASSUME In("written"), ByTheirHeight PROVE FALSE
  <2>1. Total = Txs
    BY <1>6 DEF BenchInv, ControlInv
  <2> QED BY <1>2, <2>1, NoncesAre DEF BenchInv
<1>7. ControlInv
  BY DEF BenchInv
<1>8. ASSUME In("converge")' PROVE OneStatusEach'
  BY <1>1, <1>7, <1>8 DEF ControlInv, In, OneStatusEach, HasStatus, IsStatus
<1>9. ASSUME (In("submit") \/ In("count"))' PROVE \A w \in Node : ~HasStatus(w)'
  BY <1>1, <1>7, <1>9 DEF ControlInv, In, HasStatus, IsStatus
<1>10. /\ In("submit")' => control'.until <= committed'.count + Window
       /\ In("converge")' => control'.until <= committed'.count
  BY <1>1, <1>7 DEF ControlInv, In
<1>11. ~(In("converge")' /\ ByTheirHeight' /\ control'.until = Txs) /\ ~(In("written")' /\ ByTheirHeight')
  BY <1>1, <1>3, <1>5, <1>6 DEF In
<1> QED BY <1>4, <1>8, <1>9, <1>10, <1>11 DEF ControlInv

LEMMA CommittingKeepsControl ==
  ASSUME BenchInv, NEW v \in Node, CommitsBlock(v)
  PROVE  ControlTypes' /\ ControlInv'
<1>1. /\ at[v] < Len(blocks) /\ at' = [at EXCEPT ![v] = @ + 1]
      /\ UNCHANGED <<mode, blocks, outbox, committed, control>>
  BY DEF CommitsBlock, reportVars
<1>2. at \in [Node -> Nat] /\ Len(blocks) \in Nat
  BY BenchTypesSay DEF BenchInv
<1>3. \A w \in Node : at[w] \in Nat /\ at'[w] \in Nat /\ at[w] <= at'[w] /\ (w # v => at'[w] = at[w])
  BY <1>1, <1>2
<1>4. ControlTypes'
  BY <1>1 DEF BenchInv, BenchTypes, ControlTypes, In
<1>5. ControlInv /\ BenchTypes
  BY DEF BenchInv
<1>6. at[v] # Len(blocks)
  BY <1>1, <1>3
<1>7. ASSUME In("converge")'
      PROVE  /\ OneStatusEach'
             /\ ByTheirHeight' /\ control.until = Txs =>
                  control.target.head = committed.head /\ \E w \in Node : AtTheHead(w)'
  <2>1. /\ OneStatusEach
        /\ ByTheirHeight /\ control.until = Txs =>
             control.target.head = committed.head /\ \E w \in Node : AtTheHead(w)
    BY <1>1, <1>5, <1>7 DEF ControlInv, In
  <2>2. \A s \in control.statuses : s.node \in Node /\ s.head \in Nat
    BY <1>1, <1>5, <1>7, ControlSays DEF In
  <2>3. ASSUME NEW s \in control.statuses PROVE s.head <= at'[s.node]
    <3>1. s.head <= at[s.node]
      BY <2>1 DEF OneStatusEach
    <3> QED BY <1>3, <2>2, <3>1
  <2>4. OneStatusEach'
    BY <1>1, <2>1, <2>3 DEF OneStatusEach, HasStatus, IsStatus
  <2>5. ASSUME ByTheirHeight', control.until = Txs
        PROVE  control.target.head = committed.head /\ \E w \in Node : AtTheHead(w)'
    <3>1. PICK w \in Node : AtTheHead(w) /\ control.target.head = committed.head
      BY <1>1, <2>1, <2>5 DEF ByTheirHeight
    <3>2. at'[w] = at[w]
      BY <1>3, <1>6, <3>1 DEF AtTheHead
    <3>3. AtTheHead(w)'
      BY <1>1, <3>1, <3>2 DEF AtTheHead, IsStatus
    <3> QED BY <3>1, <3>3
  <2> QED BY <2>4, <2>5
<1>8. ~(In("written")' /\ ByTheirHeight')
  BY <1>1, <1>5, <1>6 DEF In, ByTheirHeight, ControlInv
<1>9. ASSUME (In("submit") \/ In("count"))' PROVE \A w \in Node : ~HasStatus(w)'
  BY <1>1, <1>5, <1>9 DEF ControlInv, In, HasStatus, IsStatus
<1>10. /\ In("submit")' => control'.until <= committed'.count + Window
       /\ In("converge")' => control'.until <= committed'.count
  BY <1>1, <1>5 DEF ControlInv, In
<1> QED BY <1>1, <1>4, <1>7, <1>8, <1>9, <1>10 DEF ControlInv

LEMMA SendingKeepsControl ==
  ASSUME BenchTypes, ControlInv, NEW v \in Node, NEW h \in Nat, BlockSent(v, h),
         NEW m \in BenchBlock, outbox' = [outbox EXCEPT ![v] = Append(@, m)]
  PROVE  ControlTypes' /\ ControlInv'
<1> DEFINE d == [w \in Node |-> 0]
<1>1. UNCHANGED <<blocks, at, committed, control>>
  BY DEF BlockSent, ReportKeeps, chainVars
<1>2. m.kind # "status" /\ m \in BenchBlock \cup BenchStatus
  BY DEF BenchBlock
<1>3. /\ \A w \in Node : w # v => outbox'[w] = outbox[w]
      /\ \A i \in DOMAIN outbox'[v] :
           \/ i \in DOMAIN outbox[v] /\ outbox'[v][i] = outbox[v][i]
           \/ outbox'[v][i] = m
  BY <1>2, OutboxAppended
<1>4. StatusesStay(d)
  BY <1>2, <1>3, OutboxIndices DEF StatusesStay
<1>5. committed'.count \in Nat /\ committed.count <= committed'.count
  BY <1>1, CountsSay
<1>6. (ByTheirHeight' => ByTheirHeight) /\ d \in [Node -> Nat]
  BY <1>1 DEF ByTheirHeight
<1> HIDE DEF d
<1> QED BY <1>1, <1>4, <1>5, <1>6, ControlUntouched

\* The first message of a node is taken.
LEMMA TakenStay ==
  ASSUME BenchTypes, NEW v \in Node, outbox[v] # <<>>, outbox' = [outbox EXCEPT ![v] = Tail(@)]
  PROVE  \E d \in [Node -> Nat] : StatusesStay(d)
<1> DEFINE d == [w \in Node |-> IF w = v THEN 1 ELSE 0]
<1>1. /\ \A w \in Node : w # v => outbox'[w] = outbox[w]
      /\ \A i \in DOMAIN outbox'[v] :
           i \in Nat \ {0} /\ i + 1 \in DOMAIN outbox[v] /\ outbox'[v][i] = outbox[v][i + 1]
  BY OutboxTaken
<1>2. StatusesStay(d)
  <2> SUFFICES ASSUME NEW w \in Node, NEW i \in DOMAIN outbox'[w]
               PROVE  i \in Nat /\ i + d[w] \in DOMAIN outbox[w] /\ outbox'[w][i] = outbox[w][i + d[w]]
    BY DEF StatusesStay
  <2>1. CASE w = v
    BY <1>1, <2>1
  <2>2. CASE w # v
    <3>1. outbox'[w] = outbox[w] /\ i \in Nat /\ d[w] = 0
      BY <1>1, <2>2, OutboxIndices
    <3> QED BY <3>1
  <2> QED BY <2>1, <2>2
<1>3. d \in [Node -> Nat]
  OBVIOUS
<1> QED BY <1>2, <1>3

LEMMA ReceivingKeepsControl ==
  ASSUME BenchInv, NEW v \in Node, ReceiveBlock(v)
  PROVE  ControlTypes' /\ ControlInv'
<1>1. /\ outbox[v] # <<>> /\ outbox' = [outbox EXCEPT ![v] = Tail(@)]
      /\ UNCHANGED <<blocks, at, control>>
  BY DEF ReceiveBlock, ReportKeeps, chainVars
<1>2. PICK d \in [Node -> Nat] : StatusesStay(d)
  BY <1>1, TakenStay DEF BenchInv
<1>3. /\ committed' \in Counts /\ committed.count <= committed'.count
      /\ committed.known \subseteq committed'.known
  BY ReceivedIs DEF BenchInv
<1>4. committed'.count \in Nat
  BY <1>3 DEF Counts
<1>5. ByTheirHeight' => ByTheirHeight
  BY <1>3 DEF ByTheirHeight
<1>6. ASSUME In("converge"), ByTheirHeight', control.until = Txs PROVE committed'.head = committed.head
  <2>1. mode = "cluster"
    BY <1>1, ReportsInCluster DEF BenchInv
  <2>2. Txs <= committed.count
    BY <1>6 DEF BenchInv, ControlInv
  <2>3. 1 .. Len(blocks) \subseteq Heights
    BY <1>5, <1>6, <2>1, <2>2, CountIsOnChain DEF BenchInv
  <2>4. PICK h, b : /\ b \in 1 .. Len(blocks)
                    /\ \/ committed' = committed
                       \/ /\ \A k \in committed.known : k[1] # h
                          /\ committed'.known = committed.known \cup {<<h, b>>}
    <3>1. PICK h, b : h = outbox[v][1].height /\ b = outbox[v][1].block
      OBVIOUS
    <3> QED BY <3>1, ReceivedIs DEF BenchInv
  <2>5. PICK k \in committed.known : k[1] = b
    BY <2>3, <2>4 DEF Heights
  <2>6. <<h, b>> \notin committed'.known \/ h = b
    <3>1. <<h, b>>[1] = h /\ <<h, b>>[2] = b
      OBVIOUS
    <3> QED BY <1>6, <3>1 DEF ByTheirHeight
  <2> QED BY <2>4, <2>5, <2>6
<1> QED BY <1>1, <1>2, <1>3, <1>4, <1>5, <1>6, ControlUntouched DEF BenchInv

LEMMA FirstKeepsControl ==
  ASSUME BenchInv, CountAtFirst
  PROVE  ControlTypes' /\ ControlInv'
<1>1. /\ mode = "in process" /\ UNCHANGED <<blocks, at, outbox, control>> /\ In("count")
      /\ committed.height < at[0]
  BY DEF CountAtFirst, ReportKeeps, chainVars
<1>2. BenchTypes /\ ControlInv
  BY DEF BenchInv
<1>3. ControlTypes'
  BY <1>1, <1>2 DEF BenchTypes, ControlTypes, In
<1>4. \A w \in Node : ~HasStatus(w)'
  BY <1>1, <1>2 DEF ControlInv, HasStatus, IsStatus
<1> QED BY <1>1, <1>3, <1>4 DEF ControlInv, In

LEMMA StatusKeepsControl ==
  ASSUME BenchTypes, ControlInv, NEW v \in Node, StatusSent(v), NEW m \in BenchStatus,
         m.head = at[v], outbox' = [outbox EXCEPT ![v] = Append(@, m)]
  PROVE  ControlTypes' /\ ControlInv'
<1>1. /\ UNCHANGED <<blocks, at, committed, control>>
      /\ In("converge") /\ \A s \in control.statuses : s.node # v
      /\ \A i \in DOMAIN outbox[v] : outbox[v][i].kind = "block"
  BY DEF StatusSent, ControlKeeps, chainVars, Asked
<1>2. m \in BenchBlock \cup BenchStatus
  OBVIOUS
<1>3. /\ \A w \in Node : w # v => outbox'[w] = outbox[w]
      /\ \A i \in DOMAIN outbox'[v] :
              \/ i \in DOMAIN outbox[v] /\ outbox'[v][i] = outbox[v][i]
              \/ i = Len(outbox[v]) + 1 /\ outbox'[v][i] = m
  BY <1>2, OutboxAppended
<1>4. ControlTypes'
  BY <1>1 DEF BenchTypes, ControlTypes, In
<1>5. /\ control.until <= committed.count /\ OneStatusEach
      /\ ByTheirHeight /\ control.until = Txs =>
           control.target.head = committed.head /\ \E w \in Node : AtTheHead(w)
  BY <1>1 DEF ControlInv
<1>6. ASSUME NEW i \in DOMAIN outbox'[v], IsStatus(v, i)'
      PROVE  i = Len(outbox[v]) + 1 /\ outbox'[v][i] = m
  BY <1>1, <1>3, <1>6 DEF IsStatus
<1>7. OneStatusEach'
  <2>1. ASSUME NEW w \in Node, NEW i \in DOMAIN outbox'[w], NEW j \in DOMAIN outbox'[w],
               IsStatus(w, i)', IsStatus(w, j)'
        PROVE  i = j
    BY <1>3, <1>5, <1>6, <2>1 DEF OneStatusEach, IsStatus
  <2>2. ASSUME NEW s \in control.statuses PROVE ~HasStatus(s.node)' /\ s.head <= at[s.node]
    <3>1. s.node \in Node /\ s.node # v
      BY <1>1, ControlSays
    <3>2. ~HasStatus(s.node) /\ s.head <= at[s.node]
      BY <1>5 DEF OneStatusEach
    <3> QED BY <1>3, <3>1, <3>2 DEF HasStatus, IsStatus
  <2> QED BY <1>1, <1>5, <2>1, <2>2 DEF OneStatusEach
<1>8. ASSUME ByTheirHeight', control.until = Txs
      PROVE  control.target.head = committed.head /\ \E w \in Node : AtTheHead(w)'
  <2>1. PICK w \in Node : AtTheHead(w) /\ control.target.head = committed.head
    BY <1>1, <1>5, <1>8 DEF ByTheirHeight
  <2>2. ASSUME NEW i \in DOMAIN outbox'[w], IsStatus(w, i)' PROVE outbox'[w][i].head = Len(blocks)
    <3>1. CASE w = v
      BY <1>6, <2>1, <2>2, <3>1 DEF AtTheHead
    <3>2. CASE w # v
      BY <1>3, <2>1, <2>2, <3>2 DEF AtTheHead, IsStatus
    <3> QED BY <3>1, <3>2
  <2>3. AtTheHead(w)'
    BY <1>1, <2>1, <2>2 DEF AtTheHead
  <2> QED BY <2>1, <2>3
<1> QED BY <1>1, <1>4, <1>5, <1>7, <1>8 DEF ControlInv, In

\* While the nodes converge, a status is added to the others.
LEMMA StatusAdded ==
  ASSUME BenchTypes, In("converge"), NEW statuses \in SUBSET NodeStatus,
         control' = [control EXCEPT !.statuses = statuses]
  PROVE  /\ control' \in Convergence /\ In("converge")' /\ ControlTypes'
         /\ control'.until = control.until /\ control'.target = control.target
         /\ control'.statuses = statuses
<1>1. control \in Convergence
  BY DEF BenchTypes, ControlTypes
<1>2. /\ control' \in Convergence /\ control'.phase = "converge"
      /\ control'.until = control.until /\ control'.target = control.target
      /\ control'.statuses = statuses
  BY <1>1 DEF Convergence
<1> QED BY <1>2 DEF ControlTypes, In

\* ControlInv, with one more status, of a node that was asked for it.
LEMMA StatusesGrow ==
  ASSUME BenchTypes, ControlInv, In("converge"), NEW v \in Node, NEW top \in Nat, top <= at[v],
         \A s \in control.statuses : s.node # v,
         control' = [control EXCEPT !.statuses = @ \cup {[node |-> v, head |-> top]}],
         UNCHANGED <<blocks, at, committed>>,
         NEW d \in [Node -> Nat], StatusesStay(d), ~HasStatus(v)',
         AtTheHead(v) => top = Len(blocks)
  PROVE  ControlTypes' /\ ControlInv'
<1> DEFINE new == [node |-> v, head |-> top]
<1>1. new \in NodeStatus /\ new.node = v /\ new.head = top
  BY DEF NodeStatus
<1> HIDE DEF new
<1>2. control.statuses \in SUBSET NodeStatus /\ \A s \in control.statuses : s.node \in Node
  BY ControlSays
<1>3. PICK statuses \in SUBSET NodeStatus : statuses = control.statuses \cup {new}
  BY <1>1, <1>2
<1>4. control' = [control EXCEPT !.statuses = statuses]
  BY <1>3 DEF new
<1>5. /\ In("converge")' /\ ControlTypes' /\ control'.until = control.until
      /\ control'.target = control.target
      /\ control'.statuses = control.statuses \cup {new}
  BY <1>3, <1>4, StatusAdded
<1>6. /\ control.until <= committed.count /\ OneStatusEach
      /\ ByTheirHeight /\ control.until = Txs =>
           control.target.head = committed.head /\ \E w \in Node : AtTheHead(w)
  BY DEF ControlInv
<1>7. \A w \in Node : HasStatus(w)' => HasStatus(w)
  BY DEF HasStatus, IsStatus, StatusesStay
<1>8. OneStatusEach'
  <2>1. ASSUME NEW w \in Node, NEW i \in DOMAIN outbox'[w], NEW j \in DOMAIN outbox'[w],
               IsStatus(w, i)', IsStatus(w, j)'
        PROVE  i = j
    <3>1. /\ i \in Nat /\ i + d[w] \in DOMAIN outbox[w] /\ outbox'[w][i] = outbox[w][i + d[w]]
          /\ j \in Nat /\ j + d[w] \in DOMAIN outbox[w] /\ outbox'[w][j] = outbox[w][j + d[w]]
      BY <2>1 DEF StatusesStay, IsStatus
    <3>2. IsStatus(w, i + d[w]) /\ IsStatus(w, j + d[w])
      BY <2>1, <3>1 DEF IsStatus
    <3>3. i + d[w] = j + d[w]
      BY <1>6, <3>1, <3>2 DEF OneStatusEach
    <3> QED BY <3>1, <3>3
  <2>2. ASSUME NEW s \in control'.statuses PROVE ~HasStatus(s.node)' /\ s.head <= at'[s.node]
    BY <1>1, <1>2, <1>5, <1>6, <1>7, <2>2 DEF OneStatusEach
  <2>3. ASSUME NEW s \in control'.statuses, NEW t \in control'.statuses, s.node = t.node
        PROVE  s = t
    BY <1>1, <1>5, <1>6, <2>3 DEF OneStatusEach
  <2> QED BY <2>1, <2>2, <2>3 DEF OneStatusEach
<1>9. ASSUME ByTheirHeight', control.until = Txs
      PROVE  control.target.head = committed.head /\ \E w \in Node : AtTheHead(w)'
  <2>1. ByTheirHeight
    BY <1>9 DEF ByTheirHeight
  <2>2. PICK w \in Node : AtTheHead(w) /\ control.target.head = committed.head
    BY <1>6, <1>9, <2>1
  <2>3. \A s \in control'.statuses : s.node = w => s.head = Len(blocks)
    BY <1>1, <1>5, <1>9, <2>1, <2>2 DEF AtTheHead
  <2>4. ASSUME NEW i \in DOMAIN outbox'[w], IsStatus(w, i)' PROVE outbox'[w][i].head = Len(blocks)
    BY <2>2, <2>4 DEF AtTheHead, IsStatus, StatusesStay
  <2>5. AtTheHead(w)'
    BY <2>2, <2>3, <2>4 DEF AtTheHead
  <2> QED BY <2>2, <2>5
<1> QED BY <1>5, <1>6, <1>8, <1>9 DEF ControlInv, In

LEMMA StatusTakenKeepsControl ==
  ASSUME BenchInv, NEW v \in Node, ReceiveStatus(v)
  PROVE  ControlTypes' /\ ControlInv'
<1> DEFINE m == outbox[v][1]
<1>1. /\ outbox[v] # <<>> /\ outbox' = [outbox EXCEPT ![v] = Tail(@)]
      /\ Head(outbox[v]).kind = "status" /\ UNCHANGED <<blocks, at, committed>>
      /\ control' = IF In("converge")
                    THEN [control EXCEPT !.statuses =
                                    @ \cup {[node |-> v, head |-> Head(outbox[v]).head]}]
                    ELSE control
  BY DEF ReceiveStatus, ControlKeeps, chainVars
<1>2. BenchTypes /\ ControlInv /\ ReportInv
  BY DEF BenchInv
<1>3. PICK d \in [Node -> Nat] : StatusesStay(d)
  BY <1>1, <1>2, TakenStay
<1>4. /\ 1 \in DOMAIN outbox[v] /\ Head(outbox[v]) = m
      /\ \A i \in DOMAIN outbox'[v] :
           i \in Nat \ {0} /\ i + 1 \in DOMAIN outbox[v] /\ outbox'[v][i] = outbox[v][i + 1]
  BY <1>1, <1>2, OutboxTaken
<1>5. m.head \in Nat /\ m.head <= at[v] /\ IsStatus(v, 1)
  <2>1. m.head \in Nat
    BY <1>2, <1>4, MessagesSay
  <2>2. m.head <= at[v]
    BY <1>2, <1>4 DEF ReportInv, IsReported
  <2> QED BY <1>1, <1>4, <2>1, <2>2 DEF IsStatus
<1>6. CASE ~In("converge")
  <2>1. committed'.count \in Nat /\ committed.count <= committed'.count
    BY <1>1, <1>2, CountsSay
  <2>2. ByTheirHeight' => ByTheirHeight
    BY <1>1 DEF ByTheirHeight
  <2> QED BY <1>1, <1>2, <1>3, <1>6, <2>1, <2>2, ControlUntouched
<1>7. CASE In("converge")
  <2>1. OneStatusEach
    BY <1>2, <1>7 DEF ControlInv
  <2>2. \A s \in control.statuses : s.node # v
    BY <1>4, <1>5, <2>1 DEF OneStatusEach, HasStatus
  <2>3. ~HasStatus(v)'
    <3> SUFFICES ASSUME NEW i \in DOMAIN outbox'[v], IsStatus(v, i)' PROVE FALSE
      BY DEF HasStatus
    <3>1. i \in Nat \ {0} /\ i + 1 \in DOMAIN outbox[v] /\ IsStatus(v, i + 1)
      BY <1>4 DEF IsStatus
    <3>2. i + 1 = 1
      BY <1>4, <1>5, <2>1, <3>1 DEF OneStatusEach
    <3> QED BY <3>1, <3>2
  <2>4. PICK top \in Nat : top = m.head /\ top <= at[v]
    BY <1>5
  <2>5. control' = [control EXCEPT !.statuses = @ \cup {[node |-> v, head |-> top]}]
    BY <1>1, <1>4, <1>7, <2>4
  <2>6. AtTheHead(v) => top = Len(blocks)
    BY <1>4, <1>5, <2>4 DEF AtTheHead
  <2> QED BY <1>1, <1>2, <1>3, <1>7, <2>2, <2>3, <2>4, <2>5, <2>6, StatusesGrow
<1> QED BY <1>6, <1>7

LEMMA StatusReadKeepsControl ==
  ASSUME BenchInv, NEW v \in Node, StatusRead(v)
  PROVE  ControlTypes' /\ ControlInv'
<1> DEFINE d == [w \in Node |-> 0]
<1>1. /\ mode = "in process" /\ In("converge") /\ \A s \in control.statuses : s.node # v
      /\ control' = [control EXCEPT !.statuses = @ \cup {[node |-> v, head |-> at[v]]}]
      /\ UNCHANGED <<blocks, at, outbox, committed>>
  BY DEF StatusRead, Asked, ControlKeeps, chainVars, reportVars
<1>2. BenchTypes /\ ControlInv /\ ReportInv
  BY DEF BenchInv
<1>3. StatusesStay(d)
  <2>1. outbox' = outbox /\ \A w \in Node : \A i \in DOMAIN outbox[w] : i \in Nat
    BY <1>1, <1>2, OutboxIndices
  <2> QED BY <2>1 DEF StatusesStay
<1>4. d \in [Node -> Nat]
  OBVIOUS
<1> HIDE DEF d
<1>5. outbox'[v] = <<>>
  BY <1>1, <1>2 DEF ReportInv
<1>6. ~HasStatus(v)'
  BY <1>5 DEF HasStatus
<1>7. PICK top \in Nat : top = at[v] /\ top <= at[v]
  BY <1>2, NodesSay
<1>8. control' = [control EXCEPT !.statuses = @ \cup {[node |-> v, head |-> top]}]
  BY <1>1, <1>7
<1>9. AtTheHead(v) => top = Len(blocks)
  BY <1>7 DEF AtTheHead
<1> QED BY <1>1, <1>2, <1>3, <1>4, <1>6, <1>7, <1>8, <1>9, StatusesGrow

\* A run that fails, and steps that leave the controller and what it looks at alone.
LEMMA FailedHolds ==
  ASSUME control' = [phase |-> "failed"] PROVE ControlTypes' /\ ControlInv'
<1>1. control'.phase = "failed"
  OBVIOUS
<1> QED BY <1>1 DEF ControlTypes, ControlInv, In

LEMMA FailingKeepsControl ==
  ASSUME BenchInv, NEW s \in Submitters, NEW isUnderWay \in BOOLEAN, AttemptFails(s, isUnderWay)
  PROVE  ControlTypes' /\ ControlInv'
<1>1. /\ UNCHANGED <<blocks, at, outbox, committed>>
      /\ control' = [phase |-> "failed"] \/ control' = control
  BY DEF AttemptFails, chainVars, reportVars
<1> QED BY <1>1, FailedHolds, ControlFrame DEF BenchInv

LEMMA WindowKeepsControl ==
  ASSUME BenchInv, WindowSubmitted PROVE ControlTypes' /\ ControlInv'
<1>1. In("submit") /\ control' = [phase |-> "count", until |-> control.until] /\ outbox' = outbox
  BY DEF WindowSubmitted
<1>2. BenchTypes /\ ControlInv
  BY DEF BenchInv
<1>3. control.until \in 0 .. Txs
  BY <1>1, <1>2, ControlSays
<1>4. control'.phase = "count" /\ control' \in SubmitPhase
  BY <1>1, <1>3 DEF SubmitPhase
<1>5. \A w \in Node : ~HasStatus(w)'
  BY <1>1, <1>2 DEF ControlInv, HasStatus, IsStatus
<1> QED BY <1>4, <1>5 DEF ControlTypes, ControlInv, In

\* The next window is no further ahead of the count than its length.
LEMMA NextWindowHolds ==
  ASSUME BenchTypes, NEW until \in Nat, until <= committed.count,
         control' = NextWindow(until), committed' = committed, \A w \in Node : ~HasStatus(w)'
  PROVE  ControlTypes' /\ ControlInv'
<1> DEFINE upTo == IF until + Window < Txs THEN until + Window ELSE Txs
<1>1. Txs \in Nat /\ Window \in Nat /\ committed.count \in Nat
  BY BenchAssumption, CountsSay
<1>2. upTo \in 0 .. Txs /\ upTo <= committed.count + Window
  BY <1>1
<1>3. control' = [phase |-> "submit", until |-> upTo]
  BY DEF NextWindow
<1> HIDE DEF upTo
<1>4. control'.phase = "submit" /\ control'.until = upTo /\ control' \in SubmitPhase
  BY <1>2, <1>3 DEF SubmitPhase
<1> QED BY <1>2, <1>4 DEF ControlTypes, ControlInv, In

LEMMA ReachedKeepsControl ==
  ASSUME BenchInv, CountReached PROVE ControlTypes' /\ ControlInv'
<1> DEFINE target == IF mode = "cluster"
                     THEN [height |-> committed.height, head |-> committed.head]
                     ELSE [height |-> at[0], head |-> at[0]]
<1>1. /\ In("count") /\ committed.count >= control.until
      /\ UNCHANGED <<mode, blocks, at, outbox, committed>>
      /\ \/ control' = NextWindow(control.until)
         \/ control' = [phase |-> "converge", until |-> control.until, statuses |-> {},
                        target |-> target]
  BY DEF CountReached, ControlKeeps, chainVars, reportVars
<1>2. BenchTypes /\ PendingInv /\ ReportInv /\ CountInv /\ ControlInv
  BY DEF BenchInv
<1>3. control.until \in 0 .. Txs /\ control.until \in Nat /\ committed.count \in Nat
  BY <1>1, <1>2, ControlSays, CountsSay
<1>4. \A w \in Node : ~HasStatus(w) /\ ~HasStatus(w)'
  BY <1>1, <1>2 DEF ControlInv, HasStatus, IsStatus
<1>5. CASE control' = NextWindow(control.until)
  <2>1. control.until <= committed.count
    BY <1>1, <1>3
  <2> QED BY <1>1, <1>2, <1>3, <1>4, <1>5, <2>1, NextWindowHolds
<1>6. CASE control' = [phase |-> "converge", until |-> control.until, statuses |-> {},
                       target |-> target]
  <2>1. target \in [height : Nat, head : Nat]
    BY <1>2, CountsSay, NodesSay, FirstNode
  <2>2. /\ mode = "cluster" => target.head = committed.head
        /\ mode = "in process" => target.head = at[0]
    OBVIOUS
  <2> HIDE DEF target
  <2>3. /\ control'.phase = "converge" /\ control'.until = control.until
        /\ control'.statuses = {} /\ control'.target = target
    BY <1>6
  <2>4. control' \in Convergence
    BY <1>3, <1>6, <2>1 DEF Convergence
  <2>5. ControlTypes'
    BY <2>3, <2>4 DEF ControlTypes, In
  <2>6. OneStatusEach'
    BY <1>4, <2>3 DEF OneStatusEach, HasStatus
  <2>7. ASSUME ByTheirHeight', control'.until = Txs
        PROVE  control'.target.head = committed'.head /\ \E w \in Node : AtTheHead(w)'
    <3>1. ByTheirHeight /\ Txs <= committed.count
      BY <1>1, <1>3, <2>3, <2>7 DEF ByTheirHeight
    <3>2. /\ mode = "cluster" => \E w \in Node : at[w] = Len(blocks)
          /\ mode = "in process" => at[0] = Len(blocks) /\ committed.height = Len(blocks)
      BY <1>2, <3>1, CountIsOnChain
    <3>3. mode = "in process" => committed.head = committed.height
      BY <1>2 DEF CountInv
    <3>4. PICK w \in Node : at[w] = Len(blocks)
      BY <1>2, <3>2, FirstNode, BenchTypesSay
    <3>5. AtTheHead(w)'
      BY <1>1, <1>4, <2>3, <3>4 DEF AtTheHead, HasStatus
    <3>6. target.head = committed.head
      BY <1>2, <2>2, <3>2, <3>3, BenchTypesSay
    <3> QED BY <1>1, <2>3, <3>5, <3>6
  <2>8. control'.until <= committed'.count
    BY <1>1, <1>3, <2>3
  <2> QED BY <2>3, <2>5, <2>6, <2>7, <2>8 DEF ControlInv, In
<1> QED BY <1>1, <1>5, <1>6

\* As many statuses as nodes, each of another node, are those of all of them.
LEMMA AllAnswered ==
  ASSUME NEW statuses \in SUBSET NodeStatus, Cardinality(statuses) = Processes,
         \A s, t \in statuses : s.node = t.node => s = t
  PROVE  \A v \in Node : \E s \in statuses : s.node = v
<1> DEFINE f == [s \in statuses |-> s.node]
<1>1. f \in Injection(statuses, Node)
  <2>1. f \in [statuses -> Node]
    BY DEF NodeStatus
  <2>2. \A s, t \in statuses : f[s] = f[t] => s = t
    OBVIOUS
  <2> QED BY <2>1, <2>2 DEF Injection, IsInjective
<1>2. IsFiniteSet(Node) /\ Cardinality(Node) = Processes
  <2>1. Processes \in Nat \ {0} /\ 0 \in Int /\ Processes - 1 \in Int
    BY BenchAssumption
  <2>2. /\ IsFiniteSet(0 .. Processes - 1)
        /\ Cardinality(0 .. Processes - 1) =
             IF 0 > Processes - 1 THEN 0 ELSE Processes - 1 - 0 + 1
    BY <2>1, FS_Interval
  <2> QED BY <2>1, <2>2 DEF Node
<1> HIDE DEF f
<1>3. f \in Surjection(statuses, Node)
  BY <1>1, <1>2, FS_Injection
<1>4. \A v \in Node : \E s \in statuses : f[s] = v
  BY <1>3 DEF Surjection
<1> QED BY <1>4 DEF f

LEMMA ConvergingKeepsControl ==
  ASSUME BenchInv, Converges PROVE ControlTypes' /\ ControlInv'
<1>1. /\ In("converge") /\ Cardinality(control.statuses) = Processes
      /\ UNCHANGED <<mode, blocks, at, outbox, committed>>
  BY DEF Converges, ControlKeeps, chainVars, reportVars
<1>2. \/ control' = [control EXCEPT !.statuses = {}]
      \/ control' = NextWindow(control.until)
      \/ /\ \A s \in control.statuses : IsAtTarget(s)
         /\ ~(control.until < Txs)
         /\ control' = [phase |-> "written", count |-> committed.count, head |-> committed.head]
  BY DEF Converges
<1>3. BenchTypes /\ PendingInv /\ ReportInv /\ CountInv /\ ControlInv
  BY DEF BenchInv
<1>4. control.until \in 0 .. Txs /\ control.until \in Nat /\ committed.count \in Nat
  BY <1>1, <1>3, ControlSays, CountsSay
<1>5. /\ control.until <= committed.count /\ OneStatusEach
      /\ ByTheirHeight /\ control.until = Txs =>
           control.target.head = committed.head /\ \E w \in Node : AtTheHead(w)
  BY <1>1, <1>3 DEF ControlInv
<1>6. \A v \in Node : \E s \in control.statuses : s.node = v
  <2>1. control.statuses \in SUBSET NodeStatus
    BY <1>1, <1>3, ControlSays
  <2>2. \A s, t \in control.statuses : s.node = t.node => s = t
    BY <1>5 DEF OneStatusEach
  <2> QED BY <1>1, <2>1, <2>2, AllAnswered
<1>7. CASE control' = [control EXCEPT !.statuses = {}]
  <2>1. PICK statuses \in SUBSET NodeStatus : statuses = {}
    OBVIOUS
  <2>2. control' = [control EXCEPT !.statuses = statuses]
    BY <1>7, <2>1
  <2>3. /\ In("converge")' /\ ControlTypes' /\ control'.until = control.until
        /\ control'.target = control.target /\ control'.statuses = {}
    BY <1>1, <1>3, <2>1, <2>2, StatusAdded
  <2>4. OneStatusEach'
    BY <1>1, <1>5, <2>3 DEF OneStatusEach, HasStatus, IsStatus
  <2>5. ASSUME ByTheirHeight', control.until = Txs
        PROVE  control.target.head = committed.head /\ \E w \in Node : AtTheHead(w)'
    <3>1. PICK w \in Node : AtTheHead(w) /\ control.target.head = committed.head
      BY <1>1, <1>5, <2>5 DEF ByTheirHeight
    <3>2. AtTheHead(w)'
      BY <1>1, <2>3, <3>1 DEF AtTheHead, IsStatus
    <3> QED BY <3>1, <3>2
  <2> QED BY <1>1, <1>5, <2>3, <2>4, <2>5 DEF ControlInv, In
<1>8. CASE control' = NextWindow(control.until)
  <2>1. \A w \in Node : ~HasStatus(w)'
    BY <1>1, <1>5, <1>6 DEF OneStatusEach, HasStatus, IsStatus
  <2> QED BY <1>1, <1>3, <1>4, <1>5, <1>8, <2>1, NextWindowHolds
<1>9. CASE /\ \A s \in control.statuses : IsAtTarget(s)
           /\ ~(control.until < Txs)
           /\ control' = [phase |-> "written", count |-> committed.count, head |-> committed.head]
  <2>1. /\ control'.phase = "written" /\ control'.count = committed.count
        /\ control'.head = committed.head
    BY <1>9
  <2>2. ASSUME ByTheirHeight'
        PROVE  /\ control'.count = Txs /\ Total' = Txs /\ control'.head = Len(blocks')
               /\ \A v \in Node : at'[v] = Len(blocks')
    <3>1. ByTheirHeight
      BY <1>1, <2>2 DEF ByTheirHeight
    <3>2. control.until = Txs /\ Txs <= committed.count /\ Txs \in Nat
      BY <1>4, <1>5, <1>9, BenchAssumption
    <3>3. committed.count <= Total /\ Total = Txs
      BY <1>3, <3>1, <3>2, CountIsOnChain
    <3>4. PICK w \in Node : AtTheHead(w) /\ control.target.head = committed.head
      BY <1>5, <3>1, <3>2
    <3>5. control.target.head = Len(blocks)
      <4>1. PICK s \in control.statuses : s.node = w
        BY <1>6
      <4> QED BY <1>9, <3>4, <4>1 DEF AtTheHead, IsAtTarget
    <3>6. ASSUME NEW v \in Node PROVE at[v] = Len(blocks)
      <4>1. PICK s \in control.statuses : s.node = v
        BY <1>6
      <4>2. s.head = Len(blocks) /\ s.head <= at[v]
        BY <1>5, <1>9, <3>5, <4>1 DEF OneStatusEach, IsAtTarget
      <4>3. at[v] \in Nat /\ Len(blocks) \in Nat /\ at[v] <= Len(blocks)
        BY <1>3, BenchTypesSay DEF PendingInv
      <4> QED BY <4>2, <4>3
    <3>7. committed.count = Txs
      BY <1>4, <3>2, <3>3
    <3>8. Total' = Txs
      BY <1>1, <1>3, <3>3, NoncesStay
    <3> QED BY <1>1, <2>1, <3>4, <3>5, <3>6, <3>7, <3>8
  <2> QED BY <2>1, <2>2 DEF ControlTypes, ControlInv, In
<1> QED BY <1>2, <1>7, <1>8, <1>9

LEMMA TimeOutKeepsControl ==
  ASSUME TimesOut PROVE ControlTypes' /\ ControlInv'
BY FailedHolds DEF TimesOut

-----------------------------------------------------------------------------
(* The steps together. *)
LEMMA BenchStarts == BenchInit => BenchInv
<1> SUFFICES ASSUME BenchInit PROVE BenchInv
  OBVIOUS
<1>1. /\ mode \in {"cluster", "in process"} /\ blocks = <<>> /\ at = [v \in Node |-> 0]
      /\ mempool = [v \in Node |-> {}] /\ ingest = {} /\ next = 0
      /\ submitter = [s \in Submitters |-> NoWork] /\ reported = at
      /\ reading = [v \in Node |-> {}] /\ outbox = [v \in Node |-> <<>>]
      /\ committed = NothingCommitted
      /\ control = [phase |-> "submit", until |-> IF Window < Txs THEN Window ELSE Txs]
  BY DEF BenchInit
<1>2. Txs \in Nat /\ Window \in Nat
  BY BenchAssumption
<1> <<>> \in Seq(Nat \ {0}) /\ Len(<<>>) = 0 /\ DOMAIN <<>> = {}
  OBVIOUS
<1> /\ \A v \in Node : at[v] = 0 /\ mempool[v] = {} /\ reported[v] = 0 /\ reading[v] = {}
    /\ \A v \in Node : outbox[v] = <<>>
  BY <1>1
<1>3. ChainTypes
  <2>1. at \in [Node -> Nat] /\ mempool \in [Node -> SUBSET Nat]
    BY <1>1
  <2>2. blocks \in Seq(Nat \ {0}) /\ mode \in {"cluster", "in process"}
    BY <1>1
  <2> QED BY <2>1, <2>2 DEF ChainTypes
<1>4. SubmitTypes
  BY <1>1 DEF SubmitTypes
<1>5. ReportTypes
  <2> DEFINE M == BenchBlock \cup BenchStatus
  <2>1. committed \in Counts
    BY <1>1 DEF NothingCommitted, Counts
  <2> HIDE DEF M
  <2>2. outbox \in [Node -> Seq(M)]
    <3>1. <<>> \in Seq(M)
      OBVIOUS
    <3> QED BY <1>1, <3>1
  <2>3. reported \in [Node -> Nat] /\ reading \in [Node -> SUBSET Nat]
    BY <1>1
  <2> QED BY <2>1, <2>2, <2>3 DEF ReportTypes, M
<1>6. control.phase = "submit" /\ control \in SubmitPhase /\ control.until <= Window
  <2>1. PICK until \in 0 .. Txs : until = (IF Window < Txs THEN Window ELSE Txs) /\ until <= Window
    BY <1>2
  <2>2. control = [phase |-> "submit", until |-> until]
    BY <1>1, <2>1
  <2> QED BY <2>1, <2>2 DEF SubmitPhase
<1>7. BenchTypes
  BY <1>3, <1>4, <1>5, <1>6 DEF BenchTypes, ControlTypes, In
<1>8. Len(blocks) = 0 /\ Total = 0
  BY <1>1, <1>7, NoncesAre DEF Total
<1>9. PendingInv
  <2>1. ASSUME NEW v \in Node
        PROVE  at[v] <= Len(blocks) /\ \A t \in mempool[v] : Account(v) <= t /\ t < next
    BY <1>8
  <2>2. /\ \A copy \in ingest : copy.tx < next
        /\ \A s \in Submitters : submitter[s] # NoWork => submitter[s].tx < next
    BY <1>1
  <2>3. Total <= next /\ next <= Txs
    <3>1. next = 0
      BY <1>1
    <3> QED BY <1>2, <1>8, <3>1
  <2> QED BY <2>1, <2>2, <2>3 DEF PendingInv
<1>10. ReportInv
  <2>1. committed.known = {}
    BY <1>1 DEF NothingCommitted
  <2>2. ASSUME NEW v \in Node
        PROVE  /\ reported[v] <= at[v] /\ \A h \in reading[v] : 1 <= h /\ h <= at[v]
               /\ \A i \in DOMAIN outbox[v] : IsReported(outbox[v][i], v)
    <3>1. DOMAIN outbox[v] = {}
      BY <1>1
    <3> QED BY <3>1
  <2> QED BY <2>1, <2>2 DEF ReportInv
<1>11. CountInv
  <2>1. committed.count = 0 /\ committed.height = 0 /\ committed.head = 0 /\ Heights = {}
    BY <1>1 DEF NothingCommitted, Heights
  <2>2. at[0] = 0
    BY <1>1, FirstNode
  <2>3. SumTo(blocks, 0) = 0
    <3>1. blocks \in Seq(Nat \ {0}) /\ Len(blocks) \in Nat
      BY <1>7, BenchTypesSay
    <3> QED BY <3>1, SumToIs
  <2>4. SumFunctionOnSet(blocks, Heights) = 0
    BY <2>1, SumOfNothing
  <2>5. committed.height <= at[0]
    BY <2>1, <2>2
  <2>6. committed.count = SumTo(blocks, committed.height)
    BY <2>1, <2>3
  <2>7. committed.count = SumFunctionOnSet(blocks, Heights)
    BY <2>1, <2>4
  <2> QED BY <2>1, <2>5, <2>6, <2>7 DEF CountInv
<1>12. ControlInv
  <2>1. ASSUME NEW v \in Node PROVE ~HasStatus(v)
    <3>1. DOMAIN outbox[v] = {}
      BY <1>1
    <3> QED BY <3>1 DEF HasStatus
  <2>2. committed.count = 0
    BY <1>1 DEF NothingCommitted
  <2> QED BY <1>2, <1>6, <2>1, <2>2 DEF ControlInv, In, SubmitPhase
<1> QED BY <1>7, <1>9, <1>10, <1>11, <1>12 DEF BenchInv

\* Steps that leave the reports alone, and steps that leave alone what is submitted.
LEMMA SubmissionHolds ==
  ASSUME BenchInv, UNCHANGED <<mode, blocks, at, reportVars>>, mempool' \in [Node -> SUBSET Nat],
         SubmitTypes', PendingInv', ControlTypes', ControlInv'
  PROVE  BenchInv'
<1>1. ChainTypes'
  BY DEF BenchInv, BenchTypes, ChainTypes
<1>2. ReportTypes' /\ ReportInv' /\ CountInv'
  BY OthersKeepReports DEF BenchInv
<1> QED BY <1>1, <1>2 DEF BenchInv, BenchTypes

LEMMA ReportHolds ==
  ASSUME BenchInv, UNCHANGED <<mode, chainVars, ingest, submitter, next>>,
         ReportTypes', ReportInv', CountInv', ControlTypes', ControlInv'
  PROVE  BenchInv'
<1>1. ChainTypes' /\ SubmitTypes'
  BY DEF BenchInv, BenchTypes, ChainTypes, SubmitTypes, chainVars
<1>2. PendingInv'
  BY OthersKeepPending DEF BenchInv, chainVars
<1> QED BY <1>1, <1>2 DEF BenchInv, BenchTypes

LEMMA ChainHolds ==
  ASSUME BenchInv, NEW v \in Node, ProposeBlock(v) \/ CommitsBlock(v) PROVE BenchInv'
<1>1. BenchTypes /\ PendingInv /\ ReportInv /\ CountInv
  BY DEF BenchInv
<1>2. UNCHANGED <<mode, ingest, submitter, next>>
  BY DEF ProposeBlock, CommitsBlock
<1>3. SubmitTypes'
  BY <1>1, <1>2 DEF BenchTypes, SubmitTypes
<1>4. CASE ProposeBlock(v)
  <2>1. blocks' \in Seq(Nat \ {0})
    BY <1>1, <1>4, ProposedAre
  <2>2. UNCHANGED <<at, mempool>>
    BY <1>4 DEF ProposeBlock
  <2>3. ChainTypes'
    BY <1>1, <1>2, <2>1, <2>2 DEF BenchTypes, ChainTypes
  <2>4. PendingInv'
    BY <1>1, <1>4, ProposingKeepsPending
  <2>5. ReportTypes' /\ ReportInv' /\ CountInv'
    BY <1>1, <1>4, ProposingKeepsReports
  <2>6. ControlTypes' /\ ControlInv'
    BY <1>4, ProposingKeepsControl
  <2> QED BY <1>3, <2>3, <2>4, <2>5, <2>6 DEF BenchInv, BenchTypes
<1>5. CASE CommitsBlock(v)
  <2>1. /\ at' = [at EXCEPT ![v] = @ + 1] /\ blocks' = blocks
        /\ mempool' = [mempool EXCEPT ![v] = {t \in @ : t >= NonceAt(at[v] + 1)}]
    BY <1>5 DEF CommitsBlock
  <2>2. at \in [Node -> Nat] /\ mempool \in [Node -> SUBSET Nat] /\ blocks \in Seq(Nat \ {0})
    BY <1>1, BenchTypesSay
  <2>3. at' \in [Node -> Nat] /\ mempool' \in [Node -> SUBSET Nat]
    BY <2>1, <2>2
  <2>4. ChainTypes'
    BY <1>1, <1>2, <2>1, <2>3 DEF BenchTypes, ChainTypes
  <2>5. PendingInv'
    BY <1>1, <1>5, CommittingKeepsPending
  <2>6. ReportTypes' /\ ReportInv' /\ CountInv'
    BY <1>1, <1>5, CommittingKeepsReports
  <2>7. ControlTypes' /\ ControlInv'
    BY <1>5, CommittingKeepsControl
  <2> QED BY <1>3, <2>4, <2>5, <2>6, <2>7 DEF BenchInv, BenchTypes
<1> QED BY <1>4, <1>5

LEMMA SubmittingHolds ==
  ASSUME BenchInv,
         \/ \E s \in Submitters, v \in Node : TakeIndex(s, v)
         \/ \E copy \in ingest, isLost \in BOOLEAN : CopyArrives(copy, isLost)
         \/ \E s \in Submitters : Submitted(s)
         \/ \E s \in Submitters, isUnderWay \in BOOLEAN : AttemptFails(s, isUnderWay)
  PROVE  BenchInv'
<1>1. BenchTypes /\ PendingInv /\ ControlInv /\ mempool \in [Node -> SUBSET Nat]
  BY BenchTypesSay DEF BenchInv
<1>2. ASSUME UNCHANGED <<blocks, at, reportVars, control>>
      PROVE  ControlTypes' /\ ControlInv'
  BY <1>1, <1>2, ControlFrame DEF reportVars
<1>3. ASSUME NEW s \in Submitters, NEW v \in Node, TakeIndex(s, v) PROVE BenchInv'
  <2>1. UNCHANGED <<mode, blocks, at, mempool, reportVars, control>>
    BY <1>3 DEF TakeIndex, chainVars
  <2>2. SubmitTypes' /\ PendingInv'
    BY <1>1, <1>3, TakingKeepsPending
  <2> QED BY <1>1, <1>2, <2>1, <2>2, SubmissionHolds
<1>4. ASSUME NEW copy \in ingest, NEW isLost \in BOOLEAN, CopyArrives(copy, isLost) PROVE BenchInv'
  <2>1. UNCHANGED <<mode, blocks, at, reportVars, control>>
    BY <1>4 DEF CopyArrives
  <2>2. SubmitTypes' /\ PendingInv' /\ mempool' \in [Node -> SUBSET Nat]
    BY <1>1, <1>4, ArrivingKeepsPending
  <2> QED BY <1>2, <2>1, <2>2, SubmissionHolds
<1>5. ASSUME NEW s \in Submitters, Submitted(s) PROVE BenchInv'
  <2>1. UNCHANGED <<mode, blocks, at, reportVars, control>>
    BY <1>5 DEF Submitted
  <2>2. SubmitTypes' /\ PendingInv' /\ mempool' \in [Node -> SUBSET Nat]
    BY <1>1, <1>5, AnswerKeepsPending
  <2> QED BY <1>2, <2>1, <2>2, SubmissionHolds
<1>6. ASSUME NEW s \in Submitters, NEW isUnderWay \in BOOLEAN, AttemptFails(s, isUnderWay)
      PROVE  BenchInv'
  <2>1. UNCHANGED <<mode, blocks, at, mempool, reportVars>>
    BY <1>6 DEF AttemptFails, chainVars
  <2>2. SubmitTypes' /\ PendingInv'
    BY <1>1, <1>6, FailingKeepsPending
  <2>3. ControlTypes' /\ ControlInv'
    BY <1>6, FailingKeepsControl
  <2> QED BY <1>1, <2>1, <2>2, <2>3, SubmissionHolds
<1> QED BY <1>3, <1>4, <1>5, <1>6

LEMMA ReportingStepHolds ==
  ASSUME BenchInv, NEW v \in Node,
         ReportNext(v) \/ ReceiveBlock(v) \/ \E h \in reading[v] : BlockSent(v, h) \/ ReadFails(v, h)
  PROVE  BenchInv'
<1>1. BenchTypes /\ PendingInv /\ ReportInv /\ CountInv /\ ControlInv
  BY DEF BenchInv
<1>2. UNCHANGED <<mode, chainVars, ingest, submitter, next, control>>
  BY DEF ReportNext, ReceiveBlock, BlockSent, ReadFails, ReportKeeps
<1>3. CASE ReceiveBlock(v)
  <2>1. ReportTypes' /\ ReportInv' /\ CountInv'
    BY <1>1, <1>3, ReceivingKeepsReports
  <2>2. ControlTypes' /\ ControlInv'
    BY <1>3, ReceivingKeepsControl
  <2> QED BY <1>2, <2>1, <2>2, ReportHolds
<1>4. CASE ReportNext(v)
  <2>1. ReportTypes' /\ ReportInv' /\ CountInv'
    BY <1>1, <1>4, ReportNextKeepsReports
  <2>2. UNCHANGED <<outbox, committed>>
    BY <1>4 DEF ReportNext
  <2>3. ControlTypes' /\ ControlInv'
    BY <1>1, <1>2, <2>2, ControlFrame DEF chainVars
  <2> QED BY <1>2, <2>1, <2>3, ReportHolds
<1>5. ASSUME NEW h \in reading[v], ReadFails(v, h) PROVE BenchInv'
  <2>1. ReportTypes' /\ ReportInv' /\ CountInv'
    BY <1>1, <1>5, ReadFailsKeepsReports
  <2>2. UNCHANGED <<outbox, committed>>
    BY <1>5 DEF ReadFails
  <2>3. ControlTypes' /\ ControlInv'
    BY <1>1, <1>2, <2>2, ControlFrame DEF chainVars
  <2> QED BY <1>2, <2>1, <2>3, ReportHolds
<1>6. ASSUME NEW h \in reading[v], BlockSent(v, h) PROVE BenchInv'
  <2>1. /\ ReportTypes' /\ ReportInv' /\ CountInv'
        /\ \E m \in BenchBlock : outbox' = [outbox EXCEPT ![v] = Append(@, m)]
    BY <1>1, <1>6, SendingKeepsReports
  <2>2. h \in Nat
    BY <1>1, NodesSay
  <2>3. ControlTypes' /\ ControlInv'
    BY <1>1, <1>6, <2>1, <2>2, SendingKeepsControl
  <2> QED BY <1>2, <2>1, <2>3, ReportHolds
<1> QED BY <1>3, <1>4, <1>5, <1>6

LEMMA StatusStepHolds ==
  ASSUME BenchInv, NEW v \in Node, StatusSent(v) \/ ReceiveStatus(v) \/ StatusRead(v)
  PROVE  BenchInv'
<1>1. BenchTypes /\ PendingInv /\ ReportInv /\ CountInv /\ ControlInv
  BY DEF BenchInv
<1>2. UNCHANGED <<mode, chainVars, ingest, submitter, next>>
  BY DEF StatusSent, ReceiveStatus, StatusRead, ControlKeeps
<1>3. CASE StatusSent(v)
  <2>1. /\ ReportTypes' /\ ReportInv' /\ CountInv'
        /\ \E m \in BenchStatus : m.head = at[v] /\ outbox' = [outbox EXCEPT ![v] = Append(@, m)]
    BY <1>1, <1>3, StatusKeepsReports
  <2>2. ControlTypes' /\ ControlInv'
    BY <1>1, <1>3, <2>1, StatusKeepsControl
  <2> QED BY <1>2, <2>1, <2>2, ReportHolds
<1>4. CASE ReceiveStatus(v)
  <2>1. ReportTypes' /\ ReportInv' /\ CountInv'
    BY <1>1, <1>4, StatusTakenKeepsReports
  <2>2. ControlTypes' /\ ControlInv'
    BY <1>4, StatusTakenKeepsControl
  <2> QED BY <1>2, <2>1, <2>2, ReportHolds
<1>5. CASE StatusRead(v)
  <2>1. reportVars' = reportVars
    BY <1>5 DEF StatusRead
  <2>2. ReportTypes' /\ ReportInv' /\ CountInv'
    BY <1>1, <1>2, <2>1, OthersKeepReports DEF chainVars
  <2>3. ControlTypes' /\ ControlInv'
    BY <1>5, StatusReadKeepsControl
  <2> QED BY <1>2, <2>2, <2>3, ReportHolds
<1> QED BY <1>3, <1>4, <1>5

LEMMA ControllerHolds ==
  ASSUME BenchInv, WindowSubmitted \/ CountAtFirst \/ CountReached \/ Converges \/ TimesOut
  PROVE  BenchInv'
<1>1. BenchTypes /\ PendingInv /\ ReportInv /\ CountInv /\ ControlInv
  BY DEF BenchInv
<1>2. UNCHANGED <<mode, chainVars, ingest, submitter, next>>
  BY DEF WindowSubmitted, CountAtFirst, CountReached, Converges, TimesOut, ReportKeeps, ControlKeeps
<1>3. ReportTypes' /\ ReportInv' /\ CountInv'
  <2>1. CASE WindowSubmitted
    BY <1>1, <2>1, WindowKeepsReports
  <2>2. CASE CountAtFirst
    BY <1>1, <2>2, FirstKeepsReports
  <2>3. CASE CountReached \/ Converges \/ TimesOut
    <3>1. reportVars' = reportVars
      BY <2>3 DEF CountReached, Converges, TimesOut
    <3> QED BY <1>1, <1>2, <3>1, OthersKeepReports DEF chainVars
  <2> QED BY <2>1, <2>2, <2>3
<1>4. ControlTypes' /\ ControlInv'
  BY WindowKeepsControl, FirstKeepsControl, ReachedKeepsControl, ConvergingKeepsControl,
     TimeOutKeepsControl
<1> QED BY <1>2, <1>3, <1>4, ReportHolds

LEMMA BenchStutters ==
  ASSUME BenchInv, UNCHANGED benchVars PROVE BenchInv'
<1>1. UNCHANGED <<mode, chainVars, ingest, submitter, next>> /\ UNCHANGED <<blocks, at>>
      /\ UNCHANGED <<mode, blocks, at, reportVars>> /\ UNCHANGED <<outbox, committed, control>>
  BY DEF benchVars, chainVars, reportVars
<1>2. ReportTypes' /\ ReportInv' /\ CountInv'
  BY <1>1, OthersKeepReports DEF BenchInv
<1>3. ControlTypes' /\ ControlInv'
  BY <1>1, ControlFrame DEF BenchInv
<1> QED BY <1>1, <1>2, <1>3, ReportHolds

LEMMA BenchStepHolds == BenchInv /\ [BenchNext]_benchVars => BenchInv'
<1> SUFFICES ASSUME BenchInv, BenchNext \/ UNCHANGED benchVars PROVE BenchInv'
  OBVIOUS
<1>1. CASE UNCHANGED benchVars
  BY <1>1, BenchStutters
<1>2. ASSUME NEW v \in Node, ProposeBlock(v) \/ CommitsBlock(v) PROVE BenchInv'
  BY <1>2, ChainHolds
<1>3. ASSUME NEW v \in Node,
             \/ ReportNext(v) \/ ReceiveBlock(v)
             \/ \E h \in reading[v] : BlockSent(v, h) \/ ReadFails(v, h)
      PROVE  BenchInv'
  BY <1>3, ReportingStepHolds
<1>4. ASSUME NEW v \in Node, StatusSent(v) \/ ReceiveStatus(v) \/ StatusRead(v) PROVE BenchInv'
  BY <1>4, StatusStepHolds
<1>5. CASE \/ \E s \in Submitters, v \in Node : TakeIndex(s, v)
           \/ \E copy \in ingest, isLost \in BOOLEAN : CopyArrives(copy, isLost)
           \/ \E s \in Submitters : Submitted(s)
           \/ \E s \in Submitters, isUnderWay \in BOOLEAN : AttemptFails(s, isUnderWay)
  BY <1>5, SubmittingHolds
<1>6. CASE WindowSubmitted \/ CountAtFirst \/ CountReached \/ Converges \/ TimesOut
  BY <1>6, ControllerHolds
<1> QED BY <1>1, <1>2, <1>3, <1>4, <1>5, <1>6 DEF BenchNext

\* The invariant says that the report is true.
LEMMA ReportFollows == BenchInv => ReportIsTrue
<1> SUFFICES ASSUME BenchInv, ByTheirHeight
             PROVE  /\ In("written") =>
                         /\ control.count = Txs /\ Total = Txs
                         /\ control.head = Len(blocks) /\ \A v \in Node : at[v] = Len(blocks)
                    /\ In("submit") => Total >= control.until - Window
                    /\ committed.count <= Total
  BY DEF ReportIsTrue, Total
<1>1. BenchTypes /\ PendingInv /\ ReportInv /\ CountInv /\ ControlInv
  BY DEF BenchInv
<1>2. committed.count \in Nat /\ committed.count <= Total /\ Total \in Nat
  BY <1>1, CountIsOnChain
<1>3. ASSUME In("submit") PROVE Total >= control.until - Window
  <2>1. control.until <= committed.count + Window /\ control.until \in Nat /\ Window \in Nat
    BY <1>1, <1>3, ControlSays, BenchAssumption DEF ControlInv
  <2> QED BY <1>2, <2>1
<1> QED BY <1>1, <1>2, <1>3 DEF ControlInv

\* Whatever is counted is on the chain once, and the controller goes on only from
\* what the chain holds, in every state of both benchmarks.
THEOREM BenchInvariant == BenchSpec => []BenchInv
<1>1. BenchInit => BenchInv
  BY BenchStarts
<1>2. BenchInv /\ [BenchNext]_benchVars => BenchInv'
  BY BenchStepHolds
<1> QED BY <1>1, <1>2, PTL DEF BenchSpec

\* For any cluster, window and number of transactions: a report that is written counts
\* every transaction once and names the head every node stands at, and no window is
\* submitted before the one before it is on the chain, wherever blocks were counted
\* under their own heights.
THEOREM ReportsAreTrue == BenchSpec => []ReportIsTrue
BY BenchInvariant, ReportFollows, PTL
=============================================================================
