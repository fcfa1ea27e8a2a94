----------------------------- MODULE StorageProofs -----------------------------
(***************************************************************************)
(* Proofs about Storage, for any keys, values, readers and bounds.         *)
(***************************************************************************)
EXTENDS Storage, FoldProofs, SequenceTheorems, FiniteSetTheorems,
        WellFoundedInduction, TLAPS

-----------------------------------------------------------------------------
(* Overlays are nested transactions.  Written out over a store and layers,   *)
(* level i reads its own write, or what the level below reads: the greatest  *)
(* writer is never looked for.                                               *)

None == Overlays!Unwritten

Map   == [Key -> LayerValue \cup {Overlays!Empty}]
Layer == [Key -> LayerValue \cup {Overlays!Empty, None}]

WritersIn(ls, i, k) == {j \in 1 .. i : ls[j][k] # None}

Read(st, ls, i, k) ==
  IF WritersIn(ls, i, k) = {} THEN st[k]
                              ELSE ls[Overlays!Max(WritersIn(ls, i, k))][k]

Levels(st, ls) == [i \in 1 .. Len(ls) + 1 |-> [k \in Key |-> Read(st, ls, i - 1, k)]]

OverlayTypes == store \in Map /\ layers \in Seq(Layer) /\ Len(layers) <= MaxLayers

LEMMA ReadStore ==
  ASSUME NEW st, NEW ls, NEW k
  PROVE  Read(st, ls, 0, k) = st[k]
BY DEF Read, WritersIn

\* A level reads its own write, or what the one below reads.
LEMMA ReadLevel ==
  ASSUME NEW st, NEW ls, NEW i \in Nat \ {0}, NEW k
  PROVE  Read(st, ls, i, k) = IF ls[i][k] # None THEN ls[i][k] ELSE Read(st, ls, i - 1, k)
<1>1. CASE ls[i][k] = None
  <2>1. WritersIn(ls, i, k) = WritersIn(ls, i - 1, k)
    BY <1>1 DEF WritersIn
  <2> QED BY <1>1, <2>1 DEF Read
<1>2. CASE ls[i][k] # None
  <2> DEFINE W == WritersIn(ls, i, k)
  <2>1. i \in W /\ W \subseteq 1 .. i
    BY <1>2 DEF WritersIn
  <2> HIDE DEF W
  <2>2. \E x \in W : \A y \in W : x >= y
    BY <2>1
  <2>3. Overlays!Max(W) \in W /\ \A y \in W : Overlays!Max(W) >= y
    BY <2>2 DEF Overlays!Max
  <2>4. Overlays!Max(W) = i
    <3> DEFINE m == Overlays!Max(W)
    <3>1. m \in 1 .. i /\ m >= i
      BY <2>1, <2>3
    <3> HIDE DEF m
    <3>2. m = i
      BY <3>1
    <3> QED BY <3>2 DEF m
  <2> QED BY <1>2, <2>1, <2>4 DEF Read, W
<1> QED BY <1>1, <1>2

\* It depends on the levels up to its own.
LEMMA ReadSame ==
  ASSUME NEW st, NEW ls, NEW ms, NEW i \in Nat, \A j \in 1 .. i : ls[j] = ms[j], NEW k
  PROVE  Read(st, ls, i, k) = Read(st, ms, i, k)
<1>1. WritersIn(ls, i, k) = WritersIn(ms, i, k)
  BY DEF WritersIn
<1> DEFINE W == WritersIn(ls, i, k)
<1>2. CASE W = {}
  BY <1>1, <1>2 DEF Read
<1>3. CASE W # {}
  <2>1. W \subseteq 1 .. i
    BY DEF WritersIn
  <2>2. Overlays!Max(W) \in 1 .. i
    BY <1>3, <2>1, GreatestIs DEF Overlays!Max
  <2>3. ls[Overlays!Max(W)] = ms[Overlays!Max(W)]
    BY <2>2
  <2> QED BY <1>1, <1>3, <2>3 DEF Read
<1> QED BY <1>2, <1>3

\* Level by level: each one is its layer over the level below.
LEMMA LevelsAre ==
  ASSUME NEW st \in Map, NEW ls \in Seq(Layer)
  PROVE  /\ Levels(st, ls) \in Seq(Map) /\ Len(Levels(st, ls)) = Len(ls) + 1
         /\ Levels(st, ls)[1] = st
         /\ \A i \in 1 .. Len(ls) :
              Levels(st, ls)[i + 1] = Overlays!Merged(ls[i], Levels(st, ls)[i])
<1> DEFINE V == Levels(st, ls)
<1>1. Len(ls) \in Nat /\ \A i \in 1 .. Len(ls) : ls[i] \in Layer
  OBVIOUS
<1>2. ASSUME NEW i \in 0 .. Len(ls), NEW k \in Key
      PROVE  Read(st, ls, i, k) \in LayerValue \cup {Overlays!Empty}
  <2> DEFINE W == WritersIn(ls, i, k)
  <2>1. CASE W = {}
    BY <2>1 DEF Read, Map
  <2>2. CASE W # {}
    <3>1. i \in Nat /\ W \in SUBSET (1 .. i)
      BY <1>1 DEF WritersIn
    <3>2. Overlays!Max(W) \in W
      <4> HIDE DEF W
      <4>1. \E x \in W : \A y \in W : x >= y
        BY <2>2, <3>1, GreatestIs
      <4> QED
        BY <4>1 DEF Overlays!Max
    <3>3. Overlays!Max(W) \in 1 .. Len(ls) /\ ls[Overlays!Max(W)][k] # None
      BY <1>1, <3>1, <3>2 DEF WritersIn
    <3>4. ls[Overlays!Max(W)][k] \in LayerValue \cup {Overlays!Empty, None}
      BY <1>1, <3>3 DEF Layer
    <3> QED BY <2>2, <3>3, <3>4 DEF Read
  <2> QED BY <2>1, <2>2
<1>3. V \in [1 .. Len(ls) + 1 -> Map]
  <2>1. ASSUME NEW i \in 1 .. Len(ls) + 1 PROVE [k \in Key |-> Read(st, ls, i - 1, k)] \in Map
    <3>1. i - 1 \in 0 .. Len(ls)
      BY <1>1
    <3> QED BY <1>2, <3>1 DEF Map
  <2> QED BY <2>1 DEF Levels
<1>4. V \in Seq(Map) /\ Len(V) = Len(ls) + 1
  <2>1. Len(ls) + 1 \in Nat
    BY <1>1
  <2> HIDE DEF V
  <2> QED BY <1>3, <2>1
<1>5. \A i \in 0 .. Len(ls) : V[i + 1] = [k \in Key |-> Read(st, ls, i, k)]
  <2> SUFFICES ASSUME NEW i \in 0 .. Len(ls) PROVE V[i + 1] = [k \in Key |-> Read(st, ls, i, k)]
    OBVIOUS
  <2>1. i + 1 \in 1 .. Len(ls) + 1 /\ (i + 1) - 1 = i
    BY <1>1
  <2> QED BY <2>1 DEF Levels
<1>6. V[1] = st
  <2>1. V[0 + 1] = [k \in Key |-> Read(st, ls, 0, k)]
    BY <1>1, <1>5
  <2>2. st = [k \in Key |-> st[k]]
    BY DEF Map
  <2> QED BY <2>1, <2>2, ReadStore
<1>7. ASSUME NEW i \in 1 .. Len(ls) PROVE V[i + 1] = Overlays!Merged(ls[i], V[i])
  <2>1. i \in Nat \ {0} /\ i \in 0 .. Len(ls) /\ i - 1 \in 0 .. Len(ls) /\ (i - 1) + 1 = i
    BY <1>1
  <2>2. V[i + 1] = [k \in Key |-> Read(st, ls, i, k)]
    BY <1>5, <2>1
  <2>3. V[(i - 1) + 1] = [k \in Key |-> Read(st, ls, i - 1, k)]
    BY <1>5, <2>1
  <2> HIDE DEF V
  <2>4. \A k \in Key : V[i][k] = Read(st, ls, i - 1, k)
    BY <2>1, <2>3
  <2>5. \A k \in Key :
          Read(st, ls, i, k) = IF ls[i][k] = None THEN V[i][k] ELSE ls[i][k]
    BY <2>1, <2>4, ReadLevel
  <2> QED BY <2>2, <2>5 DEF Overlays!Merged, None
<1> QED BY <1>4, <1>6, <1>7

LEMMA LevelsSame ==
  ASSUME NEW st \in Map, NEW ls \in Seq(Layer), NEW ms \in Seq(Layer),
         NEW n \in Nat, n <= Len(ls), n <= Len(ms), \A i \in 1 .. n : ls[i] = ms[i]
  PROVE  \A i \in 1 .. n + 1 : Levels(st, ls)[i] = Levels(st, ms)[i]
<1> SUFFICES ASSUME NEW i \in 1 .. n + 1 PROVE Levels(st, ls)[i] = Levels(st, ms)[i]
  OBVIOUS
<1>1. i \in 1 .. Len(ls) + 1 /\ i \in 1 .. Len(ms) + 1 /\ i - 1 \in Nat /\ i - 1 <= n
  OBVIOUS
<1>2. \A j \in 1 .. i - 1 : ls[j] = ms[j]
  BY <1>1
<1>3. \A k \in Key : Read(st, ls, i - 1, k) = Read(st, ms, i - 1, k)
  BY <1>1, <1>2, ReadSame
<1> QED BY <1>1, <1>3 DEF Levels

-----------------------------------------------------------------------------
(* What each operation does to the levels.                                   *)

\* Merging twice is merging once, wherever the parentheses are.
LEMMA MergedTwice ==
  ASSUME NEW a \in Layer, NEW b \in Layer, NEW m \in Map
  PROVE  Overlays!Merged(Overlays!Merged(a, b), m) = Overlays!Merged(a, Overlays!Merged(b, m))
BY DEF Overlays!Merged, Layer, Map, None

LEMMA MergedIsLayer ==
  ASSUME NEW a \in Layer, NEW b \in Layer
  PROVE  Overlays!Merged(a, b) \in Layer
BY DEF Overlays!Merged, Layer, None

LEMMA LevelsOpened ==
  ASSUME NEW st \in Map, NEW ls \in Seq(Layer), NEW ms \in Seq(Layer),
         Len(ms) = Len(ls) + 1, \A i \in 1 .. Len(ls) : ms[i] = ls[i],
         ms[Len(ls) + 1] = [k \in Key |-> None],
         NEW V, V = Levels(st, ls)
  PROVE  Levels(st, ms) = Append(V, V[Len(V)])
<1> DEFINE W == Levels(st, ms)
           n == Len(ls)
<1>1. n \in Nat /\ Len(ms) = n + 1
  OBVIOUS
<1>2. V \in Seq(Map) /\ Len(V) = n + 1
  BY LevelsAre
<1>3. W \in Seq(Map) /\ Len(W) = n + 2
  BY <1>1, LevelsAre
<1>4. \A i \in 1 .. n + 1 : W[i] = V[i]
  BY <1>1, LevelsSame
<1>5. W[n + 2] = V[n + 1]
  <2>1. \A i \in 1 .. Len(ms) : Levels(st, ms)[i + 1] = Overlays!Merged(ms[i], Levels(st, ms)[i])
    BY LevelsAre
  <2>2. W[(n + 1) + 1] = Overlays!Merged(ms[n + 1], W[n + 1])
    BY <1>1, <2>1
  <2>3. W[n + 1] = V[n + 1] /\ V[n + 1] \in Map
    BY <1>1, <1>2, <1>4
  <2> HIDE DEF W
  <2>4. Overlays!Merged([k \in Key |-> None], V[n + 1]) = V[n + 1]
    BY <2>3 DEF Overlays!Merged, Map, None
  <2> QED BY <1>1, <2>2, <2>3, <2>4
<1> HIDE DEF W
<1>6. Append(V, V[n + 1]) \in Seq(Map) /\ Len(Append(V, V[n + 1])) = n + 2
      /\ (\A i \in 1 .. n + 1 : Append(V, V[n + 1])[i] = V[i])
      /\ Append(V, V[n + 1])[n + 2] = V[n + 1]
  <2>1. V[n + 1] \in Map
    BY <1>1, <1>2
  <2> QED BY <1>1, <1>2, <2>1
<1>7. \A i \in 1 .. n + 2 : W[i] = Append(V, V[n + 1])[i]
  BY <1>1, <1>4, <1>5, <1>6
<1>8. W = Append(V, V[n + 1])
  BY <1>3, <1>6, <1>7, SeqEqual
<1> QED BY <1>2, <1>8 DEF W

Put(f, k, v)      == [f EXCEPT ![k] = v]
PutOnTop(V, k, v) == [V EXCEPT ![Len(V)][k] = v]
Under(V)          == SubSeq(V, 1, Len(V) - 1)
FoldTop(V, m)     == [Under(V) EXCEPT ![Len(V) - 1] = m]

LEMMA LevelsWritten ==
  ASSUME NEW st \in Map, NEW ls \in Seq(Layer), ls # <<>>, NEW k \in Key, NEW v, v # None,
         NEW ms \in Seq(Layer), Len(ms) = Len(ls), \A i \in 1 .. Len(ls) - 1 : ms[i] = ls[i],
         ms[Len(ls)] = Put(ls[Len(ls)], k, v),
         NEW V, V = Levels(st, ls)
  PROVE  Levels(st, ms) = PutOnTop(V, k, v)
<1> DEFINE W == Levels(st, ms)
           n == Len(ls)
<1>1. n \in Nat \ {0} /\ ls[n] \in Layer /\ Len(ms) = n /\ ms[n] = Put(ls[n], k, v)
  OBVIOUS
<1>2. V \in Seq(Map) /\ Len(V) = n + 1
  BY LevelsAre
<1>3. W \in Seq(Map) /\ Len(W) = n + 1
  BY <1>1, LevelsAre
<1>4. \A i \in 1 .. n : W[i] = V[i]
  <2>1. n - 1 \in Nat /\ (n - 1) + 1 = n
    BY <1>1
  <2>2. n - 1 <= Len(ls) /\ n - 1 <= Len(ms) /\ \A i \in 1 .. n - 1 : ls[i] = ms[i]
    BY <1>1
  <2> DEFINE p == n - 1
  <2> HIDE DEF p, n, W
  <2>3. \A i \in 1 .. p + 1 : Levels(st, ls)[i] = Levels(st, ms)[i]
    <3>1. p \in Nat /\ p <= Len(ls) /\ p <= Len(ms) /\ \A i \in 1 .. p : ls[i] = ms[i]
      BY <2>1, <2>2 DEF p
    <3> QED BY ONLY <3>1, ls \in Seq(Layer), ms \in Seq(Layer), st \in Map, LevelsSame
  <2> QED BY <2>1, <2>3 DEF p, W
<1>5. W[n + 1] = Put(V[n + 1], k, v)
  <2>1. W[n + 1] = Overlays!Merged(ms[n], W[n])
    BY <1>1, LevelsAre
  <2>2. V[n + 1] = Overlays!Merged(ls[n], V[n])
    BY ONLY <1>1, st \in Map, ls \in Seq(Layer), V = Levels(st, ls), LevelsAre
  <2> HIDE DEF W
  <2>3. Overlays!Merged(Put(ls[n], k, v), V[n]) = Put(Overlays!Merged(ls[n], V[n]), k, v)
    BY <1>1 DEF Overlays!Merged, Layer, None, Put
  <2>4. W[n] = V[n]
    BY <1>1, <1>4
  <2> QED BY <1>1, <2>1, <2>2, <2>3, <2>4
<1> HIDE DEF W, n
<1> DEFINE U == PutOnTop(V, k, v)
<1>6. U = [V EXCEPT ![n + 1] = W[n + 1]]
  BY <1>2, <1>5 DEF Put, PutOnTop
<1>7. W[n + 1] \in Map /\ n + 1 \in 1 .. Len(V)
  BY <1>1, <1>2, <1>3
<1> HIDE DEF U
<1>8. /\ U \in Seq(Map) /\ Len(U) = n + 1
      /\ \A i \in 1 .. n : U[i] = V[i]
      /\ U[n + 1] = W[n + 1]
  BY <1>1, <1>2, <1>6, <1>7
<1>9. \A i \in 1 .. n + 1 : W[i] = U[i]
  BY <1>1, <1>4, <1>8
<1>10. W = U
  BY <1>3, <1>8, <1>9, SeqEqual
<1> QED BY <1>10 DEF W, U

LEMMA LevelsDropped ==
  ASSUME NEW st \in Map, NEW ls \in Seq(Layer), ls # <<>>,
         NEW ms \in Seq(Layer), Len(ms) = Len(ls) - 1, \A i \in 1 .. Len(ls) - 1 : ms[i] = ls[i],
         NEW V, V = Levels(st, ls)
  PROVE  Levels(st, ms) = SubSeq(V, 1, Len(V) - 1)
<1> DEFINE W == Levels(st, ms)
           n == Len(ls)
<1>1. n \in Nat \ {0} /\ n - 1 \in Nat /\ (n - 1) + 1 = n /\ Len(ms) = n - 1
  OBVIOUS
<1>2. V \in Seq(Map) /\ Len(V) = n + 1
  BY LevelsAre
<1>3. W \in Seq(Map) /\ Len(W) = n
  BY <1>1, LevelsAre
<1>4. \A i \in 1 .. n : W[i] = V[i]
  <2>1. \A i \in 1 .. (n - 1) + 1 : Levels(st, ls)[i] = Levels(st, ms)[i]
    BY <1>1, LevelsSame
  <2> QED BY <1>1, <2>1
<1> HIDE DEF W
<1>5. SubSeq(V, 1, n) \in Seq(Map) /\ Len(SubSeq(V, 1, n)) = n
        /\ \A i \in 1 .. n : SubSeq(V, 1, n)[i] = V[i]
  BY <1>1, <1>2
<1>6. W = SubSeq(V, 1, n)
  BY <1>3, <1>4, <1>5, SeqEqual
<1>7. Len(V) - 1 = n
  BY <1>1, <1>2
<1> QED BY <1>6, <1>7 DEF W

LEMMA LevelsCommitted ==
  ASSUME NEW st \in Map, NEW ls \in Seq(Layer), Len(ls) > 1,
         NEW ms \in Seq(Layer), Len(ms) = Len(ls) - 1, \A i \in 1 .. Len(ls) - 2 : ms[i] = ls[i],
         ms[Len(ls) - 1] = Overlays!Merged(ls[Len(ls)], ls[Len(ls) - 1]),
         NEW V, V = Levels(st, ls)
  PROVE  Levels(st, ms) = [SubSeq(V, 1, Len(V) - 1) EXCEPT ![Len(V) - 1] = V[Len(V)]]
<1> DEFINE W == Levels(st, ms)
           n == Len(ls)
<1>1. n \in Nat /\ n > 1 /\ ls[n] \in Layer /\ ls[n - 1] \in Layer /\ Len(ms) = n - 1
      /\ (n - 2) + 1 = n - 1 /\ (n - 1) + 1 = n /\ n - 2 \in Nat
  OBVIOUS
<1>2. V \in Seq(Map) /\ Len(V) = n + 1
  BY LevelsAre
<1>3. W \in Seq(Map) /\ Len(W) = n
  BY <1>1, LevelsAre
<1>4. \A i \in 1 .. n - 1 : W[i] = V[i]
  <2>1. n - 2 <= Len(ls) /\ n - 2 <= Len(ms) /\ \A i \in 1 .. n - 2 : ls[i] = ms[i]
    BY <1>1
  <2> HIDE DEF n
  <2>2. \A i \in 1 .. (n - 2) + 1 : Levels(st, ls)[i] = Levels(st, ms)[i]
    BY <1>1, <2>1, LevelsSame
  <2> QED BY <1>1, <2>2
<1>5. W[n] = V[n + 1]
  <2>1. \A i \in 1 .. Len(ms) : Levels(st, ms)[i + 1] = Overlays!Merged(ms[i], Levels(st, ms)[i])
    BY LevelsAre
  <2>2. \A i \in 1 .. n : V[i + 1] = Overlays!Merged(ls[i], V[i])
    BY LevelsAre
  <2>3. W[(n - 1) + 1] = Overlays!Merged(ms[n - 1], W[n - 1])
    BY <1>1, <2>1
  <2>4. V[(n - 1) + 1] = Overlays!Merged(ls[n - 1], V[n - 1])
        /\ V[n + 1] = Overlays!Merged(ls[n], V[n])
    BY <1>1, <2>2
  <2>5. V[n - 1] \in Map /\ W[n - 1] = V[n - 1]
    BY <1>1, <1>2, <1>4
  <2> HIDE DEF W
  <2>6. Overlays!Merged(Overlays!Merged(ls[n], ls[n - 1]), V[n - 1])
          = Overlays!Merged(ls[n], Overlays!Merged(ls[n - 1], V[n - 1]))
    BY <1>1, <2>5, MergedTwice
  <2> QED BY <1>1, <2>3, <2>4, <2>5, <2>6
<1> HIDE DEF W
<1>6. W = [SubSeq(V, 1, n) EXCEPT ![n] = V[n + 1]]
  <2> DEFINE B == SubSeq(V, 1, n)
             U == [B EXCEPT ![n] = V[n + 1]]
  <2>1. B \in Seq(Map) /\ Len(B) = n /\ \A i \in 1 .. n : B[i] = V[i]
    BY <1>1, <1>2
  <2> HIDE DEF B
  <2>2. V[n + 1] \in Map
    BY <1>1, <1>2
  <2>3. U \in Seq(Map) /\ Len(U) = n /\ U[n] = V[n + 1] /\ \A i \in 1 .. n - 1 : U[i] = B[i]
    BY <1>1, <2>1, <2>2
  <2> HIDE DEF U
  <2>4. \A i \in 1 .. n : W[i] = U[i]
    BY <1>1, <1>4, <1>5, <2>1, <2>3
  <2>5. W = U
    BY <1>3, <2>3, <2>4, SeqEqual
  <2> QED BY <2>5 DEF U, B
<1>7. Len(V) - 1 = n /\ Len(V) = n + 1
  BY <1>1, <1>2
<1> QED BY <1>6, <1>7 DEF W

-----------------------------------------------------------------------------
(* What each operation of Overlay leaves.                                    *)

LEMMA EffectOfOpen ==
  ASSUME NEW st \in Map, NEW ls \in Seq(Layer), NEW ms, ms = Append(ls, [k \in Key |-> None]),
         NEW V, V = Levels(st, ls)
  PROVE  /\ ms \in Seq(Layer) /\ Len(ms) = Len(ls) + 1
         /\ Levels(st, ms) = Append(V, V[Len(V)])
<1>1. [k \in Key |-> None] \in Layer
  BY DEF Layer
<1>2. /\ ms \in Seq(Layer) /\ Len(ms) = Len(ls) + 1
      /\ \A i \in 1 .. Len(ls) : ms[i] = ls[i]
      /\ ms[Len(ls) + 1] = [k \in Key |-> None]
  BY <1>1
<1>3. Levels(st, ms) = Append(V, V[Len(V)])
  BY ONLY <1>2, st \in Map, ls \in Seq(Layer), V = Levels(st, ls), LevelsOpened
<1> QED BY ONLY <1>2, <1>3

LEMMA EffectOfWrite ==
  ASSUME NEW st \in Map, NEW ls \in Seq(Layer), ls # <<>>,
         NEW k \in Key, NEW v \in LayerValue \cup {Overlays!Empty},
         NEW ms, ms = PutOnTop(ls, k, v), NEW V, V = Levels(st, ls)
  PROVE  /\ ms \in Seq(Layer) /\ Len(ms) = Len(ls)
         /\ Levels(st, ms) = PutOnTop(V, k, v)
<1> DEFINE top == Put(ls[Len(ls)], k, v)
<1>1. Len(ls) \in 1 .. Len(ls) /\ ls[Len(ls)] \in Layer
  OBVIOUS
<1>2. v # None
  BY StorageAssumption DEF None, Overlays!Unwritten, Overlays!Empty
<1>3. top \in Layer
  BY <1>1 DEF Layer, Put
<1>4. ms = [ls EXCEPT ![Len(ls)] = top]
  BY DEF Put, PutOnTop
<1> HIDE DEF top
<1>5. /\ ms \in Seq(Layer) /\ Len(ms) = Len(ls)
      /\ \A i \in 1 .. Len(ls) - 1 : ms[i] = ls[i]
      /\ ms[Len(ls)] = top
  BY <1>1, <1>3, <1>4
<1>6. ms[Len(ls)] = Put(ls[Len(ls)], k, v)
  BY <1>5 DEF top
<1>7. Levels(st, ms) = PutOnTop(V, k, v)
  BY ONLY <1>2, <1>5, <1>6, ls # <<>>, k \in Key,
          st \in Map, ls \in Seq(Layer), V = Levels(st, ls), LevelsWritten
<1> QED BY ONLY <1>5, <1>7

LEMMA EffectOfDrop ==
  ASSUME NEW st \in Map, NEW ls \in Seq(Layer), ls # <<>>,
         NEW ms, ms = Under(ls),
         NEW V, V = Levels(st, ls)
  PROVE  /\ ms \in Seq(Layer) /\ Len(ms) = Len(ls) - 1
         /\ Levels(st, ms) = Under(V)
<1> DEFINE p == Len(ls) - 1
<1>1. p \in Nat /\ p <= Len(ls) /\ ms = SubSeq(ls, 1, p)
  BY DEF Under
<1> HIDE DEF p
<1>2. ms \in Seq(Layer) /\ Len(ms) = p /\ \A i \in 1 .. p : ms[i] = ls[i]
  BY ONLY <1>1, ls \in Seq(Layer)
<1>3. Levels(st, ms) = SubSeq(V, 1, Len(V) - 1)
  <2>1. ms \in Seq(Layer) /\ Len(ms) = Len(ls) - 1 /\ \A i \in 1 .. Len(ls) - 1 : ms[i] = ls[i]
    BY ONLY <1>2 DEF p
  <2> QED BY ONLY <2>1, ls # <<>>, st \in Map, ls \in Seq(Layer), V = Levels(st, ls), LevelsDropped
<1> QED BY ONLY <1>2, <1>3 DEF p, Under

LEMMA EffectOfCommit ==
  ASSUME NEW st \in Map, NEW ls \in Seq(Layer), Len(ls) > 1,
         NEW m, m = Overlays!Merged(ls[Len(ls)], ls[Len(ls) - 1]),
         NEW ms, ms = FoldTop(ls, m),
         NEW V, V = Levels(st, ls)
  PROVE  /\ ms \in Seq(Layer) /\ Len(ms) = Len(ls) - 1
         /\ Levels(st, ms) = FoldTop(V, V[Len(V)])
<1> DEFINE p    == Len(ls) - 1
           rest == SubSeq(ls, 1, p)
<1>1. p \in Nat /\ p >= 1 /\ p + 1 = Len(ls) /\ p - 1 = Len(ls) - 2
  OBVIOUS
<1>2. ms = [rest EXCEPT ![p] = m] /\ m = Overlays!Merged(ls[p + 1], ls[p])
  BY <1>1 DEF FoldTop, Under
<1> HIDE DEF p
<1>3. ls[p + 1] \in Layer /\ ls[p] \in Layer
  BY ONLY <1>1, ls \in Seq(Layer)
<1>4. m \in Layer
  BY ONLY <1>2, <1>3, MergedIsLayer
<1>5. rest \in Seq(Layer) /\ Len(rest) = p /\ \A i \in 1 .. p : rest[i] = ls[i]
  BY ONLY <1>1, ls \in Seq(Layer)
<1> HIDE DEF rest
<1>6. /\ ms \in Seq(Layer) /\ Len(ms) = p /\ ms[p] = m
      /\ \A i \in 1 .. p - 1 : ms[i] = ls[i]
  BY ONLY <1>1, <1>2, <1>4, <1>5
<1>7. Levels(st, ms) = [SubSeq(V, 1, Len(V) - 1) EXCEPT ![Len(V) - 1] = V[Len(V)]]
  <2>1. /\ ms \in Seq(Layer) /\ Len(ms) = Len(ls) - 1
        /\ \A i \in 1 .. Len(ls) - 2 : ms[i] = ls[i]
        /\ ms[Len(ls) - 1] = Overlays!Merged(ls[Len(ls)], ls[Len(ls) - 1])
    <3>1. /\ Len(ms) = Len(ls) - 1 /\ \A i \in 1 .. Len(ls) - 2 : ms[i] = ls[i]
          /\ ms[Len(ls) - 1] = m
      BY ONLY <1>1, <1>6 DEF p
    <3> QED BY ONLY <1>6, <3>1, m = Overlays!Merged(ls[Len(ls)], ls[Len(ls) - 1])
  <2> QED BY ONLY <2>1, Len(ls) > 1, st \in Map, ls \in Seq(Layer), V = Levels(st, ls), LevelsCommitted
<1> QED BY ONLY <1>6, <1>7 DEF p, FoldTop, Under

LEMMA EffectOfApply ==
  ASSUME NEW st \in Map, NEW ls \in Seq(Layer), Len(ls) = 1,
         NEW t, t = Overlays!Merged(ls[1], st), NEW ms \in Seq(Layer), Len(ms) = 0
  PROVE  /\ t \in Map
         /\ Levels(t, ms) = FoldTop(Levels(st, ls), Levels(st, ls)[Len(Levels(st, ls))])
<1>1. ls[1] \in Layer /\ ms \in Seq(Layer) /\ Len(ms) = 0
  OBVIOUS
<1>2. t \in Map
  BY <1>1 DEF Overlays!Merged, Layer, Map, None
<1> DEFINE V == Levels(st, ls)
           W == Levels(t, ms)
<1>3. V \in Seq(Map) /\ Len(V) = 2 /\ V[1] = st
  <2>1. V \in Seq(Map) /\ Len(V) = Len(ls) + 1 /\ V[1] = st
    BY LevelsAre
  <2> QED BY <2>1
<1>4. V[2] = t
  <2>1. V[1 + 1] = Overlays!Merged(ls[1], V[1])
    BY LevelsAre
  <2> QED BY <1>3, <2>1
<1>5. W \in Seq(Map) /\ Len(W) = 1 /\ W[1] = t
  <2>1. W \in Seq(Map) /\ Len(W) = Len(ms) + 1 /\ W[1] = t
    BY ONLY <1>1, <1>2, LevelsAre
  <2>2. Len(ms) = 0
    OBVIOUS
  <2> QED BY <2>1, <2>2
<1> HIDE DEF V, W
<1> DEFINE B == SubSeq(V, 1, 1)
<1>6. B \in Seq(Map) /\ Len(B) = 1
  BY <1>3
<1> HIDE DEF B
<1>7. [B EXCEPT ![1] = t] \in Seq(Map) /\ Len([B EXCEPT ![1] = t]) = 1
      /\ [B EXCEPT ![1] = t][1] = t
  <2>1. DOMAIN B = 1 .. 1 /\ B[1] \in Map
    BY <1>6
  <2> DEFINE F == [B EXCEPT ![1] = t]
  <2>2. F \in [1 .. 1 -> Map] /\ F[1] = t
    BY ONLY <1>2, <1>6, <2>1
  <2> HIDE DEF F
  <2>3. F \in Seq(Map) /\ DOMAIN F = 1 .. 1
    BY ONLY <2>2, SeqDef
  <2>4. Len(F) = 1
    BY <2>3, LenProperties
  <2> QED BY <2>2, <2>3, <2>4 DEF F
<1>8. \A i \in 1 .. 1 : W[i] = [B EXCEPT ![1] = t][i]
  BY <1>5, <1>7
<1>9. W = [B EXCEPT ![1] = t]
  BY <1>5, <1>7, <1>8, SeqEqual
<1> QED BY <1>1, <1>2, <1>3, <1>4, <1>9 DEF V, W, B, FoldTop, Under

-----------------------------------------------------------------------------
(* The steps of Overlay are steps of NestedTransactions.                     *)

View == [i \in 1 .. Overlays!Top + 1 |-> [k \in Key |-> Overlays!Get(i - 1, k)]]
Seen == Levels(store, layers)

ViewIsSeen == View = Seen

LEMMA ViewIs == ViewIsSeen
BY DEF ViewIsSeen, View, Seen, Levels, Read, WritersIn, None,
       Overlays!Top, Overlays!Get, Overlays!Writers

\* The abstract steps, said of what is seen.
LEMMA PromiseIs ==
  /\ Overlays!Promise!Begin <=> Len(View) < MaxLayers + 1 /\ View' = Append(View, View[Len(View)])
  /\ Overlays!Promise!Commit <=>
       Len(View) > 1 /\ View' = FoldTop(View, View[Len(View)])
  /\ Overlays!Promise!Abort <=> Len(View) > 1 /\ View' = Under(View)
  /\ \A k, v : Overlays!Promise!Write(k, v) <=> Len(View) > 1 /\ View' = PutOnTop(View, k, v)
BY DEF Overlays!Promise!Begin, Overlays!Promise!Commit, Overlays!Promise!Abort,
       Overlays!Promise!Write, Overlays!Promise!Below, Overlays!Promise!depth, View, PutOnTop, FoldTop, Under

\* A step of the levels keeps the types and is one of the abstract steps.
LEMMA StepOfLevels ==
  ASSUME OverlayTypes, layers' \in Seq(Layer), store' \in Map, Len(layers') <= MaxLayers,
         \/ Len(layers) < MaxLayers /\ Seen' = Append(Seen, Seen[Len(Seen)])
         \/ /\ Len(layers) > 0
            /\ \/ Seen' = FoldTop(Seen, Seen[Len(Seen)])
               \/ Seen' = Under(Seen)
               \/ \E k \in Key, v \in LayerValue \cup {0} : Seen' = PutOnTop(Seen, k, v)
  PROVE  OverlayTypes' /\ Overlays!Promise!Next
<1>1. View = Seen /\ View' = Seen'
  <2>1. ViewIsSeen /\ ViewIsSeen'
    BY ViewIs, PTL
  <2> QED BY <2>1 DEF ViewIsSeen
<1>2. Len(Seen) = Len(layers) + 1 /\ Len(layers) \in Nat
  BY LevelsAre DEF Seen, OverlayTypes
<1>3. OverlayTypes'
  BY DEF OverlayTypes
<1>4. Overlays!Empty = 0 /\ MaxLayers \in Nat
  BY StorageAssumption DEF Overlays!Empty
<1>5. CASE Len(layers) < MaxLayers /\ Seen' = Append(Seen, Seen[Len(Seen)])
  <2>1. Len(Seen) < MaxLayers + 1
    BY <1>2, <1>4, <1>5
  <2>2. Overlays!Promise!Begin
    BY ONLY <1>1, <1>5, <2>1, PromiseIs
  <2> QED BY <1>3, <2>2 DEF Overlays!Promise!Next
<1>6. CASE Len(layers) > 0
  <2>1. Len(Seen) > 1
    BY <1>2, <1>6
  <2>2. CASE Seen' = FoldTop(Seen, Seen[Len(Seen)])
    <3>1. Overlays!Promise!Commit
      BY ONLY <1>1, <2>1, <2>2, PromiseIs
    <3> QED BY <1>3, <3>1 DEF Overlays!Promise!Next
  <2>3. CASE Seen' = Under(Seen)
    <3>1. Overlays!Promise!Abort
      BY ONLY <1>1, <2>1, <2>3, PromiseIs
    <3> QED BY <1>3, <3>1 DEF Overlays!Promise!Next
  <2>4. ASSUME NEW k \in Key, NEW v \in LayerValue \cup {0}, Seen' = PutOnTop(Seen, k, v)
        PROVE  OverlayTypes' /\ Overlays!Promise!Next
    <3>1. Overlays!Promise!Write(k, v)
      BY ONLY <1>1, <2>1, <2>4, PromiseIs
    <3> QED BY <1>3, <1>4, <2>4, <3>1 DEF Overlays!Promise!Next
  <2> QED BY <1>5, <1>6, <2>2, <2>3, <2>4
<1> QED BY <1>5, <1>6

LEMMA OverlayStep ==
  ASSUME OverlayTypes, Overlays!Next
  PROVE  OverlayTypes' /\ Overlays!Promise!Next
<1>1. store \in Map /\ layers \in Seq(Layer) /\ Len(layers) <= MaxLayers /\ Len(layers) \in Nat
  BY DEF OverlayTypes
<1>2. MaxLayers \in Nat /\ Overlays!Empty = 0
  BY StorageAssumption DEF Overlays!Empty
<1>3. CASE Overlays!Open
  <2>1. Len(layers) < MaxLayers /\ layers' = Append(layers, [k \in Key |-> None]) /\ store' = store
    BY <1>3 DEF Overlays!Open, Overlays!Top, None
  <2>2. layers' \in Seq(Layer) /\ Len(layers') = Len(layers) + 1
        /\ Levels(store, layers') = Append(Seen, Seen[Len(Seen)])
    BY ONLY <1>1, <2>1, EffectOfOpen DEF Seen
  <2>3. Seen' = Append(Seen, Seen[Len(Seen)])
    BY <2>1, <2>2 DEF Seen
  <2>4. Len(layers') <= MaxLayers
    BY <1>1, <1>2, <2>1, <2>2
  <2> QED BY <1>1, <2>1, <2>2, <2>3, <2>4, StepOfLevels
<1>4. ASSUME NEW k \in Key, NEW v \in LayerValue \cup {0}, layers # <<>>,
             layers' = PutOnTop(layers, k, v), store' = store
      PROVE  OverlayTypes' /\ Overlays!Promise!Next
  <2>1. layers' \in Seq(Layer) /\ Len(layers') = Len(layers)
        /\ Levels(store, layers') = PutOnTop(Seen, k, v)
    BY ONLY <1>1, <1>2, <1>4, EffectOfWrite DEF Seen
  <2>2. Seen' = PutOnTop(Seen, k, v)
    BY <1>4, <2>1 DEF Seen
  <2>3. Len(layers) > 0
    BY <1>1, <1>4
  <2> QED BY <1>1, <1>4, <2>1, <2>2, <2>3, StepOfLevels
<1>5. ASSUME NEW k \in Key, Overlays!Delete(k) PROVE OverlayTypes' /\ Overlays!Promise!Next
  <2>1. layers # <<>> /\ layers' = PutOnTop(layers, k, 0) /\ store' = store
    BY <1>5 DEF Overlays!Delete, Overlays!Top, Overlays!Empty, PutOnTop
  <2> QED BY <1>4, <2>1
<1>6. ASSUME NEW k \in Key, NEW v \in LayerValue, Overlays!Set(k, v)
      PROVE  OverlayTypes' /\ Overlays!Promise!Next
  <2>1. layers # <<>> /\ layers' = PutOnTop(layers, k, v) /\ store' = store
    BY <1>6 DEF Overlays!Set, Overlays!Top, PutOnTop
  <2> QED BY <1>4, <2>1
<1>7. CASE Overlays!CommitInto
  <2> DEFINE m == Overlays!Merged(layers[Len(layers)], layers[Len(layers) - 1])
  <2>1. Len(layers) > 1 /\ layers' = FoldTop(layers, m)
        /\ store' = store
    BY <1>7 DEF Overlays!CommitInto, Overlays!Top, Overlays!Rest, FoldTop, Under
  <2>2. m = Overlays!Merged(layers[Len(layers)], layers[Len(layers) - 1])
    OBVIOUS
  <2> HIDE DEF m
  <2>3. /\ layers' \in Seq(Layer) /\ Len(layers') = Len(layers) - 1
        /\ Levels(store, layers')
             = FoldTop(Seen, Seen[Len(Seen)])
    BY ONLY <1>1, <2>1, <2>2, EffectOfCommit DEF Seen
  <2>4. Seen' = FoldTop(Seen, Seen[Len(Seen)])
    BY ONLY <2>1, <2>3 DEF Seen
  <2>5. Len(layers') <= MaxLayers /\ Len(layers) > 0
    BY <1>1, <1>2, <2>1, <2>3
  <2> QED BY <1>1, <2>1, <2>3, <2>4, <2>5, StepOfLevels
<1>8. CASE Overlays!Apply
  <2>1. Len(layers) = 1 /\ store' = Overlays!Merged(layers[1], store) /\ layers' = <<>>
    BY <1>8 DEF Overlays!Apply, Overlays!Top
  <2>0. layers' \in Seq(Layer) /\ Len(layers') = 0
    BY <2>1
  <2>2. store' \in Map /\ Levels(store', layers') = FoldTop(Seen, Seen[Len(Seen)])
    <3>1. ASSUME NEW t, t = store', NEW ms, ms = layers'
          PROVE  t \in Map /\ Levels(t, ms) = FoldTop(Seen, Seen[Len(Seen)])
      <4>1. Len(layers) = 1 /\ t = Overlays!Merged(layers[1], store)
        BY <2>1, <3>1
      <4>2. ms \in Seq(Layer) /\ Len(ms) = 0
        BY <2>0, <3>1
      <4>3. Seen = Levels(store, layers)
        BY DEF Seen
      <4>4. store \in Map /\ layers \in Seq(Layer)
        BY <1>1
      <4> QED BY ONLY <4>1, <4>2, <4>3, <4>4, EffectOfApply
    <3> QED BY <3>1
  <2>3. Seen' = FoldTop(Seen, Seen[Len(Seen)])
    BY ONLY <2>2 DEF Seen
  <2>4. Len(layers') <= MaxLayers /\ Len(layers) > 0
    BY <1>2, <2>0, <2>1
  <2> QED BY <1>1, <2>0, <2>2, <2>3, <2>4, StepOfLevels
<1>9. CASE Overlays!Drop
  <2>1. layers # <<>> /\ layers' = Under(layers) /\ store' = store
    BY <1>9 DEF Overlays!Drop, Overlays!Rest, Overlays!Top, Under
  <2>2. layers' \in Seq(Layer) /\ Len(layers') = Len(layers) - 1
        /\ Levels(store, layers') = Under(Seen)
    BY ONLY <1>1, <2>1, EffectOfDrop DEF Seen
  <2>3. Seen' = Under(Seen)
    BY ONLY <2>1, <2>2 DEF Seen
  <2>4. Len(layers') <= MaxLayers /\ Len(layers) > 0
    BY <1>1, <1>2, <2>1, <2>2
  <2> QED BY <1>1, <2>1, <2>2, <2>3, <2>4, StepOfLevels
<1> QED BY <1>3, <1>5, <1>6, <1>7, <1>8, <1>9 DEF Overlays!Next

LEMMA OverlaysStart == Overlays!Init => OverlayTypes /\ Overlays!Promise!Init
<1> SUFFICES ASSUME Overlays!Init PROVE OverlayTypes /\ Overlays!Promise!Init
  OBVIOUS
<1>1. store = [k \in Key |-> 0] /\ layers = <<>>
  BY DEF Overlays!Init, Overlays!Empty
<1>2. OverlayTypes
  <2>1. layers \in Seq(Layer) /\ Len(layers) = 0
    BY <1>1
  <2> QED BY <1>1, <2>1, StorageAssumption DEF OverlayTypes, Map, Overlays!Empty
<1>3. View = <<store>>
  <2> DEFINE W == Levels(store, layers)
  <2>1. W \in Seq(Map) /\ Len(W) = Len(layers) + 1 /\ W[1] = store
    BY <1>2, LevelsAre DEF OverlayTypes
  <2>2. Len(layers) = 0
    BY <1>1
  <2> HIDE DEF W
  <2>3. W = <<store>>
    BY <2>1, <2>2
  <2> QED BY <2>3, ViewIs DEF ViewIsSeen, Seen, W
<1>4. store = [k \in Key |-> Overlays!Empty]
  BY DEF Overlays!Init
<1> QED
  BY ONLY <1>2, <1>3, <1>4 DEF Overlays!Promise!Init, View

\* What a contract, a transaction and a block read through their overlays is what
\* they would read of copies of the state, made when they began, that replace
\* what they are copies of or vanish.
THEOREM OverlaysAreTransactions == StorageSpec => ImplementsTransactions
<1>1. StorageInit => OverlayTypes /\ Overlays!Promise!Init
  BY OverlaysStart DEF StorageInit
<1>2. OverlayTypes /\ [StorageNext]_storageVars => OverlayTypes' /\ [Overlays!Promise!Next]_View
  <2> SUFFICES ASSUME OverlayTypes, [StorageNext]_storageVars
               PROVE  OverlayTypes' /\ [Overlays!Promise!Next]_View
    OBVIOUS
  <2>1. CASE Overlays!Next
    BY <2>1, OverlayStep
  <2>2. CASE UNCHANGED overlayVars
    <3>1. store' = store /\ layers' = layers
      BY <2>2 DEF overlayVars
    <3>2. ViewIsSeen /\ ViewIsSeen'
      BY ViewIs, PTL
    <3>3. View' = View
      BY <3>1, <3>2 DEF ViewIsSeen, Seen
    <3> QED BY <3>1, <3>3 DEF OverlayTypes
  <2> QED BY <2>1, <2>2 DEF StorageNext, storageVars, overlayVars
<1> QED
  BY <1>1, <1>2, PTL DEF StorageSpec, ImplementsTransactions, Overlays!ImplementsTransactions,
     Overlays!Promise!Spec, View

-----------------------------------------------------------------------------
(* The read cache of LevelStore.                                             *)

CacheValue == 0 .. MaxCommits
CacheEntry == [key : CachedKey, value : CacheValue]
Change     == CachedKey \X CacheValue

\* A cache within its bound that holds a key once.
Sound(entries) ==
  /\ entries \in Seq(CacheEntry)
  /\ Len(entries) <= Capacity
  /\ \A i, j \in 1 .. Len(entries) : entries[i].key = entries[j].key => i = j

\* Every entry of the result is the new one, or an old one of another key.
Follows(new, old, k, v) ==
  \A i \in 1 .. Len(new) :
    \/ new[i] = [key |-> k, value |-> v]
    \/ new[i].key # k /\ \E j \in 1 .. Len(old) : new[i] = old[j]

WithoutKey(entries, k) == RemoveFirstMatch(entries, LAMBDA e : e.key = k)

LEMMA Without ==
  ASSUME NEW entries, Sound(entries), NEW k, NEW kept, kept = WithoutKey(entries, k)
  PROVE  /\ Sound(kept)
         /\ \A i \in 1 .. Len(kept) :
              kept[i].key # k /\ \E j \in 1 .. Len(entries) : kept[i] = entries[j]
<1>1. entries \in Seq(CacheEntry) /\ Len(entries) <= Capacity /\ Capacity \in Nat /\ Len(entries) \in Nat
      /\ \A i, j \in 1 .. Len(entries) : entries[i].key = entries[j].key => i = j
  BY StorageAssumption DEF Sound
<1> DEFINE I == {i \in 1 .. Len(entries) : entries[i].key = k}
<1>2. CASE I = {}
  <2>1. kept = entries
    BY <1>2 DEF WithoutKey, RemoveFirstMatch
  <2> QED BY <1>1, <1>2, <2>1
<1>3. CASE I # {}
  <2> DEFINE p == Min(I)
  <2>1. PICK m \in I : \A x \in I : m <= x
    <3>1. I \in SUBSET Nat
      OBVIOUS
    <3> HIDE DEF I
    <3> QED BY <1>3, <3>1, LeastNatural
  <2>2. p \in I
    BY <2>1 DEF Min
  <2>3. kept = SubSeq(entries, 1, p - 1) \o SubSeq(entries, p + 1, Len(entries))
    BY <1>3 DEF WithoutKey, RemoveFirstMatch, RemoveAt, SelectInSeq
  <2>4. p \in 1 .. Len(entries) /\ entries[p].key = k
    BY <2>2
  <2> HIDE DEF p, I
  <2>5. /\ kept \in Seq(CacheEntry) /\ Len(kept) = Len(entries) - 1
        /\ \A i \in 1 .. Len(kept) : kept[i] = entries[IF i < p THEN i ELSE i + 1]
    <3> DEFINE a == SubSeq(entries, 1, p - 1)
               b == SubSeq(entries, p + 1, Len(entries))
    <3>1. a \in Seq(CacheEntry) /\ Len(a) = p - 1 /\ \A i \in 1 .. p - 1 : a[i] = entries[i]
      BY <1>1, <2>4
    <3>2. b \in Seq(CacheEntry) /\ Len(b) = Len(entries) - p
          /\ \A i \in 1 .. Len(entries) - p : b[i] = entries[p + i]
      BY <1>1, <2>4
    <3> HIDE DEF a, b
    <3>3. /\ a \o b \in Seq(CacheEntry) /\ Len(a \o b) = Len(a) + Len(b)
          /\ \A i \in 1 .. Len(a) + Len(b) : (a \o b)[i] = IF i <= Len(a) THEN a[i] ELSE b[i - Len(a)]
      BY ONLY <3>1, <3>2, ConcatProperties
    <3>4. Len(a \o b) = Len(entries) - 1
      BY <1>1, <2>4, <3>1, <3>2, <3>3
    <3>5. ASSUME NEW i \in 1 .. Len(entries) - 1
          PROVE  (a \o b)[i] = entries[IF i < p THEN i ELSE i + 1]
      <4>1. CASE i < p
        BY <1>1, <2>4, <3>1, <3>2, <3>3, <4>1
      <4>2. CASE ~(i < p)
        <5>1. i - (p - 1) \in 1 .. Len(entries) - p /\ p + (i - (p - 1)) = i + 1
          BY <1>1, <2>4, <4>2
        <5>2. (a \o b)[i] = b[i - (p - 1)]
          <6>1. i \in 1 .. Len(a) + Len(b) /\ ~(i <= Len(a)) /\ Len(a) = p - 1
            BY <1>1, <2>4, <3>1, <3>2, <4>2
          <6> QED BY <3>3, <6>1
        <5> QED BY <3>2, <4>2, <5>1, <5>2
      <4> QED BY <4>1, <4>2
    <3>6. kept = a \o b
      BY <2>3 DEF a, b
    <3> QED BY <3>3, <3>4, <3>5, <3>6
  <2>6. ASSUME NEW i \in 1 .. Len(kept)
        PROVE  \E j \in 1 .. Len(entries) : /\ kept[i] = entries[j] /\ j # p
                                            /\ j = (IF i < p THEN i ELSE i + 1)
    <3> DEFINE j == IF i < p THEN i ELSE i + 1
    <3>1. j \in 1 .. Len(entries) /\ j # p
      BY <1>1, <2>4, <2>5
    <3>2. kept[i] = entries[j]
      BY <2>5
    <3> QED BY <3>1, <3>2
  <2>7. \A i, j \in 1 .. Len(kept) : kept[i].key = kept[j].key => i = j
    <3> SUFFICES ASSUME NEW i \in 1 .. Len(kept), NEW j \in 1 .. Len(kept), kept[i].key = kept[j].key
                 PROVE  i = j
      OBVIOUS
    <3>1. PICK x \in 1 .. Len(entries) : kept[i] = entries[x] /\ x = (IF i < p THEN i ELSE i + 1)
      BY <2>6
    <3>2. PICK y \in 1 .. Len(entries) : kept[j] = entries[y] /\ y = (IF j < p THEN j ELSE j + 1)
      BY <2>6
    <3>3. x = y
      BY <1>1, <3>1, <3>2
    <3> QED BY <2>4, <3>1, <3>2, <3>3
  <2>8. \A i \in 1 .. Len(kept) : kept[i].key # k /\ \E j \in 1 .. Len(entries) : kept[i] = entries[j]
    BY <1>1, <2>4, <2>6
  <2>9. Len(kept) <= Capacity
    BY <1>1, <2>5
  <2> QED BY <2>5, <2>7, <2>8, <2>9 DEF Sound
<1> QED BY <1>2, <1>3

\* remember: the cache stays sound, and nothing else is new in it.
LEMMA RememberFollows ==
  ASSUME NEW entries, Sound(entries), NEW k \in CachedKey, NEW v \in CacheValue,
         NEW new, new = Store!Remember(entries, k, v)
  PROVE  Sound(new) /\ Follows(new, entries, k, v)
<1> DEFINE kept == WithoutKey(entries, k)
           e    == [key |-> k, value |-> v]
           all  == Append(kept, e)
<1>1. /\ Sound(kept)
      /\ \A i \in 1 .. Len(kept) :
           kept[i].key # k /\ \E j \in 1 .. Len(entries) : kept[i] = entries[j]
  BY Without
<1>2. new = IF Len(all) > Capacity THEN Tail(all) ELSE all
  BY DEF WithoutKey, Store!Remember, RemoveFirstMatch, RemoveAt, SelectInSeq, Min,
         Store!RemoveFirstMatch, Store!RemoveAt, Store!SelectInSeq, Store!Min
<1>3. e \in CacheEntry /\ e.key = k
  BY DEF CacheEntry
<1> HIDE DEF kept, e
<1>4. kept \in Seq(CacheEntry) /\ Len(kept) <= Capacity /\ Len(kept) \in Nat
      /\ \A i, j \in 1 .. Len(kept) : kept[i].key = kept[j].key => i = j
  BY <1>1 DEF Sound
<1>5. /\ all \in Seq(CacheEntry) /\ Len(all) = Len(kept) + 1
      /\ \A i \in 1 .. Len(kept) : all[i] = kept[i]
      /\ all[Len(kept) + 1] = e
  BY <1>3, <1>4
<1> HIDE DEF all
<1>6. \A i, j \in 1 .. Len(all) : all[i].key = all[j].key => i = j
  <2>1. \A i \in 1 .. Len(all) : i = Len(kept) + 1 \/ i \in 1 .. Len(kept)
    BY <1>4, <1>5
  <2> QED BY <1>1, <1>3, <1>4, <1>5, <2>1
<1>7. Follows(all, entries, k, v)
  <2> SUFFICES ASSUME NEW i \in 1 .. Len(all)
               PROVE  \/ all[i] = e
                      \/ all[i].key # k /\ \E j \in 1 .. Len(entries) : all[i] = entries[j]
    BY DEF Follows, e
  <2>1. i = Len(kept) + 1 \/ i \in 1 .. Len(kept)
    BY <1>4, <1>5
  <2> QED BY <1>1, <1>5, <2>1
<1>8. Capacity \in Nat \ {0}
  BY StorageAssumption
<1>9. CASE Len(all) > Capacity
  <2>1. /\ new \in Seq(CacheEntry) /\ Len(new) = Len(kept)
        /\ \A i \in 1 .. Len(new) : new[i] = all[i + 1]
    BY <1>2, <1>4, <1>5, <1>9
  <2>2. \A i \in 1 .. Len(new) : i + 1 \in 1 .. Len(all)
    BY <1>4, <1>5, <2>1
  <2>3. \A i, j \in 1 .. Len(new) : new[i].key = new[j].key => i = j
    <3> SUFFICES ASSUME NEW i \in 1 .. Len(new), NEW j \in 1 .. Len(new), new[i].key = new[j].key
                 PROVE  i = j
      OBVIOUS
    <3>1. i + 1 = j + 1
      BY <1>6, <2>1, <2>2
    <3> QED BY <3>1
  <2> QED BY <1>4, <1>7, <2>1, <2>2, <2>3 DEF Sound, Follows
<1>10. CASE ~(Len(all) > Capacity)
  <2>1. new = all /\ Len(all) <= Capacity
    BY <1>2, <1>4, <1>5, <1>8, <1>10
  <2> QED BY <1>5, <1>6, <1>7, <2>1 DEF Sound
<1> QED BY <1>9, <1>10

\* applyChanges remembers one change after the other.
Remembers(entries, changes, g) ==
  g = [s \in SUBSET (DOMAIN changes) |->
         IF s = {} THEN entries
         ELSE LET x == Max(s)
              IN Store!Remember(g[s \ {x}], changes[x][1], changes[x][2])]

LEMMA RememberAllIsChosen ==
  ASSUME NEW entries, NEW changes
  PROVE  Store!RememberAll(entries, changes)
           = (CHOOSE g : Remembers(entries, changes, g))[DOMAIN changes]
BY DEF Store!RememberAll, Store!FoldLeft, Store!MapThenFoldSet, Remembers, Max, Store!Max

LEMMA RememberAllIs ==
  ASSUME NEW entries, Sound(entries), NEW changes \in Seq(Change)
  PROVE  \E w : /\ w[0] = entries /\ w[Len(changes)] = Store!RememberAll(entries, changes)
                /\ \A j \in 1 .. Len(changes) :
                     w[j] = Store!Remember(w[j - 1], changes[j][1], changes[j][2])
<1> DEFINE n == Len(changes)
           Caches == {e \in Seq(CacheEntry) : Sound(e)}
           F == [ja \in (1 .. n) \X Caches |->
                   Store!Remember(ja[2], changes[ja[1]][1], changes[ja[1]][2])]
<1>1. n \in Nat /\ DOMAIN changes = 1 .. n
      /\ \A j \in 1 .. n : changes[j][1] \in CachedKey /\ changes[j][2] \in CacheValue
  BY DEF Change
<1> HIDE DEF n
<1>2. \A c : c \in Caches <=> Sound(c)
  BY DEF Sound
<1>3. ASSUME NEW c \in Caches, NEW j \in 1 .. n
      PROVE  /\ Store!Remember(c, changes[j][1], changes[j][2]) \in Caches
             /\ F[<<j, c>>] = Store!Remember(c, changes[j][1], changes[j][2])
  <2>1. Sound(Store!Remember(c, changes[j][1], changes[j][2]))
    <3> HIDE DEF Caches
    <3> QED BY <1>1, <1>2, RememberFollows
  <2>2. <<j, c>> \in (1 .. n) \X Caches
    OBVIOUS
  <2> HIDE DEF Caches
  <2> QED BY <1>2, <2>1, <2>2
<1>4. F \in [(1 .. n) \X Caches -> Caches]
  <2>1. ASSUME NEW ja \in (1 .. n) \X Caches
        PROVE  Store!Remember(ja[2], changes[ja[1]][1], changes[ja[1]][2]) \in Caches
    <3>1. ja[1] \in 1 .. n /\ ja[2] \in Caches
      OBVIOUS
    <3> HIDE DEF Caches
    <3> QED BY <1>3, <3>1
  <2> HIDE DEF Caches
  <2> QED BY <2>1
<1> HIDE DEF Caches, F
<1>5. PICK g \in [SUBSET (1 .. n) -> Caches] : FoldsAlong(F, entries, n, g)
  <2>1. entries \in Caches
    BY <1>2
  <2> QED BY <1>1, <1>4, <2>1, FoldExists
<1>6. \A s \in SUBSET (1 .. n) :
        s # {} => Max(s) \in 1 .. n /\ s \ {Max(s)} \in SUBSET (1 .. n)
  BY <1>1, MaxIsIn
<1>7. Remembers(entries, changes, g)
  <2>1. g = [s \in SUBSET (1 .. n) |-> g[s]]
    OBVIOUS
  <2>2. ASSUME NEW s \in SUBSET (1 .. n)
        PROVE  g[s] = IF s = {} THEN entries
                      ELSE LET x == Max(s)
                           IN Store!Remember(g[s \ {x}], changes[x][1], changes[x][2])
    <3>1. CASE s = {}
      BY <1>5, <3>1 DEF FoldsAlong
    <3>2. CASE s # {}
      <4>1. g[s] = F[<<Max(s), g[s \ {Max(s)}]>>]
        BY <1>5, <3>2 DEF FoldsAlong
      <4>2. Max(s) \in 1 .. n /\ g[s \ {Max(s)}] \in Caches
        BY <1>6, <3>2
      <4>3. F[<<Max(s), g[s \ {Max(s)}]>>]
              = Store!Remember(g[s \ {Max(s)}], changes[Max(s)][1], changes[Max(s)][2])
        BY <1>3, <4>2
      <4> QED BY <3>2, <4>1, <4>3
    <3> QED BY <3>1, <3>2
  <2> QED BY <1>1, <2>1, <2>2 DEF Remembers
<1> DEFINE h == CHOOSE h : Remembers(entries, changes, h)
<1>8. Remembers(entries, changes, h)
  BY <1>7
<1>9. Store!RememberAll(entries, changes) = h[1 .. n]
  BY <1>1, RememberAllIsChosen
<1> HIDE DEF h
<1>10. h[1 .. 0] = entries
  BY <1>1, <1>8 DEF Remembers
<1>11. ASSUME NEW j \in 1 .. n
       PROVE  h[1 .. j] = Store!Remember(h[1 .. j - 1], changes[j][1], changes[j][2])
  <2>1. /\ 1 .. j \in SUBSET (1 .. n) /\ 1 .. j # {} /\ Max(1 .. j) = j
        /\ (1 .. j) \ {j} = 1 .. j - 1
    BY <1>1, PrefixIs
  <2>3. h[1 .. j] = LET x == Max(1 .. j)
                    IN Store!Remember(h[(1 .. j) \ {x}], changes[x][1], changes[x][2])
    BY <1>1, <1>8, <2>1 DEF Remembers
  <2> QED BY <2>1, <2>3
<1> DEFINE w == [j \in 0 .. n |-> h[1 .. j]]
<1>12. w[0] = entries /\ w[n] = Store!RememberAll(entries, changes)
  BY <1>1, <1>9, <1>10
<1>13. ASSUME NEW j \in 1 .. n
       PROVE  w[j] = Store!Remember(w[j - 1], changes[j][1], changes[j][2])
  <2>1. j \in 0 .. n /\ j - 1 \in 0 .. n
    BY <1>1
  <2> QED BY <1>11, <2>1
<1> HIDE DEF w
<1> QED BY <1>12, <1>13 DEF n

\* e is of one of the first p changes, or an old entry of a key none of them has.
From(e, p, entries, changes) ==
  \/ \E j \in 1 .. p : e.key = changes[j][1] /\ e.value = changes[j][2]
  \/ /\ \A j \in 1 .. p : e.key # changes[j][1]
     /\ \E j \in 1 .. Len(entries) : e = entries[j]

LEMMA FromNext ==
  ASSUME NEW e, NEW p \in Nat, NEW entries, NEW changes
  PROVE  /\ e = [key |-> changes[p + 1][1], value |-> changes[p + 1][2]]
              => From(e, p + 1, entries, changes)
         /\ From(e, p, entries, changes) /\ e.key # changes[p + 1][1]
              => From(e, p + 1, entries, changes)
<1>1. /\ p + 1 \in 1 .. p + 1 /\ \A j \in 1 .. p : j \in 1 .. p + 1
      /\ \A j \in 1 .. p + 1 : j \in 1 .. p \/ j = p + 1
  OBVIOUS
<1> QED BY <1>1 DEF From

\* After it, an entry is of the change of its key, or an old one of a key that
\* was not changed.
LEMMA RememberAllFollows ==
  ASSUME NEW entries, Sound(entries), NEW changes \in Seq(Change),
         \A i, j \in 1 .. Len(changes) : changes[i][1] = changes[j][1] => i = j,
         NEW new, new = Store!RememberAll(entries, changes)
  PROVE  Sound(new) /\ \A i \in 1 .. Len(new) : From(new[i], Len(changes), entries, changes)
<1> DEFINE n == Len(changes)
<1>1. n \in Nat /\ \A j \in 1 .. n : changes[j][1] \in CachedKey /\ changes[j][2] \in CacheValue
  BY DEF Change
<1>2. PICK w : /\ w[0] = entries /\ w[n] = new
               /\ \A j \in 1 .. n : w[j] = Store!Remember(w[j - 1], changes[j][1], changes[j][2])
  BY RememberAllIs
<1> HIDE DEF n
<1> DEFINE Good(p) == Sound(w[p]) /\ \A i \in 1 .. Len(w[p]) : From(w[p][i], p, entries, changes)
           Bad     == {p \in 0 .. n : ~Good(p)}
<1>3. Bad = {}
  <2> SUFFICES ASSUME Bad # {} PROVE FALSE
    OBVIOUS
  <2>1. Bad \in SUBSET Nat
    OBVIOUS
  <2> HIDE DEF Good
  <2>2. PICK m \in Bad : \A k \in Bad : m <= k
    BY <2>1, LeastNatural
  <2>3. m \in 0 .. n /\ ~Good(m)
    OBVIOUS
  <2>4. m # 0
    <3>1. Good(0)
      <4>1. \A i \in 1 .. Len(entries) : From(entries[i], 0, entries, changes)
        BY DEF From
      <4> QED BY <1>2, <4>1 DEF Good
    <3> QED BY <2>3, <3>1
  <2> DEFINE p == m - 1
  <2>5. p \in 0 .. n /\ p + 1 \in 1 .. n /\ m = p + 1 /\ (p + 1) - 1 = p
    <3>1. n \in Nat
      BY <1>1
    <3> QED BY ONLY <2>3, <2>4, <3>1
  <2>6. p \notin Bad
    BY <2>2, <2>5
  <2> HIDE DEF p
  <2>7. Good(p)
    BY <2>5, <2>6
  <2>8. Sound(w[p]) /\ \A i \in 1 .. Len(w[p]) : From(w[p][i], p, entries, changes)
    BY <2>7 DEF Good
  <2> DEFINE k == changes[p + 1][1]
             v == changes[p + 1][2]
  <2>9. w[p + 1] = Store!Remember(w[p], k, v) /\ k \in CachedKey /\ v \in CacheValue
    BY <1>1, <1>2, <2>5
  <2>10. Sound(w[p + 1]) /\ Follows(w[p + 1], w[p], k, v)
    <3> HIDE DEF k, v
    <3> QED BY <2>8, <2>9, RememberFollows
  <2>11. ASSUME NEW i \in 1 .. Len(w[p + 1])
         PROVE  From(w[p + 1][i], p + 1, entries, changes)
    <3>1. p \in Nat
      BY <2>5
    <3>2. CASE w[p + 1][i] = [key |-> k, value |-> v]
      BY <3>1, <3>2, FromNext
    <3>3. CASE w[p + 1][i].key # k /\ \E j \in 1 .. Len(w[p]) : w[p + 1][i] = w[p][j]
      <4>1. From(w[p + 1][i], p, entries, changes)
        BY <2>8, <3>3
      <4> QED BY <3>1, <3>3, <4>1, FromNext
    <3> QED BY <2>10, <3>2, <3>3 DEF Follows
  <2>12. Good(p + 1)
    BY <2>10, <2>11 DEF Good
  <2> QED BY <2>3, <2>5, <2>12
<1>4. Good(n)
  BY <1>1, <1>3
<1> QED BY <1>2, <1>4 DEF n
-----------------------------------------------------------------------------
(* LevelStore: the cache is current but for the keys of which a get was       *)
(* overtaken and those that a batch has just written.                        *)

\* Every entry has its key's value in d, unless the key is skipped.
Current(entries, d, skip) ==
  \A i \in 1 .. Len(entries) :
    entries[i].key \notin skip => entries[i].value = d[entries[i].key]

Changed == {batch[i][1] : i \in 1 .. Len(batch)}
Stale   == overtaken \cup (IF written THEN Changed ELSE {})

Readers   == Others \cup {Engine}
ReadState == [key : CachedKey \cup {0}, phase : {"idle", "asked", "answered"},
              value : CacheValue, late : BOOLEAN]

StoreTypes ==
  /\ db \in [CachedKey -> CacheValue]
  /\ Sound(cache)
  /\ reads \in [Readers -> ReadState]
  /\ batch \in Seq(Change)
  /\ written \in BOOLEAN
  /\ commits \in 0 .. MaxCommits
  /\ overtaken \in SUBSET CachedKey

\* A batch changes a key once, and once written it is what the database has.
BatchIsWritten ==
  /\ \A i, j \in 1 .. Len(batch) : batch[i][1] = batch[j][1] => i = j
  /\ written => batch # <<>> /\ \A j \in 1 .. Len(batch) : db[batch[j][1]] = batch[j][2]

\* A get that was answered and not overtaken has the present value; the engine
\* has none while it commits.
ReadIsCurrent(rd) ==
  /\ rd.phase = "idle" => rd = Store!Idle
  /\ rd.phase = "asked" => rd.key \in CachedKey /\ ~rd.late
  /\ rd.phase = "answered" => rd.key \in CachedKey /\ (~rd.late => rd.value = db[rd.key])

ReadsAreCurrent ==
  /\ \A r \in Readers : ReadIsCurrent(reads[r])
  /\ reads[Engine] # Store!Idle => batch = <<>> /\ ~reads[Engine].late

CacheIsCurrent == Current(cache, db, Stale)

StoreInv == StoreTypes /\ BatchIsWritten /\ ReadsAreCurrent /\ CacheIsCurrent

LEMMA RememberCurrent ==
  ASSUME NEW entries, Sound(entries), NEW k \in CachedKey, NEW v \in CacheValue,
         NEW d, NEW skip, Current(entries, d, skip), k \in skip \/ v = d[k]
  PROVE  /\ Sound(Store!Remember(entries, k, v))
         /\ Current(Store!Remember(entries, k, v), d, skip)
<1> DEFINE new == Store!Remember(entries, k, v)
<1>1. Sound(new) /\ Follows(new, entries, k, v)
  BY RememberFollows
<1> HIDE DEF new
<1>2. ASSUME NEW i \in 1 .. Len(new), new[i].key \notin skip
      PROVE  new[i].value = d[new[i].key]
  <2>1. CASE new[i] = [key |-> k, value |-> v]
    BY <1>2, <2>1
  <2>2. CASE \E j \in 1 .. Len(entries) : new[i] = entries[j]
    BY <1>2, <2>2 DEF Current
  <2> QED BY <1>1, <2>1, <2>2 DEF Follows
<1> QED BY <1>1, <1>2 DEF Current, new

\* A hit finds an entry of its key.
LEMMA CachedIs ==
  ASSUME NEW k, Sound(cache), Store!Hit(k)
  PROVE  \E i \in 1 .. Len(cache) : cache[i].key = k /\ Store!Cached(k) = cache[i].value
<1>1. cache \in Seq(CacheEntry) /\ DOMAIN cache = 1 .. Len(cache)
  BY DEF Sound
<1>2. \E i \in 1 .. Len(cache) : cache[i].key = k
  BY <1>1 DEF Store!Hit
<1>3. \E e \in Store!ToSet(cache) : e.key = k
  BY <1>1, <1>2 DEF Store!ToSet
<1> DEFINE e == CHOOSE e \in Store!ToSet(cache) : e.key = k
<1>4. e \in Store!ToSet(cache) /\ e.key = k
  BY <1>3
<1>5. Store!Cached(k) = e.value
  BY DEF Store!Cached
<1> HIDE DEF e
<1>6. PICK i \in 1 .. Len(cache) : cache[i] = e
  BY <1>1, <1>4 DEF Store!ToSet
<1> QED BY <1>4, <1>5, <1>6

\* What a batch leaves of a key.
LEMMA NewValueIs ==
  ASSUME StoreTypes, BatchIsWritten, NEW j \in 1 .. Len(batch)
  PROVE  Store!NewValue(batch[j][1]) = batch[j][2]
<1>1. DOMAIN batch = 1 .. Len(batch)
  BY DEF StoreTypes
<1> DEFINE c == CHOOSE c \in Store!ToSet(batch) : c[1] = batch[j][1]
<1>2. batch[j] \in Store!ToSet(batch)
  BY <1>1 DEF Store!ToSet
<1>3. c \in Store!ToSet(batch) /\ c[1] = batch[j][1]
  BY <1>2
<1>4. Store!NewValue(batch[j][1]) = c[2]
  BY DEF Store!NewValue
<1> HIDE DEF c
<1>5. PICK i \in 1 .. Len(batch) : c = batch[i]
  BY <1>1, <1>3 DEF Store!ToSet
<1>6. i = j
  BY <1>3, <1>5 DEF BatchIsWritten
<1> QED BY <1>4, <1>5, <1>6

LEMMA ChangedIs == StoreTypes => Store!Changed = Changed /\ Changed \subseteq CachedKey
<1> SUFFICES ASSUME StoreTypes PROVE Store!Changed = Changed /\ Changed \subseteq CachedKey
  OBVIOUS
<1>1. DOMAIN batch = 1 .. Len(batch) /\ \A i \in 1 .. Len(batch) : batch[i] \in Change
  BY DEF StoreTypes
<1>2. \A c \in Change : c[1] \in CachedKey
  BY DEF Change
<1>3. Store!Changed = Changed
  BY <1>1 DEF Store!Changed, Changed
<1> QED BY <1>1, <1>2, <1>3 DEF Changed

LEMMA CardinalityIs == \A S : Store!Cardinality(S) = Cardinality(S)
BY DEF Cardinality, Store!Cardinality

\* What a block hands to applyChanges.
LEMMA ChangeListsAre ==
  ASSUME commits \in 0 .. MaxCommits, commits < MaxCommits,
         NEW changes \in Store!ChangeLists
  PROVE  /\ changes \in Seq(Change)
         /\ \A i, j \in 1 .. Len(changes) : changes[i][1] = changes[j][1] => i = j
<1> DEFINE All == CachedKey \X {commits + 1, 0}
<1>1. PICK some \in SUBSET All : changes \in Store!SetToSeqs(some)
  BY DEF Store!ChangeLists, Store!ChangesOnce, Store!Empty
<1>2. All \subseteq Change
  <2>1. commits + 1 \in CacheValue /\ 0 \in CacheValue
    BY StorageAssumption DEF CacheValue
  <2> QED BY <2>1 DEF Change
<1>3. Cardinality(some) \in Nat
  <2>1. IsFiniteSet({commits + 1, 0}) /\ IsFiniteSet(CachedKey)
    <3>1. IsFiniteSet({0}) /\ IsFiniteSet({0} \cup {commits + 1})
      BY FS_Singleton, FS_AddElement
    <3>2. {0} \cup {commits + 1} = {commits + 1, 0}
      OBVIOUS
    <3> QED BY <3>1, <3>2, StorageAssumption
  <2>2. IsFiniteSet(All)
    BY <2>1, FS_Product
  <2>3. IsFiniteSet(some)
    BY <1>1, <2>2, FS_Subset
  <2> QED BY <2>3, FS_CardinalityType
<1> HIDE DEF All
<1> DEFINE n == Cardinality(some)
<1>4. changes \in [1 .. n -> some]
  <2>1. Store!SetToSeqs(some) \subseteq [1 .. n -> some]
    <3>1. Store!SetToSeqs(some)
            = {f \in [1 .. n -> some] : \A i, j \in 1 .. n : i # j => f[i] # f[j]}
      BY CardinalityIs DEF Store!SetToSeqs
    <3> QED BY ONLY <3>1, Zenon
  <2> HIDE DEF n
  <2> QED BY <1>1, <2>1
<1> HIDE DEF n
<1>5. changes \in [1 .. n -> Change] /\ n \in Nat
  BY <1>1, <1>2, <1>3, <1>4 DEF n
<1>6. changes \in Seq(Change) /\ Len(changes) = n
  BY <1>5
<1>7. \A i, j \in 1 .. n : i < j => changes[i][1] < changes[j][1]
  BY <1>6 DEF Store!ChangeLists, Store!IsSorted
<1>8. \A i \in 1 .. n : changes[i][1] \in Nat
  BY <1>5, StorageAssumption DEF Change
<1>9. \A i, j \in 1 .. n : changes[i][1] = changes[j][1] => i = j
  <2> SUFFICES ASSUME NEW i \in 1 .. n, NEW j \in 1 .. n, changes[i][1] = changes[j][1], i # j
               PROVE  FALSE
    OBVIOUS
  <2>1. i < j \/ j < i
    BY <1>5
  <2>2. changes[i][1] \in Nat /\ changes[j][1] \in Nat
    BY <1>8
  <2>3. changes[i][1] < changes[j][1] \/ changes[j][1] < changes[i][1]
    BY <1>7, <2>1
  <2> QED BY <2>2, <2>3
<1> QED BY <1>6, <1>9
-----------------------------------------------------------------------------
\* What a step of the store keeps, and promises while nothing was overtaken.
Faithful == overtaken = {} => Store!Promise!Next \/ UNCHANGED <<db, answer>>

LEMMA StoreStart == Store!Init => StoreInv /\ Store!Promise!Init
<1> SUFFICES ASSUME Store!Init PROVE StoreInv /\ Store!Promise!Init
  OBVIOUS
<1>1. /\ db = [k \in CachedKey |-> 0] /\ cache = <<>> /\ batch = <<>> /\ written = FALSE
      /\ commits = 0 /\ overtaken = {} /\ reads = [r \in Readers |-> Store!Idle]
  BY DEF Store!Init, Store!Empty, Store!Reader, Readers
<1>2. 0 \in CacheValue /\ 0 \in 0 .. MaxCommits
  BY StorageAssumption DEF CacheValue
<1>3. Len(cache) = 0 /\ Len(batch) = 0 /\ cache \in Seq(CacheEntry) /\ batch \in Seq(Change)
  BY <1>1
<1>4. /\ Store!Idle \in ReadState /\ Store!Idle.phase = "idle" /\ ~Store!Idle.late
  BY <1>2 DEF Store!Idle, Store!Empty, ReadState
<1>5. Sound(cache)
  BY <1>3, StorageAssumption DEF Sound
<1>6. StoreTypes
  BY <1>1, <1>2, <1>3, <1>4, <1>5 DEF StoreTypes
<1>7. BatchIsWritten
  BY <1>1, <1>3 DEF BatchIsWritten
<1>8. Engine \in Readers
  BY DEF Readers
<1>9. ReadsAreCurrent
  BY <1>1, <1>4, <1>8 DEF ReadsAreCurrent, ReadIsCurrent
<1>10. CacheIsCurrent
  BY <1>3 DEF CacheIsCurrent, Current
<1>11. Store!Promise!Init
  BY DEF Store!Init, Store!Promise!Init
<1> QED BY <1>6, <1>7, <1>9, <1>10, <1>11 DEF StoreInv

\* A read of k that returned v from the cache, the database, or a get.
LEMMA ReadKeeps ==
  ASSUME StoreInv, NEW r \in Readers, NEW k \in CachedKey, NEW v \in CacheValue,
         k \in Stale' \/ v = db[k],
         Store!Answer(r, k, v),
         r = Engine => batch = <<>> /\ (overtaken = {} => v = db[k]),
         cache' = Store!Remember(cache, k, v),
         UNCHANGED <<db, batch, written, commits>>,
         overtaken' \in SUBSET CachedKey, overtaken \subseteq overtaken'
  PROVE  Sound(cache') /\ BatchIsWritten' /\ CacheIsCurrent' /\ Faithful
<1>0. StoreTypes /\ BatchIsWritten /\ CacheIsCurrent /\ Sound(cache)
  BY DEF StoreInv, StoreTypes
<1>1. Stale \subseteq Stale'
  BY DEF Stale, Changed
<1>2. Current(cache, db, Stale')
  BY <1>0, <1>1 DEF CacheIsCurrent, Current
<1>3. Sound(cache') /\ Current(cache', db, Stale')
  BY <1>0, <1>2, RememberCurrent
<1>4. CacheIsCurrent'
  BY <1>3 DEF CacheIsCurrent
<1>5. BatchIsWritten'
  BY <1>0 DEF BatchIsWritten
<1>6. Faithful
  <2>1. CASE r = Engine
    <3>1. overtaken = {} => answer' = [key |-> k, value |-> db[k]]
      BY <2>1 DEF Store!Answer
    <3> QED BY <3>1 DEF Faithful, Store!Promise!Next, Store!Promise!Get
  <2>2. CASE r # Engine
    BY <2>2 DEF Faithful, Store!Answer
  <2> QED BY <2>1, <2>2
<1> QED BY <1>3, <1>4, <1>5, <1>6

LEMMA CachedIsCurrent ==
  ASSUME StoreInv, NEW k \in CachedKey, Store!Hit(k)
  PROVE  Store!Cached(k) \in CacheValue /\ (k \in Stale \/ Store!Cached(k) = db[k])
<1>1. Sound(cache) /\ CacheIsCurrent
  BY DEF StoreInv, StoreTypes
<1>2. PICK i \in 1 .. Len(cache) : cache[i].key = k /\ Store!Cached(k) = cache[i].value
  BY <1>1, CachedIs
<1>3. cache[i] \in CacheEntry
  BY <1>1 DEF Sound
<1> QED BY <1>1, <1>2, <1>3 DEF CacheIsCurrent, Current, CacheEntry

\* Without a batch in flight, only overtaken keys are stale.
LEMMA QuietIsFresh ==
  ASSUME StoreInv, batch = <<>>
  PROVE  Stale = overtaken /\ ~written
BY DEF StoreInv, BatchIsWritten, Stale, StoreTypes

LEMMA GetCachedStep ==
  ASSUME StoreInv, NEW r \in Readers, NEW k \in CachedKey, Store!GetCached(r, k)
  PROVE  StoreInv' /\ Faithful
<1>1. /\ Store!Hit(k) /\ reads[r] = Store!Idle /\ (r = Engine => batch = <<>>)
      /\ Store!Answer(r, k, Store!Cached(k)) /\ cache' = Store!Remember(cache, k, Store!Cached(k))
      /\ UNCHANGED <<db, reads, batch, written, commits, overtaken>>
  BY DEF Store!GetCached, Store!MayRead
<1>2. Store!Cached(k) \in CacheValue /\ (k \in Stale \/ Store!Cached(k) = db[k])
  BY <1>1, CachedIsCurrent
<1>3. Stale' = Stale
  BY <1>1 DEF Stale, Changed
<1>4. r = Engine => batch = <<>> /\ (overtaken = {} => Store!Cached(k) = db[k])
  BY <1>1, <1>2, QuietIsFresh
<1>5. overtaken \in SUBSET CachedKey
  BY DEF StoreInv, StoreTypes
<1> DEFINE v == Store!Cached(k)
<1> HIDE DEF v
<1>6. Sound(cache') /\ BatchIsWritten' /\ CacheIsCurrent' /\ Faithful
  BY <1>1, <1>2, <1>3, <1>4, <1>5, ReadKeeps DEF v
<1>7. StoreTypes'
  BY <1>1, <1>6 DEF StoreInv, StoreTypes
<1>8. ReadsAreCurrent'
  BY <1>1 DEF StoreInv, ReadsAreCurrent, ReadIsCurrent
<1> QED BY <1>6, <1>7, <1>8 DEF StoreInv

LEMMA GetSyncStep ==
  ASSUME StoreInv, NEW k \in CachedKey, Store!GetSync(k)
  PROVE  StoreInv' /\ Faithful
<1> DEFINE v == IF Store!Hit(k) THEN Store!Cached(k) ELSE db[k]
<1>1. /\ batch = <<>>
      /\ Store!Answer(Engine, k, v) /\ cache' = Store!Remember(cache, k, v)
      /\ UNCHANGED <<db, reads, batch, written, commits, overtaken>>
  BY DEF Store!GetSync, Store!MayRead
<1>2. v \in CacheValue /\ (k \in Stale \/ v = db[k])
  BY CachedIsCurrent DEF StoreInv, StoreTypes
<1> HIDE DEF v
<1>3. Stale' = Stale
  BY <1>1 DEF Stale, Changed
<1>4. overtaken = {} => v = db[k]
  BY <1>1, <1>2, QuietIsFresh
<1>5. overtaken \in SUBSET CachedKey /\ Engine \in Readers
  BY DEF StoreInv, StoreTypes, Readers
<1>6. Sound(cache') /\ BatchIsWritten' /\ CacheIsCurrent' /\ Faithful
  BY <1>1, <1>2, <1>3, <1>4, <1>5, ReadKeeps
<1>7. StoreTypes'
  BY <1>1, <1>6 DEF StoreInv, StoreTypes
<1>8. ReadsAreCurrent'
  BY <1>1 DEF StoreInv, ReadsAreCurrent, ReadIsCurrent
<1> QED BY <1>6, <1>7, <1>8 DEF StoreInv

\* Only the reads change, and those that change stay current.
LEMMA ReadsKeep ==
  ASSUME StoreInv, NEW r \in Readers, NEW rd \in ReadState,
         reads' = [reads EXCEPT ![r] = rd], ReadIsCurrent(rd), ~rd.late \/ r # Engine,
         r = Engine => batch = <<>>,
         UNCHANGED <<db, cache, batch, written, commits, answer, overtaken>>
  PROVE  StoreInv' /\ Faithful
<1>0. StoreTypes /\ BatchIsWritten /\ ReadsAreCurrent /\ CacheIsCurrent
  BY DEF StoreInv
<1>1. StoreTypes'
  BY <1>0 DEF StoreTypes
<1>2. BatchIsWritten' /\ CacheIsCurrent'
  BY <1>0 DEF BatchIsWritten, CacheIsCurrent, Stale, Changed
<1>3. \A x \in Readers : reads'[x] = IF x = r THEN rd ELSE reads[x]
  BY <1>0 DEF StoreTypes
<1>4. Engine \in Readers
  BY DEF Readers
<1>5. \A x \in Readers : ReadIsCurrent(reads[x])'
  BY <1>0, <1>3 DEF ReadsAreCurrent, ReadIsCurrent
<1>6. ReadsAreCurrent'
  BY <1>0, <1>3, <1>4, <1>5 DEF ReadsAreCurrent
<1>7. Faithful
  BY DEF Faithful
<1> QED BY <1>1, <1>2, <1>6, <1>7 DEF StoreInv

LEMMA AskedIs ==
  ASSUME NEW k \in CachedKey, NEW rd, rd = [Store!Idle EXCEPT !.key = k, !.phase = "asked"]
  PROVE  rd \in ReadState /\ rd.phase = "asked" /\ rd.key = k /\ rd.late = FALSE
<1>1. 0 \in CacheValue
  BY StorageAssumption DEF CacheValue
<1> QED BY <1>1 DEF Store!Idle, Store!Empty, ReadState

Answered(old, v) == [old EXCEPT !.phase = "answered", !.value = v]

LEMMA AnsweredIs ==
  ASSUME NEW old \in ReadState, NEW v \in CacheValue
  PROVE  /\ Answered(old, v) \in ReadState /\ Answered(old, v).phase = "answered"
         /\ Answered(old, v).key = old.key /\ Answered(old, v).value = v
         /\ Answered(old, v).late = old.late
BY DEF ReadState, Answered

LEMMA GetMissStep ==
  ASSUME StoreInv, NEW r \in Readers, NEW k \in CachedKey, Store!GetMiss(r, k)
  PROVE  StoreInv' /\ Faithful
<1> DEFINE rd == [Store!Idle EXCEPT !.key = k, !.phase = "asked"]
<1>1. /\ (r = Engine => batch = <<>>) /\ reads' = [reads EXCEPT ![r] = rd]
      /\ UNCHANGED <<db, cache, batch, written, commits, answer, overtaken>>
  BY DEF Store!GetMiss, Store!MayRead
<1>2. rd \in ReadState /\ rd.phase = "asked" /\ rd.key = k /\ rd.late = FALSE
  BY AskedIs
<1> HIDE DEF rd
<1>3. ReadIsCurrent(rd)
  BY <1>2 DEF ReadIsCurrent
<1> QED BY <1>1, <1>2, <1>3, ReadsKeep

LEMMA DbGetStep ==
  ASSUME StoreInv, NEW r \in Readers, Store!DbGet(r)
  PROVE  StoreInv' /\ Faithful
<1> DEFINE k  == reads[r].key
           rd == Answered(reads[r], db[k])
<1>0. StoreTypes /\ ReadIsCurrent(reads[r]) /\ reads[r] \in ReadState
      /\ (reads[Engine] # Store!Idle => batch = <<>>)
  BY DEF StoreInv, ReadsAreCurrent, StoreTypes
<1>1. /\ reads[r].phase = "asked" /\ reads' = [reads EXCEPT ![r] = rd]
      /\ UNCHANGED <<db, cache, batch, written, commits, answer, overtaken>>
  BY DEF Store!DbGet, Answered
<1>2. k \in CachedKey /\ ~reads[r].late /\ db[k] \in CacheValue
  BY <1>0, <1>1 DEF ReadIsCurrent, StoreTypes
<1>3. /\ rd \in ReadState /\ rd.phase = "answered" /\ rd.key = k
      /\ rd.value = db[k] /\ rd.late = reads[r].late
  BY <1>0, <1>2, AnsweredIs
<1>4. r = Engine => batch = <<>>
  <2>1. Store!Idle.phase = "idle"
    BY DEF Store!Idle
  <2> QED BY <1>0, <1>1, <2>1
<1> HIDE DEF rd
<1>5. ReadIsCurrent(rd) /\ ~rd.late
  BY <1>2, <1>3 DEF ReadIsCurrent
<1> QED BY <1>1, <1>3, <1>4, <1>5, ReadsKeep

LEMMA GetReturnStep ==
  ASSUME StoreInv, NEW r \in Readers, Store!GetReturn(r)
  PROVE  StoreInv' /\ Faithful
<1> DEFINE k == reads[r].key
           v == reads[r].value
<1>0. /\ StoreTypes /\ ReadsAreCurrent /\ ReadIsCurrent(reads[r]) /\ reads[r] \in ReadState
      /\ (reads[Engine] # Store!Idle => batch = <<>> /\ ~reads[Engine].late)
  BY DEF StoreInv, ReadsAreCurrent, StoreTypes
<1>1. /\ reads[r].phase = "answered" /\ cache' = Store!Remember(cache, k, v)
      /\ Store!Answer(r, k, v)
      /\ overtaken' = (IF reads[r].late THEN overtaken \cup {k} ELSE overtaken)
      /\ reads' = [reads EXCEPT ![r] = Store!Idle]
      /\ UNCHANGED <<db, batch, written, commits>>
  BY DEF Store!GetReturn
<1>2. k \in CachedKey /\ v \in CacheValue /\ (~reads[r].late => v = db[k])
  BY <1>0, <1>1 DEF ReadIsCurrent, ReadState
<1>3. Store!Idle.phase = "idle" /\ Store!Idle \in ReadState /\ ReadIsCurrent(Store!Idle)'
  <2>1. 0 \in CacheValue
    BY StorageAssumption DEF CacheValue
  <2> QED BY <2>1 DEF Store!Idle, Store!Empty, ReadState, ReadIsCurrent
<1>4. r = Engine => batch = <<>> /\ (overtaken = {} => v = db[k])
  BY <1>0, <1>1, <1>2, <1>3
<1>5. overtaken' \in SUBSET CachedKey /\ overtaken \subseteq overtaken'
  BY <1>0, <1>1, <1>2 DEF StoreTypes
<1>6. k \in Stale' \/ v = db[k]
  BY <1>1, <1>2 DEF Stale
<1>7. Sound(cache') /\ BatchIsWritten' /\ CacheIsCurrent' /\ Faithful
  <2> HIDE DEF k, v
  <2> QED BY <1>1, <1>2, <1>4, <1>5, <1>6, ReadKeeps
<1>8. StoreTypes'
  BY <1>0, <1>1, <1>3, <1>5, <1>7 DEF StoreTypes
<1>9. \A x \in Readers : reads'[x] = IF x = r THEN Store!Idle ELSE reads[x]
  BY <1>0, <1>1 DEF StoreTypes
<1>10. \A x \in Readers : ReadIsCurrent(reads[x])'
  BY <1>0, <1>1, <1>3, <1>9 DEF ReadsAreCurrent, ReadIsCurrent
<1>11. ReadsAreCurrent'
  <2>1. Engine \in Readers
    BY DEF Readers
  <2> QED BY <1>0, <1>1, <1>9, <1>10, <2>1 DEF ReadsAreCurrent
<1> QED BY <1>7, <1>8, <1>11 DEF StoreInv

LEMMA ApplyChangesStep ==
  ASSUME StoreInv, NEW changes \in Store!ChangeLists, Store!ApplyChanges(changes)
  PROVE  StoreInv' /\ Faithful
<1>0. StoreTypes /\ ReadsAreCurrent /\ CacheIsCurrent /\ BatchIsWritten
  BY DEF StoreInv
<1>1. /\ batch = <<>> /\ reads[Engine] = Store!Idle /\ commits < MaxCommits
      /\ batch' = changes /\ commits' = commits + 1
      /\ UNCHANGED <<db, cache, reads, written, answer, overtaken>>
  BY DEF Store!ApplyChanges
<1>2. ~written /\ Stale = overtaken
  BY <1>1, QuietIsFresh
<1>3. /\ changes \in Seq(Change)
      /\ \A i, j \in 1 .. Len(changes) : changes[i][1] = changes[j][1] => i = j
  BY <1>0, <1>1, ChangeListsAre DEF StoreTypes
<1>4. commits' \in 0 .. MaxCommits
  BY <1>0, <1>1, StorageAssumption DEF StoreTypes
<1>5. StoreTypes'
  BY <1>0, <1>1, <1>3, <1>4 DEF StoreTypes
<1>6. BatchIsWritten'
  BY <1>1, <1>2, <1>3 DEF BatchIsWritten
<1>7. ReadsAreCurrent'
  BY <1>0, <1>1 DEF ReadsAreCurrent, ReadIsCurrent
<1>8. CacheIsCurrent'
  <2>1. Stale' = Stale
    BY <1>1, <1>2 DEF Stale
  <2> QED BY <1>0, <1>1, <2>1 DEF CacheIsCurrent
<1>9. Faithful
  BY <1>1 DEF Faithful
<1> QED BY <1>5, <1>6, <1>7, <1>8, <1>9 DEF StoreInv

LEMMA DbBatchStep ==
  ASSUME StoreInv, Store!DbBatch
  PROVE  StoreInv' /\ Faithful
<1>0. StoreTypes /\ ReadsAreCurrent /\ CacheIsCurrent /\ BatchIsWritten
  BY DEF StoreInv
<1>1. Store!Changed = Changed /\ Changed \subseteq CachedKey
  BY <1>0, ChangedIs
<1>2. /\ batch # <<>> /\ ~written /\ written' = TRUE
      /\ db' = [k \in CachedKey |-> IF k \in Changed THEN Store!NewValue(k) ELSE db[k]]
      /\ reads' = [r \in Readers |->
           IF reads[r].phase = "answered" /\ reads[r].key \in Changed
             THEN [reads[r] EXCEPT !.late = TRUE] ELSE reads[r]]
      /\ UNCHANGED <<cache, batch, commits, answer, overtaken>>
  BY <1>1 DEF Store!DbBatch, Store!Reader, Readers
<1>3. \A j \in 1 .. Len(batch) :
        /\ batch[j][1] \in CachedKey /\ batch[j][2] \in CacheValue
        /\ db'[batch[j][1]] = batch[j][2]
  <2> SUFFICES ASSUME NEW j \in 1 .. Len(batch)
               PROVE  /\ batch[j][1] \in CachedKey /\ batch[j][2] \in CacheValue
                      /\ db'[batch[j][1]] = batch[j][2]
    OBVIOUS
  <2>1. batch[j] \in Change
    BY <1>0 DEF StoreTypes
  <2>2. batch[j][1] \in CachedKey /\ batch[j][2] \in CacheValue
    BY <2>1 DEF Change
  <2>3. batch[j][1] \in Changed
    BY DEF Changed
  <2>4. Store!NewValue(batch[j][1]) = batch[j][2]
    BY <1>0, NewValueIs
  <2> QED BY <1>2, <2>2, <2>3, <2>4
<1>4. \A k \in CachedKey \ Changed : db'[k] = db[k]
  BY <1>2
<1>5. db' \in [CachedKey -> CacheValue]
  <2>1. \A k \in Changed : db'[k] \in CacheValue
    BY <1>3 DEF Changed
  <2>2. \A k \in CachedKey : db'[k] \in CacheValue
    BY <1>0, <1>4, <2>1 DEF StoreTypes
  <2>3. db' = [k \in CachedKey |-> db'[k]]
    BY <1>2
  <2> QED BY <2>2, <2>3
<1>6. \A r \in Readers :
        /\ reads[r] \in ReadState /\ ReadIsCurrent(reads[r])
        /\ reads'[r] = IF reads[r].phase = "answered" /\ reads[r].key \in Changed
                         THEN [reads[r] EXCEPT !.late = TRUE] ELSE reads[r]
  BY <1>0, <1>2 DEF StoreTypes, ReadsAreCurrent
<1>7. ASSUME NEW r \in Readers PROVE reads'[r] \in ReadState /\ ReadIsCurrent(reads[r])'
  <2>1. CASE reads[r].phase = "answered" /\ reads[r].key \in Changed
    <3>1. reads'[r] = [reads[r] EXCEPT !.late = TRUE]
      BY <1>6, <2>1
    <3>2. /\ reads'[r].phase = "answered" /\ reads'[r].late /\ reads'[r].key = reads[r].key
          /\ reads'[r] \in ReadState
      BY <1>6, <2>1, <3>1 DEF ReadState
    <3> QED BY <1>1, <2>1, <3>2 DEF ReadIsCurrent
  <2>2. CASE ~(reads[r].phase = "answered" /\ reads[r].key \in Changed)
    <3>1. reads'[r] = reads[r]
      BY <1>6, <2>2
    <3>2. reads[r].phase = "answered" => reads[r].key \in CachedKey \ Changed
      BY <1>6, <2>2 DEF ReadIsCurrent
    <3> QED BY <1>4, <1>6, <3>1, <3>2 DEF ReadIsCurrent
  <2> QED BY <2>1, <2>2
<1>8. reads' \in [Readers -> ReadState]
  <2>1. reads' = [r \in Readers |-> reads'[r]]
    BY <1>2
  <2> QED BY <1>7, <2>1
<1>9. StoreTypes'
  BY <1>0, <1>2, <1>5, <1>8 DEF StoreTypes
<1>10. BatchIsWritten'
  BY <1>0, <1>2, <1>3 DEF BatchIsWritten
<1>11. ReadsAreCurrent'
  <2>1. reads[Engine] = Store!Idle
    BY <1>0, <1>2 DEF ReadsAreCurrent
  <2>2. Store!Idle.phase = "idle" /\ Engine \in Readers
    BY DEF Store!Idle, Readers
  <2>3. reads'[Engine] = Store!Idle
    BY <1>6, <2>1, <2>2
  <2> QED BY <1>7, <2>3 DEF ReadsAreCurrent
<1>12. CacheIsCurrent'
  <2>1. Stale' = overtaken \cup Changed /\ Stale = overtaken
    BY <1>2 DEF Stale, Changed
  <2>2. ASSUME NEW i \in 1 .. Len(cache), cache[i].key \notin overtaken \cup Changed
        PROVE  cache[i].value = db'[cache[i].key]
    <3>1. cache[i].key \in CachedKey
      <4>1. cache[i] \in CacheEntry
        BY <1>0 DEF StoreTypes, Sound
      <4> QED BY <4>1 DEF CacheEntry
    <3>2. cache[i].value = db[cache[i].key]
      BY <1>0, <2>1, <2>2 DEF CacheIsCurrent, Current
    <3> QED BY <1>4, <2>2, <3>1, <3>2
  <2> QED BY <1>2, <2>1, <2>2 DEF CacheIsCurrent, Current
<1>13. Faithful
  <2>1. CacheValue = Store!Value \cup {Store!Empty}
    BY StorageAssumption DEF CacheValue, Store!Value, Store!Empty
  <2>2. db' \in [CachedKey -> Store!Value \cup {Store!Empty}]
    BY <1>5, <2>1
  <2> QED BY <1>2, <2>2 DEF Faithful, Store!Promise!Next, Store!Promise!ApplyChanges
<1> QED BY <1>9, <1>10, <1>11, <1>12, <1>13 DEF StoreInv

LEMMA ApplyReturnStep ==
  ASSUME StoreInv, Store!ApplyReturn
  PROVE  StoreInv' /\ Faithful
<1>0. StoreTypes /\ ReadsAreCurrent /\ CacheIsCurrent /\ BatchIsWritten
  BY DEF StoreInv
<1>1. /\ written /\ cache' = Store!RememberAll(cache, batch) /\ overtaken' = overtaken \ Changed
      /\ batch' = <<>> /\ written' = FALSE /\ UNCHANGED <<db, reads, commits, answer>>
  BY <1>0, ChangedIs DEF Store!ApplyReturn
<1>2. Sound(cache') /\ \A i \in 1 .. Len(cache') : From(cache'[i], Len(batch), cache, batch)
  <2>1. Sound(cache) /\ batch \in Seq(Change)
    BY <1>0 DEF StoreTypes
  <2> QED BY <1>0, <1>1, <2>1, RememberAllFollows DEF BatchIsWritten
<1>3. batch' \in Seq(Change) /\ Len(batch') = 0
  BY <1>1
<1>4. StoreTypes'
  BY <1>0, <1>1, <1>2, <1>3 DEF StoreTypes
<1>5. BatchIsWritten'
  BY <1>1, <1>3 DEF BatchIsWritten
<1>6. ReadsAreCurrent'
  BY <1>0, <1>1 DEF ReadsAreCurrent, ReadIsCurrent
<1>7. CacheIsCurrent'
  <2>1. Stale' = overtaken \ Changed /\ Stale = overtaken \cup Changed
    BY <1>1 DEF Stale
  <2>2. ASSUME NEW i \in 1 .. Len(cache'), cache'[i].key \notin overtaken \ Changed
        PROVE  cache'[i].value = db[cache'[i].key]
    <3>1. CASE \E j \in 1 .. Len(batch) :
                 cache'[i].key = batch[j][1] /\ cache'[i].value = batch[j][2]
      BY <1>0, <1>1, <3>1 DEF BatchIsWritten
    <3>2. CASE /\ \A j \in 1 .. Len(batch) : cache'[i].key # batch[j][1]
               /\ \E j \in 1 .. Len(cache) : cache'[i] = cache[j]
      <4>1. cache'[i].key \notin Changed
        BY <3>2 DEF Changed
      <4>2. PICK j \in 1 .. Len(cache) : cache'[i] = cache[j]
        BY <3>2
      <4> QED BY <1>0, <2>1, <2>2, <4>1, <4>2 DEF CacheIsCurrent, Current
    <3> QED BY <1>2, <3>1, <3>2 DEF From
  <2> QED BY <1>1, <2>1, <2>2 DEF CacheIsCurrent, Current
<1>8. Faithful
  BY <1>1 DEF Faithful
<1> QED BY <1>4, <1>5, <1>6, <1>7, <1>8 DEF StoreInv

LEMMA StoreStep == StoreInv /\ [StorageNext]_storageVars => StoreInv' /\ Faithful
<1> SUFFICES ASSUME StoreInv, [StorageNext]_storageVars PROVE StoreInv' /\ Faithful
  OBVIOUS
<1>1. CASE UNCHANGED storeVars
  BY <1>1 DEF storeVars, StoreInv, StoreTypes, BatchIsWritten, ReadsAreCurrent, ReadIsCurrent,
     CacheIsCurrent, Stale, Changed, Faithful
<1>2. CASE Store!Next
  <2>1. ASSUME NEW r \in Readers, NEW k \in CachedKey, Store!GetCached(r, k) \/ Store!GetMiss(r, k)
        PROVE  StoreInv' /\ Faithful
    BY <2>1, GetCachedStep, GetMissStep
  <2>2. ASSUME NEW r \in Readers, Store!DbGet(r) \/ Store!GetReturn(r)
        PROVE  StoreInv' /\ Faithful
    BY <2>2, DbGetStep, GetReturnStep
  <2>3. ASSUME NEW k \in CachedKey, Store!GetSync(k)
        PROVE  StoreInv' /\ Faithful
    BY <2>3, GetSyncStep
  <2>4. ASSUME NEW changes \in Store!ChangeLists, Store!ApplyChanges(changes)
        PROVE  StoreInv' /\ Faithful
    BY <2>4, ApplyChangesStep
  <2> QED
    BY <1>2, <2>1, <2>2, <2>3, <2>4, DbBatchStep, ApplyReturnStep
    DEF Store!Next, Store!Reader, Readers
<1> QED
  BY <1>1, <1>2 DEF StorageNext, storageVars

\* The cache of a store never holds more than its limit nor a key twice, and what
\* a read returns while no commit is in flight is what the database holds, unless
\* a commit overtook a get of that key since the key's last commit.
THEOREM CacheStaysSound == StorageSpec => []CacheIsSound
<1>1. StorageInit => StoreInv
  BY StoreStart DEF StorageInit
<1>2. StoreInv => CacheIsSound
  <2> SUFFICES ASSUME StoreInv PROVE CacheIsSound
    OBVIOUS
  <2>1. Sound(cache)
    BY DEF StoreInv, StoreTypes
  <2>2. Store!CacheIsBounded
    <3>1. DOMAIN cache = 1 .. Len(cache)
      BY <2>1 DEF Sound
    <3> QED BY <2>1, <3>1 DEF Sound, Store!CacheIsBounded
  <2>3. Store!StaleOnlyIfOvertaken
    <3> SUFFICES ASSUME batch = <<>>, NEW k \in CachedKey \ overtaken
                 PROVE  Store!WouldRead(k) = db[k]
      BY DEF Store!StaleOnlyIfOvertaken
    <3>1. Store!Hit(k) => Store!Cached(k) = db[k]
      BY QuietIsFresh, CachedIsCurrent
    <3> QED BY <3>1 DEF Store!WouldRead
  <2> QED BY <2>2, <2>3 DEF CacheIsSound
<1> QED
  BY <1>1, <1>2, StoreStep, PTL DEF StorageSpec

\* As long as no commit overtakes a get, the store behind its cache is the map
\* that execution takes it for.
THEOREM StoreIsAMap == StorageSpec => ImplementsStateStore
<1>1. StorageInit => StoreInv /\ Store!Promise!Init
  BY StoreStart DEF StorageInit
<1>2. Faithful => [overtaken = {} => Store!Promise!Next]_<<db, answer>>
  BY DEF Faithful
<1> QED
  BY <1>1, <1>2, StoreStep, PTL DEF StorageSpec, ImplementsStateStore, Store!ImplementsStateStore
-----------------------------------------------------------------------------
(* Lists of pairs by ascending key.                                          *)

Pairs == Nat \X Nat

\* q is the list of S by ascending key.
Lists(q, S) ==
  /\ q \in Seq(Pairs)
  /\ \A i, j \in 1 .. Len(q) : i < j => q[i][1] < q[j][1]
  /\ S = {q[i] : i \in 1 .. Len(q)}

LEMMA ListsTypes ==
  ASSUME NEW q, NEW S, Lists(q, S)
  PROVE  /\ q \in Seq(Pairs) /\ Len(q) \in Nat /\ DOMAIN q = 1 .. Len(q) /\ S \subseteq Pairs
         /\ \A i \in 1 .. Len(q) : q[i] \in Pairs /\ q[i][1] \in Nat /\ q[i][2] \in Nat /\ q[i] \in S
         /\ \A i, j \in 1 .. Len(q) : (q[i][1] < q[j][1]) <=> i < j
         /\ \A i, j \in 1 .. Len(q) : q[i][1] = q[j][1] => i = j
<1>1. q \in Seq(Pairs) /\ Len(q) \in Nat /\ DOMAIN q = 1 .. Len(q)
  BY DEF Lists
<1>2. \A i \in 1 .. Len(q) : q[i] \in Pairs /\ q[i] \in S
  BY <1>1 DEF Lists
<1>3. \A p \in Pairs : p[1] \in Nat /\ p[2] \in Nat
  BY DEF Pairs
<1>4. ASSUME NEW i \in 1 .. Len(q), NEW j \in 1 .. Len(q)
      PROVE  /\ (q[i][1] < q[j][1]) <=> i < j
             /\ q[i][1] = q[j][1] => i = j
  <2>1. q[i][1] \in Nat /\ q[j][1] \in Nat /\ i \in Nat /\ j \in Nat
    BY <1>1, <1>2, <1>3
  <2>2. i < j => q[i][1] < q[j][1]
    BY DEF Lists
  <2>3. j < i => q[j][1] < q[i][1]
    BY DEF Lists
  <2>4. i < j \/ j < i \/ i = j
    BY ONLY <2>1
  <2> QED BY ONLY <2>1, <2>2, <2>3, <2>4
<1>5. S \subseteq Pairs
  BY <1>2 DEF Lists
<1> QED BY <1>1, <1>2, <1>3, <1>4, <1>5

LEMMA ListNothing == Lists(<<>>, {})
<1>1. <<>> \in Seq(Pairs) /\ Len(<<>>) = 0
  OBVIOUS
<1> QED BY <1>1 DEF Lists

LEMMA ListOne ==
  ASSUME NEW e \in Pairs
  PROVE  Lists(<<e>>, {e})
<1> DEFINE q == <<e>>
<1>1. q \in Seq(Pairs) /\ Len(q) = 1 /\ q[1] = e
  OBVIOUS
<1> HIDE DEF q
<1>2. \A i \in 1 .. Len(q) : i = 1
  BY <1>1
<1>3. 1 \in 1 .. Len(q)
  BY <1>1
<1>4. \A i, j \in 1 .. Len(q) : ~(i < j)
  BY <1>2
<1>5. {e} = {q[i] : i \in 1 .. Len(q)}
  BY <1>1, <1>2, <1>3
<1>6. Lists(q, {e})
  BY <1>1, <1>4, <1>5 DEF Lists
<1> QED BY <1>6 DEF q

\* One list after another one of smaller keys.
LEMMA ListConcat ==
  ASSUME NEW q, NEW S, Lists(q, S), NEW r, NEW T, Lists(r, T),
         \A s \in S, t \in T : s[1] < t[1]
  PROVE  Lists(q \o r, S \cup T)
<1> DEFINE n == Len(q)
           m == Len(r)
           a == q \o r
<1>1. /\ q \in Seq(Pairs) /\ n \in Nat /\ r \in Seq(Pairs) /\ m \in Nat
      /\ \A i \in 1 .. n : q[i] \in S
      /\ \A i \in 1 .. m : r[i] \in T
  BY ListsTypes
<1>2. /\ a \in Seq(Pairs) /\ Len(a) = n + m
      /\ \A i \in 1 .. n + m : a[i] = IF i <= n THEN q[i] ELSE r[i - n]
  BY ONLY <1>1, ConcatProperties
<1> HIDE DEF n, m, a
<1>3. /\ \A i \in 1 .. n : i \in 1 .. n + m /\ a[i] = q[i]
      /\ \A i \in 1 .. m : n + i \in 1 .. n + m /\ a[n + i] = r[i]
  <2>1. \A i \in 1 .. n : i \in 1 .. n + m /\ i <= n
    BY <1>1
  <2>2. \A i \in 1 .. m : n + i \in 1 .. n + m /\ ~(n + i <= n) /\ (n + i) - n = i
    BY <1>1
  <2> QED BY <1>2, <2>1, <2>2
<1>4. \A i \in 1 .. n + m : i \in 1 .. n \/ \E x \in 1 .. m : i = n + x
  <2>1. ASSUME NEW i \in 1 .. n + m, ~(i <= n)
        PROVE  i - n \in 1 .. m /\ i = n + (i - n)
    BY <1>1, <2>1
  <2>2. ASSUME NEW i \in 1 .. n + m, i <= n
        PROVE  i \in 1 .. n
    BY <1>1, <2>2
  <2> QED BY <2>1, <2>2
<1>5. S \cup T = {a[i] : i \in 1 .. n + m}
  <2>1. S = {q[i] : i \in 1 .. n} /\ T = {r[i] : i \in 1 .. m}
    BY DEF Lists, n, m
  <2> QED BY <1>3, <1>4, <2>1
<1>6. ASSUME NEW i \in 1 .. n + m, NEW j \in 1 .. n + m, i < j
      PROVE  a[i][1] < a[j][1]
  <2>1. CASE i \in 1 .. n /\ j \in 1 .. n
    <3>1. q[i][1] < q[j][1]
      BY <1>6, <2>1 DEF Lists, n
    <3> QED BY <1>3, <2>1, <3>1
  <2>2. CASE i \in 1 .. n /\ \E y \in 1 .. m : j = n + y
    BY <1>1, <1>3, <2>2
  <2>3. CASE (\E x \in 1 .. m : i = n + x) /\ (\E y \in 1 .. m : j = n + y)
    <3>1. PICK x \in 1 .. m, y \in 1 .. m : i = n + x /\ j = n + y
      BY <2>3
    <3>2. x < y
      BY <1>1, <1>6, <3>1
    <3>3. r[x][1] < r[y][1]
      BY <3>2 DEF Lists, m
    <3> QED BY <1>3, <3>1, <3>3
  <2>4. ~(j \in 1 .. n /\ \E x \in 1 .. m : i = n + x)
    BY <1>1, <1>6
  <2> QED BY <1>4, <2>1, <2>2, <2>3, <2>4
<1> QED BY <1>2, <1>5, <1>6 DEF Lists, a

\* A set has one list.
LEMMA ListLonger ==
  ASSUME NEW q, NEW r, NEW S, Lists(q, S), Lists(r, S),
         \A i \in 1 .. Len(q) : i \in 1 .. Len(r) => q[i] = r[i]
  PROVE  Len(r) <= Len(q)
<1>1. Len(q) \in Nat /\ Len(r) \in Nat
  BY ListsTypes
<1> SUFFICES ASSUME ~(Len(r) <= Len(q)) PROVE FALSE
  OBVIOUS
<1> DEFINE n == Len(q)
           x == n + 1
<1>2. x \in 1 .. Len(r) /\ \A i \in 1 .. n : i \in 1 .. Len(r) /\ i # x
  BY <1>1
<1>3. r[x] \in S
  BY <1>2, ListsTypes
<1>4. PICK i \in 1 .. n : q[i] = r[x]
  BY <1>3 DEF Lists
<1>5. r[i] = r[x] /\ i \in 1 .. Len(r) /\ i # x
  BY <1>2, <1>4
<1> HIDE DEF n, x
<1> QED BY <1>2, <1>5, ListsTypes

LEMMA ListsMeet ==
  ASSUME NEW q, NEW r, NEW S, Lists(q, S), Lists(r, S), NEW m,
         m \in 1 .. Len(q), m \in 1 .. Len(r),
         \A i \in 1 .. Len(q) : i < m => q[i] = r[i]
  PROVE  ~(q[m][1] < r[m][1])
<1> SUFFICES ASSUME q[m][1] < r[m][1] PROVE FALSE
  OBVIOUS
<1>1. q[m] \in S /\ Len(q) \in Nat /\ Len(r) \in Nat
  BY ListsTypes
<1>2. PICK x \in 1 .. Len(r) : r[x] = q[m]
  BY <1>1 DEF Lists
<1>3. x < m
  BY <1>2, ListsTypes
<1>4. x \in 1 .. Len(q)
  BY <1>1, <1>2, <1>3
<1>5. q[x] = q[m]
  BY <1>2, <1>3, <1>4
<1>6. x = m
  BY <1>4, <1>5, ListsTypes
<1> QED BY <1>3, <1>6

LEMMA ListUnique ==
  ASSUME NEW q, NEW r, NEW S, Lists(q, S), Lists(r, S)
  PROVE  q = r
<1>1. /\ q \in Seq(Pairs) /\ Len(q) \in Nat /\ DOMAIN q = 1 .. Len(q)
      /\ r \in Seq(Pairs) /\ Len(r) \in Nat /\ DOMAIN r = 1 .. Len(r)
  BY ListsTypes
<1> DEFINE Bad == {i \in 1 .. Len(q) : i \in 1 .. Len(r) /\ q[i] # r[i]}
<1>2. Bad = {}
  <2> SUFFICES ASSUME Bad # {} PROVE FALSE
    OBVIOUS
  <2>1. Bad \in SUBSET Nat
    BY <1>1
  <2>2. PICK m \in Bad : \A i \in Bad : m <= i
    BY <2>1, LeastNatural
  <2>3. m \in 1 .. Len(q) /\ m \in 1 .. Len(r) /\ q[m] # r[m]
    OBVIOUS
  <2>4. \A i \in 1 .. Len(q) : i < m => i \in 1 .. Len(r) /\ i \notin Bad
    BY <1>1, <2>2, <2>3
  <2>5. \A i \in 1 .. Len(q) : i < m => q[i] = r[i]
    BY <2>4
  <2>6. \A i \in 1 .. Len(r) : i < m => r[i] = q[i]
    BY <1>1, <2>3, <2>5
  <2> HIDE DEF Bad
  <2>7. ~(q[m][1] < r[m][1]) /\ ~(r[m][1] < q[m][1])
    BY <2>3, <2>5, <2>6, ListsMeet
  <2>8. q[m][1] \in Nat /\ r[m][1] \in Nat
    BY <2>3, ListsTypes
  <2>9. q[m][1] = r[m][1]
    BY <2>7, <2>8
  <2>10. r[m] \in S
    BY <2>3, ListsTypes
  <2>11. PICK x \in 1 .. Len(q) : q[x] = r[m]
    BY <2>10 DEF Lists
  <2>12. x = m
    BY <2>3, <2>9, <2>11, ListsTypes
  <2> QED BY <2>3, <2>11, <2>12
<1>3. \A i \in 1 .. Len(q) : i \in 1 .. Len(r) => q[i] = r[i]
  BY <1>2
<1>4. \A i \in 1 .. Len(r) : i \in 1 .. Len(q) => r[i] = q[i]
  BY <1>3
<1> HIDE DEF Bad
<1>5. Len(r) <= Len(q) /\ Len(q) <= Len(r)
  BY <1>3, <1>4, ListLonger
<1>6. Len(q) = Len(r)
  <2>1. Len(q) \in Nat /\ Len(r) \in Nat
    BY <1>1
  <2> QED BY ONLY <1>5, <2>1
<1> QED BY <1>1, <1>3, <1>6, SeqEqual

\* A finite set of pairs with distinct keys has one.
OfDistinctKeys(S) == S \subseteq Pairs /\ \A s, t \in S : s[1] = t[1] => s = t

LEMMA KeysBounded ==
  ASSUME NEW S, IsFiniteSet(S), S \subseteq Pairs
  PROVE  \E b \in Nat : \A s \in S : s[1] < b
<1> DEFINE n == Cardinality(S)
<1>1. n \in Nat /\ ExistsBijection(1 .. n, S)
  BY FS_CardinalityType
<1> HIDE DEF n
<1>2. PICK f \in [1 .. n -> S] : \A s \in S : \E i \in 1 .. n : f[i] = s
  BY <1>1 DEF ExistsBijection, Bijection, Surjection
<1> DEFINE Has(m) == \E b \in Nat : \A i \in 1 .. m : f[i][1] < b
           Bad    == {m \in 0 .. n : ~Has(m)}
<1>3. Bad = {}
  <2> SUFFICES ASSUME Bad # {} PROVE FALSE
    OBVIOUS
  <2>1. Bad \in SUBSET Nat
    OBVIOUS
  <2> HIDE DEF Has
  <2>2. PICK m \in Bad : \A k \in Bad : m <= k
    BY <2>1, LeastNatural
  <2>3. m \in 0 .. n /\ ~Has(m)
    OBVIOUS
  <2>4. m # 0
    <3>1. 0 \in Nat /\ \A i \in 1 .. 0 : f[i][1] < 0
      OBVIOUS
    <3>2. Has(0)
      BY <3>1 DEF Has
    <3> QED BY <2>3, <3>2
  <2> DEFINE p == m - 1
  <2>5. /\ p \in 0 .. n /\ ~(m <= p) /\ m \in 1 .. n
        /\ \A i \in 1 .. m : i \in 1 .. n /\ (i \in 1 .. p \/ i = m)
    <3>1. n \in Nat
      BY <1>1
    <3> QED BY ONLY <2>3, <2>4, <3>1
  <2> HIDE DEF p
  <2>6. Has(p)
    BY <2>2, <2>5
  <2>7. PICK b \in Nat : \A i \in 1 .. p : f[i][1] < b
    BY <2>6 DEF Has
  <2>8. f[m] \in Pairs
    BY <1>2, <2>5
  <2>9. f[m][1] \in Nat
    BY <2>8 DEF Pairs
  <2> DEFINE c == IF f[m][1] < b THEN b ELSE f[m][1] + 1
  <2>10. c \in Nat /\ b <= c /\ f[m][1] < c
    BY <2>9
  <2> HIDE DEF c
  <2>11. ASSUME NEW i \in 1 .. m PROVE f[i][1] < c
    <3>1. CASE i = m
      BY <2>10, <3>1
    <3>2. CASE i \in 1 .. p
      <4>1. f[i] \in Pairs
        <5>1. f[i] \in S
          BY <1>2, <2>5
        <5> QED BY <5>1
      <4>2. f[i][1] \in Nat
        BY <4>1 DEF Pairs
      <4> QED BY <2>7, <2>10, <3>2, <4>2
    <3> QED BY <2>5, <3>1, <3>2
  <2>12. Has(m)
    BY <2>10, <2>11 DEF Has
  <2> QED BY <2>3, <2>12
<1>4. Has(n)
  <2>1. n \in 0 .. n
    BY <1>1
  <2> HIDE DEF Has
  <2> QED BY <1>3, <2>1
<1> QED BY <1>2, <1>4

LEMMA ListExists ==
  ASSUME NEW S, IsFiniteSet(S), OfDistinctKeys(S)
  PROVE  \E q : Lists(q, S)
<1>1. PICK b \in Nat : \A s \in S : s[1] < b
  BY KeysBounded DEF OfDistinctKeys
<1> DEFINE Below(m) == {s \in S : s[1] < m}
           Has(m)   == \E q : Lists(q, Below(m))
           Bad      == {m \in 0 .. b : ~Has(m)}
<1>2. \A s \in S : s \in Pairs /\ s[1] \in Nat
  BY DEF OfDistinctKeys, Pairs
<1>3. Bad = {}
  <2> SUFFICES ASSUME Bad # {} PROVE FALSE
    OBVIOUS
  <2>1. Bad \in SUBSET Nat
    OBVIOUS
  <2> HIDE DEF Has
  <2>2. PICK m \in Bad : \A k \in Bad : m <= k
    BY <2>1, LeastNatural
  <2>3. m \in 0 .. b /\ ~Has(m)
    OBVIOUS
  <2>4. m # 0
    <3>1. Below(0) = {}
      BY <1>2
    <3>2. Has(0)
      BY <3>1, ListNothing DEF Has
    <3> QED BY <2>3, <3>2
  <2> DEFINE p == m - 1
  <2>5. p \in 0 .. b /\ ~(m <= p) /\ p \in Nat /\ m = p + 1
    <3>1. b \in Nat
      BY <1>1
    <3> QED BY ONLY <2>3, <2>4, <3>1
  <2> HIDE DEF p
  <2>6. Has(p)
    BY <2>2, <2>5
  <2>7. PICK q : Lists(q, Below(p))
    BY <2>6 DEF Has
  <2>8. CASE \E s \in S : s[1] = p
    <3>1. PICK s \in S : s[1] = p
      BY <2>8
    <3>2. Below(m) = Below(p) \cup {s}
      <4>1. ASSUME NEW t \in S, t[1] < m PROVE t[1] < p \/ t = s
        <5>1. t[1] \in Nat
          BY <1>2
        <5>2. t[1] < p \/ t[1] = p
          BY <2>5, <4>1, <5>1
        <5> QED BY <3>1, <5>2 DEF OfDistinctKeys
      <4>2. \A t \in S : t[1] < p => t[1] < m
        BY <1>2, <2>5
      <4>3. s[1] < m
        BY <2>5, <3>1
      <4> QED BY <4>1, <4>2, <4>3
    <3>3. Lists(<<s>>, {s})
      BY <1>2, ListOne
    <3>4. \A u \in Below(p), t \in {s} : u[1] < t[1]
      BY <3>1
    <3> HIDE DEF Below
    <3>5. Lists(q \o <<s>>, Below(p) \cup {s})
      BY ONLY <2>7, <3>3, <3>4, ListConcat
    <3> QED BY <2>3, <3>2, <3>5 DEF Has
  <2>9. CASE ~ \E s \in S : s[1] = p
    <3>1. Below(m) = Below(p)
      <4>1. ASSUME NEW t \in S PROVE t[1] < m <=> t[1] < p
        <5>1. t[1] \in Nat /\ t[1] # p
          BY <1>2, <2>9
        <5> QED BY <2>5, <5>1
      <4> QED BY <4>1
    <3> HIDE DEF Below
    <3> QED BY <2>3, <2>7, <3>1 DEF Has
  <2> QED BY <2>8, <2>9
<1>4. Has(b)
  BY <1>1, <1>3
<1>5. Below(b) = S
  BY <1>1
<1> QED BY <1>4, <1>5

\* The list of a set is what the model sorts it into.
LEMMA AscendingLists ==
  ASSUME NEW S, IsFiniteSet(S), OfDistinctKeys(S)
  PROVE  Lists(Ascending(S), S)
<1> DEFINE n == Cardinality(S)
           D == 1 .. n
<1>1. n \in Nat /\ IsFiniteSet(D) /\ Cardinality(D) = n
  <2>1. n \in Nat
    BY FS_CardinalityType
  <2> HIDE DEF n
  <2>2. IsFiniteSet(D) /\ Cardinality(D) = IF 1 > n THEN 0 ELSE n - 1 + 1
    BY <2>1, FS_Interval
  <2> QED BY <2>1, <2>2
<1>2. SetToSeqs(S) = {f \in [D -> S] : \A i, j \in D : i # j => f[i] # f[j]}
  BY DEF SetToSeqs
<1> HIDE DEF n
<1>3. PICK r : Lists(r, S)
  BY ListExists
<1>4. r \in SetToSeqs(S)
  <2>1. /\ r \in Seq(Pairs) /\ Len(r) \in Nat /\ DOMAIN r = 1 .. Len(r)
        /\ \A i \in 1 .. Len(r) : r[i] \in S
        /\ \A i, j \in 1 .. Len(r) : r[i][1] = r[j][1] => i = j
    BY <1>3, ListsTypes
  <2>2. r \in [1 .. Len(r) -> S]
    BY <2>1
  <2>3. r \in Bijection(1 .. Len(r), S)
    <3>1. \A i, j \in 1 .. Len(r) : r[i] = r[j] => i = j
      BY <2>1
    <3>2. \A s \in S : \E i \in 1 .. Len(r) : r[i] = s
      BY <1>3 DEF Lists
    <3> QED BY <2>2, <3>1, <3>2 DEF Bijection, Injection, Surjection, IsInjective
  <2>4. n = Len(r)
    <3>1. ExistsBijection(1 .. Len(r), S)
      BY <2>3 DEF ExistsBijection
    <3> QED BY <2>1, <3>1, FS_CountingElements DEF n
  <2>5. \A i, j \in D : i # j => r[i] # r[j]
    BY <2>1, <2>4
  <2> QED BY <1>2, <2>2, <2>4, <2>5
<1>5. IsSorted(r, InKeyOrder)
  BY <1>3 DEF Lists, IsSorted, InKeyOrder
<1> DEFINE q == CHOOSE q \in SetToSeqs(S) : IsSorted(q, InKeyOrder)
<1>6. q \in SetToSeqs(S) /\ IsSorted(q, InKeyOrder)
  BY <1>4, <1>5
<1>7. Ascending(S) = q
  BY DEF Ascending
<1> HIDE DEF q
<1>8. q \in [D -> S] /\ \A i, j \in D : i # j => q[i] # q[j]
  BY <1>2, <1>6
<1>9. q \in Seq(Pairs) /\ Len(q) = n
  <2>1. q \in [1 .. n -> Pairs]
    BY <1>8 DEF OfDistinctKeys
  <2> QED BY <1>1, <2>1
<1>10. \A i, j \in 1 .. Len(q) : i < j => q[i][1] < q[j][1]
  BY <1>6 DEF IsSorted, InKeyOrder
<1>11. S = {q[i] : i \in 1 .. Len(q)}
  <2>1. q \in Injection(D, S)
    BY <1>8 DEF Injection, IsInjective
  <2>2. Cardinality(D) = Cardinality(S)
    BY <1>1 DEF n
  <2>3. q \in Surjection(D, S)
    BY <2>1, <2>2, FS_Injection
  <2>4. \A s \in S : \E i \in D : q[i] = s
    BY <2>3 DEF Surjection
  <2> QED BY <1>8, <1>9, <2>4
<1> QED BY <1>7, <1>9, <1>10, <1>11 DEF Lists

\* push of one change after the other.
Pushes(changes, g) ==
  g = [s \in SUBSET (DOMAIN changes) |->
         IF s = {} THEN <<>> ELSE LET x == Max(s) IN Push(g[s \ {x}], changes[x])]

LEMMA PushedIsChosen ==
  ASSUME NEW changes
  PROVE  Pushed(changes) = (CHOOSE g : Pushes(changes, g))[DOMAIN changes]
BY DEF Pushed, FoldLeft, MapThenFoldSet, Pushes

LEMMA PushedIs ==
  ASSUME NEW changes \in Seq(Pairs)
  PROVE  \E w : /\ w[0] = <<>> /\ w[Len(changes)] = Pushed(changes)
                /\ \A j \in 1 .. Len(changes) : w[j] = Push(w[j - 1], changes[j])
<1> DEFINE n == Len(changes)
           A == Seq(Pairs)
           F == [ja \in (1 .. n) \X A |-> Push(ja[2], changes[ja[1]])]
<1>1. n \in Nat /\ DOMAIN changes = 1 .. n /\ \A j \in 1 .. n : changes[j] \in Pairs
  OBVIOUS
<1> HIDE DEF n
<1>2. ASSUME NEW a \in A, NEW j \in 1 .. n
      PROVE  Push(a, changes[j]) \in A /\ F[<<j, a>>] = Push(a, changes[j])
  <2>1. Push(a, changes[j]) \in A
    BY <1>1 DEF Push
  <2>2. <<j, a>> \in (1 .. n) \X A
    OBVIOUS
  <2> HIDE DEF A
  <2> QED BY <2>1, <2>2
<1>3. F \in [(1 .. n) \X A -> A]
  <2>1. ASSUME NEW ja \in (1 .. n) \X A PROVE Push(ja[2], changes[ja[1]]) \in A
    <3>1. ja[1] \in 1 .. n /\ ja[2] \in A
      OBVIOUS
    <3> HIDE DEF A
    <3> QED BY <1>2, <3>1
  <2> HIDE DEF A
  <2> QED BY <2>1
<1>4. <<>> \in A
  OBVIOUS
<1> HIDE DEF A, F
<1>5. PICK g \in [SUBSET (1 .. n) -> A] : FoldsAlong(F, <<>>, n, g)
  BY <1>1, <1>3, <1>4, FoldExists
<1>6. \A s \in SUBSET (1 .. n) :
        s # {} => Max(s) \in 1 .. n /\ s \ {Max(s)} \in SUBSET (1 .. n)
  BY <1>1, MaxIsIn
<1>7. Pushes(changes, g)
  <2>1. g = [s \in SUBSET (1 .. n) |-> g[s]]
    OBVIOUS
  <2>2. ASSUME NEW s \in SUBSET (1 .. n)
        PROVE  g[s] = IF s = {} THEN <<>> ELSE LET x == Max(s) IN Push(g[s \ {x}], changes[x])
    <3>1. CASE s = {}
      BY <1>5, <3>1 DEF FoldsAlong
    <3>2. CASE s # {}
      <4>1. g[s] = F[<<Max(s), g[s \ {Max(s)}]>>]
        BY <1>5, <3>2 DEF FoldsAlong
      <4>2. Max(s) \in 1 .. n /\ g[s \ {Max(s)}] \in A
        BY <1>6, <3>2
      <4> QED BY <1>2, <3>2, <4>1, <4>2
    <3> QED BY <3>1, <3>2
  <2> QED BY <1>1, <2>1, <2>2 DEF Pushes
<1> DEFINE h == CHOOSE h : Pushes(changes, h)
<1>8. Pushes(changes, h)
  BY <1>7
<1>9. Pushed(changes) = h[1 .. n]
  BY <1>1, PushedIsChosen
<1> HIDE DEF h
<1>10. h[1 .. 0] = <<>>
  BY <1>1, <1>8 DEF Pushes
<1>11. ASSUME NEW j \in 1 .. n PROVE h[1 .. j] = Push(h[1 .. j - 1], changes[j])
  <2>1. /\ 1 .. j \in SUBSET (1 .. n) /\ 1 .. j # {} /\ Max(1 .. j) = j
        /\ (1 .. j) \ {j} = 1 .. j - 1
    BY <1>1, PrefixIs
  <2>2. h[1 .. j] = LET x == Max(1 .. j) IN Push(h[(1 .. j) \ {x}], changes[x])
    BY <1>1, <1>8, <2>1 DEF Pushes
  <2> QED BY <2>1, <2>2
<1> DEFINE w == [j \in 0 .. n |-> h[1 .. j]]
<1>12. w[0] = <<>> /\ w[n] = Pushed(changes)
  BY <1>1, <1>9, <1>10
<1>13. ASSUME NEW j \in 1 .. n PROVE w[j] = Push(w[j - 1], changes[j])
  <2>1. j \in 0 .. n /\ j - 1 \in 0 .. n
    BY <1>1
  <2> QED BY <1>11, <2>1
<1> HIDE DEF w
<1> QED BY <1>12, <1>13 DEF n

\* The changes that put something, from position a to position b.
Puts(changes, a, b) == {changes[x] : x \in {x \in a .. b : changes[x][2] # 0}}

LEMMA PushedLists ==
  ASSUME NEW changes, NEW T, Lists(changes, T)
  PROVE  Lists(Pushed(changes), Puts(changes, 1, Len(changes)))
<1> DEFINE n == Len(changes)
<1>1. /\ n \in Nat /\ changes \in Seq(Pairs)
      /\ \A j \in 1 .. n : changes[j] \in Pairs
      /\ \A i, j \in 1 .. n : i < j => changes[i][1] < changes[j][1]
  BY ListsTypes
<1>2. PICK w : /\ w[0] = <<>> /\ w[n] = Pushed(changes)
               /\ \A j \in 1 .. n : w[j] = Push(w[j - 1], changes[j])
  BY <1>1, PushedIs
<1> HIDE DEF n
<1> DEFINE Good(p) == Lists(w[p], Puts(changes, 1, p))
           Bad     == {p \in 0 .. n : ~Good(p)}
<1>3. Bad = {}
  <2> SUFFICES ASSUME Bad # {} PROVE FALSE
    OBVIOUS
  <2>1. Bad \in SUBSET Nat
    OBVIOUS
  <2> HIDE DEF Good
  <2>2. PICK m \in Bad : \A k \in Bad : m <= k
    BY <2>1, LeastNatural
  <2>3. m \in 0 .. n /\ ~Good(m)
    OBVIOUS
  <2>4. m # 0
    <3>1. Puts(changes, 1, 0) = {}
      BY DEF Puts
    <3>2. Good(0)
      BY <1>2, <3>1, ListNothing DEF Good
    <3> QED BY <2>3, <3>2
  <2> DEFINE p == m - 1
  <2>5. /\ p \in 0 .. n /\ ~(m <= p) /\ m \in 1 .. n /\ p = m - 1
        /\ \A i \in 1 .. p : i \in 1 .. n /\ i < m /\ i \in 1 .. m
        /\ \A i \in 1 .. m : i \in 1 .. p \/ i = m
        /\ m \in 1 .. m
    <3>1. n \in Nat
      BY <1>1
    <3> QED BY ONLY <2>3, <2>4, <3>1
  <2> HIDE DEF p
  <2>6. Lists(w[p], Puts(changes, 1, p))
    BY <2>2, <2>5 DEF Good
  <2> DEFINE c == changes[m]
  <2>7. w[m] = Push(w[p], c) /\ c \in Pairs
    BY <1>1, <1>2, <2>5
  <2>8. CASE c[2] = 0
    <3>1. w[m] = w[p]
      BY <2>7, <2>8 DEF Push, Empty
    <3>2. Puts(changes, 1, m) = Puts(changes, 1, p)
      BY <2>5, <2>8 DEF Puts
    <3> QED BY <2>3, <2>6, <3>1, <3>2 DEF Good
  <2>9. CASE c[2] # 0
    <3>1. w[p] \in Seq(Pairs)
      BY <2>6, ListsTypes
    <3>2. Puts(changes, 1, m) = Puts(changes, 1, p) \cup {c}
      BY <2>5, <2>9 DEF Puts
    <3>3. \A s \in Puts(changes, 1, p), t \in {c} : s[1] < t[1]
      BY <1>1, <2>5 DEF Puts
    <3> HIDE DEF c
    <3>4. w[m] = Append(w[p], c)
      BY <2>7, <2>9 DEF Push, Empty
    <3>5. w[m] = w[p] \o <<c>>
      BY <2>7, <3>1, <3>4
    <3>6. Lists(<<c>>, {c})
      BY <2>7, ListOne
    <3>7. Lists(w[p] \o <<c>>, Puts(changes, 1, p) \cup {c})
      BY ONLY <2>6, <3>3, <3>6, ListConcat
    <3> QED BY <2>3, <3>2, <3>5, <3>7 DEF Good
  <2> QED BY <2>8, <2>9
<1>4. Good(n)
  <2>1. n \in 0 .. n
    BY <1>1
  <2> HIDE DEF Good
  <2> QED BY <1>3, <2>1
<1> QED BY <1>2, <1>4 DEF n

\* Of some of a list.
LEMMA PushedRange ==
  ASSUME NEW changes, NEW T, Lists(changes, T),
         NEW a \in 1 .. Len(changes) + 1, NEW b \in a - 1 .. Len(changes)
  PROVE  Lists(Pushed(SubSeq(changes, a, b)), Puts(changes, a, b))
<1> DEFINE n == Len(changes)
           q == SubSeq(changes, a, b)
           m == b - a + 1
<1>1. /\ n \in Nat /\ changes \in Seq(Pairs)
      /\ \A i, j \in 1 .. n : i < j => changes[i][1] < changes[j][1]
  BY ListsTypes
<1>2. a \in Nat /\ 1 <= a /\ b \in Nat /\ a - 1 <= b /\ b <= n
  BY <1>1
<1>3. q \in Seq(Pairs) /\ Len(q) = m /\ \A i \in 1 .. m : q[i] = changes[a + i - 1]
  BY <1>1, <1>2
<1> HIDE DEF q, n
<1>4. m \in Nat /\ \A i \in 1 .. m : a + i - 1 \in 1 .. n /\ a + i - 1 \in a .. b
  BY <1>1, <1>2
<1>5. \A i, j \in 1 .. m : i < j => a + i - 1 < a + j - 1
  BY <1>2
<1>6. \A x \in a .. b : x - a + 1 \in 1 .. m /\ a + (x - a + 1) - 1 = x
  BY <1>2
<1> HIDE DEF m
<1>7. \A i, j \in 1 .. Len(q) : i < j => q[i][1] < q[j][1]
  <2> SUFFICES ASSUME NEW i \in 1 .. m, NEW j \in 1 .. m, i < j
               PROVE  q[i][1] < q[j][1]
    BY <1>3
  <2>1. q[i] = changes[a + i - 1] /\ q[j] = changes[a + j - 1]
    BY <1>3
  <2> DEFINE x == a + i - 1
             y == a + j - 1
  <2>2. x \in 1 .. n /\ y \in 1 .. n /\ x < y
    BY <1>4, <1>5
  <2> HIDE DEF x, y
  <2>3. changes[x][1] < changes[y][1]
    BY <1>1, <2>2
  <2> QED BY <2>1, <2>3 DEF x, y
<1>8. Lists(q, {q[i] : i \in 1 .. Len(q)})
  BY <1>3, <1>7 DEF Lists
<1>9. Puts(q, 1, Len(q)) = Puts(changes, a, b)
  <2>1. ASSUME NEW i \in 1 .. m, q[i][2] # 0
        PROVE  \E x \in a .. b : changes[x][2] # 0 /\ q[i] = changes[x]
    BY <1>3, <1>4, <2>1
  <2>2. ASSUME NEW x \in a .. b, changes[x][2] # 0
        PROVE  \E i \in 1 .. m : q[i][2] # 0 /\ q[i] = changes[x]
    <3> DEFINE i == x - a + 1
    <3>1. i \in 1 .. m /\ q[i] = changes[a + i - 1] /\ a + i - 1 = x
      BY <1>3, <1>6
    <3> HIDE DEF i
    <3> QED BY <2>2, <3>1
  <2> QED BY <1>3, <2>1, <2>2 DEF Puts
<1>10. Lists(Pushed(q), Puts(q, 1, Len(q)))
  BY <1>8, PushedLists
<1> QED BY <1>9, <1>10 DEF q
-----------------------------------------------------------------------------
(* The root after a block is known before the block is written.              *)

StateMap == [Key -> Nat]

EntrySet(st) == {<<k, st[k]>> : k \in {k \in Key : st[k] # 0}}

\* The list of some keys with what f has for them.
GraphOf(f, K) == {<<k, f[k]>> : k \in K}

LEMMA GraphLists ==
  ASSUME NEW f, NEW K \in SUBSET Key, \A k \in K : f[k] \in Nat
  PROVE  Lists(Ascending(GraphOf(f, K)), GraphOf(f, K))
<1> DEFINE h == [k \in K |-> <<k, f[k]>>]
<1>1. \A k \in K : k \in Nat
  BY KeyAssumption
<1>2. IsFiniteSet(K)
  BY KeyAssumption, FS_Subset
<1>3. h \in Surjection(K, GraphOf(f, K))
  BY DEF Surjection, GraphOf
<1>4. IsFiniteSet(GraphOf(f, K))
  <2> HIDE DEF h
  <2> QED BY <1>2, <1>3, FS_Surjection
<1>5. OfDistinctKeys(GraphOf(f, K))
  BY <1>1 DEF OfDistinctKeys, GraphOf, Pairs
<1> QED BY <1>4, <1>5, AscendingLists

LEMMA EntriesLists ==
  ASSUME NEW st \in StateMap
  PROVE  Lists(Entries(st), EntrySet(st))
<1> DEFINE K == {k \in Key : st[k] # 0}
<1>1. EntrySet(st) = GraphOf(st, K) /\ Entries(st) = Ascending(GraphOf(st, K))
  BY DEF EntrySet, GraphOf, Entries, Entry, Empty
<1>2. K \in SUBSET Key /\ \A k \in K : st[k] \in Nat
  BY DEF StateMap
<1> HIDE DEF K
<1> QED BY <1>1, <1>2, GraphLists

\* A root determines the state.
LEMMA RootsDiffer ==
  ASSUME NEW s \in StateMap, NEW t \in StateMap, StoredRoot(s) = StoredRoot(t)
  PROVE  s = t
<1>1. Lists(Entries(s), EntrySet(s)) /\ Lists(Entries(t), EntrySet(t)) /\ Entries(s) = Entries(t)
  BY EntriesLists DEF StoredRoot, Root
<1>2. EntrySet(s) = EntrySet(t)
  BY <1>1 DEF Lists
<1>3. ASSUME NEW k \in Key PROVE s[k] = t[k]
  <2>1. CASE s[k] # 0
    <3>1. <<k, s[k]>> \in EntrySet(t)
      BY <1>2, <2>1 DEF EntrySet
    <3> QED BY <3>1 DEF EntrySet
  <2>2. CASE t[k] # 0
    <3>1. <<k, t[k]>> \in EntrySet(s)
      BY <1>2, <2>2 DEF EntrySet
    <3> QED BY <3>1 DEF EntrySet
  <2> QED BY <2>1, <2>2
<1> QED BY <1>3 DEF StateMap

\* Changes by ascending key, of keys of the state.
OfKeys(changes) == \A x \in 1 .. Len(changes) : changes[x][1] \in Key

LEMMA AppliedIs ==
  ASSUME NEW st \in StateMap, NEW changes, NEW T, Lists(changes, T), OfKeys(changes)
  PROVE  /\ Applied(st, changes) \in StateMap
         /\ \A x \in 1 .. Len(changes) : Applied(st, changes)[changes[x][1]] = changes[x][2]
         /\ \A k \in Key : (\A x \in 1 .. Len(changes) : changes[x][1] # k)
                             => Applied(st, changes)[k] = st[k]
<1> DEFINE n == Len(changes)
           R == Applied(st, changes)
<1>1. /\ n \in Nat /\ DOMAIN changes = 1 .. n
      /\ \A x \in 1 .. n : changes[x][2] \in Nat
      /\ \A i, j \in 1 .. n : changes[i][1] = changes[j][1] => i = j
  BY ListsTypes
<1>2. /\ DOMAIN R = Key /\ R = [k \in Key |-> R[k]]
      /\ \A k \in Key : R[k] = IF ChangesOf(k, changes) = {} THEN st[k]
                               ELSE changes[Max(ChangesOf(k, changes))][2]
  BY DEF Applied
<1> HIDE DEF R, n
<1>3. ASSUME NEW x \in 1 .. n
      PROVE  changes[x][1] \in Key /\ R[changes[x][1]] = changes[x][2]
  <2>1. ChangesOf(changes[x][1], changes) = {x}
    BY <1>1 DEF ChangesOf
  <2>2. Max({x}) = x
    BY <1>1 DEF Max
  <2>3. changes[x][1] \in Key
    BY DEF OfKeys, n
  <2> QED BY <1>2, <2>1, <2>2, <2>3
<1>4. ASSUME NEW k \in Key, \A x \in 1 .. n : changes[x][1] # k
      PROVE  R[k] = st[k]
  <2>1. ChangesOf(k, changes) = {}
    BY <1>1, <1>4 DEF ChangesOf
  <2> QED BY <1>2, <2>1
<1>5. \A k \in Key : R[k] \in Nat
  <2> SUFFICES ASSUME NEW k \in Key PROVE R[k] \in Nat
    OBVIOUS
  <2>1. CASE \E x \in 1 .. n : changes[x][1] = k
    BY <1>1, <1>3, <2>1
  <2>2. CASE \A x \in 1 .. n : changes[x][1] # k
    BY <1>4, <2>2 DEF StateMap
  <2> QED BY <2>1, <2>2
<1>6. R \in StateMap
  BY <1>2, <1>5 DEF StateMap
<1> QED BY <1>3, <1>4, <1>6 DEF R, n

LEMMA StopsIs ==
  ASSUME NEW changes, NEW T, Lists(changes, T), NEW i \in 1 .. Len(changes) + 1, NEW k \in Nat,
         NEW stop, stop = StopsAt(changes, i, k)
  PROVE  /\ stop \in i .. Len(changes) + 1
         /\ \A x \in i .. stop - 1 : changes[x][1] < k
         /\ stop <= Len(changes) => changes[stop][1] >= k
<1> DEFINE n == Len(changes)
           stops == {j \in i .. n : changes[j][1] >= k}
<1>1. n \in Nat /\ i \in Nat /\ i >= 1 /\ i <= n + 1 /\ \A x \in 1 .. n : changes[x][1] \in Nat
  BY ListsTypes
<1>2. stop = IF stops = {} THEN n + 1 ELSE Min(stops)
  BY DEF StopsAt
<1> HIDE DEF n
<1>3. \A j \in i .. n : changes[j][1] >= k \/ changes[j][1] < k
  <2>1. \A j \in i .. n : j \in 1 .. n
    BY <1>1
  <2> QED BY <1>1, <2>1
<1>4. CASE stops = {}
  <2>1. stop = n + 1 /\ n + 1 \in i .. n + 1 /\ ~(n + 1 <= n) /\ (n + 1) - 1 = n
    BY <1>1, <1>2, <1>4
  <2>2. \A x \in i .. n : changes[x][1] < k
    BY <1>3, <1>4
  <2> QED BY <2>1, <2>2 DEF n
<1>5. CASE stops # {}
  <2>1. stops \in SUBSET Nat
    BY <1>1
  <2>2. \E m \in stops : \A x \in stops : m <= x
    <3> HIDE DEF stops
    <3> QED BY <1>5, <2>1, LeastNatural
  <2>3. Min(stops) \in stops /\ \A x \in stops : Min(stops) <= x
    <3> HIDE DEF stops
    <3> QED BY <2>2 DEF Min
  <2>4. stop \in i .. n /\ changes[stop][1] >= k /\ \A x \in stops : stop <= x
    BY <1>2, <1>5, <2>3
  <2>5. \A x \in i .. stop - 1 : x \in i .. n /\ ~(stop <= x)
    <3>1. stop \in i .. n
      BY <2>4
    <3> QED BY ONLY <1>1, <3>1
  <2>6. \A x \in i .. stop - 1 : changes[x][1] < k
    <3> SUFFICES ASSUME NEW x \in i .. stop - 1 PROVE changes[x][1] < k
      OBVIOUS
    <3>1. x \in i .. n /\ x \notin stops
      BY <2>4, <2>5
    <3> QED BY <1>3, <3>1
  <2>7. stop \in i .. n + 1
    BY <1>1, <2>4
  <2> QED BY <2>4, <2>6, <2>7 DEF n
<1> QED BY <1>4, <1>5

\* One turn of the merge: the changes up to an entry's key, and the entry itself
\* unless one of them is of its key.
Accs(changes) == [i : 1 .. Len(changes) + 1, leaves : Seq(Pairs)]

Turn(acc, e, changes, next, tail) ==
  /\ next \in acc.i .. Len(changes) + 1
  /\ \A x \in acc.i .. next - 1 : changes[x][1] <= e[1]
  /\ \A x \in next .. Len(changes) : changes[x][1] > e[1]
  /\ tail = IF \E x \in acc.i .. next - 1 : changes[x][1] = e[1] THEN <<>> ELSE <<e>>
  /\ Merge(acc, e, changes)
       = [i |-> next,
          leaves |-> acc.leaves \o Pushed(SubSeq(changes, acc.i, next - 1)) \o tail]

LEMMA MergeIs ==
  ASSUME NEW changes, NEW T, Lists(changes, T), NEW acc \in Accs(changes), NEW e \in Pairs
  PROVE  \E next, tail : Turn(acc, e, changes, next, tail)
<1> DEFINE n        == Len(changes)
           i        == acc.i
           stop     == StopsAt(changes, i, e[1])
           shadowed == stop <= n /\ changes[stop][1] = e[1]
           next     == IF shadowed THEN stop + 1 ELSE stop
           tail     == IF shadowed THEN <<>> ELSE <<e>>
<1>1. n \in Nat /\ i \in 1 .. n + 1 /\ e[1] \in Nat /\ \A x \in 1 .. n : changes[x][1] \in Nat
  BY ListsTypes DEF Accs, Pairs
<1>2. Merge(acc, e, changes)
        = [i |-> next, leaves |-> acc.leaves \o Pushed(SubSeq(changes, i, next - 1)) \o tail]
  BY DEF Merge
<1>3. /\ stop \in i .. n + 1 /\ \A x \in i .. stop - 1 : changes[x][1] < e[1]
      /\ stop <= n => changes[stop][1] >= e[1]
  <2> HIDE DEF i, stop
  <2>1. stop = StopsAt(changes, i, e[1])
    BY DEF stop
  <2> QED BY ONLY <1>1, <2>1, StopsIs, Lists(changes, T) DEF n
<1>4. \A x, y \in 1 .. n : x < y => changes[x][1] < changes[y][1]
  BY ListsTypes
<1> HIDE DEF n, i, stop
<1>5. stop \in Nat /\ i \in Nat /\ 1 <= i /\ i <= stop /\ stop <= n + 1
  BY <1>1, <1>3
<1>6. CASE shadowed
  <2>1. next = stop + 1 /\ tail = <<>> /\ stop <= n /\ changes[stop][1] = e[1]
    BY <1>6
  <2> HIDE DEF next, tail
  <2>2. /\ next \in i .. n + 1 /\ stop \in i .. next - 1 /\ stop \in 1 .. n
        /\ \A x \in i .. next - 1 : x \in i .. stop - 1 \/ x = stop
        /\ \A x \in next .. n : x \in 1 .. n /\ stop < x
    <3>1. next = stop + 1 /\ stop <= n
      BY <2>1
    <3> QED BY ONLY <1>1, <1>5, <3>1
  <2>3. \A x \in i .. next - 1 : changes[x][1] <= e[1]
    <3>1. \A x \in i .. stop - 1 : x \in 1 .. n
      BY <1>1, <1>5, <2>2
    <3>2. \A x \in i .. stop - 1 : changes[x][1] <= e[1]
      BY <1>1, <1>3, <3>1
    <3> QED BY <1>1, <2>1, <2>2, <3>2
  <2>4. \A x \in next .. n : changes[x][1] > e[1]
    BY <1>1, <1>4, <2>1, <2>2
  <2>5. tail = IF \E x \in i .. next - 1 : changes[x][1] = e[1] THEN <<>> ELSE <<e>>
    BY <2>1, <2>2
  <2>6. Turn(acc, e, changes, next, tail)
    BY <1>2, <2>2, <2>3, <2>4, <2>5 DEF Turn, i, n
  <2> QED BY <2>6
<1>7. CASE ~shadowed
  <2>1. next = stop /\ tail = <<e>> /\ (stop <= n => changes[stop][1] > e[1])
    <3>1. stop <= n => stop \in 1 .. n
      BY <1>1, <1>5
    <3>2. stop <= n => changes[stop][1] \in Nat /\ changes[stop][1] >= e[1] /\ changes[stop][1] # e[1]
      BY <1>1, <1>3, <1>7, <3>1
    <3>3. stop <= n => changes[stop][1] > e[1]
      BY <1>1, <3>2
    <3> QED BY <1>7, <3>3
  <2> HIDE DEF next, tail
  <2>2. /\ next \in i .. n + 1
        /\ \A x \in i .. next - 1 : x \in i .. stop - 1 /\ x \in 1 .. n
        /\ \A x \in next .. n : x \in 1 .. n /\ (x = stop \/ stop < x) /\ stop <= n /\ stop \in 1 .. n
    <3>1. next = stop
      BY <2>1
    <3> QED BY ONLY <1>1, <1>5, <3>1
  <2>3. \A x \in i .. next - 1 : changes[x][1] <= e[1] /\ changes[x][1] # e[1]
    BY <1>1, <1>3, <2>2
  <2>4. \A x \in next .. n : changes[x][1] > e[1]
    <3> SUFFICES ASSUME NEW x \in next .. n PROVE changes[x][1] > e[1]
      OBVIOUS
    <3>1. x \in 1 .. n /\ stop \in 1 .. n /\ changes[stop][1] > e[1] /\ (x = stop \/ stop < x)
      BY <2>1, <2>2
    <3>2. x = stop \/ changes[stop][1] < changes[x][1]
      BY <1>4, <3>1
    <3>3. changes[stop][1] \in Nat /\ changes[x][1] \in Nat
      BY <1>1, <3>1
    <3> QED BY <1>1, <3>1, <3>2, <3>3
  <2>5. tail = IF \E x \in i .. next - 1 : changes[x][1] = e[1] THEN <<>> ELSE <<e>>
    BY <2>1, <2>3
  <2>6. Turn(acc, e, changes, next, tail)
    BY <1>2, <2>2, <2>3, <2>4, <2>5 DEF Turn, i, n
  <2> QED BY <2>6
<1> QED BY <1>6, <1>7

LEMMA MergeStays ==
  ASSUME NEW changes, NEW T, Lists(changes, T), NEW acc \in Accs(changes), NEW e \in Pairs
  PROVE  Merge(acc, e, changes) \in Accs(changes)
<1>1. PICK next, tail : Turn(acc, e, changes, next, tail)
  BY MergeIs
<1> DEFINE n == Len(changes)
           middle == Pushed(SubSeq(changes, acc.i, next - 1))
<1>2. n \in Nat /\ acc.i \in 1 .. n + 1 /\ acc.leaves \in Seq(Pairs)
  BY ListsTypes DEF Accs
<1>3. next \in acc.i .. n + 1
  BY <1>1 DEF Turn
<1> HIDE DEF n
<1>4. next \in 1 .. n + 1 /\ next - 1 \in acc.i - 1 .. n
  BY ONLY <1>2, <1>3
<1>5. Lists(middle, Puts(changes, acc.i, next - 1))
  <2> DEFINE a == acc.i
             b == next - 1
  <2>1. a \in 1 .. Len(changes) + 1 /\ b \in a - 1 .. Len(changes)
    BY <1>2, <1>4 DEF n
  <2> HIDE DEF a, b
  <2>2. Lists(Pushed(SubSeq(changes, a, b)), Puts(changes, a, b))
    BY <2>1, PushedRange
  <2> QED BY <2>2 DEF a, b
<1> HIDE DEF middle
<1>6. middle \in Seq(Pairs)
  BY <1>5, ListsTypes
<1>7. tail \in Seq(Pairs)
  <2>1. <<>> \in Seq(Pairs) /\ <<e>> \in Seq(Pairs)
    OBVIOUS
  <2> QED BY <1>1, <2>1 DEF Turn
<1>8. acc.leaves \o middle \o tail \in Seq(Pairs)
  BY ONLY <1>2, <1>6, <1>7, ConcatProperties
<1>9. Merge(acc, e, changes) = [i |-> next, leaves |-> acc.leaves \o middle \o tail]
  BY <1>1 DEF Turn, middle
<1> QED BY <1>4, <1>8, <1>9 DEF Accs, n

\* The merge of a list of entries, one turn after the other.
Start == [i |-> 1, leaves |-> <<>>]

Merges(entries, changes, g) ==
  g = [s \in SUBSET (DOMAIN entries) |->
         IF s = {} THEN Start ELSE LET x == Max(s) IN Merge(g[s \ {x}], entries[x], changes)]

MergeAll(entries, changes) ==
  FoldLeft(LAMBDA acc, e : Merge(acc, e, changes), Start, entries)

LEMMA MergeAllIsChosen ==
  ASSUME NEW entries, NEW changes
  PROVE  MergeAll(entries, changes) = (CHOOSE g : Merges(entries, changes, g))[DOMAIN entries]
BY DEF MergeAll, FoldLeft, MapThenFoldSet, Merges

LEMMA MergeAllIs ==
  ASSUME NEW entries \in Seq(Pairs), NEW changes, NEW T, Lists(changes, T)
  PROVE  \E w : /\ w[0] = Start /\ w[Len(entries)] = MergeAll(entries, changes)
                /\ \A j \in 1 .. Len(entries) : w[j] = Merge(w[j - 1], entries[j], changes)
<1> DEFINE n == Len(entries)
           A == Accs(changes)
           F == [ja \in (1 .. n) \X A |-> Merge(ja[2], entries[ja[1]], changes)]
<1>1. n \in Nat /\ DOMAIN entries = 1 .. n /\ \A j \in 1 .. n : entries[j] \in Pairs
  OBVIOUS
<1> HIDE DEF n
<1>2. ASSUME NEW a \in A, NEW j \in 1 .. n
      PROVE  Merge(a, entries[j], changes) \in A /\ F[<<j, a>>] = Merge(a, entries[j], changes)
  <2>1. Merge(a, entries[j], changes) \in A
    BY <1>1, MergeStays
  <2>2. <<j, a>> \in (1 .. n) \X A
    OBVIOUS
  <2> HIDE DEF A
  <2> QED BY <2>1, <2>2
<1>3. F \in [(1 .. n) \X A -> A]
  <2>1. ASSUME NEW ja \in (1 .. n) \X A PROVE Merge(ja[2], entries[ja[1]], changes) \in A
    <3>1. ja[1] \in 1 .. n /\ ja[2] \in A
      OBVIOUS
    <3> HIDE DEF A
    <3> QED BY <1>2, <3>1
  <2> HIDE DEF A
  <2> QED BY <2>1
<1>4. Start \in A
  <2>1. 1 \in 1 .. Len(changes) + 1 /\ <<>> \in Seq(Pairs)
    <3>1. Len(changes) \in Nat
      BY ListsTypes
    <3> QED BY <3>1
  <2> QED BY <2>1 DEF Start, Accs
<1> HIDE DEF A, F
<1>5. PICK g \in [SUBSET (1 .. n) -> A] : FoldsAlong(F, Start, n, g)
  BY <1>1, <1>3, <1>4, FoldExists
<1>6. \A s \in SUBSET (1 .. n) :
        s # {} => Max(s) \in 1 .. n /\ s \ {Max(s)} \in SUBSET (1 .. n)
  BY <1>1, MaxIsIn
<1>7. Merges(entries, changes, g)
  <2>1. g = [s \in SUBSET (1 .. n) |-> g[s]]
    OBVIOUS
  <2>2. ASSUME NEW s \in SUBSET (1 .. n)
        PROVE  g[s] = IF s = {} THEN Start
                      ELSE LET x == Max(s) IN Merge(g[s \ {x}], entries[x], changes)
    <3>1. CASE s = {}
      BY <1>5, <3>1 DEF FoldsAlong
    <3>2. CASE s # {}
      <4>1. g[s] = F[<<Max(s), g[s \ {Max(s)}]>>]
        BY <1>5, <3>2 DEF FoldsAlong
      <4>2. Max(s) \in 1 .. n /\ g[s \ {Max(s)}] \in A
        BY <1>6, <3>2
      <4> QED BY <1>2, <3>2, <4>1, <4>2
    <3> QED BY <3>1, <3>2
  <2> QED BY <1>1, <2>1, <2>2 DEF Merges
<1> DEFINE h == CHOOSE h : Merges(entries, changes, h)
<1>8. Merges(entries, changes, h)
  BY <1>7
<1>9. MergeAll(entries, changes) = h[1 .. n]
  BY <1>1, MergeAllIsChosen
<1> HIDE DEF h
<1>10. h[1 .. 0] = Start
  BY <1>1, <1>8 DEF Merges
<1>11. ASSUME NEW j \in 1 .. n PROVE h[1 .. j] = Merge(h[1 .. j - 1], entries[j], changes)
  <2>1. /\ 1 .. j \in SUBSET (1 .. n) /\ 1 .. j # {} /\ Max(1 .. j) = j
        /\ (1 .. j) \ {j} = 1 .. j - 1
    BY <1>1, PrefixIs
  <2>2. h[1 .. j] = LET x == Max(1 .. j) IN Merge(h[(1 .. j) \ {x}], entries[x], changes)
    BY <1>1, <1>8, <2>1 DEF Merges
  <2> QED BY <2>1, <2>2
<1> DEFINE w == [j \in 0 .. n |-> h[1 .. j]]
<1>12. w[0] = Start /\ w[n] = MergeAll(entries, changes)
  BY <1>1, <1>9, <1>10
<1>13. ASSUME NEW j \in 1 .. n PROVE w[j] = Merge(w[j - 1], entries[j], changes)
  <2>1. j \in 0 .. n /\ j - 1 \in 0 .. n
    BY <1>1
  <2> QED BY <1>11, <2>1
<1> HIDE DEF w
<1> QED BY <1>12, <1>13 DEF n

\* Merged so far, up to key b: the leaves of the result up to b, with the changes
\* up to b used.
UpTo(result, b) == {<<k, result[k]>> : k \in {k \in Key : k <= b /\ result[k] # 0}}

MergedTo(acc, changes, result, b) ==
  /\ acc \in Accs(changes)
  /\ \A x \in 1 .. acc.i - 1 : changes[x][1] <= b
  /\ \A x \in acc.i .. Len(changes) : changes[x][1] > b
  /\ Lists(acc.leaves, UpTo(result, b))

\* A result of changes on a state.
Results(result, st, changes) ==
  /\ result \in StateMap /\ st \in StateMap
  /\ \A x \in 1 .. Len(changes) : changes[x][1] \in Key /\ result[changes[x][1]] = changes[x][2]
  /\ \A k \in Key : (\A x \in 1 .. Len(changes) : changes[x][1] # k) => result[k] = st[k]

\* What a turn adds: the leaves between the last entry's key and this one's.
LEMMA TurnAdds ==
  ASSUME NEW changes, NEW T, Lists(changes, T), NEW result, NEW st, Results(result, st, changes),
         NEW b \in Int, NEW acc, MergedTo(acc, changes, result, b),
         NEW k \in Key, b < k, st[k] # 0, \A j \in Key : b < j /\ j < k => st[j] = 0,
         NEW next, NEW tail, Turn(acc, <<k, st[k]>>, changes, next, tail)
  PROVE  LET shadowed == \E x \in acc.i .. next - 1 : changes[x][1] = k IN
         UpTo(result, k) = UpTo(result, b) \cup Puts(changes, acc.i, next - 1)
                             \cup (IF shadowed THEN {} ELSE {<<k, st[k]>>})
<1> DEFINE n == Len(changes)
           i == acc.i
           shadowed == \E x \in i .. next - 1 : changes[x][1] = k
           Right == UpTo(result, b) \cup Puts(changes, i, next - 1)
                      \cup (IF shadowed THEN {} ELSE {<<k, st[k]>>})
<1>1. /\ n \in Nat /\ i \in 1 .. n + 1 /\ next \in i .. n + 1
      /\ \A x \in 1 .. n : changes[x] \in Pairs /\ changes[x][1] \in Nat
      /\ \A x \in 1 .. i - 1 : changes[x][1] <= b
      /\ \A x \in i .. n : changes[x][1] > b
      /\ \A x \in i .. next - 1 : changes[x][1] <= k
      /\ \A x \in next .. n : changes[x][1] > k
  BY ListsTypes DEF MergedTo, Accs, Turn
<1>2. \A j \in Key : j \in Nat
  BY KeyAssumption
<1>3. /\ \A x \in 1 .. n : changes[x][1] \in Key /\ result[changes[x][1]] = changes[x][2]
      /\ \A j \in Key : (\A x \in 1 .. n : changes[x][1] # j) => result[j] = st[j]
  BY DEF Results
<1> HIDE DEF n, i
<1>4. \A x \in 1 .. n : x \in 1 .. i - 1 \/ x \in i .. next - 1 \/ x \in next .. n
  <2>1. n \in Nat /\ i \in 1 .. n + 1 /\ next \in i .. n + 1
    BY <1>1
  <2> QED BY ONLY <2>1
<1>5. \A x \in i .. next - 1 : x \in 1 .. n /\ x \in i .. n
  <2>1. n \in Nat /\ i \in 1 .. n + 1 /\ next \in i .. n + 1
    BY <1>1
  <2> QED BY ONLY <2>1
<1>6. ASSUME NEW j \in Key, j <= k, result[j] # 0
      PROVE  <<j, result[j]>> \in Right
  <2>1. CASE j <= b
    BY <1>6, <2>1 DEF UpTo
  <2>2. CASE ~(j <= b) /\ \E x \in 1 .. n : changes[x][1] = j
    <3>1. PICK x \in 1 .. n : changes[x][1] = j
      BY <2>2
    <3>2. x \in i .. next - 1
      <4>1. ~(x \in 1 .. i - 1)
        BY <1>1, <2>2, <3>1
      <4>2. ~(x \in next .. n)
        <5> SUFFICES ASSUME x \in next .. n PROVE FALSE
          OBVIOUS
        <5>1. j > k
          BY <1>1, <3>1
        <5> QED BY <1>2, <1>6, <5>1
      <4> QED BY <1>4, <4>1, <4>2
    <3>3. changes[x] \in Pairs /\ changes[x][2] = result[j]
      BY <1>1, <1>3, <3>1
    <3>4. changes[x] = <<j, result[j]>>
      BY <3>1, <3>3 DEF Pairs
    <3>5. changes[x] \in Puts(changes, i, next - 1)
      BY <1>6, <3>2, <3>3 DEF Puts
    <3> QED BY <3>4, <3>5
  <2>3. CASE ~(j <= b) /\ ~ \E x \in 1 .. n : changes[x][1] = j
    <3>1. result[j] = st[j]
      BY <1>3, <2>3
    <3>2. j = k
      <4>1. j \in Nat /\ k \in Nat /\ b < j
        BY <1>2, <2>3
      <4>2. ~(j < k)
        BY <1>6, <3>1, <4>1
      <4> QED BY <1>6, <4>1, <4>2
    <3>3. ~shadowed
      BY <1>5, <2>3, <3>2
    <3> QED BY <3>1, <3>2, <3>3
  <2> QED BY <2>1, <2>2, <2>3
<1>7. ASSUME NEW x \in i .. next - 1, changes[x][2] # 0
      PROVE  changes[x] \in UpTo(result, k)
  <2>1. /\ x \in 1 .. n /\ changes[x] \in Pairs /\ changes[x][1] <= k /\ changes[x][1] \in Key
        /\ result[changes[x][1]] = changes[x][2]
    BY <1>1, <1>3, <1>5
  <2>2. changes[x] = <<changes[x][1], result[changes[x][1]]>>
    BY <2>1 DEF Pairs
  <2> QED BY <1>7, <2>1, <2>2 DEF UpTo
<1>8. ASSUME ~shadowed PROVE <<k, st[k]>> \in UpTo(result, k)
  <2>1. ASSUME NEW x \in 1 .. n PROVE changes[x][1] # k
    <3>1. CASE x \in 1 .. i - 1
      BY <1>1, <1>2, <3>1
    <3>2. CASE x \in i .. next - 1
      BY <1>8, <3>2
    <3>3. CASE x \in next .. n
      BY <1>1, <1>2, <3>3
    <3> QED BY <1>4, <3>1, <3>2, <3>3
  <2>2. result[k] = st[k] /\ k <= k
    BY <1>2, <1>3, <2>1
  <2> QED BY <2>2 DEF UpTo
<1>9. UpTo(result, b) \subseteq UpTo(result, k)
  <2>1. \A j \in Key : j <= b => j <= k
    BY <1>2
  <2> QED BY <2>1 DEF UpTo
<1>10. UpTo(result, k) \subseteq Right
  <2> HIDE DEF Right
  <2> QED BY <1>6 DEF UpTo
<1>11. Puts(changes, i, next - 1) \subseteq UpTo(result, k)
  BY <1>7 DEF Puts
<1>12. Right \subseteq UpTo(result, k)
  BY <1>8, <1>9, <1>11
<1> HIDE DEF shadowed
<1>13. UpTo(result, k) = Right
  <2> HIDE DEF Right
  <2> QED BY <1>10, <1>12
<1> QED BY <1>13 DEF shadowed, i

LEMMA TurnMerges ==
  ASSUME NEW changes, NEW T, Lists(changes, T), NEW result, NEW st, Results(result, st, changes),
         NEW b \in Int, NEW acc, MergedTo(acc, changes, result, b),
         NEW k \in Key, b < k, st[k] # 0, \A j \in Key : b < j /\ j < k => st[j] = 0
  PROVE  MergedTo(Merge(acc, <<k, st[k]>>, changes), changes, result, k)
<1> DEFINE n == Len(changes)
           i == acc.i
           e == <<k, st[k]>>
<1>0. k \in Nat /\ st[k] \in Nat
  BY KeyAssumption DEF Results, StateMap
<1>1. e \in Pairs /\ e[1] = k
  BY <1>0 DEF Pairs
<1>2. acc \in Accs(changes) /\ Lists(acc.leaves, UpTo(result, b))
  BY DEF MergedTo
<1>3. PICK next, tail : Turn(acc, e, changes, next, tail)
  BY <1>1, <1>2, MergeIs
<1> DEFINE middle   == Pushed(SubSeq(changes, i, next - 1))
           shadowed == \E x \in i .. next - 1 : changes[x][1] = k
           more     == Puts(changes, i, next - 1)
           new      == Merge(acc, e, changes)
<1>4. /\ n \in Nat /\ i \in 1 .. n + 1 /\ next \in i .. n + 1
      /\ \A x \in 1 .. n : changes[x][1] \in Nat
      /\ \A x, y \in 1 .. n : x < y => changes[x][1] < changes[y][1]
      /\ \A x \in 1 .. i - 1 : changes[x][1] <= b
      /\ \A x \in i .. n : changes[x][1] > b
      /\ \A x \in i .. next - 1 : changes[x][1] <= k
      /\ \A x \in next .. n : changes[x][1] > k
      /\ tail = IF shadowed THEN <<>> ELSE <<e>>
      /\ new = [i |-> next, leaves |-> acc.leaves \o middle \o tail]
  BY <1>1, <1>3, ListsTypes DEF MergedTo, Accs, Turn
<1>5. UpTo(result, k) = UpTo(result, b) \cup more \cup (IF shadowed THEN {} ELSE {e})
  BY <1>3, TurnAdds
<1>6. Lists(middle, more)
  <2> DEFINE c == next - 1
  <2>1. i \in 1 .. n + 1 /\ c \in i - 1 .. n
    BY ONLY <1>4
  <2> HIDE DEF c, i
  <2>2. Lists(Pushed(SubSeq(changes, i, c)), Puts(changes, i, c))
    BY <2>1, PushedRange
  <2> QED BY <2>2 DEF c
<1> HIDE DEF n, i, middle, shadowed, more, e, new
<1>7. /\ \A x \in i .. next - 1 : x \in 1 .. n /\ x \in i .. n
      /\ \A x \in 1 .. next - 1 : x \in 1 .. i - 1 \/ x \in i .. next - 1
      /\ next \in 1 .. n + 1
  <2>1. n \in Nat /\ i \in 1 .. n + 1 /\ next \in i .. n + 1
    BY <1>4
  <2> QED BY ONLY <2>1
<1>8. \A s \in UpTo(result, b) : s[1] \in Nat /\ s[1] <= b
  BY KeyAssumption DEF UpTo
<1>9. \A t \in more : t[1] \in Nat /\ b < t[1] /\ t[1] <= k
  BY <1>4, <1>7 DEF Puts, more
<1>10. Lists(acc.leaves \o middle, UpTo(result, b) \cup more)
  <2>1. \A s \in UpTo(result, b), t \in more : s[1] < t[1]
    BY <1>8, <1>9
  <2> QED BY ONLY <1>2, <1>6, <2>1, ListConcat
<1>11. Lists(acc.leaves \o middle \o tail, UpTo(result, k))
  <2>1. CASE shadowed
    <3>1. tail = <<>> /\ UpTo(result, k) = UpTo(result, b) \cup more
      BY <1>4, <1>5, <2>1
    <3>2. acc.leaves \o middle \in Seq(Pairs)
      BY <1>10, ListsTypes
    <3>3. acc.leaves \o middle \o tail = acc.leaves \o middle
      BY ONLY <3>1, <3>2, ConcatEmptySeq
    <3> QED BY <1>10, <3>1, <3>3
  <2>2. CASE ~shadowed
    <3>1. tail = <<e>> /\ UpTo(result, k) = (UpTo(result, b) \cup more) \cup {e}
      BY <1>4, <1>5, <2>2
    <3>2. Lists(tail, {e})
      BY <1>1, <3>1, ListOne
    <3>3. ASSUME NEW s \in UpTo(result, b) \cup more PROVE s[1] < k
      <4>1. CASE s \in UpTo(result, b)
        BY <1>0, <1>8, <4>1
      <4>2. CASE s \in more
        <5>1. PICK x \in i .. next - 1 : s = changes[x]
          BY <4>2 DEF more, Puts
        <5>2. changes[x][1] # k
          BY <2>2 DEF shadowed
        <5> QED BY <1>0, <1>9, <4>2, <5>1, <5>2
      <4> QED BY <3>3, <4>1, <4>2
    <3>4. \A s \in UpTo(result, b) \cup more, t \in {e} : s[1] < t[1]
      BY <1>1, <3>3
    <3>5. Lists((acc.leaves \o middle) \o tail, (UpTo(result, b) \cup more) \cup {e})
      BY ONLY <1>10, <3>2, <3>4, ListConcat
    <3> QED BY <3>1, <3>5
  <2> QED BY <2>1, <2>2
<1>12. new.i = next /\ new.leaves = acc.leaves \o middle \o tail
  BY <1>4
<1>13. new \in Accs(changes)
  <2>1. acc.leaves \o middle \o tail \in Seq(Pairs)
    BY <1>11, ListsTypes
  <2> QED BY <1>4, <1>7, <2>1 DEF Accs, n
<1>14. \A x \in 1 .. next - 1 : changes[x][1] <= k
  <2> SUFFICES ASSUME NEW x \in 1 .. next - 1 PROVE changes[x][1] <= k
    OBVIOUS
  <2>1. CASE x \in 1 .. i - 1
    <3>1. changes[x][1] <= b
      BY <1>4, <2>1
    <3>2. x \in 1 .. n
      <4>1. n \in Nat /\ i \in 1 .. n + 1
        BY <1>4
      <4> QED BY ONLY <2>1, <4>1
    <3>3. changes[x][1] \in Nat
      BY <1>4, <3>2
    <3> QED BY <1>0, <3>1, <3>3
  <2>2. CASE x \in i .. next - 1
    BY <1>4, <2>2
  <2> QED BY <1>7, <2>1, <2>2
<1>15. MergedTo(new, changes, result, k)
  BY <1>4, <1>11, <1>12, <1>13, <1>14 DEF MergedTo, n
<1> QED BY <1>15 DEF new, e

\* computeStateRootWith(changes) is the root of the state after applyChanges.
THEOREM RootWithIs ==
  ASSUME NEW st \in StateMap, NEW changes, NEW T, Lists(changes, T), OfKeys(changes)
  PROVE  RootWith(st, changes) = StoredRoot(Applied(st, changes))
<1> DEFINE E == Entries(st)
           R == Applied(st, changes)
           n == Len(E)
           m == Len(changes)
<1>1. Lists(E, EntrySet(st))
  BY EntriesLists
<1>2. /\ E \in Seq(Pairs) /\ n \in Nat /\ m \in Nat /\ \A x \in 1 .. m : changes[x][1] \in Nat
      /\ \A x, y \in 1 .. n : (E[x][1] < E[y][1]) <=> x < y
      /\ \A x \in 1 .. n : E[x] \in EntrySet(st) /\ E[x] \in Pairs
  <2> HIDE DEF E
  <2> QED BY <1>1, ListsTypes
<1>3. R \in StateMap /\ Results(R, st, changes)
  <2>1. /\ R \in StateMap
        /\ \A x \in 1 .. m : R[changes[x][1]] = changes[x][2]
        /\ \A k \in Key : (\A x \in 1 .. m : changes[x][1] # k) => R[k] = st[k]
    BY AppliedIs
  <2> HIDE DEF R
  <2> QED BY <2>1 DEF Results, OfKeys
<1>4. RootWith(st, changes)
        = MergeAll(E, changes).leaves
            \o Pushed(SubSeq(changes, MergeAll(E, changes).i, m))
  BY DEF RootWith, Root, MergeAll, Start
<1> HIDE DEF E, R, n
<1>5. PICK w : /\ w[0] = Start /\ w[n] = MergeAll(E, changes)
               /\ \A j \in 1 .. n : w[j] = Merge(w[j - 1], E[j], changes)
  BY <1>2, MergeAllIs DEF n
<1> DEFINE b(j)    == IF j = 0 THEN -1 ELSE E[j][1]
           Good(j) == MergedTo(w[j], changes, R, b(j))
           Bad     == {j \in 0 .. n : ~Good(j)}
<1>6. Good(0)
  <2>1. b(0) = -1
    OBVIOUS
  <2>2. UpTo(R, -1) = {}
    BY KeyAssumption DEF UpTo
  <2>3. Start.i = 1 /\ Start.leaves = <<>> /\ Start \in Accs(changes)
    <3>1. 1 \in 1 .. m + 1 /\ <<>> \in Seq(Pairs)
      BY <1>2
    <3> QED BY <3>1 DEF Start, Accs
  <2>4. \A x \in 1 .. m : changes[x][1] > -1
    BY <1>2
  <2>5. MergedTo(Start, changes, R, -1)
    <3>1. Start \in Accs(changes)
      BY ONLY <2>3
    <3>2. \A x \in 1 .. Start.i - 1 : changes[x][1] <= -1
      BY ONLY <2>3
    <3>3. \A x \in Start.i .. Len(changes) : changes[x][1] > -1
      BY ONLY <2>3, <2>4 DEF m
    <3>4. Lists(Start.leaves, UpTo(R, -1))
      BY ONLY <2>2, <2>3, ListNothing
    <3> QED BY ONLY <3>1, <3>2, <3>3, <3>4 DEF MergedTo
  <2> QED BY <1>5, <2>1, <2>5
<1>7. \A k \in Key : st[k] # 0 => \E x \in 1 .. n : E[x] = <<k, st[k]>>
  BY <1>1 DEF Lists, EntrySet, n
<1>8. Bad = {}
  <2> SUFFICES ASSUME Bad # {} PROVE FALSE
    OBVIOUS
  <2>1. Bad \in SUBSET Nat
    OBVIOUS
  <2> HIDE DEF Good, b
  <2>2. PICK j \in Bad : \A x \in Bad : j <= x
    BY <2>1, LeastNatural
  <2>3. j \in 0 .. n /\ ~Good(j) /\ j # 0
    BY <1>6
  <2> DEFINE p == j - 1
  <2>4. p \in 0 .. n /\ ~(j <= p) /\ j \in 1 .. n /\ p = j - 1 /\ (p # 0 => p \in 1 .. n)
    <3>1. n \in Nat
      BY <1>2
    <3> QED BY ONLY <2>3, <3>1
  <2> HIDE DEF p
  <2>5. MergedTo(w[p], changes, R, b(p))
    BY <2>2, <2>4 DEF Good
  <2>6. PICK k \in Key : E[j] = <<k, st[k]>> /\ st[k] # 0
    BY <1>2, <2>4 DEF EntrySet
  <2>7. k \in Nat /\ E[j][1] = k
    BY <2>6, KeyAssumption
  <2>8. b(p) \in Int /\ b(p) < k
    <3>1. CASE p = 0
      BY <2>7, <3>1 DEF b
    <3>2. CASE p # 0
      <4>1. p \in 1 .. n /\ p < j
        BY <2>4, <3>2
      <4>2. E[p][1] < E[j][1] /\ E[p][1] \in Nat
        BY <1>2, <2>4, <4>1 DEF Pairs
      <4> QED BY <2>7, <3>2, <4>2 DEF b
    <3> QED BY <3>1, <3>2
  <2>9. ASSUME NEW i \in Key, b(p) < i, i < k, st[i] # 0 PROVE FALSE
    <3>1. PICK x \in 1 .. n : E[x] = <<i, st[i]>>
      BY <1>7, <2>9
    <3>2. E[x][1] = i
      BY <3>1
    <3>3. x < j
      BY <1>2, <2>4, <2>7, <2>9, <3>2
    <3>4. p # 0 /\ (x = p \/ x < p)
      <4>1. x \in Nat /\ 1 <= x
        BY <1>2
      <4> QED BY <2>3, <2>4, <3>3, <4>1
    <3>5. b(p) = E[p][1] /\ p \in 1 .. n
      BY <2>4, <3>4 DEF b
    <3>6. E[x][1] = E[p][1] \/ E[x][1] < E[p][1]
      BY <1>2, <3>4, <3>5
    <3>7. i \in Nat /\ b(p) \in Int
      BY <2>8, KeyAssumption
    <3> QED BY <2>9, <3>2, <3>5, <3>6, <3>7
  <2>10. MergedTo(Merge(w[p], <<k, st[k]>>, changes), changes, R, k)
    BY <1>3, <2>5, <2>6, <2>8, <2>9, TurnMerges
  <2>11. w[j] = Merge(w[p], <<k, st[k]>>, changes)
    BY <1>5, <2>4, <2>6
  <2>12. b(j) = k
    BY <2>3, <2>7 DEF b
  <2> QED BY <2>3, <2>10, <2>11, <2>12 DEF Good
<1> DEFINE acc == w[n]
           c   == b(n)
<1>9. MergedTo(acc, changes, R, c)
  <2>1. n \in 0 .. n
    BY <1>2
  <2> HIDE DEF acc, c, b, Good
  <2>2. Good(n)
    BY <1>8, <2>1
  <2> QED BY <2>2 DEF Good, acc, c
<1>10. c \in Int /\ \A k \in Key : st[k] # 0 => k <= c
  <2>1. CASE n = 0
    <3>1. c = -1
      BY <2>1
    <3>2. \A k \in Key : st[k] = 0
      BY <1>7, <2>1
    <3> QED BY <3>1, <3>2
  <2>2. CASE n # 0
    <3>1. c = E[n][1] /\ n \in 1 .. n
      BY <1>2, <2>2
    <3>2. c \in Nat
      BY <1>2, <3>1 DEF Pairs
    <3> HIDE DEF c
    <3>3. ASSUME NEW k \in Key, st[k] # 0 PROVE k <= c
      <4>1. PICK x \in 1 .. n : E[x] = <<k, st[k]>>
        BY <1>7, <3>3
      <4>2. x = n \/ x < n
        BY <1>2
      <4>3. E[x][1] = k /\ (E[x][1] = E[n][1] \/ E[x][1] < E[n][1])
        BY <1>2, <3>1, <4>1, <4>2
      <4>4. k \in Nat
        BY KeyAssumption
      <4> QED BY <3>1, <3>2, <4>3, <4>4
    <3> QED BY <3>2, <3>3
  <2> QED BY <2>1, <2>2
<1> HIDE DEF c, b
<1> DEFINE i    == acc.i
           rest == Pushed(SubSeq(changes, i, m))
<1>11. /\ i \in 1 .. m + 1 /\ Lists(acc.leaves, UpTo(R, c))
       /\ \A x \in 1 .. i - 1 : changes[x][1] <= c
       /\ \A x \in i .. m : changes[x][1] > c
  BY <1>9 DEF MergedTo, Accs
<1>12. Lists(rest, Puts(changes, i, m))
  <2> HIDE DEF i
  <2>1. i \in 1 .. m + 1 /\ m \in i - 1 .. m
    <3>1. m \in Nat /\ i \in 1 .. m + 1
      BY <1>2, <1>11
    <3> QED BY ONLY <3>1
  <2> QED BY <2>1, PushedRange
<1> HIDE DEF acc, i, rest
<1>13. \A x \in 1 .. m : x \in 1 .. i - 1 \/ x \in i .. m
  <2>1. m \in Nat /\ i \in 1 .. m + 1
    BY <1>2, <1>11
  <2> QED BY ONLY <2>1
<1>14. \A x \in i .. m : x \in 1 .. m
  <2>1. m \in Nat /\ i \in 1 .. m + 1
    BY <1>2, <1>11
  <2> QED BY ONLY <2>1
<1>15. Lists(acc.leaves \o rest, UpTo(R, c) \cup Puts(changes, i, m))
  <2>1. \A s \in UpTo(R, c), t \in Puts(changes, i, m) : s[1] < t[1]
    <3>1. ASSUME NEW s \in UpTo(R, c) PROVE s[1] \in Nat /\ s[1] <= c
      <4>1. PICK k \in Key : k <= c /\ s = <<k, R[k]>>
        BY DEF UpTo
      <4>2. s[1] = k /\ k \in Nat
        BY <4>1, KeyAssumption
      <4> QED BY <4>1, <4>2
    <3>2. \A t \in Puts(changes, i, m) : t[1] \in Nat /\ c < t[1]
      BY <1>2, <1>10, <1>11, <1>14 DEF Puts
    <3> QED BY <1>10, <3>1, <3>2
  <2> QED BY ONLY <1>11, <1>12, <2>1, ListConcat
<1>16. UpTo(R, c) \cup Puts(changes, i, m) = EntrySet(R)
  <2>1. UpTo(R, c) \subseteq EntrySet(R)
    BY DEF UpTo, EntrySet
  <2>2. ASSUME NEW x \in i .. m, changes[x][2] # 0 PROVE changes[x] \in EntrySet(R)
    <3>1. /\ x \in 1 .. m /\ changes[x] \in Pairs /\ changes[x][1] \in Key
          /\ R[changes[x][1]] = changes[x][2]
      BY <1>3, <1>14, ListsTypes DEF Results
    <3>2. changes[x] = <<changes[x][1], R[changes[x][1]]>>
      BY <3>1 DEF Pairs
    <3> QED BY <2>2, <3>1, <3>2 DEF EntrySet
  <2>3. ASSUME NEW k \in Key, R[k] # 0
        PROVE  <<k, R[k]>> \in UpTo(R, c) \cup Puts(changes, i, m)
    <3>1. CASE k <= c
      BY <2>3, <3>1 DEF UpTo
    <3>2. CASE ~(k <= c)
      <4>1. st[k] = 0
        BY <1>10, <3>2
      <4>2. PICK x \in 1 .. m : changes[x][1] = k
        BY <1>3, <2>3, <4>1 DEF Results
      <4>3. x \in i .. m
        BY <1>11, <1>13, <3>2, <4>2
      <4>4. changes[x] \in Pairs /\ changes[x][2] = R[k]
        BY <1>3, <4>2, ListsTypes DEF Results
      <4>5. changes[x] = <<k, R[k]>>
        BY <4>2, <4>4 DEF Pairs
      <4> QED BY <2>3, <4>3, <4>4, <4>5 DEF Puts
    <3> QED BY <3>1, <3>2
  <2>4. Puts(changes, i, m) \subseteq EntrySet(R)
    BY <2>2 DEF Puts
  <2>5. EntrySet(R) \subseteq UpTo(R, c) \cup Puts(changes, i, m)
    BY <2>3 DEF EntrySet
  <2> QED BY <2>1, <2>4, <2>5
<1>17. Lists(Entries(R), EntrySet(R))
  BY <1>3, EntriesLists
<1>18. acc.leaves \o rest = Entries(R)
  BY <1>15, <1>16, <1>17, ListUnique
<1>19. RootWith(st, changes) = acc.leaves \o rest
  BY <1>4, <1>5 DEF acc, rest, i
<1> QED BY <1>18, <1>19 DEF StoredRoot, Root, R

\* Changes that list some keys put what they have for these.
LEMMA AppliedGraph ==
  ASSUME NEW st \in StateMap, NEW f, NEW K \in SUBSET Key, \A k \in K : f[k] \in Nat,
         NEW changes, Lists(changes, GraphOf(f, K))
  PROVE  /\ OfKeys(changes)
         /\ Applied(st, changes) \in StateMap
         /\ Applied(st, changes) = [k \in Key |-> IF k \in K THEN f[k] ELSE st[k]]
<1> DEFINE n == Len(changes)
           R == Applied(st, changes)
<1>1. \A x \in 1 .. n : \E k \in K : changes[x] = <<k, f[k]>>
  BY ListsTypes DEF GraphOf
<1>2. OfKeys(changes)
  BY <1>1 DEF OfKeys
<1>3. /\ R \in StateMap
      /\ \A x \in 1 .. n : R[changes[x][1]] = changes[x][2]
      /\ \A k \in Key : (\A x \in 1 .. n : changes[x][1] # k) => R[k] = st[k]
  BY <1>2, AppliedIs
<1> HIDE DEF R, n
<1>4. ASSUME NEW k \in Key PROVE R[k] = IF k \in K THEN f[k] ELSE st[k]
  <2>1. CASE k \in K
    <3>1. <<k, f[k]>> \in GraphOf(f, K)
      BY <2>1 DEF GraphOf
    <3>2. PICK x \in 1 .. n : changes[x] = <<k, f[k]>>
      BY <3>1 DEF Lists, n
    <3> QED BY <1>3, <2>1, <3>2
  <2>2. CASE k \notin K
    BY <1>1, <1>3, <2>2
  <2> QED BY <2>1, <2>2
<1>5. R = [k \in Key |-> R[k]]
  BY <1>3 DEF StateMap
<1>6. R = [k \in Key |-> IF k \in K THEN f[k] ELSE st[k]]
  BY <1>4, <1>5
<1> QED BY <1>2, <1>3, <1>6 DEF R

\* The overlays sort and merge as the chain does.
OverlaysMergeAll(entries, changes) ==
  Overlays!FoldLeft(LAMBDA acc, e : Overlays!Merge(acc, e, changes), Start, entries)

LEMMA SameRoots ==
  ASSUME NEW st, NEW changes, NEW S
  PROVE  /\ Overlays!Ascending(S) = Ascending(S)
         /\ Overlays!RootWith(st, changes) = RootWith(st, changes)
         /\ Overlays!StoredRoot(st) = StoredRoot(st)
<1>1. \A X : Overlays!Ascending(X) = Ascending(X)
  BY DEF Overlays!Ascending, Ascending, Overlays!SetToSeqs, SetToSeqs, Overlays!IsSorted,
         IsSorted, Overlays!InKeyOrder, InKeyOrder, Overlays!Cardinality, Cardinality
<1>2. \A X : Overlays!Entries(X) = Entries(X)
  BY <1>1 DEF Overlays!Entries, Entries, Overlays!Entry, Entry, Overlays!Empty, Empty
<1>3. \A X : Overlays!Pushed(X) = Pushed(X)
  BY DEF Overlays!Pushed, Pushed, Overlays!FoldLeft, FoldLeft, Overlays!MapThenFoldSet,
         MapThenFoldSet, Overlays!Push, Push, Overlays!Empty, Empty, Overlays!Max, Max
<1>4. \A E, c : OverlaysMergeAll(E, c) = MergeAll(E, c)
  BY DEF OverlaysMergeAll, MergeAll, Start, Overlays!FoldLeft, FoldLeft,
         Overlays!MapThenFoldSet, MapThenFoldSet, Overlays!Max, Max, Overlays!Min, Min,
         Overlays!Merge, Merge, Overlays!StopsAt, StopsAt,
         Overlays!Pushed, Pushed, Overlays!Push, Push, Overlays!Empty, Empty
<1>5. /\ Overlays!RootWith(st, changes)
           = OverlaysMergeAll(Overlays!Entries(st), changes).leaves
               \o Overlays!Pushed(SubSeq(changes, OverlaysMergeAll(Overlays!Entries(st), changes).i,
                                         Len(changes)))
      /\ RootWith(st, changes)
           = MergeAll(Entries(st), changes).leaves
               \o Pushed(SubSeq(changes, MergeAll(Entries(st), changes).i, Len(changes)))
  BY DEF Overlays!RootWith, RootWith, Overlays!Root, Root, OverlaysMergeAll, MergeAll, Start
<1>6. Overlays!RootWith(st, changes) = RootWith(st, changes)
  BY <1>2, <1>3, <1>4, <1>5
<1>7. Overlays!StoredRoot(st) = StoredRoot(st)
  BY <1>2 DEF Overlays!StoredRoot, StoredRoot, Overlays!Root, Root
<1> QED BY <1>1, <1>6, <1>7

\* The root that is signed before anything is written is that of what will be
\* written, for a block, a transaction or a call.
LEMMA RootsOfResults == OverlayTypes => Overlays!RootIsOfResult
<1> SUFFICES ASSUME OverlayTypes, NEW i \in DOMAIN layers
             PROVE  Overlays!RootWith(store, Overlays!Changes(layers[i]))
                      = Overlays!StoredRoot(Overlays!Merged(layers[i], store))
  BY DEF Overlays!RootIsOfResult
<1> DEFINE layer == layers[i]
           K     == {k \in Key : layer[k] # None}
           cs    == Overlays!Changes(layer)
<1>0. LayerValue \cup {Overlays!Empty} \subseteq Nat
  BY StorageAssumption DEF Overlays!Empty
<1>1. store \in StateMap
  BY <1>0 DEF OverlayTypes, Map, StateMap
<1>2. K \in SUBSET Key /\ \A k \in K : layer[k] \in Nat
  <2>1. layer \in Layer
    BY DEF OverlayTypes
  <2> HIDE DEF layer
  <2>2. \A k \in K : layer[k] \in LayerValue \cup {Overlays!Empty}
    BY <2>1 DEF Layer
  <2> QED BY <1>0, <2>2
<1>3. cs = Ascending(GraphOf(layer, K))
  BY SameRoots DEF Overlays!Changes, Overlays!Entry, GraphOf, None
<1> HIDE DEF layer, cs
<1>4. Lists(cs, GraphOf(layer, K))
  <2> HIDE DEF K
  <2> QED BY <1>2, <1>3, GraphLists
<1>5. /\ OfKeys(cs)
      /\ Applied(store, cs) = [k \in Key |-> IF k \in K THEN layer[k] ELSE store[k]]
  <2> HIDE DEF K
  <2> QED BY <1>1, <1>2, <1>4, AppliedGraph
<1>6. Overlays!Merged(layer, store) = Applied(store, cs)
  BY <1>5 DEF Overlays!Merged, None
<1>7. RootWith(store, cs) = StoredRoot(Applied(store, cs))
  BY <1>1, <1>4, <1>5, RootWithIs
<1> QED BY <1>6, <1>7, SameRoots DEF layer, cs
-----------------------------------------------------------------------------
(* ChainStore: the state on disk is that of the last block on disk, or the    *)
(* next one, of the finalised chain.                                         *)

IsSeq(s) == Len(s) \in Nat /\ DOMAIN s = 1 .. Len(s) /\ s \in Seq({s[i] : i \in DOMAIN s})

LEMMA AppendIs ==
  ASSUME NEW s, IsSeq(s), NEW e
  PROVE  /\ IsSeq(Append(s, e)) /\ Len(Append(s, e)) = Len(s) + 1
         /\ \A i \in 1 .. Len(s) : Append(s, e)[i] = s[i]
         /\ Append(s, e)[Len(s) + 1] = e
<1> DEFINE Old == {s[i] : i \in DOMAIN s}
           New == Old \cup {e}
           t   == Append(s, e)
<1>1. s \in Seq(Old) /\ Len(s) \in Nat /\ DOMAIN s = 1 .. Len(s)
  BY DEF IsSeq
<1>2. s \in Seq(New) /\ e \in New
  BY <1>1
<1> HIDE DEF Old, New
<1>3. /\ t \in Seq(New) /\ Len(t) = Len(s) + 1
      /\ \A i \in 1 .. Len(s) : t[i] = s[i]
      /\ t[Len(s) + 1] = e
  BY <1>1, <1>2
<1> HIDE DEF t
<1>4. DOMAIN t = 1 .. Len(t) /\ Len(t) \in Nat
  BY <1>1, <1>3
<1>5. t \in Seq({t[i] : i \in DOMAIN t})
  BY <1>3, <1>4
<1>6. /\ IsSeq(t) /\ Len(t) = Len(s) + 1
      /\ \A i \in 1 .. Len(s) : t[i] = s[i]
      /\ t[Len(s) + 1] = e
  BY <1>3, <1>4, <1>5 DEF IsSeq
<1> QED BY <1>6 DEF t

\* What a block changes.
LEMMA PayloadChanges ==
  ASSUME NEW p \in Payload, NEW st \in StateMap
  PROVE  /\ Applied(st, Changes(p)) \in StateMap
         /\ RootWith(st, Changes(p)) = StoredRoot(Applied(st, Changes(p)))
<1> DEFINE K  == {p.sender, p.key}
           f  == [k \in K |-> IF k = p.sender THEN AtNonce(p.nonce + 1) ELSE p.value]
           cs == Changes(p)
<1>1. /\ p.sender \in Account /\ p.nonce \in Nat /\ p.key \in Key \ Account
      /\ p.value \in {0, 1} /\ Account \subseteq Key
  BY ChainAssumption DEF Payload, Empty
<1>2. K \in SUBSET Key /\ \A k \in K : f[k] \in Nat
  BY <1>1 DEF AtNonce
<1>3. cs = Ascending(GraphOf(f, K))
  <2>1. GraphOf(f, K) = {<<p.sender, AtNonce(p.nonce + 1)>>, <<p.key, p.value>>}
    BY <1>1 DEF GraphOf
  <2> QED BY <2>1 DEF Changes, Entry
<1> HIDE DEF K, f, cs
<1>4. Lists(cs, GraphOf(f, K))
  BY <1>2, <1>3, GraphLists
<1>5. OfKeys(cs) /\ Applied(st, cs) \in StateMap
  BY <1>2, <1>4, AppliedGraph
<1>6. RootWith(st, cs) = StoredRoot(Applied(st, cs))
  BY <1>4, <1>5, RootWithIs
<1> QED BY <1>5, <1>6 DEF cs

\* To apply the same changes again changes nothing.
LEMMA AppliedTwice ==
  ASSUME NEW st, NEW changes
  PROVE  Applied(Applied(st, changes), changes) = Applied(st, changes)
<1> DEFINE R == Applied(st, changes)
<1>1. /\ DOMAIN R = Key
      /\ \A k \in Key : R[k] = IF ChangesOf(k, changes) = {} THEN st[k]
                               ELSE changes[Max(ChangesOf(k, changes))][2]
  BY DEF Applied
<1>2. R = [k \in Key |-> IF ChangesOf(k, changes) = {} THEN st[k]
                         ELSE changes[Max(ChangesOf(k, changes))][2]]
  BY DEF Applied
<1>3. Applied(R, changes)
        = [k \in Key |-> IF ChangesOf(k, changes) = {} THEN R[k]
                         ELSE changes[Max(ChangesOf(k, changes))][2]]
  BY DEF Applied
<1> HIDE DEF R
<1>4. \A k \in Key : (IF ChangesOf(k, changes) = {} THEN R[k]
                      ELSE changes[Max(ChangesOf(k, changes))][2]) = R[k]
  BY <1>1
<1>5. Applied(R, changes) = [k \in Key |-> R[k]]
  BY <1>3, <1>4
<1>6. R = [k \in Key |-> R[k]]
  BY <1>2
<1> QED BY <1>5, <1>6 DEF R

LEMMA GenesisTypes ==
  /\ EmptyState \in StateMap /\ GenesisState \in StateMap
  /\ GenesisChanges \in Seq(Pairs) /\ Len(GenesisChanges) = Len(Allocations)
  /\ \A i \in 1 .. Len(Allocations) : GenesisChanges[i] = <<Allocations[i], 1>>
                                      /\ Allocations[i] \in Key
<1> DEFINE n == Len(Allocations)
<1>1. n \in Nat /\ DOMAIN Allocations = 1 .. n /\ \A i \in 1 .. n : Allocations[i] \in Account
  BY ChainAssumption
<1>2. \A i \in 1 .. n : Allocations[i] \in Key /\ Allocations[i] \in Nat
  BY <1>1, ChainAssumption, KeyAssumption
<1> HIDE DEF n
<1>3. GenesisChanges = [i \in 1 .. n |-> <<Allocations[i], 1>>]
  BY <1>1 DEF GenesisChanges, Entry, AtNonce
<1>4. GenesisChanges \in [1 .. n -> Pairs]
  BY <1>2, <1>3 DEF Pairs
<1>5. GenesisChanges \in Seq(Pairs) /\ Len(GenesisChanges) = n /\ DOMAIN GenesisChanges = 1 .. n
  BY <1>1, <1>4
<1>6. EmptyState \in StateMap
  BY DEF EmptyState, Empty, StateMap
<1>7. ASSUME NEW k \in Key PROVE GenesisState[k] \in Nat
  <2> DEFINE s == ChangesOf(k, GenesisChanges)
  <2>1. s \in SUBSET (1 .. n)
    BY <1>5 DEF ChangesOf
  <2>2. GenesisState[k] = IF s = {} THEN EmptyState[k] ELSE GenesisChanges[Max(s)][2]
    BY DEF GenesisState, Applied
  <2> HIDE DEF s
  <2>3. s # {} => GenesisChanges[Max(s)][2] = 1
    BY <1>1, <1>3, <2>1, MaxIsIn
  <2> QED BY <1>6, <2>2, <2>3 DEF StateMap
<1>8. GenesisState = [k \in Key |-> GenesisState[k]]
  BY DEF GenesisState, Applied
<1>9. GenesisState \in StateMap
  BY <1>7, <1>8 DEF StateMap
<1> QED BY <1>2, <1>3, <1>5, <1>6, <1>9 DEF n

\* Genesis over a state that holds it already.
GenesisAgain == Applied(GenesisState, GenesisChanges) = GenesisState

LEMMA GenesisTwice == GenesisAgain
BY AppliedTwice DEF GenesisAgain, GenesisState

-----------------------------------------------------------------------------
\* The chain of finalised blocks.
FinalsAre(fin) ==
  /\ IsSeq(fin) /\ Len(fin) >= 1
  /\ fin[1].header = GenesisHeader(EmptyState) /\ fin[1].state = GenesisState
  /\ \A i \in 1 .. Len(fin) : fin[i].header.height = i - 1 /\ fin[i].state \in StateMap
  /\ \A i \in 1 .. Len(fin) - 1 : \E p \in Payload :
       /\ fin[i + 1].header = Draft(fin[i].header, fin[i].state, p)
       /\ fin[i + 1].state = Applied(fin[i].state, Changes(p))

Geneses == {GenesisHeader(EmptyState), GenesisHeader(GenesisState)}

\* The stored blocks are finalised ones; block 0 may have been built again.
BlocksAre(fin, bl) ==
  /\ IsSeq(bl) /\ Len(bl) <= Len(fin)
  /\ \A i \in 1 .. Len(bl) : bl[i].height = i - 1
  /\ \A i \in 2 .. Len(bl) : bl[i] = fin[i].header
  /\ Len(bl) >= 1 => bl[1] \in Geneses

\* The stored state is at most one block ahead.
Near(fin, st, bl) ==
  \/ Len(bl) = 0 /\ st \in {EmptyState, GenesisState}
  \/ Len(bl) >= 1 /\ st = fin[Len(bl)].state
  \/ Len(bl) >= 1 /\ Len(bl) + 1 <= Len(fin) /\ st = fin[Len(bl) + 1].state

\* The block in hand is the next one, and applied twice is as good as once.
Pending(fin, bl, hd, t) ==
  /\ Len(bl) + 1 <= Len(fin)
  /\ t.header.height = Len(bl)
  /\ \/ Len(bl) = 0 /\ t.origin = "genesis" /\ hd = NoHeader
        /\ t.header \in Geneses /\ t.changes = GenesisChanges
     \/ /\ Len(bl) >= 1 /\ t.origin \in {"quorum", "sync"} /\ hd = bl[Len(bl)]
        /\ t.header = fin[Len(bl) + 1].header
        /\ fin[Len(bl) + 1].state = Applied(fin[Len(bl)].state, t.changes)

TaskIs(fin, st, bl, hd, t, fl) ==
  \/ t = Down /\ hd = NoHeader
  \/ /\ t = Idle /\ Len(bl) >= 1 /\ hd = bl[Len(bl)]
     /\ fl = 0 => st = fin[Len(bl)].state
  \/ t.stage = "verified" /\ Pending(fin, bl, hd, t)
  \/ t.stage = "kept" /\ Pending(fin, bl, hd, t) /\ Len(bl) >= 1
  \/ t.stage = "stateWritten" /\ Pending(fin, bl, hd, t) /\ st = fin[Len(bl) + 1].state
  \/ /\ t.stage = "blockWritten" /\ Len(bl) >= 1 /\ t.header = bl[Len(bl)]
     /\ st = fin[Len(bl)].state
     /\ IF Len(bl) = 1 THEN hd = NoHeader ELSE hd = bl[Len(bl) - 1]

ChainInv ==
  /\ FinalsAre(finalized) /\ BlocksAre(finalized, blocks)
  /\ Near(finalized, state, blocks)
  /\ TaskIs(finalized, state, blocks, head, task, failures)
  /\ failures \in Nat

LEMMA Stages ==
  /\ Down.stage = "down" /\ Idle.stage = "idle"
  /\ \A s, o, h, c : /\ Doing(s, o, h, c).stage = s /\ Doing(s, o, h, c).origin = o
                     /\ Doing(s, o, h, c).header = h /\ Doing(s, o, h, c).changes = c
BY DEF Down, Idle, Doing

LEMMA DraftIs ==
  ASSUME NEW on, NEW st, NEW p
  PROVE  /\ Draft(on, st, p).height = on.height + 1 /\ Draft(on, st, p).prev = on
         /\ Draft(on, st, p).root = RootWith(st, Changes(p)) /\ Draft(on, st, p).payload = p
BY DEF Draft

\* The validators finalise one more block.
LEMMA FinalsGrow ==
  ASSUME NEW fin, FinalsAre(fin), NEW p \in Payload, NEW b,
         b.header = Draft(fin[Len(fin)].header, fin[Len(fin)].state, p),
         b.state = Applied(fin[Len(fin)].state, Changes(p))
  PROVE  /\ FinalsAre(Append(fin, b)) /\ Len(Append(fin, b)) = Len(fin) + 1
         /\ \A i \in 1 .. Len(fin) : Append(fin, b)[i] = fin[i]
         /\ Append(fin, b)[Len(fin) + 1] = b
<1> DEFINE n   == Len(fin)
           new == Append(fin, b)
<1>1. /\ IsSeq(fin) /\ n \in Nat /\ n >= 1
      /\ \A i \in 1 .. n : fin[i].header.height = i - 1 /\ fin[i].state \in StateMap
  BY DEF FinalsAre, IsSeq
<1>2. IsSeq(new) /\ Len(new) = n + 1 /\ (\A i \in 1 .. n : new[i] = fin[i]) /\ new[n + 1] = b
  BY <1>1, AppendIs
<1>3. b.header.height = n /\ b.state \in StateMap
  BY <1>1, DraftIs, PayloadChanges
<1> HIDE DEF n, new
<1>4. /\ \A i \in 1 .. n + 1 : i \in 1 .. n \/ i = n + 1
      /\ (n + 1) - 1 = n /\ 1 \in 1 .. n /\ n + 1 >= 1
      /\ \A i \in 1 .. n : i = n \/ i \in 1 .. n - 1
      /\ \A i \in 1 .. n - 1 : i \in 1 .. n /\ i + 1 \in 1 .. n
      /\ n \in 1 .. n
  <2>1. n \in Nat /\ n >= 1
    BY <1>1
  <2> QED BY ONLY <2>1
<1>5. \A i \in 1 .. n + 1 : new[i].header.height = i - 1 /\ new[i].state \in StateMap
  BY <1>1, <1>2, <1>3, <1>4
<1>6. ASSUME NEW i \in 1 .. n
      PROVE  \E q \in Payload : /\ new[i + 1].header = Draft(new[i].header, new[i].state, q)
                                /\ new[i + 1].state = Applied(new[i].state, Changes(q))
  <2>1. CASE i = n
    BY <1>2, <1>4, <2>1 DEF n
  <2>2. CASE i \in 1 .. n - 1
    BY <1>2, <1>4, <2>2 DEF FinalsAre, n
  <2> QED BY <1>4, <2>1, <2>2
<1>7. FinalsAre(new)
  <2>1. new[1] = fin[1] /\ Len(new) >= 1 /\ Len(new) - 1 = n
    BY <1>2, <1>4
  <2>2. fin[1].header = GenesisHeader(EmptyState) /\ fin[1].state = GenesisState
    BY DEF FinalsAre
  <2>3. \A i \in 1 .. Len(new) : new[i].header.height = i - 1 /\ new[i].state \in StateMap
    BY <1>2, <1>5
  <2>4. \A i \in 1 .. Len(new) - 1 : \E q \in Payload :
          /\ new[i + 1].header = Draft(new[i].header, new[i].state, q)
          /\ new[i + 1].state = Applied(new[i].state, Changes(q))
    BY <1>6, <2>1
  <2> QED BY <1>2, <2>1, <2>2, <2>3, <2>4 DEF FinalsAre
<1> QED BY <1>2, <1>7 DEF n, new

\* What is said of a node holds of a longer chain.
LEMMA NodeGrows ==
  ASSUME NEW fin, FinalsAre(fin), NEW new, Len(new) \in Nat, Len(fin) <= Len(new),
         \A i \in 1 .. Len(fin) : new[i] = fin[i],
         NEW st, NEW bl, NEW hd, NEW t, NEW fl,
         BlocksAre(fin, bl), Near(fin, st, bl)
  PROVE  /\ BlocksAre(new, bl) /\ Near(new, st, bl)
         /\ Pending(fin, bl, hd, t) => Pending(new, bl, hd, t)
         /\ TaskIs(fin, st, bl, hd, t, fl) => TaskIs(new, st, bl, hd, t, fl)
<1> DEFINE n == Len(fin)
           m == Len(new)
           l == Len(bl)
<1>1. n \in Nat /\ m \in Nat /\ n <= m /\ l \in Nat /\ l <= n
  BY DEF FinalsAre, BlocksAre, IsSeq
<1>2. /\ \A i \in 2 .. l : i \in 1 .. n
      /\ l >= 1 => l \in 1 .. n
      /\ l + 1 <= n => l + 1 \in 1 .. n /\ l + 1 <= m
      /\ l <= m
  <2> HIDE DEF n, m, l
  <2> QED BY ONLY <1>1
<1>3. BlocksAre(new, bl)
  BY <1>2 DEF BlocksAre
<1>4. Near(new, st, bl)
  BY <1>2 DEF Near
<1>5. Pending(fin, bl, hd, t) => Pending(new, bl, hd, t) /\ new[l + 1] = fin[l + 1]
  BY <1>2 DEF Pending
<1>6. TaskIs(fin, st, bl, hd, t, fl) => TaskIs(new, st, bl, hd, t, fl)
  <2>1. l >= 1 => new[l] = fin[l]
    BY <1>2
  <2> HIDE DEF l, n, m
  <2> QED BY <1>5, <2>1 DEF TaskIs, l
<1> QED BY <1>3, <1>4, <1>5, <1>6

LEMMA FinalizeStep ==
  ASSUME ChainInv, NEW p \in Payload, Finalize(p)
  PROVE  ChainInv'
<1>0. FinalsAre(finalized) /\ BlocksAre(finalized, blocks) /\ Near(finalized, state, blocks)
      /\ TaskIs(finalized, state, blocks, head, task, failures) /\ failures \in Nat
  BY DEF ChainInv
<1>1. /\ finalized' = Append(finalized, FinalizedBlock(p))
      /\ UNCHANGED <<state, blocks, head, task, failures>>
  BY DEF Finalize, disk
<1>2. /\ FinalsAre(finalized') /\ Len(finalized') = Len(finalized) + 1
      /\ \A i \in 1 .. Len(finalized) : finalized'[i] = finalized[i]
  <2>1. /\ FinalizedBlock(p).header
             = Draft(finalized[Len(finalized)].header, finalized[Len(finalized)].state, p)
        /\ FinalizedBlock(p).state = Applied(finalized[Len(finalized)].state, Changes(p))
    BY DEF FinalizedBlock, Tip, Last
  <2> QED BY <1>0, <1>1, <2>1, FinalsGrow
<1>3. Len(finalized') \in Nat /\ Len(finalized) <= Len(finalized')
  BY <1>0, <1>2 DEF FinalsAre, IsSeq
<1>4. /\ BlocksAre(finalized', blocks) /\ Near(finalized', state, blocks)
      /\ TaskIs(finalized', state, blocks, head, task, failures)
  BY <1>0, <1>2, <1>3, NodeGrows
<1> QED BY <1>0, <1>1, <1>2, <1>4 DEF ChainInv

\* Steps on the finalised chain as it is.
LEMMA TaskStep ==
  ASSUME ChainInv, UNCHANGED <<finalized, state, blocks>>, failures' \in Nat,
         TaskIs(finalized, state, blocks, head', task', failures')
  PROVE  ChainInv'
BY DEF ChainInv

LEMMA OpenFreshStep ==
  ASSUME ChainInv, OpenFresh
  PROVE  ChainInv'
<1>1. /\ task = Down /\ blocks = <<>> /\ head' = head
      /\ task' = Doing("verified", "genesis", GenesisHeader(state), GenesisChanges)
      /\ UNCHANGED <<finalized, state, blocks, failures>>
  BY DEF OpenFresh, disk
<1>2. Len(blocks) = 0
  BY <1>1
<1>3. state \in {EmptyState, GenesisState} /\ head = NoHeader /\ Len(finalized) >= 1
  <2>1. head = NoHeader
    BY <1>1, Stages DEF ChainInv, TaskIs
  <2> QED BY <1>2, <2>1 DEF ChainInv, Near, FinalsAre
<1>4. GenesisHeader(state) \in Geneses /\ GenesisHeader(state).height = 0
  BY <1>3 DEF Geneses, GenesisHeader
<1>5. Pending(finalized, blocks, head, task')
  BY <1>1, <1>2, <1>3, <1>4, Stages DEF Pending
<1>6. task'.stage = "verified"
  BY <1>1, Stages
<1>7. TaskIs(finalized, state, blocks, head', task', failures')
  BY <1>1, <1>5, <1>6 DEF TaskIs
<1> QED BY <1>1, <1>7, TaskStep DEF ChainInv

\* "Chain.open detects a crash between the two": the checks pass only on the state
\* of the last stored block.
LEMMA OpensWhole ==
  ASSUME ChainInv, Opens
  PROVE  Len(blocks) >= 1 /\ state = finalized[Len(blocks)].state
<1> DEFINE l == Len(blocks)
<1>1. /\ FinalsAre(finalized) /\ BlocksAre(finalized, blocks) /\ Near(finalized, state, blocks)
      /\ IsSeq(blocks) /\ l \in Nat /\ blocks # <<>> /\ Len(finalized) \in Nat /\ l <= Len(finalized)
  BY DEF ChainInv, Opens, BlocksAre, FinalsAre, IsSeq
<1>2. l >= 1
  <2>1. blocks \in Seq({blocks[i] : i \in DOMAIN blocks})
    BY <1>1 DEF IsSeq
  <2> QED BY <1>1, <2>1
<1>3. l \in 1 .. l /\ Last(blocks) = blocks[l] /\ blocks[l].height = l - 1 /\ l \in 1 .. Len(finalized)
  BY <1>1, <1>2 DEF BlocksAre, Last
<1>4. state \in StateMap
  <2>1. l + 1 <= Len(finalized) => l + 1 \in 1 .. Len(finalized)
    BY <1>1, <1>2
  <2>2. \A i \in 1 .. Len(finalized) : finalized[i].state \in StateMap
    BY <1>1 DEF FinalsAre
  <2> QED BY <1>1, <1>2, <1>3, <2>1, <2>2 DEF Near
<1>5. CASE l = 1
  <2>1. StoredRoot(state) = StoredRoot(GenesisState)
    BY <1>3, <1>5 DEF Opens
  <2>2. state = GenesisState
    BY <1>4, <2>1, GenesisTypes, RootsDiffer
  <2> QED BY <1>1, <1>5, <2>2 DEF FinalsAre
<1>6. CASE l # 1
  <2> DEFINE j == l - 1
  <2>1. l \in 2 .. l /\ j \in 1 .. Len(finalized) - 1 /\ j + 1 = l /\ l - 1 # 0 /\ j \in 1 .. Len(finalized)
    <3> HIDE DEF l
    <3>1. l \in Nat /\ l >= 1 /\ l <= Len(finalized) /\ Len(finalized) \in Nat
      BY <1>1, <1>2
    <3> QED BY ONLY <1>6, <3>1
  <2> HIDE DEF j
  <2>2. StoredRoot(state) = blocks[l].root /\ blocks[l] = finalized[l].header
    BY <1>1, <1>3, <2>1 DEF Opens, BlocksAre
  <2>3. PICK p \in Payload :
          /\ finalized[j + 1].header = Draft(finalized[j].header, finalized[j].state, p)
          /\ finalized[j + 1].state = Applied(finalized[j].state, Changes(p))
    BY <1>1, <2>1 DEF FinalsAre
  <2>4. finalized[j].state \in StateMap
    BY <1>1, <2>1 DEF FinalsAre
  <2>5. /\ StoredRoot(state) = StoredRoot(finalized[l].state)
        /\ finalized[l].state \in StateMap
    BY <2>1, <2>2, <2>3, <2>4, DraftIs, PayloadChanges
  <2> QED BY <1>2, <1>4, <2>5, RootsDiffer
<1> QED BY <1>2, <1>5, <1>6

LEMMA OpenStep ==
  ASSUME ChainInv, Open
  PROVE  ChainInv'
<1>1. /\ Opens /\ head' = blocks[Len(blocks)] /\ task' = Idle
      /\ UNCHANGED <<finalized, state, blocks, failures>>
  BY DEF Open, disk, Last
<1>2. Len(blocks) >= 1 /\ state = finalized[Len(blocks)].state
  BY <1>1, OpensWhole
<1>3. TaskIs(finalized, state, blocks, head', task', failures')
  BY <1>1, <1>2 DEF TaskIs
<1> QED BY <1>1, <1>3, TaskStep DEF ChainInv

\* A running node that may draft or verify stands at its last block.
LEMMA ReadyIs ==
  ASSUME ChainInv, MayVerify
  PROVE  /\ Len(blocks) >= 1 /\ head = blocks[Len(blocks)] /\ head.height = Len(blocks) - 1
         /\ Len(blocks) \in Nat /\ Len(finalized) \in Nat /\ Len(blocks) <= Len(finalized)
<1>1. task.stage \in {"idle", "kept"}
  BY DEF MayVerify, Stage
<1>2. Len(blocks) >= 1 /\ head = blocks[Len(blocks)]
  <2>1. TaskIs(finalized, state, blocks, head, task, failures)
    BY DEF ChainInv
  <2>2. task # Down
    BY <1>1, Stages
  <2>3. task = Idle \/ task.stage = "idle" \/ task.stage = "kept"
    BY <1>1
  <2> QED BY <1>1, <2>1, <2>2, <2>3, Stages DEF TaskIs, Pending
<1>3. /\ Len(blocks) \in Nat /\ Len(finalized) \in Nat /\ Len(blocks) <= Len(finalized)
      /\ \A i \in 1 .. Len(blocks) : blocks[i].height = i - 1
  BY DEF ChainInv, BlocksAre, FinalsAre, IsSeq
<1>4. Len(blocks) \in 1 .. Len(blocks)
  BY <1>2, <1>3
<1> QED BY <1>2, <1>3, <1>4

LEMMA VerifyBlockStep ==
  ASSUME ChainInv, NEW origin \in {"quorum", "sync"}, NEW i \in DOMAIN finalized,
         finalized[i].header.height > 0, VerifyBlock(origin, finalized[i])
  PROVE  ChainInv'
<1> DEFINE l == Len(blocks)
           j == i - 1
           h == finalized[i].header
<1>1. /\ MayVerify /\ h.height = head.height + 1 /\ h.prev = head
      /\ task' = Doing("verified", origin, h, Changes(h.payload))
      /\ UNCHANGED <<finalized, state, blocks, head, failures>>
  BY DEF VerifyBlock, Verifies, disk
<1>2. /\ l >= 1 /\ head = blocks[l] /\ head.height = l - 1 /\ l \in Nat
      /\ Len(finalized) \in Nat /\ l <= Len(finalized)
  BY <1>1, ReadyIs
<1>3. FinalsAre(finalized) /\ i \in 1 .. Len(finalized)
  BY DEF ChainInv, FinalsAre, IsSeq
<1>4. h.height = i - 1 /\ i - 1 > 0
  BY <1>3 DEF FinalsAre
<1> HIDE DEF l, h
<1>5. i = l + 1 /\ l \in 1 .. Len(finalized) - 1 /\ l + 1 <= Len(finalized)
  <2>1. h.height = l
    BY <1>1, <1>2
  <2> QED BY <1>2, <1>3, <1>4, <2>1
<1>6. PICK p \in Payload :
        /\ finalized[l + 1].header = Draft(finalized[l].header, finalized[l].state, p)
        /\ finalized[l + 1].state = Applied(finalized[l].state, Changes(p))
  BY <1>3, <1>5 DEF FinalsAre
<1>7. h = finalized[l + 1].header /\ h.payload = p
  BY <1>5, <1>6, DraftIs DEF h
<1>8. /\ task'.stage = "verified" /\ task'.origin = origin /\ task'.header = h
      /\ task'.changes = Changes(p)
  BY <1>1, <1>7, Stages
<1>9. Pending(finalized, blocks, head, task')
  BY <1>2, <1>4, <1>5, <1>6, <1>7, <1>8 DEF Pending, l
<1>10. TaskIs(finalized, state, blocks, head', task', failures')
  BY <1>1, <1>8, <1>9 DEF TaskIs
<1> QED BY <1>1, <1>10, TaskStep DEF ChainInv

\* A node whose own block is voted for is at the end of the finalised chain, so
\* its state is that of its head.
LEMMA DraftBlockStep ==
  ASSUME ChainInv, NEW p \in Payload, DraftBlock(p)
  PROVE  ChainInv'
<1> DEFINE l == Len(blocks)
           n == Len(finalized)
           b == FinalizedBlock(p)
<1>0. FinalsAre(finalized) /\ BlocksAre(finalized, blocks) /\ Near(finalized, state, blocks)
      /\ failures \in Nat
  BY DEF ChainInv
<1>1. /\ Stage = "idle" /\ Draft(head, state, p) = b.header
      /\ finalized' = Append(finalized, b)
      /\ task' = Doing("verified", "quorum", b.header, Changes(p))
      /\ UNCHANGED <<state, blocks, head, failures>>
  BY DEF DraftBlock, disk
<1>2. /\ l >= 1 /\ head = blocks[l] /\ head.height = l - 1 /\ l \in Nat /\ n \in Nat /\ l <= n
  BY <1>1, ReadyIs DEF MayVerify
<1>3. /\ b.header = Draft(finalized[n].header, finalized[n].state, p)
      /\ b.state = Applied(finalized[n].state, Changes(p))
  BY DEF FinalizedBlock, Tip, Last
<1> HIDE DEF b
<1>4. head = finalized[n].header /\ finalized[n].header.height = n - 1 /\ b.header.height = l
  <2>1. n \in 1 .. n
    BY <1>2
  <2> QED BY <1>0, <1>1, <1>2, <1>3, <2>1, DraftIs DEF FinalsAre
<1>5. l = n
  BY <1>2, <1>4
<1>6. /\ FinalsAre(finalized') /\ Len(finalized') = n + 1
      /\ \A i \in 1 .. n : finalized'[i] = finalized[i]
      /\ finalized'[n + 1] = b
  BY <1>0, <1>1, <1>3, FinalsGrow
<1>7. Len(finalized') \in Nat /\ n <= Len(finalized')
  BY <1>2, <1>6
<1>8. BlocksAre(finalized', blocks) /\ Near(finalized', state, blocks)
  BY <1>0, <1>6, <1>7, NodeGrows
<1>9. /\ task'.stage = "verified" /\ task'.origin = "quorum" /\ task'.header = b.header
      /\ task'.changes = Changes(p)
  BY <1>1, Stages
<1>10. finalized'[l] = finalized[n] /\ finalized'[l + 1] = b /\ l + 1 <= Len(finalized')
  BY <1>2, <1>5, <1>6
<1> HIDE DEF l, n
<1>11. Pending(finalized', blocks, head, task')
  BY <1>2, <1>3, <1>4, <1>9, <1>10 DEF Pending, l
<1>12. TaskIs(finalized', state, blocks, head, task', failures)
  BY <1>9, <1>11 DEF TaskIs
<1> QED BY <1>0, <1>1, <1>6, <1>8, <1>12 DEF ChainInv

LEMMA CommitStateStep ==
  ASSUME ChainInv, CommitState
  PROVE  ChainInv'
<1> DEFINE l == Len(blocks)
           c == task.changes
<1>0. FinalsAre(finalized) /\ BlocksAre(finalized, blocks) /\ Near(finalized, state, blocks)
      /\ TaskIs(finalized, state, blocks, head, task, failures) /\ failures \in Nat
  BY DEF ChainInv
<1>1. /\ task.stage = "verified" /\ state' = Applied(state, c)
      /\ task' = Doing("stateWritten", task.origin, task.header, c)
      /\ UNCHANGED <<finalized, blocks, head, failures>>
  BY DEF CommitState, At, Stage
<1>2. Pending(finalized, blocks, head, task)
  BY <1>0, <1>1, Stages DEF TaskIs
<1>3. /\ task'.stage = "stateWritten" /\ task'.origin = task.origin /\ task'.header = task.header
      /\ task'.changes = c
  BY <1>1, Stages
<1>4. Pending(finalized, blocks, head, task')
  BY <1>2, <1>3 DEF Pending
<1>5. l \in Nat /\ l + 1 <= Len(finalized)
  BY <1>0, <1>2 DEF BlocksAre, IsSeq, Pending
<1>6. state' = finalized[l + 1].state
  <2>1. CASE l = 0
    <3>1. state \in {EmptyState, GenesisState} /\ c = GenesisChanges
      BY <1>0, <1>2, <2>1 DEF Near, Pending
    <3>2. state' = GenesisState
      BY <1>1, <3>1, GenesisTwice DEF GenesisAgain, GenesisState
    <3> QED BY <1>0, <2>1, <3>2 DEF FinalsAre
  <2>2. CASE l # 0
    <3>1. /\ finalized[l + 1].state = Applied(finalized[l].state, c)
          /\ state = finalized[l].state \/ state = finalized[l + 1].state
      BY <1>0, <1>2, <1>5, <2>2 DEF Near, Pending
    <3> QED BY <1>1, <3>1, AppliedTwice
  <2> QED BY <2>1, <2>2
<1>7. Near(finalized, state', blocks)
  <2>1. CASE l = 0
    BY <1>0, <1>6, <2>1 DEF Near, FinalsAre
  <2>2. CASE l # 0
    BY <1>5, <1>6, <2>2 DEF Near
  <2> QED BY <2>1, <2>2
<1>8. TaskIs(finalized, state', blocks, head, task', failures)
  BY <1>3, <1>4, <1>6 DEF TaskIs
<1> QED BY <1>0, <1>1, <1>7, <1>8 DEF ChainInv

LEMMA CommitBlockStep ==
  ASSUME ChainInv, CommitBlock
  PROVE  ChainInv'
<1> DEFINE l == Len(blocks)
           h == task.header
<1>0. FinalsAre(finalized) /\ BlocksAre(finalized, blocks) /\ Near(finalized, state, blocks)
      /\ TaskIs(finalized, state, blocks, head, task, failures) /\ failures \in Nat
  BY DEF ChainInv
<1>1. /\ task.stage = "stateWritten" /\ blocks' = Append(blocks, h)
      /\ task' = Doing("blockWritten", task.origin, h, task.changes)
      /\ UNCHANGED <<finalized, state, head, failures>>
  BY DEF CommitBlock, At, Stage
<1>2. Pending(finalized, blocks, head, task) /\ state = finalized[l + 1].state
  BY <1>0, <1>1, Stages DEF TaskIs
<1>3. task'.stage = "blockWritten" /\ task'.header = h
  BY <1>1, Stages
<1>4. l \in Nat /\ l + 1 <= Len(finalized) /\ IsSeq(blocks) /\ h.height = l
  BY <1>0, <1>2 DEF BlocksAre, IsSeq, Pending
<1>5. /\ IsSeq(blocks') /\ Len(blocks') = l + 1 /\ blocks'[l + 1] = h
      /\ \A i \in 1 .. l : blocks'[i] = blocks[i]
  BY <1>1, <1>4, AppendIs
<1> HIDE DEF h, l
<1>6. /\ \A i \in 1 .. l + 1 : i \in 1 .. l \/ i = l + 1
      /\ \A i \in 2 .. l + 1 : i \in 2 .. l \/ (i = l + 1 /\ l >= 1)
      /\ \A i \in 2 .. l : i \in 1 .. l
      /\ (l + 1) - 1 = l /\ l + 1 >= 1
      /\ l >= 1 => 1 \in 1 .. l /\ l \in 1 .. l /\ l + 1 # 1
      /\ ~(l >= 1) => l = 0 /\ l + 1 = 1
  <2>1. l \in Nat
    BY <1>4
  <2> QED BY ONLY <2>1
<1>7. \A i \in 1 .. l + 1 : blocks'[i].height = i - 1
  BY <1>0, <1>4, <1>5, <1>6 DEF BlocksAre, l
<1>8. \A i \in 2 .. l + 1 : blocks'[i] = finalized[i].header
  <2>1. l >= 1 => h = finalized[l + 1].header
    BY <1>2, <1>6 DEF Pending, l, h
  <2> QED BY <1>0, <1>5, <1>6, <2>1 DEF BlocksAre, l
<1>9. blocks'[1] \in Geneses
  <2>1. CASE l >= 1
    BY <1>0, <1>5, <1>6, <2>1 DEF BlocksAre, l
  <2>2. CASE ~(l >= 1)
    BY <1>2, <1>5, <1>6, <2>2 DEF Pending, l, h
  <2> QED BY <2>1, <2>2
<1>10. BlocksAre(finalized, blocks')
  BY <1>4, <1>5, <1>7, <1>8, <1>9 DEF BlocksAre
<1>11. Near(finalized, state, blocks')
  BY <1>2, <1>5, <1>6 DEF Near, l
<1>12. IF Len(blocks') = 1 THEN head = NoHeader ELSE head = blocks'[Len(blocks') - 1]
  <2>1. CASE l >= 1
    BY <1>2, <1>5, <1>6, <2>1 DEF Pending, l
  <2>2. CASE ~(l >= 1)
    BY <1>2, <1>5, <1>6, <2>2 DEF Pending, l
  <2> QED BY <2>1, <2>2
<1>13. TaskIs(finalized, state, blocks', head, task', failures)
  BY <1>2, <1>3, <1>5, <1>6, <1>12 DEF TaskIs, l
<1> QED BY <1>0, <1>1, <1>10, <1>11, <1>13 DEF ChainInv

LEMMA SetHeadStep ==
  ASSUME ChainInv, SetHead
  PROVE  ChainInv'
<1>1. /\ task.stage = "blockWritten" /\ head' = task.header /\ task' = Idle
      /\ UNCHANGED <<finalized, state, blocks, failures>>
  BY DEF SetHead, disk, Stage
<1>2. /\ Len(blocks) >= 1 /\ task.header = blocks[Len(blocks)]
      /\ state = finalized[Len(blocks)].state
  BY <1>1, Stages DEF ChainInv, TaskIs
<1>3. TaskIs(finalized, state, blocks, head', task', failures')
  BY <1>1, <1>2 DEF TaskIs
<1> QED BY <1>1, <1>3, TaskStep DEF ChainInv

LEMMA WriteFailsStep ==
  ASSUME ChainInv, WriteFails
  PROVE  ChainInv'
<1>1. /\ task.stage \in {"verified", "stateWritten"} /\ failures' = failures + 1
      /\ \/ task.origin = "quorum" /\ task' = Doing("kept", task.origin, task.header, task.changes)
         \/ task.origin = "sync" /\ task' = Idle
         \/ task.origin = "genesis" /\ task' = Down
      /\ UNCHANGED <<finalized, state, blocks, head>>
  BY DEF WriteFails, disk, Stage, At
<1>2. Pending(finalized, blocks, head, task) /\ failures' \in Nat /\ failures' # 0
  BY <1>1, Stages DEF ChainInv, TaskIs
<1>3. TaskIs(finalized, state, blocks, head, task', failures')
  <2>1. CASE task.origin = "quorum" /\ task' = Doing("kept", task.origin, task.header, task.changes)
    <3>1. /\ task'.stage = "kept" /\ task'.origin = task.origin /\ task'.header = task.header
          /\ task'.changes = task.changes
      BY <2>1, Stages
    <3>2. Pending(finalized, blocks, head, task') /\ Len(blocks) >= 1
      BY <1>2, <2>1, <3>1 DEF Pending
    <3> QED BY <3>1, <3>2 DEF TaskIs
  <2>2. CASE task.origin = "sync" /\ task' = Idle
    BY <1>2, <2>2 DEF TaskIs, Pending
  <2>3. CASE task.origin = "genesis" /\ task' = Down
    BY <1>2, <2>3 DEF TaskIs, Pending
  <2> QED BY <1>1, <2>1, <2>2, <2>3
<1> QED BY <1>1, <1>2, <1>3, TaskStep

LEMMA RetryStep ==
  ASSUME ChainInv, Retry
  PROVE  ChainInv'
<1>1. /\ task.stage = "kept"
      /\ task' = Doing("verified", task.origin, task.header, task.changes)
      /\ UNCHANGED <<finalized, state, blocks, head, failures>>
  BY DEF Retry, disk, Stage, At
<1>2. Pending(finalized, blocks, head, task)
  BY <1>1, Stages DEF ChainInv, TaskIs
<1>3. /\ task'.stage = "verified" /\ task'.origin = task.origin /\ task'.header = task.header
      /\ task'.changes = task.changes
  BY <1>1, Stages
<1>4. TaskIs(finalized, state, blocks, head', task', failures')
  BY <1>1, <1>2, <1>3 DEF TaskIs, Pending
<1> QED BY <1>1, <1>4, TaskStep DEF ChainInv

LEMMA CrashStep ==
  ASSUME ChainInv, Crash
  PROVE  ChainInv'
<1>1. head' = NoHeader /\ task' = Down /\ UNCHANGED <<finalized, state, blocks, failures>>
  BY DEF Crash, disk
<1>2. TaskIs(finalized, state, blocks, head', task', failures')
  BY <1>1 DEF TaskIs
<1> QED BY <1>1, <1>2, TaskStep DEF ChainInv

LEMMA ChainStart == Init => ChainInv
<1> SUFFICES ASSUME Init PROVE ChainInv
  OBVIOUS
<1> DEFINE b == [header |-> GenesisHeader(EmptyState), state |-> GenesisState]
<1>1. /\ finalized = <<b>> /\ state = EmptyState /\ blocks = <<>> /\ head = NoHeader
      /\ task = Down /\ failures = 0
  BY DEF Init
<1>2. b.header = GenesisHeader(EmptyState) /\ b.state = GenesisState /\ b.header.height = 0
  BY DEF GenesisHeader
<1> HIDE DEF b
<1>3. IsSeq(blocks) /\ Len(blocks) = 0
  BY <1>1 DEF IsSeq
<1>4. IsSeq(finalized) /\ Len(finalized) = 1 /\ finalized[1] = b
  <2>1. finalized = Append(blocks, b)
    BY <1>1
  <2>2. /\ IsSeq(Append(blocks, b)) /\ Len(Append(blocks, b)) = Len(blocks) + 1
        /\ Append(blocks, b)[Len(blocks) + 1] = b
    BY ONLY <1>3, AppendIs
  <2> QED BY <1>3, <2>1, <2>2
<1>5. FinalsAre(finalized)
  BY <1>2, <1>4, GenesisTypes DEF FinalsAre
<1>6. BlocksAre(finalized, blocks) /\ Near(finalized, state, blocks)
  BY <1>1, <1>3, <1>4 DEF BlocksAre, Near
<1>7. TaskIs(finalized, state, blocks, head, task, failures)
  BY <1>1 DEF TaskIs
<1> QED BY <1>1, <1>5, <1>6, <1>7 DEF ChainInv

LEMMA ChainStep == ChainInv /\ [StorageNext]_storageVars => ChainInv'
<1> SUFFICES ASSUME ChainInv, [StorageNext]_storageVars PROVE ChainInv'
  OBVIOUS
<1>1. CASE UNCHANGED vars
  BY <1>1 DEF vars, disk, ChainInv
<1>2. CASE Next
  BY <1>2, FinalizeStep, DraftBlockStep, VerifyBlockStep, OpenFreshStep, OpenStep,
     CommitStateStep, CommitBlockStep, SetHeadStep, WriteFailsStep, RetryStep, CrashStep DEF Next
<1> QED
  BY <1>1, <1>2 DEF StorageNext, storageVars

\* A node's history: what the invariant says of the three readings of "whole".
LEMMA HistoryHolds == ChainInv => RunsOnItsHistory
<1> SUFFICES ASSUME ChainInv PROVE RunsOnItsHistory
  OBVIOUS
<1> DEFINE l == Len(blocks)
           n == Len(finalized)
<1>1. /\ BlocksAre(finalized, blocks) /\ FinalsAre(finalized) /\ Near(finalized, state, blocks)
      /\ TaskIs(finalized, state, blocks, head, task, failures)
      /\ IsSeq(blocks) /\ l \in Nat /\ n \in Nat /\ l <= n
  BY DEF ChainInv, BlocksAre, FinalsAre, IsSeq
<1>2. l >= 1 => Last(blocks) = blocks[l] /\ blocks[l].height = l - 1
  <2>1. l >= 1 => l \in 1 .. l
    BY <1>1
  <2> QED BY <1>1, <2>1 DEF BlocksAre, Last
<1>3. blocks # <<>> => l >= 1
  <2>1. blocks \in Seq({blocks[i] : i \in DOMAIN blocks})
    BY <1>1 DEF IsSeq
  <2> QED BY <1>1, <2>1
<1>4. l >= 1 => /\ (l - 1) + 1 = l
                /\ l - 1 \in ((l - 1) .. ((l - 1) + 1)) \cap (0 .. n - 1)
                /\ l + 1 <= n => l \in ((l - 1) .. ((l - 1) + 1)) \cap (0 .. n - 1)
  <2> HIDE DEF l, n
  <2> QED BY <1>1
<1> HIDE DEF l, n
<1>5. RunsWhole
  <2> SUFFICES ASSUME task.stage = "idle", failures = 0
               PROVE  head = Last(blocks) /\ state = StateAt(head.height)
    BY DEF RunsWhole, Stage
  <2>1. l >= 1 /\ head = blocks[l] /\ state = finalized[l].state
    BY <1>1, Stages DEF TaskIs, l
  <2> QED BY <1>2, <1>4, <2>1 DEF StateAt
<1>6. OneBlockApart
  <2> SUFFICES ASSUME blocks # <<>>
               PROVE  state \in {StateAt(h) : h \in Last(blocks).height .. Last(blocks).height + 1
                                                    \cap 0 .. n - 1}
    BY DEF OneBlockApart, n
  <2>1. l >= 1 /\ Last(blocks).height = l - 1
    BY <1>2, <1>3
  <2>2. state = StateAt(l - 1) \/ (l + 1 <= n /\ state = StateAt(l))
    BY <1>1, <1>4, <2>1 DEF Near, StateAt, l, n
  <2> QED BY <1>4, <2>1, <2>2
<1>7. OpensOnlyWhole
  <2> SUFFICES ASSUME Opens PROVE state = StateAt(Last(blocks).height)
    BY DEF OpensOnlyWhole
  <2>1. l >= 1 /\ state = finalized[l].state
    BY OpensWhole DEF l
  <2> QED BY <1>2, <1>4, <2>1 DEF StateAt
<1> QED BY <1>5, <1>6, <1>7 DEF RunsOnItsHistory

\* Crashes and refused writes, in any number, leave a node on the history of the
\* validators, or it does not start.
THEOREM HistoryIsKept == StorageSpec => []RunsOnItsHistory
<1>1. StorageInit => ChainInv
  BY ChainStart DEF StorageInit
<1> QED BY <1>1, ChainStep, HistoryHolds, PTL DEF StorageSpec

\* The head a node has told others of is on disk.
THEOREM HeadSurvives == StorageSpec => []HeadIsStored
<1>1. StorageInit => ChainInv
  BY ChainStart DEF StorageInit
<1>2. ChainInv => HeadIsStored
  <2> SUFFICES ASSUME ChainInv, head # NoHeader PROVE Contains(blocks, head)
    BY DEF HeadIsStored
  <2> DEFINE l == Len(blocks)
  <2>1. /\ IsSeq(blocks) /\ l \in Nat /\ DOMAIN blocks = 1 .. l
        /\ TaskIs(finalized, state, blocks, head, task, failures)
    BY DEF ChainInv, BlocksAre, IsSeq
  <2>2. l >= 1 /\ (head = blocks[l] \/ (l # 1 /\ head = blocks[l - 1]))
    BY <2>1 DEF TaskIs, Pending
  <2>3. l \in 1 .. l /\ (l # 1 => l - 1 \in 1 .. l)
    <3> HIDE DEF l
    <3> QED BY <2>1, <2>2
  <2>4. \E i \in 1 .. l : blocks[i] = head
    BY <2>2, <2>3
  <2> QED BY <2>1, <2>4 DEF Contains
<1> QED BY <1>1, <1>2, ChainStep, PTL DEF StorageSpec

-----------------------------------------------------------------------------
(* The genesis: a block 0 that is not the validators' was built over what an  *)
(* attempt that was cut off left in the state store, and nothing follows it.  *)

Block0IsShared == blocks[1] = finalized[1].header

\* The first start that nothing has disturbed.
FirstStart ==
  \/ task = Down /\ state = EmptyState
  \/ task.stage = "verified" /\ state = EmptyState /\ task.header = GenesisHeader(EmptyState)
  \/ task.stage = "stateWritten" /\ task.header = GenesisHeader(EmptyState)

GenesisInv ==
  /\ crashes \in Nat
  /\ (crashes = 0 /\ failures = 0) =>
       IF Len(blocks) = 0 THEN FirstStart ELSE Block0IsShared
  /\ Len(blocks) >= 2 => Block0IsShared
  /\ (task.stage \in {"verified", "kept", "stateWritten"} /\ Len(blocks) >= 1) => Block0IsShared

LEMMA BlocksLength ==
  ASSUME ChainInv
  PROVE  /\ Len(blocks) \in Nat /\ (blocks = <<>> <=> Len(blocks) = 0)
         /\ Len(finalized) \in Nat /\ Len(finalized) >= 1 /\ Len(blocks) <= Len(finalized)
<1>1. /\ blocks \in Seq({blocks[i] : i \in DOMAIN blocks}) /\ Len(blocks) \in Nat
      /\ Len(finalized) \in Nat /\ Len(finalized) >= 1 /\ Len(blocks) <= Len(finalized)
  BY DEF ChainInv, BlocksAre, FinalsAre, IsSeq
<1> QED BY <1>1

LEMMA AtLeastTwo == \A k \in Nat : k >= 1 /\ k # 1 => k >= 2
OBVIOUS

\* Where a block is in hand after the genesis, block 0 is the validators': the
\* block names the node's head.
LEMMA NextNamesHead ==
  ASSUME ChainInv, GenesisInv, Len(blocks) >= 1, head = blocks[Len(blocks)],
         Len(blocks) + 1 <= Len(finalized), finalized[Len(blocks) + 1].header.prev = head
  PROVE  Block0IsShared
<1> DEFINE l == Len(blocks)
<1>1. l \in Nat /\ l >= 1 /\ Len(finalized) \in Nat /\ l + 1 <= Len(finalized)
  BY BlocksLength
<1>2. CASE l = 1
  <2>1. 1 \in 1 .. Len(finalized) - 1
    BY <1>1, <1>2
  <2>2. PICK p \in Payload : finalized[1 + 1].header = Draft(finalized[1].header, finalized[1].state, p)
    BY <2>1 DEF ChainInv, FinalsAre
  <2>3. finalized[1 + 1].header.prev = finalized[1].header
    BY <2>2, DraftIs
  <2> QED BY <1>2, <2>3 DEF Block0IsShared
<1>3. CASE l # 1
  <2>1. Len(blocks) >= 2
    BY <1>1, <1>3, AtLeastTwo, Zenon
  <2> QED BY <2>1, Zenon DEF GenesisInv
<1> QED BY <1>2, <1>3

\* The step only adds to the validators' chain, or leaves it alone.
LEMMA FirstStays ==
  ASSUME ChainInv, [Next]_vars
  PROVE  finalized'[1] = finalized[1]
<1>1. IsSeq(finalized) /\ Len(finalized) >= 1
  BY DEF ChainInv, FinalsAre
<1>2. \A b : Append(finalized, b)[1] = finalized[1]
  <2>1. 1 \in 1 .. Len(finalized)
    BY <1>1 DEF IsSeq
  <2> QED BY <1>1, <2>1, AppendIs
<1>3. finalized' = finalized \/ \E p \in Payload : finalized' = Append(finalized, FinalizedBlock(p))
  BY DEF Next, vars, disk, Finalize, DraftBlock, VerifyBlock, OpenFresh, Open, CommitState,
     CommitBlock, SetHead, WriteFails, Retry, Crash
<1>4. ASSUME NEW p \in Payload, finalized' = Append(finalized, FinalizedBlock(p))
      PROVE  finalized'[1] = finalized[1]
  BY <1>2, <1>4, Zenon
<1> QED BY <1>3, <1>4, Zenon

LEMMA GenesisStep ==
  ASSUME ChainInv, GenesisInv, ChainInv', Next
  PROVE  GenesisInv'
<1> DEFINE l == Len(blocks)
<1>0. /\ crashes \in Nat /\ failures \in Nat
      /\ TaskIs(finalized, state, blocks, head, task, failures)
      /\ l \in Nat /\ (blocks = <<>> <=> l = 0) /\ Len(finalized) \in Nat /\ l <= Len(finalized)
      /\ finalized'[1] = finalized[1]
  BY BlocksLength, FirstStays DEF ChainInv, GenesisInv
<1>1. ASSUME NEW p \in Payload, Finalize(p) PROVE GenesisInv'
  <2>1. UNCHANGED <<state, blocks, head, task, crashes, failures>>
    BY <1>1 DEF Finalize, disk
  <2> QED BY <1>0, <2>1 DEF GenesisInv, Block0IsShared, FirstStart
<1>2. ASSUME NEW p \in Payload, DraftBlock(p) PROVE GenesisInv'
  <2>1. /\ task.stage = "idle" /\ Draft(head, state, p) = FinalizedBlock(p).header
        /\ task'.stage = "verified" /\ UNCHANGED <<state, blocks, head, crashes, failures>>
    BY <1>2, Stages DEF DraftBlock, disk, Stage
  <2>2. l >= 1 /\ head = blocks[l] /\ head.height = l - 1
    <3>1. l >= 1 /\ head = blocks[l]
      BY <1>0, <2>1, Stages DEF TaskIs
    <3>2. l \in 1 .. l
      BY <1>0, <3>1
    <3> QED BY <3>1, <3>2 DEF ChainInv, BlocksAre
  <2>3. Tip = finalized[Len(finalized)] /\ Tip.header.height = Len(finalized) - 1 /\ head = Tip.header
    <3>1. Len(finalized) \in 1 .. Len(finalized)
      BY BlocksLength
    <3>2. FinalizedBlock(p).header = Draft(Tip.header, Tip.state, p)
      BY DEF FinalizedBlock
    <3>3. Draft(head, state, p).prev = head /\ Draft(Tip.header, Tip.state, p).prev = Tip.header
      BY DraftIs
    <3> QED BY <2>1, <3>1, <3>2, <3>3 DEF ChainInv, FinalsAre, Tip, Last
  <2>4. l = Len(finalized)
    <3>1. l - 1 = Len(finalized) - 1
      BY <2>2, <2>3
    <3> QED BY <1>0, <3>1
  <2>5. Block0IsShared
    <3>1. CASE l = 1
      BY <2>2, <2>3, <2>4, <3>1 DEF Block0IsShared
    <3>2. CASE l # 1
      <4>1. Len(blocks) >= 2
        BY <1>0, <2>2, <3>2, AtLeastTwo, Zenon
      <4> QED BY <4>1, Zenon DEF GenesisInv
    <3> QED BY <3>1, <3>2
  <2> QED BY <1>0, <2>1, <2>2, <2>5 DEF GenesisInv, Block0IsShared
<1>3. ASSUME NEW origin \in {"quorum", "sync"}, NEW i \in DOMAIN finalized,
             finalized[i].header.height > 0, VerifyBlock(origin, finalized[i])
      PROVE  GenesisInv'
  <2>1. /\ task.stage \in {"idle", "kept"} /\ finalized[i].header.prev = head
        /\ finalized[i].header.height = head.height + 1 /\ task'.stage = "verified"
        /\ UNCHANGED <<finalized, state, blocks, head, crashes, failures>>
    BY <1>3, Stages DEF VerifyBlock, MayVerify, Verifies, disk, Stage
  <2>2. l >= 1 /\ head = blocks[l] /\ head.height = l - 1
    <3>1. l >= 1 /\ head = blocks[l]
      BY <1>0, <2>1, Stages DEF TaskIs, Pending
    <3>2. l \in 1 .. l
      BY <1>0, <3>1
    <3> QED BY <3>1, <3>2 DEF ChainInv, BlocksAre
  <2>3. i \in 1 .. Len(finalized) /\ finalized[i].header.height = i - 1
    BY DEF ChainInv, FinalsAre, IsSeq
  <2>4. i = l + 1
    <3>1. i - 1 = (l - 1) + 1
      BY <2>1, <2>2, <2>3
    <3> QED BY <1>0, <2>3, <3>1
  <2>5. Block0IsShared
    <3>1. l + 1 <= Len(finalized)
      BY <2>3, <2>4
    <3> QED BY <2>1, <2>2, <2>4, <3>1, NextNamesHead
  <2> QED BY <1>0, <2>1, <2>2, <2>5 DEF GenesisInv, Block0IsShared
<1>4. CASE OpenFresh
  <2>1. /\ task = Down /\ l = 0 /\ task'.stage = "verified" /\ task'.header = GenesisHeader(state)
        /\ UNCHANGED <<finalized, state, blocks, crashes, failures>>
    BY <1>0, <1>4, Stages DEF OpenFresh, disk
  <2>2. crashes = 0 /\ failures = 0 => state = EmptyState
    BY <2>1, Stages DEF GenesisInv, FirstStart
  <2> QED BY <1>0, <2>1, <2>2 DEF GenesisInv, FirstStart
<1>5. CASE Open
  <2>1. l # 0 /\ task' = Idle /\ UNCHANGED <<finalized, blocks, crashes, failures>>
    BY <1>0, <1>5 DEF Open, Opens, disk
  <2> QED BY <1>0, <2>1, Stages DEF GenesisInv, Block0IsShared
<1>6. CASE CommitState
  <2>1. /\ task.stage = "verified" /\ task'.stage = "stateWritten" /\ task'.header = task.header
        /\ UNCHANGED <<finalized, blocks, crashes, failures>>
    BY <1>6, Stages DEF CommitState, At, Stage
  <2>2. crashes = 0 /\ failures = 0 /\ l = 0 => task.header = GenesisHeader(EmptyState)
    BY <2>1, Stages DEF GenesisInv, FirstStart
  <2> QED BY <1>0, <2>1, <2>2 DEF GenesisInv, Block0IsShared, FirstStart
<1>7. CASE CommitBlock
  <2>1. /\ task.stage = "stateWritten" /\ task'.stage = "blockWritten"
        /\ blocks' = Append(blocks, task.header) /\ UNCHANGED <<finalized, crashes, failures>>
    BY <1>7, Stages DEF CommitBlock, At, Stage
  <2>2. /\ Len(blocks') = l + 1 /\ blocks'[l + 1] = task.header
        /\ \A i \in 1 .. l : blocks'[i] = blocks[i]
    BY <2>1, AppendIs DEF ChainInv, BlocksAre
  <2>3. CASE l = 0
    <3>1. crashes = 0 /\ failures = 0 => task.header = GenesisHeader(EmptyState)
      BY <2>1, <2>3, Stages DEF GenesisInv, FirstStart
    <3>2. finalized'[1].header = GenesisHeader(EmptyState)
      BY <1>0 DEF ChainInv, FinalsAre
    <3>3. Len(blocks') = 1 /\ blocks'[1] = task.header
      BY <2>2, <2>3
    <3> QED BY <1>0, <2>1, <3>1, <3>2, <3>3 DEF GenesisInv, Block0IsShared
  <2>4. CASE l # 0
    <3>1. 1 \in 1 .. l /\ l >= 1 /\ l + 1 # 0
      BY <1>0, <2>4
    <3>2. Block0IsShared'
      BY <1>0, <2>1, <2>2, <3>1 DEF GenesisInv, Block0IsShared
    <3> QED BY <1>0, <2>1, <2>2, <3>1, <3>2 DEF GenesisInv
  <2> QED BY <2>3, <2>4
<1>8. CASE SetHead
  <2>1. task.stage = "blockWritten" /\ task' = Idle /\ UNCHANGED <<finalized, blocks, crashes, failures>>
    BY <1>8 DEF SetHead, disk, Stage
  <2>2. l >= 1
    BY <1>0, <2>1, Stages DEF TaskIs
  <2> QED BY <1>0, <2>1, <2>2, Stages DEF GenesisInv, Block0IsShared
<1>9. CASE WriteFails
  <2>1. /\ task.stage \in {"verified", "stateWritten"} /\ failures' = failures + 1
        /\ UNCHANGED <<finalized, blocks, crashes>>
    BY <1>9 DEF WriteFails, disk, Stage
  <2>2. failures' # 0
    BY <1>0, <2>1
  <2> QED BY <1>0, <2>1, <2>2 DEF GenesisInv, Block0IsShared
<1>10. CASE Retry
  <2>1. /\ task.stage = "kept" /\ task'.stage = "verified"
        /\ UNCHANGED <<finalized, blocks, crashes, failures>>
    BY <1>10, Stages DEF Retry, disk, Stage, At
  <2>2. l >= 1
    BY <1>0, <2>1, Stages DEF TaskIs
  <2> QED BY <1>0, <2>1, <2>2 DEF GenesisInv, Block0IsShared
<1>11. CASE Crash
  <2>1. task' = Down /\ crashes' = crashes + 1 /\ UNCHANGED <<finalized, blocks>>
    BY <1>11 DEF Crash, disk
  <2>2. crashes' # 0 /\ crashes' \in Nat
    BY <1>0, <2>1
  <2> QED BY <1>0, <2>1, <2>2, Stages DEF GenesisInv, Block0IsShared
<1> QED BY <1>1, <1>2, <1>3, <1>4, <1>5, <1>6, <1>7, <1>8, <1>9, <1>10, <1>11 DEF Next

LEMMA DraftsHold ==
  ASSUME ChainInv, GenesisInv
  PROVE  DraftsAgree
<1> DEFINE l == Len(blocks)
           n == Len(finalized)
<1>1. /\ BlocksAre(finalized, blocks) /\ FinalsAre(finalized) /\ Near(finalized, state, blocks)
      /\ TaskIs(finalized, state, blocks, head, task, failures)
      /\ crashes \in Nat /\ failures \in Nat
      /\ l \in Nat /\ (blocks = <<>> <=> l = 0) /\ n \in Nat /\ l <= n /\ n >= 1
  BY BlocksLength DEF ChainInv, GenesisInv
<1>2. TipDraftsAgree
  <2> SUFFICES ASSUME task.stage = "idle", SharesGenesis, head.height = Tip.header.height,
                      NEW p \in Payload, MayFinalize(p)
               PROVE  Includable(state, p) /\ Draft(head, state, p) = FinalizedBlock(p).header
    BY DEF TipDraftsAgree, Stage
  <2>1. l >= 1 /\ head = blocks[l]
    BY <1>1, Stages DEF TaskIs
  <2>2. head.height = l - 1 /\ finalized[n].header.height = n - 1 /\ Tip = finalized[n]
    <3>1. l \in 1 .. l /\ n \in 1 .. n
      BY <1>1, <2>1
    <3> QED BY <1>1, <2>1, <3>1 DEF BlocksAre, FinalsAre, Tip, Last
  <2> HIDE DEF l, n
  <2>3. l = n /\ l # 0 /\ ~(l + 1 <= n)
    <3>1. l - 1 = n - 1
      BY <2>2
    <3> QED BY <1>1, <2>1, <3>1
  <2>4. head = finalized[n].header
    <3>1. CASE l = 1
      BY <2>1, <2>3, <3>1 DEF SharesGenesis
    <3>2. CASE l # 1
      <4>1. l \in 2 .. l
        BY <1>1, <2>1, <3>2
      <4> QED BY <1>1, <2>1, <2>3, <4>1 DEF BlocksAre, l
    <3> QED BY <3>1, <3>2
  <2>5. state = finalized[n].state
    BY <1>1, <2>3 DEF Near, l, n
  <2>6. head = Tip.header /\ state = Tip.state
    BY <2>2, <2>4, <2>5
  <2> QED BY <2>6 DEF MayFinalize, FinalizedBlock
<1>3. AloneOnlyAtGenesis
  <2> SUFFICES ASSUME blocks # <<>>, ~SharesGenesis
               PROVE  crashes + failures > 0 /\ l = 1 /\ ~Opens
    BY DEF AloneOnlyAtGenesis
  <2>1. ~Block0IsShared /\ l # 0
    BY <1>1 DEF SharesGenesis, Block0IsShared
  <2>2. ~(crashes = 0 /\ failures = 0) /\ ~(l >= 2)
    BY <2>1 DEF GenesisInv
  <2> HIDE DEF l, n
  <2>3. crashes + failures > 0 /\ l = 1
    BY <1>1, <2>1, <2>2
  <2>4. blocks[1] # GenesisHeader(EmptyState) /\ Last(blocks) = blocks[1] /\ blocks[1].height = 0
    <3>1. 1 \in 1 .. Len(blocks)
      BY <2>3 DEF l
    <3> QED BY <1>1, <2>1, <2>3, <3>1 DEF FinalsAre, BlocksAre, Block0IsShared, Last, l
  <2> QED BY <2>3, <2>4 DEF Opens
<1> QED BY <1>2, <1>3 DEF DraftsAgree

\* The root a validator signs before it has written anything is the root of what
\* it will have written.  Validators on one genesis that stand at the tip make
\* the same block of the same transactions, whatever crashed or failed before;
\* one on another genesis was cut off in its first start, and stays at block 0.
THEOREM RootsAlwaysAgree == StorageSpec => []RootsAgree
<1> DEFINE Inv == OverlayTypes /\ ChainInv /\ GenesisInv
<1>1. StorageInit => Inv
  <2>1. Init => GenesisInv
    <3> SUFFICES ASSUME Init PROVE GenesisInv
      OBVIOUS
    <3>1. state = EmptyState /\ Len(blocks) = 0 /\ task = Down /\ crashes = 0
      BY DEF Init
    <3> QED BY <3>1, Stages DEF GenesisInv, FirstStart
  <2> QED BY <2>1, OverlaysStart, ChainStart DEF StorageInit
<1>2. Inv /\ [StorageNext]_storageVars => Inv'
  <2> SUFFICES ASSUME OverlayTypes, ChainInv, GenesisInv, [StorageNext]_storageVars
               PROVE  OverlayTypes' /\ ChainInv' /\ GenesisInv'
    OBVIOUS
  <2>1. ChainInv'
    BY ChainStep
  <2>2. OverlayTypes'
    <3>1. CASE Overlays!Next
      BY <3>1, OverlayStep
    <3>2. CASE UNCHANGED overlayVars
      BY <3>2 DEF overlayVars, OverlayTypes
    <3> QED BY <3>1, <3>2 DEF StorageNext, storageVars
  <2>3. GenesisInv'
    <3>1. CASE Next
      BY <2>1, <3>1, GenesisStep
    <3>2. CASE UNCHANGED vars
      BY <3>2 DEF vars, disk, GenesisInv, FirstStart, Block0IsShared
    <3> QED BY <3>1, <3>2 DEF StorageNext, storageVars
  <2> QED BY <2>1, <2>2, <2>3
<1>3. Inv => RootsAgree
  BY RootsOfResults, DraftsHold DEF RootsAgree
<1> QED BY <1>1, <1>2, <1>3, PTL DEF StorageSpec
=============================================================================
