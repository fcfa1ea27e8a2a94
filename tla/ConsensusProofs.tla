--------------------------- MODULE ConsensusProofs ---------------------------
(***************************************************************************)
(* Proofs about Consensus, for any validator set, any set of faulty        *)
(* validators and any bounds: type correctness, the safety of the          *)
(* one-vote-per-height rule, that no handler leaves a node stranded, and   *)
(* that the engine implements Finality.                                    *)
(***************************************************************************)
EXTENDS Consensus, FiniteSetTheorems, SequenceTheorems, WellFoundedInduction, TLAPS

-----------------------------------------------------------------------------
(* Sequences.                                                              *)

LEMMA SequenceOverItself ==
  ASSUME NEW S, NEW t \in Seq(S)
  PROVE  IsSequence(t)
<1>1. t \in [1 .. Len(t) -> S] /\ Len(t) \in Nat
  BY LenProperties
<1>2. t \in [1 .. Len(t) -> {t[i] : i \in DOMAIN t}]
  BY <1>1
<1> QED BY <1>1, <1>2, SeqDef DEF IsSequence

\* What Append does to a ledger.
LEMMA AppendExtends ==
  ASSUME NEW s, IsSequence(s), NEW e
  PROVE  LET t == Append(s, e) IN
         /\ IsSequence(t)
         /\ Len(s) \in Nat /\ DOMAIN s = 1 .. Len(s)
         /\ Len(t) = Len(s) + 1 /\ DOMAIN t = 1 .. Len(s) + 1
         /\ \A h \in 1 .. Len(s) : t[h] = s[h]
         /\ t[Len(s) + 1] = e
<1> DEFINE S == {s[i] : i \in DOMAIN s} \cup {e}
           t == Append(s, e)
<1>1. s \in Seq(S)
  BY SeqMonotonic, {s[i] : i \in DOMAIN s} \subseteq S DEF IsSequence
<1>2. /\ t \in Seq(S) /\ Len(t) = Len(s) + 1
      /\ \A h \in 1 .. Len(s) : t[h] = s[h]
      /\ t[Len(s) + 1] = e
  BY <1>1, AppendProperties, e \in S
<1>3. Len(s) \in Nat /\ DOMAIN s = 1 .. Len(s) /\ DOMAIN t = 1 .. Len(t)
  BY <1>1, <1>2, LenProperties
<1>4. IsSequence(t)
  BY <1>2, SequenceOverItself
<1> QED BY <1>2, <1>3, <1>4

\* What taking over the first k items of an answer does to a ledger.
LEMMA ConcatExtends ==
  ASSUME NEW s, IsSequence(s), NEW items, IsSequence(items), NEW k \in 0 .. Len(items)
  PROVE  LET t == s \o SubSeq(items, 1, k) IN
         /\ IsSequence(t)
         /\ Len(s) \in Nat /\ DOMAIN s = 1 .. Len(s)
         /\ Len(t) = Len(s) + k /\ DOMAIN t = 1 .. Len(s) + k
         /\ \A h \in 1 .. Len(s) + k :
              t[h] = IF h <= Len(s) THEN s[h] ELSE items[h - Len(s)]
<1> DEFINE S == {s[i] : i \in DOMAIN s} \cup {items[i] : i \in DOMAIN items}
           u == SubSeq(items, 1, k)
           t == s \o u
<1>1. s \in Seq(S) /\ items \in Seq(S)
  BY SeqMonotonic, {s[i] : i \in DOMAIN s} \subseteq S,
     {items[i] : i \in DOMAIN items} \subseteq S DEF IsSequence
<1>2. /\ Len(s) \in Nat /\ DOMAIN s = 1 .. Len(s)
      /\ Len(items) \in Nat /\ DOMAIN items = 1 .. Len(items)
  BY <1>1, LenProperties
<1>3. \A i \in 1 .. k : items[i] \in S
  BY <1>2
<1>4. u \in Seq(S) /\ Len(u) = k /\ \A i \in 1 .. k : u[i] = items[i]
  <2>1. /\ u \in Seq(S) /\ Len(u) = (IF 1 <= k THEN k - 1 + 1 ELSE 0)
        /\ \A i \in 1 .. k - 1 + 1 : u[i] = items[1 + i - 1]
    BY <1>2, <1>3, SubSeqProperties
  <2> QED BY <2>1, <1>2
<1>5. /\ t \in Seq(S) /\ Len(t) = Len(s) + k
      /\ \A i \in 1 .. Len(s) + k : t[i] = IF i <= Len(s) THEN s[i] ELSE u[i - Len(s)]
  BY <1>1, <1>4, ConcatProperties
<1>6. DOMAIN t = 1 .. Len(t)
  BY <1>5, LenProperties
<1>7. IsSequence(t)
  BY <1>5, SequenceOverItself
<1>8. \A h \in 1 .. Len(s) + k :
        t[h] = IF h <= Len(s) THEN s[h] ELSE items[h - Len(s)]
  BY <1>2, <1>4, <1>5
<1> QED BY <1>2, <1>5, <1>6, <1>7, <1>8

\* A peer answers with a sequence.
LEMMA AnswerIsSequence ==
  ASSUME NEW s, IsSequence(s), NEW from \in Nat \ {0}, NEW to \in 0 .. Len(s)
  PROVE  /\ IsSequence(SubSeq(s, from, to))
         /\ Len(SubSeq(s, from, to)) = IF from <= to THEN to - from + 1 ELSE 0
         /\ \A i \in 1 .. Len(SubSeq(s, from, to)) :
              /\ from + i - 1 \in DOMAIN s
              /\ SubSeq(s, from, to)[i] = s[from + i - 1]
<1> DEFINE S == {s[i] : i \in DOMAIN s}
<1>1. s \in Seq(S) /\ Len(s) \in Nat /\ DOMAIN s = 1 .. Len(s)
  BY LenProperties DEF IsSequence
<1>2. /\ SubSeq(s, from, to) \in Seq(S)
      /\ Len(SubSeq(s, from, to)) = (IF from <= to THEN to - from + 1 ELSE 0)
      /\ \A i \in 1 .. to - from + 1 : SubSeq(s, from, to)[i] = s[from + i - 1]
  BY <1>1, SubSeqProperties
<1>3. IsSequence(SubSeq(s, from, to))
  BY <1>2, SequenceOverItself
<1>4. CASE from <= to
  <2>1. Len(SubSeq(s, from, to)) = to - from + 1
    BY <1>2, <1>4
  <2>2. \A i \in 1 .. to - from + 1 : from + i - 1 \in 1 .. Len(s)
    BY <1>1, <1>4
  <2> QED BY <1>1, <1>2, <1>3, <2>1, <2>2
<1>5. CASE ~(from <= to)
  <2>1. 1 .. Len(SubSeq(s, from, to)) = {}
    BY <1>2, <1>5
  <2> QED BY <1>3, <2>1
<1> QED BY <1>4, <1>5

-----------------------------------------------------------------------------
(* Quorums.                                                                *)

\* A quorum is more than two thirds: two of them share more than a third.
LEMMA QuorumArithmetic ==
  /\ N \in Nat \ {0} /\ Quorum \in Nat \ {0}
  /\ 3 * (2 * Quorum - N) > N
<1>1. N \in Nat
  BY ConstantsAssumption, FS_CardinalityType DEF N
<1>2. N # 0
  BY ConstantsAssumption, FS_EmptySet DEF N
<1> QED BY <1>1, <1>2 DEF Quorum

\* Any two quorums share a validator outside any set of less than a third.
LEMMA QuorumsMeet ==
  ASSUME NEW A \in SUBSET Validator, Cardinality(A) >= Quorum,
         NEW B \in SUBSET Validator, Cardinality(B) >= Quorum,
         NEW U, 3 * Cardinality(U) < N, U \in SUBSET Validator
  PROVE  \E v \in A \cap B : v \notin U
<1>1. /\ IsFiniteSet(A) /\ IsFiniteSet(B) /\ IsFiniteSet(U)
      /\ IsFiniteSet(A \cup B) /\ IsFiniteSet(A \cap B)
      /\ Cardinality(A \cup B) <= N
  BY ConstantsAssumption, FS_Subset DEF N
<1>2. /\ Cardinality(A) \in Nat /\ Cardinality(B) \in Nat /\ Cardinality(U) \in Nat
      /\ Cardinality(A \cup B) \in Nat /\ Cardinality(A \cap B) \in Nat
  BY <1>1, FS_CardinalityType
<1>3. Cardinality(A \cup B) = Cardinality(A) + Cardinality(B) - Cardinality(A \cap B)
  BY <1>1, FS_Union
<1>4. 3 * Cardinality(A \cap B) > N
  BY <1>1, <1>2, <1>3, QuorumArithmetic
<1>5. SUFFICES ASSUME A \cap B \subseteq U PROVE FALSE
  OBVIOUS
<1>6. Cardinality(A \cap B) <= Cardinality(U)
  BY <1>1, <1>5, FS_Subset
<1> QED BY <1>2, <1>4, <1>6, QuorumArithmetic

-----------------------------------------------------------------------------
(* Types.                                                                  *)

\* The types of one node's part of the state.
NodeTypeOK(n) ==
  /\ IsSequence(store[n])
  /\ \A b \in proposals[n] \cup myVote[n] : IsBlock(b)
  /\ \A w \in votes[n] : w.validator \in Validator /\ IsBlock(w.block)

\* Everything in TypeOK that checkQuorum may change.
LedgerTypeOK ==
  /\ round \in [Correct -> Nat]
  /\ DOMAIN store = Correct /\ DOMAIN proposals = Correct
  /\ DOMAIN votes = Correct /\ DOMAIN myVote = Correct
  /\ \A n \in Correct : NodeTypeOK(n)

\* checkQuorum keeps the types, whatever the handler passes to it.
LEMMA CheckQuorumType ==
  ASSUME LedgerTypeOK, NEW n \in Correct, NEW r \in Nat,
         NEW known, \A b \in known : IsBlock(b),
         NEW recorded, \A w \in recorded : w.validator \in Validator /\ IsBlock(w.block),
         NEW lock, \A b \in lock : IsBlock(b),
         CheckQuorum(n, r, known, recorded, lock)
  PROVE  LedgerTypeOK'
<1>1. CASE \E b \in Decidable(known, recorded) :
             /\ store' = [store EXCEPT ![n] =
                            Append(@, [block |-> b, voters |-> VotersFor(recorded, b)])]
             /\ Advance(n)
  <2>1. IsSequence(store'[n])
    BY <1>1, AppendExtends DEF LedgerTypeOK, NodeTypeOK
  <2> QED BY <1>1, <2>1 DEF LedgerTypeOK, NodeTypeOK, Advance
<1>2. CASE /\ round'     = [round EXCEPT ![n] = r]
           /\ proposals' = [proposals EXCEPT ![n] = known]
           /\ votes'     = [votes EXCEPT ![n] = recorded]
           /\ myVote'    = [myVote EXCEPT ![n] = lock]
           /\ UNCHANGED store
  BY <1>2 DEF LedgerTypeOK, NodeTypeOK
<1> QED BY <1>1, <1>2 DEF CheckQuorum

\* The rest of TypeOK.
MeshTypeOK ==
  /\ bestRemoteHeight \in [Correct -> Nat]
  /\ syncInFlight \in [Correct -> BOOLEAN]
  /\ \A m \in proposalMsgs : IsBlock(m.block) /\ m.round \in Nat
  /\ \A w \in voteMsgs : w.validator \in Validator \cap Correct /\ IsBlock(w.block)
  /\ blockReqs \subseteq Correct
  /\ restarts \in 0 .. MaxRestarts

\* Every action keeps the types: one step per action.
LEMMA TypeStep ==
  ASSUME TypeOK, [Next]_vars
  PROVE  TypeOK'
<1> SUFFICES LedgerTypeOK' /\ MeshTypeOK'
  BY DEF TypeOK, LedgerTypeOK, NodeTypeOK, MeshTypeOK
<1> USE DEF MeshTypeOK
<1>0. LedgerTypeOK /\ MeshTypeOK
  BY DEF TypeOK, LedgerTypeOK, NodeTypeOK
<1>1. ASSUME UNCHANGED nodeVars PROVE LedgerTypeOK'
  BY <1>0, <1>1 DEF LedgerTypeOK, NodeTypeOK, nodeVars
<1>2. \A n \in Correct : NextHeight(n) \in Nat \ {0}
  BY <1>0, LenProperties DEF LedgerTypeOK, NodeTypeOK, IsSequence, NextHeight, Height
<1>3. \A n \in Correct : \A late \in BOOLEAN : RoundAfter(n, late) \in Nat
  BY <1>0 DEF RoundAfter, LedgerTypeOK
<1>4. \A height \in Nat, v \in Validator : RoundForProposer(height, v) \in Nat
  BY ConstantsAssumption, QuorumArithmetic DEF RoundForProposer
<1>5. ASSUME NEW n \in Correct, TickSync(n) PROVE LedgerTypeOK' /\ MeshTypeOK'
  BY <1>0, <1>1, <1>5 DEF TickSync, envVars
<1>6. ASSUME NEW n \in Correct, TickRotate(n) PROVE LedgerTypeOK' /\ MeshTypeOK'
  <2>1. RoundAfter(n, TRUE) = round[n] + 1 /\ round[n] + 1 \in Nat
    BY <1>0 DEF RoundAfter, LedgerTypeOK
  <2>2. LedgerTypeOK'
    BY <1>0, <2>1, <1>6 DEF TickRotate, LedgerTypeOK, NodeTypeOK
  <2>3. \A b \in myVote[n] : IsBlock(b)
    BY <1>0 DEF LedgerTypeOK, NodeTypeOK
  <2>4. ASSUME NEW m \in proposalMsgs', m \notin proposalMsgs
        PROVE  IsBlock(m.block) /\ m.round \in Nat
    <3>1. PICK b \in myVote[n] : m = [round |-> round[n] + 1, block |-> b]
      BY <1>6, <2>1, <2>4 DEF TickRotate
    <3> QED BY <2>1, <2>3, <3>1
  <2>5. \A m \in proposalMsgs' : IsBlock(m.block) /\ m.round \in Nat
    BY <1>0, <2>4
  <2> QED BY <1>0, <1>6, <2>2, <2>5 DEF TickRotate, syncVars, envVars
<1>7. ASSUME NEW n \in Correct, NEW late \in BOOLEAN, NEW p \in Payloads,
             TickPropose(n, late, p)
      PROVE  LedgerTypeOK' /\ MeshTypeOK'
  <2> DEFINE b == Draft(n, p)
  <2>1. IsBlock(b) /\ n \in Validator
    BY <1>2, <1>7 DEF Draft, IsBlock, TickPropose, MayVote
  <2>2. \A w \in RecordVote(votes[n], n, b) : w.validator \in Validator /\ IsBlock(w.block)
    BY <1>0, <2>1 DEF RecordVote, LedgerTypeOK, NodeTypeOK
  <2>3. \A x \in proposals[n] \cup {b} : IsBlock(x)
    BY <1>0, <2>1 DEF LedgerTypeOK, NodeTypeOK
  <2>4. CheckQuorum(n, RoundAfter(n, late), proposals[n] \cup {b},
                    RecordVote(votes[n], n, b), {b})
    BY <1>7 DEF TickPropose
  <2>5. LedgerTypeOK'
    BY <1>0, <1>3, <2>1, <2>2, <2>3, <2>4, CheckQuorumType
  <2> QED BY <1>0, <1>3, <1>7, <2>1, <2>5 DEF TickPropose, syncVars, envVars
<1>8. ASSUME NEW n \in Correct, NEW r, NEW b, IsBlock(b), OnProposal(n, r, b)
      PROVE  LedgerTypeOK' /\ MeshTypeOK'
  <2>1. \A x \in proposals[n] \cup {b} : IsBlock(x)
    BY <1>0, <1>8 DEF LedgerTypeOK, NodeTypeOK
  <2>2. round[n] \in Nat
    BY <1>0 DEF LedgerTypeOK
  <2>3. CASE MayVote(n)
    <3>1. n \in Validator
      BY <2>3 DEF MayVote
    <3>2. \A w \in RecordVote(votes[n], n, b) : w.validator \in Validator /\ IsBlock(w.block)
      BY <1>0, <1>8, <3>1 DEF RecordVote, LedgerTypeOK, NodeTypeOK
    <3>3. /\ CheckQuorum(n, round[n], proposals[n] \cup {b}, RecordVote(votes[n], n, b), {b})
          /\ voteMsgs' = voteMsgs \cup {[validator |-> n, block |-> b]}
      BY <1>8, <2>3 DEF OnProposal
    <3>4. LedgerTypeOK'
      BY <1>0, <1>8, <2>1, <2>2, <3>2, <3>3, CheckQuorumType
    <3> QED BY <1>0, <1>8, <3>1, <3>3, <3>4 DEF OnProposal, syncVars, envVars
  <2>4. CASE ~MayVote(n)
    <3>1. /\ CheckQuorum(n, round[n], proposals[n] \cup {b}, votes[n], myVote[n])
          /\ UNCHANGED voteMsgs
      BY <1>8, <2>4 DEF OnProposal
    <3>2. /\ \A w \in votes[n] : w.validator \in Validator /\ IsBlock(w.block)
          /\ \A x \in myVote[n] : IsBlock(x)
      BY <1>0 DEF LedgerTypeOK, NodeTypeOK
    <3>3. LedgerTypeOK'
      BY <1>0, <2>1, <2>2, <3>1, <3>2, CheckQuorumType
    <3> QED BY <1>0, <1>8, <3>1, <3>3 DEF OnProposal, syncVars, envVars
  <2> QED BY <2>3, <2>4
<1>9. ASSUME NEW n \in Correct, NEW v \in Validator, NEW b, IsBlock(b), OnVote(n, v, b)
      PROVE  LedgerTypeOK' /\ MeshTypeOK'
  <2>1. \A w \in RecordVote(votes[n], v, b) : w.validator \in Validator /\ IsBlock(w.block)
    BY <1>0, <1>9 DEF RecordVote, LedgerTypeOK, NodeTypeOK
  <2>2. /\ \A x \in proposals[n] : IsBlock(x)
        /\ \A x \in myVote[n] : IsBlock(x)
        /\ round[n] \in Nat
    BY <1>0 DEF LedgerTypeOK, NodeTypeOK
  <2>3. CheckQuorum(n, round[n], proposals[n], RecordVote(votes[n], v, b), myVote[n])
    BY <1>9 DEF OnVote
  <2>4. LedgerTypeOK'
    BY <1>0, <2>1, <2>2, <2>3, CheckQuorumType
  <2> QED BY <1>0, <1>9, <2>4 DEF OnVote, syncVars, envVars
<1>10. ASSUME NEW n \in Correct, NEW b \in proposals[n], OnProposalRequest(n, b)
       PROVE  LedgerTypeOK' /\ MeshTypeOK'
  <2>1. IsBlock(b)
    BY <1>0 DEF LedgerTypeOK, NodeTypeOK
  <2>2. RoundForProposer(b.height, b.proposer) \in Nat
    BY <1>4, <2>1 DEF IsBlock
  <2> QED BY <1>0, <1>1, <1>10, <2>1, <2>2 DEF OnProposalRequest, syncVars, envVars
<1>11. ASSUME NEW n \in Correct, NEW h \in Nat, LearnHeight(n, h)
       PROVE  LedgerTypeOK' /\ MeshTypeOK'
  BY <1>0, <1>1, <1>11 DEF LearnHeight, envVars
<1>12. ASSUME NEW n \in Correct, NEW items, IsSequence(items), OnBlockResponse(n, items)
       PROVE  LedgerTypeOK' /\ MeshTypeOK'
  <2>1. PICK k \in 0 .. Len(items) :
          /\ IF k > 0
               THEN /\ store' = [store EXCEPT ![n] = @ \o SubSeq(items, 1, k)]
                    /\ Advance(n)
               ELSE UNCHANGED nodeVars
          /\ \/ /\ syncInFlight' = [syncInFlight EXCEPT ![n] = TRUE]
                /\ blockReqs' = blockReqs \cup {n}
             \/ /\ syncInFlight' = [syncInFlight EXCEPT ![n] = FALSE]
                /\ UNCHANGED blockReqs
          /\ UNCHANGED <<bestRemoteHeight, proposalMsgs, voteMsgs, envVars>>
    BY <1>12 DEF OnBlockResponse
  <2>2. CASE k > 0
    <3>1. store' = [store EXCEPT ![n] = store[n] \o SubSeq(items, 1, k)] /\ Advance(n)
      BY <2>1, <2>2
    <3>2. IsSequence(store[n]) /\ DOMAIN store = Correct
      BY <1>0 DEF LedgerTypeOK, NodeTypeOK
    <3>3. IsSequence(store[n] \o SubSeq(items, 1, k))
      BY <1>12, <3>2, ConcatExtends
    <3>4. \A m \in Correct : IsSequence(store'[m])
      BY <1>0, <3>1, <3>2, <3>3 DEF LedgerTypeOK, NodeTypeOK
    <3>5. LedgerTypeOK'
      BY <1>0, <3>1, <3>4 DEF LedgerTypeOK, NodeTypeOK, Advance
    <3> QED BY <1>0, <2>1, <3>5 DEF envVars
  <2>3. CASE ~(k > 0)
    BY <1>0, <1>1, <2>1, <2>3 DEF envVars
  <2> QED BY <2>2, <2>3
<1>13. ASSUME NEW n \in Correct, Restart(n) PROVE LedgerTypeOK' /\ MeshTypeOK'
  BY <1>0, <1>13, ConstantsAssumption
     DEF Restart, Advance, LedgerTypeOK, NodeTypeOK
<1>14. ASSUME NEW n \in Correct, ReceiveProposal(n) PROVE LedgerTypeOK' /\ MeshTypeOK'
  <2>1. \A m \in proposalMsgs : IsBlock(m.block)
    BY <1>0
  <2>2. \A b \in FaultyBlocks(n) : IsBlock(b)
    BY <1>2, ConstantsAssumption DEF FaultyBlocks, IsBlock
  <2> QED BY <1>8, <1>14, <2>1, <2>2 DEF ReceiveProposal
<1>15. ASSUME NEW n \in Correct, ReceiveVote(n) PROVE LedgerTypeOK' /\ MeshTypeOK'
  <2>1. \A w \in voteMsgs : w.validator \in Validator /\ IsBlock(w.block)
    BY <1>0
  <2>2. \A b \in FaultyBlocks(n) \cup SentBlocks : IsBlock(b)
    BY <1>0, <1>2, ConstantsAssumption DEF FaultyBlocks, SentBlocks, IsBlock
  <2> QED BY <1>9, <1>15, <2>1, <2>2, ConstantsAssumption DEF ReceiveVote
<1>16. ASSUME NEW n \in Correct, ReceiveFutureVote(n) PROVE LedgerTypeOK' /\ MeshTypeOK'
  <2>1. PICK w \in voteMsgs : OnFutureVote(n, w.validator, w.block)
    BY <1>16 DEF ReceiveFutureVote
  <2>2. w.block.height \in Nat
    BY <1>0 DEF IsBlock
  <2> QED BY <1>11, <2>1, <2>2 DEF OnFutureVote
<1>17. ASSUME NEW n \in Correct, ReceiveHello(n) PROVE LedgerTypeOK' /\ MeshTypeOK'
  BY <1>11, <1>17, ConstantsAssumption DEF ReceiveHello, OnHello
<1>18. ASSUME NEW n \in Correct, ReceiveBlocks(n) PROVE LedgerTypeOK' /\ MeshTypeOK'
  <2>1. PICK m \in Correct : \E to \in 1 .. Height(m) : OnBlockResponse(n, BlocksAbove(n, m, to))
    BY <1>18 DEF ReceiveBlocks
  <2> PICK to \in 1 .. Height(m) : OnBlockResponse(n, BlocksAbove(n, m, to))
    BY <2>1
  <2>2. IsSequence(BlocksAbove(n, m, to))
    BY <1>0, <1>2, <2>1, AnswerIsSequence
       DEF BlocksAbove, LedgerTypeOK, NodeTypeOK, Height
  <2> QED BY <1>12, <2>1, <2>2
<1>19. ASSUME NEW n \in Correct, ReceiveFaultyBlocks(n) PROVE LedgerTypeOK' /\ MeshTypeOK'
  <2>1. PICK m \in Correct : \E to \in 0 .. Height(m) : \E e :
          OnBlockResponse(n, Append(BlocksAbove(n, m, to), e))
    BY <1>19 DEF ReceiveFaultyBlocks
  <2>2. PICK to \in 0 .. Height(m) : \E e : OnBlockResponse(n, Append(BlocksAbove(n, m, to), e))
    BY <2>1
  <2> PICK e : OnBlockResponse(n, Append(BlocksAbove(n, m, to), e))
    BY <2>2
  <2>3. IsSequence(BlocksAbove(n, m, to))
    BY <1>0, <1>2, AnswerIsSequence DEF BlocksAbove, LedgerTypeOK, NodeTypeOK, Height
  <2>4. IsSequence(Append(BlocksAbove(n, m, to), e))
    BY <2>3, AppendExtends
  <2> QED BY <1>12, <2>2, <2>4
<1>20. CASE UNCHANGED vars
  BY <1>0, <1>1, <1>20 DEF vars, syncVars, netVars, envVars
<1>22. ASSUME NEW n \in Correct, ReceiveFalseHeight(n) PROVE LedgerTypeOK' /\ MeshTypeOK'
  <2>1. PICK h \in NextHeight(n) .. MaxHeight : LearnHeight(n, h)
    BY <1>22 DEF ReceiveFalseHeight
  <2>2. h \in Nat
    BY <1>2, <2>1, ConstantsAssumption
  <2> QED BY <1>11, <2>1, <2>2
<1>21. ASSUME NEW n \in Correct, Tick(n) PROVE LedgerTypeOK' /\ MeshTypeOK'
  BY <1>5, <1>6, <1>7, <1>21 DEF Tick
<1> QED
  BY <1>10, <1>13, <1>14, <1>15, <1>16, <1>17, <1>18, <1>19, <1>20, <1>21,
     <1>22 DEF Next

\* Type correctness of the engine: the serialised handlers never leave a node
\* with ill-typed state, whatever faulty validators send.
THEOREM TypeCorrect == Spec => []TypeOK
<1>1. Init => TypeOK
  <2> SUFFICES ASSUME Init PROVE TypeOK
    OBVIOUS
  <2>1. IsSequence(<<>>)
    BY SequenceOverItself, EmptySeq
  <2> QED BY <2>1, ConstantsAssumption DEF Init, TypeOK
<1>2. TypeOK /\ [Next]_vars => TypeOK'
  BY TypeStep
<1> QED BY <1>1, <1>2, PTL DEF Spec

-----------------------------------------------------------------------------
(* Safety.  A certificate is a quorum of genuine votes; a genuine vote of a  *)
(* correct validator is backed by its lock as long as it is at that height;  *)
(* so it signs one block per height, and two certificates of one height,     *)
(* which share a validator outside any third, are for one block.             *)

\* The voters of a certified block whose signature verifies when these votes
\* have been sent.
Signers(msgs, e) ==
  {v \in e.voters \cap Validator :
     v \in Faulty \/ [validator |-> v, block |-> e.block] \in msgs}

\* What is kept of each node: its memory is about the next height, it has
\* recorded genuine votes, and its ledger holds genuine certificates.
NodeSafe(n) ==
  /\ \A b \in proposals[n] : VerifyBlock(store[n], b)
  /\ \A b \in myVote[n] : b.height = NextHeight(n)
  /\ \A w \in votes[n] : /\ w.block.height = NextHeight(n)
                         /\ SignedVote(w.validator, w.block)
  /\ \A h \in DOMAIN store[n] :
       store[n][h].block.height = h /\ Cardinality(Signers(voteMsgs, store[n][h])) >= Quorum

\* A vote sent for the height a validator is at is the one it is locked on,
\* unless a restart lost the lock; it has sent none for a greater height.
Locked ==
  \A w \in voteMsgs :
    LET v == w.validator IN
    /\ w.block.height <= NextHeight(v)
    /\ w.block.height = NextHeight(v) /\ <<v, w.block.height>> \notin forgot
         => myVote[v] = {w.block}

\* The inductive invariant.
IInv ==
  /\ TypeOK
  /\ \A n \in Correct : NodeSafe(n)
  /\ Locked
  /\ VoteLock

\* Signatures stay valid.
LEMMA SignersGrow ==
  ASSUME NEW old, NEW new, old \subseteq new,
         NEW e, Cardinality(Signers(old, e)) >= Quorum
  PROVE  Cardinality(Signers(new, e)) >= Quorum
<1>1. Signers(old, e) \subseteq Signers(new, e) /\ Signers(new, e) \subseteq Validator
  BY DEF Signers
<1>2. IsFiniteSet(Signers(new, e))
  BY <1>1, FS_Subset, ConstantsAssumption
<1>3. /\ Cardinality(Signers(old, e)) \in Nat /\ Cardinality(Signers(new, e)) \in Nat
      /\ Cardinality(Signers(old, e)) <= Cardinality(Signers(new, e))
  BY <1>1, <1>2, FS_Subset, FS_CardinalityType
<1> QED BY <1>3, QuorumArithmetic

\* The chain's height is a number.
LEMMA NextHeightType ==
  ASSUME TypeOK, NEW n \in Correct
  PROVE  NextHeight(n) \in Nat \ {0}
<1>1. store[n] \in Seq({store[n][i] : i \in DOMAIN store[n]})
  BY DEF TypeOK, IsSequence
<1>2. Len(store[n]) \in Nat
  BY <1>1, LenProperties
<1> QED BY <1>2 DEF NextHeight, Height

\* A node whose part of the state is untouched stays safe.
LEMMA OtherNodeSafe ==
  ASSUME voteMsgs \subseteq voteMsgs', NEW n, NodeSafe(n),
         store'[n] = store[n], proposals'[n] = proposals[n],
         votes'[n] = votes[n], myVote'[n] = myVote[n]
  PROVE  NodeSafe(n)'
<1>1. \A h \in DOMAIN store[n] : Cardinality(Signers(voteMsgs', store[n][h])) >= Quorum
  BY SignersGrow DEF NodeSafe
<1>2. \A w \in votes[n] : SignedVote(w.validator, w.block)'
  BY DEF NodeSafe, SignedVote
<1>3. NextHeight(n)' = NextHeight(n)
  BY DEF NextHeight, Height
<1> QED BY <1>1, <1>2, <1>3 DEF NodeSafe

\* checkQuorum keeps the invariant when the handler passes verified blocks,
\* genuine votes, and either the node's lock or a fresh lock with its vote.
LEMMA CheckQuorumSafe ==
  ASSUME IInv, TypeOK', NEW n \in Correct, NEW r,
         NEW known, \A b \in known : VerifyBlock(store[n], b),
         NEW recorded,
         \A w \in recorded : /\ w.validator \in Validator
                             /\ w.block.height = NextHeight(n)
                             /\ SignedVote(w.validator, w.block)',
         NEW lock, CheckQuorum(n, r, known, recorded, lock), UNCHANGED forgot,
         \/ UNCHANGED voteMsgs /\ lock = myVote[n]
         \/ \E b : /\ voteMsgs' = voteMsgs \cup {[validator |-> n, block |-> b]}
                   /\ b.height = NextHeight(n)
                   /\ lock = {b} /\ myVote[n] = {}
  PROVE  IInv'
<1>1. voteMsgs \subseteq voteMsgs'
  OBVIOUS
<1>2. /\ IsSequence(store[n]) /\ NextHeight(n) = Len(store[n]) + 1
      /\ \A m \in Correct : NextHeight(m) \in Nat
      /\ n \in DOMAIN store /\ n \in DOMAIN proposals /\ n \in DOMAIN votes
      /\ n \in DOMAIN myVote
  BY NextHeightType DEF IInv, TypeOK, NextHeight, Height
<1>3. \A m \in Correct : NodeSafe(m)
  BY DEF IInv
<1>4. \A b \in lock : b.height = NextHeight(n)
  BY <1>3 DEF NodeSafe
<1>5. \A w \in voteMsgs : w.validator \in Correct /\ w.block.height \in Nat
  BY DEF IInv, TypeOK, IsBlock
<1>6. VoteLock'
  <2> SUFFICES ASSUME NEW w \in voteMsgs', NEW x \in voteMsgs',
                      w.validator = x.validator, w.block.height = x.block.height,
                      <<w.validator, w.block.height>> \notin forgot
               PROVE  w.block = x.block
    BY DEF VoteLock
  <2>1. CASE w \in voteMsgs /\ x \in voteMsgs
    BY <2>1 DEF IInv, VoteLock
  <2>2. CASE w \notin voteMsgs /\ x \notin voteMsgs
    BY <2>2
  <2>3. CASE w \in voteMsgs /\ x \notin voteMsgs
    BY <2>3 DEF IInv, Locked
  <2>4. CASE w \notin voteMsgs /\ x \in voteMsgs
    BY <2>4 DEF IInv, Locked
  <2> QED BY <2>1, <2>2, <2>3, <2>4
<1>7. CASE \E b \in Decidable(known, recorded) :
             /\ store' = [store EXCEPT ![n] =
                            Append(@, [block |-> b, voters |-> VotersFor(recorded, b)])]
             /\ Advance(n)
  <2> PICK b \in Decidable(known, recorded) :
             /\ store' = [store EXCEPT ![n] =
                            Append(@, [block |-> b, voters |-> VotersFor(recorded, b)])]
             /\ Advance(n)
    BY <1>7
  <2> DEFINE e == [block |-> b, voters |-> VotersFor(recorded, b)]
  <2>1. store'[n] = Append(store[n], e)
    BY <1>2
  <2>2. /\ Len(store[n]) \in Nat /\ DOMAIN store[n] = 1 .. Len(store[n])
        /\ Len(store'[n]) = Len(store[n]) + 1 /\ DOMAIN store'[n] = 1 .. Len(store[n]) + 1
        /\ \A h \in 1 .. Len(store[n]) : store'[n][h] = store[n][h]
        /\ store'[n][Len(store[n]) + 1] = e
    BY <1>2, <2>1, AppendExtends
  <2>3. Cardinality(Signers(voteMsgs', e)) >= Quorum
    <3>1. Signers(voteMsgs', e) = VotersFor(recorded, b)
      BY DEF Signers, VotersFor, SignedVote
    <3> QED BY <3>1 DEF Decidable
  <2>4. e.block.height = Len(store[n]) + 1
    BY DEF Decidable, VerifyBlock
  <2>5. \A h \in 1 .. Len(store[n]) :
          /\ store[n][h].block.height = h
          /\ Cardinality(Signers(voteMsgs', store[n][h])) >= Quorum
    BY <1>1, <1>3, <2>2, SignersGrow DEF NodeSafe
  <2>6. NodeSafe(n)'
    <3>1. proposals'[n] = {} /\ votes'[n] = {} /\ myVote'[n] = {}
      BY <1>2 DEF Advance
    <3>2. \A h \in DOMAIN store'[n] :
            /\ store'[n][h].block.height = h
            /\ Cardinality(Signers(voteMsgs', store'[n][h])) >= Quorum
      BY <2>2, <2>3, <2>4, <2>5
    <3> QED BY <3>1, <3>2 DEF NodeSafe
  <2>7. \A m \in Correct : NodeSafe(m)'
    BY <1>1, <1>3, <2>6, OtherNodeSafe DEF Advance, IInv, TypeOK
  <2>8. /\ NextHeight(n)' = NextHeight(n) + 1
        /\ \A m \in Correct \ {n} : NextHeight(m)' = NextHeight(m) /\ myVote'[m] = myVote[m]
    BY <1>2, <2>2 DEF NextHeight, Height, Advance, IInv, TypeOK
  <2>9. Locked'
    <3> SUFFICES ASSUME NEW w \in voteMsgs'
                 PROVE  /\ w.block.height <= NextHeight(w.validator)'
                        /\ w.block.height = NextHeight(w.validator)'
                           /\ <<w.validator, w.block.height>> \notin forgot
                             => myVote'[w.validator] = {w.block}
      BY DEF Locked
    <3>1. CASE w.validator = n
      <4>1. w.block.height <= NextHeight(n) /\ w.block.height \in Nat
        <5>1. CASE w \in voteMsgs
          BY <1>5, <3>1, <5>1 DEF IInv, Locked
        <5>2. CASE w \notin voteMsgs
          BY <1>2, <5>2
        <5> QED BY <5>1, <5>2
      <4> QED BY <1>2, <2>8, <3>1, <4>1
    <3>2. CASE w.validator # n
      <4>1. w \in voteMsgs
        BY <3>2
      <4> QED BY <1>5, <2>8, <3>2, <4>1 DEF IInv, Locked
    <3> QED BY <3>1, <3>2
  <2> QED BY <1>6, <2>7, <2>9 DEF IInv
<1>8. CASE /\ round'     = [round EXCEPT ![n] = r]
           /\ proposals' = [proposals EXCEPT ![n] = known]
           /\ votes'     = [votes EXCEPT ![n] = recorded]
           /\ myVote'    = [myVote EXCEPT ![n] = lock]
           /\ UNCHANGED store
  <2>1. \A m \in Correct : NextHeight(m)' = NextHeight(m)
    BY <1>8 DEF NextHeight, Height
  <2>2. \A m \in Correct \ {n} : NodeSafe(m)'
    BY <1>1, <1>3, <1>8, OtherNodeSafe DEF IInv, TypeOK
  <2>3. /\ proposals'[n] = known /\ votes'[n] = recorded /\ myVote'[n] = lock
        /\ store'[n] = store[n]
    BY <1>2, <1>8
  <2>4. \A h \in DOMAIN store'[n] :
          /\ store'[n][h].block.height = h
          /\ Cardinality(Signers(voteMsgs', store'[n][h])) >= Quorum
    BY <1>1, <1>3, <2>3, SignersGrow DEF NodeSafe
  <2>5. NodeSafe(n)'
    BY <1>4, <2>1, <2>3, <2>4 DEF NodeSafe
  <2>6. Locked'
    <3> SUFFICES ASSUME NEW w \in voteMsgs'
                 PROVE  /\ w.block.height <= NextHeight(w.validator)'
                        /\ w.block.height = NextHeight(w.validator)'
                           /\ <<w.validator, w.block.height>> \notin forgot
                             => myVote'[w.validator] = {w.block}
      BY DEF Locked
    <3>1. CASE w \in voteMsgs /\ w.validator = n
      BY <1>2, <2>1, <2>3, <3>1 DEF IInv, Locked
    <3>2. CASE w \in voteMsgs /\ w.validator # n
      BY <1>5, <1>8, <2>1, <3>2 DEF IInv, Locked, TypeOK
    <3>3. CASE w \notin voteMsgs
      BY <1>2, <2>1, <2>3, <3>3
    <3> QED BY <3>1, <3>2, <3>3
  <2> QED BY <1>6, <2>2, <2>5, <2>6 DEF IInv
<1> QED BY <1>7, <1>8 DEF CheckQuorum

\* Blocks taken over from a peer keep it when every certificate that was
\* accepted is genuine.
LEMMA OnBlockResponseSafe ==
  ASSUME IInv, TypeOK', NEW n \in Correct, NEW items, IsSequence(items),
         \A i \in 1 .. Len(items) :
           VerifyCertificate(items[i].block, items[i].voters)
             => Cardinality(Signers(voteMsgs, items[i])) >= Quorum,
         OnBlockResponse(n, items)
  PROVE  IInv'
<1>0. Len(items) \in Nat
  BY LenProperties DEF IsSequence
<1>1. PICK k \in 0 .. Len(items) :
        /\ Applicable(n, items, k)
        /\ IF k > 0
             THEN /\ store' = [store EXCEPT ![n] = @ \o SubSeq(items, 1, k)]
                  /\ Advance(n)
             ELSE UNCHANGED nodeVars
        /\ UNCHANGED <<bestRemoteHeight, proposalMsgs, voteMsgs, envVars>>
  BY DEF OnBlockResponse
<1>2. UNCHANGED <<voteMsgs, forgot>> /\ voteMsgs \subseteq voteMsgs'
  BY <1>1 DEF envVars
<1>3. VoteLock'
  BY <1>2 DEF IInv, VoteLock
<1>4. /\ \A m \in Correct : NodeSafe(m)
      /\ IsSequence(store[n])
      /\ n \in DOMAIN store /\ n \in DOMAIN proposals /\ n \in DOMAIN votes
      /\ n \in DOMAIN myVote
  BY DEF IInv, TypeOK
<1>5. CASE k = 0
  <2>1. UNCHANGED nodeVars
    BY <1>1, <1>5
  <2>2. \A m \in Correct : NextHeight(m)' = NextHeight(m) /\ NodeSafe(m)'
    BY <1>2, <1>4, <2>1, OtherNodeSafe DEF nodeVars, NextHeight, Height
  <2>3. Locked'
    BY <1>2, <2>1, <2>2 DEF IInv, TypeOK, Locked, nodeVars
  <2> QED BY <1>3, <2>2, <2>3 DEF IInv
<1>6. CASE k > 0
  <2>1. store'[n] = store[n] \o SubSeq(items, 1, k) /\ Advance(n)
    BY <1>1, <1>4, <1>6
  <2>2. /\ Len(store[n]) \in Nat /\ DOMAIN store[n] = 1 .. Len(store[n])
        /\ Len(store'[n]) = Len(store[n]) + k /\ DOMAIN store'[n] = 1 .. Len(store[n]) + k
        /\ \A h \in 1 .. Len(store[n]) + k : store'[n][h] =
             IF h <= Len(store[n]) THEN store[n][h] ELSE items[h - Len(store[n])]
    <3> DEFINE t == store[n] \o SubSeq(items, 1, k)
    <3>0. IsSequence(store[n]) /\ k \in 0 .. Len(items)
      BY <1>4
    <3>1. /\ Len(store[n]) \in Nat /\ DOMAIN store[n] = 1 .. Len(store[n])
          /\ Len(t) = Len(store[n]) + k /\ DOMAIN t = 1 .. Len(store[n]) + k
          /\ \A h \in 1 .. Len(store[n]) + k :
               t[h] = IF h <= Len(store[n]) THEN store[n][h] ELSE items[h - Len(store[n])]
      BY <3>0, ConcatExtends
    <3>2. store'[n] = t
      BY <2>1
    <3> HIDE DEF t
    <3> QED BY <3>1, <3>2
  <2>3. \A i \in 1 .. k : /\ items[i].block.height = Len(store[n]) + i
                          /\ Cardinality(Signers(voteMsgs, items[i])) >= Quorum
    <3> SUFFICES ASSUME NEW i \in 1 .. k
                 PROVE  /\ items[i].block.height = Len(store[n]) + i
                        /\ Cardinality(Signers(voteMsgs, items[i])) >= Quorum
      OBVIOUS
    <3>1. i \in Nat /\ i - 1 \in 0 .. Len(items) /\ i \in 1 .. Len(items)
      BY <1>0
    <3>2. Len(store[n] \o SubSeq(items, 1, i - 1)) = Len(store[n]) + (i - 1)
      BY <1>4, <3>1, ConcatExtends
    <3>3. /\ VerifyBlock(store[n] \o SubSeq(items, 1, i - 1), items[i].block)
          /\ VerifyCertificate(items[i].block, items[i].voters)
      BY <1>1 DEF Applicable
    <3>4. items[i].block.height = (Len(store[n]) + (i - 1)) + 1
      BY <3>2, <3>3 DEF VerifyBlock
    <3>5. items[i].block.height = Len(store[n]) + i
      <4>1. Len(store[n]) \in Nat
        BY <2>2
      <4> QED BY <3>1, <3>4, <4>1
    <3> QED BY <3>1, <3>3, <3>5
  <2>4. NodeSafe(n)'
    <3>1. proposals'[n] = {} /\ votes'[n] = {} /\ myVote'[n] = {}
      BY <1>4, <2>1 DEF Advance
    <3>2. ASSUME NEW h \in DOMAIN store'[n]
          PROVE  /\ store'[n][h].block.height = h
                 /\ Cardinality(Signers(voteMsgs', store'[n][h])) >= Quorum
      <4>1. CASE h \in 1 .. Len(store[n])
        <5>1. h \in DOMAIN store[n] /\ store'[n][h] = store[n][h]
          BY <2>2, <4>1
        <5> QED BY <1>2, <1>4, <5>1 DEF NodeSafe
      <4>2. CASE h \notin 1 .. Len(store[n])
        <5>1. /\ h - Len(store[n]) \in 1 .. k /\ ~(h <= Len(store[n]))
              /\ h = Len(store[n]) + (h - Len(store[n]))
          BY <1>0, <2>2, <4>2
        <5>2. store'[n][h] = items[h - Len(store[n])]
          BY <2>2, <5>1
        <5> QED BY <1>2, <2>2, <2>3, <5>1, <5>2
      <4> QED BY <4>1, <4>2
    <3> QED BY <3>1, <3>2 DEF NodeSafe
  <2>5. \A m \in Correct : NodeSafe(m)'
    BY <1>1, <1>2, <1>4, <1>6, <2>1, <2>4, OtherNodeSafe DEF Advance, IInv, TypeOK
  <2>6. /\ NextHeight(n) \in Nat /\ NextHeight(n)' = NextHeight(n) + k
        /\ \A m \in Correct \ {n} : NextHeight(m)' = NextHeight(m) /\ myVote'[m] = myVote[m]
    <3>1. NextHeight(n) \in Nat /\ NextHeight(n)' = NextHeight(n) + k
      BY <1>1, <2>2 DEF NextHeight, Height
    <3>2. \A m \in Correct \ {n} : store'[m] = store[m] /\ myVote'[m] = myVote[m]
      BY <1>1, <1>6, <2>1 DEF Advance, IInv, TypeOK
    <3> QED BY <3>1, <3>2 DEF NextHeight, Height
  <2>7. Locked'
    <3> SUFFICES ASSUME NEW w \in voteMsgs
                 PROVE  /\ w.block.height <= NextHeight(w.validator)'
                        /\ w.block.height = NextHeight(w.validator)'
                           /\ <<w.validator, w.block.height>> \notin forgot
                             => myVote'[w.validator] = {w.block}
      BY <1>2 DEF Locked
    <3>1. /\ w.validator \in Correct /\ w.block.height \in Nat
          /\ w.block.height <= NextHeight(w.validator)
          /\ w.block.height = NextHeight(w.validator)
             /\ <<w.validator, w.block.height>> \notin forgot
               => myVote[w.validator] = {w.block}
      BY DEF IInv, Locked, TypeOK, IsBlock
    <3>2. CASE w.validator = n
      BY <1>6, <2>6, <3>1, <3>2
    <3>3. CASE w.validator # n
      BY <2>6, <3>1, <3>3
    <3> QED BY <3>2, <3>3
  <2> QED BY <1>3, <2>5, <2>7 DEF IInv
<1> QED BY <1>5, <1>6

\* A restart forgets the lock, and says so.
LEMMA RestartSafe ==
  ASSUME IInv, TypeOK', NEW n \in Correct, Restart(n)
  PROVE  IInv'
<1>1. /\ voteMsgs' = voteMsgs /\ store' = store /\ Advance(n)
      /\ forgot' = forgot \cup {<<n, b.height>> : b \in myVote[n]}
  BY DEF Restart
<1>2. \A m \in Correct : NextHeight(m)' = NextHeight(m)
  BY <1>1 DEF NextHeight, Height
<1>3. VoteLock'
  BY <1>1 DEF IInv, VoteLock
<1>4. \A m \in Correct \ {n} : NodeSafe(m)'
  BY <1>1, OtherNodeSafe DEF Advance, IInv, TypeOK
<1>5. NodeSafe(n)'
  <2>1. proposals'[n] = {} /\ votes'[n] = {} /\ myVote'[n] = {} /\ store'[n] = store[n]
    BY <1>1 DEF Advance, IInv, TypeOK
  <2> QED BY <1>1, <2>1 DEF IInv, NodeSafe
<1>6. Locked'
  <2> SUFFICES ASSUME NEW w \in voteMsgs
               PROVE  /\ w.block.height <= NextHeight(w.validator)'
                      /\ w.block.height = NextHeight(w.validator)'
                         /\ <<w.validator, w.block.height>> \notin forgot'
                           => myVote'[w.validator] = {w.block}
    BY <1>1 DEF Locked
  <2>1. w.validator \in Correct /\ NextHeight(w.validator)' = NextHeight(w.validator)
    BY <1>2 DEF IInv, TypeOK
  <2>2. CASE w.validator = n
    <3>1. ASSUME w.block.height = NextHeight(n), <<n, w.block.height>> \notin forgot'
          PROVE  FALSE
      <4>1. myVote[n] = {w.block}
        BY <1>1, <2>2, <3>1 DEF IInv, Locked
      <4> QED BY <1>1, <3>1, <4>1
    <3> QED BY <2>1, <2>2, <3>1 DEF IInv, Locked
  <2>3. CASE w.validator # n
    BY <1>1, <2>1, <2>3 DEF IInv, Locked, Advance, TypeOK
  <2> QED BY <2>2, <2>3
<1> QED BY <1>3, <1>4, <1>5, <1>6 DEF IInv

\* Everything else leaves alone what the invariant is about.
LEMMA KeepSafe ==
  ASSUME IInv, TypeOK', UNCHANGED <<store, proposals, votes, myVote, voteMsgs, forgot>>
  PROVE  IInv'
<1>1. \A m \in Correct : NextHeight(m)' = NextHeight(m) /\ NodeSafe(m)'
  BY OtherNodeSafe DEF IInv, NextHeight, Height
<1>2. Locked'
  BY <1>1 DEF IInv, TypeOK, Locked
<1>3. VoteLock'
  BY DEF IInv, VoteLock
<1> QED BY <1>1, <1>2, <1>3 DEF IInv

\* Recording a genuine vote of the next height keeps the recorded votes genuine.
LEMMA RecordVoteGenuine ==
  ASSUME IInv, NEW n \in Correct, NEW v \in Validator, NEW b, b.height = NextHeight(n),
         SignedVote(v, b)', voteMsgs \subseteq voteMsgs'
  PROVE  \A w \in RecordVote(votes[n], v, b) :
           /\ w.validator \in Validator
           /\ w.block.height = NextHeight(n)
           /\ SignedVote(w.validator, w.block)'
<1>1. \A w \in votes[n] : /\ w.validator \in Validator
                          /\ w.block.height = NextHeight(n)
                          /\ SignedVote(w.validator, w.block)'
  BY DEF IInv, NodeSafe, TypeOK, SignedVote
<1>2. \A w \in RecordVote(votes[n], v, b) :
        w \in votes[n] \/ w = [validator |-> v, block |-> b]
  BY DEF RecordVote
<1> QED BY <1>1, <1>2

\* A node that votes for a block it has verified.
LEMMA CastVoteSafe ==
  ASSUME IInv, TypeOK', NEW n \in Correct, NEW r, NEW b, VerifyBlock(store[n], b),
         MayVote(n), UNCHANGED forgot,
         voteMsgs' = voteMsgs \cup {[validator |-> n, block |-> b]},
         CheckQuorum(n, r, proposals[n] \cup {b}, RecordVote(votes[n], n, b), {b})
  PROVE  IInv'
<1>1. n \in Validator /\ myVote[n] = {}
  BY DEF MayVote
<1>2. b.height = NextHeight(n)
  BY DEF VerifyBlock, NextHeight, Height
<1>3. \A x \in proposals[n] \cup {b} : VerifyBlock(store[n], x)
  BY DEF IInv, NodeSafe
<1>4. \A w \in RecordVote(votes[n], n, b) :
        /\ w.validator \in Validator
        /\ w.block.height = NextHeight(n)
        /\ SignedVote(w.validator, w.block)'
  BY <1>1, <1>2, RecordVoteGenuine DEF SignedVote
<1> QED BY <1>1, <1>2, <1>3, <1>4, CheckQuorumSafe

\* A peer answers with certified blocks.
LEMMA AnswerIsCertified ==
  ASSUME IInv, NEW n \in Correct, NEW m \in Correct, NEW to \in 0 .. Height(m)
  PROVE  LET items == BlocksAbove(n, m, to) IN
         /\ IsSequence(items)
         /\ \A i \in 1 .. Len(items) : Cardinality(Signers(voteMsgs, items[i])) >= Quorum
<1> DEFINE items == BlocksAbove(n, m, to)
<1>1. /\ IsSequence(items)
      /\ \A i \in 1 .. Len(items) : /\ NextHeight(n) + i - 1 \in DOMAIN store[m]
                                    /\ items[i] = store[m][NextHeight(n) + i - 1]
  BY NextHeightType, AnswerIsSequence DEF IInv, TypeOK, Height, BlocksAbove
<1> HIDE DEF items
<1>2. \A i \in 1 .. Len(items) : Cardinality(Signers(voteMsgs, items[i])) >= Quorum
  BY <1>1 DEF IInv, NodeSafe
<1> QED BY <1>1, <1>2 DEF items

\* Every action keeps the invariant: one step per action.
LEMMA SafeStep ==
  ASSUME IInv, [Next]_vars
  PROVE  IInv'
<1>1. TypeOK'
  BY TypeStep DEF IInv
<1>2. ASSUME NEW n \in Correct, NEW late \in BOOLEAN, NEW p \in Payloads,
             TickPropose(n, late, p)
      PROVE  IInv'
  <2>1. VerifyBlock(store[n], Draft(n, p))
    BY <1>2 DEF TickPropose, MayVote, VerifyBlock, Draft, NextHeight, Height
  <2> QED BY <1>1, <1>2, <2>1, CastVoteSafe DEF TickPropose, envVars
<1>3. ASSUME NEW n \in Correct, TickSync(n) \/ TickRotate(n) PROVE IInv'
  BY <1>1, <1>3, KeepSafe DEF TickSync, TickRotate, nodeVars, envVars
<1>4. ASSUME NEW n \in Correct, NEW r, NEW b, OnProposal(n, r, b) PROVE IInv'
  <2>1. VerifyBlock(store[n], b)
    BY <1>4 DEF OnProposal, IInv, NodeSafe
  <2>2. CASE MayVote(n)
    BY <1>1, <1>4, <2>1, <2>2, CastVoteSafe DEF OnProposal, envVars
  <2>3. CASE ~MayVote(n)
    <3>1. /\ CheckQuorum(n, round[n], proposals[n] \cup {b}, votes[n], myVote[n])
          /\ UNCHANGED <<voteMsgs, forgot>>
      BY <1>4, <2>3 DEF OnProposal, envVars
    <3>2. \A x \in proposals[n] \cup {b} : VerifyBlock(store[n], x)
      BY <2>1 DEF IInv, NodeSafe
    <3>3. \A w \in votes[n] : /\ w.validator \in Validator
                              /\ w.block.height = NextHeight(n)
                              /\ SignedVote(w.validator, w.block)'
      BY <3>1 DEF IInv, NodeSafe, TypeOK, SignedVote
    <3> QED BY <1>1, <3>1, <3>2, <3>3, CheckQuorumSafe
  <2> QED BY <2>2, <2>3
<1>5. ASSUME NEW n \in Correct, NEW v \in Validator, NEW b, OnVote(n, v, b) PROVE IInv'
  <2>1. /\ CheckQuorum(n, round[n], proposals[n], RecordVote(votes[n], v, b), myVote[n])
        /\ UNCHANGED <<voteMsgs, forgot>>
    BY <1>5 DEF OnVote, envVars
  <2>2. \A x \in proposals[n] : VerifyBlock(store[n], x)
    BY DEF IInv, NodeSafe
  <2>3. \A w \in RecordVote(votes[n], v, b) :
          /\ w.validator \in Validator
          /\ w.block.height = NextHeight(n)
          /\ SignedVote(w.validator, w.block)'
    <3>1. b.height = NextHeight(n) /\ SignedVote(v, b)
      BY <1>5 DEF OnVote
    <3>2. SignedVote(v, b)'
      BY <2>1, <3>1 DEF SignedVote
    <3> QED BY <2>1, <3>1, <3>2, RecordVoteGenuine
  <2> QED BY <1>1, <2>1, <2>2, <2>3, CheckQuorumSafe
<1>6. ASSUME NEW n \in Correct, NEW b, OnProposalRequest(n, b) PROVE IInv'
  BY <1>1, <1>6, KeepSafe DEF OnProposalRequest, nodeVars, envVars
<1>7. ASSUME NEW n \in Correct, NEW h, LearnHeight(n, h) PROVE IInv'
  BY <1>1, <1>7, KeepSafe DEF LearnHeight, nodeVars, envVars
<1>8. ASSUME NEW n \in Correct, ReceiveBlocks(n) PROVE IInv'
  <2>1. PICK m \in Correct : \E to \in 1 .. Height(m) : OnBlockResponse(n, BlocksAbove(n, m, to))
    BY <1>8 DEF ReceiveBlocks
  <2>2. PICK to \in 1 .. Height(m) : OnBlockResponse(n, BlocksAbove(n, m, to))
    BY <2>1
  <2>3. to \in 0 .. Height(m)
    OBVIOUS
  <2>4. /\ IsSequence(BlocksAbove(n, m, to))
        /\ \A i \in 1 .. Len(BlocksAbove(n, m, to)) :
             Cardinality(Signers(voteMsgs, BlocksAbove(n, m, to)[i])) >= Quorum
    BY <2>3, AnswerIsCertified
  <2> QED BY <1>1, <2>2, <2>4, OnBlockResponseSafe
<1>9. ASSUME NEW n \in Correct, ReceiveFaultyBlocks(n) PROVE IInv'
  <2>1. PICK m \in Correct : \E to \in 0 .. Height(m) : \E b :
          OnBlockResponse(n, Append(BlocksAbove(n, m, to), [block |-> b, voters |-> Validator]))
    BY <1>9 DEF ReceiveFaultyBlocks
  <2>2. PICK to \in 0 .. Height(m) : \E b :
          OnBlockResponse(n, Append(BlocksAbove(n, m, to), [block |-> b, voters |-> Validator]))
    BY <2>1
  <2>3. PICK b :
          OnBlockResponse(n, Append(BlocksAbove(n, m, to), [block |-> b, voters |-> Validator]))
    BY <2>2
  <2> DEFINE e == [block |-> b, voters |-> Validator]
             good == BlocksAbove(n, m, to)
             items == Append(good, e)
  <2>4. VerifyCertificate(e.block, e.voters) => Cardinality(Signers(voteMsgs, e)) >= Quorum
    <3>1. e.voters # {}
      BY ConstantsAssumption
    <3>2. Signers(voteMsgs, e) = {v \in e.voters \cap Validator : SignedVote(v, e.block)}
      BY DEF Signers, SignedVote
    <3> QED BY <3>1, <3>2 DEF VerifyCertificate
  <2>5. /\ IsSequence(good)
        /\ \A i \in 1 .. Len(good) : Cardinality(Signers(voteMsgs, good[i])) >= Quorum
    BY AnswerIsCertified
  <2>6. OnBlockResponse(n, items)
    BY <2>3
  <2> HIDE DEF e, good
  <2>7. /\ IsSequence(items) /\ Len(good) \in Nat /\ Len(items) = Len(good) + 1
        /\ (\A i \in 1 .. Len(good) : items[i] = good[i]) /\ items[Len(good) + 1] = e
    BY <2>5, AppendExtends
  <2> HIDE DEF items
  <2>8. \A i \in 1 .. Len(items) :
          VerifyCertificate(items[i].block, items[i].voters)
            => Cardinality(Signers(voteMsgs, items[i])) >= Quorum
    <3> SUFFICES ASSUME NEW i \in 1 .. Len(items)
                 PROVE  VerifyCertificate(items[i].block, items[i].voters)
                          => Cardinality(Signers(voteMsgs, items[i])) >= Quorum
      OBVIOUS
    <3>1. i \in 1 .. Len(good) \/ i = Len(good) + 1
      BY <2>7
    <3> QED BY <2>4, <2>5, <2>7, <3>1
  <2> QED BY <1>1, <2>6, <2>7, <2>8, OnBlockResponseSafe
<1>10. ASSUME NEW n \in Correct, Restart(n) PROVE IInv'
  BY <1>1, <1>10, RestartSafe
<1>11. CASE UNCHANGED vars
  BY <1>1, <1>11, KeepSafe DEF vars, nodeVars, netVars, envVars
<1>12. ASSUME NEW n \in Correct, Tick(n) PROVE IInv'
  BY <1>2, <1>3, <1>12 DEF Tick
<1>13. ASSUME NEW n \in Correct, ReceiveProposal(n) PROVE IInv'
  BY <1>4, <1>13 DEF ReceiveProposal
<1>14. ASSUME NEW n \in Correct, ReceiveVote(n) PROVE IInv'
  <2>1. \A w \in voteMsgs : w.validator \in Validator
    BY DEF IInv, TypeOK
  <2> QED BY <1>5, <1>14, <2>1, ConstantsAssumption DEF ReceiveVote
<1>15. ASSUME NEW n \in Correct,
              ReceiveFutureVote(n) \/ ReceiveHello(n) \/ ReceiveFalseHeight(n)
       PROVE  IInv'
  BY <1>7, <1>15 DEF ReceiveFutureVote, OnFutureVote, ReceiveHello, OnHello, ReceiveFalseHeight
<1> QED
  BY <1>6, <1>8, <1>9, <1>10, <1>11, <1>12, <1>13, <1>14, <1>15 DEF Next

LEMMA InitSafe == Init => IInv
<1> SUFFICES ASSUME Init PROVE IInv
  OBVIOUS
<1>1. IsSequence(<<>>)
  BY SequenceOverItself, EmptySeq
<1>2. TypeOK
  BY <1>1, ConstantsAssumption DEF Init, TypeOK
<1>3. \A n \in Correct : NodeSafe(n)
  BY DEF Init, NodeSafe
<1>4. Locked /\ VoteLock
  BY DEF Init, Locked, VoteLock
<1> QED BY <1>2, <1>3, <1>4 DEF IInv

\* The inductive invariant holds throughout.
THEOREM SafetyInvariant == Spec => []IInv
<1>1. IInv /\ [Next]_vars => IInv'
  BY SafeStep
<1> QED BY InitSafe, <1>1, PTL DEF Spec

\* One vote per height: a correct validator whose lock was not lost never signs
\* two blocks of one height, whatever it receives and in whatever order.
THEOREM OneVotePerHeight == Spec => []VoteLock
<1>1. IInv => VoteLock
  BY DEF IInv
<1> QED BY SafetyInvariant, <1>1, PTL

\* Blocks are self-verifying: every block of every ledger has a certificate with
\* a quorum of genuine votes, whether it was decided or taken from a peer.
THEOREM GenuineCertificates == Spec => []CertificatesHold
<1>1. IInv => CertificatesHold
  BY DEF IInv, NodeSafe, CertificatesHold, Signers, SignedVote
<1> QED BY SafetyInvariant, <1>1, PTL

\* A node's memory is about its next height only, after every kind of commit.
THEOREM MemoryIsOfNextHeight == Spec => []NextHeightOnly
<1>1. IInv => NextHeightOnly
  BY DEF IInv, NodeSafe, NextHeightOnly
<1> QED BY SafetyInvariant, <1>1, PTL

\* Two certificates of one height share a validator outside any third, which signs
\* one block of the height.
LEMMA CertifiedAgree ==
  ASSUME IInv
  PROVE  Agreement
<1> SUFFICES ASSUME NEW m \in Correct, NEW n \in Correct,
                    NEW h \in (DOMAIN store[m]) \cap (DOMAIN store[n]), Tolerated(h)
             PROVE  store[m][h].block = store[n][h].block
  BY DEF Agreement
<1> DEFINE A == Signers(voteMsgs, store[m][h])
           B == Signers(voteMsgs, store[n][h])
<1>1. /\ A \subseteq Validator /\ Cardinality(A) >= Quorum
      /\ B \subseteq Validator /\ Cardinality(B) >= Quorum
      /\ store[m][h].block.height = h /\ store[n][h].block.height = h
  BY DEF IInv, NodeSafe, Signers
<1>2. Unreliable(h) \subseteq Validator /\ 3 * Cardinality(Unreliable(h)) < N
  BY ConstantsAssumption DEF Unreliable, Tolerated
<1>3. PICK v \in A \cap B : v \notin Unreliable(h)
  <2> HIDE DEF A, B
  <2> QED BY <1>1, <1>2, QuorumsMeet
<1>4. /\ [validator |-> v, block |-> store[m][h].block] \in voteMsgs
      /\ [validator |-> v, block |-> store[n][h].block] \in voteMsgs
      /\ <<v, h>> \notin forgot
  BY <1>3 DEF Signers, Unreliable
<1> QED BY <1>1, <1>4 DEF IInv, VoteLock

\* No two ledgers disagree at a height at which fewer than a third of the
\* validators are faulty or lost their lock: for any number of validators.
THEOREM NoFork == Spec => []Agreement
<1>1. IInv => Agreement
  BY CertifiedAgree
<1> QED BY SafetyInvariant, <1>1, PTL
-----------------------------------------------------------------------------
(* Nothing decided is left uncommitted, and a lock can always be sent again. *)

\* Of one node, with what makes it inductive: the only vote of its own that a
\* node has recorded is the one it is locked on.
Recovers(n) ==
  /\ Decidable(proposals[n], votes[n]) = {}
  /\ \A b \in myVote[n] : b \in proposals[n] /\ [validator |-> n, block |-> b] \in votes[n]
  /\ \A w \in votes[n] : w.validator = n => w.block \in myVote[n]

AllRecover == \A n \in Correct : Recovers(n)

\* Nothing is decided in an empty memory.
LEMMA NothingDecided == Decidable({}, {}) = {}
BY DEF Decidable

LEMMA AdvanceRecovers ==
  ASSUME TypeOK, AllRecover, NEW n \in Correct, Advance(n)
  PROVE  AllRecover'
<1> SUFFICES ASSUME NEW m \in Correct PROVE Recovers(m)'
  BY DEF AllRecover
<1>1. CASE m = n
  <2>1. proposals'[n] = {} /\ votes'[n] = {} /\ myVote'[n] = {}
    BY DEF Advance, TypeOK
  <2> QED BY <1>1, <2>1, NothingDecided DEF Recovers
<1>2. CASE m # n
  BY <1>2 DEF Advance, TypeOK, AllRecover, Recovers
<1> QED BY <1>1, <1>2

\* A handler that ends with castVote and checkQuorum.
LEMMA CheckQuorumRecovers ==
  ASSUME TypeOK, AllRecover, NEW n \in Correct, NEW r, NEW known, NEW recorded, NEW lock,
         CheckQuorum(n, r, known, recorded, lock),
         \A b \in lock : b \in known /\ [validator |-> n, block |-> b] \in recorded,
         \A w \in recorded : w.validator = n => w.block \in lock
  PROVE  AllRecover'
<1>1. CASE Advance(n)
  BY <1>1, AdvanceRecovers
<1>2. CASE ~Advance(n)
  <2>1. /\ Decidable(known, recorded) = {}
        /\ proposals' = [proposals EXCEPT ![n] = known]
        /\ votes' = [votes EXCEPT ![n] = recorded]
        /\ myVote' = [myVote EXCEPT ![n] = lock]
    BY <1>2 DEF CheckQuorum
  <2> SUFFICES ASSUME NEW m \in Correct PROVE Recovers(m)'
    BY DEF AllRecover
  <2>2. CASE m = n
    <3>1. proposals'[n] = known /\ votes'[n] = recorded /\ myVote'[n] = lock
      BY <2>1 DEF TypeOK
    <3> QED BY <2>1, <2>2, <3>1 DEF Recovers
  <2>3. CASE m # n
    BY <2>1, <2>3 DEF TypeOK, AllRecover, Recovers
  <2> QED BY <2>2, <2>3
<1> QED BY <1>1, <1>2

\* castVote: the vote of the node itself is recorded with the lock.
LEMMA CastVoteRecovers ==
  ASSUME TypeOK, AllRecover, NEW n \in Correct, NEW r, NEW b, MayVote(n),
         CheckQuorum(n, r, proposals[n] \cup {b}, RecordVote(votes[n], n, b), {b})
  PROVE  AllRecover'
<1>1. \A w \in votes[n] : w.validator # n
  BY DEF AllRecover, Recovers, MayVote
<1>2. RecordVote(votes[n], n, b) = votes[n] \cup {[validator |-> n, block |-> b]}
  BY <1>1 DEF RecordVote
<1>3. \A w \in RecordVote(votes[n], n, b) : w.validator = n => w.block \in {b}
  BY <1>1, <1>2
<1>4. [validator |-> n, block |-> b] \in RecordVote(votes[n], n, b)
  BY <1>2
<1> QED BY <1>3, <1>4, CheckQuorumRecovers

LEMMA KeepRecovers ==
  ASSUME AllRecover, UNCHANGED <<proposals, votes, myVote>>
  PROVE  AllRecover'
BY DEF AllRecover, Recovers

LEMMA RecoverStep ==
  ASSUME TypeOK, AllRecover, [Next]_vars
  PROVE  AllRecover'
<1>1. ASSUME NEW n \in Correct, Tick(n) PROVE AllRecover'
  <2>1. CASE TickSync(n) \/ TickRotate(n)
    BY <2>1, KeepRecovers DEF TickSync, TickRotate, nodeVars
  <2>2. ASSUME NEW late, NEW p, TickPropose(n, late, p) PROVE AllRecover'
    <3> DEFINE b == Draft(n, p)
    <3>1. /\ MayVote(n)
          /\ CheckQuorum(n, RoundAfter(n, late), proposals[n] \cup {b},
                         RecordVote(votes[n], n, b), {b})
      BY <2>2 DEF TickPropose
    <3> HIDE DEF b
    <3> QED BY <3>1, CastVoteRecovers
  <2> QED BY <1>1, <2>1, <2>2 DEF Tick
<1>2. ASSUME NEW n \in Correct, NEW r, NEW b, OnProposal(n, r, b) PROVE AllRecover'
  <2>1. CASE MayVote(n)
    BY <1>2, <2>1, CastVoteRecovers DEF OnProposal
  <2>2. CASE ~MayVote(n)
    <3>1. CheckQuorum(n, round[n], proposals[n] \cup {b}, votes[n], myVote[n])
      BY <1>2, <2>2 DEF OnProposal
    <3>2. /\ \A x \in myVote[n] : /\ x \in proposals[n] \cup {b}
                                  /\ [validator |-> n, block |-> x] \in votes[n]
          /\ \A w \in votes[n] : w.validator = n => w.block \in myVote[n]
      BY DEF AllRecover, Recovers
    <3> QED BY <3>1, <3>2, CheckQuorumRecovers
  <2> QED BY <2>1, <2>2
<1>3. ASSUME NEW n \in Correct, NEW v, NEW b, OnVote(n, v, b) PROVE AllRecover'
  <2> DEFINE recorded == RecordVote(votes[n], v, b)
  <2>1. v # n /\ CheckQuorum(n, round[n], proposals[n], recorded, myVote[n])
    BY <1>3 DEF OnVote
  <2>2. recorded = votes[n] \/ recorded = votes[n] \cup {[validator |-> v, block |-> b]}
    BY DEF RecordVote
  <2>3. /\ \A x \in myVote[n] : /\ x \in proposals[n]
                                /\ [validator |-> n, block |-> x] \in votes[n]
        /\ \A w \in votes[n] : w.validator = n => w.block \in myVote[n]
    BY DEF AllRecover, Recovers
  <2> HIDE DEF recorded
  <2>4. /\ \A x \in myVote[n] : /\ x \in proposals[n]
                                /\ [validator |-> n, block |-> x] \in recorded
        /\ \A w \in recorded : w.validator = n => w.block \in myVote[n]
    BY <2>1, <2>2, <2>3
  <2> QED BY <2>1, <2>4, CheckQuorumRecovers
<1>4. ASSUME NEW n \in Correct, NEW items, OnBlockResponse(n, items) PROVE AllRecover'
  <2>1. Advance(n) \/ UNCHANGED nodeVars
    BY <1>4 DEF OnBlockResponse
  <2> QED BY <2>1, AdvanceRecovers, KeepRecovers DEF nodeVars
<1>5. ASSUME NEW n \in Correct, Restart(n) PROVE AllRecover'
  BY <1>5, AdvanceRecovers DEF Restart
<1>6. ASSUME NEW n \in Correct,
             \/ \E b \in proposals[n] : OnProposalRequest(n, b)
             \/ ReceiveFutureVote(n) \/ ReceiveHello(n) \/ ReceiveFalseHeight(n)
      PROVE  AllRecover'
  BY <1>6, KeepRecovers DEF OnProposalRequest, ReceiveFutureVote, OnFutureVote,
     ReceiveHello, OnHello, ReceiveFalseHeight, LearnHeight, nodeVars
<1>7. CASE UNCHANGED vars
  BY <1>7, KeepRecovers DEF vars, nodeVars
<1>8. ASSUME NEW n \in Correct, ReceiveProposal(n) \/ ReceiveVote(n) PROVE AllRecover'
  BY <1>2, <1>3, <1>8 DEF ReceiveProposal, ReceiveVote
<1>9. ASSUME NEW n \in Correct, ReceiveBlocks(n) \/ ReceiveFaultyBlocks(n) PROVE AllRecover'
  BY <1>4, <1>9 DEF ReceiveBlocks, ReceiveFaultyBlocks
<1> QED
  BY <1>1, <1>5, <1>6, <1>7, <1>8, <1>9 DEF Next

\* No handler, of whichever message, ends with a decided block uncommitted or a
\* lock without the proposal and the vote that a time-out sends again.
THEOREM NobodyIsStranded == Spec => []NoneIsStranded
<1>1. Init => AllRecover
  BY NothingDecided DEF Init, AllRecover, Recovers
<1>2. TypeOK /\ AllRecover /\ [Next]_vars => AllRecover'
  BY RecoverStep
<1>3. AllRecover => NoneIsStranded
  BY DEF AllRecover, Recovers, NoneIsStranded, QuorumIsCommitted, LockIsBacked
<1> QED
  BY <1>1, <1>2, <1>3, TypeCorrect, PTL DEF Spec
-----------------------------------------------------------------------------
(* The engine implements Finality.  Below the faults that the protocol       *)
(* tolerates, ledgers agree, so that the shorter of two is a prefix of the   *)
(* longer; a node that commits takes over what another node has, or moves    *)
(* one block beyond its own ledger, so that the longest ledger of all never  *)
(* grows by more than a block, and that block follows on what was final.     *)

\* Ledgers that agree.  L[n] is n's.
Agreeing(L) ==
  /\ DOMAIN L = Correct
  /\ \A n \in Correct : IsSequence(L[n]) /\ Len(L[n]) <= MaxHeight
  /\ \A m, n \in Correct : \A h \in (DOMAIN L[m]) \cap (DOMAIN L[n]) :
       L[m][h].block = L[n][h].block

LongestOf(L) == CHOOSE n \in Correct : \A m \in Correct : Len(L[m]) <= Len(L[n])

\* A sequence and its blocks.
LEMMA BlocksAre ==
  ASSUME NEW s, IsSequence(s)
  PROVE  /\ Len(s) \in Nat /\ DOMAIN s = 1 .. Len(s)
         /\ IsSequence(BlocksOf(s)) /\ Len(BlocksOf(s)) = Len(s)
         /\ DOMAIN BlocksOf(s) = 1 .. Len(s)
         /\ \A h \in 1 .. Len(s) : BlocksOf(s)[h] = s[h].block
<1> DEFINE S == {s[i].block : i \in DOMAIN s}
           t == BlocksOf(s)
<1>1. Len(s) \in Nat /\ DOMAIN s = 1 .. Len(s)
  BY LenProperties DEF IsSequence
<1>2. t \in [1 .. Len(s) -> S] /\ \A h \in 1 .. Len(s) : t[h] = s[h].block
  BY <1>1 DEF BlocksOf
<1> HIDE DEF S, t
<1>3. t \in Seq(S)
  BY <1>1, <1>2, SeqDef
<1>4. Len(t) = Len(s) /\ DOMAIN t = 1 .. Len(s)
  BY <1>1, <1>2, <1>3, LenProperties
<1>5. IsSequence(t)
  BY <1>3, SequenceOverItself
<1> QED BY <1>1, <1>2, <1>4, <1>5 DEF t

\* Heights are bounded, so there is a longest ledger.
LEMMA LongestIs ==
  ASSUME NEW L, Agreeing(L), Correct # {}
  PROVE  /\ LongestOf(L) \in Correct
         /\ \A m \in Correct : Len(L[m]) <= Len(L[LongestOf(L)])
<1> DEFINE Missing == {MaxHeight - Len(L[n]) : n \in Correct}
           less == OpToRel(<, Nat)
<1>1. \A n \in Correct : Len(L[n]) \in Nat /\ Len(L[n]) <= MaxHeight
  BY BlocksAre DEF Agreeing
<1>2. Missing \subseteq Nat /\ Missing # {}
  BY <1>1, ConstantsAssumption
<1>3. PICK x \in Missing : \A y \in Missing : ~(<<y, x>> \in less)
  <2>1. IsWellFoundedOn(less, Nat)
    BY NatLessThanWellFounded
  <2> HIDE DEF less, Missing
  <2> QED BY <1>2, <2>1, WFMin
<1>4. \A y \in Missing : ~(y < x)
  BY <1>2, <1>3 DEF OpToRel
<1>5. PICK n \in Correct : x = MaxHeight - Len(L[n])
  OBVIOUS
<1>6. ASSUME NEW m \in Correct PROVE Len(L[m]) <= Len(L[n])
  <2>1. ~(MaxHeight - Len(L[m]) < MaxHeight - Len(L[n]))
    BY <1>4, <1>5
  <2> QED BY <1>1, <2>1, ConstantsAssumption
<1>7. \E k \in Correct : \A m \in Correct : Len(L[m]) <= Len(L[k])
  BY <1>6
<1> QED BY <1>7, Zenon DEF LongestOf

\* Every ledger is a prefix of the longest.
LEMMA PrefixOfLongest ==
  ASSUME NEW L, Agreeing(L), Correct # {}, NEW n \in Correct
  PROVE  BlocksOf(L[n]) = SubSeq(BlocksOf(L[LongestOf(L)]), 1, Len(L[n]))
<1> DEFINE l == LongestOf(L)
           s == BlocksOf(L[n])
           F == BlocksOf(L[l])
           p == SubSeq(F, 1, Len(L[n]))
<1>1. l \in Correct /\ Len(L[n]) <= Len(L[l])
  BY LongestIs
<1>2. /\ IsSequence(L[n]) /\ IsSequence(L[l])
      /\ \A h \in (DOMAIN L[n]) \cap (DOMAIN L[l]) : L[n][h].block = L[l][h].block
  BY <1>1 DEF Agreeing
<1> HIDE DEF l
<1>3. /\ Len(L[n]) \in Nat /\ DOMAIN L[n] = 1 .. Len(L[n])
      /\ IsSequence(s) /\ Len(s) = Len(L[n]) /\ DOMAIN s = 1 .. Len(L[n])
      /\ \A h \in 1 .. Len(L[n]) : s[h] = L[n][h].block
  BY <1>2, BlocksAre
<1>4. /\ Len(L[l]) \in Nat /\ DOMAIN L[l] = 1 .. Len(L[l])
      /\ IsSequence(F) /\ Len(F) = Len(L[l]) /\ DOMAIN F = 1 .. Len(L[l])
      /\ \A h \in 1 .. Len(L[l]) : F[h] = L[l][h].block
  BY <1>2, BlocksAre
<1> HIDE DEF s, F
<1>5. \A h \in 1 .. Len(L[n]) : h \in 1 .. Len(L[l]) /\ F[h] = s[h]
  BY <1>1, <1>2, <1>3, <1>4
<1>6. s \in Seq({s[h] : h \in DOMAIN s}) /\ \A h \in 1 .. Len(L[n]) : F[h] \in {s[h1] : h1 \in DOMAIN s}
  BY <1>3, <1>5 DEF IsSequence
<1>7. /\ p \in Seq({s[h] : h \in DOMAIN s})
      /\ Len(p) = (IF 1 <= Len(L[n]) THEN Len(L[n]) - 1 + 1 ELSE 0)
      /\ \A i \in 1 .. Len(L[n]) - 1 + 1 : p[i] = F[1 + i - 1]
  BY <1>3, <1>6, SubSeqProperties
<1>8. Len(p) = Len(s) /\ \A i \in 1 .. Len(s) : p[i] = s[i]
  BY <1>3, <1>5, <1>7
<1>9. p = s
  <2> HIDE DEF p
  <2> QED BY <1>6, <1>7, <1>8, SeqEqual
<1> QED BY <1>9 DEF s, F, p, l

\* One ledger grows, to no more than one block above what somebody has.
Grows(L, M, n) ==
  /\ Agreeing(L) /\ Agreeing(M)
  /\ M = [L EXCEPT ![n] = M[n]]
  /\ Len(M[n]) > Len(L[n])
  /\ \E m \in Correct : Len(M[n]) <= Len(L[m]) + 1

\* Then the longest ledger stays the same, or grows by the block that was new.
LEMMA LongestGrows ==
  ASSUME Correct # {}, NEW L, NEW M, NEW n \in Correct, Grows(L, M, n),
         \A h \in 1 .. Len(L[n]) : M[n][h] = L[n][h],
         NEW F, F = BlocksOf(L[LongestOf(L)]), NEW G, G = BlocksOf(M[LongestOf(M)])
  PROVE  /\ Len(G) \in {Len(F), Len(F) + 1}
         /\ SubSeq(G, 1, Len(F)) = F
         /\ Len(M[n]) \in 1 .. Len(G)
         /\ Len(G) > Len(F) => Len(M[n]) = Len(G)
<1> DEFINE l == LongestOf(L)
           g == LongestOf(M)
<1>1. /\ l \in Correct /\ \A m \in Correct : Len(L[m]) <= Len(L[l])
      /\ g \in Correct /\ \A m \in Correct : Len(M[m]) <= Len(M[g])
  BY LongestIs DEF Grows
<1>2. F = BlocksOf(L[l]) /\ G = BlocksOf(M[g])
  OBVIOUS
<1> HIDE DEF l, g
<1>3. \A m \in Correct : /\ IsSequence(L[m]) /\ Len(L[m]) \in Nat /\ DOMAIN L[m] = 1 .. Len(L[m])
                         /\ IsSequence(M[m]) /\ Len(M[m]) \in Nat /\ DOMAIN M[m] = 1 .. Len(M[m])
  BY BlocksAre DEF Grows, Agreeing
<1>4. /\ Len(F) = Len(L[l]) /\ IsSequence(F) /\ DOMAIN F = 1 .. Len(F)
      /\ \A h \in 1 .. Len(F) : F[h] = L[l][h].block
      /\ Len(G) = Len(M[g]) /\ IsSequence(G) /\ DOMAIN G = 1 .. Len(G)
      /\ \A h \in 1 .. Len(G) : G[h] = M[g][h].block
  BY <1>1, <1>2, <1>3, BlocksAre
<1>5. \A m \in Correct : m # n => M[m] = L[m]
  BY DEF Grows, Agreeing
<1>6. \A m \in Correct : Len(L[m]) <= Len(M[m])
  <2>1. Len(L[n]) <= Len(M[n])
    BY <1>3 DEF Grows
  <2> QED BY <1>3, <1>5, <2>1
<1>7. Len(M[n]) <= Len(L[l]) + 1
  <2>1. ASSUME NEW m \in Correct, Len(M[n]) <= Len(L[m]) + 1 PROVE Len(M[n]) <= Len(L[l]) + 1
    BY <1>1, <1>3, <2>1
  <2> QED BY <2>1 DEF Grows
<1>8. Len(G) \in {Len(F), Len(F) + 1} /\ (Len(G) > Len(F) => g = n)
  <2>1. Len(L[l]) <= Len(M[g])
    BY <1>1, <1>3, <1>6
  <2>2. CASE g = n
    <3>1. Len(M[g]) <= Len(L[l]) + 1
      BY <1>7, <2>2
    <3> QED BY <1>1, <1>3, <1>4, <2>1, <2>2, <3>1
  <2>3. CASE g # n
    <3>1. Len(M[g]) <= Len(L[l])
      BY <1>1, <1>5, <2>3
    <3> QED BY <1>1, <1>3, <1>4, <2>1, <3>1
  <2> QED BY <2>2, <2>3
<1>9. Len(M[n]) \in 1 .. Len(G) /\ (Len(G) > Len(F) => Len(M[n]) = Len(G))
  <2>1. Len(M[n]) <= Len(M[g]) /\ Len(M[n]) > Len(L[n])
    BY <1>1 DEF Grows
  <2> QED BY <1>1, <1>3, <1>4, <1>8, <2>1
<1>10. ASSUME NEW h \in 1 .. Len(F) PROVE h \in 1 .. Len(G) /\ G[h] = F[h]
  <2>1. h \in 1 .. Len(G) /\ h \in DOMAIN L[l] /\ h \in DOMAIN M[l] /\ h \in DOMAIN M[g]
    BY <1>1, <1>3, <1>4, <1>6, <1>8
  <2>2. M[l][h].block = M[g][h].block
    BY <1>1, <2>1 DEF Grows, Agreeing
  <2>3. M[l][h] = L[l][h]
    <3>1. CASE l = n
      BY <1>1, <1>3, <1>4, <3>1
    <3>2. CASE l # n
      BY <1>1, <1>5, <3>2
    <3> QED BY <3>1, <3>2
  <2> QED BY <1>4, <2>1, <2>2, <2>3
<1>11. SubSeq(G, 1, Len(F)) = F
  <2> DEFINE p == SubSeq(G, 1, Len(F))
             S == {F[h] : h \in DOMAIN F}
  <2>1. F \in Seq(S) /\ Len(F) \in Nat /\ \A h \in 1 .. Len(F) : G[h] \in S
    BY <1>1, <1>3, <1>4, <1>10 DEF IsSequence
  <2> HIDE DEF S
  <2>2. /\ p \in Seq(S) /\ Len(p) = (IF 1 <= Len(F) THEN Len(F) - 1 + 1 ELSE 0)
        /\ \A i \in 1 .. Len(F) - 1 + 1 : p[i] = G[1 + i - 1]
    BY <2>1, SubSeqProperties
  <2>3. Len(p) = Len(F) /\ \A i \in 1 .. Len(F) : p[i] = F[i]
    BY <1>10, <2>1, <2>2
  <2> HIDE DEF p
  <2>4. p = F
    BY <2>1, <2>2, <2>3, SeqEqual
  <2> QED BY <2>4 DEF p
<1> QED BY <1>8, <1>9, <1>11

\* Either way that is a step of Finality.
LEMMA GrowthIsFinal ==
  ASSUME Correct # {}, NEW n \in Correct, Grows(store, store', n),
         \A h \in 1 .. Len(store[n]) : store'[n][h] = store[n][h]
  PROVE  Final!Next
<1> DEFINE F == BlocksOf(store[Longest])
           G == F'
           k == Len(store'[n])
<1>1. Longest = LongestOf(store) /\ Longest' = LongestOf(store')
  BY DEF Longest, LongestOf, Height
<1>2. F = BlocksOf(store[LongestOf(store)]) /\ G = BlocksOf(store'[LongestOf(store')])
  BY <1>1
<1>3. /\ Len(G) \in {Len(F), Len(F) + 1} /\ SubSeq(G, 1, Len(F)) = F
      /\ k \in 1 .. Len(G) /\ (Len(G) > Len(F) => k = Len(G))
  <2> HIDE DEF F, G
  <2> QED BY <1>2, LongestGrows
<1>4. /\ \A m \in Correct : BlocksOf(store'[m]) = IF m = n THEN SubSeq(G, 1, k)
                                                           ELSE BlocksOf(store[m])
  <2>1. BlocksOf(store'[n]) = SubSeq(G, 1, k)
    BY <1>2, PrefixOfLongest DEF Grows
  <2>2. \A m \in Correct : m # n => store'[m] = store[m]
    BY DEF Grows, Agreeing
  <2> QED BY <2>1, <2>2
<1>5. /\ Len(BlocksOf(store[n])) = Len(store[n]) /\ k > Len(store[n])
      /\ Len(store[n]) \in Nat /\ k \in Nat /\ k <= MaxHeight
  BY BlocksAre DEF Grows, Agreeing
<1> HIDE DEF F, G, k
<1>6. [m \in Correct |-> BlocksOf(store'[m])]
        = [[m \in Correct |-> BlocksOf(store[m])] EXCEPT ![n] = SubSeq(G, 1, k)]
  BY <1>4
<1>7. k > Len([m \in Correct |-> BlocksOf(store[m])][n])
  BY <1>5
<1>8. k \in 1 .. MaxHeight
  BY <1>5, ConstantsAssumption
<1>9. Final!Commit(n, k)
  BY <1>3, <1>6, <1>7 DEF Final!Commit, F, G
<1> QED BY <1>8, <1>9 DEF Final!Next

\* What a step does to the ledgers, and to the blocks that nodes know.
Bounded ==
  /\ \A n \in Correct : \A b \in proposals[n] : b.height <= MaxHeight
  /\ \A m \in proposalMsgs : m.block.height <= MaxHeight
  /\ \A n \in Correct : Len(store[n]) <= MaxHeight

\* n's ledger gets more blocks.
Gets(n, t) ==
  /\ store' = [store EXCEPT ![n] = t]
  /\ IsSequence(t) /\ Len(t) > Len(store[n]) /\ Len(t) <= MaxHeight
  /\ \A h \in 1 .. Len(store[n]) : t[h] = store[n][h]
  /\ \E m \in Correct : Len(t) <= Len(store[m]) + 1

LedgerStep == UNCHANGED store \/ \E n \in Correct : \E t : Gets(n, t)

\* The first part of Bounded.
ProposalsBounded == \A n \in Correct : \A b \in proposals[n] : b.height <= MaxHeight

\* checkQuorum appends a block that the node knows.
LEMMA CheckQuorumGets ==
  ASSUME IInv, Bounded, NEW n \in Correct, NEW r, NEW recorded, NEW lock, NEW known,
         \A b \in known : VerifyBlock(store[n], b) /\ b.height <= MaxHeight,
         CheckQuorum(n, r, known, recorded, lock)
  PROVE  LedgerStep /\ ProposalsBounded'
<1>1. IsSequence(store[n]) /\ n \in DOMAIN proposals /\ DOMAIN proposals = Correct
  BY DEF IInv, TypeOK
<1>2. CASE \E b \in Decidable(known, recorded) :
             /\ store' = [store EXCEPT ![n] =
                            Append(@, [block |-> b, voters |-> VotersFor(recorded, b)])]
             /\ Advance(n)
  <2>0. PICK b \in known :
             \E e : /\ store' = [store EXCEPT ![n] = Append(store[n], e)]
                    /\ Advance(n)
    BY <1>2 DEF Decidable
  <2>1. PICK e : /\ store' = [store EXCEPT ![n] = Append(store[n], e)]
                 /\ Advance(n)
    BY <2>0
  <2> DEFINE t == Append(store[n], e)
  <2>2. /\ IsSequence(t) /\ Len(store[n]) \in Nat /\ Len(t) = Len(store[n]) + 1
        /\ \A h \in 1 .. Len(store[n]) : t[h] = store[n][h]
    BY <1>1, AppendExtends
  <2>3. b.height = Len(store[n]) + 1 /\ b.height <= MaxHeight
    BY DEF VerifyBlock
  <2>4. store' = [store EXCEPT ![n] = t]
    BY <2>1
  <2> HIDE DEF t
  <2>5. Len(t) > Len(store[n]) /\ Len(t) <= MaxHeight /\ Len(t) <= Len(store[n]) + 1
    BY <2>2, <2>3
  <2>6. Gets(n, t)
    BY <2>2, <2>4, <2>5 DEF Gets
  <2>7. ProposalsBounded'
    BY <1>1, <2>1 DEF Advance, ProposalsBounded, Bounded
  <2> QED BY <2>6, <2>7 DEF LedgerStep
<1>3. CASE /\ proposals' = [proposals EXCEPT ![n] = known]
           /\ UNCHANGED store
  BY <1>1, <1>3 DEF LedgerStep, ProposalsBounded, Bounded
<1> QED BY <1>2, <1>3 DEF CheckQuorum

\* The blocks that are applied follow on the node's own.
LEMMA ItemsFollow ==
  ASSUME NEW n \in Correct, IsSequence(store[n]), NEW items, IsSequence(items),
         NEW k \in 1 .. Len(items), Applicable(n, items, k)
  PROVE  items[k].block.height = Len(store[n]) + k
<1>1. Len(items) \in Nat /\ Len(store[n]) \in Nat
  BY LenProperties DEF IsSequence
<1>2. k - 1 \in 0 .. Len(items) /\ k \in Nat /\ k \in 1 .. k
  BY <1>1
<1>3. Len(store[n] \o SubSeq(items, 1, k - 1)) = Len(store[n]) + (k - 1)
  BY <1>2, ConcatExtends
<1>4. items[k].block.height = Len(store[n] \o SubSeq(items, 1, k - 1)) + 1
  BY <1>2 DEF Applicable, VerifyBlock
<1> DEFINE below == Len(store[n] \o SubSeq(items, 1, k - 1))
<1>5. below = Len(store[n]) + (k - 1) /\ items[k].block.height = below + 1
  BY <1>3, <1>4
<1> HIDE DEF below
<1> QED BY <1>1, <1>2, <1>5

\* An answer adds blocks that somebody has, and one block above them at most.
LEMMA ResponseGets ==
  ASSUME IInv, Bounded, NEW n \in Correct, NEW items, IsSequence(items),
         OnBlockResponse(n, items),
         \A i \in 1 .. Len(items) : items[i].block.height <= MaxHeight,
         \E m \in Correct : Len(store[n]) + Len(items) <= Len(store[m]) + 1
  PROVE  LedgerStep /\ ProposalsBounded' /\ UNCHANGED proposalMsgs
<1>1. PICK k \in 0 .. Len(items) :
        /\ Applicable(n, items, k)
        /\ IF k > 0
             THEN /\ store' = [store EXCEPT ![n] = @ \o SubSeq(items, 1, k)]
                  /\ Advance(n)
             ELSE UNCHANGED nodeVars
        /\ UNCHANGED proposalMsgs
  BY DEF OnBlockResponse
<1>2. IsSequence(store[n]) /\ DOMAIN proposals = Correct /\ Len(items) \in Nat
  BY LenProperties DEF IInv, TypeOK, IsSequence
<1>3. CASE k = 0
  BY <1>1, <1>3 DEF nodeVars, LedgerStep, ProposalsBounded, Bounded
<1>4. CASE k # 0
  <2> DEFINE t == store[n] \o SubSeq(items, 1, k)
  <2>1. /\ IsSequence(t) /\ Len(store[n]) \in Nat /\ Len(t) = Len(store[n]) + k
        /\ \A h \in 1 .. Len(store[n]) + k :
             t[h] = IF h <= Len(store[n]) THEN store[n][h] ELSE items[h - Len(store[n])]
    BY <1>2, ConcatExtends
  <2>2. store' = [store EXCEPT ![n] = t] /\ Advance(n)
    <3>1. k > 0
      BY <1>2, <1>4
    <3>2. store' = [store EXCEPT ![n] = @ \o SubSeq(items, 1, k)] /\ Advance(n)
      BY <1>1, <3>1
    <3> QED BY <3>2
  <2> HIDE DEF t
  <2>3. k \in 1 .. Len(items)
    BY <1>2, <1>4
  <2>4. items[k].block.height = Len(t)
    BY <1>1, <1>2, <2>1, <2>3, ItemsFollow
  <2>5. Len(t) <= MaxHeight /\ Len(t) > Len(store[n])
    BY <2>1, <2>3, <2>4
  <2>6. \A h \in 1 .. Len(store[n]) : t[h] = store[n][h]
    BY <2>1, <2>3
  <2>7. \E m \in Correct : Len(t) <= Len(store[m]) + 1
    <3>1. PICK m \in Correct : Len(store[n]) + Len(items) <= Len(store[m]) + 1
      OBVIOUS
    <3>2. Len(store[m]) \in Nat
      BY LenProperties DEF IInv, TypeOK, IsSequence
    <3> QED BY <1>2, <2>1, <2>3, <3>1, <3>2
  <2>8. Gets(n, t)
    BY <2>1, <2>2, <2>5, <2>6, <2>7 DEF Gets
  <2>9. ProposalsBounded'
    BY <1>2, <2>2 DEF Advance, ProposalsBounded, Bounded
  <2> QED BY <1>1, <2>8, <2>9 DEF LedgerStep
<1> QED BY <1>3, <1>4

\* Blocks of a faulty proposer are bounded, too.
LEMMA FaultyBlocksBounded ==
  ASSUME NEW n, NEW b \in FaultyBlocks(n)
  PROVE  b.height <= MaxHeight
BY DEF FaultyBlocks

\* What a peer answers ends where its own ledger does.
LEMMA AnswerFits ==
  ASSUME IInv, Bounded, NEW n \in Correct, NEW m \in Correct, NEW to \in 0 .. Height(m)
  PROVE  LET items == BlocksAbove(n, m, to) IN
         /\ IsSequence(items) /\ Len(items) \in Nat
         /\ \A i \in 1 .. Len(items) : items[i].block.height <= MaxHeight
         /\ \E l \in Correct : Len(store[n]) + Len(items) <= Len(store[l])
<1> DEFINE items == BlocksAbove(n, m, to)
<1>1. /\ IsSequence(items)
      /\ Len(items) = IF NextHeight(n) <= to THEN to - NextHeight(n) + 1 ELSE 0
      /\ \A i \in 1 .. Len(items) : /\ NextHeight(n) + i - 1 \in DOMAIN store[m]
                                    /\ items[i] = store[m][NextHeight(n) + i - 1]
  BY NextHeightType, AnswerIsSequence DEF IInv, TypeOK, Height, BlocksAbove
<1>2. /\ DOMAIN store[m] = 1 .. Len(store[m]) /\ Len(store[m]) \in Nat /\ Len(store[m]) <= MaxHeight
      /\ \A h \in DOMAIN store[m] : store[m][h].block.height = h
  BY BlocksAre DEF IInv, TypeOK, NodeSafe, Bounded
<1>3. Len(store[n]) \in Nat /\ NextHeight(n) = Len(store[n]) + 1 /\ to \in 0 .. Len(store[m])
  BY LenProperties DEF IInv, TypeOK, IsSequence, NextHeight, Height
<1> HIDE DEF items
<1>4. ASSUME NEW i \in 1 .. Len(items) PROVE items[i].block.height <= MaxHeight
  <2> DEFINE h == NextHeight(n) + i - 1
  <2>1. h \in DOMAIN store[m] /\ items[i] = store[m][h]
    BY <1>1
  <2> HIDE DEF h
  <2>2. items[i].block.height = h /\ h \in 1 .. Len(store[m])
    BY <1>2, <2>1
  <2> QED BY <1>2, <2>2, ConstantsAssumption
<1>5. Len(items) \in Nat
  BY <1>1, <1>2, <1>3
<1>6. \E l \in Correct : Len(store[n]) + Len(items) <= Len(store[l])
  <2>1. CASE NextHeight(n) <= to
    <3>1. Len(store[n]) + Len(items) <= Len(store[m])
      BY <1>1, <1>2, <1>3, <2>1
    <3> QED BY <3>1
  <2>2. CASE ~(NextHeight(n) <= to)
    <3>1. Len(store[n]) + Len(items) <= Len(store[n])
      BY <1>1, <1>3, <2>2
    <3> QED BY <3>1
  <2> QED BY <2>1, <2>2
<1> QED BY <1>1, <1>4, <1>5, <1>6 DEF items

\* A step adds blocks to one ledger at most, and no block above the bound.
LEMMA StepGets ==
  ASSUME IInv, Bounded, [Next]_vars
  PROVE  LedgerStep /\ Bounded'
<1>1. ASSUME LedgerStep PROVE \A n \in Correct : Len(store'[n]) <= MaxHeight
  <2>1. DOMAIN store = Correct
    BY DEF IInv, TypeOK
  <2>2. CASE UNCHANGED store
    BY <2>2 DEF Bounded
  <2>3. ASSUME NEW n \in Correct, NEW t, Gets(n, t)
        PROVE  \A m \in Correct : Len(store'[m]) <= MaxHeight
    BY <2>1, <2>3 DEF Gets, Bounded
  <2> QED BY <1>1, <2>2, <2>3 DEF LedgerStep
<1>2. ASSUME LedgerStep, ProposalsBounded', \A m \in proposalMsgs' : m.block.height <= MaxHeight
      PROVE  LedgerStep /\ Bounded'
  BY <1>1, <1>2 DEF Bounded, ProposalsBounded
<1>3. ASSUME UNCHANGED <<store, proposals, proposalMsgs>> PROVE LedgerStep /\ Bounded'
  BY <1>3 DEF Bounded, LedgerStep
<1>4. \A n \in Correct : \A b \in proposals[n] : VerifyBlock(store[n], b) /\ b.height <= MaxHeight
  BY DEF IInv, NodeSafe, Bounded
<1>5. ASSUME NEW n \in Correct, TickRotate(n) PROVE LedgerStep /\ Bounded'
  <2>1. ASSUME NEW m \in proposalMsgs', m \notin proposalMsgs PROVE m.block \in proposals[n]
    <3>1. PICK b \in myVote[n] \cap proposals[n] : m = [round |-> RoundAfter(n, TRUE), block |-> b]
      BY <1>5, <2>1 DEF TickRotate
    <3> QED BY <3>1
  <2>2. UNCHANGED <<store, proposals>>
    BY <1>5 DEF TickRotate
  <2> QED BY <2>1, <2>2 DEF Bounded, LedgerStep
<1>6. ASSUME NEW n \in Correct, NEW late \in BOOLEAN, NEW p \in Payloads,
             TickPropose(n, late, p)
      PROVE  LedgerStep /\ Bounded'
  <2> DEFINE b == Draft(n, p)
  <2>1. VerifyBlock(store[n], b) /\ b.height <= MaxHeight
    BY <1>6 DEF TickPropose, MayVote, VerifyBlock, Draft, NextHeight, Height
  <2>2. /\ CheckQuorum(n, RoundAfter(n, late), proposals[n] \cup {b},
                       RecordVote(votes[n], n, b), {b})
        /\ proposalMsgs' = proposalMsgs \cup {[round |-> RoundAfter(n, late), block |-> b]}
    BY <1>6 DEF TickPropose
  <2> HIDE DEF b
  <2>3. LedgerStep /\ ProposalsBounded'
    BY <1>4, <2>1, <2>2, CheckQuorumGets
  <2>4. \A m \in proposalMsgs' : m.block.height <= MaxHeight
    BY <2>1, <2>2 DEF Bounded
  <2> QED BY <1>2, <2>3, <2>4
<1>7. ASSUME NEW n \in Correct, NEW r, NEW b, b.height <= MaxHeight, OnProposal(n, r, b)
      PROVE  LedgerStep /\ Bounded'
  <2>1. VerifyBlock(store[n], b)
    BY <1>7 DEF OnProposal, IInv, NodeSafe
  <2>2. \E recorded, lock : CheckQuorum(n, round[n], proposals[n] \cup {b}, recorded, lock)
    BY <1>7 DEF OnProposal
  <2>3. LedgerStep /\ ProposalsBounded'
    BY <1>4, <1>7, <2>1, <2>2, CheckQuorumGets
  <2>4. UNCHANGED proposalMsgs
    BY <1>7 DEF OnProposal
  <2> QED BY <1>2, <2>3, <2>4 DEF Bounded
<1>8. ASSUME NEW n \in Correct, NEW v, NEW b, OnVote(n, v, b) PROVE LedgerStep /\ Bounded'
  <2>1. /\ CheckQuorum(n, round[n], proposals[n], RecordVote(votes[n], v, b), myVote[n])
        /\ UNCHANGED proposalMsgs
    BY <1>8 DEF OnVote
  <2>2. LedgerStep /\ ProposalsBounded'
    BY <1>4, <2>1, CheckQuorumGets
  <2> QED BY <1>2, <2>1, <2>2 DEF Bounded
<1>9. ASSUME NEW n \in Correct, NEW b \in proposals[n], OnProposalRequest(n, b)
      PROVE  LedgerStep /\ Bounded'
  <2>1. /\ UNCHANGED <<store, proposals>>
        /\ \A m \in proposalMsgs' : m \in proposalMsgs \/ m.block = b
    BY <1>9 DEF OnProposalRequest, nodeVars
  <2> QED BY <1>4, <2>1 DEF Bounded, LedgerStep
<1>10. ASSUME NEW n \in Correct, ReceiveBlocks(n) PROVE LedgerStep /\ Bounded'
  <2>1. PICK m \in Correct : \E to \in 1 .. Height(m) : OnBlockResponse(n, BlocksAbove(n, m, to))
    BY <1>10 DEF ReceiveBlocks
  <2>2. PICK to \in 1 .. Height(m) : OnBlockResponse(n, BlocksAbove(n, m, to))
    BY <2>1
  <2>3. to \in 0 .. Height(m)
    OBVIOUS
  <2> DEFINE items == BlocksAbove(n, m, to)
  <2>4. /\ IsSequence(items) /\ Len(items) \in Nat
        /\ \A i \in 1 .. Len(items) : items[i].block.height <= MaxHeight
        /\ \E l \in Correct : Len(store[n]) + Len(items) <= Len(store[l])
    BY <2>3, AnswerFits
  <2> HIDE DEF items
  <2>5. \E l \in Correct : Len(store[n]) + Len(items) <= Len(store[l]) + 1
    <3>1. \A l \in Correct : Len(store[l]) \in Nat
      BY LenProperties DEF IInv, TypeOK, IsSequence
    <3> QED BY <2>4, <3>1
  <2>6. OnBlockResponse(n, items)
    BY <2>2 DEF items
  <2>7. LedgerStep /\ ProposalsBounded' /\ UNCHANGED proposalMsgs
    BY <2>4, <2>5, <2>6, ResponseGets
  <2> QED BY <1>2, <2>7 DEF Bounded
<1>11. ASSUME NEW n \in Correct, ReceiveFaultyBlocks(n) PROVE LedgerStep /\ Bounded'
  <2>1. PICK m \in Correct : \E to \in 0 .. Height(m) : \E b \in SentBlocks \cup FaultyBlocks(n) :
          OnBlockResponse(n, Append(BlocksAbove(n, m, to), [block |-> b, voters |-> Validator]))
    BY <1>11 DEF ReceiveFaultyBlocks
  <2>2. PICK to \in 0 .. Height(m) : \E b \in SentBlocks \cup FaultyBlocks(n) :
          OnBlockResponse(n, Append(BlocksAbove(n, m, to), [block |-> b, voters |-> Validator]))
    BY <2>1
  <2>3. PICK b \in SentBlocks \cup FaultyBlocks(n) :
          OnBlockResponse(n, Append(BlocksAbove(n, m, to), [block |-> b, voters |-> Validator]))
    BY <2>2
  <2>4. b.height <= MaxHeight
    BY FaultyBlocksBounded DEF SentBlocks, Bounded
  <2> DEFINE e == [block |-> b, voters |-> Validator]
             good == BlocksAbove(n, m, to)
             items == Append(good, e)
  <2>5. /\ IsSequence(good) /\ Len(good) \in Nat
        /\ \A i \in 1 .. Len(good) : good[i].block.height <= MaxHeight
        /\ \E l \in Correct : Len(store[n]) + Len(good) <= Len(store[l])
    BY AnswerFits
  <2>6. OnBlockResponse(n, items) /\ e.block = b
    BY <2>3
  <2> HIDE DEF e, good
  <2>7. /\ IsSequence(items) /\ Len(items) = Len(good) + 1
        /\ (\A i \in 1 .. Len(good) : items[i] = good[i]) /\ items[Len(good) + 1] = e
    BY <2>5, AppendExtends
  <2> HIDE DEF items
  <2>8. \A i \in 1 .. Len(items) : items[i].block.height <= MaxHeight
    <3> SUFFICES ASSUME NEW i \in 1 .. Len(items) PROVE items[i].block.height <= MaxHeight
      OBVIOUS
    <3>1. i \in 1 .. Len(good) \/ i = Len(good) + 1
      BY <2>5, <2>7
    <3> QED BY <2>4, <2>5, <2>6, <2>7, <3>1
  <2>9. \E l \in Correct : Len(store[n]) + Len(items) <= Len(store[l]) + 1
    <3>1. \A l \in Correct : Len(store[l]) \in Nat
      BY LenProperties DEF IInv, TypeOK, IsSequence
    <3>2. PICK l \in Correct : Len(store[n]) + Len(good) <= Len(store[l])
      BY <2>5
    <3>3. \A x, y, z \in Nat : x + y <= z => x + (y + 1) <= z + 1
      OBVIOUS
    <3>4. Len(store[n]) \in Nat /\ Len(good) \in Nat /\ Len(store[l]) \in Nat
      BY <2>5, <3>1
    <3>5. Len(store[n]) + (Len(good) + 1) <= Len(store[l]) + 1
      BY <3>2, <3>3, <3>4, Zenon
    <3> QED BY <2>7, <3>5, Zenon
  <2>10. LedgerStep /\ ProposalsBounded' /\ UNCHANGED proposalMsgs
    BY <2>6, <2>7, <2>8, <2>9, ResponseGets
  <2> QED BY <1>2, <2>10 DEF Bounded
<1>12. ASSUME NEW n \in Correct, Restart(n) PROVE LedgerStep /\ Bounded'
  BY <1>12 DEF Restart, Advance, IInv, TypeOK, Bounded, LedgerStep
<1>13. ASSUME NEW n \in Correct,
              \/ ReceiveFutureVote(n) \/ ReceiveHello(n) \/ ReceiveFalseHeight(n)
              \/ TickSync(n)
       PROVE  LedgerStep /\ Bounded'
  BY <1>3, <1>13 DEF ReceiveFutureVote, OnFutureVote, ReceiveHello, OnHello, LearnHeight,
     ReceiveFalseHeight, TickSync, nodeVars
<1>14. CASE UNCHANGED vars
  BY <1>3, <1>14 DEF vars, nodeVars, netVars
<1>15. ASSUME NEW n \in Correct, ReceiveProposal(n) PROVE LedgerStep /\ Bounded'
  <2>1. \A m \in proposalMsgs : m.block.height <= MaxHeight
    BY DEF Bounded
  <2> QED BY <1>7, <1>15, <2>1, FaultyBlocksBounded DEF ReceiveProposal
<1>16. ASSUME NEW n \in Correct, ReceiveVote(n) PROVE LedgerStep /\ Bounded'
  BY <1>8, <1>16 DEF ReceiveVote
<1>17. ASSUME NEW n \in Correct, Tick(n) PROVE LedgerStep /\ Bounded'
  BY <1>5, <1>6, <1>13, <1>17 DEF Tick
<1> QED
  BY <1>9, <1>10, <1>11, <1>12, <1>13, <1>14, <1>15, <1>16, <1>17 DEF Next

\* Nobody knows a block yet.
LEMMA InitBounded == Init => Bounded
BY ConstantsAssumption DEF Init, Bounded

\* A third of the validators is never all of them.
LEMMA SomeoneIsCorrect ==
  ASSUME Tolerated(0)
  PROVE  Correct # {}
<1>1. CASE Validator \subseteq Faulty
  <2>1. Validator \subseteq Unreliable(0) /\ Unreliable(0) \subseteq Validator
    BY <1>1, ConstantsAssumption DEF Unreliable
  <2>2. Cardinality(Unreliable(0)) = N
    BY <2>1 DEF N
  <2> QED BY <2>2, QuorumArithmetic DEF Tolerated
<1>2. CASE ~(Validator \subseteq Faulty)
  BY <1>2 DEF Correct, Node
<1> QED BY <1>1, <1>2

\* At every height the faults are tolerated.
Safe == \A h \in Nat : Tolerated(h)

\* Ledgers agree, and there is one.
Agree == Agreeing(store) /\ Correct # {}

\* Two certified blocks of a height at which the faults are tolerated are one.
LEMMA InvAgrees ==
  ASSUME IInv, Bounded, Safe
  PROVE  Agree
<1>1. Agreement
  BY CertifiedAgree
<1>2. \A n \in Correct : IsSequence(store[n]) /\ DOMAIN store[n] \subseteq Nat
  <2>1. \A n \in Correct : IsSequence(store[n])
    BY DEF IInv, TypeOK
  <2> QED BY <2>1, BlocksAre
<1>3. DOMAIN store = Correct
  BY DEF IInv, TypeOK
<1>4. Agreeing(store)
  BY <1>1, <1>2, <1>3 DEF Agreeing, Agreement, Bounded, Safe
<1> QED BY <1>4, SomeoneIsCorrect DEF Safe, Agree

\* At first nothing is final.
LEMMA InitIsFinal ==
  ASSUME Init, Safe
  PROVE  Final!Init
<1>1. Correct # {} /\ store = [n \in Correct |-> <<>>]
  BY SomeoneIsCorrect DEF Init, Safe
<1>2. IsSequence(<<>>) /\ Len(<<>>) = 0
  BY SequenceOverItself, EmptySeq
<1>3. BlocksOf(<<>>) = <<>>
  BY DEF BlocksOf
<1>4. Longest \in Correct
  <2>1. \A n \in Correct : Height(n) = 0
    BY <1>1, <1>2 DEF Height
  <2>2. \E n \in Correct : \A m \in Correct : Height(m) <= Height(n)
    BY <1>1, <2>1
  <2> QED BY <2>2, Zenon DEF Longest
<1>5. store[Longest] = <<>> /\ \A n \in Correct : store[n] = <<>>
  BY <1>1, <1>4
<1> QED BY <1>3, <1>5 DEF Final!Init

\* A step of the engine is one of Finality, or changes nothing of it.
LEMMA StepIsFinal ==
  ASSUME IInv, Bounded, Agree, Agree', [Next]_vars
  PROVE  [Final!Next]_Final!vars
<1>1. Agreeing(store) /\ Agreeing(store') /\ Correct # {}
  BY DEF Agree, Agreeing
<1>2. CASE UNCHANGED store
  BY <1>2 DEF Final!vars, Longest, Height
<1>3. ASSUME NEW n \in Correct, NEW t, Gets(n, t) PROVE Final!Next
  <2>1. store'[n] = t /\ store' = [store EXCEPT ![n] = store'[n]]
    BY <1>1, <1>3 DEF Gets, Agreeing
  <2>2. Grows(store, store', n)
    BY <1>1, <1>3, <2>1 DEF Gets, Grows
  <2>3. \A h \in 1 .. Len(store[n]) : store'[n][h] = store[n][h]
    BY <1>3, <2>1 DEF Gets
  <2> QED BY <1>1, <2>2, <2>3, GrowthIsFinal
<1>4. LedgerStep
  BY StepGets
<1> QED BY <1>2, <1>3, <1>4 DEF LedgerStep

\* The engine implements Finality, as long as fewer than a third of the validators
\* are faulty or lost their lock at any one height: there is one chain of final
\* blocks, which only grows, block by block, and of which every ledger is a prefix.
THEOREM FinalityImplemented == Spec /\ []Safe => ImplementsFinality
<1>1. Init /\ Safe => Final!Init
  BY InitIsFinal
<1>2. IInv /\ Bounded /\ [Next]_vars => Bounded'
  BY StepGets
<1>3. IInv /\ Bounded /\ Safe => Agree
  BY InvAgrees
<1>4. IInv /\ Bounded /\ Agree /\ Agree' /\ [Next]_vars => [Final!Next]_Final!vars
  BY StepIsFinal
<1> QED BY <1>1, <1>2, <1>3, <1>4, InitBounded, SafetyInvariant, PTL
        DEF Spec, ImplementsFinality, Final!Spec

\* The validators that lost their lock at a height.
Lost(h) == {v \in Validator : <<v, h>> \in forgot}

FewLost == \A h \in Nat : Cardinality(Lost(h)) <= restarts

\* A restart loses one lock at most.
LEMMA StepFewLost ==
  ASSUME TypeOK, FewLost, [Next]_vars
  PROVE  FewLost'
<1>1. CASE UNCHANGED envVars
  BY <1>1 DEF envVars, FewLost, Lost
<1>2. ASSUME NEW n \in Correct, Restart(n) PROVE FewLost'
  <2> SUFFICES ASSUME NEW h \in Nat PROVE Cardinality(Lost(h)') <= restarts'
    BY DEF FewLost
  <2>1. restarts' = restarts + 1 /\ Lost(h)' \subseteq Lost(h) \cup {n}
    BY <1>2 DEF Restart, Lost
  <2>2. IsFiniteSet(Lost(h)) /\ IsFiniteSet(Lost(h) \cup {n})
    BY ConstantsAssumption, FS_Subset, FS_AddElement, FS_Union DEF Lost
  <2>3. /\ Cardinality(Lost(h)) \in Nat /\ Cardinality(Lost(h)) <= restarts
        /\ Cardinality(Lost(h) \cup {n}) <= Cardinality(Lost(h)) + 1
        /\ Cardinality(Lost(h) \cup {n}) \in Nat
    BY <2>2, FS_CardinalityType, FS_AddElement DEF FewLost
  <2>4. Cardinality(Lost(h)') <= Cardinality(Lost(h) \cup {n}) /\ Cardinality(Lost(h)') \in Nat
    BY <2>1, <2>2, FS_Subset, FS_CardinalityType
  <2>5. restarts \in Nat
    BY DEF TypeOK
  <2> QED BY <2>1, <2>3, <2>4, <2>5
<1>3. ASSUME NEW n \in Correct, Tick(n) PROVE UNCHANGED envVars
  BY <1>3 DEF Tick, TickSync, TickRotate, TickPropose
<1>4. ASSUME NEW n \in Correct, ReceiveProposal(n) PROVE UNCHANGED envVars
  BY <1>4 DEF ReceiveProposal, OnProposal
<1>5. ASSUME NEW n \in Correct, ReceiveVote(n) PROVE UNCHANGED envVars
  BY <1>5 DEF ReceiveVote, OnVote
<1>6. ASSUME NEW n \in Correct, NEW b, OnProposalRequest(n, b) PROVE UNCHANGED envVars
  BY <1>6 DEF OnProposalRequest
<1>7. ASSUME NEW n \in Correct,
             ReceiveFutureVote(n) \/ ReceiveHello(n) \/ ReceiveFalseHeight(n)
      PROVE  UNCHANGED envVars
  BY <1>7 DEF ReceiveFutureVote, OnFutureVote, ReceiveHello, OnHello, ReceiveFalseHeight,
     LearnHeight
<1>8. ASSUME NEW n \in Correct, ReceiveBlocks(n) \/ ReceiveFaultyBlocks(n) PROVE UNCHANGED envVars
  BY <1>8 DEF ReceiveBlocks, ReceiveFaultyBlocks, OnBlockResponse
<1>9. CASE UNCHANGED vars
  BY <1>9, <1>1 DEF vars
<1> QED
  BY <1>1, <1>2, <1>3, <1>4, <1>5, <1>6, <1>7, <1>8, <1>9 DEF Next

\* So there is one final chain whenever fewer than a third of the validators are
\* faulty or restart.
THEOREM FinalityBelowAThird ==
  ASSUME 3 * (Cardinality(Faulty) + MaxRestarts) < N
  PROVE  Spec => ImplementsFinality
<1>1. Init => FewLost
  <2> SUFFICES ASSUME Init, NEW h \in Nat PROVE Cardinality(Lost(h)) <= restarts
    BY DEF FewLost
  <2>1. Lost(h) = {} /\ restarts = 0
    BY DEF Init, Lost
  <2> QED BY <2>1, FS_EmptySet
<1>2. TypeOK /\ FewLost /\ [Next]_vars => FewLost'
  BY StepFewLost
<1>3. TypeOK /\ FewLost => Safe
  <2> SUFFICES ASSUME TypeOK, FewLost, NEW h \in Nat PROVE Tolerated(h)
    BY DEF Safe
  <2>1. IsFiniteSet(Faulty) /\ IsFiniteSet(Lost(h)) /\ Unreliable(h) = Faulty \cup Lost(h)
    BY ConstantsAssumption, FS_Subset DEF Lost, Unreliable
  <2>2. /\ Cardinality(Faulty) \in Nat /\ Cardinality(Lost(h)) \in Nat
        /\ Cardinality(Unreliable(h)) \in Nat
        /\ Cardinality(Unreliable(h)) <= Cardinality(Faulty) + Cardinality(Lost(h))
    <3>1. /\ Cardinality(Faulty \cup Lost(h))
               = Cardinality(Faulty) + Cardinality(Lost(h)) - Cardinality(Faulty \cap Lost(h))
          /\ IsFiniteSet(Faulty \cup Lost(h)) /\ IsFiniteSet(Faulty \cap Lost(h))
      BY <2>1, FS_Union, FS_Intersection
    <3>2. /\ Cardinality(Faulty) \in Nat /\ Cardinality(Lost(h)) \in Nat
          /\ Cardinality(Faulty \cup Lost(h)) \in Nat /\ Cardinality(Faulty \cap Lost(h)) \in Nat
      BY <2>1, <3>1, FS_CardinalityType
    <3> QED BY <2>1, <3>1, <3>2
  <2>3. /\ Cardinality(Lost(h)) <= restarts /\ restarts \in Nat /\ restarts <= MaxRestarts
        /\ MaxRestarts \in Nat
    BY ConstantsAssumption DEF FewLost, TypeOK
  <2>4. Cardinality(Unreliable(h)) <= Cardinality(Faulty) + MaxRestarts
    BY <2>2, <2>3
  <2> QED BY <2>2, <2>3, <2>4, QuorumArithmetic DEF Tolerated
<1> QED BY <1>1, <1>2, <1>3, TypeCorrect, FinalityImplemented, PTL DEF Spec
=============================================================================
