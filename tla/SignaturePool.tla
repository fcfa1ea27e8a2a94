----------------------------- MODULE SignaturePool -----------------------------
(***************************************************************************)
(* Checks of the signatures of a block's transactions: chain/src/tx.ts and    *)
(* signature-worker.ts.  A bounded cache of hashes found valid, a check in     *)
(* place for few transactions, and for many a pool of worker threads that     *)
(* serves one request after the other.                                       *)
(***************************************************************************)
EXTENDS Integers, Sequences, FiniteSets, SequencesExt

CONSTANTS
  Hash, Forged,      \* transactions, and those whose signature is wrong
  Caller,            \* requests there may be at a time
  Batches,           \* the sequences of transactions they are about
  Threads,           \* signatureVerificationConcurrency: workers 1 .. Threads
  MinParallel,       \* 128
  MaxVerified,       \* MAX_VERIFIED_SIGNATURES
  MaxPoolFaults      \* bound: workers that die

ASSUME SignatureAssumption ==
  /\ Forged \subseteq Hash /\ Batches \subseteq Seq(Hash)
  /\ Threads \in Nat \ {0, 1} /\ MinParallel \in Nat /\ MaxVerified \in Nat \ {0}

VARIABLES
  cache,     \* verifiedSignatureOrder, from its offset on
  request,   \* caller -> its request
  line,      \* SignatureVerifierPool.queue: callers one after the other
  thread,    \* worker -> its chunk: jobs, and what it found
  dead       \* workers that died

signatureVars == <<cache, request, line, thread, dead>>

NoRequest == [at |-> "none"]
NoChunk == [at |-> "none"]
Threads_ == 1 .. Threads

SignatureInit ==
  /\ cache = <<>> /\ request = [c \in Caller |-> NoRequest] /\ line = <<>>
  /\ thread = [w \in Threads_ |-> NoChunk] /\ dead = {}

IsCached(t) == t \in Range(cache)

(* rememberVerifiedSignature: over the limit, a tenth of it goes, the oldest   *)
(* first; at least one.                                                     *)
Remember(seq, t) ==
  IF t \in Range(seq) THEN seq
  ELSE IF Len(seq) < MaxVerified THEN Append(seq, t)
  ELSE LET trim == IF MaxVerified \div 10 > 1 THEN MaxVerified \div 10 ELSE 1 IN
       SubSeq(Append(seq, t), trim + 1, Len(seq) + 1)

\* (mutant: everything that was checked is remembered)
RememberChecked(jobs) == FoldLeft(LAMBDA seq, j : Remember(seq, j.hash), cache, jobs)

RememberValid(jobs) ==
  FoldLeft(LAMBDA seq, j : IF j.hash \in Forged THEN seq ELSE Remember(seq, j.hash), cache, jobs)

-----------------------------------------------------------------------------
(* verifyTransactionSignatures, of the transactions that are not cached.       *)
JobsOf(ts) ==
  FoldLeft(LAMBDA jobs, i : IF IsCached(ts[i]) THEN jobs
                            ELSE Append(jobs, [index |-> i, hash |-> ts[i]]),
           <<>>, [i \in DOMAIN ts |-> i])

FirstForged(jobs) == SelectInSeq(jobs, LAMBDA j : j.hash \in Forged)

Decided(ts, invalid) == [at |-> "decided", txs |-> ts, invalid |-> invalid]

(* In place: what is valid is remembered up to the first that is not.          *)
VerifyInPlace(c, ts) ==
  LET jobs == JobsOf(ts)
      k == FirstForged(jobs)
      valid == IF k = 0 THEN jobs ELSE SubSeq(jobs, 1, k - 1) IN
  /\ request[c].at # "waits" /\ Len(jobs) < MinParallel
  /\ cache' = RememberValid(valid)
  /\ request' = [request EXCEPT ![c] = Decided(ts, IF k = 0 THEN 0 ELSE jobs[k].index)]
  /\ UNCHANGED <<line, thread, dead>>

VerifyInPool(c, ts) ==
  /\ request[c].at # "waits" /\ Len(JobsOf(ts)) >= MinParallel
  /\ request' = [request EXCEPT ![c] = [at |-> "waits", txs |-> ts, jobs |-> JobsOf(ts)]]
  /\ line' = Append(line, c)
  /\ UNCHANGED <<cache, thread, dead>>

(* verifyNow: equal chunks, in order; postMessage to a dead worker is silent.  *)
Chunk(jobs, w) ==
  LET size == (Len(jobs) + Threads - 1) \div Threads
      last == IF w * size < Len(jobs) THEN w * size ELSE Len(jobs) IN
  SubSeq(jobs, (w - 1) * size + 1, last)

StartChunks ==
  /\ line # <<>> /\ \A w \in Threads_ : thread[w] = NoChunk
  /\ thread' = [w \in Threads_ |->
                  [at |-> IF Chunk(request[Head(line)].jobs, w) = <<>> THEN "answered"
                          ELSE "works",
                   jobs |-> Chunk(request[Head(line)].jobs, w)]]
  /\ UNCHANGED <<cache, request, line, dead>>

WorkerAnswers(w) ==
  /\ thread[w].at = "works" /\ w \notin dead
  /\ thread' = [thread EXCEPT ![w].at = "answered"]
  /\ UNCHANGED <<cache, request, line, dead>>

(* Promise.all: chunks in their order, so the first that is invalid is the     *)
(* lowest of the block.                                                     *)
PoolDecides ==
  LET c == Head(line)
      jobs == FoldLeft(LAMBDA all, chunk : all \o chunk.jobs, <<>>, thread)
      k == FirstForged(jobs) IN
  /\ line # <<>> /\ \A w \in Threads_ : thread[w].at = "answered"
  /\ cache' = RememberValid(jobs)
  /\ request' = [request EXCEPT ![c] =
                   Decided(request[c].txs, IF k = 0 THEN 0 ELSE jobs[k].index)]
  /\ line' = Tail(line) /\ thread' = [w \in Threads_ |-> NoChunk]
  /\ UNCHANGED dead

(* A worker's error rejects the request it works for, and it is not replaced.  *)
WorkerDies(w) ==
  /\ Cardinality(dead) < MaxPoolFaults /\ w \notin dead
  /\ dead' = dead \cup {w}
  /\ IF thread[w].at = "works"
     THEN /\ request' = [request EXCEPT ![Head(line)] = NoRequest]
          /\ line' = Tail(line) /\ thread' = [v \in Threads_ |-> NoChunk]
     ELSE UNCHANGED <<request, line, thread>>
  /\ UNCHANGED cache

SignatureStep == StartChunks \/ PoolDecides \/ \E w \in Threads_ : WorkerAnswers(w)

SignatureNext ==
  \/ \E c \in Caller, ts \in Batches : VerifyInPlace(c, ts) \/ VerifyInPool(c, ts)
  \/ SignatureStep \/ \E w \in Threads_ : WorkerDies(w)

SignatureSpec == SignatureInit /\ [][SignatureNext]_signatureVars

(***************************************************************************)
(* Whatever was cached and evicted, however many requests wait, and whichever *)
(* worker answers first: the answer is the first transaction of the block     *)
(* whose signature is wrong, or that there is none.                         *)
(***************************************************************************)
FirstForgedIsFound ==
  /\ \A t \in Forged : ~IsCached(t)
  /\ \A c \in Caller : request[c].at = "decided" =>
       request[c].invalid = SelectInSeq(request[c].txs, LAMBDA t : t \in Forged)

(* With its workers alive the pool comes free for the next request. *)
SignatureWaits == dead = {} /\ \E w \in Threads_ : thread[w] # NoChunk
=============================================================================
