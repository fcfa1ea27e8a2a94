------------------------------ MODULE DevnetBench ------------------------------
(***************************************************************************)
(* The throughput benchmarks: validators that report their blocks to the       *)
(* controller that submits to them (apps/devnet/bench-10-node-cluster.mjs,     *)
(* validator-worker.mjs), and the one that holds its nodes in one process and   *)
(* counts at the first (bench-10-node.mjs).                                   *)
(*                                                                          *)
(* One funded sender; a transaction is its nonce, and a block their number, as *)
(* consensus (Consensus) orders them.  What a submission sends besides - to     *)
(* replicas, by gossip, or after its time-out - arrives or is lost.           *)
(***************************************************************************)
EXTENDS Integers, Sequences, FiniteSets, SequencesExt

CONSTANTS
  Processes,       \* nodes 0 .. Processes - 1
  Txs,             \* options.txs
  Window,          \* options.mempoolWindow
  Concurrency,     \* options.rpcConcurrency
  MaxAttempts,     \* 40
  MaxBlock,        \* options.maxTxsPerBlock
  WindowConvergence, \* whether the nodes converge between windows, too
  MaxBenchFaults   \* bound: requests that fail, copies lost, calls of
                   \* reportBlocks that overlap

ASSUME BenchAssumption ==
  /\ Processes \in Nat \ {0} /\ Txs \in Nat
  /\ Window \in Nat \ {0} /\ MaxBlock \in Nat \ {0}
  /\ WindowConvergence \in BOOLEAN

VARIABLES
  mode,        \* "cluster" or "in process"
  blocks,      \* the chain: transactions of each block
  at,          \* node -> height
  mempool,     \* node -> nonces
  ingest,      \* [tx, to]: copies under way
  submitter,   \* loop of runBatch -> what it submits
  next,        \* the next index to submit
  reported,    \* node -> lastReportedHeight
  reading,     \* node -> blocks that calls of reportBlocks await
  outbox,      \* node -> messages to the controller
  committed,   \* the controller's count, height, head, and blocks by height
  control,     \* where the controller is
  benchFaults

benchVars == <<mode, blocks, at, mempool, ingest, submitter, next, reported, reading,
               outbox, committed, control, benchFaults>>
chainVars == <<blocks, at, mempool>>
reportVars == <<reported, reading, outbox, committed>>

Node == 0 .. Processes - 1
Submitters == 1 .. Concurrency
AllTxs == 0 .. Txs - 1
NoWork == [doing |-> "nothing"]
NothingCommitted == [count |-> 0, height |-> 0, head |-> 0, known |-> {}]

BenchInit ==
  /\ mode \in {"cluster", "in process"}
  /\ blocks = <<>> /\ at = [v \in Node |-> 0] /\ mempool = [v \in Node |-> {}]
  /\ ingest = {} /\ submitter = [s \in Submitters |-> NoWork] /\ next = 0
  /\ reported = at /\ reading = [v \in Node |-> {}] /\ outbox = [v \in Node |-> <<>>]
  /\ committed = NothingCommitted
  /\ control = [phase |-> "submit", until |-> IF Window < Txs THEN Window ELSE Txs]
  /\ benchFaults = 0

BenchFault == benchFaults < MaxBenchFaults /\ benchFaults' = benchFaults + 1
In(phase) == control.phase = phase

-----------------------------------------------------------------------------
(* The nodes. *)
NonceAt(h) == FoldSeq(LAMBDA n, sum : n + sum, 0, SubSeq(blocks, 1, h))
Account(v) == NonceAt(at[v])

Admit(v, tx) ==
  mempool' = IF tx >= Account(v) THEN [mempool EXCEPT ![v] = @ \cup {tx}] ELSE mempool

(* A proposer at the head takes what is contiguous. *)
Ready(v) == Cardinality({t \in mempool[v] : Account(v) .. t \subseteq mempool[v]})

ProposeBlock(v) ==
  /\ at[v] = Len(blocks) /\ Ready(v) > 0
  /\ blocks' = Append(blocks, IF Ready(v) < MaxBlock THEN Ready(v) ELSE MaxBlock)
  /\ UNCHANGED <<mode, at, mempool, ingest, submitter, next, reportVars, control, benchFaults>>

CommitsBlock(v) ==
  /\ at[v] < Len(blocks) /\ at' = [at EXCEPT ![v] = @ + 1]
  /\ mempool' = [mempool EXCEPT ![v] = {t \in @ : t >= NonceAt(at[v] + 1)}]
  /\ UNCHANGED <<mode, blocks, ingest, submitter, next, reportVars, control, benchFaults>>

CopyArrives(copy, isLost) ==
  /\ copy \in ingest /\ ingest' = ingest \ {copy}
  /\ IF isLost THEN BenchFault /\ UNCHANGED mempool
     ELSE Admit(copy.to, copy.tx) /\ UNCHANGED benchFaults
  /\ UNCHANGED <<mode, blocks, at, submitter, next, reportVars, control>>

-----------------------------------------------------------------------------
(* runBatch: each loop takes the next index of the window, and its target.     *)
Copies(tx, v) == {[tx |-> tx, to |-> w] : w \in Node \ {v}}

TakeIndex(s, v) ==
  /\ In("submit") /\ submitter[s] = NoWork /\ next < control.until
  /\ mode = "in process" => v = 0
  /\ submitter' = [submitter EXCEPT ![s] =
                     [doing |-> "submit", tx |-> next, target |-> v, attempt |-> 1]]
  /\ next' = next + 1
  /\ UNCHANGED <<mode, chainVars, ingest, reportVars, control, benchFaults>>

(* submitWithRetry: admitted, or already applied; an answer in time ends it.   *)
Submitted(s) ==
  LET job == submitter[s] IN
  /\ job.doing = "submit"
  /\ IF mode = "in process" THEN job.tx >= Account(job.target) ELSE TRUE
  /\ Admit(job.target, job.tx)
  /\ ingest' = IF job.tx >= Account(job.target) THEN ingest \cup Copies(job.tx, job.target)
               ELSE ingest
  /\ submitter' = [submitter EXCEPT ![s] = NoWork]
  /\ UNCHANGED <<mode, blocks, at, next, reportVars, control, benchFaults>>

(* It fails or times out: the next target is tried, up to the limit.  Without  *)
(* retries the first failure ends the run.                                   *)
AttemptFails(s, isUnderWay) ==
  LET job == submitter[s]
      isLast == mode = "in process" \/ job.attempt = MaxAttempts IN
  /\ job.doing = "submit" /\ BenchFault
  /\ ingest' = IF isUnderWay THEN ingest \cup {[tx |-> job.tx, to |-> job.target]} ELSE ingest
  /\ submitter' = IF isLast THEN [t \in Submitters |-> NoWork]
                  ELSE [submitter EXCEPT ![s].target = (@ + 1) % Processes, ![s].attempt = @ + 1]
  /\ control' = IF isLast THEN [phase |-> "failed"] ELSE control
  /\ UNCHANGED <<mode, chainVars, next, reportVars>>

WindowSubmitted ==
  /\ In("submit") /\ next = control.until /\ \A s \in Submitters : submitter[s] = NoWork
  /\ control' = [phase |-> "count", until |-> control.until]
  /\ committed' = IF mode = "in process" THEN NothingCommitted ELSE committed
  /\ UNCHANGED <<mode, chainVars, ingest, submitter, next, reported, reading, outbox, benchFaults>>

-----------------------------------------------------------------------------
(* validator-worker: reportBlocks, from a timer and for each status.  After the *)
(* read the height and the head in a message are those of the moment, so with   *)
(* two calls at a time a block may go under the height of the next one.        *)
ReportKeeps == UNCHANGED <<mode, chainVars, ingest, submitter, next, control>>

ReportNext(v) ==
  /\ mode = "cluster" /\ reported[v] < at[v]
  /\ IF reading[v] = {} THEN UNCHANGED benchFaults ELSE BenchFault
  /\ reported' = [reported EXCEPT ![v] = @ + 1]
  /\ reading' = [reading EXCEPT ![v] = @ \cup {reported'[v]}]
  /\ ReportKeeps /\ UNCHANGED <<outbox, committed>>

BlockSent(v, h) ==
  /\ h \in reading[v] /\ reading' = [reading EXCEPT ![v] = @ \ {h}]
  /\ outbox' = [outbox EXCEPT ![v] = Append(@, [kind |-> "block", height |-> reported[v],
                                                block |-> h, head |-> at[v]])]
  /\ ReportKeeps /\ UNCHANGED <<reported, committed, benchFaults>>

ReadFails(v, h) ==
  /\ h \in reading[v] /\ BenchFault /\ reading' = [reading EXCEPT ![v] = @ \ {h}]
  /\ ReportKeeps /\ UNCHANGED <<reported, outbox, committed>>

CountedAt(message) ==
  [committed EXCEPT !.count = @ + blocks[message.block], !.height = message.height,
     !.head = message.head, !.known = @ \cup {<<message.height, message.block>>}]

\* (mutant: every report counts)
CountedTwice(message) == CountedAt(message)

(* The first report of a height counts. *)
Counted(message) ==
  IF \A k \in committed.known : k[1] # message.height THEN CountedAt(message) ELSE committed

ReceiveBlock(v) ==
  /\ outbox[v] # <<>> /\ Head(outbox[v]).kind = "block"
  /\ committed' = Counted(Head(outbox[v])) /\ outbox' = [outbox EXCEPT ![v] = Tail(@)]
  /\ ReportKeeps /\ UNCHANGED <<reported, reading, benchFaults>>

(* bench-10-node: the first node's blocks are read in order. *)
CountAtFirst ==
  /\ mode = "in process" /\ In("count") /\ committed.height < at[0]
  /\ committed' = [committed EXCEPT !.height = @ + 1, !.head = committed.height + 1,
                     !.count = @ + blocks[committed.height + 1]]
  /\ ReportKeeps /\ UNCHANGED <<reported, reading, outbox, benchFaults>>

-----------------------------------------------------------------------------
(* waitForCommittedCount, and then the convergence of all nodes, on what the    *)
(* controller knows at that moment, or the next window.                      *)
ControlKeeps == UNCHANGED <<mode, chainVars, ingest, submitter, next, benchFaults>>

NextWindow(until) ==
  [phase |-> "submit", until |-> IF until + Window < Txs THEN until + Window ELSE Txs]

CountReached ==
  /\ In("count") /\ committed.count >= control.until
  /\ control' = IF control.until < Txs /\ (mode = "in process" \/ ~WindowConvergence)
                THEN NextWindow(control.until)
                ELSE [phase |-> "converge", until |-> control.until, statuses |-> {},
                      target |-> IF mode = "cluster"
                                 THEN [height |-> committed.height, head |-> committed.head]
                                 ELSE [height |-> at[0], head |-> at[0]]]
  /\ ControlKeeps /\ UNCHANGED reportVars

(* A status, after the reports its worker had to make; every node's anew, until *)
(* all are at the target.                                                   *)
Asked(v) == In("converge") /\ \A s \in control.statuses : s.node # v

StatusSent(v) ==
  /\ mode = "cluster" /\ Asked(v) /\ reported[v] = at[v]
  /\ \A i \in DOMAIN outbox[v] : outbox[v][i].kind = "block"
  /\ outbox' = [outbox EXCEPT ![v] = Append(@, [kind |-> "status", head |-> at[v]])]
  /\ ControlKeeps /\ UNCHANGED <<control, reported, reading, committed>>

ReceiveStatus(v) ==
  /\ outbox[v] # <<>> /\ Head(outbox[v]).kind = "status"
  /\ outbox' = [outbox EXCEPT ![v] = Tail(@)]
  /\ control' = IF In("converge")
                THEN [control EXCEPT !.statuses = @ \cup {[node |-> v, head |-> Head(outbox[v]).head]}]
                ELSE control
  /\ ControlKeeps /\ UNCHANGED <<reported, reading, committed>>

StatusRead(v) ==
  /\ mode = "in process" /\ Asked(v)
  /\ control' = [control EXCEPT !.statuses = @ \cup {[node |-> v, head |-> at[v]]}]
  /\ ControlKeeps /\ UNCHANGED reportVars

IsAtTarget(status) == status.head >= control.target.height /\ status.head = control.target.head

Converges ==
  /\ In("converge") /\ Cardinality(control.statuses) = Processes
  /\ control' = IF ~ \A s \in control.statuses : IsAtTarget(s)
                THEN [control EXCEPT !.statuses = {}]
                ELSE IF control.until < Txs THEN NextWindow(control.until)
                ELSE [phase |-> "written", count |-> committed.count, head |-> committed.head]
  /\ ControlKeeps /\ UNCHANGED reportVars

TimesOut ==
  /\ control.phase \in {"count", "converge"} /\ control' = [phase |-> "failed"]
  /\ ControlKeeps /\ UNCHANGED reportVars

BenchNext ==
  \/ \E v \in Node :
       \/ ProposeBlock(v) \/ CommitsBlock(v) \/ ReportNext(v) \/ ReceiveBlock(v)
       \/ (\E h \in reading[v] : BlockSent(v, h) \/ ReadFails(v, h))
       \/ StatusSent(v) \/ ReceiveStatus(v) \/ StatusRead(v)
       \/ \E s \in Submitters : TakeIndex(s, v)
  \/ \E copy \in ingest, isLost \in BOOLEAN : CopyArrives(copy, isLost)
  \/ \E s \in Submitters :
       Submitted(s) \/ \E isUnderWay \in BOOLEAN : AttemptFails(s, isUnderWay)
  \/ WindowSubmitted \/ CountAtFirst \/ CountReached \/ Converges \/ TimesOut

BenchSpec == BenchInit /\ [][BenchNext]_benchVars

(***************************************************************************)
(* A report that is written is true: every transaction is on the chain and was  *)
(* counted once, and every node stands at the head that is reported.  And no    *)
(* window is submitted before the one before it is on the chain.  That holds   *)
(* for submissions tried again, copies that come late, and block reports that   *)
(* come in another order or are missing; it fails where overlapping calls of    *)
(* reportBlocks reported a block under the height of another (README, section  *)
(* 6).                                                                      *)
(***************************************************************************)
ByTheirHeight == \A k \in committed.known : k[1] = k[2]

ReportIsTrue ==
  ByTheirHeight =>
    /\ In("written") =>
         /\ control.count = Txs /\ NonceAt(Len(blocks)) = Txs
         /\ control.head = Len(blocks) /\ \A v \in Node : at[v] = Len(blocks)
    /\ In("submit") => NonceAt(Len(blocks)) >= control.until - Window
    /\ committed.count <= NonceAt(Len(blocks))
=============================================================================
