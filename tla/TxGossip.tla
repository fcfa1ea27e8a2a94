------------------------------- MODULE TxGossip -------------------------------
(***************************************************************************)
(* How submitted transactions reach the pools of other nodes: the batches of  *)
(* consensus/src/engine.ts, the mesh (peer-hub.ts), the backlog of received    *)
(* ones, the repair of gaps by a proposer, and the stop of a node.           *)
(*                                                                          *)
(* One sender; a transaction is its nonce.  Consensus is Consensus, and what  *)
(* a pool admits is Mempool: here a turn executes what is contiguous in the   *)
(* proposer's pool, and an admission waits, then checks.                     *)
(***************************************************************************)
EXTENDS Integers, Sequences, FiniteSets, SequencesExt

CONSTANTS
  Peer,
  Entrance,          \* the peer whose RPC takes submissions
  Proposer,          \* peers that are validators
  LastTx,            \* bound: nonces 0 .. LastTx
  Size(_),           \* nonce -> bytes
  MaxBatch,          \* MAX_TX_BROADCAST_BATCH
  MaxBytes,          \* MAX_TX_BROADCAST_BYTES
  MaxAdmissions,     \* MAX_TX_ADMISSIONS
  CompactAt,         \* 1024: when the backlog's read part is cut off
  MaxGossipFaults    \* bound: frames that are lost with their connection

ASSUME GossipAssumption ==
  /\ Entrance \in Peer /\ Proposer \subseteq Peer /\ LastTx \in Nat
  /\ MaxBatch \in Nat \ {0} /\ MaxAdmissions \in Nat \ {0}

VARIABLES
  executed,   \* the account's nonce on every peer's chain
  pooled,     \* peer -> pending transactions
  batch,      \* peer -> txBroadcastBatch
  wire,       \* [from, to] -> frames in order
  backlog,    \* peer -> [txs, offset]: txBacklog, txBacklogOffset
  admitting,  \* peer -> admissions that wait (txAdmissions is their number)
  requested,  \* peer -> nonces asked for within the last second
  life,       \* peer -> running, stopping, closed
  gossipFaults

gossipVars == <<executed, pooled, batch, wire, backlog, admitting, requested, life,
                gossipFaults>>

Nonces == 0 .. LastTx
Links == {l \in Peer \X Peer : l[1] # l[2]}
Running(p) == life[p] = "running"

GossipInit ==
  /\ executed = 0
  /\ pooled = [p \in Peer |-> {}] /\ batch = [p \in Peer |-> <<>>]
  /\ wire = [l \in Links |-> <<>>]
  /\ backlog = [p \in Peer |-> [txs |-> <<>>, offset |-> 0]]
  /\ admitting = [p \in Peer |-> {}] /\ requested = [p \in Peer |-> {}]
  /\ life = [p \in Peer |-> "running"]
  /\ gossipFaults = 0

GossipFault == gossipFaults < MaxGossipFaults /\ gossipFaults' = gossipFaults + 1

-----------------------------------------------------------------------------
(* Sending. *)
BytesOf(txs) == FoldSeq(LAMBDA t, sum : Size(t) + sum, 0, txs)

(* hub.broadcast, of frames one after the other. *)
Broadcast(p, frames) ==
  wire' = [l \in Links |-> IF l[1] = p THEN wire[l] \o frames ELSE wire[l]]

Frame(txs) == IF txs = <<>> THEN <<>> ELSE <<[kind |-> "txs", txs |-> txs]>>

(* What is broadcast joins the batch that waits, while both are small enough. *)
Joins(p, t) ==
  /\ Size(t) <= MaxBytes /\ Len(batch[p]) < MaxBatch
  /\ BytesOf(batch[p]) + Size(t) <= MaxBytes

\* (mutant: a batch that is full is replaced, not sent)
FullDropped(p, t) == <<>>

(* The batch that goes out before t. *)
FullBefore(p, t) == IF Joins(p, t) THEN <<>> ELSE batch[p]

(* broadcastTxBytes: the flush before it, and the one it causes. *)
BroadcastTxBytes(p, t) ==
  LET rest == IF Joins(p, t) THEN Append(batch[p], t) ELSE <<t>>
      goes == Size(t) > MaxBytes \/ Len(rest) >= MaxBatch \/ BytesOf(rest) >= MaxBytes IN
  /\ batch' = [batch EXCEPT ![p] = IF goes THEN <<>> ELSE rest]
  /\ Broadcast(p, Frame(FullBefore(p, t)) \o IF goes THEN Frame(rest) ELSE <<>>)

(* submit_tx_raw: admitted, then broadcast unless the engine is stopped.       *)
SubmitTx(t) ==
  /\ life[Entrance] # "closed" /\ t \notin pooled[Entrance] /\ t >= executed
  /\ pooled' = [pooled EXCEPT ![Entrance] = @ \cup {t}]
  /\ IF Running(Entrance) THEN BroadcastTxBytes(Entrance, t) ELSE UNCHANGED <<batch, wire>>
  /\ UNCHANGED <<executed, backlog, admitting, requested, life, gossipFaults>>

(* flushTxBroadcast, by its timer. *)
FlushTimer(p) ==
  /\ Running(p) /\ batch[p] # <<>>
  /\ batch' = [batch EXCEPT ![p] = <<>>]
  /\ Broadcast(p, Frame(batch[p]))
  /\ UNCHANGED <<executed, pooled, backlog, admitting, requested, life, gossipFaults>>

-----------------------------------------------------------------------------
(* Receiving. *)
Waits(b) == SubSeq(b.txs, b.offset + 1, Len(b.txs))

(* drainTxBacklog: as many as may wait at a time. *)
Drain(p, b, waiting) ==
  LET n == IF MaxAdmissions - Cardinality(waiting) < Len(Waits(b))
           THEN MaxAdmissions - Cardinality(waiting) ELSE Len(Waits(b))
      begun == {[tx |-> Waits(b)[i], at |-> b.offset + i] : i \in 1 .. n} IN
  /\ backlog' = [backlog EXCEPT ![p] = [b EXCEPT !.offset = @ + n]]
  /\ admitting' = [admitting EXCEPT ![p] = waiting \cup begun]

\* (mutant: the offset stays where it was)
CutKeepsOffset(b) ==
  IF b.offset > CompactAt /\ b.offset * 2 > Len(b.txs)
  THEN [txs |-> Waits(b), offset |-> b.offset] ELSE b

Cut(b) ==
  IF b.offset > CompactAt /\ b.offset * 2 > Len(b.txs)
  THEN [txs |-> Waits(b), offset |-> 0] ELSE b

(* A frame of transactions: enqueueTx of each. *)
Receive(l) ==
  LET p == l[2]  frame == Head(wire[l]) IN
  /\ Running(p) /\ wire[l] # <<>> /\ frame.kind = "txs"
  /\ wire' = [wire EXCEPT ![l] = Tail(@)]
  /\ Drain(p, [backlog[p] EXCEPT !.txs = @ \o frame.txs], admitting[p])
  /\ UNCHANGED <<executed, pooled, batch, requested, life, gossipFaults>>

(* addEncoded returns, and what follows it. *)
Admitted(p, a) ==
  /\ a \in admitting[p]
  /\ pooled' = IF a.tx >= executed THEN [pooled EXCEPT ![p] = @ \cup {a.tx}] ELSE pooled
  /\ IF Running(p) THEN Drain(p, Cut(backlog[p]), admitting[p] \ {a})
     ELSE admitting' = [admitting EXCEPT ![p] = @ \ {a}] /\ UNCHANGED backlog
  /\ UNCHANGED <<executed, batch, wire, requested, life, gossipFaults>>

-----------------------------------------------------------------------------
(* A turn as proposer. *)
Contiguous(p) == {t \in pooled[p] : t >= executed /\ \A u \in executed .. t : u \in pooled[p]}

Propose(p) ==
  /\ Running(p) /\ p \in Proposer /\ Contiguous(p) # {}
  /\ executed' = executed + Cardinality(Contiguous(p))
  /\ pooled' = [q \in Peer |-> {t \in pooled[q] : t >= executed'}]
  /\ UNCHANGED <<batch, wire, backlog, admitting, requested, life, gossipFaults>>

(* requestMissingTxs: a proposer that can take nothing asks for what the       *)
(* account needs next.                                                      *)
RequestMissing(p) ==
  /\ Running(p) /\ p \in Proposer /\ pooled[p] # {} /\ Contiguous(p) = {}
  /\ executed \notin requested[p]
  /\ requested' = [requested EXCEPT ![p] = @ \cup {executed}]
  /\ Broadcast(p, <<[kind |-> "request", nonce |-> executed]>>)
  /\ UNCHANGED <<executed, pooled, batch, backlog, admitting, life, gossipFaults>>

(* TX_REPAIR_REQUEST_TTL_MS is over; bound: not while its frames are on the    *)
(* wire or what they brought waits.                                         *)
RequestTimeOut(p) ==
  /\ requested[p] # {} /\ admitting[p] = {}
  /\ \A l \in Links : p \in {l[1], l[2]} => wire[l] = <<>>
  /\ requested' = [requested EXCEPT ![p] = {}]
  /\ UNCHANGED <<executed, pooled, batch, wire, backlog, admitting, life, gossipFaults>>

(* onTxRequest. *)
AnswerRequest(l) ==
  LET p == l[2]  frame == Head(wire[l])
      has == IF frame.nonce \in pooled[p] THEN <<frame.nonce>> ELSE <<>> IN
  /\ Running(p) /\ wire[l] # <<>> /\ frame.kind = "request"
  /\ wire' = [wire EXCEPT ![l] = Tail(@), ![<<p, l[1]>>] = @ \o Frame(has)]
  /\ UNCHANGED <<executed, pooled, batch, backlog, admitting, requested, life,
                 gossipFaults>>

(* A connection breaks: what it carries is lost; hello does not repeat it.     *)
Disconnect(l) ==
  /\ wire[l] # <<>> /\ GossipFault
  /\ wire' = [wire EXCEPT ![l] = <<>>]
  /\ UNCHANGED <<executed, pooled, batch, backlog, admitting, requested, life>>

-----------------------------------------------------------------------------
(* Node.stop: the engine first, and the chain last.                           *)
StopEngine(p) ==
  /\ Running(p) /\ GossipFault
  /\ life' = [life EXCEPT ![p] = "stopping"]
  /\ backlog' = [backlog EXCEPT ![p].txs = <<>>]
  /\ UNCHANGED <<executed, pooled, batch, wire, admitting, requested>>

\* (mutant: admissions are not waited for)
IdleAnyway(p) == TRUE

(* waitForTxIdle. *)
TxIdle(p) == admitting[p] = {} /\ backlog[p].offset >= Len(backlog[p].txs)

CloseChain(p) ==
  /\ life[p] = "stopping" /\ TxIdle(p)
  /\ life' = [life EXCEPT ![p] = "closed"]
  /\ wire' = [l \in Links |-> IF p \in {l[1], l[2]} THEN <<>> ELSE wire[l]]
  /\ UNCHANGED <<executed, pooled, batch, backlog, admitting, requested, gossipFaults>>

GossipNext ==
  \/ \E t \in Nonces : SubmitTx(t)
  \/ \E l \in Links : Receive(l) \/ AnswerRequest(l) \/ Disconnect(l)
  \/ \E p \in Peer :
       \/ FlushTimer(p) \/ (\E a \in admitting[p] : Admitted(p, a))
       \/ Propose(p) \/ RequestMissing(p) \/ RequestTimeOut(p)
       \/ StopEngine(p) \/ CloseChain(p)

GossipSpec == GossipInit /\ [][GossipNext]_gossipVars

(***************************************************************************)
(* Between submission and the pools no transaction gets lost in a batch, the  *)
(* backlog or the cut of its read part: while no connection broke and no node *)
(* stopped, every peer has what the entrance has pending, or it is in the     *)
(* batch, on the wire, in the backlog or in an admission.  And a stopping     *)
(* node closes its chain only when no admission uses it.                     *)
(***************************************************************************)
InFrames(l) == UNION {Range(wire[l][i].txs) :
                        i \in {j \in DOMAIN wire[l] : wire[l][j].kind = "txs"}}

OnItsWay(t, p) ==
  \/ t \in Range(batch[Entrance]) \/ t \in InFrames(<<Entrance, p>>)
  \/ t \in Range(Waits(backlog[p])) \/ \E a \in admitting[p] : a.tx = t

NothingLostInGossip ==
  /\ gossipFaults = 0 =>
       \A t \in pooled[Entrance], p \in Peer : t \in pooled[p] \/ OnItsWay(t, p)
  /\ \A p \in Peer : life[p] = "closed" => admitting[p] = {}

(* Everyone runs, and still something submitted could be executed that was    *)
(* not lost, or that a proposer knows a later one of.                        *)
GossipWaits ==
  /\ \A p \in Peer : Running(p)
  /\ gossipFaults = 0 \/ \E p \in Proposer : pooled[p] # {}
  /\ Contiguous(Entrance) # {}
=============================================================================
