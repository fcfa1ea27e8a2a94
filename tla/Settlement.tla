------------------------------ MODULE Settlement ------------------------------
(***************************************************************************)
(* Payment on the settlement chain for goods delivered on an app chain: the   *)
(* contracts outpost.pysc and goods_market.pysc, the anchor daemons of the    *)
(* app's validators (appchain/src/daemon.ts, attest.ts, cosign.ts) and the    *)
(* outcome they report (scripts/lib/outpost-outcome.mjs).                    *)
(*                                                                          *)
(* The validators share one history, each at its own height: of an app block *)
(* only the delivery in it matters.  Every await of anchorNow is a step; a    *)
(* daemon's timer may start a run while another is still waiting.  Outcomes   *)
(* on the settlement chain are those of ContractCalls: a failed call fails    *)
(* the whole anchor.                                                        *)
(***************************************************************************)
EXTENDS Integers, Sequences, FiniteSets, FiniteSetsExt

CONSTANTS
  Validator,
  RunSets,         \* sets of <<validator, slot>>: which timers run, and overlap
  Order,           \* 0 .. n: ids are given in this order
  Terms,           \* buyer, good and amount of an order
  Delivered,       \* buyer, good and amount of a delivery
  Seller,
  MaxHeight,
  MaxAnchorFaults

ASSUME OrderAssumption == IsFiniteSet(Order) /\ Order = 0 .. Cardinality(Order) - 1
ASSUME RunsAssumption == \A r \in UNION RunSets : r[1] \in Validator

VARIABLES
  orders,        \* goods_market Order
  payouts,       \* order -> transfers out of its escrow, in order
  deliveries,    \* outpost Delivery, with the height of its block
  head, height,  \* of the app chain, and of each validator's copy
  written,       \* validator -> the height its state store is at
  runs,          \* the runs there may be
  run,           \* run -> where it is
  lastAnchored,  \* validator -> lastAnchoredHeight
  sent,          \* validator -> its relayer's pending transactions
  anchorFaults

orderVars == <<orders, payouts>>
appVars == <<deliveries, head, height, written>>
daemonVars == <<run, lastAnchored>>
settlementVars == <<orderVars, appVars, daemonVars, sent, runs, anchorFaults>>

NoOrder == [phase |-> "none"]
NoDelivery == [height |-> 0]
NoCallToMake == [order |-> -1]
Waiting == [at |-> "idle"]

SettlementInit ==
  /\ orders = [o \in Order |-> NoOrder]
  /\ payouts = [o \in Order |-> <<>>]
  /\ deliveries = [o \in Order |-> NoDelivery]
  /\ head = 0 /\ height = [v \in Validator |-> 0] /\ written = height
  /\ runs \in RunSets
  /\ run = [r \in runs |-> Waiting]
  /\ lastAnchored = [v \in Validator |-> -1]
  /\ sent = [v \in Validator |-> {}]
  /\ anchorFaults = 0

AnchorFault == anchorFaults < MaxAnchorFaults /\ anchorFaults' = anchorFaults + 1

-----------------------------------------------------------------------------
(* The market on the settlement chain. *)
IsOpen(o) == orders[o].phase = "open"

PlaceOrder(terms) ==
  LET o == Cardinality({p \in Order : orders[p] # NoOrder}) IN
  /\ o \in Order
  /\ orders' = [orders EXCEPT ![o] = [phase |-> "open", terms |-> terms]]
  /\ UNCHANGED <<payouts, appVars, daemonVars, sent, runs, anchorFaults>>

CancelOrder(o) ==
  /\ IsOpen(o)
  /\ orders' = [orders EXCEPT ![o].phase = "cancelled"]
  /\ payouts' = [payouts EXCEPT ![o] = Append(@, "buyer")]
  /\ UNCHANGED <<appVars, daemonVars, sent, runs, anchorFaults>>

(* The app chain: a block with one delivery, to an order that may not exist   *)
(* or ask for something else, or a block of other moves.                     *)
AppBlock(delivered, seller, terms) ==
  /\ head < MaxHeight
  /\ head' = head + 1
  /\ \/ UNCHANGED deliveries
     \/ /\ deliveries[delivered] = NoDelivery
        /\ deliveries' = [deliveries EXCEPT ![delivered] =
                            [height |-> head + 1, seller |-> seller, terms |-> terms]]
  /\ UNCHANGED <<height, written, orderVars, daemonVars, sent, runs, anchorFaults>>

(* commitVerified: the state store first, then blocks and the head.            *)
WriteState(v) ==
  /\ written[v] = height[v] /\ height[v] < head
  /\ written' = [written EXCEPT ![v] = @ + 1]
  /\ UNCHANGED <<deliveries, head, height, orderVars, daemonVars, sent, runs, anchorFaults>>

MoveHead(v) ==
  /\ height[v] < written[v]
  /\ height' = [height EXCEPT ![v] = written[v]]
  /\ UNCHANGED <<deliveries, head, written, orderVars, daemonVars, sent, runs, anchorFaults>>

-----------------------------------------------------------------------------
(* anchorNow, run r of the daemon of validator r[1]. *)
Goes(r, next) == run' = [run EXCEPT ![r] = next]
DaemonKeeps == UNCHANGED <<orderVars, appVars, runs>>

StartAnchor(r) ==
  /\ run[r] = Waiting
  /\ height[r[1]] # lastAnchored[r[1]]
  /\ Goes(r, [at |-> "epoch"])
  /\ DaemonKeeps /\ UNCHANGED <<lastAnchored, sent, anchorFaults>>

(* The next epoch, and the outcome: deliveries of the local chain ...          *)
DeliveriesRead(r) ==
  /\ run[r].at = "epoch"
  /\ Goes(r, [at |-> "orders", next |-> TRUE,
              seen |-> {o \in Order : deliveries[o].height \in 1 .. written[r[1]]}])
  /\ DaemonKeeps /\ UNCHANGED <<lastAnchored, sent, anchorFaults>>

\* (mutant: what was delivered is not compared)
SelectAnySettlement(seen) ==
  LET due == {o \in seen : IsOpen(o)} IN
  IF due = {} THEN NoCallToMake
  ELSE [order |-> Min(due), seller |-> deliveries[Min(due)].seller]

(* selectSettlement: the first delivery whose order is open and is for it. *)
SelectSettlement(seen) ==
  LET due == {o \in seen : IsOpen(o) /\ orders[o].terms = deliveries[o].terms} IN
  IF due = {} THEN NoCallToMake
  ELSE [order |-> Min(due), seller |-> deliveries[Min(due)].seller]

(* ... and orders over RPC; buildAttestation takes the head of the moment. *)
OrdersRead(r) ==
  /\ run[r].at = "orders"
  /\ Goes(r, [at |-> "signing", next |-> run[r].next, signers |-> {r[1]}, asked |-> {r[1]},
              body |-> [height |-> height[r[1]], call |-> SelectSettlement(run[r].seen)]])
  /\ DaemonKeeps /\ UNCHANGED <<lastAnchored, sent, anchorFaults>>

(* anchorQuorum and collectSignatures: one peer after the other is asked,     *)
(* until there are enough.                                                  *)
AnchorQuorum == (2 * Cardinality(Validator)) \div 3 + 1
Enough(r) == Cardinality(run[r].signers) >= AnchorQuorum

\* (mutant: a peer signs only what is behind its head)
AgreesBehind(w, h) == height[w] > h

(* localChainMatches: histories agree, so only the height can be wrong. *)
Agrees(w, h) == height[w] >= h

(* vet waits for five seconds for its chain to catch up; or no answer.         *)
AskCosigner(r, w) ==
  /\ run[r].at = "signing" /\ ~Enough(r) /\ w \notin run[r].asked
  /\ \/ /\ Agrees(w, run[r].body.height) /\ UNCHANGED anchorFaults
        /\ Goes(r, [run[r] EXCEPT !.signers = @ \cup {w}, !.asked = @ \cup {w}])
     \/ /\ IF Agrees(w, run[r].body.height) THEN AnchorFault ELSE UNCHANGED anchorFaults
        /\ Goes(r, [run[r] EXCEPT !.asked = @ \cup {w}])
  /\ DaemonKeeps /\ UNCHANGED <<lastAnchored, sent>>

NoQuorum(r) ==
  /\ run[r].at = "signing" /\ ~Enough(r) /\ run[r].asked = Validator
  /\ Goes(r, Waiting)
  /\ DaemonKeeps /\ UNCHANGED <<lastAnchored, sent, anchorFaults>>

(* getAccount and submitTx: another transaction of the nonce that is pending  *)
(* refuses it, and one executed in between would.                           *)
SubmitAnchor(r) ==
  LET v == r[1]  tx == [next |-> run[r].next, body |-> run[r].body] IN
  /\ run[r].at = "signing" /\ Enough(r)
  /\ \/ /\ sent[v] \subseteq {tx} /\ UNCHANGED anchorFaults
        /\ sent' = [sent EXCEPT ![v] = {tx}]
        /\ Goes(r, [at |-> "wait", tx |-> tx, receipt |-> "none"])
     \/ /\ IF sent[v] \subseteq {tx} THEN AnchorFault ELSE UNCHANGED anchorFaults
        /\ UNCHANGED sent /\ Goes(r, Waiting)
  /\ DaemonKeeps /\ UNCHANGED lastAnchored

(* waitForTx: the receipt, or thirty seconds. *)
AnchorReceipt(r) ==
  /\ run[r].at = "wait" /\ run[r].receipt # "none"
  /\ lastAnchored' = IF run[r].receipt = "success"
                     THEN [lastAnchored EXCEPT ![r[1]] = run[r].tx.body.height]
                     ELSE lastAnchored
  /\ Goes(r, Waiting)
  /\ DaemonKeeps /\ UNCHANGED <<sent, anchorFaults>>

WaitOver(r) ==
  /\ run[r].at = "wait" /\ run[r].receipt = "none"
  /\ IF run[r].tx \in sent[r[1]] THEN AnchorFault ELSE UNCHANGED anchorFaults
  /\ Goes(r, Waiting)
  /\ DaemonKeeps /\ UNCHANGED <<lastAnchored, sent>>

DaemonRestarts(v) ==
  /\ AnchorFault
  /\ run' = [r \in runs |-> IF r[1] = v THEN Waiting ELSE run[r]]
  /\ lastAnchored' = [lastAnchored EXCEPT ![v] = -1]
  /\ DaemonKeeps /\ UNCHANGED sent

-----------------------------------------------------------------------------
(* executePayload of an anchor, with `settle` as its outcome call. *)
AnchorSucceeds(tx) ==
  /\ tx.next
  /\ tx.body.call = NoCallToMake \/ IsOpen(tx.body.call.order)

(* Once an anchor succeeds no epoch read before it is the next one. *)
Outdated(x) == IF "next" \in DOMAIN x THEN [x EXCEPT !.next = FALSE]
               ELSE IF "tx" \in DOMAIN x THEN [x EXCEPT !.tx.next = FALSE] ELSE x

(* The receipt is where the run that polls for it will find it. *)
WithReceipt(x, tx, success) ==
  IF x.at = "wait" /\ x.receipt = "none" /\ x.tx = tx
  THEN [x EXCEPT !.receipt = IF success THEN "success" ELSE "failed"] ELSE x

SettlementBlock(v) ==
  \E tx \in sent[v] :
    LET success == AnchorSucceeds(tx)
        answered == [r \in runs |-> IF r[1] = v THEN WithReceipt(run[r], tx, success)
                                    ELSE run[r]]
        others == [sent EXCEPT ![v] = {}]
        settles == success /\ tx.body.call # NoCallToMake
        o == tx.body.call.order IN
    /\ sent' = IF success THEN [w \in Validator |-> {Outdated(t) : t \in others[w]}]
               ELSE others
    /\ run' = IF success THEN [r \in runs |-> Outdated(answered[r])] ELSE answered
    /\ orders' = IF settles THEN [orders EXCEPT ![o].phase = "settled"] ELSE orders
    /\ payouts' = IF settles
                  THEN [payouts EXCEPT ![o] = Append(@, tx.body.call.seller)]
                  ELSE payouts
    /\ UNCHANGED <<appVars, lastAnchored, runs, anchorFaults>>

(* A node of the settlement chain loses its mempool. *)
AnchorLost(v) ==
  /\ sent[v] # {} /\ AnchorFault
  /\ sent' = [sent EXCEPT ![v] = {}]
  /\ UNCHANGED <<orderVars, appVars, daemonVars, runs>>

AnchorStep(r) ==
  \/ StartAnchor(r) \/ DeliveriesRead(r) \/ OrdersRead(r)
  \/ \E w \in Validator : AskCosigner(r, w)
  \/ NoQuorum(r) \/ SubmitAnchor(r) \/ AnchorReceipt(r) \/ WaitOver(r)

SettlementNext ==
  \/ \E terms \in Terms : PlaceOrder(terms)
  \/ \E o \in Order : CancelOrder(o)
  \/ \E o \in Order, seller \in Seller, terms \in Delivered : AppBlock(o, seller, terms)
  \/ \E r \in runs : AnchorStep(r)
  \/ \E v \in Validator :
       \/ WriteState(v) \/ MoveHead(v) \/ DaemonRestarts(v) \/ SettlementBlock(v) \/ AnchorLost(v)

SettlementSpec == SettlementInit /\ [][SettlementNext]_settlementVars

(***************************************************************************)
(* An escrow is paid out once, to the buyer who cancelled or to the seller    *)
(* who delivered on the app chain exactly what was ordered: whatever daemons  *)
(* overlap, restart, lag behind each other, attest a head that is not the one *)
(* the outcome was read at, or meet an order cancelled since.               *)
(***************************************************************************)
PaidForDelivery ==
  \A o \in Order :
    /\ Len(payouts[o]) <= 1
    /\ \A i \in DOMAIN payouts[o] :
         \/ payouts[o][i] = "buyer" /\ orders[o].phase = "cancelled"
         \/ /\ orders[o].phase = "settled" /\ deliveries[o].height \in 1 .. head
            /\ payouts[o][i] = deliveries[o].seller
            /\ orders[o].terms = deliveries[o].terms

(* Every daemon has anchored its head. *)
HeadsAnchored == \A r \in runs : lastAnchored[r[1]] = head
=============================================================================
