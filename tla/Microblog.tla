------------------------------- MODULE Microblog -------------------------------
(***************************************************************************)
(* The microblog index (gateway/src/microblog.ts): posts, hidden posts,       *)
(* blocked wallets, and tips attributed to payments on the settlement chain.     *)
(* Changes are queued; each builds the next state, saves it to a file and      *)
(* only then puts it in memory.  A timer asks the chain, outside the queue,      *)
(* about a few pending tips at a time.                                       *)
(*                                                                          *)
(* All posts are one author's, so that one payment could be claimed for two   *)
(* of them; a payment stands for its sender too.  Limits on writes may refuse *)
(* any of them and are left out.                                             *)
(***************************************************************************)
EXTENDS Naturals, Sequences, SequencesExt

CONSTANTS
  Post,            \* signed posts, by identity
  Payment,         \* signed transfers to the author; each has its own sender
  Offers,          \* what clients may send in one behaviour: [posts, payments], and
                   \* how often the operator hides a post or blocks a wallet
  Author,
  Batch,           \* 10 in the code
  MaxProbes,       \* 10 in the code
  MaxFeedFaults,   \* writes and calls to the node that fail
  MaxFeedStops

ASSUME BatchAssumption == Batch > 0 /\ MaxProbes > 0
ASSUME OffersAssumption ==
  /\ Offers # {}
  /\ Offers \subseteq [posts : SUBSET Post, payments : SUBSET Payment, moderations : Nat]

Pending == "pending"

VARIABLES
  feed,        \* `state`: the index in memory, or Unloaded
  file,        \* feed.json as last renamed
  feedDisk,    \* what a power failure may leave of it: its contents since the last directory sync
  saving,      \* the change in progress: [at, next, item]
  payments,    \* payment -> what the chain did with it
  cursor,      \* `resolveCursor`
  probes,      \* payments the chain is being asked about
  resolving,   \* the timer's run: its batch and what it knows of it
  offer,       \* the posts, payments and moderations of this behaviour
  acked,       \* posts and tips answered to clients, with their places ...
  doubted,     \* ... and those answered while a power failure could still undo them
  feedFaults, feedStops

feedVars == <<feed, file, feedDisk, saving, payments, cursor, probes, resolving, offer,
              acked, doubted, feedFaults, feedStops>>

Unloaded == [posts |-> "unloaded"]
Empty == [posts |-> <<>>, tips |-> <<>>, hidden |-> {}, blocked |-> {}]
NotSaving == [at |-> "idle"]
NotResolving == [at |-> "idle"]

FeedInit ==
  /\ feed = Unloaded /\ file = Empty /\ feedDisk = {Empty}
  /\ saving = NotSaving
  /\ payments = [p \in Payment |-> Pending]
  /\ cursor = 0 /\ probes = {} /\ resolving = NotResolving
  /\ offer \in Offers
  /\ acked = {} /\ doubted = {} /\ feedFaults = 0 /\ feedStops = 0

Load == IF feed = Unloaded THEN file ELSE feed

\* (mutant: only a confirmed payment is taken)
AttributedConfirmed(s) == {t.tx : t \in {u \in Range(s.tips) : u.status = "confirmed"}}

Posted(s)       == Range(s.posts)
PostAt(i, s)    == [place |-> i, post |-> s.posts[i]]
Attributed(s) == {t.tx : t \in Range(s.tips)}
TipOf(tx, s)    == CHOOSE t \in Range(s.tips) : t.tx = tx

Has(s, item) ==
  IF "place" \in DOMAIN item
  THEN item.place \in DOMAIN s.posts /\ s.posts[item.place] = item.post
  ELSE \E t \in Range(s.tips) : t.tx = item.tx /\ t.post = item.post

-----------------------------------------------------------------------------
(* Changes.  The queue runs one at a time: the next begins when the last is   *)
(* over.  What is already there is answered again, without a write: after a  *)
(* restart, from a file that may not be durable yet.                         *)
Acknowledge(item) ==
  IF \A s \in feedDisk : Has(s, item)
  THEN acked' = acked \cup {item} /\ UNCHANGED doubted
  ELSE doubted' = doubted \cup {item} /\ UNCHANGED acked

SaveFeed(next, item) ==
  /\ saving' = [at |-> "write", next |-> next, item |-> item]
  /\ UNCHANGED <<acked, doubted>>

Begins == saving = NotSaving /\ feed' = Load
BeginKeeps == UNCHANGED <<file, feedDisk, payments, cursor, probes, resolving, feedFaults, feedStops, offer>>

Publish(p) ==
  /\ Begins
  /\ LET s == Load IN
     IF p \in Posted(s)
     THEN /\ \E i \in DOMAIN s.posts : s.posts[i] = p /\ Acknowledge(PostAt(i, s))
          /\ UNCHANGED saving
     ELSE /\ Author \notin s.blocked
          /\ SaveFeed([s EXCEPT !.posts = Append(@, p)],
                  [place |-> Len(s.posts) + 1, post |-> p])
  /\ BeginKeeps

(* A payment to the author of a post that is there, attributed once. *)
AddTip(tx, p) ==
  /\ Begins
  /\ LET s == Load  tip == [tx |-> tx, post |-> p] IN
     /\ p \in Posted(s)
     /\ IF tx \in Attributed(s)
        THEN TipOf(tx, s).post = p /\ Acknowledge(tip) /\ UNCHANGED saving
        ELSE /\ p \notin s.hidden /\ tx \notin s.blocked
             /\ SaveFeed([s EXCEPT !.tips = Append(@, [tx |-> tx, post |-> p, status |-> Pending])],
                     tip)
  /\ BeginKeeps

NoItem == [item |-> "none"]

MayModerate == Cardinality(Load.hidden) + Cardinality(Load.blocked) < offer.moderations

Hide(p) ==
  /\ Begins
  /\ p \in Posted(Load) \ Load.hidden /\ MayModerate
  /\ SaveFeed([Load EXCEPT !.hidden = @ \cup {p}], NoItem)
  /\ BeginKeeps

Block(w) ==
  /\ Begins
  /\ w \notin Load.blocked /\ MayModerate
  /\ SaveFeed([Load EXCEPT !.blocked = @ \cup {w}], NoItem)
  /\ BeginKeeps

(* save(): the file is replaced, the directory synced, the memory updated. *)
FileRenamed ==
  /\ saving.at = "write"
  /\ file' = saving.next /\ feedDisk' = feedDisk \cup {saving.next}
  /\ saving' = [saving EXCEPT !.at = "sync"]
  /\ UNCHANGED <<feed, payments, cursor, probes, resolving, acked, doubted, feedFaults, feedStops, offer>>

DirectorySynced ==
  /\ saving.at = "sync"
  /\ feedDisk' = {file}
  /\ feed' = saving.next
  /\ acked' = acked \cup doubted \cup ({saving.item} \ {NoItem}) /\ doubted' = {}
  /\ saving' = NotSaving
  /\ UNCHANGED <<file, payments, cursor, probes, resolving, feedFaults, feedStops, offer>>

FeedFault == feedFaults < MaxFeedFaults /\ feedFaults' = feedFaults + 1

SaveFails ==
  /\ saving # NotSaving /\ FeedFault
  /\ saving' = NotSaving
  /\ UNCHANGED <<feed, file, feedDisk, payments, cursor, probes, resolving, acked, doubted, feedStops, offer>>

(* The process stops, and the file is as it was, durable or not ...           *)
FeedStops ==
  /\ feedStops < MaxFeedStops
  /\ feedStops' = feedStops + 1
  /\ feed' = Unloaded /\ saving' = NotSaving
  /\ cursor' = 0 /\ probes' = {} /\ resolving' = NotResolving
  /\ UNCHANGED <<payments, acked, feedFaults, offer>>

FeedProcessStops == FeedStops /\ UNCHANGED <<file, feedDisk, doubted>>

(* ... or the power fails, and the renames since the last sync may be undone.   *)
FeedPowerFails ==
  /\ FeedStops
  /\ file' \in feedDisk /\ feedDisk' = {file'} /\ doubted' = {}

-----------------------------------------------------------------------------
(* resolveTips: a batch of the pending tips from the cursor on. *)
PendingTips(s) == SelectSeq(s.tips, LAMBDA t : t.status = Pending)

StartResolving ==
  LET pending == PendingTips(Load)
      from    == IF cursor >= Len(pending) THEN 0 ELSE cursor
      batch   == {t.tx : t \in Range(SubSeq(pending, from + 1, Min({from + Batch, Len(pending)})))}
  IN /\ resolving = NotResolving /\ saving = NotSaving
     /\ batch # {}
     /\ feed' = Load
     /\ cursor' = from + Cardinality(batch)
     /\ \E fresh \in SUBSET (batch \ probes) :
          /\ Cardinality(probes \cup fresh) <= MaxProbes
          /\ fresh = batch \ probes \/ Cardinality(probes \cup fresh) = MaxProbes
          /\ probes' = probes \cup fresh
     /\ resolving' = [at |-> "probing", waits |-> batch \cap probes', checked |-> {}]
     /\ UNCHANGED <<file, feedDisk, saving, payments, acked, doubted, feedFaults, feedStops, offer>>

(* A probe ends: with the receipt, checked against its block, or with         *)
(* nothing, as the node did not answer or the chain has not executed it yet.     *)
ProbeEnds(tx, answered) ==
  LET news == IF answered /\ payments[tx] # Pending
              THEN {[tx |-> tx, status |-> payments[tx]]} ELSE {}
  IN
  /\ tx \in probes
  /\ IF answered \/ payments[tx] = Pending THEN UNCHANGED feedFaults ELSE FeedFault
  /\ probes' = probes \ {tx}
  /\ resolving' = IF resolving.at # "probing" \/ tx \notin resolving.waits THEN resolving
                  ELSE [resolving EXCEPT !.waits = @ \ {tx}, !.checked = @ \cup news]
  /\ UNCHANGED <<feed, file, feedDisk, saving, payments, cursor, acked, doubted, feedStops, offer>>

(* The run does not wait for a probe longer than five seconds. *)
GiveUp(tx) ==
  /\ resolving.at = "probing" /\ tx \in resolving.waits /\ FeedFault
  /\ resolving' = [resolving EXCEPT !.waits = @ \ {tx}]
  /\ UNCHANGED <<feed, file, feedDisk, saving, payments, cursor, probes, acked, doubted, feedStops, offer>>

(* What is known is merged into the latest state, by the queue: only tips     *)
(* that are still pending change.                                            *)
Resolved(t, checked) ==
  IF t.status = Pending /\ \E c \in checked : c.tx = t.tx
  THEN [t EXCEPT !.status = (CHOOSE c \in checked : c.tx = t.tx).status]
  ELSE t

MergeResults ==
  /\ resolving.at = "probing" /\ resolving.waits = {}
  /\ IF resolving.checked = {} THEN UNCHANGED <<saving, acked, doubted, feed>>
     ELSE /\ Begins
          /\ LET s == Load IN
             SaveFeed([s EXCEPT !.tips = [i \in DOMAIN @ |-> Resolved(@[i], resolving.checked)]], NoItem)
  /\ resolving' = NotResolving
  /\ UNCHANGED <<file, feedDisk, payments, cursor, probes, feedFaults, feedStops, offer>>

(* The chain executes a payment. *)
PaymentExecuted(tx, status) ==
  /\ payments[tx] = Pending
  /\ payments' = [payments EXCEPT ![tx] = status]
  /\ UNCHANGED <<feed, file, feedDisk, saving, cursor, probes, resolving, acked, doubted, feedFaults,
                 feedStops, offer>>

FeedNext ==
  \/ \E p \in offer.posts : Publish(p) \/ Hide(p) \/ \E tx \in offer.payments : AddTip(tx, p)
  \/ \E w \in offer.payments \cup {Author} : Block(w)
  \/ FileRenamed \/ DirectorySynced \/ SaveFails
  \/ FeedProcessStops \/ FeedPowerFails
  \/ StartResolving
  \/ \E tx \in offer.payments :
       \/ \E answered \in BOOLEAN : ProbeEnds(tx, answered)
       \/ GiveUp(tx)
       \/ \E status \in {"confirmed", "failed"} : PaymentExecuted(tx, status)
  \/ MergeResults

(***************************************************************************)
(* A post or tip that was acknowledged keeps its place in memory and in the   *)
(* file, also in what a power failure leaves of it, through failed saves,     *)
(* restarts and later changes.  The exception: one that a process wrote and    *)
(* did not live to sync is answered again from the file by the next           *)
(* (microblog.ts:155-158), and is safe from stops, but from a power failure   *)
(* only once a later save has synced the directory (`doubted`).  A tip is      *)
(* shown as the chain decided it, and no payment counts for two posts.         *)
(***************************************************************************)
FeedSurvives ==
  /\ \A item \in acked \cup doubted : Has(Load, item) /\ Has(file, item)
  /\ \A item \in acked : \A s \in feedDisk : Has(s, item)
  /\ \A s \in {Load, file} \cup feedDisk :
       /\ \A t \in Range(s.tips) : t.status \in {Pending, payments[t.tx]}
       /\ \A i, j \in DOMAIN s.tips : s.tips[i].tx = s.tips[j].tx => i = j
=============================================================================
