------------------------------- MODULE AppReads -------------------------------
(***************************************************************************)
(* App-chain reads of the explorer (gateway.ts handleExplorer, explorer.ts): *)
(* a bounded number at a time, each asking the mounted client and then the   *)
(* registered validators of the app, one after the other, with a second for  *)
(* each and five for all.                                                   *)
(*                                                                          *)
(* Time is counted in seconds used up.  A peer may serve the app's data, or   *)
(* its chain without the data, or another chain, or be silent, and may do    *)
(* something else the next time; a peer in `healthy` always serves the data. *)
(***************************************************************************)
EXTENDS Integers, Sequences

CONSTANTS
  Reader,       \* requests
  Peers,        \* the mounted client, then chainValidators, as a sequence
  MaxReads,     \* 8 in the code
  Deadline,     \* seconds for all attempts: 5 in the code
  MaxClosing    \* seconds that closing a connection may take: no limit in the code

ASSUME ReadsAssumption ==
  /\ MaxReads \in Nat \ {0} /\ Deadline \in Nat \ {0} /\ MaxClosing \in Nat
  /\ Len(Peers) \in Nat /\ DOMAIN Peers = 1 .. Len(Peers)

Kind == {"head", "data"}   \* a block and a transaction are both data
Answer == {"data", "chain", "other chain", "silence"}

VARIABLES
  reads,           \* reader -> its read
  activeAppReads,
  healthy          \* positions of the peers that serve the app's data

readVars == <<reads, activeAppReads, healthy>>

NoRead == [at |-> "none"]
ReadEnded(result, asked) == [at |-> "ended", result |-> result, asked |-> asked]

ReadsInit ==
  /\ reads = [r \in Reader |-> NoRead]
  /\ activeAppReads = 0
  /\ healthy \in SUBSET DOMAIN Peers

Reading(r) == reads[r].at \in {"entry", "head", "body", "over"}

(* A well-formed request, unless the capacity is taken. *)
StartRead(r, kind) ==
  /\ ~Reading(r)
  /\ IF activeAppReads >= MaxReads
     THEN /\ reads' = [reads EXCEPT ![r] = ReadEnded("BUSY", FALSE)]
          /\ UNCHANGED activeAppReads
     ELSE /\ reads' = [reads EXCEPT ![r] = [at |-> "entry", kind |-> kind]]
          /\ activeAppReads' = activeAppReads + 1
  /\ UNCHANGED healthy

\* (mutant: an ended read keeps its place)
ReleaseNothing == UNCHANGED activeAppReads

(* The result is answered and `finally` gives the capacity back. *)
Release == activeAppReads' = activeAppReads - 1
EndRead(r, result, asked) == reads' = [reads EXCEPT ![r] = ReadEnded(result, asked)] /\ Release

Continue(r, read) == reads' = [reads EXCEPT ![r] = read] /\ UNCHANGED activeAppReads

(* The registry entry, within a second. *)
EntryRead(r) ==
  /\ reads[r].at = "entry"
  /\ \/ \E result \in {"NOT_FOUND", "NO_APP_CHAIN", "UPSTREAM_UNAVAILABLE"} :
          EndRead(r, result, FALSE)
     \/ Continue(r, [at |-> "head", kind |-> reads[r].kind, peer |-> 1, spent |-> 0,
                     matching |-> FALSE])
  /\ UNCHANGED healthy

\* (mutant: one attempt may last until the deadline)
NextPeerWithoutTimer(read, seconds) ==
  [read EXCEPT !.peer = @ + 1,
               !.spent = @ + seconds * Deadline,
               !.at = IF read.peer = Len(Peers) \/ read.spent + seconds * Deadline >= Deadline
                      THEN "over" ELSE "head"]

(* One peer's attempt is over without the data, after up to a second, and     *)
(* its connection is closed; the loop ends when no peer is left or the        *)
(* deadline has passed.                                                      *)
NextPeer(read, seconds) ==
  [read EXCEPT !.peer = @ + 1,
               !.spent = @ + seconds,
               !.at = IF read.peer = Len(Peers) \/ read.spent + seconds >= Deadline
                      THEN "over" ELSE "head"]

MayAnswer(read, answer, seconds) ==
  /\ read.peer \in healthy => answer = "data"
  /\ answer = "silence" => seconds = 1

HeadRead(r, answer, seconds, closing) ==
  LET read == reads[r] IN
  /\ read.at = "head" /\ MayAnswer(read, answer, seconds)
  /\ CASE answer \in {"silence", "other chain"} -> Continue(r, NextPeer(read, seconds + closing))
       [] answer \in {"chain", "data"} /\ read.kind = "head" -> EndRead(r, "found", TRUE)
       [] OTHER -> Continue(r, [read EXCEPT !.at = "body", !.matching = TRUE])
  /\ UNCHANGED healthy

BodyRead(r, answer, seconds, closing) ==
  LET read == reads[r] IN
  /\ read.at = "body" /\ MayAnswer(read, answer, seconds)
  /\ IF answer = "data" THEN EndRead(r, "found", TRUE)
     ELSE Continue(r, NextPeer(read, seconds + closing))
  /\ UNCHANGED healthy

(* A peer of the app, but no data: "not found"; no peer: unavailable. *)
NothingFound(r) ==
  /\ reads[r].at = "over"
  /\ EndRead(r, IF reads[r].matching THEN "DATA_UNAVAILABLE" ELSE "UPSTREAM_UNAVAILABLE", TRUE)
  /\ UNCHANGED healthy

(* Every wait on a node has a timer; a connection is closed in the end. *)
ReadStep(r) ==
  \/ EntryRead(r)
  \/ \E answer \in Answer, seconds \in 0 .. 1, closing \in 0 .. MaxClosing :
       HeadRead(r, answer, seconds, closing) \/ BodyRead(r, answer, seconds, closing)
  \/ NothingFound(r)

ReadsNext == \E r \in Reader : (\E kind \in Kind : StartRead(r, kind)) \/ ReadStep(r)

(***************************************************************************)
(* "A failed peer must not hide data available from another registered       *)
(* validator" (explorer.ts:56): a healthy peer is reached with its second     *)
(* left, whatever those before it do, unless they are so many that a second  *)
(* for each and the closing of its connection take all the time.             *)
(***************************************************************************)
FailedPeersHideNothing ==
  \A r \in Reader :
    reads[r].at = "ended" /\ reads[r].asked /\ reads[r].result # "found" =>
      \A i \in healthy : (i - 1) * (1 + MaxClosing) >= Deadline
=============================================================================
