------------------------------ MODULE Consensus ------------------------------
(***************************************************************************)
(* The fixed-validator BFT engine of packages/consensus/src/engine.ts,     *)
(* with the part of packages/chain/src/chain.ts it drives (verifyBlock,    *)
(* commitVerified).                                                        *)
(*                                                                         *)
(* The engine serialises its handlers on a promise queue (`task`), so a    *)
(* handler is one action.  The mesh is a set of sent messages from which a *)
(* node may receive any message, any number of times, late, in any order   *)
(* or never: loss, duplication, delay and reordering.  A hash is the thing *)
(* hashed, and a signature verifies exactly when the owner of the key is   *)
(* faulty or did sign.                                                     *)
(***************************************************************************)
EXTENDS Integers, Sequences, FiniteSets

CONSTANTS
  Validator,    \* the validators of the genesis config
  Index,        \* Index[v]: v's position in that list, from 0
  Observers,    \* full nodes that hold no validator key
  Faulty,       \* validators that may sign and send anything
  Payloads,     \* what a proposer may draft: transactions and timestamp
  MaxHeight,    \* bound: the chain grows no further
  MaxRound,     \* bound: timeouts per height
  MaxRestarts   \* bound: restarts of correct nodes, all nodes together

N       == Cardinality(Validator)
Node    == Validator \cup Observers
Correct == Node \ Faulty

ASSUME ConstantsAssumption ==
  /\ IsFiniteSet(Validator) /\ Validator # {}
  /\ Index \in [Validator -> 0 .. N - 1]
  /\ \A v, w \in Validator : Index[v] = Index[w] => v = w
  /\ Observers \cap Validator = {}
  /\ Faulty \subseteq Validator
  /\ MaxHeight \in Nat /\ MaxRound \in Nat /\ MaxRestarts \in Nat

VARIABLES
  \* on disk
  store,             \* store[n]: blocks above genesis with their certificates
  \* in memory, cleared by advance() and lost in a restart
  round,             \* round[n]
  proposals,         \* proposals[n]: verified blocks of the next height
  votes,             \* votes[n]: votes recorded for the next height
  myVote,            \* myVote[n]: {} or {the block voted for}
  \* in memory, lost in a restart
  syncInFlight,      \* syncInFlight[n]
  bestRemoteHeight,  \* bestRemoteHeight[n]
  \* the mesh: everything correct nodes have sent
  proposalMsgs,      \* [round, block]
  voteMsgs,          \* [validator, block]
  blockReqs,         \* nodes that asked for the blocks above their head
  \* the environment and history
  restarts,          \* restarts so far
  forgot             \* <<v, h>>: v restarted while locked at height h

nodeVars == <<store, round, proposals, votes, myVote>>
syncVars == <<syncInFlight, bestRemoteHeight>>
netVars  == <<proposalMsgs, voteMsgs, blockReqs>>
envVars  == <<restarts, forgot>>
vars     == <<nodeVars, syncVars, netVars, envVars>>

-----------------------------------------------------------------------------
(* The chain and the validator set.                                        *)

\* (mutant: the + 1 forgotten)
QuorumShort == (2 * N) \div 3

Quorum == (2 * N) \div 3 + 1

Height(n)     == Len(store[n])
NextHeight(n) == Height(n) + 1

\* The blocks of a list of certified blocks.
BlocksOf(entries) == [i \in DOMAIN entries |-> entries[i].block]

\* proposerFor and its inverse, the first round in which it is v's turn.
IsProposerFor(v, height, r) == v \in Validator /\ Index[v] = (height + r) % N
RoundForProposer(height, v) == (Index[v] - height) % N

\* draftBlock: a block links to the whole chain below it through prevHash.
Draft(n, payload) ==
  [height |-> NextHeight(n), prev |-> BlocksOf(store[n]),
   proposer |-> n, payload |-> payload]

\* verifyBlock against a chain of certified blocks.
VerifyBlock(entries, block) ==
  /\ block.height = Len(entries) + 1
  /\ block.prev = BlocksOf(entries)
  /\ block.proposer \in Validator

\* What signatures establish.
SignedBlock(block)  == block.proposer \in Faulty
                         \/ \E m \in proposalMsgs : m.block = block
SignedVote(v, block) == v \in Faulty
                         \/ [validator |-> v, block |-> block] \in voteMsgs

\* (mutants: signatures not verified; one vote too many asked for)
VerifyCertificateUnsigned(block, voters) == Cardinality(voters \cap Validator) >= Quorum
VerifyCertificateStrict(block, voters) ==
  Cardinality({v \in voters \cap Validator : SignedVote(v, block)}) > Quorum

\* verifyCertificate counts distinct validators whose signature verifies; a
\* single-validator chain also accepts a block without votes.
VerifyCertificate(block, voters) ==
  \/ N = 1 /\ voters = {}
  \/ Cardinality({v \in voters \cap Validator : SignedVote(v, block)}) >= Quorum

-----------------------------------------------------------------------------
(* Votes.                                                                  *)

\* recordVote: the first vote of a validator at a height is the one kept.
RecordVote(recorded, v, block) ==
  IF \E w \in recorded : w.validator = v
    THEN recorded
    ELSE recorded \cup {[validator |-> v, block |-> block]}

VotersFor(recorded, block) ==
  {w.validator : w \in {x \in recorded : x.block = block}}

\* The verified proposals that have a quorum of recorded votes.
Decidable(known, recorded) ==
  {b \in known : Cardinality(VotersFor(recorded, b)) >= Quorum}

\* (mutants: no lock; the lock is released when the round rotates)
MayVoteAgain(n)     == n \in Validator
MayVotePerRound(n)  == n \in Validator /\ (myVote[n] = {} \/ round[n] > 0)

\* castVote: once per height, validators only.
MayVote(n) == n \in Validator /\ myVote[n] = {}

\* (mutants: the lock, or the recorded votes, survive the commit)
AdvanceKeepingLock(n) ==
  /\ round'     = [round EXCEPT ![n] = 0]
  /\ proposals' = [proposals EXCEPT ![n] = {}]
  /\ votes'     = [votes EXCEPT ![n] = {}]
  /\ UNCHANGED myVote

AdvanceKeepingVotes(n) ==
  /\ round'     = [round EXCEPT ![n] = 0]
  /\ proposals' = [proposals EXCEPT ![n] = {}]
  /\ myVote'    = [myVote EXCEPT ![n] = {}]
  /\ UNCHANGED votes

\* advance(): all state about the height that was just committed is dropped.
Advance(n) ==
  /\ round'     = [round EXCEPT ![n] = 0]
  /\ proposals' = [proposals EXCEPT ![n] = {}]
  /\ votes'     = [votes EXCEPT ![n] = {}]
  /\ myVote'    = [myVote EXCEPT ![n] = {}]

\* checkQuorum at the end of a handler that leaves the node with this round,
\* these proposals and votes and this lock: commitVerified and advance, or nothing.
CheckQuorum(n, r, known, recorded, lock) ==
  \/ \E b \in Decidable(known, recorded) :
       /\ store' = [store EXCEPT ![n] =
                      Append(@, [block |-> b, voters |-> VotersFor(recorded, b)])]
       /\ Advance(n)
  \/ /\ Decidable(known, recorded) = {}
     /\ round'     = [round EXCEPT ![n] = r]
     /\ proposals' = [proposals EXCEPT ![n] = known]
     /\ votes'     = [votes EXCEPT ![n] = recorded]
     /\ myVote'    = [myVote EXCEPT ![n] = lock]
     /\ UNCHANGED store

-----------------------------------------------------------------------------
(* tick: every blockTimeMs.  It asks for blocks when the node is known to  *)
(* be behind; otherwise it rotates the round when the deadline has passed  *)
(* and proposes when it is the node's turn and its mempool is not empty.   *)
(* The deadline is armed while the mempool is not empty or a proposal is   *)
(* known: both the mempool and the clock are the environment's here, so    *)
(* any tick may find the deadline passed.  A tick that neither rotates nor *)
(* proposes changes nothing.                                               *)

BehindAndIdle(n) == bestRemoteHeight[n] > Height(n) /\ ~syncInFlight[n]

\* Behind: nothing was asked yet, or SYNC_RETRY_MS has passed since.
TickSync(n) ==
  /\ bestRemoteHeight[n] > Height(n)
  /\ syncInFlight' = [syncInFlight EXCEPT ![n] = TRUE]
  /\ blockReqs' = blockReqs \cup {n}
  /\ UNCHANGED <<nodeVars, bestRemoteHeight, proposalMsgs, voteMsgs, envVars>>

\* The round after a tick that finds the deadline passed or not.
RoundAfter(n, late) == IF late THEN round[n] + 1 ELSE round[n]
MayBeLate(n, late)  == late => round[n] < MaxRound

\* A timeout without a proposal of one's own.  The node sends the proposal it
\* voted for again, under the new round, and its own vote.
TickRotate(n) ==
  /\ ~BehindAndIdle(n)
  /\ MayBeLate(n, TRUE)
  /\ round' = [round EXCEPT ![n] = RoundAfter(n, TRUE)]
  /\ proposalMsgs' = proposalMsgs \cup
       {[round |-> RoundAfter(n, TRUE), block |-> b] : b \in myVote[n] \cap proposals[n]}
  /\ UNCHANGED <<store, proposals, votes, myVote, syncVars, voteMsgs, blockReqs, envVars>>

TickPropose(n, late, payload) ==
  LET b == Draft(n, payload) IN
  /\ ~BehindAndIdle(n)
  /\ MayBeLate(n, late)
  /\ IsProposerFor(n, NextHeight(n), RoundAfter(n, late))
  /\ MayVote(n)
  /\ b.height <= MaxHeight
  /\ proposalMsgs' = proposalMsgs \cup {[round |-> RoundAfter(n, late), block |-> b]}
  /\ voteMsgs' = voteMsgs \cup {[validator |-> n, block |-> b]}
  /\ CheckQuorum(n, RoundAfter(n, late), proposals[n] \cup {b},
                 RecordVote(votes[n], n, b), {b})
  /\ UNCHANGED <<syncVars, blockReqs, envVars>>

-----------------------------------------------------------------------------
(* Gossip about the next height.                                           *)

\* (mutant: a proposal that comes after the node's vote is stored and no more)
OnProposalUnchecked(n, r, block) ==
  /\ SignedBlock(block)
  /\ IsProposerFor(block.proposer, NextHeight(n), r)
  /\ VerifyBlock(store[n], block)
  /\ IF MayVote(n)
       THEN /\ voteMsgs' = voteMsgs \cup {[validator |-> n, block |-> block]}
            /\ CheckQuorum(n, round[n], proposals[n] \cup {block},
                           RecordVote(votes[n], n, block), {block})
       ELSE /\ proposals' = [proposals EXCEPT ![n] = @ \cup {block}]
            /\ UNCHANGED <<store, round, votes, myVote, voteMsgs>>
  /\ UNCHANGED <<syncVars, proposalMsgs, blockReqs, envVars>>

\* proposal and proposal_response: accepted when the block's proposer owns the
\* round the message names; the node votes if it has not voted.
OnProposal(n, r, block) ==
  /\ SignedBlock(block)
  /\ block.height = NextHeight(n)
  /\ IsProposerFor(block.proposer, NextHeight(n), r)
  /\ block \in proposals[n] \/ VerifyBlock(store[n], block)
  /\ IF MayVote(n)
       THEN /\ voteMsgs' = voteMsgs \cup {[validator |-> n, block |-> block]}
            /\ CheckQuorum(n, round[n], proposals[n] \cup {block},
                           RecordVote(votes[n], n, block), {block})
       ELSE /\ CheckQuorum(n, round[n], proposals[n] \cup {block},
                           votes[n], myVote[n])
            /\ UNCHANGED voteMsgs
  /\ UNCHANGED <<syncVars, proposalMsgs, blockReqs, envVars>>

\* vote, of the next height: only a validator's first vote counts.  A proposal
\* that is unknown is asked for by hash, of the peer that sent the vote: see
\* OnProposalRequest.
OnVote(n, v, block) ==
  LET recorded == RecordVote(votes[n], v, block) IN
  /\ v # n /\ SignedVote(v, block)
  /\ block.height = NextHeight(n)
  /\ recorded # votes[n]
  /\ CheckQuorum(n, round[n], proposals[n], recorded, myVote[n])
  /\ UNCHANGED <<syncVars, proposalMsgs, voteMsgs, blockReqs, envVars>>

\* proposal_request: whoever received n's vote for a block it does not know may
\* ask n for it.  The answer names the round in which the proposer has its turn.
OnProposalRequest(n, block) ==
  /\ [validator |-> n, block |-> block] \in voteMsgs
  /\ block.height = NextHeight(n)
  /\ block \in proposals[n]
  /\ proposalMsgs' = proposalMsgs \cup
       {[round |-> RoundForProposer(block.height, block.proposer), block |-> block]}
  /\ UNCHANGED <<nodeVars, syncVars, voteMsgs, blockReqs, envVars>>

-----------------------------------------------------------------------------
(* Catch-up.                                                               *)

\* hello, and a vote of a height beyond the next: someone is ahead.  Neither
\* the height nor the sender is checked.
LearnHeight(n, h) ==
  /\ bestRemoteHeight' = [bestRemoteHeight EXCEPT ![n] = IF h > @ THEN h ELSE @]
  /\ IF syncInFlight[n]
       THEN UNCHANGED <<syncInFlight, blockReqs>>
       ELSE /\ syncInFlight' = [syncInFlight EXCEPT ![n] = TRUE]
            /\ blockReqs' = blockReqs \cup {n}
  /\ UNCHANGED <<nodeVars, proposalMsgs, voteMsgs, envVars>>

\* A node says hello with its height when a peer connects and whenever it
\* commits: every height it has reached may still arrive.
OnHello(n, m, h) ==
  /\ m # n
  /\ h \in 1 .. Height(m) /\ h > Height(n)
  /\ LearnHeight(n, h)

OnFutureVote(n, v, block) ==
  /\ v # n /\ SignedVote(v, block)
  /\ block.height > NextHeight(n)
  /\ LearnHeight(n, block.height)

\* onBlockRequest: what a correct node m answers to n when its height was
\* `to`, without the blocks n has by the time it reads the answer (it skips
\* them).
BlocksAbove(n, m, to) == SubSeq(store[m], NextHeight(n), to)

\* The first k items extend n's chain one by one, each with a valid
\* certificate (onBlockResponse, applyBlock).
Applicable(n, items, k) ==
  \A i \in 1 .. k :
    LET below == store[n] \o SubSeq(items, 1, i - 1) IN
    /\ VerifyBlock(below, items[i].block)
    /\ VerifyCertificate(items[i].block, items[i].voters)

\* block_response: items are applied until one is refused.  A refusal ends the
\* handler; otherwise the node asks again if it still knows of higher blocks.
OnBlockResponse(n, items) ==
  \E k \in 0 .. Len(items) :
    /\ Applicable(n, items, k)
    /\ k < Len(items) => ~Applicable(n, items, k + 1)
    /\ IF k > 0
         THEN /\ store' = [store EXCEPT ![n] = @ \o SubSeq(items, 1, k)]
              /\ Advance(n)
         ELSE UNCHANGED nodeVars
    /\ IF k = Len(items) /\ bestRemoteHeight[n] > Height(n) + k
         THEN /\ syncInFlight' = [syncInFlight EXCEPT ![n] = TRUE]
              /\ blockReqs' = blockReqs \cup {n}
         ELSE /\ syncInFlight' = [syncInFlight EXCEPT ![n] = FALSE]
              /\ UNCHANGED blockReqs
    /\ UNCHANGED <<bestRemoteHeight, proposalMsgs, voteMsgs, envVars>>

-----------------------------------------------------------------------------
\* The process stops and starts again: the disk survives, memory does not.
\* (A restart that finds nothing in memory to lose is left out.)
Restart(n) ==
  /\ restarts < MaxRestarts
  /\ proposals[n] \cup votes[n] # {} \/ syncInFlight[n] \/ round[n] > 0
  /\ restarts' = restarts + 1
  /\ forgot' = forgot \cup {<<n, b.height>> : b \in myVote[n]}
  /\ Advance(n)
  /\ syncInFlight' = [syncInFlight EXCEPT ![n] = FALSE]
  /\ bestRemoteHeight' = [bestRemoteHeight EXCEPT ![n] = 0]
  /\ blockReqs' = blockReqs \ {n}
  /\ UNCHANGED <<store, proposalMsgs, voteMsgs>>

-----------------------------------------------------------------------------
(* The inputs.  A faulty validator may propose any block on a correct      *)
(* node's head, vote for any block known to the mesh, and serve such a     *)
(* block with a certificate that names every validator, whether it voted   *)
(* or not: no other list has a better chance of being accepted.            *)

SentBlocks == {m.block : m \in proposalMsgs}

FaultyBlocks(n) ==
  {b \in [height : {NextHeight(n)}, prev : {BlocksOf(store[n])},
          proposer : Faulty, payload : Payloads] : b.height <= MaxHeight}

ReceiveProposal(n) ==
  \/ \E m \in proposalMsgs : OnProposal(n, m.round, m.block)
  \/ \E b \in FaultyBlocks(n) : OnProposal(n, RoundForProposer(b.height, b.proposer), b)

ReceiveVote(n) ==
  \/ \E w \in voteMsgs : OnVote(n, w.validator, w.block)
  \/ \E v \in Faulty : \E b \in SentBlocks \cup FaultyBlocks(n) : OnVote(n, v, b)

ReceiveFutureVote(n) == \E w \in voteMsgs : OnFutureVote(n, w.validator, w.block)

\* A faulty validator names any height, in a hello or in a vote whose signature
\* nobody checks before the height is believed.
ReceiveFalseHeight(n) ==
  /\ Faulty # {}
  /\ \E h \in NextHeight(n) .. MaxHeight : LearnHeight(n, h)

ReceiveHello(n) == \E m \in Correct : \E h \in 1 .. MaxHeight : OnHello(n, m, h)

ReceiveBlocks(n) ==
  /\ n \in blockReqs
  /\ \E m \in Correct \ {n} : \E to \in 1 .. Height(m) :
       OnBlockResponse(n, BlocksAbove(n, m, to))

\* A faulty validator answers unasked too, and may put a block of its choice
\* behind good ones.
ReceiveFaultyBlocks(n) ==
  /\ Faulty # {}
  /\ \E good \in UNION {{BlocksAbove(n, m, to) : to \in 0 .. Height(m)} : m \in Correct} :
     \E b \in SentBlocks \cup FaultyBlocks(n) :
       OnBlockResponse(n, Append(good, [block |-> b, voters |-> Validator]))

Tick(n) ==
  \/ TickSync(n)
  \/ TickRotate(n)
  \/ \E late \in BOOLEAN : \E p \in Payloads : TickPropose(n, late, p)

Init ==
  /\ store = [n \in Correct |-> <<>>]
  /\ round = [n \in Correct |-> 0]
  /\ proposals = [n \in Correct |-> {}]
  /\ votes = [n \in Correct |-> {}]
  /\ myVote = [n \in Correct |-> {}]
  /\ syncInFlight = [n \in Correct |-> FALSE]
  /\ bestRemoteHeight = [n \in Correct |-> 0]
  /\ proposalMsgs = {} /\ voteMsgs = {} /\ blockReqs = {}
  /\ restarts = 0 /\ forgot = {}

Next ==
  \E n \in Correct :
    \/ Tick(n)
    \/ ReceiveProposal(n)
    \/ ReceiveVote(n)
    \/ \E b \in proposals[n] : OnProposalRequest(n, b)
    \/ ReceiveFutureVote(n)
    \/ ReceiveHello(n)
    \/ ReceiveFalseHeight(n)
    \/ ReceiveBlocks(n)
    \/ ReceiveFaultyBlocks(n)
    \/ Restart(n)

Spec == Init /\ [][Next]_vars

-----------------------------------------------------------------------------
(* Safety.                                                                 *)

IsSequence(s) == s \in Seq({s[i] : i \in DOMAIN s})

IsBlock(b) == /\ b.height \in Nat \ {0}
              /\ b.proposer \in Validator

\* The type invariant.
TypeOK ==
  /\ round \in [Correct -> Nat] /\ bestRemoteHeight \in [Correct -> Nat]
  /\ syncInFlight \in [Correct -> BOOLEAN]
  /\ DOMAIN store = Correct /\ DOMAIN proposals = Correct
  /\ DOMAIN votes = Correct /\ DOMAIN myVote = Correct
  /\ \A n \in Correct :
       /\ IsSequence(store[n])
       /\ \A b \in proposals[n] \cup myVote[n] : IsBlock(b)
       /\ \A w \in votes[n] : w.validator \in Validator /\ IsBlock(w.block)
  /\ \A m \in proposalMsgs : IsBlock(m.block) /\ m.round \in Nat
  /\ \A w \in voteMsgs : w.validator \in Validator \cap Correct /\ IsBlock(w.block)
  /\ blockReqs \subseteq Correct
  /\ restarts \in 0 .. MaxRestarts

\* The validators that cannot be relied on at a height: the faulty ones, and
\* those whose lock was lost in a restart.
Unreliable(h) == Faulty \cup {v \in Validator : <<v, h>> \in forgot}
Tolerated(h)  == 3 * Cardinality(Unreliable(h)) < N

\* Safety of the protocol (engine.ts:56, consensus.md "Why one-vote-per-height
\* is safe"): nodes never finalise different blocks at one height while fewer
\* than a third of the validators are faulty or lost their lock there.
Agreement ==
  \A m, n \in Correct : \A h \in (DOMAIN store[m]) \cap (DOMAIN store[n]) :
    Tolerated(h) => store[m][h].block = store[n][h].block

\* The lock (castVote): a correct validator signs one block per height, unless
\* a restart lost the lock.
VoteLock ==
  \A w, x \in voteMsgs :
    /\ w.validator = x.validator
    /\ w.block.height = x.block.height
    /\ <<w.validator, w.block.height>> \notin forgot
    => w.block = x.block

\* Blocks are self-verifying: whatever path a block took into a node's store,
\* its certificate holds a quorum of genuine votes, so that any peer may serve
\* it to any other (getCertificate, verifyCertificate).
CertificatesHold ==
  \A n \in Correct : \A h \in DOMAIN store[n] :
    LET e == store[n][h] IN
    Cardinality({v \in e.voters \cap Validator : SignedVote(v, e.block)}) >= Quorum

\* No handler returns with a quorum and its block in hand and leaves them
\* uncommitted: nothing would look at them again until the next message.
QuorumIsCommitted ==
  \A n \in Correct : Decidable(proposals[n], votes[n]) = {}

\* What tick re-sends after a timeout is there to be sent: a lock always comes
\* with the verified block and with the node's own recorded vote.
LockIsBacked ==
  \A n \in Correct : \A b \in myVote[n] :
    b \in proposals[n] /\ [validator |-> n, block |-> b] \in votes[n]

\* A handler leaves a node able to go on by itself: what is decided is
\* committed, and what it is locked on can be sent again.
NoneIsStranded == QuorumIsCommitted /\ LockIsBacked

\* Votes and proposals of a committed height do not leak into the next one.
NextHeightOnly ==
  \A n \in Correct :
    /\ \A b \in proposals[n] : VerifyBlock(store[n], b)
    /\ \A w \in votes[n] : w.block.height = NextHeight(n)

\* threat-model.md:93, "Safety is never at risk", of restarts of correct
\* validators.
SafeWithoutFaults ==
  \A m, n \in Correct : \A h \in (DOMAIN store[m]) \cap (DOMAIN store[n]) :
    Faulty = {} => store[m][h].block = store[n][h].block

\* The refinement: the longest ledger of a correct node is the final chain.
Longest == CHOOSE n \in Correct : \A m \in Correct : Height(m) <= Height(n)

Final == INSTANCE Finality WITH
  Nodes  <- Correct,
  final  <- BlocksOf(store[Longest]),
  ledger <- [n \in Correct |-> BlocksOf(store[n])]

\* No fork and no reorganisation: the engine implements Finality.
ImplementsFinality == Final!Spec

-----------------------------------------------------------------------------
(* Liveness.                                                               *)

\* Catch-up: ticks recur, a hello follows every commit and every new
\* connection, block_request is repeated every SYNC_RETRY_MS while the node is
\* behind, and a peer answers it from its current chain.  Nothing is assumed of
\* proposals and votes: nobody sends those of a committed height again.
SyncFairness ==
  \A n \in Correct :
    /\ WF_vars(TickSync(n))
    /\ \A m \in Correct \ {n} :
         /\ WF_vars(\E h \in 1 .. MaxHeight : OnHello(n, m, h))
         /\ WF_vars(n \in blockReqs /\ OnBlockResponse(n, BlocksAbove(n, m, Height(m))))

\* A mesh that loses no gossip, and a proposer whose mempool is not empty.
GossipFairness ==
  \A n \in Correct :
    /\ WF_vars(\E p \in Payloads : TickPropose(n, FALSE, p))
    /\ WF_vars(\E m \in proposalMsgs : OnProposal(n, m.round, m.block))
    /\ WF_vars(\E w \in voteMsgs : OnVote(n, w.validator, w.block))

SyncSpec == Spec /\ SyncFairness

\* Finality spreads: a height that one node committed is committed by all, the
\* observers and the nodes that restart included.
CatchUp ==
  \A h \in 1 .. MaxHeight : \A m, n \in Correct :
    Height(m) >= h ~> Height(n) >= h

\* While gossip is not lost, no deadline passes and nobody restarts, the chain
\* advances.
Undisturbed == restarts = 0 /\ \A n \in Correct : round[n] = 0

Progress ==
  GossipFairness /\ []Undisturbed => <>(\A n \in Correct : Height(n) = MaxHeight)
=============================================================================
