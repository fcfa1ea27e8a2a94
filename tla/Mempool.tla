-------------------------------- MODULE Mempool -------------------------------
(***************************************************************************)
(* The mempool of packages/chain/src/mempool.ts: pending transactions by   *)
(* sender and nonce.  The engine takes, prunes and looks for gaps one      *)
(* after the other, and commits blocks in between; but each of these waits *)
(* for an account at every sender, and so does every admission, from RPC   *)
(* and from gossip, beside the engine.  Between two waits the code runs    *)
(* undisturbed.                                                            *)
(***************************************************************************)
EXTENDS Integers, FiniteSets, FiniteSetsExt

CONSTANTS
  Sender,        \* senders, as integers: their order is that of their keys
  Id,            \* what distinguishes two transactions of a sender and nonce
  Admission,     \* admissions that may wait for an account at a time
  MaxPerSender,  \* maxPerSender
  MaxTake,       \* maxTxsPerBlock
  MaxNonce       \* bound: nonces

ASSUME MempoolAssumption ==
  /\ Sender \subseteq Int /\ IsFiniteSet(Sender) /\ IsFiniteSet(Id)
  /\ MaxPerSender \in Nat \ {0} /\ MaxTake \in Nat \ {0} /\ MaxNonce \in Nat

Nonce == 0 .. MaxNonce
Tx    == [sender : Sender, nonce : Nonce, id : Id]

VARIABLES
  nonce,    \* nonce[s]: the account's nonce on the chain
  bySender, \* the senders that have a map of pending transactions
  pool,     \* the pending transactions in these maps
  count,    \* how many there are said to be
  adds,     \* adds[a]: the admission waiting at slot a, or NoAdd
  engine,   \* the engine's operation: kind, the senders to visit, what it picked
  pruned,   \* prune has run since the last commit
  late      \* history: those admitted after the chain had passed their nonce

vars == <<nonce, bySender, pool, count, adds, engine, pruned, late>>

NoAdd == [tx |-> "none"]
Idle  == [kind |-> "idle", todo |-> {}, picked |-> {}]

Pending(s)       == {t \in pool : t.sender = s}
HasPending(s, n) == \E t \in pool : t.sender = s /\ t.nonce = n

\* (mutant: off by one)
PassedLongAgo(s, n) == {t \in Pending(s) : t.nonce + 1 < n}

Passed(s, n) == {t \in Pending(s) : t.nonce < n}

-----------------------------------------------------------------------------
(* Admission: add, addEncoded.                                             *)

\* Up to the await of getAccount, whose answer is of now.
Add(a, t) ==
  /\ adds[a] = NoAdd
  /\ adds' = [adds EXCEPT ![a] = [tx |-> t, nonce |-> nonce[t.sender]]]
  /\ UNCHANGED <<nonce, bySender, pool, count, engine, pruned, late>>

\* (mutants: what is removed is not counted, or counted twice)
WithoutUncounted(gone) ==
  pool' = pool \ gone /\ late' = late \ gone /\ UNCHANGED count

WithoutTwice(gone) ==
  /\ pool' = pool \ gone /\ late' = late \ gone
  /\ count' = count - 2 * Cardinality(gone)

\* pruneSender.
Without(gone) ==
  /\ pool' = pool \ gone
  /\ count' = count - Cardinality(gone)
  /\ late' = late \ gone

\* (mutant: a nonce that is taken is not looked up)
AdmitsAnother(t, n) ==
  /\ t.nonce >= n
  /\ Cardinality(Pending(t.sender) \ Passed(t.sender, n)) < MaxPerSender

\* What add checks after the await, given the account's nonce then.
Admits(t, n) ==
  /\ t.nonce >= n
  /\ ~HasPending(t.sender, t.nonce)
  /\ Cardinality(Pending(t.sender) \ Passed(t.sender, n)) < MaxPerSender

AddReturn(a) ==
  LET t == adds[a].tx  n == adds[a].nonce  gone == Passed(t.sender, n) IN
  /\ adds[a] # NoAdd
  /\ adds' = [adds EXCEPT ![a] = NoAdd]
  /\ IF Admits(t, n)
       THEN /\ pool' = (pool \ gone) \cup {t}
            /\ count' = count - Cardinality(gone) + 1
            /\ bySender' = bySender \cup {t.sender}
            /\ late' = IF t.nonce < nonce[t.sender] THEN (late \ gone) \cup {t}
                                                     ELSE late \ gone
            \* prune walks the live map: it comes to a new sender, too.
            /\ engine' = IF engine.kind = "prune" /\ t.sender \notin bySender
                           THEN [engine EXCEPT !.todo = @ \cup {t.sender}] ELSE engine
       ELSE /\ IF t.nonce >= n THEN Without(gone) ELSE UNCHANGED <<pool, count, late>>
            /\ UNCHANGED <<bySender, engine>>
  /\ UNCHANGED <<nonce, pruned>>

-----------------------------------------------------------------------------
(* The engine's operations visit one sender between two awaits.            *)

Start(kind) ==
  /\ engine = Idle
  /\ engine' = [kind |-> kind, todo |-> bySender, picked |-> {}]
  /\ UNCHANGED <<nonce, bySender, pool, count, adds, pruned, late>>

\* (mutant: an emptied map stays)
PruneKeepsMap(s) == Without(Passed(s, nonce[s])) /\ UNCHANGED bySender

\* prune and missingNonceRequests, at one sender.
PruneAt(s) ==
  /\ Without(Passed(s, nonce[s]))
  /\ bySender' = IF Pending(s) = Passed(s, nonce[s]) THEN bySender \ {s} ELSE bySender

VisitToPrune(s) ==
  /\ engine.kind \in {"prune", "repair"} /\ s \in engine.todo
  /\ PruneAt(s)
  /\ engine' = [engine EXCEPT !.todo = @ \ {s}]
  /\ UNCHANGED <<nonce, adds, pruned>>

\* (mutant: the lowest pending nonce is where the run begins)
RunFromLowest(s) ==
  {n \in Nonce : Pending(s) # {} /\
     \A m \in Min({t.nonce : t \in Pending(s)}) .. n : HasPending(s, m)}

\* The contiguous nonces from the account's.
Run(s) == {n \in Nonce : n >= nonce[s] /\ \A m \in nonce[s] .. n : HasPending(s, m)}

\* takeForBlock, at one sender: in order, and no more than fit.
VisitToTake(s) ==
  LET room == MaxTake - Cardinality(engine.picked)
      taken == {<<s, n>> : n \in {n \in Run(s) : n < nonce[s] + room}} IN
  /\ engine.kind = "take" /\ s \in engine.todo
  /\ \A r \in engine.todo : s <= r
  /\ room > 0
  /\ engine' = [engine EXCEPT !.todo = @ \ {s}, !.picked = @ \cup taken]
  /\ UNCHANGED <<nonce, bySender, pool, count, adds, pruned, late>>

TakeIsDone ==
  engine.kind = "take" /\ (engine.todo = {} \/ Cardinality(engine.picked) = MaxTake)

Finish ==
  /\ \/ engine.kind = "repair"   \* all visited, or enough gaps found
     \/ engine.kind = "prune" /\ engine.todo = {}
     \/ TakeIsDone
  /\ engine' = Idle
  /\ pruned' = (pruned \/ engine.kind = "prune")
  /\ UNCHANGED <<nonce, bySender, pool, count, adds, late>>

-----------------------------------------------------------------------------
(* Commits.                                                                *)

Picked(s) == {p \in engine.picked : p[1] = s}

\* What was taken becomes a block, is voted for and committed; prune follows.
CommitTaken ==
  /\ TakeIsDone /\ engine.picked # {}
  /\ nonce' = [s \in Sender |-> nonce[s] + Cardinality(Picked(s))]
  /\ engine' = [kind |-> "prune", todo |-> bySender, picked |-> {}]
  /\ pruned' = FALSE
  /\ UNCHANGED <<bySender, pool, count, adds, late>>

\* Another's block.  checkQuorum prunes after it; onBlockResponse does not when
\* a later block of the response is refused.
CommitOther(s, prunes) ==
  /\ engine = Idle
  /\ nonce[s] <= MaxNonce
  /\ nonce' = [nonce EXCEPT ![s] = @ + 1]
  /\ engine' = IF prunes THEN [kind |-> "prune", todo |-> bySender, picked |-> {}] ELSE Idle
  /\ pruned' = FALSE
  /\ UNCHANGED <<bySender, pool, count, adds, late>>

-----------------------------------------------------------------------------
Init ==
  /\ nonce = [s \in Sender |-> 0]
  /\ bySender = {} /\ pool = {} /\ count = 0
  /\ adds = [a \in Admission |-> NoAdd]
  /\ engine = Idle /\ pruned = TRUE /\ late = {}

Next ==
  \/ \E a \in Admission : AddReturn(a) \/ \E t \in Tx : Add(a, t)
  \/ \E kind \in {"take", "repair"} : Start(kind)
  \/ \E s \in Sender : VisitToPrune(s) \/ VisitToTake(s)
  \/ \E s \in Sender, prunes \in BOOLEAN : CommitOther(s, prunes)
  \/ Finish
  \/ CommitTaken

Spec == Init /\ [][Next]_vars

-----------------------------------------------------------------------------
(* Properties.                                                             *)

TypeOK ==
  /\ nonce \in [Sender -> 0 .. MaxNonce + 1]
  /\ pool \subseteq Tx /\ late \subseteq pool /\ bySender \subseteq Sender
  /\ count \in Nat
  /\ adds \in [Admission -> {NoAdd} \cup [tx : Tx, nonce : 0 .. MaxNonce + 1]]
  /\ engine \in [kind : {"idle", "take", "repair", "prune"},
                 todo : SUBSET Sender, picked : SUBSET (Sender \X Nonce)]
  /\ pruned \in BOOLEAN

\* size, by which the engine decides whether there is work, is the number of
\* pending transactions.
CountAgrees == count = Cardinality(pool)

\* No sender has an empty map, so that "pending.values().next().value!" is there
\* whenever takeForBlock or prune asks for it, and each sender to visit has one.
NoEmptyMap ==
  /\ bySender = {t.sender : t \in pool}
  /\ engine.todo \subseteq bySender

\* No replacement, and the limit per sender.
OnePerNonce ==
  /\ \A t, u \in pool : t.sender = u.sender /\ t.nonce = u.nonce => t = u
  /\ \A s \in Sender : Cardinality(Pending(s)) <= MaxPerSender

\* At every await of admission, takeForBlock, missingNonceRequests and prune.
PoolIsConsistent == TypeOK /\ CountAgrees /\ NoEmptyMap /\ OnePerNonce

\* What is taken for a block is, of each sender, the next nonces without a gap,
\* all still pending, and no more than fit: draftBlock can include all of it.
TakenIsIncludable ==
  /\ Cardinality(engine.picked) <= MaxTake
  /\ \A s \in Sender : \A p \in Picked(s) :
       /\ nonce[s] <= p[2] /\ HasPending(s, p[2])
       /\ \A m \in nonce[s] .. p[2] : <<s, m>> \in engine.picked

Stale == {t \in pool : t.nonce < nonce[t.sender]}

\* After a prune the only transactions that the chain has passed are those that
\* were waiting for their account when it did.
StaleOnlyIfLate == (engine = Idle /\ pruned) => Stale \subseteq late
=============================================================================
