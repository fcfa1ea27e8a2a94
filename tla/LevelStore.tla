------------------------------ MODULE LevelStore ------------------------------
(***************************************************************************)
(* LevelStore of packages/state/src/store.ts: a LevelDB behind an LRU read *)
(* cache in memory.  A get that misses the cache waits for the database,   *)
(* and remembers the answer when its continuation runs; applyChanges waits *)
(* for the batch and then remembers every change.  The engine reads and    *)
(* commits one after the other on its queue; RPC handlers and the mempool  *)
(* read whenever they like.                                                *)
(*                                                                         *)
(* A value is the number of the commit that wrote it.                      *)
(***************************************************************************)
EXTENDS Integers, Sequences, FiniteSets, SequencesExt

CONSTANTS
  Key,         \* keys, as integers: their order is the byte order
  Engine,      \* the reader that also commits: the consensus engine
  Others,      \* readers beside it: RPC requests, mempool admissions
  Capacity,    \* maxCacheEntries
  MaxCommits   \* bound: calls of applyChanges

Reader == Others \cup {Engine}
Empty  == 0
Value  == 1 .. MaxCommits

VARIABLES
  db,        \* db[k]: Empty or the value on disk
  cache,     \* entries [key, value], the least recently used first
  reads,     \* reads[r]: the get in flight, or Idle
  batch,     \* the changes of the applyChanges in flight: <<key, value>> in order
  written,   \* the batch has reached the database
  commits,   \* calls of applyChanges so far
  answer,    \* what the engine read last
  overtaken  \* history: keys remembered from a get that a commit overtook

vars == <<db, cache, reads, batch, written, commits, answer, overtaken>>

Idle == [key |-> Empty, phase |-> "idle", value |-> Empty, late |-> FALSE]

-----------------------------------------------------------------------------
(* The cache.                                                              *)

Hit(k) == \E i \in DOMAIN cache : cache[i].key = k
Cached(k) == (CHOOSE e \in ToSet(cache) : e.key = k).value

\* (mutant: a full cache is not shrunk)
RememberWithoutLimit(entries, k, v) ==
  Append(RemoveFirstMatch(entries, LAMBDA e : e.key = k), [key |-> k, value |-> v])

\* remember: the entry becomes the most recent; the oldest one may have to go.
Remember(entries, k, v) ==
  LET kept == RemoveFirstMatch(entries, LAMBDA e : e.key = k)
      all  == Append(kept, [key |-> k, value |-> v])
  IN IF Len(all) > Capacity THEN Tail(all) ELSE all

\* (mutant: deletions are not remembered)
RememberPuts(entries, changes) ==
  FoldLeft(LAMBDA acc, c : IF c[2] = Empty THEN acc ELSE Remember(acc, c[1], c[2]),
           entries, changes)

RememberAll(entries, changes) ==
  FoldLeft(LAMBDA acc, c : Remember(acc, c[1], c[2]), entries, changes)

-----------------------------------------------------------------------------
(* get: the cached value at once, or the database's after two waits.       *)

Answer(r, k, v) ==
  answer' = IF r = Engine THEN [key |-> k, value |-> v] ELSE answer

\* The engine does not read while it commits.
MayRead(r) == reads[r] = Idle /\ (r = Engine => batch = <<>>)

GetCached(r, k) ==
  /\ MayRead(r) /\ Hit(k)
  /\ Answer(r, k, Cached(k))
  /\ cache' = Remember(cache, k, Cached(k))
  /\ UNCHANGED <<db, reads, batch, written, commits, overtaken>>

GetMiss(r, k) ==
  /\ MayRead(r) /\ ~Hit(k)
  /\ reads' = [reads EXCEPT ![r] = [Idle EXCEPT !.key = k, !.phase = "asked"]]
  /\ UNCHANGED <<db, cache, batch, written, commits, answer, overtaken>>

\* LevelDB reads on another thread.
DbGet(r) ==
  /\ reads[r].phase = "asked"
  /\ reads' = [reads EXCEPT ![r].phase = "answered", ![r].value = db[reads[r].key]]
  /\ UNCHANGED <<db, cache, batch, written, commits, answer, overtaken>>

GetReturn(r) ==
  LET k == reads[r].key  v == reads[r].value IN
  /\ reads[r].phase = "answered"
  /\ cache' = Remember(cache, k, v)
  /\ Answer(r, k, v)
  /\ overtaken' = IF reads[r].late THEN overtaken \cup {k} ELSE overtaken
  /\ reads' = [reads EXCEPT ![r] = Idle]
  /\ UNCHANGED <<db, batch, written, commits>>

\* getSync, from a contract under execution.
GetSync(k) ==
  LET v == IF Hit(k) THEN Cached(k) ELSE db[k] IN
  /\ MayRead(Engine)
  /\ cache' = Remember(cache, k, v)
  /\ Answer(Engine, k, v)
  /\ UNCHANGED <<db, reads, batch, written, commits, overtaken>>

-----------------------------------------------------------------------------
(* applyChanges.                                                           *)

\* What a block may change: each of some keys gets this commit's number, or is
\* deleted; in ascending order, each key once (Overlay.changes).
ChangesOnce ==
  {some \in SUBSET (Key \X {commits + 1, Empty}) : \A c, d \in some : c[1] = d[1] => c = d}

ChangeLists ==
  {changes \in UNION {SetToSeqs(some) : some \in ChangesOnce} :
     IsSorted(changes, LAMBDA c, d : c[1] < d[1])}

Changed == {batch[i][1] : i \in DOMAIN batch}
NewValue(k) == (CHOOSE c \in ToSet(batch) : c[1] = k)[2]

ApplyChanges(changes) ==
  /\ batch = <<>> /\ reads[Engine] = Idle
  /\ commits < MaxCommits
  /\ changes # <<>>
  /\ batch' = changes
  /\ commits' = commits + 1
  /\ UNCHANGED <<db, cache, reads, written, answer, overtaken>>

\* LevelDB writes the batch, atomically.  A get that was answered before it and
\* has not returned is overtaken.
DbBatch ==
  /\ batch # <<>> /\ ~written
  /\ db' = [k \in Key |-> IF k \in Changed THEN NewValue(k) ELSE db[k]]
  /\ written' = TRUE
  /\ reads' = [r \in Reader |->
       IF reads[r].phase = "answered" /\ reads[r].key \in Changed
         THEN [reads[r] EXCEPT !.late = TRUE] ELSE reads[r]]
  /\ UNCHANGED <<cache, batch, commits, answer, overtaken>>

\* The continuation of applyChanges.
ApplyReturn ==
  /\ written
  /\ cache' = RememberAll(cache, batch)
  /\ overtaken' = overtaken \ Changed
  /\ batch' = <<>> /\ written' = FALSE
  /\ UNCHANGED <<db, reads, commits, answer>>

-----------------------------------------------------------------------------
Init ==
  /\ db = [k \in Key |-> Empty]
  /\ cache = <<>>
  /\ reads = [r \in Reader |-> Idle]
  /\ batch = <<>> /\ written = FALSE
  /\ commits = 0
  /\ answer = [key |-> Empty, value |-> Empty]
  /\ overtaken = {}

Next ==
  \/ \E r \in Reader :
       \/ \E k \in Key : GetCached(r, k) \/ GetMiss(r, k)
       \/ DbGet(r)
       \/ GetReturn(r)
  \/ \E k \in Key : GetSync(k)
  \/ \E changes \in ChangeLists : ApplyChanges(changes)
  \/ DbBatch
  \/ ApplyReturn

Spec == Init /\ [][Next]_vars

-----------------------------------------------------------------------------
(* Properties.                                                             *)

\* The cache keeps its bound and holds a key once.
CacheIsBounded ==
  /\ Len(cache) <= Capacity
  /\ \A i, j \in DOMAIN cache : cache[i].key = cache[j].key => i = j

\* What a read of k would return now.
WouldRead(k) == IF Hit(k) THEN Cached(k) ELSE db[k]

\* A get that a commit of its key overtook is the only way to a stale cache, and
\* the key's next commit heals it.
StaleOnlyIfOvertaken ==
  batch = <<>> => \A k \in Key \ overtaken : WouldRead(k) = db[k]

\* As long as no commit overtook a get, the store is the map it stands for, and
\* "all validators execute identically" (docs/src/architecture/chain.md:35).
Promise == INSTANCE StateStore WITH data <- db

ImplementsStateStore ==
  Promise!Init /\ [][overtaken = {} => Promise!Next]_<<db, answer>>
=============================================================================
