----------------------------- MODULE BlockExecutionProofs -------------------------
(***************************************************************************)
(* BlockExecution implements Ledger, for any accounts, transactions and    *)
(* validators: the cached batch, the single steps and the two modes are    *)
(* executions of one sequential ledger.  The view that the batch gives of  *)
(* the accounts is its dirty entries over the block's overlay over the     *)
(* store; each operation on the cache is the operation of the same meaning *)
(* on that view, as long as clean entries agree with what is below.        *)
(*                                                                         *)
(* What the ledger does to money and nonces (AccountsProofs) is then what  *)
(* the execution of a block does; and since neither the mode nor the way a *)
(* transaction is executed enters the ledger's step, a draft can be        *)
(* replayed: DraftVerifies.                                                *)
(***************************************************************************)
EXTENDS BlockExecution, AccountsProofs, SequenceTheorems, TLAPS

\* The accounts that entries show.
Shown(entries) == Over(DirtyOf(entries), Base)

\* The clean entries agree with what is below the cache.
CacheAgrees(entries) ==
  \A a \in DOMAIN entries :
    /\ entries[a].dirty \in BOOLEAN
    /\ ~entries[a].dirty => entries[a].account = Account(Base, a)

-----------------------------------------------------------------------------
(* The cache.                                                              *)

\* A cached account is the account shown.
LEMMA CachedIsShown ==
  ASSUME NEW entries, CacheAgrees(entries), NEW a \in DOMAIN entries
  PROVE  entries[a].account = Account(Shown(entries), a)
<1> DEFINE D == {x \in DOMAIN entries : entries[x].dirty}
<1>1. CASE entries[a].dirty
  BY <1>1 DEF Shown, Over, DirtyOf, Account
<1>2. CASE ~entries[a].dirty
  <2>1. /\ a \notin D
        /\ entries[a].account = Account(Base, a)
    BY <1>2 DEF CacheAgrees
  <2>2. Account(Shown(entries), a) = Account(Base, a)
    BY <2>1 DEF Shown, Over, DirtyOf, Account
  <2> QED BY <2>1, <2>2
<1> QED BY <1>1, <1>2

\* Fetching an account changes nothing that is shown.
LEMMA FetchedShowsTheSame ==
  ASSUME NEW entries, CacheAgrees(entries), NEW a
  PROVE  /\ CacheAgrees(Fetched(entries, a))
         /\ a \in DOMAIN Fetched(entries, a)
         /\ Shown(Fetched(entries, a)) = Shown(entries)
<1>1. CASE a \in DOMAIN entries
  BY <1>1 DEF Fetched
<1>2. CASE a \notin DOMAIN entries
  <2> DEFINE f == Fetched(entries, a)
  <2>1. /\ DOMAIN f = DOMAIN entries \cup {a}
        /\ f[a] = [account |-> Account(Base, a), dirty |-> FALSE]
        /\ \A x \in DOMAIN entries : f[x] = entries[x]
    BY <1>2 DEF Fetched, SetAccount
  <2> HIDE DEF f
  <2>2. CacheAgrees(f)
    <3> SUFFICES ASSUME NEW x \in DOMAIN f
                 PROVE  /\ f[x].dirty \in BOOLEAN
                        /\ ~f[x].dirty => f[x].account = Account(Base, x)
      BY DEF CacheAgrees
    <3>1. CASE x = a
      <4>1. f[x].dirty = FALSE /\ f[x].account = Account(Base, a)
        BY <2>1, <3>1
      <4> QED BY <3>1, <4>1
    <3>2. CASE x \in DOMAIN entries
      BY <2>1, <3>2 DEF CacheAgrees
    <3> QED BY <2>1, <3>1, <3>2
  <2>3. {x \in DOMAIN f : f[x].dirty} = {x \in DOMAIN entries : entries[x].dirty}
    BY <1>2, <2>1
  <2>4. DirtyOf(f) = DirtyOf(entries)
    BY <2>1, <2>3 DEF DirtyOf
  <2>5. Shown(f) = Shown(entries)
    BY <2>4 DEF Shown
  <2> QED BY <2>1, <2>2, <2>5 DEF f
<1> QED BY <1>1, <1>2

\* An entry that is written and marked is an account set.
LEMMA WrittenIsSet ==
  ASSUME NEW entries, CacheAgrees(entries), NEW a, NEW account
  PROVE  /\ CacheAgrees(Written(entries, a, account))
         /\ Shown(Written(entries, a, account)) = SetAccount(Shown(entries), a, account)
<1> DEFINE w == Written(entries, a, account)
           D == {x \in DOMAIN entries : entries[x].dirty}
           W == {x \in DOMAIN w : w[x].dirty}
<1>1. /\ DOMAIN w = DOMAIN entries \cup {a}
      /\ w[a].account = account /\ w[a].dirty = TRUE
      /\ \A x \in DOMAIN entries : x # a => w[x] = entries[x]
  BY DEF Written, SetAccount
<1> HIDE DEF w
<1>2. CacheAgrees(w)
  <2> SUFFICES ASSUME NEW x \in DOMAIN w
               PROVE  /\ w[x].dirty \in BOOLEAN
                      /\ ~w[x].dirty => w[x].account = Account(Base, x)
    BY DEF CacheAgrees
  <2>1. CASE x = a
    BY <1>1, <2>1
  <2>2. CASE x # a
    <3>1. x \in DOMAIN entries /\ w[x] = entries[x]
      BY <1>1, <2>2
    <3> QED BY <3>1 DEF CacheAgrees
  <2> QED BY <2>1, <2>2
<1>3. W = D \cup {a}
  <2>1. a \in W
    BY <1>1
  <2>2. \A x : x # a => (x \in W <=> x \in D)
    BY <1>1
  <2> QED BY <2>1, <2>2
<1>4. DirtyOf(w) = [x \in W |-> w[x].account]
  BY DEF DirtyOf
<1>5. DirtyOf(entries) = [x \in D |-> entries[x].account]
  BY DEF DirtyOf
<1>6. \A x \in D : x # a => w[x] = entries[x]
  BY <1>1
<1> HIDE DEF D, W
<1>7. DOMAIN Shown(w) = DOMAIN SetAccount(Shown(entries), a, account)
  BY <1>3, <1>4, <1>5 DEF Shown, Over, SetAccount
<1>8. ASSUME NEW x \in DOMAIN Shown(w)
      PROVE  Shown(w)[x] = SetAccount(Shown(entries), a, account)[x]
  <2>1. CASE x = a
    BY <1>1, <1>3, <1>4, <2>1 DEF Shown, Over, SetAccount
  <2>2. CASE x # a /\ x \in D
    BY <1>3, <1>4, <1>5, <1>6, <2>2 DEF Shown, Over, SetAccount
  <2>3. CASE x # a /\ x \notin D
    BY <1>3, <1>4, <1>5, <1>8, <2>3 DEF Shown, Over, SetAccount
  <2> QED BY <2>1, <2>2, <2>3
<1>9. Shown(w) = SetAccount(Shown(entries), a, account)
  BY <1>7, <1>8 DEF Shown, Over, SetAccount
<1> QED BY <1>2, <1>9 DEF w

\* Earn is Credit on what is shown.
LEMMA EarnIsCredit ==
  ASSUME NEW entries, CacheAgrees(entries), NEW a, NEW amount
  PROVE  /\ CacheAgrees(Earn(entries, a, amount))
         /\ Shown(Earn(entries, a, amount)) = Credit(Shown(entries), a, amount)
<1> DEFINE f == Fetched(entries, a)
<1>1. CacheAgrees(f) /\ a \in DOMAIN f /\ Shown(f) = Shown(entries)
  BY FetchedShowsTheSame
<1>2. f[a].account = Account(Shown(entries), a)
  BY <1>1, CachedIsShown
<1> HIDE DEF f
<1>3. \A account : /\ CacheAgrees(Written(f, a, account))
                   /\ Shown(Written(f, a, account)) = SetAccount(Shown(f), a, account)
  BY <1>1, WrittenIsSet
<1>4. Earn(entries, a, amount)
        = Written(f, a, [Account(Shown(entries), a) EXCEPT !.balance = @ + amount])
  BY <1>2 DEF Earn, f
<1> QED BY <1>1, <1>3, <1>4 DEF Credit

\* Pay is Charge on what is shown.
LEMMA PayIsCharge ==
  ASSUME NEW entries, CacheAgrees(entries), NEW a \in DOMAIN entries, NEW amount
  PROVE  /\ CacheAgrees(Pay(entries, a, amount))
         /\ Shown(Pay(entries, a, amount)) = Charge(Shown(entries), a, amount)
<1>1. entries[a].account = Account(Shown(entries), a)
  BY CachedIsShown
<1>2. \A account : /\ CacheAgrees(Written(entries, a, account))
                   /\ Shown(Written(entries, a, account))
                        = SetAccount(Shown(entries), a, account)
  BY WrittenIsSet
<1> QED BY <1>1, <1>2 DEF Pay, Charge

\* A transfer of the batch is that transfer on what is shown.
LEMMA BatchAppliesTransfer ==
  ASSUME NEW tx, IsTransfer(tx), CacheAgrees(cache)
  PROVE  LET e == Fetched(cache, tx.sender) IN
         /\ Includable(Cached(e), tx) <=> Includable(Shown(cache), tx)
         /\ Succeeds(Cached(e), tx) = Succeeds(Shown(cache), tx)
         /\ CacheAgrees(BatchTransfer(e, tx))
         /\ Shown(BatchTransfer(e, tx)) = Apply(Shown(cache), tx, task.proposer)
<1> DEFINE e == Fetched(cache, tx.sender)
           paid == Pay(e, tx.sender, Fee + tx.amount)
           charged == Pay(e, tx.sender, Fee)
<1>1. CacheAgrees(e) /\ tx.sender \in DOMAIN e /\ Shown(e) = Shown(cache)
  BY FetchedShowsTheSame
<1> HIDE DEF e
<1>2. Account(Cached(e), tx.sender) = Account(Shown(cache), tx.sender)
  <2>1. e[tx.sender].account = Account(Shown(e), tx.sender)
    BY <1>1, CachedIsShown
  <2>2. Account(Cached(e), tx.sender) = e[tx.sender].account
    BY <1>1 DEF Cached, Account
  <2> QED BY <1>1, <2>1, <2>2
<1>3. /\ Includable(Cached(e), tx) <=> Includable(Shown(cache), tx)
      /\ Succeeds(Cached(e), tx) = Succeeds(Shown(cache), tx)
  BY <1>2 DEF Includable, Succeeds
<1>4. CASE Succeeds(Cached(e), tx)
  <2>1. CacheAgrees(paid) /\ Shown(paid) = Charge(Shown(e), tx.sender, Fee + tx.amount)
    BY <1>1, PayIsCharge
  <2> DEFINE received == Earn(paid, tx.to, tx.amount)
  <2> HIDE DEF paid
  <2>2. CacheAgrees(received) /\ Shown(received) = Credit(Shown(paid), tx.to, tx.amount)
    BY <2>1, EarnIsCredit
  <2> HIDE DEF received
  <2>3. /\ CacheAgrees(Earn(received, task.proposer, Fee))
        /\ Shown(Earn(received, task.proposer, Fee))
             = Credit(Shown(received), task.proposer, Fee)
    BY <2>2, EarnIsCredit
  <2>4. BatchTransfer(e, tx) = Earn(received, task.proposer, Fee)
    BY <1>4 DEF BatchTransfer, received, paid
  <2>5. Apply(Shown(cache), tx, task.proposer)
          = Credit(Credit(Charge(Shown(cache), tx.sender, Fee + tx.amount), tx.to, tx.amount),
                   task.proposer, Fee)
    BY <1>3, <1>4 DEF Apply, ApplyTransfer, IsTransfer
  <2> QED BY <1>1, <1>3, <2>1, <2>2, <2>3, <2>4, <2>5 DEF e
<1>5. CASE ~Succeeds(Cached(e), tx)
  <2>1. CacheAgrees(charged) /\ Shown(charged) = Charge(Shown(e), tx.sender, Fee)
    BY <1>1, PayIsCharge
  <2> HIDE DEF charged
  <2>2. /\ CacheAgrees(Earn(charged, task.proposer, Fee))
        /\ Shown(Earn(charged, task.proposer, Fee))
             = Credit(Shown(charged), task.proposer, Fee)
    BY <2>1, EarnIsCredit
  <2>3. BatchTransfer(e, tx) = Earn(charged, task.proposer, Fee)
    BY <1>5 DEF BatchTransfer, charged
  <2>4. Apply(Shown(cache), tx, task.proposer)
          = Credit(Charge(Shown(cache), tx.sender, Fee), task.proposer, Fee)
    BY <1>3, <1>5 DEF Apply, ApplyTransfer, IsTransfer
  <2> QED BY <1>1, <1>3, <2>1, <2>2, <2>3, <2>4 DEF e
<1> QED BY <1>4, <1>5

-----------------------------------------------------------------------------
(* Overlays.                                                               *)

IsMap(accounts) == accounts = [a \in DOMAIN accounts |-> accounts[a]]

LEMMA OverIsMap ==
  ASSUME NEW writes, NEW accounts
  PROVE  IsMap(Over(writes, accounts)) /\ DOMAIN accounts \subseteq DOMAIN Over(writes, accounts)
BY DEF IsMap, Over

\* Overlays of nothing, and of everything.
LEMMA OverNothing ==
  ASSUME NEW accounts, IsMap(accounts)
  PROVE  Over(Nothing, accounts) = accounts
BY DEF Over, IsMap, Nothing

LEMMA OverAll ==
  ASSUME NEW writes, IsMap(writes), NEW accounts, DOMAIN accounts \subseteq DOMAIN writes
  PROVE  Over(writes, accounts) = writes
<1>1. DOMAIN writes \cup DOMAIN accounts = DOMAIN writes
  OBVIOUS
<1> QED BY <1>1 DEF Over, IsMap

\* It does not matter whether the dirty entries are written back first.
LEMMA OverTwice ==
  ASSUME NEW dirty, NEW writes, NEW accounts
  PROVE  Over(Over(dirty, writes), accounts) = Over(dirty, Over(writes, accounts))
<1> DEFINE l == Over(Over(dirty, writes), accounts)
           r == Over(dirty, Over(writes, accounts))
<1>1. DOMAIN l = DOMAIN r
  BY DEF Over
<1>2. ASSUME NEW a \in DOMAIN l PROVE l[a] = r[a]
  <2>1. CASE a \in DOMAIN dirty
    BY <2>1 DEF Over
  <2>2. CASE a \notin DOMAIN dirty
    BY <2>2 DEF Over
  <2> QED BY <2>1, <2>2
<1> QED BY <1>1, <1>2 DEF Over

LEMMA NothingIsClean == DirtyOf(Nothing) = Nothing /\ CacheAgrees(Nothing)
<1>1. DOMAIN Nothing = {}
  BY DEF Nothing
<1>2. CacheAgrees(Nothing)
  BY <1>1 DEF CacheAgrees
<1>3. DirtyOf(Nothing) = Nothing
  BY <1>1 DEF DirtyOf, Nothing
<1> QED BY <1>2, <1>3

\* Every change of accounts is a map that loses no account.
LEMMA SetIsMap ==
  ASSUME NEW accounts, NEW a, NEW account
  PROVE  /\ IsMap(SetAccount(accounts, a, account))
         /\ DOMAIN accounts \subseteq DOMAIN SetAccount(accounts, a, account)
BY DEF IsMap, SetAccount

LEMMA ApplyIsMap ==
  ASSUME NEW accounts, NEW tx, NEW proposer
  PROVE  /\ IsMap(Apply(accounts, tx, proposer))
         /\ DOMAIN accounts \subseteq DOMAIN Apply(accounts, tx, proposer)
<1>1. /\ \A x, a, m : IsMap(Credit(x, a, m)) /\ DOMAIN x \subseteq DOMAIN Credit(x, a, m)
      /\ \A x, a, m : IsMap(Charge(x, a, m)) /\ DOMAIN x \subseteq DOMAIN Charge(x, a, m)
  BY SetIsMap DEF Credit, Charge
<1>2. CASE tx.kind = "transfer"
  BY <1>1, <1>2 DEF Apply, ApplyTransfer
<1>3. CASE tx.kind # "transfer"
  <2>1. \A x : DOMAIN x \subseteq DOMAIN Attach(x, tx)
    BY <1>1 DEF Attach
  <2> QED BY <1>1, <1>3, <2>1 DEF Apply, ApplyCall
<1> QED BY <1>2, <1>3

-----------------------------------------------------------------------------
(* The steps.                                                              *)

Shape ==
  /\ task = Idle \/ task \in [mode : {"produce", "verify", "refused"}, batch : BOOLEAN,
                              proposer : Proposer]
  /\ todo \in Seq(Tx) /\ included \in Seq(Tx)
  /\ (task.mode = "verify" /\ task.batch) => AllTransfers(todo)

\* The batch leaves the overlay alone until it is over, single steps the cache.
PathsApart ==
  /\ ~Running => (cache = Nothing /\ overlay = Nothing)
  /\ (Running /\ task.batch) => overlay = Nothing
  /\ (Running /\ ~task.batch) => cache = Nothing

IInv ==
  /\ Shape
  /\ CacheAgrees(cache)
  /\ PathsApart
  /\ IsMap(committed)

\* An empty cache shows what is below it.
LEMMA EmptyCacheShowsBase ==
  ASSUME cache = Nothing PROVE View = Base
<1>1. IsMap(Base)
  BY OverIsMap DEF Base
<1> QED BY <1>1, NothingIsClean, OverNothing DEF View

LEMMA InitHolds == Init => IInv
<1> SUFFICES ASSUME Init PROVE IInv
  OBVIOUS
<1>1. Shape
  BY DEF Init, Shape, Idle
<1>2. CacheAgrees(cache)
  BY NothingIsClean DEF Init
<1>3. PathsApart
  BY DEF Init, PathsApart, Running, Idle
<1>4. IsMap(committed)
  BY DEF Init, IsMap
<1> QED BY <1>1, <1>2, <1>3, <1>4 DEF IInv

\* The running loop sees what the ledger would.
LEMMA SeesTheView ==
  ASSUME IInv, Running, NEW tx \in Tx, task.batch => IsTransfer(tx)
  PROVE  /\ Fits(tx) <=> Includable(View, tx)
         /\ Succeeds(Sees(tx), tx) = Succeeds(View, tx)
<1>1. CASE task.batch
  <2>1. /\ Fits(tx) <=> Includable(Shown(cache), tx)
        /\ Succeeds(Sees(tx), tx) = Succeeds(Shown(cache), tx)
    BY <1>1, BatchAppliesTransfer DEF IInv, Fits, Sees
  <2>2. View = Shown(cache)
    BY DEF View, Shown
  <2> QED BY <2>1, <2>2
<1>2. CASE ~task.batch
  BY <1>2, EmptyCacheShowsBase DEF IInv, PathsApart, Fits, Sees
<1> QED BY <1>1, <1>2

\* One turn of a loop that runs is an inclusion of the ledger.
LEMMA ExecuteIncludes ==
  ASSUME IInv, Running, NEW tx \in Tx, task.batch => IsTransfer(tx),
         Fits(tx), Execute(tx), UNCHANGED <<committed, task>>
  PROVE  /\ Includable(View, tx)
         /\ View' = Apply(View, tx, task.proposer)
         /\ CacheAgrees(cache)'
         /\ task.batch => overlay' = Nothing
         /\ ~task.batch => cache' = Nothing
<1>1. CASE task.batch
  <2>1. IsTransfer(tx) /\ CacheAgrees(cache) /\ overlay = Nothing
    BY <1>1 DEF IInv, PathsApart
  <2>2. /\ Includable(Shown(cache), tx)
        /\ CacheAgrees(BatchTransfer(Fetched(cache, tx.sender), tx))
        /\ Shown(BatchTransfer(Fetched(cache, tx.sender), tx))
             = Apply(Shown(cache), tx, task.proposer)
    BY <1>1, <2>1, BatchAppliesTransfer DEF Fits, Sees
  <2>3. cache' = BatchTransfer(Fetched(cache, tx.sender), tx) /\ overlay' = overlay
    BY <1>1 DEF Execute
  <2>4. Base' = Base
    BY <2>3 DEF Base, Over
  <2>5. CacheAgrees(cache)'
    BY <2>2, <2>3, <2>4 DEF CacheAgrees, Account
  <2>6. View' = Shown(cache')
    BY <2>4 DEF View, Shown
  <2>7. View = Shown(cache)
    BY DEF View, Shown
  <2> QED BY <1>1, <2>1, <2>2, <2>3, <2>5, <2>6, <2>7
<1>2. CASE ~task.batch
  <2>1. cache = Nothing /\ IsMap(committed)
    BY <1>2 DEF IInv, PathsApart
  <2>2. View = Base
    BY <2>1, EmptyCacheShowsBase
  <2>3. cache' = Nothing /\ overlay' = Apply(Base, tx, task.proposer)
    BY <1>2, <2>1 DEF Execute
  <2>4. Includable(View, tx)
    BY <1>2, <2>2 DEF Fits, Sees
  <2>5. DOMAIN committed \subseteq DOMAIN Base
    BY OverIsMap DEF Base
  <2>6. /\ IsMap(Apply(Base, tx, task.proposer))
        /\ DOMAIN Base \subseteq DOMAIN Apply(Base, tx, task.proposer)
    BY ApplyIsMap
  <2>7. Over(Apply(Base, tx, task.proposer), committed) = Apply(Base, tx, task.proposer)
    BY <2>5, <2>6, OverAll
  <2>8. Base' = Apply(Base, tx, task.proposer)
    BY <2>3, <2>7 DEF Base, Over
  <2>9. View' = Base'
    <3>1. View' = Over(DirtyOf(Nothing), Base')
      BY <2>3 DEF View, Over, DirtyOf
    <3>2. IsMap(Base')
      BY <2>6, <2>8
    <3> QED BY <3>1, <3>2, NothingIsClean, OverNothing
  <2>10. CacheAgrees(cache)'
    BY <2>3, NothingIsClean DEF CacheAgrees, Nothing
  <2> QED BY <1>2, <2>2, <2>3, <2>4, <2>8, <2>9, <2>10
<1> QED BY <1>1, <1>2

\* What a step does: it includes a transaction, it starts on the committed
\* accounts with an empty block, or it changes nothing that is shown.
Includes(tx) ==
  /\ Includable(View, tx)
  /\ View' = Apply(View, tx, task.proposer)
  /\ included' = Append(included, tx)
  /\ receipts' = Append(receipts, Succeeds(View, tx))
  /\ committed' = committed /\ task' = task /\ drafted' = drafted

Restarts ==
  /\ included' = <<>> /\ receipts' = <<>>
  /\ View' = committed' /\ committed' \in {committed, View}

Stays == UNCHANGED <<committed, View, included, receipts>>

BlockStep ==
  \/ \E tx \in Tx : task.proposer \in Addr /\ Includes(tx)
  \/ Restarts
  \/ Stays

LEMMA BeginDraftSteps ==
  ASSUME IInv, NEW proposer \in Proposer, NEW batch \in BOOLEAN, BeginDraft(proposer, batch)
  PROVE  IInv' /\ BlockStep
<1> USE DEF BeginDraft
<1>1. cache = Nothing /\ overlay = Nothing
  BY DEF IInv, PathsApart
<1>2. Shape'
  BY DEF IInv, Shape
<1>3. CacheAgrees(cache)'
  BY <1>1, NothingIsClean DEF CacheAgrees, Nothing
<1>4. PathsApart'
  BY <1>1 DEF PathsApart
<1>5. View' = View
  BY DEF View, Base, DirtyOf, Over
<1> QED BY <1>2, <1>3, <1>4, <1>5 DEF IInv, IsMap, BlockStep, Stays

LEMMA ReceiveSteps ==
  ASSUME IInv, NEW proposer \in Proposer, NEW n \in 0 .. MaxPeerTxs,
         NEW txs \in [1 .. n -> Tx], Receive(proposer, txs)
  PROVE  IInv' /\ BlockStep
<1> USE DEF Receive
<1>1. cache = Nothing /\ overlay = Nothing
  BY DEF IInv, PathsApart
<1>2. Shape'
  <2>1. n \in Nat
    BY BlockAssumption
  <2>2. txs \in Seq(Tx)
    BY <2>1, SeqDef
  <2>3. AllTransfers(txs) \in BOOLEAN
    BY DEF AllTransfers
  <2>4. task' \in [mode : {"produce", "verify", "refused"}, batch : BOOLEAN,
                   proposer : Proposer]
    BY <2>3
  <2>5. task'.batch = AllTransfers(txs) /\ todo' = txs /\ included' = included
    OBVIOUS
  <2> QED BY <2>2, <2>4, <2>5 DEF IInv, Shape, AllTransfers
<1>3. CacheAgrees(cache)'
  BY <1>1, NothingIsClean DEF CacheAgrees, Nothing
<1>4. PathsApart'
  BY <1>1 DEF PathsApart
<1>5. View' = View
  BY DEF View, Base, DirtyOf, Over
<1> QED BY <1>2, <1>3, <1>4, <1>5 DEF IInv, IsMap, BlockStep, Stays

LEMMA OfferSteps ==
  ASSUME IInv, NEW tx \in Tx, Offer(tx)
  PROVE  IInv' /\ BlockStep
<1>1. /\ Running /\ task.mode = "produce" /\ (task.batch => IsTransfer(tx))
      /\ UNCHANGED <<committed, task, todo, drafted>>
      /\ task.batch \in BOOLEAN /\ task.proposer \in Addr
  BY BlockAssumption DEF Offer, Running, IInv, Shape, Idle
<1>2. CASE Fits(tx)
  <2>1. Execute(tx)
    BY <1>2 DEF Offer
  <2>2. /\ Includable(View, tx)
        /\ View' = Apply(View, tx, task.proposer)
        /\ CacheAgrees(cache)'
        /\ task.batch => overlay' = Nothing
        /\ ~task.batch => cache' = Nothing
    BY <1>1, <1>2, <2>1, ExecuteIncludes
  <2>3. Shape'
    <3>1. included' = Append(included, tx)
      BY <2>1 DEF Execute
    <3>2. included' \in Seq(Tx)
      BY <3>1 DEF IInv, Shape
    <3> QED BY <1>1, <3>2 DEF IInv, Shape
  <2>4. PathsApart'
    BY <1>1, <2>2 DEF PathsApart, Running
  <2>5. Includes(tx)
    <3>1. receipts' = Append(receipts, Succeeds(View, tx))
      BY <1>1, <2>1, SeesTheView DEF Execute
    <3> QED BY <1>1, <2>1, <2>2, <3>1 DEF Includes, Execute
  <2> QED BY <1>1, <2>2, <2>3, <2>4, <2>5 DEF IInv, IsMap, BlockStep
<1>3. CASE ~Fits(tx)
  <2>1. /\ cache' = IF task.batch THEN Fetched(cache, tx.sender) ELSE cache
        /\ UNCHANGED <<overlay, included, receipts>>
    BY <1>3 DEF Offer
  <2>2. Base' = Base
    BY <1>1, <2>1 DEF Base, Over
  <2>3. CacheAgrees(cache') /\ Shown(cache') = Shown(cache)
    BY <2>1, FetchedShowsTheSame DEF IInv
  <2>4. CacheAgrees(cache)'
    BY <2>2, <2>3 DEF CacheAgrees, Account
  <2>5. View' = View
    BY <2>2, <2>3 DEF View, Shown
  <2>6. Shape'
    BY <1>1, <2>1 DEF IInv, Shape
  <2>7. PathsApart'
    BY <1>1, <2>1 DEF IInv, PathsApart, Running
  <2> QED BY <1>1, <2>1, <2>4, <2>5, <2>6, <2>7 DEF IInv, IsMap, BlockStep, Stays
<1> QED BY <1>2, <1>3

\* A step that empties cache and overlay shows what is committed after it.
LEMMA EmptiedShowsCommitted ==
  ASSUME cache' = Nothing, overlay' = Nothing, IsMap(committed')
  PROVE  View' = committed' /\ CacheAgrees(cache)'
<1>1. View' = Over(DirtyOf(Nothing), Over(Nothing, committed'))
  BY DEF View, Base, DirtyOf, Over
<1>2. View' = committed'
  BY <1>1, NothingIsClean, OverNothing
<1>3. CacheAgrees(cache)'
  BY NothingIsClean DEF CacheAgrees, Nothing
<1> QED BY <1>2, <1>3

LEMMA EndDraftSteps ==
  ASSUME IInv, EndDraft
  PROVE  IInv' /\ BlockStep
<1> USE DEF EndDraft
<1>1. View' = committed /\ CacheAgrees(cache)' /\ IsMap(committed')
  BY EmptiedShowsCommitted DEF IInv
<1>2. Shape'
  <2>1. task.proposer \in Proposer /\ included \in Seq(Tx)
    BY DEF IInv, Shape, Idle
  <2>2. AllTransfers(included) \in BOOLEAN
    BY DEF AllTransfers
  <2>3. task' \in [mode : {"produce", "verify", "refused"}, batch : BOOLEAN,
                   proposer : Proposer]
    BY <2>1, <2>2
  <2>4. todo' \in Seq(Tx) /\ included' \in Seq(Tx)
    BY <2>1
  <2>5. task'.batch = AllTransfers(todo')
    OBVIOUS
  <2> QED BY <2>3, <2>4, <2>5 DEF Shape, AllTransfers
<1>3. PathsApart'
  BY DEF PathsApart
<1>4. Restarts
  BY <1>1 DEF Restarts
<1> QED BY <1>1, <1>2, <1>3, <1>4 DEF IInv, IsMap, BlockStep

LEMMA VerifyTxSteps ==
  ASSUME IInv, VerifyTx
  PROVE  IInv' /\ BlockStep
<1> DEFINE tx == Head(todo)
<1>1. /\ Running /\ task.mode = "verify" /\ Fits(tx) /\ Execute(tx)
      /\ todo # <<>> /\ todo' = Tail(todo)
      /\ UNCHANGED <<committed, task, drafted>>
      /\ todo \in Seq(Tx) /\ included \in Seq(Tx)
  BY DEF VerifyTx, Running, IInv, Shape
<1>2. tx \in Tx /\ todo' \in Seq(Tx)
  BY <1>1
<1>3. 1 \in DOMAIN todo /\ tx = todo[1]
  BY <1>1
<1>4. task.batch => IsTransfer(tx)
  BY <1>1, <1>3 DEF IInv, Shape, AllTransfers
<1>5. task.batch \in BOOLEAN /\ task.proposer \in Addr
  BY <1>1, BlockAssumption DEF IInv, Shape, Idle
<1> HIDE DEF tx
<1>6. /\ Includable(View, tx)
      /\ View' = Apply(View, tx, task.proposer)
      /\ CacheAgrees(cache)'
      /\ task.batch => overlay' = Nothing
      /\ ~task.batch => cache' = Nothing
  BY <1>1, <1>2, <1>4, ExecuteIncludes
<1>7. Shape'
  <2>1. included' \in Seq(Tx)
    BY <1>1, <1>2 DEF Execute
  <2>2. AllTransfers(todo) => AllTransfers(todo')
    <3>1. \A i \in DOMAIN todo' : i + 1 \in DOMAIN todo /\ todo'[i] = todo[i + 1]
      BY <1>1
    <3> QED BY <3>1 DEF AllTransfers
  <2> QED BY <1>1, <1>2, <2>1, <2>2 DEF IInv, Shape
<1>8. PathsApart'
  BY <1>1, <1>6 DEF PathsApart, Running
<1>9. Includes(tx)
  <2>1. receipts' = Append(receipts, Succeeds(View, tx))
    BY <1>1, <1>2, <1>4, SeesTheView DEF Execute
  <2> QED BY <1>1, <1>6, <2>1 DEF Includes, Execute
<1> QED BY <1>1, <1>2, <1>5, <1>6, <1>7, <1>8, <1>9 DEF IInv, IsMap, BlockStep

LEMMA RefuseSteps ==
  ASSUME IInv, Refuse
  PROVE  IInv' /\ BlockStep
<1> USE DEF Refuse
<1>1. View' = committed /\ CacheAgrees(cache)' /\ IsMap(committed')
  BY EmptiedShowsCommitted DEF IInv
<1>2. Shape'
  <2>1. task \in [mode : {"produce", "verify", "refused"}, batch : BOOLEAN,
                  proposer : Proposer]
    BY DEF IInv, Shape, Idle
  <2> QED BY <2>1 DEF Shape
<1>3. PathsApart'
  <2>1. task.mode = "verify" /\ task'.mode = "refused"
    BY DEF IInv, Shape, Idle
  <2> QED BY <2>1 DEF PathsApart, Running
<1>4. Restarts
  BY <1>1 DEF Restarts
<1> QED BY <1>1, <1>2, <1>3, <1>4 DEF IInv, IsMap, BlockStep

LEMMA CommitBlockSteps ==
  ASSUME IInv, CommitBlock
  PROVE  IInv' /\ BlockStep
<1> USE DEF CommitBlock
<1>1. committed' = View
  BY OverTwice DEF WriteBack, View, Base
<1>2. IsMap(committed')
  BY <1>1, OverIsMap DEF View
<1>3. View' = committed' /\ CacheAgrees(cache)'
  BY <1>2, EmptiedShowsCommitted
<1>4. Shape'
  BY DEF IInv, Shape, Idle
<1>5. PathsApart'
  BY DEF PathsApart, Running, Idle
<1>6. Restarts
  BY <1>1, <1>3 DEF Restarts
<1> QED BY <1>1, <1>2, <1>3, <1>4, <1>5, <1>6 DEF IInv, IsMap, BlockStep

LEMMA NextSteps == IInv /\ [Next]_vars => IInv' /\ BlockStep
<1> SUFFICES ASSUME IInv, [Next]_vars PROVE IInv' /\ BlockStep
  OBVIOUS
<1>1. CASE Next
  BY <1>1, BeginDraftSteps, ReceiveSteps, OfferSteps, EndDraftSteps, VerifyTxSteps,
     RefuseSteps, CommitBlockSteps DEF Next
<1>2. CASE UNCHANGED vars
  <2> USE <1>2 DEF vars
  <2>1. Shape'
    BY DEF IInv, Shape, AllTransfers
  <2>2. CacheAgrees(cache)'
    BY DEF IInv, CacheAgrees, Account, Base, Over
  <2>3. PathsApart'
    BY DEF IInv, PathsApart, Running
  <2>4. View' = View
    BY DEF View, Base, DirtyOf, Over
  <2> QED BY <2>1, <2>2, <2>3, <2>4 DEF IInv, IsMap, BlockStep, Stays
<1> QED BY <1>1, <1>2

-----------------------------------------------------------------------------
(* The refinement.                                                         *)

LEMMA SameAccounts ==
  ASSUME NEW accounts, NEW tx, NEW proposer
  PROVE  /\ Promise!Includable(accounts, tx) <=> Includable(accounts, tx)
         /\ Promise!Apply(accounts, tx, proposer) = Apply(accounts, tx, proposer)
BY DEF Promise!Includable, Includable, Promise!Account, Account, Promise!Required, Required,
       Promise!EmptyAccount, EmptyAccount, Promise!Apply, Apply,
       Promise!ApplyTransfer, ApplyTransfer, Promise!ApplyCall, ApplyCall,
       Promise!Succeeds, Succeeds, Promise!Credit, Credit, Promise!Charge, Charge,
       Promise!SetAccount, SetAccount, Promise!Attach, Attach

LEMMA InitIsLedgerInit == Init => Promise!Init
<1> SUFFICES ASSUME Init PROVE Promise!Init
  OBVIOUS
<1>1. View = committed
  <2>1. IsMap(committed)
    BY DEF Init, IsMap
  <2>2. View = Over(DirtyOf(Nothing), Over(Nothing, committed))
    BY DEF Init, View, Base
  <2> QED BY <2>1, <2>2, NothingIsClean, OverNothing
<1>2. \A a \in DOMAIN committed : committed[a] \in [balance : Nat, nonce : {0}]
  BY BlockAssumption DEF Init
<1>3. DOMAIN committed \subseteq Addr
  BY BlockAssumption DEF Init
<1> QED BY <1>1, <1>2, <1>3 DEF Promise!Init

\* What a ledger may do to the accounts, with the accounts as they are shown.
LedgerStep ==
  \/ /\ \E tx \in Tx, proposer \in Addr :
          Includable(View, tx) /\ View' = Apply(View, tx, proposer)
     /\ committed' = committed
  \/ View' = committed /\ committed' = committed
  \/ committed' = View /\ View' = View
  \/ View' = View /\ committed' = committed

LEMMA StepIsLedgerStep == BlockStep => [Promise!Next]_<<committed, View>>
<1> SUFFICES ASSUME BlockStep PROVE [Promise!Next]_<<committed, View>>
  OBVIOUS
<1>0. LedgerStep
  <2>1. CASE \E tx \in Tx : task.proposer \in Addr /\ Includes(tx)
    BY <2>1 DEF Includes, LedgerStep
  <2>2. CASE Restarts
    BY <2>2 DEF Restarts, LedgerStep
  <2>3. CASE Stays
    BY <2>3 DEF Stays, LedgerStep
  <2> QED BY <2>1, <2>2, <2>3 DEF BlockStep
<1>1. CASE /\ \E tx \in Tx, proposer \in Addr :
                Includable(View, tx) /\ View' = Apply(View, tx, proposer)
           /\ committed' = committed
  <2>1. PICK tx \in Tx, proposer \in Addr :
          Includable(View, tx) /\ View' = Apply(View, tx, proposer)
    BY <1>1
  <2>2. Promise!Includable(View, tx) /\ View' = Promise!Apply(View, tx, proposer)
    BY <2>1, SameAccounts
  <2>3. Promise!Include(tx, proposer)
    BY <1>1, <2>2 DEF Promise!Include
  <2> QED BY <2>3 DEF Promise!Next
<1>2. CASE View' = committed /\ committed' = committed
  BY <1>2 DEF Promise!Next, Promise!Drop
<1>3. CASE committed' = View /\ View' = View
  BY <1>3 DEF Promise!Next, Promise!Commit
<1>4. CASE View' = View /\ committed' = committed
  BY <1>4
<1> QED BY <1>0, <1>1, <1>2, <1>3, <1>4 DEF LedgerStep

\* The draft and the verification of a block, by the cached batch or one
\* transaction at a time, apply includable transactions one after the other to
\* the accounts as the last one left them, and keep or drop them as a whole.
THEOREM Refinement == Spec => ImplementsLedger
<1>1. Init => IInv /\ Promise!Init
  BY InitHolds, InitIsLedgerInit
<1>2. IInv /\ [Next]_vars => IInv' /\ [Promise!Next]_<<committed, View>>
  BY NextSteps, StepIsLedgerStep
<1> QED BY <1>1, <1>2, PTL DEF Spec, ImplementsLedger, Promise!Spec

-----------------------------------------------------------------------------
(* Money.                                                                  *)

Money ==
  /\ Solvent(committed) /\ SumOf(committed) = SumFunction(Balance)
  /\ Solvent(View) /\ SumOf(View) = SumFunction(Balance)
  /\ DOMAIN committed \subseteq Addr /\ DOMAIN View \subseteq Addr

LEMMA ApplyStaysInAddr ==
  ASSUME NEW accounts, DOMAIN accounts \subseteq Addr, NEW tx \in Tx, NEW proposer \in Addr
  PROVE  DOMAIN Apply(accounts, tx, proposer) \subseteq Addr
<1>1. tx.sender \in Addr /\ tx.to \in Addr
  BY BlockAssumption
<1>2. ASSUME NEW x, DOMAIN x \subseteq Addr, NEW a \in Addr
      PROVE  \A m : DOMAIN Credit(x, a, m) \subseteq Addr /\ DOMAIN Charge(x, a, m) \subseteq Addr
  BY <1>2 DEF Credit, Charge, SetAccount
<1>3. CASE tx.kind = "transfer"
  BY <1>1, <1>2, <1>3 DEF Apply, ApplyTransfer
<1>4. CASE tx.kind # "transfer"
  <2>1. ASSUME NEW x, DOMAIN x \subseteq Addr PROVE DOMAIN Attach(x, tx) \subseteq Addr
    BY <1>1, <1>2, <2>1 DEF Attach
  <2> QED BY <1>1, <1>2, <1>4, <2>1 DEF Apply, ApplyCall
<1> QED BY <1>3, <1>4

\* The genesis has the balances that are given to it.
LEMMA InitMoney == Init => Money
<1> SUFFICES ASSUME Init PROVE Money
  OBVIOUS
<1>1. committed = [a \in DOMAIN Balance |-> [balance |-> Balance[a], nonce |-> 0]]
  BY DEF Init
<1>2. /\ DOMAIN committed = DOMAIN Balance /\ DOMAIN Balance \subseteq Addr
      /\ \A a \in DOMAIN Balance : committed[a] = [balance |-> Balance[a], nonce |-> 0]
      /\ \A a \in DOMAIN Balance : Balance[a] \in Nat
  BY <1>1, BlockAssumption
<1>3. IsFiniteSet(DOMAIN Balance)
  BY <1>2, BlockAssumption, FS_Subset
<1>4. Solvent(committed)
  BY <1>2, <1>3 DEF Solvent
<1>5. SumOf(committed) = SumFunction(Balance)
  <2>1. /\ DOMAIN BalancesOf(committed) = DOMAIN Balance
        /\ \A a \in DOMAIN Balance : BalancesOf(committed)[a] = Balance[a]
    BY <1>2 DEF BalancesOf
  <2> QED BY <1>3, <2>1, SumsAgree DEF SumOf, SumFunction
<1>6. View = committed
  <2>1. cache = Nothing /\ overlay = Nothing /\ IsMap(committed)
    BY DEF Init, IsMap
  <2> QED BY <2>1, NothingIsClean, OverNothing DEF View, Base
<1> QED BY <1>2, <1>4, <1>5, <1>6 DEF Money

\* An inclusion is fair.
LEMMA InclusionIsFair ==
  ASSUME Money, NEW tx \in Tx, Includes(tx)
  PROVE  Fair(View, View', tx.sender)
<1>1. tx.amount \in Nat /\ tx.fuel \in Nat
  BY BlockAssumption
<1> QED BY <1>1, ApplyIsFair DEF Includes, Money

LEMMA MoneyStep == Money /\ BlockStep => Money'
<1> SUFFICES ASSUME Money, BlockStep PROVE Money'
  OBVIOUS
<1>1. CASE \E tx \in Tx : task.proposer \in Addr /\ Includes(tx)
  <2>1. PICK tx \in Tx : task.proposer \in Addr /\ Includes(tx)
    BY <1>1
  <2>2. Solvent(View') /\ SumOf(View') = SumOf(View)
    BY <2>1, InclusionIsFair DEF Fair
  <2>3. DOMAIN View' \subseteq Addr
    BY <2>1, ApplyStaysInAddr DEF Includes, Money
  <2>4. committed' = committed
    BY <2>1 DEF Includes
  <2>5. /\ Solvent(committed') /\ SumOf(committed') = SumFunction(Balance)
        /\ SumOf(View') = SumFunction(Balance) /\ DOMAIN committed' \subseteq Addr
    BY <2>2, <2>4 DEF Money
  <2> QED BY <2>2, <2>3, <2>5 DEF Money, Solvent, SumOf, BalancesOf
<1>2. CASE Restarts
  <2>1. View' = committed' /\ (committed' = committed \/ committed' = View)
    BY <1>2 DEF Restarts
  <2>2. /\ Solvent(committed') /\ SumOf(committed') = SumFunction(Balance)
        /\ DOMAIN committed' \subseteq Addr
    BY <2>1 DEF Money
  <2>3. /\ Solvent(View') /\ SumOf(View') = SumFunction(Balance)
        /\ DOMAIN View' \subseteq Addr
    BY <2>1, <2>2
  <2> QED BY <2>2, <2>3 DEF Money, Solvent, SumOf, BalancesOf
<1>3. CASE Stays
  <2>1. View' = View /\ committed' = committed
    BY <1>3 DEF Stays
  <2>2. /\ Solvent(committed') /\ SumOf(committed') = SumFunction(Balance)
        /\ DOMAIN committed' \subseteq Addr
        /\ Solvent(View') /\ SumOf(View') = SumFunction(Balance)
        /\ DOMAIN View' \subseteq Addr
    BY <2>1 DEF Money
  <2> QED BY <2>2 DEF Money, Solvent, SumOf, BalancesOf
<1> QED BY <1>1, <1>2, <1>3 DEF BlockStep

-----------------------------------------------------------------------------
(* Nonces.                                                                 *)

\* One more transaction counts for its sender.
LEMMA NonceAfterNext ==
  ASSUME NEW accounts, Solvent(accounts), NEW s, NEW a, NEW n \in Nat
  PROVE  /\ NonceAfter(accounts, s, a, n) \in Nat
         /\ NonceAfter(accounts, s, a, n + 1) =
              IF s[n + 1].sender = a THEN NonceAfter(accounts, s, a, n) + 1
                                     ELSE NonceAfter(accounts, s, a, n)
<1> DEFINE own  == {i \in 1 .. n : s[i].sender = a}
           more == {i \in 1 .. (n + 1) : s[i].sender = a}
           from == Account(accounts, a).nonce
<1>1. IsFiniteSet(1 .. n)
  BY FS_Interval
<1>2. IsFiniteSet(own) /\ Cardinality(own) \in Nat /\ from \in Nat
  BY <1>1, FS_Subset, FS_CardinalityType, AccountOf
<1>3. /\ NonceAfter(accounts, s, a, n) = from + Cardinality(own)
      /\ NonceAfter(accounts, s, a, n + 1) = from + Cardinality(more)
  BY DEF NonceAfter
<1>4. CASE s[n + 1].sender = a
  <2>1. more = own \cup {n + 1} /\ n + 1 \notin own
    BY <1>4
  <2>2. Cardinality(more) = Cardinality(own) + 1
    BY <1>2, <2>1, FS_AddElement
  <2> HIDE DEF own, more, from
  <2> QED BY <1>2, <1>3, <1>4, <2>2
<1>5. CASE s[n + 1].sender # a
  <2>1. more = own
    BY <1>5
  <2> HIDE DEF own, more, from
  <2> QED BY <1>2, <1>3, <1>5, <2>1
<1> QED BY <1>4, <1>5

LEMMA NonceAfterNone ==
  ASSUME NEW accounts, Solvent(accounts), NEW s, NEW a
  PROVE  NonceAfter(accounts, s, a, 0) = Account(accounts, a).nonce
<1>1. {i \in 1 .. 0 : s[i].sender = a} = {}
  OBVIOUS
<1>2. Account(accounts, a).nonce \in Nat
  BY AccountOf
<1> QED BY <1>1, <1>2, FS_EmptySet DEF NonceAfter

\* What is counted before n does not depend on what comes after.
LEMMA NonceAfterSame ==
  ASSUME NEW accounts, NEW s, NEW t, NEW n, \A i \in 1 .. n : s[i] = t[i], NEW a
  PROVE  NonceAfter(accounts, s, a, n) = NonceAfter(accounts, t, a, n)
<1>1. {i \in 1 .. n : s[i].sender = a} = {i \in 1 .. n : t[i].sender = a}
  OBVIOUS
<1> QED BY <1>1 DEF NonceAfter

\* An empty block has used up no nonce.
LEMMA InitOrder == Init /\ Money => NoncesInOrder
<1> SUFFICES ASSUME Init, Money PROVE NoncesInOrder
  OBVIOUS
<1>1. View = committed
  <2>1. cache = Nothing /\ overlay = Nothing /\ IsMap(committed)
    BY DEF Init, IsMap
  <2> QED BY <2>1, NothingIsClean, OverNothing DEF View, Base
<1>2. Len(included) = 0 /\ DOMAIN included = {}
  BY DEF Init
<1>3. \A a : NonceAfter(committed, included, a, 0) = Account(committed, a).nonce
  BY NonceAfterNone DEF Money
<1> QED BY <1>1, <1>2, <1>3 DEF NoncesInOrder

LEMMA OrderStep ==
  ASSUME Money, Money', NoncesInOrder, included \in Seq(Tx), BlockStep
  PROVE  NoncesInOrder'
<1>1. CASE \E tx \in Tx : task.proposer \in Addr /\ Includes(tx)
  <2>1. PICK tx \in Tx : task.proposer \in Addr /\ Includes(tx)
    BY <1>1
  <2> DEFINE n == Len(included)
             t == Append(included, tx)
             w == Apply(View, tx, task.proposer)
  <2>2. /\ n \in Nat /\ Len(t) = n + 1 /\ t[n + 1] = tx
        /\ \A i \in 1 .. n : t[i] = included[i]
        /\ DOMAIN t = 1 .. (n + 1) /\ DOMAIN included = 1 .. n
    OBVIOUS
  <2>3. included' = t /\ committed' = committed /\ View' = w
    BY <2>1 DEF Includes
  <2>4. /\ \A i \in 1 .. n :
             included[i].nonce = NonceAfter(committed, included, included[i].sender, i - 1)
        /\ \A a \in Addr : Account(View, a).nonce = NonceAfter(committed, included, a, n)
    BY <2>2 DEF NoncesInOrder
  <2>5. /\ Fair(View, w, tx.sender) /\ Solvent(committed)
        /\ tx.nonce = Account(View, tx.sender).nonce /\ tx.sender \in Addr
    BY <2>1, <2>3, InclusionIsFair, BlockAssumption DEF Money, Includes, Includable
  <2> HIDE DEF n, t, w
  <2>6. ASSUME NEW a, NEW k \in 0 .. n
        PROVE  NonceAfter(committed, t, a, k) = NonceAfter(committed, included, a, k)
    <3>1. \A i \in 1 .. k : t[i] = included[i]
      BY <2>2
    <3> QED BY <3>1, NonceAfterSame
  <2>7. n \in 0 .. n
    BY <2>2
  <2>8. ASSUME NEW a \in Addr
        PROVE  Account(w, a).nonce = NonceAfter(committed, t, a, n + 1)
    <3>1. Account(w, a).nonce =
            IF a = tx.sender THEN Account(View, a).nonce + 1 ELSE Account(View, a).nonce
      BY <2>5 DEF Fair
    <3>2. NonceAfter(committed, t, a, n + 1) =
            IF t[n + 1].sender = a THEN NonceAfter(committed, t, a, n) + 1
                                   ELSE NonceAfter(committed, t, a, n)
      <4>1. n \in Nat /\ Solvent(committed)
        BY <2>2, <2>5
      <4> QED BY <4>1, NonceAfterNext
    <3>3. NonceAfter(committed, t, a, n) = Account(View, a).nonce
      BY <2>4, <2>6, <2>7
    <3> QED BY <2>2, <3>1, <3>2, <3>3
  <2>9. ASSUME NEW i \in 1 .. (n + 1)
        PROVE  t[i].nonce = NonceAfter(committed, t, t[i].sender, i - 1)
    <3>1. CASE i = n + 1
      <4>1. i - 1 = n
        BY <2>2, <3>1
      <4>2. tx.nonce = NonceAfter(committed, t, tx.sender, n)
        BY <2>4, <2>5, <2>6, <2>7
      <4> QED BY <2>2, <3>1, <4>1, <4>2
    <3>2. CASE i \in 1 .. n
      <4>1. i - 1 \in 0 .. n
        BY <2>2, <3>2
      <4> QED BY <2>2, <2>4, <2>6, <3>2, <4>1
    <3>3. i = n + 1 \/ i \in 1 .. n
      BY <2>2
    <3> QED BY <3>1, <3>2, <3>3
  <2> QED BY <2>2, <2>3, <2>8, <2>9 DEF NoncesInOrder
<1>2. CASE Restarts
  <2>1. included' = <<>> /\ View' = committed' /\ Solvent(committed')
    BY <1>2 DEF Restarts, Money
  <2>2. Len(included') = 0 /\ DOMAIN included' = {}
    BY <2>1
  <2>3. \A a : NonceAfter(committed', included', a, 0) = Account(committed', a).nonce
    BY <2>1, NonceAfterNone
  <2> QED BY <2>1, <2>2, <2>3 DEF NoncesInOrder
<1>3. CASE Stays
  BY <1>3 DEF Stays, NoncesInOrder
<1> QED BY <1>1, <1>2, <1>3 DEF BlockStep

-----------------------------------------------------------------------------
(* Types.                                                                  *)

\* How far the lists and the cache can grow.
Sizes ==
  /\ receipts \in Seq(BOOLEAN) /\ Len(receipts) = Len(included)
  /\ offered \in 0 .. MaxTxs
  /\ task.mode # "produce" => offered = 0
  /\ ~Running => todo = <<>> /\ included = <<>>
  /\ task.mode = "produce" => todo = <<>> /\ Len(included) <= offered
  /\ Len(todo) + Len(included) <= MaxTxs
  /\ DOMAIN cache \subseteq Addr

LEMMA InitSizes == Init => Sizes
<1> SUFFICES ASSUME Init PROVE Sizes
  OBVIOUS
<1>1. DOMAIN cache = {}
  BY DEF Init, Nothing
<1> QED BY <1>1, BlockAssumption DEF Init, Sizes, Idle

LEMMA FetchedInAddr ==
  ASSUME NEW entries, DOMAIN entries \subseteq Addr, NEW a \in Addr
  PROVE  DOMAIN Fetched(entries, a) \subseteq Addr
BY DEF Fetched, SetAccount

LEMMA ExecuteInAddr ==
  ASSUME DOMAIN cache \subseteq Addr, NEW tx \in Tx, task.proposer \in Addr, Execute(tx)
  PROVE  DOMAIN cache' \subseteq Addr
<1>1. tx.sender \in Addr /\ tx.to \in Addr
  BY BlockAssumption
<1>2. ASSUME NEW e, DOMAIN e \subseteq Addr, NEW a \in Addr
      PROVE  \A m : DOMAIN Earn(e, a, m) \subseteq Addr /\ DOMAIN Pay(e, a, m) \subseteq Addr
  <2>1. DOMAIN Fetched(e, a) \subseteq Addr
    BY <1>2, FetchedInAddr
  <2> QED BY <1>2, <2>1 DEF Earn, Pay, Written, SetAccount
<1>3. DOMAIN Fetched(cache, tx.sender) \subseteq Addr
  BY <1>1, FetchedInAddr
<1>4. DOMAIN BatchTransfer(Fetched(cache, tx.sender), tx) \subseteq Addr
  BY <1>1, <1>2, <1>3 DEF BatchTransfer
<1> QED BY <1>4 DEF Execute

LEMMA ReceiptIsBoolean ==
  ASSUME IInv, Money, Running, NEW tx \in Tx, task.batch => IsTransfer(tx)
  PROVE  Succeeds(Sees(tx), tx) \in BOOLEAN
<1>1. Succeeds(Sees(tx), tx) = Succeeds(View, tx)
  BY SeesTheView
<1>2. tx.amount \in Nat /\ tx.succeeds \in BOOLEAN /\ Fee \in Nat
  BY BlockAssumption, FeeAssumption
<1>3. Account(View, tx.sender).balance \in Nat
  BY AccountOf DEF Money
<1>4. (Account(View, tx.sender).balance - Fee >= tx.amount) \in BOOLEAN
  BY <1>2, <1>3
<1>5. Succeeds(View, tx) \in BOOLEAN
  BY <1>2, <1>4, Zenon DEF Succeeds
<1> QED BY <1>1, <1>5

LEMMA SizesStep ==
  ASSUME IInv, Sizes, Money, Next
  PROVE  Sizes'
<1>1. ASSUME NEW proposer \in Proposer, NEW batch \in BOOLEAN, BeginDraft(proposer, batch)
      PROVE  Sizes'
  BY <1>1 DEF BeginDraft, Sizes, Running
<1>2. ASSUME NEW proposer \in Proposer, NEW n \in 0 .. MaxPeerTxs, NEW txs \in [1 .. n -> Tx],
             Receive(proposer, txs)
      PROVE  Sizes'
  <2>1. n \in Nat /\ n <= MaxTxs
    BY BlockAssumption
  <2>2. Len(txs) = n
    BY <2>1
  <2>3. included = <<>> /\ offered = 0
    BY <1>2 DEF Receive, Sizes, Running
  <2>4. /\ task'.mode = "verify" /\ todo' = txs
        /\ UNCHANGED <<offered, cache, included, receipts>>
    BY <1>2 DEF Receive
  <2>5. Len(todo') + Len(included') <= MaxTxs
    BY <2>1, <2>2, <2>3, <2>4
  <2> QED BY <2>3, <2>4, <2>5 DEF Sizes, Running
<1>3. ASSUME NEW tx \in Tx, Offer(tx) PROVE Sizes'
  <2>1. /\ task.mode = "produce" /\ offered < MaxTxs /\ offered' = offered + 1
        /\ task' = task /\ todo' = todo /\ todo = <<>> /\ Len(included) <= offered
        /\ tx.sender \in Addr /\ task.proposer \in Addr
        /\ included \in Seq(Tx) /\ MaxTxs \in Nat
    BY <1>3, BlockAssumption DEF Offer, Sizes, IInv, Shape, Idle
  <2>2. CASE Fits(tx)
    <3>1. Execute(tx)
      BY <1>3, <2>2 DEF Offer
    <3>2. DOMAIN cache' \subseteq Addr
      BY <2>1, <3>1, ExecuteInAddr DEF Sizes
    <3>3. included' = Append(included, tx) /\ receipts' = Append(receipts, Succeeds(Sees(tx), tx))
      BY <3>1 DEF Execute
    <3>4. Succeeds(Sees(tx), tx) \in BOOLEAN
      BY <1>3, <2>1, ReceiptIsBoolean DEF Offer, Running
    <3>5. /\ receipts' \in Seq(BOOLEAN) /\ Len(receipts') = Len(included')
          /\ Len(included') = Len(included) + 1
      BY <2>1, <3>3, <3>4 DEF Sizes
    <3> QED BY <2>1, <3>2, <3>5 DEF Sizes, Running
  <2>3. CASE ~Fits(tx)
    <3>1. UNCHANGED <<included, receipts>> /\ cache' = IF task.batch THEN Fetched(cache, tx.sender) ELSE cache
      BY <1>3, <2>3 DEF Offer
    <3>2. DOMAIN cache' \subseteq Addr
      BY <2>1, <3>1, FetchedInAddr DEF Sizes
    <3> QED BY <2>1, <3>1, <3>2 DEF Sizes, Running
  <2> QED BY <2>2, <2>3
<1>4. CASE EndDraft
  <2>1. DOMAIN cache' = {}
    BY <1>4 DEF EndDraft, Nothing
  <2>2. /\ task.mode = "produce" /\ task'.mode = "verify"
        /\ todo' = included /\ included' = <<>> /\ receipts' = <<>> /\ offered' = 0
    BY <1>4 DEF EndDraft
  <2>3. Len(included) \in Nat /\ Len(included) <= MaxTxs
    BY <2>2, BlockAssumption DEF Sizes, IInv, Shape
  <2> QED BY <2>1, <2>2, <2>3, BlockAssumption DEF Sizes, Running
<1>5. CASE VerifyTx
  <2> DEFINE tx == Head(todo)
  <2>1. /\ task.mode = "verify" /\ todo # <<>> /\ Execute(tx) /\ todo' = Tail(todo)
        /\ task' = task /\ offered' = offered
        /\ todo \in Seq(Tx) /\ included \in Seq(Tx) /\ tx \in Tx
    BY <1>5 DEF VerifyTx, IInv, Shape
  <2>2. task.proposer \in Addr
    BY <2>1, BlockAssumption DEF IInv, Shape, Idle
  <2> HIDE DEF tx
  <2>3. DOMAIN cache' \subseteq Addr
    BY <2>1, <2>2, ExecuteInAddr DEF Sizes
  <2>4. included' = Append(included, tx) /\ receipts' = Append(receipts, Succeeds(Sees(tx), tx))
    BY <2>1 DEF Execute
  <2>5. Succeeds(Sees(tx), tx) \in BOOLEAN
    <3>1. task.batch => IsTransfer(tx)
      <4>1. 1 \in DOMAIN todo /\ tx = todo[1]
        BY <2>1 DEF tx
      <4> QED BY <2>1, <4>1 DEF IInv, Shape, AllTransfers
    <3> QED BY <2>1, <3>1, ReceiptIsBoolean DEF Running
  <2>6. /\ receipts' \in Seq(BOOLEAN) /\ Len(receipts') = Len(included')
        /\ Len(included') = Len(included) + 1 /\ Len(todo') = Len(todo) - 1
        /\ Len(todo) \in Nat /\ Len(included) \in Nat
    BY <2>1, <2>4, <2>5 DEF Sizes
  <2> QED BY <2>1, <2>3, <2>6, BlockAssumption DEF Sizes, Running
<1>6. CASE Refuse
  <2>1. DOMAIN cache' = {}
    BY <1>6 DEF Refuse, Nothing
  <2>2. /\ task.mode = "verify" /\ task'.mode = "refused"
    BY <1>6 DEF Refuse, IInv, Shape, Idle
  <2>3. todo' = <<>> /\ included' = <<>> /\ receipts' = <<>> /\ offered' = offered
    BY <1>6 DEF Refuse
  <2> QED BY <2>1, <2>2, <2>3, BlockAssumption DEF Sizes, Running
<1>7. CASE CommitBlock
  <2>1. DOMAIN cache' = {}
    BY <1>7 DEF CommitBlock, Nothing
  <2>2. /\ task.mode = "verify" /\ task'.mode = "idle" /\ todo = <<>> /\ todo' = todo
        /\ included' = <<>> /\ receipts' = <<>> /\ offered' = offered
    BY <1>7 DEF CommitBlock, Idle
  <2> QED BY <2>1, <2>2, BlockAssumption DEF Sizes, Running
<1> QED BY <1>1, <1>2, <1>3, <1>4, <1>5, <1>6, <1>7 DEF Next

\* The cached accounts and the overlay are parts of the view.
LEMMA TypesFollow == IInv /\ Sizes /\ Money => TypeOK
<1> SUFFICES ASSUME IInv, Sizes, Money PROVE TypeOK
  OBVIOUS
<1>1. ASSUME NEW a \in DOMAIN committed PROVE committed[a] \in [balance : Nat, nonce : Nat]
  BY DEF Money, Solvent
<1>2. DOMAIN overlay \subseteq Addr /\ \A a \in DOMAIN overlay : overlay[a] \in [balance : Nat, nonce : Nat]
  <2>1. CASE overlay = Nothing
    BY <2>1 DEF Nothing
  <2>2. CASE overlay # Nothing
    <3>1. View = Base
      <4>1. cache = Nothing
        BY <2>2 DEF IInv, Shape, PathsApart, Running, Idle
      <4> QED BY <4>1, EmptyCacheShowsBase
    <3>2. \A a \in DOMAIN overlay : a \in DOMAIN Base /\ Base[a] = overlay[a]
      BY DEF Base, Over
    <3> QED BY <3>1, <3>2 DEF Money, Solvent
  <2> QED BY <2>1, <2>2
<1>3. /\ DOMAIN Cached(cache) \subseteq Addr
      /\ \A a \in DOMAIN Cached(cache) : Cached(cache)[a] \in [balance : Nat, nonce : Nat]
  <2>1. \A a \in DOMAIN cache : cache[a].account = Account(View, a)
    BY CachedIsShown DEF IInv, View, Shown
  <2>2. \A a : Account(View, a) \in [balance : Nat, nonce : Nat]
    BY AccountOf DEF Money
  <2> QED BY <2>1, <2>2 DEF Cached, Sizes
<1>4. task.mode \in {"idle", "produce", "verify", "refused"}
  BY DEF IInv, Shape, Idle
<1>5. Len(todo) <= MaxTxs /\ Len(included) <= MaxTxs /\ Len(receipts) = Len(included)
  <2>1. Len(todo) \in Nat /\ Len(included) \in Nat
    BY DEF IInv, Shape
  <2> QED BY <2>1, BlockAssumption DEF Sizes
<1>6. DOMAIN committed \subseteq Addr
  BY DEF Money
<1> QED BY <1>1, <1>2, <1>3, <1>4, <1>5, <1>6 DEF TypeOK

-----------------------------------------------------------------------------
(* A draft can be replayed.                                                *)

\* The transactions lead from the first accounts to the last with these results:
\* there are accounts in between, each includes the next transaction and is what
\* the last one left.
Leads(first, txs, results, proposer, last) ==
  \E trace :
    /\ trace[0] = first /\ trace[Len(txs)] = last
    /\ \A i \in 1 .. Len(txs) :
         /\ Includable(trace[i - 1], txs[i])
         /\ trace[i] = Apply(trace[i - 1], txs[i], proposer)
         /\ results[i] = Succeeds(trace[i - 1], txs[i])

LEMMA LeadsNowhere ==
  ASSUME NEW accounts, NEW proposer
  PROVE  Leads(accounts, <<>>, <<>>, proposer, accounts)
<1> DEFINE trace == [i \in {0} |-> accounts]
<1>1. trace[0] = accounts /\ Len(<<>>) = 0 /\ 1 .. 0 = {}
  OBVIOUS
<1> QED BY <1>1 DEF Leads

LEMMA LeadsFurther ==
  ASSUME NEW first, NEW txs \in Seq(Tx), NEW results \in Seq(BOOLEAN), Len(results) = Len(txs),
         NEW proposer, NEW last, Leads(first, txs, results, proposer, last),
         NEW tx \in Tx, Includable(last, tx), Succeeds(last, tx) \in BOOLEAN
  PROVE  Leads(first, Append(txs, tx), Append(results, Succeeds(last, tx)), proposer,
               Apply(last, tx, proposer))
<1> DEFINE n     == Len(txs)
           more  == Append(txs, tx)
           res   == Append(results, Succeeds(last, tx))
           after == Apply(last, tx, proposer)
<1>1. PICK trace :
        /\ trace[0] = first /\ trace[n] = last
        /\ \A i \in 1 .. n :
             /\ Includable(trace[i - 1], txs[i])
             /\ trace[i] = Apply(trace[i - 1], txs[i], proposer)
             /\ results[i] = Succeeds(trace[i - 1], txs[i])
  BY DEF Leads
<1>2. /\ n \in Nat /\ Len(more) = n + 1 /\ more[n + 1] = tx /\ res[n + 1] = Succeeds(last, tx)
      /\ \A i \in 1 .. n : more[i] = txs[i] /\ res[i] = results[i]
  OBVIOUS
<1> HIDE DEF n, more, res
<1> DEFINE longer == [i \in 0 .. (n + 1) |-> IF i = n + 1 THEN after ELSE trace[i]]
<1>3. /\ longer[n + 1] = after
      /\ \A i \in 0 .. n : longer[i] = trace[i]
      /\ 0 \in 0 .. n /\ n \in 0 .. n
  BY <1>2
<1> HIDE DEF longer, after
<1>4. ASSUME NEW i \in 1 .. (n + 1)
      PROVE  /\ Includable(longer[i - 1], more[i])
             /\ longer[i] = Apply(longer[i - 1], more[i], proposer)
             /\ res[i] = Succeeds(longer[i - 1], more[i])
  <2>1. CASE i = n + 1
    <3>1. i - 1 = n
      BY <1>2, <2>1
    <3>2. longer[i - 1] = last
      BY <1>1, <1>3, <3>1
    <3> QED BY <1>2, <1>3, <2>1, <3>2 DEF after
  <2>2. CASE i \in 1 .. n
    <3>1. i - 1 \in 0 .. n /\ i \in 0 .. n
      BY <1>2, <2>2
    <3> QED BY <1>1, <1>2, <1>3, <2>2, <3>1
  <2>3. i = n + 1 \/ i \in 1 .. n
    BY <1>2
  <2> QED BY <2>1, <2>2, <2>3
<1>5. longer[0] = first /\ longer[Len(more)] = after
  BY <1>1, <1>2, <1>3
<1>6. Leads(first, more, res, proposer, after)
  BY <1>2, <1>4, <1>5 DEF Leads
<1> QED BY <1>6 DEF more, res, after

LEMMA LeadsOn ==
  ASSUME NEW first, NEW txs \in Seq(Tx), txs # <<>>, NEW results \in Seq(BOOLEAN),
         Len(results) = Len(txs), NEW proposer, NEW last,
         Leads(first, txs, results, proposer, last)
  PROVE  /\ Includable(first, Head(txs))
         /\ Head(results) = Succeeds(first, Head(txs))
         /\ Leads(Apply(first, Head(txs), proposer), Tail(txs), Tail(results), proposer, last)
<1> DEFINE n == Len(txs)
           less == Tail(txs)
           res  == Tail(results)
<1>1. PICK trace :
        /\ trace[0] = first /\ trace[n] = last
        /\ \A i \in 1 .. n :
             /\ Includable(trace[i - 1], txs[i])
             /\ trace[i] = Apply(trace[i - 1], txs[i], proposer)
             /\ results[i] = Succeeds(trace[i - 1], txs[i])
  BY DEF Leads
<1>2. /\ n \in Nat /\ n >= 1 /\ Len(less) = n - 1 /\ Head(txs) = txs[1] /\ Head(results) = results[1]
      /\ \A i \in 1 .. (n - 1) : less[i] = txs[i + 1] /\ res[i] = results[i + 1]
  OBVIOUS
<1> HIDE DEF n, less, res
<1>3. 1 \in 1 .. n /\ 1 - 1 = 0
  BY <1>2
<1>4. /\ Includable(first, Head(txs))
      /\ trace[1] = Apply(first, Head(txs), proposer)
      /\ Head(results) = Succeeds(first, Head(txs))
  BY <1>1, <1>2, <1>3
<1> DEFINE later == [i \in 0 .. (n - 1) |-> trace[i + 1]]
<1>5. later[0] = trace[1] /\ later[n - 1] = last
  BY <1>1, <1>2
<1>6. ASSUME NEW i \in 1 .. (n - 1)
      PROVE  /\ Includable(later[i - 1], less[i])
             /\ later[i] = Apply(later[i - 1], less[i], proposer)
             /\ res[i] = Succeeds(later[i - 1], less[i])
  <2>1. /\ i - 1 \in 0 .. (n - 1) /\ i \in 0 .. (n - 1) /\ i + 1 \in 1 .. n
        /\ (i - 1) + 1 = i /\ (i + 1) - 1 = i
    BY <1>2
  <2>2. later[i - 1] = trace[i] /\ later[i] = trace[i + 1]
    BY <2>1
  <2> HIDE DEF later
  <2>3. /\ Includable(trace[i], txs[i + 1])
        /\ trace[i + 1] = Apply(trace[i], txs[i + 1], proposer)
        /\ results[i + 1] = Succeeds(trace[i], txs[i + 1])
    BY <1>1, <2>1
  <2> QED BY <1>2, <2>2, <2>3
<1> HIDE DEF later
<1>7. Leads(trace[1], less, res, proposer, last)
  BY <1>2, <1>5, <1>6 DEF Leads
<1> QED BY <1>4, <1>7 DEF less, res

Replay ==
  /\ drafted # NoDraft =>
       /\ drafted = [accounts |-> drafted.accounts, receipts |-> drafted.receipts]
       /\ task.mode # "refused"
  /\ task.mode = "produce" => Leads(committed, included, receipts, task.proposer, View)
  /\ (task.mode = "verify" /\ drafted # NoDraft) =>
       \E rest \in Seq(BOOLEAN) :
         /\ Len(rest) = Len(todo) /\ drafted.receipts = receipts \o rest
         /\ Leads(View, todo, rest, task.proposer, drafted.accounts)

LEMMA InitReplay == Init => Replay
BY DEF Init, Replay, Idle

\* Outside of execution nothing but the committed accounts is shown.
LEMMA IdleShowsCommitted ==
  ASSUME IInv, ~Running
  PROVE  View = committed
<1>1. cache = Nothing /\ overlay = Nothing /\ IsMap(committed)
  BY DEF IInv, PathsApart
<1> QED BY <1>1, EmptyCacheShowsBase, OverNothing DEF Base

LEMMA OfferReplays ==
  ASSUME IInv, Sizes, Money, Replay, NEW tx \in Tx, Offer(tx)
  PROVE  Replay'
<1>1. /\ task.mode = "produce" /\ Running /\ task' = task /\ committed' = committed
      /\ drafted' = drafted /\ (task.batch => IsTransfer(tx))
  BY DEF Offer, Running
<1>2. Leads(committed, included, receipts, task.proposer, View)
  BY <1>1 DEF Replay
<1>3. CASE Fits(tx)
  <2>1. Execute(tx)
    BY <1>3 DEF Offer
  <2>2. /\ Includable(View, tx) /\ View' = Apply(View, tx, task.proposer)
    BY <1>1, <1>3, <2>1, ExecuteIncludes
  <2>3. Succeeds(Sees(tx), tx) = Succeeds(View, tx) /\ Succeeds(View, tx) \in BOOLEAN
    <3>1. Succeeds(Sees(tx), tx) \in BOOLEAN
      BY <1>1, ReceiptIsBoolean
    <3>2. Succeeds(Sees(tx), tx) = Succeeds(View, tx)
      BY <1>1, SeesTheView
    <3> QED BY <3>1, <3>2
  <2>4. included' = Append(included, tx) /\ receipts' = Append(receipts, Succeeds(View, tx))
    BY <2>1, <2>3 DEF Execute
  <2>5. included \in Seq(Tx) /\ receipts \in Seq(BOOLEAN) /\ Len(receipts) = Len(included)
    BY DEF IInv, Shape, Sizes
  <2>6. Leads(committed, Append(included, tx), Append(receipts, Succeeds(View, tx)), task.proposer,
              Apply(View, tx, task.proposer))
    BY <1>2, <2>2, <2>3, <2>5, LeadsFurther
  <2>7. Leads(committed', included', receipts', task'.proposer, View')
    BY <1>1, <2>2, <2>4, <2>6
  <2> QED BY <1>1, <2>7 DEF Replay
<1>4. CASE ~Fits(tx)
  <2>1. /\ cache' = IF task.batch THEN Fetched(cache, tx.sender) ELSE cache
        /\ UNCHANGED <<overlay, included, receipts>>
    BY <1>4 DEF Offer
  <2>2. Base' = Base
    BY <1>1, <2>1 DEF Base, Over
  <2>3. Shown(cache') = Shown(cache)
    BY <2>1, FetchedShowsTheSame DEF IInv
  <2>4. View' = View
    BY <2>2, <2>3 DEF View, Shown
  <2>5. Leads(committed', included', receipts', task'.proposer, View')
    BY <1>1, <1>2, <2>1, <2>4
  <2> QED BY <1>1, <2>5 DEF Replay
<1> QED BY <1>3, <1>4

LEMMA EndDraftReplays ==
  ASSUME IInv, Sizes, Replay, EndDraft
  PROVE  Replay'
<1>1. /\ task.mode = "produce" /\ task'.mode = "verify" /\ task'.proposer = task.proposer
      /\ drafted' = [accounts |-> Over(WriteBack, committed), receipts |-> receipts]
      /\ todo' = included /\ receipts' = <<>> /\ committed' = committed
      /\ cache' = Nothing /\ overlay' = Nothing
  BY DEF EndDraft
<1>2. View' = committed
  BY <1>1, EmptiedShowsCommitted DEF IInv
<1>3. Over(WriteBack, committed) = View
  BY OverTwice DEF WriteBack, View, Base
<1>4. Leads(committed, included, receipts, task.proposer, View)
  BY <1>1 DEF Replay
<1>5. receipts \in Seq(BOOLEAN) /\ Len(receipts) = Len(included) /\ <<>> \o receipts = receipts
  BY DEF Sizes
<1>6. drafted'.accounts = View /\ drafted'.receipts = receipts
      /\ drafted' = [accounts |-> drafted'.accounts, receipts |-> drafted'.receipts]
  BY <1>1, <1>3
<1>7. Leads(View', todo', receipts, task'.proposer, drafted'.accounts)
  BY <1>1, <1>2, <1>4, <1>6
<1>8. Len(receipts) = Len(todo') /\ drafted'.receipts = receipts' \o receipts
  BY <1>1, <1>5, <1>6
<1> QED BY <1>1, <1>5, <1>6, <1>7, <1>8 DEF Replay

LEMMA VerifyTxReplays ==
  ASSUME IInv, Sizes, Money, Replay, VerifyTx
  PROVE  Replay'
<1> DEFINE tx == Head(todo)
<1>1. /\ Running /\ task.mode = "verify" /\ Fits(tx) /\ Execute(tx)
      /\ todo # <<>> /\ todo' = Tail(todo)
      /\ UNCHANGED <<committed, task, drafted>>
      /\ todo \in Seq(Tx) /\ included \in Seq(Tx) /\ tx \in Tx
  BY DEF VerifyTx, Running, IInv, Shape
<1>2. task.batch => IsTransfer(tx)
  <2>1. 1 \in DOMAIN todo /\ tx = todo[1]
    BY <1>1
  <2> QED BY <1>1, <2>1 DEF IInv, Shape, AllTransfers
<1>3. CASE drafted = NoDraft
  BY <1>1, <1>3 DEF Replay
<1>4. CASE drafted # NoDraft
  <2>1. PICK rest \in Seq(BOOLEAN) :
          /\ Len(rest) = Len(todo) /\ drafted.receipts = receipts \o rest
          /\ Leads(View, todo, rest, task.proposer, drafted.accounts)
    BY <1>1, <1>4 DEF Replay
  <2>2. /\ Includable(View, tx) /\ Head(rest) = Succeeds(View, tx)
        /\ Leads(Apply(View, tx, task.proposer), Tail(todo), Tail(rest), task.proposer,
                 drafted.accounts)
    BY <1>1, <2>1, LeadsOn
  <2> HIDE DEF tx
  <2>3. View' = Apply(View, tx, task.proposer)
    BY <1>1, <1>2, ExecuteIncludes
  <2>4. receipts' = Append(receipts, Head(rest))
    BY <1>1, <1>2, <2>2, SeesTheView DEF Execute
  <2>5. rest # <<>> /\ receipts \in Seq(BOOLEAN)
    BY <1>1, <2>1 DEF Sizes
  <2>6. /\ Tail(rest) \in Seq(BOOLEAN) /\ Len(Tail(rest)) = Len(Tail(todo))
    BY <1>1, <2>1, <2>5
  <2>7. Append(receipts, Head(rest)) \o Tail(rest) = receipts \o rest
    BY <2>1, <2>5
  <2>8. drafted'.receipts = receipts' \o Tail(rest)
    BY <1>1, <2>1, <2>4, <2>7
  <2>9. Leads(View', todo', Tail(rest), task'.proposer, drafted'.accounts)
    BY <1>1, <2>2, <2>3
  <2>10. drafted' = [accounts |-> drafted'.accounts, receipts |-> drafted'.receipts]
    BY <1>1, <1>4 DEF Replay
  <2> QED BY <1>1, <2>6, <2>8, <2>9, <2>10 DEF Replay
<1> QED BY <1>3, <1>4

LEMMA ReplayStep ==
  ASSUME IInv, Sizes, Money, Replay, Next
  PROVE  Replay'
<1>1. ASSUME NEW proposer \in Proposer, NEW batch \in BOOLEAN, BeginDraft(proposer, batch)
      PROVE  Replay'
  <2>1. /\ ~Running /\ task' = [mode |-> "produce", batch |-> batch, proposer |-> proposer]
        /\ UNCHANGED <<committed, cache, overlay, included, receipts, drafted>>
    BY <1>1 DEF BeginDraft
  <2>2. View = committed
    BY <2>1, IdleShowsCommitted
  <2>3. View' = View
    BY <2>1 DEF View, Base, DirtyOf, Over
  <2>4. included = <<>> /\ receipts = <<>>
    <3>1. included = <<>>
      BY <2>1 DEF Sizes
    <3>2. receipts \in Seq(BOOLEAN) /\ Len(receipts) = 0
      BY <3>1 DEF Sizes
    <3> QED BY <3>1, <3>2
  <2>5. Leads(committed, <<>>, <<>>, proposer, committed)
    BY LeadsNowhere
  <2>6. Leads(committed', included', receipts', task'.proposer, View')
    BY <2>1, <2>2, <2>3, <2>4, <2>5
  <2> QED BY <2>1, <2>6 DEF Replay
<1>2. ASSUME NEW proposer \in Proposer, NEW n \in 0 .. MaxPeerTxs, NEW txs \in [1 .. n -> Tx],
             Receive(proposer, txs)
      PROVE  Replay'
  BY <1>2 DEF Receive, Replay
<1>3. CASE \E tx \in Tx : Offer(tx)
  BY <1>3, OfferReplays
<1>4. CASE EndDraft
  BY <1>4, EndDraftReplays
<1>5. CASE VerifyTx
  BY <1>5, VerifyTxReplays
<1>6. CASE Refuse
  <2>1. /\ task.mode = "verify" /\ task'.mode = "refused" /\ drafted' = drafted
        /\ \/ todo # <<>> /\ ~Fits(Head(todo))
           \/ todo = <<>> /\ drafted = NoDraft
    BY <1>6 DEF Refuse, IInv, Shape, Idle
  <2>2. drafted = NoDraft
    <3> SUFFICES ASSUME drafted # NoDraft PROVE FALSE
      OBVIOUS
    <3> DEFINE tx == Head(todo)
    <3>1. todo # <<>> /\ ~Fits(tx)
      BY <2>1
    <3>2. PICK rest \in Seq(BOOLEAN) :
            /\ Len(rest) = Len(todo)
            /\ Leads(View, todo, rest, task.proposer, drafted.accounts)
      BY <2>1 DEF Replay
    <3>3. todo \in Seq(Tx)
      BY DEF IInv, Shape
    <3>4. Includable(View, tx)
      BY <3>1, <3>2, <3>3, LeadsOn
    <3>5. tx \in Tx /\ (task.batch => IsTransfer(tx))
      <4>1. 1 \in DOMAIN todo /\ tx = todo[1] /\ tx \in Tx
        BY <3>1, <3>3
      <4> QED BY <2>1, <4>1 DEF IInv, Shape, AllTransfers
    <3> HIDE DEF tx
    <3>6. Fits(tx)
      BY <2>1, <3>4, <3>5, SeesTheView DEF Running
    <3> QED BY <3>1, <3>6
  <2> QED BY <2>1, <2>2 DEF Replay
<1>7. CASE CommitBlock
  BY <1>7 DEF CommitBlock, Replay, Idle
<1> QED BY <1>1, <1>2, <1>3, <1>4, <1>5, <1>6, <1>7 DEF Next

LEMMA DraftFollows == IInv /\ Sizes /\ Replay => DraftVerifies
<1> SUFFICES ASSUME IInv, Sizes, Replay, drafted # NoDraft
             PROVE  /\ task.mode # "refused"
                    /\ (task.mode = "verify" /\ todo = <<>>) =>
                         drafted = [accounts |-> Over(WriteBack, committed), receipts |-> receipts]
  BY DEF DraftVerifies
<1>1. task.mode # "refused"
  BY DEF Replay
<1>2. ASSUME task.mode = "verify", todo = <<>>
      PROVE  drafted = [accounts |-> Over(WriteBack, committed), receipts |-> receipts]
  <2>1. PICK rest \in Seq(BOOLEAN) :
          /\ Len(rest) = Len(todo) /\ drafted.receipts = receipts \o rest
          /\ Leads(View, todo, rest, task.proposer, drafted.accounts)
    BY <1>2 DEF Replay
  <2>2. rest = <<>> /\ Len(todo) = 0
    BY <1>2, <2>1
  <2>3. drafted.receipts = receipts
    BY <2>1, <2>2 DEF Sizes
  <2>4. drafted.accounts = View
    BY <2>1, <2>2 DEF Leads
  <2>5. Over(WriteBack, committed) = View
    BY OverTwice DEF WriteBack, View, Base
  <2> QED BY <2>3, <2>4, <2>5 DEF Replay
<1> QED BY <1>1, <1>2

-----------------------------------------------------------------------------
(* The theorems.                                                           *)

Inv == IInv /\ Sizes /\ Money /\ NoncesInOrder /\ Replay

LEMMA InitInv == Init => Inv
BY InitHolds, InitSizes, InitMoney, InitOrder, InitReplay DEF Inv

LEMMA StepInv == Inv /\ [Next]_vars => Inv'
<1> SUFFICES ASSUME Inv, [Next]_vars PROVE Inv'
  OBVIOUS
<1>1. IInv' /\ BlockStep
  BY NextSteps DEF Inv
<1>2. Money'
  BY <1>1, MoneyStep DEF Inv
<1>3. NoncesInOrder'
  BY <1>1, <1>2, OrderStep DEF Inv, IInv, Shape
<1>4. CASE Next
  <2>1. Sizes' /\ Replay'
    BY <1>4, SizesStep, ReplayStep DEF Inv
  <2> QED BY <1>1, <1>2, <1>3, <2>1 DEF Inv
<1>5. CASE UNCHANGED vars
  <2>1. Sizes'
    BY <1>5 DEF vars, Inv, Sizes, Running
  <2>2. View' = View
    BY <1>5 DEF vars, View, Base, DirtyOf, Over
  <2>3. Replay'
    BY <1>5, <2>2 DEF vars, Inv, Replay
  <2> QED BY <1>1, <1>2, <1>3, <2>1, <2>3 DEF Inv
<1> QED BY <1>4, <1>5

\* At every step of drafting, verifying and committing blocks, whoever sends, gets
\* and proposes and whatever peers propose, the balances shown add up to those of
\* the genesis, and none is overdrawn.
THEOREM MoneyIsConserved == Spec => []Conserved
<1>1. Inv => Conserved
  BY TypesFollow DEF Inv, Money, Conserved
<1> QED BY <1>1, InitInv, StepInv, PTL DEF Spec

\* Every transaction of a block uses up the nonce of its sender that is next, after
\* the store and the transactions before it in the block.
THEOREM NoncesAreInOrder == Spec => []NoncesInOrder
<1>1. Inv => NoncesInOrder
  BY DEF Inv
<1> QED BY <1>1, InitInv, StepInv, PTL DEF Spec

\* A block that was drafted, by the batch or singly, of transfers only or not, is
\* one that verification does not refuse, whichever way it takes; and it ends in
\* the accounts and receipts of the draft.
THEOREM DraftsVerify == Spec => []DraftVerifies
<1>1. Inv => DraftVerifies
  BY DraftFollows DEF Inv
<1> QED BY <1>1, InitInv, StepInv, PTL DEF Spec
=============================================================================
