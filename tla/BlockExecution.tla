---------------------------- MODULE BlockExecution ----------------------------
(***************************************************************************)
(* executeTxs of packages/chain/src/chain.ts, as draftBlock runs it to     *)
(* make a block of what it can include, and verifyBlock to accept only a   *)
(* block of which it can include all.  A list of transfers only goes       *)
(* through applyTransferTransactions, whose cache of accounts is written   *)
(* back once at the end; any other list is applied one transaction at a    *)
(* time.  A block may be drafted one way and verified the other: the draft *)
(* of a mixed list may have dropped all that is not a transfer.            *)
(***************************************************************************)
EXTENDS Accounts, Sequences, FiniteSets

CONSTANTS
  Tx,        \* the transactions that may be offered
  Balance,   \* genesis: the balance of those who have an account
  Proposer,  \* the validators, which are addresses
  MaxTxs,    \* bound: transactions offered to a draft
  MaxPeerTxs, \* bound: transactions of a block that a peer made
  MaxBlocks  \* bound: blocks

ASSUME BlockAssumption ==
  /\ Proposer \subseteq Addr /\ IsFiniteSet(Addr)
  /\ DOMAIN Balance \subseteq Addr /\ \A a \in DOMAIN Balance : Balance[a] \in Nat
  /\ MaxTxs \in Nat /\ MaxBlocks \in Nat
  /\ MaxPeerTxs \in Nat /\ MaxPeerTxs <= MaxTxs
  /\ \A tx \in Tx : {tx.sender, tx.to} \subseteq Addr /\ {tx.amount, tx.fuel} \subseteq Nat
                  /\ tx.succeeds \in BOOLEAN

VARIABLES
  committed,  \* the accounts in the state store
  task,       \* what is executed: mode, batch or not, proposer
  todo,       \* verify: what is left of the block
  offered,    \* draft: how many transactions were offered, and
  mixed,      \*   whether one of them was not a transfer
  cache,      \* batch: cache[a] = [account, dirty]
  overlay,    \* the accounts in the block's overlay
  included, receipts,  \* the outcome
  drafted,    \* what the drafting validator got, unless a peer made the block
  height

vars == <<committed, task, todo, offered, mixed, cache, overlay, included, receipts,
          drafted, height>>

Nothing == [a \in {} |-> EmptyAccount]   \* an empty map
Idle    == [mode |-> "idle"]
NoDraft == [draft |-> "none"]

Running == task.mode \in {"produce", "verify"}

IsTransfer(tx) == tx.kind = "transfer"
AllTransfers(txs) == \A i \in DOMAIN txs : IsTransfer(txs[i])

\* Overlay.get on the state store.
Over(writes, accounts) ==
  [a \in DOMAIN writes \cup DOMAIN accounts |->
     IF a \in DOMAIN writes THEN writes[a] ELSE accounts[a]]

Base == Over(overlay, committed)

-----------------------------------------------------------------------------
(* applyTransferTransactions.                                              *)

\* getCached: what the cache holds afterwards.
Fetched(entries, a) ==
  IF a \in DOMAIN entries THEN entries
  ELSE SetAccount(entries, a, [account |-> Account(Base, a), dirty |-> FALSE])

\* (mutants: markDirty is forgotten; the value read first is written)
EarnUnmarked(entries, a, amount) ==
  [Fetched(entries, a) EXCEPT ![a].account.balance = @ + amount]

\* markDirty, with what the caller has made of the account.
Written(entries, a, account) ==
  SetAccount(entries, a, [account |-> account, dirty |-> TRUE])

EarnAfresh(entries, a, amount) ==
  Written(Fetched(entries, a), a,
    [Fetched(entries, a)[a].account EXCEPT !.balance = Account(Base, a).balance + amount])

Earn(entries, a, amount) ==
  LET held == Fetched(entries, a)[a].account IN
  Written(Fetched(entries, a), a, [held EXCEPT !.balance = @ + amount])

Pay(entries, a, amount) ==
  LET held == entries[a].account IN
  Written(entries, a, [balance |-> held.balance - amount, nonce |-> held.nonce + 1])

\* The cached accounts; a transfer of the batch reads no other.
Cached(entries) == [a \in DOMAIN entries |-> entries[a].account]

\* The loop's body for an includable transfer; entries hold its sender.
BatchTransfer(entries, tx) ==
  IF Succeeds(Cached(entries), tx)
    THEN Earn(Earn(Pay(entries, tx.sender, Fee + tx.amount), tx.to, tx.amount),
              task.proposer, Fee)
    ELSE Earn(Pay(entries, tx.sender, Fee), task.proposer, Fee)

\* What the batch writes back.
DirtyOf(entries) ==
  [a \in {a \in DOMAIN entries : entries[a].dirty} |-> entries[a].account]

\* The accounts as execution has made them so far.
View == Over(DirtyOf(cache), Base)

-----------------------------------------------------------------------------
\* (mutant: the single steps read the store)
SeesStore(tx) == IF task.batch THEN Cached(Fetched(cache, tx.sender)) ELSE committed

\* What the running loop sees when it comes to a transaction.
Sees(tx) == IF task.batch THEN Cached(Fetched(cache, tx.sender)) ELSE Base

Fits(tx) == Includable(Sees(tx), tx)

\* One turn of either loop.
Execute(tx) ==
  /\ included' = Append(included, tx)
  /\ receipts' = Append(receipts, Succeeds(Sees(tx), tx))
  /\ IF task.batch
       THEN /\ cache' = BatchTransfer(Fetched(cache, tx.sender), tx)
            /\ UNCHANGED overlay
       ELSE /\ overlay' = Apply(Base, tx, task.proposer)
            /\ UNCHANGED cache

\* The batch is over: dirty accounts are written to the block's overlay.
WriteBack == Over(DirtyOf(cache), overlay)

-----------------------------------------------------------------------------
(* Draft.                                                                  *)

BeginDraft(proposer, batch) ==
  /\ ~Running /\ height < MaxBlocks
  /\ task' = [mode |-> "produce", batch |-> batch, proposer |-> proposer]
  /\ UNCHANGED <<committed, todo, offered, mixed, cache, overlay, included, receipts,
                 drafted, height>>

\* A transaction is included or dropped.
Offer(tx) ==
  /\ task.mode = "produce" /\ offered < MaxTxs
  /\ task.batch => IsTransfer(tx)
  /\ offered' = offered + 1
  /\ mixed' = (mixed \/ ~IsTransfer(tx))
  /\ IF Fits(tx) THEN Execute(tx)
     ELSE /\ cache' = IF task.batch THEN Fetched(cache, tx.sender) ELSE cache
          /\ UNCHANGED <<overlay, included, receipts>>
  /\ UNCHANGED <<committed, task, todo, drafted, height>>

\* The block goes out with what was included; a validator starts on its own state.
EndDraft ==
  /\ task.mode = "produce"
  /\ task.batch \/ mixed
  /\ drafted' = [accounts |-> Over(WriteBack, committed), receipts |-> receipts]
  /\ task' = [mode |-> "verify", batch |-> AllTransfers(included), proposer |-> task.proposer]
  /\ todo' = included
  /\ offered' = 0 /\ mixed' = FALSE
  /\ cache' = Nothing /\ overlay' = Nothing
  /\ included' = <<>> /\ receipts' = <<>>
  /\ UNCHANGED <<committed, height>>

-----------------------------------------------------------------------------
(* Verify and commit.                                                      *)

\* A peer's proposal, which may hold anything.
Receive(proposer, txs) ==
  /\ ~Running /\ height < MaxBlocks
  /\ task' = [mode |-> "verify", batch |-> AllTransfers(txs), proposer |-> proposer]
  /\ todo' = txs
  /\ drafted' = NoDraft
  /\ UNCHANGED <<committed, offered, mixed, cache, overlay, included, receipts, height>>

VerifyTx ==
  /\ task.mode = "verify" /\ todo # <<>>
  /\ Fits(Head(todo))
  /\ Execute(Head(todo))
  /\ todo' = Tail(todo)
  /\ UNCHANGED <<committed, task, offered, mixed, drafted, height>>

\* The block is invalid at this transaction, or its roots are not those that the
\* peer claims.
Refuse ==
  /\ task.mode = "verify"
  /\ \/ todo # <<>> /\ ~Fits(Head(todo))
     \/ todo = <<>> /\ drafted = NoDraft
  /\ task' = [task EXCEPT !.mode = "refused"]
  /\ cache' = Nothing /\ overlay' = Nothing
  /\ todo' = <<>> /\ included' = <<>> /\ receipts' = <<>>
  /\ UNCHANGED <<committed, offered, mixed, drafted, height>>

\* The roots are those of the block; a quorum commits it.
CommitBlock ==
  /\ task.mode = "verify" /\ todo = <<>>
  /\ committed' = Over(WriteBack, committed)
  /\ task' = Idle /\ height' = height + 1
  /\ cache' = Nothing /\ overlay' = Nothing
  /\ included' = <<>> /\ receipts' = <<>>
  /\ UNCHANGED <<todo, offered, mixed, drafted>>

-----------------------------------------------------------------------------
Init ==
  /\ committed = [a \in DOMAIN Balance |-> [balance |-> Balance[a], nonce |-> 0]]
  /\ task = Idle /\ todo = <<>> /\ offered = 0 /\ mixed = FALSE
  /\ cache = Nothing /\ overlay = Nothing
  /\ included = <<>> /\ receipts = <<>>
  /\ drafted = [accounts |-> committed, receipts |-> <<>>]
  /\ height = 0

Next ==
  \/ \E proposer \in Proposer, batch \in BOOLEAN : BeginDraft(proposer, batch)
  \/ \E tx \in Tx : Offer(tx)
  \/ \E proposer \in Proposer, n \in 0 .. MaxPeerTxs :
       \E txs \in [1 .. n -> Tx] : Receive(proposer, txs)
  \/ EndDraft \/ VerifyTx \/ Refuse \/ CommitBlock

Spec == Init /\ [][Next]_vars

-----------------------------------------------------------------------------
(* Properties.                                                             *)

TypeOK ==
  /\ \A accounts \in {committed, overlay, Cached(cache)} :
       /\ DOMAIN accounts \subseteq Addr
       /\ \A a \in DOMAIN accounts : accounts[a] \in [balance : Nat, nonce : Nat]
  /\ task.mode \in {"idle", "produce", "verify", "refused"}
  /\ Len(todo) <= MaxTxs /\ Len(included) <= MaxTxs /\ Len(receipts) = Len(included)

\* No transaction makes or loses money, whoever sender, recipient and proposer
\* are: at every step the balances add up to those of the genesis, and none is
\* overdrawn.
Conserved == TypeOK /\ SumOf(View) = SumFunction(Balance)

\* A transaction of a block uses up one nonce of its sender, in order.
NonceAfter(accounts, txs, a, n) ==
  Account(accounts, a).nonce + Cardinality({i \in 1 .. n : txs[i].sender = a})

NoncesInOrder ==
  /\ \A i \in DOMAIN included :
       included[i].nonce = NonceAfter(committed, included, included[i].sender, i - 1)
  /\ \A a \in Addr : Account(View, a).nonce = NonceAfter(committed, included, a, Len(included))

\* A block that a validator drafts is one that every validator accepts, with the
\* accounts, and so the state root, and the receipts of the draft.
DraftVerifies ==
  drafted # NoDraft =>
  /\ task.mode # "refused"
  /\ (task.mode = "verify" /\ todo = <<>>) =>
       drafted = [accounts |-> Over(WriteBack, committed), receipts |-> receipts]

\* The cached batch, the single steps and the two modes are executions of Ledger.
Promise == INSTANCE Ledger WITH accounts <- View

ImplementsLedger == Promise!Spec
=============================================================================
