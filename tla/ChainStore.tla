------------------------------ MODULE ChainStore ------------------------------
(***************************************************************************)
(* How a node keeps its chain: Chain.open, draftBlock, verifyBlock and     *)
(* commitVerified of packages/chain/src/chain.ts on the two stores of its  *)
(* data directory.  A commit writes the state, then the block with the     *)
(* head, then sets the head in memory; the process may die, or a write may *)
(* fail, between any two of them.                                          *)
(*                                                                         *)
(* Of execution, only that it depends on the state and changes it: a       *)
(* payload stands for the transactions of a block, which run only when the *)
(* sender's account is at their nonce, and write one contract key.         *)
(***************************************************************************)
EXTENDS StateRoot

CONSTANTS
  Account,      \* the keys that hold accounts; the others are contract storage
  Allocations,  \* genesis: the accounts it funds, in the order of the config file
  MaxHeight,    \* bound: heights
  MaxCrashes,   \* bound: crashes of this node
  MaxFailures   \* bound: writes that fail without a crash

ASSUME ChainAssumption ==
  /\ Account \subseteq Key /\ Allocations \in Seq(Account)
  /\ MaxHeight \in Nat /\ MaxCrashes \in Nat /\ MaxFailures \in Nat

\* The value of an account is 1 + its nonce; of a contract key, any number.
AtNonce(n) == n + 1
Payload == [sender : Account, nonce : 0 .. MaxHeight - 1,
            key : Key \ Account, value : {Empty, 1}]

VARIABLES
  finalized,  \* the blocks the validators finalised, with the state after each
  state,      \* on disk: the state store
  blocks,     \* on disk: headers by height from 0; the last one is the HEAD
  head,       \* in memory: the head header, or NoHeader
  task,       \* in memory: what the node is doing, and with which block
  crashes, failures

disk == <<state, blocks>>
vars == <<finalized, state, blocks, head, task, crashes, failures>>

NoHeader == [height |-> -1]
Down == [stage |-> "down"]
Idle == [stage |-> "idle"]
Doing(stage, origin, header, changes) ==
  [stage |-> stage, origin |-> origin, header |-> header, changes |-> changes]

Stage  == task.stage
At(s)  == Doing(s, task.origin, task.header, task.changes)
EmptyState == [k \in Key |-> Empty]

-----------------------------------------------------------------------------
(* Blocks.  A header is its own hash.                                      *)

GenesisChanges == [i \in DOMAIN Allocations |-> Entry(Allocations[i], AtNonce(0))]

\* buildGenesisBlock: its root is over the store as it is.
GenesisHeader(store) ==
  [height |-> 0, prev |-> "genesis", root |-> RootWith(store, GenesisChanges)]

GenesisState == Applied(EmptyState, GenesisChanges)

\* The block overlay's changes, in key order.
Changes(p) == Ascending({Entry(p.sender, AtNonce(p.nonce + 1)), Entry(p.key, p.value)})

Includable(store, p) == store[p.sender] = AtNonce(p.nonce)

\* draftBlock on a head and a store.
Draft(on, store, p) ==
  [height |-> on.height + 1, prev |-> on, root |-> RootWith(store, Changes(p)), payload |-> p]

\* verifyBlock.
Verifies(header) ==
  /\ header.height = head.height + 1
  /\ header.prev = head
  /\ Includable(state, header.payload)
  /\ header.root = RootWith(state, Changes(header.payload))

Tip == Last(finalized)

FinalizedBlock(p) ==
  [header |-> Draft(Tip.header, Tip.state, p), state |-> Applied(Tip.state, Changes(p))]

MayFinalize(p) == Tip.header.height < MaxHeight /\ Includable(Tip.state, p)

\* The other validators go on.
Finalize(p) ==
  /\ MayFinalize(p)
  /\ finalized' = Append(finalized, FinalizedBlock(p))
  /\ UNCHANGED <<disk, head, task, crashes, failures>>

-----------------------------------------------------------------------------
(* Chain.open.                                                             *)

\* No HEAD: the genesis block is built over whatever the state store holds.
OpenFresh ==
  /\ task = Down /\ blocks = <<>>
  /\ task' = Doing("verified", "genesis", GenesisHeader(state), GenesisChanges)
  /\ UNCHANGED <<finalized, disk, head, crashes, failures>>

\* (mutant: the stored state is not compared with the head)
OpensUnchecked == blocks # <<>>

\* The checks on a data directory that has a HEAD.  A genesis header commits to
\* its allocations in the config's order, so at height 0 both the header and
\* the root are compared with those of a fresh store.
Opens ==
  /\ blocks # <<>>
  /\ IF Last(blocks).height = 0
       THEN /\ Last(blocks) = GenesisHeader(EmptyState)
            /\ StoredRoot(state) = StoredRoot(GenesisState)
       ELSE StoredRoot(state) = Last(blocks).root

Open ==
  /\ task = Down /\ Opens
  /\ head' = Last(blocks)
  /\ task' = Idle
  /\ UNCHANGED <<finalized, disk, crashes, failures>>

-----------------------------------------------------------------------------
(* Draft, verify, commit.                                                  *)

MayVerify == Stage \in {"idle", "kept"}

\* A block of this node's that the validators vote for: they do when it is the
\* one they would have made of the same transactions.
DraftBlock(p) ==
  LET header == Draft(head, state, p) IN
  /\ Stage = "idle"
  /\ MayFinalize(p) /\ header = FinalizedBlock(p).header
  /\ finalized' = Append(finalized, FinalizedBlock(p))
  /\ task' = Doing("verified", "quorum", header, Changes(p))
  /\ UNCHANGED <<disk, head, crashes, failures>>

\* A finalised block, as a proposal with its votes or by block sync.
VerifyBlock(origin, b) ==
  /\ MayVerify
  /\ Verifies(b.header)
  /\ task' = Doing("verified", origin, b.header, Changes(b.header.payload))
  /\ UNCHANGED <<finalized, disk, head, crashes, failures>>

\* commitVerified, to the first await (open does the same with the genesis).
CommitState ==
  /\ Stage = "verified"
  /\ state' = Applied(state, task.changes)
  /\ task' = At("stateWritten")
  /\ UNCHANGED <<finalized, blocks, head, crashes, failures>>

\* (mutant: the head is set before the block is stored)
SetHeadEarly ==
  /\ Stage = "stateWritten"
  /\ head' = task.header
  /\ task' = At("blockWritten")
  /\ UNCHANGED <<finalized, disk, crashes, failures>>

\* To the second: the block, its receipts, its certificate and HEAD in a batch.
CommitBlock ==
  /\ Stage = "stateWritten"
  /\ blocks' = Append(blocks, task.header)
  /\ task' = At("blockWritten")
  /\ UNCHANGED <<finalized, state, head, crashes, failures>>

SetHead ==
  /\ Stage = "blockWritten"
  /\ head' = task.header
  /\ task' = Idle
  /\ UNCHANGED <<finalized, disk, crashes, failures>>

\* (mutant: the engine goes on to the next height all the same)
WriteFailsUnnoticed ==
  /\ failures < MaxFailures
  /\ Stage = "stateWritten" /\ task.origin = "quorum"
  /\ head' = task.header /\ task' = Idle
  /\ failures' = failures + 1
  /\ UNCHANGED <<finalized, disk, crashes>>

\* A write is refused by the disk.  checkQuorum keeps proposal and votes and
\* tries again at the next vote; onBlockResponse has only logged it; open has
\* thrown, and the node is not running.
WriteFails ==
  /\ failures < MaxFailures
  /\ Stage \in {"verified", "stateWritten"}
  /\ \/ task.origin = "quorum" /\ task' = At("kept")
     \/ task.origin = "sync" /\ task' = Idle
     \/ task.origin = "genesis" /\ task' = Down
  /\ failures' = failures + 1
  /\ UNCHANGED <<finalized, disk, head, crashes>>

Retry ==
  /\ Stage = "kept"
  /\ task' = At("verified")
  /\ UNCHANGED <<finalized, disk, head, crashes, failures>>

Crash ==
  /\ crashes < MaxCrashes
  /\ task # Down
  /\ head' = NoHeader /\ task' = Down
  /\ crashes' = crashes + 1
  /\ UNCHANGED <<finalized, disk, failures>>

-----------------------------------------------------------------------------
Init ==
  /\ finalized = <<[header |-> GenesisHeader(EmptyState), state |-> GenesisState]>>
  /\ state = EmptyState /\ blocks = <<>>
  /\ head = NoHeader /\ task = Down
  /\ crashes = 0 /\ failures = 0

Next ==
  \/ \E p \in Payload : Finalize(p) \/ DraftBlock(p)
  \/ \E origin \in {"quorum", "sync"}, i \in DOMAIN finalized :
       finalized[i].header.height > 0 /\ VerifyBlock(origin, finalized[i])
  \/ OpenFresh \/ Open
  \/ CommitState \/ CommitBlock \/ SetHead
  \/ WriteFails \/ Retry \/ Crash

Spec == Init /\ [][Next]_vars

-----------------------------------------------------------------------------
(* Properties.                                                             *)

\* The state the finalised block at a height leads to.
StateAt(height) == finalized[height + 1].state

\* A running node that is not in a commit, and had no write fail, stands at a
\* stored head, on the state the validators agreed for it.
RunsWhole ==
  (Stage = "idle" /\ failures = 0) =>
    /\ head = Last(blocks)
    /\ state = StateAt(head.height)

\* Whatever fails, the two stores are at most one block apart.
OneBlockApart ==
  blocks # <<>> =>
    LET height == Last(blocks).height IN
    state \in {StateAt(h) : h \in height .. height + 1 \cap 0 .. Len(finalized) - 1}

\* "Chain.open detects a crash between the two" (chain.ts:500): it starts only on
\* the state of the stored head.
OpensOnlyWhole ==
  (task = Down /\ Opens) => state = StateAt(Last(blocks).height)

\* Crashes and refused writes leave a node on the history of the validators, or
\* it does not start.
RunsOnItsHistory == RunsWhole /\ OneBlockApart /\ OpensOnlyWhole

\* What the node has told others it has, it has after any crash: the head in
\* memory is stored.
HeadIsStored == head # NoHeader => Contains(blocks, head)

\* The node's block 0 is the one of the other validators.  It is not where the
\* config lists allocations out of key order and a first start was cut off after
\* its state was written: the root is then built over that state.
SharesGenesis == blocks # <<>> /\ blocks[1] = finalized[1].header

\* A node with a block 0 of its own had a crash or a refused write, never gets
\* past that block, and does not start again.
AloneOnlyAtGenesis ==
  (blocks # <<>> /\ ~SharesGenesis) =>
    crashes + failures > 0 /\ Len(blocks) = 1 /\ ~Opens

\* A draft at the tip, on the validators' genesis, is the one any other validator
\* makes of the same transactions, whatever crashed or failed before.
TipDraftsAgree ==
  (Stage = "idle" /\ SharesGenesis /\ head.height = Tip.header.height) =>
    \A p \in Payload : MayFinalize(p) =>
      /\ Includable(state, p)
      /\ Draft(head, state, p) = FinalizedBlock(p).header

\* A running node is never alone with its state root, except at a genesis that
\* it built twice.
DraftsAgree == TipDraftsAgree /\ AloneOnlyAtGenesis
=============================================================================
