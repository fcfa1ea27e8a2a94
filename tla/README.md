# A verification of Mordecai

Mordecai is a small settlement chain with peer-to-peer applications around it:
a fixed set of validators orders transactions into blocks with one-vote-per-
height BFT, executes native transfers and WASM contracts, and app chains and
games settle on it. This directory holds TLA+ modules translated from the code,
the TLC configurations that check them, and TLAPS proofs.

Contents: 1. the system · 2. the modules · 3. the runs · 4. bounds and
fairness · 5. the proofs · 6. where code and documentation disagree · 7. what
is not modelled · 8. the plan.

## 1. The system

### 1.1 Components

| Component | Code | State it keeps | Operations |
| --- | --- | --- | --- |
| Consensus engine | `packages/consensus/src/engine.ts` | round, verified proposals, votes and own vote of the next height; sync flags; transaction broadcast batch and admission backlog | tick, onProposal, onVote, onProposalRequest, onBlockRequest, onBlockResponse, hello, checkQuorum/advance; transaction gossip and repair |
| Peer hub | `packages/consensus/src/peer-hub.ts` | connected streams | broadcast, reply, peer-connected callback |
| Chain | `packages/chain/src/chain.ts` | head header in memory; a state store and a block store on disk | open (genesis, reopening), draftBlock, verifyBlock, commitVerified, queries |
| Execution | `packages/chain/src/execution.ts`, `account.ts` | none: a write overlay per block, transaction and call | checkInclusion, applyTransaction, applyTransferTransactions (the batch path), executePayload, runContract |
| Transaction facts | `packages/chain/src/tx.ts`, `signature-worker.ts` | bounded caches of hashes and verified signatures; a worker pool | facts, verifyTransactionSignatures |
| Mempool | `packages/chain/src/mempool.ts` | pending transactions by sender and nonce, their number | add (asynchronous), takeForBlock, missingNonceRequests, prune |
| State store | `packages/state/src/store.ts`, `overlay.ts`, `merkle.ts` | a LevelDB with an LRU read cache, or a map in memory | get, getSync, applyChanges, entries; state root |
| Protocol | `packages/protocol/src` | none | codecs of transactions, blocks, gossip |
| Crypto | `packages/crypto/src` | keystore file | signatures, hashes, addresses |
| Contract VM | `packages/vm/src/runtime.ts`, `runtime/src/lib.rs` | compiled runtime, per-call host context | validate, call with fuel, nested calls, storage and transfer host functions |
| Networking | `packages/networking/src` | swarm, feeds | join, replicate |
| Node | `packages/node/src` | wires the parts of a full node | start, stop, config, CLI |
| RPC | `packages/rpc/src` | connections, pending requests | submit_tx, queries, waitForTx |
| App chains | `packages/appchain/src` | a daemon per app chain with its own consensus group; the last anchored checkpoint | anchorNow, attest, cosign, settlement outcome calls |
| Gateway | `packages/gateway/src` | faucet claims, account registry and journal, chess rooms, microblog index, in files and memory | faucet claim, register/finish, room append, post, explorer reads |
| Wallet | `packages/wallet/src` | keystore, nonces | sign, send, browser wallet |
| Wallet sessions | `packages/pear-integration/src` | session allowance, pending approvals | signTransaction, approve, revoke |
| SDK | `packages/sdk/src/sdk.ts` | app context | submit, feeds |
| Apps | `apps/*` | game clients and web front ends | chess match and wager, Hex, Outpost, Frontier, bounties, microblog |
| Contracts | `compiler/examples/*.pysc`, `contracts/*` | contract storage | chess wager, Hex with escrow, goods market and Outpost, season pool, information bounties, Frontier, land |
| DSL compiler | `compiler/mordecaidsl` | none | Python-like source to WASM |
| Demo scripts | `scripts` | identity and journal files of the node demos | start of the demos, outcome of Outpost |
| Devnet benchmarks | `apps/devnet` | controller's counters, reports of the nodes | submit in windows, count blocks, converge, report |
| Wallet page | `packages/gateway/web` | account, prepared and pending transactions per network, history | review, submit, retry, poll, tips |

### 1.2 How they interact

A wallet signs a transaction and sends it over RPC; the node admits it to the
mempool (after an asynchronous account read) and gives it to the engine to
gossip. On each tick the engine whose validator has its turn takes
transactions from the mempool, has the chain draft a block (execution on an
overlay, no commit), broadcasts it and votes. Peers verify the block by
executing it, vote, and whoever holds the block and a quorum of votes commits
it: state store first, block store second, head in memory last, then
`mempool.prune` and `advance`. Nodes that fall behind learn a height from a
`hello` or a vote and ask for certified blocks. App chains run the same engine
with their own genesis and anchor their head on the settlement chain with a
quorum of their validators' signatures, optionally calling a settlement
contract in the same transaction.

The engine serialises its handlers on a promise queue, so consensus is a
sequential state machine per node; but the mempool, RPC reads, gateway and
app-chain daemon run *beside* it and every `await` is a point where they
interleave with it.

### 1.3 What is hard, and what makes each part correct

- **Consensus.** Asynchrony of gossip (loss, duplication, reordering, messages
  of other heights), faulty validators, timeouts, restarts. *Agreement; one
  vote per height; self-verifying certificates; no undecided quorum; no leak
  across heights; catch-up; progress when nothing fails.*
- **Chain.** A commit is two writes and an assignment; a crash or a failed write
  may fall between them. *The stored state is the state of the stored head, or
  the node refuses to start; a committed block survives.*
- **State store.** Reads are asynchronous and fill the cache when they return; a
  commit may complete in between. *A read returns the committed value; the
  cache agrees with the database; capacity bounded.*
- **Mempool.** Admission reads an account, waits, and inserts. *Count agrees
  with content; no emptied sender entry is left to be dereferenced; a block
  takes contiguous nonces; nothing the chain passed stays for ever.*
- **Execution.** Fees, refunds, failure after partial effects, aliasing of
  sender, recipient and proposer in the batched path, nested calls. *Balances
  are conserved, nonces move by one per included transaction, a failed payload
  leaves no effect but the fee, the batched path equals the sequential one.*
- **Anchors.** An anchor is a quorum statement of another validator set; epochs
  must grow; the daemon retries and restarts. *Anchored heights never go back;
  an outcome is settled at most once; a failed outcome call can be repeated.*
- **Settlement.** Two chains meet in an anchor; a daemon reads one, awaits, and
  signs the other. *An escrow is paid once, and only for what was delivered; a
  delivery is settled.*
- **Transaction gossip.** Batches, backlogs and pools have limits, connections
  drop frames, nodes stop while admissions wait. *What was submitted reaches the
  other pools or is executed.*
- **Signature pool.** Worker threads answer in any order; a cache of bounded
  size. *The first forged signature of a block is the one that is found.*
- **Wire formats.** Writer and reader are two lists of fields. *One
  representation for every structure, one structure for every representation.*
- **Gateway.** Check-then-act around awaits, journals and files beside memory,
  restarts that forget limits. *What was promised is paid, once; what was
  acknowledged stays; a failed peer hides nothing; nothing is pending for ever.*
- **Wallet page, sessions, SDK.** Nonce, signature, submission and receipt are
  separate awaits, and answers get lost. *The page says the truth about a
  transaction; applications spend within their grant.*
- **Demo scripts, benchmarks.** *An interrupted start goes on where it was and
  deploys nothing twice; a report counts what happened.*

PROJECT.json lists each hazard at its line with the properties that cover it.

## 2. The modules

Every component has a module of its own; an abstract module next to it says what
the rest of the program relies on, and the detailed one is shown to implement
it. `MC...` modules hold values for TLC (`MCNetwork` also the one property of
the run `settlement`, which follows that component alone), `...Proofs` modules
nothing but theorems; `FoldProofs` holds what several of them need.
`MempoolProofs` is about the mempool and the components of `Network` without
wallets, `NetworkProofs` about those with wallets and about `Gateway`. Operators
marked *mutant* are wrong variants of the definition under them; PROJECT.json
names the property that notices each.

| Module | Models | State and actions, and the code behind them |
| --- | --- | --- |
| `Finality` | what consensus promises | one chain that only grows; each ledger a prefix that only grows |
| `Consensus` | `engine.ts` | per node: ledger with certificates, `round`, `proposals`, `votes`, `myVote`, `bestRemoteHeight`, `syncInFlight`. One action per handler: tick in its three parts (sync, time-out with re-broadcast, propose), `OnProposal`, `OnVote`, `OnHello`, `OnBlockResponse`, `OnProposalRequest`, restart. Each ends with the `castVote`, `checkQuorum`, `advance` the handler calls |
| `StateStore`, `LevelStore` | `store.ts`: the interface, and LevelDB behind an LRU cache | `get` as ask, answer and continuation; `getSync`; `applyChanges` as call, batch and continuation |
| `StateRoot` | `computeStateRoot`, `computeStateRootWith`, `merkleRoot` | operators: the merge of sorted entries with sorted changes as a fold; a Merkle root is the list of its leaves |
| `NestedTransactions`, `Overlay` | `overlay.ts`, stacked as `execution.ts` stacks them | open, set, delete, `commitInto` the one below, apply to the store, drop |
| `ChainStore` | `chain.ts` on its two stores, `genesis.ts` | `Chain.open` (fresh or not), draft, verify, and a commit as three steps (state, block and HEAD, head in memory) with crashes and refused writes between them |
| `Mempool` | `mempool.ts` | admission as call and continuation; take, repair and prune as one visit per sender, each an await |
| `Accounts` | inclusion, fees, transfers, calls | operators on accounts: a partial function, since the state root tells an absent account from an empty one |
| `Ledger`, `BlockExecution` | `executeTxs` of `chain.ts`, `applyTransferTransactions` | draft and verification, each by the batch and its cache or by single steps; a peer's block; refusal; commit |
| `ContractCalls` | `applyTransaction`, `executePayload`, `runContract` | one action per host function; a stack of frames, each with its view of the state; anchors with outcome calls |
| `Storage` | what a node keeps | composes `ChainStore`, `LevelStore` and `Overlay`, a behaviour following one level |
| `Settlement` | `daemon.ts`, `attest.ts`, `cosign.ts`, `outpost-outcome.mjs`, `goods_market.pysc`, `outpost.pysc` | orders, deliveries, each validator's copy of the app chain, each run of `anchorNow`. One action per await of a run and per contract call; blocks of both chains; a lost mempool, time-outs, restarts |
| `TxGossip` | broadcast batches, admission backlog and repair of `engine.ts`, `peer-hub.ts`, stop of `node.ts` | pool, batch, backlog, admissions and life of each peer, frames of each link. One action per handler, timer and continuation |
| `SignaturePool` | `tx.ts`, `signature-worker.ts` | the cache of valid signatures, requests, their queue, each worker's chunk; check in place or by the pool, a worker's answer or death |
| `FundedWallets` | the nodes as RPC shows them | executed and pending transfers of one wallet per network, blocks, other users of the key, refusals, restarts of a node |
| `Faucet`, `Registration` | `faucet.ts`, `accounts.ts` | one action per await of a claim or registration; the limits and `pending` in memory, the journal in a file |
| `AppReads` | `handleExplorer`, `explorer.ts` | reads under way, the time each has used for peers and for closing connections, the count `activeAppReads` |
| `ChessRooms` | `chess-rooms.ts`, `wallet/src/chess.ts` | the room's file and what a power failure may leave of it, the queue of appends, the wager |
| `Microblog` | `microblog.ts` | the index in memory, in its file, and what a power failure may leave of that; the queue of changes, the timer that asks about payments |
| `DemoBoot` | `hex-demo.mjs`, `scripts/lib/demo-state.mjs`, `outpost-demo.mjs`, `microblog-demo.mjs` | the identity and journal files, where the start stands; one action per file operation and RPC call; ends of the process anywhere |
| `Gateway` | routes of `gateway.ts` | composes the six modules above (faucets and accounts together, since they may hold one key) |
| `WebWallet` | `web/wallet.js`, `web/transactions.js` | one client per network with history and pending entry; what `working` stands for; one action per await |
| `AppSessions` | `session.ts`, `daemon.ts`, `remote-signer.ts` of `pear-integration`, `submit` of `sdk.ts` | allowances, submissions and their awaits, transactions and messages that an application makes up itself, what was signed and how (from the allowance, with approval, as a message) |
| `DevnetBench` | `bench-10-node-cluster.mjs`, `bench-10-node.mjs`, `validator-worker.mjs` | blocks, each node's height and pool, reports on their way, the controller's windows, retries and counters |
| `WireFormat`, `ProtocolFormats` | `wire.ts`; `transaction.ts`, `block.ts`, `gossip.ts`, `constants.ts`, the records of `chain.ts` | shapes with an encoder and a decoder; each format as it is written and as it is read; a message on its way that is changed, cut or lengthened |
| `Network` | what runs around the nodes | composes `Settlement`, `TxGossip`, `SignaturePool`, `WebWallet`, `AppSessions`, `DevnetBench`, `ProtocolFormats` |

How they fit: `Consensus` treats a block as a record that names the whole chain
below it and takes from `ChainStore` that a verified block can be committed;
`ChainStore` takes from `BlockExecution` that execution is a function of state
and block (`DraftVerifies`); `BlockExecution` and `ContractCalls` read and write
through views, which `Overlay` justifies (`ImplementsTransactions`); `Overlay`
and `ChainStore` share `StateRoot`; all stand on `LevelStore`, up to the
exception its property names. `Mempool` gives the engine its transactions, and
`TakenIsIncludable` is what `BlockExecution` may expect of them, and `TxGossip`
carries them between pools. `Settlement` takes from `ContractCalls` that a failed
outcome call fails its anchor and that epochs grow. The services of `Gateway`, the
wallet page and the applications see the nodes through `FundedWallets`.

`Storage`, `Gateway` and `Network` compose parts that share no state with each
other, or only through an abstract interface that a module of its own states. A
behaviour of them follows one part, chosen at the start, and the others stand
still: an interleaving of parts that have no variable in common would add states
and no behaviour of any of them. Where parts do share state (faucets and
registration share keys and nodes, the wallet page its networks) they run
together.

Abstractions that hold throughout: a hash is the thing hashed; signatures are
perfect; formatting, logs and encodings are left out; a history variable
(`overtaken`, `late`, `forgot`, `before`, `acked` and `settled`, `doubted` and
`doubtful`, `raised`, `finalized`) records what a property needs and no action
reads.

*Consensus.* Time and mempool content are nondeterministic: a time-out may
happen at any tick. The mesh is the set of messages ever sent: delivery is an
action that may never happen, may happen late, or twice, or in any order. Hello
messages and block responses are derived from the sender's ledger at delivery. A
faulty validator signs anything, names any height in a hello or in a vote whose
signature is not checked before its height is believed (`engine.ts:463-469`),
and sends blocks unasked, a bad one behind good ones; its certificates may name
any validators, but count only votes that were signed. Correct peers send blocks
only when asked, which is all that their code does (`engine.ts:634-648`). A
restart empties the memory and keeps the ledger.

*ChainStore.* A payload stands for the transactions of a block; it runs if the
sender's account is at its nonce, and writes one contract key. `finalized` is
the agreed chain with the state after each block, against which this node is
compared. The in-memory backend, which never survives a restart, is left out.

*BlockExecution.* A draft offers transactions one at a time. A mixed list is
drafted singly, but if only its transfers are included the block is verified by
the batch; so both paths meet on one block. A call keeps its value or fails, and
uses fuel 0 or 1; what a contract does in between is `ContractCalls`.

*ContractCalls.* A contract may run any sequence of host functions. The fuel
used is any amount up to what the fee can pay; `exhausted` is the meter over its
budget, after which no host function can be charged. That the fuel of a failed
callee is not charged to its caller (`vm/runtime/src/lib.rs`) is not modelled.

*Settlement.* Of an app block only its delivery matters. Co-signers check an
attestation against their own copy (`cosign.ts`), which may be behind or ahead.
Two daemons race for an epoch; a run that read an older one fails.

*TxGossip.* One sender, a transaction is its nonce; blocks execute what is
contiguous in the proposer's pool. A link loses its frames with its connection,
and the peers connect again.

*FundedWallets and its users.* Amounts are fixed per network, so money is counted
in grants; the receipts of a wallet are in nonce order, so their number is its
nonce. A lost answer, a time-out and a refusal are separate outcomes of a call,
because the callers treat them differently.

*ChessRooms, Microblog.* A file is written, synced and renamed over the old one;
the rename is visible at once and durable when the directory is synced. A process
that stops in between leaves the file as it is, for the next process to read and to
answer from; a power failure leaves any of the contents since the last sync of the
directory (`roomDisk`, `feedDisk`). Which answers were given from a file that was
not durable yet is recorded (`doubtful`, `doubted`).

*AppSessions.* What an application asks for comes from its own JSON: any chain,
nonce and fee limit, below zero too, and any bytes to be signed as a message, so
also those of a transaction. The cost is taken from the allowance before the
wallet signs, which may then fail.

*DemoBoot.* A file is created, then written: a stop between leaves a torn file,
which no later start gets past. Nodes end with the process, and what their pools
held may still arrive from other validators.

*WireFormat.* A unit is a byte where a field's size may vary and a whole field
where it is fixed. Of a text's bytes two matter: one that UTF-8 never has, and
the byte-order mark, which a careless decoder drops.

## 3. The runs

| Run | Instance | Checks |
| --- | --- | --- |
| `consensus_equivocation` | 4 validators, the first proposer faulty, 2 payloads, 1 height, no time-out, all sync paths, a made-up height at any point | `Agreement`, `VoteLock`, `CertificatesHold` |
| `consensus_rounds` | 4 validators, one faulty, 1 time-out, so two proposers of one height; hellos lost | `Agreement`, `NoneIsStranded` |
| `consensus_sync` | 2 validators, 2 heights, 1 time-out, 1 restart, sync fairness | `NextHeightOnly`, `CatchUp`, `Progress`, `ImplementsFinality` |
| `consensus_fork` | 4 honest validators, 2 restarts | violates `SafeWithoutFaults` (section 6) |
| `storage` | cache: the engine and 2 other readers, 2 keys, capacity 1, 2 commits; overlays: 3 keys, 2 values, 2 layers; chain: 2 accounts, listed out of key order in the genesis, and a contract key, 2 heights, 2 crashes, 2 refused writes | `CacheIsSound`, `ImplementsStateStore`, `ImplementsTransactions`, `RootsAgree`, `RunsOnItsHistory`, `HeadIsStored` |
| `mempool` | 2 senders, 3 nonces, 2 rivals for each, limit 2, take 2, 2 admissions at a time | `PoolIsConsistent`, `TakenIsIncludable`, `StaleOnlyIfLate` |
| `execution` | 3 addresses and a contract, 2 proposers, 3 transactions of 2 nonces; any 2 transactions in a peer's block | `Conserved`, `NoncesInOrder`, `DraftVerifies`, `ImplementsLedger` |
| `contracts` | 2 contracts, calls 3 deep, 1 event, 1 app, up to 3 anchors, its validators changing | `Conserved`, `FailureLeavesTheFee`, `LossIsBounded`, `OutcomeOncePerEpoch` |
| `contracts_events` | as `contracts` | violates `EventsAsDocumented` (section 6) |
| `gateway` | 2 visitors on 2 networks, 2 faults, a restart each of gateway, faucet and node; 2 app reads over 3 peers; a chess room of 3 wallets and a feed of 2 posts or 2 tips, each stopped twice, by its process or by the power; a start of 3 steps with 2 crashes | `PromisesKept`, `GrantsKept`, `FailedPeersHideNothing`, `AcknowledgedSurvives`, `DeploysOnce`, `Settles` |
| `network` | 2 daemons or 2 runs of one; 3 transactions between 2 peers; 3 requests of 4 signatures to 2 workers; a page on 2 networks; 3 applications, of which one may sign messages and one has no grant, and 3 calls; 3 benchmark transactions to 2 nodes; every message of the protocol with up to 2 changes; one fault in each | `PaidForDelivery`, `NothingLostInGossip`, `FirstForgedIsFound`, `PageSaysTruth`, `SpentWithinGrant`, `ReportIsTrue`, `WireIsExact`, `Rests` |
| `settlement` | one daemon, no fault | violates `DeliverySettles` (section 6) |

What they show:

- *Consensus.* Less than a third of faulty or forgetful validators cannot make
  two nodes finalise different blocks of a height (`Agreement`), whether they
  equivocate, vote twice, or a round times out in between. A correct validator
  that did not restart signs one block per height. Whatever way a block took, its
  certificate convinces any third node. No handler leaves a decidable block
  undecided, and a lock is always accompanied by what the time-out sends again
  (`NoneIsStranded`). Two nodes that restart and time out still converge, as long
  as blocks can be requested; with a mesh that loses nothing the chain advances.
- *Storage.* The cache is transparent to execution until a commit overtakes a
  get that is on its way; then the key is stale until it is next committed.
  Stacked overlays are nested transactions, and the root computed before a write
  is that of the store after it. A data directory opens only on the state of its
  head. Whatever crashed or failed before, a running node drafts at the tip the
  block that any other makes of the same transactions, unless it is alone with a
  genesis it built twice, which it then never gets past (section 6).
- *Mempool.* For every interleaving at its awaits the size is exact, the
  dereferences of a sender's first transaction are safe, and a taken list can be
  drafted.
- *Execution.* Money is neither made nor lost with sender, recipient and
  proposer aliased in every way; the batch is equivalent to the sequence.
- *Contracts.* Nested and reentrant calls that fail at any depth leave money
  conserved and a failed transaction without any effect but its fee.
- *Gateway.* A claim that was answered and a registration that is pending are
  paid or can be; with accounts no route reaches a faucet on the same key, and
  no visitor gets two grants; a healthy peer is found in time unless those
  before it take up the deadline; no message or post that was acknowledged is
  lost by a failed write or a stop of the process, and none by a power failure
  unless it was answered from a file that was not durable yet (section 6); a
  start that was interrupted executes no step twice. Registrations, reads, tips
  and starts end, whatever fails a bounded number of times.
- *Network.* A delivery is paid once and only for what was ordered, whatever
  daemons race, lag or restart. A submitted transaction reaches every pool while
  no connection is lost, and is executed after losses if a proposer holds a later
  one. The answer of the signature pool does not depend on the order of its
  workers. The page never calls a transaction rejected or confirmed that is not.
  Requests that overlap, wait for the user or fail after their cost was taken do
  not overspend a grant; the ways around it (section 6) are in the property. A
  benchmark that ends counted each transaction once. Every message is read as it
  was written, and what is accepted is encoded back to the same bytes, so that a
  signature or a hash is over one value.

## 4. Bounds and fairness

Bounds are constants (`Max...`) in guards, or small sets. One height is enough
for agreement at a height, since blocks name their ancestors and memory is
emptied in between, which is what the second height of `consensus_sync` checks.
Four validators are the least that tolerate one fault. Two time-outs add no
third kind of proposer. `HelloLost` in `consensus_rounds` drops the hellos,
which would only let a node sync instead of vote; `consensus_equivocation` keeps
them, and does not go on from a height that nobody has (`NoneMisled`), which
only makes a node ask for blocks; the proofs have neither limit. In `mempool`
the second sender submits its first transaction only, to compete for room
(`SecondSendsOnce`); in `contracts` an outcome call nests once
(`ShortOutcomes`), calls of users twice, so that a contract can be re-entered
through another; the code's limit of 4 is the same test. Three transactions in a
block let one account be read, written by another's transfer and read again. Two
crashes let a restart itself crash. In `gateway` and `network` every part has at
least one fault, two where one fault may hit the answer to another (a
registration, a start, a message on the wire); one is enough elsewhere because
each part repairs a fault before it meets the next, or has no state left of it.
Rooms and feed stop twice, since it takes a stop of the process and then one of
the power to undo what was answered in between; the operator hides or blocks
once. An allowance of 1 with fee limits of 1, 2 and -1 has calls within it,
beyond it, and one that raises it so far that the second fits. Two daemons, or
two runs of one, are the least that race for an epoch; three peers with a
deadline of three seconds and a second to close a connection make a read end
before its last peer; a cache of one signature and a pool that starts at two
signatures bring the code's 250,000 and 128 within reach; the formats' limits
are 1 or 2, with lists and blobs at them. A mempool window of 2 for 3
transactions makes the benchmark wait between windows. A benchmark's block holds
1 transaction, so that there are as many blocks as there can be. Symmetry is
over validators that have no turn, payloads, transaction identities and
admission slots, none of which any definition orders.

`CHECK_DEADLOCK FALSE` is set where the bounded system really ends: the last
height is reached, or no commits, crashes or transactions are left.

Fairness is stated where something must end. In consensus, `SyncFairness`: ticks
recur (an interval timer), a hello follows every commit and connection and is
delivered, a block request is repeated every `SYNC_RETRY_MS` while the node is
behind, and a peer answers it. Nothing is assumed of proposals and votes, which
nobody repeats once a height is decided. `Progress` is conditional: *if* every
proposal and vote is delivered and proposers have transactions
(`GossipFairness`), no deadline passes and nobody restarts, the chain advances.
Without that condition it need not: split votes of one height can lock every
validator, as the documentation admits.

In `Gateway` and `Network` fairness is weak, per actor: nodes make blocks with
what their pools hold; a call's awaits end, because each has an answer or a
timer; timers recur; a client that was told to retry does (the answer of a
pending registration says so, and the wallet page offers it). Faults are
finitely many, by their bounds. A user's decision, such as to submit or to close
an account, is never assumed. `Rests` asks nothing of sessions, benchmarks and the
wire, where a user's approval or a lost message may be waited for.

## 5. The proofs

TLAPS checks the following for every value of the constants that the named
assumptions of the modules allow, so for any number of nodes, blocks, rounds,
crashes, admissions or transactions. The assumptions say what the values are,
and little else: validators a finite set that is not empty, with distinct turns,
and any of them faulty; bounds natural numbers, limits of mempool, batch and
admissions positive; sets finite where their sizes are taken; accounts of the
genesis, senders and recipients among the addresses; amounts, nonces and fuel
natural numbers; what a call to a wallet session costs an integer, and not below
zero where a transaction has room for it; the time to close a connection
bounded; the sender of a transaction not a contract, whose id is a hash; the
fuel of a call within what its fee pays; ids of orders from 0; runs of
validators' daemons; the requests of the signature pool finite lists of hashes;
an entrance among the peers; the networks of accounts, the peers of an app and
the steps of a demo lists, networks and steps without repetition (each is a key
of a record or of a file name in the code); limits of reads positive, and the
nodes, window and block limit of a benchmark; recipients, steps and the outsider
whose transfer uses up a nonce told apart.

*`FoldProofs`: what stands in for induction.* The provers have no induction over
data, but every set of naturals has a least member (`LeastNatural`), every
bounded one a greatest, and among finite sets with a property one is smallest
(`SmallestSet`). A recursive definition in a fold is a function that some proof
must find: `FoldExists` builds it prefix by prefix (`FoldsAlong`), and a fact of
all prefixes is shown by the first at which it would fail. For sums, the same
over finite sets: the fold exists, and its value does not depend on which element
it takes first (`AddsUpOnce`, `SumLess`, `SumsAgree`).

*`ConsensusProofs`: `TypeCorrect`, `OneVotePerHeight`, `GenuineCertificates`,
`MemoryIsOfNextHeight`, `NoFork`, from `SafetyInvariant`.* None of the four
properties is inductive. The invariant `IInv` ties them into one chain: what is
in a node's `votes` was signed, so a certificate names a quorum of signers
(`CheckQuorumSafe`, `OnBlockResponseSafe` for the blocks that come by sync,
asked for or not, with a bad one behind good ones or without:
`AnswerIsCertified`; `SignersGrow` because signatures stay valid); a validator
that can still vote remembers the vote it sent for the height it is at
(`Locked`, which is where a restart makes the exception, `RestartSafe`); so it
signed one block per height; two quorums share a reliable validator
(`QuorumsMeet`, from the arithmetic of `QuorumArithmetic`), and two certified
blocks of a height are the same at every height at which fewer than a third are
faulty or forgot, the condition in `Agreement`. Sync appends several blocks in
one handler, so the steps over ledgers are lemmas on prefixes (`AppendExtends`,
`ConcatExtends`, `AnswerIsSequence`).

`NobodyIsStranded` rests on less: each handler ends in `checkQuorum`, which leaves
nothing decided behind, and the only vote of its own that a node has recorded is
the one it is locked on (`Recovers`). So `castVote` always records its vote
(`CastVoteRecovers`), and a lock has what a time-out sends again until the next
commit clears all three.

`FinalityImplemented` is the refinement: the chain of `Finality` is the longest
ledger of a correct node. While ledgers agree every other one is a prefix of it
(`PrefixOfLongest`); a handler that commits takes over what some node holds, and at
most one block beyond (`StepGets`, `AnswerFits`), so the longest grows by a
block at most, and that block stands on it (`LongestGrows`, `GrowthIsFinal`).
Its hypothesis, `[]Safe`, is that at no height a third is unreliable;
`FinalityBelowAThird` replaces it by a condition on the constants, since a
restart loses the lock of one validator at one height (`FewLost`).

*`MempoolProofs`: all properties of the run, from `SafetyInvariant`.* The
invariant adds to them that the pool is finite, that an admission waits with a
nonce its account had at some time (`AddsSawThePast`), and that while a prune is
under way the stale transactions that are not late belong to senders it has yet
to visit (`PruneReachesStale`). The delicate cases are the admission that
continues after a prune (`AcceptanceSafe`, `RefusalSafe`) and the visit that a
commit overtook (`PickedFits`, `CommitKeeps`).

The module goes on with the components of `Network` that have no wallets, each on
its own (`GossipSpec`, `SignatureSpec`, `SettlementSpec`, `BenchSpec`).

`GossipLosesNothing`, from `GossipInvariant`. Each handler moves
transactions from one place to the next: batch, frames of a link, backlog,
admissions, pool. That it moves all of them (`Kept`) is shown per handler, from
lemmas about the places (`BatchSends`, `FramesShrink`, `FrameWaits`, `CutKeeps`,
`DrainKeeps`). Two facts make it inductive. The offset of the backlog stays within
it, while the node runs, and admissions within their limit, or the drain would
skip some (`Bounded`); a stop, which empties the backlog and leaves the offset,
ends the first. And whatever is under way the entrance has pending, until it is
executed (`Known`): so an admission there brings nothing new that would have to
be on its way to the others.

`ForgedIsFound`, from `SignatureInvariant`. A request leaves out what the cache
knows to be valid; its jobs are in the order of the block and have every forged
transaction of it (`JobsFor`); the workers have the chunks of the first request
in the line (`ThreadsAreGood`), which one after the other are its jobs
(`ChunksAreJobs`); so the first invalid job of the answers, taken in the order
of the chunks, is about the first forged transaction, in whatever order they
came.

`DeliveryPaidOnce`, from `SettlementInvariant`. The market tests
that an order is open, so no escrow is paid twice; that it is paid for the
right delivery rests on what a daemon read several awaits before. The invariant
says that this stays true: what a run has read, offered to its co-signers or
sent, and what its relayer still has pending, names a delivery made for what its
order asks (`Vouched`), and neither a delivery nor the terms of an order ever
change (`Lasting`, `VouchedStays`), so a head attested later than the outcome was
read, a co-signer that lags or a restart cannot make it wrong. `OrdersInTurn`
keeps a new order from taking the place of an old one.

`ReportsAreTrue`, from `BenchInvariant`. The sender's nonce at a height is the sum of
the blocks up to it (`NonceIsSum`). Whatever waits or is under way was taken from the
queue and is not applied at its node, so a proposer at the head cannot take the chain
beyond what was taken (`PendingInv`, `TakesSubmitted`), however often a submission is
tried again or its copies come late. Where every block was counted under its own
height, which is the hypothesis in `ReportIsTrue`, the count is the sum over the known
heights (`CountInv`, `SumOfSome`); when that is all transactions, all blocks are known,
nothing is left to propose, and the node that reported the last one stands at the head
(`CountIsOnChain`). The controller's statuses may be old, but each node has one
at a time (`OneStatusEach`), and none of that node is older than the last block
(`AtTheHead`): nodes that are all at one head are at this one.

*`AccountsProofs`: `ApplyIsFair`.* A transaction keeps the sum of the balances,
overdraws nobody and uses up one nonce, its sender's, whether sender, recipient
and proposer are different accounts or one. `CreditAdds` and `ChargeTakes` say what
one write does to the sum; everything else is arithmetic on them.

*`BlockExecutionProofs`.* `Refinement`, `Spec => ImplementsLedger`: the accounts
a batch shows are its dirty entries over the block's overlay over the store.
While clean entries agree with what is below (`CacheAgrees`) and the two paths
do not mix (`PathsApart`), fetching changes nothing shown, `Earn` is `Credit`
and `Pay` is `Charge` (`EarnIsCredit`, `PayIsCharge`), so a transfer of the
batch is that transfer of the ledger (`BatchAppliesTransfer`), whatever aliases
there are; writing back before or after laying over the store is the same
(`OverTwice`), so the commit keeps exactly what was shown.

Each step then moves the ledger by one transaction, back to its committed state,
or not at all (`BlockStep`), and the other properties follow from that alone.
`MoneyIsConserved` is `ApplyIsFair` at each. `NoncesAreInOrder` counts a sender's
transactions in the block (`NonceAfterNext`). `DraftsVerify` keeps the way from
the committed state to what is shown, state by state (`Leads`, `Replay`): neither
the mode nor the path enters it, so executing the block again goes the same way
and ends with the same receipts.

*`ContractCallsProofs`: `ContractsConserve`, `FailuresLeaveTheFee`,
`LossesAreBounded`, `OutcomesOncePerEpoch`.* A contract may do anything its host
lets it, so nothing is known of a view in between but what each host function
keeps (`Keeps`): with respect to the state the transaction began with, the sum
of the balances less the fee that is held back, the sender's balance but for the
value attached and the fee, and the anchors. `RunsOn` says it of every frame at
once, so that a return hands the callee's view to its caller (`ReturnHolds`) and
a failure drops it (`FailHolds`) at any depth. `SettleEnds` turns it into the
end of a transaction.

*`StorageProofs`.* About `Storage`, level by level.

- `OverlaysAreTransactions`. `Overlay` reads through to the last layer that
  wrote; the proof reads a level from the level below instead (`Read`, `LevelsAre`),
  after which opening, writing, dropping, merging and applying are the operations
  of `NestedTransactions` on the list of levels (`StepOfLevels`).
- `CacheStaysSound`, `StoreIsAMap`. The cache is current but for keys of which a
  get was overtaken and those of a batch that is written and not yet remembered
  (`CacheIsCurrent`). That this survives the return of a get needs that a get which
  was answered and not overtaken still has the present value (`ReadsAreCurrent`),
  and that of the return of `applyChanges` that its batch is in the database
  (`BatchIsWritten`). `RememberAllFollows` is the loop over the changes with a
  limit that may evict what it has just put.
- `RootWithIs`, that the merge-join over entries and changes is the root of the
  result, for any finite set of keys. Lists by ascending key are determined by
  their set (`ListUnique`); one turn of the loop extends the list of all result
  entries up to one key to that of all up to the next (`MergedTo`, `TurnMerges`),
  and what is left of the changes ends it. `RootsDiffer`: different states have
  different roots.
- `HistoryIsKept`, `HeadSurvives`. The stored state is that of the last stored
  block or of the finalised block after it (`Near`), a commit in progress tells
  which (`TaskIs`), and applying a block's changes twice is applying them once
  (`AppliedTwice`). So what a crash leaves either opens on the state of its head
  or does not open (`OpensWhole`).
- `RootsAlwaysAgree` puts both together, for allocations in any order. `GenesisInv`
  adds what a node's block 0 is: the validators' as long as nothing crashed or
  failed, and wherever a block is in hand after it, since that block names the
  node's head (`NextNamesHead`). So a node with a block 0 of its own is alone only
  there (`AloneOnlyAtGenesis`); for every other node the head determines the state,
  and the state the draft (`DraftsHold`).

*`NetworkProofs`.* `GrantsBoundSpending` and `PageSaysTrue` are about the
specification of a component alone (`SessionSpec`, `WebSpec`), whose steps `Network`
takes; the rest is about `Gateway`, its `Spec`.

`GrantsBoundSpending`, from `SessionInvariant`. What an application had signed
without being asked and what is left of its allowance are together within what it
was granted, once per start of the daemon, and what its calls of a cost below zero
added (`WithinGrant`, `raised`). The deduction comes first, without an await between
it and the test, which is what a request in parallel could break; if the wallet
cannot sign what was asked, the deduction stays, and only what can be signed is
(`Fitting`), whose cost is not below zero. Approvals and messages are signatures of
other kinds, which leave the allowance alone. And what is pending or executed was
signed, as a message only for an application that may have messages signed, so what
was executed of the allowance costs no more.

`PageSaysTrue`, from `PageInvariant`. What the page says is kept true by one fact
about what may still reach a chain: of the page's own transfers, a node has or will
get none of a coming nonce but the one shown as pending (`OnlyPending`). A refusal is
final for a first submission because nothing of that nonce or later was sent before
(`Unsent`), which holds from the read of the account to the answer because
`working` lets nothing else be sent in between (`TaskIsGood`); a retry has no such
promise, so its refusal concludes nothing. A check that took several awaits
concludes only while its entry is still the pending one and nobody is sending
(`ConcludesKeeps`), and that a nonce was passed stays so (`CheckIsGood`). The steps
fall into four kinds: the chains go on (`NodesKeep`), the entries stay
(`SameKeeps`), the pending one gets another status (`MarkKeeps`), one is added
(`AppendKeeps`). Another user's transfer is told from the page's by its recipient,
`Outside`.

`GatewayKeepsItsPromises`, `GatewayGrantsOnce` and `DemosDeployOnce`, from
`GatewayInvariant`, which relates what nodes hold or have executed (`Held`) to what
the services have written down.

- The demos: what a node has of a step is what the step's file holds
  (`StepsAreFiled`). A file is written once, before the transaction in it is sent,
  so whatever a restart sends is the same transaction, which the nonce lets in once; and
  a step is signed only when those before it are done.
- Registrations: what a node has of a visitor is a grant of the journal *on
  disk*, and the grants before it succeeded (`HeldIsJournalled`). Memory may
  differ from the disk only after a failed write, and then nothing is sent until
  the restart. While nobody else uses the keys, a node's mempool holds only
  grants of the pending registration (`PoolIsPending`); so the nonces that a new
  one reads, network after network with awaits between them, are still the next
  ones when it is journalled, and its grants stay payable (`Due`). This is where
  a faucet on the same key would break it, which the gateway's routes rule out:
  with accounts no request reaches a faucet (`NoClaims`, `NoRouteClaims`).
- The faucet: an answered transfer is executed, or is the `pendingTx` for which
  no other transaction holds its nonce (`StillDue`); or the restart that forgot it, or a
  foreign use of the key, is recorded (`Promised`).

`ReadsFindHealthyPeer`, from `ReadsInvariant`: a read has passed no peer that would
have served it, and has used at most a second and the closing of a connection on each it
passed (`TimeOf`, `TimeAdds`); so it ends without the data only after the last peer
or after so many that these add up to `Deadline`.

`AcknowledgedIsKept`, from `ClientsInvariant`. In the rooms, an append reads the
history before two awaits and writes it after them. Only the append at the head
of the queue is past `queued` (`AppendIsGood`, `OneActive`), so the history is
still the room's when the file is replaced, and the new file extends whatever
the old one was. So every content a power failure may leave extends what was
answered from a synced file, and the file as it is also extends what was
answered from one that was not (`FilesAreSound`, `AnsweredFromFile`); a stop of
the process changes none of them (`RelayProcessStopsKeeps`), a power failure
picks one (`RelayPowerFailsKeeps`). That it replays was tested on that history,
and the contract names an opponent once (`WagerMovesKeeps`). In the feed, memory
never has what the file lacks, whatever a power failure leaves of it: all of its
contents since the last sync, and the change being saved, extend memory
(`Extends`, `FilesExtend`, `SavingIsGood`), so any of them may take its place; a
failed save leaves a file ahead of memory, and the next one replaces it by a
change of what memory has. What was answered is in all of them, or in the file
alone and noted as such (`AnswersAreKept`, `AnswersAgain`). A probe's result was
decided before it is merged (`ResolvingIsGood`), and merging leaves place,
payment and post of each tip (`TipsResolved`).

Only model-checked are the properties under fairness (`CatchUp`, `Progress`,
`Settles`, `Rests`), which the prover cannot reach; `WireIsExact`, about
decoders that are recursive operators, beyond the prover too; and the three
violated statements of section 6.

## 6. Where code and documentation disagree

*Checked by a run.*

- **A restart can break safety** (`consensus_fork`). A validator's vote is kept
  in memory only (`engine.ts:77-79`); `docs/threat-model.md:90-94` recommends
  restarts to recover a stalled height and says that "Safety is never at risk".
  Two honest restarts of four validators suffice for a fork. `Agreement` counts
  a validator that lost its vote as unreliable at that height.
- **A receipt may hold more events than its record** (`contracts_events`).
  `docs/src/contracts/model.md:49-50` says "≤64 events, ≤4 KiB each, kept only on
  success". `emit` checks the limit (`execution.ts:784`), an anchor's own event is
  pushed without (`execution.ts:720`). A contract that emits 64 events as the
  outcome call of an anchor makes a receipt that `encodeTxRecord` refuses
  (`chain.ts:131`), so that the commit throws after the state was written
  (`chain.ts:502-511`) on every node that indexes transactions. An error text has
  the same shape: an abort message may have 4 KiB (`vm/runtime/src/lib.rs:372`), the
  record holds 1024 bytes (`chain.ts:128`). The second half of the sentence fails
  too: a failed callee's events stay in the receipt (`execution.ts:787`, `804`),
  though `docs/src/architecture/vm.md:55-56` says that it reverts cleanly.
- **A delivery may never be settled** (`settlement`). `anchorNow` asks for the
  outcome (`daemon.ts:77`), which awaits the orders, and then attests the head of
  the moment. A delivery committed in between is below the anchored height but
  not in the outcome, and later runs are skipped until the app chain grows
  (`daemon.ts:68`), though `docs/src/examples/outpost.md:101-102` says that the next
  signed anchor can settle it.

*Met while modelling*; the models contain the behaviour, and the properties are
stated so as to hold with it.

- `LevelStore.get` puts what it read before its await into the cache after it
  (`store.ts:134-136`), though a commit may have cached a newer value; the next
  block then executes on the old one, on this node only. `overtaken` in
  `LevelStore` is the exception that `StaleOnlyIfOvertaken` makes.
- A commit is two writes (`chain.ts:502`, `516`); after a crash between them
  the node refuses to start and nothing repairs it, though
  `docs/src/architecture/chain.md:71` calls the commit atomic.
  `OpensOnlyWhole` is what does hold.
- After a crash between the genesis state and HEAD, block 0 is built over a
  store that already holds the allocations; when the configuration lists them
  out of key order the merge counts one twice, and the node's block 0 is
  nobody else's (`chain.ts:187-192`). The run lists them out of order;
  `AloneOnlyAtGenesis` says how far such a node gets: it stays at block 0, and does
  not start again.
- `onBlockResponse` returns early on a bad item and skips `mempool.prune`
  for the blocks it has committed (`engine.ts:673`, `682`): `CommitOther` in
  `Mempool`.
- The state is written before the head in memory moves (`chain.ts:502`, `517`): a
  query in between reads the state of the next block under the present height.
- A daemon whose chain lags can anchor a lower height under a later epoch: the
  epoch comes from the settlement chain, the height from its own
  (`daemon.ts:74`, `78`).
- `ChessRooms.append` and `Microblog.publish` and `addTip` answer what they find in
  the file (`chess-rooms.ts:61`, `microblog.ts:155-158`), and sync nothing then. After
  a process stopped between rename and directory sync (or, in the rooms, after that
  sync failed), the answer is about a file that a power failure may still undo:
  `doubtful`, `doubted`.
- A file that was created and not written stops every later start of the demos:
  identity and journal (`demo-state.mjs:83-88`), the feed id
  (`microblog-demo.mjs:12`): `BootStuck`. Identity and journal are not synced, so
  a power failure may lose them. A block between the reads of receipt and nonce
  fails one start; the next finds the receipt.
- A signature worker that died is not replaced: the next request with a chunk
  for it, and all behind that one, wait for ever, hence the condition of
  `SignatureWaits`; and a request with another pool size closes the pool others
  are using (`tx.ts:144-150`).
- `docs/src/apps/publishing.md:33-35` says that a new version is appended to the
  bundle feed and its hash registered with `update_app`; but `installApp` reads
  block 0 (`sdk.ts:175`), whose hash is the first version's.
- The page may say "nonce used; receipt unavailable" of a transaction that was
  executed, when the receipt it asks for comes from a node that is behind
  (`transactions.js:217-223`); it does not say that it failed.
- A wallet daemon that restarts grants every application its allowance anew
  (`pear-integration/src/daemon.ts`): `SpentWithinGrant` counts restarts.
- The daemon takes the fee limit as a `BigInt` of the application's JSON
  (`daemon.ts:80`), and a session deducts its cost before the wallet encodes it
  (`session.ts:98-100`). A limit below zero therefore *raises* the allowance, though
  the call then fails (`wire.ts:63-66`): `raised`.
- `sign_message` (`daemon.ts:63-66`, `session.ts:75-80`) signs any bytes for an
  application whose grant has `auth`, also those a transaction is signed by, so that
  such an application can spend without asking and without limit, though
  `session.ts:6-7` says that "auto-authenticate" must never mean "auto-sign" and
  `wallet.ts:93` that these are "not transactions". Signatures of this kind are
  counted apart in `SpentWithinGrant`, which says who can have them.
- The journal of accounts is renamed into place and its directory never synced
  (`accounts.ts:80-96`): a power failure may bring back an older journal, without a
  registration that was answered or paid. `Registration` is about stops of the
  process, over which the rename lasts.
- Calls of `reportBlocks` overlap (a timer and a status request), and one that
  waited reports its block under the height the other has moved on to
  (`validator-worker.mjs:24-33`): `ReportIsTrue` excepts that.
- `constants.ts:25` says that limits are enforced on both encode and decode; the
  number of blocks asked for is checked on decoding only, and a transaction in a
  block only by the size of the block.
- After a time-out the locked proposal is sent again under the *new* round
  (`engine.ts:302`), in which its proposer has no turn, so every receiver drops
  it; late peers are served by `proposal_request` instead.

## 7. What is not modelled

- *Power failures where the code syncs no directory*: the journal of accounts
  (section 6), the files of the demos, and the directory that `mkdir` makes for the
  rooms or the feed, whose own entry is not synced (`chess-rooms.ts:79`,
  `microblog.ts:121`).
- *Cryptography, network transport, HTTP, command lines, pages*: pure functions,
  wrappers, or I/O without a protocol of their own. Replication of feeds is
  Hypercore's.
- *WASM execution and fuel amounts*: `ContractCalls` allows any behaviour and any
  use of fuel.
- *The caches of transaction facts*: they cannot change a result.
- *Balances in the mempool*: a transaction that is admitted and becomes unpayable
  stays, and holds back its sender, which the code does not try to prevent.
- *The front ends* (`apps/*-web`, `gateway/web/explorer.js`): each shows what the
  chain says and submits through the wallet page, whose protocol is `WebWallet`.
- *The DSL compiler*: a sequential program over source text; what can go wrong is
  a matter of programs and their meaning, for which its tests are the better tool.
- *Contracts other than the goods market and Outpost's deliveries*: each of their
  calls is atomic, on one chain (the chess wager's phases are in `ChessRooms`).
- *The in-memory stores*, which no restart survives, and read-only queries.

## 8. The plan

Next, in this order:

1. `Escrows`: chess wager, Hex escrow and bounties: everything staked goes out
   once, and the contract's balance covers what it owes.
2. `VmHost`: the host functions' fuel, and what of a failed callee's is charged.
3. The front ends' own polling, where it keeps more than the wallet page does
   (`hex-web/src/rooms.js`, `funding.js`).
