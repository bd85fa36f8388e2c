# loragonBFT in TLA+

A verification development kept beside the Go code: TLA+ modules translated from
the source, configurations that check them with TLC on small instances, and
proofs checked by TLAPS. `PROJECT.json` maps every definition to the lines it
models and lists components, runs, findings, hazards and theorems.

## The system

loragonBFT orders transactions for an ABCI application with a chained,
round-based BFT protocol of the HotStuff family.

| Part | State | Operations |
|---|---|---|
| Committee, epoch state (`consensus/epoch_state.go`) | validator set, index, vote managers | two-thirds rule, proposer of a round, AddQCVote, AddTCVote |
| Vote managers (`consensus/{qc,tc}_vote_manager.go`) | votes by key and signer, sealed keys | AddVote, seal, Aggregate |
| Pacemaker (`consensus/pacemaker*.go`) | round, timers, QCHigh, TCHigh, last vote, current proposal | the events of `mainLoop` |
| Draft map (`chain/proposal_map.go`) | proposed blocks not yet final | Add, Get, GetProposalsUpTo, PruneUpTo |
| Chain store (`chain/chain.go`, `persist.go`) | blocks, number and tx index, best block and certificate, on disk and in memory | Initialize, AddBlock, readers |
| Executor, handshake (`consensus/executor.go`, `handshaker.go`) | tx cache; the application (external) | PrepareProposal, ProcessProposal, ApplyBlock, ReplayBlocks |
| Incoming queue (`consensus/incoming_queue.go`, `pacemaker_send.go`) | bounded queue, cache of seen messages, mutex | AddIncoming, Add, forceAdd, DelayedAdd |
| Tx pool (`txpool`) | pooled transactions | add, wash, Executables |
| Block synchronisation (`libs/rpc`), node (`node`) | peers, downloads | Sync, handleRPC, processBlock |
| Network (`libs/p2p`) | peers, scores, topics | libp2p services |
| HTTP API, caches, helpers (`api`, `libs/*`, `types`) | | |

A proposer sends a block on top of its highest certificate (QCHigh). Members vote
to everyone; the proposer of the next round collects the votes into a quorum
certificate and proposes the next block with it. A block is final once it has a
certified child. A member whose round timer runs out sends a timeout message with
its QCHigh and its last vote; the proposer of the round that timed out collects
these into a timeout certificate. Final blocks are executed by the application and
then added to the chain store, from which peers and the HTTP API read at the same
time.

What is hard about it: messages that are delayed, reordered and repeated; round
timers that race with certificates; several sources for one certificate (votes,
last votes in timeout messages, proposals, QCHigh in timeout messages); a restart
that keeps only the chain; a stop or an error between the application, memory and
disk; a lock shared by the main loop and by servers; a queue that overflows while it
is emptied; a snapshot of the pool that is used after its transactions are committed;
two goroutines that commit blocks without a lock. The hazards are listed in
`PROJECT.json`, each at its line, with the properties that cover it.

## The modules

| Module | Models | Checked by |
|---|---|---|
| `EpochState` | two-thirds rule, round proposer, vote book (operators) | through the modules below |
| `VoteManager` | both vote managers, which share their logic | `MCVoteManager` |
| `VoteManagerProofs` | proofs about `VoteManager` | TLAPS |
| `Pacemaker` | the main loop of every member, the draft map, the network | `MCPacemaker`, `MCPacemakerFork` |
| `PacemakerLemmas` | branches and majorities, the inductive invariant, and what the steps within a handler do to it | TLAPS |
| `PacemakerProofs` | the handlers, and the theorems about `Pacemaker` | TLAPS |
| `IncomingQueue` | from the network to the main loop: AddIncoming, the queue, its cache and mutex | `MCIncomingQueue` |
| `IncomingQueueProofs` | proofs about `IncomingQueue` | TLAPS |
| `TxFlow` | transactions: pool, wash, proposals, the executor's cache, commit | `MCTxFlow` |
| `TxFlowProofs` | proofs about `TxFlow` | TLAPS |
| `BlockSync` | a download, the peer that answers it, and the main loop that commits beside it | directly |
| `BlockSyncProofs` | proofs about `BlockSync` | TLAPS |
| `ChainStore` | the chain store with stops and failed writes | `MCChainStore` |
| `ChainFork` | buildFork, on top of `ChainStore` | `MCChainStore` |
| `ChainStoreProofs` | proofs about `ChainStore` and `ChainFork` | TLAPS |
| `CommitFlow` | Update, OnCommit, CommitBlock, ApplyBlock, Handshake on top of `ChainStore` | `MCCommitFlow` |
| `CommitFlowProofs` | proofs about `CommitFlow`: index, refinement, execution and transaction lookup | TLAPS |
| `DecidedLog` | abstract: an append-only log of decided blocks | refined by `CommitFlow` |
| `ChainLock` | the read-write lock of the chain | directly |

Definitions marked "Mutant" are wrong variants of the definition that follows
them. Put in its place, each makes the property it is listed with fail.

### VoteManager

`votes`, `sealed` are the two maps of a manager. `Cast` records who signed what
(history only), `CollectVote` is AddQCVote or AddTCVote with the AddVote it calls,
`NewManagers` the replacement of both managers by NewEpochState. A key is a round
and block id, or an epoch and round. Signatures are unforgeable: a vote can only
be collected after it was cast.

### Pacemaker

One record per member with a field per field of `Pacemaker` (listed in the module
header). One action per event of `mainLoop`; each runs the whole handler:

| Action | Code |
|---|---|
| OnReceiveProposal, ProposalTooEarly | OnReceiveProposal; the second is its early return with a query |
| OnReceiveVote, OnReceiveTimeout, OnReceiveQuery | the handlers of these names |
| OnBeat | OnBeat, OnPropose, CreateLeaf |
| OnBroadcastProposal | the delayed broadcast of curProposal |
| TimerFires, OnRoundTimeout | the round timer, and its event in `mainLoop` |
| Restart | stop and Start with Regulate |

Abstractions: hashes are injective, signatures unforgeable, members follow the
code (some may be down). A block is the sequence of marks of its ancestors and
itself, so its ancestors (`Ancestors`) are the prefixes of the sequence and the loops over
parents in the code are sets of them; the loop of OnCommit over the decided blocks is
written as what it leaves (`CommitBlocks`). Transactions are left out, so ValidateProposal accepts. A message is
handled at most once by a process, as the cache of the incoming queue enforces
(`IncomingQueue`); loss is a message that is never delivered. `setup` is the system that
a behaviour is about: whether rounds start at 0 or 1, and which members are down.
`calcNewValidatorSet` answers nil on every path, so there is one committee. A nil
dereference in a handler stops the process (`Panic`).

### ChainStore, CommitFlow, DecidedLog

The database is six variables, one per key prefix or key; memory is the best block
and the phase of the process. A batch is written as a whole or not at all.
Initialize is split at its writes, so the process may stop between them.
CommitFlow adds the application (external: the sequence of blocks it executed) and
the steps of OnCommit, between which the process may stop. `AppKeeps` says whether
the application persists what it executes in FinalizeBlock (as `sample_app.go`) or
only in Commit, which the engine never calls. Any block may be decided, also one on
another branch than the chain: the pacemaker does not exclude it (below).

`CommitFlow` implements `DecidedLog` under the mapping that reads the log through the
number index, as GetTrunkBlock does. `ChainFork` translates buildFork, which AddBlock
calls for a new best block, as a walk over stored parents: `Turn` is a turn of the loop,
`Below` the heads it goes on with, `forkFrom` the loop.

### IncomingQueue

A copy is one delivery of a message; `at` says where it is: in AddIncoming before each
of its three reads of the epoch, at a timer, waiting for the mutex, in the loop that
makes room, in the channel, gone. Subscriber, timers and main loop interleave. An adder
receives from and sends to the channel with the mutex held, the main loop receives
without it. `first`, `accepted` and `taken` are history.

The model shows a wait the code can get into: an adder sees the queue full, the main
loop then takes every message, and the adder waits on the empty queue with the mutex
held; no other adder can send, so nothing ends the wait (`Stuck`). It takes a whole
queue of 1024 messages handled between a test and the receive that follows it, which
is what `DropWaitsOnlyAfterDrain` says, and the liveness properties are stated up to it.

AddIncoming reads the epoch three times, and the main loop may enter an epoch in between:
a message that is early when its signature would be checked may be of the present epoch
when it is put into the queue. `AcceptedWasChecked` is what holds all the same. No second
epoch starts at present.

### TxFlow

One member; the other members are the environment and propose anything. Beside the main
loop run callers of add, split at the insertion (`InsertTx`) and at the count of the
addition (`CountTx`), and the housekeeping: a tick on a chain that is not synced notes the
new head and does nothing else (`SkipWash`); on a synced one, a wash that is due resets the
count (`WashStart`), copies the pool (`CopyPool`), and removes and publishes (`WashEnd`). A
wash may run out of time: `execs.left` is what it left unvisited. Which ticks find the chain
synced depends on the clock, and the model allows either. ApplyBlock and AddBlock are two
steps. `from` and `done` in a block of this member are history: the best block when the wash
of its snapshot copied the pool, and when the block was made; an empty block carries none.
A proposal of this member waits for its votes or times out; a foreign one appears when it is
accepted, for until then it touches neither pool nor cache. `scope` holds the sizes of the
pool and the bounds of a behaviour.

What it shows of the code: the snapshot keeps a committed transaction until the next
wash, up to a second later, while its entry in the executor's cache is already deleted,
so a member may propose it again and it may be committed a second time. The commit of
one block with the transaction deletes the entry that a second, pending block with it
has left, so it may even be repeated while its own repetition is pending, where the voters
have committed more than the proposer knows of. `RepeatedOnlyFromStaleSnapshot` says
that these are the only ways. A proposer does not look at the drafts of others, so its
proposal may hold a transaction of a pending block, and the voters refuse it.

Housekeeping passes a transaction over in three ways, until a later wash: the new head is
noted by a tick that finds the chain not synced and so asks for no wash any more
(`tx_pool.go:99-106`); the wash runs out of time before the transaction
(`tx_pool.go:333-336`); or the transaction is added to a pool of 200 or more, where an
addition asks for no wash (`tx_pool.go:116`). A committed transaction may then stay in the
pool or the snapshot, and a new one out of it, until the next block. `Overlooked` is
exactly this, `SettledLeavesPool` says that there is no fourth way, and without any one
of the three it is violated. Left out: restarts, which empty the pool, and the branch of wash
for an error of the seeker, which never has one.

### BlockSync

The peer puts an answer together in several locked reads (`Serve...`) while it adds
blocks; the downloader and the consumer of `download` share `blockCh` and `errCh`; the
consumer and the main loop both run CommitBlock, split at its steps. `Outcomes` says
what decoding an answer may give. In the code it is always an error: `client.go:131`
decodes into a slice that is not a pointer, and the RLP decoder at `client.go:65` is given
the answer in the SSZ envelope that `rpc.go:86-91` writes. So no block is ever
downloaded; the run allows both outcomes, and so covers the code as it is and with the
decoding corrected in both places. When the two callers of CommitBlock overlap, a block may be executed
twice, and `lastCommitted` may be set back by one block for a moment; the chain itself is
kept in order by AddBlock. The stop of the node is left out.

## What the runs show

Passing:

| Run | Instance | Shows |
|---|---|---|
| `vote_manager` | 4 members, 2 keys, one replacement of the managers | certificates are backed by votes that were cast, unique per key, made of the recorded votes, and any two share a third of the committee |
| `pacemaker_async` | 2 live members of 3, 5 rounds, 5 timeouts, all interleavings and orders of delivery | certificates and timeout certificates are backed by messages, one proposal per process and round, a quorum has brought the chain to the round of a proposal, only a block with a certified child is committed, blocks of two branches are certified only if a third of the committee voted for two blocks of one height, QCHigh never goes back |
| `pacemaker_restart` | 2 members, 4 rounds, a restart anywhere | certificates and commits stay backed although the restarted member votes and proposes again in old rounds, and what it has committed is only ever extended |
| `pacemaker_live` | 3 members, any one down or none, rounds from 0 or 1, 8 rounds, partial synchrony | every running member commits; with one down, through timeout certificates and the last votes in timeout messages |
| `incoming_queue` | deliveries of messages of two epochs, repeated and early ones among them, a queue that overflows | a sender finds room, messages are first seen in the order of their acceptance, a repetition is refused while cached, what is accepted was checked and is seen or dropped by the overflow, an early message is considered again |
| `tx_flow` | 1 transaction and 5 blocks; 2 transactions and 2 blocks, over the limit of the pool, or within it and in a pool that is not small | no addition is forgotten wherever it falls into a wash, a transaction is repeated only out of a stale snapshot, the cache holds none back for ever, settled ones leave the pool but for the three ways in which housekeeping passes them over |
| `block_sync` | 2 downloads of 3 blocks, answers of 2, a stream of 1 | execution is in order unless the callers overlap and once per caller even then, the certificate is never older than its block, every download returns |
| `chain_store` | a tree with 2 siblings per number, 3 numbers, a stop, a failed write | the database can always be opened again, parents are stored, the best block depends on the stored blocks only and never goes back, the fork reported for a new best block is exact |
| `commit_flow` | the same tree, a stop, a failure, 4 executions | number index and tx lookup are exact, a stored block was executed, execution is in order and once while nothing fails, readers see an append-only log |

Violated, each a disagreement of the code with what a comment or document says
(quoted in `PROJECT.json`, "findings"):

- `pacemaker_fork`: members commit different blocks at height 1. The vote rule
  compares heights and asks for an extension of lastCommitted; nothing keeps a
  member on a branch with a certified block. Members 1 and 2 vote for b1 and b2
  (rounds 1, 2), timeouts lead to c1 on the genesis (round 3), the last votes in
  timeout messages certify b2 at one member, which commits b1, while c1 and c2 get
  their certificates and another member commits c1. `MCPacemakerFork` keeps from
  `Next` only the timers and deliveries of this schedule, since three members with
  eight timeouts cannot be explored in full; every behaviour of it is one of `Spec`.
- `commit_flow_handshake`: ReplayBlocks reads the best block before Initialize has
  loaded it and replays nothing.
- `chain_lock`: GetTrunkBlock takes the read lock twice; an AddBlock that arrives in
  between and the reader wait for each other.

Three more things the models show that no run is spent on. A proposer may combine the
beat of one branch with a QCHigh of another, and make a proposal that every member refuses
(`pacemaker.go:334`, a round that is not the parent's plus one needs a timeout
certificate). Three members and seven timeouts are enough: a1 and a2 (rounds 1, 2) are
voted for, then c1 on the genesis (round 3); its certificate gives the proposer of round 4
its beat; before the beat is handled, two timeout messages of different rounds bring last
votes that certify a2, which is higher, so the block of round 4 is put on a2, of round 2,
without a timeout certificate. Members move on by the next timeout. `RoundsJustified` is
what does hold of a proposal. A certificate of the height
of QCHigh and a later round, brought by a timeout message, replaces QCHigh although its
block is unknown; QCHigh.QCNode is then nil (`qcNode` in `Pacemaker`), where
`block/draft_qc.go:7` has it match the certificate. And AddBlock replaces the best block
in memory before the batch is written and keeps it when the write fails
(`AddBlockFails` in `ChainStore`): until the next start the best block is one the
database does not hold, and its children find no parent.

TrunkIndexed holds of the commit path only because CommitBlock refuses a block not
above the best one: AddBlock itself writes the number index for side blocks too.

### Bounds

Rounds, timeouts, restarts, numbers, stops, failures, executions and requests are
bounded by constants named in the modules. Five rounds and five timeouts let a
branch be abandoned and another one be certified and committed. A restart in
`pacemaker_restart` may come before or after every vote of the two-member
committee. Three numbers let one certificate decide several blocks, and two
siblings per number let branches compete. The queue and its cache are small enough to
overflow and to evict. A pool limit of 1 with two transactions makes wash trim, and with a
limit of 2 a pool of two is within the limit and no longer small (`small` stands for the 200
of the code); five blocks let a transaction be committed, repeated, and repeated again while the first
repetition is pending (with four, the last clause of `RepeatedOnlyFromStaleSnapshot` is
never needed). In `block_sync` three blocks take two answers, the stream is shorter than
an answer, and a second download starts where the first one failed. Runs switch the
deadlock check off where the bounds let every process finish.

### Fairness

`SyncSpec` assumes partial synchrony: a round timer fires only when no member has
an event to handle, and only at a member at most one round ahead of the others.
This is what the timer is for: its interval is seconds and doubles with every
timeout. Weak fairness of `SyncNext` says that the processes run. `ChainLock`
assumes that the scheduler runs every goroutine that can run, and that
sync.RWMutex starves neither side. `IncomingQueue` assumes that goroutines run, timers fire
and a waiter of the mutex gets its turn, as Go's mutex hands itself to one that starves;
nothing is assumed of deliveries. `TxFlow` assumes that a caller of add gets from the
insertion to the count (the feed it sends to is drained by the main loop), that a wash which
stays due is begun by a tick that finds the chain synced, and that a wash finishes; ticks on
a chain that is not synced may come at any time between. `BlockSync` assumes that the
goroutines of a download run and that the peer answers or the request fails; nothing is
assumed of the main loop. `client.go:61` sets no deadline, so a peer that hangs, as `chain_lock`
shows a handler can, is outside this assumption, and so outside `DownloadEnds`.

## What is proved

`VoteManagerProofs`, for every committee size, set of keys and number of
replacements of the managers:

- `CertificatesAreBacked`, `CertificatesAreUnique`, `SealsAreExact`,
  `CertificatesIntersect`: the four invariants of `vote_manager`;
- `TypeCorrect`: the types of its state.

The assumption is that the committee is not empty (`CommitteeNotEmpty`) and the
bound on replacements a natural number. The inductive invariant `IInv` adds
`RecordMatchesHistory` to the properties: a recorded vote was cast (without it a
certificate made of recorded votes need not be backed), a certificate of the
present manager has its key sealed (without it a second certificate could be made),
and no certificate is of a later manager. That two majorities share a third of the
committee is `MajoritiesIntersect`, from the cardinality of a union and the
rounding of two thirds.

`PacemakerProofs`, for every committee, every number of rounds, timeouts and restarts, any
members down, and messages delayed, lost and reordered in any way:

- `CertificatesAreBacked`, `TimeoutCertificatesAreBacked`, `CommittedHasChild`,
  `RoundsAreJustified`, `ProposesOncePerRound`, `ForksNeedDoubleVotes`: the six invariants of
  `pacemaker_async`, two of which `pacemaker_restart` checks too;
- `QCHighNeverGoesBack`, `CommittedStays`: the action properties of the two runs;
- `TypeCorrect`: the types of members and messages;
- `DisagreementNeedsDoubleVotes`, `QuietAgreement`: what is left of agreement.

They rest on `PacemakerInvariant`, from the assumptions that the committee is not empty
(`CommitteeNotEmpty`) and that the bounds are natural numbers and a setup names members of
the committee (`PacemakerBounds`). None of
the invariants is inductive, for each speaks of what members hold and a handler makes it out
of what they have recorded. `PInv` therefore follows a certificate all the way:

- `Backed`: every message stands on earlier ones. A vote is for a block that was proposed, a
  timeout message carries a certified QCHigh and a last vote that was cast, a proposal has a
  certified parent, a timeout certificate that two thirds asked for, and a round that a
  quorum has brought the chain to (`RoundBacked`);
- `NodeBacked`: the same of a member's state. Recorded votes were cast, so that a vote book
  which reaches two thirds makes a certificate that is backed; QCHigh and the last block
  committed are certified, the latter with a certified child; the beat that is
  scheduled is backed for the QCHigh it will meet (`BeatBacked`), which stays true when QCHigh
  is replaced because QCHigh only rises;
- `Stamped`, `Unique`: a proposal that was sent or is about to be sent carries a mark of
  its proposer that is not above the last round with a beat in the same process, so a later
  beat makes a new mark, and the delayed broadcast sends no second block with an old one.

For `TypeOK`, `Tidy` says that the marks in the draft map are of drafts it has, and `Counted`
types what is outside the members.

The messages only grow, and everything above is monotone in them (`BackedGrows`), so a
handler's proof is about the one member that takes the step: `PacemakerLemmas` has one
lemma for each part of a handler (UpdateQCHigh, Update with OnCommit, AddQCVote, AddTCVote,
enterRound, Regulate), and each handler is put together from them.

`Agreement` does not hold (`pacemaker_fork`); three theorems say how far the code is from it.
`CommittedStays`: a member never gives up what it has committed, whichever branch the next
certificate is of: the loop of Update stops at the height of lastCommitted, and AddBlock
refuses what does not stand on a stored block. `ForksNeedDoubleVotes`:
where two branches part, both blocks above that point are certified, since a certified block
has a certified parent (`AncestorsCertified`), and their two majorities share a third of
the committee (`MajoritiesMeet`). As members only sign what OnReceiveProposal lets them, the
fork is due to its vote rule (`pacemaker.go:366`) and to nothing else in the certificates'
ways; `DisagreementNeedsDoubleVotes` says the same of what two members have committed.
`QuietAgreement`: as long as no round timer has fired and no process was restarted, the
certified blocks form one branch and members agree, in any order of delivery. Its invariant
`QuietInv` says that the height of a block is then its round (`OnTrack`), so the one proposal
of a round is the only block of its height, because a beat is for the round after a
certified block that is not above QCHigh (`BeatOnTrack`).

`ChainStoreProofs`, for every set of marks and every bound on block
numbers, stops and failed writes, with AddBlock given any blocks in any order:

- `StoreClosed`, `StoreValidatorSets`, `StoreBest`, `StoreForkExact`: the four invariants of
  `chain_store`;
- `StoreNeverGoesBack`: its action property.

They rest on `StoreInvariant`. `BestIsPreferred` only speaks of a running process without
failed writes, and neither it nor `BestNeverGoesBack` is inductive: a start loads what is
on disk, and after a failed write the best block in memory is one the database does not
have. `BestOnDisk` says that best block and certificate on disk always name the same stored
block, that the best block in memory never does worse than it (so what isTrunk prefers to
the one it prefers to the other), and that without failed writes they are one.
The comparison of isTrunk is a preorder (`ReplacesFacts`) because ids of one number
are ordered (`IdOrder`).

`StoreForkExact` is about a loop, and takes an induction. `ForkOf` says what the walk should
answer for any two heads: the fork at their longest common prefix if all the parents between
are stored, else an error. A turn of the loop computes `ForkOf` of two heads from `ForkOf` of
the heads below (`ForkTurn`); so there is a function that satisfies the equation of `forkFrom`,
and `forkFrom`, being chosen among those, satisfies it too (`ForkEquation`). The two then
agree everywhere (`ForkFrom`): among pairs of heads where they differ there would be one with
the least sum of numbers (`LeastNumber`, from the well-foundedness of the naturals), and there
they agree by a turn. That the parents are stored is `BestBacked`: even if the write
of the best block failed, its parent is stored.

`CommitFlowProofs`, for every set of marks and transactions, every bound on block
numbers, stops and failures, and both kinds of application:

- `FlowTrunkIndexed`: an invariant of `commit_flow`, and `FlowTypeOK`, the types of its state;
- `FlowImplementsLog`: `CommitFlow` implements `DecidedLog`, the refinement that
  `commit_flow` checks as `ReadersSeeLog`.

They rest on `FlowInvariant`. `TrunkIndexed` alone is not inductive: AddBlock
overwrites the index entry of a number without looking at what is there, so a
side block would destroy it. `IInv` (end of `CommitFlow.tla`) says why there are no side
blocks on this path: the blocks stored are exactly the ancestors of the best one on
disk (`StoredUpTo`), the best block in memory is not below it, not even after a failed
write, and a block handed to AddBlock is above the best one (`AppliedAbove`), for
CommitBlock answers errKnownBlock otherwise. A block above the best one whose parent is
stored is then the child of the best block on disk (`AcceptedIsChild`), and its batch
extends the branch (`BatchExtends`). Through the mapping, that is one Append to the
log; every other step leaves it as it is. On `ChainStore` alone, where AddBlock takes
any block, `TrunkIndexed` does not hold.

On top of that invariant and from the same assumptions:

- `FlowStoredWasExecuted`, `FlowTxLookupExact`, `FlowAppFollowsChain`: the other three
  invariants of `commit_flow`.

The first two rest on `ExecutionInvariant`: a block between ApplyBlock and AddBlock was
executed (`AppliedExecuted`), and the transaction entries are those of the stored blocks and
no others (`MetaExact`), which with the index make the lookup exact. `AppFollowsChain` needs
`InStep`: while nothing stops or fails, memory, database and pacemaker agree on the
best block, and what OnCommit still has to commit are successive blocks which, if they
extend the best block, start right above it (`ReadyUpTo`); a certified branch that leaves
it shows in what the application executed, which the property excludes.

`IncomingQueueProofs`, for every capacity, cache size, set of messages and deliveries and
number of epochs:

- `SenderFindsRoom`, `DropWaits`, `SeenInOrder`, `AcceptedOnce` and `AcceptedChecked`: the
  five invariants of `incoming_queue`.

The first two rest on `QueueInvariant`. `SendHasRoom` is not inductive: another adder could
fill the queue after the test. `Exclusive` says that one adder holds the mutex, and
`DropAccount` that since the adder in "drop" saw the queue full, the messages taken and the
messages left add up to the capacity: only then is a queue found empty a queue
taken whole.

`SeenInOrder` needs `OrderInv`. `Placed` ties where a delivery stands to what holds
it: a delivery before Add is not yet in `accepted`, one at the timer after the main loop has
handed it back is already in `first`, one in the channel is there once. `Ordered` says
that what the channel holds for the first time is in the order of `accepted` and behind all
of `first`, and that the delivery of the adder which holds the mutex was accepted after
them; without the mutex, an adder could be overtaken between Add and the send.
`AcceptedOnce` needs `CacheInv`: the cache is the hashes of the latest deliveries accepted, as
many as it holds or all of them, and no two of them are equal, so a message that is not in
it was followed by a whole cache of others. `AcceptedChecked` needs `CheckInv`: between the
signature check and the test of the epoch the check holds for the first epoch only as long
as this is the present one, and it is the test that makes it final.

`TxFlowProofs`, for every finite set of transactions, limit of the pool, bound of a small
pool and number of blocks:

- `AdditionsRemembered`, `CacheHoldsPending`, `RepeatsAreStale`: the three invariants of
  `tx_flow`.

`AdditionsRemembered` rests on `Remembered`: while a wash runs on its copy, a transaction of
the pool outside the copy was inserted after it, so after the reset of the count, and is or
will be counted, which is what makes the snapshot, what was left and the count account for
the whole pool when the wash ends. The others rest on `TxFlowInvariant`. `RepeatedOnlyFromStaleSnapshot` speaks of accepted blocks
and is not inductive: a proposal that is made but not yet accepted has to satisfy it
already. `Repeats` says so of proposals and blocks alike, and `PendingCached` why
it holds when a proposal is made: a transaction of a block of this member that is not
committed is in the cache, unless a block with it was committed since.

`BlockSyncProofs`, for every number of blocks and downloads and every size of an answer
and of the stream:

- `CertificatesHold`, `OncePerCaller`, `ExecutedInOrder`: the three invariants of
  `block_sync`.

They rest on `SyncInvariant`. `Escorted` follows certificates from the peer's answer
through batch and stream to the commit: the peer's best block cannot go back
between its two reads. `InReach` and `LoopInOrder` bound a block under way by one above
the best block, though the best block moves after it was compared; for the main loop
this is because the blocks of `ready` are successive and a block that fails is
in the chain already. `Executed` then says that an executed block is in the chain or its
caller stands before AddBlock with it, which is why CommitBlock's comparison keeps a
caller from executing it again. `Alone` is the same for callers that do not overlap, with
the order.

The types (`TypeOK`) are proved in every one of these modules, so no run repeats them.

Every invariant and action property of the passing runs is proved. Only model-checked are the
liveness properties (`EveryoneCommits`, `AcceptedIsSeenOrDropped`, `EarlyMessageReconsidered`,
`SettledLeavesPool`, `DownloadEnds`), since liveness under fairness is outside the prover's
reach. The library's induction theorems are too, for they take an operator as a parameter; where
a proof needs induction (branches of the pacemaker, the walk of buildFork) it argues from a
least counterexample with `LeastNumber`.

## Not modelled

See "components" in `PROJECT.json` for each part with its reason. In short:

- cryptography, encodings, libp2p, HTTP, logging, generated code and the wiring in
  `main.go` and `node.go`: no protocol state of their own;
- code that no running path reaches: the earlier communicator (`libs/comm`), announcements
  (nobody subscribes to their feed), housekeeping of future blocks (its channel is never
  written to) with its cache, the tx stash, the block reader, the peer status handlers
  (registered only in tests), the timers and maps of `libs/common`;
- a change of the committee: `calcNewValidatorSet` answers nil on every path, so the
  validator set registry and pending epoch states stay empty. `VoteManager` and
  `IncomingQueue` do model what a next epoch would do to them.
