----------------------------- MODULE CommitFlow -----------------------------
(***************************************************************************)
(* How a decided block reaches the application and the chain store:        *)
(* Update collects the blocks to commit, OnCommit takes them one after the *)
(* other, CommitBlock has the application execute the block (ApplyBlock)   *)
(* and then adds it to the chain (AddBlock).  The process may stop between *)
(* the two, and either may fail.  At the next start Handshake is to bring  *)
(* the application back to the chain.                                      *)
(*                                                                         *)
(* The application is external.  AppKeeps says what survives a stop of the *)
(* process: TRUE for an application that persists in FinalizeBlock, as     *)
(* sample_app.go does; FALSE for one that persists in Commit, which the    *)
(* engine never calls.                                                     *)
(***************************************************************************)
EXTENDS ChainStore

CONSTANTS
    AppKeeps,
    MaxExecuted   \* bound: executions of blocks by the application

ASSUME FlowConstants == AppKeeps \in BOOLEAN /\ MaxExecuted \in Nat

VARIABLES
    app,            \* the blocks the application has executed, in order
    ready,          \* commitReady: the blocks OnCommit still has to commit
    applied,        \* the block between ApplyBlock and AddBlock, as a set
    lastCommitted

flowVars == <<app, ready, applied, lastCommitted>>
vars == <<storeVars, flowVars>>

Ancestors(b) == [k \in 1 .. Number(b) |-> SubSeq(b, 1, k)]

-----------------------------------------------------------------------------
\* Handshake calls Initialize; the best block was read before it, is nil, and
\* counts as height 0, so the switch in ReplayBlocks leaves at its first case
\* and nothing is replayed.  Regulate then starts from the best block.
Handshake ==
    /\ Initialize
    /\ lastCommitted' = best'
    /\ UNCHANGED <<app, ready, applied>>

\* Mutant: the blocks up to the certified one come in descending order.
CommitReadyDown(b) ==
    [k \in 1 .. Number(b) - Number(lastCommitted) |-> SubSeq(b, 1, Number(b) - k + 1)]

CommitReady(b) ==
    [k \in 1 .. Number(b) - Number(lastCommitted) |-> SubSeq(b, 1, Number(lastCommitted) + k)]

\* A child of b is certified.
Update(b) ==
    /\ phase = "up" /\ ready = << >>
    /\ Number(b) > Number(lastCommitted)
    /\ ready' = CommitReady(b)
    /\ UNCHANGED <<storeVars, app, applied, lastCommitted>>

\* CommitBlock answers errKnownBlock.
SkipKnown ==
    /\ phase = "up" /\ ready # << >> /\ applied = {}
    /\ IsBlockFinalized(Head(ready))
    /\ ready' = Tail(ready)
    /\ UNCHANGED <<storeVars, app, applied, lastCommitted>>

\* The block was not accepted as a proposal, or the application fails, or the
\* parent is neither stored nor a draft: OnCommit goes on with the next block.
SkipFailed ==
    /\ phase = "up" /\ ready # << >> /\ applied = {}
    /\ \/ failures < MaxFailures /\ failures' = failures + 1
       \/ ParentID(Head(ready)) \notin raw /\ UNCHANGED failures
    /\ ready' = Tail(ready)
    /\ UNCHANGED <<disk, memory, crashes, app, applied, lastCommitted>>

\* Mutant: the application is not asked.
ApplyBlockLater ==
    /\ phase = "up" /\ ready # << >> /\ applied = {}
    /\ ~ IsBlockFinalized(Head(ready))
    /\ applied' = {Head(ready)}
    /\ UNCHANGED <<storeVars, app, ready, lastCommitted>>

ApplyBlock ==
    /\ phase = "up" /\ ready # << >> /\ applied = {}
    /\ ~ IsBlockFinalized(Head(ready))
    /\ Len(app) < MaxExecuted
    /\ app' = Append(app, Head(ready))
    /\ applied' = {Head(ready)}
    /\ UNCHANGED <<storeVars, ready, lastCommitted>>

\* AddBlock succeeds, fails to write, or refuses the block.  A block that
\* leaves a branch behind is reported as a fork and not as last committed.
CommitBlock(b) ==
    /\ b \in applied
    /\ \/ /\ AddBlock(b)
          /\ lastCommitted' = IF isTrunk(b) /\ IsPrefix(best, b) THEN b ELSE lastCommitted
       \/ /\ AddBlockFails(b)
          /\ UNCHANGED lastCommitted
       \/ /\ phase = "up" /\ ~ Accepts(b)
          /\ UNCHANGED <<storeVars, lastCommitted>>
    /\ applied' = {}
    /\ ready' = Tail(ready)
    /\ UNCHANGED app

Stop ==
    /\ Crash
    /\ app' = IF AppKeeps THEN app ELSE << >>
    /\ ready' = << >> /\ applied' = {}
    /\ lastCommitted' = Genesis

-----------------------------------------------------------------------------
Init ==
    /\ StoreInit
    /\ app = << >> /\ ready = << >> /\ applied = {} /\ lastCommitted = Genesis

Next ==
    \/ Handshake
    \/ \E b \in Block : Update(b) \/ CommitBlock(b)
    \/ SkipKnown \/ SkipFailed \/ ApplyBlock
    \/ Stop

Spec == Init /\ [][Next]_vars

-----------------------------------------------------------------------------
(* Properties                                                               *)

TypeOK ==
    /\ StoreTypeOK
    /\ app \in Seq(Block) /\ ready \in Seq(Block)
    /\ applied \subseteq Block
    /\ lastCommitted \in Block

\* A transaction lookup answers the blocks of the trunk that hold the
\* transaction, all of them and no other (getTransactionMeta).
TxLookupExact ==
    \A b \in bestKey, t \in Tx :
        TransactionBlocks(t) = {c \in Range(Ancestors(b)) : t \in BlockTxs(c)}

\* Stops and failed writes included, no block is in the database that the
\* application has not executed: ApplyBlock comes before AddBlock, and a block
\* whose execution failed is not skipped over, for its child finds no parent.
StoredWasExecuted == AppKeeps => raw \subseteq Range(app) \cup {Genesis}

\* As long as nothing stops or fails and the certified blocks are of one branch,
\* the application executes the blocks of the chain in order, each once,
\* however many of them one certificate decides (OnCommit, CommitBlock).
AppFollowsChain ==
    /\ crashes = 0 /\ failures = 0 /\ phase = "up"
    /\ \A b, c \in Range(app) : IsPrefix(b, c) \/ IsPrefix(c, b)
    =>
        \/ applied = {} /\ app = Ancestors(best)
        \/ \E b \in applied : app = Append(Ancestors(best), b)

\* After Handshake and between commits the application has executed exactly
\* the blocks of the chain ("LoragonBFT and App are synced").
AppSynced == phase = "up" /\ ready = << >> => app = Ancestors(best)

\* The log a reader gets through the number index up to the best block.
IndexedLog ==
    [k \in 1 .. (IF bestKey = {} THEN 0 ELSE Number(CHOOSE b \in bestKey : TRUE)) |-> Last(hash[k])]

D == INSTANCE DecidedLog WITH trunk <- IndexedLog

\* The database is an append-only log to its readers: no stop, failed write or
\* certified branch removes, replaces or skips a block they have seen.
ReadersSeeLog == D!Spec

-----------------------------------------------------------------------------
(* The strengthening that makes TrunkIndexed inductive                      *)

\* The database holds d as the best block with its certificate, exactly the
\* ancestors of d, and the index to them.
StoredUpTo(d) ==
    /\ bestKey = {d} /\ qcKey = {d}
    /\ raw = {SubSeq(d, 1, k) : k \in 0 .. Number(d)}
    /\ hash = [k \in 0 .. Number(d) |-> SubSeq(d, 1, k)]

\* The database is empty or holds one branch, and the best block in memory is
\* not below the one on disk.
StoredIsTrunk ==
    \/ bestKey = {} /\ qcKey = {} /\ raw = {} /\ DOMAIN hash = {} /\ phase # "up"
    \/ \E d \in Block : StoredUpTo(d) /\ (phase = "up" => Number(best) >= Number(d))

\* Until it is added, a block that was executed is above the best block, and
\* OnCommit has not moved on from it.
AppliedAbove == \A b \in applied : phase = "up" /\ ready # << >> /\ Number(b) > Number(best)

IInv == TypeOK /\ StoredIsTrunk /\ AppliedAbove
=============================================================================
