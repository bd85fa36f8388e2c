------------------------------- MODULE TxFlow -------------------------------
(***************************************************************************)
(* The way of a transaction through a member: into the pool (TxPool.add),  *)
(* into the snapshot of executable transactions that the housekeeping      *)
(* goroutine publishes (wash), into a proposal (PrepareProposal, which     *)
(* keeps a cache of what this member has proposed), past the voters        *)
(* (ValidateProposal), into a committed block (applyBlock, AddBlock), and  *)
(* out of the pool again.                                                  *)
(*                                                                         *)
(* Callers of add, the housekeeping goroutine and the main loop interleave.*)
(* The other members are the environment: they propose any transactions.   *)
(* The accepted blocks are one branch: forks are the subject of Pacemaker. *)
(* The application is external: it proposes what it is given and accepts   *)
(* every proposal, as sample_app.go does.                                  *)
(***************************************************************************)
EXTENDS Integers, FiniteSetsExt, SequencesExt

CONSTANTS
    Tx,
    Watched,      \* transactions that SettledLeavesPool follows: all are treated alike
    Scopes        \* the sizes of the pool, and bounds: the transactions in use and the
                  \* number of accepted blocks

ASSUME TxFlowConstants ==
    /\ IsFiniteSet(Tx) /\ Watched \subseteq Tx
    /\ Scopes \subseteq [txs : SUBSET Tx, blocks : Nat, limit : Nat \ {0}, small : Nat]

VARIABLES
    scope,      \* the sizes and bounds of a behaviour
    blocks,     \* the accepted blocks, oldest first
    proposal,   \* this member's proposal of the round, as a set
    pool,       \* p.all
    checked,    \* transactions that passed the checks of add and are not in the pool yet
    counting,   \* transactions in the pool whose addition is not counted yet
    added,      \* addedAfterWash > 0
    head,       \* the number of headBlock in housekeeping
    washing,    \* the step of the running wash
    all,        \* the copy of the pool that the wash works on
    from,       \* the number of the best block when the copy was made
    execs,      \* executables, from of their wash, and what it left unvisited
    txCache,    \* the height for which this member proposed the transaction, 0 if not cached
    applied,    \* the number of the last block the application has executed
    best        \* the number of the best block

poolVars == <<pool, checked, counting, added>>
washVars == <<head, washing, all, from, execs>>
vars == <<scope, blocks, proposal, poolVars, washVars, txCache, applied, best>>

\* options.Limit of the pool
Limit == scope.limit

\* A pool below this size is washed after an addition.
SmallPool == scope.small

TxsOf(k, m) == UNION {blocks[i].txs : i \in k .. m}

\* HasTransactionMeta
Known == TxsOf(1, best)

Executable(t) == t \notin Known

-----------------------------------------------------------------------------
(* The pool                                                                 *)

\* add, up to the insertion.  A chain whose head is old counts as not synced:
\* then only the size of the pool is tested.
CheckTx(t) ==
    /\ t \notin pool \cup checked
    /\ Executable(t) \/ Cardinality(pool) < Limit
    /\ checked' = checked \cup {t}
    /\ UNCHANGED <<scope, blocks, proposal, pool, counting, added, washVars, txCache, applied, best>>

\* all.Add
InsertTx(t) ==
    /\ t \in checked
    /\ pool' = pool \cup {t}
    /\ checked' = checked \ {t}
    /\ counting' = counting \cup {t}
    /\ UNCHANGED <<scope, blocks, proposal, added, washVars, txCache, applied, best>>

\* The rest of add, up to the count of the addition.
CountTx(t) ==
    /\ t \in counting
    /\ counting' = counting \ {t}
    /\ added' = TRUE
    /\ UNCHANGED <<scope, blocks, proposal, pool, checked, washVars, txCache, applied, best>>

\* A tick of housekeeping on a chain that is not synced: the new head is noted
\* and nothing is washed.
SkipWash ==
    /\ washing = "no" /\ best # head
    /\ head' = best
    /\ UNCHANGED <<scope, blocks, proposal, poolVars, washing, all, from, execs, txCache, applied, best>>

\* Mutant: an addition to a small pool asks for no wash.
WashDueByHead == best # head \/ Cardinality(pool) > Limit

WashDue ==
    \/ best # head
    \/ Cardinality(pool) > Limit
    \/ Cardinality(pool) < SmallPool /\ added

\* A tick on a synced chain: decide to wash, and count additions anew.
WashStart ==
    /\ washing = "no" /\ WashDue
    /\ head' = best
    /\ added' = FALSE
    /\ washing' = "started"
    /\ UNCHANGED <<scope, blocks, proposal, pool, checked, counting, all, from, execs>>
    /\ UNCHANGED <<txCache, applied, best>>

\* ToTxObjects at the beginning of wash.
CopyPool ==
    /\ washing = "started"
    /\ all' = pool /\ from' = best
    /\ washing' = "copied"
    /\ UNCHANGED <<scope, blocks, proposal, poolVars, head, execs, txCache, applied, best>>

\* What the loop of wash may keep: not what was settled when the copy was made,
\* nor what was settled since or is out of its lifetime when the loop comes to it.
Kept == SUBSET (all \ TxsOf(1, from))

\* What the loop may leave unvisited: the time limit is tested after a
\* transaction is kept.
Unvisited(kept) == {u \in SUBSET (all \ kept) : kept = {} => u = {}}

\* Over the limit, transactions are removed; the map yields them in any order.
Trimmed(s) == IF Cardinality(s) > Limit THEN kSubset(Limit, s) ELSE {s}

\* The rest of wash: remove from the pool what was visited and is not kept,
\* publish what is kept.
FinishWash(count) ==
    /\ washing = "copied"
    /\ \E kept \in Kept : \E u \in Unvisited(kept) : \E x \in Trimmed(kept) :
        /\ pool' = pool \ (all \ (x \cup u))
        /\ execs' = [txs |-> x, from |-> from, left |-> u]
    /\ washing' = "no" /\ all' = {} /\ from' = 0
    /\ added' = count
    /\ UNCHANGED <<scope, blocks, proposal, checked, counting, head, txCache, applied, best>>

\* Mutant: additions are counted anew after the wash.
WashEndCountsAnew == FinishWash(FALSE)

WashEnd == FinishWash(added)

-----------------------------------------------------------------------------
(* Proposals                                                                *)

\* Mutant: the cache is not read.
UncachedAll(txs) == txs

Uncached(txs) == {t \in txs : txCache[t] = 0}

Foreign(txs) == [txs |-> txs, mine |-> FALSE, from |-> 0, done |-> 0]

\* A proposal of this member, with its history: the best block's number when
\* the wash of its snapshot began its loop, and now.  An empty one needs none.
Own(txs) == [txs |-> txs, mine |-> TRUE, from |-> execs.from, done |-> best]

\* CreateLeaf: PrepareProposal and buildBlock on the last accepted block, by a
\* member that has handled it, and so has committed its grandparent.
PrepareProposal ==
    /\ proposal = {} /\ Len(blocks) < scope.blocks
    /\ applied = best /\ best + 2 >= Len(blocks)
    /\ LET txs == Uncached(execs.txs)
       IN  /\ proposal' = {IF txs = {} THEN Foreign({}) ELSE Own(txs)}
           /\ txCache' = [t \in Tx |-> IF t \in txs THEN Len(blocks) + 1 ELSE txCache[t]]
    /\ UNCHANGED <<scope, blocks, poolVars, washVars, applied, best>>

\* ValidateProposal of a member that has committed the first c blocks: no
\* transaction of an ancestor that is not committed.
ValidateProposal(p, c) == p.txs \cap TxsOf(c + 1, Len(blocks)) = {}

\* A quorum votes for the proposal.  No member has committed its parent.
Certify(p) ==
    /\ blocks # << >> => \E c \in 0 .. Len(blocks) - 1 : ValidateProposal(p, c)
    /\ blocks' = Append(blocks, p)

\* The votes for this member's proposal.
OnReceiveVotes ==
    /\ \E p \in proposal : Certify(p)
    /\ proposal' = {}
    /\ UNCHANGED <<scope, poolVars, washVars, txCache, applied, best>>

\* Another member proposes and is voted for.  A proposal of theirs that is
\* abandoned leaves this member's pool and cache alone.
OnReceiveProposal(txs) ==
    /\ proposal = {} /\ Len(blocks) < scope.blocks
    /\ Certify(Foreign(txs))
    /\ UNCHANGED <<scope, proposal, poolVars, washVars, txCache, applied, best>>

\* The round times out without a quorum of votes.
RoundTimeout ==
    /\ proposal # {}
    /\ proposal' = {}
    /\ UNCHANGED <<scope, blocks, poolVars, washVars, txCache, applied, best>>

-----------------------------------------------------------------------------
(* The commit of the block whose child is certified                         *)

\* Mutant: only the entries of the block's own transactions are cleared.
ClearedOwn(k) == [t \in Tx |-> IF t \in blocks[k].txs THEN 0 ELSE txCache[t]]

Cleared(k) == [t \in Tx |-> IF txCache[t] <= k \/ t \in blocks[k].txs THEN 0 ELSE txCache[t]]

applyBlock ==
    /\ applied = best /\ applied + 1 < Len(blocks)
    /\ applied' = applied + 1
    /\ txCache' = Cleared(applied')
    /\ pool' = pool \ blocks[applied'].txs
    /\ UNCHANGED <<scope, blocks, proposal, checked, counting, added, washVars, best>>

\* AddBlock: the block and the index of its transactions are written.
AddBlock ==
    /\ best < applied
    /\ best' = applied
    /\ UNCHANGED <<scope, blocks, proposal, poolVars, washVars, txCache, applied>>

-----------------------------------------------------------------------------
Init ==
    /\ scope \in Scopes
    /\ blocks = << >> /\ proposal = {}
    /\ pool = {} /\ checked = {} /\ counting = {} /\ added = FALSE
    /\ head = 0 /\ washing = "no" /\ all = {} /\ from = 0
    /\ execs = [txs |-> {}, from |-> 0, left |-> {}]
    /\ txCache = [t \in Tx |-> 0]
    /\ applied = 0 /\ best = 0

Next ==
    \/ \E t \in scope.txs : CheckTx(t) \/ InsertTx(t) \/ CountTx(t)
    \/ SkipWash \/ WashStart \/ CopyPool \/ WashEnd
    \/ PrepareProposal \/ OnReceiveVotes \/ RoundTimeout
    \/ \E txs \in SUBSET scope.txs : OnReceiveProposal(txs)
    \/ applyBlock \/ AddBlock

Spec == Init /\ [][Next]_vars

\* A caller of add finishes, a wash that stays due is begun by a tick that finds
\* the chain synced, and a wash that is begun is finished.
FairSpec ==
    /\ Spec
    /\ \A t \in Tx : WF_vars(CountTx(t))
    /\ WF_vars(WashStart) /\ WF_vars(CopyPool) /\ WF_vars(WashEnd)

-----------------------------------------------------------------------------
(* Properties                                                               *)

Proposals == [txs : SUBSET Tx, mine : BOOLEAN, from : Nat, done : Nat]

\* Types, the limit of the snapshot, the order of the two steps of a commit, and
\* that a block is committed below its certified child only.
TypeOK ==
    /\ scope \in Scopes
    /\ blocks \in Seq(Proposals) /\ Len(blocks) <= scope.blocks
    /\ proposal \subseteq Proposals /\ (proposal # {} => Len(blocks) < scope.blocks)
    /\ pool \subseteq Tx /\ checked \subseteq Tx /\ counting \subseteq Tx /\ added \in BOOLEAN
    /\ washing \in {"no", "started", "copied"} /\ all \subseteq Tx /\ from \in 0 .. best
    /\ execs \in [txs : SUBSET Tx, from : 0 .. best, left : SUBSET Tx]
    /\ Cardinality(execs.txs) <= Limit
    /\ txCache \in [Tx -> 0 .. scope.blocks]
    /\ head \in 0 .. best /\ best \in Nat /\ applied \in {best, best + 1}
    /\ applied < Len(blocks) \/ applied = 0

\* No addition is forgotten, wherever it falls into a wash: a transaction of the
\* pool is in the snapshot, or in the copy of the running wash, or its addition
\* is or will be counted for the next one, or the last wash ran out of time
\* before it (add, housekeeping, wash).
AdditionNotForgotten ==
    \A t \in pool :
        \/ t \in execs.txs \cup execs.left
        \/ t \in counting \/ added
        \/ washing = "started" \/ (washing = "copied" /\ t \in all)

\* This member repeats a transaction of an earlier block only out of a snapshot
\* that is older than its commit of that block.  It repeats one of a block of its
\* own only after that commit, or after the commit of yet another block with
\* the transaction, which deletes it from the cache too (PrepareProposal,
\* applyBlock).
RepeatedOnlyFromStaleSnapshot ==
    \A i, j \in 1 .. Len(blocks) : \A t \in blocks[i].txs \cap blocks[j].txs :
        i < j /\ blocks[j].mine =>
            /\ blocks[j].from < i
            /\ blocks[i].mine /\ blocks[j].done < i =>
                   t \in TxsOf(blocks[i].done + 1, blocks[j].done)

\* What the cache of proposed transactions holds back is proposed for a height
\* that is not committed: an abandoned proposal does not hold a transaction
\* back for ever (PrepareProposal, applyBlock).
CachedIsPending == \A t \in Tx : txCache[t] # 0 => txCache[t] > applied

\* Housekeeping has nothing to do about t before the next block: the last head
\* was noted on a chain that was not synced, or the last wash ran out of time
\* before t, or t was added late to a pool that is not small.
Overlooked(t) ==
    /\ washing = "no" /\ head = best
    /\ \/ execs.from < head
       \/ t \in execs.left
       \/ t \in pool /\ added /\ Cardinality(pool) >= SmallPool

\* A settled transaction leaves the pool and the snapshot however additions,
\* the steps of washes and the two steps of a commit interleave, except for the
\* three ways in which housekeeping passes it over until the next block.
SettledLeavesPool ==
    \A t \in Watched : t \in Known ~> t \notin pool \cup execs.txs \/ Overlooked(t)
=============================================================================
