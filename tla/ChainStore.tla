----------------------------- MODULE ChainStore -----------------------------
(***************************************************************************)
(* The chain store (package chain): blocks and indexes in a key-value      *)
(* database, and the best block in memory.  AddBlock holds the write lock, *)
(* so calls do not interleave; the process may stop between any two writes *)
(* to the database, and the write of a batch may fail.                     *)
(*                                                                         *)
(* A block is the sequence of its ancestors' marks and its own, as in      *)
(* module Pacemaker: the genesis is empty, the number is the length, the   *)
(* parent is the front.  A quorum certificate is named by the block it is  *)
(* for; every caller passes AddBlock the certificate of the block itself,  *)
(* so the best certificate in memory is the one of best.  The cache of raw *)
(* blocks only answers what the database holds and is left out.            *)
(***************************************************************************)
EXTENDS Integers, FiniteSets, SequencesExt

CONSTANTS
    Marks,        \* what tells siblings apart: hashes, ordered like ids
    Tx,           \* transactions
    txs,          \* the transactions of a block, by its own mark
    MaxNumber,    \* bound: block numbers
    MaxCrashes,   \* bound: stops of the process
    MaxFailures   \* bound: failed writes

ASSUME StoreConstants ==
    /\ Marks \subseteq Nat
    /\ txs \in [Marks -> SUBSET Tx]
    /\ MaxNumber \in Nat /\ MaxCrashes \in Nat /\ MaxFailures \in Nat

VARIABLES
    raw,      \* database, prefix "b": the blocks stored
    hash,     \* database, prefix "h": number -> block, a partial function
    bestKey,  \* database, key "best", as a set
    qcKey,    \* database, key "best-qc", as a set
    meta,     \* database, prefix "t": pairs of a transaction and a block with it
    vsets,    \* database, prefix "v": the genesis validator sets stored
    phase,    \* of the process: "down", "starting" (in Initialize) or "up"
    best,     \* memory: bestBlock
    crashes, failures

disk == <<raw, hash, bestKey, qcKey, meta, vsets>>
memory == <<phase, best>>
storeVars == <<disk, memory, crashes, failures>>

Genesis == << >>
Number(b) == Len(b)
ParentID(b) == Front(b)
Block == BoundedSeq(Marks, MaxNumber)
BlockTxs(b) == IF b = Genesis THEN {} ELSE txs[Last(b)]

\* Ids of one number differ in their hashes, which are ordered.
IdLess(b, c) ==
    \E i \in 1 .. Len(b) : b[i] < c[i] /\ \A j \in 1 .. i - 1 : b[j] = c[j]

-----------------------------------------------------------------------------
(* Initialize: what is missing in the database is written in three steps    *)

Start ==
    /\ phase = "down"
    /\ phase' = "starting"
    /\ UNCHANGED <<disk, best, crashes, failures>>

SaveValidatorSet(v) ==
    /\ phase = "starting"
    /\ bestKey = {}
    /\ v \notin vsets
    /\ v = "next" => "current" \in vsets
    /\ vsets' = vsets \cup {v}
    /\ UNCHANGED <<raw, hash, bestKey, qcKey, meta, memory, crashes, failures>>

\* Mutant: the genesis batch is written first.
SaveGenesisFirst ==
    /\ phase = "starting"
    /\ bestKey = {}
    /\ raw' = {Genesis}
    /\ hash' = [k \in {0} |-> Genesis]
    /\ bestKey' = {Genesis} /\ qcKey' = {Genesis}
    /\ UNCHANGED <<meta, vsets, memory, crashes, failures>>

SaveGenesis ==
    /\ phase = "starting"
    /\ bestKey = {}
    /\ vsets = {"current", "next"}
    /\ raw' = {Genesis}
    /\ hash' = [k \in {0} |-> Genesis]
    /\ bestKey' = {Genesis} /\ qcKey' = {Genesis}
    /\ UNCHANGED <<meta, vsets, memory, crashes, failures>>

\* The certificate loaded: the genesis one if there is none.
LoadedQC == IF qcKey = {} THEN {Genesis} ELSE qcKey

\* The best block is loaded, and replaced by the block of the best certificate
\* if it is above it.
Load ==
    /\ phase = "starting"
    /\ "next" \in vsets
    /\ \E b \in bestKey, q \in LoadedQC :
          LET c == IF Number(b) > Number(q) /\ q \in raw THEN q ELSE b
          IN  best' = c /\ bestKey' = {c}
    /\ qcKey' = LoadedQC
    /\ phase' = "up"
    /\ UNCHANGED <<raw, hash, meta, vsets, crashes, failures>>

-----------------------------------------------------------------------------
(* AddBlock                                                                 *)

IsBlockFinalized(b) == Number(b) <= Number(best)

\* Mutant: a sibling of the best block replaces it whatever its id.
isTrunkLater(b) == Number(b) >= Number(best)

isTrunk(b) ==
    \/ Number(b) > Number(best)
    \/ Number(b) = Number(best) /\ IdLess(b, best)

\* Mutant: the parent is not looked up.
AcceptsOrphan(b) == b \in raw => IsBlockFinalized(ParentID(b)) /\ ~ IsBlockFinalized(b)

\* AddBlock goes on: the block is new, or stored but not final, and its parent
\* is stored.
Accepts(b) ==
    /\ b \in raw => IsBlockFinalized(ParentID(b)) /\ ~ IsBlockFinalized(b)
    /\ ParentID(b) \in raw

\* Mutant: the certificate is not written with the block.
BatchNoQC(b) ==
    /\ raw' = raw \cup {b}
    /\ hash' = [k \in DOMAIN hash \cup {Number(b)} |-> IF k = Number(b) THEN b ELSE hash[k]]
    /\ meta' = meta \cup (BlockTxs(b) \X {b})
    /\ bestKey' = IF isTrunk(b) THEN {b} ELSE bestKey
    /\ UNCHANGED <<qcKey, vsets>>

\* Mutant: the entry of a transaction is replaced, not appended to.
BatchOneMeta(b) ==
    /\ raw' = raw \cup {b}
    /\ hash' = [k \in DOMAIN hash \cup {Number(b)} |-> IF k = Number(b) THEN b ELSE hash[k]]
    /\ meta' = {p \in meta : p[1] \notin BlockTxs(b)} \cup (BlockTxs(b) \X {b})
    /\ bestKey' = IF isTrunk(b) THEN {b} ELSE bestKey
    /\ qcKey' = IF isTrunk(b) THEN {b} ELSE qcKey
    /\ UNCHANGED vsets

\* The batch: the block, the entry of its number, the entries of its
\* transactions and, for a block of the trunk, the best block and certificate.
Batch(b) ==
    /\ raw' = raw \cup {b}
    /\ hash' = [k \in DOMAIN hash \cup {Number(b)} |-> IF k = Number(b) THEN b ELSE hash[k]]
    /\ meta' = meta \cup (BlockTxs(b) \X {b})
    /\ bestKey' = IF isTrunk(b) THEN {b} ELSE bestKey
    /\ qcKey' = IF isTrunk(b) THEN {b} ELSE qcKey
    /\ UNCHANGED vsets

\* bestBlock and bestQC are assigned before the batch is written.
Assign(b) == best' = IF isTrunk(b) THEN b ELSE best

AddBlock(b) ==
    /\ phase = "up"
    /\ Accepts(b)
    /\ Batch(b)
    /\ Assign(b)
    /\ UNCHANGED <<phase, crashes, failures>>

\* The batch is not written: AddBlock answers the error, memory stays changed.
AddBlockFails(b) ==
    /\ phase = "up"
    /\ failures < MaxFailures
    /\ failures' = failures + 1
    /\ Accepts(b)
    /\ Assign(b)
    /\ UNCHANGED <<disk, phase, crashes>>

Crash ==
    /\ phase # "down"
    /\ crashes < MaxCrashes
    /\ crashes' = crashes + 1
    /\ phase' = "down"
    /\ best' = Genesis
    /\ UNCHANGED <<disk, failures>>

\* getTransactionMeta: the blocks with t that the number index names, of which
\* it answers the first.
TransactionBlocks(t) ==
    {b \in raw : /\ <<t, b>> \in meta
                 /\ Number(b) \in DOMAIN hash
                 /\ hash[Number(b)] = b}

-----------------------------------------------------------------------------
StoreInit ==
    /\ raw = {} /\ hash = [k \in {} |-> Genesis]
    /\ bestKey = {} /\ qcKey = {} /\ meta = {} /\ vsets = {}
    /\ phase = "down" /\ best = Genesis
    /\ crashes = 0 /\ failures = 0

Initialize ==
    \/ Start
    \/ \E v \in {"current", "next"} : SaveValidatorSet(v)
    \/ SaveGenesis
    \/ Load

StoreNext ==
    \/ Initialize
    \/ \E b \in Block \ {Genesis} : AddBlock(b) \/ AddBlockFails(b)
    \/ Crash

StoreSpec == StoreInit /\ [][StoreNext]_storeVars

-----------------------------------------------------------------------------
(* Properties                                                               *)

StoreTypeOK ==
    /\ raw \subseteq Block
    /\ DOMAIN hash \subseteq 0 .. MaxNumber
    /\ \A k \in DOMAIN hash : hash[k] \in Block
    /\ bestKey \subseteq Block /\ qcKey \subseteq Block
    /\ meta \subseteq Tx \X Block
    /\ vsets \subseteq {"current", "next"}
    /\ phase \in {"down", "starting", "up"}
    /\ best \in Block
    /\ crashes \in 0 .. MaxCrashes /\ failures \in 0 .. MaxFailures

\* Wherever Initialize is interrupted, a database with a best block has the
\* validator sets that the next start needs (Initialize fails without them).
ValidatorSetsFirst == bestKey # {} => vsets = {"current", "next"}

\* A stored block has its parent stored, down to the genesis (AddBlock answers
\* "parent missing" otherwise; buildFork and the block reader walk parents).
StoredClosed == \A b \in raw \ {Genesis} : ParentID(b) \in raw

\* The choice of the best block is "a deterministic decision" (isTrunk): it is
\* the highest block stored, and the one with the smallest id among those of
\* its number, whatever the order in which they were added; it is the same in
\* memory and in the database, and the best certificate is its own.  A failed
\* write ends this: the best block in memory is then one that is not stored.
BestIsPreferred ==
    phase = "up" /\ failures = 0 =>
        /\ best \in raw
        /\ \A b \in raw : Number(b) <= Number(best) /\ (Number(b) = Number(best) => ~ IdLess(b, best))
        /\ bestKey = {best} /\ qcKey = {best}

\* Stops, restarts and failed writes included, the best block on disk is only ever replaced
\* by a preferred one.
BestNeverGoesBack ==
    [][\A b \in bestKey : \E c \in bestKey' :
          Number(c) >= Number(b) /\ ~ (Number(c) = Number(b) /\ IdLess(b, c))]_storeVars

\* The number index, from which GetTrunkBlockID, GetTrunkBlock and the tx
\* lookup answer "on trunk", names the ancestors of the best block.
TrunkIndexed ==
    \A b \in bestKey : \A k \in 0 .. Number(b) :
        k \in DOMAIN hash /\ hash[k] = SubSeq(b, 1, k)
=============================================================================
