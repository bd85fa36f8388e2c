---------------------------- MODULE TxFlowProofs ----------------------------
(***************************************************************************)
(* The way of transactions through a member, for every set of them, every  *)
(* limit of the pool and every number of blocks: what a wash may overlook, *)
(* what the cache of proposed transactions holds back, and when a member   *)
(* proposes a transaction again.                                           *)
(***************************************************************************)
EXTENDS TxFlow, FiniteSetTheorems, SequenceTheorems, TLAPS

\* The snapshot is free of what was settled when its wash began.
Fresh == execs.txs \cap TxsOf(1, execs.from) = {}

\* What is known of the own proposal or block p of height h: it was made when
\* a committed prefix was known, and its transactions are cached unless a
\* block committed since then holds them too.
OwnCached(p, h) ==
    p.mine =>
        /\ p.done <= applied
        /\ \A t \in p.txs : txCache[t] >= h \/ t \in TxsOf(p.done + 1, applied)

\* The own proposal p repeats transactions of the block i as
\* RepeatedOnlyFromStaleSnapshot says.
RepeatsStale(p, i) ==
    p.mine => \A t \in blocks[i].txs \cap p.txs :
        /\ p.from < i
        /\ blocks[i].mine /\ p.done < i => t \in TxsOf(blocks[i].done + 1, p.done)

\* Own blocks that are not committed, and the own proposal, are cached.
PendingCached ==
    /\ \A i \in 1 .. Len(blocks) : i > applied => OwnCached(blocks[i], i)
    /\ \A p \in proposal : OwnCached(p, Len(blocks) + 1)

\* The own proposal and the own blocks repeat no transaction otherwise.
Repeats ==
    /\ \A p \in proposal : p.done <= applied /\ \A i \in 1 .. Len(blocks) : RepeatsStale(p, i)
    /\ \A j \in 1 .. Len(blocks) :
        blocks[j].done < j /\ \A i \in 1 .. j - 1 : RepeatsStale(blocks[j], i)

TxInv == TypeOK /\ Fresh /\ CachedIsPending /\ PendingCached /\ Repeats

\* AdditionNotForgotten, step by step of a wash: the snapshot does not excuse a
\* transaction that was added after the copy was made.
Remembered ==
    /\ washing = "no" => \A t \in pool : t \in execs.txs \cup execs.left \cup counting \/ added
    /\ washing = "copied" => \A t \in pool : t \in all \cup counting \/ added

-----------------------------------------------------------------------------
(* Transactions of a range of blocks                                        *)

\* The limit of the pool is not zero.
LEMMA LimitType ==
    ASSUME TypeOK
    PROVE  Limit \in Nat \ {0}
BY TxFlowConstants DEF TypeOK, Limit

\* A transaction of a block of the range is one of the range.
LEMMA TxsOfMember ==
    ASSUME NEW k, NEW m, NEW i \in k .. m, NEW t \in blocks[i].txs
    PROVE  t \in TxsOf(k, m)
BY DEF TxsOf

\* The types of blocks and of their numbers.
LEMMA BlockTypes ==
    ASSUME TypeOK
    PROVE  /\ \A i \in 1 .. Len(blocks) : blocks[i] \in Proposals
           /\ Len(blocks) \in Nat /\ best \in Nat /\ applied \in Nat /\ scope.blocks \in Nat
           /\ applied <= Len(blocks)
<1>1. blocks \in Seq(Proposals) /\ scope.blocks \in Nat
  BY TxFlowConstants DEF TypeOK
<1>2. \A i \in 1 .. Len(blocks) : blocks[i] \in Proposals
  BY <1>1
<1>3. Len(blocks) \in Nat /\ scope.blocks \in Nat
  BY <1>1
<1>4. best \in Nat /\ applied \in Nat
  BY DEF TypeOK
<1>5. applied <= Len(blocks)
  BY <1>3, <1>4 DEF TypeOK
<1> QED  BY <1>2, <1>3, <1>4, <1>5

\* A new block leaves the blocks before it and their transactions alone.
LEMMA AppendKeeps ==
    ASSUME TypeOK, NEW p \in Proposals, blocks' = Append(blocks, p)
    PROVE  /\ blocks' \in Seq(Proposals) /\ Len(blocks') = Len(blocks) + 1
           /\ \A i \in 1 .. Len(blocks) : blocks'[i] = blocks[i]
           /\ blocks'[Len(blocks) + 1] = p
           /\ \A k \in Nat \ {0}, m \in Nat : m <= Len(blocks) =>
                 UNION {blocks'[i].txs : i \in k .. m} = TxsOf(k, m)
<1>1. blocks \in Seq(Proposals) /\ Len(blocks) \in Nat
  BY BlockTypes DEF TypeOK
<1>2. /\ blocks' \in Seq(Proposals) /\ Len(blocks') = Len(blocks) + 1
      /\ \A i \in 1 .. Len(blocks) : blocks'[i] = blocks[i]
      /\ blocks'[Len(blocks) + 1] = p
  BY <1>1
<1>3. ASSUME NEW k \in Nat \ {0}, NEW m \in Nat, m <= Len(blocks)
      PROVE  UNION {blocks'[i].txs : i \in k .. m} = TxsOf(k, m)
  <2>1. \A i \in k .. m : i \in 1 .. Len(blocks)
    BY <1>1, <1>3
  <2>2. \A i \in k .. m : blocks'[i].txs = blocks[i].txs
    BY <1>2, <2>1
  <2> QED  BY <2>2, Zenon DEF TxsOf
<1> QED  BY <1>2, <1>3

-----------------------------------------------------------------------------
(* Steps that leave blocks, proposal and cache alone                        *)

\* A step of the pool, of the housekeeping or of the database keeps the
\* invariant if it keeps the types and the snapshot; so does the end of a round.
LEMMA SameBlocksKeep ==
    ASSUME TxInv, TypeOK', proposal' \subseteq proposal,
           UNCHANGED <<blocks, execs, txCache, applied>>
    PROVE  TxInv'
<1>1. Fresh'
  BY DEF TxInv, Fresh, TxsOf
<1>2. CachedIsPending'
  BY DEF TxInv, CachedIsPending
<1>3. \A p, h : OwnCached(p, h) => OwnCached(p, h)'
  BY DEF OwnCached, TxsOf
<1>4. \A p, i : RepeatsStale(p, i) => RepeatsStale(p, i)'
  BY DEF RepeatsStale, TxsOf
<1>5. PendingCached'
  BY <1>3 DEF TxInv, PendingCached
<1>6. Repeats'
  BY <1>4 DEF TxInv, Repeats
<1> QED  BY <1>1, <1>2, <1>5, <1>6 DEF TxInv

\* The end of a wash publishes a snapshot without the settled transactions.
LEMMA WashEndKeeps ==
    ASSUME TxInv, WashEnd
    PROVE  TxInv'
<1>1. PICK k \in Kept : \E u \in Unvisited(k) : \E x \in Trimmed(k) :
        pool' = pool \ (all \ (x \cup u)) /\ execs' = [txs |-> x, from |-> from, left |-> u]
  BY DEF WashEnd, FinishWash
<1>2. PICK u \in Unvisited(k) : \E x \in Trimmed(k) :
        pool' = pool \ (all \ (x \cup u)) /\ execs' = [txs |-> x, from |-> from, left |-> u]
  BY <1>1
<1>3. PICK x \in Trimmed(k) :
        pool' = pool \ (all \ (x \cup u)) /\ execs' = [txs |-> x, from |-> from, left |-> u]
  BY <1>2
<1>4. TypeOK /\ all \subseteq Tx /\ from \in 0 .. best /\ Limit \in Nat \ {0}
  BY LimitType DEF TxInv, TypeOK
<1>5. k \subseteq all \ TxsOf(1, from) /\ k \subseteq Tx /\ u \subseteq Tx
  BY <1>1, <1>2, <1>4 DEF Kept, Unvisited
<1>6. x \subseteq k /\ Cardinality(x) <= Limit
  <2>1. IsFiniteSet(k) /\ Cardinality(k) \in Nat
    BY <1>5, TxFlowConstants, FS_Subset, FS_CardinalityType
  <2>2. CASE Cardinality(k) > Limit
    <3>1. x \in kSubset(Limit, k)
      BY <1>3, <2>2 DEF Trimmed
    <3>2. x \in SUBSET k /\ Cardinality(x) = Limit
      BY <3>1 DEF kSubset
    <3> QED  BY <1>4, <3>2
  <2>3. CASE ~(Cardinality(k) > Limit)
    BY <1>3, <1>4, <2>1, <2>3 DEF Trimmed
  <2> QED  BY <2>2, <2>3
<1>7. /\ UNCHANGED <<scope, blocks, proposal, checked, counting, added, head, txCache, applied, best>>
      /\ washing' = "no" /\ all' = {} /\ from' = 0
  BY DEF WashEnd, FinishWash
<1>8. TypeOK'
  <2>1. execs' \in [txs : SUBSET Tx, from : 0 .. best', left : SUBSET Tx]
    BY <1>3, <1>4, <1>5, <1>6, <1>7
  <2>2. Cardinality(execs'.txs) <= Limit' /\ from' \in 0 .. best'
    BY <1>3, <1>4, <1>6, <1>7 DEF Limit, TypeOK
  <2> QED  BY <1>3, <1>4, <1>7, <2>1, <2>2 DEF TypeOK
<1>9. Fresh'
  BY <1>3, <1>5, <1>6, <1>7 DEF Fresh, TxsOf
<1> QED
  BY <1>7, <1>8, <1>9
     DEF TxInv, CachedIsPending, PendingCached, Repeats, OwnCached, RepeatsStale, TxsOf

-----------------------------------------------------------------------------
(* Proposals and blocks                                                     *)

\* A proposal made of the uncached part of the snapshot.
LEMMA PrepareProposalKeeps ==
    ASSUME TxInv, PrepareProposal
    PROVE  TxInv'
<1> DEFINE txs == Uncached(execs.txs)
           p == IF txs = {} THEN Foreign({}) ELSE Own(txs)
           h == Len(blocks) + 1
<1>0. TypeOK /\ Fresh /\ CachedIsPending /\ PendingCached /\ Repeats
  BY DEF TxInv
<1>1. /\ Len(blocks) \in Nat /\ applied = best /\ best \in Nat /\ best <= Len(blocks)
      /\ scope.blocks \in Nat /\ Len(blocks) < scope.blocks
  BY <1>0, BlockTypes DEF PrepareProposal
<1>2. /\ proposal' = {p} /\ txCache' = [t \in Tx |-> IF t \in txs THEN h ELSE txCache[t]]
      /\ UNCHANGED <<scope, blocks, pool, checked, counting, added, head, washing, all, from, execs, applied, best>>
  BY DEF PrepareProposal, poolVars, washVars
<1>3. /\ txs \subseteq execs.txs /\ txs \subseteq Tx /\ execs.from \in 0 .. best
      /\ \A t \in txs : txCache[t] = 0
  BY <1>0 DEF Uncached, TypeOK
<1>4. /\ p \in Proposals
      /\ p.mine => p.txs = txs /\ p.from = execs.from /\ p.done = best
      /\ p.done <= best
  <2>1. txs = {} => p \in Proposals /\ ~ p.mine /\ p.done <= best
    BY <1>1 DEF Proposals, Foreign
  <2>2. txs # {} => /\ p \in Proposals
                    /\ p.txs = txs /\ p.from = execs.from /\ p.done = best
    BY <1>1, <1>3 DEF Proposals, Own
  <2> QED  BY <1>1, <2>1, <2>2
<1>5. \A t \in Tx : txCache[t] \in 0 .. scope.blocks
  BY <1>0 DEF TypeOK
<1>6. TypeOK'
  <2>1. txCache' \in [Tx -> 0 .. scope'.blocks]
    BY <1>1, <1>2, <1>5
  <2> QED  BY <1>0, <1>1, <1>2, <1>4, <2>1 DEF TypeOK, Limit
<1>7. CachedIsPending'
  BY <1>0, <1>1, <1>2 DEF CachedIsPending
<1>8. \A t \in Tx : txCache'[t] >= txCache[t]
  BY <1>1, <1>2, <1>3, <1>5
<1>9. PendingCached'
  <2>1. ASSUME NEW q \in proposal'
        PROVE  OwnCached(q, Len(blocks) + 1)'
    <3>1. q = p
      BY <1>2, <2>1
    <3>2. q.mine => q.done <= applied' /\ \A t \in q.txs : txCache'[t] = Len(blocks) + 1
      BY <1>1, <1>2, <1>3, <1>4, <3>1
    <3>3. blocks' = blocks
      BY <1>2
    <3>4. \A t \in q.txs : q.mine => txCache'[t] >= Len(blocks') + 1
      BY <1>1, <3>2, <3>3
    <3> QED  BY <3>2, <3>4, Zenon DEF OwnCached
  <2>2. ASSUME NEW i \in 1 .. Len(blocks), i > applied, blocks[i].mine
        PROVE  /\ blocks[i].done <= applied
               /\ \A t \in blocks[i].txs :
                     txCache'[t] >= i \/ t \in TxsOf(blocks[i].done + 1, applied)
    <3>1. blocks[i].txs \subseteq Tx
      BY <1>0, BlockTypes DEF Proposals
    <3>2. OwnCached(blocks[i], i)
      BY <1>0, <2>2 DEF PendingCached
    <3>3. \A t \in Tx : txCache'[t] \in Int /\ txCache[t] \in Int
      BY <1>1, <1>2, <1>5
    <3> QED  BY <1>8, <2>2, <3>1, <3>2, <3>3 DEF OwnCached
  <2>3. \A i \in 1 .. Len(blocks) : i > applied => OwnCached(blocks[i], i)'
    BY <1>2, <2>2 DEF OwnCached, TxsOf
  <2> QED  BY <1>2, <2>1, <2>3 DEF PendingCached
<1>10. Repeats'
  <2>1. ASSUME NEW i \in 1 .. Len(blocks), NEW t \in blocks[i].txs \cap txs
        PROVE  /\ execs.from < i
               /\ blocks[i].mine /\ best < i => t \in TxsOf(blocks[i].done + 1, best)
    <3>1. execs.from < i
      <4>1. CASE i <= execs.from
        <5>1. i \in 1 .. execs.from
          BY <1>3, <4>1
        <5>2. t \in TxsOf(1, execs.from)
          BY <2>1, <5>1, TxsOfMember
        <5> QED  BY <1>0, <1>3, <2>1, <5>2 DEF Fresh
      <4> QED  BY <1>3, <4>1
    <3>2. ASSUME blocks[i].mine, best < i
          PROVE  t \in TxsOf(blocks[i].done + 1, best)
      <4>1. OwnCached(blocks[i], i)
        BY <1>0, <1>1, <3>2 DEF PendingCached
      <4>2. ~(txCache[t] >= i)
        BY <1>3, <2>1
      <4> QED  BY <1>1, <2>1, <3>2, <4>1, <4>2 DEF OwnCached
    <3> QED  BY <3>1, <3>2
  <2>2. ASSUME NEW q \in proposal'
        PROVE  q.done <= applied /\ \A i \in 1 .. Len(blocks) : RepeatsStale(q, i)'
    <3>1. q = p
      BY <1>2, <2>2
    <3>2. q.done <= applied
      BY <1>1, <1>4, <3>1
    <3>3. \A i \in 1 .. Len(blocks) : RepeatsStale(q, i)'
      BY <1>2, <1>4, <2>1, <3>1 DEF RepeatsStale, TxsOf
    <3> QED  BY <3>2, <3>3
  <2>3. \A j \in 1 .. Len(blocks) :
          blocks[j].done < j /\ \A i \in 1 .. j - 1 : RepeatsStale(blocks[j], i)'
    BY <1>0, <1>2 DEF Repeats, RepeatsStale, TxsOf
  <2> QED  BY <1>2, <2>2, <2>3, Zenon DEF Repeats
<1>11. Fresh'
  BY <1>0, <1>2 DEF Fresh, TxsOf
<1> QED  BY <1>6, <1>7, <1>9, <1>10, <1>11 DEF TxInv
\* A proposal becomes the last block.
LEMMA CertifyKeeps ==
    ASSUME TxInv, NEW p \in Proposals, Len(blocks) < scope.blocks, p.done <= Len(blocks),
           OwnCached(p, Len(blocks) + 1), \A i \in 1 .. Len(blocks) : RepeatsStale(p, i),
           blocks' = Append(blocks, p), proposal' = {},
           UNCHANGED <<scope, poolVars, washVars, txCache, applied, best>>
    PROVE  TxInv'
<1>0. TypeOK /\ Fresh /\ CachedIsPending /\ PendingCached /\ Repeats
  BY DEF TxInv
<1> DEFINE n == Len(blocks)
<1>1. /\ n \in Nat /\ best \in Nat /\ applied \in Nat /\ scope.blocks \in Nat /\ applied <= n
      /\ \A i \in 1 .. n : blocks[i] \in Proposals
  BY <1>0, BlockTypes
<1>2. /\ blocks' \in Seq(Proposals) /\ Len(blocks') = n + 1
      /\ \A i \in 1 .. n : blocks'[i] = blocks[i]
      /\ blocks'[n + 1] = p
      /\ \A k \in Nat \ {0}, m \in Nat : m <= n =>
            UNION {blocks'[i].txs : i \in k .. m} = TxsOf(k, m)
  BY <1>0, AppendKeeps
<1>3. UNCHANGED <<scope, pool, checked, counting, added, head, washing, all, from, execs, txCache, applied, best>>
  BY DEF poolVars, washVars
<1>4. TypeOK'
  <2>1. Len(blocks') <= scope'.blocks /\ (applied' < Len(blocks') \/ applied' = 0)
    BY <1>0, <1>1, <1>2, <1>3 DEF TypeOK
  <2> QED  BY <1>0, <1>2, <1>3, <2>1 DEF TypeOK, Limit
<1>5. Fresh'
  <2>1. execs.from \in Nat /\ execs.from <= n
    <3>1. execs.from \in 0 .. best /\ best <= applied
      BY <1>0, <1>1 DEF TypeOK
    <3> QED  BY <1>1, <3>1
  <2>2. UNION {blocks'[i].txs : i \in 1 .. execs.from} = TxsOf(1, execs.from)
    <3>1. 1 \in Nat \ {0}
      OBVIOUS
    <3> QED  BY <1>2, <2>1, <3>1, Zenon
  <2> QED  BY <1>0, <1>3, <2>2, Zenon DEF Fresh, TxsOf
<1>6. CachedIsPending'
  BY <1>0, <1>3 DEF CachedIsPending
<1>7. \A j \in 1 .. n + 1 : blocks'[j] \in Proposals /\ blocks'[j].done < j
  <2>1. \A j \in 1 .. n : blocks[j].done < j
    BY <1>0 DEF Repeats
  <2>2. p.done < n + 1
    BY <1>1 DEF Proposals
  <2> QED  BY <1>1, <1>2, <2>1, <2>2
<1>8. PendingCached'
  <2> SUFFICES ASSUME NEW i \in 1 .. n + 1, i > applied
               PROVE  OwnCached(blocks[i], i)'
    BY <1>2, <1>3 DEF PendingCached
  <2>1. OwnCached(blocks'[i], i)
    <3>1. CASE i = n + 1
      BY <1>2, <3>1
    <3>2. CASE i # n + 1
      <4>1. i \in 1 .. n
        BY <1>1, <3>2
      <4> QED  BY <1>0, <1>2, <4>1 DEF PendingCached
    <3> QED  BY <3>1, <3>2
  <2>2. blocks'[i].done + 1 \in Nat \ {0}
    BY <1>7 DEF Proposals
  <2>3. UNION {blocks'[k].txs : k \in blocks'[i].done + 1 .. applied} = TxsOf(blocks'[i].done + 1, applied)
    BY <1>1, <1>2, <2>2, Zenon
  <2> QED  BY <1>3, <2>1, <2>3, Zenon DEF OwnCached, TxsOf
<1>9. Repeats'
  <2>1. ASSUME NEW j \in 1 .. n + 1, NEW i \in 1 .. j - 1
        PROVE  RepeatsStale(blocks[j], i)'
    <3>1. i \in 1 .. n /\ blocks'[i] = blocks[i]
      BY <1>1, <1>2
    <3>2. RepeatsStale(blocks'[j], i)
      <4>1. CASE j = n + 1
        BY <1>2, <3>1, <4>1
      <4>2. CASE j # n + 1
        <5>1. j \in 1 .. n
          BY <1>1, <4>2
        <5> QED  BY <1>0, <1>2, <5>1 DEF Repeats
      <4> QED  BY <4>1, <4>2
    <3>3. /\ blocks[i].done + 1 \in Nat \ {0}
          /\ blocks'[j].done \in Nat /\ blocks'[j].done <= n
      <4>1. blocks[i].done \in Nat
        BY <1>1, <3>1 DEF Proposals
      <4>2. blocks'[j].done \in Nat /\ blocks'[j].done < j
        BY <1>7 DEF Proposals
      <4> QED  BY <1>1, <4>1, <4>2
    <3>4. UNION {blocks'[k].txs : k \in blocks[i].done + 1 .. blocks'[j].done}
            = TxsOf(blocks[i].done + 1, blocks'[j].done)
      BY <1>2, <3>3, Zenon
    <3> QED  BY <3>1, <3>2, <3>4, Zenon DEF RepeatsStale, TxsOf
  <2> QED  BY <1>2, <1>7, <2>1 DEF Repeats
<1> QED  BY <1>4, <1>5, <1>6, <1>8, <1>9 DEF TxInv
\* The execution of a block clears the cache of what it settles.
LEMMA ApplyBlockKeeps ==
    ASSUME TxInv, applyBlock
    PROVE  TxInv'
<1>0. TypeOK /\ Fresh /\ CachedIsPending /\ PendingCached /\ Repeats
  BY DEF TxInv
<1> DEFINE k == applied + 1
<1>1. /\ Len(blocks) \in Nat /\ best \in Nat /\ applied = best /\ k < Len(blocks)
      /\ scope.blocks \in Nat /\ \A i \in 1 .. Len(blocks) : blocks[i] \in Proposals
  BY <1>0, BlockTypes DEF applyBlock
<1>2. /\ applied' = k /\ txCache' = Cleared(k) /\ pool' = pool \ blocks[k].txs
      /\ UNCHANGED <<scope, blocks, proposal, checked, counting, added, head, washing, all, from, execs, best>>
  BY DEF applyBlock, washVars
<1>3. \A t \in Tx : txCache[t] \in 0 .. scope.blocks
  BY <1>0 DEF TypeOK
<1>4. \A t \in Tx : /\ txCache'[t] \in 0 .. scope.blocks
                    /\ txCache'[t] # 0 => txCache'[t] > k
                    /\ txCache[t] > k /\ t \notin blocks[k].txs => txCache'[t] = txCache[t]
  BY <1>1, <1>2, <1>3 DEF Cleared
<1>5. TypeOK'
  <2>1. txCache' \in [Tx -> 0 .. scope'.blocks]
    BY <1>2, <1>4 DEF Cleared
  <2>2. applied' \in {best', best' + 1} /\ applied' < Len(blocks')
    BY <1>1, <1>2
  <2> QED  BY <1>0, <1>2, <2>1, <2>2 DEF TypeOK, Limit
<1>6. Fresh'
  BY <1>0, <1>2 DEF Fresh, TxsOf
<1>7. CachedIsPending'
  BY <1>2, <1>4 DEF CachedIsPending
<1>8. ASSUME NEW p \in Proposals, NEW h \in Nat, h > k, OwnCached(p, h)
      PROVE  OwnCached(p, h)'
  <2> SUFFICES ASSUME p.mine
               PROVE  /\ p.done <= k
                      /\ \A t \in p.txs : txCache'[t] >= h \/ t \in TxsOf(p.done + 1, k)
    BY <1>2 DEF OwnCached, TxsOf
  <2>1. p.done \in Nat /\ p.txs \subseteq Tx
    BY DEF Proposals
  <2>2. p.done <= applied
    BY <1>8 DEF OwnCached
  <2>3. p.done <= k /\ k \in p.done + 1 .. k
    BY <1>1, <2>1, <2>2
  <2>4. ASSUME NEW t \in p.txs
        PROVE  txCache'[t] >= h \/ t \in TxsOf(p.done + 1, k)
    <3>1. CASE t \in TxsOf(p.done + 1, applied)
      <4>1. PICK i \in p.done + 1 .. applied : t \in blocks[i].txs
        BY <3>1 DEF TxsOf
      <4>2. i \in p.done + 1 .. k
        BY <1>1, <2>1, <4>1
      <4> QED  BY <4>1, <4>2, TxsOfMember
    <3>2. CASE t \in blocks[k].txs
      BY <2>3, <3>2, TxsOfMember
    <3>3. CASE t \notin blocks[k].txs /\ t \notin TxsOf(p.done + 1, applied)
      <4>1. txCache[t] >= h
        BY <1>8, <3>3 DEF OwnCached
      <4>2. txCache[t] \in Int /\ txCache[t] > k
        BY <1>1, <1>3, <1>8, <2>1, <4>1, SMTT(20)
      <4> QED  BY <1>4, <2>1, <3>3, <4>1, <4>2
    <3> QED  BY <3>1, <3>2, <3>3
  <2> QED  BY <2>3, <2>4
<1>9. PendingCached'
  <2>1. ASSUME NEW i \in 1 .. Len(blocks), i > k
        PROVE  OwnCached(blocks[i], i)'
    <3>1. i > applied /\ i \in Nat
      BY <1>1, <2>1
    <3>2. OwnCached(blocks[i], i)
      BY <1>0, <3>1 DEF PendingCached
    <3>3. blocks'[i] = blocks[i] /\ blocks[i] \in Proposals
      BY <1>1, <1>2
    <3>4. PICK p \in Proposals : p = blocks[i]
      BY <3>3
    <3>5. OwnCached(p, i)'
      BY <1>8, <2>1, <3>1, <3>2, <3>4, SMTT(20)
    <3> QED  BY <3>3, <3>4, <3>5 DEF OwnCached
  <2>2. ASSUME NEW p \in proposal
        PROVE  OwnCached(p, Len(blocks) + 1)'
    <3>1. p \in Proposals /\ OwnCached(p, Len(blocks) + 1)
      BY <1>0 DEF TypeOK, PendingCached
    <3>2. Len(blocks) + 1 \in Nat /\ Len(blocks) + 1 > k
      BY <1>1
    <3>3. PICK h \in Nat : h = Len(blocks) + 1
      BY <3>2
    <3>4. OwnCached(p, h)'
      BY <1>8, <3>1, <3>2, <3>3, SMTT(20)
    <3> QED  BY <1>2, <3>3, <3>4 DEF OwnCached
  <2> QED  BY <1>2, <2>1, <2>2 DEF PendingCached
<1>10. Repeats'
  <2>1. \A p \in proposal : p.done <= k
    <3>1. ASSUME NEW p \in proposal  PROVE p.done <= k
      <4>1. p.done \in Nat /\ p.done <= applied
        BY <1>0 DEF TypeOK, Proposals, Repeats
      <4> QED  BY <1>1, <4>1
    <3> QED  BY <3>1
  <2> QED  BY <1>0, <1>2, <2>1 DEF Repeats, RepeatsStale, TxsOf
<1> QED  BY <1>5, <1>6, <1>7, <1>9, <1>10 DEF TxInv
-----------------------------------------------------------------------------
(* The theorems                                                             *)

\* A member starts with an empty pool, an empty cache and no block.
LEMMA InitTxInv == Init => TxInv
<1> SUFFICES ASSUME Init  PROVE TxInv
  OBVIOUS
<1>1. Len(blocks) = 0 /\ blocks \in Seq(Proposals)
  BY DEF Init
<1>2. Cardinality({}) <= Limit
  BY FS_EmptySet, TxFlowConstants DEF Init, Limit
<1>3. TypeOK
  <2>1. scope.blocks \in Nat
    BY TxFlowConstants DEF Init
  <2>2. execs.txs = {} /\ execs \in [txs : SUBSET Tx, from : 0 .. best, left : SUBSET Tx]
    BY DEF Init
  <2>3. txCache \in [Tx -> 0 .. scope.blocks] /\ Len(blocks) <= scope.blocks
    BY <1>1, <2>1 DEF Init
  <2> QED  BY <1>1, <1>2, <2>2, <2>3, Zenon DEF Init, TypeOK
<1>4. Fresh /\ CachedIsPending
  BY DEF Init, Fresh, CachedIsPending
<1>5. PendingCached /\ Repeats
  BY <1>1 DEF Init, PendingCached, Repeats
<1> QED  BY <1>3, <1>4, <1>5 DEF TxInv

\* Every step of every goroutine keeps the invariant.
LEMMA NextTxInv == TxInv /\ [Next]_vars => TxInv'
<1> SUFFICES ASSUME TxInv, [Next]_vars  PROVE TxInv'
  OBVIOUS
<1>0. /\ TypeOK /\ PendingCached /\ Repeats
      /\ Len(blocks) \in Nat /\ best \in Nat /\ applied \in Nat /\ applied <= Len(blocks)
      /\ scope.txs \subseteq Tx
  BY BlockTypes, TxFlowConstants DEF TxInv, TypeOK
<1>1. ASSUME NEW t \in scope.txs, CheckTx(t) \/ InsertTx(t) \/ CountTx(t)  PROVE TxInv'
  <2>1. checked' \subseteq Tx /\ pool' \subseteq Tx /\ counting' \subseteq Tx /\ added' \in BOOLEAN
    BY <1>0, <1>1, Zenon DEF CheckTx, InsertTx, CountTx, TypeOK
  <2>2. UNCHANGED <<scope, blocks, proposal, head, washing, all, from, execs, txCache, applied, best>>
    BY <1>1 DEF CheckTx, InsertTx, CountTx, washVars
  <2>3. TypeOK'
    BY <1>0, <2>1, <2>2 DEF TypeOK, Limit
  <2> QED  BY <2>2, <2>3, SameBlocksKeep
<1>2. CASE SkipWash \/ WashStart \/ CopyPool
  <2>1. /\ head' \in {head, best} /\ added' \in {added, FALSE}
        /\ washing' \in {"no", "started", "copied"}
        /\ all' \in {all, pool} /\ from' \in {from, best}
        /\ UNCHANGED <<scope, blocks, proposal, pool, checked, counting, execs, txCache, applied, best>>
    BY <1>0, <1>2 DEF SkipWash, WashStart, CopyPool, poolVars, TypeOK
  <2>2. head' \in 0 .. best' /\ from' \in 0 .. best' /\ all' \subseteq Tx
    BY <1>0, <2>1 DEF TypeOK
  <2>3. added' \in BOOLEAN
    BY <1>0, <2>1, Zenon DEF TypeOK
  <2>4. TypeOK'
    BY <1>0, <2>1, <2>2, <2>3 DEF TypeOK, Limit
  <2> QED  BY <2>1, <2>4, SameBlocksKeep
<1>3. CASE WashEnd
  BY <1>3, WashEndKeeps
<1>4. CASE PrepareProposal
  BY <1>4, PrepareProposalKeeps
<1>5. CASE OnReceiveVotes
  <2>1. PICK p \in proposal : Certify(p)
    BY <1>5 DEF OnReceiveVotes
  <2>2. /\ p \in Proposals /\ Len(blocks) < scope.blocks
        /\ OwnCached(p, Len(blocks) + 1) /\ p.done <= applied
        /\ \A i \in 1 .. Len(blocks) : RepeatsStale(p, i)
    BY <1>0, <2>1 DEF TypeOK, PendingCached, Repeats
  <2>3. p.done <= Len(blocks)
    BY <1>0, <2>2 DEF Proposals
  <2> QED  BY <1>5, <2>1, <2>2, <2>3, CertifyKeeps DEF OnReceiveVotes, Certify
<1>6. ASSUME NEW txs \in SUBSET scope.txs, OnReceiveProposal(txs)  PROVE TxInv'
  <2> DEFINE p == Foreign(txs)
  <2>1. p \in Proposals /\ p.done <= Len(blocks) /\ ~ p.mine
    BY <1>0, <1>6 DEF Proposals, Foreign
  <2>2. OwnCached(p, Len(blocks) + 1) /\ \A i \in 1 .. Len(blocks) : RepeatsStale(p, i)
    BY <2>1 DEF OwnCached, RepeatsStale
  <2> QED  BY <1>6, <2>1, <2>2, CertifyKeeps, Zenon DEF OnReceiveProposal, Certify
<1>7. CASE RoundTimeout
  <2>1. /\ proposal' = {}
        /\ UNCHANGED <<scope, blocks, pool, checked, counting, added, head, washing, all, from, execs, txCache, applied, best>>
    BY <1>7 DEF RoundTimeout, poolVars, washVars
  <2>2. TypeOK'
    BY <1>0, <2>1 DEF TypeOK, Limit
  <2> QED  BY <2>1, <2>2, SameBlocksKeep
<1>8. CASE applyBlock
  BY <1>8, ApplyBlockKeeps
<1>9. CASE AddBlock
  <2>1. applied = best + 1 /\ best' = best + 1
    BY <1>0, <1>9 DEF AddBlock, TypeOK
  <2>2. /\ execs' \in [txs : SUBSET Tx, from : 0 .. best', left : SUBSET Tx]
        /\ head' \in 0 .. best' /\ from' \in 0 .. best'
    BY <1>0, <1>9, <2>1 DEF AddBlock, washVars, TypeOK
  <2>3. TypeOK'
    BY <1>0, <1>9, <2>1, <2>2 DEF AddBlock, poolVars, washVars, TypeOK, Limit
  <2> QED  BY <1>9, <2>3, SameBlocksKeep DEF AddBlock, washVars
<1>10. CASE UNCHANGED vars
  BY <1>0, <1>10, SameBlocksKeep DEF vars, poolVars, washVars, TypeOK, Limit
<1> QED
  BY <1>1, <1>2, <1>3, <1>4, <1>5, <1>6, <1>7, <1>8, <1>9, <1>10 DEF Next

\* The inductive invariant holds in every behaviour, for every number of
\* transactions, blocks and any limit of the pool.
THEOREM TxFlowInvariant == Spec => []TxInv
BY InitTxInv, NextTxInv, PTL DEF Spec

\* Every step of add, of the housekeeping and of a commit keeps a wash due for
\* what the last one did not publish.
LEMMA NextRemembered == Remembered /\ [Next]_vars => Remembered'
<1> SUFFICES ASSUME Remembered, [Next]_vars  PROVE Remembered'
  OBVIOUS
<1>1. ASSUME NEW t \in scope.txs, CheckTx(t) \/ InsertTx(t) \/ CountTx(t)  PROVE Remembered'
  BY <1>1 DEF CheckTx, InsertTx, CountTx, washVars, Remembered
<1>2. CASE SkipWash \/ WashStart \/ CopyPool
  BY <1>2 DEF SkipWash, WashStart, CopyPool, poolVars, Remembered
<1>3. CASE WashEnd
  BY <1>3 DEF WashEnd, FinishWash, Remembered
<1>4. CASE applyBlock
  BY <1>4 DEF applyBlock, washVars, Remembered
<1>5. CASE UNCHANGED <<poolVars, washVars>>
  BY <1>5 DEF poolVars, washVars, Remembered
<1>6. \A txs : PrepareProposal \/ OnReceiveVotes \/ RoundTimeout \/ OnReceiveProposal(txs) \/ AddBlock
        => UNCHANGED <<poolVars, washVars>>
  BY DEF PrepareProposal, OnReceiveVotes, RoundTimeout, OnReceiveProposal, AddBlock
<1>7. UNCHANGED vars => UNCHANGED <<poolVars, washVars>>
  BY DEF vars
<1> QED  BY <1>1, <1>2, <1>3, <1>4, <1>5, <1>6, <1>7 DEF Next

\* An addition is never forgotten: add counts a transaction after it is in the
\* pool, and housekeeping counts anew before it copies the pool, so what falls
\* between these steps is in the copy or asks for another wash.
THEOREM AdditionsRemembered == Spec => []AdditionNotForgotten
<1>1. Init => Remembered
  BY DEF Init, Remembered
<1>2. Spec => []TypeOK
  BY TxFlowInvariant, PTL DEF TxInv
<1>3. TypeOK /\ Remembered => AdditionNotForgotten
  BY DEF TypeOK, Remembered, AdditionNotForgotten
<1> QED  BY <1>1, <1>2, <1>3, NextRemembered, PTL DEF Spec

\* What the cache of PrepareProposal holds back is proposed for a height that
\* is not committed: no transaction is held back for ever.
THEOREM CacheHoldsPending == Spec => []CachedIsPending
BY TxFlowInvariant, PTL DEF TxInv

\* A member proposes a transaction of the chain again only out of a snapshot
\* older than its commit, and one of its own pending blocks only after the
\* commit of another block with it.
THEOREM RepeatsAreStale == Spec => []RepeatedOnlyFromStaleSnapshot
<1>1. TxInv => RepeatedOnlyFromStaleSnapshot
  <2> SUFFICES ASSUME TxInv, NEW i \in 1 .. Len(blocks), NEW j \in 1 .. Len(blocks),
                      NEW t \in blocks[i].txs \cap blocks[j].txs, i < j, blocks[j].mine
               PROVE  /\ blocks[j].from < i
                      /\ blocks[i].mine /\ blocks[j].done < i =>
                             t \in TxsOf(blocks[i].done + 1, blocks[j].done)
    BY DEF RepeatedOnlyFromStaleSnapshot
  <2>1. Len(blocks) \in Nat
    BY BlockTypes DEF TxInv
  <2>2. i \in 1 .. j - 1
    BY <2>1
  <2>3. RepeatsStale(blocks[j], i)
    BY <2>2 DEF TxInv, Repeats
  <2> QED  BY <2>3 DEF RepeatsStale
<1> QED  BY <1>1, TxFlowInvariant, PTL
=============================================================================
