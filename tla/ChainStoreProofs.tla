-------------------------- MODULE ChainStoreProofs --------------------------
(***************************************************************************)
(* Proofs about the chain store, for every set of marks and transactions   *)
(* and every bound, where AddBlock is given any blocks in any order: the   *)
(* invariant of the database, the choice of the best block, and what       *)
(* buildFork answers.                                                      *)
(***************************************************************************)
EXTENDS ChainFork, SequenceTheorems, WellFoundedInduction, TLAPS

-----------------------------------------------------------------------------
(* Blocks of the store                                                      *)

\* A block is a sequence of marks of at most MaxNumber places.
LEMMA BlockIsSeq ==
    /\ \A b \in Block : b \in Seq(Marks) /\ Len(b) \in Nat /\ Len(b) <= MaxNumber
    /\ \A b \in Seq(Marks) : Len(b) <= MaxNumber => b \in Block
<1>1. ASSUME NEW b \in Block
      PROVE  b \in Seq(Marks) /\ Len(b) \in Nat /\ Len(b) <= MaxNumber
  <2>1. PICK m \in 0 .. MaxNumber : b \in [1 .. m -> Marks]
    BY <1>1 DEF Block, BoundedSeq, SeqOf
  <2>2. m \in Nat /\ m <= MaxNumber
    BY <2>1, StoreConstants
  <2>3. b \in Seq(Marks)
    BY <2>1, <2>2, SeqDef
  <2>4. Len(b) = m
    BY <2>1, <2>2, <2>3, LenProperties
  <2> QED
    BY <2>2, <2>3, <2>4
<1>2. ASSUME NEW b \in Seq(Marks), Len(b) <= MaxNumber
      PROVE  b \in Block
  <2>1. Len(b) \in Nat /\ b \in [1 .. Len(b) -> Marks]
    BY <1>2, LenProperties
  <2>2. Len(b) \in 0 .. MaxNumber
    BY <1>2, <2>1, StoreConstants
  <2> QED
    BY <2>1, <2>2 DEF Block, BoundedSeq, SeqOf
<1> QED
  BY <1>1, <1>2

\* The number of a block is a natural number.
LEMMA NumberType ==
    ASSUME NEW b \in Block
    PROVE  Number(b) \in Nat /\ Number(b) <= MaxNumber
BY BlockIsSeq, LenProperties DEF Number

\* The genesis is a block of number 0, and the only one.
LEMMA GenesisFacts ==
    /\ Genesis \in Block /\ Number(Genesis) = 0
    /\ \A b \in Block : Number(b) = 0 => b = Genesis
<1>1. Genesis \in Seq(Marks) /\ Len(Genesis) = 0
  BY EmptySeq DEF Genesis
<1>2. Genesis \in Block
  <2>1. Len(Genesis) <= MaxNumber
    BY <1>1, StoreConstants
  <2> QED
    BY <1>1, <2>1, BlockIsSeq, Zenon
<1>3. ASSUME NEW b \in Block, Number(b) = 0 PROVE b = Genesis
  BY <1>3, BlockIsSeq, EmptySeq DEF Number, Genesis
<1> QED
  BY <1>1, <1>2, <1>3 DEF Number

\* An ancestor of a block is a block, of its number.
LEMMA AncestorFacts ==
    ASSUME NEW b \in Block, NEW k \in 0 .. Number(b)
    PROVE  /\ SubSeq(b, 1, k) \in Block
           /\ Number(SubSeq(b, 1, k)) = k
           /\ \A i \in 1 .. k : SubSeq(b, 1, k)[i] = b[i]
<1>1. b \in Seq(Marks) /\ Len(b) \in Nat /\ Len(b) <= MaxNumber
  BY BlockIsSeq, LenProperties
<1>2. k \in Nat /\ k <= Len(b) /\ k \in Int /\ 1 \in Int
  BY <1>1 DEF Number
<1>3. \A i \in 1 .. k : b[i] \in Marks
  BY <1>1, <1>2, ElementOfSeq
<1>4. /\ SubSeq(b, 1, k) \in Seq(Marks)
      /\ Len(SubSeq(b, 1, k)) = IF 1 <= k THEN k - 1 + 1 ELSE 0
      /\ \A i \in 1 .. k - 1 + 1 : SubSeq(b, 1, k)[i] = b[1 + i - 1]
  BY <1>2, <1>3, SubSeqProperties
<1>5. Len(SubSeq(b, 1, k)) = k
  BY <1>2, <1>4
<1>6. k - 1 + 1 = k /\ \A i \in 1 .. k : 1 + i - 1 = i
  BY <1>2
<1>7. \A i \in 1 .. k : SubSeq(b, 1, k)[i] = b[i]
  BY <1>4, <1>6
<1>8. Len(SubSeq(b, 1, k)) <= MaxNumber
  <2>1. k <= MaxNumber
    BY <1>1, <1>2, StoreConstants
  <2> QED
    BY <1>5, <2>1, Zenon
<1> QED
  BY <1>4, <1>5, <1>7, <1>8, BlockIsSeq, Zenon DEF Number

\* The ancestor of a block's own number is the block.
LEMMA AncestorSelf ==
    ASSUME NEW b \in Block
    PROVE  SubSeq(b, 1, Number(b)) = b
BY BlockIsSeq, SubSeqFull DEF Number

\* The parent of a block that is not the genesis is the block before it.
LEMMA ParentFacts ==
    ASSUME NEW b \in Block, Number(b) > 0
    PROVE  /\ Number(b) - 1 \in 0 .. Number(b)
           /\ ParentID(b) = SubSeq(b, 1, Number(b) - 1)
           /\ ParentID(b) \in Block
           /\ Number(ParentID(b)) = Number(b) - 1
<1>1. Number(b) - 1 \in 0 .. Number(b)
  BY NumberType
<1>2. ParentID(b) = SubSeq(b, 1, Number(b) - 1)
  BY DEF ParentID, Front, Number
<1> QED
  BY <1>1, <1>2, AncestorFacts

\* The ancestors of a parent are the ancestors of the block.
LEMMA AncestorOfParent ==
    ASSUME NEW b \in Block, Number(b) > 0, NEW k \in 0 .. Number(b) - 1
    PROVE  SubSeq(ParentID(b), 1, k) = SubSeq(b, 1, k)
<1> DEFINE p == ParentID(b)
           s == SubSeq(p, 1, k)
           t == SubSeq(b, 1, k)
<1>1. /\ p \in Block /\ Number(p) = Number(b) - 1
      /\ \A i \in 1 .. Number(b) - 1 : p[i] = b[i]
  BY ParentFacts, AncestorFacts
<1>2. Number(b) \in Nat /\ k \in 0 .. Number(p) /\ k \in 0 .. Number(b)
  BY <1>1, NumberType
<1>3. /\ s \in Block /\ Number(s) = k /\ \A i \in 1 .. k : s[i] = p[i]
      /\ t \in Block /\ Number(t) = k /\ \A i \in 1 .. k : t[i] = b[i]
  BY <1>1, <1>2, AncestorFacts
<1>4. \A i \in 1 .. k : s[i] = t[i]
  BY <1>1, <1>2, <1>3
<1> HIDE DEF s, t, p
<1>5. s \in Seq(Marks) /\ t \in Seq(Marks) /\ Len(s) = Len(t) /\ Len(s) = k
  BY <1>3, BlockIsSeq DEF Number
<1>6. s = t
  BY <1>4, <1>5, SeqEqual, Zenon
<1> QED
  BY <1>6 DEF s, t, p

\* A block is a prefix of another if it is its ancestor.
LEMMA PrefixFacts ==
    ASSUME NEW b \in Block, NEW c \in Block
    PROVE  IsPrefix(b, c) <=> Number(b) <= Number(c) /\ b = SubSeq(c, 1, Number(b))
BY AncestorSelf DEF IsPrefix, Number

\* An ancestor's ancestor is an ancestor.
LEMMA AncestorOfAncestor ==
    ASSUME NEW t \in Block, NEW k \in 0 .. Number(t), NEW j \in 0 .. k
    PROVE  SubSeq(SubSeq(t, 1, k), 1, j) = SubSeq(t, 1, j)
<1> DEFINE u == SubSeq(t, 1, k)
           x == SubSeq(u, 1, j)
           y == SubSeq(t, 1, j)
<1>1. Number(t) \in Nat /\ k \in Nat /\ j \in Nat /\ j <= k /\ k <= Number(t)
  BY NumberType
<1>2. u \in Block /\ Number(u) = k /\ \A i \in 1 .. k : u[i] = t[i]
  BY AncestorFacts
<1>3. j \in 0 .. Number(u) /\ j \in 0 .. Number(t)
  BY <1>1, <1>2
<1> HIDE DEF u
<1>4. /\ x \in Block /\ Number(x) = j /\ \A i \in 1 .. j : x[i] = u[i]
      /\ y \in Block /\ Number(y) = j /\ \A i \in 1 .. j : y[i] = t[i]
  BY <1>2, <1>3, AncestorFacts
<1>5. \A i \in 1 .. j : x[i] = y[i]
  BY <1>1, <1>2, <1>4
<1> HIDE DEF x, y
<1>6. x \in Seq(Marks) /\ y \in Seq(Marks) /\ Len(x) = Len(y) /\ Len(x) = j
  BY <1>4, BlockIsSeq DEF Number
<1>7. x = y
  BY <1>5, <1>6, SeqEqual, Zenon
<1> QED  BY <1>7 DEF u, x, y

-----------------------------------------------------------------------------
(* Types of the store                                                       *)

\* Every step of Initialize keeps the store well-typed.
LEMMA InitializeTypeOK ==
    ASSUME StoreTypeOK, Initialize
    PROVE  StoreTypeOK'
<1>1. CASE Start
  BY <1>1 DEF Start, StoreTypeOK, disk
<1>2. CASE \E v \in {"current", "next"} : SaveValidatorSet(v)
  BY <1>2 DEF SaveValidatorSet, StoreTypeOK, memory
<1>3. CASE SaveGenesis
  <2>1. Genesis \in Block /\ 0 \in 0 .. MaxNumber
    BY GenesisFacts, StoreConstants
  <2> QED
    BY <1>3, <2>1 DEF SaveGenesis, StoreTypeOK, memory
<1>4. CASE Load
  <2>1. LoadedQC \subseteq Block
    BY GenesisFacts DEF StoreTypeOK, LoadedQC
  <2>2. PICK c \in Block : best' = c /\ bestKey' = {c}
    BY <1>4, <2>1 DEF Load, StoreTypeOK
  <2> QED
    BY <1>4, <2>1, <2>2 DEF Load, StoreTypeOK
<1> QED
  BY <1>1, <1>2, <1>3, <1>4 DEF Initialize

\* The batch of a block is well-typed.
LEMMA BatchTypeOK ==
    ASSUME StoreTypeOK, NEW b \in Block, b # Genesis, Batch(b), Assign(b),
           UNCHANGED <<phase, crashes, failures>>
    PROVE  StoreTypeOK'
<1>1. Number(b) \in 0 .. MaxNumber
  BY NumberType
<1>2. raw' \subseteq Block /\ best' \in Block /\ bestKey' \subseteq Block /\ qcKey' \subseteq Block
  BY DEF StoreTypeOK, Batch, Assign
<1>3. DOMAIN hash' \subseteq 0 .. MaxNumber /\ \A k \in DOMAIN hash' : hash'[k] \in Block
  BY <1>1 DEF StoreTypeOK, Batch
<1>4. meta' \subseteq Tx \X Block
  <2>1. b \in Seq(Marks) /\ Len(b) \in Nat
    BY BlockIsSeq
  <2>2. Len(b) # 0
    BY GenesisFacts DEF Number
  <2>3. Last(b) \in Marks
    BY <2>1, <2>2, ElementOfSeq DEF Last
  <2>4. BlockTxs(b) \subseteq Tx
    BY <2>3, StoreConstants, Zenon DEF BlockTxs
  <2> QED
    BY <2>4 DEF StoreTypeOK, Batch
<1> QED
  BY <1>2, <1>3, <1>4 DEF StoreTypeOK, Batch
-----------------------------------------------------------------------------
(* The choice of the best block                                             *)

\* Ids of one number are ordered.
LEMMA IdOrder ==
    ASSUME NEW b \in Block, NEW c \in Block, NEW d \in Block,
           Number(b) = Number(c), Number(c) = Number(d)
    PROVE  ~ IdLess(b, b) /\ (IdLess(b, c) /\ IdLess(c, d) => IdLess(b, d))
<1> DEFINE n == Len(b)
<1>1. n \in Nat /\ Len(c) = n
  BY BlockIsSeq DEF Number
<1>2. \A i \in 1 .. n : b[i] \in Nat /\ c[i] \in Nat /\ d[i] \in Nat
  <2>1. /\ b \in Seq(Marks) /\ c \in Seq(Marks) /\ d \in Seq(Marks)
        /\ Len(c) = n /\ Len(d) = n
    BY BlockIsSeq DEF Number
  <2>2. \A i \in 1 .. n : b[i] \in Marks /\ c[i] \in Marks /\ d[i] \in Marks
    BY <2>1, ElementOfSeq
  <2> QED  BY <2>2, StoreConstants, Zenon
<1>3. ~ IdLess(b, b)
  BY <1>2 DEF IdLess
<1>4. ASSUME IdLess(b, c), IdLess(c, d)
      PROVE  IdLess(b, d)
  <2>1. PICK i \in 1 .. n : b[i] < c[i] /\ \A j \in 1 .. i - 1 : b[j] = c[j]
    BY <1>4 DEF IdLess
  <2>2. PICK k \in 1 .. n : c[k] < d[k] /\ \A j \in 1 .. k - 1 : c[j] = d[j]
    BY <1>1, <1>4 DEF IdLess
  <2>3. CASE i < k
    <3>1. i \in 1 .. k - 1 /\ \A j \in 1 .. i - 1 : j \in 1 .. k - 1
      BY <1>1, <2>3
    <3>2. b[i] < d[i] /\ \A j \in 1 .. i - 1 : b[j] = d[j]
      BY <2>1, <2>2, <3>1
    <3> QED  BY <3>2 DEF IdLess
  <2>4. CASE i = k
    <3>1. b[i] < d[i] /\ \A j \in 1 .. i - 1 : b[j] = d[j]
      BY <1>2, <2>1, <2>2, <2>4
    <3> QED  BY <3>1 DEF IdLess
  <2>5. CASE k < i
    <3>1. k \in 1 .. i - 1 /\ \A j \in 1 .. k - 1 : j \in 1 .. i - 1
      BY <1>1, <2>5
    <3>2. b[k] < d[k] /\ \A j \in 1 .. k - 1 : b[j] = d[j]
      BY <2>1, <2>2, <3>1
    <3> QED  BY <3>2 DEF IdLess
  <2> QED  BY <2>3, <2>4, <2>5
<1> QED  BY <1>3, <1>4

\* The block c does as the best block in place of b.
Replaces(c, b) == Number(c) >= Number(b) /\ ~ (Number(c) = Number(b) /\ IdLess(b, c))

\* The block d is on disk as the best one with its certificate.  The best block
\* in memory may replace it; without a failed write it is d itself, which is
\* preferred to all blocks stored.
BestOnDisk(d) ==
    /\ bestKey = {d} /\ qcKey = {d} /\ d \in raw
    /\ phase = "up" => Replaces(best, d)
    /\ failures = 0 => (\A b \in raw : Replaces(d, b)) /\ (phase = "up" => best = d)

StoreInv ==
    /\ StoreTypeOK /\ StoredClosed /\ ValidatorSetsFirst
    /\ \/ bestKey = {} /\ qcKey = {} /\ raw = {} /\ phase # "up"
       \/ \E d \in Block : BestOnDisk(d)

\* Replaces is a preorder, and a block of the trunk replaces the best one.
LEMMA ReplacesFacts ==
    ASSUME NEW b \in Block, NEW c \in Block, NEW d \in Block
    PROVE  Replaces(b, b) /\ (Number(b) > Number(c) \/ (Number(b) = Number(c) /\ IdLess(b, c)) =>
                                  (Replaces(c, d) => Replaces(b, d)))
<1>1. Number(b) \in Nat /\ Number(c) \in Nat /\ Number(d) \in Nat
  BY NumberType
<1>2. Replaces(b, b)
  BY <1>1, IdOrder DEF Replaces
<1>3. ASSUME Number(b) > Number(c), Replaces(c, d)
      PROVE  Replaces(b, d)
  <2>1. Number(b) > Number(d)
    BY <1>1, <1>3 DEF Replaces
  <2> QED  BY <1>1, <2>1 DEF Replaces
<1>4. ASSUME Number(b) = Number(c), IdLess(b, c), Replaces(c, d)
      PROVE  Replaces(b, d)
  <2>1. Number(b) >= Number(d)
    BY <1>4 DEF Replaces
  <2>2. ASSUME Number(b) = Number(d), IdLess(d, b)  PROVE FALSE
    <3>1. IdLess(d, c)
      BY <1>4, <2>2, IdOrder, Zenon
    <3> QED  BY <1>4, <2>2, <3>1 DEF Replaces
  <2> QED  BY <2>1, <2>2 DEF Replaces
<1> QED  BY <1>2, <1>3, <1>4

\* The best block in memory after AddBlock, whether the batch is written or not.
LEMMA AssignFacts ==
    ASSUME StoreTypeOK, NEW d \in Block, Replaces(best, d), NEW b \in Block, Assign(b)
    PROVE  /\ best' \in Block /\ Replaces(best', d) /\ Replaces(best', b)
           /\ best' = IF isTrunk(b) THEN b ELSE best
           /\ isTrunk(b) => \A c \in Block : Replaces(best, c) => Replaces(b, c)
<1>1. best \in Block /\ Number(best) \in Nat /\ Number(b) \in Nat
  BY NumberType DEF StoreTypeOK
<1>2. best' = IF isTrunk(b) THEN b ELSE best
  BY DEF Assign
<1>3. CASE isTrunk(b)
  <2>1. \A c \in Block : Replaces(best, c) => Replaces(b, c)
    BY <1>1, <1>3, ReplacesFacts DEF isTrunk
  <2> QED  BY <1>1, <1>2, <1>3, <2>1, ReplacesFacts
<1>4. CASE ~ isTrunk(b)
  <2>1. Replaces(best, b)
    BY <1>1, <1>4 DEF isTrunk, Replaces
  <2> QED  BY <1>1, <1>2, <1>4, <2>1
<1> QED  BY <1>3, <1>4

\* AddBlock, with and without the batch.
LEMMA AddBlockKeepsStore ==
    ASSUME StoreInv, NEW b \in Block \ {Genesis}, AddBlock(b) \/ AddBlockFails(b)
    PROVE  StoreInv' /\ \A x \in bestKey : \E y \in bestKey' : Replaces(y, x)
<1>1. phase = "up" /\ phase' = "up" /\ crashes' = crashes /\ Assign(b) /\ ParentID(b) \in raw
  BY DEF AddBlock, AddBlockFails, Accepts
<1>2. PICK d \in Block : BestOnDisk(d)
  BY <1>1 DEF StoreInv
<1>3. StoreTypeOK /\ StoredClosed /\ ValidatorSetsFirst /\ Replaces(best, d) /\ raw \subseteq Block
  BY <1>1, <1>2 DEF StoreInv, BestOnDisk, StoreTypeOK
<1>4. /\ best' \in Block /\ Replaces(best', d) /\ Replaces(best', b)
      /\ best' = IF isTrunk(b) THEN b ELSE best
      /\ isTrunk(b) => \A c \in Block : Replaces(best, c) => Replaces(b, c)
  BY <1>1, <1>3, AssignFacts
<1>5. Replaces(b, b) /\ Replaces(d, d)
  BY <1>2, ReplacesFacts
<1>6. CASE AddBlock(b)
  <2>1. /\ raw' = raw \cup {b} /\ vsets' = vsets /\ failures' = failures
        /\ bestKey' = IF isTrunk(b) THEN {b} ELSE bestKey
        /\ qcKey' = IF isTrunk(b) THEN {b} ELSE qcKey
    BY <1>6 DEF AddBlock, Batch
  <2>2. StoreTypeOK'
    BY <1>3, <1>6, BatchTypeOK DEF AddBlock
  <2>3. StoredClosed' /\ ValidatorSetsFirst'
    BY <1>1, <1>2, <1>3, <2>1 DEF StoredClosed, ValidatorSetsFirst, BestOnDisk
  <2>4. CASE isTrunk(b)
    <3>1. \A x \in raw' : failures' = 0 => Replaces(b, x)
      BY <1>1, <1>2, <1>3, <1>4, <1>5, <2>1, <2>4 DEF BestOnDisk
    <3>2. BestOnDisk(b)'
      BY <1>4, <1>5, <2>1, <2>4, <3>1 DEF BestOnDisk
    <3> QED  BY <1>2, <1>4, <2>1, <2>2, <2>3, <2>4, <3>2 DEF StoreInv, BestOnDisk
  <2>5. CASE ~ isTrunk(b)
    <3>1. BestOnDisk(d)'
      BY <1>1, <1>2, <1>4, <2>1, <2>5 DEF BestOnDisk
    <3> QED  BY <1>2, <1>5, <2>1, <2>2, <2>3, <2>5, <3>1 DEF StoreInv, BestOnDisk
  <2> QED  BY <2>4, <2>5
<1>7. CASE AddBlockFails(b)
  <2>1. UNCHANGED disk /\ failures' \in 0 .. MaxFailures /\ failures' # 0
    BY <1>3, <1>7, StoreConstants DEF AddBlockFails, StoreTypeOK
  <2>2. StoreTypeOK'
    BY <1>1, <1>3, <1>4, <2>1 DEF StoreTypeOK, disk
  <2>3. StoredClosed' /\ ValidatorSetsFirst'
    BY <1>3, <2>1 DEF StoredClosed, ValidatorSetsFirst, disk
  <2>4. BestOnDisk(d)'
    BY <1>2, <1>4, <2>1 DEF BestOnDisk, disk
  <2> QED  BY <1>2, <1>5, <2>1, <2>2, <2>3, <2>4 DEF StoreInv, BestOnDisk, disk
<1> QED  BY <1>6, <1>7
\* A start of the process, up to a database that is loaded, and a stop.
LEMMA StartKeepsStore ==
    ASSUME StoreInv, Initialize \/ Crash
    PROVE  StoreInv' /\ \A x \in bestKey : \E y \in bestKey' : Replaces(y, x)
<1>1. StoreTypeOK /\ StoredClosed /\ ValidatorSetsFirst
  BY DEF StoreInv
<1>2. Genesis \in Block /\ \A x \in Block : Replaces(x, x)
  BY GenesisFacts, ReplacesFacts
<1>3. \A x \in bestKey : Replaces(x, x)
  BY <1>1, <1>2 DEF StoreTypeOK
<1>4. StoreTypeOK'
  <2>1. CASE Initialize
    BY <1>1, <2>1, InitializeTypeOK
  <2>2. CASE Crash
    BY <1>1, <1>2, <2>2, StoreConstants DEF Crash, StoreTypeOK, disk
  <2> QED  BY <2>1, <2>2
<1>5. CASE Start \/ Crash
  <2>1. UNCHANGED <<disk, failures>> /\ phase' # "up"
    BY <1>5 DEF Start, Crash
  <2>2. StoredClosed' /\ ValidatorSetsFirst'
    BY <1>1, <2>1 DEF StoredClosed, ValidatorSetsFirst, disk
  <2>3. ASSUME NEW d \in Block, BestOnDisk(d)  PROVE BestOnDisk(d)'
    BY <2>1, <2>3 DEF BestOnDisk, disk
  <2> QED  BY <1>3, <1>4, <2>1, <2>2, <2>3 DEF StoreInv, disk
<1>6. CASE \E v \in {"current", "next"} : SaveValidatorSet(v)
  <2>1. /\ bestKey = {} /\ phase' = phase
        /\ raw' = raw /\ bestKey' = bestKey /\ qcKey' = qcKey
    BY <1>6 DEF SaveValidatorSet, memory
  <2>2. StoredClosed' /\ ValidatorSetsFirst'
    BY <1>1, <2>1 DEF StoredClosed, ValidatorSetsFirst
  <2>3. qcKey = {} /\ raw = {} /\ phase # "up"
    BY <2>1 DEF StoreInv, BestOnDisk
  <2> QED  BY <1>4, <2>1, <2>2, <2>3 DEF StoreInv
<1>7. CASE SaveGenesis
  <2>1. /\ bestKey = {} /\ phase' # "up" /\ vsets' = {"current", "next"}
        /\ raw' = {Genesis} /\ bestKey' = {Genesis} /\ qcKey' = {Genesis}
    BY <1>7 DEF SaveGenesis, memory
  <2>2. StoredClosed' /\ ValidatorSetsFirst'
    BY <2>1 DEF StoredClosed, ValidatorSetsFirst
  <2>3. BestOnDisk(Genesis)'
    BY <1>2, <2>1 DEF BestOnDisk
  <2> QED  BY <1>2, <1>4, <2>1, <2>2, <2>3 DEF StoreInv
<1>8. CASE Load
  <2>1. PICK d \in Block : BestOnDisk(d)
    BY <1>8 DEF StoreInv, Load
  <2>2. bestKey = {d} /\ LoadedQC = {d}
    BY <2>1 DEF BestOnDisk, LoadedQC
  <2>3. /\ best' = d /\ bestKey' = {d} /\ qcKey' = {d}
        /\ raw' = raw /\ vsets' = vsets /\ failures' = failures
    BY <1>8, <2>2 DEF Load
  <2>4. StoredClosed' /\ ValidatorSetsFirst'
    BY <1>1, <2>2, <2>3 DEF StoredClosed, ValidatorSetsFirst
  <2>5. BestOnDisk(d)'
    BY <1>2, <2>1, <2>3 DEF BestOnDisk
  <2> QED  BY <1>2, <1>4, <2>2, <2>3, <2>4, <2>5 DEF StoreInv
<1> QED  BY <1>5, <1>6, <1>7, <1>8 DEF Initialize

\* Every step of the store keeps its invariant, and the best block on disk is
\* replaced by a preferred one only.
LEMMA StoreStep ==
    ASSUME StoreInv, [StoreNext]_storeVars
    PROVE  StoreInv' /\ \A x \in bestKey : \E y \in bestKey' : Replaces(y, x)
<1>1. CASE StoreNext
  BY <1>1, AddBlockKeepsStore, StartKeepsStore DEF StoreNext
<1>2. CASE UNCHANGED storeVars
  <2>1. /\ raw' = raw /\ hash' = hash /\ bestKey' = bestKey /\ qcKey' = qcKey /\ meta' = meta
        /\ vsets' = vsets /\ phase' = phase /\ best' = best
        /\ crashes' = crashes /\ failures' = failures
    BY <1>2 DEF storeVars, disk, memory
  <2>2. StoreTypeOK' /\ StoredClosed' /\ ValidatorSetsFirst'
    BY <2>1 DEF StoreInv, StoreTypeOK, StoredClosed, ValidatorSetsFirst
  <2>3. ASSUME NEW d \in Block, BestOnDisk(d)  PROVE BestOnDisk(d)'
    BY <2>1, <2>3 DEF BestOnDisk
  <2>4. \A x \in bestKey : Replaces(x, x)
    BY ReplacesFacts DEF StoreInv, StoreTypeOK
  <2> QED  BY <2>1, <2>2, <2>3, <2>4 DEF StoreInv
<1> QED  BY <1>1, <1>2

-----------------------------------------------------------------------------
(* Theorems about the store                                                 *)

\* The store on its own keeps its invariant through starts that are
\* interrupted, failed writes and blocks in any order.
THEOREM StoreInvariant == StoreSpec => []StoreInv
<1>1. StoreInit => StoreInv
  <2>1. ASSUME StoreInit  PROVE StoreTypeOK
    BY <2>1, GenesisFacts, StoreConstants DEF StoreInit, StoreTypeOK
  <2> QED  BY <2>1 DEF StoreInit, StoreInv, StoredClosed, ValidatorSetsFirst
<1>2. StoreInv /\ [StoreNext]_storeVars => StoreInv'
  BY StoreStep
<1> QED  BY <1>1, <1>2, PTL DEF StoreSpec

\* A block that AddBlock has stored has all its ancestors stored.
THEOREM StoreClosed == StoreSpec => []StoredClosed
<1>1. StoreInv => StoredClosed
  BY DEF StoreInv
<1> QED  BY <1>1, StoreInvariant, PTL

\* Initialize writes the validator sets before the database has a best block.
THEOREM StoreValidatorSets == StoreSpec => []ValidatorSetsFirst
<1>1. StoreInv => ValidatorSetsFirst
  BY DEF StoreInv
<1> QED  BY <1>1, StoreInvariant, PTL

\* isTrunk makes the best block the preferred one of those stored, in whatever
\* order AddBlock was given them.
THEOREM StoreBest == StoreSpec => []BestIsPreferred
<1>1. StoreInv => BestIsPreferred
  <2> SUFFICES ASSUME StoreInv, phase = "up", failures = 0
               PROVE  BestIsPreferred
    BY DEF BestIsPreferred
  <2>1. PICK d \in Block : BestOnDisk(d)
    BY DEF StoreInv
  <2>2. best = d /\ d \in raw /\ bestKey = {d} /\ qcKey = {d} /\ \A b \in raw : Replaces(d, b)
    BY <2>1 DEF BestOnDisk
  <2>3. Number(d) \in Nat /\ \A b \in raw : Number(b) \in Nat
    BY NumberType DEF StoreInv, StoreTypeOK
  <2>4. \A b \in raw : Number(b) <= Number(d) /\ (Number(b) = Number(d) => ~ IdLess(b, d))
    BY <2>2, <2>3 DEF Replaces
  <2> QED  BY <2>2, <2>4 DEF BestIsPreferred
<1> QED  BY <1>1, StoreInvariant, PTL

\* Neither AddBlock nor the best block that Initialize loads takes the best
\* block on disk back, also after a failed write has left memory ahead of it.
THEOREM StoreNeverGoesBack == StoreSpec => BestNeverGoesBack
<1>1. StoreInv /\ [StoreNext]_storeVars =>
        [\A b \in bestKey : \E c \in bestKey' :
            Number(c) >= Number(b) /\ ~ (Number(c) = Number(b) /\ IdLess(b, c))]_storeVars
  BY StoreStep DEF Replaces
<1> QED  BY <1>1, StoreInvariant, PTL DEF StoreSpec, BestNeverGoesBack

-----------------------------------------------------------------------------
(* The fork that AddBlock reports                                           *)

\* A set of numbers that is not empty has a least element.
LEMMA LeastNumber ==
    ASSUME NEW T, T \subseteq Nat, T # {}
    PROVE  \E x \in T : \A y \in T : x <= y
<1>1. PICK x \in T : \A y \in T : <<y, x>> \notin OpToRel(<, Nat)
  BY WFMin, NatLessThanWellFounded, Zenon
<1>2. \A y \in T : ~ (y < x)
  BY <1>1, Zenon DEF OpToRel
<1> QED  BY <1>2

\* The numbers up to which two blocks have the same ancestors.
Shared(b, c) ==
    {k \in 0 .. Number(b) : k \in 0 .. Number(c) /\ SubSeq(b, 1, k) = SubSeq(c, 1, k)}

\* There is a last such number.
LEMMA LastShared ==
    ASSUME NEW b \in Block, NEW c \in Block
    PROVE  \E k \in Shared(b, c) : \A j \in Shared(b, c) : j <= k
<1>1. PICK m \in Nat : m = Number(b)
  BY NumberType
<1>2. Shared(b, c) \subseteq 0 .. m
  BY <1>1 DEF Shared
<1>3. 0 \in Shared(b, c)
  <2>1. 0 \in 0 .. Number(b) /\ 0 \in 0 .. Number(c)
    BY NumberType
  <2>2. SubSeq(b, 1, 0) = Genesis /\ SubSeq(c, 1, 0) = Genesis
    BY <2>1, AncestorFacts, GenesisFacts, Zenon
  <2> QED  BY <2>1, <2>2 DEF Shared
<1>4. PICK S : S = Shared(b, c)
  BY Zenon
<1>5. PICK T : T = {i \in 0 .. m : m - i \in S}
  BY Zenon
<1>6. m \in T /\ T \subseteq Nat
  BY <1>1, <1>3, <1>4, <1>5
<1>7. PICK x \in T : \A y \in T : x <= y
  BY <1>6, LeastNumber, Zenon
<1>8. m - x \in S /\ \A j \in S : j <= m - x
  <2>1. \A j \in S : m - j \in 0 .. m /\ m - (m - j) = j
    BY <1>2, <1>4
  <2>2. \A j \in S : m - j \in T
    BY <1>5, <2>1
  <2>3. \A j \in S : x <= m - j
    BY <1>7, <2>2
  <2> QED  BY <1>2, <1>4, <1>5, <1>7, <2>3
<1> QED  BY <1>4, <1>8

\* The last common ancestor of two blocks is the one of the last shared number.
LEMMA MeetFacts ==
    ASSUME NEW b \in Block, NEW c \in Block
    PROVE  \E k \in Shared(b, c) : /\ \A j \in Shared(b, c) : j <= k
                                   /\ LongestCommonPrefix({b, c}) = SubSeq(b, 1, k)
                                   /\ Number(LongestCommonPrefix({b, c})) = k
<1> DEFINE CP == CommonPrefixes({b, c})
<1>1. \A k \in Shared(b, c) : /\ SubSeq(b, 1, k) \in Block /\ Number(SubSeq(b, 1, k)) = k
                              /\ SubSeq(b, 1, k) = SubSeq(c, 1, k)
                              /\ k \in 0 .. Len(b) /\ k <= Number(b) /\ k <= Number(c)
  BY AncestorFacts, NumberType DEF Shared, Number
<1>2. ASSUME NEW k \in Shared(b, c)  PROVE SubSeq(b, 1, k) \in CP
  <2>1. PICK p \in Block : p = SubSeq(b, 1, k) /\ p = SubSeq(c, 1, k) /\ Number(p) = k
    BY <1>1, <1>2, Zenon
  <2>2. IsPrefix(p, b) /\ IsPrefix(p, c)
    BY <1>1, <1>2, <2>1, PrefixFacts, Zenon
  <2>3. p \in Prefixes(b)
    BY <1>1, <1>2, <2>1 DEF Prefixes
  <2> QED  BY <2>1, <2>2, <2>3, Zenon DEF CommonPrefixes
<1>3. ASSUME NEW p \in CP
      PROVE  p \in Block /\ Number(p) \in Shared(b, c) /\ p = SubSeq(b, 1, Number(p))
  <2>1. (p \in Prefixes(b) \/ p \in Prefixes(c)) /\ IsPrefix(p, b) /\ IsPrefix(p, c)
    BY <1>3, Zenon DEF CommonPrefixes
  <2>2. \A d \in Block : p \in Prefixes(d) => p \in Block
    BY AncestorFacts, Zenon DEF Prefixes, Number
  <2>3. p \in Block
    BY <2>1, <2>2
  <2>4. /\ Number(p) <= Number(b) /\ p = SubSeq(b, 1, Number(p))
        /\ Number(p) <= Number(c) /\ p = SubSeq(c, 1, Number(p))
    BY <2>1, <2>3, PrefixFacts
  <2>5. Number(p) \in 0 .. Number(b) /\ Number(p) \in 0 .. Number(c)
    BY <2>3, <2>4, NumberType
  <2> QED  BY <2>3, <2>4, <2>5 DEF Shared
<1>4. PICK k \in Shared(b, c) : \A j \in Shared(b, c) : j <= k
  BY LastShared
<1> DEFINE a == LongestCommonPrefix({b, c})
<1>5. a \in CP /\ \A p \in CP : Len(p) <= Len(a)
  <2>1. SubSeq(b, 1, k) \in CP
    BY <1>2
  <2>2. \A p \in CP : Len(p) <= Len(SubSeq(b, 1, k))
    BY <1>1, <1>3, <1>4 DEF Number
  <2> HIDE DEF CP
  <2>3. \E l \in CP : \A p \in CP : Len(p) <= Len(l)
    BY <2>1, <2>2, Zenon
  <2> QED  BY <2>3, Zenon DEF LongestCommonPrefix, CP
<1> HIDE DEF CP, a
<1>6. Number(a) \in Shared(b, c) /\ a = SubSeq(b, 1, Number(a))
  BY <1>3, <1>5
<1>7. \A j \in Shared(b, c) : j <= Number(a)
  BY <1>1, <1>2, <1>5, Zenon DEF Number
<1> QED  BY <1>6, <1>7, Zenon DEF a

\* The ancestor of the last shared number is the last common one.
LEMMA MeetIs ==
    ASSUME NEW b \in Block, NEW c \in Block, NEW k \in Shared(b, c),
           \A j \in Shared(b, c) : j <= k
    PROVE  LongestCommonPrefix({b, c}) = SubSeq(b, 1, k)
<1>1. PICK l \in Shared(b, c) : /\ \A j \in Shared(b, c) : j <= l
                                /\ LongestCommonPrefix({b, c}) = SubSeq(b, 1, l)
  BY MeetFacts, Zenon
<1>2. k <= l /\ l <= k /\ k \in Int /\ l \in Int
  BY <1>1 DEF Shared
<1>3. k = l
  BY <1>2
<1> QED  BY <1>1, <1>3, Zenon

\* Going down from the higher of two blocks keeps the last common ancestor.
LEMMA MeetOfParent ==
    ASSUME NEW b \in Block, NEW c \in Block, Number(b) > Number(c)
    PROVE  /\ LongestCommonPrefix({ParentID(b), c}) = LongestCommonPrefix({b, c})
           /\ LongestCommonPrefix({c, ParentID(b)}) = LongestCommonPrefix({c, b})
<1>1. PICK p \in Block : p = ParentID(b) /\ Number(p) = Number(b) - 1
  BY ParentFacts, NumberType
<1>2. \A k \in 0 .. Number(c) : k \in 0 .. Number(b) - 1 /\ k \in 0 .. Number(b) /\ k \in 0 .. Number(p)
  BY <1>1, NumberType
<1>3. \A k \in 0 .. Number(c) : SubSeq(p, 1, k) = SubSeq(b, 1, k)
  BY <1>1, <1>2, AncestorOfParent, NumberType
<1>4. Shared(p, c) = Shared(b, c)
  BY <1>2, <1>3, Zenon DEF Shared
<1>5. \A k \in Shared(p, c) : SubSeq(p, 1, k) = SubSeq(b, 1, k)
  BY <1>3, Zenon DEF Shared
<1>6. LongestCommonPrefix({p, c}) = LongestCommonPrefix({b, c})
  <2>1. PICK k \in Shared(p, c) : /\ \A j \in Shared(p, c) : j <= k
                                  /\ LongestCommonPrefix({p, c}) = SubSeq(p, 1, k)
    BY MeetFacts, Zenon
  <2>2. LongestCommonPrefix({b, c}) = SubSeq(b, 1, k)
    BY <1>4, <2>1, MeetIs, Zenon
  <2> QED  BY <1>5, <2>1, <2>2, Zenon
<1>7. {c, p} = {p, c} /\ {c, b} = {b, c}
  OBVIOUS
<1> QED  BY <1>1, <1>6, <1>7, Zenon

\* So does going down from two different blocks of one number.
LEMMA MeetOfParents ==
    ASSUME NEW b \in Block, NEW c \in Block, Number(b) = Number(c), b # c
    PROVE  LongestCommonPrefix({ParentID(b), ParentID(c)}) = LongestCommonPrefix({b, c})
<1>1. Number(b) > 0
  BY GenesisFacts, NumberType
<1>2. PICK p \in Block : p = ParentID(b) /\ Number(p) = Number(b) - 1
  BY <1>1, ParentFacts
<1>3. PICK q \in Block : q = ParentID(c) /\ Number(q) = Number(b) - 1
  BY <1>1, ParentFacts
<1>4. \A k \in 0 .. Number(b) - 1 : SubSeq(p, 1, k) = SubSeq(b, 1, k) /\ SubSeq(q, 1, k) = SubSeq(c, 1, k)
  BY <1>1, <1>2, <1>3, AncestorOfParent
<1>5. SubSeq(b, 1, Number(b)) # SubSeq(c, 1, Number(b))
  BY AncestorSelf, Zenon
<1>6. \A k \in Shared(b, c) : k \in 0 .. Number(b) - 1
  BY <1>5, NumberType DEF Shared
<1>7. 0 .. Number(b) - 1 \subseteq 0 .. Number(b)
  BY NumberType
<1>8. Shared(p, q) = Shared(b, c)
  BY <1>2, <1>3, <1>4, <1>6, <1>7 DEF Shared
<1>9. LongestCommonPrefix({p, q}) = LongestCommonPrefix({b, c})
  <2>1. \A k \in Shared(p, q) : SubSeq(p, 1, k) = SubSeq(b, 1, k)
    BY <1>2, <1>4, Zenon DEF Shared
  <2>2. PICK k \in Shared(p, q) : /\ \A j \in Shared(p, q) : j <= k
                                  /\ LongestCommonPrefix({p, q}) = SubSeq(p, 1, k)
    BY MeetFacts, Zenon
  <2>3. LongestCommonPrefix({b, c}) = SubSeq(b, 1, k)
    BY <1>8, <2>2, MeetIs, Zenon
  <2> QED  BY <2>1, <2>2, <2>3, Zenon
<1> QED  BY <1>2, <1>3, <1>9, Zenon

\* The ancestors above a number are those of the parent and the block itself.
LEMMA AboveChild ==
    ASSUME NEW b \in Block, NEW k \in Nat, k < Number(b)
    PROVE  Above(b, k) = Append(Above(ParentID(b), k), b)
<1>1. PICK p \in Block : p = ParentID(b) /\ Number(p) = Number(b) - 1
  BY ParentFacts, NumberType
<1>2. PICK n \in Nat : n = Number(b) - 1 - k
  BY NumberType
<1>3. Number(p) - k = n /\ Number(b) - k = n + 1 /\ Number(b) \in Nat /\ Number(b) > 0
  BY <1>1, <1>2, NumberType
<1>4. /\ \A i \in 1 .. n : k + i \in 0 .. Number(b) - 1 /\ i \in 1 .. n + 1
      /\ \A i \in 1 .. n + 1 : k + i \in 0 .. Number(b)
      /\ k + (n + 1) = Number(b)
  BY <1>2, <1>3
<1>5. PICK x : x = Above(p, k)
  BY Zenon
<1>6. PICK y : y = Above(b, k)
  BY Zenon
<1>7. x = [i \in 1 .. n |-> SubSeq(p, 1, k + i)] /\ y = [i \in 1 .. n + 1 |-> SubSeq(b, 1, k + i)]
  BY <1>3, <1>5, <1>6 DEF Above
<1>8. \A i \in 1 .. n : SubSeq(p, 1, k + i) = SubSeq(b, 1, k + i)
  BY <1>1, <1>3, <1>4, AncestorOfParent, Zenon
<1>9. \A i \in 1 .. n + 1 : SubSeq(b, 1, k + i) \in Block
  BY <1>4, AncestorFacts, Zenon
<1>10. SubSeq(b, 1, k + (n + 1)) = b
  BY <1>4, AncestorSelf
<1>11. x \in Seq(Block) /\ Len(x) = n /\ \A i \in 1 .. n : x[i] = SubSeq(b, 1, k + i)
  <2>1. \A i \in 1 .. n : SubSeq(p, 1, k + i) \in Block
    BY <1>4, <1>8, <1>9, Zenon
  <2>2. x \in Seq(Block) /\ Len(x) = n /\ \A i \in 1 .. n : x[i] = SubSeq(p, 1, k + i)
    BY <1>7, <2>1
  <2> QED  BY <1>8, <2>2, Zenon
<1>12. y \in Seq(Block) /\ Len(y) = n + 1 /\ \A i \in 1 .. n + 1 : y[i] = SubSeq(b, 1, k + i)
  BY <1>7, <1>9
<1>13. /\ Append(x, b) \in Seq(Block) /\ Len(Append(x, b)) = n + 1
       /\ \A i \in 1 .. n : Append(x, b)[i] = x[i]
       /\ Append(x, b)[n + 1] = b
  BY <1>11
<1>14. \A i \in 1 .. n + 1 : i \in 1 .. n \/ i = n + 1
  BY <1>2
<1>15. \A i \in 1 .. n + 1 : Append(x, b)[i] = y[i]
  BY <1>10, <1>11, <1>12, <1>13, <1>14, Zenon
<1>16. y = Append(x, b)
  BY <1>12, <1>13, <1>15, SeqEqual
<1> QED  BY <1>1, <1>5, <1>6, <1>16, Zenon

\* The parents that the walk looks up, from b down to the ancestor of number k.
Backed(b, k) == \A j \in k .. Number(b) - 1 : SubSeq(b, 1, j) \in raw

\* They are those of the parent, and the parent.
LEMMA BackedChild ==
    ASSUME NEW b \in Block, NEW k \in Nat, k < Number(b)
    PROVE  Backed(b, k) <=> Backed(ParentID(b), k) /\ HasParent(b)
<1>1. PICK p \in Block : /\ p = ParentID(b) /\ Number(p) = Number(b) - 1
                         /\ p = SubSeq(b, 1, Number(b) - 1)
  BY ParentFacts, NumberType
<1>2. PICK n \in Nat : n = Number(b) - 1
  BY NumberType
<1>3. \A j \in k .. n - 1 : SubSeq(p, 1, j) = SubSeq(b, 1, j)
  <2>1. \A j \in k .. n - 1 : j \in 0 .. Number(b) - 1
    BY <1>2
  <2>2. Number(b) > 0
    BY <1>2, NumberType
  <2> QED  BY <1>1, <2>1, <2>2, AncestorOfParent, Zenon
<1>4. /\ \A j \in k .. n : j \in k .. n - 1 \/ j = n
      /\ \A j \in k .. n - 1 : j \in k .. n
      /\ n \in k .. n
  BY <1>2, NumberType
<1>5. HasParent(b) <=> p \in raw
  BY <1>1, GenesisFacts, NumberType DEF HasParent
<1>6. Backed(b, k) <=> \A j \in k .. n : SubSeq(b, 1, j) \in raw
  BY <1>2 DEF Backed
<1>7. Backed(p, k) <=> \A j \in k .. n - 1 : SubSeq(b, 1, j) \in raw
  BY <1>1, <1>2, <1>3, Zenon DEF Backed
<1>8. SubSeq(b, 1, n) = p
  BY <1>1, <1>2
<1>9. Backed(b, k) <=> Backed(p, k) /\ p \in raw
  BY <1>4, <1>6, <1>7, <1>8, Zenon
<1> QED  BY <1>1, <1>5, <1>9, Zenon

\* What the walk answers: the fork at the last common ancestor if it finds the
\* parents on both sides.
ForkOf(b1, b2) ==
    LET a == LongestCommonPrefix({b1, b2})
    IN  IF Backed(b1, Number(a)) /\ Backed(b2, Number(a))
        THEN Fork(a, Above(b1, Number(a)), Above(b2, Number(a)))
        ELSE ForkError

\* Two equal heads have met.
LEMMA ForkOfEqual ==
    ASSUME NEW b \in Block
    PROVE  ForkOf(b, b) = Fork(b, << >>, << >>)
<1>1. PICK n \in Nat : n = Number(b)
  BY NumberType
<1>2. \A k \in Shared(b, b) : k <= n
  BY <1>1 DEF Shared
<1>3. n \in Shared(b, b)
  BY <1>1 DEF Shared
<1>4. LongestCommonPrefix({b, b}) = b
  <2>1. PICK k \in Shared(b, b) : (\A j \in Shared(b, b) : j <= k) /\ LongestCommonPrefix({b, b}) = SubSeq(b, 1, k)
    BY MeetFacts, Zenon
  <2>2. k = n
    BY <1>1, <1>2, <1>3, <2>1 DEF Shared
  <2> QED  BY <1>1, <2>1, <2>2, AncestorSelf, Zenon
<1>5. Backed(b, n)
  BY <1>1 DEF Backed
<1>6. Above(b, n) = << >>
  BY <1>1 DEF Above
<1> QED  BY <1>1, <1>4, <1>5, <1>6, Zenon DEF ForkOf

\* A turn of the loop computes it from what the walk answers below.
LEMMA ForkTurn ==
    ASSUME NEW b1 \in Block, NEW b2 \in Block
    PROVE  Turn(b1, b2, ForkOf(Below(b1, b2)[1], Below(b1, b2)[2])) = ForkOf(b1, b2)
<1> DEFINE a == LongestCommonPrefix({b1, b2})
<1>1. Number(b1) \in Nat /\ Number(b2) \in Nat
  BY NumberType
<1>2. CASE b1 = b2
  <2>1. \A lower : Turn(b1, b2, lower) = Fork(b1, << >>, << >>)
    BY <1>2, Zenon DEF Turn
  <2> QED  BY <1>2, <2>1, ForkOfEqual, Zenon
<1>3. PICK k \in Shared(b1, b2) : (\A j \in Shared(b1, b2) : j <= k) /\ Number(a) = k
  BY MeetFacts, Zenon
<1>4. k \in Nat /\ k <= Number(b1) /\ k <= Number(b2)
  BY <1>1, <1>3 DEF Shared
<1> HIDE DEF a
<1> DEFINE p1 == ParentID(b1)
           p2 == ParentID(b2)
<1>5. /\ \A trunk, branch : /\ ~ Fork(a, trunk, branch).err
                             /\ Fork(a, trunk, branch).ancestor = a
                             /\ Fork(a, trunk, branch).trunk = trunk
                             /\ Fork(a, trunk, branch).branch = branch
      /\ ForkError.err
  BY DEF Fork, ForkError
<1>6. ForkOf(b1, b2) = IF Backed(b1, k) /\ Backed(b2, k) THEN Fork(a, Above(b1, k), Above(b2, k))
                       ELSE ForkError
  BY <1>3, Zenon DEF ForkOf, a
<1>7. CASE Number(b1) > Number(b2)
  <2>1. Below(b1, b2) = <<p1, b2>>
    BY <1>1, <1>7 DEF Below
  <2>2. LongestCommonPrefix({p1, b2}) = a
    BY <1>7, MeetOfParent, Zenon DEF a
  <2>3. ForkOf(p1, b2) = IF Backed(p1, k) /\ Backed(b2, k) THEN Fork(a, Above(p1, k), Above(b2, k))
                         ELSE ForkError
    BY <1>3, <2>2, Zenon DEF ForkOf
  <2>4. \A lower : Turn(b1, b2, lower) =
            IF ~ HasParent(b1) \/ lower.err THEN ForkError
            ELSE Fork(lower.ancestor, Append(lower.trunk, b1), lower.branch)
    <3>1. b1 # b2 /\ Number(b1) >= Number(b2) /\ ~ (Number(b2) >= Number(b1))
      BY <1>1, <1>7
    <3> QED  BY <3>1, Zenon DEF Turn, Collect
  <2>5. k < Number(b1)
    BY <1>1, <1>4, <1>7
  <2>6. /\ Above(b1, k) = Append(Above(p1, k), b1)
        /\ Backed(b1, k) <=> Backed(p1, k) /\ HasParent(b1)
    BY <1>4, <2>5, AboveChild, BackedChild, Zenon
  <2>7. PICK lower : lower = ForkOf(p1, b2) /\ lower = ForkOf(Below(b1, b2)[1], Below(b1, b2)[2])
    BY <2>1
  <2>8. CASE Backed(p1, k) /\ Backed(b2, k)
    <3>1. lower = Fork(a, Above(p1, k), Above(b2, k))
      BY <2>3, <2>7, <2>8, Zenon
    <3>2. /\ ~ lower.err /\ lower.ancestor = a
          /\ lower.trunk = Above(p1, k) /\ lower.branch = Above(b2, k)
      BY <1>5, <3>1, Zenon
    <3>3. Turn(b1, b2, lower) = IF ~ HasParent(b1) THEN ForkError ELSE Fork(a, Above(b1, k), Above(b2, k))
      BY <2>4, <2>6, <3>2, Zenon
    <3> QED  BY <1>6, <2>6, <2>7, <2>8, <3>3, Zenon
  <2>9. CASE ~ (Backed(p1, k) /\ Backed(b2, k))
    <3>1. lower.err
      BY <1>5, <2>3, <2>7, <2>9, Zenon
    <3> QED  BY <1>6, <2>4, <2>6, <2>7, <2>9, <3>1, Zenon
  <2> QED  BY <2>8, <2>9
<1>8. CASE Number(b2) > Number(b1)
  <2>1. Below(b1, b2) = <<b1, p2>>
    BY <1>1, <1>8 DEF Below
  <2>2. LongestCommonPrefix({b1, p2}) = a
    BY <1>8, MeetOfParent, Zenon DEF a
  <2>3. ForkOf(b1, p2) = IF Backed(b1, k) /\ Backed(p2, k) THEN Fork(a, Above(b1, k), Above(p2, k))
                         ELSE ForkError
    BY <1>3, <2>2, Zenon DEF ForkOf
  <2>4. \A lower : Turn(b1, b2, lower) =
            IF ~ HasParent(b2) \/ lower.err THEN ForkError
            ELSE Fork(lower.ancestor, lower.trunk, Append(lower.branch, b2))
    <3>1. b1 # b2 /\ Number(b2) >= Number(b1) /\ ~ (Number(b1) >= Number(b2))
      BY <1>1, <1>8
    <3> QED  BY <3>1, Zenon DEF Turn, Collect
  <2>5. k < Number(b2)
    BY <1>1, <1>4, <1>8
  <2>6. /\ Above(b2, k) = Append(Above(p2, k), b2)
        /\ Backed(b2, k) <=> Backed(p2, k) /\ HasParent(b2)
    BY <1>4, <2>5, AboveChild, BackedChild, Zenon
  <2>7. PICK lower : lower = ForkOf(b1, p2) /\ lower = ForkOf(Below(b1, b2)[1], Below(b1, b2)[2])
    BY <2>1
  <2>8. CASE Backed(b1, k) /\ Backed(p2, k)
    <3>1. lower = Fork(a, Above(b1, k), Above(p2, k))
      BY <2>3, <2>7, <2>8, Zenon
    <3>2. /\ ~ lower.err /\ lower.ancestor = a
          /\ lower.trunk = Above(b1, k) /\ lower.branch = Above(p2, k)
      BY <1>5, <3>1, Zenon
    <3>3. Turn(b1, b2, lower) = IF ~ HasParent(b2) THEN ForkError ELSE Fork(a, Above(b1, k), Above(b2, k))
      BY <2>4, <2>6, <3>2, Zenon
    <3> QED  BY <1>6, <2>6, <2>7, <2>8, <3>3, Zenon
  <2>9. CASE ~ (Backed(b1, k) /\ Backed(p2, k))
    <3>1. lower.err
      BY <1>5, <2>3, <2>7, <2>9, Zenon
    <3> QED  BY <1>6, <2>4, <2>6, <2>7, <2>9, <3>1, Zenon
  <2> QED  BY <2>8, <2>9
<1>9. CASE Number(b1) = Number(b2) /\ b1 # b2
  <2>1. Below(b1, b2) = <<p1, p2>>
    BY <1>1, <1>9 DEF Below
  <2>2. LongestCommonPrefix({p1, p2}) = a
    BY <1>9, MeetOfParents, Zenon DEF a
  <2>3. ForkOf(p1, p2) = IF Backed(p1, k) /\ Backed(p2, k) THEN Fork(a, Above(p1, k), Above(p2, k))
                         ELSE ForkError
    BY <1>3, <2>2, Zenon DEF ForkOf
  <2>4. \A lower : Turn(b1, b2, lower) =
            IF ~ HasParent(b1) \/ ~ HasParent(b2) \/ lower.err THEN ForkError
            ELSE Fork(lower.ancestor, Append(lower.trunk, b1), Append(lower.branch, b2))
    <3>1. b1 # b2 /\ Number(b2) >= Number(b1) /\ Number(b1) >= Number(b2)
      BY <1>1, <1>9
    <3> QED  BY <3>1, Zenon DEF Turn, Collect
  <2>5. k < Number(b1) /\ k < Number(b2)
    <3>1. k # Number(b1)
      BY <1>3, <1>9, AncestorSelf DEF Shared
    <3> QED  BY <1>1, <1>4, <1>9, <3>1
  <2>6. /\ Above(b1, k) = Append(Above(p1, k), b1)
        /\ Backed(b1, k) <=> Backed(p1, k) /\ HasParent(b1)
        /\ Above(b2, k) = Append(Above(p2, k), b2)
        /\ Backed(b2, k) <=> Backed(p2, k) /\ HasParent(b2)
    BY <1>4, <2>5, AboveChild, BackedChild, Zenon
  <2>7. PICK lower : lower = ForkOf(p1, p2) /\ lower = ForkOf(Below(b1, b2)[1], Below(b1, b2)[2])
    BY <2>1
  <2>8. CASE Backed(p1, k) /\ Backed(p2, k)
    <3>1. lower = Fork(a, Above(p1, k), Above(p2, k))
      BY <2>3, <2>7, <2>8, Zenon
    <3>2. /\ ~ lower.err /\ lower.ancestor = a
          /\ lower.trunk = Above(p1, k) /\ lower.branch = Above(p2, k)
      BY <1>5, <3>1, Zenon
    <3>3. Turn(b1, b2, lower) = IF ~ HasParent(b1) \/ ~ HasParent(b2) THEN ForkError ELSE Fork(a, Above(b1, k), Above(b2, k))
      BY <2>4, <2>6, <3>2, Zenon
    <3> QED  BY <1>6, <2>6, <2>7, <2>8, <3>3, Zenon
  <2>9. CASE ~ (Backed(p1, k) /\ Backed(p2, k))
    <3>1. lower.err
      BY <1>5, <2>3, <2>7, <2>9, Zenon
    <3> QED  BY <1>6, <2>4, <2>6, <2>7, <2>9, <3>1, Zenon
  <2> QED  BY <2>8, <2>9
<1> QED  BY <1>1, <1>2, <1>7, <1>8, <1>9

\* The heads of the next turn are blocks, and lower ones unless they have met.
LEMMA BelowFacts ==
    ASSUME NEW b1 \in Block, NEW b2 \in Block
    PROVE  /\ Below(b1, b2) \in Block \X Block
           /\ b1 # b2 => Number(Below(b1, b2)[1]) + Number(Below(b1, b2)[2])
                           < Number(b1) + Number(b2)
<1>1. \A b \in Block : Number(b) \in Nat
  BY NumberType
<1>2. \A b \in Block : /\ ParentID(b) \in Block
                       /\ Number(b) > 0 => Number(ParentID(b)) = Number(b) - 1
  <2>1. ParentID(Genesis) = Genesis
    BY DEF ParentID, Front, Genesis
  <2>2. ASSUME NEW b \in Block, Number(b) = 0  PROVE ParentID(b) \in Block
    BY <2>1, <2>2, GenesisFacts, Zenon
  <2> QED  BY <1>1, <2>2, ParentFacts
<1>3. b1 # b2 => Number(b1) > 0 \/ Number(b2) > 0
  BY <1>1, GenesisFacts
<1>4. PICK c1, c2 : /\ Below(b1, b2) = <<c1, c2>>
                    /\ c1 = IF Number(b1) >= Number(b2) THEN ParentID(b1) ELSE b1
                    /\ c2 = IF Number(b2) >= Number(b1) THEN ParentID(b2) ELSE b2
  BY Zenon DEF Below
<1>5. c1 \in Block /\ c2 \in Block
  BY <1>2, <1>4
<1>6. b1 # b2 => Number(c1) + Number(c2) < Number(b1) + Number(b2)
  <2>1. CASE Number(b1) > Number(b2)
    BY <1>1, <1>2, <1>4, <2>1
  <2>2. CASE Number(b2) > Number(b1)
    BY <1>1, <1>2, <1>4, <2>2
  <2>3. CASE Number(b2) = Number(b1)
    BY <1>1, <1>2, <1>3, <1>4, <2>3
  <2> QED  BY <1>1, <2>1, <2>2, <2>3
<1> QED  BY <1>4, <1>5, <1>6

\* forkFrom is a function that satisfies its own equation: there is one that does.
LEMMA ForkEquation ==
    \A b1, b2 \in Block :
        forkFrom[<<b1, b2>>] = Turn(b1, b2, forkFrom[Below(b1, b2)])
<1>1. PICK g : g = [heads \in Block \X Block |-> ForkOf(heads[1], heads[2])]
  BY Zenon
<1>2. \A heads \in Block \X Block :
        ForkOf(heads[1], heads[2]) = Turn(heads[1], heads[2], g[Below(heads[1], heads[2])])
  <2> SUFFICES ASSUME NEW b1 \in Block, NEW b2 \in Block
               PROVE  ForkOf(b1, b2) = Turn(b1, b2, g[Below(b1, b2)])
    OBVIOUS
  <2>1. g[Below(b1, b2)] = ForkOf(Below(b1, b2)[1], Below(b1, b2)[2])
    BY <1>1, BelowFacts
  <2> QED  BY <2>1, ForkTurn, Zenon
<1>3. g = [heads \in Block \X Block |->
             Turn(heads[1], heads[2], g[Below(heads[1], heads[2])])]
  BY <1>1, <1>2, Zenon
<1>4. forkFrom = [heads \in Block \X Block |->
             Turn(heads[1], heads[2], forkFrom[Below(heads[1], heads[2])])]
  BY <1>3, Zenon DEF forkFrom
<1> QED  BY <1>4

\* The walk answers this for any two heads, by induction on their numbers.
LEMMA ForkFrom ==
    ASSUME NEW b \in Block, NEW c \in Block
    PROVE  forkFrom[<<b, c>>] = ForkOf(b, c)
<1> DEFINE Bad == {n \in Nat : \E b1, b2 \in Block :
                      n = Number(b1) + Number(b2) /\ forkFrom[<<b1, b2>>] # ForkOf(b1, b2)}
<1>1. \A b1, b2 \in Block : Number(b1) + Number(b2) \in Nat
  BY NumberType
<1>2. Bad = {}
  <2> SUFFICES ASSUME Bad # {}  PROVE FALSE
    OBVIOUS
  <2>1. Bad \subseteq Nat
    OBVIOUS
  <2> HIDE DEF Bad
  <2>2. PICK n \in Bad : \A m \in Bad : n <= m
    BY <2>1, LeastNumber, Zenon
  <2> USE DEF Bad
  <2>3. PICK b1 \in Block, b2 \in Block :
          n = Number(b1) + Number(b2) /\ forkFrom[<<b1, b2>>] # ForkOf(b1, b2)
    BY <2>2
  <2>4. b1 # b2
    <3> SUFFICES ASSUME b1 = b2  PROVE FALSE
      OBVIOUS
    <3>1. \A lower : Turn(b1, b1, lower) = Fork(b1, << >>, << >>)
      BY Zenon DEF Turn
    <3>2. forkFrom[<<b1, b1>>] = Turn(b1, b1, forkFrom[Below(b1, b1)])
      BY ForkEquation, Zenon
    <3>3. ForkOf(b1, b1) = Fork(b1, << >>, << >>)
      BY ForkOfEqual, Zenon
    <3> QED  BY <2>3, <3>1, <3>2, <3>3, Zenon
  <2>5. PICK c1 \in Block, c2 \in Block : Below(b1, b2) = <<c1, c2>>
    BY BelowFacts
  <2>6. Number(c1) + Number(c2) < n
    BY <2>3, <2>4, <2>5, BelowFacts
  <2>7. forkFrom[<<c1, c2>>] = ForkOf(c1, c2)
    <3>1. Number(c1) + Number(c2) \in Nat /\ n \in Nat
      BY <1>1, <2>1, <2>2, Zenon
    <3>2. ~ (n <= Number(c1) + Number(c2))
      BY <2>6, <3>1
    <3>3. Number(c1) + Number(c2) \notin Bad
      BY <2>2, <3>2, Zenon
    <3> QED  BY <3>1, <3>3, Zenon
  <2>8. Turn(b1, b2, ForkOf(c1, c2)) = ForkOf(b1, b2)
    BY <2>5, ForkTurn
  <2>9. forkFrom[<<b1, b2>>] = Turn(b1, b2, forkFrom[Below(b1, b2)])
    BY ForkEquation, Zenon
  <2> HIDE DEF Bad
  <2> QED  BY <2>3, <2>5, <2>7, <2>8, <2>9
<1> QED  BY <1>1, <1>2

\* The parent of the best block in memory is stored, even if the write of the best
\* block itself has failed.
BestBacked == phase = "up" => best = Genesis \/ ParentID(best) \in raw

\* Every step of the store keeps this.
LEMMA BackedStep ==
    ASSUME StoreInv, BestBacked, [StoreNext]_storeVars
    PROVE  BestBacked'
<1>1. CASE Load
  <2>1. raw' = raw /\ \E b \in bestKey : best' = b \/ best' \in raw
    BY <1>1, Zenon DEF Load
  <2>2. best' \in raw
    BY <1>1, <2>1 DEF StoreInv, BestOnDisk, Load
  <2> QED  BY <2>1, <2>2 DEF BestBacked, StoreInv, StoredClosed
<1>2. ASSUME NEW b \in Block \ {Genesis}, AddBlock(b) \/ AddBlockFails(b)
      PROVE  BestBacked'
  <2>1. /\ phase = "up" /\ raw \subseteq raw' /\ ParentID(b) \in raw
        /\ best' = b \/ best' = best
    BY <1>2 DEF AddBlock, AddBlockFails, Accepts, Batch, Assign, disk
  <2> QED  BY <2>1 DEF BestBacked
<1>3. CASE Start \/ SaveGenesis \/ Crash \/ \E v \in {"current", "next"} : SaveValidatorSet(v)
  BY <1>3 DEF BestBacked, Start, SaveGenesis, Crash, SaveValidatorSet, memory
<1>4. CASE UNCHANGED storeVars
  BY <1>4 DEF BestBacked, storeVars, disk, memory
<1> QED  BY <1>1, <1>2, <1>3, <1>4, Zenon DEF StoreNext, Initialize

\* All ancestors of a block whose parent is stored are stored.
LEMMA StoredBacked ==
    ASSUME StoreTypeOK, StoredClosed, NEW b \in Block, b = Genesis \/ ParentID(b) \in raw,
           NEW k \in Nat
    PROVE  Backed(b, k)
<1>1. PICK n \in Nat : n = Number(b)
  BY NumberType
<1> DEFINE Bad == {i \in Nat : i \in 1 .. n /\ SubSeq(b, 1, n - i) \notin raw}
<1>2. Bad = {}
  <2> SUFFICES ASSUME Bad # {}  PROVE FALSE
    OBVIOUS
  <2>1. Bad \subseteq Nat
    OBVIOUS
  <2> HIDE DEF Bad
  <2>2. PICK i \in Bad : \A j \in Bad : i <= j
    BY <2>1, LeastNumber, Zenon
  <2> USE DEF Bad
  <2>3. i \in 1 .. n /\ SubSeq(b, 1, n - i) \notin raw
    BY <2>2
  <2>4. b # Genesis /\ Number(b) > 0
    BY <1>1, <2>3, GenesisFacts
  <2>5. i # 1
    <3>1. SubSeq(b, 1, n - 1) \in raw
      BY <1>1, <2>4, ParentFacts, Zenon
    <3> QED  BY <2>3, <3>1, Zenon
  <2>6. PICK m \in Nat : m = n - (i - 1)
    BY <2>3
  <2>7. i - 1 \in Nat /\ i - 1 \in 1 .. n /\ i - 1 < i /\ m \in 0 .. Number(b) /\ m > 0 /\ m - 1 = n - i
    BY <1>1, <2>3, <2>5, <2>6
  <2>8. SubSeq(b, 1, m) \in raw
    BY <2>1, <2>2, <2>6, <2>7
  <2>9. PICK c \in Block : c = SubSeq(b, 1, m) /\ Number(c) = m /\ c # Genesis
    <3>1. SubSeq(b, 1, m) \in Block /\ Number(SubSeq(b, 1, m)) = m
      BY <2>7, AncestorFacts, Zenon
    <3>2. Number(Genesis) # m
      BY <2>7, GenesisFacts
    <3> QED  BY <3>1, <3>2, Zenon
  <2>10. ParentID(c) = SubSeq(b, 1, n - i)
    <3>1. ParentID(c) = SubSeq(c, 1, m - 1)
      BY <2>7, <2>9, ParentFacts, Zenon
    <3>2. SubSeq(c, 1, m - 1) = SubSeq(b, 1, m - 1)
      BY <2>7, <2>9, AncestorOfAncestor
    <3> QED  BY <2>7, <3>1, <3>2
  <2> QED  BY <2>3, <2>8, <2>9, <2>10, Zenon DEF StoredClosed
<1>3. ASSUME NEW j \in k .. Number(b) - 1  PROVE SubSeq(b, 1, j) \in raw
  <2>1. n - j \in Nat /\ n - j \in 1 .. n /\ n - (n - j) = j
    BY <1>1, <1>3
  <2>2. n - j \notin Bad
    BY <1>2, Zenon
  <2> QED  BY <2>1, <2>2
<1> QED  BY <1>3 DEF Backed

\* Whatever branches are stored, and although a failed write may have left a best
\* block in memory that is not stored, AddBlock of a new best block finds all the
\* parents it looks up, and reports exactly what lies above the last common
\* ancestor on both sides.
THEOREM StoreForkExact == StoreSpec => []ForkIsExact
<1>1. StoreInit => BestBacked
  BY DEF StoreInit, BestBacked
<1>2. StoreInv /\ BestBacked /\ [StoreNext]_storeVars => BestBacked'
  BY BackedStep
<1>3. StoreInv /\ BestBacked => ForkIsExact
  <2> SUFFICES ASSUME StoreInv, BestBacked, NEW b \in Block \ {Genesis}, phase = "up", Accepts(b)
               PROVE  LET a == LongestCommonPrefix({b, best})
                      IN  buildFork(b, best) = Fork(a, Above(b, Number(a)), Above(best, Number(a)))
    BY Zenon DEF ForkIsExact
  <2>1. StoreTypeOK /\ StoredClosed /\ best \in Block
    BY DEF StoreInv, StoreTypeOK
  <2>2. Number(LongestCommonPrefix({b, best})) \in Nat
    BY <2>1, MeetFacts, NumberType DEF Shared
  <2>3. /\ Backed(b, Number(LongestCommonPrefix({b, best})))
        /\ Backed(best, Number(LongestCommonPrefix({b, best})))
    BY <2>1, <2>2, StoredBacked DEF BestBacked, Accepts
  <2> QED  BY <2>1, <2>3, ForkFrom, Zenon DEF buildFork, ForkOf
<1> QED  BY <1>1, <1>2, <1>3, StoreInvariant, PTL DEF StoreSpec

=============================================================================
