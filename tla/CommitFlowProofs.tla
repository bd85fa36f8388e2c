-------------------------- MODULE CommitFlowProofs --------------------------
(***************************************************************************)
(* Proofs about the commit flow, for every set of marks and transactions   *)
(* and every bound: the state is well-typed, the number index names the    *)
(* trunk, and the database implements DecidedLog; what the application has *)
(* executed is what is stored, in the order of the chain, and a            *)
(* transaction lookup answers it.                                          *)
(***************************************************************************)
EXTENDS CommitFlow, ChainStoreProofs

-----------------------------------------------------------------------------
(* What the steps do to the database                                        *)

\* The genesis batch leaves the database with the genesis alone.
LEMMA SaveGenesisStores ==
    ASSUME SaveGenesis
    PROVE  StoredUpTo(Genesis)'
<1>1. Genesis \in Block /\ Number(Genesis) = 0 /\ SubSeq(Genesis, 1, 0) = Genesis
  BY GenesisFacts, AncestorSelf
<1>2. 0 .. Number(Genesis) = {0}
  BY <1>1
<1>3. raw' = {SubSeq(Genesis, 1, k) : k \in 0 .. Number(Genesis)}
  BY <1>1, <1>2, Zenon DEF SaveGenesis
<1>4. hash' = [k \in 0 .. Number(Genesis) |-> SubSeq(Genesis, 1, k)]
  <2>1. \A k \in {0} : SubSeq(Genesis, 1, k) = Genesis
    BY <1>1
  <2> QED
    BY <1>2, <2>1, Zenon DEF SaveGenesis
<1> QED
  BY <1>3, <1>4 DEF SaveGenesis, StoredUpTo

\* A block above the best one that AddBlock takes is the child of the block on
\* disk: only the last of the ancestors stored can be its parent.
LEMMA AcceptedIsChild ==
    ASSUME NEW d \in Block, StoredUpTo(d), best \in Block, Number(best) >= Number(d),
           NEW b \in Block, Number(b) > Number(best), Accepts(b)
    PROVE  ParentID(b) = d /\ Number(b) = Number(d) + 1
<1>1. Number(b) \in Nat /\ Number(d) \in Nat /\ Number(best) \in Nat
  BY NumberType
<1>2. Number(b) > 0
  BY <1>1
<1>3. PICK k \in 0 .. Number(d) : ParentID(b) = SubSeq(d, 1, k)
  BY DEF Accepts, StoredUpTo
<1>4. Number(ParentID(b)) = k
  BY <1>3, AncestorFacts
<1>5. Number(ParentID(b)) = Number(b) - 1
  BY <1>2, ParentFacts
<1>6. k = Number(d) /\ Number(b) = Number(d) + 1
  BY <1>1, <1>3, <1>4, <1>5
<1> QED
  BY <1>3, <1>6, AncestorSelf

\* The batch of the child of the block on disk leaves the child's branch there.
LEMMA BatchExtends ==
    ASSUME NEW d \in Block, StoredUpTo(d), best \in Block, Number(best) >= Number(d),
           NEW b \in Block, Number(b) > Number(best), Accepts(b), Batch(b)
    PROVE  StoredUpTo(b)'
<1>1. ParentID(b) = d /\ Number(b) = Number(d) + 1
  BY AcceptedIsChild
<1>2. Number(b) \in Nat /\ Number(d) \in Nat /\ Number(b) > 0
  BY <1>1, NumberType
<1>3. \A k \in 0 .. Number(d) : SubSeq(d, 1, k) = SubSeq(b, 1, k)
  <2>1. Number(b) - 1 = Number(d)
    BY <1>1, <1>2
  <2> QED
    BY <1>1, <1>2, <2>1, AncestorOfParent
<1>4. SubSeq(b, 1, Number(b)) = b
  BY AncestorSelf
<1>5. 0 .. Number(b) = (0 .. Number(d)) \cup {Number(b)} /\ Number(b) \notin 0 .. Number(d)
  BY <1>1, <1>2
<1>6. bestKey' = {b} /\ qcKey' = {b}
  BY DEF Batch, isTrunk
<1>7. raw' = {SubSeq(b, 1, k) : k \in 0 .. Number(b)}
  <2>1. raw' = {SubSeq(d, 1, k) : k \in 0 .. Number(d)} \cup {b}
    BY DEF Batch, StoredUpTo
  <2> QED
    BY <1>3, <1>4, <1>5, <2>1, Zenon
<1>8. hash' = [k \in 0 .. Number(b) |-> SubSeq(b, 1, k)]
  <2>1. DOMAIN hash = 0 .. Number(d) /\ \A k \in 0 .. Number(d) : hash[k] = SubSeq(b, 1, k)
    BY <1>3, Zenon DEF StoredUpTo
  <2>2. hash' = [k \in 0 .. Number(b) |-> IF k = Number(b) THEN b ELSE hash[k]]
    BY <1>5, <2>1, Zenon DEF Batch
  <2>3. \A k \in 0 .. Number(b) :
           (IF k = Number(b) THEN b ELSE hash[k]) = SubSeq(b, 1, k)
    BY <1>4, <1>5, <2>1, Zenon
  <2> QED
    BY <2>2, <2>3, Zenon
<1> QED
  BY <1>6, <1>7, <1>8 DEF StoredUpTo

-----------------------------------------------------------------------------
(* Types of the commit flow                                                 *)

\* The initial state is well-typed.
LEMMA InitTypeOK == Init => TypeOK
BY GenesisFacts, EmptySeq, StoreConstants DEF Init, StoreInit, TypeOK, StoreTypeOK

\* Every step of CommitFlow keeps the state well-typed.
LEMMA NextTypeOK ==
    ASSUME TypeOK, AppliedAbove, [Next]_vars
    PROVE  TypeOK'
<1>1. CASE Handshake
  BY <1>1, InitializeTypeOK DEF Handshake, TypeOK, StoreTypeOK
<1>2. ASSUME NEW b \in Block, Update(b) PROVE TypeOK'
  <2>1. Number(b) \in Nat /\ Number(lastCommitted) \in Nat
    BY NumberType DEF TypeOK
  <2>2. \A k \in 1 .. Number(b) - Number(lastCommitted) :
           SubSeq(b, 1, Number(lastCommitted) + k) \in Block
    <3>1. \A k \in 1 .. Number(b) - Number(lastCommitted) :
             Number(lastCommitted) + k \in 0 .. Number(b)
      BY <2>1
    <3> QED
      BY <3>1, AncestorFacts
  <2>3. Number(b) - Number(lastCommitted) \in Nat
    BY <1>2, <2>1 DEF Update
  <2>4. CommitReady(b) \in Seq(Block)
    <3>1. CommitReady(b) \in [1 .. Number(b) - Number(lastCommitted) -> Block]
      BY <2>2 DEF CommitReady
    <3> QED
      BY <2>3, <3>1, SeqDef
  <2> QED
    BY <1>2, <2>4 DEF Update, TypeOK, StoreTypeOK, storeVars, disk, memory
<1>3. CASE SkipKnown
  <2>1. Tail(ready) \in Seq(Block)
    BY <1>3 DEF SkipKnown, TypeOK
  <2> QED
    BY <1>3, <2>1 DEF SkipKnown, TypeOK, StoreTypeOK, storeVars, disk, memory
<1>4. CASE SkipFailed
  <2>1. Tail(ready) \in Seq(Block)
    BY <1>4 DEF SkipFailed, TypeOK
  <2>2. failures' \in 0 .. MaxFailures
    BY <1>4, StoreConstants DEF SkipFailed, TypeOK, StoreTypeOK
  <2> QED
    BY <1>4, <2>1, <2>2 DEF SkipFailed, TypeOK, StoreTypeOK, disk, memory
<1>5. CASE ApplyBlock
  <2>1. Head(ready) \in Block
    BY <1>5 DEF ApplyBlock, TypeOK
  <2>2. Append(app, Head(ready)) \in Seq(Block)
    BY <2>1 DEF TypeOK
  <2> QED
    BY <1>5, <2>1, <2>2 DEF ApplyBlock, TypeOK, StoreTypeOK, storeVars, disk, memory
<1>6. ASSUME NEW b \in Block, CommitBlock(b) PROVE TypeOK'
  <2>1. b # Genesis
    <3>1. Number(b) > Number(best) /\ Number(best) \in Nat
      BY <1>6, NumberType DEF CommitBlock, AppliedAbove, TypeOK, StoreTypeOK
    <3> QED
      BY <3>1, GenesisFacts
  <2>2. StoreTypeOK'
    <3>1. CASE AddBlock(b)
      BY <2>1, <3>1, BatchTypeOK DEF AddBlock, TypeOK
    <3>2. CASE AddBlockFails(b)
      <4>1. failures' \in 0 .. MaxFailures
        BY <3>2, StoreConstants DEF AddBlockFails, TypeOK, StoreTypeOK
      <4> QED
        BY <3>2, <4>1 DEF AddBlockFails, Assign, TypeOK, StoreTypeOK, disk
    <3>3. CASE UNCHANGED storeVars
      BY <3>3 DEF TypeOK, StoreTypeOK, storeVars, disk, memory
    <3> QED
      BY <1>6, <3>1, <3>2, <3>3 DEF CommitBlock
  <2>3. ready' \in Seq(Block)
    <3>1. ready # << >>
      BY <1>6 DEF CommitBlock, AppliedAbove
    <3> QED
      BY <1>6, <3>1 DEF CommitBlock, TypeOK
  <2>4. lastCommitted' \in Block
    BY <1>6 DEF CommitBlock, TypeOK
  <2> QED
    BY <1>6, <2>2, <2>3, <2>4 DEF CommitBlock, TypeOK
<1>7. CASE Stop
  <2>1. Genesis \in Block /\ << >> \in Seq(Block)
    BY GenesisFacts, EmptySeq
  <2>2. crashes' \in 0 .. MaxCrashes
    BY <1>7, StoreConstants DEF Stop, Crash, TypeOK, StoreTypeOK
  <2> QED
    BY <1>7, <2>1, <2>2 DEF Stop, Crash, TypeOK, StoreTypeOK, disk
<1>8. CASE UNCHANGED vars
  BY <1>8 DEF TypeOK, StoreTypeOK, vars, storeVars, flowVars, disk, memory
<1> QED
  BY <1>1, <1>2, <1>3, <1>4, <1>5, <1>6, <1>7, <1>8 DEF Next

-----------------------------------------------------------------------------
(* The inductive invariant of the commit flow                               *)

\* Initialize leaves the database empty, with the genesis, or as it was, and
\* what it loads is the best block on disk.
LEMMA InitializeStored ==
    ASSUME TypeOK, StoredIsTrunk, Initialize
    PROVE  StoredIsTrunk'
<1>1. CASE Start
  BY <1>1 DEF Start, StoredIsTrunk, StoredUpTo, disk
<1>2. CASE \E v \in {"current", "next"} : SaveValidatorSet(v)
  BY <1>2 DEF SaveValidatorSet, StoredIsTrunk, StoredUpTo, memory
<1>3. CASE SaveGenesis
  <2>1. StoredUpTo(Genesis)' /\ Genesis \in Block
    BY <1>3, SaveGenesisStores, GenesisFacts
  <2>2. phase' # "up"
    BY <1>3 DEF SaveGenesis, memory
  <2> QED
    BY <2>1, <2>2 DEF StoredIsTrunk
<1>4. CASE Load
  <2>1. PICK d \in Block : StoredUpTo(d)
    BY <1>4 DEF Load, StoredIsTrunk
  <2>2. LoadedQC = {d} /\ bestKey = {d}
    BY <2>1 DEF LoadedQC, StoredUpTo
  <2>3. best' = d /\ bestKey' = {d} /\ qcKey' = {d}
    BY <1>4, <2>2 DEF Load
  <2>4. StoredUpTo(d)'
    BY <1>4, <2>1, <2>3 DEF Load, StoredUpTo
  <2>5. Number(best') >= Number(d)
    BY <2>3, NumberType
  <2> QED
    BY <2>4, <2>5 DEF StoredIsTrunk
<1> QED
  BY <1>1, <1>2, <1>3, <1>4 DEF Initialize

\* A step that changes neither the database nor the memory of the store.
LEMMA SameStored ==
    ASSUME StoredIsTrunk, UNCHANGED <<disk, memory>>
    PROVE  StoredIsTrunk'
BY DEF StoredIsTrunk, StoredUpTo, disk, memory

\* Whatever becomes of the block in AddBlock, the database holds one branch.
LEMMA CommitStored ==
    ASSUME IInv, NEW b \in Block, CommitBlock(b)
    PROVE  StoredIsTrunk'
<1>1. phase = "up" /\ Number(b) > Number(best) /\ best \in Block
  BY DEF IInv, TypeOK, StoreTypeOK, AppliedAbove, CommitBlock
<1>2. PICK d \in Block : StoredUpTo(d) /\ Number(best) >= Number(d)
  BY <1>1 DEF IInv, StoredIsTrunk
<1>3. Number(b) \in Nat /\ Number(d) \in Nat /\ Number(best) \in Nat
  BY <1>1, NumberType
<1>4. CASE AddBlock(b)
  <2>1. StoredUpTo(b)'
    BY <1>1, <1>2, <1>4, BatchExtends DEF AddBlock
  <2>2. best' = b /\ Number(best') >= Number(b)
    BY <1>1, <1>3, <1>4 DEF AddBlock, Assign, isTrunk
  <2> QED
    BY <2>1, <2>2 DEF StoredIsTrunk
<1>5. CASE AddBlockFails(b)
  <2>1. StoredUpTo(d)'
    BY <1>2, <1>5 DEF AddBlockFails, StoredUpTo, disk
  <2>2. best' = b
    BY <1>1, <1>5 DEF AddBlockFails, Assign, isTrunk
  <2>3. Number(best') >= Number(d)
    BY <1>1, <1>2, <1>3, <2>2
  <2> QED
    BY <2>1, <2>3 DEF StoredIsTrunk
<1>6. CASE UNCHANGED storeVars
  BY <1>6, SameStored DEF IInv, storeVars
<1> QED
  BY <1>4, <1>5, <1>6 DEF CommitBlock

\* IInv is inductive.
LEMMA NextIInv ==
    ASSUME IInv, [Next]_vars
    PROVE  IInv'
<1>1. TypeOK'
  BY NextTypeOK DEF IInv
<1>2. StoredIsTrunk'
  <2>1. CASE Handshake
    BY <2>1, InitializeStored DEF IInv, Handshake
  <2>2. ASSUME NEW b \in Block, Update(b) PROVE StoredIsTrunk'
    BY <2>2, SameStored DEF IInv, Update, storeVars
  <2>3. ASSUME NEW b \in Block, CommitBlock(b) PROVE StoredIsTrunk'
    BY <2>3, CommitStored
  <2>4. CASE SkipKnown \/ ApplyBlock
    BY <2>4, SameStored DEF IInv, SkipKnown, ApplyBlock, storeVars
  <2>5. CASE SkipFailed
    BY <2>5, SameStored DEF IInv, SkipFailed
  <2>6. CASE Stop
    BY <2>6 DEF IInv, StoredIsTrunk, StoredUpTo, Stop, Crash, disk
  <2>7. CASE UNCHANGED vars
    BY <2>7, SameStored DEF IInv, vars, storeVars
  <2> QED
    BY <2>1, <2>2, <2>3, <2>4, <2>5, <2>6, <2>7 DEF Next
<1>3. AppliedAbove'
  <2>1. CASE Handshake
    <3>1. applied = {}
      BY <2>1 DEF IInv, AppliedAbove, Handshake, Initialize, Start, SaveValidatorSet,
                  SaveGenesis, Load
    <3> QED
      BY <2>1, <3>1 DEF Handshake, AppliedAbove
  <2>2. ASSUME NEW b \in Block, Update(b) PROVE AppliedAbove'
    <3>1. applied' = {}
      BY <2>2 DEF Update, IInv, AppliedAbove
    <3> QED
      BY <3>1 DEF AppliedAbove
  <2>3. ASSUME NEW b \in Block, CommitBlock(b) PROVE AppliedAbove'
    BY <2>3 DEF CommitBlock, AppliedAbove
  <2>4. CASE SkipKnown \/ SkipFailed \/ Stop
    BY <2>4 DEF SkipKnown, SkipFailed, Stop, AppliedAbove
  <2>5. CASE ApplyBlock
    <3>1. Head(ready) \in Block /\ best \in Block
      BY <2>5 DEF ApplyBlock, IInv, TypeOK, StoreTypeOK
    <3>2. Number(Head(ready)) > Number(best)
      BY <2>5, <3>1, NumberType DEF ApplyBlock, IsBlockFinalized
    <3> QED
      BY <2>5, <3>2 DEF ApplyBlock, AppliedAbove, storeVars, memory
  <2>6. CASE UNCHANGED vars
    BY <2>6 DEF IInv, AppliedAbove, vars, storeVars, flowVars, memory
  <2> QED
    BY <2>1, <2>2, <2>3, <2>4, <2>5, <2>6 DEF Next
<1> QED
  BY <1>1, <1>2, <1>3 DEF IInv

\* IInv holds in every state the chain store and the commit path reach.
THEOREM FlowInvariant == Spec => []IInv
<1>1. Init => IInv
  <2>1. Init => StoredIsTrunk /\ AppliedAbove
    BY DEF Init, StoreInit, StoredIsTrunk, AppliedAbove
  <2> QED
    BY <2>1, InitTypeOK DEF IInv
<1>2. IInv /\ [Next]_vars => IInv'
  BY NextIInv
<1> QED
  BY <1>1, <1>2, PTL DEF Spec

\* Blocks are executed, stored and indexed with the types the model gives them.
THEOREM FlowTypeOK == Spec => []TypeOK
<1>1. IInv => TypeOK
  BY DEF IInv
<1> QED
  BY <1>1, FlowInvariant, PTL

\* The number index names the ancestors of the best block on disk, whatever
\* certified branches, stops and failed writes come (saveBlockHash, AddBlock).
THEOREM FlowTrunkIndexed == Spec => []TrunkIndexed
<1>1. IInv => TrunkIndexed
  <2>1. ASSUME NEW d \in Block, StoredUpTo(d) PROVE TrunkIndexed
    BY <2>1 DEF StoredUpTo, TrunkIndexed
  <2>2. ASSUME bestKey = {} PROVE TrunkIndexed
    BY <2>2 DEF TrunkIndexed
  <2> QED
    BY <2>1, <2>2 DEF IInv, StoredIsTrunk
<1> QED
  BY <1>1, FlowInvariant, PTL

-----------------------------------------------------------------------------
(* The database implements DecidedLog                                       *)

\* Reading the marks of the ancestors of d one by one gives d.
LEMMA LogOfBranch ==
    ASSUME NEW d \in Block
    PROVE  [k \in 1 .. Number(d) |-> Last(SubSeq(d, 1, k))] = d
<1>1. d \in Seq(Marks) /\ Number(d) \in Nat /\ Len(d) = Number(d)
  BY BlockIsSeq DEF Number
<1>2. ASSUME NEW k \in 1 .. Number(d) PROVE Last(SubSeq(d, 1, k)) = d[k]
  <2>1. k \in 0 .. Number(d) /\ k \in 1 .. k
    BY <1>1
  <2>2. Len(SubSeq(d, 1, k)) = k /\ SubSeq(d, 1, k)[k] = d[k]
    BY <2>1, AncestorFacts DEF Number
  <2> QED
    BY <2>2, Zenon DEF Last
<1>3. d = [k \in 1 .. Number(d) |-> d[k]]
  BY <1>1, LenProperties
<1> QED
  BY <1>2, <1>3, Zenon

\* With d on disk, readers get d.
LEMMA LogRead ==
    ASSUME NEW d \in Block
    PROVE  /\ StoredUpTo(d) => IndexedLog = d
           /\ StoredUpTo(d)' => IndexedLog' = d
<1>1. (CHOOSE b \in {d} : TRUE) = d
  OBVIOUS
<1>2. {d} # {}
  OBVIOUS
<1>3. \A k \in 1 .. Number(d) : k \in 0 .. Number(d)
  BY NumberType
<1>4. ASSUME StoredUpTo(d) PROVE IndexedLog = d
  <2>1. bestKey = {d} /\ hash = [k \in 0 .. Number(d) |-> SubSeq(d, 1, k)]
    BY <1>4 DEF StoredUpTo
  <2>2. IndexedLog = [k \in 1 .. Number(d) |-> Last(hash[k])]
    BY <1>1, <1>2, <2>1, Zenon DEF IndexedLog
  <2>3. \A k \in 1 .. Number(d) : hash[k] = SubSeq(d, 1, k)
    BY <1>3, <2>1
  <2>4. IndexedLog = [k \in 1 .. Number(d) |-> Last(SubSeq(d, 1, k))]
    BY <2>2, <2>3, Zenon
  <2> QED
    BY <2>4, LogOfBranch, Zenon
<1>5. ASSUME StoredUpTo(d)' PROVE IndexedLog' = d
  <2>1. bestKey' = {d} /\ hash' = [k \in 0 .. Number(d) |-> SubSeq(d, 1, k)]
    BY <1>5 DEF StoredUpTo
  <2>2. IndexedLog' = [k \in 1 .. Number(d) |-> Last(hash'[k])]
    BY <1>1, <1>2, <2>1, Zenon DEF IndexedLog
  <2>3. \A k \in 1 .. Number(d) : hash'[k] = SubSeq(d, 1, k)
    BY <1>3, <2>1
  <2>4. IndexedLog' = [k \in 1 .. Number(d) |-> Last(SubSeq(d, 1, k))]
    BY <2>2, <2>3, Zenon
  <2> QED
    BY <2>4, LogOfBranch, Zenon
<1> QED
  BY <1>4, <1>5

\* With an empty database, readers get nothing.
LEMMA LogEmpty ==
    /\ bestKey = {} => IndexedLog = << >>
    /\ bestKey' = {} => IndexedLog' = << >>
<1>1. 1 .. 0 = {}
  OBVIOUS
<1>2. \A f : [k \in 1 .. 0 |-> Last(f[k])] = << >>
  BY <1>1
<1> QED
  BY <1>2 DEF IndexedLog

\* A block is its parent and its own mark.
LEMMA ParentAndMark ==
    ASSUME NEW b \in Block, Number(b) > 0
    PROVE  Last(b) \in Marks /\ b = Append(ParentID(b), Last(b))
<1> DEFINE p == ParentID(b)
<1>1. b \in Seq(Marks) /\ Len(b) \in Nat /\ Len(b) > 0
  BY BlockIsSeq DEF Number
<1>2. Last(b) \in Marks /\ Last(b) = b[Len(b)]
  BY <1>1, ElementOfSeq DEF Last
<1>3. p \in Seq(Marks) /\ Len(p) = Len(b) - 1 /\ \A i \in 1 .. Len(b) - 1 : p[i] = b[i]
  BY ParentFacts, AncestorFacts, BlockIsSeq DEF Number
<1> HIDE DEF p
<1>4. /\ Append(p, Last(b)) \in Seq(Marks)
      /\ Len(Append(p, Last(b))) = Len(b)
      /\ \A i \in 1 .. Len(b) : Append(p, Last(b))[i] = b[i]
  BY <1>1, <1>2, <1>3
<1>5. b = Append(p, Last(b))
  BY <1>1, <1>4, SeqEqual
<1> QED
  BY <1>2, <1>5 DEF p

\* A step that leaves the best block and the index alone leaves the log alone.
LEMMA SameLog ==
    ASSUME UNCHANGED <<bestKey, hash>>
    PROVE  UNCHANGED IndexedLog
BY Zenon DEF IndexedLog

\* Every step of CommitFlow adds one decided block to the log readers see, or
\* leaves it as it is: the database implements the append-only log.
THEOREM FlowImplementsLog == Spec => ReadersSeeLog
<1>1. Init => D!NothingDecided
  BY LogEmpty DEF Init, StoreInit, D!NothingDecided
<1>2. ASSUME IInv, [Next]_vars
      PROVE  [\E mark \in Marks : D!DecideNext(mark)]_IndexedLog
  <2>1. CASE Handshake
    <3>1. CASE Start \/ \E v \in {"current", "next"} : SaveValidatorSet(v)
      BY <3>1, SameLog DEF Start, SaveValidatorSet, disk
    <3>2. CASE SaveGenesis
      <4>1. IndexedLog = << >>
        BY <3>2, LogEmpty DEF SaveGenesis
      <4>2. IndexedLog' = Genesis
        BY <3>2, SaveGenesisStores, LogRead, GenesisFacts
      <4> QED
        BY <4>1, <4>2 DEF Genesis
    <3>3. CASE Load
      <4>1. PICK d \in Block : StoredUpTo(d)
        BY <1>2, <3>3 DEF IInv, Load, StoredIsTrunk
      <4>2. bestKey' = {d}
        BY <3>3, <4>1 DEF Load, LoadedQC, StoredUpTo
      <4>3. UNCHANGED <<bestKey, hash>>
        BY <3>3, <4>1, <4>2, Zenon DEF Load, StoredUpTo
      <4> QED
        BY <4>3, SameLog
    <3> QED
      BY <2>1, <3>1, <3>2, <3>3 DEF Handshake, Initialize
  <2>2. ASSUME NEW b \in Block, CommitBlock(b), AddBlock(b)
        PROVE  \E mark \in Marks : D!DecideNext(mark)
    <3>1. phase = "up" /\ Number(b) > Number(best) /\ best \in Block
      BY <1>2, <2>2 DEF IInv, TypeOK, StoreTypeOK, AppliedAbove, CommitBlock
    <3>2. PICK d \in Block : StoredUpTo(d) /\ Number(best) >= Number(d)
      BY <1>2, <3>1 DEF IInv, StoredIsTrunk
    <3>3. ParentID(b) = d /\ Number(b) > 0
      BY <2>2, <3>1, <3>2, AcceptedIsChild, NumberType DEF AddBlock
    <3>4. IndexedLog = d
      BY <3>2, LogRead
    <3>5. IndexedLog' = b
      BY <2>2, <3>1, <3>2, BatchExtends, LogRead DEF AddBlock
    <3>6. Last(b) \in Marks /\ b = Append(d, Last(b))
      BY <3>3, ParentAndMark
    <3> QED
      BY <3>4, <3>5, <3>6 DEF D!DecideNext
  <2>3. ASSUME NEW b \in Block, Update(b) \/ (CommitBlock(b) /\ ~ AddBlock(b))
        PROVE  UNCHANGED IndexedLog
    BY <2>3, SameLog DEF Update, CommitBlock, AddBlockFails, storeVars, disk
  <2>4. CASE SkipKnown \/ SkipFailed \/ ApplyBlock \/ Stop
    BY <2>4, SameLog DEF SkipKnown, SkipFailed, ApplyBlock, Stop, Crash, storeVars, disk
  <2>5. CASE UNCHANGED vars
    BY <2>5, SameLog DEF vars, storeVars, disk
  <2> QED
    BY <1>2, <2>1, <2>2, <2>3, <2>4, <2>5 DEF Next
<1> QED
  BY <1>1, <1>2, FlowInvariant, PTL DEF Spec, ReadersSeeLog, D!Spec

-----------------------------------------------------------------------------
(* What the application has executed                                        *)

\* The block between ApplyBlock and AddBlock was executed.
AppliedExecuted == AppKeeps => applied \subseteq Range(app)

\* The database has an entry for a transaction and a block exactly if the block
\* is stored and holds the transaction.
MetaExact == \A t \in Tx, b \in Block : <<t, b>> \in meta <=> b \in raw /\ t \in BlockTxs(b)

ExecInv == IInv /\ StoredWasExecuted /\ AppliedExecuted /\ MetaExact

\* Executing a block adds it to what was executed.
LEMMA RangeAppend ==
    ASSUME NEW s \in Seq(Block), NEW b \in Block
    PROVE  Range(Append(s, b)) = Range(s) \cup {b}
<1>1. /\ Len(s) \in Nat /\ DOMAIN s = 1 .. Len(s)
      /\ DOMAIN Append(s, b) = 1 .. Len(s) + 1
      /\ \A i \in 1 .. Len(s) : Append(s, b)[i] = s[i]
      /\ Append(s, b)[Len(s) + 1] = b
  OBVIOUS
<1>2. 1 .. Len(s) + 1 = (1 .. Len(s)) \cup {Len(s) + 1}
  BY <1>1
<1> QED  BY <1>1, <1>2, Zenon DEF Range

\* Every step keeps the store behind the application.
LEMMA NextExecuted ==
    ASSUME IInv, StoredWasExecuted, AppliedExecuted, [Next]_vars
    PROVE  StoredWasExecuted' /\ AppliedExecuted'
<1>1. CASE Handshake
  <2>1. applied' = applied /\ app' = app /\ (raw' = raw \/ raw' = {Genesis})
    BY <1>1 DEF Handshake, Initialize, Start, SaveValidatorSet, SaveGenesis, Load, disk
  <2> QED  BY <2>1 DEF StoredWasExecuted, AppliedExecuted
<1>2. ASSUME NEW b \in Block, CommitBlock(b)
      PROVE  StoredWasExecuted' /\ AppliedExecuted'
  <2>1. b \in applied /\ applied' = {} /\ app' = app
    BY <1>2 DEF CommitBlock
  <2>2. raw' = raw \/ raw' = raw \cup {b}
    BY <1>2 DEF CommitBlock, AddBlock, AddBlockFails, Batch, storeVars, disk
  <2> QED  BY <2>1, <2>2 DEF StoredWasExecuted, AppliedExecuted
<1>3. CASE ApplyBlock
  <2>1. /\ raw' = raw /\ applied' = {Head(ready)} /\ app' = Append(app, Head(ready))
        /\ app \in Seq(Block) /\ Head(ready) \in Block
    BY <1>3 DEF ApplyBlock, storeVars, disk, IInv, TypeOK
  <2>2. Range(app') = Range(app) \cup {Head(ready)}
    BY <2>1, RangeAppend
  <2> QED  BY <2>1, <2>2 DEF StoredWasExecuted, AppliedExecuted
<1>4. CASE (\E b \in Block : Update(b)) \/ SkipKnown \/ SkipFailed \/ UNCHANGED vars
  <2>1. UNCHANGED <<raw, app, applied>>
    BY <1>4 DEF Update, SkipKnown, SkipFailed, vars, storeVars, flowVars, disk
  <2> QED  BY <2>1 DEF StoredWasExecuted, AppliedExecuted
<1>5. CASE Stop
  <2>1. raw' = raw /\ applied' = {} /\ (AppKeeps => app' = app)
    BY <1>5 DEF Stop, Crash, disk
  <2> QED  BY <2>1 DEF StoredWasExecuted, AppliedExecuted
<1> QED  BY <1>1, <1>2, <1>3, <1>4, <1>5 DEF Next

\* Every step keeps the transaction entries exact.
LEMMA NextMetaExact ==
    ASSUME IInv, MetaExact, [Next]_vars
    PROVE  MetaExact'
<1>1. ASSUME UNCHANGED <<raw, meta>>  PROVE MetaExact'
  BY <1>1, Zenon DEF MetaExact
<1>2. CASE Handshake
  <2>1. CASE SaveGenesis
    <3>1. raw = {} /\ raw' = {Genesis} /\ meta' = meta
      <4>1. raw = {}
        BY <2>1 DEF IInv, StoredIsTrunk, StoredUpTo, SaveGenesis
      <4> QED  BY <2>1, <4>1 DEF SaveGenesis
    <3>2. BlockTxs(Genesis) = {}
      BY DEF BlockTxs
    <3> QED  BY <3>1, <3>2, Zenon DEF MetaExact
  <2>2. CASE ~ SaveGenesis
    <3>1. UNCHANGED <<raw, meta>>
      BY <1>2, <2>2 DEF Handshake, Initialize, Start, SaveValidatorSet, Load, disk
    <3> QED  BY <1>1, <3>1
  <2> QED  BY <2>1, <2>2
<1>3. ASSUME NEW b \in Block, CommitBlock(b)  PROVE MetaExact'
  <2>1. CASE AddBlock(b)
    <3>1. raw' = raw \cup {b} /\ meta' = meta \cup (BlockTxs(b) \X {b})
      BY <2>1 DEF AddBlock, Batch
    <3> QED  BY <3>1, Zenon DEF MetaExact
  <2>2. CASE ~ AddBlock(b)
    <3>1. UNCHANGED <<raw, meta>>
      BY <1>3, <2>2 DEF CommitBlock, AddBlockFails, storeVars, disk
    <3> QED  BY <1>1, <3>1
  <2> QED  BY <2>1, <2>2
<1>4. CASE \/ \E b \in Block : Update(b)
           \/ SkipKnown \/ SkipFailed \/ ApplyBlock \/ Stop \/ UNCHANGED vars
  <2>1. UNCHANGED <<raw, meta>>
    BY <1>4 DEF Update, SkipKnown, SkipFailed, ApplyBlock, Stop, Crash, vars, storeVars, disk
  <2> QED  BY <1>1, <2>1
<1> QED  BY <1>2, <1>3, <1>4 DEF Next

\* The invariant behind the two theorems.
THEOREM ExecutionInvariant == Spec => []ExecInv
<1>1. Init => IInv /\ StoredWasExecuted /\ AppliedExecuted /\ MetaExact
  <2> SUFFICES ASSUME Init  PROVE IInv /\ StoredWasExecuted /\ AppliedExecuted /\ MetaExact
    OBVIOUS
  <2>1. IInv
    BY InitTypeOK DEF Init, StoreInit, IInv, StoredIsTrunk, AppliedAbove
  <2> QED  BY <2>1 DEF Init, StoreInit, StoredWasExecuted, AppliedExecuted, MetaExact
<1>2. ExecInv /\ [Next]_vars => ExecInv'
  BY NextIInv, NextExecuted, NextMetaExact DEF ExecInv
<1> QED  BY <1>1, <1>2, PTL DEF Spec, ExecInv

\* No block is in the database that the application has not executed, whatever
\* stops and failures come between ApplyBlock and AddBlock.
THEOREM FlowStoredWasExecuted == Spec => []StoredWasExecuted
<1>1. ExecInv => StoredWasExecuted
  BY DEF ExecInv
<1> QED  BY <1>1, ExecutionInvariant, PTL

\* A transaction lookup answers exactly the blocks of the trunk with it
\* (getTransactionMeta, saveTransactionMeta).
THEOREM FlowTxLookupExact == Spec => []TxLookupExact
<1>1. ExecInv => TxLookupExact
  <2> SUFFICES ASSUME ExecInv, NEW d \in bestKey, NEW t \in Tx
               PROVE  TransactionBlocks(t) = {c \in Range(Ancestors(d)) : t \in BlockTxs(c)}
    BY DEF TxLookupExact
  <2>1. d \in Block /\ StoredUpTo(d)
    BY DEF ExecInv, IInv, StoredIsTrunk, StoredUpTo
  <2>2. Number(d) \in Nat
    BY <2>1, NumberType
  <2>3. \A b \in raw : b \in Block /\ Number(b) \in DOMAIN hash /\ hash[Number(b)] = b
    <3> SUFFICES ASSUME NEW b \in raw
                 PROVE  b \in Block /\ Number(b) \in DOMAIN hash /\ hash[Number(b)] = b
      OBVIOUS
    <3>1. PICK k \in 0 .. Number(d) : b = SubSeq(d, 1, k)
      BY <2>1 DEF StoredUpTo
    <3>2. b \in Block /\ Number(b) = k
      BY <2>1, <3>1, AncestorFacts
    <3> QED  BY <2>1, <3>1, <3>2 DEF StoredUpTo
  <2>4. TransactionBlocks(t) = {b \in raw : t \in BlockTxs(b)}
    BY <2>3 DEF TransactionBlocks, ExecInv, MetaExact
  <2>5. raw = Range(Ancestors(d)) \cup {Genesis}
    <3>1. SubSeq(d, 1, 0) = Genesis
      <4>1. 0 \in 0 .. Number(d)
        BY <2>2
      <4>2. SubSeq(d, 1, 0) \in Block /\ Number(SubSeq(d, 1, 0)) = 0
        BY <2>1, <4>1, AncestorFacts
      <4> QED  BY <4>2, GenesisFacts, Zenon
    <3>2. 0 .. Number(d) = (1 .. Number(d)) \cup {0}
      BY <2>2
    <3>3. raw = {SubSeq(d, 1, k) : k \in 0 .. Number(d)}
      BY <2>1 DEF StoredUpTo
    <3>4. Range(Ancestors(d)) = {SubSeq(d, 1, k) : k \in 1 .. Number(d)}
      BY Zenon DEF Range, Ancestors
    <3> QED  BY <3>1, <3>2, <3>3, <3>4, Zenon
  <2>6. BlockTxs(Genesis) = {}
    BY DEF BlockTxs
  <2> QED  BY <2>4, <2>5, <2>6
<1> QED  BY <1>1, ExecutionInvariant, PTL
-----------------------------------------------------------------------------
(* The order of execution                                                   *)

\* The states that AppFollowsChain is about.
Undisturbed == crashes = 0 /\ failures = 0 /\ phase = "up"

\* What OnCommit still has to commit: the ancestors of t above the number m,
\* which is the best block's if t extends it.
ReadyUpTo(t, m) ==
    /\ ready = [k \in 1 .. Number(t) - m |-> SubSeq(t, 1, m + k)]
    /\ IsPrefix(best, t) => m = Number(best)

\* Before the first start is over nothing is decided; then memory, database
\* and pacemaker agree on the best block, and OnCommit is at most one
\* block ahead of the chain.
InStep ==
    /\ crashes = 0 /\ phase # "up" =>
          app = << >> /\ ready = << >> /\ applied = {} /\ bestKey \subseteq {Genesis}
    /\ Undisturbed =>
          /\ bestKey = {best} /\ lastCommitted = best
          /\ ready # << >> => \E t \in Block : \E m \in 0 .. Number(t) - 1 : ReadyUpTo(t, m)
          /\ \A b \in applied : ready # << >> /\ b = ready[1]

\* The application has executed blocks of one branch.
OneBranch == \A b, c \in Range(app) : IsPrefix(b, c) \/ IsPrefix(c, b)

\* The ancestors of a block are those of its parent and itself.
LEMMA AncestorsOfChild ==
    ASSUME NEW b \in Block, Number(b) > 0
    PROVE  Ancestors(b) = Append(Ancestors(ParentID(b)), b)
<1> DEFINE p == ParentID(b)
           n == Number(b) - 1
<1>1. /\ Number(b) \in Nat /\ n \in Nat /\ n + 1 = Number(b)
      /\ p \in Block /\ Number(p) = n
  BY NumberType, ParentFacts
<1>2. \A k \in 1 .. n : SubSeq(p, 1, k) = SubSeq(b, 1, k)
  <2>1. \A k \in 1 .. n : k \in 0 .. Number(b) - 1
    BY <1>1
  <2> QED  BY <2>1, AncestorOfParent
<1>3. \A k \in 1 .. n + 1 : SubSeq(b, 1, k) \in Block
  BY <1>1, AncestorFacts
<1>4. SubSeq(b, 1, n + 1) = b
  BY <1>1, AncestorSelf
<1> HIDE DEF p, n
<1> DEFINE x == Ancestors(p)
           y == Ancestors(b)
<1>5. x = [k \in 1 .. n |-> SubSeq(p, 1, k)] /\ y = [k \in 1 .. n + 1 |-> SubSeq(b, 1, k)]
  BY <1>1 DEF Ancestors
<1> HIDE DEF x, y
<1>6. \A k \in 1 .. n : k \in 1 .. n + 1
  BY <1>1
<1>7. \A k \in 1 .. n : SubSeq(p, 1, k) \in Block
  BY <1>2, <1>3, <1>6, Zenon
<1>8. /\ x \in Seq(Block) /\ Len(x) = n /\ \A k \in 1 .. n : x[k] = SubSeq(b, 1, k)
  <2>1. x \in Seq(Block) /\ Len(x) = n /\ \A k \in 1 .. n : x[k] = SubSeq(p, 1, k)
    BY <1>1, <1>5, <1>7
  <2> QED  BY <1>2, <2>1, Zenon
<1>9. /\ y \in Seq(Block) /\ Len(y) = n + 1 /\ \A k \in 1 .. n + 1 : y[k] = SubSeq(b, 1, k)
  BY <1>1, <1>3, <1>5
<1>10. /\ Append(x, b) \in Seq(Block) /\ Len(Append(x, b)) = n + 1
       /\ \A k \in 1 .. n : Append(x, b)[k] = x[k]
       /\ Append(x, b)[n + 1] = b
  BY <1>1, <1>8
<1>11. \A k \in 1 .. n + 1 : k \in 1 .. n \/ k = n + 1
  BY <1>1
<1>12. \A k \in 1 .. n + 1 : Append(x, b)[k] = y[k]
  BY <1>4, <1>8, <1>9, <1>10, <1>11, Zenon
<1>13. y = Append(x, b)
  BY <1>9, <1>10, <1>12, SeqEqual
<1> QED  BY <1>13 DEF x, y, p

\* The first block that OnCommit has to commit, and the rest.
LEMMA ReadyFacts ==
    ASSUME ready \in Seq(Block), NEW t \in Block, NEW m \in 0 .. Number(t) - 1, ReadyUpTo(t, m)
    PROVE  /\ ready # << >> /\ Head(ready) = ready[1]
           /\ ready[1] = SubSeq(t, 1, m + 1) /\ ready[1] \in Block /\ Number(ready[1]) = m + 1
           /\ ParentID(ready[1]) = SubSeq(t, 1, m)
           /\ Tail(ready) # << >> => m + 1 \in 0 .. Number(t) - 1
           /\ Tail(ready) = [k \in 1 .. Number(t) - (m + 1) |-> SubSeq(t, 1, (m + 1) + k)]
<1> DEFINE n == Number(t) - m
<1>1. /\ Number(t) \in Nat /\ m \in Nat /\ n \in Nat /\ n > 0 /\ m + 1 \in 0 .. Number(t)
      /\ m \in 0 .. m + 1
  BY NumberType
<1>2. ready = [k \in 1 .. n |-> SubSeq(t, 1, m + k)]
  BY DEF ReadyUpTo
<1> HIDE DEF n
<1>3. ready \in Seq(Block) /\ Len(ready) = n /\ \A k \in 1 .. n : ready[k] = SubSeq(t, 1, m + k)
  BY <1>1, <1>2
<1>4. ready # << >> /\ Head(ready) = ready[1] /\ ready[1] = SubSeq(t, 1, m + 1)
  BY <1>1, <1>3
<1>5. ready[1] \in Block /\ Number(ready[1]) = m + 1
  BY <1>1, <1>4, AncestorFacts
<1>6. ParentID(ready[1]) = SubSeq(t, 1, m)
  <2>1. ParentID(ready[1]) = SubSeq(ready[1], 1, m)
    <3>1. m + 1 > 0 /\ (m + 1) - 1 = m
      BY <1>1
    <3>2. ParentID(ready[1]) = SubSeq(ready[1], 1, (m + 1) - 1)
      BY <1>5, <3>1, ParentFacts
    <3> QED  BY <3>1, <3>2
  <2>2. SubSeq(SubSeq(t, 1, m + 1), 1, m) = SubSeq(t, 1, m)
    BY <1>1, AncestorOfAncestor
  <2> QED  BY <1>4, <2>1, <2>2
<1>7. /\ Tail(ready) \in Seq(Block) /\ Len(Tail(ready)) = n - 1
      /\ Tail(ready) = [k \in 1 .. n - 1 |-> ready[k + 1]]
  <2>1. /\ Tail(ready) \in Seq(Block) /\ Len(Tail(ready)) = n - 1
        /\ \A k \in 1 .. n - 1 : Tail(ready)[k] = ready[k + 1]
    BY <1>1, <1>3, <1>4, HeadTailProperties
  <2>2. Tail(ready) = [k \in 1 .. n - 1 |-> Tail(ready)[k]]
    <3>1. Tail(ready) \in [1 .. n - 1 -> Block]
      BY <2>1, LenProperties, Zenon
    <3> QED  BY <3>1, Zenon
  <2> QED  BY <2>1, <2>2, Zenon
<1>8. n - 1 = Number(t) - (m + 1) /\ \A k \in 1 .. n - 1 : k + 1 \in 1 .. n /\ m + (k + 1) = (m + 1) + k
  BY <1>1 DEF n
<1>9. \A k \in 1 .. n - 1 : ready[k + 1] = SubSeq(t, 1, (m + 1) + k)
  BY <1>3, <1>8
<1>10. Tail(ready) = [k \in 1 .. Number(t) - (m + 1) |-> SubSeq(t, 1, (m + 1) + k)]
  BY <1>7, <1>8, <1>9, Zenon
<1>11. Tail(ready) # << >> => m + 1 \in 0 .. Number(t) - 1
  <2>1. Tail(ready) # << >> => n - 1 > 0
    BY <1>1, <1>7
  <2> QED  BY <1>1, <1>8, <2>1
<1> QED  BY <1>4, <1>5, <1>6, <1>10, <1>11
\* OnCommit's next block is taken by AddBlock if it is of the best block's branch.
LEMMA ExtensionAccepted ==
    ASSUME IInv, Undisturbed, bestKey = {best}, NEW t \in Block, NEW m \in 0 .. Number(t) - 1,
           ReadyUpTo(t, m), IsPrefix(best, t)
    PROVE  m = Number(best) /\ ParentID(ready[1]) = best /\ best \in raw /\ Accepts(ready[1])
<1>1. best \in Block /\ ready \in Seq(Block) /\ Number(best) \in Nat
  BY NumberType DEF IInv, TypeOK, StoreTypeOK
<1>2. m = Number(best)
  BY DEF ReadyUpTo
<1>3. /\ ready[1] \in Block /\ Number(ready[1]) = m + 1
      /\ ParentID(ready[1]) = SubSeq(t, 1, m)
  BY <1>1, ReadyFacts
<1>4. ParentID(ready[1]) = best
  BY <1>1, <1>2, <1>3, PrefixFacts
<1>5. StoredUpTo(best)
  BY Zenon DEF IInv, StoredIsTrunk, StoredUpTo
<1>6. best \in raw
  <2>1. Number(best) \in 0 .. Number(best)
    BY <1>1
  <2> QED  BY <1>1, <1>5, <2>1, AncestorSelf DEF StoredUpTo
<1>7. ready[1] \notin raw
  <2>1. ASSUME NEW k \in 0 .. Number(best)  PROVE ready[1] # SubSeq(best, 1, k)
    <3>1. Number(SubSeq(best, 1, k)) = k
      BY <1>1, AncestorFacts
    <3>2. m + 1 # k
      BY <1>1, <1>2
    <3> QED  BY <1>3, <3>1, <3>2, Zenon
  <2> QED  BY <1>5, <2>1 DEF StoredUpTo
<1> QED  BY <1>2, <1>4, <1>6, <1>7 DEF Accepts

\* What was executed before is of one branch if all of it is.
LEMMA OneBranchBefore ==
    ASSUME NEW b \in Block, app \in Seq(Block), app' = Append(app, b), OneBranch'
    PROVE  OneBranch
<1>1. Range(app') = Range(app) \cup {b}
  BY RangeAppend
<1> QED  BY <1>1 DEF OneBranch

\* A block executed on top of the best block's branch extends the best block.
LEMMA ExecutedExtends ==
    ASSUME best \in Block, NEW b \in Block, Number(b) > Number(best), OneBranch,
           app = Append(Ancestors(best), b)
    PROVE  IsPrefix(best, b)
<1>1. Number(best) \in Nat /\ Number(b) \in Nat
  BY NumberType
<1>2. CASE Number(best) = 0
  <2>1. best = SubSeq(b, 1, 0)
    <3>1. 0 \in 0 .. Number(b)
      BY <1>1
    <3>2. SubSeq(b, 1, 0) \in Block /\ Number(SubSeq(b, 1, 0)) = 0
      BY <3>1, AncestorFacts
    <3> QED  BY <1>2, <3>2, GenesisFacts, Zenon
  <2>2. Number(best) <= Number(b) /\ best = SubSeq(b, 1, Number(best))
    BY <1>1, <1>2, <2>1
  <2> QED  BY <2>2, PrefixFacts, Zenon
<1>3. CASE Number(best) > 0
  <2> DEFINE n == Number(best)
             x == Ancestors(best)
  <2>1. \A k \in 1 .. n : SubSeq(best, 1, k) \in Block
    <3>1. \A k \in 1 .. n : k \in 0 .. n
      BY <1>1
    <3> QED  BY <3>1, AncestorFacts
  <2>2. x \in Seq(Block) /\ Len(x) = n /\ x[n] = best
    <3>1. x \in Seq(Block) /\ Len(x) = n /\ x[n] = SubSeq(best, 1, n)
      <4>1. x = [k \in 1 .. n |-> SubSeq(best, 1, k)]
        BY DEF Ancestors
      <4> HIDE DEF x, n
      <4>2. n \in Nat /\ n > 0
        BY <1>1, <1>3 DEF n
      <4> QED  BY <2>1, <4>1, <4>2
    <3> QED  BY <3>1, AncestorSelf
  <2> HIDE DEF x
  <2>3. DOMAIN x = 1 .. n /\ n \in 1 .. n
    BY <1>1, <1>3, <2>2
  <2>4. best \in Range(x)
    BY <2>2, <2>3, Zenon DEF Range
  <2>5. Range(app) = Range(x) \cup {b}
    BY <2>2, RangeAppend DEF x
  <2>6. IsPrefix(best, b) \/ IsPrefix(b, best)
    BY <2>4, <2>5 DEF OneBranch
  <2> QED  BY <1>1, <2>6, PrefixFacts
<1> QED  BY <1>1, <1>2, <1>3

\* The next block is passed over, and nothing else changes.
LEMMA PassOver ==
    ASSUME ready \in Seq(Block), NEW t \in Block, NEW m \in 0 .. Number(t) - 1, ReadyUpTo(t, m),
           ready' = Tail(ready), IsPrefix(best', t) => m + 1 = Number(best'), ready' # << >>
    PROVE  \E u \in Block : \E k \in 0 .. Number(u) - 1 : ReadyUpTo(u, k)'
<1>1. /\ m + 1 \in 0 .. Number(t) - 1
      /\ ready' = [k \in 1 .. Number(t) - (m + 1) |-> SubSeq(t, 1, (m + 1) + k)]
  BY ReadyFacts
<1>2. ReadyUpTo(t, m + 1)'
  BY <1>1, Zenon DEF ReadyUpTo
<1> QED  BY <1>1, <1>2
OrderInv == IInv /\ InStep /\ AppFollowsChain

\* The first start ends with the genesis block everywhere.
LEMMA HandshakeKeepsOrder ==
    ASSUME OrderInv, Handshake
    PROVE  InStep' /\ AppFollowsChain'
<1>1. phase # "up" /\ crashes' = crashes /\ failures' = failures /\ UNCHANGED <<app, ready, applied>>
  BY DEF Handshake, Initialize, Start, SaveValidatorSet, SaveGenesis, Load, memory
<1>2. CASE crashes # 0
  BY <1>1, <1>2 DEF InStep, AppFollowsChain, Undisturbed
<1>3. CASE crashes = 0
  <2>1. app = << >> /\ ready = << >> /\ applied = {} /\ bestKey \subseteq {Genesis}
    BY <1>1, <1>3 DEF OrderInv, InStep
  <2>2. CASE Load
    <3>1. PICK d \in Block : StoredUpTo(d)
      BY <2>2 DEF Load, OrderInv, IInv, StoredIsTrunk
    <3>2. d = Genesis /\ bestKey = {Genesis} /\ LoadedQC = {Genesis}
      BY <2>1, <3>1 DEF StoredUpTo, LoadedQC
    <3>3. best' = Genesis /\ bestKey' = {Genesis} /\ phase' = "up"
      BY <2>2, <3>2 DEF Load
    <3>4. lastCommitted' = Genesis
      BY <3>3 DEF Handshake
    <3>5. Ancestors(Genesis) = << >>
      BY GenesisFacts DEF Ancestors
    <3>6. InStep'
      BY <1>1, <2>1, <3>3, <3>4 DEF InStep, Undisturbed
    <3>7. AppFollowsChain'
      BY <1>1, <2>1, <3>3, <3>5 DEF AppFollowsChain
    <3> QED  BY <3>6, <3>7
  <2>3. CASE ~ Load
    <3>1. phase' # "up" /\ bestKey' \subseteq {Genesis}
      BY <1>1, <2>1, <2>3 DEF Handshake, Initialize, Start, SaveValidatorSet, SaveGenesis, memory, disk
    <3> QED  BY <1>1, <2>1, <3>1 DEF InStep, Undisturbed, AppFollowsChain
  <2> QED  BY <2>2, <2>3
<1> QED  BY <1>2, <1>3

\* Update and the blocks that are passed over leave application and chain alone.
LEMMA ReadyKeepsOrder ==
    ASSUME OrderInv, (\E b \in Block : Update(b)) \/ SkipKnown \/ SkipFailed
    PROVE  InStep' /\ AppFollowsChain'
<1>1. /\ phase = "up" /\ UNCHANGED <<app, applied, best, bestKey, lastCommitted, phase, crashes>>
      /\ failures' = 0 => failures = 0
      /\ best \in Block /\ ready \in Seq(Block) /\ Number(best) \in Nat
  <2>1. best \in Block /\ ready \in Seq(Block) /\ failures \in Nat
    BY StoreConstants DEF OrderInv, IInv, TypeOK, StoreTypeOK
  <2> QED  BY <2>1, NumberType DEF Update, SkipKnown, SkipFailed, storeVars, disk, memory
<1>2. AppFollowsChain'
  BY <1>1 DEF OrderInv, AppFollowsChain
<1>3. InStep'
  <2> SUFFICES ASSUME Undisturbed'  PROVE InStep'
    BY <1>1 DEF InStep, Undisturbed
  <2>1. Undisturbed /\ failures' = failures /\ bestKey = {best} /\ lastCommitted = best
    BY <1>1 DEF Undisturbed, OrderInv, InStep
  <2>2. applied = {} /\ (ready' # << >> => \E u \in Block : \E k \in 0 .. Number(u) - 1 : ReadyUpTo(u, k)')
    <3>1. ASSUME NEW b \in Block, Update(b)
          PROVE  /\ applied = {}
                 /\ \E u \in Block : \E k \in 0 .. Number(u) - 1 : ReadyUpTo(u, k)'
      <4>1. applied = {}
        BY <3>1 DEF Update, OrderInv, IInv, AppliedAbove
      <4>2. Number(best) \in 0 .. Number(b) - 1
        BY <1>1, <2>1, <3>1, NumberType DEF Update
      <4>3. PICK k \in 0 .. Number(b) - 1 : k = Number(best)
        BY <4>2
      <4>4. ReadyUpTo(b, k)'
        BY <1>1, <2>1, <3>1, <4>3 DEF Update, ReadyUpTo, CommitReady
      <4> QED  BY <4>1, <4>4
    <3>2. ASSUME SkipKnown \/ SkipFailed, ready' # << >>
          PROVE  \E u \in Block : \E k \in 0 .. Number(u) - 1 : ReadyUpTo(u, k)'
      <4>1. ready # << >> /\ ready' = Tail(ready)
        BY <3>2 DEF SkipKnown, SkipFailed
      <4>2. PICK t \in Block : \E m \in 0 .. Number(t) - 1 : ReadyUpTo(t, m)
        BY <2>1, <4>1 DEF OrderInv, InStep
      <4>3. PICK m \in 0 .. Number(t) - 1 : ReadyUpTo(t, m)
        BY <4>2
      <4>4. Head(ready) = ready[1] /\ Number(ready[1]) = m + 1
        BY <1>1, <4>3, ReadyFacts
      <4>5. ~ IsPrefix(best, t)
        <5> SUFFICES ASSUME IsPrefix(best, t)  PROVE FALSE
          OBVIOUS
        <5>1. m = Number(best) /\ ParentID(ready[1]) = best /\ best \in raw
          BY <2>1, <4>3, ExtensionAccepted DEF OrderInv
        <5>2. CASE SkipKnown
          BY <1>1, <4>4, <5>1, <5>2 DEF SkipKnown, IsBlockFinalized
        <5>3. CASE SkipFailed
          <6>1. ParentID(Head(ready)) \notin raw
            BY <2>1, <5>3 DEF SkipFailed, Undisturbed
          <6> QED  BY <4>4, <5>1, <6>1
        <5> QED  BY <3>2, <5>2, <5>3
      <4>6. IsPrefix(best', t) => m + 1 = Number(best')
        BY <1>1, <4>5
      <4> QED  BY <1>1, <3>2, <4>1, <4>3, <4>6, PassOver
    <3>3. SkipKnown \/ SkipFailed => applied = {}
      BY DEF SkipKnown, SkipFailed
    <3> QED  BY <3>1, <3>2, <3>3
  <2> QED  BY <1>1, <2>1, <2>2 DEF InStep, Undisturbed
<1> QED  BY <1>2, <1>3

\* The application executes the next block.
LEMMA ApplyKeepsOrder ==
    ASSUME OrderInv, ApplyBlock
    PROVE  InStep' /\ AppFollowsChain'
<1> DEFINE b == Head(ready)
<1>1. /\ phase = "up" /\ ready # << >> /\ applied = {} /\ app' = Append(app, b) /\ applied' = {b}
      /\ UNCHANGED <<ready, best, bestKey, lastCommitted, phase, crashes, failures>>
  BY DEF ApplyBlock, storeVars, disk, memory
<1>2. app \in Seq(Block) /\ b \in Block /\ b = ready[1]
  <2>1. app \in Seq(Block) /\ ready \in Seq(Block)
    BY DEF OrderInv, IInv, TypeOK
  <2> QED  BY <1>1, <2>1
<1> HIDE DEF b
<1>3. InStep'
  <2> SUFFICES ASSUME Undisturbed'  PROVE InStep'
    BY <1>1 DEF InStep, Undisturbed
  <2>1. /\ bestKey = {best} /\ lastCommitted = best
        /\ \E t \in Block : \E m \in 0 .. Number(t) - 1 : ReadyUpTo(t, m)
    BY <1>1 DEF OrderInv, InStep, Undisturbed
  <2>2. \E t \in Block : \E m \in 0 .. Number(t) - 1 : ReadyUpTo(t, m)'
    BY <1>1, <2>1 DEF ReadyUpTo
  <2> QED  BY <1>1, <1>2, <2>1, <2>2 DEF InStep
<1>4. AppFollowsChain'
  <2> SUFFICES ASSUME Undisturbed', OneBranch'  PROVE app' = Append(Ancestors(best'), b)
    BY <1>1 DEF AppFollowsChain, Undisturbed, OneBranch
  <2>1. Undisturbed /\ OneBranch
    BY <1>1, <1>2, OneBranchBefore DEF Undisturbed
  <2>2. app = Ancestors(best)
    BY <1>1, <2>1 DEF OrderInv, AppFollowsChain, Undisturbed, OneBranch
  <2> QED  BY <1>1, <2>2
<1> QED  BY <1>3, <1>4

\* The block is added, or was not of the best block's branch.
LEMMA CommitKeepsOrder ==
    ASSUME OrderInv, NEW b \in Block, CommitBlock(b)
    PROVE  InStep' /\ AppFollowsChain'
<1>1. /\ b \in applied /\ applied' = {} /\ ready' = Tail(ready) /\ app' = app
      /\ phase = "up" /\ phase' = phase /\ crashes' = crashes /\ ready # << >>
      /\ Number(b) > Number(best) /\ best \in Block /\ ready \in Seq(Block)
      /\ failures \in Nat /\ MaxFailures \in Nat
      /\ Number(best) \in Nat /\ Number(b) \in Nat
  <2>1. best \in Block /\ ready \in Seq(Block) /\ failures \in Nat /\ MaxFailures \in Nat
    BY StoreConstants DEF OrderInv, IInv, TypeOK, StoreTypeOK
  <2>2. ready # << >> /\ Number(b) > Number(best) /\ phase = "up"
    BY DEF CommitBlock, OrderInv, IInv, AppliedAbove
  <2> QED
    BY <2>1, <2>2, NumberType DEF CommitBlock, AddBlock, AddBlockFails, storeVars, disk, memory
<1>2. CASE AddBlockFails(b)
  <2>1. failures' # 0
    BY <1>1, <1>2 DEF AddBlockFails
  <2> QED  BY <1>1, <2>1 DEF InStep, Undisturbed, AppFollowsChain
<1>3. CASE crashes # 0 \/ failures # 0
  <2>1. failures = 0 \/ failures' # 0
    BY <1>1 DEF CommitBlock, AddBlock, AddBlockFails, storeVars
  <2> QED  BY <1>1, <1>3, <2>1 DEF InStep, Undisturbed, AppFollowsChain
<1>4. ASSUME Undisturbed, ~ AddBlockFails(b)
      PROVE  InStep' /\ AppFollowsChain'
  <2>1. bestKey = {best} /\ lastCommitted = best /\ b = ready[1]
    BY <1>1, <1>4 DEF OrderInv, InStep
  <2>2. PICK t \in Block : \E m \in 0 .. Number(t) - 1 : ReadyUpTo(t, m)
    BY <1>1, <1>4 DEF OrderInv, InStep
  <2>3. PICK m \in 0 .. Number(t) - 1 : ReadyUpTo(t, m)
    BY <2>2
  <2>4. b = SubSeq(t, 1, m + 1) /\ Number(b) = m + 1
    BY <1>1, <2>1, <2>3, ReadyFacts
  <2>5. StoredUpTo(best)
    BY <1>1, <2>1, Zenon DEF OrderInv, IInv, StoredIsTrunk, StoredUpTo
  <2>6. OneBranch => app = Append(Ancestors(best), b)
    <3>1. applied # {} /\ \A c \in applied : c = b
      BY <1>1, <1>4, <2>1 DEF OrderInv, InStep
    <3> QED  BY <1>4, <3>1 DEF OrderInv, AppFollowsChain, Undisturbed, OneBranch
  <2>7. CASE AddBlock(b)
    <3>1. ParentID(b) = best /\ Number(b) > 0
      <4>1. Accepts(b)
        BY <2>7 DEF AddBlock
      <4>2. Number(best) >= Number(best)
        BY <1>1
      <4>3. ParentID(b) = best
        BY <1>1, <2>5, <4>1, <4>2, AcceptedIsChild
      <4> QED  BY <1>1, <4>3
    <3>2. best' = b /\ bestKey' = {b} /\ isTrunk(b) /\ failures' = failures
      BY <1>1, <2>7 DEF AddBlock, Batch, Assign, isTrunk
    <3>3. lastCommitted' = b
      <4>1. IsPrefix(best, b)
        <5>1. best = SubSeq(b, 1, Number(b) - 1) /\ Number(best) = Number(b) - 1
          BY <3>1, ParentFacts
        <5>2. Number(best) <= Number(b) /\ best = SubSeq(b, 1, Number(best))
          BY <1>1, <5>1
        <5> QED  BY <1>1, <5>2, PrefixFacts, Zenon
      <4>2. lastCommitted' = IF isTrunk(b) /\ IsPrefix(best, b) THEN b ELSE lastCommitted
        BY <1>4, <2>7 DEF CommitBlock, AddBlock
      <4> QED  BY <3>2, <4>1, <4>2
    <3>4. ready' # << >> => \E u \in Block : \E k \in 0 .. Number(u) - 1 : ReadyUpTo(u, k)'
      <4>1. IsPrefix(best', t) => m + 1 = Number(best')
        BY <2>4, <3>2
      <4> QED  BY <1>1, <2>3, <4>1, PassOver
    <3>5. InStep'
      BY <1>1, <3>2, <3>3, <3>4 DEF InStep
    <3>6. AppFollowsChain'
      <4> SUFFICES ASSUME OneBranch'  PROVE app' = Ancestors(best')
        BY <1>1 DEF AppFollowsChain, OneBranch
      <4>1. OneBranch
        BY <1>1 DEF OneBranch
      <4>2. Ancestors(b) = Append(Ancestors(best), b)
        BY <3>1, AncestorsOfChild
      <4> QED  BY <1>1, <2>6, <3>2, <4>1, <4>2
    <3> QED  BY <3>5, <3>6
  <2>8. CASE ~ AddBlock(b)
    <3>1. ~ Accepts(b) /\ UNCHANGED <<best, bestKey, lastCommitted, failures>>
      BY <1>4, <2>8 DEF CommitBlock, storeVars, disk, memory
    <3>2. ~ IsPrefix(best, t)
      BY <1>4, <2>1, <2>3, <3>1, ExtensionAccepted DEF OrderInv
    <3>3. ready' # << >> => \E u \in Block : \E k \in 0 .. Number(u) - 1 : ReadyUpTo(u, k)'
      <4>1. IsPrefix(best', t) => m + 1 = Number(best')
        BY <3>1, <3>2
      <4> QED  BY <1>1, <2>3, <4>1, PassOver
    <3>4. InStep'
      BY <1>1, <2>1, <3>1, <3>3 DEF InStep
    <3>5. ~ OneBranch
      <4> SUFFICES ASSUME OneBranch  PROVE FALSE
        OBVIOUS
      <4>1. IsPrefix(best, b)
        BY <1>1, <2>6, ExecutedExtends
      <4>2. m + 1 \in 0 .. Number(t) /\ Number(t) \in Nat /\ m \in Nat
        BY NumberType
      <4>3. Number(best) \in 0 .. m + 1 /\ best = SubSeq(b, 1, Number(best))
        <5>1. Number(best) <= Number(b) /\ best = SubSeq(b, 1, Number(best))
          BY <1>1, <4>1, PrefixFacts, Zenon
        <5> QED  BY <1>1, <2>4, <4>2, <5>1
      <4>4. best = SubSeq(t, 1, Number(best))
        BY <2>4, <4>2, <4>3, AncestorOfAncestor
      <4>5. IsPrefix(best, t)
        BY <1>1, <4>2, <4>3, <4>4, PrefixFacts
      <4> QED  BY <3>2, <4>5
    <3>6. AppFollowsChain'
      BY <1>1, <3>5 DEF AppFollowsChain, OneBranch
    <3> QED  BY <3>4, <3>6
  <2> QED  BY <2>7, <2>8
<1> QED  BY <1>1, <1>2, <1>3, <1>4 DEF Undisturbed

\* As long as nothing stops or fails and the decided blocks are of one branch,
\* the application executes the chain in order, each block once.
THEOREM FlowAppFollowsChain == Spec => []AppFollowsChain
<1>1. Init => OrderInv
  <2> SUFFICES ASSUME Init  PROVE OrderInv
    OBVIOUS
  <2>1. IInv
    BY InitTypeOK DEF Init, StoreInit, IInv, StoredIsTrunk, AppliedAbove
  <2>2. InStep /\ AppFollowsChain
    BY DEF Init, StoreInit, InStep, Undisturbed, AppFollowsChain
  <2> QED  BY <2>1, <2>2 DEF OrderInv
<1>2. OrderInv /\ [Next]_vars => OrderInv'
  <2> SUFFICES ASSUME OrderInv, [Next]_vars  PROVE OrderInv'
    OBVIOUS
  <2>1. IInv'
    BY NextIInv DEF OrderInv
  <2>2. InStep' /\ AppFollowsChain'
    <3>1. CASE Stop
      <4>1. crashes' # 0
        BY <3>1 DEF Stop, Crash, OrderInv, IInv, TypeOK, StoreTypeOK
      <4> QED  BY <4>1 DEF InStep, Undisturbed, AppFollowsChain
    <3>2. CASE UNCHANGED vars
      BY <3>2 DEF OrderInv, InStep, Undisturbed, ReadyUpTo, AppFollowsChain, vars, storeVars,
                  flowVars, disk, memory
    <3> QED
      BY <3>1, <3>2, HandshakeKeepsOrder, ReadyKeepsOrder, ApplyKeepsOrder, CommitKeepsOrder DEF Next
  <2> QED  BY <2>1, <2>2 DEF OrderInv
<1>3. OrderInv => AppFollowsChain
  BY DEF OrderInv
<1> QED  BY <1>1, <1>2, <1>3, PTL DEF Spec
=============================================================================
