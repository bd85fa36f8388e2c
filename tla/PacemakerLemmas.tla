-------------------------- MODULE PacemakerLemmas ---------------------------
(***************************************************************************)
(* What the pieces of the pacemaker's handlers do, for every committee     *)
(* size and every bound.  The lemmas speak of a set M of messages and of   *)
(* the state s of one member; a handler takes s to another state and adds  *)
(* messages to M.  At the end: the inductive invariant PInv, what it says, *)
(* and the steps that propose or restart.                                  *)
(***************************************************************************)
EXTENDS Pacemaker, FiniteSetTheorems, SequenceTheorems, WellFoundedInduction, TLAPS

-----------------------------------------------------------------------------
(* Types                                                                    *)

Served == 0 .. MaxRound  \* rounds in which timers fire and blocks are proposed

ProposalMsg == [type : {"proposal"}, block : Block \ {Genesis}, tc : SUBSET Served]
VoteMsg == [type : {"vote"}, from : Committee, block : Block]
TimeoutMsg ==
    [type : {"timeout"}, from : Committee, round : Served, qc : Block, lastVote : Block]
QueryMsg == [type : {"query"}, from : Committee, block : Block]
Message == ProposalMsg \cup VoteMsg \cup TimeoutMsg \cup QueryMsg

Node ==
    [up : BOOLEAN, inc : 0 .. MaxRestarts, round : Rounds, timer : SUBSET Rounds,
     expired : Seq(Served), beat : SUBSET Rounds, beatRound : Rounds \cup {-1},
     height : Nat, lastVote : Block,
     qc : Block, qcNode : BOOLEAN, tc : SUBSET Served,
     cur : SUBSET ProposalMsg, sending : BOOLEAN,
     drafts : SUBSET Block, final : SUBSET Block, hollow : SUBSET Block,
     best : Block,
     qcVotes : SUBSET (Block \X Committee), tcVotes : SUBSET (Served \X Committee)]

\* The marks in the draft map are of drafts it has.
Tidy(s) == s.final \subseteq s.drafts /\ s.hollow \subseteq s.drafts

\* A block other than the genesis is its parent and a mark.
LEMMA BlockFacts ==
    ASSUME NEW b \in Block
    PROVE  /\ Height(b) \in Nat /\ Parent(b) \in Block
           /\ Round(b) \in Nat /\ Round(b) \in Served /\ Round(b) + 1 \in Rounds
           /\ b # Genesis => Height(b) >= 1 /\ OwnMark(b) \in Mark
                             /\ Parent(b) = SubSeq(b, 1, Height(b) - 1)
<1>1. Height(b) \in Nat
  BY DEF Block, Height
<1>2. CASE b = Genesis
  BY <1>1, <1>2, PacemakerBounds DEF Round, Parent, Served, Rounds
<1>3. CASE b # Genesis
  <2>1. Len(b) \in Nat /\ Len(b) >= 1
    BY <1>3, EmptySeq DEF Genesis, Block
  <2>2. OwnMark(b) \in Mark
    BY <2>1 DEF OwnMark, Block
  <2>3. SubSeq(b, 1, Len(b) - 1) \in Block
    BY <2>1 DEF Block
  <2>4. Round(b) \in 0 .. MaxRound
    BY <1>3, <2>2 DEF Round, Mark
  <2>5. Round(b) \in Nat /\ Round(b) \in Served /\ Round(b) + 1 \in Rounds
    BY <2>4, PacemakerBounds DEF Served, Rounds
  <2> QED  BY <1>1, <1>3, <2>1, <2>2, <2>3, <2>5 DEF Height, Parent
<1> QED  BY <1>2, <1>3

\* A proposed block is its parent with the proposer's mark.
LEMMA AppendFacts ==
    ASSUME NEW b \in Block, NEW k \in Mark
    PROVE  /\ Append(b, k) \in Block \ {Genesis}
           /\ Parent(Append(b, k)) = b /\ OwnMark(Append(b, k)) = k
<1>1. /\ Append(b, k) \in Block /\ Len(b) \in Nat /\ Len(Append(b, k)) = Len(b) + 1
  BY DEF Block
<1>2. Append(b, k) # Genesis
  BY <1>1 DEF Genesis
<1>3. OwnMark(Append(b, k)) = k
  BY <1>1, AppendProperties DEF OwnMark, Block
<1>4. SubSeq(Append(b, k), 1, Len(b)) = b
  BY <1>1 DEF Block
<1> QED  BY <1>1, <1>2, <1>3, <1>4 DEF Parent

\* Blocks and their ancestors, which are a block's prefixes.
LEMMA AncestorFacts ==
    ASSUME NEW b \in Block
    PROVE  /\ b \in Ancestors(b)
           /\ \A k \in 0 .. Height(b) :
                 /\ SubSeq(b, 1, k) \in Ancestors(b) /\ SubSeq(b, 1, k) \in Block
                 /\ Height(SubSeq(b, 1, k)) = k
                 /\ \A j \in 0 .. k : SubSeq(SubSeq(b, 1, k), 1, j) = SubSeq(b, 1, j)
           /\ \A a \in Ancestors(b) :
                 a \in Block /\ Height(a) \in 0 .. Height(b) /\ a = SubSeq(b, 1, Height(a))
<1>1. b \in Seq(Mark) /\ Len(b) \in Nat /\ SubSeq(b, 1, Len(b)) = b
  BY SubSeqFull DEF Block
<1>2. \A i \in 1 .. Len(b) : b[i] \in Mark
  BY <1>1
<1>3. ASSUME NEW k \in 0 .. Len(b)
      PROVE  /\ SubSeq(b, 1, k) \in Seq(Mark) /\ Len(SubSeq(b, 1, k)) = k
             /\ \A j \in 0 .. k : SubSeq(SubSeq(b, 1, k), 1, j) = SubSeq(b, 1, j)
  <2>1. k \in Int /\ \A i \in 1 .. k : b[i] \in Mark
    BY <1>1, <1>2
  <2>2. /\ SubSeq(b, 1, k) \in Seq(Mark) /\ Len(SubSeq(b, 1, k)) = k
        /\ \A i \in 1 .. k : SubSeq(b, 1, k)[i] = b[i]
    BY <2>1, SubSeqProperties
  <2>3. ASSUME NEW j \in 0 .. k
        PROVE  SubSeq(SubSeq(b, 1, k), 1, j) = SubSeq(b, 1, j)
    <3>1. PICK c \in Seq(Mark) : c = SubSeq(b, 1, k)
      BY <2>2, Zenon
    <3>2. j \in Int /\ (\A i \in 1 .. j : b[i] \in Mark) /\ (\A i \in 1 .. j : c[i] = b[i])
      BY <2>1, <2>2, <3>1
    <3>3. /\ SubSeq(b, 1, j) \in Seq(Mark) /\ Len(SubSeq(b, 1, j)) = j
          /\ \A i \in 1 .. j : SubSeq(b, 1, j)[i] = b[i]
      BY <3>2, SubSeqProperties
    <3>4. /\ SubSeq(c, 1, j) \in Seq(Mark) /\ Len(SubSeq(c, 1, j)) = j
          /\ \A i \in 1 .. j : SubSeq(c, 1, j)[i] = b[i]
      BY <3>2, SubSeqProperties
    <3>5. SubSeq(c, 1, j) = SubSeq(b, 1, j)
      BY <3>3, <3>4, SeqEqual
    <3> QED  BY <3>1, <3>5
  <2> QED  BY <2>2, <2>3
<1>4. \A a \in Ancestors(b) : a \in Block /\ Height(a) \in 0 .. Height(b) /\ a = SubSeq(b, 1, Height(a))
  BY <1>1, <1>3 DEF Ancestors, Height, Block
<1>5. b \in Ancestors(b)
  <2>1. Len(b) \in 0 .. Len(b)
    BY <1>1
  <2>2. SubSeq(b, 1, Len(b)) \in Ancestors(b)
    BY <2>1, Zenon DEF Ancestors
  <2> QED  BY <1>1, <2>2, Zenon
<1>6. ASSUME NEW k \in 0 .. Height(b)
      PROVE  /\ SubSeq(b, 1, k) \in Ancestors(b) /\ SubSeq(b, 1, k) \in Block
             /\ Height(SubSeq(b, 1, k)) = k
             /\ \A j \in 0 .. k : SubSeq(SubSeq(b, 1, k), 1, j) = SubSeq(b, 1, j)
  <2>1. k \in 0 .. Len(b)
    BY DEF Height
  <2>2. SubSeq(b, 1, k) \in Ancestors(b)
    BY <2>1 DEF Ancestors
  <2>3. SubSeq(b, 1, k) \in Block /\ Height(SubSeq(b, 1, k)) = k
    BY <1>3, <2>1 DEF Block, Height
  <2> QED  BY <1>3, <2>1, <2>2, <2>3
<1> QED  BY <1>4, <1>5, <1>6, Zenon

\* An ancestor's ancestor is one.
LEMMA AncestorsNest ==
    ASSUME NEW b \in Block, NEW a \in Ancestors(b)
    PROVE  Ancestors(a) \subseteq Ancestors(b)
<1> SUFFICES ASSUME NEW c \in Ancestors(a)  PROVE c \in Ancestors(b)
  OBVIOUS
<1>1. a \in Block /\ Height(a) \in 0 .. Height(b) /\ a = SubSeq(b, 1, Height(a))
  BY AncestorFacts
<1>2. Height(c) \in 0 .. Height(a) /\ c = SubSeq(a, 1, Height(c))
  BY <1>1, AncestorFacts
<1>3. Height(b) \in Nat /\ Height(a) \in Nat /\ Height(c) \in 0 .. Height(b)
  BY <1>1, <1>2, BlockFacts
<1>4. SubSeq(SubSeq(b, 1, Height(a)), 1, Height(c)) = SubSeq(b, 1, Height(c))
  BY <1>1, <1>2, AncestorFacts, Zenon
<1>5. c = SubSeq(b, 1, Height(c))
  BY <1>1, <1>2, <1>4
<1> QED  BY <1>3, <1>5, AncestorFacts, Zenon

\* A set of numbers that is not empty has a least element.
LEMMA LeastNumber ==
    ASSUME NEW T, T \subseteq Nat, T # {}
    PROVE  \E x \in T : \A y \in T : x <= y
<1>1. PICK x \in T : \A y \in T : <<y, x>> \notin OpToRel(<, Nat)
  BY WFMin, NatLessThanWellFounded, Zenon
<1>2. \A y \in T : ~ (y < x)
  BY <1>1, Zenon DEF OpToRel
<1> QED  BY <1>2

-----------------------------------------------------------------------------
(* Majorities                                                               *)

VotersIn(M, b) == {i \in Committee : Vote(i, b) \in M}
CertifiedIn(M, b) == b = Genesis \/ MajorityTwoThird(Cardinality(VotersIn(M, b)), N)

TimeoutsIn(M, r) == {i \in Committee : \E t \in M : t.type = "timeout" /\ t.from = i /\ t.round = r}
TimedOutIn(M, r) == MajorityTwoThird(Cardinality(TimeoutsIn(M, r)), N)

\* A set of members that includes a majority is one, and a majority is not empty.
LEMMA MajorityGrows ==
    ASSUME NEW S \in SUBSET Committee, NEW T \in SUBSET Committee, S \subseteq T,
           MajorityTwoThird(Cardinality(S), N)
    PROVE  MajorityTwoThird(Cardinality(T), N) /\ T # {}
<1>1. IsFiniteSet(Committee)
  BY FS_Interval, CommitteeNotEmpty DEF Committee
<1>2. IsFiniteSet(T) /\ IsFiniteSet(S)
  BY <1>1, FS_Subset
<1>3. Cardinality(S) <= Cardinality(T) /\ Cardinality(S) \in Nat /\ Cardinality(T) \in Nat
  BY <1>2, FS_Subset, FS_CardinalityType
<1>4. TwoThirds(N) \in Nat /\ TwoThirds(N) >= 1
  BY CommitteeNotEmpty DEF TwoThirds
<1>5. Cardinality(T) >= TwoThirds(N)
  BY <1>3, <1>4 DEF MajorityTwoThird
<1>6. T # {}
  BY <1>3, <1>4, <1>5, FS_EmptySet
<1> QED  BY <1>5, <1>6, CommitteeNotEmpty DEF MajorityTwoThird

\* Messages are not taken back.
LEMMA CertifiedGrows ==
    ASSUME NEW M, NEW M2, M \subseteq M2
    PROVE  /\ \A b : CertifiedIn(M, b) => CertifiedIn(M2, b)
           /\ \A r : TimedOutIn(M, r) => TimedOutIn(M2, r)
<1>1. ASSUME NEW b, CertifiedIn(M, b)  PROVE CertifiedIn(M2, b)
  <2>1. VotersIn(M, b) \subseteq VotersIn(M2, b) /\ VotersIn(M2, b) \subseteq Committee
    BY DEF VotersIn
  <2> QED  BY <1>1, <2>1, MajorityGrows DEF CertifiedIn
<1>2. ASSUME NEW r, TimedOutIn(M, r)  PROVE TimedOutIn(M2, r)
  <2>1. TimeoutsIn(M, r) \subseteq TimeoutsIn(M2, r) /\ TimeoutsIn(M2, r) \subseteq Committee
    BY DEF TimeoutsIn
  <2> QED  BY <1>2, <2>1, MajorityGrows DEF TimedOutIn
<1> QED  BY <1>1, <1>2

\* Recorded votes that were cast make a certificate that is backed.
LEMMA BookCertifies ==
    ASSUME NEW book, NEW key, NEW i, NEW S \in SUBSET Committee,
           \A j \in Committee : <<key, j>> \in book \/ j = i => j \in S,
           Certifies(book, key, i)
    PROVE  MajorityTwoThird(Cardinality(S), N)
<1> DEFINE V == Voters(AddVote(book, key, i), key)
<1>1. V \subseteq S /\ V \subseteq Committee
  BY DEF Voters, AddVote
<1>2. MajorityTwoThird(Cardinality(V), N)
  BY DEF Certifies, Sealed
<1> QED  BY <1>1, <1>2, MajorityGrows

-----------------------------------------------------------------------------
(* What the messages back                                                   *)

\* The block b was proposed.
ProposedIn(M, b) == \E p \in M : p.type = "proposal" /\ p.block = b

\* The block b has a certified child, if it is not the genesis.
ChildIn(M, b) ==
    b # Genesis => \E p \in M : p.type = "proposal" /\ Parent(p.block) = b /\ CertifiedIn(M, p.block)

\* A quorum has brought the chain to round r: the timeout certificate tc is for
\* it, or a block of the round before, not higher than q, is certified.
RoundBacked(M, r, tc, q) ==
    \/ r = 0 \/ r \in tc
    \/ \E b \in Block : CertifiedIn(M, b) /\ Round(b) + 1 = r /\ HigherOrSame(b, q)

\* The certificates of a proposal, and its round.
ProposalBacked(M, p) ==
    /\ CertifiedIn(M, Parent(p.block)) /\ \A r \in p.tc : TimedOutIn(M, r)
    /\ RoundBacked(M, Round(p.block), p.tc, Parent(p.block))
    /\ Round(p.block) # 0 => Round(p.block) > Round(Parent(p.block))

\* The round of the beat a member has scheduled.
BeatBacked(M, s) == \A r \in s.beat : RoundBacked(M, r, s.tc, s.qc)

\* A member votes for blocks that were proposed, and reports votes it cast and
\* certificates.
MsgBacked(M, m) ==
    /\ m.type = "proposal" => ProposalBacked(M, m)
    /\ m.type = "vote" => ProposedIn(M, m.block)
    /\ m.type = "timeout" =>
          CertifiedIn(M, m.qc) /\ (m.lastVote # Genesis => Vote(m.from, m.lastVote) \in M)

\* The certificates a member holds, has committed with and is about to send,
\* and the votes it has recorded and cast.
NodeBacked(M, s, n) ==
    /\ CertifiedIn(M, s.qc) /\ CertifiedIn(M, s.best) /\ ChildIn(M, s.best)
    /\ Tidy(s)
    /\ s.sending \/ s.cur \subseteq M
    /\ \A p \in s.cur : ProposalBacked(M, p)
    /\ \A r \in s.tc : TimedOutIn(M, r)
    /\ BeatBacked(M, s)
    /\ s.lastVote # Genesis => Vote(n, s.lastVote) \in M
    /\ \A b \in Block, i \in Committee : <<b, i>> \in s.qcVotes => Vote(i, b) \in M
    /\ \A r \in Nat, i \in Committee : <<r, i>> \in s.tcVotes => i \in TimeoutsIn(M, r)

Backed(M) == M \subseteq Message /\ \A m \in M : MsgBacked(M, m)

\* What is backed stays backed when messages are added.
LEMMA BackedGrows ==
    ASSUME NEW M, NEW M2, M \subseteq M2
    PROVE  /\ \A m : MsgBacked(M, m) => MsgBacked(M2, m)
           /\ \A s, n : NodeBacked(M, s, n) => NodeBacked(M2, s, n)
<1>1. /\ \A b : CertifiedIn(M, b) => CertifiedIn(M2, b)
      /\ \A r : TimedOutIn(M, r) => TimedOutIn(M2, r)
  BY CertifiedGrows
<1>2. \A r, tc, q : RoundBacked(M, r, tc, q) => RoundBacked(M2, r, tc, q)
  BY <1>1, Zenon DEF RoundBacked
<1>3. \A p : ProposalBacked(M, p) => ProposalBacked(M2, p)
  BY <1>2, <1>1, Zenon DEF ProposalBacked
<1>4. \A m : MsgBacked(M, m) => MsgBacked(M2, m)
  BY <1>1, <1>3 DEF MsgBacked, ProposedIn
<1>5. \A b : ChildIn(M, b) => ChildIn(M2, b)
  BY <1>1 DEF ChildIn
<1>6. \A r : TimeoutsIn(M, r) \subseteq TimeoutsIn(M2, r)
  BY DEF TimeoutsIn
<1>7. ASSUME NEW s, NEW n, NodeBacked(M, s, n)
      PROVE  NodeBacked(M2, s, n)
  <2>1. CertifiedIn(M2, s.qc) /\ CertifiedIn(M2, s.best) /\ ChildIn(M2, s.best)
    BY <1>1, <1>5, <1>7, Zenon DEF NodeBacked
  <2>2. (\A p \in s.cur : ProposalBacked(M2, p)) /\ (\A r \in s.tc : TimedOutIn(M2, r))
    BY <1>1, <1>3, <1>7, Zenon DEF NodeBacked
  <2>3. Tidy(s) /\ (s.sending \/ s.cur \subseteq M2)
    BY <1>7, Zenon DEF NodeBacked
  <2>4. BeatBacked(M2, s) /\ (s.lastVote # Genesis => Vote(n, s.lastVote) \in M2)
    BY <1>2, <1>7, Zenon DEF NodeBacked, BeatBacked
  <2>5. \A b \in Block, i \in Committee : <<b, i>> \in s.qcVotes => Vote(i, b) \in M2
    BY <1>7, Zenon DEF NodeBacked
  <2>6. \A r \in Nat, i \in Committee : <<r, i>> \in s.tcVotes => i \in TimeoutsIn(M2, r)
    BY <1>6, <1>7, Zenon DEF NodeBacked
  <2> QED  BY <2>1, <2>2, <2>4, <2>5, <2>6, <2>3, Zenon DEF NodeBacked
<1> QED  BY <1>4, <1>7

\* The order of certificates is reflexive and transitive.
LEMMA HigherFacts ==
    ASSUME NEW b \in Block, NEW c \in Block, NEW d \in Block
    PROVE  /\ HigherOrSame(b, b)
           /\ HigherOrSame(b, c) /\ HigherOrSame(c, d) => HigherOrSame(b, d)
<1>1. /\ Height(b) \in Nat /\ Height(c) \in Nat /\ Height(d) \in Nat
      /\ Round(b) \in Nat /\ Round(c) \in Nat /\ Round(d) \in Nat
  BY BlockFacts
<1> QED  BY <1>1 DEF HigherOrSame

\* The fields the invariants speak of, other than QCHigh, the best block and the
\* scheduled beat.
SameCore(s, t) ==
    /\ t.inc = s.inc /\ t.beatRound = s.beatRound /\ t.lastVote = s.lastVote
    /\ t.cur = s.cur /\ t.sending = s.sending /\ t.tc = s.tc
    /\ t.qcVotes = s.qcVotes /\ t.tcVotes = s.tcVotes
    /\ Tidy(s) => Tidy(t)

\* A step that only moves QCHigh, the best block and the beat.
LEMMA SameCoreBacked ==
    ASSUME NEW M, NEW n, NEW s, NEW t, NodeBacked(M, s, n), SameCore(s, t),
           CertifiedIn(M, t.qc), CertifiedIn(M, t.best), ChildIn(M, t.best), BeatBacked(M, t)
    PROVE  NodeBacked(M, t, n)
BY Zenon DEF NodeBacked, SameCore

\* From s the member n gets to t: what it holds stays backed, QCHigh does not go
\* back, its chain is extended if it changes, and it proposes nothing.
Advances(M, n, s, t) ==
    /\ t \in Node /\ NodeBacked(M, t, n)
    /\ HigherOrSame(s.qc, t.qc) /\ s.best \in Ancestors(t.best)
    /\ t.inc = s.inc /\ t.beatRound = s.beatRound /\ t.cur = s.cur

\* Advances is reflexive and transitive, so the steps of a handler add up.
LEMMA AdvancesFacts ==
    ASSUME NEW M, NEW n, NEW s \in Node, NodeBacked(M, s, n)
    PROVE  /\ Advances(M, n, s, s)
           /\ \A t \in Node, u \in Node :
                 Advances(M, n, s, t) /\ Advances(M, n, t, u) => Advances(M, n, s, u)
<1>1. \A t \in Node : t.qc \in Block
  BY DEF Node
<1>2. HigherOrSame(s.qc, s.qc) /\ s.best \in Ancestors(s.best)
  <2>1. s.best \in Block
    BY DEF Node
  <2>2. s.best \in Ancestors(s.best)
    BY <2>1, AncestorFacts, Zenon
  <2> QED  BY <1>1, <2>2, HigherFacts
<1>3. ASSUME NEW t \in Node, NEW u \in Node, Advances(M, n, s, t), Advances(M, n, t, u)
      PROVE  Advances(M, n, s, u)
  <2>1. HigherOrSame(s.qc, u.qc)
    BY <1>1, <1>3, HigherFacts DEF Advances
  <2>2. s.best \in Ancestors(u.best)
    <3>1. u.best \in Block
      BY DEF Node
    <3>2. s.best \in Ancestors(t.best) /\ t.best \in Ancestors(u.best)
      BY <1>3 DEF Advances
    <3> QED  BY <3>1, <3>2, AncestorsNest
  <2> QED  BY <1>3, <2>1, <2>2, Zenon DEF Advances
<1>4. Advances(M, n, s, s)
  BY <1>2, Zenon DEF Advances
<1> QED  BY <1>3, <1>4

-----------------------------------------------------------------------------
(* Steps within a handler                                                   *)

\* UpdateQCHigh keeps QCHigh or takes a certificate that is not lower.
LEMMA UpdateQCHighFacts ==
    ASSUME NEW s \in Node, NEW q \in Block, NEW known \in BOOLEAN
    PROVE  LET t == UpdateQCHigh(s, q, known)
           IN  /\ t \in Node /\ SameCore(s, t) /\ t.best = s.best /\ t.beat = s.beat
               /\ t.qc \in {s.qc, q} /\ HigherOrSame(s.qc, t.qc)
<1>1. /\ Height(q) \in Nat /\ Round(q) \in Nat
      /\ s.qc \in Block /\ Height(s.qc) \in Nat /\ Round(s.qc) \in Nat
  BY BlockFacts DEF Node
<1>2. CASE known /\ Height(q) > Height(s.qc)
  <2>1. UpdateQCHigh(s, q, known) = [s EXCEPT !.qc = q, !.qcNode = TRUE]
    BY <1>2 DEF UpdateQCHigh
  <2>2. [s EXCEPT !.qc = q, !.qcNode = TRUE] \in Node
    BY Zenon DEF Node
  <2>3. LET t == [s EXCEPT !.qc = q, !.qcNode = TRUE]
        IN  SameCore(s, t) /\ t.best = s.best /\ t.beat = s.beat /\ t.qc = q
    BY DEF SameCore, Node, Tidy
  <2>4. HigherOrSame(s.qc, q)
    BY <1>1, <1>2 DEF HigherOrSame
  <2> QED  BY <2>1, <2>2, <2>3, <2>4
<1>3. CASE ~ (known /\ Height(q) > Height(s.qc)) /\ ~ s.qcNode
  <2>1. UpdateQCHigh(s, q, known) = [s EXCEPT !.up = FALSE]
    BY <1>3 DEF UpdateQCHigh, Panic
  <2>2. [s EXCEPT !.up = FALSE] \in Node
    BY Zenon DEF Node
  <2>3. LET t == [s EXCEPT !.up = FALSE]
        IN  SameCore(s, t) /\ t.best = s.best /\ t.beat = s.beat /\ t.qc = s.qc
    BY DEF SameCore, Node, Tidy
  <2>4. HigherOrSame(s.qc, s.qc)
    BY <1>1 DEF HigherOrSame
  <2> QED  BY <2>1, <2>2, <2>3, <2>4
<1>4. CASE /\ ~ (known /\ Height(q) > Height(s.qc)) /\ s.qcNode
           /\ Height(q) = Height(s.qc) /\ Round(q) > Round(s.qc)
  <2>1. UpdateQCHigh(s, q, known) = [s EXCEPT !.qc = q, !.qcNode = known]
    BY <1>4 DEF UpdateQCHigh
  <2>2. [s EXCEPT !.qc = q, !.qcNode = known] \in Node
    BY Zenon DEF Node
  <2>3. LET t == [s EXCEPT !.qc = q, !.qcNode = known]
        IN  SameCore(s, t) /\ t.best = s.best /\ t.beat = s.beat /\ t.qc = q
    BY DEF SameCore, Node, Tidy
  <2>4. HigherOrSame(s.qc, q)
    BY <1>1, <1>4 DEF HigherOrSame
  <2> QED  BY <2>1, <2>2, <2>3, <2>4
<1>5. CASE /\ ~ (known /\ Height(q) > Height(s.qc)) /\ s.qcNode
           /\ ~ (Height(q) = Height(s.qc) /\ Round(q) > Round(s.qc))
  <2>1. UpdateQCHigh(s, q, known) = s
    BY <1>5 DEF UpdateQCHigh
  <2> QED  BY <1>1, <2>1 DEF SameCore, HigherOrSame
<1> QED  BY <1>2, <1>3, <1>4, <1>5

\* OnCommit moves the best block to the last one to commit if the parent of the
\* first is stored, or not at all.
LEMMA OnCommitFacts ==
    ASSUME NEW s \in Node, NEW ready, ready # << >>, ready[Len(ready)] \in Block
    PROVE  LET t == OnCommit(s, ready)
           IN  /\ t \in Node /\ SameCore(s, t) /\ t.beat = s.beat /\ t.qc = s.qc
               /\ \/ t.best = s.best
                  \/ t.best = ready[Len(ready)] /\ Stored(s, Parent(ready[1]))
<1> DEFINE u == CommitBlocks(s, ready)
           b == ready[Len(ready)]
           kept == {d \in u.drafts : Height(d) > Height(b) \/ d = b}
           t == [u EXCEPT !.drafts = kept,
                          !.final = (@ \cup {b}) \cap kept,
                          !.hollow = @ \cap kept]
<1>1. /\ u \in Node /\ SameCore(s, u) /\ u.beat = s.beat /\ u.qc = s.qc
      /\ u.best = s.best \/ (u.best = b /\ Stored(s, Parent(ready[1])))
  <2>1. u = s \/ (u = [s EXCEPT !.best = b] /\ Stored(s, Parent(ready[1])))
    BY DEF CommitBlocks
  <2>2. [s EXCEPT !.best = b] \in Node
    BY Zenon DEF Node
  <2>3. LET w == [s EXCEPT !.best = b]
        IN  SameCore(s, w) /\ w.beat = s.beat /\ w.qc = s.qc /\ w.best = b
    BY DEF SameCore, Node, Tidy
  <2> QED  BY <2>1, <2>2, <2>3, Zenon DEF SameCore
<1>2. OnCommit(s, ready) = t
  BY DEF OnCommit, PruneUpTo
<1>3. u.drafts \subseteq Block /\ u.final \subseteq Block /\ u.hollow \subseteq Block
  BY <1>1 DEF Node
<1> HIDE DEF u
<1>4. kept \subseteq Block /\ (u.final \cup {b}) \cap kept \subseteq Block
      /\ u.hollow \cap kept \subseteq Block
  BY <1>3
<1> HIDE DEF kept
<1>5. t \in Node
  BY <1>1, <1>4, Zenon DEF Node
<1>6. SameCore(u, t) /\ t.beat = u.beat /\ t.qc = u.qc /\ t.best = u.best
  BY <1>1 DEF SameCore, Node, Tidy
<1> QED  BY <1>1, <1>2, <1>5, <1>6 DEF SameCore

\* Update commits up to the parent of the certified block, on top of what is
\* committed.
LEMMA UpdateFacts ==
    ASSUME NEW s \in Node, NEW q \in Block
    PROVE  LET t == Update(s, q)
           IN  /\ t \in Node /\ SameCore(s, t) /\ t.beat = s.beat
               /\ t.qc \in {s.qc, q} /\ HigherOrSame(s.qc, t.qc)
               /\ \/ t.best = s.best
                  \/ q # Genesis /\ t.best = Parent(q) /\ s.best \in Ancestors(Parent(q))
<1>1. s.qc \in Block /\ s.best \in Block
  BY DEF Node
<1>2. HigherOrSame(s.qc, s.qc)
  BY <1>1, BlockFacts DEF HigherOrSame
<1>3. CASE q \notin s.drafts \/ q \in s.final
  BY <1>2, <1>3, Zenon DEF Update, SameCore
<1>4. CASE ~ (q \notin s.drafts \/ q \in s.final) /\ q \in s.hollow
  <2>1. Update(s, q) = [s EXCEPT !.up = FALSE]
    BY <1>4 DEF Update, Panic
  <2>2. [s EXCEPT !.up = FALSE] \in Node
    BY Zenon DEF Node
  <2> QED  BY <1>2, <2>1, <2>2, Zenon DEF SameCore, Node, Tidy
<1>5. CASE ~ (q \notin s.drafts \/ q \in s.final) /\ q \notin s.hollow
  <2>1. PICK u \in Node : u = UpdateQCHigh(s, q, TRUE)
    BY UpdateQCHighFacts, Zenon
  <2>2. /\ SameCore(s, u) /\ u.best = s.best /\ u.beat = s.beat
        /\ u.qc \in {s.qc, q} /\ HigherOrSame(s.qc, u.qc)
    BY <2>1, UpdateQCHighFacts, Zenon
  <2>3. PICK ready : ready = CommitReady(u, q)
    OBVIOUS
  <2>4. Update(s, q) = IF u.up THEN OnCommit(u, ready) ELSE u
    BY <1>5, <2>1, <2>3 DEF Update
  <2>5. CASE ~ u.up \/ ready = << >>
    <3>1. Update(s, q) = u
      BY <2>4, <2>5 DEF OnCommit
    <3> QED  BY <2>2, <3>1
  <2>6. CASE u.up /\ ready # << >>
    <3>1. PICK h \in Nat : h = Height(u.best)
      BY <1>1, <2>2, BlockFacts
    <3>2. PICK l \in Nat : l = Height(q)
      BY BlockFacts
    <3>3. ready = [k \in 1 .. l - 1 - h |-> SubSeq(q, 1, h + k)]
      BY <2>3, <3>1, <3>2 DEF CommitReady
    <3>4. l - 1 - h >= 1
      <4>1. CASE l - 1 - h < 1
        <5>1. 1 .. l - 1 - h = 1 .. 0
          BY <3>1, <3>2, <4>1
        <5>2. ready \in [1 .. 0 -> Block]
          <6>1. ready = [k \in 1 .. 0 |-> SubSeq(q, 1, h + k)]
            BY <3>3, <5>1, Zenon
          <6>2. \A k \in 1 .. 0 : SubSeq(q, 1, h + k) \in Block
            OBVIOUS
          <6> QED  BY <6>1, <6>2, Zenon
        <5>3. ready \in Seq(Block) /\ Len(ready) = 0
          BY <5>2
        <5> QED  BY <2>6, <5>3, EmptySeq
      <4> QED  BY <3>1, <3>2, <4>1
    <3>5. q # Genesis /\ Parent(q) = SubSeq(q, 1, l - 1) /\ Parent(q) \in Block
      <4>1. q # Genesis
        BY <3>1, <3>2, <3>4 DEF Genesis, Height
      <4> QED  BY <3>2, <4>1, BlockFacts
    <3>6. Len(ready) = l - 1 - h
      BY <3>1, <3>2, <3>3, <3>4
    <3>7. ready[Len(ready)] = Parent(q)
      <4>1. ready[l - 1 - h] = SubSeq(q, 1, h + (l - 1 - h))
        BY <3>1, <3>2, <3>3, <3>4
      <4>2. h + (l - 1 - h) = l - 1
        BY <3>1, <3>2
      <4> QED  BY <3>5, <3>6, <4>1, <4>2
    <3>8. LET t == OnCommit(u, ready)
          IN  /\ t \in Node /\ SameCore(u, t) /\ t.beat = u.beat /\ t.qc = u.qc
              /\ \/ t.best = u.best
                 \/ t.best = Parent(q) /\ Stored(u, Parent(ready[1]))
      BY <2>6, <3>5, <3>7, OnCommitFacts, Zenon
    <3>9. ASSUME Stored(u, Parent(ready[1]))  PROVE s.best \in Ancestors(Parent(q))
      <4>1. h \in 0 .. l /\ h + 1 \in 0 .. l /\ l - 1 \in 0 .. l /\ h \in 0 .. l - 1 /\ h \in 0 .. h + 1
            /\ 1 \in 1 .. l - 1 - h /\ h + 1 - 1 = h /\ h + 1 # 0
        BY <3>1, <3>2, <3>4
      <4>2. PICK c \in Block : c = SubSeq(q, 1, h + 1) /\ Height(c) = h + 1 /\ SubSeq(c, 1, h) = SubSeq(q, 1, h)
        <5>1. /\ SubSeq(q, 1, h + 1) \in Block /\ Height(SubSeq(q, 1, h + 1)) = h + 1
              /\ \A j \in 0 .. h + 1 : SubSeq(SubSeq(q, 1, h + 1), 1, j) = SubSeq(q, 1, j)
          BY <3>2, <4>1, AncestorFacts, Zenon
        <5> QED  BY <4>1, <5>1, Zenon
      <4>3. Parent(ready[1]) = SubSeq(q, 1, h)
        <5>1. ready[1] = c
          BY <3>3, <4>1, <4>2
        <5>2. Height(Genesis) = 0
          BY DEF Genesis, Height
        <5>3. c # Genesis
          BY <4>1, <4>2, <5>2, Zenon
        <5>4. Parent(c) = SubSeq(c, 1, Height(c) - 1)
          BY <5>3, BlockFacts, Zenon
        <5>5. Height(c) - 1 = h
          BY <3>1, <4>2
        <5> QED  BY <4>2, <5>1, <5>4, <5>5, Zenon
      <4>4. PICK a : a = SubSeq(q, 1, h) /\ Height(a) = h /\ a \in Block
        BY <3>2, <4>1, AncestorFacts, Zenon
      <4>5. a \in Ancestors(u.best)
        BY <3>9, <4>3, <4>4 DEF Stored
      <4>6. u.best \in Block /\ SubSeq(u.best, 1, Height(u.best)) = u.best
        <5>1. u.best \in Block
          BY <1>1, <2>2
        <5> QED  BY <5>1, AncestorFacts, Zenon
      <4>7. a = SubSeq(u.best, 1, Height(a))
        BY <4>5, <4>6, AncestorFacts, Zenon
      <4>8. a = s.best
        BY <2>2, <3>1, <4>4, <4>6, <4>7
      <4>9. PICK p \in Block : p = Parent(q) /\ Height(p) = l - 1 /\ SubSeq(p, 1, h) = a
        <5>1. /\ SubSeq(q, 1, l - 1) \in Block /\ Height(SubSeq(q, 1, l - 1)) = l - 1
              /\ \A j \in 0 .. l - 1 : SubSeq(SubSeq(q, 1, l - 1), 1, j) = SubSeq(q, 1, j)
          BY <3>2, <4>1, AncestorFacts, Zenon
        <5> QED  BY <3>5, <4>1, <4>4, <5>1, Zenon
      <4>10. SubSeq(p, 1, h) \in Ancestors(p)
        BY <4>1, <4>9, AncestorFacts, Zenon
      <4> QED  BY <4>8, <4>9, <4>10, Zenon
    <3> QED  BY <2>2, <2>4, <2>6, <3>5, <3>8, <3>9 DEF SameCore
  <2> QED  BY <2>5, <2>6
<1> QED  BY <1>3, <1>4, <1>5

\* A new round and a new beat leave the rest alone.
LEMMA RoundFacts ==
    ASSUME NEW s \in Node, NEW r \in Rounds
    PROVE  /\ LET t == enterRound(s, r)
              IN  t \in Node /\ SameCore(s, t) /\ t.beat = s.beat /\ t.qc = s.qc /\ t.best = s.best
           /\ LET t == scheduleOnBeat(s, r)
              IN  t \in Node /\ SameCore(s, t) /\ t.beat = {r} /\ t.qc = s.qc /\ t.best = s.best
<1>1. [s EXCEPT !.round = r, !.timer = {r}] \in Node /\ [s EXCEPT !.beat = {r}] \in Node
  BY Zenon DEF Node
<1>2. LET t == [s EXCEPT !.round = r, !.timer = {r}]
      IN  SameCore(s, t) /\ t.beat = s.beat /\ t.qc = s.qc /\ t.best = s.best
  BY DEF SameCore, Node, Tidy
<1>3. LET t == [s EXCEPT !.beat = {r}]
      IN  SameCore(s, t) /\ t.beat = {r} /\ t.qc = s.qc /\ t.best = s.best
  BY DEF SameCore, Node, Tidy
<1>4. SameCore(s, s)
  BY DEF SameCore
<1> QED  BY <1>1, <1>2, <1>3, <1>4 DEF enterRound, scheduleOnBeat

\* A certified block was proposed: those who voted for it had the proposal.
LEMMA CertifiedProposed ==
    ASSUME NEW M, Backed(M), NEW q \in Block, q # Genesis, CertifiedIn(M, q)
    PROVE  ProposedIn(M, q)
<1>1. VotersIn(M, q) # {}
  <2>1. VotersIn(M, q) \subseteq Committee
    BY DEF VotersIn
  <2> QED  BY <2>1, MajorityGrows DEF CertifiedIn
<1>2. PICK i \in Committee : Vote(i, q) \in M
  BY <1>1 DEF VotersIn
<1>3. Vote(i, q).type = "vote" /\ Vote(i, q).block = q
  BY DEF Vote
<1> QED  BY <1>2, <1>3 DEF Backed, MsgBacked

\* The parent of a certified block is certified and has a certified child: the
\* proposal carries the parent's certificate.
LEMMA ParentBacked ==
    ASSUME NEW M, Backed(M), NEW q \in Block, q # Genesis, CertifiedIn(M, q)
    PROVE  CertifiedIn(M, Parent(q)) /\ ChildIn(M, Parent(q))
<1>1. PICK p \in M : p.type = "proposal" /\ p.block = q
  BY CertifiedProposed DEF ProposedIn
<1>2. CertifiedIn(M, Parent(q))
  BY <1>1 DEF Backed, MsgBacked, ProposalBacked
<1> QED  BY <1>1, <1>2 DEF ChildIn

\* A higher QCHigh keeps the round of the beat justified.
LEMMA BeatStaysBacked ==
    ASSUME NEW M, NEW n, NEW s \in Node, NEW t \in Node, NodeBacked(M, s, n), SameCore(s, t),
           t.beat = s.beat, HigherOrSame(s.qc, t.qc)
    PROVE  BeatBacked(M, t)
<1>1. s.qc \in Block /\ t.qc \in Block /\ t.tc = s.tc
  BY DEF Node, SameCore
<1>2. \A b \in Block : HigherOrSame(b, s.qc) => HigherOrSame(b, t.qc)
  BY <1>1, HigherFacts
<1>3. BeatBacked(M, s)
  BY DEF NodeBacked
<1> QED  BY <1>1, <1>2, <1>3, Zenon DEF BeatBacked, RoundBacked

\* A backed member that takes over a certified block stays backed, its commits
\* and the beat it has scheduled included.
LEMMA UpdateBacked ==
    ASSUME NEW M, Backed(M), NEW n, NEW s \in Node, NodeBacked(M, s, n),
           NEW q \in Block, CertifiedIn(M, q)
    PROVE  /\ NodeBacked(M, Update(s, q), n)
           /\ \A known \in BOOLEAN : NodeBacked(M, UpdateQCHigh(s, q, known), n)
<1>1. CertifiedIn(M, s.qc) /\ CertifiedIn(M, s.best) /\ ChildIn(M, s.best)
  BY DEF NodeBacked
<1>2. NodeBacked(M, Update(s, q), n)
  <2>1. PICK t \in Node : /\ t = Update(s, q) /\ SameCore(s, t) /\ t.qc \in {s.qc, q}
                          /\ t.beat = s.beat /\ HigherOrSame(s.qc, t.qc)
                          /\ t.best = s.best \/ (q # Genesis /\ t.best = Parent(q))
    BY UpdateFacts, Zenon
  <2>2. CertifiedIn(M, t.qc) /\ CertifiedIn(M, t.best) /\ ChildIn(M, t.best)
    BY <1>1, <2>1, ParentBacked
  <2>3. BeatBacked(M, t)
    BY <2>1, BeatStaysBacked
  <2> QED  BY <2>1, <2>2, <2>3, SameCoreBacked
<1>3. ASSUME NEW known \in BOOLEAN
      PROVE  NodeBacked(M, UpdateQCHigh(s, q, known), n)
  <2>1. PICK t \in Node : /\ t = UpdateQCHigh(s, q, known) /\ SameCore(s, t)
                          /\ t.qc \in {s.qc, q} /\ t.best = s.best
                          /\ t.beat = s.beat /\ HigherOrSame(s.qc, t.qc)
    BY UpdateQCHighFacts
  <2>2. CertifiedIn(M, t.qc) /\ CertifiedIn(M, t.best) /\ ChildIn(M, t.best)
    BY <1>1, <2>1
  <2>3. BeatBacked(M, t)
    BY <2>1, BeatStaysBacked
  <2> QED  BY <2>1, <2>2, <2>3, SameCoreBacked
<1> QED  BY <1>2, <1>3

\* Update and UpdateQCHigh of a certified block advance a member.
LEMMA UpdateAdvances ==
    ASSUME NEW M, Backed(M), NEW n, NEW s \in Node, NodeBacked(M, s, n),
           NEW q \in Block, CertifiedIn(M, q)
    PROVE  /\ Advances(M, n, s, Update(s, q))
           /\ \A known \in BOOLEAN : Advances(M, n, s, UpdateQCHigh(s, q, known))
<1> s.best \in Ancestors(s.best)
  BY AdvancesFacts DEF Advances
<1>1. Advances(M, n, s, Update(s, q))
  <2>1. PICK t \in Node : /\ t = Update(s, q) /\ SameCore(s, t) /\ HigherOrSame(s.qc, t.qc)
                          /\ t.best = s.best \/ s.best \in Ancestors(t.best)
    BY UpdateFacts, Zenon
  <2>2. NodeBacked(M, t, n) /\ s.best \in Ancestors(t.best)
    BY <2>1, UpdateBacked
  <2> QED  BY <2>1, <2>2, Zenon DEF Advances, SameCore
<1>2. ASSUME NEW known \in BOOLEAN
      PROVE  Advances(M, n, s, UpdateQCHigh(s, q, known))
  <2>1. PICK t \in Node : /\ t = UpdateQCHigh(s, q, known) /\ SameCore(s, t)
                          /\ HigherOrSame(s.qc, t.qc) /\ t.best = s.best
    BY UpdateQCHighFacts
  <2>2. NodeBacked(M, t, n) /\ s.best \in Ancestors(t.best)
    BY <2>1, UpdateBacked
  <2> QED  BY <2>1, <2>2, Zenon DEF Advances, SameCore
<1> QED  BY <1>1, <1>2

\* A step that changes none of this.
LEMMA SameAdvances ==
    ASSUME NEW M, NEW n, NEW s \in Node, NodeBacked(M, s, n), NEW t \in Node,
           SameCore(s, t), t.qc = s.qc, t.best = s.best, t.beat = s.beat \/ BeatBacked(M, t)
    PROVE  Advances(M, n, s, t)
<1>1. CertifiedIn(M, t.qc) /\ CertifiedIn(M, t.best) /\ ChildIn(M, t.best)
  BY DEF NodeBacked
<1>2. HigherOrSame(s.qc, t.qc) /\ s.best \in Ancestors(t.best)
  BY AdvancesFacts DEF Advances
<1>3. BeatBacked(M, t)
  BY <1>2, BeatStaysBacked
<1>4. NodeBacked(M, t, n)
  BY <1>1, <1>3, SameCoreBacked
<1> QED  BY <1>2, <1>4, Zenon DEF Advances, SameCore

\* Entering a round advances a member, and so does a beat for a backed round.
LEMMA RoundAdvances ==
    ASSUME NEW M, NEW n, NEW s \in Node, NodeBacked(M, s, n), NEW r \in Rounds
    PROVE  /\ Advances(M, n, s, enterRound(s, r))
           /\ RoundBacked(M, r, s.tc, s.qc) => Advances(M, n, s, scheduleOnBeat(s, r))
<1>1. PICK t \in Node : t = enterRound(s, r) /\ SameCore(s, t) /\ t.beat = s.beat
                        /\ t.qc = s.qc /\ t.best = s.best
  BY RoundFacts
<1>2. PICK u \in Node : u = scheduleOnBeat(s, r) /\ SameCore(s, u) /\ u.beat = {r}
                        /\ u.qc = s.qc /\ u.best = s.best
  BY RoundFacts
<1>3. RoundBacked(M, r, s.tc, s.qc) => BeatBacked(M, u)
  BY <1>2 DEF BeatBacked, SameCore
<1> QED  BY <1>1, <1>2, <1>3, SameAdvances

\* A vote that was cast is recorded, and may complete a certificate.
LEMMA VoteAdvances ==
    ASSUME NEW M, NEW n, NEW s \in Node, NodeBacked(M, s, n),
           NEW b \in Block, NEW i \in Committee, Vote(i, b) \in M
    PROVE  /\ Advances(M, n, s, [s EXCEPT !.qcVotes = AddVote(@, b, i)])
           /\ Certifies(s.qcVotes, b, i) => CertifiedIn(M, b)
<1>1. PICK book : book = AddVote(s.qcVotes, b, i)
  OBVIOUS
<1>2. s.qcVotes \subseteq Block \X Committee
  BY DEF Node
<1>3. book \subseteq Block \X Committee /\ book \subseteq s.qcVotes \cup {<<b, i>>}
  BY <1>1, <1>2 DEF AddVote
<1>4. PICK t : t = [s EXCEPT !.qcVotes = book]
  BY Zenon
<1>5. t \in Node
  BY <1>3, <1>4, Zenon DEF Node
<1>6. /\ t.qcVotes = book /\ t.qc = s.qc /\ t.best = s.best /\ t.inc = s.inc
      /\ t.beatRound = s.beatRound /\ t.cur = s.cur /\ t.tc = s.tc /\ t.beat = s.beat
      /\ t.sending = s.sending /\ (Tidy(s) => Tidy(t))
      /\ t.lastVote = s.lastVote /\ t.tcVotes = s.tcVotes
  BY <1>4 DEF Node, Tidy
<1>7. \A c \in Block, j \in Committee : <<c, j>> \in book => Vote(j, c) \in M
  <2> SUFFICES ASSUME NEW c \in Block, NEW j \in Committee, <<c, j>> \in book
               PROVE  Vote(j, c) \in M
    OBVIOUS
  <2>1. <<c, j>> \in s.qcVotes \/ (c = b /\ j = i)
    BY <1>3
  <2> QED  BY <2>1 DEF NodeBacked
<1>8. NodeBacked(M, t, n)
  BY <1>6, <1>7, Zenon DEF NodeBacked, BeatBacked
<1>9. HigherOrSame(s.qc, t.qc) /\ s.best \in Ancestors(t.best)
  BY <1>6, AdvancesFacts DEF Advances
<1>10. Advances(M, n, s, t)
  BY <1>5, <1>6, <1>8, <1>9, Zenon DEF Advances
<1>11. ASSUME Certifies(s.qcVotes, b, i)  PROVE CertifiedIn(M, b)
  <2>1. \A j \in Committee : <<b, j>> \in s.qcVotes \/ j = i => j \in VotersIn(M, b)
    BY DEF NodeBacked, VotersIn
  <2>2. VotersIn(M, b) \subseteq Committee
    BY DEF VotersIn
  <2> QED  BY <1>11, <2>1, <2>2, BookCertifies DEF CertifiedIn
<1> QED  BY <1>1, <1>4, <1>10, <1>11

\* The same for the wish of a timeout message.
LEMMA WishAdvances ==
    ASSUME NEW M, NEW n, NEW s \in Node, NodeBacked(M, s, n),
           NEW m \in TimeoutMsg, m \in M
    PROVE  Advances(M, n, s, CountWish(s, m))
<1>1. /\ m.round \in Served /\ m.round \in Nat /\ m.round \in Rounds
      /\ m.from \in Committee /\ m.type = "timeout"
      /\ m.from \in TimeoutsIn(M, m.round)
  <2>1. m.round \in Served /\ m.from \in Committee /\ m.type = "timeout"
    BY DEF TimeoutMsg
  <2>2. m.round \in Nat /\ m.round \in Rounds
    BY <2>1, PacemakerBounds DEF Served, Rounds
  <2>3. m.from \in TimeoutsIn(M, m.round)
    BY <2>1 DEF TimeoutsIn
  <2> QED  BY <2>1, <2>2, <2>3
<1>2. PICK book : book = AddVote(s.tcVotes, m.round, m.from)
  OBVIOUS
<1>3. s.tcVotes \subseteq Served \X Committee
  BY DEF Node
<1>4. book \subseteq Served \X Committee /\ book \subseteq s.tcVotes \cup {<<m.round, m.from>>}
  BY <1>1, <1>2, <1>3 DEF AddVote
<1>5. PICK t : t = [s EXCEPT !.tcVotes = book]
  BY Zenon
<1>6. t \in Node
  BY <1>4, <1>5, Zenon DEF Node
<1>7. /\ t.tcVotes = book /\ t.qc = s.qc /\ t.best = s.best /\ t.inc = s.inc
      /\ t.beatRound = s.beatRound /\ t.cur = s.cur /\ t.tc = s.tc /\ t.beat = s.beat
      /\ t.sending = s.sending /\ (Tidy(s) => Tidy(t))
      /\ t.lastVote = s.lastVote /\ t.qcVotes = s.qcVotes
  BY <1>5 DEF Node, Tidy
<1>8. \A r \in Nat, j \in Committee : <<r, j>> \in book => j \in TimeoutsIn(M, r)
  <2> SUFFICES ASSUME NEW r \in Nat, NEW j \in Committee, <<r, j>> \in book
               PROVE  j \in TimeoutsIn(M, r)
    OBVIOUS
  <2>1. <<r, j>> \in s.tcVotes \/ (r = m.round /\ j = m.from)
    BY <1>4
  <2> QED  BY <1>1, <2>1 DEF NodeBacked
<1>9. NodeBacked(M, t, n)
  BY <1>7, <1>8, Zenon DEF NodeBacked, BeatBacked
<1>10. HigherOrSame(s.qc, t.qc) /\ s.best \in Ancestors(t.best)
  BY <1>7, AdvancesFacts DEF Advances
<1>11. Advances(M, n, s, t)
  BY <1>6, <1>7, <1>9, <1>10, Zenon DEF Advances
<1>12. CASE ~ Certifies(s.tcVotes, m.round, m.from)
  <2>1. CountWish(s, m) = t
    BY <1>2, <1>5, <1>12 DEF CountWish
  <2> QED  BY <1>11, <2>1
<1>13. CASE Certifies(s.tcVotes, m.round, m.from)
  <2>1. TimedOutIn(M, m.round)
    <3>1. \A j \in Committee : <<m.round, j>> \in s.tcVotes \/ j = m.from => j \in TimeoutsIn(M, m.round)
      BY <1>1 DEF NodeBacked
    <3>2. TimeoutsIn(M, m.round) \subseteq Committee
      BY DEF TimeoutsIn
    <3> QED  BY <1>13, <3>1, <3>2, BookCertifies DEF TimedOutIn
  <2>2. PICK u : u = [t EXCEPT !.tc = {m.round}, !.beat = {m.round}]
    BY Zenon
  <2>3. u \in Node
    BY <1>1, <1>6, <2>2, Zenon DEF Node
  <2>4. /\ u.tc = {m.round} /\ u.beat = {m.round} /\ u.qc = t.qc /\ u.best = t.best
        /\ u.inc = t.inc /\ u.beatRound = t.beatRound /\ u.cur = t.cur
        /\ u.lastVote = t.lastVote /\ u.qcVotes = t.qcVotes /\ u.tcVotes = t.tcVotes
        /\ u.sending = t.sending /\ (Tidy(t) => Tidy(u))
    BY <1>6, <2>2 DEF Node, Tidy
  <2>5. (\A r \in u.tc : TimedOutIn(M, r)) /\ BeatBacked(M, u)
    BY <2>1, <2>4 DEF BeatBacked, RoundBacked
  <2>6. NodeBacked(M, u, n)
    BY <1>9, <2>4, <2>5, Zenon DEF NodeBacked
  <2>7. Advances(M, n, t, u)
    <3>1. HigherOrSame(t.qc, u.qc) /\ t.best \in Ancestors(u.best)
      BY <1>6, <1>9, <2>4, AdvancesFacts DEF Advances
    <3> QED  BY <2>3, <2>4, <2>6, <3>1, Zenon DEF Advances
  <2>8. CountWish(s, m) = u
    BY <1>2, <1>5, <1>6, <1>13, <2>2 DEF CountWish, scheduleOnBeat, Node
  <2> QED  BY <1>6, <1>11, <2>3, <2>7, <2>8, AdvancesFacts
<1> QED  BY <1>12, <1>13

\* The last vote that a timeout message carries is one its sender has cast.
LEMMA LastVoteAdvances ==
    ASSUME NEW M, Backed(M), NEW n, NEW s \in Node, NodeBacked(M, s, n),
           NEW m \in TimeoutMsg, m \in M
    PROVE  Advances(M, n, s, CountLastVote(s, m))
<1>1. PICK b \in Block, i \in Committee : b = m.lastVote /\ i = m.from
  BY DEF TimeoutMsg
<1>2. CASE b = Genesis
  <2>1. CountLastVote(s, m) = s
    BY <1>1, <1>2 DEF CountLastVote
  <2> QED  BY <2>1, AdvancesFacts
<1>3. CASE b # Genesis
  <2>1. Vote(i, b) \in M
    <3>1. m.type = "timeout"
      BY DEF TimeoutMsg
    <3> QED  BY <1>1, <1>3, <3>1 DEF Backed, MsgBacked
  <2>2. PICK t : t = [s EXCEPT !.qcVotes = AddVote(@, b, i)]
    BY Zenon
  <2>3. Advances(M, n, s, t) /\ t \in Node /\ NodeBacked(M, t, n)
    BY <2>1, <2>2, VoteAdvances DEF Advances
  <2>4. PICK known \in BOOLEAN : known = Known(t, b)
    BY Zenon DEF Known
  <2>5. PICK u : u = UpdateQCHigh(t, b, known)
    OBVIOUS
  <2>6. CountLastVote(s, m) = IF ~ Certifies(s.qcVotes, b, i) THEN t
                              ELSE IF u.up THEN Update(u, b) ELSE u
    BY <1>1, <1>3, <2>2, <2>4, <2>5 DEF CountLastVote
  <2>7. CASE ~ Certifies(s.qcVotes, b, i)
    BY <2>3, <2>6, <2>7
  <2>8. CASE Certifies(s.qcVotes, b, i)
    <3>1. CertifiedIn(M, b)
      BY <2>1, <2>8, VoteAdvances, Zenon
    <3>2. Advances(M, n, t, u)
      BY <2>3, <2>5, <3>1, UpdateAdvances
    <3>3. Advances(M, n, s, u) /\ u \in Node /\ NodeBacked(M, u, n)
      BY <2>3, <3>2, AdvancesFacts DEF Advances
    <3>4. CASE ~ u.up
      BY <2>6, <2>8, <3>3, <3>4
    <3>5. CASE u.up
      <4>1. PICK w : w = Update(u, b)
        OBVIOUS
      <4>2. Advances(M, n, u, w) /\ w \in Node
        BY <3>1, <3>3, <4>1, UpdateAdvances DEF Advances
      <4>3. Advances(M, n, s, w)
        BY <3>3, <4>2, AdvancesFacts
      <4> QED  BY <2>6, <2>8, <3>5, <4>1, <4>3
    <3> QED  BY <3>4, <3>5
  <2> QED  BY <2>7, <2>8
<1> QED  BY <1>2, <1>3

\* A process that starts on the chain b.
LEMMA RegulateFacts ==
    ASSUME NEW b \in Block, NEW i \in 0 .. MaxRestarts
    PROVE  LET t == Regulate(b, i)
           IN  /\ t \in Node /\ t.inc = i /\ t.qc = b /\ t.best = b /\ t.lastVote = Genesis
               /\ t.cur = {} /\ t.tc = {} /\ t.qcVotes = {} /\ t.tcVotes = {}
               /\ Tidy(t) /\ \A r \in t.beat : r = 0 \/ r = Round(b) + 1
<1>1. PICK start \in Rounds : start = IF IsKBlock(b) THEN 0 ELSE Round(b) + 1
  BY BlockFacts, PacemakerBounds DEF Rounds
<1>2. PICK t : t = [up |-> TRUE, inc |-> i,
         round |-> start, timer |-> {start}, expired |-> << >>,
         beat |-> {start}, beatRound |-> start - 1,
         height |-> 0, lastVote |-> Genesis,
         qc |-> b, qcNode |-> TRUE, tc |-> {},
         cur |-> {}, sending |-> FALSE,
         drafts |-> {b}, final |-> {b}, hollow |-> {},
         best |-> b, qcVotes |-> {}, tcVotes |-> {}]
  BY Zenon
<1>3. Regulate(b, i) = t
  BY <1>1, <1>2 DEF Regulate
<1>4. /\ start - 1 \in Rounds \cup {-1} /\ Genesis \in Block /\ << >> \in Seq(Served)
      /\ {start} \in SUBSET Rounds /\ {b} \in SUBSET Block /\ 0 \in Nat
  BY <1>1, PacemakerBounds, SMTT(30) DEF Genesis, Block, Rounds
<1>5. t \in Node
  BY <1>1, <1>2, <1>4 DEF Node
<1>6. Tidy(t) /\ \A r \in t.beat : r = 0 \/ r = Round(b) + 1
  BY <1>1, <1>2 DEF Tidy
<1> QED  BY <1>2, <1>3, <1>5, <1>6

-----------------------------------------------------------------------------
(* Branches                                                                 *)

\* All ancestors of a certified block are certified: each one is the parent of the
\* next, and a proposal carries its parent's certificate.
LEMMA AncestorsCertified ==
    ASSUME NEW M, Backed(M), NEW q \in Block, CertifiedIn(M, q), NEW a \in Ancestors(q)
    PROVE  CertifiedIn(M, a)
<1> DEFINE Bad == {j \in 0 .. Height(q) : ~ CertifiedIn(M, SubSeq(q, 1, Height(q) - j))}
<1>1. Height(q) \in Nat /\ SubSeq(q, 1, Height(q)) = q
  BY BlockFacts, AncestorFacts
<1>2. ASSUME NEW j \in Bad, \A i \in Bad : j <= i
      PROVE  FALSE
  <2>1. j \in Nat /\ j <= Height(q) /\ Height(q) - j \in Nat
    BY <1>1
  <2>2. j # 0
    <3>1. Height(q) - 0 = Height(q)
      BY <1>1
    <3> QED  BY <1>1, <3>1, Zenon
  <2>3. PICK k \in 0 .. Height(q) : k = Height(q) - (j - 1) /\ k >= 1 /\ Height(q) - j = k - 1
    BY <1>1, <2>1, <2>2
  <2>4. CertifiedIn(M, SubSeq(q, 1, k))
    <3>1. j - 1 \in 0 .. Height(q) /\ ~ (j <= j - 1)
      BY <1>1, <2>1, <2>2
    <3>2. j - 1 \notin Bad
      BY <1>2, <3>1
    <3> QED  BY <2>3, <3>1, <3>2
  <2>5. PICK c \in Block : c = SubSeq(q, 1, k) /\ Height(c) = k /\ SubSeq(c, 1, k - 1) = SubSeq(q, 1, k - 1)
    <3>1. k - 1 \in 0 .. k
      BY <1>1, <2>3
    <3>2. /\ SubSeq(q, 1, k) \in Block /\ Height(SubSeq(q, 1, k)) = k
          /\ \A i \in 0 .. k : SubSeq(SubSeq(q, 1, k), 1, i) = SubSeq(q, 1, i)
      BY AncestorFacts, Zenon
    <3> QED  BY <3>1, <3>2, Zenon
  <2>6. c # Genesis
    <3>1. Height(Genesis) = 0
      BY DEF Genesis, Height
    <3>2. k # 0
      BY <2>3
    <3> QED  BY <2>5, <3>1, <3>2, Zenon
  <2>7. Parent(c) = SubSeq(q, 1, k - 1)
    BY <2>5, <2>6, BlockFacts, Zenon
  <2>8. CertifiedIn(M, Parent(c))
    BY <2>4, <2>5, <2>6, ParentBacked, Zenon
  <2> QED  BY <2>3, <2>7, <2>8
<1>3. Bad = {}
  <2>1. Bad \subseteq Nat
    BY <1>1
  <2> HIDE DEF Bad
  <2> QED  BY <1>2, <2>1, LeastNumber, Zenon
<1>4. Height(a) \in 0 .. Height(q) /\ a = SubSeq(q, 1, Height(a))
  BY AncestorFacts
<1>5. PICK j \in 0 .. Height(q) : Height(a) = Height(q) - j
  <2>1. Height(q) - Height(a) \in 0 .. Height(q) /\ Height(a) = Height(q) - (Height(q) - Height(a))
    BY <1>1, <1>4
  <2> QED  BY <2>1
<1> QED  BY <1>3, <1>4, <1>5, Zenon

\* Two majorities of the committee have a third of it in common.
LEMMA MajoritiesMeet ==
    ASSUME NEW S \in SUBSET Committee, NEW T \in SUBSET Committee,
           MajorityTwoThird(Cardinality(S), N), MajorityTwoThird(Cardinality(T), N)
    PROVE  3 * Cardinality(S \cap T) >= N
<1>1. IsFiniteSet(Committee) /\ Cardinality(Committee) = N
  <2>1. 0 \in Int /\ N - 1 \in Int /\ ~ (0 > N - 1)
    BY CommitteeNotEmpty
  <2> QED  BY <2>1, FS_Interval, CommitteeNotEmpty DEF Committee
<1>2. /\ S \cap T \subseteq Committee /\ S \cup T \subseteq Committee
  OBVIOUS
<1>3. /\ IsFiniteSet(S) /\ Cardinality(S) \in Nat
      /\ IsFiniteSet(T) /\ Cardinality(T) \in Nat
      /\ Cardinality(S \cap T) \in Nat
      /\ Cardinality(S \cup T) <= N
  BY <1>1, <1>2, FS_Subset, FS_CardinalityType
<1>4. Cardinality(S \cup T) = Cardinality(S) + Cardinality(T) - Cardinality(S \cap T)
  BY <1>3, FS_Union
<1>5. TwoThirds(N) \in Nat /\ 3 * TwoThirds(N) >= 2 * N
  BY CommitteeNotEmpty DEF TwoThirds
<1>6. Cardinality(S) >= TwoThirds(N) /\ Cardinality(T) >= TwoThirds(N)
  BY DEF MajorityTwoThird
<1> QED  BY <1>3, <1>4, <1>5, <1>6, CommitteeNotEmpty

\* The lower of two certified blocks, and the other's ancestor at its height: if
\* they differ, a third of the committee voted for both.
LEMMA CertifiedAtOneHeight ==
    ASSUME NEW M, Backed(M), NEW b \in Block, NEW c \in Block,
           CertifiedIn(M, b), CertifiedIn(M, c), Height(b) <= Height(c), b \notin Ancestors(c)
    PROVE  \E e \in Ancestors(c) :
              /\ b # e /\ Height(b) = Height(e)
              /\ 3 * Cardinality(VotersIn(M, b) \cap VotersIn(M, e)) >= N
<1>1. Height(b) \in Nat /\ Height(c) \in Nat /\ Height(b) \in 0 .. Height(c)
  BY BlockFacts
<1>2. PICK e : e = SubSeq(c, 1, Height(b))
  BY Zenon
<1>3. e \in Ancestors(c) /\ e \in Block /\ Height(e) = Height(b)
  BY <1>1, <1>2, AncestorFacts, Zenon
<1>4. b # e /\ CertifiedIn(M, e)
  BY <1>3, AncestorsCertified
<1>5. \A x \in Block : Height(x) = 0 <=> x = Genesis
  BY EmptySeq DEF Height, Genesis, Block
<1>6. b # Genesis /\ e # Genesis
  BY <1>3, <1>4, <1>5, Zenon
<1>7. /\ MajorityTwoThird(Cardinality(VotersIn(M, b)), N)
      /\ MajorityTwoThird(Cardinality(VotersIn(M, e)), N)
      /\ VotersIn(M, b) \in SUBSET Committee /\ VotersIn(M, e) \in SUBSET Committee
  BY <1>4, <1>6 DEF CertifiedIn, VotersIn
<1>8. 3 * Cardinality(VotersIn(M, b) \cap VotersIn(M, e)) >= N
  BY <1>7, MajoritiesMeet, Zenon
<1> QED  BY <1>3, <1>4, <1>8, Zenon

\* Certified blocks of two branches need votes for two blocks of one height.
LEMMA ForkVoters ==
    ASSUME NEW M, Backed(M), NEW b \in Block, NEW c \in Block,
           CertifiedIn(M, b), CertifiedIn(M, c), ~ SameBranch(b, c)
    PROVE  \E d \in Ancestors(b), e \in Ancestors(c) :
              /\ d # e /\ Height(d) = Height(e)
              /\ 3 * Cardinality(VotersIn(M, d) \cap VotersIn(M, e)) >= N
<1>1. Height(b) \in Nat /\ Height(c) \in Nat /\ b \in Ancestors(b) /\ c \in Ancestors(c)
  BY BlockFacts, AncestorFacts, Zenon
<1>2. CASE Height(b) <= Height(c)
  <2>1. PICK e \in Ancestors(c) :
              /\ b # e /\ Height(b) = Height(e)
              /\ 3 * Cardinality(VotersIn(M, b) \cap VotersIn(M, e)) >= N
    BY <1>2, CertifiedAtOneHeight, Zenon DEF SameBranch
  <2> QED  BY <1>1, <2>1, Zenon
<1>3. CASE Height(c) <= Height(b)
  <2>1. PICK d \in Ancestors(b) :
              /\ c # d /\ Height(c) = Height(d)
              /\ 3 * Cardinality(VotersIn(M, c) \cap VotersIn(M, d)) >= N
    BY <1>3, CertifiedAtOneHeight, Zenon DEF SameBranch
  <2>2. /\ d # c /\ Height(d) = Height(c)
        /\ VotersIn(M, c) \cap VotersIn(M, d) = VotersIn(M, d) \cap VotersIn(M, c)
    BY <2>1
  <2> QED  BY <1>1, <2>1, <2>2, Zenon
<1>4. Height(b) <= Height(c) \/ Height(c) <= Height(b)
  BY <1>1
<1> QED  BY <1>2, <1>3, <1>4, Zenon

-----------------------------------------------------------------------------
(* The invariant                                                            *)

\* The mark of a block is of the proposer's present process and not above the
\* last round it had a beat for, or of an earlier process.
MarkBelow(k, s) == k.inc < s.inc \/ (k.inc = s.inc /\ k.round <= s.beatRound)

\* The proposal the member is about to send is its own, and no other has its mark.
Stamped(M, s, n) ==
    /\ \A p \in s.cur :
          LET k == OwnMark(p.block)
          IN  RoundProposer(k.round) = n /\ k.inc = s.inc /\ k.round <= s.beatRound
    /\ \A p \in M :
          p.type = "proposal" /\ RoundProposer(OwnMark(p.block).round) = n => MarkBelow(OwnMark(p.block), s)
    /\ \A p \in s.cur, q \in M \cup s.cur :
          q.type = "proposal" /\ OwnMark(p.block) = OwnMark(q.block) => p = q

Unique(M) ==
    \A p, q \in M :
        p.type = "proposal" /\ q.type = "proposal" /\ OwnMark(p.block) = OwnMark(q.block) => p = q

PInv ==
    /\ node \in [Committee -> Node]
    /\ Backed(msgs) /\ Unique(msgs)
    /\ \A n \in Committee : NodeBacked(msgs, node[n], n) /\ Stamped(msgs, node[n], n)
    /\ restarts \in 0 .. MaxRestarts /\ \A n \in Committee : node[n].inc <= restarts

NothingGoesBack ==
    \A n \in Committee :
        /\ node'[n].inc = node[n].inc => HigherOrSame(node[n].qc, node'[n].qc)
        /\ node[n].best \in Ancestors(node'[n].best)

\* The rest of the state: what is counted, and what was handled.
Counted ==
    /\ setup \in Setups /\ timeouts \in 0 .. MaxTimeouts
    /\ done \in [Committee -> SUBSET msgs]

\* A message is of the kind its type says.
LEMMA MessageKinds ==
    ASSUME NEW m \in Message
    PROVE  /\ m.type = "proposal" => m \in ProposalMsg
           /\ m.type = "vote" => m \in VoteMsg /\ m = Vote(m.from, m.block)
           /\ m.type = "timeout" => m \in TimeoutMsg
BY DEF Message, ProposalMsg, VoteMsg, TimeoutMsg, QueryMsg, Vote

\* The marks of the proposals there are.
LEMMA MarkTypes ==
    ASSUME PInv, NEW n \in Committee
    PROVE  /\ \A p \in node[n].cur : p \in ProposalMsg /\ p.type = "proposal" /\ OwnMark(p.block) \in Mark
           /\ \A p \in msgs : p.type = "proposal" => p \in ProposalMsg /\ OwnMark(p.block) \in Mark
<1>1. \A p \in ProposalMsg : p.type = "proposal" /\ OwnMark(p.block) \in Mark
  BY BlockFacts DEF ProposalMsg
<1>2. node[n].cur \subseteq ProposalMsg
  BY DEF PInv, Node
<1>3. \A p \in msgs : p.type = "proposal" => p \in ProposalMsg
  BY MessageKinds DEF PInv, Backed
<1> QED  BY <1>1, <1>2, <1>3

-----------------------------------------------------------------------------
(* What the invariant says                                                  *)

\* CertifiedIn of the messages sent is what the properties call certified.
LEMMA CertifiedMeans == \A b : CertifiedIn(msgs, b) <=> Certified(b)
BY DEF CertifiedIn, VotersIn, Certified, VotersFor

\* Certificates a member holds or sends are backed by votes.
LEMMA PInvCertificates == PInv => CertificatesBacked
<1> SUFFICES ASSUME PInv  PROVE CertificatesBacked
  BY Zenon
<1>1. \A n \in Committee : Certified(node[n].qc)
  BY CertifiedMeans, SMTT(30) DEF PInv, NodeBacked
<1>2. \A m \in Proposals : Certified(Parent(m.block))
  BY CertifiedMeans DEF PInv, Backed, MsgBacked, ProposalBacked, Proposals
<1>3. \A m \in Timeouts : Certified(m.qc)
  BY CertifiedMeans DEF PInv, Backed, MsgBacked, Timeouts
<1> QED  BY <1>1, <1>2, <1>3 DEF CertificatesBacked

\* Timeout certificates are backed by timeout messages.
LEMMA PInvTimeoutCerts == PInv => TimeoutCertsBacked
<1> SUFFICES ASSUME PInv, NEW m \in Proposals, NEW r \in m.tc
             PROVE  MajorityTwoThird(Cardinality({t.from : t \in {u \in Timeouts : u.round = r}}), N)
  BY Zenon DEF TimeoutCertsBacked
<1>1. TimedOutIn(msgs, r)
  BY DEF PInv, Backed, MsgBacked, ProposalBacked, Proposals
<1>2. PICK S : S = {t.from : t \in {u \in Timeouts : u.round = r}}
  BY Zenon
<1>3. \A t \in Timeouts : t.from \in Committee
  BY MessageKinds DEF PInv, Backed, Timeouts, TimeoutMsg
<1>4. S \subseteq Committee
  BY <1>2, <1>3
<1>5. TimeoutsIn(msgs, r) \subseteq S /\ TimeoutsIn(msgs, r) \subseteq Committee
  BY <1>2 DEF TimeoutsIn, Timeouts
<1>6. MajorityTwoThird(Cardinality(S), N)
  BY <1>1, <1>4, <1>5, MajorityGrows, SMTT(30) DEF TimedOutIn
<1> QED  BY <1>2, <1>6

\* The last block committed is certified and has a certified child.
LEMMA PInvCommitted == PInv => CommittedHasCertifiedChild
<1> SUFFICES ASSUME PInv, NEW n \in Committee, node[n].best # Genesis
             PROVE  /\ Certified(node[n].best)
                    /\ \E m \in Proposals : Parent(m.block) = node[n].best /\ Certified(m.block)
  BY SMTT(30) DEF CommittedHasCertifiedChild
<1>1. CertifiedIn(msgs, node[n].best) /\ ChildIn(msgs, node[n].best)
  BY DEF PInv, NodeBacked
<1> QED  BY <1>1, CertifiedMeans DEF ChildIn, Proposals

\* The rounds of proposals are justified.
LEMMA PInvRounds == PInv => RoundsJustified
<1> SUFFICES ASSUME PInv, NEW m \in Proposals, Round(m.block) # 0
             PROVE  /\ Round(m.block) > Round(Parent(m.block))
                    /\ \/ Round(m.block) \in m.tc
                       \/ \E b \in VotedFor : /\ Certified(b) /\ Round(b) + 1 = Round(m.block)
                                              /\ HigherOrSame(b, Parent(m.block))
  BY Zenon DEF RoundsJustified
<1>1. ProposalBacked(msgs, m)
  BY DEF PInv, Backed, MsgBacked, Proposals
<1>2. CASE Round(m.block) \in m.tc
  BY <1>1, <1>2 DEF ProposalBacked
<1>3. CASE Round(m.block) \notin m.tc
  <2>1. PICK b \in Block : /\ CertifiedIn(msgs, b) /\ Round(b) + 1 = Round(m.block)
                              /\ HigherOrSame(b, Parent(m.block))
    BY <1>1, <1>3 DEF ProposalBacked, RoundBacked
  <2>2. b \in VotedFor
    <3>1. CASE b = Genesis
      BY <3>1 DEF VotedFor
    <3>2. CASE b # Genesis
      <4>1. VotersIn(msgs, b) # {}
        <5>1. VotersIn(msgs, b) \subseteq Committee
          BY DEF VotersIn
        <5> QED  BY <2>1, <3>2, <5>1, MajorityGrows DEF CertifiedIn
      <4>2. PICK i \in Committee : Vote(i, b) \in msgs
        BY <4>1 DEF VotersIn
      <4>3. Vote(i, b).type = "vote" /\ Vote(i, b).block = b
        BY DEF Vote
      <4> QED  BY <4>2, <4>3 DEF VotedFor
    <3> QED  BY <3>1, <3>2
  <2>3. Certified(b)
    BY <2>1, CertifiedMeans
  <2> QED  BY <1>1, <2>1, <2>2, <2>3 DEF ProposalBacked
<1> QED  BY <1>2, <1>3

\* A block that was voted for.
LEMMA VotedForTypes == PInv => VotedFor \subseteq Block
<1> SUFFICES ASSUME PInv, NEW b \in VotedFor  PROVE b \in Block
  BY Zenon
<1>1. CASE b = Genesis
  BY <1>1 DEF Genesis, Block
<1>2. CASE b # Genesis
  <2>1. PICK v \in msgs : v.type = "vote" /\ v.block = b
    BY <1>2 DEF VotedFor
  <2> QED  BY <2>1, MessageKinds DEF PInv, Backed, VoteMsg
<1> QED  BY <1>1, <1>2

\* The voters the invariant speaks of are those the properties do.
LEMMA VotersMeans == \A b : VotersIn(msgs, b) = VotersFor(b)
BY DEF VotersIn, VotersFor

\* Two branches need votes of a third of the committee for two blocks of one height.
LEMMA PInvForks == PInv => ForkNeedsDoubleVotes
<1> SUFFICES ASSUME PInv, NEW b \in VotedFor, NEW c \in VotedFor,
                    Certified(b), Certified(c), ~ SameBranch(b, c)
             PROVE  \E d \in Ancestors(b), e \in Ancestors(c) :
                       /\ d # e /\ Height(d) = Height(e)
                       /\ 3 * Cardinality(VotersFor(d) \cap VotersFor(e)) >= N
  BY Zenon DEF ForkNeedsDoubleVotes
<1>1. b \in Block /\ c \in Block /\ Backed(msgs)
  BY VotedForTypes DEF PInv
<1>2. CertifiedIn(msgs, b) /\ CertifiedIn(msgs, c)
  BY CertifiedMeans
<1>3. \E d \in Ancestors(b), e \in Ancestors(c) :
         /\ d # e /\ Height(d) = Height(e)
         /\ 3 * Cardinality(VotersIn(msgs, d) \cap VotersIn(msgs, e)) >= N
  BY <1>1, <1>2, ForkVoters, Zenon
<1> QED  BY <1>3, VotersMeans, Zenon

\* What a member has committed is certified.
LEMMA BestCertified ==
    ASSUME PInv, NEW n \in Committee
    PROVE  node[n].best \in Block /\ CertifiedIn(msgs, node[n].best)
<1>1. node[n] \in Node /\ NodeBacked(msgs, node[n], n)
  BY Zenon DEF PInv
<1>2. node[n].best \in Block
  BY <1>1 DEF Node
<1> QED  BY <1>1, <1>2, Zenon DEF NodeBacked

\* No two proposals have one mark.
LEMMA PInvMarks == PInv => OneProposalPerRound
BY DEF PInv, Unique, OneProposalPerRound, Proposals

\* The state is well-typed.
LEMMA PInvTypes == PInv /\ Counted => TypeOK
<1> SUFFICES ASSUME PInv, Counted, NEW n \in Committee  PROVE NodeOK(node[n])
  BY DEF TypeOK, PInv, Counted
<1>1. PICK s \in Node : s = node[n] /\ NodeBacked(msgs, s, n)
  BY DEF PInv
<1>2. Served \subseteq Rounds
  BY PacemakerBounds DEF Served, Rounds
<1>3. /\ s.up \in BOOLEAN /\ s.qcNode \in BOOLEAN /\ s.sending \in BOOLEAN
      /\ s.inc \in 0 .. MaxRestarts
      /\ s.round \in Rounds /\ s.beatRound \in Rounds \cup {-1}
      /\ s.timer \subseteq Rounds /\ s.beat \subseteq Rounds
      /\ s.expired \in Seq(Served) /\ s.height \in Nat
  BY DEF Node
<1>4. /\ s.tc \subseteq Served /\ s.tcVotes \subseteq Served \X Committee
      /\ s.lastVote \in Block /\ s.qc \in Block /\ s.best \in Block
      /\ s.drafts \subseteq Block /\ s.qcVotes \subseteq Block \X Committee
  BY DEF Node
<1>5. s.tc \subseteq Rounds /\ s.tcVotes \subseteq Rounds \X Committee
  BY <1>2, <1>4
<1>6. Tidy(s) /\ (s.cur \subseteq msgs \/ s.sending)
  BY <1>1, Zenon DEF NodeBacked
<1>7. {s.lastVote, s.qc, s.best} \subseteq Block
  BY <1>4
<1> QED  BY <1>1, <1>3, <1>4, <1>5, <1>6, <1>7, Zenon DEF NodeOK, Tidy, Served

\* The counters and the handled messages at the start.
LEMMA CountedInit == Init => Counted
BY PacemakerBounds DEF Init, Counted

\* A member handles messages that were sent, and no counter passes its bound.
LEMMA CountedNext == Counted /\ [Next]_vars => Counted'
<1> SUFFICES ASSUME Counted, [Next]_vars  PROVE Counted'
  BY Zenon
<1>1. CASE Next
  <2>1. setup' = setup
    BY <1>1 DEF Next
  <2>2. PICK n \in Committee :
          Receive(n) \/ OnBeat(n) \/ OnBroadcastProposal(n) \/ TimerFires(n)
          \/ OnRoundTimeout(n) \/ Restart(n)
    BY <1>1 DEF Next
  <2>3. CASE Receive(n)
    <3>1. PICK m \in msgs :
            ProposalTooEarly(n, m) \/ OnReceiveProposal(n, m) \/ OnReceiveVote(n, m)
            \/ OnReceiveTimeout(n, m) \/ OnReceiveQuery(n, m)
      BY <2>3 DEF Receive
    <3>2. timeouts' = timeouts /\ msgs \subseteq msgs'
      BY <3>1, Zenon DEF ProposalTooEarly, OnReceiveProposal, OnReceiveVote, OnReceiveTimeout,
                  OnReceiveQuery, Broadcast
    <3>3. done' = done \/ done' = [done EXCEPT ![n] = @ \cup {m}]
      BY <3>1, Zenon DEF ProposalTooEarly, OnReceiveProposal, OnReceiveVote, OnReceiveTimeout,
                  OnReceiveQuery, Handled
    <3> QED  BY <2>1, <3>2, <3>3 DEF Counted
  <2>4. CASE OnBeat(n) \/ OnBroadcastProposal(n) \/ OnRoundTimeout(n)
    <3>1. timeouts' = timeouts /\ done' = done /\ msgs \subseteq msgs'
      BY <2>4, Zenon DEF OnBeat, OnBroadcastProposal, OnRoundTimeout, Broadcast
    <3> QED  BY <2>1, <3>1 DEF Counted
  <2>5. CASE TimerFires(n)
    <3>1. timeouts' = timeouts + 1 /\ timeouts < MaxTimeouts /\ done' = done /\ msgs' = msgs
      BY <2>5 DEF TimerFires
    <3> QED  BY <2>1, <3>1, PacemakerBounds DEF Counted
  <2>6. CASE Restart(n)
    <3>1. timeouts' = timeouts /\ done' = [done EXCEPT ![n] = {}] /\ msgs' = msgs
      BY <2>6 DEF Restart
    <3> QED  BY <2>1, <3>1 DEF Counted
  <2> QED  BY <2>2, <2>3, <2>4, <2>5, <2>6
<1>2. CASE UNCHANGED vars
  BY <1>2 DEF vars, Counted
<1> QED  BY <1>1, <1>2

-----------------------------------------------------------------------------
(* Proposing and restarting                                                 *)

\* A step of one member that sends nothing and may change what it proposes.
LEMMA ProposerStepKeeps ==
    ASSUME PInv, NEW n \in Committee, NEW t \in Node,
           node' = [node EXCEPT ![n] = t], msgs' = msgs,
           NodeBacked(msgs, t, n), Stamped(msgs, t, n),
           t.inc = node[n].inc => t.qc = node[n].qc, t.best = node[n].best,
           restarts' \in 0 .. MaxRestarts, restarts' >= restarts, t.inc <= restarts'
    PROVE  PInv' /\ NothingGoesBack
<1>1. node' \in [Committee -> Node] /\ node'[n] = t /\ \A i \in Committee \ {n} : node'[i] = node[i]
  BY DEF PInv
<1>2. \A i \in Committee : NodeBacked(msgs, node'[i], i) /\ Stamped(msgs, node'[i], i)
  BY <1>1, Zenon DEF PInv
<1>3. ASSUME NEW i \in Committee  PROVE node'[i].inc <= restarts'
  <2>1. node[i].inc \in 0 .. MaxRestarts /\ node[i].inc <= restarts /\ restarts \in 0 .. MaxRestarts
    BY DEF PInv, Node
  <2> QED  BY <1>1, <2>1, PacemakerBounds
<1>4. PInv'
  BY <1>1, <1>2, <1>3, Zenon DEF PInv
<1>5. ASSUME NEW i \in Committee
      PROVE  /\ node'[i].inc = node[i].inc => HigherOrSame(node[i].qc, node'[i].qc)
             /\ node[i].best \in Ancestors(node'[i].best)
  <2>1. node[i] \in Node /\ NodeBacked(msgs, node[i], i)
    BY DEF PInv
  <2>2. HigherOrSame(node[i].qc, node[i].qc) /\ node[i].best \in Ancestors(node[i].best)
    BY <2>1, AdvancesFacts DEF Advances
  <2>3. (node'[i].inc = node[i].inc => node'[i].qc = node[i].qc) /\ node'[i].best = node[i].best
    BY <1>1
  <2> QED  BY <2>2, <2>3
<1> QED  BY <1>4, <1>5 DEF NothingGoesBack

\* A beat for a round above those served makes at most one proposal.
LEMMA OnBeatKeeps ==
    ASSUME PInv, NEW n \in Committee, OnBeat(n)
    PROVE  PInv' /\ NothingGoesBack
<1>1. PICK x \in Node : x = node[n]
  BY DEF PInv
<1>2. NodeBacked(msgs, x, n) /\ Stamped(msgs, x, n)
  BY <1>1 DEF PInv
<1>3. PICK s : s = [x EXCEPT !.beat = {}]
  BY Zenon
<1>4. s \in Node
  BY <1>3, Zenon DEF Node
<1>5. SameCore(x, s) /\ s.qc = x.qc /\ s.best = x.best /\ s.beat = {}
  BY <1>3 DEF SameCore, Node, Tidy
<1>6. NodeBacked(msgs, s, n) /\ Stamped(msgs, s, n)
  <2>1. CertifiedIn(msgs, s.qc) /\ CertifiedIn(msgs, s.best) /\ ChildIn(msgs, s.best)
    BY <1>2, <1>5 DEF NodeBacked
  <2>2. NodeBacked(msgs, s, n)
    BY <1>2, <1>5, <2>1, SameCoreBacked DEF BeatBacked
  <2>3. Stamped(msgs, s, n)
    BY <1>2, <1>5, Zenon DEF Stamped, MarkBelow, SameCore
  <2> QED  BY <2>2, <2>3
<1>7. PICK r \in x.beat :
        /\ node' = [node EXCEPT ![n] =
                       IF r <= s.beatRound \/ n # RoundProposer(r) THEN s
                       ELSE IF CanPropose([s EXCEPT !.beatRound = r], r)
                            THEN Propose([s EXCEPT !.beatRound = r], r)
                            ELSE [s EXCEPT !.beatRound = r]]
        /\ msgs' = msgs /\ restarts' = restarts /\ r <= MaxRound
  BY <1>1, <1>3, Zenon DEF OnBeat, Set
<1>8. /\ r \in Nat /\ r \in Served /\ r \in Rounds /\ s.beatRound \in Int
      /\ s.inc \in 0 .. MaxRestarts /\ s.qc \in Block
  BY <1>4, <1>7, PacemakerBounds DEF Node, Rounds, Served
<1>9. /\ restarts' \in 0 .. MaxRestarts /\ restarts' >= restarts /\ s.inc <= restarts'
  BY <1>1, <1>5, <1>7, PacemakerBounds DEF PInv, SameCore
<1>10. PICK t : t = [s EXCEPT !.beatRound = r]
  BY Zenon
<1>11. PICK v : v = Propose(t, r)
  OBVIOUS
<1>12. CASE r <= s.beatRound \/ n # RoundProposer(r)
  <2>1. node' = [node EXCEPT ![n] = s]
    BY <1>7, <1>12, Zenon
  <2> QED  BY <1>1, <1>4, <1>5, <1>6, <1>7, <1>9, <2>1, ProposerStepKeeps, Zenon
<1>13. CASE ~ (r <= s.beatRound) /\ n = RoundProposer(r)
  <2>1. r \in Rounds \cup {-1}
    BY <1>8
  <2>2. t \in Node
    BY <1>4, <1>10, <2>1, Zenon DEF Node
  <2>3. /\ t.beatRound = r /\ t.beat = {} /\ t.inc = s.inc /\ t.qc = s.qc /\ t.best = s.best /\ t.cur = s.cur
        /\ t.tc = s.tc /\ t.lastVote = s.lastVote /\ t.qcVotes = s.qcVotes /\ t.tcVotes = s.tcVotes
        /\ t.sending = s.sending /\ (Tidy(s) => Tidy(t))
    BY <1>4, <1>5, <1>10 DEF Node, Tidy
  <2>4. NodeBacked(msgs, t, n)
    BY <1>6, <2>3, Zenon DEF NodeBacked, BeatBacked
  <2>5. \A k \in Mark : MarkBelow(k, s) => MarkBelow(k, t) /\ ~ (k.round = r /\ k.inc = s.inc)
    BY <1>8, <1>13, <2>3 DEF MarkBelow, Mark
  <2>6. s.cur = x.cur
    BY <1>5 DEF SameCore
  <2>7. \A p \in msgs : p.type = "proposal" /\ RoundProposer(OwnMark(p.block).round) = n =>
           MarkBelow(OwnMark(p.block), t) /\ ~ (OwnMark(p.block).round = r /\ OwnMark(p.block).inc = s.inc)
    BY <1>6, <2>5, MarkTypes DEF Stamped
  <2>8. Stamped(msgs, t, n)
    <3>1. \A p \in t.cur : LET k == OwnMark(p.block)
                           IN  RoundProposer(k.round) = n /\ k.inc = t.inc /\ k.round <= t.beatRound
      <4> SUFFICES ASSUME NEW p \in s.cur
                   PROVE  /\ RoundProposer(OwnMark(p.block).round) = n /\ OwnMark(p.block).inc = s.inc
                          /\ OwnMark(p.block).round <= r
        BY <2>3
      <4>1. OwnMark(p.block) \in Mark
        BY <1>1, <2>6, MarkTypes
      <4>2. OwnMark(p.block).round \in Nat
        BY <4>1 DEF Mark
      <4>3. RoundProposer(OwnMark(p.block).round) = n /\ OwnMark(p.block).inc = s.inc
            /\ OwnMark(p.block).round <= s.beatRound
        BY <1>6 DEF Stamped
      <4> QED  BY <1>8, <1>13, <4>2, <4>3
    <3>2. \A p \in t.cur, q \in msgs \cup t.cur :
             q.type = "proposal" /\ OwnMark(p.block) = OwnMark(q.block) => p = q
      BY <1>6, <2>3, Zenon DEF Stamped
    <3> QED  BY <2>7, <3>1, <3>2, Zenon DEF Stamped
  <2>9. CASE ~ CanPropose(t, r)
    <3>1. node' = [node EXCEPT ![n] = t]
      BY <1>7, <1>10, <1>13, <2>9
    <3> QED  BY <1>1, <1>5, <1>7, <1>9, <2>2, <2>3, <2>4, <2>8, <3>1, ProposerStepKeeps, Zenon
  <2>10. CASE CanPropose(t, r)
    <3>1. PICK k \in Mark : k = [round |-> r, inc |-> t.inc]
      BY <1>8, <2>3, Zenon DEF Mark, Served
    <3>2. PICK b : b = Append(t.qc, k)
      BY Zenon
    <3>3. b \in Block \ {Genesis} /\ Parent(b) = t.qc /\ OwnMark(b) = k
      BY <1>8, <2>3, <3>2, AppendFacts, SMTT(30)
    <3>4. PICK p : p = Proposal(b, t.tc)
      OBVIOUS
    <3>5. p \in ProposalMsg /\ p.type = "proposal" /\ p.block = b /\ p.tc = t.tc
      <4>1. t.tc \in SUBSET Served
        BY <2>2 DEF Node
      <4> QED  BY <3>3, <3>4, <4>1 DEF Proposal, ProposalMsg
    <3>6. PICK h : h = IF t.qcNode THEN t.hollow ELSE t.hollow \cup {b}
      BY Zenon
    <3>7. v = [t EXCEPT !.drafts = @ \cup {b}, !.hollow = h, !.cur = {p}, !.sending = TRUE, !.tc = {}]
      BY <1>11, <3>1, <3>2, <3>4, <3>6 DEF Propose
    <3>8. v \in Node
      <4>1. h \subseteq Block /\ t.drafts \cup {b} \subseteq Block
        BY <2>2, <3>3, <3>6 DEF Node
      <4> QED  BY <2>2, <3>5, <3>7, <4>1, ZenonT(30) DEF Node
    <3>9. /\ v.cur = {p} /\ v.tc = {} /\ v.beat = {} /\ v.inc = t.inc /\ v.beatRound = t.beatRound
          /\ v.qc = t.qc /\ v.best = t.best /\ v.lastVote = t.lastVote
          /\ v.qcVotes = t.qcVotes /\ v.tcVotes = t.tcVotes /\ v.sending = TRUE
          /\ v.drafts = t.drafts \cup {b} /\ v.hollow = h /\ v.final = t.final
      BY <2>2, <2>3, <3>7 DEF Node
    <3>10. ProposalBacked(msgs, p)
      <4>1. CertifiedIn(msgs, Parent(b)) /\ \A c \in p.tc : TimedOutIn(msgs, c)
        BY <2>4, <3>3, <3>5 DEF NodeBacked
      <4>2. Round(b) = r
        BY <3>1, <3>3 DEF Round
      <4>3. RoundBacked(msgs, r, p.tc, Parent(b))
        <5>1. RoundBacked(msgs, r, x.tc, x.qc)
          BY <1>2, Zenon DEF NodeBacked, BeatBacked
        <5>2. x.tc = p.tc /\ x.qc = Parent(b)
          BY <1>5, <2>3, <3>3, <3>5 DEF SameCore
        <5> QED  BY <5>1, <5>2
      <4>4. r # 0 => r > Round(Parent(b))
        BY <2>10, <3>3 DEF CanPropose
      <4> QED  BY <3>5, <4>1, <4>2, <4>3, <4>4 DEF ProposalBacked
    <3>11. NodeBacked(msgs, v, n)
      <4>1. (\A c \in v.cur : ProposalBacked(msgs, c)) /\ (\A c \in v.tc : TimedOutIn(msgs, c))
        BY <3>9, <3>10
      <4>2. Tidy(v)
        BY <2>4, <3>6, <3>9 DEF NodeBacked, Tidy
      <4> QED  BY <2>4, <3>9, <4>1, <4>2, Zenon DEF NodeBacked, BeatBacked
    <3>12. k.round = r /\ k.inc = s.inc
      BY <2>3, <3>1
    <3>13. Stamped(msgs, v, n)
      <4>1. ASSUME NEW q \in msgs, q.type = "proposal", OwnMark(q.block) = OwnMark(p.block)
            PROVE  FALSE
        BY <1>13, <2>7, <3>3, <3>5, <3>12, <4>1, SMTT(30)
      <4>2. \A c \in v.cur : c = p /\ OwnMark(c.block) = k
        BY <3>3, <3>5, <3>9, SMTT(30)
      <4>3. \A c \in v.cur : LET j == OwnMark(c.block)
                             IN  RoundProposer(j.round) = n /\ j.inc = v.inc /\ j.round <= v.beatRound
        BY <1>8, <1>13, <2>3, <3>9, <3>12, <4>2, SMTT(30)
      <4>4. \A c \in v.cur, q \in msgs \cup v.cur :
               q.type = "proposal" /\ OwnMark(c.block) = OwnMark(q.block) => c = q
        BY <3>9, <4>1
      <4>5. \A q \in msgs : q.type = "proposal" /\ RoundProposer(OwnMark(q.block).round) = n =>
               MarkBelow(OwnMark(q.block), v)
        BY <2>7, <3>9, Zenon DEF MarkBelow
      <4> QED  BY <4>3, <4>4, <4>5, Zenon DEF Stamped
    <3>14. node' = [node EXCEPT ![n] = v]
      BY <1>7, <1>10, <1>11, <1>13, <2>10, SMTT(30)
    <3> QED  BY <1>1, <1>5, <1>7, <1>9, <2>3, <3>8, <3>9, <3>11, <3>13, <3>14, ProposerStepKeeps, Zenon
  <2> QED  BY <2>9, <2>10
<1> QED  BY <1>12, <1>13

\* The proposal is sent: its mark is new among the messages, and no other
\* member proposes in its round.
LEMMA OnBroadcastProposalKeeps ==
    ASSUME PInv, NEW n \in Committee, OnBroadcastProposal(n)
    PROVE  PInv' /\ NothingGoesBack
<1>1. PICK s \in Node : s = node[n]
  BY DEF PInv
<1>2. NodeBacked(msgs, s, n) /\ Stamped(msgs, s, n)
  BY <1>1 DEF PInv
<1>3. PICK t : t = [s EXCEPT !.sending = FALSE]
  BY Zenon
<1>4. t \in Node
  BY <1>3, Zenon DEF Node
<1>5. /\ t.qc = s.qc /\ t.best = s.best /\ t.inc = s.inc /\ t.beat = s.beat
      /\ t.beatRound = s.beatRound /\ t.cur = s.cur /\ t.tc = s.tc /\ t.lastVote = s.lastVote
      /\ t.qcVotes = s.qcVotes /\ t.tcVotes = s.tcVotes /\ (Tidy(s) => Tidy(t))
  BY <1>3 DEF Node, Tidy
<1>6. PICK M2 : M2 = msgs \cup s.cur
  BY Zenon
<1>7. node' = [node EXCEPT ![n] = t] /\ msgs' = M2 /\ restarts' = restarts
  BY <1>1, <1>3, <1>6 DEF OnBroadcastProposal, Set, Broadcast
<1>8. /\ node' \in [Committee -> Node] /\ node'[n] = t
      /\ \A i \in Committee \ {n} : node'[i] = node[i]
  BY <1>4, <1>7 DEF PInv
<1>9. \A p \in s.cur : p \in ProposalMsg /\ p.type = "proposal" /\ OwnMark(p.block) \in Mark
  BY <1>1, MarkTypes
<1>10. /\ \A m : MsgBacked(msgs, m) => MsgBacked(M2, m)
       /\ \A x, i : NodeBacked(msgs, x, i) => NodeBacked(M2, x, i)
  <2>1. msgs \subseteq M2
    BY <1>6
  <2> QED  BY <2>1, BackedGrows
<1>11. Backed(M2)
  <2>1. M2 \subseteq Message
    BY <1>6, <1>9 DEF PInv, Backed, Message
  <2>2. \A p \in s.cur : MsgBacked(msgs, p)
    BY <1>2, <1>9 DEF NodeBacked, MsgBacked
  <2> QED  BY <1>6, <1>10, <2>1, <2>2, Zenon DEF PInv, Backed
<1>12. Unique(M2)
  <2>1. \A p \in s.cur, q \in msgs \cup s.cur :
           q.type = "proposal" /\ OwnMark(p.block) = OwnMark(q.block) => p = q
    BY <1>2 DEF Stamped
  <2> SUFFICES ASSUME NEW p \in M2, NEW q \in M2, p.type = "proposal", q.type = "proposal",
                      OwnMark(p.block) = OwnMark(q.block)
               PROVE  p = q
    BY DEF Unique
  <2>2. CASE p \in s.cur
    BY <1>6, <2>1, <2>2
  <2>3. CASE q \in s.cur
    BY <1>6, <2>1, <2>3
  <2>4. CASE p \in msgs /\ q \in msgs
    BY <2>4 DEF PInv, Unique
  <2> QED  BY <1>6, <2>2, <2>3, <2>4
<1>13. NodeBacked(M2, t, n)
  <2>1. NodeBacked(M2, s, n) /\ t.cur \subseteq M2
    BY <1>2, <1>5, <1>6, <1>10
  <2> QED  BY <1>5, <2>1, Zenon DEF NodeBacked, BeatBacked
<1>14. ASSUME NEW i \in Committee
       PROVE  NodeBacked(M2, node'[i], i) /\ Stamped(M2, node'[i], i)
  <2>1. NodeBacked(msgs, node[i], i) /\ Stamped(msgs, node[i], i)
    BY DEF PInv
  <2>2. NodeBacked(M2, node'[i], i)
    BY <1>8, <1>10, <1>13, <2>1
  <2>3. /\ node'[i].inc = node[i].inc /\ node'[i].beatRound = node[i].beatRound
        /\ node'[i].cur = node[i].cur
    BY <1>1, <1>5, <1>8, SMTT(30)
  <2>4. \A p \in s.cur : RoundProposer(OwnMark(p.block).round) = n /\ (i = n => MarkBelow(OwnMark(p.block), node[i]))
    BY <1>1, <1>2, SMTT(30) DEF Stamped, MarkBelow
  <2>5. \A p \in node[i].cur : RoundProposer(OwnMark(p.block).round) = i
    BY <2>1 DEF Stamped
  <2>6. ASSUME NEW p \in M2, p.type = "proposal", RoundProposer(OwnMark(p.block).round) = i
        PROVE  MarkBelow(OwnMark(p.block), node[i])
    <3>1. CASE p \in msgs
      BY <2>1, <2>6, <3>1, SMTT(30) DEF Stamped
    <3>2. CASE p \in s.cur
      BY <2>4, <2>6, <3>2
    <3> QED  BY <1>6, <3>1, <3>2, SMTT(30)
  <2>7. ASSUME NEW p \in node[i].cur, NEW q \in M2 \cup node[i].cur, q.type = "proposal",
               OwnMark(p.block) = OwnMark(q.block)
        PROVE  p = q
    <3>1. CASE q \in msgs \cup node[i].cur
      BY <2>1, <2>7, <3>1, SMTT(30) DEF Stamped
    <3>2. CASE q \in s.cur
      <4>1. i = n
        BY <2>4, <2>5, <2>7, <3>2, SMTT(30)
      <4> QED  BY <1>1, <2>1, <2>7, <3>2, <4>1, SMTT(30) DEF Stamped
    <3> QED  BY <1>6, <3>1, <3>2, SMTT(30)
  <2>8. Stamped(M2, node[i], i)
    BY <2>1, <2>6, <2>7 DEF Stamped
  <2>9. Stamped(M2, node'[i], i)
    BY <2>3, <2>8, Zenon DEF Stamped, MarkBelow
  <2> QED  BY <2>2, <2>9
<1>15. restarts' \in 0 .. MaxRestarts /\ \A i \in Committee : node'[i].inc <= restarts'
  <2>1. \A i \in Committee : node'[i].inc = node[i].inc
    BY <1>1, <1>5, <1>8
  <2> QED  BY <1>7, <2>1, Zenon DEF PInv
<1>16. PInv'
  BY <1>7, <1>8, <1>11, <1>12, <1>14, <1>15, Zenon DEF PInv
<1>17. ASSUME NEW i \in Committee
       PROVE  HigherOrSame(node[i].qc, node'[i].qc) /\ node[i].best \in Ancestors(node'[i].best)
  <2>1. node[i] \in Node /\ NodeBacked(msgs, node[i], i)
    BY DEF PInv
  <2>2. HigherOrSame(node[i].qc, node[i].qc) /\ node[i].best \in Ancestors(node[i].best)
    BY <2>1, AdvancesFacts, SMTT(30) DEF Advances
  <2> QED  BY <1>1, <1>5, <1>8, <2>2
<1> QED  BY <1>16, <1>17 DEF NothingGoesBack

\* At the start nothing was sent, and the genesis is certified.
LEMMA PInvInit == ASSUME Init PROVE PInv
<1>1. ASSUME NEW n \in Committee
      PROVE  /\ node[n] \in Node /\ NodeBacked(msgs, node[n], n) /\ Stamped(msgs, node[n], n)
             /\ node[n].inc <= restarts
  <2>1. PICK x : x = Regulate(Genesis, 0)
    OBVIOUS
  <2>2. Genesis \in Block /\ 0 \in 0 .. MaxRestarts
    BY PacemakerBounds DEF Genesis, Block
  <2>3. /\ x \in Node /\ x.inc = 0 /\ x.qc = Genesis /\ x.best = Genesis /\ x.lastVote = Genesis
        /\ x.cur = {} /\ x.tc = {} /\ x.qcVotes = {} /\ x.tcVotes = {}
        /\ Tidy(x) /\ \A r \in x.beat : r = 0 \/ r = Round(Genesis) + 1
    BY <2>1, <2>2, RegulateFacts
  <2>4. PICK e \in BOOLEAN : e = (n \notin Faulty)
    BY Zenon
  <2>5. node[n] = [x EXCEPT !.up = e] /\ msgs = {}
    BY <2>1, <2>4 DEF Init
  <2>6. node[n] \in Node
    BY <2>3, <2>5, ZenonT(30) DEF Node
  <2>7. /\ node[n].qc = Genesis /\ node[n].best = Genesis /\ node[n].lastVote = Genesis
        /\ node[n].cur = {} /\ node[n].tc = {} /\ node[n].qcVotes = {} /\ node[n].tcVotes = {}
        /\ node[n].beat = x.beat /\ node[n].inc = 0 /\ Tidy(node[n])
    BY <2>3, <2>5 DEF Node, Tidy
  <2>8. NodeBacked(msgs, node[n], n)
    <3>1. BeatBacked(msgs, node[n])
      <4>1. CertifiedIn(msgs, Genesis) /\ HigherOrSame(Genesis, Genesis)
        BY <2>2, HigherFacts DEF CertifiedIn
      <4> QED  BY <2>2, <2>3, <2>7, <4>1, Zenon DEF BeatBacked, RoundBacked
    <3> QED  BY <2>7, <3>1, Zenon DEF NodeBacked, CertifiedIn, ChildIn
  <2>9. Stamped(msgs, node[n], n)
    BY <2>5, <2>7 DEF Stamped
  <2>10. node[n].inc <= restarts
    BY <2>7 DEF Init
  <2> QED  BY <2>6, <2>8, <2>9, <2>10
<1>2. node \in [Committee -> Node]
  BY <1>1 DEF Init
<1>3. Backed(msgs) /\ Unique(msgs) /\ restarts \in 0 .. MaxRestarts
  BY PacemakerBounds DEF Init, Backed, Unique
<1> QED  BY <1>1, <1>2, <1>3 DEF PInv

\* The chain is what a restart keeps, and its last block is certified.
LEMMA RestartKeeps ==
    ASSUME PInv, NEW n \in Committee, Restart(n)
    PROVE  PInv' /\ NothingGoesBack
<1>1. PICK s \in Node : s = node[n]
  BY DEF PInv
<1>2. /\ s.best \in Block /\ s.inc \in Nat /\ s.inc + 1 \in 0 .. MaxRestarts
      /\ restarts' = restarts + 1 /\ restarts' \in 0 .. MaxRestarts /\ s.inc + 1 <= restarts'
  <2>1. s.best \in Block /\ s.inc \in 0 .. MaxRestarts
    BY <1>1 DEF Node
  <2>2. restarts' = restarts + 1 /\ restarts < MaxRestarts
    BY Zenon DEF Restart
  <2>3. restarts \in 0 .. MaxRestarts /\ s.inc <= restarts
    BY <1>1, Zenon DEF PInv
  <2> QED  BY <2>1, <2>2, <2>3, PacemakerBounds
<1>3. PICK t : t = Regulate(s.best, s.inc + 1)
  BY Zenon
<1>4. /\ t \in Node /\ t.inc = s.inc + 1 /\ t.qc = s.best /\ t.best = s.best /\ t.lastVote = Genesis
      /\ t.cur = {} /\ t.tc = {} /\ t.qcVotes = {} /\ t.tcVotes = {}
      /\ Tidy(t) /\ \A r \in t.beat : r = 0 \/ r = Round(s.best) + 1
  BY <1>2, <1>3, RegulateFacts, SMTT(30)
<1>5. NodeBacked(msgs, s, n) /\ Stamped(msgs, s, n)
  BY <1>1 DEF PInv
<1>6. NodeBacked(msgs, t, n)
  <2>1. BeatBacked(msgs, t)
    <3>1. CertifiedIn(msgs, s.best) /\ HigherOrSame(s.best, s.best)
      BY <1>2, <1>5, HigherFacts, Zenon DEF NodeBacked
    <3> QED  BY <1>2, <1>4, <3>1, Zenon DEF BeatBacked, RoundBacked
  <2> QED  BY <1>4, <1>5, <2>1, ZenonT(30) DEF NodeBacked
<1>7. Stamped(msgs, t, n)
  <2>1. ASSUME NEW p \in msgs, p.type = "proposal", RoundProposer(OwnMark(p.block).round) = n
        PROVE  MarkBelow(OwnMark(p.block), t)
    <3>1. MarkBelow(OwnMark(p.block), s) /\ OwnMark(p.block).inc \in Nat
      BY <1>5, <2>1, MarkTypes DEF Stamped, Mark
    <3> QED  BY <1>2, <1>4, <3>1, SMTT(30) DEF MarkBelow
  <2> QED  BY <1>4, <2>1 DEF Stamped
<1>8. node' = [node EXCEPT ![n] = t] /\ msgs' = msgs
  BY <1>1, <1>3 DEF Restart, Set
<1>9. t.inc # node[n].inc /\ t.best = node[n].best /\ restarts' >= restarts /\ t.inc <= restarts'
  BY <1>1, <1>2, <1>4, PacemakerBounds DEF PInv
<1> QED  BY <1>2, <1>4, <1>6, <1>7, <1>8, <1>9, ProposerStepKeeps, Zenon
=============================================================================
