------------------------- MODULE VoteManagerProofs --------------------------
(***************************************************************************)
(* Proofs about VoteManager, for every committee size, every set of keys   *)
(* and every bound on the number of managers.                              *)
(***************************************************************************)
EXTENDS VoteManager, TLAPS, FiniteSetTheorems

-----------------------------------------------------------------------------
(* The two-thirds rule                                                      *)

\* MajorityTwoThird asks for ceil(2 * size / 3) votes: at least one, and at
\* least two thirds of the committee.
LEMMA TwoThirdsBounds ==
    /\ TwoThirds(N) \in Nat
    /\ TwoThirds(N) >= 1
    /\ 3 * TwoThirds(N) >= 2 * N
BY CommitteeNotEmpty, SMT DEF TwoThirds

\* The committee is finite and has N members.
LEMMA CommitteeFinite == IsFiniteSet(Committee) /\ Cardinality(Committee) = N
<1>1. 0 \in Int /\ N - 1 \in Int /\ ~ (0 > N - 1)
  BY CommitteeNotEmpty
<1> QED
  BY <1>1, FS_Interval, CommitteeNotEmpty DEF Committee

\* A set of signers is finite.
LEMMA SignersFinite ==
    ASSUME NEW S \in SUBSET Committee
    PROVE  IsFiniteSet(S) /\ Cardinality(S) \in Nat
BY CommitteeFinite, FS_Subset, FS_CardinalityType

\* Two majorities of the committee have a third of it in common.
LEMMA MajoritiesIntersect ==
    ASSUME NEW S \in SUBSET Committee, NEW T \in SUBSET Committee,
           MajorityTwoThird(Cardinality(S), N), MajorityTwoThird(Cardinality(T), N)
    PROVE  3 * Cardinality(S \cap T) >= N
<1>1. /\ IsFiniteSet(S) /\ Cardinality(S) \in Nat
      /\ IsFiniteSet(T) /\ Cardinality(T) \in Nat
      /\ Cardinality(S \cap T) \in Nat
  <2>1. S \cap T \in SUBSET Committee
    OBVIOUS
  <2> QED
    BY <2>1, SignersFinite
<1>2. Cardinality(S \cup T) = Cardinality(S) + Cardinality(T) - Cardinality(S \cap T)
  BY <1>1, FS_Union
<1>3. Cardinality(S \cup T) <= N
  <2>1. S \cup T \subseteq Committee
    OBVIOUS
  <2> QED
    BY <2>1, CommitteeFinite, FS_Subset
<1>4. Cardinality(S) >= TwoThirds(N) /\ Cardinality(T) >= TwoThirds(N)
  BY DEF MajorityTwoThird
<1> QED
  BY <1>1, <1>2, <1>3, <1>4, TwoThirdsBounds, CommitteeNotEmpty

\* No votes are no majority.
LEMMA EmptyIsNoMajority == ~ MajorityTwoThird(Cardinality({}), N)
BY FS_EmptySet, TwoThirdsBounds DEF MajorityTwoThird

-----------------------------------------------------------------------------
(* The inductive invariant                                                  *)

\* The managers of a new epoch state satisfy the invariant.
LEMMA InitIInv == Init => IInv
<1> SUFFICES ASSUME Init PROVE IInv
  OBVIOUS
<1>1. TypeOK
  BY MaxEraNat DEF Init, TypeOK
<1>2. SealMatchesVotes
  BY EmptyIsNoMajority DEF Init, SealMatchesVotes
<1>3. CertBacked /\ OneCertPerKey /\ RecordMatchesHistory
  BY DEF Init, CertBacked, OneCertPerKey, RecordMatchesHistory
<1> QED
  BY <1>1, <1>2, <1>3 DEF IInv

\* Signing a vote disturbs nothing: it only adds to what was cast.
LEMMA CastIInv ==
    ASSUME IInv, NEW k \in Keys, NEW i \in Committee, Cast(k, i)
    PROVE  IInv'
<1>1. TypeOK'
  BY DEF IInv, TypeOK, Cast
<1>2. CertBacked' /\ OneCertPerKey' /\ SealMatchesVotes' /\ RecordMatchesHistory'
  BY DEF IInv, CertBacked, OneCertPerKey, SealMatchesVotes, RecordMatchesHistory, Cast
<1> QED
  BY <1>1, <1>2 DEF IInv

\* AddVote: the vote that completes a majority seals its key and gives the
\* only certificate of that key from this manager.
LEMMA CollectVoteIInv ==
    ASSUME IInv, NEW k \in Keys, NEW i \in Committee, CollectVote(k, i)
    PROVE  IInv'
<1> DEFINE S == votes[k] \cup {i}
           c == Aggregate(k, S)
           Complete == MajorityTwoThird(Cardinality(S), N)
<1>1. /\ <<k, i>> \in cast
      /\ k \notin sealed
      /\ votes' = [votes EXCEPT ![k] = S]
      /\ cast' = cast /\ era' = era
      /\ Complete => sealed' = sealed \cup {k} /\ certs' = certs \cup {c}
      /\ ~ Complete => sealed' = sealed /\ certs' = certs
  BY DEF CollectVote
<1>2. /\ S \in SUBSET Committee
      /\ votes'[k] = S
      /\ \A j \in Keys : j # k => votes'[j] = votes[j]
  BY <1>1 DEF IInv, TypeOK
<1>3. c \in Certificate /\ c.key = k /\ c.signers = S /\ c.era = era
  BY <1>2 DEF IInv, TypeOK, Certificate, Aggregate
<1> HIDE DEF S, c, Complete
<1>4. TypeOK'
  BY <1>1, <1>2, <1>3 DEF IInv, TypeOK
<1>5. \A j \in S : <<k, j>> \in cast
  BY <1>1 DEF S, IInv, RecordMatchesHistory
<1>6. CertBacked'
  BY <1>1, <1>3, <1>5 DEF IInv, CertBacked, Complete
<1>7. OneCertPerKey'
  <2>1. \A d \in certs : d.era = era => d.key # k
    BY <1>1 DEF IInv, RecordMatchesHistory
  <2> QED
    BY <1>1, <1>3, <2>1 DEF IInv, OneCertPerKey
<1>8. SealMatchesVotes'
  <2> SUFFICES ASSUME NEW j \in Keys
               PROVE  /\ j \in sealed' <=> MajorityTwoThird(Cardinality(votes'[j]), N)
                      /\ j \in sealed' =>
                            [key |-> j, signers |-> votes'[j], era |-> era'] \in certs'
    BY DEF SealMatchesVotes
  <2>1. CASE j = k
    <3>1. c = [key |-> k, signers |-> S, era |-> era]
      BY DEF c, Aggregate
    <3> QED
      BY <2>1, <3>1, <1>1, <1>2 DEF Complete
  <2>2. CASE j # k
    BY <2>2, <1>1, <1>2 DEF IInv, SealMatchesVotes
  <2> QED
    BY <2>1, <2>2
<1>9. RecordMatchesHistory'
  <2>1. \A j \in Keys : \A x \in votes'[j] : <<j, x>> \in cast'
    BY <1>1, <1>2, <1>5 DEF IInv, RecordMatchesHistory
  <2>2. \A d \in certs' : (d.era = era' => d.key \in sealed') /\ d.era <= era'
    BY <1>1, <1>3, MaxEraNat DEF IInv, RecordMatchesHistory, TypeOK
  <2> QED
    BY <2>1, <2>2 DEF RecordMatchesHistory
<1> QED
  BY <1>4, <1>6, <1>7, <1>8, <1>9 DEF IInv

\* Replacing the managers starts a new era, of which there is no certificate.
LEMMA NewManagersIInv ==
    ASSUME IInv, NewManagers
    PROVE  IInv'
<1>1. TypeOK'
  BY MaxEraNat DEF IInv, TypeOK, NewManagers
<1>2. SealMatchesVotes'
  BY EmptyIsNoMajority DEF NewManagers, SealMatchesVotes
<1>3. CertBacked' /\ OneCertPerKey'
  BY DEF IInv, CertBacked, OneCertPerKey, NewManagers
<1>4. RecordMatchesHistory'
  <2>1. \A c \in certs : c.era \in Int /\ c.era <= era /\ era \in Int
    BY MaxEraNat DEF IInv, TypeOK, Certificate, RecordMatchesHistory
  <2> QED
    BY <2>1 DEF NewManagers, RecordMatchesHistory
<1> QED
  BY <1>1, <1>2, <1>3, <1>4 DEF IInv

\* Every step of Next preserves the invariant.
LEMMA NextIInv == IInv /\ [Next]_vars => IInv'
<1> SUFFICES ASSUME IInv, [Next]_vars PROVE IInv'
  OBVIOUS
<1>1. ASSUME NEW k \in Keys, NEW i \in Committee, Cast(k, i) PROVE IInv'
  BY <1>1, CastIInv
<1>2. ASSUME NEW k \in Keys, NEW i \in Committee, CollectVote(k, i) PROVE IInv'
  BY <1>2, CollectVoteIInv
<1>3. CASE NewManagers
  BY <1>3, NewManagersIInv
<1>4. CASE UNCHANGED vars
  BY <1>4 DEF vars, IInv, TypeOK, CertBacked, OneCertPerKey, SealMatchesVotes,
              RecordMatchesHistory
<1> QED
  BY <1>1, <1>2, <1>3, <1>4 DEF Next

-----------------------------------------------------------------------------
(* Theorems                                                                 *)

\* The invariant holds in every reachable state.
THEOREM Invariance == Spec => []IInv
BY InitIInv, NextIInv, PTL DEF Spec

\* The managers' state is well-typed.
THEOREM TypeCorrect == Spec => []TypeOK
<1>1. IInv => TypeOK
  BY DEF IInv
<1> QED
  BY Invariance, <1>1, PTL

\* AddQCVote and AddTCVote only answer certificates that two thirds of the
\* committee have signed.
THEOREM CertificatesAreBacked == Spec => []CertBacked
<1>1. IInv => CertBacked
  BY DEF IInv
<1> QED
  BY Invariance, <1>1, PTL

\* A manager answers at most one certificate per key.
THEOREM CertificatesAreUnique == Spec => []OneCertPerKey
<1>1. IInv => OneCertPerKey
  BY DEF IInv
<1> QED
  BY Invariance, <1>1, PTL

\* The seals agree with the recorded votes.
THEOREM SealsAreExact == Spec => []SealMatchesVotes
<1>1. IInv => SealMatchesVotes
  BY DEF IInv
<1> QED
  BY Invariance, <1>1, PTL

\* Any two certificates share a third of the committee.
THEOREM CertificatesIntersect == Spec => []CertsIntersect
<1>1. IInv => CertsIntersect
  <2> SUFFICES ASSUME IInv, NEW c \in certs, NEW d \in certs
               PROVE  3 * Cardinality(c.signers \cap d.signers) >= N
    BY DEF CertsIntersect
  <2>1. c.signers \in SUBSET Committee /\ d.signers \in SUBSET Committee
    BY DEF IInv, TypeOK, Certificate
  <2>2. /\ MajorityTwoThird(Cardinality(c.signers), N)
        /\ MajorityTwoThird(Cardinality(d.signers), N)
    BY DEF IInv, CertBacked
  <2> QED
    BY <2>1, <2>2, MajoritiesIntersect
<1> QED
  BY Invariance, <1>1, PTL
=============================================================================
