----------------------------- MODULE EpochState -----------------------------
(***************************************************************************)
(* The committee of one epoch, as the consensus code uses it: its size,    *)
(* the two-thirds rule that decides when votes become a certificate, the   *)
(* proposer of a round, and the vote book both vote managers keep.         *)
(*                                                                         *)
(* A committee member is its index in the validator set.  The epoch never  *)
(* changes after the genesis (calcNewValidatorSet always answers nil), so  *)
(* one committee is all a run of the program sees.  Signatures are         *)
(* abstracted: a vote is the pair <<key, signer>>, and only the signer can *)
(* have produced it.                                                       *)
(***************************************************************************)
EXTENDS Integers, FiniteSets

CONSTANT N  \* committeeSize

ASSUME CommitteeNotEmpty == N \in Nat \ {0}

Committee == 0 .. N - 1

\* Mutant: half of the committee is enough.
Half(size) == (size + 1) \div 2

\* The least number of votes that is a majority: ceil(2 * size / 3).
TwoThirds(size) == (2 * size + 2) \div 3

\* Mutant: one vote less is enough.
MajorityOneLess(voterNum, size) ==
    /\ size >= 1
    /\ voterNum + 1 >= TwoThirds(size)

MajorityTwoThird(voterNum, size) ==
    /\ size >= 1
    /\ voterNum >= TwoThirds(size)

\* The proposer of a round, by round robin over the committee.
RoundProposer(round) == round % N

-----------------------------------------------------------------------------
(* A vote book is a set of pairs <<key, signer>>: the map of maps "votes"   *)
(* of QCVoteManager (key: round and block id) and TCVoteManager (key: epoch *)
(* and round).                                                              *)

Voters(book, key) == {i \in Committee : <<key, i>> \in book}

\* A key is sealed from the vote that completes its certificate on.
Sealed(book, key) == MajorityTwoThird(Cardinality(Voters(book, key)), N)

\* AddVote: a vote for a sealed key is ignored, any other is recorded.
AddVote(book, key, signer) ==
    IF Sealed(book, key) THEN book ELSE book \cup {<<key, signer>>}

\* Mutant: the vote that arrives is counted twice.
CertifiesEarly(book, key, signer) ==
    /\ ~ Sealed(book, key)
    /\ MajorityTwoThird(Cardinality(Voters(AddVote(book, key, signer), key)) + 1, N)

\* AddVote answers a certificate: this vote is the one that seals the key.
Certifies(book, key, signer) ==
    ~ Sealed(book, key) /\ Sealed(AddVote(book, key, signer), key)
=============================================================================
