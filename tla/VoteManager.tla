---------------------------- MODULE VoteManager -----------------------------
(***************************************************************************)
(* QCVoteManager and TCVoteManager: the collection of votes into quorum    *)
(* certificates and timeout certificates by one node.  Both keep, for each *)
(* key, the votes received so far by signer, and a mark once the key is    *)
(* sealed; they differ in the key only, so one specification is both.      *)
(*                                                                         *)
(*   votes   the map of maps of the manager (an absent entry is empty)     *)
(*   sealed  the keys of the map "sealed"                                  *)
(*   cast    the signatures the committee has produced (AddQCVote and      *)
(*           AddTCVote drop a vote whose signature does not verify)        *)
(*   certs   history: the certificates AddVote has answered                *)
(*   era     how often NewEpochState has replaced the manager by an empty  *)
(*           one (each call of Regulate does, without a change of epoch)   *)
(*                                                                         *)
(* A vote may reach AddVote any number of times: by a vote message and in  *)
(* every later timeout message of its signer.  CleanUpTo has no caller and *)
(* is left out.                                                            *)
(***************************************************************************)
EXTENDS EpochState

CONSTANTS Keys,    \* what is voted on
          MaxEra   \* bound: number of times the manager is replaced

ASSUME MaxEraNat == MaxEra \in Nat

VARIABLES votes, sealed, cast, certs, era

vars == <<votes, sealed, cast, certs, era>>

Certificate == [key : Keys, signers : SUBSET Committee, era : 0 .. MaxEra]

TypeOK ==
    /\ votes \in [Keys -> SUBSET Committee]
    /\ sealed \in SUBSET Keys
    /\ cast \in SUBSET (Keys \X Committee)
    /\ certs \in SUBSET Certificate
    /\ era \in 0 .. MaxEra

Init ==
    /\ votes = [k \in Keys |-> {}]
    /\ sealed = {}
    /\ cast = {}
    /\ certs = {}
    /\ era = 0

\* Committee member i signs a vote for key k.
Cast(k, i) ==
    /\ cast' = cast \cup {<<k, i>>}
    /\ UNCHANGED <<votes, sealed, certs, era>>

-----------------------------------------------------------------------------
(* The manager                                                              *)

\* Aggregate: the certificate carries every vote recorded for the key.
Aggregate(k, signers) == [key |-> k, signers |-> signers, era |-> era]

\* Mutant: the early return for a sealed key is missing.
CollectVoteUnsealed(k, i) ==
    /\ <<k, i>> \in cast
    /\ votes' = [votes EXCEPT ![k] = @ \cup {i}]
    /\ IF MajorityTwoThird(Cardinality(votes[k] \cup {i}), N)
       THEN /\ sealed' = sealed \cup {k}
            /\ certs' = certs \cup {Aggregate(k, votes[k] \cup {i})}
       ELSE UNCHANGED <<sealed, certs>>
    /\ UNCHANGED <<cast, era>>

\* Mutant: the signature is not verified.
CollectVoteUnverified(k, i) ==
    /\ k \notin sealed
    /\ votes' = [votes EXCEPT ![k] = @ \cup {i}]
    /\ IF MajorityTwoThird(Cardinality(votes[k] \cup {i}), N)
       THEN /\ sealed' = sealed \cup {k}
            /\ certs' = certs \cup {Aggregate(k, votes[k] \cup {i})}
       ELSE UNCHANGED <<sealed, certs>>
    /\ UNCHANGED <<cast, era>>

\* AddQCVote / AddTCVote and the AddVote they call.
CollectVote(k, i) ==
    /\ <<k, i>> \in cast
    /\ k \notin sealed
    /\ votes' = [votes EXCEPT ![k] = @ \cup {i}]
    /\ IF MajorityTwoThird(Cardinality(votes[k] \cup {i}), N)
       THEN /\ sealed' = sealed \cup {k}
            /\ certs' = certs \cup {Aggregate(k, votes[k] \cup {i})}
       ELSE UNCHANGED <<sealed, certs>>
    /\ UNCHANGED <<cast, era>>

\* Mutant: the votes are cleared and the seals are kept.
NewManagersKeepSeals ==
    /\ era < MaxEra
    /\ era' = era + 1
    /\ votes' = [k \in Keys |-> {}]
    /\ UNCHANGED <<sealed, cast, certs>>

\* NewEpochState makes new, empty managers.
NewManagers ==
    /\ era < MaxEra
    /\ era' = era + 1
    /\ votes' = [k \in Keys |-> {}]
    /\ sealed' = {}
    /\ UNCHANGED <<cast, certs>>

Next ==
    \/ \E k \in Keys, i \in Committee : Cast(k, i) \/ CollectVote(k, i)
    \/ NewManagers

Spec == Init /\ [][Next]_vars

-----------------------------------------------------------------------------
(* Properties                                                               *)

\* A certificate carries at least two thirds of the committee, and each of
\* its signers did sign that vote (AddQCVote and AddTCVote verify the
\* signature, AddVote counts a signer once).
CertBacked ==
    \A c \in certs :
        /\ MajorityTwoThird(Cardinality(c.signers), N)
        /\ \A i \in c.signers : <<c.key, i>> \in cast

\* Between two replacements of the manager a key gives at most one
\* certificate, however many votes arrive late: the caller of AddVote starts
\* a new proposal for every certificate it is given.
OneCertPerKey ==
    \A c, d \in certs : c.key = d.key /\ c.era = d.era => c = d

\* The seal of a key and the votes recorded for it never disagree: a key is
\* sealed exactly when its votes are a majority, and the last certificate of
\* the key in this era has these very signers.
SealMatchesVotes ==
    \A k \in Keys :
        /\ k \in sealed <=> MajorityTwoThird(Cardinality(votes[k]), N)
        /\ k \in sealed =>
              [key |-> k, signers |-> votes[k], era |-> era] \in certs

\* Any two certificates, on whatever keys and whenever formed, have at least
\* a third of the committee in common: the reason why two thirds are asked.
CertsIntersect ==
    \A c, d \in certs : 3 * Cardinality(c.signers \cap d.signers) >= N

\* The strengthening that makes the properties above inductive: a recorded
\* vote was cast, and a certificate of the present manager has its key sealed.
RecordMatchesHistory ==
    /\ \A k \in Keys : \A i \in votes[k] : <<k, i>> \in cast
    /\ \A c \in certs : c.era = era => c.key \in sealed
    /\ \A c \in certs : c.era <= era

IInv == TypeOK /\ CertBacked /\ OneCertPerKey /\ SealMatchesVotes /\ RecordMatchesHistory
=============================================================================
