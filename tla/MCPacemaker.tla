---------------------------- MODULE MCPacemaker -----------------------------
(* Small instances of Pacemaker for TLC.                                    *)
EXTENDS Pacemaker

\* The examples in the comment of MajorityTwoThird: committee size -> votes.
ASSUME MajorityExamples ==
    [size \in 1 .. 6 |-> TwoThirds(size)] = <<1, 2, 2, 3, 4, 4>>

AllUp == {[kGenesis |-> FALSE, faulty |-> {}]}

\* One member is down, whichever it is.
OneDown == {[kGenesis |-> FALSE, faulty |-> {n}] : n \in Committee}

\* Every kind of genesis, and at most one member down.
AnySetup == {[kGenesis |-> k, faulty |-> f] : k \in BOOLEAN, f \in {{}} \cup {{n} : n \in Committee}}
=============================================================================
