-------------------------- MODULE MCPacemakerFork ---------------------------
(***************************************************************************)
(* A schedule of a committee of three in which every member follows the    *)
(* code and no process stops: messages are only delayed and round timers   *)
(* run out.  Full exploration of three members with that many timers is    *)
(* out of TLC's reach, so the next-state relation keeps from Next only the *)
(* timers and deliveries of that schedule (in any order it allows).  Every *)
(* behaviour of ForkSpec is a behaviour of Spec.                           *)
(***************************************************************************)
EXTENDS Pacemaker

AllUp == {[kGenesis |-> FALSE, faulty |-> {}]}

Chain(rounds) == [k \in DOMAIN rounds |-> [round |-> rounds[k], inc |-> 0]]

\* Two branches from the genesis.
b1 == Chain(<<1>>)
b2 == Chain(<<1, 2>>)
c1 == Chain(<<3>>)
c2 == Chain(<<3, 4>>)
c3 == Chain(<<3, 4, 5>>)

Proposed(b) == \E m \in Proposals : m.block = b
Voted(n, b) == Vote(n, b) \in msgs

\* The steps of Next that deliver no message, with only the timers
\* <<member, round>> in timers running out.
Local(timers) ==
    \E n \in Committee :
        \/ OnBeat(n)
        \/ OnBroadcastProposal(n)
        \/ OnRoundTimeout(n)
        \/ TimerFires(n) /\ \A r \in node[n].timer : <<n, r>> \in timers

Deliver(n, m) ==
    OnReceiveProposal(n, m) \/ OnReceiveVote(n, m) \/ OnReceiveTimeout(n, m)

-----------------------------------------------------------------------------
(* Both branches get two blocks with a certificate                          *)

ForkDelivered(n, m) ==
    \/ /\ m.type = "proposal"
       /\ \/ m.block = b1 /\ n \in {1, 2}
          \/ m.block = b2 /\ n \in {1, 2} /\ (n = 1 => Proposed(c2))
          \/ m.block = c1 /\ (n = 2 => Voted(2, b2))
          \/ m.block = c2 /\ n \in {0, 2} /\ node[1].best = b1
          \/ m.block = c3 /\ n = 0
    \/ m.type = "vote" /\ m.block \in {b1, c1, c2}
    \/ m.type = "timeout" /\ m.round = 3 /\ m.from \in {0, 1}
    \/ m.type = "timeout" /\ m.round = 4 /\ m.from \in {1, 2} /\ m.lastVote = b2

ForkTimers == {<<0, 1>>, <<0, 2>>, <<0, 3>>, <<1, 2>>, <<1, 3>>, <<1, 4>>, <<2, 3>>, <<2, 4>>}

ForkNext ==
    /\ \/ Local(ForkTimers)
       \/ \E n \in Committee : \E m \in msgs : ForkDelivered(n, m) /\ Deliver(n, m)
    /\ UNCHANGED setup

ForkSpec == Init /\ [][ForkNext]_vars
=============================================================================
