------------------------------ MODULE Pacemaker ------------------------------
(***************************************************************************)
(* The pacemaker: the chained, round-based consensus protocol every        *)
(* committee member runs.  Each member handles one event of its main loop  *)
(* at a time; members interleave freely and messages are delivered in any  *)
(* order, at most once (the message cache of the incoming queue), late or  *)
(* never.  All members follow the code.                                    *)
(*                                                                         *)
(* Blocks.  A block is the sequence of its ancestors' marks and its own,   *)
(* genesis excluded: the empty sequence is the genesis, a block's height   *)
(* is its length and a proper prefix is an ancestor.  A mark is the round  *)
(* of the proposal and the incarnation of its proposer, which tells apart  *)
(* the two blocks one proposer makes in one round when it restarts between *)
(* them (their timestamps differ).  A hash is thus injective, transactions *)
(* are left out, and a quorum certificate is named by the block it is for: *)
(* its number and round are the block's.                                   *)
(*                                                                         *)
(* A node is a record with a field per field of Pacemaker that the main    *)
(* loop uses, its draft map and its durable chain:                         *)
(*   up        the process runs (FALSE after a nil dereference)            *)
(*   inc       incarnation of the process                                  *)
(*   round     currentRound                                                *)
(*   timer     the round of the running roundTimer, as a set               *)
(*   expired   roundTimeoutCh: rounds whose timer has fired                *)
(*   beat      beatCh: the scheduled OnBeat, as a set                      *)
(*   beatRound lastOnBeatRound                                             *)
(*   height    lastVotingHeight                                            *)
(*   lastVote  lastVoteMsg: the block voted for (Genesis: none)            *)
(*   qc        QCHigh.QC                                                   *)
(*   qcNode    QCHigh.QCNode is not nil                                    *)
(*   tc        TCHigh: the round of the certificate, as a set              *)
(*   cur       curProposal: its message, as a set                          *)
(*   sending   a broadcast of curProposal is scheduled                     *)
(*   drafts    the blocks in the draft map                                 *)
(*   final     drafts marked Committed                                     *)
(*   hollow    drafts whose Justify.QCNode is nil                          *)
(*   best      lastCommitted, the best block of the chain store: the       *)
(*             chain is its prefixes, and survives a restart               *)
(*   qcVotes, tcVotes   the vote books of the epoch state                  *)
(***************************************************************************)
EXTENDS EpochState, Sequences

CONSTANTS
    Setups,       \* the systems considered: what the genesis is, and who is down
    MaxRound,     \* bound: the last round in which a block is proposed
    MaxTimeouts,  \* bound: round timers that fire, over all nodes
    MaxRestarts   \* bound: restarts of a process, over all nodes

ASSUME PacemakerBounds ==
    /\ Setups \subseteq [kGenesis : BOOLEAN, faulty : SUBSET Committee]
    /\ MaxRound \in Nat /\ MaxTimeouts \in Nat /\ MaxRestarts \in Nat

VARIABLES
    setup,     \* the system: a member of Setups
    node,      \* the state of every committee member
    msgs,      \* every message broadcast so far
    done,      \* the messages each member has handled
    timeouts,  \* how many round timers have fired
    restarts   \* how many restarts there were

vars == <<setup, node, msgs, done, timeouts, restarts>>

GenesisIsKBlock == setup.kGenesis  \* it changes the validator set: rounds start at 0
Faulty == setup.faulty             \* the members whose process does not run

-----------------------------------------------------------------------------
(* Blocks and messages                                                      *)

Genesis == << >>
Height(b) == Len(b)
OwnMark(b) == b[Len(b)]
Round(b) == IF b = Genesis THEN 0 ELSE OwnMark(b).round
Ancestors(b) == {SubSeq(b, 1, k) : k \in 0 .. Len(b)}  \* and b itself
Parent(b) == IF b = Genesis THEN Genesis ELSE SubSeq(b, 1, Len(b) - 1)
IsKBlock(b) == GenesisIsKBlock /\ b = Genesis

Proposal(b, tc) == [type |-> "proposal", block |-> b, tc |-> tc]
Vote(i, b) == [type |-> "vote", from |-> i, block |-> b]
Timeout(i, r, qc, lastVote) ==
    [type |-> "timeout", from |-> i, round |-> r, qc |-> qc, lastVote |-> lastVote]
Query(i, b) == [type |-> "query", from |-> i, block |-> b]

-----------------------------------------------------------------------------
(* The draft map (chain/proposal_map.go): a lookup falls back to the chain  *)

Stored(s, b) == b \in Ancestors(s.best)
Known(s, b) == b \in s.drafts \/ Stored(s, b)

\* Round of the draft GetDraft answers; rebuilt from the chain it is one more
\* than the round of the block's certificate for its parent.
DraftRound(s, b) == IF b \in s.drafts THEN Round(b) ELSE Round(Parent(b)) + 1

\* PruneUpTo: forget everything at or below b's height but b itself, which is
\* marked committed.
PruneUpTo(s, b) ==
    LET kept == {d \in s.drafts : Height(d) > Height(b) \/ d = b}
    IN  [s EXCEPT !.drafts = kept,
                  !.final = (@ \cup {b}) \cap kept,
                  !.hollow = @ \cap kept]

\* GetProposalsUpTo: from the block of QCHigh downwards, at most four drafts,
\* ending above the first committed one and above the block asked for.
DraftsUpTo(s, committed) ==
    {d \in Ancestors(s.qc) :
        /\ Known(s, committed) /\ Known(s, s.qc)
        /\ Height(s.qc) - Height(d) < 4
        /\ \A e \in Ancestors(s.qc) :
              Height(e) >= Height(d) =>
                  e # committed /\ e \notin s.final /\ ~ Stored(s, e)}

-----------------------------------------------------------------------------
(* Rounds                                                                   *)

enterRound(s, r) ==
    IF r > 0 /\ r < s.round THEN s
    ELSE [s EXCEPT !.round = r, !.timer = {r}]

scheduleOnBeat(s, r) == [s EXCEPT !.beat = {r}]

\* Regulate, on the start of a process whose chain ends in best: the
\* certificate of best is the highest known, everything else is reset.
Regulate(best, inc) ==
    LET start == IF IsKBlock(best) THEN 0 ELSE Round(best) + 1
    IN  [up |-> TRUE, inc |-> inc,
         round |-> start, timer |-> {start}, expired |-> << >>,
         beat |-> {start}, beatRound |-> start - 1,
         height |-> 0, lastVote |-> Genesis,
         qc |-> best, qcNode |-> TRUE, tc |-> {},
         cur |-> {}, sending |-> FALSE,
         drafts |-> {best}, final |-> {best}, hollow |-> {},
         best |-> best, qcVotes |-> {}, tcVotes |-> {}]

-----------------------------------------------------------------------------
(* UpdateQCHigh, Update, OnCommit                                           *)

Panic(s) == [s EXCEPT !.up = FALSE]

\* Mutant: the certificate is not compared with the one held.
UpdateQCHighAlways(s, qc, known) ==
    IF known THEN [s EXCEPT !.qc = qc, !.qcNode = TRUE]
    ELSE IF ~ s.qcNode THEN Panic(s)
    ELSE s

\* known: the draft of the certified block was found.
UpdateQCHigh(s, qc, known) ==
    IF known /\ Height(qc) > Height(s.qc)
    THEN [s EXCEPT !.qc = qc, !.qcNode = TRUE]
    ELSE IF ~ s.qcNode THEN Panic(s)
    ELSE IF Height(qc) = Height(s.qc) /\ Round(qc) > Round(s.qc)
    THEN [s EXCEPT !.qc = qc, !.qcNode = known]
    ELSE s

\* CommitBlock adds a block to the chain if its parent is stored.  Every block
\* of ready is the parent of the next, so all of them are added or none is.
CommitBlocks(s, ready) ==
    IF Height(ready[1]) > Height(s.best) /\ Stored(s, Parent(ready[1]))
    THEN [s EXCEPT !.best = ready[Len(ready)]] ELSE s

\* OnCommit goes on after a failure, and prunes up to every block in both
\* cases: the last pruning leaves nothing that the others forget.
OnCommit(s, ready) ==
    IF ready = << >> THEN s ELSE PruneUpTo(CommitBlocks(s, ready), ready[Len(ready)])

\* Mutant: the block of the certificate is committed with its ancestors.
CommitReadySelf(s, b) ==
    [k \in 1 .. Height(b) - Height(s.best) |-> SubSeq(b, 1, Height(s.best) + k)]

\* The ancestors of b above the committed height, in ascending order.
CommitReady(s, b) ==
    [k \in 1 .. Height(b) - 1 - Height(s.best) |-> SubSeq(b, 1, Height(s.best) + k)]

\* Update: qc is a certificate for b'; its parent, certified by b', and all
\* that precedes it is committed.
Update(s, qc) ==
    IF qc \notin s.drafts \/ qc \in s.final THEN s
    ELSE IF qc \in s.hollow THEN Panic(s)
    ELSE LET t == UpdateQCHigh(s, qc, TRUE)
         IN  IF t.up THEN OnCommit(t, CommitReady(t, qc)) ELSE t

-----------------------------------------------------------------------------
(* The main loop: one action per event                                      *)

Set(n, s) == node' = [node EXCEPT ![n] = s]
Broadcast(ms) == msgs' = msgs \cup ms
Handled(n, m) == done' = [done EXCEPT ![n] = @ \cup {m}]
Receives(n, m, type) == node[n].up /\ m.type = type /\ m \notin done[n]

\* OnReceiveProposal, the parent is unknown and the block is above QCHigh:
\* ask the others for it and put the proposal back in the queue.
ProposalTooEarly(n, m) ==
    LET s == node[n]
    IN  /\ Receives(n, m, "proposal")
        /\ Height(m.block) >= Height(s.best)
        /\ ~ Known(s, Parent(m.block))
        /\ Height(m.block) > Height(s.qc)
        /\ Broadcast({Query(n, s.best)})
        /\ UNCHANGED <<node, done, timeouts, restarts>>

\* The round checks of OnReceiveProposal.
RoundValid(s, m) ==
    LET r == Round(m.block)
        p == Parent(m.block)
    IN  /\ r = 0 => p = Genesis \/ IsKBlock(Parent(p))
        /\ r > 0 /\ DraftRound(s, p) + 1 # r =>
              /\ r \in m.tc
              /\ IsKBlock(p) \/ DraftRound(s, p) < r

ExtendedFromLastCommitted(s, b) ==
    s.best \in Ancestors(b) /\ Height(b) - Height(s.best) < 10

AcceptsProposal(n, m) ==
    /\ Receives(n, m, "proposal")
    /\ Height(m.block) >= Height(node[n].best)
    /\ Known(node[n], Parent(m.block))
    /\ RoundValid(node[n], m)

\* OnReceiveProposal: keep the draft, vote for it unless it is below the last
\* height voted for, commit what its certificate completes, enter the next
\* round.
OnReceiveProposal(n, m) ==
    LET s == node[n]
        b == m.block
        t == [s EXCEPT !.drafts = @ \cup {b}]
        u == Update(t, Parent(b))
    IN  /\ AcceptsProposal(n, m)
        /\ IF Height(b) >= s.height /\ ExtendedFromLastCommitted(s, b)
           THEN IF u.up
                THEN /\ Set(n, enterRound([u EXCEPT !.lastVote = b, !.height = Height(b)],
                                          Round(b) + 1))
                     /\ Broadcast({Vote(n, b)})
                ELSE Set(n, u) /\ Broadcast({})
           ELSE Set(n, t) /\ Broadcast({})
        /\ Handled(n, m)
        /\ UNCHANGED <<timeouts, restarts>>

\* The test for an outdated vote.  Rounds are unsigned: in round 0,
\* currentRound - 1 is the largest of them and every vote but one of round 0
\* is outdated.
OutdatedVote(s, r) ==
    /\ ~ (r = s.round /\ r = 0)
    /\ s.round = 0 \/ r < s.round - 1

AcceptsVote(n, m) ==
    /\ Receives(n, m, "vote")
    /\ ~ OutdatedVote(node[n], Round(m.block))
    /\ n = RoundProposer(Round(m.block) + 1)
    /\ Known(node[n], m.block)
    /\ DraftRound(node[n], m.block) = Round(m.block)

\* OnReceiveVote, by the proposer of the round after the vote's.
OnReceiveVote(n, m) ==
    LET s == node[n]
        b == m.block
        r == Round(b)
        t == [s EXCEPT !.qcVotes = AddVote(@, b, m.from)]
        u == UpdateQCHigh(t, b, TRUE)
    IN  /\ AcceptsVote(n, m)
        /\ Set(n, IF ~ Certifies(s.qcVotes, b, m.from) THEN t
                  ELSE IF u.qc = t.qc THEN u
                  ELSE enterRound(scheduleOnBeat(u, r + 1), r + 1))
        /\ Handled(n, m)
        /\ UNCHANGED <<msgs, timeouts, restarts>>

AcceptsTimeout(n, m) ==
    Receives(n, m, "timeout") /\ n = RoundProposer(m.round)

\* OnReceiveTimeout: the last vote of the sender may complete a certificate.
CountLastVote(s, m) ==
    LET t == [s EXCEPT !.qcVotes = AddVote(@, m.lastVote, m.from)]
        u == UpdateQCHigh(t, m.lastVote, Known(t, m.lastVote))
    IN  IF m.lastVote = Genesis THEN s
        ELSE IF ~ Certifies(s.qcVotes, m.lastVote, m.from) THEN t
        ELSE IF u.up THEN Update(u, m.lastVote) ELSE u

\* OnReceiveTimeout: its wish may complete a timeout certificate.
CountWish(s, m) ==
    LET t == [s EXCEPT !.tcVotes = AddVote(@, m.round, m.from)]
    IN  IF Certifies(s.tcVotes, m.round, m.from)
        THEN scheduleOnBeat([t EXCEPT !.tc = {m.round}], m.round)
        ELSE t

\* OnReceiveTimeout, by the proposer of the round that timed out: the sender's
\* last vote, its QCHigh, which may be higher, and its wish, in this order.
OnReceiveTimeout(n, m) ==
    /\ AcceptsTimeout(n, m)
    /\ \E t \in {CountLastVote(node[n], m)} :
          \E u \in {IF t.up THEN UpdateQCHigh(t, m.qc, Known(t, m.qc)) ELSE t} :
              Set(n, IF u.up THEN CountWish(u, m) ELSE u)
    /\ Handled(n, m)
    /\ UNCHANGED <<msgs, timeouts, restarts>>

\* OnReceiveQuery: broadcast again the proposals the sender may miss.  A block
\* with a certificate has been broadcast, and a message stays deliverable until
\* it is handled, so this adds no message; answering twice changes nothing.
OnReceiveQuery(n, m) ==
    LET wanted == DraftsUpTo(node[n], m.block)
    IN  /\ Receives(n, m, "query")
        /\ Broadcast({p \in msgs : p.type = "proposal" /\ p.block \in wanted})
        /\ UNCHANGED <<node, done, timeouts, restarts>>

\* OnPropose and CreateLeaf: a block of round r on top of QCHigh, unless r is
\* not above the certificate's round.
CanPropose(s, r) ==
    /\ Known(s, s.qc)
    /\ r # 0 => r > Round(s.qc)

\* Mutant: TCHigh is reset before the message is built.
ProposeResetFirst(s, r) ==
    LET b == Append(s.qc, [round |-> r, inc |-> s.inc])
    IN  [s EXCEPT !.drafts = @ \cup {b},
                  !.hollow = IF s.qcNode THEN @ ELSE @ \cup {b},
                  !.cur = {Proposal(b, {})},
                  !.sending = TRUE,
                  !.tc = {}]

Propose(s, r) ==
    LET b == Append(s.qc, [round |-> r, inc |-> s.inc])
    IN  [s EXCEPT !.drafts = @ \cup {b},
                  !.hollow = IF s.qcNode THEN @ ELSE @ \cup {b},
                  !.cur = {Proposal(b, s.tc)},
                  !.sending = TRUE,
                  !.tc = {}]

\* Mutant: a beat for a round already served is not recognised.
OnBeatDuplicate(n) ==
    \E r \in node[n].beat :
        LET s == [node[n] EXCEPT !.beat = {}, !.beatRound = r]
        IN  /\ s.up
            /\ r <= MaxRound
            /\ n = RoundProposer(r)
            /\ Set(n, IF CanPropose(s, r) THEN Propose(s, r) ELSE s)
            /\ UNCHANGED <<msgs, done, timeouts, restarts>>

\* OnBeat: at most one proposal per round.
OnBeat(n) ==
    \E r \in node[n].beat :
        LET s == [node[n] EXCEPT !.beat = {}]
            t == [s EXCEPT !.beatRound = r]
        IN  /\ s.up
            /\ r <= MaxRound
            /\ Set(n, IF r <= s.beatRound \/ n # RoundProposer(r) THEN s
                      ELSE IF CanPropose(t, r) THEN Propose(t, r) ELSE t)
            /\ UNCHANGED <<msgs, done, timeouts, restarts>>

OnBroadcastProposal(n) ==
    /\ node[n].up /\ node[n].sending
    /\ Broadcast(node[n].cur)
    /\ Set(n, [node[n] EXCEPT !.sending = FALSE])
    /\ UNCHANGED <<done, timeouts, restarts>>

\* The round timer fires: its round goes to roundTimeoutCh, where it may wait
\* while other events move the node to a later round.
TimerFires(n) ==
    \E r \in node[n].timer :
        /\ node[n].up
        /\ r <= MaxRound
        /\ timeouts < MaxTimeouts
        /\ timeouts' = timeouts + 1
        /\ Set(n, [node[n] EXCEPT !.timer = {}, !.expired = Append(@, r)])
        /\ UNCHANGED <<msgs, done, restarts>>

\* Mutant: the timeout message does not carry the last vote.
OnRoundTimeoutNoVote(n) ==
    LET s == node[n]
        r == Head(s.expired)
    IN  /\ s.up
        /\ s.expired # << >>
        /\ Set(n, enterRound([s EXCEPT !.expired = Tail(@)], r + 1))
        /\ Broadcast({Timeout(n, r, s.qc, Genesis)})
        /\ UNCHANGED <<done, timeouts, restarts>>

OnRoundTimeout(n) ==
    LET s == node[n]
        r == Head(s.expired)
    IN  /\ s.up
        /\ s.expired # << >>
        /\ Set(n, enterRound([s EXCEPT !.expired = Tail(@)], r + 1))
        /\ Broadcast({Timeout(n, r, s.qc, s.lastVote)})
        /\ UNCHANGED <<done, timeouts, restarts>>

\* Mutant: the process starts from the parent of the best block.
RestartFromParent(n) ==
    /\ n \notin Faulty
    /\ restarts < MaxRestarts
    /\ restarts' = restarts + 1
    /\ Set(n, Regulate(Parent(node[n].best), node[n].inc + 1))
    /\ done' = [done EXCEPT ![n] = {}]
    /\ UNCHANGED <<msgs, timeouts>>

\* The process stops, by a crash, by its operator or by its own panic, and is
\* started again: the chain is all that is left.  The message cache is lost
\* too, so what was handled before may be delivered and handled again.
Restart(n) ==
    /\ n \notin Faulty
    /\ restarts < MaxRestarts
    /\ restarts' = restarts + 1
    /\ Set(n, Regulate(node[n].best, node[n].inc + 1))
    /\ done' = [done EXCEPT ![n] = {}]
    /\ UNCHANGED <<msgs, timeouts>>

-----------------------------------------------------------------------------
Init ==
    /\ setup \in Setups
    /\ node = [n \in Committee |-> [Regulate(Genesis, 0) EXCEPT !.up = n \notin Faulty]]
    /\ msgs = {}
    /\ done = [n \in Committee |-> {}]
    /\ timeouts = 0
    /\ restarts = 0

Receive(n) ==
    \E m \in msgs :
        \/ ProposalTooEarly(n, m)
        \/ OnReceiveProposal(n, m)
        \/ OnReceiveVote(n, m)
        \/ OnReceiveTimeout(n, m)
        \/ OnReceiveQuery(n, m)

Next ==
    /\ \E n \in Committee :
          \/ Receive(n)
          \/ OnBeat(n)
          \/ OnBroadcastProposal(n)
          \/ TimerFires(n)
          \/ OnRoundTimeout(n)
          \/ Restart(n)
    /\ UNCHANGED setup

Spec == Init /\ [][Next]_vars

(* Partial synchrony: a round timer outlasts the delivery of every message  *)
(* that matters and the events it causes.  Timers of different members are  *)
(* about as long, and longer after a timeout: a member gets at most two     *)
(* rounds ahead of another by timing out.                                   *)
Busy(n) ==
    /\ node[n].up
    /\ \/ \E m \in msgs : AcceptsProposal(n, m) \/ AcceptsVote(n, m) \/ AcceptsTimeout(n, m)
       \/ \E r \in node[n].beat : r <= MaxRound
       \/ node[n].sending
       \/ node[n].expired # << >>

NotAhead(n) == \A i \in Committee : node[i].up => node[n].round <= node[i].round + 1

\* Every running member has committed a block: what follows is not explored.
AllCommitted == \A n \in Committee \ Faulty : node[n].best # Genesis

SyncNext ==
    /\ ~ AllCommitted
    /\ \E n \in Committee :
          \/ \E m \in msgs :
                OnReceiveProposal(n, m) \/ OnReceiveVote(n, m) \/ OnReceiveTimeout(n, m)
          \/ OnBeat(n)
          \/ OnBroadcastProposal(n)
          \/ OnRoundTimeout(n)
          \/ TimerFires(n) /\ NotAhead(n) /\ \A i \in Committee : ~ Busy(i)
    /\ UNCHANGED setup

SyncSpec == Init /\ [][SyncNext]_vars /\ WF_vars(SyncNext)

-----------------------------------------------------------------------------
(* Properties                                                               *)

Mark == [round : 0 .. MaxRound, inc : 0 .. MaxRestarts]
Block == Seq(Mark)
Rounds == 0 .. MaxRound + 1

NodeOK(s) ==
    /\ s.up \in BOOLEAN /\ s.qcNode \in BOOLEAN /\ s.sending \in BOOLEAN
    /\ s.inc \in 0 .. MaxRestarts
    /\ s.round \in Rounds /\ s.beatRound \in Rounds \cup {-1}
    /\ s.timer \subseteq Rounds /\ s.beat \subseteq Rounds /\ s.tc \subseteq Rounds
    /\ s.expired \in Seq(0 .. MaxRound)
    /\ s.height \in Nat
    /\ {s.lastVote, s.qc, s.best} \subseteq Block
    /\ s.drafts \subseteq Block /\ s.final \subseteq s.drafts /\ s.hollow \subseteq s.drafts
    /\ s.cur \subseteq msgs \/ s.sending
    /\ s.qcVotes \subseteq Block \X Committee
    /\ s.tcVotes \subseteq Rounds \X Committee

TypeOK ==
    /\ setup \in Setups
    /\ \A n \in Committee : NodeOK(node[n]) /\ done[n] \subseteq msgs
    /\ timeouts \in 0 .. MaxTimeouts
    /\ restarts \in 0 .. MaxRestarts

Proposals == {m \in msgs : m.type = "proposal"}
Timeouts == {m \in msgs : m.type = "timeout"}
VotersFor(b) == {i \in Committee : Vote(i, b) \in msgs}
Certified(b) == b = Genesis \/ MajorityTwoThird(Cardinality(VotersFor(b)), N)

\* Every quorum certificate in use (QCHigh of a node, the one in a proposal,
\* the one in a timeout message) is for a block two thirds of the committee
\* have voted for, whether it was made from votes or from the last votes that
\* timeout messages carry.
CertificatesBacked ==
    /\ \A n \in Committee : Certified(node[n].qc)
    /\ \A m \in Proposals : Certified(Parent(m.block))
    /\ \A m \in Timeouts : Certified(m.qc)

\* A timeout certificate attached to a proposal is for a round in which two
\* thirds of the committee have timed out.
TimeoutCertsBacked ==
    \A m \in Proposals : \A r \in m.tc :
        MajorityTwoThird(Cardinality({t.from : t \in {u \in Timeouts : u.round = r}}), N)

\* The commit rule of Update: the last block a node has committed has a child
\* which is certified too (and so on down: the chain is made of certified
\* blocks with certified children).
CommittedHasCertifiedChild ==
    \A n \in Committee :
        node[n].best # Genesis =>
            /\ Certified(node[n].best)
            /\ \E m \in Proposals : Parent(m.block) = node[n].best /\ Certified(m.block)

\* QCHigh never goes back, in number and then in round, while the process
\* runs: what UpdateQCHigh says it does.
HigherOrSame(c, d) ==
    \/ Height(d) > Height(c)
    \/ Height(d) = Height(c) /\ Round(d) >= Round(c)
QCHighMonotone ==
    [][\A n \in Committee :
          node'[n].inc = node[n].inc => HigherOrSame(node[n].qc, node'[n].qc)]_vars

\* A process makes one proposal per round, whatever certificates, timeout
\* certificates and beats reach it ("avoid duplicate onbeat").
OneProposalPerRound ==
    \A p, q \in Proposals : OwnMark(p.block) = OwnMark(q.block) => p = q

\* A proposer may combine the beat of one round with a QCHigh learned from
\* another, but the round of a proposal is above its parent's and a quorum has
\* brought the chain to it: two thirds timed out in that very round, and the
\* certificate says so, or voted for a block of the round before, which is not
\* higher than the parent (the two ways to a beat, OnReceiveVote and
\* OnReceiveTimeout, and the round check of CreateLeaf).
VotedFor == {Genesis} \cup {m.block : m \in {v \in msgs : v.type = "vote"}}
RoundsJustified ==
    \A m \in Proposals :
        LET r == Round(m.block)
            p == Parent(m.block)
        IN  \/ r = 0
            \/ /\ r > Round(p)
               /\ \/ r \in m.tc
                  \/ \E b \in VotedFor : Certified(b) /\ Round(b) + 1 = r /\ HigherOrSame(b, p)

\* What a member has committed stays committed, also over a restart: Update,
\* OnCommit and CommitBlock only ever extend lastCommitted, whichever branch the
\* certificate is of.
CommitsOnlyExtend ==
    [][\A n \in Committee : node[n].best \in Ancestors(node'[n].best)]_vars

SameBranch(b, c) == b \in Ancestors(c) \/ c \in Ancestors(b)

\* Blocks of two branches are certified only if a third of the committee has voted
\* for two blocks of one height.  The vote rule of OnReceiveProposal lets a member
\* do so (it asks for a height not below the last one); nothing else, be it a
\* restart or the ways certificates travel, leads to a fork.
ForkNeedsDoubleVotes ==
    \A b, c \in VotedFor :
        Certified(b) /\ Certified(c) /\ ~ SameBranch(b, c) =>
            \E d \in Ancestors(b), e \in Ancestors(c) :
                /\ d # e /\ Height(d) = Height(e)
                /\ 3 * Cardinality(VotersFor(d) \cap VotersFor(e)) >= N

\* Two nodes never commit conflicting blocks.
Agreement == \A i, j \in Committee : SameBranch(node[i].best, node[j].best)

\* Under partial synchrony every running member commits a block.
EveryoneCommits == <>AllCommitted
=============================================================================
