-------------------------- MODULE PacemakerProofs ---------------------------
(***************************************************************************)
(* Proofs about the pacemaker, for every committee size, every set of      *)
(* members that are down and every bound on rounds, timeouts and restarts. *)
(***************************************************************************)
EXTENDS PacemakerLemmas

-----------------------------------------------------------------------------
(* The handlers                                                             *)

\* A step of one member that proposes nothing.
LEMMA StepKeeps ==
    ASSUME PInv, NEW n \in Committee, NEW t, NEW A \in SUBSET Message,
           node' = [node EXCEPT ![n] = t], msgs' = msgs \cup A, restarts' = restarts,
           \A m \in A : m.type # "proposal" /\ MsgBacked(msgs \cup A, m),
           Advances(msgs \cup A, n, node[n], t)
    PROVE  PInv' /\ NothingGoesBack
<1>1. t \in Node /\ node' \in [Committee -> Node]
  BY DEF PInv, Advances
<1>2. node'[n] = t /\ \A i \in Committee \ {n} : node'[i] = node[i]
  BY DEF PInv
<1>3. PICK M2 : M2 = msgs \cup A
  OBVIOUS
<1>4. Backed(M2)
  <2>1. M2 \subseteq Message
    BY <1>3 DEF PInv, Backed
  <2>2. \A m \in msgs : MsgBacked(M2, m)
    <3>1. msgs \subseteq M2
      BY <1>3
    <3> QED  BY <3>1, BackedGrows, SMTT(30) DEF PInv, Backed
  <2> QED  BY <1>3, <2>1, <2>2, Zenon DEF Backed
<1>5. Unique(M2)
  BY <1>3 DEF PInv, Unique
<1>6. ASSUME NEW i \in Committee
      PROVE  NodeBacked(M2, node'[i], i) /\ Stamped(M2, node'[i], i)
  <2>1. NodeBacked(M2, node'[i], i)
    <3>1. CASE i = n
      BY <1>2, <1>3, <3>1 DEF Advances
    <3>2. CASE i # n
      <4>1. msgs \subseteq M2
        BY <1>3
      <4>2. NodeBacked(msgs, node[i], i)
        BY DEF PInv
      <4>3. NodeBacked(M2, node[i], i)
        BY <4>1, <4>2, BackedGrows
      <4> QED  BY <1>2, <3>2, <4>3
    <3> QED  BY <3>1, <3>2
  <2>2. /\ node'[i].inc = node[i].inc /\ node'[i].beatRound = node[i].beatRound
        /\ node'[i].cur = node[i].cur
    BY <1>2 DEF Advances
  <2>3. \A q : q.type = "proposal" => (q \in M2 <=> q \in msgs)
    BY <1>3
  <2>4. Stamped(msgs, node[i], i)
    BY DEF PInv
  <2>5. Stamped(M2, node'[i], i)
    BY <2>2, <2>3, <2>4 DEF Stamped, MarkBelow
  <2> QED  BY <2>1, <2>5
<1>7. restarts' \in 0 .. MaxRestarts /\ \A i \in Committee : node'[i].inc <= restarts'
  <2>1. \A i \in Committee : node'[i].inc = node[i].inc
    BY <1>2 DEF Advances
  <2> QED  BY <2>1, Zenon DEF PInv
<1>8. PInv'
  BY <1>1, <1>3, <1>4, <1>5, <1>6, <1>7, Zenon DEF PInv
<1>9. ASSUME NEW i \in Committee
      PROVE  HigherOrSame(node[i].qc, node'[i].qc) /\ node[i].best \in Ancestors(node'[i].best)
  <2>1. node[i] \in Node /\ NodeBacked(msgs, node[i], i)
    BY DEF PInv
  <2>2. HigherOrSame(node[i].qc, node[i].qc) /\ node[i].best \in Ancestors(node[i].best)
    BY <2>1, AdvancesFacts DEF Advances
  <2> QED  BY <1>2, <2>2 DEF Advances
<1> QED  BY <1>8, <1>9 DEF NothingGoesBack

\* The same for a step that sends nothing.
LEMMA QuietStepKeeps ==
    ASSUME PInv, NEW n \in Committee, NEW t,
           node' = [node EXCEPT ![n] = t], msgs' = msgs, restarts' = restarts,
           Advances(msgs, n, node[n], t)
    PROVE  PInv' /\ NothingGoesBack
<1>1. PICK A : A = {}
  BY Zenon
<1>2. A \in SUBSET Message /\ msgs \cup A = msgs /\ \A m \in A : FALSE
  BY <1>1
<1>3. msgs' = msgs \cup A /\ Advances(msgs \cup A, n, node[n], t)
  BY <1>2
<1> QED  BY <1>2, <1>3, StepKeeps, Zenon

\* Sending a query, and answering one with proposals, changes no certificate.
LEMMA ProposalTooEarlyKeeps ==
    ASSUME PInv, NEW n \in Committee, NEW m \in msgs,
           ProposalTooEarly(n, m) \/ OnReceiveQuery(n, m)
    PROVE  PInv' /\ NothingGoesBack
<1>1. node \in [Committee -> Node] /\ node[n] \in Node /\ node[n].best \in Block
  BY Zenon DEF PInv, Node
<1>2. PICK A \in SUBSET Message :
        /\ msgs' = msgs \cup A /\ node' = node /\ restarts' = restarts
        /\ \A a \in A : a.type # "proposal" /\ MsgBacked(msgs \cup A, a)
  <2>1. CASE ProposalTooEarly(n, m)
    <3>1. PICK q : q = Query(n, node[n].best)
      OBVIOUS
    <3>2. q \in Message /\ q.type = "query"
      BY <1>1, <3>1 DEF Query, Message, QueryMsg
    <3>3. msgs' = msgs \cup {q} /\ node' = node /\ restarts' = restarts
      BY <2>1, <3>1 DEF ProposalTooEarly, Broadcast
    <3>4. MsgBacked(msgs \cup {q}, q)
      BY <3>2 DEF MsgBacked
    <3> {q} \in SUBSET Message
      BY <3>2
    <3> WITNESS {q} \in SUBSET Message
    <3> QED  BY <3>2, <3>3, <3>4
  <2>2. CASE OnReceiveQuery(n, m)
    <3>1. msgs' = msgs /\ node' = node /\ restarts' = restarts
      BY <2>2 DEF OnReceiveQuery, Broadcast
    <3> WITNESS {} \in SUBSET Message
    <3> QED  BY <3>1
  <2> QED  BY <2>1, <2>2, Zenon
<1>3. node' = [node EXCEPT ![n] = node[n]]
  BY <1>1, <1>2
<1>4. msgs \subseteq msgs \cup A /\ NodeBacked(msgs, node[n], n)
  BY DEF PInv
<1>5. NodeBacked(msgs \cup A, node[n], n)
  BY <1>4, BackedGrows
<1>6. Advances(msgs \cup A, n, node[n], node[n])
  BY <1>1, <1>5, AdvancesFacts
<1> QED  BY <1>2, <1>3, <1>6, StepKeeps, Zenon

\* A draft is added, the certified ancestors are committed, a vote is cast.
LEMMA OnReceiveProposalKeeps ==
    ASSUME PInv, NEW n \in Committee, NEW m \in msgs, OnReceiveProposal(n, m)
    PROVE  PInv' /\ NothingGoesBack
<1>1. PICK s \in Node : s = node[n]
  BY DEF PInv
<1>2. m \in ProposalMsg /\ m.type = "proposal" /\ MsgBacked(msgs, m)
  BY MessageKinds DEF PInv, Backed, OnReceiveProposal, AcceptsProposal, Receives
<1>3. PICK b \in Block \ {Genesis} : b = m.block
  BY <1>2 DEF ProposalMsg
<1>4. PICK t : t = [s EXCEPT !.drafts = @ \cup {b}]
  BY Zenon
<1>5. t \in Node
  BY <1>4, Zenon DEF Node
<1>6. SameCore(s, t) /\ t.qc = s.qc /\ t.best = s.best /\ t.beat = s.beat
  BY <1>4 DEF SameCore, Node, Tidy
<1>7. Backed(msgs) /\ NodeBacked(msgs, s, n)
  BY <1>1 DEF PInv
<1>8. Advances(msgs, n, s, t)
  BY <1>5, <1>6, <1>7, SameAdvances
<1>9. NodeBacked(msgs, t, n)
  BY <1>8 DEF Advances
<1>10. Parent(b) \in Block /\ CertifiedIn(msgs, Parent(b)) /\ Round(b) + 1 \in Rounds /\ Height(b) \in Nat
  BY <1>2, <1>3, BlockFacts DEF MsgBacked, ProposalBacked
<1>11. PICK u : u = Update(t, Parent(b))
  OBVIOUS
<1>12. Advances(msgs, n, t, u)
  BY <1>5, <1>7, <1>9, <1>10, <1>11, UpdateAdvances
<1>13. u \in Node /\ NodeBacked(msgs, u, n) /\ Advances(msgs, n, s, u)
  BY <1>5, <1>7, <1>8, <1>12, AdvancesFacts DEF Advances
<1>14. restarts' = restarts
  BY DEF OnReceiveProposal
<1>15. ASSUME NEW w, Advances(msgs, n, s, w), Set(n, w), Broadcast({})
       PROVE  PInv' /\ NothingGoesBack
  <2>1. node' = [node EXCEPT ![n] = w] /\ msgs' = msgs
    BY <1>15 DEF Set, Broadcast
  <2> QED  BY <1>1, <1>15, <1>14, <2>1, QuietStepKeeps, Zenon
<1>16. CASE Set(n, t) /\ Broadcast({})
  BY <1>8, <1>15, <1>16
<1>17. CASE Set(n, u) /\ Broadcast({})
  BY <1>13, <1>15, <1>17
<1>18. CASE /\ Set(n, enterRound([u EXCEPT !.lastVote = b, !.height = Height(b)], Round(b) + 1))
            /\ Broadcast({Vote(n, b)})
  <2>1. PICK v : v = [u EXCEPT !.lastVote = b, !.height = Height(b)]
    OBVIOUS
  <2>2. v \in Node
    BY <1>10, <1>13, <2>1, Zenon DEF Node
  <2>3. /\ v.lastVote = b /\ v.qc = u.qc /\ v.best = u.best /\ v.inc = u.inc
        /\ v.beatRound = u.beatRound /\ v.cur = u.cur /\ v.tc = u.tc /\ v.beat = u.beat
        /\ v.qcVotes = u.qcVotes /\ v.tcVotes = u.tcVotes
        /\ v.sending = u.sending /\ (Tidy(u) => Tidy(v))
    BY <1>13, <2>1 DEF Node, Tidy
  <2>4. PICK M2 : M2 = msgs \cup {Vote(n, b)}
    BY Zenon
  <2>5. msgs \subseteq M2 /\ Vote(n, b) \in M2
    BY <2>4
  <2>6. NodeBacked(M2, s, n) /\ NodeBacked(M2, u, n)
    BY <1>7, <1>13, <2>5, BackedGrows
  <2>7. NodeBacked(M2, v, n)
    BY <2>3, <2>5, <2>6, Zenon DEF NodeBacked, BeatBacked
  <2>8. Advances(M2, n, s, v)
    BY <1>13, <2>2, <2>3, <2>7, Zenon DEF Advances
  <2>9. PICK w : w = enterRound(v, Round(b) + 1)
    OBVIOUS
  <2>10. Advances(M2, n, v, w)
    BY <1>10, <2>2, <2>7, <2>9, RoundAdvances
  <2>11. Advances(M2, n, s, w)
    BY <2>2, <2>6, <2>8, <2>10, AdvancesFacts DEF Advances
  <2>12. /\ Vote(n, b) \in Message /\ Vote(n, b).type = "vote" /\ Vote(n, b).block = b
    BY DEF Vote, Message, VoteMsg
  <2>13. ProposedIn(M2, b)
    BY <1>2, <1>3, <2>5 DEF ProposedIn
  <2>14. MsgBacked(M2, Vote(n, b))
    BY <2>12, <2>13 DEF MsgBacked
  <2>15. node' = [node EXCEPT ![n] = w] /\ msgs' = msgs \cup {Vote(n, b)}
    BY <1>18, <2>1, <2>9 DEF Set, Broadcast
  <2>16. PICK A : A = {Vote(n, b)}
    BY Zenon
  <2>17. /\ A \in SUBSET Message /\ M2 = msgs \cup A
         /\ \A a \in A : a.type # "proposal" /\ MsgBacked(M2, a)
    BY <2>4, <2>12, <2>14, <2>16
  <2>18. node' = [node EXCEPT ![n] = w] /\ msgs' = msgs \cup A /\ Advances(M2, n, node[n], w)
    BY <1>1, <2>11, <2>15, <2>16
  <2> QED  BY <1>14, <2>17, <2>18, StepKeeps, Zenon
<1> QED  BY <1>1, <1>3, <1>4, <1>11, <1>16, <1>17, <1>18 DEF OnReceiveProposal

\* A vote is recorded; the one that makes a certificate may raise QCHigh.
LEMMA OnReceiveVoteKeeps ==
    ASSUME PInv, NEW n \in Committee, NEW m \in msgs, OnReceiveVote(n, m)
    PROVE  PInv' /\ NothingGoesBack
<1>1. PICK s \in Node : s = node[n]
  BY DEF PInv
<1>2. m \in VoteMsg /\ m = Vote(m.from, m.block)
  BY MessageKinds DEF PInv, Backed, OnReceiveVote, AcceptsVote, Receives
<1>3. PICK b \in Block, i \in Committee : b = m.block /\ i = m.from
  BY <1>2 DEF VoteMsg
<1>4. Vote(i, b) \in msgs /\ Backed(msgs) /\ NodeBacked(msgs, s, n) /\ Round(b) + 1 \in Rounds
  BY <1>1, <1>2, <1>3, BlockFacts DEF PInv
<1>5. PICK t : t = [s EXCEPT !.qcVotes = AddVote(@, b, i)]
  BY Zenon
<1>6. PICK u : u = UpdateQCHigh(t, b, TRUE)
  BY Zenon
<1>7. PICK w : w = enterRound(scheduleOnBeat(u, Round(b) + 1), Round(b) + 1)
  OBVIOUS
<1>8. /\ node' = [node EXCEPT ![n] = IF ~ Certifies(s.qcVotes, b, i) THEN t
                                     ELSE IF u.qc = t.qc THEN u ELSE w]
      /\ msgs' = msgs /\ restarts' = restarts
  BY <1>1, <1>3, <1>5, <1>6, <1>7 DEF OnReceiveVote, Set
<1>9. Advances(msgs, n, s, t) /\ t \in Node /\ NodeBacked(msgs, t, n)
  BY <1>4, <1>5, VoteAdvances DEF Advances
<1>10. CASE ~ Certifies(s.qcVotes, b, i)
  <2>1. node' = [node EXCEPT ![n] = t]
    BY <1>8, <1>10
  <2> QED  BY <1>1, <1>8, <1>9, <2>1, QuietStepKeeps, Zenon
<1>11. CASE Certifies(s.qcVotes, b, i)
  <2>1. CertifiedIn(msgs, b)
    BY <1>4, <1>11, VoteAdvances, Zenon
  <2>2. Advances(msgs, n, t, u)
    BY <1>4, <1>6, <1>9, <2>1, UpdateAdvances, Zenon
  <2>3. Advances(msgs, n, s, u) /\ u \in Node /\ NodeBacked(msgs, u, n)
    BY <1>4, <1>9, <2>2, AdvancesFacts DEF Advances
  <2>4. CASE u.qc = t.qc
    <3>1. node' = [node EXCEPT ![n] = u]
      BY <1>8, <1>11, <2>4
    <3> QED  BY <1>1, <1>8, <2>3, <3>1, QuietStepKeeps, Zenon
  <2>5. CASE u.qc # t.qc
    <3>1. PICK v : v = scheduleOnBeat(u, Round(b) + 1)
      OBVIOUS
    <3>2. Advances(msgs, n, u, v) /\ v \in Node /\ NodeBacked(msgs, v, n)
      <4>1. u.qc = b
        BY <1>6, <1>9, <2>5, UpdateQCHighFacts, Zenon
      <4>2. RoundBacked(msgs, Round(b) + 1, u.tc, u.qc)
        BY <2>1, <4>1, HigherFacts DEF RoundBacked
      <4>3. Advances(msgs, n, u, v)
        BY <1>4, <2>3, <3>1, <4>2, RoundAdvances, SMTT(30)
      <4> QED  BY <4>3 DEF Advances
    <3>3. Advances(msgs, n, v, w) /\ w \in Node
      <4>1. Advances(msgs, n, v, w)
        BY <1>4, <1>7, <3>1, <3>2, RoundAdvances
      <4> QED  BY <4>1 DEF Advances
    <3>4. Advances(msgs, n, s, v)
      BY <1>4, <2>3, <3>2, AdvancesFacts
    <3>5. Advances(msgs, n, s, w)
      BY <1>4, <3>2, <3>3, <3>4, AdvancesFacts
    <3>6. node' = [node EXCEPT ![n] = w]
      BY <1>8, <1>11, <2>5
    <3> QED  BY <1>1, <1>8, <3>5, <3>6, QuietStepKeeps, Zenon
  <2> QED  BY <2>4, <2>5
<1> QED  BY <1>10, <1>11

\* The sender's last vote, QCHigh and wish, one after the other.
LEMMA OnReceiveTimeoutKeeps ==
    ASSUME PInv, NEW n \in Committee, NEW m \in msgs, OnReceiveTimeout(n, m)
    PROVE  PInv' /\ NothingGoesBack
<1>1. PICK s \in Node : s = node[n]
  BY DEF PInv
<1>2. m \in TimeoutMsg /\ m.type = "timeout" /\ Backed(msgs) /\ NodeBacked(msgs, s, n)
  BY <1>1, MessageKinds DEF PInv, Backed, OnReceiveTimeout, AcceptsTimeout, Receives
<1>3. m.qc \in Block /\ CertifiedIn(msgs, m.qc)
  BY <1>2 DEF TimeoutMsg, Backed, MsgBacked
<1>4. PICK t : t = CountLastVote(s, m)
  OBVIOUS
<1>5. Advances(msgs, n, s, t) /\ t \in Node /\ NodeBacked(msgs, t, n)
  BY <1>2, <1>4, LastVoteAdvances DEF Advances
<1>6. PICK u : u = IF t.up THEN UpdateQCHigh(t, m.qc, Known(t, m.qc)) ELSE t
  OBVIOUS
<1>7. Advances(msgs, n, t, u)
  <2>1. PICK known \in BOOLEAN : known = Known(t, m.qc)
    BY Zenon DEF Known
  <2>2. Advances(msgs, n, t, t) /\ Advances(msgs, n, t, UpdateQCHigh(t, m.qc, known))
    BY <1>2, <1>3, <1>5, UpdateAdvances, AdvancesFacts, SMTT(30)
  <2> QED  BY <1>6, <2>1, <2>2
<1>8. Advances(msgs, n, s, u) /\ u \in Node /\ NodeBacked(msgs, u, n)
  BY <1>2, <1>5, <1>7, AdvancesFacts DEF Advances
<1>9. PICK w : w = IF u.up THEN CountWish(u, m) ELSE u
  OBVIOUS
<1>10. Advances(msgs, n, u, w)
  <2>1. Advances(msgs, n, u, u) /\ Advances(msgs, n, u, CountWish(u, m))
    BY <1>2, <1>8, WishAdvances, AdvancesFacts
  <2> QED  BY <1>9, <2>1
<1>11. Advances(msgs, n, s, w)
  BY <1>2, <1>8, <1>10, AdvancesFacts DEF Advances
<1>12. node' = [node EXCEPT ![n] = w] /\ msgs' = msgs /\ restarts' = restarts
  <2>1. \E x \in {CountLastVote(s, m)} :
           \E y \in {IF x.up THEN UpdateQCHigh(x, m.qc, Known(x, m.qc)) ELSE x} :
               node' = [node EXCEPT ![n] = IF y.up THEN CountWish(y, m) ELSE y]
    BY <1>1, Zenon DEF OnReceiveTimeout, Set
  <2>2. PICK y \in {IF t.up THEN UpdateQCHigh(t, m.qc, Known(t, m.qc)) ELSE t} :
               node' = [node EXCEPT ![n] = IF y.up THEN CountWish(y, m) ELSE y]
    BY <1>4, <2>1, Zenon
  <2>3. y = u
    BY <1>6, <2>2
  <2>4. node' = [node EXCEPT ![n] = w]
    BY <1>9, <2>2, <2>3
  <2> QED  BY <2>4 DEF OnReceiveTimeout
<1> QED  BY <1>1, <1>11, <1>12, QuietStepKeeps, Zenon

\* The round timer fires; its round is handled, with a timeout message.
LEMMA TimersKeep ==
    ASSUME PInv, NEW n \in Committee, TimerFires(n) \/ OnRoundTimeout(n)
    PROVE  PInv' /\ NothingGoesBack
<1>1. PICK s \in Node : s = node[n]
  BY DEF PInv
<1>2. Backed(msgs) /\ NodeBacked(msgs, s, n)
  BY <1>1 DEF PInv
<1>3. ASSUME NEW t \in Node, SameCore(s, t), t.qc = s.qc, t.best = s.best, t.beat = s.beat
      PROVE  Advances(msgs, n, s, t)
  BY <1>2, <1>3, SameAdvances
<1>4. CASE TimerFires(n)
  <2>1. PICK r \in s.timer : /\ node' = [node EXCEPT ![n] = [s EXCEPT !.timer = {}, !.expired = Append(@, r)]]
                             /\ msgs' = msgs /\ restarts' = restarts /\ r <= MaxRound
    BY <1>1, <1>4, Zenon DEF TimerFires, Set
  <2>2. PICK t : t = [s EXCEPT !.timer = {}, !.expired = Append(@, r)]
    OBVIOUS
  <2>3. r \in Served /\ s.expired \in Seq(Served)
    BY <2>1 DEF Node, Served, Rounds
  <2>4. Append(s.expired, r) \in Seq(Served)
    BY <2>3
  <2>5. t \in Node
    BY <2>2, <2>4, Zenon DEF Node
  <2>6. SameCore(s, t) /\ t.qc = s.qc /\ t.best = s.best /\ t.beat = s.beat
    BY <2>2 DEF SameCore, Node, Tidy
  <2>7. Advances(msgs, n, s, t)
    BY <1>3, <2>5, <2>6
  <2> QED  BY <1>1, <2>1, <2>2, <2>7, QuietStepKeeps, Zenon
<1>5. CASE OnRoundTimeout(n)
  <2>1. PICK r : r = Head(s.expired)
    OBVIOUS
  <2>2. s.expired \in Seq(Served) /\ s.expired # << >>
    BY <1>1, <1>5 DEF OnRoundTimeout, Node
  <2>3. r \in Served /\ r + 1 \in Rounds /\ Tail(s.expired) \in Seq(Served)
    <3>1. r \in Served /\ Tail(s.expired) \in Seq(Served)
      BY <2>1, <2>2
    <3> QED  BY <3>1, PacemakerBounds DEF Served, Rounds
  <2>4. PICK t : t = [s EXCEPT !.expired = Tail(@)]
    BY Zenon
  <2>5. t \in Node
    BY <2>3, <2>4, Zenon DEF Node
  <2>6. SameCore(s, t) /\ t.qc = s.qc /\ t.best = s.best /\ t.beat = s.beat
    BY <2>4 DEF SameCore, Node, Tidy
  <2>7. Advances(msgs, n, s, t) /\ NodeBacked(msgs, t, n)
    BY <1>3, <2>5, <2>6 DEF Advances
  <2>8. PICK u : u = enterRound(t, r + 1)
    OBVIOUS
  <2>9. Advances(msgs, n, t, u) /\ u \in Node
    <3>1. Advances(msgs, n, t, u)
      BY <2>3, <2>5, <2>7, <2>8, RoundAdvances
    <3> QED  BY <3>1 DEF Advances
  <2>10. Advances(msgs, n, s, u)
    BY <1>2, <2>5, <2>7, <2>9, AdvancesFacts
  <2>11. PICK a : a = Timeout(n, r, s.qc, s.lastVote)
    OBVIOUS
  <2>12. node' = [node EXCEPT ![n] = u] /\ msgs' = msgs \cup {a} /\ restarts' = restarts
    BY <1>1, <1>5, <2>1, <2>4, <2>8, <2>11 DEF OnRoundTimeout, Set, Broadcast
  <2>13. /\ a \in Message /\ a.type = "timeout" /\ a.qc = s.qc
         /\ a.lastVote = s.lastVote /\ a.from = n
    <3>1. s.qc \in Block /\ s.lastVote \in Block
      BY DEF Node
    <3> QED  BY <2>3, <2>11, <3>1 DEF Timeout, Message, TimeoutMsg
  <2>14. MsgBacked(msgs, a)
    <3>1. CertifiedIn(msgs, s.qc) /\ (s.lastVote # Genesis => Vote(n, s.lastVote) \in msgs)
      BY <1>2 DEF NodeBacked
    <3> QED  BY <2>13, <3>1 DEF MsgBacked
  <2>15. PICK A : A = {a}
    BY Zenon
  <2>16. msgs \subseteq msgs \cup A /\ A \in SUBSET Message
    BY <2>13, <2>15
  <2>17. MsgBacked(msgs \cup A, a) /\ NodeBacked(msgs \cup A, u, n)
    BY <2>10, <2>14, <2>16, BackedGrows DEF Advances
  <2>18. \A x \in A : x.type # "proposal" /\ MsgBacked(msgs \cup A, x)
    BY <2>13, <2>15, <2>17
  <2>19. Advances(msgs \cup A, n, node[n], u)
    BY <1>1, <2>10, <2>17, Zenon DEF Advances
  <2>20. msgs' = msgs \cup A
    BY <2>12, <2>15
  <2> QED  BY <2>12, <2>16, <2>18, <2>19, <2>20, StepKeeps, Zenon
<1> QED  BY <1>4, <1>5

-----------------------------------------------------------------------------
(* Theorems                                                                 *)

\* Every step keeps the invariant, and neither QCHigh nor the chain goes back in it.
LEMMA PInvNext ==
    ASSUME PInv, [Next]_vars
    PROVE  PInv' /\ NothingGoesBack
<1>1. CASE Next
  <2>1. PICK n \in Committee :
          Receive(n) \/ OnBeat(n) \/ OnBroadcastProposal(n) \/ TimerFires(n)
          \/ OnRoundTimeout(n) \/ Restart(n)
    BY <1>1 DEF Next
  <2>2. CASE Receive(n)
    <3>1. PICK m \in msgs :
            ProposalTooEarly(n, m) \/ OnReceiveProposal(n, m) \/ OnReceiveVote(n, m)
            \/ OnReceiveTimeout(n, m) \/ OnReceiveQuery(n, m)
      BY <2>2 DEF Receive
    <3> QED  BY <3>1, ProposalTooEarlyKeeps, OnReceiveProposalKeeps, OnReceiveVoteKeeps,
                OnReceiveTimeoutKeeps, Zenon
  <2> QED  BY <2>1, <2>2, OnBeatKeeps, OnBroadcastProposalKeeps, TimersKeep, RestartKeeps
<1>2. CASE UNCHANGED vars
  <2>1. node' = node /\ msgs' = msgs /\ restarts' = restarts
    BY <1>2 DEF vars
  <2>2. PInv'
    BY <2>1 DEF PInv
  <2>3. ASSUME NEW i \in Committee
        PROVE  HigherOrSame(node[i].qc, node'[i].qc) /\ node[i].best \in Ancestors(node'[i].best)
    <3>1. node[i] \in Node /\ NodeBacked(msgs, node[i], i)
      BY DEF PInv
    <3> QED  BY <2>1, <3>1, AdvancesFacts DEF Advances
  <2> QED  BY <2>2, <2>3 DEF NothingGoesBack
<1> QED  BY <1>1, <1>2

\* Whatever is delivered, lost, late or handled again after a restart, members
\* and messages hold certificates that votes back, and marks are not reused.
THEOREM PacemakerInvariant == Spec => []PInv
<1>1. Init => PInv
  BY PInvInit
<1>2. PInv /\ [Next]_vars => PInv'
  BY PInvNext
<1> QED  BY <1>1, <1>2, PTL DEF Spec

\* The invariant holds and types are right: rounds stay within the bound on
\* proposals, marks in the draft map are of drafts that are there, a proposal is
\* sent or about to be, and only messages that were sent are handled.
THEOREM TypeCorrect == Spec => []TypeOK
BY CountedInit, CountedNext, PInvTypes, PacemakerInvariant, PTL DEF Spec

\* A certificate in use is for a block that two thirds have voted for
\* (UpdateQCHigh, OnReceiveVote, OnReceiveTimeout).
THEOREM CertificatesAreBacked == Spec => []CertificatesBacked
BY PInvCertificates, PacemakerInvariant, PTL

\* A timeout certificate in a proposal is for a round in which two thirds have
\* timed out (OnReceiveTimeout, OnPropose).
THEOREM TimeoutCertificatesAreBacked == Spec => []TimeoutCertsBacked
BY PInvTimeoutCerts, PacemakerInvariant, PTL

\* Update commits a block only when its child is certified, and a restart
\* starts from such a block.
THEOREM CommittedHasChild == Spec => []CommittedHasCertifiedChild
BY PInvCommitted, PacemakerInvariant, PTL

\* The round of a proposal is above its parent's, and was reached by a timeout
\* certificate or by a certificate of the round before (OnReceiveVote,
\* OnReceiveTimeout, Regulate, CreateLeaf).
THEOREM RoundsAreJustified == Spec => []RoundsJustified
BY PInvRounds, PacemakerInvariant, PTL

\* A process makes one proposal per round (OnBeat, lastOnBeatRound).
THEOREM ProposesOncePerRound == Spec => []OneProposalPerRound
BY PInvMarks, PacemakerInvariant, PTL

\* QCHigh does not go back while the process runs (UpdateQCHigh).
THEOREM QCHighNeverGoesBack == Spec => QCHighMonotone
<1>1. PInv /\ [Next]_vars =>
        [\A n \in Committee : node'[n].inc = node[n].inc => HigherOrSame(node[n].qc, node'[n].qc)]_vars
  BY PInvNext DEF NothingGoesBack
<1> QED  BY <1>1, PacemakerInvariant, PTL DEF Spec, QCHighMonotone

\* What a member has committed stays committed (Update, OnCommit, CommitBlock), and
\* a restart starts from it.
THEOREM CommittedStays == Spec => CommitsOnlyExtend
<1>1. PInv /\ [Next]_vars => [\A n \in Committee : node[n].best \in Ancestors(node'[n].best)]_vars
  BY PInvNext DEF NothingGoesBack
<1> QED  BY <1>1, PacemakerInvariant, PTL DEF Spec, CommitsOnlyExtend

\* Certified blocks of two branches need a third of the committee to have voted for
\* two blocks of one height (the vote rule of OnReceiveProposal).
THEOREM ForksNeedDoubleVotes == Spec => []ForkNeedsDoubleVotes
BY PInvForks, PacemakerInvariant, PTL

\* Members commit blocks of two branches only if a third of the committee has voted
\* for two blocks of one height, below or at what they have committed.
THEOREM DisagreementNeedsDoubleVotes ==
    Spec => [](\A i, j \in Committee :
                  ~ SameBranch(node[i].best, node[j].best) =>
                      \E d \in Ancestors(node[i].best), e \in Ancestors(node[j].best) :
                          /\ d # e /\ Height(d) = Height(e)
                          /\ 3 * Cardinality(VotersFor(d) \cap VotersFor(e)) >= N)
<1>1. ASSUME PInv, NEW i \in Committee, NEW j \in Committee,
             ~ SameBranch(node[i].best, node[j].best)
      PROVE  \E d \in Ancestors(node[i].best), e \in Ancestors(node[j].best) :
                /\ d # e /\ Height(d) = Height(e)
                /\ 3 * Cardinality(VotersFor(d) \cap VotersFor(e)) >= N
  <2>1. /\ node[i].best \in Block /\ node[j].best \in Block /\ Backed(msgs)
        /\ CertifiedIn(msgs, node[i].best) /\ CertifiedIn(msgs, node[j].best)
    BY <1>1, BestCertified, Zenon DEF PInv
  <2>2. \E d \in Ancestors(node[i].best), e \in Ancestors(node[j].best) :
           /\ d # e /\ Height(d) = Height(e)
           /\ 3 * Cardinality(VotersIn(msgs, d) \cap VotersIn(msgs, e)) >= N
    BY <1>1, <2>1, ForkVoters, Zenon
  <2> QED  BY <2>2, VotersMeans, Zenon
<1>2. PInv => \A i, j \in Committee :
                 ~ SameBranch(node[i].best, node[j].best) =>
                     \E d \in Ancestors(node[i].best), e \in Ancestors(node[j].best) :
                         /\ d # e /\ Height(d) = Height(e)
                         /\ 3 * Cardinality(VotersFor(d) \cap VotersFor(e)) >= N
  BY <1>1, Zenon
<1> QED  BY <1>2, PacemakerInvariant, PTL

-----------------------------------------------------------------------------
(* As long as no timer has fired and no process was restarted               *)

Quiet == Timeouts = {} /\ restarts = 0

\* The height of a block is its round, or one more if rounds start at 0.
Offset == IF GenesisIsKBlock THEN 1 ELSE 0
OnTrack(b) == Height(b) = Round(b) + Offset

\* A beat is for the round after a certified block's.
BeatOnTrack(M, s) ==
    \A r \in s.beat :
        \E b \in Block : CertifiedIn(M, b) /\ Height(b) + 1 = r + Offset /\ Height(b) <= Height(s.qc)

QuietInv ==
    Quiet =>
        /\ \A p \in Proposals : OnTrack(p.block)
        /\ \A n \in Committee :
              (\A p \in node[n].cur : OnTrack(p.block)) /\ BeatOnTrack(msgs, node[n])

OneBranch == \A b, c \in VotedFor : Certified(b) /\ Certified(c) => SameBranch(b, c)

\* The genesis is the block without height.
LEMMA OnlyGenesisIsFlat == \A b \in Block : Height(b) = 0 <=> b = Genesis
BY EmptySeq DEF Height, Genesis, Block

\* A certified block is on track.
LEMMA CertifiedOnTrack ==
    ASSUME PInv, QuietInv, Quiet, NEW b \in Block, b # Genesis, CertifiedIn(msgs, b)
    PROVE  /\ \E p \in Proposals : p.block = b
           /\ OnTrack(b)
<1>1. PICK p \in msgs : p.type = "proposal" /\ p.block = b
  BY CertifiedProposed DEF PInv, ProposedIn
<1>2. p \in Proposals
  BY <1>1 DEF Proposals
<1> QED  BY <1>1, <1>2 DEF QuietInv

\* All marks are of first incarnations, and below the proposer's last beat.
LEMMA QuietMarks ==
    ASSUME PInv, Quiet, NEW p \in Proposals
    PROVE  /\ p.block \in Block /\ p.block # Genesis /\ OwnMark(p.block) \in Mark
           /\ OwnMark(p.block).inc = 0 /\ Round(p.block) = OwnMark(p.block).round
           /\ RoundProposer(Round(p.block)) \in Committee
           /\ Round(p.block) <= node[RoundProposer(Round(p.block))].beatRound
<1>1. p \in msgs /\ p.type = "proposal" /\ p \in ProposalMsg
  BY MessageKinds DEF Proposals, PInv, Backed
<1>2. p.block \in Block /\ p.block # Genesis
  BY <1>1 DEF ProposalMsg
<1>3. PICK k \in Mark : k = OwnMark(p.block)
  BY <1>2, BlockFacts
<1>4. k.round \in Nat /\ k.inc \in Nat /\ Round(p.block) = k.round
  BY <1>2, <1>3 DEF Mark, Round
<1>5. RoundProposer(k.round) \in Committee
  BY <1>4, CommitteeNotEmpty DEF RoundProposer, Committee
<1>6. PICK n \in Committee : n = RoundProposer(k.round)
  BY <1>5
<1>7. node[n].inc \in 0 .. MaxRestarts /\ node[n].inc <= 0
  BY DEF PInv, Node, Quiet
<1>8. Stamped(msgs, node[n], n)
  BY DEF PInv
<1>9. MarkBelow(k, node[n])
  BY <1>1, <1>3, <1>6, <1>8 DEF Stamped
<1>10. k.inc = 0 /\ k.round <= node[n].beatRound
  BY <1>4, <1>7, <1>9 DEF MarkBelow
<1> QED  BY <1>2, <1>3, <1>4, <1>5, <1>6, <1>10

\* So no two blocks of one height are proposed.
LEMMA QuietHeights ==
    ASSUME PInv, QuietInv, Quiet, NEW p \in Proposals, NEW q \in Proposals,
           Height(p.block) = Height(q.block)
    PROVE  p.block = q.block
<1>1. OnTrack(p.block) /\ OnTrack(q.block)
  BY DEF QuietInv
<1>2. /\ OwnMark(p.block) \in Mark /\ OwnMark(p.block).inc = 0 /\ Round(p.block) = OwnMark(p.block).round
      /\ OwnMark(q.block) \in Mark /\ OwnMark(q.block).inc = 0 /\ Round(q.block) = OwnMark(q.block).round
  BY QuietMarks
<1>3. Round(p.block) \in Nat /\ Round(q.block) \in Nat
  BY <1>2 DEF Mark
<1>4. PICK o \in Int : o = Offset
  BY DEF Offset
<1>5. Round(p.block) = Round(q.block)
  <2>1. Round(p.block) + o = Round(q.block) + o
    BY <1>1, <1>4, Zenon DEF OnTrack
  <2> QED  BY <1>3, <2>1
<1>6. OwnMark(p.block) = OwnMark(q.block)
  <2>1. \A k, j \in Mark : k.inc = j.inc /\ k.round = j.round => k = j
    BY DEF Mark
  <2>2. OwnMark(p.block).inc = OwnMark(q.block).inc /\ OwnMark(p.block).round = OwnMark(q.block).round
    BY <1>2, <1>5, Zenon
  <2> QED  BY <1>2, <2>1, <2>2, Zenon
<1>7. p = q
  BY <1>6 DEF PInv, Unique, Proposals
<1> QED  BY <1>7

\* Certified blocks are ancestors of one another.
LEMMA QuietBelow ==
    ASSUME PInv, QuietInv, Quiet, NEW b \in Block, NEW c \in Block,
           CertifiedIn(msgs, b), CertifiedIn(msgs, c), Height(b) <= Height(c)
    PROVE  b \in Ancestors(c)
<1>1. Height(b) \in Nat /\ Height(c) \in Nat /\ Height(b) \in 0 .. Height(c) /\ Backed(msgs)
  BY BlockFacts DEF PInv
<1>2. PICK e : e = SubSeq(c, 1, Height(b))
  BY Zenon
<1>3. e \in Ancestors(c) /\ e \in Block /\ Height(e) = Height(b)
  BY <1>1, <1>2, AncestorFacts, Zenon
<1>4. CertifiedIn(msgs, e)
  BY <1>1, <1>3, AncestorsCertified, Zenon
<1>5. CASE b = Genesis
  <2>1. e = Genesis
    BY <1>3, <1>5, OnlyGenesisIsFlat, Zenon
  <2> QED  BY <1>3, <1>5, <2>1, Zenon
<1>6. CASE b # Genesis
  <2>1. e # Genesis
    BY <1>3, <1>6, OnlyGenesisIsFlat, Zenon
  <2>2. PICK p \in Proposals : p.block = b
    BY <1>6, CertifiedOnTrack, Zenon
  <2>3. PICK q \in Proposals : q.block = e
    BY <1>3, <1>4, <2>1, CertifiedOnTrack, Zenon
  <2>4. p.block = q.block
    BY <1>3, <2>2, <2>3, QuietHeights, Zenon
  <2> QED  BY <1>3, <2>2, <2>3, <2>4, Zenon
<1> QED  BY <1>5, <1>6, Zenon

\* What the invariant says.
LEMMA QuietMeans == PInv /\ QuietInv => (Quiet => OneBranch /\ Agreement)
<1> SUFFICES ASSUME PInv, QuietInv, Quiet  PROVE OneBranch /\ Agreement
  BY Zenon
<1>1. ASSUME NEW b \in Block, NEW c \in Block, CertifiedIn(msgs, b), CertifiedIn(msgs, c)
      PROVE  SameBranch(b, c)
  <2>1. Height(b) <= Height(c) \/ Height(c) <= Height(b)
    BY BlockFacts
  <2> QED  BY <1>1, <2>1, QuietBelow, Zenon DEF SameBranch
<1>2. OneBranch
  <2>1. \A b \in VotedFor : b \in Block
    BY VotedForTypes
  <2> QED  BY <1>1, <2>1, CertifiedMeans, Zenon DEF OneBranch
<1>3. \A i \in Committee : node[i].best \in Block /\ CertifiedIn(msgs, node[i].best)
  BY BestCertified
<1>4. Agreement
  BY <1>1, <1>3, Zenon DEF Agreement
<1> QED  BY <1>2, <1>4

\* Rounds start where the invariant has them.
LEMMA QuietInit == ASSUME Init PROVE QuietInv
<1>1. Proposals = {}
  BY DEF Init, Proposals
<1>2. ASSUME NEW n \in Committee
      PROVE  node[n].cur = {} /\ BeatOnTrack(msgs, node[n])
  <2>1. PICK start : start = IF IsKBlock(Genesis) THEN 0 ELSE Round(Genesis) + 1
    OBVIOUS
  <2>2. 1 = start + Offset
    BY <2>1 DEF IsKBlock, Round, Offset, GenesisIsKBlock
  <2>3. node[n].cur = {} /\ node[n].beat = {start} /\ node[n].qc = Genesis
    BY <2>1 DEF Init, Regulate
  <2>4. Genesis \in Block /\ Height(Genesis) = 0 /\ CertifiedIn(msgs, Genesis)
    BY DEF Genesis, Block, Height, CertifiedIn
  <2> QED  BY <2>2, <2>3, <2>4 DEF BeatOnTrack
<1> QED  BY <1>1, <1>2 DEF QuietInv

\* A step of one member that sends no more than the proposal it has, and whose
\* proposal and beat are on track.
LEMMA QuietStep ==
    ASSUME PInv, Quiet, QuietInv, NothingGoesBack, NEW n \in Committee, NEW t,
           node' = [node EXCEPT ![n] = t], msgs \subseteq msgs', setup' = setup,
           t.inc = node[n].inc,
           \A p \in msgs' : p.type = "proposal" => p \in msgs \cup node[n].cur,
           t.cur = node[n].cur \/ \A p \in t.cur : OnTrack(p.block),
           t.beat \subseteq node[n].beat \/ BeatOnTrack(msgs', t),
           t.qc \in Block
    PROVE  QuietInv'
<1>1. node'[n] = t /\ \A i \in Committee \ {n} : node'[i] = node[i]
  BY DEF PInv
<1>2. /\ \A p \in Proposals : OnTrack(p.block)
      /\ \A i \in Committee : (\A p \in node[i].cur : OnTrack(p.block)) /\ BeatOnTrack(msgs, node[i])
  BY Zenon DEF QuietInv
<1>3. Offset' = Offset
  BY DEF Offset, GenesisIsKBlock
<1>4. \A b : OnTrack(b)' <=> OnTrack(b)
  BY <1>3 DEF OnTrack
<1>5. \A p \in Proposals' : OnTrack(p.block)
  BY <1>2, Zenon DEF Proposals
<1>6. ASSUME NEW i \in Committee
      PROVE  (\A p \in node'[i].cur : OnTrack(p.block)) /\ BeatOnTrack(msgs', node'[i])
  <2>1. \A p \in node'[i].cur : OnTrack(p.block)
    BY <1>1, <1>2, Zenon
  <2>2. \A b : CertifiedIn(msgs, b) => CertifiedIn(msgs', b)
    BY CertifiedGrows, Zenon
  <2>3. CASE i # n
    <3>1. BeatOnTrack(msgs, node[i]) /\ node'[i] = node[i]
      BY <1>1, <1>2, <2>3
    <3> QED  BY <2>1, <2>2, <3>1, Zenon DEF BeatOnTrack
  <2>4. CASE i = n /\ t.beat \subseteq node[n].beat
    <3>1. BeatOnTrack(msgs, node[n])
      BY <1>2
    <3>2. node[n].qc \in Block /\ HigherOrSame(node[n].qc, t.qc)
      BY <1>1 DEF PInv, Node, NothingGoesBack
    <3>3. Height(node[n].qc) \in Nat /\ Height(t.qc) \in Nat
      BY <3>2, BlockFacts
    <3>4. Height(node[n].qc) <= Height(t.qc)
      BY <3>2, <3>3 DEF HigherOrSame
    <3>5. \A b \in Block : Height(b) <= Height(node[n].qc) => Height(b) <= Height(t.qc)
      BY <3>3, <3>4, BlockFacts
    <3>6. BeatOnTrack(msgs', t)
      BY <2>2, <2>4, <3>1, <3>5, Zenon DEF BeatOnTrack
    <3> QED  BY <1>1, <2>1, <2>4, <3>6, Zenon
  <2>5. CASE i = n /\ BeatOnTrack(msgs', t)
    BY <1>1, <2>1, <2>5, Zenon
  <2> QED  BY <2>3, <2>4, <2>5, Zenon
<1> QED  BY <1>3, <1>4, <1>5, <1>6, Zenon DEF QuietInv, BeatOnTrack


\* A proposal on QCHigh is on track: the beat is not for a round above the next one,
\* and CreateLeaf refuses a round that QCHigh has reached.
LEMMA QuietProposal ==
    ASSUME PInv, Quiet, QuietInv, NEW n \in Committee, NEW r \in node[n].beat,
           ~ (r <= node[n].beatRound), n = RoundProposer(r),
           r # 0 => r > Round(node[n].qc)
    PROVE  Height(node[n].qc) + 1 = r + Offset
<1>1. PICK q \in Block : q = node[n].qc /\ CertifiedIn(msgs, q)
  BY DEF PInv, Node, NodeBacked
<1>2. PICK b \in Block : Height(b) + 1 = r + Offset /\ Height(b) <= Height(q)
  BY <1>1, Zenon DEF QuietInv, BeatOnTrack
<1>3. PICK o \in Int : o = Offset /\ o \in {0, 1}
  BY DEF Offset
<1>4. r \in Nat /\ Height(b) \in Nat /\ Height(q) \in Nat /\ Round(q) \in Nat
  BY <1>1, BlockFacts DEF PInv, Node, Rounds
<1>5. CASE q = Genesis
  <2>1. Height(q) = 0
    BY <1>5, OnlyGenesisIsFlat
  <2> QED  BY <1>1, <1>2, <1>4, <2>1
<1>6. CASE q # Genesis /\ r # 0
  <2>1. Height(q) = Round(q) + o
    BY <1>1, <1>3, <1>6, CertifiedOnTrack DEF OnTrack
  <2>2. r > Round(q)
    BY <1>1, <1>6
  <2>3. Height(q) + 1 = r + o
    BY <1>2, <1>3, <1>4, <2>1, <2>2
  <2> QED  BY <1>1, <1>3, <2>3
<1>7. CASE q # Genesis /\ r = 0
  <2>1. o = 1 /\ Height(q) # 0
    <3>1. Height(q) # 0
      BY <1>7, OnlyGenesisIsFlat
    <3>2. Height(b) + 1 = r + o
      BY <1>2, <1>3
    <3> QED  BY <1>3, <1>4, <1>7, <3>1, <3>2
  <2>2. 1 \in 0 .. Height(q)
    BY <1>4, <2>1
  <2>3. PICK a \in Ancestors(q) : a \in Block /\ Height(a) = 1
    BY <2>2, AncestorFacts, Zenon
  <2>4. CertifiedIn(msgs, a) /\ a # Genesis
    <3>1. Backed(msgs) /\ 1 # 0
      BY DEF PInv
    <3> QED  BY <1>1, <2>3, <3>1, AncestorsCertified, OnlyGenesisIsFlat, Zenon
  <2>5. PICK p \in Proposals : p.block = a
    BY <2>3, <2>4, CertifiedOnTrack, Zenon
  <2>6. Round(a) = 0
    <3>1. Height(a) = Round(a) + o
      BY <1>3, <2>3, <2>4, CertifiedOnTrack, Zenon DEF OnTrack
    <3>2. Round(a) \in Nat
      BY <2>3, BlockFacts, Zenon
    <3> QED  BY <2>1, <2>3, <3>1, <3>2
  <2>7. Round(a) <= node[RoundProposer(Round(a))].beatRound
    BY <2>5, QuietMarks, Zenon
  <2> QED  BY <1>7, <2>6, <2>7
<1> QED  BY <1>5, <1>6, <1>7

\* OnBeat makes no proposal, or one on track.
LEMMA QuietBeat ==
    ASSUME PInv, Quiet, QuietInv, NothingGoesBack, NEW n \in Committee, OnBeat(n), setup' = setup
    PROVE  QuietInv'
<1>1. PICK x \in Node : x = node[n]
  BY DEF PInv
<1>2. PICK s : s = [x EXCEPT !.beat = {}]
  BY Zenon
<1>3. s \in Node /\ s.beat = {} /\ s.cur = x.cur /\ s.inc = x.inc /\ s.qc = x.qc /\ s.beatRound = x.beatRound
  <2>1. s \in Node
    BY <1>2, Zenon DEF Node
  <2> QED  BY <1>2, <2>1, Zenon DEF Node
<1>4. PICK r \in x.beat :
        /\ node' = [node EXCEPT ![n] =
                       IF r <= s.beatRound \/ n # RoundProposer(r) THEN s
                       ELSE IF CanPropose([s EXCEPT !.beatRound = r], r)
                            THEN Propose([s EXCEPT !.beatRound = r], r)
                            ELSE [s EXCEPT !.beatRound = r]]
        /\ msgs' = msgs /\ r <= MaxRound
  BY <1>1, <1>2, Zenon DEF OnBeat, Set
<1>5. r \in Nat /\ r \in 0 .. MaxRound /\ x.qc \in Block /\ s.inc \in 0 .. MaxRestarts
  BY <1>3, <1>4, PacemakerBounds DEF Node, Rounds
<1>6. PICK t : t = [s EXCEPT !.beatRound = r]
  BY Zenon
<1>7. t.beat = {} /\ t.cur = s.cur /\ t.inc = s.inc /\ t.qc = s.qc
  BY <1>3, <1>6 DEF Node
<1>8. msgs \subseteq msgs' /\ \A p \in msgs' : p.type = "proposal" => p \in msgs \cup node[n].cur
  BY <1>4
<1>9. ASSUME NEW u, node' = [node EXCEPT ![n] = u], u.beat = {}, u.inc = x.inc, u.qc = x.qc,
             u.cur = x.cur \/ \A p \in u.cur : OnTrack(p.block)
      PROVE  QuietInv'
  <2>1. u.beat \subseteq node[n].beat /\ u.qc \in Block /\ u.inc = node[n].inc
    BY <1>1, <1>5, <1>9
  <2>2. u.cur = node[n].cur \/ \A p \in u.cur : OnTrack(p.block)
    BY <1>1, <1>9, Zenon
  <2> QED  BY <1>8, <1>9, <2>1, <2>2, QuietStep, Zenon
<1>10. CASE r <= s.beatRound \/ n # RoundProposer(r)
  <2>1. node' = [node EXCEPT ![n] = s]
    BY <1>4, <1>10, Zenon
  <2> QED  BY <1>3, <1>9, <2>1, Zenon
<1>11. CASE ~ (r <= s.beatRound \/ n # RoundProposer(r)) /\ ~ CanPropose(t, r)
  <2>1. node' = [node EXCEPT ![n] = t]
    BY <1>4, <1>6, <1>11, Zenon
  <2> QED  BY <1>3, <1>7, <1>9, <2>1, Zenon
<1>12. CASE ~ (r <= s.beatRound \/ n # RoundProposer(r)) /\ CanPropose(t, r)
  <2>1. PICK u : u = Propose(t, r)
    OBVIOUS
  <2>2. node' = [node EXCEPT ![n] = u]
    BY <1>4, <1>6, <1>12, <2>1, Zenon
  <2>3. PICK k \in Mark : k = [round |-> r, inc |-> t.inc]
    BY <1>5, <1>7, Zenon DEF Mark
  <2>4. PICK b : b = Append(x.qc, k)
    BY Zenon
  <2>5. b \in Block \ {Genesis} /\ OwnMark(b) = k /\ Height(b) = Height(x.qc) + 1
    <3>1. b \in Block \ {Genesis} /\ OwnMark(b) = k
      BY <1>5, <2>4, AppendFacts, Zenon
    <3>2. Height(b) = Height(x.qc) + 1
      BY <1>5, <2>4 DEF Height, Block
    <3> QED  BY <3>1, <3>2
  <2>6. Round(b) = r
    BY <2>3, <2>5 DEF Round
  <2>7. Height(x.qc) + 1 = r + Offset
    <3>1. r # 0 => r > Round(x.qc)
      BY <1>3, <1>7, <1>12 DEF CanPropose
    <3>2. ~ (r <= node[n].beatRound) /\ n = RoundProposer(r)
      BY <1>1, <1>3, <1>12
    <3> QED  BY <1>1, <1>4, <3>1, <3>2, QuietProposal, Zenon
  <2>8. OnTrack(b)
    BY <2>5, <2>6, <2>7, Zenon DEF OnTrack
  <2>9. u = [t EXCEPT !.drafts = @ \cup {b}, !.hollow = IF t.qcNode THEN @ ELSE @ \cup {b},
                      !.cur = {Proposal(b, t.tc)}, !.sending = TRUE, !.tc = {}]
    BY <1>3, <1>7, <2>1, <2>3, <2>4, Zenon DEF Propose
  <2>10. t \in Node
    BY <1>3, <1>5, <1>6, PacemakerBounds, Zenon DEF Node, Rounds
  <2>11. u.beat = {} /\ u.inc = x.inc /\ u.qc = x.qc /\ u.cur = {Proposal(b, t.tc)}
    BY <1>3, <1>7, <2>9, <2>10 DEF Node
  <2>12. \A p \in u.cur : OnTrack(p.block)
    <3>1. Proposal(b, t.tc).block = b
      BY DEF Proposal
    <3> QED  BY <2>8, <2>11, <3>1
  <2> QED  BY <1>9, <2>2, <2>11, <2>12, Zenon
<1> QED  BY <1>10, <1>11, <1>12, Zenon


\* The same for a handler that makes no proposal and keeps the beat.
LEMMA QuietHandler ==
    ASSUME PInv, Quiet, QuietInv, NothingGoesBack, NEW n \in Committee, NEW t \in Node,
           node' = [node EXCEPT ![n] = t], setup' = setup,
           t.inc = node[n].inc, t.cur = node[n].cur, t.beat = node[n].beat,
           msgs \subseteq msgs',
           \A p \in msgs' : p.type = "proposal" => p \in msgs \cup node[n].cur
    PROVE  QuietInv'
<1>1. t.qc \in Block /\ t.beat \subseteq node[n].beat
  BY DEF Node
<1> QED  BY <1>1, QuietStep, Zenon

\* OnReceiveProposal keeps the proposal and the beat of the member.
LEMMA QuietReceiveProposal ==
    ASSUME PInv, Quiet, QuietInv, NothingGoesBack, NEW n \in Committee, NEW m \in msgs,
           OnReceiveProposal(n, m), setup' = setup
    PROVE  QuietInv'
<1>1. PICK s \in Node : s = node[n]
  BY DEF PInv
<1>2. m \in ProposalMsg
  BY MessageKinds DEF PInv, Backed, OnReceiveProposal, AcceptsProposal, Receives
<1>3. PICK b \in Block \ {Genesis} : b = m.block
  BY <1>2 DEF ProposalMsg
<1>4. PICK t : t = [s EXCEPT !.drafts = @ \cup {b}]
  BY Zenon
<1>5. t \in Node
  BY <1>4, Zenon DEF Node
<1>6. t.inc = s.inc /\ t.cur = s.cur /\ t.beat = s.beat
  BY <1>4 DEF Node
<1>7. PICK u : u = Update(t, Parent(b))
  OBVIOUS
<1>8. Parent(b) \in Block /\ Height(b) \in Nat /\ Round(b) + 1 \in Rounds
  BY <1>3, BlockFacts
<1>9. u \in Node /\ u.inc = s.inc /\ u.cur = s.cur /\ u.beat = s.beat
  <2>1. u \in Node /\ SameCore(t, u) /\ u.beat = t.beat
    BY <1>5, <1>7, <1>8, UpdateFacts, Zenon
  <2> QED  BY <1>6, <2>1 DEF SameCore
<1>10. PICK v : v = [u EXCEPT !.lastVote = b, !.height = Height(b)]
  OBVIOUS
<1>11. v \in Node
  BY <1>8, <1>9, <1>10, Zenon DEF Node
<1>12. v.inc = s.inc /\ v.cur = s.cur /\ v.beat = s.beat
  BY <1>9, <1>10 DEF Node
<1>13. PICK w : w = enterRound(v, Round(b) + 1)
  OBVIOUS
<1>14. w \in Node /\ w.inc = s.inc /\ w.cur = s.cur /\ w.beat = s.beat
  <2>1. w \in Node /\ SameCore(v, w) /\ w.beat = v.beat
    BY <1>8, <1>11, <1>13, RoundFacts, Zenon
  <2> QED  BY <1>12, <2>1 DEF SameCore
<1>15. PICK x \in {t, u, w} : node' = [node EXCEPT ![n] = x]
  BY <1>1, <1>3, <1>4, <1>7, <1>10, <1>13 DEF OnReceiveProposal, Set
<1>16. x \in Node /\ x.inc = node[n].inc /\ x.cur = node[n].cur /\ x.beat = node[n].beat
  BY <1>1, <1>5, <1>6, <1>9, <1>14, <1>15, Zenon
<1>17. Vote(n, b).type = "vote"
  BY DEF Vote
<1>18. msgs' = msgs \/ msgs' = msgs \cup {Vote(n, b)}
  <2>1. msgs' = msgs \cup {} \/ msgs' = msgs \cup {Vote(n, b)}
    BY <1>3, Zenon DEF OnReceiveProposal, Broadcast
  <2> QED  BY <2>1
<1>19. msgs \subseteq msgs' /\ \A p \in msgs' : p.type = "proposal" => p \in msgs \cup node[n].cur
  BY <1>17, <1>18
<1> QED  BY <1>15, <1>16, <1>19, QuietHandler, Zenon

\* OnReceiveVote may schedule a beat, for the round after the block's it certifies.
LEMMA QuietReceiveVote ==
    ASSUME PInv, Quiet, QuietInv, NothingGoesBack, NEW n \in Committee, NEW m \in msgs,
           OnReceiveVote(n, m), setup' = setup
    PROVE  QuietInv'
<1>1. PICK s \in Node : s = node[n]
  BY DEF PInv
<1>2. m \in VoteMsg /\ m = Vote(m.from, m.block) /\ MsgBacked(msgs, m) /\ m.type = "vote"
  BY MessageKinds DEF PInv, Backed, OnReceiveVote, AcceptsVote, Receives
<1>3. PICK b \in Block, i \in Committee : b = m.block /\ i = m.from
  BY <1>2 DEF VoteMsg
<1>4. Vote(i, b) \in msgs /\ NodeBacked(msgs, s, n) /\ Round(b) \in Nat /\ Round(b) + 1 \in Rounds
      /\ Height(b) \in Nat
  BY <1>1, <1>2, <1>3, BlockFacts DEF PInv
<1>5. OnTrack(b)
  <2>1. PICK p \in Proposals : p.block = b
    BY <1>2, <1>3 DEF MsgBacked, ProposedIn, Proposals
  <2> QED  BY <2>1, Zenon DEF QuietInv
<1>6. PICK t : t = [s EXCEPT !.qcVotes = AddVote(@, b, i)]
  BY Zenon
<1>7. t \in Node /\ t.inc = s.inc /\ t.cur = s.cur /\ t.beat = s.beat
  <2>1. t \in Node /\ t.inc = s.inc /\ t.cur = s.cur
    BY <1>4, <1>6, VoteAdvances DEF Advances
  <2>2. t.beat = s.beat
    BY <1>6 DEF Node
  <2> QED  BY <2>1, <2>2
<1>8. PICK u : u = UpdateQCHigh(t, b, TRUE)
  BY Zenon
<1>9. u \in Node /\ u.inc = s.inc /\ u.cur = s.cur /\ u.beat = s.beat /\ u.qc \in {t.qc, b}
  <2>1. u \in Node /\ SameCore(t, u) /\ u.beat = t.beat /\ u.qc \in {t.qc, b}
    BY <1>7, <1>8, UpdateQCHighFacts, Zenon
  <2> QED  BY <1>7, <2>1 DEF SameCore
<1>10. PICK v : v = scheduleOnBeat(u, Round(b) + 1)
  OBVIOUS
<1>11. v \in Node /\ v.inc = s.inc /\ v.cur = s.cur /\ v.beat = {Round(b) + 1} /\ v.qc = u.qc
  <2>1. v \in Node /\ SameCore(u, v) /\ v.beat = {Round(b) + 1} /\ v.qc = u.qc
    BY <1>4, <1>9, <1>10, RoundFacts, Zenon
  <2> QED  BY <1>9, <2>1 DEF SameCore
<1>12. PICK w : w = enterRound(v, Round(b) + 1)
  OBVIOUS
<1>13. w \in Node /\ w.inc = s.inc /\ w.cur = s.cur /\ w.beat = {Round(b) + 1} /\ w.qc = u.qc
  <2>1. w \in Node /\ SameCore(v, w) /\ w.beat = v.beat /\ w.qc = v.qc
    BY <1>4, <1>11, <1>12, RoundFacts, Zenon
  <2> QED  BY <1>11, <2>1 DEF SameCore
<1>14. /\ node' = [node EXCEPT ![n] = IF ~ Certifies(s.qcVotes, b, i) THEN t
                                      ELSE IF u.qc = t.qc THEN u ELSE w]
       /\ msgs' = msgs
  BY <1>1, <1>3, <1>6, <1>8, <1>10, <1>12 DEF OnReceiveVote, Set
<1>15. msgs \subseteq msgs' /\ \A p \in msgs' : p.type = "proposal" => p \in msgs \cup node[n].cur
  BY <1>14
<1>16. CASE ~ Certifies(s.qcVotes, b, i) \/ u.qc = t.qc
  <2>1. PICK x \in {t, u} : node' = [node EXCEPT ![n] = x]
    BY <1>14, <1>16, Zenon
  <2>2. x \in Node /\ x.inc = node[n].inc /\ x.cur = node[n].cur /\ x.beat = node[n].beat
    BY <1>1, <1>7, <1>9, <2>1, Zenon
  <2> QED  BY <1>15, <2>1, <2>2, QuietHandler, Zenon
<1>17. CASE Certifies(s.qcVotes, b, i) /\ u.qc # t.qc
  <2>1. node' = [node EXCEPT ![n] = w]
    BY <1>14, <1>17
  <2>2. CertifiedIn(msgs, b) /\ w.qc = b
    BY <1>4, <1>9, <1>13, <1>17, VoteAdvances, Zenon
  <2>3. Height(b) + 1 = (Round(b) + 1) + Offset /\ Height(b) <= Height(w.qc)
    <3>1. PICK o \in Int : o = Offset
      BY DEF Offset
    <3>2. Height(b) = Round(b) + o
      BY <1>5, <3>1 DEF OnTrack
    <3>3. Height(b) + 1 = (Round(b) + 1) + o
      BY <1>4, <3>1, <3>2
    <3>4. Height(b) <= Height(b)
      BY <1>4
    <3> QED  BY <2>2, <3>1, <3>3, <3>4
  <2>4. BeatOnTrack(msgs', w)
    <3>1. \A r \in w.beat : r = Round(b) + 1
      BY <1>13
    <3> QED  BY <1>14, <2>2, <2>3, <3>1, Zenon DEF BeatOnTrack
  <2>5. w.qc \in Block /\ w.inc = node[n].inc /\ w.cur = node[n].cur
    BY <1>1, <1>13, <2>2
  <2> QED  BY <1>15, <2>1, <2>4, <2>5, QuietStep, Zenon
<1> QED  BY <1>16, <1>17, Zenon

\* A step that is still quiet started from a quiet state.
LEMMA QuietBefore ==
    ASSUME PInv, Next, Quiet'
    PROVE  Quiet /\ restarts' = restarts /\ setup' = setup
<1>1. PICK n \in Committee :
        Receive(n) \/ OnBeat(n) \/ OnBroadcastProposal(n) \/ TimerFires(n)
        \/ OnRoundTimeout(n) \/ Restart(n)
  BY DEF Next
<1>2. msgs \subseteq msgs' /\ (restarts' = restarts \/ restarts' = restarts + 1)
  <2>1. CASE Receive(n)
    <3>1. PICK m \in msgs :
            ProposalTooEarly(n, m) \/ OnReceiveProposal(n, m) \/ OnReceiveVote(n, m)
            \/ OnReceiveTimeout(n, m) \/ OnReceiveQuery(n, m)
      BY <2>1 DEF Receive
    <3>2. restarts' = restarts /\ (msgs' = msgs \/ \E A : msgs' = msgs \cup A)
      BY <3>1, Zenon DEF ProposalTooEarly, OnReceiveProposal, OnReceiveVote, OnReceiveTimeout,
                  OnReceiveQuery, Broadcast
    <3> QED  BY <3>2
  <2>2. CASE OnBeat(n) \/ OnBroadcastProposal(n) \/ TimerFires(n) \/ OnRoundTimeout(n) \/ Restart(n)
    <3>1. msgs' = msgs \/ \E A : msgs' = msgs \cup A
      BY <2>2, Zenon DEF OnBeat, OnBroadcastProposal, TimerFires, OnRoundTimeout, Restart, Broadcast
    <3>2. restarts' = restarts \/ restarts' = restarts + 1
      BY <2>2, Zenon DEF OnBeat, OnBroadcastProposal, TimerFires, OnRoundTimeout, Restart
    <3> QED  BY <3>1, <3>2
  <2> QED  BY <1>1, <2>1, <2>2, Zenon
<1>3. Timeouts = {}
  BY <1>2 DEF Quiet, Timeouts
<1>4. restarts \in Nat /\ restarts' = 0
  BY PacemakerBounds DEF PInv, Quiet
<1>5. restarts = 0 /\ restarts' = restarts
  BY <1>2, <1>4
<1> QED  BY <1>3, <1>5 DEF Quiet, Next

\* Every quiet step keeps proposals and beats on track.
LEMMA QuietNext ==
    ASSUME PInv, QuietInv, [Next]_vars
    PROVE  QuietInv'
<1>1. CASE UNCHANGED vars
  BY <1>1 DEF vars, QuietInv, Quiet, Timeouts, Proposals, OnTrack, Offset, GenesisIsKBlock,
              BeatOnTrack, CertifiedIn, VotersIn
<1>2. CASE ~ Quiet'
  BY <1>2 DEF QuietInv
<1>3. CASE Next /\ Quiet'
  <2>1. Quiet /\ restarts' = restarts /\ setup' = setup /\ NothingGoesBack
    BY <1>3, QuietBefore, PInvNext
  <2>2. PICK n \in Committee :
          Receive(n) \/ OnBeat(n) \/ OnBroadcastProposal(n) \/ TimerFires(n)
          \/ OnRoundTimeout(n) \/ Restart(n)
    BY <1>3 DEF Next
  <2>3. PICK s \in Node : s = node[n]
    BY DEF PInv
  <2>4. CASE Receive(n)
    <3>1. PICK m \in msgs :
            ProposalTooEarly(n, m) \/ OnReceiveProposal(n, m) \/ OnReceiveVote(n, m)
            \/ OnReceiveTimeout(n, m) \/ OnReceiveQuery(n, m)
      BY <2>4 DEF Receive
    <3>2. CASE ProposalTooEarly(n, m) \/ OnReceiveQuery(n, m)
      <4>1. node' = node
        BY <3>2, Zenon DEF ProposalTooEarly, OnReceiveQuery
      <4>2. node' = [node EXCEPT ![n] = s]
        BY <2>3, <4>1 DEF PInv
      <4>3. Query(n, node[n].best).type = "query"
        BY DEF Query
      <4>4. msgs \subseteq msgs' /\ \A p \in msgs' : p.type = "proposal" => p \in msgs \cup node[n].cur
        BY <3>2, <4>3 DEF ProposalTooEarly, OnReceiveQuery, Broadcast
      <4> QED  BY <2>1, <2>3, <4>2, <4>4, QuietHandler, Zenon
    <3>3. ~ OnReceiveTimeout(n, m)
      BY <2>1 DEF Quiet, Timeouts, OnReceiveTimeout, AcceptsTimeout, Receives
    <3> QED  BY <2>1, <3>1, <3>2, <3>3, QuietReceiveProposal, QuietReceiveVote, Zenon
  <2>5. CASE OnBroadcastProposal(n)
    <3>1. PICK t : t = [s EXCEPT !.sending = FALSE]
      BY Zenon
    <3>2. t \in Node
      BY <3>1, Zenon DEF Node
    <3>3. t.inc = s.inc /\ t.cur = s.cur /\ t.beat = s.beat
      BY <3>1 DEF Node
    <3>4. node' = [node EXCEPT ![n] = t] /\ msgs' = msgs \cup node[n].cur
      BY <2>3, <2>5, <3>1 DEF OnBroadcastProposal, Set, Broadcast
    <3>5. msgs \subseteq msgs' /\ \A p \in msgs' : p.type = "proposal" => p \in msgs \cup node[n].cur
      BY <3>4
    <3> QED  BY <2>1, <2>3, <3>2, <3>3, <3>4, <3>5, QuietHandler, Zenon
  <2>6. CASE TimerFires(n)
    <3>1. PICK r \in s.timer : /\ node' = [node EXCEPT ![n] = [s EXCEPT !.timer = {}, !.expired = Append(@, r)]]
                               /\ msgs' = msgs /\ r <= MaxRound
      BY <2>3, <2>6, Zenon DEF TimerFires, Set
    <3>2. PICK t : t = [s EXCEPT !.timer = {}, !.expired = Append(@, r)]
      OBVIOUS
    <3>3. r \in Served /\ s.expired \in Seq(Served)
      BY <3>1 DEF Node, Served, Rounds
    <3>4. Append(s.expired, r) \in Seq(Served)
      BY <3>3
    <3>5. t \in Node
      BY <3>2, <3>4, Zenon DEF Node
    <3>6. t.inc = s.inc /\ t.cur = s.cur /\ t.beat = s.beat
      BY <3>2 DEF Node
    <3>7. node' = [node EXCEPT ![n] = t]
      BY <3>1, <3>2
    <3>8. msgs \subseteq msgs' /\ \A p \in msgs' : p.type = "proposal" => p \in msgs \cup node[n].cur
      BY <3>1
    <3> QED  BY <2>1, <2>3, <3>5, <3>6, <3>7, <3>8, QuietHandler, Zenon
  <2>7. CASE OnRoundTimeout(n)
    <3>1. PICK a : a = Timeout(n, Head(node[n].expired), node[n].qc, node[n].lastVote)
      OBVIOUS
    <3>2. a.type = "timeout" /\ a \in msgs'
      BY <2>7, <3>1 DEF OnRoundTimeout, Broadcast, Timeout
    <3> QED  BY <1>3, <3>2 DEF Quiet, Timeouts
  <2>8. CASE Restart(n)
    <3>1. restarts' = restarts + 1 /\ restarts \in Nat
      BY <2>8, PacemakerBounds DEF Restart, PInv
    <3> QED  BY <2>1, <3>1
  <2> QED  BY <2>1, <2>2, <2>4, <2>5, <2>6, <2>7, <2>8, QuietBeat, Zenon
<1> QED  BY <1>1, <1>2, <1>3, Zenon

\* As long as no round has timed out and no process was restarted, certified blocks
\* form one chain and members commit blocks of it, whatever the order of delivery:
\* a fork needs the timeout path of OnRoundTimeout or a restart.
THEOREM QuietAgreement == Spec => [](Quiet => OneBranch /\ Agreement)
<1>1. Init => QuietInv
  BY QuietInit
<1>2. PInv /\ QuietInv /\ [Next]_vars => QuietInv'
  BY QuietNext
<1> QED  BY <1>1, <1>2, PacemakerInvariant, QuietMeans, PTL DEF Spec
=============================================================================
