------------------------ MODULE IncomingQueueProofs -------------------------
(***************************************************************************)
(* The incoming queue for any number of goroutines and messages, and any   *)
(* capacity: the sender finds room, only a main loop that empties the      *)
(* whole queue makes an adder wait, what the main loop sees for the first  *)
(* time it sees in the order of acceptance, a message is accepted again    *)
(* only after as many others as the cache of hashes holds, and what is     *)
(* accepted has passed the checks of AddIncoming.                          *)
(***************************************************************************)
EXTENDS IncomingQueue, FiniteSetTheorems, SequenceTheorems, TLAPS

\* At most one goroutine holds the mutex of the queue.
Exclusive == \A c, d \in Holders : c = d

\* While an adder is between its test and the receive, the channel holds
\* exactly what the main loop has left of a full queue.
DropAccount == \A c \in Copy : at[c] = "drop" => Len(queue) + taken = QueueCap

QueueInv == TypeOK /\ Exclusive /\ SendHasRoom /\ DropAccount

-----------------------------------------------------------------------------
\* What Append and Tail do to types and lengths.
LEMMA SeqFacts ==
    ASSUME NEW S, NEW s \in Seq(S), NEW e \in S
    PROVE  /\ Append(s, e) \in Seq(S) /\ Len(Append(s, e)) = Len(s) + 1
           /\ s # << >> => /\ Head(s) \in S
                           /\ Tail(s) \in Seq(S) /\ Len(Tail(s)) = Len(s) - 1
           /\ Len(s) \in Nat
OBVIOUS

\* The cache of hashes stays within its size.
LEMMA RememberBound ==
    ASSUME TypeOK, NEW m \in Msgs
    PROVE  Remember(m) \in Seq(Msgs) /\ Len(Remember(m)) <= CacheSize
<1> DEFINE s == Append(cache, m)
<1>1. s \in Seq(Msgs) /\ Len(s) = Len(cache) + 1 /\ Len(cache) \in Nat
  BY SeqFacts DEF TypeOK
<1>2. Tail(s) \in Seq(Msgs) /\ Len(Tail(s)) = Len(s) - 1
  <2>1. s # << >>
    BY <1>1
  <2> QED  BY <2>1, <1>1, SeqFacts
<1> QED  BY <1>1, <1>2, QueueConstants DEF TypeOK, Remember

\* A step that moves one copy between places outside the critical section,
\* and leaves the channel alone, keeps the invariant.
LEMMA OutsideKeeps ==
    ASSUME QueueInv, NEW c \in Copy, NEW place \in Places \ {"drop", "send"},
           Goto(c, place), sub' \in SUBSET Copy,
           UNCHANGED <<queue, cache, epoch, delays, accepted, first, taken>>
    PROVE  QueueInv'
BY DEF QueueInv, TypeOK, Exclusive, SendHasRoom, DropAccount, Holders, Goto

\* The adder that takes the free mutex tests the length of the channel.
LEMMA TestLenKeeps ==
    ASSUME QueueInv, NEW c \in Copy, MutexFree, TestLen(c), queue' = queue
    PROVE  /\ at' \in [Copy -> Places] /\ taken' \in Nat
           /\ Exclusive' /\ SendHasRoom' /\ DropAccount'
<1>1. \A d \in Copy : at[d] \notin {"drop", "send"}
  BY DEF MutexFree, Holders
<1>2. /\ at \in [Copy -> Places] /\ Len(queue) \in Nat /\ Len(queue) <= QueueCap
      /\ QueueCap \in Nat
  BY QueueConstants, SeqFacts DEF QueueInv, TypeOK
<1>3. at' \in [Copy -> Places] /\ taken' = 0
  BY <1>2 DEF TestLen, Goto, Places
<1>4. \A d \in Copy : at'[d] \in {"drop", "send"} => d = c
  BY <1>1, <1>2 DEF TestLen, Goto
<1>5. at'[c] = "drop" => Len(queue) >= QueueCap
  BY <1>2 DEF TestLen, Goto
<1>6. at'[c] = "send" => ~(Len(queue) >= QueueCap)
  BY <1>2 DEF TestLen, Goto
<1>7. Exclusive'
  BY <1>4 DEF Exclusive, Holders
<1>8. SendHasRoom' /\ DropAccount'
  BY <1>2, <1>3, <1>4, <1>5, <1>6 DEF SendHasRoom, DropAccount
<1> QED  BY <1>3, <1>7, <1>8

-----------------------------------------------------------------------------
\* Every step of AddIncoming keeps the invariant: it is outside the mutex.
LEMMA AddIncomingKeeps ==
    ASSUME QueueInv, NEW c \in Copy, AddIncoming(c)
    PROVE  QueueInv'
<1>1. sub \subseteq Copy
  BY DEF QueueInv, TypeOK
<1>2. CASE Receive(c)
  BY <1>1, <1>2, OutsideKeeps DEF Receive, Places
<1>3. CASE DropOutdated(c)
  BY <1>1, <1>3, OutsideKeeps DEF DropOutdated, Returns, Places
<1>4. CASE Verify(c)
  BY <1>1, <1>4, OutsideKeeps DEF Verify, Returns, Places
<1>5. CASE Route(c)
  BY <1>1, <1>5, OutsideKeeps DEF Route, Returns, Places
<1>6. CASE Retry(c)
  BY <1>1, <1>6, OutsideKeeps DEF Retry, Places
<1> QED  BY <1>2, <1>3, <1>4, <1>5, <1>6 DEF AddIncoming

\* Every step of Add and forceAdd keeps the invariant.
LEMMA AdderKeeps ==
    ASSUME QueueInv, NEW c \in Copy, Adder(c)
    PROVE  QueueInv'
<1>1. TypeOK /\ Exclusive /\ SendHasRoom /\ DropAccount
  BY DEF QueueInv
<1>2. CASE Add(c)
  <2>1. CASE Contains(cache, Msg[c])
    BY <1>1, <1>2, <2>1, OutsideKeeps DEF Add, Returns, Places, TypeOK
  <2>2. CASE ~Contains(cache, Msg[c])
    <3>1. /\ at' \in [Copy -> Places] /\ taken' \in Nat
          /\ Exclusive' /\ SendHasRoom' /\ DropAccount'
      BY <1>2, <2>2, TestLenKeeps DEF Add
    <3>2. cache' \in Seq(Msgs) /\ Len(cache') <= CacheSize
      BY <1>1, <1>2, <2>2, RememberBound, QueueConstants DEF Add
    <3>3. accepted' \in Seq(Copy)
      BY <1>1, <1>2, <2>2, SeqFacts, Zenon DEF Add, TypeOK
    <3> QED  BY <1>1, <1>2, <2>2, <3>1, <3>2, <3>3 DEF Add, QueueInv, TypeOK
  <2> QED  BY <2>1, <2>2
<1>3. CASE forceAdd(c)
  <2>1. /\ at' \in [Copy -> Places] /\ taken' \in Nat
        /\ Exclusive' /\ SendHasRoom' /\ DropAccount'
    BY <1>3, TestLenKeeps DEF forceAdd
  <2> QED  BY <1>1, <1>3, <2>1 DEF forceAdd, QueueInv, TypeOK
<1>4. CASE DropOldest(c)
  <2>1. /\ Head(queue) \in Copy /\ queue' \in Seq(Copy)
        /\ Len(queue') = Len(queue) - 1 /\ Len(queue') \in Nat
    BY <1>1, <1>4, SeqFacts DEF DropOldest, TypeOK
  <2>2. \A d \in Copy : at'[d] # "drop" /\ (at'[d] = "send" => d = c)
    BY <1>1, <1>4, <2>1 DEF DropOldest, TypeOK, Exclusive, Holders
  <2>3. TypeOK'
    <3>1. at' \in [Copy -> Places]
      BY <1>1, <1>4, <2>1, Zenon DEF DropOldest, TypeOK, Places
    <3>2. Len(queue') <= QueueCap
      BY <1>1, <2>1, QueueConstants DEF TypeOK
    <3> QED  BY <1>1, <1>4, <2>1, <3>1, <3>2, Zenon DEF DropOldest, TypeOK
  <2>4. Exclusive' /\ SendHasRoom' /\ DropAccount'
    <3>1. Len(queue') < QueueCap
      <4>1. Len(queue) <= QueueCap
        BY <1>1 DEF TypeOK
      <4> QED  BY <2>1, <4>1, QueueConstants
    <3> QED  BY <2>2, <3>1 DEF Exclusive, Holders, SendHasRoom, DropAccount
  <2> QED  BY <2>3, <2>4 DEF QueueInv
<1>5. CASE Send(c)
  <2>1. queue' \in Seq(Copy) /\ Len(queue') = Len(queue) + 1 /\ Len(queue) \in Nat
    BY <1>1, <1>5, SeqFacts DEF Send, TypeOK
  <2>2. \A d \in Copy : at'[d] \notin {"drop", "send"}
    BY <1>1, <1>5 DEF Send, Goto, TypeOK, Exclusive, Holders
  <2>3. TypeOK'
    <3>1. at' \in [Copy -> Places]
      BY <1>1, <1>5 DEF Send, Goto, TypeOK, Places
    <3>2. Len(queue') <= QueueCap
      BY <1>5, <2>1, QueueConstants DEF Send
    <3>3. sub' \subseteq Copy /\ UNCHANGED <<cache, epoch, delays, accepted, first, taken>>
      BY <1>1, <1>5 DEF Send, Returns, TypeOK
    <3> QED  BY <1>1, <2>1, <3>1, <3>2, <3>3 DEF TypeOK
  <2> QED  BY <2>2, <2>3 DEF QueueInv, Exclusive, Holders, SendHasRoom, DropAccount
<1> QED  BY <1>2, <1>3, <1>4, <1>5 DEF Adder

\* Every step of the main loop keeps the invariant, though it takes from the
\* channel without the mutex.
LEMMA MainLoopKeeps ==
    ASSUME QueueInv, NEW c \in Copy, MainLoop(c)
    PROVE  QueueInv'
<1>1. TypeOK /\ Exclusive /\ SendHasRoom /\ DropAccount
  BY DEF QueueInv
<1>2. CASE Take(c)
  <2>1. /\ queue' \in Seq(Copy) /\ Len(queue') = Len(queue) - 1
        /\ Len(queue') \in Nat /\ Len(queue) \in Nat
    BY <1>1, <1>2, SeqFacts DEF Take, TypeOK
  <2>2. PICK place \in {"handled", "delay"} : at' = [at EXCEPT ![c] = place]
    BY <1>2 DEF Take, Goto
  <2>3. \A d \in Copy : at'[d] \in {"drop", "send"} => at'[d] = at[d]
    BY <1>1, <2>2 DEF TypeOK
  <2>4. TypeOK'
    <3>1. first' \in Seq(Copy)
      BY <1>1, <1>2, SeqFacts DEF Take, TypeOK
    <3>2. delays' \in [Copy -> 0 .. MaxDelays]
      <4>1. CASE UNCHANGED delays
        BY <1>1, <4>1 DEF TypeOK
      <4>2. CASE delays[c] < MaxDelays /\ delays' = [delays EXCEPT ![c] = @ + 1]
        <5>1. delays \in [Copy -> 0 .. MaxDelays] /\ MaxDelays \in Nat
          BY <1>1, QueueConstants DEF TypeOK
        <5>2. delays[c] + 1 \in 0 .. MaxDelays
          BY <4>2, <5>1
        <5> QED  BY <4>2, <5>1, <5>2
      <4> QED  BY <1>2, <4>1, <4>2 DEF Take
    <3>3. at' \in [Copy -> Places]
      BY <1>1, <2>2 DEF TypeOK, Places
    <3>4. taken' \in Nat
      BY <1>1, <1>2 DEF Take, TypeOK
    <3>5. Len(queue') <= QueueCap
      BY <1>1, <2>1, QueueConstants DEF TypeOK
    <3>6. UNCHANGED <<sub, cache, epoch, accepted>>
      BY <1>2 DEF Take
    <3> QED  BY <1>1, <2>1, <3>1, <3>2, <3>3, <3>4, <3>5, <3>6 DEF TypeOK
  <2>5. Exclusive'
    BY <1>1, <2>3 DEF Exclusive, Holders
  <2>6. SendHasRoom'
    BY <1>1, <2>1, <2>3, QueueConstants DEF SendHasRoom
  <2>7. DropAccount'
    <3> SUFFICES ASSUME NEW d \in Copy, at'[d] = "drop"
                 PROVE  Len(queue') + taken' = QueueCap
      BY DEF DropAccount
    <3>1. at[d] = "drop"
      BY <2>3
    <3>2. taken' = taken + 1
      BY <1>2, <3>1 DEF Take
    <3>3. Len(queue) + taken = QueueCap
      BY <1>1, <3>1 DEF DropAccount
    <3>4. taken \in Nat
      BY <1>1 DEF TypeOK
    <3> QED  BY <2>1, <3>2, <3>3, <3>4
  <2> QED  BY <2>4, <2>5, <2>6, <2>7 DEF QueueInv
<1>3. CASE DelayExpires(c)
  BY <1>1, <1>3, OutsideKeeps DEF DelayExpires, TypeOK, Places
<1> QED  BY <1>2, <1>3 DEF MainLoop

\* The start of the pacemaker and every step of any goroutine keep the
\* invariant of the queue's mutex.
THEOREM QueueInvariant == Spec => []QueueInv
<1>1. Init => QueueInv
  BY QueueConstants
     DEF Init, QueueInv, TypeOK, Exclusive, SendHasRoom, DropAccount, Holders, Places
<1>2. QueueInv /\ [Next]_vars => QueueInv'
  <2> SUFFICES ASSUME QueueInv, [Next]_vars  PROVE QueueInv'
    OBVIOUS
  <2>1. CASE \E c \in Copy : AddIncoming(c) \/ Adder(c) \/ MainLoop(c)
    BY <2>1, AddIncomingKeeps, AdderKeeps, MainLoopKeeps
  <2>2. CASE NextEpoch
    BY <2>2, QueueConstants
       DEF NextEpoch, QueueInv, TypeOK, Exclusive, SendHasRoom, DropAccount, Holders
  <2>3. CASE UNCHANGED vars
    BY <2>3 DEF vars, QueueInv, TypeOK, Exclusive, SendHasRoom, DropAccount, Holders
  <2> QED  BY <2>1, <2>2, <2>3 DEF Next
<1> QED  BY <1>1, <1>2, PTL DEF Spec

\* An adder that is about to send finds room in the channel: it never waits
\* there with the mutex of the queue held.
THEOREM SenderFindsRoom == Spec => []SendHasRoom
BY QueueInvariant, PTL DEF QueueInv

\* An adder waits for a message to drop only when the main loop has taken a
\* whole queue of messages since the adder found it full.
THEOREM DropWaits == Spec => []DropWaitsOnlyAfterDrain
<1>1. QueueInv => DropWaitsOnlyAfterDrain
  BY QueueConstants DEF QueueInv, TypeOK, DropAccount, DropWaitsOnlyAfterDrain
<1> QED  BY <1>1, QueueInvariant, PTL
-----------------------------------------------------------------------------
(* The order of the main loop                                               *)

\* The places of a copy that Add has accepted.
Past == {"drop", "send", "queue", "delay", "forceAdd", "handled", "dropped"}

Distinct(s) == \A i, j \in 1 .. Len(s) : s[i] = s[j] => i = j

\* Accepted, still to be seen and not dropped.
Fresh(c) == at[c] \in {"queue", "drop", "send"} /\ ~ Contains(first, c)

\* The channel holds every copy in "queue" once, and only what the main loop has
\* seen is put back.
Placed ==
    /\ \A c \in Copy : Contains(accepted, c) <=> at[c] \in Past
    /\ \A c \in Copy : at[c] \in {"delay", "forceAdd", "handled"} => Contains(first, c)
    /\ \A i \in 1 .. Len(queue) : at[queue[i]] = "queue"
    /\ \A c \in Copy : at[c] = "queue" => Contains(queue, c)
    /\ Distinct(queue)

\* What is still to be seen was accepted after all that was seen; in the channel
\* it is in order, and the adder that holds the mutex is behind it.
Ordered ==
    /\ \A i \in 1 .. Len(first), d \in Copy : Fresh(d) => Before(first[i], d)
    /\ \A i, j \in 1 .. Len(queue) :
          i < j /\ Fresh(queue[i]) /\ Fresh(queue[j]) => Before(queue[i], queue[j])
    /\ \A i \in 1 .. Len(queue), d \in Holders :
          Fresh(queue[i]) /\ Fresh(d) => Before(queue[i], d)

OrderInv == Placed /\ FirstSeenInOrder /\ Ordered

\* What a sequence holds after Append.
LEMMA AppendContains ==
    ASSUME NEW S, NEW s \in Seq(S), NEW e \in S
    PROVE  \A d : Contains(Append(s, e), d) <=> Contains(s, d) \/ d = e
<1>1. PICK t : t = Append(s, e)
  BY Zenon
<1>2. PICK n \in Nat : n = Len(s)
  OBVIOUS
<1>3. Len(t) = n + 1 /\ t[n + 1] = e /\ \A i \in 1 .. n : t[i] = s[i]
  BY <1>1, <1>2, AppendProperties
<1>4. 1 .. n + 1 = (1 .. n) \cup {n + 1}
  OBVIOUS
<1> QED  BY <1>1, <1>2, <1>3, <1>4, Zenon DEF Contains

\* The parts of a sequence without repetitions: its head, and a tail without it.
LEMMA TailParts ==
    ASSUME NEW S, NEW s \in Seq(S), s # << >>, Distinct(s)
    PROVE  LET t == Tail(s)
           IN  /\ t \in Seq(S) /\ Head(s) \in S /\ Len(t) = Len(s) - 1
               /\ 1 \in 1 .. Len(s) /\ Head(s) = s[1]
               /\ \A i \in 1 .. Len(t) : /\ t[i] = s[i + 1] /\ t[i] # Head(s)
                                         /\ i + 1 \in 1 .. Len(s) /\ 1 < i + 1
               /\ \A d : Contains(s, d) /\ d # Head(s) => Contains(t, d)
               /\ Distinct(t)
<1>1. PICK t \in Seq(S) : t = Tail(s)
  BY HeadTailProperties, Zenon
<1>2. PICK n \in Nat : n = Len(s) /\ n >= 1
  OBVIOUS
<1>3. /\ Len(t) = n - 1 /\ Head(s) = s[1] /\ Head(s) \in S
      /\ \A i \in 1 .. n - 1 : t[i] = s[i + 1]
  BY <1>1, <1>2
<1>4. 1 \in 1 .. n /\ \A i \in 1 .. n - 1 : i + 1 \in 1 .. n /\ 1 < i + 1 /\ i + 1 # 1
  BY <1>2
<1>5. \A i \in 1 .. n - 1 : t[i] # Head(s)
  BY <1>2, <1>3, <1>4, Zenon DEF Distinct
<1>6. ASSUME NEW d, Contains(s, d), d # Head(s)  PROVE Contains(t, d)
  <2>1. PICK i \in 1 .. n : s[i] = d
    BY <1>2, <1>6 DEF Contains
  <2>2. i - 1 \in 1 .. n - 1 /\ t[i - 1] = s[i]
    BY <1>2, <1>3, <1>6, <2>1
  <2> QED  BY <1>3, <2>1, <2>2, Zenon DEF Contains
<1>7. Distinct(t)
  BY <1>2, <1>3, <1>4 DEF Distinct
<1> QED  BY <1>1, <1>2, <1>3, <1>4, <1>5, <1>6, <1>7, Zenon

\* A step that leaves the channel and the histories alone, and moves a copy that
\* is not accepted or one that was seen.
LEMMA MoveKeepsOrder ==
    ASSUME QueueInv, OrderInv, NEW c \in Copy, NEW place \in Places, Goto(c, place),
           UNCHANGED <<queue, accepted, first>>,
           at[c] # "queue", place # "queue", at[c] \in Past <=> place \in Past,
           place \in Past => Contains(first, c)
    PROVE  OrderInv'
<1>1. at \in [Copy -> Places] /\ queue \in Seq(Copy)
  BY DEF QueueInv, TypeOK
<1>2. at'[c] = place /\ \A d \in Copy \ {c} : at'[d] = at[d]
  BY <1>1 DEF Goto
<1>3. \A d \in Copy : Fresh(d)' => d # c /\ Fresh(d)
  BY <1>2 DEF Fresh, Past
<1>4. Placed'
  <2>1. \A d \in Copy : Contains(accepted, d) <=> at'[d] \in Past
    BY <1>2 DEF OrderInv, Placed
  <2>2. \A d \in Copy : at'[d] \in {"delay", "forceAdd", "handled"} => Contains(first, d)
    BY <1>2 DEF OrderInv, Placed, Past
  <2>3. \A i \in 1 .. Len(queue) : at'[queue[i]] = "queue"
    BY <1>1, <1>2 DEF OrderInv, Placed
  <2>4. \A d \in Copy : at'[d] = "queue" => Contains(queue, d)
    BY <1>2 DEF OrderInv, Placed
  <2> QED  BY <2>1, <2>2, <2>3, <2>4 DEF OrderInv, Placed, Distinct
<1>5. FirstSeenInOrder'
  BY DEF OrderInv, FirstSeenInOrder, Before
<1>6. Ordered'
  <2>1. PICK q \in Seq(Copy), f \in Seq(Copy) :
          q = queue /\ q = queue' /\ f = first /\ f = first'
    BY <1>1 DEF QueueInv, TypeOK
  <2>2. \A d, e \in Copy : Before(d, e)' <=> Before(d, e)
    BY DEF Before
  <2>3. \A i \in 1 .. Len(f), d \in Copy : Fresh(d)' => Before(f[i], d)'
    BY <1>3, <2>1, <2>2 DEF OrderInv, Ordered
  <2>4. \A i, j \in 1 .. Len(q) : i < j /\ Fresh(q[i])' /\ Fresh(q[j])' => Before(q[i], q[j])'
    BY <1>3, <2>1, <2>2 DEF OrderInv, Ordered
  <2>5. \A i \in 1 .. Len(q), d \in Holders' : Fresh(q[i])' /\ Fresh(d)' => Before(q[i], d)'
    <3>1. \A d \in Holders' : d \in Copy /\ (Fresh(d)' => d \in Holders)
      BY <1>2, <1>3 DEF Holders
    <3> QED  BY <1>3, <2>1, <2>2, <3>1 DEF OrderInv, Ordered
  <2> QED  BY <2>1, <2>3, <2>4, <2>5 DEF Ordered
<1> QED  BY <1>4, <1>5, <1>6 DEF OrderInv

\* The copy that Add accepts comes after all the others.
LEMMA AddKeepsOrder ==
    ASSUME QueueInv, OrderInv, NEW c \in Copy, at[c] = "add", NEW place \in {"drop", "send"},
           Goto(c, place), UNCHANGED <<queue, first>>, accepted' = Append(accepted, c)
    PROVE  OrderInv'
<1>1. /\ at \in [Copy -> Places] /\ queue \in Seq(Copy) /\ first \in Seq(Copy)
      /\ accepted \in Seq(Copy)
  BY DEF QueueInv, TypeOK
<1>2. at'[c] = place /\ \A d \in Copy \ {c} : at'[d] = at[d]
  BY <1>1 DEF Goto
<1>3. PICK n \in Nat : /\ n = Len(accepted) /\ Len(accepted') = n + 1 /\ accepted'[n + 1] = c
                       /\ \A i \in 1 .. n : accepted'[i] = accepted[i]
  BY <1>1, SeqFacts
<1>4. \A i \in 1 .. n : accepted[i] # c
  <2>1. ~ Contains(accepted, c)
    BY DEF OrderInv, Placed, Past
  <2> QED  BY <1>3, <2>1 DEF Contains
<1>5. \A d \in Copy : Contains(accepted', d) <=> Contains(accepted, d) \/ d = c
  <2>1. 1 .. n + 1 = (1 .. n) \cup {n + 1}
    OBVIOUS
  <2> QED  BY <1>3, <2>1, Zenon DEF Contains
<1>6. /\ \A d, e \in Copy \ {c} : Before(d, e) => Before(d, e)'
      /\ \A d \in Copy \ {c} : Before(d, c)'
  BY <1>3, <1>4 DEF Before
<1>7. PICK q \in Seq(Copy), f \in Seq(Copy) :
        q = queue /\ q = queue' /\ f = first /\ f = first'
  BY <1>1
<1>8. /\ \A i \in 1 .. Len(q) : q[i] \in Copy \ {c}
      /\ \A i \in 1 .. Len(f) : f[i] \in Copy \ {c}
  <2>1. \A i \in 1 .. Len(q) : q[i] \in Copy /\ at[q[i]] = "queue"
    BY <1>7 DEF OrderInv, Placed
  <2>2. \A i \in 1 .. Len(f) : f[i] \in Copy /\ Contains(accepted, f[i])
    BY <1>7 DEF OrderInv, FirstSeenInOrder
  <2>3. ~ Contains(accepted, c)
    BY DEF OrderInv, Placed, Past
  <2> QED  BY <2>1, <2>2, <2>3
<1>9. \A d \in Copy \ {c} : Fresh(d)' <=> Fresh(d)
  BY <1>2 DEF Fresh
<1>10. Placed'
  <2>1. \A d \in Copy : Contains(accepted', d) <=> at'[d] \in Past
    BY <1>2, <1>5 DEF OrderInv, Placed, Past
  <2>2. \A d \in Copy : at'[d] \in {"delay", "forceAdd", "handled"} => Contains(first, d)
    BY <1>2 DEF OrderInv, Placed
  <2>3. \A i \in 1 .. Len(q) : at'[q[i]] = "queue"
    BY <1>2, <1>7, <1>8 DEF OrderInv, Placed
  <2>4. \A d \in Copy : at'[d] = "queue" => Contains(q, d)
    BY <1>2, <1>7 DEF OrderInv, Placed
  <2>5. Distinct(q)
    BY <1>7 DEF OrderInv, Placed
  <2> QED  BY <1>7, <2>1, <2>2, <2>3, <2>4, <2>5, Zenon DEF Placed
<1>11. FirstSeenInOrder'
  <2>1. \A i, j \in 1 .. Len(accepted') : accepted'[i] = accepted'[j] => i = j
    BY <1>3, <1>4 DEF OrderInv, FirstSeenInOrder
  <2>2. \A i \in 1 .. Len(f) : Contains(accepted', f[i])
    BY <1>5, <1>7, <1>8 DEF OrderInv, FirstSeenInOrder
  <2>3. \A i, j \in 1 .. Len(f) : i < j => Before(f[i], f[j])'
    BY <1>6, <1>7, <1>8 DEF OrderInv, FirstSeenInOrder
  <2> QED  BY <1>7, <2>1, <2>2, <2>3 DEF FirstSeenInOrder
<1>12. Ordered'
  <2>1. \A i \in 1 .. Len(f), d \in Copy : Fresh(d)' => Before(f[i], d)'
    BY <1>6, <1>7, <1>8, <1>9 DEF OrderInv, Ordered
  <2>2. \A i, j \in 1 .. Len(q) : i < j /\ Fresh(q[i])' /\ Fresh(q[j])' => Before(q[i], q[j])'
    BY <1>6, <1>7, <1>8, <1>9 DEF OrderInv, Ordered
  <2>3. \A i \in 1 .. Len(q), d \in Holders' : Fresh(q[i])' /\ Fresh(d)' => Before(q[i], d)'
    <3>1. \A d \in Holders' : d \in Copy /\ (d = c \/ d \in Holders)
      BY <1>2 DEF Holders
    <3> QED  BY <1>6, <1>7, <1>8, <1>9, <3>1 DEF OrderInv, Ordered
  <2> QED  BY <1>7, <2>1, <2>2, <2>3 DEF Ordered
<1> QED  BY <1>10, <1>11, <1>12 DEF OrderInv

\* The oldest message leaves the channel to make room.
LEMMA DropOldestKeepsOrder ==
    ASSUME QueueInv, OrderInv, NEW c \in Copy, DropOldest(c)
    PROVE  OrderInv'
<1>1. /\ at \in [Copy -> Places] /\ queue \in Seq(Copy) /\ first \in Seq(Copy)
      /\ queue # << >> /\ at[c] = "drop" /\ accepted' = accepted /\ first' = first
  BY DEF QueueInv, TypeOK, DropOldest
<1>2. PICK q \in Seq(Copy), h \in Copy, f \in Seq(Copy) :
        /\ q = queue' /\ h = Head(queue) /\ f = first /\ f = first'
        /\ at' = [at EXCEPT ![c] = "send", ![h] = "dropped"]
        /\ 1 \in 1 .. Len(queue) /\ h = queue[1]
        /\ \A i \in 1 .. Len(q) : q[i] = queue[i + 1] /\ q[i] # h /\ i + 1 \in 1 .. Len(queue)
        /\ \A d : Contains(queue, d) /\ d # h => Contains(q, d)
        /\ Distinct(q)
  <2>1. Distinct(queue) /\ queue' = Tail(queue)
    BY Zenon DEF OrderInv, Placed, DropOldest
  <2>2. PICK q \in Seq(Copy), h \in Copy :
          /\ q = Tail(queue) /\ h = Head(queue) /\ 1 \in 1 .. Len(queue) /\ h = queue[1]
          /\ \A i \in 1 .. Len(q) : q[i] = queue[i + 1] /\ q[i] # h /\ i + 1 \in 1 .. Len(queue)
          /\ \A d : Contains(queue, d) /\ d # h => Contains(q, d)
          /\ Distinct(q)
    BY <1>1, <2>1, TailParts, Zenon
  <2> QED  BY <1>1, <2>1, <2>2, Zenon DEF DropOldest
<1>3. at[h] = "queue" /\ h # c /\ \A i \in 1 .. Len(q) : q[i] # h /\ at[q[i]] = "queue"
  <2>1. \A i \in 1 .. Len(queue) : at[queue[i]] = "queue"
    BY Zenon DEF OrderInv, Placed
  <2> QED  BY <1>1, <1>2, <2>1, Zenon
<1>4. /\ at'[c] = "send" /\ at'[h] = "dropped"
      /\ \A d \in Copy : d # c /\ d # h => at'[d] = at[d]
  BY <1>1, <1>2, <1>3
<1>5. \A d \in Copy : Fresh(d)' => Fresh(d)
  BY <1>1, <1>4 DEF Fresh
<1>6. \A d, e \in Copy : Before(d, e)' <=> Before(d, e)
  BY <1>1 DEF Before
<1>7. Placed'
  <2>1. \A d \in Copy : Contains(accepted, d) <=> at'[d] \in Past
    BY <1>1, <1>3, <1>4, Zenon DEF OrderInv, Placed, Past
  <2>2. \A d \in Copy : at'[d] \in {"delay", "forceAdd", "handled"} => Contains(first, d)
    BY <1>4 DEF OrderInv, Placed
  <2>3. \A i \in 1 .. Len(q) : at'[q[i]] = "queue"
    <3>1. \A i \in 1 .. Len(q) : q[i] \in Copy /\ q[i] # c
      BY <1>1, <1>2, <1>3
    <3> QED  BY <1>3, <1>4, <3>1
  <2>4. \A d \in Copy : at'[d] = "queue" => Contains(q, d)
    BY <1>1, <1>2, <1>4, Zenon DEF OrderInv, Placed
  <2> QED  BY <1>1, <1>2, <2>1, <2>2, <2>3, <2>4, Zenon DEF Placed
<1>8. FirstSeenInOrder'
  BY <1>1 DEF OrderInv, FirstSeenInOrder, Before
<1>9. Ordered'
  <2>1. \A i \in 1 .. Len(f), d \in Copy : Fresh(d)' => Before(f[i], d)'
    BY <1>2, <1>5, <1>6 DEF OrderInv, Ordered
  <2>2. ASSUME NEW i \in 1 .. Len(q), NEW j \in 1 .. Len(q), i < j, Fresh(q[i])', Fresh(q[j])'
        PROVE  Before(q[i], q[j])'
    <3>1. i + 1 \in 1 .. Len(queue) /\ j + 1 \in 1 .. Len(queue) /\ i + 1 < j + 1
      BY <1>2, <2>2
    <3>2. q[i] \in Copy /\ q[j] \in Copy /\ q[i] = queue[i + 1] /\ q[j] = queue[j + 1]
      BY <1>2
    <3> QED  BY <1>5, <1>6, <2>2, <3>1, <3>2 DEF OrderInv, Ordered
  <2>3. \A i \in 1 .. Len(q), d \in Holders' : Fresh(q[i])' /\ Fresh(d)' => Before(q[i], d)'
    <3>1. \A d \in Holders' : d \in Copy /\ d \in Holders
      BY <1>1, <1>4 DEF Holders
    <3> QED  BY <1>2, <1>5, <1>6, <3>1 DEF OrderInv, Ordered
  <2> QED  BY <1>2, <2>1, <2>2, <2>3, Zenon DEF Ordered
<1> QED  BY <1>7, <1>8, <1>9 DEF OrderInv

\* The adder puts its copy behind all that are in the channel.
LEMMA SendKeepsOrder ==
    ASSUME QueueInv, OrderInv, NEW c \in Copy, Send(c)
    PROVE  OrderInv'
<1>1. /\ at \in [Copy -> Places] /\ queue \in Seq(Copy) /\ first \in Seq(Copy)
      /\ at[c] = "send" /\ accepted' = accepted /\ first' = first
  BY DEF QueueInv, TypeOK, Send
<1>2. at'[c] = "queue" /\ \A d \in Copy \ {c} : at'[d] = at[d]
  BY <1>1 DEF Send, Goto
<1>3. PICK q \in Seq(Copy), f \in Seq(Copy), n \in Nat :
        /\ q = queue' /\ f = first /\ f = first'
        /\ n = Len(queue) /\ Len(q) = n + 1 /\ q[n + 1] = c
        /\ \A i \in 1 .. n : q[i] = queue[i]
        /\ \A d : Contains(q, d) <=> Contains(queue, d) \/ d = c
  <2>1. queue' = Append(queue, c)
    BY DEF Send
  <2>2. \A d : Contains(queue', d) <=> Contains(queue, d) \/ d = c
    BY <1>1, <2>1, AppendContains, Zenon
  <2>3. PICK n \in Nat : n = Len(queue)
    BY <1>1, LenProperties
  <2>4. /\ queue' \in Seq(Copy) /\ Len(queue') = n + 1 /\ queue'[n + 1] = c
        /\ \A i \in 1 .. n : queue'[i] = queue[i]
    BY <1>1, <2>1, <2>3, AppendProperties
  <2> QED  BY <1>1, <2>2, <2>3, <2>4, Zenon
<1>4. \A i \in 1 .. n : q[i] # c /\ at[q[i]] = "queue"
  BY <1>1, <1>3 DEF OrderInv, Placed
<1>5. 1 .. n + 1 = (1 .. n) \cup {n + 1}
  OBVIOUS
<1>6. \A d \in Copy : Fresh(d)' <=> Fresh(d)
  BY <1>1, <1>2 DEF Fresh
<1>7. \A d, e \in Copy : Before(d, e)' <=> Before(d, e)
  BY <1>1 DEF Before
<1>8. Holders = {c} /\ Holders' = {}
  <2>1. \A d \in Copy : at[d] \in {"drop", "send"} => d = c
    BY <1>1 DEF QueueInv, Exclusive, Holders
  <2> QED  BY <1>1, <1>2, <2>1 DEF Holders
<1>9. Placed'
  <2>1. \A d \in Copy : Contains(accepted, d) <=> at'[d] \in Past
    BY <1>1, <1>2, Zenon DEF OrderInv, Placed, Past
  <2>2. \A d \in Copy : at'[d] \in {"delay", "forceAdd", "handled"} => Contains(first, d)
    BY <1>2 DEF OrderInv, Placed
  <2>3. \A i \in 1 .. Len(q) : at'[q[i]] = "queue"
    <3>1. \A i \in 1 .. n : q[i] \in Copy \ {c}
      BY <1>3, <1>4
    <3> QED  BY <1>2, <1>3, <1>4, <1>5, <3>1
  <2>4. Distinct(q)
    <3>1. \A i, j \in 1 .. n : queue[i] = queue[j] => i = j
      BY <1>3 DEF OrderInv, Placed, Distinct
    <3>2. \A i \in 1 .. n + 1 : i \in 1 .. n \/ i = n + 1
      OBVIOUS
    <3> QED  BY <1>3, <1>4, <3>1, <3>2 DEF Distinct
  <2>5. \A d \in Copy : at'[d] = "queue" => Contains(q, d)
    BY <1>2, <1>3, Zenon DEF OrderInv, Placed
  <2> QED  BY <1>1, <1>3, <2>1, <2>2, <2>3, <2>4, <2>5, Zenon DEF Placed
<1>10. FirstSeenInOrder'
  BY <1>1 DEF OrderInv, FirstSeenInOrder, Before
<1>11. Ordered'
  <2>1. \A i \in 1 .. Len(f), d \in Copy : Fresh(d)' => Before(f[i], d)'
    BY <1>3, <1>6, <1>7 DEF OrderInv, Ordered
  <2>2. ASSUME NEW i \in 1 .. Len(q), NEW j \in 1 .. Len(q), i < j, Fresh(q[i])', Fresh(q[j])'
        PROVE  Before(q[i], q[j])'
    <3>1. i \in 1 .. n /\ q[i] = queue[i] /\ q[i] \in Copy /\ q[j] \in Copy
      BY <1>3, <2>2
    <3>2. CASE j = n + 1
      BY <1>3, <1>6, <1>7, <1>8, <2>2, <3>1, <3>2 DEF OrderInv, Ordered
    <3>3. CASE j # n + 1
      <4>1. j \in 1 .. n /\ q[j] = queue[j]
        BY <1>3, <3>3
      <4> QED  BY <1>3, <1>6, <1>7, <2>2, <3>1, <4>1 DEF OrderInv, Ordered
    <3> QED  BY <3>2, <3>3
  <2> QED  BY <1>3, <1>8, <2>1, <2>2, Zenon DEF Ordered
<1> QED  BY <1>9, <1>10, <1>11 DEF OrderInv

\* The main loop takes the oldest copy, which may be one it has put back.
LEMMA TakeKeepsOrder ==
    ASSUME QueueInv, OrderInv, NEW c \in Copy, Take(c)
    PROVE  OrderInv'
<1>1. /\ at \in [Copy -> Places] /\ queue \in Seq(Copy) /\ first \in Seq(Copy)
      /\ queue # << >> /\ c = Head(queue) /\ queue' = Tail(queue) /\ accepted' = accepted
  BY DEF QueueInv, TypeOK, Take
<1>2. PICK place \in {"handled", "delay"} : at' = [at EXCEPT ![c] = place]
  BY DEF Take, Goto
<1>3. at'[c] = place /\ \A d \in Copy \ {c} : at'[d] = at[d]
  BY <1>1, <1>2
<1>4. PICK q \in Seq(Copy) :
        /\ q = queue' /\ 1 \in 1 .. Len(queue) /\ c = queue[1]
        /\ \A i \in 1 .. Len(q) : q[i] = queue[i + 1] /\ q[i] # c /\ i + 1 \in 1 .. Len(queue)
        /\ \A d : Contains(queue, d) /\ d # c => Contains(q, d)
        /\ Distinct(q)
  <2>1. Distinct(queue)
    BY Zenon DEF OrderInv, Placed
  <2> QED  BY <1>1, <2>1, TailParts, Zenon
<1>5. at[c] = "queue" /\ \A i \in 1 .. Len(q) : q[i] \in Copy \ {c} /\ at[q[i]] = "queue"
  <2>1. \A i \in 1 .. Len(queue) : at[queue[i]] = "queue"
    BY Zenon DEF OrderInv, Placed
  <2>2. \A i \in 1 .. Len(q) : q[i] \in Copy
    OBVIOUS
  <2> QED  BY <1>4, <2>1, <2>2, Zenon
<1>6. /\ first' \in Seq(Copy)
      /\ \A d \in Copy : Contains(first', d) <=> Contains(first, d) \/ d = c
      /\ \A i \in 1 .. Len(first') : \/ i \in 1 .. Len(first) /\ first'[i] = first[i]
                                     \/ i = Len(first) + 1 /\ first'[i] = c /\ ~ Contains(first, c)
  <2>1. CASE Contains(first, c)
    BY <1>1, <2>1 DEF Take
  <2>2. CASE ~ Contains(first, c)
    <3>1. first' = Append(first, c)
      BY <2>2, Zenon DEF Take
    <3>2. \A d : Contains(first', d) <=> Contains(first, d) \/ d = c
      <4>1. PICK f \in Seq(Copy) : f = first
        BY <1>1
      <4>2. \A d : Contains(Append(f, c), d) <=> Contains(f, d) \/ d = c
        BY AppendContains, Zenon
      <4> QED  BY <3>1, <4>1, <4>2, Zenon
    <3>3. /\ first' \in Seq(Copy) /\ first'[Len(first) + 1] = c
          /\ \A i \in 1 .. Len(first) : first'[i] = first[i]
          /\ \A i \in 1 .. Len(first') : i \in 1 .. Len(first) \/ i = Len(first) + 1
      BY <1>1, <3>1, AppendProperties
    <3> QED  BY <2>2, <3>2, <3>3, Zenon
  <2> QED  BY <2>1, <2>2
<1>7. \A d \in Copy : Fresh(d)' => d # c /\ Fresh(d)
  BY <1>3, <1>6, Zenon DEF Fresh
<1>8. \A d, e \in Copy : Before(d, e)' <=> Before(d, e)
  BY <1>1 DEF Before
<1>9. ~ Contains(first, c) => Fresh(c)
  BY <1>5 DEF Fresh
<1>10. Placed'
  <2>1. \A d \in Copy : Contains(accepted, d) <=> at'[d] \in Past
    BY <1>3, <1>5, Zenon DEF OrderInv, Placed, Past
  <2>2. \A d \in Copy : at'[d] \in {"delay", "forceAdd", "handled"} => Contains(first', d)
    BY <1>3, <1>6, Zenon DEF OrderInv, Placed
  <2>3. \A i \in 1 .. Len(q) : at'[q[i]] = "queue"
    BY <1>3, <1>5
  <2>4. \A d \in Copy : at'[d] = "queue" => Contains(q, d)
    BY <1>3, <1>4, Zenon DEF OrderInv, Placed
  <2> QED  BY <1>1, <1>4, <2>1, <2>2, <2>3, <2>4, Zenon DEF Placed
<1>11. FirstSeenInOrder'
  <2>1. ASSUME NEW i \in 1 .. Len(first')  PROVE Contains(accepted, first'[i])
    <3>1. Contains(accepted, c)
      BY <1>5, Zenon DEF OrderInv, Placed, Past
    <3> QED  BY <1>6, <3>1, Zenon DEF OrderInv, FirstSeenInOrder
  <2>2. PICK f \in Seq(Copy) : f = first'
    BY <1>6
  <2>3. ASSUME NEW i \in 1 .. Len(f), NEW j \in 1 .. Len(f), i < j
        PROVE  Before(f[i], f[j])
    <3>1. i \in 1 .. Len(first) /\ f[i] = first[i]
      <4>1. Len(first) \in Nat /\ (j \in 1 .. Len(first) \/ j = Len(first) + 1)
        BY <1>1, <1>6, <2>2
      <4>2. i # Len(first) + 1
        BY <2>3, <4>1
      <4> QED  BY <1>6, <2>2, <4>2, Zenon
    <3>2. CASE j \in 1 .. Len(first) /\ f[j] = first[j]
      BY <2>3, <3>1, <3>2 DEF OrderInv, FirstSeenInOrder
    <3>3. CASE f[j] = c /\ ~ Contains(first, c)
      BY <1>9, <3>1, <3>3 DEF OrderInv, Ordered
    <3> QED  BY <1>6, <2>2, <3>2, <3>3
  <2>4. \A i, j \in 1 .. Len(f) : i < j => Before(f[i], f[j])'
    BY <1>8, <2>3
  <2> QED  BY <1>1, <2>1, <2>2, <2>4 DEF OrderInv, FirstSeenInOrder
<1>12. Ordered'
  <2>1. PICK f \in Seq(Copy) : f = first'
    BY <1>6
  <2>2. ASSUME NEW i \in 1 .. Len(f), NEW d \in Copy, Fresh(d)'  PROVE Before(f[i], d)
    <3>1. CASE i \in 1 .. Len(first) /\ f[i] = first[i]
      BY <1>7, <2>2, <3>1 DEF OrderInv, Ordered
    <3>2. CASE f[i] = c /\ ~ Contains(first, c)
      <4>1. Fresh(d) /\ d # c /\ Fresh(c) /\ c = queue[1]
        BY <1>4, <1>7, <1>9, <2>2, <3>2
      <4>2. CASE d \in Holders
        BY <1>4, <3>2, <4>1, <4>2 DEF OrderInv, Ordered
      <4>3. CASE at[d] = "queue"
        <5>1. PICK j \in 1 .. Len(queue) : queue[j] = d
          BY <4>3, Zenon DEF OrderInv, Placed, Contains
        <5>2. 1 < j
          BY <4>1, <5>1
        <5> QED  BY <1>4, <3>2, <4>1, <5>1, <5>2 DEF OrderInv, Ordered
      <4> QED  BY <4>1, <4>2, <4>3 DEF Fresh, Holders
    <3> QED  BY <1>6, <2>1, <3>1, <3>2
  <2>3. ASSUME NEW i \in 1 .. Len(q), NEW j \in 1 .. Len(q), i < j, Fresh(q[i])', Fresh(q[j])'
        PROVE  Before(q[i], q[j])
    <3>1. i + 1 \in 1 .. Len(queue) /\ j + 1 \in 1 .. Len(queue) /\ i + 1 < j + 1
      BY <1>4, <2>3
    <3>2. q[i] \in Copy /\ q[j] \in Copy /\ q[i] = queue[i + 1] /\ q[j] = queue[j + 1]
      BY <1>4
    <3> QED  BY <1>7, <2>3, <3>1, <3>2 DEF OrderInv, Ordered
  <2>4. ASSUME NEW i \in 1 .. Len(q), NEW d \in Holders', Fresh(q[i])', Fresh(d)'
        PROVE  Before(q[i], d)
    <3>1. d \in Holders /\ d \in Copy
      BY <1>3, <1>7, <2>4 DEF Holders
    <3>2. i + 1 \in 1 .. Len(queue) /\ q[i] \in Copy /\ q[i] = queue[i + 1]
      BY <1>4
    <3> QED  BY <1>7, <2>4, <3>1, <3>2 DEF OrderInv, Ordered
  <2>5. /\ \A i \in 1 .. Len(f), d \in Copy : Fresh(d)' => Before(f[i], d)'
        /\ \A i, j \in 1 .. Len(q) : i < j /\ Fresh(q[i])' /\ Fresh(q[j])' => Before(q[i], q[j])'
        /\ \A i \in 1 .. Len(q), d \in Holders' : Fresh(q[i])' /\ Fresh(d)' => Before(q[i], d)'
    <3>1. /\ \A i \in 1 .. Len(f) : f[i] \in Copy
          /\ \A i \in 1 .. Len(q) : q[i] \in Copy
          /\ \A d \in Holders' : d \in Copy
      BY DEF Holders
    <3> QED  BY <1>8, <2>2, <2>3, <2>4, <3>1, Zenon
  <2> QED  BY <1>4, <2>1, <2>5, Zenon DEF Ordered
<1> QED  BY <1>10, <1>11, <1>12 DEF OrderInv

\* Every step keeps the order.
LEMMA OrderNext ==
    ASSUME QueueInv, OrderInv, [Next]_vars
    PROVE  OrderInv'
<1>1. ASSUME NEW c \in Copy, AddIncoming(c)  PROVE OrderInv'
  <2>1. PICK place \in {"incoming", "refused", "verify", "route", "add", "retry"} :
          /\ Goto(c, place) /\ UNCHANGED <<queue, accepted, first>>
          /\ at[c] \in {"net", "incoming", "verify", "route", "retry"}
    BY <1>1, Zenon DEF AddIncoming, Receive, DropOutdated, Verify, Route, Retry
  <2>2. /\ place \in Places /\ place \notin Past /\ place # "queue"
        /\ at[c] \notin Past /\ at[c] # "queue"
    BY <2>1 DEF Places, Past
  <2> QED  BY <2>1, <2>2, MoveKeepsOrder, Zenon
<1>2. ASSUME NEW c \in Copy, Add(c)  PROVE OrderInv'
  <2>1. CASE Contains(cache, Msg[c])
    <3>1. Goto(c, "refused") /\ UNCHANGED <<queue, accepted, first>> /\ at[c] = "add"
      BY <1>2, <2>1, Zenon DEF Add
    <3>2. "refused" \in Places \ Past /\ "add" \notin Past
      BY DEF Places, Past
    <3> QED  BY <3>1, <3>2, MoveKeepsOrder
  <2>2. CASE ~ Contains(cache, Msg[c])
    <3>1. /\ at[c] = "add" /\ UNCHANGED <<queue, first>> /\ accepted' = Append(accepted, c)
          /\ TestLen(c)
      BY <1>2, <2>2, Zenon DEF Add
    <3>2. PICK place \in {"drop", "send"} : Goto(c, place)
      BY <3>1 DEF TestLen
    <3> QED  BY <3>1, <3>2, AddKeepsOrder
  <2> QED  BY <2>1, <2>2
<1>3. ASSUME NEW c \in Copy, forceAdd(c) \/ DelayExpires(c)  PROVE OrderInv'
  <2>1. PICK place \in {"drop", "send", "forceAdd"} :
          /\ Goto(c, place) /\ UNCHANGED <<queue, accepted, first>>
          /\ at[c] \in {"forceAdd", "delay"}
    BY <1>3 DEF forceAdd, TestLen, DelayExpires
  <2>2. /\ place \in Places /\ place \in Past /\ place # "queue"
        /\ at[c] \in Past /\ at[c] # "queue"
    BY <2>1 DEF Places, Past
  <2>3. Contains(first, c)
    BY <2>1, Zenon DEF OrderInv, Placed
  <2> QED  BY <2>1, <2>2, <2>3, MoveKeepsOrder, Zenon
<1>4. ASSUME UNCHANGED <<at, queue, accepted, first>>  PROVE OrderInv'
  <2>1. /\ \A c \in Copy : Fresh(c)' <=> Fresh(c)
        /\ \A c, d : Before(c, d)' <=> Before(c, d)
        /\ Holders' = Holders
    BY <1>4 DEF Fresh, Before, Holders
  <2>2. Placed' /\ FirstSeenInOrder'
    <3>1. Placed'
      BY <1>4 DEF OrderInv, Placed, Contains, Distinct
    <3>2. FirstSeenInOrder'
      BY <1>4 DEF OrderInv, FirstSeenInOrder, Before, Contains
    <3> QED  BY <3>1, <3>2
  <2>3. Ordered'
    BY <1>4 DEF OrderInv, Ordered, Fresh, Before, Holders
  <2> QED  BY <2>2, <2>3 DEF OrderInv
<1>5. CASE NextEpoch \/ UNCHANGED vars
  BY <1>4, <1>5, Zenon DEF NextEpoch, vars
<1>6. CASE \E c \in Copy : AddIncoming(c) \/ Adder(c) \/ MainLoop(c)
  BY <1>1, <1>2, <1>3, <1>6, DropOldestKeepsOrder, SendKeepsOrder, TakeKeepsOrder, Zenon
     DEF Adder, MainLoop
<1> QED  BY <1>5, <1>6 DEF Next

\* Whatever is dropped to make room and whatever is put back meanwhile, the main
\* loop sees messages for the first time in the order in which Add accepted them.
THEOREM SeenInOrder == Spec => []FirstSeenInOrder
<1>1. Init => OrderInv
  BY DEF Init, OrderInv, Placed, FirstSeenInOrder, Ordered, Past, Distinct, Contains, Fresh
<1>2. QueueInv /\ OrderInv /\ [Next]_vars => OrderInv'
  BY OrderNext
<1>3. OrderInv => FirstSeenInOrder
  BY DEF OrderInv
<1> QED  BY <1>1, <1>2, <1>3, QueueInvariant, PTL DEF Spec

-----------------------------------------------------------------------------
(* The cache of hashes                                                      *)

\* The cache holds the hashes of the last messages accepted, each one once, and
\* of all of them until it is full.
CacheInv ==
    /\ Len(cache) <= Len(accepted) /\ (Len(cache) < CacheSize => Len(cache) = Len(accepted))
    /\ \A i \in 1 .. Len(cache) : cache[i] = Msg[accepted[Len(accepted) - Len(cache) + i]]
    /\ Distinct(cache)

\* Values that are all different are no more than the set they lie in has.
LEMMA DistinctAmong ==
    ASSUME NEW l \in Nat, NEW k, \A x, y \in 1 .. l : k[x] = k[y] => x = y,
           NEW T, IsFiniteSet(T), \A x \in 1 .. l : k[x] \in T
    PROVE  Cardinality(T) >= l
<1>1. PICK f : f = [x \in 1 .. l |-> k[x]]
  BY Zenon
<1>2. f \in Injection(1 .. l, T)
  BY <1>1 DEF Injection, IsInjective
<1>3. Cardinality(1 .. l) <= Cardinality(T)
  BY <1>2, FS_Injection
<1>4. Cardinality(1 .. l) = l
  <2>1. 1 \in Int /\ l \in Int /\ (1 > l => l = 0)
    OBVIOUS
  <2>2. Cardinality(1 .. l) = IF 1 > l THEN 0 ELSE l - 1 + 1
    BY <2>1, FS_Interval
  <2> QED  BY <2>1, <2>2
<1>5. Cardinality(T) \in Nat
  BY FS_CardinalityType
<1> QED  BY <1>3, <1>4, <1>5

\* A message that Add accepts is remembered, and the oldest one is forgotten when
\* the cache is full.
LEMMA AddKeepsCache ==
    ASSUME TypeOK, CacheInv, NEW c \in Copy, ~ Contains(cache, Msg[c]),
           cache' = Remember(Msg[c]), accepted' = Append(accepted, c)
    PROVE  CacheInv'
<1>1. PICK a \in Seq(Copy), k \in Seq(Msgs), m \in Msgs, n \in Nat, l \in Nat :
        a = accepted /\ k = cache /\ m = Msg[c] /\ n = Len(a) /\ l = Len(k)
  BY QueueConstants DEF TypeOK
<1>2. /\ l <= n /\ (l < CacheSize => l = n) /\ l <= CacheSize
      /\ \A i \in 1 .. l : k[i] = Msg[a[n - l + i]]
      /\ \A i, j \in 1 .. l : k[i] = k[j] => i = j
      /\ \A i \in 1 .. l : k[i] # m
  BY <1>1 DEF CacheInv, Distinct, Contains, TypeOK
<1>3. PICK b \in Seq(Copy) : /\ b = accepted' /\ Len(b) = n + 1 /\ b[n + 1] = c
                             /\ \A i \in 1 .. n : b[i] = a[i]
  BY <1>1, AppendProperties
<1>4. PICK s \in Seq(Msgs) : /\ s = Append(k, m) /\ Len(s) = l + 1 /\ s[l + 1] = m
                             /\ \A i \in 1 .. l : s[i] = k[i]
  <2>1. PICK s \in Seq(Msgs) : s = Append(k, m)
    BY AppendProperties, Zenon
  <2>2. Len(s) = l + 1 /\ s[l + 1] = m /\ \A i \in 1 .. l : s[i] = k[i]
    BY <1>1, <2>1, AppendProperties
  <2> QED  BY <2>1, <2>2, Zenon
<1>5. Distinct(s)
  <2>1. \A i \in 1 .. l + 1 : i \in 1 .. l \/ i = l + 1
    OBVIOUS
  <2>2. ASSUME NEW i \in 1 .. Len(s), NEW j \in 1 .. Len(s), s[i] = s[j]  PROVE i = j
    <3>1. CASE i \in 1 .. l /\ j \in 1 .. l
      BY <1>2, <1>4, <2>2, <3>1, Zenon
    <3>2. CASE i \in 1 .. l /\ j = l + 1
      BY <1>2, <1>4, <2>2, <3>2, Zenon
    <3>3. CASE i = l + 1 /\ j \in 1 .. l
      BY <1>2, <1>4, <2>2, <3>3, Zenon
    <3> QED  BY <1>4, <2>1, <3>1, <3>2, <3>3, Zenon
  <2> QED  BY <2>2, Zenon DEF Distinct
<1>6. CASE l < CacheSize
  <2>1. cache' = s /\ l = n
    <3>1. l = n /\ ~ (Len(s) > CacheSize)
      BY <1>2, <1>4, <1>6, QueueConstants
    <3>2. cache' = IF Len(s) > CacheSize THEN Tail(s) ELSE s
      BY <1>1, <1>4, Zenon DEF Remember
    <3> QED  BY <3>1, <3>2
  <2>2. \A i \in 1 .. n + 1 : s[i] = Msg[b[i]]
    <3>1. \A i \in 1 .. n : s[i] = Msg[b[i]]
      BY <1>2, <1>3, <1>4, <2>1
    <3>2. s[n + 1] = Msg[b[n + 1]]
      BY <1>1, <1>3, <1>4, <2>1
    <3>3. \A i \in 1 .. n + 1 : i \in 1 .. n \/ i = n + 1
      OBVIOUS
    <3> QED  BY <3>1, <3>2, <3>3, Zenon
  <2>3. Len(s) = n + 1 /\ \A i \in 1 .. n + 1 : Len(b) - Len(s) + i = i
    BY <1>3, <1>4, <2>1
  <2>4. \A i \in 1 .. Len(s) : s[i] = Msg[b[Len(b) - Len(s) + i]]
    <3> TAKE i \in 1 .. Len(s)
    <3>1. i \in 1 .. n + 1 /\ Len(b) - Len(s) + i = i
      BY <2>3, Zenon
    <3> QED  BY <2>2, <3>1, Zenon
  <2>5. Len(s) <= Len(b) /\ Len(s) = Len(b)
    BY <1>3, <2>3
  <2> QED  BY <1>3, <1>5, <2>1, <2>4, <2>5, Zenon DEF CacheInv
<1>7. CASE l >= CacheSize
  <2>1. l = CacheSize /\ l >= 1
    BY <1>2, <1>7, QueueConstants
  <2>2. s # << >> /\ cache' = Tail(s)
    <3>1. s # << >> /\ Len(s) > CacheSize
      BY <1>4, <2>1
    <3>2. cache' = IF Len(s) > CacheSize THEN Tail(s) ELSE s
      BY <1>1, <1>4, Zenon DEF Remember
    <3> QED  BY <3>1, <3>2
  <2>3. PICK t \in Seq(Msgs) : /\ t = cache' /\ Len(t) = l /\ Distinct(t)
                               /\ \A i \in 1 .. l : t[i] = s[i + 1]
    <3>1. Tail(s) \in Seq(Msgs) /\ Len(Tail(s)) = l /\ \A i \in 1 .. l : Tail(s)[i] = s[i + 1]
      <4>1. Len(s) - 1 = l
        BY <1>4
      <4> QED  BY <2>2, <4>1, HeadTailProperties, Zenon
    <3>2. Distinct(Tail(s))
      BY <1>5, <2>2, TailParts, Zenon
    <3> QED  BY <2>2, <3>1, <3>2, Zenon
  <2>4. ASSUME NEW i \in 1 .. l  PROVE t[i] = Msg[b[(n + 1) - l + i]]
    <3>1. CASE i = l
      BY <1>1, <1>2, <1>3, <1>4, <2>3, <3>1
    <3>2. CASE i # l
      <4>1. i + 1 \in 1 .. l /\ n - l + (i + 1) = (n + 1) - l + i /\ (n + 1) - l + i \in 1 .. n
        BY <1>2, <3>2
      <4>2. t[i] = s[i + 1] /\ s[i + 1] = k[i + 1]
        BY <1>4, <2>3, <4>1, Zenon
      <4>3. k[i + 1] = Msg[a[(n + 1) - l + i]]
        BY <1>2, <4>1, Zenon
      <4> QED  BY <1>3, <4>1, <4>2, <4>3, Zenon
    <3> QED  BY <3>1, <3>2
  <2>5. Len(t) <= Len(b) /\ ~ (Len(t) < CacheSize)
    BY <1>2, <1>3, <2>1, <2>3
  <2>6. \A i \in 1 .. Len(t) : t[i] = Msg[b[Len(b) - Len(t) + i]]
    <3> TAKE i \in 1 .. Len(t)
    <3>1. i \in 1 .. l /\ Len(b) - Len(t) + i = (n + 1) - l + i
      BY <1>3, <2>3, Zenon
    <3> QED  BY <2>4, <3>1, Zenon
  <2> QED  BY <1>3, <2>3, <2>5, <2>6, Zenon DEF CacheInv
<1> QED  BY <1>2, <1>6, <1>7, QueueConstants

\* When Add accepts a message that it has accepted before, the messages in a full
\* cache, all different, came in between.
LEMMA AddKeepsOnce ==
    ASSUME TypeOK, CacheInv, AcceptedOnceWhileCached, NEW c \in Copy,
           ~ Contains(cache, Msg[c]), accepted' = Append(accepted, c)
    PROVE  AcceptedOnceWhileCached'
<1> DEFINE a == accepted
           b == accepted'
           k == cache
           n == Len(accepted)
           l == Len(cache)
           Between(s, i, j) == {Msg[s[x]] : x \in (i + 1) .. (j - 1)}
<1>1. a \in Seq(Copy) /\ k \in Seq(Msgs) /\ n \in Nat /\ l \in Nat
  BY DEF TypeOK
<1>2. /\ l <= n /\ (l < CacheSize => l = n) /\ l <= CacheSize
      /\ \A i \in 1 .. l : k[i] = Msg[a[n - l + i]]
      /\ \A i, j \in 1 .. l : k[i] = k[j] => i = j
      /\ \A i \in 1 .. l : k[i] # Msg[c]
  BY <1>1 DEF CacheInv, Distinct, Contains, TypeOK
<1>3. /\ b \in Seq(Copy) /\ Len(b) = n + 1 /\ b[n + 1] = c
      /\ \A i \in 1 .. n : b[i] = a[i]
  BY <1>1, AppendProperties
<1>4. \A i, j \in 1 .. n : i < j /\ Msg[a[i]] = Msg[a[j]] => Cardinality(Between(a, i, j)) >= CacheSize
  BY Zenon DEF AcceptedOnceWhileCached
<1> SUFFICES ASSUME NEW i \in 1 .. Len(b), NEW j \in 1 .. Len(b), i < j, Msg[b[i]] = Msg[b[j]]
             PROVE  Cardinality(Between(b, i, j)) >= CacheSize
  BY Zenon DEF AcceptedOnceWhileCached
<1> HIDE DEF a, b, k, n, l
<1>5. CASE j # n + 1
  <2>1. i \in 1 .. n /\ j \in 1 .. n
    BY <1>1, <1>3, <1>5
  <2>2. \A x \in (i + 1) .. (j - 1) : x \in 1 .. n
    BY <1>1, <2>1
  <2>3. Between(a, i, j) = Between(b, i, j)
    BY <1>3, <2>2
  <2>4. Cardinality(Between(a, i, j)) >= CacheSize
    BY <1>3, <1>4, <2>1, Zenon
  <2> QED  BY <2>3, <2>4, Zenon
<1>6. CASE j = n + 1
  <2>1. i \in 1 .. n /\ j - 1 = n /\ Msg[a[i]] = Msg[c]
    <3>1. i \in 1 .. n /\ j - 1 = n
      BY <1>1, <1>3, <1>6
    <3> QED  BY <1>3, <1>6, <3>1, Zenon
  <2>2. i <= n - l
    <3>1. ASSUME i > n - l  PROVE FALSE
      <4>1. i - (n - l) \in 1 .. l /\ n - l + (i - (n - l)) = i
        BY <1>1, <1>2, <2>1, <3>1
      <4>2. k[i - (n - l)] = Msg[a[i]]
        BY <1>2, <4>1, Zenon
      <4> QED  BY <1>2, <2>1, <4>1, <4>2, Zenon
    <3> QED  BY <1>1, <2>1, <3>1
  <2>3. l = CacheSize
    BY <1>1, <1>2, <2>1, <2>2, QueueConstants
  <2>4. PICK T : T = Between(b, i, j)
    BY Zenon
  <2>5. IsFiniteSet(T)
    <3>1. PICK h : h = [x \in (i + 1) .. (j - 1) |-> Msg[b[x]]]
      BY Zenon
    <3>2. h \in Surjection((i + 1) .. (j - 1), T)
      BY <2>4, <3>1 DEF Surjection
    <3>3. IsFiniteSet((i + 1) .. (j - 1))
      <4>1. i + 1 \in Int /\ j - 1 \in Int
        BY <1>1, <2>1
      <4> QED  BY <4>1, FS_Interval, Zenon
    <3> QED  BY <3>2, <3>3, FS_Surjection, Zenon
  <2>6. \A x \in 1 .. l : k[x] \in T
    <3> TAKE x \in 1 .. l
    <3>1. n - l + x \in (i + 1) .. (j - 1) /\ n - l + x \in 1 .. n
      BY <1>1, <1>2, <2>1, <2>2
    <3>2. k[x] = Msg[b[n - l + x]]
      BY <1>2, <1>3, <3>1, Zenon
    <3> QED  BY <2>4, <3>1, <3>2, Zenon
  <2>7. Cardinality(T) >= l
    BY <1>1, <1>2, <2>5, <2>6, DistinctAmong, Zenon
  <2> QED  BY <2>3, <2>4, <2>7, Zenon
<1> QED  BY <1>5, <1>6

\* Add accepts a message again only after as many other messages as the cache holds,
\* whatever the interleaving of the goroutines that call it.
THEOREM AcceptedOnce == Spec => []AcceptedOnceWhileCached
<1>1. Init => CacheInv /\ AcceptedOnceWhileCached
  BY DEF Init, CacheInv, AcceptedOnceWhileCached, Distinct
<1>2. QueueInv /\ CacheInv /\ AcceptedOnceWhileCached /\ [Next]_vars
        => CacheInv' /\ AcceptedOnceWhileCached'
  <2> SUFFICES ASSUME QueueInv, CacheInv, AcceptedOnceWhileCached, [Next]_vars
               PROVE  CacheInv' /\ AcceptedOnceWhileCached'
    BY Zenon
  <2>1. CASE UNCHANGED <<cache, accepted>>
    <3>1. CacheInv'
      BY <2>1, Zenon DEF CacheInv, Distinct
    <3>2. AcceptedOnceWhileCached'
      BY <2>1 DEF AcceptedOnceWhileCached
    <3> QED  BY <3>1, <3>2
  <2>2. ASSUME NEW c \in Copy, Add(c), ~ UNCHANGED <<cache, accepted>>
        PROVE  CacheInv' /\ AcceptedOnceWhileCached'
    <3>1. /\ ~ Contains(cache, Msg[c]) /\ cache' = Remember(Msg[c])
          /\ accepted' = Append(accepted, c)
      BY <2>2, Zenon DEF Add
    <3>2. TypeOK
      BY DEF QueueInv
    <3> QED  BY <3>1, <3>2, AddKeepsCache, AddKeepsOnce, Zenon
  <2>3. ASSUME NEW c \in Copy, AddIncoming(c) \/ forceAdd(c) \/ DropOldest(c) \/ Send(c) \/ MainLoop(c)
        PROVE  UNCHANGED <<cache, accepted>>
    BY <2>3, Zenon DEF AddIncoming, Receive, DropOutdated, Verify, Route, Retry, forceAdd,
                       DropOldest, Send, MainLoop, Take, DelayExpires
  <2>4. NextEpoch \/ UNCHANGED vars => UNCHANGED <<cache, accepted>>
    BY Zenon DEF NextEpoch, vars
  <2> QED  BY <2>1, <2>2, <2>3, <2>4, Zenon DEF Next, Adder
<1> QED  BY <1>1, <1>2, QueueInvariant, PTL DEF Spec

-----------------------------------------------------------------------------
(* The checks of AddIncoming                                                *)

\* What is known of a message once it has passed the checks.
Passed(m) == m \in Decodable /\ EpochOf[m] <= epoch /\ (EpochOf[m] = 0 => m \in Signed)

\* Between the signature check and the test of the epoch, the check holds for the
\* first epoch as long as this is the present one; after the test it holds for
\* good, since the epoch only grows.
CheckInv ==
    /\ \A c \in Copy : at[c] = "route" =>
        Msg[c] \in Decodable /\ (EpochOf[Msg[c]] = 0 /\ epoch = 0 => Msg[c] \in Signed)
    /\ \A c \in Copy : at[c] = "add" => Passed(Msg[c])
    /\ AcceptedWasChecked

\* Append adds one element and keeps the others.
LEMMA AppendedElements ==
    ASSUME NEW S, NEW s \in Seq(S), NEW e \in S, NEW t, t = Append(s, e)
    PROVE  \A i \in 1 .. Len(t) : t[i] = e \/ \E j \in 1 .. Len(s) : t[i] = s[j]
<1>1. Len(t) = Len(s) + 1 /\ Len(s) \in Nat /\ t[Len(s) + 1] = e
  OBVIOUS
<1>2. \A i \in 1 .. Len(s) : t[i] = s[i]
  OBVIOUS
<1> QED  BY <1>1, <1>2

\* A copy that goes anywhere but to the two places of the checks disturbs nothing.
LEMMA ElsewhereKeepsChecks ==
    ASSUME TypeOK, CheckInv, NEW c \in Copy, NEW place \in Places \ {"route", "add"},
           Goto(c, place), UNCHANGED <<epoch, accepted>>
    PROVE  CheckInv'
<1>1. \A d \in Copy : at'[d] \in {"route", "add"} => at'[d] = at[d]
  BY DEF TypeOK, Goto
<1>2. \A m : Passed(m)' <=> Passed(m)
  BY DEF Passed
<1>3. AcceptedWasChecked'
  BY DEF CheckInv, AcceptedWasChecked
<1> QED  BY <1>1, <1>2, <1>3 DEF CheckInv

\* Every step keeps what the checks have established.
LEMMA ChecksNext ==
    ASSUME TypeOK, CheckInv, [Next]_vars
    PROVE  CheckInv'
<1>1. ASSUME NEW c \in Copy, NEW place \in {"incoming", "verify", "retry", "refused", "drop",
                                           "send", "queue", "delay", "forceAdd", "handled"},
             Goto(c, place), UNCHANGED <<epoch, accepted>>
      PROVE  CheckInv'
  BY <1>1, ElsewhereKeepsChecks DEF Places
<1>2. ASSUME NEW c \in Copy, Verify(c)  PROVE CheckInv'
  <2>1. CASE Goto(c, "refused")
    BY <1>1, <1>2, <2>1, Zenon DEF Verify
  <2>2. CASE ~ Goto(c, "refused")
    <3>1. /\ Goto(c, "route") /\ UNCHANGED <<epoch, accepted>> /\ Msg[c] \in Decodable
          /\ EpochOf[Msg[c]] = epoch => Msg[c] \in Signed
      BY <1>2, <2>2, Zenon DEF Verify
    <3>2. \A d \in Copy : /\ at'[d] = "route" => d = c \/ at[d] = "route"
                          /\ at'[d] = "add" => at[d] = "add"
      BY <3>1 DEF TypeOK, Goto
    <3>3. \A m : Passed(m)' <=> Passed(m)
      BY <3>1 DEF Passed
    <3>4. AcceptedWasChecked'
      BY <3>1 DEF CheckInv, AcceptedWasChecked
    <3> QED  BY <3>1, <3>2, <3>3, <3>4 DEF CheckInv
  <2> QED  BY <2>1, <2>2
<1>3. ASSUME NEW c \in Copy, Route(c)  PROVE CheckInv'
  <2>1. CASE EpochOf[Msg[c]] # epoch
    BY <1>1, <1>3, <2>1, Zenon DEF Route
  <2>2. CASE EpochOf[Msg[c]] = epoch
    <3>1. Goto(c, "add") /\ UNCHANGED <<epoch, accepted>> /\ at[c] = "route"
      BY <1>3, <2>2, Zenon DEF Route
    <3>2. \A d \in Copy : /\ at'[d] = "add" => d = c \/ at[d] = "add"
                          /\ at'[d] = "route" => at[d] = "route"
      BY <3>1 DEF TypeOK, Goto
    <3>3. \A m : Passed(m)' <=> Passed(m)
      BY <3>1 DEF Passed
    <3>4. Passed(Msg[c])
      BY <2>2, <3>1 DEF CheckInv, Passed, TypeOK
    <3>5. AcceptedWasChecked'
      BY <3>1 DEF CheckInv, AcceptedWasChecked
    <3> QED  BY <3>1, <3>2, <3>3, <3>4, <3>5 DEF CheckInv
  <2> QED  BY <2>1, <2>2
<1>4. ASSUME NEW c \in Copy, Add(c)  PROVE CheckInv'
  <2>1. CASE Contains(cache, Msg[c])
    BY <1>1, <1>4, <2>1, Zenon DEF Add
  <2>2. CASE ~ Contains(cache, Msg[c])
    <3>1. /\ at[c] = "add" /\ TestLen(c) /\ accepted' = Append(accepted, c) /\ epoch' = epoch
      BY <1>4, <2>2, Zenon DEF Add
    <3>2. \A d \in Copy : at'[d] \in {"route", "add"} => at'[d] = at[d]
      BY <3>1 DEF TypeOK, TestLen, Goto
    <3>3. \A m : Passed(m)' <=> Passed(m)
      BY <3>1 DEF Passed
    <3>4. PICK t : t = accepted'
      BY Zenon
    <3>5. \A i \in 1 .. Len(t) : t[i] = c \/ \E j \in 1 .. Len(accepted) : t[i] = accepted[j]
      BY <3>1, <3>4, AppendedElements DEF TypeOK
    <3>6. \A i \in 1 .. Len(t) : Passed(Msg[t[i]])
      BY <3>1, <3>5, Zenon DEF CheckInv, AcceptedWasChecked, Passed
    <3>7. AcceptedWasChecked'
      BY <3>1, <3>4, <3>6, Zenon DEF AcceptedWasChecked, Passed
    <3> QED  BY <3>1, <3>2, <3>3, <3>7 DEF CheckInv
  <2> QED  BY <2>1, <2>2
<1>5. ASSUME NEW c \in Copy, DropOldest(c)  PROVE CheckInv'
  <2>1. at' = [at EXCEPT ![c] = "send", ![Head(queue)] = "dropped"] /\ UNCHANGED <<epoch, accepted>>
    BY <1>5, Zenon DEF DropOldest
  <2>2. \A d \in Copy : at'[d] \in {"route", "add"} => at'[d] = at[d]
    BY <2>1 DEF TypeOK
  <2>3. \A m : Passed(m)' <=> Passed(m)
    BY <2>1 DEF Passed
  <2>4. AcceptedWasChecked'
    BY <2>1 DEF CheckInv, AcceptedWasChecked
  <2> QED  BY <2>1, <2>2, <2>3, <2>4, Zenon DEF CheckInv
<1>6. ASSUME NEW c \in Copy,
             Receive(c) \/ DropOutdated(c) \/ Retry(c) \/ forceAdd(c) \/ Send(c) \/ MainLoop(c)
      PROVE  CheckInv'
  <2>1. \E place \in {"incoming", "verify", "retry", "refused", "drop",
                      "send", "queue", "delay", "forceAdd", "handled"} :
          Goto(c, place) /\ UNCHANGED <<epoch, accepted>>
    BY <1>6 DEF Receive, DropOutdated, Retry, forceAdd, TestLen, Send, MainLoop, Take, DelayExpires
  <2> QED  BY <1>1, <2>1, Zenon
<1>7. CASE NextEpoch
  <2>1. epoch' = epoch + 1 /\ UNCHANGED <<at, accepted>>
    BY <1>7, Zenon DEF NextEpoch
  <2>2. \A c \in Copy : EpochOf[Msg[c]] \in Nat
    BY QueueConstants
  <2>3. epoch \in Nat /\ (\A i \in 1 .. Len(accepted) : accepted[i] \in Copy)
    BY QueueConstants DEF TypeOK
  <2>4. \A c \in Copy : Passed(Msg[c]) => Passed(Msg[c])'
    BY <2>1, <2>2, <2>3 DEF Passed
  <2>5. AcceptedWasChecked'
    BY <2>1, <2>2, <2>3 DEF CheckInv, AcceptedWasChecked
  <2> QED  BY <2>1, <2>3, <2>4, <2>5 DEF CheckInv
<1>8. CASE UNCHANGED vars
  <2>1. \A m : Passed(m)' <=> Passed(m)
    BY <1>8 DEF Passed, vars
  <2>2. AcceptedWasChecked'
    BY <1>8 DEF CheckInv, AcceptedWasChecked, vars
  <2> QED  BY <1>8, <2>1, <2>2 DEF CheckInv, vars
<1> QED  BY <1>2, <1>3, <1>4, <1>5, <1>6, <1>7, <1>8, Zenon DEF Next, AddIncoming, Adder

\* Although AddIncoming reads the epoch three times while the main loop may enter
\* the next one, what gets into the queue was decoded, is of an epoch that has
\* begun, and was checked against the committee if that is the first epoch.
THEOREM AcceptedChecked == Spec => []AcceptedWasChecked
<1>1. Init => CheckInv
  BY DEF Init, CheckInv, AcceptedWasChecked
<1>2. QueueInv /\ CheckInv /\ [Next]_vars => CheckInv'
  BY ChecksNext DEF QueueInv
<1>3. CheckInv => AcceptedWasChecked
  BY DEF CheckInv
<1> QED  BY <1>1, <1>2, <1>3, QueueInvariant, PTL DEF Spec
=============================================================================
