---------------------------- MODULE IncomingQueue ----------------------------
(***************************************************************************)
(* From the network to the main loop: the subscriber hands a consensus     *)
(* message to AddIncoming, which drops it, retries it a second later or    *)
(* puts it in the bounded incoming queue; the main loop takes it out and   *)
(* may put it back with DelayedAdd.  The subscriber, one goroutine per     *)
(* timer that has fired and the main loop interleave.                      *)
(*                                                                         *)
(* A copy is one delivery of a message, and is at one place at a time:     *)
(*   "net"       not delivered yet                                         *)
(*   "incoming", "verify", "route"   in AddIncoming, before each of its    *)
(*               three reads of the epoch                                  *)
(*   "retry"     of a future epoch, waits for its timer                    *)
(*   "add", "forceAdd"   in the call of this name, waits for the mutex     *)
(*   "drop", "send"   holds the mutex: found the queue full, or not full   *)
(*   "queue"     in the channel                                            *)
(*   "delay"     put back by the main loop, waits for its timer            *)
(*   "handled", "refused", "dropped"   gone                                *)
(* An adder holds the mutex while it receives from and sends to the        *)
(* channel; the main loop receives without it.                             *)
(***************************************************************************)
EXTENDS Integers, FiniteSets, SequencesExt

CONSTANTS
    Msgs,         \* messages, which stand for their hashes
    Copy,         \* deliveries of messages
    Msg,          \* the message of a delivery
    EpochOf,      \* the epoch of a message
    Signed,       \* messages whose signature and signer index verify
    Decodable,    \* messages whose block decodes
    Members,      \* epochs in which this node is in the committee
    QueueCap,     \* capacity of the channel
    CacheSize,    \* size of the cache of hashes
    MaxEpoch,     \* bound: epochs
    MaxDelays     \* bound: DelayedAdd calls for one copy

ASSUME QueueConstants ==
    /\ Msg \in [Copy -> Msgs]
    /\ EpochOf \in [Msgs -> 0 .. MaxEpoch]
    /\ Signed \subseteq Msgs /\ Decodable \subseteq Msgs
    /\ Members \subseteq 0 .. MaxEpoch
    /\ QueueCap \in Nat \ {0} /\ CacheSize \in Nat \ {0}
    /\ MaxEpoch \in Nat /\ MaxDelays \in Nat

VARIABLES
    at,        \* the place of every copy
    sub,       \* the copy the subscriber is busy with, as a set
    queue,     \* the channel
    cache,     \* hashes of the messages accepted last, the oldest first
    epoch,     \* p.epochState.epoch
    delays,    \* ProcessCount of every copy
    accepted,  \* history: copies that Add accepted, in order
    first,     \* history: copies the main loop has taken, in order of the first time
    taken      \* history: copies taken since the adder in "drop" saw the queue full

vars == <<at, sub, queue, cache, epoch, delays, accepted, first, taken>>

Goto(c, place) == at' = [at EXCEPT ![c] = place]

\* AddIncoming returns: the subscriber takes its next message.
Returns(c) == sub' = sub \ {c}

Holders == {c \in Copy : at[c] \in {"drop", "send"}}
MutexFree == Holders = {}

-----------------------------------------------------------------------------
(* AddIncoming, called by the subscriber and by the timer of a retry        *)

\* subscribeToConsensusMessage
Receive(c) ==
    /\ sub = {} /\ at[c] = "net"
    /\ sub' = {c}
    /\ Goto(c, "incoming")
    /\ UNCHANGED <<queue, cache, epoch, delays, accepted, first, taken>>

DropOutdated(c) ==
    /\ at[c] = "incoming"
    /\ IF EpochOf[Msg[c]] < epoch
       THEN Goto(c, "refused") /\ Returns(c)
       ELSE Goto(c, "verify") /\ UNCHANGED sub
    /\ UNCHANGED <<queue, cache, epoch, delays, accepted, first, taken>>

\* Mutant: the signature is only checked for an epoch still to come.
VerifyEarly(c) ==
    /\ at[c] = "verify"
    /\ IF (EpochOf[Msg[c]] > epoch => Msg[c] \in Signed) /\ Msg[c] \in Decodable
       THEN Goto(c, "route") /\ UNCHANGED sub
       ELSE Goto(c, "refused") /\ Returns(c)
    /\ UNCHANGED <<queue, cache, epoch, delays, accepted, first, taken>>

\* The signature is only checked against the committee of the present epoch.
Verify(c) ==
    /\ at[c] = "verify"
    /\ IF (EpochOf[Msg[c]] = epoch => Msg[c] \in Signed) /\ Msg[c] \in Decodable
       THEN Goto(c, "route") /\ UNCHANGED sub
       ELSE Goto(c, "refused") /\ Returns(c)
    /\ UNCHANGED <<queue, cache, epoch, delays, accepted, first, taken>>

Route(c) ==
    /\ at[c] = "route"
    /\ IF EpochOf[Msg[c]] = epoch
       THEN Goto(c, "add") /\ UNCHANGED sub
       ELSE Goto(c, "retry") /\ Returns(c)
    /\ UNCHANGED <<queue, cache, epoch, delays, accepted, first, taken>>

\* Mutant: the timer calls AddIncoming only while the epoch is still to come.
RetryOnce(c) ==
    /\ at[c] = "retry" /\ EpochOf[Msg[c]] > epoch
    /\ Goto(c, "incoming")
    /\ UNCHANGED <<sub, queue, cache, epoch, delays, accepted, first, taken>>

Retry(c) ==
    /\ at[c] = "retry"
    /\ Goto(c, "incoming")
    /\ UNCHANGED <<sub, queue, cache, epoch, delays, accepted, first, taken>>

-----------------------------------------------------------------------------
(* Add and forceAdd                                                         *)

\* Mutant: makes room while a slot is left.
TestLenEarly(c) ==
    Goto(c, IF Len(queue) >= QueueCap - 1 THEN "drop" ELSE "send") /\ taken' = 0

\* The first test of the loop that makes room.
TestLen(c) == Goto(c, IF Len(queue) >= QueueCap THEN "drop" ELSE "send") /\ taken' = 0

Remember(m) == LET s == Append(cache, m)
               IN  IF Len(s) > CacheSize THEN Tail(s) ELSE s

\* Mutant: the hash is not remembered.
AddForgets(c) ==
    /\ at[c] = "add" /\ MutexFree
    /\ IF Contains(cache, Msg[c])
       THEN /\ Goto(c, "refused") /\ Returns(c)
            /\ UNCHANGED <<accepted, taken>>
       ELSE /\ TestLen(c)
            /\ accepted' = Append(accepted, c)
            /\ UNCHANGED sub
    /\ UNCHANGED <<cache, queue, epoch, delays, first>>

Add(c) ==
    /\ at[c] = "add" /\ MutexFree
    /\ IF Contains(cache, Msg[c])
       THEN /\ Goto(c, "refused") /\ Returns(c)
            /\ UNCHANGED <<cache, accepted, taken>>
       ELSE /\ cache' = Remember(Msg[c])
            /\ TestLen(c)
            /\ accepted' = Append(accepted, c)
            /\ UNCHANGED sub
    /\ UNCHANGED <<queue, epoch, delays, first>>

\* Mutant: a message that is put back does not take the mutex.
forceAddUnlocked(c) ==
    /\ at[c] = "forceAdd"
    /\ TestLen(c)
    /\ UNCHANGED <<sub, queue, cache, epoch, delays, accepted, first>>

forceAdd(c) ==
    /\ at[c] = "forceAdd" /\ MutexFree
    /\ TestLen(c)
    /\ UNCHANGED <<sub, queue, cache, epoch, delays, accepted, first>>

\* Mutant: a full queue drops the latest message.
DropLatest(c) ==
    /\ at[c] = "drop"
    /\ Goto(c, "refused") /\ Returns(c)
    /\ UNCHANGED <<queue, cache, epoch, delays, accepted, first, taken>>

\* Receive the oldest message; this waits if the main loop has emptied the
\* queue meanwhile.  After it the queue is not full: only adders send.
DropOldest(c) ==
    /\ at[c] = "drop" /\ queue # << >>
    /\ at' = [at EXCEPT ![c] = "send", ![Head(queue)] = "dropped"]
    /\ queue' = Tail(queue)
    /\ UNCHANGED <<sub, cache, epoch, delays, accepted, first, taken>>

\* Mutant: the message goes to the front of the queue.
SendFront(c) ==
    /\ at[c] = "send" /\ Len(queue) < QueueCap
    /\ queue' = <<c>> \o queue
    /\ Goto(c, "queue") /\ Returns(c)
    /\ UNCHANGED <<cache, epoch, delays, accepted, first, taken>>

Send(c) ==
    /\ at[c] = "send" /\ Len(queue) < QueueCap
    /\ queue' = Append(queue, c)
    /\ Goto(c, "queue") /\ Returns(c)
    /\ UNCHANGED <<cache, epoch, delays, accepted, first, taken>>

-----------------------------------------------------------------------------
(* The main loop                                                            *)

\* Take the oldest message; skip it if the node is not in the committee or the
\* message is of another epoch, handle it, or put it back with DelayedAdd
\* (its parent or its block is unknown).
Take(c) ==
    /\ queue # << >> /\ Head(queue) = c
    /\ queue' = Tail(queue)
    /\ first' = IF Contains(first, c) THEN first ELSE Append(first, c)
    /\ taken' = IF \E d \in Copy : at[d] = "drop" THEN taken + 1 ELSE 0
    /\ \/ Goto(c, "handled") /\ UNCHANGED delays
       \/ /\ epoch \in Members /\ EpochOf[Msg[c]] = epoch
          /\ delays[c] < MaxDelays
          /\ delays' = [delays EXCEPT ![c] = @ + 1]
          /\ Goto(c, "delay")
    /\ UNCHANGED <<sub, cache, epoch, accepted>>

DelayExpires(c) ==
    /\ at[c] = "delay"
    /\ Goto(c, "forceAdd")
    /\ UNCHANGED <<sub, queue, cache, epoch, delays, accepted, first, taken>>

\* The main loop enters the next epoch (a commit, or Regulate).
NextEpoch ==
    /\ epoch < MaxEpoch
    /\ epoch' = epoch + 1
    /\ UNCHANGED <<at, sub, queue, cache, delays, accepted, first, taken>>

-----------------------------------------------------------------------------
Init ==
    /\ at = [c \in Copy |-> "net"]
    /\ sub = {}
    /\ queue = << >>
    /\ cache = << >>
    /\ epoch = 0
    /\ delays = [c \in Copy |-> 0]
    /\ accepted = << >>
    /\ first = << >>
    /\ taken = 0

AddIncoming(c) == Receive(c) \/ DropOutdated(c) \/ Verify(c) \/ Route(c) \/ Retry(c)
Adder(c) == Add(c) \/ forceAdd(c) \/ DropOldest(c) \/ Send(c)
MainLoop(c) == Take(c) \/ DelayExpires(c)

Next == (\E c \in Copy : AddIncoming(c) \/ Adder(c) \/ MainLoop(c)) \/ NextEpoch

Spec == Init /\ [][Next]_vars

\* Every goroutine that can run does, and every timer fires.  A Go mutex hands
\* itself to the waiter that has starved longest, so a waiter gets its turn.
FairSpec ==
    /\ Spec
    /\ WF_vars(\E c \in Copy : Take(c))
    /\ \A c \in Copy :
        /\ WF_vars(DropOutdated(c) \/ Verify(c) \/ Route(c) \/ Retry(c) \/ DelayExpires(c)
                   \/ DropOldest(c) \/ Send(c))
        /\ SF_vars(Add(c) \/ forceAdd(c))

-----------------------------------------------------------------------------
Places == {"net", "incoming", "verify", "route", "retry", "add", "forceAdd",
           "drop", "send", "queue", "delay", "handled", "refused", "dropped"}

\* Types, and the bounds of the channel and of the cache.
TypeOK ==
    /\ at \in [Copy -> Places]
    /\ sub \subseteq Copy
    /\ queue \in Seq(Copy) /\ Len(queue) <= QueueCap
    /\ cache \in Seq(Msgs) /\ Len(cache) <= CacheSize
    /\ epoch \in 0 .. MaxEpoch
    /\ delays \in [Copy -> 0 .. MaxDelays]
    /\ accepted \in Seq(Copy) /\ first \in Seq(Copy)
    /\ taken \in Nat

\* The adder that is about to send finds room in the channel, whatever the
\* other adders and the main loop did since it tested the length: it never
\* waits in the send with the mutex held (Add, forceAdd).
SendHasRoom == \A c \in Copy : at[c] = "send" => Len(queue) < QueueCap

\* An adder that found the queue full and is about to drop the oldest message
\* waits, with the mutex held, only if the main loop has taken a whole queue
\* of messages between the test and the receive.
DropWaitsOnlyAfterDrain ==
    \A c \in Copy : at[c] = "drop" /\ queue = << >> => taken >= QueueCap

\* The copy c was accepted before the copy d.
Before(c, d) ==
    \A i, j \in 1 .. Len(accepted) : accepted[i] = c /\ accepted[j] = d => i < j

\* Add accepts a delivery once, and the main loop sees deliveries for the first
\* time in the order in which Add accepted them; some are dropped in between.
FirstSeenInOrder ==
    /\ \A i, j \in 1 .. Len(accepted) : accepted[i] = accepted[j] => i = j
    /\ \A i \in 1 .. Len(first) : Contains(accepted, first[i])
    /\ \A i, j \in 1 .. Len(first) : i < j => Before(first[i], first[j])

\* Add accepts a message again only after it has accepted CacheSize other ones
\* since.
AcceptedOnceWhileCached ==
    \A i, j \in 1 .. Len(accepted) :
        i < j /\ Msg[accepted[i]] = Msg[accepted[j]] =>
            Cardinality({Msg[accepted[k]] : k \in (i + 1) .. (j - 1)}) >= CacheSize

\* What Add has accepted was decoded and is of an epoch that has begun.  Its
\* signature was checked if its epoch is the one the node started in; for a
\* later one this is not promised, since that epoch may begin between the two
\* times AddIncoming reads it (for the signature and for the queue).
AcceptedWasChecked ==
    \A i \in 1 .. Len(accepted) :
        LET m == Msg[accepted[i]] IN
        /\ m \in Decodable /\ EpochOf[m] <= epoch
        /\ EpochOf[m] = 0 => m \in Signed

\* An adder waits for a message to drop, and the queue is empty.
Stuck == \E c \in Copy : at[c] = "drop" /\ queue = << >>

\* Every accepted message reaches the main loop or is dropped to make room for
\* a newer one, unless an adder waits on an empty queue.
AcceptedIsSeenOrDropped ==
    \A c \in Copy : at[c] \in {"drop", "send", "queue"} ~>
        (Contains(first, c) \/ at[c] = "dropped" \/ Stuck)

\* A message that came before its epoch is considered again when its epoch has
\* come: AddIncoming accepts it, finds it known or refuses it.
EarlyMessageReconsidered ==
    \A c \in Copy : at[c] = "retry" /\ EpochOf[Msg[c]] <= epoch ~>
        (Contains(accepted, c) \/ at[c] = "refused" \/ Stuck)
=============================================================================
