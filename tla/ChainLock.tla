------------------------------ MODULE ChainLock ------------------------------
(***************************************************************************)
(* The read-write lock of the chain (Chain.rw).  The main loop of the      *)
(* pacemaker adds blocks under the write lock; servers of peers' requests  *)
(* and of the HTTP API read under the read lock.  GetTrunkBlock takes the  *)
(* read lock a second time, in GetTrunkBlockID, while it holds it.  As in  *)
(* sync.RWMutex, a writer that waits keeps new readers out.                *)
(*                                                                         *)
(* A block of the trunk is its number, certificates are left out.  A call  *)
(* under the lock that takes no other lock is one step.                    *)
(***************************************************************************)
EXTENDS Integers, FiniteSets

CONSTANTS
    Servers,
    MaxNumber,    \* bound: blocks added
    MaxRequests   \* bound: requests of one server

VARIABLES
    best,      \* number of bestBlock
    writer,    \* AddBlock: "idle", "waiting" in Lock or "holding" the lock
    holds,     \* servers that hold the read lock
    pc,        \* of a server's request
    num,       \* the number it is at
    requests

vars == <<best, writer, holds, pc, num, requests>>

\* RLock does not block.
CanRLock == writer = "idle"

-----------------------------------------------------------------------------
(* AddBlock                                                                 *)

Lock ==
    /\ writer = "idle" /\ best < MaxNumber
    /\ writer' = "waiting"
    /\ UNCHANGED <<best, holds, pc, num, requests>>

Locked ==
    /\ writer = "waiting" /\ holds = {}
    /\ writer' = "holding"
    /\ UNCHANGED <<best, holds, pc, num, requests>>

AddBlock ==
    /\ writer = "holding"
    /\ best' = best + 1
    /\ writer' = "idle"
    /\ UNCHANGED <<holds, pc, num, requests>>

-----------------------------------------------------------------------------
(* handleRPC, GET_BLOCKS_FROM_NUM                                           *)

Goto(s, l) == pc' = [pc EXCEPT ![s] = l]

Request(s) ==
    /\ pc[s] = "idle" /\ requests[s] < MaxRequests
    /\ requests' = [requests EXCEPT ![s] = @ + 1]
    /\ \E n \in 0 .. MaxNumber : num' = [num EXCEPT ![s] = n]
    /\ Goto(s, "check")
    /\ UNCHANGED <<best, writer, holds>>

\* BestBlock: no block above it is asked for.
Check(s) ==
    /\ pc[s] = "check" /\ CanRLock
    /\ Goto(s, IF num[s] > best THEN "idle" ELSE "block")
    /\ UNCHANGED <<best, writer, holds, num, requests>>

\* GetTrunkBlock takes the read lock: for the block, or for the next one.
GetTrunkBlock(s) ==
    /\ pc[s] \in {"block", "next"} /\ CanRLock
    /\ holds' = holds \cup {s}
    /\ Goto(s, IF pc[s] = "block" THEN "blockID" ELSE "nextID")
    /\ UNCHANGED <<best, writer, num, requests>>

\* GetTrunkBlockID takes it again, both are released on return.
GetTrunkBlockID(s) ==
    /\ pc[s] \in {"blockID", "nextID"} /\ CanRLock
    /\ holds' = holds \ {s}
    /\ IF pc[s] = "blockID"
       THEN /\ Goto(s, "compare")
            /\ UNCHANGED num
       ELSE /\ Goto(s, "check")
            /\ num' = [num EXCEPT ![s] = @ + 1]
    /\ UNCHANGED <<best, writer, requests>>

\* BestBlock again: the certificate is the best one or in the next block.
Compare(s) ==
    /\ pc[s] = "compare" /\ CanRLock
    /\ Goto(s, IF best = num[s] THEN "bestQC" ELSE "next")
    /\ UNCHANGED <<best, writer, holds, num, requests>>

BestQC(s) ==
    /\ pc[s] = "bestQC" /\ CanRLock
    /\ num' = [num EXCEPT ![s] = @ + 1]
    /\ Goto(s, "check")
    /\ UNCHANGED <<best, writer, holds, requests>>

-----------------------------------------------------------------------------
Init ==
    /\ best = 0 /\ writer = "idle" /\ holds = {}
    /\ pc = [s \in Servers |-> "idle"]
    /\ num = [s \in Servers |-> 0]
    /\ requests = [s \in Servers |-> 0]

Write == Lock \/ Locked \/ AddBlock

Serve(s) ==
    \/ Check(s) \/ GetTrunkBlock(s) \/ GetTrunkBlockID(s)
    \/ Compare(s) \/ BestQC(s)

Next == Write \/ \E s \in Servers : Request(s) \/ Serve(s)

\* The scheduler runs every goroutine that can run, and sync.RWMutex keeps
\* neither readers nor a writer out for ever: after a writer the readers that
\* waited go first.
Fairness == WF_vars(Write) /\ \A s \in Servers : SF_vars(Serve(s))

Spec == Init /\ [][Next]_vars /\ Fairness

-----------------------------------------------------------------------------
\* "It's thread-safe": a request that reads the chain while blocks are added
\* is answered.
RequestsReturn == \A s \in Servers : pc[s] # "idle" ~> pc[s] = "idle"
=============================================================================
