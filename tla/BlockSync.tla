------------------------------ MODULE BlockSync ------------------------------
(***************************************************************************)
(* A member that is behind, and the peer it asks.  The download runs a     *)
(* goroutine that requests blocks and one that processes them; the main    *)
(* loop of the pacemaker commits blocks at the same time, through the same *)
(* CommitBlock and with no lock around it.  The peer adds blocks to its    *)
(* chain while it puts an answer together.                                 *)
(*                                                                         *)
(* The chain is one branch, so a block is its number, and a certificate is *)
(* the number of the block it certifies.  Outcomes says what becomes of an *)
(* answer at the client: "answer" if it is decoded, "error" if not.  In    *)
(* the code it is always "error": GetBlocksFromNumber decodes into a value *)
(* that is not a pointer, and RLP-decodes the SSZ envelope of the answer.  *)
(* The runs allow both, which covers the code as it is and with the        *)
(* decoding corrected in both places.                                      *)
(***************************************************************************)
EXTENDS Integers, FiniteSets, SequencesExt

CONSTANTS
    Outcomes,       \* of decoding an answer
    MaxBatch,       \* blocks in one answer
    StreamCap,      \* capacity of blockCh
    MaxBlock,       \* bound: block numbers
    MaxDownloads    \* bound: downloads

ASSUME SyncConstants ==
    /\ Outcomes \subseteq {"answer", "error"}
    /\ {MaxBatch, StreamCap} \subseteq Nat \ {0}
    /\ MaxBlock \in Nat /\ MaxDownloads \in Nat

VARIABLES
    peerBest,   \* the best block of the peer
    answer,     \* the answer the peer puts together
    best,       \* the best block of the member
    bestQC,     \* its best certificate
    app,        \* the blocks its application has executed
    commits,    \* per caller of CommitBlock: the block it is at, and where
    ready,      \* commitReady of the main loop
    lastCommitted,
    download,   \* the state of the downloader
    from,       \* fromNum
    batch,      \* the answer decoded, as far as it is not sent on
    stream,     \* blockCh
    consumer,   \* the state of the goroutine that runs handleBlockStream
    errs,       \* number of errors in errCh
    downloads,
    overlap     \* history: a commit began while the other caller had one under way

server == <<peerBest, answer>>
chain == <<best, bestQC>>
loop == <<ready, lastCommitted>>
sync == <<download, from, batch, stream, consumer, errs, downloads>>
vars == <<server, chain, app, commits, loop, sync, overlap>>

Callers == {"sync", "loop"}
Other(c) == IF c = "sync" THEN "loop" ELSE "sync"
Idle == [at |-> "idle", num |-> 0, qc |-> 0]
NoAnswer == [at |-> "idle", num |-> 0, list |-> << >>]

-----------------------------------------------------------------------------
(* The peer: GET_BLOCKS_FROM_NUM of handleRPC                               *)

PeerAddBlock ==
    /\ peerBest < MaxBlock
    /\ peerBest' = peerBest + 1
    /\ UNCHANGED <<answer, chain, app, commits, loop, sync, overlap>>

\* Mutant: the certificate of a block with a child is the one in the block.
EscortFromBlock(num) == num - 1

\* The certificate of a block that has a child is the one in the child.
EscortFromChild(num) == num

\* The next block; its number is compared with the one of the best block.
ServeBlock ==
    /\ answer.at = "next"
    /\ answer.num <= peerBest /\ Len(answer.list) < MaxBatch
    /\ answer' = IF answer.num = peerBest
                 THEN [answer EXCEPT !.at = "tip"]
                 ELSE [answer EXCEPT !.num = @ + 1,
                                     !.list = Append(@, [num |-> answer.num,
                                                         qc |-> EscortFromChild(answer.num)])]
    /\ UNCHANGED <<peerBest, chain, app, commits, loop, sync, overlap>>

\* BestQC is read after the comparison.
ServeTip ==
    /\ answer.at = "tip"
    /\ answer' = [answer EXCEPT !.at = "next", !.num = @ + 1,
                                !.list = Append(@, [num |-> answer.num, qc |-> peerBest])]
    /\ UNCHANGED <<peerBest, chain, app, commits, loop, sync, overlap>>

ServeDone ==
    /\ answer.at = "next"
    /\ answer.num > peerBest \/ Len(answer.list) >= MaxBatch
    /\ answer' = [answer EXCEPT !.at = "sent"]
    /\ UNCHANGED <<peerBest, chain, app, commits, loop, sync, overlap>>

-----------------------------------------------------------------------------
(* CommitBlock, called by the main loop and by the sync goroutine           *)

\* Mutant: the number is not compared with the best block.
StartCommitUnchecked(c, num, qc) ==
    /\ commits' = [commits EXCEPT ![c] = [at |-> "apply", num |-> num, qc |-> qc]]
    /\ overlap' = (overlap \/ commits[Other(c)].at \in {"apply", "add"})

\* errKnownBlock is answered for a block that is not above the best one.
StartCommit(c, num, qc) ==
    /\ commits' = [commits EXCEPT ![c] = [at |-> IF num <= best THEN "failed" ELSE "apply",
                                          num |-> num, qc |-> qc]]
    /\ overlap' = (overlap \/ (num > best /\ commits[Other(c)].at \in {"apply", "add"}))

ApplyBlock(c) ==
    /\ commits[c].at = "apply"
    /\ app' = Append(app, [num |-> commits[c].num, by |-> c])
    /\ commits' = [commits EXCEPT ![c].at = "add"]
    /\ UNCHANGED <<server, chain, loop, sync, overlap>>

\* AddBlock: the block is not there yet and its parent is.
Accepts(num) == num = best + 1

\* Mutant: a commit that fails is tried again.
AddBlockRetries(c) ==
    /\ commits[c].at = "add"
    /\ IF Accepts(commits[c].num)
       THEN /\ best' = commits[c].num /\ bestQC' = commits[c].qc
            /\ commits' = [commits EXCEPT ![c].at = "publish"]
       ELSE /\ commits' = [commits EXCEPT ![c].at = "apply"]
            /\ UNCHANGED chain
    /\ UNCHANGED <<server, app, loop, sync, overlap>>

AddBlock(c) ==
    /\ commits[c].at = "add"
    /\ IF Accepts(commits[c].num)
       THEN /\ best' = commits[c].num /\ bestQC' = commits[c].qc
            /\ commits' = [commits EXCEPT ![c].at = "publish"]
       ELSE /\ commits' = [commits EXCEPT ![c].at = "failed"]
            /\ UNCHANGED chain
    /\ UNCHANGED <<server, app, loop, sync, overlap>>

\* p.lastCommitted is set after AddBlock.
Publish(c) ==
    /\ commits[c].at = "publish"
    /\ lastCommitted' = commits[c].num
    /\ commits' = [commits EXCEPT ![c].at = "done"]
    /\ UNCHANGED <<server, chain, app, ready, sync, overlap>>

\* The main loop: Update collects the blocks, OnCommit goes through them and
\* skips those that fail.
Update(num) ==
    /\ ready = << >> /\ num > lastCommitted
    /\ ready' = [i \in 1 .. num - lastCommitted |-> lastCommitted + i]
    /\ UNCHANGED <<server, chain, app, commits, lastCommitted, sync, overlap>>

OnCommit ==
    /\ ready # << >> /\ commits["loop"].at = "idle"
    /\ StartCommit("loop", Head(ready), Head(ready))
    /\ UNCHANGED <<server, chain, app, loop, sync>>

OnCommitNext ==
    /\ commits["loop"].at \in {"done", "failed"}
    /\ commits' = [commits EXCEPT !["loop"] = Idle]
    /\ ready' = Tail(ready)
    /\ UNCHANGED <<server, chain, app, lastCommitted, sync, overlap>>

-----------------------------------------------------------------------------
(* download                                                                 *)

StartDownload ==
    /\ download = "idle" /\ downloads < MaxDownloads
    /\ download' = "request" /\ consumer' = "range"
    /\ from' = best + 1
    /\ errs' = 0
    /\ downloads' = downloads + 1
    /\ UNCHANGED <<server, chain, app, commits, loop, batch, stream, overlap>>

\* GetBlocksFromNumber
Request ==
    /\ download = "request"
    /\ answer' = [at |-> "next", num |-> from, list |-> << >>]
    /\ download' = "wait"
    /\ UNCHANGED <<peerBest, chain, app, commits, loop, from, batch, stream, consumer, errs,
                   downloads, overlap>>

\* The answer is empty: blockCh is closed.  Otherwise its numbers are checked.
Decoded ==
    /\ download = "wait" /\ answer.at = "sent" /\ "answer" \in Outcomes
    /\ answer' = NoAnswer
    /\ IF answer.list = << >>
       THEN download' = "closed" /\ UNCHANGED <<from, batch>>
       ELSE /\ download' = "send"
            /\ batch' = answer.list
            /\ from' = from + Len(answer.list)
    /\ UNCHANGED <<peerBest, chain, app, commits, loop, stream, consumer, errs, downloads, overlap>>

\* The request fails, the answer is not decoded or its numbers are broken.
RequestFails ==
    /\ download = "wait" /\ "error" \in Outcomes
    /\ answer' = NoAnswer
    /\ download' = "error"
    /\ UNCHANGED <<peerBest, chain, app, commits, loop, from, batch, stream, consumer, errs,
                   downloads, overlap>>

\* Mutant: errCh has room for one error.
RoomForOneError == errs < 1

\* errCh has room for two errors.
RoomForError == errs < 2

\* errCh <- err, which waits for room, then blockCh is closed.
DownloadError ==
    /\ download = "error" /\ RoomForError
    /\ errs' = errs + 1
    /\ download' = "closed"
    /\ UNCHANGED <<server, chain, app, commits, loop, from, batch, stream, consumer, downloads, overlap>>

\* The consumer has returned and cancelled the context.
Cancelled == consumer = "done"

SendBlock ==
    /\ download = "send" /\ batch # << >> /\ Len(stream) < StreamCap
    /\ stream' = Append(stream, Head(batch))
    /\ batch' = Tail(batch)
    /\ download' = IF Len(batch) = 1 THEN "request" ELSE "send"
    /\ UNCHANGED <<server, chain, app, commits, loop, from, consumer, errs, downloads, overlap>>

SendCancelled ==
    /\ download = "send" /\ Cancelled
    /\ batch' = << >>
    /\ download' = "closed"
    /\ UNCHANGED <<server, chain, app, commits, loop, from, stream, consumer, errs, downloads, overlap>>

-----------------------------------------------------------------------------
(* handleBlockStream and processBlock                                       *)

\* The block must extend the best block.
TakeBlock ==
    /\ consumer = "range" /\ stream # << >> /\ commits["sync"].at = "idle"
    /\ LET b == Head(stream)
       IN  IF b.num = best + 1
           THEN /\ commits' = [commits EXCEPT !["sync"] = [at |-> "validate", num |-> b.num, qc |-> b.qc]]
                /\ UNCHANGED consumer
           ELSE consumer' = "error" /\ UNCHANGED commits
    /\ stream' = Tail(stream)
    /\ UNCHANGED <<server, chain, app, loop, download, from, batch, errs, downloads, overlap>>

\* A recent block needs its own certificate, and the clock decides what is
\* recent.  A block that is known by now, or of a time to come, is passed over.
ValidateSyncedBlock ==
    LET b == commits["sync"]
    IN  /\ b.at = "validate"
        /\ \/ /\ b.qc # b.num
              /\ consumer' = "error"
              /\ commits' = [commits EXCEPT !["sync"] = Idle]
              /\ UNCHANGED overlap
           \/ /\ b.num <= best \/ b.qc = b.num
              /\ commits' = [commits EXCEPT !["sync"] = Idle]
              /\ UNCHANGED <<consumer, overlap>>
           \/ StartCommit("sync", b.num, b.qc) /\ UNCHANGED consumer
        /\ UNCHANGED <<server, chain, app, loop, download, from, batch, stream, errs, downloads>>

Processed ==
    /\ commits["sync"].at \in {"done", "failed"}
    /\ commits' = [commits EXCEPT !["sync"] = Idle]
    /\ consumer' = IF commits["sync"].at = "done" THEN "range" ELSE "error"
    /\ UNCHANGED <<server, chain, app, loop, download, from, batch, stream, errs, downloads, overlap>>

\* errCh <- err, after which the context is cancelled.
ConsumerError ==
    /\ consumer = "error" /\ RoomForError
    /\ errs' = errs + 1
    /\ consumer' = "done"
    /\ UNCHANGED <<server, chain, app, commits, loop, download, from, batch, stream, downloads, overlap>>

\* blockCh is closed and empty.
ConsumerEnds ==
    /\ consumer = "range" /\ stream = << >> /\ download = "closed"
    /\ commits["sync"].at = "idle"
    /\ consumer' = "done"
    /\ UNCHANGED <<server, chain, app, commits, loop, download, from, batch, stream, errs, downloads,
                   overlap>>

\* goes.Wait returns.
EndDownload ==
    /\ download = "closed" /\ consumer = "done"
    /\ download' = "idle"
    /\ stream' = << >>
    /\ UNCHANGED <<server, chain, app, commits, loop, from, batch, consumer, errs, downloads, overlap>>

-----------------------------------------------------------------------------
Init ==
    /\ peerBest = 0 /\ answer = NoAnswer
    /\ best = 0 /\ bestQC = 0 /\ app = << >>
    /\ commits = [c \in Callers |-> Idle]
    /\ ready = << >> /\ lastCommitted = 0
    /\ download = "idle" /\ from = 0 /\ batch = << >> /\ stream = << >>
    /\ consumer = "done" /\ errs = 0 /\ downloads = 0
    /\ overlap = FALSE

Peer == PeerAddBlock \/ ServeBlock \/ ServeTip \/ ServeDone
Commit(c) == ApplyBlock(c) \/ AddBlock(c) \/ Publish(c)
MainLoop == (\E num \in 1 .. MaxBlock : Update(num)) \/ OnCommit \/ OnCommitNext
Downloader == Request \/ Decoded \/ RequestFails \/ DownloadError \/ SendBlock \/ SendCancelled
Consumer == TakeBlock \/ ValidateSyncedBlock \/ Processed \/ ConsumerError \/ ConsumerEnds

Next ==
    \/ Peer \/ MainLoop
    \/ \E c \in Callers : Commit(c)
    \/ StartDownload \/ Downloader \/ Consumer \/ EndDownload

Spec == Init /\ [][Next]_vars

\* Every goroutine that can go on does, and the peer answers.
FairSpec ==
    /\ Spec
    /\ WF_vars(ServeBlock \/ ServeTip \/ ServeDone)
    /\ WF_vars(Commit("sync"))
    /\ WF_vars(Downloader) /\ WF_vars(Consumer) /\ WF_vars(EndDownload)

-----------------------------------------------------------------------------
(* Properties                                                               *)

Items == [num : Nat, qc : Nat]
Steps == {"idle", "validate", "apply", "add", "publish", "done", "failed"}

\* Types, and the limits of an answer, of the stream and of errCh.
TypeOK ==
    /\ {peerBest, best, bestQC, from, downloads} \subseteq Nat
    /\ answer \in [at : {"idle", "next", "tip", "sent"}, num : Nat, list : Seq(Items)]
    /\ Len(answer.list) <= MaxBatch /\ (answer.at = "tip" => Len(answer.list) < MaxBatch)
    /\ app \in Seq([num : Nat, by : Callers])
    /\ commits \in [Callers -> [at : Steps, num : Nat, qc : Nat]]
    /\ ready \in Seq(Nat) /\ lastCommitted \in 0 .. best
    /\ download \in {"idle", "request", "wait", "send", "error", "closed"}
    /\ consumer \in {"range", "error", "done"}
    /\ batch \in Seq(Items)
    /\ stream \in Seq(Items) /\ Len(stream) <= StreamCap
    /\ errs \in 0 .. 2
    /\ overlap \in BOOLEAN

\* As long as the two callers of CommitBlock do not overlap, the application
\* executes every block of the chain once and in order.
InOrderUnlessOverlap ==
    ~ overlap =>
        [i \in 1 .. Len(app) |-> app[i].num] =
            [i \in 1 .. best + Cardinality({c \in Callers : commits[c].at = "add"}) |-> i]

\* However the two overlap, no caller has the application execute a block that
\* it has had executed before: a block is executed twice at most.
ExecutedOncePerCaller == IsInjective(app)

\* The best certificate is of the best block or of a later one, though the peer
\* reads its best block and its best certificate one after the other: a restart,
\* which goes back to the block of an older certificate, keeps the best block.
CertificateNotOlder == bestQC >= best

\* A download returns, whether the requests fail, the main loop overtakes it or
\* the stream is full when its consumer gives up ("it's important to set cap
\* to 2").
DownloadEnds == download # "idle" ~> download = "idle"
=============================================================================
