-------------------------- MODULE BlockSyncProofs ---------------------------
(***************************************************************************)
(* The two callers of CommitBlock and the download, for every number of    *)
(* blocks and downloads and every size of an answer and of the stream.     *)
(***************************************************************************)
EXTENDS BlockSync, FiniteSetTheorems, SequenceTheorems, TLAPS

\* The certificates in a sequence of blocks are of these blocks or later ones.
Escorts(s) == \A i \in 1 .. Len(s) : s[i].qc >= s[i].num

\* So it is from the peer's answer to the commit.
Escorted ==
    /\ Escorts(answer.list) /\ Escorts(batch) /\ Escorts(stream)
    /\ answer.at = "tip" => answer.num <= peerBest
    /\ \A c \in Callers : commits[c].qc >= commits[c].num
    /\ CertificateNotOlder

\* A block under way is at most one above the best one, and not above it once
\* it is added or refused.
InReach ==
    \A c \in Callers :
        /\ commits[c].at # "idle" => commits[c].num <= best + 1
        /\ commits[c].at \in {"publish", "done", "failed"} => commits[c].num <= best

\* The main loop goes through successive blocks, the first of which is at most
\* one above the best block.
LoopInOrder ==
    /\ \A i, j \in 1 .. Len(ready) : ready[j] = ready[i] + (j - i)
    /\ ready # << >> => ready[1] <= best + 1
    /\ commits["loop"].at # "idle" => ready # << >> /\ ready[1] = commits["loop"].num

\* An executed block is in the chain or its caller is about to add it, and a
\* block that a caller is about to execute it has not executed before.
Executed ==
    /\ \A i \in 1 .. Len(app) :
        LET e == app[i]
        IN  e.num <= best \/ (commits[e.by].at = "add" /\ commits[e.by].num = e.num)
    /\ \A i \in 1 .. Len(app), c \in Callers :
        commits[c].at = "apply" => app[i] # [num |-> commits[c].num, by |-> c]
    /\ \A i, j \in 1 .. Len(app) : app[i] = app[j] => i = j

\* Unless the callers overlap, one of them at most executes or adds a block,
\* which is the next one, and the application has executed 1, 2, 3 ...
Adding == \E c \in Callers : commits[c].at = "add"
Alone ==
    ~ overlap =>
        /\ \A c \in Callers : commits[c].at \in {"apply", "add"} =>
              /\ commits[c].num = best + 1
              /\ commits[Other(c)].at \notin {"apply", "add"}
        /\ Len(app) = IF Adding THEN best + 1 ELSE best
        /\ \A i \in 1 .. Len(app) : app[i].num = i

SyncInv == TypeOK /\ Escorted /\ InReach /\ LoopInOrder /\ Executed /\ Alone
CommitInv == InReach /\ Executed /\ Alone

-----------------------------------------------------------------------------
(* CommitBlock                                                              *)

\* The two callers.
LEMMA TwoCallers ==
    \A c \in Callers : /\ Other(c) \in Callers /\ Other(c) # c
                       /\ \A d \in Callers : d = c \/ d = Other(c)
BY DEF Callers, Other

\* Sequences: length and elements, Append, Head and Tail.
LEMMA SeqFacts ==
    ASSUME NEW S, NEW s \in Seq(S)
    PROVE  /\ Len(s) \in Nat /\ \A i \in 1 .. Len(s) : s[i] \in S
           /\ \A e \in S : /\ Append(s, e) \in Seq(S) /\ Len(Append(s, e)) = Len(s) + 1
                           /\ \A i \in 1 .. Len(s) : Append(s, e)[i] = s[i]
                           /\ Append(s, e)[Len(s) + 1] = e
           /\ s # << >> => /\ Len(s) > 0 /\ Head(s) = s[1] /\ Tail(s) \in Seq(S)
                           /\ Len(Tail(s)) = Len(s) - 1
                           /\ \A i \in 1 .. Len(Tail(s)) : Tail(s)[i] = s[i + 1]
OBVIOUS

\* The types the steps of CommitBlock need.
LEMMA CommitTypes ==
    ASSUME TypeOK
    PROVE  /\ best \in Nat /\ Len(app) \in Nat /\ overlap \in BOOLEAN
           /\ \A c \in Callers : commits[c] \in [at : Steps, num : Nat, qc : Nat]
           /\ \A i \in 1 .. Len(app) : app[i] \in [num : Nat, by : Callers]
<1>1. /\ best \in Nat /\ overlap \in BOOLEAN /\ app \in Seq([num : Nat, by : Callers])
      /\ commits \in [Callers -> [at : Steps, num : Nat, qc : Nat]]
  BY DEF TypeOK
<1>2. Len(app) \in Nat /\ \A i \in 1 .. Len(app) : app[i] \in [num : Nat, by : Callers]
  BY <1>1, SeqFacts, Zenon
<1>3. \A c \in Callers : commits[c] \in [at : Steps, num : Nat, qc : Nat]
  BY <1>1, Zenon
<1> QED  BY <1>1, <1>2, <1>3

\* A caller that neither executes nor adds a block, before or after its step.
LEMMA QuietMove ==
    ASSUME TypeOK, CommitInv, NEW c \in Callers, NEW r \in [at : Steps, num : Nat, qc : Nat],
           commits' = [commits EXCEPT ![c] = r],
           commits[c].at \notin {"apply", "add"}, r.at \notin {"apply", "add"},
           r.at # "idle" => r.num <= best + 1,
           r.at \in {"publish", "done", "failed"} => r.num <= best,
           UNCHANGED <<best, app, overlap>>
    PROVE  CommitInv'
<1>1. /\ commits'[c] = r /\ \A d \in Callers : d # c => commits'[d] = commits[d]
      /\ \A d \in Callers : commits'[d].at \in {"apply", "add"} <=> commits[d].at \in {"apply", "add"}
      /\ \A d \in Callers : commits'[d].at = "add" <=> commits[d].at = "add"
      /\ \A d \in Callers : commits'[d].at = "apply" <=> commits[d].at = "apply"
      /\ \A d \in Callers : commits'[d].at \in {"apply", "add"} => commits'[d] = commits[d]
  BY DEF TypeOK
<1>2. InReach'
  BY <1>1 DEF CommitInv, InReach
<1>3. Executed'
  <2>1. \A i \in 1 .. Len(app) : app[i].by \in Callers
    BY CommitTypes
  <2> QED  BY <1>1, <2>1 DEF CommitInv, Executed
<1>4. Alone'
  <2>1. Adding' <=> Adding
    BY <1>1 DEF Adding
  <2> QED  BY <1>1, <2>1, TwoCallers DEF CommitInv, Alone
<1> QED  BY <1>2, <1>3, <1>4 DEF CommitInv

\* A caller that has compared the number of its block with the best block.
LEMMA StartCommitKeeps ==
    ASSUME TypeOK, CommitInv, NEW c \in Callers, NEW num \in Nat, NEW qc \in Nat,
           StartCommit(c, num, qc), num <= best + 1,
           commits[c].at \notin {"apply", "add"}, UNCHANGED <<best, app>>
    PROVE  CommitInv'
<1> DEFINE r == [at |-> IF num <= best THEN "failed" ELSE "apply", num |-> num, qc |-> qc]
<1>0. r \in [at : Steps, num : Nat, qc : Nat] /\ commits' = [commits EXCEPT ![c] = r]
  BY DEF StartCommit, Steps
<1>a. best \in Nat
  BY CommitTypes
<1>1. CASE num <= best
  <2>1. r.at = "failed" /\ UNCHANGED overlap
    BY <1>1, <1>a, CommitTypes DEF StartCommit
  <2> QED  BY <1>0, <1>1, <2>1, QuietMove
<1>2. CASE ~(num <= best)
  <2>0. num = best + 1 /\ r.at = "apply"
    BY <1>2, <1>a
  <2>1. /\ commits'[c] = r /\ \A d \in Callers : d # c => commits'[d] = commits[d]
        /\ \A d \in Callers : commits'[d].at = "add" <=> commits[d].at = "add"
    BY <1>0, <2>0 DEF TypeOK
  <2>2. InReach'
    BY <1>a, <2>0, <2>1 DEF CommitInv, InReach
  <2>3. \A i \in 1 .. Len(app) : app[i] # [num |-> num, by |-> c]
    <3> SUFFICES ASSUME NEW i \in 1 .. Len(app), app[i] = [num |-> num, by |-> c]  PROVE FALSE
      OBVIOUS
    <3>1. app[i].num = num /\ app[i].by = c
      OBVIOUS
    <3>2. num <= best \/ commits[c].at = "add"
      BY <3>1 DEF CommitInv, Executed
    <3> QED  BY <1>2, <3>2
  <2>4. Executed'
    <3>1. \A i \in 1 .. Len(app) : app[i].by \in Callers
      BY CommitTypes
    <3>2. \A i \in 1 .. Len(app) :
            app[i].num <= best \/ (commits'[app[i].by].at = "add" /\ commits'[app[i].by].num = app[i].num)
      <4> SUFFICES ASSUME NEW i \in 1 .. Len(app), ~(app[i].num <= best)
                   PROVE  commits'[app[i].by].at = "add" /\ commits'[app[i].by].num = app[i].num
        OBVIOUS
      <4>1. commits[app[i].by].at = "add" /\ commits[app[i].by].num = app[i].num
        BY DEF CommitInv, Executed
      <4>2. app[i].by \in Callers /\ app[i].by # c
        BY <3>1, <4>1
      <4> QED  BY <2>1, <4>1, <4>2
    <3>3. \A i \in 1 .. Len(app), d \in Callers :
            commits'[d].at = "apply" => app[i] # [num |-> commits'[d].num, by |-> d]
      <4> SUFFICES ASSUME NEW i \in 1 .. Len(app), NEW d \in Callers, commits'[d].at = "apply"
                   PROVE  app[i] # [num |-> commits'[d].num, by |-> d]
        OBVIOUS
      <4>1. CASE d = c
        BY <2>1, <2>3, <4>1
      <4>2. CASE d # c
        BY <2>1, <4>2 DEF CommitInv, Executed
      <4> QED  BY <4>1, <4>2
    <3> QED  BY <3>2, <3>3 DEF CommitInv, Executed
  <2>5. Alone'
    <3> SUFFICES ASSUME ~ overlap'  PROVE Alone'
      BY DEF Alone
    <3>1. ~ overlap /\ commits[Other(c)].at \notin {"apply", "add"}
      <4>1. num > best
        BY <1>a, <2>0
      <4>2. overlap' = (overlap \/ (num > best /\ commits[Other(c)].at \in {"apply", "add"}))
        BY DEF StartCommit
      <4> QED  BY <4>1, <4>2, Zenon
    <3>2. Adding' <=> Adding
      BY <2>1 DEF Adding
    <3>3. \A d \in Callers : commits'[d].at \in {"apply", "add"} => d = c
      BY <2>1, <3>1, TwoCallers
    <3>4. commits'[c].num = best + 1 /\ commits'[Other(c)].at \notin {"apply", "add"}
      BY <2>0, <2>1, <3>1, TwoCallers
    <3> QED  BY <3>1, <3>2, <3>3, <3>4 DEF CommitInv, Alone
  <2> QED  BY <2>2, <2>4, <2>5 DEF CommitInv
<1> QED  BY <1>1, <1>2

\* The application executes the block.
LEMMA ApplyBlockKeeps ==
    ASSUME TypeOK, CommitInv, NEW c \in Callers, ApplyBlock(c)
    PROVE  CommitInv'
<1> DEFINE e == [num |-> commits[c].num, by |-> c]
           n == Len(app)
<1>0. /\ commits[c].at = "apply" /\ app' = Append(app, e)
      /\ commits' = [commits EXCEPT ![c].at = "add"]
      /\ UNCHANGED <<best, overlap>>
  BY DEF ApplyBlock, chain
<1>1. /\ best \in Nat /\ n \in Nat /\ commits[c] \in [at : Steps, num : Nat, qc : Nat]
      /\ \A i \in 1 .. n : app[i] \in [num : Nat, by : Callers]
      /\ e \in [num : Nat, by : Callers]
  BY CommitTypes
<1>2. /\ commits'[c].at = "add" /\ commits'[c].num = commits[c].num
      /\ \A d \in Callers : d # c => commits'[d] = commits[d]
  BY <1>0 DEF TypeOK
<1>3. /\ Len(app') = n + 1 /\ app'[n + 1] = e
      /\ \A i \in 1 .. n : app'[i] = app[i]
  BY <1>0, <1>1, SeqFacts DEF TypeOK
<1>4. \A i \in 1 .. n + 1 : i \in 1 .. n \/ i = n + 1
  BY <1>1
<1>5. InReach'
  BY <1>0, <1>2 DEF CommitInv, InReach
<1>6. Executed'
  <2>1. ASSUME NEW i \in 1 .. n + 1
        PROVE  app'[i].num <= best' \/
                 (commits'[app'[i].by].at = "add" /\ commits'[app'[i].by].num = app'[i].num)
    <3>1. CASE i = n + 1
      BY <1>2, <1>3, <3>1
    <3>2. CASE i \in 1 .. n /\ app[i].num <= best
      BY <1>0, <1>3, <3>2
    <3>3. CASE i \in 1 .. n /\ ~(app[i].num <= best)
      <4>1. commits[app[i].by].at = "add" /\ commits[app[i].by].num = app[i].num
        BY <3>3 DEF CommitInv, Executed
      <4>2. app[i].by \in Callers /\ app[i].by # c
        BY <1>0, <1>1, <3>3, <4>1
      <4> QED  BY <1>2, <1>3, <3>3, <4>1, <4>2
    <3> QED  BY <1>4, <3>1, <3>2, <3>3
  <2>2. ASSUME NEW i \in 1 .. n + 1, NEW d \in Callers, commits'[d].at = "apply"
        PROVE  app'[i] # [num |-> commits'[d].num, by |-> d]
    <3>1. d # c /\ commits'[d] = commits[d]
      BY <1>2, <2>2
    <3>2. CASE i = n + 1
      BY <1>3, <3>1, <3>2
    <3>3. CASE i \in 1 .. n
      BY <1>3, <2>2, <3>1, <3>3 DEF CommitInv, Executed
    <3> QED  BY <1>4, <3>2, <3>3
  <2>3. ASSUME NEW i \in 1 .. n + 1, NEW j \in 1 .. n + 1, app'[i] = app'[j]
        PROVE  i = j
    <3>1. \A k \in 1 .. n : app[k] # e
      BY <1>0 DEF CommitInv, Executed
    <3>2. CASE i \in 1 .. n /\ j \in 1 .. n
      BY <1>3, <2>3, <3>2 DEF CommitInv, Executed
    <3>3. CASE i = n + 1 /\ j = n + 1
      BY <3>3
    <3>4. CASE i = n + 1 /\ j \in 1 .. n
      BY <1>3, <2>3, <3>1, <3>4
    <3>5. CASE i \in 1 .. n /\ j = n + 1
      BY <1>3, <2>3, <3>1, <3>5
    <3> QED  BY <1>4, <3>2, <3>3, <3>4, <3>5
  <2> QED  BY <1>3, <2>1, <2>2, <2>3 DEF Executed
<1>7. Alone'
  <2> SUFFICES ASSUME ~ overlap  PROVE Alone'
    BY <1>0 DEF Alone
  <2>1. /\ commits[c].num = best + 1 /\ commits[Other(c)].at \notin {"apply", "add"}
        /\ n = IF Adding THEN best + 1 ELSE best
        /\ \A i \in 1 .. n : app[i].num = i
    BY <1>0 DEF CommitInv, Alone
  <2>2. ~ Adding /\ Adding'
    BY <1>0, <1>2, <2>1, TwoCallers DEF Adding
  <2>3. n = best /\ Len(app') = best + 1
    BY <1>3, <2>1, <2>2
  <2>4. \A i \in 1 .. n + 1 : app'[i].num = i
    BY <1>3, <1>4, <2>1, <2>3
  <2>5. \A d \in Callers : commits'[d].at \in {"apply", "add"} => d = c
    BY <1>2, <2>1, TwoCallers
  <2>6. commits'[c].num = best + 1 /\ commits'[Other(c)].at \notin {"apply", "add"}
    BY <1>2, <2>1, TwoCallers
  <2> QED  BY <1>0, <1>3, <2>2, <2>3, <2>4, <2>5, <2>6 DEF Alone
<1> QED  BY <1>5, <1>6, <1>7 DEF CommitInv

\* AddBlock takes the block or refuses it.
LEMMA AddBlockKeeps ==
    ASSUME TypeOK, CommitInv, NEW c \in Callers, AddBlock(c)
    PROVE  CommitInv' /\ best' \in Nat /\ best <= best'
<1> DEFINE num == commits[c].num
<1>1. /\ best \in Nat /\ Len(app) \in Nat /\ num \in Nat
      /\ \A i \in 1 .. Len(app) : app[i] \in [num : Nat, by : Callers]
      /\ \A d \in Callers : commits[d].num \in Nat
  BY CommitTypes
<1>2. num <= best + 1 /\ commits[c].at = "add" /\ UNCHANGED <<app, overlap>>
  BY DEF AddBlock, CommitInv, InReach
<1>3. best' \in Nat /\ best <= best' /\ num <= best' /\ best' <= best + 1
  <2>1. CASE num = best + 1
    BY <1>1, <2>1 DEF AddBlock, Accepts
  <2>2. CASE num # best + 1
    BY <1>1, <1>2, <2>2 DEF AddBlock, Accepts, chain
  <2> QED  BY <2>1, <2>2
<1>4. /\ commits'[c].at \in {"publish", "failed"} /\ commits'[c].num = num
      /\ \A d \in Callers : d # c => commits'[d] = commits[d]
  <2>1. PICK a \in {"publish", "failed"} : commits' = [commits EXCEPT ![c].at = a]
    BY DEF AddBlock
  <2> QED  BY <2>1 DEF TypeOK
<1>5. InReach'
  <2> SUFFICES ASSUME NEW d \in Callers
               PROVE  /\ commits'[d].at # "idle" => commits'[d].num <= best' + 1
                      /\ commits'[d].at \in {"publish", "done", "failed"} => commits'[d].num <= best'
    BY DEF InReach
  <2>1. CASE d = c
    BY <1>1, <1>3, <1>4, <2>1
  <2>2. CASE d # c
    <3>1. /\ commits[d].at # "idle" => commits[d].num <= best + 1
          /\ commits[d].at \in {"publish", "done", "failed"} => commits[d].num <= best
      BY DEF CommitInv, InReach
    <3> QED  BY <1>1, <1>3, <1>4, <2>2, <3>1
  <2> QED  BY <2>1, <2>2
<1>6. Executed'
  <2>1. ASSUME NEW i \in 1 .. Len(app)
        PROVE  app[i].num <= best' \/
                 (commits'[app[i].by].at = "add" /\ commits'[app[i].by].num = app[i].num)
    <3>0. app[i].by \in Callers /\ app[i].num \in Nat
      BY <1>1
    <3>1. CASE app[i].num <= best
      BY <1>1, <1>3, <3>0, <3>1
    <3>2. CASE ~(app[i].num <= best)
      <4>1. commits[app[i].by].at = "add" /\ commits[app[i].by].num = app[i].num
        BY <3>2 DEF CommitInv, Executed
      <4>2. CASE app[i].by = c
        BY <1>3, <4>1, <4>2
      <4>3. CASE app[i].by # c
        BY <1>4, <3>0, <4>1, <4>3
      <4> QED  BY <4>2, <4>3
    <3> QED  BY <3>1, <3>2
  <2>2. ASSUME NEW i \in 1 .. Len(app), NEW d \in Callers, commits'[d].at = "apply"
        PROVE  app[i] # [num |-> commits'[d].num, by |-> d]
    <3>1. d # c /\ commits'[d] = commits[d]
      BY <1>4, <2>2
    <3> QED  BY <2>2, <3>1 DEF CommitInv, Executed
  <2> QED  BY <1>2, <2>1, <2>2 DEF CommitInv, Executed
<1>7. Alone'
  <2> SUFFICES ASSUME ~ overlap  PROVE Alone'
    BY <1>2 DEF Alone
  <2>1. /\ num = best + 1 /\ commits[Other(c)].at \notin {"apply", "add"}
        /\ Len(app) = IF Adding THEN best + 1 ELSE best
        /\ \A i \in 1 .. Len(app) : app[i].num = i
    BY <1>2 DEF CommitInv, Alone
  <2>2. \A d \in Callers : commits'[d].at \notin {"apply", "add"}
    BY <1>4, <2>1, TwoCallers
  <2>3. Adding /\ ~ Adding'
    BY <1>2, <2>2 DEF Adding
  <2>4. Len(app) = best'
    BY <1>1, <1>3, <2>1, <2>3
  <2> QED  BY <1>2, <2>1, <2>2, <2>3, <2>4 DEF Alone
<1> QED  BY <1>3, <1>5, <1>6, <1>7 DEF CommitInv

-----------------------------------------------------------------------------
(* The peer and the download                                                *)

\* Blocks with their certificates, appended and taken.
LEMMA EscortFacts ==
    ASSUME NEW s \in Seq(Items), Escorts(s)
    PROVE  /\ \A e \in Items : e.qc >= e.num => Append(s, e) \in Seq(Items) /\ Escorts(Append(s, e))
           /\ s # << >> => /\ Head(s) \in Items /\ Head(s).qc >= Head(s).num
                           /\ Tail(s) \in Seq(Items) /\ Escorts(Tail(s))
<1>1. ASSUME NEW e \in Items, e.qc >= e.num
      PROVE  Append(s, e) \in Seq(Items) /\ Escorts(Append(s, e))
  <2>1. /\ Append(s, e) \in Seq(Items) /\ Len(Append(s, e)) = Len(s) + 1 /\ Len(s) \in Nat
        /\ \A i \in 1 .. Len(s) : Append(s, e)[i] = s[i]
        /\ Append(s, e)[Len(s) + 1] = e
    BY SeqFacts
  <2>2. \A i \in 1 .. Len(s) + 1 : i \in 1 .. Len(s) \/ i = Len(s) + 1
    BY <2>1
  <2> QED  BY <1>1, <2>1, <2>2, Zenon DEF Escorts
<1>2. ASSUME s # << >>
      PROVE  /\ Head(s) \in Items /\ Head(s).qc >= Head(s).num
             /\ Tail(s) \in Seq(Items) /\ Escorts(Tail(s))
  <2>1. /\ Len(s) \in Nat /\ Len(s) > 0 /\ Head(s) = s[1] /\ Tail(s) \in Seq(Items)
        /\ Len(Tail(s)) = Len(s) - 1
        /\ \A i \in 1 .. Len(Tail(s)) : Tail(s)[i] = s[i + 1]
        /\ \A i \in 1 .. Len(s) : s[i] \in Items
    BY <1>2, SeqFacts
  <2>2. 1 \in 1 .. Len(s) /\ \A i \in 1 .. Len(Tail(s)) : i + 1 \in 1 .. Len(s)
    BY <2>1
  <2> QED  BY <2>1, <2>2, Zenon DEF Escorts
<1> QED  BY <1>1, <1>2

\* A step that touches no block under way keeps what is known of the commits.
LEMMA SameCommits ==
    ASSUME CommitInv, LoopInOrder, UNCHANGED <<best, app, commits, ready, overlap>>
    PROVE  CommitInv' /\ LoopInOrder'
<1>1. InReach'
  BY DEF CommitInv, InReach
<1>2. Executed'
  BY DEF CommitInv, Executed
<1>3. Alone'
  BY DEF CommitInv, Alone, Adding
<1>4. LoopInOrder'
  BY DEF LoopInOrder
<1> QED  BY <1>1, <1>2, <1>3, <1>4 DEF CommitInv

\* The peer's steps.
LEMMA PeerKeeps ==
    ASSUME TypeOK, Escorted, Peer
    PROVE  TypeOK' /\ Escorted' /\ UNCHANGED <<chain, app, commits, loop, sync, overlap>>
<1> DEFINE l == answer.list
<1>1. /\ peerBest \in Nat /\ answer.num \in Nat /\ l \in Seq(Items) /\ Len(l) \in Nat
      /\ answer \in [at : {"idle", "next", "tip", "sent"}, num : Nat, list : Seq(Items)]
      /\ Len(l) <= MaxBatch /\ MaxBatch \in Nat /\ (answer.at = "tip" => Len(l) < MaxBatch)
      /\ Escorts(l)
  BY SeqFacts, SyncConstants DEF TypeOK, Escorted
<1>2. UNCHANGED <<chain, app, commits, loop, sync, overlap>>
  BY DEF Peer, PeerAddBlock, ServeBlock, ServeTip, ServeDone
<1>3. /\ peerBest' \in Nat
      /\ answer' \in [at : {"idle", "next", "tip", "sent"}, num : Nat, list : Seq(Items)]
      /\ Len(answer'.list) <= MaxBatch /\ (answer'.at = "tip" => Len(answer'.list) < MaxBatch)
      /\ Escorts(answer'.list) /\ (answer'.at = "tip" => answer'.num <= peerBest')
  <2>1. CASE PeerAddBlock
    BY <1>1, <2>1 DEF PeerAddBlock, Escorted
  <2>2. CASE ServeBlock /\ answer.num = peerBest
    BY <1>1, <2>2 DEF ServeBlock
  <2>3. CASE ServeBlock /\ answer.num # peerBest
    <3> DEFINE e == [num |-> answer.num, qc |-> EscortFromChild(answer.num)]
    <3>1. e \in Items /\ e.qc >= e.num
      BY <1>1 DEF Items, EscortFromChild
    <3>2. Append(l, e) \in Seq(Items) /\ Escorts(Append(l, e)) /\ Len(Append(l, e)) = Len(l) + 1
      BY <1>1, <3>1, EscortFacts, SeqFacts
    <3>3. /\ peerBest' = peerBest /\ Len(l) < MaxBatch
          /\ answer' = [at |-> "next", num |-> answer.num + 1, list |-> Append(l, e)]
      BY <1>1, <2>3 DEF ServeBlock
    <3> QED  BY <1>1, <3>2, <3>3
  <2>4. CASE ServeTip
    <3> DEFINE e == [num |-> answer.num, qc |-> peerBest]
    <3>1. e \in Items /\ e.qc >= e.num
      BY <1>1, <2>4 DEF Items, ServeTip, Escorted
    <3>2. Append(l, e) \in Seq(Items) /\ Escorts(Append(l, e)) /\ Len(Append(l, e)) = Len(l) + 1
      BY <1>1, <3>1, EscortFacts, SeqFacts
    <3>3. /\ peerBest' = peerBest /\ Len(l) < MaxBatch
          /\ answer' = [at |-> "next", num |-> answer.num + 1, list |-> Append(l, e)]
      BY <1>1, <2>4 DEF ServeTip
    <3> QED  BY <1>1, <3>2, <3>3
  <2>5. CASE ServeDone
    BY <1>1, <2>5 DEF ServeDone
  <2> QED  BY <2>1, <2>2, <2>3, <2>4, <2>5 DEF Peer
<1>4. TypeOK'
  BY <1>2, <1>3, Zenon DEF TypeOK, chain, loop, sync
<1>5. Escorted'
  BY <1>2, <1>3, Zenon DEF Escorted, CertificateNotOlder, chain, sync
<1> QED  BY <1>2, <1>4, <1>5

\* What the steps of a download leave alone.
Untouched == UNCHANGED <<peerBest, chain, app, commits, loop, overlap>>

\* A step of a download keeps the types and the certificates if the parts it
\* changes have them.
LEMMA DownloadParts ==
    ASSUME TypeOK, Escorted, Untouched,
           answer' \in [at : {"idle", "next", "tip", "sent"}, num : Nat, list : Seq(Items)],
           answer' = answer \/ (answer'.at \in {"idle", "next"} /\ answer'.list = << >>),
           download' \in {"idle", "request", "wait", "send", "error", "closed"},
           consumer' \in {"range", "error", "done"},
           from' \in Nat, downloads' \in Nat, errs' \in 0 .. 2,
           batch' \in Seq(Items), Escorts(batch'),
           stream' \in Seq(Items), Escorts(stream'), Len(stream') <= StreamCap
    PROVE  TypeOK' /\ Escorted'
<1>1. /\ Len(answer'.list) <= MaxBatch /\ (answer'.at = "tip" => Len(answer'.list) < MaxBatch)
      /\ Escorts(answer'.list) /\ (answer'.at = "tip" => answer'.num <= peerBest)
  <2>1. CASE answer' = answer
    BY <2>1 DEF TypeOK, Escorted
  <2>2. CASE answer'.at \in {"idle", "next"} /\ answer'.list = << >>
    BY <2>2, SyncConstants DEF Escorts
  <2> QED  BY <2>1, <2>2
<1>2. TypeOK'
  BY <1>1, Zenon DEF TypeOK, Untouched, chain, loop
<1>3. Escorted'
  BY <1>1, Zenon DEF Escorted, CertificateNotOlder, Untouched, chain
<1> QED  BY <1>2, <1>3

\* The steps of the downloader, and the start and the end of a download.
LEMMA DownloaderKeeps ==
    ASSUME TypeOK, Escorted, StartDownload \/ Downloader \/ EndDownload
    PROVE  TypeOK' /\ Escorted' /\ Untouched
<1>1. /\ {best, from, downloads} \subseteq Nat /\ errs \in 0 .. 2
      /\ answer \in [at : {"idle", "next", "tip", "sent"}, num : Nat, list : Seq(Items)]
      /\ answer.list \in Seq(Items) /\ batch \in Seq(Items) /\ stream \in Seq(Items)
      /\ Len(stream) <= StreamCap /\ StreamCap \in Nat
      /\ Escorts(answer.list) /\ Escorts(batch) /\ Escorts(stream)
      /\ download \in {"idle", "request", "wait", "send", "error", "closed"}
      /\ consumer \in {"range", "error", "done"}
  BY SyncConstants DEF TypeOK, Escorted
<1>2. /\ Len(answer.list) \in Nat /\ Len(stream) \in Nat
      /\ << >> \in Seq(Items) /\ Escorts(<< >>) /\ 0 <= StreamCap
      /\ NoAnswer \in [at : {"idle", "next", "tip", "sent"}, num : Nat, list : Seq(Items)]
      /\ NoAnswer.at = "idle" /\ NoAnswer.list = << >>
  BY <1>1, SeqFacts DEF Escorts, NoAnswer
<1>3. CASE StartDownload
  <2>1. best + 1 \in Nat /\ downloads + 1 \in Nat /\ 0 \in 0 .. 2
    BY <1>1
  <2> QED
    BY <1>1, <1>3, <2>1, DownloadParts, Zenon DEF StartDownload, Untouched, server
<1>4. CASE Request
  <2>1. [at |-> "next", num |-> from, list |-> << >>]
          \in [at : {"idle", "next", "tip", "sent"}, num : Nat, list : Seq(Items)]
    BY <1>1, <1>2
  <2>2. answer'.at = "next" /\ answer'.list = << >>
    BY <1>4 DEF Request
  <2> QED  BY <1>1, <1>4, <2>1, <2>2, DownloadParts, Zenon DEF Request, Untouched
<1>5. CASE Decoded
  <2>1. from + Len(answer.list) \in Nat
    BY <1>1, <1>2
  <2>2. CASE answer.list = << >>
    BY <1>1, <1>2, <1>5, <2>2, DownloadParts, Zenon DEF Decoded, Untouched
  <2>3. CASE answer.list # << >>
    BY <1>1, <1>2, <1>5, <2>1, <2>3, DownloadParts, Zenon DEF Decoded, Untouched
  <2> QED  BY <2>2, <2>3
<1>6. CASE RequestFails
  BY <1>1, <1>2, <1>6, DownloadParts, Zenon DEF RequestFails, Untouched
<1>7. CASE DownloadError
  <2>1. errs + 1 \in 0 .. 2
    BY <1>1, <1>7 DEF DownloadError, RoomForError
  <2> QED  BY <1>1, <1>7, <2>1, DownloadParts, Zenon DEF DownloadError, Untouched, server
<1>8. CASE SendBlock
  <2>1. batch # << >> /\ Len(stream) < StreamCap
    BY <1>8 DEF SendBlock
  <2>2. /\ Head(batch) \in Items /\ Head(batch).qc >= Head(batch).num
        /\ Tail(batch) \in Seq(Items) /\ Escorts(Tail(batch))
    BY <1>1, <2>1, EscortFacts
  <2>3. Append(stream, Head(batch)) \in Seq(Items) /\ Escorts(Append(stream, Head(batch)))
    BY <1>1, <2>2, EscortFacts
  <2>4. Len(Append(stream, Head(batch))) <= StreamCap
    <3>1. Len(Append(stream, Head(batch))) = Len(stream) + 1
      BY <1>1, <2>2, SeqFacts
    <3> QED  BY <1>1, <1>2, <2>1, <3>1
  <2>5. download' \in {"request", "send"}
    BY <1>8 DEF SendBlock
  <2> QED
    BY <1>1, <1>8, <2>2, <2>3, <2>4, <2>5, DownloadParts, Zenon DEF SendBlock, Untouched, server
<1>9. CASE SendCancelled
  BY <1>1, <1>2, <1>9, DownloadParts, Zenon DEF SendCancelled, Untouched, server
<1>10. CASE EndDownload
  <2>1. Len(<< >>) <= StreamCap
    BY <1>2
  <2> QED  BY <1>1, <1>2, <1>10, <2>1, DownloadParts, Zenon DEF EndDownload, Untouched, server
<1> QED
  BY <1>3, <1>4, <1>5, <1>6, <1>7, <1>8, <1>9, <1>10 DEF Downloader
-----------------------------------------------------------------------------
(* The steps of the two callers                                             *)

\* A step of a caller keeps the types and the certificates if the parts it
\* changes have them.
LEMMA CallerParts ==
    ASSUME TypeOK, Escorted, UNCHANGED <<server, download, from, batch, downloads>>,
           best' \in Nat, bestQC' \in Nat, bestQC' >= best',
           app' \in Seq([num : Nat, by : Callers]),
           commits' \in [Callers -> [at : Steps, num : Nat, qc : Nat]],
           \A c \in Callers : commits'[c].qc >= commits'[c].num,
           ready' \in Seq(Nat), lastCommitted' \in 0 .. best',
           consumer' \in {"range", "error", "done"}, errs' \in 0 .. 2,
           stream' \in Seq(Items), Escorts(stream'), Len(stream') <= StreamCap,
           overlap' \in BOOLEAN
    PROVE  TypeOK' /\ Escorted'
<1>1. TypeOK'
  BY Zenon DEF TypeOK, server
<1>2. Escorted'
  BY Zenon DEF Escorted, CertificateNotOlder, server
<1> QED  BY <1>1, <1>2

\* The main loop is not at another block, and the best block does not go back.
LEMMA LoopKept ==
    ASSUME TypeOK, LoopInOrder, UNCHANGED ready, best' \in Nat, best <= best',
           commits'["loop"].at # "idle" => commits["loop"].at # "idle" /\
                                           commits'["loop"].num = commits["loop"].num
    PROVE  LoopInOrder'
<1>1. best \in Nat /\ ready \in Seq(Nat)
  BY DEF TypeOK
<1>2. ready # << >> => ready[1] \in Nat
  BY <1>1
<1>3. ready # << >> => ready[1] <= best' + 1
  BY <1>1, <1>2 DEF LoopInOrder
<1> QED  BY <1>3 DEF LoopInOrder

\* The types of one caller's record, and of its successor.
LEMMA CallerTypes ==
    ASSUME TypeOK, Escorted, NEW c \in Callers,
           NEW r \in [at : Steps, num : Nat, qc : Nat], r.qc >= r.num,
           commits' = [commits EXCEPT ![c] = r]
    PROVE  /\ commits' \in [Callers -> [at : Steps, num : Nat, qc : Nat]]
           /\ \A d \in Callers : commits'[d].qc >= commits'[d].num
           /\ commits'[c] = r /\ \A d \in Callers : d # c => commits'[d] = commits[d]
<1>1. commits \in [Callers -> [at : Steps, num : Nat, qc : Nat]]
  BY DEF TypeOK
<1>2. \A d \in Callers : commits[d].qc >= commits[d].num
  BY DEF Escorted
<1> QED  BY <1>1, <1>2

\* What a step of a caller starts from.
LEMMA CallerFacts ==
    ASSUME TypeOK, Escorted
    PROVE  /\ best \in Nat /\ bestQC \in Nat /\ bestQC >= best
           /\ app \in Seq([num : Nat, by : Callers])
           /\ commits \in [Callers -> [at : Steps, num : Nat, qc : Nat]]
           /\ \A c \in Callers : commits[c].qc >= commits[c].num
           /\ ready \in Seq(Nat) /\ lastCommitted \in 0 .. best
           /\ consumer \in {"range", "error", "done"} /\ errs \in 0 .. 2
           /\ stream \in Seq(Items) /\ Escorts(stream) /\ Len(stream) <= StreamCap
           /\ overlap \in BOOLEAN
           /\ Idle \in [at : Steps, num : Nat, qc : Nat] /\ Idle.qc >= Idle.num
           /\ Idle.at = "idle"
           /\ "sync" \in Callers /\ "loop" \in Callers
<1>1. /\ Idle \in [at : Steps, num : Nat, qc : Nat] /\ Idle.qc >= Idle.num
      /\ Idle.at = "idle" /\ "sync" \in Callers /\ "loop" \in Callers
  BY DEF Idle, Steps, Callers
<1> QED  BY <1>1 DEF TypeOK, Escorted, CertificateNotOlder

\* StartCommit has the types it should.
LEMMA StartCommitTypes ==
    ASSUME TypeOK, Escorted, NEW c \in Callers, NEW num \in Nat, NEW qc \in Nat, qc >= num,
           StartCommit(c, num, qc)
    PROVE  /\ commits' \in [Callers -> [at : Steps, num : Nat, qc : Nat]]
           /\ \A d \in Callers : commits'[d].qc >= commits'[d].num
           /\ commits'[c].num = num /\ \A d \in Callers : d # c => commits'[d] = commits[d]
           /\ overlap' \in BOOLEAN
<1> DEFINE r == [at |-> IF num <= best THEN "failed" ELSE "apply", num |-> num, qc |-> qc]
<1>1. r \in [at : Steps, num : Nat, qc : Nat] /\ r.qc >= r.num /\ r.num = num
  BY DEF Steps
<1>2. commits' = [commits EXCEPT ![c] = r] /\ overlap' \in BOOLEAN
  BY Zenon DEF StartCommit
<1> HIDE DEF r
<1> QED  BY <1>1, <1>2, CallerTypes, Zenon

\* CommitBlock executes the block, adds it and publishes it.
LEMMA CommitKeeps ==
    ASSUME SyncInv, NEW c \in Callers, Commit(c)
    PROVE  SyncInv'
<1>0. TypeOK /\ Escorted /\ LoopInOrder /\ CommitInv
  BY DEF SyncInv, CommitInv
<1>1. commits[c] \in [at : Steps, num : Nat, qc : Nat] /\ commits[c].qc >= commits[c].num
  BY <1>0, CallerFacts
<1>2. ASSUME NEW a \in Steps, a # "idle", commits[c].at # "idle",
             commits' = [commits EXCEPT ![c].at = a]
      PROVE  /\ commits' \in [Callers -> [at : Steps, num : Nat, qc : Nat]]
             /\ \A d \in Callers : commits'[d].qc >= commits'[d].num
             /\ \A d \in Callers : commits'[d].num = commits[d].num
             /\ commits'["loop"].at # "idle" => commits["loop"].at # "idle"
  <2> DEFINE r == [commits[c] EXCEPT !.at = a]
  <2>1. /\ r \in [at : Steps, num : Nat, qc : Nat] /\ r.qc >= r.num /\ r.num = commits[c].num
        /\ commits' = [commits EXCEPT ![c] = r]
    BY <1>1, <1>2
  <2> HIDE DEF r
  <2>2. /\ commits' \in [Callers -> [at : Steps, num : Nat, qc : Nat]]
        /\ \A d \in Callers : commits'[d].qc >= commits'[d].num
        /\ commits'[c] = r /\ \A d \in Callers : d # c => commits'[d] = commits[d]
    BY <1>0, <2>1, CallerTypes, Zenon
  <2> QED  BY <1>2, <2>1, <2>2, <1>0, CallerFacts
<1>3. CASE ApplyBlock(c)
  <2>1. CommitInv'
    BY <1>0, <1>3, ApplyBlockKeeps
  <2>2. /\ commits[c].at = "apply" /\ commits' = [commits EXCEPT ![c].at = "add"]
        /\ app' = Append(app, [num |-> commits[c].num, by |-> c])
        /\ UNCHANGED <<server, chain, loop, sync, overlap>> /\ "add" \in Steps
    BY <1>3 DEF ApplyBlock, Steps
  <2>3. app' \in Seq([num : Nat, by : Callers])
    BY <1>0, <1>1, <2>2, CallerFacts
  <2>4. /\ commits' \in [Callers -> [at : Steps, num : Nat, qc : Nat]]
        /\ \A d \in Callers : commits'[d].qc >= commits'[d].num
        /\ \A d \in Callers : commits'[d].num = commits[d].num
        /\ commits'["loop"].at # "idle" => commits["loop"].at # "idle"
    BY <1>2, <2>2
  <2>5. TypeOK' /\ Escorted'
    BY <1>0, <2>2, <2>3, <2>4, CallerParts, CallerFacts, Zenon DEF chain, loop, sync
  <2>6. LoopInOrder'
    BY <1>0, <2>2, <2>4, LoopKept, CallerFacts DEF chain, loop
  <2> QED  BY <2>1, <2>5, <2>6 DEF SyncInv, CommitInv
<1>4. CASE AddBlock(c)
  <2>1. CommitInv' /\ best' \in Nat /\ best <= best'
    BY <1>0, <1>4, AddBlockKeeps
  <2>2. PICK a \in {"publish", "failed"} : commits' = [commits EXCEPT ![c].at = a]
    BY <1>4 DEF AddBlock
  <2>3. /\ commits[c].at = "add" /\ UNCHANGED <<server, app, loop, sync, overlap>>
        /\ a \in Steps /\ a # "idle"
    BY <1>4 DEF AddBlock, Steps
  <2>4. /\ commits' \in [Callers -> [at : Steps, num : Nat, qc : Nat]]
        /\ \A d \in Callers : commits'[d].qc >= commits'[d].num
        /\ \A d \in Callers : commits'[d].num = commits[d].num
        /\ commits'["loop"].at # "idle" => commits["loop"].at # "idle"
    BY <1>2, <2>2, <2>3
  <2>5. bestQC' \in Nat /\ bestQC' >= best'
    BY <1>0, <1>1, <1>4, CallerFacts DEF AddBlock, chain
  <2>6. lastCommitted' \in 0 .. best'
    BY <1>0, <2>1, <2>3, CallerFacts DEF loop
  <2>7. TypeOK' /\ Escorted'
    BY <1>0, <2>1, <2>3, <2>4, <2>5, <2>6, CallerParts, CallerFacts, Zenon DEF loop, sync
  <2>8. LoopInOrder'
    BY <1>0, <2>1, <2>3, <2>4, LoopKept, CallerFacts DEF loop
  <2> QED  BY <2>1, <2>7, <2>8 DEF SyncInv, CommitInv
<1>5. CASE Publish(c)
  <2> DEFINE r == [commits[c] EXCEPT !.at = "done"]
  <2>1. /\ commits[c].at = "publish" /\ commits' = [commits EXCEPT ![c].at = "done"]
        /\ lastCommitted' = commits[c].num /\ "done" \in Steps
        /\ UNCHANGED <<server, chain, app, ready, sync, overlap>>
    BY <1>5 DEF Publish, Steps
  <2>2. commits[c].num <= best
    BY <1>0, <2>1 DEF CommitInv, InReach
  <2>3. /\ r \in [at : Steps, num : Nat, qc : Nat] /\ r.at = "done" /\ r.num = commits[c].num
        /\ commits' = [commits EXCEPT ![c] = r]
    BY <1>1, <2>1
  <2> HIDE DEF r
  <2>4. r.num <= best + 1
    BY <1>0, <1>1, <2>2, <2>3, CallerFacts
  <2>5. CommitInv'
    BY <1>0, <2>1, <2>2, <2>3, <2>4, QuietMove DEF chain
  <2>6. /\ commits' \in [Callers -> [at : Steps, num : Nat, qc : Nat]]
        /\ \A d \in Callers : commits'[d].qc >= commits'[d].num
        /\ \A d \in Callers : commits'[d].num = commits[d].num
        /\ commits'["loop"].at # "idle" => commits["loop"].at # "idle"
    BY <1>2, <2>1
  <2>7. lastCommitted' \in 0 .. best'
    BY <1>0, <1>1, <2>1, <2>2, CallerFacts DEF chain
  <2>8. TypeOK' /\ Escorted'
    BY <1>0, <2>1, <2>6, <2>7, CallerParts, CallerFacts, Zenon DEF chain, sync
  <2>9. LoopInOrder'
    BY <1>0, <2>1, <2>6, LoopKept, CallerFacts DEF chain
  <2> QED  BY <2>5, <2>8, <2>9 DEF SyncInv, CommitInv
<1> QED  BY <1>3, <1>4, <1>5 DEF Commit
\* The main loop collects blocks, starts to commit the first and drops it.
LEMMA MainLoopKeeps ==
    ASSUME SyncInv, MainLoop
    PROVE  SyncInv'
<1>0. TypeOK /\ Escorted /\ LoopInOrder /\ CommitInv
  BY DEF SyncInv, CommitInv
<1>1. ASSUME NEW num \in 1 .. MaxBlock, Update(num)
      PROVE  SyncInv'
  <2> DEFINE n == num - lastCommitted
             s == [i \in 1 .. n |-> lastCommitted + i]
  <2>1. /\ ready = << >> /\ num > lastCommitted /\ ready' = s
        /\ UNCHANGED <<server, chain, app, commits, lastCommitted, sync, overlap>>
    BY <1>1 DEF Update
  <2>2. lastCommitted \in Nat /\ lastCommitted <= best /\ best \in Nat /\ n \in Nat /\ n > 0
    BY <1>0, <2>1, CallerFacts, SyncConstants
  <2>3. s \in Seq(Nat) /\ Len(s) = n /\ \A i \in 1 .. n : s[i] = lastCommitted + i
    BY <2>2
  <2> HIDE DEF s
  <2>4. TypeOK' /\ Escorted'
    BY <1>0, <2>1, <2>3, CallerParts, CallerFacts, Zenon DEF chain, sync
  <2>5. CommitInv'
    <3>1. InReach'
      BY <1>0, <2>1 DEF CommitInv, InReach, chain
    <3>2. Executed'
      BY <1>0, <2>1 DEF CommitInv, Executed, chain
    <3>3. Alone'
      BY <1>0, <2>1 DEF CommitInv, Alone, Adding, chain
    <3> QED  BY <3>1, <3>2, <3>3 DEF CommitInv
  <2>6. LoopInOrder'
    <3>1. \A i, j \in 1 .. Len(s) : s[j] = s[i] + (j - i)
      BY <2>2, <2>3
    <3>2. s[1] <= best + 1
      BY <2>2, <2>3
    <3>3. commits["loop"].at = "idle"
      BY <1>0, <2>1 DEF LoopInOrder
    <3> QED  BY <2>1, <3>1, <3>2, <3>3 DEF LoopInOrder, chain
  <2> QED  BY <2>4, <2>5, <2>6 DEF SyncInv, CommitInv
<1>2. CASE OnCommit
  <2> DEFINE num == Head(ready)
  <2>1. /\ ready # << >> /\ commits["loop"].at = "idle" /\ StartCommit("loop", num, num)
        /\ UNCHANGED <<server, chain, app, loop, sync>>
    BY <1>2 DEF OnCommit
  <2>2. num \in Nat /\ num = ready[1] /\ num <= best + 1 /\ num >= num
    <3>1. ready \in Seq(Nat)
      BY <1>0, CallerFacts
    <3>2. Head(ready) = ready[1] /\ Head(ready) \in Nat
      BY <2>1, <3>1
    <3>3. ready[1] <= best + 1
      BY <1>0, <2>1 DEF LoopInOrder
    <3> QED  BY <3>2, <3>3
  <2> HIDE DEF num
  <2>3. /\ commits' \in [Callers -> [at : Steps, num : Nat, qc : Nat]]
        /\ \A d \in Callers : commits'[d].qc >= commits'[d].num
        /\ commits'["loop"].num = num /\ overlap' \in BOOLEAN
    BY <1>0, <2>1, <2>2, StartCommitTypes, CallerFacts, Zenon
  <2>4. TypeOK' /\ Escorted'
    BY <1>0, <2>1, <2>3, CallerParts, CallerFacts, Zenon DEF chain, loop, sync
  <2>5. CommitInv'
    BY <1>0, <2>1, <2>2, StartCommitKeeps, CallerFacts DEF chain
  <2>6. LoopInOrder'
    BY <1>0, <2>1, <2>2, <2>3 DEF LoopInOrder, chain, loop
  <2> QED  BY <2>4, <2>5, <2>6 DEF SyncInv, CommitInv
<1>3. CASE OnCommitNext
  <2>1. /\ commits["loop"].at \in {"done", "failed"}
        /\ commits' = [commits EXCEPT !["loop"] = Idle] /\ ready' = Tail(ready)
        /\ UNCHANGED <<server, chain, app, lastCommitted, sync, overlap>>
    BY <1>3 DEF OnCommitNext
  <2>2. ready # << >> /\ ready[1] = commits["loop"].num /\ commits["loop"].num <= best
    BY <1>0, <2>1, CallerFacts DEF LoopInOrder, CommitInv, InReach
  <2>3. /\ Tail(ready) \in Seq(Nat) /\ Len(ready) \in Nat /\ Len(Tail(ready)) = Len(ready) - 1
        /\ \A i \in 1 .. Len(Tail(ready)) : Tail(ready)[i] = ready[i + 1] /\ i + 1 \in 1 .. Len(ready)
    <3>1. ready \in Seq(Nat)
      BY <1>0, CallerFacts
    <3> QED  BY <2>2, <3>1
  <2>4. /\ commits' \in [Callers -> [at : Steps, num : Nat, qc : Nat]]
        /\ \A d \in Callers : commits'[d].qc >= commits'[d].num
        /\ commits'["loop"] = Idle
    BY <1>0, <2>1, CallerTypes, CallerFacts, Zenon
  <2>5. TypeOK' /\ Escorted'
    BY <1>0, <2>1, <2>3, <2>4, CallerParts, CallerFacts, Zenon DEF chain, sync
  <2>6. CommitInv'
    BY <1>0, <2>1, QuietMove, CallerFacts DEF chain
  <2>7. LoopInOrder'
    <3>1. \A i, j \in 1 .. Len(ready) : ready[j] = ready[i] + (j - i)
      BY <1>0 DEF LoopInOrder
    <3>2. \A i, j \in 1 .. Len(Tail(ready)) : Tail(ready)[j] = Tail(ready)[i] + (j - i)
      <4> SUFFICES ASSUME NEW i \in 1 .. Len(Tail(ready)), NEW j \in 1 .. Len(Tail(ready))
                   PROVE  Tail(ready)[j] = Tail(ready)[i] + (j - i)
        OBVIOUS
      <4>1. ready[j + 1] = ready[i + 1] + ((j + 1) - (i + 1))
        BY <2>3, <3>1
      <4>2. (j + 1) - (i + 1) = j - i
        OBVIOUS
      <4> QED  BY <2>3, <4>1, <4>2
    <3>3. Tail(ready) # << >> => Tail(ready)[1] <= best + 1
      <4> SUFFICES ASSUME Tail(ready) # << >>  PROVE Tail(ready)[1] <= best + 1
        OBVIOUS
      <4>1. 1 \in 1 .. Len(Tail(ready))
        BY <2>3
      <4>2. Tail(ready)[1] = ready[2] /\ 2 \in 1 .. Len(ready) /\ 1 \in 1 .. Len(ready)
        BY <2>3, <4>1
      <4>3. ready[2] = ready[1] + (2 - 1)
        BY <3>1, <4>2
      <4>4. ready[1] \in Nat /\ best \in Nat
        BY <1>0, <2>2, CallerFacts
      <4> QED  BY <2>2, <4>2, <4>3, <4>4
    <3> QED  BY <2>1, <2>4, <3>2, <3>3, <1>0, CallerFacts DEF LoopInOrder, chain
  <2> QED  BY <2>5, <2>6, <2>7 DEF SyncInv, CommitInv
<1> QED  BY <1>1, <1>2, <1>3 DEF MainLoop

\* The consumer takes a block, validates it, and goes on or gives up.
LEMMA ConsumerKeeps ==
    ASSUME SyncInv, Consumer
    PROVE  SyncInv'
<1>0. TypeOK /\ Escorted /\ LoopInOrder /\ CommitInv
  BY DEF SyncInv, CommitInv
<1>1. ASSUME NEW r \in [at : Steps, num : Nat, qc : Nat], r.qc >= r.num,
             commits' = [commits EXCEPT !["sync"] = r],
             r.at \in {"idle", "validate"}, r.at # "idle" => r.num <= best + 1,
             commits["sync"].at \notin {"apply", "add"},
             UNCHANGED <<server, chain, app, loop, download, from, batch, errs, downloads, overlap>>,
             consumer' \in {"range", "error", "done"},
             stream' \in Seq(Items), Escorts(stream'), Len(stream') <= StreamCap
      PROVE  SyncInv'
  <2>1. /\ commits' \in [Callers -> [at : Steps, num : Nat, qc : Nat]]
        /\ \A d \in Callers : commits'[d].qc >= commits'[d].num
        /\ \A d \in Callers : d # "sync" => commits'[d] = commits[d]
    BY <1>0, <1>1, CallerTypes, CallerFacts, Zenon
  <2>2. TypeOK' /\ Escorted'
    BY <1>0, <1>1, <2>1, CallerParts, CallerFacts, Zenon DEF chain, loop
  <2>3. CommitInv'
    BY <1>0, <1>1, QuietMove, CallerFacts DEF chain
  <2>4. commits'["loop"] = commits["loop"]
    BY <2>1 DEF Callers
  <2>5. LoopInOrder'
    BY <1>0, <1>1, <2>4, LoopKept, CallerFacts DEF chain, loop
  <2> QED  BY <2>2, <2>3, <2>5 DEF SyncInv, CommitInv
<1>2. ASSUME UNCHANGED <<server, chain, app, commits, loop, download, from, batch, downloads, overlap>>,
             consumer' \in {"range", "error", "done"}, errs' \in 0 .. 2,
             stream' \in Seq(Items), Escorts(stream'), Len(stream') <= StreamCap
      PROVE  SyncInv'
  <2>1. TypeOK' /\ Escorted'
    BY <1>0, <1>2, CallerParts, CallerFacts, Zenon DEF chain, loop
  <2>2. CommitInv' /\ LoopInOrder'
    BY <1>0, <1>2, SameCommits DEF chain, loop
  <2> QED  BY <2>1, <2>2 DEF SyncInv, CommitInv
<1>3. CASE TakeBlock
  <2> DEFINE b == Head(stream)
             r == [at |-> "validate", num |-> b.num, qc |-> b.qc]
  <2>1. /\ stream # << >> /\ commits["sync"].at = "idle" /\ stream' = Tail(stream)
        /\ UNCHANGED <<server, chain, app, loop, download, from, batch, errs, downloads, overlap>>
    BY <1>3 DEF TakeBlock
  <2>2. /\ b \in Items /\ b.qc >= b.num /\ stream' \in Seq(Items) /\ Escorts(stream')
        /\ Len(stream') <= StreamCap
    <3>1. stream \in Seq(Items) /\ Escorts(stream) /\ Len(stream) <= StreamCap /\ StreamCap \in Nat
      BY <1>0, CallerFacts, SyncConstants
    <3>2. Len(Tail(stream)) = Len(stream) - 1 /\ Len(stream) \in Nat
      BY <2>1, <3>1, SeqFacts
    <3> QED  BY <2>1, <3>1, <3>2, EscortFacts
  <2>3. CASE b.num = best + 1
    <3>1. commits' = [commits EXCEPT !["sync"] = r] /\ consumer' = consumer
      BY <1>3, <2>3 DEF TakeBlock
    <3>2. /\ r \in [at : Steps, num : Nat, qc : Nat] /\ r.qc >= r.num
          /\ r.at = "validate" /\ r.num <= best + 1
      BY <1>0, <2>2, <2>3, CallerFacts DEF Items, Steps
    <3> HIDE DEF r, b
    <3> QED  BY <1>0, <1>1, <2>1, <2>2, <3>1, <3>2, CallerFacts
  <2>4. CASE b.num # best + 1
    <3>1. consumer' = "error" /\ commits' = commits
      BY <1>3, <2>4 DEF TakeBlock
    <3> QED  BY <1>0, <1>2, <2>1, <2>2, <3>1, CallerFacts
  <2> QED  BY <2>3, <2>4
<1>4. CASE ValidateSyncedBlock
  <2> DEFINE b == commits["sync"]
  <2>1. /\ b.at = "validate" /\ b \in [at : Steps, num : Nat, qc : Nat]
        /\ b.qc >= b.num /\ b.num <= best + 1
        /\ UNCHANGED <<server, chain, app, loop, download, from, batch, stream, errs, downloads>>
    <3>1. b.at = "validate" /\
          UNCHANGED <<server, chain, app, loop, download, from, batch, stream, errs, downloads>>
      BY <1>4 DEF ValidateSyncedBlock
    <3>2. b \in [at : Steps, num : Nat, qc : Nat] /\ b.qc >= b.num
      BY <1>0, CallerFacts
    <3>3. b.num <= best + 1
      BY <1>0, <3>1, CallerFacts DEF CommitInv, InReach
    <3> QED  BY <3>1, <3>2, <3>3
  <2>2. CASE /\ commits' = [commits EXCEPT !["sync"] = Idle] /\ UNCHANGED overlap
             /\ consumer' \in {"error", consumer}
    BY <1>0, <1>1, <2>1, <2>2, CallerFacts
  <2>3. CASE StartCommit("sync", b.num, b.qc) /\ UNCHANGED consumer
    <3>1. /\ commits' \in [Callers -> [at : Steps, num : Nat, qc : Nat]]
          /\ \A d \in Callers : commits'[d].qc >= commits'[d].num
          /\ \A d \in Callers : d # "sync" => commits'[d] = commits[d]
          /\ overlap' \in BOOLEAN
      <4>1. b.num \in Nat /\ b.qc \in Nat
        BY <2>1
      <4> HIDE DEF b
      <4> QED  BY <1>0, <2>1, <2>3, <4>1, StartCommitTypes, CallerFacts, Zenon
    <3>2. TypeOK' /\ Escorted'
      BY <1>0, <2>1, <2>3, <3>1, CallerParts, CallerFacts, Zenon DEF chain, loop
    <3>3. CommitInv'
      BY <1>0, <2>1, <2>3, StartCommitKeeps, CallerFacts DEF chain
    <3>4. commits'["loop"] = commits["loop"]
      BY <3>1 DEF Callers
    <3>5. LoopInOrder'
      BY <1>0, <2>1, <3>4, LoopKept, CallerFacts DEF chain, loop
    <3> QED  BY <3>2, <3>3, <3>5 DEF SyncInv, CommitInv
  <2> QED  BY <1>4, <2>2, <2>3 DEF ValidateSyncedBlock
<1>5. CASE Processed
  <2>1. /\ commits["sync"].at \in {"done", "failed"}
        /\ commits' = [commits EXCEPT !["sync"] = Idle] /\ consumer' \in {"range", "error"}
        /\ UNCHANGED <<server, chain, app, loop, download, from, batch, stream, errs, downloads, overlap>>
    BY <1>5 DEF Processed
  <2> QED  BY <1>0, <1>1, <2>1, CallerFacts
<1>6. CASE ConsumerError
  <2>1. errs + 1 \in 0 .. 2
    BY <1>0, <1>6, CallerFacts DEF ConsumerError, RoomForError
  <2> QED  BY <1>0, <1>2, <1>6, <2>1, CallerFacts DEF ConsumerError
<1>7. CASE ConsumerEnds
  BY <1>0, <1>2, <1>7, CallerFacts DEF ConsumerEnds
<1> QED  BY <1>3, <1>4, <1>5, <1>6, <1>7 DEF Consumer
-----------------------------------------------------------------------------
(* The theorems                                                             *)

\* The member starts with the genesis block and no download.
LEMMA SyncInit == Init => SyncInv
<1> SUFFICES ASSUME Init  PROVE SyncInv
  OBVIOUS
<1>1. /\ Idle \in [at : Steps, num : Nat, qc : Nat] /\ Idle.at = "idle" /\ Idle.qc >= Idle.num
      /\ NoAnswer \in [at : {"idle", "next", "tip", "sent"}, num : Nat, list : Seq(Items)]
      /\ NoAnswer.at = "idle" /\ NoAnswer.list = << >>
  BY DEF Idle, Steps, NoAnswer
<1>2. \A c \in Callers : commits[c] = Idle
  BY DEF Init
<1>3. TypeOK
  <2>1. /\ 0 \in Nat /\ 0 \in 0 .. 0 /\ 0 \in 0 .. 2 /\ Len(<< >>) <= MaxBatch /\ Len(<< >>) <= StreamCap
        /\ << >> \in Seq(Items) /\ << >> \in Seq(Nat) /\ << >> \in Seq([num : Nat, by : Callers])
    BY SyncConstants
  <2>2. commits \in [Callers -> [at : Steps, num : Nat, qc : Nat]]
    BY <1>1, Zenon DEF Init
  <2>3. NoAnswer.at # "tip"
    BY <1>1
  <2> QED  BY <1>1, <2>1, <2>2, <2>3, Zenon DEF Init, TypeOK
<1>4. Escorted
  BY <1>1, <1>2 DEF Init, Escorted, Escorts, CertificateNotOlder
<1>5. InReach
  BY <1>1, <1>2 DEF InReach
<1>6. LoopInOrder
  BY <1>1, <1>2 DEF Init, LoopInOrder, Callers
<1>7. Executed
  BY DEF Init, Executed
<1>8. Alone
  BY <1>1, <1>2 DEF Init, Alone, Adding
<1> QED  BY <1>3, <1>4, <1>5, <1>6, <1>7, <1>8 DEF SyncInv

\* Every step keeps the invariant.
LEMMA SyncNext == SyncInv /\ [Next]_vars => SyncInv'
<1> SUFFICES ASSUME SyncInv, [Next]_vars  PROVE SyncInv'
  OBVIOUS
<1>0. TypeOK /\ Escorted /\ LoopInOrder /\ CommitInv
  BY DEF SyncInv, CommitInv
<1>1. CASE Peer
  <2>1. TypeOK' /\ Escorted' /\ UNCHANGED <<best, app, commits, ready, overlap>>
    BY <1>0, <1>1, PeerKeeps DEF chain, loop
  <2> QED  BY <1>0, <2>1, SameCommits DEF SyncInv, CommitInv
<1>2. CASE StartDownload \/ Downloader \/ EndDownload
  <2>1. TypeOK' /\ Escorted' /\ UNCHANGED <<best, app, commits, ready, overlap>>
    BY <1>0, <1>2, DownloaderKeeps DEF Untouched, chain, loop
  <2> QED  BY <1>0, <2>1, SameCommits DEF SyncInv, CommitInv
<1>3. CASE MainLoop
  BY <1>3, MainLoopKeeps
<1>4. CASE Consumer
  BY <1>4, ConsumerKeeps
<1>5. ASSUME NEW c \in Callers, Commit(c)
      PROVE  SyncInv'
  BY <1>5, CommitKeeps
<1>6. CASE UNCHANGED vars
  <2>1. UNCHANGED <<server, chain, app, commits, loop, sync, overlap>>
    BY <1>6 DEF vars
  <2>2. TypeOK' /\ Escorted'
    BY <1>0, <2>1, CallerParts, CallerFacts, Zenon DEF chain, loop, sync
  <2> QED  BY <1>0, <2>1, <2>2, SameCommits DEF SyncInv, CommitInv, chain, loop
<1> QED  BY <1>1, <1>2, <1>3, <1>4, <1>5, <1>6 DEF Next

\* The inductive invariant, for every length of the chain, of an answer and of
\* the stream, and every number of downloads.
THEOREM SyncInvariant == Spec => []SyncInv
<1> QED  BY SyncInit, SyncNext, PTL DEF Spec

\* The best certificate is never older than the best block, however the peer's
\* chain grows while it answers.
THEOREM CertificatesHold == Spec => []CertificateNotOlder
<1>1. SyncInv => CertificateNotOlder
  BY DEF SyncInv, Escorted
<1> QED  BY <1>1, SyncInvariant, PTL

\* No caller of CommitBlock has a block executed twice.
THEOREM OncePerCaller == Spec => []ExecutedOncePerCaller
<1>1. SyncInv => ExecutedOncePerCaller
  <2> SUFFICES ASSUME SyncInv  PROVE ExecutedOncePerCaller
    OBVIOUS
  <2>1. app \in Seq([num : Nat, by : Callers])
    BY DEF SyncInv, TypeOK
  <2>2. DOMAIN app = 1 .. Len(app)
    BY <2>1
  <2> QED  BY <2>2 DEF SyncInv, Executed, ExecutedOncePerCaller, IsInjective
<1> QED  BY <1>1, SyncInvariant, PTL

\* Unless the callers overlap, the application executes the chain in order, each
\* block once.
THEOREM ExecutedInOrder == Spec => []InOrderUnlessOverlap
<1>1. SyncInv => InOrderUnlessOverlap
  <2> SUFFICES ASSUME SyncInv, ~ overlap
               PROVE  [i \in 1 .. Len(app) |-> app[i].num] =
                      [i \in 1 .. best + Cardinality({c \in Callers : commits[c].at = "add"}) |-> i]
    BY DEF InOrderUnlessOverlap
  <2> DEFINE A == {c \in Callers : commits[c].at = "add"}
  <2>1. best \in Nat /\ Len(app) \in Nat
    BY CommitTypes DEF SyncInv
  <2>2. /\ \A c \in Callers : commits[c].at = "add" => commits[Other(c)].at # "add"
        /\ Len(app) = IF Adding THEN best + 1 ELSE best
        /\ \A i \in 1 .. Len(app) : app[i].num = i
    BY DEF SyncInv, Alone
  <2>3. Len(app) = best + Cardinality(A)
    <3>1. CASE Adding
      <4>1. PICK c \in Callers : commits[c].at = "add"
        BY <3>1 DEF Adding
      <4>2. A = {c}
        BY <2>2, <4>1, TwoCallers
      <4>3. Cardinality(A) = 1
        BY <4>2, FS_Singleton
      <4> QED  BY <2>2, <3>1, <4>3
    <3>2. CASE ~ Adding
      <4>1. A = {}
        BY <3>2 DEF Adding
      <4>2. Cardinality(A) = 0
        BY <4>1, FS_EmptySet
      <4> QED  BY <2>1, <2>2, <3>2, <4>2
    <3> QED  BY <3>1, <3>2
  <2> HIDE DEF A
  <2>4. [i \in 1 .. Len(app) |-> app[i].num] = [i \in 1 .. best + Cardinality(A) |-> i]
    BY <2>2, <2>3
  <2> QED  BY <2>4 DEF A
<1> QED  BY <1>1, SyncInvariant, PTL
=============================================================================
