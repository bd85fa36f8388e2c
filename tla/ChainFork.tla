----------------------------- MODULE ChainFork ------------------------------
(***************************************************************************)
(* buildFork, by which AddBlock reports what a new best block leaves       *)
(* behind: it walks down from both heads over the parents stored, and      *)
(* CommitBlock takes a fork with a branch for a reorganisation.            *)
(***************************************************************************)
EXTENDS ChainStore

\* getBlockHeader of the parent is not answered with an error.
HasParent(b) == b # Genesis /\ ParentID(b) \in raw

Fork(ancestor, trunk, branch) ==
    [err |-> FALSE, ancestor |-> ancestor, trunk |-> trunk, branch |-> branch]

\* getBlockHeader was answered with an error.
ForkError == [err |-> TRUE, ancestor |-> Genesis, trunk |-> << >>, branch |-> << >>]

\* Mutant: the headers are not reversed at the end.
CollectUnreversed(b, lower) == <<b>> \o lower

\* A header is appended on the way down, and the lists are reversed at the end:
\* it comes after those of the lower numbers.
Collect(b, lower) == Append(lower, b)

\* The heads of the next turn of the loop: the higher one goes down to its
\* parent, and both do if they are of one number.
Below(b1, b2) ==
    <<IF Number(b1) >= Number(b2) THEN ParentID(b1) ELSE b1,
      IF Number(b2) >= Number(b1) THEN ParentID(b2) ELSE b2>>

\* One turn of the loop, where lower is the answer for the heads below.
Turn(b1, b2, lower) ==
    LET down1 == Number(b1) >= Number(b2)
        down2 == Number(b2) >= Number(b1)
    IN  IF b1 = b2 THEN Fork(b1, << >>, << >>)
        ELSE IF (down1 /\ ~ HasParent(b1)) \/ (down2 /\ ~ HasParent(b2)) \/ lower.err
             THEN ForkError
        ELSE Fork(lower.ancestor,
                  IF down1 THEN Collect(b1, lower.trunk) ELSE lower.trunk,
                  IF down2 THEN Collect(b2, lower.branch) ELSE lower.branch)

\* The loop, from any two heads.
forkFrom[heads \in Block \X Block] ==
    Turn(heads[1], heads[2], forkFrom[Below(heads[1], heads[2])])

buildFork(trunkHead, branchHead) == forkFrom[<<trunkHead, branchHead>>]

-----------------------------------------------------------------------------
\* The ancestors of b above number k, in ascending order, b included.
Above(b, k) == [i \in 1 .. Number(b) - k |-> SubSeq(b, 1, k + i)]

\* Whatever branches are stored and although a failed write may have left a best
\* block in memory that is not stored, AddBlock of a new best block finds every
\* parent, and its fork is the last common ancestor of the old and the new best
\* block with the two sides in ascending order (the example above buildFork).
ForkIsExact ==
    \A b \in Block \ {Genesis} :
        phase = "up" /\ Accepts(b) /\ isTrunk(b) =>
            LET a == LongestCommonPrefix({b, best})
            IN  buildFork(b, best) = Fork(a, Above(b, Number(a)), Above(best, Number(a)))
=============================================================================
