--------------------------- MODULE MCVoteManager ----------------------------
(* Small instances of VoteManager for TLC.                                  *)
EXTENDS VoteManager, TLC

KeySymmetry == Permutations(Keys)
=============================================================================
