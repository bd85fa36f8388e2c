-------------------------- MODULE MCIncomingQueue ---------------------------
(***************************************************************************)
(* Deliveries of three messages of two epochs, one message delivered twice  *)
(* and one with a bad signature.                                            *)
(***************************************************************************)
EXTENDS IncomingQueue

MCMsgs == 1 .. 3
MCCopy == 1 .. 4
MCMsg == <<1, 2, 1, 3>>
MCEpochOf == <<1, 1, 0>>
MCSigned == {1, 2}
=============================================================================
