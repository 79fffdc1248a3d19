------------------------------- MODULE MCComm -------------------------------
(* Instances of Comm for TLC.                                              *)
EXTENDS Comm

Two == 1..2
Sends == <<0, 1>>
=============================================================================
