-------------------------------- MODULE MCServe --------------------------------
(***************************************************************************)
(* Two threads; a write, and a deletion that has a payload to send.         *)
(***************************************************************************)
EXTENDS Serve

MCIds == 1..2
=============================================================================
