---------------------------- MODULE MCStreamLanes ----------------------------
(* Instances of StreamLanes for TLC. *)
EXTENDS StreamLanes
=============================================================================
