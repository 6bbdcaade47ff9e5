---------------------------- MODULE MCPodEvents ----------------------------
(***************************************************************************)
(* Instances of PodEvents for TLC.                                         *)
(***************************************************************************)
EXTENDS PodEvents
=============================================================================
