---------------------------- MODULE MCActivator ----------------------------
(***************************************************************************)
(* The instance of Activator for TLC.                                      *)
(***************************************************************************)
EXTENDS Activator
=============================================================================
