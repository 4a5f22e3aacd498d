---------------------------- MODULE MCDirectPath ----------------------------
(***************************************************************************)
(* Instances of DirectPath for TLC.                                        *)
(***************************************************************************)
EXTENDS DirectPath

CONSTANTS a, b
=============================================================================
