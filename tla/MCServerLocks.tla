--------------------------- MODULE MCServerLocks ---------------------------
(***************************************************************************)
(* Instances of ServerLocks for TLC.                                       *)
(***************************************************************************)
EXTENDS ServerLocks

CONSTANTS c1, c2
=============================================================================
