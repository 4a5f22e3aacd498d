--------------------------- MODULE MCClientSession ---------------------------
(***************************************************************************)
(* Instances of ClientSession for TLC: with a tick of ten seconds, which   *)
(* fits all durations, or with one of 20 s, in which the 90 s of the       *)
(* keepalive are between four ticks and five and its 30 s between one and  *)
(* two.                                                                    *)
(***************************************************************************)
EXTENDS ClientSession, TLC

CONSTANTS g1, g2

(* The goroutines of the GUI are alike.                                    *)
Alike == Permutations(Goroutines)
=============================================================================
