---------------------------- MODULE MCSignalling -----------------------------
(***************************************************************************)
(* Instances of Signalling for TLC.                                        *)
(***************************************************************************)
EXTENDS Signalling

CONSTANTS a, b, a2, va, vb

(* a and b have virtual IPs of their own; a2 is a that returns, and its    *)
(* lease gives it the one it had.                                          *)
Leased == [c \in Clients |-> IF c = b THEN vb ELSE va]
=============================================================================
