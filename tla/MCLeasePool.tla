---------------------------- MODULE MCLeasePool ----------------------------
(***************************************************************************)
(* Instances of LeasePool for TLC.                                         *)
(***************************************************************************)
EXTENDS LeasePool, TLC

CONSTANTS s1, s2, s3, s4, u1, u2

(* 10.100.1.0/30 has the hosts .1 and .2, 10.100.1.0/29 has .1 to .6.      *)
Net30 == [base |-> 256, size |-> 4]
Net29 == [base |-> 256, size |-> 8]
MCNetworks == {Net30, Net29}

(* A user who is logged in twice, another user, and a session that takes   *)
(* addresses anonymously.                                                  *)
TwiceOnceAndAnonymous == s1 :> u1 @@ s2 :> u1 @@ s3 :> u2 @@ s4 :> u2

(* A user who is logged in twice, and another user.                        *)
TwoSessionsOfOne == s1 :> u1 @@ s2 :> u1 @@ s3 :> u2

(* The two sessions of one user may be exchanged.                          *)
SessionsOfOneUser == Permutations({s1, s2})
=============================================================================
