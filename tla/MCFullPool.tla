----------------------------- MODULE MCFullPool -----------------------------
(***************************************************************************)
(* LeasePool at the size the server uses: a /24 and the 254 rounds of the  *)
(* code's search loop.  255 sessions of as many users join in the order of *)
(* their numbers, and the one named by Leaver leaves when the subnet is    *)
(* full.  The restriction is on who asks when, never on what the allocator *)
(* answers.                                                                *)
(***************************************************************************)
EXTENDS LeasePool

CONSTANT Leaver         \* the one session that leaves

Clients == 1 .. 255
ThemselvesAsUser == [s \in Clients |-> s]
Net24 == [base |-> 256, size |-> 256]
OnlyNet24 == {Net24}

InOrder(s) == \A t \in 1 .. s - 1 : t = Leaver \/ held[t] # NoIP

FullNext ==
    \/ \E s \in Clients : InOrder(s) /\ (Acquire(s) \/ AcquireFails(s))
    \/ /\ \A s \in 1 .. 254 : held[s] # NoIP
       /\ GiveBack(Leaver)
    \/ Tick

FullSpec == Init /\ [][FullNext]_vars
=============================================================================
