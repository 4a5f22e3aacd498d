--------------------------- MODULE AddressPromise ---------------------------
(***************************************************************************)
(* What a room promises about addresses, without saying how they are found *)
(* or remembered: an address belongs to at most one session, and one that  *)
(* a user gave back is set aside for that user until the promise lapses.   *)
(*                                                                         *)
(* pkg/network/ipalloc.go:61-63 and 98-100 state this promise; LeasePool   *)
(* and RoomServer implement it.                                            *)
(***************************************************************************)
CONSTANTS
    Sessions, Anonymous, Users,
    Addresses,      \* every address
    NoIP

VARIABLES
    held,           \* the address of each session
    reserved,       \* the address set aside for each user
    username        \* whose session each one is; the promise does not say
                    \* when that may change

vars == <<held, reserved>>

Init ==
    /\ held = [s \in Sessions |-> NoIP]
    /\ reserved = [u \in Users |-> NoIP]

Free(ip) ==
    /\ \A s \in Sessions : held[s] # ip
    /\ \A u \in Users : reserved[u] # ip

(* A session gets the address set aside for its user; without one, any     *)
(* address that is free.                                                   *)
Give(s) ==
    LET ip == held'[s]  u == username[s]
    IN  /\ held[s] = NoIP
        /\ ip \in Addresses
        /\ held' = [held EXCEPT ![s] = ip]
        /\ IF s \in Anonymous \/ reserved[u] = NoIP
           THEN Free(ip) /\ reserved' = reserved
           ELSE ip = reserved[u] /\ reserved' = [reserved EXCEPT ![u] = NoIP]

TakeBack(s) ==
    /\ held[s] # NoIP
    /\ held' = [held EXCEPT ![s] = NoIP]
    /\ reserved' = IF s \in Anonymous THEN reserved
                   ELSE [reserved EXCEPT ![username[s]] = held[s]]

Lapse(U) ==
    /\ reserved' = [u \in Users |-> IF u \in U THEN NoIP ELSE reserved[u]]
    /\ held' = held

Next ==
    \/ \E s \in Sessions : Give(s) \/ TakeBack(s)
    \/ \E U \in SUBSET Users : Lapse(U)

Spec == Init /\ [][Next]_vars
=============================================================================
