---------------------------- MODULE Introduction -----------------------------
(***************************************************************************)
(* What signalling is for: each client of a room is to learn the UDP       *)
(* address of every other one, and of no other one under its name.  This   *)
(* is the state of the server and the clients that bears on it, and what   *)
(* must hold of it; the steps are in Signalling.                           *)
(***************************************************************************)
EXTENDS Naturals

CONSTANTS
    Clients,
    Leavers,        \* those that may depart
    VipOf,          \* the virtual IP each has while it is in the room
    Outcomes,       \* of punching: "active", "given up"
    Capacity,       \* messages a connection to a client holds
    None            \* no virtual IP, no address

ASSUME SignallingAssumption ==
    /\ DOMAIN VipOf = Clients /\ \A c \in Clients : VipOf[c] # None
    /\ None \notin Clients /\ Leavers \subseteq Clients
    /\ Outcomes \subseteq {"active", "given up"}
    /\ Capacity \in Nat \ {0}

Vips == {VipOf[c] : c \in Clients}

VARIABLES
    \* the server
    virtualIP,      \* of each Client
    udpAddr,        \* of each Client
    members,        \* room.Clients
    todo,           \* what the handler of each connection has still to do
    \* the clients
    stage,          \* "out"; "joined"; "in" when its loops run; "left"
    manager,        \* InitP2P succeeded
    links,          \* of the manager: for each peer the state and the address of a link
    \* the connections
    up, down        \* messages to the server and to the client

Unlinked == [state |-> "none", addr |-> None]

-----------------------------------------------------------------------------
(* An address is only ever tried for the virtual IP of the client whose    *)
(* address it is, and nobody tries to reach itself (p2p.go:157,            *)
(* client.go:505).                                                         *)
AddressesAreTheirs ==
    \A c \in Clients, v \in Vips :
        links[c][v] # Unlinked => VipOf[links[c][v].addr] = v /\ links[c][v].addr # c

Rest ==
    \A c \in Clients :
        up[c] = <<>> /\ down[c] = <<>> /\ todo[c] = <<>> /\ stage[c] # "joined"

(* When all is quiet, any two members that have a manager have each been   *)
(* given the other's address, in whatever order they came, sent their      *)
(* addresses and asked (server.go:610-797): nobody is left on the relay    *)
(* without a try, however often clients leave and come back.  There is one *)
(* exception: Manager.AddPeer (p2p.go:179) leaves alone a link that is     *)
(* active or being punched, and that may be with one who had the same      *)
(* virtual IP and has left the room.                                       *)
Gone == {e \in Clients \ members : stage[e] = "left"}

IntroducedAtRest ==
    Rest => \A c, d \in Clients :
        c # d /\ manager[c] /\ manager[d] =>
            links[c][VipOf[d]].addr \in {d} \cup {e \in Gone : VipOf[e] = VipOf[d]}

(* What is not so: without the exception.  One that comes back with the    *)
(* lease it had is not tried as long as its former link is kept.           *)
EachToldOfTheOther ==
    Rest => \A c, d \in Clients :
        c # d /\ manager[c] /\ manager[d] => links[c][VipOf[d]].addr = d
=============================================================================
