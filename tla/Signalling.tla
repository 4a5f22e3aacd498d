----------------------------- MODULE Signalling ------------------------------
(***************************************************************************)
(* How the clients of a room learn each other's UDP addresses through the  *)
(* server: the handlers of punch requests, offers and answers in           *)
(* internal/server and in internal/client, with the joins and departures   *)
(* that set them going.                                                    *)
(*                                                                         *)
(* A client's UDP address, with its NAT type and candidates, which travel  *)
(* with it, is the client itself.  Each client joins once; one that comes  *)
(* back is another, with the same virtual IP.  A client is in the room and *)
(* has its reply in one step (RoomServer and ClientSession have the        *)
(* steps); what its handler sends after that is one write a step.  The two *)
(* directions of a connection are FIFO.  A write to a client waits while   *)
(* Capacity messages are on their way; the direction to the server is      *)
(* unbounded, so that this never lasts (ServerLocks has both directions).  *)
(***************************************************************************)
EXTENDS Introduction, Sequences, SequencesExt

server == <<virtualIP, udpAddr, members, todo>>
client == <<stage, manager, links>>
vars == <<server, client, up, down>>

Msg(type, vip, addr) == [type |-> type, vip |-> vip, addr |-> addr]
Update(vips) == [type |-> "PeerUpdate", peers |-> vips]
Write(c, m) == [do |-> "write", to |-> c, msg |-> m]

Addresses == Clients \cup {None}

Messages ==
    [type : {"PunchReq", "Offer", "Answer", "PunchResp", "Leave"}, vip : Vips \cup {None},
     addr : Addresses] \cup [type : {"PeerUpdate"}, peers : SUBSET Vips]

Tasks == [do : {"write"}, to : Clients, msg : Messages] \cup [do : {"remove", "broadcast"}]
             \cup [do : {"describe"}, peer : Clients]

TypeOK ==
    /\ virtualIP \in [Clients -> Vips \cup {None}]
    /\ udpAddr \in [Clients -> Addresses]
    /\ members \subseteq Clients
    /\ stage \in [Clients -> {"out", "joined", "in", "left"}]
    /\ manager \in [Clients -> BOOLEAN]
    /\ links \in [Clients -> [Vips ->
                    [state : {"punching", "given up", "active"}, addr : Clients] \cup {Unlinked}]]
    /\ up \in [Clients -> Seq(Messages)] /\ down \in [Clients -> Seq(Messages)]
    /\ todo \in [Clients -> Seq(Tasks)]

Init ==
    /\ virtualIP = [c \in Clients |-> None] /\ udpAddr = [c \in Clients |-> None]
    /\ members = {}
    /\ todo = [c \in Clients |-> <<>>]
    /\ stage = [c \in Clients |-> "out"] /\ manager = [c \in Clients |-> FALSE]
    /\ links = [c \in Clients |-> [v \in Vips |-> Unlinked]]
    /\ up = [c \in Clients |-> <<>>] /\ down = [c \in Clients |-> <<>>]

-----------------------------------------------------------------------------
(* The manager of c is given an address of the peer with a virtual IP.  A  *)
(* link that is active or being punched stays as it is.                    *)
AddPeer(c, vip, addr) ==
    links' = IF links[c][vip].state \in {"punching", "active"} THEN links
             ELSE [links EXCEPT ![c][vip] = [state |-> "punching", addr |-> addr]]

(* Punching comes to an end.                                               *)
EndPunching(c, vip, result) ==
    /\ links[c][vip].state = "punching"
    /\ links' = [links EXCEPT ![c][vip].state = result]
    /\ UNCHANGED <<server, stage, manager, up, down>>

-----------------------------------------------------------------------------
(* Fault: the address is not reported.                                     *)
InitP2P_NoReport(c) ==
    /\ stage[c] = "joined"
    /\ stage' = [stage EXCEPT ![c] = "in"]
    /\ \E ok \in BOOLEAN : manager' = [manager EXCEPT ![c] = ok]
    /\ UNCHANGED <<server, links, up, down>>

(* The client's window opens once it has joined.  Its manager may fail;    *)
(* one that does not reports its address before anything is received.      *)
InitP2P(c) ==
    /\ stage[c] = "joined"
    /\ stage' = [stage EXCEPT ![c] = "in"]
    /\ \/ /\ manager' = [manager EXCEPT ![c] = TRUE]
          /\ up' = [up EXCEPT ![c] = Append(@, Msg("Offer", VipOf[c], c))]
       \/ UNCHANGED <<manager, up>>
    /\ UNCHANGED <<server, links, down>>

(* receiveLoop takes the next message.                                     *)
Receives(c, type) ==
    /\ stage[c] = "in"
    /\ down[c] # <<>> /\ Head(down[c]).type = type
    /\ down' = [down EXCEPT ![c] = Tail(@)]
    /\ UNCHANGED <<server, stage, manager>>

(* It asks for every other member without an active link.                  *)
HandleUpdate(c) ==
    /\ Receives(c, "PeerUpdate")
    /\ LET wanted == {v \in Head(down[c]).peers \ {VipOf[c]} : links[c][v].state # "active"}
       IN  \E vips \in SetToSeqs(IF manager[c] THEN wanted ELSE {}) :
               up' = [up EXCEPT ![c] = @ \o [i \in DOMAIN vips |-> Msg("PunchReq", vips[i], None)]]
    /\ UNCHANGED links

(* What cannot be decoded, because its sender could not encode it, is      *)
(* ignored, as is what has no address or comes before there is a manager.  *)
Usable(c) == manager[c] /\ Head(down[c]).vip # None /\ Head(down[c]).addr # None

HandleOffer(c) ==
    /\ Receives(c, "Offer")
    /\ IF Usable(c)
       THEN /\ AddPeer(c, Head(down[c]).vip, Head(down[c]).addr)
            /\ up' = [up EXCEPT ![c] = Append(@, Msg("Answer", VipOf[c], c))]
       ELSE UNCHANGED <<links, up>>

HandleAnswer(c) ==
    /\ Receives(c, "Answer") \/ Receives(c, "PunchResp")
    /\ IF Usable(c) THEN AddPeer(c, Head(down[c]).vip, Head(down[c]).addr) ELSE UNCHANGED links
    /\ UNCHANGED up

(* The user disconnects or the connection is lost, and with it what had    *)
(* not arrived.                                                            *)
Depart(c) ==
    /\ c \in Leavers /\ stage[c] \in {"joined", "in"}
    /\ stage' = [stage EXCEPT ![c] = "left"]
    /\ manager' = [manager EXCEPT ![c] = FALSE]
    /\ links' = [links EXCEPT ![c] = [v \in Vips |-> Unlinked]]
    /\ down' = [down EXCEPT ![c] = <<>>]
    /\ \E arrived \in {up[c], <<>>} :
           up' = [up EXCEPT ![c] = Append(arrived, Msg("Leave", None, None))]
    /\ UNCHANGED server

-----------------------------------------------------------------------------
(* The server.  An address goes to one client at a time.                   *)
Join(c) ==
    /\ stage[c] = "out"
    /\ \A d \in Clients : virtualIP[d] # VipOf[c]
    /\ \A d \in members : VipOf[d] # VipOf[c]
    /\ stage' = [stage EXCEPT ![c] = "joined"]
    /\ virtualIP' = [virtualIP EXCEPT ![c] = VipOf[c]]
    /\ members' = members \cup {c}
    /\ todo' = [todo EXCEPT ![c] = <<[do |-> "broadcast"]>>]
    /\ UNCHANGED <<udpAddr, manager, links, up, down>>

(* The handler of c takes the next message of its connection.              *)
Takes(c, type) ==
    /\ todo[c] = <<>>
    /\ up[c] # <<>> /\ Head(up[c]).type = type
    /\ up' = [up EXCEPT ![c] = Tail(@)]
    /\ UNCHANGED <<members, client>>

(* A message to a connection that has ended is lost.                       *)
Send(c, m) ==
    /\ Len(down[c]) < Capacity
    /\ down' = IF stage[c] = "left" THEN down ELSE [down EXCEPT ![c] = Append(@, m)]

(* The requester's fields, which only its own handler changes, go to the   *)
(* target; then comes the target's turn.                                   *)
HandlePunchReq(c) ==
    /\ Takes(c, "PunchReq")
    /\ IF \E d \in members : VipOf[d] = Head(up[c]).vip
       THEN LET target == CHOOSE d \in members : VipOf[d] = Head(up[c]).vip
            IN  /\ Send(target, Msg("Offer", virtualIP[c], udpAddr[c]))
                /\ todo' = [todo EXCEPT ![c] = <<[do |-> "describe", peer |-> target]>>]
       ELSE UNCHANGED <<todo, down>>
    /\ UNCHANGED <<virtualIP, udpAddr>>

(* An offer or an answer: the address is noted, and all others get it.     *)
Relay(c, type) ==
    /\ Takes(c, type)
    /\ udpAddr' = [udpAddr EXCEPT ![c] = Head(up[c]).addr]
    /\ \E peers \in SetToSeqs(members \ {c}) :
           todo' = [todo EXCEPT ![c] =
               [i \in DOMAIN peers |->
                   Write(peers[i], Msg(type, virtualIP[c], Head(up[c]).addr))]]
    /\ UNCHANGED <<virtualIP, down>>

(* The connection has ended; handleLeave clears the fields first.          *)
Leave(c) ==
    /\ Takes(c, "Leave")
    /\ virtualIP' = [virtualIP EXCEPT ![c] = None]
    /\ todo' = [todo EXCEPT ![c] = <<[do |-> "remove"], [do |-> "broadcast"]>>]
    /\ UNCHANGED <<udpAddr, down>>

(* What the handler does next.                                             *)
Does(c, what) == todo[c] # <<>> /\ Head(todo[c]).do = what

RemoveMember(c) ==
    /\ Does(c, "remove")
    /\ members' = members \ {c}
    /\ todo' = [todo EXCEPT ![c] = Tail(@)]
    /\ UNCHANGED <<virtualIP, udpAddr, client, up, down>>

(* A snapshot that has a member without an address cannot be encoded.      *)
Broadcast(c) ==
    /\ Does(c, "broadcast")
    /\ LET vips == {virtualIP[d] : d \in members}
       IN  \E peers \in SetToSeqs(IF None \in vips THEN {} ELSE members) :
               todo' = [todo EXCEPT ![c] =
                   [i \in DOMAIN peers |-> Write(peers[i], Update(vips))] \o Tail(@)]
    /\ UNCHANGED <<virtualIP, udpAddr, members, client, up, down>>

(* Fault: the requester's virtual IP with the target's address.            *)
Describe_Mixed(c) ==
    /\ Does(c, "describe")
    /\ LET d == Head(todo[c]).peer IN Send(c, Msg("PunchResp", virtualIP[c], udpAddr[d]))
    /\ todo' = [todo EXCEPT ![c] = Tail(@)]
    /\ UNCHANGED <<virtualIP, udpAddr, members, client, up>>

(* The target's fields, as they are by now, go to the requester.           *)
Describe(c) ==
    /\ Does(c, "describe")
    /\ LET d == Head(todo[c]).peer IN Send(c, Msg("PunchResp", virtualIP[d], udpAddr[d]))
    /\ todo' = [todo EXCEPT ![c] = Tail(@)]
    /\ UNCHANGED <<virtualIP, udpAddr, members, client, up>>

WriteMessage(c) ==
    /\ Does(c, "write")
    /\ Send(Head(todo[c]).to, Head(todo[c]).msg)
    /\ todo' = [todo EXCEPT ![c] = Tail(@)]
    /\ UNCHANGED <<virtualIP, udpAddr, members, client, up>>

-----------------------------------------------------------------------------
Handle(c) ==
    \/ HandlePunchReq(c) \/ Relay(c, "Offer") \/ Relay(c, "Answer") \/ Leave(c)
    \/ RemoveMember(c) \/ Broadcast(c) \/ Describe(c) \/ WriteMessage(c)

Receive(c) == HandleUpdate(c) \/ HandleOffer(c) \/ HandleAnswer(c)

Next ==
    \E c \in Clients :
        \/ Join(c) \/ InitP2P(c) \/ Receive(c) \/ Depart(c) \/ Handle(c)
        \/ \E v \in Vips, result \in Outcomes : EndPunching(c, v, result)

Spec == Init /\ [][Next]_vars
=============================================================================
