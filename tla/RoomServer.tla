----------------------------- MODULE RoomServer -----------------------------
(***************************************************************************)
(* The rooms of internal/server/server.go and the goroutines that serve    *)
(* the connections: who is in a room under which virtual IP, what the      *)
(* clients are told about it, and where packets are relayed.               *)
(*                                                                         *)
(* A session is one connection with the Client object handleAuth made for  *)
(* it; its handler is one goroutine that reads a message and runs the      *)
(* whole handler before it reads the next.  Handlers of different sessions *)
(* interleave.  A step is one critical section of client.mu, room.mu,      *)
(* Allocator.mu or s.mu, or one message written to a connection; what a    *)
(* handler does between two of these is local to it and belongs to the     *)
(* step before.  Two pairs of sections are one step:                       *)
(*   - the lookup in s.rooms with what follows: rooms are never removed    *)
(*     here (creation is left to another module);                          *)
(*   - the room's lock in broadcastPeerUpdate with the clients' locks      *)
(*     taken under it: while the room is locked a member's virtualIP can   *)
(*     only change from an address to nil, so the loop reads what it would *)
(*     read at its first or, if it meets a nil, at its last iteration.     *)
(*                                                                         *)
(* The rooms exist from the start.  A lost connection, a closed one and    *)
(* one the keepalive checker closes look the same: the next read fails.    *)
(***************************************************************************)
EXTENDS IPAllocator

CONSTANTS
    Sessions,       \* the connections
    UsersOf,        \* the usernames each client knows the password of
    Rooms,          \* the names of the rooms
    SubnetOf,       \* the subnet of each room
    NoRoom,         \* the empty roomName; asked for, a name nobody created
    Switchers,      \* the sessions that may ask for a room while in one
    Talkers,        \* the sessions that send packets
    NoView          \* no PeerUpdate received yet

ASSUME RoomAssumption ==
    /\ UsersOf \in [Sessions -> SUBSET Users]
    /\ SubnetOf \in [Rooms -> Networks]
    /\ NoRoom \notin Rooms
    /\ Switchers \cup Talkers \subseteq Sessions
    /\ NoView \notin [room : Rooms, ips : SUBSET Addr]

VARIABLES
    link,           \* the connection: "off", "open", or "broken" when its
                    \* next read fails
    clients,        \* s.clients, the sessions that are logged in
    username,       \* client.username, of no meaning before the login
    virtualIP,      \* client.virtualIP
    roomName,       \* client.roomName
    members,        \* room.Clients, as a set of pairs <<virtual IP, session>>
    alloc,          \* room.Allocator
    pc,             \* what the handler does next
    local,          \* its local variables: the room and the address it works
                    \* on, the room asked for, and what follows a broadcast
    todo,           \* the clients it still has to write its message to
    msg,            \* that message
    first,          \* what the client has read since it asked to join: "none"
                    \* yet, the "reply" first, only "other" messages, the
                    \* reply "late", or it "twice"; "idle" before it asks
    view            \* the last PeerUpdate it has read since it asked to join

vars == <<link, clients, username, virtualIP, roomName, members, alloc,
          pc, local, todo, msg, first, view>>

Labels == {"off", "read", "lookup", "setFields", "insert", "respond",
           "remove", "release", "broadcast", "write", "drop"}

Locals == [room : Rooms \cup {NoRoom}, vip : Addr \cup {NoIP},
           want : Rooms \cup {NoRoom}, after : {"read", "lookup", "drop"}]

Reads == {"idle", "none", "reply", "other", "late", "twice"}

Updates == [room : Rooms, ips : SUBSET Addr]
Data == [room |-> NoRoom, ips |-> {}]

TypeOK ==
    /\ link \in [Sessions -> {"off", "open", "broken"}]
    /\ clients \subseteq Sessions
    /\ username \in [Sessions -> Users]
    /\ virtualIP \in [Sessions -> Addr \cup {NoIP}]
    /\ roomName \in [Sessions -> Rooms \cup {NoRoom}]
    /\ members \in [Rooms -> SUBSET (Addr \X Sessions)]
    /\ alloc \in [Rooms -> Allocators]
    /\ pc \in [Sessions -> Labels]
    /\ local \in [Sessions -> Locals]
    /\ todo \in [Sessions -> SUBSET Sessions]
    /\ msg \in [Sessions -> Updates \cup {Data}]
    /\ first \in [Sessions -> Reads]
    /\ view \in [Sessions -> Updates \cup {NoView}]

Blank == [room |-> NoRoom, vip |-> NoIP, want |-> NoRoom, after |-> "read"]

Init ==
    /\ link = [s \in Sessions |-> "off"]
    /\ clients = {}
    /\ username \in [Sessions -> Users]
    /\ virtualIP = [s \in Sessions |-> NoIP]
    /\ roomName = [s \in Sessions |-> NoRoom]
    /\ members = [r \in Rooms |-> {}]
    /\ alloc = [r \in Rooms |-> NewIPAllocator(SubnetOf[r])]
    /\ pc = [s \in Sessions |-> "off"]
    /\ local = [s \in Sessions |-> Blank]
    /\ todo = [s \in Sessions |-> {}]
    /\ msg = [s \in Sessions |-> Data]
    /\ first = [s \in Sessions |-> "idle"]
    /\ view = [s \in Sessions |-> NoView]

-----------------------------------------------------------------------------
(* Connections.                                                            *)

(* A new connection that logs in.  A session is used again only when no    *)
(* handler still holds the Client object of its former life.               *)
Connect(s) ==
    /\ link[s] = "off"
    /\ \A t \in Sessions : s \notin todo[t]
    /\ link' = [link EXCEPT ![s] = "open"]
    /\ clients' = clients \cup {s}
    /\ \E u \in UsersOf[s] : username' = [username EXCEPT ![s] = u]
    /\ pc' = [pc EXCEPT ![s] = "read"]
    /\ UNCHANGED <<virtualIP, roomName, members, alloc, local, todo, msg, first, view>>

(* The connection is lost; what the client knew is gone with it.           *)
Break(s) ==
    /\ link[s] = "open"
    /\ link' = [link EXCEPT ![s] = "broken"]
    /\ first' = [first EXCEPT ![s] = "idle"]
    /\ view' = [view EXCEPT ![s] = NoView]
    /\ UNCHANGED <<clients, username, virtualIP, roomName, members, alloc, pc, local, todo, msg>>

(* A message reaches the client if the connection still stands; the errors *)
(* of a write are ignored.                                                 *)
Delivered(t, what) ==
    first' = IF link[t] # "open" THEN first
             ELSE [first EXCEPT ![t] =
                      IF what = "other" THEN IF @ = "none" THEN "other" ELSE @
                      ELSE IF @ = "none" THEN "reply"
                      ELSE IF @ = "other" THEN "late" ELSE "twice"]

(* The broadcast is over and with it the function that made it: nothing of *)
(* its local variables is left but what the handler still has to do.       *)
Return(s) ==
    /\ pc' = [pc EXCEPT ![s] = local[s].after]
    /\ local' = [local EXCEPT ![s] = [Blank EXCEPT !.want = local[s].want]]

-----------------------------------------------------------------------------
(* handleLeave, also called by handleJoinRoom and handleDisconnect.        *)

(* Fault: the client keeps the address it had.                             *)
ClearFields_KeepsAddress(s, want, after) ==
    /\ UNCHANGED <<virtualIP, roomName>>
    /\ pc' = [pc EXCEPT ![s] = IF roomName[s] = NoRoom THEN after ELSE "remove"]
    /\ local' = [local EXCEPT ![s] = [room |-> roomName[s], vip |-> virtualIP[s],
                                      want |-> want, after |-> after]]

(* Its first critical section, on the way to "after".                      *)
ClearFields(s, want, after) ==
    /\ virtualIP' = [virtualIP EXCEPT ![s] = NoIP]
    /\ roomName' = [roomName EXCEPT ![s] = NoRoom]
    /\ IF roomName[s] = NoRoom
       THEN /\ pc' = [pc EXCEPT ![s] = after]
            /\ local' = [local EXCEPT ![s].want = want]
       ELSE /\ pc' = [pc EXCEPT ![s] = "remove"]
            /\ local' = [local EXCEPT ![s] = [room |-> roomName[s], vip |-> virtualIP[s],
                                              want |-> want, after |-> after]]

Leave(s) ==
    /\ pc[s] = "read" /\ link[s] = "open"
    /\ roomName[s] # NoRoom
    /\ ClearFields(s, NoRoom, "read")
    /\ UNCHANGED <<link, clients, username, members, alloc, todo, msg, first, view>>

(* The read fails: handleDisconnect.                                       *)
Disconnect(s) ==
    /\ pc[s] = "read" /\ link[s] = "broken"
    /\ ClearFields(s, NoRoom, "drop")
    /\ UNCHANGED <<link, clients, username, members, alloc, todo, msg, first, view>>

(* Fault: the map is cleared under the address the client has now.         *)
Remove_CurrentAddress(s) ==
    LET r == local[s].room
    IN  /\ pc[s] = "remove"
        /\ members' = [members EXCEPT ![r] = {m \in @ : m[1] # virtualIP[s]}]
        /\ pc' = [pc EXCEPT ![s] = "release"]
        /\ UNCHANGED <<link, clients, username, virtualIP, roomName, alloc, local, todo, msg,
                       first, view>>

Remove(s) ==
    LET r == local[s].room
    IN  /\ pc[s] = "remove"
        /\ members' = [members EXCEPT ![r] = {m \in @ : m[1] # local[s].vip}]
        /\ pc' = [pc EXCEPT ![s] = "release"]
        /\ UNCHANGED <<link, clients, username, virtualIP, roomName, alloc, local, todo, msg,
                       first, view>>

(* Fault: a lost connection does not give its address back.                *)
ReleaseIP_PoliteOnly(s) ==
    LET r == local[s].room
    IN  /\ pc[s] = "release"
        /\ alloc' = IF local[s].after = "drop" THEN alloc
                    ELSE [alloc EXCEPT ![r] = ReleaseWithLease(@, local[s].vip, username[s])]
        /\ pc' = [pc EXCEPT ![s] = "broadcast"]
        /\ UNCHANGED <<link, clients, username, virtualIP, roomName, members, local, todo, msg,
                       first, view>>

(* Fault: those who stay are not told.                                     *)
ReleaseIP_Silent(s) ==
    LET r == local[s].room
    IN  /\ pc[s] = "release"
        /\ alloc' = [alloc EXCEPT ![r] = ReleaseWithLease(@, local[s].vip, username[s])]
        /\ Return(s)
        /\ UNCHANGED <<link, clients, username, virtualIP, roomName, members, todo, msg, first, view>>

ReleaseIP(s) ==
    LET r == local[s].room
    IN  /\ pc[s] = "release"
        /\ alloc' = [alloc EXCEPT ![r] = ReleaseWithLease(@, local[s].vip, username[s])]
        /\ pc' = [pc EXCEPT ![s] = "broadcast"]
        /\ UNCHANGED <<link, clients, username, virtualIP, roomName, members, local, todo, msg,
                       first, view>>

(* The rest of handleDisconnect, and the end of handleConnection.          *)
Drop(s) ==
    /\ pc[s] = "drop"
    /\ clients' = clients \ {s}
    /\ link' = [link EXCEPT ![s] = "off"]
    /\ pc' = [pc EXCEPT ![s] = "off"]
    /\ UNCHANGED <<username, virtualIP, roomName, members, alloc, local, todo, msg, first,
                   view>>

-----------------------------------------------------------------------------
(* handleJoinRoom.                                                         *)

(* Fault: the former room is not left.                                     *)
Join_WithoutLeaving(s, r) ==
    /\ pc[s] = "read" /\ link[s] = "open"
    /\ s \in Switchers \/ roomName[s] = NoRoom
    /\ pc' = [pc EXCEPT ![s] = "lookup"]
    /\ local' = [local EXCEPT ![s].want = r]
    /\ first' = [first EXCEPT ![s] = "none"]
    /\ view' = [view EXCEPT ![s] = NoView]
    /\ UNCHANGED <<link, clients, username, virtualIP, roomName, members, alloc, todo, msg>>

(* The request arrives; who is in a room leaves it first.                  *)
Join(s, r) ==
    /\ pc[s] = "read" /\ link[s] = "open"
    /\ s \in Switchers \/ roomName[s] = NoRoom
    /\ ClearFields(s, r, "lookup")
    /\ first' = [first EXCEPT ![s] = "none"]
    /\ view' = [view EXCEPT ![s] = NoView]
    /\ UNCHANGED <<link, clients, username, members, alloc, todo, msg>>

(* Fault: the user's lease is not looked up.                               *)
AllocateIP_AnyAddress(s) ==
    LET r == local[s].want
    IN  /\ pc[s] = "lookup"
        /\ r \in Rooms
        /\ \E x \in allocateLocked(expireLeasesLocked(alloc[r])) :
            /\ alloc' = [alloc EXCEPT ![r] = x.alloc]
            /\ local' = [local EXCEPT ![s].room = r, ![s].vip = x.ip, ![s].want = NoRoom]
        /\ pc' = [pc EXCEPT ![s] = "setFields"]
        /\ UNCHANGED <<link, clients, username, virtualIP, roomName, members, todo, msg, first, view>>

(* The room exists, the password is right and there is an address.         *)
AllocateIP(s) ==
    LET r == local[s].want
    IN  /\ pc[s] = "lookup"
        /\ r \in Rooms
        /\ \E x \in AllocateForUser(alloc[r], username[s]) :
            /\ alloc' = [alloc EXCEPT ![r] = x.alloc]
            /\ local' = [local EXCEPT ![s].room = r, ![s].vip = x.ip, ![s].want = NoRoom]
        /\ pc' = [pc EXCEPT ![s] = "setFields"]
        /\ UNCHANGED <<link, clients, username, virtualIP, roomName, members, todo, msg, first, view>>

(* Fault: a refused client is not told.                                    *)
Refuse_Silent(s) ==
    /\ pc[s] = "lookup"
    /\ pc' = [pc EXCEPT ![s] = "read"]
    /\ local' = [local EXCEPT ![s] = Blank]
    /\ UNCHANGED <<link, clients, username, virtualIP, roomName, members, alloc, todo, msg, first, view>>

(* No such room, or the wrong password: nothing was done.  Or no address   *)
(* is left: expired leases have been swept.  The client gets the reply.    *)
Refuse(s) ==
    LET r == local[s].want
    IN  /\ pc[s] = "lookup"
        /\ \/ alloc' = alloc
           \/ /\ r \in Rooms
              /\ AllocateForUser(alloc[r], username[s]) = {}
              /\ alloc' = [alloc EXCEPT ![r] = expireLeasesLocked(@)]
        /\ Delivered(s, "reply")
        /\ pc' = [pc EXCEPT ![s] = "read"]
        /\ local' = [local EXCEPT ![s] = Blank]
        /\ UNCHANGED <<link, clients, username, virtualIP, roomName, members, todo, msg, view>>

SetFields(s) ==
    /\ pc[s] = "setFields"
    /\ virtualIP' = [virtualIP EXCEPT ![s] = local[s].vip]
    /\ roomName' = [roomName EXCEPT ![s] = local[s].room]
    /\ pc' = [pc EXCEPT ![s] = "insert"]
    /\ UNCHANGED <<link, clients, username, members, alloc, local, todo, msg, first, view>>

Insert(s) ==
    LET r == local[s].room
    IN  /\ pc[s] = "insert"
        /\ members' = [members EXCEPT ![r] =
                          {m \in @ : m[1] # local[s].vip} \cup {<<local[s].vip, s>>}]
        /\ pc' = [pc EXCEPT ![s] = "respond"]
        /\ UNCHANGED <<link, clients, username, virtualIP, roomName, alloc, local, todo, msg,
                       first, view>>

(* The reply is written; if that fails nobody is told of the new member.   *)
Respond(s) ==
    /\ pc[s] = "respond"
    /\ Delivered(s, "reply")
    /\ \/ pc' = [pc EXCEPT ![s] = "broadcast"]
       \/ link[s] = "broken" /\ pc' = [pc EXCEPT ![s] = "read"]
    /\ local' = IF pc'[s] = "read" THEN [local EXCEPT ![s] = Blank] ELSE local
    /\ UNCHANGED <<link, clients, username, virtualIP, roomName, members, alloc, todo, msg, view>>

-----------------------------------------------------------------------------
(* broadcastPeerUpdate: the snapshot, and nothing more when a member whose *)
(* address is already cleared cannot be encoded.                           *)
Broadcast(s) ==
    LET r == local[s].room
        present == {m[2] : m \in members[r]}
    IN  /\ pc[s] = "broadcast"
        /\ IF present = {} \/ \E t \in present : virtualIP[t] = NoIP
           THEN /\ Return(s)
                /\ UNCHANGED <<todo, msg>>
           ELSE /\ todo' = [todo EXCEPT ![s] = present]
                /\ msg' = [msg EXCEPT ![s] =
                              [room |-> r, ips |-> {virtualIP[t] : t \in present}]]
                /\ pc' = [pc EXCEPT ![s] = "write"]
                /\ UNCHANGED local
        /\ UNCHANGED <<link, clients, username, virtualIP, roomName, members, alloc, first, view>>

(* The clients, in the order of a Go map, one write at a time.             *)
Write(s, t) ==
    /\ pc[s] = "write"
    /\ t \in todo[s]
    /\ todo' = [todo EXCEPT ![s] = @ \ {t}]
    /\ Delivered(t, "other")
    /\ view' = IF link[t] = "open" /\ msg[s] # Data
               THEN [view EXCEPT ![t] = msg[s]] ELSE view
    /\ IF todo[s] = {t}
       THEN Return(s) /\ msg' = [msg EXCEPT ![s] = Data]
       ELSE UNCHANGED <<pc, local, msg>>
    /\ UNCHANGED <<link, clients, username, virtualIP, roomName, members, alloc>>

(* handleData: the targets are looked up, then written to like the above.  *)
(* dst is a member's address or one whose host bits are all ones; nobody   *)
(* has one of those, so the two lookups of handleData are one step.        *)
Relay(s, dst) ==
    LET r == roomName[s]
        target == {m[2] : m \in {n \in members[r] : n[1] = dst}} \ {s}
        others == {m[2] : m \in members[r]} \ {s}
        to == IF target # {} THEN target
              ELSE IF isBroadcast(SubnetOf[r], dst) THEN others ELSE {}
    IN  /\ s \in Talkers
        /\ pc[s] = "read" /\ link[s] = "open"
        /\ roomName[s] # NoRoom
        /\ to # {}
        /\ todo' = [todo EXCEPT ![s] = to]
        /\ pc' = [pc EXCEPT ![s] = "write"]
        /\ UNCHANGED <<link, clients, username, virtualIP, roomName, members, alloc, local, msg,
                       first, view>>

Tick ==
    /\ alloc' = [r \in Rooms |-> Elapse(alloc[r])]
    /\ UNCHANGED <<link, clients, username, virtualIP, roomName, members, pc, local, todo, msg,
                   first, view>>

-----------------------------------------------------------------------------
Destinations(s) ==
    {virtualIP[t] : t \in Sessions} \cup
        {SubnetOf[r].base + SubnetOf[r].size - 1 : r \in Rooms}

(* What a handler does without waiting for a request.                      *)
Handle(s) ==
    \/ Disconnect(s) \/ Remove(s) \/ ReleaseIP(s) \/ Drop(s)
    \/ AllocateIP(s) \/ Refuse(s) \/ SetFields(s) \/ Insert(s) \/ Respond(s)
    \/ Broadcast(s) \/ \E t \in Sessions : Write(s, t)

Request(s) ==
    \/ Connect(s) \/ Break(s) \/ Leave(s)
    \/ \E r \in Rooms \cup {NoRoom} : Join(s, r)
    \/ \E dst \in Destinations(s) \ {NoIP} : Relay(s, dst)

Next == Tick \/ \E s \in Sessions : Handle(s) \/ Request(s)

Spec == Init /\ [][Next]_vars

-----------------------------------------------------------------------------
InRoom(s, r) == roomName[s] = r /\ virtualIP[s] # NoIP

(* The address of a room that a session has taken from the allocator and   *)
(* not given back: in its fields, or in the hands of its handler.          *)
Holding(r) ==
    [s \in Sessions |->
        IF InRoom(s, r) THEN virtualIP[s]
        ELSE IF pc[s] \in {"setFields", "remove", "release"} /\ local[s].room = r
        THEN local[s].vip
        ELSE NoIP]

(* Nobody is doing anything, and no connection is lost.                    *)
Quiet == \A s \in Sessions : pc[s] \in {"read", "off"} /\ link[s] # "broken"

(* A packet for an address goes to the session that has this address in    *)
(* this room, or that is leaving it and has not reached room.mu yet        *)
(* (handleData's lookup at server.go:535 reads the map, not the client).   *)
RoutesToOwner ==
    \A r \in Rooms : \A m \in members[r] :
        \/ roomName[m[2]] = r /\ virtualIP[m[2]] = m[1]
        \/ pc[m[2]] = "remove" /\ local[m[2]].room = r /\ local[m[2]].vip = m[1]

(* Two sessions never hold the same address of a room, whatever joins,     *)
(* leaves, lost connections and expiring leases come in between.           *)
DistinctVirtualIPs ==
    \A r \in Rooms : \A s, t \in Sessions :
        Holding(r)[s] # NoIP /\ Holding(r)[s] = Holding(r)[t] => s = t

(* Between two messages a session is in the map of the room it believes to *)
(* be in, under its address, and in no other; and one that is gone is in   *)
(* no map, is not logged in and has no address.                            *)
Entries(s) ==
    UNION {{<<r, m[1]>> : m \in {n \in members[r] : n[2] = s}} : r \in Rooms}

AtRestConsistent ==
    \A s \in Sessions :
        /\ pc[s] = "read" =>
              Entries(s) = IF roomName[s] = NoRoom THEN {} ELSE {<<roomName[s], virtualIP[s]>>}
        /\ pc[s] = "off" =>
              /\ Entries(s) = {} /\ s \notin clients
              /\ \A r \in Rooms : Holding(r)[s] = NoIP

Leased(r, u) == alloc[r].leases[u] # NoLease

(* The addresses of a room that are used although nobody holds or leases   *)
(* them: nothing gives them out again or frees them.                       *)
Lost(r) ==
    alloc[r].used \ ({Holding(r)[s] : s \in Sessions} \cup
                        {alloc[r].leases[u].ip : u \in {v \in Users : Leased(r, v)}})

(* A room loses an address in one way only: a session gives one back while *)
(* its user has a lease already, from another session, and the new lease   *)
(* replaces it (ipalloc.go:109); what is lost is that lease's address.  No *)
(* join, refusal, departure or lost connection loses one, between whatever *)
(* steps of other handlers it comes.                                       *)
OnlyOverwritingLoses ==
    [][\A r \in Rooms : \A ip \in Lost(r)' \ Lost(r) :
          \E s \in Sessions : /\ pc[s] = "release" /\ pc'[s] # "release"
                              /\ local[s].room = r /\ Leased(r, username[s])
                              /\ alloc[r].leases[username[s]].ip = ip]_vars

(* When everything has come to rest every member knows the members of its  *)
(* room (README.md:47 "shows the online nodes of the room in real time").  *)
ViewsSettle ==
    Quiet => \A s \in Sessions : roomName[s] # NoRoom =>
        view[s] = [room |-> roomName[s], ips |-> {m[1] : m \in members[roomName[s]]}]

(* Weaker than ViewsSettle: when everything has come to rest every member  *)
(* has been told of its room since it asked to join, although a broadcast  *)
(* that meets a leaving member is given up (server.go:821-825).            *)
ToldOfRoom ==
    Quiet => \A s \in Sessions : roomName[s] # NoRoom => view[s] # NoView

(* The first message a client reads after it asked to join is the reply to *)
(* its request (client.go:287 reads one message as "join response").       *)
ReplyComesFirst == \A s \in Sessions : first[s] \notin {"other", "late"}

(* The addresses of a room follow the promise of the allocator, with the   *)
(* steps of the handlers in between.                                       *)
ReservedIn(r) == Reservations(alloc[r])

Promise(r) == INSTANCE AddressPromise
    WITH Addresses <- Addr, Anonymous <- {}, held <- Holding(r), reserved <- ReservedIn(r)

RoomsKeepPromise ==
    /\ \A r \in Rooms : Promise(r)!Init
    /\ [][\A r \in Rooms : [Promise(r)!Next]_<<Holding(r), ReservedIn(r)>>]_vars

(* A join request is answered once, behind other messages perhaps: a       *)
(* handler that reads on has written the one reply, refused or not, unless *)
(* the connection is lost (server.go:429-516 has five ways out).           *)
OneReplyEach ==
    \A s \in Sessions :
        /\ first[s] # "twice"
        /\ pc[s] = "read" /\ link[s] = "open" => first[s] \notin {"none", "other"}
=============================================================================
