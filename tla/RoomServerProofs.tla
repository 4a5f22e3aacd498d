-------------------------- MODULE RoomServerProofs --------------------------
(***************************************************************************)
(* What holds of RoomServer for all sets of sessions, users and rooms,     *)
(* with any number of sessions for each user.                              *)
(*                                                                         *)
(* The invariant is built in layers, each proved with the help of those    *)
(* before it.                                                              *)
(*   1. Control: what the fields and the local variables of one session    *)
(*      say of each other; an action disturbs it for its own session only. *)
(*   2. Held: each room's allocator and those who hold its addresses are   *)
(*      as IPAllocatorProofs wants them.  Holding(r) changes in AllocateIP *)
(*      and ReleaseIP and in no other step: an address goes from the hands *)
(*      of the handler to the fields and back without being dropped.       *)
(*   3. Routed: the map of a room and the fields of its members.  It needs *)
(*      Held, for a handler removes the entry of an address and would      *)
(*      remove another member's if two had the same one.                   *)
(*   4. WillBeTold: whoever has been told nothing of its room has somebody *)
(*      who is about to tell it.                                           *)
(* Beside them, Reply says what a client has read while its join request   *)
(* is in hand and after it.                                                *)
(***************************************************************************)
EXTENDS RoomServer, IPAllocatorProofs

(* What the fields and the local variables of a session say of each other. *)
Fields(s) ==
    /\ roomName[s] = NoRoom <=> virtualIP[s] = NoIP
    /\ pc[s] \in {"lookup", "setFields", "remove", "release", "drop", "off"}
          => roomName[s] = NoRoom
    /\ pc[s] \in {"insert", "respond"}
          => roomName[s] = local[s].room /\ virtualIP[s] = local[s].vip

Hands(s) ==
    /\ pc[s] \notin {"remove", "release", "broadcast", "write"} => local[s].after = "read"
    /\ pc[s] \in {"remove", "release", "broadcast", "write"} /\ local[s].after # "read"
          => roomName[s] = NoRoom
    /\ pc[s] \in {"setFields", "insert", "respond", "remove", "release", "broadcast"}
          => local[s].room \in Rooms
    /\ pc[s] \in {"setFields", "insert", "respond", "remove", "release"}
          => local[s].vip \in Addr
    /\ pc[s] # "write" => msg[s] = Data

Connected(s) ==
    /\ pc[s] = "off" <=> link[s] = "off"
    /\ pc[s] = "off" <=> s \notin clients

Control == \A s \in Sessions : Fields(s) /\ Hands(s) /\ Connected(s)

(* In every room the allocator and those who hold its addresses.           *)
HeldIn(r) ==
    /\ alloc[r].network = SubnetOf[r]
    /\ Apart(alloc[r], Sessions, Holding(r))
    /\ AllHosts(alloc[r], Sessions, Holding(r))

Held == \A r \in Rooms : HeldIn(r)

(* A session is in the map of the room it believes to be in.               *)
Listed ==
    \A s \in Sessions :
        roomName[s] # NoRoom /\ pc[s] # "insert"
            => <<virtualIP[s], s>> \in members[roomName[s]]

(* Somebody is about to tell s of its room: s itself after it has joined,  *)
(* anyone who left or is about to broadcast, or one who is writing.        *)
Told(s, t) ==
    \/ t = s /\ pc[s] \in {"insert", "respond"}
    \/ pc[t] \in {"remove", "release", "broadcast"} /\ local[t].room = roomName[s]
    \/ pc[t] = "write" /\ msg[t] # Data /\ s \in todo[t]

Pending(s) ==
    roomName[s] # NoRoom /\ link[s] = "open" /\ view[s] = NoView
        => \E t \in Sessions : Told(s, t)

WillBeTold == \A s \in Sessions : Pending(s)

Routed == RoutesToOwner /\ Listed

TInv == TypeOK /\ Control
HInv == TInv /\ Held
RInv == HInv /\ Routed
IInv == RInv /\ WillBeTold

-----------------------------------------------------------------------------
(* Layer 1: the fields and local variables of a session.                   *)

(* All but s keep what is theirs; only Write changes what others read.     *)
Others(s) ==
    \A t \in Sessions : t # s =>
        /\ link'[t] = link[t] /\ (t \in clients' <=> t \in clients)
        /\ virtualIP'[t] = virtualIP[t] /\ roomName'[t] = roomName[t]
        /\ pc'[t] = pc[t] /\ local'[t] = local[t]
        /\ todo'[t] = todo[t] /\ msg'[t] = msg[t]

Step(s) ==
    \/ Handle(s) \/ Request(s)

LEMMA StepOthers ==
    ASSUME TypeOK, NEW s \in Sessions, Step(s)
    PROVE  Others(s)
  <1> USE DEF TypeOK, Others
  <1>1. CASE Disconnect(s) \/ Leave(s)
    BY <1>1 DEF Disconnect, Leave, ClearFields
  <1>2. CASE Remove(s) \/ ReleaseIP(s) \/ Drop(s)
    BY <1>2 DEF Remove, ReleaseIP, Drop
  <1>3. CASE AllocateIP(s) \/ Refuse(s) \/ SetFields(s) \/ Insert(s) \/ Respond(s)
    BY <1>3 DEF AllocateIP, Refuse, SetFields, Insert, Respond
  <1>4. CASE Broadcast(s)
    BY <1>4 DEF Broadcast, Return
  <1>5. ASSUME NEW t \in Sessions, Write(s, t) PROVE Others(s)
    BY <1>5 DEF Write, Return
  <1>6. CASE Connect(s) \/ Break(s)
    BY <1>6 DEF Connect, Break
  <1>7. ASSUME NEW r \in Rooms \cup {NoRoom}, Join(s, r) PROVE Others(s)
    BY <1>7 DEF Join, ClearFields
  <1>8. ASSUME NEW dst \in Destinations(s) \ {NoIP}, Relay(s, dst) PROVE Others(s)
    BY <1>8 DEF Relay
  <1> QED
    BY <1>1, <1>2, <1>3, <1>4, <1>5, <1>6, <1>7, <1>8 DEF Step, Handle, Request

(* The parts of Control for the others are kept with what they read.       *)
LEMMA ControlOthers ==
    ASSUME TypeOK, Control, NEW s \in Sessions, Others(s),
           Fields(s)', Hands(s)', Connected(s)'
    PROVE  Control'
  <1> SUFFICES ASSUME NEW t \in Sessions, t # s
               PROVE  Fields(t)' /\ Hands(t)' /\ Connected(t)'
    BY DEF Control
  <1>1. Fields(t) /\ Hands(t) /\ Connected(t)
    BY DEF Control
  <1> QED
    BY <1>1 DEF Others, Fields, Hands, Connected

LEMMA InitTInv == Init => TInv
  <1> SUFFICES ASSUME Init PROVE TInv
    OBVIOUS
  <1>1. \A r \in Rooms : NewIPAllocator(SubnetOf[r]) \in Allocators
    BY NewAllocatorType, RoomAssumption
  <1>2. Blank \in Locals
    BY DEF Blank, Locals
  <1>3. TypeOK
    BY <1>1, <1>2, RoomAssumption DEF Init, TypeOK, Labels, Reads
  <1>4. Control
    BY DEF Init, Control, Fields, Hands, Connected, Blank
  <1> QED
    BY <1>3, <1>4 DEF TInv

(* The first critical section of handleLeave takes room and address out of *)
(* the fields and into the hands of the handler.                           *)
LEMMA ClearFieldsResult ==
    ASSUME TInv, NEW s \in Sessions, NEW want \in Rooms \cup {NoRoom},
           NEW after \in {"read", "lookup", "drop"},
           pc[s] = "read", ClearFields(s, want, after)
    PROVE  /\ virtualIP' = [virtualIP EXCEPT ![s] = NoIP]
           /\ roomName' = [roomName EXCEPT ![s] = NoRoom]
           /\ pc' \in [Sessions -> Labels]
           /\ local' \in [Sessions -> Locals]
           /\ \/ /\ roomName[s] = NoRoom /\ pc'[s] = after
                 /\ local'[s].after = "read"
              \/ /\ roomName[s] \in Rooms /\ virtualIP[s] \in Addr
                 /\ pc'[s] = "remove"
                 /\ local'[s].room = roomName[s] /\ local'[s].vip = virtualIP[s]
                 /\ local'[s].after = after
  <1>1. /\ pc \in [Sessions -> Labels] /\ local \in [Sessions -> Locals]
        /\ roomName[s] \in Rooms \cup {NoRoom}
        /\ virtualIP[s] \in Addr \cup {NoIP}
        /\ local[s] \in Locals /\ local[s].after = "read"
        /\ roomName[s] = NoRoom <=> virtualIP[s] = NoIP
    BY DEF TInv, TypeOK, Control, Fields, Hands
  <1>2. CASE roomName[s] = NoRoom
    <2>1. pc' = [pc EXCEPT ![s] = after] /\ local' = [local EXCEPT ![s].want = want]
      BY <1>2 DEF ClearFields
    <2>2. [local[s] EXCEPT !.want = want] \in Locals
          /\ [local[s] EXCEPT !.want = want].after = local[s].after
      BY <1>1 DEF Locals
    <2> QED
      BY <1>1, <1>2, <2>1, <2>2 DEF ClearFields, Labels
  <1>3. CASE roomName[s] # NoRoom
    <2> DEFINE new == [room |-> roomName[s], vip |-> virtualIP[s],
                       want |-> want, after |-> after]
    <2>1. pc' = [pc EXCEPT ![s] = "remove"] /\ local' = [local EXCEPT ![s] = new]
      BY <1>3 DEF ClearFields
    <2>2. new \in Locals
      BY <1>1 DEF Locals
    <2> QED
      BY <1>1, <1>3, <2>1, <2>2 DEF ClearFields, Labels
  <1> QED
    BY <1>2, <1>3

LEMMA ClearFieldsT ==
    ASSUME TInv, NEW s \in Sessions, NEW want \in Rooms \cup {NoRoom},
           NEW after \in {"read", "lookup", "drop"},
           pc[s] = "read", ClearFields(s, want, after), Step(s),
           UNCHANGED <<link, clients, username, members, alloc, todo, msg>>,
           first' \in [Sessions -> Reads],
           view' \in [Sessions -> Updates \cup {NoView}]
    PROVE  TInv'
  <1>1. /\ virtualIP' = [virtualIP EXCEPT ![s] = NoIP]
        /\ roomName' = [roomName EXCEPT ![s] = NoRoom]
        /\ pc' \in [Sessions -> Labels]
        /\ local' \in [Sessions -> Locals]
        /\ \/ /\ roomName[s] = NoRoom /\ pc'[s] = after
              /\ local'[s].after = "read"
           \/ /\ roomName[s] \in Rooms /\ virtualIP[s] \in Addr
              /\ pc'[s] = "remove"
              /\ local'[s].room = roomName[s] /\ local'[s].vip = virtualIP[s]
              /\ local'[s].after = after
    BY ClearFieldsResult
  <1>2. TypeOK'
    BY <1>1 DEF TInv, TypeOK
  <1>3. virtualIP'[s] = NoIP /\ roomName'[s] = NoRoom
    BY <1>1 DEF TInv, TypeOK
  <1>4. Fields(s)' /\ Hands(s)' /\ Connected(s)'
    BY <1>1, <1>3 DEF TInv, Control, Fields, Hands, Connected
  <1> QED
    BY <1>2, <1>4, StepOthers, ControlOthers DEF TInv

LEMMA LeaveT ==
    ASSUME TInv, NEW s \in Sessions, Leave(s)
    PROVE  TInv'
  BY ClearFieldsT DEF Leave, TInv, TypeOK, Step, Request

LEMMA DisconnectT ==
    ASSUME TInv, NEW s \in Sessions, Disconnect(s)
    PROVE  TInv'
  BY ClearFieldsT DEF Disconnect, TInv, TypeOK, Step, Handle

LEMMA JoinT ==
    ASSUME TInv, NEW s \in Sessions, NEW r \in Rooms \cup {NoRoom}, Join(s, r)
    PROVE  TInv'
  <1>1. /\ first' \in [Sessions -> Reads]
        /\ view' \in [Sessions -> Updates \cup {NoView}]
    BY DEF Join, TInv, TypeOK, Reads
  <1> QED
    BY <1>1, ClearFieldsT DEF Join, Step, Request

LEMMA ConnectT ==
    ASSUME TInv, NEW s \in Sessions, Connect(s)
    PROVE  TInv'
  <1>0. username' \in [Sessions -> Users]
    <2>1. PICK u \in UsersOf[s] : username' = [username EXCEPT ![s] = u]
      BY DEF Connect
    <2>2. u \in Users
      BY <2>1, RoomAssumption
    <2> QED
      BY <2>1, <2>2 DEF TInv, TypeOK
  <1>1. TypeOK'
    BY <1>0 DEF Connect, TInv, TypeOK, Labels
  <1>2. Fields(s)' /\ Hands(s)' /\ Connected(s)'
    BY DEF Connect, TInv, TypeOK, Control, Fields, Hands, Connected
  <1> QED
    BY <1>1, <1>2, StepOthers, ControlOthers DEF TInv, Step, Request

LEMMA BreakT ==
    ASSUME TInv, NEW s \in Sessions, Break(s)
    PROVE  TInv'
  <1>1. TypeOK'
    BY DEF Break, TInv, TypeOK, Reads
  <1>2. Fields(s)' /\ Hands(s)' /\ Connected(s)'
    BY DEF Break, TInv, TypeOK, Control, Fields, Hands, Connected
  <1> QED
    BY <1>1, <1>2, StepOthers, ControlOthers DEF TInv, Step, Request

LEMMA RemoveT ==
    ASSUME TInv, NEW s \in Sessions, Remove(s)
    PROVE  TInv'
  <1>1. TypeOK'
    BY DEF Remove, TInv, TypeOK, Labels
  <1>2. Fields(s)' /\ Hands(s)' /\ Connected(s)'
    BY DEF Remove, TInv, TypeOK, Control, Fields, Hands, Connected
  <1> QED
    BY <1>1, <1>2, StepOthers, ControlOthers DEF TInv, Step, Handle

LEMMA ReleaseIPT ==
    ASSUME TInv, NEW s \in Sessions, ReleaseIP(s)
    PROVE  TInv'
  <1> DEFINE r == local[s].room
  <1>1. r \in Rooms /\ local[s].vip \in Addr /\ alloc[r] \in Allocators /\ username[s] \in Users
    BY RoomAssumption DEF ReleaseIP, TInv, TypeOK, Control, Hands
  <1>2. ReleaseWithLease(alloc[r], local[s].vip, username[s]) \in Allocators
    BY <1>1, ReleaseWithLeaseResult
  <1>3. alloc' \in [Rooms -> Allocators]
    BY <1>2 DEF ReleaseIP, TInv, TypeOK
  <1>4. TypeOK'
    BY <1>3 DEF ReleaseIP, TInv, TypeOK, Labels
  <1>5. Fields(s)' /\ Hands(s)' /\ Connected(s)'
    BY DEF ReleaseIP, TInv, TypeOK, Control, Fields, Hands, Connected
  <1> QED
    BY <1>4, <1>5, StepOthers, ControlOthers DEF TInv, Step, Handle

LEMMA DropT ==
    ASSUME TInv, NEW s \in Sessions, Drop(s)
    PROVE  TInv'
  <1>1. TypeOK'
    BY DEF Drop, TInv, TypeOK, Labels
  <1>2. Fields(s)' /\ Hands(s)' /\ Connected(s)'
    BY DEF Drop, TInv, TypeOK, Control, Fields, Hands, Connected
  <1> QED
    BY <1>1, <1>2, StepOthers, ControlOthers DEF TInv, Step, Handle

(* The address AllocateForUser returns passes into the handler's hands.    *)
LEMMA AllocateIPResult ==
    ASSUME TInv, NEW s \in Sessions, AllocateIP(s)
    PROVE  /\ local[s].want \in Rooms /\ username[s] \in Users
           /\ alloc[local[s].want] \in Allocators
           /\ \E x \in AllocateForUser(alloc[local[s].want], username[s]) :
                 /\ x.ip \in Addr /\ x.alloc \in Allocators
                 /\ alloc' = [alloc EXCEPT ![local[s].want] = x.alloc]
                 /\ local' \in [Sessions -> Locals]
                 /\ local'[s].room = local[s].want /\ local'[s].vip = x.ip
                 /\ local'[s].after = local[s].after
  <1> DEFINE r == local[s].want
  <1>1. r \in Rooms /\ username[s] \in Users /\ alloc[r] \in Allocators
    BY RoomAssumption DEF AllocateIP, TInv, TypeOK
  <1>2. PICK x \in AllocateForUser(alloc[r], username[s]) :
            /\ alloc' = [alloc EXCEPT ![r] = x.alloc]
            /\ local' = [local EXCEPT ![s].room = r, ![s].vip = x.ip, ![s].want = NoRoom]
    BY DEF AllocateIP
  <1>3. x.ip \in Addr /\ x.alloc \in Allocators
    BY <1>1, AllocateForUserLeases
  <1>4. local \in [Sessions -> Locals] /\ local[s] \in Locals
    BY DEF TInv, TypeOK
  <1> HIDE DEF r
  <1>5. local' = [local EXCEPT ![s] = [local[s] EXCEPT !.room = r, !.vip = x.ip, !.want = NoRoom]]
    BY <1>2, <1>4
  <1> DEFINE new == [local[s] EXCEPT !.room = r, !.vip = x.ip, !.want = NoRoom]
  <1>6. new \in Locals /\ new.room = r /\ new.vip = x.ip /\ new.after = local[s].after
    <2>1. [local[s] EXCEPT !.room = r] \in Locals
      BY <1>1, <1>4 DEF Locals
    <2>2. [[local[s] EXCEPT !.room = r] EXCEPT !.vip = x.ip] \in Locals
      BY <1>3, <2>1 DEF Locals
    <2> QED
      BY <1>1, <1>3, <1>4, <2>1, <2>2 DEF Locals
  <1> HIDE DEF new
  <1>7. /\ local' \in [Sessions -> Locals]
        /\ local'[s].room = r /\ local'[s].vip = x.ip /\ local'[s].after = local[s].after
    BY <1>4, <1>5, <1>6 DEF new
  <1> QED
    BY <1>1, <1>2, <1>3, <1>7 DEF r

LEMMA AllocateIPT ==
    ASSUME TInv, NEW s \in Sessions, AllocateIP(s)
    PROVE  TInv'
  <1>1. /\ alloc' \in [Rooms -> Allocators]
        /\ local' \in [Sessions -> Locals]
        /\ local'[s].room \in Rooms /\ local'[s].vip \in Addr
        /\ local'[s].after = local[s].after
    BY AllocateIPResult DEF TInv, TypeOK
  <1>2. TypeOK'
    BY <1>1 DEF AllocateIP, TInv, TypeOK, Labels
  <1>3. Fields(s)' /\ Hands(s)' /\ Connected(s)'
    BY <1>1 DEF AllocateIP, TInv, TypeOK, Control, Fields, Hands, Connected
  <1> QED
    BY <1>2, <1>3, StepOthers, ControlOthers DEF TInv, Step, Handle

LEMMA DeliveredType ==
    ASSUME TypeOK, NEW t \in Sessions, NEW what \in {"reply", "other"}, Delivered(t, what)
    PROVE  first' \in [Sessions -> Reads]
  BY DEF TypeOK, Delivered, Reads

LEMMA RefuseT ==
    ASSUME TInv, NEW s \in Sessions, Refuse(s)
    PROVE  TInv'
  <1>1. first' \in [Sessions -> Reads]
    BY DeliveredType DEF Refuse, TInv
  <1>2. alloc' \in [Rooms -> Allocators]
    BY ExpireResult DEF Refuse, TInv, TypeOK
  <1>3. Blank \in Locals
    BY DEF Blank, Locals
  <1>4. TypeOK'
    BY <1>1, <1>2, <1>3 DEF Refuse, TInv, TypeOK, Labels
  <1>5. Fields(s)' /\ Hands(s)' /\ Connected(s)'
    BY DEF Refuse, TInv, TypeOK, Control, Fields, Hands, Connected, Blank
  <1> QED
    BY <1>4, <1>5, StepOthers, ControlOthers DEF TInv, Step, Handle

LEMMA SetFieldsT ==
    ASSUME TInv, NEW s \in Sessions, SetFields(s)
    PROVE  TInv'
  <1>1. local[s].room \in Rooms /\ local[s].vip \in Addr
    BY DEF SetFields, TInv, Control, Hands
  <1>2. TypeOK'
    BY <1>1 DEF SetFields, TInv, TypeOK, Labels
  <1>3. Fields(s)' /\ Hands(s)' /\ Connected(s)'
    BY <1>1, NoIPAssumption, RoomAssumption
    DEF SetFields, TInv, TypeOK, Control, Fields, Hands, Connected
  <1> QED
    BY <1>2, <1>3, StepOthers, ControlOthers DEF TInv, Step, Handle

LEMMA InsertT ==
    ASSUME TInv, NEW s \in Sessions, Insert(s)
    PROVE  TInv'
  <1>1. local[s].room \in Rooms /\ local[s].vip \in Addr
    BY DEF Insert, TInv, Control, Hands
  <1>2. TypeOK'
    BY <1>1 DEF Insert, TInv, TypeOK, Labels
  <1>3. Fields(s)' /\ Hands(s)' /\ Connected(s)'
    BY DEF Insert, TInv, TypeOK, Control, Fields, Hands, Connected
  <1> QED
    BY <1>2, <1>3, StepOthers, ControlOthers DEF TInv, Step, Handle

LEMMA RespondT ==
    ASSUME TInv, NEW s \in Sessions, Respond(s)
    PROVE  TInv'
  <1>1. first' \in [Sessions -> Reads]
    BY DeliveredType DEF Respond, TInv
  <1>2. Blank \in Locals
    BY DEF Blank, Locals
  <1>3. TypeOK'
    BY <1>1, <1>2 DEF Respond, TInv, TypeOK, Labels
  <1>4. Fields(s)' /\ Hands(s)' /\ Connected(s)'
    BY DEF Respond, TInv, TypeOK, Control, Fields, Hands, Connected, Blank
  <1> QED
    BY <1>3, <1>4, StepOthers, ControlOthers DEF TInv, Step, Handle

(* What a handler does after its broadcast, it does with empty hands.      *)
LEMMA ReturnResult ==
    ASSUME TInv, NEW s \in Sessions, Return(s)
    PROVE  /\ pc' \in [Sessions -> Labels] /\ local' \in [Sessions -> Locals]
           /\ pc'[s] = local[s].after /\ local[s].after \in {"read", "lookup", "drop"}
           /\ local'[s].after = "read"
  <1>1. local[s] \in Locals
    BY DEF TInv, TypeOK
  <1>2. /\ [Blank EXCEPT !.want = local[s].want] \in Locals
        /\ [Blank EXCEPT !.want = local[s].want].after = "read"
    BY <1>1 DEF Blank, Locals
  <1>3. local[s].after \in {"read", "lookup", "drop"}
    BY <1>1 DEF Locals
  <1> QED
    BY <1>2, <1>3 DEF Return, TInv, TypeOK, Labels

LEMMA BroadcastT ==
    ASSUME TInv, NEW s \in Sessions, Broadcast(s)
    PROVE  TInv'
  <1> DEFINE r == local[s].room
             present == {m[2] : m \in members[r]}
             update == [room |-> r, ips |-> {virtualIP[t] : t \in present}]
  <1>1. r \in Rooms /\ pc[s] = "broadcast"
    BY DEF Broadcast, TInv, Control, Hands
  <1>2. present \subseteq Sessions
    BY <1>1 DEF TInv, TypeOK
  <1>3. /\ UNCHANGED <<link, clients, username, virtualIP, roomName, members, alloc, first, view>>
        /\ \/ Return(s) /\ UNCHANGED <<todo, msg>>
           \/ /\ \A t \in present : virtualIP[t] # NoIP
              /\ todo' = [todo EXCEPT ![s] = present]
              /\ msg' = [msg EXCEPT ![s] = update]
              /\ pc' = [pc EXCEPT ![s] = "write"]
              /\ UNCHANGED local
    BY DEF Broadcast
  <1> HIDE DEF r, present
  <1>4. CASE Return(s) /\ UNCHANGED <<todo, msg>>
    <2>1. TypeOK'
      BY <1>3, <1>4, ReturnResult DEF TInv, TypeOK
    <2>2. Fields(s)' /\ Hands(s)' /\ Connected(s)'
      BY <1>1, <1>3, <1>4, ReturnResult DEF TInv, TypeOK, Control, Fields, Hands, Connected
    <2> QED
      BY <2>1, <2>2, StepOthers, ControlOthers DEF TInv, Step, Handle
  <1>5. CASE /\ \A t \in present : virtualIP[t] # NoIP
             /\ todo' = [todo EXCEPT ![s] = present]
             /\ msg' = [msg EXCEPT ![s] = update]
             /\ pc' = [pc EXCEPT ![s] = "write"]
             /\ UNCHANGED local
    <2>1. update \in Updates
      BY <1>1, <1>2, <1>5 DEF TInv, TypeOK, Updates
    <2>2. TypeOK'
      BY <1>2, <1>3, <1>5, <2>1 DEF TInv, TypeOK, Labels
    <2>3. Fields(s)' /\ Hands(s)' /\ Connected(s)'
      BY <1>1, <1>3, <1>5 DEF TInv, TypeOK, Control, Fields, Hands, Connected
    <2> QED
      BY <2>2, <2>3, StepOthers, ControlOthers DEF TInv, Step, Handle
  <1> QED
    BY <1>3, <1>4, <1>5

LEMMA WriteT ==
    ASSUME TInv, NEW s \in Sessions, NEW t \in Sessions, Write(s, t)
    PROVE  TInv'
  <1>1. /\ pc[s] = "write"
        /\ UNCHANGED <<link, clients, username, virtualIP, roomName, members, alloc>>
        /\ \/ Return(s) /\ msg' = [msg EXCEPT ![s] = Data]
           \/ UNCHANGED <<pc, local, msg>>
    BY DEF Write
  <1>2. /\ first' \in [Sessions -> Reads]
        /\ todo' \in [Sessions -> SUBSET Sessions]
        /\ view' \in [Sessions -> Updates \cup {NoView}]
    BY DeliveredType DEF Write, TInv, TypeOK
  <1>3. TypeOK'
    BY <1>1, <1>2, ReturnResult DEF TInv, TypeOK
  <1>4. Fields(s)' /\ Hands(s)' /\ Connected(s)'
    BY <1>1, ReturnResult DEF TInv, TypeOK, Control, Fields, Hands, Connected
  <1> QED
    BY <1>3, <1>4, StepOthers, ControlOthers DEF TInv, Step, Handle

LEMMA RelayT ==
    ASSUME TInv, NEW s \in Sessions, NEW dst, dst \in Destinations(s) \ {NoIP}, Relay(s, dst)
    PROVE  TInv'
  <1> DEFINE r == roomName[s]
             target == {m[2] : m \in {n \in members[r] : n[1] = dst}} \ {s}
             others == {m[2] : m \in members[r]} \ {s}
             to == IF target # {} THEN target
                   ELSE IF isBroadcast(SubnetOf[r], dst) THEN others ELSE {}
  <1>1. r \in Rooms
    BY DEF Relay, TInv, TypeOK
  <1>2. to \in SUBSET Sessions
    BY <1>1 DEF TInv, TypeOK
  <1>3. /\ pc[s] = "read"
        /\ todo' = [todo EXCEPT ![s] = to]
        /\ pc' = [pc EXCEPT ![s] = "write"]
        /\ UNCHANGED <<link, clients, username, virtualIP, roomName, members, alloc, local, msg,
                       first, view>>
    BY DEF Relay
  <1> HIDE DEF to
  <1>4. TypeOK'
    BY <1>2, <1>3 DEF TInv, TypeOK, Labels
  <1>5. Fields(s)' /\ Hands(s)' /\ Connected(s)'
    BY <1>3 DEF TInv, TypeOK, Control, Fields, Hands, Connected
  <1> QED
    BY <1>4, <1>5, StepOthers, ControlOthers DEF TInv, Step, Request

LEMMA TickT ==
    ASSUME TInv, Tick
    PROVE  TInv'
  <1>1. alloc' \in [Rooms -> Allocators]
    BY ElapseResult DEF Tick, TInv, TypeOK
  <1>2. TypeOK'
    BY <1>1 DEF Tick, TInv, TypeOK
  <1>3. Control'
    BY DEF Tick, TInv, Control, Fields, Hands, Connected
  <1> QED
    BY <1>2, <1>3 DEF TInv

LEMMA NextTInv == TInv /\ [Next]_vars => TInv'
  <1> SUFFICES ASSUME TInv, [Next]_vars PROVE TInv'
    OBVIOUS
  <1>1. ASSUME NEW s \in Sessions, Handle(s) PROVE TInv'
    <2>1. CASE Disconnect(s) \/ Remove(s) \/ ReleaseIP(s) \/ Drop(s)
      BY <2>1, DisconnectT, RemoveT, ReleaseIPT, DropT
    <2>2. CASE AllocateIP(s) \/ Refuse(s) \/ SetFields(s) \/ Insert(s) \/ Respond(s)
      BY <2>2, AllocateIPT, RefuseT, SetFieldsT, InsertT, RespondT
    <2>3. CASE Broadcast(s) \/ \E t \in Sessions : Write(s, t)
      BY <2>3, BroadcastT, WriteT
    <2> QED
      BY <1>1, <2>1, <2>2, <2>3 DEF Handle
  <1>2. ASSUME NEW s \in Sessions, Request(s) PROVE TInv'
    <2>1. CASE Connect(s) \/ Break(s) \/ Leave(s)
      BY <2>1, ConnectT, BreakT, LeaveT
    <2>2. ASSUME NEW r \in Rooms \cup {NoRoom}, Join(s, r) PROVE TInv'
      BY <2>2, JoinT
    <2>3. ASSUME NEW dst \in Destinations(s) \ {NoIP}, Relay(s, dst) PROVE TInv'
      BY <2>3, RelayT
    <2> QED
      BY <1>2, <2>1, <2>2, <2>3 DEF Request
  <1>3. CASE Tick
    BY <1>3, TickT
  <1>4. CASE UNCHANGED vars
    BY <1>4 DEF vars, TInv, TypeOK, Control, Fields, Hands, Connected
  <1> QED
    BY <1>1, <1>2, <1>3, <1>4 DEF Next

(* TypeOK: the fields of the Go structs keep their types, although a       *)
(* handler's local variables outlive the fields they were copied from.     *)
THEOREM RoomTypes == Spec => []TypeOK
  <1>1. TInv => TypeOK
    BY DEF TInv
  <1> QED
    BY <1>1, InitTInv, NextTInv, PTL DEF Spec

-----------------------------------------------------------------------------
(* Layer 2: who holds which address.                                       *)

LEMMA HoldingType ==
    ASSUME TypeOK, NEW r \in Rooms
    PROVE  /\ Holding(r) \in Holders(Sessions)
           /\ alloc[r] \in Allocators
           /\ SubnetOf[r] \in Networks
  BY RoomAssumption DEF TypeOK, Holding, Holders, Locals

(* Before and after a step of s the others hold what they held.            *)
LEMMA HoldingOthers ==
    ASSUME TypeOK, NEW s \in Sessions, Others(s), NEW r \in Rooms
    PROVE  \A t \in Sessions : t # s => Holding(r)'[t] = Holding(r)[t]
  BY DEF Others, Holding, InRoom

LEMMA HoldingKept ==
    ASSUME TypeOK, NEW s \in Sessions, Others(s), NEW r \in Rooms,
           Holding(r)'[s] = Holding(r)[s]
    PROVE  Holding(r)' = Holding(r)
  <1>1. \A t \in Sessions : Holding(r)'[t] = Holding(r)[t]
    BY HoldingOthers
  <1> QED
    BY <1>1 DEF Holding

LEMMA HoldingOf ==
    ASSUME NEW s \in Sessions, NEW r \in Rooms
    PROVE  /\ Holding(r)[s] = IF roomName[s] = r /\ virtualIP[s] # NoIP THEN virtualIP[s]
                              ELSE IF pc[s] \in {"setFields", "remove", "release"}
                                        /\ local[s].room = r
                              THEN local[s].vip ELSE NoIP
           /\ Holding(r)'[s] = IF roomName'[s] = r /\ virtualIP'[s] # NoIP THEN virtualIP'[s]
                               ELSE IF pc'[s] \in {"setFields", "remove", "release"}
                                         /\ local'[s].room = r
                               THEN local'[s].vip ELSE NoIP
  BY DEF Holding, InRoom

(* An address passes from the fields to the hands of the handler.          *)
LEMMA ClearFieldsHolds ==
    ASSUME TInv, NEW s \in Sessions, NEW want \in Rooms \cup {NoRoom},
           NEW after \in {"read", "lookup", "drop"},
           pc[s] = "read", ClearFields(s, want, after), NEW r \in Rooms
    PROVE  Holding(r)'[s] = Holding(r)[s]
  <1>1. /\ virtualIP' = [virtualIP EXCEPT ![s] = NoIP]
        /\ roomName' = [roomName EXCEPT ![s] = NoRoom]
        /\ \/ /\ roomName[s] = NoRoom /\ pc'[s] = after
           \/ /\ roomName[s] \in Rooms /\ virtualIP[s] \in Addr
              /\ pc'[s] = "remove"
              /\ local'[s].room = roomName[s] /\ local'[s].vip = virtualIP[s]
    BY ClearFieldsResult
  <1>2. virtualIP'[s] = NoIP
    BY <1>1 DEF TInv, TypeOK
  <1>3. roomName[s] # r => Holding(r)[s] = NoIP
    BY HoldingOf
  <1>4. CASE roomName[s] = NoRoom /\ pc'[s] = after
    BY <1>2, <1>3, <1>4, HoldingOf, RoomAssumption
  <1>5. CASE /\ roomName[s] \in Rooms /\ virtualIP[s] \in Addr
             /\ pc'[s] = "remove"
             /\ local'[s].room = roomName[s] /\ local'[s].vip = virtualIP[s]
    BY <1>2, <1>3, <1>5, HoldingOf, NoIPAssumption
  <1> QED
    BY <1>1, <1>4, <1>5

(* No step but AllocateIP and ReleaseIP changes what anybody holds.        *)
LEMMA HoldingStep ==
    ASSUME TInv, NEW s \in Sessions, Step(s), ~AllocateIP(s), ~ReleaseIP(s), NEW r \in Rooms
    PROVE  Holding(r)' = Holding(r)
  <1> SUFFICES Holding(r)'[s] = Holding(r)[s]
    BY StepOthers, HoldingKept DEF TInv
  <1>1. /\ pc \in [Sessions -> Labels] /\ virtualIP \in [Sessions -> Addr \cup {NoIP}]
        /\ roomName \in [Sessions -> Rooms \cup {NoRoom}]
        /\ Fields(s) /\ Hands(s) /\ Connected(s)
    BY DEF TInv, TypeOK, Control
  <1>2. CASE Disconnect(s) \/ Leave(s)
    BY <1>2, ClearFieldsHolds DEF Disconnect, Leave
  <1>3. ASSUME NEW q \in Rooms \cup {NoRoom}, Join(s, q) PROVE Holding(r)'[s] = Holding(r)[s]
    BY <1>3, ClearFieldsHolds DEF Join
  <1>4. CASE Connect(s)
    <2>1. /\ UNCHANGED <<virtualIP, roomName>> /\ pc[s] = "off" /\ pc'[s] = "read"
      BY <1>1, <1>4 DEF Connect, Connected
    <2> QED
      BY <2>1, HoldingOf
  <1>5. CASE Break(s)
    BY <1>5, HoldingOf DEF Break
  <1>6. CASE Remove(s)
    BY <1>1, <1>6, HoldingOf DEF Remove
  <1>7. CASE Drop(s)
    BY <1>1, <1>7, HoldingOf DEF Drop
  <1>8. CASE Refuse(s)
    BY <1>1, <1>8, HoldingOf DEF Refuse
  <1>9. CASE SetFields(s)
    <2>1. /\ pc[s] = "setFields" /\ pc'[s] = "insert"
          /\ local[s].room \in Rooms /\ local[s].vip \in Addr /\ roomName[s] = NoRoom
          /\ virtualIP'[s] = local[s].vip /\ roomName'[s] = local[s].room
      BY <1>1, <1>9 DEF SetFields, Fields, Hands
    <2> QED
      BY <2>1, HoldingOf, NoIPAssumption, RoomAssumption
  <1>10. CASE Insert(s)
    BY <1>1, <1>10, HoldingOf DEF Insert
  <1>11. CASE Respond(s)
    BY <1>1, <1>11, HoldingOf DEF Respond
  <1>12. CASE Broadcast(s)
    <2>1. /\ UNCHANGED <<virtualIP, roomName>> /\ pc[s] = "broadcast"
          /\ pc'[s] \in {"read", "lookup", "drop", "write"}
      BY <1>1, <1>12, ReturnResult DEF Broadcast
    <2> QED
      BY <2>1, HoldingOf
  <1>13. ASSUME NEW t \in Sessions, Write(s, t) PROVE Holding(r)'[s] = Holding(r)[s]
    <2>1. /\ UNCHANGED <<virtualIP, roomName>> /\ pc[s] = "write"
          /\ pc'[s] \in {"read", "lookup", "drop", "write"}
      BY <1>1, <1>13, ReturnResult DEF Write
    <2> QED
      BY <2>1, HoldingOf
  <1>14. ASSUME NEW dst \in Destinations(s) \ {NoIP}, Relay(s, dst)
         PROVE Holding(r)'[s] = Holding(r)[s]
    <2>1. /\ UNCHANGED <<virtualIP, roomName>> /\ pc[s] = "read" /\ pc'[s] = "write"
      BY <1>1, <1>14 DEF Relay
    <2> QED
      BY <2>1, HoldingOf
  <1> QED
    BY <1>2, <1>3, <1>4, <1>5, <1>6, <1>7, <1>8, <1>9, <1>10, <1>11, <1>12, <1>13, <1>14
    DEF Step, Handle, Request

(* AllocateIP gives one address of one room to s, which held none.         *)
LEMMA HoldingTaken ==
    ASSUME TInv, NEW s \in Sessions, AllocateIP(s),
           NEW q \in Rooms, q = local[s].want, NEW ip \in Addr,
           local'[s].room = q, local'[s].vip = ip
    PROVE  /\ \A r \in Rooms : Holding(r)[s] = NoIP
           /\ Holding(q)' = [Holding(q) EXCEPT ![s] = ip]
           /\ \A r \in Rooms : r # q => Holding(r)' = Holding(r)
  <1>1. /\ pc[s] = "lookup" /\ pc'[s] = "setFields"
        /\ roomName[s] = NoRoom /\ roomName'[s] = NoRoom
    BY DEF AllocateIP, TInv, TypeOK, Control, Fields
  <1>2. Others(s)
    BY StepOthers DEF TInv, Step, Handle
  <1>3. \A r \in Rooms : Holding(r)[s] = NoIP
    BY <1>1, HoldingOf, RoomAssumption
  <1>4. \A r \in Rooms : Holding(r)'[s] = IF r = q THEN ip ELSE NoIP
    BY <1>1, HoldingOf, RoomAssumption
  <1>5. \A r \in Rooms : r # q => Holding(r)' = Holding(r)
    BY <1>2, <1>3, <1>4, HoldingKept DEF TInv
  <1>6. \A t \in Sessions : t # s => Holding(q)'[t] = Holding(q)[t]
    BY <1>2, HoldingOthers DEF TInv
  <1>7. Holding(q)' = [Holding(q) EXCEPT ![s] = ip]
    BY <1>4, <1>6 DEF Holding
  <1> QED
    BY <1>3, <1>5, <1>7

(* ReleaseIP takes from s the one address it held.                         *)
LEMMA HoldingGivenBack ==
    ASSUME TInv, NEW s \in Sessions, ReleaseIP(s), NEW q \in Rooms, q = local[s].room
    PROVE  /\ Holding(q)[s] = local[s].vip /\ local[s].vip \in Addr
           /\ Holding(q)' = [Holding(q) EXCEPT ![s] = NoIP]
           /\ \A r \in Rooms : r # q => Holding(r)' = Holding(r)
  <1>1. /\ pc[s] = "release" /\ pc'[s] = "broadcast"
        /\ local[s].vip \in Addr
        /\ roomName[s] = NoRoom /\ roomName'[s] = NoRoom
    BY DEF ReleaseIP, TInv, TypeOK, Control, Fields, Hands
  <1>2. Others(s)
    BY StepOthers DEF TInv, Step, Handle
  <1>3. \A r \in Rooms : Holding(r)[s] = IF r = q THEN local[s].vip ELSE NoIP
    BY <1>1, HoldingOf, RoomAssumption
  <1>4. \A r \in Rooms : Holding(r)'[s] = NoIP
    BY <1>1, HoldingOf, RoomAssumption
  <1>5. \A r \in Rooms : r # q => Holding(r)' = Holding(r)
    BY <1>2, <1>3, <1>4, HoldingKept DEF TInv
  <1>6. \A t \in Sessions : t # s => Holding(q)'[t] = Holding(q)[t]
    BY <1>2, HoldingOthers DEF TInv
  <1>7. Holding(q)' = [Holding(q) EXCEPT ![s] = NoIP]
    BY <1>4, <1>6 DEF Holding
  <1> QED
    BY <1>1, <1>3, <1>5, <1>7

(* Apart from AllocateIP and ReleaseIP a handler at most sweeps.           *)
LEMMA AllocStep ==
    ASSUME TInv, NEW s \in Sessions, Step(s), ~AllocateIP(s), ~ReleaseIP(s), NEW r \in Rooms
    PROVE  alloc'[r] = alloc[r] \/ alloc'[r] = expireLeasesLocked(alloc[r])
  <1>1. CASE Disconnect(s) \/ Remove(s) \/ Drop(s) \/ SetFields(s) \/ Insert(s) \/ Respond(s)
    BY <1>1 DEF Disconnect, Remove, Drop, SetFields, Insert, Respond
  <1>2. CASE Refuse(s)
    BY <1>2 DEF Refuse, TInv, TypeOK
  <1>3. CASE Broadcast(s) \/ \E t \in Sessions : Write(s, t)
    BY <1>3 DEF Broadcast, Write
  <1>4. CASE Request(s)
    BY <1>4 DEF Request, Connect, Break, Leave, Join, Relay
  <1> QED
    BY <1>1, <1>2, <1>3, <1>4 DEF Step, Handle

LEMMA AllocateIPHeld ==
    ASSUME HInv, NEW s \in Sessions, AllocateIP(s), NEW r \in Rooms
    PROVE  HeldIn(r)'
  <1>1. PICK q \in Rooms : q = local[s].want
    BY AllocateIPResult DEF HInv
  <1>2. PICK x \in AllocateForUser(alloc[q], username[s]) :
            /\ x.ip \in Addr /\ x.alloc \in Allocators
            /\ alloc' = [alloc EXCEPT ![q] = x.alloc]
            /\ local'[s].room = q /\ local'[s].vip = x.ip
    BY <1>1, AllocateIPResult DEF HInv
  <1>3. /\ \A p \in Rooms : Holding(p)[s] = NoIP
        /\ Holding(q)' = [Holding(q) EXCEPT ![s] = x.ip]
        /\ \A p \in Rooms : p # q => Holding(p)' = Holding(p)
    BY <1>1, <1>2, HoldingTaken DEF HInv
  <1>4. HeldIn(r) /\ HeldIn(q) /\ alloc \in [Rooms -> Allocators] /\ username[s] \in Users
    BY RoomAssumption DEF HInv, TInv, TypeOK, Held
  <1>5. CASE r # q
    BY <1>2, <1>3, <1>4, <1>5 DEF HeldIn
  <1>6. CASE r = q
    <2>1. /\ Holding(q) \in Holders(Sessions) /\ alloc[q] \in Allocators
          /\ Apart(alloc[q], Sessions, Holding(q))
      BY <1>4, HoldingType DEF HeldIn, HInv, TInv
    <2>0. Holding(q)[s] = NoIP /\ username[s] \in Users
      BY <1>3, <1>4
    <2>2. /\ Apart(x.alloc, Sessions, [Holding(q) EXCEPT ![s] = x.ip])
          /\ AllHosts(alloc[q], Sessions, Holding(q))
                => AllHosts(x.alloc, Sessions, [Holding(q) EXCEPT ![s] = x.ip])
      BY <2>0, <2>1, AllocateForUserTakes
    <2>3. x.alloc.network = alloc[q].network
      BY <1>4, <2>1, AllocateForUserLeases
    <2>4. alloc'[q] = x.alloc
      BY <1>2, <1>4
    <2> QED
      BY <1>3, <1>4, <1>6, <2>2, <2>3, <2>4 DEF HeldIn
  <1> QED
    BY <1>5, <1>6

LEMMA ReleaseIPHeld ==
    ASSUME HInv, NEW s \in Sessions, ReleaseIP(s), NEW r \in Rooms
    PROVE  HeldIn(r)'
  <1>1. PICK q \in Rooms : q = local[s].room
    BY DEF ReleaseIP, HInv, TInv, Control, Hands
  <1>2. /\ Holding(q)[s] = local[s].vip /\ local[s].vip \in Addr
        /\ Holding(q)' = [Holding(q) EXCEPT ![s] = NoIP]
        /\ \A p \in Rooms : p # q => Holding(p)' = Holding(p)
    BY <1>1, HoldingGivenBack DEF HInv
  <1>3. HeldIn(r) /\ HeldIn(q) /\ alloc \in [Rooms -> Allocators] /\ username[s] \in Users
    BY RoomAssumption DEF HInv, TInv, TypeOK, Held
  <1>4. alloc' = [alloc EXCEPT ![q] = ReleaseWithLease(alloc[q], Holding(q)[s], username[s])]
    BY <1>1, <1>2 DEF ReleaseIP
  <1>5. CASE r # q
    BY <1>2, <1>3, <1>4, <1>5 DEF HeldIn
  <1>6. CASE r = q
    <2>1. /\ Holding(q) \in Holders(Sessions) /\ alloc[q] \in Allocators
          /\ Apart(alloc[q], Sessions, Holding(q))
      BY <1>3, HoldingType DEF HeldIn, HInv, TInv
    <2>2. alloc'[q] = ReleaseWithLease(alloc[q], Holding(q)[s], username[s])
      BY <1>3, <1>4
    <2>3. Holding(q)[s] # NoIP
      BY <1>2, NoIPAssumption
    <2>4. username[s] \in Users /\ Holding(q)[s] \in Addr
      BY <1>2, <1>3
    <2> DEFINE b == ReleaseWithLease(alloc[q], Holding(q)[s], username[s])
    <2>5. /\ Apart(b, Sessions, [Holding(q) EXCEPT ![s] = NoIP])
          /\ AllHosts(alloc[q], Sessions, Holding(q))
                => AllHosts(b, Sessions, [Holding(q) EXCEPT ![s] = NoIP])
      BY <2>1, <2>3, <2>4, ReleaseWithLeaseKeepsApart
    <2>6. b.network = alloc[q].network
      BY <2>1 DEF ReleaseWithLease, Allocators
    <2> HIDE DEF b
    <2> QED
      BY <1>2, <1>3, <1>6, <2>2, <2>5, <2>6 DEF HeldIn, b
  <1> QED
    BY <1>5, <1>6

LEMMA OtherHeld ==
    ASSUME HInv, NEW s \in Sessions, Step(s), ~AllocateIP(s), ~ReleaseIP(s), NEW r \in Rooms
    PROVE  HeldIn(r)'
  <1>1. Holding(r)' = Holding(r)
    BY HoldingStep DEF HInv
  <1>2. HeldIn(r) /\ Holding(r) \in Holders(Sessions) /\ alloc[r] \in Allocators
        /\ Apart(alloc[r], Sessions, Holding(r))
    BY HoldingType DEF HInv, TInv, Held, HeldIn
  <1>3. CASE alloc'[r] = alloc[r]
    BY <1>1, <1>2, <1>3 DEF HeldIn
  <1>4. CASE alloc'[r] = expireLeasesLocked(alloc[r])
    <2>1. /\ Apart(alloc'[r], Sessions, Holding(r))
          /\ AllHosts(alloc[r], Sessions, Holding(r)) => AllHosts(alloc'[r], Sessions, Holding(r))
      BY <1>2, <1>4, ExpireKeepsApart
    <2>2. alloc'[r].network = alloc[r].network
      BY <1>2, <1>4, ExpireResult
    <2> QED
      BY <1>1, <1>2, <2>1, <2>2 DEF HeldIn
  <1> QED
    BY <1>3, <1>4, AllocStep DEF HInv

LEMMA HoldingIdle ==
    ASSUME UNCHANGED <<virtualIP, roomName, pc, local>>
    PROVE  \A r \in Rooms : Holding(r)' = Holding(r)
  BY DEF Holding, InRoom

LEMMA TickHeld ==
    ASSUME HInv, Tick, NEW r \in Rooms
    PROVE  HeldIn(r)'
  <1>1. Holding(r)' = Holding(r) /\ alloc'[r] = Elapse(alloc[r])
    BY HoldingIdle DEF Tick
  <1>2. HeldIn(r) /\ Holding(r) \in Holders(Sessions) /\ alloc[r] \in Allocators
        /\ Apart(alloc[r], Sessions, Holding(r))
    BY HoldingType DEF HInv, TInv, Held, HeldIn
  <1>3. /\ Apart(alloc'[r], Sessions, Holding(r))
        /\ AllHosts(alloc[r], Sessions, Holding(r)) => AllHosts(alloc'[r], Sessions, Holding(r))
    BY <1>1, <1>2, ElapseKeepsApart
  <1>4. alloc'[r].network = alloc[r].network
    BY <1>1, <1>2, ElapseResult
  <1> QED
    BY <1>1, <1>2, <1>3, <1>4 DEF HeldIn

LEMMA InitHInv == Init => HInv
  <1> SUFFICES ASSUME Init PROVE HInv
    OBVIOUS
  <1>1. ASSUME NEW r \in Rooms PROVE HeldIn(r)
    <2>1. /\ alloc[r] = NewIPAllocator(SubnetOf[r]) /\ SubnetOf[r] \in Networks
          /\ Holding(r) = [s \in Sessions |-> NoIP]
      BY RoomAssumption DEF Init, Holding, InRoom
    <2> QED
      BY <2>1, NewAllocatorApart DEF HeldIn
  <1> QED
    BY <1>1, InitTInv DEF HInv, Held

LEMMA NextHInv == HInv /\ [Next]_vars => HInv'
  <1> SUFFICES ASSUME HInv, [Next]_vars, NEW r \in Rooms PROVE HeldIn(r)'
    BY NextTInv DEF HInv, Held
  <1>1. ASSUME NEW s \in Sessions, Step(s) PROVE HeldIn(r)'
    BY <1>1, AllocateIPHeld, ReleaseIPHeld, OtherHeld
  <1>2. CASE Tick
    BY <1>2, TickHeld
  <1>3. CASE UNCHANGED vars
    <2>1. Holding(r)' = Holding(r) /\ alloc' = alloc
      BY <1>3, HoldingIdle DEF vars
    <2> QED
      BY <2>1 DEF HInv, Held, HeldIn
  <1> QED
    BY <1>1, <1>2, <1>3 DEF Next, Step

LEMMA SpecHInv == Spec => []HInv
  BY InitHInv, NextHInv, PTL DEF Spec

(* Two sessions of a room never hold the same address, from the step that  *)
(* takes it from the allocator (server.go:478) to the one that gives it    *)
(* back (server.go:591), whatever other handlers do in between.            *)
THEOREM DistinctInRooms == Spec => []DistinctVirtualIPs
  <1>1. HInv => DistinctVirtualIPs
    BY DEF HInv, Held, HeldIn, Apart, DistinctVirtualIPs
  <1> QED
    BY <1>1, SpecHInv, PTL

-----------------------------------------------------------------------------
(* Layer 3: the map of a room and the fields of its members.               *)

LEMMA Distinct == HInv => DistinctVirtualIPs
  BY DEF HInv, Held, HeldIn, Apart, DistinctVirtualIPs

(* The entry m of room r belongs to a member, or to one about to remove it. *)
Belongs(r, m) ==
    \/ roomName[m[2]] = r /\ virtualIP[m[2]] = m[1]
    \/ pc[m[2]] = "remove" /\ local[m[2]].room = r /\ local[m[2]].vip = m[1]

LEMMA RoutedOthers ==
    ASSUME TInv, Routed, NEW s \in Sessions, Others(s), NEW r \in Rooms,
           NEW m \in members[r], m[2] \in Sessions, m[2] # s
    PROVE  Belongs(r, m)'
  BY DEF Routed, RoutesToOwner, Belongs, Others

LEMMA ListedOthers ==
    ASSUME TInv, Routed, NEW s \in Sessions, Others(s), NEW t \in Sessions, t # s,
           roomName'[t] \in Rooms, pc'[t] # "insert"
    PROVE  /\ virtualIP'[t] = virtualIP[t] /\ roomName'[t] = roomName[t]
           /\ <<virtualIP[t], t>> \in members[roomName[t]]
  BY RoomAssumption DEF Routed, Listed, Others

(* So it is enough to look at the entries of the session that steps.       *)
LEMMA RoutedBySelf ==
    ASSUME TInv, Routed, NEW s \in Sessions, Others(s), members' = members,
           \A r \in Rooms : \A m \in members[r] : m[2] = s => Belongs(r, m)',
           roomName'[s] # NoRoom /\ pc'[s] # "insert"
              => <<virtualIP'[s], s>> \in members[roomName'[s]]
    PROVE  Routed'
  <1>1. RoutesToOwner'
    <2> SUFFICES ASSUME NEW r \in Rooms, NEW m \in members[r] PROVE Belongs(r, m)'
      BY DEF RoutesToOwner, Belongs
    <2>1. m[2] \in Sessions
      BY DEF TInv, TypeOK
    <2> QED
      BY <2>1, RoutedOthers
  <1>2. Listed'
    <2> SUFFICES ASSUME NEW t \in Sessions, roomName'[t] # NoRoom, pc'[t] # "insert", t # s
                 PROVE  <<virtualIP'[t], t>> \in members[roomName'[t]]
      BY DEF Listed
    <2>1. roomName'[t] \in Rooms
      BY DEF Others, TInv, TypeOK
    <2> QED
      BY <2>1, ListedOthers
  <1> QED
    BY <1>1, <1>2 DEF Routed

LEMMA RoutedKept ==
    ASSUME TInv, Routed, NEW s \in Sessions, Others(s),
           UNCHANGED <<members, virtualIP, roomName>>, pc[s] \notin {"remove", "insert"}
    PROVE  Routed'
  <1>1. ASSUME NEW r \in Rooms, NEW m \in members[r], m[2] = s PROVE Belongs(r, m)'
    BY <1>1 DEF Routed, RoutesToOwner, Belongs
  <1>2. roomName'[s] # NoRoom => <<virtualIP'[s], s>> \in members[roomName'[s]]
    BY DEF Routed, Listed
  <1> QED
    BY <1>1, <1>2, RoutedBySelf

LEMMA RoutedCleared ==
    ASSUME TInv, Routed, NEW s \in Sessions, Others(s), members' = members,
           NEW want \in Rooms \cup {NoRoom}, NEW after \in {"read", "lookup", "drop"},
           pc[s] = "read", ClearFields(s, want, after)
    PROVE  Routed'
  <1>1. /\ roomName' = [roomName EXCEPT ![s] = NoRoom]
        /\ \/ roomName[s] = NoRoom
           \/ /\ roomName[s] \in Rooms
              /\ pc'[s] = "remove"
              /\ local'[s].room = roomName[s] /\ local'[s].vip = virtualIP[s]
    BY ClearFieldsResult
  <1>2. roomName'[s] = NoRoom
    BY <1>1 DEF TInv, TypeOK
  <1>3. ASSUME NEW r \in Rooms, NEW m \in members[r], m[2] = s PROVE Belongs(r, m)'
    <2>1. roomName[s] = r /\ virtualIP[s] = m[1]
      BY <1>3 DEF Routed, RoutesToOwner
    <2> QED
      BY <1>1, <1>3, <2>1, RoomAssumption DEF Belongs
  <1> QED
    BY <1>2, <1>3, RoutedBySelf

LEMMA RoutedSetFields ==
    ASSUME TInv, Routed, NEW s \in Sessions, SetFields(s)
    PROVE  Routed'
  <1>1. /\ members' = members /\ pc[s] = "setFields" /\ pc'[s] = "insert"
        /\ roomName[s] = NoRoom /\ Others(s)
    BY StepOthers DEF SetFields, TInv, TypeOK, Control, Fields, Step, Handle
  <1>2. ASSUME NEW r \in Rooms, NEW m \in members[r], m[2] = s PROVE FALSE
    BY <1>1, <1>2, RoomAssumption DEF Routed, RoutesToOwner
  <1> QED
    BY <1>1, <1>2, RoutedBySelf

(* Whoever else is a member holds another address.                         *)
LEMMA OtherAddress ==
    ASSUME HInv, NEW s \in Sessions, NEW t \in Sessions, t # s, NEW r \in Rooms,
           Holding(r)[s] = local[s].vip, local[s].vip \in Addr, roomName[t] = r
    PROVE  virtualIP[t] # local[s].vip
  <1>1. virtualIP[t] # NoIP
    BY RoomAssumption DEF HInv, TInv, Control, Fields
  <1>2. Holding(r)[t] = virtualIP[t]
    BY <1>1, HoldingOf
  <1> QED
    BY <1>1, <1>2, Distinct DEF DistinctVirtualIPs

LEMMA RoutedRemove ==
    ASSUME HInv, Routed, NEW s \in Sessions, Remove(s)
    PROVE  Routed'
  <1>1. PICK q \in Rooms : q = local[s].room
    BY DEF Remove, HInv, TInv, Control, Hands
  <1>2. /\ pc[s] = "remove" /\ local[s].vip \in Addr
        /\ roomName[s] = NoRoom /\ roomName' = roomName /\ virtualIP' = virtualIP
        /\ members' = [members EXCEPT ![q] = {m \in members[q] : m[1] # local[s].vip}]
        /\ members \in [Rooms -> SUBSET (Addr \X Sessions)]
        /\ roomName \in [Sessions -> Rooms \cup {NoRoom}]
    BY <1>1 DEF Remove, HInv, TInv, TypeOK, Control, Fields, Hands
  <1>3. Others(s)
    BY StepOthers DEF HInv, TInv, Step, Handle
  <1>4. Holding(q)[s] = local[s].vip
    BY <1>1, <1>2, HoldingOf, RoomAssumption
  <1>5. RoutesToOwner'
    <2> SUFFICES ASSUME NEW r \in Rooms, NEW m \in members'[r] PROVE Belongs(r, m)'
      BY DEF RoutesToOwner, Belongs
    <2>1. m \in members[r] /\ m[2] \in Sessions /\ (r = q => m[1] # local[s].vip)
      BY <1>2
    <2>2. m[2] # s
      BY <1>1, <1>2, <2>1, RoomAssumption DEF Routed, RoutesToOwner
    <2> QED
      BY <1>3, <2>1, <2>2, RoutedOthers DEF HInv
  <1>6. Listed'
    <2> SUFFICES ASSUME NEW t \in Sessions, roomName'[t] # NoRoom, pc'[t] # "insert"
                 PROVE  <<virtualIP'[t], t>> \in members'[roomName'[t]]
      BY DEF Listed
    <2>1. t # s /\ roomName[t] \in Rooms
      BY <1>2
    <2>2. <<virtualIP[t], t>> \in members[roomName[t]]
      BY <1>2, <1>3, <2>1, ListedOthers DEF HInv
    <2>3. roomName[t] = q => virtualIP[t] # local[s].vip
      BY <1>2, <1>4, <2>1, OtherAddress
    <2> QED
      BY <1>2, <2>1, <2>2, <2>3
  <1> QED
    BY <1>5, <1>6 DEF Routed

LEMMA RoutedInsert ==
    ASSUME HInv, Routed, NEW s \in Sessions, Insert(s)
    PROVE  Routed'
  <1>1. PICK q \in Rooms : q = local[s].room
    BY DEF Insert, HInv, TInv, Control, Hands
  <1>2. /\ pc[s] = "insert" /\ local[s].vip \in Addr
        /\ roomName[s] = q /\ virtualIP[s] = local[s].vip
        /\ roomName' = roomName /\ virtualIP' = virtualIP
        /\ members' = [members EXCEPT ![q] =
                          {m \in members[q] : m[1] # local[s].vip} \cup {<<local[s].vip, s>>}]
        /\ members \in [Rooms -> SUBSET (Addr \X Sessions)]
        /\ roomName \in [Sessions -> Rooms \cup {NoRoom}]
    BY <1>1 DEF Insert, HInv, TInv, TypeOK, Control, Fields, Hands
  <1>3. Others(s)
    BY StepOthers DEF HInv, TInv, Step, Handle
  <1>4. Holding(q)[s] = local[s].vip
    BY <1>2, HoldingOf, NoIPAssumption
  <1>5. RoutesToOwner'
    <2> SUFFICES ASSUME NEW r \in Rooms, NEW m \in members'[r] PROVE Belongs(r, m)'
      BY DEF RoutesToOwner, Belongs
    <2>1. CASE m \in members[r]
      <3>1. m[2] \in Sessions
        BY <1>2, <2>1
      <3>2. CASE m[2] = s
        BY <1>2, <2>1, <3>2 DEF Routed, RoutesToOwner, Belongs
      <3> QED
        BY <1>3, <2>1, <3>1, <3>2, RoutedOthers DEF HInv
    <2>2. CASE m \notin members[r]
      <3>1. r = q /\ m = <<local[s].vip, s>>
        BY <1>2, <2>2
      <3> QED
        BY <1>2, <3>1 DEF Belongs
    <2> QED
      BY <2>1, <2>2
  <1>6. Listed'
    <2> SUFFICES ASSUME NEW t \in Sessions, roomName'[t] # NoRoom, pc'[t] # "insert"
                 PROVE  <<virtualIP'[t], t>> \in members'[roomName'[t]]
      BY DEF Listed
    <2>1. CASE t = s
      BY <1>2, <2>1
    <2>2. CASE t # s
      <3>1. roomName[t] \in Rooms
        BY <1>2
      <3>2. <<virtualIP[t], t>> \in members[roomName[t]]
        BY <1>2, <1>3, <2>2, <3>1, ListedOthers DEF HInv
      <3>3. roomName[t] = q => virtualIP[t] # local[s].vip
        BY <1>2, <1>4, <2>2, OtherAddress
      <3> QED
        BY <1>2, <3>1, <3>2, <3>3
    <2> QED
      BY <2>1, <2>2
  <1> QED
    BY <1>5, <1>6 DEF Routed

LEMMA StepRouted ==
    ASSUME HInv, Routed, NEW s \in Sessions, Step(s)
    PROVE  Routed'
  <1>1. TInv /\ Others(s)
    BY StepOthers DEF HInv, TInv
  <1>2. CASE Disconnect(s) \/ Leave(s)
    BY <1>1, <1>2, RoutedCleared DEF Disconnect, Leave
  <1>3. ASSUME NEW q \in Rooms \cup {NoRoom}, Join(s, q) PROVE Routed'
    BY <1>1, <1>3, RoutedCleared DEF Join
  <1>4. CASE ReleaseIP(s) \/ Drop(s) \/ AllocateIP(s) \/ Refuse(s) \/ Respond(s) \/ Broadcast(s)
    BY <1>1, <1>4, RoutedKept DEF ReleaseIP, Drop, AllocateIP, Refuse, Respond, Broadcast
  <1>5. ASSUME NEW t \in Sessions, Write(s, t) PROVE Routed'
    BY <1>1, <1>5, RoutedKept DEF Write
  <1>6. CASE Break(s)
    <2>1. UNCHANGED <<members, virtualIP, roomName, pc, local>>
      BY <1>6 DEF Break
    <2> QED
      BY <2>1 DEF Routed, RoutesToOwner, Listed
  <1>7. CASE Connect(s)
    <2>1. pc[s] = "off"
      BY <1>1, <1>7 DEF Connect, TInv, Control, Connected
    <2> QED
      BY <1>1, <1>7, <2>1, RoutedKept DEF Connect
  <1>8. ASSUME NEW dst \in Destinations(s) \ {NoIP}, Relay(s, dst) PROVE Routed'
    BY <1>1, <1>8, RoutedKept DEF Relay
  <1> QED
    BY <1>1, <1>2, <1>3, <1>4, <1>5, <1>6, <1>7, <1>8,
       RoutedSetFields, RoutedRemove, RoutedInsert DEF Step, Handle, Request

LEMMA InitRInv == Init => RInv
  BY InitHInv DEF Init, RInv, Routed, RoutesToOwner, Listed

LEMMA NextRInv == RInv /\ [Next]_vars => RInv'
  <1> SUFFICES ASSUME RInv, [Next]_vars PROVE Routed'
    BY NextHInv DEF RInv
  <1>1. ASSUME NEW s \in Sessions, Step(s) PROVE Routed'
    BY <1>1, StepRouted DEF RInv
  <1>2. CASE Tick \/ UNCHANGED vars
    <2>1. UNCHANGED <<members, virtualIP, roomName, pc, local>>
      BY <1>2 DEF Tick, vars
    <2> QED
      BY <2>1 DEF RInv, Routed, RoutesToOwner, Listed
  <1> QED
    BY <1>1, <1>2 DEF Next, Step

LEMMA SpecRInv == Spec => []RInv
  BY InitRInv, NextRInv, PTL DEF Spec

(* RoutesToOwner: handleData's lookup in the map of a room (server.go:535) *)
(* finds the owner of the address or one that is leaving, never somebody   *)
(* who has the address no more.                                            *)
THEOREM RelayReachesOwner == Spec => []RoutesToOwner
  <1>1. RInv => RoutesToOwner
    BY DEF RInv, Routed
  <1> QED
    BY <1>1, SpecRInv, PTL

(* AtRestConsistent: between two messages the map of the room and the      *)
(* fields of the Client agree, and a session that is gone has left nothing *)
(* behind in s.clients, a map or an allocator's hands.                     *)
THEOREM RestIsConsistent == Spec => []AtRestConsistent
  <1>1. ASSUME RInv, NEW s \in Sessions, pc[s] = "read"
        PROVE  Entries(s) = IF roomName[s] = NoRoom THEN {} ELSE {<<roomName[s], virtualIP[s]>>}
    <2>1. /\ roomName[s] \in Rooms \cup {NoRoom}
          /\ members \in [Rooms -> SUBSET (Addr \X Sessions)]
      BY <1>1 DEF RInv, HInv, TInv, TypeOK
    <2>2. \A r \in Rooms : \A m \in members[r] :
             m[2] = s => roomName[s] = r /\ virtualIP[s] = m[1]
      BY <1>1 DEF RInv, Routed, RoutesToOwner
    <2>3. roomName[s] # NoRoom => <<virtualIP[s], s>> \in members[roomName[s]]
      BY <1>1 DEF RInv, Routed, Listed
    <2>4. \A e \in Entries(s) : e = <<roomName[s], virtualIP[s]>> /\ roomName[s] # NoRoom
      BY <2>2, RoomAssumption DEF Entries
    <2>5. roomName[s] # NoRoom => <<roomName[s], virtualIP[s]>> \in Entries(s)
      <3> SUFFICES ASSUME roomName[s] # NoRoom PROVE <<roomName[s], virtualIP[s]>> \in Entries(s)
        OBVIOUS
      <3> DEFINE m == <<virtualIP[s], s>>
      <3>1. roomName[s] \in Rooms /\ m \in {n \in members[roomName[s]] : n[2] = s} /\ m[1] = virtualIP[s]
        BY <2>1, <2>3
      <3> QED
        BY <3>1 DEF Entries
    <2> QED
      BY <2>4, <2>5
  <1>2. ASSUME RInv, NEW s \in Sessions, pc[s] = "off"
        PROVE  /\ Entries(s) = {} /\ s \notin clients
               /\ \A r \in Rooms : Holding(r)[s] = NoIP
    <2>1. roomName[s] = NoRoom /\ s \notin clients
      BY <1>2 DEF RInv, HInv, TInv, Control, Fields, Connected
    <2>2. \A r \in Rooms : \A m \in members[r] : m[2] # s
      BY <1>2, <2>1, RoomAssumption DEF RInv, Routed, RoutesToOwner
    <2>3. Entries(s) = {}
      BY <2>2 DEF Entries
    <2>4. \A r \in Rooms : Holding(r)[s] = NoIP
      BY <1>2, <2>1, HoldingOf, RoomAssumption
    <2> QED
      BY <2>1, <2>3, <2>4
  <1>3. RInv => AtRestConsistent
    BY <1>1, <1>2 DEF AtRestConsistent
  <1> QED
    BY <1>3, SpecRInv, PTL

-----------------------------------------------------------------------------
(* Layer 4: whoever has been told nothing has somebody about to tell it.   *)

LEMMA ToldOthers ==
    ASSUME NEW x \in Sessions, Others(x), NEW s \in Sessions, NEW t \in Sessions, t # x,
           roomName'[s] = roomName[s], Told(s, t)
    PROVE  Told(s, t)'
  BY DEF Others, Told

(* It is enough to look at what the session that steps was about to tell.  *)
LEMMA PendingBySelf ==
    ASSUME WillBeTold, NEW x \in Sessions, Others(x), NEW s \in Sessions,
           roomName'[s] = roomName[s], link'[s] = link[s], view'[s] = view[s],
           Told(s, x) => Pending(s)'
    PROVE  Pending(s)'
  <1> SUFFICES ASSUME roomName[s] # NoRoom, link[s] = "open", view[s] = NoView, ~Told(s, x)
               PROVE  Pending(s)'
    BY DEF Pending
  <1>1. PICK t \in Sessions : Told(s, t)
    BY DEF WillBeTold, Pending
  <1>2. Told(s, t)'
    BY <1>1, ToldOthers
  <1> QED
    BY <1>2 DEF Pending

(* A step of x that is not part of a broadcast leaves what the others may  *)
(* expect of it.                                                           *)
LEMMA PendingOthers ==
    ASSUME WillBeTold, NEW x \in Sessions, Others(x), NEW s \in Sessions, s # x,
           view'[s] = view[s], pc[x] \notin {"broadcast", "write"},
           pc[x] \in {"remove", "release"}
              => pc'[x] \in {"release", "broadcast"} /\ local'[x] = local[x]
    PROVE  Pending(s)'
  <1>1. roomName'[s] = roomName[s] /\ link'[s] = link[s]
    BY DEF Others
  <1>2. ASSUME Told(s, x) PROVE Told(s, x)'
    BY <1>1, <1>2 DEF Told
  <1>3. Told(s, x) => Pending(s)'
    BY <1>2 DEF Pending
  <1> QED
    BY <1>1, <1>3, PendingBySelf

(* Who leaves its room, or has none, expects nothing.                      *)
LEMMA PendingOutside ==
    ASSUME WillBeTold, NEW x \in Sessions, Others(x), NEW s \in Sessions,
           \A t \in Sessions : t # x => view'[t] = view[t],
           pc[x] \notin {"broadcast", "write"},
           pc[x] \in {"remove", "release"}
              => pc'[x] \in {"release", "broadcast"} /\ local'[x] = local[x],
           roomName'[x] = NoRoom \/ link'[x] # "open" \/ Told(x, x)'
    PROVE  Pending(s)'
  <1>1. CASE s = x
    BY <1>1 DEF Pending
  <1>2. CASE s # x
    BY <1>2, PendingOthers
  <1> QED
    BY <1>1, <1>2

LEMMA PendingRelay ==
    ASSUME WillBeTold, NEW x \in Sessions, Others(x), NEW s \in Sessions,
           UNCHANGED <<roomName, link, view>>, pc[x] = "read"
    PROVE  Pending(s)'
  <1>1. ~Told(s, x)
    BY DEF Told
  <1> QED
    BY <1>1, PendingBySelf

(* A broadcast that is given up met a member at "remove", which will       *)
(* broadcast itself.                                                       *)
LEMMA PendingBroadcast ==
    ASSUME TInv, Routed, WillBeTold, NEW x \in Sessions, Others(x), Broadcast(x),
           NEW s \in Sessions
    PROVE  Pending(s)'
  <1>1. PICK q \in Rooms : q = local[x].room
    BY DEF Broadcast, TInv, Control, Hands
  <1> DEFINE present == {m[2] : m \in members[q]}
             update == [room |-> q, ips |-> {virtualIP[t] : t \in present}]
  <1>2. /\ pc[x] = "broadcast"
        /\ UNCHANGED <<link, roomName, virtualIP, view>>
        /\ \/ present = {}
           \/ \E t \in present : virtualIP[t] = NoIP
           \/ /\ todo' = [todo EXCEPT ![x] = present]
              /\ msg' = [msg EXCEPT ![x] = update]
              /\ pc' = [pc EXCEPT ![x] = "write"]
    BY <1>1 DEF Broadcast
  <1>3. present \subseteq Sessions
    BY DEF TInv, TypeOK
  <1>4. update # Data
    BY RoomAssumption DEF Data
  <1> HIDE DEF update
  <1>5. ASSUME Told(s, x), roomName[s] # NoRoom PROVE Pending(s)'
    <2>1. roomName[s] = q
      BY <1>1, <1>2, <1>5 DEF Told, TInv, Control, Fields
    <2>2. CASE pc[s] = "insert"
      <3>1. s # x /\ Told(s, s)
        BY <1>2, <2>2 DEF Told
      <3>2. Told(s, s)'
        BY <1>2, <3>1, ToldOthers
      <3> QED
        BY <3>2 DEF Pending
    <2>3. CASE pc[s] # "insert"
      <3>1. s \in present
        <4>1. <<virtualIP[s], s>> \in members[q]
          BY <1>5, <2>1, <2>3 DEF Routed, Listed
        <4>2. <<virtualIP[s], s>>[2] = s
          OBVIOUS
        <4> QED
          BY <4>1, <4>2
      <3>2. ASSUME NEW t \in present, virtualIP[t] = NoIP PROVE Pending(s)'
        <4>1. PICK m \in members[q] : m[2] = t
          OBVIOUS
        <4>2. m[1] \in Addr
          BY DEF TInv, TypeOK
        <4>3. t \in Sessions /\ pc[t] = "remove" /\ local[t].room = q
          BY <1>3, <3>2, <4>1, <4>2, NoIPAssumption DEF Routed, RoutesToOwner
        <4>4. t # x /\ Told(s, t)
          BY <1>2, <2>1, <4>3 DEF Told
        <4>5. Told(s, t)'
          BY <1>2, <4>3, <4>4, ToldOthers
        <4> QED
          BY <4>3, <4>5 DEF Pending
      <3>3. CASE /\ todo' = [todo EXCEPT ![x] = present]
                 /\ msg' = [msg EXCEPT ![x] = update]
                 /\ pc' = [pc EXCEPT ![x] = "write"]
        <4>1. pc'[x] = "write" /\ msg'[x] # Data /\ s \in todo'[x]
          BY <1>4, <3>1, <3>3 DEF TInv, TypeOK
        <4> QED
          BY <4>1 DEF Pending, Told
      <3> QED
        BY <1>2, <3>1, <3>2, <3>3
    <2> QED
      BY <2>2, <2>3
  <1>6. CASE roomName[s] = NoRoom
    BY <1>2, <1>6 DEF Pending
  <1> HIDE DEF present
  <1> QED
    BY <1>2, <1>5, <1>6, PendingBySelf

LEMMA PendingWrite ==
    ASSUME TInv, WillBeTold, NEW x \in Sessions, Others(x), NEW y \in Sessions, Write(x, y),
           NEW s \in Sessions
    PROVE  Pending(s)'
  <1>1. /\ pc[x] = "write" /\ UNCHANGED <<link, roomName>>
        /\ todo' = [todo EXCEPT ![x] = todo[x] \ {y}]
        /\ view' = IF link[y] = "open" /\ msg[x] # Data THEN [view EXCEPT ![y] = msg[x]] ELSE view
        /\ todo[x] # {y} => UNCHANGED <<pc, local, msg>>
        /\ y \in todo[x]
    BY DEF Write
  <1>2. CASE s = y /\ link[y] = "open" /\ msg[x] # Data
    <2>1. view'[s] = msg[x] /\ msg[x] \in Updates
      BY <1>1, <1>2 DEF TInv, TypeOK
    <2>2. view'[s] # NoView
      BY <2>1, RoomAssumption DEF Updates
    <2> QED
      BY <2>2 DEF Pending
  <1>3. CASE s = y /\ link[y] # "open"
    BY <1>1, <1>3 DEF Pending
  <1>4. CASE s # y \/ msg[x] = Data
    <2>1. view'[s] = view[s]
      BY <1>1, <1>4 DEF TInv, TypeOK
    <2>2. ASSUME Told(s, x) PROVE Pending(s)'
      <3>1. msg[x] # Data /\ s \in todo[x] /\ s # y
        BY <1>1, <1>4, <2>2 DEF Told
      <3>2. pc'[x] = "write" /\ msg'[x] # Data /\ s \in todo'[x]
        BY <1>1, <3>1 DEF TInv, TypeOK
      <3> QED
        BY <3>2 DEF Pending, Told
    <2> QED
      BY <1>1, <2>1, <2>2, PendingBySelf
  <1> QED
    BY <1>2, <1>3, <1>4

LEMMA StepWillBeTold ==
    ASSUME RInv, WillBeTold, NEW x \in Sessions, Step(x), NEW s \in Sessions
    PROVE  Pending(s)'
  <1>1. TInv /\ Others(x) /\ Routed
    BY StepOthers DEF RInv, HInv, TInv
  <1>2. /\ Fields(x) /\ Hands(x) /\ Connected(x)
        /\ pc \in [Sessions -> Labels] /\ roomName \in [Sessions -> Rooms \cup {NoRoom}]
        /\ link \in [Sessions -> {"off", "open", "broken"}]
    BY <1>1 DEF TInv, TypeOK, Control
  <1>3. CASE Disconnect(x) \/ Leave(x)
    <2>1. roomName'[x] = NoRoom /\ pc[x] = "read" /\ view' = view
      BY <1>2, <1>3 DEF Disconnect, Leave, ClearFields
    <2> QED
      BY <1>1, <2>1, PendingOutside
  <1>4. ASSUME NEW q \in Rooms \cup {NoRoom}, Join(x, q) PROVE Pending(s)'
    <2>1. roomName'[x] = NoRoom /\ pc[x] = "read" /\ \A t \in Sessions : t # x => view'[t] = view[t]
      BY <1>1, <1>2, <1>4 DEF Join, ClearFields, TInv, TypeOK
    <2> QED
      BY <1>1, <2>1, PendingOutside
  <1>5. CASE Connect(x) \/ Drop(x) \/ AllocateIP(x) \/ Refuse(x)
    <2>1. /\ roomName'[x] = NoRoom /\ view' = view
          /\ pc[x] \in {"off", "drop", "lookup"}
      BY <1>2, <1>5 DEF Connect, Drop, AllocateIP, Refuse, Fields, Connected
    <2> QED
      BY <1>1, <2>1, PendingOutside
  <1>6. CASE Remove(x) \/ ReleaseIP(x)
    <2>1. /\ roomName'[x] = NoRoom /\ view' = view
          /\ pc[x] \in {"remove", "release"}
          /\ pc'[x] \in {"release", "broadcast"} /\ local' = local
      BY <1>2, <1>6 DEF Remove, ReleaseIP, Fields
    <2> QED
      BY <1>1, <2>1, PendingOutside
  <1>7. CASE Break(x)
    <2>1. /\ link'[x] # "open" /\ UNCHANGED <<pc, local, roomName, todo, msg>>
          /\ \A t \in Sessions : t # x => view'[t] = view[t] /\ link'[t] = link[t]
      BY <1>1, <1>2, <1>7 DEF Break, TInv, TypeOK
    <2>2. CASE s # x
      BY <2>1, <2>2 DEF WillBeTold, Pending, Told
    <2> QED
      BY <2>1, <2>2 DEF Pending
  <1>8. CASE SetFields(x) \/ Insert(x)
    <2>1. /\ view' = view /\ pc[x] \in {"setFields", "insert"}
          /\ pc'[x] \in {"insert", "respond"}
      BY <1>2, <1>8 DEF SetFields, Insert
    <2>2. Told(x, x)'
      BY <2>1 DEF Told
    <2> QED
      BY <1>1, <2>1, <2>2, PendingOutside
  <1>9. CASE Respond(x)
    <2>1. /\ view' = view /\ pc[x] = "respond" /\ roomName[x] = local[x].room
          /\ \/ pc'[x] = "broadcast" /\ local' = local /\ roomName' = roomName
             \/ link'[x] # "open"
      BY <1>2, <1>9 DEF Respond, Fields
    <2>2. link'[x] = "open" => Told(x, x)'
      BY <2>1 DEF Told
    <2> QED
      BY <1>1, <2>1, <2>2, PendingOutside
  <1>10. ASSUME NEW dst \in Destinations(x) \ {NoIP}, Relay(x, dst) PROVE Pending(s)'
    BY <1>1, <1>10, PendingRelay DEF Relay
  <1>11. ASSUME NEW y \in Sessions, Write(x, y) PROVE Pending(s)'
    BY <1>1, <1>11, PendingWrite
  <1>12. CASE Broadcast(x)
    BY <1>1, <1>12, PendingBroadcast
  <1> QED
    BY <1>3, <1>4, <1>5, <1>6, <1>7, <1>8, <1>9, <1>10, <1>11, <1>12
    DEF Step, Handle, Request

LEMMA InitIInv == Init => IInv
  BY InitRInv DEF Init, IInv, WillBeTold, Pending

LEMMA NextIInv == IInv /\ [Next]_vars => IInv'
  <1> SUFFICES ASSUME IInv, [Next]_vars, NEW s \in Sessions PROVE Pending(s)'
    BY NextRInv DEF IInv, WillBeTold
  <1>1. ASSUME NEW x \in Sessions, Step(x) PROVE Pending(s)'
    BY <1>1, StepWillBeTold DEF IInv
  <1>2. CASE Tick \/ UNCHANGED vars
    <2>1. UNCHANGED <<link, roomName, pc, local, todo, msg, view>>
      BY <1>2 DEF Tick, vars
    <2> QED
      BY <2>1 DEF IInv, WillBeTold, Pending, Told
  <1> QED
    BY <1>1, <1>2 DEF Next, Step

LEMMA SpecIInv == Spec => []IInv
  BY InitIInv, NextIInv, PTL DEF Spec

(* ToldOfRoom: when nothing moves any more, every member has read a        *)
(* PeerUpdate of its room since it asked to join, although                 *)
(* broadcastPeerUpdate returns without a word when it meets a member whose *)
(* address is cleared (server.go:821-825): that member's own handleLeave   *)
(* has its broadcast still to make.                                        *)
THEOREM MembersAreTold == Spec => []ToldOfRoom
  <1>1. ASSUME IInv, Quiet, NEW s \in Sessions, roomName[s] # NoRoom PROVE view[s] # NoView
    <2>1. link[s] = "open"
      BY <1>1 DEF IInv, RInv, HInv, TInv, TypeOK, Control, Connected, Fields, Quiet
    <2>2. \A t \in Sessions : ~Told(s, t)
      BY <1>1 DEF Quiet, Told
    <2> QED
      BY <1>1, <2>1, <2>2 DEF IInv, WillBeTold, Pending
  <1>2. IInv => ToldOfRoom
    BY <1>1 DEF ToldOfRoom
  <1> QED
    BY <1>2, SpecIInv, PTL

-----------------------------------------------------------------------------
(* Every room implements AddressPromise, for what its sessions hold and    *)
(* what its allocator has set aside.                                       *)

LEMMA PromiseRoomInit ==
    ASSUME Init, NEW r \in Rooms
    PROVE  Promise(r)!Init
  <1>1. /\ alloc[r] = NewIPAllocator(SubnetOf[r]) /\ SubnetOf[r] \in Networks
        /\ Holding(r) = [s \in Sessions |-> NoIP]
    BY RoomAssumption DEF Init, Holding, InRoom
  <1>2. Reservations(alloc[r]) = [u \in Users |-> NoIP]
    BY <1>1, NewAllocatorApart
  <1> QED
    BY <1>1, <1>2 DEF Promise!Init, ReservedIn

(* A room whose allocator and holders are left alone takes no step.        *)
LEMMA PromiseElsewhere ==
    ASSUME NEW r \in Rooms, alloc'[r] = alloc[r], Holding(r)' = Holding(r)
    PROVE  UNCHANGED <<Holding(r), ReservedIn(r)>>
  BY DEF ReservedIn

LEMMA PromiseRoomGive ==
    ASSUME HInv, NEW s \in Sessions, AllocateIP(s), NEW r \in Rooms
    PROVE  [Promise(r)!Next]_<<Holding(r), ReservedIn(r)>>
  <1>1. PICK q \in Rooms : q = local[s].want
    BY AllocateIPResult DEF HInv
  <1>2. PICK x \in AllocateForUser(alloc[q], username[s]) :
            /\ x.ip \in Addr
            /\ alloc' = [alloc EXCEPT ![q] = x.alloc]
            /\ local'[s].room = q /\ local'[s].vip = x.ip
    BY <1>1, AllocateIPResult DEF HInv
  <1>3. /\ Holding(q)[s] = NoIP
        /\ Holding(q)' = [Holding(q) EXCEPT ![s] = x.ip]
        /\ \A p \in Rooms : p # q => Holding(p)' = Holding(p)
    BY <1>1, <1>2, HoldingTaken DEF HInv
  <1>4. /\ alloc \in [Rooms -> Allocators] /\ username[s] \in Users
        /\ Holding(q) \in Holders(Sessions) /\ alloc[q] \in Allocators
        /\ Apart(alloc[q], Sessions, Holding(q))
    BY RoomAssumption, HoldingType DEF HInv, TInv, TypeOK, Held, HeldIn
  <1>5. CASE r # q
    BY <1>2, <1>3, <1>4, <1>5, PromiseElsewhere
  <1>6. CASE r = q
    <2>1. IF Reservations(alloc[q])[username[s]] = NoIP
          THEN /\ \A t \in Sessions : Holding(q)[t] # x.ip
               /\ \A v \in Users : Reservations(alloc[q])[v] # x.ip
               /\ Reservations(x.alloc) = Reservations(alloc[q])
          ELSE /\ x.ip = Reservations(alloc[q])[username[s]]
               /\ Reservations(x.alloc) = [Reservations(alloc[q]) EXCEPT ![username[s]] = NoIP]
      BY <1>4, AllocateForUserReserves
    <2>2. alloc'[q] = x.alloc
      BY <1>2, <1>4
    <2>3. Holding(q)'[s] = x.ip
      BY <1>3, <1>4 DEF Holders
    <2>4. Promise(q)!Give(s)
      BY <1>2, <1>3, <2>1, <2>2, <2>3 DEF Promise!Give, Promise!Free, ReservedIn
    <2> QED
      BY <1>6, <2>4 DEF Promise!Next
  <1> QED
    BY <1>5, <1>6

LEMMA PromiseRoomTakeBack ==
    ASSUME HInv, NEW s \in Sessions, ReleaseIP(s), NEW r \in Rooms
    PROVE  [Promise(r)!Next]_<<Holding(r), ReservedIn(r)>>
  <1>1. PICK q \in Rooms : q = local[s].room
    BY DEF ReleaseIP, HInv, TInv, Control, Hands
  <1>2. PICK ip \in Addr : ip = local[s].vip
    BY <1>1, HoldingGivenBack DEF HInv
  <1>3. /\ Holding(q)[s] = ip
        /\ Holding(q)' = [Holding(q) EXCEPT ![s] = NoIP]
        /\ \A p \in Rooms : p # q => Holding(p)' = Holding(p)
    BY <1>1, <1>2, HoldingGivenBack DEF HInv
  <1>4. /\ alloc \in [Rooms -> Allocators] /\ username[s] \in Users
        /\ alloc' = [alloc EXCEPT ![q] = ReleaseWithLease(alloc[q], ip, username[s])]
    BY <1>1, <1>2, RoomAssumption DEF ReleaseIP, HInv, TInv, TypeOK
  <1>5. CASE r # q
    BY <1>3, <1>4, <1>5, PromiseElsewhere
  <1>6. CASE r = q
    <2>1. alloc'[q] = ReleaseWithLease(alloc[q], ip, username[s]) /\ alloc[q] \in Allocators
      BY <1>4
    <2>2. Reservations(alloc'[q]) = [Reservations(alloc[q]) EXCEPT ![username[s]] = ip]
      BY <1>2, <1>4, <2>1, ReleaseReserves
    <2>3. ip # NoIP
      BY NoIPAssumption
    <2>4. Promise(q)!TakeBack(s)
      BY <1>3, <2>2, <2>3 DEF Promise!TakeBack, ReservedIn
    <2> QED
      BY <1>6, <2>4 DEF Promise!Next
  <1> QED
    BY <1>5, <1>6

LEMMA PromiseRoomTick ==
    ASSUME HInv, Tick, NEW r \in Rooms
    PROVE  [Promise(r)!Next]_<<Holding(r), ReservedIn(r)>>
  <1> DEFINE U == {u \in Users : ~Live(Elapse(alloc[r]).leases[u])}
  <1>1. Holding(r)' = Holding(r) /\ alloc'[r] = Elapse(alloc[r]) /\ alloc[r] \in Allocators
    BY HoldingIdle, HoldingType DEF Tick, HInv, TInv
  <1>2. Reservations(alloc'[r]) =
            [u \in Users |-> IF u \in U THEN NoIP ELSE Reservations(alloc[r])[u]]
    BY <1>1, ElapseLapses
  <1> HIDE DEF U
  <1>3. U \in SUBSET Users
    BY DEF U
  <1> QED
    BY <1>1, <1>2, <1>3 DEF Promise!Lapse, Promise!Next, ReservedIn

LEMMA PromiseRoomOther ==
    ASSUME HInv, NEW s \in Sessions, Step(s), ~AllocateIP(s), ~ReleaseIP(s), NEW r \in Rooms
    PROVE  UNCHANGED <<Holding(r), ReservedIn(r)>>
  <1>1. Holding(r)' = Holding(r) /\ alloc[r] \in Allocators
    BY HoldingStep, HoldingType DEF HInv, TInv
  <1>2. alloc'[r] = alloc[r] \/ alloc'[r] = expireLeasesLocked(alloc[r])
    BY AllocStep DEF HInv
  <1>3. Reservations(alloc'[r]) = Reservations(alloc[r])
    BY <1>1, <1>2, SweepSparesLive
  <1> QED
    BY <1>1, <1>3 DEF ReservedIn

(* RoomsKeepPromise: in every room an address is handed to one session at  *)
(* a time, and one that handleLeave gave back is set aside for its user    *)
(* until the lease ends (ipalloc.go:61-63), although server.go copies the  *)
(* address between locks and other handlers run in between.                *)
THEOREM RoomsImplementPromise == Spec => RoomsKeepPromise
  <1>1. Init => \A r \in Rooms : Promise(r)!Init
    BY PromiseRoomInit
  <1>2. HInv /\ [Next]_vars
            => [\A r \in Rooms : [Promise(r)!Next]_<<Holding(r), ReservedIn(r)>>]_vars
    <2> SUFFICES ASSUME HInv, Next, NEW r \in Rooms
                 PROVE  [Promise(r)!Next]_<<Holding(r), ReservedIn(r)>>
      OBVIOUS
    <2>1. ASSUME NEW s \in Sessions, Step(s)
          PROVE  [Promise(r)!Next]_<<Holding(r), ReservedIn(r)>>
      BY <2>1, PromiseRoomGive, PromiseRoomTakeBack, PromiseRoomOther
    <2> QED
      BY <2>1, PromiseRoomTick DEF Next, Step
  <1> QED
    BY <1>1, <1>2, SpecHInv, PTL DEF Spec, RoomsKeepPromise

-----------------------------------------------------------------------------
(* Addresses that are lost.                                                *)

(* Lost(r) in the terms of the lemmas about allocators.                    *)
LEMMA LostIsLost ==
    ASSUME NEW r \in Rooms
    PROVE  LostIn(alloc[r], Sessions, Holding(r), Lost(r))
  BY DEF LostIn, Lost, Leased

LEMMA LostBelow ==
    ASSUME TypeOK', NEW r \in Rooms, NEW L, LostIn(alloc'[r], Sessions, Holding(r)', L)
    PROVE  Lost(r)' \subseteq L
  <1>1. alloc'[r] \in Allocators
    BY DEF TypeOK
  <1>2. NoIP \notin alloc'[r].used
    BY <1>1, NoIPAssumption DEF Allocators
  <1> QED
    BY <1>2 DEF LostIn, Lost, Leased

LEMMA AllocateIPLoses ==
    ASSUME HInv, TypeOK', NEW s \in Sessions, AllocateIP(s), NEW r \in Rooms
    PROVE  Lost(r)' \subseteq Lost(r)
  <1>1. PICK q \in Rooms : q = local[s].want
    BY AllocateIPResult DEF HInv
  <1>2. PICK x \in AllocateForUser(alloc[q], username[s]) :
            /\ x.ip \in Addr
            /\ alloc' = [alloc EXCEPT ![q] = x.alloc]
            /\ local'[s].room = q /\ local'[s].vip = x.ip
    BY <1>1, AllocateIPResult DEF HInv
  <1>3. /\ \A p \in Rooms : Holding(p)[s] = NoIP
        /\ Holding(q)' = [Holding(q) EXCEPT ![s] = x.ip]
        /\ \A p \in Rooms : p # q => Holding(p)' = Holding(p)
    <2>1. TInv
      BY DEF HInv
    <2> QED
      BY <1>1, <1>2, <2>1, HoldingTaken
  <1>4. /\ alloc \in [Rooms -> Allocators] /\ username[s] \in Users /\ TypeOK'
        /\ Holding(q) \in Holders(Sessions) /\ alloc[q] \in Allocators
        /\ Apart(alloc[q], Sessions, Holding(q))
    BY HoldingType DEF HInv, TInv, TypeOK, Held, HeldIn
  <1>5. CASE r # q
    BY <1>2, <1>3, <1>4, <1>5, LostIsLost, LostBelow
  <1>6. CASE r = q
    <2>1. \A L : LostIn(alloc[q], Sessions, Holding(q), L)
                    => LostIn(x.alloc, Sessions, [Holding(q) EXCEPT ![s] = x.ip], L)
      BY <1>3, <1>4, AllocateForUserTakes
    <2>2. alloc'[q] = x.alloc
      BY <1>2, <1>4
    <2>3. LostIn(alloc'[q], Sessions, Holding(q)', Lost(q))
      BY <1>3, <2>1, <2>2, LostIsLost
    <2> QED
      BY <1>4, <1>6, <2>3, LostBelow
  <1> QED
    BY <1>5, <1>6

(* What is lost is the lease that is overwritten.                          *)
LEMMA ReleaseIPLoses ==
    ASSUME HInv, TypeOK', NEW s \in Sessions, ReleaseIP(s), NEW r \in Rooms,
           NEW ip \in Lost(r)', ip \notin Lost(r)
    PROVE  /\ pc[s] = "release" /\ pc'[s] # "release"
           /\ local[s].room = r /\ Leased(r, username[s])
           /\ alloc[r].leases[username[s]].ip = ip
  <1>1. PICK q \in Rooms : q = local[s].room
    BY DEF ReleaseIP, HInv, TInv, Control, Hands
  <1>2. /\ Holding(q)[s] = local[s].vip /\ Holding(q)[s] # NoIP
        /\ Holding(q)' = [Holding(q) EXCEPT ![s] = NoIP]
        /\ \A p \in Rooms : p # q => Holding(p)' = Holding(p)
    BY <1>1, HoldingGivenBack, NoIPAssumption DEF HInv
  <1>3. /\ alloc \in [Rooms -> Allocators] /\ username[s] \in Users /\ TypeOK'
        /\ Holding(q) \in Holders(Sessions) /\ alloc[q] \in Allocators
        /\ Apart(alloc[q], Sessions, Holding(q))
    BY HoldingType DEF HInv, TInv, TypeOK, Held, HeldIn
  <1>4. alloc' = [alloc EXCEPT ![q] = ReleaseWithLease(alloc[q], Holding(q)[s], username[s])]
    BY <1>1, <1>2 DEF ReleaseIP
  <1>5. pc[s] = "release" /\ pc'[s] # "release"
    BY DEF ReleaseIP, HInv, TInv, TypeOK
  <1>6. r = q
    <2>1. CASE r # q
      BY <1>2, <1>3, <1>4, <2>1, LostIsLost, LostBelow
    <2> QED
      BY <2>1
  <1>7. ASSUME NEW L, LostIn(alloc[q], Sessions, Holding(q), L),
               alloc[q].leases[username[s]] = NoLease \/ alloc[q].leases[username[s]].ip \in L
        PROVE  ip \in L
    <2>1. alloc'[q] = ReleaseWithLease(alloc[q], Holding(q)[s], username[s])
      BY <1>3, <1>4
    <2>2. LostIn(ReleaseWithLease(alloc[q], Holding(q)[s], username[s]), Sessions,
                 [Holding(q) EXCEPT ![s] = NoIP], L)
      BY <1>2, <1>3, <1>7, ReleaseWithLeaseKeepsApart
    <2>3. LostIn(alloc'[q], Sessions, Holding(q)', L)
      BY <1>2, <2>1, <2>2
    <2> QED
      BY <1>3, <1>6, <2>3, LostBelow
  <1>8. Leased(q, username[s])
    BY <1>6, <1>7, LostIsLost DEF Leased
  <1>9. alloc[q].leases[username[s]].ip = ip
    <2> DEFINE M == Lost(q) \cup {alloc[q].leases[username[s]].ip}
    <2>1. LostIn(alloc[q], Sessions, Holding(q), M)
      BY LostIsLost DEF LostIn
    <2>2. ip \in M
      BY <1>7, <2>1
    <2> QED
      BY <1>6, <2>2
  <1> QED
    BY <1>1, <1>5, <1>6, <1>8, <1>9

(* Neither a sweep nor a tick loses anything.                              *)
LEMMA IdleLoses ==
    ASSUME HInv, TypeOK', NEW r \in Rooms, Holding(r)' = Holding(r),
           \/ alloc'[r] = alloc[r]
           \/ alloc'[r] = expireLeasesLocked(alloc[r])
           \/ alloc'[r] = Elapse(alloc[r])
    PROVE  Lost(r)' \subseteq Lost(r)
  <1>1. /\ Holding(r) \in Holders(Sessions) /\ alloc[r] \in Allocators /\ TypeOK'
        /\ Apart(alloc[r], Sessions, Holding(r))
    BY HoldingType DEF HInv, TInv, Held, HeldIn
  <1>2. LostIn(alloc'[r], Sessions, Holding(r), Lost(r))
    BY <1>1, LostIsLost, ExpireKeepsApart, ElapseKeepsApart
  <1> QED
    BY <1>1, <1>2, LostBelow

(* OnlyOverwritingLoses: ReleaseWithLease over another lease of the same   *)
(* user (ipalloc.go:109) is the only way in which a room loses an address, *)
(* with any number of sessions for each user.                              *)
THEOREM RoomsLoseByOverwriting == Spec => OnlyOverwritingLoses
  <1> DEFINE A == \A r \in Rooms : \A ip \in Lost(r)' \ Lost(r) :
                     \E s \in Sessions : /\ pc[s] = "release" /\ pc'[s] # "release"
                                         /\ local[s].room = r /\ Leased(r, username[s])
                                         /\ alloc[r].leases[username[s]].ip = ip
  <1>1. HInv /\ HInv' /\ [Next]_vars => A
    <2> SUFFICES ASSUME HInv, TypeOK', [Next]_vars PROVE A
      BY DEF HInv, TInv
    <2>1. ASSUME NEW s \in Sessions, AllocateIP(s) PROVE A
      BY <2>1, AllocateIPLoses
    <2>2. ASSUME NEW s \in Sessions, ReleaseIP(s) PROVE A
      BY <2>2, ReleaseIPLoses
    <2>3. ASSUME NEW s \in Sessions, Step(s), ~AllocateIP(s), ~ReleaseIP(s), NEW r \in Rooms
          PROVE  Lost(r)' \subseteq Lost(r)
      BY <2>3, AllocStep, HoldingStep, IdleLoses DEF HInv
    <2>4. ASSUME NEW r \in Rooms, Tick \/ UNCHANGED vars
          PROVE  Lost(r)' \subseteq Lost(r)
      <3>1. /\ Holding(r)' = Holding(r)
            /\ alloc'[r] = alloc[r] \/ alloc'[r] = Elapse(alloc[r])
        BY <2>4, HoldingIdle DEF Tick, vars
      <3> QED
        BY <3>1, IdleLoses
    <2>5. ASSUME NEW s \in Sessions, Step(s) PROVE A
      BY <2>1, <2>2, <2>3, <2>5
    <2> QED
      BY <2>4, <2>5 DEF Next, Step
  <1> QED
    BY <1>1, SpecHInv, PTL DEF Spec, OnlyOverwritingLoses

-----------------------------------------------------------------------------
(* Requests and their replies.                                             *)

(* The handler has a join request of s in hand, also where it leaves the   *)
(* former room first.                                                      *)
Joining(s) ==
    \/ pc[s] \in {"lookup", "setFields", "insert", "respond"}
    \/ pc[s] \in {"remove", "release", "broadcast", "write"} /\ local[s].after = "lookup"

(* A client whose request is in hand has no reply to it yet; one that has  *)
(* asked before and has none in hand has its reply.                        *)
Reply(s) ==
    /\ link[s] # "open" => first[s] = "idle"
    /\ link[s] = "open" /\ Joining(s) => first[s] \in {"none", "other"}
    /\ link[s] = "open" /\ ~Joining(s) => first[s] \in {"idle", "reply", "late"}
    /\ pc[s] = "drop" => link[s] = "broken"
    /\ pc[s] \in {"remove", "release", "broadcast", "write"} /\ local[s].after = "drop"
          => link[s] = "broken"

RepliesInv == TInv /\ \A s \in Sessions : Reply(s)

(* A message that is no reply leaves everybody as answered as before.      *)
LEMMA OtherDelivered ==
    ASSUME TypeOK, NEW t \in Sessions, Delivered(t, "other"), NEW s \in Sessions
    PROVE  \/ first'[s] = first[s]
           \/ link[s] = "open" /\ first[s] = "none" /\ first'[s] = "other"
  BY DEF Delivered, TypeOK

LEMMA ReplyDelivered ==
    ASSUME TypeOK, NEW t \in Sessions, Delivered(t, "reply")
    PROVE  /\ \A s \in Sessions : s # t => first'[s] = first[s]
           /\ link[t] # "open" => first'[t] = first[t]
           /\ link[t] = "open" /\ first[t] = "none" => first'[t] = "reply"
           /\ link[t] = "open" /\ first[t] = "other" => first'[t] = "late"
  BY DEF Delivered, TypeOK


(* Whoever acts for s: nobody but a Write to s touches first[s].           *)
LEMMA RepliesOthers ==
    ASSUME RepliesInv, NEW s \in Sessions, Step(s), NEW t \in Sessions, t # s
    PROVE  Reply(t)'
  <1>1. /\ link'[t] = link[t] /\ pc'[t] = pc[t] /\ local'[t] = local[t]
    BY StepOthers DEF RepliesInv, TInv, Others
  <1>2. \/ first'[t] = first[t]
        \/ link[t] = "open" /\ first[t] = "none" /\ first'[t] = "other"
    <2>1. CASE Refuse(s) \/ Respond(s)
      BY <2>1, ReplyDelivered DEF Refuse, Respond, RepliesInv, TInv
    <2>2. CASE \E x \in Sessions : Write(s, x)
      BY <2>2, OtherDelivered DEF Write, RepliesInv, TInv
    <2>3. CASE Disconnect(s) \/ Remove(s) \/ ReleaseIP(s) \/ Drop(s)
      BY <2>3 DEF Disconnect, Remove, ReleaseIP, Drop
    <2>4. CASE AllocateIP(s) \/ SetFields(s) \/ Insert(s) \/ Broadcast(s)
      BY <2>4 DEF AllocateIP, SetFields, Insert, Broadcast
    <2>5. CASE Request(s)
      BY <2>5 DEF Request, Connect, Break, Leave, Join, Relay, RepliesInv, TInv, TypeOK
    <2> QED
      BY <2>1, <2>2, <2>3, <2>4, <2>5 DEF Step, Handle
  <1>3. Reply(t)
    BY DEF RepliesInv
  <1> QED
    BY <1>1, <1>2, <1>3 DEF Reply, Joining

LEMMA RepliesSelf ==
    ASSUME RepliesInv, NEW s \in Sessions, Step(s)
    PROVE  Reply(s)'
  <1>1. /\ Reply(s) /\ Hands(s) /\ Connected(s) /\ TInv /\ TypeOK
        /\ link \in [Sessions -> {"off", "open", "broken"}]
        /\ pc \in [Sessions -> Labels] /\ local \in [Sessions -> Locals]
        /\ first \in [Sessions -> Reads]
    BY DEF RepliesInv, TInv, TypeOK, Control
  <1>2. CASE Disconnect(s)
    <2>1. /\ pc[s] = "read" /\ link[s] = "broken" /\ UNCHANGED <<link, first>>
          /\ \/ pc'[s] = "drop" /\ local'[s].after = "read"
             \/ pc'[s] = "remove" /\ local'[s].after = "drop"
      BY <1>1, <1>2, ClearFieldsResult DEF Disconnect
    <2> QED
      BY <1>1, <2>1 DEF Reply, Joining
  <1>3. CASE Leave(s)
    <2>1. /\ pc[s] = "read" /\ UNCHANGED <<link, first>>
          /\ pc'[s] \in {"read", "remove"} /\ local'[s].after = "read"
      BY <1>1, <1>3, ClearFieldsResult DEF Leave
    <2> QED
      BY <1>1, <2>1 DEF Reply, Joining
  <1>4. ASSUME NEW r \in Rooms \cup {NoRoom}, Join(s, r) PROVE Reply(s)'
    <2>1. /\ link[s] = "open" /\ UNCHANGED link /\ first'[s] = "none"
          /\ \/ pc'[s] = "lookup" /\ local'[s].after = "read"
             \/ pc'[s] = "remove" /\ local'[s].after = "lookup"
      BY <1>1, <1>4, ClearFieldsResult DEF Join
    <2> QED
      BY <1>1, <2>1 DEF Reply, Joining
  <1>5. CASE Connect(s)
    <2>1. /\ link[s] = "off" /\ link'[s] = "open" /\ pc'[s] = "read" /\ UNCHANGED first
      BY <1>1, <1>5 DEF Connect
    <2> QED
      BY <1>1, <2>1 DEF Reply, Joining
  <1>6. CASE Break(s)
    <2>1. link'[s] = "broken" /\ first'[s] = "idle" /\ UNCHANGED <<pc, local>>
      BY <1>1, <1>6 DEF Break
    <2> QED
      BY <1>1, <2>1 DEF Reply, Joining
  <1>7. CASE Remove(s) \/ ReleaseIP(s)
    <2>1. /\ pc[s] \in {"remove", "release"} /\ pc'[s] \in {"release", "broadcast"}
          /\ UNCHANGED <<link, first, local>>
      BY <1>1, <1>7 DEF Remove, ReleaseIP
    <2> QED
      BY <1>1, <2>1 DEF Reply, Joining
  <1>8. CASE Drop(s)
    <2>1. /\ pc[s] = "drop" /\ pc'[s] = "off" /\ link'[s] = "off" /\ UNCHANGED first
      BY <1>1, <1>8 DEF Drop
    <2> QED
      BY <1>1, <2>1 DEF Reply, Joining
  <1>9. CASE AllocateIP(s)
    <2>1. /\ pc[s] = "lookup" /\ pc'[s] = "setFields" /\ UNCHANGED <<link, first>>
      BY <1>1, <1>9 DEF AllocateIP
    <2> QED
      BY <1>1, <2>1 DEF Reply, Joining
  <1>10. CASE SetFields(s) \/ Insert(s)
    <2>1. /\ pc[s] \in {"setFields", "insert"} /\ pc'[s] \in {"insert", "respond"}
          /\ UNCHANGED <<link, first>>
      BY <1>1, <1>10 DEF SetFields, Insert
    <2> QED
      BY <1>1, <2>1 DEF Reply, Joining
  <1>11. CASE Refuse(s) \/ Respond(s)
    <2>1. /\ pc[s] \in {"lookup", "respond"} /\ UNCHANGED link /\ Delivered(s, "reply")
          /\ \/ pc'[s] = "read"
             \/ pc'[s] = "broadcast" /\ local' = local /\ local[s].after = "read"
      BY <1>1, <1>11 DEF Refuse, Respond, Hands
    <2> QED
      BY <1>1, <2>1, ReplyDelivered DEF Reply, Joining
  <1>12. CASE Broadcast(s)
    <2>1. /\ pc[s] = "broadcast" /\ UNCHANGED <<link, first>>
          /\ \/ pc'[s] = local[s].after /\ local[s].after \in {"read", "lookup", "drop"}
             \/ pc'[s] = "write" /\ local' = local
      <3>1. CASE Return(s)
        BY <1>1, <1>12, <3>1, ReturnResult DEF Broadcast
      <3> QED
        BY <1>1, <1>12, <3>1 DEF Broadcast
    <2> QED
      BY <1>1, <2>1 DEF Reply, Joining
  <1>13. ASSUME NEW t \in Sessions, Write(s, t) PROVE Reply(s)'
    <2>1. /\ pc[s] = "write" /\ UNCHANGED link
          /\ \/ pc'[s] = local[s].after /\ local[s].after \in {"read", "lookup", "drop"}
             \/ pc' = pc /\ local' = local
      BY <1>1, <1>13, ReturnResult DEF Write
    <2>2. \/ first'[s] = first[s]
          \/ link[s] = "open" /\ first[s] = "none" /\ first'[s] = "other"
      BY <1>1, <1>13, OtherDelivered DEF Write
    <2> QED
      BY <1>1, <2>1, <2>2 DEF Reply, Joining
  <1>14. ASSUME NEW dst \in Destinations(s) \ {NoIP}, Relay(s, dst) PROVE Reply(s)'
    <2>1. pc[s] = "read" /\ pc'[s] = "write" /\ UNCHANGED <<link, first, local>>
      BY <1>1, <1>14 DEF Relay
    <2> QED
      BY <1>1, <2>1 DEF Reply, Joining, Hands
  <1> QED
    BY <1>2, <1>3, <1>4, <1>5, <1>6, <1>7, <1>8, <1>9, <1>10, <1>11, <1>12, <1>13, <1>14
    DEF Step, Handle, Request

(* OneReplyEach: every way out of handleJoinRoom writes one reply          *)
(* (server.go:429-516), also when the client was moved from another room   *)
(* first and other members' broadcasts were read in between.               *)
THEOREM EachJoinAnsweredOnce == Spec => []OneReplyEach
  <1>1. Init => RepliesInv
    <2> SUFFICES ASSUME Init, NEW s \in Sessions PROVE Reply(s)
      BY InitTInv DEF RepliesInv
    <2> QED
      BY DEF Init, Reply, Joining
  <1>2. RepliesInv /\ [Next]_vars => RepliesInv'
    <2> SUFFICES ASSUME RepliesInv, [Next]_vars, NEW t \in Sessions PROVE Reply(t)'
      BY NextTInv DEF RepliesInv
    <2>1. ASSUME NEW s \in Sessions, Step(s) PROVE Reply(t)'
      BY <2>1, RepliesOthers, RepliesSelf
    <2>2. CASE Tick \/ UNCHANGED vars
      BY <2>2 DEF Tick, vars, RepliesInv, Reply, Joining
    <2> QED
      BY <2>1, <2>2 DEF Next, Step
  <1>3. RepliesInv => OneReplyEach
    <2> SUFFICES ASSUME RepliesInv, NEW s \in Sessions
                 PROVE  /\ first[s] # "twice"
                        /\ pc[s] = "read" /\ link[s] = "open" => first[s] \notin {"none", "other"}
      BY DEF OneReplyEach
    <2>1. Reply(s)
      BY DEF RepliesInv
    <2> QED
      BY <2>1 DEF Reply, Joining
  <1> QED
    BY <1>1, <1>2, <1>3, PTL DEF Spec
=============================================================================
