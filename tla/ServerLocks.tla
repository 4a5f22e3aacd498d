---------------------------- MODULE ServerLocks ----------------------------
(***************************************************************************)
(* Who waits for whom: the mutexes of internal/server/server.go, the TCP   *)
(* connections with their bounded buffers, and the goroutines at both ends *)
(* of them (internal/client/client.go has a mutex for its writers, too).   *)
(*                                                                         *)
(* A write has no deadline: it blocks while the buffer of its connection   *)
(* is full, and most writers of the server hold the client.mu of the       *)
(* client they write to.  A handler is the list of operations it still has *)
(* to do, each a critical section or a write that may have to wait; what   *)
(* the sections compute is in RoomServer, here only the members of one     *)
(* room matter.  A section in which nothing is waited for is one step.     *)
(* s.mu and Allocator.mu have only such sections, around assignments, and  *)
(* are left out.                                                           *)
(*                                                                         *)
(* Every client has logged in; who is not in the room has asked to join,   *)
(* with the right password and an address left.  A client is gone for good *)
(* when its connection ends.                                               *)
(***************************************************************************)
EXTENDS Naturals, Sequences, FiniteSets

CONSTANTS
    Clients,        \* the sessions, and their handlers
    Nobody,         \* holds a mutex that is free
    Idle,           \* no message is being written
    Present,        \* the clients that are in the room from the start
    Talkers,        \* the clients whose tunnel has packets to send
    Pingers,        \* the clients whose keepalive ticker fires
    Sleepers,       \* the clients that may stop without a word
    Capacity        \* the messages a connection holds in one direction

ASSUME LocksAssumption ==
    /\ Nobody \notin Clients
    /\ IsFiniteSet(Clients)
    /\ Present \cup Talkers \cup Pingers \cup Sleepers \subseteq Clients
    /\ Capacity \in Nat \ {0}

VARIABLES
    p2p,            \* do the clients have a p2p.Manager?
    open,           \* the clients whose connection stands
    hung,           \* those that read and write no more while their
                    \* connection stands
    joined,         \* those that know they are in the room
    clients,        \* s.clients: those not dropped yet
    members,        \* room.Clients
    mutex,          \* client.mu of each client: the handler that holds it
    readers,        \* the handlers that hold room.mu for reading
    todo,           \* the operations each handler still has to do
    up, down,       \* messages on the way to the server and to the client
    writing,        \* Client.mu of each client: the message its holder writes
    reply           \* what the receive loop has to write before it reads on

vars == <<p2p, open, hung, joined, clients, members, mutex, readers, todo, up, down, writing, reply>>

(* What a client sends; data "to" itself is for the broadcast address.     *)
Requests ==
    [kind : {"join", "leave", "data", "ping", "punchReq", "offer", "answer"}, to : Clients]
Request(k, c) == [kind |-> k, to |-> c]

(* What it receives, told apart by what its receive loop writes in return: *)
(* packets, pongs, answers and punch responses are all "plain".            *)
Notices == {"plain", "joined", "update", "offer"}

Operations ==
    [op : {"route"}, on : Clients, what : {"data", "punchReq", "offer", "answer"}] \cup
    [op : {"section", "write", "post", "insert", "remove", "broadcast", "visit", "drop"},
     on : Clients, what : Notices]

Do(o, c, w) == [op |-> o, on |-> c, what |-> w]

TypeOK ==
    /\ p2p \in BOOLEAN
    /\ open \subseteq clients /\ clients \subseteq Clients
    /\ hung \subseteq Clients /\ joined \subseteq Clients
    /\ members \subseteq Clients
    /\ mutex \in [Clients -> Clients \cup {Nobody}]
    /\ readers \subseteq Clients
    /\ todo \in [Clients -> Seq(Operations)]
    /\ up \in [Clients -> Seq(Requests)]
    /\ down \in [Clients -> Seq(Notices)]
    /\ \A c \in Clients : Len(up[c]) <= Capacity /\ Len(down[c]) <= Capacity
    /\ writing \in [Clients -> Requests \cup {Idle}]
    /\ reply \in [Clients -> Seq(Requests)]

Init ==
    /\ p2p \in BOOLEAN
    /\ open = Clients
    /\ hung = {}
    /\ joined = Present
    /\ clients = Clients
    /\ members = Present
    /\ mutex = [c \in Clients |-> Nobody]
    /\ readers = {}
    /\ todo = [c \in Clients |-> <<>>]
    /\ up = [c \in Clients |-> IF c \in Present THEN <<>> ELSE <<Request("join", c)>>]
    /\ down = [c \in Clients |-> <<>>]
    /\ writing = [c \in Clients |-> Idle]
    /\ reply = [c \in Clients |-> <<>>]

-----------------------------------------------------------------------------
(* What a handler has to do.                                               *)

(* A list of the members of S, in the order of a Go map.                   *)
Orders(S) == {f \in [1 .. Cardinality(S) -> S] : \A i, j \in DOMAIN f : f[i] = f[j] => i = j}
Each(o, order, w) == [i \in DOMAIN order |-> Do(o, order[i], w)]

(* handleLeave: what it does to the client, to the room, and to the others *)
(* it tells; only the first, if the client is in no room.                  *)
Departure(c) ==
    <<Do("section", c, "plain")>> \o
    IF c \in members THEN <<Do("remove", c, "plain"), Do("broadcast", c, "plain")>> ELSE <<>>

(* The cases of handleConnection; "write" is a write without the mutex,    *)
(* "post" one with it.                                                     *)
Program(c, m) ==
    CASE m.kind = "join"     -> <<Do("section", c, "plain"), Do("insert", c, "plain"),
                                  Do("write", c, "joined"), Do("broadcast", c, "plain")>>
      [] m.kind = "leave"    -> Departure(c)
      [] m.kind = "data"     -> <<Do("route", m.to, "data")>>
      [] m.kind = "ping"     -> <<Do("section", c, "plain"), Do("write", c, "plain")>>
      [] m.kind = "punchReq" -> <<Do("route", m.to, "punchReq")>>
      [] m.kind = "offer"    -> <<Do("section", c, "plain"), Do("route", c, "offer")>>
      [] m.kind = "answer"   -> <<Do("section", c, "plain"), Do("route", c, "answer")>>

Receive(c) ==
    /\ c \in clients /\ todo[c] = <<>> /\ up[c] # <<>>
    /\ up' = [up EXCEPT ![c] = Tail(@)]
    /\ todo' = [todo EXCEPT ![c] = Program(c, Head(up[c]))]
    /\ UNCHANGED <<p2p, open, hung, joined, clients, members, mutex, readers, down, writing, reply>>

(* The read fails, or times out after 60 seconds without a message (which  *)
(* a client that runs does not let happen): handleDisconnect.  The         *)
(* connection is closed at the end of it.                                  *)
Disconnect(c) ==
    /\ c \in clients /\ todo[c] = <<>> /\ up[c] = <<>>
    /\ c \notin open \/ c \in hung
    /\ todo' = [todo EXCEPT ![c] = Departure(c) \o <<Do("drop", c, "plain")>>]
    /\ UNCHANGED <<p2p, open, hung, joined, clients, members, mutex, readers, up, down,
                   writing, reply>>

(* The end of a connection, with what is still on the way to the server:   *)
(* what is on the way to the client is lost, and its goroutines end.       *)
Close(c, rest) ==
    /\ open' = open \ {c}
    /\ up' = [up EXCEPT ![c] = rest]
    /\ down' = [down EXCEPT ![c] = <<>>]
    /\ writing' = [writing EXCEPT ![c] = Idle]
    /\ reply' = [reply EXCEPT ![c] = <<>>]

-----------------------------------------------------------------------------
(* The operations.                                                         *)
Doing(h, o) == todo[h] # <<>> /\ Head(todo[h]).op = o
On(h) == Head(todo[h]).on
What(h) == Head(todo[h]).what
Done(h) == todo' = [todo EXCEPT ![h] = Tail(@)]
DoInstead(h, ops) == todo' = [todo EXCEPT ![h] = ops \o Tail(@)]

(* A pending Lock keeps new readers out of a sync.RWMutex.                 *)
CanRead == readers = {} \/ \A h \in Clients : ~Doing(h, "insert") /\ ~Doing(h, "remove")

(* The lookup in room.Clients, and what it leads to for each message.      *)
Route(h) ==
    /\ Doing(h, "route") /\ CanRead
    /\ \/ /\ What(h) = "data" /\ On(h) \in members \ {h}
          /\ DoInstead(h, <<Do("post", On(h), "plain")>>)
       \/ /\ What(h) = "punchReq" /\ On(h) \in members \ {h}
          /\ DoInstead(h, <<Do("section", h, "plain"), Do("post", On(h), "offer"),
                            Do("section", On(h), "plain"), Do("post", h, "plain")>>)
       \/ /\ What(h) \in {"data", "punchReq"} /\ On(h) \notin members \cup {h}
          /\ Done(h)
       \/ /\ What(h) \in {"offer", "answer"} \/ (What(h) = "data" /\ On(h) = h)
          /\ \E order \in Orders(members \ {h}) :
                DoInstead(h, Each("post", order, IF What(h) = "offer" THEN "offer" ELSE "plain"))
    /\ UNCHANGED <<p2p, open, hung, joined, clients, members, mutex, readers, up, down, writing, reply>>

Section(h) ==
    /\ Doing(h, "section") /\ mutex[On(h)] = Nobody
    /\ Done(h)
    /\ UNCHANGED <<p2p, open, hung, joined, clients, members, mutex, readers, up, down, writing, reply>>

(* A connection takes a message, or the write fails at once.               *)
Write(h) ==
    /\ On(h) \notin open \/ Len(down[On(h)]) < Capacity
    /\ down' = IF On(h) \in open THEN [down EXCEPT ![On(h)] = Append(@, What(h))] ELSE down
    /\ Done(h)
    /\ UNCHANGED <<p2p, open, hung, joined, clients, members, readers, up, writing, reply>>

WriteUnlocked(h) == Doing(h, "write") /\ Write(h) /\ UNCHANGED mutex

(* A write under the receiver's mutex is two steps: it may wait in either. *)
Lock(h) ==
    /\ Doing(h, "post") /\ mutex[On(h)] = Nobody
    /\ mutex' = [mutex EXCEPT ![On(h)] = h]
    /\ UNCHANGED <<p2p, open, hung, joined, clients, members, readers, todo, up, down, writing, reply>>

(* Fault: the mutex is not released after an offer.                      *)
WriteLocked_Deferred(h) ==
    /\ Doing(h, "post") /\ mutex[On(h)] = h
    /\ Write(h)
    /\ mutex' = IF What(h) = "offer" THEN mutex ELSE [mutex EXCEPT ![On(h)] = Nobody]

WriteLocked(h) ==
    /\ Doing(h, "post") /\ mutex[On(h)] = h
    /\ Write(h)
    /\ mutex' = [mutex EXCEPT ![On(h)] = Nobody]

(* The sections of room.mu that insert and remove a member.                *)
Edit(h) ==
    /\ readers = {}
    /\ \/ Doing(h, "insert") /\ members' = members \cup {h}
       \/ Doing(h, "remove") /\ members' = members \ {h}
    /\ Done(h)
    /\ UNCHANGED <<p2p, open, hung, joined, clients, mutex, readers, up, down, writing, reply>>

(* broadcastPeerUpdate locks the room, visits every member under the       *)
(* member's own mutex, unlocks the room and writes to every member.        *)
Broadcast(h) ==
    /\ Doing(h, "broadcast") /\ CanRead
    /\ readers' = IF members = {} THEN readers ELSE readers \cup {h}
    /\ \E order \in Orders(members) :
          DoInstead(h, Each("visit", order, "plain") \o Each("post", order, "update"))
    /\ UNCHANGED <<p2p, open, hung, joined, clients, members, mutex, up, down, writing, reply>>

Visit(h) ==
    /\ Doing(h, "visit") /\ mutex[On(h)] = Nobody
    /\ Done(h)
    /\ readers' = IF Len(todo[h]) > 1 /\ todo[h][2].op = "visit" THEN readers ELSE readers \ {h}
    /\ UNCHANGED <<p2p, open, hung, joined, clients, members, mutex, up, down, writing, reply>>

Drop(h) ==
    /\ Doing(h, "drop")
    /\ clients' = clients \ {h}
    /\ Close(h, <<>>)
    /\ Done(h)
    /\ UNCHANGED <<p2p, hung, joined, members, mutex, readers>>

Serve(h) ==
    \/ Route(h) \/ Section(h) \/ WriteUnlocked(h) \/ Lock(h) \/ WriteLocked(h)
    \/ Edit(h) \/ Broadcast(h) \/ Visit(h) \/ Drop(h)

-----------------------------------------------------------------------------
(* What can happen to a connection.                                        *)
Break(c) ==
    /\ c \in open
    /\ Close(c, <<>>)
    /\ UNCHANGED <<p2p, hung, joined, clients, members, mutex, readers, todo>>

(* keepaliveChecker, under the client's mutex, closes a connection whose   *)
(* last ping is 90 seconds old: any, time is not modelled.                 *)
Check(c) ==
    /\ c \in clients /\ mutex[c] = Nobody
    /\ Close(c, <<>>)
    /\ UNCHANGED <<p2p, hung, joined, clients, members, mutex, readers, todo>>

(* A suspended machine, a cable pulled out.                                *)
Hang(c) ==
    /\ c \in Sleepers \cap open
    /\ hung' = hung \cup {c}
    /\ UNCHANGED <<p2p, open, joined, clients, members, mutex, readers, todo, up, down,
                   writing, reply>>

(* Client.Close: Leave, written without the mutex, is the last message.    *)
Quit(c) ==
    /\ c \in (open \cap joined) \ hung /\ Len(up[c]) < Capacity
    /\ Close(c, Append(up[c], Request("leave", c)))
    /\ UNCHANGED <<p2p, hung, joined, clients, members, mutex, readers, todo>>

-----------------------------------------------------------------------------
(* The goroutines of a client: the tunnel's reader and keepaliveLoop write *)
(* under Client.mu; receiveLoop reads, and writes under it as well.        *)
Acquire(c, m) ==
    /\ c \in open \ hung /\ writing[c] = Idle
    /\ writing' = [writing EXCEPT ![c] = m]
    /\ UNCHANGED <<p2p, open, hung, joined, clients, members, mutex, readers, todo, up, down, reply>>

SendPacket(c) ==
    /\ c \in Talkers \cap joined
    /\ \E d \in Clients : Acquire(c, Request("data", d))

Ping(c) == c \in Pingers \cap joined /\ Acquire(c, Request("ping", c))

(* receiveLoop takes the mutex for the first message it has to write.      *)
Answer(c) == reply[c] # <<>> /\ Acquire(c, Head(reply[c]))

Flush(c) ==
    /\ c \notin hung /\ writing[c] # Idle /\ Len(up[c]) < Capacity
    /\ up' = [up EXCEPT ![c] = Append(@, writing[c])]
    /\ writing' = [writing EXCEPT ![c] = Idle]
    /\ reply' = IF reply[c] # <<>> /\ writing[c] = Head(reply[c])
                THEN [reply EXCEPT ![c] = Tail(@)] ELSE reply
    /\ UNCHANGED <<p2p, open, hung, joined, clients, members, mutex, readers, todo, down>>

(* Fault: a client that runs no manager sends an offer too.              *)
Replies_NoManager(c, n) ==
    CASE n = "plain"  -> {<<>>}
      [] n = "joined" -> {<<Request("offer", c)>>}
      [] n = "offer"  -> {<<Request("answer", c)>>}
      [] n = "update" -> {[i \in DOMAIN o |-> Request("punchReq", o[i])] : o \in Orders(Clients \ {c})}

(* With a manager, who joined reports its UDP address, an update makes it  *)
(* ask for a punch to those it has no link to, and an offer is answered.   *)
Replies(c, n) ==
    CASE ~p2p \/ n = "plain" -> {<<>>}
      [] p2p /\ n = "joined" -> {<<Request("offer", c)>>}
      [] p2p /\ n = "offer"  -> {<<Request("answer", c)>>}
      [] p2p /\ n = "update" ->
            UNION {{[i \in DOMAIN o |-> Request("punchReq", o[i])] : o \in Orders(S)} :
                   S \in SUBSET (Clients \ {c})}

Read(c) ==
    /\ c \notin hung /\ down[c] # <<>> /\ reply[c] = <<>>
    /\ c \in joined \/ Head(down[c]) = "joined"
    /\ joined' = joined \cup {c}
    /\ down' = [down EXCEPT ![c] = Tail(@)]
    /\ \E r \in Replies(c, Head(down[c])) : reply' = [reply EXCEPT ![c] = r]
    /\ UNCHANGED <<p2p, open, hung, clients, members, mutex, readers, todo, up, writing>>

(* JoinRoom fails if the first message it reads is not its response; the   *)
(* connection stays open and receiveLoop is not started.                   *)
FailToJoin(c) ==
    /\ c \notin joined \cup hung /\ down[c] # <<>> /\ Head(down[c]) # "joined"
    /\ down' = [down EXCEPT ![c] = Tail(@)]
    /\ hung' = hung \cup {c}
    /\ UNCHANGED <<p2p, open, joined, clients, members, mutex, readers, todo, up, writing, reply>>

Next ==
    \E c \in Clients :
        \/ Serve(c) \/ Receive(c) \/ Disconnect(c)
        \/ Break(c) \/ Check(c) \/ Hang(c) \/ Quit(c)
        \/ SendPacket(c) \/ Ping(c) \/ Answer(c) \/ Flush(c) \/ Read(c) \/ FailToJoin(c)

Spec == Init /\ [][Next]_vars

-----------------------------------------------------------------------------
(* Who waits for whom.  The goroutines are the handlers, the receive loops *)
(* and, at each client, whoever else is writing.                           *)
Goroutines == {"handler", "loop", "sender"} \X Clients
Handler(c) == <<"handler", c>>
Loop(c) == <<"loop", c>>
Sender(c) == <<"sender", c>>

(* A goroutine that can run, or that waits for the next message, waits for *)
(* nobody; one of a client that has stopped waits for itself.              *)
WantsMutex(h) ==
    \/ (Doing(h, "section") \/ Doing(h, "visit")) /\ mutex[On(h)] # Nobody
    \/ Doing(h, "post") /\ mutex[On(h)] \notin {Nobody, h}
WantsRoom(h) ==
    \/ (Doing(h, "insert") \/ Doing(h, "remove")) /\ readers # {}
    \/ (Doing(h, "route") \/ Doing(h, "broadcast")) /\ ~CanRead
WantsConnection(h) ==
    /\ Doing(h, "write") \/ (Doing(h, "post") /\ mutex[On(h)] = h)
    /\ On(h) \in open /\ Len(down[On(h)]) = Capacity

LoopWrites(c) == reply[c] # <<>> /\ writing[c] = Head(reply[c])
Full(c) == writing[c] # Idle /\ Len(up[c]) = Capacity

HandlerWaits(h) ==
    IF WantsMutex(h) THEN {Handler(mutex[On(h)])}
    ELSE IF WantsRoom(h)
    THEN {Handler(r) : r \in IF Doing(h, "insert") \/ Doing(h, "remove") THEN readers
                             ELSE {w \in Clients : Doing(w, "insert") \/ Doing(w, "remove")}}
    ELSE IF WantsConnection(h) THEN {Loop(On(h))} ELSE {}

LoopWaits(c) ==
    IF c \in hung \cap open THEN {Loop(c)}
    ELSE IF LoopWrites(c) /\ Full(c) THEN {Handler(c)}
    ELSE IF reply[c] # <<>> /\ ~LoopWrites(c) /\ writing[c] # Idle THEN {Sender(c)} ELSE {}

SenderWaits(c) == IF ~LoopWrites(c) /\ Full(c) THEN {Handler(c)} ELSE {}

Waits(g) ==
    CASE g[1] = "handler" -> HandlerWaits(g[2])
      [] g[1] = "loop"    -> LoopWaits(g[2])
      [] g[1] = "sender"  -> SenderWaits(g[2])

(* Goroutines each of which waits for one of them wait for ever, unless a  *)
(* connection breaks.                                                      *)
StuckSets ==
    {S \in SUBSET {g \in Goroutines : Waits(g) # {}} : \A g \in S : Waits(g) \cap S # {}}
Handlers == {Handler(c) : c \in Clients}

(* A mutex is held only by a handler that is writing to its client, and    *)
(* the room's only by handlers in the loop of broadcastPeerUpdate: every   *)
(* path unlocks, also when a write fails (server.go:539, 829).             *)
LocksAreInUse ==
    /\ \A c \in Clients : mutex[c] # Nobody =>
          Doing(mutex[c], "post") /\ On(mutex[c]) = c
    /\ \A h \in readers : Doing(h, "visit")

(* The mutexes of the server are never in a cycle by themselves: whoever   *)
(* holds a client's waits for a connection, and whoever holds the room's   *)
(* waits for a client's (server.go:802-815).                               *)
NoMutexCycle == \A S \in StuckSets : S \subseteq Handlers => S = {}

(* As long as no client stops and none has a p2p.Manager, receive loops    *)
(* never write, always read on, and nobody waits for ever: a full          *)
(* connection only slows its writers down.                                 *)
NoStallWithoutManager == ~p2p /\ hung = {} => StuckSets = {{}}

(* Otherwise handlers wait for ever only together with the receive loop of *)
(* a client whose connection is full, and that has stopped, or writes into *)
(* a connection that is full in the other direction, too (client.go:443).  *)
StallsAtFullClient ==
    \A S \in StuckSets : S \cap Handlers # {} =>
        \E c \in open :
            /\ Loop(c) \in S /\ Len(down[c]) = Capacity
            /\ c \in hung \/ (reply[c] # <<>> /\ Len(up[c]) = Capacity)

(* Whoever needs a client's mutex gets it in the end, keepaliveChecker     *)
(* above all, so that it can close a connection that is silent             *)
(* (README.md:278 "the server disconnects after 90 seconds without a       *)
(* heartbeat").                                                            *)
CheckerGetsThrough ==
    \A c \in clients : mutex[c] # Nobody => Handler(mutex[c]) \notin UNION StuckSets
=============================================================================
