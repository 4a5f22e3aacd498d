---------------------------- MODULE ClientSession ----------------------------
(***************************************************************************)
(* One client of internal/client from Connect to Close, as the windows of  *)
(* cmd/gui drive it, with the handleConnection of internal/server that     *)
(* serves its connection, the server's keepaliveChecker, and the network   *)
(* between them.                                                           *)
(*                                                                         *)
(* The client's goroutines are those of the GUI that each make a request   *)
(* and read a reply, the receive loop, the keepalive loop and the reader   *)
(* of the TUN device.  Time passes in ticks; everything that can be done   *)
(* at once is done before the next.                                        *)
(*                                                                         *)
(* A reply carries the number of its request, which no message of the code *)
(* does: it is there to say whose reply a goroutine has read.  The other   *)
(* members of the room appear only by what the server writes to this       *)
(* client for them.  That a write may block is in ServerLocks, what a join *)
(* does to a room in RoomServer, framing in Wire.                          *)
(***************************************************************************)
EXTENDS Naturals, Sequences

CONSTANTS
    Goroutines,         \* of the GUI, each with at most one request
    None,               \* no request, no room
    ReadTimeout,        \* ticks in "60 * time.Second", the deadline of either end
    PingEvery,          \* in "20 * time.Second"
    PingTimeout,        \* in "90*time.Second"
    CheckEvery,         \* in "30 * time.Second"
    MaxRequests,        \* bound: requests in all
    MaxQueue            \* bound: messages under way, unless they must be written

Requests == 1..MaxRequests
Kinds == {"List", "Create", "Join"}

ASSUME SessionAssumption ==
    /\ None \notin Requests
    /\ None \notin [kind : Kinds, n : Requests]
    /\ {ReadTimeout, PingEvery, PingTimeout, CheckEvery} \subseteq Nat \ {0}
    /\ {MaxRequests, MaxQueue} \subseteq Nat \ {0}

VARIABLES
    \* the client
    window,         \* what the user sees: "login", "connecting", "rooms", "joined",
                    \* "main"; "closed"
    conn,           \* c.conn: "none", "open", "closed"
    done,           \* c.done is closed and c.closeOnce used up
    manager,        \* c.p2pMgr: "none", "open", "closed"
    request,        \* the request of each goroutine: kind and number
    asked,          \* requests made so far
    joined,         \* the join that gave the client its room and address
    loop,           \* receiveLoop is running
    pinging,        \* keepaliveLoop is running
    \* the server
    handler,        \* "none", "reads"; "shut" if the checker closed its connection; "gone"
    registered,     \* the client is in s.clients
    member,         \* the join that put it into a room
    replying,       \* the join that is in the room but not yet answered
    \* the connection
    net,            \* "live"; "dead"; "restored", which is live again
    up, down,       \* messages to the server and to the client
    \* clocks
    heard,          \* age of the client's read deadline
    read,           \* age of the server's
    lastPing,       \* age of client.lastPing
    pingIn, checkIn,    \* units until the tickers fire
    \* history
    pinged,         \* the server has handled a ping
    mixed           \* two requests overlapped, or a message came before a reply

client == <<window, conn, done, manager, request, asked, joined, loop, pinging>>
server == <<handler, registered, member, replying>>
clocks == <<heard, read, lastPing, pingIn, checkIn>>
vars == <<client, server, net, up, down, clocks, pinged, mixed>>

Msg(type, ok, n) == [type |-> type, ok |-> ok, n |-> n]
Plain(type) == Msg(type, TRUE, None)
Numbers == Requests \cup {None}

UpMessages == [type : Kinds \cup {"Auth", "Offer", "Data", "Ping", "Leave"}, ok : {TRUE},
               n : Numbers]
DownMessages == [type : Kinds \cup {"Auth", "Update", "Data", "Pong"}, ok : BOOLEAN,
                 n : Numbers]

TypeOK ==
    /\ window \in {"login", "connecting", "rooms", "joined", "main", "closed"}
    /\ conn \in {"none", "open", "closed"} /\ manager \in {"none", "open", "closed"}
    /\ request \in [Goroutines -> [kind : Kinds, n : Requests] \cup {None}]
    /\ asked \in 0..MaxRequests
    /\ {joined, member, replying} \subseteq Numbers
    /\ {done, loop, pinging, registered, pinged, mixed} \subseteq BOOLEAN
    /\ handler \in {"none", "reads", "shut", "gone"}
    /\ net \in {"live", "dead", "restored"}
    /\ up \in Seq(UpMessages) /\ down \in Seq(DownMessages)
    /\ heard \in 0..ReadTimeout /\ read \in 0..ReadTimeout
    /\ lastPing \in Nat
    /\ pingIn \in 0..PingEvery /\ checkIn \in 0..CheckEvery

Init ==
    /\ window = "login" /\ conn = "none" /\ manager = "none" /\ done = FALSE
    /\ request = [g \in Goroutines |-> None] /\ asked = 0
    /\ joined = None /\ member = None /\ replying = None
    /\ loop = FALSE /\ pinging = FALSE /\ registered = FALSE
    /\ handler = "none"
    /\ net = "live"
    /\ up = <<>> /\ down = <<>>
    /\ heard = 0 /\ read = 0 /\ lastPing = 0 /\ pingIn = 0
    /\ checkIn \in 1..CheckEvery
    /\ pinged = FALSE /\ mixed = FALSE

-----------------------------------------------------------------------------
(* The connection.  A write to an end that is gone is lost.  An end that   *)
(* finds the other closed may lose what was still to be read (a reset).    *)
ToServer(m) == up' = IF handler = "gone" THEN up ELSE Append(up, m)
ToClient(ms) == down' = IF conn = "open" /\ handler = "reads" THEN down \o ms ELSE down

Connected == conn = "open" /\ net # "dead"
Incoming == Connected /\ down # <<>>
Cut == Connected /\ handler = "gone"
Room(queue) == Len(queue) < MaxQueue

-----------------------------------------------------------------------------
(* Login: Connect dials and sends its credentials.                         *)
Connect ==
    /\ window = "login" /\ net # "dead"
    /\ window' = "connecting" /\ conn' = "open" /\ handler' = "reads"
    /\ up' = <<Plain("Auth")>>
    /\ read' = 0
    /\ UNCHANGED <<done, manager, request, asked, joined, loop, pinging, registered, member,
                   replying, net, down, heard, lastPing, pingIn, checkIn, pinged, mixed>>

(* A goroutine of the GUI makes a request, whether or not another is about *)
(* to: "n" is the number of the last one.                                  *)
Asks(g, kind, n) ==
    /\ asked' = n + 1
    /\ request' = [request EXCEPT ![g] = [kind |-> kind, n |-> n + 1]]
    /\ ToServer(Msg(kind, TRUE, n + 1))

(* Connect returns, and the window that opens lists the rooms.  If it      *)
(* fails the user starts over with another client.                         *)
Authenticated ==
    /\ window = "connecting"
    /\ \/ /\ Incoming /\ Head(down).ok
          /\ window' = "rooms" /\ conn' = conn
          /\ down' = Tail(down)
          /\ \E g \in Goroutines : Asks(g, "List", asked)
       \/ /\ Cut \/ (Incoming /\ ~Head(down).ok)
          /\ window' = "closed" /\ conn' = "closed"
          /\ down' = <<>>
          /\ UNCHANGED <<request, asked, up>>
    /\ UNCHANGED <<done, manager, joined, loop, pinging, server, net, clocks, pinged, mixed>>

(* The user refreshes the list, creates a room or joins one: each runs in  *)
(* a goroutine of its own and does not look whether another is running.    *)
Ask(g, kind) ==
    /\ window = "rooms" /\ request[g] = None /\ asked < MaxRequests
    /\ Asks(g, kind, asked)
    /\ mixed' = (mixed \/ \E h \in Goroutines : request[h] # None)
    /\ UNCHANGED <<window, conn, done, manager, joined, loop, pinging, server, net, down, clocks,
                   pinged>>

(* The next message, whatever it is, is taken for the reply.               *)
Succeeds(g) ==
    /\ Incoming /\ request[g] # None
    /\ Head(down).type = request[g].kind /\ Head(down).ok

(* A request ends with a message or with the connection.  A room that was  *)
(* created is followed by the list, a join that succeeded by another       *)
(* window.                                                                 *)
Reply(g) ==
    /\ request[g] # None
    /\ Incoming \/ Cut \/ conn = "closed"
    /\ down' = IF down = <<>> THEN down ELSE Tail(down)
    /\ IF Succeeds(g) /\ request[g].kind = "Create" /\ asked < MaxRequests
       THEN Asks(g, "List", asked)
       ELSE request' = [request EXCEPT ![g] = None] /\ UNCHANGED <<asked, up>>
    /\ IF Succeeds(g) /\ request[g].kind = "Join"
       THEN window' = "joined" /\ joined' = Head(down).n
       ELSE UNCHANGED <<window, joined>>
    /\ UNCHANGED <<conn, done, manager, loop, pinging, server, net, clocks, pinged, mixed>>

-----------------------------------------------------------------------------
(* The main window: the TUN device is opened, then InitP2P asks the STUN   *)
(* servers, which takes a while, and tells the server the result if it has *)
(* one; then both loops start.  Of a window that a second join opens again *)
(* the loops are not told from those of the first.                         *)
OpenMain ==
    /\ window = "joined"
    /\ window' = "main"
    /\ \/ manager' = "open" /\ ToServer(Plain("Offer"))
       \/ UNCHANGED <<manager, up>>
    /\ loop' = TRUE /\ pinging' = TRUE
    /\ heard' = 0 /\ pingIn' = PingEvery
    /\ UNCHANGED <<conn, done, request, asked, joined, server, net, down, read, lastPing, checkIn,
                   pinged, mixed>>

(* A packet from the TUN device that goes over the relay.  Its reader only *)
(* stops when the user disconnects.                                        *)
SendPacket ==
    /\ window \in {"joined", "main"} /\ Room(up) /\ handler # "gone"
    /\ ToServer(Plain("Data"))
    /\ UNCHANGED <<client, server, net, down, clocks, pinged, mixed>>

(* A message is read, and the deadline is set anew.                        *)
Receive ==
    /\ loop /\ Incoming
    /\ down' = Tail(down)
    /\ heard' = 0
    /\ UNCHANGED <<client, server, net, up, read, lastPing, pingIn, checkIn, pinged, mixed>>

(* Fault: c.done is not closed when the loop ends.                         *)
StopReceiving_Silent ==
    /\ loop
    /\ conn = "closed" \/ Cut \/ heard = ReadTimeout
    /\ loop' = FALSE /\ heard' = 0
    /\ UNCHANGED <<window, conn, done, manager, request, asked, joined, pinging, server, net, up, down,
                   read, lastPing, pingIn, checkIn, pinged, mixed>>

(* The loop ends with an error and closes c.done, which uses up closeOnce: *)
(* connection and manager stay open.                                       *)
StopReceiving ==
    /\ loop
    /\ conn = "closed" \/ Cut \/ heard = ReadTimeout
    /\ loop' = FALSE /\ heard' = 0 /\ done' = TRUE
    /\ UNCHANGED <<window, conn, manager, request, asked, joined, pinging, server, net, up, down, read,
                   lastPing, pingIn, checkIn, pinged, mixed>>

(* The ticker fires; if c.done is closed as well the loop may take either. *)
Ping ==
    /\ pinging /\ pingIn = 0 /\ conn = "open"
    /\ ToServer(Plain("Ping"))
    /\ pingIn' = PingEvery
    /\ UNCHANGED <<client, server, net, down, heard, read, lastPing, checkIn, pinged, mixed>>

(* The keepalive loop ends when c.done is closed or a ping cannot be sent. *)
StopPinging ==
    /\ pinging
    /\ done \/ (pingIn = 0 /\ (Cut \/ conn = "closed"))
    /\ pinging' = FALSE /\ pingIn' = 0
    /\ UNCHANGED <<window, conn, done, manager, request, asked, joined, loop, server, net, up,
                   down, heard, read, lastPing, checkIn, pinged, mixed>>

(* The button that disconnects: Close says goodbye and closes everything,  *)
(* unless closeOnce is used up.                                            *)
Disconnect ==
    /\ window = "main"
    /\ window' = "closed"
    /\ IF done
       THEN UNCHANGED <<conn, done, manager, up, down>>
       ELSE /\ done' = TRUE
            /\ conn' = "closed"
            /\ manager' = IF manager = "open" THEN "closed" ELSE manager
            /\ ToServer(Plain("Leave"))
            /\ down' = <<>>
    /\ UNCHANGED <<request, asked, joined, loop, pinging, server, net, clocks, pinged, mixed>>

(* The program ends: nothing is left of it, and its connection is closed.  *)
Exit ==
    /\ conn = "open"
    /\ window' = "closed" /\ conn' = "closed"
    /\ manager' = "none" /\ done' = TRUE
    /\ request' = [g \in Goroutines |-> None] /\ asked' = 0 /\ joined' = None
    /\ loop' = FALSE /\ pinging' = FALSE
    /\ down' = <<>>
    /\ heard' = 0 /\ pingIn' = 0
    /\ UNCHANGED <<server, net, up, read, lastPing, checkIn, pinged, mixed>>

-----------------------------------------------------------------------------
(* The server's goroutine of the connection: it reads one message, handles *)
(* it, and sets the deadline anew.                                         *)
Takes(type) ==
    /\ handler = "reads" /\ net # "dead" /\ replying = None
    /\ up # <<>> /\ Head(up).type = type
    /\ up' = Tail(up)
    /\ read' = 0

HandleAuth ==
    /\ Takes("Auth")
    /\ \/ /\ registered' = TRUE /\ lastPing' = 0
          /\ ToClient(<<Plain("Auth")>>)
          /\ UNCHANGED handler
       \/ /\ handler' = "gone"
          /\ ToClient(<<Msg("Auth", FALSE, None)>>)
          /\ UNCHANGED <<registered, lastPing>>
    /\ UNCHANGED <<client, member, replying, net, heard, pingIn, checkIn, pinged, mixed>>

(* Fault: each room in a message of its own.                               *)
HandleListRooms_PerRoom ==
    /\ Takes("List")
    /\ \E rooms \in 0..2 : ToClient([i \in 1..rooms |-> Msg("List", TRUE, Head(up).n)])
    /\ UNCHANGED <<client, server, net, heard, lastPing, pingIn, checkIn, pinged, mixed>>

(* A list that is longer than a message can be is not sent.                *)
HandleListRooms ==
    /\ Takes("List")
    /\ UNCHANGED down \/ ToClient(<<Msg("List", TRUE, Head(up).n)>>)
    /\ UNCHANGED <<client, server, net, heard, lastPing, pingIn, checkIn, pinged, mixed>>

HandleCreateRoom ==
    /\ Takes("Create")
    /\ \E ok \in BOOLEAN : ToClient(<<Msg("Create", ok, Head(up).n)>>)
    /\ UNCHANGED <<client, server, net, heard, lastPing, pingIn, checkIn, pinged, mixed>>

(* Fault: the password is checked when the client is already in the room.  *)
HandleJoinRoom_ChecksLate ==
    /\ Takes("Join")
    /\ member' = Head(up).n
    /\ \/ replying' = Head(up).n /\ UNCHANGED down
       \/ replying' = None /\ ToClient(<<Msg("Join", FALSE, Head(up).n)>>)
    /\ UNCHANGED <<client, handler, registered, net, heard, lastPing, pingIn, checkIn, pinged, mixed>>

(* A room the client is in is left before anything is checked.             *)
HandleJoinRoom ==
    /\ Takes("Join")
    /\ \/ member' = Head(up).n /\ replying' = Head(up).n /\ UNCHANGED down
       \/ member' = None /\ replying' = None /\ ToClient(<<Msg("Join", FALSE, Head(up).n)>>)
    /\ UNCHANGED <<client, handler, registered, net, heard, lastPing, pingIn, checkIn, pinged, mixed>>

(* The reply, and the broadcast, of which the client is an addressee.      *)
Respond ==
    /\ replying # None
    /\ replying' = None
    /\ ToClient(<<Msg("Join", TRUE, replying), Plain("Update")>>)
    /\ UNCHANGED <<client, handler, registered, member, net, up, clocks, pinged, mixed>>

(* Packets and offers go to others, or nowhere.                            *)
Relay ==
    /\ Takes("Data") \/ Takes("Offer")
    /\ UNCHANGED <<client, server, net, down, heard, lastPing, pingIn, checkIn, pinged, mixed>>

(* Fault: the time of the ping is not noted.                               *)
HandlePing_NotNoted ==
    /\ Takes("Ping")
    /\ pinged' = TRUE
    /\ ToClient(<<Plain("Pong")>>)
    /\ UNCHANGED <<client, server, net, heard, lastPing, pingIn, checkIn, mixed>>

HandlePing ==
    /\ Takes("Ping")
    /\ lastPing' = 0 /\ pinged' = TRUE
    /\ ToClient(<<Plain("Pong")>>)
    /\ UNCHANGED <<client, server, net, heard, pingIn, checkIn, mixed>>

HandleLeave ==
    /\ Takes("Leave")
    /\ member' = None
    /\ UNCHANGED <<client, handler, registered, replying, net, down, heard, lastPing, pingIn,
                   checkIn, pinged, mixed>>

ReadFails ==
    /\ replying = None
    /\ \/ handler = "shut"
       \/ handler = "reads" /\ (read = ReadTimeout \/ (conn = "closed" /\ net # "dead"))

(* Fault: the connection stays open.                                       *)
HandleDisconnect_StaysOpen ==
    /\ ReadFails
    /\ handler' = "none" /\ registered' = FALSE /\ member' = None
    /\ up' = <<>>
    /\ UNCHANGED <<client, replying, net, down, clocks, pinged, mixed>>

(* Reading fails: the client leaves its room and s.clients, and the        *)
(* connection is closed.                                                   *)
HandleDisconnect ==
    /\ ReadFails
    /\ handler' = "gone" /\ registered' = FALSE /\ member' = None
    /\ up' = <<>>
    /\ UNCHANGED <<client, replying, net, down, clocks, pinged, mixed>>

(* Fault: it looks at the last message instead of the last ping.           *)
Check_LastMessage ==
    /\ checkIn = 0
    /\ checkIn' = CheckEvery
    /\ handler' = IF registered /\ read > PingTimeout THEN "shut" ELSE handler
    /\ UNCHANGED <<client, registered, member, replying, net, up, down, heard, read, lastPing,
                   pingIn, pinged, mixed>>

(* One round of keepaliveChecker.                                          *)
Check ==
    /\ checkIn = 0
    /\ checkIn' = CheckEvery
    /\ handler' = IF registered /\ lastPing > PingTimeout THEN "shut" ELSE handler
    /\ UNCHANGED <<client, registered, member, replying, net, up, down, heard, read, lastPing,
                   pingIn, pinged, mixed>>

(* Handlers of other members write to this one: updates and packets.       *)
OthersWrite ==
    /\ member # None /\ handler = "reads" /\ conn = "open" /\ Room(down)
    /\ ToClient(<<Plain("Update")>>)
    /\ mixed' = (mixed \/ replying # None)
    /\ UNCHANGED <<client, server, net, up, clocks, pinged>>

-----------------------------------------------------------------------------
(* The network stops carrying anything; it may start again, once.          *)
Outage == net = "live" /\ net' = "dead"
          /\ UNCHANGED <<client, server, up, down, clocks, pinged, mixed>>

Recovery == net = "dead" /\ net' = "restored"
            /\ UNCHANGED <<client, server, up, down, clocks, pinged, mixed>>

Serve ==
    \/ HandleAuth \/ HandleListRooms \/ HandleCreateRoom \/ HandleJoinRoom \/ Respond \/ Relay
    \/ HandlePing \/ HandleLeave \/ HandleDisconnect \/ Check

(* What does not wait for a user, a packet or the STUN servers.            *)
Prompt ==
    \/ Authenticated \/ Receive \/ StopReceiving \/ Ping \/ StopPinging \/ Serve
    \/ \E g \in Goroutines : Reply(g)

(* Something of that can be done: the guards of Prompt.                    *)
Busy ==
    \/ window = "connecting" /\ (Incoming \/ Cut)
    \/ (\E g \in Goroutines : request[g] # None) /\ (Incoming \/ Cut \/ conn = "closed")
    \/ loop /\ (Incoming \/ Cut \/ conn = "closed" \/ heard = ReadTimeout)
    \/ pinging /\ (done \/ pingIn = 0)
    \/ handler = "reads" /\ net # "dead" /\ up # <<>>
    \/ replying # None \/ ReadFails \/ checkIn = 0

Older(age, running) == IF running THEN age + 1 ELSE 0

(* Time passes.                                                            *)
Tick ==
    /\ ~Busy
    /\ heard' = Older(heard, loop)
    /\ read' = Older(read, handler = "reads")
    /\ lastPing' = Older(lastPing, registered)
    /\ pingIn' = IF pinging THEN pingIn - 1 ELSE pingIn
    /\ checkIn' = checkIn - 1
    /\ UNCHANGED <<client, server, net, up, down, pinged, mixed>>

Next ==
    \/ Prompt \/ Tick \/ Outage \/ Recovery
    \/ Connect \/ OpenMain \/ SendPacket \/ Disconnect \/ Exit \/ OthersWrite
    \/ \E g \in Goroutines, kind \in Kinds : Ask(g, kind)

(* A goroutine that can run does run, STUN servers are waited for only so  *)
(* long, and time passes.                                                  *)
Fairness ==
    /\ WF_vars(Serve) /\ WF_vars(Authenticated) /\ WF_vars(OpenMain)
    /\ \A g \in Goroutines : WF_vars(Reply(g))
    /\ WF_vars(Receive \/ StopReceiving) /\ WF_vars(Ping \/ StopPinging)
    /\ SF_vars(Tick)

Spec == Init /\ [][Next]_vars /\ Fairness

-----------------------------------------------------------------------------
(* If one request is made at a time and nobody's message comes before its  *)
(* reply, a client whose network is up and whose first ping was handled is *)
(* served until it closes the connection: neither deadline and no checker  *)
(* cuts off one that works (server.go:174, :861, client.go:458).           *)
LiveIsKept == net = "live" /\ pinged /\ conn = "open" /\ ~mixed => handler = "reads"

(* Without the condition: a goroutine that still waits for a reply takes   *)
(* a pong, and the receive loop does not get to set its deadline anew.     *)
LiveIsAlwaysKept == net = "live" /\ pinged /\ conn = "open" => handler = "reads"

(* README.md:278 promises that the server disconnects after 90 s without a *)
(* heartbeat, which the client sends every 20 s: a client whose network is *)
(* up and that has not closed its connection is served from the start.     *)
KeptWhileConnected ==
    net = "live" /\ conn = "open" /\ window \notin {"connecting"} => handler = "reads"

(* The server forgets a client within 90 + 30 s of its last ping, also     *)
(* one whose loops have ended while its TUN device still sends packets     *)
(* (server.go:861).                                                        *)
SilentIsForgotten == registered => lastPing <= PingTimeout + CheckEvery

(* Busy says what it stands for.                                           *)
BusyIsPrompt == Busy <=> ENABLED Prompt

Idle == \A g \in Goroutines : request[g] = None

(* If one request is made at a time and nobody's message comes before its  *)
(* reply, client and server agree on the room and address whenever no      *)
(* request is under way (client.go:306-308, server.go:488-491).            *)
SessionAgrees ==
    handler = "reads" /\ window \in {"rooms", "joined", "main"} /\ Idle /\ ~mixed =>
        member = joined

(* Under the same condition a request that succeeds has read its own reply *)
(* (client.go:219-233).                                                    *)
RepliesMatch ==
    [][\A g \in Goroutines :
        Succeeds(g) /\ request'[g] # request[g] => mixed \/ Head(down).n = request[g].n]_vars

(* Without it, which nothing in the code ensures.                          *)
RepliesAlwaysMatch ==
    [][\A g \in Goroutines :
        Succeeds(g) /\ request'[g] # request[g] => Head(down).n = request[g].n]_vars

(* "Close closes the connection safely" (client.go:421): after the button  *)
(* the client holds neither a connection nor a manager.                    *)
CloseReleases == window = "closed" => conn # "open" /\ manager # "open"

(* The main window learns of a connection that the server has closed or    *)
(* the network has lost (main.go:650 waits for c.done).                    *)
LossIsNoticed == window = "main" /\ handler = "gone" ~> done

(* A request comes to an end unless the network fails, also one that the   *)
(* server never answers (server.go:174 closes its connection).             *)
RequestsEnd ==
    \A g \in Goroutines : request[g] # None ~> request[g] = None \/ window = "main" \/ net = "dead"
=============================================================================
