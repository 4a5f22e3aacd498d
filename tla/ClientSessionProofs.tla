------------------------- MODULE ClientSessionProofs -------------------------
(***************************************************************************)
(* What holds of ClientSession for any number of goroutines and requests   *)
(* and any time-outs.                                                      *)
(***************************************************************************)
EXTENDS ClientSession, SequenceTheorems, TLAPS

(* A message of this type is under way.                                    *)
Has(queue, type) == \E i \in 1..Len(queue) : queue[i].type = type

(* What the window shows says what the client has.                         *)
Windows ==
    /\ window \in {"connecting", "rooms", "joined", "main"} => conn = "open"
    /\ window \in {"login", "connecting", "rooms", "joined"} /\ ~mixed =>
          ~loop /\ ~pinging /\ ~done

(* Before the rooms are shown only the login has been sent.                *)
LoggingIn ==
    /\ window \in {"login", "connecting"} =>
          /\ Idle /\ asked = 0 /\ joined = None /\ member = None /\ replying = None
          /\ ~mixed /\ ~pinged
    /\ window = "login" => handler = "none" /\ ~registered /\ up = <<>> /\ down = <<>>
    /\ window = "connecting" =>
          \/ up = <<Plain("Auth")>> /\ down = <<>> /\ ~registered
          \/ /\ ~Has(up, "Auth")
             /\ down = <<>> \/ Tail(down) = <<>>
             /\ handler = "reads" => up = <<>> /\ down = <<Plain("Auth")>> /\ registered

(* The login is the first message of a connection and no other.            *)
AuthOnce ==
    /\ up # <<>> => ~Has(Tail(up), "Auth")
    /\ registered => handler \in {"reads", "shut"} /\ ~Has(up, "Auth")
    /\ conn = "open" /\ window # "connecting" => ~Has(up, "Auth")

(* The last ping of a client that is registered.                           *)
Silence ==
    registered =>
        /\ lastPing <= PingTimeout + CheckEvery
        /\ handler = "reads" => lastPing + checkIn <= PingTimeout + CheckEvery

-----------------------------------------------------------------------------
(* One request at a time: where it or its reply is.                        *)
Asking(g) ==
    LET q == request[g]
    IN  \/ /\ down = <<>>
           /\ handler = "reads" =>
                 \/ up = <<Msg(q.kind, TRUE, q.n)>> /\ member = None /\ replying = None
                 \/ up = <<>> /\ member = None /\ replying = None
                 \/ up = <<>> /\ q.kind = "Join" /\ member = q.n /\ replying = q.n
        \/ /\ down # <<>>
           /\ Head(down).type = q.kind /\ Head(down).n = q.n
           /\ (Head(down).ok /\ q.kind = "Join") \/ Tail(down) = <<>>
           /\ handler = "reads" =>
                 /\ up = <<>> /\ replying = None
                 /\ member = IF Head(down).ok /\ q.kind = "Join" THEN q.n ELSE None

(* The window of the rooms.                                                *)
Rooms ==
    /\ joined = None
    /\ \A g \in Goroutines : request[g] # None => Asking(g)
    /\ Idle => /\ down = <<>>
               /\ handler = "reads" => up = <<>> /\ member = None /\ replying = None

(* The windows after it.                                                   *)
Joined ==
    /\ member = joined /\ replying = None
    /\ \A t \in Kinds \cup {"Auth", "Leave"} : ~Has(up, t)

Conversation ==
    ~mixed =>
        /\ \A g, h \in Goroutines : request[g] # None /\ request[h] # None => g = h
        /\ window = "rooms" => Rooms
        /\ window \notin {"connecting", "rooms"} => Idle
        /\ window \in {"joined", "main"} /\ handler = "reads" => Joined

Session == TypeOK /\ Windows /\ LoggingIn /\ AuthOnce /\ Silence /\ Conversation

-----------------------------------------------------------------------------
(* The main window pings often enough for either end.                      *)
PingsInTime == PingEvery < ReadTimeout /\ PingEvery <= PingTimeout

Fresh(age) == age <= PingEvery /\ (age + pingIn <= PingEvery \/ Has(up, "Ping"))

(* In the main window both loops run, and a ping comes before a deadline.  *)
Looping ==
    /\ loop /\ pinging /\ ~done
    /\ heard <= PingEvery
    /\ heard + pingIn <= PingEvery \/ Has(up, "Ping") \/ down # <<>>

Pinging == handler = "reads" /\ window = "main" /\ Fresh(lastPing) /\ Fresh(read)

Alive ==
    ~mixed =>
        /\ Has(up, "Ping") => window \in {"main", "closed"}
        /\ net = "live" /\ conn = "open" /\ handler = "reads" => window # "closed"
        /\ net = "live" /\ handler = "reads" /\ window = "main" => Looping
        /\ net = "live" /\ conn = "open" /\ pinged => Pinging

-----------------------------------------------------------------------------
(* Queues of messages.                                                     *)

LEMMA Empty == \A t : ~Has(<<>>, t)
  BY DEF Has

LEMMA HasAppend ==
    ASSUME NEW S, NEW q \in Seq(S), NEW m \in S, NEW t
    PROVE  Has(Append(q, m), t) <=> Has(q, t) \/ m.type = t
  BY DEF Has

LEMMA HasTail ==
    ASSUME NEW S, NEW q \in Seq(S), q # <<>>, NEW t
    PROVE  Has(q, t) <=> Head(q).type = t \/ Has(Tail(q), t)
  <1>1. /\ Tail(q) \in Seq(S) /\ Len(Tail(q)) = Len(q) - 1 /\ Len(q) \in Nat \ {0}
        /\ \A i \in 1..Len(Tail(q)) : Tail(q)[i] = q[i + 1]
        /\ Head(q) = q[1]
    BY HeadTailProperties, EmptySeq
  <1>2. ASSUME Has(q, t), Head(q).type # t PROVE Has(Tail(q), t)
    <2>1. PICK i \in 1..Len(q) : q[i].type = t
      BY <1>2 DEF Has
    <2>2. i # 1 /\ i - 1 \in 1..Len(Tail(q)) /\ Tail(q)[i - 1] = q[i]
      BY <1>1, <1>2, <2>1
    <2> QED
      BY <2>1, <2>2 DEF Has
  <1>3. ASSUME Has(Tail(q), t) PROVE Has(q, t)
    <2>1. PICK i \in 1..Len(Tail(q)) : Tail(q)[i].type = t
      BY <1>3 DEF Has
    <2>2. i + 1 \in 1..Len(q) /\ q[i + 1].type = t
      BY <1>1, <2>1
    <2> QED
      BY <2>2 DEF Has
  <1>4. ASSUME Head(q).type = t PROVE Has(q, t)
    BY <1>1, <1>4 DEF Has
  <1> QED
    BY <1>2, <1>3, <1>4

LEMMA OneMessage == \A m : Tail(<<m>>) = <<>> /\ Head(<<m>>) = m /\ <<m>> # <<>>
  OBVIOUS

LEMMA TailAppend ==
    ASSUME NEW S, NEW q \in Seq(S), NEW m \in S
    PROVE  /\ Append(q, m) # <<>>
           /\ Tail(Append(q, m)) = IF q = <<>> THEN <<>> ELSE Append(Tail(q), m)
           /\ q = <<>> => Append(q, m) = <<m>>
           /\ q # <<>> => Head(Append(q, m)) = Head(q)
  <1>1. q = <<>> => Append(q, m) = <<m>>
    OBVIOUS
  <1> QED
    BY <1>1, AppendProperties, HeadTailAppend

LEMMA HeadConcat ==
    ASSUME NEW S, NEW q \in Seq(S), NEW r \in Seq(S)
    PROVE  /\ q = <<>> => q \o r = r
           /\ q # <<>> => q \o r # <<>> /\ Head(q \o r) = Head(q)
  OBVIOUS

-----------------------------------------------------------------------------
(* Types.                                                                  *)

LEMMA UpIs ==
    /\ \A t \in {"Auth", "Offer", "Data", "Ping", "Leave"} :
          Plain(t) \in UpMessages /\ Plain(t).type = t
    /\ \A k \in Kinds, n \in Numbers :
          Msg(k, TRUE, n) \in UpMessages /\ Msg(k, TRUE, n).type = k
  BY DEF Plain, Msg, UpMessages, Numbers, Kinds

LEMMA DownIs ==
    /\ \A t \in {"Auth", "Update", "Data", "Pong"} : Plain(t) \in DownMessages
    /\ \A k \in Kinds, ok \in BOOLEAN, n \in Numbers : Msg(k, ok, n) \in DownMessages
    /\ Msg("Auth", FALSE, None) \in DownMessages
  BY DEF Plain, Msg, DownMessages, Numbers, Kinds

LEMMA ToServerTypes ==
    ASSUME up \in Seq(UpMessages), NEW m \in UpMessages, ToServer(m)
    PROVE  up' \in Seq(UpMessages)
  BY AppendProperties DEF ToServer

LEMMA ToClientTypes ==
    ASSUME down \in Seq(DownMessages), NEW ms \in Seq(DownMessages), ToClient(ms)
    PROVE  down' \in Seq(DownMessages)
  BY ConcatProperties DEF ToClient

LEMMA OneOrTwo ==
    ASSUME NEW S, NEW a \in S, NEW b \in S
    PROVE  <<a>> \in Seq(S) /\ <<a, b>> \in Seq(S)
  OBVIOUS

LEMMA TakesTypes ==
    ASSUME up \in Seq(UpMessages), NEW type, Takes(type)
    PROVE  /\ up' \in Seq(UpMessages)
           /\ Head(up) \in UpMessages /\ Head(up).n \in Numbers
           /\ read' = 0
  <1>1. up # <<>> /\ up' = Tail(up) /\ read' = 0
    BY DEF Takes
  <1>2. up' \in Seq(UpMessages) /\ Head(up) \in UpMessages
    BY <1>1, HeadTailProperties
  <1> QED
    BY <1>1, <1>2 DEF UpMessages

LEMMA AsksTypes ==
    ASSUME TypeOK, NEW g \in Goroutines, NEW kind \in Kinds, NEW n \in Nat, n < MaxRequests,
           Asks(g, kind, n)
    PROVE  /\ asked' \in 0..MaxRequests /\ up' \in Seq(UpMessages)
           /\ request' \in [Goroutines -> [kind : Kinds, n : Requests] \cup {None}]
  <1>1. n + 1 \in Requests
    BY SessionAssumption DEF Requests
  <1>2. Msg(kind, TRUE, n + 1) \in UpMessages
    BY <1>1, UpIs DEF Numbers
  <1>3. up' \in Seq(UpMessages)
    BY <1>2, ToServerTypes DEF Asks, TypeOK
  <1> QED
    BY <1>1, <1>3 DEF Asks, TypeOK, Requests

LEMMA TypeStep == TypeOK /\ LoggingIn /\ [Next]_vars => TypeOK'
  <1> SUFFICES ASSUME TypeOK, LoggingIn, [Next]_vars PROVE TypeOK'
    OBVIOUS
  <1>0. /\ 0 \in 0..ReadTimeout /\ 0 \in 0..PingEvery /\ 0 \in 0..MaxRequests /\ 0 \in Nat
        /\ PingEvery \in 0..PingEvery /\ CheckEvery \in 0..CheckEvery
    BY SessionAssumption
  <1>1. CASE UNCHANGED vars
    BY <1>0, <1>1 DEF vars, client, server, clocks, TypeOK
  <1>2. ASSUME Authenticated PROVE TypeOK'
    <2>1. ASSUME NEW g \in Goroutines, Asks(g, "List", asked)
          PROVE  /\ asked' \in 0..MaxRequests /\ up' \in Seq(UpMessages)
                 /\ request' \in [Goroutines -> [kind : Kinds, n : Requests] \cup {None}]
      <3>1. asked = 0
        BY <1>0, <1>2 DEF Authenticated, LoggingIn
      <3>2. asked \in Nat /\ asked < MaxRequests /\ "List" \in Kinds
        BY <3>1, SessionAssumption DEF Kinds
      <3> QED
        BY <2>1, <3>2, AsksTypes
    <2>2. down' \in Seq(DownMessages)
      BY <1>0, <1>2, HeadTailProperties, EmptySeq DEF Authenticated, TypeOK, Incoming
    <2>3. /\ asked' \in 0..MaxRequests /\ up' \in Seq(UpMessages)
          /\ request' \in [Goroutines -> [kind : Kinds, n : Requests] \cup {None}]
      BY <1>0, <1>2, <2>1 DEF Authenticated, TypeOK
    <2> QED
      BY <1>0, <1>2, <2>2, <2>3 DEF Authenticated, TypeOK, server, clocks
  <1>3. ASSUME Receive PROVE TypeOK'
    <2>1. down' \in Seq(DownMessages)
      BY <1>0, <1>3, HeadTailProperties DEF Receive, TypeOK, Incoming
    <2> QED
      BY <1>0, <1>3, <2>1 DEF Receive, TypeOK, client, server
  <1>4. ASSUME StopReceiving \/ StopPinging PROVE TypeOK'
    <2>1. CASE StopReceiving
      BY <1>0, <2>1 DEF StopReceiving, TypeOK, server
    <2>2. CASE StopPinging
      BY <1>0, <2>2 DEF StopPinging, TypeOK, server
    <2> QED
      BY <1>4, <2>1, <2>2
  <1>5. ASSUME Ping \/ SendPacket PROVE TypeOK'
    <2>1. up' \in Seq(UpMessages)
      BY <1>0, <1>5, UpIs, ToServerTypes DEF Ping, SendPacket, TypeOK
    <2> QED
      BY <1>0, <1>5, <2>1 DEF Ping, SendPacket, TypeOK, client, server, clocks
  <1>6. ASSUME HandleAuth PROVE TypeOK'
    <2>1. up' \in Seq(UpMessages) /\ read' = 0
      BY <1>0, <1>6, TakesTypes DEF HandleAuth, TypeOK
    <2>2. down' \in Seq(DownMessages)
      BY <1>0, <1>6, DownIs, OneOrTwo, ToClientTypes DEF HandleAuth, TypeOK
    <2> QED
      BY <1>0, <1>6, <2>1, <2>2 DEF HandleAuth, TypeOK, client
  <1>7. ASSUME HandleListRooms \/ HandleCreateRoom PROVE TypeOK'
    <2>1. up' \in Seq(UpMessages) /\ Head(up).n \in Numbers /\ read' = 0
      BY <1>0, <1>7, TakesTypes DEF HandleListRooms, HandleCreateRoom, TypeOK
    <2>2. \A k \in Kinds, ok \in BOOLEAN : <<Msg(k, ok, Head(up).n)>> \in Seq(DownMessages)
      BY <2>1, DownIs, OneOrTwo
    <2>3. down' \in Seq(DownMessages)
      BY <1>0, <1>7, <2>2, ToClientTypes DEF HandleListRooms, HandleCreateRoom, TypeOK,
         Kinds
    <2> QED
      BY <1>0, <1>7, <2>1, <2>3 DEF HandleListRooms, HandleCreateRoom, TypeOK, client,
         server
  <1>8. ASSUME HandleJoinRoom PROVE TypeOK'
    <2>1. up' \in Seq(UpMessages) /\ Head(up).n \in Numbers /\ read' = 0
      BY <1>0, <1>8, TakesTypes DEF HandleJoinRoom, TypeOK
    <2>2. \A k \in Kinds, ok \in BOOLEAN : <<Msg(k, ok, Head(up).n)>> \in Seq(DownMessages)
      BY <2>1, DownIs, OneOrTwo
    <2>3. down' \in Seq(DownMessages)
      BY <1>0, <1>8, <2>2, ToClientTypes DEF HandleJoinRoom, TypeOK, Kinds
    <2> QED
      BY <1>0, <1>8, <2>1, <2>3 DEF HandleJoinRoom, TypeOK, client, Numbers
  <1>9. ASSUME Respond PROVE TypeOK'
    <2>1. Msg("Join", TRUE, replying) \in DownMessages /\ Plain("Update") \in DownMessages
      BY DownIs DEF TypeOK, Kinds
    <2>2. down' \in Seq(DownMessages)
      BY <1>0, <1>9, <2>1, OneOrTwo, ToClientTypes DEF Respond, TypeOK
    <2> QED
      BY <1>0, <1>9, <2>2 DEF Respond, TypeOK, client, clocks, Numbers
  <1>10. ASSUME Relay \/ HandlePing \/ HandleLeave PROVE TypeOK'
    <2>1. up' \in Seq(UpMessages) /\ read' = 0
      BY <1>0, <1>10, TakesTypes DEF Relay, HandlePing, HandleLeave, TypeOK
    <2>2. down' \in Seq(DownMessages)
      BY <1>0, <1>10, DownIs, OneOrTwo, ToClientTypes DEF Relay, HandlePing,
         HandleLeave, TypeOK
    <2>3. CASE Relay
      BY <1>0, <2>1, <2>2, <2>3 DEF Relay, TypeOK, client, server
    <2>4. CASE HandlePing
      BY <1>0, <2>1, <2>2, <2>4 DEF HandlePing, TypeOK, client, server
    <2>5. CASE HandleLeave
      BY <1>0, <2>1, <2>2, <2>5 DEF HandleLeave, TypeOK, client, Numbers
    <2> QED
      BY <1>10, <2>3, <2>4, <2>5
  <1>11. ASSUME HandleDisconnect \/ Check PROVE TypeOK'
    BY <1>0, <1>11, EmptySeq DEF HandleDisconnect, Check, TypeOK, client, clocks,
       Numbers
  <1>12. ASSUME NEW g \in Goroutines, Reply(g) PROVE TypeOK'
    <2>1. down' \in Seq(DownMessages)
      BY <1>0, <1>12, HeadTailProperties DEF Reply, TypeOK
    <2>2. /\ asked' \in 0..MaxRequests /\ up' \in Seq(UpMessages)
          /\ request' \in [Goroutines -> [kind : Kinds, n : Requests] \cup {None}]
      <3>1. CASE Asks(g, "List", asked) /\ asked < MaxRequests
        <4>1. asked \in Nat /\ "List" \in Kinds
          BY DEF TypeOK, Kinds
        <4> QED
          BY <3>1, <4>1, AsksTypes
      <3>2. CASE request' = [request EXCEPT ![g] = None] /\ UNCHANGED <<asked, up>>
        BY <3>2 DEF TypeOK
      <3> QED
        BY <1>0, <1>12, <3>1, <3>2 DEF Reply
    <2>3. window' \in {window, "joined"} /\ joined' \in Numbers
      <3>1. joined \in Numbers
        BY DEF TypeOK
      <3>2. ASSUME Succeeds(g) PROVE Head(down).n \in Numbers
        <4>1. Head(down) \in DownMessages
          BY <3>2, HeadTailProperties DEF Succeeds, Incoming, TypeOK
        <4> QED
          BY <4>1 DEF DownMessages
      <3> QED
        BY <1>0, <1>12, <3>1, <3>2 DEF Reply
    <2> QED
      BY <1>0, <1>12, <2>1, <2>2, <2>3 DEF Reply, TypeOK, server, clocks
  <1>13. ASSUME Tick PROVE TypeOK'
    <2>1. checkIn # 0 /\ (loop => heard # ReadTimeout) /\ (pinging => pingIn # 0)
          /\ (handler = "reads" => read # ReadTimeout)
      BY <1>13 DEF Tick, Busy, ReadFails
    <2> QED
      <3>0. /\ ReadTimeout \in Nat /\ heard \in 0..ReadTimeout /\ read \in 0..ReadTimeout
            /\ heard' = IF loop THEN heard + 1 ELSE 0
            /\ read' = IF handler = "reads" THEN read + 1 ELSE 0
        BY <1>13, SessionAssumption DEF Tick, Older, TypeOK
      <3>1. heard' \in 0..ReadTimeout
        BY <2>1, <3>0
      <3>2. read' \in 0..ReadTimeout
        BY <2>1, <3>0
      <3>3. lastPing' \in Nat
        BY <1>13 DEF Tick, Older, TypeOK
      <3>4. pingIn' \in 0..PingEvery
        BY <1>13, <2>1, SessionAssumption DEF Tick, TypeOK
      <3>5. checkIn' \in 0..CheckEvery
        BY <1>13, <2>1, SessionAssumption DEF Tick, TypeOK
      <3> QED
        BY <1>13, <3>1, <3>2, <3>3, <3>4, <3>5 DEF Tick, TypeOK, client, server
  <1>14. ASSUME Outage \/ Recovery PROVE TypeOK'
    BY <1>0, <1>14 DEF Outage, Recovery, TypeOK, client, server, clocks
  <1>15. ASSUME Connect PROVE TypeOK'
    BY <1>0, <1>15, UpIs, OneOrTwo DEF Connect, TypeOK
  <1>16. ASSUME OpenMain PROVE TypeOK'
    <2>1. up' \in Seq(UpMessages)
      BY <1>0, <1>16, UpIs, ToServerTypes DEF OpenMain, TypeOK
    <2> QED
      BY <1>0, <1>16, <2>1 DEF OpenMain, TypeOK, server
  <1>17. ASSUME Disconnect PROVE TypeOK'
    <2>1. up' \in Seq(UpMessages)
      BY <1>0, <1>17, UpIs, ToServerTypes DEF Disconnect, TypeOK
    <2> QED
      BY <1>0, <1>17, <2>1, EmptySeq DEF Disconnect, TypeOK, server, clocks
  <1>18. ASSUME Exit PROVE TypeOK'
    <2>1. asked' \in 0..MaxRequests /\ heard' \in 0..ReadTimeout /\ pingIn' \in 0..PingEvery
      BY <1>0, <1>18 DEF Exit
    <2>2. request' \in [Goroutines -> [kind : Kinds, n : Requests] \cup {None}]
      BY <1>0, <1>18 DEF Exit
    <2> QED
      BY <1>0, <1>18, <2>1, <2>2, EmptySeq DEF Exit, TypeOK, server, Numbers
  <1>19. ASSUME OthersWrite PROVE TypeOK'
    <2>1. down' \in Seq(DownMessages)
      BY <1>0, <1>19, DownIs, OneOrTwo, ToClientTypes DEF OthersWrite, TypeOK
    <2> QED
      BY <1>0, <1>19, <2>1 DEF OthersWrite, TypeOK, client, server, clocks
  <1>20. ASSUME NEW g \in Goroutines, NEW kind \in Kinds, Ask(g, kind) PROVE TypeOK'
    <2>1. /\ asked' \in 0..MaxRequests /\ up' \in Seq(UpMessages)
          /\ request' \in [Goroutines -> [kind : Kinds, n : Requests] \cup {None}]
      BY <1>0, <1>20, AsksTypes DEF Ask, TypeOK
    <2> QED
      BY <1>0, <1>20, <2>1 DEF Ask, TypeOK, server, clocks
  <1> QED
    BY <1>1, <1>2, <1>3, <1>4, <1>5, <1>6, <1>7, <1>8, <1>9, <1>10, <1>11, <1>12,
       <1>13, <1>14, <1>15, <1>16, <1>17, <1>18, <1>19, <1>20 DEF Next, Prompt, Serve

-----------------------------------------------------------------------------
(* The login.                                                              *)

LEMMA UpStep ==
    ASSUME TypeOK, LoggingIn, [Next]_vars
    PROVE  \/ up' = up
           \/ Connect
           \/ \E m \in UpMessages :
                 m.type # "Auth" /\ (m.type = "Ping" => Ping) /\ up' = Append(up, m)
           \/ up # <<>> /\ up' = Tail(up)
           \/ up' = <<>>
  <1>1. \A t \in {"Offer", "Data", "Ping", "Leave"} : Plain(t) \in UpMessages /\ Plain(t).type = t
    BY UpIs
  <1>2. \A k \in Kinds, n \in Requests :
          Msg(k, TRUE, n) \in UpMessages /\ Msg(k, TRUE, n).type \notin {"Auth", "Ping"}
    BY UpIs DEF Kinds, Numbers
  <1>3. ASSUME NEW m, ToServer(m) PROVE up' = up \/ up' = Append(up, m)
    BY <1>3 DEF ToServer
  <1>4. ASSUME NEW g \in Goroutines, NEW kind \in Kinds, NEW n \in Nat, n < MaxRequests,
               Asks(g, kind, n)
        PROVE  up' = up \/ \E m \in UpMessages :
                             m.type \notin {"Auth", "Ping"} /\ up' = Append(up, m)
    <2>1. n + 1 \in Requests
      BY <1>4, SessionAssumption DEF Requests
    <2>2. up' = up \/ up' = Append(up, Msg(kind, TRUE, n + 1))
      BY <1>3, <1>4 DEF Asks
    <2> QED
      BY <1>2, <2>1, <2>2
  <1>5. CASE Authenticated
    <2>1. asked = 0 /\ 0 \in Nat /\ 0 < MaxRequests /\ "List" \in Kinds
      BY <1>5, SessionAssumption DEF Authenticated, LoggingIn, Kinds
    <2> QED
      BY <1>4, <1>5, <2>1 DEF Authenticated
  <1>6. CASE \E g \in Goroutines : Reply(g)
    <2>1. asked \in Nat /\ "List" \in Kinds
      BY DEF TypeOK, Kinds
    <2> QED
      BY <1>4, <1>6, <2>1 DEF Reply
  <1>7. CASE \E g \in Goroutines, kind \in Kinds : Ask(g, kind)
    <2>1. asked \in Nat
      BY DEF TypeOK
    <2> QED
      BY <1>4, <1>7, <2>1 DEF Ask
  <1>8. CASE Ping \/ SendPacket \/ OpenMain \/ Disconnect
    BY <1>1, <1>3, <1>8 DEF Ping, SendPacket, OpenMain, Disconnect
  <1>9. CASE Serve
    BY <1>9 DEF Serve, HandleAuth, HandleListRooms, HandleCreateRoom, HandleJoinRoom,
       Respond, Relay, HandlePing, HandleLeave, HandleDisconnect, Check, Takes
  <1>10. CASE Receive \/ StopReceiving \/ StopPinging \/ Tick \/ Outage \/ Recovery \/ Exit
              \/ OthersWrite \/ UNCHANGED vars
    BY <1>10 DEF Receive, StopReceiving, StopPinging, Tick, Outage, Recovery, Exit,
       OthersWrite, vars
  <1> QED
    BY <1>5, <1>6, <1>7, <1>8, <1>9, <1>10 DEF Next, Prompt

LEMMA AuthStep == Session /\ [Next]_vars => AuthOnce'
  <1> SUFFICES ASSUME Session, [Next]_vars PROVE AuthOnce'
    OBVIOUS
  <1> USE DEF Session
  <1>1. up' # <<>> => ~Has(Tail(up'), "Auth")
    <2>1. CASE up' = up
      BY <2>1 DEF AuthOnce
    <2>2. CASE Connect
      BY <2>2, Empty, OneMessage DEF Connect
    <2>3. ASSUME NEW m \in UpMessages, m.type # "Auth", up' = Append(up, m)
          PROVE  ~Has(Tail(up'), "Auth")
      <3>1. CASE up = <<>>
        <4>1. Tail(up') = <<>>
          BY <2>3, <3>1, TailAppend DEF TypeOK
        <4> QED
          BY <4>1, Empty
      <3>2. CASE up # <<>>
        <4>1. Tail(up') = Append(Tail(up), m) /\ Tail(up) \in Seq(UpMessages)
          BY <2>3, <3>2, TailAppend, HeadTailProperties DEF TypeOK
        <4>2. ~Has(Tail(up), "Auth")
          BY <3>2 DEF AuthOnce
        <4> QED
          BY <2>3, <4>1, <4>2, HasAppend
      <3> QED
        BY <3>1, <3>2
    <2>4. ASSUME up # <<>>, up' = Tail(up), up' # <<>>
          PROVE  ~Has(Tail(up'), "Auth")
      <3>1. up' \in Seq(UpMessages)
        BY <2>4, HeadTailProperties DEF TypeOK
      <3> QED
        BY <2>4, <3>1, HasTail DEF AuthOnce
    <2> QED
      BY <2>1, <2>2, <2>3, <2>4, UpStep
  <1>2. ASSUME ~Has(up, "Auth") PROVE Connect \/ ~Has(up', "Auth")
    <2>1. ASSUME up # <<>>, up' = Tail(up) PROVE ~Has(up', "Auth")
      BY <1>2, <2>1, HasTail DEF TypeOK
    <2>2. ASSUME NEW m \in UpMessages, m.type # "Auth", up' = Append(up, m)
          PROVE  ~Has(up', "Auth")
      BY <1>2, <2>2, HasAppend DEF TypeOK
    <2> QED
      BY <1>2, <2>1, <2>2, UpStep, Empty
  <1>3. Takes("Auth") => Has(up, "Auth") /\ ~Has(up', "Auth")
    BY HasTail DEF Takes, AuthOnce, TypeOK
  <1>4. registered' => handler' \in {"reads", "shut"} /\ ~Has(up', "Auth")
    <2>1. CASE HandleAuth
      BY <1>3, <2>1 DEF HandleAuth, AuthOnce, Takes
    <2>2. CASE Connect
      BY <2>2 DEF Connect, LoggingIn
    <2>3. CASE HandleDisconnect
      BY <2>3 DEF HandleDisconnect
    <2>4. CASE Check
      BY <1>2, <2>2, <2>4 DEF Check, AuthOnce
    <2>5. CASE UNCHANGED <<handler, registered>>
      BY <1>2, <2>2, <2>5 DEF AuthOnce
    <2> QED
      BY <2>1, <2>2, <2>3, <2>4, <2>5 DEF Next, Prompt, Serve, Authenticated, Receive,
         StopReceiving, Ping, StopPinging, HandleListRooms, HandleCreateRoom,
         HandleJoinRoom, Respond, Relay, HandlePing, HandleLeave, Reply, Tick, Outage,
         Recovery, OpenMain, SendPacket, Disconnect, Exit, OthersWrite, Ask, server,
         vars
  <1>5. conn' = "open" /\ window' # "connecting" => ~Has(up', "Auth")
    <2>1. CASE Authenticated
      BY <1>2, <2>1, Empty DEF Authenticated, LoggingIn, Incoming, Connect
    <2>2. CASE Connect
      BY <2>2 DEF Connect
    <2>3. CASE (conn' = conn /\ (window' = "connecting" <=> window = "connecting")) \/ conn' # "open"
      BY <1>2, <2>2, <2>3 DEF AuthOnce
    <2>4. CASE Ping \/ SendPacket \/ OpenMain \/ Disconnect \/ Exit
      BY <2>3, <2>4 DEF Ping, SendPacket, OpenMain, Disconnect, Exit, client
    <2>5. CASE \E g \in Goroutines : Reply(g)
      BY <2>3, <2>5 DEF Reply, LoggingIn, Idle
    <2>6. CASE \E g \in Goroutines, kind \in Kinds : Ask(g, kind)
      BY <2>3, <2>6 DEF Ask
    <2>7. CASE Serve
      BY <2>3, <2>7 DEF Serve, HandleAuth, HandleListRooms, HandleCreateRoom,
         HandleJoinRoom, Respond, Relay, HandlePing, HandleLeave, HandleDisconnect,
         Check, client
    <2>8. CASE Receive \/ StopReceiving \/ StopPinging \/ Tick \/ Outage \/ Recovery \/ OthersWrite
               \/ UNCHANGED vars
      BY <2>3, <2>8 DEF Receive, StopReceiving, StopPinging, Tick, Outage, Recovery,
         OthersWrite, client, vars
    <2> QED
      BY <2>1, <2>2, <2>4, <2>5, <2>6, <2>7, <2>8 DEF Next, Prompt
  <1> QED
    BY <1>1, <1>4, <1>5 DEF AuthOnce

LEMMA WhileLoggingIn ==
    ASSUME Session, [Next]_vars, window' \in {"login", "connecting"}
    PROVE  /\ window \in {"login", "connecting"}
           /\ \/ Connect \/ HandleAuth \/ HandleDisconnect \/ Check
              \/ UNCHANGED <<client, server, up, down, pinged, mixed>>
  <1> USE DEF Session
  <1>1. window \in {"login", "connecting"}
    BY DEF Next, Prompt, Serve, Authenticated, Receive, StopReceiving, Ping,
       StopPinging, HandleAuth, HandleListRooms, HandleCreateRoom, HandleJoinRoom,
       Respond, Relay, HandlePing, HandleLeave, HandleDisconnect, Check, Reply, Tick,
       Outage, Recovery, Connect, OpenMain, SendPacket, Disconnect, Exit, OthersWrite,
       Ask, client, server, vars
  <1>2. /\ Idle /\ member = None /\ replying = None /\ ~loop /\ ~pinging
        /\ window = "login" => handler = "none"
        /\ up = <<>> \/ (window = "connecting" /\ (up = <<Plain("Auth")>> \/ handler # "reads"))
    BY <1>1 DEF LoggingIn, Windows
  <1>3. up = <<Plain("Auth")>> => Head(up).type = "Auth"
    BY OneMessage, UpIs
  <1>4. \A t : Takes(t) => t = "Auth"
    BY <1>2, <1>3 DEF Takes
  <1>5. ~HandleListRooms /\ ~HandleCreateRoom /\ ~HandleJoinRoom /\ ~Relay /\ ~HandlePing
        /\ ~HandleLeave
    BY <1>4 DEF HandleListRooms, HandleCreateRoom, HandleJoinRoom, Relay, HandlePing,
       HandleLeave
  <1>6. ~Respond /\ ~Receive /\ ~StopReceiving /\ ~Ping /\ ~StopPinging /\ ~OthersWrite
        /\ (\A g \in Goroutines : ~Reply(g))
    BY <1>2 DEF Respond, Receive, StopReceiving, Ping, StopPinging, OthersWrite, Reply,
       Idle
  <1>7. ~Authenticated /\ ~OpenMain /\ ~SendPacket /\ ~Disconnect /\ ~Exit
        /\ (\A g \in Goroutines, kind \in Kinds : ~Ask(g, kind))
    BY <1>1 DEF Authenticated, OpenMain, SendPacket, Disconnect, Exit, Ask
  <1>8. Connect \/ HandleAuth \/ HandleDisconnect \/ Check \/ Tick \/ Outage \/ Recovery
        \/ UNCHANGED vars
    BY <1>5, <1>6, <1>7 DEF Next, Prompt, Serve
  <1> QED
    BY <1>1, <1>8 DEF Tick, Outage, Recovery, vars

LEMMA LoggingInStep == Session /\ [Next]_vars => LoggingIn'
  <1> SUFFICES ASSUME Session, [Next]_vars, window' \in {"login", "connecting"} PROVE LoggingIn'
    BY DEF LoggingIn
  <1> USE DEF Session
  <1>1. window \in {"login", "connecting"}
    BY WhileLoggingIn
  <1>2. CASE Connect
    <2>1. window = "login" /\ window' = "connecting" /\ up' = <<Plain("Auth")>>
          /\ UNCHANGED <<request, asked, joined, registered, member, replying, down, pinged, mixed>>
      BY <1>2 DEF Connect
    <2> QED
      BY <2>1 DEF LoggingIn, Idle
  <1>3. CASE HandleAuth
    <2>1. up # <<>> /\ up' = Tail(up) /\ Head(up).type = "Auth" /\ handler = "reads"
          /\ UNCHANGED <<client, member, replying, pinged, mixed>>
      BY <1>3 DEF HandleAuth, Takes
    <2>2. Has(up, "Auth")
      BY <2>1, HasTail DEF TypeOK
    <2>3. window = "connecting" /\ up = <<Plain("Auth")>> /\ down = <<>> /\ ~registered
          /\ conn = "open"
      BY <1>1, <2>1, <2>2 DEF LoggingIn, Windows
    <2>4. up' = <<>>
      BY <2>1, <2>3, OneMessage
    <2>5. \A m \in DownMessages : <<>> \o <<m>> = <<m>> /\ Tail(<<m>>) = <<>>
      OBVIOUS
    <2>6. \/ handler' = "reads" /\ registered' /\ down' = <<Plain("Auth")>>
          \/ handler' = "gone" /\ down' = <<Msg("Auth", FALSE, None)>>
      BY <1>3, <2>1, <2>3, <2>5, DownIs DEF HandleAuth, ToClient
    <2>7. down' = <<>> \/ Tail(down') = <<>>
      BY <2>5, <2>6, DownIs
    <2> QED
      BY <1>1, <2>1, <2>3, <2>4, <2>6, <2>7, Empty DEF LoggingIn, Idle, client
  <1>4. CASE HandleDisconnect
    BY <1>1, <1>4, Empty DEF HandleDisconnect, ReadFails, LoggingIn, Idle, client,
       clocks
  <1>5. CASE Check
    BY <1>1, <1>5 DEF Check, LoggingIn, Idle, client
  <1>6. CASE UNCHANGED <<client, server, up, down, pinged, mixed>>
    BY <1>1, <1>6 DEF LoggingIn, Idle, client, server
  <1> QED
    BY <1>2, <1>3, <1>4, <1>5, <1>6, WhileLoggingIn

(* The loops run when the main window is open; a reply that comes late     *)
(* does not open it again.                                                 *)
LEMMA WindowsStep == Session /\ [Next]_vars => Windows'
  <1> SUFFICES ASSUME Session, [Next]_vars PROVE Windows'
    OBVIOUS
  <1> USE DEF Session
  <1>1. CASE Authenticated
    BY <1>1 DEF Authenticated, Windows
  <1>2. CASE Connect
    BY <1>2 DEF Connect, Windows
  <1>3. ASSUME NEW g \in Goroutines, Reply(g) PROVE Windows'
    <2>1. request[g] # None /\ UNCHANGED <<conn, loop, pinging, done, mixed>>
      BY <1>3 DEF Reply
    <2>2. window' = window \/ (window' = "joined" /\ Incoming)
      BY <1>3 DEF Reply, Succeeds
    <2>3. ~mixed => window = "rooms"
      BY <2>1 DEF Conversation, Rooms, LoggingIn, Idle
    <2> QED
      BY <2>1, <2>2, <2>3 DEF Windows, Incoming, Connected
  <1>4. CASE OpenMain \/ Disconnect \/ Exit
    BY <1>4 DEF OpenMain, Disconnect, Exit, Windows
  <1>5. ASSUME NEW g \in Goroutines, NEW kind \in Kinds, Ask(g, kind) PROVE Windows'
    BY <1>5 DEF Ask, Windows
  <1>6. CASE StopReceiving \/ StopPinging
    BY <1>6 DEF StopReceiving, StopPinging, Windows
  <1>7. CASE OthersWrite
    BY <1>7 DEF OthersWrite, Windows, client
  <1>8. CASE UNCHANGED client /\ UNCHANGED mixed
    BY <1>8 DEF Windows, client
  <1> QED
    BY <1>1, <1>2, <1>3, <1>4, <1>5, <1>6, <1>7, <1>8 DEF Next, Prompt, Serve, Receive,
       Ping, HandleAuth, HandleListRooms, HandleCreateRoom, HandleJoinRoom, Respond,
       Relay, HandlePing, HandleLeave, HandleDisconnect, Check, Tick, Outage, Recovery,
       SendPacket, vars

LEMMA SilenceStep == Session /\ [Next]_vars => Silence'
  <1> SUFFICES ASSUME Session, [Next]_vars, registered' PROVE Silence'
    BY DEF Silence
  <1> USE DEF Session
  <1>0. /\ PingTimeout \in Nat /\ CheckEvery \in Nat /\ checkIn \in 0..CheckEvery /\ lastPing \in Nat
    BY SessionAssumption DEF TypeOK
  <1>1. CASE HandleAuth \/ HandlePing
    <2>1. UNCHANGED checkIn /\ (lastPing' = 0 \/ (UNCHANGED <<registered, lastPing>> /\ handler' = "gone"))
      BY <1>1 DEF HandleAuth, HandlePing
    <2>2. CASE lastPing' = 0 /\ UNCHANGED checkIn
      <3>1. 0 <= PingTimeout + CheckEvery /\ 0 + checkIn <= PingTimeout + CheckEvery
        BY <1>0
      <3> QED
        BY <2>2, <3>1 DEF Silence
    <2>3. CASE UNCHANGED <<registered, lastPing>> /\ handler' = "gone"
      BY <2>3 DEF Silence
    <2> QED
      BY <2>1, <2>2, <2>3
  <1>2. CASE Check
    <2>1. /\ checkIn' = CheckEvery /\ lastPing' = lastPing /\ registered
          /\ lastPing > PingTimeout => handler' = "shut"
      BY <1>2 DEF Check
    <2>2. lastPing' <= PingTimeout + CheckEvery
      BY <2>1 DEF Silence
    <2>3. lastPing <= PingTimeout => lastPing' + checkIn' <= PingTimeout + CheckEvery
      BY <1>0, <2>1
    <2>4. lastPing > PingTimeout \/ lastPing <= PingTimeout
      BY <1>0
    <2> QED
      BY <2>1, <2>2, <2>3, <2>4 DEF Silence
  <1>3. CASE Tick
    <2>1. registered /\ lastPing' = lastPing + 1 /\ checkIn' = checkIn - 1 /\ handler' = handler
      BY <1>3 DEF Tick, Older, server
    <2>2. handler = "reads"
      BY <1>3, <2>1 DEF Tick, Busy, ReadFails, AuthOnce
    <2>3. checkIn # 0 /\ lastPing + checkIn <= PingTimeout + CheckEvery
      BY <1>3, <2>1, <2>2 DEF Tick, Busy, Silence
    <2>4. /\ lastPing' <= PingTimeout + CheckEvery
          /\ lastPing' + checkIn' <= PingTimeout + CheckEvery
      BY <1>0, <2>1, <2>3
    <2> QED
      BY <2>4 DEF Silence
  <1>4. CASE Connect
    BY <1>4 DEF Connect, LoggingIn
  <1>5. CASE UNCHANGED <<handler, registered, lastPing, checkIn>>
    BY <1>5 DEF Silence
  <1> QED
    BY <1>1, <1>2, <1>3, <1>4, <1>5 DEF Next, Prompt, Serve, Authenticated, Receive,
       StopReceiving, Ping, StopPinging, HandleListRooms, HandleCreateRoom,
       HandleJoinRoom, Respond, Relay, HandleLeave, HandleDisconnect, Reply, Outage,
       Recovery, OpenMain, SendPacket, Disconnect, Exit, OthersWrite, Ask, server,
       clocks, vars

-----------------------------------------------------------------------------
(* One request at a time.                                                  *)

(* Nothing unmixes the conversation, and what a client needs to work is    *)
(* not given back: only Connect makes a connection or a handler.           *)
LEMMA NeverBack ==
    ASSUME [Next]_vars
    PROVE  /\ ~mixed' => ~mixed
           /\ net' = "live" => net = "live"
           /\ conn' = "open" => conn = "open" \/ Connect
           /\ handler' = "reads" => handler = "reads" \/ Connect
           /\ window' = "main" => window = "main" \/ OpenMain
  <1>1. ~mixed' => ~mixed
    BY DEF Next, Prompt, Serve, Authenticated, Receive, StopReceiving, Ping,
       StopPinging, HandleAuth, HandleListRooms, HandleCreateRoom, HandleJoinRoom,
       Respond, Relay, HandlePing, HandleLeave, HandleDisconnect, Check, Reply, Tick,
       Outage, Recovery, Connect, OpenMain, SendPacket, Disconnect, Exit, OthersWrite,
       Ask, vars
  <1>2. net' = "live" => net = "live"
    BY DEF Next, Prompt, Serve, Authenticated, Receive, StopReceiving, Ping,
       StopPinging, HandleAuth, HandleListRooms, HandleCreateRoom, HandleJoinRoom,
       Respond, Relay, HandlePing, HandleLeave, HandleDisconnect, Check, Reply, Tick,
       Outage, Recovery, Connect, OpenMain, SendPacket, Disconnect, Exit, OthersWrite,
       Ask, vars
  <1>3. conn' = "open" => conn = "open" \/ Connect
    BY DEF Next, Prompt, Serve, Authenticated, Receive, StopReceiving, Ping,
       StopPinging, HandleAuth, HandleListRooms, HandleCreateRoom, HandleJoinRoom,
       Respond, Relay, HandlePing, HandleLeave, HandleDisconnect, Check, Reply, Tick,
       Outage, Recovery, OpenMain, SendPacket, Disconnect, Exit, OthersWrite, Ask,
       client, vars
  <1>4. handler' = "reads" => handler = "reads" \/ Connect
    BY DEF Next, Prompt, Serve, Authenticated, Receive, StopReceiving, Ping,
       StopPinging, HandleAuth, HandleListRooms, HandleCreateRoom, HandleJoinRoom,
       Respond, Relay, HandlePing, HandleLeave, HandleDisconnect, Check, Reply, Tick,
       Outage, Recovery, OpenMain, SendPacket, Disconnect, Exit, OthersWrite, Ask,
       Takes, server, vars
  <1>5. window' = "main" => window = "main" \/ OpenMain
    BY DEF Next, Prompt, Serve, Authenticated, Receive, StopReceiving, Ping,
       StopPinging, HandleAuth, HandleListRooms, HandleCreateRoom, HandleJoinRoom,
       Respond, Relay, HandlePing, HandleLeave, HandleDisconnect, Check, Reply, Tick,
       Outage, Recovery, Connect, SendPacket, Disconnect, Exit, OthersWrite, Ask,
       client, vars
  <1> QED
    BY <1>1, <1>2, <1>3, <1>4, <1>5

(* The one request under way is made in the window of the rooms.           *)
LEMMA TheRequest ==
    ASSUME Session, ~mixed, NEW g \in Goroutines, request[g] # None
    PROVE  /\ window = "rooms" /\ conn = "open" /\ joined = None /\ Asking(g)
           /\ \A h \in Goroutines \ {g} : request[h] = None
           /\ request[g] \in [kind : Kinds, n : Requests]
  BY DEF Session, Conversation, Rooms, LoggingIn, Windows, Idle, TypeOK

LEMMA Known ==
    ASSUME Session, NEW g \in Goroutines
    PROVE  request[g] \in [kind : Kinds, n : Requests] \cup {None}
  BY DEF Session, TypeOK

LEMMA AsksIt ==
    ASSUME TypeOK, NEW g \in Goroutines, NEW kind, NEW n, Asks(g, kind, n),
           \A h \in Goroutines \ {g} : request[h] = None
    PROVE  /\ request'[g] = [kind |-> kind, n |-> n + 1]
           /\ \A h \in Goroutines \ {g} : request'[h] = None
  BY DEF Asks, TypeOK

LEMMA OneAtATime ==
    ASSUME Session, [Next]_vars, ~mixed'
    PROVE  /\ \A g, h \in Goroutines : request'[g] # None /\ request'[h] # None => g = h
           /\ window' \notin {"connecting", "rooms"} => Idle'
  <1> USE DEF Session
  <1>0. ~mixed
    BY NeverBack
  <1>1. ASSUME NEW g \in Goroutines, NEW kind, NEW n, Asks(g, kind, n), window' = "rooms",
               \A h \in Goroutines \ {g} : request[h] = None
        PROVE  /\ \A i, h \in Goroutines : request'[i] # None /\ request'[h] # None => i = h
               /\ window' \notin {"connecting", "rooms"} => Idle'
    BY <1>1, AsksIt
  <1>2. CASE Authenticated
    <2>1. Idle
      BY <1>2 DEF Authenticated, LoggingIn
    <2> QED
      BY <1>1, <1>2, <2>1 DEF Authenticated, Idle
  <1>3. ASSUME NEW g \in Goroutines, Reply(g)
        PROVE  /\ \A i, h \in Goroutines : request'[i] # None /\ request'[h] # None => i = h
               /\ window' \notin {"connecting", "rooms"} => Idle'
    <2>1. request[g] # None
      BY <1>3 DEF Reply
    <2>2. window = "rooms" /\ \A h \in Goroutines \ {g} : request[h] = None
      BY <1>0, <2>1, TheRequest
    <2>3. CASE request' = [request EXCEPT ![g] = None]
      BY <2>2, <2>3 DEF Idle, TypeOK
    <2>4. CASE Asks(g, "List", asked) /\ window' = "rooms"
      BY <1>1, <2>2, <2>4
    <2> QED
      BY <1>3, <2>2, <2>3, <2>4 DEF Reply, Kinds
  <1>4. ASSUME NEW g \in Goroutines, NEW kind \in Kinds, Ask(g, kind)
        PROVE  /\ \A i, h \in Goroutines : request'[i] # None /\ request'[h] # None => i = h
               /\ window' \notin {"connecting", "rooms"} => Idle'
    <2>1. Asks(g, kind, asked) /\ window' = "rooms" /\ \A h \in Goroutines : request[h] = None
      BY <1>4 DEF Ask
    <2> QED
      BY <1>1, <2>1
  <1>5. CASE Exit
    BY <1>5 DEF Exit, Idle
  <1>6. CASE UNCHANGED request /\ (window' = window \/ window \notin {"connecting", "rooms"})
    BY <1>0, <1>6 DEF Conversation, Rooms, Idle
  <1>7. CASE Connect \/ OpenMain \/ Disconnect
    BY <1>6, <1>7 DEF Connect, OpenMain, Disconnect
  <1> QED
    BY <1>2, <1>3, <1>4, <1>5, <1>6, <1>7 DEF Next, Prompt, Serve, Receive,
       StopReceiving, Ping, StopPinging, HandleAuth, HandleListRooms, HandleCreateRoom,
       HandleJoinRoom, Respond, Relay, HandlePing, HandleLeave, HandleDisconnect,
       Check, Tick, Outage, Recovery, SendPacket, OthersWrite, client, vars

(* What the server takes in this window is the request.                    *)
LEMMA TakesTheRequest ==
    ASSUME Session, ~mixed, window = "rooms", NEW type, Takes(type)
    PROVE  /\ type \in Kinds /\ up' = <<>>
           /\ handler = "reads" /\ conn = "open" /\ down = <<>> /\ member = None /\ replying = None
           /\ joined = None
           /\ \E g \in Goroutines :
                 /\ request[g] \in [kind : Kinds, n : Requests]
                 /\ request[g].kind = type /\ request[g].n = Head(up).n
                 /\ \A h \in Goroutines \ {g} : request[h] = None
  <1> USE DEF Session
  <1>1. handler = "reads" /\ up # <<>> /\ Head(up).type = type /\ up' = Tail(up) /\ replying = None
    BY DEF Takes
  <1>2. PICK g \in Goroutines : request[g] # None
    BY <1>1 DEF Conversation, Rooms, Idle
  <1>3. /\ conn = "open" /\ joined = None /\ Asking(g)
        /\ \A h \in Goroutines \ {g} : request[h] = None
        /\ request[g] \in [kind : Kinds, n : Requests]
    BY <1>2, TheRequest
  <1>4. down = <<>> /\ member = None /\ up = <<Msg(request[g].kind, TRUE, request[g].n)>>
    BY <1>1, <1>3 DEF Asking
  <1>5. /\ Head(up) = Msg(request[g].kind, TRUE, request[g].n) /\ up' = <<>>
    BY <1>1, <1>4, OneMessage
  <1>6. Head(up).type = request[g].kind /\ Head(up).n = request[g].n
    BY <1>5 DEF Msg
  <1>7. request[g].kind \in Kinds
    BY <1>3
  <1> QED
    BY <1>1, <1>3, <1>4, <1>5, <1>6, <1>7

LEMMA Sent ==
    ASSUME NEW m
    PROVE  /\ ToServer(m) /\ handler = "reads" /\ up = <<>> => up' = <<m>>
           /\ ToClient(<<m>>) /\ handler = "reads" /\ conn = "open" /\ down = <<>> => down' = <<m>>
           /\ \A ms : ToClient(ms) /\ handler # "reads" => down' = down
  BY DEF ToServer, ToClient

LEMMA Unanswered ==
    ASSUME NEW g \in Goroutines, joined' = None, \A h \in Goroutines \ {g} : request'[h] = None,
           request'[g] # None, down' = <<>>,
           handler' = "reads" =>
               \/ /\ up' = <<Msg(request'[g].kind, TRUE, request'[g].n)>> \/ up' = <<>>
                  /\ member' = None /\ replying' = None
               \/ /\ up' = <<>> /\ request'[g].kind = "Join"
                  /\ member' = request'[g].n /\ replying' = request'[g].n
    PROVE  Rooms'
  <1>1. Asking(g)'
    BY DEF Asking
  <1>2. \A h \in Goroutines : request'[h] # None => h = g
    OBVIOUS
  <1>3. ~Idle'
    BY DEF Idle
  <1> QED
    BY <1>1, <1>2, <1>3 DEF Rooms

LEMMA Answered ==
    ASSUME NEW g \in Goroutines, joined' = None, \A h \in Goroutines \ {g} : request'[h] = None,
           request'[g] # None,
           down' # <<>>, Head(down').type = request'[g].kind, Head(down').n = request'[g].n,
           (Head(down').ok /\ request'[g].kind = "Join") \/ Tail(down') = <<>>,
           handler' = "reads" =>
               /\ up' = <<>> /\ replying' = None
               /\ member' = IF Head(down').ok /\ request'[g].kind = "Join"
                            THEN request'[g].n ELSE None
    PROVE  Rooms'
  <1>1. Asking(g)'
    BY DEF Asking
  <1>2. \A h \in Goroutines : request'[h] # None => h = g
    OBVIOUS
  <1>3. ~Idle'
    BY DEF Idle
  <1> QED
    BY <1>1, <1>2, <1>3 DEF Rooms

LEMMA AtRest ==
    ASSUME joined' = None, Idle', down' = <<>>,
           handler' = "reads" => up' = <<>> /\ member' = None /\ replying' = None
    PROVE  Rooms'
  BY DEF Rooms, Idle

LEMMA RoomsAuthenticated ==
    ASSUME Session, ~mixed, Authenticated, window' = "rooms"
    PROVE  Rooms'
  <1> USE DEF Session
  <1>1. /\ window = "connecting" /\ Incoming /\ down' = Tail(down)
        /\ UNCHANGED <<joined, handler, member, replying>>
    BY DEF Authenticated, server
  <1>2. PICK g \in Goroutines : Asks(g, "List", asked)
    BY DEF Authenticated
  <1>3. \A h \in Goroutines : request[h] = None
    BY <1>1 DEF LoggingIn, Idle
  <1>4. /\ request'[g] = [kind |-> "List", n |-> asked + 1]
        /\ \A h \in Goroutines \ {g} : request'[h] = None
    BY <1>2, <1>3, AsksIt
  <1>5. /\ joined = None /\ member = None /\ replying = None /\ down' = <<>>
        /\ handler = "reads" => up = <<>>
    BY <1>1, EmptySeq DEF LoggingIn, Incoming
  <1>6. handler = "reads" => up' = <<Msg("List", TRUE, asked + 1)>>
    BY <1>2, <1>5, Sent DEF Asks
  <1>7. request'[g] \in [kind : Kinds, n : Requests]
    <2>1. asked = 0 /\ 1 \in Requests /\ "List" \in Kinds
      BY <1>1, SessionAssumption DEF LoggingIn, Requests, Kinds
    <2> QED
      BY <1>4, <2>1
  <1>8. request'[g] # None /\ request'[g].kind = "List" /\ request'[g].n = asked + 1
    BY <1>4, <1>7, SessionAssumption
  <1> QED
    BY <1>1, <1>4, <1>5, <1>6, <1>8, Unanswered

LEMMA RoomsAsk ==
    ASSUME Session, ~mixed, ~mixed', NEW g \in Goroutines, NEW kind \in Kinds, Ask(g, kind)
    PROVE  Rooms'
  <1> USE DEF Session
  <1>1. /\ window = "rooms" /\ Asks(g, kind, asked) /\ asked < MaxRequests
        /\ UNCHANGED <<joined, handler, member, replying, down>>
        /\ \A h \in Goroutines : request[h] = None
    BY DEF Ask, server
  <1>2. /\ request'[g] = [kind |-> kind, n |-> asked + 1]
        /\ \A h \in Goroutines \ {g} : request'[h] = None
    BY <1>1, AsksIt
  <1>3. /\ joined = None /\ down = <<>>
        /\ handler = "reads" => up = <<>> /\ member = None /\ replying = None
    BY <1>1 DEF Conversation, Rooms, Idle
  <1>4. handler = "reads" => up' = <<Msg(kind, TRUE, asked + 1)>>
    BY <1>1, <1>3, Sent DEF Asks
  <1>5. request'[g] \in [kind : Kinds, n : Requests]
    <2>1. asked + 1 \in Requests
      BY <1>1, SessionAssumption DEF TypeOK, Requests
    <2> QED
      BY <1>2, <2>1
  <1>6. request'[g] # None /\ request'[g].kind = kind /\ request'[g].n = asked + 1
    BY <1>2, <1>5, SessionAssumption
  <1> QED
    BY <1>1, <1>2, <1>3, <1>4, <1>6, Unanswered

LEMMA RoomsTakes ==
    ASSUME Session, ~mixed, window = "rooms",
           HandleListRooms \/ HandleCreateRoom \/ HandleJoinRoom
    PROVE  Rooms'
  <1> USE DEF Session
  <1>0. UNCHANGED <<request, handler, joined>>
    BY DEF HandleListRooms, HandleCreateRoom, HandleJoinRoom, client, server
  <1>1. PICK type \in Kinds :
          /\ Takes(type)
          /\ \/ down' = down /\ UNCHANGED <<member, replying>>
             \/ type = "Join" /\ member' = Head(up).n /\ replying' = Head(up).n /\ down' = down
             \/ \E ok \in BOOLEAN :
                   /\ type = "Join" => ~ok /\ member' = None /\ replying' = None
                   /\ type # "Join" => UNCHANGED <<member, replying>>
                   /\ ToClient(<<Msg(type, ok, Head(up).n)>>)
    BY DEF HandleListRooms, HandleCreateRoom, HandleJoinRoom, Kinds, server
  <1>2. PICK g \in Goroutines :
          /\ request[g] \in [kind : Kinds, n : Requests]
          /\ request[g].kind = type /\ request[g].n = Head(up).n
          /\ \A h \in Goroutines \ {g} : request[h] = None
    BY <1>1, TakesTheRequest
  <1>3. /\ up' = <<>> /\ handler = "reads" /\ conn = "open" /\ down = <<>>
        /\ member = None /\ replying = None /\ joined = None
    BY <1>1, TakesTheRequest
  <1>4. request'[g] # None /\ request'[g] = request[g] /\ \A h \in Goroutines \ {g} : request'[h] = None
    BY <1>0, <1>2, SessionAssumption
  <1>5. CASE down' = down /\ UNCHANGED <<member, replying>>
    BY <1>0, <1>3, <1>4, <1>5, Unanswered
  <1>6. CASE type = "Join" /\ member' = Head(up).n /\ replying' = Head(up).n /\ down' = down
    BY <1>0, <1>2, <1>3, <1>4, <1>6, Unanswered
  <1>7. ASSUME NEW ok \in BOOLEAN,
               type = "Join" => ~ok /\ member' = None /\ replying' = None,
               type # "Join" => UNCHANGED <<member, replying>>,
               ToClient(<<Msg(type, ok, Head(up).n)>>)
        PROVE  Rooms'
    <2>1. down' = <<Msg(type, ok, Head(up).n)>>
      BY <1>3, <1>7, Sent
    <2>2. down' # <<>> /\ Tail(down') = <<>> /\ Head(down') = Msg(type, ok, Head(up).n)
      BY <2>1, OneMessage
    <2>3. Head(down').type = type /\ Head(down').ok = ok /\ Head(down').n = Head(up).n
      BY <2>2 DEF Msg
    <2>4. member' = None /\ replying' = None
      BY <1>3, <1>7
    <2> QED
      BY <1>0, <1>2, <1>3, <1>4, <1>7, <2>2, <2>3, <2>4, Answered
  <1> QED
    BY <1>1, <1>5, <1>6, <1>7

LEMMA RoomsUnserved ==
    ASSUME Rooms, handler' # "reads", UNCHANGED <<request, joined, down>>
    PROVE  Rooms'
  <1>1. ASSUME NEW g \in Goroutines, Asking(g) PROVE Asking(g)'
    BY <1>1 DEF Asking
  <1> QED
    BY <1>1 DEF Rooms, Idle

LEMMA RoomsUnchanged ==
    ASSUME Rooms, UNCHANGED <<request, joined, down, up, handler, member, replying>>
    PROVE  Rooms'
  <1>1. ASSUME NEW g \in Goroutines, Asking(g) PROVE Asking(g)'
    BY <1>1 DEF Asking
  <1> QED
    BY <1>1 DEF Rooms, Idle

LEMMA RoomsRespond ==
    ASSUME Session, ~mixed, window = "rooms", Respond
    PROVE  Rooms'
  <1> USE DEF Session
  <1>1. /\ replying # None /\ replying' = None
        /\ UNCHANGED <<request, joined, handler, up, member>>
        /\ ToClient(<<Msg("Join", TRUE, replying), Plain("Update")>>)
        /\ conn = "open"
    BY DEF Respond, client, Windows
  <1>2. CASE handler # "reads"
    BY <1>1, <1>2, RoomsUnserved DEF Conversation, ToClient
  <1>3. CASE handler = "reads"
    <2>1. PICK g \in Goroutines : request[g] # None
      BY <1>1, <1>3 DEF Conversation, Rooms, Idle
    <2>2. Asking(g) /\ joined = None /\ \A h \in Goroutines \ {g} : request[h] = None
      BY <2>1, TheRequest
    <2>3. /\ down = <<>> /\ up = <<>> /\ request[g].kind = "Join"
          /\ member = request[g].n /\ replying = request[g].n
      BY <1>1, <1>3, <2>2 DEF Asking
    <2>4. Msg("Join", TRUE, replying) \in DownMessages /\ Plain("Update") \in DownMessages
      BY DownIs DEF TypeOK, Kinds
    <2>5. down' = <<Msg("Join", TRUE, replying), Plain("Update")>>
      BY <1>1, <1>3, <2>3, <2>4, OneOrTwo, HeadConcat DEF ToClient, TypeOK
    <2>6. down' # <<>> /\ Head(down') = Msg("Join", TRUE, replying)
      BY <2>5
    <2>7. Head(down').type = "Join" /\ Head(down').ok /\ Head(down').n = replying
      BY <2>6 DEF Msg
    <2> QED
      BY <1>1, <2>1, <2>2, <2>3, <2>6, <2>7, Answered
  <1> QED
    BY <1>2, <1>3

LEMMA RoomsOthersWrite ==
    ASSUME Session, ~mixed, ~mixed', window = "rooms", OthersWrite
    PROVE  Rooms'
  <1> USE DEF Session
  <1>1. /\ member # None /\ handler = "reads" /\ conn = "open" /\ replying = None
        /\ UNCHANGED <<request, joined, handler, up, member, replying>>
        /\ ToClient(<<Plain("Update")>>)
    BY DEF OthersWrite, client, server
  <1>2. PICK g \in Goroutines : request[g] # None
    BY <1>1 DEF Conversation, Rooms, Idle
  <1>3. Asking(g) /\ joined = None /\ \A h \in Goroutines \ {g} : request[h] = None
    BY <1>2, TheRequest
  <1>4. /\ down # <<>> /\ Head(down).type = request[g].kind /\ Head(down).n = request[g].n
        /\ Head(down).ok /\ request[g].kind = "Join" /\ up = <<>> /\ member = request[g].n
    BY <1>1, <1>3 DEF Asking
  <1>5. down' # <<>> /\ Head(down') = Head(down)
    <2>1. <<Plain("Update")>> \in Seq(DownMessages)
      BY DownIs, OneOrTwo
    <2> QED
      BY <1>1, <1>4, <2>1, HeadConcat DEF ToClient, TypeOK
  <1> QED
    BY <1>1, <1>2, <1>3, <1>4, <1>5, Answered

LEMMA RoomsReply ==
    ASSUME Session, ~mixed, NEW g \in Goroutines, Reply(g), window' = "rooms"
    PROVE  Rooms'
  <1> USE DEF Session
  <1>1. /\ request[g] # None /\ (Incoming \/ Cut \/ conn = "closed")
        /\ down' = IF down = <<>> THEN down ELSE Tail(down)
        /\ UNCHANGED <<handler, member, replying>>
    BY DEF Reply, server
  <1>2. /\ window = "rooms" /\ conn = "open" /\ joined = None /\ Asking(g)
        /\ \A h \in Goroutines \ {g} : request[h] = None
        /\ request[g] \in [kind : Kinds, n : Requests]
    BY <1>1, TheRequest
  <1>3. ~(Succeeds(g) /\ request[g].kind = "Join") /\ joined' = joined
    BY <1>2 DEF Reply
  <1>4. CASE down = <<>>
    <2>1. handler = "gone" /\ ~Succeeds(g)
      BY <1>1, <1>2, <1>4 DEF Incoming, Cut, Succeeds
    <2>2. request' = [request EXCEPT ![g] = None]
      BY <2>1 DEF Reply
    <2>3. Idle'
      BY <1>2, <2>2 DEF Idle, TypeOK
    <2> QED
      BY <1>1, <1>2, <1>3, <1>4, <2>1, <2>3, AtRest
  <1>5. CASE down # <<>>
    <2>1. Incoming
      BY <1>1, <1>2, <1>5 DEF Incoming, Cut
    <2>2. /\ Head(down).type = request[g].kind
          /\ (Head(down).ok /\ request[g].kind = "Join") \/ Tail(down) = <<>>
          /\ handler = "reads" =>
                /\ up = <<>> /\ replying = None
                /\ member = IF Head(down).ok /\ request[g].kind = "Join" THEN request[g].n ELSE None
      BY <1>2, <1>5 DEF Asking
    <2>3. ~(Head(down).ok /\ request[g].kind = "Join")
      BY <1>1, <1>3, <2>1, <2>2 DEF Succeeds
    <2>4. /\ down' = <<>>
          /\ handler' = "reads" => up = <<>> /\ replying' = None /\ member' = None
      BY <1>1, <1>5, <2>2, <2>3
    <2>5. CASE Asks(g, "List", asked) /\ asked < MaxRequests
      <3>1. /\ request'[g] = [kind |-> "List", n |-> asked + 1]
            /\ \A h \in Goroutines \ {g} : request'[h] = None
        BY <1>2, <2>5, AsksIt
      <3>2. request'[g] \in [kind : Kinds, n : Requests]
        <4>1. asked + 1 \in Requests /\ "List" \in Kinds
          BY <2>5, SessionAssumption DEF TypeOK, Requests, Kinds
        <4> QED
          BY <3>1, <4>1
      <3>3. request'[g] # None /\ request'[g].kind = "List" /\ request'[g].n = asked + 1
        BY <3>1, <3>2, SessionAssumption
      <3>4. handler' = "reads" => up' = <<Msg("List", TRUE, asked + 1)>>
        BY <1>1, <2>4, <2>5, Sent DEF Asks
      <3> QED
        BY <1>2, <1>3, <2>4, <3>1, <3>3, <3>4, Unanswered
    <2>6. CASE request' = [request EXCEPT ![g] = None] /\ UNCHANGED <<asked, up>>
      <3>1. Idle'
        BY <1>2, <2>6 DEF Idle, TypeOK
      <3> QED
        BY <1>2, <1>3, <2>4, <2>6, <3>1, AtRest
    <2> QED
      BY <2>5, <2>6 DEF Reply
  <1> QED
    BY <1>4, <1>5

LEMMA RoomsStep ==
    ASSUME Session, [Next]_vars, ~mixed', window' = "rooms"
    PROVE  Rooms'
  <1> USE DEF Session
  <1>0. ~mixed
    BY NeverBack
  <1>1. CASE Authenticated
    BY <1>0, <1>1, RoomsAuthenticated
  <1>2. CASE \E g \in Goroutines : Reply(g)
    BY <1>0, <1>2, RoomsReply
  <1>3. CASE \E g \in Goroutines, kind \in Kinds : Ask(g, kind)
    BY <1>0, <1>3, RoomsAsk
  <1>4. CASE Connect \/ OpenMain \/ Disconnect \/ Exit
    BY <1>4 DEF Connect, OpenMain, Disconnect, Exit
  <1>5. CASE window = "rooms"
    <2>0. Rooms
      BY <1>0, <1>5 DEF Conversation
    <2>1. CASE HandleListRooms \/ HandleCreateRoom \/ HandleJoinRoom
      BY <1>0, <1>5, <2>1, RoomsTakes
    <2>2. CASE Respond
      BY <1>0, <1>5, <2>2, RoomsRespond
    <2>3. CASE OthersWrite
      BY <1>0, <1>5, <2>3, RoomsOthersWrite
    <2>4. CASE HandleDisconnect \/ Check
      BY <2>0, <2>4, RoomsUnserved, RoomsUnchanged DEF HandleDisconnect, Check, client
    <2>5. ~HandleAuth /\ ~Relay /\ ~HandlePing /\ ~HandleLeave
      BY <1>0, <1>5, TakesTheRequest DEF HandleAuth, Relay, HandlePing, HandleLeave,
         Kinds
    <2>6. ~Receive /\ ~Ping /\ ~SendPacket
      BY <1>0, <1>5 DEF Receive, Ping, SendPacket, Windows
    <2>7. CASE StopReceiving \/ StopPinging \/ Tick \/ Outage \/ Recovery \/ UNCHANGED vars
      BY <2>0, <2>7, RoomsUnchanged DEF StopReceiving, StopPinging, Tick, Outage,
         Recovery, client, server, vars
    <2> QED
      BY <1>1, <1>2, <1>3, <1>4, <2>1, <2>2, <2>3, <2>4, <2>5, <2>6, <2>7 DEF Next,
         Prompt, Serve
  <1>6. CASE window' = window
    BY <1>5, <1>6
  <1> QED
    BY <1>1, <1>2, <1>3, <1>4, <1>6 DEF Next, Prompt, Serve, Receive, StopReceiving,
       Ping, StopPinging, HandleAuth, HandleListRooms, HandleCreateRoom,
       HandleJoinRoom, Respond, Relay, HandlePing, HandleLeave, HandleDisconnect,
       Check, Tick, Outage, Recovery, SendPacket, OthersWrite, client, vars

LEMMA JoinedStep ==
    ASSUME Session, [Next]_vars, ~mixed', window' \in {"joined", "main"}, handler' = "reads"
    PROVE  Joined'
  <1> USE DEF Session
  <1>0. ~mixed
    BY NeverBack
  <1>1. ASSUME NEW g \in Goroutines, Reply(g) PROVE Joined'
    <2>1. request[g] # None /\ UNCHANGED <<handler, member, replying>>
      BY <1>1 DEF Reply, server
    <2>2. window = "rooms" /\ Asking(g)
      BY <1>0, <2>1, TheRequest
    <2>3. Succeeds(g) /\ request[g].kind = "Join" /\ joined' = Head(down).n /\ up' = up
      BY <1>1, <2>2 DEF Reply
    <2>4. member = joined' /\ replying = None /\ up = <<>>
      BY <2>1, <2>2, <2>3 DEF Asking, Succeeds, Incoming
    <2> QED
      BY <2>1, <2>3, <2>4, Empty DEF Joined
  <1>2. CASE window \in {"joined", "main"} /\ handler = "reads"
    <2>0. Joined /\ Idle
      BY <1>0, <1>2 DEF Conversation
    <2>1. \A t : Takes(t) => t \notin Kinds \cup {"Auth", "Leave"}
      BY <2>0, HasTail DEF Joined, Takes, TypeOK
    <2>2. ASSUME NEW t \in {"Data", "Offer", "Ping"}, ToServer(Plain(t)) \/ up' = up,
                 UNCHANGED <<member, joined, replying>>
          PROVE  Joined'
      <3>1. Plain(t) \in UpMessages /\ Plain(t).type = t
        BY UpIs
      <3>2. \A k \in Kinds \cup {"Auth", "Leave"} : k # t
        BY DEF Kinds
      <3>3. \A k \in Kinds \cup {"Auth", "Leave"} : ~Has(up', k)
        <4>1. up' = up \/ up' = Append(up, Plain(t))
          BY <2>2 DEF ToServer
        <4>2. \A k : Has(Append(up, Plain(t)), k) <=> Has(up, k) \/ t = k
          BY <3>1, HasAppend DEF TypeOK
        <4> QED
          BY <2>0, <3>2, <4>1, <4>2 DEF Joined
      <3> QED
        BY <2>0, <2>2, <3>3 DEF Joined
    <2>3. CASE OpenMain \/ SendPacket \/ Ping
      BY <2>2, <2>3 DEF OpenMain, SendPacket, Ping, client, server
    <2>4. CASE Relay \/ HandlePing
      <3>1. up # <<>> /\ up' = Tail(up) /\ UNCHANGED <<member, joined, replying>>
        BY <2>4 DEF Relay, HandlePing, Takes, client, server
      <3> QED
        BY <2>0, <3>1, HasTail DEF Joined, TypeOK
    <2>5. ~HandleAuth /\ ~HandleListRooms /\ ~HandleCreateRoom /\ ~HandleJoinRoom /\ ~HandleLeave
          /\ ~Respond /\ ~HandleDisconnect
      BY <2>0, <2>1 DEF HandleAuth, HandleListRooms, HandleCreateRoom, HandleJoinRoom,
         HandleLeave, Respond, HandleDisconnect, Kinds, Joined
    <2>6. ~Authenticated /\ ~Connect /\ ~Disconnect /\ ~Exit
          /\ (\A g \in Goroutines : ~Reply(g)) /\ (\A g \in Goroutines, kind \in Kinds : ~Ask(g, kind))
      BY <1>2, <2>0 DEF Authenticated, Connect, Disconnect, Exit, Reply, Ask, Idle
    <2>7. CASE Receive \/ StopReceiving \/ StopPinging \/ Check \/ Tick \/ Outage \/ Recovery
               \/ OthersWrite \/ UNCHANGED vars
      <3>1. UNCHANGED <<up, member, joined, replying>>
        BY <2>7 DEF Receive, StopReceiving, StopPinging, Check, Tick, Outage, Recovery,
           OthersWrite, client, server, vars
      <3> QED
        BY <2>0, <3>1 DEF Joined
    <2> QED
      BY <2>3, <2>4, <2>5, <2>6, <2>7 DEF Next, Prompt, Serve
  <1>3. CASE window \in {"joined", "main"} /\ handler # "reads"
    BY <1>3, NeverBack DEF Connect
  <1>4. CASE window \notin {"joined", "main"}
    <2>1. \E g \in Goroutines : Reply(g)
      BY <1>4 DEF Next, Prompt, Serve, Authenticated, Receive, StopReceiving, Ping,
         StopPinging, HandleAuth, HandleListRooms, HandleCreateRoom, HandleJoinRoom,
         Respond, Relay, HandlePing, HandleLeave, HandleDisconnect, Check, Tick,
         Outage, Recovery, Connect, OpenMain, SendPacket, Disconnect, Exit,
         OthersWrite, Ask, client, vars
    <2> QED
      BY <1>1, <2>1
  <1> QED
    BY <1>2, <1>3, <1>4

LEMMA SessionStep == Session /\ [Next]_vars => Session'
  <1> SUFFICES ASSUME Session, [Next]_vars PROVE Session'
    OBVIOUS
  <1>1. TypeOK' /\ Windows' /\ LoggingIn' /\ AuthOnce' /\ Silence'
    BY TypeStep, WindowsStep, LoggingInStep, AuthStep, SilenceStep DEF Session
  <1>2. ASSUME ~mixed'
        PROVE  /\ \A g, h \in Goroutines : request'[g] # None /\ request'[h] # None => g = h
               /\ window' \notin {"connecting", "rooms"} => Idle'
    BY <1>2, OneAtATime
  <1>3. Conversation'
    BY <1>2, RoomsStep, JoinedStep DEF Conversation
  <1> QED
    BY <1>1, <1>3 DEF Session

LEMMA SessionInit == Init => Session
  <1> SUFFICES ASSUME Init PROVE Session
    OBVIOUS
  <1>0. 0 \in 0..ReadTimeout /\ 0 \in 0..PingEvery /\ 0 \in 0..MaxRequests /\ 0 \in Nat
        /\ checkIn \in 0..CheckEvery
    BY SessionAssumption DEF Init
  <1>1. request \in [Goroutines -> [kind : Kinds, n : Requests] \cup {None}]
    BY DEF Init
  <1>2. TypeOK
    BY <1>0, <1>1, EmptySeq DEF Init, TypeOK, Numbers
  <1>3. Idle
    BY DEF Init, Idle
  <1>4. Windows /\ LoggingIn /\ AuthOnce /\ Silence
    BY <1>3, Empty DEF Init, Windows, LoggingIn, AuthOnce, Silence
  <1>5. Conversation
    BY <1>3 DEF Init, Conversation, Idle
  <1> QED
    BY <1>2, <1>4, <1>5 DEF Session

(* Every variable has its type in every behaviour.                         *)
THEOREM SessionTyped == Spec => []TypeOK
  <1>1. Session => TypeOK
    BY DEF Session
  <1> QED
    BY <1>1, SessionInit, SessionStep, PTL DEF Spec

(* The server forgets a client within PingTimeout and CheckEvery of its    *)
(* last ping, whatever it sends otherwise (server.go:861).                 *)
THEOREM TheSilentAreForgotten == Spec => []SilentIsForgotten
  <1>1. Session => SilentIsForgotten
    BY DEF Session, Silence, SilentIsForgotten
  <1> QED
    BY <1>1, SessionInit, SessionStep, PTL DEF Spec

(* With one request at a time, client and server agree on the room and the *)
(* address whenever none is under way (client.go:306, server.go:488).      *)
THEOREM SessionsAgree == Spec => []SessionAgrees
  <1>1. Session => SessionAgrees
    <2> SUFFICES ASSUME Session, handler = "reads", window \in {"rooms", "joined", "main"}, Idle, ~mixed
                 PROVE  member = joined
      BY DEF SessionAgrees
    <2> QED
      BY DEF Session, Conversation, Rooms, Joined
  <1> QED
    BY <1>1, SessionInit, SessionStep, PTL DEF Spec

(* With one request at a time, one that succeeds has read its own reply    *)
(* (client.go:219).                                                        *)
THEOREM OwnReply == Spec => RepliesMatch
  <1>1. Session /\ [Next]_vars =>
          [\A g \in Goroutines :
              Succeeds(g) /\ request'[g] # request[g] => mixed \/ Head(down).n = request[g].n]_vars
    <2> SUFFICES ASSUME Session, NEW g \in Goroutines, Succeeds(g), ~mixed
                 PROVE  Head(down).n = request[g].n
      OBVIOUS
    <2>1. request[g] # None /\ Incoming
      BY DEF Succeeds
    <2>2. Asking(g)
      BY <2>1, TheRequest
    <2> QED
      BY <2>1, <2>2 DEF Asking, Incoming
  <1> QED
    BY <1>1, SessionInit, SessionStep, PTL DEF Spec, RepliesMatch

-----------------------------------------------------------------------------
(* A client that works is kept.                                            *)

(* This needs that pings come often enough for the client's deadline.      *)
LEMMA NoStop ==
    ASSUME Session, Looping, PingsInTime, conn = "open", handler = "reads"
    PROVE  ~StopReceiving /\ ~StopPinging
  <1>1. heard # ReadTimeout
    BY SessionAssumption DEF Session, TypeOK, Looping, PingsInTime
  <1> QED
    BY <1>1 DEF StopReceiving, StopPinging, Cut, Looping

LEMMA InMain ==
    ASSUME Session, Alive, [Next]_vars, PingsInTime, ~mixed, net = "live", net' = "live",
           window = "main", handler = "reads"
    PROVE  \/ Receive \/ Ping \/ Relay \/ HandlePing \/ HandleDisconnect \/ Check \/ Tick
           \/ SendPacket \/ Disconnect \/ Exit \/ OthersWrite \/ UNCHANGED vars
  <1> USE DEF Session
  <1>1. Looping /\ Joined /\ Idle /\ conn = "open"
    BY DEF Alive, Conversation, Windows
  <1>2. \A t : Takes(t) => t \notin Kinds \cup {"Auth", "Leave"}
    BY <1>1, HasTail DEF Joined, Takes, TypeOK
  <1>3. ~HandleAuth /\ ~HandleListRooms /\ ~HandleCreateRoom /\ ~HandleJoinRoom /\ ~HandleLeave /\ ~Respond
    BY <1>1, <1>2 DEF HandleAuth, HandleListRooms, HandleCreateRoom, HandleJoinRoom,
       HandleLeave, Respond, Kinds, Joined
  <1>4. ~Authenticated /\ ~Connect /\ ~OpenMain /\ ~Outage /\ ~Recovery
        /\ (\A g \in Goroutines : ~Reply(g)) /\ (\A g \in Goroutines, kind \in Kinds : ~Ask(g, kind))
    BY <1>1 DEF Authenticated, Connect, OpenMain, Outage, Recovery, Reply, Ask, Idle
  <1> QED
    BY <1>1, <1>3, <1>4, NoStop DEF Next, Prompt, Serve

(* When time passes in the main window nothing is under way.               *)
LEMMA TickInMain ==
    ASSUME Session, Looping, Tick, net = "live", conn = "open", handler = "reads"
    PROVE  /\ up = <<>> /\ down = <<>> /\ ~Has(up, "Ping")
           /\ pingIn \in Nat \ {0} /\ pingIn' = pingIn - 1
           /\ heard' = heard + 1 /\ read' = read + 1 /\ lastPing' \in {lastPing + 1, 0}
           /\ UNCHANGED <<client, server, net, up, down, pinged>>
  <1>1. up = <<>> /\ down = <<>> /\ pingIn # 0
    BY DEF Tick, Busy, Looping, Incoming, Connected
  <1>2. pingIn \in Nat \ {0}
    BY <1>1 DEF Session, TypeOK
  <1> QED
    BY <1>1, <1>2, Empty DEF Tick, Older, Looping

LEMMA Durations ==
    ASSUME Session
    PROVE  /\ PingEvery \in Nat /\ ReadTimeout \in Nat /\ PingTimeout \in Nat
           /\ heard \in Nat /\ read \in Nat /\ lastPing \in Nat /\ pingIn \in 0..PingEvery
  BY SessionAssumption DEF Session, TypeOK

LEMMA NewPing ==
    ASSUME up \in Seq(UpMessages), ToServer(Plain("Ping")), handler = "reads"
    PROVE  Has(up', "Ping")
  <1>1. up' = Append(up, Plain("Ping")) /\ Plain("Ping") \in UpMessages /\ Plain("Ping").type = "Ping"
    BY UpIs DEF ToServer
  <1> QED
    BY <1>1, HasAppend

LEMMA PingStays ==
    ASSUME up \in Seq(UpMessages), Has(up, "Ping"), handler = "reads",
           SendPacket \/ Ping \/ Relay
    PROVE  Has(up', "Ping")
  <1>1. CASE SendPacket \/ Ping
    <2>1. Plain("Data") \in UpMessages /\ Plain("Ping") \in UpMessages
      BY UpIs
    <2> QED
      BY <1>1, <2>1, HasAppend DEF SendPacket, Ping, ToServer
  <1>2. CASE Relay
    BY <1>2, HasTail DEF Relay, Takes
  <1> QED
    BY <1>1, <1>2

LEMMA LoopingStep ==
    ASSUME Session, Alive, [Next]_vars, PingsInTime, ~mixed', net' = "live", handler' = "reads",
           window' = "main"
    PROVE  Looping'
  <1> USE DEF Session
  <1>0. ~mixed /\ net = "live"
    BY NeverBack
  <1>1. CASE OpenMain
    <2>1. loop' /\ pinging' /\ ~done' /\ heard' = 0 /\ pingIn' = PingEvery
      BY <1>0, <1>1 DEF OpenMain, Windows
    <2>2. heard' <= PingEvery /\ heard' + pingIn' <= PingEvery
      BY <2>1, Durations
    <2> QED
      BY <2>1, <2>2 DEF Looping
  <1>2. CASE window = "main" /\ handler = "reads"
    <2>0. Looping /\ conn = "open"
      BY <1>0, <1>2 DEF Alive, Windows
    <2>1. CASE Receive
      <3>1. heard' = 0 /\ UNCHANGED <<loop, pinging, done, pingIn>>
        BY <2>1 DEF Receive, client
      <3>2. heard' <= PingEvery /\ heard' + pingIn' <= PingEvery
        BY <3>1, Durations
      <3> QED
        BY <2>0, <3>1, <3>2 DEF Looping
    <2>2. CASE Ping
      BY <1>2, <2>0, <2>2, NewPing DEF Ping, Looping, client, TypeOK
    <2>3. CASE SendPacket \/ Relay
      <3>1. UNCHANGED <<loop, pinging, done, heard, pingIn, down>>
        BY <2>3 DEF SendPacket, Relay, client, clocks
      <3> QED
        BY <1>2, <2>0, <2>3, <3>1, PingStays DEF Looping, TypeOK
    <2>4. CASE HandlePing \/ OthersWrite
      <3>1. UNCHANGED <<loop, pinging, done, heard, pingIn>>
        BY <2>4 DEF HandlePing, OthersWrite, client, clocks
      <3>2. <<Plain("Pong")>> \in Seq(DownMessages) /\ <<Plain("Update")>> \in Seq(DownMessages)
        BY DownIs, OneOrTwo
      <3>3. down' = down \o <<Plain("Pong")>> \/ down' = down \o <<Plain("Update")>>
        BY <1>2, <2>0, <2>4 DEF HandlePing, OthersWrite, ToClient
      <3>4. down' # <<>>
        BY <3>2, <3>3, ConcatEqualIffEmpty, OneMessage DEF TypeOK
      <3> QED
        BY <2>0, <3>1, <3>4 DEF Looping
    <2>5. CASE Tick
      <3>1. /\ heard + pingIn <= PingEvery /\ pingIn \in Nat \ {0}
            /\ heard' = heard + 1 /\ pingIn' = pingIn - 1
            /\ UNCHANGED <<loop, pinging, done>>
        BY <1>0, <1>2, <2>0, <2>5, TickInMain DEF Looping, client
      <3>2. heard' <= PingEvery /\ heard' + pingIn' <= PingEvery
        BY <3>1, Durations
      <3> QED
        BY <2>0, <3>1, <3>2 DEF Looping
    <2>6. CASE Check \/ UNCHANGED vars
      <3>1. UNCHANGED <<loop, pinging, done, heard, pingIn, up, down>>
        BY <2>6 DEF Check, client, vars, clocks
      <3> QED
        BY <2>0, <3>1 DEF Looping
    <2>7. ~HandleDisconnect /\ ~Disconnect /\ ~Exit
      BY DEF HandleDisconnect, Disconnect, Exit
    <2> QED
      BY <1>0, <1>2, <2>1, <2>2, <2>3, <2>4, <2>5, <2>6, <2>7, InMain
  <1>3. ~Connect
    BY DEF Connect
  <1> QED
    BY <1>1, <1>2, <1>3, NeverBack

LEMMA PingingStep ==
    ASSUME Session, Alive, [Next]_vars, PingsInTime, ~mixed', net' = "live", conn' = "open",
           pinged'
    PROVE  Pinging'
  <1> USE DEF Session
  <1>0. ~mixed /\ net = "live"
    BY NeverBack
  <1>1. CASE HandlePing
    <2>1. /\ handler = "reads" /\ conn = "open" /\ Has(up, "Ping")
          /\ lastPing' = 0 /\ read' = 0 /\ UNCHANGED <<handler, window, pingIn>>
      BY <1>1, HasTail DEF HandlePing, Takes, TypeOK, client, server
    <2>2. window = "main"
      BY <1>0, <2>1 DEF Alive
    <2>3. 0 <= PingEvery /\ 0 + pingIn <= PingEvery
      BY Durations
    <2> QED
      BY <2>1, <2>2, <2>3 DEF Pinging, Fresh
  <1>2. CASE pinged /\ conn = "open"
    <2>0. /\ Looping /\ window = "main" /\ handler = "reads"
          /\ lastPing <= PingEvery /\ (lastPing + pingIn <= PingEvery \/ Has(up, "Ping"))
          /\ read <= PingEvery /\ (read + pingIn <= PingEvery \/ Has(up, "Ping"))
      BY <1>0, <1>2 DEF Alive, Pinging, Fresh
    <2>1. CASE Receive \/ OthersWrite \/ UNCHANGED vars
      <3>1. UNCHANGED <<window, handler, lastPing, read, pingIn, up>>
        BY <2>1 DEF Receive, OthersWrite, client, server, clocks, vars
      <3> QED
        BY <2>0, <3>1 DEF Pinging, Fresh
    <2>2. CASE Ping
      <3>1. Has(up', "Ping") /\ UNCHANGED <<window, handler, lastPing, read>>
        BY <2>0, <2>2, NewPing DEF Ping, client, server, TypeOK
      <3> QED
        BY <2>0, <3>1 DEF Pinging, Fresh
    <2>3. CASE SendPacket
      <3>1. UNCHANGED <<window, handler, lastPing, read, pingIn>>
        BY <2>3 DEF SendPacket, client, server, clocks
      <3> QED
        BY <2>0, <2>3, <3>1, PingStays DEF Pinging, Fresh, TypeOK
    <2>4. CASE Relay
      <3>1. UNCHANGED <<window, handler, lastPing, pingIn>> /\ read' = 0
        BY <2>4 DEF Relay, client, server, Takes
      <3>2. 0 <= PingEvery /\ 0 + pingIn <= PingEvery
        BY Durations
      <3> QED
        BY <2>0, <2>4, <3>1, <3>2, PingStays DEF Pinging, Fresh, TypeOK
    <2>5. CASE Tick
      <3>1. /\ pingIn \in Nat \ {0} /\ pingIn' = pingIn - 1 /\ ~Has(up, "Ping")
            /\ read' = read + 1 /\ lastPing' \in {lastPing + 1, 0}
            /\ UNCHANGED <<window, handler, up>>
        BY <1>0, <1>2, <2>0, <2>5, TickInMain DEF client, server
      <3>2. lastPing' <= PingEvery /\ lastPing' + pingIn' <= PingEvery
        BY <2>0, <3>1, Durations
      <3>3. read' <= PingEvery /\ read' + pingIn' <= PingEvery
        BY <2>0, <3>1, Durations
      <3> QED
        BY <2>0, <3>1, <3>2, <3>3 DEF Pinging, Fresh
    <2>6. CASE Check
      <3>1. ~(lastPing > PingTimeout)
        BY <2>0, Durations DEF PingsInTime
      <3>2. UNCHANGED <<window, handler, lastPing, read, pingIn, up>>
        BY <2>6, <3>1 DEF Check, client
      <3> QED
        BY <2>0, <3>2 DEF Pinging, Fresh
    <2>7. ~HandleDisconnect
      <3>1. read # ReadTimeout
        BY <2>0, Durations DEF PingsInTime
      <3> QED
        BY <1>2, <2>0, <3>1 DEF HandleDisconnect, ReadFails
    <2>8. ~Disconnect /\ ~Exit
      BY <2>0 DEF Disconnect, Exit, Looping
    <2> QED
      BY <1>0, <1>1, <2>0, <2>1, <2>2, <2>3, <2>4, <2>5, <2>6, <2>7, <2>8, InMain
  <1>3. CASE Connect
    BY <1>3 DEF Connect, LoggingIn
  <1>4. HandlePing \/ pinged
    BY DEF Next, Prompt, Serve, Authenticated, Receive, StopReceiving, Ping,
       StopPinging, HandleAuth, HandleListRooms, HandleCreateRoom, HandleJoinRoom,
       Respond, Relay, HandleLeave, HandleDisconnect, Check, Reply, Tick, Outage,
       Recovery, Connect, OpenMain, SendPacket, Disconnect, Exit, OthersWrite, Ask,
       vars
  <1> QED
    BY <1>1, <1>2, <1>3, <1>4, NeverBack

(* Who closes the window also closes the connection, unless done is        *)
(* closed already, which it is not while the network works.                *)
LEMMA ClosedStep ==
    ASSUME Session, Alive, [Next]_vars, ~mixed', net' = "live", conn' = "open", handler' = "reads"
    PROVE  window' # "closed"
  <1> USE DEF Session
  <1>0. ~mixed /\ net = "live"
    BY NeverBack
  <1>1. Connect \/ (conn = "open" /\ handler = "reads")
    BY NeverBack
  <1>2. CASE Connect
    BY <1>2 DEF Connect
  <1>3. CASE Disconnect
    BY <1>0, <1>1, <1>2, <1>3 DEF Disconnect, Alive, Looping
  <1>4. CASE window' = window \/ window' # "closed"
    BY <1>0, <1>1, <1>2, <1>4 DEF Alive
  <1> QED
    BY <1>3, <1>4 DEF Next, Prompt, Serve, Authenticated, Receive, StopReceiving, Ping,
       StopPinging, HandleAuth, HandleListRooms, HandleCreateRoom, HandleJoinRoom,
       Respond, Relay, HandlePing, HandleLeave, HandleDisconnect, Check, Reply, Tick,
       Outage, Recovery, Connect, OpenMain, SendPacket, Exit, OthersWrite, Ask, client,
       vars

LEMMA PingsFromMain ==
    ASSUME Session, Alive, [Next]_vars, ~mixed', Has(up', "Ping")
    PROVE  window' \in {"main", "closed"}
  <1> USE DEF Session
  <1>0. ~mixed
    BY NeverBack
  <1>1. CASE Ping
    BY <1>0, <1>1 DEF Ping, Windows, TypeOK, client
  <1>2. CASE Has(up, "Ping")
    <2>1. window \in {"main", "closed"} /\ Idle
      BY <1>0, <1>2 DEF Alive, Conversation
    <2>2. ~Connect /\ ~Authenticated /\ ~OpenMain
          /\ (\A g \in Goroutines : ~Reply(g)) /\ (\A g \in Goroutines, kind \in Kinds : ~Ask(g, kind))
      BY <2>1 DEF Connect, Authenticated, OpenMain, Reply, Ask, Idle
    <2> QED
      BY <2>1, <2>2 DEF Next, Prompt, Serve, Receive, StopReceiving, Ping, StopPinging,
         HandleAuth, HandleListRooms, HandleCreateRoom, HandleJoinRoom, Respond, Relay,
         HandlePing, HandleLeave, HandleDisconnect, Check, Tick, Outage, Recovery,
         SendPacket, Disconnect, Exit, OthersWrite, client, vars
  <1>3. CASE Connect
    <2>1. up' = <<Plain("Auth")>> /\ Plain("Auth").type = "Auth"
      BY <1>3, UpIs DEF Connect
    <2> QED
      BY <2>1 DEF Has
  <1>4. CASE ~Has(up, "Ping") /\ ~Ping /\ ~Connect
    <2>1. ASSUME NEW m \in UpMessages, m.type = "Ping" => Ping, up' = Append(up, m)
          PROVE  FALSE
      BY <1>4, <2>1, HasAppend DEF TypeOK
    <2>2. ASSUME up # <<>>, up' = Tail(up) PROVE FALSE
      BY <1>4, <2>2, HasTail DEF TypeOK
    <2> QED
      BY <1>4, <2>1, <2>2, UpStep, Empty
  <1> QED
    BY <1>1, <1>2, <1>3, <1>4

LEMMA AliveStep == PingsInTime /\ Session /\ Alive /\ [Next]_vars => Alive'
  <1> SUFFICES ASSUME PingsInTime, Session, Alive, [Next]_vars, ~mixed' PROVE Alive'
    BY DEF Alive
  <1>1. Has(up', "Ping") => window' \in {"main", "closed"}
    BY PingsFromMain
  <1>2. net' = "live" /\ conn' = "open" /\ handler' = "reads" => window' # "closed"
    BY ClosedStep
  <1>3. net' = "live" /\ handler' = "reads" /\ window' = "main" => Looping'
    BY LoopingStep
  <1>4. net' = "live" /\ conn' = "open" /\ pinged' => Pinging'
    BY PingingStep
  <1> QED
    BY <1>1, <1>2, <1>3, <1>4 DEF Alive

(* If pings come more often than either end gives up, then with one        *)
(* request at a time a client whose network is up and whose first ping was *)
(* handled is served until it closes the connection (server.go:174, :861,  *)
(* client.go:458).                                                         *)
THEOREM TheLiveAreKept ==
    ASSUME PingsInTime
    PROVE  Spec => []LiveIsKept
  <1>1. Init => Alive
    BY Empty DEF Init, Alive
  <1>2. Session /\ Alive /\ [Next]_vars => Alive'
    BY AliveStep
  <1>3. Alive => LiveIsKept
    BY DEF Alive, Pinging, LiveIsKept
  <1> QED
    BY <1>1, <1>2, <1>3, SessionInit, SessionStep, PTL DEF Spec
=============================================================================
