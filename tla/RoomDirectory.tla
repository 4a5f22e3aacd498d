--------------------------- MODULE RoomDirectory ---------------------------
(***************************************************************************)
(* The rooms and users the server knows: s.rooms of                        *)
(* internal/server/server.go, the tables behind pkg/store/store.go, and    *)
(* the handlers that check, add and persist, with restarts of the server   *)
(* between any two of their steps.                                         *)
(*                                                                         *)
(* A step is one critical section of s.mu, one statement of the database   *)
(* or one reply.  A handler that refuses a request changes nothing and is  *)
(* not a step.  A room's subnet 10.100.N.0/24 is the number N, and the     *)
(* password a client gives is the client itself.                           *)
(***************************************************************************)
EXTENDS Naturals, FiniteSets

CONSTANTS
    Clients,        \* the connections that register users ...
    Creators,       \* ... and those of them that create rooms
    Names,          \* room names
    Usernames,
    Configured,     \* the rooms of the configuration file ...
    ConfiguredAs,   \* ... and what it says of them
    MaxOctet,       \* the last N that parses as an address; 255 in the code
    InsertFails,    \* may an INSERT INTO rooms fail, other than for its name?
    NoRoom,         \* no such room in s.rooms or no such row
    NoUser,         \* no such row
    NoName,         \* nothing asked for
    NoPassword      \* the empty Password of a room

RoomRecords == [subnet : 0 .. MaxOctet, password : Clients \cup {NoPassword}]

ASSUME DirectoryAssumption ==
    /\ Creators \subseteq Clients
    /\ IsFiniteSet(Names)
    /\ Configured \subseteq Names
    /\ ConfiguredAs \in [Configured -> RoomRecords]
    /\ MaxOctet \in Nat
    /\ InsertFails \in BOOLEAN
    /\ NoRoom \notin RoomRecords
    /\ NoUser \notin Clients /\ NoPassword \notin Clients

VARIABLES
    store,          \* is there a database?  Chosen by the configuration
    rooms,          \* s.rooms
    roomRows,       \* the table rooms, whose key is the name
    userRows,       \* the table users: the password of each username
    pc,             \* what the handler of each connection does next
    local,          \* the name it was asked for and the subnet it chose
    created,        \* history: the clients told that they created a room
    registered,     \* history: the clients told that they registered a name
    contested,      \* history: the rooms made while there was one, or after
                    \* another of this name was confirmed and lost
    unsaved         \* history: the rooms whose last INSERT failed

vars == <<store, rooms, roomRows, userRows, pc, local, created, registered,
          contested, unsaved>>

TypeOK ==
    /\ store \in BOOLEAN
    /\ rooms \in [Names -> RoomRecords \cup {NoRoom}]
    /\ roomRows \in [Names -> RoomRecords \cup {NoRoom}]
    /\ userRows \in [Usernames -> Clients \cup {NoUser}]
    /\ pc \in [Clients -> {"read", "build", "persist", "confirm", "insertUser", "welcome"}]
    /\ local \in [Clients -> [name : Names \cup Usernames \cup {NoName}, subnet : 0 .. MaxOctet]]
    /\ created \in [Names -> SUBSET Clients]
    /\ registered \in [Usernames -> SUBSET Clients]
    /\ contested \subseteq Names
    /\ unsaved \subseteq Names

Idle == [name |-> NoName, subnet |-> 0]

(* New: the rows of the database, then the configured rooms it has not.    *)
(* The password of a row stays in the database.                            *)
Loaded(rows) ==
    [n \in Names |->
        IF store /\ rows[n] # NoRoom THEN [rows[n] EXCEPT !.password = NoPassword]
        ELSE IF n \in Configured THEN ConfiguredAs[n]
        ELSE NoRoom]

Init ==
    /\ store \in BOOLEAN
    /\ roomRows = [n \in Names |-> NoRoom]
    /\ rooms = Loaded(roomRows)
    /\ userRows = [u \in Usernames |-> NoUser]
    /\ pc = [c \in Clients |-> "read"]
    /\ local = [c \in Clients |-> Idle]
    /\ created = [n \in Names |-> {}]
    /\ registered = [u \in Usernames |-> {}]
    /\ contested = {}
    /\ unsaved = {}

-----------------------------------------------------------------------------
(* handleCreateRoom.                                                       *)

Goto(c, label) == pc' = [pc EXCEPT ![c] = label]
Done(c) == Goto(c, "read") /\ local' = [local EXCEPT ![c] = Idle]

(* Under s.mu.RLock: the name is not taken.                                *)
CheckRoom(c, n) ==
    /\ c \in Creators
    /\ pc[c] = "read"
    /\ rooms[n] = NoRoom
    /\ Goto(c, "build")
    /\ local' = [local EXCEPT ![c].name = n]
    /\ UNCHANGED <<store, rooms, roomRows, userRows, created, registered, contested, unsaved>>

Present == {n \in Names : rooms[n] # NoRoom}

(* What the history has of a room that is made, and of an INSERT.          *)
Contest(n) ==
    contested' = IF rooms[n] # NoRoom \/ created[n] # {} THEN contested \cup {n} ELSE contested
Saved(n) ==
    unsaved' = IF roomRows'[n] = NoRoom THEN unsaved \cup {n} ELSE unsaved \ {n}

(* Fault: the rooms are counted from 0.                                    *)
BuildRoom_CountsFromZero(c) ==
    LET n == local[c].name
        num == Cardinality(Present)
    IN  /\ pc[c] = "build"
        /\ IF num > MaxOctet
           THEN Done(c) /\ UNCHANGED <<rooms, contested>>
           ELSE /\ Contest(n)
                /\ rooms' = [rooms EXCEPT ![n] = [subnet |-> num, password |-> c]]
                /\ local' = [local EXCEPT ![c].subnet = num]
                /\ Goto(c, IF store THEN "persist" ELSE "confirm")
        /\ UNCHANGED <<store, roomRows, userRows, created, registered, unsaved>>

(* Fault: the room is confirmed and never persisted.                       *)
BuildRoom_InMemory(c) ==
    LET n == local[c].name
        num == Cardinality(Present) + 1
    IN  /\ pc[c] = "build"
        /\ IF num > MaxOctet
           THEN Done(c) /\ UNCHANGED <<rooms, contested>>
           ELSE /\ Contest(n)
                /\ rooms' = [rooms EXCEPT ![n] = [subnet |-> num, password |-> c]]
                /\ local' = [local EXCEPT ![c].subnet = num]
                /\ Goto(c, "confirm")
        /\ UNCHANGED <<store, roomRows, userRows, created, registered, unsaved>>

(* Under s.mu.Lock: the number of rooms names the subnet and the room goes *)
(* into the map, whatever is there by now.                                 *)
BuildRoom(c) ==
    LET n == local[c].name
        num == Cardinality(Present) + 1
    IN  /\ pc[c] = "build"
        /\ IF num > MaxOctet
           THEN Done(c) /\ UNCHANGED <<rooms, contested>>
           ELSE /\ Contest(n)
                /\ rooms' = [rooms EXCEPT ![n] = [subnet |-> num, password |-> c]]
                /\ local' = [local EXCEPT ![c].subnet = num]
                /\ Goto(c, IF store THEN "persist" ELSE "confirm")
        /\ UNCHANGED <<store, roomRows, userRows, created, registered, unsaved>>

(* Fault: the subnet is computed once more for the row.                    *)
PersistRoom_CountsAgain(c) ==
    LET n == local[c].name
    IN  /\ pc[c] = "persist"
        /\ \/ /\ roomRows[n] = NoRoom
              /\ roomRows' = [roomRows EXCEPT ![n] =
                     [subnet |-> (Cardinality(Present) + 1) % (MaxOctet + 1), password |-> c]]
           \/ /\ roomRows[n] # NoRoom \/ InsertFails
              /\ UNCHANGED roomRows
        /\ Saved(n)
        /\ Goto(c, "confirm")
        /\ UNCHANGED <<store, rooms, userRows, local, created, registered, contested>>

(* Fault: the row is written without its password.                         *)
PersistRoom_NoPassword(c) ==
    LET n == local[c].name
    IN  /\ pc[c] = "persist"
        /\ \/ /\ roomRows[n] = NoRoom
              /\ roomRows' = [roomRows EXCEPT ![n] =
                                 [subnet |-> local[c].subnet, password |-> NoPassword]]
           \/ /\ roomRows[n] # NoRoom \/ InsertFails
              /\ UNCHANGED roomRows
        /\ Saved(n)
        /\ Goto(c, "confirm")
        /\ UNCHANGED <<store, rooms, userRows, local, created, registered, contested>>

(* store.CreateRoom: the name is UNIQUE.  An error is only logged.         *)
PersistRoom(c) ==
    LET n == local[c].name
    IN  /\ pc[c] = "persist"
        /\ \/ /\ roomRows[n] = NoRoom
              /\ roomRows' = [roomRows EXCEPT ![n] =
                                 [subnet |-> local[c].subnet, password |-> c]]
           \/ /\ roomRows[n] # NoRoom \/ InsertFails
              /\ UNCHANGED roomRows
        /\ Saved(n)
        /\ Goto(c, "confirm")
        /\ UNCHANGED <<store, rooms, userRows, local, created, registered, contested>>

ConfirmRoom(c) ==
    /\ pc[c] = "confirm"
    /\ created' = [created EXCEPT ![local[c].name] = @ \cup {c}]
    /\ Done(c)
    /\ UNCHANGED <<store, rooms, roomRows, userRows, registered, contested, unsaved>>

-----------------------------------------------------------------------------
(* handleRegister.                                                         *)

CheckUser(c, u) ==
    /\ pc[c] = "read"
    /\ store
    /\ userRows[u] = NoUser
    /\ Goto(c, "insertUser")
    /\ local' = [local EXCEPT ![c].name = u]
    /\ UNCHANGED <<store, rooms, roomRows, userRows, created, registered, contested, unsaved>>

(* Fault: the row of the same username is replaced.                        *)
InsertUser_Upsert(c) ==
    LET u == local[c].name
    IN  /\ pc[c] = "insertUser"
        /\ userRows' = [userRows EXCEPT ![u] = c]
        /\ Goto(c, "welcome") /\ UNCHANGED local
        /\ UNCHANGED <<store, rooms, roomRows, created, registered, contested, unsaved>>

(* store.CreateUser: the username is UNIQUE, and an error is an answer.    *)
InsertUser(c) ==
    LET u == local[c].name
    IN  /\ pc[c] = "insertUser"
        /\ IF userRows[u] = NoUser
           THEN /\ userRows' = [userRows EXCEPT ![u] = c]
                /\ Goto(c, "welcome") /\ UNCHANGED local
           ELSE Done(c) /\ UNCHANGED userRows
        /\ UNCHANGED <<store, rooms, roomRows, created, registered, contested, unsaved>>

ConfirmUser(c) ==
    /\ pc[c] = "welcome"
    /\ registered' = [registered EXCEPT ![local[c].name] = @ \cup {c}]
    /\ Done(c)
    /\ UNCHANGED <<store, rooms, roomRows, userRows, created, contested, unsaved>>

-----------------------------------------------------------------------------
(* The server stops anywhere and starts again.  Without a database nobody  *)
(* was promised more than the life of the server.                          *)
Restart ==
    /\ rooms' = Loaded(roomRows)
    /\ pc' = [c \in Clients |-> "read"]
    /\ local' = [c \in Clients |-> Idle]
    /\ created' = IF store THEN created ELSE [n \in Names |-> {}]
    /\ contested' = IF store THEN contested ELSE {}
    /\ UNCHANGED <<store, roomRows, userRows, registered, unsaved>>

Create(c) ==
    \/ \E n \in Names : CheckRoom(c, n)
    \/ BuildRoom(c) \/ PersistRoom(c) \/ ConfirmRoom(c)

Register(c) == (\E u \in Usernames : CheckUser(c, u)) \/ InsertUser(c) \/ ConfirmUser(c)

Next == Restart \/ \E c \in Clients : Create(c) \/ Register(c)

Spec == Init /\ [][Next]_vars

-----------------------------------------------------------------------------
(* The password check of handleJoinRoom: against the row if there is a     *)
(* database (AuthenticateRoom finds no fault when there is no row), or     *)
(* against the room in memory.                                             *)
Accepts(n, c) ==
    IF store THEN roomRows[n] = NoRoom \/ roomRows[n].password = c
    ELSE rooms[n].password \in {NoPassword, c}

(* Every room has a subnet of its own (README.md:44 "automatic IP          *)
(* assignment: every room has an independent subnet").  It is not so.      *)
SubnetsDistinct ==
    \A n, m \in Present : n # m => rooms[n].subnet # rooms[m].subnet

(* The subnets are numbered from 1 and there are as many as rooms, so that *)
(* no two rooms share one and the next number is free.                     *)
Counted == {rooms[n].subnet : n \in Present} = 1 .. Cardinality(Present)

ConfigurationCounted ==
    {ConfiguredAs[n].subnet : n \in Configured} = 1 .. Cardinality(Configured)

(* A handler puts its room in the place of one of the same name, which was *)
(* not there when it looked (server.go:371, :396).                         *)
Overwrites(c) ==
    pc[c] = "build" /\ rooms[local[c].name] # NoRoom /\ rooms' # rooms

(* A restart brings back a room, but not one that was made before it.      *)
LosesOlder ==
    \E n, m \in Present : /\ rooms'[n] = NoRoom /\ rooms'[m] # NoRoom
                          /\ rooms[n].subnet < rooms[m].subnet

(* A configuration that numbers its rooms from 1 begins with subnets that  *)
(* are distinct, and through any requests and restarts they stay so until  *)
(* two handlers make the same room at a time, or a restart misses a row:   *)
(* the counter of rooms (server.go:381) goes wrong in no other way.  With  *)
(* either, two rooms can get one subnet.                                   *)
NumberingKept ==
    /\ ConfigurationCounted => Counted
    /\ [][Counted => Counted' \/ LosesOlder \/ \E c \in Clients : Overwrites(c)]_vars

(* Who was told that it created a room can join it with the password it    *)
(* gave, also after restarts, whether its row was written or not, unless   *)
(* somebody else made a room of this name too.                             *)
CreatorCanJoin ==
    \A n \in Names \ contested : \A c \in created[n] : rooms[n] # NoRoom => Accepts(n, c)

(* A room somebody was told is created exists for as long as was promised: *)
(* through every restart when there is a database, unless its INSERT has   *)
(* failed, which is only logged (server.go:401).                           *)
CreatedSurvives ==
    \A n \in Names \ unsaved : created[n] # {} => rooms[n] # NoRoom

(* A room never changes its subnet, in the life of a server and from one   *)
(* to the next, for members hold addresses and leases in it; unless two    *)
(* handlers made it.                                                       *)
SubnetStable ==
    [][\A n \in Present \ contested' : store /\ rooms'[n] # NoRoom
                                          => rooms'[n].subnet = rooms[n].subnet]_vars

(* Who was told that it registered a username logs in with its password,   *)
(* whoever asked for the same name at the same time.                       *)
RegisteredCanLogIn ==
    \A u \in Usernames : \A c \in registered[u] : userRows[u] = c
=============================================================================
