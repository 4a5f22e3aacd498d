------------------------ MODULE RoomDirectoryProofs ------------------------
(***************************************************************************)
(* What RoomDirectory keeps for any clients that create rooms and register *)
(* names at the same time, any configuration, inserts that may fail and    *)
(* restarts at any step: the types, that a confirmed registration is the   *)
(* row of the database, and of every room either what CreateRoom promises  *)
(* of it or which of the two ways of the code took it away.                *)
(***************************************************************************)
EXTENDS RoomDirectory, FiniteSetTheorems, TLAPS

(* What a handler between two of its steps was asked for.                  *)
Asked ==
    \A c \in Clients :
        /\ pc[c] \in {"build", "persist", "confirm"} => local[c].name \in Names
        /\ pc[c] \in {"insertUser", "welcome"} => local[c].name \in Usernames

(* The row is there before the client is told, and stays.                  *)
Welcome ==
    /\ \A c \in Clients : pc[c] = "welcome" => userRows[local[c].name] = c
    /\ RegisteredCanLogIn

IInv == TypeOK /\ Asked /\ Welcome

LEMMA PresentCounts ==
    ASSUME TypeOK
    PROVE  Cardinality(Present) \in Nat
  <1>1. Present \subseteq Names
    BY DEF Present
  <1>2. IsFiniteSet(Present)
    BY <1>1, FS_Subset, DirectoryAssumption
  <1> QED
    BY <1>2, FS_CardinalityType

LEMMA LoadedType ==
    ASSUME NEW rows \in [Names -> RoomRecords \cup {NoRoom}]
    PROVE  Loaded(rows) \in [Names -> RoomRecords \cup {NoRoom}]
  <1> SUFFICES ASSUME NEW n \in Names
               PROVE  Loaded(rows)[n] \in RoomRecords \cup {NoRoom}
    BY DEF Loaded
  <1>1. CASE store /\ rows[n] # NoRoom
    <2>1. rows[n] \in RoomRecords
      BY <1>1
    <2>2. [rows[n] EXCEPT !.password = NoPassword] \in RoomRecords
      BY <2>1 DEF RoomRecords
    <2> QED
      BY <1>1, <2>2 DEF Loaded
  <1>2. CASE ~(store /\ rows[n] # NoRoom) /\ n \in Configured
    BY <1>2, DirectoryAssumption DEF Loaded
  <1>3. CASE ~(store /\ rows[n] # NoRoom) /\ n \notin Configured
    BY <1>3 DEF Loaded
  <1> QED
    BY <1>1, <1>2, <1>3

LEMMA InitHolds == Init => IInv
  <1> SUFFICES ASSUME Init PROVE IInv
    OBVIOUS
  <1>1. rooms \in [Names -> RoomRecords \cup {NoRoom}]
    BY LoadedType DEF Init
  <1>2. TypeOK
    BY <1>1, DirectoryAssumption DEF Init, TypeOK, Idle
  <1>3. Asked /\ Welcome
    BY DEF Init, Asked, Welcome, RegisteredCanLogIn
  <1> QED
    BY <1>2, <1>3 DEF IInv

(* The steps that move one handler and touch no row of the table users.    *)
LEMMA StepHolds == IInv /\ [Next]_vars => IInv'
  <1> SUFFICES ASSUME IInv, [Next]_vars PROVE IInv'
    OBVIOUS
  <1> USE DEF IInv
  <1> USE DirectoryAssumption
  <1>1. CASE UNCHANGED vars
    BY <1>1 DEF vars, TypeOK, Asked, Welcome, RegisteredCanLogIn
  <1>2. ASSUME NEW c \in Clients, NEW n \in Names, CheckRoom(c, n)
        PROVE  IInv'
    <2>1. TypeOK'
      BY <1>2 DEF CheckRoom, Goto, TypeOK
    <2>2. Asked' /\ Welcome'
      BY <1>2 DEF CheckRoom, Goto, TypeOK, Asked, Welcome, RegisteredCanLogIn
    <2> QED
      BY <2>1, <2>2
  <1>3. ASSUME NEW c \in Clients, BuildRoom(c)
        PROVE  IInv'
    <2> DEFINE num == Cardinality(Present) + 1
    <2>1. num \in Nat
      BY PresentCounts
    <2>2. CASE num > MaxOctet
      <3>1. pc' = [pc EXCEPT ![c] = "read"] /\ local' = [local EXCEPT ![c] = Idle]
        BY <1>3, <2>2 DEF BuildRoom, Done, Goto
      <3>2. UNCHANGED <<store, rooms, roomRows, userRows, created, registered,
                        contested, unsaved>>
        BY <1>3, <2>2 DEF BuildRoom
      <3>3. TypeOK'
        BY <3>1, <3>2 DEF TypeOK, Idle
      <3>4. Asked' /\ Welcome'
        BY <3>1, <3>2 DEF TypeOK, Asked, Welcome, RegisteredCanLogIn
      <3> QED
        BY <3>3, <3>4
    <2>3. CASE ~(num > MaxOctet)
      <3>1. num \in 0 .. MaxOctet
        BY <2>1, <2>3
      <3> HIDE DEF num
      <3>2. /\ pc[c] = "build"
            /\ rooms' = [rooms EXCEPT ![local[c].name] = [subnet |-> num, password |-> c]]
            /\ local' = [local EXCEPT ![c].subnet = num]
            /\ pc' = [pc EXCEPT ![c] = IF store THEN "persist" ELSE "confirm"]
            /\ UNCHANGED <<store, roomRows, userRows, created, registered, unsaved>>
            /\ contested' \in {contested, contested \cup {local[c].name}}
        BY <1>3, <2>3 DEF BuildRoom, Goto, num, Contest
      <3>3. [subnet |-> num, password |-> c] \in RoomRecords
        BY <3>1 DEF RoomRecords
      <3>4. TypeOK'
        BY <3>1, <3>2, <3>3 DEF TypeOK, Asked
      <3>5. Asked' /\ Welcome'
        BY <3>2 DEF TypeOK, Asked, Welcome, RegisteredCanLogIn
      <3> QED
        BY <3>4, <3>5
    <2> QED
      BY <2>2, <2>3
  <1>4. ASSUME NEW c \in Clients, PersistRoom(c)
        PROVE  IInv'
    <2>1. local[c].subnet \in 0 .. MaxOctet
      BY DEF TypeOK
    <2>2. [subnet |-> local[c].subnet, password |-> c] \in RoomRecords
      BY <2>1 DEF RoomRecords
    <2>3. roomRows' \in [Names -> RoomRecords \cup {NoRoom}]
      BY <1>4, <2>2 DEF PersistRoom, TypeOK
    <2>4. TypeOK'
      BY <1>4, <2>3 DEF PersistRoom, Saved, Goto, TypeOK, Asked
    <2>5. Asked' /\ Welcome'
      BY <1>4 DEF PersistRoom, Goto, TypeOK, Asked, Welcome, RegisteredCanLogIn
    <2> QED
      BY <2>4, <2>5
  <1>5. ASSUME NEW c \in Clients, ConfirmRoom(c)
        PROVE  IInv'
    <2>1. TypeOK'
      <3>1. local[c].name \in Names
        BY <1>5 DEF ConfirmRoom, Asked
      <3>2. created' \in [Names -> SUBSET Clients]
        BY <1>5, <3>1 DEF ConfirmRoom, TypeOK
      <3> QED
        BY <1>5, <3>2 DEF ConfirmRoom, Done, Goto, TypeOK, Idle
    <2>2. Asked' /\ Welcome'
      BY <1>5 DEF ConfirmRoom, Done, Goto, TypeOK, Asked, Welcome, RegisteredCanLogIn
    <2> QED
      BY <2>1, <2>2
  <1>6. ASSUME NEW c \in Clients, NEW u \in Usernames, CheckUser(c, u)
        PROVE  IInv'
    <2>1. TypeOK'
      BY <1>6 DEF CheckUser, Goto, TypeOK
    <2>2. Asked' /\ Welcome'
      BY <1>6 DEF CheckUser, Goto, TypeOK, Asked, Welcome, RegisteredCanLogIn
    <2> QED
      BY <2>1, <2>2
  <1>7. ASSUME NEW c \in Clients, InsertUser(c)
        PROVE  IInv'
    <2>1. local[c].name \in Usernames
      BY <1>7 DEF InsertUser, Asked
    <2>2. TypeOK'
      <3>1. userRows' \in [Usernames -> Clients \cup {NoUser}]
        BY <1>7, <2>1 DEF InsertUser, TypeOK
      <3>2. pc' \in [Clients -> {"read", "build", "persist", "confirm",
                                 "insertUser", "welcome"}]
        <4>1. \/ pc' = [pc EXCEPT ![c] = "welcome"]
              \/ pc' = [pc EXCEPT ![c] = "read"]
          BY <1>7 DEF InsertUser, Done, Goto
        <4> QED
          BY <4>1 DEF TypeOK
      <3>3. local' \in [Clients -> [name : Names \cup Usernames \cup {NoName},
                                    subnet : 0 .. MaxOctet]]
        BY <1>7 DEF InsertUser, Done, TypeOK, Idle
      <3>4. UNCHANGED <<store, rooms, roomRows, created, registered, contested, unsaved>>
        BY <1>7 DEF InsertUser
      <3> QED
        BY <3>1, <3>2, <3>3, <3>4 DEF TypeOK
    <2>3. Asked'
      BY <1>7, <2>1 DEF InsertUser, Done, Goto, TypeOK, Asked
    <2>4. CASE userRows[local[c].name] = NoUser
      <3>1. /\ userRows' = [userRows EXCEPT ![local[c].name] = c]
            /\ pc' = [pc EXCEPT ![c] = "welcome"]
            /\ UNCHANGED <<local, registered>>
        BY <1>7, <2>4 DEF InsertUser, Goto
      <3>2. \A d \in Clients : pc[d] = "welcome" => local[d].name # local[c].name
        BY <2>4 DEF Welcome
      <3>3. registered[local[c].name] = {}
        BY <2>1, <2>4 DEF Welcome, RegisteredCanLogIn, TypeOK
      <3> QED
        BY <2>1, <2>2, <2>3, <3>1, <3>2, <3>3 DEF TypeOK, Welcome, RegisteredCanLogIn
    <2>5. CASE userRows[local[c].name] # NoUser
      <3>1. /\ UNCHANGED <<userRows, registered>>
            /\ pc' = [pc EXCEPT ![c] = "read"]
            /\ local' = [local EXCEPT ![c] = Idle]
        BY <1>7, <2>5 DEF InsertUser, Done, Goto
      <3> QED
        BY <2>2, <2>3, <3>1 DEF TypeOK, Welcome, RegisteredCanLogIn
    <2> QED
      BY <2>4, <2>5
  <1>8. ASSUME NEW c \in Clients, ConfirmUser(c)
        PROVE  IInv'
    <2>1. /\ pc[c] = "welcome"
          /\ registered' = [registered EXCEPT ![local[c].name] = @ \cup {c}]
          /\ pc' = [pc EXCEPT ![c] = "read"]
          /\ local' = [local EXCEPT ![c] = Idle]
          /\ UNCHANGED <<store, rooms, roomRows, userRows, created, contested, unsaved>>
      BY <1>8 DEF ConfirmUser, Done, Goto
    <2>2. local[c].name \in Usernames /\ userRows[local[c].name] = c
      BY <2>1 DEF Asked, Welcome
    <2>3. TypeOK'
      BY <2>1, <2>2 DEF TypeOK, Idle
    <2>4. Asked'
      BY <2>1 DEF TypeOK, Asked
    <2>5. Welcome'
      BY <2>1, <2>2 DEF TypeOK, Welcome, RegisteredCanLogIn
    <2> QED
      BY <2>3, <2>4, <2>5
  <1>9. ASSUME Restart
        PROVE  IInv'
    <2>1. rooms' \in [Names -> RoomRecords \cup {NoRoom}]
      BY <1>9, LoadedType DEF Restart, TypeOK
    <2>2. TypeOK'
      BY <1>9, <2>1 DEF Restart, TypeOK, Idle
    <2>3. Asked' /\ Welcome'
      BY <1>9 DEF Restart, Asked, Welcome, RegisteredCanLogIn
    <2> QED
      BY <2>2, <2>3
  <1> QED
    BY <1>1, <1>2, <1>3, <1>4, <1>5, <1>6, <1>7, <1>8, <1>9 DEF Next, Create, Register

LEMMA Invariance == Spec => []IInv
  BY InitHolds, StepHolds, PTL DEF Spec

(* The rooms, rows and handlers of handleCreateRoom and handleRegister     *)
(* keep their types, whatever the configuration and the order of steps.    *)
THEOREM DirectoryTyped == Spec => []TypeOK
  <1>1. IInv => TypeOK
    BY DEF IInv
  <1> QED
    BY Invariance, <1>1, PTL

(* A client that was told it registered a username can log in with its     *)
(* password for ever, for any number of clients asking at the same time.   *)
THEOREM RegistrationHolds == Spec => []RegisteredCanLogIn
  <1>1. IInv => RegisteredCanLogIn
    BY DEF IInv, Welcome
  <1> QED
    BY Invariance, <1>1, PTL

-----------------------------------------------------------------------------
(* The steps, each by what it does to the rooms and to its own handler.    *)

(* No room, row or history of a room changes, and c is not between the     *)
(* building and the confirming of a room before or after.                  *)
Quiet(c) ==
    /\ UNCHANGED <<store, rooms, roomRows, created, contested, unsaved>>
    /\ pc[c] \notin {"persist", "confirm"}
    /\ pc'[c] \in {"read", "build", "insertUser", "welcome"}
    /\ pc'[c] = "build" => local'[c].name \in Names /\ rooms[local'[c].name] = NoRoom

BuiltAs(c, n, num) ==
    /\ pc[c] = "build" /\ local[c].name = n
    /\ num = Cardinality(Present) + 1
    /\ rooms'[n] = [subnet |-> num, password |-> c] /\ rooms'[n] # NoRoom
    /\ \A m \in Names \ {n} : rooms'[m] = rooms[m]
    /\ local'[c].name = n /\ local'[c].subnet = num
    /\ pc'[c] = IF store THEN "persist" ELSE "confirm"
    /\ Contest(n)
    /\ UNCHANGED <<store, roomRows, created, unsaved>>

PersistedAs(c, n) ==
    /\ pc[c] = "persist" /\ local[c].name = n
    /\ \/ /\ roomRows[n] = NoRoom /\ roomRows'[n] # NoRoom
          /\ roomRows'[n] = [subnet |-> local[c].subnet, password |-> c]
       \/ roomRows'[n] = roomRows[n]
    /\ \A m \in Names \ {n} : roomRows'[m] = roomRows[m]
    /\ Saved(n)
    /\ pc'[c] = "confirm" /\ local'[c] = local[c]
    /\ UNCHANGED <<store, rooms, created, contested>>

ConfirmedAs(c, n) ==
    /\ pc[c] = "confirm" /\ local[c].name = n
    /\ created'[n] = created[n] \cup {c}
    /\ \A m \in Names \ {n} : created'[m] = created[m]
    /\ pc'[c] = "read"
    /\ UNCHANGED <<store, rooms, roomRows, contested, unsaved>>

LEMMA OthersStay ==
    ASSUME IInv, NEW c \in Clients, Create(c) \/ Register(c)
    PROVE  \A d \in Clients \ {c} : pc'[d] = pc[d] /\ local'[d] = local[d]
  BY DEF Create, Register, CheckRoom, BuildRoom, PersistRoom, ConfirmRoom,
         CheckUser, InsertUser, ConfirmUser, Done, Goto, IInv, TypeOK

LEMMA StepKinds ==
    ASSUME IInv, NEW c \in Clients, Create(c) \/ Register(c)
    PROVE  \/ Quiet(c)
           \/ \E n \in Names : \/ \E num \in 1 .. MaxOctet : BuiltAs(c, n, num)
                               \/ PersistedAs(c, n) \/ ConfirmedAs(c, n)
  <1> USE DirectoryAssumption DEF IInv
  <1>1. ASSUME NEW n \in Names, CheckRoom(c, n)
        PROVE  Quiet(c)
    BY <1>1 DEF CheckRoom, Goto, TypeOK, Quiet
  <1>2. ASSUME BuildRoom(c)
        PROVE  Quiet(c) \/ \E n \in Names : \E num \in 1 .. MaxOctet : BuiltAs(c, n, num)
    <2> DEFINE num == Cardinality(Present) + 1
    <2>1. num \in Nat /\ num >= 1
      BY PresentCounts
    <2>2. CASE num > MaxOctet
      <3>1. /\ pc[c] = "build" /\ pc' = [pc EXCEPT ![c] = "read"]
            /\ UNCHANGED <<store, rooms, roomRows, created, contested, unsaved>>
        BY <1>2, <2>2 DEF BuildRoom, Done, Goto
      <3> QED
        BY <3>1 DEF TypeOK, Quiet
    <2>3. CASE ~(num > MaxOctet)
      <3>1. PICK n \in Names : n = local[c].name
        BY <1>2 DEF BuildRoom, Asked
      <3>2. num \in 1 .. MaxOctet
        BY <2>1, <2>3
      <3>3. /\ pc[c] = "build"
            /\ rooms' = [rooms EXCEPT ![n] = [subnet |-> num, password |-> c]]
            /\ local' = [local EXCEPT ![c].subnet = num]
            /\ pc' = [pc EXCEPT ![c] = IF store THEN "persist" ELSE "confirm"]
            /\ Contest(n)
            /\ UNCHANGED <<store, roomRows, created, unsaved>>
        BY <1>2, <2>3, <3>1 DEF BuildRoom, Goto
      <3>4. [subnet |-> num, password |-> c] # NoRoom
        BY <3>2 DEF RoomRecords
      <3>5. num = Cardinality(Present) + 1
        OBVIOUS
      <3> HIDE DEF num
      <3>6. /\ rooms'[n] = [subnet |-> num, password |-> c]
            /\ \A m \in Names \ {n} : rooms'[m] = rooms[m]
        BY <3>3 DEF TypeOK
      <3>7. local'[c].name = n /\ local'[c].subnet = num
        BY <3>1, <3>3 DEF TypeOK
      <3>8. pc'[c] = IF store THEN "persist" ELSE "confirm"
        BY <3>3 DEF TypeOK
      <3>9. BuiltAs(c, n, num)
        BY <3>1, <3>3, <3>4, <3>5, <3>6, <3>7, <3>8 DEF BuiltAs
      <3> QED
        BY <3>2, <3>9
    <2> QED
      BY <2>2, <2>3
  <1>3. ASSUME PersistRoom(c)
        PROVE  \E n \in Names : PersistedAs(c, n)
    <2>1. PICK n \in Names : n = local[c].name
      BY <1>3 DEF PersistRoom, Asked
    <2>2. [subnet |-> local[c].subnet, password |-> c] # NoRoom
      BY DEF TypeOK, RoomRecords
    <2>3. /\ pc[c] = "persist"
          /\ \/ /\ roomRows[n] = NoRoom
                /\ roomRows' = [roomRows EXCEPT ![n] =
                                   [subnet |-> local[c].subnet, password |-> c]]
             \/ UNCHANGED roomRows
          /\ Saved(n)
          /\ pc' = [pc EXCEPT ![c] = "confirm"]
          /\ UNCHANGED <<store, rooms, local, created, contested>>
      BY <1>3, <2>1 DEF PersistRoom, Goto
    <2>4. PersistedAs(c, n)
      BY <2>1, <2>2, <2>3 DEF TypeOK, PersistedAs
    <2> QED
      BY <2>4
  <1>4. ASSUME ConfirmRoom(c)
        PROVE  \E n \in Names : ConfirmedAs(c, n)
    <2>1. PICK n \in Names : n = local[c].name
      BY <1>4 DEF ConfirmRoom, Asked
    <2>2. /\ pc[c] = "confirm"
          /\ created' = [created EXCEPT ![n] = @ \cup {c}]
          /\ pc' = [pc EXCEPT ![c] = "read"]
          /\ UNCHANGED <<store, rooms, roomRows, contested, unsaved>>
      BY <1>4, <2>1 DEF ConfirmRoom, Done, Goto
    <2>3. ConfirmedAs(c, n)
      BY <2>1, <2>2 DEF TypeOK, ConfirmedAs
    <2> QED
      BY <2>3
  <1>5. ASSUME Register(c)
        PROVE  Quiet(c)
    <2>1. UNCHANGED <<store, rooms, roomRows, created, contested, unsaved>>
      BY <1>5 DEF Register, CheckUser, InsertUser, ConfirmUser
    <2>2. pc[c] \notin {"persist", "confirm"}
      BY <1>5 DEF Register, CheckUser, InsertUser, ConfirmUser
    <2>3. pc'[c] \in {"read", "insertUser", "welcome"}
      BY <1>5 DEF Register, CheckUser, InsertUser, ConfirmUser, Done, Goto, TypeOK
    <2> QED
      BY <2>1, <2>2, <2>3 DEF Quiet
  <1> QED
    BY <1>1, <1>2, <1>3, <1>4, <1>5 DEF Create

-----------------------------------------------------------------------------
(* A configured room is as configured and nobody else's; a handler that    *)
(* has built a room, and a row, have theirs in memory.                     *)
Anchored ==
    /\ \A n \in Configured : rooms[n] = ConfiguredAs[n] /\ roomRows[n] = NoRoom
    /\ \A c \in Clients :
           /\ pc[c] \in {"build", "persist", "confirm"} => local[c].name \notin Configured
           /\ pc[c] \in {"persist", "confirm"} => rooms[local[c].name] # NoRoom
           /\ pc[c] = "persist" => store
    /\ \A n \in Names : roomRows[n] # NoRoom => store /\ rooms[n] # NoRoom

(* What a restarted server has of a room.                                  *)
LEMMA ComesBack ==
    ASSUME IInv, Anchored, NEW n \in Names, Restart
    PROVE  /\ roomRows'[n] = roomRows[n]
           /\ n \in Configured => rooms'[n] = ConfiguredAs[n]
           /\ rooms'[n] # NoRoom <=> n \in Configured \/ roomRows[n] # NoRoom
           /\ roomRows[n] # NoRoom => rooms'[n].subnet = roomRows[n].subnet
           /\ rooms'[n] # NoRoom => rooms[n] # NoRoom
  <1> USE DirectoryAssumption
  <1>1. /\ rooms'[n] = IF store /\ roomRows[n] # NoRoom
                       THEN [roomRows[n] EXCEPT !.password = NoPassword]
                       ELSE IF n \in Configured THEN ConfiguredAs[n] ELSE NoRoom
        /\ roomRows'[n] = roomRows[n]
    BY DEF Restart, Loaded
  <1>2. CASE roomRows[n] # NoRoom
    <2>1. store /\ n \notin Configured /\ rooms[n] # NoRoom
      BY <1>2 DEF Anchored
    <2>2. roomRows[n] \in RoomRecords
      BY <1>2 DEF IInv, TypeOK
    <2>3. rooms'[n] = [roomRows[n] EXCEPT !.password = NoPassword]
      BY <1>1, <1>2, <2>1
    <2>4. rooms'[n] \in RoomRecords /\ rooms'[n].subnet = roomRows[n].subnet
      BY <2>2, <2>3 DEF RoomRecords
    <2> QED
      BY <1>1, <1>2, <2>1, <2>4
  <1>3. CASE roomRows[n] = NoRoom /\ n \in Configured
    <2>1. rooms'[n] = ConfiguredAs[n] /\ ConfiguredAs[n] \in RoomRecords
      BY <1>1, <1>3
    <2>2. rooms[n] = ConfiguredAs[n]
      BY <1>3 DEF Anchored
    <2> QED
      BY <1>1, <1>3, <2>1, <2>2
  <1>4. CASE roomRows[n] = NoRoom /\ n \notin Configured
    BY <1>1, <1>4
  <1> QED
    BY <1>2, <1>3, <1>4

LEMMA AnchoredStep ==
    ASSUME IInv, IInv', Anchored, [Next]_vars
    PROVE  Anchored'
  <1> USE DirectoryAssumption
  <1>1. CASE UNCHANGED vars
    BY <1>1 DEF vars, Anchored
  <1>2. CASE Restart
    <2>1. /\ \A c \in Clients : pc'[c] = "read"
          /\ UNCHANGED <<store, roomRows>>
      BY <1>2 DEF Restart
    <2>2. \A n \in Configured : rooms'[n] = ConfiguredAs[n] /\ roomRows'[n] = NoRoom
      BY <1>2, ComesBack DEF Anchored
    <2>3. \A n \in Names : roomRows'[n] # NoRoom => store' /\ rooms'[n] # NoRoom
      BY <1>2, <2>1, ComesBack DEF Anchored
    <2> QED
      BY <2>1, <2>2, <2>3 DEF Anchored
  <1>3. ASSUME NEW c \in Clients, Create(c) \/ Register(c)
        PROVE  Anchored'
    <2>1. \A d \in Clients \ {c} : pc'[d] = pc[d] /\ local'[d] = local[d]
      BY <1>3, OthersStay
    <2>2. \A d \in Clients : pc[d] \in {"build", "persist", "confirm"} => local[d].name \in Names
      BY DEF IInv, Asked
    <2>3. CASE Quiet(c)
      <3>1. \A n \in Configured : rooms[n] # NoRoom
        BY DEF Anchored
      <3> QED
        BY <2>1, <2>3, <3>1 DEF Quiet, Anchored
    <2>4. ASSUME NEW n \in Names, NEW num \in 1 .. MaxOctet, BuiltAs(c, n, num)
          PROVE  Anchored'
      <3>1. n \notin Configured
        BY <2>4 DEF BuiltAs, Anchored
      <3> QED
        BY <2>1, <2>2, <2>4, <3>1 DEF BuiltAs, Anchored
    <2>5. ASSUME NEW n \in Names, PersistedAs(c, n)
          PROVE  Anchored'
      <3>1. n \notin Configured /\ rooms[n] # NoRoom /\ store
        BY <2>5 DEF PersistedAs, Anchored
      <3> QED
        BY <2>1, <2>5, <3>1 DEF PersistedAs, Anchored
    <2>6. ASSUME NEW n \in Names, ConfirmedAs(c, n)
          PROVE  Anchored'
      BY <2>1, <2>6 DEF ConfirmedAs, Anchored
    <2> QED
      BY <1>3, <2>3, <2>4, <2>5, <2>6, StepKinds
  <1> QED
    BY <1>1, <1>2, <1>3 DEF Next

LEMMA AnchoredHolds == Spec => []Anchored
  <1>1. Init => Anchored
    <2> SUFFICES ASSUME Init PROVE Anchored
      OBVIOUS
    <2>1. \A n \in Names : rooms[n] = IF n \in Configured THEN ConfiguredAs[n] ELSE NoRoom
      BY DEF Init, Loaded
    <2> QED
      BY <2>1, DirectoryAssumption DEF Init, Anchored
  <1>2. IInv /\ IInv' /\ Anchored /\ [Next]_vars => Anchored'
    BY AnchoredStep
  <1> QED
    BY Invariance, <1>1, <1>2, PTL DEF Spec

-----------------------------------------------------------------------------
(* A room is in memory, and with a database in its table, from before its  *)
(* creator is told; or its INSERT has failed.                              *)
Kept(n) == rooms[n] # NoRoom /\ (store => roomRows[n] # NoRoom)

Survival ==
    /\ \A c \in Clients : pc[c] = "confirm" =>
           Kept(local[c].name) \/ local[c].name \in unsaved
    /\ \A n \in Names : created[n] # {} => Kept(n) \/ n \in unsaved

LEMMA SurvivalStep ==
    ASSUME IInv, Anchored, Anchored', Survival, [Next]_vars
    PROVE  Survival'
  <1>1. CASE UNCHANGED vars
    BY <1>1 DEF vars, Survival, Kept
  <1>2. CASE Restart
    <2>1. /\ \A c \in Clients : pc'[c] = "read"
          /\ created' = IF store THEN created ELSE [n \in Names |-> {}]
          /\ UNCHANGED <<store, roomRows, unsaved>>
      BY <1>2 DEF Restart
    <2>2. ASSUME NEW n \in Names, created'[n] # {}, n \notin unsaved
          PROVE  Kept(n)'
      <3>1. store /\ created[n] # {}
        BY <2>1, <2>2
      <3>2. store /\ roomRows[n] # NoRoom
        BY <2>2, <3>1 DEF Survival, Kept
      <3> QED
        BY <1>2, <2>1, <3>2, ComesBack DEF Kept
    <2> QED
      BY <2>1, <2>2 DEF Survival
  <1>3. ASSUME NEW c \in Clients, Create(c) \/ Register(c)
        PROVE  Survival'
    <2>1. \A d \in Clients \ {c} : pc'[d] = pc[d] /\ local'[d] = local[d]
      BY <1>3, OthersStay
    <2>2. \A d \in Clients : pc[d] = "confirm" => local[d].name \in Names
      BY DEF IInv, Asked
    <2>3. CASE Quiet(c)
      BY <2>1, <2>3 DEF Quiet, Survival, Kept
    <2>4. ASSUME NEW n \in Names, NEW num \in 1 .. MaxOctet, BuiltAs(c, n, num)
          PROVE  Survival'
      <3>1. \A m \in Names : Kept(m) => Kept(m)'
        BY <2>4 DEF BuiltAs, Kept
      <3>2. pc'[c] = "confirm" => Kept(n)' /\ local'[c].name = n
        BY <2>4 DEF BuiltAs, Kept
      <3> QED
        BY <2>1, <2>2, <2>4, <3>1, <3>2 DEF BuiltAs, Survival
    <2>5. ASSUME NEW n \in Names, PersistedAs(c, n)
          PROVE  Survival'
      <3>1. rooms[n] # NoRoom
        BY <2>5 DEF PersistedAs, Anchored
      <3>2. \A m \in Names : Kept(m) => Kept(m)'
        BY <2>5 DEF PersistedAs, Kept
      <3>3. Kept(n)' \/ n \in unsaved'
        BY <2>5, <3>1 DEF PersistedAs, Kept, Saved
      <3>4. \A m \in Names \ {n} : m \in unsaved => m \in unsaved'
        BY <2>5 DEF PersistedAs, Saved
      <3>5. local'[c].name = n /\ created' = created
        BY <2>5 DEF PersistedAs
      <3>6. \A m \in Names : Kept(m) \/ m \in unsaved => Kept(m)' \/ m \in unsaved'
        BY <3>2, <3>3, <3>4
      <3> HIDE DEF Kept
      <3> QED
        BY <2>1, <2>2, <3>3, <3>5, <3>6 DEF Survival
    <2>6. ASSUME NEW n \in Names, ConfirmedAs(c, n)
          PROVE  Survival'
      <3>1. \A m \in Names : Kept(m) => Kept(m)'
        BY <2>6 DEF ConfirmedAs, Kept
      <3>2. Kept(n) \/ n \in unsaved
        BY <2>6 DEF ConfirmedAs, Survival
      <3> QED
        BY <2>1, <2>2, <2>6, <3>1, <3>2 DEF ConfirmedAs, Survival
    <2> QED
      BY <1>3, <2>3, <2>4, <2>5, <2>6, StepKinds
  <1> QED
    BY <1>1, <1>2, <1>3 DEF Next

(* A room somebody was told is created is there for as long as was         *)
(* promised, whoever else creates rooms and however often the server       *)
(* restarts, if its INSERT has not failed.                                 *)
THEOREM ConfirmedRoomsSurvive == Spec => []CreatedSurvives
  <1>1. Init => Survival
    BY DEF Init, Survival
  <1>2. IInv /\ Anchored /\ Anchored' /\ Survival /\ [Next]_vars => Survival'
    BY SurvivalStep
  <1>3. Survival => CreatedSurvives
    BY DEF Survival, CreatedSurvives, Kept
  <1> QED
    BY Invariance, AnchoredHolds, <1>1, <1>2, <1>3, PTL DEF Spec

-----------------------------------------------------------------------------
(* Who made a room that nobody else has made: it was told so, or will be.  *)
MakerOf(n, c) ==
    c \in created[n] \/ (pc[c] \in {"persist", "confirm"} /\ local[c].name = n)

(* The row and the room of n are of its one maker.                         *)
OwnRoom(n) ==
    /\ \A c, d \in Clients : MakerOf(n, c) /\ MakerOf(n, d) => c = d
    /\ \A c \in Clients : pc[c] = "persist" /\ local[c].name = n => roomRows[n] = NoRoom
    /\ \A c \in Clients : MakerOf(n, c) =>
           /\ roomRows[n] = NoRoom \/ roomRows[n].password = c
           /\ ~store /\ rooms[n] # NoRoom => rooms[n].password \in {NoPassword, c}

OwnRooms == \A n \in Names \ contested : OwnRoom(n)

(* A step that is not about n and takes no maker in.                       *)
LEMMA OwnRoomStays ==
    ASSUME NEW n \in Names, OwnRoom(n),
           \A c \in Clients : /\ MakerOf(n, c)' => MakerOf(n, c)
                              /\ pc'[c] = "persist" /\ local'[c].name = n =>
                                     pc[c] = "persist" /\ local[c].name = n,
           roomRows'[n] = roomRows[n], rooms'[n] = rooms[n], store' = store
    PROVE  OwnRoom(n)'
  <1> HIDE DEF MakerOf
  <1> QED
    BY DEF OwnRoom

LEMMA OwnRoomsStep ==
    ASSUME IInv, IInv', Anchored, OwnRooms, [Next]_vars
    PROVE  OwnRooms'
  <1> USE DirectoryAssumption
  <1> SUFFICES ASSUME NEW n \in Names, n \notin contested'
               PROVE  OwnRoom(n)'
    BY DEF OwnRooms
  <1>1. CASE UNCHANGED vars
    <2>1. OwnRoom(n)
      BY <1>1 DEF vars, OwnRooms
    <2> QED
      BY <1>1, <2>1 DEF vars, OwnRoom, MakerOf
  <1>2. CASE Restart
    <2>1. /\ \A c \in Clients : pc'[c] = "read"
          /\ created'[n] = IF store THEN created[n] ELSE {}
          /\ store' = store
          /\ store => n \notin contested
      BY <1>2 DEF Restart
    <2>2. roomRows'[n] = roomRows[n]
      BY <1>2, ComesBack
    <2>3. CASE store
      <3>1. OwnRoom(n)
        BY <2>1, <2>3 DEF OwnRooms
      <3> QED
        BY <2>1, <2>2, <2>3, <3>1 DEF OwnRoom, MakerOf
    <2>4. CASE ~store
      BY <2>1, <2>4 DEF OwnRoom, MakerOf
    <2> QED
      BY <2>3, <2>4
  <1>3. ASSUME NEW c \in Clients, Create(c) \/ Register(c)
        PROVE  OwnRoom(n)'
    <2>1. \A d \in Clients \ {c} : pc'[d] = pc[d] /\ local'[d] = local[d]
      BY <1>3, OthersStay
    <2>2. n \notin contested => OwnRoom(n)
      BY DEF OwnRooms
    <2>3. CASE Quiet(c)
      <3>1. OwnRoom(n)
        BY <2>2, <2>3 DEF Quiet
      <3>2. \A d \in Clients : MakerOf(n, d)' => MakerOf(n, d)
        BY <2>1, <2>3 DEF Quiet, MakerOf
      <3>3. \A d \in Clients : pc'[d] = "persist" => pc[d] = "persist" /\ local'[d] = local[d]
        BY <2>1, <2>3 DEF Quiet
      <3> QED
        BY <2>3, <3>1, <3>2, <3>3, OwnRoomStays DEF Quiet
    <2>4. ASSUME NEW m \in Names, NEW num \in 1 .. MaxOctet, BuiltAs(c, m, num)
          PROVE  OwnRoom(n)'
      <3>1. OwnRoom(n) /\ n \notin contested
        BY <2>2, <2>4 DEF BuiltAs, Contest
      <3>2. CASE m # n
        <4>1. \A d \in Clients : MakerOf(n, d)' => MakerOf(n, d)
          BY <2>1, <2>4, <3>2 DEF BuiltAs, MakerOf
        <4>2. \A d \in Clients : pc'[d] = "persist" /\ local'[d].name = n =>
                                     pc[d] = "persist" /\ local[d].name = n
          BY <2>1, <2>4, <3>2 DEF BuiltAs
        <4>3. roomRows'[n] = roomRows[n] /\ rooms'[n] = rooms[n] /\ store' = store
          BY <2>4, <3>2 DEF BuiltAs
        <4> QED
          BY <3>1, <4>1, <4>2, <4>3, OwnRoomStays
      <3>3. CASE m = n
        <4>1. rooms[n] = NoRoom /\ created[n] = {}
          BY <2>4, <3>1, <3>3 DEF BuiltAs, Contest
        <4>2. \A d \in Clients : ~MakerOf(n, d)
          BY <4>1 DEF MakerOf, Anchored
        <4>3. roomRows[n] = NoRoom
          BY <4>1 DEF Anchored
        <4>4. \A d \in Clients : MakerOf(n, d)' => d = c
          BY <2>1, <2>4, <3>3, <4>2 DEF BuiltAs, MakerOf
        <4>5. roomRows'[n] = NoRoom /\ rooms'[n].password = c
          BY <2>4, <3>3, <4>3 DEF BuiltAs
        <4> HIDE DEF MakerOf
        <4> QED
          BY <4>4, <4>5 DEF OwnRoom
      <3> QED
        BY <3>2, <3>3
    <2>5. ASSUME NEW m \in Names, PersistedAs(c, m)
          PROVE  OwnRoom(n)'
      <3>1. OwnRoom(n)
        BY <2>2, <2>5 DEF PersistedAs
      <3>2. \A d \in Clients : MakerOf(n, d)' => MakerOf(n, d)
        BY <2>1, <2>5 DEF PersistedAs, MakerOf
      <3>3. \A d \in Clients : pc'[d] = "persist" => pc[d] = "persist" /\ local'[d] = local[d] /\ d # c
        BY <2>1, <2>5 DEF PersistedAs
      <3>4. rooms' = rooms /\ store' = store
        BY <2>5 DEF PersistedAs
      <3>5. CASE m # n
        <4>1. roomRows'[n] = roomRows[n]
          BY <2>5, <3>5 DEF PersistedAs
        <4> QED
          BY <3>1, <3>2, <3>3, <3>4, <4>1, OwnRoomStays
      <3>6. CASE m = n
        <4>1. MakerOf(n, c)
          BY <2>5, <3>6 DEF PersistedAs, MakerOf
        <4>2. \A d \in Clients : MakerOf(n, d) => d = c
          BY <3>1, <4>1 DEF OwnRoom
        <4>3. roomRows'[n] = NoRoom \/ roomRows'[n].password = c
          BY <2>5, <3>1, <3>6 DEF PersistedAs, OwnRoom
        <4>4. \A d \in Clients : ~(pc'[d] = "persist" /\ local'[d].name = n)
          BY <3>3, <4>2 DEF MakerOf
        <4>5. ~store /\ rooms[n] # NoRoom => rooms[n].password \in {NoPassword, c}
          BY <3>1, <4>1 DEF OwnRoom
        <4> HIDE DEF MakerOf
        <4> QED
          BY <3>2, <3>4, <4>2, <4>3, <4>4, <4>5 DEF OwnRoom
      <3> QED
        BY <3>5, <3>6
    <2>6. ASSUME NEW m \in Names, ConfirmedAs(c, m)
          PROVE  OwnRoom(n)'
      <3>1. OwnRoom(n)
        BY <2>2, <2>6 DEF ConfirmedAs
      <3>2. \A d \in Clients : MakerOf(n, d)' => MakerOf(n, d)
        BY <2>1, <2>6 DEF ConfirmedAs, MakerOf
      <3>3. \A d \in Clients : pc'[d] = "persist" => pc[d] = "persist" /\ local'[d] = local[d]
        BY <2>1, <2>6 DEF ConfirmedAs
      <3> QED
        BY <2>6, <3>1, <3>2, <3>3, OwnRoomStays DEF ConfirmedAs
    <2> QED
      BY <1>3, <2>3, <2>4, <2>5, <2>6, StepKinds
  <1> QED
    BY <1>1, <1>2, <1>3 DEF Next

(* Who was told that it created a room joins it with the password it gave, *)
(* before and after restarts and whether its row was written or not, if    *)
(* nobody made the room a second time.                                     *)
THEOREM CreatorsJoin == Spec => []CreatorCanJoin
  <1>1. Init => OwnRooms
    BY DEF Init, OwnRooms, OwnRoom, MakerOf
  <1>2. IInv /\ IInv' /\ Anchored /\ OwnRooms /\ [Next]_vars => OwnRooms'
    BY OwnRoomsStep
  <1>3. IInv /\ OwnRooms => CreatorCanJoin
    <2> SUFFICES ASSUME IInv, OwnRooms, NEW n \in Names \ contested,
                        NEW c \in created[n], rooms[n] # NoRoom
                 PROVE  Accepts(n, c)
      BY DEF CreatorCanJoin
    <2>1. c \in Clients /\ MakerOf(n, c)
      BY DEF IInv, TypeOK, MakerOf
    <2> QED
      BY <2>1 DEF OwnRooms, OwnRoom, Accepts
  <1> QED
    BY Invariance, AnchoredHolds, <1>1, <1>2, <1>3, PTL DEF Spec

-----------------------------------------------------------------------------
(* Counting.  Of the numbers up to that of the rooms one is not taken, or  *)
(* each is taken by one room.                                              *)
Gap == \E j \in 1 .. Cardinality(Present) : \A n \in Present : rooms[n].subnet # j

LEMMA PresentIsFinite == IsFiniteSet(Present)
  <1>1. Present \subseteq Names
    BY DEF Present
  <1> QED
    BY <1>1, FS_Subset, DirectoryAssumption

(* If k things have every number of 1 .. k, each has one of its own.       *)
LEMMA AllNumbersTaken ==
    ASSUME NEW S, IsFiniteSet(S), NEW f, NEW k \in Nat, k = Cardinality(S),
           \A j \in 1 .. k : \E x \in S : f[x] = j
    PROVE  /\ \A x \in S : f[x] \in 1 .. k
           /\ \A x, y \in S : x # y => f[x] # f[y]
  <1> DEFINE g == [j \in 1 .. k |-> CHOOSE x \in S : f[x] = j]
  <1>1. \A j \in 1 .. k : g[j] \in S /\ f[g[j]] = j
    OBVIOUS
  <1>2. g \in [1 .. k -> S]
    BY <1>1
  <1> HIDE DEF g
  <1>3. \A i, j \in 1 .. k : g[i] = g[j] => i = j
    BY <1>1
  <1>4. g \in Injection(1 .. k, S)
    BY <1>2, <1>3 DEF Injection, IsInjective
  <1>5. IsFiniteSet(1 .. k) /\ Cardinality(1 .. k) = k
    BY FS_Interval
  <1>6. g \in Surjection(1 .. k, S)
    BY <1>4, <1>5, FS_Injection
  <1>7. \A x \in S : \E j \in 1 .. k : g[j] = x
    BY <1>6 DEF Surjection
  <1> QED
    BY <1>1, <1>7

LEMMA NoGapIsCounted ==
    ASSUME IInv, ~Gap
    PROVE  /\ Counted
           /\ \A n, m \in Present : n # m => rooms[n].subnet # rooms[m].subnet
  <1> DEFINE f == [n \in Present |-> rooms[n].subnet]
             k == Cardinality(Present)
  <1>1. k \in Nat
    BY PresentCounts DEF IInv
  <1>2. \A j \in 1 .. k : \E n \in Present : f[n] = j
    BY DEF Gap
  <1>3. \A n \in Present : f[n] = rooms[n].subnet
    OBVIOUS
  <1>4. k = Cardinality(Present)
    OBVIOUS
  <1> HIDE DEF f, k
  <1>5. /\ \A n \in Present : f[n] \in 1 .. k
        /\ \A n, m \in Present : n # m => f[n] # f[m]
    BY <1>1, <1>2, <1>4, PresentIsFinite, AllNumbersTaken
  <1>6. {rooms[n].subnet : n \in Present} = 1 .. k
    BY <1>2, <1>3, <1>5
  <1> QED
    BY <1>3, <1>4, <1>5, <1>6 DEF Counted

LEMMA CountedHasNoGap == Counted => ~Gap
  BY DEF Counted, Gap

(* The rooms of a counted directory have subnets of their own, and the     *)
(* next number is free: what BuildRoom relies on (server.go:381).          *)
LEMMA CountedIsDistinct ==
    ASSUME IInv, Counted
    PROVE  /\ SubnetsDistinct
           /\ \A n \in Present : rooms[n].subnet < Cardinality(Present) + 1
  <1>1. SubnetsDistinct
    BY CountedHasNoGap, NoGapIsCounted DEF SubnetsDistinct
  <1>2. Cardinality(Present) \in Nat
    BY PresentCounts DEF IInv
  <1>3. \A n \in Present : rooms[n].subnet \in 1 .. Cardinality(Present)
    BY DEF Counted
  <1> QED
    BY <1>1, <1>2, <1>3

-----------------------------------------------------------------------------
(* The memory, the row and the handler in between have one subnet for n.   *)
Settled(n) ==
    /\ roomRows[n] # NoRoom => roomRows[n].subnet = rooms[n].subnet
    /\ \A c \in Clients : pc[c] = "persist" /\ local[c].name = n =>
           local[c].subnet = rooms[n].subnet

Settling == \A n \in Names : Settled(n) \/ (n \in contested /\ Gap)

(* Only a restart closes a gap: a new room takes a number beyond it.       *)
LEMMA GapStays ==
    ASSUME IInv, Gap, NEW c \in Clients, NEW n \in Names,
           NEW num \in 1 .. MaxOctet, BuiltAs(c, n, num)
    PROVE  Gap'
  <1> USE DirectoryAssumption
  <1> DEFINE k == Cardinality(Present)
  <1>1. PICK j \in 1 .. k : \A m \in Present : rooms[m].subnet # j
    BY DEF Gap
  <1>2. k \in Nat /\ num = k + 1
    BY PresentCounts DEF IInv, BuiltAs
  <1>3. Present' = Present \cup {n}
    BY DEF Present, BuiltAs
  <1>4. Cardinality(Present') \in {k, k + 1}
    BY <1>3, PresentIsFinite, FS_AddElement
  <1>5. rooms'[n].subnet = num
    BY DEF BuiltAs
  <1>6. \A m \in Present' : m # n => m \in Present /\ rooms'[m] = rooms[m]
    BY <1>3 DEF Present, BuiltAs
  <1> HIDE DEF k
  <1>7. j # num /\ j \in 1 .. Cardinality(Present')
    BY <1>2, <1>4
  <1>8. \A m \in Present' : rooms'[m].subnet # j
    BY <1>1, <1>5, <1>6, <1>7
  <1> QED
    BY <1>7, <1>8 DEF Gap

(* A room in the place of another frees the number of that one.            *)
LEMMA OverwritingLeavesGap ==
    ASSUME IInv, NEW c \in Clients, NEW n \in Names, rooms[n] # NoRoom,
           NEW num \in 1 .. MaxOctet, BuiltAs(c, n, num)
    PROVE  Gap'
  <1> USE DirectoryAssumption
  <1>1. CASE Gap
    BY <1>1, GapStays
  <1>2. CASE ~Gap
    <2> DEFINE k == Cardinality(Present)
               j == rooms[n].subnet
    <2>1. /\ {rooms[m].subnet : m \in Present} = 1 .. k
          /\ \A m, l \in Present : m # l => rooms[m].subnet # rooms[l].subnet
      BY <1>2, NoGapIsCounted DEF Counted
    <2>2. n \in Present
      BY DEF Present
    <2>3. j \in 1 .. k
      BY <2>1, <2>2
    <2>4. k \in Nat /\ num = k + 1
      BY PresentCounts DEF IInv, BuiltAs
    <2>5. Present' = Present
      BY DEF Present, BuiltAs
    <2>6. rooms'[n].subnet = num
      BY DEF BuiltAs
    <2>7. \A m \in Present : m # n => rooms'[m] = rooms[m] /\ rooms[m].subnet # j
      BY <2>1, <2>2 DEF Present, BuiltAs
    <2>8. Cardinality(Present') = k
      BY <2>5
    <2> HIDE DEF k, j
    <2>9. j # num
      BY <2>3, <2>4
    <2>10. \A m \in Present : rooms'[m].subnet # j
      BY <2>6, <2>7, <2>9
    <2> QED
      BY <2>3, <2>5, <2>8, <2>10 DEF Gap
  <1> QED
    BY <1>1, <1>2

LEMMA SettlingStep ==
    ASSUME IInv, IInv', Anchored, Settling, [Next]_vars
    PROVE  Settling'
  <1> USE DirectoryAssumption
  <1> SUFFICES ASSUME NEW n \in Names
               PROVE  Settled(n)' \/ (n \in contested' /\ Gap')
    BY DEF Settling
  <1>1. Settled(n) \/ (n \in contested /\ Gap)
    BY DEF Settling
  <1>2. ASSUME UNCHANGED <<rooms, contested>>
        PROVE  n \in contested /\ Gap => n \in contested' /\ Gap'
    BY <1>2 DEF Gap, Present
  <1>3. CASE UNCHANGED vars
    <2>1. Settled(n) => Settled(n)'
      BY <1>3 DEF vars, Settled
    <2> QED
      BY <1>1, <1>2, <1>3, <2>1 DEF vars
  <1>4. CASE Restart
    <2>1. \A c \in Clients : pc'[c] = "read"
      BY <1>4 DEF Restart
    <2> QED
      BY <1>4, <2>1, ComesBack DEF Settled
  <1>5. ASSUME NEW c \in Clients, Create(c) \/ Register(c)
        PROVE  Settled(n)' \/ (n \in contested' /\ Gap')
    <2>1. \A d \in Clients \ {c} : pc'[d] = pc[d] /\ local'[d] = local[d]
      BY <1>5, OthersStay
    <2>2. CASE Quiet(c)
      <3>1. Settled(n) => Settled(n)'
        BY <2>1, <2>2 DEF Quiet, Settled
      <3> QED
        BY <1>1, <1>2, <2>2, <3>1 DEF Quiet
    <2>3. ASSUME NEW m \in Names, NEW num \in 1 .. MaxOctet, BuiltAs(c, m, num)
          PROVE  Settled(n)' \/ (n \in contested' /\ Gap')
      <3>1. n \in contested => n \in contested'
        BY <2>3 DEF BuiltAs, Contest
      <3>2. CASE n \in contested /\ Gap
        BY <2>3, <3>1, <3>2, GapStays
      <3>3. CASE Settled(n) /\ m # n
        <4>1. Settled(n)'
          BY <2>1, <2>3, <3>3 DEF BuiltAs, Settled
        <4> QED
          BY <4>1
      <3>4. CASE m = n /\ rooms[n] # NoRoom
        <4>1. Gap' /\ n \in contested'
          BY <2>3, <3>4, OverwritingLeavesGap DEF BuiltAs, Contest
        <4> QED
          BY <4>1
      <3>5. CASE m = n /\ rooms[n] = NoRoom
        <4>1. roomRows[n] = NoRoom
          BY <3>5 DEF Anchored
        <4>2. \A d \in Clients : ~(pc[d] = "persist" /\ local[d].name = n)
          BY <3>5 DEF Anchored
        <4>3. Settled(n)'
          BY <2>1, <2>3, <3>5, <4>1, <4>2 DEF BuiltAs, Settled
        <4> QED
          BY <4>3
      <3> QED
        BY <1>1, <3>2, <3>3, <3>4, <3>5
    <2>4. ASSUME NEW m \in Names, PersistedAs(c, m)
          PROVE  Settled(n)' \/ (n \in contested' /\ Gap')
      <3>1. Settled(n) => Settled(n)'
        BY <2>1, <2>4 DEF PersistedAs, Settled
      <3> QED
        BY <1>1, <1>2, <2>4, <3>1 DEF PersistedAs
    <2>5. ASSUME NEW m \in Names, ConfirmedAs(c, m)
          PROVE  Settled(n)' \/ (n \in contested' /\ Gap')
      <3>1. Settled(n) => Settled(n)'
        BY <2>1, <2>5 DEF ConfirmedAs, Settled
      <3> QED
        BY <1>1, <1>2, <2>5, <3>1 DEF ConfirmedAs
    <2> QED
      BY <1>5, <2>2, <2>3, <2>4, <2>5, StepKinds
  <1> QED
    BY <1>3, <1>4, <1>5 DEF Next

LEMMA SettlingHolds == Spec => []Settling
  <1>1. Init => Settling
    BY DEF Init, Settling, Settled
  <1>2. IInv /\ IInv' /\ Anchored /\ Settling /\ [Next]_vars => Settling'
    BY SettlingStep
  <1> QED
    BY Invariance, AnchoredHolds, <1>1, <1>2, PTL DEF Spec

(* A room keeps its subnet in the life of a server and from one to the     *)
(* next, whether its row was written or not (without one it does not come  *)
(* back), if no second handler has made it too.                            *)
THEOREM SubnetsStay == Spec => SubnetStable
  <1> DEFINE Stays == \A n \in Present \ contested' : store /\ rooms'[n] # NoRoom
                                              => rooms'[n].subnet = rooms[n].subnet
  <1>1. ASSUME IInv, Anchored, Settling, [Next]_vars
        PROVE  [Stays]_vars
    <2> SUFFICES ASSUME NEW n \in Names, rooms[n] # NoRoom, rooms'[n] # NoRoom,
                        n \notin contested', store
                 PROVE  rooms'[n].subnet = rooms[n].subnet
      BY DEF Present
    <2>1. CASE UNCHANGED vars
      BY <2>1 DEF vars
    <2>2. CASE Restart
      <3>1. n \notin contested
        BY <2>2 DEF Restart
      <3>2. Settled(n)
        BY <1>1, <3>1 DEF Settling
      <3>3. CASE roomRows[n] # NoRoom
        BY <1>1, <2>2, <3>2, <3>3, ComesBack DEF Settled
      <3>4. CASE roomRows[n] = NoRoom
        <4>1. n \in Configured
          BY <1>1, <2>2, <3>4, ComesBack
        <4>2. rooms'[n] = ConfiguredAs[n]
          BY <1>1, <2>2, <4>1, ComesBack
        <4>3. rooms[n] = ConfiguredAs[n]
          BY <1>1, <4>1 DEF Anchored
        <4> QED
          BY <4>2, <4>3
      <3> QED
        BY <3>3, <3>4
    <2>3. ASSUME NEW c \in Clients, Create(c) \/ Register(c)
          PROVE  rooms'[n] = rooms[n]
      <3>1. ASSUME NEW m \in Names, NEW num \in 1 .. MaxOctet, BuiltAs(c, m, num)
            PROVE  rooms'[n] = rooms[n]
        BY <3>1 DEF BuiltAs, Contest
      <3> QED
        BY <1>1, <2>3, <3>1, StepKinds DEF Quiet, PersistedAs, ConfirmedAs
    <2> QED
      BY <1>1, <2>1, <2>2, <2>3 DEF Next
  <1>2. IInv /\ Anchored /\ Settling /\ [Next]_vars => [Stays]_vars
    BY <1>1
  <1> QED
    BY Invariance, AnchoredHolds, SettlingHolds, <1>2, PTL DEF Spec, SubnetStable

-----------------------------------------------------------------------------
(* The rooms that come back have the subnets they had, for the directory   *)
(* was counted and so every row agrees with the memory.                    *)
LEMMA ComeBackAsWere ==
    ASSUME IInv, Anchored, Settling, Counted, Restart, NEW n \in Present'
    PROVE  n \in Present /\ rooms'[n].subnet = rooms[n].subnet
  <1>1. n \in Names /\ rooms'[n] # NoRoom
    BY DEF Present
  <1>2. n \in Present
    BY <1>1, ComesBack DEF Present
  <1>3. Settled(n)
    BY <1>1, CountedHasNoGap DEF Settling
  <1>4. CASE roomRows[n] # NoRoom
    BY <1>1, <1>2, <1>3, <1>4, ComesBack DEF Settled
  <1>5. CASE roomRows[n] = NoRoom
    <2>1. n \in Configured
      BY <1>1, <1>5, ComesBack
    <2> QED
      BY <1>1, <1>2, <2>1, ComesBack DEF Anchored
  <1> QED
    BY <1>4, <1>5

(* A restart that loses no older room than those it brings back loses the  *)
(* last numbers only.                                                      *)
LEMMA RestartCounts ==
    ASSUME IInv, IInv', Anchored, Settling, Counted, Restart, ~LosesOlder
    PROVE  Counted'
  <1> USE DirectoryAssumption
  <1> SUFFICES ASSUME ~Counted' PROVE FALSE
    OBVIOUS
  <1> DEFINE k == Cardinality(Present)
             kk == Cardinality(Present')
  <1>1. k \in Nat
    BY PresentCounts DEF IInv
  <1>2. \A n \in Present' : n \in Present /\ rooms'[n].subnet = rooms[n].subnet
    BY ComeBackAsWere
  <1>3. IsFiniteSet(Present') /\ kk \in Nat /\ kk <= k
    <2>1. Present' \in SUBSET Present
      BY <1>2
    <2> QED
      BY <2>1, PresentIsFinite, FS_Subset, FS_CardinalityType
  <1>4. Gap'
    <2>1. ASSUME IInv', ~Gap'
          PROVE  Counted'
      BY <2>1, NoGapIsCounted, PTL
    <2> QED
      BY <2>1
  <1>5. PICK j \in 1 .. kk : \A n \in Present' : rooms'[n].subnet # j
    BY <1>4 DEF Gap
  <1>6. {rooms[n].subnet : n \in Present} = 1 .. k
    BY DEF Counted
  <1>7. \A n, m \in Present : n # m => rooms[n].subnet # rooms[m].subnet
    BY CountedHasNoGap, NoGapIsCounted
  <1> HIDE DEF k, kk
  <1>8. j \in 1 .. k
    BY <1>1, <1>3
  <1>9. PICK n \in Present : rooms[n].subnet = j
    BY <1>6, <1>8
  <1>10. n \in Names /\ n \notin Present'
    BY <1>2, <1>5, <1>9 DEF Present
  <1>11. rooms'[n] = NoRoom
    BY <1>10 DEF Present
  <1>12. ASSUME NEW m \in Present'
         PROVE  rooms[m].subnet \in 1 .. j - 1
    <2>1. m \in Present /\ rooms[m].subnet # j /\ rooms'[m] # NoRoom
      BY <1>2, <1>5 DEF Present
    <2>2. ~(j < rooms[m].subnet)
      BY <1>9, <1>11, <2>1 DEF LosesOlder
    <2>3. rooms[m].subnet \in 1 .. k
      BY <1>6, <2>1
    <2> QED
      BY <1>1, <1>8, <2>1, <2>2, <2>3
  <1> DEFINE f == [m \in Present' |-> rooms[m].subnet]
  <1>13. f \in [Present' -> 1 .. j - 1]
    BY <1>12
  <1>14. \A m, l \in Present' : f[m] = f[l] => m = l
    BY <1>2, <1>7
  <1> HIDE DEF f
  <1>15. f \in Injection(Present', 1 .. j - 1)
    BY <1>13, <1>14 DEF Injection, IsInjective
  <1>16. IsFiniteSet(1 .. j - 1) /\ Cardinality(1 .. j - 1) = j - 1
    <2>1. j - 1 \in Nat
      BY <1>3
    <2> QED
      BY <2>1, FS_Interval
  <1>17. Cardinality(Present') <= j - 1
    BY <1>15, <1>16, FS_Injection
  <1>18. kk <= j - 1
    BY <1>17 DEF kk
  <1> QED
    BY <1>3, <1>18

(* A new room takes the next number.                                       *)
LEMMA BuildTakesNextNumber ==
    ASSUME IInv, Counted, NEW c \in Clients, NEW n \in Names, rooms[n] = NoRoom,
           NEW num \in 1 .. MaxOctet, BuiltAs(c, n, num)
    PROVE  Counted'
  <1> DEFINE k == Cardinality(Present)
  <1>1. k \in Nat /\ num = k + 1
    BY PresentCounts DEF IInv, BuiltAs
  <1>2. n \notin Present /\ Present' = Present \cup {n}
    BY DEF Present, BuiltAs
  <1>3. Cardinality(Present') = k + 1
    BY <1>2, PresentIsFinite, FS_AddElement
  <1>4. rooms'[n].subnet = k + 1
    BY <1>1 DEF BuiltAs
  <1>5. \A m \in Present : rooms'[m].subnet = rooms[m].subnet
    BY <1>2 DEF Present, BuiltAs
  <1>6. {rooms[m].subnet : m \in Present} = 1 .. k
    BY DEF Counted
  <1> HIDE DEF k
  <1>7. 1 .. k + 1 = (1 .. k) \cup {k + 1}
    BY <1>1
  <1>8. {rooms'[m].subnet : m \in Present'} = (1 .. k) \cup {k + 1}
    BY <1>2, <1>4, <1>5, <1>6
  <1> QED
    BY <1>3, <1>7, <1>8 DEF Counted

(* The subnets stay numbered from 1 without a gap, so that they are apart  *)
(* and the next one is free, through any requests of any clients, any      *)
(* failing inserts and any restarts, except where a handler puts a room in *)
(* the place of another or a restart loses an older room than it brings    *)
(* back.                                                                   *)
THEOREM NumberingIsKept == Spec => NumberingKept
  <1> DEFINE Step == Counted => Counted' \/ LosesOlder \/ \E c \in Clients : Overwrites(c)
  <1>1. ASSUME Init, ConfigurationCounted
        PROVE  Counted
    <2>1. \A n \in Names : rooms[n] = IF n \in Configured THEN ConfiguredAs[n] ELSE NoRoom
      BY <1>1 DEF Init, Loaded
    <2>2. Present = Configured
      BY <2>1, DirectoryAssumption DEF Present
    <2>3. \A n \in Configured : rooms[n] = ConfiguredAs[n]
      BY <2>1, DirectoryAssumption
    <2>4. {rooms[n].subnet : n \in Configured} = {ConfiguredAs[n].subnet : n \in Configured}
      BY <2>3
    <2> QED
      BY <1>1, <2>2, <2>4 DEF ConfigurationCounted, Counted
  <1>2. ASSUME IInv, IInv', Anchored, Settling, [Next]_vars
        PROVE  [Step]_vars
    <2> SUFFICES ASSUME Counted, ~LosesOlder, ~ \E c \in Clients : Overwrites(c)
                 PROVE  Counted' \/ UNCHANGED vars
      OBVIOUS
    <2>1. CASE Restart
      BY <1>2, <2>1, RestartCounts
    <2>2. ASSUME NEW c \in Clients, Create(c) \/ Register(c)
          PROVE  Counted'
      <3>1. ASSUME NEW n \in Names, NEW num \in 1 .. MaxOctet, BuiltAs(c, n, num)
            PROVE  Counted'
        <4>1. CASE rooms[n] = NoRoom
          BY <1>2, <3>1, <4>1, BuildTakesNextNumber
        <4>2. CASE rooms[n] # NoRoom
          <5>1. n \in Present
            BY <4>2 DEF Present
          <5>2. rooms[n].subnet < num
            BY <1>2, <3>1, <5>1, CountedIsDistinct DEF BuiltAs
          <5>3. rooms'[n].subnet = num
            BY <3>1 DEF BuiltAs
          <5>4. rooms' # rooms
            BY <5>2, <5>3
          <5>5. Overwrites(c)
            BY <3>1, <4>2, <5>4 DEF BuiltAs, Overwrites
          <5> QED
            BY <5>5
        <4> QED
          BY <4>1, <4>2
      <3>2. ASSUME UNCHANGED rooms
            PROVE  Counted'
        BY <3>2 DEF Counted, Present
      <3> QED
        BY <1>2, <2>2, <3>1, <3>2, StepKinds DEF Quiet, PersistedAs, ConfirmedAs
    <2> QED
      BY <1>2, <2>1, <2>2 DEF Next
  <1>3. IInv /\ IInv' /\ Anchored /\ Settling /\ [Next]_vars => [Step]_vars
    BY <1>2
  <1>4. Init => (ConfigurationCounted => Counted)
    BY <1>1
  <1> HIDE DEF Step
  <1>5. Spec => (ConfigurationCounted => Counted) /\ [][Step]_vars
    BY Invariance, AnchoredHolds, SettlingHolds, <1>3, <1>4, PTL DEF Spec
  <1> QED
    BY <1>5 DEF Step, NumberingKept
=============================================================================
