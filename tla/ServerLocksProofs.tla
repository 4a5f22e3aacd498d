------------------------- MODULE ServerLocksProofs -------------------------
(***************************************************************************)
(* Proofs about ServerLocks, for any clients and any capacity of their     *)
(* connections.  The invariant is LocksAreInUse: it says what the holder   *)
(* of a mutex is doing, and with it the chains of waiting goroutines can   *)
(* be followed to their ends.  The last part is about the stream of bytes  *)
(* of Wire, which such a mutex keeps in order.                             *)
(***************************************************************************)
EXTENDS ServerLocks, FiniteSetTheorems, SequenceTheorems, TLAPS

Reading == p2p \/ \A c \in Clients : reply[c] = <<>>

-----------------------------------------------------------------------------
(* Lists of operations.                                                    *)

LEMMA OrdersAreSequences ==
    ASSUME NEW S, S \subseteq Clients, NEW f \in Orders(S)
    PROVE  /\ f \in Seq(Clients) /\ DOMAIN f = 1 .. Cardinality(S)
           /\ Cardinality(S) \in Nat /\ (S # {} => Cardinality(S) > 0)
<1>1. IsFiniteSet(S)
  BY FS_Subset, LocksAssumption
<1>2. Cardinality(S) \in Nat /\ (Cardinality(S) = 0 <=> S = {})
  BY <1>1, FS_CardinalityType, FS_EmptySet
<1>3. f \in [1 .. Cardinality(S) -> S]
  BY DEF Orders
<1> QED
  BY <1>2, <1>3, SMT

LEMMA EachTyped ==
    ASSUME NEW S \in SUBSET Clients, NEW f \in Orders(S),
           NEW o \in {"visit", "post"}, NEW w \in Notices
    PROVE  /\ Each(o, f, w) \in Seq(Operations) /\ Len(Each(o, f, w)) = Cardinality(S)
           /\ \A i \in 1 .. Cardinality(S) : Each(o, f, w)[i].op = o
<1>1. /\ f \in Seq(Clients) /\ DOMAIN f = 1 .. Cardinality(S)
      /\ Cardinality(S) \in Nat
  BY OrdersAreSequences
<1>2. \A i \in DOMAIN f : Do(o, f[i], w) \in Operations /\ Do(o, f[i], w).op = o
  BY <1>1 DEF Do, Operations
<1>3. Each(o, f, w) = [i \in 1 .. Cardinality(S) |-> Do(o, f[i], w)]
  BY <1>1 DEF Each
<1> QED
  BY <1>1, <1>2, <1>3, SMT

-----------------------------------------------------------------------------
(* Mutexes are held by who uses them.                                      *)

LEMMA OthersUntouched ==
    ASSUME TypeOK, LocksAreInUse, NEW h \in Clients,
           ~Doing(h, "post"), ~Doing(h, "visit"),
           \A d \in Clients \ {h} : todo'[d] = todo[d],
           mutex' = mutex, readers' = readers
    PROVE  LocksAreInUse'
<1>1. ASSUME NEW c \in Clients, mutex[c] # Nobody
      PROVE  /\ todo'[mutex[c]] # <<>>
             /\ Head(todo'[mutex[c]]).op = "post" /\ Head(todo'[mutex[c]]).on = c
  <2>1. mutex[c] \in Clients /\ Doing(mutex[c], "post") /\ On(mutex[c]) = c
    BY <1>1 DEF TypeOK, LocksAreInUse
  <2>2. mutex[c] # h
    BY <2>1
  <2> QED
    BY <2>1, <2>2 DEF Doing, On
<1>2. ASSUME NEW r \in readers
      PROVE  todo'[r] # <<>> /\ Head(todo'[r]).op = "visit"
  <2>1. r \in Clients \ {h} /\ Doing(r, "visit")
    BY DEF TypeOK, LocksAreInUse
  <2> QED
    BY <2>1 DEF Doing
<1> QED
  BY <1>1, <1>2 DEF LocksAreInUse, Doing, On

LEMMA LocksStep ==
    ASSUME TypeOK, LocksAreInUse, NEW h \in Clients, Lock(h) \/ WriteLocked(h)
    PROVE  LocksAreInUse'
<1>1. h \in Clients /\ Doing(h, "post") /\ ~Doing(h, "visit")
  BY DEF Lock, WriteLocked, Doing
<1>2. CASE Lock(h)
  <2>1. /\ mutex' = [mutex EXCEPT ![On(h)] = h] /\ todo' = todo /\ readers' = readers
    BY <1>2 DEF Lock
  <2> QED
    BY <1>1, <2>1 DEF TypeOK, LocksAreInUse, Doing, On
<1>3. CASE WriteLocked(h)
  <2>1. /\ mutex' = [mutex EXCEPT ![On(h)] = Nobody] /\ readers' = readers
        /\ \A d \in Clients \ {h} : todo'[d] = todo[d]
    BY <1>3 DEF WriteLocked, Write, Done, TypeOK
  <2>2. ASSUME NEW c \in Clients, mutex'[c] # Nobody
        PROVE  /\ todo'[mutex'[c]] # <<>>
               /\ Head(todo'[mutex'[c]]).op = "post" /\ Head(todo'[mutex'[c]]).on = c
    <3>1. mutex'[c] = mutex[c] /\ c # On(h)
      BY <2>1, <2>2 DEF TypeOK
    <3>2. mutex[c] \in Clients /\ Doing(mutex[c], "post") /\ On(mutex[c]) = c
      BY <2>2, <3>1 DEF TypeOK, LocksAreInUse
    <3>3. mutex[c] # h
      BY <3>1, <3>2
    <3> QED
      BY <2>1, <3>1, <3>2, <3>3 DEF Doing, On
  <2>3. ASSUME NEW r \in readers'
        PROVE  todo'[r] # <<>> /\ Head(todo'[r]).op = "visit"
    <3>1. r \in Clients \ {h} /\ Doing(r, "visit")
      BY <1>1, <2>1 DEF TypeOK, LocksAreInUse
    <3> QED
      BY <2>1, <3>1 DEF Doing
  <2> QED
    BY <2>2, <2>3 DEF LocksAreInUse, Doing, On
<1> QED
  BY <1>2, <1>3

LEMMA BroadcastStep ==
    ASSUME TypeOK, LocksAreInUse, NEW h \in Clients, Broadcast(h)
    PROVE  LocksAreInUse'
<1>1. PICK order \in Orders(members) :
          todo' = [todo EXCEPT ![h] = (Each("visit", order, "plain") \o Each("post", order, "update"))
                                        \o Tail(todo[h])]
  BY DEF Broadcast, DoInstead, TypeOK
<1>2. /\ Doing(h, "broadcast") /\ mutex' = mutex
      /\ readers' = IF members = {} THEN readers ELSE readers \cup {h}
  BY DEF Broadcast
<1>3. \A d \in Clients \ {h} : todo'[d] = todo[d]
  BY <1>1 DEF TypeOK
<1>4. CASE members = {}
  BY <1>2, <1>3, <1>4, OthersUntouched DEF Doing
<1>5. CASE members # {}
  <2>1. ASSUME NEW c \in Clients, mutex[c] # Nobody
        PROVE  /\ todo'[mutex[c]] # <<>>
               /\ Head(todo'[mutex[c]]).op = "post" /\ Head(todo'[mutex[c]]).on = c
    <3>1. mutex[c] \in Clients /\ Doing(mutex[c], "post") /\ On(mutex[c]) = c
      BY <2>1 DEF TypeOK, LocksAreInUse
    <3>2. mutex[c] # h
      BY <1>2, <3>1 DEF Doing
    <3> QED
      BY <1>3, <3>1, <3>2 DEF Doing, On
  <2>2. todo'[h] # <<>> /\ Head(todo'[h]).op = "visit"
    <3>0. PICK M \in SUBSET Clients : M = members
      BY DEF TypeOK
    <3>1. /\ Each("visit", order, "plain") \in Seq(Operations)
          /\ Len(Each("visit", order, "plain")) = Cardinality(members)
          /\ \A i \in 1 .. Cardinality(members) : Each("visit", order, "plain")[i].op = "visit"
      <4>1. order \in Orders(M)
        BY <3>0
      <4>2. "plain" \in Notices
        BY DEF Notices
      <4> QED
        BY <3>0, <4>1, <4>2, EachTyped
    <3>2. Each("post", order, "update") \in Seq(Operations)
      <4>1. order \in Orders(M)
        BY <3>0
      <4>2. "update" \in Notices
        BY DEF Notices
      <4> QED
        BY <4>1, <4>2, EachTyped
    <3>3. Cardinality(members) \in Nat /\ Cardinality(members) > 0
      BY <1>5, OrdersAreSequences DEF TypeOK
    <3>4. Tail(todo[h]) \in Seq(Operations)
      BY <1>2 DEF TypeOK, Doing
    <3>5. todo'[h] = (Each("visit", order, "plain") \o Each("post", order, "update")) \o Tail(todo[h])
      BY <1>1 DEF TypeOK
    <3>6. ASSUME NEW s \in Seq(Operations), NEW t \in Seq(Operations), NEW u \in Seq(Operations),
                 Len(s) > 0
          PROVE  Len((s \o t) \o u) > 0 /\ Head((s \o t) \o u) = s[1] /\ (s \o t) \o u # <<>>
      BY <3>6, SMT
    <3>7. /\ todo'[h] # <<>>
          /\ Head(todo'[h]) = Each("visit", order, "plain")[1]
      BY <3>1, <3>2, <3>3, <3>4, <3>5, <3>6
    <3> QED
      BY <3>1, <3>3, <3>7
  <2>3. ASSUME NEW r \in readers, r # h
        PROVE  todo'[r] # <<>> /\ Head(todo'[r]).op = "visit"
    BY <1>3, <2>3 DEF TypeOK, LocksAreInUse, Doing
  <2> QED
    BY <1>2, <1>5, <2>1, <2>2, <2>3 DEF LocksAreInUse, Doing, On
<1> QED
  BY <1>4, <1>5

LEMMA VisitStep ==
    ASSUME TypeOK, LocksAreInUse, NEW h \in Clients, Visit(h)
    PROVE  LocksAreInUse'
<1>1. /\ Doing(h, "visit") /\ mutex' = mutex
      /\ todo' = [todo EXCEPT ![h] = Tail(@)]
      /\ readers' = IF Len(todo[h]) > 1 /\ todo[h][2].op = "visit" THEN readers ELSE readers \ {h}
  BY DEF Visit, Done
<1>2. \A d \in Clients \ {h} : todo'[d] = todo[d]
  BY <1>1 DEF TypeOK
<1>3. ASSUME NEW c \in Clients, mutex[c] # Nobody
      PROVE  /\ todo'[mutex[c]] # <<>>
             /\ Head(todo'[mutex[c]]).op = "post" /\ Head(todo'[mutex[c]]).on = c
  <2>1. mutex[c] \in Clients /\ Doing(mutex[c], "post") /\ On(mutex[c]) = c
    BY <1>3 DEF TypeOK, LocksAreInUse
  <2>2. mutex[c] # h
    BY <1>1, <2>1 DEF Doing
  <2> QED
    BY <1>2, <2>1, <2>2 DEF Doing, On
<1>4. ASSUME NEW r \in readers'
      PROVE  todo'[r] # <<>> /\ Head(todo'[r]).op = "visit"
  <2>1. r \in readers /\ r \in Clients /\ Doing(r, "visit")
    BY <1>1, <1>4 DEF TypeOK, LocksAreInUse
  <2>2. CASE r # h
    BY <1>2, <2>1, <2>2 DEF Doing
  <2>3. CASE r = h
    <3>1. /\ todo[h] \in Seq(Operations) /\ Len(todo[h]) > 1 /\ todo[h][2].op = "visit"
          /\ todo'[h] = Tail(todo[h])
      BY <1>1, <1>4, <2>3 DEF TypeOK
    <3>2. ASSUME NEW s \in Seq(Operations), Len(s) > 1
          PROVE  Tail(s) # <<>> /\ Head(Tail(s)) = s[2]
      BY <3>2, SMT
    <3> QED
      BY <2>3, <3>1, <3>2
  <2> QED
    BY <2>2, <2>3
<1> QED
  BY <1>1, <1>3, <1>4 DEF LocksAreInUse, Doing, On

LEMMA InUsePreserved ==
    ASSUME TypeOK, LocksAreInUse, [Next]_vars
    PROVE  LocksAreInUse'
<1>1. CASE UNCHANGED vars
  BY <1>1 DEF vars, LocksAreInUse, Doing, On
<1>2. CASE Next
  <2>1. PICK h \in Clients :
            \/ Serve(h) \/ Receive(h) \/ Disconnect(h)
            \/ Break(h) \/ Check(h) \/ Hang(h) \/ Quit(h)
            \/ SendPacket(h) \/ Ping(h) \/ Answer(h) \/ Flush(h) \/ Read(h) \/ FailToJoin(h)
    BY <1>2 DEF Next
  <2>2. CASE Receive(h) \/ Disconnect(h)
    <3>1. /\ todo[h] = <<>> /\ mutex' = mutex /\ readers' = readers
          /\ \A d \in Clients \ {h} : todo'[d] = todo[d]
      BY <2>2 DEF Receive, Disconnect, TypeOK
    <3> QED
      BY <3>1, OthersUntouched DEF Doing
  <2>3. CASE Route(h)
    BY <2>3, OthersUntouched DEF Route, Doing, Done, DoInstead, TypeOK
  <2>4. CASE Section(h) \/ WriteUnlocked(h) \/ Edit(h) \/ Drop(h)
    <3>1. /\ mutex' = mutex /\ readers' = readers
          /\ \A d \in Clients \ {h} : todo'[d] = todo[d]
          /\ ~Doing(h, "post") /\ ~Doing(h, "visit")
      BY <2>4 DEF Section, WriteUnlocked, Write, Edit, Drop, Done, Doing, TypeOK
    <3> QED
      BY <3>1, OthersUntouched
  <2>5. CASE Lock(h) \/ WriteLocked(h)
    BY <2>5, LocksStep
  <2>6. CASE Broadcast(h)
    BY <2>6, BroadcastStep
  <2>7. CASE Visit(h)
    BY <2>7, VisitStep
  <2>8. CASE \/ Break(h) \/ Check(h) \/ Hang(h) \/ Quit(h) \/ SendPacket(h) \/ Ping(h)
             \/ Answer(h) \/ Flush(h) \/ Read(h) \/ FailToJoin(h)
    <3>1. todo' = todo /\ mutex' = mutex /\ readers' = readers
      BY <2>8 DEF Break, Check, Hang, Quit, SendPacket, Ping, Answer, Acquire, Flush,
         Read, FailToJoin
    <3> QED
      BY <3>1 DEF LocksAreInUse, Doing, On
  <2> QED
    BY <2>1, <2>2, <2>3, <2>4, <2>5, <2>6, <2>7, <2>8 DEF Serve
<1> QED
  BY <1>1, <1>2

-----------------------------------------------------------------------------
(* Chains of waiting goroutines.                                           *)

LEMMA WaitsOfEach ==
    ASSUME NEW c \in Clients
    PROVE  /\ Waits(Handler(c)) = HandlerWaits(c)
           /\ Waits(Loop(c)) = LoopWaits(c)
           /\ Waits(Sender(c)) = SenderWaits(c)
BY DEF Waits, Handler, Loop, Sender

LEMMA NoneAlone ==
    ASSUME NEW S \in StuckSets, NEW g \in S
    PROVE  g \in Goroutines /\ Waits(g) \cap S # {}
BY DEF StuckSets

(* A handler in S that holds the mutex it needs waits for a full client.   *)
LEMMA HolderAtFullClient ==
    ASSUME NEW S \in StuckSets, NEW m \in Clients, Handler(m) \in S,
           Doing(m, "post"), mutex[On(m)] = m
    PROVE  \E c \in open : Loop(c) \in S /\ Len(down[c]) = Capacity
<1>1. ~WantsMutex(m) /\ ~WantsRoom(m)
  BY DEF WantsMutex, WantsRoom, Doing
<1>2. HandlerWaits(m) = IF WantsConnection(m) THEN {Loop(On(m))} ELSE {}
  BY <1>1 DEF HandlerWaits
<1>3. HandlerWaits(m) \cap S # {}
  BY NoneAlone, WaitsOfEach
<1>4. WantsConnection(m) /\ Loop(On(m)) \in S
  BY <1>2, <1>3
<1> QED
  BY <1>4 DEF WantsConnection

(* One that waits for a mutex waits for such a holder.                     *)
LEMMA WaiterAtFullClient ==
    ASSUME TypeOK, LocksAreInUse, NEW S \in StuckSets, NEW h \in Clients, Handler(h) \in S,
           WantsMutex(h)
    PROVE  \E c \in open : Loop(c) \in S /\ Len(down[c]) = Capacity
<1>1. On(h) \in Clients
  <2>1. todo[h] \in Seq(Operations) /\ todo[h] # <<>>
    BY DEF TypeOK, WantsMutex, Doing
  <2>2. Head(todo[h]) \in Operations
    BY <2>1
  <2> QED
    BY <2>2 DEF On, Operations
<1>2. mutex[On(h)] # Nobody
  BY DEF WantsMutex
<1> DEFINE m == mutex[On(h)]
<1>3. m \in Clients /\ Doing(m, "post") /\ On(m) = On(h)
  BY <1>1, <1>2 DEF TypeOK, LocksAreInUse
<1>4. HandlerWaits(h) = {Handler(m)}
  BY DEF HandlerWaits
<1>5. HandlerWaits(h) \cap S # {}
  BY NoneAlone, WaitsOfEach
<1>6. Handler(m) \in S
  BY <1>4, <1>5
<1>7. mutex[On(m)] = m
  BY <1>3
<1> QED
  BY <1>3, <1>6, <1>7, HolderAtFullClient

(* One that waits to edit the room waits for a reader that waits for a     *)
(* mutex.                                                                  *)
LEMMA EditorAtFullClient ==
    ASSUME TypeOK, LocksAreInUse, NEW S \in StuckSets, NEW h \in Clients, Handler(h) \in S,
           Doing(h, "insert") \/ Doing(h, "remove")
    PROVE  \E c \in open : Loop(c) \in S /\ Len(down[c]) = Capacity
<1>1. ~WantsMutex(h) /\ ~WantsConnection(h)
  BY DEF WantsMutex, WantsConnection, Doing
<1>2. HandlerWaits(h) \cap S # {}
  BY NoneAlone, WaitsOfEach
<1>3. HandlerWaits(h) = IF WantsRoom(h) THEN {Handler(r) : r \in readers} ELSE {}
  BY <1>1 DEF HandlerWaits
<1>4. PICK r \in readers : Handler(r) \in S
  BY <1>2, <1>3
<1>5. r \in Clients /\ Doing(r, "visit")
  BY DEF TypeOK, LocksAreInUse
<1>6. HandlerWaits(r) \cap S # {}
  BY <1>4, <1>5, NoneAlone, WaitsOfEach
<1>7. ~WantsRoom(r) /\ ~WantsConnection(r)
  BY <1>5 DEF WantsRoom, WantsConnection, Doing
<1>8. WantsMutex(r)
  BY <1>6, <1>7 DEF HandlerWaits
<1> QED
  BY <1>4, <1>5, <1>8, WaiterAtFullClient

LEMMA HandlerAtFullClient ==
    ASSUME TypeOK, LocksAreInUse, NEW S \in StuckSets, NEW h \in Clients, Handler(h) \in S
    PROVE  \E c \in open : Loop(c) \in S /\ Len(down[c]) = Capacity
<1>1. HandlerWaits(h) \cap S # {}
  BY NoneAlone, WaitsOfEach
<1>2. CASE WantsMutex(h)
  BY <1>2, WaiterAtFullClient
<1>3. CASE Doing(h, "insert") \/ Doing(h, "remove")
  BY <1>3, EditorAtFullClient
<1>4. CASE ~WantsMutex(h) /\ WantsRoom(h) /\ ~(Doing(h, "insert") \/ Doing(h, "remove"))
  <2>1. HandlerWaits(h) =
            {Handler(w) : w \in {w \in Clients : Doing(w, "insert") \/ Doing(w, "remove")}}
    BY <1>4 DEF HandlerWaits
  <2>2. PICK w \in Clients : (Doing(w, "insert") \/ Doing(w, "remove")) /\ Handler(w) \in S
    BY <1>1, <2>1
  <2> QED
    BY <2>2, EditorAtFullClient
<1>5. CASE ~WantsMutex(h) /\ ~WantsRoom(h)
  <2>1. WantsConnection(h) /\ Loop(On(h)) \in S
    BY <1>1, <1>5 DEF HandlerWaits
  <2> QED
    BY <2>1 DEF WantsConnection
<1> QED
  BY <1>2, <1>3, <1>4, <1>5

LEMMA StallsExplained ==
    ASSUME TypeOK, LocksAreInUse
    PROVE  StallsAtFullClient
<1> SUFFICES ASSUME NEW S \in StuckSets, S \cap Handlers # {}
             PROVE  \E c \in open :
                       /\ Loop(c) \in S /\ Len(down[c]) = Capacity
                       /\ c \in hung \/ (reply[c] # <<>> /\ Len(up[c]) = Capacity)
  BY DEF StallsAtFullClient
<1>1. PICK h \in Clients : Handler(h) \in S
  BY DEF Handlers
<1>2. PICK c \in open : Loop(c) \in S /\ Len(down[c]) = Capacity
  BY <1>1, HandlerAtFullClient
<1>3. c \in Clients
  BY DEF TypeOK
<1>4. LoopWaits(c) \cap S # {}
  BY <1>2, <1>3, NoneAlone, WaitsOfEach
<1>5. CASE c \in hung
  BY <1>2, <1>5
<1>6. CASE c \notin hung /\ LoopWrites(c) /\ Full(c)
  BY <1>2, <1>6 DEF LoopWrites, Full
<1>7. CASE c \notin hung /\ ~(LoopWrites(c) /\ Full(c))
  <2>1. reply[c] # <<>> /\ Sender(c) \in S
    BY <1>4, <1>7 DEF LoopWaits
  <2>2. SenderWaits(c) \cap S # {}
    BY <1>3, <2>1, NoneAlone, WaitsOfEach
  <2>3. Full(c)
    BY <2>2 DEF SenderWaits
  <2> QED
    BY <1>2, <2>1, <2>3 DEF Full
<1> QED
  BY <1>5, <1>6, <1>7

LEMMA CyclesExcluded ==
    ASSUME TypeOK, LocksAreInUse
    PROVE  NoMutexCycle
<1> SUFFICES ASSUME NEW S \in StuckSets, S \subseteq Handlers, S # {}
             PROVE  FALSE
  BY DEF NoMutexCycle
<1>1. PICK h \in Clients : Handler(h) \in S
  BY DEF Handlers
<1>2. PICK c \in open : Loop(c) \in S
  BY <1>1, HandlerAtFullClient
<1>3. PICK d \in Clients : Loop(c) = Handler(d)
  BY <1>2 DEF Handlers
<1> QED
  BY <1>3 DEF Loop, Handler

LEMMA StallsExcluded ==
    ASSUME TypeOK, LocksAreInUse, Reading
    PROVE  NoStallWithoutManager
<1> SUFFICES ASSUME ~p2p, hung = {}
             PROVE  StuckSets = {{}}
  BY DEF NoStallWithoutManager
<1>1. \A c \in Clients : reply[c] = <<>>
  BY DEF Reading
<1>2. ASSUME NEW S \in StuckSets, NEW g \in S
      PROVE  FALSE
  <2>1. \A h \in Clients : Handler(h) \notin S
    <3> SUFFICES ASSUME NEW h \in Clients, Handler(h) \in S
                 PROVE  FALSE
      OBVIOUS
    <3>1. PICK c \in open : c \in hung \/ reply[c] # <<>>
      BY StallsExplained DEF StallsAtFullClient, Handlers
    <3> QED
      BY <1>1, <3>1 DEF TypeOK
  <2>2. PICK c \in Clients : g \in {Handler(c), Loop(c), Sender(c)}
    BY NoneAlone DEF Goroutines, Handler, Loop, Sender
  <2>3. CASE g = Loop(c)
    <3>1. LoopWaits(c) = {}
      BY <1>1 DEF LoopWaits, LoopWrites
    <3> QED
      BY <2>3, <3>1, NoneAlone, WaitsOfEach
  <2>4. CASE g = Sender(c)
    <3>1. SenderWaits(c) \subseteq {Handler(c)}
      BY DEF SenderWaits
    <3> QED
      BY <2>1, <2>4, <3>1, NoneAlone, WaitsOfEach
  <2> QED
    BY <2>1, <2>2, <2>3, <2>4
<1>3. {} \in StuckSets
  BY DEF StuckSets
<1> QED
  BY <1>2, <1>3

-----------------------------------------------------------------------------
(* Types.                                                                  *)

LEMMA TailTyped ==
    ASSUME NEW T, NEW s \in Seq(T), s # <<>>
    PROVE  Tail(s) \in Seq(T) /\ Head(s) \in T /\ Len(Tail(s)) = Len(s) - 1 /\ Len(s) \in Nat
BY SMT

LEMMA AppendTyped ==
    ASSUME NEW T, NEW s \in Seq(T), NEW e \in T
    PROVE  Append(s, e) \in Seq(T) /\ Len(Append(s, e)) = Len(s) + 1 /\ Len(s) \in Nat
BY SMT

LEMMA DepartureTyped ==
    ASSUME NEW c \in Clients
    PROVE  Departure(c) \in Seq(Operations)
<1>1. /\ Do("section", c, "plain") \in Operations /\ Do("remove", c, "plain") \in Operations
      /\ Do("broadcast", c, "plain") \in Operations
  BY DEF Do, Operations, Notices
<1> QED
  BY <1>1, SMT DEF Departure

LEMMA ProgramTyped ==
    ASSUME NEW c \in Clients, NEW r \in Requests
    PROVE  Program(c, r) \in Seq(Operations)
<1>1. r.to \in Clients /\ r.kind \in {"join", "leave", "data", "ping", "punchReq", "offer", "answer"}
  BY DEF Requests
<1>2. CASE r.kind = "join"
  <2>1. /\ Do("section", c, "plain") \in Operations /\ Do("insert", c, "plain") \in Operations
        /\ Do("write", c, "joined") \in Operations /\ Do("broadcast", c, "plain") \in Operations
    BY DEF Do, Operations, Notices
  <2> QED
    BY <1>2, <2>1, SMT DEF Program
<1>3. CASE r.kind = "leave"
  BY <1>3, DepartureTyped DEF Program
<1>4. CASE r.kind \in {"data", "punchReq"}
  <2>1. Do("route", r.to, "data") \in Operations /\ Do("route", r.to, "punchReq") \in Operations
    BY <1>1 DEF Do, Operations, Notices
  <2> QED
    BY <1>4, <2>1, SMT DEF Program
<1>5. CASE r.kind \in {"ping", "offer", "answer"}
  <2>1. /\ Do("section", c, "plain") \in Operations /\ Do("write", c, "plain") \in Operations
        /\ Do("route", c, "offer") \in Operations /\ Do("route", c, "answer") \in Operations
    BY DEF Do, Operations, Notices
  <2> QED
    BY <1>5, <2>1, SMT DEF Program
<1> QED
  BY <1>1, <1>2, <1>3, <1>4, <1>5

LEMMA CloseTyped ==
    ASSUME TypeOK, NEW c \in Clients, NEW rest \in Seq(Requests), Len(rest) <= Capacity,
           Close(c, rest)
    PROVE  /\ open' \subseteq clients \ {c}
           /\ up' \in [Clients -> Seq(Requests)] /\ down' \in [Clients -> Seq(Notices)]
           /\ \A d \in Clients : Len(up'[d]) <= Capacity /\ Len(down'[d]) <= Capacity
           /\ writing' \in [Clients -> Requests \cup {Idle}]
           /\ reply' \in [Clients -> Seq(Requests)]
<1>1. /\ up' = [up EXCEPT ![c] = rest] /\ down' = [down EXCEPT ![c] = <<>>]
      /\ writing' = [writing EXCEPT ![c] = Idle] /\ reply' = [reply EXCEPT ![c] = <<>>]
      /\ open' = open \ {c}
  BY DEF Close
<1>2. <<>> \in Seq(Notices) /\ <<>> \in Seq(Requests) /\ Len(<<>>) = 0
  BY SMT
<1>3. Capacity \in Nat
  BY LocksAssumption
<1>4. up' \in [Clients -> Seq(Requests)] /\ down' \in [Clients -> Seq(Notices)]
  BY <1>1, <1>2 DEF TypeOK
<1>5. writing' \in [Clients -> Requests \cup {Idle}] /\ reply' \in [Clients -> Seq(Requests)]
  BY <1>1, <1>2 DEF TypeOK
<1>6. \A d \in Clients : Len(up'[d]) <= Capacity /\ Len(down'[d]) <= Capacity
  <2> SUFFICES ASSUME NEW d \in Clients
               PROVE  Len(up'[d]) <= Capacity /\ Len(down'[d]) <= Capacity
    OBVIOUS
  <2>1. CASE d = c
    BY <1>1, <1>2, <1>3, <2>1 DEF TypeOK
  <2>2. CASE d # c
    BY <1>1, <2>2 DEF TypeOK
  <2> QED
    BY <2>1, <2>2
<1> QED
  BY <1>1, <1>4, <1>5, <1>6 DEF TypeOK

LEMMA TodoTyped ==
    ASSUME TypeOK, NEW h \in Clients, NEW ops \in Seq(Operations),
           \/ todo' = [todo EXCEPT ![h] = ops]
           \/ todo[h] # <<>> /\ todo' = [todo EXCEPT ![h] = ops \o Tail(@)]
           \/ todo[h] # <<>> /\ todo' = [todo EXCEPT ![h] = Tail(@)]
    PROVE  todo' \in [Clients -> Seq(Operations)]
<1>1. todo \in [Clients -> Seq(Operations)] /\ todo[h] \in Seq(Operations)
  BY DEF TypeOK
<1>2. todo[h] # <<>> => Tail(todo[h]) \in Seq(Operations) /\ ops \o Tail(todo[h]) \in Seq(Operations)
  BY <1>1, SMT
<1> QED
  BY <1>1, <1>2

LEMMA HeadTyped ==
    ASSUME TypeOK, NEW h \in Clients, todo[h] # <<>>
    PROVE  /\ On(h) \in Clients
           /\ Doing(h, "write") \/ Doing(h, "post") => What(h) \in Notices
<1>1. Head(todo[h]) \in Operations
  BY TailTyped DEF TypeOK
<1> QED
  BY <1>1 DEF On, What, Doing, Operations

LEMMA WriteTyped ==
    ASSUME TypeOK, NEW h \in Clients, Doing(h, "write") \/ Doing(h, "post"), Write(h)
    PROVE  /\ todo' \in [Clients -> Seq(Operations)]
           /\ down' \in [Clients -> Seq(Notices)]
           /\ \A c \in Clients : Len(down'[c]) <= Capacity
<1>1. On(h) \in Clients /\ What(h) \in Notices /\ todo[h] # <<>>
  BY HeadTyped DEF Doing
<1>2. todo' \in [Clients -> Seq(Operations)]
  <2>1. <<>> \in Seq(Operations) /\ todo' = [todo EXCEPT ![h] = Tail(@)]
    BY SMT DEF Write, Done
  <2> QED
    BY <1>1, <2>1, TodoTyped
<1>3. CASE On(h) \notin open
  BY <1>2, <1>3 DEF Write, TypeOK
<1>4. CASE On(h) \in open
  <2>1. /\ Len(down[On(h)]) < Capacity
        /\ down' = [down EXCEPT ![On(h)] = Append(@, What(h))]
    BY <1>4 DEF Write
  <2>2. /\ Append(down[On(h)], What(h)) \in Seq(Notices)
        /\ Len(Append(down[On(h)], What(h))) = Len(down[On(h)]) + 1 /\ Len(down[On(h)]) \in Nat
    BY <1>1, AppendTyped DEF TypeOK
  <2>3. down' \in [Clients -> Seq(Notices)]
    BY <2>1, <2>2 DEF TypeOK
  <2>4. \A c \in Clients : down'[c] = IF c = On(h) THEN Append(down[On(h)], What(h)) ELSE down[c]
    BY <2>1 DEF TypeOK
  <2>5. Capacity \in Nat
    BY LocksAssumption
  <2>6. \A c \in Clients : Len(down'[c]) <= Capacity
    BY <2>1, <2>2, <2>4, <2>5 DEF TypeOK
  <2> QED
    BY <1>2, <2>3, <2>6
<1> QED
  BY <1>3, <1>4

LEMMA ServeTyped ==
    ASSUME TypeOK, NEW h \in Clients, Serve(h)
    PROVE  TypeOK'
<1>0. <<>> \in Seq(Operations)
  BY SMT
<1>1. CASE Route(h)
  <2>1. todo[h] # <<>> /\ On(h) \in Clients
    BY <1>1, HeadTyped DEF Route, Doing
  <2>2. todo' \in [Clients -> Seq(Operations)]
    <3>1. CASE Done(h)
      BY <1>0, <2>1, <3>1, TodoTyped DEF Done
    <3>2. CASE DoInstead(h, <<Do("post", On(h), "plain")>>)
      <4>1. <<Do("post", On(h), "plain")>> \in Seq(Operations)
        <5>1. Do("post", On(h), "plain") \in Operations
          BY <2>1 DEF Do, Operations, Notices
        <5> QED
          BY <5>1, SMT
      <4> QED
        BY <2>1, <3>2, <4>1, TodoTyped DEF DoInstead
    <3>3. CASE DoInstead(h, <<Do("section", h, "plain"), Do("post", On(h), "offer"),
                              Do("section", On(h), "plain"), Do("post", h, "plain")>>)
      <4>1. <<Do("section", h, "plain"), Do("post", On(h), "offer"),
              Do("section", On(h), "plain"), Do("post", h, "plain")>> \in Seq(Operations)
        <5>1. /\ Do("section", h, "plain") \in Operations /\ Do("post", On(h), "offer") \in Operations
              /\ Do("section", On(h), "plain") \in Operations /\ Do("post", h, "plain") \in Operations
          BY <2>1 DEF Do, Operations, Notices
        <5> QED
          BY <5>1, SMT
      <4> QED
        BY <2>1, <3>3, <4>1, TodoTyped DEF DoInstead
    <3>4. ASSUME NEW order \in Orders(members \ {h}), NEW w \in {"offer", "plain"},
                 DoInstead(h, Each("post", order, w))
          PROVE  todo' \in [Clients -> Seq(Operations)]
      <4>1. Each("post", order, w) \in Seq(Operations)
        <5>1. PICK M \in SUBSET Clients : M = members \ {h}
          BY DEF TypeOK
        <5>2. order \in Orders(M) /\ w \in Notices
          BY <5>1 DEF Notices
        <5> QED
          BY <5>2, EachTyped
      <4> QED
        BY <2>1, <3>4, <4>1, TodoTyped DEF DoInstead
    <3> QED
      BY <1>1, <3>1, <3>2, <3>3, <3>4 DEF Route
  <2> QED
    BY <1>1, <2>2 DEF Route, TypeOK
<1>2. CASE Section(h)
  <2>1. todo' \in [Clients -> Seq(Operations)]
    BY <1>0, <1>2, TodoTyped DEF Section, Doing, Done
  <2> QED
    BY <1>2, <2>1 DEF Section, TypeOK
<1>3. CASE WriteUnlocked(h)
  BY <1>3, WriteTyped DEF WriteUnlocked, Write, TypeOK
<1>4. CASE Lock(h)
  BY <1>4 DEF Lock, TypeOK
<1>5. CASE WriteLocked(h)
  <2>1. mutex' \in [Clients -> Clients \cup {Nobody}]
    BY <1>5 DEF WriteLocked, TypeOK
  <2> QED
    BY <1>5, <2>1, WriteTyped DEF WriteLocked, Write, TypeOK
<1>6. CASE Edit(h)
  <2>1. todo' \in [Clients -> Seq(Operations)] /\ members' \subseteq Clients
    BY <1>0, <1>6, TodoTyped DEF Edit, Doing, Done, TypeOK
  <2> QED
    BY <1>6, <2>1 DEF Edit, TypeOK
<1>7. CASE Broadcast(h)
  <2>1. PICK M \in SUBSET Clients : M = members
    BY DEF TypeOK
  <2>2. PICK order \in Orders(M) :
            DoInstead(h, Each("visit", order, "plain") \o Each("post", order, "update"))
    BY <1>7, <2>1 DEF Broadcast
  <2>3. "plain" \in Notices /\ "update" \in Notices
    BY DEF Notices
  <2>4. Each("visit", order, "plain") \in Seq(Operations)
    BY <2>3, EachTyped
  <2>5. Each("post", order, "update") \in Seq(Operations)
    BY <2>3, EachTyped
  <2>6. Each("visit", order, "plain") \o Each("post", order, "update") \in Seq(Operations)
    BY <2>4, <2>5, SMT
  <2>7. todo' \in [Clients -> Seq(Operations)] /\ readers' \subseteq Clients
    BY <1>7, <2>2, <2>6, TodoTyped DEF Broadcast, Doing, DoInstead, TypeOK
  <2> QED
    BY <1>7, <2>7 DEF Broadcast, TypeOK
<1>8. CASE Visit(h)
  <2>1. todo' \in [Clients -> Seq(Operations)] /\ readers' \subseteq Clients
    BY <1>0, <1>8, TodoTyped DEF Visit, Doing, Done, TypeOK
  <2> QED
    BY <1>8, <2>1 DEF Visit, TypeOK
<1>9. CASE Drop(h)
  <2>1. todo' \in [Clients -> Seq(Operations)]
    BY <1>0, <1>9, TodoTyped DEF Drop, Doing, Done
  <2>2. <<>> \in Seq(Requests) /\ Len(<<>>) <= Capacity /\ Close(h, <<>>)
    BY <1>9, LocksAssumption, SMT DEF Drop
  <2> QED
    BY <1>9, <2>1, <2>2, CloseTyped DEF Drop, TypeOK
<1> QED
  BY <1>1, <1>2, <1>3, <1>4, <1>5, <1>6, <1>7, <1>8, <1>9 DEF Serve

LEMMA RequestTyped ==
    ASSUME NEW c \in Clients,
           NEW k \in {"join", "leave", "data", "ping", "punchReq", "offer", "answer"}
    PROVE  Request(k, c) \in Requests
BY DEF Request, Requests

LEMMA RepliesTyped ==
    ASSUME NEW c \in Clients, NEW n \in Notices, NEW r \in Replies(c, n)
    PROVE  r \in Seq(Requests)
<1>1. CASE ~p2p \/ n = "plain"
  <2>1. r = <<>>
    BY <1>1 DEF Replies
  <2> QED
    BY <2>1, SMT
<1>2. CASE p2p /\ n \in {"joined", "offer"}
  <2>1. r = <<Request("offer", c)>> \/ r = <<Request("answer", c)>>
    BY <1>2 DEF Replies
  <2>2. Request("offer", c) \in Requests /\ Request("answer", c) \in Requests
    BY DEF Request, Requests
  <2>3. \A q \in Requests : <<q>> \in Seq(Requests)
    BY SMT
  <2> QED
    BY <2>1, <2>2, <2>3
<1>3. CASE p2p /\ n = "update"
  <2>1. PICK S \in SUBSET (Clients \ {c}) :
            \E o \in Orders(S) : r = [i \in DOMAIN o |-> Request("punchReq", o[i])]
    BY <1>3 DEF Replies
  <2>2. PICK o \in Orders(S) : r = [i \in DOMAIN o |-> Request("punchReq", o[i])]
    BY <2>1
  <2>3. o \in Seq(Clients) /\ DOMAIN o = 1 .. Cardinality(S) /\ Cardinality(S) \in Nat
    BY OrdersAreSequences
  <2>4. \A i \in 1 .. Cardinality(S) : Request("punchReq", o[i]) \in Requests
    BY <2>3 DEF Request, Requests
  <2>5. r = [i \in 1 .. Cardinality(S) |-> Request("punchReq", o[i])]
    BY <2>2, <2>3
  <2> QED
    BY <2>3, <2>4, <2>5, SMT
<1> QED
  BY <1>1, <1>2, <1>3 DEF Notices

LEMMA ReadTyped ==
    ASSUME TypeOK, NEW c \in Clients, down[c] # <<>>, down' = [down EXCEPT ![c] = Tail(@)]
    PROVE  /\ Head(down[c]) \in Notices
           /\ down' \in [Clients -> Seq(Notices)]
           /\ \A d \in Clients : Len(down'[d]) <= Capacity
<1>1. /\ Tail(down[c]) \in Seq(Notices) /\ Head(down[c]) \in Notices
      /\ Len(Tail(down[c])) = Len(down[c]) - 1 /\ Len(down[c]) \in Nat
  BY TailTyped DEF TypeOK
<1>2. \A d \in Clients : down'[d] = IF d = c THEN Tail(down[c]) ELSE down[d]
  BY DEF TypeOK
<1>3. \A d \in Clients : Len(down'[d]) <= Capacity
  BY <1>1, <1>2, LocksAssumption DEF TypeOK
<1> QED
  BY <1>1, <1>3 DEF TypeOK

LEMMA FlushTyped ==
    ASSUME TypeOK, NEW c \in Clients, Flush(c)
    PROVE  TypeOK'
<1>1. writing[c] \in Requests
  BY DEF Flush, TypeOK
<1>2. /\ Append(up[c], writing[c]) \in Seq(Requests)
      /\ Len(Append(up[c], writing[c])) = Len(up[c]) + 1 /\ Len(up[c]) \in Nat
  BY <1>1, AppendTyped DEF TypeOK
<1>3. \A d \in Clients : up'[d] = IF d = c THEN Append(up[c], writing[c]) ELSE up[d]
  BY DEF Flush, TypeOK
<1>4. \A d \in Clients : Len(up'[d]) <= Capacity
  BY <1>2, <1>3, LocksAssumption DEF Flush, TypeOK
<1>5. up' \in [Clients -> Seq(Requests)]
  BY <1>2 DEF Flush, TypeOK
<1>6. reply' \in [Clients -> Seq(Requests)]
  <2>1. reply[c] # <<>> => Tail(reply[c]) \in Seq(Requests)
    BY TailTyped DEF TypeOK
  <2> QED
    BY <2>1 DEF Flush, TypeOK
<1>7. writing' \in [Clients -> Requests \cup {Idle}]
  BY DEF Flush, TypeOK
<1> QED
  BY <1>4, <1>5, <1>6, <1>7 DEF Flush, TypeOK

LEMMA ReceiveTyped ==
    ASSUME TypeOK, NEW c \in Clients, Receive(c)
    PROVE  TypeOK'
<1>1. /\ Tail(up[c]) \in Seq(Requests) /\ Head(up[c]) \in Requests
      /\ Len(Tail(up[c])) = Len(up[c]) - 1 /\ Len(up[c]) \in Nat
  BY TailTyped DEF Receive, TypeOK
<1>2. \A d \in Clients : up'[d] = IF d = c THEN Tail(up[c]) ELSE up[d]
  BY DEF Receive, TypeOK
<1>3. \A d \in Clients : Len(up'[d]) <= Capacity
  <2>1. Len(Tail(up[c])) <= Capacity
    BY <1>1, LocksAssumption DEF TypeOK
  <2> QED
    BY <1>2, <2>1 DEF TypeOK
<1>4. up' \in [Clients -> Seq(Requests)]
  BY <1>1 DEF Receive, TypeOK
<1>5. todo' \in [Clients -> Seq(Operations)]
  <2>1. Program(c, Head(up[c])) \in Seq(Operations)
    BY <1>1, ProgramTyped
  <2> QED
    BY <2>1, TodoTyped DEF Receive
<1> QED
  BY <1>3, <1>4, <1>5 DEF Receive, TypeOK

LEMMA QuitTyped ==
    ASSUME TypeOK, NEW c \in Clients, Quit(c)
    PROVE  TypeOK'
<1>1. Request("leave", c) \in Requests
  BY RequestTyped
<1>2. /\ Append(up[c], Request("leave", c)) \in Seq(Requests)
      /\ Len(Append(up[c], Request("leave", c))) = Len(up[c]) + 1 /\ Len(up[c]) \in Nat
  BY <1>1, AppendTyped DEF TypeOK
<1>3. Len(Append(up[c], Request("leave", c))) <= Capacity
  BY <1>2, LocksAssumption DEF Quit
<1> QED
  BY <1>2, <1>3, CloseTyped DEF Quit, TypeOK

LEMMA TypesPreserved ==
    ASSUME TypeOK, [Next]_vars
    PROVE  TypeOK'
<1>1. CASE UNCHANGED vars
  BY <1>1 DEF vars, TypeOK
<1>2. CASE Next
  <2>1. PICK c \in Clients :
            \/ Serve(c) \/ Receive(c) \/ Disconnect(c)
            \/ Break(c) \/ Check(c) \/ Hang(c) \/ Quit(c)
            \/ SendPacket(c) \/ Ping(c) \/ Answer(c) \/ Flush(c) \/ Read(c) \/ FailToJoin(c)
    BY <1>2 DEF Next
  <2>2. CASE Disconnect(c)
    <3>1. Departure(c) \o <<Do("drop", c, "plain")>> \in Seq(Operations)
      <4>1. Do("drop", c, "plain") \in Operations
        BY DEF Do, Operations, Notices
      <4> QED
        BY <4>1, DepartureTyped, SMT
    <3>2. todo' \in [Clients -> Seq(Operations)]
      BY <2>2, <3>1, TodoTyped DEF Disconnect
    <3> QED
      BY <2>2, <3>2 DEF Disconnect, TypeOK
  <2>3. CASE Break(c) \/ Check(c)
    <3>1. <<>> \in Seq(Requests) /\ Len(<<>>) <= Capacity
      BY LocksAssumption, SMT
    <3>2. Close(c, <<>>)
      BY <2>3 DEF Break, Check
    <3> QED
      BY <2>3, <3>1, <3>2, CloseTyped DEF Break, Check, TypeOK
  <2>4. CASE Hang(c)
    BY <2>4 DEF Hang, TypeOK
  <2>5. CASE SendPacket(c) \/ Ping(c) \/ Answer(c)
    <3>1. PICK r \in Requests : Acquire(c, r)
      <4>1. CASE SendPacket(c)
        BY <4>1, RequestTyped DEF SendPacket
      <4>2. CASE Ping(c)
        BY <4>2, RequestTyped DEF Ping
      <4>3. CASE Answer(c)
        <5>1. Head(reply[c]) \in Requests
          BY <4>3, TailTyped DEF Answer, TypeOK
        <5> QED
          BY <4>3, <5>1 DEF Answer
      <4> QED
        BY <2>5, <4>1, <4>2, <4>3
    <3> QED
      BY <3>1 DEF Acquire, TypeOK
  <2>6. CASE Read(c)
    <3>1. Head(down[c]) \in Notices /\ down' \in [Clients -> Seq(Notices)]
          /\ \A d \in Clients : Len(down'[d]) <= Capacity
      BY <2>6, ReadTyped DEF Read
    <3>2. PICK r \in Replies(c, Head(down[c])) : reply' = [reply EXCEPT ![c] = r]
      BY <2>6 DEF Read
    <3>3. r \in Seq(Requests)
      BY <3>1, <3>2, RepliesTyped
    <3>4. reply' \in [Clients -> Seq(Requests)] /\ joined' \subseteq Clients
      BY <2>6, <3>2, <3>3 DEF Read, TypeOK
    <3> QED
      BY <2>6, <3>1, <3>4 DEF Read, TypeOK
  <2>7. CASE FailToJoin(c)
    BY <2>7, ReadTyped DEF FailToJoin, TypeOK
  <2> QED
    BY <2>1, <2>2, <2>3, <2>4, <2>5, <2>6, <2>7, ServeTyped, ReceiveTyped, QuitTyped,
       FlushTyped
<1> QED
  BY <1>1, <1>2

LEMMA ReadingPreserved ==
    ASSUME TypeOK, Reading, [Next]_vars
    PROVE  Reading'
<1> SUFFICES ASSUME ~p2p'
             PROVE  \A c \in Clients : reply'[c] = <<>>
  BY DEF Reading
<1>1. p2p' = p2p
  BY DEF Next, vars, Serve, Receive, Disconnect, Break, Check, Hang, Quit, SendPacket,
     Ping, Answer, Acquire, Flush, Read, FailToJoin, Route, Section, WriteUnlocked,
     Lock, WriteLocked, Write, Edit, Broadcast, Visit, Drop
<1>2. \A c \in Clients : reply[c] = <<>>
  BY <1>1 DEF Reading
<1>3. CASE UNCHANGED reply
  BY <1>2, <1>3
<1>4. ASSUME NEW c \in Clients, reply' = [reply EXCEPT ![c] = <<>>]
      PROVE  \A d \in Clients : reply'[d] = <<>>
  BY <1>2, <1>4 DEF TypeOK
<1>5. CASE Next
  <2>1. PICK c \in Clients :
            \/ Serve(c) \/ Receive(c) \/ Disconnect(c)
            \/ Break(c) \/ Check(c) \/ Hang(c) \/ Quit(c)
            \/ SendPacket(c) \/ Ping(c) \/ Answer(c) \/ Flush(c) \/ Read(c) \/ FailToJoin(c)
    BY <1>5 DEF Next
  <2>2. CASE Break(c) \/ Check(c) \/ Quit(c) \/ Drop(c)
    BY <1>4, <2>2 DEF Break, Check, Quit, Drop, Close
  <2>3. CASE Read(c)
    <3>1. Replies(c, Head(down[c])) = {<<>>}
      BY <1>1 DEF Replies
    <3> QED
      BY <1>4, <2>3, <3>1 DEF Read
  <2>4. CASE Flush(c)
    BY <1>2, <1>3, <2>4 DEF Flush
  <2>5. CASE \/ Receive(c) \/ Disconnect(c) \/ Hang(c) \/ SendPacket(c) \/ Ping(c) \/ Answer(c)
             \/ FailToJoin(c)
    BY <1>3, <2>5 DEF Receive, Disconnect, Hang, SendPacket, Ping, Answer, Acquire,
       FailToJoin
  <2>6. CASE \/ Route(c) \/ Section(c) \/ WriteUnlocked(c) \/ Lock(c) \/ WriteLocked(c)
             \/ Edit(c) \/ Broadcast(c) \/ Visit(c)
    BY <1>3, <2>6 DEF Route, Section, WriteUnlocked, Lock, WriteLocked, Write, Edit,
       Broadcast, Visit
  <2> QED
    BY <2>1, <2>2, <2>3, <2>4, <2>5, <2>6 DEF Serve
<1> QED
  BY <1>3, <1>5 DEF vars

-----------------------------------------------------------------------------
(* Theorems of the specification.                                          *)

LEMMA InitEstablishes == Init => TypeOK /\ LocksAreInUse /\ Reading
<1> SUFFICES ASSUME Init
             PROVE  TypeOK /\ LocksAreInUse /\ Reading
  OBVIOUS
<1>1. /\ <<>> \in Seq(Operations) /\ <<>> \in Seq(Requests) /\ <<>> \in Seq(Notices)
      /\ Len(<<>>) = 0
  BY SMT
<1>2. Capacity \in Nat /\ Capacity >= 1
  BY LocksAssumption
<1>3. \A c \in Clients :
          <<Request("join", c)>> \in Seq(Requests) /\ Len(<<Request("join", c)>>) = 1
  <2> SUFFICES ASSUME NEW c \in Clients
               PROVE  <<Request("join", c)>> \in Seq(Requests) /\ Len(<<Request("join", c)>>) = 1
    OBVIOUS
  <2>1. Request("join", c) \in Requests
    BY RequestTyped
  <2> QED
    BY <2>1, SMT
<1>4. up \in [Clients -> Seq(Requests)] /\ down \in [Clients -> Seq(Notices)]
  BY <1>1, <1>3 DEF Init
<1>5. \A c \in Clients : Len(up[c]) <= Capacity /\ Len(down[c]) <= Capacity
  BY <1>1, <1>2, <1>3 DEF Init
<1>6. TypeOK
  BY <1>1, <1>4, <1>5, LocksAssumption DEF Init, TypeOK
<1>7. LocksAreInUse /\ Reading
  BY DEF Init, LocksAreInUse, Reading
<1> QED
  BY <1>6, <1>7

(* The variables keep their types, and no connection ever holds more than  *)
(* its capacity, whatever the programs of the handlers put on their lists. *)
THEOREM LocksTyped == Spec => []TypeOK
<1>1. Init => TypeOK
  BY InitEstablishes
<1>2. TypeOK /\ [Next]_vars => TypeOK'
  BY TypesPreserved
<1> QED
  BY <1>1, <1>2, PTL DEF Spec

(* A client's mutex is held only by a handler that is writing to it, and   *)
(* the room's only by one that visits its members (server.go:802-833).     *)
THEOREM MutexesInUse == Spec => []LocksAreInUse
<1>1. Init => LocksAreInUse
  BY InitEstablishes
<1>2. TypeOK /\ LocksAreInUse /\ [Next]_vars => LocksAreInUse'
  BY InUsePreserved
<1> QED
  BY <1>1, <1>2, LocksTyped, PTL DEF Spec

(* The handlers are never deadlocked among themselves, for any number of   *)
(* clients: the order room.mu before client.mu is never reversed.          *)
THEOREM MutexesNeverCycle == Spec => []NoMutexCycle
<1>1. TypeOK /\ LocksAreInUse => NoMutexCycle
  BY CyclesExcluded
<1> QED
  BY <1>1, LocksTyped, MutexesInUse, PTL

(* Whenever handlers wait for ever, a client with a full connection is at  *)
(* the end of the chain: it reads no more, or it writes while it is full.  *)
THEOREM StallsAtClients == Spec => []StallsAtFullClient
<1>1. TypeOK /\ LocksAreInUse => StallsAtFullClient
  BY StallsExplained
<1> QED
  BY <1>1, LocksTyped, MutexesInUse, PTL

(* Clients that run and have no p2p.Manager never bring the server to a    *)
(* standstill, however small the buffers and however many packets.         *)
THEOREM RelayNeverStalls == Spec => []NoStallWithoutManager
<1>1. Init => Reading
  BY InitEstablishes
<1>2. TypeOK /\ Reading /\ [Next]_vars => Reading'
  BY ReadingPreserved
<1>3. TypeOK /\ LocksAreInUse /\ Reading => NoStallWithoutManager
  BY StallsExcluded
<1> QED
  BY <1>1, <1>2, <1>3, LocksTyped, MutexesInUse, PTL DEF Spec

-----------------------------------------------------------------------------
(* What the mutex of a connection is for: the stream of Wire, where the    *)
(* mutex is "holder" and its writers are the goroutines that operations    *)
(* run in.                                                                 *)
CONSTANTS LenBase, Writers, Locked, Messages, Unchecked, MaxSent

VARIABLES conn, holder, payload, reading, header, meant, sent, received

Stream == INSTANCE Wire WITH mutex <- holder

(* A field of a message and a payload are bytes.                           *)
MessagesAreBytes ==
    /\ LenBase \in Nat \ {0, 1} /\ Nobody \notin Writers
    /\ \A m \in Messages : m.type \in DOMAIN Stream!MsgType /\ Stream!Encode(m) \in Seq(Nat)

(* A message is begun while another one is half written, and one of the    *)
(* two writers does not hold the mutex; or its length is no uint16.        *)
Overlaps(w) == \E v \in Writers : payload[v] # <<>> /\ ~({v, w} \subseteq Locked)

Unannounced(m) == Len(Stream!Encode(m)) > Stream!MaxUint16

(* Every step but these two.                                               *)
OrderlyStep ==
    \/ \E w \in Writers : \/ Stream!WritePayload(w)
                          \/ \E m \in Messages : /\ Stream!WriteHeader(w, m)
                                                 /\ ~Overlaps(w) /\ ~Unannounced(m)
    \/ Stream!Read

(* A message on the wire, and its size.                                    *)
Framed(f) ==
    <<1, Stream!MsgType[f.type]>> \o Stream!Uint16(Len(f.payload)) \o f.payload

Size(f) == 4 + Len(f.payload)

(* What is still to be read: the bytes on their way and the payload of the *)
(* one writer that has written its header only.                            *)
Pending ==
    IF \E w \in Writers : payload[w] # <<>>
    THEN payload[CHOOSE w \in Writers : payload[w] # <<>>]
    ELSE <<>>

ToRead == conn \o Pending

FramesTyped ==
    /\ sent \in Seq(Stream!Frames) /\ received \in Seq(Stream!Frames)
    /\ \A i \in DOMAIN sent : /\ sent[i].payload \in Seq(Nat)
                              /\ Len(sent[i].payload) <= Stream!MaxUint16
    /\ conn \in Seq(Nat) /\ payload \in [Writers -> Seq(Nat)]
    /\ \A w \in Writers \cap Locked : payload[w] # <<>> => holder = w
    /\ \A v, w \in Writers : payload[v] # <<>> /\ payload[w] # <<>> => v = w

LEMMA PendingIsPayload ==
    ASSUME FramesTyped
    PROVE  /\ Pending \in Seq(Nat)
           /\ \A w \in Writers : payload[w] # <<>> => Pending = payload[w]
           /\ (\A w \in Writers : payload[w] = <<>>) => Pending = <<>>
  BY DEF FramesTyped, Pending

(* Message i ends at byte at[i] of everything sent.                        *)
Positions(at) ==
    /\ at \in [0 .. Len(sent) -> Nat]
    /\ at[0] = 0
    /\ \A i \in 1 .. Len(sent) : at[i] = at[i - 1] + Size(sent[i])
    /\ \A i, j \in 0 .. Len(sent) : i <= j => at[i] <= at[j]

(* Those that have been read are the first ones, and a reader that waits   *)
(* for a payload knows its type and length.                                *)
ReadSoFar(at, b) ==
    /\ Len(received) <= Len(sent)
    /\ \A i \in DOMAIN received : received[i] = sent[i]
    /\ reading \in {"header", "payload"}
    /\ reading = "header" => b = at[Len(received)]
    /\ reading = "payload" =>
         /\ Len(received) < Len(sent)
         /\ b = at[Len(received)] + 4
         /\ header.code = Stream!MsgType[sent[Len(received) + 1].type]
         /\ header.len = Len(sent[Len(received) + 1].payload)
         /\ header.len > 0

(* What is still to be read, from byte b on, is messages.                  *)
Remaining(at, b) ==
    /\ b + Len(ToRead) = at[Len(sent)]
    /\ \A i \in 1 .. Len(sent), k \in Nat :
         k >= 1 /\ k <= Size(sent[i]) /\ at[i - 1] + k > b
         => ToRead[at[i - 1] + k - b] = Framed(sent[i])[k]

WellFramed ==
    /\ FramesTyped
    /\ \E at \in [0 .. Len(sent) -> Nat], b \in Nat :
         Positions(at) /\ ReadSoFar(at, b) /\ Remaining(at, b)

(* No two types have the same code, so the reader finds the type again.    *)
LEMMA CodesDiffer ==
    ASSUME NEW t \in DOMAIN Stream!MsgType
    PROVE  /\ Stream!MsgType[t] \in Nat
           /\ Stream!TypeOf(Stream!MsgType[t]) = t
<1>1. \A s \in DOMAIN Stream!MsgType : Stream!MsgType[s] = Stream!MsgType[t] => s = t
  BY DEF Stream!MsgType
<1>2. Stream!MsgType[t] \in Nat
  BY DEF Stream!MsgType
<1> QED
  BY <1>1, <1>2 DEF Stream!TypeOf

(* A length that is a uint16 is read as it was written.                    *)
LEMMA LengthsSurvive ==
    ASSUME LenBase \in Nat \ {0, 1}, NEW n \in Nat, n <= Stream!MaxUint16
    PROVE  /\ Stream!Uint16(n) \in Seq(Nat) /\ Len(Stream!Uint16(n)) = 2
           /\ Stream!Uint16(n)[1] * LenBase + Stream!Uint16(n)[2] = n
  <1> DEFINE q == n \div LenBase
             r == n % LenBase
  <1>1. q \in Nat /\ r \in 0 .. LenBase - 1 /\ n = LenBase * q + r
    BY SMT
  <1>2. n < LenBase * LenBase
    BY SMT DEF Stream!MaxUint16
  <1>3. Stream!Uint16(n) = <<q % LenBase, r>>
    BY DEF Stream!Uint16
  <1> HIDE DEF q, r
  <1>4. q < LenBase
    <2> SUFFICES ASSUME q >= LenBase PROVE FALSE
      BY <1>1, SMT
    <2>1. LenBase * q >= LenBase * LenBase
      BY <1>1, SMT
    <2> QED
      BY <1>1, <1>2, <2>1, SMT
  <1>5. q % LenBase = q
    BY <1>1, <1>4, SMT
  <1>6. LenBase * q = q * LenBase
    BY <1>1, SMT
  <1>7. Stream!Uint16(n) = <<q, r>> /\ q \in Nat /\ r \in Nat
    BY <1>1, <1>3, <1>5, SMT
  <1>8. <<q, r>> \in Seq(Nat) /\ Len(<<q, r>>) = 2 /\ <<q, r>>[1] = q /\ <<q, r>>[2] = r
    BY <1>7, SMT
  <1> QED
    BY <1>1, <1>6, <1>7, <1>8

(* Sequences of bytes, joined and cut.                                     *)
LEMMA OneAfterTheOther ==
    ASSUME NEW x \in Seq(Nat), NEW y \in Seq(Nat)
    PROVE  /\ x \o y \in Seq(Nat) /\ Len(x \o y) = Len(x) + Len(y)
           /\ \A k \in 1 .. Len(x) : (x \o y)[k] = x[k]
           /\ \A k \in 1 .. Len(y) : (x \o y)[Len(x) + k] = y[k]
  <1>1. Len(x) \in Nat /\ Len(y) \in Nat
    BY LenProperties
  <1>2. /\ x \o y \in Seq(Nat) /\ Len(x \o y) = Len(x) + Len(y)
        /\ \A i \in 1 .. Len(x) + Len(y) : (x \o y)[i] =
             IF i <= Len(x) THEN x[i] ELSE y[i - Len(x)]
    BY ConcatProperties
  <1>3. ASSUME NEW k \in 1 .. Len(y) PROVE (x \o y)[Len(x) + k] = y[k]
    <2>1. /\ Len(x) + k \in 1 .. Len(x) + Len(y) /\ ~(Len(x) + k <= Len(x))
          /\ (Len(x) + k) - Len(x) = k
      BY <1>1, SMT
    <2> QED
      BY <1>2, <2>1, Zenon
  <1>4. ASSUME NEW k \in 1 .. Len(x) PROVE (x \o y)[k] = x[k]
    <2>1. k \in 1 .. Len(x) + Len(y) /\ k <= Len(x)
      BY <1>1, SMT
    <2> QED
      BY <1>2, <2>1, Zenon
  <1> QED
    BY <1>2, <1>3, <1>4

(* A message on the wire is its header and then its payload.               *)
LEMMA OnTheWire ==
    ASSUME LenBase \in Nat \ {0, 1}, NEW f, f.type \in DOMAIN Stream!MsgType,
           f.payload \in Seq(Nat), Len(f.payload) <= Stream!MaxUint16
    PROVE  /\ Framed(f) \in Seq(Nat) /\ Len(Framed(f)) = Size(f)
           /\ Framed(f)[1] = 1 /\ Framed(f)[2] = Stream!MsgType[f.type]
           /\ Framed(f)[3] * LenBase + Framed(f)[4] = Len(f.payload)
           /\ \A k \in 1 .. Len(f.payload) : Framed(f)[4 + k] = f.payload[k]
  <1> DEFINE u == Stream!Uint16(Len(f.payload))
             c == Stream!MsgType[f.type]
  <1>1. u \in Seq(Nat) /\ Len(u) = 2 /\ u[1] * LenBase + u[2] = Len(f.payload)
    BY LengthsSurvive
  <1>2. c \in Nat
    BY CodesDiffer
  <1>3. Framed(f) = <<1, c>> \o u \o f.payload
    BY DEF Framed
  <1> HIDE DEF u, c
  <1> DEFINE p == <<1, c>>
  <1>4. p \in Seq(Nat) /\ Len(p) = 2 /\ p[1] = 1 /\ p[2] = c
    BY <1>2, SMT
  <1>5. Framed(f) = p \o u \o f.payload
    BY <1>3
  <1> HIDE DEF p
  <1>6. /\ p \o u \in Seq(Nat) /\ Len(p \o u) = Len(p) + Len(u)
        /\ \A k \in 1 .. Len(p) : (p \o u)[k] = p[k]
        /\ \A k \in 1 .. Len(u) : (p \o u)[Len(p) + k] = u[k]
    BY <1>1, <1>4, OneAfterTheOther
  <1> DEFINE h == p \o u
  <1>7. Framed(f) = h \o f.payload /\ h \in Seq(Nat) /\ Len(h) = 4
    BY <1>1, <1>4, <1>5, <1>6
  <1>8. h[1] = 1 /\ h[2] = c /\ h[3] = u[1] /\ h[4] = u[2]
    <2>1. 1 \in 1 .. 2 /\ 2 \in 1 .. 2 /\ 2 + 1 = 3 /\ 2 + 2 = 4
      OBVIOUS
    <2> QED
      BY <1>1, <1>4, <1>6, <2>1
  <1> HIDE DEF h
  <1>9. /\ Framed(f) \in Seq(Nat) /\ Len(Framed(f)) = 4 + Len(f.payload)
        /\ \A k \in 1 .. 4 : Framed(f)[k] = h[k]
        /\ \A k \in 1 .. Len(f.payload) : Framed(f)[4 + k] = f.payload[k]
    <2>1. /\ h \o f.payload \in Seq(Nat) /\ Len(h \o f.payload) = Len(h) + Len(f.payload)
          /\ \A k \in 1 .. Len(h) : (h \o f.payload)[k] = h[k]
          /\ \A k \in 1 .. Len(f.payload) : (h \o f.payload)[Len(h) + k] = f.payload[k]
      BY <1>7, OneAfterTheOther
    <2> QED
      BY <1>7, <2>1
  <1>10. /\ Framed(f)[1] = 1 /\ Framed(f)[2] = c
         /\ Framed(f)[3] = u[1] /\ Framed(f)[4] = u[2]
    <2>1. \A k \in {1, 2, 3, 4} : k \in 1 .. 4
      OBVIOUS
    <2> QED
      BY <1>8, <1>9, <2>1
  <1> QED
    BY <1>1, <1>9, <1>10 DEF Size, c

(* A message that is begun when the mutex is free follows all others.      *)
LEMMA FrameBegun ==
    ASSUME MessagesAreBytes, WellFramed, NEW w \in Writers, NEW m \in Messages,
           Stream!WriteHeader(w, m), ~Overlaps(w), ~Unannounced(m),
           NEW f, f = [type |-> m.type, payload |-> Stream!Encode(m)]
    PROVE  /\ FramesTyped' /\ ToRead \in Seq(Nat) /\ ToRead' = ToRead \o Framed(f)
           /\ sent' = Append(sent, f) /\ f \in Stream!Frames
           /\ f.type \in DOMAIN Stream!MsgType /\ f.payload \in Seq(Nat)
           /\ Len(f.payload) <= Stream!MaxUint16
           /\ UNCHANGED <<reading, header, received>>
  <1> DEFINE P == Stream!Encode(m)
             H == Stream!Header(m)
  <1>1. /\ P \in Seq(Nat) /\ Len(P) <= Stream!MaxUint16
        /\ m.type \in DOMAIN Stream!MsgType
        /\ Nobody \notin Writers /\ LenBase \in Nat \ {0, 1}
    <2>1. /\ P \in Seq(Nat) /\ m.type \in DOMAIN Stream!MsgType
          /\ Nobody \notin Writers /\ LenBase \in Nat \ {0, 1}
      BY DEF MessagesAreBytes
    <2>2. ~(Len(P) > Stream!MaxUint16)
      BY DEF Unannounced
    <2>3. Len(P) \in Nat /\ Stream!MaxUint16 \in Int
      BY <2>1, LenProperties DEF Stream!MaxUint16
    <2> QED
      BY <2>1, <2>2, <2>3
  <1>2. f.type = m.type /\ f.payload = P /\ f \in Stream!Frames
    BY <1>1 DEF Stream!Frames
  <1>3. /\ w \in Locked => holder = Nobody
        /\ holder' = IF w \in Locked /\ P # <<>> THEN w ELSE holder
        /\ conn' = conn \o H
        /\ payload' = [payload EXCEPT ![w] = P]
        /\ sent' = Append(sent, f)
        /\ UNCHANGED <<reading, header, received>>
    BY <1>1 DEF Stream!WriteHeader
  <1>4. FramesTyped
    BY DEF WellFramed
  <1>5. H \in Seq(Nat) /\ Framed(f) = H \o P
    <2>1. /\ Stream!Uint16(Len(P)) \in Seq(Nat) /\ Len(P) \in Nat
          /\ Stream!MsgType[m.type] \in Nat
      BY <1>1, LenProperties, LengthsSurvive, CodesDiffer
    <2>2. <<1, Stream!MsgType[m.type]>> \in Seq(Nat)
      BY <2>1
    <2>3. H = <<1, Stream!MsgType[m.type]>> \o Stream!Uint16(Len(P))
      BY DEF Stream!Header, Stream!Version
    <2> QED
      BY <1>2, <2>1, <2>2, <2>3, ConcatProperties DEF Framed
  <1> HIDE DEF P, H
  <1>6. /\ payload \in [Writers -> Seq(Nat)]
        /\ \A v \in Writers : payload[v] = <<>>
        /\ payload' \in [Writers -> Seq(Nat)]
        /\ payload'[w] = P /\ \A v \in Writers \ {w} : payload'[v] = <<>>
    <2>1. ASSUME NEW v \in Writers, payload[v] # <<>>
          PROVE  FALSE
      <3>1. v \in Locked /\ w \in Locked
        BY <2>1 DEF Overlaps
      <3> QED
        BY <1>1, <1>3, <1>4, <2>1, <3>1 DEF FramesTyped
    <2> QED
      BY <1>1, <1>3, <1>4, <2>1 DEF FramesTyped
  <1>7. /\ conn \in Seq(Nat) /\ conn' \in Seq(Nat) /\ ToRead = conn /\ ToRead \in Seq(Nat)
    <2>1. conn \in Seq(Nat)
      BY <1>4 DEF FramesTyped
    <2>2. Pending = <<>>
      BY <1>4, <1>6, PendingIsPayload
    <2> QED
      BY <1>3, <1>5, <2>1, <2>2, ConcatProperties, ConcatEmptySeq DEF ToRead
  <1>8. /\ \A v \in Writers \cap Locked : payload'[v] # <<>> => holder' = v
        /\ \A u, v \in Writers : payload'[u] # <<>> /\ payload'[v] # <<>> => u = v
    BY <1>3, <1>6
  <1>9. FramesTyped'
    <2>1. /\ sent \in Seq(Stream!Frames) /\ received \in Seq(Stream!Frames)
          /\ \A i \in DOMAIN sent : /\ sent[i].payload \in Seq(Nat)
                                    /\ Len(sent[i].payload) <= Stream!MaxUint16
      BY <1>4 DEF FramesTyped
    <2>2. sent' \in Seq(Stream!Frames) /\ received' \in Seq(Stream!Frames)
      BY <1>2, <1>3, <2>1
    <2>3. ASSUME NEW i \in DOMAIN sent'
          PROVE  sent'[i].payload \in Seq(Nat) /\ Len(sent'[i].payload) <= Stream!MaxUint16
      <3>1. (i \in DOMAIN sent /\ sent'[i] = sent[i]) \/ sent'[i] = f
        BY <1>3, <2>1
      <3> QED
        BY <1>1, <1>2, <2>1, <3>1
    <2>4. (Stream!Frames)' = Stream!Frames /\ (Stream!MaxUint16)' = Stream!MaxUint16
      OBVIOUS
    <2> QED
      BY <1>7, <1>6, <1>8, <2>2, <2>3, <2>4 DEF FramesTyped
  <1>10. ToRead' = ToRead \o Framed(f)
    <2>1. ToRead' = conn' \o P
      <3>1. Pending' = P
        BY <1>6 DEF Pending
      <3> QED
        BY <3>1 DEF ToRead
    <2>2. (conn \o H) \o P = conn \o (H \o P)
      BY <1>1, <1>5, <1>7, ConcatAssociative DEF P
    <2> QED
      BY <1>3, <1>5, <1>7, <2>1, <2>2
  <1> QED
    BY <1>1, <1>2, <1>3, <1>7, <1>9, <1>10

(* A step of a writer appends a message or finishes one.                   *)
LEMMA HeaderKeepsFrames ==
    ASSUME MessagesAreBytes, WellFramed, NEW w \in Writers, NEW m \in Messages,
           Stream!WriteHeader(w, m), ~Overlaps(w), ~Unannounced(m)
    PROVE  WellFramed' /\ Stream!Channel!Send
  <1> DEFINE n == Len(sent)
  <1>1. PICK f : f = [type |-> m.type, payload |-> Stream!Encode(m)]
    OBVIOUS
  <1>2. /\ FramesTyped' /\ ToRead \in Seq(Nat) /\ ToRead' = ToRead \o Framed(f)
        /\ sent' = Append(sent, f) /\ f \in Stream!Frames
        /\ f.type \in DOMAIN Stream!MsgType /\ f.payload \in Seq(Nat)
        /\ Len(f.payload) <= Stream!MaxUint16
        /\ UNCHANGED <<reading, header, received>>
    BY <1>1, FrameBegun
  <1>3. Framed(f) \in Seq(Nat) /\ Len(Framed(f)) = Size(f) /\ Size(f) \in Nat
    <2>1. Framed(f) \in Seq(Nat) /\ Len(Framed(f)) = Size(f)
      BY <1>2, OnTheWire DEF MessagesAreBytes
    <2> QED
      BY <2>1, LenProperties
  <1>4. /\ ToRead' \in Seq(Nat) /\ Len(ToRead') = Len(ToRead) + Size(f)
        /\ \A k \in 1 .. Len(ToRead) : ToRead'[k] = ToRead[k]
        /\ \A k \in 1 .. Size(f) : ToRead'[Len(ToRead) + k] = Framed(f)[k]
    <2>1. /\ ToRead \o Framed(f) \in Seq(Nat)
          /\ Len(ToRead \o Framed(f)) = Len(ToRead) + Len(Framed(f))
          /\ \A k \in 1 .. Len(ToRead) : (ToRead \o Framed(f))[k] = ToRead[k]
          /\ \A k \in 1 .. Len(Framed(f)) : (ToRead \o Framed(f))[Len(ToRead) + k] = Framed(f)[k]
      BY <1>2, <1>3, OneAfterTheOther
    <2> QED
      BY <1>2, <1>3, <2>1
  <1>5. FramesTyped
    BY DEF WellFramed
  <1>6. /\ n \in Nat /\ Len(sent') = n + 1 /\ sent'[n + 1] = f
        /\ \A i \in 1 .. n : sent'[i] = sent[i]
        /\ DOMAIN sent = 1 .. n /\ Len(received) \in Nat /\ DOMAIN received = 1 .. Len(received)
    BY <1>2, <1>5 DEF FramesTyped
  <1>7. PICK at \in [0 .. n -> Nat], b \in Nat :
             Positions(at) /\ ReadSoFar(at, b) /\ Remaining(at, b)
    BY DEF WellFramed
  <1> HIDE DEF n
  <1>8. PICK at2 : at2 = [i \in 0 .. n + 1 |-> IF i = n + 1 THEN at[n] + Size(f) ELSE at[i]]
    OBVIOUS
  <1>9. /\ at2 \in [0 .. n + 1 -> Nat] /\ at2[n + 1] = at[n] + Size(f)
        /\ \A i \in 0 .. n : at2[i] = at[i]
    <2>1. n \in 0 .. n /\ at[n] \in Nat
      BY <1>6, <1>7
    <2>2. \A i \in 0 .. n + 1 : i = n + 1 \/ i \in 0 .. n
      BY <1>6
    <2>3. n + 1 \in 0 .. n + 1 /\ \A i \in 0 .. n : i \in 0 .. n + 1 /\ i # n + 1
      BY <1>6
    <2> QED
      BY <1>3, <1>7, <1>8, <2>1, <2>2, <2>3
  <1>10. /\ at[0] = 0
         /\ \A i \in 1 .. n : at[i] = at[i - 1] + Size(sent[i])
         /\ \A i, j \in 0 .. n : i <= j => at[i] <= at[j]
    BY <1>7 DEF Positions, n
  <1>11. Positions(at2)'
    <2>1. at2[0] = 0
      BY <1>6, <1>9, <1>10
    <2>2. ASSUME NEW i \in 1 .. n + 1 PROVE at2[i] = at2[i - 1] + Size(sent'[i])
      <3>1. CASE i = n + 1
        <4>1. i - 1 = n /\ n \in 0 .. n
          BY <1>6, <3>1
        <4> QED
          BY <1>6, <1>9, <3>1, <4>1
      <3>2. CASE i # n + 1
        <4>1. i \in 1 .. n /\ i \in 0 .. n /\ i - 1 \in 0 .. n
          BY <1>6, <3>2
        <4> QED
          BY <1>6, <1>9, <1>10, <4>1
      <3> QED
        BY <3>1, <3>2
    <2>3. ASSUME NEW i \in 0 .. n + 1, NEW j \in 0 .. n + 1, i <= j PROVE at2[i] <= at2[j]
      <3>1. CASE j = n + 1
        <4>1. CASE i = n + 1
          BY <1>9, <3>1, <4>1
        <4>2. CASE i # n + 1
          <5>1. i \in 0 .. n /\ n \in 0 .. n /\ i <= n
            BY <1>6, <4>2
          <5>2. at2[i] <= at[n] /\ at2[i] \in Nat /\ at[n] \in Nat
            BY <1>7, <1>9, <1>10, <5>1
          <5> QED
            BY <1>3, <1>9, <3>1, <5>2
        <4> QED
          BY <4>1, <4>2
      <3>2. CASE j # n + 1
        <4>1. i \in 0 .. n /\ j \in 0 .. n
          BY <1>6, <2>3, <3>2
        <4> QED
          BY <1>9, <1>10, <2>3, <4>1
      <3> QED
        BY <3>1, <3>2
    <2>4. \A g : Size(g)' = Size(g)
      BY DEF Size
    <2> QED
      BY <1>6, <1>9, <2>1, <2>2, <2>3 DEF Positions, Size
  <1>12. Len(received) <= n /\ \A i \in DOMAIN received : received[i] = sent[i]
    BY <1>7 DEF ReadSoFar, n
  <1>13. ReadSoFar(at2, b)'
    <2>1. /\ reading \in {"header", "payload"}
          /\ reading = "header" => b = at[Len(received)]
      BY <1>7 DEF ReadSoFar
    <2>2. Len(received) \in 0 .. n
      BY <1>6, <1>12
    <2>3. Len(received) <= n + 1 /\ \A i \in DOMAIN received : received[i] = sent'[i]
      BY <1>6, <1>12
    <2>4. reading = "payload" => Len(received) < n + 1 /\ Len(received) + 1 \in 1 .. n
      BY <1>6, <1>7 DEF ReadSoFar, n
    <2>5. reading = "payload" =>
            /\ b = at[Len(received)] + 4
            /\ header.code = Stream!MsgType[sent[Len(received) + 1].type]
            /\ header.len = Len(sent[Len(received) + 1].payload)
            /\ header.len > 0
      BY <1>7 DEF ReadSoFar
    <2>6. reading = "payload" => sent'[Len(received) + 1] = sent[Len(received) + 1]
      BY <1>6, <2>4
    <2>7. at2[Len(received)] = at[Len(received)]
      BY <1>9, <2>2
    <2> QED
      BY <1>2, <1>6, <2>1, <2>3, <2>4, <2>5, <2>6, <2>7 DEF ReadSoFar
  <1>14. Remaining(at2, b)'
    <2>1. /\ b + Len(ToRead) = at[n]
          /\ \A i \in 1 .. n, k \in Nat :
               k >= 1 /\ k <= Size(sent[i]) /\ at[i - 1] + k > b
               => ToRead[at[i - 1] + k - b] = Framed(sent[i])[k]
      BY <1>7 DEF Remaining, n
    <2>2. n \in 0 .. n /\ at[n] \in Nat /\ Len(ToRead) \in Nat
      BY <1>2, <1>6, <1>7, LenProperties
    <2>3. b + Len(ToRead') = at2[n + 1]
      BY <1>3, <1>4, <1>7, <1>9, <2>1, <2>2
    <2>4. ASSUME NEW i \in 1 .. n + 1, NEW k \in Nat,
                 k >= 1, k <= Size(sent'[i]), at2[i - 1] + k > b
          PROVE  ToRead'[at2[i - 1] + k - b] = Framed(sent'[i])[k]
      <3>1. CASE i = n + 1
        <4>1. i - 1 = n /\ at2[i - 1] = at[n] /\ sent'[i] = f
          BY <1>6, <1>9, <2>2, <3>1
        <4>2. k \in 1 .. Size(f) /\ at2[i - 1] + k - b = Len(ToRead) + k
          BY <1>3, <1>7, <2>1, <2>2, <2>4, <4>1
        <4> QED
          BY <1>4, <4>1, <4>2
      <3>2. CASE i # n + 1
        <4>1. i \in 1 .. n /\ i \in 0 .. n /\ i - 1 \in 0 .. n
          BY <1>6, <3>2
        <4>2. at2[i - 1] = at[i - 1] /\ sent'[i] = sent[i] /\ at[i - 1] \in Nat /\ at[i] \in Nat
          BY <1>6, <1>7, <1>9, <4>1
        <4>3. ToRead[at[i - 1] + k - b] = Framed(sent[i])[k]
          BY <2>1, <2>4, <4>1, <4>2
        <4>4. at[i] <= at[n] /\ at[i] = at[i - 1] + Size(sent[i])
          <5>1. i <= n
            BY <1>6, <4>1
          <5>2. at[i] <= at[n]
            BY <1>10, <2>2, <4>1, <5>1
          <5> QED
            BY <1>10, <4>1, <5>2
        <4>5. Size(sent[i]) \in Nat
          BY <1>5, <1>6, <4>1, LenProperties DEF FramesTyped, Size
        <4>6. at[i - 1] + k - b \in 1 .. Len(ToRead)
          BY <1>7, <2>1, <2>2, <2>4, <4>2, <4>4, <4>5
        <4> QED
          BY <1>4, <4>2, <4>3, <4>6
      <3> QED
        BY <3>1, <3>2
    <2> QED
      BY <1>6, <2>3, <2>4 DEF Remaining, Size, Framed
  <1>15. WellFramed'
    <2>1. at2 \in [0 .. Len(sent') -> Nat]
      BY <1>6, <1>9
    <2> QED
      BY <1>2, <1>7, <1>11, <1>13, <1>14, <2>1 DEF WellFramed
  <1>16. Stream!Channel!Send
    BY <1>2 DEF Stream!Channel!Send
  <1> QED
    BY <1>15, <1>16

(* The payload follows its header: nobody else could write in between.     *)
LEMMA PayloadKeepsFrames ==
    ASSUME MessagesAreBytes, WellFramed, NEW w \in Writers, Stream!WritePayload(w)
    PROVE  WellFramed' /\ UNCHANGED <<sent, received>>
  <1>1. FramesTyped
    BY DEF WellFramed
  <1>2. /\ payload[w] # <<>>
        /\ holder' = IF w \in Locked THEN Nobody ELSE holder
        /\ conn' = conn \o payload[w] /\ payload' = [payload EXCEPT ![w] = <<>>]
        /\ UNCHANGED <<reading, header, sent, received>>
    BY DEF Stream!WritePayload
  <1>3. /\ conn \in Seq(Nat) /\ payload \in [Writers -> Seq(Nat)]
        /\ \A v \in Writers \ {w} : payload[v] = <<>>
    BY <1>1, <1>2 DEF FramesTyped
  <1>4. payload[w] \in Seq(Nat) /\ conn' \in Seq(Nat)
    BY <1>2, <1>3, ConcatProperties
  <1>5. payload' \in [Writers -> Seq(Nat)] /\ \A v \in Writers : payload'[v] = <<>>
    BY <1>2, <1>3
  <1>6. ToRead' = ToRead
    <2>1. Pending = payload[w]
      BY <1>1, <1>2, PendingIsPayload
    <2>2. Pending' = <<>>
      BY <1>5 DEF Pending
    <2> QED
      BY <1>2, <1>4, <2>1, <2>2, ConcatEmptySeq DEF ToRead
  <1>7. FramesTyped'
    <2>1. /\ sent \in Seq(Stream!Frames) /\ received \in Seq(Stream!Frames)
          /\ \A i \in DOMAIN sent : /\ sent[i].payload \in Seq(Nat)
                                    /\ Len(sent[i].payload) <= Stream!MaxUint16
      BY <1>1 DEF FramesTyped
    <2> QED
      BY <1>2, <1>4, <1>5, <2>1 DEF FramesTyped
  <1>8. PICK at \in [0 .. Len(sent) -> Nat], b \in Nat :
             Positions(at) /\ ReadSoFar(at, b) /\ Remaining(at, b)
    BY DEF WellFramed
  <1>9. Positions(at)'
    BY <1>2, <1>8 DEF Positions, Size
  <1>10. ReadSoFar(at, b)'
    BY <1>2, <1>8 DEF ReadSoFar
  <1>11. Remaining(at, b)'
    BY <1>2, <1>6, <1>8 DEF Remaining, Size, Framed
  <1> QED
    BY <1>2, <1>7, <1>8, <1>9, <1>10, <1>11 DEF WellFramed

(* What has arrived is the beginning of what is to be read.                *)
LEMMA Consumed ==
    ASSUME FramesTyped, NEW n \in Nat, n <= Len(conn),
           conn' = SubSeq(conn, n + 1, Len(conn)), UNCHANGED <<holder, payload>>
    PROVE  /\ conn' \in Seq(Nat) /\ ToRead \in Seq(Nat) /\ ToRead' \in Seq(Nat)
           /\ Len(conn) \in Nat /\ Len(ToRead) >= Len(conn)
           /\ Len(ToRead') = Len(ToRead) - n
           /\ \A k \in 1 .. Len(ToRead) - n : ToRead'[k] = ToRead[k + n]
           /\ \A k \in 1 .. Len(conn) : ToRead[k] = conn[k]
  <1> DEFINE rest == Pending
  <1>1. conn \in Seq(Nat) /\ rest \in Seq(Nat) /\ Len(conn) \in Nat /\ Len(rest) \in Nat
    BY PendingIsPayload, LenProperties DEF FramesTyped
  <1>2. ToRead = conn \o rest /\ ToRead' = conn' \o rest
    BY DEF ToRead, Pending
  <1> HIDE DEF rest
  <1>3. /\ conn' \in Seq(Nat) /\ Len(conn') = Len(conn) - n
        /\ \A k \in 1 .. Len(conn) - n : conn'[k] = conn[k + n]
    BY <1>1
  <1>4. /\ ToRead \in Seq(Nat) /\ Len(ToRead) = Len(conn) + Len(rest)
        /\ \A k \in 1 .. Len(conn) : ToRead[k] = conn[k]
        /\ \A k \in 1 .. Len(rest) : ToRead[Len(conn) + k] = rest[k]
    BY <1>1, <1>2, OneAfterTheOther
  <1>5. /\ ToRead' \in Seq(Nat) /\ Len(ToRead') = Len(conn') + Len(rest)
        /\ \A k \in 1 .. Len(conn') : ToRead'[k] = conn'[k]
        /\ \A k \in 1 .. Len(rest) : ToRead'[Len(conn') + k] = rest[k]
    <2>1. \A y \in Seq(Nat) :
            /\ y \o rest \in Seq(Nat) /\ Len(y \o rest) = Len(y) + Len(rest)
            /\ \A k \in 1 .. Len(y) : (y \o rest)[k] = y[k]
            /\ \A k \in 1 .. Len(rest) : (y \o rest)[Len(y) + k] = rest[k]
      BY <1>1, OneAfterTheOther
    <2> QED
      BY <1>2, <1>3, <2>1
  <1>6. ASSUME NEW k \in 1 .. Len(ToRead) - n PROVE ToRead'[k] = ToRead[k + n]
    <2>1. CASE k <= Len(conn) - n
      <3>1. k \in 1 .. Len(conn) - n /\ k \in 1 .. Len(conn') /\ k + n \in 1 .. Len(conn)
        BY <1>1, <1>3, <2>1
      <3> QED
        BY <1>3, <1>4, <1>5, <3>1
    <2>2. CASE ~(k <= Len(conn) - n)
      <3> DEFINE j == k - (Len(conn) - n)
      <3>1. j \in 1 .. Len(rest) /\ k = Len(conn') + j /\ k + n = Len(conn) + j
        <4>1. /\ Len(conn') = Len(conn) - n /\ Len(ToRead) = Len(conn) + Len(rest)
              /\ k \in Int /\ k <= Len(ToRead) - n
          BY <1>1, <1>3, <1>4
        <4>2. \A x, y \in Nat :
                 k <= x + y - n /\ ~(k <= x - n)
                 => /\ k - (x - n) \in 1 .. y
                    /\ k = (x - n) + (k - (x - n)) /\ k + n = x + (k - (x - n))
          BY <4>1
        <4>3. Len(conn) \in Nat /\ Len(rest) \in Nat
          BY <1>1
        <4>4. k <= Len(conn) + Len(rest) - n
          BY <4>1
        <4> QED
          BY <2>2, <4>1, <4>2, <4>3, <4>4, Zenon
      <3> HIDE DEF j
      <3> QED
        BY <1>4, <1>5, <3>1
    <2> QED
      BY <2>1, <2>2
  <1>7. Len(ToRead') = Len(ToRead) - n /\ Len(ToRead) >= Len(conn)
    <2>1. /\ Len(conn') = Len(conn) - n /\ Len(ToRead) = Len(conn) + Len(rest)
          /\ Len(ToRead') = Len(conn') + Len(rest)
      BY <1>3, <1>4, <1>5
    <2> QED
      BY <1>1, <2>1
  <1> QED
    BY <1>1, <1>3, <1>4, <1>5, <1>6, <1>7

(* The header of the next message is read where it starts.                 *)
LEMMA NextHeader ==
    ASSUME MessagesAreBytes, WellFramed, Stream!ReadHeader,
           NEW at \in [0 .. Len(sent) -> Nat], NEW b \in Nat,
           Positions(at), ReadSoFar(at, b), Remaining(at, b)
    PROVE  /\ Len(received) < Len(sent) /\ b = at[Len(received)]
           /\ conn[1] = 1
           /\ conn[2] = Stream!MsgType[sent[Len(received) + 1].type]
           /\ conn[3] * LenBase + conn[4] = Len(sent[Len(received) + 1].payload)
           /\ Len(conn) >= 4
  <1> DEFINE n == Len(received)
  <1>1. FramesTyped
    BY DEF WellFramed
  <1>2. reading = "header" /\ Len(conn) >= 4
    BY DEF Stream!ReadHeader, Stream!readFull, Stream!Fail, Stream!Got,
       Stream!HeaderSize
  <1>3. /\ n \in Nat /\ Len(sent) \in Nat /\ DOMAIN sent = 1 .. Len(sent)
        /\ n <= Len(sent) /\ b = at[n]
    BY <1>1, <1>2 DEF FramesTyped, ReadSoFar
  <1>4. /\ ToRead \in Seq(Nat) /\ Len(ToRead) \in Nat /\ Len(ToRead) >= 4
        /\ \A k \in 1 .. 4 : ToRead[k] = conn[k]
    <2>1. conn \in Seq(Nat) /\ Len(conn) \in Nat
      BY <1>1 DEF FramesTyped
    <2>2. Pending \in Seq(Nat)
      BY <1>1, PendingIsPayload
    <2>3. /\ ToRead \in Seq(Nat)
          /\ Len(ToRead) = Len(conn) + Len(Pending)
          /\ \A k \in 1 .. Len(conn) : ToRead[k] = conn[k]
      BY <2>1, <2>2, OneAfterTheOther DEF ToRead
    <2>4. Len(Pending) \in Nat
      BY <2>2, LenProperties
    <2>5. Len(ToRead) \in Nat /\ Len(ToRead) >= 4 /\ \A k \in 1 .. 4 : k \in 1 .. Len(conn)
      BY <1>2, <2>1, <2>3, <2>4
    <2> QED
      BY <2>3, <2>5
  <1> HIDE DEF n
  <1>5. n < Len(sent)
    <2>1. b + Len(ToRead) = at[Len(sent)]
      BY DEF Remaining
    <2>2. ASSUME n = Len(sent) PROVE FALSE
      <3>1. at[Len(sent)] = b
        BY <1>3, <2>2, Zenon
      <3>2. Len(ToRead) \in Nat /\ Len(ToRead) >= 4
        BY <1>4
      <3> HIDE DEF ToRead
      <3> QED
        BY <2>1, <3>1, <3>2, SMT
    <2>3. n \in Nat /\ Len(sent) \in Nat /\ n <= Len(sent)
      BY <1>3
    <2> QED
      BY <2>2, <2>3
  <1> DEFINE f == sent[n + 1]
  <1>6. /\ n + 1 \in 1 .. Len(sent) /\ (n + 1) - 1 = n
        /\ f \in Stream!Frames /\ f.payload \in Seq(Nat) /\ Len(f.payload) <= Stream!MaxUint16
    <2>1. n + 1 \in 1 .. Len(sent) /\ (n + 1) - 1 = n
      <3>1. n \in Nat /\ Len(sent) \in Nat
        BY <1>3
      <3> QED
        BY <1>5, <3>1
    <2> QED
      BY <1>1, <1>3, <2>1 DEF FramesTyped
  <1>7. f.type \in DOMAIN Stream!MsgType
    BY <1>6 DEF Stream!Frames
  <1> HIDE DEF f
  <1>8. /\ Len(Framed(f)) = Size(f)
        /\ Framed(f)[1] = 1 /\ Framed(f)[2] = Stream!MsgType[f.type]
        /\ Framed(f)[3] * LenBase + Framed(f)[4] = Len(f.payload)
    BY <1>6, <1>7, OnTheWire DEF MessagesAreBytes
  <1>9. ASSUME NEW k \in 1 .. 4 PROVE conn[k] = Framed(f)[k]
    <2>1. n \in 0 .. Len(sent) /\ at[n] \in Nat /\ Len(f.payload) \in Nat
      BY <1>3, <1>6, LenProperties
    <2>2. k \in Nat /\ k >= 1 /\ k <= Size(f) /\ at[n] + k > b /\ at[n] + k - b = k
      BY <1>3, <2>1 DEF Size
    <2>3. /\ k \in Nat /\ n + 1 \in 1 .. Len(sent) /\ k >= 1
          /\ k <= Size(sent[n + 1]) /\ at[(n + 1) - 1] + k > b
      BY <1>6, <2>2 DEF f
    <2>4. ToRead[at[(n + 1) - 1] + k - b] = Framed(sent[n + 1])[k]
      BY <2>3, Zenon DEF Remaining
    <2>5. ToRead[k] = Framed(f)[k]
      BY <1>6, <2>2, <2>4 DEF f
    <2> QED
      BY <1>4, <2>5
  <1>10. /\ conn[1] = Framed(f)[1] /\ conn[2] = Framed(f)[2]
         /\ conn[3] = Framed(f)[3] /\ conn[4] = Framed(f)[4]
    <2>1. \A k \in {1, 2, 3, 4} : k \in 1 .. 4
      OBVIOUS
    <2> QED
      BY <1>9, <2>1
  <1> QED
    BY <1>2, <1>3, <1>5, <1>8, <1>10 DEF n, f

LEMMA PartOf ==
    ASSUME NEW s \in Seq(Nat), NEW i \in Nat \ {0}, NEW j \in Nat, i <= j + 1, j <= Len(s)
    PROVE  /\ SubSeq(s, i, j) \in Seq(Nat) /\ Len(SubSeq(s, i, j)) = j - i + 1
           /\ \A k \in 1 .. j - i + 1 : SubSeq(s, i, j)[k] = s[k + i - 1]
<1>1. Len(s) \in Nat /\ \A k \in 1 .. Len(s) : s[k] \in Nat
  BY ElementOfSeq, LenProperties
<1>2. \A k \in i .. j : s[k] \in Nat
  BY <1>1
<1>3. /\ SubSeq(s, i, j) \in Seq(Nat)
      /\ Len(SubSeq(s, i, j)) = IF i <= j THEN j - i + 1 ELSE 0
      /\ \A k \in 1 .. j - i + 1 : SubSeq(s, i, j)[k] = s[i + k - 1]
  BY <1>2, SubSeqProperties
<1>4. Len(SubSeq(s, i, j)) = j - i + 1
  <2>1. i <= j \/ j - i + 1 = 0
    OBVIOUS
  <2> QED
    BY <1>3, <2>1
<1>5. ASSUME NEW k \in 1 .. j - i + 1 PROVE SubSeq(s, i, j)[k] = s[k + i - 1]
  <2>1. i + k - 1 = k + i - 1
    OBVIOUS
  <2>2. SubSeq(s, i, j)[k] = s[i + k - 1]
    BY <1>3
  <2> QED
    BY <2>1, <2>2
<1> QED
  BY <1>3, <1>4, <1>5

(* What is left after n bytes is messages from byte b + n on.              *)
LEMMA RemainingAfter ==
    ASSUME FramesTyped, NEW at \in [0 .. Len(sent) -> Nat], NEW b \in Nat,
           Positions(at), Remaining(at, b),
           NEW n \in Nat, n <= Len(conn),
           conn' = SubSeq(conn, n + 1, Len(conn)), UNCHANGED <<holder, payload, sent>>
    PROVE  Positions(at)' /\ Remaining(at, b + n)'
<1>1. /\ ToRead \in Seq(Nat) /\ Len(ToRead) \in Nat /\ Len(ToRead) >= n
      /\ Len(ToRead') = Len(ToRead) - n
      /\ \A k \in 1 .. Len(ToRead) - n : ToRead'[k] = ToRead[k + n]
  <2>1. /\ ToRead \in Seq(Nat) /\ Len(conn) \in Nat /\ Len(ToRead) >= Len(conn)
        /\ Len(ToRead') = Len(ToRead) - n
        /\ \A k \in 1 .. Len(ToRead) - n : ToRead'[k] = ToRead[k + n]
    BY Consumed
  <2>2. Len(ToRead) \in Nat
    BY <2>1, LenProperties
  <2> QED
    BY <2>1, <2>2
<1>2. /\ Len(sent) \in Nat /\ DOMAIN sent = 1 .. Len(sent)
      /\ \A i \in 1 .. Len(sent) : Size(sent[i]) \in Nat
  <2>1. Len(sent) \in Nat /\ DOMAIN sent = 1 .. Len(sent)
    BY DEF FramesTyped
  <2> QED
    BY <2>1, LenProperties DEF FramesTyped, Size
<1>3. /\ b + Len(ToRead) = at[Len(sent)]
      /\ \A i \in 1 .. Len(sent), k \in Nat :
           k >= 1 /\ k <= Size(sent[i]) /\ at[i - 1] + k > b
           => ToRead[at[i - 1] + k - b] = Framed(sent[i])[k]
  BY DEF Remaining
<1>4. ASSUME NEW i \in 1 .. Len(sent), NEW k \in Nat,
             k >= 1, k <= Size(sent[i]), at[i - 1] + k > b + n
      PROVE  ToRead'[at[i - 1] + k - (b + n)] = Framed(sent[i])[k]
  <2>1. /\ i \in 0 .. Len(sent) /\ i - 1 \in 0 .. Len(sent) /\ Len(sent) \in 0 .. Len(sent)
        /\ i <= Len(sent)
    BY <1>2
  <2>2. at[i - 1] \in Nat /\ at[i] \in Nat
    BY <2>1
  <2>3. at[i] = at[i - 1] + Size(sent[i]) /\ at[i] <= at[Len(sent)]
    BY <2>1 DEF Positions
  <2>4. Size(sent[i]) \in Nat
    BY <1>2
  <2> DEFINE j == at[i - 1] + k - (b + n)
  <2>5. j \in 1 .. Len(ToRead) - n /\ j + n = at[i - 1] + k - b /\ at[i - 1] + k > b
    <3>1. PICK p \in Nat, q \in Nat, z \in Nat, l \in Nat :
              at[i - 1] = p /\ at[i] = q /\ Size(sent[i]) = z /\ Len(ToRead) = l
      BY <1>1, <2>2, <2>4
    <3>2. q = p + z /\ q <= b + l
      BY <1>3, <2>3, <3>1
    <3>3. k <= z /\ p + k > b + n
      BY <1>4, <3>1
    <3>4. /\ p + k - (b + n) \in 1 .. l - n
          /\ (p + k - (b + n)) + n = p + k - b /\ p + k > b
      BY <3>2, <3>3
    <3> QED
      BY <3>1, <3>4
  <2> HIDE DEF j
  <2>6. ToRead'[j] = ToRead[at[i - 1] + k - b]
    BY <1>1, <2>5
  <2>7. ToRead[at[i - 1] + k - b] = Framed(sent[i])[k]
    BY <1>3, <1>4, <2>5
  <2> QED
    BY <2>6, <2>7 DEF j
<1>5. b + n + Len(ToRead') = at[Len(sent)]
  <2>1. at[Len(sent)] \in Nat
    BY <1>2
  <2> QED
    BY <1>1, <1>3, <2>1
<1>6. Remaining(at, b + n)'
  BY <1>4, <1>5 DEF Remaining, Size, Framed
<1>7. Positions(at)'
  BY DEF Positions, Size
<1> QED
  BY <1>6, <1>7

(* Reading a header delivers a message only if it has no payload.          *)
LEMMA ReadingHeaderKeepsFrames ==
    ASSUME MessagesAreBytes, WellFramed, Stream!ReadHeader
    PROVE  WellFramed' /\ (Stream!Channel!Receive \/ UNCHANGED <<sent, received>>)
  <1> DEFINE n == Len(received)
             f == sent[n + 1]
             len == conn[3] * LenBase + conn[4]
  <1>1. FramesTyped
    BY DEF WellFramed
  <1>2. PICK at \in [0 .. Len(sent) -> Nat], b \in Nat :
             Positions(at) /\ ReadSoFar(at, b) /\ Remaining(at, b)
    BY DEF WellFramed
  <1>3. /\ n < Len(sent) /\ b = at[n] /\ conn[1] = 1
        /\ conn[2] = Stream!MsgType[f.type] /\ len = Len(f.payload) /\ Len(conn) >= 4
    BY <1>2, NextHeader
  <1>4. /\ Len(sent) \in Nat /\ n \in Nat /\ n + 1 \in 1 .. Len(sent)
        /\ conn \in Seq(Nat) /\ Len(conn) \in Nat
    <2>1. Len(sent) \in Nat /\ n \in Nat /\ conn \in Seq(Nat) /\ Len(conn) \in Nat
      BY <1>1 DEF FramesTyped
    <2> QED
      BY <1>3, <2>1
  <1>5. f \in Stream!Frames /\ f.payload \in Seq(Nat) /\ f.type \in DOMAIN Stream!MsgType
    <2>1. f \in Stream!Frames /\ f.payload \in Seq(Nat)
      BY <1>1, <1>4 DEF FramesTyped
    <2> QED
      BY <2>1 DEF Stream!Frames
  <1>6. /\ reading = "header"
        /\ conn' = SubSeq(conn, 4 + 1, Len(conn))
        /\ header' = [code |-> conn[2], len |-> len]
        /\ IF len > 0
           THEN reading' = "payload" /\ UNCHANGED received
           ELSE /\ received' = Append(received,
                                  [type |-> Stream!TypeOf(conn[2]), payload |-> <<>>])
                /\ UNCHANGED reading
        /\ UNCHANGED <<holder, payload, meant, sent>>
    <2> DEFINE h == Stream!readFull(conn, Stream!HeaderSize)
    <2>1. h = [ok |-> TRUE, val |-> SubSeq(conn, 1, 4), rest |-> SubSeq(conn, 4 + 1, Len(conn))]
      BY <1>3 DEF Stream!readFull, Stream!Got, Stream!HeaderSize
    <2> DEFINE v == SubSeq(conn, 1, 4)
               u == SubSeq(v, 3, 4)
    <2>2. /\ v \in Seq(Nat) /\ Len(v) = 4
          /\ v[1] = conn[1] /\ v[2] = conn[2] /\ v[3] = conn[3] /\ v[4] = conn[4]
      <3>1. /\ v \in Seq(Nat) /\ Len(v) = 4 - 1 + 1
            /\ \A k \in 1 .. 4 - 1 + 1 : v[k] = conn[k + 1 - 1]
        <4>1. 1 \in Nat \ {0} /\ 4 \in Nat /\ 1 <= 4 + 1 /\ 4 <= Len(conn)
          BY <1>3
        <4> QED
          BY <1>4, <4>1, PartOf, Zenon
      <3>2. 4 - 1 + 1 = 4 /\ \A k \in {1, 2, 3, 4} : k \in 1 .. 4 /\ k + 1 - 1 = k
        OBVIOUS
      <3> QED
        BY <3>1, <3>2
    <2> HIDE DEF v
    <2>3. u \in Seq(Nat) /\ Len(u) = 2 /\ u[1] = conn[3] /\ u[2] = conn[4]
      <3>1. /\ u \in Seq(Nat) /\ Len(u) = 4 - 3 + 1
            /\ \A k \in 1 .. 4 - 3 + 1 : u[k] = v[k + 3 - 1]
        BY <2>2, PartOf
      <3>2. /\ 4 - 3 + 1 = 2 /\ 1 \in 1 .. 2 /\ 2 \in 1 .. 2
            /\ 1 + 3 - 1 = 3 /\ 2 + 3 - 1 = 4
        OBVIOUS
      <3> QED
        BY <2>2, <3>1, <3>2
    <2> HIDE DEF u
    <2>4. Stream!readUint16(u).val = len
      <3>1. u[1] * LenBase + u[2] = len
        BY <2>3
      <3>2. SubSeq(u, 1, 2) = u
        BY <2>3, SubSeqFull
      <3> HIDE DEF len
      <3> QED
        BY <2>3, <3>1, <3>2
        DEF Stream!readUint16, Stream!Then, Stream!readFull, Stream!Got, Stream!Fail
    <2> HIDE DEF h, len
    <2>5. /\ h.ok /\ h.val = v /\ h.rest = SubSeq(conn, 4 + 1, Len(conn))
          /\ Stream!readUint16(SubSeq(h.val, 3, 4)).val = len
      BY <2>1, <2>4 DEF u, v
    <2>6. /\ reading = "header"
          /\ conn' = h.rest
          /\ header' = [code |-> h.val[2], len |-> len]
          /\ IF h.val[1] # Stream!Version
             THEN reading' = "stopped" /\ UNCHANGED received
             ELSE IF len > 0 THEN reading' = "payload" /\ UNCHANGED received
             ELSE Stream!Deliver(h.val[2], <<>>) /\ UNCHANGED reading
          /\ UNCHANGED <<holder, payload, meant, sent>>
      BY <2>5 DEF Stream!ReadHeader, h
    <2>7. h.val[1] = 1 /\ h.val[2] = conn[2] /\ Stream!Version = 1
      BY <1>3, <2>2, <2>5 DEF Stream!Version
    <2> QED
      BY <2>5, <2>6, <2>7 DEF Stream!Deliver
  <1>7. Positions(at)' /\ Remaining(at, b + 4)'
    BY <1>1, <1>2, <1>3, <1>6, RemainingAfter
  <1>8. conn' \in Seq(Nat)
    <2>1. /\ 4 + 1 \in Nat \ {0} /\ 4 + 1 <= Len(conn) + 1
          /\ Len(conn) <= Len(conn) /\ Len(conn) \in Nat
      BY <1>3, <1>4
    <2>2. SubSeq(conn, 4 + 1, Len(conn)) \in Seq(Nat)
      BY <1>4, <2>1, PartOf, Zenon
    <2> QED
      BY <1>6, <2>2
  <1> HIDE DEF f, len
  <1>9. CASE len > 0
    <2>1. /\ reading' = "payload" /\ received' = received /\ sent' = sent
          /\ header'.code = Stream!MsgType[f.type] /\ header'.len = len
      BY <1>3, <1>6, <1>9
    <2>2. FramesTyped'
      BY <1>1, <1>6, <1>8, <2>1 DEF FramesTyped
    <2>3. ReadSoFar(at, b + 4)'
      <3>1. n <= Len(sent) /\ \A i \in DOMAIN received : received[i] = sent[i]
        BY <1>2 DEF ReadSoFar
      <3> QED
        BY <1>3, <1>9, <2>1, <3>1 DEF ReadSoFar, f
    <2>4. b + 4 \in Nat /\ at \in [0 .. Len(sent') -> Nat]
      BY <1>2, <2>1
    <2> QED
      BY <1>7, <2>1, <2>2, <2>3, <2>4 DEF WellFramed
  <1>10. CASE ~(len > 0)
    <2>1. len = 0 /\ f.payload = <<>>
      <3>1. Len(f.payload) \in Nat
        BY <1>5, LenProperties
      <3>2. Len(f.payload) = 0
        BY <1>3, <1>10, <3>1
      <3> QED
        BY <1>3, <1>5, <3>2
    <2>2. Stream!TypeOf(conn[2]) = f.type
      BY <1>3, <1>5, CodesDiffer
    <2>3. /\ reading' = "header" /\ sent' = sent /\ received' = Append(received, f)
      <3>1. f = [type |-> f.type, payload |-> <<>>]
        BY <1>5, <2>1 DEF Stream!Frames
      <3> QED
        BY <1>6, <1>10, <2>2, <3>1
    <2>4. /\ received \in Seq(Stream!Frames) /\ received' \in Seq(Stream!Frames)
          /\ Len(received') = n + 1 /\ received'[n + 1] = f
          /\ \A i \in 1 .. n : received'[i] = received[i]
          /\ DOMAIN received' = 1 .. n + 1 /\ DOMAIN received = 1 .. n
      BY <1>1, <1>5, <2>3 DEF FramesTyped
    <2>5. FramesTyped'
      BY <1>1, <1>6, <1>8, <2>3, <2>4 DEF FramesTyped
    <2>6. ReadSoFar(at, b + 4)'
      <3>1. at[n + 1] = b + 4
        <4>1. at[n + 1] = at[(n + 1) - 1] + Size(f)
          BY <1>2, <1>4 DEF Positions, f
        <4>2. Size(f) = 4 /\ (n + 1) - 1 = n
          BY <1>4, <2>1 DEF Size
        <4> QED
          BY <1>3, <4>1, <4>2
      <3>2. \A i \in DOMAIN received' : received'[i] = sent[i]
        <4>1. \A i \in DOMAIN received : received[i] = sent[i]
          BY <1>2 DEF ReadSoFar
        <4>2. \A i \in 1 .. n + 1 : i \in 1 .. n \/ i = n + 1
          BY <1>4
        <4> QED
          BY <2>4, <4>1, <4>2 DEF f
      <3>3. n + 1 <= Len(sent)
        BY <1>4
      <3> QED
        BY <2>3, <2>4, <3>1, <3>2, <3>3 DEF ReadSoFar
    <2>7. b + 4 \in Nat /\ at \in [0 .. Len(sent') -> Nat]
      BY <1>2, <2>3
    <2>8. Stream!Channel!Receive
      BY <1>3, <2>3 DEF Stream!Channel!Receive, f
    <2> QED
      BY <1>7, <2>5, <2>6, <2>7, <2>8 DEF WellFramed
  <1> QED
    BY <1>9, <1>10

(* Reading a payload delivers the message that the header announced.       *)
LEMMA ReadingPayloadKeepsFrames ==
    ASSUME MessagesAreBytes, WellFramed, Stream!ReadPayload
    PROVE  WellFramed' /\ Stream!Channel!Receive
  <1> DEFINE n == Len(received)
             f == sent[n + 1]
             len == header.len
  <1>1. FramesTyped
    BY DEF WellFramed
  <1>2. PICK at \in [0 .. Len(sent) -> Nat], b \in Nat :
             Positions(at) /\ ReadSoFar(at, b) /\ Remaining(at, b)
    BY DEF WellFramed
  <1>3. /\ reading = "payload" /\ Len(conn) >= len
        /\ conn' = SubSeq(conn, len + 1, Len(conn))
        /\ reading' = "header"
        /\ received' = Append(received, [type |-> Stream!TypeOf(header.code),
                                         payload |-> SubSeq(conn, 1, len)])
        /\ UNCHANGED <<holder, payload, header, meant, sent>>
    BY DEF Stream!ReadPayload, Stream!readFull, Stream!Fail, Stream!Got, Stream!Deliver
  <1>4. /\ n < Len(sent) /\ b = at[n] + 4 /\ header.code = Stream!MsgType[f.type]
        /\ len = Len(f.payload) /\ len > 0
        /\ \A i \in DOMAIN received : received[i] = sent[i]
    BY <1>2, <1>3 DEF ReadSoFar
  <1>5. /\ Len(sent) \in Nat /\ n \in Nat /\ n + 1 \in 1 .. Len(sent)
        /\ conn \in Seq(Nat) /\ Len(conn) \in Nat
    <2>1. Len(sent) \in Nat /\ n \in Nat /\ conn \in Seq(Nat) /\ Len(conn) \in Nat
      BY <1>1 DEF FramesTyped
    <2> QED
      BY <1>4, <2>1
  <1>6. /\ f \in Stream!Frames /\ f.payload \in Seq(Nat) /\ Len(f.payload) <= Stream!MaxUint16
        /\ f.type \in DOMAIN Stream!MsgType /\ Len(f.payload) \in Nat
    <2>1. f \in Stream!Frames /\ f.payload \in Seq(Nat) /\ Len(f.payload) <= Stream!MaxUint16
      BY <1>1, <1>5 DEF FramesTyped
    <2> QED
      BY <2>1, LenProperties DEF Stream!Frames
  <1>7. PICK c \in Nat : c = b + len
    BY <1>2, <1>4, <1>6
  <1>8. Positions(at)' /\ Remaining(at, c)'
    <2>1. PICK l \in Nat : l = len /\ l <= Len(conn)
      BY <1>3, <1>4, <1>5, <1>6
    <2>2. conn' = SubSeq(conn, l + 1, Len(conn)) /\ UNCHANGED <<holder, payload, sent>>
      BY <1>3, <2>1
    <2>3. Positions(at)' /\ Remaining(at, b + l)'
      BY <1>1, <1>2, <2>1, <2>2, RemainingAfter
    <2> QED
      BY <1>7, <2>1, <2>3
  <1>9. n \in 0 .. Len(sent) /\ at[n] \in Nat /\ (n + 1) - 1 = n
    BY <1>5
  <1>10. at[n + 1] = c
    <2>1. at[n + 1] = at[(n + 1) - 1] + Size(f)
      BY <1>2, <1>5 DEF Positions, f
    <2>2. Size(f) = 4 + len
      BY <1>4 DEF Size
    <2>3. b = at[n] + 4 /\ len \in Nat
      BY <1>4, <1>6
    <2> HIDE DEF f, len
    <2> QED
      BY <1>7, <1>9, <2>1, <2>2, <2>3
  <1> HIDE DEF f, len
  <1>11. /\ ToRead \in Seq(Nat) /\ conn' \in Seq(Nat) /\ Len(ToRead) \in Nat
         /\ \A k \in 1 .. Len(conn) : ToRead[k] = conn[k]
    <2>1. len \in Nat /\ len <= Len(conn)
      BY <1>3, <1>4, <1>5, <1>6
    <2> QED
      BY <1>1, <1>3, <2>1, Consumed, LenProperties
  <1>12. SubSeq(conn, 1, len) = f.payload
    <2>1. /\ 1 \in Nat \ {0} /\ len \in Nat /\ 1 <= len + 1 /\ len <= Len(conn)
          /\ len - 1 + 1 = len
      BY <1>3, <1>4, <1>5, <1>6
    <2>2. /\ SubSeq(conn, 1, len) \in Seq(Nat) /\ Len(SubSeq(conn, 1, len)) = len
          /\ \A k \in 1 .. len : SubSeq(conn, 1, len)[k] = conn[k + 1 - 1]
      <3>1. /\ SubSeq(conn, 1, len) \in Seq(Nat) /\ Len(SubSeq(conn, 1, len)) = len - 1 + 1
            /\ \A k \in 1 .. len - 1 + 1 : SubSeq(conn, 1, len)[k] = conn[k + 1 - 1]
        BY <1>5, <2>1, PartOf, Zenon
      <3> QED
        BY <2>1, <3>1
    <2>3. ASSUME NEW k \in 1 .. len PROVE SubSeq(conn, 1, len)[k] = f.payload[k]
      <3>1. k \in 1 .. Len(conn) /\ k + 1 - 1 = k /\ k \in 1 .. Len(f.payload)
        BY <1>4, <1>5, <2>1
      <3>2. SubSeq(conn, 1, len)[k] = ToRead[k]
        BY <1>11, <2>2, <3>1
      <3> DEFINE j == 4 + k
      <3>3. /\ j \in Nat /\ j >= 1 /\ j <= Size(f) /\ at[n] + j > b /\ at[n] + j - b = k
        <4>1. b = at[n] + 4 /\ Size(f) = 4 + Len(f.payload)
          BY <1>4 DEF Size
        <4>2. k \in Nat /\ k >= 1 /\ k <= Len(f.payload) /\ at[n] \in Nat
          BY <1>6, <1>9, <3>1
        <4>3. j = 4 + k /\ Len(f.payload) \in Nat
          BY <1>6
        <4> HIDE DEF j, n
        <4>4. \A x, y \in Nat : k <= y =>
                /\ 4 + k \in Nat /\ 4 + k >= 1 /\ 4 + k <= 4 + y
                /\ x + (4 + k) > x + 4 /\ x + (4 + k) - (x + 4) = k
          BY <4>2
        <4> QED
          BY <4>1, <4>2, <4>3, <4>4, Zenon
      <3>4. Framed(f)[j] = f.payload[k]
        BY <1>6, <3>1, OnTheWire DEF MessagesAreBytes
      <3> HIDE DEF j
      <3>5. /\ n + 1 \in 1 .. Len(sent) /\ j \in Nat /\ j >= 1
            /\ j <= Size(sent[n + 1]) /\ at[(n + 1) - 1] + j > b
        BY <1>5, <1>9, <3>3 DEF f
      <3>6. ToRead[at[(n + 1) - 1] + j - b] = Framed(sent[n + 1])[j]
        BY <1>2, <3>5, Zenon DEF Remaining
      <3>7. ToRead[k] = Framed(f)[j]
        BY <1>9, <3>3, <3>6 DEF f
      <3> QED
        BY <3>2, <3>4, <3>7
    <2> QED
      BY <1>4, <1>6, <2>2, <2>3, SeqEqual
  <1>13. received' = Append(received, f)
    <2>1. Stream!TypeOf(header.code) = f.type
      BY <1>4, <1>6, CodesDiffer
    <2>2. f = [type |-> f.type, payload |-> f.payload]
      BY <1>6 DEF Stream!Frames
    <2> QED
      BY <1>3, <1>12, <2>1, <2>2
  <1>14. /\ received \in Seq(Stream!Frames) /\ received' \in Seq(Stream!Frames)
         /\ Len(received') = n + 1 /\ received'[n + 1] = f
         /\ \A i \in 1 .. n : received'[i] = received[i]
         /\ DOMAIN received' = 1 .. n + 1 /\ DOMAIN received = 1 .. n
    BY <1>1, <1>6, <1>13 DEF FramesTyped
  <1>15. FramesTyped'
    BY <1>1, <1>3, <1>11, <1>14 DEF FramesTyped
  <1>16. ReadSoFar(at, c)'
    <2>1. \A i \in DOMAIN received' : received'[i] = sent[i]
      <3>1. \A i \in 1 .. n + 1 : i \in 1 .. n \/ i = n + 1
        BY <1>5
      <3> QED
        BY <1>4, <1>14, <3>1 DEF f
    <2>2. n + 1 <= Len(sent)
      BY <1>5
    <2> QED
      BY <1>3, <1>10, <1>14, <2>1, <2>2 DEF ReadSoFar
  <1>17. at \in [0 .. Len(sent') -> Nat]
    BY <1>3
  <1>18. Stream!Channel!Receive
    BY <1>3, <1>4, <1>13 DEF Stream!Channel!Receive, f
  <1> QED
    BY <1>15, <1>16, <1>17, <1>18, <1>8 DEF WellFramed

LEMMA NothingSent ==
    ASSUME MessagesAreBytes, Stream!Init
    PROVE  WellFramed /\ Stream!Channel!Init
<1>1. /\ conn = <<>> /\ holder = Nobody /\ payload = [w \in Writers |-> <<>>]
      /\ reading = "header" /\ sent = <<>> /\ received = <<>>
  BY DEF Stream!Init
<1>2. ToRead = <<>>
  BY <1>1 DEF ToRead, Pending
<1>3. FramesTyped
  <2>1. \A S : <<>> \in Seq(S)
    OBVIOUS
  <2>2. payload \in [Writers -> Seq(Nat)] /\ \A w \in Writers : payload[w] = <<>>
    BY <1>1, <2>1
  <2> QED
    BY <1>1, <2>1, <2>2 DEF FramesTyped, MessagesAreBytes
<1>4. PICK at : at = [i \in 0 .. 0 |-> 0]
  OBVIOUS
<1>5. at \in [0 .. Len(sent) -> Nat] /\ at[0] = 0 /\ Len(sent) = 0 /\ Len(received) = 0
  BY <1>1, <1>4
<1>6. Positions(at)
  BY <1>5 DEF Positions
<1>7. ReadSoFar(at, 0)
  BY <1>1, <1>5 DEF ReadSoFar
<1>8. Remaining(at, 0)
  BY <1>2, <1>5 DEF Remaining
<1> QED
  BY <1>1, <1>3, <1>5, <1>6, <1>7, <1>8 DEF WellFramed, Stream!Channel!Init

LEMMA StutteringKeepsFrames ==
    ASSUME WellFramed, UNCHANGED Stream!vars
    PROVE  WellFramed' /\ UNCHANGED <<sent, received>>
<1>1. UNCHANGED <<conn, holder, payload, reading, header, sent, received>>
  BY DEF Stream!vars
<1>2. PICK at \in [0 .. Len(sent) -> Nat], b \in Nat :
           Positions(at) /\ ReadSoFar(at, b) /\ Remaining(at, b)
  BY DEF WellFramed
<1>3. FramesTyped'
  BY <1>1 DEF WellFramed, FramesTyped
<1>4. Positions(at)' /\ ReadSoFar(at, b)'
  BY <1>1, <1>2 DEF Positions, ReadSoFar, Size
<1>5. ToRead' = ToRead
  BY <1>1 DEF ToRead, Pending
<1>6. Remaining(at, b)'
  BY <1>1, <1>2, <1>5 DEF Remaining, Size, Framed
<1> QED
  BY <1>1, <1>2, <1>3, <1>4, <1>6 DEF WellFramed

(* Messages arrive as they were sent (pkg/protocol/protocol.go:166-250):   *)
(* each arrives whole, once and in order, and ReadMessage never stops at a *)
(* wrong version, until a message is begun while another is half written   *)
(* and one of the two writers does not hold the mutex of the connection    *)
(* (the server's replies and pongs, server.go:506, :844; JoinRoom and      *)
(* Close of the client, client.go:280, :431), or one is sent whose length  *)
(* is no uint16.  Writers that hold the mutex never disturb each other,    *)
(* and the others only when they meet.  That all messages arrive is        *)
(* liveness and not part of it.                                            *)
THEOREM FramingIsSound ==
    ASSUME MessagesAreBytes
    PROVE  Stream!Init /\ [][OrderlyStep]_(Stream!vars)
               => /\ Stream!Channel!Init
                  /\ [][Stream!Channel!Next]_(Stream!Channel!vars)
                  /\ [](reading # "stopped")
<1>1. Stream!Init => WellFramed /\ Stream!Channel!Init
  BY NothingSent
<1>2. WellFramed /\ [OrderlyStep]_(Stream!vars)
      => WellFramed' /\ [Stream!Channel!Next]_(Stream!Channel!vars)
  <2> SUFFICES ASSUME WellFramed, [OrderlyStep]_(Stream!vars)
               PROVE  WellFramed' /\ [Stream!Channel!Next]_(Stream!Channel!vars)
    OBVIOUS
  <2>1. CASE \E w \in Writers : Stream!WritePayload(w)
    BY <2>1, PayloadKeepsFrames DEF Stream!Channel!vars
  <2>2. CASE \E w \in Writers, m \in Messages :
                 Stream!WriteHeader(w, m) /\ ~Overlaps(w) /\ ~Unannounced(m)
    BY <2>2, HeaderKeepsFrames DEF Stream!Channel!Next
  <2>3. CASE Stream!ReadHeader
    BY <2>3, ReadingHeaderKeepsFrames DEF Stream!Channel!Next, Stream!Channel!vars
  <2>4. CASE Stream!ReadPayload
    BY <2>4, ReadingPayloadKeepsFrames DEF Stream!Channel!Next
  <2>5. CASE UNCHANGED Stream!vars
    BY <2>5, StutteringKeepsFrames DEF Stream!Channel!vars
  <2> QED
    BY <2>1, <2>2, <2>3, <2>4, <2>5 DEF OrderlyStep, Stream!Read
<1>3. WellFramed => reading # "stopped"
  BY DEF WellFramed, ReadSoFar
<1> QED
  BY <1>1, <1>2, <1>3, PTL
=============================================================================
