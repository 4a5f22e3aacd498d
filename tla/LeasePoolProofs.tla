-------------------------- MODULE LeasePoolProofs --------------------------
(***************************************************************************)
(* What holds of LeasePool for all sets of users and sessions, all         *)
(* subnets, any number of search rounds and any length of a lease.         *)
(*                                                                         *)
(* IInv says of alloc and held what IPAllocatorProofs says of any          *)
(* allocator and its holders.  Nothing is assumed of who has how many      *)
(* sessions: an address is lost when a user's second lease replaces the    *)
(* first and in no other way, and the last address a user gave back is the *)
(* one a session of the user gets in time.                                 *)
(***************************************************************************)
EXTENDS LeasePool, IPAllocatorProofs

IInv ==
    /\ TypeOK
    /\ Apart(alloc, Sessions, held)
    /\ AllHosts(alloc, Sessions, held)
    /\ alloc.network = Subnet

-----------------------------------------------------------------------------
LEMMA InitInv == Init => IInv
  <1> SUFFICES ASSUME Init PROVE IInv
    OBVIOUS
  <1>1. /\ alloc \in Allocators /\ alloc.network = Subnet
        /\ Apart(alloc, Sessions, held) /\ AllHosts(alloc, Sessions, held)
    BY NewAllocatorApart, SessionsAssumption DEF Init
  <1>2. TypeOK
    BY <1>1 DEF Init, TypeOK
  <1> QED
    BY <1>1, <1>2 DEF IInv

(* What a step finds, in the terms of the lemmas about allocators.         *)
LEMMA Facts ==
    ASSUME IInv, NEW s \in Sessions
    PROVE  /\ alloc \in Allocators
           /\ held \in Holders(Sessions)
           /\ owed \in [Users -> Leases \cup {NoLease}]
           /\ UserOf[s] \in Users
           /\ Apart(alloc, Sessions, held)
  BY SessionsAssumption DEF IInv, TypeOK, Holders

LEMMA AcquireInv ==
    ASSUME IInv, NEW s \in Sessions, Acquire(s)
    PROVE  IInv'
  <1>1. PICK r \in AllocateForUser(alloc, UserOf[s]) :
            alloc' = r.alloc /\ held' = [held EXCEPT ![s] = r.ip]
    BY DEF Acquire
  <1>2. /\ Apart(r.alloc, Sessions, held')
        /\ AllHosts(alloc, Sessions, held) => AllHosts(r.alloc, Sessions, held')
        /\ held' \in Holders(Sessions)
    BY <1>1, Facts, AllocateForUserTakes DEF Acquire
  <1>3. r.alloc \in Allocators /\ r.alloc.network = alloc.network
    BY Facts, AllocateForUserLeases
  <1>4. owed' \in [Users -> Leases \cup {NoLease}]
    BY Facts DEF Acquire
  <1> QED
    BY <1>1, <1>2, <1>3, <1>4 DEF IInv, TypeOK, Holders

LEMMA AcquireFailsInv ==
    ASSUME IInv, NEW s \in Sessions, AcquireFails(s)
    PROVE  IInv'
  <1>1. alloc' = expireLeasesLocked(alloc) /\ held' = held /\ owed' = owed
    BY DEF AcquireFails
  <1>2. /\ Apart(alloc', Sessions, held)
        /\ AllHosts(alloc, Sessions, held) => AllHosts(alloc', Sessions, held)
    BY <1>1, Facts, ExpireKeepsApart
  <1>3. alloc' \in Allocators /\ alloc'.network = alloc.network
    BY <1>1, Facts, ExpireResult
  <1> QED
    BY <1>1, <1>2, <1>3 DEF IInv, TypeOK

LEMMA GiveBackInv ==
    ASSUME IInv, NEW s \in Sessions, GiveBack(s)
    PROVE  IInv'
  <1> DEFINE l == [ip |-> held[s], left |-> LeaseDuration]
  <1>1. /\ alloc' = ReleaseWithLease(alloc, held[s], UserOf[s])
        /\ held' = [held EXCEPT ![s] = NoIP]
        /\ owed' = [owed EXCEPT ![UserOf[s]] = l]
        /\ held[s] # NoIP
    BY DEF GiveBack
  <1>2. /\ held' \in Holders(Sessions)
        /\ Apart(alloc', Sessions, held')
        /\ AllHosts(alloc, Sessions, held) => AllHosts(alloc', Sessions, held')
    BY <1>1, Facts, ReleaseWithLeaseKeepsApart
  <1>3. held[s] \in Addr
    BY <1>1, Facts DEF Holders
  <1>4. alloc' \in Allocators /\ l \in Leases /\ alloc'.network = alloc.network
    BY <1>1, <1>3, Facts, ReleaseWithLeaseResult
  <1>5. owed' \in [Users -> Leases \cup {NoLease}]
    BY <1>1, <1>4, Facts
  <1> QED
    BY <1>2, <1>4, <1>5 DEF IInv, TypeOK, Holders

LEMMA AcquireAnonymouslyInv ==
    ASSUME IInv, NEW s \in Sessions, AcquireAnonymously(s)
    PROVE  IInv'
  <1>1. PICK r \in allocateLocked(alloc) :
            alloc' = r.alloc /\ held' = [held EXCEPT ![s] = r.ip]
    BY DEF AcquireAnonymously, Allocate
  <1>2. held[s] = NoIP /\ owed' = owed
    BY DEF AcquireAnonymously
  <1>3. /\ held' \in Holders(Sessions)
        /\ Apart(r.alloc, Sessions, held')
        /\ AllHosts(alloc, Sessions, held) => AllHosts(r.alloc, Sessions, held')
    BY <1>1, <1>2, Facts, AllocateTakes
  <1>4. r.alloc \in Allocators /\ r.alloc.network = alloc.network
    BY Facts, AllocateResult
  <1> QED
    BY <1>1, <1>2, <1>3, <1>4 DEF IInv, TypeOK, Holders

LEMMA GiveBackAnonymouslyInv ==
    ASSUME IInv, NEW s \in Sessions, GiveBackAnonymously(s)
    PROVE  IInv'
  <1>1. /\ alloc' = Release(alloc, held[s])
        /\ held' = [held EXCEPT ![s] = NoIP]
        /\ owed' = owed
        /\ held[s] # NoIP
    BY DEF GiveBackAnonymously
  <1>2. /\ alloc' \in Allocators /\ held' \in Holders(Sessions)
        /\ Apart(alloc', Sessions, held')
        /\ AllHosts(alloc, Sessions, held) => AllHosts(alloc', Sessions, held')
        /\ alloc'.network = alloc.network
    BY <1>1, Facts, ReleaseKeepsApart
  <1> QED
    BY <1>1, <1>2 DEF IInv, TypeOK, Holders

LEMMA TickInv ==
    ASSUME IInv, Tick
    PROVE  IInv'
  <1>1. /\ alloc \in Allocators /\ held \in Holders(Sessions)
        /\ owed \in [Users -> Leases \cup {NoLease}]
        /\ alloc' = Elapse(alloc) /\ held' = held
    BY DEF IInv, TypeOK, Tick, Holders
  <1>2. /\ Apart(alloc', Sessions, held)
        /\ AllHosts(alloc, Sessions, held) => AllHosts(alloc', Sessions, held)
    BY <1>1, ElapseKeepsApart DEF IInv
  <1>3. alloc' \in Allocators /\ alloc'.network = alloc.network
    BY <1>1, ElapseResult
  <1>4. owed' \in [Users -> Leases \cup {NoLease}]
    BY <1>1, AgedResult DEF Tick
  <1> QED
    BY <1>1, <1>2, <1>3, <1>4 DEF IInv, TypeOK

LEMMA NextInv == IInv /\ [Next]_vars => IInv'
  <1> SUFFICES ASSUME IInv, [Next]_vars PROVE IInv'
    OBVIOUS
  <1>1. ASSUME NEW s \in Sessions, Acquire(s) PROVE IInv'
    BY <1>1, AcquireInv
  <1>2. ASSUME NEW s \in Sessions, AcquireFails(s) PROVE IInv'
    BY <1>2, AcquireFailsInv
  <1>3. ASSUME NEW s \in Sessions, GiveBack(s) PROVE IInv'
    BY <1>3, GiveBackInv
  <1>4. ASSUME NEW s \in Sessions, AcquireAnonymously(s) PROVE IInv'
    BY <1>4, AcquireAnonymouslyInv
  <1>5. ASSUME NEW s \in Sessions, GiveBackAnonymously(s) PROVE IInv'
    BY <1>5, GiveBackAnonymouslyInv
  <1>6. CASE Tick
    BY <1>6, TickInv
  <1>7. CASE UNCHANGED vars
    BY <1>7 DEF vars, IInv, TypeOK
  <1> QED
    BY <1>1, <1>2, <1>3, <1>4, <1>5, <1>6, <1>7 DEF Next

LEMMA SpecInv == Spec => []IInv
  BY InitInv, NextInv, PTL DEF Spec

(* The fields keep the types of the Go structs.                            *)
THEOREM TypeCorrect == Spec => []TypeOK
  <1>1. IInv => TypeOK
    BY DEF IInv
  <1> QED
    BY <1>1, SpecInv, PTL

(* AllocateForUser never hands out an address somebody else holds          *)
(* (ipalloc.go:65-89), whatever the users, leases and expirations.         *)
THEOREM AddressesDistinct == Spec => []DistinctAddresses
  <1>1. IInv => DistinctAddresses
    BY DEF IInv, Apart, DistinctAddresses
  <1> QED
    BY <1>1, SpecInv, PTL

(* A leased address is in used, is held by nobody and is leased only once  *)
(* (ipalloc.go:101-115: "the IP stays in the used set").                   *)
THEOREM LeasesAreApart == Spec => []HeldAndLeased
  <1>1. IInv => HeldAndLeased
    BY DEF IInv, Apart, HeldAndLeased, HeldIPs, LeasedIPs, Leased
  <1> QED
    BY <1>1, SpecInv, PTL

(* Only host addresses of the subnet are handed out (ipalloc.go:135),      *)
(* also when they come back through a lease.                               *)
THEOREM HoldersAreHosts == Spec => []HeldAreHosts
  <1>1. IInv => HeldAreHosts
    BY DEF IInv, AllHosts, Host, HeldAreHosts, HeldIPs
  <1> QED
    BY <1>1, SpecInv, PTL

-----------------------------------------------------------------------------
(* The search for a free address.                                          *)

SearchInv == IInv /\ NextInSubnet(alloc)

LEMMA SearchStep == SearchInv /\ [Next]_vars => SearchInv'
  <1> SUFFICES ASSUME SearchInv, [Next]_vars PROVE NextInSubnet(alloc)'
    BY NextInv DEF SearchInv
  <1>1. alloc \in Allocators /\ NextInSubnet(alloc)
    BY DEF SearchInv, IInv, TypeOK
  <1>2. ASSUME NEW s \in Sessions, Acquire(s) PROVE NextInSubnet(alloc')
    <2>1. PICK r \in AllocateForUser(alloc, UserOf[s]) : alloc' = r.alloc
      BY <1>2 DEF Acquire
    <2> QED
      BY <1>1, <2>1, AllocateForUserAdvances, SessionsAssumption
  <1>3. ASSUME NEW s \in Sessions, AcquireAnonymously(s) PROVE NextInSubnet(alloc')
    <2>1. PICK r \in allocateLocked(alloc) : alloc' = r.alloc
      BY <1>3 DEF AcquireAnonymously, Allocate
    <2> QED
      BY <1>1, <2>1, AllocateAdvances
  <1>4. ASSUME NEW s \in Sessions,
               AcquireFails(s) \/ GiveBack(s) \/ GiveBackAnonymously(s)
        PROVE  NextInSubnet(alloc')
    BY <1>1, <1>4, SearchStays DEF AcquireFails, GiveBack, GiveBackAnonymously
  <1>5. CASE Tick
    BY <1>1, <1>5, SearchStays DEF Tick
  <1>6. CASE UNCHANGED vars
    BY <1>1, <1>6 DEF vars
  <1>7. NextInSubnet(alloc')
    BY <1>2, <1>3, <1>4, <1>5, <1>6 DEF Next
  <1> QED
    BY <1>7 DEF NextInSubnet

LEMMA SearchHolds == Spec => []SearchInv
  <1>1. Init => SearchInv
    BY InitInv, SearchBegins, SessionsAssumption DEF Init, SearchInv
  <1> QED
    BY <1>1, SearchStep, PTL DEF Spec

(* The closed form Probe and the statements of the loop (ipalloc.go:131,   *)
(* an increment and a wrap) look at the same addresses in the same rounds, *)
(* for every subnet but one that is the whole address space, where the     *)
(* increment itself wraps into the subnet.                                 *)
THEOREM SearchIsLoop ==
    ASSUME Subnet.size < AddrSpace
    PROVE  Spec => []ProbeIsLoop
  <1>1. SearchInv => ProbeIsLoop
    <2> SUFFICES ASSUME SearchInv PROVE ProbeIsLoop
      OBVIOUS
    <2>1. alloc \in Allocators /\ NextInSubnet(alloc) /\ alloc.network.size < AddrSpace
      BY DEF SearchInv, IInv, TypeOK
    <2> DEFINE at[k \in Rounds] ==
                   IF k = 0 THEN alloc.nextIP
                   ELSE IF Contains(alloc.network, incrementIP(at[k - 1]))
                   THEN incrementIP(at[k - 1]) ELSE FirstIP(alloc.network)
               probe == [k \in Rounds |-> Probe(alloc, k)]
    <2>2. probe = [k \in Rounds |->
                       IF k = 0 THEN alloc.nextIP
                       ELSE IF Contains(alloc.network, incrementIP(probe[k - 1]))
                       THEN incrementIP(probe[k - 1]) ELSE FirstIP(alloc.network)]
      BY <2>1, ProbeIsALoop
    <2> HIDE DEF probe
    <2>3. at = [k \in Rounds |->
                    IF k = 0 THEN alloc.nextIP
                    ELSE IF Contains(alloc.network, incrementIP(at[k - 1]))
                    THEN incrementIP(at[k - 1]) ELSE FirstIP(alloc.network)]
      BY <2>2
    <2> HIDE DEF at
    <2>4. \A k \in Rounds : at[k] = Probe(alloc, k)
      BY <2>1, <2>3, LoopIsProbe
    <2> USE DEF at
    <2> QED
      BY <2>4 DEF ProbeIsLoop
  <1> QED
    BY <1>1, SearchHolds, PTL

(* When "no available IP addresses" is said (ipalloc.go:153), at most the  *)
(* address handed out last is free, if the subnet begins at .0 and the     *)
(* loop has at least two rounds less than the subnet has addresses: its    *)
(* 254 rounds are enough for the /24 of every room a client creates        *)
(* (server.go:382).                                                        *)
THEOREM SearchWithholdsOne ==
    ASSUME Subnet.base % 256 = 0, MaxAttempts >= Subnet.size - 2
    PROVE  Spec => []WithheldIsLastGiven
  <1>1. SearchInv => WithheldIsLastGiven
    <2> SUFFICES ASSUME SearchInv, FirstFree(alloc) = {},
                        NEW ip \in Subnet.base + 1 .. Subnet.base + Subnet.size - 1,
                        Usable(alloc, ip), incrementIP(ip) # alloc.nextIP
                 PROVE  FALSE
      BY DEF WithheldIsLastGiven
    <2>1. alloc \in Allocators /\ NextInSubnet(alloc) /\ alloc.network = Subnet
      BY DEF SearchInv, IInv, TypeOK
    <2>2. Subnet.base \in Nat /\ Subnet.size \in Nat /\ Subnet.base + Subnet.size <= AddrSpace
      BY SubnetFacts, SessionsAssumption
    <2>3. ip \in Addr /\ ip # Subnet.base
      BY <2>2, AddrSpaceAssumption DEF Addr
    <2> QED
      BY <2>1, <2>3, SearchIsComplete
  <1> QED
    BY <1>1, SearchHolds, PTL

-----------------------------------------------------------------------------
(* What a step may never do.                                               *)

(* While a lease lasts, ReleaseWithLease's reservation is honoured         *)
(* (ipalloc.go:98-100).                                                    *)
THEOREM ReservationHonoured == Spec => ReservedForUser
  <1> DEFINE A == \A s \in Sessions, u \in Users :
                     Live(alloc.leases[u]) /\ held'[s] # held[s] /\ held'[s] = alloc.leases[u].ip
                        => UserOf[s] = u
  <1>1. IInv /\ [Next]_vars => A
    <2> SUFFICES ASSUME IInv, [Next]_vars,
                        NEW s \in Sessions, NEW u \in Users,
                        Live(alloc.leases[u]), held'[s] # held[s], held'[s] = alloc.leases[u].ip
                 PROVE  UserOf[s] = u
      OBVIOUS
    <2>1. alloc \in Allocators /\ held \in [Sessions -> Addr \cup {NoIP}]
      BY DEF IInv, TypeOK
    <2>2. alloc.leases[u] # NoLease /\ alloc.leases[u].ip # NoIP
      BY <2>1, NoIPAssumption DEF Live, Allocators, Leases
    <2>3. ASSUME NEW t \in Sessions, Acquire(t) PROVE UserOf[s] = u
      <3>1. PICK r \in AllocateForUser(alloc, UserOf[t]) : held' = [held EXCEPT ![t] = r.ip]
        BY <2>3 DEF Acquire
      <3>2. s = t /\ r.ip = alloc.leases[u].ip
        BY <2>1, <3>1
      <3>3. CASE Live(alloc.leases[UserOf[t]])
        <4>1. r.ip = alloc.leases[UserOf[t]].ip
          BY <3>3, Facts, AllocateForUserLeases
        <4> QED
          BY <2>2, <3>2, <3>3, <4>1, Facts DEF Apart, Live
      <3>4. CASE ~Live(alloc.leases[UserOf[t]])
        BY <3>2, <3>4, Facts, AllocateForUserFresh
      <3> QED
        BY <3>3, <3>4
    <2>4. ASSUME NEW t \in Sessions, AcquireAnonymously(t) PROVE UserOf[s] = u
      <3>1. PICK r \in allocateLocked(alloc) : held' = [held EXCEPT ![t] = r.ip]
        BY <2>4 DEF AcquireAnonymously, Allocate
      <3>2. r.ip = alloc.leases[u].ip
        BY <2>1, <3>1
      <3> QED
        BY <2>2, <3>2, Facts, AllocateFresh
    <2>5. ASSUME NEW t \in Sessions, GiveBack(t) \/ GiveBackAnonymously(t)
          PROVE  UserOf[s] = u
      <3>1. held'[s] = NoIP
        BY <2>1, <2>5 DEF GiveBack, GiveBackAnonymously
      <3> QED
        BY <2>2, <3>1
    <2>6. ASSUME NEW t \in Sessions, AcquireFails(t) PROVE UserOf[s] = u
      BY <2>6 DEF AcquireFails
    <2>7. CASE Tick \/ UNCHANGED vars
      BY <2>7 DEF Tick, vars
    <2> QED
      BY <2>3, <2>4, <2>5, <2>6, <2>7 DEF Next
  <1> QED
    BY <1>1, SpecInv, PTL DEF Spec, ReservedForUser

-----------------------------------------------------------------------------
(* The allocator and its sessions implement AddressPromise.                *)

LEMMA PromiseInit == Init => Promise!Init
  BY NewAllocatorApart, SessionsAssumption DEF Init, Promise!Init, Reserved

LEMMA PromiseAcquire ==
    ASSUME IInv, NEW s \in Sessions, Acquire(s)
    PROVE  Promise!Give(s)
  <1> DEFINE u == UserOf[s]
  <1>1. PICK r \in AllocateForUser(alloc, u) :
            alloc' = r.alloc /\ held' = [held EXCEPT ![s] = r.ip]
    BY DEF Acquire
  <1>2. s \notin Anonymous /\ held[s] = NoIP /\ u \in Users
    BY Facts DEF Acquire, Named
  <1>3. r.ip \in Addr
    BY <1>2, Facts, AllocateForUserLeases
  <1>4. held'[s] = r.ip
    BY <1>1, Facts DEF Holders
  <1>5. IF Reserved[u] = NoIP
        THEN /\ \A t \in Sessions : held[t] # r.ip
             /\ \A v \in Users : Reserved[v] # r.ip
             /\ Reserved' = Reserved
        ELSE /\ r.ip = Reserved[u]
             /\ Reserved' = [Reserved EXCEPT ![u] = NoIP]
    BY <1>1, <1>2, Facts, AllocateForUserReserves DEF Reserved
  <1> QED
    BY <1>1, <1>2, <1>3, <1>4, <1>5 DEF Promise!Give, Promise!Free

LEMMA PromiseAcquireAnonymously ==
    ASSUME IInv, NEW s \in Sessions, AcquireAnonymously(s)
    PROVE  Promise!Give(s)
  <1>1. PICK r \in allocateLocked(alloc) :
            alloc' = r.alloc /\ held' = [held EXCEPT ![s] = r.ip]
    BY DEF AcquireAnonymously, Allocate
  <1>2. s \in Anonymous /\ held[s] = NoIP
    BY DEF AcquireAnonymously
  <1>3. /\ r.ip \in Addr
        /\ \A t \in Sessions : held[t] # r.ip
        /\ \A v \in Users : alloc.leases[v] # NoLease => alloc.leases[v].ip # r.ip
    BY Facts, AllocateFresh
  <1>4. held'[s] = r.ip
    BY <1>1, Facts DEF Holders
  <1>5. \A v \in Users : Reserved[v] # r.ip
    BY <1>3, NoIPAssumption DEF Reserved, Reservations, Live
  <1>6. alloc'.leases = alloc.leases
    BY <1>1, Facts, AllocateResult
  <1>7. Reserved' = Reserved
    BY <1>6 DEF Reserved, Reservations
  <1> QED
    BY <1>1, <1>2, <1>3, <1>4, <1>5, <1>7 DEF Promise!Give, Promise!Free

LEMMA PromiseGiveBack ==
    ASSUME IInv, NEW s \in Sessions, GiveBack(s)
    PROVE  Promise!TakeBack(s)
  <1>1. held[s] \in Addr
    BY Facts DEF GiveBack, Holders
  <1>2. Reserved' = [Reserved EXCEPT ![UserOf[s]] = held[s]]
    BY <1>1, Facts, ReleaseReserves DEF GiveBack, Reserved
  <1> QED
    BY <1>2 DEF Promise!TakeBack, GiveBack, Named

LEMMA PromiseGiveBackAnonymously ==
    ASSUME IInv, NEW s \in Sessions, GiveBackAnonymously(s)
    PROVE  Promise!TakeBack(s)
  <1>1. alloc'.leases = alloc.leases
    BY Facts, ReleaseKeepsApart DEF GiveBackAnonymously
  <1>2. Reserved' = Reserved
    BY <1>1 DEF Reserved, Reservations
  <1> QED
    BY <1>2 DEF Promise!TakeBack, GiveBackAnonymously

(* A lease that runs out on a tick is a promise that lapses.               *)
LEMMA PromiseTick ==
    ASSUME IInv, Tick
    PROVE  Promise!Next
  <1> DEFINE U == {u \in Users : ~Live(alloc'.leases[u])}
  <1>1. alloc \in Allocators /\ alloc' = Elapse(alloc) /\ held' = held
    BY DEF IInv, TypeOK, Tick
  <1>2. Reserved' = [u \in Users |-> IF u \in U THEN NoIP ELSE Reserved[u]]
    BY <1>1, ElapseLapses DEF Reserved
  <1> QED
    BY <1>1, <1>2 DEF Promise!Lapse, Promise!Next

(* ipalloc.go and the callers in server.go implement the promise.          *)
THEOREM ImplementsPromise == Spec => KeepsPromise
  <1>1. IInv /\ [Next]_vars => [Promise!Next]_<<held, Reserved>>
    <2> SUFFICES ASSUME IInv, [Next]_vars
                 PROVE  [Promise!Next]_<<held, Reserved>>
      OBVIOUS
    <2>1. ASSUME NEW s \in Sessions, Acquire(s) \/ AcquireAnonymously(s)
          PROVE  Promise!Next
      BY <2>1, PromiseAcquire, PromiseAcquireAnonymously DEF Promise!Next
    <2>2. ASSUME NEW s \in Sessions, GiveBack(s) \/ GiveBackAnonymously(s)
          PROVE  Promise!Next
      BY <2>2, PromiseGiveBack, PromiseGiveBackAnonymously DEF Promise!Next
    <2>3. ASSUME NEW s \in Sessions, AcquireFails(s)
          PROVE  UNCHANGED <<held, Reserved>>
      BY <2>3, Facts, SweepSparesLive DEF AcquireFails, Reserved
    <2>4. CASE Tick
      BY <2>4, PromiseTick
    <2>5. CASE UNCHANGED vars
      BY <2>5 DEF vars, Reserved
    <2> QED
      BY <2>1, <2>2, <2>3, <2>4, <2>5 DEF Next
  <1> QED
    BY <1>1, PromiseInit, SpecInv, PTL DEF Spec, KeepsPromise, Promise!Spec, Promise!vars
-----------------------------------------------------------------------------
(* Addresses that are lost.                                                *)

(* HeldIPs and LeasedIPs in the terms of the lemmas about allocators.      *)
LEMMA OrphansAreLost ==
    ASSUME IInv
    PROVE  /\ LostIn(alloc, Sessions, held, Orphans)
           /\ \A L : LostIn(alloc, Sessions, held, L) => Orphans \subseteq L
  <1>1. NoIP \notin alloc.used
    BY NoIPAssumption DEF IInv, TypeOK, Allocators
  <1>2. LostIn(alloc, Sessions, held, Orphans)
    BY <1>1 DEF LostIn, Orphans, HeldIPs, LeasedIPs, Leased
  <1>3. ASSUME NEW L, LostIn(alloc, Sessions, held, L) PROVE Orphans \subseteq L
    BY <1>1, <1>3 DEF LostIn, Orphans, HeldIPs, LeasedIPs, Leased
  <1> QED
    BY <1>2, <1>3

(* Only ReleaseWithLease over a lease of the same user loses an address    *)
(* (ipalloc.go:109): the one of that lease.                                *)
THEOREM LostByOverwriting == Spec => OnlyOverwritingLoses
  <1> DEFINE A == \A ip \in Orphans' \ Orphans :
                     \E s \in Named : /\ held[s] # NoIP /\ held'[s] = NoIP
                                      /\ Leased(UserOf[s])
                                      /\ alloc.leases[UserOf[s]].ip = ip
  <1>1. IInv /\ [Next]_vars => A
    <2> SUFFICES ASSUME IInv, [Next]_vars PROVE A
      OBVIOUS
    <2> DEFINE L == Orphans
    <2>1. LostIn(alloc, Sessions, held, L)
      BY OrphansAreLost
    <2>2. \A M : LostIn(alloc', Sessions, held', M) => Orphans' \subseteq M
      <3>1. IInv' => \A M : LostIn(alloc', Sessions, held', M) => Orphans' \subseteq M
        <4>1. NoIP \notin alloc'.used \/ ~IInv'
          BY NoIPAssumption DEF IInv, TypeOK, Allocators
        <4> QED
          BY <4>1 DEF LostIn, Orphans, HeldIPs, LeasedIPs, Leased
      <3> QED
        BY <3>1, NextInv
    <2> HIDE DEF L
    <2>3. ASSUME LostIn(alloc', Sessions, held', L) PROVE A
      BY <2>2, <2>3 DEF L
    <2>4. ASSUME NEW s \in Sessions, Acquire(s) PROVE A
      <3>1. PICK r \in AllocateForUser(alloc, UserOf[s]) :
                alloc' = r.alloc /\ held' = [held EXCEPT ![s] = r.ip]
        BY <2>4 DEF Acquire
      <3>2. \A M : LostIn(alloc, Sessions, held, M) => LostIn(r.alloc, Sessions, held', M)
        BY <2>4, <3>1, Facts, AllocateForUserTakes DEF Acquire
      <3> QED
        BY <2>1, <2>3, <3>1, <3>2
    <2>5. ASSUME NEW s \in Sessions, AcquireFails(s) PROVE A
      <3>1. \A M : LostIn(alloc, Sessions, held, M) => LostIn(alloc', Sessions, held, M)
        BY <2>5, Facts, ExpireKeepsApart DEF AcquireFails
      <3> QED
        BY <2>1, <2>3, <2>5, <3>1 DEF AcquireFails
    <2>6. ASSUME NEW s \in Sessions, GiveBack(s) PROVE A
      <3> DEFINE u == UserOf[s]
                 M == L \cup {ip \in {alloc.leases[u].ip} : Leased(u)}
      <3>1. /\ alloc' = ReleaseWithLease(alloc, held[s], u)
            /\ held' = [held EXCEPT ![s] = NoIP]
            /\ s \in Named /\ held[s] # NoIP
        BY <2>6 DEF GiveBack
      <3>2. \A N : LostIn(alloc, Sessions, held, N) /\ (alloc.leases[u] = NoLease \/ alloc.leases[u].ip \in N)
                   => LostIn(alloc', Sessions, held', N)
        BY <3>1, Facts, ReleaseWithLeaseKeepsApart
      <3>3. LostIn(alloc, Sessions, held, M) /\ (alloc.leases[u] = NoLease \/ alloc.leases[u].ip \in M)
        BY <2>1 DEF LostIn, Leased
      <3>4. Orphans' \subseteq M
        BY <2>2, <3>2, <3>3
      <3>5. held'[s] = NoIP
        BY <3>1, Facts DEF Holders
      <3> QED
        BY <3>1, <3>4, <3>5 DEF L
    <2>7. ASSUME NEW s \in Sessions, AcquireAnonymously(s) PROVE A
      <3>1. PICK r \in allocateLocked(alloc) :
                alloc' = r.alloc /\ held' = [held EXCEPT ![s] = r.ip]
        BY <2>7 DEF AcquireAnonymously, Allocate
      <3>2. \A M : LostIn(alloc, Sessions, held, M) => LostIn(r.alloc, Sessions, held', M)
        BY <2>7, <3>1, Facts, AllocateTakes DEF AcquireAnonymously
      <3> QED
        BY <2>1, <2>3, <3>1, <3>2
    <2>8. ASSUME NEW s \in Sessions, GiveBackAnonymously(s) PROVE A
      <3>1. \A M : LostIn(alloc, Sessions, held, M) => LostIn(alloc', Sessions, held', M)
        BY <2>8, Facts, ReleaseKeepsApart DEF GiveBackAnonymously
      <3> QED
        BY <2>1, <2>3, <3>1
    <2>9. CASE Tick
      <3>1. \A M : LostIn(alloc, Sessions, held, M) => LostIn(alloc', Sessions, held, M)
        BY <2>9, ElapseKeepsApart DEF IInv, TypeOK, Tick, Holders
      <3> QED
        BY <2>1, <2>3, <2>9, <3>1 DEF Tick
    <2>10. CASE UNCHANGED vars
      BY <2>10 DEF vars, Orphans, HeldIPs, LeasedIPs, Leased
    <2> QED
      BY <2>4, <2>5, <2>6, <2>7, <2>8, <2>9, <2>10 DEF Next
  <1> QED
    BY <1>1, SpecInv, PTL DEF Spec, OnlyOverwritingLoses

-----------------------------------------------------------------------------
(* Users who come back.                                                    *)

(* What is owed to a user is the lease of that user, to the tick.          *)
OwedIsLeased ==
    \A u \in Users :
        owed[u] # NoLease => alloc.leases[u] = owed[u] /\ Live(owed[u])

OwedInv == IInv /\ OwedIsLeased

LEMMA OwedStep == OwedInv /\ [Next]_vars => OwedInv'
  <1> SUFFICES ASSUME OwedInv, [Next]_vars PROVE OwedIsLeased'
    BY NextInv DEF OwedInv
  <1>1. /\ alloc \in Allocators /\ IInv
        /\ owed \in [Users -> Leases \cup {NoLease}]
    BY DEF OwedInv, IInv, TypeOK
  <1>2. ASSUME NEW s \in Sessions, Acquire(s) PROVE OwedIsLeased'
    <2>1. PICK r \in AllocateForUser(alloc, UserOf[s]) : alloc' = r.alloc
      BY <1>2 DEF Acquire
    <2>2. \A v \in Users :
              alloc'.leases[v] = IF Live(alloc.leases[v]) /\ v # UserOf[s]
                                 THEN alloc.leases[v] ELSE NoLease
      BY <1>1, <2>1, Facts, AllocateForUserLeases
    <2>3. \A v \in Users : owed'[v] = IF v = UserOf[s] THEN NoLease ELSE owed[v]
      BY <1>1, <1>2 DEF Acquire
    <2> QED
      BY <2>2, <2>3 DEF OwedInv, OwedIsLeased
  <1>3. ASSUME NEW s \in Sessions, AcquireFails(s) PROVE OwedIsLeased'
    <2>1. \A v \in Users : Live(alloc.leases[v]) => alloc'.leases[v] = alloc.leases[v]
      BY <1>1, <1>3, SweepSparesLive DEF AcquireFails
    <2> QED
      BY <1>3, <2>1 DEF OwedInv, OwedIsLeased, AcquireFails
  <1>4. ASSUME NEW s \in Sessions, GiveBack(s) PROVE OwedIsLeased'
    <2> DEFINE u == UserOf[s]
               l == [ip |-> held[s], left |-> LeaseDuration]
    <2>1. held[s] \in Addr /\ u \in Users
      BY <1>1, <1>4, Facts DEF Holders, GiveBack
    <2>2. /\ Live(l)
          /\ \A v \in Users : alloc'.leases[v] = IF v = u THEN l ELSE alloc.leases[v]
      BY <1>1, <1>4, <2>1, ReleaseWithLeaseResult DEF GiveBack
    <2>3. \A v \in Users : owed'[v] = IF v = u THEN l ELSE owed[v]
      BY <1>1, <1>4 DEF GiveBack
    <2> HIDE DEF l, u
    <2> QED
      BY <2>2, <2>3 DEF OwedInv, OwedIsLeased
  <1>5. ASSUME NEW s \in Sessions, AcquireAnonymously(s) \/ GiveBackAnonymously(s)
        PROVE  OwedIsLeased'
    <2>1. alloc'.leases = alloc.leases
      <3>1. CASE AcquireAnonymously(s)
        BY <1>1, <3>1, AllocateResult DEF AcquireAnonymously, Allocate
      <3>2. CASE GiveBackAnonymously(s)
        BY <1>1, <3>2, Facts, ReleaseKeepsApart DEF GiveBackAnonymously
      <3> QED
        BY <1>5, <3>1, <3>2
    <2> QED
      BY <1>5, <2>1 DEF OwedInv, OwedIsLeased, AcquireAnonymously, GiveBackAnonymously
  <1>6. CASE Tick
    <2> SUFFICES ASSUME NEW u \in Users, owed'[u] # NoLease
                 PROVE  alloc'.leases[u] = owed'[u] /\ Live(owed'[u])
      BY DEF OwedIsLeased
    <2>1. alloc'.leases[u] = Aged(alloc.leases[u])
      BY <1>1, <1>6 DEF Tick, Elapse, Allocators
    <2>2. owed[u] # NoLease /\ ~(owed[u].left <= 0) /\ owed'[u] = Aged(owed[u])
      BY <1>6 DEF Tick
    <2>3. alloc.leases[u] = owed[u]
      BY <2>2 DEF OwedInv, OwedIsLeased
    <2>4. owed[u] \in Leases /\ owed[u].left \in -1 .. LeaseDuration
      BY <1>1, <2>2 DEF Leases
    <2>5. owed[u].left >= 0 /\ ~(owed[u].left - 1 < 0)
      BY <2>2, <2>4, LeaseDurationAssumption, SMT
    <2>6. Aged(owed[u]) = [owed[u] EXCEPT !.left = owed[u].left - 1]
      BY <2>2, <2>5 DEF Aged
    <2>7. Aged(owed[u]).left = owed[u].left - 1
      BY <2>4, <2>6 DEF Leases
    <2>8. Live(owed'[u])
      BY <2>2, <2>5, <2>7 DEF Live, Expired
    <2> QED
      BY <2>1, <2>2, <2>3, <2>8
  <1>7. CASE UNCHANGED vars
    BY <1>7 DEF vars, OwedInv, OwedIsLeased
  <1> QED
    BY <1>2, <1>3, <1>4, <1>5, <1>6, <1>7 DEF Next

LEMMA OwedHolds == Spec => []OwedInv
  <1>1. Init => OwedInv
    BY InitInv DEF Init, OwedInv, OwedIsLeased
  <1> QED
    BY <1>1, OwedStep, PTL DEF Spec

(* A user who comes back while the lease lasts gets the address given back *)
(* last (ipalloc.go:61-63), by whichever session.                          *)
THEOREM ReturnsHome == Spec => ReturnsToSameAddress
  <1> DEFINE A == \A s \in Named :
                     owed[UserOf[s]] # NoLease /\ held[s] = NoIP /\ held'[s] # NoIP
                        => held'[s] = owed[UserOf[s]].ip
  <1>1. OwedInv /\ [Next]_vars => A
    <2> SUFFICES ASSUME OwedInv, [Next]_vars, NEW s \in Named,
                        owed[UserOf[s]] # NoLease, held[s] = NoIP, held'[s] # NoIP
                 PROVE  held'[s] = owed[UserOf[s]].ip
      OBVIOUS
    <2>1. IInv /\ held \in [Sessions -> Addr \cup {NoIP}]
      BY DEF OwedInv, IInv, TypeOK
    <2>2. /\ s \in Sessions /\ s \notin Anonymous /\ UserOf[s] \in Users
          /\ alloc.leases[UserOf[s]] = owed[UserOf[s]]
          /\ Live(owed[UserOf[s]])
      BY SessionsAssumption DEF OwedInv, OwedIsLeased, Named
    <2>3. ASSUME NEW t \in Sessions, Acquire(t) PROVE held'[s] = owed[UserOf[s]].ip
      <3>1. PICK r \in AllocateForUser(alloc, UserOf[t]) : held' = [held EXCEPT ![t] = r.ip]
        BY <2>3 DEF Acquire
      <3>2. s = t /\ held'[s] = r.ip
        BY <2>1, <2>2, <3>1
      <3>3. r.ip = alloc.leases[UserOf[t]].ip
        BY <2>1, <2>2, <3>2, Facts, AllocateForUserLeases
      <3> QED
        BY <2>2, <3>2, <3>3
    <2>4. ASSUME NEW t \in Sessions,
                 AcquireAnonymously(t) \/ GiveBack(t) \/ GiveBackAnonymously(t)
          PROVE  FALSE
      BY <2>1, <2>2, <2>4 DEF AcquireAnonymously, GiveBack, GiveBackAnonymously
    <2>5. ASSUME NEW t \in Sessions, AcquireFails(t) PROVE FALSE
      BY <2>5 DEF AcquireFails
    <2>6. CASE Tick \/ UNCHANGED vars
      BY <2>6 DEF Tick, vars
    <2> QED
      BY <2>3, <2>4, <2>5, <2>6 DEF Next
  <1> QED
    BY <1>1, OwedHolds, PTL DEF Spec, ReturnsToSameAddress
=============================================================================
