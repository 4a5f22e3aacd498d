----------------------------- MODULE LeasePool -----------------------------
(***************************************************************************)
(* One allocator and the sessions that hold its addresses.  A session is   *)
(* one *server.Client: it acquires an address when it joins the room       *)
(* (server.go, handleJoinRoom) and gives it back when it leaves or its     *)
(* connection ends (handleLeave).  Two sessions may belong to one user:    *)
(* handleAuth accepts a second login, and a client that reconnects is a    *)
(* new session while the server still waits for the old one to time out.   *)
(* Anonymous sessions use Allocate and Release, the pair without leases.   *)
(***************************************************************************)
EXTENDS IPAllocator

CONSTANTS
    Sessions,       \* the clients of the room
    Anonymous,      \* the sessions that use Allocate and Release
    UserOf,         \* the username of each session
    Subnet          \* the network of the allocator

ASSUME SessionsAssumption ==
    /\ Anonymous \subseteq Sessions
    /\ UserOf \in [Sessions -> Users]
    /\ Subnet \in Networks

VARIABLES
    alloc,          \* the allocator's fields
    held,           \* the address each session holds, NoIP for none
    owed            \* history: the address a user gave back last and how long
                    \* the promise of AllocateForUser to return it still lasts

vars == <<alloc, held, owed>>

Named == Sessions \ Anonymous

TypeOK ==
    /\ alloc \in Allocators
    /\ held \in [Sessions -> Addr \cup {NoIP}]
    /\ owed \in [Users -> Leases \cup {NoLease}]

Init ==
    /\ alloc = NewIPAllocator(Subnet)
    /\ held = [s \in Sessions |-> NoIP]
    /\ owed = [u \in Users |-> NoLease]

Acquire(s) ==
    /\ s \in Named
    /\ held[s] = NoIP
    /\ \E r \in AllocateForUser(alloc, UserOf[s]) :
        /\ alloc' = r.alloc
        /\ held' = [held EXCEPT ![s] = r.ip]
    /\ owed' = [owed EXCEPT ![UserOf[s]] = NoLease]

(* "no available IP addresses": leases that had expired stay removed.      *)
AcquireFails(s) ==
    /\ s \in Named
    /\ held[s] = NoIP
    /\ AllocateForUser(alloc, UserOf[s]) = {}
    /\ alloc' = expireLeasesLocked(alloc)
    /\ UNCHANGED <<held, owed>>

GiveBack(s) ==
    /\ s \in Named
    /\ held[s] # NoIP
    /\ alloc' = ReleaseWithLease(alloc, held[s], UserOf[s])
    /\ held' = [held EXCEPT ![s] = NoIP]
    /\ owed' = [owed EXCEPT ![UserOf[s]] = [ip |-> held[s], left |-> LeaseDuration]]

AcquireAnonymously(s) ==
    /\ s \in Anonymous
    /\ held[s] = NoIP
    /\ \E r \in Allocate(alloc) :
        /\ alloc' = r.alloc
        /\ held' = [held EXCEPT ![s] = r.ip]
    /\ UNCHANGED owed

GiveBackAnonymously(s) ==
    /\ s \in Anonymous
    /\ held[s] # NoIP
    /\ alloc' = Release(alloc, held[s])
    /\ held' = [held EXCEPT ![s] = NoIP]
    /\ UNCHANGED owed

Tick ==
    /\ alloc' = Elapse(alloc)
    /\ owed' = [u \in Users |->
                   IF owed[u] = NoLease \/ owed[u].left <= 0
                   THEN NoLease ELSE Aged(owed[u])]
    /\ UNCHANGED held

Next ==
    \/ \E s \in Sessions :
        \/ Acquire(s) \/ AcquireFails(s) \/ GiveBack(s)
        \/ AcquireAnonymously(s) \/ GiveBackAnonymously(s)
    \/ Tick

Spec == Init /\ [][Next]_vars

-----------------------------------------------------------------------------
HeldIPs == {held[s] : s \in Sessions} \ {NoIP}

Leased(u) == alloc.leases[u] # NoLease
LeasedIPs == {alloc.leases[u].ip : u \in {v \in Users : Leased(v)}}

(* Two sessions of the room never hold the same address: neither a fresh   *)
(* address nor one that comes back through a lease is in use (the map      *)
(* room.Clients is keyed by it and routes by it).                          *)
DistinctAddresses ==
    \A s, t \in Sessions : held[s] # NoIP /\ held[s] = held[t] => s = t

(* A lease names an address nobody holds, two leases name different        *)
(* addresses, and used contains what is held and what is leased.           *)
HeldAndLeased ==
    /\ HeldIPs \cup LeasedIPs \subseteq alloc.used
    /\ HeldIPs \cap LeasedIPs = {}
    /\ \A u, v \in Users : Leased(u) /\ Leased(v) /\ u # v
                              => alloc.leases[u].ip # alloc.leases[v].ip

(* Every address a session holds is a host address of the subnet: not the  *)
(* broadcast address, which handleData would flood instead of routing.     *)
HeldAreHosts ==
    \A ip \in HeldIPs : Contains(Subnet, ip) /\ ~isBroadcast(Subnet, ip)

(* While a lease lasts, its address goes to no session of another user.    *)
ReservedForUser ==
    [][\A s \in Sessions, u \in Users :
          Live(alloc.leases[u]) /\ held'[s] # held[s] /\ held'[s] = alloc.leases[u].ip
             => UserOf[s] = u]_vars

(* A user who comes back while the promise lasts gets the address given    *)
(* back last (ipalloc.go:61-63 and 98-100), whichever of the user's        *)
(* sessions gave it back and whichever asks.                               *)
ReturnsToSameAddress ==
    [][\A s \in Named :
          owed[UserOf[s]] # NoLease /\ held[s] = NoIP /\ held'[s] # NoIP
             => held'[s] = owed[UserOf[s]].ip]_vars

(* Probe describes the loop: the same addresses in the same rounds as its  *)
(* statements one by one, an increment and a wrap (ipalloc.go:131-151).    *)
ProbeIsLoop ==
    LET net == alloc.network
        at[k \in Rounds] ==
            IF k = 0 THEN alloc.nextIP
            ELSE IF Contains(net, incrementIP(at[k - 1]))
            THEN incrementIP(at[k - 1]) ELSE FirstIP(net)
    IN  \A k \in Rounds : at[k] = Probe(alloc, k)

(* The addresses in used that no session holds and no lease keeps: nothing *)
(* hands them out again or frees them while the room lives.                *)
Orphans == alloc.used \ (HeldIPs \cup LeasedIPs)

(* An address is lost in one way only: a session gives back an address     *)
(* while its user has a lease already, from another session, and the new   *)
(* lease replaces it in the map (ipalloc.go:109); what is lost is that     *)
(* lease's address.  No other order of joins, leaves, failed joins and     *)
(* expirations loses one (ipalloc.go:98 "marks the IP as available for     *)
(* others after leaseDuration").                                           *)
OnlyOverwritingLoses ==
    [][\A ip \in Orphans' \ Orphans :
          \E s \in Named : /\ held[s] # NoIP /\ held'[s] = NoIP
                           /\ Leased(UserOf[s])
                           /\ alloc.leases[UserOf[s]].ip = ip]_vars

(* No address is lost: false when a user has two sessions (pool_orphan).   *)
NoOrphan == Orphans = {}

(* The search gives up with at most one host address of the subnet free,   *)
(* the one it handed out last: 254 rounds are one less than a lap of a     *)
(* /24, and the address they leave out is the one before nextIP            *)
(* (ipalloc.go:129-151 "finds and marks the next free IP").                *)
WithheldIsLastGiven ==
    FirstFree(alloc) = {} =>
        \A ip \in Subnet.base + 1 .. Subnet.base + Subnet.size - 1 :
            Usable(alloc, ip) => incrementIP(ip) = alloc.nextIP

(* The search gives up only when no host address of the subnet is free:    *)
(* false for a full /24, the size of every room (pool_full_24).            *)
NoFalseExhaustion ==
    FirstFree(alloc) = {} =>
        \A ip \in Subnet.base + 1 .. Subnet.base + Subnet.size - 1 :
            ~Usable(alloc, ip)

-----------------------------------------------------------------------------
(* The promise is kept: a lease is what sets an address aside, and an      *)
(* expired lease that has not been swept yet sets nothing aside.           *)
Reserved == Reservations(alloc)

Promise == INSTANCE AddressPromise
    WITH Addresses <- Addr, reserved <- Reserved, username <- UserOf

(* Every step of the allocator and its sessions is a step of the promise   *)
(* (the joins and leaves of server.go:429-596 keep what ipalloc.go says).  *)
KeepsPromise == Promise!Spec
=============================================================================
