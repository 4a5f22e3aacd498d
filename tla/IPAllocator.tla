---------------------------- MODULE IPAllocator ----------------------------
(***************************************************************************)
(* The virtual address allocator of one room, pkg/network/ipalloc.go.      *)
(*                                                                         *)
(* Every exported method of IPAllocator runs under a.mu from its first to  *)
(* its last statement, so each is one function of the allocator's state:   *)
(* this module has no variables, and the machines that own an allocator    *)
(* (LeasePool, RoomServer) apply these operators in their actions.         *)
(*                                                                         *)
(* An address is a number below AddrSpace: with 65536, the low 16 bits of  *)
(* an IPv4 address, so that 10.100.2.7 is 2 * 256 + 7; the upper 16 bits   *)
(* are the same in all of a subnet of at most a /16.  A network is its     *)
(* base address and its size, a power of two; it has hosts, so it is at    *)
(* least a /30 and its size a multiple of four.                            *)
(***************************************************************************)
EXTENDS Naturals, Integers

CONSTANTS
    AddrSpace,      \* the number of addresses
    Users,          \* usernames, the keys of userToIP and leases
    Networks,       \* the subnets an allocator may be created for
    MaxAttempts,    \* rounds of the search loop; 254 in the code
    LeaseDuration,  \* ticks a lease lasts; 30 minutes in the code
    NoIP,           \* the nil net.IP
    NoLease         \* a username with no entry in leases

Addr == 0 .. AddrSpace - 1

ASSUME AddrSpaceAssumption == AddrSpace \in Nat \ {0}
ASSUME NetworksAssumption ==
    \A net \in Networks : /\ net \in [base : Addr, size : 4 .. AddrSpace]
                          /\ net.size % 4 = 0 /\ net.base % net.size = 0
                          /\ net.base + net.size <= AddrSpace
ASSUME MaxAttemptsAssumption == MaxAttempts \in Nat
ASSUME LeaseDurationAssumption == LeaseDuration \in Nat
ASSUME NoIPAssumption == NoIP \notin Addr

(* A lease keeps the ticks it still has instead of the time it ends:       *)
(* 0 is the instant expiresAt itself, -1 is any later time.                *)
Leases == [ip : Addr, left : -1 .. LeaseDuration]
ASSUME NoLeaseAssumption == NoLease \notin Leases

(* used is the set of keys of the Go map, whose values are always true;    *)
(* an absent key of userToIP is NoIP and of leases NoLease.                *)
Allocators ==
    [network  : Networks,
     used     : SUBSET Addr,
     userToIP : [Users -> Addr \cup {NoIP}],
     leases   : [Users -> Leases \cup {NoLease}],
     nextIP   : Addr]

-----------------------------------------------------------------------------
Contains(net, ip) == ip \in net.base .. (net.base + net.size - 1)

(* All host bits are ones; a subnet is aligned on its size.                *)
isBroadcast(net, ip) == ip % net.size = net.size - 1

incrementIP(ip) == (ip + 1) % AddrSpace

(* Fault: the search starts one address too late.                          *)
FirstIP_TooLate(net) == (net.base \div 256) * 256 + 2

(* The address the search starts from and wraps to: the network address    *)
(* with its LAST OCTET replaced by 1, whatever the length of the prefix.   *)
FirstIP(net) == (net.base \div 256) * 256 + 1

NewIPAllocator(net) ==
    [network  |-> net,
     used     |-> {},
     userToIP |-> [u \in Users |-> NoIP],
     leases   |-> [u \in Users |-> NoLease],
     nextIP   |-> FirstIP(net)]

-----------------------------------------------------------------------------
Usable(a, ip) ==
    /\ ip \notin a.used
    /\ Contains(a.network, ip)
    /\ ~isBroadcast(a.network, ip)

(* Fault: the wrap comes one round late.                                   *)
Probe_LateWrap(a, k) ==
    LET end   == a.network.base + a.network.size
        ahead == IF Contains(a.network, a.nextIP) THEN end - a.nextIP + 1 ELSE 1
    IN  IF k < ahead THEN a.nextIP + k
        ELSE FirstIP(a.network) + ((k - ahead) % (end - FirstIP(a.network)))

(* The address the search loop of allocateLocked looks at in round k: it   *)
(* walks up from nextIP to the end of the subnet, then from FirstIP to the *)
(* end, lap after lap.  When FirstIP is outside the subnet, so is its      *)
(* successor, and the loop never leaves it.                                *)
Probe(a, k) ==
    LET net   == a.network
        end   == net.base + net.size
        ahead == IF Contains(net, a.nextIP) THEN end - a.nextIP ELSE 1
    IN  IF k < ahead THEN a.nextIP + k
        ELSE IF Contains(net, FirstIP(net))
        THEN FirstIP(net) + ((k - ahead) % (end - FirstIP(net)))
        ELSE FirstIP(net)

Rounds == 0 .. MaxAttempts - 1

(* The address the loop stops at, as a set: empty when it gives up.        *)
FirstFree(a) ==
    {Probe(a, k) : k \in {n \in Rounds : /\ Usable(a, Probe(a, n))
                                         /\ \A m \in 0 .. n - 1 : ~Usable(a, Probe(a, m))}}

(* allocateLocked: the possible results, none when it returns an error.    *)
allocateLocked(a) ==
    {[ip    |-> ip,
      alloc |-> [a EXCEPT !.used = @ \cup {ip}, !.nextIP = incrementIP(ip)]] :
        ip \in FirstFree(a)}

(* Fault: a lease ends at the instant expiresAt instead of after it.       *)
Expired_Early(l) == l # NoLease /\ l.left <= 0

Expired(l) == l # NoLease /\ l.left < 0
Live(l) == l # NoLease /\ ~Expired(l)

(* Fault: the address of an expired lease stays used.                      *)
expireLeasesLocked_KeepsUsed(a) ==
    [a EXCEPT !.leases = [u \in Users |-> IF Expired(@[u]) THEN NoLease ELSE @[u]]]

(* Fault: the deadline is not compared.                                    *)
expireLeasesLocked_All(a) ==
    [a EXCEPT !.used   = @ \ {a.leases[u].ip : u \in {v \in Users : a.leases[v] # NoLease}},
              !.leases = [u \in Users |-> NoLease]]

expireLeasesLocked(a) ==
    [a EXCEPT !.used   = @ \ {a.leases[u].ip : u \in {v \in Users : Expired(a.leases[v])}},
              !.leases = [u \in Users |-> IF Expired(@[u]) THEN NoLease ELSE @[u]]]

-----------------------------------------------------------------------------
Allocate(a) == allocateLocked(a)

(* Fault: the lease is not removed when its address is handed out.         *)
AllocateForUser_KeepsLease(a, user) ==
    LET e == expireLeasesLocked(a)
    IN  IF e.leases[user] # NoLease
        THEN {[ip |-> e.leases[user].ip, alloc |-> e]}
        ELSE {[ip |-> r.ip, alloc |-> [r.alloc EXCEPT !.userToIP[user] = r.ip]] :
                r \in allocateLocked(e)}

(* AllocateForUser: the possible results, none when it returns an error.   *)
(* After an error the allocator is expireLeasesLocked(a).                  *)
AllocateForUser(a, user) ==
    LET e == expireLeasesLocked(a)
    IN  IF e.leases[user] # NoLease
        THEN {[ip    |-> e.leases[user].ip,
               alloc |-> [e EXCEPT !.userToIP[user] = e.leases[user].ip,
                                   !.leases[user]   = NoLease]]}
        ELSE {[ip |-> r.ip, alloc |-> [r.alloc EXCEPT !.userToIP[user] = r.ip]] :
                r \in allocateLocked(e)}

Release(a, ip) == [a EXCEPT !.used = @ \ {ip}]

ReleaseWithLease(a, ip, user) ==
    [a EXCEPT !.userToIP[user] = NoIP,
              !.leases[user]   = [ip |-> ip, left |-> LeaseDuration]]

(* One tick of the clock the leases are compared with.                     *)
Aged(l) == IF l # NoLease /\ l.left >= 0 THEN [l EXCEPT !.left = @ - 1] ELSE l

Elapse(a) == [a EXCEPT !.leases = [u \in Users |-> Aged(@[u])]]

-----------------------------------------------------------------------------
(* The address that is set aside for each user.                            *)
Reservations(a) ==
    [u \in Users |-> IF Live(a.leases[u]) THEN a.leases[u].ip ELSE NoIP]
=============================================================================
