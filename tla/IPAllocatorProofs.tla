------------------------- MODULE IPAllocatorProofs -------------------------
(***************************************************************************)
(* What the operators of IPAllocator do to an allocator and to those who   *)
(* hold its addresses, for all subnets, users, rounds and lengths of a     *)
(* lease.  The machines that own an allocator cite these lemmas.           *)
(*                                                                         *)
(* An address changes hands only between three places: the free ones       *)
(* outside used, the held ones and the leased ones.  Apart says that the   *)
(* last two are inside used, apart from each other, and that neither       *)
(* contains an address twice.  Distinct addresses alone are not inductive: *)
(* a lease on an address somebody holds would hand it out again.           *)
(***************************************************************************)
EXTENDS IPAllocator, WellFoundedInduction, TLAPS

(* An allocator a and the addresses h that the members of S hold.          *)
Apart(a, S, h) ==
    /\ \A s \in S : h[s] # NoIP => h[s] \in a.used
    /\ \A u \in Users : a.leases[u] # NoLease => a.leases[u].ip \in a.used
    /\ \A s \in S, u \in Users :
          h[s] # NoIP /\ a.leases[u] # NoLease => h[s] # a.leases[u].ip
    /\ \A u, v \in Users :
          a.leases[u] # NoLease /\ a.leases[v] # NoLease /\ a.leases[u].ip = a.leases[v].ip
             => u = v
    /\ \A s, t \in S : h[s] # NoIP /\ h[s] = h[t] => s = t

Host(net, ip) == Contains(net, ip) /\ ~isBroadcast(net, ip)

(* What is held or leased is a host address of the subnet.                 *)
AllHosts(a, S, h) ==
    /\ \A s \in S : h[s] # NoIP => Host(a.network, h[s])
    /\ \A u \in Users : a.leases[u] # NoLease => Host(a.network, a.leases[u].ip)

(* The used addresses that are neither held nor leased are among L.        *)
LostIn(a, S, h, L) ==
    \A ip \in a.used :
        \/ ip \in L
        \/ \E s \in S : h[s] = ip
        \/ \E u \in Users : a.leases[u] # NoLease /\ a.leases[u].ip = ip

Holders(S) == [S -> Addr \cup {NoIP}]

-----------------------------------------------------------------------------
(* The operators by themselves.                                            *)

(* A new allocator is well typed; nothing is used or leased.               *)
LEMMA NewAllocatorType ==
    ASSUME NEW net \in Networks
    PROVE  NewIPAllocator(net) \in Allocators
  <1>1. /\ net \in [base : Addr, size : 4 .. AddrSpace]
        /\ net.base + net.size <= AddrSpace
    BY NetworksAssumption
  <1>2. net.base \in Nat /\ net.base + 1 < AddrSpace
    BY <1>1, AddrSpaceAssumption, SMT DEF Addr
  <1>3. \A n \in Nat : (n \div 256) * 256 \in Nat /\ (n \div 256) * 256 <= n
    BY SMT
  <1>4. (net.base \div 256) * 256 \in Nat /\ (net.base \div 256) * 256 <= net.base
    BY <1>2, <1>3
  <1>5. FirstIP(net) \in Addr
    BY <1>2, <1>4, AddrSpaceAssumption, SMT DEF FirstIP, Addr
  <1> QED
    BY <1>5 DEF NewIPAllocator, Allocators

(* An address the search finds is an unused host address.                  *)
LEMMA FirstFreeUsable ==
    ASSUME NEW a \in Allocators, NEW ip \in FirstFree(a)
    PROVE  /\ ip \in Addr
           /\ ip \notin a.used
           /\ Contains(a.network, ip)
           /\ ~isBroadcast(a.network, ip)
  <1>1. Usable(a, ip)
    BY DEF FirstFree
  <1>2. /\ a.network \in [base : Addr, size : 4 .. AddrSpace]
        /\ a.network.base + a.network.size <= AddrSpace
    BY NetworksAssumption DEF Allocators
  <1>3. ip \in a.network.base .. (a.network.base + a.network.size - 1)
    BY <1>1 DEF Usable, Contains
  <1>4. ip \in Addr
    BY <1>2, <1>3, AddrSpaceAssumption, SMT DEF Addr
  <1> QED
    BY <1>1, <1>4 DEF Usable

(* A successful search uses one more address and changes no lease.         *)
LEMMA AllocateResult ==
    ASSUME NEW a \in Allocators, NEW r \in allocateLocked(a)
    PROVE  /\ r.alloc \in Allocators
           /\ r.ip \in FirstFree(a)
           /\ r.alloc.used = a.used \cup {r.ip}
           /\ r.alloc.leases = a.leases
           /\ r.alloc.network = a.network
           /\ r.alloc.userToIP = a.userToIP
  <1>1. PICK ip \in FirstFree(a) :
            r = [ip    |-> ip,
                 alloc |-> [a EXCEPT !.used = @ \cup {ip}, !.nextIP = incrementIP(ip)]]
    BY DEF allocateLocked
  <1>2. ip \in Addr
    BY FirstFreeUsable
  <1>3. incrementIP(ip) \in Addr
    BY <1>2, AddrSpaceAssumption, SMT DEF incrementIP, Addr
  <1> QED
    BY <1>1, <1>2, <1>3 DEF Allocators

(* Sweeping the expired leases keeps the others and what is not leased.    *)
LEMMA ExpireResult ==
    ASSUME NEW a \in Allocators
    PROVE  LET e == expireLeasesLocked(a)
           IN  /\ e \in Allocators
               /\ e.network = a.network
               /\ e.used = a.used \ {a.leases[u].ip : u \in {v \in Users : Expired(a.leases[v])}}
               /\ \A u \in Users :
                     e.leases[u] = IF Expired(a.leases[u]) THEN NoLease ELSE a.leases[u]
  <1> DEFINE swept == [u \in Users |-> IF Expired(a.leases[u]) THEN NoLease ELSE a.leases[u]]
             kept  == a.used \ {a.leases[u].ip : u \in {v \in Users : Expired(a.leases[v])}}
  <1>1. swept \in [Users -> Leases \cup {NoLease}]
    BY DEF Allocators
  <1>2. kept \in SUBSET Addr
    BY DEF Allocators
  <1>3. expireLeasesLocked(a) = [a EXCEPT !.used = kept, !.leases = swept]
    BY DEF expireLeasesLocked, Allocators
  <1> HIDE DEF swept, kept
  <1>4. /\ expireLeasesLocked(a) \in Allocators
        /\ expireLeasesLocked(a).network = a.network
        /\ expireLeasesLocked(a).used = kept
        /\ expireLeasesLocked(a).leases = swept
    BY <1>1, <1>2, <1>3 DEF Allocators
  <1> QED
    BY <1>4 DEF swept, kept

(* AllocateForUser either returns the leased address and ends the lease,   *)
(* or uses one more address; it touches the lease of no other user.        *)
LEMMA AllocateForUserResult ==
    ASSUME NEW a \in Allocators, NEW u \in Users, NEW r \in AllocateForUser(a, u)
    PROVE  LET e == expireLeasesLocked(a)
           IN  /\ r.alloc \in Allocators
               /\ r.ip \in Addr
               /\ r.alloc.network = a.network
               /\ \/ /\ e.leases[u] # NoLease
                     /\ r.ip = e.leases[u].ip
                     /\ r.alloc.used = e.used
                     /\ r.alloc.leases = [e.leases EXCEPT ![u] = NoLease]
                  \/ /\ e.leases[u] = NoLease
                     /\ \E x \in allocateLocked(e) :
                           /\ r.ip = x.ip
                           /\ r.alloc.used = x.alloc.used
                           /\ r.alloc.leases = x.alloc.leases
                           /\ x.alloc.leases = e.leases
                           /\ x.alloc.network = e.network
  <1> DEFINE e == expireLeasesLocked(a)
  <1>1. e \in Allocators /\ e.network = a.network
    BY ExpireResult
  <1>d. AllocateForUser(a, u) =
          IF e.leases[u] # NoLease
          THEN {[ip |-> e.leases[u].ip,
                 alloc |-> [e EXCEPT !.userToIP[u] = e.leases[u].ip, !.leases[u] = NoLease]]}
          ELSE {[ip |-> x.ip, alloc |-> [x.alloc EXCEPT !.userToIP[u] = x.ip]] :
                  x \in allocateLocked(e)}
    BY DEF AllocateForUser
  <1> HIDE DEF e
  <1>2. CASE e.leases[u] # NoLease
    <2>1. r = [ip |-> e.leases[u].ip,
               alloc |-> [e EXCEPT !.userToIP[u] = e.leases[u].ip, !.leases[u] = NoLease]]
      BY <1>2, <1>d
    <2>2. e.leases[u] \in Leases
      BY <1>1, <1>2 DEF Allocators
    <2>3. e.leases[u].ip \in Addr
      BY <2>2 DEF Leases
    <2> QED
      BY <1>1, <1>2, <2>1, <2>3 DEF Allocators, e
  <1>3. CASE e.leases[u] = NoLease
    <2>1. PICK x \in allocateLocked(e) :
              r = [ip |-> x.ip, alloc |-> [x.alloc EXCEPT !.userToIP[u] = x.ip]]
      BY <1>3, <1>d
    <2>2. /\ x.alloc \in Allocators
          /\ x.ip \in FirstFree(e)
          /\ x.alloc.used = e.used \cup {x.ip}
          /\ x.alloc.leases = e.leases
          /\ x.alloc.network = e.network
      BY <1>1, AllocateResult
    <2>3. x.ip \in Addr
      BY <1>1, <2>2, FirstFreeUsable
    <2>4. /\ r.alloc \in Allocators
          /\ r.alloc.used = x.alloc.used
          /\ r.alloc.leases = x.alloc.leases
          /\ r.alloc.network = x.alloc.network
          /\ r.ip = x.ip
      BY <2>1, <2>2, <2>3 DEF Allocators
    <2> QED
      BY <1>1, <1>3, <2>2, <2>3, <2>4 DEF e
  <1> QED
    BY <1>2, <1>3

(* A lease that grows older stays a lease on the same address.             *)
LEMMA AgedResult ==
    ASSUME NEW l \in Leases
    PROVE  Aged(l) \in Leases /\ Aged(l).ip = l.ip /\ Aged(l).left <= l.left
  <1>1. l.left \in -1 .. LeaseDuration /\ l.ip \in Addr
    BY DEF Leases
  <1>2. l.left \in Int /\ (l.left >= 0 => l.left - 1 \in -1 .. LeaseDuration)
    BY <1>1, LeaseDurationAssumption, SMT
  <1>3. CASE l # NoLease /\ l.left >= 0
    <2>1. Aged(l) = [l EXCEPT !.left = l.left - 1]
      BY <1>3 DEF Aged
    <2>2. Aged(l) = [ip |-> l.ip, left |-> l.left - 1]
      BY <2>1 DEF Leases
    <2> QED
      BY <1>1, <1>2, <1>3, <2>2 DEF Leases
  <1>4. CASE ~(l # NoLease /\ l.left >= 0)
    BY <1>2, <1>4 DEF Aged
  <1> QED
    BY <1>3, <1>4

(* Time moves a lease towards its end and no further than -1.              *)
LEMMA ElapseResult ==
    ASSUME NEW a \in Allocators
    PROVE  /\ Elapse(a) \in Allocators
           /\ Elapse(a).network = a.network
           /\ Elapse(a).used = a.used
           /\ \A u \in Users : /\ Elapse(a).leases[u] = NoLease <=> a.leases[u] = NoLease
                               /\ a.leases[u] # NoLease
                                     => Elapse(a).leases[u].ip = a.leases[u].ip
                               /\ a.leases[u] # NoLease
                                     => Elapse(a).leases[u].left <= a.leases[u].left
  <1> DEFINE f == [u \in Users |-> Aged(a.leases[u])]
  <1>3. a.leases \in [Users -> Leases \cup {NoLease}]
    BY DEF Allocators
  <1>4. Elapse(a) = [a EXCEPT !.leases = f]
    BY DEF Elapse, Allocators
  <1>1. \A u \in Users : f[u] = Aged(a.leases[u])
    OBVIOUS
  <1>2. Aged(NoLease) = NoLease
    BY DEF Aged
  <1>5. f \in [Users -> Leases \cup {NoLease}]
    BY <1>2, <1>3, AgedResult
  <1> HIDE DEF f
  <1>6. /\ Elapse(a) \in Allocators
        /\ Elapse(a).network = a.network
        /\ Elapse(a).used = a.used
        /\ Elapse(a).leases = f
    BY <1>4, <1>5 DEF Allocators
  <1>7. ASSUME NEW u \in Users
        PROVE  /\ f[u] = NoLease <=> a.leases[u] = NoLease
               /\ a.leases[u] # NoLease => f[u].ip = a.leases[u].ip
               /\ a.leases[u] # NoLease => f[u].left <= a.leases[u].left
    BY <1>1, <1>2, <1>3, AgedResult, NoLeaseAssumption
  <1> QED
    BY <1>6, <1>7

-----------------------------------------------------------------------------
(* The operators and the holders of addresses.                             *)

(* Nothing is used, held or leased at first.                               *)
LEMMA NewAllocatorApart ==
    ASSUME NEW net \in Networks, NEW S
    PROVE  LET a == NewIPAllocator(net)
               h == [s \in S |-> NoIP]
           IN  /\ Apart(a, S, h) /\ AllHosts(a, S, h) /\ \A L : LostIn(a, S, h, L)
               /\ a \in Allocators /\ a.network = net
               /\ Reservations(a) = [u \in Users |-> NoIP]
  BY NewAllocatorType
     DEF NewIPAllocator, Apart, AllHosts, LostIn, Reservations, Live

(* A live lease survives the sweep.                                        *)
LEMMA SweepSparesLive ==
    ASSUME NEW a \in Allocators
    PROVE  /\ expireLeasesLocked(a) \in Allocators
           /\ Reservations(expireLeasesLocked(a)) = Reservations(a)
           /\ \A u \in Users :
                /\ expireLeasesLocked(a).leases[u] # NoLease <=> Live(a.leases[u])
                /\ Live(a.leases[u]) => expireLeasesLocked(a).leases[u] = a.leases[u]
  <1> DEFINE e == expireLeasesLocked(a)
  <1>1. /\ e \in Allocators
        /\ \A u \in Users :
              e.leases[u] = IF Expired(a.leases[u]) THEN NoLease ELSE a.leases[u]
    BY ExpireResult
  <1> HIDE DEF e
  <1>2. \A u \in Users : /\ e.leases[u] # NoLease <=> Live(a.leases[u])
                         /\ Live(a.leases[u]) => e.leases[u] = a.leases[u]
                         /\ Live(e.leases[u]) <=> Live(a.leases[u])
    BY <1>1 DEF Live, Expired
  <1>3. Reservations(e) = Reservations(a)
    BY <1>2 DEF Reservations
  <1> QED
    BY <1>1, <1>2, <1>3 DEF e

(* Sweeping expired leases disturbs nothing that is held or still leased.  *)
LEMMA ExpireKeepsApart ==
    ASSUME NEW a \in Allocators, NEW S, NEW h \in Holders(S), Apart(a, S, h)
    PROVE  /\ Apart(expireLeasesLocked(a), S, h)
           /\ AllHosts(a, S, h) => AllHosts(expireLeasesLocked(a), S, h)
           /\ \A L : LostIn(a, S, h, L) => LostIn(expireLeasesLocked(a), S, h, L)
  <1> DEFINE e == expireLeasesLocked(a)
  <1>1. /\ e.network = a.network
        /\ e.used = a.used \ {a.leases[u].ip : u \in {v \in Users : Expired(a.leases[v])}}
        /\ \A u \in Users :
              e.leases[u] = IF Expired(a.leases[u]) THEN NoLease ELSE a.leases[u]
    BY ExpireResult
  <1> HIDE DEF e
  <1>2. \A u \in Users : Expired(a.leases[u]) => a.leases[u] # NoLease
    BY DEF Expired
  <1>3. \A u \in Users : e.leases[u] # NoLease
                            => e.leases[u] = a.leases[u] /\ ~Expired(a.leases[u])
    BY <1>1
  <1>4. \A s \in S : h[s] # NoIP => h[s] \in e.used
    BY <1>1, <1>2 DEF Apart
  <1>5. \A u \in Users : e.leases[u] # NoLease => e.leases[u].ip \in e.used
    BY <1>1, <1>2, <1>3 DEF Apart
  <1>6. Apart(e, S, h)
    BY <1>3, <1>4, <1>5 DEF Apart
  <1>7. AllHosts(a, S, h) => AllHosts(e, S, h)
    BY <1>1, <1>3 DEF AllHosts
  <1>8. ASSUME NEW L, LostIn(a, S, h, L), NEW ip \in e.used
        PROVE  \/ ip \in L
               \/ \E s \in S : h[s] = ip
               \/ \E u \in Users : e.leases[u] # NoLease /\ e.leases[u].ip = ip
    <2>1. ip \in a.used /\ \A v \in Users : Expired(a.leases[v]) => a.leases[v].ip # ip
      BY <1>1, <1>8
    <2>2. CASE ip \in L \/ \E s \in S : h[s] = ip
      BY <2>2
    <2>3. CASE \E u \in Users : a.leases[u] # NoLease /\ a.leases[u].ip = ip
      BY <1>1, <2>1, <2>3
    <2> QED
      BY <1>8, <2>1, <2>2, <2>3 DEF LostIn
  <1> QED
    BY <1>6, <1>7, <1>8 DEF LostIn, e

(* Allocate finds an address that nobody holds and that is in no lease.    *)
LEMMA AllocateFresh ==
    ASSUME NEW a \in Allocators, NEW S, NEW h \in Holders(S), Apart(a, S, h),
           NEW r \in allocateLocked(a)
    PROVE  /\ r.ip \in Addr
           /\ \A t \in S : h[t] # r.ip
           /\ \A v \in Users : a.leases[v] # NoLease => a.leases[v].ip # r.ip
  <1>1. r.ip \in FirstFree(a)
    BY AllocateResult
  <1>2. r.ip \in Addr /\ r.ip # NoIP /\ r.ip \notin a.used
    BY <1>1, FirstFreeUsable, NoIPAssumption
  <1> QED
    BY <1>2 DEF Apart

(* Whoever is given that address holds it, apart from all the others.      *)
LEMMA AllocateTakes ==
    ASSUME NEW a \in Allocators, NEW S, NEW h \in Holders(S),
           NEW s \in S, h[s] = NoIP, Apart(a, S, h), NEW r \in allocateLocked(a)
    PROVE  LET k == [h EXCEPT ![s] = r.ip]
           IN  /\ k \in Holders(S)
               /\ Apart(r.alloc, S, k)
               /\ AllHosts(a, S, h) => AllHosts(r.alloc, S, k)
               /\ \A L : LostIn(a, S, h, L) => LostIn(r.alloc, S, k, L)
  <1> DEFINE k == [h EXCEPT ![s] = r.ip]
  <1>1. /\ r.ip \in FirstFree(a)
        /\ r.alloc.used = a.used \cup {r.ip}
        /\ r.alloc.leases = a.leases
        /\ r.alloc.network = a.network
    BY AllocateResult
  <1>2. /\ r.ip \in Addr /\ r.ip # NoIP
        /\ Host(a.network, r.ip)
    BY <1>1, FirstFreeUsable, NoIPAssumption DEF Host
  <1>3. k \in Holders(S) /\ \A t \in S : k[t] = IF t = s THEN r.ip ELSE h[t]
    BY <1>2 DEF Holders
  <1> HIDE DEF k
  <1>4. /\ \A t \in S : h[t] # r.ip
        /\ \A v \in Users : a.leases[v] # NoLease => a.leases[v].ip # r.ip
    BY AllocateFresh
  <1>5. Apart(r.alloc, S, k)
    BY <1>1, <1>2, <1>3, <1>4 DEF Apart
  <1>6. AllHosts(a, S, h) => AllHosts(r.alloc, S, k)
    BY <1>1, <1>2, <1>3 DEF AllHosts
  <1>7. \A L : LostIn(a, S, h, L) => LostIn(r.alloc, S, k, L)
    <2> SUFFICES ASSUME NEW L, LostIn(a, S, h, L), NEW ip \in r.alloc.used, ip # r.ip
                 PROVE  \/ ip \in L
                        \/ \E t \in S : k[t] = ip
                        \/ \E v \in Users : a.leases[v] # NoLease /\ a.leases[v].ip = ip
      BY <1>1, <1>3 DEF LostIn
    <2>1. ip \in a.used /\ ip # NoIP
      BY <1>1, NoIPAssumption DEF Allocators
    <2> QED
      BY <1>3, <2>1 DEF LostIn
  <1> QED
    BY <1>3, <1>5, <1>6, <1>7 DEF k

(* AllocateForUser ends the user's lease, whose address it returns if it   *)
(* still lasts, and those that have expired; the other leases stay.        *)
LEMMA AllocateForUserLeases ==
    ASSUME NEW a \in Allocators, NEW u \in Users, NEW r \in AllocateForUser(a, u)
    PROVE  /\ r.alloc \in Allocators
           /\ r.ip \in Addr
           /\ r.alloc.network = a.network
           /\ Live(a.leases[u]) => r.ip = a.leases[u].ip
           /\ \A v \in Users :
                 r.alloc.leases[v] = IF Live(a.leases[v]) /\ v # u THEN a.leases[v] ELSE NoLease
  <1> DEFINE e == expireLeasesLocked(a)
  <1>1. /\ e \in Allocators
        /\ \A v \in Users : /\ e.leases[v] # NoLease <=> Live(a.leases[v])
                            /\ Live(a.leases[v]) => e.leases[v] = a.leases[v]
    BY SweepSparesLive
  <1>2. /\ r.alloc \in Allocators
        /\ r.ip \in Addr
        /\ r.alloc.network = a.network
        /\ \/ /\ e.leases[u] # NoLease
              /\ r.ip = e.leases[u].ip
              /\ r.alloc.leases = [e.leases EXCEPT ![u] = NoLease]
           \/ /\ e.leases[u] = NoLease
              /\ r.alloc.leases = e.leases
    BY AllocateForUserResult
  <1> HIDE DEF e
  <1>3. e.leases \in [Users -> Leases \cup {NoLease}]
    BY <1>1 DEF Allocators
  <1>4. \A v \in Users : r.alloc.leases[v] = IF v = u THEN NoLease ELSE e.leases[v]
    BY <1>2, <1>3
  <1> QED
    BY <1>1, <1>2, <1>4

(* Without a lease that lasts the user is given an address that nobody     *)
(* holds and that is set aside for nobody.                                 *)
LEMMA AllocateForUserFresh ==
    ASSUME NEW a \in Allocators, NEW S, NEW h \in Holders(S), Apart(a, S, h),
           NEW u \in Users, ~Live(a.leases[u]), NEW r \in AllocateForUser(a, u)
    PROVE  /\ \A t \in S : h[t] # r.ip
           /\ \A v \in Users : Live(a.leases[v]) => a.leases[v].ip # r.ip
  <1> DEFINE e == expireLeasesLocked(a)
  <1>1. /\ e \in Allocators
        /\ \A v \in Users : /\ e.leases[v] # NoLease <=> Live(a.leases[v])
                            /\ Live(a.leases[v]) => e.leases[v] = a.leases[v]
    BY SweepSparesLive
  <1>2. Apart(e, S, h)
    BY ExpireKeepsApart
  <1>3. e.leases[u] # NoLease \/ \E x \in allocateLocked(e) : r.ip = x.ip
    BY AllocateForUserResult
  <1> HIDE DEF e
  <1>4. PICK x \in allocateLocked(e) : r.ip = x.ip
    BY <1>1, <1>3
  <1>5. /\ \A t \in S : h[t] # x.ip
        /\ \A v \in Users : e.leases[v] # NoLease => e.leases[v].ip # x.ip
    BY <1>1, <1>2, AllocateFresh
  <1> QED
    BY <1>1, <1>4, <1>5

(* Whoever joins holds its address apart from all the others.              *)
LEMMA AllocateForUserTakes ==
    ASSUME NEW a \in Allocators, NEW S, NEW h \in Holders(S),
           NEW s \in S, h[s] = NoIP, Apart(a, S, h),
           NEW u \in Users, NEW r \in AllocateForUser(a, u)
    PROVE  LET k == [h EXCEPT ![s] = r.ip]
           IN  /\ k \in Holders(S)
               /\ Apart(r.alloc, S, k)
               /\ AllHosts(a, S, h) => AllHosts(r.alloc, S, k)
               /\ \A L : LostIn(a, S, h, L) => LostIn(r.alloc, S, k, L)
  <1> DEFINE e == expireLeasesLocked(a)
             k == [h EXCEPT ![s] = r.ip]
  <1>1. e \in Allocators
    BY SweepSparesLive
  <1>2. /\ Apart(e, S, h)
        /\ AllHosts(a, S, h) => AllHosts(e, S, h)
        /\ \A L : LostIn(a, S, h, L) => LostIn(e, S, h, L)
    BY ExpireKeepsApart
  <1>3. /\ r.alloc \in Allocators
        /\ r.ip \in Addr
        /\ r.alloc.network = a.network
        /\ \/ /\ e.leases[u] # NoLease
              /\ r.ip = e.leases[u].ip
              /\ r.alloc.used = e.used
              /\ r.alloc.leases = [e.leases EXCEPT ![u] = NoLease]
           \/ /\ e.leases[u] = NoLease
              /\ \E x \in allocateLocked(e) :
                    /\ r.ip = x.ip
                    /\ r.alloc.used = x.alloc.used
                    /\ r.alloc.leases = x.alloc.leases
                    /\ x.alloc.network = e.network
    BY AllocateForUserResult
  <1>4. r.ip # NoIP /\ e.leases \in [Users -> Leases \cup {NoLease}] /\ e.network = a.network
    BY <1>1, <1>3, ExpireResult, NoIPAssumption DEF Allocators
  <1>5. k \in Holders(S) /\ \A t \in S : k[t] = IF t = s THEN r.ip ELSE h[t]
    BY <1>3 DEF Holders
  <1> HIDE DEF e
  <1>6. CASE e.leases[u] # NoLease
    <2>1. /\ r.ip = e.leases[u].ip
          /\ r.alloc.used = e.used
          /\ \A v \in Users : r.alloc.leases[v] = IF v = u THEN NoLease ELSE e.leases[v]
      BY <1>3, <1>4, <1>6
    <2> HIDE DEF k
    <2>2. Apart(r.alloc, S, k)
      BY <1>2, <1>4, <1>5, <1>6, <2>1 DEF Apart
    <2>3. AllHosts(a, S, h) => AllHosts(r.alloc, S, k)
      BY <1>2, <1>3, <1>4, <1>5, <1>6, <2>1 DEF AllHosts
    <2>4. \A L : LostIn(a, S, h, L) => LostIn(r.alloc, S, k, L)
      <3> SUFFICES ASSUME NEW L, LostIn(e, S, h, L), NEW ip \in e.used, ip # r.ip
                   PROVE  \/ ip \in L
                          \/ \E t \in S : k[t] = ip
                          \/ \E v \in Users : r.alloc.leases[v] # NoLease
                                                /\ r.alloc.leases[v].ip = ip
        BY <1>2, <1>5, <2>1 DEF LostIn
      <3>1. ip # NoIP
        BY <1>1, NoIPAssumption DEF Allocators
      <3>2. ip \in L \/ (\E t \in S : h[t] = ip) \/ \E v \in Users : e.leases[v] # NoLease /\ e.leases[v].ip = ip
        BY DEF LostIn
      <3> QED
        BY <1>5, <2>1, <3>1, <3>2
    <2> QED
      BY <1>5, <2>2, <2>3, <2>4 DEF k
  <1>7. CASE e.leases[u] = NoLease
    <2>1. PICK x \in allocateLocked(e) :
              /\ r.ip = x.ip
              /\ r.alloc.used = x.alloc.used
              /\ r.alloc.leases = x.alloc.leases
              /\ x.alloc.network = e.network
      BY <1>3, <1>7
    <2>2. k = [h EXCEPT ![s] = x.ip]
      BY <2>1
    <2> HIDE DEF k
    <2>3. /\ Apart(x.alloc, S, k)
          /\ AllHosts(e, S, h) => AllHosts(x.alloc, S, k)
          /\ \A L : LostIn(e, S, h, L) => LostIn(x.alloc, S, k, L)
      BY <1>1, <1>2, <2>2, AllocateTakes
    <2>4. /\ Apart(r.alloc, S, k)
          /\ AllHosts(a, S, h) => AllHosts(r.alloc, S, k)
      BY <1>2, <1>3, <1>4, <2>1, <2>3 DEF Apart, AllHosts
    <2>5. ASSUME NEW L, LostIn(a, S, h, L)
          PROVE  LostIn(r.alloc, S, k, L)
      <3>1. LostIn(x.alloc, S, k, L)
        BY <1>2, <2>3, <2>5
      <3> QED
        BY <2>1, <3>1 DEF LostIn
    <2> QED
      BY <1>5, <2>4, <2>5 DEF k
  <1> QED
    BY <1>6, <1>7

(* ReleaseWithLease leaves a lease of LeaseDuration, which is live.        *)
LEMMA ReleaseWithLeaseResult ==
    ASSUME NEW a \in Allocators, NEW ip \in Addr, NEW u \in Users
    PROVE  LET b == ReleaseWithLease(a, ip, u)
               l == [ip |-> ip, left |-> LeaseDuration]
           IN  /\ b \in Allocators
               /\ l \in Leases /\ l # NoLease /\ Live(l)
               /\ b.used = a.used /\ b.network = a.network
               /\ \A v \in Users : b.leases[v] = IF v = u THEN l ELSE a.leases[v]
  <1> DEFINE b == ReleaseWithLease(a, ip, u)
             l == [ip |-> ip, left |-> LeaseDuration]
  <1>1. l \in Leases /\ l # NoLease /\ l.ip = ip /\ ~(l.left < 0)
    <2>1. LeaseDuration \in -1 .. LeaseDuration /\ ~(LeaseDuration < 0)
      BY LeaseDurationAssumption, SMT
    <2> QED
      BY <2>1, NoLeaseAssumption DEF Leases
  <1>2. Live(l)
    BY <1>1 DEF Live, Expired
  <1>3. b = [a EXCEPT !.userToIP[u] = NoIP, !.leases[u] = l]
    BY DEF ReleaseWithLease
  <1> HIDE DEF b, l
  <1>4. /\ b \in Allocators
        /\ b.used = a.used /\ b.network = a.network
        /\ \A v \in Users : b.leases[v] = IF v = u THEN l ELSE a.leases[v]
    BY <1>1, <1>3 DEF Allocators
  <1> QED
    BY <1>1, <1>2, <1>4 DEF b, l

(* What is given back is set aside for the user who held it.               *)
LEMMA ReleaseReserves ==
    ASSUME NEW a \in Allocators, NEW ip \in Addr, NEW u \in Users
    PROVE  Reservations(ReleaseWithLease(a, ip, u)) = [Reservations(a) EXCEPT ![u] = ip]
  <1> DEFINE b == ReleaseWithLease(a, ip, u)
             l == [ip |-> ip, left |-> LeaseDuration]
  <1>1. /\ Live(l) /\ l.ip = ip
        /\ \A v \in Users : b.leases[v] = IF v = u THEN l ELSE a.leases[v]
    BY ReleaseWithLeaseResult
  <1> HIDE DEF b, l
  <1>2. \A v \in Users : Reservations(b)[v] = IF v = u THEN ip ELSE Reservations(a)[v]
    BY <1>1 DEF Reservations
  <1>3. Reservations(b) = [Reservations(a) EXCEPT ![u] = ip]
    BY <1>2 DEF Reservations
  <1> QED
    BY <1>3 DEF b

(* The address given back was nobody else's and in no lease.  What is lost *)
(* by it is at most the lease of the user that is overwritten.             *)
LEMMA ReleaseWithLeaseKeepsApart ==
    ASSUME NEW a \in Allocators, NEW S, NEW h \in Holders(S),
           NEW s \in S, h[s] # NoIP, Apart(a, S, h), NEW u \in Users
    PROVE  LET b == ReleaseWithLease(a, h[s], u)
               k == [h EXCEPT ![s] = NoIP]
           IN  /\ k \in Holders(S)
               /\ Apart(b, S, k)
               /\ AllHosts(a, S, h) => AllHosts(b, S, k)
               /\ \A L : LostIn(a, S, h, L) /\ (a.leases[u] = NoLease \/ a.leases[u].ip \in L)
                       => LostIn(b, S, k, L)
  <1> DEFINE b == ReleaseWithLease(a, h[s], u)
             k == [h EXCEPT ![s] = NoIP]
             l == [ip |-> h[s], left |-> LeaseDuration]
  <1>1. h[s] \in Addr
    BY DEF Holders
  <1>2. /\ l # NoLease /\ l.ip = h[s]
        /\ b.used = a.used /\ b.network = a.network
        /\ \A v \in Users : b.leases[v] = IF v = u THEN l ELSE a.leases[v]
    BY <1>1, ReleaseWithLeaseResult
  <1>3. k \in Holders(S) /\ \A t \in S : k[t] = IF t = s THEN NoIP ELSE h[t]
    BY DEF Holders
  <1> HIDE DEF b, k, l
  <1>4. Apart(b, S, k)
    BY <1>2, <1>3 DEF Apart
  <1>5. AllHosts(a, S, h) => AllHosts(b, S, k)
    BY <1>2, <1>3 DEF AllHosts
  <1>6. \A L : LostIn(a, S, h, L) /\ (a.leases[u] = NoLease \/ a.leases[u].ip \in L)
                       => LostIn(b, S, k, L)
    <2> SUFFICES ASSUME NEW L, LostIn(a, S, h, L),
                        a.leases[u] = NoLease \/ a.leases[u].ip \in L, NEW ip \in a.used
                 PROVE  \/ ip \in L
                        \/ \E t \in S : k[t] = ip
                        \/ \E v \in Users : b.leases[v] # NoLease /\ b.leases[v].ip = ip
      BY <1>2 DEF LostIn
    <2>1. CASE ip = h[s]
      BY <1>2, <2>1
    <2>2. CASE ip # h[s]
      BY <1>2, <1>3, <2>2 DEF LostIn
    <2> QED
      BY <2>1, <2>2
  <1> QED
    BY <1>3, <1>4, <1>5, <1>6 DEF b, k

(* Release takes from used an address that its holder drops.               *)
LEMMA ReleaseKeepsApart ==
    ASSUME NEW a \in Allocators, NEW S, NEW h \in Holders(S),
           NEW s \in S, h[s] # NoIP, Apart(a, S, h)
    PROVE  LET b == Release(a, h[s])
               k == [h EXCEPT ![s] = NoIP]
           IN  /\ b \in Allocators /\ k \in Holders(S)
               /\ b.leases = a.leases
               /\ b.network = a.network
               /\ Apart(b, S, k)
               /\ AllHosts(a, S, h) => AllHosts(b, S, k)
               /\ \A L : LostIn(a, S, h, L) => LostIn(b, S, k, L)
  <1> DEFINE b == Release(a, h[s])
             k == [h EXCEPT ![s] = NoIP]
  <1>1. /\ b \in Allocators
        /\ b.used = a.used \ {h[s]}
        /\ b.network = a.network
        /\ b.leases = a.leases
    BY DEF Release, Allocators
  <1>2. k \in Holders(S) /\ \A t \in S : k[t] = IF t = s THEN NoIP ELSE h[t]
    BY DEF Holders
  <1> HIDE DEF b, k
  <1>3. Apart(b, S, k)
    BY <1>1, <1>2 DEF Apart
  <1>4. AllHosts(a, S, h) => AllHosts(b, S, k)
    BY <1>1, <1>2 DEF AllHosts
  <1>5. \A L : LostIn(a, S, h, L) => LostIn(b, S, k, L)
    BY <1>1, <1>2 DEF LostIn
  <1> QED
    BY <1>1, <1>2, <1>3, <1>4, <1>5 DEF b, k

(* Time changes nothing but how long the leases last.                      *)
LEMMA ElapseKeepsApart ==
    ASSUME NEW a \in Allocators, NEW S, NEW h \in Holders(S), Apart(a, S, h)
    PROVE  /\ Apart(Elapse(a), S, h)
           /\ AllHosts(a, S, h) => AllHosts(Elapse(a), S, h)
           /\ \A L : LostIn(a, S, h, L) => LostIn(Elapse(a), S, h, L)
  <1> DEFINE b == Elapse(a)
  <1>1. /\ b.network = a.network
        /\ b.used = a.used
        /\ \A u \in Users : /\ b.leases[u] = NoLease <=> a.leases[u] = NoLease
                            /\ a.leases[u] # NoLease => b.leases[u].ip = a.leases[u].ip
    BY ElapseResult
  <1> HIDE DEF b
  <1>2. Apart(b, S, h)
    BY <1>1 DEF Apart
  <1>3. AllHosts(a, S, h) => AllHosts(b, S, h)
    BY <1>1 DEF AllHosts
  <1>4. \A L : LostIn(a, S, h, L) => LostIn(b, S, h, L)
    BY <1>1 DEF LostIn
  <1> QED
    BY <1>2, <1>3, <1>4 DEF b

-----------------------------------------------------------------------------
(* What the operators do to the addresses that are set aside.              *)

(* A lease that runs out on a tick is set aside no more; no other changes. *)
LEMMA ElapseLapses ==
    ASSUME NEW a \in Allocators
    PROVE  Reservations(Elapse(a)) =
             [u \in Users |-> IF u \in {v \in Users : ~Live(Elapse(a).leases[v])}
                              THEN NoIP ELSE Reservations(a)[u]]
  <1> DEFINE b == Elapse(a)
  <1>1. /\ b \in Allocators
        /\ \A u \in Users : /\ b.leases[u] = NoLease <=> a.leases[u] = NoLease
                            /\ a.leases[u] # NoLease => b.leases[u].ip = a.leases[u].ip
                            /\ a.leases[u] # NoLease => b.leases[u].left <= a.leases[u].left
    BY ElapseResult
  <1> HIDE DEF b
  <1>2. \A l \in Leases : l.left \in Int
    <2> SUFFICES ASSUME NEW l \in Leases PROVE l.left \in Int
      OBVIOUS
    <2>1. l.left \in -1 .. LeaseDuration
      BY DEF Leases
    <2> QED
      BY <2>1, LeaseDurationAssumption, SMT
  <1>3. ASSUME NEW u \in Users, Live(b.leases[u]) PROVE Live(a.leases[u])
    <2>1. b.leases[u] # NoLease /\ ~(b.leases[u].left < 0)
      BY <1>3 DEF Live, Expired
    <2>2. a.leases[u] # NoLease /\ b.leases[u].left <= a.leases[u].left
      BY <1>1, <2>1
    <2>3. a.leases[u].left \in Int /\ b.leases[u].left \in Int
      BY <1>1, <1>2, <2>1, <2>2 DEF Allocators
    <2>4. ~(a.leases[u].left < 0)
      BY <2>1, <2>2, <2>3, SMT
    <2> QED
      BY <2>2, <2>4 DEF Live, Expired
  <1>4. \A u \in Users : Reservations(b)[u] = IF Live(b.leases[u]) THEN Reservations(a)[u] ELSE NoIP
    BY <1>1, <1>3 DEF Reservations, Live
  <1>5. Reservations(b) = [u \in Users |-> IF u \in {v \in Users : ~Live(b.leases[v])}
                                           THEN NoIP ELSE Reservations(a)[u]]
    BY <1>4 DEF Reservations
  <1> QED
    BY <1>5 DEF b

(* AllocateForUser as AddressPromise states it: the address set aside, or  *)
(* without one any that is free.                                           *)
LEMMA AllocateForUserReserves ==
    ASSUME NEW a \in Allocators, NEW S, NEW h \in Holders(S), Apart(a, S, h),
           NEW u \in Users, NEW r \in AllocateForUser(a, u)
    PROVE  IF Reservations(a)[u] = NoIP
           THEN /\ \A t \in S : h[t] # r.ip
                /\ \A v \in Users : Reservations(a)[v] # r.ip
                /\ Reservations(r.alloc) = Reservations(a)
           ELSE /\ r.ip = Reservations(a)[u]
                /\ Reservations(r.alloc) = [Reservations(a) EXCEPT ![u] = NoIP]
  <1>1. /\ r.ip \in Addr
        /\ Live(a.leases[u]) => r.ip = a.leases[u].ip
        /\ \A v \in Users :
              r.alloc.leases[v] = IF Live(a.leases[v]) /\ v # u THEN a.leases[v] ELSE NoLease
    BY AllocateForUserLeases
  <1>2. \A v \in Users : Live(a.leases[v]) => a.leases[v].ip \in Addr
    BY DEF Allocators, Leases, Live
  <1>3. ~Live(NoLease)
    BY DEF Live
  <1>4. \A v \in Users : Reservations(r.alloc)[v] =
                             IF v = u THEN NoIP ELSE Reservations(a)[v]
    BY <1>1, <1>3 DEF Reservations
  <1>5. Reservations(r.alloc) = [Reservations(a) EXCEPT ![u] = NoIP]
    BY <1>4 DEF Reservations
  <1>6. CASE Live(a.leases[u])
    BY <1>1, <1>2, <1>5, <1>6, NoIPAssumption DEF Reservations
  <1>7. CASE ~Live(a.leases[u])
    <2>1. Reservations(a)[u] = NoIP
      BY <1>7 DEF Reservations
    <2>2. Reservations(r.alloc) = Reservations(a)
      BY <1>5, <2>1 DEF Reservations
    <2>3. /\ \A t \in S : h[t] # r.ip
          /\ \A v \in Users : Live(a.leases[v]) => a.leases[v].ip # r.ip
      BY <1>7, AllocateForUserFresh
    <2>4. \A v \in Users : Reservations(a)[v] # r.ip
      BY <1>1, <2>3, NoIPAssumption DEF Reservations
    <2> QED
      BY <2>1, <2>2, <2>3, <2>4
  <1> QED
    BY <1>6, <1>7

-----------------------------------------------------------------------------
(* Numbers.                                                                *)

(* A set of numbers has a least one.                                       *)
LEMMA Least ==
    ASSUME NEW T \in SUBSET Nat, T # {}
    PROVE  \E n \in T : \A m \in T : n <= m
  <1> DEFINE R == OpToRel(<, Nat)
  <1>1. IsWellFoundedOn(R, Nat)
    BY NatLessThanWellFounded
  <1>2. \A x, y \in Nat : x < y => <<x, y>> \in R
    BY DEF OpToRel
  <1> HIDE DEF R
  <1>3. PICK n \in T : \A m \in T : ~(<<m, n>> \in R)
    BY <1>1, WFMin
  <1>4. \A m \in T : ~(m < n)
    BY <1>2, <1>3
  <1> QED
    BY <1>4

(* Division has one remainder.                                             *)
LEMMA Remainder ==
    ASSUME NEW L \in Nat \ {0}, NEW x \in Nat, NEW p \in Nat, NEW s \in 0 .. L - 1,
           x = L * p + s
    PROVE  x % L = s
  <1> DEFINE q == x \div L
             r == x % L
  <1>1. q \in Int /\ r \in 0 .. L - 1 /\ x = L * q + r
    OBVIOUS
  <1> HIDE DEF q, r
  <1>2. \A a, b \in Nat : a # 0 => b * a >= b
    BY SMT
  <1>3. ~(q > p)
    <2> SUFFICES ASSUME q > p PROVE FALSE
      OBVIOUS
    <2>1. L * (q - p) >= L
      BY <1>1, <1>2
    <2>2. L * (q - p) = s - r
      BY <1>1
    <2> QED
      BY <1>1, <2>1, <2>2
  <1>4. ~(q < p)
    <2> SUFFICES ASSUME q < p PROVE FALSE
      OBVIOUS
    <2>1. L * (p - q) >= L
      BY <1>1, <1>2
    <2>2. L * (p - q) = r - s
      BY <1>1
    <2> QED
      BY <1>1, <2>1, <2>2
  <1>5. q = p
    BY <1>1, <1>3, <1>4
  <1>6. r = s
    BY <1>1, <1>5
  <1> QED
    BY <1>6 DEF r

(* Counting goes round.                                                    *)
LEMMA NextRemainder ==
    ASSUME NEW L \in Nat \ {0}, NEW x \in Nat
    PROVE  (x + 1) % L = IF (x % L) + 1 = L THEN 0 ELSE (x % L) + 1
  <1> DEFINE q == x \div L
             r == x % L
  <1>1. q \in Nat /\ r \in 0 .. L - 1 /\ x = L * q + r
    OBVIOUS
  <1> HIDE DEF q, r
  <1>2. ASSUME r + 1 = L PROVE (x + 1) % L = 0
    <2>1. x + 1 = L * (q + 1) + 0 /\ x + 1 \in Nat /\ q + 1 \in Nat /\ 0 \in 0 .. L - 1
      BY <1>1, <1>2
    <2> QED
      BY <2>1, Remainder
  <1>3. ASSUME r + 1 # L PROVE (x + 1) % L = r + 1
    <2>1. x + 1 = L * q + (r + 1) /\ x + 1 \in Nat /\ r + 1 \in 0 .. L - 1
      BY <1>1, <1>3
    <2> QED
      BY <1>1, <2>1, Remainder
  <1>4. (x + 1) % L = IF r + 1 = L THEN 0 ELSE r + 1
    BY <1>2, <1>3
  <1> QED
    BY <1>4 DEF r

-----------------------------------------------------------------------------
(* Where a subnet ends and where its search begins.                        *)

LEMMA SubnetFacts ==
    ASSUME NEW net \in Networks
    PROVE  /\ net.base \in Nat /\ net.size \in Nat /\ net.size >= 4
           /\ net.base + net.size <= AddrSpace
           /\ \E q \in Nat : net.base = net.size * q
           /\ \E q \in Nat : net.base = 4 * q
  <1>1. /\ net.base \in Addr /\ net.size \in 4 .. AddrSpace /\ net.size % 4 = 0
        /\ net.base % net.size = 0 /\ net.base + net.size <= AddrSpace
    BY NetworksAssumption
  <1>2. net.base \in Nat /\ net.size \in Nat \ {0} /\ net.size >= 4
    BY <1>1, AddrSpaceAssumption DEF Addr
  <1>3. ASSUME NEW b \in Nat, NEW n \in Nat \ {0}, b % n = 0
        PROVE  \E q \in Nat : b = n * q
    <2>1. b \div n \in Nat /\ b = n * (b \div n)
      BY <1>3
    <2> QED
      BY <2>1
  <1>4. PICK q \in Nat : net.base = net.size * q
    <2>1. net.base % net.size = 0
      BY <1>1
    <2> QED
      BY <1>2, <1>3, <2>1
  <1>5. PICK s \in Nat : net.size = 4 * s
    BY <1>1, <1>2, <1>3
  <1>6. net.base = 4 * (s * q) /\ s * q \in Nat
    BY <1>4, <1>5
  <1> QED
    BY <1>1, <1>2, <1>4, <1>6

(* The search begins at the first host, or so far below the subnet that    *)
(* the next address is outside too.                                        *)
LEMMA FirstIPFacts ==
    ASSUME NEW net \in Networks
    PROVE  /\ FirstIP(net) \in Nat
           /\ \/ FirstIP(net) = net.base + 1
              \/ FirstIP(net) + 2 < net.base
           /\ net.base % 256 = 0 => FirstIP(net) = net.base + 1
  <1> DEFINE B == net.base
             d == B \div 256
  <1>1. B \in Nat
    BY SubnetFacts
  <1>2. PICK q \in Nat : B = 4 * q
    BY SubnetFacts
  <1>3. FirstIP(net) = d * 256 + 1
    BY DEF FirstIP
  <1> HIDE DEF B
  <1>4. d \in Nat /\ d * 256 <= B /\ (B % 256 = 0 => d * 256 = B)
    BY <1>1
  <1> HIDE DEF d
  <1>5. FirstIP(net) \in Nat /\ (B % 256 = 0 => FirstIP(net) = B + 1)
    BY <1>1, <1>3, <1>4
  <1>6. FirstIP(net) = B + 1 \/ FirstIP(net) + 2 < B
    BY <1>1, <1>2, <1>3, <1>4
  <1> QED
    BY <1>5, <1>6 DEF B

(* The broadcast address is the last one.                                  *)
LEMMA BroadcastIsLast ==
    ASSUME NEW net \in Networks, NEW ip \in Nat, Contains(net, ip)
    PROVE  isBroadcast(net, ip) <=> ip = net.base + net.size - 1
  <1>1. /\ net.base \in Nat /\ net.size \in Nat \ {0}
        /\ \E q \in Nat : net.base = net.size * q
    BY SubnetFacts
  <1>2. PICK q \in Nat : net.base = net.size * q
    BY <1>1
  <1> DEFINE s == ip - net.base
  <1>3. s \in 0 .. net.size - 1 /\ ip = net.size * q + s
    BY <1>1, <1>2 DEF Contains
  <1>4. ip % net.size = s
    BY <1>1, <1>3, Remainder
  <1> QED
    BY <1>1, <1>4 DEF isBroadcast

-----------------------------------------------------------------------------
(* The search loop.                                                        *)

(* The search continues behind an address of the subnet, or has not begun. *)
NextInSubnet(a) ==
    \/ Contains(a.network, a.nextIP) /\ a.nextIP # a.network.base
    \/ a.nextIP = FirstIP(a.network)

(* Past the last address of the subnet the counter is outside it.          *)
LEMMA IncrementFacts ==
    ASSUME NEW net \in Networks, NEW ip \in Nat, ip < net.base + net.size
    PROVE  /\ ip + 1 < net.base + net.size => incrementIP(ip) = ip + 1
           /\ net.size < AddrSpace /\ ip + 1 = net.base + net.size
                 => ~Contains(net, incrementIP(ip))
  <1>1. /\ net.base \in Nat /\ net.size \in Nat /\ net.size >= 4
        /\ net.base + net.size <= AddrSpace
    BY SubnetFacts
  <1>2. AddrSpace \in Nat \ {0}
    BY AddrSpaceAssumption
  <1>3. ip + 1 < AddrSpace => incrementIP(ip) = ip + 1
    <2> SUFFICES ASSUME ip + 1 < AddrSpace PROVE (ip + 1) % AddrSpace = ip + 1
      BY DEF incrementIP
    <2>1. ip + 1 \in 0 .. AddrSpace - 1 /\ ip + 1 = AddrSpace * 0 + (ip + 1)
      BY <1>2
    <2> QED
      BY <1>2, <2>1, Remainder
  <1>4. ip + 1 = AddrSpace => incrementIP(ip) = 0
    <2> SUFFICES ASSUME ip + 1 = AddrSpace PROVE (ip + 1) % AddrSpace = 0
      BY DEF incrementIP
    <2>1. 0 \in 0 .. AddrSpace - 1 /\ ip + 1 = AddrSpace * 1 + 0
      BY <1>2
    <2> QED
      BY <1>2, <2>1, Remainder
  <1>5. net.size < AddrSpace /\ ip + 1 = net.base + net.size
           => ~Contains(net, incrementIP(ip))
    <2> SUFFICES ASSUME net.size < AddrSpace, ip + 1 = net.base + net.size
                 PROVE  ~(net.base <= incrementIP(ip) /\ incrementIP(ip) < net.base + net.size)
      BY <1>1 DEF Contains
    <2>1. CASE ip + 1 < AddrSpace
      BY <1>1, <1>3, <2>1
    <2>2. CASE ip + 1 = AddrSpace
      BY <1>1, <1>2, <1>4, <2>2
    <2> QED
      BY <1>1, <1>2, <2>1, <2>2
  <1> QED
    BY <1>1, <1>2, <1>3, <1>5

LEMMA ProbeStarts ==
    ASSUME NEW a \in Allocators
    PROVE  Probe(a, 0) = a.nextIP
  <1>1. a.nextIP \in Nat /\ a.network \in Networks
    BY AddrSpaceAssumption DEF Allocators, Addr
  <1>2. a.network.base \in Nat /\ a.network.size \in Nat
    BY <1>1, SubnetFacts
  <1> QED
    BY <1>1, <1>2 DEF Probe, Contains

(* From one round to the next: an increment, or the way back.              *)
LEMMA ProbeSteps ==
    ASSUME NEW a \in Allocators, a.network.size < AddrSpace, NextInSubnet(a),
           NEW k \in Nat \ {0}
    PROVE  Probe(a, k) = IF Contains(a.network, incrementIP(Probe(a, k - 1)))
                         THEN incrementIP(Probe(a, k - 1)) ELSE FirstIP(a.network)
  <1> DEFINE net == a.network
             B == net.base
             E == net.base + net.size
             n == a.nextIP
             F == FirstIP(net)
             ahead == IF Contains(net, n) THEN E - n ELSE 1
             p == Probe(a, k - 1)
  <1>1. net \in Networks /\ n \in Nat
    BY AddrSpaceAssumption DEF Allocators, Addr
  <1>2. B \in Nat /\ E \in Nat /\ B + 4 <= E
    BY <1>1, SubnetFacts
  <1>3. F \in Nat /\ (F = B + 1 \/ F + 2 < B)
    BY <1>1, FirstIPFacts
  <1>4. \A ip \in Nat : Contains(net, ip) <=> B <= ip /\ ip < E
    BY <1>1, SubnetFacts DEF Contains
  <1>5. \A ip \in Nat : /\ ip + 1 < E => incrementIP(ip) = ip + 1
                        /\ ip + 1 = E => ~Contains(net, incrementIP(ip))
    <2> SUFFICES ASSUME NEW ip \in Nat
                 PROVE  /\ ip + 1 < E => incrementIP(ip) = ip + 1
                        /\ ip + 1 = E => ~Contains(net, incrementIP(ip))
      OBVIOUS
    <2>1. ip + 1 < E \/ ip + 1 = E => ip < E
      BY <1>2
    <2> QED
      BY <1>1, <2>1, IncrementFacts
  <1>6. \A j \in Nat : Probe(a, j) =
            IF j < ahead THEN n + j
            ELSE IF Contains(net, F) THEN F + ((j - ahead) % (E - F)) ELSE F
    BY DEF Probe
  <1>7. Contains(net, n) \/ n = F
    BY DEF NextInSubnet
  <1>8. p = IF k - 1 < ahead THEN n + (k - 1)
            ELSE IF Contains(net, F) THEN F + (((k - 1) - ahead) % (E - F)) ELSE F
    <2>1. k - 1 \in Nat
      OBVIOUS
    <2> QED
      BY <1>6, <2>1
  <1>9. Probe(a, k) = IF k < ahead THEN n + k
            ELSE IF Contains(net, F) THEN F + ((k - ahead) % (E - F)) ELSE F
    BY <1>6
  <1>10. ahead \in Nat \ {0} /\ (Contains(net, n) => ahead = E - n) /\ (~Contains(net, n) => ahead = 1)
    BY <1>1, <1>2, <1>4
  <1> HIDE DEF B, E, n, F, ahead, p, net
  <1>11. CASE k < ahead
    <2>1. /\ Contains(net, n) /\ p = n + (k - 1) /\ p \in Nat /\ p + 1 < E
          /\ p + 1 = n + k /\ B <= p + 1
      BY <1>1, <1>2, <1>4, <1>8, <1>10, <1>11
    <2>2. incrementIP(p) = n + k /\ Contains(net, incrementIP(p))
      BY <1>4, <1>5, <2>1
    <2> QED
      BY <1>9, <1>11, <2>2 DEF p, net
  <1>12. CASE k = ahead
    <2>1. CASE Contains(net, n)
      <3>1. p \in Nat /\ p + 1 = E
        BY <1>1, <1>2, <1>4, <1>8, <1>10, <1>12, <2>1
      <3>2. ~Contains(net, incrementIP(p))
        BY <1>5, <3>1
      <3>3. Contains(net, F) => E - F \in Nat \ {0}
        BY <1>2, <1>3, <1>4
      <3>4. \A L \in Nat \ {0} : 0 % L = 0
        OBVIOUS
      <3>5. k - ahead = 0
        BY <1>12
      <3>6. Probe(a, k) = F
        BY <1>3, <1>9, <1>12, <3>3, <3>4, <3>5
      <3> QED
        BY <3>2, <3>6 DEF p, net, F
    <2>2. CASE ~Contains(net, n)
      <3>1. n = F /\ F + 2 < B /\ k = 1 /\ ~Contains(net, F)
        BY <1>2, <1>3, <1>4, <1>7, <1>10, <1>12, <2>2
      <3>2. p = F
        BY <1>3, <1>8, <1>10, <1>12, <3>1
      <3>3. incrementIP(F) = F + 1 /\ ~Contains(net, F + 1)
        BY <1>2, <1>3, <1>4, <1>5, <3>1
      <3>4. Probe(a, k) = F
        BY <1>9, <1>12, <3>1
      <3> QED
        BY <3>2, <3>3, <3>4 DEF p, net, F
    <2> QED
      BY <2>1, <2>2
  <1>13. CASE k > ahead
    <2>1. CASE Contains(net, F)
      <3> DEFINE L == E - F
                 x == (k - 1) - ahead
                 r == x % L
      <3>1. L \in Nat \ {0} /\ x \in Nat /\ k - ahead = x + 1
        BY <1>2, <1>3, <1>4, <1>10, <1>13, <2>1
      <3>2. p = F + r /\ Probe(a, k) = F + ((x + 1) % L)
        BY <1>8, <1>9, <1>10, <1>13, <2>1, <3>1
      <3>3. r \in 0 .. L - 1
        BY <3>1
      <3>4. (x + 1) % L = IF r + 1 = L THEN 0 ELSE r + 1
        <4> HIDE DEF x, L
        <4> QED
          BY <3>1, NextRemainder
      <3> HIDE DEF r, x
      <3>5. CASE r + 1 = L
        <4>1. p \in Nat /\ p + 1 = E
          BY <1>2, <1>3, <3>1, <3>2, <3>3, <3>5
        <4>2. Probe(a, k) = F
          BY <1>3, <3>2, <3>4, <3>5
        <4> QED
          BY <1>5, <4>1, <4>2 DEF p, net, F
      <3>6. CASE r + 1 # L
        <4>1. p \in Nat /\ p + 1 < E /\ p + 1 >= B
          BY <1>2, <1>3, <1>4, <2>1, <3>1, <3>2, <3>3, <3>6
        <4>2. Probe(a, k) = p + 1
          BY <1>3, <3>2, <3>3, <3>4, <3>6
        <4>3. incrementIP(p) = p + 1 /\ Contains(net, p + 1)
          BY <1>4, <1>5, <4>1
        <4> QED
          BY <4>2, <4>3 DEF p, net
      <3> QED
        BY <3>5, <3>6
    <2>2. CASE ~Contains(net, F)
      <3>1. F + 2 < B
        BY <1>2, <1>3, <1>4, <2>2
      <3>2. p = F /\ Probe(a, k) = F
        BY <1>8, <1>9, <1>10, <1>13, <2>2
      <3>3. incrementIP(F) = F + 1 /\ ~Contains(net, F + 1)
        BY <1>2, <1>3, <1>4, <1>5, <3>1
      <3> QED
        BY <3>2, <3>3 DEF p, net, F
    <2> QED
      BY <2>1, <2>2
  <1> QED
    BY <1>10, <1>11, <1>12, <1>13

(* The loop, run statement by statement from nextIP, looks at Probe.       *)
LEMMA LoopIsProbe ==
    ASSUME NEW a \in Allocators, a.network.size < AddrSpace, NextInSubnet(a), NEW at,
           at = [k \in Rounds |->
                    IF k = 0 THEN a.nextIP
                    ELSE IF Contains(a.network, incrementIP(at[k - 1]))
                    THEN incrementIP(at[k - 1]) ELSE FirstIP(a.network)]
    PROVE  \A k \in Rounds : at[k] = Probe(a, k)
  <1> DEFINE T == {k \in Rounds : at[k] # Probe(a, k)}
  <1>1. Rounds \subseteq Nat /\ \A k \in Rounds : k # 0 => k - 1 \in Rounds
    BY MaxAttemptsAssumption DEF Rounds
  <1>2. ASSUME T # {} PROVE FALSE
    <2>1. T \in SUBSET Nat
      BY <1>1
    <2> HIDE DEF T
    <2>2. PICK n \in T : \A m \in T : n <= m
      BY <1>2, <2>1, Least
    <2> USE DEF T
    <2>3. n # 0
      BY ProbeStarts
    <2>4. n - 1 \in Rounds /\ n - 1 \notin T
      BY <1>1, <2>1, <2>2, <2>3
    <2>5. at[n - 1] = Probe(a, n - 1)
      BY <2>4
    <2>6. n \in Nat \ {0}
      BY <2>1, <2>2, <2>3
    <2>7. at[n] = Probe(a, n)
      BY <2>3, <2>5, <2>6, ProbeSteps
    <2> QED
      BY <2>2, <2>7
  <1> QED
    BY <1>2

LEMMA ProbeIsALoop ==
    ASSUME NEW a \in Allocators, a.network.size < AddrSpace, NextInSubnet(a)
    PROVE  LET probe == [k \in Rounds |-> Probe(a, k)]
           IN  probe = [k \in Rounds |->
                    IF k = 0 THEN a.nextIP
                    ELSE IF Contains(a.network, incrementIP(probe[k - 1]))
                    THEN incrementIP(probe[k - 1]) ELSE FirstIP(a.network)]
  <1> DEFINE probe == [k \in Rounds |-> Probe(a, k)]
  <1>1. ASSUME NEW k \in Rounds
        PROVE  Probe(a, k) = IF k = 0 THEN a.nextIP
                             ELSE IF Contains(a.network, incrementIP(probe[k - 1]))
                             THEN incrementIP(probe[k - 1]) ELSE FirstIP(a.network)
    <2>1. CASE k = 0
      BY <2>1, ProbeStarts
    <2>2. CASE k # 0
      <3>1. k \in Nat \ {0} /\ k - 1 \in Rounds
        BY <2>2, MaxAttemptsAssumption DEF Rounds
      <3>2. probe[k - 1] = Probe(a, k - 1)
        BY <3>1
      <3> QED
        BY <2>2, <3>1, <3>2, ProbeSteps
    <2> QED
      BY <2>1, <2>2
  <1> QED
    BY <1>1

(* With one round less than a lap the search meets every host that is free *)
(* but the one behind it, where it was last.                               *)
LEMMA SearchIsComplete ==
    ASSUME NEW a \in Allocators, a.network.base % 256 = 0,
           MaxAttempts >= a.network.size - 2, NextInSubnet(a),
           NEW ip \in Addr, Usable(a, ip), ip # a.network.base,
           incrementIP(ip) # a.nextIP
    PROVE  FirstFree(a) # {}
  <1> DEFINE net == a.network
             B == net.base
             E == net.base + net.size
             n == a.nextIP
             F == FirstIP(net)
             T == {k \in Rounds : Usable(a, Probe(a, k))}
  <1>1. net \in Networks /\ n \in Nat /\ ip \in Nat
    BY AddrSpaceAssumption DEF Allocators, Addr
  <1>2. B \in Nat /\ E \in Nat /\ B + 4 <= E /\ net.size = E - B
    <2>1. net.base \in Nat /\ net.size \in Nat /\ net.size >= 4
      BY <1>1, SubnetFacts
    <2> QED
      BY <2>1
  <1>3. F = B + 1
    BY <1>1, FirstIPFacts
  <1>4. \A x \in Nat : Contains(net, x) <=> B <= x /\ x < E
    BY <1>1, SubnetFacts DEF Contains
  <1>5. Contains(net, n) /\ Contains(net, F) /\ n < E /\ B < n
    BY <1>1, <1>2, <1>3, <1>4 DEF NextInSubnet
  <1>6. B < ip /\ ip < E /\ ip # E - 1
    <2>1. Contains(net, ip) /\ ~isBroadcast(net, ip)
      BY DEF Usable
    <2>2. ip # E - 1
      <3>1. isBroadcast(net, ip) <=> ip = net.base + net.size - 1
        BY <1>1, <2>1, BroadcastIsLast
      <3>2. net.base + net.size - 1 = E - 1
        <4>1. net.base \in Nat /\ net.size \in Nat
          BY <1>1, SubnetFacts
        <4> QED
          BY <4>1
      <3> HIDE DEF net, E
      <3> QED
        BY <2>1, <3>1, <3>2
    <2> QED
      BY <1>1, <1>2, <1>4, <2>1, <2>2
  <1>7. MaxAttempts \in Nat /\ MaxAttempts >= E - B - 2 /\ ip + 1 # n
    <2>1. incrementIP(ip) = ip + 1
      <3>1. ip < net.base + net.size /\ ip + 1 < net.base + net.size
        BY <1>1, <1>2, <1>6
      <3> QED
        BY <1>1, <3>1, IncrementFacts
    <2> QED
      BY <1>2, <2>1, MaxAttemptsAssumption
  <1>8. \A k \in Nat : Probe(a, k) = IF k < E - n THEN n + k
                                     ELSE F + ((k - (E - n)) % (E - F))
    BY <1>5 DEF Probe
  <1> HIDE DEF B, E, n, F, net
  <1>9. \E k \in Rounds : Probe(a, k) = ip
    <2>1. CASE ip >= n
      <3>1. ip - n \in Rounds /\ ip - n \in Nat /\ ip - n < E - n /\ n + (ip - n) = ip
        BY <1>1, <1>2, <1>5, <1>6, <1>7, <2>1 DEF Rounds
      <3> QED
        BY <1>8, <3>1
    <2>2. CASE ip < n
      <3> DEFINE k == (E - n) + (ip - F)
      <3>1. k \in Rounds /\ k \in Nat /\ ~(k < E - n)
        BY <1>1, <1>2, <1>3, <1>5, <1>6, <1>7, <2>2 DEF Rounds
      <3>2. k - (E - n) = ip - F /\ ip - F \in 0 .. (E - F) - 1 /\ E - F \in Nat \ {0}
        BY <1>1, <1>2, <1>3, <1>5, <1>6
      <3>3. ip - F = (E - F) * 0 + (ip - F) /\ ip - F \in Nat
        BY <3>2
      <3>4. (ip - F) % (E - F) = ip - F
        BY <3>2, <3>3, Remainder
      <3>5. F + (ip - F) = ip
        BY <1>1, <1>2, <1>3
      <3> HIDE DEF k
      <3> QED
        BY <1>8, <3>1, <3>2, <3>4, <3>5
    <2> QED
      BY <1>1, <2>1, <2>2
  <1>10. T # {} /\ T \in SUBSET Nat
    BY <1>9, MaxAttemptsAssumption DEF Rounds
  <1> HIDE DEF T
  <1>11. PICK k \in T : \A m \in T : k <= m
    BY <1>10, Least
  <1> USE DEF T
  <1>12. \A m \in 0 .. k - 1 : ~Usable(a, Probe(a, m))
    <2> SUFFICES ASSUME NEW m \in 0 .. k - 1 PROVE ~Usable(a, Probe(a, m))
      OBVIOUS
    <2>1. k \in Nat /\ k <= MaxAttempts - 1
      BY <1>11, MaxAttemptsAssumption DEF Rounds
    <2>2. m \in Rounds /\ ~(k <= m)
      BY <2>1, MaxAttemptsAssumption DEF Rounds
    <2> QED
      BY <1>11, <2>2
  <1> QED
    BY <1>11, <1>12 DEF FirstFree

(* An address that is handed out is not the last of the subnet, so the     *)
(* search goes on inside it.                                               *)
LEMMA AllocateAdvances ==
    ASSUME NEW a \in Allocators, NEW r \in allocateLocked(a)
    PROVE  NextInSubnet(r.alloc)
  <1> DEFINE net == a.network
  <1>1. PICK ip \in FirstFree(a) :
            r = [ip    |-> ip,
                 alloc |-> [a EXCEPT !.used = @ \cup {ip}, !.nextIP = incrementIP(ip)]]
    BY DEF allocateLocked
  <1>2. ip \in Nat /\ Contains(net, ip) /\ ~isBroadcast(net, ip)
    BY FirstFreeUsable, AddrSpaceAssumption DEF Addr
  <1>3. net \in Networks
    BY DEF Allocators
  <1>4. net.base \in Nat /\ net.size \in Nat
    BY <1>3, SubnetFacts
  <1>5. ip # net.base + net.size - 1
    BY <1>2, <1>3, BroadcastIsLast
  <1>6. ip + 1 < net.base + net.size /\ ip < net.base + net.size /\ net.base <= ip
    BY <1>2, <1>4, <1>5 DEF Contains
  <1>7. incrementIP(ip) = ip + 1
    BY <1>2, <1>3, <1>6, IncrementFacts
  <1>8. Contains(net, incrementIP(ip)) /\ incrementIP(ip) # net.base
    BY <1>2, <1>4, <1>6, <1>7 DEF Contains
  <1>9. r.alloc.network = net /\ r.alloc.nextIP = incrementIP(ip)
    BY <1>1 DEF Allocators
  <1> QED
    BY <1>8, <1>9 DEF NextInSubnet

LEMMA AllocateForUserAdvances ==
    ASSUME NEW a \in Allocators, NextInSubnet(a), NEW u \in Users,
           NEW r \in AllocateForUser(a, u)
    PROVE  NextInSubnet(r.alloc)
  <1> DEFINE e == expireLeasesLocked(a)
  <1>1. e \in Allocators /\ e.network = a.network /\ e.nextIP = a.nextIP
    BY ExpireResult DEF expireLeasesLocked, Allocators
  <1>2. AllocateForUser(a, u) =
          IF e.leases[u] # NoLease
          THEN {[ip |-> e.leases[u].ip,
                 alloc |-> [e EXCEPT !.userToIP[u] = e.leases[u].ip, !.leases[u] = NoLease]]}
          ELSE {[ip |-> x.ip, alloc |-> [x.alloc EXCEPT !.userToIP[u] = x.ip]] :
                  x \in allocateLocked(e)}
    BY DEF AllocateForUser
  <1> HIDE DEF e
  <1>3. CASE e.leases[u] # NoLease
    <2>1. r = [ip |-> e.leases[u].ip,
               alloc |-> [e EXCEPT !.userToIP[u] = e.leases[u].ip, !.leases[u] = NoLease]]
      BY <1>2, <1>3
    <2>2. r.alloc.network = e.network /\ r.alloc.nextIP = e.nextIP
      BY <1>1, <2>1 DEF Allocators
    <2> QED
      BY <1>1, <2>2 DEF NextInSubnet
  <1>4. CASE e.leases[u] = NoLease
    <2>1. PICK x \in allocateLocked(e) :
              r = [ip |-> x.ip, alloc |-> [x.alloc EXCEPT !.userToIP[u] = x.ip]]
      BY <1>2, <1>4
    <2>2. NextInSubnet(x.alloc) /\ x.alloc \in Allocators
      BY <1>1, AllocateAdvances, AllocateResult
    <2>3. r.alloc.network = x.alloc.network /\ r.alloc.nextIP = x.alloc.nextIP
      BY <2>1, <2>2 DEF Allocators
    <2> QED
      BY <2>2, <2>3 DEF NextInSubnet
  <1> QED
    BY <1>3, <1>4

(* Nothing else moves the search.                                          *)
LEMMA SearchStays ==
    ASSUME NEW a \in Allocators, NextInSubnet(a), NEW ip, NEW u
    PROVE  /\ NextInSubnet(expireLeasesLocked(a))
           /\ NextInSubnet(Release(a, ip))
           /\ NextInSubnet(ReleaseWithLease(a, ip, u))
           /\ NextInSubnet(Elapse(a))
  BY DEF NextInSubnet, expireLeasesLocked, Release, ReleaseWithLease, Elapse, Allocators

LEMMA SearchBegins ==
    ASSUME NEW net \in Networks
    PROVE  NextInSubnet(NewIPAllocator(net))
  BY DEF NextInSubnet, NewIPAllocator
=============================================================================
