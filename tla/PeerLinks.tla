----------------------------- MODULE PeerLinks -----------------------------
(***************************************************************************)
(* The direct links of one client: Manager of pkg/p2p/p2p.go, with the     *)
(* goroutines that share it.  AddPeer runs in the client's receive loop,   *)
(* one punchHole goroutine runs for each link that is being punched, and   *)
(* readLoop handles the probes that arrive.                                *)
(*                                                                         *)
(* A step is one critical section of m.mu, one read of link.Active (the    *)
(* punching goroutine reads it without the lock) or the report of a        *)
(* timeout; the other events change nothing and are left out.              *)
(* The goroutines hold pointers to links, so a link is an object with an   *)
(* identity and m.links says which object is the link of a virtual IP.     *)
(* A probe that is sent changes nothing here; who receives it is another   *)
(* manager.                                                                *)
(***************************************************************************)
EXTENDS Naturals, FiniteSets

CONSTANTS
    VIPs,           \* the virtual IPs of peers
    Links,          \* the *PeerLink objects
    Hosts,          \* the IP addresses packets come from
    Ports,
    Offers,         \* what signalling may say of each peer: address, candidates,
                    \* NAT
    FirstPort, LastPort,    \* predicted ports lie in between; 1024 and 65535
    SymmetricPortSpread,    \* 32 in the code
    NoLink          \* no entry in m.links

Addresses == [host : Hosts, port : Ports]

ASSUME LinksAssumption ==
    /\ Ports \subseteq Nat
    /\ FirstPort .. LastPort \subseteq Ports
    /\ SymmetricPortSpread \in Nat
    /\ \A v \in VIPs : Offers[v] \subseteq
           [addr : Addresses, candidates : SUBSET Addresses, symmetric : BOOLEAN]
    /\ NoLink \notin Links

VARIABLES
    current,        \* m.links
    link,           \* the objects
    stage,          \* what the punchHole goroutine of an object does next,
                    \* "none" when there is no such goroutine
    heard,          \* history: where probes have come from
    closed,         \* m.done is closed
    reading         \* readLoop runs

vars == <<current, link, stage, heard, closed, reading>>

Stages == {"none", "probing", "timeout", "ending"}

LinkObjects ==
    [vip : VIPs, addr : Addresses, candidates : SUBSET Addresses,
     active : BOOLEAN, punching : BOOLEAN]

TypeOK ==
    /\ current \in [VIPs -> Links \cup {NoLink}]
    /\ link \in [Links -> LinkObjects \cup {NoLink}]
    /\ stage \in [Links -> Stages]
    /\ heard \subseteq Addresses
    /\ closed \in BOOLEAN
    /\ reading \in BOOLEAN

Init ==
    /\ current = [v \in VIPs |-> NoLink]
    /\ link = [i \in Links |-> NoLink]
    /\ stage = [i \in Links |-> "none"]
    /\ heard = {}
    /\ closed = FALSE
    /\ reading = TRUE

Known == {v \in VIPs : current[v] # NoLink}

-----------------------------------------------------------------------------
(* AddPeer.                                                                *)

(* The ports a symmetric NAT may have given to the peer.                   *)
Predicted(addr) ==
    {[addr EXCEPT !.port = p] :
        p \in {q \in FirstPort .. LastPort :
                  \/ addr.port < q /\ q <= addr.port + SymmetricPortSpread
                  \/ q < addr.port /\ addr.port <= q + SymmetricPortSpread}}

(* buildCandidateAddrs; the order only decides when each is probed.        *)
Candidates(o) ==
    {o.addr} \cup o.candidates \cup (IF o.symmetric THEN Predicted(o.addr) ELSE {})

(* The objects nothing points to; the garbage collector has the others.    *)
Unused == {i \in Links : stage[i] = "none" /\ \A v \in VIPs : current[v] # i}

(* Fault: a link that is being punched is not spared.                      *)
MayPunch_Twice(v) == v \in Known => ~link[current[v]].active

(* The link of a peer is left alone while it is active or being punched.   *)
MayPunch(v) ==
    v \in Known => ~link[current[v]].active /\ ~link[current[v]].punching

AddPeer(v, o) ==
    /\ MayPunch(v)
    /\ \E i \in Unused :
        /\ link' = [link EXCEPT ![i] =
               [vip |-> v, addr |-> o.addr, candidates |-> Candidates(o),
                active |-> FALSE, punching |-> TRUE]]
        /\ current' = [current EXCEPT ![v] = i]
        /\ stage' = [stage EXCEPT ![i] = "probing"]
    /\ UNCHANGED <<heard, closed, reading>>

-----------------------------------------------------------------------------
(* punchHole.                                                              *)

Goto(i, s) == stage' = [stage EXCEPT ![i] = s]

(* A tick: a link that became active needs no more probes.                 *)
Established(i) ==
    /\ stage[i] = "probing"
    /\ link[i].active
    /\ Goto(i, "ending")
    /\ UNCHANGED <<current, link, heard, closed, reading>>

(* Fault: only a link that is up looks at the deadline.                    *)
Deadline_WhenUp(i) ==
    /\ stage[i] = "probing"
    /\ link[i].active
    /\ Goto(i, "ending")
    /\ UNCHANGED <<current, link, heard, closed, reading>>

(* PunchTimeout has passed.                                                *)
Deadline(i) ==
    /\ stage[i] = "probing"
    /\ Goto(i, IF link[i].active THEN "ending" ELSE "timeout")
    /\ UNCHANGED <<current, link, heard, closed, reading>>

(* The timeout is reported.                                                *)
GiveUp(i) ==
    /\ stage[i] = "timeout"
    /\ Goto(i, "ending")
    /\ UNCHANGED <<current, link, heard, closed, reading>>

Stopped(i) ==
    /\ stage[i] = "probing"
    /\ closed
    /\ Goto(i, "ending")
    /\ UNCHANGED <<current, link, heard, closed, reading>>

(* Fault: the deferred function is not run after a timeout.                *)
End_Forgets(i) ==
    /\ stage[i] = "ending"
    /\ link' = IF current[link[i].vip] = i /\ link[i].active
               THEN [link EXCEPT ![i].punching = FALSE] ELSE link
    /\ Goto(i, "none")
    /\ UNCHANGED <<current, heard, closed, reading>>

(* The deferred function.                                                  *)
End(i) ==
    /\ stage[i] = "ending"
    /\ link' = IF current[link[i].vip] = i
               THEN [link EXCEPT ![i].punching = FALSE] ELSE link
    /\ Goto(i, "none")
    /\ UNCHANGED <<current, heard, closed, reading>>

-----------------------------------------------------------------------------
(* readLoop and handleProbe.                                               *)

Exact(from) == {v \in Known : link[current[v]].addr = from}
SameHost(from) == {v \in Known : link[current[v]].addr.host = from.host}
OnLAN(from) ==
    {v \in Known : \E c \in link[current[v]].candidates : c.host = from.host}

(* The links a probe may be taken for, the first of a Go map: one with     *)
(* this very address, or else with this IP, or else with this IP among its *)
(* candidates.                                                             *)
Matches(from) ==
    IF Exact(from) # {} THEN Exact(from)
    ELSE IF SameHost(from) # {} THEN SameHost(from)
    ELSE OnLAN(from)

(* Fault: only a success is remembered, not the address it came from.      *)
handleProbe_KeepsAddress(from) ==
    /\ reading
    /\ reading' = ~closed
    /\ heard' = heard \cup {from}
    /\ \E v \in Matches(from) :
            link' = [link EXCEPT ![current[v]].active = TRUE]
    /\ UNCHANGED <<current, stage, closed>>

(* readLoop looks at m.done before each read: once that is closed, the     *)
(* probe it was reading is the last.                                       *)
handleProbe(from) ==
    /\ reading
    /\ reading' = ~closed
    /\ heard' = heard \cup {from}
    /\ \/ /\ Matches(from) = {}
          /\ UNCHANGED link
       \/ \E v \in Matches(from) :
            link' = [link EXCEPT ![current[v]].addr = from, ![current[v]].active = TRUE]
    /\ UNCHANGED <<current, stage, closed>>

Close ==
    /\ ~closed
    /\ closed' = TRUE
    /\ UNCHANGED <<current, link, stage, heard, reading>>

-----------------------------------------------------------------------------
punchHole(i) ==
    Established(i) \/ Deadline(i) \/ GiveUp(i) \/ Stopped(i) \/ End(i)

Next ==
    \/ \E v \in VIPs : \E o \in Offers[v] : AddPeer(v, o)
    \/ \E i \in Links : punchHole(i)
    \/ \E from \in Addresses : handleProbe(from)
    \/ Close

(* A goroutine that can run does run, and a deadline passes.               *)
Spec == Init /\ [][Next]_vars /\ \A i \in Links : WF_vars(punchHole(i))

-----------------------------------------------------------------------------
Punching == {i \in Links : stage[i] # "none"}

(* Two goroutines never punch for the same peer (p2p_test.go:8-9 "calling  *)
(* AddPeer multiple times for the same VIP does not start duplicate punch  *)
(* goroutines"), and the one there is works on the link of that peer.      *)
OnePuncherPerPeer ==
    /\ \A i, j \in Punching : link[i].vip = link[j].vip => i = j
    /\ \A i \in Punching : current[link[i].vip] = i

(* A link is marked as being punched exactly while it is: a mark that      *)
(* stayed would make AddPeer skip this peer for ever.                      *)
MarkIsTrue ==
    \A v \in Known : link[current[v]].punching <=> current[v] \in Punching

(* Packets go over UDP only to an address a probe has come from; until     *)
(* then SendPacket leaves them to the relay.                               *)
OnlyHeardAddresses ==
    \A v \in Known : link[current[v]].active => link[current[v]].addr \in heard

(* A link that is up stays up and is never replaced: nothing in this       *)
(* package takes it down, so its peer must keep its virtual IP.            *)
ActiveStays ==
    [][\A v \in Known : link[current[v]].active =>
          current'[v] = current[v] /\ link'[current[v]].active]_vars

(* Punching ends, so that a peer that was missed can be tried again.       *)
PunchingEnds == \A i \in Links : i \in Punching ~> i \notin Punching

(* A probe from another port than the known one is taken for a peer only   *)
(* when the port is among its candidates (p2p.go:504 "Pass 2: Match by IP  *)
(* and check if port is in candidates list").                              *)
AddressIsCandidate ==
    \A v \in Known : link[current[v]].active =>
        link[current[v]].addr \in link[current[v]].candidates

(* A timeout is reported only of a link that is not up (event.go:13        *)
(* "EventPunchTimeout is emitted when hole-punching times out"; what is    *)
(* emitted is what the user sees of this peer).                            *)
NoLateTimeout ==
    [][\A i \in Links : stage[i] = "timeout" /\ stage'[i] = "ending"
                           => ~link[i].active]_vars
=============================================================================
