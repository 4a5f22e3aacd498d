----------------------------- MODULE DirectPath -----------------------------
(***************************************************************************)
(* From the first STUN query to the first direct packet, at both ends: the *)
(* p2p.Manager of two clients (pkg/p2p/p2p.go, stun.go), each behind a NAT *)
(* of its own, and the choice SendPacket makes between UDP and the relay.  *)
(*                                                                         *)
(* The critical sections of one manager are in PeerLinks.  Here a handler  *)
(* is one step, a tick of punchHole stands for the ticks that go once      *)
(* through all candidates, and what matters is whether the two sides fit:  *)
(* who has sent to which port, and what the NATs made of it.  Each NAT is  *)
(* a host with external ports; an address of a client is such a port.      *)
(*                                                                         *)
(* The NATs are the worst that hole punching is meant for: a packet gets   *)
(* in only if one was sent from the port it is for to the port it comes    *)
(* from.  A cone NAT has one port, a symmetric one takes the next for each *)
(* destination.  Mappings last.  The server has told each client of the    *)
(* other by the time AddPeer is called.                                    *)
(***************************************************************************)
EXTENDS Integers, Sequences, FiniteSets

CONSTANTS
    Managers,       \* two
    Talkers,        \* those whose client has packets to send
    MaxPort,        \* ports are 1 .. MaxPort; 65535
    LowPort,        \* predicted ports start here; 1024
    BasePort,       \* the first port a NAT gives out
    Step,           \* what a symmetric NAT adds for the next
    SymmetricPortSpread,    \* 32 in the code
    StunServers,    \* how many are asked at most; 5
    EnoughResults,  \* how many answers suffice; 3
    NoInfo, NoLink

Ports == 1 .. MaxPort
Nowhere == 0        \* no mapping; no public address

ASSUME PathAssumption ==
    /\ Cardinality(Managers) = 2 /\ Talkers \subseteq Managers
    /\ MaxPort \in Nat /\ LowPort \in Ports /\ BasePort \in Ports
    /\ Step \in Nat \ {0} /\ SymmetricPortSpread \in Nat
    /\ StunServers \in Nat /\ EnoughResults \in Nat \ {0}

Other(m) == CHOOSE n \in Managers : n # m

VARIABLES
    nat,            \* what kind of NAT each manager is behind
    info,           \* m.natInfo, NoInfo until NewManager returns
    mapping,        \* the port of m's NAT for packets to a port of the other
    next,           \* the next port a symmetric NAT gives out
    link,           \* m.links[the other]
    punching,       \* is its punchHole goroutine running?
    probes,         \* every probe sent, by port it came from and port it is for
    writable,       \* the write deadline of m.conn has not passed
    closed,         \* m.done is closed
    path            \* history: the way the last packet went

vars == <<nat, info, mapping, next, link, punching, probes, writable, closed, path>>

Kinds == {"cone", "symmetric"}
Infos == [port : Ports \cup {Nowhere}, candidates : SUBSET Ports, type : Kinds \cup {"unknown"}]
LinkRecords == [addr : Ports \cup {Nowhere}, candidates : SUBSET Ports, active : BOOLEAN]

ASSUME NoLinkAssumption == NoLink \notin LinkRecords

TypeOK ==
    /\ nat \in [Managers -> Kinds]
    /\ info \in [Managers -> Infos \cup {NoInfo}]
    /\ mapping \in [Managers -> [Ports -> Ports \cup {Nowhere}]]
    /\ next \in [Managers -> Nat]
    /\ link \in [Managers -> LinkRecords \cup {NoLink}]
    /\ punching \in [Managers -> BOOLEAN]
    /\ probes \subseteq [from : Managers, src : Ports, dst : Ports]
    /\ writable \in [Managers -> BOOLEAN]
    /\ closed \in [Managers -> BOOLEAN]
    /\ path \in [Managers -> {"none", "direct", "relay"}]

Init ==
    /\ nat \in [Managers -> Kinds]
    /\ info = [m \in Managers |-> NoInfo]
    /\ mapping = [m \in Managers |-> [p \in Ports |-> Nowhere]]
    /\ next = [m \in Managers |-> BasePort]
    /\ link = [m \in Managers |-> NoLink]
    /\ punching = [m \in Managers |-> FALSE]
    /\ probes = {}
    /\ writable = [m \in Managers |-> TRUE]
    /\ closed = [m \in Managers |-> FALSE]
    /\ path = [m \in Managers |-> "none"]

-----------------------------------------------------------------------------
(* stunDetectNAT.                                                          *)

(* What the queries 1, 2, ... read: the number of the query whose answer   *)
(* it is, its own or a late one, or 0 when nothing came in time; the loop  *)
(* ends when it has read enough.  Nothing is read twice.                   *)
Answers(reads) == {i \in DOMAIN reads : reads[i] # 0}
Detections ==
    {reads \in UNION {[1 .. k -> 0 .. k] : k \in 0 .. StunServers} :
        /\ \A i, j \in DOMAIN reads :
              reads[i] <= i /\ (reads[i] = reads[j] /\ i # j => reads[i] = 0)
        /\ Cardinality(Answers(reads)) <= EnoughResults
        /\ Cardinality(Answers(reads)) < EnoughResults => Len(reads) = StunServers
        /\ Cardinality(Answers(reads)) = EnoughResults => reads[Len(reads)] # 0}

(* The port the NAT uses for the i-th server.                              *)
StunPort(m, i) == IF nat[m] = "cone" THEN BasePort ELSE BasePort + Step * (i - 1)

AllEqual(ports) == \A i, j \in DOMAIN ports : ports[i] = ports[j]

(* Fault: one answer is taken to be enough.                                *)
Classify_OneIsEnough(ports) ==
    IF Cardinality(DOMAIN ports) < 1 THEN "unknown"
    ELSE IF AllEqual(ports) THEN "cone" ELSE "symmetric"

(* Two answers tell the kind of the NAT.                                   *)
Classify(ports) ==
    IF Cardinality(DOMAIN ports) < 2 THEN "unknown"
    ELSE IF AllEqual(ports) THEN "cone" ELSE "symmetric"

(* The first answer gives the address.                                     *)
Detected(m, reads) ==
    LET answers == Answers(reads)
        ports == [i \in answers |-> StunPort(m, reads[i])]
        first == CHOOSE i \in answers : \A j \in answers : i <= j
    IN  [port |-> IF answers = {} THEN Nowhere ELSE ports[first],
         candidates |-> {ports[i] : i \in answers},
         type |-> Classify(ports)]

(* The queries set a write deadline on the socket, which stays.            *)
NewManager(m) ==
    /\ info[m] = NoInfo
    /\ \E reads \in Detections :
        /\ Detected(m, reads) \in Infos
        /\ info' = [info EXCEPT ![m] = Detected(m, reads)]
        /\ next' = [next EXCEPT ![m] = IF nat[m] = "cone" THEN @ ELSE @ + Step * Len(reads)]
    /\ UNCHANGED <<nat, mapping, link, punching, probes, writable, closed, path>>

(* Three seconds after the last query.                                     *)
WriteDeadline(m) ==
    /\ info[m] # NoInfo /\ writable[m]
    /\ writable' = [writable EXCEPT ![m] = FALSE]
    /\ UNCHANGED <<nat, info, mapping, next, link, punching, probes, closed, path>>

-----------------------------------------------------------------------------
(* Punching.                                                               *)

Up(m) == link[m] # NoLink /\ link[m].active

Predicted(port) ==
    {p \in LowPort .. MaxPort :
        p # port /\ port - SymmetricPortSpread <= p /\ p <= port + SymmetricPortSpread}

(* Fault: no prediction for a symmetric NAT.                               *)
CandidatesOf_NoPrediction(i) == ({i.port} \cup i.candidates) \ {Nowhere}

(* buildCandidateAddrs.                                                    *)
CandidatesOf(i) ==
    ({i.port} \cup i.candidates \cup (IF i.type = "symmetric" THEN Predicted(i.port) ELSE {}))
        \ {Nowhere}

AddPeer(m) ==
    /\ info[m] # NoInfo /\ info[Other(m)] # NoInfo
    /\ ~Up(m) /\ ~punching[m]
    /\ link' = [link EXCEPT ![m] =
           [addr |-> info[Other(m)].port, candidates |-> CandidatesOf(info[Other(m)]),
            active |-> FALSE]]
    /\ punching' = [punching EXCEPT ![m] = TRUE]
    /\ UNCHANGED <<nat, info, mapping, next, probes, writable, closed, path>>

(* The NAT finds a port for every destination, while it has any.           *)
Unmapped(m, dests) == {p \in dests : mapping[m][p] = Nowhere}
Mapped(m, dests) ==
    LET port(p) == IF nat[m] = "cone" THEN BasePort
                   ELSE next[m] + Step * Cardinality({q \in Unmapped(m, dests) : q < p})
    IN  [p \in Ports |-> IF p \in Unmapped(m, dests) /\ port(p) \in Ports
                         THEN port(p) ELSE mapping[m][p]]

(* A tick of punchHole: writes fail once the deadline has passed.          *)
Probe(m) ==
    /\ punching[m] /\ ~Up(m) /\ writable[m] /\ ~closed[m]
    /\ LET dests == link[m].candidates
           new == {p \in Unmapped(m, dests) : Mapped(m, dests)[p] # Nowhere}
       IN  /\ mapping' = [mapping EXCEPT ![m] = Mapped(m, dests)]
           /\ next' = [next EXCEPT ![m] =
                  IF nat[m] = "cone" THEN @ ELSE @ + Step * Cardinality(new)]
           /\ probes' = probes \cup
                  {[from |-> m, src |-> Mapped(m, dests)[p], dst |-> p] :
                      p \in {q \in dests : Mapped(m, dests)[q] # Nowhere}}
    /\ UNCHANGED <<nat, info, link, punching, writable, closed, path>>

(* The goroutine ends: at a tick when the link is up, at Close, or at      *)
(* PunchTimeout, which can come at any time.                               *)
Established(m) ==
    /\ punching[m] /\ (Up(m) \/ closed[m])
    /\ punching' = [punching EXCEPT ![m] = FALSE]
    /\ UNCHANGED <<nat, info, mapping, next, link, probes, writable, closed, path>>

GiveUp(m) ==
    /\ punching[m]
    /\ punching' = [punching EXCEPT ![m] = FALSE]
    /\ UNCHANGED <<nat, info, mapping, next, link, probes, writable, closed, path>>

(* A probe gets through the NAT of the other and readLoop has it handled:  *)
(* with one host behind it, it is taken for the other's whatever its port. *)
(* Probes may be lost, delayed, doubled and reordered.                     *)
Passes(pkt, m) == pkt.from = Other(m) /\ mapping[m][pkt.src] = pkt.dst

(* Fault: the link keeps the address that was announced.                   *)
handleProbe_KeepsAddress(m) ==
    /\ ~closed[m] /\ link[m] # NoLink
    /\ \E pkt \in probes :
        /\ Passes(pkt, m)
        /\ link' = [link EXCEPT ![m].active = TRUE]
    /\ UNCHANGED <<nat, info, mapping, next, punching, probes, writable, closed, path>>

handleProbe(m) ==
    /\ ~closed[m] /\ link[m] # NoLink
    /\ \E pkt \in probes :
        /\ Passes(pkt, m)
        /\ link' = [link EXCEPT ![m].addr = pkt.src, ![m].active = TRUE]
    /\ UNCHANGED <<nat, info, mapping, next, punching, probes, writable, closed, path>>

-----------------------------------------------------------------------------
(* The client.                                                             *)

(* Client.SendPacket: over UDP if the link is up and the write succeeds,   *)
(* else through the server.                                                *)
SendPacket(m) ==
    /\ m \in Talkers
    /\ path' = [path EXCEPT ![m] =
           IF Up(m) /\ writable[m] /\ ~closed[m] THEN "direct" ELSE "relay"]
    /\ UNCHANGED <<nat, info, mapping, next, link, punching, probes, writable, closed>>

Close(m) ==
    /\ info[m] # NoInfo /\ ~closed[m]
    /\ closed' = [closed EXCEPT ![m] = TRUE]
    /\ UNCHANGED <<nat, info, mapping, next, link, punching, probes, writable, path>>

Next ==
    \E m \in Managers :
        \/ NewManager(m) \/ WriteDeadline(m) \/ AddPeer(m) \/ Probe(m)
        \/ Established(m) \/ GiveUp(m) \/ handleProbe(m) \/ SendPacket(m) \/ Close(m)

(* Probes that are repeated arrive in the end: a step of handleProbe while *)
(* the other side still sends.                                             *)
Arrives(m) == punching[Other(m)] /\ writable[Other(m)] /\ handleProbe(m)

Spec ==
    /\ Init /\ [][Next]_vars
    /\ \A m \in Managers : WF_vars(Probe(m)) /\ WF_vars(Established(m)) /\ WF_vars(Arrives(m))

-----------------------------------------------------------------------------
(* A NAT is never taken for one of the other kind, whichever answers are   *)
(* lost, come late or are read as the answer of a later server             *)
(* (stun.go:281-293 does not look at the transaction or the sender).       *)
TypeIsRight ==
    \A m \in Managers : info[m] # NoInfo /\ info[m].type # "unknown" => info[m].type = nat[m]

(* Whatever goes over a link that is up passes the NATs at both ends       *)
(* (p2p.go:11 "Once either side receives a probe, the hole is punched and  *)
(* the link is up"): also when the probes of this side never arrived, and  *)
(* when the other side's NAT has renumbered its port.                      *)
UpReachesOther ==
    \A m \in Managers : Up(m) =>
        /\ mapping[m][link[m].addr] # Nowhere
        /\ mapping[Other(m)][mapping[m][link[m].addr]] = link[m].addr

(* Two clients that both punch and can both write do not miss each other   *)
(* for ever, if at most one NAT is symmetric, was found to be, and its     *)
(* ports are near the one that is known (p2p.go:242-243).                  *)
Trying(m) ==
    /\ punching[m] /\ writable[m] /\ ~closed[m] /\ info[m].port # Nowhere
    /\ nat[m] = "symmetric" => info[m].type = "symmetric"
Meet ==
    (\E m \in Managers : nat[m] = "cone") => ~<>[](\A m \in Managers : Trying(m))

(* Nor does one that still tries stay behind when the other's link is up   *)
(* (p2p.go:11 "Once either side receives a probe, the hole is punched and  *)
(* the link is up").                                                       *)
NobodyIsLeftBehind ==
    \A m \in Managers :
        (\E n \in Managers : nat[n] = "cone") =>
            ~<>[](Trying(m) /\ Up(Other(m)) /\ writable[Other(m)] /\ ~closed[Other(m)])

(* Packets for a link that is up are sent over it (p2p.go:12 "IP packets   *)
(* are sent over UDP instead of the TCP relay").                           *)
UpIsUsed ==
    [][\A m \in Managers :
           SendPacket(m) /\ Up(m) /\ ~closed[m] => path'[m] = "direct"]_vars
=============================================================================
