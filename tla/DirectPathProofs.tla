-------------------------- MODULE DirectPathProofs --------------------------
(***************************************************************************)
(* That what a link sends passes the NATs at both ends, for any ports, any *)
(* number of STUN servers and any way a symmetric NAT counts.  A link is   *)
(* made active by a probe, so the property rests on a fact about probes:   *)
(* the NAT of the sender still maps the way they went; and that rests on   *)
(* NATs that never change an entry.                                        *)
(*                                                                         *)
(* What comes before a direct path is in the second half: that a client is *)
(* given the addresses of the others through the server, each under its    *)
(* own virtual IP, for any clients and any order of what they send.        *)
(***************************************************************************)
EXTENDS DirectPath, Introduction, FiniteSetTheorems, SequenceTheorems, TLAPS

Signals == INSTANCE Signalling

(* Every probe went through the entry its NAT has for its destination.     *)
ProbesAreMapped == \A pkt \in probes : mapping[pkt.from][pkt.dst] = pkt.src

(* A manager that punches has a link to take the candidates from.          *)
PunchesForLink == \A m \in Managers : punching[m] => link[m] \in LinkRecords

(* A link that is up goes to a port, not to an address that is unknown.    *)
UpAtPort == \A m \in Managers : Up(m) => link[m].addr \in Ports

IInv == TypeOK /\ PunchesForLink /\ UpAtPort /\ ProbesAreMapped /\ UpReachesOther

-----------------------------------------------------------------------------
(* Constants and operators.                                                *)

LEMMA OtherIsManager == \A m \in Managers : Other(m) \in Managers /\ Other(m) # m
  <1> SUFFICES ASSUME NEW m \in Managers
               PROVE  Other(m) \in Managers /\ Other(m) # m
    OBVIOUS
  <1>1. \E n \in Managers : n # m
    <2>1. ASSUME ~\E n \in Managers : n # m
          PROVE  FALSE
      <3>1. Managers = {m}
        BY <2>1
      <3>2. Cardinality(Managers) = 1
        BY <3>1, FS_Singleton
      <3> QED
        BY <3>2, PathAssumption
    <2> QED
      BY <2>1
  <1> QED
    BY <1>1 DEF Other

LEMMA PortFacts == /\ LowPort .. MaxPort \subseteq Ports /\ BasePort \in Ports
                   /\ Nowhere \notin Ports /\ Ports \subseteq Nat /\ IsFiniteSet(Ports)
  <1>1. IsFiniteSet(1 .. MaxPort)
    BY PathAssumption, FS_Interval
  <1> QED
    BY <1>1, PathAssumption DEF Ports, Nowhere

(* What is announced of a client is only ever tried at ports.              *)
LEMMA CandidatesArePorts ==
    ASSUME NEW i \in Infos
    PROVE  CandidatesOf(i) \subseteq Ports
  <1>1. Predicted(i.port) \subseteq Ports
    BY PortFacts DEF Predicted
  <1>2. i.port \in Ports \cup {Nowhere} /\ i.candidates \subseteq Ports
    BY DEF Infos
  <1> QED
    BY <1>1, <1>2 DEF CandidatesOf

(* A NAT adds entries and keeps those it has.                              *)
LEMMA MappedKeeps ==
    ASSUME TypeOK, NEW m \in Managers, NEW dests \in SUBSET Ports
    PROVE  /\ Mapped(m, dests) \in [Ports -> Ports \cup {Nowhere}]
           /\ \A p \in Ports : mapping[m][p] # Nowhere => Mapped(m, dests)[p] = mapping[m][p]
  <1>1. mapping[m] \in [Ports -> Ports \cup {Nowhere}]
    BY DEF TypeOK
  <1> QED
    BY <1>1 DEF Mapped, Unmapped

-----------------------------------------------------------------------------
(* Steps.                                                                  *)

LEMMA InitHolds == Init => IInv
  <1> SUFFICES ASSUME Init PROVE IInv
    OBVIOUS
  <1>1. TypeOK
    BY PortFacts DEF Init, TypeOK
  <1>2. ProbesAreMapped /\ PunchesForLink
    BY DEF Init, ProbesAreMapped, PunchesForLink
  <1>3. UpReachesOther /\ UpAtPort
    BY DEF Init, UpReachesOther, UpAtPort, Up
  <1> QED
    BY <1>1, <1>2, <1>3 DEF IInv

(* Steps that leave tables, probes and links alone keep what is said of    *)
(* them.                                                                   *)
LEMMA QuietStep ==
    ASSUME IInv, UNCHANGED <<mapping, probes, link>>
    PROVE  ProbesAreMapped' /\ UpAtPort' /\ UpReachesOther'
  BY DEF IInv, ProbesAreMapped, UpAtPort, UpReachesOther, Up

LEMMA NewManagerStep ==
    ASSUME IInv, NEW m \in Managers, NewManager(m)
    PROVE  IInv'
  <1>1. PICK reads \in Detections :
            /\ Detected(m, reads) \in Infos
            /\ info' = [info EXCEPT ![m] = Detected(m, reads)]
            /\ next' = [next EXCEPT ![m] =
                            IF nat[m] = "cone" THEN @ ELSE @ + Step * Len(reads)]
    BY DEF NewManager
  <1>2. Len(reads) \in Nat
    <2>1. PICK k \in 0 .. StunServers : reads \in [1 .. k -> 0 .. k]
      BY DEF Detections
    <2>2. k \in Nat
      BY <2>1, PathAssumption
    <2> QED
      BY <2>1, <2>2
  <1>3. Step * Len(reads) \in Nat
    BY <1>2, PathAssumption
  <1>4. next[m] \in Nat
    BY DEF IInv, TypeOK
  <1>5. next' \in [Managers -> Nat]
    <2>1. next[m] + Step * Len(reads) \in Nat
      BY <1>3, <1>4
    <2> QED
      BY <1>1, <1>4, <2>1 DEF IInv, TypeOK
  <1>6. TypeOK'
    BY <1>1, <1>5 DEF NewManager, IInv, TypeOK
  <1>7. PunchesForLink'
    BY DEF NewManager, IInv, PunchesForLink
  <1> QED
    BY <1>6, <1>7, QuietStep DEF NewManager, IInv

-----------------------------------------------------------------------------
(* What STUN tells of a NAT.                                               *)

LEMMA TwoMembers ==
    ASSUME NEW S, IsFiniteSet(S), ~(Cardinality(S) < 2)
    PROVE  \E x, y \in S : x # y
  <1> SUFFICES ASSUME \A x, y \in S : x = y PROVE FALSE
    OBVIOUS
  <1>1. CASE S = {}
    BY <1>1, FS_EmptySet
  <1>2. CASE S # {}
    <2>1. PICK x : S = {x}
      BY <1>2
    <2> QED
      BY <2>1, FS_Singleton
  <1> QED
    BY <1>1, <1>2

(* Whatever is read for whichever query, a cone NAT shows one port and two *)
(* answers of a symmetric one are two ports.                               *)
LEMMA DetectedType ==
    ASSUME IInv, NEW m \in Managers, NEW reads \in Detections
    PROVE  Detected(m, reads).type \in {"unknown", nat[m]}
  <1> DEFINE answers == Answers(reads)
             ports == [i \in answers |-> StunPort(m, reads[i])]
  <1>1. PICK k \in 0 .. StunServers : reads \in [1 .. k -> 0 .. k]
    BY DEF Detections
  <1>2. k \in Nat
    BY <1>1, PathAssumption
  <1>3. /\ \A i \in answers : reads[i] \in Nat \ {0}
        /\ \A i, j \in answers : i # j => reads[i] # reads[j]
    BY <1>1, <1>2 DEF Detections, Answers
  <1>4. IsFiniteSet(answers)
    <2>1. IsFiniteSet(1 .. k) /\ answers \subseteq 1 .. k
      BY <1>1, <1>2, FS_Interval DEF Answers
    <2> QED
      BY <2>1, FS_Subset
  <1>5. Detected(m, reads).type = Classify(ports)
    BY DEF Detected
  <1>6. nat[m] \in Kinds
    BY DEF IInv, TypeOK
  <1> HIDE DEF answers
  <1>7. CASE nat[m] = "cone"
    <2>1. AllEqual(ports)
      BY <1>7 DEF AllEqual, StunPort
    <2> QED
      BY <1>5, <1>7, <2>1 DEF Classify
  <1>8. CASE nat[m] = "symmetric" /\ ~(Cardinality(answers) < 2)
    <2>1. PICK i, j \in answers : i # j
      BY <1>4, <1>8, TwoMembers
    <2>2. BasePort \in Nat /\ Step \in Nat \ {0}
      BY PathAssumption, PortFacts
    <2>3. \A x, y \in Nat \ {0} : Step * (x - 1) = Step * (y - 1) => x = y
      BY <2>2
    <2>4. reads[i] \in Nat \ {0} /\ reads[j] \in Nat \ {0} /\ reads[i] # reads[j]
      BY <1>3, <2>1
    <2>5. Step * (reads[i] - 1) # Step * (reads[j] - 1)
      BY <2>3, <2>4
    <2>6. Step * (reads[i] - 1) \in Nat /\ Step * (reads[j] - 1) \in Nat
      BY <2>2, <2>4
    <2>7. ports[i] # ports[j]
      <3>1. /\ ports[i] = BasePort + Step * (reads[i] - 1)
            /\ ports[j] = BasePort + Step * (reads[j] - 1)
        BY <1>8, <2>1 DEF StunPort
      <3> HIDE DEF ports
      <3> QED
        BY <2>2, <2>5, <2>6, <3>1
    <2>8. ~AllEqual(ports)
      BY <2>1, <2>7 DEF AllEqual
    <2> QED
      BY <1>5, <1>8, <2>8 DEF Classify
  <1>9. CASE Cardinality(answers) < 2
    BY <1>5, <1>9 DEF Classify
  <1> QED
    BY <1>6, <1>7, <1>8, <1>9 DEF Kinds

LEMMA TypeStaysRight == IInv /\ TypeIsRight /\ [Next]_vars => TypeIsRight'
  <1> SUFFICES ASSUME IInv, TypeIsRight, [Next]_vars, NEW m \in Managers,
                      info'[m] # NoInfo, info'[m].type # "unknown"
               PROVE  info'[m].type = nat'[m]
    BY DEF TypeIsRight
  <1>1. nat' = nat
    BY DEF Next, vars, NewManager, WriteDeadline, AddPeer, Probe, Established, GiveUp,
           handleProbe, SendPacket, Close
  <1>2. CASE \E n \in Managers : NewManager(n)
    <2>1. PICK n \in Managers : NewManager(n)
      BY <1>2
    <2>2. PICK reads \in Detections : info' = [info EXCEPT ![n] = Detected(n, reads)]
      BY <2>1 DEF NewManager
    <2>3. CASE m = n
      <3>1. info'[m] = Detected(m, reads)
        BY <2>2, <2>3 DEF IInv, TypeOK
      <3> QED
        BY <1>1, <3>1, DetectedType
    <2>4. CASE m # n
      <3>1. info'[m] = info[m]
        BY <2>2, <2>4 DEF IInv, TypeOK
      <3> QED
        BY <1>1, <3>1 DEF TypeIsRight
    <2> QED
      BY <2>3, <2>4
  <1>3. CASE info' = info
    BY <1>1, <1>3 DEF TypeIsRight
  <1>4. info' = info \/ \E n \in Managers : NewManager(n)
    BY DEF Next, vars, WriteDeadline, AddPeer, Probe, Established, GiveUp,
           handleProbe, SendPacket, Close
  <1> QED
    BY <1>2, <1>3, <1>4

-----------------------------------------------------------------------------
(* The other steps.                                                        *)

LEMMA AddPeerStep ==
    ASSUME IInv, NEW m \in Managers, AddPeer(m)
    PROVE  IInv'
  <1> DEFINE new == [addr |-> info[Other(m)].port,
                     candidates |-> CandidatesOf(info[Other(m)]), active |-> FALSE]
  <1>1. info[Other(m)] \in Infos
    BY OtherIsManager DEF AddPeer, IInv, TypeOK
  <1>2. new \in LinkRecords
    BY <1>1, CandidatesArePorts DEF LinkRecords, Infos
  <1>3. link' = [link EXCEPT ![m] = new] /\ new.active = FALSE
    BY DEF AddPeer
  <1> HIDE DEF new
  <1>4. TypeOK'
    BY <1>2, <1>3 DEF AddPeer, IInv, TypeOK
  <1>5. ProbesAreMapped'
    BY DEF AddPeer, IInv, ProbesAreMapped
  <1>6. UpReachesOther'
    <2> SUFFICES ASSUME NEW n \in Managers, Up(n)'
                 PROVE  /\ mapping[n][link'[n].addr] # Nowhere
                        /\ mapping[Other(n)][mapping[n][link'[n].addr]] = link'[n].addr
      BY DEF UpReachesOther, AddPeer
    <2>1. n # m
      BY <1>3 DEF Up, IInv, TypeOK
    <2>2. link'[n] = link[n]
      BY <1>3, <2>1 DEF IInv, TypeOK
    <2> QED
      BY <2>2 DEF Up, IInv, UpReachesOther
  <1>7. PunchesForLink' /\ UpAtPort'
    BY <1>2, <1>3 DEF AddPeer, IInv, TypeOK, PunchesForLink, UpAtPort, Up
  <1> QED
    BY <1>4, <1>5, <1>6, <1>7 DEF IInv

LEMMA ProbeStep ==
    ASSUME IInv, NEW m \in Managers, Probe(m)
    PROVE  IInv'
  <1> DEFINE dests == link[m].candidates
             table == Mapped(m, dests)
             new == {p \in Unmapped(m, dests) : table[p] # Nowhere}
             sent == {[from |-> m, src |-> table[p], dst |-> p] :
                         p \in {q \in dests : table[q] # Nowhere}}
  <1>1. dests \in SUBSET Ports
    BY DEF Probe, IInv, PunchesForLink, LinkRecords
  <1>2. /\ mapping' = [mapping EXCEPT ![m] = table]
        /\ next' = [next EXCEPT ![m] =
                        IF nat[m] = "cone" THEN @ ELSE @ + Step * Cardinality(new)]
        /\ probes' = probes \cup sent
        /\ UNCHANGED <<nat, info, link, punching, writable, closed, path>>
    BY DEF Probe
  <1>3. /\ table \in [Ports -> Ports \cup {Nowhere}]
        /\ \A p \in Ports : mapping[m][p] # Nowhere => table[p] = mapping[m][p]
    BY <1>1, MappedKeeps DEF IInv
  <1>4. Cardinality(new) \in Nat
    <2>1. new \subseteq Ports
      BY <1>1 DEF Unmapped
    <2> HIDE DEF new
    <2> QED
      BY <2>1, PortFacts, FS_Subset, FS_CardinalityType
  <1>5. \A pkt \in sent : /\ pkt \in [from : Managers, src : Ports, dst : Ports]
                          /\ pkt.from = m /\ table[pkt.dst] = pkt.src
    BY <1>1, <1>3
  <1> HIDE DEF dests, table, new, sent
  <1>6. TypeOK'
    <2>1. next' \in [Managers -> Nat]
      <3>1. Step * Cardinality(new) \in Nat
        BY <1>4, PathAssumption
      <3>2. next[m] \in Nat /\ next[m] + Step * Cardinality(new) \in Nat
        BY <3>1 DEF IInv, TypeOK
      <3> QED
        BY <1>2, <3>2 DEF IInv, TypeOK
    <2>2. mapping' \in [Managers -> [Ports -> Ports \cup {Nowhere}]]
      BY <1>2, <1>3 DEF IInv, TypeOK
    <2>3. probes' \subseteq [from : Managers, src : Ports, dst : Ports]
      BY <1>2, <1>5 DEF IInv, TypeOK
    <2> QED
      BY <1>2, <2>1, <2>2, <2>3 DEF IInv, TypeOK
  <1>7. ASSUME NEW n \in Managers, NEW p \in Ports, mapping[n][p] # Nowhere
        PROVE  mapping'[n][p] = mapping[n][p]
    BY <1>2, <1>3, <1>7 DEF IInv, TypeOK
  <1>8. ProbesAreMapped'
    <2> SUFFICES ASSUME NEW pkt \in probes'
                 PROVE  mapping'[pkt.from][pkt.dst] = pkt.src
      BY DEF ProbesAreMapped
    <2>1. CASE pkt \in probes
      <3>1. mapping[pkt.from][pkt.dst] = pkt.src
        BY <2>1 DEF IInv, ProbesAreMapped
      <3>2. pkt.from \in Managers /\ pkt.dst \in Ports /\ pkt.src # Nowhere
        BY <2>1, PortFacts DEF IInv, TypeOK
      <3> QED
        BY <1>7, <3>1, <3>2
    <2>2. CASE pkt \in sent
      BY <1>2, <1>5, <2>2 DEF IInv, TypeOK
    <2> QED
      BY <1>2, <2>1, <2>2
  <1>9. UpReachesOther'
    <2> SUFFICES ASSUME NEW n \in Managers, Up(n)'
                 PROVE  /\ mapping'[n][link'[n].addr] # Nowhere
                        /\ mapping'[Other(n)][mapping'[n][link'[n].addr]] = link'[n].addr
      BY DEF UpReachesOther
    <2>1. Up(n) /\ link'[n] = link[n] /\ link[n].addr \in Ports
      BY <1>2 DEF Up, IInv, UpAtPort
    <2>2. /\ mapping[n][link[n].addr] # Nowhere
          /\ mapping[Other(n)][mapping[n][link[n].addr]] = link[n].addr
          /\ mapping[n][link[n].addr] \in Ports
      BY <2>1 DEF IInv, TypeOK, UpReachesOther
    <2>3. link[n].addr # Nowhere
      BY <2>1, PortFacts
    <2> QED
      BY <1>7, <2>1, <2>2, <2>3, OtherIsManager
  <1>10. PunchesForLink' /\ UpAtPort'
    BY <1>2 DEF IInv, PunchesForLink, UpAtPort, Up
  <1> QED
    BY <1>6, <1>8, <1>9, <1>10 DEF IInv
LEMMA HandleProbeStep ==
    ASSUME IInv, NEW m \in Managers, handleProbe(m)
    PROVE  IInv'
  <1>1. PICK pkt \in probes :
            /\ Passes(pkt, m)
            /\ link' = [link EXCEPT ![m].addr = pkt.src, ![m].active = TRUE]
    BY DEF handleProbe
  <1>2. /\ link[m] \in LinkRecords
        /\ UNCHANGED <<nat, info, mapping, next, punching, probes, writable, closed, path>>
    BY DEF handleProbe, IInv, TypeOK
  <1>3. pkt \in [from : Managers, src : Ports, dst : Ports]
    BY DEF IInv, TypeOK
  <1>4. /\ link'[m] = [link[m] EXCEPT !.addr = pkt.src, !.active = TRUE]
        /\ link'[m] \in LinkRecords /\ link'[m].addr = pkt.src
    BY <1>1, <1>2, <1>3 DEF IInv, TypeOK, LinkRecords
  <1>5. \A n \in Managers : n # m => link'[n] = link[n]
    BY <1>1 DEF IInv, TypeOK
  <1>6. TypeOK'
    <2>1. link' \in [Managers -> LinkRecords \cup {NoLink}]
      BY <1>1, <1>4, <1>5 DEF IInv, TypeOK
    <2> QED
      BY <1>2, <2>1 DEF IInv, TypeOK
  <1>7. /\ mapping[m][pkt.src] = pkt.dst
        /\ mapping[Other(m)][pkt.dst] = pkt.src
    BY <1>1 DEF Passes, IInv, ProbesAreMapped
  <1>8. UpReachesOther'
    <2> SUFFICES ASSUME NEW n \in Managers, Up(n)'
                 PROVE  /\ mapping[n][link'[n].addr] # Nowhere
                        /\ mapping[Other(n)][mapping[n][link'[n].addr]] = link'[n].addr
      BY <1>2 DEF UpReachesOther
    <2>1. CASE n = m
      BY <1>3, <1>4, <1>7, <2>1, PortFacts
    <2>2. CASE n # m
      BY <1>5, <2>2 DEF Up, IInv, UpReachesOther
    <2> QED
      BY <2>1, <2>2
  <1>9. PunchesForLink' /\ UpAtPort' /\ ProbesAreMapped'
    BY <1>2, <1>3, <1>4, <1>5 DEF IInv, PunchesForLink, UpAtPort, Up, ProbesAreMapped
  <1> QED
    BY <1>6, <1>8, <1>9 DEF IInv

(* The steps that touch neither tables nor probes nor links.               *)
LEMMA OtherSteps ==
    ASSUME IInv, NEW m \in Managers,
           \/ WriteDeadline(m) \/ Established(m) \/ GiveUp(m)
           \/ SendPacket(m) \/ Close(m)
    PROVE  IInv'
  <1>1. UNCHANGED <<nat, info, mapping, next, link, probes>>
    BY DEF WriteDeadline, Established, GiveUp, SendPacket, Close
  <1>2. /\ writable' \in [Managers -> BOOLEAN] /\ closed' \in [Managers -> BOOLEAN]
        /\ punching' \in [Managers -> BOOLEAN]
        /\ \A n \in Managers : punching'[n] => punching[n]
    BY DEF WriteDeadline, Established, GiveUp, SendPacket, Close, IInv, TypeOK
  <1>3. path' \in [Managers -> {"none", "direct", "relay"}]
    BY DEF WriteDeadline, Established, GiveUp, SendPacket, Close, IInv, TypeOK
  <1>4. TypeOK' /\ PunchesForLink'
    BY <1>1, <1>2, <1>3 DEF IInv, TypeOK, PunchesForLink
  <1> QED
    BY <1>1, <1>4, QuietStep DEF IInv

LEMMA StepKeeps == IInv /\ [Next]_vars => IInv'
  <1> SUFFICES ASSUME IInv, [Next]_vars PROVE IInv'
    OBVIOUS
  <1>1. CASE UNCHANGED vars
    BY <1>1, QuietStep DEF vars, IInv, TypeOK, PunchesForLink
  <1>2. CASE Next
    <2>1. PICK m \in Managers :
              \/ NewManager(m) \/ WriteDeadline(m) \/ AddPeer(m) \/ Probe(m)
              \/ Established(m) \/ GiveUp(m) \/ handleProbe(m) \/ SendPacket(m) \/ Close(m)
      BY <1>2 DEF Next
    <2> QED
      BY <2>1, NewManagerStep, AddPeerStep, ProbeStep, HandleProbeStep, OtherSteps
  <1> QED
    BY <1>1, <1>2

LEMMA Inductive == Spec => []IInv
  <1> QED
    BY InitHolds, StepKeeps, PTL DEF Spec

-----------------------------------------------------------------------------
(* The variables keep their types: whatever a NAT counts to, no entry of   *)
(* its table and no candidate lies outside the ports.                      *)
THEOREM PathsTyped == Spec => []TypeOK
  <1>1. IInv => TypeOK
    BY DEF IInv
  <1> QED
    BY <1>1, Inductive, PTL

(* What goes over a link that is up passes the NATs at both ends, whether  *)
(* or not this side's own probes ever arrived (handleProbe, p2p.go:477).   *)
THEOREM UpLinksReach == Spec => []UpReachesOther
  <1>1. IInv => UpReachesOther
    BY DEF IInv
  <1> QED
    BY <1>1, Inductive, PTL

(* A NAT is never taken for one of the other kind (stun.go:281-293), for   *)
(* any number of servers, however their answers are lost, late or read for *)
(* those of others.                                                        *)
THEOREM NatsAreRecognised == Spec => []TypeIsRight
  <1>1. Init => TypeIsRight
    BY DEF Init, TypeIsRight
  <1> QED
    BY <1>1, Inductive, TypeStaysRight, PTL DEF Spec

-----------------------------------------------------------------------------
(* Signalling.  What is waiting, to be received, to be done or on the way  *)
(* to the server, is a sequence of which only the members matter.          *)
In(s) == {s[i] : i \in DOMAIN s}

LEMMA InNothing == In(<<>>) = {}
  BY DEF In

LEMMA InAppended ==
    ASSUME NEW S, NEW s \in Seq(S), NEW e \in S
    PROVE  Append(s, e) \in Seq(S) /\ In(Append(s, e)) = In(s) \cup {e}
  <1>1. /\ Append(s, e) \in Seq(S) /\ Len(Append(s, e)) = Len(s) + 1
        /\ \A i \in 1..Len(s) : Append(s, e)[i] = s[i]
        /\ Append(s, e)[Len(s) + 1] = e
    OBVIOUS
  <1>2. Len(s) \in Nat /\ DOMAIN s = 1..Len(s) /\ DOMAIN Append(s, e) = 1..(Len(s) + 1)
    BY <1>1
  <1>3. 1..(Len(s) + 1) = 1..Len(s) \cup {Len(s) + 1}
    BY <1>2
  <1> QED
    BY <1>1, <1>2, <1>3 DEF In

LEMMA InOne ==
    ASSUME NEW S, NEW e \in S
    PROVE  <<e>> \in Seq(S) /\ In(<<e>>) = {e}
  <1>1. /\ <<e>> \in Seq(S) /\ DOMAIN <<e>> = {1} /\ <<e>>[1] = e
    OBVIOUS
  <1> QED
    BY <1>1 DEF In

LEMMA InTaken ==
    ASSUME NEW S, NEW s \in Seq(S), s # <<>>
    PROVE  /\ Tail(s) \in Seq(S) /\ Head(s) \in S
           /\ In(s) = {Head(s)} \cup In(Tail(s))
  <1>1. /\ Tail(s) \in Seq(S) /\ Head(s) \in S /\ Head(s) = s[1]
        /\ Len(s) \in Nat /\ Len(s) > 0 /\ Len(Tail(s)) = Len(s) - 1
        /\ DOMAIN s = 1..Len(s) /\ DOMAIN Tail(s) = 1..(Len(s) - 1)
        /\ \A i \in 1..(Len(s) - 1) : Tail(s)[i] = s[i + 1]
    OBVIOUS
  <1>2. \A i \in 1..Len(s) : i = 1 \/ (i - 1 \in 1..(Len(s) - 1) /\ s[i] = Tail(s)[i - 1])
    BY <1>1
  <1>3. \A i \in 1..(Len(s) - 1) : i + 1 \in 1..Len(s) /\ Tail(s)[i] = s[i + 1]
    BY <1>1
  <1>4. 1 \in 1..Len(s)
    BY <1>1
  <1>5. ASSUME NEW i \in 1..Len(s)
        PROVE  s[i] \in {Head(s)} \cup In(Tail(s))
    <2>1. CASE i = 1
      BY <1>1, <2>1
    <2>2. CASE i - 1 \in 1..(Len(s) - 1) /\ s[i] = Tail(s)[i - 1]
      BY <1>1, <2>2 DEF In
    <2> QED
      BY <1>2, <2>1, <2>2
  <1>6. {Head(s)} \cup In(Tail(s)) \subseteq In(s)
    BY <1>1, <1>3, <1>4 DEF In
  <1> QED
    BY <1>1, <1>5, <1>6 DEF In

LEMMA InJoined ==
    ASSUME NEW S, NEW s \in Seq(S), NEW t \in Seq(S)
    PROVE  s \o t \in Seq(S) /\ In(s \o t) = In(s) \cup In(t)
  <1>1. /\ s \o t \in Seq(S) /\ Len(s) \in Nat /\ Len(t) \in Nat
        /\ Len(s \o t) = Len(s) + Len(t)
        /\ DOMAIN s = 1..Len(s) /\ DOMAIN t = 1..Len(t) /\ DOMAIN (s \o t) = 1..(Len(s) + Len(t))
        /\ \A i \in 1..(Len(s) + Len(t)) :
              (s \o t)[i] = IF i <= Len(s) THEN s[i] ELSE t[i - Len(s)]
    OBVIOUS
  <1>2. \A i \in 1..Len(s) : i \in 1..(Len(s) + Len(t)) /\ (s \o t)[i] = s[i]
    BY <1>1
  <1>3. \A i \in 1..Len(t) :
           i + Len(s) \in 1..(Len(s) + Len(t)) /\ (s \o t)[i + Len(s)] = t[i]
    BY <1>1
  <1>4. \A i \in 1..(Len(s) + Len(t)) :
           \/ i \in 1..Len(s) /\ (s \o t)[i] = s[i]
           \/ i - Len(s) \in 1..Len(t) /\ (s \o t)[i] = t[i - Len(s)]
    BY <1>1
  <1>5. In(s \o t) \subseteq In(s) \cup In(t)
    BY <1>1, <1>4 DEF In
  <1>6. \A i \in 1..Len(s) : s[i] \in In(s \o t)
    BY <1>1, <1>2 DEF In
  <1>7. \A i \in 1..Len(t) : t[i] \in In(s \o t)
    BY <1>1, <1>3 DEF In
  <1>8. In(s) \subseteq In(s \o t) /\ In(t) \subseteq In(s \o t)
    BY <1>1, <1>6, <1>7 DEF In
  <1> QED
    BY <1>1, <1>5, <1>8

(* An order in which a set is gone through contains all of it.             *)
LEMMA OrderIsComplete ==
    ASSUME NEW S, IsFiniteSet(S), NEW s \in Signals!SetToSeqs(S)
    PROVE  s \in Seq(S) /\ In(s) = S
  <1> DEFINE n == Cardinality(S)
  <1>1. n \in Nat
    BY FS_CardinalityType
  <1>2. Signals!Cardinality(S) = n
    BY DEF Signals!Cardinality, Cardinality
  <1>3. s \in [1..n -> S] /\ \A i, j \in 1..n : i # j => s[i] # s[j]
    BY <1>2 DEF Signals!SetToSeqs, Signals!IsInjective
  <1>4. s \in Seq(S)
    BY <1>1, <1>3, SeqDef
  <1>5. IsFiniteSet(1..n) /\ Cardinality(1..n) = n
    BY <1>1, FS_Interval
  <1>6. s \in Injection(1..n, S)
    BY <1>3 DEF Injection, IsInjective
  <1>7. s \in Surjection(1..n, S)
    BY <1>5, <1>6, FS_Injection
  <1> QED
    BY <1>3, <1>4, <1>7 DEF In, Surjection

-----------------------------------------------------------------------------
(* What the parts of the actions do to what is waiting, and to the links.  *)
LinkTables ==
    [Clients -> [Vips ->
        [state : {"punching", "given up", "active"}, addr : Clients] \cup {Unlinked}]]

LEMMA MessageTypes ==
    ASSUME NEW v \in Vips \cup {None}, NEW a \in Clients \cup {None},
           NEW type \in {"PunchReq", "Offer", "Answer", "PunchResp", "Leave"}
    PROVE  /\ Signals!Msg(type, v, a) \in Signals!Messages
           /\ Signals!Msg(type, v, a).type = type
           /\ Signals!Msg(type, v, a).vip = v /\ Signals!Msg(type, v, a).addr = a
  BY DEF Signals!Msg, Signals!Messages, Signals!Addresses, Signals!Vips, Vips

LEMMA UpdateTypes ==
    ASSUME NEW vips \in SUBSET Vips
    PROVE  Signals!Update(vips) \in Signals!Messages /\ Signals!Update(vips).type = "PeerUpdate"
  BY DEF Signals!Update, Signals!Messages, Signals!Vips, Vips

LEMMA TaskTypes ==
    ASSUME NEW c \in Clients, NEW m \in Signals!Messages
    PROVE  /\ Signals!Write(c, m) \in Signals!Tasks
           /\ Signals!Write(c, m).do = "write"
           /\ Signals!Write(c, m).to = c /\ Signals!Write(c, m).msg = m
           /\ [do |-> "remove"] \in Signals!Tasks /\ [do |-> "broadcast"] \in Signals!Tasks
           /\ [do |-> "describe", peer |-> c] \in Signals!Tasks
  BY DEF Signals!Write, Signals!Tasks

LEMMA MessageFields ==
    ASSUME NEW m \in Signals!Messages, m.type # "PeerUpdate"
    PROVE  m.vip \in Vips \cup {None} /\ m.addr \in Clients \cup {None}
  BY DEF Signals!Messages, Signals!Addresses, Signals!Vips, Vips

LEMMA TaskFields ==
    ASSUME NEW w \in Signals!Tasks
    PROVE  /\ w.do = "write" => w.to \in Clients /\ w.msg \in Signals!Messages
           /\ w.do = "describe" => w.peer \in Clients
           /\ w.do \in {"write", "remove", "broadcast", "describe"}
  BY DEF Signals!Tasks

LEMMA InTypes ==
    ASSUME Signals!TypeOK, NEW c \in Clients
    PROVE  /\ up[c] \in Seq(Signals!Messages) /\ down[c] \in Seq(Signals!Messages)
           /\ todo[c] \in Seq(Signals!Tasks)
           /\ In(up[c]) \subseteq Signals!Messages /\ In(down[c]) \subseteq Signals!Messages
           /\ In(todo[c]) \subseteq Signals!Tasks
  <1>1. /\ up[c] \in Seq(Signals!Messages) /\ down[c] \in Seq(Signals!Messages)
        /\ todo[c] \in Seq(Signals!Tasks)
    BY DEF Signals!TypeOK
  <1>2. \A S, s : s \in Seq(S) => In(s) \subseteq S
    BY DEF In
  <1> QED
    BY <1>1, <1>2

LEMMA SendEffect ==
    ASSUME Signals!TypeOK, NEW c \in Clients, NEW m \in Signals!Messages, Signals!Send(c, m)
    PROVE  /\ down' \in [Clients -> Seq(Signals!Messages)]
           /\ \A d \in Clients : d # c => down'[d] = down[d]
           /\ In(down'[c]) \subseteq In(down[c]) \cup {m}
           /\ In(down[c]) \subseteq In(down'[c])
           /\ stage[c] # "left" => m \in In(down'[c])
  <1>1. /\ down \in [Clients -> Seq(Signals!Messages)] /\ down[c] \in Seq(Signals!Messages)
    BY DEF Signals!TypeOK
  <1>2. /\ Append(down[c], m) \in Seq(Signals!Messages)
        /\ In(Append(down[c], m)) = In(down[c]) \cup {m}
    BY <1>1, InAppended
  <1>3. CASE stage[c] = "left"
    BY <1>1, <1>3 DEF Signals!Send
  <1>4. CASE stage[c] # "left"
    <2>1. down' = [down EXCEPT ![c] = Append(down[c], m)]
      BY <1>4 DEF Signals!Send
    <2> QED
      BY <1>1, <1>2, <2>1
  <1> QED
    BY <1>3, <1>4

(* What is taken from one of a family of queues.                           *)
LEMMA QueueTaken ==
    ASSUME NEW S, NEW q \in [Clients -> Seq(S)], NEW c \in Clients, q[c] # <<>>
    PROVE  /\ [q EXCEPT ![c] = Tail(@)] \in [Clients -> Seq(S)]
           /\ [q EXCEPT ![c] = Tail(@)][c] = Tail(q[c])
           /\ \A d \in Clients : d # c => [q EXCEPT ![c] = Tail(@)][d] = q[d]
           /\ Head(q[c]) \in S /\ Tail(q[c]) \in Seq(S)
           /\ In(q[c]) = {Head(q[c])} \cup In(Tail(q[c]))
  <1>1. q[c] \in Seq(S)
    OBVIOUS
  <1>2. /\ Tail(q[c]) \in Seq(S) /\ Head(q[c]) \in S
        /\ In(q[c]) = {Head(q[c])} \cup In(Tail(q[c]))
    BY <1>1, InTaken
  <1> QED
    BY <1>2

LEMMA TakesEffect ==
    ASSUME Signals!TypeOK, NEW c \in Clients, NEW type, Signals!Takes(c, type)
    PROVE  /\ todo[c] = <<>> /\ up[c] # <<>>
           /\ up' \in [Clients -> Seq(Signals!Messages)]
           /\ \A d \in Clients : d # c => up'[d] = up[d]
           /\ In(up[c]) = {Head(up[c])} \cup In(up'[c])
           /\ Head(up[c]) \in Signals!Messages /\ Head(up[c]).type = type
           /\ UNCHANGED <<members, stage, manager, links>>
  <1>1. /\ todo[c] = <<>> /\ up[c] # <<>> /\ Head(up[c]).type = type
        /\ up' = [up EXCEPT ![c] = Tail(@)]
        /\ UNCHANGED <<members, stage, manager, links>>
    BY DEF Signals!Takes, Signals!client
  <1>2. up \in [Clients -> Seq(Signals!Messages)]
    BY DEF Signals!TypeOK
  <1> QED
    BY <1>1, <1>2, QueueTaken

LEMMA ReceivesEffect ==
    ASSUME Signals!TypeOK, NEW c \in Clients, NEW type, Signals!Receives(c, type)
    PROVE  /\ stage[c] = "in"
           /\ down' \in [Clients -> Seq(Signals!Messages)]
           /\ \A d \in Clients : d # c => down'[d] = down[d]
           /\ In(down[c]) = {Head(down[c])} \cup In(down'[c])
           /\ Head(down[c]) \in Signals!Messages /\ Head(down[c]).type = type
           /\ UNCHANGED <<virtualIP, udpAddr, members, todo, stage, manager>>
  <1>1. /\ stage[c] = "in" /\ down[c] # <<>> /\ Head(down[c]).type = type
        /\ down' = [down EXCEPT ![c] = Tail(@)]
        /\ UNCHANGED <<virtualIP, udpAddr, members, todo, stage, manager>>
    BY DEF Signals!Receives, Signals!server
  <1>2. down \in [Clients -> Seq(Signals!Messages)]
    BY DEF Signals!TypeOK
  <1> QED
    BY <1>1, <1>2, QueueTaken

(* A task is done and nothing is added.                                    *)
LEMMA DoneEffect ==
    ASSUME Signals!TypeOK, NEW c \in Clients, NEW what, Signals!Does(c, what)
    PROVE  /\ Head(todo[c]) \in Signals!Tasks /\ Head(todo[c]).do = what
           /\ Tail(todo[c]) \in Seq(Signals!Tasks)
           /\ In(todo[c]) = {Head(todo[c])} \cup In(Tail(todo[c]))
           /\ [todo EXCEPT ![c] = Tail(@)] \in [Clients -> Seq(Signals!Tasks)]
           /\ [todo EXCEPT ![c] = Tail(@)][c] = Tail(todo[c])
           /\ \A d \in Clients : d # c => [todo EXCEPT ![c] = Tail(@)][d] = todo[d]
  <1>1. todo[c] # <<>> /\ Head(todo[c]).do = what
    BY DEF Signals!Does
  <1>2. todo \in [Clients -> Seq(Signals!Tasks)]
    BY DEF Signals!TypeOK
  <1> QED
    BY <1>1, <1>2, QueueTaken

LEMMA AppendedUp ==
    ASSUME Signals!TypeOK, NEW c \in Clients, NEW m \in Signals!Messages,
           up' = [up EXCEPT ![c] = Append(@, m)]
    PROVE  /\ up' \in [Clients -> Seq(Signals!Messages)]
           /\ \A d \in Clients : d # c => up'[d] = up[d]
           /\ In(up'[c]) = In(up[c]) \cup {m}
  <1>1. up \in [Clients -> Seq(Signals!Messages)] /\ up[c] \in Seq(Signals!Messages)
    BY DEF Signals!TypeOK
  <1>2. Append(up[c], m) \in Seq(Signals!Messages) /\ In(Append(up[c], m)) = In(up[c]) \cup {m}
    BY <1>1, InAppended
  <1> QED
    BY <1>1, <1>2

LEMMA LinksTyped == Signals!TypeOK => links \in LinkTables
  BY DEF LinkTables, Signals!TypeOK, Signals!Vips, Vips, Signals!Unlinked, Unlinked

LEMMA AddPeerEffect ==
    ASSUME Signals!TypeOK, NEW c \in Clients, NEW v \in Vips, NEW a \in Clients,
           Signals!AddPeer(c, v, a)
    PROVE  /\ links' \in LinkTables
           /\ links'[c][v].addr = a
              \/ (links'[c][v] = links[c][v] /\ links[c][v] # Unlinked)
           /\ \A d \in Clients, w \in Vips : d # c \/ w # v => links'[d][w] = links[d][w]
  <1>1. links \in LinkTables
    BY LinksTyped
  <1>2. CASE links[c][v].state \in {"punching", "active"}
    <2>1. links' = links
      BY <1>2 DEF Signals!AddPeer
    <2>2. links[c][v] # Unlinked
      BY <1>2 DEF Unlinked
    <2> QED
      BY <1>1, <2>1, <2>2
  <1>3. CASE links[c][v].state \notin {"punching", "active"}
    <2>1. links' = [links EXCEPT ![c][v] = [state |-> "punching", addr |-> a]]
      BY <1>3 DEF Signals!AddPeer
    <2> QED
      BY <1>1, <2>1 DEF LinkTables
  <1> QED
    BY <1>2, <1>3

-----------------------------------------------------------------------------
(* What a client is told fits it: an address together with its virtual IP, *)
(* and never its own.                                                      *)
Fits(m, c) ==
    IF m.type = "PeerUpdate" THEN IsFiniteSet(m.peers)
    ELSE m.vip # None /\ m.addr # None => VipOf[m.addr] = m.vip /\ m.addr # c

FieldsAreOwn == \A c \in Clients : virtualIP[c] \in {VipOf[c], None} /\ udpAddr[c] \in {c, None}

SentAreOwn ==
    \A c \in Clients : \A m \in In(up[c]) :
        /\ m.type \in {"Offer", "Answer"} => m.vip = VipOf[c] /\ m.addr = c
        /\ m.type = "PunchReq" => m.vip # VipOf[c]

ReceivedFit == \A c \in Clients : \A m \in In(down[c]) : Fits(m, c)

TasksFit ==
    \A c \in Clients : \A w \in In(todo[c]) :
        /\ w.do = "write" => Fits(w.msg, w.to)
        /\ w.do = "describe" => w.peer # c

(* A client that has not left is a member with its virtual IP, and nothing *)
(* under way says otherwise.                                               *)
MembersStay ==
    \A c \in Clients :
        /\ stage[c] = "out" => up[c] = <<>>
        /\ stage[c] \in {"joined", "in"} =>
              /\ c \in members /\ virtualIP[c] = VipOf[c]
              /\ \A m \in In(up[c]) : m.type # "Leave"
              /\ \A w \in In(todo[c]) : w.do # "remove"
        /\ manager[c] => stage[c] = "in"

(* The inductive invariant.  Whose address a link has depends on what was  *)
(* received, that on what the server was to write, and that on its fields, *)
(* which are those of a client only as long as it has not left.            *)
SignalInv ==
    /\ Signals!TypeOK /\ IsFiniteSet(members)
    /\ FieldsAreOwn /\ SentAreOwn /\ ReceivedFit /\ TasksFit
    /\ MembersStay /\ AddressesAreTheirs

LEMMA VipsOf == \A c \in Clients : VipOf[c] \in Vips /\ VipOf[c] # None
  BY SignallingAssumption DEF Vips

LEMMA SignalInit == Signals!Init => SignalInv
  <1> SUFFICES ASSUME Signals!Init PROVE SignalInv
    OBVIOUS
  <1>1. /\ virtualIP = [c \in Clients |-> None] /\ udpAddr = [c \in Clients |-> None]
        /\ members = {}
        /\ todo = [c \in Clients |-> <<>>]
        /\ stage = [c \in Clients |-> "out"] /\ manager = [c \in Clients |-> FALSE]
        /\ links = [c \in Clients |-> [v \in Vips |-> Unlinked]]
        /\ up = [c \in Clients |-> <<>>] /\ down = [c \in Clients |-> <<>>]
    BY DEF Signals!Init, Signals!Vips, Vips, Signals!Unlinked, Unlinked
  <1>2. Signals!TypeOK
    BY <1>1 DEF Signals!TypeOK, Signals!Addresses, Signals!Vips, Vips,
       Signals!Unlinked, Unlinked
  <1>3. IsFiniteSet(members)
    BY <1>1, FS_EmptySet
  <1>4. FieldsAreOwn /\ SentAreOwn /\ ReceivedFit /\ TasksFit
    BY <1>1, InNothing DEF FieldsAreOwn, SentAreOwn, ReceivedFit, TasksFit
  <1>5. MembersStay /\ AddressesAreTheirs
    BY <1>1 DEF MembersStay, AddressesAreTheirs
  <1> QED
    BY <1>2, <1>3, <1>4, <1>5 DEF SignalInv

LEMMA JoinEffect ==
    ASSUME SignalInv, NEW c \in Clients, Signals!Join(c)
    PROVE  /\ stage[c] = "out" /\ stage' = [stage EXCEPT ![c] = "joined"]
           /\ virtualIP' = [virtualIP EXCEPT ![c] = VipOf[c]]
           /\ members' = members \cup {c}
           /\ todo' \in [Clients -> Seq(Signals!Tasks)]
           /\ \A d \in Clients : d # c => todo'[d] = todo[d]
           /\ In(todo'[c]) = {[do |-> "broadcast"]}
           /\ UNCHANGED <<udpAddr, manager, links, up, down>>
  <1>1. /\ stage[c] = "out" /\ stage' = [stage EXCEPT ![c] = "joined"]
        /\ virtualIP' = [virtualIP EXCEPT ![c] = VipOf[c]]
        /\ members' = members \cup {c}
        /\ todo' = [todo EXCEPT ![c] = <<[do |-> "broadcast"]>>]
        /\ UNCHANGED <<udpAddr, manager, links, up, down>>
    BY DEF Signals!Join
  <1>2. [do |-> "broadcast"] \in Signals!Tasks
    BY DEF Signals!Tasks
  <1>3. /\ <<[do |-> "broadcast"]>> \in Seq(Signals!Tasks)
        /\ In(<<[do |-> "broadcast"]>>) = {[do |-> "broadcast"]}
    BY <1>2, InOne
  <1>4. todo \in [Clients -> Seq(Signals!Tasks)]
    BY DEF SignalInv, Signals!TypeOK
  <1> QED
    BY <1>1, <1>3, <1>4

LEMMA JoinKeeps ==
    ASSUME SignalInv, NEW c \in Clients, Signals!Join(c)
    PROVE  SignalInv'
  <1>1. /\ stage[c] = "out" /\ stage' = [stage EXCEPT ![c] = "joined"]
        /\ virtualIP' = [virtualIP EXCEPT ![c] = VipOf[c]]
        /\ members' = members \cup {c}
        /\ todo' \in [Clients -> Seq(Signals!Tasks)]
        /\ \A d \in Clients : d # c => todo'[d] = todo[d]
        /\ In(todo'[c]) = {[do |-> "broadcast"]}
        /\ UNCHANGED <<udpAddr, manager, links, up, down>>
    BY JoinEffect
  <1>2. Signals!TypeOK'
    BY <1>1, VipsOf DEF SignalInv, Signals!TypeOK, Signals!Vips, Vips,
       Signals!Unlinked, Unlinked
  <1>3. IsFiniteSet(members')
    BY <1>1, FS_AddElement DEF SignalInv
  <1>4. FieldsAreOwn'
    BY <1>1 DEF SignalInv, FieldsAreOwn, Signals!TypeOK
  <1>5. SentAreOwn' /\ ReceivedFit' /\ AddressesAreTheirs'
    BY <1>1 DEF SignalInv, SentAreOwn, ReceivedFit, AddressesAreTheirs
  <1>6. TasksFit'
    BY <1>1 DEF SignalInv, TasksFit
  <1>7. MembersStay'
    <2>1. up[c] = <<>> /\ ~manager[c]
      BY <1>1 DEF SignalInv, MembersStay
    <2>2. \A d \in Clients : d # c => stage'[d] = stage[d] /\ virtualIP'[d] = virtualIP[d]
      BY <1>1 DEF SignalInv, Signals!TypeOK
    <2>3. stage'[c] = "joined" /\ virtualIP'[c] = VipOf[c] /\ In(up[c]) = {}
      BY <1>1, <2>1, InNothing DEF SignalInv, Signals!TypeOK
    <2>4. ASSUME NEW d \in Clients, d # c
          PROVE  /\ stage'[d] = "out" => up'[d] = <<>>
                 /\ stage'[d] \in {"joined", "in"} =>
                       /\ d \in members' /\ virtualIP'[d] = VipOf[d]
                       /\ \A m \in In(up'[d]) : m.type # "Leave"
                       /\ \A w \in In(todo'[d]) : w.do # "remove"
                 /\ manager'[d] => stage'[d] = "in"
      BY <1>1, <2>2, <2>4 DEF SignalInv, MembersStay
    <2> QED
      BY <1>1, <2>1, <2>3, <2>4 DEF MembersStay
  <1> QED
    BY <1>2, <1>3, <1>4, <1>5, <1>6, <1>7 DEF SignalInv

LEMMA InitP2PEffect ==
    ASSUME SignalInv, NEW c \in Clients, Signals!InitP2P(c)
    PROVE  /\ stage[c] = "joined" /\ stage' = [stage EXCEPT ![c] = "in"]
           /\ up' \in [Clients -> Seq(Signals!Messages)]
           /\ \A d \in Clients : d # c => up'[d] = up[d]
           /\ \/ manager' = manager /\ up' = up
              \/ /\ manager' = [manager EXCEPT ![c] = TRUE]
                 /\ In(up'[c]) = In(up[c]) \cup {Signals!Msg("Offer", VipOf[c], c)}
           /\ UNCHANGED <<virtualIP, udpAddr, members, todo, links, down>>
  <1>1. /\ stage[c] = "joined" /\ stage' = [stage EXCEPT ![c] = "in"]
        /\ \/ /\ manager' = [manager EXCEPT ![c] = TRUE]
              /\ up' = [up EXCEPT ![c] = Append(@, Signals!Msg("Offer", VipOf[c], c))]
           \/ UNCHANGED <<manager, up>>
        /\ UNCHANGED <<virtualIP, udpAddr, members, todo, links, down>>
    BY DEF Signals!InitP2P, Signals!server
  <1>2. Signals!TypeOK /\ up \in [Clients -> Seq(Signals!Messages)]
    BY DEF SignalInv, Signals!TypeOK
  <1>3. CASE UNCHANGED <<manager, up>>
    BY <1>1, <1>2, <1>3
  <1>4. CASE /\ manager' = [manager EXCEPT ![c] = TRUE]
             /\ up' = [up EXCEPT ![c] = Append(@, Signals!Msg("Offer", VipOf[c], c))]
    <2>1. Signals!Msg("Offer", VipOf[c], c) \in Signals!Messages
      BY MessageTypes, VipsOf
    <2> QED
      BY <1>1, <1>2, <1>4, <2>1, AppendedUp
  <1> QED
    BY <1>1, <1>3, <1>4

LEMMA InitP2PKeeps ==
    ASSUME SignalInv, NEW c \in Clients, Signals!InitP2P(c)
    PROVE  SignalInv'
  <1> DEFINE offer == Signals!Msg("Offer", VipOf[c], c)
  <1>0. offer.type = "Offer" /\ offer.vip = VipOf[c] /\ offer.addr = c
    BY MessageTypes, VipsOf
  <1>1. /\ stage[c] = "joined" /\ stage' = [stage EXCEPT ![c] = "in"]
        /\ up' \in [Clients -> Seq(Signals!Messages)]
        /\ \A d \in Clients : d # c => up'[d] = up[d]
        /\ manager' = manager \/ manager' = [manager EXCEPT ![c] = TRUE]
        /\ In(up'[c]) \subseteq In(up[c]) \cup {offer}
        /\ UNCHANGED <<virtualIP, udpAddr, members, todo, links, down>>
    BY InitP2PEffect
  <1> HIDE DEF offer
  <1>2. Signals!TypeOK'
    BY <1>1 DEF SignalInv, Signals!TypeOK
  <1>3. IsFiniteSet(members') /\ FieldsAreOwn' /\ ReceivedFit' /\ AddressesAreTheirs' /\ TasksFit'
    BY <1>1 DEF SignalInv, FieldsAreOwn, ReceivedFit, AddressesAreTheirs, TasksFit
  <1>4. SentAreOwn'
    BY <1>0, <1>1 DEF SignalInv, SentAreOwn
  <1>5. MembersStay'
    <2>1. \A d \in Clients : d # c => stage'[d] = stage[d] /\ manager'[d] = manager[d]
      BY <1>1 DEF SignalInv, Signals!TypeOK
    <2>2. stage'[c] = "in"
      BY <1>1 DEF SignalInv, Signals!TypeOK
    <2>3. \A m \in In(up'[c]) : m.type # "Leave"
      BY <1>0, <1>1 DEF SignalInv, MembersStay
    <2>4. ASSUME NEW d \in Clients, d # c
          PROVE  /\ stage'[d] = "out" => up'[d] = <<>>
                 /\ stage'[d] \in {"joined", "in"} =>
                       /\ d \in members' /\ virtualIP'[d] = VipOf[d]
                       /\ \A m \in In(up'[d]) : m.type # "Leave"
                       /\ \A w \in In(todo'[d]) : w.do # "remove"
                 /\ manager'[d] => stage'[d] = "in"
      BY <1>1, <2>1, <2>4 DEF SignalInv, MembersStay
    <2>5. /\ c \in members' /\ virtualIP'[c] = VipOf[c]
          /\ \A w \in In(todo'[c]) : w.do # "remove"
      BY <1>1 DEF SignalInv, MembersStay
    <2> QED
      BY <2>2, <2>3, <2>4, <2>5 DEF MembersStay
  <1> QED
    BY <1>2, <1>3, <1>4, <1>5 DEF SignalInv

(* It asks only for others.                                                *)
LEMMA HandleUpdateEffect ==
    ASSUME SignalInv, NEW c \in Clients, Signals!HandleUpdate(c)
    PROVE  /\ Signals!Receives(c, "PeerUpdate") /\ UNCHANGED links
           /\ up' \in [Clients -> Seq(Signals!Messages)]
           /\ \A d \in Clients : d # c => up'[d] = up[d]
           /\ In(up[c]) \subseteq In(up'[c])
           /\ \A m \in In(up'[c]) : m \in In(up[c]) \/ (m.type = "PunchReq" /\ m.vip # VipOf[c])
  <1> DEFINE wanted == {v \in Head(down[c]).peers \ {VipOf[c]} : links[c][v].state # "active"}
             asked == IF manager[c] THEN wanted ELSE {}
             Asking(vips) == [i \in DOMAIN vips |-> Signals!Msg("PunchReq", vips[i], None)]
  <1>1. Signals!Receives(c, "PeerUpdate") /\ UNCHANGED links
    BY DEF Signals!HandleUpdate
  <1>2. PICK vips \in Signals!SetToSeqs(asked) : up' = [up EXCEPT ![c] = @ \o Asking(vips)]
    BY DEF Signals!HandleUpdate
  <1>3. /\ Head(down[c]) \in Signals!Messages /\ Head(down[c]).type = "PeerUpdate"
        /\ Head(down[c]) \in In(down[c])
    BY <1>1, ReceivesEffect DEF SignalInv
  <1>4. Head(down[c]).peers \in SUBSET Vips
    BY <1>3 DEF Signals!Messages, Signals!Vips, Vips
  <1>5. IsFiniteSet(Head(down[c]).peers)
    BY <1>3 DEF SignalInv, ReceivedFit, Fits
  <1>6. asked \subseteq Head(down[c]).peers /\ \A v \in asked : v \in Vips /\ v # VipOf[c]
    BY <1>4
  <1>7. IsFiniteSet(asked)
    BY <1>5, <1>6, FS_Subset
  <1> HIDE DEF asked, wanted
  <1>8. vips \in Seq(asked)
    BY <1>2, <1>7, OrderIsComplete
  <1>9. /\ Len(vips) \in Nat /\ DOMAIN vips = 1..Len(vips)
        /\ \A i \in DOMAIN vips : vips[i] \in asked
    BY <1>8
  <1>10. \A i \in DOMAIN vips :
            LET m == Signals!Msg("PunchReq", vips[i], None)
            IN  m \in Signals!Messages /\ m.type = "PunchReq" /\ m.vip # VipOf[c]
    BY <1>6, <1>9, MessageTypes
  <1>11. Asking(vips) \in Seq(Signals!Messages)
    BY <1>9, <1>10, SeqDef
  <1>12. \A m \in In(Asking(vips)) : m.type = "PunchReq" /\ m.vip # VipOf[c]
    BY <1>10 DEF In
  <1>13. up \in [Clients -> Seq(Signals!Messages)] /\ up[c] \in Seq(Signals!Messages)
    BY DEF SignalInv, Signals!TypeOK
  <1> HIDE DEF Asking
  <1>14. /\ up[c] \o Asking(vips) \in Seq(Signals!Messages)
         /\ In(up[c] \o Asking(vips)) = In(up[c]) \cup In(Asking(vips))
    BY <1>11, <1>13, InJoined
  <1>15. /\ up' \in [Clients -> Seq(Signals!Messages)] /\ up'[c] = up[c] \o Asking(vips)
         /\ \A d \in Clients : d # c => up'[d] = up[d]
    BY <1>2, <1>13, <1>14
  <1> QED
    BY <1>1, <1>12, <1>14, <1>15

(* A message is received: what of the invariant does not depend on what it *)
(* was.                                                                    *)
LEMMA ReceivesKeeps ==
    ASSUME SignalInv, NEW c \in Clients, NEW type, Signals!Receives(c, type),
           links' \in LinkTables,
           AddressesAreTheirs',
           up' \in [Clients -> Seq(Signals!Messages)],
           \A d \in Clients : d # c => up'[d] = up[d],
           \A m \in In(up'[c]) :
              \/ m \in In(up[c])
              \/ m.type = "Answer" /\ m.vip = VipOf[c] /\ m.addr = c
              \/ m.type = "PunchReq" /\ m.vip # VipOf[c]
    PROVE  SignalInv'
  <1>1. /\ stage[c] = "in"
        /\ down' \in [Clients -> Seq(Signals!Messages)]
        /\ \A d \in Clients : d # c => down'[d] = down[d]
        /\ In(down'[c]) \subseteq In(down[c])
        /\ UNCHANGED <<virtualIP, udpAddr, members, todo, stage, manager>>
    BY ReceivesEffect DEF SignalInv
  <1>2. Signals!TypeOK'
    BY <1>1 DEF SignalInv, LinkTables, Signals!TypeOK, Signals!Vips, Vips,
       Signals!Unlinked, Unlinked
  <1>3. IsFiniteSet(members') /\ FieldsAreOwn' /\ TasksFit'
    BY <1>1 DEF SignalInv, FieldsAreOwn, TasksFit
  <1>4. SentAreOwn'
    BY DEF SignalInv, SentAreOwn
  <1>5. ReceivedFit'
    BY <1>1 DEF SignalInv, ReceivedFit
  <1>6. MembersStay'
    <2>1. \A m \in In(up'[c]) : m.type # "Leave"
      BY <1>1 DEF SignalInv, MembersStay
    <2> QED
      BY <1>1, <2>1 DEF SignalInv, MembersStay
  <1> QED
    BY <1>2, <1>3, <1>4, <1>5, <1>6 DEF SignalInv

LEMMA HandleUpdateKeeps ==
    ASSUME SignalInv, NEW c \in Clients, Signals!HandleUpdate(c)
    PROVE  SignalInv'
  <1>1. /\ Signals!Receives(c, "PeerUpdate") /\ UNCHANGED links
        /\ up' \in [Clients -> Seq(Signals!Messages)]
        /\ \A d \in Clients : d # c => up'[d] = up[d]
        /\ \A m \in In(up'[c]) : m \in In(up[c]) \/ (m.type = "PunchReq" /\ m.vip # VipOf[c])
    BY HandleUpdateEffect
  <1>2. AddressesAreTheirs'
    BY <1>1 DEF SignalInv, AddressesAreTheirs
  <1>3. links' \in LinkTables
    BY <1>1 DEF SignalInv, LinkTables, Signals!TypeOK, Signals!Vips, Vips,
       Signals!Unlinked, Unlinked
  <1> QED
    BY <1>1, <1>2, <1>3, ReceivesKeeps

(* An offer or an answer is used: the link is for the one it names, and an *)
(* offer is answered.                                                      *)
LEMMA AnswerEffect ==
    ASSUME SignalInv, NEW c \in Clients, Signals!HandleOffer(c) \/ Signals!HandleAnswer(c)
    PROVE  /\ \E type : Signals!Receives(c, type)
           /\ Head(down[c]).type # "PeerUpdate"
           /\ up' \in [Clients -> Seq(Signals!Messages)]
           /\ \A d \in Clients : d # c => up'[d] = up[d]
           /\ \/ up' = up
              \/ In(up'[c]) = In(up[c]) \cup {Signals!Msg("Answer", VipOf[c], c)}
           /\ \/ Signals!Usable(c) /\ Signals!AddPeer(c, Head(down[c]).vip, Head(down[c]).addr)
              \/ ~Signals!Usable(c) /\ links' = links
           /\ Signals!HandleOffer(c) /\ Signals!Usable(c) =>
                 In(up'[c]) = In(up[c]) \cup {Signals!Msg("Answer", VipOf[c], c)}
           /\ Signals!HandleAnswer(c) => up' = up
  <1>1. PICK type \in {"Offer", "Answer", "PunchResp"} : Signals!Receives(c, type)
    BY DEF Signals!HandleOffer, Signals!HandleAnswer
  <1>2. Head(down[c]).type # "PeerUpdate"
    BY <1>1, ReceivesEffect DEF SignalInv
  <1>3. Signals!TypeOK /\ up \in [Clients -> Seq(Signals!Messages)]
    BY DEF SignalInv, Signals!TypeOK
  <1>4. Signals!Msg("Answer", VipOf[c], c) \in Signals!Messages
    BY MessageTypes, VipsOf
  <1>5. \/ Signals!Usable(c) /\ Signals!AddPeer(c, Head(down[c]).vip, Head(down[c]).addr)
        \/ ~Signals!Usable(c) /\ links' = links
    BY DEF Signals!HandleOffer, Signals!HandleAnswer
  <1>6. \/ up' = up
        \/ up' = [up EXCEPT ![c] = Append(@, Signals!Msg("Answer", VipOf[c], c))]
    BY DEF Signals!HandleOffer, Signals!HandleAnswer
  <1>7. /\ Signals!HandleAnswer(c) => up' = up
        /\ Signals!HandleOffer(c) /\ Signals!Usable(c) =>
              up' = [up EXCEPT ![c] = Append(@, Signals!Msg("Answer", VipOf[c], c))]
    BY DEF Signals!HandleOffer, Signals!HandleAnswer
  <1>8. up' = [up EXCEPT ![c] = Append(@, Signals!Msg("Answer", VipOf[c], c))] =>
           /\ up' \in [Clients -> Seq(Signals!Messages)]
           /\ \A d \in Clients : d # c => up'[d] = up[d]
           /\ In(up'[c]) = In(up[c]) \cup {Signals!Msg("Answer", VipOf[c], c)}
    BY <1>3, <1>4, AppendedUp
  <1> QED
    BY <1>1, <1>2, <1>3, <1>5, <1>6, <1>7, <1>8

LEMMA UsableNames ==
    ASSUME SignalInv, NEW c \in Clients, NEW type, Signals!Receives(c, type), Signals!Usable(c),
           Head(down[c]).type # "PeerUpdate"
    PROVE  /\ Head(down[c]).vip \in Vips /\ Head(down[c]).addr \in Clients \ {c}
           /\ VipOf[Head(down[c]).addr] = Head(down[c]).vip
           /\ manager[c]
  <1>1. Head(down[c]) \in Signals!Messages /\ Head(down[c]) \in In(down[c])
    BY ReceivesEffect DEF SignalInv
  <1>2. Fits(Head(down[c]), c)
    BY <1>1 DEF SignalInv, ReceivedFit
  <1>3. manager[c] /\ Head(down[c]).vip # None /\ Head(down[c]).addr # None
    BY DEF Signals!Usable
  <1> QED
    BY <1>1, <1>2, <1>3, MessageFields DEF Fits

LEMMA AnswerKeeps ==
    ASSUME SignalInv, NEW c \in Clients, Signals!HandleOffer(c) \/ Signals!HandleAnswer(c)
    PROVE  SignalInv'
  <1> DEFINE m == Head(down[c])
  <1>1. PICK type : Signals!Receives(c, type)
    BY AnswerEffect
  <1>2. /\ m.type # "PeerUpdate"
        /\ up' \in [Clients -> Seq(Signals!Messages)]
        /\ \A d \in Clients : d # c => up'[d] = up[d]
        /\ \/ up' = up
           \/ In(up'[c]) = In(up[c]) \cup {Signals!Msg("Answer", VipOf[c], c)}
        /\ \/ Signals!Usable(c) /\ Signals!AddPeer(c, m.vip, m.addr)
           \/ ~Signals!Usable(c) /\ links' = links
    BY AnswerEffect
  <1>3. /\ Signals!Msg("Answer", VipOf[c], c).type = "Answer"
        /\ Signals!Msg("Answer", VipOf[c], c).vip = VipOf[c]
        /\ Signals!Msg("Answer", VipOf[c], c).addr = c
    BY MessageTypes, VipsOf
  <1>4. links' \in LinkTables
        /\ AddressesAreTheirs'
    <2>1. CASE links' = links
      BY <2>1 DEF SignalInv, AddressesAreTheirs, LinkTables, Signals!TypeOK,
         Signals!Vips, Vips, Signals!Unlinked, Unlinked
    <2>2. CASE Signals!Usable(c) /\ Signals!AddPeer(c, m.vip, m.addr)
      <3>1. m.vip \in Vips /\ m.addr \in Clients \ {c} /\ VipOf[m.addr] = m.vip
        BY <1>1, <1>2, <2>2, UsableNames
      <3>2. /\ links' \in LinkTables
            /\ links'[c][m.vip].addr = m.addr \/ links'[c][m.vip] = links[c][m.vip]
            /\ \A d \in Clients, w \in Vips : d # c \/ w # m.vip => links'[d][w] = links[d][w]
        BY <2>2, <3>1, AddPeerEffect DEF SignalInv
      <3>3. AddressesAreTheirs
        BY DEF SignalInv
      <3> HIDE DEF m
      <3>4. ASSUME NEW d \in Clients, NEW v \in Vips, links'[d][v] # Unlinked
            PROVE  VipOf[links'[d][v].addr] = v /\ links'[d][v].addr # d
        <4>1. CASE links'[d][v] = links[d][v]
          BY <3>3, <3>4, <4>1 DEF AddressesAreTheirs
        <4>2. CASE d = c /\ v = m.vip /\ links'[d][v].addr = m.addr
          BY <3>1, <4>2
        <4> QED
          BY <3>2, <4>1, <4>2
      <3> QED
        BY <3>2, <3>4 DEF AddressesAreTheirs
    <2> QED
      BY <1>2, <2>1, <2>2
  <1> QED
    BY <1>1, <1>2, <1>3, <1>4, ReceivesKeeps

LEMMA DepartEffect ==
    ASSUME SignalInv, NEW c \in Clients, Signals!Depart(c)
    PROVE  /\ stage' = [stage EXCEPT ![c] = "left"]
           /\ manager' = [manager EXCEPT ![c] = FALSE]
           /\ links' = [links EXCEPT ![c] = [v \in Vips |-> Unlinked]]
           /\ down' = [down EXCEPT ![c] = <<>>]
           /\ up' \in [Clients -> Seq(Signals!Messages)]
           /\ \A d \in Clients : d # c => up'[d] = up[d]
           /\ In(up'[c]) \subseteq In(up[c]) \cup {Signals!Msg("Leave", None, None)}
           /\ UNCHANGED <<virtualIP, udpAddr, members, todo>>
  <1>1. /\ stage' = [stage EXCEPT ![c] = "left"]
        /\ manager' = [manager EXCEPT ![c] = FALSE]
        /\ links' = [links EXCEPT ![c] = [v \in Vips |-> Unlinked]]
        /\ down' = [down EXCEPT ![c] = <<>>]
        /\ UNCHANGED <<virtualIP, udpAddr, members, todo>>
    BY DEF Signals!Depart, Signals!server, Signals!Vips, Vips, Signals!Unlinked,
       Unlinked
  <1>2. PICK arrived \in {up[c], <<>>} :
            up' = [up EXCEPT ![c] = Append(arrived, Signals!Msg("Leave", None, None))]
    BY DEF Signals!Depart
  <1>3. up \in [Clients -> Seq(Signals!Messages)] /\ arrived \in Seq(Signals!Messages)
    <2>1. up \in [Clients -> Seq(Signals!Messages)]
      BY DEF SignalInv, Signals!TypeOK
    <2>2. <<>> \in Seq(Signals!Messages)
      OBVIOUS
    <2> QED
      BY <1>2, <2>1, <2>2
  <1>4. In(arrived) \subseteq In(up[c])
    BY <1>2, InNothing
  <1>5. Signals!Msg("Leave", None, None) \in Signals!Messages
    BY MessageTypes
  <1>6. /\ Append(arrived, Signals!Msg("Leave", None, None)) \in Seq(Signals!Messages)
        /\ In(Append(arrived, Signals!Msg("Leave", None, None)))
              = In(arrived) \cup {Signals!Msg("Leave", None, None)}
    BY <1>3, <1>5, InAppended
  <1> QED
    BY <1>1, <1>2, <1>3, <1>4, <1>6

LEMMA DepartKeeps ==
    ASSUME SignalInv, NEW c \in Clients, Signals!Depart(c)
    PROVE  SignalInv'
  <1> DEFINE bye == Signals!Msg("Leave", None, None)
  <1>0. bye.type = "Leave"
    BY MessageTypes
  <1>1. /\ stage' = [stage EXCEPT ![c] = "left"]
        /\ manager' = [manager EXCEPT ![c] = FALSE]
        /\ links' = [links EXCEPT ![c] = [v \in Vips |-> Unlinked]]
        /\ down' = [down EXCEPT ![c] = <<>>]
        /\ up' \in [Clients -> Seq(Signals!Messages)]
        /\ \A d \in Clients : d # c => up'[d] = up[d]
        /\ In(up'[c]) \subseteq In(up[c]) \cup {bye}
        /\ UNCHANGED <<virtualIP, udpAddr, members, todo>>
    BY DepartEffect
  <1> HIDE DEF bye
  <1>2. Signals!TypeOK'
    <2>1. <<>> \in Seq(Signals!Messages)
      OBVIOUS
    <2>2. down' \in [Clients -> Seq(Signals!Messages)]
      BY <1>1, <2>1 DEF SignalInv, Signals!TypeOK
    <2>3. links' \in [Clients -> [Signals!Vips ->
              [state : {"punching", "given up", "active"}, addr : Clients] \cup {Signals!Unlinked}]]
      BY <1>1 DEF SignalInv, Signals!TypeOK, Signals!Vips, Vips, Signals!Unlinked,
         Unlinked
    <2> QED
      BY <1>1, <2>2, <2>3 DEF SignalInv, Signals!TypeOK
  <1>3. IsFiniteSet(members') /\ FieldsAreOwn' /\ TasksFit'
    BY <1>1 DEF SignalInv, FieldsAreOwn, TasksFit
  <1>4. SentAreOwn'
    BY <1>0, <1>1 DEF SignalInv, SentAreOwn
  <1>5. ReceivedFit'
    BY <1>1, InNothing DEF SignalInv, ReceivedFit, Signals!TypeOK
  <1>6. AddressesAreTheirs'
    <2>1. links \in LinkTables
      BY LinksTyped DEF SignalInv
    <2>2. \A d \in Clients, v \in Vips :
              links'[d][v] = links[d][v] \/ links'[d][v] = Unlinked
      BY <1>1, <2>1
    <2> QED
      BY <2>2 DEF SignalInv, AddressesAreTheirs
  <1>7. MembersStay'
    <2>1. stage'[c] = "left" /\ ~manager'[c]
      BY <1>1 DEF SignalInv, Signals!TypeOK
    <2>2. ASSUME NEW d \in Clients, d # c
          PROVE  /\ stage'[d] = "out" => up'[d] = <<>>
                 /\ stage'[d] \in {"joined", "in"} =>
                       /\ d \in members' /\ virtualIP'[d] = VipOf[d]
                       /\ \A m \in In(up'[d]) : m.type # "Leave"
                       /\ \A w \in In(todo'[d]) : w.do # "remove"
                 /\ manager'[d] => stage'[d] = "in"
      <3>1. stage'[d] = stage[d] /\ manager'[d] = manager[d]
        BY <1>1, <2>2 DEF SignalInv, Signals!TypeOK
      <3> QED
        BY <1>1, <2>2, <3>1 DEF SignalInv, MembersStay
    <2> QED
      BY <2>1, <2>2 DEF MembersStay
  <1> QED
    BY <1>2, <1>3, <1>4, <1>5, <1>6, <1>7 DEF SignalInv

LEMMA EndPunchingKeeps ==
    ASSUME SignalInv, NEW c \in Clients, NEW v \in Vips, NEW result \in Outcomes,
           Signals!EndPunching(c, v, result)
    PROVE  SignalInv' /\ \A d \in Clients, w \in Vips : links'[d][w].addr = links[d][w].addr
  <1>1. /\ links[c][v].state = "punching"
        /\ links' = [links EXCEPT ![c] =
                [links[c] EXCEPT ![v] = [links[c][v] EXCEPT !.state = result]]]
        /\ UNCHANGED <<virtualIP, udpAddr, members, todo, stage, manager, up, down>>
    BY DEF Signals!EndPunching, Signals!server
  <1>2. links \in LinkTables
    BY LinksTyped DEF SignalInv
  <1>3. links[c][v] # Unlinked
    BY <1>1 DEF Unlinked
  <1>4. links[c][v] \in [state : {"punching", "given up", "active"}, addr : Clients]
    BY <1>2, <1>3 DEF LinkTables
  <1>5. /\ [links[c][v] EXCEPT !.state = result]
              \in [state : {"punching", "given up", "active"}, addr : Clients]
        /\ [links[c][v] EXCEPT !.state = result].addr = links[c][v].addr
    BY <1>4, SignallingAssumption
  <1>6. /\ links' \in LinkTables
        /\ \A d \in Clients, w \in Vips :
              /\ links'[d][w].addr = links[d][w].addr
              /\ d # c \/ w # v => links'[d][w] = links[d][w]
    BY <1>1, <1>2, <1>5 DEF LinkTables
  <1>7. Signals!TypeOK'
    BY <1>1, <1>6 DEF SignalInv, LinkTables, Signals!TypeOK, Signals!Vips, Vips,
       Signals!Unlinked, Unlinked
  <1>8. AddressesAreTheirs'
    <2>1. \A d \in Clients, w \in Vips : links'[d][w] # Unlinked => links[d][w] # Unlinked
      BY <1>3, <1>6
    <2>2. ASSUME NEW d \in Clients, NEW w \in Vips, links'[d][w] # Unlinked
          PROVE  VipOf[links'[d][w].addr] = w /\ links'[d][w].addr # d
      <3>1. VipOf[links[d][w].addr] = w /\ links[d][w].addr # d
        BY <2>1, <2>2 DEF SignalInv, AddressesAreTheirs
      <3> QED
        BY <1>6, <3>1
    <2> QED
      BY <2>2 DEF AddressesAreTheirs
  <1>9. /\ IsFiniteSet(members') /\ FieldsAreOwn' /\ TasksFit' /\ SentAreOwn'
        /\ ReceivedFit' /\ MembersStay'
    BY <1>1 DEF SignalInv, FieldsAreOwn, TasksFit, SentAreOwn, ReceivedFit, MembersStay
  <1> QED
    BY <1>6, <1>7, <1>8, <1>9 DEF SignalInv

(* The handler of c does something: what of the invariant follows from     *)
(* what it does to its own fields, tasks and messages.                     *)
LEMMA ServerKeeps ==
    ASSUME SignalInv, NEW c \in Clients, UNCHANGED <<stage, manager, links>>,
           virtualIP' \in [Clients -> Vips \cup {None}],
           \A d \in Clients : d # c => virtualIP'[d] = virtualIP[d],
           virtualIP'[c] = virtualIP[c]
              \/ (virtualIP'[c] = None /\ stage[c] \notin {"joined", "in"}),
           udpAddr' \in [Clients -> Clients \cup {None}],
           \A d \in Clients : d # c => udpAddr'[d] = udpAddr[d],
           udpAddr'[c] \in {udpAddr[c], c},
           members' = members \/ (members' = members \ {c} /\ stage[c] \notin {"joined", "in"}),
           up' \in [Clients -> Seq(Signals!Messages)],
           \A d \in Clients : In(up'[d]) \subseteq In(up[d]) /\ (up[d] = <<>> => up'[d] = <<>>),
           down' \in [Clients -> Seq(Signals!Messages)],
           \A d \in Clients : \A m \in In(down'[d]) : m \in In(down[d]) \/ Fits(m, d),
           todo' \in [Clients -> Seq(Signals!Tasks)],
           \A d \in Clients : d # c => todo'[d] = todo[d],
           \A w \in In(todo'[c]) :
              \/ w \in In(todo[c])
              \/ /\ w.do = "write" => Fits(w.msg, w.to)
                 /\ w.do = "describe" => w.peer # c
                 /\ w.do = "remove" => stage[c] \notin {"joined", "in"}
    PROVE  SignalInv'
  <1>1. Signals!TypeOK'
    BY DEF SignalInv, Signals!TypeOK, Signals!Vips, Vips, Signals!Addresses,
       Signals!Unlinked, Unlinked
  <1>2. IsFiniteSet(members')
    <2>1. IsFiniteSet(members) /\ IsFiniteSet(members \ {c})
      BY FS_RemoveElement DEF SignalInv
    <2> QED
      BY <2>1
  <1>3. FieldsAreOwn'
    <2>1. \A d \in Clients : virtualIP'[d] \in {VipOf[d], None} /\ udpAddr'[d] \in {d, None}
      BY DEF SignalInv, FieldsAreOwn
    <2> QED
      BY <2>1 DEF FieldsAreOwn
  <1>4. SentAreOwn'
    BY DEF SignalInv, SentAreOwn
  <1>5. ReceivedFit'
    BY DEF SignalInv, ReceivedFit
  <1>6. TasksFit'
    <2>1. \A d \in Clients : \A w \in In(todo'[d]) :
              /\ w.do = "write" => Fits(w.msg, w.to)
              /\ w.do = "describe" => w.peer # d
      BY DEF SignalInv, TasksFit
    <2> QED
      BY <2>1 DEF TasksFit
  <1>7. MembersStay'
    <2>1. ASSUME NEW d \in Clients
          PROVE  /\ stage'[d] = "out" => up'[d] = <<>>
                 /\ stage'[d] \in {"joined", "in"} =>
                       /\ d \in members' /\ virtualIP'[d] = VipOf[d]
                       /\ \A m \in In(up'[d]) : m.type # "Leave"
                       /\ \A w \in In(todo'[d]) : w.do # "remove"
                 /\ manager'[d] => stage'[d] = "in"
      BY DEF SignalInv, MembersStay
    <2> QED
      BY <2>1 DEF MembersStay
  <1>8. AddressesAreTheirs'
    BY DEF SignalInv, AddressesAreTheirs
  <1> QED
    BY <1>1, <1>2, <1>3, <1>4, <1>5, <1>6, <1>7, <1>8 DEF SignalInv

LEMMA ServerTypes ==
    ASSUME SignalInv
    PROVE  /\ virtualIP \in [Clients -> Vips \cup {None}]
           /\ udpAddr \in [Clients -> Clients \cup {None}] /\ members \subseteq Clients
           /\ up \in [Clients -> Seq(Signals!Messages)]
           /\ down \in [Clients -> Seq(Signals!Messages)]
           /\ todo \in [Clients -> Seq(Signals!Tasks)]
  BY DEF SignalInv, Signals!TypeOK, Signals!Vips, Vips, Signals!Addresses

LEMMA PunchReqEffect ==
    ASSUME SignalInv, NEW c \in Clients, Signals!HandlePunchReq(c)
    PROVE  /\ Signals!Takes(c, "PunchReq") /\ UNCHANGED <<virtualIP, udpAddr>>
           /\ \/ UNCHANGED <<todo, down>>
              \/ \E target \in members \ {c} :
                    /\ Signals!Send(target, Signals!Msg("Offer", virtualIP[c], udpAddr[c]))
                    /\ todo' \in [Clients -> Seq(Signals!Tasks)]
                    /\ \A d \in Clients : d # c => todo'[d] = todo[d]
                    /\ In(todo'[c]) = {[do |-> "describe", peer |-> target]}
  <1> DEFINE v == Head(up[c]).vip
             target == CHOOSE d \in members : VipOf[d] = v
  <1>1. Signals!Takes(c, "PunchReq") /\ UNCHANGED <<virtualIP, udpAddr>>
    BY DEF Signals!HandlePunchReq
  <1>2. CASE ~\E d \in members : VipOf[d] = v
    BY <1>1, <1>2 DEF Signals!HandlePunchReq
  <1>3. CASE \E d \in members : VipOf[d] = v
    <2>1. target \in members /\ VipOf[target] = v
      BY <1>3
    <2>2. /\ Signals!Send(target, Signals!Msg("Offer", virtualIP[c], udpAddr[c]))
          /\ todo' = [todo EXCEPT ![c] = <<[do |-> "describe", peer |-> target]>>]
      BY <1>3 DEF Signals!HandlePunchReq
    <2>3. Head(up[c]) \in In(up[c]) /\ Head(up[c]).type = "PunchReq"
      BY <1>1, TakesEffect DEF SignalInv
    <2>4. target # c
      BY <2>1, <2>3 DEF SignalInv, SentAreOwn
    <2> HIDE DEF target
    <2>5. target \in Clients
      BY <2>1, ServerTypes
    <2>6. [do |-> "describe", peer |-> target] \in Signals!Tasks
      BY <2>5 DEF Signals!Tasks
    <2>7. /\ <<[do |-> "describe", peer |-> target]>> \in Seq(Signals!Tasks)
          /\ In(<<[do |-> "describe", peer |-> target]>>) = {[do |-> "describe", peer |-> target]}
      BY <2>6, InOne
    <2>8. /\ todo' \in [Clients -> Seq(Signals!Tasks)]
          /\ \A d \in Clients : d # c => todo'[d] = todo[d]
          /\ todo'[c] = <<[do |-> "describe", peer |-> target]>>
      BY <2>2, <2>7, ServerTypes
    <2> QED
      BY <1>1, <2>1, <2>2, <2>4, <2>7, <2>8
  <1> QED
    BY <1>2, <1>3

LEMMA SendFits ==
    ASSUME SignalInv, NEW c \in Clients, NEW m \in Signals!Messages, Fits(m, c), Signals!Send(c, m)
    PROVE  /\ down' \in [Clients -> Seq(Signals!Messages)]
           /\ \A d \in Clients : \A n \in In(down'[d]) : n \in In(down[d]) \/ Fits(n, d)
  <1>1. /\ down' \in [Clients -> Seq(Signals!Messages)]
        /\ \A d \in Clients : d # c => down'[d] = down[d]
        /\ In(down'[c]) \subseteq In(down[c]) \cup {m}
    BY SendEffect DEF SignalInv
  <1>2. \A n \in In(down'[c]) : n \in In(down[c]) \/ Fits(n, c)
    BY <1>1
  <1> QED
    BY <1>1, <1>2

LEMMA PunchReqKeeps ==
    ASSUME SignalInv, NEW c \in Clients, Signals!HandlePunchReq(c)
    PROVE  SignalInv'
  <1> DEFINE offer == Signals!Msg("Offer", virtualIP[c], udpAddr[c])
  <1>1. Signals!Takes(c, "PunchReq") /\ UNCHANGED <<virtualIP, udpAddr>>
    BY PunchReqEffect
  <1>2. /\ up' \in [Clients -> Seq(Signals!Messages)]
        /\ \A d \in Clients : In(up'[d]) \subseteq In(up[d]) /\ (up[d] = <<>> => up'[d] = <<>>)
        /\ UNCHANGED <<members, stage, manager, links>>
    BY <1>1, TakesEffect DEF SignalInv
  <1>3. CASE UNCHANGED <<todo, down>>
    BY <1>1, <1>2, <1>3, ServerKeeps, ServerTypes
  <1>4. ASSUME NEW target \in members \ {c},
               Signals!Send(target, offer),
               todo' \in [Clients -> Seq(Signals!Tasks)],
               \A d \in Clients : d # c => todo'[d] = todo[d],
               In(todo'[c]) = {[do |-> "describe", peer |-> target]}
        PROVE  SignalInv'
    <2>1. target \in Clients /\ target # c
      BY ServerTypes
    <2>2. offer \in Signals!Messages /\ offer.type = "Offer" /\ offer.vip = virtualIP[c]
          /\ offer.addr = udpAddr[c]
      <3>1. virtualIP[c] \in Vips \cup {None} /\ udpAddr[c] \in Clients \cup {None}
        BY ServerTypes
      <3> QED
        BY <3>1, MessageTypes
    <2>3. Fits(offer, target)
      BY <2>1, <2>2 DEF SignalInv, FieldsAreOwn, Fits
    <2> HIDE DEF offer
    <2>4. /\ down' \in [Clients -> Seq(Signals!Messages)]
          /\ \A d \in Clients : \A m \in In(down'[d]) : m \in In(down[d]) \/ Fits(m, d)
      BY <1>4, <2>1, <2>2, <2>3, SendFits
    <2>5. \A w \in In(todo'[c]) :
              /\ w.do = "write" => Fits(w.msg, w.to)
              /\ w.do = "describe" => w.peer # c
              /\ w.do = "remove" => stage[c] \notin {"joined", "in"}
      BY <1>4, <2>1
    <2> QED
      BY <1>1, <1>2, <1>4, <2>4, <2>5, ServerKeeps, ServerTypes
  <1> QED
    BY <1>3, <1>4, PunchReqEffect

(* An offer or an answer goes to every other member, whatever the order.   *)
LEMMA RelayEffect ==
    ASSUME SignalInv, NEW c \in Clients, NEW type \in {"Offer", "Answer"}, Signals!Relay(c, type)
    PROVE  /\ Signals!Takes(c, type) /\ UNCHANGED <<virtualIP, down>>
           /\ udpAddr' = [udpAddr EXCEPT ![c] = c]
           /\ todo' \in [Clients -> Seq(Signals!Tasks)]
           /\ \A d \in Clients : d # c => todo'[d] = todo[d]
           /\ In(todo'[c]) =
                 {Signals!Write(d, Signals!Msg(type, virtualIP[c], c)) : d \in members \ {c}}
  <1> DEFINE m == Signals!Msg(type, virtualIP[c], c)
             Relayed(peers) == [i \in DOMAIN peers |-> Signals!Write(peers[i], m)]
  <1>1. Signals!Takes(c, type) /\ UNCHANGED <<virtualIP, down>>
    BY DEF Signals!Relay
  <1>2. Head(up[c]) \in In(up[c]) /\ Head(up[c]).type = type
    BY <1>1, TakesEffect DEF SignalInv
  <1>3. Head(up[c]).addr = c
    BY <1>2 DEF SignalInv, SentAreOwn
  <1>4. /\ udpAddr' = [udpAddr EXCEPT ![c] = c]
        /\ \E peers \in Signals!SetToSeqs(members \ {c}) :
              todo' = [todo EXCEPT ![c] = Relayed(peers)]
    BY <1>3 DEF Signals!Relay
  <1>5. PICK peers \in Signals!SetToSeqs(members \ {c}) :
            todo' = [todo EXCEPT ![c] = Relayed(peers)]
    BY <1>4
  <1>6. IsFiniteSet(members) /\ IsFiniteSet(members \ {c})
    BY FS_RemoveElement DEF SignalInv
  <1>7. peers \in Seq(members \ {c}) /\ In(peers) = members \ {c}
    BY <1>5, <1>6, OrderIsComplete
  <1>8. /\ Len(peers) \in Nat /\ DOMAIN peers = 1..Len(peers)
        /\ \A i \in DOMAIN peers : peers[i] \in Clients
    BY <1>7, ServerTypes
  <1>9. virtualIP[c] \in Vips \cup {None}
    BY ServerTypes
  <1>10. m \in Signals!Messages
    BY <1>9, MessageTypes
  <1> HIDE DEF m
  <1>11. \A i \in DOMAIN peers : Signals!Write(peers[i], m) \in Signals!Tasks
    BY <1>8, <1>10, TaskTypes
  <1>12. Relayed(peers) \in Seq(Signals!Tasks)
    BY <1>8, <1>11, SeqDef
  <1>13. In(Relayed(peers)) = {Signals!Write(d, m) : d \in members \ {c}}
    BY <1>7 DEF In
  <1> HIDE DEF Relayed
  <1>14. /\ todo' \in [Clients -> Seq(Signals!Tasks)] /\ todo'[c] = Relayed(peers)
         /\ \A d \in Clients : d # c => todo'[d] = todo[d]
    BY <1>5, <1>12, ServerTypes
  <1> QED
    BY <1>1, <1>4, <1>13, <1>14 DEF m

LEMMA RelayKeeps ==
    ASSUME SignalInv, NEW c \in Clients, NEW type \in {"Offer", "Answer"}, Signals!Relay(c, type)
    PROVE  SignalInv'
  <1> DEFINE m == Signals!Msg(type, virtualIP[c], c)
  <1>1. /\ Signals!Takes(c, type) /\ UNCHANGED <<virtualIP, down>>
        /\ udpAddr' = [udpAddr EXCEPT ![c] = c]
        /\ todo' \in [Clients -> Seq(Signals!Tasks)]
        /\ \A d \in Clients : d # c => todo'[d] = todo[d]
        /\ In(todo'[c]) = {Signals!Write(d, m) : d \in members \ {c}}
    BY RelayEffect
  <1>2. /\ up' \in [Clients -> Seq(Signals!Messages)]
        /\ \A d \in Clients : In(up'[d]) \subseteq In(up[d]) /\ (up[d] = <<>> => up'[d] = <<>>)
        /\ UNCHANGED <<members, stage, manager, links>>
    BY <1>1, TakesEffect DEF SignalInv
  <1>3. virtualIP[c] \in Vips \cup {None}
    BY ServerTypes
  <1>4. m \in Signals!Messages /\ m.type = type /\ m.vip = virtualIP[c] /\ m.addr = c
    <2>1. /\ type \in {"PunchReq", "Offer", "Answer", "PunchResp", "Leave"}
          /\ c \in Clients \cup {None}
      OBVIOUS
    <2> QED
      BY <1>3, <2>1, MessageTypes
  <1> HIDE DEF m
  <1>5. ASSUME NEW w \in In(todo'[c])
        PROVE  /\ w.do = "write" /\ Fits(w.msg, w.to)
    <2>1. PICK d \in members \ {c} : w = Signals!Write(d, m)
      BY <1>1, <1>5
    <2>2. d \in Clients
      BY ServerTypes
    <2>3. w.do = "write" /\ w.to = d /\ w.msg = m
      BY <1>4, <2>1, <2>2, TaskTypes
    <2>4. m.vip # None => m.vip = VipOf[c]
      BY <1>4 DEF SignalInv, FieldsAreOwn
    <2> QED
      BY <1>4, <2>1, <2>3, <2>4 DEF Fits
  <1>6. /\ udpAddr' \in [Clients -> Clients \cup {None}] /\ udpAddr'[c] = c
        /\ \A d \in Clients : d # c => udpAddr'[d] = udpAddr[d]
    BY <1>1, ServerTypes
  <1> QED
    BY <1>1, <1>2, <1>5, <1>6, ServerKeeps, ServerTypes

LEMMA LeaveEffect ==
    ASSUME SignalInv, NEW c \in Clients, Signals!Leave(c)
    PROVE  /\ Signals!Takes(c, "Leave") /\ UNCHANGED <<udpAddr, down>>
           /\ virtualIP' = [virtualIP EXCEPT ![c] = None]
           /\ todo' \in [Clients -> Seq(Signals!Tasks)]
           /\ \A d \in Clients : d # c => todo'[d] = todo[d]
           /\ In(todo'[c]) = {[do |-> "remove"], [do |-> "broadcast"]}
           /\ stage[c] \notin {"joined", "in"}
  <1>1. /\ Signals!Takes(c, "Leave") /\ UNCHANGED <<udpAddr, down>>
        /\ virtualIP' = [virtualIP EXCEPT ![c] = None]
        /\ todo' = [todo EXCEPT ![c] = <<[do |-> "remove"], [do |-> "broadcast"]>>]
    BY DEF Signals!Leave
  <1> DEFINE tasks == <<[do |-> "remove"], [do |-> "broadcast"]>>
  <1>2. [do |-> "remove"] \in Signals!Tasks /\ [do |-> "broadcast"] \in Signals!Tasks
    BY DEF Signals!Tasks
  <1>3. /\ tasks \in Seq(Signals!Tasks)
        /\ In(tasks) = {[do |-> "remove"], [do |-> "broadcast"]}
    <2>1. /\ tasks \in Seq(Signals!Tasks) /\ DOMAIN tasks = {1, 2}
          /\ tasks[1] = [do |-> "remove"] /\ tasks[2] = [do |-> "broadcast"]
      BY <1>2
    <2> HIDE DEF tasks
    <2> QED
      BY <2>1 DEF In
  <1> HIDE DEF tasks
  <1>4. /\ todo' \in [Clients -> Seq(Signals!Tasks)] /\ todo'[c] = tasks
        /\ \A d \in Clients : d # c => todo'[d] = todo[d]
    BY <1>1, <1>3, ServerTypes DEF tasks
  <1>5. Head(up[c]) \in In(up[c]) /\ Head(up[c]).type = "Leave"
    BY <1>1, TakesEffect DEF SignalInv
  <1>6. stage[c] \notin {"joined", "in"}
    BY <1>5 DEF SignalInv, MembersStay
  <1> QED
    BY <1>1, <1>3, <1>4, <1>6

LEMMA LeaveKeeps ==
    ASSUME SignalInv, NEW c \in Clients, Signals!Leave(c)
    PROVE  SignalInv'
  <1>1. /\ Signals!Takes(c, "Leave") /\ UNCHANGED <<udpAddr, down>>
        /\ virtualIP' = [virtualIP EXCEPT ![c] = None]
        /\ todo' \in [Clients -> Seq(Signals!Tasks)]
        /\ \A d \in Clients : d # c => todo'[d] = todo[d]
        /\ In(todo'[c]) = {[do |-> "remove"], [do |-> "broadcast"]}
        /\ stage[c] \notin {"joined", "in"}
    BY LeaveEffect
  <1>2. /\ up' \in [Clients -> Seq(Signals!Messages)]
        /\ \A d \in Clients : In(up'[d]) \subseteq In(up[d]) /\ (up[d] = <<>> => up'[d] = <<>>)
        /\ UNCHANGED <<members, stage, manager, links>>
    BY <1>1, TakesEffect DEF SignalInv
  <1>3. /\ virtualIP' \in [Clients -> Vips \cup {None}] /\ virtualIP'[c] = None
        /\ \A d \in Clients : d # c => virtualIP'[d] = virtualIP[d]
    BY <1>1, ServerTypes
  <1>4. \A w \in In(todo'[c]) : w.do \in {"remove", "broadcast"}
    BY <1>1
  <1> QED
    BY <1>1, <1>2, <1>3, <1>4, ServerKeeps, ServerTypes

LEMMA RemoveMemberEffect ==
    ASSUME SignalInv, NEW c \in Clients, Signals!RemoveMember(c)
    PROVE  /\ UNCHANGED <<virtualIP, udpAddr, stage, manager, links, up, down>>
           /\ members' = members \ {c} /\ stage[c] \notin {"joined", "in"}
           /\ todo' \in [Clients -> Seq(Signals!Tasks)]
           /\ \A d \in Clients : d # c => todo'[d] = todo[d]
           /\ Head(todo[c]).do = "remove"
           /\ In(todo[c]) = {Head(todo[c])} \cup In(todo'[c])
  <1>1. /\ Signals!Does(c, "remove") /\ members' = members \ {c}
        /\ todo' = [todo EXCEPT ![c] = Tail(@)]
        /\ UNCHANGED <<virtualIP, udpAddr, stage, manager, links, up, down>>
    BY DEF Signals!RemoveMember, Signals!client
  <1>2. /\ todo' \in [Clients -> Seq(Signals!Tasks)]
        /\ \A d \in Clients : d # c => todo'[d] = todo[d]
        /\ Head(todo[c]).do = "remove"
        /\ In(todo[c]) = {Head(todo[c])} \cup In(todo'[c])
    BY <1>1, DoneEffect DEF SignalInv
  <1>3. stage[c] \notin {"joined", "in"}
    BY <1>2 DEF SignalInv, MembersStay
  <1> QED
    BY <1>1, <1>2, <1>3

LEMMA RemoveMemberKeeps ==
    ASSUME SignalInv, NEW c \in Clients, Signals!RemoveMember(c)
    PROVE  SignalInv'
  <1>1. /\ UNCHANGED <<virtualIP, udpAddr, stage, manager, links, up, down>>
        /\ members' = members \ {c} /\ stage[c] \notin {"joined", "in"}
        /\ todo' \in [Clients -> Seq(Signals!Tasks)]
        /\ \A d \in Clients : d # c => todo'[d] = todo[d]
        /\ \A w \in In(todo'[c]) : w \in In(todo[c])
    BY RemoveMemberEffect
  <1> QED
    BY <1>1, ServerKeeps, ServerTypes

(* What is sent to all is an update; what else is to be done stays so.     *)
LEMMA BroadcastEffect ==
    ASSUME SignalInv, NEW c \in Clients, Signals!Broadcast(c)
    PROVE  /\ UNCHANGED <<virtualIP, udpAddr, members, stage, manager, links, up, down>>
           /\ todo' \in [Clients -> Seq(Signals!Tasks)]
           /\ \A d \in Clients : d # c => todo'[d] = todo[d]
           /\ Head(todo[c]).do = "broadcast"
           /\ In(todo[c]) \subseteq {Head(todo[c])} \cup In(todo'[c])
           /\ \A w \in In(todo'[c]) :
                 \/ w \in In(todo[c])
                 \/ w.do = "write" /\ w.msg.type = "PeerUpdate" /\ IsFiniteSet(w.msg.peers)
  <1> DEFINE vips == {virtualIP[d] : d \in members}
             targets == IF None \in vips THEN {} ELSE members
             Sent(peers) == [i \in DOMAIN peers |-> Signals!Write(peers[i], Signals!Update(vips))]
  <1>1. /\ Signals!Does(c, "broadcast")
        /\ UNCHANGED <<virtualIP, udpAddr, members, stage, manager, links, up, down>>
        /\ \E peers \in Signals!SetToSeqs(targets) :
              todo' = [todo EXCEPT ![c] = Sent(peers) \o Tail(@)]
    BY DEF Signals!Broadcast, Signals!client
  <1>2. PICK peers \in Signals!SetToSeqs(targets) :
            todo' = [todo EXCEPT ![c] = Sent(peers) \o Tail(@)]
    BY <1>1
  <1>3. IsFiniteSet(members) /\ members \subseteq Clients
    BY ServerTypes DEF SignalInv
  <1>4. IsFiniteSet(targets)
    BY <1>3, FS_EmptySet
  <1>5. peers \in Seq(targets)
    BY <1>2, <1>4, OrderIsComplete
  <1>6. /\ Len(peers) \in Nat /\ DOMAIN peers = 1..Len(peers)
        /\ \A i \in DOMAIN peers : peers[i] \in targets
    BY <1>5
  <1>7. IsFiniteSet(vips)
    <2> DEFINE f == [d \in members |-> virtualIP[d]]
    <2>1. f \in Surjection(members, vips)
      BY DEF Surjection
    <2> HIDE DEF f, vips
    <2> QED
      BY <1>3, <2>1, FS_Surjection
  <1>8. ASSUME NEW i \in DOMAIN peers
        PROVE  LET w == Signals!Write(peers[i], Signals!Update(vips))
               IN  /\ w \in Signals!Tasks /\ w.do = "write"
                   /\ w.msg.type = "PeerUpdate" /\ w.msg.peers = vips
    <2>1. None \notin vips /\ peers[i] \in Clients
      BY <1>3, <1>6, <1>8
    <2>2. vips \in SUBSET Vips
      BY <1>3, <2>1, ServerTypes
    <2> HIDE DEF vips
    <2>3. Signals!Update(vips) \in Signals!Messages /\ Signals!Update(vips).type = "PeerUpdate"
      BY <2>2, UpdateTypes
    <2>4. Signals!Update(vips).peers = vips
      BY DEF Signals!Update
    <2>5. LET w == Signals!Write(peers[i], Signals!Update(vips))
          IN  /\ w \in Signals!Tasks /\ w.do = "write"
              /\ w.msg = Signals!Update(vips)
      BY <2>1, <2>3 DEF Signals!Write, Signals!Tasks
    <2> QED
      BY <2>3, <2>4, <2>5
  <1> HIDE DEF vips, targets
  <1>9. Sent(peers) \in Seq(Signals!Tasks)
    BY <1>6, <1>8, SeqDef
  <1>10. \A w \in In(Sent(peers)) :
            w.do = "write" /\ w.msg.type = "PeerUpdate" /\ IsFiniteSet(w.msg.peers)
    BY <1>7, <1>8 DEF In
  <1> HIDE DEF Sent
  <1>11. /\ Head(todo[c]).do = "broadcast" /\ Tail(todo[c]) \in Seq(Signals!Tasks)
         /\ In(todo[c]) = {Head(todo[c])} \cup In(Tail(todo[c]))
    BY <1>1, DoneEffect DEF SignalInv
  <1>12. /\ Sent(peers) \o Tail(todo[c]) \in Seq(Signals!Tasks)
         /\ In(Sent(peers) \o Tail(todo[c])) = In(Sent(peers)) \cup In(Tail(todo[c]))
    <2>1. \A s, r \in Seq(Signals!Tasks) :
              s \o r \in Seq(Signals!Tasks) /\ In(s \o r) = In(s) \cup In(r)
      BY InJoined
    <2> QED
      BY <1>9, <1>11, <2>1
  <1>13. /\ todo' \in [Clients -> Seq(Signals!Tasks)]
         /\ todo'[c] = Sent(peers) \o Tail(todo[c])
         /\ \A d \in Clients : d # c => todo'[d] = todo[d]
    BY <1>2, <1>12, ServerTypes
  <1> QED
    BY <1>1, <1>10, <1>11, <1>12, <1>13

LEMMA BroadcastKeeps ==
    ASSUME SignalInv, NEW c \in Clients, Signals!Broadcast(c)
    PROVE  SignalInv'
  <1>1. /\ UNCHANGED <<virtualIP, udpAddr, members, stage, manager, links, up, down>>
        /\ todo' \in [Clients -> Seq(Signals!Tasks)]
        /\ \A d \in Clients : d # c => todo'[d] = todo[d]
        /\ \A w \in In(todo'[c]) :
              \/ w \in In(todo[c])
              \/ w.do = "write" /\ w.msg.type = "PeerUpdate" /\ IsFiniteSet(w.msg.peers)
    BY BroadcastEffect
  <1>2. \A w \in In(todo'[c]) :
           \/ w \in In(todo[c])
           \/ w.do = "write" /\ Fits(w.msg, w.to)
    BY <1>1 DEF Fits
  <1> QED
    BY <1>1, <1>2, ServerKeeps, ServerTypes

(* Something is sent, and that was all there was to do.                    *)
LEMMA SentEffect ==
    ASSUME SignalInv, NEW c \in Clients, Signals!Describe(c) \/ Signals!WriteMessage(c)
    PROVE  /\ UNCHANGED <<virtualIP, udpAddr, members, stage, manager, links, up>>
           /\ todo' \in [Clients -> Seq(Signals!Tasks)]
           /\ \A d \in Clients : d # c => todo'[d] = todo[d]
           /\ Head(todo[c]) \in Signals!Tasks
           /\ In(todo[c]) = {Head(todo[c])} \cup In(todo'[c])
           /\ \/ /\ Head(todo[c]).do = "describe" /\ Head(todo[c]).peer \in Clients \ {c}
                 /\ Signals!Send(c, Signals!Msg("PunchResp", virtualIP[Head(todo[c]).peer],
                                                udpAddr[Head(todo[c]).peer]))
              \/ /\ Head(todo[c]).do = "write"
                 /\ Head(todo[c]).to \in Clients /\ Head(todo[c]).msg \in Signals!Messages
                 /\ Fits(Head(todo[c]).msg, Head(todo[c]).to)
                 /\ Signals!Send(Head(todo[c]).to, Head(todo[c]).msg)
  <1>1. PICK what \in {"describe", "write"} : Signals!Does(c, what)
    BY DEF Signals!Describe, Signals!WriteMessage
  <1>2. /\ todo' = [todo EXCEPT ![c] = Tail(@)]
        /\ UNCHANGED <<virtualIP, udpAddr, members, stage, manager, links, up>>
    BY DEF Signals!Describe, Signals!WriteMessage, Signals!client
  <1>3. /\ todo' \in [Clients -> Seq(Signals!Tasks)]
        /\ \A d \in Clients : d # c => todo'[d] = todo[d]
        /\ Head(todo[c]) \in Signals!Tasks /\ Head(todo[c]).do = what
        /\ In(todo[c]) = {Head(todo[c])} \cup In(todo'[c])
    BY <1>1, <1>2, DoneEffect DEF SignalInv
  <1>4. /\ Head(todo[c]).do = "write" => /\ Head(todo[c]).to \in Clients
                                         /\ Head(todo[c]).msg \in Signals!Messages
                                         /\ Fits(Head(todo[c]).msg, Head(todo[c]).to)
        /\ Head(todo[c]).do = "describe" => Head(todo[c]).peer \in Clients \ {c}
    BY <1>3, TaskFields DEF SignalInv, TasksFit
  <1>5. CASE Signals!Describe(c)
    <2>1. /\ Signals!Does(c, "describe")
          /\ Signals!Send(c, Signals!Msg("PunchResp", virtualIP[Head(todo[c]).peer],
                                         udpAddr[Head(todo[c]).peer]))
      BY <1>5 DEF Signals!Describe
    <2> QED
      BY <1>2, <1>3, <1>4, <2>1 DEF Signals!Does
  <1>6. CASE Signals!WriteMessage(c)
    <2>1. Signals!Does(c, "write") /\ Signals!Send(Head(todo[c]).to, Head(todo[c]).msg)
      BY <1>6 DEF Signals!WriteMessage
    <2> QED
      BY <1>2, <1>3, <1>4, <2>1 DEF Signals!Does
  <1> QED
    BY <1>5, <1>6

LEMMA SentKeeps ==
    ASSUME SignalInv, NEW c \in Clients, Signals!Describe(c) \/ Signals!WriteMessage(c)
    PROVE  SignalInv'
  <1> DEFINE t == Head(todo[c])
             answer == Signals!Msg("PunchResp", virtualIP[t.peer], udpAddr[t.peer])
  <1>1. /\ UNCHANGED <<virtualIP, udpAddr, members, stage, manager, links, up>>
        /\ todo' \in [Clients -> Seq(Signals!Tasks)]
        /\ \A d \in Clients : d # c => todo'[d] = todo[d]
        /\ \A w \in In(todo'[c]) : w \in In(todo[c])
        /\ \/ t.peer \in Clients \ {c} /\ Signals!Send(c, answer)
           \/ /\ t.to \in Clients /\ t.msg \in Signals!Messages
              /\ Fits(t.msg, t.to) /\ Signals!Send(t.to, t.msg)
    BY SentEffect
  <1> HIDE DEF t
  <1>2. /\ down' \in [Clients -> Seq(Signals!Messages)]
        /\ \A d \in Clients : \A n \in In(down'[d]) : n \in In(down[d]) \/ Fits(n, d)
    <2>1. CASE t.peer \in Clients \ {c} /\ Signals!Send(c, answer)
      <3>1. virtualIP[t.peer] \in Vips \cup {None} /\ udpAddr[t.peer] \in Clients \cup {None}
        BY <2>1, ServerTypes
      <3>2. /\ answer \in Signals!Messages /\ answer.type = "PunchResp"
            /\ answer.vip = virtualIP[t.peer] /\ answer.addr = udpAddr[t.peer]
        BY <3>1, MessageTypes, Z3
      <3>3. Fits(answer, c)
        BY <2>1, <3>2 DEF SignalInv, FieldsAreOwn, Fits
      <3> QED
        BY <2>1, <3>2, <3>3, SendFits
    <2>2. CASE /\ t.to \in Clients /\ t.msg \in Signals!Messages
               /\ Fits(t.msg, t.to) /\ Signals!Send(t.to, t.msg)
      BY <2>2, SendFits
    <2> QED
      BY <1>1, <2>1, <2>2
  <1> QED
    BY <1>1, <1>2, ServerKeeps, ServerTypes

LEMMA SignalStep == SignalInv /\ [Signals!Next]_Signals!vars => SignalInv'
  <1> SUFFICES ASSUME SignalInv, [Signals!Next]_Signals!vars PROVE SignalInv'
    OBVIOUS
  <1>1. CASE UNCHANGED Signals!vars
    <2>1. UNCHANGED <<virtualIP, udpAddr, members, todo, stage, manager, links, up, down>>
      BY <1>1 DEF Signals!vars, Signals!server, Signals!client
    <2>2. Signals!TypeOK' /\ IsFiniteSet(members')
      BY <2>1 DEF SignalInv, Signals!TypeOK
    <2>3. FieldsAreOwn' /\ SentAreOwn' /\ ReceivedFit' /\ TasksFit'
      BY <2>1 DEF SignalInv, FieldsAreOwn, SentAreOwn, ReceivedFit, TasksFit
    <2>4. MembersStay' /\ AddressesAreTheirs'
      BY <2>1 DEF SignalInv, MembersStay, AddressesAreTheirs
    <2> QED
      BY <2>2, <2>3, <2>4 DEF SignalInv
  <1>2. CASE Signals!Next
    <2>1. PICK c \in Clients :
              \/ Signals!Join(c) \/ Signals!InitP2P(c) \/ Signals!Receive(c)
              \/ Signals!Depart(c) \/ Signals!Handle(c)
              \/ \E v \in Vips, result \in Outcomes : Signals!EndPunching(c, v, result)
      BY <1>2 DEF Signals!Next, Signals!Vips, Vips
    <2>2. CASE Signals!Receive(c)
      BY <2>2, HandleUpdateKeeps, AnswerKeeps DEF Signals!Receive
    <2>3. CASE Signals!Handle(c)
      BY <2>3, PunchReqKeeps, RelayKeeps, LeaveKeeps, RemoveMemberKeeps, BroadcastKeeps,
         SentKeeps DEF Signals!Handle
    <2> QED
      BY <2>1, <2>2, <2>3, JoinKeeps, InitP2PKeeps, DepartKeeps, EndPunchingKeeps
  <1> QED
    BY <1>1, <1>2

LEMMA SignalInductive == Signals!Spec => []SignalInv
  <1> QED
    BY SignalInit, SignalStep, PTL DEF Signals!Spec

(* What the server and the clients of a room keep has its type.            *)
THEOREM SignalsTyped == Signals!Spec => []Signals!TypeOK
  <1>1. SignalInv => Signals!TypeOK
    BY DEF SignalInv
  <1> QED
    BY <1>1, SignalInductive, PTL

(* An address a client tries is that of the client with the virtual IP it  *)
(* tries it for, and never its own (Manager.AddPeer, p2p.go:157): although *)
(* handleP2PPunchReq reads the fields of a target whose own handler may be *)
(* changing them, no client is ever introduced under another's name.       *)
THEOREM AddressesNotMixed == Signals!Spec => []AddressesAreTheirs
  <1>1. SignalInv => AddressesAreTheirs
    BY DEF SignalInv
  <1> QED
    BY <1>1, SignalInductive, PTL

-----------------------------------------------------------------------------
(* Nobody is forgotten: of two members with a manager, each is told of the *)
(* other or has made the other tell.  An offer that is relayed before the  *)
(* other has a manager is lost on it; but then the other's own offer comes *)
(* later, and is answered.                                                 *)

(* A message that introduces d.                                            *)
Tells(m, d) == m.type \in {"Offer", "Answer"} /\ m.vip = VipOf[d] /\ m.addr = d

(* The address of d is on its way to c, which will receive it, or the      *)
(* server is to write it, or d has sent it; or c has a link for the        *)
(* virtual IP of d.                                                        *)
Told(c, d, its, received, tasks, sent) ==
    \/ its # Unlinked
    \/ \E m \in received : Tells(m, d)
    \/ \E w \in tasks : w.do = "write" /\ w.to = c /\ Tells(w.msg, d)
    \/ \E m \in sent : m.type \in {"Offer", "Answer"}

(* An offer of c, which d will answer, is on its way to d.                 *)
Prompted(c, d, received, tasks, sent) ==
    \/ \E m \in received : Tells(m, c) /\ m.type = "Offer"
    \/ \E w \in tasks : w.do = "write" /\ w.to = d /\ Tells(w.msg, c) /\ w.msg.type = "Offer"
    \/ \E m \in sent : m.type = "Offer"

OnTheWay ==
    \A c, d \in Clients :
        c # d /\ manager[c] /\ manager[d] =>
           \/ Told(c, d, links[c][VipOf[d]], In(down[c]), In(todo[d]), In(up[d]))
           \/ Prompted(c, d, In(down[d]), In(todo[c]), In(up[c]))

(* What is known or on its way stays so.                                   *)
LEMMA NothingDropped ==
    ASSUME OnTheWay,
           \A c \in Clients : manager'[c] => manager[c],
           \A c, d \in Clients :
              manager'[c] /\ links[c][VipOf[d]] # Unlinked => links'[c][VipOf[d]] # Unlinked,
           \A c \in Clients : manager'[c] =>
              \A d \in Clients : \A m \in In(down[c]) : Tells(m, d) => m \in In(down'[c]),
           \A c \in Clients : manager'[c] =>
              \A w \in In(todo[c]) : w.do = "write" => w \in In(todo'[c]),
           \A c \in Clients : manager'[c] =>
              \A m \in In(up[c]) : m.type \in {"Offer", "Answer"} => m \in In(up'[c])
    PROVE  OnTheWay'
  <1>1. ASSUME NEW c \in Clients, NEW d \in Clients, c # d, manager'[c], manager'[d]
        PROVE  \/ Told(c, d, links'[c][VipOf[d]], In(down'[c]), In(todo'[d]), In(up'[d]))
               \/ Prompted(c, d, In(down'[d]), In(todo'[c]), In(up'[c]))
    <2>1. \/ Told(c, d, links[c][VipOf[d]], In(down[c]), In(todo[d]), In(up[d]))
          \/ Prompted(c, d, In(down[d]), In(todo[c]), In(up[c]))
      BY <1>1 DEF OnTheWay
    <2>2. CASE Told(c, d, links[c][VipOf[d]], In(down[c]), In(todo[d]), In(up[d]))
      <3>1. Told(c, d, links'[c][VipOf[d]], In(down'[c]), In(todo'[d]), In(up'[d]))
        BY <1>1, <2>2 DEF Told
      <3> QED
        BY <3>1
    <2>3. CASE Prompted(c, d, In(down[d]), In(todo[c]), In(up[c]))
      <3>1. Prompted(c, d, In(down'[d]), In(todo'[c]), In(up'[c]))
        BY <1>1, <2>3 DEF Prompted
      <3> QED
        BY <3>1
    <2> QED
      BY <2>1, <2>2, <2>3
  <1> QED
    BY <1>1 DEF OnTheWay

LEMMA JoinForgetsNobody ==
    ASSUME SignalInv, OnTheWay, NEW c \in Clients, Signals!Join(c)
    PROVE  OnTheWay'
  <1>1. /\ stage[c] = "out" /\ UNCHANGED <<manager, links, up, down>>
        /\ \A d \in Clients : d # c => todo'[d] = todo[d]
    BY JoinEffect
  <1>2. ~manager[c]
    BY <1>1 DEF SignalInv, MembersStay
  <1> QED
    BY <1>1, <1>2, NothingDropped

LEMMA InitP2PForgetsNobody ==
    ASSUME SignalInv, OnTheWay, NEW x \in Clients, Signals!InitP2P(x)
    PROVE  OnTheWay'
  <1> DEFINE offer == Signals!Msg("Offer", VipOf[x], x)
  <1>1. /\ \A d \in Clients : d # x => up'[d] = up[d]
        /\ \/ manager' = manager /\ up' = up
           \/ /\ manager' = [manager EXCEPT ![x] = TRUE]
              /\ In(up'[x]) = In(up[x]) \cup {offer}
        /\ UNCHANGED <<todo, links, down>>
    BY InitP2PEffect
  <1>2. offer.type = "Offer"
    BY MessageTypes, VipsOf
  <1> HIDE DEF offer
  <1>3. CASE manager' = manager /\ up' = up
    BY <1>1, <1>3, NothingDropped
  <1>4. CASE manager' = [manager EXCEPT ![x] = TRUE] /\ In(up'[x]) = In(up[x]) \cup {offer}
    <2>1. \A d \in Clients : d # x => manager'[d] = manager[d]
      BY <1>4 DEF SignalInv, Signals!TypeOK
    <2>2. \E m \in In(up'[x]) : m.type = "Offer"
      BY <1>2, <1>4
    <2>3. ASSUME NEW c \in Clients, NEW d \in Clients, c # d, manager'[c], manager'[d]
          PROVE  \/ Told(c, d, links'[c][VipOf[d]], In(down'[c]), In(todo'[d]), In(up'[d]))
                 \/ Prompted(c, d, In(down'[d]), In(todo'[c]), In(up'[c]))
      <3>1. CASE d = x
        BY <2>2, <3>1 DEF Told
      <3>2. CASE c = x
        BY <2>2, <3>2 DEF Prompted
      <3>3. CASE c # x /\ d # x
        BY <1>1, <2>1, <2>3, <3>3 DEF OnTheWay
      <3> QED
        BY <3>1, <3>2, <3>3
    <2> QED
      BY <2>3 DEF OnTheWay
  <1> QED
    BY <1>1, <1>3, <1>4

LEMMA HandleUpdateForgetsNobody ==
    ASSUME SignalInv, OnTheWay, NEW c \in Clients, Signals!HandleUpdate(c)
    PROVE  OnTheWay'
  <1>1. /\ Signals!Receives(c, "PeerUpdate") /\ UNCHANGED links
        /\ \A d \in Clients : d # c => up'[d] = up[d]
        /\ In(up[c]) \subseteq In(up'[c])
    BY HandleUpdateEffect
  <1>2. /\ \A d \in Clients : d # c => down'[d] = down[d]
        /\ In(down[c]) = {Head(down[c])} \cup In(down'[c])
        /\ Head(down[c]).type = "PeerUpdate"
        /\ UNCHANGED <<todo, manager>>
    BY <1>1, ReceivesEffect DEF SignalInv
  <1>3. \A d \in Clients : \A m \in In(down[c]) : Tells(m, d) => m \in In(down'[c])
    BY <1>2 DEF Tells
  <1>4. \A e \in Clients : manager'[e] =>
              \A m \in In(up[e]) : m.type \in {"Offer", "Answer"} => m \in In(up'[e])
    BY <1>1
  <1>5. \A e \in Clients : manager'[e] =>
           \A d \in Clients : \A m \in In(down[e]) : Tells(m, d) => m \in In(down'[e])
    BY <1>2, <1>3
  <1> QED
    BY <1>1, <1>2, <1>4, <1>5, NothingDropped

(* An offer or an answer is used.  Its sender is known now; an offer is    *)
(* answered, so what it prompted is on its way.                            *)
LEMMA AnswerForgetsNobody ==
    ASSUME SignalInv, OnTheWay, NEW x \in Clients,
           Signals!HandleOffer(x) \/ Signals!HandleAnswer(x)
    PROVE  OnTheWay'
  <1> DEFINE h == Head(down[x])
  <1>1. PICK type : Signals!Receives(x, type)
    BY AnswerEffect
  <1>2. /\ h.type # "PeerUpdate"
        /\ \A d \in Clients : d # x => up'[d] = up[d]
        /\ \/ up' = up
           \/ In(up'[x]) = In(up[x]) \cup {Signals!Msg("Answer", VipOf[x], x)}
        /\ \/ Signals!Usable(x) /\ Signals!AddPeer(x, h.vip, h.addr)
           \/ ~Signals!Usable(x) /\ links' = links
        /\ Signals!HandleOffer(x) /\ Signals!Usable(x) =>
              In(up'[x]) = In(up[x]) \cup {Signals!Msg("Answer", VipOf[x], x)}
    BY AnswerEffect
  <1>3. /\ \A d \in Clients : d # x => down'[d] = down[d]
        /\ In(down[x]) = {h} \cup In(down'[x])
        /\ UNCHANGED <<todo, manager>>
    BY <1>1, ReceivesEffect DEF SignalInv
  <1>4. \A d \in Clients : In(up[d]) \subseteq In(up'[d])
    BY <1>2
  <1>5. CASE ~Signals!Usable(x)
    <2>1. links' = links
      BY <1>2, <1>5
    <2>2. ASSUME NEW c \in Clients, manager'[c], NEW d \in Clients, NEW m \in In(down[c]),
                 Tells(m, d)
          PROVE  m \in In(down'[c])
      <3>1. m.vip # None /\ m.addr # None
        BY <2>2, VipsOf, SignallingAssumption DEF Tells
      <3>2. c = x => m # h
        BY <1>3, <1>5, <2>2, <3>1 DEF Signals!Usable
      <3> QED
        BY <1>3, <2>2, <3>2
    <2> HIDE DEF h
    <2>3. /\ \A e \in Clients : manager'[e] =>
                \A d \in Clients : \A m \in In(down[e]) : Tells(m, d) => m \in In(down'[e])
          /\ \A e \in Clients : manager'[e] =>
                \A m \in In(up[e]) : m.type \in {"Offer", "Answer"} => m \in In(up'[e])
      BY <1>4, <2>2
    <2> QED
      BY <1>3, <2>1, <2>3, NothingDropped
  <1>6. CASE Signals!Usable(x)
    <2>1. /\ h.vip \in Vips /\ h.addr \in Clients \ {x} /\ VipOf[h.addr] = h.vip
      BY <1>1, <1>2, <1>6, UsableNames
    <2>2. Signals!AddPeer(x, h.vip, h.addr)
      BY <1>2, <1>6
    <2>3. /\ \/ links'[x][h.vip].addr = h.addr
             \/ links'[x][h.vip] = links[x][h.vip] /\ links[x][h.vip] # Unlinked
          /\ \A d \in Clients, w \in Vips : d # x \/ w # h.vip => links'[d][w] = links[d][w]
      BY <2>1, <2>2, AddPeerEffect DEF SignalInv
    <2>4. links'[x][h.vip] # Unlinked
      <3>1. Unlinked.addr = None
        BY DEF Unlinked
      <3>2. h.addr # Unlinked.addr
        BY <2>1, <3>1, SignallingAssumption
      <3> HIDE DEF h
      <3> QED
        BY <2>3, <3>2
    <2>5. h.type = "Offer" => \E m \in In(up'[x]) : m.type = "Answer"
      <3>1. Signals!Msg("Answer", VipOf[x], x).type = "Answer"
        BY MessageTypes, VipsOf
      <3>2. h.type = "Offer" => Signals!HandleOffer(x)
        BY DEF Signals!HandleAnswer, Signals!Receives
      <3> QED
        BY <1>2, <1>6, <3>1, <3>2
    <2> HIDE DEF h
    <2>6. ASSUME NEW c \in Clients, NEW d \in Clients, c # d, manager'[c], manager'[d]
          PROVE  \/ Told(c, d, links'[c][VipOf[d]], In(down'[c]), In(todo'[d]), In(up'[d]))
                 \/ Prompted(c, d, In(down'[d]), In(todo'[c]), In(up'[c]))
      <3>1. \/ Told(c, d, links[c][VipOf[d]], In(down[c]), In(todo[d]), In(up[d]))
            \/ Prompted(c, d, In(down[d]), In(todo[c]), In(up[c]))
        BY <1>3, <2>6 DEF OnTheWay
      <3>2. CASE c = x /\ VipOf[d] = h.vip
        BY <2>4, <3>2 DEF Told
      <3>3. CASE c = x /\ VipOf[d] # h.vip
        <4>1. VipOf[d] \in Vips
          BY <2>6, VipsOf
        <4>2. links'[c][VipOf[d]] = links[c][VipOf[d]]
          BY <2>3, <3>3, <4>1
        <4>3. \A m \in In(down[c]) : Tells(m, d) => m \in In(down'[c])
          BY <1>3, <3>3 DEF Tells
        <4>4. CASE Told(c, d, links[c][VipOf[d]], In(down[c]), In(todo[d]), In(up[d]))
          <5>1. Told(c, d, links'[c][VipOf[d]], In(down'[c]), In(todo'[d]), In(up'[d]))
            BY <1>3, <1>4, <4>2, <4>3, <4>4 DEF Told
          <5> QED
            BY <5>1
        <4>5. CASE Prompted(c, d, In(down[d]), In(todo[c]), In(up[c]))
          <5>1. Prompted(c, d, In(down'[d]), In(todo'[c]), In(up'[c]))
            BY <1>3, <1>4, <2>6, <3>3, <4>5 DEF Prompted
          <5> QED
            BY <5>1
        <4> QED
          BY <3>1, <4>4, <4>5
      <3>4. CASE d = x /\ h.type = "Offer"
        BY <2>5, <3>4 DEF Told
      <3>5. CASE d = x /\ h.type # "Offer"
        <4>1. links'[c][VipOf[d]] = links[c][VipOf[d]] /\ down'[c] = down[c]
          BY <1>3, <2>3, <2>6, <3>5, VipsOf
        <4>2. \A m \in In(down[d]) : m.type = "Offer" => m \in In(down'[d])
          BY <1>3, <3>5
        <4>3. CASE Told(c, d, links[c][VipOf[d]], In(down[c]), In(todo[d]), In(up[d]))
          <5>1. Told(c, d, links'[c][VipOf[d]], In(down'[c]), In(todo'[d]), In(up'[d]))
            BY <1>3, <1>4, <4>1, <4>3 DEF Told
          <5> QED
            BY <5>1
        <4>4. CASE Prompted(c, d, In(down[d]), In(todo[c]), In(up[c]))
          <5>1. Prompted(c, d, In(down'[d]), In(todo'[c]), In(up'[c]))
            BY <1>3, <1>4, <4>2, <4>4 DEF Prompted
          <5> QED
            BY <5>1
        <4> QED
          BY <3>1, <4>3, <4>4
      <3>6. CASE c # x /\ d # x
        <4>1. /\ links'[c][VipOf[d]] = links[c][VipOf[d]] /\ down'[c] = down[c]
              /\ down'[d] = down[d] /\ up'[c] = up[c] /\ up'[d] = up[d]
          BY <1>2, <1>3, <2>3, <3>6, VipsOf
        <4> QED
          BY <1>3, <3>1, <4>1
      <3> QED
        BY <3>2, <3>3, <3>4, <3>5, <3>6
    <2> QED
      BY <2>6 DEF OnTheWay
  <1> QED
    BY <1>5, <1>6

LEMMA DepartForgetsNobody ==
    ASSUME SignalInv, OnTheWay, NEW x \in Clients, Signals!Depart(x)
    PROVE  OnTheWay'
  <1>1. /\ manager' = [manager EXCEPT ![x] = FALSE]
        /\ links' = [links EXCEPT ![x] = [v \in Vips |-> Unlinked]]
        /\ down' = [down EXCEPT ![x] = <<>>]
        /\ \A d \in Clients : d # x => up'[d] = up[d]
        /\ UNCHANGED todo
    BY DepartEffect
  <1>2. ~manager'[x]
    BY <1>1 DEF SignalInv, Signals!TypeOK
  <1>3. \A d \in Clients : d # x => /\ manager'[d] = manager[d] /\ links'[d] = links[d]
                                    /\ down'[d] = down[d] /\ up'[d] = up[d]
    BY <1>1 DEF SignalInv, Signals!TypeOK
  <1> QED
    BY <1>1, <1>2, <1>3, NothingDropped

LEMMA PunchReqForgetsNobody ==
    ASSUME SignalInv, OnTheWay, NEW x \in Clients, Signals!HandlePunchReq(x)
    PROVE  OnTheWay'
  <1>1. /\ Signals!Takes(x, "PunchReq")
        /\ \/ UNCHANGED <<todo, down>>
           \/ \E target \in members \ {x} :
                 /\ Signals!Send(target, Signals!Msg("Offer", virtualIP[x], udpAddr[x]))
                 /\ \A d \in Clients : d # x => todo'[d] = todo[d]
    BY PunchReqEffect
  <1>2. /\ todo[x] = <<>> /\ Head(up[x]).type = "PunchReq"
        /\ \A d \in Clients : d # x => up'[d] = up[d]
        /\ In(up[x]) = {Head(up[x])} \cup In(up'[x])
        /\ UNCHANGED <<manager, links>>
    BY <1>1, TakesEffect DEF SignalInv
  <1>3. \A d \in Clients : In(down[d]) \subseteq In(down'[d])
    <2>1. CASE UNCHANGED <<todo, down>>
      BY <2>1
    <2>2. ASSUME NEW target \in members \ {x},
                 Signals!Send(target, Signals!Msg("Offer", virtualIP[x], udpAddr[x]))
          PROVE  \A d \in Clients : In(down[d]) \subseteq In(down'[d])
      <3>1. /\ target \in Clients /\ virtualIP[x] \in Vips \cup {None}
            /\ udpAddr[x] \in Clients \cup {None}
        BY ServerTypes
      <3>2. Signals!Msg("Offer", virtualIP[x], udpAddr[x]) \in Signals!Messages
        BY <3>1, MessageTypes
      <3>3. /\ \A d \in Clients : d # target => down'[d] = down[d]
            /\ In(down[target]) \subseteq In(down'[target])
        BY <2>2, <3>1, <3>2, SendEffect DEF SignalInv
      <3> QED
        BY <3>3
    <2> QED
      BY <1>1, <2>1, <2>2
  <1>4. \A d \in Clients : \A w \in In(todo[d]) : w \in In(todo'[d])
    BY <1>1, <1>2, InNothing
  <1>5. \A d \in Clients : \A m \in In(up[d]) :
            m.type \in {"Offer", "Answer"} => m \in In(up'[d])
    BY <1>2
  <1> QED
    BY <1>2, <1>3, <1>4, <1>5, NothingDropped

(* What is taken from the connection is to be written to all others.       *)
LEMMA RelayForgetsNobody ==
    ASSUME SignalInv, OnTheWay, NEW x \in Clients, NEW type \in {"Offer", "Answer"},
           Signals!Relay(x, type)
    PROVE  OnTheWay'
  <1> DEFINE m0 == Signals!Msg(type, virtualIP[x], x)
  <1>1. /\ Signals!Takes(x, type) /\ UNCHANGED down
        /\ \A d \in Clients : d # x => todo'[d] = todo[d]
        /\ In(todo'[x]) = {Signals!Write(d, m0) : d \in members \ {x}}
    BY RelayEffect
  <1>2. /\ todo[x] = <<>> /\ Head(up[x]).type = type
        /\ \A d \in Clients : d # x => up'[d] = up[d]
        /\ In(up[x]) = {Head(up[x])} \cup In(up'[x])
        /\ UNCHANGED <<manager, links>>
    BY <1>1, TakesEffect DEF SignalInv
  <1>3. virtualIP[x] \in Vips \cup {None}
    BY ServerTypes
  <1>4. m0 \in Signals!Messages /\ m0.type = type /\ m0.vip = virtualIP[x] /\ m0.addr = x
    <2>1. /\ type \in {"PunchReq", "Offer", "Answer", "PunchResp", "Leave"}
          /\ x \in Clients \cup {None}
      OBVIOUS
    <2> QED
      BY <1>3, <2>1, MessageTypes
  <1> HIDE DEF m0
  <1>5. ASSUME manager[x], NEW e \in Clients, e # x, manager[e]
        PROVE  \E w \in In(todo'[x]) :
                  w.do = "write" /\ w.to = e /\ Tells(w.msg, x) /\ w.msg.type = type
    <2>1. e \in members /\ virtualIP[x] = VipOf[x]
      BY <1>5 DEF SignalInv, MembersStay
    <2>2. Signals!Write(e, m0) \in In(todo'[x])
      BY <1>1, <1>5, <2>1
    <2>3. /\ Signals!Write(e, m0).do = "write"
          /\ Signals!Write(e, m0).to = e /\ Signals!Write(e, m0).msg = m0
      BY <1>4 DEF Signals!Write
    <2>4. Tells(m0, x)
      BY <1>4, <2>1 DEF Tells
    <2> QED
      BY <1>4, <2>2, <2>3, <2>4
  <1>6. ASSUME NEW c \in Clients, NEW d \in Clients, c # d, manager'[c], manager'[d]
        PROVE  \/ Told(c, d, links'[c][VipOf[d]], In(down'[c]), In(todo'[d]), In(up'[d]))
               \/ Prompted(c, d, In(down'[d]), In(todo'[c]), In(up'[c]))
    <2>1. \/ Told(c, d, links[c][VipOf[d]], In(down[c]), In(todo[d]), In(up[d]))
          \/ Prompted(c, d, In(down[d]), In(todo[c]), In(up[c]))
      BY <1>2, <1>6 DEF OnTheWay
    <2>2. CASE d = x
      BY <1>2, <1>5, <1>6, <2>2 DEF Told
    <2>3. CASE c = x
      <3>1. CASE Told(c, d, links[c][VipOf[d]], In(down[c]), In(todo[d]), In(up[d]))
        <4>1. Told(c, d, links'[c][VipOf[d]], In(down'[c]), In(todo'[d]), In(up'[d]))
          BY <1>1, <1>2, <1>6, <2>3, <3>1
        <4> QED
          BY <4>1
      <3>2. CASE Prompted(c, d, In(down[d]), In(todo[c]), In(up[c]))
        <4>1. In(todo[c]) = {}
          BY <1>2, <2>3, InNothing
        <4>2. CASE type = "Offer"
          <5>1. Prompted(c, d, In(down'[d]), In(todo'[c]), In(up'[c]))
            BY <1>2, <1>5, <1>6, <2>3, <4>2 DEF Prompted
          <5> QED
            BY <5>1
        <4>3. CASE type = "Answer"
          <5>1. \A m \in In(up[c]) : m.type = "Offer" => m \in In(up'[c])
            BY <1>2, <2>3, <4>3
          <5>2. Prompted(c, d, In(down'[d]), In(todo'[c]), In(up'[c]))
            BY <1>1, <3>2, <4>1, <5>1 DEF Prompted
          <5> QED
            BY <5>2
        <4> QED
          BY <4>2, <4>3
      <3> QED
        BY <2>1, <3>1, <3>2
    <2>4. CASE c # x /\ d # x
      BY <1>1, <1>2, <2>1, <2>4
    <2> QED
      BY <2>2, <2>3, <2>4
  <1> QED
    BY <1>6 DEF OnTheWay

LEMMA LeaveForgetsNobody ==
    ASSUME SignalInv, OnTheWay, NEW c \in Clients, Signals!Leave(c)
    PROVE  OnTheWay'
  <1>1. /\ Signals!Takes(c, "Leave") /\ UNCHANGED down /\ stage[c] \notin {"joined", "in"}
        /\ \A d \in Clients : d # c => todo'[d] = todo[d]
    BY LeaveEffect
  <1>2. /\ \A d \in Clients : d # c => up'[d] = up[d]
        /\ UNCHANGED <<manager, links>>
    BY <1>1, TakesEffect DEF SignalInv
  <1>3. ~manager[c]
    BY <1>1 DEF SignalInv, MembersStay
  <1> QED
    BY <1>1, <1>2, <1>3, NothingDropped

LEMMA UpkeepForgetsNobody ==
    ASSUME SignalInv, OnTheWay, NEW c \in Clients, Signals!RemoveMember(c) \/ Signals!Broadcast(c)
    PROVE  OnTheWay'
  <1>1. /\ UNCHANGED <<manager, links, up, down>>
        /\ \A d \in Clients : d # c => todo'[d] = todo[d]
        /\ Head(todo[c]).do # "write"
        /\ In(todo[c]) \subseteq {Head(todo[c])} \cup In(todo'[c])
    BY RemoveMemberEffect, BroadcastEffect
  <1>2. \A d \in Clients : \A w \in In(todo[d]) : w.do = "write" => w \in In(todo'[d])
    BY <1>1
  <1> QED
    BY <1>1, <1>2, NothingDropped

(* What is written arrives: the one it is for has not left.                *)
LEMMA SentForgetsNobody ==
    ASSUME SignalInv, OnTheWay, NEW x \in Clients, Signals!Describe(x) \/ Signals!WriteMessage(x)
    PROVE  OnTheWay'
  <1> DEFINE t == Head(todo[x])
             answer == Signals!Msg("PunchResp", virtualIP[t.peer], udpAddr[t.peer])
  <1>1. /\ UNCHANGED <<manager, links, up>>
        /\ \A d \in Clients : d # x => todo'[d] = todo[d]
        /\ In(todo[x]) = {t} \cup In(todo'[x])
        /\ \/ t.do = "describe" /\ t.peer \in Clients \ {x} /\ Signals!Send(x, answer)
           \/ /\ t.do = "write" /\ t.to \in Clients /\ t.msg \in Signals!Messages
              /\ Signals!Send(t.to, t.msg)
    BY SentEffect
  <1> HIDE DEF t
  <1>2. /\ \A d \in Clients : In(down[d]) \subseteq In(down'[d])
        /\ t.do = "write" /\ t.to \in Clients /\ stage[t.to] # "left" => t.msg \in In(down'[t.to])
    <2>1. CASE t.do = "describe" /\ t.peer \in Clients \ {x} /\ Signals!Send(x, answer)
      <3>1. virtualIP[t.peer] \in Vips \cup {None} /\ udpAddr[t.peer] \in Clients \cup {None}
        BY <2>1, ServerTypes
      <3>2. answer \in Signals!Messages
        BY <3>1, MessageTypes
      <3> HIDE DEF answer
      <3>3. /\ \A d \in Clients : d # x => down'[d] = down[d]
            /\ In(down[x]) \subseteq In(down'[x])
        BY <2>1, <3>2, SendEffect DEF SignalInv
      <3> QED
        BY <2>1, <3>3
    <2>2. CASE /\ t.do = "write" /\ t.to \in Clients /\ t.msg \in Signals!Messages
               /\ Signals!Send(t.to, t.msg)
      <3>1. /\ \A d \in Clients : d # t.to => down'[d] = down[d]
            /\ In(down[t.to]) \subseteq In(down'[t.to])
            /\ stage[t.to] # "left" => t.msg \in In(down'[t.to])
        BY <2>2, SendEffect DEF SignalInv
      <3> QED
        BY <3>1
    <2> QED
      BY <1>1, <2>1, <2>2
  <1>3. \A c \in Clients : manager[c] => stage[c] # "left"
    BY DEF SignalInv, MembersStay
  <1>4. ASSUME NEW c \in Clients, NEW d \in Clients, c # d, manager'[c], manager'[d]
        PROVE  \/ Told(c, d, links'[c][VipOf[d]], In(down'[c]), In(todo'[d]), In(up'[d]))
               \/ Prompted(c, d, In(down'[d]), In(todo'[c]), In(up'[c]))
    <2>1. \/ Told(c, d, links[c][VipOf[d]], In(down[c]), In(todo[d]), In(up[d]))
          \/ Prompted(c, d, In(down[d]), In(todo[c]), In(up[c]))
      BY <1>1, <1>4 DEF OnTheWay
    <2>2. stage[c] # "left" /\ stage[d] # "left"
      BY <1>1, <1>3, <1>4
    <2>3. CASE Told(c, d, links[c][VipOf[d]], In(down[c]), In(todo[d]), In(up[d]))
      <3>1. \A w \in In(todo[d]) : w.do = "write" /\ w.to = c =>
                w \in In(todo'[d]) \/ w.msg \in In(down'[c])
        BY <1>1, <1>2, <2>2
      <3>2. Told(c, d, links'[c][VipOf[d]], In(down'[c]), In(todo'[d]), In(up'[d]))
        BY <1>1, <1>2, <2>3, <3>1 DEF Told
      <3> QED
        BY <3>2
    <2>4. CASE Prompted(c, d, In(down[d]), In(todo[c]), In(up[c]))
      <3>1. \A w \in In(todo[c]) : w.do = "write" /\ w.to = d =>
                w \in In(todo'[c]) \/ w.msg \in In(down'[d])
        BY <1>1, <1>2, <2>2
      <3>2. Prompted(c, d, In(down'[d]), In(todo'[c]), In(up'[c]))
        BY <1>1, <1>2, <2>4, <3>1 DEF Prompted
      <3> QED
        BY <3>2
    <2> QED
      BY <2>1, <2>3, <2>4
  <1> QED
    BY <1>4 DEF OnTheWay

LEMMA EndPunchingForgetsNobody ==
    ASSUME SignalInv, OnTheWay, NEW c \in Clients, NEW v \in Vips, NEW result \in Outcomes,
           Signals!EndPunching(c, v, result)
    PROVE  OnTheWay'
  <1>1. \A d \in Clients, w \in Vips : links'[d][w].addr = links[d][w].addr
    BY EndPunchingKeeps
  <1>2. UNCHANGED <<todo, manager, up, down>>
    BY DEF Signals!EndPunching, Signals!server
  <1>3. \A d \in Clients, w \in Vips : links[d][w] # Unlinked => links'[d][w] # Unlinked
    <2>1. links \in LinkTables
      BY LinksTyped DEF SignalInv
    <2>2. \A d \in Clients, w \in Vips : links[d][w] # Unlinked => links[d][w].addr \in Clients
      BY <2>1 DEF LinkTables
    <2>3. Unlinked.addr \notin Clients
      BY SignallingAssumption DEF Unlinked
    <2> QED
      BY <1>1, <2>2, <2>3
  <1> QED
    BY <1>2, <1>3, VipsOf, NothingDropped

LEMMA IntroductionStep ==
    ASSUME SignalInv, OnTheWay, [Signals!Next]_Signals!vars
    PROVE  OnTheWay'
  <1>1. CASE UNCHANGED Signals!vars
    BY <1>1 DEF Signals!vars, Signals!server, Signals!client, OnTheWay
  <1>2. CASE Signals!Next
    <2>1. PICK c \in Clients :
              \/ Signals!Join(c) \/ Signals!InitP2P(c) \/ Signals!Receive(c)
              \/ Signals!Depart(c) \/ Signals!Handle(c)
              \/ \E v \in Vips, result \in Outcomes : Signals!EndPunching(c, v, result)
      BY <1>2 DEF Signals!Next, Signals!Vips, Vips
    <2>2. CASE Signals!Receive(c)
      BY <2>2, HandleUpdateForgetsNobody, AnswerForgetsNobody DEF Signals!Receive
    <2>3. CASE Signals!Handle(c)
      BY <2>3, PunchReqForgetsNobody, RelayForgetsNobody, LeaveForgetsNobody,
         UpkeepForgetsNobody, SentForgetsNobody DEF Signals!Handle
    <2> QED
      BY <2>1, <2>2, <2>3, JoinForgetsNobody, InitP2PForgetsNobody, DepartForgetsNobody,
         EndPunchingForgetsNobody
  <1> QED
    BY <1>1, <1>2

-----------------------------------------------------------------------------
(* Whose address it may be.  A link for the virtual IP of a member need    *)
(* not be with that member: the address may be another's that had it.  But *)
(* addresses come from clients that have joined, and of two members no two *)
(* have one virtual IP; so the other is one that has left.                 *)
HaveJoined == {c \in Clients : stage[c] # "out"}

Names(m, who) == m.type # "PeerUpdate" => m.addr \in who \cup {None}

NamesHaveJoined ==
    /\ \A c \in Clients : udpAddr[c] \in HaveJoined \cup {None}
    /\ \A c \in Clients, v \in Vips : links[c][v].addr \in HaveJoined \cup {None}
    /\ \A c \in Clients : \A m \in In(down[c]) : Names(m, HaveJoined)
    /\ \A c \in Clients : \A w \in In(todo[c]) : w.do = "write" => Names(w.msg, HaveJoined)

MembersDiffer == \A c, d \in members : VipOf[c] = VipOf[d] => c = d

(* Nobody is out again; what is new names those that have joined.          *)
LEMMA NamesKeep ==
    ASSUME NamesHaveJoined, HaveJoined \subseteq HaveJoined',
           \A c \in Clients : udpAddr'[c] \in {udpAddr[c]} \cup HaveJoined',
           \A c \in Clients, v \in Vips :
              links'[c][v].addr \in {links[c][v].addr, None} \cup HaveJoined',
           \A c \in Clients : \A m \in In(down'[c]) : m \in In(down[c]) \/ Names(m, HaveJoined'),
           \A c \in Clients : \A w \in In(todo'[c]) :
              w.do = "write" => w \in In(todo[c]) \/ Names(w.msg, HaveJoined')
    PROVE  NamesHaveJoined'
  <1> DEFINE before == HaveJoined
             after == HaveJoined'
  <1>1. before \subseteq after
    OBVIOUS
  <1>2. \A m : Names(m, before) => Names(m, after)
    BY <1>1 DEF Names
  <1>3. \A c \in Clients : udpAddr'[c] \in after \cup {None}
    BY <1>1 DEF NamesHaveJoined
  <1>4. \A c \in Clients, v \in Vips : links'[c][v].addr \in after \cup {None}
    BY <1>1 DEF NamesHaveJoined
  <1>5. \A c \in Clients : \A m \in In(down'[c]) : Names(m, after)
    BY <1>2 DEF NamesHaveJoined
  <1>6. \A c \in Clients : \A w \in In(todo'[c]) : w.do = "write" => Names(w.msg, after)
    BY <1>2 DEF NamesHaveJoined
  <1> QED
    BY <1>3, <1>4, <1>5, <1>6 DEF NamesHaveJoined, Names

LEMMA JoinedStay ==
    ASSUME SignalInv, NEW c \in Clients, NEW s,
           stage' = [stage EXCEPT ![c] = s], s # "out"
    PROVE  HaveJoined \subseteq HaveJoined' /\ \A d \in Clients : d # c => stage'[d] = stage[d]
  BY DEF SignalInv, Signals!TypeOK, HaveJoined

LEMMA ClientsNameJoined ==
    ASSUME SignalInv, NamesHaveJoined, NEW c \in Clients,
           \/ Signals!Join(c) \/ Signals!InitP2P(c) \/ Signals!HandleUpdate(c)
           \/ Signals!HandleOffer(c) \/ Signals!HandleAnswer(c) \/ Signals!Depart(c)
    PROVE  NamesHaveJoined'
  <1>1. CASE Signals!Join(c)
    <2>1. /\ stage' = [stage EXCEPT ![c] = "joined"]
          /\ \A d \in Clients : d # c => todo'[d] = todo[d]
          /\ \A w \in In(todo'[c]) : w.do # "write"
          /\ UNCHANGED <<udpAddr, links, down>>
      BY <1>1, JoinEffect
    <2>2. HaveJoined \subseteq HaveJoined'
      BY <2>1, JoinedStay
    <2> QED
      BY <2>1, <2>2, NamesKeep
  <1>2. CASE Signals!InitP2P(c)
    <2>1. /\ stage' = [stage EXCEPT ![c] = "in"] /\ UNCHANGED <<udpAddr, todo, links, down>>
      BY <1>2, InitP2PEffect
    <2>2. HaveJoined \subseteq HaveJoined'
      BY <2>1, JoinedStay
    <2> QED
      BY <2>1, <2>2, NamesKeep
  <1>3. CASE Signals!HandleUpdate(c)
    <2>1. Signals!Receives(c, "PeerUpdate") /\ UNCHANGED links
      BY <1>3, HandleUpdateEffect
    <2>2. /\ \A d \in Clients : d # c => down'[d] = down[d]
          /\ In(down'[c]) \subseteq In(down[c])
          /\ UNCHANGED <<udpAddr, todo, stage>>
      BY <2>1, ReceivesEffect DEF SignalInv
    <2>3. HaveJoined' = HaveJoined
      BY <2>2 DEF HaveJoined
    <2> QED
      BY <2>1, <2>2, <2>3, NamesKeep
  <1>4. CASE Signals!HandleOffer(c) \/ Signals!HandleAnswer(c)
    <2> DEFINE h == Head(down[c])
    <2>1. PICK type : Signals!Receives(c, type)
      BY <1>4, AnswerEffect
    <2>2. /\ h.type # "PeerUpdate"
          /\ \/ Signals!Usable(c) /\ Signals!AddPeer(c, h.vip, h.addr)
             \/ ~Signals!Usable(c) /\ links' = links
      BY <1>4, AnswerEffect
    <2>3. /\ \A d \in Clients : d # c => down'[d] = down[d]
          /\ In(down[c]) = {h} \cup In(down'[c])
          /\ UNCHANGED <<udpAddr, todo, stage>>
      BY <2>1, ReceivesEffect DEF SignalInv
    <2>4. HaveJoined' = HaveJoined
      BY <2>3 DEF HaveJoined
    <2>5. CASE ~Signals!Usable(c) /\ links' = links
      BY <2>3, <2>4, <2>5, NamesKeep
    <2>6. CASE Signals!Usable(c) /\ Signals!AddPeer(c, h.vip, h.addr)
      <3>1. h.vip \in Vips /\ h.addr \in Clients
        BY <2>1, <2>2, <2>6, UsableNames
      <3>2. /\ links'[c][h.vip].addr = h.addr \/ links'[c][h.vip] = links[c][h.vip]
            /\ \A d \in Clients, w \in Vips : d # c \/ w # h.vip => links'[d][w] = links[d][w]
        BY <2>6, <3>1, AddPeerEffect DEF SignalInv
      <3>3. h.addr \in HaveJoined
        <4>1. Names(h, HaveJoined)
          BY <2>3 DEF NamesHaveJoined
        <4> QED
          BY <2>2, <3>1, <4>1, SignallingAssumption DEF Names
      <3> HIDE DEF h
      <3>4. \A d \in Clients, w \in Vips :
                links'[d][w].addr \in {links[d][w].addr, None} \cup HaveJoined'
        BY <2>4, <3>2, <3>3
      <3> QED
        BY <2>3, <2>4, <3>4, NamesKeep
    <2> QED
      BY <2>2, <2>5, <2>6
  <1>5. CASE Signals!Depart(c)
    <2>1. /\ stage' = [stage EXCEPT ![c] = "left"]
          /\ links' = [links EXCEPT ![c] = [v \in Vips |-> Unlinked]]
          /\ down' = [down EXCEPT ![c] = <<>>]
          /\ UNCHANGED <<udpAddr, todo>>
      BY <1>5, DepartEffect
    <2>2. HaveJoined \subseteq HaveJoined'
      BY <2>1, JoinedStay
    <2>3. links \in LinkTables /\ down \in [Clients -> Seq(Signals!Messages)]
      BY LinksTyped, ServerTypes DEF SignalInv
    <2>4. \A d \in Clients, v \in Vips : links'[d][v].addr \in {links[d][v].addr, None}
      <3>1. \A d \in Clients, v \in Vips : links'[d][v] \in {links[d][v], Unlinked}
        BY <2>1, <2>3 DEF LinkTables
      <3> QED
        BY <3>1 DEF Unlinked
    <2>5. \A d \in Clients : In(down'[d]) \subseteq In(down[d])
      BY <2>1, <2>3, InNothing
    <2> QED
      BY <2>1, <2>2, <2>4, <2>5, NamesKeep
  <1> QED
    BY <1>1, <1>2, <1>3, <1>4, <1>5

(* What is sent names who is named in the message.                         *)
LEMMA SendNames ==
    ASSUME SignalInv, NEW c \in Clients, NEW m \in Signals!Messages, Signals!Send(c, m)
    PROVE  \A d \in Clients : \A n \in In(down'[d]) : n \in In(down[d]) \/ n = m
  <1>1. /\ \A d \in Clients : d # c => down'[d] = down[d]
        /\ In(down'[c]) \subseteq In(down[c]) \cup {m}
    BY SendEffect DEF SignalInv
  <1> QED
    BY <1>1

LEMMA ServerNamesJoined ==
    ASSUME SignalInv, NamesHaveJoined, NEW c \in Clients, Signals!Handle(c)
    PROVE  NamesHaveJoined'
  <1>1. CASE Signals!HandlePunchReq(c)
    <2> DEFINE offer == Signals!Msg("Offer", virtualIP[c], udpAddr[c])
    <2>1. /\ Signals!Takes(c, "PunchReq") /\ UNCHANGED udpAddr
          /\ \/ UNCHANGED <<todo, down>>
             \/ \E target \in members \ {c} :
                   /\ Signals!Send(target, offer)
                   /\ \A d \in Clients : d # c => todo'[d] = todo[d]
                   /\ In(todo'[c]) = {[do |-> "describe", peer |-> target]}
      BY <1>1, PunchReqEffect
    <2>2. UNCHANGED <<stage, links>>
      BY <2>1, TakesEffect DEF SignalInv
    <2>3. HaveJoined' = HaveJoined
      BY <2>2 DEF HaveJoined
    <2>4. CASE UNCHANGED <<todo, down>>
      BY <2>1, <2>2, <2>3, <2>4, NamesKeep
    <2>5. ASSUME NEW target \in members \ {c}, Signals!Send(target, offer),
                 \A d \in Clients : d # c => todo'[d] = todo[d],
                 In(todo'[c]) = {[do |-> "describe", peer |-> target]}
          PROVE  NamesHaveJoined'
      <3>1. /\ target \in Clients /\ virtualIP[c] \in Vips \cup {None}
            /\ udpAddr[c] \in Clients \cup {None}
        BY ServerTypes
      <3>2. offer \in Signals!Messages /\ offer.addr = udpAddr[c]
        BY <3>1, MessageTypes
      <3>3. Names(offer, HaveJoined)
        BY <3>2 DEF Names, NamesHaveJoined
      <3> HIDE DEF offer
      <3>4. \A d \in Clients : \A m \in In(down'[d]) :
                m \in In(down[d]) \/ Names(m, HaveJoined')
        BY <2>3, <2>5, <3>1, <3>2, <3>3, SendNames
      <3>5. \A w \in In(todo'[c]) : w.do # "write"
        BY <2>5
      <3> QED
        BY <2>1, <2>2, <2>3, <2>5, <3>4, <3>5, NamesKeep
    <2> QED
      BY <2>1, <2>4, <2>5
  <1>2. ASSUME NEW type \in {"Offer", "Answer"}, Signals!Relay(c, type)
        PROVE  NamesHaveJoined'
    <2> DEFINE m0 == Signals!Msg(type, virtualIP[c], c)
    <2>1. /\ Signals!Takes(c, type) /\ UNCHANGED down
          /\ udpAddr' = [udpAddr EXCEPT ![c] = c]
          /\ \A d \in Clients : d # c => todo'[d] = todo[d]
          /\ In(todo'[c]) = {Signals!Write(d, m0) : d \in members \ {c}}
      BY <1>2, RelayEffect
    <2>2. up[c] # <<>> /\ UNCHANGED <<stage, links>>
      BY <2>1, TakesEffect DEF SignalInv
    <2>3. HaveJoined' = HaveJoined
      BY <2>2 DEF HaveJoined
    <2>4. c \in HaveJoined
      BY <2>2 DEF SignalInv, MembersStay, HaveJoined
    <2>5. m0.addr = c
      <3>1. /\ virtualIP[c] \in Vips \cup {None} /\ c \in Clients \cup {None}
            /\ type \in {"PunchReq", "Offer", "Answer", "PunchResp", "Leave"}
        BY ServerTypes
      <3> QED
        BY <3>1, MessageTypes
    <2>6. Names(m0, HaveJoined)
      BY <2>4, <2>5 DEF Names
    <2> HIDE DEF m0
    <2>7. \A w \in In(todo'[c]) : w.msg = m0
      BY <2>1 DEF Signals!Write
    <2>8. \A d \in Clients : udpAddr'[d] \in {udpAddr[d]} \cup HaveJoined'
      BY <2>1, <2>3, <2>4, ServerTypes
    <2> QED
      BY <2>1, <2>2, <2>3, <2>6, <2>7, <2>8, NamesKeep
  <1>3. CASE Signals!Leave(c)
    <2>1. /\ Signals!Takes(c, "Leave") /\ UNCHANGED <<udpAddr, down>>
          /\ \A d \in Clients : d # c => todo'[d] = todo[d]
          /\ \A w \in In(todo'[c]) : w.do # "write"
      BY <1>3, LeaveEffect
    <2>2. UNCHANGED <<stage, links>>
      BY <2>1, TakesEffect DEF SignalInv
    <2>3. HaveJoined' = HaveJoined
      BY <2>2 DEF HaveJoined
    <2> QED
      BY <2>1, <2>2, <2>3, NamesKeep
  <1>4. CASE Signals!RemoveMember(c) \/ Signals!Broadcast(c)
    <2>1. /\ UNCHANGED <<udpAddr, stage, links, down>>
          /\ \A d \in Clients : d # c => todo'[d] = todo[d]
          /\ \A w \in In(todo'[c]) :
                w \in In(todo[c]) \/ (w.do = "write" /\ w.msg.type = "PeerUpdate")
      BY <1>4, RemoveMemberEffect, BroadcastEffect
    <2>2. HaveJoined' = HaveJoined
      BY <2>1 DEF HaveJoined
    <2>3. \A w \in In(todo'[c]) : w \in In(todo[c]) \/ Names(w.msg, HaveJoined')
      BY <2>1 DEF Names
    <2> QED
      BY <2>1, <2>2, <2>3, NamesKeep
  <1>5. CASE Signals!Describe(c) \/ Signals!WriteMessage(c)
    <2> DEFINE t == Head(todo[c])
               answer == Signals!Msg("PunchResp", virtualIP[t.peer], udpAddr[t.peer])
    <2>1. /\ UNCHANGED <<udpAddr, stage, links>>
          /\ \A d \in Clients : d # c => todo'[d] = todo[d]
          /\ In(todo[c]) = {t} \cup In(todo'[c])
          /\ \/ t.peer \in Clients /\ Signals!Send(c, answer)
             \/ /\ t.do = "write" /\ t.to \in Clients /\ t.msg \in Signals!Messages
                /\ Signals!Send(t.to, t.msg)
      BY <1>5, SentEffect
    <2> HIDE DEF t
    <2>2. HaveJoined' = HaveJoined
      BY <2>1 DEF HaveJoined
    <2>3. \A d \in Clients : \A m \in In(down'[d]) :
              m \in In(down[d]) \/ Names(m, HaveJoined)
      <3>1. CASE t.peer \in Clients /\ Signals!Send(c, answer)
        <4>1. virtualIP[t.peer] \in Vips \cup {None} /\ udpAddr[t.peer] \in Clients \cup {None}
          BY <3>1, ServerTypes
        <4>2. answer \in Signals!Messages /\ answer.addr = udpAddr[t.peer]
          BY <4>1, MessageTypes, Z3
        <4>3. Names(answer, HaveJoined)
          BY <3>1, <4>2 DEF Names, NamesHaveJoined
        <4> HIDE DEF answer
        <4> QED
          BY <3>1, <4>2, <4>3, SendNames
      <3>2. CASE /\ t.do = "write" /\ t.to \in Clients /\ t.msg \in Signals!Messages
                 /\ Signals!Send(t.to, t.msg)
        <4>1. Names(t.msg, HaveJoined)
          BY <2>1, <3>2 DEF NamesHaveJoined
        <4> QED
          BY <3>2, <4>1, SendNames
      <3> QED
        BY <2>1, <3>1, <3>2
    <2> QED
      BY <2>1, <2>2, <2>3, NamesKeep
  <1> QED
    BY <1>1, <1>2, <1>3, <1>4, <1>5 DEF Signals!Handle

LEMMA NamesStep ==
    ASSUME SignalInv, NamesHaveJoined, [Signals!Next]_Signals!vars
    PROVE  NamesHaveJoined'
  <1>1. CASE UNCHANGED Signals!vars
    BY <1>1 DEF Signals!vars, Signals!server, Signals!client, NamesHaveJoined, HaveJoined, Names
  <1>2. ASSUME NEW c \in Clients, NEW v \in Vips, NEW result \in Outcomes,
               Signals!EndPunching(c, v, result)
        PROVE  NamesHaveJoined'
    <2>1. /\ \A d \in Clients, w \in Vips : links'[d][w].addr = links[d][w].addr
          /\ UNCHANGED <<udpAddr, stage, todo, down>>
      BY <1>2, EndPunchingKeeps DEF Signals!EndPunching, Signals!server
    <2>2. HaveJoined' = HaveJoined
      BY <2>1 DEF HaveJoined
    <2> QED
      BY <2>1, <2>2, NamesKeep
  <1>3. CASE Signals!Next
    BY <1>2, <1>3, ClientsNameJoined, ServerNamesJoined
    DEF Signals!Next, Signals!Receive, Signals!Vips, Vips
  <1> QED
    BY <1>1, <1>3

(* An address is given to one member at a time (Join).                     *)
LEMMA MembersDifferStep ==
    ASSUME SignalInv, MembersDiffer, [Signals!Next]_Signals!vars
    PROVE  MembersDiffer'
  <1>1. \/ members' \subseteq members
        \/ \E c \in Clients : /\ members' = members \cup {c}
                              /\ \A d \in members : VipOf[d] # VipOf[c]
    BY DEF Signals!Next, Signals!Join, Signals!InitP2P, Signals!Receive, Signals!HandleUpdate,
       Signals!HandleOffer, Signals!HandleAnswer, Signals!Receives, Signals!Depart,
       Signals!Handle, Signals!HandlePunchReq, Signals!Relay, Signals!Leave, Signals!Takes,
       Signals!RemoveMember, Signals!Broadcast, Signals!Describe, Signals!WriteMessage,
       Signals!EndPunching, Signals!server, Signals!vars
  <1> QED
    BY <1>1 DEF MembersDiffer

(* When nothing is under way, each of two members with a manager has been  *)
(* given the address of the other (server.go:610-797), whoever came first, *)
(* however the offers, the answers and the requests crossed, and however   *)
(* often clients left and came back with the leases they had; unless it    *)
(* still has a link with one that had the same virtual IP and has left,    *)
(* which Manager.AddPeer (p2p.go:179) does not give up for the new one.    *)
THEOREM NobodyIsForgotten == Signals!Spec => []IntroducedAtRest
  <1>1. Signals!Init => OnTheWay /\ NamesHaveJoined /\ MembersDiffer
    BY InNothing DEF Signals!Init, OnTheWay, NamesHaveJoined, MembersDiffer, Signals!Vips, Vips,
       Signals!Unlinked
  <1>2. SignalInv /\ OnTheWay /\ [Signals!Next]_Signals!vars => OnTheWay'
    BY IntroductionStep
  <1>3. SignalInv /\ NamesHaveJoined /\ [Signals!Next]_Signals!vars => NamesHaveJoined'
    BY NamesStep
  <1>4. SignalInv /\ MembersDiffer /\ [Signals!Next]_Signals!vars => MembersDiffer'
    BY MembersDifferStep
  <1>5. SignalInv /\ OnTheWay /\ NamesHaveJoined /\ MembersDiffer => IntroducedAtRest
    <2> SUFFICES ASSUME SignalInv, OnTheWay, NamesHaveJoined, MembersDiffer, Rest,
                        NEW c \in Clients, NEW d \in Clients, c # d, manager[c], manager[d]
                 PROVE  links[c][VipOf[d]].addr \in {d} \cup {e \in Gone : VipOf[e] = VipOf[d]}
      BY DEF IntroducedAtRest
    <2> DEFINE e == links[c][VipOf[d]].addr
    <2>1. links[c][VipOf[d]] # Unlinked
      BY InNothing DEF OnTheWay, Rest, Told, Prompted
    <2>2. VipOf[d] \in Vips /\ d \in members
      BY VipsOf DEF SignalInv, MembersStay
    <2>3. e \in Clients /\ VipOf[e] = VipOf[d]
      <3>1. links \in LinkTables
        BY LinksTyped DEF SignalInv
      <3>2. e \in Clients
        BY <2>1, <2>2, <3>1 DEF LinkTables
      <3> QED
        BY <2>1, <2>2, <3>2 DEF SignalInv, AddressesAreTheirs
    <2>4. stage[e] # "out"
      BY <2>2, <2>3, SignallingAssumption DEF NamesHaveJoined, HaveJoined
    <2> HIDE DEF e
    <2>5. e # d => e \notin members
      BY <2>2, <2>3 DEF MembersDiffer
    <2>6. e # d => stage[e] = "left"
      BY <2>3, <2>4, <2>5 DEF SignalInv, MembersStay, Signals!TypeOK
    <2> QED
      BY <2>3, <2>5, <2>6 DEF Gone, e
  <1> QED
    BY <1>1, <1>2, <1>3, <1>4, <1>5, SignalInductive, PTL DEF Signals!Spec
=============================================================================
