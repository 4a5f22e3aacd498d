-------------------------- MODULE PeerLinksProofs --------------------------
(***************************************************************************)
(* What PeerLinks keeps for any peers, addresses and offers.  The property *)
(* about goroutines is not inductive by itself: that a new one starts for  *)
(* a peer only when none is there rests on the mark in the link, and that  *)
(* the mark is true rests on the goroutine's link being the current one.   *)
(***************************************************************************)
EXTENDS PeerLinks, TLAPS

(* The entry of a virtual IP is a link of that virtual IP.                 *)
Filed == \A v \in Known : link[current[v]] \in LinkObjects /\ link[current[v]].vip = v

(* A goroutine works on a link that is current and marked.                 *)
Marked ==
    \A i \in Punching :
        link[i] \in LinkObjects /\ current[link[i].vip] = i /\ link[i].punching

(* A mark on a current link has its goroutine.                             *)
Working == \A v \in Known : link[current[v]].punching => current[v] \in Punching

IInv == TypeOK /\ Filed /\ Marked /\ Working /\ OnlyHeardAddresses

LEMMA OfferTypes ==
    ASSUME NEW v \in VIPs, NEW o \in Offers[v]
    PROVE  o.addr \in Addresses /\ Candidates(o) \in SUBSET Addresses
  <1>1. /\ o.addr \in Addresses /\ o.candidates \subseteq Addresses
        /\ o.addr.host \in Hosts
    BY LinksAssumption DEF Addresses
  <1>2. ASSUME NEW p \in FirstPort .. LastPort
        PROVE  [o.addr EXCEPT !.port = p] \in Addresses
    <2>1. p \in Ports
      BY LinksAssumption
    <2> QED
      BY <1>1, <2>1 DEF Addresses
  <1>3. Predicted(o.addr) \subseteq Addresses
    BY <1>2 DEF Predicted
  <1> QED
    BY <1>1, <1>3 DEF Candidates

LEMMA InitHolds == Init => IInv
  BY LinksAssumption
     DEF Init, IInv, TypeOK, Filed, Marked, Working, OnlyHeardAddresses, Known, Punching, Stages

LEMMA AddPeerStep ==
    ASSUME IInv, NEW v \in VIPs, NEW o \in Offers[v], AddPeer(v, o)
    PROVE  IInv'
  <1> USE DEF IInv
  <1>1. PICK i \in Unused :
            /\ link' = [link EXCEPT ![i] =
                   [vip |-> v, addr |-> o.addr, candidates |-> Candidates(o),
                    active |-> FALSE, punching |-> TRUE]]
            /\ current' = [current EXCEPT ![v] = i]
            /\ stage' = [stage EXCEPT ![i] = "probing"]
    BY DEF AddPeer
  <1> DEFINE new == [vip |-> v, addr |-> o.addr, candidates |-> Candidates(o),
                     active |-> FALSE, punching |-> TRUE]
  <1>2. new \in LinkObjects /\ new.vip = v /\ ~new.active /\ new.punching
    BY OfferTypes DEF LinkObjects
  <1> HIDE DEF new
  <1>3. /\ i \in Links /\ stage[i] = "none" /\ \A w \in VIPs : current[w] # i
        /\ i # NoLink
    BY LinksAssumption DEF Unused
  <1>4. /\ link' = [link EXCEPT ![i] = new]
        /\ current' = [current EXCEPT ![v] = i]
        /\ stage' = [stage EXCEPT ![i] = "probing"]
        /\ UNCHANGED <<heard, closed, reading>>
    BY <1>1 DEF AddPeer, new
  <1>5. /\ link'[i] = new /\ current'[v] = i /\ stage'[i] = "probing"
        /\ \A j \in Links \ {i} : link'[j] = link[j] /\ stage'[j] = stage[j]
        /\ \A w \in VIPs \ {v} : current'[w] = current[w]
    BY <1>3, <1>4 DEF TypeOK
  <1>6. TypeOK'
    BY <1>2, <1>3, <1>4 DEF TypeOK, Stages
  <1>7. /\ v \in Known' /\ i \in Punching'
        /\ \A w \in Known' \ {v} : w \in Known /\ current[w] \in Links \ {i}
        /\ \A j \in Punching' \ {i} : j \in Punching
    BY <1>3, <1>5 DEF Known, Punching, TypeOK
  <1>8. Filed'
    BY <1>2, <1>5, <1>7 DEF Filed, Known
  <1>9. Working'
    <2>1. \A w \in Known \ {v} : current[w] \in Punching => current[w] \in Punching'
      BY <1>5, <1>7 DEF Punching
    <2> QED
      BY <1>2, <1>5, <1>7, <2>1 DEF Working, Known, Punching
  <1>10. Marked'
    <2>1. ASSUME NEW j \in Punching' \ {i}
          PROVE  /\ link'[j] \in LinkObjects /\ current'[link'[j].vip] = j
                 /\ link'[j].punching
      <3>1. /\ j \in Punching /\ j \in Links /\ link[j] \in LinkObjects
            /\ current[link[j].vip] = j /\ link[j].punching
        BY <1>7 DEF Marked, Punching
      <3>2. link'[j] = link[j]
        BY <1>5, <3>1
      <3>3. link[j].vip \in VIPs
        BY <3>1 DEF LinkObjects
      <3>4. link[j].vip # v
        <4> SUFFICES ASSUME link[j].vip = v PROVE FALSE
          OBVIOUS
        <4>1. current[v] = j
          BY <3>1
        <4>2. v \in Known
          BY <3>1, <4>1, LinksAssumption DEF Known
        <4>3. ~link[current[v]].punching
          BY <4>2 DEF AddPeer, MayPunch
        <4> QED
          BY <3>1, <4>1, <4>3
      <3> QED
        BY <1>5, <3>1, <3>2, <3>3, <3>4
    <2>2. link'[i] \in LinkObjects /\ current'[link'[i].vip] = i /\ link'[i].punching
      BY <1>2, <1>5
    <2> QED
      BY <2>1, <2>2 DEF Marked
  <1>11. OnlyHeardAddresses'
    BY <1>2, <1>4, <1>5, <1>7 DEF OnlyHeardAddresses, Known
  <1> QED
    BY <1>6, <1>8, <1>9, <1>10, <1>11

(* Steps of a goroutine that only say what it does next.                   *)
LEMMA StageStep ==
    ASSUME IInv, NEW i \in Punching, NEW s \in Stages \ {"none"},
           stage' = [stage EXCEPT ![i] = s],
           UNCHANGED <<current, link, heard, closed, reading>>
    PROVE  IInv'
  <1>1. Punching' = Punching
    BY DEF Punching, IInv, TypeOK
  <1>2. Known' = Known
    BY DEF Known
  <1>3. TypeOK'
    BY DEF IInv, TypeOK, Punching
  <1> QED
    BY <1>1, <1>2, <1>3 DEF IInv, Filed, Marked, Working, OnlyHeardAddresses

LEMMA GoroutineStep ==
    ASSUME IInv, NEW i \in Links, punchHole(i)
    PROVE  IInv'
  <1>1. i \in Punching
    BY DEF punchHole, Established, Deadline, GiveUp, Stopped, End, Punching
  <1>2. link[i] \in LinkObjects /\ current[link[i].vip] = i /\ link[i].vip \in VIPs
    BY <1>1 DEF IInv, Marked, LinkObjects
  <1>4. CASE Established(i)
    BY <1>1, <1>4, StageStep DEF Established, Goto, Stages, IInv, TypeOK
  <1>5. CASE Deadline(i)
    BY <1>1, <1>5, StageStep DEF Deadline, Goto, Stages, IInv, TypeOK
  <1>6. CASE GiveUp(i)
    BY <1>1, <1>2, <1>6, StageStep DEF GiveUp, Goto, Stages, IInv, TypeOK
  <1>7. CASE Stopped(i)
    BY <1>1, <1>7, StageStep DEF Stopped, Goto, Stages, IInv, TypeOK
  <1>8. CASE End(i)
    <2>1. /\ link' = [link EXCEPT ![i].punching = FALSE]
          /\ stage' = [stage EXCEPT ![i] = "none"]
          /\ UNCHANGED <<current, heard, closed, reading>>
      BY <1>2, <1>8 DEF End, Goto
    <2>2. /\ link'[i] \in LinkObjects /\ link'[i].vip = link[i].vip
          /\ link'[i].addr = link[i].addr /\ link'[i].active = link[i].active
          /\ ~link'[i].punching
          /\ \A j \in Links \ {i} : link'[j] = link[j]
      BY <1>2, <2>1 DEF IInv, TypeOK, LinkObjects
    <2>3. Punching' = Punching \ {i}
      BY <2>1 DEF Punching, IInv, TypeOK
    <2>4. Known' = Known /\ \A v \in Known : current[v] \in Links
      BY <2>1 DEF Known, IInv, TypeOK
    <2>5. TypeOK'
      BY <2>1, <2>2 DEF IInv, TypeOK, Stages
    <2>6. Filed'
      <3>1. \A v \in Known : link'[current[v]] \in LinkObjects /\ link'[current[v]].vip = v
        <4> SUFFICES ASSUME NEW v \in Known
                     PROVE  link'[current[v]] \in LinkObjects /\ link'[current[v]].vip = v
          OBVIOUS
        <4>1. CASE current[v] = i
          BY <2>2, <4>1 DEF IInv, Filed
        <4>2. CASE current[v] # i
          BY <2>2, <2>4, <4>2 DEF IInv, Filed
        <4> QED
          BY <4>1, <4>2
      <3> QED
        BY <2>1, <2>4, <3>1 DEF Filed
    <2>7. Marked'
      BY <2>1, <2>2, <2>3 DEF IInv, Marked, Punching
    <2>8. Working'
      BY <2>1, <2>2, <2>3, <2>4 DEF IInv, Working
    <2>9. OnlyHeardAddresses'
      BY <2>1, <2>2, <2>4 DEF IInv, OnlyHeardAddresses
    <2> QED
      BY <2>5, <2>6, <2>7, <2>8, <2>9 DEF IInv
  <1> QED
    BY <1>4, <1>5, <1>6, <1>7, <1>8 DEF punchHole

LEMMA ProbeStep ==
    ASSUME IInv, NEW from \in Addresses, handleProbe(from)
    PROVE  IInv'
  <1>1. CASE UNCHANGED link
    BY <1>1 DEF handleProbe, IInv, TypeOK, Filed, Marked, Working, OnlyHeardAddresses,
                Known, Punching
  <1>2. CASE ~UNCHANGED link
    <2>1. PICK v \in Matches(from) :
              link' = [link EXCEPT ![current[v]].addr = from, ![current[v]].active = TRUE]
      BY <1>2 DEF handleProbe
    <2>2. v \in Known /\ v \in VIPs /\ current[v] \in Links
      BY DEF Matches, Exact, SameHost, OnLAN, Known, IInv, TypeOK
    <2> DEFINE i == current[v]
    <2>3. /\ UNCHANGED <<current, stage, closed>>
          /\ heard' = heard \cup {from} /\ reading' \in BOOLEAN
      BY DEF handleProbe, IInv, TypeOK
    <2>4. link[i] \in LinkObjects
      BY <2>2 DEF IInv, Filed
    <2>5. /\ link'[i] \in LinkObjects /\ link'[i].vip = link[i].vip
          /\ link'[i].addr = from /\ link'[i].punching = link[i].punching
          /\ \A j \in Links \ {i} : link'[j] = link[j]
      BY <2>1, <2>2, <2>4 DEF IInv, TypeOK, LinkObjects
    <2>6. Known' = Known /\ Punching' = Punching /\ \A w \in Known : current[w] \in Links
      BY <2>3 DEF Known, Punching, IInv, TypeOK
    <2>7. TypeOK'
      BY <2>1, <2>2, <2>3, <2>5 DEF IInv, TypeOK
    <2>8. Filed'
      BY <2>2, <2>3, <2>5, <2>6 DEF IInv, Filed
    <2>9. Marked'
      BY <2>2, <2>3, <2>5, <2>6 DEF IInv, Marked, Punching
    <2>10. Working'
      BY <2>2, <2>3, <2>5, <2>6 DEF IInv, Working
    <2>11. OnlyHeardAddresses'
      BY <2>2, <2>3, <2>5, <2>6 DEF IInv, OnlyHeardAddresses
    <2> QED
      BY <2>7, <2>8, <2>9, <2>10, <2>11 DEF IInv
  <1> QED
    BY <1>1, <1>2

LEMMA StepHolds == IInv /\ [Next]_vars => IInv'
  <1> SUFFICES ASSUME IInv, [Next]_vars PROVE IInv'
    OBVIOUS
  <1>1. CASE UNCHANGED vars
    BY <1>1 DEF vars, IInv, TypeOK, Filed, Marked, Working, OnlyHeardAddresses, Known, Punching
  <1>2. CASE Close
    BY <1>2 DEF Close, IInv, TypeOK, Filed, Marked, Working, OnlyHeardAddresses,
                Known, Punching
  <1> QED
    BY <1>1, <1>2, AddPeerStep, GoroutineStep, ProbeStep DEF Next

LEMMA Invariance == Spec => []IInv
  BY InitHolds, StepHolds, PTL DEF Spec

(* The state of the manager keeps its types under every order of AddPeer,  *)
(* probes, deadlines and Close.                                            *)
THEOREM ManagerTyped == Spec => []TypeOK
  <1>1. IInv => TypeOK
    BY DEF IInv
  <1> QED
    BY Invariance, <1>1, PTL

(* There is never more than one punchHole goroutine for a peer, for any    *)
(* number of peers, offers and repeated calls of AddPeer.                  *)
THEOREM OnePuncher == Spec => []OnePuncherPerPeer
  <1>1. IInv => OnePuncherPerPeer
    BY DEF IInv, Marked, OnePuncherPerPeer
  <1> QED
    BY Invariance, <1>1, PTL

(* The punching mark of a link says whether its goroutine runs.            *)
THEOREM MarksAreTrue == Spec => []MarkIsTrue
  <1>1. ASSUME IInv
        PROVE  MarkIsTrue
    <2>1. ASSUME NEW v \in Known, current[v] \in Punching
          PROVE  link[current[v]].punching
      BY <1>1, <2>1 DEF IInv, Marked
    <2>2. ASSUME NEW v \in Known, link[current[v]].punching
          PROVE  current[v] \in Punching
      BY <1>1, <2>2 DEF IInv, Working
    <2>3. ASSUME NEW v \in Known
          PROVE  link[current[v]].punching \in BOOLEAN
      BY <1>1 DEF IInv, Filed, LinkObjects
    <2> QED
      BY <2>1, <2>2, <2>3 DEF MarkIsTrue
  <1> QED
    BY Invariance, <1>1, PTL

(* A link carries packets only to an address a probe came from.            *)
THEOREM SendsWhereHeard == Spec => []OnlyHeardAddresses
  <1>1. IInv => OnlyHeardAddresses
    BY DEF IInv
  <1> QED
    BY Invariance, <1>1, PTL

(* A link that is up stays up and is never replaced.                       *)
THEOREM LinksStayUp == Spec => ActiveStays
  <1> DEFINE A == \A v \in Known : link[current[v]].active =>
                      current'[v] = current[v] /\ link'[current[v]].active
  <1>1. ASSUME IInv, [Next]_vars
        PROVE  A
    <2> SUFFICES ASSUME NEW v \in Known, link[current[v]].active
                 PROVE  current'[v] = current[v] /\ link'[current[v]].active
      OBVIOUS
    <2>1. v \in VIPs /\ current[v] \in Links /\ link[current[v]] \in LinkObjects
      BY <1>1 DEF Known, IInv, TypeOK, Filed
    <2>2. ASSUME NEW w \in VIPs, NEW o \in Offers[w], AddPeer(w, o)
          PROVE  current'[v] = current[v] /\ link'[current[v]].active
      <3>1. w # v
        BY <2>2 DEF AddPeer, MayPunch
      <3>2. PICK i \in Unused :
                /\ current' = [current EXCEPT ![w] = i]
                /\ \A j \in Links \ {i} : link'[j] = link[j]
        BY <1>1, <2>2 DEF AddPeer, IInv, TypeOK
      <3>3. current[v] # i
        BY <2>1, <3>2 DEF Unused
      <3> QED
        BY <1>1, <2>1, <3>1, <3>2, <3>3 DEF IInv, TypeOK
    <2>3. ASSUME NEW i \in Links, punchHole(i)
          PROVE  current'[v] = current[v] /\ link'[current[v]].active
      <3>1. UNCHANGED current
        BY <2>3 DEF punchHole, Established, Deadline, GiveUp, Stopped, End
      <3>2. UNCHANGED link \/ link' = [link EXCEPT ![i].punching = FALSE]
        BY <2>3 DEF punchHole, Established, Deadline, GiveUp, Stopped, End
      <3>3. CASE link' = [link EXCEPT ![i].punching = FALSE]
        <4>1. /\ link'[i] = [link[i] EXCEPT !.punching = FALSE]
              /\ \A j \in Links \ {i} : link'[j] = link[j]
          BY <1>1, <3>3 DEF IInv, TypeOK
        <4>2. CASE current[v] = i
          BY <2>1, <3>1, <4>1, <4>2 DEF LinkObjects
        <4>3. CASE current[v] # i
          BY <2>1, <3>1, <4>1, <4>3
        <4> QED
          BY <3>1, <4>2, <4>3
      <3> QED
        BY <3>1, <3>2, <3>3
    <2>4. ASSUME NEW from \in Addresses, handleProbe(from)
          PROVE  current'[v] = current[v] /\ link'[current[v]].active
      <3>1. UNCHANGED current
        BY <2>4 DEF handleProbe
      <3>2. CASE UNCHANGED link
        BY <3>1, <3>2
      <3>3. CASE \E w \in Matches(from) : link' =
                    [link EXCEPT ![current[w]].addr = from, ![current[w]].active = TRUE]
        BY <1>1, <2>1, <3>1, <3>3 DEF IInv, TypeOK, LinkObjects
      <3> QED
        BY <2>4, <3>2, <3>3 DEF handleProbe
    <2>5. CASE Close \/ UNCHANGED vars
      BY <2>5 DEF Close, vars
    <2> QED
      BY <1>1, <2>2, <2>3, <2>4, <2>5 DEF Next
  <1> HIDE DEF A
  <1>2. Spec => [][A]_vars
    BY Invariance, <1>1, PTL DEF Spec
  <1> QED
    BY <1>2 DEF ActiveStays, A
=============================================================================
