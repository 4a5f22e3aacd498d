# Verification of GoDQV Networking

TLA+ specifications of GoDQV Networking (a virtual LAN: a Go server that hands out
addresses, relays packets and introduces peers; clients that join rooms and punch
UDP holes to each other), the TLC configurations that check them on small instances,
and proofs checked by TLAPS.

Run a check with `tlc -config <run>.cfg <module>` and a proof with `tlapm
<module>.tla`. `PROJECT.json` lists the runs, what each definition translates, one
mutant per property (the fault operators in the modules, named
`<Definition>_<Fault>`), the findings and the hazards.

## 1. The system

| Component | Source | State | Operations |
|---|---|---|---|
| Address allocator | `pkg/network/ipalloc.go` | `used`, `leases` (user, address, expiry), `nextIP`, subnet | `Allocate`, `AllocateForUser`, `Release`, `ReleaseWithLease`, sweep of expired leases |
| Rooms and relay | `internal/server/server.go` | `s.rooms`, `s.clients`, `room.Clients`, fields of each `Client` | auth, join, leave, disconnect, relay of data, `broadcastPeerUpdate`, keepalive checker |
| Room and user directory | `server.go`, `pkg/store/store.go` | `s.rooms`, tables `rooms` and `users` | create a room, register, log in, load at start |
| P2P signalling | `server.go`, `client.go` | `udpAddr`, `natType`, `candidates` of each client | report an address, PunchReq, PunchResp, Offer, Answer |
| Direct links | `pkg/p2p/p2p.go` | `m.links`, one goroutine per punch, the read loop | `AddPeer`, `punchHole`, `handleProbe`, `SendPacket`, `Close` |
| NAT detection | `pkg/p2p/stun.go` | results of up to three servers, deadlines of the socket | queries, classification, candidates |
| Client | `internal/client/client.go` | connection, token, address, peers, `done` and `closeOnce` | connect, register, create, list and join rooms, receive loop, keepalive, close |
| GUI | `cmd/gui/main.go` | windows, goroutines that make requests, the reader of the TUN device | drives the client |
| Wire format | `pkg/protocol/` | none | framing (`WriteMessage`, `ReadMessage`), encoding |
| Tunnel, server command, icon | `pkg/tunnel`, `cmd/server`, `cmd/gui/icon.go` | OS devices, flags, image bytes | start and stop the above |

**Interaction.** A client speaks over one TCP connection. On the server one
goroutine per connection reads a message, runs its whole handler, and reads the
next; handlers of different connections share `s.mu` (maps of rooms and clients),
one `room.mu` per room (its members), one `client.mu` per client (its fields, and
its connection for most writers) and one mutex per allocator. The handlers take
these one after the other, not together. A client's receive loop feeds peer updates
and signalling messages to its `p2p.Manager`, whose goroutines share `m.mu`; packets
to a peer with an active link go over UDP, all others to the server.

**What is hard.** Joins, departures, lost connections and expiring leases interleave
between the short critical sections; snapshots are written after the lock that made
them consistent is released; a room or user is checked in one section and inserted
in another, and the server may stop in between; a punching goroutine reads its link
without the lock, while probes arrive and offers come in for the same peer;
time-outs race with late answers; most writes to a client are made with its mutex
held and without a deadline, and some without the mutex; each end of a connection
has its own idea of when the other is gone, and the client's requests share one
connection without saying whose reply is whose; the two sides of a direct link
decide on their own what they hear through NATs nobody sees. Section 6 lists what
each hazard's property says, and `PROJECT.json` gives each at its line.

**What makes each component correct.**
- Allocator: no two holders of an address; a lease keeps its address for its user
  until it expires; an address is lost only when a second lease of its user replaces
  the first; a search fails only when nothing is free but perhaps the address that
  was given out last.
- Rooms: the members' map, the clients' fields and the allocator agree; packets go
  to the owner of an address; everyone learns who is there; a join is answered once.
- Directory: a room's subnet is stable and its creator can join it; the numbering
  of subnets goes wrong in two ways only; what was confirmed lasts; a username
  belongs to whoever was told so.
- Direct links: one punching goroutine per peer; it ends and clears its mark;
  packets go only where a probe came from; what is reported is true at the end.
- Locks and connections: no handlers wait for each other in a circle; a client that
  does not read stops nobody else (it does: `locks_stall` in section 4).
- Direct path: a NAT is not mistaken for another kind; what is sent over a link that
  is up arrives; two sides that try meet, and then use the link.
- Wire: the stream is a sequence of whole messages, each understood as it was meant.
- Client: a live client is kept and a silent one dropped; a reply reaches the
  request that caused it; client and server agree on the room; a lost connection is
  noticed.
- Signalling: an address is tried only for the peer it belongs to; two members are
  introduced, unless a link with a former owner of the virtual IP is in the way.

## 2. Modules

| Module | Models | How |
|---|---|---|
| `IPAllocator` | `ipalloc.go` as operators on a record | Addresses are numbers, a subnet is a base and a size. The loop of `allocateLocked` is `FirstFree`, the first of 254 rounds that hits; `Probe(a, k)` is the address of round k in closed form. Time is what is left of each lease. |
| `AddressPromise` | what a room promises about addresses | Abstract: `held` and `reserved` only. |
| `LeasePool` | one allocator and the sessions that use it | One action per method and outcome; `GiveBack` is the call in `handleLeave`. `owed` remembers what was given back. |
| `RoomServer` | the handlers on rooms | One step per critical section or message written; `pc`, `local`, `todo` and `msg` are a handler's position and local variables. |
| `RoomDirectory` | rooms, users, tables, restarts | One step per critical section, SQL statement or reply; `Restart` may come between any two. |
| `PeerLinks` | the `p2p.Manager` of one client | Link objects have identities, as goroutines hold pointers; one step per section of `m.mu`, unlocked read or event. |
| `ServerLocks` | who waits for whom | Handlers as lists of operations still to do, client and room mutexes, connections that hold `Capacity` messages each way, the clients' receive loops and writers. `StuckSets` are the sets of goroutines that wait only for each other. |
| `DirectPath` | from the first STUN query to the first direct packet | Two managers and the NAT of each, a table from destination to port. A handler is one step; what matters is which ports the two sides try. |
| `Codec` | `serialize.go` as operators | A layout for each type of message, and one writer and one reader for each kind of field; a decoder is a chain of readers. The two bytes of a length have `LenBase` values each. |
| `MessageChannel` | what a connection promises | Abstract: what was sent arrives, in order, once. |
| `Wire` | `WriteMessage` and `ReadMessage` on one direction of a connection | A stream of bytes; header and payload are two writes, under the connection's mutex or not. |
| `ClientSession` | one client from login to the end, with its server handler | Goroutines of the GUI, receive loop, keepalive loop; the server's handler and checker; a network that fails and comes back; clocks in ticks. |
| `Introduction` | the state that signalling is about and what it is for | Queues of messages between each client and its handler; a client's address is the client. |
| `Signalling` | how members learn each other's UDP addresses | The steps of handlers and clients on that state. |
| `IPAllocatorProofs` | lemmas on the operators of `IPAllocator` | What an allocation returns, what every operator does to `used` and the leases, and what the search visits; the proofs of both users of the allocator cite them. |
| `LeasePoolProofs`, `RoomServerProofs`, `RoomDirectoryProofs`, `PeerLinksProofs`, `ServerLocksProofs`, `DirectPathProofs`, `ClientSessionProofs` | theorems | `DirectPathProofs` has those of `Signalling` too: from an introduction to a path; `ServerLocksProofs` has that of `Wire`: what a mutex held across a write is for. |
| `MC*` | values of constants for TLC | |

`LeasePool` and `RoomServer` use `IPAllocator`; both are shown to implement
`AddressPromise`, the second once per room, with every step of the handlers in
between: an address counts as held from the section of the allocator that handed it
out to the one that took it back, wherever the handler keeps it.

`RoomServer` and `ServerLocks` look at the same handlers: the first at what their
sections compute, whatever time each takes (a write may never be made, and nothing
is claimed to happen in the end); the second at what they wait for, with data
reduced to who is in the room. `PeerLinks` and `DirectPath` divide
`p2p.go` the same way: the first has one client and every critical section, the
second both clients and whole handlers. `Signalling` is what calls `AddPeer` in
both.

`ClientSession` and `Signalling` take messages whole, which `Wire` shows of writers
that hold the mutex. In `ClientSession` writes do not block, which is the matter of
`ServerLocks`; in `Signalling` a handler waits while `Capacity` messages are on their
way to the client it writes to, and the other direction holds any number. A join is
one step in `Signalling` and two in `ClientSession`, its parts are in `RoomServer`.

**Actions and handlers of `RoomServer`.** `Connect` is `handleAuth`; `Join`,
`AllocateIP` or `Refuse`, `SetFields`, `Insert`, `Respond` are the sections of
`handleJoinRoom`; `ClearFields` (reached through `Leave`, `Join` or `Disconnect`),
`Remove`, `ReleaseIP` those of `handleLeave`; `Drop` is the end of
`handleDisconnect`; `Broadcast` is the snapshot of `broadcastPeerUpdate` and `Write`
one message written; `Relay` is `handleData`. A lost connection, a closed one and
one that the keepalive checker closes are `Break`: the next read fails. What a
handler does without a lock belongs to the step before; the module's header says
which neighbouring sections are one step and why nothing is lost by it.

**Actions and handlers of `ServerLocks`.** `Receive` reads a message and lays out
its handler (`Program`); `Route`, `Section`, `Edit`, `Visit` and `Broadcast` are
sections of it, `WriteUnlocked` a reply or pong, `Lock` and `WriteLocked` a write
under the receiver's `client.mu`, `Disconnect` and `Drop` the end of a connection,
`Check` the keepalive checker, as if each client had one of its own: the code has
one goroutine that goes through them in turn (`server.go:847`), so that one client
that stops it also keeps it from all the others. On the client, `Read` is a round of
`receiveLoop`, `Answer` what it writes before it reads on, `Acquire` and `Flush` a
write under `Client.mu` by `SendPacket` or `keepaliveLoop`, `Quit` is `Close`,
`FailToJoin` a `JoinRoom` that reads another message first and gives up, which
leaves a connection nobody reads (`cmd/gui/main.go:364`).

**Actions and handlers of `DirectPath`.** `NewManager` is the whole detection of
`stunDetectNAT`, for every way answers may be lost or come late; `AddPeer`,
`handleProbe`, `SendPacket` and `Close` are the functions of these names; `Probe` is
as many ticks of `punchHole` as it takes to go through all candidates; `Established`
and `GiveUp` are its returns. The NATs (`StunPort`, `Mapped`, `Passes`) are
external.

**Actions and handlers of `Wire`.** `WriteHeader` and `WritePayload` are the two
calls of `Write` in `WriteMessage`, `ReadHeader` and `ReadPayload` the two of
`ReadFull` in `ReadMessage`. How TCP cuts the bytes is not visible through
`ReadFull`.

**Actions and handlers of `ClientSession`.** `Connect` and `Authenticated` are the
two halves of `Connect`, before and after the reply; `Ask` and `Reply` those of
`ListRooms`, `CreateRoom` and `JoinRoom`, in the goroutines of the GUI that call
them; `OpenMain` is what opens the main window (TUN device, `InitP2P`,
`StartReceiving`); `SendPacket` is a packet from the TUN device; `Receive` and
`StopReceiving` are a round and the end of `receiveLoop`, `Ping` and `StopPinging`
those of `keepaliveLoop`; `Disconnect` is the button, which calls `Close`; `Exit` is
the end of the program. On the server `HandleAuth`, `HandleListRooms`,
`HandleCreateRoom`, `HandleJoinRoom` and `Respond`, `Relay`, `HandlePing`,
`HandleLeave` and `HandleDisconnect` are the cases of `handleConnection`, `Check` is
a round of `keepaliveChecker`, and `OthersWrite` is a handler of another member that
writes to this one. `Tick` is time, which passes when nothing can be done at once:
`Busy` gives the guards of `Prompt` one by one, since the prover cannot reason about
ENABLED, and TLC finds no state in which the two differ (`BusyIsPrompt`). `Outage`
and `Recovery` are the network. Other decisions: dialling either succeeds or changes
nothing; a refused login closes the connection; a list of more than 64 KB has no
reply (`HandleListRooms`); one client object is followed, and a new login makes
another.

**Actions and handlers of `Signalling`.** `InitP2P` and `HandleUpdate`,
`HandleOffer` and `HandleAnswer` (for answers and punch responses) are the client's;
`HandlePunchReq` and `Describe` are the two halves of `handleP2PPunchReq`, before
and after it reads the target's fields; `Relay` is `handleP2POffer` and
`handleP2PAnswer`, which differ in the type of message only, with the section that
stores the sender's address and the one that takes the members as one step; `Join`,
`Leave`, `RemoveMember` and `Broadcast` are what joins and departures do to the
members. `todo` is what a handler has still to write.

## 3. Runs

| Run | Instance | Shows |
|---|---|---|
| `pool` | /29, one user with two sessions, one with one, one anonymous session; one round less than a lap | distinct addresses; lost only by overwriting a lease; withheld only the last one given; return to the former address; the closed form of the search is the loop; `AddressPromise` |
| `rooms` | two sessions under any of two names, the same one included; one joins again, one talks; a room with two hosts | distinct addresses, lost only by overwriting a lease; maps and fields agree; packets go to the owner; everyone was told; one reply to each join; the promise per room |
| `directory` | two connections that create rooms, four names, three subnets, INSERTs that fail | subnets numbered unless a room is overwritten or lost, stable for the others; the creator can join; what was confirmed lasts, through restarts |
| `links` | two peers on a shared host and a LAN, three link objects, under fairness | one goroutine per peer, true marks, heard addresses, punching ends |
| `locks` | two clients, one joining, connections that hold one message | mutexes are never waited for in a circle; who stalls the server |
| `locks_stall` | the same | **violation** of `CheckerGetsThrough` |
| `direct` | two clients, every pair of kinds of NAT, three STUN servers of which two must answer, under fairness | the kind is never mistaken, links reach, both sides meet |
| `direct_deadline` | the same | **violation** of `UpIsUsed` |
| `wire` | two writers under the mutex, two messages in all, of every type, with and without optional fields, up to the longest payload of which the length fits | understood as meant; `MessageChannel`, with its liveness |
| `wire_unlocked` | the same, one of the writers without the mutex | **violation** of `ImplementsChannel` |
| `session` | one client, two goroutines, two requests, an outage and its end, under fairness | live is kept, silent is forgotten, rooms agree, replies match, a loss is noticed, requests end |
| `signalling` | two clients, one of which may leave and come back with its virtual IP; one message at a time on the way to a client | addresses belong to their peers; everyone is introduced, unless an old link is in the way |

**Further configurations** of the same modules. Larger instances that pass:

| Configuration | Instance | Checks |
|---|---|---|
| `rooms_one` | three sessions of one user, one room with two hosts | `TypeOK`, `DistinctVirtualIPs`, `OnlyOverwritingLoses` |
| `session_exact` | the clocks in the proportions of the code (60, 20, 90, 30 s as 6, 2, 9, 3) | the invariants of `session` and `TypeOK` |

Configurations of one property that the code does not keep:

| Configuration | Property | Module |
|---|---|---|
| `pool_orphan` | `NoOrphan` | `MCLeasePool` |
| `pool_full_24` | `NoFalseExhaustion` | `MCFullPool` |
| `directory_race` | `SubnetsDistinct` | `MCRoomDirectory` |
| `rooms_stale_view`, `rooms_reply_first` | `ViewsSettle`, `ReplyComesFirst` | `MCRoomServer` |
| `links_late_timeout` | `NoLateTimeout` | `MCPeerLinks` |
| `direct_one_sided` | `NobodyIsLeftBehind` | `MCDirectPath` |
| `wire_64k` | `UnderstoodAsMeant` | `MCWire` |
| `session_dropped`, `session_close`, `session_overlap` | `KeptWhileConnected`, `CloseReleases`, `RepliesAlwaysMatch` | `MCClientSession` |
| `signalling_returns` | `EachToldOfTheOther` | `MCSignalling` |

Others take a change of a constant or a property: `AddressIsCandidate` in `links`;
`Step = 3`, `MaxPort = 12` and a spread of 2 in `direct` (`Meet`); in
`directory_race` one connection that creates rooms and `InsertFails = TRUE`, or a
configured subnet 2; a subnet with base 264 and `MaxAttempts = 8` in `pool`
(`WithheldIsLastGiven`); one goroutine and `RepliesAlwaysMatch` in `session`; three
goroutines, four requests and `LiveIsAlwaysKept` there. `BusyIsPrompt` holds in
`session`, and `signalling` passes with both outcomes of punching (9.7 million
states, five minutes).

**Bounds, and why they are enough.**
- *Pool and rooms.* Four sessions of which two are one user's show every way in
  which a lease is given, replaced, expires, is returned to or stops another; with
  six hosts there is room for addresses that are lost. A lap of a /29 takes 7 rounds
  and `MaxAttempts` is 6, as a lap of a room's /24 takes 255 and the code makes 254;
  `pool_full_24` has the real numbers. Lease time 1 leaves fresh leases, ageing ones
  and, after a tick, expired ones; in the rooms it is 0, fresh or expired. Two
  concurrent handlers show every order of two critical sections, whether they are of
  two users or of one who reconnects; `rooms_one` has a third session. The rooms
  search a lap of their subnets and more, since what the search finds is the matter
  of `pool`.
- *Directory.* Two connections are enough for the race between the check of a name
  and the insert, and three names beyond the configured one make the count of rooms
  fall behind the numbers in use and let another room take the number of one that
  was lost; `MaxOctet` is 3 so that the numbers run out (255 in the code). INSERTs
  fail or succeed as they like, with and without a database.
- *Links.* Three link objects are one more than peers: a new object for a peer while
  the old one is still held. Two ports and a spread of 1 distinguish announced,
  predicted and unknown addresses.
- *Locks.* With two clients and room for one message there is a relay, an update, an
  offer and an answer each way, a join next to a member, and a full connection at
  every write. More clients and larger connections are covered by the theorems.
- *Direct path.* Three servers of which two must answer give every pattern of lost,
  late and swapped answers that tells kinds apart (five and three in the code); a
  spread of 4 reaches beyond what a NAT uses up meanwhile, and reaches both ends of
  the ports. One of the two clients sends packets; the two are alike.
- *Wire.* `LenBase` 4 makes 15 the largest length, so that the longest payload that
  can be announced, the one that just cannot, and a string of every shorter length
  are short sequences; the conversion is the same arithmetic. Two messages are
  enough for one to be between the halves of another; three (216,000 states, a
  minute) show nothing else.
- *Session.* The clocks 3, 1, 4 and 2 keep the order of the time-outs and that a
  ping is more frequent than either; `session_exact` has their proportions. With
  `MaxQueue` 1 a message that need not be written waits until the one before it is
  read; replies, pings and pongs are never refused. Two requests are the least that
  overlap; a third (1.5 million states) breaks no property, and what needs more
  than one at a time is proved for any number. One outage at most,
  because a second would only repeat the first, and a tick only when nothing can be
  done at once: the network is faster than a tick of ten seconds or more.
- *Signalling.* Two clients meet every order of joining, reporting and asking, and a
  third one, which is one of them come back with the lease it had, meets what the
  former left behind: its links, its messages, its place in the members' list. More
  clients at a time have more states than TLC can go through, but offers and answers
  of another client only add calls of `AddPeer` for a virtual IP of their own. With
  `Capacity` 1 every write of a handler that has more to write may have to wait; the
  theorem is about any capacity, any clients and both outcomes of punching.

History variables (`owed`, `created`, `registered`, `contested`, `unsaved`, `heard` of
`PeerLinks`, `first`, `path`, `pinged`, `mixed`, `meant`, `sent`) are read by
properties and bounds only, and `asked` and the numbers of requests say whose reply
is whose. `pool`, `directory`, `rooms_one` and `session_exact` use symmetry among
what no definition tells apart (the sessions of one user, connections, names that
are not configured, goroutines), and check no liveness. `ServerView` leaves out
what clients have read, which the server and the properties of `rooms_one` do not
look at; `ToldView` of `rooms` keeps whether a client has read an update
and not which.

**Fairness.** `PeerLinks` assumes that a punching goroutine that can run does run (Go
schedules every runnable goroutine), and that the timer of
`PunchTimeout` fires. `DirectPath` assumes that a punching goroutine's ticker ticks,
that it sees its link is up, and that of probes sent again and again to an address
that admits them one arrives: UDP loses packets, not all of them. It does not assume
that `AddPeer` is called, nor that punching goes on: `Meet` speaks of the runs in
which both sides do keep trying. `Wire` assumes that a writer that has written a
header goes on and that the reader reads. `ClientSession` assumes that every
goroutine that can run does, that `InitP2P` comes to an end (its STUN queries have
time-outs), and that time passes: strongly fair, because `Tick` waits for whatever
is prompt. Users, packets and the network may stop for good. `RoomServer`
and `Signalling` state no fairness: their handlers write with a mutex held and no
deadline, `locks_stall` shows that one of them may wait for ever, and so nothing is
claimed to come to an end; what is claimed of the end (`ToldOfRoom`,
`AtRestConsistent`, `OneReplyEach`, `IntroducedAtRest`) is claimed of states in which
nothing is under way, or no handler of the session is. `LeasePool` and `RoomDirectory` need none, nor does
`ServerLocks`, which asks for its waits as a property of states (a set of goroutines
that wait only for each other never moves again).

**Deadlock** is checked except where the system may rest: `RoomServer`, `PeerLinks`,
`ServerLocks`, `DirectPath`, `Wire`, `ClientSession` and `Signalling` when every
connection is closed, every peer is settled or every message is read (circles of
waiting in `ServerLocks` are what its properties are about), and the full /24, where
one session returns at the end.

## 4. What the violations say

The three listed runs:

- *A silent client holds up the checker* (`locks_stall`, `server.go:540`): a write
  to a client that does not read waits with that client's mutex held;
  `keepaliveChecker` and the client's own `handleDisconnect` wait for it, and so
  does every broadcast, with `room.mu` held.
- *The write deadline stays* (`direct_deadline`, `stun.go:281`): three seconds after
  the last STUN query every `WriteToUDP` on the manager's socket fails, probes and
  packets, and packets of links that are up go over the relay.
- *A message in the middle of another* (`wire_unlocked`, `server.go:844`): pongs,
  replies and errors are written without `client.mu` while other handlers write to
  the same connection under it; a header and its payload come apart, and the reader
  takes the bytes of one message for another. On the client `JoinRoom`
  (`client.go:280`) and `Close` (`client.go:431`) write without the mutex as well.

The further configurations:

- *A lost address* (`pool_orphan`, `ipalloc.go:109`): two sessions of one user leave
  one after the other; the second lease overwrites the first, whose address stays in
  `used` until the server restarts. A reconnection before the server has noticed the
  lost connection is enough. `OnlyOverwritingLoses` says that nothing else loses one.
- *Two rooms, one subnet* (`directory_race`, `server.go:381`): two requests for one
  name overwrite the room; the subnet is the number of rooms plus one, and that
  number has fallen behind. README.md:44 promises every room a subnet of its own.
  Both requests are confirmed, and only the one whose password the room has can join
  it: `CreatorCanJoin` and `SubnetStable` are about the other rooms.
- *254 rounds* (`pool_full_24`, `ipalloc.go:134`): a lap from `nextIP` visits .1 to
  .255, 255 addresses; one free host may be just out of reach, and never more than
  that one (`WithheldIsLastGiven`).
- *Last octet 1* (`pool` with base 264, `ipalloc.go:43`): the search starts at .1 of
  the /24 around the subnet.
- *Old list written last* (`rooms_stale_view`, `server.go:827`) and *update before
  reply* (`rooms_reply_first`, `server.go:494`): snapshots and replies are written
  after the locks are released; the client then shows a wrong list, or `JoinRoom`
  fails on an unexpected message.
- *A room that was not inserted* (`directory_race` with `InsertFails`,
  `server.go:399`): it is in memory only and lost at a restart, and the number of
  rooms falls behind the subnets in use.
- *A configured 10.100.2.0/24* (`directory_race`, `server.go:381`): the first room that a
  client creates is the second and gets the same subnet.
- *Any port of a known host* (`AddressIsCandidate`, `p2p.go:519`): pass 2 computes
  whether the port is a candidate and does not use it.
- *A timeout after success* (`links_late_timeout`, `p2p.go:364`).
- *One side is left behind* (`direct_one_sided`, `p2p.go:386`): a side stops probing
  once it has heard the other, whether or not it was heard; the other gives up.
- *Wide port steps* (`direct` with `Step = 3`, `p2p.go:252`): ports are predicted
  next to the one that is known, never by the delta that was measured (`PortDelta`
  is only logged); a NAT whose steps lead beyond the spread is missed.
- *A payload of 65536 bytes* (`wire_64k`, `protocol.go:186`) passes the check of its
  length and is announced as empty; its bytes are read as headers. (No caller makes
  one this long from a packet of 1500 bytes; a room list can be.)
- *A minute in the room list* (`session_dropped`, `server.go:174`): the client pings
  only when the main window is open, and the server's read deadline is 60 s;
  README.md:278 speaks of 20 s between pings and 90 s without one.
- *Close after the loop has ended* (`session_close`, `client.go:423`): `closeOnce`
  is used up, and neither the connection nor the manager is closed; the TUN reader
  goes on.
- *Another's reply* (`session_overlap`, `client.go:219`): two goroutines of the GUI
  wait for replies on one connection and each takes the next, whatever it is; with
  one goroutine it is an update that comes first (`server.go:494`).
- *A pong read by a waiting request* (`session` with three goroutines, four requests
  and `LiveIsAlwaysKept`, `client.go:461`): goroutines that still wait for replies
  take the pongs, the deadline of the receive loop runs out and ends a connection
  that works.
- *A peer that returns* (`signalling_returns`, `p2p.go:179`): it has the virtual IP
  it had, the others' links to it are still active with its old address, and so it
  is not tried. `IntroducedAtRest` says that this is the only way to be left out.

## 5. What is proved

TLAPS checks these for every value of the constants the assumptions admit.

| Module | Theorems | Assumptions |
|---|---|---|
| `IPAllocatorProofs` | lemmas for the next two | `AddrSpaceAssumption`, `NetworksAssumption`, `MaxAttemptsAssumption`, `LeaseDurationAssumption`, `NoIPAssumption`, `NoLeaseAssumption`: networks are records of numbers, users any set |
| `LeasePoolProofs` | `TypeCorrect`, `AddressesDistinct`, `LeasesAreApart`, `HoldersAreHosts`, `ReservationHonoured`, `ImplementsPromise` | also `SessionsAssumption`: any sessions, each of one user or anonymous |
| | `SearchIsLoop` | also that the subnet is not the whole address space: a /0 would wrap |
| | `SearchWithholdsOne` | also that the subnet begins at .0, as those of rooms do, and that the rounds are at least the addresses less two: 254 for a /24, which is what the code has |
| | `LostByOverwriting`, `ReturnsHome` | nothing else: a user may have any number of sessions |
| `RoomServerProofs` | `RoomTypes`, `DistinctInRooms`, `RelayReachesOwner`, `RestIsConsistent`, `MembersAreTold`, `RoomsImplementPromise`, `RoomsLoseByOverwriting`, `EachJoinAnsweredOnce` | those of `IPAllocator` and `RoomAssumption`: any sessions, rooms and users, any session under any name |
| `ClientSessionProofs` | `SessionTyped`, `TheSilentAreForgotten`, `SessionsAgree`, `OwnReply` | `SessionAssumption`: any goroutines, any number of requests, any time-outs above zero |
| | `TheLiveAreKept` | also `PingsInTime`: pings come more often than either end gives up, as 20 s do with 60 and 90 |
| `RoomDirectoryProofs` | `DirectoryTyped`, `RegistrationHolds`, `ConfirmedRoomsSurvive`, `SubnetsStay`, `CreatorsJoin`, `NumberingIsKept` | `DirectoryAssumption`: any clients, of which any may create rooms, finitely many names, any configuration, INSERTs that fail or do not |
| `PeerLinksProofs` | `ManagerTyped`, `OnePuncher`, `MarksAreTrue`, `SendsWhereHeard`, `LinksStayUp` | `LinksAssumption`: offers carry addresses, the range of predicted ports are ports |
| `ServerLocksProofs` | `LocksTyped`, `MutexesInUse`, `MutexesNeverCycle`, `StallsAtClients`, `RelayNeverStalls` | `LocksAssumption`: finitely many clients, connections that hold at least one message |
| | `FramingIsSound` | `MessagesAreBytes`: any messages made of bytes, any writers with or without the mutex. It speaks of behaviours in which no message is begun while another is half written and one of the two writers lacks the mutex, and no length is too long for a uint16; `wire_unlocked` and `wire_64k` show what happens where these end |
| `DirectPathProofs` | `PathsTyped`, `UpLinksReach`, `NatsAreRecognised` | `PathAssumption`, `NoLinkAssumption`: two managers, any ports, steps and numbers of servers |
| | `SignalsTyped`, `AddressesNotMixed`, `NobodyIsForgotten` | `SignallingAssumption`: any clients, even without end, each with some virtual IP, which others may have had before; connections of any capacity; any outcomes of punching |

**Arguments.**
- *Allocator.* Two statements about an allocator and those who hold its addresses
  are kept by every operator, whoever the holders are: `Apart` (used covers what is
  held and leased, and no two of these are the same) and `AllHosts` (every holder has
  a host of the subnet). A third, `LostIn`, names the addresses that are used and
  neither held nor leased: only a release over a lease adds one. Distinctness alone is
  not inductive: a returning user takes the address of a lease, which is free only
  because leases and holders are apart, and the search finds an address outside
  `used`, which is free only because `used` covers both. What the search returns
  (unused, in the subnet, no broadcast address) comes from its definition as the hit
  with the least round.
- *Search.* That the closed form of the search is its loop, and that the loop misses
  no free host but the one it gave out last, are statements about every round. They
  are proved without an induction principle: if one failed, there would be a least
  round at which it does (`WellFoundedInduction`), and the round before leads to a
  contradiction (`ProbeIsALoop`). Two cases make the work: the round at which the
  search passes the end of the subnet and starts again, and a `nextIP` that an
  earlier search left on the broadcast address (`SearchInv` says where it can be).
- *Pool.* Types, `Apart` and `AllHosts`. `ImplementsPromise` maps a lease that has
  not expired to a reservation: a sweep and a tick let some reservations lapse,
  `Acquire` is `Give`, `GiveBack` is `TakeBack`. One step needs care: an expired
  lease that has not been swept is still used in the code and already free in the
  promise. `OwedIsLeased` says that what a user is owed is the user's lease, to the
  tick: a second release of the user makes its address the one that is owed, and
  nothing but the user, the sweep or time takes a lease away.
- *Rooms.* Four layers, each proved with those before it. `Control` says what the
  fields and the local variables of one session say of each other; only the
  session's own steps disturb it. `Held` says of every room what `Apart` and
  `AllHosts` say, where an address is held from the section of the allocator that
  gave it to the one that took it back, be it in the handler's hands or in the
  fields: between these nothing drops or copies it. `Routed` is `RoutesToOwner` and
  that a session is in the map of the room it believes to be in; it needs `Held`,
  because a handler removes an entry by its address and would take another
  member's if two had the same one. `WillBeTold` says that a member who has been
  told nothing has a handler that still will: itself, one that left, or one in the
  middle of its writes. A snapshot that is dropped or overtaken needs the last of
  these. `RoomsImplementPromise` goes room by room: `AllocateIP` is `Give` in one
  room, `ReleaseIP` is `TakeBack` in one, `Tick` lapses in all, every other step
  is a stutter. `RoomsLoseByOverwriting` goes room by room too, with `LostIn` where
  an address in the handler's hands is held. `EachJoinAnsweredOnce` has an invariant
  of its own, `RepliesInv`: who has a request in hand has no reply to it yet, and who
  has none in hand has exactly one, unless the connection is lost.
- *Session.* `Session` is the inductive invariant: `Windows` and `LoggingIn` (until
  the rooms are shown only the login has been sent), `AuthOnce` (no second login, so
  nothing resets the server's client), `Silence` (the age of the last ping and the
  time to the next check together stay within both), and `Conversation`: as long as
  only one goroutine asks at a time, the one request or its reply is at exactly one
  place (`Asking`), and after the last join client and server agree (`Joined`).
  `OwnReply` and `SessionsAgree` follow from `Conversation`. `TheLiveAreKept` needs
  `Alive` besides: both loops run, and at either end the age of the last message
  plus the time to the next ping is at most `PingEvery`, or a ping or its answer is
  under way. A server that has forgotten the client never knows it again
  (`NeverBack`). `Windows`, `Conversation` and `Alive` speak of requests that come
  one at a time (`~mixed`); without that replies go to others (`session_overlap`)
  and pongs are lost to them (section 4).
- *Directory.* `RegisteredCanLogIn` needs that a handler in `welcome` owns its row.
  For the rooms, `StepKinds` sorts the steps of a handler into those that build,
  persist or confirm one room and those that touch none, and the layers follow it.
  `Anchored`: a configured room stays as configured, a handler that has built a room
  and a row in the table have theirs in memory, and a room is never removed while the
  server runs. `Survival`: with a database, what is or will be confirmed has a row,
  or its INSERT has failed. `OwnRooms`: a room that was made once has one maker, and
  whatever is stored of it is the maker's. `SubnetStable` and `NumberingKept` need
  that memory and table have the same number for a room (`Settled`), which another
  creator can break; but then a number up to the count of the rooms is free (`Gap`,
  by a pigeonhole argument), the directory is not counted any more, and the room is
  contested (`Settling`). A counted directory therefore comes back from a restart with
  the numbers it had, and loses the last ones only, unless an older room is lost.
  `DirectoryTyped` uses that a number above `MaxOctet` is refused.
- *Links.* `OnePuncherPerPeer` needs that a punching link is filed under its own
  virtual IP and marked, and that the mark of a filed link is set only while its
  goroutine runs: then `AddPeer` can replace only objects nobody works on. That
  `End` compares objects, not virtual IPs, is what the first of these is for.

- *Locks.* The invariant is `LocksAreInUse`: who holds a client's mutex is about to
  write to that client, and who holds `room.mu` visits a member. From it a set of
  goroutines that wait only for each other is followed: who waits for `room.mu`
  waits for a visitor, a visitor for the holder of a member's mutex, that holder for
  the connection of its client, and so for the client's receive loop. Hence handlers
  alone are never stuck, and the receive loop in the set either has stopped or
  writes.
- *Framing.* `WellFramed` says where the messages lie: message i ends at byte
  `at[i]` of everything sent, b bytes have been read, and every byte that is still to
  be read is that byte of its message. "Still to be read" is the connection and,
  while a writer is between its two writes, the payload it has yet to write: with it
  the invariant also holds there. Two such payloads would have no order; the mutex
  excludes them among those who take it, and `Overlaps` names the moment at which
  another writer would make a second one. Positions stand for the concatenation of
  all messages, which would take a recursion. The header is read at a beginning of a
  message, so it has the version, the code is that of one type only, and the length
  survives its two bytes because it is a uint16. Every step is one of
  `MessageChannel` or leaves it alone.
- *Direct path.* A link comes up by a probe, so what it reaches rests on what is
  known of probes: each went through the entry its NAT still has
  (`ProbesAreMapped`), because entries are never changed. The address it is then
  given is the probe's origin and not the announced one; the mutant that keeps the
  announced one breaks exactly this step. `NatsAreRecognised` is about one step,
  `NewManager`: two answers from different servers differ for a symmetric NAT and
  agree for a cone, and fewer than two recognise neither.
- *Signalling.* `SignalInv` follows an address through the server: what a client
  sends is its own (`SentAreOwn`), the server's fields of a client are its own or
  cleared (`FieldsAreOwn`), so what handlers are to write and clients are to receive
  pairs an address with its virtual IP (`TasksFit`, `ReceivedFit`), and hence do the
  links. `Describe` reads two fields of another client, which may have left in
  between: then the pair has a hole and is not used. `OnTheWay` says of two
  members that one has a link for the other's virtual IP, or will be told of the
  other by something in a queue or in the hands of a handler (`Told`), or has an
  offer on its way to the other that will be answered (`Prompted`). The last is
  needed for the offer that arrives before there is a manager and is dropped. Whose
  address a link has is said apart: addresses are those of clients that have joined
  (`NamesHaveJoined`) and no two members have one virtual IP (`MembersDiffer`), so
  that it is the other's, or that of one that had this virtual IP and has left.
  `MembersStay` is what lets a handler that copies an offer to the members find them
  all. A queue is looked at as the set of what is in it; that an order of a set
  misses no member (`OrderIsComplete`) is a fact about cardinalities.

The modules with theorems reach no RECURSIVE operator.

**Proved, not run.** The type invariants of the modules above, the statements of
`LeasesAreApart`, `HoldersAreHosts` and `ReservationHonoured`, `ActiveStays` and
`LocksAreInUse` are theorems for all values of the constants; the runs leave them
out (`rooms_one` and `session_exact` have the types of theirs). `TypeOK` of `Wire`
documents the types of its variables.

**Only model-checked.** Liveness (`PunchingEnds`, `Meet`, `LossIsNoticed`,
`RequestsEnd`, and of `ImplementsChannel` that every message arrives): fairness and
ENABLED are beyond the prover. What `FramingIsSound` assumes of encoders, that they
return bytes, is likewise only seen in the runs. `UnderstoodAsMeant`: encoders and
decoders fold over the fields of a message, and the theorems about folds take an
operator as a parameter, which the prover cannot instantiate.

## 6. Hazards

| Hazard | Line | Properties |
|---|---|---|
| a lease overwrites a lease | `ipalloc.go:109` | `OnlyOverwritingLoses`, `ReturnsToSameAddress` (further: `NoOrphan`) |
| the search stops too early | `ipalloc.go:134` | `WithheldIsLastGiven` (further: `NoFalseExhaustion`) |
| a lease expired and not swept | `ipalloc.go:122` | `KeepsPromise`, `ReturnsToSameAddress`, `DistinctAddresses`, `RoomsKeepPromise` |
| joins and departures between critical sections | `server.go:488`, `:568` | `DistinctVirtualIPs`, `RoutesToOwner`, `AtRestConsistent`, `OnlyOverwritingLoses` |
| snapshots out of order, dropped, before replies | `server.go:827`, `:822`, `:494` | `ToldOfRoom`, `OneReplyEach`, `SessionAgrees` (further: `ViewsSettle`, `ReplyComesFirst`) |
| check then act on rooms and users | `server.go:371`, `:322` | `NumberingKept`, `SubnetStable`, `CreatorCanJoin`, `RegisteredCanLogIn` (further: `SubnetsDistinct`) |
| a stop or failure between memory and table | `server.go:399` | `CreatedSurvives`, `NumberingKept`, `SubnetStable` |
| several sources of `AddPeer` for one peer | `p2p.go:170` | `OnePuncherPerPeer`, `MarkIsTrue` |
| an active link never ends | `p2p.go:179` | `IntroducedAtRest` (further: `EachToldOfTheOther`) |
| a probe from an unknown port | `p2p.go:519` | `OnlyHeardAddresses` (further: `AddressIsCandidate`) |
| writes without a deadline under a mutex | `server.go:540`, `:805` | `NoMutexCycle`, `StallsAtFullClient`, `CheckerGetsThrough` |
| a receive loop that writes | `client.go:552` | `StallsAtFullClient`, `NoStallWithoutManager` |
| a deadline left on a shared socket | `stun.go:281` | `UpIsUsed` |
| STUN answers that come late | `stun.go:288` | `TypeIsRight` |
| a side stops probing once it hears | `p2p.go:386` | `Meet`, `UpReachesOther` (further: `NobodyIsLeftBehind`) |
| predicted ports at the ends of the range | `p2p.go:254` | `Meet` |
| a message is two writes | `protocol.go:188` | `ImplementsChannel` (further: `wire_unlocked`) |
| a length of 16 bits | `protocol.go:186` | `UnderstoodAsMeant` (further: `wire_64k`) |
| fields read in sections of their own | `server.go:651` | `AddressesAreTheirs`, `IntroducedAtRest` |
| two time-outs, one ping | `server.go:174`, `:861` | `LiveIsKept`, `SilentIsForgotten` (further: `KeptWhileConnected`) |
| `closeOnce` used up by the loop | `client.go:423` | `LossIsNoticed`, `SilentIsForgotten` (further: `CloseReleases`) |
| a pong read by a waiting request | `client.go:461` | `LiveIsKept` (further: `LiveIsAlwaysKept`) |
| requests that share a connection | `client.go:219` | `SessionAgrees`, `RepliesMatch` (further: `RepliesAlwaysMatch`) |
| a reply that is never sent, or never arrives | `server.go:426`, `client.go:252` | `RequestsEnd` |

What they leave open: `ToldOfRoom` says that a member has read an update since it
asked to join, whichever room the update is of and however old its list;
`WithheldIsLastGiven` and `OnlyOverwritingLoses` bound a damage that does occur.

Without a property: that the search starts at and wraps to last octet 1
(`ipalloc.go:149`), which `ProbeIsLoop` follows in every subnet and a property could
only repeat; a deadline that races with a probe, which `NoLateTimeout` states and
which fails (`links_late_timeout`); and a second login on one
connection (`server.go:189`), which no client of the repository does.

## 7. Not modelled

- *Tunnel devices, the server command, the icon*: operating system I/O, flags and
  27,000 generated lines of image bytes, five sixths of the implementation's lines,
  which no definition could stand for.
- *The GUI* beyond what it does with the client: labels, preferences, the log
  window.
- *Passwords and tokens* beyond "the password given": bcrypt and random tokens are
  taken to be equal only to themselves.
- *In `RoomServer` and `ClientSession`*: a connection that authenticates twice, and
  `Register`, which uses a connection of its own and is in `RoomDirectory` as the
  server sees it. A second main window, which would start a second receive loop, is
  left out.
- *In `Wire`*: a connection that is lost in the middle of a message: the reader gets
  an error and both ends close it, which is a lost connection in the other modules.
- *In `ServerLocks`*: logins, registrations and room lists, whose handlers take no
  mutex across a write and wait for their own client only.
- *In `DirectPath`*: addresses of a common LAN, NATs that admit more than hole
  punching needs or that forget entries, and STUN answers that UDP duplicates (two
  copies of one answer would make a symmetric NAT look like a cone).
- *Unused code*: `PredictedPorts`, `stunDiscover`; `mostCommonDelta`, whose result
  is only logged; `GetRoom` and `RoomExists` of the store.

## 8. Plan

Modelled: every component of section 1 except those of section 7. What is left
is an abstract specification of a room as its clients see it (who is told of whom),
which `RoomServer` implements.
