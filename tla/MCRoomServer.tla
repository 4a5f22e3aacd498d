---------------------------- MODULE MCRoomServer ----------------------------
(***************************************************************************)
(* Instances of RoomServer for TLC.                                        *)
(***************************************************************************)
EXTENDS RoomServer, TLC

CONSTANTS s1, s2, s3, u1, u2, r1, r2

(* Two hosts each: a third session finds the room full.                    *)
Net1 == [base |-> 256, size |-> 4]
Net2 == [base |-> 512, size |-> 4]
MCNetworks == {Net1, Net2}

OneRoom == r1 :> Net1
TwoRooms == r1 :> Net1 @@ r2 :> Net2

(* Any client may log in under any name, also one that is logged in.       *)
Anyone == [s \in Sessions |-> Users]
Interchangeable == Permutations(Sessions)

(* What the clients have read changes nothing the server does; nor do the  *)
(* name of a session that is not logged in and the map userToIP, which is  *)
(* never read.                                                             *)
ServerView ==
    <<link, [s \in clients |-> username[s]], virtualIP, roomName, members,
      [r \in Rooms |-> [alloc[r] EXCEPT !.userToIP = {}]], pc, local, todo>>

(* Nor does it matter which update a client has read last, only if any.    *)
ToldView ==
    <<ServerView, first, {s \in Sessions : msg[s] = Data}, {s \in Sessions : view[s] = NoView}>>
=============================================================================
