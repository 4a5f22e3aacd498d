-------------------------- MODULE MCRoomDirectory --------------------------
(***************************************************************************)
(* Instances of RoomDirectory for TLC.                                     *)
(***************************************************************************)
EXTENDS RoomDirectory, TLC

CONSTANTS c1, c2, lobby, n2, n3, n4, u1, u2

(* The configuration cmd/server writes: one room, 10.100.1.0/24.           *)
DefaultConfig == lobby :> [subnet |-> 1, password |-> NoPassword]

(* A client is its password, and a name is only compared.                  *)
Interchangeable ==
    Permutations(Clients) \cup Permutations(Names \ Configured) \cup Permutations(Usernames)
=============================================================================
