------------------------------- MODULE MCWire --------------------------------
(***************************************************************************)
(* An instance of Wire for TLC.  Lengths have two digits of base 4, so a   *)
(* payload of 15 bytes is the longest that can be announced and one of 16  *)
(* is as long as MaxPayloadSize.                                           *)
(***************************************************************************)
EXTENDS Wire

CONSTANTS loop, tun, ping

Vip == <<10, 100, 1, 2>>
Msg(type, vals) == [type |-> type, vals |-> vals]

(* One of each type, and those that are special: responses that succeed    *)
(* and that fail, lists that are empty and not, offers with and without    *)
(* the fields of NAT detection, addresses that are nil, and the longest    *)
(* payload.                                                                *)
ShortMessages ==
    {Msg("Auth", <<<<1, 2>>, <<3>>>>), Msg("AuthResp", <<TRUE, <<>>, <<2, 3>>>>),
     Msg("Register", <<<<1>>, <<>>>>), Msg("RegisterResp", <<FALSE, <<3, 3>>>>),
     Msg("JoinRoom", <<<<2>>, <<1>>>>), Msg("JoinRoomResp", <<FALSE, <<2>>>>),
     Msg("JoinRoomResp", <<TRUE, <<>>, Vip, [first |-> <<10, 100, 1, 0>>, ones |-> 24], <<2>>>>),
     Msg("CreateRoom", <<<<2>>, <<1>>>>), Msg("CreateRoomResp", <<TRUE, <<>>>>),
     Msg("ListRooms", <<>>), Msg("ListRoomsResp", <<<<>>>>),
     Msg("ListRoomsResp", <<<< <<<<2>>, <<1>>>>, <<<<3>>, <<>>>> >>>>),
     Msg("PeerUpdate", <<<<2>>, << <<<<1>>, Vip, TRUE>> >>>>),
     Msg("PeerUpdate", <<<<2>>, << <<<<1>>, NoIP, TRUE>> >>>>),
     Msg("Error", <<9, <<1>>>>), Msg("Ping", <<>>), Msg("Pong", <<>>), Msg("Leave", <<>>),
     Msg("P2PPunchReq", <<Vip>>), Msg("P2PPunchResp", <<Vip, <<>>, <<3>>, 1, <<<<2>>>>>>),
     Msg("P2PPunchResp", <<NoIP, <<>>, <<3>>, 0, <<>>>>),
     Msg("P2POffer", <<Vip, <<1>>, <<>>, 2, <<<<1>>>>>>), Msg("P2POffer", <<Vip, <<1>>, <<>>>>),
     Msg("P2PAnswer", <<Vip, <<1>>, <<2>>, TRUE, 1, <<>>>>),
     Msg("Data", <<[i \in 1..15 |-> i % 4]>>)}

(* A payload that passes the check of WriteMessage and has no length.      *)
AndLongest == ShortMessages \cup {Msg("Data", <<[i \in 1..16 |-> i % 4]>>)}

(* What the handlers send whether or not it could be encoded.              *)
MCUnchecked ==
    {"AuthResp", "RegisterResp", "JoinRoomResp", "CreateRoomResp", "ListRoomsResp", "Error",
     "P2PPunchReq", "P2POffer", "P2PAnswer", "P2PPunchResp"}
=============================================================================
