-------------------------------- MODULE Codec --------------------------------
(***************************************************************************)
(* The encoders and decoders of pkg/protocol/serialize.go.                 *)
(*                                                                         *)
(* A message is its type with the tuple of its fields.  A payload is a     *)
(* sequence of bytes.  Lengths, counts and error codes are 16 bits in the  *)
(* code, two bytes of 256 values each; here two of LenBase values, so that *)
(* lengths at the limit are short.  Every other byte is what it is.        *)
(*                                                                         *)
(* A decoder is a chain of readers that each take their bytes off what is  *)
(* left or fail, which "if err != nil { return nil, err }" makes the       *)
(* failure of the whole.                                                   *)
(***************************************************************************)
EXTENDS Integers, Sequences, SequencesExt

CONSTANT LenBase        \* values of one byte of a length: 256 in the code

ASSUME CodecAssumption == LenBase \in Nat \ {0, 1}

MaxUint16 == LenBase * LenBase - 1

(* A nil net.IP is an empty slice.                                         *)
NoIP == <<>>

-----------------------------------------------------------------------------
(* The fields of each message, in the order in which they are written.     *)
AuthRequest        == <<"string", "string">>
AuthResponse       == <<"bool", "string", "string">>
JoinRoomRequest    == <<"string", "string">>
JoinRoomResponse   == <<"bool", "string">>
JoinedRoom         == <<"ip", "subnet", "string">>      \* if the former succeeded
PeerUpdate         == <<"string", "peers">>
ErrorMsg           == <<"uint16", "string">>
RegisterRequest    == <<"string", "string">>
RegisterResponse   == <<"bool", "string">>
CreateRoomRequest  == <<"string", "string">>
CreateRoomResponse == <<"bool", "string">>
ListRoomsResponse  == <<"rooms">>
P2PPunchRequest    == <<"ip">>
P2PPunchResponse   == <<"ip", "string", "string">>
P2POffer           == <<"ip", "string", "string">>
P2PAnswer          == <<"ip", "string", "string", "bool">>
NATFields          == <<"uint8", "strings">>            \* of peers that send them

PeerInfo == <<"string", "ip", "bool">>
RoomInfo == <<"string", "string">>

(* The types and their codes.                                              *)
MsgType ==
    [Auth |-> 1, JoinRoom |-> 2, Data |-> 3, Ping |-> 4, Leave |-> 5, Register |-> 6,
     CreateRoom |-> 7, ListRooms |-> 8, P2POffer |-> 16, P2PAnswer |-> 17,
     P2PPunchReq |-> 18, P2PPunchResp |-> 19, AuthResp |-> 129, JoinRoomResp |-> 130,
     PeerUpdate |-> 131, Pong |-> 132, Error |-> 133, RegisterResp |-> 134,
     CreateRoomResp |-> 135, ListRoomsResp |-> 136]

Layout ==
    [Auth |-> AuthRequest, JoinRoom |-> JoinRoomRequest, Data |-> <<"raw">>, Ping |-> <<>>,
     Leave |-> <<>>, Register |-> RegisterRequest, CreateRoom |-> CreateRoomRequest,
     ListRooms |-> <<>>, P2POffer |-> P2POffer, P2PAnswer |-> P2PAnswer,
     P2PPunchReq |-> P2PPunchRequest, P2PPunchResp |-> P2PPunchResponse,
     AuthResp |-> AuthResponse, JoinRoomResp |-> JoinRoomResponse,
     PeerUpdate |-> PeerUpdate, Pong |-> <<>>, Error |-> ErrorMsg,
     RegisterResp |-> RegisterResponse, CreateRoomResp |-> CreateRoomResponse,
     ListRoomsResp |-> ListRoomsResponse]

WithNAT == {"P2POffer", "P2PAnswer", "P2PPunchResp"}

-----------------------------------------------------------------------------
(* Writing.                                                                *)

(* The conversion uint16(n), in network order.                             *)
Uint16(n) == <<(n \div LenBase) % LenBase, n % LenBase>>

writeString(s) == Uint16(Len(s)) \o s

writeBool(v) == IF v THEN <<1>> ELSE <<0>>

writeStringSlice(ss) ==
    Uint16(Len(ss)) \o FlattenSeq([i \in DOMAIN ss |-> writeString(ss[i])])

(* A subnet is its first address and the number of ones of its mask; only  *)
(* the latter is written.                                                  *)
WritePlain(kind, v) ==
    CASE kind = "string"  -> writeString(v)
      [] kind = "bool"    -> writeBool(v)
      [] kind = "uint8"   -> <<v>>
      [] kind = "uint16"  -> Uint16(v)
      [] kind = "ip"      -> v
      [] kind = "subnet"  -> <<v.ones>>
      [] kind = "strings" -> writeStringSlice(v)
      [] kind = "raw"     -> v

WriteTuple(kinds, vals) ==
    FlattenSeq([i \in DOMAIN vals |-> WritePlain(kinds[i], vals[i])])

WriteStructs(kinds, list) ==
    Uint16(Len(list)) \o FlattenSeq([i \in DOMAIN list |-> WriteTuple(kinds, list[i])])

WriteField(kind, v) ==
    CASE kind = "peers" -> WriteStructs(PeerInfo, v)
      [] kind = "rooms" -> WriteStructs(RoomInfo, v)
      [] OTHER          -> WritePlain(kind, v)

(* The errors of an encoder: an address that is no IPv4 address, and a     *)
(* string whose length is no uint16.                                       *)
Fits(kind, v) ==
    CASE kind = "ip"      -> Len(v) = 4
      [] kind = "string"  -> Len(v) <= MaxUint16
      [] kind = "strings" -> \A i \in DOMAIN v : Len(v[i]) <= MaxUint16
      [] kind = "peers"   -> \A i \in DOMAIN v : Len(v[i][1]) <= MaxUint16 /\ Len(v[i][2]) = 4
      [] kind = "rooms"   -> \A i \in DOMAIN v : \A j \in 1..2 : Len(v[i][j]) <= MaxUint16
      [] OTHER            -> TRUE

(* What m has of the fields its type may have: a response that failed and  *)
(* a peer without NAT detection have fewer.                                *)
Fields(m) ==
    LET rest == CASE m.type = "JoinRoomResp" -> JoinedRoom
                  [] m.type \in WithNAT      -> NATFields
                  [] OTHER                   -> <<>>
    IN  SubSeq(Layout[m.type] \o rest, 1, Len(m.vals))

Encodable(m) == \A i \in DOMAIN m.vals : Fits(Fields(m)[i], m.vals[i])

(* An encoder that fails returns nil.                                      *)
Encode(m) ==
    IF Encodable(m)
    THEN FlattenSeq([i \in DOMAIN m.vals |-> WriteField(Fields(m)[i], m.vals[i])])
    ELSE <<>>

-----------------------------------------------------------------------------
(* Reading.                                                                *)
Fail == [ok |-> FALSE, val |-> <<>>, rest |-> <<>>]
Got(v, rest) == [ok |-> TRUE, val |-> v, rest |-> rest]

Then(r, Continue(_, _)) == IF r.ok THEN Continue(r.val, r.rest) ELSE Fail

readFull(data, n) ==
    IF Len(data) >= n THEN Got(SubSeq(data, 1, n), SubSeq(data, n + 1, Len(data))) ELSE Fail

readByte(data) == Then(readFull(data, 1), LAMBDA b, rest : Got(b[1], rest))

readUint16(data) ==
    Then(readFull(data, 2), LAMBDA b, rest : Got(b[1] * LenBase + b[2], rest))

readString(data) == Then(readUint16(data), LAMBDA n, rest : readFull(rest, n))

readBool(data) == Then(readByte(data), LAMBDA b, rest : Got(b # 0, rest))

(* One element for each of "items", one after the other; a reader sees the *)
(* item and what has been read before it.                                  *)
ReadEach(data, items, Read(_, _, _)) ==
    FoldLeft(LAMBDA acc, item :
                Then(acc, LAMBDA vals, rest :
                    Then(Read(item, vals, rest), LAMBDA v, r : Got(Append(vals, v), r))),
             Got(<<>>, data), items)

ReadCounted(data, Read(_)) ==
    Then(readUint16(data), LAMBDA n, rest :
        ReadEach(rest, [i \in 1..n |-> i], LAMBDA i, vals, r : Read(r)))

readStringSlice(data) == ReadCounted(data, readString)

(* ip.Mask(net.CIDRMask(ones, 32)).                                        *)
Mask(ip, ones) ==
    [i \in 1..4 |-> LET bits == 8 * i - ones
                        free == IF bits <= 0 THEN 0 ELSE IF bits >= 8 THEN 8 ELSE bits
                    IN  ip[i] - (ip[i] % 2^free)]

(* "vals" are the fields before: the subnet is computed from the address.  *)
ReadPlain(kind, vals, data) ==
    CASE kind = "string"  -> readString(data)
      [] kind = "bool"    -> readBool(data)
      [] kind = "uint8"   -> readByte(data)
      [] kind = "uint16"  -> readUint16(data)
      [] kind = "ip"      -> readFull(data, 4)
      [] kind = "subnet"  -> Then(readByte(data), LAMBDA n, rest :
                                Got([first |-> Mask(vals[Len(vals)], n), ones |-> n], rest))
      [] kind = "strings" -> readStringSlice(data)
      [] kind = "raw"     -> Got(data, <<>>)

ReadStruct(kinds, data) == ReadEach(data, kinds, ReadPlain)

ReadField(kind, vals, data) ==
    CASE kind = "peers" -> ReadCounted(data, LAMBDA r : ReadStruct(PeerInfo, r))
      [] kind = "rooms" -> ReadCounted(data, LAMBDA r : ReadStruct(RoomInfo, r))
      [] OTHER          -> ReadPlain(kind, vals, data)

ReadFields(data, kinds) == ReadEach(data, kinds, ReadField)

(* The fields of a room are there if the response says so.                 *)
ReadJoinedRoom(vals, data) ==
    IF vals[1]
    THEN Then(ReadStruct(JoinedRoom, data),
              LAMBDA room, rest : Got(vals \o room, rest))
    ELSE Got(vals, data)

(* Fault: the NAT type and the candidates must be there.                   *)
ReadNATFields_Required(vals, data) ==
    Then(ReadStruct(NATFields, data), LAMBDA nat, rest : Got(vals \o nat, rest))

(* "Read new fields if present": what is missing or cut off is left zero.  *)
ReadNATFields(vals, data) ==
    LET nat == readByte(data)
        candidates == Then(nat, LAMBDA b, rest : readStringSlice(rest))
    IN  Got(vals \o <<IF nat.ok THEN nat.val ELSE 0, candidates.val>>, <<>>)

Decode(type, data) ==
    LET r == ReadFields(data, Layout[type])
    IN  CASE type = "JoinRoomResp" -> Then(r, ReadJoinedRoom)
          [] type \in WithNAT      -> Then(r, ReadNATFields)
          [] OTHER                 -> r

(* What the receiver of a payload takes it for, or that it cannot tell.    *)
Understood(type, data) ==
    LET r == Decode(type, data) IN [type |-> type, ok |-> r.ok, vals |-> r.val]

(* What the sender of m meant: NAT type and candidates, which an older one *)
(* does not send, are then unknown and none.                               *)
Meant(m) ==
    [type |-> m.type, ok |-> Encodable(m),
     vals |-> IF ~Encodable(m) THEN <<>>
              ELSE IF m.type \in WithNAT /\ Len(m.vals) = Len(Layout[m.type])
              THEN m.vals \o <<0, <<>>>>
              ELSE m.vals]
=============================================================================
