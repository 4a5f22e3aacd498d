-------------------------------- MODULE Wire ---------------------------------
(***************************************************************************)
(* One direction of a connection: WriteMessage and ReadMessage of          *)
(* pkg/protocol/protocol.go with the goroutines that call the one and the  *)
(* goroutine that calls the other, over a stream of bytes.                 *)
(*                                                                         *)
(* WriteMessage writes a header and then a payload, each with one Write;   *)
(* most of its callers hold a mutex of the connection around it            *)
(* (client.mu of the server, Client.mu of the client), some do not.        *)
(* ReadMessage waits until it has all bytes of a header, then until it has *)
(* all bytes of the payload.  What TCP does in between, the sizes in which *)
(* bytes arrive, nobody sees: io.ReadFull waits for all of them.  The      *)
(* connection stays up; a lost one is in other modules.                    *)
(***************************************************************************)
EXTENDS Codec

CONSTANTS
    Writers,        \* the goroutines that write to the connection
    Locked,         \* those that hold its mutex while they do
    Messages,       \* what they may send: a type and fields
    Unchecked,      \* types whose encoder's error is ignored ("data, _ :=")
    MaxSent,        \* bound: messages sent in all
    Nobody          \* nobody holds the mutex

Version == 1
HeaderSize == 4
MaxPayloadSize == LenBase * LenBase

ASSUME WireAssumption ==
    /\ Locked \subseteq Writers
    /\ Nobody \notin Writers
    /\ MaxSent \in Nat
    /\ \A m \in Messages : m.type \in DOMAIN MsgType

VARIABLES
    conn,           \* the bytes on their way
    mutex,          \* who holds the mutex
    payload,        \* what each writer has still to write of its message
    reading,        \* what the reader waits for: "header" or "payload"; "stopped"
    header,         \* the type and the length it has read
    meant,          \* what the writers have sent, in the order of the headers
    sent,           \* the same as it is on the wire: type and payload
    received        \* the messages that ReadMessage has returned

vars == <<conn, mutex, payload, reading, header, meant, sent, received>>

Bytes == 0..255
Frames == [type : DOMAIN MsgType, payload : {Encode(m) : m \in Messages}]

TypeOK ==
    /\ conn \in Seq(Bytes)
    /\ mutex \in Locked \cup {Nobody}
    /\ payload \in [Writers -> {Encode(m) : m \in Messages} \cup {<<>>}]
    /\ reading \in {"header", "payload", "stopped"}
    /\ header \in [code : Bytes, len : 0..MaxUint16]
    /\ sent \in Seq(Frames)
    /\ Len(meant) = Len(sent) /\ Len(sent) <= MaxSent

Init ==
    /\ conn = <<>>
    /\ mutex = Nobody
    /\ payload = [w \in Writers |-> <<>>]
    /\ reading = "header"
    /\ header = [code |-> 0, len |-> 0]
    /\ meant = <<>> /\ sent = <<>> /\ received = <<>>

-----------------------------------------------------------------------------
(* A writer calls WriteMessage if it has something to write: some callers  *)
(* give up when the encoder fails, the others write an empty payload.  A   *)
(* payload that is too large is refused before anything is written.        *)
Sends(m) ==
    /\ Encodable(m) \/ m.type \in Unchecked
    /\ Len(Encode(m)) <= MaxPayloadSize

Header(m) == <<Version, MsgType[m.type]>> \o Uint16(Len(Encode(m)))

(* Fault: the mutex is not taken.                                          *)
WriteHeader_Unlocked(w, m) ==
    /\ payload[w] = <<>> /\ Len(sent) < MaxSent
    /\ Sends(m)
    /\ conn' = conn \o Header(m)
    /\ payload' = [payload EXCEPT ![w] = Encode(m)]
    /\ meant' = Append(meant, m)
    /\ sent' = Append(sent, [type |-> m.type, payload |-> Encode(m)])
    /\ UNCHANGED <<mutex, reading, header, received>>

(* The first Write of WriteMessage, after the mutex has been taken.  It is *)
(* the only one, and the mutex is given up, when there is no payload.      *)
WriteHeader(w, m) ==
    /\ payload[w] = <<>> /\ Len(sent) < MaxSent
    /\ Sends(m)
    /\ w \in Locked => mutex = Nobody
    /\ mutex' = IF w \in Locked /\ Encode(m) # <<>> THEN w ELSE mutex
    /\ conn' = conn \o Header(m)
    /\ payload' = [payload EXCEPT ![w] = Encode(m)]
    /\ meant' = Append(meant, m)
    /\ sent' = Append(sent, [type |-> m.type, payload |-> Encode(m)])
    /\ UNCHANGED <<reading, header, received>>

(* The second.                                                             *)
WritePayload(w) ==
    /\ payload[w] # <<>>
    /\ conn' = conn \o payload[w]
    /\ payload' = [payload EXCEPT ![w] = <<>>]
    /\ mutex' = IF w \in Locked THEN Nobody ELSE mutex
    /\ UNCHANGED <<reading, header, meant, sent, received>>

-----------------------------------------------------------------------------
TypeOf(code) ==
    IF \E t \in DOMAIN MsgType : MsgType[t] = code
    THEN CHOOSE t \in DOMAIN MsgType : MsgType[t] = code
    ELSE "unknown"

Deliver(code, bytes) ==
    received' = Append(received, [type |-> TypeOf(code), payload |-> bytes])

(* The first ReadFull of ReadMessage.  Another version is an error, after  *)
(* which both ends close the connection.                                   *)
ReadHeader ==
    LET h == readFull(conn, HeaderSize)
        len == readUint16(SubSeq(h.val, 3, 4)).val
    IN  /\ reading = "header" /\ h.ok
        /\ conn' = h.rest
        /\ header' = [code |-> h.val[2], len |-> len]
        /\ IF h.val[1] # Version
           THEN reading' = "stopped" /\ UNCHANGED received
           ELSE IF len > 0 THEN reading' = "payload" /\ UNCHANGED received
           ELSE Deliver(h.val[2], <<>>) /\ UNCHANGED reading
        /\ UNCHANGED <<mutex, payload, meant, sent>>

(* The second.                                                             *)
ReadPayload ==
    LET p == readFull(conn, header.len)
    IN  /\ reading = "payload" /\ p.ok
        /\ conn' = p.rest
        /\ reading' = "header"
        /\ Deliver(header.code, p.val)
        /\ UNCHANGED <<mutex, payload, header, meant, sent>>

-----------------------------------------------------------------------------
Read == ReadHeader \/ ReadPayload

Next ==
    \/ \E w \in Writers : WritePayload(w) \/ \E m \in Messages : WriteHeader(w, m)
    \/ Read

(* A goroutine that can run does run.                                      *)
Fairness == WF_vars(Read) /\ \A w \in Writers : WF_vars(WritePayload(w))

Spec == Init /\ [][Next]_vars /\ Fairness

-----------------------------------------------------------------------------
(* The stream of bytes is a channel of messages: they arrive whole, in     *)
(* order, once, and all of them arrive.  It takes that header and payload  *)
(* stay together (protocol.go:188-195) and that both ends count alike.     *)
Channel == INSTANCE MessageChannel

ImplementsChannel == Channel!Spec

(* The receiver understands every message as its sender meant it; one that *)
(* could not be encoded is taken for nothing (server.go:663, :688), and an *)
(* older peer's offers and answers, without NAT type and candidates, are   *)
(* still understood (serialize.go:522 "backward compatibility").           *)
UnderstoodAsMeant ==
    \A i \in DOMAIN received :
        /\ received[i].type \in DOMAIN MsgType
        /\ Understood(received[i].type, received[i].payload) = Meant(meant[i])
=============================================================================
