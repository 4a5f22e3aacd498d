--------------------------- MODULE MessageChannel ---------------------------
(***************************************************************************)
(* What a connection promises to those who write messages to it and to the *)
(* one who reads them: messages arrive whole, in the order in which they   *)
(* were begun, each once, and all of them.  The comment at protocol.go:2   *)
(* says that all messages are framed; Wire implements this by framing.     *)
(***************************************************************************)
EXTENDS Naturals, Sequences

CONSTANT Frames         \* the messages

VARIABLES
    sent,               \* everything that was sent
    received            \* everything that was received

vars == <<sent, received>>

Init == sent = <<>> /\ received = <<>>

Send ==
    /\ \E f \in Frames : sent' = Append(sent, f)
    /\ received' = received

Receive ==
    /\ Len(received) < Len(sent)
    /\ received' = Append(received, sent[Len(received) + 1])
    /\ sent' = sent

Next == Send \/ Receive

Spec == Init /\ [][Next]_vars /\ WF_vars(Receive)
=============================================================================
