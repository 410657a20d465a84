------------------------------ MODULE RFBServer ------------------------------
(***************************************************************************)
(* loggingproxy.py's RFBServer: vnclog's own reading of what the client    *)
(* sends.  It only listens.  The server's side it does not hear: it has to *)
(* guess from the client's bytes alone when the handshake is over, and the *)
(* decoder of the server's stream (startLogging) is started at that        *)
(* moment, with ServerInit expected.  From then on it cuts the client's    *)
(* stream into messages, for the handlers that record them.                *)
(*                                                                         *)
(* Its state is a record o: the handler that waits and for how many bytes  *)
(* (need), its buffer, the messages handed on, and the field the decoder   *)
(* was started on, "none" before it gets a byte.  The k-th byte of a       *)
(* message of some kind has the value <<kind, k>>.  A byte read as the     *)
(* type of a message that is none leads anywhere: the observer is then     *)
(* "astray", and not followed further.                                     *)
(***************************************************************************)
EXTENDS HandshakeScrubber, SequencesExt

\* Sizes of messages: "encodings" lists two, "text" holds three characters, and
\* "odd" is one the observer does not know.
Size == [pixelformat |-> 20, encodings |-> 12, request |-> 10, key |-> 8, pointer |-> 6,
         text |-> 11, fence |-> 12, qemu |-> 12, odd |-> 2]
Kinds == DOMAIN Size
Extent(script) == UNION {{j} \X (1..Size[script[j]]) : j \in DOMAIN script}
Offset(script, j) == Cardinality({place \in Extent(script) : place[1] < j})

\* The bytes of messages sent one after the other: the k-th of them is the byte
\* of some message that has k bytes with those before it.
Place(script, k) ==
    LET j == CHOOSE j \in DOMAIN script : k - Offset(script, j) \in 1..Size[script[j]]
    IN  <<script[j], k - Offset(script, j)>>
Messages(script) == [k \in 1..Cardinality(Extent(script)) |-> Byte("input", Place(script, k))]

TYPE_LEN == [Size EXCEPT !.encodings = 4, !.text = 8, !.fence = 9, !.qemu = 2, !.odd = 0]

\* connectionMade.
Observer(passwordRequired) ==
    [handler |-> "version", need |-> 12, buffer |-> <<>>, required |-> passwordRequired,
     handled |-> <<>>, raised |-> FALSE, started |-> "none"]

Left(o, n) == SubSeq(o.buffer, n + 1, Len(o.buffer))
Wait(o, handler, need) == [o EXCEPT !.handler = handler, !.need = need]
Took(o, n) == [o EXCEPT !.buffer = Left(o, n)]

\* 3.3 has no choice of the client to read: --password-required says what comes.
\* A reply that is no version is waited for again; the connection may be closed.
HandleVersion(o) ==
    LET reply == IF Head(o.buffer).f = "reply" THEN Head(o.buffer).v ELSE 0
        rest  == Took(o, 12)
    IN  CASE reply \in {3003, 3005} /\ o.required   -> Wait(rest, "VNCAuthResponse", 16)
          [] reply \in {3003, 3005} /\ ~ o.required -> Wait(rest, "clientInit", 1)
          [] reply \in {3007, 3008}                 -> Wait(rest, "security", 1)
          [] OTHER                                  -> rest

\* Mutant: the response is not skipped.
HandleSecurity_NoSkip(o) == Wait(Took(o, 1), "clientInit", 1)

HandleSecurity(o) ==
    IF Head(o.buffer).v = VNC_AUTHENTICATION THEN Wait(Took(o, 1), "VNCAuthResponse", 16)
                                             ELSE Wait(Took(o, 1), "clientInit", 1)

HandleVNCAuthResponse(o) == Wait(Took(o, 16), "clientInit", 1)
HandleClientInit(o)      == Wait(Took(o, 1), "protocol", 1)

HandedOn(o, kind) == [o EXCEPT !.handled = Append(@, kind)]

\* A short message is waited for, and its length stays the handler's after it.
\* What follows the list of encodings or the payload of a fence is not waited
\* for: unpack_from raises when it is not there, and the payload is what there is.
HandleProtocol(o) ==
    LET kind == Head(o.buffer).v[1]
        n    == TYPE_LEN[kind]
        head == Took(o, n)
        rest == Size[kind] - n
    IN  IF Head(o.buffer).f # "input" \/ Head(o.buffer).v[2] # 1 THEN Wait(o, "astray", 0)
        ELSE IF Len(o.buffer) < n THEN Wait(o, "protocol", n)
        ELSE CASE kind \in {"pixelformat", "request", "key", "pointer"} -> HandedOn(head, kind)
               [] kind = "encodings" -> IF Len(head.buffer) < rest THEN head
                                        ELSE HandedOn(Took(head, rest), kind)
               [] kind = "text"      -> Wait(head, "clientCutText", rest)
               [] kind = "fence"     -> HandedOn(Took(head, rest), kind)
               [] kind = "qemu"      -> Wait(head, "qemuExtendedKeyEvent", 10)
               [] kind = "odd"       -> o

\* Does the message at the head make HandleProtocol raise?
Raises(o) ==
    /\ o.handler = "protocol" /\ Head(o.buffer).f = "input" /\ Head(o.buffer).v[2] = 1
    /\ LET kind == Head(o.buffer).v[1]
       IN  kind = "odd" \/ (kind = "encodings" /\ Len(o.buffer) \in TYPE_LEN[kind]..Size[kind] - 1)

\* The two bytes before it are gone already: it takes two of the next message.
HandleQemuExtendedKeyEvent(o) == HandedOn(Wait(Took(o, 12), "protocol", 1), "qemu")

HandleClientCutText(o) ==
    HandedOn(Wait(Took(o, Size["text"] - TYPE_LEN["text"]), "protocol", 1), "text")

Handle(o) ==
    CASE o.handler = "version"              -> HandleVersion(o)
      [] o.handler = "security"             -> HandleSecurity(o)
      [] o.handler = "VNCAuthResponse"      -> HandleVNCAuthResponse(o)
      [] o.handler = "clientInit"           -> HandleClientInit(o)
      [] o.handler = "protocol"             -> HandleProtocol(o)
      [] o.handler = "clientCutText"        -> HandleClientCutText(o)
      [] o.handler = "qemuExtendedKeyEvent" -> HandleQemuExtendedKeyEvent(o)

\* dataReceived: the handler that waits is called while there is enough for it;
\* VNCLoggingServerProxy logs what it raises.
Turn(o) == IF o.handler = "astray" \/ o.raised \/ Len(o.buffer) < o.need THEN o
           ELSE [Handle(o) EXCEPT !.raised = Raises(o)]

\* No more turns than bytes: one that takes none is the last.
Heard(o) == LET turns[n \in 0..Len(o.buffer)] == IF n = 0 THEN o ELSE Turn(turns[n - 1])
            IN  turns[Len(o.buffer)]

HearClient(o, data) ==
    LET after == Heard([o EXCEPT !.buffer = @ \o data, !.raised = FALSE])
    IN  IF after.handler = "astray" THEN [after EXCEPT !.buffer = <<>>] ELSE after

Handshake == {"version", "security", "VNCAuthResponse", "clientInit"}

\* The decoder is given the server's bytes once the handshake looks finished.
HearServer(o, data) ==
    IF o.handler \notin Handshake /\ o.started = "none" THEN [o EXCEPT !.started = Head(data).f] ELSE o
==============================================================================
