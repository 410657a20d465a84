----------------------------- MODULE ReplayServer -----------------------------
(***************************************************************************)
(* vncdo-replay --server serves the archive RawCapture has written to one  *)
(* client after another.  A scrubber follows the live handshake: it says   *)
(* how many recorded bytes go out before the client has to answer.  The    *)
(* screen waits for the client's first FramebufferUpdateRequest.           *)
(*                                                                         *)
(* The live client speaks like the recorded one, with a version of its own *)
(* and messages of its own, and reads what it is sent before it answers.   *)
(* connectionMade and dataReceived each run advance to its end: busy is    *)
(* TRUE from the one to the other, and nothing else runs meanwhile.        *)
(***************************************************************************)
EXTENDS RawCapture

CONSTANTS
    Scripts,      \* sequences of messages a live client sends
    Forever       \* --forever

\* How much of a message says how long it is.
Header == [[kind \in Kinds |-> 1] EXCEPT !.encodings = 4, !.text = 8, !.qemu = 2]
\* Messages client_message_length does not know.
Unknown == {"odd", "fence"}

ASSUME ScriptAssumption == Scripts \subseteq Seq(Kinds)
ASSUME ServerAssumption == Forever \in BOOLEAN

VARIABLES
    conn,         \* "listening", "up", "closing" or, once the reactor has stopped, "stopped"
    script,       \* the messages the live client sends after the handshake
    client,       \* the bytes it has still to send
    busy,         \* is advance running
    buffer,       \* the client's bytes that wait for advance
    pos,          \* how much of the recording has been written
    grammar,      \* the scrubber of the live session
    checked,      \* _version_checked
    awaiting,     \* awaiting_request
    exhausted,
    served

progress == <<busy, buffer, pos, grammar, checked, awaiting, exhausted, served>>
replay   == <<conn, script, client, progress>>
vars     == <<capture, replay>>

s2c == recorded["s2c"]
\* meta.json: the version recorded, 0 for none.
NegotiatedVersion == scrubber.ver

-----------------------------------------------------------------------------
(* The live client *)

\* The recorded session with the messages of the live client; what else it says
\* after another version does not matter.
Live(messages) == [Shown(session, scrubber.preserve) EXCEPT !.inputs = messages]

Speech(reply, messages) == Says("c2s", "reply", 12, reply) \o Offer(Live(messages), "c2s")

\* A client answers once it has read what comes before its answer.
Answers == Cuts(client, SubSeq(shown["s2c"], pos + 1, Len(shown["s2c"])))

-----------------------------------------------------------------------------
(* ReplayProtocol *)

\* connectionMade, which goes on in advance.
Connect(reply, messages) ==
    /\ phase = "archived" /\ conn = "listening"
    /\ conn' = "up"
    /\ script' = messages /\ client' = Speech(reply, messages)
    /\ busy' = TRUE
    /\ buffer' = <<>> /\ pos' = 0
    /\ grammar' = Scrubber(FALSE)
    /\ checked' = FALSE /\ awaiting' = FALSE /\ exhausted' = FALSE /\ served' = FALSE
    /\ UNCHANGED capture

\* dataReceived: what comes after the recording has run out is dropped.
Receive(n) ==
    /\ conn = "up" /\ ~ busy
    /\ client' = SubSeq(client, n + 1, Len(client))
    /\ served' = TRUE
    /\ IF exhausted THEN UNCHANGED <<buffer, busy>>
       ELSE buffer' = buffer \o SubSeq(client, 1, n) /\ busy' = TRUE
    /\ UNCHANGED <<capture, conn, script, pos, grammar, checked, awaiting, exhausted>>

\* What is left of the recording.
Recorded == SubSeq(s2c, pos + 1, Len(s2c))

\* The recorded bytes the grammar waits for are written; a recording that ends
\* before them leaves its rest to ServeRest.  A field of no bytes is taken by the
\* feed of the field before it, which is always one of the same direction: here
\* that is a step of its own, with nothing in between.
WriteChunk ==
    /\ busy /\ Waiting(grammar, "s2c") /\ HasChunk(grammar, Recorded)
    /\ grammar' = Resume(grammar, Decode(ChunkOf(grammar, Recorded)))
    /\ pos' = pos + Nbytes(grammar)
    /\ UNCHANGED <<capture, conn, script, client, busy, buffer, checked, awaiting, exhausted, served>>

\* The client's bytes the grammar waits for, or a field of none; a version other than the recorded
\* one closes the connection.
ReadChunk ==
    LET next == Resume(grammar, Decode(ChunkOf(grammar, buffer)))
    IN  /\ busy /\ Waiting(grammar, "c2s") /\ HasChunk(grammar, buffer)
        /\ grammar' = next
        /\ buffer' = SubSeq(buffer, Nbytes(grammar) + 1, Len(buffer))
        /\ checked' = (checked \/ next.ver # 0)
        /\ IF ~ checked /\ next.ver \notin {0, NegotiatedVersion} /\ NegotiatedVersion # 0
             THEN conn' = "closing" /\ exhausted' = TRUE /\ busy' = FALSE
             ELSE UNCHANGED <<conn, exhausted, busy>>
        /\ UNCHANGED <<capture, script, client, pos, awaiting, served>>

\* Not enough bytes of the client: advance returns.
Expect ==
    /\ busy /\ Waiting(grammar, "c2s") /\ ~ HasChunk(grammar, buffer)
    /\ busy' = FALSE
    /\ UNCHANGED <<capture, conn, script, client, buffer, pos, grammar, checked, awaiting, exhausted, served>>

\* advance has left its loop: the handshake is over, or the recording is.
Serving == busy /\ (grammar.at = "done" \/ (Waiting(grammar, "s2c") /\ ~ HasChunk(grammar, Recorded)))
Gated   == awaiting \/ (grammar.at = "done" /\ grammar.sized)

\* The rest of the recording is written.
Exhaust ==
    /\ pos' = Len(s2c)
    /\ exhausted' = TRUE /\ busy' = FALSE
    /\ UNCHANGED <<capture, conn, script, client, grammar, checked, served>>

\* client_message_length of the message at the head of the buffer.
Kind     == Head(buffer).v[1]
Measured == buffer # <<>> /\ Len(buffer) >= Header[Kind]
Whole    == Measured /\ Len(buffer) >= Size[Kind]

\* Mutant: the rest of the buffer goes with the message.
SkipMessage_DropsAll ==
    /\ Serving /\ Gated /\ Whole /\ Kind \notin Unknown \cup {"request"}
    /\ awaiting' = TRUE
    /\ buffer' = <<>>
    /\ UNCHANGED <<capture, conn, script, client, busy, pos, grammar, checked, exhausted, served>>

\* saw_update_request takes a message that asks for nothing off the buffer.
SkipMessage ==
    /\ Serving /\ Gated /\ Whole /\ Kind \notin Unknown \cup {"request"}
    /\ awaiting' = TRUE
    /\ buffer' = SubSeq(buffer, Size[Kind] + 1, Len(buffer))
    /\ UNCHANGED <<capture, conn, script, client, busy, pos, grammar, checked, exhausted, served>>

\* Mutant: the first byte of a request is enough.
SeeRequest_HeaderOnly ==
    /\ Serving /\ Gated /\ Measured /\ Kind \in Unknown \cup {"request"}
    /\ awaiting' = TRUE /\ buffer' = <<>>
    /\ Exhaust

\* A request, or a message it cannot measure, lets the screen go out.
SeeRequest ==
    /\ Serving /\ Gated /\ Measured
    /\ \/ /\ Kind = "request" /\ Whole
          /\ buffer' = SubSeq(buffer, Size["request"] + 1, Len(buffer))
       \/ /\ Kind \in Unknown
          /\ buffer' = <<>>
    /\ awaiting' = TRUE
    /\ Exhaust

\* No whole message is left: advance returns.
AwaitRequest ==
    /\ Serving /\ Gated /\ ~ Whole
    /\ Measured => Kind \notin Unknown
    /\ awaiting' = TRUE /\ busy' = FALSE
    /\ UNCHANGED <<capture, conn, script, client, buffer, pos, grammar, checked, exhausted, served>>

\* A recording without a screen is served to its end at once.
ServeRest ==
    /\ Serving /\ ~ Gated
    /\ Exhaust
    /\ UNCHANGED <<buffer, awaiting>>

\* connection_finished: a client that has sent something ends the server, a
\* probe does not.
Finishes == served /\ ~ Forever

\* connectionLost.  The protocol is gone.
Disconnect ==
    /\ conn \in {"up", "closing"} /\ ~ busy
    /\ conn' = IF Finishes THEN "stopped" ELSE "listening"
    /\ script' = <<>> /\ client' = <<>> /\ busy' = FALSE /\ buffer' = <<>> /\ pos' = 0
    /\ grammar' = Scrubber(FALSE)
    /\ checked' = FALSE /\ awaiting' = FALSE /\ exhausted' = FALSE /\ served' = FALSE
    /\ UNCHANGED capture

ReplayInit ==
    /\ conn = "listening" /\ script = <<>> /\ client = <<>>
    /\ busy = FALSE /\ buffer = <<>> /\ pos = 0
    /\ grammar = Scrubber(FALSE)
    /\ checked = FALSE /\ awaiting = FALSE /\ exhausted = FALSE /\ served = FALSE

Advance == WriteChunk \/ ReadChunk \/ Expect \/ SkipMessage \/ SeeRequest \/ AwaitRequest \/ ServeRest

Init == RecordInit /\ ReplayInit

Next ==
    \/ RecordNext /\ UNCHANGED replay
    \/ \E reply \in Replies \ {0}, messages \in Scripts : Connect(reply, messages)
    \/ Advance
    \/ \E n \in Answers : Receive(n)
    \/ Disconnect

\* advance runs to its end, and what a connected client has to say arrives;
\* nobody has to connect, or to leave.
Fairness == WF_vars(Advance) /\ WF_vars(\E n \in Answers : Receive(n))

Spec == Init /\ [][Next]_vars /\ Fairness

-----------------------------------------------------------------------------
(* Properties *)

\* An archive whose handshake the grammar follows: not one kept with a security
\* type or a version it does not know.
Paceable ==
    ~ scrubber.preserve \/ (/\ session.reply # 0
                            /\ session.sec \in {NONE, VNC_AUTHENTICATION, DIFFIE_HELLMAN, INVALID})

\* Has the live client sent a whole request, or as much as it takes to see that
\* a message cannot be measured?
Asked ==
    \E j \in DOMAIN script :
        /\ script[j] \in Unknown \cup {"request"}
        /\ Offset(script, j) + (IF script[j] = "request" THEN Size[script[j]] ELSE Header[script[j]])
               <= Len(Messages(script)) - Len(client)

\* No recorded byte is sent to a client that has still to answer an earlier
\* one, and none of the screen before the first request has arrived whole: the
\* screen "gets exactly one chance" (docs/capture.md, replay.py:advance,
\* _serve_session), however the client's bytes are cut.
Paced ==
    conn = "up" /\ Paceable =>
        \A i \in 1..pos :
            IF s2c[i].f = "screen" THEN Asked
            ELSE client # <<>> => Rank[s2c[i].f] < Rank[Head(client).f]

\* A client that speaks the recorded version and asks for the screen is sent the
\* whole recording, also one that ends in the middle of the handshake, unless it
\* leaves or is the wrong version (replay.py:advance, _serve_session).
ReplayEnds ==
    (conn = "up" /\ Paceable) ~> (conn # "up" \/ (exhausted /\ pos = Len(s2c)))
==============================================================================
