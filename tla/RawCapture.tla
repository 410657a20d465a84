------------------------------ MODULE RawCapture ------------------------------
(***************************************************************************)
(* vnclog --capture-raw records one session.  The server and the client    *)
(* hold their handshake in lock step; TCP cuts each direction anywhere;    *)
(* the session ends at any byte.  What is recorded goes to an archive when *)
(* the connection is lost, or nowhere if the scrubber gave up.             *)
(*                                                                         *)
(* dataReceived of either side of the proxy is Deliver, one Take for each  *)
(* chunk the generator is resumed with, and FeedEnds, which gives the data *)
(* to the observer as well; nothing else runs between them.                *)
(***************************************************************************)
EXTENDS RFBServer

CONSTANTS
    Replies,      \* versions a client replies with, 0 for one that is no version
    Types,        \* security types a server may ask for, INVALID if it refuses
    Keys,         \* key sizes of Diffie-Hellman
    Pieces,       \* sizes in which a direction arrives, besides all there is
    Inputs,       \* sequences of messages a client sends after the handshake
    Preserves     \* may --capture-raw-unsafe be given, or not

ASSUME ReplyAssumption == Replies \subseteq Nat
ASSUME TypeAssumption  == Types \subseteq Nat /\ Keys \subseteq Nat
ASSUME PieceAssumption == Pieces \subseteq Nat \ {0} /\ Preserves \subseteq BOOLEAN
ASSUME InputAssumption == Inputs \subseteq Seq(Kinds)

VARIABLES
    phase,        \* "record", then "archived" or, if there is nothing to write, "dropped"
    session,      \* what server and client will agree on
    shown,        \* the bytes of the session the archive shows; no step changes these two
    wire,         \* the bytes each side has still to send
    feeding,      \* the tap whose feed is under way, or "none"
    heard,        \* the data being fed
    observer,     \* vnclog's RFBServer
    pending,      \* what each tap holds back
    scrubber,
    recorded      \* s2c and c2s of the CaptureWriter

capture == <<phase, session, shown, wire, feeding, heard, observer, pending, scrubber, recorded>>

-----------------------------------------------------------------------------
(* The session that is recorded *)

\* Bound: beyond one message of the client only without authentication.
Brief    == <<"pointer">>
Sessions == {p \in [reply : Replies, types : {2}, sec : Types, key : Keys, ok : BOOLEAN,
                    inputs : Inputs \cup {Brief}] :
                p.inputs # Brief => p.sec = NONE /\ p.ok}

\* A server takes a reply that is no version for 3.3, and carries on.
Version(p) == IF p.reply = 0 THEN 3003 ELSE p.reply

\* A session field by field, as far as one direction carries it; "reason",
\* "screen" and the messages stand for what follows a refusal and the handshake.
From(f) == IF f = "secret" THEN "c2s" ELSE Tap(f)
Says(d, f, n, v) == IF From(f) = d THEN Bytes(f, n, v) ELSE <<>>

Reason(d)     == Says(d, "reason", 2, 0)
Screen(p, d)  == IF d = "s2c" THEN Bytes("screen", 2, 0) ELSE Messages(p.inputs)
Opening(p, d) == Says(d, "init", 1, 1) \o
                     (Says(d, "serverinit", 24, 2) \o (Says(d, "name", 2, 0) \o Screen(p, d)))

HasResult(p)  == ~ (Version(p) < 3008 /\ p.sec = NONE)
Verdict(p, d) ==
    IF ~ HasResult(p) THEN Opening(p, d)
    ELSE IF p.ok THEN Says(d, "result", 4, 0) \o Opening(p, d)
    ELSE Says(d, "result", 4, 1) \o (IF Version(p) >= 3008 THEN Reason(d) ELSE <<>>)

Proof(p, d) ==
    CASE p.sec = VNC_AUTHENTICATION ->
            Says(d, "challenge", 16, 0) \o (Says(d, "response", 16, 0) \o Verdict(p, d))
      [] p.sec = DIFFIE_HELLMAN ->
            Says(d, "dh", 4, p.key) \o (Says(d, "modulus", p.key, 0) \o (Says(d, "serverkey", p.key, 0) \o
                (Says(d, "credentials", ARD_CREDENTIALS_LEN, 0) \o (Says(d, "clientkey", p.key, 0) \o Verdict(p, d)))))
      [] p.sec = NONE -> Verdict(p, d)
      [] OTHER -> Says(d, "ask", 2, 0) \o (Says(d, "secret", 2, 0) \o Verdict(p, d))

Offer(p, d) ==
    IF Version(p) < 3007
    THEN Says(d, "auth", 4, p.sec) \o (IF p.sec = INVALID THEN Reason(d) ELSE Proof(p, d))
    ELSE IF p.sec = INVALID THEN Says(d, "count", 1, 0) \o Reason(d)
    ELSE Says(d, "count", 1, p.types) \o (Says(d, "types", p.types, p.sec) \o
             (Says(d, "choice", 1, p.sec) \o Proof(p, d)))

\* The two directions of a session, as bytes.
Streams(p) == [d \in Directions |->
    Says(d, "version", 12, 3008) \o (Says(d, "reply", 12, p.reply) \o Offer(p, d))]

\* The order of the fields; the two directions of the session have none.
Rank == [version |-> 1, reply |-> 2, count |-> 3, types |-> 4, choice |-> 5, auth |-> 6,
         challenge |-> 7, response |-> 8, dh |-> 9, modulus |-> 10, serverkey |-> 11,
         credentials |-> 12, clientkey |-> 13, ask |-> 14, secret |-> 15, result |-> 16,
         reason |-> 17, init |-> 18, serverinit |-> 19, name |-> 20, screen |-> 21, input |-> 21]

Other(d) == IF d = "s2c" THEN "c2s" ELSE "s2c"

\* A side sends a field once it has received what comes before it: may the n-th
\* byte of mine be sent while theirs are not, and how much arrives at once.
Ready(mine, theirs, n) == theirs # <<>> => Rank[mine[n].f] <= Rank[Head(theirs).f]
Cuts(mine, theirs) ==
    {n \in DOMAIN mine : /\ Ready(mine, theirs, n)
                         /\ n \in Pieces \/ n = Len(mine) \/ ~ Ready(mine, theirs, n + 1)}

-----------------------------------------------------------------------------
(* CaptureWriter and the taps *)

\* What follows the feed in dataReceived.
Observe(d, data) ==
    observer' = IF d = "c2s" THEN HearClient(observer, data) ELSE HearServer(observer, data)

Record(d, bytes) == recorded' = [recorded EXCEPT ![d] = @ \o bytes]

\* A direction nobody watches is recorded as it is.
Deliver(d, n) ==
    LET data == SubSeq(wire[d], 1, n)
    IN  /\ phase = "record" /\ feeding = "none"
        /\ wire' = [wire EXCEPT ![d] = SubSeq(@, n + 1, Len(@))]
        /\ IF Waiting(scrubber, d)
             THEN /\ pending' = [pending EXCEPT ![d] = @ \o data]
                  /\ feeding' = d /\ heard' = data
                  /\ UNCHANGED <<recorded, observer>>
             ELSE /\ Record(d, pending[d] \o data)
                  /\ pending' = [pending EXCEPT ![d] = <<>>]
                  /\ Observe(d, data)
                  /\ UNCHANGED <<feeding, heard>>
        /\ UNCHANGED <<phase, session, shown, scrubber>>

Watches(d) == feeding = d /\ Waiting(scrubber, d) /\ HasChunk(scrubber, pending[d])

Take(d) ==
    LET chunk == ChunkOf(scrubber, pending[d])
    IN  /\ Watches(d)
        /\ Record(d, Records(scrubber, chunk))
        /\ scrubber' = Resume(scrubber, Decode(chunk))
        /\ pending' = [pending EXCEPT ![d] = SubSeq(@, Len(chunk) + 1, Len(@))]
        /\ UNCHANGED <<phase, session, shown, wire, feeding, heard, observer>>

\* Mutant: what is left on a tap nobody watches is held back.
FeedEnds_KeepsTail(d) ==
    /\ feeding = d /\ ~ Watches(d)
    /\ feeding' = "none" /\ heard' = <<>>
    /\ phase' = IF scrubber.abort THEN "dropped" ELSE phase
    /\ IF scrubber.abort THEN UNCHANGED observer ELSE Observe(d, heard)
    /\ UNCHANGED <<session, shown, wire, scrubber, pending, recorded>>

\* The rest is flushed if the tap is no longer watched; a scrubber that gave
\* up ends the capture and the session with it, and the observer hears no more.
FeedEnds(d) ==
    /\ feeding = d /\ ~ Watches(d)
    /\ feeding' = "none" /\ heard' = <<>>
    /\ phase' = IF scrubber.abort THEN "dropped" ELSE phase
    /\ IF scrubber.abort THEN UNCHANGED observer ELSE Observe(d, heard)
    /\ IF Waiting(scrubber, d)
         THEN UNCHANGED <<pending, recorded>>
         ELSE /\ Record(d, pending[d])
              /\ pending' = [pending EXCEPT ![d] = <<>>]
    /\ UNCHANGED <<session, shown, wire, scrubber>>

\* Mutant: a half-arrived field is flushed.
Flush_Always(d) == pending[d]

\* What a tap gives up when the connection is lost: nothing while a handshake
\* is being rewritten.
Flush(d) == IF scrubber.at # "done" /\ ~ scrubber.preserve THEN <<>> ELSE pending[d]

\* The server speaks first.  The proxy and its observer are gone afterwards.
SawBytes == scrubber.at # "version" \/ pending["s2c"] # <<>>

ConnectionLost ==
    /\ phase = "record" /\ feeding = "none"
    /\ phase' = IF SawBytes THEN "archived" ELSE "dropped"
    /\ recorded' = [d \in Directions |-> recorded[d] \o Flush(d)]
    /\ pending' = [d \in Directions |-> <<>>]
    /\ observer' = Observer(FALSE)
    /\ UNCHANGED <<session, shown, wire, feeding, heard, scrubber>>

\* The session an archive shows: the one that took place if its handshake is
\* kept, otherwise the same one with a server that asks for nothing.
Shown(p, preserve) ==
    IF preserve \/ p.sec = INVALID THEN p ELSE [p EXCEPT !.sec = NONE, !.types = 1]

\* --password-required is only looked at before 3.7.
PasswordRequired(p) == IF Version(p) < 3007 THEN BOOLEAN ELSE {FALSE}

RecordInit ==
    \E p \in Sessions, preserve \in Preserves :
        /\ \E required \in PasswordRequired(p) : observer = Observer(required)
        /\ shown = Streams(Shown(p, preserve))
        /\ phase = "record"
        /\ session = p
        /\ wire = Streams(p)
        /\ feeding = "none" /\ heard = <<>>
        /\ pending = [d \in Directions |-> <<>>]
        /\ recorded = [d \in Directions |-> <<>>]
        /\ scrubber = Scrubber(preserve)

RecordNext ==
    \/ \E d \in Directions : Take(d) \/ FeedEnds(d)
    \/ \E d \in Directions : \E n \in Cuts(wire[d], wire[Other(d)]) : Deliver(d, n)
    \/ ConnectionLost

RecordSpec == RecordInit /\ [][RecordNext]_capture

-----------------------------------------------------------------------------
(* Properties *)

\* "Credentials never reach disk" (docs/capture.md:58): whatever the security
\* type, however TCP cuts the stream and wherever the session ends, no byte of
\* the exchange is recorded, not even one that had arrived in part, unless the
\* handshake is kept or its capture is dropped (capture.py:HandshakeScrubber).
NoSecret ==
    ~ scrubber.preserve /\ phase # "dropped" =>
        \A d \in Directions : \A i \in DOMAIN recorded[d] :
            recorded[d][i].f \notin Exchange \cup {"ask", "secret"}

\* The recording is at every moment the beginning of the session it shows: the
\* greeting, the rewritten handshake and then the session as sent, each byte
\* once and in order; and once the handshake is over nothing is held back
\* (capture.py:_feed, _run).
RecordsSession ==
    phase # "dropped" =>
        /\ \A d \in Directions : IsPrefix(recorded[d], shown[d])
        /\ \/ scrubber.preserve /\ phase = "archived"
           \/ scrubber.at = "done" /\ scrubber.sized /\ feeding = "none"
             => \A d \in Directions : Len(recorded[d]) + Len(wire[d]) = Len(shown[d])

\* The sessions whose handshake can be followed from the client's side: of a
\* version the observer knows; before 3.7 --password-required has to tell the
\* truth, and of the security types it knows the length of these two.
Followed ==
    session.reply \in {3003, 3005, 3007, 3008} /\ session.sec \in {NONE, VNC_AUTHENTICATION}
    /\ (Version(session) < 3007 => (observer.required <=> session.sec = VNC_AUTHENTICATION))

\* The messages whose end the observer finds however they are cut: not a list or
\* a payload it does not wait for, not two bytes it takes of the next message.
Framed == {"pixelformat", "request", "key", "pointer", "text"}

\* In the sessions Followed vnclog's decoder of the screen is started on the
\* first byte of ServerInit: neither on a SecurityResult before it, nor on a byte
\* after it, nor never, however the client's bytes are cut.  If all the client
\* sends are messages Framed, the observer hands them on as they were sent, in
\* order and once each, and what it holds back begins where the last one ended
\* (loggingproxy.py:RFBServer, startLogging, which expects "_handleServerInit,
\* 24").
ObserverInStep ==
    phase = "record" /\ feeding = "none" /\ Followed =>
        LET said  == Streams(session)
            Sent(d) == SubSeq(said[d], 1, Len(said[d]) - Len(wire[d]))
            input == {i \in DOMAIN Sent("c2s") : Sent("c2s")[i].f = "input"}
            text  == IF observer.handler = "clientCutText" THEN TYPE_LEN["text"] ELSE 0
        IN  /\ observer.started = IF \E i \in DOMAIN Sent("s2c") : Sent("s2c")[i].f = "serverinit"
                                  THEN "serverinit" ELSE "none"
            /\ observer.handler \notin Handshake /\ Range(session.inputs) \subseteq Framed =>
                  /\ IsPrefix(observer.handled, session.inputs)
                  /\ Len(Messages(observer.handled)) + text + Len(observer.buffer) = Cardinality(input)
==============================================================================
