----------------------------- MODULE LoggingProxy -----------------------------
(***************************************************************************)
(* vnclog between its clients and one server: which connections are        *)
(* served, how the two sides of one end each other, what a session leaves  *)
(* behind, and how the process ends.  The bytes are RawCapture's; here a   *)
(* chunk is one the scrubber may give up on, one with a key event in it,   *)
(* or any other.                                                           *)
(*                                                                         *)
(* The pairing of the two connections is Twisted's portforward: the client *)
(* is not read from before the server is connected, and whichever side is  *)
(* lost closes the other.                                                  *)
(***************************************************************************)
EXTENDS Integers, FiniteSets

CONSTANTS
    Conns,        \* connections made to vnclog, in any order
    Modes         \* ways vnclog is run

AllModes == {"stream", "per_client", "one_shot", "capture"}

ASSUME ModeAssumption == Modes \subseteq AllModes

VARIABLES
    mode,         \* --file-per-client, --one-shot, --capture-raw, or none of them
    reactor,      \* "running" or "stopping"
    code,         \* exit status of the process, or "none"
    taken,        \* factory.session_taken
    failed,       \* factory.capture_failed
    archives,     \* archives written
    out,          \* the connection whose file is factory._out, or {}
    files,        \* the connections whose files are open
    muted,        \* the connections one of whose events could not be recorded
    down,         \* each client: "idle", "open", "closing", and in the end
                  \* "done" after a session or "gone" without one
    up,           \* each one's connection to the server: "none", "dialing",
                  \* "open", "closing" or "lost"
    refused, saw, \* of each VNCLoggingServerProxy: refused, saw_bytes,
    capture       \* and whether it has a CaptureWriter

process == <<mode, reactor, code>>
factory == <<taken, failed, archives, out, files, muted>>
proxy   == <<down, up, refused, saw, capture>>
vars    == <<process, factory, proxy>>

OneShot == mode \in {"one_shot", "capture"}
Live(c) == down[c] \in {"open", "closing"}

-----------------------------------------------------------------------------
(* Connections are made *)

\* A second connection to a --one-shot run is closed, and owns nothing.
Refuse(c) ==
    /\ reactor = "running" /\ down[c] = "idle"
    /\ OneShot /\ taken
    /\ refused' = [refused EXCEPT ![c] = TRUE]
    /\ down' = [down EXCEPT ![c] = "closing"]
    /\ UNCHANGED <<process, factory, up, saw, capture>>

\* Mutant: the claim is not looked at.
Accept_Concurrent(c) ==
    /\ reactor = "running" /\ down[c] = "idle"
    /\ down' = [down EXCEPT ![c] = "open"]
    /\ up' = [up EXCEPT ![c] = "dialing"]
    /\ IF mode = "per_client"
         THEN out' = {c} /\ files' = files \cup {c}
         ELSE UNCHANGED <<out, files>>
    /\ taken' = (taken \/ OneShot)
    /\ capture' = [capture EXCEPT ![c] = mode = "capture"]
    /\ UNCHANGED <<process, failed, archives, muted, refused, saw>>

\* getRecorder opens a file for the connection with --file-per-client.
Accept(c) ==
    /\ reactor = "running" /\ down[c] = "idle"
    /\ ~ (OneShot /\ taken)
    /\ down' = [down EXCEPT ![c] = "open"]
    /\ up' = [up EXCEPT ![c] = "dialing"]
    /\ IF mode = "per_client"
         THEN out' = {c} /\ files' = files \cup {c}
         ELSE UNCHANGED <<out, files>>
    /\ taken' = (taken \/ OneShot)
    /\ capture' = [capture EXCEPT ![c] = mode = "capture"]
    /\ UNCHANGED <<process, failed, archives, muted, refused, saw>>

\* loseConnection on a client's transport.
Closing(c) == IF down[c] = "open" THEN "closing" ELSE down[c]

\* The connection to the server is made, also for a client that has left.
Connected(c) ==
    /\ up[c] = "dialing"
    /\ up' = [up EXCEPT ![c] = "open"]
    /\ UNCHANGED <<process, factory, down, refused, saw, capture>>

ConnectionFailed(c) ==
    /\ up[c] = "dialing"
    /\ up' = [up EXCEPT ![c] = "lost"]
    /\ down' = [down EXCEPT ![c] = Closing(c)]
    /\ UNCHANGED <<process, factory, refused, saw, capture>>

-----------------------------------------------------------------------------
(* Bytes arrive *)

\* Mutant: an aborted capture is not a failure.
Abort_Silent(c) ==
    /\ capture[c]
    /\ capture' = [capture EXCEPT ![c] = FALSE]
    /\ down' = [down EXCEPT ![c] = Closing(c)]
    /\ UNCHANGED failed

\* _abortCapture: the capture is dropped and the client is hung up on.
Abort(c) ==
    /\ capture[c]
    /\ failed' = TRUE
    /\ capture' = [capture EXCEPT ![c] = FALSE]
    /\ down' = [down EXCEPT ![c] = Closing(c)]

\* A key event is written to the file of its connection; a file that has been
\* closed raises, dataReceived catches that, and the event is lost.
Log(c) ==
    muted' = IF mode = "per_client" /\ c \notin files THEN muted \cup {c} ELSE muted

\* A refused client is not listened to.
ClientBytesRefused(c) ==
    /\ Live(c) /\ refused[c]
    /\ UNCHANGED vars

ClientBytes(c) ==
    /\ Live(c) /\ ~ refused[c] /\ up[c] \in {"open", "closing"}
    /\ saw' = [saw EXCEPT ![c] = TRUE]
    /\ \/ Abort(c) /\ UNCHANGED muted
       \/ UNCHANGED <<failed, capture, down, muted>>
       \/ Log(c) /\ UNCHANGED <<failed, capture, down>>
    /\ UNCHANGED <<process, taken, archives, out, files, up, refused>>

ServerBytes(c) ==
    /\ up[c] \in {"open", "closing"}
    /\ saw' = [saw EXCEPT ![c] = TRUE]
    /\ \/ Abort(c)
       \/ UNCHANGED <<failed, capture, down>>
    /\ UNCHANGED <<process, taken, archives, out, files, muted, up, refused>>

-----------------------------------------------------------------------------
(* Connections are lost *)

\* Proxy.connectionLost on the client's side: the other side is closed.
HangUp(c) == up' = [up EXCEPT ![c] = IF @ = "open" THEN "closing" ELSE @]

\* clientConnectionLost closes whatever file is _out.
CloseOut == files' = files \ out /\ out' = {}

\* Mutant: a refused connection releases the claim.
RefusedLost_Releases(c) ==
    /\ Live(c) /\ refused[c]
    /\ down' = [down EXCEPT ![c] = "gone"]
    /\ taken' = FALSE
    /\ UNCHANGED <<process, failed, archives, out, files, muted, up, refused, saw, capture>>

\* A refused connection ends without touching the factory.
RefusedLost(c) ==
    /\ Live(c) /\ refused[c]
    /\ down' = [down EXCEPT ![c] = "gone"]
    /\ UNCHANGED <<process, factory, up, refused, saw, capture>>

\* A connection without a byte was a probe: its claim is released.
ProbeLost(c) ==
    /\ Live(c) /\ ~ refused[c] /\ ~ saw[c]
    /\ down' = [down EXCEPT ![c] = "gone"]
    /\ taken' = (taken /\ ~ OneShot)
    /\ capture' = [capture EXCEPT ![c] = FALSE]
    /\ HangUp(c)
    /\ CloseOut
    /\ UNCHANGED <<process, failed, archives, muted, refused, saw>>

\* The end of a session: the archive is written, or fails to be, and either way
\* a --one-shot run stops; a reactor that is stopping already says so, and that
\* is caught.
Stop == reactor' = IF OneShot THEN "stopping" ELSE reactor

\* Mutant: a failed write does not stop the run.
SessionLost_StopsIfWritten(c) ==
    /\ Live(c) /\ ~ refused[c] /\ saw[c]
    /\ down' = [down EXCEPT ![c] = "done"]
    /\ \/ capture[c] /\ archives' = archives + 1 /\ capture' = [capture EXCEPT ![c] = FALSE]
          /\ Stop /\ UNCHANGED failed
       \/ capture[c] /\ failed' = TRUE /\ UNCHANGED <<reactor, archives, capture>>
       \/ ~ capture[c] /\ Stop /\ UNCHANGED <<failed, archives, capture>>
    /\ HangUp(c)
    /\ CloseOut
    /\ UNCHANGED <<mode, code, taken, muted, refused, saw>>

SessionLost(c) ==
    /\ Live(c) /\ ~ refused[c] /\ saw[c]
    /\ down' = [down EXCEPT ![c] = "done"]
    /\ \/ capture[c] /\ archives' = archives + 1 /\ capture' = [capture EXCEPT ![c] = FALSE]
          /\ UNCHANGED failed
       \/ capture[c] /\ failed' = TRUE /\ UNCHANGED <<archives, capture>>
       \/ ~ capture[c] /\ UNCHANGED <<failed, archives, capture>>
    /\ Stop
    /\ HangUp(c)
    /\ CloseOut
    /\ UNCHANGED <<mode, code, taken, muted, refused, saw>>

\* The server's side is lost: the client is hung up on.
ServerLost(c) ==
    /\ up[c] \in {"open", "closing"}
    /\ up' = [up EXCEPT ![c] = "lost"]
    /\ down' = [down EXCEPT ![c] = Closing(c)]
    /\ UNCHANGED <<process, factory, refused, saw, capture>>

-----------------------------------------------------------------------------
(* The process ends *)

\* SIGINT, or the viewer vnclog started has exited.
Interrupt ==
    /\ reactor = "running"
    /\ reactor' = "stopping"
    /\ UNCHANGED <<mode, code, factory, proxy>>

\* A reactor that stops first loses every connection.
Exit ==
    /\ reactor = "stopping" /\ code = "none"
    /\ \A c \in Conns : ~ Live(c) /\ up[c] \notin {"open", "closing"}
    /\ code' = IF failed THEN "COMMAND_FAILED" ELSE "0"
    /\ UNCHANGED <<mode, reactor, factory, proxy>>

Init ==
    /\ mode \in Modes
    /\ reactor = "running" /\ code = "none"
    /\ taken = FALSE /\ failed = FALSE /\ archives = 0
    /\ out = {} /\ files = {} /\ muted = {}
    /\ down = [c \in Conns |-> "idle"] /\ up = [c \in Conns |-> "none"]
    /\ refused = [c \in Conns |-> FALSE]
    /\ saw = [c \in Conns |-> FALSE]
    /\ capture = [c \in Conns |-> FALSE]

Lost(c)   == RefusedLost(c) \/ ProbeLost(c) \/ SessionLost(c)
Arrive(c) == Refuse(c) \/ Accept(c)
Dialed(c) == Connected(c) \/ ConnectionFailed(c)
Read(c)   == ClientBytesRefused(c) \/ ClientBytes(c) \/ ServerBytes(c)

Next ==
    \/ \E c \in Conns :
          code = "none" /\ (Arrive(c) \/ Dialed(c) \/ Read(c) \/ Lost(c) \/ ServerLost(c))
    \/ Interrupt
    \/ Exit

\* A connection that has been closed, from here or by a reactor that stops, is
\* reported lost, and a stopped process exits; nobody has to connect or speak.
Ending(c) ==
    /\ code = "none"
    /\ \/ (down[c] = "closing" \/ reactor = "stopping") /\ Lost(c)
       \/ (up[c] = "closing" \/ reactor = "stopping") /\ ServerLost(c)
Fairness == (\A c \in Conns : WF_vars(Ending(c))) /\ WF_vars(Exit)

Spec == Init /\ [][Next]_vars /\ Fairness

-----------------------------------------------------------------------------
(* Properties *)

TypeOK ==
    /\ mode \in AllModes /\ reactor \in {"running", "stopping"}
    /\ code \in {"none", "0", "COMMAND_FAILED"}
    /\ taken \in BOOLEAN /\ failed \in BOOLEAN /\ archives \in 0..1
    /\ out \subseteq Conns /\ files \subseteq Conns /\ muted \subseteq Conns
    /\ down \in [Conns -> {"idle", "open", "closing", "done", "gone"}]
    /\ up \in [Conns -> {"none", "dialing", "open", "closing", "lost"}]
    /\ refused \in [Conns -> BOOLEAN] /\ saw \in [Conns -> BOOLEAN] /\ capture \in [Conns -> BOOLEAN]

\* Does c hold the claim of a --one-shot run: it was accepted, and is or was a
\* session.
Claims(c) == ~ refused[c] /\ down[c] \in {"open", "closing", "done"}

\* In a --one-shot run the claim is held exactly as long as one connection has
\* it: a probe gives it back, a refused connection never had it, a session
\* keeps it after its end so that no second one is served while the reactor
\* stops (loggingproxy.py:connectionMade, connectionLost).
ClaimHeld ==
    OneShot => /\ taken <=> \E c \in Conns : Claims(c)
               /\ \A c, d \in Conns : Claims(c) /\ Claims(d) => c = d

\* "exiting 0 would tell a script the capture succeeded" (command.py:645): a
\* run of --capture-raw that exits 0 has written its one archive, or nothing
\* that was a session ever connected; one that exits otherwise has written none.
ExitHonest ==
    mode = "capture" /\ code # "none" =>
        (code = "0" <=> (archives = 1 \/ \A c \in Conns : down[c] # "done"))

\* A --one-shot run ends when its session does, whichever side ends it and
\* whether or not the archive could be written: "the alternative is a process
\* that never exits" (loggingproxy.py:connectionLost, sessionFinished).
SessionEnds ==
    \A c \in Conns :
        (OneShot /\ saw[c] /\ ~ refused[c] /\ (down[c] \in {"closing", "done"})) ~> code # "none"

\* vnclog --file-per-client "creates a new file for every client connection and
\* records each clients activity" (docs/usage.md:329): no event of a client
\* that is being served is lost.
EachRecorded == muted = {}
==============================================================================
