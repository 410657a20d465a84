------------------------------ MODULE CommandRun ------------------------------
(***************************************************************************)
(* One run of vncdo: the words of the command line become callbacks on     *)
(* factory.deferred, the connection fires it, and the first thing that     *)
(* ends the run (the last callback, a failed command, the timeout, the     *)
(* connection) decides the exit status; the reactor stops 0.1 s later.     *)
(*                                                                         *)
(* A command is one of its kinds: "key" writes to the server at once,      *)
(* "type" does so for each of two characters, "wait" waits for the server  *)
(* (capture, expect, stable), "pause" for the clock, "raise" raises when   *)
(* it is run, "unknown" is no command, "short" lacks an argument or has    *)
(* one that is no number.                                                  *)
(***************************************************************************)
EXTENDS Integers, Sequences

CONSTANTS
    Scripts,      \* command lines
    Timeouts,     \* may --timeout be given, or not
    HasDelay,     \* --delay
    Endings       \* ways in which the connection may end by itself

Kinds      == {"key", "type", "wait", "pause", "raise", "unknown", "short"}
AllEndings == {"refused", "password", "protocol", "result", "drop", "interrupt"}

ASSUME ScriptAssumption == Scripts \subseteq Seq(Kinds)
ASSUME OptionAssumption == Timeouts \subseteq BOOLEAN /\ HasDelay \in BOOLEAN
ASSUME EndingAssumption == Endings \subseteq AllEndings

VARIABLES
    phase,        \* "parse", "run" while the reactor runs, or "exited"
    script,       \* the command line, which no step changes
    args,         \* the words build_command_list has not read
    program,      \* the callbacks it has put on factory.deferred
    pc,           \* the next callback to run; after the program come the close
                  \* and the report of success
    result,       \* of factory.deferred: "unfired", "client" or "failure"
    busy,         \* what the deferred of the callback under way waits for
    status,       \* reactor.exit_status, or "none"
    stops,        \* calls of reactor.stop that are scheduled
    code,         \* the exit code of the process, or "none"
    conn,         \* "dialing", "up", "closing" or "lost"
    timer,        \* is the timeout still to come
    unsent        \* writes in the transport's buffer

chain == <<pc, result, busy>>
out   == <<status, stops, code>>
net   == <<conn, unsent>>
vars  == <<phase, script, args, program, chain, out, net, timer>>

-----------------------------------------------------------------------------
(* build_command_list, build_tool and the end of vncdo *)

Callbacks == {"write", "wait", "pause", "raise"}
Pause     == IF HasDelay THEN <<"pause">> ELSE <<>>

Expand(kind) ==
    CASE kind = "key"  -> <<"write">>
      [] kind = "type" -> <<"write">> \o Pause \o <<"write">> \o Pause
      [] OTHER         -> <<kind>>

\* One turn of the loop: the command's callbacks, and the delay if more follow.
AddCommand ==
    /\ phase = "parse" /\ args # <<>> /\ Head(args) \notin {"unknown", "short"}
    /\ args' = Tail(args)
    /\ program' = program \o Expand(Head(args)) \o (IF args' # <<>> THEN Pause ELSE <<>>)
    /\ UNCHANGED <<phase, script, chain, out, net, timer>>

\* CommandParseError exits with USAGE; the IndexError or ValueError of an argument
\* is nobody's, and the interpreter exits with 1.
RejectCommand ==
    /\ phase = "parse" /\ args # <<>> /\ Head(args) \in {"unknown", "short"}
    /\ phase' = "exited"
    /\ code' = IF Head(args) = "unknown" THEN "USAGE" ELSE "ERROR"
    /\ UNCHANGED <<script, args, program, chain, status, stops, net, timer>>

\* build_tool connects, and vncdo arms the timeout and runs the reactor.
Start ==
    /\ phase = "parse" /\ args = <<>>
    /\ phase' = "run" /\ timer' \in Timeouts
    /\ UNCHANGED <<script, args, program, chain, out, net>>

-----------------------------------------------------------------------------
(* VNCDoCLIFactory *)

\* Mutants: the last outcome wins; an outcome that comes second stops the
\* reactor too.
Outcome_LastWins(st) == status' = st /\ stops' = (IF status = "none" THEN 1 ELSE stops)
Outcome_StopsAgain(st) ==
    /\ status' = (IF status = "none" THEN st ELSE status)
    /\ stops' = (IF stops < 2 THEN stops + 1 ELSE stops)

\* done, and error, which adds nothing to it but the message: the first outcome
\* wins, and it alone schedules the reactor's stop.
Outcome(st) ==
    IF status = "none" THEN status' = st /\ stops' = stops + 1
                       ELSE UNCHANGED <<status, stops>>

Running  == phase = "run" /\ UNCHANGED <<phase, script, args, program, code>>

\* Callbacks run one after the other, before the reactor does anything else.
Runnable == result # "unfired" /\ busy = "no" /\ pc <= Len(program) + 2
Reacts   == Running /\ ~Runnable

\* A callback of the program, which pc is at, given the client.
At(callback) == /\ Running /\ Runnable /\ result = "client"
                /\ pc <= Len(program) /\ program[pc] = callback

RunWrite ==
    /\ At("write")
    /\ unsent' = IF conn = "up" THEN unsent + 1 ELSE unsent
    /\ pc' = pc + 1
    /\ UNCHANGED <<result, busy, status, stops, conn, timer>>

RunLong ==
    /\ At("wait") \/ At("pause")
    /\ busy' = program[pc]
    /\ UNCHANGED <<pc, result, status, stops, net, timer>>

RunRaise ==
    /\ At("raise")
    /\ result' = "failure"
    /\ UNCHANGED <<pc, busy, status, stops, net, timer>>

\* Mutant: success is left to the close that follows.
RunClose_IsLast ==
    /\ Running /\ Runnable /\ result = "client" /\ pc = Len(program) + 1
    /\ conn' = (IF conn = "up" THEN "closing" ELSE conn)
    /\ pc' = pc + 2
    /\ UNCHANGED <<result, busy, status, stops, unsent, timer>>

\* The first callback build_tool adds: loseConnection.
RunClose ==
    /\ Running /\ Runnable /\ result = "client" /\ pc = Len(program) + 1
    /\ conn' = IF conn = "up" THEN "closing" ELSE conn
    /\ pc' = pc + 1
    /\ UNCHANGED <<result, busy, status, stops, unsent, timer>>

\* The second: done(SUCCESS).
RunDone ==
    /\ Running /\ Runnable /\ result = "client" /\ pc = Len(program) + 2
    /\ Outcome("SUCCESS")
    /\ pc' = pc + 1
    /\ UNCHANGED <<result, busy, net, timer>>

\* Mutant: the errback takes the failure and lets the rest run.
RunErrback_Resumes ==
    /\ Running /\ Runnable /\ result = "failure"
    /\ Outcome("COMMAND_FAILED")
    /\ pc' = pc + 1 /\ result' = "client"
    /\ UNCHANGED <<busy, net, timer>>

\* Its errback: a failure skips every callback between.
RunErrback ==
    /\ Running /\ Runnable /\ result = "failure"
    /\ Outcome("COMMAND_FAILED")
    /\ pc' = Len(program) + 3
    /\ UNCHANGED <<result, busy, net, timer>>

-----------------------------------------------------------------------------
(* What the reactor reports *)

PauseEnds ==
    /\ Reacts /\ busy = "pause"
    /\ busy' = "no" /\ pc' = pc + 1
    /\ UNCHANGED <<result, status, stops, net, timer>>

\* The server has answered; what hangs on the answer may raise.
WaitEnds ==
    /\ Reacts /\ busy = "wait" /\ conn = "up"
    /\ busy' = "no"
    /\ \/ pc' = pc + 1 /\ UNCHANGED result
       \/ result' = "failure" /\ UNCHANGED pc
    /\ UNCHANGED <<status, stops, net, timer>>

Connected ==
    /\ Reacts /\ conn = "dialing"
    /\ conn' = "up" /\ result' = "client"
    /\ UNCHANGED <<pc, busy, status, stops, unsent, timer>>

\* clientConnectionFailed does not fire factory.deferred here.
ConnectionFailed ==
    /\ Reacts
    /\ \/ /\ "refused" \in Endings /\ conn = "dialing"
          /\ conn' = "lost" /\ Outcome("CONNECTION_FAILED")
       \/ /\ "password" \in Endings /\ conn = "dialing"
          /\ conn' = "closing" /\ Outcome("AUTHENTICATION_FAILED")
       \/ /\ "protocol" \in Endings /\ conn \in {"dialing", "up"}
          /\ conn' = "closing" /\ Outcome("PROTOCOL_ERROR")
    /\ UNCHANGED <<chain, unsent, timer>>

\* security_result closes on a word it does not know, and reports nothing.
GivesUp ==
    /\ Reacts /\ "result" \in Endings /\ conn = "dialing"
    /\ conn' = "closing"
    /\ UNCHANGED <<chain, status, stops, unsent, timer>>

\* Mutant: a connection that closes has ended well.
ConnectionLost_IsSuccess == Outcome("SUCCESS")

\* clientConnectionLost.
ConnectionLost == Outcome("CONNECTION_LOST")

Flush ==
    /\ Reacts /\ conn \in {"up", "closing"} /\ unsent > 0
    /\ unsent' = unsent - 1
    /\ UNCHANGED <<chain, status, stops, conn, timer>>

Closed ==
    /\ Reacts /\ conn = "closing" /\ unsent = 0
    /\ conn' = "lost" /\ ConnectionLost
    /\ UNCHANGED <<chain, unsent, timer>>

Dropped ==
    /\ Reacts /\ "drop" \in Endings /\ conn \in {"dialing", "up"}
    /\ conn' = "lost" /\ ConnectionLost
    /\ UNCHANGED <<chain, unsent, timer>>

\* Mutant: the timeout hangs up and leaves the outcome to the close.
TimedOut_HangsUp ==
    /\ Reacts /\ timer
    /\ timer' = FALSE
    /\ conn' = (IF conn \in {"dialing", "up"} THEN "closing" ELSE conn)
    /\ UNCHANGED <<chain, status, stops, unsent>>

TimedOut ==
    /\ Reacts /\ timer
    /\ timer' = FALSE /\ Outcome("TIMEOUT")
    /\ UNCHANGED <<chain, net>>

\* The reactor's stop disconnects everything, which the factory is told of: what is
\* open is lost, what is being dialled fails.  "dialing" is also the handshake, which
\* is open, and the lookup of the host's name, with nothing to disconnect.
DisconnectAll ==
    /\ conn' = "lost"
    /\ \/ conn # "lost" /\ ConnectionLost
       \/ conn = "dialing" /\ Outcome("CONNECTION_FAILED")
       \/ conn \in {"dialing", "lost"} /\ UNCHANGED <<status, stops>>

\* reactor.run returns, 0.1 s after the outcome or on a signal before there is one,
\* and vncdo exits with the status there is then.
Exit ==
    /\ phase = "run" /\ ~Runnable /\ (stops > 0 \/ "interrupt" \in Endings)
    /\ phase' = "exited" /\ DisconnectAll
    /\ code' = IF status' = "none" THEN "ERROR" ELSE status'
    /\ UNCHANGED <<script, args, program, chain, unsent, timer>>

-----------------------------------------------------------------------------
Init ==
    /\ phase = "parse" /\ script \in Scripts /\ args = script /\ program = <<>>
    /\ pc = 1 /\ result = "unfired" /\ busy = "no"
    /\ status = "none" /\ stops = 0 /\ code = "none"
    /\ conn = "dialing" /\ unsent = 0 /\ timer = FALSE

Main  == AddCommand \/ RejectCommand \/ Start
Chain == RunWrite \/ RunLong \/ RunRaise \/ RunClose \/ RunDone \/ RunErrback
Ends  == ConnectionFailed \/ GivesUp \/ Closed \/ Dropped \/ TimedOut \/ Exit

Next == Main \/ Chain \/ PauseEnds \/ WaitEnds \/ Connected \/ Flush \/ Ends

\* The interpreter and the reactor go on: timers fire, and a close goes through
\* once the buffer is out.  The server need not answer, nor the buffer drain.
Fairness ==
    /\ WF_vars(Main) /\ WF_vars(Chain) /\ WF_vars(PauseEnds)
    /\ WF_vars(Closed) /\ WF_vars(TimedOut) /\ WF_vars(Exit /\ stops > 0)

Spec == Init /\ [][Next]_vars /\ Fairness

-----------------------------------------------------------------------------
(* Properties *)

Statuses == {"SUCCESS", "AUTHENTICATION_FAILED", "CONNECTION_FAILED", "CONNECTION_LOST",
             "PROTOCOL_ERROR", "COMMAND_FAILED", "TIMEOUT"}

\* The type of every variable; the reactor is told to stop at most once.
TypeOK ==
    /\ phase \in {"parse", "run", "exited"} /\ script \in Seq(Kinds) /\ args \in Seq(Kinds)
    /\ program \in Seq(Callbacks) /\ pc \in 1..(Len(program) + 3)
    /\ result \in {"unfired", "client", "failure"} /\ busy \in {"no", "wait", "pause"}
    /\ status \in Statuses \cup {"none"} /\ stops \in 0..1
    /\ code \in Statuses \cup {"none", "USAGE", "ERROR"}
    /\ conn \in {"dialing", "up", "closing", "lost"} /\ unsent \in Nat /\ timer \in BOOLEAN

\* vncdo says 0 only when every action completed (docs/usage.md, Exit Status):
\* each callback of the command line has run to its end and none has failed.
SuccessIsHonest ==
    status = "SUCCESS" => /\ pc > Len(program) /\ busy = "no" /\ result = "client"
                          /\ args = <<>>

\* The first outcome wins: what follows it (the close, a late timeout, a chain
\* that ends after all) never changes the exit status (VNCDoCLIFactory.done).
FirstWins == [][status # "none" => status' = status]_vars

\* A run is called cut short or timed out only if it was: some callback had yet
\* to end (docs/usage.md, codes 11 and 40).
CutShortIsHonest ==
    [][status = "none" /\ status' \in {"CONNECTION_LOST", "TIMEOUT"}
          => pc <= Len(program) + 2]_vars

\* A command that fails ends the session at that point: nothing after it is
\* begun (docs/commands.md).
FailureEnds == [][status = "COMMAND_FAILED" => busy' = "no" /\ unsent' <= unsent]_vars

\* A run ends once it has an outcome, or has lost its connection; with --timeout
\* every run ends, also against a server that never answers.
Ending == timer \/ (phase = "run" /\ (status # "none" \/ conn = "lost"))
Terminates == Ending ~> phase = "exited"
==============================================================================
