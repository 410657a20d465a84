-------------------------- MODULE CommandRunProofs --------------------------
(* Proofs about CommandRun, for every command line and every ending. *)
EXTENDS CommandRun, TLAPS

\* What AddCommand appends is a sequence of callbacks.
LEMMA ConcatIsProgram ==
    ASSUME NEW S, NEW s \in Seq(S), NEW t \in Seq(S)
    PROVE  s \o t \in Seq(S) /\ Len(s \o t) = Len(s) + Len(t)
  OBVIOUS

\* So is the delay between two commands.
LEMMA PauseIsProgram == Pause \in Seq(Callbacks)
<1>1. CASE HasDelay
  BY <1>1 DEF Pause, Callbacks
<1>2. CASE ~HasDelay
  BY <1>2 DEF Pause
<1> QED BY <1>1, <1>2

\* The callbacks of a command that build_command_list accepts.
LEMMA ExpandIsProgram ==
    ASSUME NEW kind \in Kinds \ {"unknown", "short"}
    PROVE  Expand(kind) \in Seq(Callbacks)
<1>1. Pause \in Seq(Callbacks) /\ <<"write">> \in Seq(Callbacks)
  BY PauseIsProgram DEF Callbacks
<1>2. CASE kind = "key"
  BY <1>1, <1>2 DEF Expand
<1>3. CASE kind = "type"
  <2>1. <<"write">> \o Pause \in Seq(Callbacks)
    BY <1>1, ConcatIsProgram
  <2>2. <<"write">> \o Pause \o <<"write">> \in Seq(Callbacks)
    BY <1>1, <2>1, ConcatIsProgram
  <2>3. <<"write">> \o Pause \o <<"write">> \o Pause \in Seq(Callbacks)
    BY <1>1, <2>2, ConcatIsProgram
  <2> QED BY <1>3, <2>3 DEF Expand
<1>4. CASE kind \in {"wait", "pause", "raise"}
  <2>1. kind \in Callbacks
    BY <1>4 DEF Callbacks
  <2> QED BY <1>4, <2>1 DEF Expand
<1> QED BY <1>2, <1>3, <1>4 DEF Kinds

-----------------------------------------------------------------------------
(* The inductive invariant *)

\* The reactor runs only a command line that has been read to its end, and has
\* decided nothing before.
Started ==
    /\ phase = "parse" => status = "none" /\ stops = 0 /\ pc = 1 /\ result = "unfired"
    /\ phase = "run" => args = <<>>

\* Only the outcome schedules a stop.
StopsFollow == stops = IF status = "none" THEN 0 ELSE 1

\* A chain that has reached its end has had an outcome, and SUCCESS is only
\* decided there.
Finished ==
    /\ pc = Len(program) + 3 => status # "none"
    /\ status = "SUCCESS" => /\ pc = Len(program) + 3 /\ busy = "no"
                             /\ result = "client" /\ args = <<>>

\* A callback under way is one of the program, and has been given the client.
Underway == busy # "no" => pc <= Len(program) /\ result = "client"

RunInv == TypeOK /\ Started /\ StopsFollow /\ Finished /\ Underway

\* An outcome keeps the types, stops the reactor once and stays.
LEMMA OutcomeFacts ==
    ASSUME RunInv, NEW st \in Statuses, Outcome(st)
    PROVE  /\ status' \in Statuses /\ status' # "none"
           /\ stops' = 1
           /\ status' = IF status = "none" THEN st ELSE status
  BY DEF RunInv, TypeOK, StopsFollow, Outcome, Statuses

\* Reading the command line.
LEMMA MainInv ==
    ASSUME RunInv, Main
    PROVE  RunInv'
<1> USE DEF RunInv, TypeOK, Started, StopsFollow, Finished, Underway, chain, out, net
<1>1. CASE AddCommand
  <2> DEFINE more == Expand(Head(args))
  <2> DEFINE after == IF args' # <<>> THEN Pause ELSE <<>>
  <2>1. /\ phase = "parse" /\ program' = program \o more \o after
        /\ Head(args) \in Kinds \ {"unknown", "short"} /\ args' \in Seq(Kinds)
    BY <1>1 DEF AddCommand
  <2>2. UNCHANGED <<phase, script, pc, result, busy, status, stops, code, conn, unsent, timer>>
    BY <1>1 DEF AddCommand
  <2>3. more \in Seq(Callbacks)
    BY <2>1, ExpandIsProgram
  <2>4. after \in Seq(Callbacks)
    <3>1. CASE args' # <<>>
      BY <3>1, PauseIsProgram
    <3>2. CASE args' = <<>>
      BY <3>2
    <3> QED BY <3>1, <3>2
  <2> HIDE DEF more, after
  <2>5. program \o more \in Seq(Callbacks)
    BY <2>3, ConcatIsProgram
  <2>6. (program \o more) \o after \in Seq(Callbacks)
    BY <2>4, <2>5, ConcatIsProgram
  <2>7. program' \in Seq(Callbacks) /\ Len(program') \in Nat
    BY <2>1, <2>6
  <2>8. pc = 1 /\ status = "none" /\ busy = "no"
    BY <2>1
  <2>9. TypeOK'
    BY <2>1, <2>2, <2>7, <2>8
  <2>10. Started' /\ StopsFollow' /\ Finished' /\ Underway'
    BY <2>1, <2>2, <2>7, <2>8
  <2> QED BY <2>9, <2>10
<1>2. CASE RejectCommand
  BY <1>2 DEF RejectCommand
<1>3. CASE Start
  BY <1>3, OptionAssumption DEF Start
<1> QED BY <1>1, <1>2, <1>3 DEF Main

\* The callbacks of factory.deferred.
LEMMA ChainInv ==
    ASSUME RunInv, Chain
    PROVE  RunInv'
<1> USE DEF RunInv, TypeOK, Started, StopsFollow, Finished, Underway, chain, out, net,
            Running, Runnable
<1>1. CASE RunWrite
  BY <1>1 DEF RunWrite, At
<1>2. CASE RunLong
  BY <1>2 DEF RunLong, At
<1>3. CASE RunRaise
  BY <1>3 DEF RunRaise, At
<1>4. CASE RunClose
  BY <1>4 DEF RunClose
<1>5. CASE RunDone
  <2>1. status' \in Statuses /\ status' # "none" /\ stops' = 1
    BY <1>5, OutcomeFacts DEF RunDone, Statuses
  <2> QED BY <1>5, <2>1 DEF RunDone
<1>6. CASE RunErrback
  <2>1. /\ status' \in Statuses /\ status' # "none" /\ stops' = 1
        /\ status' = "SUCCESS" => status = "SUCCESS"
    BY <1>6, OutcomeFacts DEF RunErrback, Statuses
  <2> QED BY <1>6, <2>1 DEF RunErrback
<1> QED BY <1>1, <1>2, <1>3, <1>4, <1>5, <1>6 DEF Chain

\* Answers, timers and the connection.
LEMMA ReactorInv ==
    ASSUME RunInv, PauseEnds \/ WaitEnds \/ Connected \/ Flush \/ Ends
    PROVE  RunInv'
<1> USE DEF RunInv, TypeOK, Started, StopsFollow, Finished, Underway, chain, out, net,
            Reacts, Running, Runnable
<1>1. CASE PauseEnds
  BY <1>1 DEF PauseEnds
<1>2. CASE WaitEnds
  BY <1>2 DEF WaitEnds
<1>3. CASE Connected
  BY <1>3 DEF Connected
<1>4. CASE Flush
  BY <1>4 DEF Flush
<1>5. CASE ConnectionFailed
  <2>1. /\ status' \in Statuses /\ status' # "none" /\ stops' = 1
        /\ status' = "SUCCESS" => status = "SUCCESS"
    BY <1>5, OutcomeFacts DEF ConnectionFailed, Statuses
  <2> QED BY <1>5, <2>1 DEF ConnectionFailed
<1>6. CASE GivesUp
  BY <1>6 DEF GivesUp
<1>7. CASE Closed \/ Dropped
  <2>1. /\ status' \in Statuses /\ status' # "none" /\ stops' = 1
        /\ status' = "SUCCESS" => status = "SUCCESS"
    BY <1>7, OutcomeFacts DEF Closed, Dropped, ConnectionLost, Statuses
  <2> QED BY <1>7, <2>1 DEF Closed, Dropped
<1>8. CASE TimedOut
  <2>1. /\ status' \in Statuses /\ status' # "none" /\ stops' = 1
        /\ status' = "SUCCESS" => status = "SUCCESS"
    BY <1>8, OutcomeFacts DEF TimedOut, Statuses
  <2>2. timer' \in BOOLEAN
    BY <1>8 DEF TimedOut
  <2>3. UNCHANGED <<phase, script, args, program, code, pc, result, busy, conn, unsent>>
    BY <1>8 DEF TimedOut
  <2>4. phase = "run"
    BY <1>8 DEF TimedOut
  <2> QED BY <2>1, <2>2, <2>3, <2>4
<1>9. CASE Exit
  <2>1. /\ UNCHANGED <<script, args, program, pc, result, busy, unsent, timer>>
        /\ phase = "run" /\ phase' = "exited" /\ conn' = "lost"
        /\ code' = IF status' = "none" THEN "ERROR" ELSE status'
    BY <1>9 DEF Exit, DisconnectAll
  <2>2. \/ UNCHANGED <<status, stops>>
        \/ /\ status' \in Statuses /\ status' # "none" /\ stops' = 1
           /\ status' = "SUCCESS" => status = "SUCCESS"
    BY <1>9, OutcomeFacts DEF Exit, DisconnectAll, ConnectionLost, Statuses
  <2>3. code' \in Statuses \cup {"none", "USAGE", "ERROR"}
    BY <2>1, <2>2
  <2> QED BY <2>1, <2>2, <2>3
<1> QED BY <1>1, <1>2, <1>3, <1>4, <1>5, <1>6, <1>7, <1>8, <1>9 DEF Ends

\* RunInv holds of every run of vncdo.
THEOREM RunInvariant == Spec => []RunInv
<1>1. Init => RunInv
  <2> SUFFICES ASSUME Init PROVE RunInv
    OBVIOUS
  <2>1. script \in Seq(Kinds) /\ args \in Seq(Kinds) /\ program \in Seq(Callbacks)
    BY ScriptAssumption DEF Init
  <2>2. Len(program) = 0 /\ pc = 1
    BY DEF Init
  <2>3. timer \in BOOLEAN
    BY DEF Init
  <2>4. TypeOK
    BY <2>1, <2>2, <2>3 DEF Init, TypeOK
  <2> QED BY <2>2, <2>4 DEF Init, RunInv, Started, StopsFollow, Finished, Underway
<1>2. RunInv /\ [Next]_vars => RunInv'
  <2> SUFFICES ASSUME RunInv, [Next]_vars PROVE RunInv'
    OBVIOUS
  <2>1. CASE UNCHANGED vars
    BY <2>1 DEF vars, chain, out, net, RunInv, TypeOK, Started, StopsFollow, Finished, Underway
  <2> QED BY <2>1, MainInv, ChainInv, ReactorInv DEF Next
<1> QED BY <1>1, <1>2, PTL DEF Spec

-----------------------------------------------------------------------------
\* Every variable keeps its type, and the reactor is stopped at most once,
\* whatever the command line and however the connection ends (done).
THEOREM TypeCorrect == Spec => []TypeOK
<1>1. RunInv => TypeOK
  BY DEF RunInv
<1> QED BY <1>1, RunInvariant, PTL

\* vncdo exits with 0 only when each command has run to its end (build_tool).
THEOREM SuccessAlwaysHonest == Spec => []SuccessIsHonest
<1>1. RunInv => SuccessIsHonest
  BY DEF RunInv, TypeOK, Finished, SuccessIsHonest
<1> QED BY <1>1, RunInvariant, PTL

\* Every step of the run leaves an outcome that has been decided as it is.
LEMMA StepKeepsOutcome ==
    ASSUME [Next]_vars, status # "none"
    PROVE  status' = status
<1> USE DEF Outcome, out
<1>1. CASE Main
  BY <1>1 DEF Main, AddCommand, RejectCommand, Start
<1>2. CASE Chain
  BY <1>2 DEF Chain, RunWrite, RunLong, RunRaise, RunClose, RunDone, RunErrback
<1>3. CASE PauseEnds \/ WaitEnds \/ Connected \/ Flush
  BY <1>3 DEF PauseEnds, WaitEnds, Connected, Flush
<1>4. CASE Ends
  BY <1>4 DEF Ends, ConnectionFailed, GivesUp, Closed, Dropped, ConnectionLost, TimedOut,
              Exit, DisconnectAll
<1>5. CASE UNCHANGED vars
  BY <1>5 DEF vars
<1> QED BY <1>1, <1>2, <1>3, <1>4, <1>5 DEF Next

\* The first outcome wins (VNCDoCLIFactory.done).
THEOREM FirstAlwaysWins == Spec => FirstWins
<1>1. [Next]_vars => [status # "none" => status' = status]_vars
  BY StepKeepsOutcome
<1> QED BY <1>1, PTL DEF Spec, FirstWins

\* CONNECTION_LOST and TIMEOUT are only ever decided of a run that has not
\* finished (clientConnectionLost, vncdo).
THEOREM CutShortAlwaysHonest == Spec => CutShortIsHonest
<1>1. RunInv /\ [Next]_vars
         => [status = "none" /\ status' \in {"CONNECTION_LOST", "TIMEOUT"}
                => pc <= Len(program) + 2]_vars
  BY DEF RunInv, TypeOK, Finished
<1> QED BY <1>1, RunInvariant, PTL DEF Spec, CutShortIsHonest
=============================================================================
