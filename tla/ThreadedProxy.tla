---------------------------- MODULE ThreadedProxy ----------------------------
(***************************************************************************)
(* api.ThreadedVNCClientProxy: an application thread calls client methods  *)
(* that run in the reactor thread.  A call is posted with callFromThread,  *)
(* hung on factory.deferred so that calls run one after the other once the *)
(* connection is made, and its outcome comes back through self.queue.      *)
(*                                                                         *)
(* The application thread steps at any time; the reactor thread runs one   *)
(* thing to its end before the next, callbacks of a fired deferred first.  *)
(* It is started by api.connect and stopped by api.shutdown, which waits   *)
(* for it to end.                                                          *)
(*                                                                         *)
(* A method is one of five kinds: it returns the client ("self"), raises   *)
(* ("raise"), returns anything else ("value": renderScreen, keyEvent), or  *)
(* returns a deferred that fires when the server answers ("wait") or never *)
(* ("hang": an expectScreen of an image that does not come).               *)
(***************************************************************************)
EXTENDS Integers, Sequences, FiniteSets

CONSTANTS
    Kinds,        \* kinds of method the application calls
    Timeouts,     \* may client.timeout be set, or not
    MayRefuse,    \* may connecting or authenticating fail
    MayDrop,      \* may the server or the network close the connection
    MaxCalls      \* bound: calls made

ASSUME KindAssumption  == Kinds \subseteq {"self", "raise", "value", "wait", "hang"}
ASSUME FlagAssumption  == Timeouts \subseteq BOOLEAN /\ MayRefuse \in BOOLEAN /\ MayDrop \in BOOLEAN
ASSUME CallsAssumption == MaxCalls \in Nat

VARIABLES
    \* the application thread
    app,          \* "idle", "calling", "disconnecting", "done" with this client,
                  \* "joining" the reactor thread, or "ended"
    calls,        \* calls made so far: the id of the last one
    answer,       \* the call whose outcome the last finished call was given
    timeout,      \* is self.timeout set
    late,         \* has a call timed out
    \* between the threads
    posted,       \* callFromThread
    queue,        \* self.queue: the call each outcome belongs to
    event,        \* disconnect's threading.Event
    \* the reactor thread
    callbacks,    \* the pairs on factory.deferred that have not run
    chain,        \* its result: "unfired", "client", "failure" or "value"
    paused,       \* the call whose deferred the chain waits for, or NoCall
    active,       \* calls whose method has begun and not finished
    protocol,     \* has capture_protocol run
    hook,         \* is on_disconnected among _disconnect_callbacks
    conn,         \* "dialing", "up", "closing", "lost", or "dropped" by the other end
    reactor       \* "starting", "running", "stopping" or "stopped"

appvars == <<app, calls, answer, timeout, late>>
shared  == <<posted, queue, event>>
react   == <<callbacks, chain, paused, active, protocol, hook, conn, reactor>>
vars    == <<appvars, shared, react>>

-----------------------------------------------------------------------------
(* The application thread *)

NoCall        == [call |-> 0, kind |-> "none"]
Disconnecting == [call |-> 0, kind |-> "disconnect"]
Stopping      == [call |-> 0, kind |-> "stop"]

\* callable_threaded_proxy
Call(kind) ==
    /\ app = "idle" /\ calls < MaxCalls
    /\ calls' = calls + 1
    /\ posted' = Append(posted, [call |-> calls', kind |-> kind])
    /\ app' = "calling"
    /\ UNCHANGED <<answer, timeout, late, queue, event, react>>

\* self.queue.get: whatever outcome is first in the queue.
GetResult ==
    /\ app = "calling" /\ queue # <<>>
    /\ answer' = Head(queue) /\ queue' = Tail(queue)
    /\ app' = "idle"
    /\ UNCHANGED <<calls, timeout, late, posted, event, react>>

\* queue.Empty becomes TimeoutError; what was posted stays posted.
TimeOut ==
    /\ app = "calling" /\ timeout /\ queue = <<>>
    /\ answer' = calls /\ app' = "idle" /\ late' = TRUE
    /\ UNCHANGED <<calls, timeout, shared, react>>

Disconnect ==
    /\ app = "idle"
    /\ posted' = Append(posted, Disconnecting)
    /\ event' = FALSE /\ app' = "disconnecting"
    /\ UNCHANGED <<calls, answer, timeout, late, queue, react>>

\* event.wait: disconnect says nothing of which of the two happened.
DisconnectReturns ==
    /\ app = "disconnecting"
    /\ event \/ timeout
    /\ app' = "done"
    /\ UNCHANGED <<calls, answer, timeout, late, shared, react>>

\* shutdown: a reactor that is not running yet is left to itself.
Shutdown ==
    /\ app \in {"idle", "done"}
    /\ \/ reactor = "running" /\ posted' = Append(posted, Stopping) /\ app' = "joining"
       \/ reactor # "running" /\ app' = "ended" /\ UNCHANGED posted
    /\ UNCHANGED <<calls, answer, timeout, late, queue, event, react>>

\* _THREAD.join
Joined ==
    /\ app = "joining" /\ reactor = "stopped"
    /\ app' = "ended"
    /\ UNCHANGED <<calls, answer, timeout, late, shared, react>>

-----------------------------------------------------------------------------
(* factory.deferred *)

\* A fired deferred runs what hangs on it before the reactor does anything else.
Runnable == callbacks # <<>> /\ chain # "unfired" /\ paused = NoCall
First == Head(callbacks)

\* Is the reactor thread between two of the things it does?
Ready == ~Runnable /\ reactor = "running"

\* Mutant: a call does not wait for the ones before it.
RunPosted_AtOnce ==
    /\ Ready /\ posted # <<>> /\ Head(posted).kind # "stop"
    /\ posted' = Tail(posted)
    /\ IF protocol /\ Head(posted).kind \in {"wait", "hang"}
       THEN active' = active \cup {Head(posted).call} /\ UNCHANGED callbacks
       ELSE callbacks' = Append(callbacks, Head(posted)) /\ UNCHANGED active
    /\ UNCHANGED <<appvars, queue, event, chain, paused, protocol, hook, conn, reactor>>

\* addCallbacks, or addBoth, in the reactor thread.
RunPosted ==
    /\ Ready /\ posted # <<>> /\ Head(posted).kind # "stop"
    /\ posted' = Tail(posted)
    /\ callbacks' = Append(callbacks, Head(posted))
    /\ UNCHANGED <<appvars, queue, event, chain, paused, active, protocol, hook, conn, reactor>>

\* Mutant: the errback is added after the callback instead of beside it, and runs
\* on the call's own failure.
Finish_BothRun(call, result) ==
    /\ queue' = (IF result = "failure" THEN Append(Append(queue, call), call) ELSE Append(queue, call))
    /\ chain' = result

\* result_callback: the outcome goes to the queue, and on along the chain.
Finish(call, result) == queue' = Append(queue, call) /\ chain' = result

\* threaded_call, on the chain's result: a method given anything but the client
\* raises.
RunCall ==
    /\ Runnable /\ First.kind # "disconnect" /\ chain \in {"client", "value"}
    /\ callbacks' = Tail(callbacks)
    /\ \/ /\ chain = "value" \/ First.kind = "raise"
          /\ Finish(First.call, "failure") /\ UNCHANGED <<paused, active>>
       \/ /\ chain = "client" /\ First.kind = "self"
          /\ Finish(First.call, "client") /\ UNCHANGED <<paused, active>>
       \/ /\ chain = "client" /\ First.kind = "value"
          /\ Finish(First.call, "value") /\ UNCHANGED <<paused, active>>
       \/ /\ chain = "client" /\ First.kind \in {"wait", "hang"}
          /\ paused' = First /\ active' = active \cup {First.call}
          /\ UNCHANGED <<queue, chain>>
    /\ UNCHANGED <<appvars, posted, event, protocol, hook, conn, reactor>>

\* Mutants: a call on a failed chain is dropped; disconnect is added with the
\* same errback as a call, and a failed chain puts an outcome of its in the queue.
RunErrback_Everyone ==
    /\ Runnable /\ chain = "failure"
    /\ callbacks' = Tail(callbacks)
    /\ Finish(First.call, "failure")
    /\ UNCHANGED <<appvars, posted, event, paused, active, protocol, hook, conn, reactor>>
RunErrback_Silent ==
    /\ Runnable /\ First.kind # "disconnect" /\ chain = "failure"
    /\ callbacks' = Tail(callbacks)
    /\ UNCHANGED <<appvars, shared, chain, paused, active, protocol, hook, conn, reactor>>

\* errback_not_connected: the chain's failure is this call's outcome too.
RunErrback ==
    /\ Runnable /\ First.kind # "disconnect" /\ chain = "failure"
    /\ callbacks' = Tail(callbacks)
    /\ Finish(First.call, "failure")
    /\ UNCHANGED <<appvars, posted, event, paused, active, protocol, hook, conn, reactor>>

\* Mutants: only a chain that has not failed disconnects; the event is set
\* before the connection is lost.
RunDisconnect_OnSuccess ==
    /\ Runnable /\ First.kind = "disconnect"
    /\ callbacks' = Tail(callbacks)
    /\ \/ chain = "failure" /\ UNCHANGED <<event, hook, conn, chain>>
       \/ /\ chain # "failure" /\ chain' = "value"
          /\ hook' = TRUE /\ event' = event
          /\ conn' = IF conn = "up" THEN "closing" ELSE conn
    /\ UNCHANGED <<appvars, posted, queue, paused, active, protocol, reactor>>
RunDisconnect_TellsFirst ==
    /\ Runnable /\ First.kind = "disconnect"
    /\ callbacks' = Tail(callbacks) /\ chain' = "value"
    /\ event' = TRUE /\ conn' = IF conn = "up" THEN "closing" ELSE conn
    /\ UNCHANGED <<appvars, posted, queue, paused, active, protocol, hook, reactor>>

\* disconnector, on success and on failure alike; it returns None.
RunDisconnect ==
    /\ Runnable /\ First.kind = "disconnect"
    /\ callbacks' = Tail(callbacks) /\ chain' = "value"
    /\ \/ ~protocol /\ event' = TRUE /\ UNCHANGED <<hook, conn>>
       \/ /\ protocol /\ hook' = TRUE /\ event' = event
          /\ conn' = IF conn = "up" THEN "closing" ELSE conn
    /\ UNCHANGED <<appvars, posted, queue, paused, active, protocol, reactor>>

\* The deferred the chain waits for fires: the server has answered, and what
\* hangs on the answer (saving the file, say) worked or raised.
Answers ==
    /\ Ready /\ paused.kind = "wait" /\ conn \in {"up", "closing"}
    /\ \E result \in {"client", "failure"} : Finish(paused.call, result)
    /\ paused' = NoCall /\ active' = active \ {paused.call}
    /\ UNCHANGED <<appvars, posted, event, callbacks, protocol, hook, conn, reactor>>

-----------------------------------------------------------------------------
(* The connection, as the reactor reports it *)

\* clientConnectionMade fires factory.deferred, capture_protocol first on it.
Connect ==
    /\ Ready /\ conn = "dialing"
    /\ conn' = "up" /\ chain' = "client" /\ protocol' = TRUE
    /\ UNCHANGED <<appvars, shared, callbacks, paused, active, hook, reactor>>

\* clientConnectionFailed: refused, or not authenticated.
Refuse ==
    /\ Ready /\ conn = "dialing" /\ MayRefuse
    /\ conn' = "lost" /\ chain' = "failure"
    /\ UNCHANGED <<appvars, shared, callbacks, paused, active, protocol, hook, reactor>>

\* clientConnectionLost runs _disconnect_callbacks and nothing else: neither
\* factory.deferred nor the deferred a method waits on is fired.
Lost ==
    /\ event' = (event \/ hook) /\ hook' = FALSE
    /\ UNCHANGED <<appvars, queue, callbacks, paused, active, protocol>>

Closed ==
    /\ Ready /\ conn = "closing" /\ conn' = "lost"
    /\ Lost /\ UNCHANGED <<posted, chain, reactor>>
Dropped ==
    /\ Ready /\ conn \in {"dialing", "up"} /\ MayDrop /\ conn' = "dropped"
    /\ Lost /\ UNCHANGED <<posted, chain, reactor>>

\* reactor.run, in the thread connect started
StartReactor == reactor = "starting" /\ reactor' = "running"
                /\ UNCHANGED <<appvars, shared, callbacks, chain, paused, active, protocol, hook, conn>>

\* reactor.stop, when the reactor comes to it: it takes down what it is connected
\* to, or connecting.
RunStop ==
    /\ Ready /\ posted # <<>> /\ Head(posted).kind = "stop"
    /\ posted' = Tail(posted) /\ reactor' = "stopping"
    /\ \/ /\ conn = "dialing" /\ conn' = "lost" /\ chain' = "failure"
          /\ UNCHANGED <<appvars, queue, event, callbacks, paused, active, protocol, hook>>
       \/ conn \in {"up", "closing"} /\ conn' = "lost" /\ Lost /\ UNCHANGED chain
       \/ /\ conn \in {"lost", "dropped"}
          /\ UNCHANGED <<appvars, queue, event, callbacks, chain, paused, active, protocol, hook, conn>>

\* The reactor leaves its loop, and its thread ends.
StopReactor == ~Runnable /\ reactor = "stopping" /\ reactor' = "stopped"
               /\ UNCHANGED <<appvars, shared, callbacks, chain, paused, active, protocol, hook, conn>>

-----------------------------------------------------------------------------
\* connect has returned: the reactor's thread is started, capture_protocol is on
\* the chain and factory_connect posted.
Init ==
    /\ app = "idle" /\ calls = 0 /\ answer = 0 /\ timeout \in Timeouts /\ late = FALSE
    /\ posted = <<>> /\ queue = <<>> /\ event = FALSE
    /\ callbacks = <<>> /\ chain = "unfired" /\ paused = NoCall /\ active = {}
    /\ protocol = FALSE /\ hook = FALSE /\ conn = "dialing" /\ reactor = "starting"

Reactor == \/ RunCall \/ RunErrback \/ RunDisconnect \/ RunPosted
           \/ Answers \/ Connect \/ Refuse \/ Closed
           \/ StartReactor \/ RunStop \/ StopReactor

Next ==
    \/ \E kind \in Kinds : Call(kind)
    \/ GetResult \/ TimeOut \/ Disconnect \/ DisconnectReturns \/ Shutdown \/ Joined
    \/ Reactor \/ Dropped

\* The reactor thread keeps running and the server answers a live connection; a
\* blocked application thread wakes, and a timeout that is set runs out.  The
\* application need not call, and the connection need not drop.
Fairness ==
    /\ WF_vars(Reactor) /\ WF_vars(Answers) /\ WF_vars(Closed)
    /\ WF_vars(GetResult) /\ WF_vars(TimeOut) /\ WF_vars(DisconnectReturns) /\ WF_vars(Joined)

Spec == Init /\ [][Next]_vars /\ Fairness

-----------------------------------------------------------------------------
(* The calls as the application is promised them *)

CallsIn(s) == {s[i].call : i \in DOMAIN s}

\* Calls made that have no outcome yet, wherever they are.
Waiting == (CallsIn(posted) \cup CallsIn(callbacks) \cup {paused.call}) \ {0}

Serial == INSTANCE SerialCalls
            WITH made <- calls, waiting <- Waiting, under <- active, results <- queue

-----------------------------------------------------------------------------
(* Properties *)

\* A call, a disconnect or a shutdown, as it waits to be run.
Item == [call : 0..MaxCalls, kind : Kinds \cup {"disconnect", "stop", "none"}]

\* The type of every variable; the queue only holds outcomes of calls that were
\* made, never one of disconnect (call 0).
TypeOK ==
    /\ app \in {"idle", "calling", "disconnecting", "done", "joining", "ended"}
    /\ calls \in 0..MaxCalls /\ answer \in 0..MaxCalls
    /\ timeout \in BOOLEAN /\ late \in BOOLEAN
    /\ posted \in Seq(Item) /\ queue \in Seq(1..MaxCalls) /\ event \in BOOLEAN
    /\ callbacks \in Seq(Item) /\ paused \in Item /\ active \subseteq 1..MaxCalls
    /\ chain \in {"unfired", "client", "failure", "value"}
    /\ protocol \in BOOLEAN /\ hook \in BOOLEAN
    /\ conn \in {"dialing", "up", "closing", "lost", "dropped"}
    /\ reactor \in {"starting", "running", "stopping", "stopped"}

\* Posted from one thread, run in the other, timed out or failed: each call of a
\* client's methods is run to its end before the next, in the order they were
\* made, and has one outcome (factory.deferred, result_callback,
\* errback_not_connected).
OneByOne == Serial!Spec

\* What a proxy call returns or raises is the outcome of that call and not of
\* another one (callable_threaded_proxy takes whatever is first in self.queue).
OwnResult == app = "idle" => answer = calls

\* So it is as long as no call has timed out, whatever has failed before.
ResultMatches == ~late => OwnResult

\* When disconnect has returned, and not timed out, a connection that was made
\* is closed.
DisconnectCloses == app = "done" /\ protocol /\ ~timeout => conn \in {"lost", "dropped"}

Stuck == paused.kind = "hang" \/ conn = "dropped"

\* A proxy call comes back, unless a method before it never ends or the other
\* end drops the connection: a failed connection or call does not keep the next
\* one waiting.
CallReturns == app = "calling" ~> (app = "idle" \/ Stuck)

\* With the same exceptions disconnect comes back, after failures too.  shutdown
\* has none: it ends the reactor's thread whatever the calls are waiting for.
DisconnectEnds == /\ app = "disconnecting" ~> (app = "done" \/ Stuck)
                  /\ app = "joining" ~> app = "ended"
==============================================================================
