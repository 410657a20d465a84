------------------------------ MODULE SerialCalls ------------------------------
(***************************************************************************)
(* What api.py promises of the calls made on one client: they are run one  *)
(* at a time in the order they were made, and each has one outcome.  A     *)
(* call may end without having begun: on a client that is not connected,   *)
(* or after one that failed.  ThreadedProxy implements it.                 *)
(***************************************************************************)
EXTENDS Naturals, Sequences

VARIABLES
    made,      \* calls made so far
    waiting,   \* those that have no outcome yet
    under,     \* the call whose method is under way
    results    \* calls whose outcome nobody has taken yet, oldest first
vars == <<made, waiting, under, results>>

Init == made = 0 /\ waiting = {} /\ under = {} /\ results = <<>>

IsNext(c) == c \in waiting /\ \A d \in waiting : c <= d

Make == made' = made + 1 /\ waiting' = waiting \cup {made'} /\ UNCHANGED <<under, results>>

Begin(c) ==
    /\ IsNext(c) /\ under = {} /\ under' = {c}
    /\ UNCHANGED <<made, waiting, results>>

End(c) ==
    /\ IsNext(c) /\ under \subseteq {c} /\ under' = {}
    /\ waiting' = waiting \ {c} /\ results' = Append(results, c)
    /\ UNCHANGED made

Take == results # <<>> /\ results' = Tail(results) /\ UNCHANGED <<made, waiting, under>>

Next == Make \/ Take \/ \E c \in waiting : Begin(c) \/ End(c)

Spec == Init /\ [][Next]_vars
===============================================================================
