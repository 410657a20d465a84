-------------------------- MODULE ThreadedProxyProofs --------------------------
(***************************************************************************)
(* Proofs about ThreadedProxy, for any number of calls of any kinds, with  *)
(* timeouts, refusals and losses: the calls are run one by one, as         *)
(* SerialCalls has it; until one times out each gets its own outcome; and  *)
(* disconnect leaves no connection behind.                                 *)
(*                                                                         *)
(* A call is in one of three places: posted to the reactor thread, among   *)
(* the callbacks of factory.deferred, or paused in the middle.  The        *)
(* refinement rests on their order: paused before callbacks before posted, *)
(* and rising numbers in each (Ordered), so the call the chain takes next  *)
(* is the oldest there is and stands nowhere else.                         *)
(***************************************************************************)
EXTENDS ThreadedProxy, TLAPS

-----------------------------------------------------------------------------
(* The inductive invariant *)

Work  == [call : 1..MaxCalls, kind : Kinds]
Hung  == Work \cup {Disconnecting}      \* what may hang on factory.deferred
Entry == Hung \cup {Stopping}

Typed ==
    /\ app \in {"idle", "calling", "disconnecting", "done", "joining", "ended"}
    /\ calls \in 0..MaxCalls /\ answer \in 0..MaxCalls
    /\ timeout \in BOOLEAN /\ late \in BOOLEAN
    /\ posted \in Seq(Entry) /\ queue \in Seq(1..MaxCalls) /\ event \in BOOLEAN
    /\ callbacks \in Seq(Hung) /\ paused \in Work \cup {NoCall}
    /\ chain \in {"unfired", "client", "failure", "value"}
    /\ protocol \in BOOLEAN /\ hook \in BOOLEAN
    /\ conn \in {"dialing", "up", "closing", "lost", "dropped"}
    /\ reactor \in {"starting", "running", "stopping", "stopped"}

\* The method under way is the one the chain is paused for.
OneUnder == active = IF paused = NoCall THEN {} ELSE {paused.call}

Before(a, b)  == a.call = 0 \/ b.call = 0 \/ a.call < b.call
Rising(s)     == \A i, j \in 1..Len(s) : i < j => Before(s[i], s[j])
Precede(e, s) == \A i \in 1..Len(s) : Before(e, s[i])
UpTo(s, n)    == \A i \in 1..Len(s) : s[i].call <= n

Ordered ==
    /\ Rising(posted) /\ Rising(callbacks)
    /\ \A i \in 1..Len(callbacks) : Precede(callbacks[i], posted)
    /\ Precede(paused, callbacks) /\ Precede(paused, posted)
    /\ UpTo(posted, calls) /\ UpTo(callbacks, calls) /\ paused.call <= calls

IInv == Typed /\ OneUnder /\ Ordered

-----------------------------------------------------------------------------
(* Sequences of calls *)

LEMMA AppendFacts ==
    ASSUME NEW S, NEW s \in Seq(S), NEW e \in S
    PROVE  /\ Append(s, e) \in Seq(S) /\ Len(Append(s, e)) = Len(s) + 1 /\ Len(s) \in Nat
           /\ \A i \in 1..Len(s) : Append(s, e)[i] = s[i]
           /\ Append(s, e)[Len(s) + 1] = e
  OBVIOUS

LEMMA TailFacts ==
    ASSUME NEW S, NEW s \in Seq(S), s # <<>>
    PROVE  /\ Head(s) \in S /\ Head(s) = s[1] /\ Tail(s) \in Seq(S)
           /\ Len(s) \in Nat \ {0} /\ Len(Tail(s)) = Len(s) - 1
           /\ \A i \in 1..Len(Tail(s)) : Tail(s)[i] = s[i + 1]
  OBVIOUS

LEMMA CallsInAppend ==
    ASSUME NEW S, NEW s \in Seq(S), NEW e \in S
    PROVE  CallsIn(Append(s, e)) = CallsIn(s) \cup {e.call}
<1> DEFINE t == Append(s, e)
           n == Len(s)
<1>1. /\ DOMAIN s = 1..n /\ DOMAIN t = 1..n + 1 /\ n \in Nat
      /\ \A i \in 1..n : t[i] = s[i]
      /\ t[n + 1] = e
  BY AppendFacts
<1> HIDE DEF t, n
<1>2. \A c : c \in CallsIn(t) <=> c \in CallsIn(s) \/ c = e.call
  <2>1. ASSUME NEW c, c \in CallsIn(t) PROVE c \in CallsIn(s) \/ c = e.call
    <3>1. PICK i \in 1..n + 1 : c = t[i].call BY <2>1, <1>1 DEF CallsIn
    <3>2. CASE i = n + 1 BY <3>1, <3>2, <1>1
    <3>3. CASE i \in 1..n BY <3>1, <3>3, <1>1 DEF CallsIn
    <3> QED BY <3>2, <3>3, <1>1
  <2>2. ASSUME NEW c, c \in CallsIn(s) PROVE c \in CallsIn(t)
    <3>1. PICK i \in 1..n : c = s[i].call BY <2>2, <1>1 DEF CallsIn
    <3>2. i \in 1..n + 1 /\ t[i] = s[i] BY <1>1
    <3> QED BY <3>1, <3>2, <1>1 DEF CallsIn
  <2>3. e.call \in CallsIn(t)
    <3>1. n + 1 \in 1..n + 1 BY <1>1
    <3> QED BY <3>1, <1>1 DEF CallsIn
  <2> QED BY <2>1, <2>2, <2>3
<1> QED BY <1>2 DEF t

LEMMA CallsInTail ==
    ASSUME NEW S, NEW s \in Seq(S), s # <<>>
    PROVE  CallsIn(s) = CallsIn(Tail(s)) \cup {Head(s).call}
<1> DEFINE t == Tail(s)
           n == Len(s)
<1>1. /\ DOMAIN s = 1..n /\ DOMAIN t = 1..n - 1 /\ n \in Nat \ {0}
      /\ \A i \in 1..n - 1 : t[i] = s[i + 1]
      /\ Head(s) = s[1]
  BY TailFacts
<1> HIDE DEF t, n
<1>2. \A c : c \in CallsIn(s) <=> c \in CallsIn(t) \/ c = Head(s).call
  <2>1. ASSUME NEW c, c \in CallsIn(s) PROVE c \in CallsIn(t) \/ c = Head(s).call
    <3>1. PICK i \in 1..n : c = s[i].call BY <2>1, <1>1 DEF CallsIn
    <3>2. CASE i = 1 BY <3>1, <3>2, <1>1
    <3>3. CASE i # 1
      <4>1. i - 1 \in 1..n - 1 /\ (i - 1) + 1 = i BY <3>3, <1>1
      <4>2. t[i - 1] = s[i] BY <4>1, <1>1
      <4> QED BY <4>1, <4>2, <3>1, <1>1 DEF CallsIn
    <3> QED BY <3>2, <3>3
  <2>2. ASSUME NEW c, c \in CallsIn(t) PROVE c \in CallsIn(s)
    <3>1. PICK i \in 1..n - 1 : c = t[i].call BY <2>2, <1>1 DEF CallsIn
    <3>2. i + 1 \in 1..n /\ t[i] = s[i + 1] BY <1>1
    <3> QED BY <3>1, <3>2, <1>1 DEF CallsIn
  <2>3. Head(s).call \in CallsIn(s)
    <3>1. 1 \in 1..n BY <1>1
    <3> QED BY <3>1, <1>1 DEF CallsIn
  <2> QED BY <2>1, <2>2, <2>3
<1> QED BY <1>2 DEF t

\* A call not yet in its place is as low as its number says.
LEMMA PrecedeCalls ==
    ASSUME NEW S, NEW s \in Seq(S), NEW e, Precede(e, s), e.call # 0,
           NEW c \in CallsIn(s), c # 0
    PROVE  e.call < c
<1>1. PICK i \in 1..Len(s) : c = s[i].call BY DEF CallsIn
<1> QED BY <1>1 DEF Precede, Before

\* Order is kept by a call added at the end that comes after all others...
LEMMA OrderOfAppend ==
    ASSUME NEW S, NEW s \in Seq(S), NEW e \in S
    PROVE  /\ Rising(s) /\ (\A i \in 1..Len(s) : Before(s[i], e)) => Rising(Append(s, e))
           /\ \A x : Precede(x, s) /\ Before(x, e) => Precede(x, Append(s, e))
           /\ \A n : UpTo(s, n) /\ e.call <= n => UpTo(Append(s, e), n)
<1> DEFINE t == Append(s, e)
           n == Len(s)
<1>1. /\ Len(t) = n + 1 /\ n \in Nat /\ \A i \in 1..n : t[i] = s[i]
      /\ t[n + 1] = e /\ \A i \in 1..n + 1 : i \in 1..n \/ i = n + 1
  BY AppendFacts
<1> HIDE DEF t, n
<1>2. ASSUME Rising(s), \A i \in 1..n : Before(s[i], e) PROVE Rising(t)
  <2> SUFFICES ASSUME NEW i \in 1..n + 1, NEW j \in 1..n + 1, i < j PROVE Before(t[i], t[j])
    BY <1>1 DEF Rising
  <2>1. i \in 1..n BY <1>1
  <2>2. CASE j \in 1..n BY <2>1, <2>2, <1>1, <1>2 DEF Rising, n
  <2>3. CASE j = n + 1 BY <2>1, <2>3, <1>1, <1>2
  <2> QED BY <2>2, <2>3, <1>1
<1>3. \A x : Precede(x, s) /\ Before(x, e) => Precede(x, t) BY <1>1 DEF Precede, n
<1>4. \A m : UpTo(s, m) /\ e.call <= m => UpTo(t, m) BY <1>1 DEF UpTo, n
<1> QED BY <1>2, <1>3, <1>4 DEF t, n

\* ... and by one taken from the front, which comes before what is left.
LEMMA OrderOfTail ==
    ASSUME NEW S, NEW s \in Seq(S), s # <<>>
    PROVE  /\ Rising(s) => Rising(Tail(s)) /\ Precede(Head(s), Tail(s))
           /\ \A x : Precede(x, s) => Precede(x, Tail(s)) /\ Before(x, Head(s))
           /\ \A n : UpTo(s, n) => UpTo(Tail(s), n) /\ Head(s).call <= n
<1> DEFINE t == Tail(s)
           n == Len(s)
<1>1. /\ Len(t) = n - 1 /\ n \in Nat \ {0} /\ Head(s) = s[1] /\ 1 \in 1..n
      /\ \A i \in 1..n - 1 : t[i] = s[i + 1] /\ i + 1 \in 1..n
  BY TailFacts
<1> HIDE DEF t, n
<1>2. ASSUME Rising(s) PROVE Rising(t)
  <2> SUFFICES ASSUME NEW i \in 1..n - 1, NEW j \in 1..n - 1, i < j PROVE Before(t[i], t[j])
    BY <1>1 DEF Rising
  <2>1. i + 1 \in 1..n /\ j + 1 \in 1..n /\ i + 1 < j + 1 BY <1>1
  <2> QED BY <2>1, <1>1, <1>2 DEF Rising, n
<1>3. ASSUME Rising(s) PROVE Precede(Head(s), t)
  <2> SUFFICES ASSUME NEW i \in 1..n - 1 PROVE Before(Head(s), t[i])
    BY <1>1 DEF Precede
  <2>1. i + 1 \in 1..n /\ 1 < i + 1 BY <1>1
  <2> QED BY <2>1, <1>1, <1>3 DEF Rising, n
<1>4. ASSUME NEW x, Precede(x, s) PROVE Precede(x, t) /\ Before(x, Head(s))
  BY <1>1, <1>4 DEF Precede, n
<1>5. ASSUME NEW m, UpTo(s, m) PROVE UpTo(t, m) /\ Head(s).call <= m
  BY <1>1, <1>5 DEF UpTo, n
<1> QED BY <1>2, <1>3, <1>4, <1>5 DEF t

-----------------------------------------------------------------------------
(* Every step keeps the invariant *)

LEMMA Kind == /\ \A e \in Work : e.kind \notin {"disconnect", "stop", "none"} /\ e.call # 0
              /\ Disconnecting \in Hung /\ Disconnecting.kind = "disconnect" /\ Disconnecting.call = 0
              /\ Stopping \in Entry /\ Stopping.kind = "stop" /\ Stopping.call = 0
              /\ NoCall.kind = "none" /\ NoCall.call = 0
              /\ \A e \in Hung : e \in Entry /\ (e.kind # "disconnect" => e \in Work)
              /\ \A e \in Entry : /\ e.kind # "stop" => e \in Hung
                                  /\ e.kind = "stop" => e.call = 0
                                  /\ e.kind = "disconnect" => e.call = 0
                                  /\ e.call \in 0..MaxCalls
  BY KindAssumption, CallsAssumption DEF Work, Hung, Entry, Disconnecting, Stopping, NoCall

LEMMA Subsequences == Seq(Hung) \subseteq Seq(Entry)
  BY DEF Hung, Entry

\* What the reactor takes next, and what is left.
LEMMA TakeCallback ==
    ASSUME IInv, Runnable
    PROVE  /\ First \in Hung /\ Tail(callbacks) \in Seq(Hung) /\ paused.call = 0
           /\ Rising(Tail(callbacks)) /\ Precede(First, Tail(callbacks)) /\ Precede(First, posted)
           /\ \A i \in 1..Len(Tail(callbacks)) : Precede(Tail(callbacks)[i], posted)
           /\ Precede(paused, Tail(callbacks))
           /\ UpTo(Tail(callbacks), calls) /\ First.call <= calls
<1>1. callbacks \in Seq(Hung) /\ callbacks # <<>> BY DEF IInv, Typed, Runnable
<1>2. /\ First \in Hung /\ First = callbacks[1] /\ Tail(callbacks) \in Seq(Hung)
      /\ Len(callbacks) \in Nat \ {0} /\ Len(Tail(callbacks)) = Len(callbacks) - 1
      /\ \A i \in 1..Len(Tail(callbacks)) : Tail(callbacks)[i] = callbacks[i + 1]
  BY <1>1, TailFacts DEF First
<1>3. /\ Rising(Tail(callbacks)) /\ Precede(First, Tail(callbacks))
      /\ Precede(paused, Tail(callbacks))
      /\ UpTo(Tail(callbacks), calls) /\ First.call <= calls
  BY <1>1, OrderOfTail DEF First, IInv, Ordered
<1>4. Precede(First, posted)
  <2>1. 1 \in 1..Len(callbacks) BY <1>2
  <2> QED BY <2>1, <1>2 DEF IInv, Ordered
<1>5. ASSUME NEW i \in 1..Len(Tail(callbacks)) PROVE Precede(Tail(callbacks)[i], posted)
  <2>1. i + 1 \in 1..Len(callbacks) BY <1>2
  <2> QED BY <2>1, <1>2 DEF IInv, Ordered
<1> QED BY <1>2, <1>3, <1>4, <1>5, Kind DEF Runnable

LEMMA TakePosted ==
    ASSUME IInv, posted # <<>>
    PROVE  /\ Head(posted) \in Entry /\ Tail(posted) \in Seq(Entry)
           /\ Rising(Tail(posted)) /\ Precede(Head(posted), Tail(posted))
           /\ \A i \in 1..Len(callbacks) :
                 Precede(callbacks[i], Tail(posted)) /\ Before(callbacks[i], Head(posted))
           /\ Precede(paused, Tail(posted)) /\ Before(paused, Head(posted))
           /\ UpTo(Tail(posted), calls) /\ Head(posted).call <= calls
<1>1. posted \in Seq(Entry) /\ posted # <<>> BY DEF IInv, Typed
<1>2. Head(posted) \in Entry /\ Tail(posted) \in Seq(Entry) BY <1>1, TailFacts
<1> QED BY <1>1, <1>2, OrderOfTail DEF IInv, Ordered

\* A call or another thing posted comes after all there is.
LEMMA PostLast ==
    ASSUME IInv, NEW e \in Entry, NEW n \in Nat, calls <= n,
           \/ e.call = 0
           \/ e.call = n /\ calls < n
    PROVE  /\ Append(posted, e) \in Seq(Entry) /\ Rising(Append(posted, e))
           /\ \A i \in 1..Len(callbacks) : Precede(callbacks[i], Append(posted, e))
           /\ Precede(paused, Append(posted, e))
           /\ UpTo(Append(posted, e), n) /\ UpTo(callbacks, n) /\ paused.call <= n
<1>0. /\ posted \in Seq(Entry) /\ callbacks \in Seq(Hung) /\ paused \in Work \cup {NoCall}
      /\ calls \in Nat
      /\ Rising(posted) /\ Precede(paused, posted)
      /\ \A i \in 1..Len(callbacks) : Precede(callbacks[i], posted)
      /\ UpTo(posted, calls) /\ UpTo(callbacks, calls) /\ paused.call <= calls
  BY CallsAssumption DEF IInv, Typed, Ordered
<1>1. \A i \in 1..Len(posted) : posted[i] \in Entry BY <1>0
<1>2. \A i \in 1..Len(callbacks) : callbacks[i] \in Hung BY <1>0
<1>3. paused.call \in Nat BY <1>0, Kind, CallsAssumption DEF Work
<1>4. ASSUME NEW x, x.call \in Nat, x.call <= calls PROVE Before(x, e) /\ x.call <= n
  BY <1>0, <1>4, Kind, CallsAssumption DEF Before
<1>5. \A i \in 1..Len(posted) : Before(posted[i], e) /\ posted[i].call <= n
  BY <1>0, <1>1, <1>4, Kind, CallsAssumption DEF UpTo
<1>6. \A i \in 1..Len(callbacks) : Before(callbacks[i], e) /\ callbacks[i].call <= n
  <2> TAKE i \in 1..Len(callbacks)
  <2>1. callbacks[i].call \in Nat BY <1>2, Kind, CallsAssumption
  <2> QED BY <2>1, <1>0, <1>4 DEF UpTo
<1>7. Before(paused, e) /\ paused.call <= n BY <1>0, <1>3, <1>4
<1>8. e.call <= n BY <1>0
<1>9. UpTo(posted, n) /\ UpTo(callbacks, n) BY <1>5, <1>6 DEF UpTo
<1> QED BY <1>0, <1>5, <1>6, <1>7, <1>8, <1>9, AppendFacts, OrderOfAppend

LEMMA InitKeeps == Init => IInv
<1> SUFFICES ASSUME Init PROVE IInv OBVIOUS
<1>1. Typed
  <2>1. /\ posted \in Seq(Entry) /\ queue \in Seq(1..MaxCalls) /\ callbacks \in Seq(Hung)
        /\ paused \in Work \cup {NoCall}
    BY DEF Init
  <2>2. timeout \in BOOLEAN BY FlagAssumption DEF Init
  <2>3. calls \in 0..MaxCalls /\ answer \in 0..MaxCalls BY CallsAssumption DEF Init
  <2> QED BY <2>1, <2>2, <2>3 DEF Init, Typed
<1>2. OneUnder BY DEF Init, OneUnder
<1>3. Ordered BY Kind DEF Init, Ordered, Rising, Precede, UpTo
<1> QED BY <1>1, <1>2, <1>3 DEF IInv

LEMMA OrderStays ==
    ASSUME Ordered, UNCHANGED <<posted, callbacks, paused, calls>>
    PROVE  Ordered'
  BY DEF Ordered

LEMMA CallKeeps == ASSUME IInv, NEW kind \in Kinds, Call(kind) PROVE IInv'
<1> DEFINE e == [call |-> calls + 1, kind |-> kind]
<1>1. calls' = calls + 1 /\ posted' = Append(posted, e) /\ calls \in Nat /\ calls + 1 \in 1..MaxCalls
  BY CallsAssumption DEF Call, IInv, Typed
<1>2. e \in Entry /\ e.call = calls + 1 BY <1>1 DEF Entry, Hung, Work
<1> HIDE DEF e
<1>3. /\ Append(posted, e) \in Seq(Entry) /\ Rising(Append(posted, e))
      /\ \A i \in 1..Len(callbacks) : Precede(callbacks[i], Append(posted, e))
      /\ Precede(paused, Append(posted, e))
      /\ UpTo(Append(posted, e), calls + 1) /\ UpTo(callbacks, calls + 1)
      /\ paused.call <= calls + 1
  BY <1>1, <1>2, PostLast
<1>4. UNCHANGED <<callbacks, paused, active>> BY DEF Call, react
<1>5. Typed' BY <1>1, <1>3 DEF IInv, Typed, Call, react
<1>6. OneUnder' BY <1>4 DEF IInv, OneUnder
<1>7. Ordered' BY <1>1, <1>3, <1>4 DEF IInv, Ordered
<1> QED BY <1>5, <1>6, <1>7 DEF IInv

LEMMA PostKeeps ==
    ASSUME IInv, NEW e \in {Disconnecting, Stopping}, posted' = Append(posted, e),
           UNCHANGED <<callbacks, paused, active, calls>>
    PROVE  posted' \in Seq(Entry) /\ OneUnder' /\ Ordered'
<1>1. e \in Entry /\ e.call = 0 /\ calls \in Nat
  BY Kind, CallsAssumption DEF IInv, Typed, Entry
<1>2. /\ Append(posted, e) \in Seq(Entry) /\ Rising(Append(posted, e))
      /\ \A i \in 1..Len(callbacks) : Precede(callbacks[i], Append(posted, e))
      /\ Precede(paused, Append(posted, e))
      /\ UpTo(Append(posted, e), calls) /\ UpTo(callbacks, calls)
      /\ paused.call <= calls
  <2>1. calls <= calls BY <1>1
  <2>2. \A n \in Nat : calls <= n =>
            /\ Append(posted, e) \in Seq(Entry) /\ Rising(Append(posted, e))
            /\ \A i \in 1..Len(callbacks) : Precede(callbacks[i], Append(posted, e))
            /\ Precede(paused, Append(posted, e))
            /\ UpTo(Append(posted, e), n) /\ UpTo(callbacks, n) /\ paused.call <= n
    BY <1>1, PostLast
  <2> QED BY <2>1, <2>2, <1>1
<1>3. OneUnder' BY DEF IInv, OneUnder
<1>4. Ordered' BY <1>2 DEF IInv, Ordered
<1> QED BY <1>2, <1>3, <1>4

LEMMA DisconnectKeeps == ASSUME IInv, Disconnect PROVE IInv'
<1>1. posted' \in Seq(Entry) /\ OneUnder' /\ Ordered' BY PostKeeps DEF Disconnect, react
<1>2. Typed' BY <1>1 DEF IInv, Typed, Disconnect, react
<1> QED BY <1>1, <1>2 DEF IInv

LEMMA ShutdownKeeps == ASSUME IInv, Shutdown PROVE IInv'
<1>1. CASE posted' = Append(posted, Stopping)
  <2>1. posted' \in Seq(Entry) /\ OneUnder' /\ Ordered'
    BY <1>1, PostKeeps DEF Shutdown, react
  <2>2. Typed' BY <2>1 DEF IInv, Typed, Shutdown, react
  <2> QED BY <2>1, <2>2 DEF IInv
<1>2. CASE UNCHANGED posted
  <2>1. Ordered' BY <1>2, OrderStays DEF IInv, Shutdown, react
  <2>2. OneUnder' BY DEF IInv, OneUnder, Shutdown, react
  <2>3. Typed' BY <1>2 DEF IInv, Typed, Shutdown, react
  <2> QED BY <2>1, <2>2, <2>3 DEF IInv
<1> QED BY <1>1, <1>2 DEF Shutdown

LEMMA RunPostedKeeps == ASSUME IInv, RunPosted PROVE IInv'
<1> DEFINE e == Head(posted)
<1>0. /\ posted' = Tail(posted) /\ callbacks' = Append(callbacks, e)
      /\ UNCHANGED <<paused, active, calls>> /\ posted # <<>> /\ e.kind # "stop"
  BY DEF RunPosted, appvars
<1>1. /\ e \in Entry /\ Tail(posted) \in Seq(Entry)
      /\ Rising(Tail(posted)) /\ Precede(e, Tail(posted))
      /\ \A i \in 1..Len(callbacks) : Precede(callbacks[i], Tail(posted)) /\ Before(callbacks[i], e)
      /\ Precede(paused, Tail(posted)) /\ Before(paused, e)
      /\ UpTo(Tail(posted), calls) /\ e.call <= calls
  BY <1>0, TakePosted
<1> HIDE DEF e
<1>2. e \in Hung /\ callbacks \in Seq(Hung) BY <1>0, <1>1, Kind DEF IInv, Typed
<1>3. /\ Append(callbacks, e) \in Seq(Hung) /\ Len(Append(callbacks, e)) = Len(callbacks) + 1
      /\ Len(callbacks) \in Nat
      /\ \A i \in 1..Len(callbacks) : Append(callbacks, e)[i] = callbacks[i]
      /\ Append(callbacks, e)[Len(callbacks) + 1] = e
  BY <1>2, AppendFacts
<1>4. Rising(callbacks) /\ Precede(paused, callbacks) /\ UpTo(callbacks, calls)
  BY DEF IInv, Ordered
<1>5. Rising(callbacks') /\ Precede(paused, callbacks') /\ UpTo(callbacks', calls)
  BY <1>0, <1>1, <1>2, <1>4, OrderOfAppend
<1>6. \A i \in 1..Len(callbacks') : Precede(callbacks'[i], posted')
  <2> SUFFICES ASSUME NEW i \in 1..Len(callbacks) + 1
               PROVE  Precede(Append(callbacks, e)[i], Tail(posted))
    BY <1>0, <1>3
  <2>1. CASE i \in 1..Len(callbacks) BY <2>1, <1>1, <1>3
  <2>2. CASE i = Len(callbacks) + 1 BY <2>2, <1>1, <1>3
  <2> QED BY <2>1, <2>2, <1>3
<1>7. Ordered' BY <1>0, <1>1, <1>5, <1>6 DEF IInv, Ordered
<1>8. OneUnder' BY <1>0 DEF IInv, OneUnder
<1>9. Typed' BY <1>0, <1>1, <1>3 DEF IInv, Typed, RunPosted, appvars
<1> QED BY <1>7, <1>8, <1>9 DEF IInv

LEMMA RunStopKeeps == ASSUME IInv, RunStop PROVE IInv'
<1>0. /\ posted' = Tail(posted) /\ posted # <<>> /\ reactor' = "stopping"
      /\ UNCHANGED <<callbacks, paused, active, calls>>
  BY DEF RunStop, Lost, appvars
<1>1. /\ Tail(posted) \in Seq(Entry) /\ Rising(Tail(posted))
      /\ \A i \in 1..Len(callbacks) : Precede(callbacks[i], Tail(posted))
      /\ Precede(paused, Tail(posted)) /\ UpTo(Tail(posted), calls)
  BY <1>0, TakePosted
<1>2. Ordered' BY <1>0, <1>1 DEF IInv, Ordered
<1>3. OneUnder' BY <1>0 DEF IInv, OneUnder
<1>4. Typed' BY <1>0, <1>1 DEF IInv, Typed, RunStop, Lost, appvars
<1> QED BY <1>2, <1>3, <1>4 DEF IInv

\* A callback that ends leaves the rest of the chain in order.
LEMMA ChainKeeps ==
    ASSUME IInv, Runnable, callbacks' = Tail(callbacks), UNCHANGED <<posted, calls>>,
           \/ UNCHANGED <<paused, active>>
           \/ (paused' = First /\ First \in Work /\ active' = active \cup {First.call})
    PROVE  callbacks' \in Seq(Hung) /\ Ordered' /\ OneUnder' /\ paused' \in Work \cup {NoCall}
<1>1. /\ First \in Hung /\ Tail(callbacks) \in Seq(Hung) /\ paused.call = 0
      /\ Rising(Tail(callbacks)) /\ Precede(First, Tail(callbacks)) /\ Precede(First, posted)
      /\ \A i \in 1..Len(Tail(callbacks)) : Precede(Tail(callbacks)[i], posted)
      /\ Precede(paused, Tail(callbacks))
      /\ UpTo(Tail(callbacks), calls) /\ First.call <= calls
  BY TakeCallback
<1>2. /\ Rising(posted) /\ Precede(paused, posted) /\ UpTo(posted, calls) /\ paused.call <= calls
      /\ paused = NoCall /\ active = {}
  BY DEF IInv, Ordered, OneUnder, Runnable
<1>3. CASE UNCHANGED <<paused, active>>
  <2>1. Ordered' BY <1>1, <1>2, <1>3 DEF Ordered
  <2>2. OneUnder' BY <1>2, <1>3 DEF OneUnder
  <2> QED BY <2>1, <2>2, <1>1, <1>2, <1>3
<1>4. CASE paused' = First /\ First \in Work /\ active' = active \cup {First.call}
  <2>1. Ordered' BY <1>1, <1>2, <1>4 DEF Ordered
  <2>2. First # NoCall BY <1>4, Kind DEF Work
  <2>3. OneUnder' BY <1>2, <1>4, <2>2 DEF OneUnder
  <2> QED BY <2>1, <2>3, <1>1, <1>4
<1> QED BY <1>3, <1>4

LEMMA QueueTakes == ASSUME IInv, NEW c \in 1..MaxCalls PROVE Append(queue, c) \in Seq(1..MaxCalls)
  BY DEF IInv, Typed

\* The chain takes a call: it ends at once, or its method is under way.
LEMMA RunCallSteps ==
    ASSUME IInv, RunCall
    PROVE  /\ First \in Work /\ callbacks' = Tail(callbacks)
           /\ UNCHANGED <<appvars, posted, event, protocol, hook, conn, reactor>>
           /\ chain' \in {"client", "value", "failure"}
           /\ \/ queue' = Append(queue, First.call) /\ UNCHANGED <<paused, active>>
              \/ paused' = First /\ active' = active \cup {First.call} /\ UNCHANGED <<queue, chain>>
<1>1. First \in Work BY TakeCallback, Kind DEF RunCall
<1> QED BY <1>1 DEF RunCall, Finish

LEMMA RunCallKeeps == ASSUME IInv, RunCall PROVE IInv'
<1>1. /\ First \in Work /\ callbacks' = Tail(callbacks)
      /\ UNCHANGED <<appvars, posted, event, protocol, hook, conn, reactor>>
      /\ chain' \in {"client", "value", "failure"}
      /\ \/ queue' = Append(queue, First.call) /\ UNCHANGED <<paused, active>>
         \/ paused' = First /\ active' = active \cup {First.call} /\ UNCHANGED <<queue, chain>>
  BY RunCallSteps
<1>2. Runnable /\ UNCHANGED calls BY <1>1 DEF RunCall, appvars
<1>3. callbacks' \in Seq(Hung) /\ Ordered' /\ OneUnder' /\ paused' \in Work \cup {NoCall}
  <2>1. UNCHANGED <<posted, calls>> BY <1>1, <1>2
  <2>2. \/ UNCHANGED <<paused, active>>
        \/ (paused' = First /\ First \in Work /\ active' = active \cup {First.call})
    BY <1>1
  <2> QED BY <2>1, <2>2, <1>1, <1>2, ChainKeeps
<1>4. queue' \in Seq(1..MaxCalls)
  <2>1. First.call \in 1..MaxCalls BY <1>1 DEF Work
  <2>2. CASE queue' = Append(queue, First.call) BY <2>1, <2>2, QueueTakes
  <2>3. CASE UNCHANGED queue BY <2>3 DEF IInv, Typed
  <2> QED BY <2>2, <2>3, <1>1
<1>5. Typed' BY <1>1, <1>3, <1>4 DEF IInv, Typed, appvars
<1> QED BY <1>3, <1>5 DEF IInv

LEMMA RunErrbackKeeps == ASSUME IInv, RunErrback PROVE IInv'
<1>1. /\ Runnable /\ callbacks' = Tail(callbacks) /\ queue' = Append(queue, First.call)
      /\ chain' = "failure" /\ First.kind # "disconnect"
      /\ UNCHANGED <<appvars, posted, event, paused, active, protocol, hook, conn, reactor>>
  BY DEF RunErrback, Finish
<1>2. UNCHANGED calls BY <1>1 DEF appvars
<1>3. callbacks' \in Seq(Hung) /\ Ordered' /\ OneUnder' /\ paused' \in Work \cup {NoCall}
  BY <1>1, <1>2, ChainKeeps
<1>4. First \in Work BY <1>1, TakeCallback, Kind
<1>5. First.call \in 1..MaxCalls BY <1>4 DEF Work
<1>6. queue' \in Seq(1..MaxCalls) BY <1>1, <1>5, QueueTakes
<1>7. Typed' BY <1>1, <1>3, <1>6 DEF IInv, Typed, appvars
<1> QED BY <1>3, <1>7 DEF IInv

LEMMA RunDisconnectKeeps == ASSUME IInv, RunDisconnect PROVE IInv'
<1>1. /\ Runnable /\ callbacks' = Tail(callbacks) /\ chain' = "value"
      /\ UNCHANGED <<appvars, posted, queue, paused, active, protocol, reactor>>
      /\ event' \in BOOLEAN /\ hook' \in BOOLEAN
      /\ conn' \in {"dialing", "up", "closing", "lost", "dropped"}
  BY DEF RunDisconnect, IInv, Typed
<1>2. UNCHANGED calls BY <1>1 DEF appvars
<1>3. callbacks' \in Seq(Hung) /\ Ordered' /\ OneUnder' /\ paused' \in Work \cup {NoCall}
  BY <1>1, <1>2, ChainKeeps
<1>4. Typed' BY <1>1, <1>3 DEF IInv, Typed, appvars
<1> QED BY <1>3, <1>4 DEF IInv

LEMMA AnswersKeeps == ASSUME IInv, Answers PROVE IInv'
<1>1. /\ paused \in Work /\ paused' = NoCall /\ active' = active \ {paused.call}
      /\ queue' = Append(queue, paused.call) /\ chain' \in {"client", "failure"}
      /\ UNCHANGED <<appvars, posted, event, callbacks, protocol, hook, conn, reactor>>
  BY Kind DEF Answers, Finish, IInv, Typed
<1>2. paused # NoCall BY <1>1, Kind DEF Work
<1>3. active' = {} BY <1>1, <1>2 DEF IInv, OneUnder
<1>4. OneUnder' BY <1>1, <1>3 DEF OneUnder
<1>5. Precede(NoCall, callbacks) /\ Precede(NoCall, posted) BY Kind DEF Precede, Before
<1>6. NoCall.call <= calls BY CallsAssumption, Kind DEF IInv, Typed
<1>7. Ordered' BY <1>1, <1>5, <1>6 DEF IInv, Ordered, appvars
<1>8. queue' \in Seq(1..MaxCalls)
  <2>1. paused.call \in 1..MaxCalls BY <1>1 DEF Work
  <2> QED BY <2>1, <1>1, QueueTakes
<1>9. Typed' BY <1>1, <1>8 DEF IInv, Typed, appvars
<1> QED BY <1>4, <1>7, <1>9 DEF IInv

\* The rest touch no call that waits.
Aside == \/ GetResult \/ TimeOut \/ DisconnectReturns \/ Joined
         \/ Connect \/ Refuse \/ Closed \/ Dropped \/ StartReactor \/ StopReactor

LEMMA AsideFacts ==
    ASSUME IInv, Aside
    PROVE  /\ UNCHANGED <<posted, callbacks, paused, active, calls>>
           /\ \/ UNCHANGED queue
              \/ queue # <<>> /\ queue' = Tail(queue)
<1>1. CASE GetResult BY <1>1 DEF GetResult, react
<1>2. CASE TimeOut BY <1>2 DEF TimeOut, shared, react
<1>3. CASE DisconnectReturns BY <1>3 DEF DisconnectReturns, shared, react
<1>4. CASE Joined BY <1>4 DEF Joined, shared, react
<1>5. CASE Connect BY <1>5 DEF Connect, shared, appvars
<1>6. CASE Refuse BY <1>6 DEF Refuse, shared, appvars
<1>7. CASE Closed BY <1>7 DEF Closed, Lost, appvars
<1>8. CASE Dropped BY <1>8 DEF Dropped, Lost, appvars
<1>9. CASE StartReactor BY <1>9 DEF StartReactor, shared, appvars
<1>10. CASE StopReactor BY <1>10 DEF StopReactor, shared, appvars
<1> QED BY <1>1, <1>2, <1>3, <1>4, <1>5, <1>6, <1>7, <1>8, <1>9, <1>10 DEF Aside

LEMMA AsideKeeps == ASSUME IInv, Aside PROVE IInv'
<1>1. /\ UNCHANGED <<posted, callbacks, paused, active, calls>>
      /\ \/ UNCHANGED queue
         \/ queue # <<>> /\ queue' = Tail(queue)
  BY AsideFacts
<1>2. Ordered' BY <1>1, OrderStays DEF IInv
<1>3. OneUnder' BY <1>1 DEF IInv, OneUnder
<1>4. queue' \in Seq(1..MaxCalls) BY <1>1, TailFacts DEF IInv, Typed
<1>5. Typed'
  <2>1. CASE GetResult
    <3>1. Head(queue) \in 1..MaxCalls BY <2>1, TailFacts DEF GetResult, IInv, Typed
    <3> QED BY <2>1, <3>1, <1>1, <1>4 DEF IInv, Typed, GetResult, react
  <2>2. CASE TimeOut BY <2>2, <1>1, <1>4 DEF IInv, Typed, TimeOut, shared, react
  <2>3. CASE DisconnectReturns BY <2>3, <1>1, <1>4 DEF IInv, Typed, DisconnectReturns, shared, react
  <2>4. CASE Joined BY <2>4, <1>1, <1>4 DEF IInv, Typed, Joined, shared, react
  <2>5. CASE Connect BY <2>5, <1>1, <1>4 DEF IInv, Typed, Connect, shared, appvars
  <2>6. CASE Refuse BY <2>6, <1>1, <1>4 DEF IInv, Typed, Refuse, shared, appvars
  <2>7. CASE Closed BY <2>7, <1>1, <1>4 DEF IInv, Typed, Closed, Lost, appvars
  <2>8. CASE Dropped BY <2>8, <1>1, <1>4 DEF IInv, Typed, Dropped, Lost, appvars
  <2>9. CASE StartReactor BY <2>9, <1>1, <1>4 DEF IInv, Typed, StartReactor, shared, appvars
  <2>10. CASE StopReactor BY <2>10, <1>1, <1>4 DEF IInv, Typed, StopReactor, shared, appvars
  <2> QED BY <2>1, <2>2, <2>3, <2>4, <2>5, <2>6, <2>7, <2>8, <2>9, <2>10 DEF Aside
<1> QED BY <1>2, <1>3, <1>5 DEF IInv

LEMMA StutterKeeps == ASSUME IInv, UNCHANGED vars PROVE IInv'
<1>1. Ordered' BY OrderStays DEF IInv, vars, shared, react, appvars
<1>2. OneUnder' BY DEF IInv, OneUnder, vars, react
<1>3. Typed' BY DEF IInv, Typed, vars, appvars, shared, react
<1> QED BY <1>1, <1>2, <1>3 DEF IInv

LEMMA NextKeeps == IInv /\ [Next]_vars => IInv'
<1> SUFFICES ASSUME IInv, [Next]_vars PROVE IInv' OBVIOUS
<1>1. ASSUME NEW kind \in Kinds, Call(kind) PROVE IInv' BY <1>1, CallKeeps
<1>2. CASE Disconnect BY <1>2, DisconnectKeeps
<1>3. CASE Shutdown BY <1>3, ShutdownKeeps
<1>4. CASE RunPosted BY <1>4, RunPostedKeeps
<1>5. CASE RunStop BY <1>5, RunStopKeeps
<1>6. CASE RunCall BY <1>6, RunCallKeeps
<1>7. CASE RunErrback BY <1>7, RunErrbackKeeps
<1>8. CASE RunDisconnect BY <1>8, RunDisconnectKeeps
<1>9. CASE Answers BY <1>9, AnswersKeeps
<1>10. CASE Aside BY <1>10, AsideKeeps
<1>11. CASE UNCHANGED vars BY <1>11, StutterKeeps
<1> QED BY <1>1, <1>2, <1>3, <1>4, <1>5, <1>6, <1>7, <1>8, <1>9, <1>10, <1>11
        DEF Next, Reactor, Aside

LEMMA Invariance == Spec => []IInv
<1>1. Init => IInv BY InitKeeps
<1>2. IInv /\ [Next]_vars => IInv' BY NextKeeps
<1> QED BY <1>1, <1>2, PTL DEF Spec

\* Every variable keeps its type: the queue of outcomes only ever holds calls
\* that were made, and never an outcome of disconnect's or of shutdown's.
THEOREM TypeCorrect == Spec => []TypeOK
<1>1. IInv => TypeOK
  <2> SUFFICES ASSUME IInv PROVE TypeOK OBVIOUS
  <2>1. Entry \subseteq Item /\ Hung \subseteq Item /\ Work \subseteq Item /\ NoCall \in Item
    BY CallsAssumption DEF Entry, Hung, Work, Item, Disconnecting, Stopping, NoCall
  <2>2. posted \in Seq(Item) /\ callbacks \in Seq(Item) /\ paused \in Item
    BY <2>1 DEF IInv, Typed
  <2>3. active \subseteq 1..MaxCalls BY DEF IInv, Typed, OneUnder, Work
  <2> QED BY <2>2, <2>3 DEF IInv, Typed, TypeOK
<1> QED BY <1>1, Invariance, PTL

-----------------------------------------------------------------------------
(* The calls are run one by one: ThreadedProxy implements SerialCalls *)

LEMMA CallsAreNumbers == ASSUME NEW s \in Seq(Entry) PROVE CallsIn(s) \subseteq Nat
<1> SUFFICES ASSUME NEW i \in DOMAIN s PROVE s[i].call \in Nat BY DEF CallsIn
<1>1. s[i] \in Entry OBVIOUS
<1> QED BY <1>1, Kind, CallsAssumption

\* What the chain takes next is the oldest call without an outcome, and it is
\* nowhere else: once it ends it is not waiting.
LEMMA ChainIsNext ==
    ASSUME IInv, Runnable, First \in Work
    PROVE  LET rest == (CallsIn(posted) \cup CallsIn(Tail(callbacks)) \cup {paused.call}) \ {0}
           IN  /\ Waiting = rest \cup {First.call} /\ First.call \notin rest
               /\ Serial!IsNext(First.call) /\ active = {} /\ First.call # 0
<1> DEFINE rest == (CallsIn(posted) \cup CallsIn(Tail(callbacks)) \cup {paused.call}) \ {0}
<1>1. /\ First \in Hung /\ Tail(callbacks) \in Seq(Hung) /\ paused.call = 0
      /\ Precede(First, Tail(callbacks)) /\ Precede(First, posted)
  BY TakeCallback
<1>2. First.call # 0 /\ First.call \in Nat BY Kind, CallsAssumption DEF Work
<1>3. /\ callbacks \in Seq(Hung) /\ callbacks # <<>> /\ posted \in Seq(Entry)
      /\ paused = NoCall /\ active = {}
  BY DEF IInv, Typed, OneUnder, Runnable
<1>4. CallsIn(callbacks) = CallsIn(Tail(callbacks)) \cup {First.call}
  BY <1>3, CallsInTail DEF First
<1>5. Waiting = rest \cup {First.call} BY <1>2, <1>4 DEF Waiting
<1>6. ASSUME NEW d \in rest PROVE First.call < d /\ d \in Nat
  <2>0. d # 0 BY <1>1
  <2>1. d \in CallsIn(posted) => First.call < d BY <2>0, <1>1, <1>2, <1>3, PrecedeCalls
  <2>2. d \in CallsIn(Tail(callbacks)) => First.call < d BY <2>0, <1>1, <1>2, PrecedeCalls
  <2>3. Tail(callbacks) \in Seq(Entry) BY <1>1, Subsequences
  <2>4. d \in Nat BY <1>1, <1>3, <2>3, CallsAreNumbers
  <2> QED BY <2>1, <2>2, <2>4, <1>1
<1>7. First.call \notin rest BY <1>6, <1>2
<1> HIDE DEF rest
<1>8. Serial!IsNext(First.call)
  <2>1. First.call \in Waiting BY <1>5
  <2>2. ASSUME NEW d \in Waiting PROVE First.call <= d
    <3>1. CASE d = First.call BY <3>1, <1>2
    <3>2. CASE d \in rest
      <4>1. First.call < d /\ d \in Nat BY <3>2, <1>6
      <4> QED BY <4>1, <1>2
    <3> QED BY <3>1, <3>2, <1>5
  <2> QED BY <2>1, <2>2 DEF Serial!IsNext
<1> QED BY <1>2, <1>3, <1>5, <1>7, <1>8 DEF rest

LEMMA CallMakes == ASSUME IInv, NEW kind \in Kinds, Call(kind) PROVE Serial!Make
<1> DEFINE e == [call |-> calls + 1, kind |-> kind]
<1>1. /\ calls' = calls + 1 /\ posted' = Append(posted, e) /\ calls + 1 \in 1..MaxCalls
      /\ UNCHANGED <<queue, callbacks, paused, active>>
  BY CallsAssumption DEF Call, IInv, Typed, react
<1>2. e \in Entry /\ e.call = calls + 1 BY <1>1 DEF Entry, Hung, Work
<1>3. posted \in Seq(Entry) BY DEF IInv, Typed
<1> HIDE DEF e
<1>4. CallsIn(posted') = CallsIn(posted) \cup {calls'} BY <1>1, <1>2, <1>3, CallsInAppend
<1>5. calls' # 0 BY <1>1
<1>6. Waiting' = Waiting \cup {calls'} BY <1>1, <1>4, <1>5 DEF Waiting
<1> QED BY <1>1, <1>6 DEF Serial!Make

\* Things without an outcome come and go unseen.
LEMMA PostUnseen ==
    ASSUME IInv, NEW e \in {Disconnecting, Stopping}, posted' = Append(posted, e),
           UNCHANGED <<callbacks, paused>>
    PROVE  Waiting' = Waiting
<1>1. posted \in Seq(Entry) /\ e \in Entry /\ e.call = 0 BY Kind DEF IInv, Typed, Entry
<1>2. CallsIn(posted') = CallsIn(posted) \cup {0} BY <1>1, CallsInAppend
<1> QED BY <1>2 DEF Waiting

LEMMA RunPostedUnseen == ASSUME IInv, RunPosted PROVE UNCHANGED Serial!vars
<1>1. /\ posted' = Tail(posted) /\ callbacks' = Append(callbacks, Head(posted))
      /\ UNCHANGED <<paused, active, calls, queue>> /\ posted # <<>> /\ Head(posted).kind # "stop"
  BY DEF RunPosted, appvars
<1>2. posted \in Seq(Entry) /\ callbacks \in Seq(Hung) BY DEF IInv, Typed
<1>3. Head(posted) \in Hung BY <1>1, TakePosted, Kind
<1>4. CallsIn(posted) = CallsIn(posted') \cup {Head(posted).call} BY <1>1, <1>2, CallsInTail
<1>5. CallsIn(callbacks') = CallsIn(callbacks) \cup {Head(posted).call}
  BY <1>1, <1>2, <1>3, CallsInAppend
<1>6. Waiting' = Waiting BY <1>1, <1>4, <1>5 DEF Waiting
<1> QED BY <1>1, <1>6 DEF Serial!vars

LEMMA RunStopUnseen == ASSUME IInv, RunStop PROVE UNCHANGED Serial!vars
<1>1. /\ posted' = Tail(posted) /\ posted # <<>> /\ Head(posted).kind = "stop"
      /\ UNCHANGED <<callbacks, paused, active, calls, queue>>
  BY DEF RunStop, Lost, appvars
<1>2. posted \in Seq(Entry) BY DEF IInv, Typed
<1>3. Head(posted).call = 0 BY <1>1, TakePosted, Kind
<1>4. CallsIn(posted) = CallsIn(posted') \cup {0} BY <1>1, <1>2, <1>3, CallsInTail
<1>5. Waiting' = Waiting BY <1>1, <1>4 DEF Waiting
<1> QED BY <1>1, <1>5 DEF Serial!vars

LEMMA RunDisconnectUnseen == ASSUME IInv, RunDisconnect PROVE UNCHANGED Serial!vars
<1>1. /\ Runnable /\ callbacks' = Tail(callbacks) /\ First.kind = "disconnect"
      /\ UNCHANGED <<posted, paused, active, calls, queue>>
  BY DEF RunDisconnect, appvars
<1>2. callbacks \in Seq(Hung) /\ callbacks # <<>> BY <1>1 DEF IInv, Typed, Runnable
<1>3. First.call = 0 BY <1>1, TakeCallback, Kind
<1>4. CallsIn(callbacks) = CallsIn(callbacks') \cup {0} BY <1>1, <1>2, <1>3, CallsInTail DEF First
<1>5. Waiting' = Waiting BY <1>1, <1>4 DEF Waiting
<1> QED BY <1>1, <1>5 DEF Serial!vars

LEMMA EndsFirst ==
    ASSUME IInv, Runnable, First \in Work, callbacks' = Tail(callbacks),
           queue' = Append(queue, First.call), UNCHANGED <<posted, paused, active, calls>>
    PROVE  Serial!End(First.call) /\ First.call \in Waiting
<1> DEFINE rest == (CallsIn(posted) \cup CallsIn(Tail(callbacks)) \cup {paused.call}) \ {0}
<1>1. /\ Waiting = rest \cup {First.call} /\ First.call \notin rest
      /\ Serial!IsNext(First.call) /\ active = {}
  BY ChainIsNext
<1>2. Waiting' = rest BY DEF Waiting
<1> HIDE DEF rest
<1>3. Waiting' = Waiting \ {First.call} BY <1>1, <1>2
<1> QED BY <1>1, <1>3 DEF Serial!End

LEMMA RunCallRuns ==
    ASSUME IInv, RunCall
    PROVE  \E c \in Waiting : Serial!Begin(c) \/ Serial!End(c)
<1>1. /\ First \in Work /\ callbacks' = Tail(callbacks) /\ Runnable
      /\ UNCHANGED <<posted, calls>>
      /\ \/ queue' = Append(queue, First.call) /\ UNCHANGED <<paused, active>>
         \/ paused' = First /\ active' = active \cup {First.call} /\ UNCHANGED <<queue, chain>>
  BY RunCallSteps DEF RunCall, appvars
<1>2. CASE queue' = Append(queue, First.call) /\ UNCHANGED <<paused, active>>
  BY <1>1, <1>2, EndsFirst
<1>3. CASE paused' = First /\ active' = active \cup {First.call} /\ UNCHANGED queue
  <2> DEFINE rest == (CallsIn(posted) \cup CallsIn(Tail(callbacks)) \cup {paused.call}) \ {0}
  <2>1. /\ Waiting = rest \cup {First.call}
        /\ Serial!IsNext(First.call) /\ active = {} /\ First.call # 0
    BY <1>1, ChainIsNext
  <2>2. paused.call = 0 BY <1>1, TakeCallback
  <2>3. Waiting' = Waiting BY <1>1, <1>3, <2>1, <2>2 DEF Waiting
  <2>4. Serial!Begin(First.call) BY <1>1, <1>3, <2>1, <2>3 DEF Serial!Begin
  <2> QED BY <2>1, <2>4
<1> QED BY <1>1, <1>2, <1>3

LEMMA AnswersEnd == ASSUME IInv, Answers PROVE \E c \in Waiting : Serial!End(c)
<1> DEFINE c == paused.call
           rest == (CallsIn(posted) \cup CallsIn(callbacks)) \ {0}
<1>1. /\ paused \in Work /\ paused' = NoCall /\ active' = active \ {c}
      /\ queue' = Append(queue, c) /\ UNCHANGED <<posted, callbacks, calls>>
  BY Kind DEF Answers, Finish, IInv, Typed, appvars
<1>2. c # 0 /\ c \in Nat BY <1>1, Kind, CallsAssumption DEF Work
<1>3. paused # NoCall BY <1>2, Kind
<1>4. active = {c} BY <1>3 DEF IInv, OneUnder
<1>5. Waiting = rest \cup {c} BY <1>2 DEF Waiting
<1>6. Waiting' = rest BY <1>1, Kind DEF Waiting
<1>7. ASSUME NEW d \in rest PROVE c < d /\ d \in Nat
  <2>1. /\ Precede(paused, callbacks) /\ Precede(paused, posted)
        /\ callbacks \in Seq(Hung) /\ posted \in Seq(Entry)
    BY DEF IInv, Ordered, Typed
  <2>2. d \in CallsIn(posted) => c < d BY <2>1, <1>2, PrecedeCalls
  <2>3. d \in CallsIn(callbacks) => c < d BY <2>1, <1>2, PrecedeCalls
  <2>4. callbacks \in Seq(Entry) BY <2>1, Subsequences
  <2>5. d \in Nat BY <2>1, <2>4, CallsAreNumbers
  <2> QED BY <2>2, <2>3, <2>5
<1> HIDE DEF c, rest
<1>8. c \notin rest BY <1>2, <1>7
<1>9. Serial!IsNext(c)
  <2>1. c \in Waiting BY <1>5
  <2>2. ASSUME NEW d \in Waiting PROVE c <= d
    <3>1. CASE d = c BY <3>1, <1>2
    <3>2. CASE d \in rest
      <4>1. c < d /\ d \in Nat BY <3>2, <1>7
      <4> QED BY <4>1, <1>2
    <3> QED BY <3>1, <3>2, <1>5
  <2> QED BY <2>1, <2>2 DEF Serial!IsNext
<1>10. Waiting' = Waiting \ {c} BY <1>5, <1>6, <1>8
<1>11. Serial!End(c) BY <1>1, <1>4, <1>9, <1>10 DEF Serial!End
<1> QED BY <1>5, <1>11

LEMMA AsideTakes == ASSUME IInv, Aside PROVE Serial!Take \/ UNCHANGED Serial!vars
<1>1. /\ UNCHANGED <<posted, callbacks, paused, active, calls>>
      /\ \/ UNCHANGED queue
         \/ queue # <<>> /\ queue' = Tail(queue)
  BY AsideFacts
<1>2. Waiting' = Waiting BY <1>1 DEF Waiting
<1> QED BY <1>1, <1>2 DEF Serial!Take, Serial!vars

LEMMA StepImplements == ASSUME IInv, [Next]_vars PROVE [Serial!Next]_(Serial!vars)
<1>1. ASSUME NEW kind \in Kinds, Call(kind) PROVE Serial!Next
  BY <1>1, CallMakes DEF Serial!Next
<1>2. CASE Disconnect
  <2>1. Waiting' = Waiting BY <1>2, PostUnseen DEF Disconnect, react
  <2> QED BY <1>2, <2>1 DEF Disconnect, react, Serial!vars
<1>3. CASE Shutdown
  <2>1. Waiting' = Waiting
    <3>1. CASE posted' = Append(posted, Stopping) BY <1>3, <3>1, PostUnseen DEF Shutdown, react
    <3>2. CASE UNCHANGED posted BY <1>3, <3>2 DEF Shutdown, react, Waiting
    <3> QED BY <1>3, <3>1, <3>2 DEF Shutdown
  <2> QED BY <1>3, <2>1 DEF Shutdown, react, Serial!vars
<1>4. CASE RunPosted BY <1>4, RunPostedUnseen
<1>5. CASE RunStop BY <1>5, RunStopUnseen
<1>6. CASE RunCall BY <1>6, RunCallRuns DEF Serial!Next
<1>7. CASE RunErrback
  <2>1. /\ Runnable /\ First.kind # "disconnect" /\ callbacks' = Tail(callbacks)
        /\ queue' = Append(queue, First.call) /\ UNCHANGED <<posted, paused, active, calls>>
    BY <1>7 DEF RunErrback, Finish, appvars
  <2>2. First \in Work BY <2>1, TakeCallback, Kind
  <2> QED BY <2>1, <2>2, EndsFirst DEF Serial!Next
<1>8. CASE RunDisconnect BY <1>8, RunDisconnectUnseen
<1>9. CASE Answers BY <1>9, AnswersEnd DEF Serial!Next
<1>10. CASE Aside BY <1>10, AsideTakes DEF Serial!Next
<1>11. CASE UNCHANGED vars
  BY <1>11 DEF vars, appvars, shared, react, Serial!vars, Waiting
<1> QED BY <1>1, <1>2, <1>3, <1>4, <1>5, <1>6, <1>7, <1>8, <1>9, <1>10, <1>11
        DEF Next, Reactor, Aside

\* Whatever the kinds of the calls, and however they, the connection and the
\* caller's patience end: calls are run one at a time in the order they were
\* made, and each has one outcome (callable_threaded_proxy, threaded_call,
\* errback_not_connected).
THEOREM CallsOneByOne == Spec => OneByOne
<1>1. Init => Serial!Init
  BY Kind DEF Init, Serial!Init, Waiting, CallsIn
<1>2. IInv /\ [Next]_vars => [Serial!Next]_(Serial!vars) BY StepImplements
<1> QED BY <1>1, <1>2, Invariance, PTL DEF Spec, OneByOne, Serial!Spec

-----------------------------------------------------------------------------
(* Until a call times out, each call is given its own outcome *)

\* Nothing is left over for the next call: there is an outcome, or a call that
\* will have one, only while the application waits for it.
Fresh ==
    ~late => \/ /\ app = "calling" /\ answer + 1 = calls
                /\ \/ queue = <<>> /\ Waiting = {calls}
                   \/ queue = <<calls>> /\ Waiting = {}
             \/ app # "calling" /\ answer = calls /\ queue = <<>> /\ Waiting = {}

\* What the reactor does to the calls: nothing, or it begins or ends the next.
Works == UNCHANGED Serial!vars \/ \E c \in Waiting : Serial!Begin(c) \/ Serial!End(c)

LEMMA WorksFresh ==
    ASSUME IInv, Fresh, Works, UNCHANGED <<late, answer, calls>>,
           (app = "calling") = (app' = "calling")
    PROVE  Fresh'
<1> SUFFICES ASSUME ~late PROVE Fresh' BY DEF Fresh
<1>1. CASE UNCHANGED Serial!vars BY <1>1 DEF Fresh, Serial!vars
<1>2. ASSUME NEW c \in Waiting, Serial!Begin(c) PROVE Fresh'
  BY <1>2 DEF Fresh, Serial!Begin
<1>3. ASSUME NEW c \in Waiting, Serial!End(c) PROVE Fresh'
  <2>1. Waiting' = Waiting \ {c} /\ queue' = Append(queue, c) BY <1>3 DEF Serial!End
  <2>2. app = "calling" /\ answer + 1 = calls /\ queue = <<>> /\ Waiting = {calls}
    BY DEF Fresh
  <2>3. c = calls BY <2>2
  <2>4. Waiting' = {} /\ queue' = <<calls>> BY <2>1, <2>2, <2>3
  <2> QED BY <2>2, <2>4 DEF Fresh
<1> QED BY <1>1, <1>2, <1>3 DEF Works

LEMMA FreshKeeps == ASSUME IInv, Fresh, [Next]_vars PROVE Fresh'
<1>0. calls \in Nat /\ answer \in Nat BY CallsAssumption DEF IInv, Typed
<1>1. ASSUME NEW kind \in Kinds, Call(kind) PROVE Fresh'
  <2> SUFFICES ASSUME ~late' PROVE Fresh' BY DEF Fresh
  <2>1. /\ calls' = calls + 1 /\ Waiting' = Waiting \cup {calls'} /\ queue' = queue
        /\ app = "idle" /\ app' = "calling" /\ UNCHANGED <<answer, late>>
    BY <1>1, CallMakes DEF Call, Serial!Make
  <2>2. answer = calls /\ queue = <<>> /\ Waiting = {} BY <2>1 DEF Fresh
  <2>3. answer' + 1 = calls' /\ queue' = <<>> /\ Waiting' = {calls'} BY <2>1, <2>2, <1>0
  <2> QED BY <2>1, <2>3 DEF Fresh
<1>2. CASE GetResult
  <2> SUFFICES ASSUME ~late' PROVE Fresh' BY DEF Fresh
  <2>1. /\ app = "calling" /\ queue # <<>> /\ answer' = Head(queue) /\ queue' = Tail(queue)
        /\ app' = "idle" /\ UNCHANGED <<calls, late, posted, callbacks, paused>>
    BY <1>2 DEF GetResult, react
  <2>2. Waiting' = Waiting BY <2>1 DEF Waiting
  <2>3. queue = <<calls>> /\ Waiting = {} BY <2>1 DEF Fresh
  <2>4. answer' = calls' /\ queue' = <<>> BY <2>1, <2>3
  <2> QED BY <2>1, <2>2, <2>3, <2>4 DEF Fresh
<1>3. CASE TimeOut BY <1>3 DEF TimeOut, Fresh
<1>4. CASE \/ Disconnect \/ Shutdown \/ DisconnectReturns \/ Joined
  <2>1. Works
    <3>1. CASE Disconnect
      <4>1. Waiting' = Waiting BY <3>1, PostUnseen DEF Disconnect, react
      <4> QED BY <3>1, <4>1 DEF Disconnect, react, Serial!vars, Works
    <3>2. CASE Shutdown
      <4>1. Waiting' = Waiting
        <5>1. CASE posted' = Append(posted, Stopping) BY <3>2, <5>1, PostUnseen DEF Shutdown, react
        <5>2. CASE UNCHANGED posted BY <3>2, <5>2 DEF Shutdown, react, Waiting
        <5> QED BY <3>2, <5>1, <5>2 DEF Shutdown
      <4> QED BY <3>2, <4>1 DEF Shutdown, react, Serial!vars, Works
    <3>3. CASE DisconnectReturns
      BY <3>3 DEF DisconnectReturns, shared, react, Serial!vars, Works, Waiting
    <3>4. CASE Joined BY <3>4 DEF Joined, shared, react, Serial!vars, Works, Waiting
    <3> QED BY <1>4, <3>1, <3>2, <3>3, <3>4
  <2>2. UNCHANGED <<late, answer, calls>> /\ app # "calling" /\ app' # "calling"
    BY <1>4 DEF Disconnect, Shutdown, DisconnectReturns, Joined
  <2> QED BY <2>1, <2>2, WorksFresh
<1>5. CASE Reactor \/ Dropped
  <2>1. UNCHANGED appvars
    BY <1>5 DEF Reactor, Dropped, RunCall, RunErrback, RunDisconnect, RunPosted, Answers,
                Connect, Refuse, Closed, Lost, StartReactor, RunStop, StopReactor
  <2>2. Works
    <3>1. CASE RunCall BY <3>1, RunCallRuns DEF Works
    <3>2. CASE RunErrback
      <4>1. /\ Runnable /\ First.kind # "disconnect" /\ callbacks' = Tail(callbacks)
            /\ queue' = Append(queue, First.call) /\ UNCHANGED <<posted, paused, active, calls>>
        BY <3>2 DEF RunErrback, Finish, appvars
      <4>2. First \in Work BY <4>1, TakeCallback, Kind
      <4> QED BY <4>1, <4>2, EndsFirst DEF Works
    <3>3. CASE RunDisconnect BY <3>3, RunDisconnectUnseen DEF Works
    <3>4. CASE RunPosted BY <3>4, RunPostedUnseen DEF Works
    <3>5. CASE RunStop BY <3>5, RunStopUnseen DEF Works
    <3>6. CASE Answers BY <3>6, AnswersEnd DEF Works
    <3>7. CASE Connect \/ Refuse \/ Closed \/ Dropped \/ StartReactor \/ StopReactor
      <4>1. UNCHANGED <<posted, callbacks, paused, active, calls, queue>>
        BY <3>7 DEF Connect, Refuse, Closed, Dropped, Lost, StartReactor, StopReactor,
                    appvars, shared
      <4> QED BY <4>1 DEF Works, Serial!vars, Waiting
    <3> QED BY <1>5, <3>1, <3>2, <3>3, <3>4, <3>5, <3>6, <3>7 DEF Reactor
  <2> QED BY <2>1, <2>2, WorksFresh DEF appvars
<1>6. CASE UNCHANGED vars
  BY <1>6 DEF vars, appvars, shared, react, Fresh, Waiting
<1> QED BY <1>1, <1>2, <1>3, <1>4, <1>5, <1>6 DEF Next

\* A proxy call returns or raises the outcome of that very call, for any history
\* of calls that ended, raised, were refused or met a failed chain, as long as
\* none has timed out (callable_threaded_proxy, self.queue).
THEOREM ResultAlwaysMatches == Spec => []ResultMatches
<1>1. Init => Fresh BY Kind DEF Init, Fresh, Waiting, CallsIn
<1>2. IInv /\ Fresh /\ [Next]_vars => Fresh' BY FreshKeeps
<1>3. Fresh => ResultMatches BY DEF Fresh, ResultMatches, OwnResult
<1> QED BY <1>1, <1>2, <1>3, Invariance, PTL DEF Spec

-----------------------------------------------------------------------------
(* disconnect leaves no connection behind *)

\* The event disconnect waits for is only set when there is no connection, or
\* has been none.
Closing ==
    /\ conn \in {"up", "closing"} => protocol
    /\ conn = "dialing" => chain = "unfired" /\ ~protocol
    /\ chain # "unfired" /\ ~protocol => conn = "lost"
    /\ event => conn \in {"lost", "dropped"}
    /\ app = "done" /\ ~timeout => event

LEMMA ClosingKeeps == ASSUME IInv, Closing, [Next]_vars PROVE Closing'
<1> USE DEF Closing
<1>1. ASSUME NEW kind \in Kinds, Call(kind) PROVE Closing' BY <1>1 DEF Call, react
<1>2. CASE GetResult BY <1>2 DEF GetResult, react
<1>3. CASE TimeOut BY <1>3 DEF TimeOut, shared, react
<1>4. CASE Disconnect BY <1>4 DEF Disconnect, react
<1>5. CASE DisconnectReturns BY <1>5 DEF DisconnectReturns, shared, react
<1>6. CASE Shutdown BY <1>6 DEF Shutdown, react
<1>7. CASE Joined BY <1>7 DEF Joined, shared, react
<1>8. CASE RunCall
  <2>1. /\ UNCHANGED <<appvars, event, protocol, conn>> /\ chain # "unfired"
    BY <1>8, RunCallSteps DEF RunCall, Runnable
  <2>2. CASE protocol BY <2>1, <2>2 DEF appvars
  <2>3. CASE ~protocol BY <2>1, <2>3 DEF appvars
  <2> QED BY <2>2, <2>3
<1>9. CASE RunErrback
  <2>1. /\ UNCHANGED <<appvars, event, protocol, conn>> /\ chain # "unfired"
    BY <1>9 DEF RunErrback, Runnable
  <2> QED BY <2>1 DEF appvars
<1>10. CASE RunDisconnect BY <1>10 DEF RunDisconnect, Runnable, appvars
<1>11. CASE RunPosted BY <1>11 DEF RunPosted, appvars
<1>12. CASE Answers BY <1>12 DEF Answers, Finish, appvars
<1>13. CASE Connect BY <1>13 DEF Connect, appvars, shared
<1>14. CASE Refuse BY <1>14 DEF Refuse, appvars, shared
<1>15. CASE Closed BY <1>15 DEF Closed, Lost, appvars
<1>16. CASE StartReactor BY <1>16 DEF StartReactor, appvars, shared
<1>17. CASE RunStop BY <1>17 DEF RunStop, Lost, appvars
<1>18. CASE StopReactor BY <1>18 DEF StopReactor, appvars, shared
<1>19. CASE Dropped BY <1>19 DEF Dropped, Lost, appvars
<1>20. CASE UNCHANGED vars BY <1>20 DEF vars, appvars, shared, react
<1> QED BY <1>1, <1>2, <1>3, <1>4, <1>5, <1>6, <1>7, <1>8, <1>9, <1>10, <1>11, <1>12, <1>13,
           <1>14, <1>15, <1>16, <1>17, <1>18, <1>19, <1>20 DEF Next, Reactor

\* When disconnect has returned and its wait has not run out, a connection that
\* was made is closed, whatever failed before (disconnector, on_disconnected).
THEOREM DisconnectAlwaysCloses == Spec => []DisconnectCloses
<1>1. Init => Closing BY DEF Init, Closing
<1>2. IInv /\ Closing /\ [Next]_vars => Closing' BY ClosingKeeps
<1>3. Closing => DisconnectCloses BY DEF Closing, DisconnectCloses
<1> QED BY <1>1, <1>2, <1>3, Invariance, PTL DEF Spec
===============================================================================
