-------------------------- MODULE HandshakeScrubber --------------------------
(***************************************************************************)
(* The grammar of an RFB handshake as capture.py follows it, over both     *)
(* directions of a connection it only listens to.  RawCapture uses it to   *)
(* leave the authentication out of a recording, ReplayServer to pace one.  *)
(*                                                                         *)
(* A byte is the field it belongs to with that field's value, so a run of  *)
(* bytes says what it decodes to.  The state of a scrubber is a record g:  *)
(* the field its generator waits for, the length an earlier field gave for *)
(* it, what it has learnt, and whether it gave up.                         *)
(***************************************************************************)
EXTENDS Integers, Sequences

INVALID            == 0
NONE               == 1
VNC_AUTHENTICATION == 2
DIFFIE_HELLMAN     == 30

ARD_CREDENTIALS_LEN == 128

Directions == {"s2c", "c2s"}

\* The points of the generator: at each it waits for the field of that name.
Exchange == {"challenge", "response", "dh", "modulus", "serverkey", "credentials", "clientkey"}
Points   == Exchange \cup {"version", "reply", "count", "types", "choice", "auth",
                           "result", "init", "serverinit", "name", "done"}

\* The tap a field is read from.
Tap(at) ==
    IF at \in {"reply", "choice", "response", "credentials", "clientkey", "init"}
    THEN "c2s" ELSE "s2c"

\* __init__ runs the generator to its first yield.
Scrubber(preserve) ==
    [at |-> "version", n |-> 0, ver |-> 0, sec |-> INVALID, sized |-> FALSE,
     preserve |-> preserve, abort |-> FALSE]

Waiting(g, d) == g.at # "done" /\ Tap(g.at) = d

\* The number of bytes of _Want at each yield of _run.
Nbytes(g) ==
    CASE g.at \in {"version", "reply"}           -> 12
      [] g.at \in {"count", "choice", "init"}    -> 1
      [] g.at \in {"auth", "dh", "result"}       -> 4
      [] g.at \in {"challenge", "response"}      -> 16
      [] g.at = "credentials"                    -> ARD_CREDENTIALS_LEN
      [] g.at = "serverinit"                     -> 24
      [] OTHER                                   -> g.n

\* How many bytes of buf belong to the chunk the generator waits for.
HasChunk(g, buf) == Len(buf) >= Nbytes(g)
ChunkOf(g, buf)  == SubSeq(buf, 1, Nbytes(g))
Decode(chunk)    == IF chunk = <<>> THEN 0 ELSE Head(chunk).v

\* Giving up ends the generator, and the capture unless the handshake is kept.
GiveUp(g) == [g EXCEPT !.at = "done", !.abort = ~g.preserve]

\* No SecurityResult precedes ClientInit before 3.8 if nothing was asked for.
AfterExchange(g) ==
    [g EXCEPT !.at = IF g.ver < 3008 /\ g.sec = NONE THEN "init" ELSE "result"]

Authenticate(g, sec) ==
    LET known == [g EXCEPT !.sec = sec]
    IN  CASE sec = VNC_AUTHENTICATION  -> [known EXCEPT !.at = "challenge"]
          [] sec = DIFFIE_HELLMAN      -> [known EXCEPT !.at = "dh"]
          [] sec \in {NONE, INVALID}   -> AfterExchange(known)
          [] OTHER                     -> GiveUp(known)

\* The generator resumed with a chunk that decodes to v, up to its next yield.
Resume(g, v) ==
    LET To(at)     == [g EXCEPT !.at = at]
        Sized(at)  == [g EXCEPT !.at = at, !.n = v]
    IN  CASE g.at = "version"     -> To("reply")
          [] g.at = "reply"       -> IF v = 0 THEN GiveUp(g)
                                     ELSE [g EXCEPT !.ver = v,
                                                    !.at = IF v >= 3007 THEN "count" ELSE "auth"]
          [] g.at = "count"       -> IF v = 0 THEN To("done") ELSE Sized("types")
          [] g.at = "types"       -> To("choice")
          [] g.at = "choice"      -> Authenticate(g, v)
          [] g.at = "auth"        -> IF v = INVALID THEN To("done") ELSE Authenticate(g, v)
          [] g.at = "challenge"   -> To("response")
          [] g.at = "dh"          -> Sized("modulus")
          [] g.at = "modulus"     -> To("serverkey")
          [] g.at = "serverkey"   -> To("credentials")
          [] g.at = "credentials" -> To("clientkey")
          [] g.at \in {"response", "clientkey"} -> AfterExchange(g)
          [] g.at = "result"      -> IF v = 0 THEN To("init") ELSE To("done")
          [] g.at = "init"        -> To("serverinit")
          [] g.at = "serverinit"  -> [Sized(IF v = 0 THEN "done" ELSE "name") EXCEPT !.sized = TRUE]
          [] OTHER                -> To("done")

Byte(f, v)      == [f |-> f, v |-> v]
Bytes(f, n, v)  == [i \in 1..n |-> Byte(f, v)]

\* What is recorded of a chunk: the offer of security types, the choice and
\* the SecurityResult become those of a session that asks for nothing, and
\* nothing is recorded inside the exchange unless a step says so: none does.
Records(g, chunk) ==
    IF g.preserve THEN chunk
    ELSE CASE g.at = "count" /\ Decode(chunk) # 0      -> <<>>
           [] g.at = "types"                           -> Bytes("count", 1, 1) \o Bytes("types", 1, NONE)
           [] g.at = "choice"                          -> Bytes("choice", 1, NONE)
           [] g.at = "auth" /\ Decode(chunk) # INVALID -> Bytes("auth", 4, NONE)
           [] g.at \in Exchange                        -> <<>>
           [] g.at = "result" /\ g.ver < 3008          -> <<>>
           [] OTHER                                    -> chunk
==============================================================================
