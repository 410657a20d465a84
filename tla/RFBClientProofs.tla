--------------------------- MODULE RFBClientProofs ---------------------------
(***************************************************************************)
(* Proofs about RFBClient, for any versions, security types, subtypes,     *)
(* policies, lengths and messages, any number of them, and however TCP     *)
(* cuts the stream: the parser and the server stay in step, what is        *)
(* declared is bounded before it is buffered, every update is served, and  *)
(* a session that the server ends badly is reported once.                  *)
(*                                                                         *)
(* What the client will make of the fields that are on their way is a path *)
(* (Parses): from where it is now, one step (Reads) for each field, to     *)
(* where it will be when it has read them all.  There it has to meet the   *)
(* server (Meets).  A field read shortens the path at its head, a field    *)
(* sent lengthens it at its end, so no step has to look at more fields     *)
(* than it moves, however many are in flight.                              *)
(***************************************************************************)
EXTENDS RFBClient, FiniteSetTheorems, SequenceTheorems, TLAPS

-----------------------------------------------------------------------------
(* The stations of the parser *)

\* A station: the handler and its length, what the client has written that the
\* server has yet to read, what the handlers look at (rectangles, version,
\* subtype, policy), and the counts.
Station(h, len, c, n, v, s, g, k) ==
    [h |-> h, len |-> len, c |-> c, n |-> n, v |-> v, s |-> s, g |-> g, k |-> k]

Counts(updates, rects, replies) == [commits |-> updates, painted |-> rects, fences |-> replies]

Goes(q, h, len, c) == Station(h, len, c, q.n, q.v, q.s, q.g, q.k)

\* The ends of a client that gives the connection up: it aborts ("told", or
\* "garbled" where no message begins as the server began one), tells without
\* aborting ("ended"), closes without telling ("silent"), has no password
\* ("refused"), cannot decode the pixels it asked for ("unreadable"), or raises
\* what nobody catches ("escape").
Dooms == {"told", "garbled", "ended", "silent", "refused", "unreadable", "escape"}
Doomed(h) == [h |-> h]

M(m, val) == [m |-> m, val |-> val]

FirstStop(v) == IF v < 3007 THEN "auth" ELSE "ntypes"
FirstLen(v)  == IF v < 3007 THEN 4 ELSE 1

\* Where a client of version v that starts on type t stops first, and what it
\* has said by then: the choice where it has one, and ClientInit after None.
AtOnce(t, v) == t = NONE /\ v < 3008
StartStop(t, v) ==
    CASE t = NONE -> IF v < 3008 THEN "serverinit" ELSE "result"
      [] t = VNC_AUTHENTICATION -> "challenge"
      [] t = VENCRYPT -> "vversion"
      [] OTHER -> "ardparams"
StartLen(t, v) ==
    CASE t = NONE -> IF v < 3008 THEN 24 ELSE 4
      [] t = VNC_AUTHENTICATION -> 16
      [] t = VENCRYPT -> 2
      [] OTHER -> 4
InitSaid(t, v)   == IF AtOnce(t, v) THEN <<M("init", 0)>> ELSE <<>>
ChoiceSaid(t, v) == IF AtOnce(t, v) THEN <<M("choice", t), M("init", 0)>> ELSE <<M("choice", t)>>

TlsStop(s)   == IF s \in VNC_AUTH_SUBTYPES THEN "challenge" ELSE "result"
TlsLen(s)    == IF s \in VNC_AUTH_SUBTYPES THEN 16 ELSE 4
PlainSaid(s) == IF s \in PLAIN_AUTH_SUBTYPES THEN <<M("plain", 0)>> ELSE <<>>
TlsSaid(s)   == IF s \in PLAIN_AUTH_SUBTYPES THEN <<M("tls", 0), M("plain", 0)>> ELSE <<M("tls", 0)>>

Best(valid) == CHOOSE t \in valid : \A other \in valid : other <= t

\* A field of the opening: the version, the security types, a refusal.
ReadsOpening(q, f, r) ==
    \/ q.h = "initial" /\ f.val = BadHeader /\ r = Doomed("told")
    \/ q.h = "initial" /\ f.val # BadHeader /\ Known(f.val) = {} /\ r = Doomed("escape")
    \/ /\ q.h = "initial" /\ f.val # BadHeader /\ Known(f.val) # {}
       /\ r = Station(FirstStop(Agree(f.val)), FirstLen(Agree(f.val)),
                      <<M("version", Agree(f.val))>>, q.n, Agree(f.val), q.s, q.g, q.k)
    \/ q.h = "ntypes" /\ f.val > 0 /\ r = Goes(q, "types", f.val, <<>>)
    \/ q.h = "ntypes" /\ ~(f.val > 0) /\ r = Goes(q, "connfailed", 4, <<>>)
    \/ q.h = "types" /\ f.val \cap SUPPORTED_AUTHS = {} /\ r = Doomed("told")
    \/ /\ q.h = "types" /\ f.val \cap SUPPORTED_AUTHS # {}
       /\ \E t \in SUPPORTED_AUTHS :
            /\ t = Best(f.val \cap SUPPORTED_AUTHS)
            /\ r = Goes(q, StartStop(t, q.v), StartLen(t, q.v), ChoiceSaid(t, q.v))
    \/ q.h = "auth" /\ f.val = 0 /\ r = Goes(q, "connfailed", 4, <<>>)
    \/ /\ q.h = "auth" /\ f.val \in SUPPORTED_AUTHS
       /\ r = Goes(q, StartStop(f.val, q.v), StartLen(f.val, q.v), InitSaid(f.val, q.v))
    \/ q.h = "auth" /\ f.val \notin SUPPORTED_AUTHS \cup {0} /\ r = Doomed("told")
    \/ q.h = "connfailed" /\ requirePayload(f.val) /\ r = Goes(q, "connmsg", f.val, <<>>)
    \/ q.h = "connfailed" /\ ~requirePayload(f.val) /\ r = Doomed("told")
    \/ q.h = "connmsg" /\ r = Doomed("told")

\* A field of a security type.
ReadsSecurity(q, f, r) ==
    \/ q.h = "challenge" /\ q.g.password /\ r = Goes(q, "result", 4, <<M("response", 0)>>)
    \/ q.h = "challenge" /\ ~q.g.password /\ r = Doomed("refused")
    \/ q.h = "ardparams" /\ r = Goes(q, "ardmodulus", f.val, <<>>)
    \/ q.h = "ardmodulus" /\ r = Goes(q, "ardkey", q.len, <<>>)
    \/ q.h = "ardkey" /\ f.val = "ok" /\ r = Goes(q, "result", 4, <<M("ardreply", 0)>>)
    \/ q.h = "ardkey" /\ f.val = "weak" /\ r = Doomed("escape")
    \/ q.h = "vversion" /\ f.val \in Nat /\ f.val >= 2 /\ r = Goes(q, "vack", 1, <<M("vversion", 2)>>)
    \/ q.h = "vversion" /\ f.val \in Nat /\ f.val < 2 /\ r = Doomed("told")
    \/ q.h = "vack" /\ f.val = 0 /\ r = Goes(q, "vcount", 1, <<>>)
    \/ q.h = "vack" /\ f.val # 0 /\ r = Doomed("told")
    \/ q.h = "vcount" /\ f.val > 0 /\ r = Goes(q, "vsubtypes", 4 * f.val, <<>>)
    \/ q.h = "vcount" /\ f.val = 0 /\ r = Doomed("told")
    \/ q.h = "vsubtypes" /\ Candidates(f.val, q.g) = {} /\ r = Doomed("told")
    \/ /\ q.h = "vsubtypes" /\ Candidates(f.val, q.g) # {}
       /\ \E s \in {PREFERENCE[i] : i \in DOMAIN PREFERENCE} :
            /\ s = Choose(f.val, q.g)
            /\ r = Station("vchosen", 1, <<M("vsubtype", s)>>, q.n, q.v, s, q.g, q.k)
    \/ q.h = "vchosen" /\ f.val = 1 /\ r = Goes(q, TlsStop(q.s), TlsLen(q.s), TlsSaid(q.s))
    \/ q.h = "vchosen" /\ f.val # 1 /\ r = Doomed("told")

\* A field of the result and of the initialisation.
ReadsResult(q, f, r) ==
    \/ q.h = "result" /\ f.val = "ok" /\ r = Goes(q, "serverinit", 24, <<M("init", 0)>>)
    \/ q.h = "result" /\ f.val = "failed" /\ q.v >= 3008 /\ r = Goes(q, "reasonlen", 4, <<>>)
    \/ q.h = "result" /\ f.val = "failed" /\ q.v < 3008 /\ r = Doomed("ended")
    \/ q.h = "result" /\ f.val = "unknown" /\ r = Doomed("silent")
    \/ q.h = "reasonlen" /\ requirePayload(f.val) /\ r = Goes(q, "reason", f.val, <<>>)
    \/ q.h = "reasonlen" /\ ~requirePayload(f.val) /\ r = Doomed("escape")
    \/ q.h = "reason" /\ r = Doomed("ended")
    \/ q.h = "serverinit" /\ r = Goes(q, "servername", f.val, <<>>)
    \/ q.h = "servername" /\ q.g.readable /\ r = Goes(q, "message", 1, <<M("setup", 0)>>)
    \/ q.h = "servername" /\ ~q.g.readable /\ r = Doomed("unreadable")

\* A field of a message; the server reads nothing any more.
Replies(q) == Station("message", 1, <<>>, q.n, q.v, q.s, q.g,
                      Counts(q.k.commits, q.k.painted, q.k.fences + 1))

ReadsMessage(q, f, r) ==
    \/ q.h = "message" /\ f.val = "update" /\ r = Goes(q, "update", 3, <<>>)
    \/ q.h = "message" /\ f.val = "bell" /\ r = Goes(q, "message", 1, <<>>)
    \/ q.h = "message" /\ f.val = "text" /\ r = Goes(q, "texthead", 7, <<>>)
    \/ q.h = "message" /\ f.val = "colourmap" /\ r = Goes(q, "maphead", 5, <<>>)
    \/ q.h = "message" /\ f.val = "fence" /\ r = Goes(q, "fencehead", 8, <<>>)
    \/ q.h = "message" /\ f.val = "unknown" /\ r = Doomed("garbled")
    \/ q.h = "texthead" /\ requirePayload(f.val) /\ r = Goes(q, "text", f.val, <<>>)
    \/ q.h = "texthead" /\ ~requirePayload(f.val) /\ r = Doomed("told")
    \/ q.h = "maphead" /\ requirePayload(6 * f.val) /\ r = Goes(q, "map", 6 * f.val, <<>>)
    \/ q.h = "maphead" /\ ~requirePayload(6 * f.val) /\ r = Doomed("told")
    \/ q.h \in {"text", "map", "fence"} /\ r = Goes(q, "message", 1, <<>>)
    \/ q.h = "fencerequest" /\ r = Replies(q)
    \/ q.h = "fencehead" /\ f.val.len = 0 /\ f.val.request /\ r = Replies(q)
    \/ q.h = "fencehead" /\ f.val.len = 0 /\ ~f.val.request /\ r = Goes(q, "message", 1, <<>>)
    \/ /\ q.h = "fencehead" /\ f.val.len > 0 /\ f.val.request
       /\ r = Goes(q, "fencerequest", f.val.len, <<>>)
    \/ /\ q.h = "fencehead" /\ f.val.len > 0 /\ ~f.val.request
       /\ r = Goes(q, "fence", f.val.len, <<>>)

\* Another rectangle, or the end of the update.
Continues(q, n, rects) ==
    IF n > 0 THEN Station("rect", 12, <<>>, n, q.v, q.s, q.g,
                          Counts(q.k.commits, rects, q.k.fences))
             ELSE Station("message", 1, <<>>, n, q.v, q.s, q.g,
                          Counts(q.k.commits + 1, rects, q.k.fences))

ReadsUpdate(q, f, r) ==
    \/ q.h = "update" /\ f.val \in 0..MaxRects /\ r = Continues(q, f.val, q.k.painted)
    \/ q.h = "rect" /\ q.n > 0 /\ f.val.enc = "last" /\ r = Continues(q, 0, q.k.painted)
    \/ q.h = "rect" /\ q.n > 0 /\ f.val.enc = "control" /\ r = Continues(q, q.n - 1, q.k.painted)
    \/ /\ q.h = "rect" /\ q.n > 0 /\ f.val.enc = "pixels"
       /\ r = Station("pixels", f.val.len, <<>>, q.n - 1, q.v, q.s, q.g, q.k)
    \/ q.h = "rect" /\ q.n > 0 /\ f.val.enc = "unknown" /\ r = Doomed("told")
    \/ q.h = "pixels" /\ f.val = "ok" /\ r = Continues(q, q.n, q.k.painted + 1)
    \/ q.h = "pixels" /\ f.val = "broken" /\ r = Doomed("told")

\* The handler that waits is the one the field is for, and its length the
\* field's; what the client wrote before has been read.
Reads(q, f, r) ==
    \/ q.h \in {"told", "garbled", "escape"} /\ r = q
    \/ /\ q.h = f.h /\ q.len = f.len /\ q.c = <<>>
       /\ \/ ReadsOpening(q, f, r) \/ ReadsSecurity(q, f, r) \/ ReadsResult(q, f, r)
          \/ ReadsMessage(q, f, r) \/ ReadsUpdate(q, f, r)

\* From station q the fields w lead to e; where they doom the client is their end.
Parses(q, w, e) ==
    \E p : /\ p[0] = q /\ p[Len(w)] = e
           /\ \A i \in 1..Len(w) : Reads(p[i - 1], w[i], p[i])
           /\ \A i \in 0..Len(w) : p[i].h \in Dooms => p[i] = e

-----------------------------------------------------------------------------
(* Where client and server meet *)

Srv(at, hears) == srv.at = at /\ srv.hears = hears
InSession == Srv("session", "-")

\* Where the client is.
Here(q) ==
    /\ q.h = want.h /\ q.len = want.len
    /\ q.n = rectangles /\ q.v = version /\ q.s = subtype /\ q.g = policy
    /\ q.c = IF InSession THEN <<>> ELSE c2s
    /\ q.k = Counts(commits, painted, fences)

At(e, h, len, c) == e.h = h /\ e.len = len /\ e.c = c

\* The station at which the client stands when it has read everything, for
\* every point of the protocol the server may be at.
MeetsOpening(e) ==
    \/ Srv("version", "-") /\ At(e, "initial", 12, <<>>)
    \/ /\ Srv("offer", "version") /\ At(e, FirstStop(e.v), FirstLen(e.v), <<M("version", e.v)>>)
       /\ agreed \in Nat /\ e.v <= agreed
    \/ Srv("offer", "-") /\ At(e, FirstStop(e.v), FirstLen(e.v), <<>>)
    \/ /\ Srv("chosen", "choice")
       /\ \E t \in SUPPORTED_AUTHS : At(e, StartStop(t, e.v), StartLen(t, e.v), ChoiceSaid(t, e.v))
    \/ /\ Srv("chosen", "-") /\ sec \in SUPPORTED_AUTHS
       /\ At(e, StartStop(sec, e.v), StartLen(sec, e.v), InitSaid(sec, e.v))

MeetsSecurity(e) ==
    \/ Srv("challenge", "-") /\ At(e, "challenge", 16, <<>>)
    \/ Srv("result", "response") /\ At(e, "result", 4, <<M("response", 0)>>)
    \/ Srv("ard", "-") /\ At(e, "ardparams", 4, <<>>)
    \/ Srv("result", "ardreply") /\ At(e, "result", 4, <<M("ardreply", 0)>>)
    \/ Srv("vversion", "-") /\ At(e, "vversion", 2, <<>>)
    \/ Srv("vsubtypes", "vversion") /\ At(e, "vack", 1, <<M("vversion", 2)>>)
    \/ Srv("vsubtypes", "-") /\ At(e, "vack", 1, <<>>)
    \/ Srv("vchosen", "vsubtype") /\ At(e, "vchosen", 1, <<M("vsubtype", e.s)>>)
    \/ Srv("vchosen", "-") /\ At(e, "vchosen", 1, <<>>)
    \/ Srv("vauth", "tls") /\ At(e, TlsStop(e.s), TlsLen(e.s), TlsSaid(e.s))
    \/ Srv("vauth", "-") /\ At(e, TlsStop(e.s), TlsLen(e.s), PlainSaid(e.s))
    \/ Srv("result", "plain") /\ At(e, "result", 4, <<M("plain", 0)>>)

MeetsResult(e) ==
    \/ Srv("result", "-") /\ At(e, "result", 4, <<>>)
    \/ Srv("init", "init") /\ At(e, "serverinit", 24, <<M("init", 0)>>)
    \/ Srv("init", "-") /\ At(e, "serverinit", 24, <<>>)
    \/ Srv("session", "setup") /\ At(e, "message", 1, <<M("setup", 0)>>)

MeetsSession(e) ==
    /\ InSession
    /\ IF left = 0 THEN At(e, "message", 1, <<>>) ELSE At(e, "rect", 12, <<>>)

\* The version is the one the server has settled for, and the counts come out
\* as what it has sent.
Agrees(e) ==
    /\ faulty = "none" /\ e.h \notin Dooms
    /\ e.n = left /\ e.v \in Nat
    /\ Srv("version", "-") \/ Srv("offer", "version") \/ e.v = agreed
    /\ e.k = Counts(sent.updates, sent.rects, sent.fences)
    /\ ~InSession => left = 0
    /\ MeetsOpening(e) \/ MeetsSecurity(e) \/ MeetsResult(e) \/ MeetsSession(e)

\* Or the client has given up, and the server stands where that leaves it.
ShownFaults == {"header", "refusal", "message", "encoding", "payload", "text"}

GivenUp(e) ==
    \/ /\ e = Doomed("told") /\ faulty \in ShownFaults \cup {"none"}
       /\ \/ Srv("offer", "version") \/ Srv("chosen", "choice") \/ Srv("closed", "-")
          \/ Srv("chosen", "-") /\ sec \notin SUPPORTED_AUTHS
          \/ Srv("vsubtypes", "vversion") \/ Srv("vchosen", "vsubtype")
          \/ InSession
    \/ e = Doomed("garbled") /\ faulty = "message" /\ InSession
    \/ e = Doomed("ended") /\ faulty = "none" /\ Srv("closed", "-")
    \/ e = Doomed("silent") /\ faulty = "result" /\ Srv("closed", "-")
    \/ e = Doomed("refused") /\ faulty = "none" /\ Srv("result", "response")
    \/ e = Doomed("unreadable") /\ faulty = "none" /\ Srv("session", "setup")
    \/ /\ e = Doomed("escape") /\ faulty \in Untold
       /\ Srv("offer", "version") \/ Srv("result", "ardreply") \/ Srv("closed", "-")

Meets(e) == Agrees(e) \/ GivenUp(e)

-----------------------------------------------------------------------------
(* The inductive invariant *)

SessionHandlers == {"message", "texthead", "text", "maphead", "map", "fencehead", "fence",
                    "fencerequest", "update", "rect", "pixels"}

\* What a field may hold.
Words == {"ok", "failed", "unknown", "weak", "broken", "update", "bell", "text", "colourmap", "fence"}
FenceHeads == [len : Nat, request : BOOLEAN]
RectHeads  == [enc : {"pixels", "control", "last", "unknown"}, len : Nat]
Vals == Nat \cup (SUBSET Nat) \cup Words \cup Subtypes \cup FenceHeads \cup RectHeads

\* A count of one byte, the size of a Diffie-Hellman key, the size of a fence.
Narrow(f) ==
    /\ f.h \in {"ntypes", "vcount"} => f.val \in 0..MaxU8
    /\ f.h = "ardparams" => f.val \in 0..MaxU16
    /\ f.h = "fencehead" => f.val.len \in 0..MaxU8

Fields == {f \in [h : Handlers \cup {"early"}, len : Nat, val : Vals] : Narrow(f)}

Typed ==
    /\ TypeOK
    /\ wire \in Seq(Fields)
    /\ srv = [at |-> srv.at, hears |-> srv.hears]
    /\ sent \in [messages : Nat, updates : Nat, rects : Nat, fences : Nat]

\* An update is under way while a rectangle is awaited.
Begun == begun = commits + (IF want.h \in {"rect", "pixels"} THEN 1 ELSE 0)

\* The loop does not stop while whole fields are buffered, it runs when it has
\* one to give or none is needed, and TLS has not begun while it runs.
Loop ==
    /\ ~aborted /\ conn # "lost" /\ got > 0 => running
    /\ running => ~tls /\ ~aborted /\ conn # "lost"
    /\ running => got > 0 \/ want.len = 0 \/ want.h = "initial"

\* What is on its way belongs to the session once the server has read the
\* client's set-up, and not before; and the two acknowledgements of VeNCrypt
\* wait until everything before them has been read.
SessionFields == {f \in Fields : f.h \in SessionHandlers}
OtherFields   == {f \in Fields : f.h \notin SessionHandlers}

Ordered ==
    /\ wire \in Seq(IF InSession THEN SessionFields ELSE OtherFields)
    /\ Srv("vchosen", "-") \/ Srv("vauth", "-") => wire = <<>>

Alive ==
    /\ conn = "open" /\ ~aborted /\ told = 0
    /\ want.h \notin SessionHandlers => report = "none"
    /\ Ordered
    /\ \E q, e : Here(q) /\ Parses(q, wire, e) /\ Meets(e)

Heard == c2s # <<>> /\ srv.hears # "-" => Head(c2s).m = srv.hears

\* The server sends bytes before TLS takes over.
Early ==
    /\ conn = "open" /\ ~aborted /\ told = 0 /\ faulty = "early" /\ srv.at = "closed"
    /\ \/ /\ wire = <<Field("vchosen", 1, 1), Field("early", 2, 0)>>
          /\ want = [h |-> "vchosen", len |-> 1] /\ c2s = <<>> /\ srv.hears = "tls"
       \/ tls /\ Heard /\ want.h # "message"

\* The connection is being closed: aborted, without a password, or after a
\* failed authentication; or it is lost.
Aborted ==
    /\ aborted /\ conn = "closing" /\ ~running /\ told = 1
    /\ c2s = <<>> \/ InSession
    /\ want.h = "message" => faulty # "none"

Refused ==
    /\ ~aborted /\ conn = "closing" /\ ~running /\ told = 0
    /\ want.h = "result" /\ wire = <<>> /\ c2s = <<>> /\ faulty = "none"
    /\ report = "failed" /\ Srv("result", "response")

Finished ==
    /\ ~aborted /\ conn = "closing" /\ ~tls /\ told <= 1
    /\ want.h = "finished" /\ c2s = <<>> /\ Srv("closed", "-")
    /\ told = 0 => faulty = "result"

Lost ==
    /\ conn = "lost" /\ ~running /\ told <= 1 /\ Heard
    /\ faulty \notin {"drop"} \cup Untold => told = 1 \/ report = "failed"
    /\ want.h = "message" => faulty # "none"

Phase == Alive \/ Early \/ Aborted \/ Refused \/ Finished \/ Lost

IInv == Typed /\ Begun /\ Loop /\ Phase

-----------------------------------------------------------------------------
(* Lemmas about the operators *)

LEMMA PairEmpty == \A x, y : <<x, y>> \o <<>> = <<x, y>>
  OBVIOUS

LEMMA PairConcat == ASSUME NEW x, NEW y PROVE <<x>> \o <<y>> = <<x, y>>
  <1>1. <<x>> \in Seq({x, y}) /\ <<y>> \in Seq({x, y}) /\ <<x, y>> \in Seq({x, y})
    OBVIOUS
  <1>2. <<x>> \o <<y>> \in Seq({x, y}) /\ Len(<<x>> \o <<y>>) = 2
    BY <1>1
  <1>3. (<<x>> \o <<y>>)[1] = x /\ (<<x>> \o <<y>>)[2] = y
    BY <1>1
  <1>4. Len(<<x, y>>) = 2 /\ <<x, y>>[1] = x /\ <<x, y>>[2] = y
    OBVIOUS
  <1>5. \A i \in 1..Len(<<x, y>>) : (<<x>> \o <<y>>)[i] = <<x, y>>[i]
    BY <1>3, <1>4
  <1> QED
    BY <1>1, <1>2, <1>4, <1>5, SeqEqual

LEMMA TripleConcat ==
  ASSUME NEW x, NEW y, NEW z
  PROVE  <<x, y>> \o <<z>> = <<x, y, z>>
  <1> DEFINE T == {x, y, z}
             s == <<x, y>> \o <<z>>
  <1>1. <<x, y>> \in Seq(T) /\ <<z>> \in Seq(T) /\ <<x, y, z>> \in Seq(T)
    OBVIOUS
  <1>2. s \in Seq(T) /\ Len(s) = 3
    BY <1>1
  <1>3. s[1] = x /\ s[2] = y /\ s[3] = z
    BY <1>1
  <1>4. /\ Len(<<x, y, z>>) = 3 /\ <<x, y, z>>[1] = x
        /\ <<x, y, z>>[2] = y /\ <<x, y, z>>[3] = z
    OBVIOUS
  <1>5. \A i \in 1..Len(<<x, y, z>>) : s[i] = <<x, y, z>>[i]
    BY <1>3, <1>4
  <1> QED
    BY <1>1, <1>2, <1>4, <1>5, SeqEqual

\* The highest known version below the server's exists, and the agreed one is
\* neither above it nor above the client's own.
LEMMA AgreeFacts ==
  ASSUME NEW v, Known(v) # {}
  PROVE  /\ Agree(v) \in {k \in SUPPORTED_SERVER_VERSIONS : k <= MAX_CLIENT_VERSION}
         /\ Agree(v) \in Nat /\ (v \in Nat => Agree(v) <= v)
  <1>1. \E k \in Known(v) : \A other \in Known(v) : other <= k
    BY Z3 DEF Known, SUPPORTED_SERVER_VERSIONS
  <1>2. PICK k \in Known(v) : k = (CHOOSE b \in Known(v) : \A other \in Known(v) : other <= b)
    BY <1>1
  <1>3. Agree(v) = IF k > MAX_CLIENT_VERSION THEN MAX_CLIENT_VERSION ELSE k
    BY <1>2 DEF Agree
  <1> QED
    BY <1>2, <1>3 DEF Known, SUPPORTED_SERVER_VERSIONS, MAX_CLIENT_VERSION

\* Of the types offered that the client speaks, the highest is one of them.
LEMMA BestFacts ==
  ASSUME NEW valid \in SUBSET SUPPORTED_AUTHS, valid # {}
  PROVE  Best(valid) \in valid
  <1>1. \A t \in valid : t = 1 \/ t = 2 \/ t = 19 \/ t = 30
    BY DEF SUPPORTED_AUTHS, NONE, VNC_AUTHENTICATION, VENCRYPT, DIFFIE_HELLMAN
  <1>2. \E t \in valid : \A other \in valid : other <= t
    <2>1. CASE 30 \in valid
      BY <1>1, <2>1
    <2>2. CASE 30 \notin valid /\ 19 \in valid
      BY <1>1, <2>2
    <2>3. CASE 30 \notin valid /\ 19 \notin valid /\ 2 \in valid
      BY <1>1, <2>3
    <2>4. CASE 30 \notin valid /\ 19 \notin valid /\ 2 \notin valid
      BY <1>1, <2>4
    <2> QED
      BY <2>1, <2>2, <2>3, <2>4
  <1> DEFINE best == CHOOSE t \in valid : \A other \in valid : other <= t
  <1>3. best \in valid
    BY <1>2
  <1> QED
    BY <1>3 DEF Best

LEMMA ChooseFacts ==
  ASSUME NEW offered, NEW given, Candidates(offered, given) # {}
  PROVE  Choose(offered, given) \in {PREFERENCE[i] : i \in DOMAIN PREFERENCE}
  <1> DEFINE C == Candidates(offered, given)
  <1>1. C \subseteq 1..6 /\ C # {} /\ \A j \in C : j = 1 \/ j = 2 \/ j = 3 \/ j = 4 \/ j = 5 \/ j = 6
    BY DEF Candidates, PREFERENCE
  <1>2. \E i \in C : \A j \in C : i <= j
    <2> HIDE DEF C
    <2>1. CASE 1 \in C
      BY <1>1, <2>1
    <2>2. CASE 1 \notin C /\ 2 \in C
      BY <1>1, <2>2
    <2>3. CASE 1 \notin C /\ 2 \notin C /\ 3 \in C
      BY <1>1, <2>3
    <2>4. CASE 1 \notin C /\ 2 \notin C /\ 3 \notin C /\ 4 \in C
      BY <1>1, <2>4
    <2>5. CASE 1 \notin C /\ 2 \notin C /\ 3 \notin C /\ 4 \notin C /\ 5 \in C
      BY <1>1, <2>5
    <2>6. CASE 1 \notin C /\ 2 \notin C /\ 3 \notin C /\ 4 \notin C /\ 5 \notin C
      <3>1. \A j \in C : j = 6
        BY <1>1, <2>6
      <3>2. PICK i \in C : TRUE
        BY <1>1
      <3> QED
        BY <3>1, <3>2
    <2> QED
      BY <2>1, <2>2, <2>3, <2>4, <2>5, <2>6
  <1>3. (CHOOSE i \in C : \A j \in C : i <= j) \in DOMAIN PREFERENCE
    <2>1. (CHOOSE i \in C : \A j \in C : i <= j) \in C
      BY <1>2
    <2> QED
      BY <2>1 DEF Candidates
  <1> QED
    BY <1>3 DEF Choose

\* Nothing on its way: the client is where it will be.
LEMMA ParsesNothing ==
  ASSUME NEW q, NEW e
  PROVE  Parses(q, <<>>, e) <=> q = e
  <1>1. ASSUME Parses(q, <<>>, e) PROVE q = e
    BY <1>1 DEF Parses
  <1>2. ASSUME q = e PROVE Parses(q, <<>>, e)
    <2> DEFINE p == [i \in {0} |-> q]
    <2>1. p[0] = q /\ Len(<<>>) = 0 /\ 1..0 = {} /\ 0..0 = {0}
      OBVIOUS
    <2> QED
      BY <1>2, <2>1 DEF Parses
  <1> QED
    BY <1>1, <1>2

\* The first field read.
LEMMA ParsesHead ==
  ASSUME NEW q, NEW e, NEW w \in Seq(Fields), w # <<>>, Parses(q, w, e)
  PROVE  \E r : /\ Reads(q, Head(w), r) /\ Parses(r, Tail(w), e)
                /\ r.h \in Dooms => r = e
  <1>1. PICK p : /\ p[0] = q /\ p[Len(w)] = e
                 /\ \A i \in 1..Len(w) : Reads(p[i - 1], w[i], p[i])
                 /\ \A i \in 0..Len(w) : p[i].h \in Dooms => p[i] = e
    BY DEF Parses
  <1>2. /\ Len(w) \in Nat \ {0} /\ Head(w) = w[1] /\ Len(Tail(w)) = Len(w) - 1
        /\ \A i \in 1..Len(Tail(w)) : Tail(w)[i] = w[i + 1]
    BY EmptySeq, HeadTailProperties
  <1> DEFINE t == [i \in 0..Len(Tail(w)) |-> p[i + 1]]
  <1>3. t[0] = p[1] /\ t[Len(Tail(w))] = e
    BY <1>1, <1>2
  <1>4. ASSUME NEW i \in 1..Len(Tail(w)) PROVE Reads(t[i - 1], Tail(w)[i], t[i])
    <2>1. i + 1 \in 1..Len(w) /\ t[i - 1] = p[(i + 1) - 1] /\ t[i] = p[i + 1]
      BY <1>2
    <2> QED
      BY <1>1, <1>2, <2>1
  <1>5. ASSUME NEW i \in 0..Len(Tail(w)), t[i].h \in Dooms PROVE t[i] = e
    BY <1>1, <1>2, <1>5
  <1>6. Parses(p[1], Tail(w), e)
    <2> HIDE DEF t
    <2> QED
      BY <1>3, <1>4, <1>5 DEF Parses
  <1>7. Reads(q, Head(w), p[1]) /\ (p[1].h \in Dooms => p[1] = e)
    <2>1. 1 \in 1..Len(w) /\ 1 \in 0..Len(w) /\ 1 - 1 = 0
      BY <1>2
    <2> QED
      BY <1>1, <1>2, <2>1
  <1> QED
    BY <1>6, <1>7

\* What follows a doom is nothing, or the client stays where it is.
LEMMA DoomStays ==
  ASSUME NEW e, NEW f, NEW r, Reads(e, f, r), e.h \in Dooms
  PROVE  r = e
  BY DEF Reads, ReadsOpening, ReadsSecurity, ReadsResult, ReadsMessage, ReadsUpdate, Dooms

\* One more field sent.
LEMMA ParsesMore ==
  ASSUME NEW q, NEW e, NEW r, NEW w \in Seq(Fields), NEW f \in Fields,
         Parses(q, w, e), Reads(e, f, r)
  PROVE  Parses(q, Append(w, f), r)
  <1>1. PICK p : /\ p[0] = q /\ p[Len(w)] = e
                 /\ \A i \in 1..Len(w) : Reads(p[i - 1], w[i], p[i])
                 /\ \A i \in 0..Len(w) : p[i].h \in Dooms => p[i] = e
    BY DEF Parses
  <1> DEFINE x == Append(w, f)
             t == [i \in 0..Len(x) |-> IF i = Len(x) THEN r ELSE p[i]]
  <1>2. /\ Len(w) \in Nat /\ Len(x) = Len(w) + 1 /\ x[Len(x)] = f
        /\ \A i \in 1..Len(w) : x[i] = w[i]
    BY AppendProperties, LenProperties
  <1> HIDE DEF x
  <1>3. t[0] = q /\ t[Len(x)] = r
    BY <1>1, <1>2
  <1>4. ASSUME NEW i \in 1..Len(x) PROVE Reads(t[i - 1], x[i], t[i])
    <2>1. CASE i = Len(x)
      <3>1. t[i - 1] = e /\ t[i] = r /\ x[i] = f
        BY <1>1, <1>2, <2>1
      <3> QED
        BY <3>1
    <2>2. CASE i # Len(x)
      <3>1. i \in 1..Len(w) /\ t[i - 1] = p[i - 1] /\ t[i] = p[i] /\ x[i] = w[i]
        BY <1>2, <2>2
      <3> QED
        BY <1>1, <3>1
    <2> QED
      BY <2>1, <2>2
  <1>5. ASSUME NEW i \in 0..Len(x), t[i].h \in Dooms PROVE t[i] = r
    <2>1. CASE i = Len(x)
      BY <1>2, <2>1
    <2>2. CASE i # Len(x)
      <3>1. i \in 0..Len(w) /\ t[i] = p[i]
        BY <1>2, <2>2
      <3>2. p[i] = e /\ e.h \in Dooms
        BY <1>1, <1>5, <3>1
      <3> QED
        BY <3>1, <3>2, DoomStays
    <2> QED
      BY <2>1, <2>2
  <1> HIDE DEF t
  <1> QED
    BY <1>3, <1>4, <1>5 DEF Parses, x

\* Two fields, and three, sent at once.
LEMMA AppendFields ==
  ASSUME NEW w \in Seq(Fields), NEW f \in Fields, NEW g \in Fields, NEW h \in Fields
  PROVE  /\ w \o <<f>> = Append(w, f)
         /\ w \o <<f, g>> = Append(Append(w, f), g)
         /\ w \o <<f, g, h>> = Append(Append(Append(w, f), g), h)
         /\ Append(w, f) \in Seq(Fields) /\ Append(Append(w, f), g) \in Seq(Fields)
  <1>1. /\ <<f>> \in Seq(Fields) /\ <<g>> \in Seq(Fields) /\ <<h>> \in Seq(Fields)
        /\ <<f, g>> \in Seq(Fields)
    OBVIOUS
  <1>2. <<f>> \o <<g>> = <<f, g>> /\ <<f, g>> \o <<h>> = <<f, g, h>>
    BY PairConcat, TripleConcat
  <1>3. Append(w, f) = w \o <<f>> /\ Append(w, f) \in Seq(Fields)
    BY AppendIsConcat, AppendProperties
  <1>4. Append(Append(w, f), g) = (w \o <<f>>) \o <<g>> /\ Append(Append(w, f), g) \in Seq(Fields)
    BY <1>3, AppendIsConcat, AppendProperties
  <1>5. (w \o <<f>>) \o <<g>> = w \o <<f, g>>
    <2>1. (w \o <<f>>) \o <<g>> = w \o (<<f>> \o <<g>>)
      BY <1>1, ConcatAssociative
    <2> QED
      BY <1>2, <2>1
  <1>6. Append(Append(Append(w, f), g), h) = (w \o <<f, g>>) \o <<h>>
    <2>1. Append(Append(w, f), g) = w \o <<f, g>> /\ w \o <<f, g>> \in Seq(Fields)
      BY <1>4, <1>5
    <2>2. Append(w \o <<f, g>>, h) = (w \o <<f, g>>) \o <<h>>
      BY <2>1, AppendIsConcat
    <2> QED
      BY <2>1, <2>2
  <1>7. (w \o <<f, g>>) \o <<h>> = w \o <<f, g, h>>
    BY <1>1, <1>2, ConcatAssociative
  <1> QED
    BY <1>3, <1>4, <1>5, <1>6, <1>7

LEMMA ParsesSent ==
  ASSUME NEW q, NEW e, NEW w \in Seq(Fields), Parses(q, w, e),
         NEW f \in Fields, NEW g \in Fields, NEW h \in Fields,
         NEW r1, NEW r2, NEW r3, Reads(e, f, r1)
  PROVE  /\ Parses(q, w \o <<f>>, r1)
         /\ Reads(r1, g, r2) => Parses(q, w \o <<f, g>>, r2)
         /\ Reads(r1, g, r2) /\ Reads(r2, h, r3) => Parses(q, w \o <<f, g, h>>, r3)
  <1>1. Parses(q, Append(w, f), r1)
    BY ParsesMore
  <1>2. Append(w, f) \in Seq(Fields) /\ Append(Append(w, f), g) \in Seq(Fields)
    BY AppendFields
  <1>3. ASSUME Reads(r1, g, r2) PROVE Parses(q, Append(Append(w, f), g), r2)
    BY <1>1, <1>2, <1>3, ParsesMore
  <1>4. ASSUME Reads(r1, g, r2), Reads(r2, h, r3)
        PROVE  Parses(q, Append(Append(Append(w, f), g), h), r3)
    BY <1>2, <1>3, <1>4, ParsesMore
  <1>5. /\ w \o <<f>> = Append(w, f) /\ w \o <<f, g>> = Append(Append(w, f), g)
        /\ w \o <<f, g, h>> = Append(Append(Append(w, f), g), h)
    BY AppendFields
  <1> QED
    BY <1>1, <1>3, <1>4, <1>5

-----------------------------------------------------------------------------
(* The initial state *)

LEMMA InitIInv == Init => IInv
  <1> SUFFICES ASSUME Init PROVE IInv
      OBVIOUS
  <1> USE DEF Init
  <1>1. TypeOK
    <2>1. want \in [h : Handlers, len : Nat]
      BY DEF Handlers
    <2>2. rectangles \in 0..MaxRects /\ left \in 0..MaxRects /\ got \in 0..Len(wire)
      BY ClientBounds
    <2>3. /\ running \in BOOLEAN /\ aborted \in BOOLEAN /\ tls \in BOOLEAN /\ spin \in BOOLEAN
          /\ version \in {0} /\ subtype \in {"Plain"} /\ policy \in Policies
      OBVIOUS
    <2>4. /\ report \in {"none", "made", "failed"} /\ told \in 0..2
          /\ begun \in Nat /\ commits \in Nat /\ painted \in Nat /\ fences \in Nat
      OBVIOUS
    <2>5. /\ partial \in BOOLEAN /\ conn \in {"open", "closing", "lost"}
          /\ faulty \in Faults \cup {"none"}
      OBVIOUS
    <2> QED
      BY <2>1, <2>2, <2>3, <2>4, <2>5 DEF TypeOK
  <1>2. Typed
    <2>1. wire \in Seq(Fields)
      BY EmptySeq
    <2>2. srv = [at |-> srv.at, hears |-> srv.hears]
      OBVIOUS
    <2>3. sent \in [messages : Nat, updates : Nat, rects : Nat, fences : Nat]
      OBVIOUS
    <2> QED
      BY <1>1, <2>1, <2>2, <2>3 DEF Typed
  <1>3. Begun /\ Loop
    BY DEF Begun, Loop
  <1>4. Alive
    <2> DEFINE q == Station("initial", 12, <<>>, 0, 0, "Plain", policy, Counts(0, 0, 0))
    <2>1. Here(q)
      BY DEF Here, Station, InSession, Srv
    <2>2. Parses(q, wire, q)
      BY ParsesNothing
    <2>3. Meets(q)
      BY DEF Meets, Agrees, MeetsOpening, At, Station, Srv, InSession, Dooms
    <2>4. Ordered
      BY DEF Ordered, Srv, InSession
    <2> HIDE DEF q
    <2> QED
      BY <2>1, <2>2, <2>3, <2>4 DEF Alive, SessionHandlers
  <1> QED
    BY <1>2, <1>3, <1>4 DEF IInv, Phase

-----------------------------------------------------------------------------
(* The server: what each of its steps leaves alone, and the types *)

\* Where it can take a step, and what that leaves alone.
Frame ==
    /\ UNCHANGED <<client, got, partial, conn>>
    /\ c2s' = c2s \/ SrvHear
    /\ SrvHear \/ SrvChatter \/ (srv.hears = "-" /\ srv.at # "closed" /\ conn # "lost")
    /\ InSession => InSession'
    /\ faulty # "none" => faulty' = faulty

\* The server's variables keep their types, and what is sent is made of fields.
Longer ==
    \/ wire' \in {wire, wire \o <<>>}
    \/ \E f \in Fields, g \in Fields, h \in Fields :
           wire' \in {wire \o <<f>>, wire \o <<f, g>>, wire \o <<f, g, h>>}

Sound ==
    /\ srv' = [at |-> srv'.at, hears |-> srv'.hears]
    /\ sent' \in [messages : Nat, updates : Nat, rects : Nat, fences : Nat]
    /\ left' \in 0..MaxRects /\ faulty' \in Faults \cup {"none"}
    /\ Longer

LEMMA TypedServer ==
  ASSUME Typed
  PROVE  /\ srv = [at |-> srv.at, hears |-> srv.hears]
         /\ sent \in [messages : Nat, updates : Nat, rects : Nat, fences : Nat]
         /\ left \in 0..MaxRects /\ left \in Nat /\ MaxRects \in Nat
         /\ faulty \in Faults \cup {"none"}
  BY ClientBounds DEF Typed, TypeOK

LEMMA LongerFacts ==
  /\ \A f \in Fields : wire' = wire \o <<f>> => Longer
  /\ \A f \in Fields, g \in Fields : wire' = wire \o <<f, g>> => Longer
  /\ \A f \in Fields, g \in Fields, h \in Fields : wire' = wire \o <<f, g, h>> => Longer
  /\ wire' = wire \/ wire' = wire \o <<>> => Longer
  BY DEF Longer

LEMMA FieldFacts ==
  ASSUME NEW h \in (Handlers \cup {"early"}) \ {"ntypes", "vcount", "ardparams", "fencehead"},
         NEW len \in Nat, NEW val \in Vals
  PROVE  Field(h, len, val) \in Fields
  BY DEF Field, Fields, Narrow

LEMMA SoundTyped ==
  ASSUME Typed, Sound, UNCHANGED <<client, got, partial, conn>>
  PROVE  Typed'
  <1>1. wire' \in Seq(Fields) /\ got' \in 0..Len(wire')
    <2>1. wire \in Seq(Fields) /\ got \in 0..Len(wire) /\ got' = got
      BY DEF Typed, TypeOK
    <2>2. ASSUME NEW x \in Seq(Fields)
          PROVE  wire \o x \in Seq(Fields) /\ got \in 0..Len(wire \o x)
      <3>1. wire \o x \in Seq(Fields) /\ Len(wire \o x) = Len(wire) + Len(x) /\ Len(x) \in Nat
                /\ Len(wire) \in Nat
        BY <2>1, ConcatProperties, LenProperties
      <3> QED
        BY <2>1, <3>1
    <2>3. CASE wire' \in {wire, wire \o <<>>}
      BY <2>1, <2>2, <2>3, EmptySeq
    <2>4. CASE wire' \notin {wire, wire \o <<>>}
      <3>1. PICK f \in Fields, g \in Fields, h \in Fields :
                wire' \in {wire \o <<f>>, wire \o <<f, g>>, wire \o <<f, g, h>>}
        BY <2>4 DEF Sound, Longer
      <3>2. <<f>> \in Seq(Fields) /\ <<f, g>> \in Seq(Fields) /\ <<f, g, h>> \in Seq(Fields)
        OBVIOUS
      <3> QED
        BY <2>1, <2>2, <3>1, <3>2
    <2> QED
      BY <2>3, <2>4
  <1> QED
    BY <1>1 DEF Typed, TypeOK, Sound, client

LEMMA ValFacts ==
  /\ \A x \in Nat : x \in Vals
  /\ \A x \in SUBSET Nat : x \in Vals
  /\ \A x \in Words : x \in Vals
  /\ \A x \in Subtypes : x \in Vals
  /\ \A x \in FenceHeads : x \in Vals
  /\ \A x \in RectHeads : x \in Vals
  <1>1. \A x \in Nat : x \in Vals
    BY DEF Vals
  <1>2. \A x \in SUBSET Nat : x \in Vals
    BY DEF Vals
  <1>3. \A x \in Words : x \in Vals
    BY DEF Vals
  <1>4. \A x \in Subtypes : x \in Vals
    BY DEF Vals
  <1>5. \A x \in FenceHeads : x \in Vals
    BY DEF Vals
  <1>6. \A x \in RectHeads : x \in Vals
    BY DEF Vals
  <1> QED
    BY <1>1, <1>2, <1>3, <1>4, <1>5, <1>6

\* The fields that are counted in one byte, or in two.
LEMMA CountFacts ==
  /\ \A n \in Nat : n <= MaxU8 => /\ Field("ntypes", 1, n) \in Fields /\ Field("ntypes", 1, n) \in OtherFields
                               /\ Field("vcount", 1, n) \in Fields /\ Field("vcount", 1, n) \in OtherFields
  /\ \A n \in Nat : n <= MaxU16 => Field("ardparams", 4, n) \in Fields /\ Field("ardparams", 4, n) \in OtherFields
  /\ \A x \in FenceHeads : x.len <= MaxU8 => Field("fencehead", 8, x) \in Fields /\ Field("fencehead", 8, x) \in SessionFields
  <1>1. \A n \in Nat : n <= MaxU8 => Field("ntypes", 1, n) \in Fields /\ Field("vcount", 1, n) \in Fields
    BY ValFacts DEF Field, Fields, Narrow, Handlers
  <1>2. \A n \in Nat : n <= MaxU16 => Field("ardparams", 4, n) \in Fields
    BY ValFacts DEF Field, Fields, Narrow, Handlers
  <1>3. \A x \in FenceHeads : x.len <= MaxU8 => Field("fencehead", 8, x) \in Fields
    BY ValFacts DEF Field, Fields, Narrow, Handlers, FenceHeads
  <1>4. /\ \A len, val : /\ Field("ntypes", len, val).h \notin SessionHandlers
                         /\ Field("vcount", len, val).h \notin SessionHandlers
                         /\ Field("ardparams", len, val).h \notin SessionHandlers
                         /\ Field("fencehead", len, val).h \in SessionHandlers
    BY DEF Field, SessionHandlers
  <1> QED
    BY <1>1, <1>2, <1>3, <1>4 DEF OtherFields, SessionFields

\* A set of security types has at most 255 members, and is empty when it has none.
LEMMA OfferFacts ==
  ASSUME NEW o \in Offers
  PROVE  /\ o \in SUBSET Nat /\ o \in Vals /\ Cardinality(o) \in Nat /\ Cardinality(o) <= MaxU8
         /\ o # {} => Cardinality(o) > 0
  <1> DEFINE bytes == 1..MaxU8
  <1>1. o \subseteq bytes /\ IsFiniteSet(bytes) /\ Cardinality(bytes) = MaxU8
    <2>1. \A n \in Nat : IsFiniteSet(1..n) /\ Cardinality(1..n) = n
      <3>1. SUFFICES ASSUME NEW n \in Nat PROVE IsFiniteSet(1..n) /\ Cardinality(1..n) = n
        OBVIOUS
      <3>2. 1 \in Int /\ n \in Int /\ (IF 1 > n THEN 0 ELSE n - 1 + 1) = n
        OBVIOUS
      <3>3. IsFiniteSet(1..n) /\ Cardinality(1..n) = (IF 1 > n THEN 0 ELSE n - 1 + 1)
        BY <3>2, FS_Interval, Zenon
      <3> QED
        BY <3>2, <3>3
    <2>2. MaxU8 \in Nat /\ o \subseteq 1..MaxU8
      BY OfferAssumption DEF MaxU8
    <2> QED
      BY <2>1, <2>2
  <1>4. o \in SUBSET Nat
    BY <1>1
  <1> HIDE DEF bytes
  <1>2. IsFiniteSet(o) /\ Cardinality(o) <= MaxU8
    BY <1>1, FS_Subset
  <1>3. Cardinality(o) \in Nat /\ Cardinality(o) <= MaxU8 /\ (Cardinality(o) = 0 <=> o = {})
    BY <1>2, FS_CardinalityType, FS_EmptySet
  <1>5. o \in Vals
    BY <1>4, ValFacts
  <1>6. o # {} => Cardinality(o) > 0
    BY <1>3
  <1> QED
    BY <1>3, <1>4, <1>5, <1>6

LEMMA SubtypeFacts ==
  ASSUME NEW o \in Subtypes
  PROVE  /\ o \in Vals /\ Cardinality(o) \in Nat /\ Cardinality(o) <= MaxU8
         /\ 4 * Cardinality(o) \in Nat
         /\ IF o = {} THEN Cardinality(o) = 0 ELSE Cardinality(o) > 0
  <1>1. IsFiniteSet(o) /\ Cardinality(o) <= MaxU8
    BY SubtypeAssumption
  <1>2. Cardinality(o) \in Nat /\ (Cardinality(o) = 0 <=> o = {})
    BY <1>1, FS_CardinalityType, FS_EmptySet
  <1> QED
    BY <1>1, <1>2, ValFacts

LEMMA LenFacts ==
  /\ Lens \subseteq Nat /\ Lengths \subseteq Nat /\ Reasons \subseteq Nat
  /\ Limit \in Nat /\ Limit + 1 \in Nat /\ Limit >= MaxU16
  BY LengthAssumption, LimitAssumption DEF Lens

LEMMA VersionStep ==
  ASSUME Typed, NEW v \in Versions, SrvVersion(v)
  PROVE  Frame /\ Sound
  <1> USE DEF SrvOnly, Speaks, Say, Breaks
  <1>1. Frame
    BY DEF SrvVersion, Frame, InSession, Srv
  <1>2. Sound
    <2>1. Field("initial", 12, v) \in Fields /\ Field("initial", 12, BadHeader) \in Fields
      <3>1. v \in Nat /\ BadHeader \in Nat /\ "initial" \in Handlers
        BY VersionAssumption DEF BadHeader, Handlers
      <3> QED
        BY <3>1, ValFacts, FieldFacts
    <2> QED
      BY <2>1, LongerFacts DEF SrvVersion, Sound, Typed, TypeOK
  <1> QED
    BY <1>1, <1>2

LEMMA HearStep ==
  ASSUME Typed, SrvHear
  PROVE  Frame /\ Sound
  <1> USE DEF SrvOnly, Speaks, Say, Sends, Breaks, OneOf, Length
  <1>1. Frame
    BY DEF SrvHear, Frame, InSession, Srv
  <1>4. Sound
    BY TypedServer, LongerFacts DEF SrvHear, Sound
  <1> QED
    BY <1>1, <1>4

LEMMA OfferStep ==
  ASSUME Typed, NEW offer \in Offers, NEW len \in Lens, SrvOffer(offer, len)
  PROVE  Frame /\ Sound
  <1> USE DEF SrvOnly, Speaks, Say, Sends, Breaks, OneOf, Length
  <1>1. Frame
    BY DEF SrvOffer, Frame, InSession, Srv
  <1>2. /\ Field("ntypes", 1, Cardinality(offer)) \in Fields
        /\ Field("types", Cardinality(offer), offer) \in Fields
        /\ Field("ntypes", 1, 0) \in Fields
        /\ Field("connfailed", 4, len) \in Fields
        /\ Field("connmsg", len, 0) \in Fields
    <2>1. Field("ntypes", 1, Cardinality(offer)) \in Fields
      BY OfferFacts, CountFacts
    <2>2. Field("types", Cardinality(offer), offer) \in Fields
      BY OfferFacts, LenFacts, ValFacts, FieldFacts DEF Handlers, Words
    <2>3. Field("ntypes", 1, 0) \in Fields
      BY CountFacts DEF MaxU8
    <2>4. Field("connfailed", 4, len) \in Fields
      BY OfferFacts, LenFacts, ValFacts, FieldFacts DEF Handlers, Words
    <2>5. Field("connmsg", len, 0) \in Fields
      BY OfferFacts, LenFacts, ValFacts, FieldFacts DEF Handlers, Words
    <2> QED
      BY <2>1, <2>2, <2>3, <2>4, <2>5
  <1>3. Longer
    <2> HIDE DEF SrvOnly, Speaks, Say, Sends, Breaks, OneOf, Length
    <2>1. \/ Say(<<Field("ntypes", 1, Cardinality(offer)), Field("types", Cardinality(offer), offer)>>, "choice", "chosen")
          \/ Say(<<Field("ntypes", 1, 0), Field("connfailed", 4, len), Field("connmsg", len, 0)>>, "-", "closed")
      BY DEF SrvOffer
    <2>2. \/ wire' = wire \o <<Field("ntypes", 1, Cardinality(offer)), Field("types", Cardinality(offer), offer)>>
          \/ wire' = wire \o <<Field("ntypes", 1, 0), Field("connfailed", 4, len), Field("connmsg", len, 0)>>
      BY <2>1 DEF Say
    <2> QED
      BY <1>2, <2>2, LongerFacts
  <1>4. srv' = [at |-> srv'.at, hears |-> srv'.hears] /\ faulty' \in Faults \cup {"none"}
    BY TypedServer DEF SrvOffer
  <1>5. sent' \in [messages : Nat, updates : Nat, rects : Nat, fences : Nat] /\ left' \in 0..MaxRects
    BY TypedServer DEF SrvOffer
  <1>6. Sound
    BY <1>3, <1>4, <1>5 DEF Sound
  <1> QED
    BY <1>1, <1>6

LEMMA ChosenStep ==
  ASSUME Typed, SrvChosen
  PROVE  Frame /\ Sound
  <1> USE DEF SrvOnly, Speaks, Say, Sends, Breaks, OneOf, Length
  <1>1. Frame
    BY DEF SrvChosen, Frame, InSession, Srv
  <1>4. Sound
    BY TypedServer, LongerFacts DEF SrvChosen, Sound
  <1> QED
    BY <1>1, <1>4

LEMMA AuthStep ==
  ASSUME Typed, NEW type \in Nat, NEW len \in Lens, SrvAuth(type, len)
  PROVE  Frame /\ Sound
  <1> USE DEF SrvOnly, Speaks, Say, Sends, Breaks, OneOf, Length
  <1>1. Frame
    BY DEF SrvAuth, Frame, InSession, Srv
  <1>2. /\ Field("auth", 4, type) \in Fields
        /\ Field("auth", 4, 0) \in Fields
        /\ Field("connfailed", 4, len) \in Fields
        /\ Field("connmsg", len, 0) \in Fields
    <2>1. Field("auth", 4, type) \in Fields
      BY LenFacts, ValFacts, FieldFacts DEF Handlers, Words
    <2>2. Field("auth", 4, 0) \in Fields
      BY LenFacts, ValFacts, FieldFacts DEF Handlers, Words
    <2>3. Field("connfailed", 4, len) \in Fields
      BY LenFacts, ValFacts, FieldFacts DEF Handlers, Words
    <2>4. Field("connmsg", len, 0) \in Fields
      BY LenFacts, ValFacts, FieldFacts DEF Handlers, Words
    <2> QED
      BY <2>1, <2>2, <2>3, <2>4
  <1>3. Longer
    <2> HIDE DEF SrvOnly, Speaks, Say, Sends, Breaks, OneOf, Length
    <2>1. \/ Say(<<Field("auth", 4, type)>>, "-", "chosen")
          \/ Say(<<Field("auth", 4, 0), Field("connfailed", 4, len), Field("connmsg", len, 0)>>, "-", "closed")
      BY DEF SrvAuth
    <2>2. \/ wire' = wire \o <<Field("auth", 4, type)>>
          \/ wire' = wire \o <<Field("auth", 4, 0), Field("connfailed", 4, len), Field("connmsg", len, 0)>>
      BY <2>1 DEF Say
    <2> QED
      BY <1>2, <2>2, LongerFacts
  <1>4. srv' = [at |-> srv'.at, hears |-> srv'.hears] /\ faulty' \in Faults \cup {"none"}
    BY TypedServer DEF SrvAuth
  <1>5. sent' \in [messages : Nat, updates : Nat, rects : Nat, fences : Nat] /\ left' \in 0..MaxRects
    BY TypedServer DEF SrvAuth
  <1>6. Sound
    BY <1>3, <1>4, <1>5 DEF Sound
  <1> QED
    BY <1>1, <1>6

LEMMA ChallengeStep ==
  ASSUME Typed, SrvChallenge
  PROVE  Frame /\ Sound
  <1> USE DEF SrvOnly, Speaks, Say, Sends, Breaks, OneOf, Length
  <1>1. Frame
    BY DEF SrvChallenge, Frame, InSession, Srv
  <1>2. Field("challenge", 16, 0) \in Fields
    BY LenFacts, ValFacts, FieldFacts DEF Handlers, Words
  <1>3. Longer
    BY <1>2, LongerFacts DEF SrvChallenge
  <1>4. srv' = [at |-> srv'.at, hears |-> srv'.hears] /\ faulty' \in Faults \cup {"none"}
    BY TypedServer DEF SrvChallenge
  <1>5. sent' \in [messages : Nat, updates : Nat, rects : Nat, fences : Nat] /\ left' \in 0..MaxRects
    BY TypedServer DEF SrvChallenge
  <1>6. Sound
    BY <1>3, <1>4, <1>5 DEF Sound
  <1> QED
    BY <1>1, <1>6

LEMMA ArdStep ==
  ASSUME Typed, NEW len \in Lengths \ {0}, SrvArd(len)
  PROVE  Frame /\ Sound
  <1> USE DEF SrvOnly, Speaks, Say, Sends, Breaks, OneOf, Length
  <1>1. Frame
    BY DEF SrvArd, Frame, InSession, Srv
  <1>2. /\ Field("ardparams", 4, len) \in Fields
        /\ Field("ardmodulus", len, 0) \in Fields
        /\ Field("ardkey", len, "ok") \in Fields
        /\ Field("ardkey", len, "weak") \in Fields
    <2>1. Field("ardparams", 4, len) \in Fields
      BY LenFacts, CountFacts DEF SrvArd
    <2>2. Field("ardmodulus", len, 0) \in Fields
      BY LenFacts, ValFacts, FieldFacts DEF Handlers, Words
    <2>3. Field("ardkey", len, "ok") \in Fields
      BY LenFacts, ValFacts, FieldFacts DEF Handlers, Words
    <2>4. Field("ardkey", len, "weak") \in Fields
      BY LenFacts, ValFacts, FieldFacts DEF Handlers, Words
    <2> QED
      BY <2>1, <2>2, <2>3, <2>4
  <1>3. Longer
    BY <1>2, LongerFacts DEF SrvArd
  <1>4. srv' = [at |-> srv'.at, hears |-> srv'.hears] /\ faulty' \in Faults \cup {"none"}
    BY TypedServer DEF SrvArd
  <1>5. sent' \in [messages : Nat, updates : Nat, rects : Nat, fences : Nat] /\ left' \in 0..MaxRects
    BY TypedServer DEF SrvArd
  <1>6. Sound
    BY <1>3, <1>4, <1>5 DEF Sound
  <1> QED
    BY <1>1, <1>6

LEMMA VeNCryptVersionStep ==
  ASSUME Typed, NEW v \in {1, 2}, SrvVeNCryptVersion(v)
  PROVE  Frame /\ Sound
  <1> USE DEF SrvOnly, Speaks, Say, Sends, Breaks, OneOf, Length
  <1>1. Frame
    BY DEF SrvVeNCryptVersion, Frame, InSession, Srv
  <1>2. Field("vversion", 2, v) \in Fields
    BY LenFacts, ValFacts, FieldFacts DEF Handlers, Words
  <1>3. Longer
    BY <1>2, LongerFacts DEF SrvVeNCryptVersion
  <1>4. srv' = [at |-> srv'.at, hears |-> srv'.hears] /\ faulty' \in Faults \cup {"none"}
    BY TypedServer DEF SrvVeNCryptVersion
  <1>5. sent' \in [messages : Nat, updates : Nat, rects : Nat, fences : Nat] /\ left' \in 0..MaxRects
    BY TypedServer DEF SrvVeNCryptVersion
  <1>6. Sound
    BY <1>3, <1>4, <1>5 DEF Sound
  <1> QED
    BY <1>1, <1>6

LEMMA SubtypesStep ==
  ASSUME Typed, NEW offered \in Subtypes, NEW refuses \in BOOLEAN, SrvSubtypes(offered, refuses)
  PROVE  Frame /\ Sound
  <1> USE DEF SrvOnly, Speaks, Say, Sends, Breaks, OneOf, Length
  <1>1. Frame
    BY DEF SrvSubtypes, Frame, InSession, Srv
  <1>2. /\ Field("vack", 1, 255) \in Fields
        /\ Field("vack", 1, 0) \in Fields
        /\ Field("vcount", 1, Cardinality(offered)) \in Fields
        /\ Field("vsubtypes", 4 * Cardinality(offered), offered) \in Fields
    <2>1. Field("vack", 1, 255) \in Fields
      BY SubtypeFacts, ValFacts, FieldFacts DEF Handlers, Words
    <2>2. Field("vack", 1, 0) \in Fields
      BY SubtypeFacts, ValFacts, FieldFacts DEF Handlers, Words
    <2>3. Field("vcount", 1, Cardinality(offered)) \in Fields
      BY SubtypeFacts, CountFacts
    <2>4. Field("vsubtypes", 4 * Cardinality(offered), offered) \in Fields
      BY SubtypeFacts, ValFacts, FieldFacts DEF Handlers, Words
    <2> QED
      BY <2>1, <2>2, <2>3, <2>4
  <1>3. Longer
    <2>1. \/ wire' = wire \o <<Field("vack", 1, 255)>>
          \/ wire' = wire \o <<Field("vack", 1, 0), Field("vcount", 1, Cardinality(offered))>>
          \/ wire' = wire \o <<Field("vack", 1, 0), Field("vcount", 1, Cardinality(offered)),
                               Field("vsubtypes", 4 * Cardinality(offered), offered)>>
      <3>1. CASE offered = {}
        BY <3>1, PairEmpty DEF SrvSubtypes
      <3>2. CASE offered # {}
        <4> DEFINE list == IF offered = {} THEN <<>>
                           ELSE <<Field("vsubtypes", 4 * Cardinality(offered), offered)>>
        <4>1. \/ wire' = wire \o <<Field("vack", 1, 255)>>
              \/ wire' = wire \o (<<Field("vack", 1, 0), Field("vcount", 1, Cardinality(offered))>> \o list)
          BY DEF SrvSubtypes
        <4>2. list = <<Field("vsubtypes", 4 * Cardinality(offered), offered)>>
          BY <3>2
        <4>3. <<Field("vack", 1, 0), Field("vcount", 1, Cardinality(offered))>> \o list
                = <<Field("vack", 1, 0), Field("vcount", 1, Cardinality(offered)),
                    Field("vsubtypes", 4 * Cardinality(offered), offered)>>
          <5> HIDE DEF list
          <5> QED
            BY <4>2, TripleConcat
        <4> HIDE DEF list
        <4> QED
          BY <4>1, <4>3
      <3> QED
        BY <3>1, <3>2
    <2> QED
      BY <1>2, <2>1, LongerFacts
  <1>4. srv' = [at |-> srv'.at, hears |-> srv'.hears] /\ faulty' \in Faults \cup {"none"}
    BY TypedServer DEF SrvSubtypes
  <1>5. sent' \in [messages : Nat, updates : Nat, rects : Nat, fences : Nat] /\ left' \in 0..MaxRects
    BY TypedServer DEF SrvSubtypes
  <1>6. Sound
    BY <1>3, <1>4, <1>5 DEF Sound
  <1> QED
    BY <1>1, <1>6

LEMMA SubtypeAckStep ==
  ASSUME Typed, NEW refuses \in BOOLEAN, SrvSubtypeAck(refuses)
  PROVE  Frame /\ Sound
  <1> USE DEF SrvOnly, Speaks, Say, Sends, Breaks, OneOf, Length
  <1>1. Frame
    BY DEF SrvSubtypeAck, Frame, InSession, Srv
  <1>2. /\ Field("vchosen", 1, 0) \in Fields
        /\ Field("vchosen", 1, 1) \in Fields
        /\ Field("early", 2, 0) \in Fields
    <2>1. Field("vchosen", 1, 0) \in Fields
      BY LenFacts, ValFacts, FieldFacts DEF Handlers, Words
    <2>2. Field("vchosen", 1, 1) \in Fields
      BY LenFacts, ValFacts, FieldFacts DEF Handlers, Words
    <2>3. Field("early", 2, 0) \in Fields
      BY LenFacts, ValFacts, FieldFacts DEF Handlers, Words
    <2> QED
      BY <2>1, <2>2, <2>3
  <1>3. Longer
    BY <1>2, LongerFacts DEF SrvSubtypeAck
  <1>4. srv' = [at |-> srv'.at, hears |-> srv'.hears] /\ faulty' \in Faults \cup {"none"}
    BY TypedServer DEF SrvSubtypeAck
  <1>5. sent' \in [messages : Nat, updates : Nat, rects : Nat, fences : Nat] /\ left' \in 0..MaxRects
    BY TypedServer DEF SrvSubtypeAck
  <1>6. Sound
    BY <1>3, <1>4, <1>5 DEF Sound
  <1> QED
    BY <1>1, <1>6

LEMMA VeNCryptAuthStep ==
  ASSUME Typed, SrvVeNCryptAuth
  PROVE  Frame /\ Sound
  <1> USE DEF SrvOnly, Speaks, Say, Sends, Breaks, OneOf, Length
  <1>1. Frame
    BY DEF SrvVeNCryptAuth, Frame, InSession, Srv
  <1>2. Field("result", 4, 0) \in Fields
    BY LenFacts, ValFacts, FieldFacts DEF Handlers, Words
  <1>3. Longer
    BY <1>2, LongerFacts DEF SrvVeNCryptAuth
  <1>4. srv' = [at |-> srv'.at, hears |-> srv'.hears] /\ faulty' \in Faults \cup {"none"}
    BY TypedServer DEF SrvVeNCryptAuth
  <1>5. sent' \in [messages : Nat, updates : Nat, rects : Nat, fences : Nat] /\ left' \in 0..MaxRects
    BY TypedServer DEF SrvVeNCryptAuth
  <1>6. Sound
    BY <1>3, <1>4, <1>5 DEF Sound
  <1> QED
    BY <1>1, <1>6

LEMMA ResultStep ==
  ASSUME Typed, NEW result \in Results, NEW len \in Reasons \cup {Limit + 1}, SrvResult(result, len)
  PROVE  Frame /\ Sound
  <1> USE DEF SrvOnly, Speaks, Say, Sends, Breaks, OneOf, Length
  <1>1. Frame
    BY DEF SrvResult, Frame, InSession, Srv
  <1>2. /\ Field("result", 4, result) \in Fields
        /\ Field("reasonlen", 4, len) \in Fields
        /\ Field("reason", len, 0) \in Fields
    <2>1. {"result", "reasonlen", "reason"} \subseteq
             (Handlers \cup {"early"}) \ {"ntypes", "vcount", "ardparams", "fencehead"}
      BY DEF Handlers
    <2>2. len \in Nat /\ len \in Vals /\ 4 \in Nat /\ 0 \in Vals
      BY LenFacts, ValFacts
    <2>3. result \in Vals
      <3>1. result \in Words
        BY ResultAssumption DEF Words
      <3> QED
        BY <3>1, ValFacts
    <2> QED
      BY <2>1, <2>2, <2>3, FieldFacts
  <1>3. Longer
    <2> HIDE DEF SrvOnly, Speaks, Say, Sends, Breaks, OneOf, Length
    <2>1. \/ Say(<<Field("result", 4, result)>>, "init", "init")
          \/ Say(<<Field("result", 4, result)>>, "-", "closed")
          \/ Say(<<Field("result", 4, result), Field("reasonlen", 4, len), Field("reason", len, 0)>>, "-", "closed")
      BY DEF SrvResult
    <2>2. \/ wire' = wire \o <<Field("result", 4, result)>>
          \/ wire' = wire \o <<Field("result", 4, result), Field("reasonlen", 4, len), Field("reason", len, 0)>>
      BY <2>1 DEF Say
    <2> QED
      BY <1>2, <2>2, LongerFacts
  <1>4. srv' = [at |-> srv'.at, hears |-> srv'.hears] /\ faulty' \in Faults \cup {"none"}
    BY TypedServer DEF SrvResult
  <1>5. sent' \in [messages : Nat, updates : Nat, rects : Nat, fences : Nat] /\ left' \in 0..MaxRects
    BY TypedServer DEF SrvResult
  <1>6. Sound
    BY <1>3, <1>4, <1>5 DEF Sound
  <1> QED
    BY <1>1, <1>6

LEMMA ChatterStep ==
  ASSUME Typed, SrvChatter
  PROVE  Frame /\ Sound
  <1> USE DEF SrvOnly, Speaks, Say, Sends, Breaks, OneOf, Length
  <1>1. Frame
    BY DEF SrvChatter, Frame, InSession, Srv
  <1>2. Field("finished", want.len, 0) \in Fields
    <2>1. "finished" \in (Handlers \cup {"early"}) \ {"ntypes", "vcount", "ardparams", "fencehead"}
      BY DEF Handlers
    <2>2. want.len \in Nat /\ 0 \in Vals
      BY ValFacts DEF Typed, TypeOK
    <2> QED
      BY <2>1, <2>2, FieldFacts
  <1>3. Longer
    BY <1>2, LongerFacts DEF SrvChatter
  <1>4. srv' = [at |-> srv'.at, hears |-> srv'.hears] /\ faulty' \in Faults \cup {"none"}
    BY TypedServer DEF SrvChatter
  <1>5. sent' \in [messages : Nat, updates : Nat, rects : Nat, fences : Nat] /\ left' \in 0..MaxRects
    BY TypedServer DEF SrvChatter
  <1>6. Sound
    BY <1>3, <1>4, <1>5 DEF Sound
  <1> QED
    BY <1>1, <1>6

LEMMA InitStep ==
  ASSUME Typed, NEW len \in Lens, SrvInit(len)
  PROVE  Frame /\ Sound
  <1> USE DEF SrvOnly, Speaks, Say, Sends, Breaks, OneOf, Length
  <1>1. Frame
    BY DEF SrvInit, Frame, InSession, Srv
  <1>2. /\ Field("serverinit", 24, len) \in Fields
        /\ Field("servername", len, 0) \in Fields
    <2>1. Field("serverinit", 24, len) \in Fields
      BY LenFacts, ValFacts, FieldFacts DEF Handlers, Words
    <2>2. Field("servername", len, 0) \in Fields
      BY LenFacts, ValFacts, FieldFacts DEF Handlers, Words
    <2> QED
      BY <2>1, <2>2
  <1>3. Longer
    BY <1>2, LongerFacts DEF SrvInit
  <1>4. srv' = [at |-> srv'.at, hears |-> srv'.hears] /\ faulty' \in Faults \cup {"none"}
    BY TypedServer DEF SrvInit
  <1>5. sent' \in [messages : Nat, updates : Nat, rects : Nat, fences : Nat] /\ left' \in 0..MaxRects
    BY TypedServer DEF SrvInit
  <1>6. Sound
    BY <1>3, <1>4, <1>5 DEF Sound
  <1> QED
    BY <1>1, <1>6

LEMMA MessageStep ==
  ASSUME Typed, NEW kind \in Messages, NEW len \in Lens \cup {Limit}, NEW request \in BOOLEAN,
         SrvMessage(kind, len, request)
  PROVE  Frame /\ Sound
  <1> USE DEF SrvOnly, Speaks, Say, Sends, Breaks, OneOf, Length
  <1>1. Frame
    BY DEF SrvMessage, Frame, InSession, Srv
  <1>2. /\ Field("message", 1, "bell") \in Fields
        /\ Field("message", 1, "text") \in Fields
        /\ Field("message", 1, "colourmap") \in Fields
        /\ Field("message", 1, "fence") \in Fields
        /\ Field("message", 1, "unknown") \in Fields
        /\ Field("texthead", 7, len) \in Fields
        /\ Field("text", len, 0) \in Fields
        /\ Field("maphead", 5, len) \in Fields
        /\ Field("map", 6 * len, 0) \in Fields
        /\ kind = "fence" /\ len <= MaxU8 => Field("fencehead", 8, [len |-> len, request |-> request]) \in Fields
        /\ Field("fencerequest", len, 0) \in Fields
        /\ Field("fence", len, 0) \in Fields
    <2> HIDE DEF SrvOnly, Speaks, Say, Sends, Breaks, OneOf, Length
    <2>13. /\ len \in Nat /\ 6 * len \in Nat /\ 1 \in Nat /\ 5 \in Nat /\ 7 \in Nat
           /\ 0 \in Vals /\ len \in Vals
           /\ "bell" \in Vals /\ "text" \in Vals /\ "colourmap" \in Vals /\ "fence" \in Vals /\ "unknown" \in Vals
      BY LenFacts, ValFacts DEF Words
    <2>14. {"message", "texthead", "text", "maphead", "map", "fencerequest", "fence"}
             \subseteq (Handlers \cup {"early"}) \ {"ntypes", "vcount", "ardparams", "fencehead"}
      BY DEF Handlers
    <2>1. Field("message", 1, "bell") \in Fields
      BY <2>13, <2>14, FieldFacts
    <2>2. Field("message", 1, "text") \in Fields
      BY <2>13, <2>14, FieldFacts
    <2>3. Field("message", 1, "colourmap") \in Fields
      BY <2>13, <2>14, FieldFacts
    <2>4. Field("message", 1, "fence") \in Fields
      BY <2>13, <2>14, FieldFacts
    <2>5. Field("message", 1, "unknown") \in Fields
      BY <2>13, <2>14, FieldFacts
    <2>6. Field("texthead", 7, len) \in Fields
      BY <2>13, <2>14, FieldFacts
    <2>7. Field("text", len, 0) \in Fields
      BY <2>13, <2>14, FieldFacts
    <2>8. Field("maphead", 5, len) \in Fields
      BY <2>13, <2>14, FieldFacts
    <2>9. Field("map", 6 * len, 0) \in Fields
      BY <2>13, <2>14, FieldFacts
    <2>10. kind = "fence" /\ len <= MaxU8 => Field("fencehead", 8, [len |-> len, request |-> request]) \in Fields
      BY <2>13, CountFacts DEF FenceHeads
    <2>11. Field("fencerequest", len, 0) \in Fields
      BY <2>13, <2>14, FieldFacts
    <2>12. Field("fence", len, 0) \in Fields
      BY <2>13, <2>14, FieldFacts
    <2> QED
      BY <2>1, <2>2, <2>3, <2>4, <2>5, <2>6, <2>7, <2>8, <2>9, <2>10, <2>11, <2>12
  <1>3. Longer
    <2> DEFINE start == Field("message", 1, "fence")
               head == Field("fencehead", 8, [len |-> len, request |-> request])
               tail == IF len = 0 THEN <<>>
                       ELSE <<Field(IF request THEN "fencerequest" ELSE "fence", len, 0)>>
    <2>1. \/ wire' = wire \o <<Field("message", 1, "bell")>>
          \/ wire' = wire \o <<Field("message", 1, "unknown")>>
          \/ wire' = wire \o <<Field("message", 1, "text"), Field("texthead", 7, len), Field("text", len, 0)>>
          \/ wire' = wire \o <<Field("message", 1, "colourmap"), Field("maphead", 5, len), Field("map", 6 * len, 0)>>
          \/ kind = "fence" /\ len <= MaxU8 /\ wire' = wire \o (<<start, head>> \o tail)
      <3> HIDE DEF SrvOnly, Speaks, Say, Sends, Breaks, OneOf, Length, start, head, tail
      <3>1. \/ Sends(<<Field("message", 1, "bell")>>)
            \/ Sends(<<Field("message", 1, "unknown")>>)
            \/ /\ kind = "text"
               /\ Sends(<<Field("message", 1, kind), Field("texthead", 7, len), Field("text", len, 0)>>)
            \/ /\ kind = "colourmap"
               /\ Sends(<<Field("message", 1, kind), Field("maphead", 5, len), Field("map", 6 * len, 0)>>)
            \/ /\ kind = "fence" /\ len <= MaxU8
               /\ Sends(<<Field("message", 1, kind), head>> \o tail)
        BY DEF SrvMessage, head, tail
      <3> QED
        BY <3>1 DEF Sends, start
    <2>2. \/ <<start, head>> \o tail = <<start, head>>
          \/ <<start, head>> \o tail = <<start, head, Field("fencerequest", len, 0)>>
          \/ <<start, head>> \o tail = <<start, head, Field("fence", len, 0)>>
      <3> HIDE DEF start, head
      <3>1. CASE len = 0
        BY <3>1, PairEmpty
      <3>2. CASE len # 0 /\ request
        BY <3>2, TripleConcat
      <3>3. CASE len # 0 /\ ~request
        BY <3>3, TripleConcat
      <3> QED
        BY <3>1, <3>2, <3>3
    <2> HIDE DEF tail
    <2> QED
      BY <1>2, <2>1, <2>2, LongerFacts
  <1>4. srv' = [at |-> srv'.at, hears |-> srv'.hears] /\ faulty' \in Faults \cup {"none"}
    BY TypedServer DEF SrvMessage
  <1>5. sent' \in [messages : Nat, updates : Nat, rects : Nat, fences : Nat] /\ left' \in 0..MaxRects
    <2>1. Tally(1, 0, 0, 1) \/ Tally(1, 0, 0, 0)
      BY DEF SrvMessage
    <2>2. left' = left
      BY DEF SrvMessage
    <2> QED
      BY <2>1, <2>2, TypedServer DEF Tally
  <1>6. Sound
    BY <1>3, <1>4, <1>5 DEF Sound
  <1> QED
    BY <1>1, <1>6

LEMMA UpdateStep ==
  ASSUME Typed, NEW n \in 0..MaxRects, SrvUpdate(n)
  PROVE  Frame /\ Sound
  <1> USE DEF SrvOnly, Speaks, Say, Sends, Breaks, OneOf, Length
  <1>1. Frame
    BY DEF SrvUpdate, Frame, InSession, Srv
  <1>2. /\ Field("message", 1, "update") \in Fields
        /\ Field("update", 3, n) \in Fields
    <2>1. Field("message", 1, "update") \in Fields
      BY LenFacts, ValFacts, FieldFacts DEF Handlers, Words
    <2>2. Field("update", 3, n) \in Fields
      BY LenFacts, ValFacts, FieldFacts DEF Handlers, Words
    <2> QED
      BY <2>1, <2>2
  <1>3. Longer
    BY <1>2, LongerFacts DEF SrvUpdate
  <1>4. srv' = [at |-> srv'.at, hears |-> srv'.hears] /\ faulty' \in Faults \cup {"none"}
    BY TypedServer DEF SrvUpdate
  <1>5. sent' \in [messages : Nat, updates : Nat, rects : Nat, fences : Nat] /\ left' \in 0..MaxRects
    BY TypedServer DEF SrvUpdate, Tally
  <1>6. Sound
    BY <1>3, <1>4, <1>5 DEF Sound
  <1> QED
    BY <1>1, <1>6

LEMMA RectStep ==
  ASSUME Typed, NEW enc \in Encodings, NEW len \in Lens, SrvRect(enc, len)
  PROVE  Frame /\ Sound
  <1> USE DEF SrvOnly, Speaks, Say, Sends, Breaks, OneOf, Length
  <1>1. Frame
    BY DEF SrvRect, Frame, InSession, Srv
  <1>2. /\ Field("rect", 12, [enc |-> "control", len |-> 0]) \in Fields
        /\ Field("rect", 12, [enc |-> "last", len |-> 0]) \in Fields
        /\ Field("rect", 12, [enc |-> "unknown", len |-> 0]) \in Fields
        /\ Field("rect", 12, [enc |-> "pixels", len |-> len]) \in Fields
        /\ Field("pixels", len, "ok") \in Fields
        /\ Field("pixels", len, "broken") \in Fields
    <2>1. Field("rect", 12, [enc |-> "control", len |-> 0]) \in Fields
      BY LenFacts, ValFacts, FieldFacts DEF Handlers, Words, RectHeads
    <2>2. Field("rect", 12, [enc |-> "last", len |-> 0]) \in Fields
      BY LenFacts, ValFacts, FieldFacts DEF Handlers, Words, RectHeads
    <2>3. Field("rect", 12, [enc |-> "unknown", len |-> 0]) \in Fields
      BY LenFacts, ValFacts, FieldFacts DEF Handlers, Words, RectHeads
    <2>4. Field("rect", 12, [enc |-> "pixels", len |-> len]) \in Fields
      BY LenFacts, ValFacts, FieldFacts DEF Handlers, Words, RectHeads
    <2>5. Field("pixels", len, "ok") \in Fields
      BY LenFacts, ValFacts, FieldFacts DEF Handlers, Words, RectHeads
    <2>6. Field("pixels", len, "broken") \in Fields
      BY LenFacts, ValFacts, FieldFacts DEF Handlers, Words, RectHeads
    <2> QED
      BY <2>1, <2>2, <2>3, <2>4, <2>5, <2>6
  <1>3. Longer
    BY <1>2, LongerFacts, ClientBounds DEF SrvRect
  <1>4. srv' = [at |-> srv'.at, hears |-> srv'.hears] /\ faulty' \in Faults \cup {"none"}
    BY TypedServer DEF SrvRect
  <1>5. sent' \in [messages : Nat, updates : Nat, rects : Nat, fences : Nat] /\ left' \in 0..MaxRects
    <2>1. \E u \in {0, 1}, r \in {0, 1} : Tally(0, u, r, 0)
      BY DEF SrvRect
    <2>2. sent' \in [messages : Nat, updates : Nat, rects : Nat, fences : Nat]
      BY <2>1, TypedServer DEF Tally
    <2>3. left' = 0 \/ (left' = left - 1 /\ left > 0)
      BY DEF SrvRect
    <2> QED
      BY <2>2, <2>3, TypedServer, ClientBounds
  <1>6. Sound
    BY <1>3, <1>4, <1>5 DEF Sound
  <1> QED
    BY <1>1, <1>6

LEMMA ServerStep ==
  ASSUME Typed, SrvShake \/ SrvSession
  PROVE  Frame /\ Sound
  <1>1. CASE SrvHear \/ SrvChosen \/ SrvChallenge \/ SrvVeNCryptAuth \/ SrvChatter
    BY <1>1, HearStep, ChosenStep, ChallengeStep, VeNCryptAuthStep, ChatterStep
  <1>2. CASE \E v \in Versions : SrvVersion(v)
    BY <1>2, VersionStep
  <1>3. CASE \E offer \in Offers, len \in Lens : SrvOffer(offer, len)
    BY <1>3, OfferStep
  <1>4. CASE \E type \in (UNION Offers) \cup (IF {} \in Offers THEN {0} ELSE {}), len \in Lens : SrvAuth(type, len)
    <2> DEFINE U == UNION Offers
    <2>1. \A type \in U : type \in Nat
      BY OfferFacts
    <2>2. \A type \in U \cup (IF {} \in Offers THEN {0} ELSE {}) : type \in Nat
      <3> HIDE DEF U
      <3> QED
        BY <2>1
    <2>3. PICK type \in U \cup (IF {} \in Offers THEN {0} ELSE {}), len \in Lens : SrvAuth(type, len)
      BY <1>4
    <2>4. type \in Nat
      BY <2>2
    <2> QED
      BY <2>3, <2>4, AuthStep
  <1>5. CASE \E len \in Lengths \ {0} : SrvArd(len)
    BY <1>5, ArdStep
  <1>6. CASE \E v \in {1, 2} : SrvVeNCryptVersion(v)
    BY <1>6, VeNCryptVersionStep
  <1>7. CASE \E offered \in Subtypes, refuses \in BOOLEAN : SrvSubtypes(offered, refuses)
    BY <1>7, SubtypesStep
  <1>8. CASE \E refuses \in BOOLEAN : SrvSubtypeAck(refuses)
    BY <1>8, SubtypeAckStep
  <1>9. CASE \E result \in Results, len \in Reasons \cup {Limit + 1} : SrvResult(result, len)
    BY <1>9, ResultStep
  <1>10. CASE \E len \in Lens : SrvInit(len)
    BY <1>10, InitStep
  <1>11. CASE \E kind \in Messages, len \in Lens \cup {Limit}, request \in BOOLEAN : SrvMessage(kind, len, request)
    BY <1>11, MessageStep
  <1>12. CASE \E n \in 0..MaxRects : SrvUpdate(n)
    BY <1>12, UpdateStep
  <1>13. CASE \E enc \in Encodings, len \in Lens : SrvRect(enc, len)
    BY <1>13, RectStep
  <1> QED
    BY <1>1, <1>2, <1>3, <1>4, <1>5, <1>6, <1>7, <1>8, <1>9, <1>10, <1>11, <1>12, <1>13
       DEF SrvShake, SrvSession

-----------------------------------------------------------------------------
(* The server, as long as the client goes on *)

\* What is left to show of a step that sends: the path it makes, and where it ends.
LEMMA SaidAlive ==
  ASSUME Alive, UNCHANGED <<client, conn, c2s>>, InSession' <=> InSession, Ordered',
         NEW q, NEW r, Here(q), Parses(q, wire', r), Meets(r)'
  PROVE  Alive'
  <1>1. Here(q)'
    BY DEF Here, client
  <1> QED
    BY <1>1 DEF Alive, client

\* Fields of the handshake, and of the session, leave the order as it was.
LEMMA OrderedMore ==
  ASSUME Typed, Ordered, InSession' <=> InSession,
         NEW f \in Fields, NEW g \in Fields, NEW h \in Fields,
         \A x \in {f, g, h} : x.h \in SessionHandlers <=> InSession,
         \/ wire' \in {wire \o <<f>>, wire \o <<f, g>>, wire \o <<f, g, h>>}
         \/ wire' = wire,
         (Srv("vchosen", "-") \/ Srv("vauth", "-"))' => wire' = <<>>
  PROVE  Ordered'
  <1> DEFINE T == IF InSession THEN SessionFields ELSE OtherFields
  <1>1. f \in T /\ g \in T /\ h \in T
    BY DEF SessionFields, OtherFields
  <1>2. wire \in Seq(T)
    BY DEF Ordered
  <1> HIDE DEF T
  <1>3. <<f>> \in Seq(T) /\ <<f, g>> \in Seq(T) /\ <<f, g, h>> \in Seq(T)
    BY <1>1
  <1>4. /\ wire \o <<f>> \in Seq(T) /\ wire \o <<f, g>> \in Seq(T)
        /\ wire \o <<f, g, h>> \in Seq(T)
    BY <1>2, <1>3, ConcatProperties
  <1>5. wire' \in Seq(T)
    BY <1>2, <1>4
  <1> QED
    BY <1>5 DEF Ordered, T

LEMMA VersionAlive ==
  ASSUME Typed, Alive, NEW v \in Versions, SrvVersion(v)
  PROVE  Alive'
  <1>1. PICK q, e : Here(q) /\ Parses(q, wire, e) /\ Meets(e)
    BY DEF Alive
  <1> USE DEF Srv
  <1>2. Srv("version", "-") /\ ~InSession /\ Srv("offer", "version")' /\ ~InSession'
    BY DEF SrvVersion, Speaks, Say, InSession
  <1>3. Agrees(e) /\ At(e, "initial", 12, <<>>)
    BY <1>1, <1>2 DEF Meets, GivenUp, Agrees, MeetsOpening, MeetsSecurity, MeetsResult, MeetsSession, InSession
  <1>4. v \in Nat \ {0} /\ BadHeader = 0
    BY VersionAssumption DEF BadHeader
  <1> DEFINE f == Field("initial", 12, v)
             bad == Field("initial", 12, BadHeader)
             stops == Station(FirstStop(Agree(v)), FirstLen(Agree(v)), <<M("version", Agree(v))>>,
                              e.n, Agree(v), e.s, e.g, e.k)
  <1>5. f \in Fields /\ bad \in Fields
    BY <1>4, ValFacts, FieldFacts DEF Handlers
  <1>6. /\ wire \in Seq(Fields) /\ Ordered /\ UNCHANGED <<client, conn, c2s>>
    BY DEF Typed, Alive, SrvVersion, SrvOnly
  <1>7. ASSUME NEW r, NEW x \in {f, bad}, wire' = wire \o <<x>>, Reads(e, x, r), Meets(r)'
        PROVE  Alive'
    <2>1. Parses(q, wire', r)
      BY <1>1, <1>5, <1>6, <1>7, ParsesSent
    <2>2. x \in Fields /\ x.h \notin SessionHandlers
      BY <1>5, <1>7 DEF Field, SessionHandlers
    <2>3. Ordered'
      BY <1>2, <1>6, <1>7, <2>2, OrderedMore
    <2> QED
      BY <1>1, <1>2, <1>6, <1>7, <2>1, <2>3, SaidAlive
  <1>8. CASE wire' = wire \o <<bad>> /\ faulty' = "header"
    <2>1. Reads(e, bad, Doomed("told"))
      BY <1>3 DEF Reads, ReadsOpening, At, Field
    <2>2. Meets(Doomed("told"))'
      BY <1>2, <1>8 DEF Meets, GivenUp, ShownFaults
    <2> QED
      BY <1>7, <1>8, <2>1, <2>2
  <1>9. CASE wire' = wire \o <<f>> /\ faulty' = "version" /\ Known(v) = {}
    <2>1. Reads(e, f, Doomed("escape"))
      BY <1>3, <1>4, <1>9 DEF Reads, ReadsOpening, At, Field
    <2>2. Meets(Doomed("escape"))'
      BY <1>2, <1>9 DEF Meets, GivenUp, Untold
    <2> QED
      BY <1>7, <1>9, <2>1, <2>2
  <1>10. CASE wire' = wire \o <<f>> /\ faulty' = faulty /\ Known(v) # {}
    <2>1. Reads(e, f, stops)
      BY <1>3, <1>4, <1>10 DEF Reads, ReadsOpening, At, Field
    <2>2. stops.v \in Nat /\ stops.v <= v
      BY <1>4, <1>10, AgreeFacts DEF Station
    <2>3. agreed' = v /\ left' = left /\ sent' = sent
      BY DEF SrvVersion
    <2>4. Agrees(stops)'
      <3>1. MeetsOpening(stops)'
        BY <1>2, <1>4, <2>2, <2>3 DEF MeetsOpening, At, Station
      <3>2. stops.h \notin Dooms /\ stops.n = e.n /\ stops.k = e.k
        BY DEF Station, Dooms, FirstStop
      <3> HIDE DEF stops
      <3> QED
        BY <1>2, <1>3, <1>10, <2>2, <2>3, <3>1, <3>2 DEF Agrees
    <2> QED
      BY <1>7, <1>10, <2>1, <2>4 DEF Meets
  <1> QED
    BY <1>8, <1>9, <1>10 DEF SrvVersion, Say, Breaks

\* A step of the handshake that sends one to three fields.
LEMMA ShakeSaid ==
  ASSUME Typed, Alive, UNCHANGED <<client, conn, c2s>>, ~InSession, ~InSession',
         ~Srv("vchosen", "-")', ~Srv("vauth", "-")',
         NEW f \in OtherFields, NEW g \in OtherFields, NEW h \in OtherFields,
         wire' \in {wire \o <<f>>, wire \o <<f, g>>, wire \o <<f, g, h>>},
         NEW q, NEW r, Here(q), Parses(q, wire', r), Meets(r)'
  PROVE  Alive'
  <1>1. f \in Fields /\ g \in Fields /\ h \in Fields
    BY DEF OtherFields
  <1>2. \A x \in {f, g, h} : x.h \in SessionHandlers <=> InSession
    BY DEF OtherFields
  <1>3. Ordered
    BY DEF Alive
  <1>4. Ordered'
    BY <1>1, <1>2, <1>3, OrderedMore
  <1> QED
    BY <1>4, SaidAlive

\* The client goes on from where it will be; the counts stay.
LEMMA MeetsOn ==
  ASSUME NEW e, Agrees(e), NEW r, r.n = e.n, r.v = e.v, r.k = e.k, r.h \notin Dooms,
         UNCHANGED <<agreed, left, sent, faulty>>, ~InSession, ~InSession',
         srv.hears = "-", srv.at # "version",
         (MeetsOpening(r) \/ MeetsSecurity(r) \/ MeetsResult(r))'
  PROVE  Meets(r)'
  BY DEF Meets, Agrees, Srv

LEMMA GoesFacts ==
  \A q, h, len, c : /\ Goes(q, h, len, c).h = h /\ Goes(q, h, len, c).len = len
                    /\ Goes(q, h, len, c).c = c /\ Goes(q, h, len, c).k = q.k
                    /\ Goes(q, h, len, c).n = q.n /\ Goes(q, h, len, c).v = q.v
                    /\ Goes(q, h, len, c).s = q.s /\ Goes(q, h, len, c).g = q.g
  BY DEF Goes, Station

LEMMA StartNoDoom ==
  ASSUME NEW t, NEW v
  PROVE  StartStop(t, v) \notin Dooms
  BY DEF StartStop, Dooms

LEMMA OtherFacts ==
  ASSUME NEW h \in (Handlers \ SessionHandlers) \ {"ntypes", "vcount", "ardparams"},
         NEW len \in Nat, NEW val \in Vals
  PROVE  /\ Field(h, len, val) \in OtherFields /\ Field(h, len, val) \in Fields
         /\ Field(h, len, val).h = h /\ Field(h, len, val).len = len /\ Field(h, len, val).val = val
  <1>1. Field(h, len, val) \in Fields
    BY FieldFacts DEF SessionHandlers
  <1> QED
    BY <1>1 DEF OtherFields, Field

\* A refusal: its length is more than the client takes, or it is read and told.
LEMMA ReadsRefusal ==
  ASSUME NEW e, e.h = "connfailed", e.len = 4, e.c = <<>>, NEW len
  PROVE  \E r2 : /\ Reads(e, Field("connfailed", 4, len), r2)
                 /\ Reads(r2, Field("connmsg", len, 0), Doomed("told"))
  <1>1. CASE requirePayload(len)
    <2>1. Reads(e, Field("connfailed", 4, len), Goes(e, "connmsg", len, <<>>))
      BY <1>1 DEF Reads, ReadsOpening, Field
    <2>2. Reads(Goes(e, "connmsg", len, <<>>), Field("connmsg", len, 0), Doomed("told"))
      BY GoesFacts DEF Reads, ReadsOpening, Field
    <2> QED
      BY <2>1, <2>2
  <1>2. CASE ~requirePayload(len)
    <2>1. Reads(e, Field("connfailed", 4, len), Doomed("told"))
      BY <1>2 DEF Reads, ReadsOpening, Field
    <2>2. Reads(Doomed("told"), Field("connmsg", len, 0), Doomed("told"))
      BY DEF Reads, Doomed
    <2> QED
      BY <2>1, <2>2
  <1> QED
    BY <1>1, <1>2

LEMMA OfferAlive ==
  ASSUME Typed, Alive, NEW offer \in Offers, NEW len \in Lens, SrvOffer(offer, len)
  PROVE  Alive'
  <1>1. PICK q, e : Here(q) /\ Parses(q, wire, e) /\ Meets(e)
    BY DEF Alive
  <1> USE DEF Srv
  <1>2. Srv("offer", "-") /\ ~InSession /\ ~InSession'
    BY DEF SrvOffer, Speaks, Say, InSession
  <1>3. Agrees(e) /\ e.v = agreed /\ e.v \in Nat /\ At(e, FirstStop(e.v), FirstLen(e.v), <<>>)
    BY <1>1, <1>2 DEF Meets, GivenUp, Agrees, MeetsOpening, MeetsSecurity, MeetsResult, MeetsSession, InSession
  <1>4. At(e, "ntypes", 1, <<>>)
    BY <1>3 DEF SrvOffer, FirstStop, FirstLen
  <1>5. /\ wire \in Seq(Fields) /\ UNCHANGED <<client, conn, c2s, agreed, left, sent>>
    BY DEF Typed, SrvOffer, SrvOnly
  <1>6. CASE offer # {}
    <2> DEFINE f == Field("ntypes", 1, Cardinality(offer))
               g == Field("types", Cardinality(offer), offer)
               valid == offer \cap SUPPORTED_AUTHS
               r1 == Goes(e, "types", Cardinality(offer), <<>>)
    <2>1. f \in OtherFields /\ g \in OtherFields /\ f \in Fields /\ g \in Fields
      BY OfferFacts, CountFacts, OtherFacts DEF Handlers, SessionHandlers
    <2>2. wire' = wire \o <<f, g>> /\ Srv("chosen", "choice")' /\ faulty' = faulty
      BY <1>6 DEF SrvOffer, Say
    <2>3. Reads(e, f, r1)
      BY <1>4, <1>6, OfferFacts DEF Reads, ReadsOpening, At, Field
    <2>4. ASSUME NEW r2, Reads(r1, g, r2), Meets(r2)' PROVE Alive'
      <3>1. Parses(q, wire', r2)
        BY <1>1, <1>5, <2>1, <2>2, <2>3, <2>4, ParsesSent
      <3> HIDE DEF f, g
      <3> QED
        BY <1>1, <1>2, <1>5, <2>1, <2>2, <2>4, <3>1, ShakeSaid
    <2>5. CASE valid = {}
      <3>1. Reads(r1, g, Doomed("told"))
        BY <2>5, GoesFacts DEF Reads, ReadsOpening, Field
      <3>2. Meets(Doomed("told"))'
        BY <1>3, <2>2 DEF Meets, GivenUp, ShownFaults, Agrees
      <3> QED
        BY <2>4, <3>1, <3>2
    <2>6. CASE valid # {}
      <3> DEFINE t == Best(valid)
                 r2 == Goes(r1, StartStop(t, e.v), StartLen(t, e.v), ChoiceSaid(t, e.v))
      <3>1. t \in SUPPORTED_AUTHS
        BY <2>6, BestFacts
      <3>2. Reads(r1, g, r2)
        <4>1. r1.h = "types" /\ r1.len = Cardinality(offer) /\ r1.c = <<>> /\ r1.v = e.v
          BY GoesFacts
        <4>2. ReadsOpening(r1, g, r2)
          <5> HIDE DEF r1
          <5> QED
            BY <2>6, <3>1, <4>1 DEF ReadsOpening, Field
        <4> HIDE DEF r1, r2
        <4> QED
          BY <4>1, <4>2 DEF Reads, Field
      <3>3. r2.n = e.n /\ r2.v = e.v /\ r2.k = e.k /\ r2.h \notin Dooms
        BY GoesFacts, StartNoDoom
      <3>4. At(r2, StartStop(t, r2.v), StartLen(t, r2.v), ChoiceSaid(t, r2.v))
        BY <3>3, GoesFacts DEF At
      <3> HIDE DEF r1, r2, t, g
      <3>5. MeetsOpening(r2)'
        BY <1>3, <1>5, <2>2, <3>1, <3>3, <3>4 DEF MeetsOpening
      <3>6. Meets(r2)'
        BY <1>2, <1>3, <1>5, <2>2, <3>3, <3>5, MeetsOn
      <3> QED
        BY <2>4, <3>2, <3>6
    <2> QED
      BY <2>5, <2>6
  <1>7. CASE offer = {}
    <2> DEFINE f == Field("ntypes", 1, 0)
               g == Field("connfailed", 4, len)
               h == Field("connmsg", len, 0)
               r1 == Goes(e, "connfailed", 4, <<>>)
    <2>1. /\ f \in OtherFields /\ g \in OtherFields /\ h \in OtherFields
          /\ f \in Fields /\ g \in Fields /\ h \in Fields
      <3>1. 0 \in Nat /\ 0 <= MaxU8 /\ 0 \in Vals /\ len \in Nat /\ len \in Vals
        BY ValFacts, LenFacts DEF MaxU8
      <3>2. f \in OtherFields /\ f \in Fields
        BY <3>1, CountFacts
      <3> QED
        BY <3>1, <3>2, OtherFacts DEF Handlers, SessionHandlers
    <2>2. wire' = wire \o <<f, g, h>> /\ Srv("closed", "-")' /\ faulty' \in {faulty, "refusal"}
      BY <1>7 DEF SrvOffer, Say, Length, OneOf, Breaks
    <2>3. Reads(e, f, r1)
      BY <1>4 DEF Reads, ReadsOpening, At, Field
    <2>4. r1.h = "connfailed" /\ r1.len = 4 /\ r1.c = <<>>
      BY GoesFacts
    <2>5. Meets(Doomed("told"))'
      BY <1>3, <2>2 DEF Meets, GivenUp, ShownFaults, Agrees
    <2> HIDE DEF f, r1
    <2>6. PICK r2 : Reads(r1, g, r2) /\ Reads(r2, h, Doomed("told"))
      BY <2>4, ReadsRefusal
    <2>7. Parses(q, wire', Doomed("told"))
      BY <1>1, <1>5, <2>1, <2>2, <2>3, <2>6, ParsesSent
    <2> HIDE DEF g, h
    <2> QED
      BY <1>1, <1>2, <1>5, <2>1, <2>2, <2>5, <2>7, ShakeSaid
  <1> QED
    BY <1>6, <1>7

LEMMA AuthAlive ==
  ASSUME Typed, Alive, NEW type \in Nat, NEW len \in Lens, SrvAuth(type, len)
  PROVE  Alive'
  <1>1. PICK q, e : Here(q) /\ Parses(q, wire, e) /\ Meets(e)
    BY DEF Alive
  <1> USE DEF Srv
  <1>2. Srv("offer", "-") /\ ~InSession /\ ~InSession'
    BY DEF SrvAuth, Speaks, Say, InSession
  <1>3. Agrees(e) /\ e.v = agreed /\ e.v \in Nat /\ At(e, FirstStop(e.v), FirstLen(e.v), <<>>)
    BY <1>1, <1>2 DEF Meets, GivenUp, Agrees, MeetsOpening, MeetsSecurity, MeetsResult, MeetsSession, InSession
  <1>4. At(e, "auth", 4, <<>>)
    BY <1>3 DEF SrvAuth, FirstStop, FirstLen
  <1>5. /\ wire \in Seq(Fields) /\ UNCHANGED <<client, conn, c2s, agreed, left, sent>>
    BY DEF Typed, SrvAuth, SrvOnly
  <1>6. CASE type # 0
    <2> DEFINE f == Field("auth", 4, type)
    <2>1. f \in OtherFields /\ f \in Fields
      BY ValFacts, OtherFacts DEF Handlers, SessionHandlers
    <2>2. wire' = wire \o <<f>> /\ Srv("chosen", "-")' /\ faulty' = faulty /\ sec' = type
      BY <1>6 DEF SrvAuth, Say
    <2>3. ASSUME NEW r, Reads(e, f, r), Meets(r)' PROVE Alive'
      <3>1. Parses(q, wire', r)
        BY <1>1, <1>5, <2>1, <2>2, <2>3, ParsesSent
      <3> HIDE DEF f
      <3> QED
        BY <1>1, <1>2, <1>5, <2>1, <2>2, <2>3, <3>1, ShakeSaid
    <2>4. CASE type \notin SUPPORTED_AUTHS
      <3>1. Reads(e, f, Doomed("told"))
        BY <1>4, <1>6, <2>4 DEF Reads, ReadsOpening, At, Field
      <3>2. Meets(Doomed("told"))'
        BY <1>3, <2>2, <2>4 DEF Meets, GivenUp, ShownFaults, Agrees
      <3> QED
        BY <2>3, <3>1, <3>2
    <2>5. CASE type \in SUPPORTED_AUTHS
      <3> DEFINE r == Goes(e, StartStop(type, e.v), StartLen(type, e.v), InitSaid(type, e.v))
      <3>1. Reads(e, f, r)
        BY <1>4, <2>5 DEF Reads, ReadsOpening, At, Field
      <3>2. r.n = e.n /\ r.v = e.v /\ r.k = e.k /\ r.h \notin Dooms
        BY GoesFacts, StartNoDoom
      <3>3. At(r, StartStop(type, r.v), StartLen(type, r.v), InitSaid(type, r.v))
        BY <3>2, GoesFacts DEF At
      <3> HIDE DEF r
      <3>4. MeetsOpening(r)'
        BY <1>3, <1>5, <2>2, <2>5, <3>2, <3>3 DEF MeetsOpening
      <3>5. Meets(r)'
        BY <1>2, <1>3, <1>5, <2>2, <3>2, <3>4, MeetsOn
      <3> QED
        BY <2>3, <3>1, <3>5
    <2> QED
      BY <2>4, <2>5
  <1>7. CASE type = 0
    <2> DEFINE f == Field("auth", 4, 0)
               g == Field("connfailed", 4, len)
               h == Field("connmsg", len, 0)
               r1 == Goes(e, "connfailed", 4, <<>>)
    <2>1. /\ f \in OtherFields /\ g \in OtherFields /\ h \in OtherFields
          /\ f \in Fields /\ g \in Fields /\ h \in Fields
      BY ValFacts, LenFacts, OtherFacts DEF Handlers, SessionHandlers
    <2>2. wire' = wire \o <<f, g, h>> /\ Srv("closed", "-")' /\ faulty' \in {faulty, "refusal"}
      BY <1>7 DEF SrvAuth, Say, Length, OneOf, Breaks
    <2>3. Reads(e, f, r1)
      BY <1>4 DEF Reads, ReadsOpening, At, Field
    <2>4. r1.h = "connfailed" /\ r1.len = 4 /\ r1.c = <<>>
      BY GoesFacts
    <2>5. Meets(Doomed("told"))'
      BY <1>3, <2>2 DEF Meets, GivenUp, ShownFaults, Agrees
    <2> HIDE DEF f, r1
    <2>6. PICK r2 : Reads(r1, g, r2) /\ Reads(r2, h, Doomed("told"))
      BY <2>4, ReadsRefusal
    <2>7. Parses(q, wire', Doomed("told"))
      BY <1>1, <1>5, <2>1, <2>2, <2>3, <2>6, ParsesSent
    <2> HIDE DEF g, h
    <2> QED
      BY <1>1, <1>2, <1>5, <2>1, <2>2, <2>5, <2>7, ShakeSaid
  <1> QED
    BY <1>6, <1>7

LEMMA ChosenAlive ==
  ASSUME Typed, Alive, SrvChosen
  PROVE  Alive'
  <1>1. PICK q, e : Here(q) /\ Parses(q, wire, e) /\ Meets(e)
    BY DEF Alive
  <1> USE DEF Srv
  <1>2. Srv("chosen", "-") /\ ~InSession
    BY DEF SrvChosen, Speaks, InSession
  <1>3. /\ srv'.at = SecurityPoint(sec)
        /\ srv'.hears = IF SecurityPoint(sec) = "init" THEN "init" ELSE "-"
        /\ UNCHANGED <<client, conn, c2s, wire, agreed, sec, left, sent, faulty>>
    BY DEF SrvChosen, SrvOnly
  <1>4. \/ sec \notin SUPPORTED_AUTHS /\ SecurityPoint(sec) = "closed"
        \/ sec = NONE /\ agreed >= 3008 /\ SecurityPoint(sec) = "result"
        \/ sec = NONE /\ ~(agreed >= 3008) /\ SecurityPoint(sec) = "init"
        \/ sec = VNC_AUTHENTICATION /\ SecurityPoint(sec) = "challenge"
        \/ sec = VENCRYPT /\ SecurityPoint(sec) = "vversion"
        \/ sec = DIFFIE_HELLMAN /\ SecurityPoint(sec) = "ard"
    BY DEF SecurityPoint, SUPPORTED_AUTHS, NONE, VNC_AUTHENTICATION, VENCRYPT, DIFFIE_HELLMAN
  <1>5. ~InSession' /\ ~Srv("vchosen", "-")' /\ ~Srv("vauth", "-")'
    BY <1>3, <1>4 DEF InSession
  <1>6. ASSUME Meets(e)' PROVE Alive'
    <2>1. Ordered'
      BY <1>2, <1>3, <1>5 DEF Alive, Ordered
    <2> QED
      BY <1>1, <1>2, <1>3, <1>5, <1>6, <2>1, SaidAlive
  <1>7. CASE sec \notin SUPPORTED_AUTHS
    <2>1. e = Doomed("told") /\ faulty \in ShownFaults \cup {"none"}
      BY <1>1, <1>2, <1>7 DEF Meets, GivenUp, Agrees, MeetsOpening, MeetsSecurity, MeetsResult, MeetsSession, InSession
    <2>2. Srv("closed", "-")'
      BY <1>3, <1>4, <1>7 DEF SUPPORTED_AUTHS
    <2>3. Meets(e)'
      BY <1>3, <2>1, <2>2 DEF Meets, GivenUp
    <2> QED
      BY <1>6, <2>3
  <1>8. CASE sec \in SUPPORTED_AUTHS
    <2>1. /\ Agrees(e) /\ e.v = agreed /\ e.v \in Nat /\ e.h \notin Dooms
          /\ At(e, StartStop(sec, e.v), StartLen(sec, e.v), InitSaid(sec, e.v))
      BY <1>1, <1>2, <1>8 DEF Meets, GivenUp, Agrees, MeetsOpening, MeetsSecurity, MeetsResult, MeetsSession, InSession
    <2> USE DEF NONE, VNC_AUTHENTICATION, VENCRYPT, DIFFIE_HELLMAN
    <2>2. \/ Srv("result", "-")' /\ At(e, "result", 4, <<>>)
          \/ Srv("init", "init")' /\ At(e, "serverinit", 24, <<M("init", 0)>>)
          \/ Srv("challenge", "-")' /\ At(e, "challenge", 16, <<>>)
          \/ Srv("vversion", "-")' /\ At(e, "vversion", 2, <<>>)
          \/ Srv("ard", "-")' /\ At(e, "ardparams", 4, <<>>)
      BY <1>3, <1>4, <1>8, <2>1 DEF StartStop, StartLen, InitSaid, AtOnce, At
    <2>3. (MeetsSecurity(e) \/ MeetsResult(e))'
      BY <2>2 DEF MeetsSecurity, MeetsResult
    <2>4. Meets(e)'
      BY <1>2, <1>3, <1>5, <2>1, <2>3, MeetsOn
    <2> QED
      BY <1>6, <2>4
  <1> QED
    BY <1>7, <1>8

LEMMA ChallengeAlive ==
  ASSUME Typed, Alive, SrvChallenge
  PROVE  Alive'
  <1>1. PICK q, e : Here(q) /\ Parses(q, wire, e) /\ Meets(e)
    BY DEF Alive
  <1> USE DEF Srv
  <1>2. Srv("challenge", "-") /\ ~InSession /\ ~InSession' /\ Srv("result", "response")'
    BY DEF SrvChallenge, Speaks, Say, InSession
  <1>3. Agrees(e) /\ At(e, "challenge", 16, <<>>)
    BY <1>1, <1>2 DEF Meets, GivenUp, Agrees, MeetsOpening, MeetsSecurity, MeetsResult, MeetsSession, InSession
  <1> DEFINE f == Field("challenge", 16, 0)
  <1>4. f \in OtherFields /\ f \in Fields
    BY ValFacts, OtherFacts DEF Handlers, SessionHandlers
  <1>5. /\ wire \in Seq(Fields) /\ UNCHANGED <<client, conn, c2s, agreed, left, sent, faulty>>
        /\ wire' = wire \o <<f>>
    BY DEF Typed, SrvChallenge, SrvOnly, Say
  <1>6. ASSUME NEW r, Reads(e, f, r), Meets(r)' PROVE Alive'
    <2>1. Parses(q, wire', r)
      BY <1>1, <1>4, <1>5, <1>6, ParsesSent
    <2> HIDE DEF f
    <2> QED
      BY <1>1, <1>2, <1>4, <1>5, <1>6, <2>1, ShakeSaid
  <1>7. CASE e.g.password
    <2> DEFINE r == Goes(e, "result", 4, <<M("response", 0)>>)
    <2>1. Reads(e, f, r)
      BY <1>3, <1>7 DEF Reads, ReadsSecurity, At, Field
    <2>2. r.n = e.n /\ r.v = e.v /\ r.k = e.k /\ r.h \notin Dooms /\ At(r, "result", 4, <<M("response", 0)>>)
      BY GoesFacts DEF At, Dooms
    <2> HIDE DEF r
    <2>3. MeetsSecurity(r)'
      BY <1>2, <2>2 DEF MeetsSecurity
    <2>4. Meets(r)'
      BY <1>2, <1>3, <1>5, <2>2, <2>3, MeetsOn
    <2> QED
      BY <1>6, <2>1, <2>4
  <1>8. CASE ~e.g.password
    <2>1. Reads(e, f, Doomed("refused"))
      BY <1>3, <1>8 DEF Reads, ReadsSecurity, At, Field
    <2>2. Meets(Doomed("refused"))'
      BY <1>2, <1>3, <1>5 DEF Meets, GivenUp, Agrees
    <2> QED
      BY <1>6, <2>1, <2>2
  <1> QED
    BY <1>7, <1>8

LEMMA ArdAlive ==
  ASSUME Typed, Alive, NEW len \in Lengths \ {0}, SrvArd(len)
  PROVE  Alive'
  <1>1. PICK q, e : Here(q) /\ Parses(q, wire, e) /\ Meets(e)
    BY DEF Alive
  <1> USE DEF Srv
  <1>2. Srv("ard", "-") /\ ~InSession /\ ~InSession' /\ Srv("result", "ardreply")'
    BY DEF SrvArd, Speaks, Say, InSession
  <1>3. Agrees(e) /\ At(e, "ardparams", 4, <<>>)
    BY <1>1, <1>2 DEF Meets, GivenUp, Agrees, MeetsOpening, MeetsSecurity, MeetsResult, MeetsSession, InSession
  <1> DEFINE f == Field("ardparams", 4, len)
             g == Field("ardmodulus", len, 0)
             ok == Field("ardkey", len, "ok")
             weak == Field("ardkey", len, "weak")
             r1 == Goes(e, "ardmodulus", len, <<>>)
             r2 == Goes(r1, "ardkey", len, <<>>)
  <1>4. /\ f \in OtherFields /\ g \in OtherFields /\ ok \in OtherFields /\ weak \in OtherFields
        /\ f \in Fields /\ g \in Fields /\ ok \in Fields /\ weak \in Fields
    <2>1. f \in OtherFields /\ f \in Fields
      BY LenFacts, CountFacts DEF SrvArd
    <2>2. g \in OtherFields /\ g \in Fields
      <3>1. "ardmodulus" \in (Handlers \ SessionHandlers) \ {"ntypes", "vcount", "ardparams"}
        BY DEF Handlers, SessionHandlers
      <3>2. len \in Nat /\ 0 \in Vals
        BY LenFacts, ValFacts
      <3> QED
        BY <3>1, <3>2, OtherFacts
    <2>3. ok \in OtherFields /\ ok \in Fields /\ weak \in OtherFields /\ weak \in Fields
      <3>1. "ardkey" \in (Handlers \ SessionHandlers) \ {"ntypes", "vcount", "ardparams"}
        BY DEF Handlers, SessionHandlers
      <3>2. len \in Nat
        BY LenFacts
      <3>3. "ok" \in Vals /\ "weak" \in Vals
        BY ValFacts DEF Words
      <3> QED
        BY <3>1, <3>2, <3>3, OtherFacts
    <2> QED
      BY <2>1, <2>2, <2>3
  <1>5. /\ wire \in Seq(Fields) /\ UNCHANGED <<client, conn, c2s, agreed, left, sent>>
    BY DEF Typed, SrvArd, SrvOnly
  <1>6. Reads(e, f, r1)
    BY <1>3 DEF Reads, ReadsSecurity, At, Field
  <1>7. r1.h = "ardmodulus" /\ r1.len = len /\ r1.c = <<>>
    BY GoesFacts
  <1>8. Reads(r1, g, r2)
    <2> HIDE DEF r1
    <2> QED
      BY <1>7 DEF Reads, ReadsSecurity, Field
  <1>9. /\ r2.h = "ardkey" /\ r2.len = len /\ r2.c = <<>>
        /\ r2.n = e.n /\ r2.v = e.v /\ r2.k = e.k
    BY GoesFacts
  <1>10. ASSUME NEW x \in {ok, weak}, wire' = wire \o <<f, g, x>>, NEW r, Reads(r2, x, r), Meets(r)'
         PROVE  Alive'
    <2>1. x \in OtherFields /\ x \in Fields
      BY <1>4, <1>10
    <2> HIDE DEF f, g, ok, weak, r1, r2
    <2>2. Parses(q, wire', r)
      BY <1>1, <1>4, <1>5, <1>6, <1>8, <1>10, <2>1, ParsesSent
    <2> QED
      BY <1>1, <1>2, <1>4, <1>5, <1>10, <2>1, <2>2, ShakeSaid
  <1>11. CASE wire' = wire \o <<f, g, ok>> /\ faulty' = faulty
    <2> DEFINE r == Goes(r2, "result", 4, <<M("ardreply", 0)>>)
    <2>1. Reads(r2, ok, r)
      <3> HIDE DEF r2
      <3> QED
        BY <1>9 DEF Reads, ReadsSecurity, Field
    <2>2. /\ r.n = e.n /\ r.v = e.v /\ r.k = e.k /\ r.h \notin Dooms
          /\ At(r, "result", 4, <<M("ardreply", 0)>>)
      <3> HIDE DEF r2
      <3> QED
        BY <1>9, GoesFacts DEF At, Dooms
    <2> HIDE DEF r
    <2>3. MeetsSecurity(r)'
      BY <1>2, <2>2 DEF MeetsSecurity
    <2>4. Meets(r)'
      BY <1>2, <1>3, <1>5, <1>11, <2>2, <2>3, MeetsOn
    <2> QED
      BY <1>10, <1>11, <2>1, <2>4
  <1>12. CASE wire' = wire \o <<f, g, weak>> /\ faulty' = "dh"
    <2>1. Reads(r2, weak, Doomed("escape"))
      <3> HIDE DEF r2
      <3> QED
        BY <1>9 DEF Reads, ReadsSecurity, Field
    <2>2. Meets(Doomed("escape"))'
      BY <1>2, <1>12 DEF Meets, GivenUp, Untold
    <2> QED
      BY <1>10, <1>12, <2>1, <2>2
  <1> QED
    BY <1>11, <1>12 DEF SrvArd, Say, Breaks

LEMMA VeNCryptVersionAlive ==
  ASSUME Typed, Alive, NEW v \in {1, 2}, SrvVeNCryptVersion(v)
  PROVE  Alive'
  <1>1. PICK q, e : Here(q) /\ Parses(q, wire, e) /\ Meets(e)
    BY DEF Alive
  <1> USE DEF Srv
  <1>2. Srv("vversion", "-") /\ ~InSession /\ ~InSession' /\ Srv("vsubtypes", "vversion")'
    BY DEF SrvVeNCryptVersion, Speaks, Say, InSession
  <1>3. Agrees(e) /\ At(e, "vversion", 2, <<>>)
    BY <1>1, <1>2 DEF Meets, GivenUp, Agrees, MeetsOpening, MeetsSecurity, MeetsResult, MeetsSession, InSession
  <1> DEFINE f == Field("vversion", 2, v)
  <1>4. f \in OtherFields /\ f \in Fields
    BY ValFacts, OtherFacts DEF Handlers, SessionHandlers
  <1>5. /\ wire \in Seq(Fields) /\ UNCHANGED <<client, conn, c2s, agreed, left, sent, faulty>>
        /\ wire' = wire \o <<f>>
    BY DEF Typed, SrvVeNCryptVersion, SrvOnly, Say
  <1>6. ASSUME NEW r, Reads(e, f, r), Meets(r)' PROVE Alive'
    <2>1. Parses(q, wire', r)
      BY <1>1, <1>4, <1>5, <1>6, ParsesSent
    <2> HIDE DEF f
    <2> QED
      BY <1>1, <1>2, <1>4, <1>5, <1>6, <2>1, ShakeSaid
  <1>7. CASE v = 2
    <2> DEFINE r == Goes(e, "vack", 1, <<M("vversion", 2)>>)
    <2>1. Reads(e, f, r)
      BY <1>3, <1>7 DEF Reads, ReadsSecurity, At, Field
    <2>2. r.n = e.n /\ r.v = e.v /\ r.k = e.k /\ r.h \notin Dooms /\ At(r, "vack", 1, <<M("vversion", 2)>>)
      BY GoesFacts DEF At, Dooms
    <2> HIDE DEF r
    <2>3. MeetsSecurity(r)'
      BY <1>2, <2>2 DEF MeetsSecurity
    <2>4. Meets(r)'
      BY <1>2, <1>3, <1>5, <2>2, <2>3, MeetsOn
    <2> QED
      BY <1>6, <2>1, <2>4
  <1>8. CASE v = 1
    <2>1. Reads(e, f, Doomed("told"))
      BY <1>3, <1>8 DEF Reads, ReadsSecurity, At, Field
    <2>2. Meets(Doomed("told"))'
      BY <1>2, <1>3, <1>5 DEF Meets, GivenUp, Agrees
    <2> QED
      BY <1>6, <2>1, <2>2
  <1> QED
    BY <1>7, <1>8

LEMMA SubtypesAlive ==
  ASSUME Typed, Alive, NEW offered \in Subtypes, NEW refuses \in BOOLEAN, SrvSubtypes(offered, refuses)
  PROVE  Alive'
  <1>1. PICK q, e : Here(q) /\ Parses(q, wire, e) /\ Meets(e)
    BY DEF Alive
  <1> USE DEF Srv
  <1>2. Srv("vsubtypes", "-") /\ ~InSession /\ ~InSession' /\ ~Srv("vchosen", "-")' /\ ~Srv("vauth", "-")'
    BY DEF SrvSubtypes, Speaks, Say, InSession
  <1>3. Agrees(e) /\ At(e, "vack", 1, <<>>)
    BY <1>1, <1>2 DEF Meets, GivenUp, Agrees, MeetsOpening, MeetsSecurity, MeetsResult, MeetsSession, InSession
  <1> DEFINE no == Field("vack", 1, 255)
             f == Field("vack", 1, 0)
             g == Field("vcount", 1, Cardinality(offered))
             h == Field("vsubtypes", 4 * Cardinality(offered), offered)
             r1 == Goes(e, "vcount", 1, <<>>)
             r2 == Goes(r1, "vsubtypes", 4 * Cardinality(offered), <<>>)
  <1>4. /\ no \in OtherFields /\ f \in OtherFields /\ g \in OtherFields /\ h \in OtherFields
        /\ no \in Fields /\ f \in Fields /\ g \in Fields /\ h \in Fields
    <2>1. g \in OtherFields /\ g \in Fields
      BY SubtypeFacts, CountFacts
    <2>2. /\ no \in OtherFields /\ f \in OtherFields /\ h \in OtherFields
          /\ no \in Fields /\ f \in Fields /\ h \in Fields
      <3>1. /\ 0 \in Nat /\ 0 \in Vals /\ 1 \in Nat /\ 255 \in Vals /\ 4 * Cardinality(offered) \in Nat
            /\ offered \in Vals
        BY ValFacts, SubtypeFacts
      <3>2. {"vack", "vsubtypes"} \subseteq (Handlers \ SessionHandlers) \ {"ntypes", "vcount", "ardparams"}
        BY DEF Handlers, SessionHandlers
      <3> QED
        BY <3>1, <3>2, OtherFacts
    <2> QED
      BY <2>1, <2>2
  <1>5. /\ wire \in Seq(Fields) /\ UNCHANGED <<client, conn, c2s, agreed, left, sent, faulty>>
    BY DEF Typed, SrvSubtypes, SrvOnly
  <1>6. Reads(e, f, r1) /\ Reads(e, no, Doomed("told"))
    BY <1>3 DEF Reads, ReadsSecurity, At, Field
  <1>7. r1.h = "vcount" /\ r1.len = 1 /\ r1.c = <<>>
    BY GoesFacts
  <1>8. CASE refuses
    <2>1. wire' = wire \o <<no>> /\ Srv("closed", "-")'
      BY <1>8 DEF SrvSubtypes, Say
    <2>2. Meets(Doomed("told"))'
      BY <1>3, <1>5, <2>1 DEF Meets, GivenUp, Agrees
    <2> HIDE DEF no, f, g, h, r1, r2
    <2>3. Parses(q, wire', Doomed("told"))
      BY <1>1, <1>4, <1>5, <1>6, <2>1, ParsesSent
    <2> QED
      BY <1>1, <1>2, <1>4, <1>5, <2>1, <2>2, <2>3, ShakeSaid
  <1>9. CASE ~refuses /\ offered = {}
    <2>1. wire' = wire \o <<f, g>> /\ Srv("vchosen", "vsubtype")'
      BY <1>9, PairEmpty DEF SrvSubtypes, Say
    <2>2. Reads(r1, g, Doomed("told"))
      <3> HIDE DEF r1
      <3> QED
        BY <1>7, <1>9, SubtypeFacts DEF Reads, ReadsSecurity, Field
    <2>3. Meets(Doomed("told"))'
      BY <1>3, <1>5, <2>1 DEF Meets, GivenUp, Agrees
    <2> HIDE DEF f, g, r1
    <2>4. Parses(q, wire', Doomed("told"))
      BY <1>1, <1>4, <1>5, <1>6, <2>1, <2>2, ParsesSent
    <2> QED
      BY <1>1, <1>2, <1>4, <1>5, <2>1, <2>3, <2>4, ShakeSaid
  <1>10. CASE ~refuses /\ offered # {}
    <2>1. wire' = wire \o <<f, g, h>> /\ Srv("vchosen", "vsubtype")'
      <3>1. wire' = wire \o (<<f, g>> \o <<h>>)
        BY <1>10 DEF SrvSubtypes, Say
      <3>3. Srv("vchosen", "vsubtype")'
        BY <1>10 DEF SrvSubtypes, Say
      <3>2. <<f, g>> \o <<h>> = <<f, g, h>>
        <4> HIDE DEF f, g, h
        <4> QED
          BY TripleConcat
      <3> HIDE DEF f, g, h
      <3> QED
        BY <3>1, <3>2, <3>3
    <2>2. Reads(r1, g, r2)
      <3> HIDE DEF r1
      <3> QED
        BY <1>7, <1>10, SubtypeFacts DEF Reads, ReadsSecurity, Field
    <2>3. /\ r2.h = "vsubtypes" /\ r2.len = 4 * Cardinality(offered) /\ r2.c = <<>>
          /\ r2.n = e.n /\ r2.v = e.v /\ r2.k = e.k
      BY GoesFacts
    <2> HIDE DEF r1, r2
    <2>4. ASSUME NEW r, Reads(r2, h, r), Meets(r)' PROVE Alive'
      <3> HIDE DEF f, g, h
      <3>1. Parses(q, wire', r)
        BY <1>1, <1>4, <1>5, <1>6, <2>1, <2>2, <2>4, ParsesSent
      <3> QED
        BY <1>1, <1>2, <1>4, <1>5, <2>1, <2>4, <3>1, ShakeSaid
    <2>5. CASE Candidates(offered, r2.g) = {}
      <3>1. Reads(r2, h, Doomed("told"))
        BY <2>3, <2>5 DEF Reads, ReadsSecurity, Field
      <3>2. Meets(Doomed("told"))'
        BY <1>3, <1>5, <2>1 DEF Meets, GivenUp, Agrees
      <3> QED
        BY <2>4, <3>1, <3>2
    <2>6. CASE Candidates(offered, r2.g) # {}
      <3> DEFINE s == Choose(offered, r2.g)
                 r == Station("vchosen", 1, <<M("vsubtype", s)>>, r2.n, r2.v, s, r2.g, r2.k)
      <3>1. s \in {PREFERENCE[i] : i \in DOMAIN PREFERENCE}
        BY <2>6, ChooseFacts
      <3>2. Reads(r2, h, r)
        BY <2>3, <2>6, <3>1 DEF Reads, ReadsSecurity, Field
      <3>3. /\ r.n = e.n /\ r.v = e.v /\ r.k = e.k /\ r.h \notin Dooms
            /\ At(r, "vchosen", 1, <<M("vsubtype", r.s)>>)
        BY <2>3 DEF At, Dooms, Station
      <3> HIDE DEF r
      <3>4. MeetsSecurity(r)'
        BY <2>1, <3>3 DEF MeetsSecurity
      <3>5. Meets(r)'
        BY <1>2, <1>3, <1>5, <3>3, <3>4, MeetsOn
      <3> QED
        BY <2>4, <3>2, <3>5
    <2> QED
      BY <2>5, <2>6
  <1> QED
    BY <1>8, <1>9, <1>10

LEMMA SubtypeAckAlive ==
  ASSUME Typed, Alive, NEW refuses \in BOOLEAN, SrvSubtypeAck(refuses)
  PROVE  Alive' \/ Early'
  <1>1. PICK q, e : Here(q) /\ Parses(q, wire, e) /\ Meets(e)
    BY DEF Alive
  <1> USE DEF Srv
  <1>2. Srv("vchosen", "-") /\ ~InSession /\ ~InSession' /\ ~Srv("vchosen", "-")' /\ ~Srv("vauth", "-")'
    BY DEF SrvSubtypeAck, Speaks, Say, InSession
  <1>3. Agrees(e) /\ At(e, "vchosen", 1, <<>>)
    BY <1>1, <1>2 DEF Meets, GivenUp, Agrees, MeetsOpening, MeetsSecurity, MeetsResult, MeetsSession, InSession
  <1> DEFINE no == Field("vchosen", 1, 0)
             yes == Field("vchosen", 1, 1)
             early == Field("early", 2, 0)
  <1>4. no \in OtherFields /\ yes \in OtherFields /\ no \in Fields /\ yes \in Fields
    BY ValFacts, OtherFacts DEF Handlers, SessionHandlers
  <1>5. wire \in Seq(Fields) /\ UNCHANGED <<client, conn, c2s, agreed, left, sent>>
    BY DEF Typed, SrvSubtypeAck, SrvOnly
  <1>6. ASSUME NEW x \in {no, yes}, wire' = wire \o <<x>>, NEW r, Reads(e, x, r), Meets(r)'
        PROVE  Alive'
    <2>1. x \in OtherFields /\ x \in Fields
      BY <1>4, <1>6
    <2> HIDE DEF no, yes
    <2>2. Parses(q, wire', r)
      BY <1>1, <1>5, <1>6, <2>1, ParsesSent
    <2> QED
      BY <1>1, <1>2, <1>5, <1>6, <2>1, <2>2, ShakeSaid
  <1>7. CASE wire' = wire \o <<no>> /\ Srv("closed", "-")' /\ faulty' = faulty
    <2>1. Reads(e, no, Doomed("told"))
      BY <1>3 DEF Reads, ReadsSecurity, At, Field
    <2>2. Meets(Doomed("told"))'
      BY <1>3, <1>7 DEF Meets, GivenUp, Agrees
    <2> QED
      BY <1>6, <1>7, <2>1, <2>2
  <1>8. CASE wire' = wire \o <<yes>> /\ Srv("vauth", "tls")' /\ faulty' = faulty
    <2> DEFINE r == Goes(e, TlsStop(e.s), TlsLen(e.s), TlsSaid(e.s))
    <2>1. Reads(e, yes, r)
      BY <1>3 DEF Reads, ReadsSecurity, At, Field
    <2>2. /\ r.n = e.n /\ r.v = e.v /\ r.k = e.k /\ r.h \notin Dooms
          /\ At(r, TlsStop(r.s), TlsLen(r.s), TlsSaid(r.s))
      BY GoesFacts DEF At, Dooms, TlsStop
    <2> HIDE DEF r
    <2>3. MeetsSecurity(r)'
      BY <1>8, <2>2 DEF MeetsSecurity
    <2>4. Meets(r)'
      BY <1>2, <1>3, <1>5, <1>8, <2>2, <2>3, MeetsOn
    <2> QED
      BY <1>6, <1>8, <2>1, <2>4
  <1>9. CASE wire' = wire \o <<yes, early>> /\ srv'.at = "closed" /\ srv'.hears = "tls" /\ faulty' = "early"
    <2>1. wire = <<>>
      BY <1>2 DEF Alive, Ordered
    <2>2. q = e
      BY <1>1, <2>1, ParsesNothing
    <2>3. want = [h |-> "vchosen", len |-> 1] /\ c2s = <<>>
      <3>1. want.h = "vchosen" /\ want.len = 1 /\ c2s = <<>>
        BY <1>1, <1>2, <1>3, <2>2 DEF Here, At
      <3>2. want \in [h : Handlers, len : Nat]
        BY DEF Typed, TypeOK
      <3> QED
        BY <3>1, <3>2
    <2>4. wire' = <<yes, early>>
      BY <1>9, <2>1
    <2> QED
      BY <1>5, <1>9, <2>3, <2>4 DEF Early, Alive, client
  <1> QED
    BY <1>7, <1>8, <1>9 DEF SrvSubtypeAck, Say, Breaks

LEMMA VeNCryptAuthAlive ==
  ASSUME Typed, Alive, SrvVeNCryptAuth
  PROVE  Alive'
  <1>1. PICK q, e : Here(q) /\ Parses(q, wire, e) /\ Meets(e)
    BY DEF Alive
  <1> USE DEF Srv
  <1>2. Srv("vauth", "-") /\ ~InSession /\ ~InSession' /\ ~Srv("vchosen", "-")' /\ ~Srv("vauth", "-")'
    BY DEF SrvVeNCryptAuth, Speaks, Say, InSession
  <1>3. Agrees(e) /\ At(e, TlsStop(e.s), TlsLen(e.s), PlainSaid(e.s))
    BY <1>1, <1>2 DEF Meets, GivenUp, Agrees, MeetsOpening, MeetsSecurity, MeetsResult, MeetsSession, InSession
  <1>4. wire = <<>> /\ wire' = <<>>
    <2>1. wire = <<>>
      BY <1>2 DEF Alive, Ordered
    <2> QED
      BY <2>1 DEF SrvVeNCryptAuth, Say
  <1>5. UNCHANGED <<client, conn, c2s, agreed, left, sent, faulty>>
    BY DEF SrvVeNCryptAuth, SrvOnly
  <1>6. e.s = subtype
    BY <1>1, <1>4, ParsesNothing DEF Here
  <1>7. \/ Srv("challenge", "-")' /\ At(e, "challenge", 16, <<>>)
        \/ Srv("result", "plain")' /\ At(e, "result", 4, <<M("plain", 0)>>)
        \/ Srv("result", "-")' /\ At(e, "result", 4, <<>>)
    BY <1>3, <1>6 DEF SrvVeNCryptAuth, Say, At, TlsStop, TlsLen, PlainSaid, VNC_AUTH_SUBTYPES, PLAIN_AUTH_SUBTYPES
  <1>8. (MeetsSecurity(e) \/ MeetsResult(e))'
    BY <1>7 DEF MeetsSecurity, MeetsResult
  <1>9. Meets(e)'
    <2>1. e.h \notin Dooms
      BY <1>3 DEF Agrees
    <2> QED
      BY <1>2, <1>3, <1>5, <1>8, <2>1, MeetsOn
  <1>10. Ordered'
    BY <1>2, <1>4, EmptySeq DEF Ordered
  <1> QED
    BY <1>1, <1>2, <1>4, <1>5, <1>9, <1>10, SaidAlive

LEMMA ResultAlive ==
  ASSUME Typed, Alive, NEW result \in Results, NEW len \in Reasons \cup {Limit + 1}, SrvResult(result, len)
  PROVE  Alive'
  <1>1. PICK q, e : Here(q) /\ Parses(q, wire, e) /\ Meets(e)
    BY DEF Alive
  <1> USE DEF Srv
  <1>2. Srv("result", "-") /\ ~InSession /\ ~InSession' /\ ~Srv("vchosen", "-")' /\ ~Srv("vauth", "-")'
    BY DEF SrvResult, Speaks, Say, InSession
  <1>3. Agrees(e) /\ At(e, "result", 4, <<>>) /\ e.v = agreed /\ e.v \in Nat /\ faulty = "none"
    BY <1>1, <1>2 DEF Meets, GivenUp, Agrees, MeetsOpening, MeetsSecurity, MeetsResult, MeetsSession, InSession
  <1> DEFINE f == Field("result", 4, result)
             g == Field("reasonlen", 4, len)
             h == Field("reason", len, 0)
  <1>4. /\ f \in OtherFields /\ g \in OtherFields /\ h \in OtherFields
        /\ f \in Fields /\ g \in Fields /\ h \in Fields
    BY LenFacts, ResultAssumption, ValFacts, OtherFacts DEF Handlers, SessionHandlers, Words
  <1>5. /\ wire \in Seq(Fields) /\ UNCHANGED <<client, conn, c2s, agreed, left, sent>>
        /\ result \in {"ok", "failed", "unknown"} /\ Limit \in Nat
    BY ResultAssumption, LimitAssumption DEF Typed, SrvResult, SrvOnly
  <1>6. ASSUME NEW r, wire' = wire \o <<f>>, Reads(e, f, r), Meets(r)' PROVE Alive'
    <2> HIDE DEF f, g, h
    <2>1. Parses(q, wire', r)
      BY <1>1, <1>4, <1>5, <1>6, ParsesSent
    <2> QED
      BY <1>1, <1>2, <1>4, <1>5, <1>6, <2>1, ShakeSaid
  <1>7. CASE result = "ok"
    <2> DEFINE r == Goes(e, "serverinit", 24, <<M("init", 0)>>)
    <2>1. wire' = wire \o <<f>> /\ Srv("init", "init")' /\ faulty' = faulty
      BY <1>7 DEF SrvResult, Say
    <2>2. Reads(e, f, r)
      BY <1>3, <1>7 DEF Reads, ReadsResult, At, Field
    <2>3. r.n = e.n /\ r.v = e.v /\ r.k = e.k /\ r.h \notin Dooms /\ At(r, "serverinit", 24, <<M("init", 0)>>)
      BY GoesFacts DEF At, Dooms
    <2> HIDE DEF r
    <2>4. MeetsResult(r)'
      BY <2>1, <2>3 DEF MeetsResult
    <2>5. Meets(r)'
      BY <1>2, <1>3, <1>5, <2>1, <2>3, <2>4, MeetsOn
    <2> QED
      BY <1>6, <2>1, <2>2, <2>5
  <1>8. CASE result # "ok" /\ (result = "unknown" \/ agreed < 3008)
    <2>1. wire' = wire \o <<f>> /\ Srv("closed", "-")'
          /\ faulty' = (IF result = "unknown" THEN "result" ELSE "none")
      BY <1>3, <1>8 DEF SrvResult, Say, Breaks
    <2>2. CASE result = "unknown"
      <3>1. Reads(e, f, Doomed("silent"))
        BY <1>3, <2>2 DEF Reads, ReadsResult, At, Field
      <3>2. Meets(Doomed("silent"))'
        BY <2>1, <2>2 DEF Meets, GivenUp
      <3> QED
        BY <1>6, <2>1, <3>1, <3>2
    <2>3. CASE result = "failed"
      <3>1. Reads(e, f, Doomed("ended"))
        BY <1>3, <1>8, <2>3 DEF Reads, ReadsResult, At, Field
      <3>2. Meets(Doomed("ended"))'
        BY <2>1, <2>3 DEF Meets, GivenUp
      <3> QED
        BY <1>6, <2>1, <3>1, <3>2
    <2> QED
      BY <1>5, <1>8, <2>2, <2>3
  <1>9. CASE result = "failed" /\ agreed >= 3008
    <2> DEFINE r1 == Goes(e, "reasonlen", 4, <<>>)
               r2 == Goes(r1, "reason", len, <<>>)
    <2>1. wire' = wire \o <<f, g, h>> /\ Srv("closed", "-")'
      BY <1>3, <1>9 DEF SrvResult, Say
    <2>2. faulty' = IF requirePayload(len) THEN "none" ELSE "reason"
      BY <1>3, <1>5, <1>9, LimitAssumption DEF SrvResult, OneOf, Breaks, requirePayload
    <2>3. Reads(e, f, r1)
      BY <1>3, <1>9 DEF Reads, ReadsResult, At, Field
    <2>4. r1.h = "reasonlen" /\ r1.len = 4 /\ r1.c = <<>>
      BY GoesFacts
    <2>5. ASSUME NEW x, NEW r, Reads(r1, g, x), Reads(x, h, r), Meets(r)' PROVE Alive'
      <3> HIDE DEF f, g, h, r1, r2
      <3>1. Parses(q, wire', r)
        BY <1>1, <1>4, <1>5, <2>1, <2>3, <2>5, ParsesSent
      <3> QED
        BY <1>1, <1>2, <1>4, <1>5, <2>1, <2>5, <3>1, ShakeSaid
    <2>6. CASE requirePayload(len)
      <3>1. Reads(r1, g, r2)
        <4> HIDE DEF r1
        <4> QED
          BY <2>4, <2>6 DEF Reads, ReadsResult, Field
      <3>2. r2.h = "reason" /\ r2.len = len /\ r2.c = <<>>
        BY GoesFacts
      <3>3. Reads(r2, h, Doomed("ended"))
        <4> HIDE DEF r2
        <4> QED
          BY <3>2 DEF Reads, ReadsResult, Field
      <3>4. Meets(Doomed("ended"))'
        BY <2>1, <2>2, <2>6 DEF Meets, GivenUp
      <3> QED
        BY <2>5, <3>1, <3>3, <3>4
    <2>7. CASE ~requirePayload(len)
      <3>1. Reads(r1, g, Doomed("escape"))
        <4> HIDE DEF r1
        <4> QED
          BY <2>4, <2>7 DEF Reads, ReadsResult, Field
      <3>2. Reads(Doomed("escape"), h, Doomed("escape"))
        BY DEF Reads, Doomed
      <3>3. Meets(Doomed("escape"))'
        BY <2>1, <2>2, <2>7 DEF Meets, GivenUp, Untold
      <3> QED
        BY <2>5, <3>1, <3>2, <3>3
    <2> QED
      BY <2>6, <2>7
  <1> QED
    BY <1>3, <1>5, <1>7, <1>8, <1>9

LEMMA InitAlive ==
  ASSUME Typed, Alive, NEW len \in Lens, SrvInit(len)
  PROVE  Alive'
  <1>1. PICK q, e : Here(q) /\ Parses(q, wire, e) /\ Meets(e)
    BY DEF Alive
  <1> USE DEF Srv
  <1>2. Srv("init", "-") /\ ~InSession /\ ~InSession' /\ Srv("session", "setup")'
    BY DEF SrvInit, Speaks, Say, InSession
  <1>3. Agrees(e) /\ At(e, "serverinit", 24, <<>>)
    BY <1>1, <1>2 DEF Meets, GivenUp, Agrees, MeetsOpening, MeetsSecurity, MeetsResult, MeetsSession, InSession
  <1> DEFINE f == Field("serverinit", 24, len)
             g == Field("servername", len, 0)
             r1 == Goes(e, "servername", len, <<>>)
             r2 == Goes(r1, "message", 1, <<M("setup", 0)>>)
  <1>4. f \in OtherFields /\ g \in OtherFields /\ f \in Fields /\ g \in Fields
    <2>1. {"serverinit", "servername"} \subseteq (Handlers \ SessionHandlers) \ {"ntypes", "vcount", "ardparams"}
      BY DEF Handlers, SessionHandlers
    <2>2. len \in Nat /\ len \in Vals /\ 24 \in Nat /\ 0 \in Vals
      BY LenFacts, ValFacts
    <2> QED
      BY <2>1, <2>2, OtherFacts
  <1>5. /\ wire \in Seq(Fields) /\ UNCHANGED <<client, conn, c2s, agreed, left, sent, faulty>>
        /\ wire' = wire \o <<f, g>>
    BY DEF Typed, SrvInit, SrvOnly, Say
  <1>6. Reads(e, f, r1)
    BY <1>3 DEF Reads, ReadsResult, At, Field
  <1>7. r1.h = "servername" /\ r1.len = len /\ r1.c = <<>> /\ r1.n = e.n /\ r1.v = e.v /\ r1.k = e.k
    BY GoesFacts
  <1>8. CASE e.g.readable
    <2>1. r1.g = e.g
      BY GoesFacts
    <2>2. Reads(r1, g, r2)
      <3> HIDE DEF r1
      <3> QED
        BY <1>7, <1>8, <2>1 DEF Reads, ReadsResult, Field
    <2>3. /\ At(r2, "message", 1, <<M("setup", 0)>>) /\ r2.h \notin Dooms
          /\ r2.n = e.n /\ r2.v = e.v /\ r2.k = e.k
      <3> HIDE DEF r1
      <3> QED
        BY <1>7, GoesFacts DEF At, Dooms
    <2> HIDE DEF f, g, r1, r2
    <2>4. MeetsResult(r2)'
      BY <1>2, <2>3 DEF MeetsResult
    <2>5. Meets(r2)'
      BY <1>2, <1>3, <1>5, <2>3, <2>4, MeetsOn
    <2>6. Parses(q, wire', r2)
      BY <1>1, <1>4, <1>5, <1>6, <2>2, ParsesSent
    <2> QED
      BY <1>1, <1>2, <1>4, <1>5, <2>5, <2>6, ShakeSaid
  <1>9. CASE ~e.g.readable
    <2>1. r1.g = e.g
      BY GoesFacts
    <2>2. Reads(r1, g, Doomed("unreadable"))
      <3> HIDE DEF r1
      <3> QED
        BY <1>7, <1>9, <2>1 DEF Reads, ReadsResult, Field
    <2>3. Meets(Doomed("unreadable"))'
      BY <1>2, <1>3, <1>5 DEF Meets, GivenUp, Agrees
    <2> HIDE DEF f, g, r1
    <2>4. Parses(q, wire', Doomed("unreadable"))
      BY <1>1, <1>4, <1>5, <1>6, <2>2, ParsesSent
    <2> QED
      BY <1>1, <1>2, <1>4, <1>5, <2>3, <2>4, ShakeSaid
  <1> QED
    BY <1>8, <1>9

-----------------------------------------------------------------------------
(* The server in a session *)

LEMMA SessionFacts ==
  ASSUME NEW h \in SessionHandlers \ {"fencehead"}, NEW len \in Nat, NEW val \in Vals
  PROVE  /\ Field(h, len, val) \in SessionFields /\ Field(h, len, val) \in Fields
         /\ Field(h, len, val).h = h /\ Field(h, len, val).len = len /\ Field(h, len, val).val = val
  <1>1. Field(h, len, val) \in Fields
    BY FieldFacts DEF SessionHandlers, Handlers
  <1> QED
    BY <1>1 DEF SessionFields, Field

\* What a session sends: a client that still follows reads it to where it meets
\* the server again, and one that does not is left as it is.
LEMMA SessionAlive ==
  ASSUME Typed, Alive, InSession, UNCHANGED <<client, conn, c2s, srv>>,
         faulty # "none" => faulty' = faulty,
         faulty' \in {faulty} \cup ShownFaults,
         NEW f \in SessionFields, NEW g \in SessionFields, NEW h \in SessionFields,
         wire' \in {wire \o <<f>>, wire \o <<f, g>>, wire \o <<f, g, h>>},
         \A q, e : Parses(q, wire, e) /\ Agrees(e) /\ MeetsSession(e)
                     => \E r : Parses(q, wire', r) /\ Meets(r)'
  PROVE  Alive'
  <1>1. PICK q, e : Here(q) /\ Parses(q, wire, e) /\ Meets(e)
    BY DEF Alive
  <1>2. f \in Fields /\ g \in Fields /\ h \in Fields /\ wire \in Seq(Fields)
    BY DEF SessionFields, Typed
  <1>3. InSession' /\ ~Srv("vchosen", "-")' /\ ~Srv("vauth", "-")'
    BY DEF InSession, Srv
  <1>4. Ordered'
    <2>1. \A x \in {f, g, h} : x.h \in SessionHandlers <=> InSession
      BY DEF SessionFields
    <2> QED
      BY <1>2, <1>3, <2>1, OrderedMore DEF Alive
  <1>5. \E r : Parses(q, wire', r) /\ Meets(r)'
    <2>1. CASE Agrees(e)
      <3>1. MeetsSession(e)
        BY <2>1 DEF Agrees, MeetsOpening, MeetsSecurity, MeetsResult, InSession, Srv
      <3> QED
        BY <1>1, <2>1, <3>1
    <2>2. CASE GivenUp(e)
      <3>1. /\ e \in {Doomed("told"), Doomed("garbled")}
            /\ e = Doomed("told") => faulty \in ShownFaults \cup {"none"}
            /\ e = Doomed("garbled") => faulty = "message"
        BY <2>2 DEF GivenUp, InSession, Srv, Doomed
      <3>2. Meets(e)'
        BY <1>3, <3>1 DEF Meets, GivenUp
      <3>3. Reads(e, f, e) /\ Reads(e, g, e) /\ Reads(e, h, e)
        BY <3>1 DEF Reads, Doomed
      <3>4. Parses(q, wire', e)
        BY <1>1, <1>2, <3>3, ParsesSent
      <3> QED
        BY <3>2, <3>4
    <2> QED
      BY <1>1, <2>1, <2>2 DEF Meets
  <1> QED
    BY <1>1, <1>3, <1>4, <1>5, SaidAlive

LEMMA ContinuesFacts ==
  ASSUME NEW q, NEW n \in Nat, NEW rects
  PROVE  /\ Continues(q, n, rects).n = n /\ Continues(q, n, rects).v = q.v
         /\ n = 0 => /\ At(Continues(q, n, rects), "message", 1, <<>>)
                     /\ Continues(q, n, rects).k = Counts(q.k.commits + 1, rects, q.k.fences)
         /\ n > 0 => /\ At(Continues(q, n, rects), "rect", 12, <<>>)
                     /\ Continues(q, n, rects).k = Counts(q.k.commits, rects, q.k.fences)
  <1>1. CASE n = 0
    <2>1. Continues(q, n, rects) = Station("message", 1, <<>>, n, q.v, q.s, q.g,
                          Counts(q.k.commits + 1, rects, q.k.fences))
      BY <1>1 DEF Continues
    <2> QED
      BY <1>1, <2>1 DEF Station, At
  <1>2. CASE n > 0
    <2>1. Continues(q, n, rects) = Station("rect", 12, <<>>, n, q.v, q.s, q.g,
                          Counts(q.k.commits, rects, q.k.fences))
      BY <1>2 DEF Continues
    <2> QED
      BY <1>2, <2>1 DEF Station, At
  <1> QED
    BY <1>1, <1>2

\* The counts of what was sent, and those that come out of it, move together.
LEMMA MeetsTalk ==
  ASSUME Typed, NEW e, Agrees(e), InSession, UNCHANGED <<srv, agreed, faulty>>, left' \in Nat,
         NEW r, r.n = left', r.v = e.v,
         left' = 0 => At(r, "message", 1, <<>>),
         left' > 0 => At(r, "rect", 12, <<>>),
         r.k = Counts(sent'.updates, sent'.rects, sent'.fences)
  PROVE  Meets(r)'
  <1>1. e.v = agreed /\ e.v \in Nat /\ faulty = "none"
    BY DEF Agrees, InSession, Srv
  <1>2. r.h \notin Dooms
    BY DEF At, Dooms
  <1>3. InSession'
    BY DEF InSession, Srv
  <1>4. MeetsSession(r)'
    BY <1>3 DEF MeetsSession
  <1> QED
    BY <1>1, <1>2, <1>3, <1>4 DEF Meets, Agrees

\* What a message adds to the counts the server keeps.
LEMMA CountsAdd ==
  ASSUME Typed, NEW k, k = Counts(sent.updates, sent.rects, sent.fences), NEW n \in Nat,
         NEW rects \in {0, 1}, NEW messages, Tally(messages, IF n = 0 THEN 1 ELSE 0, rects, 0)
  PROVE  /\ n = 0 => Counts(sent'.updates, sent'.rects, sent'.fences) = Counts(k.commits + 1, k.painted + rects, k.fences)
         /\ n > 0 => Counts(sent'.updates, sent'.rects, sent'.fences) = Counts(k.commits, k.painted + rects, k.fences)
         /\ n = 0 \/ n > 0
         /\ k.painted + 0 = k.painted
  <1>1. k.commits = sent.updates /\ k.painted = sent.rects /\ k.fences = sent.fences
    BY DEF Counts
  <1>2. sent.updates \in Nat /\ sent.rects \in Nat /\ sent.fences \in Nat
    BY TypedServer
  <1>3. /\ sent'.updates = sent.updates + (IF n = 0 THEN 1 ELSE 0)
        /\ sent'.rects = sent.rects + rects /\ sent'.fences = sent.fences
    BY <1>2 DEF Tally
  <1> QED
    BY <1>1, <1>2, <1>3

LEMMA UpdateAlive ==
  ASSUME Typed, Alive, NEW n \in 0..MaxRects, SrvUpdate(n)
  PROVE  Alive'
  <1> DEFINE f == Field("message", 1, "update")
             g == Field("update", 3, n)
  <1>1. n \in Nat /\ f \in SessionFields /\ g \in SessionFields /\ f \in Fields /\ g \in Fields
    BY ClientBounds, ValFacts, SessionFacts DEF SessionHandlers, Words
  <1>2. /\ InSession /\ UNCHANGED <<client, conn, c2s, srv, agreed, faulty>>
        /\ wire' = wire \o <<f, g>> /\ left = 0 /\ left' = n
        /\ Tally(1, IF n = 0 THEN 1 ELSE 0, 0, 0)
    BY DEF SrvUpdate, SrvOnly, Speaks, Sends, InSession, Srv
  <1>3. wire \in Seq(Fields)
    BY DEF Typed
  <1>4. ASSUME NEW q, NEW e, Parses(q, wire, e), Agrees(e), MeetsSession(e)
        PROVE  \E r : Parses(q, wire', r) /\ Meets(r)'
    <2> DEFINE r1 == Goes(e, "update", 3, <<>>)
               r2 == Continues(r1, n, r1.k.painted)
    <2>1. At(e, "message", 1, <<>>) /\ e.k = Counts(sent.updates, sent.rects, sent.fences)
      BY <1>2, <1>4 DEF MeetsSession, Agrees
    <2>2. Reads(e, f, r1)
      BY <2>1 DEF Reads, ReadsMessage, At, Field
    <2>3. r1.h = "update" /\ r1.len = 3 /\ r1.c = <<>> /\ r1.k = e.k /\ r1.v = e.v
      BY GoesFacts
    <2>4. Reads(r1, g, r2)
      <3> HIDE DEF r1
      <3> QED
        BY <2>3 DEF Reads, ReadsUpdate, Field
    <2>9. r2.n = n /\ r2.v = e.v
      <3> HIDE DEF r1
      <3>1. r2.n = n /\ r2.v = r1.v
        BY DEF Continues, Station
      <3> HIDE DEF r2
      <3> QED
        BY <2>3, <3>1
    <2>5. /\ n = 0 => At(r2, "message", 1, <<>>) /\ r2.k = Counts(r1.k.commits + 1, r1.k.painted, r1.k.fences)
          /\ n > 0 => At(r2, "rect", 12, <<>>) /\ r2.k = Counts(r1.k.commits, r1.k.painted, r1.k.fences)
      <3> HIDE DEF r1
      <3>1. n \in Nat
        BY <1>1
      <3>2. CASE n = 0
        BY <3>2 DEF Continues, Station, At
      <3>3. CASE n > 0
        BY <3>3 DEF Continues, Station, At
      <3> QED
        BY <3>1, <3>2, <3>3
    <2> HIDE DEF r1, r2
    <2>6. r2.k = Counts(sent'.updates, sent'.rects, sent'.fences)
      <3>1. r1.k = Counts(sent.updates, sent.rects, sent.fences)
        BY <2>1, <2>3
      <3>2. n \in Nat /\ Tally(1, IF n = 0 THEN 1 ELSE 0, 0, 0)
        BY <1>1, <1>2
      <3>3. /\ n = 0 => Counts(sent'.updates, sent'.rects, sent'.fences)
                          = Counts(r1.k.commits + 1, r1.k.painted + 0, r1.k.fences)
            /\ n > 0 => Counts(sent'.updates, sent'.rects, sent'.fences)
                          = Counts(r1.k.commits, r1.k.painted + 0, r1.k.fences)
            /\ n = 0 \/ n > 0
            /\ r1.k.painted + 0 = r1.k.painted
        BY <3>1, <3>2, CountsAdd
      <3> QED
        BY <2>5, <3>3
    <2>7. Meets(r2)'
      BY <1>1, <1>2, <1>4, <2>5, <2>6, <2>9, MeetsTalk
    <2>8. Parses(q, wire', r2)
      <3> HIDE DEF f, g
      <3> QED
        BY <1>1, <1>2, <1>3, <1>4, <2>2, <2>4, ParsesSent
    <2> QED
      BY <2>7, <2>8
  <1> HIDE DEF f, g
  <1> QED
    BY <1>1, <1>2, <1>4, SessionAlive

LEMMA RectAlive ==
  ASSUME Typed, Alive, NEW enc \in Encodings, NEW len \in Lens, SrvRect(enc, len)
  PROVE  Alive'
  <1> DEFINE f(kind, size) == Field("rect", 12, [enc |-> kind, len |-> size])
             g(state) == Field("pixels", len, state)
  <1>1. /\ \A kind \in {"pixels", "control", "last", "unknown"}, size \in Nat :
               f(kind, size) \in SessionFields /\ f(kind, size) \in Fields
        /\ \A state \in {"ok", "broken"} : g(state) \in SessionFields /\ g(state) \in Fields
    <2>1. \A kind \in {"pixels", "control", "last", "unknown"}, size \in Nat : [enc |-> kind, len |-> size] \in RectHeads
      BY DEF RectHeads
    <2>2. \A kind \in {"pixels", "control", "last", "unknown"}, size \in Nat : [enc |-> kind, len |-> size] \in Vals
      BY <2>1, ValFacts
    <2>3. "rect" \in SessionHandlers /\ "pixels" \in SessionHandlers /\ 12 \in Nat /\ len \in Nat
      BY LenFacts DEF SessionHandlers
    <2>4. "ok" \in Vals /\ "broken" \in Vals
      BY ValFacts DEF Words
    <2>5. {"rect", "pixels"} \subseteq SessionHandlers \ {"fencehead"}
      BY DEF SessionHandlers
    <2>6. \A kind \in {"pixels", "control", "last", "unknown"}, size \in Nat :
             f(kind, size) \in SessionFields /\ f(kind, size) \in Fields
      <3>1. SUFFICES ASSUME NEW kind \in {"pixels", "control", "last", "unknown"}, NEW size \in Nat
                     PROVE  f(kind, size) \in SessionFields /\ f(kind, size) \in Fields
        OBVIOUS
      <3>2. PICK v \in Vals : v = [enc |-> kind, len |-> size]
        BY <2>2
      <3> QED
        BY <2>3, <2>5, <3>2, SessionFacts
    <2>7. \A state \in {"ok", "broken"} : g(state) \in SessionFields /\ g(state) \in Fields
      <3>1. SUFFICES ASSUME NEW state \in Vals PROVE g(state) \in SessionFields /\ g(state) \in Fields
        BY <2>4
      <3> QED
        BY <2>3, <2>5, SessionFacts
    <2> HIDE DEF f, g
    <2> QED
      BY <2>6, <2>7
  <1>2. /\ InSession /\ UNCHANGED <<client, conn, c2s, srv, agreed>> /\ left > 0 /\ left' \in Nat
        /\ left' = (IF enc = "last" THEN 0 ELSE left - 1)
        /\ Tally(0, IF left' = 0 THEN 1 ELSE 0, IF enc = "pixels" /\ faulty' = faulty THEN 1 ELSE 0, 0)
    BY TypedServer DEF SrvRect, SrvOnly, Speaks, InSession, Srv
  <1>3. wire \in Seq(Fields) /\ len \in Nat /\ 0 \in Nat
    BY LenFacts DEF Typed
  <1>4. ASSUME NEW e, Agrees(e), MeetsSession(e)
        PROVE  /\ At(e, "rect", 12, <<>>) /\ e.n = left /\ e.n > 0 /\ e.v = agreed
               /\ e.k = Counts(sent.updates, sent.rects, sent.fences) /\ faulty = "none"
    BY <1>2, <1>4, TypedServer DEF MeetsSession, Agrees, InSession, Srv
  <1>5. CASE enc \in {"control", "last"} /\ faulty' = faulty /\ wire' = wire \o <<f(enc, 0)>>
    <2>1. ASSUME NEW q, NEW e, Parses(q, wire, e), Agrees(e), MeetsSession(e)
          PROVE  \E r : Parses(q, wire', r) /\ Meets(r)'
      <3>0. PICK n \in Nat : n = left'
        BY <1>2
      <3> DEFINE r == Continues(e, n, e.k.painted)
      <3>1. Reads(e, f(enc, 0), r)
        BY <1>2, <1>4, <1>5, <2>1, <3>0 DEF Reads, ReadsUpdate, At, Field
      <3>7. r.n = n /\ r.v = e.v
        BY DEF Continues, Station
      <3>2. /\ n = 0 => At(r, "message", 1, <<>>) /\ r.k = Counts(e.k.commits + 1, e.k.painted, e.k.fences)
            /\ n > 0 => At(r, "rect", 12, <<>>) /\ r.k = Counts(e.k.commits, e.k.painted, e.k.fences)
        BY ContinuesFacts
      <3> HIDE DEF r, f
      <3>3. r.k = Counts(sent'.updates, sent'.rects, sent'.fences)
        <4>1. e.k = Counts(sent.updates, sent.rects, sent.fences)
          BY <1>4, <2>1
        <4>2. Tally(0, IF n = 0 THEN 1 ELSE 0, 0, 0)
          BY <1>2, <1>5, <3>0
        <4> QED
          BY <3>2, <4>1, <4>2, CountsAdd
      <3>4. Meets(r)'
        BY <1>2, <1>5, <2>1, <3>0, <3>2, <3>3, <3>7, MeetsTalk
      <3>5. f(enc, 0) \in Fields
        BY <1>1, <1>3, <1>5
      <3>6. Parses(q, wire', r)
        BY <1>3, <1>5, <2>1, <3>1, <3>5, ParsesSent
      <3> QED
        BY <3>4, <3>6
    <2>2. f(enc, 0) \in SessionFields
      BY <1>1, <1>3, <1>5
    <2> HIDE DEF f
    <2> QED
      BY <1>2, <1>5, <2>1, <2>2, SessionAlive
  <1>6. CASE enc = "pixels" /\ faulty' = faulty /\ wire' = wire \o <<f(enc, len), g("ok")>>
    <2>1. ASSUME NEW q, NEW e, Parses(q, wire, e), Agrees(e), MeetsSession(e)
          PROVE  \E r : Parses(q, wire', r) /\ Meets(r)'
      <3>0. PICK n \in Nat : n = left' /\ n = e.n - 1
        BY <1>2, <1>4, <1>6, <2>1
      <3> DEFINE r1 == Station("pixels", len, <<>>, n, e.v, e.s, e.g, e.k)
                 r2 == Continues(r1, n, r1.k.painted + 1)
      <3>1. Reads(e, f(enc, len), r1)
        BY <1>4, <1>6, <2>1, <3>0 DEF Reads, ReadsUpdate, At, Field
      <3>2. r1.h = "pixels" /\ r1.len = len /\ r1.c = <<>> /\ r1.n = n /\ r1.v = e.v /\ r1.k = e.k
        BY DEF Station
      <3>3. Reads(r1, g("ok"), r2)
        <4> HIDE DEF r1
        <4> QED
          BY <3>2 DEF Reads, ReadsUpdate, Field
      <3>9. r2.n = n /\ r2.v = e.v
        <4> HIDE DEF r1
        <4> QED
          BY <3>2 DEF Continues, Station
      <3>4. /\ n = 0 => At(r2, "message", 1, <<>>) /\ r2.k = Counts(r1.k.commits + 1, r1.k.painted + 1, r1.k.fences)
            /\ n > 0 => At(r2, "rect", 12, <<>>) /\ r2.k = Counts(r1.k.commits, r1.k.painted + 1, r1.k.fences)
        <4> HIDE DEF r1
        <4> QED
          BY ContinuesFacts
      <3> HIDE DEF r1, r2, f, g
      <3>5. r2.k = Counts(sent'.updates, sent'.rects, sent'.fences)
        <4>1. r1.k = Counts(sent.updates, sent.rects, sent.fences)
          BY <1>4, <2>1, <3>2
        <4>2. Tally(0, IF n = 0 THEN 1 ELSE 0, 1, 0)
          BY <1>2, <1>6, <3>0
        <4> QED
          BY <3>4, <4>1, <4>2, CountsAdd
      <3>6. Meets(r2)'
        BY <1>2, <1>6, <2>1, <3>0, <3>4, <3>5, <3>9, MeetsTalk
      <3>7. f(enc, len) \in Fields /\ g("ok") \in Fields
        BY <1>1, <1>3, <1>6
      <3>8. Parses(q, wire', r2)
          BY <1>3, <1>6, <2>1, <3>1, <3>3, <3>7, ParsesSent
      <3> QED
        BY <3>6, <3>8
    <2>2. f(enc, len) \in SessionFields /\ g("ok") \in SessionFields
      BY <1>1, <1>3, <1>6
    <2> HIDE DEF f, g
    <2> QED
      BY <1>2, <1>6, <2>1, <2>2, SessionAlive
  <1>7. CASE Breaks("payload") /\ wire' = wire \o <<f("pixels", len), g("broken")>>
    <2>1. ASSUME NEW q, NEW e, Parses(q, wire, e), Agrees(e), MeetsSession(e)
          PROVE  \E r : Parses(q, wire', r) /\ Meets(r)'
      <3> DEFINE r1 == Station("pixels", len, <<>>, e.n - 1, e.v, e.s, e.g, e.k)
      <3>1. Reads(e, f("pixels", len), r1)
        BY <1>4, <2>1 DEF Reads, ReadsUpdate, At, Field
      <3>2. r1.h = "pixels" /\ r1.len = len /\ r1.c = <<>>
        BY DEF Station
      <3>3. Reads(r1, g("broken"), Doomed("told"))
        <4> HIDE DEF r1
        <4> QED
          BY <3>2 DEF Reads, ReadsUpdate, Field
      <3>4. Meets(Doomed("told"))'
        BY <1>2, <1>7 DEF Meets, GivenUp, Breaks, ShownFaults, InSession, Srv
      <3>5. f("pixels", len) \in Fields /\ g("broken") \in Fields
        BY <1>1, <1>3
      <3>6. Parses(q, wire', Doomed("told"))
        <4> HIDE DEF f, g, r1
        <4> QED
          BY <1>3, <1>7, <2>1, <3>1, <3>3, <3>5, ParsesSent
      <3> QED
        BY <3>4, <3>6
    <2>2. f("pixels", len) \in SessionFields /\ g("broken") \in SessionFields
      BY <1>1, <1>3
    <2>3. faulty = "none" /\ faulty' \in {faulty} \cup ShownFaults
      BY <1>7 DEF Breaks, ShownFaults
    <2> HIDE DEF f, g
    <2> QED
      BY <1>2, <1>7, <2>1, <2>2, <2>3, SessionAlive
  <1>8. CASE Breaks("encoding") /\ wire' = wire \o <<f("unknown", 0)>>
    <2>1. ASSUME NEW q, NEW e, Parses(q, wire, e), Agrees(e), MeetsSession(e)
          PROVE  \E r : Parses(q, wire', r) /\ Meets(r)'
      <3>1. Reads(e, f("unknown", 0), Doomed("told"))
        BY <1>4, <2>1 DEF Reads, ReadsUpdate, At, Field
      <3>2. Meets(Doomed("told"))'
        BY <1>2, <1>8 DEF Meets, GivenUp, Breaks, ShownFaults, InSession, Srv
      <3>3. f("unknown", 0) \in Fields
        BY <1>1, <1>3
      <3>4. Parses(q, wire', Doomed("told"))
        <4> HIDE DEF f
        <4> QED
          BY <1>3, <1>8, <2>1, <3>1, <3>3, ParsesSent
      <3> QED
        BY <3>2, <3>4
    <2>2. f("unknown", 0) \in SessionFields
      BY <1>1, <1>3
    <2>3. faulty = "none" /\ faulty' \in {faulty} \cup ShownFaults
      BY <1>8 DEF Breaks, ShownFaults
    <2> HIDE DEF f
    <2> QED
      BY <1>2, <1>8, <2>1, <2>2, <2>3, SessionAlive
  <1> QED
    BY <1>5, <1>6, <1>7, <1>8 DEF SrvRect, Sends

LEMMA MessageAlive ==
  ASSUME Typed, Alive, NEW kind \in Messages, NEW len \in Lens \cup {Limit}, NEW request \in BOOLEAN,
         SrvMessage(kind, len, request)
  PROVE  Alive'
  <1> DEFINE f(what) == Field("message", 1, what)
             head == [len |-> len, request |-> request]
  <1>1. /\ \A what \in {"bell", "text", "colourmap", "fence", "unknown"} :
               f(what) \in SessionFields /\ f(what) \in Fields
        /\ \A h \in SessionHandlers \ {"fencehead"}, size \in Nat :
               Field(h, size, 0) \in SessionFields /\ Field(h, size, 0) \in Fields
        /\ \A h \in SessionHandlers \ {"fencehead"}, size \in Nat :
               Field(h, size, len) \in SessionFields /\ Field(h, size, len) \in Fields
        /\ len <= MaxU8 => Field("fencehead", 8, head) \in SessionFields /\ Field("fencehead", 8, head) \in Fields
    <2>1. head \in FenceHeads /\ 0 \in Vals /\ len \in Vals
      <3>1. head \in FenceHeads /\ len \in Nat
        BY LenFacts DEF FenceHeads
      <3> QED
        BY <3>1, ValFacts
    <2>4. len <= MaxU8 => Field("fencehead", 8, head) \in SessionFields /\ Field("fencehead", 8, head) \in Fields
      <3>1. head.len = len
        OBVIOUS
      <3> HIDE DEF head
      <3> QED
        BY <2>1, <3>1, CountFacts
    <2>2. \A what \in {"bell", "text", "colourmap", "fence", "unknown"} : what \in Vals
      BY ValFacts DEF Words
    <2>3. "message" \in SessionHandlers \ {"fencehead"} /\ 1 \in Nat
      BY DEF SessionHandlers
    <2> HIDE DEF head
    <2> QED
      BY <2>1, <2>2, <2>3, <2>4, SessionFacts
  <1>2. /\ InSession /\ UNCHANGED <<client, conn, c2s, srv, agreed, left>> /\ left = 0
        /\ Tally(1, 0, 0, IF kind = "fence" /\ request /\ faulty' = faulty THEN 1 ELSE 0)
    <2> HIDE DEF f, head
    <2>1. Speaks("session") /\ left = 0 /\ UNCHANGED <<c2s, srv, agreed, sec, left>> /\ SrvOnly
      BY DEF SrvMessage
    <2>2. Tally(1, 0, 0, IF kind = "fence" /\ request /\ faulty' = faulty THEN 1 ELSE 0)
      BY DEF SrvMessage
    <2> QED
      BY <2>1, <2>2 DEF SrvOnly, Speaks, InSession, Srv
  <1>3. wire \in Seq(Fields) /\ len \in Nat /\ Limit \in Nat /\ Limit > 0
    <2>1. Limit > 0
      BY LenFacts DEF MaxU16
    <2> QED
      BY <2>1, LenFacts DEF Typed
  <1>4. ASSUME NEW e, Agrees(e), MeetsSession(e)
        PROVE  /\ At(e, "message", 1, <<>>) /\ e.n = left /\ faulty = "none"
               /\ e.k = Counts(sent.updates, sent.rects, sent.fences)
    BY <1>2, <1>4 DEF MeetsSession, Agrees
  <1>5. ASSUME NEW what, NEW h, NEW size \in Nat, NEW e, Agrees(e), MeetsSession(e),
               \/ what = "text" /\ h = "texthead"
               \/ what = "colourmap" /\ h = "maphead"
               \/ what = "fence" /\ h = "fencehead",
               size = (IF what = "text" THEN 7 ELSE IF what = "colourmap" THEN 5 ELSE 8)
        PROVE  Reads(e, f(what), Goes(e, h, size, <<>>))
    BY <1>4, <1>5 DEF Reads, ReadsMessage, At, Field
  <1>6. ASSUME NEW e, Agrees(e), MeetsSession(e), faulty' = faulty, ~(kind = "fence" /\ request),
               NEW r, At(r, "message", 1, <<>>), r.n = e.n, r.v = e.v, r.k = e.k
        PROVE  Meets(r)'
    <2>1. sent'.updates = sent.updates /\ sent'.rects = sent.rects /\ sent'.fences = sent.fences
      BY <1>2, <1>6, TypedServer DEF Tally
    <2>2. r.n = left' /\ left' = 0 /\ left' \in Nat /\ r.k = Counts(sent'.updates, sent'.rects, sent'.fences)
      BY <1>2, <1>4, <1>6, <2>1
    <2> QED
      BY <1>2, <1>6, <2>2, MeetsTalk
  <1>7. CASE faulty' = faulty /\ kind = "bell" /\ wire' = wire \o <<f("bell")>>
    <2>1. ASSUME NEW q, NEW e, Parses(q, wire, e), Agrees(e), MeetsSession(e)
          PROVE  \E r : Parses(q, wire', r) /\ Meets(r)'
      <3> DEFINE r == Goes(e, "message", 1, <<>>)
      <3>1. Reads(e, f("bell"), r)
        BY <1>4, <2>1 DEF Reads, ReadsMessage, At, Field
      <3>2. At(r, "message", 1, <<>>) /\ r.n = e.n /\ r.v = e.v /\ r.k = e.k
        BY GoesFacts DEF At
      <3> HIDE DEF r, f
      <3>3. Meets(r)'
        BY <1>6, <1>7, <2>1, <3>2
      <3>4. Parses(q, wire', r)
        BY <1>1, <1>3, <1>7, <2>1, <3>1, ParsesSent
      <3> QED
        BY <3>3, <3>4
    <2> HIDE DEF f
    <2> QED
      BY <1>1, <1>2, <1>7, <2>1, SessionAlive
  <1>8. CASE Breaks("message") /\ wire' = wire \o <<f("unknown")>>
    <2>1. ASSUME NEW q, NEW e, Parses(q, wire, e), Agrees(e), MeetsSession(e)
          PROVE  \E r : Parses(q, wire', r) /\ Meets(r)'
      <3>1. Reads(e, f("unknown"), Doomed("garbled"))
        BY <1>4, <2>1 DEF Reads, ReadsMessage, At, Field
      <3>2. Meets(Doomed("garbled"))'
        BY <1>2, <1>8 DEF Meets, GivenUp, Breaks, InSession, Srv
      <3> HIDE DEF f
      <3>3. Parses(q, wire', Doomed("garbled"))
        BY <1>1, <1>3, <1>8, <2>1, <3>1, ParsesSent
      <3> QED
        BY <3>2, <3>3
    <2>2. faulty = "none" /\ faulty' \in {faulty} \cup ShownFaults
      BY <1>8 DEF Breaks, ShownFaults
    <2> HIDE DEF f
    <2> QED
      BY <1>1, <1>2, <1>8, <2>1, <2>2, SessionAlive
  <1>9. ASSUME NEW what \in {"text", "colourmap"}, kind = what,
               NEW h1 \in SessionHandlers \ {"fencehead"}, NEW h2 \in SessionHandlers \ {"fencehead"},
               NEW size \in Nat, NEW full \in Nat,
               faulty' = faulty \/ (Breaks("text") /\ ~requirePayload(full)),
               IF what = "text" THEN h1 = "texthead" /\ h2 = "text" /\ size = 7 /\ full = len
                                ELSE h1 = "maphead" /\ h2 = "map" /\ size = 5 /\ full = 6 * len,
               wire' = wire \o <<f(what), Field(h1, size, len), Field(h2, full, 0)>>
        PROVE  Alive'
    <2> DEFINE g == Field(h1, size, len)
               h == Field(h2, full, 0)
    <2>1. f(what) \in SessionFields /\ f(what) \in Fields /\ g \in SessionFields /\ g \in Fields
          /\ h \in SessionFields /\ h \in Fields
      BY <1>1, <1>9
    <2>2. /\ requirePayload(full) => faulty' = faulty
          /\ faulty = "none" => faulty' \in ShownFaults \cup {"none"}
          /\ faulty # "none" => faulty' = faulty
          /\ faulty' \in {faulty} \cup ShownFaults
      BY <1>9 DEF Breaks, ShownFaults
    <2>3. ASSUME NEW q, NEW e, Parses(q, wire, e), Agrees(e), MeetsSession(e)
          PROVE  \E r : Parses(q, wire', r) /\ Meets(r)'
      <3> DEFINE r1 == Goes(e, h1, size, <<>>)
                 r2 == Goes(r1, h2, full, <<>>)
                 r3 == Goes(r2, "message", 1, <<>>)
      <3>1. Reads(e, f(what), r1)
        BY <1>5, <1>9, <2>3
      <3>2. r1.h = h1 /\ r1.len = size /\ r1.c = <<>> /\ r1.n = e.n /\ r1.v = e.v /\ r1.k = e.k
        BY GoesFacts
      <3> HIDE DEF r1
      <3>3. r2.h = h2 /\ r2.len = full /\ r2.c = <<>> /\ r2.n = e.n /\ r2.v = e.v /\ r2.k = e.k
        BY <3>2, GoesFacts
      <3>4. CASE requirePayload(full)
        <4>1. Reads(r1, g, r2)
          BY <1>9, <3>2, <3>4 DEF Reads, ReadsMessage, Field
        <4> HIDE DEF r2
        <4>2. Reads(r2, h, r3)
          BY <1>9, <3>3 DEF Reads, ReadsMessage, Field
        <4>3. At(r3, "message", 1, <<>>) /\ r3.n = e.n /\ r3.v = e.v /\ r3.k = e.k
          BY <3>3, GoesFacts DEF At
        <4> HIDE DEF r3, f, g, h
        <4>4. Meets(r3)'
          BY <1>6, <1>9, <2>2, <2>3, <3>4, <4>3
        <4>5. wire' = wire \o <<f(what), g, h>>
          BY <1>9 DEF g, h
        <4>6. Parses(q, wire', r3)
          BY <1>3, <2>1, <2>3, <3>1, <4>1, <4>2, <4>5, ParsesSent
        <4> QED
          BY <4>4, <4>6
      <3>5. CASE ~requirePayload(full)
        <4>1. Reads(r1, g, Doomed("told"))
          BY <1>9, <3>2, <3>5 DEF Reads, ReadsMessage, Field
        <4>2. Reads(Doomed("told"), h, Doomed("told"))
          BY DEF Reads, Doomed
        <4>3. Meets(Doomed("told"))'
          BY <1>2, <1>4, <2>2, <2>3 DEF Meets, GivenUp, InSession, Srv
        <4> HIDE DEF f, g, h
        <4>5. wire' = wire \o <<f(what), g, h>>
          BY <1>9 DEF g, h
        <4>6. Parses(q, wire', Doomed("told"))
          BY <1>3, <2>1, <2>3, <3>1, <4>1, <4>2, <4>5, ParsesSent
        <4> QED
          BY <4>3, <4>6
      <3> QED
        BY <3>4, <3>5
    <2>4. wire' = wire \o <<f(what), g, h>>
      BY <1>9
    <2> HIDE DEF f, g, h
    <2> QED
      BY <1>2, <2>1, <2>2, <2>3, <2>4, SessionAlive
  <1>10. CASE kind = "fence" /\ faulty' = faulty /\ len = 0 /\ wire' = wire \o <<f("fence"), Field("fencehead", 8, head)>>
    <2> DEFINE g == Field("fencehead", 8, head)
    <2>1. f("fence") \in SessionFields /\ f("fence") \in Fields /\ g \in SessionFields /\ g \in Fields
      BY <1>1, <1>10 DEF MaxU8
    <2>2. ASSUME NEW q, NEW e, Parses(q, wire, e), Agrees(e), MeetsSession(e)
          PROVE  \E r : Parses(q, wire', r) /\ Meets(r)'
      <3> DEFINE r1 == Goes(e, "fencehead", 8, <<>>)
      <3>1. Reads(e, f("fence"), r1)
        BY <1>5, <2>2
      <3>2. r1.h = "fencehead" /\ r1.len = 8 /\ r1.c = <<>> /\ r1.n = e.n /\ r1.v = e.v /\ r1.k = e.k
        BY GoesFacts
      <3> HIDE DEF r1
      <3>3. ASSUME NEW r, Reads(r1, g, r), Meets(r)' PROVE \E x : Parses(q, wire', x) /\ Meets(x)'
        <4>1. wire' = wire \o <<f("fence"), g>>
          BY <1>10
        <4> HIDE DEF f, g
        <4>2. Parses(q, wire', r)
          BY <1>3, <2>1, <2>2, <3>1, <3>3, <4>1, ParsesSent
        <4> QED
          BY <3>3, <4>2
      <3>4. CASE request
        <4> DEFINE r == Replies(r1)
        <4>1. Reads(r1, g, r)
          BY <1>10, <3>2, <3>4 DEF Reads, ReadsMessage, Field
        <4>2. /\ At(r, "message", 1, <<>>) /\ r.n = e.n /\ r.v = e.v
              /\ r.k = Counts(e.k.commits, e.k.painted, e.k.fences + 1)
          BY <3>2 DEF Replies, Station, At
        <4> HIDE DEF r
        <4>3. r.k = Counts(sent'.updates, sent'.rects, sent'.fences)
          BY <1>2, <1>4, <1>10, <2>2, <3>4, <4>2, TypedServer DEF Tally, Counts
        <4>4. Meets(r)'
          BY <1>2, <1>4, <1>10, <2>2, <4>2, <4>3, MeetsTalk
        <4> QED
          BY <3>3, <4>1, <4>4
      <3>5. CASE ~request
        <4> DEFINE r == Goes(r1, "message", 1, <<>>)
        <4>1. Reads(r1, g, r)
          BY <1>10, <3>2, <3>5 DEF Reads, ReadsMessage, Field
        <4>2. At(r, "message", 1, <<>>) /\ r.n = e.n /\ r.v = e.v /\ r.k = e.k
          BY <3>2, GoesFacts DEF At
        <4> HIDE DEF r
        <4>3. Meets(r)'
          BY <1>6, <1>10, <2>2, <3>5, <4>2
        <4> QED
          BY <3>3, <4>1, <4>3
      <3> QED
        BY <3>4, <3>5
    <2>3. wire' = wire \o <<f("fence"), g>>
      BY <1>10
    <2> HIDE DEF f, g
    <2> QED
      BY <1>2, <1>10, <2>1, <2>2, <2>3, SessionAlive
  <1>11. CASE /\ kind = "fence" /\ faulty' = faulty /\ len # 0 /\ len <= MaxU8
              /\ wire' = wire \o <<f("fence"), Field("fencehead", 8, head),
                                   Field(IF request THEN "fencerequest" ELSE "fence", len, 0)>>
    <2> DEFINE last == IF request THEN "fencerequest" ELSE "fence"
               g == Field("fencehead", 8, head)
               h == Field(last, len, 0)
    <2>1. /\ f("fence") \in SessionFields /\ f("fence") \in Fields /\ g \in SessionFields /\ g \in Fields
          /\ h \in SessionFields /\ h \in Fields
      BY <1>1, <1>3, <1>11 DEF SessionHandlers
    <2>2. ASSUME NEW q, NEW e, Parses(q, wire, e), Agrees(e), MeetsSession(e)
          PROVE  \E r : Parses(q, wire', r) /\ Meets(r)'
      <3> DEFINE r1 == Goes(e, "fencehead", 8, <<>>)
                 r2 == Goes(r1, last, len, <<>>)
      <3>1. Reads(e, f("fence"), r1)
        BY <1>5, <2>2
      <3>2. r1.h = "fencehead" /\ r1.len = 8 /\ r1.c = <<>> /\ r1.n = e.n /\ r1.v = e.v /\ r1.k = e.k
        BY GoesFacts
      <3> HIDE DEF r1
      <3>3. Reads(r1, g, r2)
        BY <1>3, <1>11, <3>2 DEF Reads, ReadsMessage, Field
      <3>4. r2.h = last /\ r2.len = len /\ r2.c = <<>> /\ r2.n = e.n /\ r2.v = e.v /\ r2.k = e.k
        BY <3>2, GoesFacts
      <3> HIDE DEF r2
      <3>5. ASSUME NEW r, Reads(r2, h, r), Meets(r)' PROVE \E x : Parses(q, wire', x) /\ Meets(x)'
        <4>1. wire' = wire \o <<f("fence"), g, h>>
          BY <1>11
        <4> HIDE DEF f, g, h
        <4>2. Parses(q, wire', r)
          BY <1>3, <2>1, <2>2, <3>1, <3>3, <3>5, <4>1, ParsesSent
        <4> QED
          BY <3>5, <4>2
      <3>6. CASE request
        <4> DEFINE r == Replies(r2)
        <4>1. Reads(r2, h, r)
          BY <3>4, <3>6 DEF Reads, ReadsMessage, Field
        <4>2. /\ At(r, "message", 1, <<>>) /\ r.n = e.n /\ r.v = e.v
              /\ r.k = Counts(e.k.commits, e.k.painted, e.k.fences + 1)
          BY <3>4 DEF Replies, Station, At
        <4> HIDE DEF r
        <4>3. r.k = Counts(sent'.updates, sent'.rects, sent'.fences)
          BY <1>2, <1>4, <1>11, <2>2, <3>6, <4>2, TypedServer DEF Tally, Counts
        <4>4. Meets(r)'
          BY <1>2, <1>4, <1>11, <2>2, <4>2, <4>3, MeetsTalk
        <4> QED
          BY <3>5, <4>1, <4>4
      <3>7. CASE ~request
        <4> DEFINE r == Goes(r2, "message", 1, <<>>)
        <4>1. Reads(r2, h, r)
          BY <3>4, <3>7 DEF Reads, ReadsMessage, Field
        <4>2. At(r, "message", 1, <<>>) /\ r.n = e.n /\ r.v = e.v /\ r.k = e.k
          BY <3>4, GoesFacts DEF At
        <4> HIDE DEF r
        <4>3. Meets(r)'
          BY <1>6, <1>11, <2>2, <3>7, <4>2
        <4> QED
          BY <3>5, <4>1, <4>3
      <3> QED
        BY <3>6, <3>7
    <2>3. wire' = wire \o <<f("fence"), g, h>>
      BY <1>11
    <2> HIDE DEF f, g, h
    <2> QED
      BY <1>2, <1>11, <2>1, <2>2, <2>3, SessionAlive
  <1>12. CASE kind = "fence" /\ faulty' = faulty /\ len <= MaxU8
              /\ wire' = wire \o (<<f("fence"), Field("fencehead", 8, head)>> \o
                   (IF len = 0 THEN <<>> ELSE <<Field(IF request THEN "fencerequest" ELSE "fence", len, 0)>>))
    <2> DEFINE g == Field("fencehead", 8, head)
               h == Field(IF request THEN "fencerequest" ELSE "fence", len, 0)
    <2>1. CASE len = 0
      <3>1. <<f("fence"), g>> \o <<>> = <<f("fence"), g>>
        <4> HIDE DEF f, g
        <4> QED
          BY PairEmpty
      <3> QED
        BY <1>10, <1>12, <2>1, <3>1
    <2>2. CASE len # 0
      <3>1. <<f("fence"), g>> \o <<h>> = <<f("fence"), g, h>>
        <4> HIDE DEF f, g, h
        <4> QED
          BY TripleConcat
      <3> QED
        BY <1>11, <1>12, <2>2, <3>1
    <2> QED
      BY <2>1, <2>2
  <1>13. CASE kind = "text" /\ Length(len, "text") /\ wire' = wire \o <<f("text"), Field("texthead", 7, len), Field("text", len, 0)>>
    <2>1. faulty' = faulty \/ (Breaks("text") /\ ~requirePayload(len))
      BY <1>3, <1>13 DEF Length, OneOf, requirePayload
    <2>2. "texthead" \in SessionHandlers \ {"fencehead"} /\ "text" \in SessionHandlers \ {"fencehead"} /\ 7 \in Nat
      BY DEF SessionHandlers
    <2> HIDE DEF f
    <2> QED
      BY <1>3, <1>9, <1>13, <2>1, <2>2
  <1>14. CASE /\ kind = "colourmap" /\ OneOf(Lengths, len, Limit, "text")
              /\ wire' = wire \o <<f("colourmap"), Field("maphead", 5, len), Field("map", 6 * len, 0)>>
    <2>1. PICK full \in Nat : full = 6 * len
      BY <1>3
    <2>2. "maphead" \in SessionHandlers \ {"fencehead"} /\ "map" \in SessionHandlers \ {"fencehead"} /\ 5 \in Nat
      BY DEF SessionHandlers
    <2>4. faulty' = faulty \/ (Breaks("text") /\ ~requirePayload(full))
      BY <1>3, <1>14, <2>1 DEF OneOf, requirePayload
    <2>3. wire' = wire \o <<f("colourmap"), Field("maphead", 5, len), Field("map", full, 0)>>
      BY <1>14, <2>1
    <2> HIDE DEF f
    <2> QED
      BY <1>9, <1>14, <2>1, <2>2, <2>3, <2>4
  <1>15. \/ kind = "bell" /\ faulty' = faulty /\ wire' = wire \o <<f("bell")>>
         \/ /\ kind = "text" /\ Length(len, "text")
            /\ wire' = wire \o <<f("text"), Field("texthead", 7, len), Field("text", len, 0)>>
         \/ /\ kind = "colourmap" /\ OneOf(Lengths, len, Limit, "text")
            /\ wire' = wire \o <<f("colourmap"), Field("maphead", 5, len), Field("map", 6 * len, 0)>>
         \/ /\ kind = "fence" /\ faulty' = faulty /\ len <= MaxU8
            /\ wire' = wire \o (<<f("fence"), Field("fencehead", 8, head)>> \o
                   (IF len = 0 THEN <<>> ELSE <<Field(IF request THEN "fencerequest" ELSE "fence", len, 0)>>))
         \/ Breaks("message") /\ wire' = wire \o <<f("unknown")>>
    BY DEF SrvMessage, Sends
  <1> HIDE DEF f, head
  <1> QED
    BY <1>7, <1>8, <1>12, <1>13, <1>14, <1>15

-----------------------------------------------------------------------------
(* The server hears what the client wrote *)

\* A handler that waits is none of the ends.
LEMMA WaitsNoDoom ==
  ASSUME Typed, NEW q, Here(q)
  PROVE  q.h \in Handlers /\ q.h \notin Dooms
  BY DEF Typed, TypeOK, Here, Handlers, Dooms

\* While the server has yet to read, nothing is on its way.
LEMMA UnreadEmpty ==
  ASSUME Typed, NEW q, NEW e, Here(q), Parses(q, wire, e), ~InSession, c2s # <<>>
  PROVE  wire = <<>> /\ q = e
  <1>1. q.c # <<>> /\ q.h \notin Dooms /\ wire \in Seq(Fields)
    BY WaitsNoDoom DEF Here, Typed
  <1>2. wire = <<>>
    <2> SUFFICES ASSUME wire # <<>> PROVE FALSE
      OBVIOUS
    <2>1. PICK r : Reads(q, Head(wire), r)
      BY <1>1, ParsesHead
    <2> QED
      BY <1>1, <2>1 DEF Reads, Dooms
  <1> QED
    BY <1>2, ParsesNothing

LEMMA OneHeard == \A x : <<x>> # <<>> /\ Head(<<x>>) = x /\ Tail(<<x>>) = <<>>
  OBVIOUS

LEMMA TwoHeard == \A x, y : <<x, y>> # <<>> /\ Head(<<x, y>>) = x /\ Tail(<<x, y>>) = <<y>>
  OBVIOUS

LEMMA HearAlive ==
  ASSUME Typed, Alive, SrvHear
  PROVE  Alive'
  <1>1. PICK q, e : Here(q) /\ Parses(q, wire, e) /\ Meets(e)
    BY DEF Alive
  <1> USE DEF Srv
  <1>2. /\ c2s # <<>> /\ srv.hears # "-" /\ Head(c2s).m = srv.hears /\ ~InSession
        /\ srv'.at = srv.at /\ srv'.hears = "-"
    BY TypedServer DEF SrvHear, InSession
  <1>3. wire = <<>> /\ q = e
    BY <1>1, <1>2, UnreadEmpty
  <1>4. q.h \notin Dooms /\ q.c = c2s
    BY <1>1, <1>2, WaitsNoDoom DEF Here
  <1>5. Agrees(q)
    BY <1>1, <1>3, <1>4 DEF Meets, GivenUp, Doomed, Dooms
  <1>6. PICK c : c = Tail(c2s)
    OBVIOUS
  <1>7. /\ UNCHANGED <<client, conn, wire, left, sent, faulty>> /\ c2s' = c
        /\ agreed' = (IF srv.hears = "version" /\ Head(c2s).val < agreed THEN Head(c2s).val ELSE agreed)
        /\ sec' = (IF srv.hears = "choice" THEN Head(c2s).val ELSE sec)
    BY <1>6 DEF SrvHear, SrvOnly
  <1> DEFINE r == Station(q.h, q.len, c, q.n, q.v, q.s, q.g, q.k)
  <1>8. /\ r.h = q.h /\ r.len = q.len /\ r.c = c /\ r.n = q.n /\ r.v = q.v /\ r.s = q.s
        /\ r.g = q.g /\ r.k = q.k
    BY DEF Station
  <1> HIDE DEF r
  <1>9. ASSUME agreed' = q.v, InSession' => c = <<>>,
               (MeetsOpening(r) \/ MeetsSecurity(r) \/ MeetsResult(r) \/ MeetsSession(r))'
        PROVE  Alive'
    <2>1. Agrees(r)'
      BY <1>2, <1>5, <1>7, <1>8, <1>9 DEF Agrees
    <2>2. Here(r)'
      BY <1>1, <1>2, <1>4, <1>7, <1>8, <1>9 DEF Here, client
    <2>3. Parses(r, <<>>, r)
      BY ParsesNothing
    <2>4. wire' = <<>>
      BY <1>3, <1>7
    <2>5. Ordered'
      BY <2>4, EmptySeq DEF Ordered
    <2> QED
      BY <1>7, <2>1, <2>2, <2>3, <2>4, <2>5 DEF Alive, Meets, client
  <1>10. CASE Srv("offer", "version")
    <2>1. /\ At(q, FirstStop(q.v), FirstLen(q.v), <<M("version", q.v)>>)
          /\ agreed \in Nat /\ q.v \in Nat /\ q.v <= agreed
      BY <1>5, <1>10 DEF Agrees, MeetsOpening, MeetsSecurity, MeetsResult, MeetsSession, InSession
    <2>2. c2s = <<M("version", q.v)>>
      BY <1>4, <2>1 DEF At
    <2>3. c = <<>> /\ Head(c2s) = M("version", q.v)
      BY <1>6, <2>2, OneHeard
    <2>4. agreed' = q.v
      BY <1>7, <1>10, <2>1, <2>3 DEF M
    <2>5. MeetsOpening(r)'
      BY <1>2, <1>8, <1>10, <2>1, <2>3 DEF MeetsOpening, At
    <2> QED
      BY <1>9, <2>3, <2>4, <2>5
  <1>11. CASE ~Srv("offer", "version")
    <2>1. agreed' = q.v /\ srv.hears # "version"
      <3>1. srv.hears # "version"
        BY <1>2, <1>5, <1>11 DEF Agrees, MeetsOpening, MeetsSecurity, MeetsResult, MeetsSession, InSession
      <3> QED
        BY <1>2, <1>5, <1>7, <1>11, <3>1 DEF Agrees
    <2>2. CASE Srv("chosen", "choice")
      <3>1. PICK t \in SUPPORTED_AUTHS : At(q, StartStop(t, q.v), StartLen(t, q.v), ChoiceSaid(t, q.v))
        BY <1>5, <2>2 DEF Agrees, MeetsOpening, MeetsSecurity, MeetsResult, MeetsSession, InSession
      <3>2. c2s = (IF AtOnce(t, q.v) THEN <<M("choice", t), M("init", 0)>> ELSE <<M("choice", t)>>)
        BY <1>4, <3>1 DEF At, ChoiceSaid
      <3>3. Head(c2s) = M("choice", t) /\ c = InitSaid(t, q.v)
        <4>1. CASE AtOnce(t, q.v)
          BY <1>6, <3>2, <4>1, TwoHeard DEF InitSaid
        <4>2. CASE ~AtOnce(t, q.v)
          BY <1>6, <3>2, <4>2, OneHeard DEF InitSaid
        <4> QED
          BY <4>1, <4>2
      <3>4. sec' = t
        BY <1>7, <2>2, <3>3 DEF M
      <3>5. MeetsOpening(r)'
        BY <1>2, <1>8, <2>2, <3>1, <3>3, <3>4 DEF MeetsOpening, At
      <3>6. ~InSession'
        BY <1>2, <2>2 DEF InSession
      <3> QED
        BY <1>9, <2>1, <3>5, <3>6
    <2>3. CASE Srv("vauth", "tls")
      <3>1. At(q, TlsStop(q.s), TlsLen(q.s), TlsSaid(q.s))
        BY <1>5, <2>3 DEF Agrees, MeetsOpening, MeetsSecurity, MeetsResult, MeetsSession, InSession
      <3>2. c = PlainSaid(q.s)
        <4>1. c2s = TlsSaid(q.s)
          BY <1>4, <3>1 DEF At
        <4>2. CASE q.s \in PLAIN_AUTH_SUBTYPES
          BY <1>6, <4>1, <4>2, TwoHeard DEF TlsSaid, PlainSaid
        <4>3. CASE q.s \notin PLAIN_AUTH_SUBTYPES
          BY <1>6, <4>1, <4>3, OneHeard DEF TlsSaid, PlainSaid
        <4> QED
          BY <4>2, <4>3
      <3>3. MeetsSecurity(r)'
        BY <1>2, <1>8, <2>3, <3>1, <3>2 DEF MeetsSecurity, At
      <3>4. ~InSession'
        BY <1>2, <2>3 DEF InSession
      <3> QED
        BY <1>9, <2>1, <3>3, <3>4
    <2>4. CASE \/ Srv("result", "response") /\ At(q, "result", 4, <<M("response", 0)>>)
               \/ Srv("result", "ardreply") /\ At(q, "result", 4, <<M("ardreply", 0)>>)
               \/ Srv("result", "plain") /\ At(q, "result", 4, <<M("plain", 0)>>)
               \/ Srv("init", "init") /\ At(q, "serverinit", 24, <<M("init", 0)>>)
      <3>1. c = <<>>
        BY <1>4, <1>6, <2>4, OneHeard DEF At
      <3>2. MeetsResult(r)'
        BY <1>2, <1>8, <2>4, <3>1 DEF MeetsResult, At
      <3> QED
        BY <1>9, <2>1, <3>1, <3>2
    <2>5. CASE \/ Srv("vsubtypes", "vversion") /\ At(q, "vack", 1, <<M("vversion", 2)>>)
               \/ Srv("vchosen", "vsubtype") /\ At(q, "vchosen", 1, <<M("vsubtype", q.s)>>)
      <3>1. c = <<>>
        BY <1>4, <1>6, <2>5, OneHeard DEF At
      <3>2. MeetsSecurity(r)'
        BY <1>2, <1>8, <2>5, <3>1 DEF MeetsSecurity, At
      <3> QED
        BY <1>9, <2>1, <3>1, <3>2
    <2>6. CASE Srv("session", "setup") /\ At(q, "message", 1, <<M("setup", 0)>>)
      <3>1. c = <<>>
        BY <1>4, <1>6, <2>6, OneHeard DEF At
      <3>2. InSession' /\ left' = 0
        BY <1>2, <1>5, <1>7, <2>6 DEF InSession, Agrees
      <3>3. MeetsSession(r)'
        BY <1>8, <2>6, <3>1, <3>2 DEF MeetsSession, At
      <3> QED
        BY <1>9, <2>1, <3>1, <3>3
    <2> QED
      BY <1>2, <1>5, <1>11, <2>2, <2>3, <2>4, <2>5, <2>6
         DEF Agrees, MeetsOpening, MeetsSecurity, MeetsResult, MeetsSession, InSession
  <1> QED
    BY <1>10, <1>11

\* Every step of the server leaves a client that follows where it can follow.
LEMMA ServerAlive ==
  ASSUME Typed, Alive, SrvShake \/ SrvSession
  PROVE  Alive' \/ Early'
  <1>1. CASE SrvHear \/ SrvChosen \/ SrvChallenge \/ SrvVeNCryptAuth
    BY <1>1, HearAlive, ChosenAlive, ChallengeAlive, VeNCryptAuthAlive
  <1>2. CASE \E v \in Versions : SrvVersion(v)
    BY <1>2, VersionAlive
  <1>3. CASE \E offer \in Offers, len \in Lens : SrvOffer(offer, len)
    BY <1>3, OfferAlive
  <1>4. CASE \E type \in (UNION Offers) \cup (IF {} \in Offers THEN {0} ELSE {}), len \in Lens : SrvAuth(type, len)
    <2> DEFINE U == UNION Offers
    <2>1. \A type \in U : type \in Nat
      BY OfferFacts
    <2>2. \A type \in U \cup (IF {} \in Offers THEN {0} ELSE {}) : type \in Nat
      <3> HIDE DEF U
      <3> QED
        BY <2>1
    <2>3. PICK type \in U \cup (IF {} \in Offers THEN {0} ELSE {}), len \in Lens : SrvAuth(type, len)
      BY <1>4
    <2>4. type \in Nat
      BY <2>2
    <2> QED
      BY <2>3, <2>4, AuthAlive
  <1>5. CASE \E len \in Lengths \ {0} : SrvArd(len)
    BY <1>5, ArdAlive
  <1>6. CASE \E v \in {1, 2} : SrvVeNCryptVersion(v)
    BY <1>6, VeNCryptVersionAlive
  <1>7. CASE \E offered \in Subtypes, refuses \in BOOLEAN : SrvSubtypes(offered, refuses)
    BY <1>7, SubtypesAlive
  <1>8. CASE \E refuses \in BOOLEAN : SrvSubtypeAck(refuses)
    BY <1>8, SubtypeAckAlive
  <1>9. CASE \E result \in Results, len \in Reasons \cup {Limit + 1} : SrvResult(result, len)
    BY <1>9, ResultAlive
  <1>10. CASE \E len \in Lens : SrvInit(len)
    BY <1>10, InitAlive
  <1>11. CASE \E kind \in Messages, len \in Lens \cup {Limit}, request \in BOOLEAN : SrvMessage(kind, len, request)
    BY <1>11, MessageAlive
  <1>12. CASE \E n \in 0..MaxRects : SrvUpdate(n)
    BY <1>12, UpdateAlive
  <1>13. CASE \E enc \in Encodings, len \in Lens : SrvRect(enc, len)
    BY <1>13, RectAlive
  <1>14. CASE SrvChatter
    BY <1>14 DEF SrvChatter, Alive
  <1> QED
    BY <1>1, <1>2, <1>3, <1>4, <1>5, <1>6, <1>7, <1>8, <1>9, <1>10, <1>11, <1>12, <1>13, <1>14
       DEF SrvShake, SrvSession

-----------------------------------------------------------------------------
(* The server, whatever the client has made of what it sent *)

\* Every step of the server keeps the invariant.
LEMMA ServerIInv ==
  ASSUME IInv, SrvShake \/ SrvSession
  PROVE  IInv'
  <1>1. Typed /\ Frame /\ Sound
    BY ServerStep DEF IInv
  <1>2. Typed'
    BY <1>1, SoundTyped DEF Frame
  <1>3. Begun' /\ Loop'
    BY <1>1 DEF IInv, Frame, client, Begun, Loop
  <1> USE DEF Srv, InSession
  <1>4. SrvHear => /\ c2s # <<>> /\ srv.hears # "-" /\ srv'.hears = "-" /\ srv'.at = srv.at
                   /\ UNCHANGED <<wire, faulty>>
    BY DEF SrvHear
  <1>5. SrvChatter => told > 0 /\ srv.at = "closed" /\ conn # "lost" /\ want.h = "finished"
                      /\ UNCHANGED <<srv, c2s>>
    BY DEF SrvChatter
  <1>6. ASSUME Alive PROVE Phase'
    BY <1>1, <1>6, ServerAlive DEF Phase
  <1>7. ASSUME Early PROVE Early'
    <2>1. SrvHear /\ tls
      BY <1>1, <1>4, <1>5, <1>7 DEF Early, Frame
    <2> QED
      BY <1>1, <1>4, <1>7, <2>1 DEF Early, Frame, client, Heard
  <1>8. ASSUME Aborted PROVE Aborted'
    BY <1>1, <1>4, <1>8 DEF Aborted, Frame, client
  <1>9. ASSUME Refused PROVE FALSE
    BY <1>1, <1>4, <1>5, <1>9 DEF Refused, Frame
  <1>10. ASSUME Finished PROVE Finished'
    <2>1. SrvChatter
      BY <1>1, <1>4, <1>10 DEF Finished, Frame
    <2> QED
      BY <1>1, <1>5, <1>10, <2>1 DEF Finished, Frame, client
  <1>11. ASSUME Lost PROVE Lost'
    <2>1. SrvHear
      BY <1>1, <1>5, <1>11 DEF Lost, Frame
    <2> QED
      BY <1>1, <1>4, <1>11, <2>1 DEF Lost, Frame, client, Heard
  <1> QED
    BY <1>2, <1>3, <1>6, <1>7, <1>8, <1>9, <1>10, <1>11 DEF IInv, Phase

-----------------------------------------------------------------------------
(* The handlers: what the loop may give, and where it leads *)

\* The field at the head of the stream, read from where the client is.
Reading(q, r, e) ==
    /\ Here(q) /\ q.c = <<>> /\ q.h = Head(wire).h /\ q.len = Head(wire).len
    /\ Head(wire) \in Fields
    /\ \/ ReadsOpening(q, Head(wire), r) \/ ReadsSecurity(q, Head(wire), r)
       \/ ReadsResult(q, Head(wire), r) \/ ReadsMessage(q, Head(wire), r)
       \/ ReadsUpdate(q, Head(wire), r)
    /\ Parses(r, Tail(wire), e) /\ Meets(e)
    /\ r.h \in Dooms => r = e

LEMMA MeetsSame ==
  ASSUME UNCHANGED server, NEW e, Meets(e)
  PROVE  Meets(e)'
  BY DEF server, Meets, Agrees, GivenUp, MeetsOpening, MeetsSecurity, MeetsResult, MeetsSession,
         InSession, Srv

LEMMA AliveNotFinished ==
  ASSUME Typed, Alive
  PROVE  want.h # "finished"
  <1>1. PICK q, e : Here(q) /\ Parses(q, wire, e) /\ Meets(e)
    BY DEF Alive
  <1>2. q.h = want.h /\ q.h \notin Dooms /\ wire \in Seq(Fields)
    BY <1>1, WaitsNoDoom DEF Here, Typed
  <1>3. CASE wire = <<>>
    <2>1. Agrees(q)
      BY <1>1, <1>2, <1>3, ParsesNothing DEF Meets, GivenUp, Doomed, Dooms
    <2> QED
      BY <1>2, <2>1 DEF Agrees, MeetsOpening, MeetsSecurity, MeetsResult, MeetsSession, At,
                        FirstStop, StartStop, TlsStop
  <1>4. CASE wire # <<>>
    <2>1. PICK r : Reads(q, Head(wire), r)
      BY <1>1, <1>2, <1>4, ParsesHead
    <2> QED
      BY <1>2, <2>1 DEF Reads, ReadsOpening, ReadsSecurity, ReadsResult, ReadsMessage, ReadsUpdate, Dooms
  <1> QED
    BY <1>3, <1>4

\* Only a client that follows is given a field, but for the last acknowledgement
\* of VeNCrypt and what is sent after the end.
LEMMA Taken ==
  ASSUME IInv, NEW h, Take(h), Alive \/ (h # "vchosen" /\ h # "finished")
  PROVE  /\ Alive /\ wire # <<>> /\ wire \in Seq(Fields) /\ want.h = h /\ running /\ ~tls
         /\ UNCHANGED <<policy, server>>
         /\ (h \in SessionHandlers) <=> InSession
         /\ ~InSession => c2s = <<>>
         /\ \E q, r, e : Reading(q, r, e)
  <1>1. running /\ want.h = h /\ wire # <<>> /\ wire \in Seq(Fields) /\ Typed /\ ~tls
    BY DEF IInv, Take, Typed, Loop
  <1>2. Alive
    BY <1>1 DEF IInv, Phase, Early, Aborted, Refused, Finished, Lost
  <1>3. PICK q, e : Here(q) /\ Parses(q, wire, e) /\ Meets(e)
    BY <1>2 DEF Alive
  <1>4. PICK r : Reads(q, Head(wire), r) /\ Parses(r, Tail(wire), e) /\ (r.h \in Dooms => r = e)
    BY <1>1, <1>3, ParsesHead
  <1>5. q.h = h /\ q.h \notin Dooms
    BY <1>1, <1>3, WaitsNoDoom DEF Here
  <1>6. Head(wire) \in Fields
    BY <1>1, HeadTailProperties
  <1>7. Reading(q, r, e)
    BY <1>3, <1>4, <1>5, <1>6 DEF Reading, Reads, Dooms
  <1>8. (Head(wire).h \in SessionHandlers) <=> InSession
    <2>1. CASE InSession
      <3>1. wire \in Seq(SessionFields)
        BY <1>2, <2>1 DEF Alive, Ordered
      <3>2. Head(wire) \in SessionFields
        BY <1>1, <3>1, HeadTailProperties
      <3> QED
        BY <2>1, <3>2 DEF SessionFields
    <2>2. CASE ~InSession
      <3>1. wire \in Seq(OtherFields)
        BY <1>2, <2>2 DEF Alive, Ordered
      <3>2. Head(wire) \in OtherFields
        BY <1>1, <3>1, HeadTailProperties
      <3> QED
        BY <2>2, <3>2 DEF OtherFields
    <2> QED
      BY <2>1, <2>2
  <1>9. Head(wire).h = h /\ q.c = <<>>
    BY <1>5, <1>7 DEF Reading
  <1>10. ~InSession => c2s = <<>>
    BY <1>3, <1>9 DEF Here
  <1> QED
    BY <1>1, <1>2, <1>7, <1>8, <1>9, <1>10 DEF Take

\* What the loop leaves of the stream.
LEMMA ConsumeFacts ==
  ASSUME Typed, wire # <<>>, Consume
  PROVE  /\ wire' = Tail(wire) /\ wire' \in Seq(Fields) /\ got' \in 0..Len(wire')
         /\ got' \in Nat /\ partial' = partial
  <1>1. wire \in Seq(Fields) /\ got \in 0..Len(wire)
    BY DEF Typed, TypeOK
  <1>2. Tail(wire) \in Seq(Fields) /\ Len(Tail(wire)) = Len(wire) - 1 /\ Len(wire) \in Nat \ {0}
    BY <1>1, HeadTailProperties, EmptySeq
  <1> QED
    BY <1>1, <1>2 DEF Consume

LEMMA AbortFacts ==
  ASSUME Typed, Abort
  PROVE  wire' \in Seq(Fields) /\ got' = 0 /\ got' \in 0..Len(wire') /\ partial' = FALSE
  <1>1. wire \in Seq(Fields) /\ got \in 0..Len(wire)
    BY DEF Typed, TypeOK
  <1>2. SubSeq(wire, got + 1, Len(wire)) \in Seq(Fields)
    <2>1. \A i \in (got + 1)..Len(wire) : wire[i] \in Fields
      BY <1>1
    <2> QED
      BY <1>1, <2>1, SubSeqProperties
  <1>3. Len(wire') \in Nat
    BY <1>2, LenProperties DEF Abort
  <1> QED
    BY <1>2, <1>3 DEF Abort

\* The station that follows waits for the next field, or for the server.
LEMMA NextLen ==
  ASSUME NEW w \in Seq(Fields), NEW r, NEW e, Parses(r, w, e), Meets(e), r.h \notin Dooms
  PROVE  r.len \in Nat
  <1>1. CASE w = <<>>
    <2>1. Agrees(r)
      BY <1>1, ParsesNothing DEF Meets, GivenUp, Doomed, Dooms
    <2> QED
      BY <2>1 DEF Agrees, MeetsOpening, MeetsSecurity, MeetsResult, MeetsSession, At,
                  FirstLen, StartLen, TlsLen
  <1>2. CASE w # <<>>
    <2>1. PICK x : Reads(r, Head(w), x)
      BY <1>2, ParsesHead
    <2>2. Head(w) \in Fields
      BY <1>2, HeadTailProperties
    <2>3. r.len = Head(w).len
      BY <2>1 DEF Reads, Dooms
    <2> QED
      BY <2>2, <2>3 DEF Fields
  <1> QED
    BY <1>1, <1>2

\* A field that leads on: the client follows from where it leads.
LEMMA Follow ==
  ASSUME IInv, Alive, ~tls, wire # <<>>, Consume, Looping,
         UNCHANGED <<policy, server, aborted, told, conn, spin>>,
         tls' \in BOOLEAN, running' => ~tls',
         NEW r, NEW e, Parses(r, Tail(wire), e), Meets(e), r.h \notin Dooms, Here(r)',
         want' = [h |-> want'.h, len |-> want'.len], want'.h \in Handlers,
         version' \in {0} \cup {v \in SUPPORTED_SERVER_VERSIONS : v <= MAX_CLIENT_VERSION},
         subtype' \in {"Plain"} \cup {PREFERENCE[i] : i \in DOMAIN PREFERENCE},
         rectangles' \in 0..MaxRects, report' \in {"none", "made", "failed"},
         begun' \in Nat, commits' \in Nat, painted' \in Nat, fences' \in Nat,
         want'.h \notin SessionHandlers => report' = "none",
         Begun'
  PROVE  IInv'
  <1>1. Typed /\ TypeOK
    BY DEF IInv, Typed
  <1>2. /\ wire' = Tail(wire) /\ wire' \in Seq(Fields) /\ got' \in 0..Len(wire')
        /\ partial' = partial /\ got' \in Nat
    BY <1>1, ConsumeFacts
  <1>3. want' \in [h : Handlers, len : Nat]
    <2>1. r.len \in Nat
      BY <1>2, NextLen
    <2>2. want'.len \in Nat
      BY <2>1 DEF Here
    <2> QED
      BY <2>2
  <1>4. running' = (~aborted' /\ conn' # "lost" /\ (got' > 0 \/ want'.len = 0))
    BY DEF Looping
  <1>5. Typed'
    <2>1. TypeOK'
      BY <1>1, <1>2, <1>3, <1>4 DEF TypeOK, server
    <2>2. srv' = [at |-> srv'.at, hears |-> srv'.hears]
          /\ sent' \in [messages : Nat, updates : Nat, rects : Nat, fences : Nat]
      BY <1>1, TypedServer DEF server
    <2> QED
      BY <1>2, <2>1, <2>2 DEF Typed
  <1>6. Loop'
    BY <1>4 DEF Loop
  <1>7. Ordered'
    <2> DEFINE T == IF InSession THEN SessionFields ELSE OtherFields
    <2>1. wire \in Seq(T) /\ ~Srv("vchosen", "-") /\ ~Srv("vauth", "-")
      BY DEF Alive, Ordered
    <2>2. Tail(wire) \in Seq(T)
      <3> HIDE DEF T
      <3> QED
        BY <2>1, HeadTailProperties
    <2> QED
      BY <1>2, <2>1, <2>2 DEF Ordered, server, InSession, Srv
  <1>8. Alive'
    <2>1. Meets(e)'
      BY MeetsSame
    <2>2. Parses(r, wire', e)
      BY <1>2
    <2> QED
      BY <1>7, <2>1, <2>2 DEF Alive
  <1> QED
    BY <1>5, <1>6, <1>8 DEF IInv, Phase

\* The same for a field that only moves the parser on.
LEMMA GoesOn ==
  ASSUME IInv, Alive, ~tls, wire # <<>>, Going, Looping, UNCHANGED <<policy, server>>, Setup,
         NEW q, NEW r, NEW e, Reading(q, r, e),
         NEW h \in Handlers \ {"rect", "pixels", "finished"}, NEW len, NEW c, r = Goes(q, h, len, c),
         Expect(h, len), c = (IF InSession THEN <<>> ELSE c2s'),
         want.h \in Handlers \ {"rect", "pixels"},
         h \notin SessionHandlers => want.h \notin SessionHandlers
  PROVE  IInv'
  <1>1. Typed /\ TypeOK
    BY DEF IInv, Typed
  <1>2. want' = [h |-> want'.h, len |-> want'.len] /\ want'.h = h /\ want'.len = len
    BY DEF Expect
  <1>3. /\ r.h = h /\ r.len = len /\ r.c = c /\ r.n = q.n /\ r.v = q.v /\ r.s = q.s /\ r.g = q.g
        /\ r.k = q.k
    BY GoesFacts
  <1>4. /\ UNCHANGED <<version, subtype, tls, rectangles, begun, commits, painted, fences, spin>>
        /\ UNCHANGED <<aborted, told, report, conn>> /\ Consume
    BY DEF Setup, Same, Going
  <1>5. InSession' = InSession
    BY DEF server, InSession, Srv
  <1>6. Here(q) /\ Parses(r, Tail(wire), e) /\ Meets(e)
    BY DEF Reading
  <1>7. Here(r)'
    BY <1>2, <1>3, <1>4, <1>5, <1>6 DEF Here
  <1>8. r.h \notin Dooms
    BY <1>3 DEF Handlers, Dooms
  <1>10. Begun'
    BY <1>2, <1>4 DEF IInv, Begun
  <1>11. h \notin SessionHandlers => report' = "none"
    BY <1>4 DEF Alive
  <1>12. /\ version' \in {0} \cup {v \in SUPPORTED_SERVER_VERSIONS : v <= MAX_CLIENT_VERSION}
         /\ subtype' \in {"Plain"} \cup {PREFERENCE[i] : i \in DOMAIN PREFERENCE}
         /\ rectangles' \in 0..MaxRects /\ report' \in {"none", "made", "failed"}
         /\ begun' \in Nat /\ commits' \in Nat /\ painted' \in Nat /\ fences' \in Nat
         /\ tls' \in BOOLEAN /\ ~tls'
    BY <1>1, <1>4 DEF TypeOK
  <1> QED
    BY <1>2, <1>4, <1>6, <1>7, <1>8, <1>10, <1>11, <1>12, Follow

\* What the factory learns when the client gives the connection up.
LEMMA AbortIInv ==
  ASSUME IInv, Abort, Looping, running, told = 0, conn = "open", c2s = <<>> \/ InSession,
         want.h = "message" => faulty # "none", rectangles' \in 0..MaxRects,
         UNCHANGED <<policy, server, c2s, tls, version, subtype, begun, commits, painted, fences, spin>>
  PROVE  IInv'
  <1>1. Typed /\ TypeOK
    BY DEF IInv, Typed
  <1>2. wire' \in Seq(Fields) /\ got' = 0 /\ got' \in 0..Len(wire') /\ partial' = FALSE
    BY <1>1, AbortFacts
  <1>3. /\ aborted' = TRUE /\ want' = want /\ told' = 1
        /\ \/ report' = "failed" /\ conn' = "closing"
           \/ report' = report /\ conn' = "lost"
        /\ running' = FALSE
    <2>1. aborted' = TRUE /\ want' = want
      BY DEF Abort
    <2>2. told' = 1
      BY DEF Abort, Tell
    <2>3. \/ report' = "failed" /\ conn' = "closing"
          \/ report' = report /\ conn' = "lost"
      BY DEF Abort, Errback
    <2>4. running' = FALSE
      BY <2>1 DEF Looping
    <2> QED
      BY <2>1, <2>2, <2>3, <2>4
  <1>4. Typed'
    <2>1. TypeOK'
      <3>1. report' \in {"none", "made", "failed"} /\ conn' \in {"open", "closing", "lost"}
        BY <1>1, <1>3 DEF TypeOK
      <3>2. running' \in BOOLEAN /\ aborted' \in BOOLEAN /\ partial' \in BOOLEAN
        BY <1>2, <1>3, Zenon
      <3>3. told' \in 0..2 /\ want' = want
        BY <1>3
      <3> QED
        BY <1>1, <1>2, <3>1, <3>2, <3>3 DEF TypeOK, server
    <2>2. srv' = [at |-> srv'.at, hears |-> srv'.hears]
          /\ sent' \in [messages : Nat, updates : Nat, rects : Nat, fences : Nat]
      BY <1>1, TypedServer DEF server
    <2> QED
      BY <1>2, <2>1, <2>2 DEF Typed
  <1>5. Begun' /\ Loop'
    BY <1>3 DEF IInv, Begun, Loop
  <1>6. Aborted' \/ Lost'
    BY <1>3 DEF Aborted, Lost, Heard, server, InSession, Srv
  <1> QED
    BY <1>4, <1>5, <1>6 DEF IInv, Phase

\* An exception that nobody catches.
LEMMA EscapeIInv ==
  ASSUME IInv, Escape, Looping, wire # <<>>, told = 0, c2s = <<>> \/ InSession,
         want.h # "message", faulty \in Untold,
         UNCHANGED <<policy, server, c2s, tls, version, subtype, rectangles>>,
         UNCHANGED <<begun, commits, painted, fences, spin>>
  PROVE  IInv'
  <1>1. Typed /\ TypeOK
    BY DEF IInv, Typed
  <1>2. Consume /\ conn' = "lost" /\ UNCHANGED <<want, aborted, told, report>> /\ running' = FALSE
    BY DEF Escape, Looping
  <1>3. wire' \in Seq(Fields) /\ got' \in 0..Len(wire') /\ partial' = partial
    BY <1>1, <1>2, ConsumeFacts
  <1>4. Typed'
    <2>1. TypeOK'
      BY <1>1, <1>2, <1>3 DEF TypeOK, server
    <2>2. srv' = [at |-> srv'.at, hears |-> srv'.hears]
          /\ sent' \in [messages : Nat, updates : Nat, rects : Nat, fences : Nat]
      BY <1>1, TypedServer DEF server
    <2> QED
      BY <1>3, <2>1, <2>2 DEF Typed
  <1>5. Begun' /\ Loop'
    BY <1>2 DEF IInv, Begun, Loop
  <1>6. Lost'
    BY <1>2 DEF Lost, Heard, server, InSession, Srv
  <1> QED
    BY <1>4, <1>5, <1>6 DEF IInv, Phase

\* A failed authentication that the generator of the security type ends.
LEMMA EndIInv ==
  ASSUME IInv, Alive, ~tls, wire # <<>>, Consume, Looping, Expect("finished", want.len),
         conn' = "closing", told' \in {0, 1}, told' = 0 => faulty = "result",
         report' \in {"none", "made", "failed"}, c2s = <<>>, Srv("closed", "-"),
         want.h \notin {"rect", "pixels"},
         UNCHANGED <<policy, server, c2s, aborted>>, Setup
  PROVE  IInv'
  <1>1. Typed /\ TypeOK /\ ~aborted
    BY DEF IInv, Typed, Alive
  <1>2. wire' \in Seq(Fields) /\ got' \in 0..Len(wire') /\ partial' = partial /\ got' \in Nat
    BY <1>1, ConsumeFacts
  <1>3. /\ UNCHANGED <<version, subtype, tls, rectangles, begun, commits, painted, fences, spin>>
        /\ want' = [h |-> "finished", len |-> want.len]
    BY DEF Setup, Same, Expect
  <1>4. running' = (~aborted' /\ conn' # "lost" /\ (got' > 0 \/ want'.len = 0))
    BY DEF Looping
  <1>5. Typed'
    <2>1. want' \in [h : Handlers, len : Nat]
      BY <1>1, <1>3 DEF TypeOK, Handlers
    <2>2. TypeOK'
      BY <1>1, <1>2, <1>3, <1>4, <2>1 DEF TypeOK, server
    <2>3. srv' = [at |-> srv'.at, hears |-> srv'.hears]
          /\ sent' \in [messages : Nat, updates : Nat, rects : Nat, fences : Nat]
      BY <1>1, TypedServer DEF server
    <2> QED
      BY <1>2, <2>2, <2>3 DEF Typed
  <1>6. Begun' /\ Loop'
    BY <1>1, <1>3, <1>4 DEF IInv, Begun, Loop
  <1>7. Finished'
    BY <1>1, <1>3 DEF Finished, server, Srv
  <1> QED
    BY <1>5, <1>6, <1>7 DEF IInv, Phase

-----------------------------------------------------------------------------
(* The handlers of the handshake *)

LEMMA DoomFacts ==
  ASSUME NEW h \in Dooms, Meets(Doomed(h))
  PROVE  /\ GivenUp(Doomed(h))
         /\ h = "escape" => faulty \in Untold
         /\ h = "garbled" => faulty = "message"
         /\ h = "ended" => faulty = "none" /\ Srv("closed", "-")
         /\ h = "silent" => faulty = "result" /\ Srv("closed", "-")
         /\ h = "refused" => faulty = "none" /\ Srv("result", "response")
         /\ h = "unreadable" => faulty = "none"
  <1>1. GivenUp(Doomed(h))
    BY DEF Meets, Agrees, Doomed
  <1> QED
    BY <1>1 DEF GivenUp, Doomed

LEMMA Takes ==
  ASSUME IInv, NEW h, Take(h), Alive \/ (h # "vchosen" /\ h # "finished")
  PROVE  /\ Alive /\ wire # <<>> /\ want.h = h /\ running /\ ~tls /\ told = 0 /\ conn = "open"
         /\ UNCHANGED <<policy, server>> /\ rectangles \in 0..MaxRects
         /\ (h \in SessionHandlers) <=> InSession
         /\ InSession \/ c2s = <<>>
         /\ \E q, r, e : /\ Reading(q, r, e) /\ q.h = h /\ q.len = want.len /\ q.n = rectangles
                         /\ q.v = version /\ q.s = subtype /\ q.g = policy
                         /\ q.k = Counts(commits, painted, fences)
  <1>1. told = 0 /\ conn = "open" /\ rectangles \in 0..MaxRects
    BY Taken DEF Alive, IInv, Typed, TypeOK
  <1>2. PICK q, r, e : Reading(q, r, e)
    BY Taken
  <1>3. /\ q.h = h /\ q.len = want.len /\ q.n = rectangles /\ q.v = version /\ q.s = subtype
        /\ q.g = policy /\ q.k = Counts(commits, painted, fences)
    BY <1>2, Taken DEF Reading, Here
  <1> QED
    BY <1>1, <1>2, <1>3, Taken

\* A handler that aborts, and touches nothing else.
LEMMA GivesUp ==
  ASSUME IInv, NEW h, Take(h), Alive \/ (h # "vchosen" /\ h # "finished"),
         h = "message" => faulty # "none", Abort, Looping, UNCHANGED c2s, Setup
  PROVE  IInv'
  <1>1. /\ UNCHANGED <<policy, server>> /\ running /\ told = 0 /\ conn = "open" /\ want.h = h
        /\ c2s = <<>> \/ InSession
        /\ rectangles \in 0..MaxRects
    BY Takes
  <1>2. UNCHANGED <<version, subtype, tls, rectangles, begun, commits, painted, fences, spin>>
    BY DEF Setup, Same
  <1> QED
    BY <1>1, <1>2, AbortIInv

\* A handler of the handshake that raises.
LEMMA Raises ==
  ASSUME IInv, NEW h, Take(h), h \notin {"vchosen", "finished", "message"},
         faulty \in Untold, Escape, Looping, UNCHANGED c2s, Setup
  PROVE  IInv'
  <1>1. /\ UNCHANGED <<policy, server>> /\ told = 0 /\ want.h = h /\ wire # <<>>
        /\ c2s = <<>> \/ InSession
    BY Takes
  <1>2. UNCHANGED <<version, subtype, tls, rectangles, begun, commits, painted, fences, spin>>
    BY DEF Setup, Same
  <1> QED
    BY <1>1, <1>2, EscapeIInv

\* A handler of the handshake that goes on, and what it wrote.
LEMMA Advances ==
  ASSUME IInv, NEW h0 \in Handlers \ SessionHandlers, h0 # "vchosen", h0 # "finished", Take(h0),
         NEW q, NEW r, NEW e, Reading(q, r, e),
         NEW h \in Handlers \ {"rect", "pixels", "finished"}, NEW len, r = Goes(q, h, len, c2s'),
         Expect(h, len), Going, Looping, Setup,
         h \notin SessionHandlers
  PROVE  IInv'
  <1>1. /\ Alive /\ ~tls /\ wire # <<>> /\ UNCHANGED <<policy, server>> /\ ~InSession /\ want.h = h0
    BY Takes
  <1>2. want.h \in Handlers \ {"rect", "pixels"} /\ want.h \notin SessionHandlers
    BY <1>1 DEF SessionHandlers
  <1> QED
    BY <1>1, <1>2, GoesOn

LEMMA FirstWrite == \A x : Append(<<>>, x) = <<x>> /\ <<>> \o <<x>> = <<x>>
  OBVIOUS

LEMMA InitialIInv ==
  ASSUME IInv, HandleInitial
  PROVE  IInv'
  <1>1. Take("initial") /\ Block # BadHeader /\ Looping
        /\ UNCHANGED <<subtype, tls, rectangles, begun, commits, painted, fences, spin>>
    BY DEF HandleInitial, Same
  <1>2. /\ Alive /\ wire # <<>> /\ want.h = "initial" /\ ~tls /\ ~InSession /\ c2s = <<>>
        /\ UNCHANGED <<policy, server>>
    BY <1>1, Takes DEF SessionHandlers
  <1>3. PICK q, r, e : /\ Reading(q, r, e) /\ q.h = "initial" /\ q.n = rectangles /\ q.s = subtype
                       /\ q.g = policy /\ q.k = Counts(commits, painted, fences)
    BY <1>1, Takes
  <1>4. CASE Known(Block) = {}
    <2>1. r = Doomed("escape")
      BY <1>1, <1>3, <1>4 DEF Reading, ReadsOpening, ReadsSecurity, ReadsResult, ReadsMessage, ReadsUpdate, Block
    <2>2. r = e /\ Meets(e)
      BY <1>3, <2>1 DEF Reading, Doomed, Dooms
    <2>3. faulty \in Untold
      BY <2>1, <2>2, DoomFacts DEF Dooms
    <2>4. Escape /\ UNCHANGED <<c2s, version>>
      BY <1>4 DEF HandleInitial
    <2>5. Setup
      BY <1>1, <2>4 DEF Setup, Same
    <2> QED
      BY <1>1, <2>3, <2>4, <2>5, Raises
  <1>5. CASE Known(Block) # {}
    <2> DEFINE v == Agree(Block)
    <2>1. v \in {k \in SUPPORTED_SERVER_VERSIONS : k <= MAX_CLIENT_VERSION} /\ v \in Nat
      BY <1>5, AgreeFacts
    <2>2. r = Station(FirstStop(v), FirstLen(v), <<M("version", v)>>, q.n, v, q.s, q.g, q.k)
      BY <1>1, <1>3, <1>5 DEF Reading, ReadsOpening, ReadsSecurity, ReadsResult, ReadsMessage, ReadsUpdate, Block
    <2>3. Going /\ version' = v /\ c2s' = <<M("version", v)>> /\ Expect(FirstStop(v), FirstLen(v))
      <3>1. Going /\ version' = v /\ Write("version", v)
        BY <1>5 DEF HandleInitial
      <3>2. IF v < 3007 THEN Expect("auth", 4) ELSE Expect("ntypes", 1)
        BY <1>5, <3>1 DEF HandleInitial
      <3>3. c2s' = <<M("version", v)>>
        BY <1>2, <3>1, FirstWrite DEF Write, M
      <3> HIDE DEF v
      <3> QED
        BY <2>1, <3>1, <3>2, <3>3 DEF FirstStop, FirstLen
    <2> HIDE DEF v
    <2>4. /\ r.h = FirstStop(v) /\ r.len = FirstLen(v) /\ r.c = <<M("version", v)>> /\ r.n = q.n
          /\ r.v = v /\ r.s = q.s /\ r.g = q.g /\ r.k = q.k
      BY <2>2 DEF Station
    <2>5. want' = [h |-> want'.h, len |-> want'.len] /\ want'.h = FirstStop(v) /\ want'.len = FirstLen(v)
      BY <2>3 DEF Expect
    <2>6. FirstStop(v) \in {"auth", "ntypes"}
      BY DEF FirstStop
    <2>7. Consume /\ UNCHANGED <<aborted, told, report, conn>>
      BY <2>3 DEF Going
    <2>8. ~InSession'
      BY <1>2 DEF server, InSession, Srv
    <2>9. Here(r)'
      BY <1>1, <1>2, <1>3, <2>3, <2>4, <2>5, <2>8 DEF Here
    <2>10. r.h \notin Dooms /\ want'.h \in Handlers /\ want'.h \notin SessionHandlers
      BY <2>4, <2>5, <2>6 DEF Dooms, Handlers, SessionHandlers
    <2>11. Begun'
      BY <1>1, <1>2, <2>5, <2>6 DEF IInv, Begun
    <2>12. /\ version' \in {0} \cup {k \in SUPPORTED_SERVER_VERSIONS : k <= MAX_CLIENT_VERSION}
           /\ subtype' \in {"Plain"} \cup {PREFERENCE[i] : i \in DOMAIN PREFERENCE}
           /\ rectangles' \in 0..MaxRects /\ report' \in {"none", "made", "failed"}
           /\ begun' \in Nat /\ commits' \in Nat /\ painted' \in Nat /\ fences' \in Nat
           /\ tls' \in BOOLEAN /\ ~tls'
      BY <1>1, <1>2, <2>1, <2>3, <2>7 DEF IInv, Typed, TypeOK
    <2>13. report' = "none"
      BY <1>2, <2>7 DEF Alive, SessionHandlers
    <2>14. Parses(r, Tail(wire), e) /\ Meets(e)
      BY <1>3 DEF Reading
    <2> QED
      BY <1>1, <1>2, <2>5, <2>7, <2>9, <2>10, <2>11, <2>12, <2>13, <2>14, Follow
  <1> QED
    BY <1>4, <1>5

LEMMA BadHeaderIInv ==
  ASSUME IInv, HandleBadHeader
  PROVE  IInv'
  BY GivesUp DEF HandleBadHeader

LEMMA NumberSecurityTypesIInv ==
  ASSUME IInv, HandleNumberSecurityTypes
  PROVE  IInv'
  <1>1. Take("ntypes") /\ Going /\ Looping /\ c2s' = c2s /\ Setup
    BY DEF HandleNumberSecurityTypes
  <1>2. PICK q, r, e : Reading(q, r, e) /\ q.h = "ntypes"
    BY <1>1, Takes
  <1>3. c2s' = <<>>
    BY <1>1, Takes DEF SessionHandlers
  <1>4. \/ Expect("types", Block) /\ r = Goes(q, "types", Block, <<>>)
        \/ Expect("connfailed", 4) /\ r = Goes(q, "connfailed", 4, <<>>)
    BY <1>2 DEF HandleNumberSecurityTypes, Reading, ReadsOpening, ReadsSecurity, ReadsResult, ReadsMessage,
                ReadsUpdate, Block
  <1> QED
    BY <1>1, <1>2, <1>3, <1>4, Advances DEF Handlers, SessionHandlers

\* Where a security type starts is where its generator stops first.
LEMMA StartsOn ==
  ASSUME Typed, NEW type \in SUPPORTED_AUTHS, NEW choice, StartSecurity(type, choice)
  PROVE  /\ Expect(StartStop(type, version), StartLen(type, version))
         /\ c2s' = IF AtOnce(type, version) THEN choice \o <<M("init", 0)>> ELSE choice
         /\ StartStop(type, version) \in {"serverinit", "result", "challenge", "vversion", "ardparams"}
  <1>1. version \in Nat
    <2>1. version \in {0} \cup {v \in SUPPORTED_SERVER_VERSIONS : v <= MAX_CLIENT_VERSION}
      BY DEF Typed, TypeOK
    <2> QED
      BY <2>1 DEF SUPPORTED_SERVER_VERSIONS
  <1>2. type \in {NONE, VNC_AUTHENTICATION, VENCRYPT, DIFFIE_HELLMAN}
    BY DEF SUPPORTED_AUTHS
  <1> USE DEF NONE, VNC_AUTHENTICATION, VENCRYPT, DIFFIE_HELLMAN
  <1>3. CASE type = NONE /\ version < 3008
    BY <1>1, <1>3 DEF StartSecurity, StartStop, StartLen, AtOnce, M
  <1>4. CASE type = NONE /\ version >= 3008
    BY <1>1, <1>4 DEF StartSecurity, StartStop, StartLen, AtOnce, M
  <1>5. CASE type = VNC_AUTHENTICATION
    BY <1>5 DEF StartSecurity, StartStop, StartLen, AtOnce, M
  <1>6. CASE type = VENCRYPT
    BY <1>6 DEF StartSecurity, StartStop, StartLen, AtOnce, M
  <1>7. CASE type = DIFFIE_HELLMAN
    BY <1>7 DEF StartSecurity, StartStop, StartLen, AtOnce, M
  <1> QED
    BY <1>1, <1>2, <1>3, <1>4, <1>5, <1>6, <1>7

LEMMA SecurityTypesIInv ==
  ASSUME IInv, HandleSecurityTypes
  PROVE  IInv'
  <1> DEFINE valid == Block \cap SUPPORTED_AUTHS
  <1>1. Take("types") /\ Looping /\ Setup /\ Typed
    BY DEF HandleSecurityTypes, IInv
  <1>2. PICK q, r, e : Reading(q, r, e) /\ q.h = "types" /\ q.v = version
    BY <1>1, Takes
  <1>3. c2s = <<>>
    BY <1>1, Takes DEF SessionHandlers
  <1>4. CASE valid = {}
    <2>1. Abort /\ UNCHANGED c2s
      BY <1>4 DEF HandleSecurityTypes
    <2> QED
      BY <1>1, <2>1, GivesUp
  <1>5. CASE valid # {}
    <2> DEFINE t == Best(valid)
    <2>1. t \in SUPPORTED_AUTHS
      BY <1>5, BestFacts
    <2>2. r = Goes(q, StartStop(t, q.v), StartLen(t, q.v), ChoiceSaid(t, q.v))
      <3>1. Head(wire).val \cap SUPPORTED_AUTHS # {}
        BY <1>5 DEF Block
      <3>2. t = Best(Head(wire).val \cap SUPPORTED_AUTHS)
        BY DEF Block
      <3> HIDE DEF t, valid
      <3>3. ReadsOpening(q, Head(wire), r)
        BY <1>2 DEF Reading, ReadsSecurity, ReadsResult, ReadsMessage, ReadsUpdate
      <3>4. \E x \in SUPPORTED_AUTHS :
              /\ x = Best(Head(wire).val \cap SUPPORTED_AUTHS)
              /\ r = Goes(q, StartStop(x, q.v), StartLen(x, q.v), ChoiceSaid(x, q.v))
        BY <1>2, <3>1, <3>3 DEF ReadsOpening
      <3> QED
        BY <3>2, <3>4
    <2>3. StartSecurity(t, Append(c2s, [m |-> "choice", val |-> t])) /\ Going
      <3>1. t = (CHOOSE x \in valid : \A other \in valid : other <= x)
        BY DEF Best
      <3> HIDE DEF t
      <3> QED
        BY <1>5, <3>1 DEF HandleSecurityTypes
    <2> HIDE DEF t
    <2>4. Append(c2s, [m |-> "choice", val |-> t]) = <<M("choice", t)>>
      BY <1>3, FirstWrite DEF M
    <2>5. /\ Expect(StartStop(t, version), StartLen(t, version))
          /\ c2s' = IF AtOnce(t, version) THEN <<M("choice", t)>> \o <<M("init", 0)>> ELSE <<M("choice", t)>>
          /\ StartStop(t, version) \in {"serverinit", "result", "challenge", "vversion", "ardparams"}
      BY <1>1, <2>1, <2>3, <2>4, StartsOn
    <2>6. c2s' = ChoiceSaid(t, q.v)
      BY <1>2, <2>5, PairConcat DEF ChoiceSaid
    <2>7. StartStop(t, version) \in Handlers \ {"rect", "pixels", "finished"}
          /\ StartStop(t, version) \notin SessionHandlers
      BY <2>5 DEF Handlers, SessionHandlers
    <2>8. r = Goes(q, StartStop(t, version), StartLen(t, version), c2s')
      BY <1>2, <2>2, <2>6
    <2>9. "types" \in Handlers \ SessionHandlers
      BY DEF Handlers, SessionHandlers
    <2> QED
      BY <1>1, <1>2, <2>3, <2>5, <2>7, <2>8, <2>9, Advances
  <1> QED
    BY <1>4, <1>5

LEMMA AuthIInv ==
  ASSUME IInv, HandleAuth
  PROVE  IInv'
  <1>1. Take("auth") /\ Looping /\ Setup /\ Typed
    BY DEF HandleAuth, IInv
  <1>2. PICK q, r, e : Reading(q, r, e) /\ q.h = "auth" /\ q.v = version
    BY <1>1, Takes
  <1>3. c2s = <<>>
    BY <1>1, Takes DEF SessionHandlers
  <1>4. "auth" \in Handlers \ SessionHandlers
    BY DEF Handlers, SessionHandlers
  <1>5. CASE Block = 0 /\ Expect("connfailed", 4) /\ Going /\ UNCHANGED c2s
    <2>1. r = Goes(q, "connfailed", 4, <<>>)
      BY <1>2, <1>5 DEF Reading, ReadsOpening, ReadsSecurity, ReadsResult, ReadsMessage, ReadsUpdate, Block,
                        SUPPORTED_AUTHS, NONE, VNC_AUTHENTICATION, VENCRYPT, DIFFIE_HELLMAN
    <2>2. "connfailed" \in Handlers /\ "connfailed" \notin SessionHandlers
      BY DEF Handlers, SessionHandlers
    <2> QED
      BY <1>1, <1>2, <1>3, <1>4, <1>5, <2>1, <2>2, Advances
  <1>6. CASE Block \in SUPPORTED_AUTHS /\ StartSecurity(Block, c2s) /\ Going
    <2> DEFINE t == Block
    <2>1. r = Goes(q, StartStop(t, q.v), StartLen(t, q.v), InitSaid(t, q.v))
      BY <1>2, <1>6 DEF Reading, ReadsOpening, ReadsSecurity, ReadsResult, ReadsMessage, ReadsUpdate, Block,
                        SUPPORTED_AUTHS, NONE, VNC_AUTHENTICATION, VENCRYPT, DIFFIE_HELLMAN
    <2> HIDE DEF t
    <2>2. /\ Expect(StartStop(t, version), StartLen(t, version))
          /\ c2s' = IF AtOnce(t, version) THEN <<>> \o <<M("init", 0)>> ELSE <<>>
          /\ StartStop(t, version) \in {"serverinit", "result", "challenge", "vversion", "ardparams"}
      BY <1>1, <1>3, <1>6, StartsOn DEF t
    <2>3. c2s' = InitSaid(t, q.v)
      BY <1>2, <2>2, FirstWrite DEF InitSaid
    <2>4. StartStop(t, version) \in Handlers \ {"rect", "pixels", "finished"}
          /\ StartStop(t, version) \notin SessionHandlers
      BY <2>2 DEF Handlers, SessionHandlers
    <2>5. r = Goes(q, StartStop(t, version), StartLen(t, version), c2s')
      BY <1>2, <2>1, <2>3
    <2> QED
      BY <1>1, <1>2, <1>4, <1>6, <2>2, <2>4, <2>5, Advances
  <1>7. CASE Block \notin SUPPORTED_AUTHS \cup {0} /\ Abort /\ UNCHANGED c2s
    BY <1>1, <1>7, GivesUp
  <1> QED
    BY <1>5, <1>6, <1>7 DEF HandleAuth

LEMMA ConnFailedIInv ==
  ASSUME IInv, HandleConnFailed
  PROVE  IInv'
  <1>1. Take("connfailed") /\ Looping /\ c2s' = c2s /\ Setup
    BY DEF HandleConnFailed
  <1>2. PICK q, r, e : Reading(q, r, e) /\ q.h = "connfailed"
    BY <1>1, Takes
  <1>3. c2s' = <<>>
    BY <1>1, Takes DEF SessionHandlers
  <1>4. CASE requirePayload(Block) /\ Expect("connmsg", Block) /\ Going
    <2>1. r = Goes(q, "connmsg", Block, c2s')
      BY <1>2, <1>3, <1>4 DEF Reading, ReadsOpening, ReadsSecurity, ReadsResult, ReadsMessage,
                              ReadsUpdate, Block, requirePayload
    <2>2. "connfailed" \in Handlers \ SessionHandlers /\ "connmsg" \in Handlers /\ "connmsg" \notin SessionHandlers
      BY DEF Handlers, SessionHandlers
    <2> QED
      BY <1>1, <1>2, <1>4, <2>1, <2>2, Advances
  <1>5. CASE Abort
    BY <1>1, <1>5, GivesUp
  <1> QED
    BY <1>4, <1>5 DEF HandleConnFailed

LEMMA ConnMessageIInv ==
  ASSUME IInv, HandleConnMessage
  PROVE  IInv'
  BY GivesUp DEF HandleConnMessage

\* Without a password the client closes, and has nothing more to read.
LEMMA ChallengeIInv ==
  ASSUME IInv, HandleChallenge
  PROVE  IInv'
  <1>1. Take("challenge") /\ Looping /\ Setup /\ Expect("result", 4)
    BY DEF HandleChallenge
  <1>2. PICK q, r, e : Reading(q, r, e) /\ q.h = "challenge" /\ q.g = policy
    BY <1>1, Takes
  <1>3. /\ c2s = <<>> /\ Alive /\ wire # <<>> /\ want.h = "challenge" /\ running /\ ~tls
        /\ UNCHANGED <<policy, server>> /\ ~InSession
    BY <1>1, Takes DEF SessionHandlers
  <1>4. CASE policy.password /\ Write("response", 0) /\ Going
    <2>1. c2s' = <<M("response", 0)>>
      BY <1>3, <1>4, FirstWrite DEF Write, M
    <2>2. r = Goes(q, "result", 4, c2s')
      BY <1>2, <1>4, <2>1 DEF Reading, ReadsOpening, ReadsSecurity, ReadsResult, ReadsMessage, ReadsUpdate
    <2>3. "challenge" \in Handlers \ SessionHandlers /\ "result" \in Handlers /\ "result" \notin SessionHandlers
      BY DEF Handlers, SessionHandlers
    <2> QED
      BY <1>1, <1>2, <1>4, <2>2, <2>3, Advances
  <1>5. CASE ~policy.password /\ Consume /\ Errback /\ UNCHANGED <<aborted, told, c2s>>
    <2>1. r = Doomed("refused")
      BY <1>2, <1>5 DEF Reading, ReadsOpening, ReadsSecurity, ReadsResult, ReadsMessage, ReadsUpdate
    <2>2. r = e /\ Meets(e) /\ Parses(r, Tail(wire), e)
      BY <1>2, <2>1 DEF Reading, Doomed, Dooms
    <2>3. faulty = "none" /\ Srv("result", "response")
      BY <2>1, <2>2, DoomFacts DEF Dooms
    <2>4. Typed /\ TypeOK
      BY DEF IInv, Typed
    <2>5. wire' = Tail(wire) /\ wire' \in Seq(Fields) /\ got' \in 0..Len(wire') /\ partial' = partial
      BY <1>3, <1>5, <2>4, ConsumeFacts
    <2>6. wire' = <<>>
      <3> SUFFICES ASSUME wire' # <<>> PROVE FALSE
        OBVIOUS
      <3>1. PICK x : Reads(r, Head(wire'), x)
        BY <2>2, <2>5, ParsesHead
      <3>2. Head(wire') \in Fields
        BY <2>5, HeadTailProperties
      <3> QED
        BY <2>1, <3>1, <3>2 DEF Reads, Doomed, Fields, Handlers
    <2>7. got' = 0
      BY <2>5, <2>6
    <2>8. report = "none" /\ told = 0 /\ ~aborted
      BY <1>3 DEF Alive, SessionHandlers
    <2>9. conn' = "closing" /\ report' = "failed"
      BY <1>5, <2>8 DEF Errback
    <2>10. UNCHANGED <<version, subtype, tls, rectangles, begun, commits, painted, fences, spin>>
      BY <1>1 DEF Setup, Same
    <2>11. want' = [h |-> "result", len |-> 4]
      BY <1>1 DEF Expect
    <2>12. running' = FALSE
      <3>1. want'.len = 4
        BY <2>11
      <3>2. ~(got' > 0 \/ want'.len = 0)
        BY <2>7, <3>1
      <3> QED
        BY <1>1, <3>2, Zenon DEF Looping
    <2>13. Typed'
      <3>1. want' \in [h : Handlers, len : Nat]
        BY <2>11 DEF Handlers
      <3>2. TypeOK'
        BY <1>3, <1>5, <2>4, <2>5, <2>9, <2>10, <2>12, <3>1 DEF TypeOK, server
      <3>3. srv' = [at |-> srv'.at, hears |-> srv'.hears]
            /\ sent' \in [messages : Nat, updates : Nat, rects : Nat, fences : Nat]
        BY <1>3, <2>4, TypedServer DEF server
      <3> QED
        BY <2>5, <3>2, <3>3 DEF Typed
    <2>14. Begun' /\ Loop'
      BY <1>3, <2>7, <2>10, <2>11, <2>12 DEF IInv, Begun, Loop
    <2>15. Refused'
      BY <1>3, <1>5, <2>3, <2>6, <2>8, <2>9, <2>11, <2>12 DEF Refused, server, Srv
    <2> QED
      BY <2>13, <2>14, <2>15 DEF IInv, Phase
  <1> QED
    BY <1>4, <1>5 DEF HandleChallenge

LEMMA ArdParamsIInv ==
  ASSUME IInv, HandleArdParams
  PROVE  IInv'
  <1>1. Take("ardparams") /\ Going /\ Looping /\ c2s' = c2s /\ Setup /\ Expect("ardmodulus", Block)
    BY DEF HandleArdParams
  <1>2. PICK q, r, e : Reading(q, r, e) /\ q.h = "ardparams"
    BY <1>1, Takes
  <1>3. c2s' = <<>>
    BY <1>1, Takes DEF SessionHandlers
  <1>4. r = Goes(q, "ardmodulus", Block, c2s')
    BY <1>2, <1>3 DEF Reading, ReadsOpening, ReadsSecurity, ReadsResult, ReadsMessage, ReadsUpdate, Block
  <1> QED
    BY <1>1, <1>2, <1>4, Advances DEF Handlers, SessionHandlers

LEMMA ArdModulusIInv ==
  ASSUME IInv, HandleArdModulus
  PROVE  IInv'
  <1>1. Take("ardmodulus") /\ Going /\ Looping /\ c2s' = c2s /\ Setup /\ Expect("ardkey", want.len)
    BY DEF HandleArdModulus
  <1>2. PICK q, r, e : Reading(q, r, e) /\ q.h = "ardmodulus" /\ q.len = want.len
    BY <1>1, Takes
  <1>3. c2s' = <<>>
    BY <1>1, Takes DEF SessionHandlers
  <1>4. r = Goes(q, "ardkey", want.len, c2s')
    BY <1>2, <1>3 DEF Reading, ReadsOpening, ReadsSecurity, ReadsResult, ReadsMessage, ReadsUpdate, Block
  <1> QED
    BY <1>1, <1>2, <1>4, Advances DEF Handlers, SessionHandlers

LEMMA ArdKeyIInv ==
  ASSUME IInv, HandleArdKey
  PROVE  IInv'
  <1>1. Take("ardkey") /\ Looping /\ Setup
    BY DEF HandleArdKey
  <1>2. PICK q, r, e : Reading(q, r, e) /\ q.h = "ardkey"
    BY <1>1, Takes
  <1>3. c2s = <<>>
    BY <1>1, Takes DEF SessionHandlers
  <1>4. CASE Block = "ok" /\ Write("ardreply", 0) /\ Expect("result", 4) /\ Going
    <2>1. c2s' = <<M("ardreply", 0)>>
      BY <1>3, <1>4, FirstWrite DEF Write, M
    <2>2. r = Goes(q, "result", 4, c2s')
      BY <1>2, <1>4, <2>1 DEF Reading, ReadsOpening, ReadsSecurity, ReadsResult, ReadsMessage, ReadsUpdate, Block
    <2> QED
      BY <1>1, <1>2, <1>4, <2>2, Advances DEF Handlers, SessionHandlers
  <1>5. CASE Block = "weak" /\ Escape /\ UNCHANGED c2s
    <2>1. r = Doomed("escape")
      BY <1>2, <1>5 DEF Reading, ReadsOpening, ReadsSecurity, ReadsResult, ReadsMessage, ReadsUpdate, Block
    <2>2. r = e /\ Meets(e)
      BY <1>2, <2>1 DEF Reading, Doomed, Dooms
    <2>3. faulty \in Untold
      BY <2>1, <2>2, DoomFacts DEF Dooms
    <2> QED
      BY <1>1, <1>5, <2>3, Raises
  <1> QED
    BY <1>4, <1>5 DEF HandleArdKey

LEMMA VersionOfferIInv ==
  ASSUME IInv, HandleVersionOffer
  PROVE  IInv'
  <1>1. Take("vversion") /\ Looping /\ Setup
    BY DEF HandleVersionOffer
  <1>2. PICK q, r, e : Reading(q, r, e) /\ q.h = "vversion"
    BY <1>1, Takes
  <1>3. c2s = <<>>
    BY <1>1, Takes DEF SessionHandlers
  <1>4. CASE Block >= 2 /\ Write("vversion", 2) /\ Expect("vack", 1) /\ Going
    <2>1. c2s' = <<M("vversion", 2)>>
      BY <1>3, <1>4, FirstWrite DEF Write, M
    <2>2. r = Goes(q, "vack", 1, c2s')
      BY <1>2, <1>4, <2>1 DEF Reading, ReadsOpening, ReadsSecurity, ReadsResult, ReadsMessage, ReadsUpdate, Block
    <2> QED
      BY <1>1, <1>2, <1>4, <2>2, Advances DEF Handlers, SessionHandlers
  <1>5. CASE Block < 2 /\ Abort /\ UNCHANGED c2s
    BY <1>1, <1>5, GivesUp
  <1> QED
    BY <1>4, <1>5 DEF HandleVersionOffer

LEMMA VersionAckIInv ==
  ASSUME IInv, HandleVersionAck
  PROVE  IInv'
  <1>1. Take("vack") /\ Looping /\ c2s' = c2s /\ Setup
    BY DEF HandleVersionAck
  <1>2. PICK q, r, e : Reading(q, r, e) /\ q.h = "vack"
    BY <1>1, Takes
  <1>3. c2s' = <<>>
    BY <1>1, Takes DEF SessionHandlers
  <1>4. CASE Block = 0 /\ Expect("vcount", 1) /\ Going
    <2>1. r = Goes(q, "vcount", 1, c2s')
      BY <1>2, <1>3, <1>4 DEF Reading, ReadsOpening, ReadsSecurity, ReadsResult, ReadsMessage, ReadsUpdate, Block
    <2> QED
      BY <1>1, <1>2, <1>4, <2>1, Advances DEF Handlers, SessionHandlers
  <1>5. CASE Abort
    BY <1>1, <1>5, GivesUp
  <1> QED
    BY <1>4, <1>5 DEF HandleVersionAck

LEMMA SubtypeCountIInv ==
  ASSUME IInv, HandleSubtypeCount
  PROVE  IInv'
  <1>1. Take("vcount") /\ Looping /\ c2s' = c2s /\ Setup
    BY DEF HandleSubtypeCount
  <1>2. PICK q, r, e : Reading(q, r, e) /\ q.h = "vcount"
    BY <1>1, Takes
  <1>3. c2s' = <<>>
    BY <1>1, Takes DEF SessionHandlers
  <1>4. CASE Block > 0 /\ Expect("vsubtypes", 4 * Block) /\ Going
    <2>1. Head(wire).val > 0 /\ ~(0 > 0)
      BY <1>4 DEF Block
    <2>2. Head(wire).val # 0
      BY <2>1
    <2>3. r = Goes(q, "vsubtypes", 4 * Block, c2s')
      BY <1>2, <1>3, <2>2 DEF Reading, ReadsOpening, ReadsSecurity, ReadsResult, ReadsMessage, ReadsUpdate, Block
    <2> QED
      BY <1>1, <1>2, <1>4, <2>3, Advances DEF Handlers, SessionHandlers
  <1>5. CASE Abort
    BY <1>1, <1>5, GivesUp
  <1> QED
    BY <1>4, <1>5 DEF HandleSubtypeCount

LEMMA SubtypesIInv ==
  ASSUME IInv, HandleSubtypes
  PROVE  IInv'
  <1>1. /\ Take("vsubtypes") /\ Looping
        /\ UNCHANGED <<version, tls, rectangles, begun, commits, painted, fences, spin>>
    BY DEF HandleSubtypes, Same
  <1>2. /\ Alive /\ wire # <<>> /\ want.h = "vsubtypes" /\ ~tls /\ ~InSession /\ c2s = <<>>
        /\ UNCHANGED <<policy, server>>
    BY <1>1, Takes DEF SessionHandlers
  <1>3. PICK q, r, e : /\ Reading(q, r, e) /\ q.h = "vsubtypes" /\ q.n = rectangles /\ q.v = version
                       /\ q.g = policy /\ q.k = Counts(commits, painted, fences)
    BY <1>1, Takes
  <1>4. CASE /\ Candidates(Block, policy) # {}
             /\ subtype' = Choose(Block, policy)
             /\ Write("vsubtype", subtype') /\ Expect("vchosen", 1) /\ Going
    <2> DEFINE s == Choose(Block, policy)
    <2>1. s \in {PREFERENCE[i] : i \in DOMAIN PREFERENCE}
      BY <1>4, ChooseFacts
    <2>2. r = Station("vchosen", 1, <<M("vsubtype", s)>>, q.n, q.v, s, q.g, q.k)
      <3>1. Candidates(Head(wire).val, q.g) # {} /\ s = Choose(Head(wire).val, q.g)
        BY <1>3, <1>4 DEF Block
      <3> HIDE DEF s
      <3>2. ReadsSecurity(q, Head(wire), r)
        BY <1>3 DEF Reading, ReadsOpening, ReadsResult, ReadsMessage, ReadsUpdate
      <3>3. \E x \in {PREFERENCE[i] : i \in DOMAIN PREFERENCE} :
              /\ x = Choose(Head(wire).val, q.g)
              /\ r = Station("vchosen", 1, <<M("vsubtype", x)>>, q.n, q.v, x, q.g, q.k)
        BY <1>3, <3>1, <3>2 DEF ReadsSecurity
      <3> QED
        BY <3>1, <3>3
    <2>3. subtype' = s /\ Going /\ Expect("vchosen", 1)
      BY <1>4
    <2>4. c2s' = <<M("vsubtype", s)>>
      BY <1>2, <1>4, FirstWrite DEF Write, M
    <2> HIDE DEF s
    <2>5. /\ r.h = "vchosen" /\ r.len = 1 /\ r.c = <<M("vsubtype", s)>> /\ r.n = q.n
          /\ r.v = q.v /\ r.s = s /\ r.g = q.g /\ r.k = q.k
      BY <2>2 DEF Station
    <2>6. want' = [h |-> want'.h, len |-> want'.len] /\ want'.h = "vchosen" /\ want'.len = 1
      BY <2>3 DEF Expect
    <2>7. Consume /\ UNCHANGED <<aborted, told, report, conn>>
      BY <2>3 DEF Going
    <2>8. ~InSession'
      BY <1>2 DEF server, InSession, Srv
    <2>9. Here(r)'
      BY <1>1, <1>2, <1>3, <2>3, <2>4, <2>5, <2>6, <2>8 DEF Here
    <2>10. r.h \notin Dooms /\ want'.h \in Handlers /\ want'.h \notin SessionHandlers
      BY <2>5, <2>6 DEF Dooms, Handlers, SessionHandlers
    <2>11. Begun'
      BY <1>1, <1>2, <2>6 DEF IInv, Begun
    <2>12. subtype' \in {"Plain"} \cup {PREFERENCE[i] : i \in DOMAIN PREFERENCE}
      BY <2>1, <2>3
    <2>13. /\ version' \in {0} \cup {k \in SUPPORTED_SERVER_VERSIONS : k <= MAX_CLIENT_VERSION}
           /\ rectangles' \in 0..MaxRects /\ report' \in {"none", "made", "failed"}
           /\ begun' \in Nat /\ commits' \in Nat /\ painted' \in Nat /\ fences' \in Nat
           /\ tls' \in BOOLEAN /\ ~tls'
      BY <1>1, <1>2, <2>7 DEF IInv, Typed, TypeOK
    <2>14. report' = "none"
      BY <1>2, <2>7 DEF Alive, SessionHandlers
    <2>15. Parses(r, Tail(wire), e) /\ Meets(e)
      BY <1>3 DEF Reading
    <2> QED
      BY <1>1, <1>2, <2>6, <2>7, <2>9, <2>10, <2>11, <2>12, <2>13, <2>14, <2>15, Follow
  <1>5. CASE Abort /\ UNCHANGED <<c2s, subtype>>
    <2>1. Setup
      BY <1>1, <1>5 DEF Setup, Same
    <2> QED
      BY <1>1, <1>5, <2>1, GivesUp
  <1> QED
    BY <1>4, <1>5 DEF HandleSubtypes

LEMMA ResultIInv ==
  ASSUME IInv, HandleResult
  PROVE  IInv'
  <1>9. "result" \in Handlers \ SessionHandlers /\ "result" # "vchosen" /\ "result" # "finished"
    BY DEF Handlers, SessionHandlers
  <1>0. \A h \in {"serverinit", "reasonlen"} :
            h \in Handlers \ {"rect", "pixels", "finished"} /\ h \notin SessionHandlers
    BY DEF Handlers, SessionHandlers
  <1>1. Take("result") /\ Looping /\ Setup
    BY DEF HandleResult
  <1>2. PICK q, r, e : Reading(q, r, e) /\ q.h = "result" /\ q.v = version
    BY <1>1, Takes
  <1>3. /\ c2s = <<>> /\ Alive /\ wire # <<>> /\ want.h = "result" /\ ~tls /\ told = 0
        /\ UNCHANGED <<policy, server>>
    BY <1>1, Takes DEF SessionHandlers
  <1>4. report = "none"
    BY <1>3 DEF Alive, SessionHandlers
  <1>10. version \in Nat
    <2>1. version \in {0} \cup {v \in SUPPORTED_SERVER_VERSIONS : v <= MAX_CLIENT_VERSION}
      BY DEF IInv, Typed, TypeOK
    <2> QED
      BY <2>1 DEF SUPPORTED_SERVER_VERSIONS
  <1>5. CASE Block = "ok" /\ Write("init", 0) /\ Expect("serverinit", 24) /\ Going
    <2>1. c2s' = <<M("init", 0)>>
      BY <1>3, <1>5, FirstWrite DEF Write, M
    <2>2. r = Goes(q, "serverinit", 24, c2s')
      BY <1>2, <1>5, <2>1 DEF Reading, ReadsOpening, ReadsSecurity, ReadsResult, ReadsMessage, ReadsUpdate, Block
    <2>3. "serverinit" \in Handlers \ {"rect", "pixels", "finished"} /\ "serverinit" \notin SessionHandlers
      BY <1>0
    <2>4. Take("result") /\ Reading(q, r, e) /\ Expect("serverinit", 24) /\ Going /\ Looping /\ Setup
      BY <1>1, <1>2, <1>5
    <2> QED
      BY <1>9, <2>2, <2>3, <2>4, Advances
  <1>6. CASE Block = "failed" /\ version >= 3008 /\ Expect("reasonlen", 4) /\ Going /\ UNCHANGED c2s
    <2>1. ~(q.v < 3008)
      BY <1>2, <1>6, <1>10
    <2>2. r = Goes(q, "reasonlen", 4, c2s')
      BY <1>2, <1>3, <1>6, <2>1 DEF Reading, ReadsOpening, ReadsSecurity, ReadsResult, ReadsMessage, ReadsUpdate, Block
    <2>3. "reasonlen" \in Handlers \ {"rect", "pixels", "finished"} /\ "reasonlen" \notin SessionHandlers
      BY <1>0
    <2>4. Take("result") /\ Reading(q, r, e) /\ Expect("reasonlen", 4) /\ Going /\ Looping /\ Setup
      BY <1>1, <1>2, <1>6
    <2> QED
      BY <1>9, <2>2, <2>3, <2>4, Advances
  <1>7. CASE /\ Block = "failed" /\ version < 3008
             /\ Expect("finished", want.len)
             /\ Consume /\ Tell /\ Errback /\ UNCHANGED <<aborted, c2s>>
    <2>1. ~(q.v >= 3008)
      BY <1>2, <1>7, <1>10
    <2>2. r = Doomed("ended")
      BY <1>2, <1>7, <2>1 DEF Reading, ReadsOpening, ReadsSecurity, ReadsResult, ReadsMessage, ReadsUpdate, Block
    <2>3. r = e /\ Meets(e)
      BY <1>2, <2>2 DEF Reading, Doomed, Dooms
    <2>4. Srv("closed", "-")
      BY <2>2, <2>3, DoomFacts DEF Dooms
    <2>5. conn' = "closing" /\ told' = 1 /\ report' = "failed"
      BY <1>3, <1>4, <1>7 DEF Errback, Tell
    <2> QED
      BY <1>1, <1>3, <1>7, <2>4, <2>5, EndIInv
  <1>8. CASE /\ Block = "unknown"
             /\ Expect("finished", want.len)
             /\ Consume /\ conn' = "closing" /\ UNCHANGED <<aborted, told, report, c2s>>
    <2>1. r = Doomed("silent")
      BY <1>2, <1>8 DEF Reading, ReadsOpening, ReadsSecurity, ReadsResult, ReadsMessage, ReadsUpdate, Block
    <2>2. r = e /\ Meets(e)
      BY <1>2, <2>1 DEF Reading, Doomed, Dooms
    <2>3. Srv("closed", "-") /\ faulty = "result"
      BY <2>1, <2>2, DoomFacts DEF Dooms
    <2>4. told' = 0 /\ report' = "none"
      BY <1>3, <1>4, <1>8
    <2> QED
      BY <1>1, <1>3, <1>8, <2>3, <2>4, EndIInv
  <1> QED
    BY <1>5, <1>6, <1>7, <1>8 DEF HandleResult

LEMMA ReasonLengthIInv ==
  ASSUME IInv, HandleReasonLength
  PROVE  IInv'
  <1>1. Take("reasonlen") /\ Looping /\ c2s' = c2s /\ Setup
    BY DEF HandleReasonLength
  <1>2. PICK q, r, e : Reading(q, r, e) /\ q.h = "reasonlen"
    BY <1>1, Takes
  <1>3. c2s' = <<>>
    BY <1>1, Takes DEF SessionHandlers
  <1>4. CASE requirePayload(Block) /\ Expect("reason", Block) /\ Going
    <2>1. r = Goes(q, "reason", Block, c2s')
      BY <1>2, <1>3, <1>4 DEF Reading, ReadsOpening, ReadsSecurity, ReadsResult, ReadsMessage,
                              ReadsUpdate, Block, requirePayload
    <2> QED
      BY <1>1, <1>2, <1>4, <2>1, Advances DEF Handlers, SessionHandlers
  <1>5. CASE ~requirePayload(Block) /\ Escape
    <2>1. r = Doomed("escape")
      BY <1>2, <1>5 DEF Reading, ReadsOpening, ReadsSecurity, ReadsResult, ReadsMessage, ReadsUpdate, Block
    <2>2. r = e /\ Meets(e)
      BY <1>2, <2>1 DEF Reading, Doomed, Dooms
    <2>3. faulty \in Untold
      BY <2>1, <2>2, DoomFacts DEF Dooms
    <2> QED
      BY <1>1, <1>5, <2>3, Raises
  <1> QED
    BY <1>4, <1>5 DEF HandleReasonLength

LEMMA ReasonIInv ==
  ASSUME IInv, HandleReason
  PROVE  IInv'
  <1>1. /\ Take("reason") /\ Looping /\ c2s' = c2s /\ Setup /\ Expect("finished", want.len)
        /\ Consume /\ Tell /\ Errback /\ aborted' = aborted
    BY DEF HandleReason
  <1>2. PICK q, r, e : Reading(q, r, e) /\ q.h = "reason"
    BY <1>1, Takes
  <1>3. /\ c2s = <<>> /\ Alive /\ wire # <<>> /\ want.h = "reason" /\ ~tls /\ told = 0
        /\ UNCHANGED <<policy, server>>
    BY <1>1, Takes DEF SessionHandlers
  <1>4. report = "none"
    BY <1>3 DEF Alive, SessionHandlers
  <1>5. r = Doomed("ended")
    BY <1>2 DEF Reading, ReadsOpening, ReadsSecurity, ReadsResult, ReadsMessage, ReadsUpdate
  <1>6. r = e /\ Meets(e)
    BY <1>2, <1>5 DEF Reading, Doomed, Dooms
  <1>7. Srv("closed", "-")
    BY <1>5, <1>6, DoomFacts DEF Dooms
  <1>8. conn' = "closing" /\ told' = 1 /\ report' = "failed"
    BY <1>1, <1>3, <1>4 DEF Errback, Tell
  <1> QED
    BY <1>1, <1>3, <1>7, <1>8, EndIInv

LEMMA ServerInitIInv ==
  ASSUME IInv, HandleServerInit
  PROVE  IInv'
  <1>1. Take("serverinit") /\ Going /\ Looping /\ c2s' = c2s /\ Setup /\ Expect("servername", Block)
    BY DEF HandleServerInit
  <1>2. PICK q, r, e : Reading(q, r, e) /\ q.h = "serverinit"
    BY <1>1, Takes
  <1>3. c2s' = <<>>
    BY <1>1, Takes DEF SessionHandlers
  <1>4. r = Goes(q, "servername", Block, c2s')
    BY <1>2, <1>3 DEF Reading, ReadsOpening, ReadsSecurity, ReadsResult, ReadsMessage, ReadsUpdate, Block
  <1> QED
    BY <1>1, <1>2, <1>4, Advances DEF Handlers, SessionHandlers

\* vncConnectionMade: the deferred has not fired before, so the session goes on,
\* and the set-up is the only thing the server has to read.
LEMMA SetUpIInv ==
  ASSUME IInv, HandleServerName, policy.readable
  PROVE  IInv'
  <1>0. Take("servername")
    BY DEF HandleServerName
  <1>2. /\ Alive /\ wire # <<>> /\ want.h = "servername" /\ ~tls /\ ~InSession /\ c2s = <<>>
        /\ UNCHANGED <<policy, server>>
    BY <1>0, Takes DEF SessionHandlers
  <1>4. report = "none"
    BY <1>2 DEF Alive, SessionHandlers
  <1>1. /\ Consume /\ Write("setup", 0) /\ Expect("message", 1) /\ Looping
        /\ report' = "made" /\ UNCHANGED <<aborted, told, conn>>
        /\ UNCHANGED <<version, subtype, tls, rectangles, begun, commits, painted, fences, spin>>
    BY <1>4 DEF HandleServerName, Setup, Same
  <1>3. PICK q, r, e : /\ Reading(q, r, e) /\ q.h = "servername" /\ q.n = rectangles /\ q.v = version
                       /\ q.s = subtype /\ q.g = policy /\ q.k = Counts(commits, painted, fences)
    BY <1>0, Takes
  <1>6. c2s' = <<M("setup", 0)>>
    BY <1>1, <1>2, FirstWrite DEF Write, M
  <1>7. r = Goes(q, "message", 1, <<M("setup", 0)>>)
    BY <1>3 DEF Reading, ReadsOpening, ReadsSecurity, ReadsResult, ReadsMessage, ReadsUpdate
  <1>8. /\ r.h = "message" /\ r.len = 1 /\ r.c = <<M("setup", 0)>> /\ r.n = q.n /\ r.v = q.v
        /\ r.s = q.s /\ r.g = q.g /\ r.k = q.k
    BY <1>7, GoesFacts
  <1>9. want' = [h |-> want'.h, len |-> want'.len] /\ want'.h = "message" /\ want'.len = 1
    BY <1>1 DEF Expect
  <1>10. ~InSession'
    BY <1>2 DEF server, InSession, Srv
  <1>11. Here(r)'
    BY <1>1, <1>2, <1>3, <1>6, <1>8, <1>9, <1>10 DEF Here
  <1>12. r.h \notin Dooms /\ want'.h \in Handlers /\ want'.h \in SessionHandlers
    BY <1>8, <1>9 DEF Dooms, Handlers, SessionHandlers
  <1>13. Begun'
    BY <1>1, <1>2, <1>9 DEF IInv, Begun
  <1>14. /\ version' \in {0} \cup {k \in SUPPORTED_SERVER_VERSIONS : k <= MAX_CLIENT_VERSION}
         /\ subtype' \in {"Plain"} \cup {PREFERENCE[i] : i \in DOMAIN PREFERENCE}
         /\ rectangles' \in 0..MaxRects /\ report' \in {"none", "made", "failed"}
         /\ begun' \in Nat /\ commits' \in Nat /\ painted' \in Nat /\ fences' \in Nat
         /\ tls' \in BOOLEAN /\ ~tls'
    BY <1>1, <1>2 DEF IInv, Typed, TypeOK
  <1>15. Parses(r, Tail(wire), e) /\ Meets(e)
    BY <1>3 DEF Reading
  <1> QED
    BY <1>1, <1>2, <1>9, <1>11, <1>12, <1>13, <1>14, <1>15, Follow

\* setImageMode cannot decode the pixels: the factory is told, and its deferred,
\* which has failed, raises when it is called.
LEMMA UnreadableIInv ==
  ASSUME IInv, HandleServerName, ~policy.readable
  PROVE  IInv'
  <1>0. Take("servername")
    BY DEF HandleServerName
  <1>2. /\ Alive /\ wire # <<>> /\ want.h = "servername" /\ told = 0 /\ c2s = <<>>
        /\ UNCHANGED <<policy, server>>
    BY <1>0, Takes DEF SessionHandlers
  <1>4. report = "none"
    BY <1>2 DEF Alive, SessionHandlers
  <1>1. /\ Consume /\ Looping /\ told' = 1 /\ report' = "failed" /\ conn' = "lost"
        /\ UNCHANGED <<aborted, want, c2s>>
        /\ UNCHANGED <<version, subtype, tls, rectangles, begun, commits, painted, fences, spin>>
    BY <1>2, <1>4 DEF HandleServerName, Tell, Setup, Same
  <1>3. Typed /\ TypeOK
    BY DEF IInv, Typed
  <1>5. running' = FALSE
    BY <1>1 DEF Looping
  <1>6. wire' \in Seq(Fields) /\ got' \in 0..Len(wire') /\ partial' = partial
    BY <1>1, <1>2, <1>3, ConsumeFacts
  <1>7. Typed'
    <2>1. TypeOK'
      <3>1. running' \in BOOLEAN /\ aborted' \in BOOLEAN /\ partial' \in BOOLEAN /\ tls' \in BOOLEAN /\ spin' \in BOOLEAN
        BY <1>1, <1>3, <1>5, <1>6, Zenon DEF TypeOK
      <3>2. told' \in 0..2 /\ report' \in {"none", "made", "failed"} /\ conn' \in {"open", "closing", "lost"}
        BY <1>1
      <3> QED
        BY <1>1, <1>2, <1>3, <1>6, <3>1, <3>2 DEF TypeOK, server
    <2>2. srv' = [at |-> srv'.at, hears |-> srv'.hears]
          /\ sent' \in [messages : Nat, updates : Nat, rects : Nat, fences : Nat]
      BY <1>2, <1>3, TypedServer DEF server
    <2> QED
      BY <1>6, <2>1, <2>2 DEF Typed
  <1>8. Begun' /\ Loop'
    BY <1>1, <1>5 DEF IInv, Begun, Loop
  <1>9. Lost'
    BY <1>1, <1>2, <1>5 DEF Lost, Heard
  <1> QED
    BY <1>7, <1>8, <1>9 DEF IInv, Phase

LEMMA ServerNameIInv ==
  ASSUME IInv, HandleServerName
  PROVE  IInv'
  BY SetUpIInv, UnreadableIInv

-----------------------------------------------------------------------------
(* The handlers of the messages *)

\* A handler of a message that goes on; the server waits for nothing of it.
LEMMA Proceeds ==
  ASSUME IInv, NEW h0 \in SessionHandlers \ {"rect", "pixels"}, Take(h0),
         NEW q, NEW r, NEW e, Reading(q, r, e),
         NEW h \in SessionHandlers \ {"rect", "pixels"}, NEW len, r = Goes(q, h, len, <<>>),
         Expect(h, len), Going, Looping, Setup
  PROVE  IInv'
  <1>1. h0 # "vchosen" /\ h0 # "finished" /\ h0 \in Handlers \ {"rect", "pixels"}
    BY DEF SessionHandlers, Handlers
  <1>2. Alive /\ ~tls /\ wire # <<>> /\ UNCHANGED <<policy, server>> /\ InSession /\ want.h = h0
    BY <1>1, Takes
  <1>3. h \in Handlers \ {"rect", "pixels", "finished"}
    BY DEF SessionHandlers, Handlers
  <1> QED
    BY <1>1, <1>2, <1>3, GoesOn

LEMMA ConnectionIInv ==
  ASSUME IInv, HandleConnection
  PROVE  IInv'
  <1>1. Take("message") /\ Looping /\ c2s' = c2s /\ Setup
    BY DEF HandleConnection
  <1>2. PICK q, r, e : Reading(q, r, e) /\ q.h = "message"
    BY <1>1, Takes
  <1>3. "message" \in SessionHandlers \ {"rect", "pixels"}
    BY DEF SessionHandlers
  <1>4. CASE Block = "unknown" /\ Abort
    <2>1. r = Doomed("garbled")
      BY <1>2, <1>4 DEF Reading, ReadsOpening, ReadsSecurity, ReadsResult, ReadsMessage, ReadsUpdate, Block
    <2>2. r = e /\ Meets(e)
      BY <1>2, <2>1 DEF Reading, Doomed, Dooms
    <2>3. faulty = "message"
      BY <2>1, <2>2, DoomFacts DEF Dooms
    <2> QED
      BY <1>1, <1>4, <2>3, GivesUp
  <1>5. ASSUME NEW kind, NEW h, NEW len, Block = kind, Expect(h, len), Going,
               <<kind, h, len>> \in {<<"update", "update", 3>>, <<"bell", "message", 1>>,
                  <<"text", "texthead", 7>>, <<"colourmap", "maphead", 5>>, <<"fence", "fencehead", 8>>}
        PROVE  IInv'
    <2>1. \/ kind = "update" /\ h = "update" /\ len = 3
          \/ kind = "bell" /\ h = "message" /\ len = 1
          \/ kind = "text" /\ h = "texthead" /\ len = 7
          \/ kind = "colourmap" /\ h = "maphead" /\ len = 5
          \/ kind = "fence" /\ h = "fencehead" /\ len = 8
      BY <1>5
    <2>2. r = Goes(q, h, len, <<>>)
      BY <1>2, <1>5, <2>1 DEF Reading, ReadsOpening, ReadsSecurity, ReadsResult, ReadsMessage, ReadsUpdate, Block
    <2>3. h \in SessionHandlers \ {"rect", "pixels", "text", "map"}
      BY <2>1 DEF SessionHandlers
    <2> QED
      BY <1>1, <1>2, <1>3, <1>5, <2>2, <2>3, Proceeds
  <1>6. \/ Block = "update" /\ Expect("update", 3) /\ Going
        \/ Block = "bell" /\ Expect("message", 1) /\ Going
        \/ Block = "text" /\ Expect("texthead", 7) /\ Going
        \/ Block = "colourmap" /\ Expect("maphead", 5) /\ Going
        \/ Block = "fence" /\ Expect("fencehead", 8) /\ Going
        \/ Block = "unknown" /\ Abort
    BY DEF HandleConnection
  <1> QED
    BY <1>4, <1>5, <1>6

LEMMA TextHeadIInv ==
  ASSUME IInv, HandleTextHead
  PROVE  IInv'
  <1>1. Take("texthead") /\ Looping /\ c2s' = c2s /\ Setup
    BY DEF HandleTextHead
  <1>2. PICK q, r, e : Reading(q, r, e) /\ q.h = "texthead"
    BY <1>1, Takes
  <1>3. CASE requirePayload(Block) /\ Expect("text", Block) /\ Going
    <2>1. r = Goes(q, "text", Block, <<>>)
      BY <1>2, <1>3 DEF Reading, ReadsOpening, ReadsSecurity, ReadsResult, ReadsMessage,
                              ReadsUpdate, Block, requirePayload
    <2> QED
      BY <1>1, <1>2, <1>3, <2>1, Proceeds DEF SessionHandlers
  <1>4. CASE Abort
    BY <1>1, <1>4, GivesUp
  <1> QED
    BY <1>3, <1>4 DEF HandleTextHead

LEMMA ColourMapHeadIInv ==
  ASSUME IInv, HandleColourMapHead
  PROVE  IInv'
  <1>1. Take("maphead") /\ Looping /\ c2s' = c2s /\ Setup
    BY DEF HandleColourMapHead
  <1>2. PICK q, r, e : Reading(q, r, e) /\ q.h = "maphead"
    BY <1>1, Takes
  <1>3. CASE requirePayload(6 * Block) /\ Expect("map", 6 * Block) /\ Going
    <2>1. r = Goes(q, "map", 6 * Block, <<>>)
      BY <1>2, <1>3 DEF Reading, ReadsOpening, ReadsSecurity, ReadsResult, ReadsMessage,
                              ReadsUpdate, Block, requirePayload
    <2> QED
      BY <1>1, <1>2, <1>3, <2>1, Proceeds DEF SessionHandlers
  <1>4. CASE Abort
    BY <1>1, <1>4, GivesUp
  <1> QED
    BY <1>3, <1>4 DEF HandleColourMapHead

LEMMA PayloadIInv ==
  ASSUME IInv, HandlePayload
  PROVE  IInv'
  <1>1. PICK h0 \in {"text", "map"} : Take(h0)
    BY DEF HandlePayload
  <1>2. Expect("message", 1) /\ Going /\ Looping /\ Setup
    BY DEF HandlePayload
  <1>3. PICK q, r, e : Reading(q, r, e) /\ q.h = h0
    BY <1>1, Takes
  <1>4. r = Goes(q, "message", 1, <<>>)
    BY <1>1, <1>3 DEF Reading, ReadsOpening, ReadsSecurity, ReadsResult, ReadsMessage, ReadsUpdate
  <1> QED
    BY <1>1, <1>2, <1>3, <1>4, Proceeds DEF SessionHandlers

\* A fence that asks for a reply is counted when it is answered.
LEMMA AnswersIInv ==
  ASSUME IInv, NEW h0 \in {"fencehead", "fencerequest"}, Take(h0),
         NEW q, NEW r, NEW e, Reading(q, r, e), r = Replies(q),
         Expect("message", 1), fences' = fences + 1, Going, Looping,
         UNCHANGED <<version, subtype, tls, rectangles, begun, commits, painted, spin>>
  PROVE  IInv'
  <1>1. /\ Alive /\ wire # <<>> /\ want.h = h0 /\ ~tls /\ InSession /\ UNCHANGED <<policy, server>>
    BY Takes DEF SessionHandlers
  <1>2. /\ Here(q) /\ Parses(r, Tail(wire), e) /\ Meets(e)
    BY DEF Reading
  <1>3. /\ r.h = "message" /\ r.len = 1 /\ r.c = <<>> /\ r.n = q.n /\ r.v = q.v
        /\ r.s = q.s /\ r.g = q.g /\ r.k = Counts(q.k.commits, q.k.painted, q.k.fences + 1)
    BY DEF Replies, Station
  <1>4. q.k.commits = commits /\ q.k.painted = painted /\ q.k.fences = fences
    BY <1>2 DEF Here, Counts
  <1>5. want' = [h |-> want'.h, len |-> want'.len] /\ want'.h = "message" /\ want'.len = 1
    BY DEF Expect
  <1>6. InSession'
    BY <1>1 DEF server, InSession, Srv
  <1>7. r.k = Counts(commits, painted, fences)'
    BY <1>3, <1>4
  <1>8. Here(r)'
    BY <1>1, <1>2, <1>3, <1>5, <1>6, <1>7 DEF Here
  <1>9. r.h \notin Dooms /\ want'.h \in Handlers /\ want'.h \in SessionHandlers
    BY <1>3, <1>5 DEF Dooms, Handlers, SessionHandlers
  <1>10. Begun'
    BY <1>1, <1>5 DEF IInv, Begun
  <1>11. Consume /\ UNCHANGED <<aborted, told, report, conn>>
    BY DEF Going
  <1>12. /\ version' \in {0} \cup {k \in SUPPORTED_SERVER_VERSIONS : k <= MAX_CLIENT_VERSION}
         /\ subtype' \in {"Plain"} \cup {PREFERENCE[i] : i \in DOMAIN PREFERENCE}
         /\ rectangles' \in 0..MaxRects /\ report' \in {"none", "made", "failed"}
         /\ begun' \in Nat /\ commits' \in Nat /\ painted' \in Nat /\ fences' \in Nat
         /\ tls' \in BOOLEAN /\ ~tls'
    BY <1>1, <1>11 DEF IInv, Typed, TypeOK
  <1> QED
    BY <1>1, <1>2, <1>5, <1>8, <1>9, <1>10, <1>11, <1>12, Follow

LEMMA FenceHeadIInv ==
  ASSUME IInv, HandleFenceHead
  PROVE  IInv'
  <1>1. /\ Take("fencehead") /\ Going /\ Looping
        /\ UNCHANGED <<version, subtype, tls, rectangles, begun, commits, painted, spin>>
    BY DEF HandleFenceHead
  <1>2. PICK q, r, e : Reading(q, r, e) /\ q.h = "fencehead"
    BY <1>1, Takes
  <1>3. "fencehead" \in SessionHandlers \ {"rect", "pixels"}
    BY DEF SessionHandlers
  <1>4. ReadsMessage(q, Head(wire), r)
    BY <1>2 DEF Reading, ReadsOpening, ReadsSecurity, ReadsResult, ReadsUpdate
  <1>5. CASE /\ Block.len > 0
             /\ Expect(IF Block.request THEN "fencerequest" ELSE "fence", Block.len)
             /\ UNCHANGED <<c2s, fences>>
    <2> DEFINE h == IF Block.request THEN "fencerequest" ELSE "fence"
    <2>1. Block.len # 0
      BY <1>5
    <2>2. r = Goes(q, h, Block.len, <<>>)
      BY <1>2, <1>4, <2>1 DEF ReadsMessage, Block
    <2>3. h \in SessionHandlers \ {"rect", "pixels", "text", "map"}
      BY DEF SessionHandlers
    <2>4. Setup
      BY <1>1, <1>5 DEF Setup, Same
    <2>5. Expect(h, Block.len)
      BY <1>5
    <2> HIDE DEF h
    <2> QED
      BY <1>1, <1>2, <1>3, <2>2, <2>3, <2>4, <2>5, Proceeds
  <1>6. CASE Block.len = 0 /\ Answered(Block.request)
    <2>1. ~(Block.len > 0)
      BY <1>6
    <2>2. CASE Block.request
      <3>1. r = Replies(q)
        BY <1>2, <1>4, <1>6, <2>1, <2>2 DEF ReadsMessage, Block
      <3>2. Expect("message", 1) /\ fences' = fences + 1
        BY <1>6, <2>2 DEF Answered
      <3> QED
        BY <1>1, <1>2, <3>1, <3>2, AnswersIInv
    <2>3. CASE ~Block.request
      <3>1. r = Goes(q, "message", 1, <<>>)
        BY <1>2, <1>4, <1>6, <2>1, <2>3 DEF ReadsMessage, Block
      <3>2. Expect("message", 1) /\ UNCHANGED <<c2s, fences>>
        BY <1>6, <2>3 DEF Answered
      <3>3. Setup
        BY <1>1, <3>2 DEF Setup, Same
      <3> QED
        BY <1>1, <1>2, <1>3, <3>1, <3>2, <3>3, Proceeds DEF SessionHandlers
    <2> QED
      BY <2>2, <2>3
  <1> QED
    BY <1>5, <1>6 DEF HandleFenceHead

LEMMA FenceIInv ==
  ASSUME IInv, NEW request \in BOOLEAN, HandleFence(request)
  PROVE  IInv'
  <1> DEFINE h0 == IF request THEN "fencerequest" ELSE "fence"
  <1>1. /\ Take(h0) /\ Going /\ Looping /\ Answered(request)
        /\ UNCHANGED <<version, subtype, tls, rectangles, begun, commits, painted, spin>>
    BY DEF HandleFence
  <1>2. h0 # "vchosen" /\ h0 # "finished" /\ h0 \in SessionHandlers \ {"rect", "pixels"}
    BY DEF SessionHandlers
  <1>3. h0 = IF request THEN "fencerequest" ELSE "fence"
    OBVIOUS
  <1> HIDE DEF h0
  <1>4. PICK q, r, e : Reading(q, r, e) /\ q.h = h0
    BY <1>1, <1>2, Takes
  <1>5. CASE request
    <2>1. r = Replies(q)
      BY <1>3, <1>4, <1>5 DEF Reading, ReadsOpening, ReadsSecurity, ReadsResult, ReadsMessage, ReadsUpdate
    <2>2. Expect("message", 1) /\ fences' = fences + 1
      BY <1>1, <1>5 DEF Answered
    <2> QED
      BY <1>1, <1>3, <1>4, <1>5, <2>1, <2>2, AnswersIInv
  <1>6. CASE ~request
    <2>1. r = Goes(q, "message", 1, <<>>)
      BY <1>3, <1>4, <1>6 DEF Reading, ReadsOpening, ReadsSecurity, ReadsResult, ReadsMessage, ReadsUpdate
    <2>2. Expect("message", 1) /\ UNCHANGED <<c2s, fences>>
      BY <1>1, <1>6 DEF Answered
    <2>3. Setup
      BY <1>1, <2>2 DEF Setup, Same
    <2> QED
      BY <1>1, <1>2, <1>4, <2>1, <2>2, <2>3, Proceeds DEF SessionHandlers
  <1> QED
    BY <1>5, <1>6

\* An update begun, a rectangle over, or the last of them: the same for the
\* parser as for the counts that the server keeps.
LEMMA UpdatesIInv ==
  ASSUME IInv, NEW h0 \in {"update", "rect", "pixels"}, Take(h0),
         NEW q, NEW r, NEW e, Reading(q, r, e),
         NEW n \in 0..MaxRects, NEW rects \in Nat, r = Continues(q, n, rects),
         DoConnection(n), painted' = rects,
         begun' = begun + (IF h0 = "update" THEN 1 ELSE 0), Going, Looping,
         UNCHANGED <<c2s, version, subtype, tls, fences, spin>>
  PROVE  IInv'
  <1>1. /\ Alive /\ wire # <<>> /\ want.h = h0 /\ ~tls /\ InSession /\ UNCHANGED <<policy, server>>
    BY Takes DEF SessionHandlers
  <1>2. /\ Here(q) /\ Parses(r, Tail(wire), e) /\ Meets(e)
    BY DEF Reading
  <1>3. n \in Nat /\ rectangles' = n
    BY ClientBounds DEF DoConnection
  <1>4. r.n = n /\ r.v = q.v /\ r.s = q.s /\ r.g = q.g
    BY <1>3 DEF Continues, Station
  <1>5. q.k.commits = commits /\ q.k.painted = painted /\ q.k.fences = fences
    BY <1>2 DEF Here, Counts
  <1>6. \/ /\ n = 0 /\ Expect("message", 1) /\ commits' = commits + 1
           /\ r.h = "message" /\ r.len = 1 /\ r.c = <<>>
           /\ r.k = Counts(commits + 1, rects, fences)
        \/ /\ n > 0 /\ Expect("rect", 12) /\ commits' = commits
           /\ r.h = "rect" /\ r.len = 12 /\ r.c = <<>>
           /\ r.k = Counts(commits, rects, fences)
    <2>1. CASE n = 0
      <3>1. At(r, "message", 1, <<>>) /\ r.k = Counts(commits + 1, rects, fences)
        <4>1. /\ At(Continues(q, n, rects), "message", 1, <<>>)
              /\ Continues(q, n, rects).k = Counts(q.k.commits + 1, rects, q.k.fences)
          BY <1>3, <2>1 DEF Continues, Station, At
        <4> QED
          BY <1>5, <4>1
      <3>2. Expect("message", 1) /\ commits' = commits + 1
        BY <2>1 DEF DoConnection
      <3> QED
        BY <2>1, <3>1, <3>2 DEF At
    <2>2. CASE n > 0
      <3>1. At(r, "rect", 12, <<>>) /\ r.k = Counts(commits, rects, fences)
        <4>1. /\ At(Continues(q, n, rects), "rect", 12, <<>>)
              /\ Continues(q, n, rects).k = Counts(q.k.commits, rects, q.k.fences)
          BY <1>3, <2>2 DEF Continues, Station, At
        <4> QED
          BY <1>5, <4>1
      <3>2. Expect("rect", 12) /\ commits' = commits
        BY <2>2 DEF DoConnection
      <3> QED
        BY <2>2, <3>1, <3>2 DEF At
    <2> QED
      BY <1>3, <2>1, <2>2
  <1>7. want' = [h |-> want'.h, len |-> want'.len] /\ want'.h = r.h /\ want'.len = r.len
    BY <1>6 DEF Expect
  <1>8. InSession'
    BY <1>1 DEF server, InSession, Srv
  <1>9. r.k = Counts(commits, painted, fences)' /\ r.c = <<>>
    BY <1>6
  <1>10. Here(r)'
    BY <1>1, <1>2, <1>3, <1>4, <1>7, <1>8, <1>9 DEF Here
  <1>11. r.h \in {"message", "rect"}
    BY <1>6
  <1>12. r.h \notin Dooms /\ want'.h \in Handlers /\ want'.h \in SessionHandlers
    BY <1>7, <1>11 DEF Dooms, Handlers, SessionHandlers
  <1>13. Typed /\ TypeOK
    BY DEF IInv, Typed
  <1>14. Begun'
    <2>1. begun = commits + (IF want.h \in {"rect", "pixels"} THEN 1 ELSE 0)
      BY DEF IInv, Begun
    <2>2. commits \in Nat /\ begun \in Nat
      BY <1>13 DEF TypeOK
    <2> QED
      BY <1>1, <1>6, <1>7, <2>1, <2>2 DEF Begun
  <1>16. Consume /\ UNCHANGED <<aborted, told, report, conn>>
    BY DEF Going
  <1>17. /\ version' \in {0} \cup {k \in SUPPORTED_SERVER_VERSIONS : k <= MAX_CLIENT_VERSION}
         /\ subtype' \in {"Plain"} \cup {PREFERENCE[i] : i \in DOMAIN PREFERENCE}
         /\ rectangles' \in 0..MaxRects /\ report' \in {"none", "made", "failed"}
         /\ begun' \in Nat /\ painted' \in Nat /\ fences' \in Nat
         /\ tls' \in BOOLEAN /\ ~tls'
    BY <1>1, <1>3, <1>13, <1>16 DEF TypeOK
  <1>18. commits' \in Nat
    BY <1>6, <1>13 DEF TypeOK
  <1> QED
    BY <1>1, <1>2, <1>7, <1>10, <1>12, <1>14, <1>16, <1>17, <1>18, Follow

LEMMA FramebufferUpdateIInv ==
  ASSUME IInv, HandleFramebufferUpdate
  PROVE  IInv'
  <1>1. /\ Take("update") /\ begun' = begun + 1 /\ DoConnection(Block) /\ Going /\ Looping
        /\ UNCHANGED <<c2s, version, subtype, tls, painted, fences, spin>>
    BY DEF HandleFramebufferUpdate
  <1>2. PICK q, r, e : Reading(q, r, e) /\ q.h = "update" /\ q.k = Counts(commits, painted, fences)
    BY <1>1, Takes
  <1>3. Block \in 0..MaxRects /\ r = Continues(q, Block, q.k.painted)
    BY <1>2 DEF Reading, ReadsOpening, ReadsSecurity, ReadsResult, ReadsMessage, ReadsUpdate, Block
  <1>4. q.k.painted = painted /\ painted \in Nat
    BY <1>2 DEF Counts, IInv, Typed, TypeOK
  <1>5. painted' = painted /\ begun' = begun + (IF "update" = "update" THEN 1 ELSE 0)
    BY <1>1
  <1> QED
    BY <1>1, <1>2, <1>3, <1>4, <1>5, UpdatesIInv

LEMMA LastRectIInv ==
  ASSUME IInv, HandleLastRect
  PROVE  IInv'
  <1>1. /\ Take("rect") /\ Block.enc = "last" /\ DoConnection(0) /\ Going /\ Looping
        /\ UNCHANGED <<c2s, version, subtype, tls, begun, painted, fences, spin>>
    BY DEF HandleLastRect
  <1>2. PICK q, r, e : Reading(q, r, e) /\ q.h = "rect" /\ q.k = Counts(commits, painted, fences)
    BY <1>1, Takes
  <1>3. r = Continues(q, 0, q.k.painted)
    BY <1>1, <1>2 DEF Reading, ReadsOpening, ReadsSecurity, ReadsResult, ReadsMessage, ReadsUpdate, Block
  <1>4. q.k.painted = painted /\ painted \in Nat /\ begun \in Nat /\ 0 \in 0..MaxRects
    BY <1>2, ClientBounds DEF Counts, IInv, Typed, TypeOK
  <1>5. painted' = painted /\ begun' = begun + (IF "rect" = "update" THEN 1 ELSE 0)
    BY <1>1, <1>4
  <1> QED
    BY <1>1, <1>2, <1>3, <1>4, <1>5, UpdatesIInv

\* The decoder of a rectangle's payload is parked, with one rectangle less to come.
LEMMA RectangleIInv ==
  ASSUME IInv, HandleRectangle
  PROVE  IInv'
  <1>1. /\ Take("rect") /\ Block.enc # "last" /\ Looping
        /\ UNCHANGED <<c2s, version, subtype, tls, begun, painted, fences, spin>>
    BY DEF HandleRectangle
  <1>2. PICK q, r, e : /\ Reading(q, r, e) /\ q.h = "rect" /\ q.n = rectangles
                       /\ q.v = version /\ q.s = subtype /\ q.g = policy
                       /\ q.k = Counts(commits, painted, fences)
    BY <1>1, Takes
  <1>3. /\ Alive /\ wire # <<>> /\ want.h = "rect" /\ running /\ ~tls /\ InSession /\ told = 0
        /\ conn = "open" /\ UNCHANGED <<policy, server>>
    BY <1>1, Takes DEF SessionHandlers
  <1>4. ReadsUpdate(q, Head(wire), r)
    BY <1>2 DEF Reading, ReadsOpening, ReadsSecurity, ReadsResult, ReadsMessage
  <1>5. q.n > 0 /\ rectangles \in 0..MaxRects /\ MaxRects \in Nat
    BY <1>2, <1>4, ClientBounds DEF ReadsUpdate, IInv, Typed, TypeOK
  <1>6. rectangles - 1 \in 0..MaxRects
    BY <1>2, <1>5
  <1>7. q.k.painted = painted /\ painted \in Nat /\ begun \in Nat
    BY <1>2 DEF Counts, IInv, Typed, TypeOK
  <1>8. CASE Block.enc = "control" /\ DoConnection(rectangles - 1) /\ Going
    <2>1. r = Continues(q, rectangles - 1, q.k.painted)
      BY <1>2, <1>4, <1>8 DEF ReadsUpdate, Block
    <2>2. painted' = painted /\ begun' = begun + (IF "rect" = "update" THEN 1 ELSE 0)
      BY <1>1, <1>7
    <2> QED
      BY <1>1, <1>2, <1>6, <1>7, <1>8, <2>1, <2>2, UpdatesIInv
  <1>9. CASE /\ Block.enc = "pixels"
             /\ rectangles' = rectangles - 1 /\ commits' = commits
             /\ Expect("pixels", Block.len) /\ Going
    <2>1. r = Station("pixels", Block.len, <<>>, q.n - 1, q.v, q.s, q.g, q.k)
      BY <1>2, <1>4, <1>9 DEF ReadsUpdate, Block
    <2>2. /\ r.h = "pixels" /\ r.len = Block.len /\ r.c = <<>> /\ r.n = q.n - 1
          /\ r.v = q.v /\ r.s = q.s /\ r.g = q.g /\ r.k = q.k
      BY <2>1 DEF Station
    <2>3. want' = [h |-> want'.h, len |-> want'.len] /\ want'.h = "pixels" /\ want'.len = Block.len
      BY <1>9 DEF Expect
    <2>4. InSession'
      BY <1>3 DEF server, InSession, Srv
    <2>5. Here(r)'
      BY <1>1, <1>2, <1>3, <1>9, <2>2, <2>3, <2>4 DEF Here
    <2>6. r.h \notin Dooms /\ want'.h \in Handlers /\ want'.h \in SessionHandlers
      BY <2>2, <2>3 DEF Dooms, Handlers, SessionHandlers
    <2>7. Begun'
      BY <1>1, <1>3, <1>9, <2>3 DEF IInv, Begun
    <2>8. Consume /\ UNCHANGED <<aborted, told, report, conn>>
      BY <1>9 DEF Going
    <2>9. /\ version' \in {0} \cup {k \in SUPPORTED_SERVER_VERSIONS : k <= MAX_CLIENT_VERSION}
          /\ subtype' \in {"Plain"} \cup {PREFERENCE[i] : i \in DOMAIN PREFERENCE}
          /\ report' \in {"none", "made", "failed"}
          /\ begun' \in Nat /\ commits' \in Nat /\ painted' \in Nat /\ fences' \in Nat
          /\ tls' \in BOOLEAN /\ ~tls'
      BY <1>1, <1>3, <1>9, <2>8 DEF IInv, Typed, TypeOK
    <2>10. Parses(r, Tail(wire), e) /\ Meets(e) /\ rectangles' \in 0..MaxRects
      BY <1>2, <1>6, <1>9 DEF Reading
    <2> QED
      BY <1>1, <1>3, <2>3, <2>5, <2>6, <2>7, <2>8, <2>9, <2>10, Follow
  <1>10. CASE Block.enc = "unknown" /\ rectangles' = rectangles - 1 /\ commits' = commits /\ Abort
    BY <1>1, <1>3, <1>6, <1>10, AbortIInv
  <1> QED
    BY <1>8, <1>9, <1>10 DEF HandleRectangle

LEMMA PixelsIInv ==
  ASSUME IInv, HandlePixels
  PROVE  IInv'
  <1>1. /\ Take("pixels") /\ Looping
        /\ UNCHANGED <<c2s, version, subtype, tls, begun, fences, spin>>
    BY DEF HandlePixels
  <1>2. PICK q, r, e : /\ Reading(q, r, e) /\ q.h = "pixels" /\ q.n = rectangles
                       /\ q.k = Counts(commits, painted, fences)
    BY <1>1, Takes
  <1>3. /\ want.h = "pixels" /\ running /\ InSession /\ told = 0 /\ conn = "open"
        /\ UNCHANGED <<policy, server>> /\ rectangles \in 0..MaxRects
    BY <1>1, Takes DEF SessionHandlers
  <1>4. ReadsUpdate(q, Head(wire), r)
    BY <1>2 DEF Reading, ReadsOpening, ReadsSecurity, ReadsResult, ReadsMessage
  <1>5. q.k.painted = painted /\ painted \in Nat /\ begun \in Nat
    BY <1>2 DEF Counts, IInv, Typed, TypeOK
  <1>6. CASE Block = "ok" /\ painted' = painted + 1 /\ DoConnection(rectangles) /\ Going
    <2>1. r = Continues(q, rectangles, painted + 1)
      BY <1>2, <1>4, <1>5, <1>6 DEF ReadsUpdate, Block
    <2>2. begun' = begun + (IF "pixels" = "update" THEN 1 ELSE 0) /\ painted + 1 \in Nat
      BY <1>1, <1>5
    <2> QED
      BY <1>1, <1>2, <1>3, <1>6, <2>1, <2>2, UpdatesIInv
  <1>7. CASE Block = "broken" /\ UNCHANGED <<painted, rectangles, commits>> /\ Abort
    BY <1>1, <1>3, <1>7, AbortIInv
  <1> QED
    BY <1>6, <1>7 DEF HandlePixels

\* What the server sends after the end finds nothing that could answer it.
LEMMA FinishedIInv ==
  ASSUME IInv, HandleFinished
  PROVE  IInv'
  <1>1. Typed /\ TypeOK /\ running /\ want.h = "finished"
    BY DEF HandleFinished, IInv, Typed
  <1>2. Finished
    BY <1>1, AliveNotFinished DEF IInv, Phase, Loop, Early, Aborted, Refused, Lost
  <1>3. /\ UNCHANGED <<want, aborted, told, report, conn, policy, c2s, server>>
        /\ UNCHANGED <<version, subtype, tls, rectangles, begun, commits, painted, fences>>
        /\ spin' = ~spin /\ Looping
    BY DEF HandleFinished
  <1>4. wire' \in Seq(Fields) /\ got' \in 0..Len(wire') /\ partial' = partial
    <2>1. CASE want.len = 0
      BY <1>1, <2>1 DEF HandleFinished, Typed, TypeOK
    <2>2. CASE want.len # 0
      <3>1. got > 0
        BY <1>1, <2>2 DEF IInv, Loop
      <3>2. wire # <<>>
        BY <1>1, <3>1 DEF TypeOK
      <3> QED
        BY <1>1, <2>2, <3>2, ConsumeFacts DEF HandleFinished
    <2> QED
      BY <2>1, <2>2
  <1>5. running' = (~aborted' /\ conn' # "lost" /\ (got' > 0 \/ want'.len = 0))
    BY <1>3 DEF Looping
  <1>6. Typed'
    <2>1. spin' \in BOOLEAN /\ running' \in BOOLEAN
      BY <1>1, <1>3, <1>5, Zenon DEF TypeOK
    <2>2. TypeOK'
      BY <1>1, <1>3, <1>4, <2>1 DEF TypeOK, server
    <2>3. srv' = [at |-> srv'.at, hears |-> srv'.hears]
          /\ sent' \in [messages : Nat, updates : Nat, rects : Nat, fences : Nat]
      BY <1>1, <1>3, TypedServer DEF server
    <2> QED
      BY <1>4, <2>2, <2>3 DEF Typed
  <1>7. Begun'
    BY <1>3 DEF IInv, Begun
  <1>8. Loop'
    BY <1>2, <1>3, <1>5 DEF Loop, Finished
  <1>9. Finished'
    BY <1>2, <1>3 DEF Finished, server, Srv
  <1> QED
    BY <1>6, <1>7, <1>8, <1>9 DEF IInv, Phase

\* The last acknowledgement of VeNCrypt: TLS takes the connection over, unless
\* bytes have come with it.
LEMMA SubtypeAckIInv ==
  ASSUME IInv, HandleSubtypeAck
  PROVE  IInv'
  <1>1. /\ Take("vchosen") /\ Looping
        /\ UNCHANGED <<version, subtype, rectangles, begun, commits, painted, fences, spin>>
    BY DEF HandleSubtypeAck, Same
  <1>2. /\ running /\ want.h = "vchosen" /\ wire # <<>> /\ UNCHANGED <<policy, server>>
        /\ Typed /\ TypeOK /\ ~tls
    BY <1>1 DEF Take, IInv, Typed, Loop
  <1>3. \/ Alive
        \/ /\ conn = "open" /\ ~aborted /\ told = 0 /\ faulty = "early" /\ srv.at = "closed"
           /\ wire = <<Field("vchosen", 1, 1), Field("early", 2, 0)>> /\ c2s = <<>> /\ srv.hears = "tls"
    BY <1>2 DEF IInv, Phase, Early, Aborted, Refused, Finished, Lost
  <1>4. CASE Abort /\ UNCHANGED <<c2s, tls>>
    <2>1. CASE Alive
      <3>1. Setup
        BY <1>1, <1>4 DEF Setup, Same
      <3> QED
        BY <1>1, <1>4, <2>1, <3>1, GivesUp
    <2>2. CASE ~Alive
      <3>1. told = 0 /\ conn = "open" /\ c2s = <<>> /\ rectangles' \in 0..MaxRects
        BY <1>1, <1>2, <1>3, <2>2 DEF TypeOK
      <3> QED
        BY <1>1, <1>2, <1>4, <3>1, AbortIInv
    <2> QED
      BY <2>1, <2>2
  <1>5. CASE /\ Block = 1 /\ got <= 1 /\ ~partial
             /\ tls' = TRUE
             /\ IF subtype \in VNC_AUTH_SUBTYPES THEN Expect("challenge", 16) ELSE Expect("result", 4)
             /\ c2s' = Append(c2s, [m |-> "tls", val |-> 0]) \o
                       (IF subtype \in PLAIN_AUTH_SUBTYPES THEN <<[m |-> "plain", val |-> 0]>> ELSE <<>>)
             /\ Going
    <2>1. Consume /\ UNCHANGED <<aborted, told, report, conn>>
      BY <1>5 DEF Going
    <2>2. /\ wire' = Tail(wire) /\ wire' \in Seq(Fields) /\ got' \in 0..Len(wire') /\ partial' = partial
          /\ got' = 0
      <3>1. got' = (IF got > 0 THEN got - 1 ELSE 0) /\ got \in Nat
        BY <1>2, <2>1 DEF Consume, TypeOK
      <3> QED
        BY <1>2, <1>5, <2>1, <3>1, ConsumeFacts
    <2>3. /\ want' = [h |-> want'.h, len |-> want'.len]
          /\ want'.h = TlsStop(subtype) /\ want'.len = TlsLen(subtype)
      BY <1>5 DEF Expect, TlsStop, TlsLen
    <2>4. want'.h \in {"challenge", "result"} /\ want'.len \in Nat /\ want'.len # 0
      BY <2>3 DEF TlsStop, TlsLen
    <2>5. running' = FALSE
      <3>1. ~(got' > 0 \/ want'.len = 0)
        BY <2>2, <2>4
      <3> QED
        BY <1>1, <3>1, Zenon DEF Looping
    <2>6. want'.h \in Handlers /\ want'.h \notin SessionHandlers
      BY <2>4 DEF Handlers, SessionHandlers
    <2>7. Begun'
      BY <1>1, <1>2, <2>4 DEF IInv, Begun
    <2>8. c2s = <<>> => c2s' = TlsSaid(subtype)
      BY <1>5, FirstWrite, PairConcat, PairEmpty DEF TlsSaid, M
    <2>9. /\ version' \in {0} \cup {k \in SUPPORTED_SERVER_VERSIONS : k <= MAX_CLIENT_VERSION}
          /\ subtype' \in {"Plain"} \cup {PREFERENCE[i] : i \in DOMAIN PREFERENCE}
          /\ rectangles' \in 0..MaxRects /\ report' \in {"none", "made", "failed"}
          /\ begun' \in Nat /\ commits' \in Nat /\ painted' \in Nat /\ fences' \in Nat
          /\ tls' \in BOOLEAN
      BY <1>1, <1>2, <1>5, <2>1 DEF TypeOK
    <2>10. CASE Alive
      <3>1. PICK q, r, e : /\ Reading(q, r, e) /\ q.h = "vchosen" /\ q.n = rectangles /\ q.v = version
                           /\ q.s = subtype /\ q.g = policy /\ q.k = Counts(commits, painted, fences)
        BY <1>1, <2>10, Takes
      <3>2. ~InSession /\ c2s = <<>>
        BY <1>1, <2>10, Takes DEF SessionHandlers
      <3>3. r = Goes(q, TlsStop(q.s), TlsLen(q.s), TlsSaid(q.s))
        BY <1>5, <3>1 DEF Reading, ReadsOpening, ReadsSecurity, ReadsResult, ReadsMessage, ReadsUpdate, Block
      <3>4. /\ r.h = TlsStop(subtype) /\ r.len = TlsLen(subtype) /\ r.c = TlsSaid(subtype) /\ r.n = q.n
            /\ r.v = q.v /\ r.s = q.s /\ r.g = q.g /\ r.k = q.k
        BY <3>1, <3>3, GoesFacts
      <3>5. ~InSession'
        BY <1>2, <3>2 DEF server, InSession, Srv
      <3>6. Here(r)'
        BY <1>1, <1>2, <2>3, <2>8, <3>1, <3>2, <3>4, <3>5 DEF Here
      <3>7. r.h \notin Dooms
        BY <2>3, <2>4, <3>4 DEF Dooms
      <3>8. report' = "none"
        BY <1>2, <2>1, <2>10 DEF Alive, SessionHandlers
      <3>9. Parses(r, Tail(wire), e) /\ Meets(e)
        BY <3>1 DEF Reading
      <3> QED
        BY <1>1, <1>2, <2>1, <2>3, <2>5, <2>6, <2>7, <2>9, <2>10, <3>6, <3>7, <3>8, <3>9, Follow
    <2>11. CASE ~Alive
      <3>1. /\ conn = "open" /\ ~aborted /\ told = 0 /\ faulty = "early" /\ srv.at = "closed"
            /\ c2s = <<>> /\ srv.hears = "tls"
        BY <1>3, <2>11
      <3>2. Typed'
        <4>1. want' \in [h : Handlers, len : Nat]
          BY <2>3, <2>4, <2>6
        <4>2. TypeOK'
          BY <1>1, <1>2, <2>1, <2>2, <2>5, <2>9, <4>1 DEF TypeOK, server
        <4>3. srv' = [at |-> srv'.at, hears |-> srv'.hears]
              /\ sent' \in [messages : Nat, updates : Nat, rects : Nat, fences : Nat]
          BY <1>2, TypedServer DEF server
        <4> QED
          BY <2>2, <4>2, <4>3 DEF Typed
      <3>3. Loop'
        BY <2>2, <2>5 DEF Loop
      <3>4. Heard'
        <4>1. c2s' = TlsSaid(subtype)
          BY <2>8, <3>1
        <4>2. Head(c2s') = M("tls", 0)
          BY <4>1, OneHeard, TwoHeard DEF TlsSaid
        <4> QED
          BY <1>2, <3>1, <4>2 DEF Heard, M, server
      <3>5. Early'
        BY <1>2, <1>5, <2>1, <2>4, <3>1, <3>4 DEF Early, server
      <3> QED
        BY <2>7, <3>2, <3>3, <3>5 DEF IInv, Phase
    <2> QED
      BY <2>10, <2>11
  <1> QED
    BY <1>4, <1>5 DEF HandleSubtypeAck

\* Every handler keeps the invariant.
LEMMA HandleIInv ==
  ASSUME IInv, Handle
  PROVE  IInv'
  <1>1. CASE HandleInitial \/ HandleBadHeader \/ HandleNumberSecurityTypes \/ HandleSecurityTypes
    BY <1>1, InitialIInv, BadHeaderIInv, NumberSecurityTypesIInv, SecurityTypesIInv
  <1>2. CASE HandleAuth \/ HandleConnFailed \/ HandleConnMessage \/ HandleChallenge
    BY <1>2, AuthIInv, ConnFailedIInv, ConnMessageIInv, ChallengeIInv
  <1>3. CASE HandleArdParams \/ HandleArdModulus \/ HandleArdKey
    BY <1>3, ArdParamsIInv, ArdModulusIInv, ArdKeyIInv
  <1>4. CASE \/ HandleVersionOffer \/ HandleVersionAck \/ HandleSubtypeCount \/ HandleSubtypes
             \/ HandleSubtypeAck
    BY <1>4, VersionOfferIInv, VersionAckIInv, SubtypeCountIInv, SubtypesIInv, SubtypeAckIInv
  <1>5. CASE HandleResult \/ HandleReasonLength \/ HandleReason \/ HandleFinished
    BY <1>5, ResultIInv, ReasonLengthIInv, ReasonIInv, FinishedIInv
  <1>6. CASE HandleServerInit \/ HandleServerName
    BY <1>6, ServerInitIInv, ServerNameIInv
  <1>7. CASE HandleConnection \/ HandleTextHead \/ HandleColourMapHead \/ HandlePayload
    BY <1>7, ConnectionIInv, TextHeadIInv, ColourMapHeadIInv, PayloadIInv
  <1>8. CASE HandleFenceHead \/ \E request \in BOOLEAN : HandleFence(request)
    BY <1>8, FenceHeadIInv, FenceIInv
  <1>9. CASE HandleFramebufferUpdate \/ HandleLastRect \/ HandleRectangle \/ HandlePixels
    BY <1>9, FramebufferUpdateIInv, LastRectIInv, RectangleIInv, PixelsIInv
  <1> QED
    BY <1>1, <1>2, <1>3, <1>4, <1>5, <1>6, <1>7, <1>8, <1>9 DEF Handle

-----------------------------------------------------------------------------
(* The reactor *)

\* What has been written and not read is what the server waits for.
LEMMA AliveHeard ==
  ASSUME Typed, Alive
  PROVE  Heard
  <1> SUFFICES ASSUME c2s # <<>>, srv.hears # "-" PROVE Head(c2s).m = srv.hears
    BY DEF Heard
  <1>1. PICK q, e : Here(q) /\ Parses(q, wire, e) /\ Meets(e)
    BY DEF Alive
  <1>2. ~InSession
    BY DEF InSession, Srv
  <1>3. wire = <<>> /\ q = e
    BY <1>1, <1>2, UnreadEmpty
  <1>4. q.h \notin Dooms /\ q.c = c2s
    BY <1>1, <1>2, WaitsNoDoom DEF Here
  <1>5. Agrees(q)
    BY <1>1, <1>3, <1>4 DEF Meets, GivenUp, Doomed, Dooms
  <1> USE DEF Srv
  <1>6. CASE MeetsOpening(q)
    <2>1. \/ srv.hears = "version" /\ c2s = <<M("version", q.v)>>
          \/ srv.hears = "choice" /\ \E t : c2s = ChoiceSaid(t, q.v)
      BY <1>4, <1>6 DEF MeetsOpening, At
    <2> QED
      BY <2>1, OneHeard, TwoHeard DEF M, ChoiceSaid
  <1>7. CASE MeetsSecurity(q)
    <2>1. \/ srv.hears = "response" /\ c2s = <<M("response", 0)>>
          \/ srv.hears = "ardreply" /\ c2s = <<M("ardreply", 0)>>
          \/ srv.hears = "vversion" /\ c2s = <<M("vversion", 2)>>
          \/ srv.hears = "vsubtype" /\ c2s = <<M("vsubtype", q.s)>>
          \/ srv.hears = "tls" /\ c2s = TlsSaid(q.s)
          \/ srv.hears = "plain" /\ c2s = <<M("plain", 0)>>
      BY <1>4, <1>7 DEF MeetsSecurity, At
    <2> QED
      BY <2>1, OneHeard, TwoHeard DEF M, TlsSaid
  <1>8. CASE MeetsResult(q)
    <2>1. \/ srv.hears = "init" /\ c2s = <<M("init", 0)>>
          \/ srv.hears = "setup" /\ c2s = <<M("setup", 0)>>
      BY <1>4, <1>8 DEF MeetsResult, At
    <2> QED
      BY <2>1, OneHeard DEF M
  <1> QED
    BY <1>2, <1>5, <1>6, <1>7, <1>8 DEF Agrees, MeetsSession

\* The server that closes has left a client that follows with something to read.
LEMMA AliveUnread ==
  ASSUME Typed, Alive, srv.at = "closed"
  PROVE  wire # <<>>
  <1> SUFFICES ASSUME wire = <<>> PROVE FALSE
    OBVIOUS
  <1>1. PICK q, e : Here(q) /\ Parses(q, wire, e) /\ Meets(e)
    BY DEF Alive
  <1>2. q = e /\ q.h \notin Dooms
    BY <1>1, ParsesNothing, WaitsNoDoom
  <1>3. Agrees(q)
    BY <1>1, <1>2 DEF Meets, GivenUp, Doomed, Dooms
  <1> QED
    BY <1>3 DEF Agrees, MeetsOpening, MeetsSecurity, MeetsResult, MeetsSession, InSession, Srv

LEMMA ReceiveIInv ==
  ASSUME IInv, Receive
  PROVE  IInv'
  <1>1. PICK n \in 0..Len(wire), part \in BOOLEAN : DataReceived(n, part)
    BY DEF Receive
  <1>2. Typed /\ TypeOK /\ wire \in Seq(Fields) /\ Len(wire) \in Nat
    BY LenProperties DEF IInv, Typed
  <1>3. /\ conn # "lost" /\ ~running /\ ~aborted /\ got + n <= Len(wire)
        /\ part => got + n < Len(wire)
        /\ n > 0 \/ part
        /\ ~(tls /\ faulty = "early")
        /\ got' = got + n /\ partial' = part /\ tls' = FALSE
    BY <1>1 DEF DataReceived
  <1>4. running' = (got' > 0 \/ want.len = 0 \/ (want.h = "initial" /\ Block = BadHeader))
    BY <1>1 DEF DataReceived
  <1>5. /\ UNCHANGED <<want, aborted, version, subtype, rectangles, policy, report, told>>
        /\ UNCHANGED <<begun, commits, painted, fences, spin, wire, conn, c2s, server>>
    BY <1>1 DEF DataReceived
  <1>6. got' \in 0..Len(wire') /\ got' \in Nat
    BY <1>2, <1>3, <1>5 DEF TypeOK
  <1>7. Typed'
    <2>1. running' \in BOOLEAN /\ tls' \in BOOLEAN /\ partial' \in BOOLEAN
      BY <1>3, <1>4, Zenon
    <2>2. TypeOK'
      BY <1>2, <1>5, <1>6, <2>1 DEF TypeOK, server
    <2>3. srv' = [at |-> srv'.at, hears |-> srv'.hears]
          /\ sent' \in [messages : Nat, updates : Nat, rects : Nat, fences : Nat]
      BY <1>2, <1>5, TypedServer DEF server
    <2> QED
      BY <1>2, <1>5, <2>2, <2>3 DEF Typed
  <1>8. Begun'
    BY <1>5 DEF IInv, Begun
  <1>9. Loop'
    BY <1>3, <1>4, <1>5 DEF Loop
  <1>10. ASSUME Alive PROVE Alive'
    <2>1. PICK q, e : Here(q) /\ Parses(q, wire, e) /\ Meets(e)
      BY <1>10 DEF Alive
    <2>2. Here(q)' /\ Parses(q, wire', e)
      BY <1>5, <2>1 DEF Here, server, InSession, Srv
    <2>3. Meets(e)'
      BY <1>5, <2>1, MeetsSame
    <2>4. Ordered'
      BY <1>5, <1>10 DEF Alive, Ordered, server, InSession, Srv
    <2> QED
      BY <1>5, <1>10, <2>2, <2>3, <2>4 DEF Alive
  <1>11. ASSUME Early PROVE Early'
    BY <1>3, <1>5, <1>11 DEF Early, server
  <1>12. ~Aborted /\ ~Lost
    BY <1>3 DEF Aborted, Lost
  <1>13. ~Refused
    BY <1>2, <1>3, <1>6 DEF Refused, TypeOK
  <1>14. ASSUME Finished PROVE Finished'
    BY <1>3, <1>5, <1>14 DEF Finished, server, Srv
  <1> QED
    BY <1>7, <1>8, <1>9, <1>10, <1>11, <1>12, <1>13, <1>14 DEF IInv, Phase

\* However the connection is lost, the factory has been told at most once.
LEMMA LostIInv ==
  ASSUME IInv, ~running, conn # "lost", ConnectionLost,
         UNCHANGED <<policy, srv, agreed, sec, left, sent>>, faulty' \in Faults \cup {"none"},
         faulty' \notin {"drop"} \cup Untold => told' = 1 \/ report' = "failed",
         want.h = "message" => faulty' # "none",
         ~aborted /\ tls => told = 0, Heard
  PROVE  IInv'
  <1>1. Typed /\ TypeOK
    BY DEF IInv, Typed
  <1>2. /\ UNCHANGED <<want, running, aborted, version, subtype, rectangles, policy, begun, commits>>
        /\ UNCHANGED <<painted, fences, spin, wire, got, partial, c2s>>
        /\ conn' = "lost" /\ tls' = (tls /\ aborted)
    BY DEF ConnectionLost
  <1>3. /\ report' \in {"none", "made", "failed"} /\ told' \in 0..2
        /\ told' = told \/ (told' = 1 /\ told = 0)
    BY <1>1 DEF ConnectionLost, Tell, TypeOK
  <1>4. told <= 1
    BY <1>1 DEF IInv, Phase, Alive, Early, Aborted, Refused, Finished, Lost
  <1>5. Typed'
    <2>1. tls' \in BOOLEAN
      BY <1>2, Zenon
    <2>2. TypeOK'
      BY <1>1, <1>2, <1>3, <2>1 DEF TypeOK
    <2> QED
      BY <1>1, <1>2, <2>2 DEF Typed
  <1>6. Begun' /\ Loop'
    BY <1>2 DEF IInv, Begun, Loop
  <1>7. Lost'
    BY <1>2, <1>3, <1>4 DEF Lost, Heard
  <1> QED
    BY <1>5, <1>6, <1>7 DEF IInv, Phase

LEMMA LoseIInv ==
  ASSUME IInv, Lose
  PROVE  IInv'
  <1>1. /\ ~running /\ ConnectionLost /\ UNCHANGED server
        /\ conn = "closing" \/ (conn = "open" /\ srv.at = "closed" /\ (got = Len(wire) \/ aborted))
    BY DEF Lose
  <1>2. Typed /\ TypeOK /\ wire \in Seq(Fields) /\ policy' = policy /\ faulty \in Faults \cup {"none"}
    BY <1>1 DEF IInv, Typed, TypeOK, ConnectionLost
  <1>3. ~Alive
    <2> SUFFICES ASSUME Alive PROVE FALSE
      OBVIOUS
    <2>1. conn = "open" /\ ~aborted /\ srv.at = "closed" /\ got = Len(wire)
      BY <1>1 DEF Alive
    <2>2. ~(got > 0)
      BY <1>1, <2>1 DEF IInv, Loop
    <2>3. wire = <<>>
      BY <1>2, <2>1, <2>2, EmptySeq, LenProperties
    <2> QED
      BY <1>2, <2>1, <2>3, AliveUnread
  <1>4. UNCHANGED <<srv, agreed, sec, left, sent, faulty>>
    BY <1>1 DEF server
  <1>5. CASE Early
    <2>1. ~(got > 0) /\ got = Len(wire)
      BY <1>1, <1>5 DEF IInv, Loop, Early
    <2>2. tls /\ Heard /\ want.h # "message" /\ ~aborted /\ told = 0 /\ conn = "open"
      BY <1>5, <2>1 DEF Early
    <2>3. told' = 1
      BY <1>1, <2>2 DEF ConnectionLost, Tell
    <2> QED
      BY <1>1, <1>2, <1>4, <2>2, <2>3, LostIInv
  <1>6. CASE Aborted
    <2>1. aborted /\ conn = "closing" /\ told = 1 /\ (want.h = "message" => faulty # "none")
      BY <1>6 DEF Aborted
    <2>2. told' = 1
      BY <1>1, <2>1 DEF ConnectionLost
    <2>3. Heard
      BY <1>6 DEF Aborted, Heard, InSession, Srv
    <2> QED
      BY <1>1, <1>2, <1>4, <2>1, <2>2, <2>3, LostIInv
  <1>7. CASE Refused
    <2>1. report = "failed" /\ told = 0 /\ want.h = "result" /\ conn = "closing" /\ Heard
      BY <1>7 DEF Refused, Heard
    <2>2. report' = "failed"
      BY <1>1, <2>1 DEF ConnectionLost
    <2> QED
      BY <1>1, <1>2, <1>4, <2>1, <2>2, LostIInv
  <1>8. CASE Finished
    <2>1. ~tls /\ told <= 1 /\ (told = 0 => faulty = "result") /\ want.h = "finished" /\ Heard
          /\ conn = "closing"
      BY <1>8 DEF Finished, Heard
    <2>2. told' = told
      BY <1>1, <2>1 DEF ConnectionLost
    <2>3. told \in 0..2
      BY <1>2 DEF TypeOK
    <2>4. faulty \notin {"drop"} \cup Untold => told' = 1
      BY <2>1, <2>2, <2>3 DEF Untold
    <2> QED
      BY <1>1, <1>2, <1>4, <2>1, <2>4, LostIInv
  <1> QED
    BY <1>1, <1>3, <1>5, <1>6, <1>7, <1>8 DEF IInv, Phase, Lost

\* A TLS handshake that fails is told of when the connection is lost.
LEMMA TlsFailsIInv ==
  ASSUME IInv, TlsFails
  PROVE  IInv'
  <1>1. /\ ~running /\ conn = "open" /\ tls /\ ConnectionLost
        /\ UNCHANGED <<srv, agreed, sec, left, sent>>
        /\ \/ faulty' = "tls" /\ "tls" \in Faults
           \/ faulty' = faulty /\ faulty = "early"
    BY DEF TlsFails, Breaks
  <1>2. Typed /\ policy' = policy /\ faulty \in Faults \cup {"none"}
    BY <1>1 DEF IInv, Typed, TypeOK, ConnectionLost
  <1>3. Alive \/ Early
    BY <1>1 DEF IInv, Phase, Aborted, Refused, Finished, Lost
  <1>4. told = 0 /\ ~aborted
    BY <1>3 DEF Alive, Early
  <1>5. told' = 1
    BY <1>1, <1>4 DEF ConnectionLost, Tell
  <1>6. Heard
    BY <1>2, <1>3, AliveHeard DEF Early, Heard
  <1>7. faulty' \in Faults \cup {"none"} /\ faulty' # "none"
    BY <1>1, <1>2
  <1> QED
    BY <1>1, <1>2, <1>4, <1>5, <1>6, <1>7, LostIInv

LEMMA DropIInv ==
  ASSUME IInv, Drop
  PROVE  IInv'
  <1>1. /\ ~running /\ conn # "lost" /\ ConnectionLost /\ faulty = "none" /\ "drop" \in Faults
        /\ faulty' = "drop" /\ UNCHANGED <<srv, agreed, sec, left, sent>>
    BY DEF Drop, Breaks
  <1>2. Typed /\ policy' = policy
    BY <1>1 DEF IInv, Typed, ConnectionLost
  <1>3. ~Early /\ ~Lost
    BY <1>1 DEF Early, Lost
  <1>4. Heard
    BY <1>2, <1>3, AliveHeard DEF IInv, Phase, Aborted, Refused, Finished, Heard, InSession, Srv
  <1>5. ~aborted /\ tls => told = 0
    BY <1>3 DEF IInv, Phase, Alive, Aborted, Refused, Finished
  <1> QED
    BY <1>1, <1>2, <1>4, <1>5, LostIInv

-----------------------------------------------------------------------------
(* The theorems *)

LEMMA StutterIInv ==
  ASSUME IInv, UNCHANGED vars
  PROVE  IInv'
  <1>1. UNCHANGED <<client, net, c2s, server>>
    BY DEF vars
  <1>2. Typed' /\ Begun' /\ Loop'
    BY <1>1 DEF IInv, Typed, TypeOK, Begun, Loop, client, net, server
  <1>3. ASSUME Alive PROVE Alive'
    <2>1. PICK q, e : Here(q) /\ Parses(q, wire, e) /\ Meets(e)
      BY <1>3 DEF Alive
    <2>2. Here(q)' /\ Parses(q, wire', e)
      BY <1>1, <2>1 DEF Here, client, net, server, InSession, Srv
    <2>3. Meets(e)'
      BY <1>1, <2>1, MeetsSame
    <2>4. Ordered'
      BY <1>1, <1>3 DEF Alive, Ordered, net, server, InSession, Srv
    <2> QED
      BY <1>1, <1>3, <2>2, <2>3, <2>4 DEF Alive, client, net
  <1>4. ~Alive => Phase'
    BY <1>1 DEF IInv, Phase, Early, Aborted, Refused, Finished, Lost, Heard, InSession, Srv,
                client, net, server
  <1> QED
    BY <1>2, <1>3, <1>4 DEF IInv, Phase

\* The invariant is inductive.
LEMMA NextIInv ==
  ASSUME IInv, [Next]_vars
  PROVE  IInv'
  <1>1. CASE Handle
    BY <1>1, HandleIInv
  <1>2. CASE Receive
    BY <1>2, ReceiveIInv
  <1>3. CASE Lose \/ TlsFails \/ Drop
    BY <1>3, LoseIInv, TlsFailsIInv, DropIInv
  <1>4. CASE SrvShake \/ SrvSession
    BY <1>4, ServerIInv
  <1>5. CASE UNCHANGED vars
    BY <1>5, StutterIInv
  <1> QED
    BY <1>1, <1>2, <1>3, <1>4, <1>5 DEF Next

\* The parser follows the server, or one of the two has given the other up.
THEOREM ParserInvariant == Spec => []IInv
  BY InitIInv, NextIInv, PTL DEF Spec

\* The parser's own variables keep their types: the version is one the client
\* speaks, the length waited for is a number and the number of rectangles left is
\* never negative (expect, _handleInitial, _doConnection).
THEOREM TypeCorrect == Spec => []TypeOK
  <1>1. IInv => TypeOK
    BY DEF IInv, Typed
  <1> QED
    BY <1>1, ParserInvariant, PTL

-----------------------------------------------------------------------------
(* What the client buffers *)

LEMMA LimitFacts ==
  /\ \A n \in Nat : n <= 24 => n <= Limit
  /\ \A n \in 0..MaxU8 : n <= Limit /\ 4 * n <= Limit
  /\ \A n \in 0..MaxU16 : n <= Limit
  <1>1. MaxU8 \in Int /\ MaxU16 \in Int /\ 24 <= MaxU16 /\ MaxU8 <= MaxU16 /\ 4 * MaxU8 <= MaxU16
    BY DEF MaxU8, MaxU16
  <1>2. Limit \in Int /\ MaxU16 <= Limit
    BY <1>1, LimitAssumption
  <1>3. ASSUME NEW n \in Nat, n <= 24 PROVE n <= Limit
    BY <1>1, <1>2, <1>3
  <1>4. ASSUME NEW n \in 0..MaxU8 PROVE n <= Limit /\ 4 * n <= Limit
    BY <1>1, <1>2
  <1>5. ASSUME NEW n \in 0..MaxU16 PROVE n <= Limit
    BY <1>1, <1>2
  <1> QED
    BY <1>3, <1>4, <1>5

\* What a length of one or two bytes says.
LEMMA NarrowBlock ==
  ASSUME IInv, NEW h \in {"ntypes", "vcount", "ardparams", "fencehead"}, Take(h)
  PROVE  /\ h \in {"ntypes", "vcount"} => Block \in 0..MaxU8
         /\ h = "ardparams" => Block \in 0..MaxU16
         /\ h = "fencehead" => Block.len \in 0..MaxU8
  <1>1. PICK q, r, e : Reading(q, r, e) /\ q.h = h
    BY Takes
  <1>2. Head(wire) \in Fields /\ Head(wire).h = h
    BY <1>1 DEF Reading
  <1> QED
    BY <1>2 DEF Fields, Narrow, Block

\* A payload that is asked for is one the parser reads next.
LEMMA PayloadBlock ==
  ASSUME IInv, NEW h \in {"connfailed", "reasonlen", "texthead", "maphead"}, Take(h),
         NEW len, len = (IF h = "maphead" THEN 6 * Block ELSE Block), requirePayload(len)
  PROVE  len \in Nat
  <1>1. PICK q, r, e : Reading(q, r, e) /\ q.h = h
    BY Takes
  <1>2. \E h2 \in {"connmsg", "reason", "text", "map"} : r = Goes(q, h2, len, <<>>)
    BY <1>1 DEF Reading, ReadsOpening, ReadsSecurity, ReadsResult, ReadsMessage, ReadsUpdate, Block
  <1>3. r.len = len /\ r.h \notin Dooms
    BY <1>2, GoesFacts DEF Dooms
  <1>4. Tail(wire) \in Seq(Fields)
    BY Taken, HeadTailProperties
  <1>5. Parses(r, Tail(wire), e) /\ Meets(e)
    BY <1>1 DEF Reading
  <1> QED
    BY <1>3, <1>4, <1>5, NextLen

LEMMA HandleBounded ==
  ASSUME IInv, BufferBounded, Handle
  PROVE  BufferBounded'
  <1>1. want \in [h : Handlers, len : Nat] /\ Limit \in Nat
    BY LenFacts DEF IInv, Typed, TypeOK
  <1>2. /\ \A h, n : Expect(h, n) /\ ~(n > Limit) => BufferBounded'
        /\ \A h, n : Expect(h, n) /\ n \in Nat /\ requirePayload(n) => BufferBounded'
        /\ \A n : Expect("servername", n) \/ Expect("pixels", n) => BufferBounded'
        /\ Abort \/ Escape \/ want' = want => BufferBounded'
    <2>1. ASSUME NEW h, NEW n, Expect(h, n) PROVE BufferBounded' <=> (n > Limit => h \in Unchecked)
      BY <2>1 DEF Expect, BufferBounded
    <2>2. \A n \in Nat : requirePayload(n) => ~(n > Limit)
      BY <1>1 DEF requirePayload
    <2>3. Abort \/ Escape \/ want' = want => BufferBounded'
      BY DEF Abort, Escape, BufferBounded
    <2> QED
      BY <2>1, <2>2, <2>3 DEF Unchecked
  <1>3. \A h : /\ Expect(h, 1) => BufferBounded'
               /\ Expect(h, 2) => BufferBounded'
               /\ Expect(h, 3) => BufferBounded'
               /\ Expect(h, 4) => BufferBounded'
               /\ Expect(h, 5) => BufferBounded'
               /\ Expect(h, 7) => BufferBounded'
               /\ Expect(h, 8) => BufferBounded'
               /\ Expect(h, 12) => BufferBounded'
               /\ Expect(h, 16) => BufferBounded'
               /\ Expect(h, 24) => BufferBounded'
    <2>1. \A n \in {1, 2, 3, 4, 5, 7, 8, 12, 16, 24} : ~(n > Limit)
      BY <1>1, LimitFacts
    <2> QED
      BY <1>2, <2>1
  <1>4. \A h : Expect(h, want.len) /\ want.h \notin Unchecked => BufferBounded'
    BY <1>2 DEF BufferBounded
  <1>5. ASSUME HandleInitial PROVE BufferBounded'
    BY <1>2, <1>3, <1>5 DEF HandleInitial
  <1>6. ASSUME HandleBadHeader PROVE BufferBounded'
    BY <1>2, <1>3, <1>6 DEF HandleBadHeader
  <1>7. ASSUME HandleSecurityTypes PROVE BufferBounded'
    BY <1>2, <1>3, <1>7 DEF HandleSecurityTypes, StartSecurity
  <1>8. ASSUME HandleAuth PROVE BufferBounded'
    BY <1>2, <1>3, <1>8 DEF HandleAuth, StartSecurity
  <1>9. ASSUME HandleConnFailed PROVE BufferBounded'
    <2>1. requirePayload(Block) => Block \in Nat
      BY <1>9, PayloadBlock DEF HandleConnFailed
    <2> QED
      BY <1>2, <1>3, <1>9, <2>1 DEF HandleConnFailed
  <1>10. ASSUME HandleConnMessage PROVE BufferBounded'
    BY <1>2, <1>3, <1>10 DEF HandleConnMessage
  <1>11. ASSUME HandleChallenge PROVE BufferBounded'
    BY <1>2, <1>3, <1>11 DEF HandleChallenge
  <1>12. ASSUME HandleArdKey PROVE BufferBounded'
    BY <1>2, <1>3, <1>12 DEF HandleArdKey
  <1>13. ASSUME HandleVersionOffer PROVE BufferBounded'
    BY <1>2, <1>3, <1>13 DEF HandleVersionOffer
  <1>14. ASSUME HandleVersionAck PROVE BufferBounded'
    BY <1>2, <1>3, <1>14 DEF HandleVersionAck
  <1>15. ASSUME HandleSubtypes PROVE BufferBounded'
    BY <1>2, <1>3, <1>15 DEF HandleSubtypes
  <1>16. ASSUME HandleSubtypeAck PROVE BufferBounded'
    BY <1>2, <1>3, <1>16 DEF HandleSubtypeAck
  <1>17. ASSUME HandleResult PROVE BufferBounded'
    <2>1. want.h \notin Unchecked
      BY <1>17 DEF HandleResult, Take, Unchecked
    <2> QED
      BY <1>2, <1>3, <1>4, <1>17, <2>1 DEF HandleResult
  <1>18. ASSUME HandleReasonLength PROVE BufferBounded'
    <2>1. requirePayload(Block) => Block \in Nat
      BY <1>18, PayloadBlock DEF HandleReasonLength
    <2> QED
      BY <1>2, <1>3, <1>18, <2>1 DEF HandleReasonLength
  <1>19. ASSUME HandleReason PROVE BufferBounded'
    <2>1. want.h \notin Unchecked
      BY <1>19 DEF HandleReason, Take, Unchecked
    <2> QED
      BY <1>2, <1>3, <1>4, <1>19, <2>1 DEF HandleReason
  <1>20. ASSUME HandleFinished PROVE BufferBounded'
    BY <1>2, <1>3, <1>20 DEF HandleFinished
  <1>21. ASSUME HandleServerInit PROVE BufferBounded'
    BY <1>2, <1>3, <1>21 DEF HandleServerInit
  <1>22. ASSUME HandleServerName PROVE BufferBounded'
    BY <1>2, <1>3, <1>22 DEF HandleServerName
  <1>23. ASSUME HandleConnection PROVE BufferBounded'
    BY <1>2, <1>3, <1>23 DEF HandleConnection
  <1>24. ASSUME HandleTextHead PROVE BufferBounded'
    <2>1. requirePayload(Block) => Block \in Nat
      BY <1>24, PayloadBlock DEF HandleTextHead
    <2> QED
      BY <1>2, <1>3, <1>24, <2>1 DEF HandleTextHead
  <1>25. ASSUME HandleColourMapHead PROVE BufferBounded'
    <2>1. requirePayload(6 * Block) => 6 * Block \in Nat
      BY <1>25, PayloadBlock DEF HandleColourMapHead
    <2> QED
      BY <1>2, <1>3, <1>25, <2>1 DEF HandleColourMapHead
  <1>26. ASSUME HandlePayload PROVE BufferBounded'
    BY <1>2, <1>3, <1>26 DEF HandlePayload
  <1>27. ASSUME HandleFramebufferUpdate PROVE BufferBounded'
    BY <1>2, <1>3, <1>27 DEF HandleFramebufferUpdate, DoConnection
  <1>28. ASSUME HandleLastRect PROVE BufferBounded'
    BY <1>2, <1>3, <1>28 DEF HandleLastRect, DoConnection
  <1>29. ASSUME HandleRectangle PROVE BufferBounded'
    BY <1>2, <1>3, <1>29 DEF HandleRectangle, DoConnection
  <1>30. ASSUME HandlePixels PROVE BufferBounded'
    BY <1>2, <1>3, <1>30 DEF HandlePixels, DoConnection
  <1>31. ASSUME HandleArdModulus PROVE BufferBounded'
    <2>1. want.h \notin Unchecked
      BY <1>31 DEF HandleArdModulus, Take, Unchecked
    <2> QED
      BY <1>2, <1>3, <1>4, <1>31, <2>1 DEF HandleArdModulus
  <1>32. ASSUME HandleNumberSecurityTypes PROVE BufferBounded'
    <2>1. ~(Block > Limit)
      BY <1>32, <1>1, NarrowBlock, LimitFacts DEF HandleNumberSecurityTypes
    <2> QED
      BY <1>2, <1>3, <1>32, <2>1 DEF HandleNumberSecurityTypes
  <1>33. ASSUME HandleArdParams PROVE BufferBounded'
    <2>1. ~(Block > Limit)
      BY <1>33, <1>1, NarrowBlock, LimitFacts DEF HandleArdParams
    <2> QED
      BY <1>2, <1>3, <1>33, <2>1 DEF HandleArdParams
  <1>34. ASSUME HandleSubtypeCount PROVE BufferBounded'
    <2>1. ~(4 * Block > Limit)
      BY <1>34, <1>1, NarrowBlock, LimitFacts DEF HandleSubtypeCount
    <2> QED
      BY <1>2, <1>3, <1>34, <2>1 DEF HandleSubtypeCount
  <1>35. ASSUME HandleFenceHead PROVE BufferBounded'
    <2>1. ~(Block.len > Limit)
      BY <1>35, <1>1, NarrowBlock, LimitFacts DEF HandleFenceHead
    <2> QED
      BY <1>2, <1>3, <1>35, <2>1 DEF HandleFenceHead, Answered
  <1>36. ASSUME NEW request \in BOOLEAN, HandleFence(request) PROVE BufferBounded'
    BY <1>2, <1>3, <1>36 DEF HandleFence, Answered
  <1> QED
    BY <1>5, <1>6, <1>7, <1>8, <1>9, <1>10, <1>11, <1>12, <1>13, <1>14, <1>15, <1>16, <1>17, <1>18, <1>19, <1>20, <1>21, <1>22, <1>23, <1>24, <1>25, <1>26, <1>27, <1>28, <1>29, <1>30, <1>31, <1>32, <1>33, <1>34, <1>35,
       <1>36 DEF Handle

LEMMA NextBounded ==
  ASSUME IInv, BufferBounded, [Next]_vars
  PROVE  BufferBounded'
  <1>1. CASE Handle
    BY <1>1, HandleBounded
  <1>2. CASE Receive
    BY <1>2 DEF Receive, DataReceived, BufferBounded
  <1>3. CASE Lose \/ TlsFails \/ Drop
    BY <1>3 DEF Lose, TlsFails, Drop, ConnectionLost, BufferBounded
  <1>4. CASE SrvShake \/ SrvSession
    <2>1. Typed
      BY DEF IInv
    <2>2. UNCHANGED client
      BY <1>4, <2>1, ServerStep DEF Frame
    <2> QED
      BY <2>2 DEF client, BufferBounded
  <1>5. CASE UNCHANGED vars
    BY <1>5 DEF vars, client, BufferBounded
  <1> QED
    BY <1>1, <1>2, <1>3, <1>4, <1>5 DEF Next

\* No handler ever waits for more bytes than MAX_MESSAGE_PAYLOAD, but the two that
\* nothing checks: the name of the server, whose length has four bytes, and the
\* payload of a rectangle.  The others ask requirePayload before they wait, or
\* wait for a fixed length, or for one of one or two bytes.
THEOREM BufferAlwaysBounded == Spec => []BufferBounded
  <1>1. Init => BufferBounded
    <2>1. ~(12 > Limit)
      BY LimitFacts, LenFacts
    <2> QED
      BY <2>1 DEF Init, BufferBounded
  <1>2. IInv /\ BufferBounded /\ [Next]_vars => BufferBounded'
    BY NextBounded
  <1> QED
    BY <1>1, <1>2, ParserInvariant, PTL DEF Spec

\* expect() has parked the handler and the length of the field that comes next,
\* however the stream was cut and whatever was negotiated, and the server hears
\* from the client what it waits for (_handleExpected, _pump, _startSecurity).
THEOREM AlwaysInStep == Spec => []InStep
  <1>1. ASSUME IInv PROVE InStep
    <2>1. Typed /\ TypeOK /\ wire \in Seq(Fields)
      BY <1>1 DEF IInv, Typed
    <2>2. Heard
      BY <1>1, <2>1, AliveHeard
         DEF IInv, Phase, Early, Aborted, Refused, Finished, Lost, Heard, InSession, Srv
    <2>3. ASSUME wire # <<>>, conn = "open", ~aborted, faulty # "early"
          PROVE  want = [h |-> Head(wire).h, len |-> Head(wire).len]
      <3>1. Alive
        BY <1>1, <2>3 DEF IInv, Phase, Early, Aborted, Refused, Finished, Lost
      <3>2. PICK q, e : Here(q) /\ Parses(q, wire, e)
        BY <3>1 DEF Alive
      <3>3. PICK r : Reads(q, Head(wire), r)
        BY <2>1, <2>3, <3>2, ParsesHead
      <3>4. q.h \notin Dooms
        BY <2>1, <3>2, WaitsNoDoom
      <3>5. q.h = Head(wire).h /\ q.len = Head(wire).len
        BY <3>3, <3>4 DEF Reads, Dooms
      <3>6. want = [h |-> want.h, len |-> want.len]
        BY <2>1 DEF TypeOK
      <3> QED
        BY <3>2, <3>5, <3>6 DEF Here
    <2> QED
      BY <2>2, <2>3 DEF InStep, Heard
  <1> QED
    BY <1>1, ParserInvariant, PTL

\* A connection that is lost has told the factory why, or failed its deferred for
\* want of a password, unless the network dropped it or the server sent what ends
\* it silently (Untold: a version below 3.3, an oversized reason, Diffie-Hellman
\* parameters that are refused, an unknown SecurityResult); and no connection
\* tells the factory twice (abortConnection, connectionLost, security_result).
THEOREM AlwaysReported == Spec => []Reported
  <1>1. IInv => Reported
    BY DEF IInv, Phase, Alive, Early, Aborted, Refused, Finished, Lost, Reported
  <1> QED
    BY <1>1, ParserInvariant, PTL

\* When the parser has caught up, every update the server completed has been
\* committed with all its rectangles, and every fence answered (_doConnection,
\* _finishRectangle, ServerFenceHandler).
THEOREM AlwaysServed == Spec => []Served
  <1>1. ASSUME IInv PROVE Served
    <2> SUFFICES ASSUME wire = <<>>, want.h = "message", faulty = "none"
                 PROVE  /\ commits = sent.updates /\ begun = commits
                        /\ painted = sent.rects /\ fences = sent.fences
      BY DEF Served
    <2>1. Typed /\ TypeOK
      BY <1>1 DEF IInv, Typed
    <2>2. Alive
      BY <1>1 DEF IInv, Phase, Early, Aborted, Refused, Finished, Lost
    <2>3. PICK q, e : Here(q) /\ Parses(q, wire, e) /\ Meets(e)
      BY <2>2 DEF Alive
    <2>4. q = e /\ q.h \notin Dooms
      BY <2>1, <2>3, ParsesNothing, WaitsNoDoom
    <2>5. Agrees(q)
      BY <2>3, <2>4 DEF Meets, GivenUp, Doomed, Dooms
    <2>6. Counts(commits, painted, fences) = Counts(sent.updates, sent.rects, sent.fences)
      BY <2>3, <2>5 DEF Agrees, Here
    <2>7. commits = sent.updates /\ painted = sent.rects /\ fences = sent.fences
      BY <2>6 DEF Counts
    <2>8. begun = commits
      BY <1>1, <2>1 DEF IInv, Begun, TypeOK
    <2> QED
      BY <2>7, <2>8
  <1> QED
    BY <1>1, ParserInvariant, PTL

==============================================================================
