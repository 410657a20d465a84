------------------------------ MODULE RFBClient ------------------------------
(***************************************************************************)
(* The receiving half of rfb.RFBClient: the handshake, the security types  *)
(* and the server-to-client messages, read off a byte stream that TCP cuts *)
(* anywhere, and how the factory's deferred learns what came of it.        *)
(*                                                                         *)
(* The stream is a sequence of fields, each tagged with what the server    *)
(* means by it, its length and the value read from it.  `got` fields have  *)
(* arrived whole in self._packet, and `partial` says that some bytes of    *)
(* the next one have.  `want` is the handler parked by expect() and the    *)
(* bytes it waits for; a generator (a security type, a message, a decoder) *)
(* parks itself through _pump, so each of its yields is a handler here.    *)
(*                                                                         *)
(* The server is external: it follows RFC 6143, waiting for the client     *)
(* where the protocol makes it wait, except for the Faults it is allowed.  *)
(***************************************************************************)
EXTENDS Integers, Sequences, FiniteSets

CONSTANTS
    Versions,     \* versions the server may announce: 3008 is 3.8
    Offers,       \* sets of security types it may offer; {} refuses the client
    Subtypes,     \* sets of VeNCrypt subtypes it may offer
    Policies,     \* what the factory was given: see PolicyAssumption
    Results,      \* SecurityResult words it may send
    Reasons,      \* lengths of the reason that follows a failed result
    Lengths,      \* lengths of the names, texts, pixels and other reasons it sends
    Messages,     \* kinds of message it may send once connected
    Encodings,    \* kinds of rectangle
    Faults,       \* ways in which it may break the protocol
    Limit,        \* MAX_MESSAGE_PAYLOAD
    MaxRects,     \* bound: rectangles announced in one update
    MaxMessages,  \* bound: messages of a session after the common handshake
    MaxOthers,    \* bound: messages of any other session
    MaxFields     \* bound: fields in flight before another message is sent

\* AuthTypes
NONE == 1
VNC_AUTHENTICATION == 2
VENCRYPT == 19
DIFFIE_HELLMAN == 30
SUPPORTED_AUTHS == {NONE, VNC_AUTHENTICATION, VENCRYPT, DIFFIE_HELLMAN}

SUPPORTED_SERVER_VERSIONS == {3003, 3007, 3008, 3889, 4000, 4001, 5000}
MAX_CLIENT_VERSION == 3008

\* The largest numbers of one and of two bytes.
MaxU8  == 255
MaxU16 == 65535

AllFaults == {"header", "version", "message", "encoding", "payload", "text", "refusal",
              "result", "reason", "dh", "early", "extra", "tls", "drop"}

ASSUME VersionAssumption == Versions \subseteq Nat \ {0}
ASSUME OfferAssumption   == \A o \in Offers : o \subseteq 1..255
ASSUME SubtypeAssumption == \A o \in Subtypes : IsFiniteSet(o) /\ Cardinality(o) <= MaxU8
ASSUME ResultAssumption  == Results \subseteq {"ok", "failed", "unknown"}
ASSUME LengthAssumption  == Lengths \subseteq Nat /\ Reasons \subseteq Nat
\* No length of two bytes is above the limit, which is 1 << 20; a reason that is
\* above it is the fault "reason".
ASSUME LimitAssumption   == /\ Limit \in Nat /\ Limit >= MaxU16
                            /\ \A len \in Reasons : len <= Limit
\* Options and credentials, and whether the pixel layout asked for can be decoded.
ASSUME PolicyAssumption  == Policies \subseteq [unverified : BOOLEAN, hostname : BOOLEAN,
                                                username : BOOLEAN, password : BOOLEAN,
                                                readable : BOOLEAN]
ASSUME FaultAssumption   == Faults \subseteq AllFaults
ASSUME ClientBounds      == MaxRects \in Nat /\ MaxMessages \in Nat /\ MaxOthers \in Nat
                           /\ MaxFields \in Nat

VARIABLES
    \* the client
    want,         \* _expected_handler and _expected_len
    running,      \* inside the loop of _handleExpected
    aborted,      \* self._aborted
    version,      \* self._version
    subtype,      \* self._vencrypt_subtype
    tls,          \* self._tls_handshake_pending
    rectangles,   \* self.rectangles
    policy,       \* what the factory was given
    report,       \* factory.deferred: "none" yet, "made" or "failed"
    told,         \* calls of vncProtocolError and vncAuthFailed
    begun, commits, painted, fences, \* beginUpdate and commitUpdate calls, rectangles, replies
    spin,         \* flips each time a finished generator is entered again
    \* the connection
    wire, got, partial,
    c2s, conn,    \* "open", "closing" after loseConnection, or "lost"
    \* the server
    srv,          \* where it is, and the message it waits to hear first
    agreed, sec, left, sent, faulty

client == <<want, running, aborted, version, subtype, tls, rectangles, policy,
            report, told, begun, commits, painted, fences, spin>>
net    == <<wire, got, partial, conn>>
server == <<srv, agreed, sec, left, sent, faulty>>
vars   == <<client, net, c2s, server>>

Field(h, len, val) == [h |-> h, len |-> len, val |-> val]

-----------------------------------------------------------------------------
(* The pump *)

\* One turn of the loop in _handleExpected: the parked handler is given its
\* block, which is the field at the head of the stream as long as the two ends
\* agree.  It goes on while there are bytes for the next handler.
Block == Head(wire).val

Take(h) == running /\ want.h = h /\ wire # <<>> /\ UNCHANGED <<policy, server>>

Consume == /\ wire' = Tail(wire)
           /\ got' = IF got > 0 THEN got - 1 ELSE 0
           /\ UNCHANGED partial

Looping == running' = (~aborted' /\ conn' # "lost" /\ (got' > 0 \/ want'.len = 0))

Expect(h, len) == want' = [h |-> h, len |-> len]

Write(m, val) == c2s' = Append(c2s, [m |-> m, val |-> val])

\* Mutant: the transport is not told to close.
Errback_KeepsOpen == report' = (IF report = "none" THEN "failed" ELSE report) /\ conn' = conn

\* clientConnectionFailed: errback on factory.deferred, which raises when the
\* deferred has fired; the exception leaves dataReceived, and the reactor drops
\* the connection.
Errback ==
    \/ report = "none" /\ report' = "failed" /\ conn' = "closing"
    \/ report # "none" /\ report' = report /\ conn' = "lost"

\* vncProtocolError and vncAuthFailed; told counts their calls, up to 2.
Tell == told' = IF told < 2 THEN told + 1 ELSE told

\* abortConnection drops what has arrived and stops the parser.
Abort ==
    /\ aborted' = TRUE
    /\ wire' = SubSeq(wire, got + 1, Len(wire)) /\ got' = 0 /\ partial' = FALSE
    /\ Tell /\ Errback
    /\ UNCHANGED want

Going  == Consume /\ UNCHANGED <<aborted, told, report, conn>>

\* A handler's other exceptions leave dataReceived as well, and tell nobody.
Escape == Consume /\ conn' = "lost" /\ UNCHANGED <<want, aborted, told, report>>

Same  == UNCHANGED <<begun, commits, painted, fences, spin>>
Setup == UNCHANGED <<version, subtype, tls, rectangles>> /\ Same

\* Mutant: off by one at the limit.
requirePayload_OffByOne(len) == len <= Limit + 1

requirePayload(len) == len <= Limit

-----------------------------------------------------------------------------
(* The handshake *)

BadHeader == 0    \* stands for twelve bytes that are no RFB header

\* _handleInitial: the highest version known that is not above the server's,
\* and never above the client's own.
Known(v) == {k \in SUPPORTED_SERVER_VERSIONS : k <= v}

\* Mutants: the client's highest version, whatever the server's; the server's
\* version, whatever the client's highest.
Agree_Highest(v)  == MAX_CLIENT_VERSION
Agree_Uncapped(v) == CHOOSE k \in Known(v) : \A other \in Known(v) : other <= k

Agree(v) == LET best == CHOOSE k \in Known(v) : \A other \in Known(v) : other <= k
            IN  IF best > MAX_CLIENT_VERSION THEN MAX_CLIENT_VERSION ELSE best

HandleInitial ==
    /\ Take("initial") /\ Block # BadHeader
    /\ IF Known(Block) = {}
       THEN Escape /\ UNCHANGED <<version, c2s>>
       ELSE /\ version' = Agree(Block)
            /\ Write("version", version')
            /\ IF version' < 3007 THEN Expect("auth", 4) ELSE Expect("ntypes", 1)
            /\ Going
    /\ Looping /\ UNCHANGED <<subtype, tls, rectangles>> /\ Same

\* A header is refused on the first byte that does not belong in one.
HandleBadHeader ==
    /\ Take("initial") /\ Block = BadHeader
    /\ Abort /\ Looping /\ UNCHANGED c2s /\ Setup

HandleNumberSecurityTypes ==
    /\ Take("ntypes")
    /\ IF Block > 0 THEN Expect("types", Block) ELSE Expect("connfailed", 4)
    /\ Going /\ Looping /\ UNCHANGED c2s /\ Setup

\* Mutant: None waits for a SecurityResult whatever the version.
StartSecurity_AlwaysResult(type, choice) ==
    \/ type = NONE /\ c2s' = choice /\ Expect("result", 4)
    \/ type = VNC_AUTHENTICATION /\ c2s' = choice /\ Expect("challenge", 16)
    \/ type = VENCRYPT /\ c2s' = choice /\ Expect("vversion", 2)
    \/ type = DIFFIE_HELLMAN /\ c2s' = choice /\ Expect("ardparams", 4)

\* _startSecurity: where the generator of each type stops first.  None is over
\* at once before 3.8, and passes to initialisation.
StartSecurity(type, choice) ==
    \/ /\ type = NONE /\ version < 3008
       /\ c2s' = choice \o <<[m |-> "init", val |-> 0]>>
       /\ Expect("serverinit", 24)
    \/ /\ type = NONE /\ version >= 3008
       /\ c2s' = choice /\ Expect("result", 4)
    \/ type = VNC_AUTHENTICATION /\ c2s' = choice /\ Expect("challenge", 16)
    \/ type = VENCRYPT /\ c2s' = choice /\ Expect("vversion", 2)
    \/ type = DIFFIE_HELLMAN /\ c2s' = choice /\ Expect("ardparams", 4)

HandleSecurityTypes ==
    /\ Take("types")
    /\ LET valid == Block \cap SUPPORTED_AUTHS
           best  == CHOOSE t \in valid : \A other \in valid : other <= t
       IN  \/ /\ valid # {}
              /\ StartSecurity(best, Append(c2s, [m |-> "choice", val |-> best]))
              /\ Going
           \/ valid = {} /\ Abort /\ UNCHANGED c2s
    /\ Looping /\ Setup

\* Before 3.7 the server dictates the type.
HandleAuth ==
    /\ Take("auth")
    /\ \/ Block = 0 /\ Expect("connfailed", 4) /\ Going /\ UNCHANGED c2s
       \/ Block \in SUPPORTED_AUTHS /\ StartSecurity(Block, c2s) /\ Going
       \/ Block \notin SUPPORTED_AUTHS \cup {0} /\ Abort /\ UNCHANGED c2s
    /\ Looping /\ Setup

HandleConnFailed ==
    /\ Take("connfailed")
    /\ \/ requirePayload(Block) /\ Expect("connmsg", Block) /\ Going
       \/ ~requirePayload(Block) /\ Abort
    /\ Looping /\ UNCHANGED c2s /\ Setup

HandleConnMessage ==
    /\ Take("connmsg")
    /\ Abort /\ Looping /\ UNCHANGED c2s /\ Setup

\* vncRequestPassword, then the SecurityResult.  Without a password the
\* connection is given up, but the generator stays parked.
HandleChallenge ==
    /\ Take("challenge")
    /\ Expect("result", 4)
    /\ \/ policy.password /\ Write("response", 0) /\ Going
       \/ ~policy.password /\ Consume /\ Errback /\ UNCHANGED <<aborted, told, c2s>>
    /\ Looping /\ Setup

\* DiffieHellmanHandler
HandleArdParams ==
    /\ Take("ardparams")
    /\ Expect("ardmodulus", Block)
    /\ Going /\ Looping /\ UNCHANGED c2s /\ Setup

HandleArdModulus ==
    /\ Take("ardmodulus")
    /\ Expect("ardkey", want.len)
    /\ Going /\ Looping /\ UNCHANGED c2s /\ Setup

\* Parameters the cryptography library refuses raise out of the generator as
\* something other than a SecurityError.
HandleArdKey ==
    /\ Take("ardkey")
    /\ \/ Block = "ok" /\ Write("ardreply", 0) /\ Expect("result", 4) /\ Going
       \/ Block = "weak" /\ Escape /\ UNCHANGED c2s
    /\ Looping /\ Setup

\* VeNCryptHandler.  vencrypt.choose: the first of PREFERENCE that is offered
\* and usable under the factory's policy and credentials.
PREFERENCE == <<"X509Vnc", "X509Plain", "X509None", "TLSVnc", "TLSPlain", "TLSNone">>
ANONYMOUS_SUBTYPES  == {"TLSVnc", "TLSPlain", "TLSNone"}
VNC_AUTH_SUBTYPES   == {"TLSVnc", "X509Vnc"}
PLAIN_AUTH_SUBTYPES == {"TLSPlain", "X509Plain"}

Usable(s, given) ==
    /\ s \in ANONYMOUS_SUBTYPES => given.unverified
    /\ given.unverified \/ given.hostname
    /\ s \in VNC_AUTH_SUBTYPES => given.password
    /\ s \in PLAIN_AUTH_SUBTYPES => given.username /\ given.password

Candidates(offered, given) ==
    {i \in DOMAIN PREFERENCE : PREFERENCE[i] \in offered /\ Usable(PREFERENCE[i], given)}
Choose(offered, given) ==
    PREFERENCE[CHOOSE i \in Candidates(offered, given) : \A j \in Candidates(offered, given) : i <= j]

HandleVersionOffer ==
    /\ Take("vversion")
    /\ \/ Block >= 2 /\ Write("vversion", 2) /\ Expect("vack", 1) /\ Going
       \/ Block < 2 /\ Abort /\ UNCHANGED c2s
    /\ Looping /\ Setup

HandleVersionAck ==
    /\ Take("vack")
    /\ \/ Block = 0 /\ Expect("vcount", 1) /\ Going
       \/ Block # 0 /\ Abort
    /\ Looping /\ UNCHANGED c2s /\ Setup

HandleSubtypeCount ==
    /\ Take("vcount")
    /\ \/ Block > 0 /\ Expect("vsubtypes", 4 * Block) /\ Going
       \/ Block = 0 /\ Abort
    /\ Looping /\ UNCHANGED c2s /\ Setup

HandleSubtypes ==
    /\ Take("vsubtypes")
    /\ \/ /\ Candidates(Block, policy) # {}
          /\ subtype' = Choose(Block, policy)
          /\ Write("vsubtype", subtype') /\ Expect("vchosen", 1) /\ Going
       \/ Candidates(Block, policy) = {} /\ Abort /\ UNCHANGED <<c2s, subtype>>
    /\ Looping /\ UNCHANGED <<version, tls, rectangles>> /\ Same

\* The last byte before TLS takes the socket over: nothing may have come with it.
HandleSubtypeAck ==
    /\ Take("vchosen")
    /\ \/ /\ Block = 1 /\ got <= 1 /\ ~partial
          /\ tls' = TRUE
          /\ IF subtype \in VNC_AUTH_SUBTYPES THEN Expect("challenge", 16) ELSE Expect("result", 4)
          /\ c2s' = Append(c2s, [m |-> "tls", val |-> 0]) \o
                    (IF subtype \in PLAIN_AUTH_SUBTYPES THEN <<[m |-> "plain", val |-> 0]>> ELSE <<>>)
          /\ Going
       \/ (Block # 1 \/ got > 1 \/ partial) /\ Abort /\ UNCHANGED <<c2s, tls>>
    /\ Looping /\ UNCHANGED <<version, subtype, rectangles>> /\ Same

\* security_result.  "failed" and "toomany" differ in their wording only.
HandleResult ==
    /\ Take("result")
    /\ \/ /\ Block = "ok"
          /\ Write("init", 0) /\ Expect("serverinit", 24) /\ Going
       \/ /\ Block = "failed" /\ version >= 3008
          /\ Expect("reasonlen", 4) /\ Going /\ UNCHANGED c2s
       \/ /\ Block = "failed" /\ version < 3008
          /\ Expect("finished", want.len)
          /\ Consume /\ Tell /\ Errback /\ UNCHANGED <<aborted, c2s>>
       \/ /\ Block = "unknown"
          /\ Expect("finished", want.len)
          /\ Consume /\ conn' = "closing" /\ UNCHANGED <<aborted, told, report, c2s>>
    /\ Looping /\ Setup

\* An oversized reason raises DecodeError, which is no SecurityError.
HandleReasonLength ==
    /\ Take("reasonlen")
    /\ \/ requirePayload(Block) /\ Expect("reason", Block) /\ Going
       \/ ~requirePayload(Block) /\ Escape
    /\ Looping /\ UNCHANGED c2s /\ Setup

HandleReason ==
    /\ Take("reason")
    /\ Expect("finished", want.len)
    /\ Consume /\ Tell /\ Errback /\ UNCHANGED aborted
    /\ Looping /\ UNCHANGED c2s /\ Setup

\* Nothing re-armed the loop after a failed authentication: _pump enters the
\* finished generator again whenever there are as many bytes as it last asked for.
HandleFinished ==
    /\ running /\ want.h = "finished"
    /\ spin' = ~spin
    /\ IF want.len = 0 THEN UNCHANGED <<wire, got, partial>> ELSE Consume
    /\ UNCHANGED <<want, aborted, told, report, conn, policy, c2s, server,
                   version, subtype, tls, rectangles, begun, commits, painted, fences>>
    /\ Looping

HandleServerInit ==
    /\ Take("serverinit")
    /\ Expect("servername", Block)
    /\ Going /\ Looping /\ UNCHANGED c2s /\ Setup

\* vncConnectionMade: SetEncodings, and the factory's deferred.  setImageMode
\* refuses a layout it cannot decode, and vncConnectionMade goes on: the deferred
\* has fired by then, and what that raises leaves dataReceived before anything
\* is sent.
HandleServerName ==
    /\ Take("servername")
    /\ Consume
    /\ \/ /\ policy.readable /\ report = "none"
          /\ report' = "made" /\ Write("setup", 0) /\ Expect("message", 1)
          /\ UNCHANGED <<told, conn>>
       \/ /\ ~policy.readable \/ report # "none"
          /\ report' = (IF report = "none" THEN "failed" ELSE report) /\ conn' = "lost"
          /\ IF policy.readable THEN told' = told ELSE Tell
          /\ UNCHANGED <<want, c2s>>
    /\ UNCHANGED aborted /\ Looping /\ Setup

-----------------------------------------------------------------------------
(* Messages *)

HandleConnection ==
    /\ Take("message")
    /\ \/ Block = "update" /\ Expect("update", 3) /\ Going
       \/ Block = "bell" /\ Expect("message", 1) /\ Going
       \/ Block = "text" /\ Expect("texthead", 7) /\ Going
       \/ Block = "colourmap" /\ Expect("maphead", 5) /\ Going
       \/ Block = "fence" /\ Expect("fencehead", 8) /\ Going
       \/ Block = "unknown" /\ Abort
    /\ Looping /\ UNCHANGED c2s /\ Setup

HandleTextHead ==
    /\ Take("texthead")
    /\ \/ requirePayload(Block) /\ Expect("text", Block) /\ Going
       \/ ~requirePayload(Block) /\ Abort
    /\ Looping /\ UNCHANGED c2s /\ Setup

HandleColourMapHead ==
    /\ Take("maphead")
    /\ \/ requirePayload(6 * Block) /\ Expect("map", 6 * Block) /\ Going
       \/ ~requirePayload(6 * Block) /\ Abort
    /\ Looping /\ UNCHANGED c2s /\ Setup

\* The payload of ServerCutText and of SetColourMapEntries ends the message.
HandlePayload ==
    /\ Take("text") \/ Take("map")
    /\ Expect("message", 1)
    /\ Going /\ Looping /\ UNCHANGED c2s /\ Setup

\* A fence that asks for one is answered with its payload.
Answered(request) ==
    /\ Expect("message", 1)
    /\ \/ request /\ Write("fence", 0) /\ fences' = fences + 1
       \/ ~request /\ UNCHANGED <<c2s, fences>>

HandleFenceHead ==
    /\ Take("fencehead")
    /\ \/ /\ Block.len > 0
          /\ Expect(IF Block.request THEN "fencerequest" ELSE "fence", Block.len)
          /\ UNCHANGED <<c2s, fences>>
       \/ Block.len = 0 /\ Answered(Block.request)
    /\ Going /\ Looping
    /\ UNCHANGED <<version, subtype, tls, rectangles, begun, commits, painted, spin>>

HandleFence(request) ==
    /\ Take(IF request THEN "fencerequest" ELSE "fence")
    /\ Answered(request)
    /\ Going /\ Looping
    /\ UNCHANGED <<version, subtype, tls, rectangles, begun, commits, painted, spin>>

\* Mutant: an update of no rectangles is not committed.
DoConnection_SkipsEmpty(n) ==
    /\ rectangles' = n
    /\ \/ n > 0 /\ Expect("rect", 12) /\ commits' = commits
       \/ n = 0 /\ Expect("message", 1) /\ commits' = commits + (IF want.h = "update" THEN 0 ELSE 1)

\* _doConnection: another rectangle, or the end of the update.
DoConnection(n) ==
    /\ rectangles' = n
    /\ \/ n > 0 /\ Expect("rect", 12) /\ commits' = commits
       \/ n = 0 /\ Expect("message", 1) /\ commits' = commits + 1

HandleFramebufferUpdate ==
    /\ Take("update")
    /\ begun' = begun + 1
    /\ DoConnection(Block)
    /\ Going /\ Looping
    /\ UNCHANGED <<c2s, version, subtype, tls, painted, fences, spin>>

HandleLastRect ==
    /\ Take("rect") /\ Block.enc = "last"
    /\ DoConnection(0)
    /\ Going /\ Looping
    /\ UNCHANGED <<c2s, version, subtype, tls, begun, painted, fences, spin>>

\* A control rectangle (DesktopSize, PointerPos) is over with its header; the
\* others park their decoder for the payload.
HandleRectangle ==
    /\ Take("rect") /\ Block.enc # "last"
    /\ \/ Block.enc = "control" /\ DoConnection(rectangles - 1) /\ Going
       \/ /\ Block.enc = "pixels"
          /\ rectangles' = rectangles - 1 /\ commits' = commits
          /\ Expect("pixels", Block.len) /\ Going
       \/ /\ Block.enc = "unknown"
          /\ rectangles' = rectangles - 1 /\ commits' = commits /\ Abort
    /\ Looping
    /\ UNCHANGED <<c2s, version, subtype, tls, begun, painted, fences, spin>>

\* _finishRectangle, or the DecodeError of a decoder.
HandlePixels ==
    /\ Take("pixels")
    /\ \/ Block = "ok" /\ painted' = painted + 1 /\ DoConnection(rectangles) /\ Going
       \/ Block = "broken" /\ UNCHANGED <<painted, rectangles, commits>> /\ Abort
    /\ Looping
    /\ UNCHANGED <<c2s, version, subtype, tls, begun, fences, spin>>

-----------------------------------------------------------------------------
(* The reactor *)

\* Mutant: what arrives after an abort is parsed.
DataReceived_AfterAbort(n, part) ==
    /\ conn # "lost" /\ ~running
    /\ got + n <= Len(wire)
    /\ part => got + n < Len(wire) /\ wire[got + n + 1].len > 1
    /\ n > 0 \/ (part /\ ~partial)
    /\ ~(tls /\ faulty = "early")
    /\ got' = got + n /\ partial' = part
    /\ tls' = FALSE
    /\ running' = (got' > 0 \/ want.len = 0 \/ (want.h = "initial" /\ Block = BadHeader))
    /\ UNCHANGED <<want, aborted, version, subtype, rectangles, policy, report, told,
                   begun, commits, painted, fences, spin, wire, conn, c2s, server>>

\* dataReceived: n more fields arrive whole, and perhaps a part of the next.
\* TLS hands over only what it has decrypted.
DataReceived(n, part) ==
    /\ conn # "lost" /\ ~running /\ ~aborted
    /\ got + n <= Len(wire)
    /\ part => got + n < Len(wire) /\ wire[got + n + 1].len > 1
    /\ n > 0 \/ (part /\ ~partial)
    /\ ~(tls /\ faulty = "early")
    /\ got' = got + n /\ partial' = part
    /\ tls' = FALSE
    /\ running' = (got' > 0 \/ want.len = 0 \/ (want.h = "initial" /\ Block = BadHeader))
    /\ UNCHANGED <<want, aborted, version, subtype, rectangles, policy, report, told,
                   begun, commits, painted, fences, spin, wire, conn, c2s, server>>

\* connectionLost: only a TLS handshake that never finished is reported.
ConnectionLost ==
    /\ conn' = "lost"
    /\ \/ tls /\ ~aborted /\ Tell /\ report' = (IF report = "none" THEN "failed" ELSE report)
       \/ (~tls \/ aborted) /\ UNCHANGED <<told, report>>
    /\ tls' = (tls /\ aborted)
    /\ UNCHANGED <<want, running, aborted, version, subtype, rectangles, policy,
                   begun, commits, painted, fences, spin, wire, got, partial, c2s>>

\* The client has called loseConnection, or the server has closed and
\* everything it sent has been read.
Lose ==
    /\ ~running
    /\ \/ conn = "closing"
       \/ conn = "open" /\ srv.at = "closed" /\ (got = Len(wire) \/ aborted)
    /\ ConnectionLost
    /\ UNCHANGED server

Breaks(fault) == faulty = "none" /\ fault \in Faults /\ faulty' = fault

TlsFails ==
    /\ ~running /\ conn = "open" /\ tls
    /\ Breaks("tls") \/ (faulty = "early" /\ faulty' = faulty)
    /\ ConnectionLost
    /\ UNCHANGED <<srv, agreed, sec, left, sent>>

Drop ==
    /\ ~running /\ conn # "lost"
    /\ Breaks("drop")
    /\ ConnectionLost
    /\ UNCHANGED <<srv, agreed, sec, left, sent>>

-----------------------------------------------------------------------------
(* The server, external: RFC 6143 and the VeNCrypt extension *)

SrvOnly == UNCHANGED <<client, got, partial, conn>>

\* At one point of the protocol it sends some fields, then waits to hear m
\* ("-" is nothing) before it goes on to the next.
Speaks(at) == srv.at = at /\ srv.hears = "-" /\ conn # "lost"
Say(fields, m, next) == wire' = wire \o fields /\ srv' = [at |-> next, hears |-> m]

SrvHear ==
    /\ srv.hears # "-" /\ c2s # <<>> /\ Head(c2s).m = srv.hears
    /\ c2s' = Tail(c2s)
    /\ agreed' = IF srv.hears = "version" /\ Head(c2s).val < agreed THEN Head(c2s).val ELSE agreed
    /\ sec' = IF srv.hears = "choice" THEN Head(c2s).val ELSE sec
    /\ srv' = [srv EXCEPT !.hears = "-"]
    /\ UNCHANGED <<wire, left, sent, faulty>> /\ SrvOnly

SrvVersion(v) ==
    /\ Speaks("version")
    /\ \/ /\ IF Known(v) # {} THEN faulty' = faulty ELSE Breaks("version")
          /\ Say(<<Field("initial", 12, v)>>, "version", "offer")
       \/ Breaks("header") /\ Say(<<Field("initial", 12, BadHeader)>>, "version", "offer")
    /\ agreed' = v
    /\ UNCHANGED <<c2s, sec, left, sent>> /\ SrvOnly

\* Over the limit only where the fault is one that the server may have.
OneOf(lengths, len, over, fault) == \/ len \in lengths /\ faulty' = faulty
                                    \/ Breaks(fault) /\ len = over
Length(len, fault) == OneOf(Lengths, len, Limit + 1, fault)

\* What follows the choice of a type.
SecurityPoint(type) ==
    CASE type = NONE -> IF agreed >= 3008 THEN "result" ELSE "init"
      [] type = VNC_AUTHENTICATION -> "challenge"
      [] type = VENCRYPT -> "vversion"
      [] type = DIFFIE_HELLMAN -> "ard"
      [] OTHER -> "closed"

SrvOffer(offer, len) ==
    /\ Speaks("offer") /\ agreed >= 3007
    /\ \/ /\ offer # {} /\ faulty' = faulty
          /\ Say(<<Field("ntypes", 1, Cardinality(offer)), Field("types", Cardinality(offer), offer)>>,
                 "choice", "chosen")
       \/ /\ offer = {} /\ Length(len, "refusal")
          /\ Say(<<Field("ntypes", 1, 0), Field("connfailed", 4, len), Field("connmsg", len, 0)>>, "-", "closed")
    /\ UNCHANGED <<c2s, agreed, sec, left, sent>> /\ SrvOnly

SrvChosen ==
    /\ Speaks("chosen")
    /\ srv' = [at |-> SecurityPoint(sec), hears |-> IF SecurityPoint(sec) = "init" THEN "init" ELSE "-"]
    /\ UNCHANGED <<c2s, wire, agreed, sec, left, sent, faulty>> /\ SrvOnly

SrvAuth(type, len) ==
    /\ Speaks("offer") /\ agreed < 3007
    /\ \/ /\ type # 0 /\ faulty' = faulty /\ sec' = type
          /\ Say(<<Field("auth", 4, type)>>, "-", "chosen")
       \/ /\ type = 0 /\ Length(len, "refusal") /\ sec' = sec
          /\ Say(<<Field("auth", 4, 0), Field("connfailed", 4, len), Field("connmsg", len, 0)>>, "-", "closed")
    /\ UNCHANGED <<c2s, agreed, left, sent>> /\ SrvOnly

SrvChallenge ==
    /\ Speaks("challenge")
    /\ Say(<<Field("challenge", 16, 0)>>, "response", "result")
    /\ UNCHANGED <<c2s, agreed, sec, left, sent, faulty>> /\ SrvOnly

SrvArd(len) ==
    /\ Speaks("ard") /\ len <= MaxU16
    /\ \/ /\ faulty' = faulty
          /\ Say(<<Field("ardparams", 4, len), Field("ardmodulus", len, 0), Field("ardkey", len, "ok")>>, "ardreply", "result")
       \/ /\ Breaks("dh")
          /\ Say(<<Field("ardparams", 4, len), Field("ardmodulus", len, 0), Field("ardkey", len, "weak")>>, "ardreply", "result")
    /\ UNCHANGED <<c2s, agreed, sec, left, sent>> /\ SrvOnly

\* VeNCrypt: a version each, an acknowledgement with the subtypes, the choice,
\* an acknowledgement, and TLS.
SrvVeNCryptVersion(v) ==
    /\ Speaks("vversion")
    /\ Say(<<Field("vversion", 2, v)>>, "vversion", "vsubtypes")
    /\ UNCHANGED <<c2s, agreed, sec, left, sent, faulty>> /\ SrvOnly

SrvSubtypes(offered, refuses) ==
    /\ Speaks("vsubtypes")
    /\ \/ refuses /\ Say(<<Field("vack", 1, 255)>>, "-", "closed")
       \/ ~refuses /\ Say(<<Field("vack", 1, 0), Field("vcount", 1, Cardinality(offered))>> \o
                          (IF offered = {} THEN <<>>
                           ELSE <<Field("vsubtypes", 4 * Cardinality(offered), offered)>>),
                          "vsubtype", "vchosen")
    /\ UNCHANGED <<c2s, agreed, sec, left, sent, faulty>> /\ SrvOnly

SrvSubtypeAck(refuses) ==
    /\ Speaks("vchosen")
    /\ \/ refuses /\ Say(<<Field("vchosen", 1, 0)>>, "-", "closed") /\ faulty' = faulty
       \/ ~refuses /\ Say(<<Field("vchosen", 1, 1)>>, "tls", "vauth") /\ faulty' = faulty
       \/ Breaks("early") /\ Say(<<Field("vchosen", 1, 1), Field("early", 2, 0)>>, "tls", "closed")
    /\ UNCHANGED <<c2s, agreed, sec, left, sent>> /\ SrvOnly

SrvVeNCryptAuth ==
    /\ Speaks("vauth")
    /\ \/ subtype \in VNC_AUTH_SUBTYPES /\ Say(<<>>, "-", "challenge")
       \/ subtype \in PLAIN_AUTH_SUBTYPES /\ Say(<<>>, "plain", "result")
       \/ subtype \notin VNC_AUTH_SUBTYPES \cup PLAIN_AUTH_SUBTYPES /\ Say(<<>>, "-", "result")
    /\ UNCHANGED <<c2s, agreed, sec, left, sent, faulty>> /\ SrvOnly

SrvResult(result, len) ==
    /\ Speaks("result")
    /\ \/ result = "ok" /\ faulty' = faulty /\ Say(<<Field("result", 4, result)>>, "init", "init")
       \/ /\ \/ result = "unknown" /\ Breaks("result")
             \/ result = "failed" /\ agreed < 3008 /\ faulty' = faulty
          /\ Say(<<Field("result", 4, result)>>, "-", "closed")
       \/ /\ result = "failed" /\ agreed >= 3008 /\ OneOf(Reasons, len, Limit + 1, "reason")
          /\ Say(<<Field("result", 4, result), Field("reasonlen", 4, len), Field("reason", len, 0)>>, "-", "closed")
    /\ UNCHANGED <<c2s, agreed, sec, left, sent>> /\ SrvOnly

\* It goes on sending to a client that it has refused.
SrvChatter ==
    /\ srv.at = "closed" /\ conn # "lost" /\ want.h = "finished" /\ told > 0
    /\ Breaks("extra")
    /\ wire' = wire \o <<Field("finished", want.len, 0)>>
    /\ UNCHANGED <<c2s, srv, agreed, sec, left, sent>> /\ SrvOnly

SrvInit(len) ==
    /\ Speaks("init")
    /\ Say(<<Field("serverinit", 24, len), Field("servername", len, 0)>>, "setup", "session")
    /\ UNCHANGED <<c2s, agreed, sec, left, sent, faulty>> /\ SrvOnly

\* Once connected it sends messages, one whole message or one rectangle of an
\* update at a time, without waiting for the client.
Sends(fields) == wire' = wire \o fields
Room == Len(wire) < MaxFields
Tally(messages, updates, rects, replies) ==
    sent' = [messages |-> sent.messages + messages, updates |-> sent.updates + updates,
             rects |-> sent.rects + rects, fences |-> sent.fences + replies]
Talk == IF agreed = 3008 /\ sec = NONE THEN MaxMessages ELSE MaxOthers

SrvMessage(kind, len, request) ==
    /\ Speaks("session") /\ left = 0 /\ Room
    /\ sent.messages < Talk
    /\ \/ /\ kind = "bell" /\ faulty' = faulty
          /\ Sends(<<Field("message", 1, "bell")>>)
       \/ /\ kind = "text" /\ Length(len, "text")
          /\ Sends(<<Field("message", 1, kind), Field("texthead", 7, len), Field("text", len, 0)>>)
       \/ /\ kind = "colourmap" /\ OneOf(Lengths, len, Limit, "text") /\ len <= MaxU16
          /\ Sends(<<Field("message", 1, kind), Field("maphead", 5, len), Field("map", 6 * len, 0)>>)
       \/ /\ kind = "fence" /\ len \in Lengths /\ len <= MaxU8 /\ faulty' = faulty
          /\ Sends(<<Field("message", 1, kind), Field("fencehead", 8, [len |-> len, request |-> request])>> \o
                   (IF len = 0 THEN <<>>
                    ELSE <<Field(IF request THEN "fencerequest" ELSE "fence", len, 0)>>))
       \/ /\ Breaks("message")
          /\ Sends(<<Field("message", 1, "unknown")>>)
    /\ Tally(1, 0, 0, IF kind = "fence" /\ request /\ faulty' = faulty THEN 1 ELSE 0)
    /\ UNCHANGED <<c2s, srv, agreed, sec, left>> /\ SrvOnly

SrvUpdate(n) ==
    /\ Speaks("session") /\ left = 0 /\ Room
    /\ sent.messages < Talk /\ "update" \in Messages
    /\ Sends(<<Field("message", 1, "update"), Field("update", 3, n)>>)
    /\ left' = n
    /\ Tally(1, IF n = 0 THEN 1 ELSE 0, 0, 0)
    /\ UNCHANGED <<c2s, srv, agreed, sec, faulty>> /\ SrvOnly

SrvRect(enc, len) ==
    /\ Speaks("session") /\ left > 0 /\ Room
    /\ \/ /\ enc \in {"control", "last"} /\ faulty' = faulty
          /\ Sends(<<Field("rect", 12, [enc |-> enc, len |-> 0])>>)
       \/ /\ enc = "pixels"
          /\ \/ faulty' = faulty /\ Sends(<<Field("rect", 12, [enc |-> enc, len |-> len]), Field("pixels", len, "ok")>>)
             \/ Breaks("payload") /\ Sends(<<Field("rect", 12, [enc |-> enc, len |-> len]), Field("pixels", len, "broken")>>)
       \/ /\ Breaks("encoding")
          /\ Sends(<<Field("rect", 12, [enc |-> "unknown", len |-> 0])>>)
    /\ left' = IF enc = "last" THEN 0 ELSE left - 1
    /\ Tally(0, IF left' = 0 THEN 1 ELSE 0, IF enc = "pixels" /\ faulty' = faulty THEN 1 ELSE 0, 0)
    /\ UNCHANGED <<c2s, srv, agreed, sec>> /\ SrvOnly

-----------------------------------------------------------------------------
Init ==
    /\ want = [h |-> "initial", len |-> 12] /\ running = FALSE /\ aborted = FALSE
    /\ version = 0 /\ subtype = "Plain" /\ tls = FALSE /\ rectangles = 0
    /\ policy \in Policies
    /\ report = "none" /\ told = 0
    /\ begun = 0 /\ commits = 0 /\ painted = 0 /\ fences = 0 /\ spin = FALSE
    /\ wire = <<>> /\ got = 0 /\ partial = FALSE /\ c2s = <<>> /\ conn = "open"
    /\ srv = [at |-> "version", hears |-> "-"]
    /\ agreed = 0 /\ sec = 0 /\ left = 0 /\ faulty = "none"
    /\ sent = [messages |-> 0, updates |-> 0, rects |-> 0, fences |-> 0]

Handle ==
    \/ HandleInitial \/ HandleBadHeader \/ HandleNumberSecurityTypes \/ HandleSecurityTypes
    \/ HandleAuth \/ HandleConnFailed \/ HandleConnMessage \/ HandleChallenge
    \/ HandleArdParams \/ HandleArdModulus \/ HandleArdKey
    \/ HandleVersionOffer \/ HandleVersionAck \/ HandleSubtypeCount \/ HandleSubtypes \/ HandleSubtypeAck
    \/ HandleResult \/ HandleReasonLength \/ HandleReason \/ HandleFinished
    \/ HandleServerInit \/ HandleServerName
    \/ HandleConnection \/ HandleTextHead \/ HandleColourMapHead \/ HandlePayload
    \/ HandleFenceHead \/ \E request \in BOOLEAN : HandleFence(request)
    \/ HandleFramebufferUpdate \/ HandleLastRect \/ HandleRectangle \/ HandlePixels

Receive == \E n \in 0..Len(wire), part \in BOOLEAN : DataReceived(n, part)

Lens == Lengths \cup {Limit + 1}

SrvShake ==
    \/ SrvHear \/ SrvChosen \/ SrvChallenge
    \/ \E v \in Versions : SrvVersion(v)
    \/ \E offer \in Offers, len \in Lens : SrvOffer(offer, len)
    \/ \E type \in (UNION Offers) \cup (IF {} \in Offers THEN {0} ELSE {}), len \in Lens : SrvAuth(type, len)
    \/ \E len \in Lengths \ {0} : SrvArd(len)
    \/ \E v \in {1, 2} : SrvVeNCryptVersion(v)
    \/ \E offered \in Subtypes, refuses \in BOOLEAN : SrvSubtypes(offered, refuses)
    \/ \E refuses \in BOOLEAN : SrvSubtypeAck(refuses)
    \/ SrvVeNCryptAuth \/ SrvChatter
    \/ \E result \in Results, len \in Reasons \cup {Limit + 1} : SrvResult(result, len)
    \/ \E len \in Lens : SrvInit(len)

SrvSession ==
    \/ \E kind \in Messages, len \in Lens \cup {Limit}, request \in BOOLEAN : SrvMessage(kind, len, request)
    \/ \E n \in 0..MaxRects : SrvUpdate(n)
    \/ \E enc \in Encodings, len \in Lens : SrvRect(enc, len)

Next == Handle \/ Receive \/ Lose \/ TlsFails \/ Drop \/ SrvShake \/ SrvSession

\* The reactor delivers what arrives and closes what it is asked to close; a
\* server goes on with the handshake it has begun.
Fairness == WF_vars(Handle) /\ WF_vars(Receive) /\ WF_vars(Lose) /\ WF_vars(SrvShake)

Spec == Init /\ [][Next]_vars /\ Fairness

-----------------------------------------------------------------------------
(* Properties *)

Handlers == {"initial", "auth", "ntypes", "types", "connfailed", "connmsg", "challenge",
             "ardparams", "ardmodulus", "ardkey", "vversion", "vack", "vcount", "vsubtypes",
             "vchosen", "result", "reasonlen", "reason", "finished", "serverinit", "servername",
             "message", "texthead", "text", "maphead", "map", "fencehead", "fence",
             "fencerequest", "update", "rect", "pixels"}

\* The type of the client's own variables, of what has arrived and of what the
\* server has left to send; the client never speaks a version above its own.
TypeOK ==
    /\ want \in [h : Handlers, len : Nat]
    /\ running \in BOOLEAN /\ aborted \in BOOLEAN /\ tls \in BOOLEAN /\ spin \in BOOLEAN
    /\ version \in {0} \cup {v \in SUPPORTED_SERVER_VERSIONS : v <= MAX_CLIENT_VERSION}
    /\ subtype \in {"Plain"} \cup {PREFERENCE[i] : i \in DOMAIN PREFERENCE}
    /\ rectangles \in 0..MaxRects /\ policy \in Policies
    /\ report \in {"none", "made", "failed"} /\ told \in 0..2
    /\ begun \in Nat /\ commits \in Nat /\ painted \in Nat /\ fences \in Nat
    /\ got \in 0..Len(wire) /\ partial \in BOOLEAN /\ conn \in {"open", "closing", "lost"}
    /\ left \in 0..MaxRects /\ faulty \in Faults \cup {"none"}

\* The parser never loses its place: whatever the version, the security type,
\* the message and the way TCP cuts the stream, the handler expect() parked and
\* the length it waits for are those of the next field the server sends, and
\* what the client wrote is what the server waits to read.
InStep ==
    /\ wire # <<>> /\ conn = "open" /\ ~aborted /\ faulty # "early"
          => want = [h |-> Head(wire).h, len |-> Head(wire).len]
    /\ c2s # <<>> /\ srv.hears # "-" => Head(c2s).m = srv.hears

\* Once everything sent has been read, every update the server completed has
\* been committed once, with each of its rectangles, and every fence request
\* answered (_doConnection, _finishRectangle, ServerFenceHandler).
Served ==
    wire = <<>> /\ want.h = "message" /\ faulty = "none"
       => /\ commits = sent.updates /\ begun = commits
          /\ painted = sent.rects /\ fences = sent.fences

\* What the server may send that ends the session with nobody told.  A version
\* below 3.3, a reason above the limit and Diffie-Hellman parameters that are
\* refused raise what _SECURITY_ERRORS does not name, which leaves dataReceived;
\* a SecurityResult that is none is logged and the connection closed.
Untold == {"version", "reason", "dh", "result"}

\* A session that ends, unless the network drops it or the server sends what is
\* Untold, has told the factory why, or has failed its deferred for want of a
\* password; and it is told once: nothing that is still buffered, still arrives
\* or happens at the close reaches vncProtocolError or vncAuthFailed again
\* (abortConnection, connectionLost, security_result).
Reported ==
    /\ conn = "lost" /\ faulty \notin {"drop"} \cup Untold => told > 0 \/ report = "failed"
    /\ told <= 1

\* Handlers whose length the server declares and nothing checks: a name, and
\* the payload of a rectangle, which its decoder asks for.
Unchecked == {"servername", "pixels"}

\* What the server declares makes the client buffer more than its limit in the
\* Unchecked handlers and in no other (requirePayload, before the wait and not
\* after it; elsewhere the width of the length bounds it).
BufferBounded == want.len > Limit => want.h \in Unchecked

\* A handshake ends: the factory's deferred fires or the connection is lost,
\* unless the server breaks off the upgrade to TLS and says no more.
HandshakeEnds == <>(report # "none" \/ conn = "lost" \/ faulty = "early")

\* A connection the client has given up is closed.
ClosesEventually == told > 0 ~> conn = "lost"
=============================================================================
