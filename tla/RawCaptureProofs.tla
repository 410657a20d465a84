--------------------------- MODULE RawCaptureProofs ---------------------------
(***************************************************************************)
(* Proofs about RawCapture: no byte of an authentication is recorded, and  *)
(* what is recorded is the beginning of the session it shows, for any      *)
(* versions, security types, key sizes and messages, and however the bytes *)
(* arrive.  Neither is inductive: both rest on the scrubber's being at the *)
(* field the session is at.  What is held back of a direction, and what is *)
(* still to come of it, is the rest of the session from that field on      *)
(* (Follows); and the side that is not watched cannot speak, because the   *)
(* field the scrubber waits for has not been received in whole.            *)
(***************************************************************************)
EXTENDS ReplayServer, TLAPS, SequenceTheorems, FiniteSetTheorems

-----------------------------------------------------------------------------
(* A session from a field on *)

Scripted == Inputs \cup Scripts \cup {Brief}
Session  == [reply : Nat, types : {1, 2}, sec : Nat, key : Nat, ok : BOOLEAN, inputs : Scripted]

\* Bytes, and the sequences of them in the order of their fields.
Vals     == Nat \cup UNION {{Messages(s)[i].v : i \in DOMAIN Messages(s)} : s \in Scripted}
All      == [f : DOMAIN Rank, v : Vals]
Sorted(s) == \A i \in DOMAIN s, j \in DOMAIN s : i <= j => Rank[s[i].f] <= Rank[s[j].f]
OrderedFrom(r, s) == s \in Seq(All) /\ Sorted(s) /\ \A i \in DOMAIN s : r <= Rank[s[i].f]

\* Length and value of the field at a point of the scrubber.
Size0(p, at) ==
    CASE at \in {"version", "reply"}                -> 12
      [] at \in {"count", "choice", "init"}         -> 1
      [] at \in {"auth", "dh", "result"}            -> 4
      [] at \in {"challenge", "response"}           -> 16
      [] at = "credentials"                         -> ARD_CREDENTIALS_LEN
      [] at = "serverinit"                          -> 24
      [] at = "types"                               -> p.types
      [] at \in {"modulus", "serverkey", "clientkey"} -> p.key
      [] OTHER                                      -> 2
Value(p, at) ==
    CASE at = "version"                      -> 3008
      [] at = "reply"                        -> p.reply
      [] at = "count"                        -> IF p.sec = INVALID THEN 0 ELSE p.types
      [] at \in {"types", "choice", "auth"}  -> p.sec
      [] at = "dh"                           -> p.key
      [] at = "result"                       -> IF p.ok THEN 0 ELSE 1
      [] at = "init"                         -> 1
      [] at = "serverinit"                   -> 2
      [] OTHER                               -> 0

Refused(p) == p.sec = INVALID \/ (HasResult(p) /\ ~ p.ok)

\* What a direction carries after the field at a point, and with it.
Later(p, at, d) ==
    CASE at = "version"     -> Says(d, "reply", 12, p.reply) \o Offer(p, d)
      [] at = "reply"       -> Offer(p, d)
      [] at = "count"       -> IF p.sec = INVALID THEN Reason(d)
                               ELSE Says(d, "types", p.types, p.sec) \o (Says(d, "choice", 1, p.sec) \o Proof(p, d))
      [] at = "types"       -> Says(d, "choice", 1, p.sec) \o Proof(p, d)
      [] at = "choice"      -> Proof(p, d)
      [] at = "auth"        -> IF p.sec = INVALID THEN Reason(d) ELSE Proof(p, d)
      [] at = "challenge"   -> Says(d, "response", 16, 0) \o Verdict(p, d)
      [] at = "dh"          -> Says(d, "modulus", p.key, 0) \o (Says(d, "serverkey", p.key, 0) \o
                                   (Says(d, "credentials", ARD_CREDENTIALS_LEN, 0) \o
                                       (Says(d, "clientkey", p.key, 0) \o Verdict(p, d))))
      [] at = "modulus"     -> Says(d, "serverkey", p.key, 0) \o
                                   (Says(d, "credentials", ARD_CREDENTIALS_LEN, 0) \o
                                       (Says(d, "clientkey", p.key, 0) \o Verdict(p, d)))
      [] at = "serverkey"   -> Says(d, "credentials", ARD_CREDENTIALS_LEN, 0) \o
                                   (Says(d, "clientkey", p.key, 0) \o Verdict(p, d))
      [] at = "credentials" -> Says(d, "clientkey", p.key, 0) \o Verdict(p, d)
      [] at \in {"response", "clientkey"} -> Verdict(p, d)
      [] at = "result"      -> IF p.ok THEN Opening(p, d) ELSE IF Version(p) >= 3008 THEN Reason(d) ELSE <<>>
      [] at = "init"        -> Says(d, "serverinit", 24, 2) \o (Says(d, "name", 2, 0) \o Screen(p, d))
      [] at = "serverinit"  -> Says(d, "name", 2, 0) \o Screen(p, d)
      [] OTHER              -> Screen(p, d)

Closing(p, d) == IF Refused(p) THEN IF p.sec = INVALID \/ Version(p) >= 3008 THEN Reason(d) ELSE <<>>
                 ELSE Screen(p, d)

Rest(p, at, d) == IF at = "done" THEN Closing(p, d)
                  ELSE Says(d, at, Size0(p, at), Value(p, at)) \o Later(p, at, d)

-----------------------------------------------------------------------------
(* The inductive invariant *)

\* The states of a scrubber.
Grammar == [at : Points, n : Nat, ver : Nat, sec : Nat, sized : BOOLEAN, preserve : BOOLEAN, abort : BOOLEAN]

\* A session the scrubber gives up on.
Strange(p) == p.reply = 0 \/ p.sec \notin {INVALID, NONE, VNC_AUTHENTICATION, DIFFIE_HELLMAN}

\* A point the session comes to, and what the scrubber knows there.
DH == {"dh", "modulus", "serverkey", "credentials", "clientkey"}
Knows(p, g) ==
    /\ g.at \in Points
    /\ g.at \notin {"version", "reply", "done"} => g.ver = p.reply /\ p.reply # 0
    /\ g.at \in {"count", "types", "choice"} => p.reply >= 3007
    /\ g.at = "auth" => p.reply < 3007
    /\ g.at \in {"types", "choice"} => p.sec # INVALID
    /\ g.at = "types" => g.n = p.types
    /\ g.at \in {"challenge", "response"} => p.sec = VNC_AUTHENTICATION /\ g.sec = p.sec
    /\ g.at \in DH => p.sec = DIFFIE_HELLMAN /\ g.sec = p.sec
    /\ g.at \in DH \ {"dh"} => g.n = p.key
    /\ g.at = "result" => HasResult(p) /\ p.sec # INVALID /\ ~ Strange(p)
    /\ g.at \in {"init", "serverinit", "name"} => ~ Refused(p) /\ ~ Strange(p)
    /\ g.at = "name" => g.n = 2
    /\ g.at \notin {"name", "done"} => ~ g.sized
    /\ g.sized => ~ Refused(p) /\ ~ Strange(p)
    /\ g.abort = (g.at = "done" /\ Strange(p) /\ ~ g.preserve)

\* A session refused before 3.8 says no more; the one shown would go on.
CutShort(p) == Refused(p) /\ p.sec # INVALID /\ Version(p) < 3008

\* What the recording still lacks of the session it shows.
ShownRest(p, at, d) ==
    LET q == Shown(p, FALSE)
    IN  CASE at = "types"                      -> Rest(q, "count", d)
          [] at \in Exchange                   -> Verdict(q, d)
          [] at = "result"                     -> Verdict(q, d)
          [] at = "done" /\ p.reply = 0        -> Offer(q, d)
          [] at = "done" /\ p.reply # 0        -> Verdict(q, d)
          [] OTHER                             -> Rest(q, at, d)

Due(d) ==
    IF scrubber.preserve THEN pending[d] \o wire[d]
    ELSE IF scrubber.at # "done" \/ Strange(session) THEN ShownRest(session, scrubber.at, d)
    ELSE IF CutShort(session) THEN Opening(Shown(session, FALSE), d)
    ELSE pending[d] \o wire[d]

Typed ==
    /\ session \in Session /\ scrubber \in Grammar
    /\ phase \in {"record", "archived", "dropped"} /\ feeding \in Directions \cup {"none"}
    /\ wire \in [Directions -> Seq(All)] /\ pending \in [Directions -> Seq(All)]
    /\ recorded \in [Directions -> Seq(All)]
    /\ shown = Streams(Shown(session, scrubber.preserve))
    /\ phase # "record" => feeding = "none"
    /\ scrubber.abort => phase = "dropped" \/ feeding # "none"

\* What is held back and what is still to come are the rest of the session.
Remaining == scrubber.at # "done" => \A d \in Directions : pending[d] \o wire[d] = Rest(session, scrubber.at, d)

\* What is held back was sent before what the other side has still to send.
Turns ==
    scrubber.at # "done" =>
        \A d \in Directions : wire[Other(d)] # <<>> =>
            \A i \in DOMAIN pending[d] : Rank[pending[d][i].f] <= Rank[Head(wire[Other(d)]).f]

\* Nothing is held back of the side that is not watched, and of the other one
\* less than a field, unless it is being fed.
Quiet ==
    /\ scrubber.at # "done" => pending[Other(Tap(scrubber.at))] = <<>>
    /\ scrubber.at # "done" /\ feeding # Tap(scrubber.at) => Len(pending[Tap(scrubber.at)]) < Nbytes(scrubber)
    /\ ~ (scrubber.at = "done" /\ Strange(session)) =>
          \A d \in Directions : d # feeding /\ (scrubber.at = "done" \/ feeding # "none") => pending[d] = <<>>
    /\ scrubber.at = "done" /\ CutShort(session) /\ ~ Strange(session) =>
          \A d \in Directions : wire[d] = <<>> /\ pending[d] = <<>>

Follows == Remaining /\ Turns /\ Quiet

Account == \A d \in Directions : recorded[d] \o Due(d) = shown[d]

\* The archive.
Kept ==
    /\ \A d \in Directions : \E rest \in Seq(All) : recorded[d] \o rest = shown[d]
    /\ ~ scrubber.preserve /\ scrubber.at = "done" /\ scrubber.sized =>
          \A d \in Directions : recorded[d] \o wire[d] = shown[d]

IInv ==
    /\ Typed
    /\ phase = "record" => Knows(session, scrubber) /\ Follows /\ Account
    /\ phase = "archived" => Kept

-----------------------------------------------------------------------------
(* Fields, bytes and their order *)

\* The ranks are numbers.
LEMMA RankFacts ==
  /\ DOMAIN Rank = {"version", "reply", "count", "types", "choice", "auth", "challenge", "response", "dh",
                    "modulus", "serverkey", "credentials", "clientkey", "ask", "secret", "result", "reason",
                    "init", "serverinit", "name", "screen", "input"}
  /\ \A f \in DOMAIN Rank : Rank[f] \in Nat
  <1>1. DOMAIN Rank = {"version", "reply", "count", "types", "choice", "auth", "challenge", "response", "dh",
                    "modulus", "serverkey", "credentials", "clientkey", "ask", "secret", "result", "reason",
                    "init", "serverinit", "name", "screen", "input"}
    BY DEF Rank
  <1> QED
    BY <1>1 DEF Rank

\* What a client sends after the handshake are messages of known kinds.
LEMMA ScriptFacts ==
  ASSUME NEW s \in Scripted
  PROVE  s \in Seq(Kinds)
  <1>1. "pointer" \in Kinds
    BY DEF Kinds, Size
  <1>2. <<"pointer">> \in Seq(Kinds)
    BY <1>1
  <1> QED
    BY <1>2, InputAssumption, ScriptAssumption DEF Scripted, Brief

\* They are finitely many bytes.
LEMMA ExtentFinite ==
  ASSUME NEW s \in Scripted
  PROVE  IsFiniteSet(Extent(s)) /\ Cardinality(Extent(s)) \in Nat
  <1>1. s \in Seq(Kinds) /\ Len(s) \in Nat /\ DOMAIN s = 1..Len(s)
    BY ScriptFacts, LenProperties
  <1>2. IsFiniteSet(DOMAIN s)
    BY <1>1, FS_Interval
  <1>3. \A j \in DOMAIN s : Size[s[j]] \in Nat
    <2>1. \A j \in DOMAIN s : s[j] \in Kinds
      BY <1>1, ElementOfSeq
    <2>2. \A k \in Kinds : Size[k] \in Nat
      BY DEF Kinds, Size
    <2> QED
      BY <2>1, <2>2
  <1> DEFINE part(j) == {j} \X (1..Size[s[j]])
             parts == {part(j) : j \in DOMAIN s}
  <1>4. \A j \in DOMAIN s : IsFiniteSet(part(j))
    <2> TAKE j \in DOMAIN s
    <2>1. IsFiniteSet({j})
      BY FS_Singleton
    <2>2. PICK m \in Nat : m = Size[s[j]]
      BY <1>3
    <2>3. IsFiniteSet(1..m)
      BY FS_Interval
    <2> QED
      BY <2>1, <2>2, <2>3, FS_Product
  <1>5. IsFiniteSet(parts)
    <2> DEFINE fn == [j \in DOMAIN s |-> part(j)]
    <2>1. parts = {fn[j] : j \in DOMAIN s}
      OBVIOUS
    <2>2. fn \in Surjection(DOMAIN s, parts)
      BY DEF Surjection
    <2> QED
      BY <1>2, <2>2, FS_Surjection
  <1>6. IsFiniteSet(UNION parts)
    <2> HIDE DEF part
    <2> QED
      BY <1>4, <1>5, FS_UNION
  <1>7. Extent(s) = UNION parts
    BY DEF Extent
  <1> QED
    BY <1>6, <1>7, FS_CardinalityType

\* A field is a sequence of bytes of that name.
LEMMA BytesFacts ==
  ASSUME NEW f \in DOMAIN Rank, NEW n \in Nat, NEW v \in Vals
  PROVE  /\ Bytes(f, n, v) \in Seq(All) /\ Len(Bytes(f, n, v)) = n
         /\ \A i \in 1..n : Bytes(f, n, v)[i] = [f |-> f, v |-> v]
  <1>1. [f |-> f, v |-> v] \in All
    BY DEF All
  <1>2. Bytes(f, n, v) = [i \in 1..n |-> [f |-> f, v |-> v]]
    BY DEF Bytes, Byte
  <1> QED
    BY <1>1, <1>2

\* So are messages.
LEMMA MessagesFacts ==
  ASSUME NEW s \in Scripted
  PROVE  Messages(s) \in Seq(All) /\ \A i \in DOMAIN Messages(s) : Messages(s)[i].f = "input"
  <1> DEFINE n == Cardinality(Extent(s))
  <1>1. n \in Nat
    BY ExtentFinite
  <1>2. Messages(s) = [k \in 1..n |-> [f |-> "input", v |-> Place(s, k)]]
    BY DEF Messages, Byte
  <1> HIDE DEF n
  <1>3. DOMAIN Messages(s) = 1..n /\ \A i \in 1..n : Messages(s)[i] = [f |-> "input", v |-> Place(s, i)]
    BY <1>2
  <1>4. \A i \in 1..n : Messages(s)[i].v \in Vals
    <2> TAKE i \in 1..n
    <2>1. Messages(s)[i].v \in {Messages(s)[j].v : j \in DOMAIN Messages(s)}
      BY <1>3
    <2> QED
      BY <2>1 DEF Vals
  <1>5. \A i \in 1..n : [f |-> "input", v |-> Place(s, i)] \in All
    BY <1>3, <1>4, RankFacts DEF All
  <1> QED
    BY <1>1, <1>2, <1>3, <1>5

\* Nothing is in order.
LEMMA OrderedEmpty == \A r : OrderedFrom(r, <<>>)
  BY EmptySeq DEF OrderedFrom, Sorted

\* What begins late begins no earlier.
LEMMA OrderedWeaker ==
  ASSUME NEW r \in Nat, NEW r2 \in Nat, r <= r2, NEW s, OrderedFrom(r2, s)
  PROVE  OrderedFrom(r, s)
  <1>1. s \in Seq(All)
    BY DEF OrderedFrom
  <1>2. \A i \in DOMAIN s : Rank[s[i].f] \in Nat
    <2>1. \A i \in DOMAIN s : s[i] \in All
      BY <1>1
    <2>2. \A b \in All : b.f \in DOMAIN Rank
      BY DEF All
    <2> QED
      BY <2>1, <2>2, RankFacts
  <1>3. \A i \in DOMAIN s : r <= Rank[s[i].f]
    BY <1>2 DEF OrderedFrom
  <1> QED
    BY <1>3 DEF OrderedFrom

\* A field before later ones keeps the order,
LEMMA OrderedConcat ==
  ASSUME NEW f \in DOMAIN Rank, NEW n \in Nat, NEW v \in Vals, NEW r2 \in Nat, Rank[f] <= r2,
         NEW s, OrderedFrom(r2, s)
  PROVE  OrderedFrom(Rank[f], Bytes(f, n, v) \o s)
  <1> DEFINE b == Bytes(f, n, v)
             t == b \o s
  <1>1. b \in Seq(All) /\ Len(b) = n /\ \A i \in 1..n : b[i].f = f
    <2>1. b \in Seq(All) /\ Len(b) = n /\ \A i \in 1..n : b[i] = [f |-> f, v |-> v]
      BY BytesFacts
    <2> QED
      BY <2>1
  <1>2. s \in Seq(All) /\ Len(s) \in Nat /\ DOMAIN s = 1..Len(s)
    BY LenProperties DEF OrderedFrom
  <1>3. /\ t \in Seq(All) /\ Len(t) = n + Len(s)
        /\ \A i \in 1..n + Len(s) : t[i] = IF i <= n THEN b[i] ELSE s[i - n]
    <2> HIDE DEF b
    <2> QED
      BY <1>1, <1>2, ConcatProperties
  <1>4. DOMAIN t = 1..n + Len(s)
    BY <1>3, LenProperties
  <1>5. \A i \in 1..Len(s) : Rank[s[i].f] \in Nat /\ Rank[s[i].f] >= r2
    <2>1. \A i \in 1..Len(s) : s[i] \in All
      BY <1>2, ElementOfSeq
    <2> QED
      BY <1>2, <2>1, RankFacts DEF All, OrderedFrom
  <1> HIDE DEF b, t
  <1>6. \A i \in 1..n + Len(s) : IF i <= n THEN t[i].f = f
                                 ELSE i - n \in 1..Len(s) /\ t[i] = s[i - n]
    BY <1>1, <1>2, <1>3
  <1>7. Rank[f] \in Nat
    BY RankFacts
  <1>8. \A i \in DOMAIN t : Rank[f] <= Rank[t[i].f]
    BY <1>4, <1>5, <1>6, <1>7
  <1>9. Sorted(t)
    <2> SUFFICES ASSUME NEW i \in 1..n + Len(s), NEW j \in 1..n + Len(s), i <= j
                 PROVE  Rank[t[i].f] <= Rank[t[j].f]
      BY <1>4 DEF Sorted
    <2>1. CASE i <= n
      BY <1>4, <1>6, <1>8, <2>1
    <2>2. CASE ~ (i <= n)
      <3>1. i - n \in 1..Len(s) /\ j - n \in 1..Len(s) /\ i - n <= j - n /\ t[i] = s[i - n] /\ t[j] = s[j - n]
        BY <1>1, <1>2, <1>6, <2>2
      <3>2. Rank[s[i - n].f] <= Rank[s[j - n].f]
        BY <1>2, <3>1 DEF OrderedFrom, Sorted
      <3> QED
        BY <3>1, <3>2
    <2> QED
      BY <2>1, <2>2
  <1> QED
    BY <1>3, <1>8, <1>9 DEF OrderedFrom, t, b

\* as far as a direction carries it.
LEMMA OrderedSays ==
  ASSUME NEW d, NEW f \in DOMAIN Rank, NEW n \in Nat, NEW v \in Vals, NEW r2 \in Nat, Rank[f] <= r2,
         NEW s, OrderedFrom(r2, s), NEW r \in Nat, r <= Rank[f]
  PROVE  OrderedFrom(r, Says(d, f, n, v) \o s)
  <1>1. Rank[f] \in Nat
    BY RankFacts
  <1>2. CASE From(f) = d
    BY <1>1, <1>2, OrderedConcat, OrderedWeaker DEF Says
  <1>3. CASE From(f) # d
    <2>1. Says(d, f, n, v) \o s = s
      BY <1>3, ConcatEmptySeq DEF Says, OrderedFrom
    <2>2. r <= r2
      BY <1>1
    <2> QED
      BY <2>1, <2>2, OrderedWeaker
  <1> QED
    BY <1>2, <1>3

\* The order of the fields (HandshakeScrubber._run).
LEMMA RankValues ==
  /\ Rank["version"] = 1 /\ Rank["reply"] = 2 /\ Rank["count"] = 3 /\ Rank["types"] = 4 /\ Rank["choice"] = 5
  /\ Rank["auth"] = 6 /\ Rank["challenge"] = 7 /\ Rank["response"] = 8 /\ Rank["dh"] = 9 /\ Rank["modulus"] = 10
  /\ Rank["serverkey"] = 11 /\ Rank["credentials"] = 12 /\ Rank["clientkey"] = 13 /\ Rank["ask"] = 14
  /\ Rank["secret"] = 15 /\ Rank["result"] = 16 /\ Rank["reason"] = 17 /\ Rank["init"] = 18
  /\ Rank["serverinit"] = 19 /\ Rank["name"] = 20 /\ Rank["screen"] = 21 /\ Rank["input"] = 21
  BY DEF Rank

\* Each field of the session before the ones that come after it.
LEMMA FieldBefore ==
  ASSUME NEW d, NEW n \in Nat, NEW v \in Nat, NEW s, NEW f \in DOMAIN Rank, NEW k \in Nat, NEW k2 \in Nat,
         Rank[f] = k, k <= k2, OrderedFrom(k2, s)
  PROVE  OrderedFrom(k, Says(d, f, n, v) \o s)
  <1>1. v \in Vals
    BY DEF Vals
  <1> QED
    BY <1>1, OrderedSays

\* A field goes before those of a higher rank, for each of them.
LEMMA Before ==
  ASSUME NEW d, NEW n \in Nat, NEW v \in Nat, NEW s
  PROVE  /\ (OrderedFrom(2, s) => OrderedFrom(1, Says(d, "version", n, v) \o s))
         /\ (OrderedFrom(3, s) => OrderedFrom(2, Says(d, "reply", n, v) \o s))
         /\ (OrderedFrom(4, s) => OrderedFrom(3, Says(d, "count", n, v) \o s))
         /\ (OrderedFrom(5, s) => OrderedFrom(4, Says(d, "types", n, v) \o s))
         /\ (OrderedFrom(6, s) => OrderedFrom(5, Says(d, "choice", n, v) \o s))
         /\ (OrderedFrom(7, s) => OrderedFrom(6, Says(d, "auth", n, v) \o s))
         /\ (OrderedFrom(8, s) => OrderedFrom(7, Says(d, "challenge", n, v) \o s))
         /\ (OrderedFrom(9, s) => OrderedFrom(8, Says(d, "response", n, v) \o s))
         /\ (OrderedFrom(10, s) => OrderedFrom(9, Says(d, "dh", n, v) \o s))
         /\ (OrderedFrom(11, s) => OrderedFrom(10, Says(d, "modulus", n, v) \o s))
         /\ (OrderedFrom(12, s) => OrderedFrom(11, Says(d, "serverkey", n, v) \o s))
         /\ (OrderedFrom(13, s) => OrderedFrom(12, Says(d, "credentials", n, v) \o s))
         /\ (OrderedFrom(14, s) => OrderedFrom(13, Says(d, "clientkey", n, v) \o s))
         /\ (OrderedFrom(15, s) => OrderedFrom(14, Says(d, "ask", n, v) \o s))
         /\ (OrderedFrom(16, s) => OrderedFrom(15, Says(d, "secret", n, v) \o s))
         /\ (OrderedFrom(17, s) => OrderedFrom(16, Says(d, "result", n, v) \o s))
         /\ (OrderedFrom(18, s) => OrderedFrom(17, Says(d, "reason", n, v) \o s))
         /\ (OrderedFrom(19, s) => OrderedFrom(18, Says(d, "init", n, v) \o s))
         /\ (OrderedFrom(20, s) => OrderedFrom(19, Says(d, "serverinit", n, v) \o s))
         /\ (OrderedFrom(21, s) => OrderedFrom(20, Says(d, "name", n, v) \o s))
  <1>1. OrderedFrom(2, s) => OrderedFrom(1, Says(d, "version", n, v) \o s)
    <2>1. "version" \in DOMAIN Rank /\ Rank["version"] = 1
      BY RankFacts, RankValues
    <2> QED
      BY <2>1, FieldBefore
  <1>2. OrderedFrom(3, s) => OrderedFrom(2, Says(d, "reply", n, v) \o s)
    <2>1. "reply" \in DOMAIN Rank /\ Rank["reply"] = 2
      BY RankFacts, RankValues
    <2> QED
      BY <2>1, FieldBefore
  <1>3. OrderedFrom(4, s) => OrderedFrom(3, Says(d, "count", n, v) \o s)
    <2>1. "count" \in DOMAIN Rank /\ Rank["count"] = 3
      BY RankFacts, RankValues
    <2> QED
      BY <2>1, FieldBefore
  <1>4. OrderedFrom(5, s) => OrderedFrom(4, Says(d, "types", n, v) \o s)
    <2>1. "types" \in DOMAIN Rank /\ Rank["types"] = 4
      BY RankFacts, RankValues
    <2> QED
      BY <2>1, FieldBefore
  <1>5. OrderedFrom(6, s) => OrderedFrom(5, Says(d, "choice", n, v) \o s)
    <2>1. "choice" \in DOMAIN Rank /\ Rank["choice"] = 5
      BY RankFacts, RankValues
    <2> QED
      BY <2>1, FieldBefore
  <1>6. OrderedFrom(7, s) => OrderedFrom(6, Says(d, "auth", n, v) \o s)
    <2>1. "auth" \in DOMAIN Rank /\ Rank["auth"] = 6
      BY RankFacts, RankValues
    <2> QED
      BY <2>1, FieldBefore
  <1>7. OrderedFrom(8, s) => OrderedFrom(7, Says(d, "challenge", n, v) \o s)
    <2>1. "challenge" \in DOMAIN Rank /\ Rank["challenge"] = 7
      BY RankFacts, RankValues
    <2> QED
      BY <2>1, FieldBefore
  <1>8. OrderedFrom(9, s) => OrderedFrom(8, Says(d, "response", n, v) \o s)
    <2>1. "response" \in DOMAIN Rank /\ Rank["response"] = 8
      BY RankFacts, RankValues
    <2> QED
      BY <2>1, FieldBefore
  <1>9. OrderedFrom(10, s) => OrderedFrom(9, Says(d, "dh", n, v) \o s)
    <2>1. "dh" \in DOMAIN Rank /\ Rank["dh"] = 9
      BY RankFacts, RankValues
    <2> QED
      BY <2>1, FieldBefore
  <1>10. OrderedFrom(11, s) => OrderedFrom(10, Says(d, "modulus", n, v) \o s)
    <2>1. "modulus" \in DOMAIN Rank /\ Rank["modulus"] = 10
      BY RankFacts, RankValues
    <2> QED
      BY <2>1, FieldBefore
  <1>11. OrderedFrom(12, s) => OrderedFrom(11, Says(d, "serverkey", n, v) \o s)
    <2>1. "serverkey" \in DOMAIN Rank /\ Rank["serverkey"] = 11
      BY RankFacts, RankValues
    <2> QED
      BY <2>1, FieldBefore
  <1>12. OrderedFrom(13, s) => OrderedFrom(12, Says(d, "credentials", n, v) \o s)
    <2>1. "credentials" \in DOMAIN Rank /\ Rank["credentials"] = 12
      BY RankFacts, RankValues
    <2> QED
      BY <2>1, FieldBefore
  <1>13. OrderedFrom(14, s) => OrderedFrom(13, Says(d, "clientkey", n, v) \o s)
    <2>1. "clientkey" \in DOMAIN Rank /\ Rank["clientkey"] = 13
      BY RankFacts, RankValues
    <2> QED
      BY <2>1, FieldBefore
  <1>14. OrderedFrom(15, s) => OrderedFrom(14, Says(d, "ask", n, v) \o s)
    <2>1. "ask" \in DOMAIN Rank /\ Rank["ask"] = 14
      BY RankFacts, RankValues
    <2> QED
      BY <2>1, FieldBefore
  <1>15. OrderedFrom(16, s) => OrderedFrom(15, Says(d, "secret", n, v) \o s)
    <2>1. "secret" \in DOMAIN Rank /\ Rank["secret"] = 15
      BY RankFacts, RankValues
    <2> QED
      BY <2>1, FieldBefore
  <1>16. OrderedFrom(17, s) => OrderedFrom(16, Says(d, "result", n, v) \o s)
    <2>1. "result" \in DOMAIN Rank /\ Rank["result"] = 16
      BY RankFacts, RankValues
    <2> QED
      BY <2>1, FieldBefore
  <1>17. OrderedFrom(18, s) => OrderedFrom(17, Says(d, "reason", n, v) \o s)
    <2>1. "reason" \in DOMAIN Rank /\ Rank["reason"] = 17
      BY RankFacts, RankValues
    <2> QED
      BY <2>1, FieldBefore
  <1>18. OrderedFrom(19, s) => OrderedFrom(18, Says(d, "init", n, v) \o s)
    <2>1. "init" \in DOMAIN Rank /\ Rank["init"] = 18
      BY RankFacts, RankValues
    <2> QED
      BY <2>1, FieldBefore
  <1>19. OrderedFrom(20, s) => OrderedFrom(19, Says(d, "serverinit", n, v) \o s)
    <2>1. "serverinit" \in DOMAIN Rank /\ Rank["serverinit"] = 19
      BY RankFacts, RankValues
    <2> QED
      BY <2>1, FieldBefore
  <1>20. OrderedFrom(21, s) => OrderedFrom(20, Says(d, "name", n, v) \o s)
    <2>1. "name" \in DOMAIN Rank /\ Rank["name"] = 20
      BY RankFacts, RankValues
    <2> QED
      BY <2>1, FieldBefore
  <1> QED
    BY <1>1, <1>2, <1>3, <1>4, <1>5, <1>6, <1>7, <1>8, <1>9, <1>10, <1>11, <1>12, <1>13, <1>14, <1>15, <1>16, <1>17, <1>18, <1>19, <1>20

\* The order of what follows the handshake,
LEMMA ReasonOrdered == \A d : OrderedFrom(17, Reason(d))
  <1> TAKE d
  <1>1. OrderedFrom(17, Says(d, "reason", 2, 0) \o <<>>)
    BY OrderedEmpty, Before
  <1>2. Says(d, "reason", 2, 0) \in Seq(All)
    BY BytesFacts, RankFacts, EmptySeq DEF Says, Vals
  <1> QED
    BY <1>1, <1>2, ConcatEmptySeq DEF Reason

\* of the screen and the messages,
LEMMA ScreenOrdered ==
  ASSUME NEW p \in Session, NEW d
  PROVE  OrderedFrom(21, Screen(p, d))
  <1>1. p.inputs \in Scripted
    BY DEF Session
  <1>2. CASE d = "s2c"
    <2> DEFINE b == Bytes("screen", 2, 0)
    <2>1. b \in Seq(All) /\ Len(b) = 2 /\ \A i \in 1..2 : b[i] = [f |-> "screen", v |-> 0]
      BY BytesFacts, RankFacts DEF Vals
    <2>2. \A i \in DOMAIN b : Rank[b[i].f] = 21
      <3> HIDE DEF b
      <3> QED
        BY <2>1, RankValues, LenProperties
    <2> HIDE DEF b
    <2>3. OrderedFrom(21, b)
      BY <2>1, <2>2 DEF OrderedFrom, Sorted
    <2> QED
      BY <1>2, <2>3 DEF Screen, b
  <1>3. CASE d # "s2c"
    <2> DEFINE m == Messages(p.inputs)
    <2>1. m \in Seq(All) /\ \A i \in DOMAIN m : m[i].f = "input"
      BY <1>1, MessagesFacts
    <2> HIDE DEF m
    <2>a. \A i \in DOMAIN m : Rank[m[i].f] = 21
      BY <2>1, RankValues
    <2>2. OrderedFrom(21, m)
      BY <2>1, <2>a DEF OrderedFrom, Sorted
    <2> QED
      BY <1>3, <2>2 DEF Screen, m
  <1> QED
    BY <1>2, <1>3

\* of what follows the authentication,
LEMMA OpeningOrdered ==
  ASSUME NEW p \in Session, NEW d
  PROVE  /\ OrderedFrom(18, Opening(p, d))
         /\ OrderedFrom(19, Later(p, "init", d)) /\ OrderedFrom(20, Later(p, "serverinit", d))
  <1> DEFINE s1 == Says(d, "name", 2, 0) \o Screen(p, d)
             s2 == Says(d, "serverinit", 24, 2) \o s1
             s3 == Says(d, "init", 1, 1) \o s2
  <1>1. OrderedFrom(20, s1)
    BY ScreenOrdered, Before
  <1> HIDE DEF s1
  <1>2. OrderedFrom(19, s2)
    BY <1>1, Before
  <1> HIDE DEF s2
  <1>3. OrderedFrom(18, s3)
    BY <1>2, Before
  <1>4. s3 = Opening(p, d)
    BY DEF Opening, s2, s1
  <1>5. Later(p, "init", d) = s2
    BY DEF Later, s2, s1
  <1>6. Later(p, "serverinit", d) = s1
    BY DEF Later, s1
  <1> QED
    BY <1>1, <1>2, <1>3, <1>4, <1>5, <1>6

\* with its result,
LEMMA VerdictOrdered ==
  ASSUME NEW p \in Session, NEW d
  PROVE  OrderedFrom(16, Verdict(p, d))
  <1>1. OrderedFrom(18, Opening(p, d)) /\ OrderedFrom(17, Reason(d)) /\ OrderedFrom(17, <<>>)
    BY OpeningOrdered, ReasonOrdered, OrderedEmpty
  <1>2. OrderedFrom(16, Opening(p, d)) /\ OrderedFrom(17, Opening(p, d))
    BY <1>1, OrderedWeaker
  <1>3. OrderedFrom(16, Says(d, "result", 4, 0) \o Opening(p, d))
    BY <1>2, Before
  <1> DEFINE rest == IF Version(p) >= 3008 THEN Reason(d) ELSE <<>>
  <1>4. OrderedFrom(17, rest)
    BY <1>1
  <1> HIDE DEF rest
  <1>5. OrderedFrom(16, Says(d, "result", 4, 1) \o rest)
    BY <1>4, Before
  <1> QED
    BY <1>2, <1>3, <1>5 DEF Verdict, rest

\* What a session consists of.
LEMMA SessionFacts ==
  ASSUME NEW p \in Session
  PROVE  /\ p.reply \in Nat /\ p.types \in Nat /\ p.types > 0 /\ p.sec \in Nat /\ p.key \in Nat
         /\ p.ok \in BOOLEAN /\ Version(p) \in Nat
         /\ 0 \in Nat /\ 1 \in Nat /\ 2 \in Nat /\ 4 \in Nat /\ 12 \in Nat /\ 16 \in Nat /\ 24 \in Nat
         /\ ARD_CREDENTIALS_LEN \in Nat
  BY DEF Session, Version, ARD_CREDENTIALS_LEN

\* of a Diffie-Hellman exchange,
LEMMA KeysOrdered ==
  ASSUME NEW p \in Session, NEW d
  PROVE  /\ OrderedFrom(10, Later(p, "dh", d)) /\ OrderedFrom(11, Later(p, "modulus", d))
         /\ OrderedFrom(12, Later(p, "serverkey", d)) /\ OrderedFrom(13, Later(p, "credentials", d))
         /\ OrderedFrom(9, Says(d, "dh", 4, p.key) \o Later(p, "dh", d))
  <1> DEFINE s4 == Verdict(p, d)
             s5 == Says(d, "clientkey", p.key, 0) \o s4
             s6 == Says(d, "credentials", ARD_CREDENTIALS_LEN, 0) \o s5
             s7 == Says(d, "serverkey", p.key, 0) \o s6
             s8 == Says(d, "modulus", p.key, 0) \o s7
             s9 == Says(d, "dh", 4, p.key) \o s8
  <1>0. 14 \in Nat /\ 16 \in Nat /\ 14 <= 16
    OBVIOUS
  <1>1. OrderedFrom(14, s4)
    BY <1>0, VerdictOrdered, OrderedWeaker
  <1> HIDE DEF s4
  <1>2. OrderedFrom(13, s5)
    BY <1>1, SessionFacts, Before
  <1> HIDE DEF s5
  <1>3. OrderedFrom(12, s6)
    BY <1>2, SessionFacts, Before
  <1> HIDE DEF s6
  <1>4. OrderedFrom(11, s7)
    BY <1>3, SessionFacts, Before
  <1> HIDE DEF s7
  <1>5. OrderedFrom(10, s8)
    BY <1>4, SessionFacts, Before
  <1> HIDE DEF s8
  <1>6. OrderedFrom(9, s9)
    BY <1>5, SessionFacts, Before
  <1> HIDE DEF s9
  <1>7. Later(p, "dh", d) = s8 /\ Later(p, "modulus", d) = s7 /\ Later(p, "serverkey", d) = s6
        /\ Later(p, "credentials", d) = s5
    BY DEF Later, s8, s7, s6, s5, s4
  <1> QED
    BY <1>2, <1>3, <1>4, <1>5, <1>6, <1>7 DEF s9

\* of any exchange,
LEMMA ProofOrdered ==
  ASSUME NEW p \in Session, NEW d
  PROVE  OrderedFrom(7, Proof(p, d)) /\ OrderedFrom(8, Later(p, "challenge", d))
  <1>0. OrderedFrom(16, Verdict(p, d)) /\ OrderedFrom(9, Says(d, "dh", 4, p.key) \o Later(p, "dh", d))
    BY VerdictOrdered, KeysOrdered
  <1>1. OrderedFrom(16, Verdict(p, d)) /\ OrderedFrom(9, Verdict(p, d)) /\ OrderedFrom(7, Verdict(p, d))
        /\ OrderedFrom(7, Says(d, "dh", 4, p.key) \o Later(p, "dh", d))
    BY <1>0, OrderedWeaker
  <1>2. OrderedFrom(8, Says(d, "response", 16, 0) \o Verdict(p, d))
    BY <1>1, Before
  <1>3. OrderedFrom(7, Says(d, "challenge", 16, 0) \o (Says(d, "response", 16, 0) \o Verdict(p, d)))
    BY <1>2, Before
  <1>4. OrderedFrom(15, Says(d, "secret", 2, 0) \o Verdict(p, d))
    BY <1>1, Before
  <1>5. OrderedFrom(14, Says(d, "ask", 2, 0) \o (Says(d, "secret", 2, 0) \o Verdict(p, d)))
    BY <1>4, Before
  <1>6. OrderedFrom(7, Says(d, "ask", 2, 0) \o (Says(d, "secret", 2, 0) \o Verdict(p, d)))
    BY <1>5, OrderedWeaker
  <1>7. Later(p, "challenge", d) = Says(d, "response", 16, 0) \o Verdict(p, d)
    BY DEF Later
  <1>8. Says(d, "dh", 4, p.key) \o Later(p, "dh", d) =
            Says(d, "dh", 4, p.key) \o (Says(d, "modulus", p.key, 0) \o (Says(d, "serverkey", p.key, 0) \o
                (Says(d, "credentials", ARD_CREDENTIALS_LEN, 0) \o (Says(d, "clientkey", p.key, 0) \o Verdict(p, d)))))
    BY DEF Later
  <1> QED
    BY <1>1, <1>2, <1>3, <1>6, <1>7, <1>8 DEF Proof

\* and of the offer of security types.
LEMMA OfferOrdered ==
  ASSUME NEW p \in Session, NEW d
  PROVE  /\ OrderedFrom(3, Offer(p, d)) /\ OrderedFrom(4, Later(p, "count", d))
         /\ OrderedFrom(5, Later(p, "types", d))
  <1> DEFINE s1 == Says(d, "choice", 1, p.sec) \o Proof(p, d)
             s2 == Says(d, "types", p.types, p.sec) \o s1
             s3 == Says(d, "count", 1, p.types) \o s2
             after == IF p.sec = INVALID THEN Reason(d) ELSE Proof(p, d)
  <1>0. OrderedFrom(7, Proof(p, d)) /\ OrderedFrom(17, Reason(d))
    BY ProofOrdered, ReasonOrdered
  <1>1. OrderedFrom(6, Proof(p, d)) /\ OrderedFrom(4, Reason(d)) /\ OrderedFrom(7, Reason(d))
    BY <1>0, OrderedWeaker
  <1>2. OrderedFrom(5, s1)
    BY <1>1, SessionFacts, Before
  <1> HIDE DEF s1
  <1>3. OrderedFrom(4, s2)
    BY <1>2, SessionFacts, Before
  <1> HIDE DEF s2
  <1>4. OrderedFrom(3, s3)
    BY <1>3, SessionFacts, Before
  <1> HIDE DEF s3
  <1>5. OrderedFrom(7, after)
    BY <1>0, <1>1
  <1> HIDE DEF after
  <1>6. OrderedFrom(6, Says(d, "auth", 4, p.sec) \o after)
    BY <1>5, SessionFacts, Before
  <1>7. OrderedFrom(3, Says(d, "auth", 4, p.sec) \o after)
    BY <1>6, OrderedWeaker
  <1>8. OrderedFrom(3, Says(d, "count", 1, 0) \o Reason(d))
    BY <1>1, Before
  <1>9. OrderedFrom(3, Offer(p, d))
    BY <1>4, <1>7, <1>8 DEF Offer, s3, s2, s1, after
  <1>10. Later(p, "count", d) = (IF p.sec = INVALID THEN Reason(d) ELSE s2) /\ Later(p, "types", d) = s1
    BY DEF Later, s2, s1
  <1> QED
    BY <1>1, <1>2, <1>3, <1>9, <1>10

\* What follows the field at a point has a higher rank than that field,
LEMMA LaterOrdered ==
  ASSUME NEW p \in Session, NEW d, NEW at \in Points \ {"done"}
  PROVE  \E r \in Nat : Rank[at] < r /\ OrderedFrom(r, Later(p, at, d))
  <1>1. CASE at \in DH
    <2>1. 10 \in Nat /\ 11 \in Nat /\ 12 \in Nat /\ 13 \in Nat /\ 16 \in Nat
      OBVIOUS
    <2>2. CASE at = "dh"
      BY <2>1, <2>2, KeysOrdered, RankValues
    <2>3. CASE at = "modulus"
      BY <2>1, <2>3, KeysOrdered, RankValues
    <2>4. CASE at = "serverkey"
      BY <2>1, <2>4, KeysOrdered, RankValues
    <2>5. CASE at = "credentials"
      BY <2>1, <2>5, KeysOrdered, RankValues
    <2>6. CASE at = "clientkey"
      <3>1. Later(p, "clientkey", d) = Verdict(p, d)
        BY DEF Later
      <3> QED
        BY <2>1, <2>6, <3>1, VerdictOrdered, RankValues
    <2> QED
      BY <1>1, <2>2, <2>3, <2>4, <2>5, <2>6 DEF DH
  <1>2. CASE at \in {"challenge", "response"}
    <2>1. Later(p, "response", d) = Verdict(p, d)
      BY DEF Later
    <2>2. CASE at = "challenge"
      BY <2>2, ProofOrdered, RankValues
    <2>3. CASE at = "response"
      BY <2>1, <2>3, VerdictOrdered, RankValues
    <2> QED
      BY <1>2, <2>2, <2>3
  <1>3. CASE at \in {"version", "reply", "count", "types"}
    <2>1. Later(p, "version", d) = Says(d, "reply", 12, p.reply) \o Offer(p, d) /\ Later(p, "reply", d) = Offer(p, d)
      BY DEF Later
    <2>2. OrderedFrom(2, Later(p, "version", d))
      <3>1. p.reply \in Nat /\ 12 \in Nat /\ OrderedFrom(3, Offer(p, d))
        BY SessionFacts, OfferOrdered
      <3>2. OrderedFrom(2, Says(d, "reply", 12, p.reply) \o Offer(p, d))
        BY <3>1, Before
      <3> QED
        BY <2>1, <3>2
    <2>3. CASE at = "version"
      BY <2>2, <2>3, RankValues
    <2>4. CASE at = "reply"
      BY <2>1, <2>4, OfferOrdered, RankValues
    <2>5. CASE at = "count"
      BY <2>5, OfferOrdered, RankValues
    <2>6. CASE at = "types"
      BY <2>6, OfferOrdered, RankValues
    <2> QED
      BY <1>3, <2>3, <2>4, <2>5, <2>6
  <1>4. CASE at \in {"choice", "auth"}
    <2>1. OrderedFrom(7, Reason(d))
      <3>1. 7 \in Nat /\ 17 \in Nat /\ 7 <= 17
        OBVIOUS
      <3> QED
        BY <3>1, ReasonOrdered, OrderedWeaker
    <2>2. OrderedFrom(7, Later(p, at, d))
      <3>1. CASE at = "choice"
        BY <3>1, ProofOrdered DEF Later
      <3>2. CASE at = "auth"
        <4>1. Later(p, "auth", d) = IF p.sec = INVALID THEN Reason(d) ELSE Proof(p, d)
          BY DEF Later
        <4> QED
          BY <2>1, <3>2, <4>1, ProofOrdered
      <3> QED
        BY <1>4, <3>1, <3>2
    <2>3. Rank[at] < 7
      BY <1>4, RankValues
    <2> QED
      BY <2>2, <2>3
  <1>5. CASE at = "result"
    <2>1. OrderedFrom(17, Opening(p, d))
      <3>1. 17 \in Nat /\ 18 \in Nat /\ 17 <= 18
        OBVIOUS
      <3> QED
        BY <3>1, OpeningOrdered, OrderedWeaker
    <2>2. OrderedFrom(17, Reason(d)) /\ OrderedFrom(17, <<>>)
      BY ReasonOrdered, OrderedEmpty
    <2>3. Later(p, "result", d) = IF p.ok THEN Opening(p, d)
                                  ELSE IF Version(p) >= 3008 THEN Reason(d) ELSE <<>>
      BY DEF Later
    <2>4. OrderedFrom(17, Later(p, "result", d))
      BY <2>1, <2>2, <2>3
    <2> QED
      BY <1>5, <2>4, RankValues
  <1>6. CASE at \in {"init", "serverinit", "name"}
    <2>1. Later(p, "name", d) = Screen(p, d)
      BY DEF Later
    <2>2. CASE at = "init"
      BY <2>2, OpeningOrdered, RankValues
    <2>3. CASE at = "serverinit"
      BY <2>3, OpeningOrdered, RankValues
    <2>4. CASE at = "name"
      BY <2>1, <2>4, ScreenOrdered, RankValues
    <2> QED
      BY <1>6, <2>2, <2>3, <2>4
  <1> QED
    BY <1>1, <1>2, <1>3, <1>4, <1>5, <1>6 DEF Points, Exchange, DH

\* which has a size and a value,
LEMMA FieldFacts ==
  ASSUME NEW p \in Session, NEW at \in Points \ {"done"}
  PROVE  at \in DOMAIN Rank /\ Rank[at] \in Nat /\ Size0(p, at) \in Nat /\ Value(p, at) \in Nat /\ Value(p, at) \in Vals
  <1>1. at \in DOMAIN Rank /\ Rank[at] \in Nat
    BY RankFacts DEF Points, Exchange
  <1>2. Size0(p, at) \in Nat
    BY SessionFacts DEF Size0
  <1>3. Value(p, at) \in Nat
    BY SessionFacts DEF Value
  <1> QED
    BY <1>1, <1>2, <1>3 DEF Vals

\* and with it the rest of the session is in order.
LEMMA RestOrdered ==
  ASSUME NEW p \in Session, NEW d, NEW at \in Points \ {"done"}
  PROVE  OrderedFrom(Rank[at], Rest(p, at, d))
  <1>1. PICK r \in Nat : Rank[at] < r /\ OrderedFrom(r, Later(p, at, d))
    BY LaterOrdered
  <1>2. at \in DOMAIN Rank /\ Rank[at] \in Nat /\ Size0(p, at) \in Nat /\ Value(p, at) \in Vals
    BY FieldFacts
  <1> DEFINE n == Size0(p, at)
             v == Value(p, at)
             s == Later(p, at, d)
  <1>3. Rest(p, at, d) = Says(d, at, n, v) \o s
    BY DEF Rest
  <1>4. n \in Nat /\ v \in Vals /\ OrderedFrom(r, s)
    BY <1>1, <1>2
  <1> HIDE DEF n, v, s
  <1>5. Rank[at] <= r /\ Rank[at] <= Rank[at]
    BY <1>1, <1>2
  <1>6. OrderedFrom(Rank[at], Says(d, at, n, v) \o s)
    BY <1>1, <1>2, <1>4, <1>5, OrderedSays
  <1> QED
    BY <1>3, <1>6

-----------------------------------------------------------------------------
(* The scrubber follows the session *)

\* The point a session comes to next.
After(p, at) ==
    CASE at = "version"            -> "reply"
      [] at = "reply"              -> IF p.reply = 0 THEN "done" ELSE IF p.reply >= 3007 THEN "count" ELSE "auth"
      [] at = "count"              -> IF p.sec = INVALID THEN "done" ELSE "types"
      [] at = "types"              -> "choice"
      [] at \in {"choice", "auth"} -> IF p.sec = VNC_AUTHENTICATION THEN "challenge"
                                      ELSE IF p.sec = DIFFIE_HELLMAN THEN "dh"
                                      ELSE IF p.sec # NONE THEN "done"
                                      ELSE IF p.reply < 3008 THEN "init" ELSE "result"
      [] at = "challenge"          -> "response"
      [] at = "dh"                 -> "modulus"
      [] at = "modulus"            -> "serverkey"
      [] at = "serverkey"          -> "credentials"
      [] at = "credentials"        -> "clientkey"
      [] at \in {"response", "clientkey"} -> "result"
      [] at = "result"             -> IF p.ok THEN "init" ELSE "done"
      [] at = "init"               -> "serverinit"
      [] at = "serverinit"         -> "name"
      [] OTHER                     -> "done"

Meets(p, g) == Resume(g, Value(p, g.at))

\* The scrubber resumed with the field it waits for goes where the session goes
\* (HandshakeScrubber._run): through the greeting and the offer,
LEMMA MeetsStart ==
  ASSUME NEW p \in Session, NEW g \in Grammar, Knows(p, g), g.at \in {"version", "reply", "count", "types"}
  PROVE  /\ Meets(p, g) \in Grammar /\ Meets(p, g).preserve = g.preserve
         /\ Meets(p, g).at = After(p, g.at) /\ Knows(p, Meets(p, g)) /\ Nbytes(g) = Size0(p, g.at)
  <1> DEFINE h == Meets(p, g)
  <1>0. PICK r \in Nat, s \in Nat, t \in Nat, k \in Nat :
              p.reply = r /\ p.sec = s /\ p.types = t /\ p.key = k /\ t > 0 /\ p.ok \in BOOLEAN
    BY SessionFacts
  <1>1. CASE g.at = "version"
    <2>0. PICK v : v = Value(p, g.at)
      OBVIOUS
    <2>b. h = Resume(g, v)
      BY <2>0 DEF Meets
    <2>1. h = [g EXCEPT !.at = "reply"]
      BY <1>1, <2>b DEF Resume
    <2>2. h \in Grammar /\ h.at = "reply" /\ h.ver = g.ver /\ h.n = g.n /\ h.sec = g.sec /\ h.sized = g.sized /\ h.abort = g.abort /\ h.preserve = g.preserve
      BY <2>1 DEF Grammar, Points, Exchange
    <2> HIDE DEF h
    <2>3. Knows(p, h)
      BY <1>1, <2>2, <1>0 DEF Knows, Grammar, DH, Strange, Refused, HasResult, Version, INVALID, NONE, VNC_AUTHENTICATION, DIFFIE_HELLMAN
    <2>4. h.at = After(p, g.at)
      BY <1>1, <2>2, <1>0 DEF After, INVALID, NONE, VNC_AUTHENTICATION, DIFFIE_HELLMAN
    <2>5. Nbytes(g) = Size0(p, g.at)
      BY <1>1 DEF Nbytes, Size0, Knows, DH
    <2> QED
      BY <2>2, <2>3, <2>4, <2>5 DEF h
  <1>2. CASE g.at = "reply"
    <2>1. CASE r = 0
      <3>0. PICK v : v = Value(p, g.at)
        OBVIOUS
      <3>a. v = r
        BY <1>2, <2>1, <3>0, <1>0 DEF Value
      <3>b. h = Resume(g, v)
        BY <3>0 DEF Meets
      <3>1. h = [g EXCEPT !.at = "done", !.abort = ~ g.preserve]
        BY <1>2, <2>1, <3>b, <3>a DEF Resume, GiveUp
      <3>2. h \in Grammar /\ h.at = "done" /\ h.ver = g.ver /\ h.n = g.n /\ h.sec = g.sec /\ h.sized = g.sized /\ h.abort = ~ g.preserve /\ h.preserve = g.preserve
        BY <3>1 DEF Grammar, Points, Exchange
      <3> HIDE DEF h
      <3>3. Knows(p, h)
        BY <1>2, <2>1, <3>2, <1>0 DEF Knows, Grammar, DH, Strange, Refused, HasResult, Version, INVALID, NONE, VNC_AUTHENTICATION, DIFFIE_HELLMAN
      <3>4. h.at = After(p, g.at)
        BY <1>2, <2>1, <3>2, <1>0 DEF After, INVALID, NONE, VNC_AUTHENTICATION, DIFFIE_HELLMAN
      <3>5. Nbytes(g) = Size0(p, g.at)
        BY <1>2, <2>1 DEF Nbytes, Size0, Knows, DH
      <3> QED
        BY <3>2, <3>3, <3>4, <3>5 DEF h
    <2>2. CASE r >= 3007
      <3>0. PICK v : v = Value(p, g.at)
        OBVIOUS
      <3>a. v = r
        BY <1>2, <2>2, <3>0, <1>0 DEF Value
      <3>b. h = Resume(g, v)
        BY <3>0 DEF Meets
      <3>1. h = [g EXCEPT !.ver = r, !.at = "count"]
        BY <1>2, <2>2, <3>b, <3>a DEF Resume
      <3>2. h \in Grammar /\ h.at = "count" /\ h.ver = r /\ h.n = g.n /\ h.sec = g.sec /\ h.sized = g.sized /\ h.abort = g.abort /\ h.preserve = g.preserve
        BY <3>1 DEF Grammar, Points, Exchange
      <3> HIDE DEF h
      <3>3. Knows(p, h)
        BY <1>2, <2>2, <3>2, <1>0 DEF Knows, Grammar, DH, Strange, Refused, HasResult, Version, INVALID, NONE, VNC_AUTHENTICATION, DIFFIE_HELLMAN
      <3>4. h.at = After(p, g.at)
        BY <1>2, <2>2, <3>2, <1>0 DEF After, INVALID, NONE, VNC_AUTHENTICATION, DIFFIE_HELLMAN
      <3>5. Nbytes(g) = Size0(p, g.at)
        BY <1>2, <2>2 DEF Nbytes, Size0, Knows, DH
      <3> QED
        BY <3>2, <3>3, <3>4, <3>5 DEF h
    <2>3. CASE r # 0 /\ ~ (r >= 3007)
      <3>0. PICK v : v = Value(p, g.at)
        OBVIOUS
      <3>a. v = r
        BY <1>2, <2>3, <3>0, <1>0 DEF Value
      <3>b. h = Resume(g, v)
        BY <3>0 DEF Meets
      <3>1. h = [g EXCEPT !.ver = r, !.at = "auth"]
        BY <1>2, <2>3, <3>b, <3>a DEF Resume
      <3>2. h \in Grammar /\ h.at = "auth" /\ h.ver = r /\ h.n = g.n /\ h.sec = g.sec /\ h.sized = g.sized /\ h.abort = g.abort /\ h.preserve = g.preserve
        BY <3>1 DEF Grammar, Points, Exchange
      <3> HIDE DEF h
      <3>3. Knows(p, h)
        BY <1>2, <2>3, <3>2, <1>0 DEF Knows, Grammar, DH, Strange, Refused, HasResult, Version, INVALID, NONE, VNC_AUTHENTICATION, DIFFIE_HELLMAN
      <3>4. h.at = After(p, g.at)
        BY <1>2, <2>3, <3>2, <1>0 DEF After, INVALID, NONE, VNC_AUTHENTICATION, DIFFIE_HELLMAN
      <3>5. Nbytes(g) = Size0(p, g.at)
        BY <1>2, <2>3 DEF Nbytes, Size0, Knows, DH
      <3> QED
        BY <3>2, <3>3, <3>4, <3>5 DEF h
    <2> QED
      BY <2>1, <2>2, <2>3
  <1>3. CASE g.at = "count"
    <2>1. CASE s = INVALID
      <3>0. PICK v : v = Value(p, g.at)
        OBVIOUS
      <3>a. v = 0
        BY <1>3, <2>1, <3>0, <1>0 DEF Value
      <3>b. h = Resume(g, v)
        BY <3>0 DEF Meets
      <3>1. h = [g EXCEPT !.at = "done"]
        BY <1>3, <2>1, <3>b, <3>a DEF Resume, INVALID
      <3>2. h \in Grammar /\ h.at = "done" /\ h.ver = g.ver /\ h.n = g.n /\ h.sec = g.sec /\ h.sized = g.sized /\ h.abort = g.abort /\ h.preserve = g.preserve
        BY <3>1 DEF Grammar, Points, Exchange
      <3> HIDE DEF h
      <3>3. Knows(p, h)
        BY <1>3, <2>1, <3>2, <1>0 DEF Knows, Grammar, DH, Strange, Refused, HasResult, Version, INVALID, NONE, VNC_AUTHENTICATION, DIFFIE_HELLMAN
      <3>4. h.at = After(p, g.at)
        BY <1>3, <2>1, <3>2, <1>0 DEF After, INVALID, NONE, VNC_AUTHENTICATION, DIFFIE_HELLMAN
      <3>5. Nbytes(g) = Size0(p, g.at)
        BY <1>3, <2>1 DEF Nbytes, Size0, Knows, DH
      <3> QED
        BY <3>2, <3>3, <3>4, <3>5 DEF h
    <2>2. CASE s # INVALID
      <3>0. PICK v : v = Value(p, g.at)
        OBVIOUS
      <3>a. v = t /\ v # 0
        BY <1>3, <2>2, <3>0, <1>0 DEF Value
      <3>b. h = Resume(g, v)
        BY <3>0 DEF Meets
      <3>1. h = [g EXCEPT !.at = "types", !.n = t]
        BY <1>3, <2>2, <3>b, <3>a DEF Resume, INVALID
      <3>2. h \in Grammar /\ h.at = "types" /\ h.ver = g.ver /\ h.n = t /\ h.sec = g.sec /\ h.sized = g.sized /\ h.abort = g.abort /\ h.preserve = g.preserve
        BY <3>1 DEF Grammar, Points, Exchange
      <3> HIDE DEF h
      <3>3. Knows(p, h)
        BY <1>3, <2>2, <3>2, <1>0 DEF Knows, Grammar, DH, Strange, Refused, HasResult, Version, INVALID, NONE, VNC_AUTHENTICATION, DIFFIE_HELLMAN
      <3>4. h.at = After(p, g.at)
        BY <1>3, <2>2, <3>2, <1>0 DEF After, INVALID, NONE, VNC_AUTHENTICATION, DIFFIE_HELLMAN
      <3>5. Nbytes(g) = Size0(p, g.at)
        BY <1>3, <2>2 DEF Nbytes, Size0, Knows, DH
      <3> QED
        BY <3>2, <3>3, <3>4, <3>5 DEF h
    <2> QED
      BY <2>1, <2>2
  <1>4. CASE g.at = "types"
    <2>0. PICK v : v = Value(p, g.at)
      OBVIOUS
    <2>b. h = Resume(g, v)
      BY <2>0 DEF Meets
    <2>1. h = [g EXCEPT !.at = "choice"]
      BY <1>4, <2>b DEF Resume
    <2>2. h \in Grammar /\ h.at = "choice" /\ h.ver = g.ver /\ h.n = g.n /\ h.sec = g.sec /\ h.sized = g.sized /\ h.abort = g.abort /\ h.preserve = g.preserve
      BY <2>1 DEF Grammar, Points, Exchange
    <2> HIDE DEF h
    <2>3. Knows(p, h)
      BY <1>4, <2>2, <1>0 DEF Knows, Grammar, DH, Strange, Refused, HasResult, Version, INVALID, NONE, VNC_AUTHENTICATION, DIFFIE_HELLMAN
    <2>4. h.at = After(p, g.at)
      BY <1>4, <2>2, <1>0 DEF After, INVALID, NONE, VNC_AUTHENTICATION, DIFFIE_HELLMAN
    <2>5. Nbytes(g) = Size0(p, g.at)
      BY <1>4 DEF Nbytes, Size0, Knows, DH
    <2> QED
      BY <2>2, <2>3, <2>4, <2>5 DEF h
  <1> QED
    BY <1>1, <1>2, <1>3, <1>4

\* through the choice of a security type,
LEMMA MeetsChoice ==
  ASSUME NEW p \in Session, NEW g \in Grammar, Knows(p, g), g.at \in {"choice", "auth"}
  PROVE  /\ Meets(p, g) \in Grammar /\ Meets(p, g).preserve = g.preserve
         /\ Meets(p, g).at = After(p, g.at) /\ Knows(p, Meets(p, g)) /\ Nbytes(g) = Size0(p, g.at)
  <1> DEFINE h == Meets(p, g)
  <1>0. PICK r \in Nat, s \in Nat, t \in Nat, k \in Nat :
              p.reply = r /\ p.sec = s /\ p.types = t /\ p.key = k /\ t > 0 /\ p.ok \in BOOLEAN
    BY SessionFacts
  <1>1. CASE g.at = "choice"
    <2>1. CASE s = VNC_AUTHENTICATION
      <3>0. PICK v : v = Value(p, g.at)
        OBVIOUS
      <3>a. v = s
        BY <1>1, <2>1, <3>0, <1>0 DEF Value
      <3>b. h = Resume(g, v)
        BY <3>0 DEF Meets
      <3>c. h = Authenticate(g, s)
        BY <1>1, <2>1, <3>a, <3>b DEF Resume, INVALID, NONE, VNC_AUTHENTICATION, DIFFIE_HELLMAN
      <3>1. h = [g EXCEPT !.sec = s, !.at = "challenge"]
        BY <1>1, <2>1, <3>c DEF Authenticate, INVALID, NONE, VNC_AUTHENTICATION, DIFFIE_HELLMAN
      <3>2. h \in Grammar /\ h.at = "challenge" /\ h.ver = g.ver /\ h.n = g.n /\ h.sec = s /\ h.sized = g.sized /\ h.abort = g.abort /\ h.preserve = g.preserve
        BY <3>1 DEF Grammar, Points, Exchange
      <3> HIDE DEF h
      <3>3. Knows(p, h)
        BY <1>1, <2>1, <3>2, <1>0 DEF Knows, Grammar, DH, Strange, Refused, HasResult, Version, INVALID, NONE, VNC_AUTHENTICATION, DIFFIE_HELLMAN
      <3>4. h.at = After(p, g.at)
        BY <1>1, <2>1, <3>2, <1>0 DEF After, INVALID, NONE, VNC_AUTHENTICATION, DIFFIE_HELLMAN
      <3>5. Nbytes(g) = Size0(p, g.at)
        BY <1>1, <2>1 DEF Nbytes, Size0, Knows, DH
      <3> QED
        BY <3>2, <3>3, <3>4, <3>5 DEF h
    <2>2. CASE s = DIFFIE_HELLMAN
      <3>0. PICK v : v = Value(p, g.at)
        OBVIOUS
      <3>a. v = s
        BY <1>1, <2>2, <3>0, <1>0 DEF Value
      <3>b. h = Resume(g, v)
        BY <3>0 DEF Meets
      <3>c. h = Authenticate(g, s)
        BY <1>1, <2>2, <3>a, <3>b DEF Resume, INVALID, NONE, VNC_AUTHENTICATION, DIFFIE_HELLMAN
      <3>1. h = [g EXCEPT !.sec = s, !.at = "dh"]
        BY <1>1, <2>2, <3>c DEF Authenticate, INVALID, NONE, VNC_AUTHENTICATION, DIFFIE_HELLMAN
      <3>2. h \in Grammar /\ h.at = "dh" /\ h.ver = g.ver /\ h.n = g.n /\ h.sec = s /\ h.sized = g.sized /\ h.abort = g.abort /\ h.preserve = g.preserve
        BY <3>1 DEF Grammar, Points, Exchange
      <3> HIDE DEF h
      <3>3. Knows(p, h)
        BY <1>1, <2>2, <3>2, <1>0 DEF Knows, Grammar, DH, Strange, Refused, HasResult, Version, INVALID, NONE, VNC_AUTHENTICATION, DIFFIE_HELLMAN
      <3>4. h.at = After(p, g.at)
        BY <1>1, <2>2, <3>2, <1>0 DEF After, INVALID, NONE, VNC_AUTHENTICATION, DIFFIE_HELLMAN
      <3>5. Nbytes(g) = Size0(p, g.at)
        BY <1>1, <2>2 DEF Nbytes, Size0, Knows, DH
      <3> QED
        BY <3>2, <3>3, <3>4, <3>5 DEF h
    <2>3. CASE s = NONE /\ r < 3008
      <3>0. PICK v : v = Value(p, g.at)
        OBVIOUS
      <3>a. v = s
        BY <1>1, <2>3, <3>0, <1>0 DEF Value
      <3>b. h = Resume(g, v)
        BY <3>0 DEF Meets
      <3>c. h = Authenticate(g, s)
        BY <1>1, <2>3, <3>a, <3>b DEF Resume, INVALID, NONE, VNC_AUTHENTICATION, DIFFIE_HELLMAN
      <3>d. [g EXCEPT !.sec = s].ver = r /\ [g EXCEPT !.sec = s].sec = s
        BY <1>1, <2>3, <1>0 DEF Grammar, Knows
      <3>e. h = AfterExchange([g EXCEPT !.sec = s])
        BY <1>1, <2>3, <3>c DEF Authenticate, INVALID, NONE, VNC_AUTHENTICATION, DIFFIE_HELLMAN
      <3>1. h = [g EXCEPT !.sec = s, !.at = "init"]
        BY <1>1, <2>3, <3>d, <3>e DEF AfterExchange
      <3>2. h \in Grammar /\ h.at = "init" /\ h.ver = g.ver /\ h.n = g.n /\ h.sec = s /\ h.sized = g.sized /\ h.abort = g.abort /\ h.preserve = g.preserve
        BY <3>1 DEF Grammar, Points, Exchange
      <3> HIDE DEF h
      <3>3. Knows(p, h)
        BY <1>1, <2>3, <3>2, <1>0 DEF Knows, Grammar, DH, Strange, Refused, HasResult, Version, INVALID, NONE, VNC_AUTHENTICATION, DIFFIE_HELLMAN
      <3>4. h.at = After(p, g.at)
        BY <1>1, <2>3, <3>2, <1>0 DEF After, INVALID, NONE, VNC_AUTHENTICATION, DIFFIE_HELLMAN
      <3>5. Nbytes(g) = Size0(p, g.at)
        BY <1>1, <2>3 DEF Nbytes, Size0, Knows, DH
      <3> QED
        BY <3>2, <3>3, <3>4, <3>5 DEF h
    <2>4. CASE s = NONE /\ ~ (r < 3008)
      <3>0. PICK v : v = Value(p, g.at)
        OBVIOUS
      <3>a. v = s
        BY <1>1, <2>4, <3>0, <1>0 DEF Value
      <3>b. h = Resume(g, v)
        BY <3>0 DEF Meets
      <3>c. h = Authenticate(g, s)
        BY <1>1, <2>4, <3>a, <3>b DEF Resume, INVALID, NONE, VNC_AUTHENTICATION, DIFFIE_HELLMAN
      <3>d. [g EXCEPT !.sec = s].ver = r /\ [g EXCEPT !.sec = s].sec = s
        BY <1>1, <2>4, <1>0 DEF Grammar, Knows
      <3>e. h = AfterExchange([g EXCEPT !.sec = s])
        BY <1>1, <2>4, <3>c DEF Authenticate, INVALID, NONE, VNC_AUTHENTICATION, DIFFIE_HELLMAN
      <3>1. h = [g EXCEPT !.sec = s, !.at = "result"]
        BY <1>1, <2>4, <3>d, <3>e DEF AfterExchange
      <3>2. h \in Grammar /\ h.at = "result" /\ h.ver = g.ver /\ h.n = g.n /\ h.sec = s /\ h.sized = g.sized /\ h.abort = g.abort /\ h.preserve = g.preserve
        BY <3>1 DEF Grammar, Points, Exchange
      <3> HIDE DEF h
      <3>3. Knows(p, h)
        BY <1>1, <2>4, <3>2, <1>0 DEF Knows, Grammar, DH, Strange, Refused, HasResult, Version, INVALID, NONE, VNC_AUTHENTICATION, DIFFIE_HELLMAN
      <3>4. h.at = After(p, g.at)
        BY <1>1, <2>4, <3>2, <1>0 DEF After, INVALID, NONE, VNC_AUTHENTICATION, DIFFIE_HELLMAN
      <3>5. Nbytes(g) = Size0(p, g.at)
        BY <1>1, <2>4 DEF Nbytes, Size0, Knows, DH
      <3> QED
        BY <3>2, <3>3, <3>4, <3>5 DEF h
    <2>5. CASE s \notin {INVALID, NONE, VNC_AUTHENTICATION, DIFFIE_HELLMAN}
      <3>0. PICK v : v = Value(p, g.at)
        OBVIOUS
      <3>a. v = s
        BY <1>1, <2>5, <3>0, <1>0 DEF Value
      <3>b. h = Resume(g, v)
        BY <3>0 DEF Meets
      <3>c. h = Authenticate(g, s)
        BY <1>1, <2>5, <3>a, <3>b DEF Resume, INVALID, NONE, VNC_AUTHENTICATION, DIFFIE_HELLMAN
      <3>d. h = GiveUp([g EXCEPT !.sec = s])
        BY <1>1, <2>5, <3>c DEF Authenticate, INVALID, NONE, VNC_AUTHENTICATION, DIFFIE_HELLMAN
      <3>e. [g EXCEPT !.sec = s].preserve = g.preserve
        BY DEF Grammar
      <3>1. h = [g EXCEPT !.sec = s, !.at = "done", !.abort = ~ g.preserve]
        BY <3>d, <3>e DEF GiveUp
      <3>2. h \in Grammar /\ h.at = "done" /\ h.ver = g.ver /\ h.n = g.n /\ h.sec = s /\ h.sized = g.sized /\ h.abort = ~ g.preserve /\ h.preserve = g.preserve
        BY <3>1 DEF Grammar, Points, Exchange
      <3> HIDE DEF h
      <3>3. Knows(p, h)
        BY <1>1, <2>5, <3>2, <1>0 DEF Knows, Grammar, DH, Strange, Refused, HasResult, Version, INVALID, NONE, VNC_AUTHENTICATION, DIFFIE_HELLMAN
      <3>4. h.at = After(p, g.at)
        BY <1>1, <2>5, <3>2, <1>0 DEF After, INVALID, NONE, VNC_AUTHENTICATION, DIFFIE_HELLMAN
      <3>5. Nbytes(g) = Size0(p, g.at)
        BY <1>1, <2>5 DEF Nbytes, Size0, Knows, DH
      <3> QED
        BY <3>2, <3>3, <3>4, <3>5 DEF h
    <2> QED
      BY <2>1, <2>2, <2>3, <2>4, <2>5, <1>1, <1>0 DEF Knows, INVALID
  <1>2. CASE g.at = "auth"
    <2>1. CASE s = VNC_AUTHENTICATION
      <3>0. PICK v : v = Value(p, g.at)
        OBVIOUS
      <3>a. v = s
        BY <1>2, <2>1, <3>0, <1>0 DEF Value
      <3>b. h = Resume(g, v)
        BY <3>0 DEF Meets
      <3>c. h = Authenticate(g, s)
        BY <1>2, <2>1, <3>a, <3>b DEF Resume, INVALID, NONE, VNC_AUTHENTICATION, DIFFIE_HELLMAN
      <3>1. h = [g EXCEPT !.sec = s, !.at = "challenge"]
        BY <1>2, <2>1, <3>c DEF Authenticate, INVALID, NONE, VNC_AUTHENTICATION, DIFFIE_HELLMAN
      <3>2. h \in Grammar /\ h.at = "challenge" /\ h.ver = g.ver /\ h.n = g.n /\ h.sec = s /\ h.sized = g.sized /\ h.abort = g.abort /\ h.preserve = g.preserve
        BY <3>1 DEF Grammar, Points, Exchange
      <3> HIDE DEF h
      <3>3. Knows(p, h)
        BY <1>2, <2>1, <3>2, <1>0 DEF Knows, Grammar, DH, Strange, Refused, HasResult, Version, INVALID, NONE, VNC_AUTHENTICATION, DIFFIE_HELLMAN
      <3>4. h.at = After(p, g.at)
        BY <1>2, <2>1, <3>2, <1>0 DEF After, INVALID, NONE, VNC_AUTHENTICATION, DIFFIE_HELLMAN
      <3>5. Nbytes(g) = Size0(p, g.at)
        BY <1>2, <2>1 DEF Nbytes, Size0, Knows, DH
      <3> QED
        BY <3>2, <3>3, <3>4, <3>5 DEF h
    <2>2. CASE s = DIFFIE_HELLMAN
      <3>0. PICK v : v = Value(p, g.at)
        OBVIOUS
      <3>a. v = s
        BY <1>2, <2>2, <3>0, <1>0 DEF Value
      <3>b. h = Resume(g, v)
        BY <3>0 DEF Meets
      <3>c. h = Authenticate(g, s)
        BY <1>2, <2>2, <3>a, <3>b DEF Resume, INVALID, NONE, VNC_AUTHENTICATION, DIFFIE_HELLMAN
      <3>1. h = [g EXCEPT !.sec = s, !.at = "dh"]
        BY <1>2, <2>2, <3>c DEF Authenticate, INVALID, NONE, VNC_AUTHENTICATION, DIFFIE_HELLMAN
      <3>2. h \in Grammar /\ h.at = "dh" /\ h.ver = g.ver /\ h.n = g.n /\ h.sec = s /\ h.sized = g.sized /\ h.abort = g.abort /\ h.preserve = g.preserve
        BY <3>1 DEF Grammar, Points, Exchange
      <3> HIDE DEF h
      <3>3. Knows(p, h)
        BY <1>2, <2>2, <3>2, <1>0 DEF Knows, Grammar, DH, Strange, Refused, HasResult, Version, INVALID, NONE, VNC_AUTHENTICATION, DIFFIE_HELLMAN
      <3>4. h.at = After(p, g.at)
        BY <1>2, <2>2, <3>2, <1>0 DEF After, INVALID, NONE, VNC_AUTHENTICATION, DIFFIE_HELLMAN
      <3>5. Nbytes(g) = Size0(p, g.at)
        BY <1>2, <2>2 DEF Nbytes, Size0, Knows, DH
      <3> QED
        BY <3>2, <3>3, <3>4, <3>5 DEF h
    <2>3. CASE s = NONE /\ r < 3008
      <3>0. PICK v : v = Value(p, g.at)
        OBVIOUS
      <3>a. v = s
        BY <1>2, <2>3, <3>0, <1>0 DEF Value
      <3>b. h = Resume(g, v)
        BY <3>0 DEF Meets
      <3>c. h = Authenticate(g, s)
        BY <1>2, <2>3, <3>a, <3>b DEF Resume, INVALID, NONE, VNC_AUTHENTICATION, DIFFIE_HELLMAN
      <3>d. [g EXCEPT !.sec = s].ver = r /\ [g EXCEPT !.sec = s].sec = s
        BY <1>2, <2>3, <1>0 DEF Grammar, Knows
      <3>e. h = AfterExchange([g EXCEPT !.sec = s])
        BY <1>2, <2>3, <3>c DEF Authenticate, INVALID, NONE, VNC_AUTHENTICATION, DIFFIE_HELLMAN
      <3>1. h = [g EXCEPT !.sec = s, !.at = "init"]
        BY <1>2, <2>3, <3>d, <3>e DEF AfterExchange
      <3>2. h \in Grammar /\ h.at = "init" /\ h.ver = g.ver /\ h.n = g.n /\ h.sec = s /\ h.sized = g.sized /\ h.abort = g.abort /\ h.preserve = g.preserve
        BY <3>1 DEF Grammar, Points, Exchange
      <3> HIDE DEF h
      <3>3. Knows(p, h)
        BY <1>2, <2>3, <3>2, <1>0 DEF Knows, Grammar, DH, Strange, Refused, HasResult, Version, INVALID, NONE, VNC_AUTHENTICATION, DIFFIE_HELLMAN
      <3>4. h.at = After(p, g.at)
        BY <1>2, <2>3, <3>2, <1>0 DEF After, INVALID, NONE, VNC_AUTHENTICATION, DIFFIE_HELLMAN
      <3>5. Nbytes(g) = Size0(p, g.at)
        BY <1>2, <2>3 DEF Nbytes, Size0, Knows, DH
      <3> QED
        BY <3>2, <3>3, <3>4, <3>5 DEF h
    <2>4. CASE s = NONE /\ ~ (r < 3008)
      <3>0. PICK v : v = Value(p, g.at)
        OBVIOUS
      <3>a. v = s
        BY <1>2, <2>4, <3>0, <1>0 DEF Value
      <3>b. h = Resume(g, v)
        BY <3>0 DEF Meets
      <3>c. h = Authenticate(g, s)
        BY <1>2, <2>4, <3>a, <3>b DEF Resume, INVALID, NONE, VNC_AUTHENTICATION, DIFFIE_HELLMAN
      <3>d. [g EXCEPT !.sec = s].ver = r /\ [g EXCEPT !.sec = s].sec = s
        BY <1>2, <2>4, <1>0 DEF Grammar, Knows
      <3>e. h = AfterExchange([g EXCEPT !.sec = s])
        BY <1>2, <2>4, <3>c DEF Authenticate, INVALID, NONE, VNC_AUTHENTICATION, DIFFIE_HELLMAN
      <3>1. h = [g EXCEPT !.sec = s, !.at = "result"]
        BY <1>2, <2>4, <3>d, <3>e DEF AfterExchange
      <3>2. h \in Grammar /\ h.at = "result" /\ h.ver = g.ver /\ h.n = g.n /\ h.sec = s /\ h.sized = g.sized /\ h.abort = g.abort /\ h.preserve = g.preserve
        BY <3>1 DEF Grammar, Points, Exchange
      <3> HIDE DEF h
      <3>3. Knows(p, h)
        BY <1>2, <2>4, <3>2, <1>0 DEF Knows, Grammar, DH, Strange, Refused, HasResult, Version, INVALID, NONE, VNC_AUTHENTICATION, DIFFIE_HELLMAN
      <3>4. h.at = After(p, g.at)
        BY <1>2, <2>4, <3>2, <1>0 DEF After, INVALID, NONE, VNC_AUTHENTICATION, DIFFIE_HELLMAN
      <3>5. Nbytes(g) = Size0(p, g.at)
        BY <1>2, <2>4 DEF Nbytes, Size0, Knows, DH
      <3> QED
        BY <3>2, <3>3, <3>4, <3>5 DEF h
    <2>5. CASE s \notin {INVALID, NONE, VNC_AUTHENTICATION, DIFFIE_HELLMAN}
      <3>0. PICK v : v = Value(p, g.at)
        OBVIOUS
      <3>a. v = s
        BY <1>2, <2>5, <3>0, <1>0 DEF Value
      <3>b. h = Resume(g, v)
        BY <3>0 DEF Meets
      <3>c. h = Authenticate(g, s)
        BY <1>2, <2>5, <3>a, <3>b DEF Resume, INVALID, NONE, VNC_AUTHENTICATION, DIFFIE_HELLMAN
      <3>d. h = GiveUp([g EXCEPT !.sec = s])
        BY <1>2, <2>5, <3>c DEF Authenticate, INVALID, NONE, VNC_AUTHENTICATION, DIFFIE_HELLMAN
      <3>e. [g EXCEPT !.sec = s].preserve = g.preserve
        BY DEF Grammar
      <3>1. h = [g EXCEPT !.sec = s, !.at = "done", !.abort = ~ g.preserve]
        BY <3>d, <3>e DEF GiveUp
      <3>2. h \in Grammar /\ h.at = "done" /\ h.ver = g.ver /\ h.n = g.n /\ h.sec = s /\ h.sized = g.sized /\ h.abort = ~ g.preserve /\ h.preserve = g.preserve
        BY <3>1 DEF Grammar, Points, Exchange
      <3> HIDE DEF h
      <3>3. Knows(p, h)
        BY <1>2, <2>5, <3>2, <1>0 DEF Knows, Grammar, DH, Strange, Refused, HasResult, Version, INVALID, NONE, VNC_AUTHENTICATION, DIFFIE_HELLMAN
      <3>4. h.at = After(p, g.at)
        BY <1>2, <2>5, <3>2, <1>0 DEF After, INVALID, NONE, VNC_AUTHENTICATION, DIFFIE_HELLMAN
      <3>5. Nbytes(g) = Size0(p, g.at)
        BY <1>2, <2>5 DEF Nbytes, Size0, Knows, DH
      <3> QED
        BY <3>2, <3>3, <3>4, <3>5 DEF h
    <2>6. CASE s = INVALID
      <3>0. PICK v : v = Value(p, g.at)
        OBVIOUS
      <3>a. v = s
        BY <1>2, <2>6, <3>0, <1>0 DEF Value
      <3>b. h = Resume(g, v)
        BY <3>0 DEF Meets
      <3>1. h = [g EXCEPT !.at = "done"]
        BY <1>2, <2>6, <3>a, <3>b DEF Resume
      <3>2. h \in Grammar /\ h.at = "done" /\ h.ver = g.ver /\ h.n = g.n /\ h.sec = g.sec /\ h.sized = g.sized /\ h.abort = g.abort /\ h.preserve = g.preserve
        BY <3>1 DEF Grammar, Points, Exchange
      <3> HIDE DEF h
      <3>3. Knows(p, h)
        BY <1>2, <2>6, <3>2, <1>0 DEF Knows, Grammar, DH, Strange, Refused, HasResult, Version, INVALID, NONE, VNC_AUTHENTICATION, DIFFIE_HELLMAN
      <3>4. h.at = After(p, g.at)
        BY <1>2, <2>6, <3>2, <1>0 DEF After, INVALID, NONE, VNC_AUTHENTICATION, DIFFIE_HELLMAN
      <3>5. Nbytes(g) = Size0(p, g.at)
        BY <1>2, <2>6 DEF Nbytes, Size0, Knows, DH
      <3> QED
        BY <3>2, <3>3, <3>4, <3>5 DEF h
    <2> QED
      BY <2>1, <2>2, <2>3, <2>4, <2>5, <2>6
  <1> QED
    BY <1>1, <1>2

\* through the exchange,
LEMMA MeetsExchange ==
  ASSUME NEW p \in Session, NEW g \in Grammar, Knows(p, g), g.at \in {"challenge", "response", "dh", "modulus", "serverkey", "credentials", "clientkey"}
  PROVE  /\ Meets(p, g) \in Grammar /\ Meets(p, g).preserve = g.preserve
         /\ Meets(p, g).at = After(p, g.at) /\ Knows(p, Meets(p, g)) /\ Nbytes(g) = Size0(p, g.at)
  <1> DEFINE h == Meets(p, g)
  <1>0. PICK r \in Nat, s \in Nat, t \in Nat, k \in Nat :
              p.reply = r /\ p.sec = s /\ p.types = t /\ p.key = k /\ t > 0 /\ p.ok \in BOOLEAN
    BY SessionFacts
  <1>1. CASE g.at = "challenge"
    <2>0. PICK v : v = Value(p, g.at)
      OBVIOUS
    <2>b. h = Resume(g, v)
      BY <2>0 DEF Meets
    <2>1. h = [g EXCEPT !.at = "response"]
      BY <1>1, <2>b DEF Resume
    <2>2. h \in Grammar /\ h.at = "response" /\ h.ver = g.ver /\ h.n = g.n /\ h.sec = g.sec /\ h.sized = g.sized /\ h.abort = g.abort /\ h.preserve = g.preserve
      BY <2>1 DEF Grammar, Points, Exchange
    <2> HIDE DEF h
    <2>3. Knows(p, h)
      BY <1>1, <2>2, <1>0 DEF Knows, Grammar, DH, Strange, Refused, HasResult, Version, INVALID, NONE, VNC_AUTHENTICATION, DIFFIE_HELLMAN
    <2>4. h.at = After(p, g.at)
      BY <1>1, <2>2, <1>0 DEF After, INVALID, NONE, VNC_AUTHENTICATION, DIFFIE_HELLMAN
    <2>5. Nbytes(g) = Size0(p, g.at)
      BY <1>1 DEF Nbytes, Size0, Knows, DH
    <2> QED
      BY <2>2, <2>3, <2>4, <2>5 DEF h
  <1>2. CASE g.at = "response"
    <2>0. PICK v : v = Value(p, g.at)
      OBVIOUS
    <2>b. h = Resume(g, v)
      BY <2>0 DEF Meets
    <2>c. g.sec # NONE
      BY <1>2, <1>0 DEF Knows, DH, NONE, VNC_AUTHENTICATION, DIFFIE_HELLMAN
    <2>1. h = [g EXCEPT !.at = "result"]
      BY <1>2, <2>b, <2>c DEF Resume, AfterExchange
    <2>2. h \in Grammar /\ h.at = "result" /\ h.ver = g.ver /\ h.n = g.n /\ h.sec = g.sec /\ h.sized = g.sized /\ h.abort = g.abort /\ h.preserve = g.preserve
      BY <2>1 DEF Grammar, Points, Exchange
    <2> HIDE DEF h
    <2>3. Knows(p, h)
      BY <1>2, <2>2, <1>0 DEF Knows, Grammar, DH, Strange, Refused, HasResult, Version, INVALID, NONE, VNC_AUTHENTICATION, DIFFIE_HELLMAN
    <2>4. h.at = After(p, g.at)
      BY <1>2, <2>2, <1>0 DEF After, INVALID, NONE, VNC_AUTHENTICATION, DIFFIE_HELLMAN
    <2>5. Nbytes(g) = Size0(p, g.at)
      BY <1>2 DEF Nbytes, Size0, Knows, DH
    <2> QED
      BY <2>2, <2>3, <2>4, <2>5 DEF h
  <1>3. CASE g.at = "dh"
    <2>0. PICK v : v = Value(p, g.at)
      OBVIOUS
    <2>a. v = k
      BY <1>3, <2>0, <1>0 DEF Value
    <2>b. h = Resume(g, v)
      BY <2>0 DEF Meets
    <2>1. h = [g EXCEPT !.at = "modulus", !.n = k]
      BY <1>3, <2>b, <2>a DEF Resume
    <2>2. h \in Grammar /\ h.at = "modulus" /\ h.ver = g.ver /\ h.n = k /\ h.sec = g.sec /\ h.sized = g.sized /\ h.abort = g.abort /\ h.preserve = g.preserve
      BY <2>1 DEF Grammar, Points, Exchange
    <2> HIDE DEF h
    <2>3. Knows(p, h)
      BY <1>3, <2>2, <1>0 DEF Knows, Grammar, DH, Strange, Refused, HasResult, Version, INVALID, NONE, VNC_AUTHENTICATION, DIFFIE_HELLMAN
    <2>4. h.at = After(p, g.at)
      BY <1>3, <2>2, <1>0 DEF After, INVALID, NONE, VNC_AUTHENTICATION, DIFFIE_HELLMAN
    <2>5. Nbytes(g) = Size0(p, g.at)
      BY <1>3 DEF Nbytes, Size0, Knows, DH
    <2> QED
      BY <2>2, <2>3, <2>4, <2>5 DEF h
  <1>4. CASE g.at = "modulus"
    <2>0. PICK v : v = Value(p, g.at)
      OBVIOUS
    <2>b. h = Resume(g, v)
      BY <2>0 DEF Meets
    <2>1. h = [g EXCEPT !.at = "serverkey"]
      BY <1>4, <2>b DEF Resume
    <2>2. h \in Grammar /\ h.at = "serverkey" /\ h.ver = g.ver /\ h.n = g.n /\ h.sec = g.sec /\ h.sized = g.sized /\ h.abort = g.abort /\ h.preserve = g.preserve
      BY <2>1 DEF Grammar, Points, Exchange
    <2> HIDE DEF h
    <2>3. Knows(p, h)
      BY <1>4, <2>2, <1>0 DEF Knows, Grammar, DH, Strange, Refused, HasResult, Version, INVALID, NONE, VNC_AUTHENTICATION, DIFFIE_HELLMAN
    <2>4. h.at = After(p, g.at)
      BY <1>4, <2>2, <1>0 DEF After, INVALID, NONE, VNC_AUTHENTICATION, DIFFIE_HELLMAN
    <2>5. Nbytes(g) = Size0(p, g.at)
      BY <1>4 DEF Nbytes, Size0, Knows, DH
    <2> QED
      BY <2>2, <2>3, <2>4, <2>5 DEF h
  <1>5. CASE g.at = "serverkey"
    <2>0. PICK v : v = Value(p, g.at)
      OBVIOUS
    <2>b. h = Resume(g, v)
      BY <2>0 DEF Meets
    <2>1. h = [g EXCEPT !.at = "credentials"]
      BY <1>5, <2>b DEF Resume
    <2>2. h \in Grammar /\ h.at = "credentials" /\ h.ver = g.ver /\ h.n = g.n /\ h.sec = g.sec /\ h.sized = g.sized /\ h.abort = g.abort /\ h.preserve = g.preserve
      BY <2>1 DEF Grammar, Points, Exchange
    <2> HIDE DEF h
    <2>3. Knows(p, h)
      BY <1>5, <2>2, <1>0 DEF Knows, Grammar, DH, Strange, Refused, HasResult, Version, INVALID, NONE, VNC_AUTHENTICATION, DIFFIE_HELLMAN
    <2>4. h.at = After(p, g.at)
      BY <1>5, <2>2, <1>0 DEF After, INVALID, NONE, VNC_AUTHENTICATION, DIFFIE_HELLMAN
    <2>5. Nbytes(g) = Size0(p, g.at)
      BY <1>5 DEF Nbytes, Size0, Knows, DH
    <2> QED
      BY <2>2, <2>3, <2>4, <2>5 DEF h
  <1>6. CASE g.at = "credentials"
    <2>0. PICK v : v = Value(p, g.at)
      OBVIOUS
    <2>b. h = Resume(g, v)
      BY <2>0 DEF Meets
    <2>1. h = [g EXCEPT !.at = "clientkey"]
      BY <1>6, <2>b DEF Resume
    <2>2. h \in Grammar /\ h.at = "clientkey" /\ h.ver = g.ver /\ h.n = g.n /\ h.sec = g.sec /\ h.sized = g.sized /\ h.abort = g.abort /\ h.preserve = g.preserve
      BY <2>1 DEF Grammar, Points, Exchange
    <2> HIDE DEF h
    <2>3. Knows(p, h)
      BY <1>6, <2>2, <1>0 DEF Knows, Grammar, DH, Strange, Refused, HasResult, Version, INVALID, NONE, VNC_AUTHENTICATION, DIFFIE_HELLMAN
    <2>4. h.at = After(p, g.at)
      BY <1>6, <2>2, <1>0 DEF After, INVALID, NONE, VNC_AUTHENTICATION, DIFFIE_HELLMAN
    <2>5. Nbytes(g) = Size0(p, g.at)
      BY <1>6 DEF Nbytes, Size0, Knows, DH
    <2> QED
      BY <2>2, <2>3, <2>4, <2>5 DEF h
  <1>7. CASE g.at = "clientkey"
    <2>0. PICK v : v = Value(p, g.at)
      OBVIOUS
    <2>b. h = Resume(g, v)
      BY <2>0 DEF Meets
    <2>c. g.sec # NONE
      BY <1>7, <1>0 DEF Knows, DH, NONE, VNC_AUTHENTICATION, DIFFIE_HELLMAN
    <2>1. h = [g EXCEPT !.at = "result"]
      BY <1>7, <2>b, <2>c DEF Resume, AfterExchange
    <2>2. h \in Grammar /\ h.at = "result" /\ h.ver = g.ver /\ h.n = g.n /\ h.sec = g.sec /\ h.sized = g.sized /\ h.abort = g.abort /\ h.preserve = g.preserve
      BY <2>1 DEF Grammar, Points, Exchange
    <2> HIDE DEF h
    <2>3. Knows(p, h)
      BY <1>7, <2>2, <1>0 DEF Knows, Grammar, DH, Strange, Refused, HasResult, Version, INVALID, NONE, VNC_AUTHENTICATION, DIFFIE_HELLMAN
    <2>4. h.at = After(p, g.at)
      BY <1>7, <2>2, <1>0 DEF After, INVALID, NONE, VNC_AUTHENTICATION, DIFFIE_HELLMAN
    <2>5. Nbytes(g) = Size0(p, g.at)
      BY <1>7 DEF Nbytes, Size0, Knows, DH
    <2> QED
      BY <2>2, <2>3, <2>4, <2>5 DEF h
  <1> QED
    BY <1>1, <1>2, <1>3, <1>4, <1>5, <1>6, <1>7

\* from the result on,
LEMMA MeetsEnd ==
  ASSUME NEW p \in Session, NEW g \in Grammar, Knows(p, g), g.at \in {"result", "init", "serverinit", "name"}
  PROVE  /\ Meets(p, g) \in Grammar /\ Meets(p, g).preserve = g.preserve
         /\ Meets(p, g).at = After(p, g.at) /\ Knows(p, Meets(p, g)) /\ Nbytes(g) = Size0(p, g.at)
  <1> DEFINE h == Meets(p, g)
  <1>0. PICK r \in Nat, s \in Nat, t \in Nat, k \in Nat :
              p.reply = r /\ p.sec = s /\ p.types = t /\ p.key = k /\ t > 0 /\ p.ok \in BOOLEAN
    BY SessionFacts
  <1>1. CASE g.at = "result"
    <2>1. CASE p.ok
      <3>0. PICK v : v = Value(p, g.at)
        OBVIOUS
      <3>a. v = IF p.ok THEN 0 ELSE 1
        BY <1>1, <2>1, <3>0, <1>0 DEF Value
      <3>b. h = Resume(g, v)
        BY <3>0 DEF Meets
      <3>1. h = [g EXCEPT !.at = "init"]
        BY <1>1, <2>1, <3>b, <3>a DEF Resume
      <3>2. h \in Grammar /\ h.at = "init" /\ h.ver = g.ver /\ h.n = g.n /\ h.sec = g.sec /\ h.sized = g.sized /\ h.abort = g.abort /\ h.preserve = g.preserve
        BY <3>1 DEF Grammar, Points, Exchange
      <3> HIDE DEF h
      <3>3. Knows(p, h)
        BY <1>1, <2>1, <3>2, <1>0 DEF Knows, Grammar, DH, Strange, Refused, HasResult, Version, INVALID, NONE, VNC_AUTHENTICATION, DIFFIE_HELLMAN
      <3>4. h.at = After(p, g.at)
        BY <1>1, <2>1, <3>2, <1>0 DEF After, INVALID, NONE, VNC_AUTHENTICATION, DIFFIE_HELLMAN
      <3>5. Nbytes(g) = Size0(p, g.at)
        BY <1>1, <2>1 DEF Nbytes, Size0, Knows, DH
      <3> QED
        BY <3>2, <3>3, <3>4, <3>5 DEF h
    <2>2. CASE ~ p.ok
      <3>0. PICK v : v = Value(p, g.at)
        OBVIOUS
      <3>a. v = IF p.ok THEN 0 ELSE 1
        BY <1>1, <2>2, <3>0, <1>0 DEF Value
      <3>b. h = Resume(g, v)
        BY <3>0 DEF Meets
      <3>1. h = [g EXCEPT !.at = "done"]
        BY <1>1, <2>2, <3>b, <3>a DEF Resume
      <3>2. h \in Grammar /\ h.at = "done" /\ h.ver = g.ver /\ h.n = g.n /\ h.sec = g.sec /\ h.sized = g.sized /\ h.abort = g.abort /\ h.preserve = g.preserve
        BY <3>1 DEF Grammar, Points, Exchange
      <3> HIDE DEF h
      <3>3. Knows(p, h)
        BY <1>1, <2>2, <3>2, <1>0 DEF Knows, Grammar, DH, Strange, Refused, HasResult, Version, INVALID, NONE, VNC_AUTHENTICATION, DIFFIE_HELLMAN
      <3>4. h.at = After(p, g.at)
        BY <1>1, <2>2, <3>2, <1>0 DEF After, INVALID, NONE, VNC_AUTHENTICATION, DIFFIE_HELLMAN
      <3>5. Nbytes(g) = Size0(p, g.at)
        BY <1>1, <2>2 DEF Nbytes, Size0, Knows, DH
      <3> QED
        BY <3>2, <3>3, <3>4, <3>5 DEF h
    <2> QED
      BY <2>1, <2>2
  <1>2. CASE g.at = "init"
    <2>0. PICK v : v = Value(p, g.at)
      OBVIOUS
    <2>b. h = Resume(g, v)
      BY <2>0 DEF Meets
    <2>1. h = [g EXCEPT !.at = "serverinit"]
      BY <1>2, <2>b DEF Resume
    <2>2. h \in Grammar /\ h.at = "serverinit" /\ h.ver = g.ver /\ h.n = g.n /\ h.sec = g.sec /\ h.sized = g.sized /\ h.abort = g.abort /\ h.preserve = g.preserve
      BY <2>1 DEF Grammar, Points, Exchange
    <2> HIDE DEF h
    <2>3. Knows(p, h)
      BY <1>2, <2>2, <1>0 DEF Knows, Grammar, DH, Strange, Refused, HasResult, Version, INVALID, NONE, VNC_AUTHENTICATION, DIFFIE_HELLMAN
    <2>4. h.at = After(p, g.at)
      BY <1>2, <2>2, <1>0 DEF After, INVALID, NONE, VNC_AUTHENTICATION, DIFFIE_HELLMAN
    <2>5. Nbytes(g) = Size0(p, g.at)
      BY <1>2 DEF Nbytes, Size0, Knows, DH
    <2> QED
      BY <2>2, <2>3, <2>4, <2>5 DEF h
  <1>3. CASE g.at = "serverinit"
    <2>0. PICK v : v = Value(p, g.at)
      OBVIOUS
    <2>a. v = 2
      BY <1>3, <2>0, <1>0 DEF Value
    <2>b. h = Resume(g, v)
      BY <2>0 DEF Meets
    <2>c. h = [[g EXCEPT !.at = IF v = 0 THEN "done" ELSE "name", !.n = v] EXCEPT !.sized = TRUE]
      BY <1>3, <2>b DEF Resume
    <2>d. PICK w \in Points : w = (IF v = 0 THEN "done" ELSE "name") /\ w = "name"
      BY <2>a DEF Points
    <2>e. h = [[g EXCEPT !.at = w, !.n = v] EXCEPT !.sized = TRUE] /\ v \in Nat
      BY <2>a, <2>c, <2>d
    <2>f. h \in Grammar /\ h.at = w /\ h.ver = g.ver /\ h.n = v /\ h.sec = g.sec /\ h.sized = TRUE /\ h.abort = g.abort /\ h.preserve = g.preserve
      BY <2>e DEF Grammar
    <2>2. h \in Grammar /\ h.at = "name" /\ h.ver = g.ver /\ h.n = 2 /\ h.sec = g.sec /\ h.sized = TRUE /\ h.abort = g.abort /\ h.preserve = g.preserve
      BY <2>a, <2>d, <2>f
    <2> HIDE DEF h
    <2>3. Knows(p, h)
      BY <1>3, <2>2, <1>0 DEF Knows, Grammar, DH, Strange, Refused, HasResult, Version, INVALID, NONE, VNC_AUTHENTICATION, DIFFIE_HELLMAN
    <2>4. h.at = After(p, g.at)
      BY <1>3, <2>2, <1>0 DEF After, INVALID, NONE, VNC_AUTHENTICATION, DIFFIE_HELLMAN
    <2>5. Nbytes(g) = Size0(p, g.at)
      BY <1>3 DEF Nbytes, Size0, Knows, DH
    <2> QED
      BY <2>2, <2>3, <2>4, <2>5 DEF h
  <1>4. CASE g.at = "name"
    <2>0. PICK v : v = Value(p, g.at)
      OBVIOUS
    <2>b. h = Resume(g, v)
      BY <2>0 DEF Meets
    <2>1. h = [g EXCEPT !.at = "done"]
      BY <1>4, <2>b DEF Resume
    <2>2. h \in Grammar /\ h.at = "done" /\ h.ver = g.ver /\ h.n = g.n /\ h.sec = g.sec /\ h.sized = g.sized /\ h.abort = g.abort /\ h.preserve = g.preserve
      BY <2>1 DEF Grammar, Points, Exchange
    <2> HIDE DEF h
    <2>3. Knows(p, h)
      BY <1>4, <2>2, <1>0 DEF Knows, Grammar, DH, Strange, Refused, HasResult, Version, INVALID, NONE, VNC_AUTHENTICATION, DIFFIE_HELLMAN
    <2>4. h.at = After(p, g.at)
      BY <1>4, <2>2, <1>0 DEF After, INVALID, NONE, VNC_AUTHENTICATION, DIFFIE_HELLMAN
    <2>5. Nbytes(g) = Size0(p, g.at)
      BY <1>4 DEF Nbytes, Size0, Knows, DH
    <2> QED
      BY <2>2, <2>3, <2>4, <2>5 DEF h
  <1> QED
    BY <1>1, <1>2, <1>3, <1>4

\* and so at every point it has not ended at.
LEMMA MeetsNext ==
  ASSUME NEW p \in Session, NEW g \in Grammar, Knows(p, g), g.at # "done"
  PROVE  /\ Meets(p, g) \in Grammar /\ Meets(p, g).preserve = g.preserve
         /\ Meets(p, g).at = After(p, g.at) /\ Knows(p, Meets(p, g)) /\ Nbytes(g) = Size0(p, g.at)
  <1>1. g.at \in Points
    BY DEF Grammar
  <1>2. \/ g.at \in {"version", "reply", "count", "types"} \/ g.at \in {"choice", "auth"}
        \/ g.at \in {"challenge", "response", "dh", "modulus", "serverkey", "credentials", "clientkey"}
        \/ g.at \in {"result", "init", "serverinit", "name"}
    BY <1>1 DEF Points, Exchange
  <1>3. CASE g.at \in {"version", "reply", "count", "types"}
    BY <1>3, MeetsStart
  <1>4. CASE g.at \in {"choice", "auth"}
    BY <1>4, MeetsChoice
  <1>5. CASE g.at \in {"challenge", "response", "dh", "modulus", "serverkey", "credentials", "clientkey"}
    BY <1>5, MeetsExchange
  <1>6. CASE g.at \in {"result", "init", "serverinit", "name"}
    BY <1>6, MeetsEnd
  <1> QED
    BY <1>2, <1>3, <1>4, <1>5, <1>6

-----------------------------------------------------------------------------
(* The rest of a session *)

\* What a session still says at a point it comes to by itself: at ClientInit,
LEMMA OpeningRest == \A p, d : Rest(p, "init", d) = Opening(p, d)
  <1> TAKE p, d
  <1>1. /\ Later(p, "init", d) = Says(d, "serverinit", 24, 2) \o Later(p, "serverinit", d)
        /\ Later(p, "serverinit", d) = Says(d, "name", 2, 0) \o Later(p, "name", d) /\ Later(p, "name", d) = Screen(p, d)
    <2>1. Later(p, "init", d) = Says(d, "serverinit", 24, 2) \o (Says(d, "name", 2, 0) \o Screen(p, d))
      BY DEF Later
    <2>2. Later(p, "serverinit", d) = Says(d, "name", 2, 0) \o Screen(p, d)
      BY DEF Later
    <2>3. Later(p, "name", d) = Screen(p, d)
      BY DEF Later
    <2> QED
      BY <2>1, <2>2, <2>3
  <1>2. Rest(p, "init", d) = Says(d, "init", 1, 1) \o Later(p, "init", d)
    <2>r1. Size0(p, "init") = 1 /\ Value(p, "init") = 1
      BY DEF Size0, Value
    <2> QED
      BY <2>r1 DEF Rest
  <1> QED
    BY <1>1, <1>2 DEF Opening

\* at the result,
LEMMA VerdictRest == \A p, d : HasResult(p) => Verdict(p, d) = Rest(p, "result", d)
  <1> TAKE p, d
  <1>1. Later(p, "result", d) = IF p.ok THEN Opening(p, d) ELSE IF Version(p) >= 3008 THEN Reason(d) ELSE <<>>
    BY DEF Later
  <1>2. Rest(p, "result", d) = Says(d, "result", 4, IF p.ok THEN 0 ELSE 1) \o Later(p, "result", d)
    <2>r1. Size0(p, "result") = 4 /\ Value(p, "result") = (IF p.ok THEN 0 ELSE 1)
      BY DEF Size0, Value
    <2> QED
      BY <2>r1 DEF Rest
  <1>3. CASE p.ok
    BY <1>1, <1>2, <1>3 DEF Verdict
  <1>4. CASE ~ p.ok
    BY <1>1, <1>2, <1>4 DEF Verdict
  <1> QED
    BY <1>3, <1>4

\* and at the security types.
LEMMA OfferRest ==
  ASSUME NEW p, NEW d
  PROVE  Offer(p, d) = IF Version(p) < 3007 THEN Rest(p, "auth", d) ELSE Rest(p, "count", d)
  <1> DEFINE after == IF p.sec = INVALID THEN Reason(d) ELSE Proof(p, d)
             early == Says(d, "auth", 4, p.sec) \o after
             late  == IF p.sec = INVALID THEN Says(d, "count", 1, 0) \o Reason(d)
                      ELSE Says(d, "count", 1, p.types) \o (Says(d, "types", p.types, p.sec) \o
                               (Says(d, "choice", 1, p.sec) \o Proof(p, d)))
  <1>1. Offer(p, d) = IF Version(p) < 3007 THEN early ELSE late
    BY DEF Offer
  <1>2. early = Rest(p, "auth", d)
    <2>1. Size0(p, "auth") = 4 /\ Value(p, "auth") = p.sec
      BY DEF Size0, Value
    <2>2. Later(p, "auth", d) = after
      BY DEF Later
    <2> HIDE DEF after
    <2> QED
      BY <2>1, <2>2 DEF Rest
  <1>3. late = Rest(p, "count", d)
    <2>1. Size0(p, "count") = 1 /\ Value(p, "count") = (IF p.sec = INVALID THEN 0 ELSE p.types)
      BY DEF Size0, Value
    <2>2. Later(p, "count", d) = IF p.sec = INVALID THEN Reason(d)
                                 ELSE Says(d, "types", p.types, p.sec) \o (Says(d, "choice", 1, p.sec) \o Proof(p, d))
      BY DEF Later
    <2>3. Rest(p, "count", d) = Says(d, "count", 1, Value(p, "count")) \o Later(p, "count", d)
      BY <2>1 DEF Rest
    <2>4. CASE p.sec = INVALID
      BY <2>1, <2>2, <2>3, <2>4
    <2>5. CASE p.sec # INVALID
      BY <2>1, <2>2, <2>3, <2>5
    <2> QED
      BY <2>4, <2>5
  <1> HIDE DEF early, late
  <1> QED
    BY <1>1, <1>2, <1>3

\* What follows a field is the rest of the session at the scrubber's next point,
\* unless the scrubber gives up.
LEMMA LaterRest ==
  ASSUME NEW p \in Session, NEW d, NEW g \in Grammar, Knows(p, g), g.at # "done",
         After(p, g.at) # "done" \/ ~ Strange(p)
  PROVE  Later(p, g.at, d) = Rest(p, After(p, g.at), d)
  <1> DEFINE at == g.at
  <1>0. PICK r \in Nat, s \in Nat : p.reply = r /\ p.sec = s /\ p.ok \in BOOLEAN
    BY SessionFacts
  <1>1. CASE at = "version"
    <2>1. After(p, at) = "reply"
      BY <1>1 DEF After
    <2>2. Later(p, "version", d) = Says(d, "reply", 12, p.reply) \o Later(p, "reply", d)
      <3>1. Later(p, "version", d) = Says(d, "reply", 12, p.reply) \o Offer(p, d)
        BY DEF Later
      <3>2. Later(p, "reply", d) = Offer(p, d)
        BY DEF Later
      <3> QED
        BY <3>1, <3>2
    <2>3. Rest(p, "reply", d) = Says(d, "reply", 12, p.reply) \o Later(p, "reply", d)
      <3>r1. Size0(p, "reply") = 12 /\ Value(p, "reply") = p.reply
        BY DEF Size0, Value
      <3> QED
        BY <3>r1 DEF Rest
    <2> QED
      BY <1>1, <2>1, <2>2, <2>3
  <1>2. CASE at = "reply"
    <2>1. r # 0
      BY <1>2, <1>0 DEF Strange, After
    <2>2. Later(p, "reply", d) = Offer(p, d)
      BY DEF Later
    <2>a. Version(p) = r
      BY <1>0, <2>1 DEF Version
    <2>3. CASE r >= 3007
      <3>1. After(p, at) = "count"
        BY <1>0, <1>2, <2>1, <2>3 DEF After
      <3>2. Offer(p, d) = Rest(p, "count", d)
        BY <2>a, <2>3, OfferRest
      <3> QED
        BY <1>2, <2>2, <3>1, <3>2
    <2>4. CASE ~ (r >= 3007)
      <3>1. After(p, at) = "auth"
        BY <1>0, <1>2, <2>1, <2>4 DEF After
      <3>2. Offer(p, d) = Rest(p, "auth", d)
        BY <2>a, <2>4, OfferRest
      <3> QED
        BY <1>2, <2>2, <3>1, <3>2
    <2> QED
      BY <2>3, <2>4
  <1>3. CASE at = "count"
    <2>0. Later(p, "count", d) = (IF p.sec = INVALID THEN Reason(d) ELSE Says(d, "types", p.types, p.sec) \o Later(p, "types", d))
      <3>1. Later(p, "count", d) = (IF p.sec = INVALID THEN Reason(d) ELSE Says(d, "types", p.types, p.sec) \o (Says(d, "choice", 1, p.sec) \o Proof(p, d)))
        BY DEF Later
      <3>2. Later(p, "types", d) = Says(d, "choice", 1, p.sec) \o Proof(p, d)
        BY DEF Later
      <3> QED
        BY <3>1, <3>2
    <2>1. CASE p.sec = INVALID
      <3>1. After(p, at) = "done"
        BY <1>3, <2>1 DEF After
      <3>2. Rest(p, "done", d) = Reason(d)
        BY <2>1 DEF Rest, Closing, Refused
      <3> QED
        BY <1>3, <2>0, <2>1, <3>1, <3>2
    <2>2. CASE p.sec # INVALID
      <3>1. After(p, at) = "types"
        BY <1>3, <2>2 DEF After
      <3>2. Rest(p, "types", d) = Says(d, "types", p.types, p.sec) \o Later(p, "types", d)
        <4>r1. Size0(p, "types") = p.types /\ Value(p, "types") = p.sec
          BY DEF Size0, Value
        <4> QED
          BY <4>r1 DEF Rest
      <3> QED
        BY <1>3, <2>0, <2>2, <3>1, <3>2
    <2> QED
      BY <2>1, <2>2
  <1>4. CASE at = "types"
    <2>1. After(p, at) = "choice"
      BY <1>4 DEF After
    <2>2. Later(p, "types", d) = Says(d, "choice", 1, p.sec) \o Later(p, "choice", d)
      <3>1. Later(p, "types", d) = Says(d, "choice", 1, p.sec) \o Proof(p, d)
        BY DEF Later
      <3>2. Later(p, "choice", d) = Proof(p, d)
        BY DEF Later
      <3> QED
        BY <3>1, <3>2
    <2>3. Rest(p, "choice", d) = Says(d, "choice", 1, p.sec) \o Later(p, "choice", d)
      <3>r1. Size0(p, "choice") = 1 /\ Value(p, "choice") = p.sec
        BY DEF Size0, Value
      <3> QED
        BY <3>r1 DEF Rest
    <2> QED
      BY <1>4, <2>1, <2>2, <2>3
  <1>5. CASE at \in {"choice", "auth"}
    <2>1. Later(p, at, d) = IF at = "auth" /\ s = INVALID THEN Reason(d) ELSE Proof(p, d)
      <3>1. Later(p, "choice", d) = Proof(p, d) /\ Later(p, "auth", d) = IF p.sec = INVALID THEN Reason(d) ELSE Proof(p, d)
        <4>1. Later(p, "choice", d) = Proof(p, d)
          BY DEF Later
        <4>2. Later(p, "auth", d) = (IF p.sec = INVALID THEN Reason(d) ELSE Proof(p, d))
          BY DEF Later
        <4> QED
          BY <4>1, <4>2
      <3> QED
        BY <1>0, <1>5, <3>1
    <2>2. at = "choice" => s # INVALID
      BY <1>0 DEF Knows
    <2>3. s \in {INVALID, NONE, VNC_AUTHENTICATION, DIFFIE_HELLMAN}
      BY <1>0, <1>5 DEF Strange, After, INVALID, NONE, VNC_AUTHENTICATION, DIFFIE_HELLMAN
    <2>4. CASE s = INVALID
      <3>1. After(p, at) = "done"
        BY <1>0, <1>5, <2>4 DEF After, INVALID, NONE, VNC_AUTHENTICATION, DIFFIE_HELLMAN
      <3>2. Rest(p, "done", d) = Reason(d)
        BY <1>0, <2>4 DEF Rest, Closing, Refused
      <3> QED
        BY <1>5, <2>1, <2>2, <2>4, <3>1, <3>2
    <2>5. CASE s = VNC_AUTHENTICATION
      <3>1. After(p, at) = "challenge"
        BY <1>0, <1>5, <2>5 DEF After
      <3>2. Later(p, "challenge", d) = Says(d, "response", 16, 0) \o Later(p, "response", d) /\ Later(p, "response", d) = Verdict(p, d)
        <4>1. Later(p, "challenge", d) = Says(d, "response", 16, 0) \o Verdict(p, d)
          BY DEF Later
        <4>2. Later(p, "response", d) = Verdict(p, d)
          BY DEF Later
        <4> QED
          BY <4>1, <4>2
      <3>3. Proof(p, d) = Says(d, "challenge", 16, 0) \o Later(p, "challenge", d)
        <4>1. p.sec = VNC_AUTHENTICATION
          BY <1>0, <2>5
        <4>2. Proof(p, d) = Says(d, "challenge", 16, 0) \o (Says(d, "response", 16, 0) \o Verdict(p, d))
          BY <4>1 DEF Proof, VNC_AUTHENTICATION, DIFFIE_HELLMAN, NONE
        <4> QED
          BY <3>2, <4>2
      <3>4. Rest(p, "challenge", d) = Says(d, "challenge", 16, 0) \o Later(p, "challenge", d)
        <4>r1. Size0(p, "challenge") = 16 /\ Value(p, "challenge") = 0
          BY DEF Size0, Value
        <4> QED
          BY <4>r1 DEF Rest
      <3>5. Later(p, at, d) = Proof(p, d)
        BY <2>1, <2>5 DEF INVALID, VNC_AUTHENTICATION
      <3> QED
        BY <3>1, <3>3, <3>4, <3>5
    <2>6. CASE s = DIFFIE_HELLMAN
      <3>1. After(p, at) = "dh"
        BY <1>0, <1>5, <2>6 DEF After, VNC_AUTHENTICATION, DIFFIE_HELLMAN
      <3>2. Later(p, "dh", d) = Says(d, "modulus", p.key, 0) \o (Says(d, "serverkey", p.key, 0) \o
                (Says(d, "credentials", ARD_CREDENTIALS_LEN, 0) \o (Says(d, "clientkey", p.key, 0) \o Verdict(p, d))))
        BY DEF Later
      <3>a. Proof(p, d) = Says(d, "dh", 4, p.key) \o (Says(d, "modulus", p.key, 0) \o (Says(d, "serverkey", p.key, 0) \o
                (Says(d, "credentials", ARD_CREDENTIALS_LEN, 0) \o (Says(d, "clientkey", p.key, 0) \o Verdict(p, d)))))
        <4>1. p.sec = DIFFIE_HELLMAN
          BY <1>0, <2>6
        <4> DEFINE password == Says(d, "challenge", 16, 0) \o (Says(d, "response", 16, 0) \o Verdict(p, d))
                   keys     == Says(d, "dh", 4, p.key) \o (Says(d, "modulus", p.key, 0) \o (Says(d, "serverkey", p.key, 0) \o
                (Says(d, "credentials", ARD_CREDENTIALS_LEN, 0) \o (Says(d, "clientkey", p.key, 0) \o Verdict(p, d)))))
                   strange  == Says(d, "ask", 2, 0) \o (Says(d, "secret", 2, 0) \o Verdict(p, d))
        <4>2. Proof(p, d) = CASE p.sec = VNC_AUTHENTICATION -> password [] p.sec = DIFFIE_HELLMAN -> keys
                              [] p.sec = NONE -> Verdict(p, d) [] OTHER -> strange
          BY DEF Proof
        <4> HIDE DEF password, keys, strange
        <4>3. Proof(p, d) = keys
          BY <4>1, <4>2 DEF VNC_AUTHENTICATION, DIFFIE_HELLMAN, NONE
        <4> QED
          BY <4>3 DEF keys
      <3>3. Proof(p, d) = Says(d, "dh", 4, p.key) \o Later(p, "dh", d)
        BY <3>2, <3>a
      <3>4. Rest(p, "dh", d) = Says(d, "dh", 4, p.key) \o Later(p, "dh", d)
        <4>r1. Size0(p, "dh") = 4 /\ Value(p, "dh") = p.key
          BY DEF Size0, Value
        <4> QED
          BY <4>r1 DEF Rest
      <3>5. Later(p, at, d) = Proof(p, d)
        BY <2>1, <2>6 DEF INVALID, DIFFIE_HELLMAN
      <3> QED
        BY <3>1, <3>3, <3>4, <3>5
    <2>7. CASE s = NONE
      <3>1. Proof(p, d) = Verdict(p, d)
        BY <1>0, <2>7 DEF Proof, VNC_AUTHENTICATION, DIFFIE_HELLMAN, NONE
      <3>2. r # 0 /\ Version(p) = r
        BY <1>0, <1>5 DEF Knows, Version
      <3>5. Later(p, at, d) = Verdict(p, d)
        BY <2>1, <2>7, <3>1 DEF INVALID, NONE
      <3>3. CASE r < 3008
        <4>1. After(p, at) = "init"
          BY <1>0, <1>5, <2>7, <3>3 DEF After, VNC_AUTHENTICATION, DIFFIE_HELLMAN, NONE
        <4>2. ~ HasResult(p)
          BY <1>0, <2>7, <3>2, <3>3 DEF HasResult
        <4>3. Rest(p, "init", d) = Opening(p, d)
          BY OpeningRest
        <4> QED
          BY <3>5, <4>1, <4>2, <4>3 DEF Verdict
      <3>4. CASE ~ (r < 3008)
        <4>1. After(p, at) = "result"
          BY <1>0, <1>5, <2>7, <3>4 DEF After, VNC_AUTHENTICATION, DIFFIE_HELLMAN, NONE
        <4>2. HasResult(p)
          BY <1>0, <2>7, <3>2, <3>4 DEF HasResult
        <4>3. Verdict(p, d) = Rest(p, "result", d)
          BY <4>2, VerdictRest
        <4> QED
          BY <3>5, <4>1, <4>3
      <3> QED
        BY <3>3, <3>4
    <2> QED
      BY <2>3, <2>4, <2>5, <2>6, <2>7
  <1>6. CASE at = "challenge"
    <2>1. After(p, at) = "response"
      BY <1>6 DEF After
    <2>2. Later(p, "challenge", d) = Says(d, "response", 16, 0) \o Later(p, "response", d)
      <3>1. Later(p, "challenge", d) = Says(d, "response", 16, 0) \o Verdict(p, d)
        BY DEF Later
      <3>2. Later(p, "response", d) = Verdict(p, d)
        BY DEF Later
      <3> QED
        BY <3>1, <3>2
    <2>3. Rest(p, "response", d) = Says(d, "response", 16, 0) \o Later(p, "response", d)
      <3>r1. Size0(p, "response") = 16 /\ Value(p, "response") = 0
        BY DEF Size0, Value
      <3> QED
        BY <3>r1 DEF Rest
    <2> QED
      BY <1>6, <2>1, <2>2, <2>3
  <1>7. CASE at = "dh"
    <2>1. After(p, at) = "modulus"
      BY <1>7 DEF After
    <2>2. Later(p, "dh", d) = Says(d, "modulus", p.key, 0) \o Later(p, "modulus", d)
      <3>1. Later(p, "dh", d) = Says(d, "modulus", p.key, 0) \o (Says(d, "serverkey", p.key, 0) \o (Says(d, "credentials", ARD_CREDENTIALS_LEN, 0) \o (Says(d, "clientkey", p.key, 0) \o Verdict(p, d))))
        BY DEF Later
      <3>2. Later(p, "modulus", d) = Says(d, "serverkey", p.key, 0) \o (Says(d, "credentials", ARD_CREDENTIALS_LEN, 0) \o (Says(d, "clientkey", p.key, 0) \o Verdict(p, d)))
        BY DEF Later
      <3> QED
        BY <3>1, <3>2
    <2>3. Rest(p, "modulus", d) = Says(d, "modulus", p.key, 0) \o Later(p, "modulus", d)
      <3>r1. Size0(p, "modulus") = p.key /\ Value(p, "modulus") = 0
        BY DEF Size0, Value
      <3> QED
        BY <3>r1 DEF Rest
    <2> QED
      BY <1>7, <2>1, <2>2, <2>3
  <1>8. CASE at = "modulus"
    <2>1. After(p, at) = "serverkey"
      BY <1>8 DEF After
    <2>2. Later(p, "modulus", d) = Says(d, "serverkey", p.key, 0) \o Later(p, "serverkey", d)
      <3>1. Later(p, "modulus", d) = Says(d, "serverkey", p.key, 0) \o (Says(d, "credentials", ARD_CREDENTIALS_LEN, 0) \o (Says(d, "clientkey", p.key, 0) \o Verdict(p, d)))
        BY DEF Later
      <3>2. Later(p, "serverkey", d) = Says(d, "credentials", ARD_CREDENTIALS_LEN, 0) \o (Says(d, "clientkey", p.key, 0) \o Verdict(p, d))
        BY DEF Later
      <3> QED
        BY <3>1, <3>2
    <2>3. Rest(p, "serverkey", d) = Says(d, "serverkey", p.key, 0) \o Later(p, "serverkey", d)
      <3>r1. Size0(p, "serverkey") = p.key /\ Value(p, "serverkey") = 0
        BY DEF Size0, Value
      <3> QED
        BY <3>r1 DEF Rest
    <2> QED
      BY <1>8, <2>1, <2>2, <2>3
  <1>9. CASE at = "serverkey"
    <2>1. After(p, at) = "credentials"
      BY <1>9 DEF After
    <2>2. Later(p, "serverkey", d) = Says(d, "credentials", ARD_CREDENTIALS_LEN, 0) \o Later(p, "credentials", d)
      <3>1. Later(p, "serverkey", d) = Says(d, "credentials", ARD_CREDENTIALS_LEN, 0) \o (Says(d, "clientkey", p.key, 0) \o Verdict(p, d))
        BY DEF Later
      <3>2. Later(p, "credentials", d) = Says(d, "clientkey", p.key, 0) \o Verdict(p, d)
        BY DEF Later
      <3> QED
        BY <3>1, <3>2
    <2>3. Rest(p, "credentials", d) = Says(d, "credentials", ARD_CREDENTIALS_LEN, 0) \o Later(p, "credentials", d)
      <3>r1. Size0(p, "credentials") = ARD_CREDENTIALS_LEN /\ Value(p, "credentials") = 0
        BY DEF Size0, Value
      <3> QED
        BY <3>r1 DEF Rest
    <2> QED
      BY <1>9, <2>1, <2>2, <2>3
  <1>10. CASE at = "credentials"
    <2>1. After(p, at) = "clientkey"
      BY <1>10 DEF After
    <2>2. Later(p, "credentials", d) = Says(d, "clientkey", p.key, 0) \o Later(p, "clientkey", d)
      <3>1. Later(p, "credentials", d) = Says(d, "clientkey", p.key, 0) \o Verdict(p, d)
        BY DEF Later
      <3>2. Later(p, "clientkey", d) = Verdict(p, d)
        BY DEF Later
      <3> QED
        BY <3>1, <3>2
    <2>3. Rest(p, "clientkey", d) = Says(d, "clientkey", p.key, 0) \o Later(p, "clientkey", d)
      <3>r1. Size0(p, "clientkey") = p.key /\ Value(p, "clientkey") = 0
        BY DEF Size0, Value
      <3> QED
        BY <3>r1 DEF Rest
    <2> QED
      BY <1>10, <2>1, <2>2, <2>3
  <1>11. CASE at \in {"response", "clientkey"}
    <2>1. s # NONE
      BY <1>0, <1>11 DEF Knows, DH, NONE, VNC_AUTHENTICATION, DIFFIE_HELLMAN
    <2>2. Later(p, "response", d) = Verdict(p, d) /\ Later(p, "clientkey", d) = Verdict(p, d)
      <3>1. Later(p, "response", d) = Verdict(p, d)
        BY DEF Later
      <3>2. Later(p, "clientkey", d) = Verdict(p, d)
        BY DEF Later
      <3> QED
        BY <3>1, <3>2
    <2>3. After(p, at) = "result"
      BY <1>11 DEF After
    <2>4. HasResult(p)
      BY <1>0, <2>1 DEF HasResult
    <2>5. Verdict(p, d) = Rest(p, "result", d)
      BY <2>4, VerdictRest
    <2> QED
      BY <1>11, <2>2, <2>3, <2>5
  <1>12. CASE at = "result"
    <2>1. HasResult(p) /\ p.sec # INVALID
      BY <1>12 DEF Knows
    <2>a. Later(p, "result", d) = IF p.ok THEN Opening(p, d) ELSE IF Version(p) >= 3008 THEN Reason(d) ELSE <<>>
      BY DEF Later
    <2>2. CASE p.ok
      <3>1. After(p, at) = "init"
        BY <1>12, <2>2 DEF After
      <3>2. Rest(p, "init", d) = Opening(p, d)
        BY OpeningRest
      <3> QED
        BY <1>12, <2>2, <2>a, <3>1, <3>2
    <2>3. CASE ~ p.ok
      <3>1. After(p, at) = "done"
        BY <1>12, <2>3 DEF After
      <3>2. Rest(p, "done", d) = IF Version(p) >= 3008 THEN Reason(d) ELSE <<>>
        BY <2>1, <2>3 DEF Rest, Closing, Refused
      <3> QED
        BY <1>12, <2>3, <2>a, <3>1, <3>2
    <2> QED
      BY <2>2, <2>3
  <1>13. CASE at = "init"
    <2>1. After(p, at) = "serverinit"
      BY <1>13 DEF After
    <2>2. Later(p, "init", d) = Says(d, "serverinit", 24, 2) \o Later(p, "serverinit", d)
      <3>1. Later(p, "init", d) = Says(d, "serverinit", 24, 2) \o (Says(d, "name", 2, 0) \o Screen(p, d))
        BY DEF Later
      <3>2. Later(p, "serverinit", d) = Says(d, "name", 2, 0) \o Screen(p, d)
        BY DEF Later
      <3> QED
        BY <3>1, <3>2
    <2>3. Rest(p, "serverinit", d) = Says(d, "serverinit", 24, 2) \o Later(p, "serverinit", d)
      <3>r1. Size0(p, "serverinit") = 24 /\ Value(p, "serverinit") = 2
        BY DEF Size0, Value
      <3> QED
        BY <3>r1 DEF Rest
    <2> QED
      BY <1>13, <2>1, <2>2, <2>3
  <1>14. CASE at = "serverinit"
    <2>1. After(p, at) = "name"
      BY <1>14 DEF After
    <2>2. Later(p, "serverinit", d) = Says(d, "name", 2, 0) \o Later(p, "name", d)
      <3>1. Later(p, "serverinit", d) = Says(d, "name", 2, 0) \o Screen(p, d)
        BY DEF Later
      <3>2. Later(p, "name", d) = Screen(p, d)
        BY DEF Later
      <3> QED
        BY <3>1, <3>2
    <2>3. Rest(p, "name", d) = Says(d, "name", 2, 0) \o Later(p, "name", d)
      <3>r1. Size0(p, "name") = 2 /\ Value(p, "name") = 0
        BY DEF Size0, Value
      <3> QED
        BY <3>r1 DEF Rest
    <2> QED
      BY <1>14, <2>1, <2>2, <2>3
  <1>15. CASE at = "name"
    <2>1. ~ Refused(p)
      BY <1>15 DEF Knows
    <2>2. Later(p, "name", d) = Screen(p, d)
      BY DEF Later
    <2>3. After(p, at) = "done"
      BY <1>15 DEF After
    <2>4. Rest(p, "done", d) = Screen(p, d)
      BY <2>1 DEF Rest, Closing
    <2> QED
      BY <1>15, <2>2, <2>3, <2>4
  <1>16. at \in Points \ {"done"}
    BY DEF Grammar
  <1>17. \/ at \in {"version", "reply", "count", "types", "challenge", "dh", "modulus", "serverkey", "credentials"}
         \/ at \in {"choice", "auth"} \/ at \in {"response", "clientkey"} \/ at \in {"result", "init", "serverinit", "name"}
    BY <1>16 DEF Points, Exchange
  <1> QED
    BY <1>1, <1>2, <1>3, <1>4, <1>5, <1>6, <1>7, <1>8, <1>9, <1>10, <1>11, <1>12, <1>13, <1>14, <1>15, <1>17

-----------------------------------------------------------------------------
(* What is recorded of a field *)

\* What the recording lacks once a point is reached.
Outstanding(p, at, d) ==
    IF at # "done" \/ Strange(p) THEN ShownRest(p, at, d)
    ELSE IF CutShort(p) THEN Opening(Shown(p, FALSE), d)
    ELSE Closing(p, d)

Chunk(p, at) == Bytes(at, Size0(p, at), Value(p, at))
Written(p, g, d) == IF d = Tap(g.at) THEN Records(g, Chunk(p, g.at)) ELSE <<>>

\* The session shown in place of another is one that asks for nothing.
LEMMA ShownSession ==
  ASSUME NEW p \in Session
  PROVE  /\ Shown(p, FALSE) \in Session /\ Shown(p, FALSE).reply = p.reply
         /\ Shown(p, FALSE).ok = p.ok /\ Shown(p, FALSE).inputs = p.inputs
         /\ Version(Shown(p, FALSE)) = Version(p)
         /\ p.sec = INVALID => Shown(p, FALSE) = p
         /\ p.sec # INVALID => Shown(p, FALSE).sec = NONE /\ Shown(p, FALSE).types = 1
  <1>1. CASE p.sec = INVALID
    BY <1>1 DEF Shown
  <1>2. CASE p.sec # INVALID
    <2>1. PICK q : q = [p EXCEPT !.sec = NONE, !.types = 1]
      OBVIOUS
    <2>2. Shown(p, FALSE) = q
      BY <1>2, <2>1 DEF Shown
    <2>3. q \in Session /\ q.reply = p.reply /\ q.ok = p.ok /\ q.inputs = p.inputs /\ q.sec = NONE /\ q.types = 1
      BY <2>1 DEF Session, NONE
    <2>4. Version(q) = Version(p)
      BY <2>3 DEF Version
    <2> QED
      BY <1>2, <2>2, <2>3, <2>4
  <1> QED
    BY <1>1, <1>2

\* A field is carried by the direction its tap listens to.
LEMMA SaysTap ==
  ASSUME NEW d, NEW at \in Points, NEW n, NEW v
  PROVE  Says(d, at, n, v) = IF d = Tap(at) THEN Bytes(at, n, v) ELSE <<>>
  <1>1. at # "secret"
    BY DEF Points, Exchange
  <1> QED
    BY <1>1 DEF Says, From

\* The parts of a session are sequences of bytes,
LEMMA DueOrdered ==
  ASSUME NEW p \in Session, NEW d
  PROVE  /\ Verdict(p, d) \in Seq(All) /\ Opening(p, d) \in Seq(All) /\ Offer(p, d) \in Seq(All)
         /\ Closing(p, d) \in Seq(All)
         /\ \A at \in Points : Rest(p, at, d) \in Seq(All)
         /\ \A at \in Points \ {"done"} : Later(p, at, d) \in Seq(All)
  <1>1. Verdict(p, d) \in Seq(All) /\ Opening(p, d) \in Seq(All) /\ Offer(p, d) \in Seq(All)
    BY VerdictOrdered, OpeningOrdered, OfferOrdered DEF OrderedFrom
  <1>2. Closing(p, d) \in Seq(All)
    <2>1. Reason(d) \in Seq(All) /\ Screen(p, d) \in Seq(All) /\ <<>> \in Seq(All)
      BY ReasonOrdered, ScreenOrdered, OrderedEmpty DEF OrderedFrom
    <2> QED
      BY <2>1 DEF Closing
  <1>3. ASSUME NEW at \in Points PROVE Rest(p, at, d) \in Seq(All)
    <2>1. CASE at = "done"
      BY <1>2, <2>1 DEF Rest
    <2>2. CASE at # "done"
      BY <2>2, RestOrdered DEF OrderedFrom
    <2> QED
      BY <2>1, <2>2
  <1>4. ASSUME NEW at \in Points \ {"done"} PROVE Later(p, at, d) \in Seq(All)
    <2>1. \E r \in Nat : Rank[at] < r /\ OrderedFrom(r, Later(p, at, d))
      BY LaterOrdered
    <2> QED
      BY <2>1 DEF OrderedFrom
  <1> QED
    BY <1>1, <1>2, <1>3, <1>4

\* and so is what a recording lacks.
LEMMA OutstandingFacts ==
  ASSUME NEW p \in Session, NEW d, NEW at \in Points
  PROVE  ShownRest(p, at, d) \in Seq(All) /\ Outstanding(p, at, d) \in Seq(All)
  <1> DEFINE q == Shown(p, FALSE)
  <1>1. q \in Session
    BY ShownSession
  <1> HIDE DEF q
  <1>2. /\ Verdict(q, d) \in Seq(All) /\ Opening(q, d) \in Seq(All) /\ Offer(q, d) \in Seq(All)
        /\ Rest(q, "count", d) \in Seq(All) /\ Rest(q, at, d) \in Seq(All)
    BY <1>1, DueOrdered DEF Points
  <1>3. Closing(p, d) \in Seq(All)
    BY DueOrdered
  <1>4. ShownRest(p, at, d) \in Seq(All)
    BY <1>2 DEF ShownRest, q
  <1> QED
    BY <1>2, <1>3, <1>4 DEF Outstanding, q

\* A field recorded as it is.
LEMMA PlainStep ==
  ASSUME NEW p \in Session, NEW q \in Session, NEW d, NEW g \in Grammar, g.at # "done",
         Records(g, Chunk(p, g.at)) = Chunk(p, g.at), Size0(q, g.at) = Size0(p, g.at), Value(q, g.at) = Value(p, g.at),
         ShownRest(p, g.at, d) = Rest(q, g.at, d), Outstanding(p, After(p, g.at), d) = Later(q, g.at, d)
  PROVE  ShownRest(p, g.at, d) = Written(p, g, d) \o Outstanding(p, After(p, g.at), d)
  <1>1. g.at \in Points
    BY DEF Grammar
  <1>2. Rest(q, g.at, d) = Says(d, g.at, Size0(q, g.at), Value(q, g.at)) \o Later(q, g.at, d)
    BY DEF Rest
  <1>3. Says(d, g.at, Size0(p, g.at), Value(p, g.at)) = Written(p, g, d)
    BY <1>1, SaysTap DEF Written, Chunk
  <1> QED
    BY <1>2, <1>3

\* A field left out.
LEMMA SilentStep ==
  ASSUME NEW p \in Session, NEW d, NEW g \in Grammar, NEW at \in Points, at = After(p, g.at),
         Records(g, Chunk(p, g.at)) = <<>>, ShownRest(p, g.at, d) = Outstanding(p, at, d)
  PROVE  ShownRest(p, g.at, d) = Written(p, g, d) \o Outstanding(p, After(p, g.at), d)
  <1>1. Written(p, g, d) = <<>>
    BY DEF Written
  <1>2. Outstanding(p, at, d) \in Seq(All)
    BY OutstandingFacts
  <1>3. <<>> \o Outstanding(p, at, d) = Outstanding(p, at, d)
    BY <1>2, ConcatEmptySeq
  <1> QED
    BY <1>1, <1>3

\* Fields that are recorded as they are,
LEMMA PlainRecords ==
  ASSUME NEW g \in Grammar, NEW chunk, ~ g.preserve,
         \/ g.at \in {"version", "reply", "init", "serverinit", "name"}
         \/ g.at \in {"count", "auth"} /\ Decode(chunk) = 0
         \/ g.at = "result" /\ ~ (g.ver < 3008)
  PROVE  Records(g, chunk) = chunk
  <1>1. CASE g.at \in {"version", "reply", "init", "serverinit", "name"}
    BY <1>1 DEF Records, Exchange
  <1>2. CASE g.at \in {"count", "auth"} /\ Decode(chunk) = 0
    <2>1. ~ (Decode(chunk) # INVALID) /\ ~ (Decode(chunk) # 0)
      BY <1>2 DEF INVALID
    <2>2. CASE g.at = "count"
      BY <2>1, <2>2 DEF Records, Exchange
    <2>3. CASE g.at = "auth"
      BY <2>1, <2>3 DEF Records, Exchange
    <2> QED
      BY <1>2, <2>2, <2>3
  <1>3. CASE g.at = "result" /\ ~ (g.ver < 3008)
    BY <1>3 DEF Records, Exchange
  <1> QED
    BY <1>1, <1>2, <1>3

\* and fields that are left out.
LEMMA SilentRecords ==
  ASSUME NEW g \in Grammar, NEW chunk, ~ g.preserve,
         \/ g.at \in Exchange
         \/ g.at = "count" /\ Decode(chunk) # 0
         \/ g.at = "result" /\ g.ver < 3008
  PROVE  Records(g, chunk) = <<>>
  <1>1. CASE g.at \in Exchange
    BY <1>1 DEF Records, Exchange
  <1>2. CASE g.at = "count" /\ Decode(chunk) # 0
    BY <1>2 DEF Records
  <1>3. CASE g.at = "result" /\ g.ver < 3008
    BY <1>3 DEF Records, Exchange
  <1> QED
    BY <1>1, <1>2, <1>3

\* A field that is not empty decodes to its value.
LEMMA ChunkDecodes ==
  ASSUME NEW p \in Session, NEW at \in Points \ {"done"}, at \notin DH
  PROVE  Decode(Chunk(p, at)) = Value(p, at)
  <1>1. Size0(p, at) > 0 /\ Size0(p, at) \in Nat
    <2>1. PICK t \in Nat : t = p.types /\ t > 0
      BY SessionFacts
    <2>2. Size0(p, at) \in {12, 1, 4, 16, 24, 2, t}
      BY <2>1 DEF Size0, DH, Points, Exchange
    <2> QED
      BY <2>1, <2>2
  <1> DEFINE n == Size0(p, at)
  <1> HIDE DEF n
  <1>2. Bytes(at, n, Value(p, at))[1] = [f |-> at, v |-> Value(p, at)] /\ Bytes(at, n, Value(p, at)) # <<>>
        /\ Bytes(at, n, Value(p, at)) \in Seq(All)
    <2>1. n \in Nat /\ at \in DOMAIN Rank /\ Value(p, at) \in Vals /\ n > 0
      BY <1>1, FieldFacts DEF n
    <2>2. Bytes(at, n, Value(p, at)) \in Seq(All) /\ Len(Bytes(at, n, Value(p, at))) = n
          /\ \A i \in 1..n : Bytes(at, n, Value(p, at))[i] = [f |-> at, v |-> Value(p, at)]
      BY <2>1, BytesFacts
    <2> QED
      BY <2>1, <2>2
  <1>3. Head(Bytes(at, n, Value(p, at))) = Bytes(at, n, Value(p, at))[1]
    BY <1>2, HeadTailProperties
  <1> QED
    BY <1>2, <1>3 DEF Decode, Chunk, n

\* What is recorded of a field and what the recording lacks after it are what it
\* lacked before (HandshakeScrubber._record): of the greeting,
LEMMA ShownGreeting ==
  ASSUME NEW p \in Session, NEW d, NEW g \in Grammar, Knows(p, g), ~ g.preserve, g.at \in {"version", "reply"}
  PROVE  ShownRest(p, g.at, d) = Written(p, g, d) \o Outstanding(p, After(p, g.at), d)
  <1> DEFINE q == Shown(p, FALSE)
  <1>1. /\ q \in Session /\ q.reply = p.reply /\ Version(q) = Version(p) /\ q.inputs = p.inputs /\ q.ok = p.ok
    BY ShownSession
  <1>2. Records(g, Chunk(p, g.at)) = Chunk(p, g.at) /\ g.at # "done"
    BY PlainRecords
  <1>3. ShownRest(p, g.at, d) = Rest(q, g.at, d)
    BY DEF ShownRest, Exchange
  <1> HIDE DEF q
  <1>4. Size0(q, g.at) = Size0(p, g.at) /\ Value(q, g.at) = Value(p, g.at)
    BY <1>1 DEF Size0, Value
  <1>5. Outstanding(p, After(p, g.at), d) = Later(q, g.at, d)
    <2>1. CASE g.at = "version"
      <3>1. After(p, g.at) = "reply"
        BY <2>1 DEF After
      <3>2. Outstanding(p, "reply", d) = Rest(q, "reply", d)
        BY DEF Outstanding, ShownRest, Exchange, q
      <3>3. Later(q, "version", d) = Says(d, "reply", 12, q.reply) \o Offer(q, d) /\ Later(q, "reply", d) = Offer(q, d)
        BY DEF Later
      <3>4. Rest(q, "reply", d) = Says(d, "reply", 12, q.reply) \o Later(q, "reply", d)
        <4>1. Size0(q, "reply") = 12 /\ Value(q, "reply") = q.reply
          BY DEF Size0, Value
        <4> QED
          BY <4>1 DEF Rest
      <3> QED
        BY <2>1, <3>1, <3>2, <3>3, <3>4
    <2>2. CASE g.at = "reply"
      <3>1. Later(q, "reply", d) = Offer(q, d)
        BY DEF Later
      <3>2. CASE p.reply = 0
        <4>1. After(p, g.at) = "done" /\ Strange(p)
          BY <2>2, <3>2 DEF After, Strange
        <4>2. Outstanding(p, "done", d) = Offer(q, d)
          BY <3>2, <4>1 DEF Outstanding, ShownRest, Exchange, q
        <4> QED
          BY <2>2, <3>1, <4>1, <4>2
      <3>3. CASE p.reply # 0
        <4> PICK r \in Nat : r = p.reply
          BY SessionFacts
        <4>1. Version(q) = r
          BY <1>1, <3>3 DEF Version
        <4>2. CASE r >= 3007
          <5>1. After(p, g.at) = "count"
            BY <2>2, <3>3, <4>2 DEF After
          <5>2. Outstanding(p, "count", d) = Rest(q, "count", d)
            BY DEF Outstanding, ShownRest, Exchange, q
          <5>3. Offer(q, d) = Rest(q, "count", d)
            BY <4>1, <4>2, OfferRest
          <5> QED
            BY <2>2, <3>1, <5>1, <5>2, <5>3
        <4>3. CASE ~ (r >= 3007)
          <5>1. After(p, g.at) = "auth"
            BY <2>2, <3>3, <4>3 DEF After
          <5>2. Outstanding(p, "auth", d) = Rest(q, "auth", d)
            BY DEF Outstanding, ShownRest, Exchange, q
          <5>3. Offer(q, d) = Rest(q, "auth", d)
            BY <4>1, <4>3, OfferRest
          <5> QED
            BY <2>2, <3>1, <5>1, <5>2, <5>3
        <4> QED
          BY <4>2, <4>3
      <3> QED
        BY <3>2, <3>3
    <2> QED
      BY <2>1, <2>2
  <1> QED
    BY <1>1, <1>2, <1>3, <1>4, <1>5, PlainStep

\* What is shown of an authentication: none.
LEMMA AfterChoice ==
  ASSUME NEW p \in Session, NEW d, NEW g \in Grammar, Knows(p, g), g.at \in {"choice", "auth"}, p.sec # INVALID
  PROVE  Outstanding(p, After(p, g.at), d) = Verdict(Shown(p, FALSE), d)
  <1> DEFINE q == Shown(p, FALSE)
  <1>0. PICK r \in Nat, s \in Nat : p.reply = r /\ p.sec = s
    BY SessionFacts
  <1>1. q \in Session /\ Version(q) = Version(p) /\ q.sec = NONE
    BY ShownSession
  <1>2. r # 0 /\ Version(p) = r
    BY <1>0 DEF Knows, Version
  <1>3. CASE s = VNC_AUTHENTICATION
    <2>1. After(p, g.at) = "challenge"
      BY <1>0, <1>3 DEF After
    <2> QED
      BY <2>1 DEF Outstanding, ShownRest, Exchange
  <1>4. CASE s = DIFFIE_HELLMAN
    <2>1. After(p, g.at) = "dh"
      BY <1>0, <1>4 DEF After, VNC_AUTHENTICATION, DIFFIE_HELLMAN
    <2> QED
      BY <2>1 DEF Outstanding, ShownRest, Exchange
  <1>5. CASE s = NONE
    <2> DEFINE G == Outstanding(p, After(p, g.at), d) = Verdict(q, d)
    <2>0. ~ (NONE = VNC_AUTHENTICATION) /\ ~ (NONE = DIFFIE_HELLMAN)
      BY DEF NONE, VNC_AUTHENTICATION, DIFFIE_HELLMAN
    <2>1. ASSUME r < 3008 PROVE G
      <3>1. After(p, g.at) = "init"
        BY <1>0, <1>5, <2>0, <2>1 DEF After
      <3>2. Outstanding(p, "init", d) = Rest(q, "init", d)
        BY DEF Outstanding, ShownRest, Exchange
      <3> HIDE DEF q
      <3>3. ~ HasResult(q)
        BY <1>1, <1>2, <2>1 DEF HasResult
      <3>4. Verdict(q, d) = Opening(q, d)
        BY <3>3 DEF Verdict
      <3>5. Rest(q, "init", d) = Opening(q, d)
        BY OpeningRest
      <3> QED
        BY <3>1, <3>2, <3>4, <3>5 DEF q
    <2>2. ASSUME ~ (r < 3008) PROVE G
      <3>1. After(p, g.at) = "result"
        BY <1>0, <1>5, <2>0, <2>2 DEF After
      <3> QED
        BY <3>1 DEF Outstanding, ShownRest, Exchange
    <2>3. G
      <3> HIDE DEF G
      <3> QED
        BY <2>1, <2>2
    <2> QED
      BY <2>3
  <1>6. CASE s \notin {INVALID, NONE, VNC_AUTHENTICATION, DIFFIE_HELLMAN}
    <2>1. After(p, g.at) = "done" /\ Strange(p)
      BY <1>0, <1>6 DEF After, Strange
    <2> QED
      BY <1>0, <1>2, <2>1 DEF Outstanding, ShownRest, Exchange
  <1> QED
    BY <1>0, <1>3, <1>4, <1>5, <1>6

\* of the number of security types,
LEMMA ShownCount ==
  ASSUME NEW p \in Session, NEW d, NEW g \in Grammar, Knows(p, g), ~ g.preserve, g.at = "count"
  PROVE  ShownRest(p, g.at, d) = Written(p, g, d) \o Outstanding(p, After(p, g.at), d)
  <1> DEFINE q == Shown(p, FALSE)
  <1>1. ShownRest(p, g.at, d) = Rest(q, "count", d)
    BY DEF ShownRest, Exchange
  <1>2. Decode(Chunk(p, "count")) = Value(p, "count")
    BY ChunkDecodes DEF Points, DH
  <1>3. CASE p.sec = INVALID
    <2>1. q = p
      BY <1>3, ShownSession
    <2>2. After(p, g.at) = "done" /\ Value(p, "count") = 0
      BY <1>3 DEF After, Value
    <2>3. ~ Strange(p) /\ ~ CutShort(p)
      BY <1>3 DEF Strange, CutShort, Knows
    <2>4. Later(p, g.at, d) = Rest(p, "done", d)
      BY <2>2, <2>3, LaterRest
    <2>5. Outstanding(p, After(p, g.at), d) = Later(p, g.at, d)
      BY <2>2, <2>3, <2>4 DEF Outstanding, Rest
    <2>6. Records(g, Chunk(p, g.at)) = Chunk(p, g.at)
      BY <1>2, <2>2, PlainRecords
    <2> HIDE DEF q
    <2> QED
      BY <1>1, <2>1, <2>5, <2>6, PlainStep
  <1>4. CASE p.sec # INVALID
    <2>1. After(p, g.at) = "types"
      BY <1>4 DEF After
    <2>2. Value(p, "count") # 0
      BY <1>4, SessionFacts DEF Value
    <2>3. Records(g, Chunk(p, g.at)) = <<>>
      BY <1>2, <2>2, SilentRecords
    <2>4. Outstanding(p, "types", d) = Rest(q, "count", d)
      BY DEF Outstanding, ShownRest, Exchange
    <2>5. "types" \in Points
      BY DEF Points
    <2> QED
      BY <1>1, <2>1, <2>3, <2>4, <2>5, SilentStep
  <1> QED
    BY <1>3, <1>4

\* of the types, where that number is written as well,
LEMMA ShownTypes ==
  ASSUME NEW p \in Session, NEW d, NEW g \in Grammar, Knows(p, g), ~ g.preserve, g.at = "types"
  PROVE  ShownRest(p, g.at, d) = Written(p, g, d) \o Outstanding(p, After(p, g.at), d)
  <1> DEFINE q == Shown(p, FALSE)
             X == Outstanding(p, "choice", d)
             one == Bytes("count", 1, 1)
             two == Bytes("types", 1, NONE)
  <1>1. ShownRest(p, g.at, d) = Rest(q, "count", d)
    BY DEF ShownRest, Exchange
  <1>0. p.sec # INVALID
    BY DEF Knows
  <1>2. q \in Session /\ q.sec = NONE /\ q.types = 1
    BY <1>0, ShownSession
  <1>3. After(p, g.at) = "choice" /\ X = Rest(q, "choice", d)
    BY DEF After, Outstanding, ShownRest, Exchange
  <1>4. X \in Seq(All)
    BY OutstandingFacts DEF Points
  <1>5. Records(g, Chunk(p, g.at)) = one \o two
    BY DEF Records, Exchange
  <1>6. one \in Seq(All) /\ two \in Seq(All)
    <2>1. "count" \in DOMAIN Rank /\ "types" \in DOMAIN Rank /\ 1 \in Nat /\ 1 \in Vals /\ NONE \in Vals
      BY RankFacts DEF Vals, NONE
    <2> QED
      BY <2>1, BytesFacts
  <1> HIDE DEF X, one, two, q
  <1>7. Rest(q, "count", d) = Says(d, "count", 1, 1) \o (Says(d, "types", 1, NONE) \o Rest(q, "choice", d))
    <2>0. ~ (NONE = INVALID)
      BY DEF NONE, INVALID
    <2>1. Size0(q, "count") = 1 /\ Value(q, "count") = 1 /\ Size0(q, "choice") = 1 /\ Value(q, "choice") = NONE
      BY <1>2, <2>0 DEF Size0, Value
    <2>2. Later(q, "count", d) = IF q.sec = INVALID THEN Reason(d)
                                 ELSE Says(d, "types", q.types, q.sec) \o (Says(d, "choice", 1, q.sec) \o Proof(q, d))
      BY DEF Later
    <2>3. Later(q, "count", d) = Says(d, "types", 1, NONE) \o (Says(d, "choice", 1, NONE) \o Proof(q, d))
      BY <1>2, <2>0, <2>2
    <2>4. Later(q, "choice", d) = Proof(q, d)
      BY DEF Later
    <2>5. Rest(q, "choice", d) = Says(d, "choice", 1, NONE) \o Proof(q, d)
      BY <2>1, <2>4 DEF Rest
    <2>6. Rest(q, "count", d) = Says(d, "count", 1, 1) \o Later(q, "count", d)
      BY <2>1 DEF Rest
    <2> QED
      BY <2>3, <2>5, <2>6
  <1>8. Says(d, "count", 1, 1) = (IF d = "s2c" THEN one ELSE <<>>) /\ Says(d, "types", 1, NONE) = (IF d = "s2c" THEN two ELSE <<>>)
    BY DEF Says, From, Tap, one, two
  <1>9. Tap(g.at) = "s2c"
    BY DEF Tap
  <1>10. CASE d = "s2c"
    <2>1. Written(p, g, d) = one \o two
      BY <1>5, <1>9, <1>10 DEF Written
    <2>2. (one \o two) \o X = one \o (two \o X)
      BY <1>4, <1>6, ConcatAssociative
    <2> QED
      BY <1>1, <1>3, <1>7, <1>8, <1>10, <2>1, <2>2 DEF X
  <1>11. CASE d # "s2c"
    <2>1. Written(p, g, d) = <<>>
      BY <1>9, <1>11 DEF Written
    <2>2. <<>> \o X = X
      BY <1>4, ConcatEmptySeq
    <2> QED
      BY <1>1, <1>3, <1>7, <1>8, <1>11, <2>1, <2>2 DEF X
  <1> QED
    BY <1>10, <1>11

\* of the choice,
LEMMA ShownChoice ==
  ASSUME NEW p \in Session, NEW d, NEW g \in Grammar, Knows(p, g), ~ g.preserve, g.at \in {"choice", "auth"}
  PROVE  ShownRest(p, g.at, d) = Written(p, g, d) \o Outstanding(p, After(p, g.at), d)
  <1> DEFINE q == Shown(p, FALSE)
  <1>1. ShownRest(p, g.at, d) = Rest(q, g.at, d)
    BY DEF ShownRest, Exchange
  <1>2. Decode(Chunk(p, g.at)) = Value(p, g.at) /\ Value(p, g.at) = p.sec
    <2>1. g.at \in Points \ {"done"} /\ g.at \notin DH
      BY DEF Points, DH
    <2>2. Value(p, g.at) = p.sec
      BY DEF Value
    <2> QED
      BY <2>1, <2>2, ChunkDecodes
  <1>3. CASE p.sec = INVALID
    <2>0. g.at = "auth" /\ p.sec = 0
      BY <1>3 DEF Knows, INVALID
    <2>1. q = p
      BY <1>3, ShownSession
    <2>2. After(p, g.at) = "done"
      BY <2>0 DEF After, NONE, VNC_AUTHENTICATION, DIFFIE_HELLMAN
    <2>3. ~ Strange(p) /\ ~ CutShort(p)
      BY <1>3, <2>0 DEF Strange, CutShort, Knows
    <2>4. Later(p, g.at, d) = Rest(p, "done", d)
      BY <2>0, <2>2, <2>3, LaterRest
    <2>5. Outstanding(p, After(p, g.at), d) = Later(p, g.at, d)
      BY <2>2, <2>3, <2>4 DEF Outstanding, Rest
    <2>6. Records(g, Chunk(p, g.at)) = Chunk(p, g.at)
      BY <1>2, <2>0, PlainRecords
    <2> HIDE DEF q
    <2> QED
      BY <1>1, <2>0, <2>1, <2>5, <2>6, PlainStep
  <1>4. CASE p.sec # INVALID
    <2> DEFINE n == IF g.at = "auth" THEN 4 ELSE 1
    <2>1. q \in Session /\ q.sec = NONE
      BY <1>4, ShownSession
    <2>2. Records(g, Chunk(p, g.at)) = Bytes(g.at, n, NONE)
      <3>1. Decode(Chunk(p, g.at)) # INVALID
        BY <1>2, <1>4
      <3>2. CASE g.at = "choice"
        BY <3>2 DEF Records, Exchange
      <3>3. CASE g.at = "auth"
        BY <3>1, <3>3 DEF Records, Exchange
      <3> QED
        BY <3>2, <3>3
    <2>3. Outstanding(p, After(p, g.at), d) = Verdict(q, d)
      BY <1>4, AfterChoice
    <2> HIDE DEF q
    <2>4. Later(q, g.at, d) = Verdict(q, d)
      <3>1. Proof(q, d) = Verdict(q, d)
        BY <2>1 DEF Proof, VNC_AUTHENTICATION, DIFFIE_HELLMAN, NONE
      <3>2. Later(q, "choice", d) = Proof(q, d) /\ Later(q, "auth", d) = IF q.sec = INVALID THEN Reason(d) ELSE Proof(q, d)
        BY DEF Later
      <3>3. q.sec # INVALID
        BY <2>1 DEF NONE, INVALID
      <3> QED
        BY <3>1, <3>2, <3>3
    <2>5. Size0(q, g.at) = n /\ Value(q, g.at) = NONE
      BY <2>1 DEF Size0, Value
    <2> HIDE DEF n
    <2>6. Rest(q, g.at, d) = Says(d, g.at, n, NONE) \o Verdict(q, d)
      BY <2>4, <2>5 DEF Rest
    <2>7. Says(d, g.at, n, NONE) = Written(p, g, d)
      <3>1. g.at \in Points
        BY DEF Points
      <3> QED
        BY <2>2, <3>1, SaysTap DEF Written
    <2> QED
      BY <1>1, <2>3, <2>6, <2>7 DEF q
  <1> QED
    BY <1>3, <1>4

\* of the exchange, which is left out,
LEMMA ShownExchange ==
  ASSUME NEW p \in Session, NEW d, NEW g \in Grammar, Knows(p, g), ~ g.preserve, g.at \in Exchange
  PROVE  ShownRest(p, g.at, d) = Written(p, g, d) \o Outstanding(p, After(p, g.at), d)
  <1>1. PICK at \in Exchange \cup {"result"} : at = After(p, g.at)
    BY DEF After, Exchange
  <1>2. at \in Points
    BY DEF Points
  <1>3. Records(g, Chunk(p, g.at)) = <<>>
    BY SilentRecords
  <1>4. ShownRest(p, g.at, d) = Verdict(Shown(p, FALSE), d)
    BY DEF ShownRest, Exchange
  <1>5. Outstanding(p, at, d) = Verdict(Shown(p, FALSE), d)
    BY DEF Outstanding, ShownRest, Exchange
  <1> QED
    BY <1>1, <1>2, <1>3, <1>4, <1>5, SilentStep

\* of the result, which only some versions have,
LEMMA ShownResult ==
  ASSUME NEW p \in Session, NEW d, NEW g \in Grammar, Knows(p, g), ~ g.preserve, g.at = "result"
  PROVE  ShownRest(p, g.at, d) = Written(p, g, d) \o Outstanding(p, After(p, g.at), d)
  <1> DEFINE q == Shown(p, FALSE)
  <1>0. PICK r \in Nat : p.reply = r
    BY SessionFacts
  <1>1. g.ver = r /\ Version(p) = r /\ HasResult(p) /\ p.sec # INVALID /\ ~ Strange(p)
    BY <1>0 DEF Knows, Version
  <1>2. q \in Session /\ q.sec = NONE /\ Version(q) = r /\ q.ok = p.ok
    BY <1>1, ShownSession
  <1>3. ShownRest(p, g.at, d) = Verdict(q, d)
    BY DEF ShownRest, Exchange
  <1>4. Outstanding(p, "init", d) = Opening(q, d)
    <2>1. Outstanding(p, "init", d) = Rest(q, "init", d)
      BY DEF Outstanding, ShownRest, Exchange
    <2> QED
      BY <2>1, OpeningRest
  <1>5. After(p, g.at) = IF p.ok THEN "init" ELSE "done"
    BY DEF After
  <1>6. ~ p.ok => Outstanding(p, "done", d) = IF r < 3008 THEN Opening(q, d) ELSE Reason(d)
    <2> SUFFICES ASSUME ~ p.ok PROVE Outstanding(p, "done", d) = IF r < 3008 THEN Opening(q, d) ELSE Reason(d)
      OBVIOUS
    <2>1. Refused(p)
      BY <1>1 DEF Refused
    <2>2. CASE r < 3008
      <3>1. CutShort(p)
        BY <1>1, <2>1, <2>2 DEF CutShort
      <3> QED
        BY <1>1, <2>2, <3>1 DEF Outstanding
    <2>3. CASE ~ (r < 3008)
      <3>1. ~ CutShort(p)
        BY <1>1, <2>1, <2>3 DEF CutShort
      <3>2. Closing(p, d) = Reason(d)
        <4>1. r >= 3008
          BY <2>3
        <4> QED
          BY <1>1, <2>1, <4>1 DEF Closing
      <3> QED
        BY <1>1, <2>3, <3>1, <3>2 DEF Outstanding
    <2> HIDE DEF q
    <2> QED
      BY <2>2, <2>3
  <1> HIDE DEF q
  <1>7. CASE r < 3008
    <2>1. Records(g, Chunk(p, g.at)) = <<>>
      BY <1>1, <1>7, SilentRecords
    <2>2. ~ HasResult(q)
      BY <1>2, <1>7 DEF HasResult
    <2>3. Verdict(q, d) = Opening(q, d)
      BY <2>2 DEF Verdict
    <2>4. PICK at \in Points : at = After(p, g.at)
      BY <1>5 DEF Points
    <2>5. Outstanding(p, at, d) = Opening(q, d)
      BY <1>4, <1>5, <1>6, <1>7, <2>4
    <2> QED
      BY <1>3, <2>1, <2>3, <2>4, <2>5, SilentStep
  <1>8. CASE ~ (r < 3008)
    <2>1. Records(g, Chunk(p, g.at)) = Chunk(p, g.at)
      BY <1>1, <1>8, PlainRecords
    <2>2. HasResult(q)
      BY <1>2, <1>8 DEF HasResult
    <2>3. Verdict(q, d) = Rest(q, "result", d)
      BY <2>2, VerdictRest
    <2>4. Size0(q, g.at) = Size0(p, g.at) /\ Value(q, g.at) = Value(p, g.at)
      BY <1>2 DEF Size0, Value
    <2>5. Later(q, "result", d) = IF q.ok THEN Opening(q, d) ELSE IF Version(q) >= 3008 THEN Reason(d) ELSE <<>>
      BY DEF Later
    <2>6. Outstanding(p, After(p, g.at), d) = Later(q, g.at, d)
      <3>1. r >= 3008
        BY <1>8
      <3> QED
        BY <1>2, <1>4, <1>5, <1>6, <1>8, <2>5, <3>1
    <2>7. ShownRest(p, g.at, d) = Rest(q, g.at, d) /\ g.at # "done"
      BY <1>3, <2>3
    <2>8. q \in Session
      BY <1>2
    <2> QED
      BY <2>1, <2>4, <2>6, <2>7, <2>8, PlainStep
  <1> QED
    BY <1>7, <1>8

\* of the initialisation,
LEMMA ShownEnd ==
  ASSUME NEW p \in Session, NEW d, NEW g \in Grammar, Knows(p, g), ~ g.preserve, g.at \in {"init", "serverinit", "name"}
  PROVE  ShownRest(p, g.at, d) = Written(p, g, d) \o Outstanding(p, After(p, g.at), d)
  <1> DEFINE q == Shown(p, FALSE)
  <1>1. q \in Session /\ q.inputs = p.inputs
    BY ShownSession
  <1>2. Records(g, Chunk(p, g.at)) = Chunk(p, g.at)
    BY PlainRecords
  <1>3. ShownRest(p, g.at, d) = Rest(q, g.at, d)
    BY DEF ShownRest, Exchange
  <1>4. Outstanding(p, "serverinit", d) = Rest(q, "serverinit", d) /\ Outstanding(p, "name", d) = Rest(q, "name", d)
    BY DEF Outstanding, ShownRest, Exchange
  <1> HIDE DEF q
  <1>5. Size0(q, g.at) = Size0(p, g.at) /\ Value(q, g.at) = Value(p, g.at)
    BY DEF Size0, Value
  <1>6. Outstanding(p, After(p, g.at), d) = Later(q, g.at, d)
    <2>1. CASE g.at = "init"
      <3>1. Later(q, "init", d) = Says(d, "serverinit", 24, 2) \o (Says(d, "name", 2, 0) \o Screen(q, d))
            /\ Later(q, "serverinit", d) = Says(d, "name", 2, 0) \o Screen(q, d)
        BY DEF Later
      <3>2. Size0(q, "serverinit") = 24 /\ Value(q, "serverinit") = 2
        BY DEF Size0, Value
      <3>3. Rest(q, "serverinit", d) = Says(d, "serverinit", 24, 2) \o Later(q, "serverinit", d)
        BY <3>2 DEF Rest
      <3>4. After(p, g.at) = "serverinit"
        BY <2>1 DEF After
      <3> QED
        BY <1>4, <2>1, <3>1, <3>3, <3>4
    <2>2. CASE g.at = "serverinit"
      <3>1. Later(q, "serverinit", d) = Says(d, "name", 2, 0) \o Screen(q, d) /\ Later(q, "name", d) = Screen(q, d)
        BY DEF Later
      <3>2. Size0(q, "name") = 2 /\ Value(q, "name") = 0
        BY DEF Size0, Value
      <3>3. Rest(q, "name", d) = Says(d, "name", 2, 0) \o Later(q, "name", d)
        BY <3>2 DEF Rest
      <3>4. After(p, g.at) = "name"
        BY <2>2 DEF After
      <3> QED
        BY <1>4, <2>2, <3>1, <3>3, <3>4
    <2>3. CASE g.at = "name"
      <3>1. Later(q, "name", d) = Screen(q, d) /\ Screen(q, d) = Screen(p, d)
        BY <1>1 DEF Later, Screen
      <3>2. After(p, g.at) = "done" /\ ~ Refused(p) /\ ~ Strange(p)
        BY <2>3 DEF After, Knows
      <3>3. Outstanding(p, "done", d) = Screen(p, d)
        BY <3>2 DEF Outstanding, CutShort, Closing
      <3> QED
        BY <2>3, <3>1, <3>2, <3>3
    <2> QED
      BY <2>1, <2>2, <2>3
  <1> QED
    BY <1>1, <1>2, <1>3, <1>5, <1>6, PlainStep

\* and so of every field.
LEMMA ShownStep ==
  ASSUME NEW p \in Session, NEW d, NEW g \in Grammar, Knows(p, g), ~ g.preserve, g.at # "done"
  PROVE  ShownRest(p, g.at, d) = Written(p, g, d) \o Outstanding(p, After(p, g.at), d)
  <1>1. \/ g.at \in {"version", "reply"} \/ g.at = "count" \/ g.at = "types" \/ g.at \in {"choice", "auth"}
        \/ g.at \in Exchange \/ g.at = "result" \/ g.at \in {"init", "serverinit", "name"}
    BY DEF Grammar, Points
  <1>2. CASE g.at \in {"version", "reply"}
    BY <1>2, ShownGreeting
  <1>3. CASE g.at = "count"
    BY <1>3, ShownCount
  <1>4. CASE g.at = "types"
    BY <1>4, ShownTypes
  <1>5. CASE g.at \in {"choice", "auth"}
    BY <1>5, ShownChoice
  <1>6. CASE g.at \in Exchange
    BY <1>6, ShownExchange
  <1>7. CASE g.at = "result"
    BY <1>7, ShownResult
  <1>8. CASE g.at \in {"init", "serverinit", "name"}
    BY <1>8, ShownEnd
  <1> QED
    BY <1>1, <1>2, <1>3, <1>4, <1>5, <1>6, <1>7, <1>8

-----------------------------------------------------------------------------
(* Sequences cut and put together *)

\* a and b say together what c and e do, and a holds all of c.
Splits(a, b, c, e) == a \o b = c \o e /\ Len(c) <= Len(a)

\* A prefix of one sequence, and what is behind it.
LEMMA BehindHead ==
  ASSUME NEW a \in Seq(All), NEW b \in Seq(All), NEW c \in Seq(All), NEW e \in Seq(All), Splits(a, b, c, e)
  PROVE  /\ SubSeq(a, 1, Len(c)) = c
         /\ SubSeq(a, Len(c) + 1, Len(a)) \in Seq(All)
         /\ SubSeq(a, Len(c) + 1, Len(a)) \o b = e
  <1> DEFINE n == Len(c)
             m == Len(a)
             x == SubSeq(a, 1, n)
             y == SubSeq(a, n + 1, m)
  <1>0. a \o b = c \o e /\ Len(c) <= Len(a)
    BY DEF Splits
  <1>1. n \in Nat /\ m \in Nat /\ Len(b) \in Nat /\ Len(e) \in Nat
    BY LenProperties
  <1>2. \A i \in 1..m : a[i] \in All
    BY ElementOfSeq
  <1>3. x \in Seq(All) /\ Len(x) = n /\ \A i \in 1..n : x[i] = a[i]
    <2>1. \A i \in 1..n : a[i] \in All
      BY <1>0, <1>1, <1>2
    <2>2. x \in Seq(All) /\ Len(x) = (IF 1 <= n THEN n - 1 + 1 ELSE 0) /\ \A i \in 1..n - 1 + 1 : x[i] = a[1 + i - 1]
      BY <1>1, <2>1, SubSeqProperties
    <2> HIDE DEF x
    <2> QED
      BY <1>1, <2>2
  <1>4. y \in Seq(All) /\ Len(y) = m - n /\ \A i \in 1..m - n : y[i] = a[n + i]
    <2>1. \A i \in n + 1..m : a[i] \in All
      BY <1>1, <1>2
    <2>2. y \in Seq(All) /\ Len(y) = (IF n + 1 <= m THEN m - (n + 1) + 1 ELSE 0)
          /\ \A i \in 1..m - (n + 1) + 1 : y[i] = a[n + 1 + i - 1]
      BY <1>1, <2>1, SubSeqProperties
    <2> HIDE DEF y
    <2> QED
      BY <1>0, <1>1, <2>2
  <1>5. /\ a \o b \in Seq(All) /\ Len(a \o b) = m + Len(b)
        /\ \A i \in 1..m + Len(b) : (a \o b)[i] = IF i <= m THEN a[i] ELSE b[i - m]
    BY ConcatProperties
  <1>6. /\ Len(c \o e) = n + Len(e)
        /\ \A i \in 1..n + Len(e) : (c \o e)[i] = IF i <= n THEN c[i] ELSE e[i - n]
    BY ConcatProperties
  <1> HIDE DEF n, m, x, y
  <1>7. x = c
    <2>1. \A i \in 1..n : x[i] = c[i]
      BY <1>0, <1>1, <1>3, <1>5, <1>6 DEF n, m
    <2> QED
      BY <1>3, <2>1, SeqEqual DEF n
  <1>8. /\ y \o b \in Seq(All) /\ Len(y \o b) = m - n + Len(b)
        /\ \A i \in 1..m - n + Len(b) : (y \o b)[i] = IF i <= m - n THEN y[i] ELSE b[i - (m - n)]
    <2>1. y \in Seq(All) /\ Len(y) = m - n
      BY <1>4
    <2>2. /\ y \o b \in Seq(All) /\ Len(y \o b) = Len(y) + Len(b)
          /\ \A i \in 1..Len(y) + Len(b) : (y \o b)[i] = IF i <= Len(y) THEN y[i] ELSE b[i - Len(y)]
      BY <2>1, ConcatProperties
    <2> QED
      BY <2>1, <2>2
  <1>9. y \o b = e
    <2>1. Len(y \o b) = Len(e)
      BY <1>0, <1>1, <1>5, <1>6, <1>8 DEF n, m
    <2>2. ASSUME NEW i \in 1..Len(y \o b) PROVE (y \o b)[i] = e[i]
      <3> PICK j \in Int : j = n + i
        BY <1>1
      <3>1. i \in 1..m - n + Len(b) /\ j \in 1..m + Len(b) /\ j \in 1..n + Len(e) /\ j - n = i /\ ~ (j <= n)
        BY <1>1, <1>8, <2>1
      <3>2. (c \o e)[j] = e[j - n]
        BY <1>6, <3>1
      <3>3. CASE i <= m - n
        <4>1. j <= m /\ i \in 1..m - n
          BY <1>1, <3>1, <3>3
        <4>2. (y \o b)[i] = a[j]
          BY <1>4, <1>8, <3>1, <3>3, <4>1
        <4>3. (a \o b)[j] = a[j]
          BY <1>5, <3>1, <4>1
        <4> QED
          BY <1>0, <3>1, <3>2, <4>2, <4>3
      <3>4. CASE ~ (i <= m - n)
        <4>1. ~ (j <= m) /\ j - m = i - (m - n)
          BY <1>1, <3>1, <3>4
        <4>2. (y \o b)[i] = b[i - (m - n)]
          BY <1>8, <3>1, <3>4
        <4>3. (a \o b)[j] = b[j - m]
          BY <1>5, <3>1, <4>1
        <4> QED
          BY <1>0, <3>1, <3>2, <4>1, <4>2, <4>3
      <3> QED
        BY <3>3, <3>4
    <2> QED
      BY <1>8, <2>1, <2>2, SeqEqual
  <1> QED
    BY <1>4, <1>7, <1>9 DEF n, m, x, y

\* A sequence cut in two.
LEMMA InTwo ==
  ASSUME NEW S, NEW w \in Seq(S), NEW n \in DOMAIN w
  PROVE  /\ SubSeq(w, 1, n) \in Seq(S) /\ SubSeq(w, n + 1, Len(w)) \in Seq(S)
         /\ Len(SubSeq(w, 1, n)) = n /\ \A i \in 1..n : SubSeq(w, 1, n)[i] = w[i]
         /\ SubSeq(w, 1, n) \o SubSeq(w, n + 1, Len(w)) = w
         /\ n \in Nat
  <1>1. Len(w) \in Nat /\ DOMAIN w = 1..Len(w) /\ n \in Nat /\ n >= 1 /\ n <= Len(w)
    BY LenProperties
  <1>2. \A i \in 1..Len(w) : w[i] \in S
    BY ElementOfSeq
  <1>3. SubSeq(w, 1, n) \in Seq(S) /\ Len(SubSeq(w, 1, n)) = n /\ \A i \in 1..n : SubSeq(w, 1, n)[i] = w[i]
    <2>1. \A i \in 1..n : w[i] \in S
      BY <1>1, <1>2
    <2> DEFINE x == SubSeq(w, 1, n)
    <2>2. x \in Seq(S) /\ Len(x) = (IF 1 <= n THEN n - 1 + 1 ELSE 0) /\ \A i \in 1..n - 1 + 1 : x[i] = w[1 + i - 1]
      BY <1>1, <2>1, SubSeqProperties
    <2> HIDE DEF x
    <2>3. x \in Seq(S) /\ Len(x) = n /\ \A i \in 1..n : x[i] = w[i]
      BY <1>1, <2>2
    <2> QED
      BY <2>3 DEF x
  <1>4. SubSeq(w, n + 1, Len(w)) \in Seq(S)
    <2>1. \A i \in n + 1..Len(w) : w[i] \in S
      BY <1>1, <1>2
    <2> QED
      BY <1>1, <2>1, SubSeqProperties
  <1>5. SubSeq(w, 1, n) \o SubSeq(w, n + 1, Len(w)) = w
    <2>1. 1 \in 1..Len(w) + 1 /\ n \in 1 - 1..Len(w) /\ Len(w) \in n..Len(w)
      BY <1>1
    <2>2. SubSeq(w, 1, n) \o SubSeq(w, n + 1, Len(w)) = SubSeq(w, 1, Len(w))
      BY <2>1, ConcatAdjacentSubSeq
    <2> QED
      BY <2>2, SubSeqFull
  <1> QED
    BY <1>1, <1>3, <1>4, <1>5

\* Concatenation, regrouped
LEMMA Regrouped ==
  ASSUME NEW S, NEW s \in Seq(S), NEW x \in Seq(S), NEW y \in Seq(S)
  PROVE  (s \o x) \o y = s \o (x \o y) /\ s \o x \in Seq(S)
  <1>1. (s \o x) \o y = s \o (x \o y)
    BY ConcatAssociative
  <1>2. s \o x \in Seq(S)
    BY ConcatProperties
  <1> QED
    BY <1>1, <1>2

\* once more.
LEMMA RegroupedTwice ==
  ASSUME NEW S, NEW r \in Seq(S), NEW s \in Seq(S), NEW x \in Seq(S), NEW y \in Seq(S)
  PROVE  /\ (s \o x) \o y = s \o (x \o y) /\ (r \o (s \o x)) \o y = r \o (s \o (x \o y))
         /\ s \o x \in Seq(S) /\ r \o (s \o x) \in Seq(S)
  <1>1. (s \o x) \o y = s \o (x \o y) /\ s \o x \in Seq(S)
    BY Regrouped
  <1>3. PICK t \in Seq(S) : t = s \o x
    BY <1>1
  <1>2. (r \o t) \o y = r \o (t \o y) /\ r \o t \in Seq(S)
    BY Regrouped
  <1> QED
    BY <1>1, <1>2, <1>3

\* Bytes moved from the wire into what is held back, or into the recording.
LEMMA Moved ==
  ASSUME NEW S, NEW r \in Seq(S), NEW s \in Seq(S), NEW w \in Seq(S), NEW n \in DOMAIN w
  PROVE  /\ (s \o SubSeq(w, 1, n)) \o SubSeq(w, n + 1, Len(w)) = s \o w
         /\ (r \o (s \o SubSeq(w, 1, n))) \o SubSeq(w, n + 1, Len(w)) = r \o (s \o w)
         /\ s \o SubSeq(w, 1, n) \in Seq(S) /\ r \o (s \o SubSeq(w, 1, n)) \in Seq(S)
  <1>0. SubSeq(w, 1, n) \in Seq(S) /\ SubSeq(w, n + 1, Len(w)) \in Seq(S)
        /\ SubSeq(w, 1, n) \o SubSeq(w, n + 1, Len(w)) = w
    BY InTwo
  <1>2. PICK x \in Seq(S), y \in Seq(S) : x = SubSeq(w, 1, n) /\ y = SubSeq(w, n + 1, Len(w)) /\ x \o y = w
    BY <1>0
  <1>1. /\ (s \o x) \o y = s \o (x \o y) /\ (r \o (s \o x)) \o y = r \o (s \o (x \o y))
        /\ s \o x \in Seq(S) /\ r \o (s \o x) \in Seq(S)
    BY RegroupedTwice
  <1> QED
    BY <1>1, <1>2

-----------------------------------------------------------------------------
(* A point and the two directions *)

\* There are two directions.
LEMMA Sides ==
  /\ \A d \in Directions : Other(d) \in Directions /\ Other(d) # d /\ Other(Other(d)) = d
  /\ \A d \in Directions : Directions = {d, Other(d)}
  /\ \A at : Tap(at) \in Directions
  /\ "none" \notin Directions
  BY DEF Directions, Other, Tap

\* At a point one direction begins with the field waited for; the other has
\* nothing before it, and nothing that follows ranks as low.
LEMMA FieldFirst ==
  ASSUME NEW p \in Session, NEW at \in Points \ {"done"}
  PROVE  /\ Rest(p, at, Tap(at)) = Chunk(p, at) \o Later(p, at, Tap(at))
         /\ Rest(p, at, Other(Tap(at))) = Later(p, at, Other(Tap(at)))
         /\ Chunk(p, at) \in Seq(All) /\ Len(Chunk(p, at)) = Size0(p, at)
         /\ \A i \in 1..Size0(p, at) : Chunk(p, at)[i].f = at
         /\ \A d : Later(p, at, d) \in Seq(All)
         /\ \A d : \A i \in DOMAIN Later(p, at, d) : Rank[Later(p, at, d)[i].f] \in Nat /\ Rank[at] < Rank[Later(p, at, d)[i].f]
  <1> DEFINE t == Tap(at)
             n == Size0(p, at)
             v == Value(p, at)
  <1>1. t \in Directions /\ Other(t) # t
    BY Sides
  <1>2. at \in DOMAIN Rank /\ Rank[at] \in Nat /\ n \in Nat /\ v \in Vals
    BY FieldFacts
  <1>3. Says(t, at, n, v) = Bytes(at, n, v) /\ Says(Other(t), at, n, v) = <<>>
    BY <1>1, SaysTap
  <1>4. \A d : Later(p, at, d) \in Seq(All)
    BY DueOrdered
  <1> HIDE DEF n, v, t
  <1>5. Bytes(at, n, v) \in Seq(All) /\ Len(Bytes(at, n, v)) = n /\ \A i \in 1..n : Bytes(at, n, v)[i] = [f |-> at, v |-> v]
    BY <1>2, BytesFacts
  <1>6. \A d : Rest(p, at, d) = Says(d, at, n, v) \o Later(p, at, d)
    BY DEF Rest, n, v
  <1>7. Rest(p, at, Other(t)) = Later(p, at, Other(t))
    <2>1. <<>> \o Later(p, at, Other(t)) = Later(p, at, Other(t))
      BY <1>4, ConcatEmptySeq
    <2> QED
      BY <1>3, <1>6, <2>1
  <1>8. ASSUME NEW d PROVE \A i \in DOMAIN Later(p, at, d) : Rank[Later(p, at, d)[i].f] \in Nat /\ Rank[at] < Rank[Later(p, at, d)[i].f]
    <2>1. PICK r \in Nat : Rank[at] < r /\ OrderedFrom(r, Later(p, at, d))
      BY LaterOrdered
    <2>2. \A i \in DOMAIN Later(p, at, d) : Later(p, at, d)[i] \in All /\ r <= Rank[Later(p, at, d)[i].f]
      BY <2>1 DEF OrderedFrom
    <2>3. \A i \in DOMAIN Later(p, at, d) : Rank[Later(p, at, d)[i].f] \in Nat
      BY <2>2, RankFacts DEF All
    <2> QED
      BY <1>2, <2>1, <2>2, <2>3
  <1>9. Chunk(p, at) = Bytes(at, n, v)
    BY DEF Chunk, n, v
  <1>10. \A i \in 1..n : Bytes(at, n, v)[i].f = at
    BY <1>5
  <1>11. Rest(p, at, t) = Chunk(p, at) \o Later(p, at, t)
    BY <1>3, <1>6, <1>9
  <1>12. \A i \in 1..n : Chunk(p, at)[i].f = at
    BY <1>9, <1>10
  <1>13. Chunk(p, at) \in Seq(All) /\ Len(Chunk(p, at)) = n
    BY <1>5, <1>9
  <1> QED
    BY <1>4, <1>7, <1>8, <1>11, <1>12, <1>13 DEF n, t

\* When the scrubber turns to the other side it waits for at least a byte.
LEMMA TapSwitch ==
  ASSUME NEW p \in Session, NEW g \in Grammar, Knows(p, g), g.at # "done",
         After(p, g.at) # "done", Tap(After(p, g.at)) # Tap(g.at)
  PROVE  Size0(p, After(p, g.at)) > 0
  <1>1. PICK t \in Nat : t = p.types /\ t > 0
    BY SessionFacts
  <1>2. After(p, g.at) \in Points
    BY MeetsNext DEF Grammar
  <1>3. CASE After(p, g.at) \notin {"modulus", "serverkey", "clientkey"}
    <2>1. PICK at \in Points \ {"modulus", "serverkey", "clientkey", "done"} : at = After(p, g.at)
      BY <1>2, <1>3
    <2>2. Size0(p, at) \in {12, 1, 4, 16, 24, 2, 128, t}
      BY <1>1 DEF Size0, Points, Exchange, ARD_CREDENTIALS_LEN
    <2> QED
      BY <1>1, <2>1, <2>2
  <1>4. CASE After(p, g.at) \in {"modulus", "serverkey", "clientkey"}
    <2>1. g.at \in {"dh", "modulus", "credentials"}
      <3>1. g.at \in Points
        BY DEF Grammar
      <3> QED
        BY <1>4, <3>1 DEF After, Points, Exchange
    <2> QED
      BY <2>1 DEF After, Tap
  <1> QED
    BY <1>3, <1>4

\* A field decodes to its value; an empty one to 0, which is its value too.
LEMMA ChunkValue ==
  ASSUME NEW p \in Session, NEW at \in Points \ {"done"}
  PROVE  Decode(Chunk(p, at)) = Value(p, at)
  <1>1. CASE at \notin DH
    BY <1>1, ChunkDecodes
  <1>2. CASE at \in DH
    <2> DEFINE n == Size0(p, at)
               v == Value(p, at)
    <2>1. at \in DOMAIN Rank /\ n \in Nat /\ v \in Vals
      BY FieldFacts
    <2>2. n = 0 => v = 0
      BY <1>2 DEF Size0, Value, DH, ARD_CREDENTIALS_LEN
    <2> HIDE DEF n, v
    <2>3. Bytes(at, n, v) \in Seq(All) /\ Len(Bytes(at, n, v)) = n /\ \A i \in 1..n : Bytes(at, n, v)[i] = [f |-> at, v |-> v]
      BY <2>1, BytesFacts
    <2>4. CASE n = 0
      <3>1. Bytes(at, n, v) = <<>>
        BY <2>3, <2>4, EmptySeq
      <3> QED
        BY <2>2, <2>4, <3>1 DEF Decode, Chunk, n, v
    <2>5. CASE n # 0
      <3>1. Bytes(at, n, v) # <<>> /\ Bytes(at, n, v)[1] = [f |-> at, v |-> v]
        BY <2>1, <2>3, <2>5
      <3>2. Head(Bytes(at, n, v)) = Bytes(at, n, v)[1]
        BY <2>3, <3>1, HeadTailProperties
      <3> QED
        BY <3>1, <3>2 DEF Decode, Chunk, n, v
    <2> QED
      BY <2>4, <2>5
  <1> QED
    BY <1>1, <1>2

\* What is recorded of a chunk are bytes.
LEMMA RecordsTyped ==
  ASSUME NEW g \in Grammar, NEW chunk \in Seq(All)
  PROVE  Records(g, chunk) \in Seq(All)
  <1>1. <<>> \in Seq(All)
    BY EmptySeq
  <1>2. /\ "count" \in DOMAIN Rank /\ "types" \in DOMAIN Rank /\ "choice" \in DOMAIN Rank /\ "auth" \in DOMAIN Rank
    BY RankFacts
  <1>3. 1 \in Vals /\ NONE \in Vals /\ 1 \in Nat /\ 4 \in Nat
    BY DEF Vals, NONE
  <1>4. /\ Bytes("count", 1, 1) \in Seq(All) /\ Bytes("types", 1, NONE) \in Seq(All)
        /\ Bytes("choice", 1, NONE) \in Seq(All) /\ Bytes("auth", 4, NONE) \in Seq(All)
    BY <1>2, <1>3, BytesFacts
  <1>5. Bytes("count", 1, 1) \o Bytes("types", 1, NONE) \in Seq(All)
    BY <1>4, ConcatProperties
  <1> QED
    BY <1>1, <1>4, <1>5 DEF Records

\* A session refused before 3.8 ends there.
LEMMA NothingLater ==
  ASSUME NEW p \in Session, CutShort(p)
  PROVE  \A d : Rest(p, "done", d) = <<>>
  <1>1. PICK v \in Nat : v = Version(p)
    BY SessionFacts
  <1>2. Refused(p) /\ p.sec # INVALID /\ v < 3008
    BY <1>1 DEF CutShort
  <1>3. ~ (v >= 3008)
    BY <1>2
  <1> QED
    BY <1>1, <1>2, <1>3 DEF Rest, Closing

-----------------------------------------------------------------------------
(* What can arrive at a point *)

\* If less than a field is held back, the next byte to come is of that field.
LEMMA NextByte ==
  ASSUME NEW S, NEW a \in Seq(S), NEW b \in Seq(S), NEW c \in Seq(S), NEW e \in Seq(S),
         a \o b = c \o e, Len(a) < Len(c)
  PROVE  b # <<>> /\ Len(a) + 1 \in 1..Len(c) /\ Head(b) = c[Len(a) + 1]
  <1> DEFINE m == Len(a)
             n == Len(c)
  <1>1. m \in Nat /\ n \in Nat /\ Len(b) \in Nat /\ Len(e) \in Nat /\ m + 1 \in 1..n
    BY LenProperties
  <1>2. /\ Len(a \o b) = m + Len(b)
        /\ \A i \in 1..m + Len(b) : (a \o b)[i] = IF i <= m THEN a[i] ELSE b[i - m]
    BY ConcatProperties
  <1>3. /\ Len(c \o e) = n + Len(e)
        /\ \A i \in 1..n + Len(e) : (c \o e)[i] = IF i <= n THEN c[i] ELSE e[i - n]
    BY ConcatProperties
  <1>4. m < n
    OBVIOUS
  <1> HIDE DEF m, n
  <1>5. Len(b) > 0
    BY <1>1, <1>2, <1>3, <1>4
  <1>6. b # <<>>
    BY <1>5, EmptySeq
  <1>7. PICK j \in Nat : j = m + 1 /\ j \in 1..n /\ j \in 1..m + Len(b) /\ j \in 1..n + Len(e) /\ j - m = 1 /\ ~ (j <= m) /\ j <= n
    BY <1>1, <1>5
  <1>8. (a \o b)[j] = b[j - m]
    BY <1>2, <1>7
  <1>9. (c \o e)[j] = c[j]
    BY <1>3, <1>7
  <1>10. Head(b) = b[1]
    BY <1>6, HeadTailProperties
  <1> QED
    BY <1>6, <1>7, <1>8, <1>9, <1>10 DEF m, n

\* What the invariant says at a point.
LEMMA AtField ==
  ASSUME Typed, Knows(session, scrubber), Follows, scrubber.at # "done"
  PROVE  /\ scrubber.at \in Points \ {"done"} /\ Nbytes(scrubber) = Size0(session, scrubber.at)
         /\ Nbytes(scrubber) = Len(Chunk(session, scrubber.at))
         /\ pending[Tap(scrubber.at)] \o wire[Tap(scrubber.at)]
               = Chunk(session, scrubber.at) \o Later(session, scrubber.at, Tap(scrubber.at))
         /\ pending[Other(Tap(scrubber.at))] = <<>>
         /\ wire[Other(Tap(scrubber.at))] = Later(session, scrubber.at, Other(Tap(scrubber.at)))
  <1> DEFINE at == scrubber.at
             t  == Tap(at)
             o  == Other(t)
  <1>1. session \in Session /\ scrubber \in Grammar /\ at \in Points \ {"done"}
        /\ wire \in [Directions -> Seq(All)] /\ pending \in [Directions -> Seq(All)]
    BY DEF Typed, Grammar
  <1>2. Nbytes(scrubber) = Size0(session, at)
    BY <1>1, MeetsNext
  <1>3. t \in Directions /\ o \in Directions
    BY Sides
  <1>4. pending[t] \o wire[t] = Rest(session, at, t) /\ pending[o] \o wire[o] = Rest(session, at, o) /\ pending[o] = <<>>
    BY <1>3 DEF Follows, Remaining, Quiet
  <1>5. /\ Rest(session, at, t) = Chunk(session, at) \o Later(session, at, t)
        /\ Rest(session, at, o) = Later(session, at, o)
        /\ Len(Chunk(session, at)) = Size0(session, at)
    BY <1>1, FieldFirst
  <1>6. <<>> \o wire[o] = wire[o]
    BY <1>1, <1>3, ConcatEmptySeq
  <1> QED
    BY <1>1, <1>2, <1>4, <1>5, <1>6

\* The side that is not watched cannot speak: it has not been sent what comes
\* before its answer (capture.py:_feed relies on it).
LEMMA OutOfTurn ==
  ASSUME Typed, Knows(session, scrubber), Follows, scrubber.at # "done", feeding # Tap(scrubber.at),
         NEW n \in DOMAIN wire[Other(Tap(scrubber.at))],
         Ready(wire[Other(Tap(scrubber.at))], wire[Tap(scrubber.at)], n)
  PROVE  FALSE
  <1> DEFINE at == scrubber.at
             t  == Tap(at)
             o  == Other(t)
  <1>1. session \in Session /\ t \in Directions /\ wire[t] \in Seq(All) /\ pending[t] \in Seq(All)
    BY Sides DEF Typed
  <1>2. /\ at \in Points \ {"done"} /\ Nbytes(scrubber) = Len(Chunk(session, at))
        /\ pending[t] \o wire[t] = Chunk(session, at) \o Later(session, at, t)
        /\ wire[o] = Later(session, at, o)
    BY AtField
  <1>3. /\ Chunk(session, at) \in Seq(All) /\ Len(Chunk(session, at)) = Size0(session, at)
        /\ \A i \in 1..Size0(session, at) : Chunk(session, at)[i].f = at
        /\ Later(session, at, t) \in Seq(All)
        /\ \A i \in DOMAIN Later(session, at, o) :
              Rank[Later(session, at, o)[i].f] \in Nat /\ Rank[at] < Rank[Later(session, at, o)[i].f]
    BY <1>1, <1>2, FieldFirst
  <1>4. Len(pending[t]) < Len(Chunk(session, at))
    BY <1>2 DEF Follows, Quiet
  <1>5. wire[t] # <<>> /\ Len(pending[t]) + 1 \in 1..Len(Chunk(session, at))
        /\ Head(wire[t]) = Chunk(session, at)[Len(pending[t]) + 1]
    BY <1>1, <1>2, <1>3, <1>4, NextByte
  <1>6. Head(wire[t]).f = at
    BY <1>3, <1>5
  <1>7. Rank[wire[o][n].f] <= Rank[at]
    BY <1>5, <1>6 DEF Ready
  <1>8. Rank[wire[o][n].f] \in Nat /\ Rank[at] < Rank[wire[o][n].f] /\ Rank[at] \in Nat
    BY <1>1, <1>2, <1>3, FieldFacts
  <1> QED
    BY <1>7, <1>8

-----------------------------------------------------------------------------
(* Data arrives *)

\* Bytes have ranks.
LEMMA ByteRanks ==
  ASSUME NEW s \in Seq(All)
  PROVE  /\ \A i \in DOMAIN s : Rank[s[i].f] \in Nat
         /\ s # <<>> => Rank[Head(s).f] \in Nat
  <1>1. \A b \in All : Rank[b.f] \in Nat
    BY RankFacts DEF All
  <1>2. \A i \in DOMAIN s : s[i] \in All
    BY LenProperties
  <1>3. s # <<>> => Head(s) \in All
    BY HeadTailProperties
  <1> QED
    BY <1>1, <1>2, <1>3

\* What is behind the beginning of an ordered sequence is in order.
LEMMA SortedBehind ==
  ASSUME NEW a \in Seq(All), NEW b \in Seq(All), Sorted(a \o b)
  PROVE  Sorted(b)
  <1> DEFINE m == Len(a)
  <1>1. m \in Nat /\ Len(b) \in Nat /\ DOMAIN b = 1..Len(b)
    BY LenProperties
  <1>2. /\ a \o b \in Seq(All) /\ Len(a \o b) = m + Len(b)
        /\ \A i \in 1..m + Len(b) : (a \o b)[i] = IF i <= m THEN a[i] ELSE b[i - m]
    BY ConcatProperties
  <1>3. DOMAIN (a \o b) = 1..m + Len(b)
    BY <1>2, LenProperties
  <1> HIDE DEF m
  <1>4. ASSUME NEW i \in 1..Len(b) PROVE \E k \in 1..m + Len(b) : k = m + i /\ (a \o b)[k] = b[i]
    <2>1. PICK k \in Nat : k = m + i /\ k \in 1..m + Len(b) /\ ~ (k <= m) /\ k - m = i
      BY <1>1
    <2>2. (a \o b)[k] = b[k - m]
      BY <1>2, <2>1
    <2> QED
      BY <2>1, <2>2
  <1>5. SUFFICES ASSUME NEW i \in 1..Len(b), NEW j \in 1..Len(b), i <= j PROVE Rank[b[i].f] <= Rank[b[j].f]
    BY <1>1 DEF Sorted
  <1>6. PICK k \in 1..m + Len(b) : k = m + i /\ (a \o b)[k] = b[i]
    BY <1>4
  <1>7. PICK l \in 1..m + Len(b) : l = m + j /\ (a \o b)[l] = b[j]
    BY <1>4
  <1>8. k <= l
    BY <1>1, <1>5, <1>6, <1>7
  <1>9. Rank[(a \o b)[k].f] <= Rank[(a \o b)[l].f]
    BY <1>3, <1>8 DEF Sorted
  <1> QED
    BY <1>6, <1>7, <1>9

\* What is delivered was sent before what the other side has still to send.
LEMMA InOrder ==
  ASSUME NEW a \in Seq(All), NEW w \in Seq(All), NEW n \in DOMAIN w, NEW theirs \in Seq(All), theirs # <<>>,
         Sorted(w), Ready(w, theirs, n), \A i \in DOMAIN a : Rank[a[i].f] <= Rank[Head(theirs).f]
  PROVE  \A i \in DOMAIN (a \o SubSeq(w, 1, n)) : Rank[(a \o SubSeq(w, 1, n))[i].f] <= Rank[Head(theirs).f]
  <1> DEFINE m == Len(a)
             x == SubSeq(w, 1, n)
  <1>1. m \in Nat /\ n \in Nat /\ x \in Seq(All) /\ Len(x) = n /\ \A i \in 1..n : x[i] = w[i]
    BY LenProperties, InTwo
  <1>2. DOMAIN w = 1..Len(w) /\ Len(w) \in Nat /\ DOMAIN a = 1..m
    BY LenProperties
  <1>3. \A i \in DOMAIN w : Rank[w[i].f] \in Nat
    BY ByteRanks
  <1>4. PICK h \in Nat : h = Rank[Head(theirs).f]
    BY ByteRanks
  <1>5. Rank[w[n].f] <= h
    BY <1>4 DEF Ready
  <1>6. ASSUME NEW i \in 1..n PROVE Rank[w[i].f] <= h
    <2>1. i \in DOMAIN w /\ i <= n
      BY <1>1, <1>2
    <2>2. Rank[w[i].f] <= Rank[w[n].f]
      BY <2>1 DEF Sorted
    <2>3. Rank[w[i].f] \in Nat /\ Rank[w[n].f] \in Nat
      BY <1>3, <2>1
    <2> QED
      BY <1>5, <2>2, <2>3
  <1> HIDE DEF m, x
  <1>7. /\ a \o x \in Seq(All) /\ Len(a \o x) = Len(a) + Len(x)
        /\ \A i \in 1..Len(a) + Len(x) : (a \o x)[i] = IF i <= Len(a) THEN a[i] ELSE x[i - Len(a)]
    BY <1>1, ConcatProperties
  <1>8. DOMAIN (a \o x) = 1..m + n
    BY <1>1, <1>7, LenProperties DEF m
  <1>9. \A i \in 1..m + n : (a \o x)[i] = IF i <= m THEN a[i] ELSE x[i - m]
    BY <1>1, <1>7 DEF m
  <1>10. ASSUME NEW i \in 1..m + n PROVE Rank[(a \o x)[i].f] <= h
    <2>1. CASE i <= m
      <3>1. i \in DOMAIN a /\ (a \o x)[i] = a[i]
        BY <1>1, <1>2, <1>9, <2>1
      <3> QED
        BY <1>4, <3>1
    <2>2. CASE ~ (i <= m)
      <3>0. m \in Nat /\ n \in Nat
        BY <1>1
      <3>3. i - m \in 1..n
        BY <2>2, <3>0
      <3>1. i - m \in 1..n /\ (a \o x)[i] = x[i - m]
        BY <1>9, <2>2, <3>3
      <3>2. x[i - m] = w[i - m]
        BY <1>1, <3>1
      <3> QED
        BY <1>6, <3>1, <3>2
    <2> QED
      BY <2>1, <2>2
  <1> QED
    BY <1>4, <1>8, <1>10 DEF x

\* Data arriving preserves the invariant.
LEMMA DeliverKeeps ==
  ASSUME IInv, NEW d \in Directions, NEW n \in Cuts(wire[d], wire[Other(d)]), Deliver(d, n)
  PROVE  IInv'
  <1> DEFINE at == scrubber.at
             o  == Other(d)
             x  == SubSeq(wire[d], 1, n)
             y  == SubSeq(wire[d], n + 1, Len(wire[d]))
  <1>1. phase = "record" /\ feeding = "none" /\ Typed /\ Knows(session, scrubber) /\ Follows /\ Account
    BY DEF Deliver, IInv
  <1>2. session \in Session /\ scrubber \in Grammar /\ wire \in [Directions -> Seq(All)] /\ pending \in [Directions -> Seq(All)]
        /\ recorded \in [Directions -> Seq(All)] /\ o \in Directions /\ o # d /\ Other(o) = d /\ Directions = {d, o}
    BY <1>1, Sides DEF Typed
  <1>3. n \in DOMAIN wire[d] /\ Ready(wire[d], wire[o], n)
    BY DEF Cuts
  <1>4. wire[d] \in Seq(All) /\ pending[d] \in Seq(All) /\ recorded[d] \in Seq(All)
        /\ wire[o] \in Seq(All) /\ pending[o] \in Seq(All) /\ recorded[o] \in Seq(All)
    BY <1>2
  <1>5. x \in Seq(All) /\ y \in Seq(All) /\ (pending[d] \o x) \o y = pending[d] \o wire[d]
        /\ (recorded[d] \o (pending[d] \o x)) \o y = recorded[d] \o (pending[d] \o wire[d])
        /\ pending[d] \o x \in Seq(All) /\ recorded[d] \o (pending[d] \o x) \in Seq(All)
    <2>0. n \in DOMAIN wire[d]
      BY <1>3
    <2>1. x \in Seq(All) /\ y \in Seq(All)
      BY <1>4, <2>0, InTwo
    <2>2. /\ (pending[d] \o x) \o y = pending[d] \o wire[d]
          /\ (recorded[d] \o (pending[d] \o x)) \o y = recorded[d] \o (pending[d] \o wire[d])
          /\ pending[d] \o x \in Seq(All) /\ recorded[d] \o (pending[d] \o x) \in Seq(All)
      BY <1>4, <2>0, Moved
    <2> HIDE DEF x, y
    <2> QED
      BY <2>1, <2>2
  <1>6. phase' = phase /\ session' = session /\ shown' = shown /\ scrubber' = scrubber /\ wire' = [wire EXCEPT ![d] = y]
    BY DEF Deliver
  <1> HIDE DEF x, y
  <1>7. wire' \in [Directions -> Seq(All)] /\ wire'[d] = y /\ wire'[o] = wire[o]
    BY <1>2, <1>5, <1>6
  <1>8. CASE at # "done"
    <2>1. d = Tap(at)
      <3>1. CASE d # Tap(at)
        <4>1. d = Other(Tap(at)) /\ Other(d) = Tap(at) /\ feeding # Tap(at)
          BY <1>1, <3>1, Sides
        <4> QED
          BY <1>1, <1>3, <1>8, <4>1, OutOfTurn
      <3> QED
        BY <3>1
    <2>2. pending' = [pending EXCEPT ![d] = pending[d] \o x] /\ feeding' = d /\ recorded' = recorded
      BY <1>8, <2>1 DEF Deliver, Waiting, x
    <2>3. pending' \in [Directions -> Seq(All)] /\ pending'[d] = pending[d] \o x /\ pending'[o] = pending[o]
      BY <1>2, <1>5, <2>2
    <2>4. Typed'
      BY <1>1, <1>2, <1>6, <1>7, <2>2, <2>3, Sides DEF Typed
    <2>5. \A e \in Directions : pending'[e] \o wire'[e] = pending[e] \o wire[e]
      BY <1>2, <1>5, <1>7, <2>3
    <2>6. Remaining'
      BY <1>1, <1>6, <2>5 DEF Follows, Remaining
    <2>7. pending[o] = <<>>
      BY <1>1, <1>8, <2>1 DEF Follows, Quiet
    <2>8. Turns'
      <3>1. ASSUME wire'[o] # <<>>
            PROVE  \A i \in DOMAIN pending'[d] : Rank[pending'[d][i].f] <= Rank[Head(wire'[o]).f]
        <4>1. \A i \in DOMAIN pending[d] : Rank[pending[d][i].f] <= Rank[Head(wire[o]).f]
          BY <1>1, <1>2, <1>7, <1>8, <3>1 DEF Follows, Turns
        <4>2. Sorted(wire[d])
          <5>1. pending[d] \o wire[d] = Rest(session, at, d)
            BY <1>1, <1>8 DEF Follows, Remaining
          <5>2. at \in Points \ {"done"}
            BY <1>2, <1>8 DEF Grammar
          <5>3. Sorted(Rest(session, at, d))
            BY <1>2, <5>2, RestOrdered DEF OrderedFrom
          <5> QED
            BY <1>4, <5>1, <5>3, SortedBehind
        <4>3. \A i \in DOMAIN (pending[d] \o x) : Rank[(pending[d] \o x)[i].f] <= Rank[Head(wire[o]).f]
          BY <1>3, <1>4, <1>7, <3>1, <4>1, <4>2, InOrder DEF x
        <4> QED
          BY <1>7, <2>3, <4>3
      <3>2. \A i \in DOMAIN pending'[o] : Rank[pending'[o][i].f] <= Rank[Head(wire'[d]).f]
        BY <2>3, <2>7
      <3>3. \A e \in Directions : wire[Other(e)]' # <<>> =>
               \A i \in DOMAIN pending'[e] : Rank[pending'[e][i].f] <= Rank[Head(wire[Other(e)]').f]
        <4> TAKE e \in Directions
        <4>1. CASE e = d
          BY <3>1, <4>1
        <4>2. CASE e = o
          BY <1>2, <3>2, <4>2
        <4> QED
          BY <1>2, <4>1, <4>2
      <3> QED
        BY <3>3 DEF Turns
    <2>9. Quiet'
      BY <1>2, <1>6, <1>8, <2>1, <2>2, <2>3, <2>7 DEF Quiet
    <2>10. Account'
      <3>1. \A e \in Directions : Due(e)' = Due(e)
        BY <1>6, <1>8, <2>5 DEF Due
      <3> QED
        BY <1>1, <1>6, <2>2, <3>1 DEF Account
    <2> QED
      BY <1>1, <1>6, <2>4, <2>6, <2>8, <2>9, <2>10 DEF IInv, Follows
  <1>9. CASE at = "done"
    <2>1. ~ scrubber.abort /\ (Strange(session) => scrubber.preserve)
      <3>1. ~ scrubber.abort
        BY <1>1 DEF Typed
      <3>2. scrubber.abort = (at = "done" /\ Strange(session) /\ ~ scrubber.preserve)
        BY <1>1 DEF Knows
      <3> QED
        BY <1>9, <3>1, <3>2
    <2>2. /\ recorded' = [recorded EXCEPT ![d] = @ \o (pending[d] \o x)]
          /\ pending' = [pending EXCEPT ![d] = <<>>] /\ feeding' = feeding
      BY <1>9 DEF Deliver, Waiting, Record, x
    <2>3. <<>> \in Seq(All)
      BY EmptySeq
    <2>4. /\ recorded' \in [Directions -> Seq(All)] /\ recorded'[d] = recorded[d] \o (pending[d] \o x) /\ recorded'[o] = recorded[o]
          /\ pending' \in [Directions -> Seq(All)] /\ pending'[d] = <<>> /\ pending'[o] = pending[o]
      BY <1>2, <1>5, <2>2, <2>3
    <2>5. Typed'
      BY <1>1, <1>2, <1>6, <1>7, <2>2, <2>4 DEF Typed
    <2>6. Remaining' /\ Turns'
      BY <1>6, <1>9 DEF Remaining, Turns
    <2>7. ~ (CutShort(session) /\ ~ Strange(session))
      BY <1>1, <1>3, <1>9, EmptySeq DEF Follows, Quiet
    <2>8. Quiet'
      BY <1>1, <1>2, <1>6, <1>9, <2>2, <2>4, <2>7 DEF Follows, Quiet
    <2>9. Account'
      <3>1. \A e \in Directions : Due(e) = pending[e] \o wire[e] /\ Due(e)' = pending'[e] \o wire'[e]
        BY <1>6, <1>9, <2>1, <2>7 DEF Due
      <3>2. recorded'[d] \o (pending'[d] \o wire'[d]) = recorded[d] \o (pending[d] \o wire[d])
        <4>1. <<>> \o y = y
          BY <1>5, ConcatEmptySeq
        <4> QED
          BY <1>5, <1>7, <2>4, <4>1
      <3>3. recorded'[o] \o (pending'[o] \o wire'[o]) = recorded[o] \o (pending[o] \o wire[o])
        BY <1>7, <2>4
      <3>4. \A e \in Directions : recorded'[e] \o (pending'[e] \o wire'[e]) = recorded[e] \o (pending[e] \o wire[e])
        BY <1>2, <3>2, <3>3
      <3> QED
        BY <1>1, <1>6, <3>1, <3>4 DEF Account
    <2> QED
      BY <1>1, <1>6, <2>5, <2>6, <2>8, <2>9 DEF IInv, Follows
  <1> QED
    BY <1>8, <1>9

-----------------------------------------------------------------------------
(* A connection is made; a feed ends *)

\* At the version field all of a session is still to come, on either side.
LEMMA StreamsRest ==
  ASSUME NEW z \in Session
  PROVE  Streams(z) = [d \in Directions |-> Rest(z, "version", d)] /\ \A d : Rest(z, "version", d) \in Seq(All)
  <1>1. Size0(z, "version") = 12 /\ Value(z, "version") = 3008
    BY DEF Size0, Value
  <1>2. \A d : Later(z, "version", d) = Says(d, "reply", 12, z.reply) \o Offer(z, d)
    BY DEF Later
  <1>3. \A d : Rest(z, "version", d) = Says(d, "version", 12, 3008) \o Later(z, "version", d)
    BY <1>1 DEF Rest
  <1>4. \A d : Rest(z, "version", d) \in Seq(All)
    BY DueOrdered DEF Points
  <1>5. ASSUME NEW d
        PROVE  Rest(z, "version", d) = Says(d, "version", 12, 3008) \o (Says(d, "reply", 12, z.reply) \o Offer(z, d))
    <2> DEFINE rest  == Rest(z, "version", d)
               later == Later(z, "version", d)
               asks  == Says(d, "version", 12, 3008)
               says  == Says(d, "reply", 12, z.reply)
    <2>1. later = says \o Offer(z, d)
      BY <1>2
    <2>2. rest = asks \o later
      BY <1>3
    <2> HIDE DEF rest, later, asks, says
    <2>3. rest = asks \o (says \o Offer(z, d))
      BY <2>1, <2>2
    <2> QED
      BY <2>3 DEF rest, asks, says
  <1>6. Streams(z) = [d \in Directions |-> Rest(z, "version", d)]
    BY <1>5 DEF Streams
  <1> QED
    BY <1>4, <1>6

\* The invariant holds when a connection is made.
LEMMA InitKeeps ==
  ASSUME RecordInit
  PROVE  IInv
  <1> DEFINE p == session
             q == Shown(p, FALSE)
  <1>1. /\ session \in Sessions /\ scrubber.preserve \in BOOLEAN /\ scrubber = Scrubber(scrubber.preserve)
        /\ shown = Streams(Shown(session, scrubber.preserve)) /\ phase = "record" /\ wire = Streams(session)
        /\ feeding = "none" /\ pending = [d \in Directions |-> <<>>] /\ recorded = [d \in Directions |-> <<>>]
    BY PieceAssumption DEF RecordInit, Scrubber
  <1>2. session \in Session
    <2>1. 2 \in {1, 2}
      OBVIOUS
    <2> QED
      BY <1>1, <2>1, ReplyAssumption, TypeAssumption DEF Sessions, Session, Scripted
  <1>3. scrubber \in Grammar /\ scrubber.at = "version" /\ ~ scrubber.abort /\ ~ scrubber.sized
    <2>1. PICK v \in BOOLEAN : scrubber = Scrubber(v)
      BY <1>1
    <2>2. scrubber = [at |-> "version", n |-> 0, ver |-> 0, sec |-> 0, sized |-> FALSE, preserve |-> v, abort |-> FALSE]
      BY <2>1 DEF Scrubber, INVALID
    <2>3. "version" \in Points
      BY DEF Points
    <2>4. scrubber \in Grammar
      BY <2>2, <2>3 DEF Grammar
    <2> QED
      BY <2>2, <2>4
  <1>4. Nbytes(scrubber) = 12
    BY <1>3 DEF Nbytes
  <1>5. ASSUME NEW z \in Session
        PROVE  Streams(z) = [d \in Directions |-> Rest(z, "version", d)] /\ \A d : Rest(z, "version", d) \in Seq(All)
    BY StreamsRest
  <1>6. wire \in [Directions -> Seq(All)] /\ \A d \in Directions : wire[d] = Rest(p, "version", d)
    BY <1>1, <1>2, <1>5
  <1>7. <<>> \in Seq(All) /\ Len(<<>>) = 0 /\ DOMAIN <<>> = {}
    BY EmptySeq
  <1>8. pending \in [Directions -> Seq(All)] /\ recorded \in [Directions -> Seq(All)]
        /\ \A d \in Directions : pending[d] = <<>> /\ recorded[d] = <<>>
    BY <1>1, <1>7
  <1>9. Typed
    BY <1>1, <1>2, <1>3, <1>6, <1>8 DEF Typed
  <1>10. Knows(session, scrubber)
    <2>1. scrubber.at \in Points
      BY <1>3 DEF Grammar
    <2>2. scrubber.abort = FALSE
      BY <1>1 DEF Scrubber
    <2>3. scrubber.abort = (scrubber.at = "done" /\ Strange(session) /\ ~ scrubber.preserve)
      BY <1>3, <2>2
    <2> QED
      BY <1>3, <2>1, <2>3 DEF Knows, DH
  <1>11. \A d \in Directions : pending[d] \o wire[d] = Rest(p, "version", d)
    BY <1>6, <1>8, ConcatEmptySeq
  <1>12. Follows
    <2>1. Remaining
      BY <1>3, <1>11 DEF Remaining
    <2>2. Turns
      BY <1>8, <1>7 DEF Turns
    <2>3. Quiet
      <3>1. 0 < 12
        OBVIOUS
      <3>2. Tap("version") \in Directions /\ Other(Tap("version")) \in Directions
        BY Sides
      <3> QED
        BY <1>1, <1>3, <1>4, <1>7, <1>8, <3>1, <3>2 DEF Quiet
    <2> QED
      BY <2>1, <2>2, <2>3 DEF Follows
  <1>13. Account
    <2> SUFFICES ASSUME NEW d \in Directions PROVE recorded[d] \o Due(d) = shown[d]
      BY DEF Account
    <2>1. Due(d) = shown[d] /\ Due(d) \in Seq(All)
      <3>1. CASE scrubber.preserve
        <4>1. Shown(p, scrubber.preserve) = p
          BY <3>1 DEF Shown
        <4>2. shown[d] = Streams(p)[d]
          BY <1>1, <4>1
        <4>3. Due(d) = Rest(p, "version", d)
          BY <1>11, <3>1 DEF Due
        <4> QED
          BY <1>2, <1>5, <4>2, <4>3
      <3>2. CASE ~ scrubber.preserve
        <4>1. q \in Session
          BY <1>2, ShownSession
        <4>2. scrubber.preserve = FALSE
          BY <1>1, <3>2
        <4>3. shown[d] = Streams(q)[d]
          BY <1>1, <4>2
        <4>4. Due(d) = ShownRest(p, "version", d)
          BY <1>3, <3>2 DEF Due
        <4>5. ShownRest(p, "version", d) = Rest(q, "version", d)
          BY DEF ShownRest, Exchange
        <4> HIDE DEF q
        <4> QED
          BY <1>5, <4>1, <4>3, <4>4, <4>5
      <3> QED
        BY <3>1, <3>2
    <2> QED
      BY <1>8, <2>1, ConcatEmptySeq
  <1> QED
    BY <1>1, <1>9, <1>10, <1>12, <1>13 DEF IInv

\* The end of a feed preserves it.
LEMMA FeedEndsKeeps ==
  ASSUME IInv, NEW d \in Directions, FeedEnds(d)
  PROVE  IInv'
  <1> DEFINE at == scrubber.at
             o  == Other(d)
  <1>1. phase = "record" /\ feeding = d /\ d # "none" /\ Typed /\ Knows(session, scrubber) /\ Follows /\ Account
    <2>1. feeding = d /\ d # "none"
      BY Sides DEF FeedEnds
    <2>2. Typed /\ phase = "record"
      BY <2>1 DEF IInv, Typed
    <2> QED
      BY <2>1, <2>2 DEF IInv
  <1>2. session \in Session /\ scrubber \in Grammar /\ wire \in [Directions -> Seq(All)] /\ pending \in [Directions -> Seq(All)]
        /\ recorded \in [Directions -> Seq(All)] /\ o \in Directions /\ o # d /\ Other(o) = d /\ Directions = {d, o}
    BY <1>1, Sides DEF Typed
  <1>3. /\ feeding' = "none" /\ session' = session /\ shown' = shown /\ wire' = wire /\ scrubber' = scrubber
        /\ phase' = IF scrubber.abort THEN "dropped" ELSE phase
    BY DEF FeedEnds
  <1>4. /\ recorded' \in [Directions -> Seq(All)] /\ pending' \in [Directions -> Seq(All)]
        /\ pending'[o] = pending[o] /\ recorded'[o] = recorded[o]
        /\ IF Waiting(scrubber, d) THEN pending'[d] = pending[d] /\ recorded'[d] = recorded[d] /\ ~ HasChunk(scrubber, pending[d])
           ELSE pending'[d] = <<>> /\ recorded'[d] = recorded[d] \o pending[d]
    <2>1. CASE Waiting(scrubber, d)
      BY <1>1, <1>2, <2>1 DEF FeedEnds, Watches
    <2>2. CASE ~ Waiting(scrubber, d)
      <3>1. recorded' = [recorded EXCEPT ![d] = @ \o pending[d]] /\ pending' = [pending EXCEPT ![d] = <<>>]
        BY <2>2 DEF FeedEnds, Record
      <3>2. <<>> \in Seq(All) /\ recorded[d] \o pending[d] \in Seq(All)
        BY <1>2, EmptySeq, ConcatProperties
      <3> QED
        BY <1>2, <2>2, <3>1, <3>2
    <2> QED
      BY <2>1, <2>2
  <1>5. Typed'
    BY <1>1, <1>2, <1>3, <1>4 DEF Typed
  <1>6. CASE scrubber.abort
    <2>1. phase' = "dropped"
      BY <1>3, <1>6
    <2> QED
      BY <1>5, <2>1 DEF IInv
  <1>7. CASE ~ scrubber.abort
    <2>1. phase' = "record"
      BY <1>1, <1>3, <1>7
    <2>2. at = "done" /\ Strange(session) => scrubber.preserve
      <3>1. scrubber.abort = (at = "done" /\ Strange(session) /\ ~ scrubber.preserve)
        BY <1>1 DEF Knows
      <3> QED
        BY <1>7, <3>1
    <2>3. CASE Waiting(scrubber, d)
      <3>1. at # "done" /\ Tap(at) = d /\ ~ (Len(pending[d]) >= Nbytes(scrubber))
        BY <1>4, <2>3 DEF Waiting, HasChunk
      <3>2. pending' = pending /\ recorded' = recorded
        BY <2>3 DEF FeedEnds
      <3>3. Len(pending[d]) < Nbytes(scrubber)
        <4>1. Len(pending[d]) \in Nat
          BY <1>2, LenProperties
        <4>2. Nbytes(scrubber) \in Nat
          BY <1>1, <1>2, <3>1, AtField, FieldFacts
        <4> QED
          BY <3>1, <4>1, <4>2
      <3>4. Remaining' /\ Turns'
        BY <1>1, <1>3, <3>2 DEF Follows, Remaining, Turns
      <3>5. Quiet'
        BY <1>1, <1>3, <3>1, <3>2, <3>3 DEF Follows, Quiet
      <3>6. Account'
        BY <1>1, <1>3, <3>2 DEF Account, Due
      <3> QED
        BY <1>1, <1>3, <1>5, <2>1, <3>4, <3>5, <3>6 DEF IInv, Follows
    <2>4. CASE ~ Waiting(scrubber, d)
      <3>1. CASE at # "done"
        <4>1. Tap(at) = o
          <5>1. Tap(at) \in {d, o}
            BY <1>2, Sides
          <5> QED
            BY <2>4, <3>1, <5>1 DEF Waiting
        <4>2. pending[d] = <<>>
          BY <1>1, <1>2, <3>1, <4>1 DEF Follows, Quiet
        <4>3. recorded[d] \o <<>> = recorded[d]
          BY <1>2, ConcatEmptySeq
        <4>4. \A e \in Directions : pending'[e] = pending[e] /\ recorded'[e] = recorded[e]
          BY <1>2, <1>4, <2>4, <4>2, <4>3
        <4>5. pending' = pending /\ recorded' = recorded
          <5>1. /\ pending = [e \in Directions |-> pending[e]] /\ recorded = [e \in Directions |-> recorded[e]]
                /\ pending' = [e \in Directions |-> pending'[e]] /\ recorded' = [e \in Directions |-> recorded'[e]]
            BY <1>2, <1>4
          <5>2. /\ [e \in Directions |-> pending'[e]] = [e \in Directions |-> pending[e]]
                /\ [e \in Directions |-> recorded'[e]] = [e \in Directions |-> recorded[e]]
            BY <4>4
          <5> QED
            BY <5>1, <5>2
        <4>6. Remaining' /\ Turns'
          BY <1>1, <1>3, <4>5 DEF Follows, Remaining, Turns
        <4>7. Quiet'
          BY <1>1, <1>2, <1>3, <3>1, <4>1, <4>5 DEF Follows, Quiet
        <4>8. Account'
          BY <1>1, <1>3, <4>5 DEF Account, Due
        <4> QED
          BY <1>1, <1>3, <1>5, <2>1, <4>6, <4>7, <4>8 DEF IInv, Follows
      <3>2. CASE at = "done"
        <4>1. Remaining' /\ Turns'
          BY <1>3, <3>2 DEF Remaining, Turns
        <4>2. ~ Strange(session) => pending[o] = <<>>
          BY <1>1, <1>2, <3>2 DEF Follows, Quiet
        <4>3. Quiet'
          <5>1. ~ Strange(session) => \A e \in Directions : pending'[e] = <<>>
            BY <1>2, <1>4, <2>4, <4>2
          <5>2. CutShort(session) /\ ~ Strange(session) => \A e \in Directions : wire[e] = <<>>
            BY <1>1, <3>2 DEF Follows, Quiet
          <5> QED
            BY <1>3, <3>2, <5>1, <5>2 DEF Quiet
        <4>4. Account'
          <5>1. CASE scrubber.preserve \/ ~ CutShort(session)
            <6>1. \A e \in Directions : Due(e) = pending[e] \o wire[e] /\ Due(e)' = pending'[e] \o wire'[e]
              BY <1>3, <2>2, <3>2, <5>1 DEF Due
            <6>2. recorded'[d] \o (pending'[d] \o wire'[d]) = recorded[d] \o (pending[d] \o wire[d])
              <7>1. recorded[d] \in Seq(All) /\ pending[d] \in Seq(All) /\ wire[d] \in Seq(All)
                BY <1>2
              <7>2. (recorded[d] \o pending[d]) \o wire[d] = recorded[d] \o (pending[d] \o wire[d])
                <8>1. PICK r \in Seq(All), s \in Seq(All), w \in Seq(All) : r = recorded[d] /\ s = pending[d] /\ w = wire[d]
                  BY <7>1
                <8>2. (r \o s) \o w = r \o (s \o w)
                  BY ConcatAssociative
                <8> QED
                  BY <8>1, <8>2
              <7>3. <<>> \o wire[d] = wire[d]
                BY <7>1, ConcatEmptySeq
              <7> QED
                BY <1>3, <1>4, <2>4, <7>2, <7>3
            <6>3. recorded'[o] \o (pending'[o] \o wire'[o]) = recorded[o] \o (pending[o] \o wire[o])
              BY <1>3, <1>4
            <6>4. \A e \in Directions : recorded'[e] \o (pending'[e] \o wire'[e]) = recorded[e] \o (pending[e] \o wire[e])
              BY <1>2, <6>2, <6>3
            <6> QED
              BY <1>1, <1>3, <6>1, <6>4 DEF Account
          <5>2. CASE ~ scrubber.preserve /\ CutShort(session)
            <6>1. ~ Strange(session) /\ pending[d] = <<>>
              BY <1>1, <2>2, <3>2, <5>2 DEF Follows, Quiet
            <6>2. recorded[d] \o <<>> = recorded[d]
              BY <1>2, ConcatEmptySeq
            <6>3. \A e \in Directions : recorded'[e] = recorded[e]
              BY <1>2, <1>4, <2>4, <6>1, <6>2
            <6>4. \A e \in Directions : Due(e)' = Due(e)
              BY <1>3, <3>2, <5>2, <6>1 DEF Due
            <6> QED
              BY <1>1, <1>3, <6>3, <6>4 DEF Account
          <5> QED
            BY <5>1, <5>2
        <4> QED
          BY <1>1, <1>3, <1>5, <2>1, <4>1, <4>3, <4>4 DEF IInv, Follows
      <3> QED
        BY <3>1, <3>2
    <2> QED
      BY <2>3, <2>4
  <1> QED
    BY <1>6, <1>7

-----------------------------------------------------------------------------
(* A chunk is taken *)

\* A chunk is the field waited for, and the scrubber learns what it says.
LEMMA TakeField ==
  ASSUME Typed, Knows(session, scrubber), Follows, NEW d \in Directions, Take(d)
  PROVE  /\ scrubber.at \in Points \ {"done"} /\ d = Tap(scrubber.at) /\ feeding = d
         /\ pending' = [pending EXCEPT ![d] = SubSeq(pending[d], Nbytes(scrubber) + 1, Len(pending[d]))]
         /\ SubSeq(pending[d], Nbytes(scrubber) + 1, Len(pending[d])) \in Seq(All)
         /\ SubSeq(pending[d], Nbytes(scrubber) + 1, Len(pending[d])) \o wire[d] = Later(session, scrubber.at, d)
         /\ Nbytes(scrubber) \in Nat
         /\ recorded' = [recorded EXCEPT ![d] = recorded[d] \o Records(scrubber, Chunk(session, scrubber.at))]
         /\ scrubber' = Meets(session, scrubber)
  <1> DEFINE at == scrubber.at
             p  == session
             c  == Chunk(p, at)
             e  == Later(p, at, d)
  <1>1. at # "done" /\ Tap(at) = d /\ feeding = d /\ Len(pending[d]) >= Nbytes(scrubber)
    BY DEF Take, Watches, Waiting, HasChunk
  <1>2. p \in Session /\ pending[d] \in Seq(All) /\ wire[d] \in Seq(All) /\ pending \in [Directions -> Seq(All)]
    BY DEF Typed
  <1>3. /\ at \in Points \ {"done"} /\ Nbytes(scrubber) = Len(c) /\ pending[d] \o wire[d] = c \o e
    BY <1>1, AtField
  <1>4. c \in Seq(All) /\ e \in Seq(All)
    BY <1>2, <1>3, FieldFirst
  <1> HIDE DEF c, e
  <1>5. Len(c) \in Nat /\ Len(pending[d]) \in Nat /\ Len(c) <= Len(pending[d])
    BY <1>1, <1>2, <1>3, <1>4, LenProperties
  <1>6. /\ SubSeq(pending[d], 1, Len(c)) = c
        /\ SubSeq(pending[d], Len(c) + 1, Len(pending[d])) \in Seq(All)
        /\ SubSeq(pending[d], Len(c) + 1, Len(pending[d])) \o wire[d] = e
    <2>1. PICK a \in Seq(All), b \in Seq(All), x \in Seq(All), z \in Seq(All) : a = pending[d] /\ b = wire[d] /\ x = c /\ z = e
      BY <1>2, <1>4
    <2>2. Splits(a, b, x, z)
      BY <1>3, <1>5, <2>1 DEF Splits
    <2>3. /\ SubSeq(a, 1, Len(x)) = x
          /\ SubSeq(a, Len(x) + 1, Len(a)) \in Seq(All)
          /\ SubSeq(a, Len(x) + 1, Len(a)) \o b = z
      BY <2>2, BehindHead
    <2> QED
      BY <2>1, <2>3
  <1>7. ChunkOf(scrubber, pending[d]) = c
    BY <1>3, <1>6 DEF ChunkOf
  <1>8. pending' = [pending EXCEPT ![d] = SubSeq(pending[d], Len(c) + 1, Len(pending[d]))]
    BY <1>7 DEF Take
  <1>9. recorded' = [recorded EXCEPT ![d] = recorded[d] \o Records(scrubber, c)]
    BY <1>7 DEF Take, Record
  <1>10. Decode(c) = Value(p, at)
    BY <1>2, <1>3, ChunkValue DEF c
  <1>11. scrubber' = Resume(scrubber, Decode(c))
    BY <1>7 DEF Take
  <1>12. scrubber' = Meets(p, scrubber)
    BY <1>10, <1>11 DEF Meets
  <1> QED
    BY <1>1, <1>3, <1>5, <1>6, <1>8, <1>9, <1>12 DEF c, e

\* A chunk preserves it.
LEMMA TakeKeeps ==
  ASSUME IInv, NEW d \in Directions, Take(d)
  PROVE  IInv'
  <1> DEFINE at  == scrubber.at
             o   == Other(d)
             p   == session
             c   == Chunk(p, at)
             y   == SubSeq(pending[d], Nbytes(scrubber) + 1, Len(pending[d]))
             nxt == After(p, at)
             rec == Records(scrubber, c)
  <1>1. phase = "record" /\ Typed /\ Knows(session, scrubber) /\ Follows /\ Account
    <2>1. feeding = d /\ d # "none"
      BY Sides DEF Take, Watches
    <2>2. Typed /\ phase = "record"
      BY <2>1 DEF IInv, Typed
    <2> QED
      BY <2>2 DEF IInv
  <1>2. /\ at \in Points \ {"done"} /\ d = Tap(at) /\ feeding = d
        /\ pending' = [pending EXCEPT ![d] = y]
        /\ y \in Seq(All) /\ y \o wire[d] = Later(p, at, d) /\ Nbytes(scrubber) \in Nat
        /\ recorded' = [recorded EXCEPT ![d] = recorded[d] \o rec]
        /\ scrubber' = Meets(p, scrubber)
    BY <1>1, TakeField
  <1>3. /\ session \in Session /\ scrubber \in Grammar /\ wire \in [Directions -> Seq(All)] /\ pending \in [Directions -> Seq(All)]
        /\ recorded \in [Directions -> Seq(All)] /\ o \in Directions /\ o # d /\ Other(o) = d /\ Directions = {d, o}
    BY <1>1, Sides DEF Typed
  <1>4. /\ phase' = phase /\ session' = session /\ shown' = shown /\ wire' = wire /\ feeding' = feeding
    BY DEF Take
  <1>5. /\ scrubber' \in Grammar /\ scrubber'.preserve = scrubber.preserve /\ scrubber'.at = nxt
        /\ Knows(session, scrubber')
    BY <1>1, <1>2, <1>3, MeetsNext
  <1>6. pending[o] = <<>> /\ wire[o] = Later(p, at, o)
    BY <1>1, <1>2, AtField
  <1>7. c \in Seq(All) /\ \A e : Later(p, at, e) \in Seq(All)
    BY <1>2, <1>3, FieldFirst
  <1>8. rec \in Seq(All)
    BY <1>3, <1>7, RecordsTyped
  <1> HIDE DEF y, c, rec
  <1>9. recorded[d] \o rec \in Seq(All)
    BY <1>3, <1>8, ConcatProperties
  <1>10. /\ pending' \in [Directions -> Seq(All)] /\ pending'[d] = y /\ pending'[o] = <<>>
         /\ recorded' \in [Directions -> Seq(All)] /\ recorded'[d] = recorded[d] \o rec /\ recorded'[o] = recorded[o]
    BY <1>2, <1>3, <1>6, <1>9
  <1>11. Typed'
    <2>1. shown' = Streams(Shown(session', scrubber'.preserve))
      BY <1>1, <1>4, <1>5 DEF Typed
    <2>2. feeding # "none"
      BY <1>2, Sides
    <2> QED
      BY <1>1, <1>3, <1>4, <1>5, <1>10, <2>1, <2>2 DEF Typed
  <1>12. \A e \in Directions : pending'[e] \o wire'[e] = Later(p, at, e)
    <2>1. <<>> \o wire[o] = wire[o]
      BY <1>3, ConcatEmptySeq
    <2> QED
      BY <1>2, <1>3, <1>4, <1>6, <1>10, <2>1
  <1>13. nxt # "done" \/ ~ Strange(p) => \A e \in Directions : pending'[e] \o wire'[e] = Rest(p, nxt, e)
    <2> SUFFICES ASSUME nxt # "done" \/ ~ Strange(p), NEW e \in Directions
                 PROVE  pending'[e] \o wire'[e] = Rest(p, nxt, e)
      OBVIOUS
    <2>1. Later(p, at, e) = Rest(p, nxt, e)
      <3>1. p \in Session /\ scrubber \in Grammar /\ Knows(p, scrubber) /\ scrubber.at # "done"
        BY <1>1, <1>2, <1>3
      <3> QED
        BY <3>1, LaterRest
    <2>2. pending'[e] \o wire'[e] = Later(p, at, e)
      BY <1>12
    <2> QED
      BY <2>1, <2>2
  <1>14. Remaining'
    BY <1>4, <1>5, <1>13 DEF Remaining
  <1>15. wire[o] # <<>> => \A i \in DOMAIN y : Rank[y[i].f] <= Rank[Head(wire[o]).f]
    <2> SUFFICES ASSUME wire[o] # <<>>, NEW i \in DOMAIN y PROVE Rank[y[i].f] <= Rank[Head(wire[o]).f]
      OBVIOUS
    <2>1. \A k \in DOMAIN pending[d] : Rank[pending[d][k].f] <= Rank[Head(wire[o]).f]
      BY <1>1, <1>2, <1>3 DEF Follows, Turns
    <2>2. \E k \in DOMAIN pending[d] : y[i] = pending[d][k]
      <3> DEFINE n == Nbytes(scrubber)
                 m == Len(pending[d])
      <3>1. m \in Nat /\ n \in Nat /\ DOMAIN pending[d] = 1..m /\ \A k \in 1..m : pending[d][k] \in All
        BY <1>2, <1>3, LenProperties
      <3>2. y = SubSeq(pending[d], n + 1, m)
        BY DEF y
      <3> HIDE DEF n, m
      <3>3. \A k \in n + 1..m : pending[d][k] \in All
        BY <3>1
      <3>4. /\ Len(y) = (IF n + 1 <= m THEN m - (n + 1) + 1 ELSE 0)
            /\ \A k \in 1..m - (n + 1) + 1 : y[k] = pending[d][n + 1 + k - 1]
        BY <3>1, <3>2, <3>3, SubSeqProperties
      <3>5. DOMAIN y = 1..Len(y)
        BY <1>2, LenProperties
      <3>6. i \in 1..m - (n + 1) + 1 /\ n + 1 + i - 1 \in 1..m
        BY <3>1, <3>4, <3>5
      <3> QED
        BY <3>1, <3>4, <3>6
    <2> QED
      BY <2>1, <2>2
  <1>16. Turns'
    <2>1. \A e \in Directions : wire[Other(e)]' # <<>> =>
               \A i \in DOMAIN pending'[e] : Rank[pending'[e][i].f] <= Rank[Head(wire[Other(e)]').f]
      <3> TAKE e \in Directions
      <3>1. CASE e = d
        BY <1>4, <1>10, <1>15, <3>1
      <3>2. CASE e = o
        BY <1>10, <3>2
      <3> QED
        BY <1>3, <3>1, <3>2
    <2> QED
      BY <2>1 DEF Turns
  <1>17. nxt # "done" => Nbytes(scrubber') = Size0(p, nxt) /\ Nbytes(scrubber') = Len(Chunk(p, nxt)) /\ nxt \in Points \ {"done"}
    <2> SUFFICES ASSUME nxt # "done"
                 PROVE  Nbytes(scrubber') = Size0(p, nxt) /\ Nbytes(scrubber') = Len(Chunk(p, nxt)) /\ nxt \in Points \ {"done"}
      OBVIOUS
    <2>1. PICK h \in Grammar : h = scrubber'
      BY <1>5
    <2>2. Knows(p, h) /\ h.at = nxt /\ nxt \in Points \ {"done"}
      BY <1>5, <2>1 DEF Grammar
    <2>3. Nbytes(h) = Size0(p, nxt)
      BY <1>3, <2>2, MeetsNext
    <2>4. Len(Chunk(p, nxt)) = Size0(p, nxt)
      BY <1>3, <2>2, FieldFirst
    <2> QED
      BY <2>1, <2>2, <2>3, <2>4
  <1>18. nxt # "done" /\ Tap(nxt) # d => y = <<>> /\ Nbytes(scrubber') > 0
    <2> SUFFICES ASSUME nxt # "done", Tap(nxt) # d PROVE y = <<>> /\ Nbytes(scrubber') > 0
      OBVIOUS
    <2>1. Tap(nxt) = o /\ Other(Tap(nxt)) = d
      BY <1>3, Sides
    <2>2. Size0(p, nxt) > 0
      BY <1>1, <1>2, <1>3, TapSwitch
    <2>3. wire[o] = Rest(p, nxt, o)
      <3>1. pending'[o] \o wire'[o] = Rest(p, nxt, o)
        BY <1>3, <1>13
      <3>2. <<>> \o wire[o] = wire[o]
        BY <1>3, ConcatEmptySeq
      <3> QED
        BY <1>4, <1>10, <3>1, <3>2
    <2>4. /\ Rest(p, nxt, o) = Chunk(p, nxt) \o Later(p, nxt, o) /\ Rest(p, nxt, d) = Later(p, nxt, d)
          /\ Chunk(p, nxt) \in Seq(All) /\ Len(Chunk(p, nxt)) = Size0(p, nxt)
          /\ \A i \in 1..Size0(p, nxt) : Chunk(p, nxt)[i].f = nxt
          /\ Later(p, nxt, o) \in Seq(All)
          /\ \A i \in DOMAIN Later(p, nxt, d) : Rank[Later(p, nxt, d)[i].f] \in Nat /\ Rank[nxt] < Rank[Later(p, nxt, d)[i].f]
      BY <1>3, <1>17, <2>1, FieldFirst
    <2>5. wire[o] # <<>> /\ Head(wire[o]).f = nxt
      <3>1. PICK a \in Seq(All) : a = <<>> /\ Len(a) = 0
        BY EmptySeq
      <3>2. wire[o] \in Seq(All) /\ a \o wire[o] = wire[o]
        BY <1>3, <3>1, ConcatEmptySeq
      <3>3. a \o wire[o] = Chunk(p, nxt) \o Later(p, nxt, o) /\ Len(a) < Len(Chunk(p, nxt))
        BY <2>2, <2>3, <2>4, <3>1, <3>2
      <3>4. wire[o] # <<>> /\ Len(a) + 1 \in 1..Len(Chunk(p, nxt)) /\ Head(wire[o]) = Chunk(p, nxt)[Len(a) + 1]
        BY <2>4, <3>2, <3>3, NextByte
      <3> QED
        BY <2>4, <3>4
    <2>6. ASSUME y # <<>> PROVE FALSE
      <3>1. y \o wire[d] = Later(p, nxt, d)
        BY <1>3, <1>4, <1>10, <1>13, <2>4
      <3>2. Len(y) \in Nat /\ Len(y) > 0 /\ 1 \in DOMAIN y /\ Len(wire[d]) \in Nat
        BY <1>2, <1>3, <2>6, EmptySeq, LenProperties
      <3>3. 1 \in 1..Len(y) + Len(wire[d]) /\ 1 <= Len(y)
        BY <3>2
      <3>4. (y \o wire[d])[1] = y[1] /\ 1 \in DOMAIN (y \o wire[d])
        <4>1. PICK a \in Seq(All), b \in Seq(All) : a = y /\ b = wire[d]
          BY <1>2, <1>3
        <4>2. /\ a \o b \in Seq(All) /\ Len(a \o b) = Len(a) + Len(b)
              /\ \A i \in 1..Len(a) + Len(b) : (a \o b)[i] = IF i <= Len(a) THEN a[i] ELSE b[i - Len(a)]
          BY ConcatProperties
        <4>3. DOMAIN (a \o b) = 1..Len(a \o b)
          BY <4>2, LenProperties
        <4>4. 1 \in 1..Len(a) + Len(b) /\ 1 <= Len(a)
          BY <3>3, <4>1
        <4>5. (a \o b)[1] = a[1] /\ 1 \in DOMAIN (a \o b)
          BY <4>2, <4>3, <4>4
        <4> QED
          BY <4>1, <4>5
      <3>5. Rank[y[1].f] \in Nat /\ Rank[nxt] < Rank[y[1].f]
        BY <2>4, <3>1, <3>4
      <3>6. Rank[y[1].f] <= Rank[nxt]
        BY <1>15, <2>5, <3>2
      <3>7. Rank[nxt] \in Nat
        BY <1>3, <1>17, FieldFacts
      <3> QED
        BY <3>5, <3>6, <3>7
    <2> QED
      BY <1>17, <2>2, <2>6
  <1>19. Quiet'
    <2>1. nxt # "done" => pending'[Other(Tap(nxt))] = <<>>
      BY <1>3, <1>10, <1>18, Sides
    <2>2. nxt # "done" /\ feeding' # Tap(nxt) => Len(pending'[Tap(nxt)]) < Nbytes(scrubber')
      <3> SUFFICES ASSUME nxt # "done", feeding' # Tap(nxt) PROVE Len(pending'[Tap(nxt)]) < Nbytes(scrubber')
        OBVIOUS
      <3>1. Tap(nxt) = o
        BY <1>2, <1>3, <1>4, Sides
      <3>2. Nbytes(scrubber') > 0
        BY <1>3, <1>18, <3>1
      <3>3. Len(pending'[o]) = 0
        BY <1>10, EmptySeq
      <3> QED
        BY <3>1, <3>2, <3>3
    <2>3. \A e \in Directions : e # feeding' => pending'[e] = <<>>
      BY <1>2, <1>3, <1>4, <1>10
    <2>4. nxt = "done" /\ CutShort(p) /\ ~ Strange(p) => \A e \in Directions : wire'[e] = <<>> /\ pending'[e] = <<>>
      <3> SUFFICES ASSUME nxt = "done", CutShort(p), ~ Strange(p), NEW e \in Directions
                   PROVE  wire'[e] = <<>> /\ pending'[e] = <<>>
        OBVIOUS
      <3>1. pending'[e] \o wire'[e] = <<>>
        BY <1>3, <1>13, NothingLater
      <3>2. pending'[e] \in Seq(All) /\ wire'[e] \in Seq(All)
        BY <1>3, <1>4, <1>10
      <3> QED
        BY <3>1, <3>2, ConcatEqualIffEmpty
    <2> QED
      BY <1>4, <1>5, <2>1, <2>2, <2>3, <2>4 DEF Quiet
  <1>20. Account'
    <2>1. CASE scrubber.preserve
      <3>1. rec = c
        <4>1. Records(scrubber, c) = c
          BY <2>1 DEF Records
        <4> QED
          BY <4>1 DEF rec
      <3>2. \A e \in Directions : Due(e) = pending[e] \o wire[e] /\ Due(e)' = pending'[e] \o wire'[e]
        BY <1>5, <2>1 DEF Due
      <3>3. recorded'[d] \o Due(d)' = recorded[d] \o Due(d)
        <4>1. pending[d] \o wire[d] = c \o Later(p, at, d)
          BY <1>1, <1>2, AtField DEF c
        <4>2. PICK r \in Seq(All), s \in Seq(All), w \in Seq(All) : r = recorded[d] /\ s = c /\ w = Later(p, at, d)
          BY <1>3, <1>7
        <4>3. (r \o s) \o w = r \o (s \o w)
          BY ConcatAssociative
        <4>4. pending'[d] \o wire'[d] = Later(p, at, d)
          BY <1>3, <1>12
        <4> QED
          BY <1>3, <1>10, <3>1, <3>2, <4>1, <4>2, <4>3, <4>4
      <3>4. recorded'[o] \o Due(o)' = recorded[o] \o Due(o)
        <4>1. <<>> \o wire[o] = wire[o]
          BY <1>3, ConcatEmptySeq
        <4> QED
          BY <1>3, <1>4, <1>6, <1>10, <3>2
      <3> QED
        BY <1>1, <1>3, <1>4, <3>3, <3>4 DEF Account
    <2>2. CASE ~ scrubber.preserve
      <3>1. \A e \in Directions : ShownRest(p, at, e) = Written(p, scrubber, e) \o Outstanding(p, nxt, e)
        BY <1>1, <1>2, <1>3, <2>2, ShownStep
      <3>2. Written(p, scrubber, d) = rec /\ Written(p, scrubber, o) = <<>>
        BY <1>2, <1>3 DEF Written, rec, c
      <3>3. nxt \in Points
        BY <1>5 DEF Grammar
      <3>4. \A e \in Directions : Outstanding(p, nxt, e) \in Seq(All)
        BY <1>3, <3>3, OutstandingFacts
      <3>5. \A e \in Directions : Due(e) = ShownRest(p, at, e)
        BY <1>2, <2>2 DEF Due
      <3>6. \A e \in Directions : Due(e)' = Outstanding(p, nxt, e)
        <4> SUFFICES ASSUME NEW e \in Directions PROVE Due(e)' = Outstanding(p, nxt, e)
          OBVIOUS
        <4>1. CASE nxt # "done" \/ Strange(p)
          BY <1>4, <1>5, <2>2, <4>1 DEF Due, Outstanding
        <4>2. CASE ~ (nxt # "done" \/ Strange(p))
          <5>1. CASE CutShort(p)
            BY <1>4, <1>5, <2>2, <4>2, <5>1 DEF Due, Outstanding
          <5>2. CASE ~ CutShort(p)
            <6>1. pending'[e] \o wire'[e] = Closing(p, e)
              BY <1>13, <4>2 DEF Rest
            <6> QED
              BY <1>4, <1>5, <2>2, <4>2, <5>2, <6>1 DEF Due, Outstanding
          <5> QED
            BY <5>1, <5>2
        <4> QED
          BY <4>1, <4>2
      <3>7. recorded'[d] \o Due(d)' = recorded[d] \o Due(d)
        <4>1. PICK r \in Seq(All), s \in Seq(All), w \in Seq(All) : r = recorded[d] /\ s = rec /\ w = Outstanding(p, nxt, d)
          BY <1>3, <1>8, <3>4
        <4>2. (r \o s) \o w = r \o (s \o w)
          BY ConcatAssociative
        <4>3. Due(d) = s \o w
          BY <3>1, <3>2, <3>5, <4>1
        <4>4. Due(d)' = w
          BY <3>6, <4>1
        <4> QED
          BY <1>10, <4>1, <4>2, <4>3, <4>4
      <3>8. recorded'[o] \o Due(o)' = recorded[o] \o Due(o)
        <4>1. <<>> \o Outstanding(p, nxt, o) = Outstanding(p, nxt, o)
          BY <1>3, <3>4, ConcatEmptySeq
        <4>2. Due(o) = Outstanding(p, nxt, o)
          BY <1>3, <3>1, <3>2, <3>5, <4>1
        <4>3. Due(o)' = Outstanding(p, nxt, o)
          BY <1>3, <3>6
        <4> QED
          BY <1>10, <4>2, <4>3
      <3> QED
        BY <1>1, <1>3, <1>4, <3>7, <3>8 DEF Account
    <2> QED
      BY <2>1, <2>2
  <1> QED
    BY <1>1, <1>4, <1>5, <1>11, <1>14, <1>16, <1>19, <1>20 DEF IInv, Follows

-----------------------------------------------------------------------------
(* The connection is lost; what follows from the invariant *)

\* A lost connection preserves it.
LEMMA LostKeeps ==
  ASSUME IInv, ConnectionLost
  PROVE  IInv'
  <1>1. phase = "record" /\ feeding = "none" /\ Typed /\ Knows(session, scrubber) /\ Follows /\ Account
    BY DEF ConnectionLost, IInv
  <1>2. session \in Session /\ scrubber \in Grammar /\ wire \in [Directions -> Seq(All)] /\ pending \in [Directions -> Seq(All)]
        /\ recorded \in [Directions -> Seq(All)] /\ ~ scrubber.abort /\ scrubber.preserve \in BOOLEAN
    BY <1>1 DEF Typed, Grammar
  <1>3. /\ session' = session /\ shown' = shown /\ wire' = wire /\ feeding' = feeding /\ scrubber' = scrubber
        /\ phase' \in {"archived", "dropped"}
        /\ recorded' = [d \in Directions |-> recorded[d] \o Flush(d)] /\ pending' = [d \in Directions |-> <<>>]
    BY DEF ConnectionLost
  <1>4. \A d \in Directions : Flush(d) \in Seq(All) /\ recorded[d] \o Flush(d) \in Seq(All)
    <2>1. \A d \in Directions : Flush(d) \in Seq(All)
      BY <1>2, EmptySeq DEF Flush
    <2> QED
      BY <1>2, <2>1, ConcatProperties
  <1>5. recorded' \in [Directions -> Seq(All)] /\ pending' \in [Directions -> Seq(All)]
        /\ \A d \in Directions : recorded'[d] = recorded[d] \o Flush(d)
    BY <1>3, <1>4, EmptySeq
  <1>6. Typed'
    BY <1>1, <1>2, <1>3, <1>5 DEF Typed
  <1>7. scrubber.at = "done" /\ Strange(session) => scrubber.preserve
    <2>1. scrubber.abort = (scrubber.at = "done" /\ Strange(session) /\ ~ scrubber.preserve)
      BY <1>1 DEF Knows
    <2> QED
      BY <1>2, <2>1
  <1>8. ASSUME NEW d \in Directions, Due(d) = pending[d] \o wire[d], Flush(d) = pending[d]
        PROVE  recorded'[d] \o wire[d] = shown[d]
    <2>1. recorded[d] \o Due(d) = shown[d]
      BY <1>1 DEF Account
    <2>2. PICK r \in Seq(All), s \in Seq(All), w \in Seq(All) : r = recorded[d] /\ s = pending[d] /\ w = wire[d]
      BY <1>2
    <2>3. (r \o s) \o w = r \o (s \o w)
      BY ConcatAssociative
    <2> QED
      BY <1>5, <1>8, <2>1, <2>2, <2>3
  <1>9. ASSUME NEW d \in Directions PROVE \E rest \in Seq(All) : recorded'[d] \o rest = shown[d]
    <2>1. CASE scrubber.preserve
      <3>1. Due(d) = pending[d] \o wire[d] /\ Flush(d) = pending[d]
        BY <2>1 DEF Due, Flush
      <3> QED
        BY <1>2, <1>8, <3>1
    <2>2. CASE ~ scrubber.preserve /\ scrubber.at # "done"
      <3>1. Due(d) = ShownRest(session, scrubber.at, d) /\ Flush(d) = <<>>
        BY <2>2 DEF Due, Flush
      <3>2. ShownRest(session, scrubber.at, d) \in Seq(All)
        BY <1>2, OutstandingFacts DEF Grammar
      <3>3. recorded[d] \o <<>> = recorded[d]
        BY <1>2, ConcatEmptySeq
      <3> QED
        BY <1>1, <1>5, <3>1, <3>2, <3>3 DEF Account
    <2>3. CASE ~ scrubber.preserve /\ scrubber.at = "done"
      <3>1. ~ Strange(session) /\ pending[d] = <<>> /\ Flush(d) = pending[d]
        <4>1. ~ Strange(session) /\ Flush(d) = pending[d]
          BY <1>7, <2>3 DEF Flush
        <4>2. d # feeding
          BY <1>1, Sides
        <4> QED
          BY <1>1, <2>3, <4>1, <4>2 DEF Follows, Quiet
      <3>2. CASE CutShort(session)
        <4>1. Due(d) = Opening(Shown(session, FALSE), d)
          BY <2>3, <3>1, <3>2 DEF Due
        <4>2. Opening(Shown(session, FALSE), d) \in Seq(All)
          BY <1>2, ShownSession, DueOrdered
        <4>3. recorded[d] \o <<>> = recorded[d]
          BY <1>2, ConcatEmptySeq
        <4> QED
          BY <1>1, <1>5, <3>1, <4>1, <4>2, <4>3 DEF Account
      <3>3. CASE ~ CutShort(session)
        <4>1. Due(d) = pending[d] \o wire[d]
          BY <2>3, <3>1, <3>3 DEF Due
        <4> QED
          BY <1>2, <1>8, <3>1, <4>1
      <3> QED
        BY <3>2, <3>3
    <2> QED
      BY <2>1, <2>2, <2>3
  <1>10. ASSUME ~ scrubber.preserve, scrubber.at = "done", scrubber.sized, NEW d \in Directions
         PROVE  recorded'[d] \o wire[d] = shown[d]
    <2>1. ~ Refused(session) /\ ~ Strange(session)
      BY <1>1, <1>10 DEF Knows
    <2>2. ~ CutShort(session)
      BY <2>1 DEF CutShort
    <2>3. Due(d) = pending[d] \o wire[d] /\ Flush(d) = pending[d]
      BY <1>10, <2>1, <2>2 DEF Due, Flush
    <2> QED
      BY <1>8, <2>3
  <1>11. Kept'
    BY <1>3, <1>9, <1>10 DEF Kept
  <1> QED
    BY <1>3, <1>6, <1>11 DEF IInv

\* No byte of an authentication.
Clean(s) == s \in Seq(All) /\ \A i \in DOMAIN s : s[i].f \notin Exchange \cup {"ask", "secret"}

\* Fields one after the other are clean if each is,
LEMMA CleanConcat ==
  ASSUME NEW a, NEW b, Clean(a), Clean(b)
  PROVE  Clean(a \o b)
  <1>1. a \in Seq(All) /\ b \in Seq(All)
    BY DEF Clean
  <1>2. /\ a \o b \in Seq(All) /\ Len(a \o b) = Len(a) + Len(b)
        /\ \A i \in 1..Len(a) + Len(b) : (a \o b)[i] = IF i <= Len(a) THEN a[i] ELSE b[i - Len(a)]
    BY <1>1, ConcatProperties
  <1>3. Len(a) \in Nat /\ Len(b) \in Nat /\ DOMAIN a = 1..Len(a) /\ DOMAIN b = 1..Len(b) /\ DOMAIN (a \o b) = 1..Len(a \o b)
    BY <1>1, <1>2, LenProperties
  <1>4. ASSUME NEW i \in DOMAIN (a \o b) PROVE (a \o b)[i].f \notin Exchange \cup {"ask", "secret"}
    <2>1. i \in 1..Len(a) + Len(b)
      BY <1>2, <1>3
    <2>2. CASE i <= Len(a)
      <3>1. i \in DOMAIN a /\ (a \o b)[i] = a[i]
        BY <1>2, <1>3, <2>1, <2>2
      <3> QED
        BY <3>1 DEF Clean
    <2>3. CASE ~ (i <= Len(a))
      <3>1. i - Len(a) \in DOMAIN b
        BY <1>3, <2>1, <2>3
      <3>2. (a \o b)[i] = b[i - Len(a)]
        BY <1>2, <2>1, <2>3
      <3> QED
        BY <3>1, <3>2 DEF Clean
    <2> QED
      BY <2>2, <2>3
  <1> QED
    BY <1>2, <1>4 DEF Clean

\* as is any field outside the exchange,
LEMMA CleanSays ==
  ASSUME NEW d, NEW f \in DOMAIN Rank, f \notin Exchange \cup {"ask", "secret"}, NEW n \in Nat, NEW v \in Nat
  PROVE  Clean(Says(d, f, n, v))
  <1>1. v \in Vals
    BY DEF Vals
  <1>2. Bytes(f, n, v) \in Seq(All) /\ Len(Bytes(f, n, v)) = n /\ \A i \in 1..n : Bytes(f, n, v)[i] = [f |-> f, v |-> v]
    BY <1>1, BytesFacts
  <1>3. DOMAIN Bytes(f, n, v) = 1..n
    BY <1>2, LenProperties
  <1>4. \A i \in 1..n : Bytes(f, n, v)[i].f = f
    BY <1>2
  <1>5. Clean(Bytes(f, n, v))
    BY <1>2, <1>3, <1>4 DEF Clean
  <1>6. Clean(<<>>)
    BY EmptySeq DEF Clean
  <1> QED
    BY <1>5, <1>6 DEF Says

\* that is each of these.
LEMMA CleanFields ==
  ASSUME NEW d, NEW n \in Nat, NEW v \in Nat
  PROVE  /\ Clean(Says(d, "version", n, v)) /\ Clean(Says(d, "reply", n, v)) /\ Clean(Says(d, "count", n, v))
         /\ Clean(Says(d, "types", n, v)) /\ Clean(Says(d, "choice", n, v)) /\ Clean(Says(d, "auth", n, v))
         /\ Clean(Says(d, "result", n, v)) /\ Clean(Says(d, "reason", n, v)) /\ Clean(Says(d, "init", n, v))
         /\ Clean(Says(d, "serverinit", n, v)) /\ Clean(Says(d, "name", n, v)) /\ Clean(Bytes("screen", n, v))
  <1>1. \A f \in {"version", "reply", "count", "types", "choice", "auth", "result", "reason", "init", "serverinit", "name", "screen"} :
           f \in DOMAIN Rank /\ f \notin Exchange \cup {"ask", "secret"}
    BY RankFacts DEF Exchange
  <1>2. \A f \in {"version", "reply", "count", "types", "choice", "auth", "result", "reason", "init", "serverinit", "name"} :
           Clean(Says(d, f, n, v))
    BY <1>1, CleanSays
  <1>3. Clean(Bytes("screen", n, v))
    <2>1. Clean(Says(From("screen"), "screen", n, v))
      BY <1>1, CleanSays
    <2> QED
      BY <2>1 DEF Says
  <1> QED
    BY <1>2, <1>3

\* A session that asks for nothing has no authentication in it.
LEMMA ShownClean ==
  ASSUME NEW p \in Session, NEW d \in Directions, p.sec \in {NONE, INVALID}
  PROVE  Clean(Streams(p)[d])
  <1>1. /\ p.reply \in Nat /\ p.types \in Nat /\ p.sec \in Nat /\ 0 \in Nat /\ 1 \in Nat /\ 2 \in Nat /\ 4 \in Nat
        /\ 12 \in Nat /\ 24 \in Nat /\ 3008 \in Nat
    BY SessionFacts
  <1>2. Clean(<<>>)
    BY EmptySeq DEF Clean
  <1>3. Clean(Reason(d))
    BY <1>1, CleanFields DEF Reason
  <1>4. Clean(Screen(p, d))
    <2>1. p.inputs \in Scripted
      BY DEF Session
    <2>2. "input" \notin Exchange \cup {"ask", "secret"}
      BY DEF Exchange
    <2>3. Clean(Messages(p.inputs))
      BY <2>1, <2>2, MessagesFacts DEF Clean
    <2>4. Clean(Bytes("screen", 2, 0))
      BY <1>1, CleanFields
    <2> QED
      BY <2>3, <2>4 DEF Screen
  <1>5. Clean(Opening(p, d))
    <2>1. Clean(Says(d, "init", 1, 1)) /\ Clean(Says(d, "serverinit", 24, 2)) /\ Clean(Says(d, "name", 2, 0))
      BY <1>1, CleanFields
    <2>2. Clean(Says(d, "name", 2, 0) \o Screen(p, d))
      BY <1>4, <2>1, CleanConcat
    <2>3. Clean(Says(d, "serverinit", 24, 2) \o (Says(d, "name", 2, 0) \o Screen(p, d)))
      BY <2>1, <2>2, CleanConcat
    <2> QED
      BY <2>1, <2>3, CleanConcat DEF Opening
  <1>6. Clean(Verdict(p, d))
    <2>1. Clean(Says(d, "result", 4, 0)) /\ Clean(Says(d, "result", 4, 1))
      BY <1>1, CleanFields
    <2>2. Clean(Says(d, "result", 4, 0) \o Opening(p, d))
      BY <1>5, <2>1, CleanConcat
    <2>3. Clean(IF Version(p) >= 3008 THEN Reason(d) ELSE <<>>)
      BY <1>2, <1>3
    <2>4. Clean(Says(d, "result", 4, 1) \o (IF Version(p) >= 3008 THEN Reason(d) ELSE <<>>))
      BY <2>1, <2>3, CleanConcat
    <2> QED
      BY <1>5, <2>2, <2>4 DEF Verdict
  <1>7. p.sec # INVALID => Proof(p, d) = Verdict(p, d)
    <2>1. NONE # VNC_AUTHENTICATION /\ NONE # DIFFIE_HELLMAN
      BY DEF NONE, VNC_AUTHENTICATION, DIFFIE_HELLMAN
    <2> QED
      BY <2>1 DEF Proof
  <1>8. Clean(Offer(p, d))
    <2>1. /\ Clean(Says(d, "auth", 4, p.sec)) /\ Clean(Says(d, "count", 1, 0)) /\ Clean(Says(d, "count", 1, p.types))
          /\ Clean(Says(d, "types", p.types, p.sec)) /\ Clean(Says(d, "choice", 1, p.sec))
      BY <1>1, CleanFields
    <2> DEFINE after == IF p.sec = INVALID THEN Reason(d) ELSE Proof(p, d)
    <2>2. Clean(after)
      BY <1>3, <1>6, <1>7
    <2> HIDE DEF after
    <2>3. Clean(Says(d, "auth", 4, p.sec) \o after)
      BY <2>1, <2>2, CleanConcat
    <2>4. Clean(Says(d, "count", 1, 0) \o Reason(d))
      BY <1>3, <2>1, CleanConcat
    <2>5. p.sec # INVALID => Clean(Says(d, "choice", 1, p.sec) \o Proof(p, d))
      BY <1>6, <1>7, <2>1, CleanConcat
    <2>6. p.sec # INVALID => Clean(Says(d, "types", p.types, p.sec) \o (Says(d, "choice", 1, p.sec) \o Proof(p, d)))
      BY <2>1, <2>5, CleanConcat
    <2>7. p.sec # INVALID =>
             Clean(Says(d, "count", 1, p.types) \o (Says(d, "types", p.types, p.sec) \o (Says(d, "choice", 1, p.sec) \o Proof(p, d))))
      BY <2>1, <2>6, CleanConcat
    <2> QED
      BY <2>3, <2>4, <2>7 DEF Offer, after
  <1>9. Clean(Says(d, "version", 12, 3008)) /\ Clean(Says(d, "reply", 12, p.reply))
    BY <1>1, CleanFields
  <1>10. Clean(Says(d, "reply", 12, p.reply) \o Offer(p, d))
    BY <1>8, <1>9, CleanConcat
  <1>11. Clean(Says(d, "version", 12, 3008) \o (Says(d, "reply", 12, p.reply) \o Offer(p, d)))
    BY <1>9, <1>10, CleanConcat
  <1> QED
    BY <1>11 DEF Streams

\* The recording is the beginning of the session shown.
LEMMA Begins ==
  ASSUME IInv, phase # "dropped", NEW d \in Directions
  PROVE  \E rest \in Seq(All) : recorded[d] \o rest = shown[d]
  <1>1. Typed /\ session \in Session /\ scrubber \in Grammar /\ wire[d] \in Seq(All) /\ pending[d] \in Seq(All)
    BY DEF IInv, Typed
  <1>2. CASE phase = "archived"
    BY <1>2 DEF IInv, Kept
  <1>3. CASE phase = "record"
    <2>1. recorded[d] \o Due(d) = shown[d]
      BY <1>3 DEF IInv, Account
    <2>2. ShownRest(session, scrubber.at, d) \in Seq(All)
      BY <1>1, OutstandingFacts DEF Grammar
    <2>3. Opening(Shown(session, FALSE), d) \in Seq(All)
      BY <1>1, ShownSession, DueOrdered
    <2>4. pending[d] \o wire[d] \in Seq(All)
      BY <1>1, ConcatProperties
    <2>5. Due(d) \in Seq(All)
      BY <2>2, <2>3, <2>4 DEF Due
    <2> QED
      BY <2>1, <2>5
  <1> QED
    BY <1>1, <1>2, <1>3 DEF Typed

\* What a sequence begins with is a prefix of it.
LEMMA Prefixed ==
  ASSUME NEW r \in Seq(All), NEW rest \in Seq(All), NEW s, s = r \o rest
  PROVE  /\ IsPrefix(r, s) /\ \A i \in DOMAIN r : i \in DOMAIN s /\ s[i] = r[i]
         /\ Len(s) = Len(r) + Len(rest)
  <1> DEFINE n == Len(r)
             m == Len(rest)
  <1>1. n \in Nat /\ m \in Nat /\ DOMAIN r = 1..n
    BY LenProperties
  <1>2. s \in Seq(All) /\ Len(s) = n + m /\ \A i \in 1..n + m : s[i] = IF i <= n THEN r[i] ELSE rest[i - n]
    BY ConcatProperties
  <1>3. DOMAIN s = 1..n + m
    BY <1>2, LenProperties
  <1> HIDE DEF m
  <1>4. \A i \in DOMAIN r : i \in DOMAIN s /\ s[i] = r[i]
    BY <1>1, <1>2, <1>3
  <1>5. \A i \in 1..n : s[i] \in All /\ r[i] \in All
    BY <1>1, <1>4, ElementOfSeq
  <1>6. SubSeq(s, 1, n) = r /\ SubSeq(r, 1, n) = r
    <2>1. /\ SubSeq(s, 1, n) \in Seq(All) /\ Len(SubSeq(s, 1, n)) = (IF 1 <= n THEN n - 1 + 1 ELSE 0)
          /\ \A i \in 1..n - 1 + 1 : SubSeq(s, 1, n)[i] = s[1 + i - 1]
      BY <1>1, <1>5, SubSeqProperties
    <2> DEFINE x == SubSeq(s, 1, n)
    <2>2. x \in Seq(All) /\ Len(x) = n /\ \A i \in 1..n : x[i] = s[i]
      <3> HIDE DEF n
      <3> QED
        BY <1>1, <2>1
    <2> HIDE DEF x
    <2>3. x = r
      BY <1>1, <1>4, <2>2, SeqEqual
    <2> QED
      BY <2>3, SubSeqFull DEF x
  <1>7. n <= Len(s)
    BY <1>1, <1>2
  <1> QED
    BY <1>2, <1>4, <1>6, <1>7 DEF IsPrefix, m

\* No byte of an exchange is recorded, since the session shown has none.
LEMMA InvariantNoSecret == IInv => NoSecret
  <1> SUFFICES ASSUME IInv, ~ scrubber.preserve, phase # "dropped", NEW d \in Directions, NEW i \in DOMAIN recorded[d]
               PROVE  recorded[d][i].f \notin Exchange \cup {"ask", "secret"}
    BY DEF NoSecret
  <1>1. session \in Session /\ scrubber.preserve = FALSE /\ shown = Streams(Shown(session, scrubber.preserve))
        /\ recorded[d] \in Seq(All)
    BY DEF IInv, Typed, Grammar
  <1> DEFINE q == Shown(session, FALSE)
  <1>2. q \in Session /\ q.sec \in {NONE, INVALID} /\ shown = Streams(q)
    BY <1>1, ShownSession
  <1> HIDE DEF q
  <1>3. Clean(shown[d])
    BY <1>2, ShownClean
  <1>4. PICK rest \in Seq(All) : recorded[d] \o rest = shown[d]
    BY Begins
  <1>5. i \in DOMAIN shown[d] /\ shown[d][i] = recorded[d][i]
    BY <1>1, <1>4, Prefixed
  <1> QED
    BY <1>3, <1>5 DEF Clean

\* The recording is the beginning of the session it shows.
LEMMA InvariantRecords == IInv => RecordsSession
  <1> SUFFICES ASSUME IInv, phase # "dropped" PROVE RecordsSession
    BY DEF RecordsSession
  <1>1. Typed /\ session \in Session /\ scrubber \in Grammar /\ phase \in {"record", "archived"}
        /\ wire \in [Directions -> Seq(All)] /\ pending \in [Directions -> Seq(All)] /\ recorded \in [Directions -> Seq(All)]
    BY DEF IInv, Typed
  <1>2. \A d \in Directions : IsPrefix(recorded[d], shown[d])
    <2> TAKE d \in Directions
    <2>1. PICK rest \in Seq(All) : recorded[d] \o rest = shown[d]
      BY Begins
    <2>2. recorded[d] \in Seq(All)
      BY <1>1
    <2> QED
      BY <2>1, <2>2, Prefixed
  <1>3. ASSUME ~ (scrubber.preserve /\ phase = "archived"), scrubber.at = "done", scrubber.sized, feeding = "none",
               NEW d \in Directions
        PROVE  Len(recorded[d]) + Len(wire[d]) = Len(shown[d])
    <2>1. recorded[d] \o wire[d] = shown[d]
      <3>1. CASE phase = "archived"
        BY <1>3, <3>1 DEF IInv, Kept
      <3>2. CASE phase = "record"
        <4>1. Knows(session, scrubber) /\ Follows /\ Account
          BY <3>2 DEF IInv
        <4>2. ~ Refused(session) /\ ~ Strange(session)
          BY <1>3, <4>1 DEF Knows
        <4>3. ~ CutShort(session)
          BY <4>2 DEF CutShort
        <4>4. pending[d] = <<>>
          BY <1>3, <4>1, <4>2, Sides DEF Follows, Quiet
        <4>5. Due(d) = pending[d] \o wire[d]
          BY <1>3, <4>2, <4>3 DEF Due
        <4>6. <<>> \o wire[d] = wire[d]
          BY <1>1, ConcatEmptySeq
        <4> QED
          BY <4>1, <4>4, <4>5, <4>6 DEF Account
      <3> QED
        BY <1>1, <3>1, <3>2
    <2>2. PICK r \in Seq(All), w \in Seq(All) : r = recorded[d] /\ w = wire[d]
      BY <1>1
    <2>3. Len(r \o w) = Len(r) + Len(w)
      BY ConcatProperties
    <2> QED
      BY <2>1, <2>2, <2>3
  <1> QED
    BY <1>2, <1>3 DEF RecordsSession

\* The replay does not touch the capture.
LEMMA SameCapture ==
  ASSUME IInv, UNCHANGED capture
  PROVE  IInv'
  <1>1. /\ phase' = phase /\ session' = session /\ shown' = shown /\ wire' = wire /\ feeding' = feeding
        /\ pending' = pending /\ scrubber' = scrubber /\ recorded' = recorded
    BY DEF capture
  <1>2. Typed' = Typed
    BY <1>1 DEF Typed
  <1>3. Follows' = Follows
    BY <1>1 DEF Follows, Remaining, Turns, Quiet
  <1>4. Account' = Account
    BY <1>1 DEF Account, Due
  <1>5. Kept' = Kept
    BY <1>1 DEF Kept
  <1> QED
    BY <1>1, <1>2, <1>3, <1>4, <1>5 DEF IInv

\* Every step preserves the invariant.
LEMMA StepKeeps == IInv /\ [Next]_vars => IInv'
  <1> SUFFICES ASSUME IInv, [Next]_vars PROVE IInv'
    OBVIOUS
  <1>1. CASE RecordNext
    <2>1. CASE \E d \in Directions : Take(d)
      BY <2>1, TakeKeeps
    <2>2. CASE \E d \in Directions : FeedEnds(d)
      BY <2>2, FeedEndsKeeps
    <2>3. CASE \E d \in Directions : \E n \in Cuts(wire[d], wire[Other(d)]) : Deliver(d, n)
      BY <2>3, DeliverKeeps
    <2>4. CASE ConnectionLost
      BY <2>4, LostKeeps
    <2> QED
      BY <1>1, <2>1, <2>2, <2>3, <2>4 DEF RecordNext
  <1>2. CASE ~ RecordNext
    <2>1. UNCHANGED capture
      <3>1. CASE \E reply \in Replies \ {0}, messages \in Scripts : Connect(reply, messages)
        BY <3>1 DEF Connect
      <3>2. CASE Advance
        BY <3>2 DEF Advance, WriteChunk, ReadChunk, Expect, SkipMessage, SeeRequest, AwaitRequest, ServeRest, Exhaust
      <3>3. CASE \E n \in Answers : Receive(n)
        BY <3>3 DEF Receive
      <3>4. CASE Disconnect
        BY <3>4 DEF Disconnect
      <3>5. CASE UNCHANGED vars
        BY <3>5 DEF vars
      <3> QED
        BY <1>2, <3>1, <3>2, <3>3, <3>4, <3>5 DEF Next
    <2> QED
      BY <2>1, SameCapture
  <1> QED
    BY <1>1, <1>2

\* The inductive invariant of the capture (capture.py:HandshakeScrubber,
\* CaptureWriter): what is held back and what is still to come are the rest of
\* the session from the scrubber's point on.
THEOREM CaptureInvariant == Spec => []IInv
  <1>1. Init => IInv
    BY InitKeeps DEF Init
  <1> QED
    BY <1>1, StepKeeps, PTL DEF Spec

\* Credentials never reach disk, whatever the security type, the version and the
\* sizes, and however TCP cuts the stream (capture.py:HandshakeScrubber).
THEOREM NoSecretEver == Spec => []NoSecret
  BY CaptureInvariant, InvariantNoSecret, PTL

\* The recording is at every moment the beginning of the session it shows, and
\* nothing is held back once the handshake is over (capture.py:_feed, _run).
THEOREM AlwaysRecordsSession == Spec => []RecordsSession
  BY CaptureInvariant, InvariantRecords, PTL
==============================================================================
