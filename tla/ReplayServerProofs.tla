-------------------------- MODULE ReplayServerProofs --------------------------
(***************************************************************************)
(* Proofs about ReplayServer: the recording is paced by what the live      *)
(* client says, for any archive RawCapture can write, any messages of the  *)
(* client and any cuts.  The grammar of the live session is where the      *)
(* recorded session is, for the bytes of the recording and for those of    *)
(* the client alike; so a recorded byte is of the field the grammar waits  *)
(* for, and all the client has still to say comes after it.  Behind the    *)
(* handshake it is the messages of the client that are followed, from the  *)
(* beginning of one to the beginning of the next.                          *)
(*                                                                         *)
(* And about vnclog, as it listens while the session is recorded: its      *)
(* reading of the client is where the client is, whatever the cuts.        *)
(***************************************************************************)
EXTENDS RawCaptureProofs, WellFoundedInduction

-----------------------------------------------------------------------------
(* The invariant *)

\* The version is known once the client has replied, and an archive that does
\* not have it ends within the server's greeting.
VersionKnown ==
    /\ scrubber.at \in {"version", "reply"} => scrubber.ver = 0
    /\ scrubber.at = "done" => scrubber.ver = session.reply

Archived ==
    \/ Len(s2c) <= 12
    \/ scrubber.ver = session.reply /\ (session.reply # 0 \/ scrubber.preserve)

ArchiveInv ==
    /\ phase = "record" => VersionKnown
    /\ phase = "archived" => Archived

\* The session the live client takes part in, and what the recording lacks of it.
L    == Live(script)
Lost == SubSeq(shown["s2c"], Len(s2c) + 1, Len(shown["s2c"]))

\* What is to be written and what is to be read next.
ToWrite == Recorded \o Lost
ToRead  == buffer \o client

\* A client is served an archive.
Serves ==
    /\ script \in Scripts
    /\ client \in Seq(All) /\ buffer \in Seq(All)
    /\ grammar \in Grammar /\ ~ grammar.preserve
    /\ pos \in 0..Len(s2c)
    /\ exhausted => ~ busy

\* Paced, of all that the client has still to say.
Behind ==
    \A i \in 1..pos :
        IF s2c[i].f = "screen" THEN Asked
        ELSE \A k \in DOMAIN client : Rank[s2c[i].f] < Rank[client[k].f]

\* In the greeting the version of the client is not known,
Greets ==
    /\ grammar.at \in {"version", "reply"} /\ Knows(L, grammar)
    /\ ~ checked /\ ~ awaiting
    /\ pos = IF grammar.at = "reply" THEN 12 ELSE 0
    /\ ToWrite = Rest(L, grammar.at, "s2c")
    /\ \E reply \in Replies \ {0} : ToRead = Speech(reply, script)

\* in the rest of the handshake both sides are at the field of the grammar,
Talks ==
    /\ grammar.at \notin {"version", "reply", "done"} /\ Knows(L, grammar) /\ ~ Strange(L)
    /\ grammar.at = "name" => grammar.sized
    /\ checked /\ ~ awaiting
    /\ ToWrite = Rest(L, grammar.at, "s2c") /\ ToRead = Rest(L, grammar.at, "c2s")

\* and after it the client's messages are read from the beginning of one on,
Asks ==
    /\ grammar.at = "done" /\ grammar.sized /\ ~ Refused(L)
    /\ ToWrite = Rest(L, "done", "s2c")
    /\ \E j \in 1..Len(script) + 1 :
          ToRead = SubSeq(Messages(script), Offset(script, j) + 1, Len(Messages(script)))

\* unless the handshake was refused.
Denied ==
    /\ grammar.at = "done" /\ ~ grammar.sized /\ ~ awaiting /\ Refused(L)
    /\ ToWrite = Rest(L, "done", "s2c") /\ ToRead = <<>>

\* A recording of nothing but the server's greeting is at its end.
Greeted ==
    /\ pos = Len(s2c) /\ grammar.at \in {"count", "auth"}
    /\ ~ grammar.sized /\ ~ awaiting

ReplayInv ==
    conn = "up" =>
        /\ phase = "archived"
        /\ Paceable => Serves /\ Behind /\ (exhausted \/ Greets \/ Talks \/ Asks \/ Denied \/ Greeted)

-----------------------------------------------------------------------------
(* Where a message begins *)

\* The bytes before a message.
Ahead(s, j) == {place \in Extent(s) : place[1] < j}

\* The bytes of a script, message by message.
LEMMA ExtentPlaces ==
  ASSUME NEW s
  PROVE  \A place : place \in Extent(s) <=> \E j \in DOMAIN s : \E k \in 1..Size[s[j]] : place = <<j, k>>
  BY DEF Extent

\* They are counted.
LEMMA OffsetIs == \A s, j : Offset(s, j) = Cardinality(Ahead(s, j))
  BY DEF Offset, Ahead

\* The numbers up to m are m.
LEMMA CountTo ==
  ASSUME NEW m \in Nat
  PROVE  IsFiniteSet(1..m) /\ Cardinality(1..m) = m
  BY FS_Interval

\* A message begins where the one before it ends.
LEMMA OffsetNext ==
  ASSUME NEW s \in Scripted, NEW j \in DOMAIN s
  PROVE  /\ Size[s[j]] \in Nat /\ Size[s[j]] > 0 /\ s[j] \in Kinds
         /\ Offset(s, j + 1) = Offset(s, j) + Size[s[j]]
  <1>1. s \in Seq(Kinds) /\ Len(s) \in Nat /\ DOMAIN s = 1..Len(s) /\ j \in Nat
    BY ScriptFacts, LenProperties
  <1>2. s[j] \in Kinds
    BY <1>1, ElementOfSeq
  <1>3. \A k \in Kinds : Size[k] \in Nat /\ Size[k] > 0
    BY DEF Kinds, Size
  <1>4. PICK m \in Nat : m = Size[s[j]] /\ m > 0
    BY <1>2, <1>3
  <1> DEFINE mine == {j} \X (1..m)
  <1>5. Ahead(s, j + 1) = Ahead(s, j) \cup mine
    <2>1. ASSUME NEW place \in Extent(s)
          PROVE  (place[1] < j + 1) <=> (place[1] < j \/ place \in mine)
      <3>1. PICK i \in DOMAIN s : \E k \in 1..Size[s[i]] : place = <<i, k>>
        BY <2>1, ExtentPlaces
      <3>2. PICK k \in 1..Size[s[i]] : place = <<i, k>>
        BY <3>1
      <3>3. i \in Nat /\ place[1] = i
        BY <1>1, <3>2
      <3>4. place \in mine <=> i = j
        BY <1>4, <3>2
      <3> QED
        BY <1>1, <3>3, <3>4
    <2>2. \A place \in mine : place \in Extent(s)
      BY <1>4, ExtentPlaces
    <2> HIDE DEF mine
    <2> QED
      BY <2>1, <2>2 DEF Ahead
  <1>6. Ahead(s, j) \cap mine = {}
    BY <1>1 DEF Ahead
  <1>7. IsFiniteSet(mine) /\ Cardinality(mine) = m
    <2>1. IsFiniteSet({j}) /\ Cardinality({j}) = 1
      BY FS_Singleton
    <2>2. IsFiniteSet(1..m) /\ Cardinality(1..m) = m
      BY CountTo
    <2>3. IsFiniteSet(mine) /\ Cardinality(mine) = Cardinality({j}) * Cardinality(1..m)
      BY <2>1, <2>2, FS_Product
    <2>4. 1 * m = m
      BY <1>4
    <2> QED
      BY <2>1, <2>2, <2>3, <2>4
  <1>8. IsFiniteSet(Ahead(s, j)) /\ Cardinality(Ahead(s, j)) \in Nat
    <2>1. IsFiniteSet(Ahead(s, j))
      BY ExtentFinite, FS_Subset DEF Ahead
    <2> QED
      BY <2>1, FS_CardinalityType
  <1> HIDE DEF mine
  <1>9. Cardinality(Ahead(s, j + 1)) = Cardinality(Ahead(s, j)) + m
    <2>1. Cardinality(Ahead(s, j) \cup mine) = Cardinality(Ahead(s, j)) + Cardinality(mine) - Cardinality(Ahead(s, j) \cap mine)
      BY <1>7, <1>8, FS_Union
    <2>2. Cardinality(Ahead(s, j) \cap mine) = 0
      BY <1>6, FS_EmptySet
    <2>3. PICK a \in Nat : a = Cardinality(Ahead(s, j))
      BY <1>8
    <2>4. Cardinality(Ahead(s, j) \cup mine) = a + m
      <3>1. Cardinality(Ahead(s, j) \cup mine) = a + m - 0
        BY <1>7, <2>1, <2>2, <2>3
      <3> QED
        BY <3>1
    <2> QED
      BY <1>5, <2>3, <2>4
  <1>10. Offset(s, j) = Cardinality(Ahead(s, j)) /\ Offset(s, j + 1) = Cardinality(Ahead(s, j + 1))
    BY OffsetIs
  <1>11. Offset(s, j + 1) = Offset(s, j) + m
    BY <1>9, <1>10
  <1> QED
    BY <1>2, <1>4, <1>11

\* The first message begins at the beginning, the last one ends at the end.
LEMMA OffsetEnds ==
  ASSUME NEW s \in Scripted
  PROVE  /\ Offset(s, 1) = 0 /\ Offset(s, Len(s) + 1) = Len(Messages(s)) /\ Len(Messages(s)) \in Nat
         /\ \A i, j : Offset(s, j) \in Nat /\ (i \in Int /\ j \in Int /\ i <= j => Offset(s, i) <= Offset(s, j))
  <1>1. s \in Seq(Kinds) /\ Len(s) \in Nat /\ DOMAIN s = 1..Len(s)
    BY ScriptFacts, LenProperties
  <1>2. \A place \in Extent(s) : place[1] \in 1..Len(s)
    BY <1>1, ExtentPlaces
  <1>3. Ahead(s, 1) = {}
    BY <1>2 DEF Ahead
  <1>4. Ahead(s, Len(s) + 1) = Extent(s)
    BY <1>1, <1>2 DEF Ahead
  <1>5. \A j : IsFiniteSet(Ahead(s, j)) /\ Cardinality(Ahead(s, j)) \in Nat
    <2> TAKE j
    <2>1. IsFiniteSet(Ahead(s, j))
      BY ExtentFinite, FS_Subset DEF Ahead
    <2> QED
      BY <2>1, FS_CardinalityType
  <1>6. ASSUME NEW i \in Int, NEW j \in Int, i <= j
        PROVE  Cardinality(Ahead(s, i)) <= Cardinality(Ahead(s, j))
    <2>1. Ahead(s, i) \subseteq Ahead(s, j)
      BY <1>1, <1>2, <1>6 DEF Ahead
    <2> QED
      BY <1>5, <2>1, FS_Subset
  <1>7. Len(Messages(s)) = Cardinality(Extent(s)) /\ Cardinality(Extent(s)) \in Nat
    BY ExtentFinite DEF Messages
  <1>8. \A j : Offset(s, j) = Cardinality(Ahead(s, j))
    BY OffsetIs
  <1>9. Cardinality({}) = 0
    BY FS_EmptySet
  <1>10. Offset(s, 1) = 0 /\ Offset(s, Len(s) + 1) = Len(Messages(s))
    BY <1>3, <1>4, <1>7, <1>8, <1>9
  <1>11. ASSUME NEW i, NEW j
         PROVE  Offset(s, j) \in Nat /\ (i \in Int /\ j \in Int /\ i <= j => Offset(s, i) <= Offset(s, j))
    BY <1>5, <1>6, <1>8
  <1> QED
    BY <1>7, <1>10, <1>11

\* The bytes of a message are where it begins.
LEMMA MessagePlace ==
  ASSUME NEW s \in Scripted, NEW j \in DOMAIN s, NEW k \in 1..Size[s[j]]
  PROVE  /\ Offset(s, j) + k \in 1..Len(Messages(s))
         /\ Messages(s)[Offset(s, j) + k] = [f |-> "input", v |-> <<s[j], k>>]
  <1>1. s \in Seq(Kinds) /\ Len(s) \in Nat /\ DOMAIN s = 1..Len(s) /\ j \in 1..Len(s) /\ j \in Int
    BY ScriptFacts, LenProperties
  <1>2. \A i \in DOMAIN s : /\ Size[s[i]] \in Nat /\ Offset(s, i) \in Nat /\ i \in Int
                            /\ Offset(s, i + 1) = Offset(s, i) + Size[s[i]]
    BY <1>1, OffsetNext, OffsetEnds
  <1>3. \A a, b : a \in Int /\ b \in Int /\ a <= b => Offset(s, a) <= Offset(s, b)
    BY OffsetEnds
  <1>4. Len(Messages(s)) \in Nat /\ Offset(s, Len(s) + 1) = Len(Messages(s))
    BY OffsetEnds
  <1> DEFINE at == Offset(s, j) + k
  <1>5. at \in 1..Len(Messages(s)) /\ at \in Nat /\ k \in Nat
    <2>1. Offset(s, j + 1) <= Offset(s, Len(s) + 1)
      BY <1>1, <1>3
    <2> QED
      BY <1>2, <1>4, <2>1
  <1>6. ASSUME NEW i \in DOMAIN s, at - Offset(s, i) \in 1..Size[s[i]]
        PROVE  i = j
    <2>1. Offset(s, i) < at /\ at <= Offset(s, i + 1)
      <3>1. Offset(s, i) \in Nat /\ Size[s[i]] \in Nat /\ Offset(s, i + 1) = Offset(s, i) + Size[s[i]]
        BY <1>2
      <3> HIDE DEF at
      <3> QED
        BY <1>5, <1>6, <3>1
    <2>2. Offset(s, j) < at /\ at <= Offset(s, j + 1)
      BY <1>2, <1>5
    <2>3. ~ (i < j)
      <3>1. ASSUME i < j PROVE Offset(s, i + 1) <= Offset(s, j)
        <4>1. i \in Int /\ i + 1 \in Int /\ i + 1 <= j
          BY <1>1, <1>2, <3>1
        <4> QED
          BY <1>1, <1>3, <4>1
      <3> QED
        BY <1>2, <1>5, <2>1, <2>2, <3>1
    <2>4. ~ (j < i)
      <3>1. ASSUME j < i PROVE Offset(s, j + 1) <= Offset(s, i)
        <4>1. i \in Int /\ j + 1 \in Int /\ j + 1 <= i
          BY <1>1, <1>2, <3>1
        <4> QED
          BY <1>3, <4>1
      <3> QED
        BY <1>2, <1>5, <2>1, <2>2, <3>1
    <2> QED
      BY <1>1, <1>2, <2>3, <2>4
  <1>7. at - Offset(s, j) = k
    BY <1>2, <1>5
  <1> HIDE DEF at
  <1>8. (CHOOSE i \in DOMAIN s : at - Offset(s, i) \in 1..Size[s[i]]) = j
    BY <1>6, <1>7
  <1>9. Place(s, at) = <<s[j], k>>
    BY <1>7, <1>8 DEF Place
  <1>10. Messages(s)[at] = [f |-> "input", v |-> Place(s, at)]
    <2>1. Messages(s) = [i \in 1..Cardinality(Extent(s)) |-> [f |-> "input", v |-> Place(s, i)]]
      BY DEF Messages, Byte
    <2>2. Len(Messages(s)) = Cardinality(Extent(s))
      BY ExtentFinite, <2>1
    <2> QED
      BY <1>5, <2>1, <2>2
  <1> QED
    BY <1>5, <1>9, <1>10 DEF at

-----------------------------------------------------------------------------
(* The session of the live client *)

\* What a server says does not depend on the client's messages.
LEMMA SameVoice ==
  ASSUME NEW p \in Session, NEW m \in Scripted
  PROVE  LET q == [p EXCEPT !.inputs = m]
         IN  /\ q \in Session /\ q.inputs = m /\ q.reply = p.reply /\ q.sec = p.sec
             /\ Rest(q, "version", "s2c") = Rest(p, "version", "s2c")
  <1> DEFINE q == [p EXCEPT !.inputs = m]
  <1>1. /\ q \in Session /\ q.reply = p.reply /\ q.types = p.types /\ q.sec = p.sec /\ q.key = p.key
        /\ q.ok = p.ok /\ q.inputs = m
    BY DEF Session
  <1> HIDE DEF q
  <1>2. Version(q) = Version(p) /\ HasResult(q) = HasResult(p)
    BY <1>1 DEF Version, HasResult
  <1>3. Screen(q, "s2c") = Screen(p, "s2c")
    BY DEF Screen
  <1>4. Opening(q, "s2c") = Opening(p, "s2c")
    BY <1>3 DEF Opening
  <1>5. Verdict(q, "s2c") = Verdict(p, "s2c")
    BY <1>1, <1>2, <1>4 DEF Verdict
  <1>6. Proof(q, "s2c") = Proof(p, "s2c")
    BY <1>1, <1>5 DEF Proof
  <1>7. Offer(q, "s2c") = Offer(p, "s2c")
    BY <1>1, <1>2, <1>6 DEF Offer
  <1>8. Later(q, "version", "s2c") = Later(p, "version", "s2c")
    BY <1>1, <1>7 DEF Later
  <1>9. Rest(q, "version", "s2c") = Rest(p, "version", "s2c")
    BY <1>8 DEF Rest, Size0, Value
  <1> QED
    BY <1>1, <1>9 DEF q

\* The session of the archive.
LEMMA ArchiveSession ==
  ASSUME Typed
  PROVE  LET p == Shown(session, scrubber.preserve)
         IN  /\ p \in Session /\ p.reply = session.reply /\ shown["s2c"] = Rest(p, "version", "s2c")
             /\ ~ scrubber.preserve => p.sec \in {NONE, INVALID}
             /\ scrubber.preserve => p.sec = session.sec
  <1> DEFINE p == Shown(session, scrubber.preserve)
  <1>1. session \in Session /\ scrubber.preserve \in BOOLEAN /\ shown = Streams(p)
    BY DEF Typed, Grammar
  <1>2. p \in Session /\ p.reply = session.reply
        /\ (~ scrubber.preserve => p.sec \in {NONE, INVALID}) /\ (scrubber.preserve => p.sec = session.sec)
    <2>1. CASE scrubber.preserve
      <3>1. p = session
        BY <2>1 DEF Shown
      <3> QED
        BY <1>1, <2>1, <3>1
    <2>2. CASE ~ scrubber.preserve
      <3>1. scrubber.preserve = FALSE
        BY <1>1, <2>2
      <3>2. p = Shown(session, FALSE)
        BY <3>1
      <3>3. p \in Session /\ p.reply = session.reply
        BY <1>1, <3>2, ShownSession
      <3>4. p.sec \in {NONE, INVALID}
        <4>1. CASE session.sec = INVALID
          BY <1>1, <3>2, <4>1, ShownSession
        <4>2. CASE session.sec # INVALID
          BY <1>1, <3>2, <4>2, ShownSession
        <4> QED
          BY <4>1, <4>2
      <3> QED
        BY <2>2, <3>3, <3>4
    <2> QED
      BY <2>1, <2>2
  <1> HIDE DEF p
  <1>3. "s2c" \in Directions
    BY DEF Directions
  <1>4. shown["s2c"] = Rest(p, "version", "s2c")
    <2>1. Streams(p) = [d \in Directions |-> Rest(p, "version", d)]
      BY <1>2, StreamsRest
    <2> QED
      BY <1>1, <1>3, <2>1
  <1> QED
    BY <1>2, <1>4 DEF p

\* The session the live client takes part in differs in its messages, and the
\* grammar can follow it.
LEMMA LiveFacts ==
  ASSUME Typed, NEW m \in Scripts
  PROVE  /\ Live(m) \in Session /\ Live(m).inputs = m /\ Live(m).reply = session.reply
         /\ shown["s2c"] = Rest(Live(m), "version", "s2c")
         /\ Paceable /\ session.reply # 0 => ~ Strange(Live(m))
  <1> DEFINE p == Shown(session, scrubber.preserve)
  <1>1. /\ p \in Session /\ p.reply = session.reply /\ shown["s2c"] = Rest(p, "version", "s2c")
        /\ ~ scrubber.preserve => p.sec \in {NONE, INVALID}
        /\ scrubber.preserve => p.sec = session.sec
    BY ArchiveSession
  <1>2. m \in Scripted
    BY DEF Scripted
  <1>3. Live(m) = [p EXCEPT !.inputs = m]
    BY DEF Live
  <1> HIDE DEF p
  <1>4. /\ Live(m) \in Session /\ Live(m).inputs = m /\ Live(m).reply = p.reply /\ Live(m).sec = p.sec
        /\ Rest(Live(m), "version", "s2c") = Rest(p, "version", "s2c")
    BY <1>1, <1>2, <1>3, SameVoice
  <1>5. Paceable /\ session.reply # 0 => ~ Strange(Live(m))
    BY <1>1, <1>4 DEF Paceable, Strange
  <1> QED
    BY <1>1, <1>4, <1>5

\* A client that is served has the rest of a session before it.
LEMMA ServedSession ==
  ASSUME Typed, script \in Scripts
  PROVE  /\ L \in Session /\ L.inputs = script /\ L.reply = session.reply
         /\ Paceable /\ session.reply # 0 => ~ Strange(L)
  BY LiveFacts DEF L

\* What it says first.
LEMMA SpeechFacts ==
  ASSUME Typed, NEW reply \in Nat, NEW m \in Scripts
  PROVE  /\ Speech(reply, m) \in Seq(All) /\ Offer(Live(m), "c2s") \in Seq(All)
         /\ Speech(reply, m) = Bytes("reply", 12, reply) \o Offer(Live(m), "c2s")
         /\ Bytes("reply", 12, reply) \in Seq(All) /\ Len(Bytes("reply", 12, reply)) = 12
         /\ Decode(Bytes("reply", 12, reply)) = reply
         /\ \A i \in DOMAIN Speech(reply, m) : Rank[Speech(reply, m)[i].f] \in Nat /\ 1 < Rank[Speech(reply, m)[i].f]
  <1>1. Live(m) \in Session
    BY LiveFacts
  <1>2. Speech(reply, m) = Bytes("reply", 12, reply) \o Offer(Live(m), "c2s")
    BY DEF Speech, Says, From, Tap
  <1>3. "reply" \in DOMAIN Rank /\ Rank["reply"] = 2 /\ 12 \in Nat /\ reply \in Vals
    BY RankFacts, RankValues DEF Vals
  <1>4. /\ Bytes("reply", 12, reply) \in Seq(All) /\ Len(Bytes("reply", 12, reply)) = 12
        /\ \A i \in 1..12 : Bytes("reply", 12, reply)[i] = [f |-> "reply", v |-> reply]
    BY <1>3, BytesFacts
  <1>5. Decode(Bytes("reply", 12, reply)) = reply
    BY <1>4 DEF Decode
  <1>6. OrderedFrom(3, Offer(Live(m), "c2s"))
    BY <1>1, OfferOrdered
  <1>7. OrderedFrom(2, Speech(reply, m))
    BY <1>2, <1>3, <1>6, OrderedConcat
  <1> DEFINE t == Speech(reply, m)
  <1>8. t \in Seq(All) /\ \A i \in DOMAIN t : 2 <= Rank[t[i].f]
    BY <1>7 DEF OrderedFrom
  <1>9. Offer(Live(m), "c2s") \in Seq(All)
    BY <1>6 DEF OrderedFrom
  <1> HIDE DEF t
  <1>10. \A i \in DOMAIN t : Rank[t[i].f] \in Nat
    BY <1>8, ByteRanks
  <1>11. \A i \in DOMAIN t : Rank[t[i].f] \in Nat /\ 1 < Rank[t[i].f]
    BY <1>8, <1>10
  <1> QED
    BY <1>2, <1>4, <1>5, <1>8, <1>9, <1>11 DEF t

\* What the server still says at the client's version is all but its own.
LEMMA GreetingRest ==
  ASSUME NEW p \in Session
  PROVE  /\ Rest(p, "version", "c2s") = Bytes("reply", 12, p.reply) \o Offer(p, "c2s")
         /\ Rest(p, "version", "s2c") = Chunk(p, "version") \o Rest(p, "reply", "s2c")
         /\ Rest(p, "reply", "s2c") = Offer(p, "s2c") /\ Later(p, "reply", "c2s") = Offer(p, "c2s")
         /\ Len(Chunk(p, "version")) = 12
  <1>1. Offer(p, "c2s") \in Seq(All) /\ Offer(p, "s2c") \in Seq(All)
    BY DueOrdered
  <1>2. Rest(p, "version", "c2s") = <<>> \o (Bytes("reply", 12, p.reply) \o Offer(p, "c2s"))
    BY DEF Rest, Later, Says, From, Tap
  <1>3. Rest(p, "reply", "s2c") = <<>> \o Offer(p, "s2c")
    BY DEF Rest, Later, Says, From, Tap
  <1>4. Later(p, "version", "s2c") = <<>> \o Offer(p, "s2c") /\ Later(p, "reply", "c2s") = Offer(p, "c2s")
    BY DEF Later, Says, From, Tap
  <1>5. Rest(p, "version", "s2c") = Chunk(p, "version") \o Later(p, "version", "s2c") /\ Len(Chunk(p, "version")) = 12
    <2>1. Tap("version") = "s2c" /\ Size0(p, "version") = 12 /\ "version" \in Points \ {"done"}
      BY DEF Tap, Size0, Points
    <2> QED
      BY <2>1, FieldFirst
  <1>6. Bytes("reply", 12, p.reply) \o Offer(p, "c2s") \in Seq(All)
    <2>1. p.reply \in Vals /\ "reply" \in DOMAIN Rank /\ 12 \in Nat
      BY SessionFacts, RankFacts DEF Vals
    <2>2. Bytes("reply", 12, p.reply) \in Seq(All)
      BY <2>1, BytesFacts
    <2> QED
      BY <1>1, <2>2, ConcatProperties
  <1> QED
    BY <1>1, <1>2, <1>3, <1>4, <1>5, <1>6, ConcatEmptySeq

-----------------------------------------------------------------------------
(* The version an archive has *)

\* The scrubber learns the version from the reply, and from nothing else.
LEMMA VersionLearnt ==
  ASSUME NEW p \in Session, NEW g \in Grammar, Knows(p, g), g.at # "done", g.at \in {"version", "reply"} => g.ver = 0
  PROVE  /\ Meets(p, g).at \in {"version", "reply"} => Meets(p, g).ver = 0
         /\ Meets(p, g).at = "done" => Meets(p, g).ver = p.reply
  <1>1. Meets(p, g).at = After(p, g.at)
    BY MeetsNext
  <1>2. CASE g.at = "version"
    <2>1. Meets(p, g) = [g EXCEPT !.at = "reply"]
      BY <1>2 DEF Meets, Resume
    <2> QED
      BY <1>2, <2>1 DEF Grammar
  <1>3. CASE g.at = "reply"
    <2>1. CASE p.reply = 0
      <3>1. Meets(p, g) = GiveUp(g)
        BY <1>3, <2>1 DEF Meets, Resume, Value
      <3> QED
        BY <1>3, <2>1, <3>1 DEF GiveUp, Grammar
    <2>2. CASE p.reply # 0
      <3>1. After(p, g.at) \in {"count", "auth"}
        BY <1>3, <2>2 DEF After
      <3> QED
        BY <1>1, <3>1
    <2> QED
      BY <2>1, <2>2
  <1>4. CASE g.at \notin {"version", "reply"}
    <2>1. g.ver = p.reply
      BY <1>4 DEF Knows
    <2>2. Meets(p, g).ver = g.ver
      BY <1>4 DEF Meets, Resume, GiveUp, Authenticate, AfterExchange, Grammar
    <2>3. After(p, g.at) \notin {"version", "reply"}
      BY <1>4 DEF After
    <2> QED
      BY <1>1, <2>1, <2>2, <2>3
  <1> QED
    BY <1>2, <1>3, <1>4

\* A part and all the rest make up the whole: the part has nothing.
LEMMA NothingBefore ==
  ASSUME NEW r \in Seq(All), NEW s \in Seq(All), r \o s = s
  PROVE  Len(r) = 0
  <1>1. Len(r \o s) = Len(r) + Len(s) /\ Len(r) \in Nat /\ Len(s) \in Nat
    BY ConcatProperties, LenProperties
  <1> QED
    BY <1>1

\* Two sequences with the same rest have the same length.
LEMMA SameBefore ==
  ASSUME NEW r \in Seq(All), NEW c \in Seq(All), NEW s \in Seq(All), r \o s = c \o s
  PROVE  Len(r) = Len(c)
  <1>1. Len(r \o s) = Len(r) + Len(s) /\ Len(c \o s) = Len(c) + Len(s)
    BY ConcatProperties
  <1>2. Len(r) \in Nat /\ Len(s) \in Nat /\ Len(c) \in Nat
    BY LenProperties
  <1> QED
    BY <1>1, <1>2

\* What is due within the greeting.
LEMMA GreetingDue ==
  ASSUME IInv, phase = "record", scrubber.at \in {"version", "reply"}
  PROVE  LET p == Shown(session, scrubber.preserve)
         IN  recorded["s2c"] \o Rest(p, scrubber.at, "s2c") = Rest(p, "version", "s2c")
  <1> DEFINE p == Shown(session, scrubber.preserve)
  <1>1. Typed /\ Knows(session, scrubber) /\ Remaining /\ Account /\ scrubber.preserve \in BOOLEAN /\ scrubber.at # "done"
    BY DEF IInv, Follows, Typed, Grammar
  <1>2. "s2c" \in Directions
    BY DEF Directions
  <1>3. Due("s2c") = Rest(p, scrubber.at, "s2c")
    <2>1. CASE scrubber.preserve
      <3>1. p = session
        BY <2>1 DEF Shown
      <3>2. pending["s2c"] \o wire["s2c"] = Rest(session, scrubber.at, "s2c")
        BY <1>1, <1>2 DEF Remaining
      <3> QED
        BY <2>1, <3>1, <3>2 DEF Due
    <2>2. CASE ~ scrubber.preserve
      <3>1. scrubber.preserve = FALSE
        BY <1>1, <2>2
      <3>2. Due("s2c") = ShownRest(session, scrubber.at, "s2c")
        BY <1>1, <2>2 DEF Due
      <3>3. ShownRest(session, scrubber.at, "s2c") = Rest(Shown(session, FALSE), scrubber.at, "s2c")
        BY DEF ShownRest, Exchange
      <3> QED
        BY <3>1, <3>2, <3>3
    <2> QED
      BY <2>1, <2>2
  <1>4. recorded["s2c"] \o Due("s2c") = shown["s2c"]
    BY <1>1, <1>2 DEF Account
  <1>5. shown["s2c"] = Rest(p, "version", "s2c")
    BY <1>1, ArchiveSession
  <1> QED
    BY <1>3, <1>4, <1>5 DEF p

\* An archive of a session that ended before the version was known has no more
\* than the server's greeting.
LEMMA GreetingKept ==
  ASSUME IInv, phase = "record", feeding = "none", scrubber.at \in {"version", "reply"}
  PROVE  Len(recorded["s2c"] \o Flush("s2c")) <= 12
  <1> DEFINE p == Shown(session, scrubber.preserve)
  <1>1. Typed /\ Knows(session, scrubber) /\ Quiet /\ scrubber.at # "done"
    BY DEF IInv, Follows
  <1>2. "s2c" \in Directions
    BY DEF Directions
  <1>3. recorded["s2c"] \in Seq(All) /\ pending["s2c"] \in Seq(All)
    BY <1>1, <1>2 DEF Typed
  <1>4. p \in Session
    BY <1>1, ArchiveSession
  <1>5. recorded["s2c"] \o Rest(p, scrubber.at, "s2c") = Rest(p, "version", "s2c")
    BY GreetingDue
  <1> HIDE DEF p
  <1>6. Rest(p, "version", "s2c") \in Seq(All) /\ Rest(p, "reply", "s2c") \in Seq(All)
    BY <1>4, DueOrdered DEF Points
  <1>7. Flush("s2c") \in Seq(All) /\ Len(Flush("s2c")) <= Len(pending["s2c"])
    <2>1. <<>> \in Seq(All) /\ Len(<<>>) = 0 /\ Len(pending["s2c"]) \in Nat
      BY <1>3, EmptySeq, LenProperties
    <2> QED
      BY <1>3, <2>1 DEF Flush
  <1>8. PICK r \in Seq(All), x \in Seq(All) : r = recorded["s2c"] /\ x = Flush("s2c")
    BY <1>3, <1>7
  <1>9. Len(r \o x) = Len(r) + Len(x) /\ Len(r) \in Nat /\ Len(x) \in Nat
    BY ConcatProperties, LenProperties
  <1>10. CASE scrubber.at = "version"
    <2>1. Len(r) = 0
      BY <1>5, <1>6, <1>8, <1>10, NothingBefore
    <2>2. Tap("version") = "s2c" /\ Nbytes(scrubber) = 12
      BY <1>10 DEF Tap, Nbytes
    <2>3. Len(pending["s2c"]) < 12
      <3>1. feeding # Tap(scrubber.at)
        BY Sides
      <3> QED
        BY <1>1, <1>10, <2>2, <3>1 DEF Quiet
    <2>4. Len(pending["s2c"]) \in Nat
      BY <1>3, LenProperties
    <2> QED
      BY <1>7, <1>8, <1>9, <2>1, <2>3, <2>4
  <1>11. CASE scrubber.at = "reply"
    <2>1. Chunk(p, "version") \in Seq(All)
      BY <1>4, FieldFirst DEF Points
    <2>2. Rest(p, "version", "s2c") = Chunk(p, "version") \o Rest(p, "reply", "s2c") /\ Len(Chunk(p, "version")) = 12
      BY <1>4, GreetingRest
    <2>3. Len(r) = 12
      <3>1. PICK c \in Seq(All), y \in Seq(All) : c = Chunk(p, "version") /\ y = Rest(p, "reply", "s2c")
        BY <1>6, <2>1
      <3>2. r \o y = c \o y
        BY <1>5, <1>8, <1>11, <2>2, <3>1
      <3>3. Len(r) = Len(c)
        BY <3>2, SameBefore
      <3> QED
        BY <2>2, <3>1, <3>3
    <2>4. Other(Tap("reply")) = "s2c"
      BY DEF Other, Tap
    <2>5. pending["s2c"] = <<>>
      BY <1>1, <1>11, <2>4 DEF Quiet
    <2>6. Len(<<>>) = 0
      OBVIOUS
    <2> QED
      BY <1>7, <1>8, <1>9, <2>3, <2>5, <2>6
  <1> QED
    BY <1>10, <1>11

\* What an archive tells of the version is settled when it is written
\* (capture.py:CaptureWriter, meta.json).
LEMMA ArchiveKeeps ==
  ASSUME IInv, ArchiveInv, [Next]_vars
  PROVE  ArchiveInv'
  <1>1. Typed /\ session \in Session /\ scrubber \in Grammar /\ (phase # "record" => feeding = "none")
    BY DEF IInv, Typed
  <1>2. CASE \E d \in Directions : Take(d)
    <2>1. PICK d \in Directions : Take(d)
      BY <1>2
    <2>2. phase' = phase /\ session' = session /\ feeding # "none"
      BY <2>1, Sides DEF Take, Watches
    <2>3. phase = "record" /\ Knows(session, scrubber) /\ Follows /\ VersionKnown
      BY <1>1, <2>2 DEF IInv, Typed, ArchiveInv
    <2>4. scrubber' = Meets(session, scrubber) /\ scrubber.at # "done"
      BY <1>1, <2>1, <2>3, TakeField
    <2>5. VersionKnown'
      BY <1>1, <2>2, <2>3, <2>4, VersionLearnt DEF VersionKnown
    <2> QED
      BY <2>2, <2>3, <2>5 DEF ArchiveInv
  <1>3. CASE \E d \in Directions : FeedEnds(d)
    <2>1. PICK d \in Directions : FeedEnds(d)
      BY <1>3
    <2>2. phase' \in {phase, "dropped"} /\ session' = session /\ scrubber' = scrubber /\ feeding # "none"
      BY <2>1, Sides DEF FeedEnds
    <2>3. phase = "record" /\ VersionKnown
      BY <1>1, <2>2 DEF Typed, ArchiveInv
    <2> QED
      BY <2>2, <2>3 DEF ArchiveInv, VersionKnown
  <1>4. CASE \E d \in Directions : \E n \in Cuts(wire[d], wire[Other(d)]) : Deliver(d, n)
    <2>1. phase = "record" /\ phase' = phase /\ session' = session /\ scrubber' = scrubber
      BY <1>4 DEF Deliver
    <2> QED
      BY <2>1 DEF ArchiveInv, VersionKnown
  <1>5. CASE ConnectionLost
    <2>1. /\ phase = "record" /\ feeding = "none" /\ phase' \in {"archived", "dropped"}
          /\ session' = session /\ scrubber' = scrubber
          /\ recorded' = [d \in Directions |-> recorded[d] \o Flush(d)]
      BY <1>5 DEF ConnectionLost
    <2>2. Knows(session, scrubber) /\ VersionKnown /\ ~ scrubber.abort
      BY <1>1, <2>1 DEF IInv, Typed, ArchiveInv
    <2>3. CASE scrubber.at \in {"version", "reply"}
      <3>1. Len(recorded["s2c"] \o Flush("s2c")) <= 12
        BY <2>1, <2>3, GreetingKept
      <3>2. s2c' = recorded["s2c"] \o Flush("s2c")
        BY <2>1 DEF Directions, s2c
      <3> QED
        BY <2>1, <3>1, <3>2 DEF ArchiveInv, Archived
    <2>4. CASE scrubber.at = "done"
      <3>1. scrubber.ver = session.reply
        BY <2>2, <2>4 DEF VersionKnown
      <3>2. session.reply # 0 \/ scrubber.preserve
        BY <1>1, <2>2, <2>4 DEF Knows, Strange, Grammar
      <3> QED
        BY <2>1, <3>1, <3>2 DEF ArchiveInv, Archived
    <2>5. CASE scrubber.at \notin {"version", "reply", "done"}
      <3>1. scrubber.ver = session.reply /\ session.reply # 0
        BY <2>2, <2>5 DEF Knows
      <3> QED
        BY <2>1, <3>1 DEF ArchiveInv, Archived
    <2> QED
      BY <2>3, <2>4, <2>5
  <1>6. CASE UNCHANGED capture
    <2>1. phase' = phase /\ session' = session /\ scrubber' = scrubber /\ recorded' = recorded
      BY <1>6 DEF capture
    <2> QED
      BY <2>1 DEF ArchiveInv, VersionKnown, Archived, s2c
  <1>7. ~ RecordNext => UNCHANGED capture
    <2> SUFFICES ASSUME ~ RecordNext PROVE UNCHANGED capture
      OBVIOUS
    <2>1. CASE \E reply \in Replies \ {0}, messages \in Scripts : Connect(reply, messages)
      BY <2>1 DEF Connect
    <2>2. CASE Advance
      BY <2>2 DEF Advance, WriteChunk, ReadChunk, Expect, SkipMessage, SeeRequest, AwaitRequest, ServeRest, Exhaust
    <2>3. CASE \E n \in Answers : Receive(n)
      BY <2>3 DEF Receive
    <2>4. CASE Disconnect
      BY <2>4 DEF Disconnect
    <2>5. CASE UNCHANGED vars
      BY <2>5 DEF vars
    <2> QED
      BY <2>1, <2>2, <2>3, <2>4, <2>5 DEF Next
  <1> QED
    BY <1>2, <1>3, <1>4, <1>5, <1>6, <1>7 DEF RecordNext

-----------------------------------------------------------------------------
(* What is written and what is read *)

\* What is left of a sequence.
LEMMA Remainder ==
  ASSUME NEW s \in Seq(All), NEW a \in Nat, a <= Len(s)
  PROVE  /\ SubSeq(s, a + 1, Len(s)) \in Seq(All) /\ Len(SubSeq(s, a + 1, Len(s))) = Len(s) - a
         /\ \A k \in 1..Len(s) - a : SubSeq(s, a + 1, Len(s))[k] = s[a + k]
  <1>1. Len(s) \in Nat /\ DOMAIN s = 1..Len(s)
    BY LenProperties
  <1> DEFINE m == a + 1
             n == Len(s)
             x == SubSeq(s, m, n)
  <1>2. m \in Nat /\ n \in Nat /\ \A i \in m..n : s[i] \in All
    BY <1>1, ElementOfSeq
  <1>3. /\ x \in Seq(All) /\ Len(x) = (IF m <= n THEN n - m + 1 ELSE 0)
        /\ \A i \in 1..n - m + 1 : x[i] = s[m + i - 1]
    <2> HIDE DEF m, n
    <2> QED
      BY <1>2, SubSeqProperties
  <1>4. n \in Nat /\ a \in Nat /\ a <= n /\ m = a + 1
    BY <1>1
  <1> HIDE DEF x, m, n
  <1>5. Len(x) = n - a
    BY <1>3, <1>4
  <1>6. \A k \in 1..n - a : x[k] = s[a + k]
    BY <1>3, <1>4
  <1> QED
    BY <1>3, <1>5, <1>6 DEF x, m, n

\* What is left of what is left.
LEMMA CutFurther ==
  ASSUME NEW s \in Seq(All), NEW a \in Nat, NEW n \in Nat, a + n <= Len(s)
  PROVE  SubSeq(SubSeq(s, a + 1, Len(s)), n + 1, Len(SubSeq(s, a + 1, Len(s)))) = SubSeq(s, (a + n) + 1, Len(s))
  <1>1. Len(s) \in Nat /\ a + n \in Nat /\ a <= Len(s) /\ n <= Len(s) - a
    BY LenProperties
  <1> DEFINE x == SubSeq(s, a + 1, Len(s))
             y == SubSeq(s, (a + n) + 1, Len(s))
             z == SubSeq(x, n + 1, Len(x))
  <1>2. x \in Seq(All) /\ Len(x) = Len(s) - a /\ \A k \in 1..Len(s) - a : x[k] = s[a + k]
    BY <1>1, Remainder
  <1>3. y \in Seq(All) /\ Len(y) = Len(s) - (a + n) /\ \A k \in 1..Len(s) - (a + n) : y[k] = s[(a + n) + k]
    BY <1>1, Remainder
  <1> HIDE DEF x, y
  <1>4. z \in Seq(All) /\ Len(z) = Len(x) - n /\ \A k \in 1..Len(x) - n : z[k] = x[n + k]
    BY <1>1, <1>2, Remainder
  <1> HIDE DEF z
  <1>5. Len(z) = Len(y)
    BY <1>1, <1>2, <1>3, <1>4
  <1>6. ASSUME NEW k \in 1..Len(y) PROVE z[k] = y[k]
    <2>1. k \in 1..Len(x) - n /\ n + k \in 1..Len(s) - a /\ k \in 1..Len(s) - (a + n) /\ a + (n + k) = (a + n) + k
      BY <1>1, <1>2, <1>3
    <2>2. z[k] = x[n + k] /\ x[n + k] = s[a + (n + k)] /\ y[k] = s[(a + n) + k]
      BY <1>2, <1>3, <1>4, <2>1
    <2> QED
      BY <2>1, <2>2
  <1>7. z = y
    BY <1>3, <1>4, <1>5, <1>6, SeqEqual
  <1> QED
    BY <1>7 DEF x, y, z

\* What is added to nothing is all there is.
LEMMA AllOf ==
  ASSUME NEW s \in Seq(All)
  PROVE  SubSeq(s, 1, Len(s)) = s /\ <<>> \o s = s /\ s \o <<>> = s /\ <<>> \in Seq(All) /\ Len(<<>>) = 0
  BY SubSeqFull, ConcatEmptySeq, EmptySeq

\* Concatenation of bytes, regrouped.
LEMMA RegroupedBytes ==
  ASSUME NEW s \in Seq(All), NEW x \in Seq(All), NEW y \in Seq(All)
  PROVE  (s \o x) \o y = s \o (x \o y) /\ s \o x \in Seq(All)
  BY Regrouped

\* The archive and what it lacks are the session it shows.
LEMMA ArchiveWhole ==
  ASSUME IInv, phase = "archived"
  PROVE  s2c \in Seq(All) /\ Lost \in Seq(All) /\ s2c \o Lost = shown["s2c"]
  <1>1. "s2c" \in Directions /\ Typed
    BY DEF Directions, IInv
  <1>2. s2c \in Seq(All)
    BY <1>1 DEF Typed, s2c
  <1>3. PICK rest \in Seq(All) : s2c \o rest = shown["s2c"]
    BY <1>1, Begins DEF s2c
  <1>4. PICK a \in Seq(All), c \in Seq(All) : a = shown["s2c"] /\ c = s2c
    <2>1. s2c \o rest \in Seq(All)
      BY <1>2, ConcatProperties
    <2> QED
      BY <1>2, <1>3, <2>1
  <1>5. a \o <<>> = a /\ <<>> \in Seq(All)
    BY AllOf
  <1>6. c \o rest = a
    BY <1>3, <1>4
  <1>7. Len(c) <= Len(a)
    <2>1. Len(c \o rest) = Len(c) + Len(rest) /\ Len(c) \in Nat /\ Len(rest) \in Nat
      BY ConcatProperties, LenProperties
    <2> QED
      BY <1>6, <2>1
  <1>8. Splits(a, <<>>, c, rest)
    BY <1>5, <1>6, <1>7 DEF Splits
  <1>9. SubSeq(a, Len(c) + 1, Len(a)) \in Seq(All) /\ SubSeq(a, Len(c) + 1, Len(a)) \o <<>> = rest
    BY <1>5, <1>8, BehindHead
  <1>10. Lost = SubSeq(a, Len(c) + 1, Len(a))
    BY <1>4 DEF Lost
  <1>11. Lost \in Seq(All) /\ Lost = rest
    BY <1>9, <1>10, AllOf
  <1> QED
    BY <1>2, <1>3, <1>11

\* At a point of the session, the beginning of what one direction carries.
LEMMA FieldHead ==
  ASSUME NEW p \in Session, NEW at \in Points \ {"done"}, NEW a \in Seq(All), NEW b \in Seq(All),
         a \o b = Rest(p, at, Tap(at))
  PROVE  /\ \A k \in 1..Len(a) : k <= Size0(p, at) => a[k].f = at
         /\ Len(a) >= Size0(p, at) =>
               /\ SubSeq(a, Size0(p, at) + 1, Len(a)) \in Seq(All)
               /\ SubSeq(a, Size0(p, at) + 1, Len(a)) \o b = Later(p, at, Tap(at))
               /\ Decode(SubSeq(a, 1, Size0(p, at))) = Value(p, at)
               /\ Size0(p, at) > 0 => Decode(a) = Value(p, at)
  <1>1. /\ Rest(p, at, Tap(at)) = Chunk(p, at) \o Later(p, at, Tap(at))
        /\ Chunk(p, at) \in Seq(All) /\ Len(Chunk(p, at)) = Size0(p, at)
        /\ \A i \in 1..Size0(p, at) : Chunk(p, at)[i].f = at
        /\ Later(p, at, Tap(at)) \in Seq(All)
    BY FieldFirst
  <1>2. PICK c \in Seq(All), e \in Seq(All) : c = Chunk(p, at) /\ e = Later(p, at, Tap(at))
    BY <1>1
  <1>3. PICK n \in Nat : n = Size0(p, at)
    BY FieldFacts
  <1>4. a \o b = c \o e /\ Len(c) = n /\ \A i \in 1..n : c[i].f = at
    BY <1>1, <1>2, <1>3
  <1>5. /\ Len(a \o b) = Len(a) + Len(b) /\ \A k \in 1..Len(a) + Len(b) : (a \o b)[k] = IF k <= Len(a) THEN a[k] ELSE b[k - Len(a)]
        /\ \A k \in 1..Len(c) + Len(e) : (c \o e)[k] = IF k <= Len(c) THEN c[k] ELSE e[k - Len(c)]
        /\ Len(c \o e) = Len(c) + Len(e)
    BY ConcatProperties
  <1>6. Len(a) \in Nat /\ Len(b) \in Nat /\ Len(c) \in Nat /\ Len(e) \in Nat
    BY LenProperties
  <1>7. ASSUME NEW k \in 1..Len(a), k <= n PROVE a[k] = c[k] /\ a[k].f = at
    <2>1. k \in 1..Len(a) + Len(b) /\ k \in 1..Len(c) + Len(e) /\ k <= Len(c) /\ k <= Len(a) /\ k \in 1..n
      BY <1>4, <1>6, <1>7
    <2>2. (a \o b)[k] = a[k] /\ (c \o e)[k] = c[k]
      BY <1>5, <2>1
    <2>3. a[k] = c[k]
      BY <1>4, <2>2
    <2> QED
      BY <1>4, <2>1, <2>3
  <1>8. ASSUME Len(a) >= n
        PROVE  /\ SubSeq(a, n + 1, Len(a)) \in Seq(All) /\ SubSeq(a, n + 1, Len(a)) \o b = e
               /\ SubSeq(a, 1, n) = c
    <2>1. Splits(a, b, c, e)
      BY <1>4, <1>6, <1>8 DEF Splits
    <2>2. /\ SubSeq(a, Len(c) + 1, Len(a)) \in Seq(All)
          /\ SubSeq(a, Len(c) + 1, Len(a)) \o b = e
          /\ SubSeq(a, 1, Len(c)) = c
      BY <2>1, BehindHead
    <2> QED
      BY <1>4, <2>2
  <1>9. Decode(c) = Value(p, at)
    BY <1>2, ChunkValue
  <1>10. ASSUME Len(a) >= n
         PROVE  Decode(SubSeq(a, 1, n)) = Value(p, at)
    BY <1>8, <1>9, <1>10
  <1>11. ASSUME Len(a) >= n, n > 0
         PROVE  Decode(a) = Value(p, at)
    <2>1. a[1] = c[1] /\ a # <<>> /\ c # <<>>
      <3>1. 1 \in 1..Len(a) /\ 1 <= n
        BY <1>6, <1>11
      <3> QED
        BY <1>4, <1>7, <1>11, <3>1
    <2>2. Decode(a) = Decode(c)
      BY <2>1 DEF Decode
    <2> QED
      BY <1>9, <2>2
  <1> QED
    BY <1>2, <1>3, <1>7, <1>8, <1>10, <1>11

-----------------------------------------------------------------------------
(* Serving a client *)

\* The archive a client is served, and a grammar that is nowhere without bytes.
LEMMA ServedFacts ==
  ASSUME IInv, phase = "archived", Serves
  PROVE  /\ Typed /\ L \in Session /\ L.inputs = script /\ L.reply = session.reply
         /\ Paceable /\ session.reply # 0 => ~ Strange(L)
         /\ s2c \in Seq(All) /\ Lost \in Seq(All) /\ Recorded \in Seq(All) /\ client \in Seq(All) /\ buffer \in Seq(All)
         /\ pos \in Nat /\ Len(s2c) \in Nat /\ pos <= Len(s2c) /\ Len(Recorded) = Len(s2c) - pos
         /\ \A k \in 1..Len(Recorded) : Recorded[k] = s2c[pos + k]
         /\ ToWrite \in Seq(All) /\ ToRead \in Seq(All)
  <1>1. Typed /\ script \in Scripts /\ client \in Seq(All) /\ buffer \in Seq(All) /\ pos \in 0..Len(s2c)
    BY DEF IInv, Serves
  <1>2. L \in Session /\ L.inputs = script /\ L.reply = session.reply /\ (Paceable /\ session.reply # 0 => ~ Strange(L))
    BY <1>1, ServedSession
  <1>3. s2c \in Seq(All) /\ Lost \in Seq(All)
    BY ArchiveWhole
  <1>4. Len(s2c) \in Nat
    BY <1>3, LenProperties
  <1>5. pos \in Nat /\ pos <= Len(s2c)
    BY <1>1, <1>4
  <1>6. /\ SubSeq(s2c, pos + 1, Len(s2c)) \in Seq(All) /\ Len(SubSeq(s2c, pos + 1, Len(s2c))) = Len(s2c) - pos
        /\ \A k \in 1..Len(s2c) - pos : SubSeq(s2c, pos + 1, Len(s2c))[k] = s2c[pos + k]
    BY <1>3, <1>5, Remainder
  <1>7. Recorded \in Seq(All) /\ Len(Recorded) = Len(s2c) - pos /\ \A k \in 1..Len(Recorded) : Recorded[k] = s2c[pos + k]
    BY <1>6 DEF Recorded
  <1>8. ToWrite \in Seq(All)
    BY <1>3, <1>7, ConcatProperties DEF ToWrite
  <1>9. ToRead \in Seq(All)
    BY <1>1, ConcatProperties DEF ToRead
  <1> QED
    BY <1>1, <1>2, <1>3, <1>4, <1>5, <1>7, <1>8, <1>9

\* What a step of the server leaves alone.
LEMMA SameArchive ==
  ASSUME UNCHANGED capture, script' = script
  PROVE  /\ L' = L /\ Lost' = Lost /\ s2c' = s2c /\ (Paceable' <=> Paceable) /\ phase' = phase
         /\ NegotiatedVersion' = NegotiatedVersion /\ session' = session
  <1>1. session' = session /\ shown' = shown /\ scrubber' = scrubber /\ recorded' = recorded /\ phase' = phase
    BY DEF capture
  <1>2. L' = L
    BY <1>1 DEF L, Live
  <1>3. s2c' = s2c
    BY <1>1 DEF s2c
  <1>4. Lost' = Lost
    BY <1>1, <1>3 DEF Lost
  <1>5. Paceable' <=> Paceable
    BY <1>1 DEF Paceable
  <1>6. NegotiatedVersion' = NegotiatedVersion
    BY <1>1 DEF NegotiatedVersion
  <1> QED
    BY <1>1, <1>2, <1>3, <1>4, <1>5, <1>6

\* What the client has still to say comes after a field if all that is to be
\* read does.
LEMMA ClientLast ==
  ASSUME NEW a \in Seq(All), NEW b \in Seq(All), NEW r, \A i \in DOMAIN (a \o b) : r < Rank[(a \o b)[i].f]
  PROVE  \A k \in DOMAIN b : r < Rank[b[k].f]
  <1>1. /\ Len(a) \in Nat /\ Len(b) \in Nat /\ DOMAIN b = 1..Len(b)
        /\ Len(a \o b) = Len(a) + Len(b) /\ a \o b \in Seq(All)
        /\ \A i \in 1..Len(a) + Len(b) : (a \o b)[i] = IF i <= Len(a) THEN a[i] ELSE b[i - Len(a)]
    BY ConcatProperties, LenProperties
  <1>2. DOMAIN (a \o b) = 1..Len(a) + Len(b)
    BY <1>1, LenProperties
  <1> TAKE k \in DOMAIN b
  <1> DEFINE i == Len(a) + k
  <1>3. i \in 1..Len(a) + Len(b) /\ ~ (i <= Len(a)) /\ i - Len(a) = k
    BY <1>1
  <1> HIDE DEF i
  <1>4. (a \o b)[i] = b[k]
    BY <1>1, <1>3
  <1>5. r < Rank[(a \o b)[i].f]
    BY <1>2, <1>3
  <1> QED
    BY <1>4, <1>5

\* Bytes of a field are written that ranks below all the client has still to say.
LEMMA BehindField ==
  ASSUME Behind, pos \in Nat, NEW n \in Nat, pos' = pos + n, UNCHANGED capture, script' = script, client' = client,
         NEW at, at # "screen", \A i \in pos + 1..pos + n : s2c[i].f = at,
         \A k \in DOMAIN client : Rank[at] < Rank[client[k].f]
  PROVE  Behind'
  <1>1. s2c' = s2c /\ (Asked' <=> Asked)
    BY SameArchive DEF Asked
  <1>2. ASSUME NEW i \in 1..pos + n
        PROVE  IF s2c[i].f = "screen" THEN Asked ELSE \A k \in DOMAIN client : Rank[s2c[i].f] < Rank[client[k].f]
    <2>1. CASE i \in 1..pos
      BY <2>1 DEF Behind
    <2>2. CASE i \in pos + 1..pos + n
      BY <2>2
    <2> QED
      BY <2>1, <2>2
  <1> QED
    BY <1>1, <1>2 DEF Behind

\* Nothing is written, and the client has no more to say than before.
LEMMA BehindSame ==
  ASSUME Behind, pos' = pos, UNCHANGED capture, script' = script, client' = client
  PROVE  Behind'
  <1>1. s2c' = s2c /\ (Asked' <=> Asked)
    BY SameArchive DEF Asked
  <1> QED
    BY <1>1 DEF Behind

\* Bytes of the handshake are written: before the client's answer to them.
LEMMA Writes ==
  ASSUME IInv, phase = "archived", Serves, Behind, Knows(L, grammar), WriteChunk,
         ToWrite = Rest(L, grammar.at, "s2c"), \A k \in DOMAIN client : Rank[grammar.at] < Rank[client[k].f]
  PROVE  /\ Serves' /\ Behind' /\ L' = L /\ ToRead' = ToRead
         /\ grammar.at \in Points \ {"done"} /\ Tap(grammar.at) = "s2c"
         /\ ToWrite' = Later(L, grammar.at, "s2c")
         /\ grammar' = Meets(L, grammar) /\ grammar' \in Grammar /\ pos' = pos + Size0(L, grammar.at)
         /\ UNCHANGED <<checked, awaiting>>
  <1> DEFINE at == grammar.at
             n  == Size0(L, at)
  <1>1. /\ busy /\ at # "done" /\ Tap(at) = "s2c" /\ HasChunk(grammar, Recorded)
        /\ grammar' = Resume(grammar, Decode(SubSeq(Recorded, 1, Nbytes(grammar)))) /\ pos' = pos + Nbytes(grammar)
        /\ UNCHANGED capture /\ script' = script /\ client' = client /\ buffer' = buffer /\ busy' = busy
        /\ checked' = checked /\ awaiting' = awaiting /\ exhausted' = exhausted
    BY DEF WriteChunk, Waiting, ChunkOf
  <1>2. /\ L \in Session /\ s2c \in Seq(All) /\ Lost \in Seq(All) /\ Recorded \in Seq(All)
        /\ pos \in Nat /\ Len(s2c) \in Nat /\ pos <= Len(s2c) /\ Len(Recorded) = Len(s2c) - pos
        /\ \A k \in 1..Len(Recorded) : Recorded[k] = s2c[pos + k]
    BY ServedFacts
  <1>3. grammar \in Grammar /\ ~ grammar.preserve /\ at \in Points \ {"done"}
    BY <1>1 DEF Serves, Knows
  <1>4. /\ Meets(L, grammar) \in Grammar /\ Meets(L, grammar).preserve = grammar.preserve /\ Nbytes(grammar) = n
    BY <1>1, <1>2, <1>3, MeetsNext
  <1>5. n \in Nat /\ n <= Len(Recorded) /\ pos' = pos + n
    <2>1. n \in Nat
      BY <1>2, <1>3, FieldFacts
    <2> QED
      BY <1>1, <1>4, <2>1 DEF HasChunk
  <1>6. /\ \A k \in 1..Len(Recorded) : k <= n => Recorded[k].f = at
        /\ SubSeq(Recorded, n + 1, Len(Recorded)) \o Lost = Later(L, at, "s2c")
        /\ Decode(SubSeq(Recorded, 1, n)) = Value(L, at)
    <2>1. Recorded \o Lost = Rest(L, at, Tap(at))
      BY <1>1 DEF ToWrite
    <2> HIDE DEF at
    <2>2. /\ \A k \in 1..Len(Recorded) : k <= n => Recorded[k].f = at
          /\ Len(Recorded) >= n =>
               /\ SubSeq(Recorded, n + 1, Len(Recorded)) \o Lost = Later(L, at, Tap(at))
               /\ Decode(SubSeq(Recorded, 1, n)) = Value(L, at)
      BY <1>2, <1>3, <2>1, FieldHead
    <2> HIDE DEF n
    <2> QED
      BY <1>1, <1>2, <1>5, <2>2
  <1>7. grammar' = Meets(L, grammar)
    BY <1>1, <1>4, <1>6 DEF Meets
  <1>8. L' = L /\ Lost' = Lost /\ s2c' = s2c
    BY <1>1, SameArchive
  <1> HIDE DEF n
  <1>9. ToWrite' = Later(L, at, "s2c")
    <2>1. Recorded' = SubSeq(s2c, (pos + n) + 1, Len(s2c))
      BY <1>5, <1>8 DEF Recorded
    <2>2. Recorded' = SubSeq(Recorded, n + 1, Len(Recorded))
      <3>1. pos + n <= Len(s2c)
        BY <1>2, <1>5
      <3> QED
        BY <1>2, <1>5, <2>1, <3>1, CutFurther DEF Recorded
    <2> QED
      BY <1>6, <1>8, <2>2 DEF ToWrite
  <1>10. Behind'
    <2>1. \A i \in pos + 1..pos + n : s2c[i].f = at
      <3> TAKE i \in pos + 1..pos + n
      <3> DEFINE k == i - pos
      <3>1. k \in 1..Len(Recorded) /\ k <= n /\ pos + k = i
        BY <1>2, <1>5
      <3> HIDE DEF k
      <3> QED
        BY <1>2, <1>6, <3>1
    <2>2. at # "screen"
      BY <1>3 DEF Points, Exchange
    <2> QED
      BY <1>1, <1>2, <1>5, <2>1, <2>2, BehindField
  <1>11. Serves'
    <2>1. pos' \in 0..Len(s2c)
      BY <1>2, <1>5
    <2> QED
      BY <1>1, <1>3, <1>4, <1>7, <1>8, <2>1 DEF Serves
  <1> QED
    BY <1>1, <1>3, <1>4, <1>5, <1>7, <1>8, <1>9, <1>10, <1>11 DEF ToRead, n

\* A recording that ends within a field is written to its end.
LEMMA WritesRest ==
  ASSUME IInv, phase = "archived", Serves, Behind, Knows(L, grammar), ServeRest, grammar.at # "done",
         ToWrite = Rest(L, grammar.at, "s2c"), \A k \in DOMAIN client : Rank[grammar.at] < Rank[client[k].f]
  PROVE  Serves' /\ Behind' /\ exhausted'
  <1> DEFINE at == grammar.at
             n  == Len(Recorded)
  <1>1. /\ Tap(at) = "s2c" /\ ~ HasChunk(grammar, Recorded)
        /\ pos' = Len(s2c) /\ exhausted' /\ ~ busy'
        /\ UNCHANGED capture /\ script' = script /\ client' = client /\ buffer' = buffer /\ grammar' = grammar
    BY DEF ServeRest, Serving, Exhaust, Waiting
  <1>2. /\ L \in Session /\ s2c \in Seq(All) /\ Lost \in Seq(All) /\ Recorded \in Seq(All)
        /\ pos \in Nat /\ Len(s2c) \in Nat /\ pos <= Len(s2c) /\ Len(Recorded) = Len(s2c) - pos
        /\ \A k \in 1..Len(Recorded) : Recorded[k] = s2c[pos + k]
    BY ServedFacts
  <1>3. grammar \in Grammar /\ at \in Points \ {"done"}
    BY DEF Serves, Knows
  <1>4. Nbytes(grammar) = Size0(L, at) /\ Size0(L, at) \in Nat
    BY <1>2, <1>3, MeetsNext, FieldFacts
  <1>5. n \in Nat /\ n < Size0(L, at) /\ pos' = pos + n
    BY <1>1, <1>2, <1>4 DEF HasChunk
  <1>6. \A k \in 1..n : Recorded[k].f = at
    <2>1. Recorded \o Lost = Rest(L, at, Tap(at))
      BY <1>1 DEF ToWrite
    <2> HIDE DEF at
    <2>2. \A k \in 1..Len(Recorded) : k <= Size0(L, at) => Recorded[k].f = at
      BY <1>2, <1>3, <2>1, FieldHead
    <2> QED
      BY <1>4, <1>5, <2>2
  <1>7. \A i \in pos + 1..pos + n : s2c[i].f = at
    <2> TAKE i \in pos + 1..pos + n
    <2> DEFINE k == i - pos
    <2>1. k \in 1..n /\ pos + k = i
      BY <1>2, <1>5
    <2> HIDE DEF k
    <2> QED
      BY <1>2, <1>6, <2>1
  <1>8. at # "screen"
    BY <1>3 DEF Points, Exchange
  <1> HIDE DEF n
  <1>9. Behind'
    BY <1>1, <1>2, <1>5, <1>7, <1>8, BehindField
  <1>10. Serves'
    <2>1. s2c' = s2c
      BY <1>1, SameArchive
    <2> QED
      BY <1>1, <1>2, <2>1 DEF Serves
  <1> QED
    BY <1>1, <1>9, <1>10

-----------------------------------------------------------------------------
(* From one field of the handshake to the next *)

\* The grammar ends the handshake after the name of the screen, which it has
\* the length of, or at a refusal.
LEMMA MeetsLast ==
  ASSUME NEW p \in Session, NEW g \in Grammar, Knows(p, g), ~ Strange(p), g.at \notin {"version", "reply", "done"},
         g.at = "name" => g.sized
  PROVE  /\ Meets(p, g).at \notin {"version", "reply"}
         /\ Meets(p, g).at = "name" => Meets(p, g).sized
         /\ Meets(p, g).at = "done" =>
               \/ g.at = "name" /\ Meets(p, g).sized /\ ~ Refused(p)
               \/ g.at # "name" /\ ~ Meets(p, g).sized /\ Refused(p)
  <1>1. Meets(p, g).at = After(p, g.at) /\ g.at \in Points
    BY MeetsNext DEF Knows
  <1>2. After(p, g.at) \notin {"version", "reply"}
    BY DEF After
  <1>3. CASE g.at = "serverinit"
    <2>1. Meets(p, g).sized
      BY <1>3 DEF Meets, Resume, Grammar
    <2>2. After(p, g.at) = "name"
      BY <1>3 DEF After
    <2> QED
      BY <1>1, <1>2, <2>1, <2>2
  <1>4. CASE g.at = "name"
    <2>1. Meets(p, g).sized = g.sized
      BY <1>4 DEF Meets, Resume, Grammar
    <2>2. After(p, g.at) = "done"
      BY <1>4 DEF After
    <2>3. ~ Refused(p)
      BY <1>4 DEF Knows
    <2> QED
      BY <1>1, <1>2, <1>4, <2>1, <2>2, <2>3
  <1>5. CASE g.at \notin {"serverinit", "name"}
    <2>1. ~ g.sized
      BY <1>5 DEF Knows
    <2>2. Meets(p, g).sized = g.sized
      BY <1>5 DEF Meets, Resume, GiveUp, Authenticate, AfterExchange, Grammar
    <2>3. After(p, g.at) # "name"
      BY <1>5 DEF After
    <2>4. ASSUME After(p, g.at) = "done" PROVE Refused(p)
      <3>1. CASE g.at \in {"count", "auth", "choice"}
        <4>1. p.sec = INVALID
          BY <2>4, <3>1 DEF After, Strange, Knows
        <4> QED
          BY <4>1 DEF Refused
      <3>2. CASE g.at = "result"
        <4>1. HasResult(p) /\ ~ p.ok
          BY <2>4, <3>2 DEF After, Knows
        <4> QED
          BY <4>1 DEF Refused
      <3>3. CASE g.at \notin {"count", "auth", "choice", "result"}
        BY <1>1, <1>5, <2>4, <3>3 DEF After, Points, Exchange
      <3> QED
        BY <3>1, <3>2, <3>3
    <2> QED
      BY <1>1, <1>2, <1>5, <2>1, <2>2, <2>3, <2>4
  <1> QED
    BY <1>3, <1>4, <1>5

\* Both sides go on to the next field with the grammar, or to what follows the
\* handshake (capture.py:HandshakeScrubber._run).
LEMMA TalksOn ==
  ASSUME Typed, script \in Scripts, grammar \in Grammar, Talks,
         script' = script, L' = L, grammar' = Meets(L, grammar), UNCHANGED <<checked, awaiting>>,
         ToWrite' = Later(L, grammar.at, "s2c"), ToRead' = Later(L, grammar.at, "c2s")
  PROVE  Talks' \/ Asks' \/ Denied'
  <1> DEFINE at == grammar.at
             next == Meets(L, grammar)
  <1>1. L \in Session /\ L.inputs = script /\ script \in Scripted
    BY ServedSession DEF Scripted
  <1>2. /\ at \notin {"version", "reply", "done"} /\ Knows(L, grammar) /\ ~ Strange(L)
        /\ (at = "name" => grammar.sized) /\ checked /\ ~ awaiting
    BY DEF Talks
  <1>3. /\ next.at = After(L, at) /\ Knows(L, next)
    BY <1>1, <1>2, MeetsNext
  <1>4. /\ next.at \notin {"version", "reply"} /\ (next.at = "name" => next.sized)
        /\ next.at = "done" => \/ at = "name" /\ next.sized /\ ~ Refused(L)
                               \/ at # "name" /\ ~ next.sized /\ Refused(L)
    BY <1>1, <1>2, MeetsLast
  <1>5. \A d : Later(L, at, d) = Rest(L, next.at, d)
    BY <1>1, <1>2, <1>3, LaterRest
  <1>6. ToWrite' = Rest(L, next.at, "s2c") /\ ToRead' = Rest(L, next.at, "c2s")
    BY <1>5
  <1> HIDE DEF next
  <1>7. CASE next.at # "done"
    <2>1. Talks'
      BY <1>2, <1>3, <1>4, <1>6, <1>7 DEF Talks, next
    <2> QED
      BY <2>1
  <1>8. CASE next.at = "done" /\ next.sized
    <2>1. ~ Refused(L)
      BY <1>4, <1>8
    <2>2. ToRead' = Messages(script)
      BY <1>1, <1>6, <1>8, <2>1 DEF Rest, Closing, Screen
    <2>3. Messages(script) \in Seq(All) /\ Offset(script, 1) = 0 /\ Len(script) \in Nat
      BY <1>1, MessagesFacts, OffsetEnds, ScriptFacts, LenProperties
    <2>4. Messages(script) = SubSeq(Messages(script), Offset(script, 1) + 1, Len(Messages(script)))
      <3>1. Offset(script, 1) + 1 = 1
        BY <2>3
      <3> QED
        BY <2>3, <3>1, AllOf
    <2>5. 1 \in 1..Len(script) + 1
      BY <2>3
    <2>6. \E j \in 1..Len(script) + 1 :
             ToRead' = SubSeq(Messages(script), Offset(script, j) + 1, Len(Messages(script)))
      BY <2>2, <2>4, <2>5
    <2>7. Asks'
      BY <1>6, <1>8, <2>1, <2>6 DEF Asks, next
    <2> QED
      BY <2>7
  <1>9. CASE next.at = "done" /\ ~ next.sized
    <2>1. Refused(L)
      BY <1>4, <1>9
    <2>2. Reason("c2s") = <<>>
      BY DEF Reason, Says, From, Tap
    <2>3. ToRead' = <<>>
      BY <1>6, <1>9, <2>1, <2>2 DEF Rest, Closing
    <2>4. Denied'
      BY <1>2, <1>6, <1>9, <2>1, <2>3 DEF Denied, next
    <2> QED
      BY <2>4
  <1> QED
    BY <1>7, <1>8, <1>9

\* Of what is to be read nothing ranks as low as a field that is to be written.
LEMMA ReadsLater ==
  ASSUME NEW p \in Session, NEW at \in Points \ {"done"}, Tap(at) = "s2c", client \in Seq(All), buffer \in Seq(All),
         ToRead = Rest(p, at, "c2s")
  PROVE  /\ ToRead = Later(p, at, "c2s")
         /\ \A k \in DOMAIN client : Rank[at] < Rank[client[k].f]
  <1>1. Other("s2c") = "c2s"
    BY DEF Other
  <1>2. /\ Rest(p, at, Other(Tap(at))) = Later(p, at, Other(Tap(at)))
        /\ \A d : \A i \in DOMAIN Later(p, at, d) : Rank[at] < Rank[Later(p, at, d)[i].f]
    BY FieldFirst
  <1>3. ToRead = Later(p, at, "c2s")
    BY <1>1, <1>2
  <1>4. \A i \in DOMAIN (buffer \o client) : Rank[at] < Rank[(buffer \o client)[i].f]
    BY <1>2, <1>3 DEF ToRead
  <1> QED
    BY <1>3, <1>4, ClientLast

\* Of a client that has still to reply everything ranks above the greeting.
LEMMA GreetsLater ==
  ASSUME Typed, Serves, Greets, grammar.at = "version"
  PROVE  \A k \in DOMAIN client : Rank[grammar.at] < Rank[client[k].f]
  <1>1. PICK reply \in Replies \ {0} : ToRead = Speech(reply, script)
    BY DEF Greets
  <1>2. reply \in Nat /\ script \in Scripts /\ client \in Seq(All) /\ buffer \in Seq(All)
    BY ReplyAssumption DEF Serves
  <1>3. \A i \in DOMAIN Speech(reply, script) : 1 < Rank[Speech(reply, script)[i].f]
    BY <1>2, SpeechFacts
  <1>4. \A i \in DOMAIN (buffer \o client) : 1 < Rank[(buffer \o client)[i].f]
    BY <1>1, <1>3 DEF ToRead
  <1>5. Rank[grammar.at] = 1
    BY RankValues
  <1> QED
    BY <1>2, <1>4, <1>5, ClientLast

\* What a client says to begin with is a matter of the archive.
LEMMA SameSpeech ==
  ASSUME UNCHANGED capture, script' = script, NEW reply
  PROVE  Speech(reply, script)' = Speech(reply, script)
  <1>1. session' = session /\ scrubber' = scrubber
    BY DEF capture
  <1>2. Live(script)' = Live(script)
    BY <1>1 DEF Live
  <1> QED
    BY <1>2 DEF Speech

\* WriteChunk within the greeting,
LEMMA GreetsWrite ==
  ASSUME IInv, phase = "archived", Serves, Behind, Greets, WriteChunk
  PROVE  Serves' /\ Behind' /\ Greets'
  <1>1. Typed /\ L \in Session /\ Knows(L, grammar) /\ ToWrite = Rest(L, grammar.at, "s2c") /\ grammar \in Grammar
    BY ServedFacts DEF Greets, Serves
  <1>2. grammar.at = "version"
    <2>1. Tap(grammar.at) = "s2c" /\ grammar.at \in {"version", "reply"}
      BY DEF WriteChunk, Waiting, Greets
    <2> QED
      BY <2>1 DEF Tap
  <1>3. \A k \in DOMAIN client : Rank[grammar.at] < Rank[client[k].f]
    BY <1>1, <1>2, GreetsLater
  <1>4. /\ Serves' /\ Behind' /\ L' = L /\ ToRead' = ToRead
        /\ ToWrite' = Later(L, grammar.at, "s2c") /\ grammar' = Meets(L, grammar)
        /\ pos' = pos + Size0(L, grammar.at) /\ UNCHANGED <<checked, awaiting>>
    BY <1>1, <1>3, Writes
  <1>5. grammar'.at = "reply" /\ Knows(L, grammar')
    <2>1. grammar.at # "done" /\ After(L, grammar.at) = "reply"
      BY <1>2 DEF After
    <2> QED
      BY <1>1, <1>4, <2>1, MeetsNext
  <1>6. pos' = 12
    BY <1>2, <1>4 DEF Size0, Greets
  <1>7. ToWrite' = Rest(L, "reply", "s2c")
    <2>1. After(L, grammar.at) = "reply" /\ grammar.at # "done"
      BY <1>2 DEF After
    <2>2. Later(L, grammar.at, "s2c") = Rest(L, "reply", "s2c")
      BY <1>1, <2>1, LaterRest
    <2> QED
      BY <1>4, <2>2
  <1>8. script' = script /\ \A reply : Speech(reply, script)' = Speech(reply, script)
    BY SameSpeech DEF WriteChunk
  <1>9. \E reply \in Replies \ {0} : ToRead' = Speech(reply, script)'
    BY <1>4, <1>8 DEF Greets
  <1>10. Greets'
    BY <1>4, <1>5, <1>6, <1>7, <1>8, <1>9 DEF Greets
  <1> QED
    BY <1>4, <1>10

\* and after it.
LEMMA TalksWrite ==
  ASSUME IInv, phase = "archived", Serves, Behind, Talks, WriteChunk
  PROVE  Serves' /\ Behind' /\ (Talks' \/ Asks' \/ Denied')
  <1>1. /\ Typed /\ L \in Session /\ Knows(L, grammar) /\ grammar \in Grammar /\ script \in Scripts
        /\ client \in Seq(All) /\ buffer \in Seq(All)
        /\ ToWrite = Rest(L, grammar.at, "s2c") /\ ToRead = Rest(L, grammar.at, "c2s")
    BY ServedFacts DEF Talks, Serves
  <1>2. grammar.at \in Points \ {"done"} /\ Tap(grammar.at) = "s2c"
    BY <1>1 DEF WriteChunk, Waiting, Knows
  <1>3. ToRead = Later(L, grammar.at, "c2s") /\ \A k \in DOMAIN client : Rank[grammar.at] < Rank[client[k].f]
    BY <1>1, <1>2, ReadsLater
  <1>4. /\ Serves' /\ Behind' /\ L' = L /\ ToRead' = ToRead
        /\ ToWrite' = Later(L, grammar.at, "s2c") /\ grammar' = Meets(L, grammar)
        /\ UNCHANGED <<checked, awaiting>>
    BY <1>1, <1>3, Writes
  <1>5. script' = script
    BY DEF WriteChunk
  <1>6. ToRead' = Later(L, grammar.at, "c2s")
    BY <1>3, <1>4
  <1>7. Talks' \/ Asks' \/ Denied'
    BY <1>1, <1>4, <1>5, <1>6, TalksOn
  <1> QED
    BY <1>4, <1>7

\* The client's answer is read, and the server's side is at the same field.
LEMMA TalksRead ==
  ASSUME IInv, phase = "archived", Serves, Behind, Talks, ReadChunk
  PROVE  conn' = conn /\ Serves' /\ Behind' /\ (Talks' \/ Asks' \/ Denied')
  <1> DEFINE at == grammar.at
             n  == Size0(L, at)
  <1>1. /\ Typed /\ L \in Session /\ Knows(L, grammar) /\ grammar \in Grammar /\ ~ grammar.preserve /\ script \in Scripts
        /\ client \in Seq(All) /\ buffer \in Seq(All) /\ checked
        /\ ToWrite = Rest(L, at, "s2c") /\ ToRead = Rest(L, at, "c2s")
    BY ServedFacts DEF Talks, Serves
  <1>2. /\ busy /\ at # "done" /\ Tap(at) = "c2s" /\ HasChunk(grammar, buffer)
        /\ grammar' = Resume(grammar, Decode(SubSeq(buffer, 1, Nbytes(grammar))))
        /\ buffer' = SubSeq(buffer, Nbytes(grammar) + 1, Len(buffer))
        /\ UNCHANGED <<conn, exhausted, busy>> /\ checked'
        /\ UNCHANGED capture /\ script' = script /\ client' = client /\ pos' = pos /\ awaiting' = awaiting
    BY <1>1 DEF ReadChunk, Waiting, ChunkOf
  <1>3. at \in Points \ {"done"}
    BY <1>1, <1>2 DEF Knows
  <1>4. /\ Meets(L, grammar) \in Grammar /\ Meets(L, grammar).preserve = grammar.preserve /\ Nbytes(grammar) = n
    BY <1>1, <1>2, MeetsNext
  <1>5. n \in Nat /\ n <= Len(buffer) /\ Len(buffer) \in Nat
    <2>1. n \in Nat /\ Len(buffer) \in Nat
      BY <1>1, <1>3, FieldFacts, LenProperties
    <2> QED
      BY <1>2, <1>4, <2>1 DEF HasChunk
  <1>6. /\ SubSeq(buffer, n + 1, Len(buffer)) \in Seq(All)
        /\ SubSeq(buffer, n + 1, Len(buffer)) \o client = Later(L, at, "c2s")
        /\ Decode(SubSeq(buffer, 1, n)) = Value(L, at)
    <2>1. buffer \o client = Rest(L, at, Tap(at))
      BY <1>1, <1>2 DEF ToRead
    <2> HIDE DEF at
    <2>2. Len(buffer) >= n =>
             /\ SubSeq(buffer, n + 1, Len(buffer)) \in Seq(All)
             /\ SubSeq(buffer, n + 1, Len(buffer)) \o client = Later(L, at, Tap(at))
             /\ Decode(SubSeq(buffer, 1, n)) = Value(L, at)
      BY <1>1, <1>3, <2>1, FieldHead
    <2> HIDE DEF n
    <2> QED
      BY <1>2, <1>5, <2>2
  <1>7. grammar' = Meets(L, grammar)
    BY <1>2, <1>4, <1>6 DEF Meets
  <1>8. L' = L /\ Lost' = Lost /\ s2c' = s2c
    BY <1>2, SameArchive
  <1>9. ToRead' = Later(L, at, "c2s")
    BY <1>2, <1>4, <1>6 DEF ToRead
  <1>10. ToWrite' = Later(L, at, "s2c")
    <2>1. ToWrite' = ToWrite
      BY <1>2, <1>8 DEF ToWrite, Recorded
    <2>2. Other(Tap(at)) = "s2c"
      BY <1>2 DEF Other
    <2>3. Rest(L, at, Other(Tap(at))) = Later(L, at, Other(Tap(at)))
      BY <1>1, <1>3, FieldFirst
    <2> QED
      BY <1>1, <2>1, <2>2, <2>3
  <1>11. Behind'
    BY <1>2, BehindSame
  <1>12. Serves'
    BY <1>1, <1>2, <1>4, <1>6, <1>7, <1>8 DEF Serves
  <1>13. UNCHANGED <<checked, awaiting>>
    BY <1>2, <1>1 DEF ReadChunk
  <1>14. Talks' \/ Asks' \/ Denied'
    BY <1>1, <1>2, <1>7, <1>8, <1>9, <1>10, <1>13, TalksOn
  <1> QED
    BY <1>2, <1>11, <1>12, <1>14

\* The client's version is that of the recording, or the connection is closed,
\* or there is nothing more to write (replay.py:_check_version).
LEMMA GreetsRead ==
  ASSUME IInv, ArchiveInv, phase = "archived", Paceable, Serves, Behind, Greets, ReadChunk, conn' = "up"
  PROVE  Serves' /\ Behind' /\ (Talks' \/ Greeted')
  <1>1. /\ Typed /\ L \in Session /\ L.reply = session.reply /\ Knows(L, grammar)
        /\ (session.reply # 0 => ~ Strange(L))
        /\ grammar \in Grammar /\ ~ grammar.preserve /\ script \in Scripts
        /\ client \in Seq(All) /\ buffer \in Seq(All) /\ Len(s2c) \in Nat /\ pos \in 0..Len(s2c)
        /\ ToWrite = Rest(L, grammar.at, "s2c") /\ grammar.at \in {"version", "reply"}
        /\ ~ checked /\ ~ awaiting /\ pos = IF grammar.at = "reply" THEN 12 ELSE 0
    BY ServedFacts DEF Greets, Serves
  <1>2. grammar.at = "reply"
    <2>1. Tap(grammar.at) = "c2s"
      BY DEF ReadChunk, Waiting
    <2> QED
      BY <1>1, <2>1 DEF Tap
  <1> DEFINE next == Resume(grammar, Decode(SubSeq(buffer, 1, Nbytes(grammar))))
  <1>3. /\ HasChunk(grammar, buffer) /\ grammar' = next
        /\ buffer' = SubSeq(buffer, Nbytes(grammar) + 1, Len(buffer))
        /\ checked' = (checked \/ next.ver # 0)
        /\ (next.ver \notin {0, NegotiatedVersion} /\ NegotiatedVersion # 0 => conn' = "closing")
        /\ (~ (next.ver \notin {0, NegotiatedVersion} /\ NegotiatedVersion # 0) => UNCHANGED <<conn, exhausted, busy>>)
        /\ UNCHANGED capture /\ script' = script /\ client' = client /\ pos' = pos /\ awaiting' = awaiting
    BY <1>1 DEF ReadChunk, ChunkOf
  <1>4. ~ (next.ver \notin {0, NegotiatedVersion} /\ NegotiatedVersion # 0) /\ UNCHANGED <<conn, exhausted, busy>>
    BY <1>3
  <1>5. Nbytes(grammar) = 12 /\ Len(buffer) \in Nat /\ Len(buffer) >= 12
    <2>1. Nbytes(grammar) = 12
      BY <1>2 DEF Nbytes
    <2> QED
      BY <1>1, <1>3, <2>1, LenProperties DEF HasChunk
  <1>6. PICK reply \in Replies \ {0} : ToRead = Speech(reply, script)
    BY DEF Greets
  <1>7. reply \in Nat /\ reply # 0
    BY ReplyAssumption
  <1>8. /\ Offer(L, "c2s") \in Seq(All) /\ Speech(reply, script) = Bytes("reply", 12, reply) \o Offer(L, "c2s")
        /\ Bytes("reply", 12, reply) \in Seq(All) /\ Len(Bytes("reply", 12, reply)) = 12
        /\ Decode(Bytes("reply", 12, reply)) = reply
    BY <1>1, <1>7, SpeechFacts DEF L
  <1>9. /\ SubSeq(buffer, 13, Len(buffer)) \in Seq(All) /\ SubSeq(buffer, 13, Len(buffer)) \o client = Offer(L, "c2s")
        /\ Decode(SubSeq(buffer, 1, 12)) = reply
    <2>1. PICK c \in Seq(All), e \in Seq(All) : c = Bytes("reply", 12, reply) /\ e = Offer(L, "c2s")
      BY <1>8
    <2>2. Splits(buffer, client, c, e)
      BY <1>5, <1>6, <1>8, <2>1 DEF Splits, ToRead
    <2>3. /\ SubSeq(buffer, 1, Len(c)) = c /\ SubSeq(buffer, Len(c) + 1, Len(buffer)) \in Seq(All)
          /\ SubSeq(buffer, Len(c) + 1, Len(buffer)) \o client = e
      BY <1>1, <2>2, BehindHead
    <2>4. Len(c) = 12 /\ Len(c) + 1 = 13
      <3>1. Len(c) = 12
        BY <1>8, <2>1
      <3> QED
        BY <3>1
    <2> QED
      BY <1>8, <2>1, <2>3, <2>4
  <1>10. next = [grammar EXCEPT !.ver = reply, !.at = IF reply >= 3007 THEN "count" ELSE "auth"]
    <2>1. next = Resume(grammar, reply)
      BY <1>5, <1>9
    <2> HIDE DEF next
    <2> QED
      BY <1>2, <1>7, <2>1 DEF Resume
  <1>11. /\ next \in Grammar /\ ~ next.preserve /\ next.ver = reply /\ next.at \in {"count", "auth"}
         /\ next.sized = grammar.sized
    <2>1. PICK at \in {"count", "auth"} : at = IF reply >= 3007 THEN "count" ELSE "auth"
      OBVIOUS
    <2>2. next = [grammar EXCEPT !.ver = reply, !.at = at] /\ at \in Points
      BY <1>10, <2>1 DEF Points
    <2>3. grammar \in Grammar /\ ~ grammar.preserve /\ reply \in Nat
      BY <1>1, <1>7
    <2> HIDE DEF next
    <2>4. next \in Grammar
      BY <2>2, <2>3 DEF Grammar
    <2>5. next.ver = reply /\ next.at = at /\ next.preserve = grammar.preserve /\ next.sized = grammar.sized
      BY <2>2, <2>3 DEF Grammar
    <2> QED
      BY <2>1, <2>3, <2>4, <2>5
  <1>12. ~ grammar.sized
    BY <1>1, <1>2 DEF Knows
  <1>13. L' = L /\ Lost' = Lost /\ s2c' = s2c
    BY <1>3, SameArchive
  <1> HIDE DEF next
  <1>14. Behind'
    BY <1>3, BehindSame
  <1>15. buffer' = SubSeq(buffer, 13, Len(buffer))
    <2>1. 12 + 1 = 13
      OBVIOUS
    <2> QED
      BY <1>3, <1>5, <2>1
  <1>16. Serves'
    BY <1>1, <1>3, <1>4, <1>9, <1>11, <1>13, <1>15 DEF Serves
  <1>17. CASE reply = L.reply
    <2>1. next = Meets(L, grammar)
      BY <1>2, <1>5, <1>9, <1>17 DEF Meets, Value, next
    <2>2. Knows(L, next) /\ next.at = After(L, "reply")
      BY <1>1, <1>2, <2>1, MeetsNext
    <2>3. \A d : Later(L, "reply", d) = Rest(L, next.at, d)
      BY <1>1, <1>2, <1>11, <2>2, LaterRest
    <2>4. /\ Rest(L, "reply", "s2c") = Offer(L, "s2c") /\ Later(L, "reply", "c2s") = Offer(L, "c2s")
          /\ Later(L, "reply", "s2c") = Offer(L, "s2c")
      BY <1>1, GreetingRest DEF Later
    <2>5. ToWrite' = Rest(L, next.at, "s2c")
      <3>1. ToWrite' = ToWrite
        BY <1>3, <1>13 DEF ToWrite, Recorded
      <3> QED
        BY <1>1, <1>2, <2>3, <2>4, <3>1
    <2>6. ToRead' = Rest(L, next.at, "c2s")
      BY <1>3, <1>9, <1>15, <2>3, <2>4 DEF ToRead
    <2>7. checked' /\ ~ awaiting'
      BY <1>1, <1>3, <1>7, <1>11
    <2>8. ~ Strange(L)
      BY <1>1, <1>7, <1>17
    <2>9. Talks'
      BY <1>3, <1>11, <1>13, <2>2, <2>5, <2>6, <2>7, <2>8 DEF Talks
    <2> QED
      BY <1>14, <1>16, <2>9
  <1>18. CASE reply # L.reply
    <2>1. Len(s2c) <= 12
      <3>1. ASSUME ~ (Len(s2c) <= 12) PROVE FALSE
        <4>1. scrubber.ver = session.reply /\ (session.reply # 0 \/ scrubber.preserve)
          BY <3>1 DEF ArchiveInv, Archived
        <4>2. session.reply # 0
          BY <4>1 DEF Paceable
        <4> QED
          BY <1>1, <1>4, <1>7, <1>11, <1>18, <4>1, <4>2 DEF NegotiatedVersion
      <3> QED
        BY <3>1
    <2>2. pos = Len(s2c)
      <3>1. pos = 12
        BY <1>1, <1>2
      <3>2. PICK m \in Nat : m = Len(s2c) /\ pos <= m
        BY ServedFacts
      <3> QED
        BY <2>1, <3>1, <3>2
    <2>3. Greeted'
      BY <1>1, <1>3, <1>11, <1>12, <1>13, <2>2 DEF Greeted
    <2> QED
      BY <1>14, <1>16, <2>3
  <1> QED
    BY <1>17, <1>18

-----------------------------------------------------------------------------
(* After the handshake *)

\* At the head of the buffer is the beginning of one of the client's messages.
LEMMA AtMessage ==
  ASSUME IInv, phase = "archived", Serves, Asks, buffer # <<>>
  PROVE  \E j \in DOMAIN script :
            /\ Kind = script[j] /\ Size[Kind] \in Nat /\ Size[Kind] > 0 /\ Kind \in Kinds /\ j + 1 \in 1..Len(script) + 1
            /\ Offset(script, j) \in Nat /\ Offset(script, j + 1) = Offset(script, j) + Size[Kind]
            /\ Len(Messages(script)) \in Nat /\ Offset(script, j + 1) <= Len(Messages(script))
            /\ ToRead = SubSeq(Messages(script), Offset(script, j) + 1, Len(Messages(script)))
            /\ Len(buffer) + Len(client) = Len(Messages(script)) - Offset(script, j)
  <1>1. script \in Scripted /\ client \in Seq(All) /\ buffer \in Seq(All)
    BY DEF Serves, Scripted
  <1>2. Len(script) \in Nat /\ DOMAIN script = 1..Len(script)
    BY <1>1, ScriptFacts, LenProperties
  <1> DEFINE M == Messages(script)
  <1>3. M \in Seq(All) /\ Len(M) \in Nat /\ Offset(script, Len(script) + 1) = Len(M)
    BY <1>1, MessagesFacts, OffsetEnds
  <1>4. PICK j \in 1..Len(script) + 1 : ToRead = SubSeq(M, Offset(script, j) + 1, Len(M))
    BY DEF Asks
  <1>5. PICK a \in Nat : a = Offset(script, j) /\ a <= Len(M)
    <2>1. Offset(script, j) \in Nat /\ Offset(script, j) <= Offset(script, Len(script) + 1)
      BY <1>1, <1>2, OffsetEnds
    <2> QED
      BY <1>3, <2>1
  <1> HIDE DEF M
  <1>6. Len(ToRead) = Len(M) - a /\ \A k \in 1..Len(M) - a : ToRead[k] = M[a + k]
    BY <1>3, <1>4, <1>5, Remainder
  <1>7. /\ Len(buffer) \in Nat /\ Len(client) \in Nat /\ Len(buffer) > 0 /\ Len(ToRead) = Len(buffer) + Len(client)
        /\ ToRead[1] = Head(buffer)
    <2>1. /\ Len(buffer \o client) = Len(buffer) + Len(client) /\ Len(buffer) \in Nat /\ Len(client) \in Nat
          /\ \A i \in 1..Len(buffer) + Len(client) : (buffer \o client)[i] = IF i <= Len(buffer) THEN buffer[i] ELSE client[i - Len(buffer)]
      BY <1>1, ConcatProperties, LenProperties
    <2>2. Len(buffer) # 0
      BY <1>1, EmptySeq
    <2>3. (buffer \o client)[1] = buffer[1]
      BY <2>1, <2>2
    <2>4. Head(buffer) = buffer[1]
      BY <1>1
    <2> QED
      BY <2>1, <2>2, <2>3, <2>4 DEF ToRead
  <1>8. a < Len(M)
    BY <1>3, <1>6, <1>7
  <1>9. j \in DOMAIN script /\ j + 1 \in 1..Len(script) + 1
    <2>1. j # Len(script) + 1
      BY <1>3, <1>5, <1>8
    <2> QED
      BY <1>2, <2>1
  <1>10. /\ Size[script[j]] \in Nat /\ Size[script[j]] > 0 /\ script[j] \in Kinds
         /\ Offset(script, j + 1) = Offset(script, j) + Size[script[j]]
    BY <1>1, <1>9, OffsetNext
  <1>11. Offset(script, j + 1) <= Len(M)
    <2>1. j + 1 \in Int /\ Len(script) + 1 \in Int /\ j + 1 <= Len(script) + 1
      BY <1>2, <1>9
    <2> QED
      BY <1>1, <1>3, <2>1, OffsetEnds
  <1>12. Kind = script[j]
    <2>1. 1 \in 1..Size[script[j]]
      BY <1>10
    <2>2. M[Offset(script, j) + 1] = [f |-> "input", v |-> <<script[j], 1>>]
      BY <1>1, <1>9, <2>1, MessagePlace DEF M
    <2>3. 1 \in 1..Len(M) - a
      BY <1>3, <1>8
    <2>4. Head(buffer) = [f |-> "input", v |-> <<script[j], 1>>]
      BY <1>5, <1>6, <1>7, <2>2, <2>3
    <2> QED
      BY <2>4 DEF Kind
  <1> QED
    BY <1>3, <1>4, <1>5, <1>6, <1>7, <1>9, <1>10, <1>11, <1>12 DEF M

\* A message that asks for nothing is taken off, and the next one comes first.
LEMMA Skips ==
  ASSUME IInv, phase = "archived", Serves, Behind, Asks, SkipMessage
  PROVE  Serves' /\ Behind' /\ Asks' /\ ~ exhausted'
  <1>1. /\ busy /\ Measured /\ Whole
        /\ buffer' = SubSeq(buffer, Size[Kind] + 1, Len(buffer))
        /\ UNCHANGED capture /\ script' = script /\ client' = client /\ pos' = pos /\ grammar' = grammar
        /\ exhausted' = exhausted /\ busy' = busy
    BY DEF SkipMessage, Serving, Whole
  <1>2. /\ L \in Session /\ client \in Seq(All) /\ buffer \in Seq(All) /\ script \in Scripted /\ ToRead \in Seq(All)
    BY ServedFacts DEF Serves, Scripted
  <1>3. buffer # <<>> /\ Len(buffer) >= Size[Kind]
    BY <1>1 DEF Measured, Whole
  <1>4. PICK j \in DOMAIN script :
            /\ Size[Kind] \in Nat /\ Size[Kind] > 0 /\ j + 1 \in 1..Len(script) + 1
            /\ Offset(script, j) \in Nat /\ Offset(script, j + 1) = Offset(script, j) + Size[Kind]
            /\ Len(Messages(script)) \in Nat /\ Offset(script, j + 1) <= Len(Messages(script))
            /\ ToRead = SubSeq(Messages(script), Offset(script, j) + 1, Len(Messages(script)))
            /\ Len(buffer) + Len(client) = Len(Messages(script)) - Offset(script, j)
    BY <1>3, AtMessage
  <1>5. PICK m \in Nat, a \in Nat, M \in Seq(All), t \in Seq(All), b \in Seq(All), c \in Seq(All) :
           m = Size[Kind] /\ a = Offset(script, j) /\ M = Messages(script) /\ t = ToRead /\ b = buffer /\ c = client
    BY <1>2, <1>4, MessagesFacts
  <1>6. t = SubSeq(M, a + 1, Len(M)) /\ m > 0 /\ a + m <= Len(M) /\ Len(b) >= m /\ t = b \o c
    BY <1>3, <1>4, <1>5 DEF ToRead
  <1>7. SubSeq(t, m + 1, Len(t)) = SubSeq(M, (a + m) + 1, Len(M))
    BY <1>6, CutFurther
  <1>8. SubSeq(b, m + 1, Len(b)) \in Seq(All) /\ SubSeq(b, m + 1, Len(b)) \o c = SubSeq(t, m + 1, Len(t))
    <2>1. m \in DOMAIN t
      <3>1. Len(t) = Len(b) + Len(c) /\ Len(b) \in Nat /\ Len(c) \in Nat
        BY <1>6, ConcatProperties, LenProperties
      <3>2. m \in 1..Len(t)
        BY <1>6, <3>1
      <3> QED
        BY <3>2, LenProperties
    <2>2. PICK x \in Seq(All), y \in Seq(All) :
             x = SubSeq(t, 1, m) /\ y = SubSeq(t, m + 1, Len(t)) /\ x \o y = t /\ Len(x) = m
      BY <2>1, InTwo
    <2>3. Splits(b, c, x, y)
      BY <1>6, <2>2 DEF Splits
    <2>4. SubSeq(b, Len(x) + 1, Len(b)) \in Seq(All) /\ SubSeq(b, Len(x) + 1, Len(b)) \o c = y
      BY <2>3, BehindHead
    <2> QED
      BY <2>2, <2>4
  <1>9. ToRead' = SubSeq(Messages(script), Offset(script, j + 1) + 1, Len(Messages(script)))
    BY <1>1, <1>4, <1>5, <1>7, <1>8 DEF ToRead
  <1>10. L' = L /\ s2c' = s2c /\ ToWrite' = ToWrite
    BY <1>1, SameArchive DEF ToWrite, Recorded
  <1>11. Asks'
    <2>1. \E i \in 1..Len(script) + 1 : ToRead' = SubSeq(Messages(script), Offset(script, i) + 1, Len(Messages(script)))
      BY <1>4, <1>9
    <2> QED
      BY <1>1, <1>10, <2>1 DEF Asks
  <1>12. Behind'
    BY <1>1, BehindSame
  <1>13. buffer' \in Seq(All)
    BY <1>1, <1>5, <1>8
  <1>14. Serves' /\ ~ exhausted'
    BY <1>1, <1>10, <1>13 DEF Serves
  <1> QED
    BY <1>11, <1>12, <1>14

\* The rest of the recording goes out: the screen, which has been asked for, or
\* the reason of a refusal, to which there is no answer.
LEMMA RestOut ==
  ASSUME IInv, phase = "archived", Serves, Behind, UNCHANGED capture, script' = script, client' = client,
         pos' = Len(s2c), NEW f, \A k \in 1..Len(Recorded) : Recorded[k].f = f,
         IF f = "screen" THEN Asked ELSE client = <<>>
  PROVE  Behind'
  <1>1. /\ pos \in Nat /\ Len(s2c) \in Nat /\ pos <= Len(s2c) /\ Len(Recorded) = Len(s2c) - pos
        /\ \A k \in 1..Len(Recorded) : Recorded[k] = s2c[pos + k]
    BY ServedFacts
  <1>2. s2c' = s2c /\ (Asked' <=> Asked)
    BY SameArchive DEF Asked
  <1>3. \A i \in pos + 1..Len(s2c) : s2c[i].f = f
    <2> TAKE i \in pos + 1..Len(s2c)
    <2> DEFINE k == i - pos
    <2>1. k \in 1..Len(Recorded) /\ pos + k = i
      BY <1>1
    <2> HIDE DEF k
    <2> QED
      BY <1>1, <2>1
  <1>4. DOMAIN <<>> = {}
    OBVIOUS
  <1>5. ASSUME NEW i \in 1..Len(s2c)
        PROVE  IF s2c[i].f = "screen" THEN Asked ELSE \A k \in DOMAIN client : Rank[s2c[i].f] < Rank[client[k].f]
    <2>1. CASE i \in 1..pos
      BY <2>1 DEF Behind
    <2>2. CASE i \in pos + 1..Len(s2c)
      BY <1>3, <1>4, <2>2
    <2> QED
      BY <1>1, <2>1, <2>2
  <1> QED
    BY <1>2, <1>5 DEF Behind

\* After the handshake the recording is of one field.
LEMMA LastField ==
  ASSUME NEW p \in Session, NEW a \in Seq(All), NEW b \in Seq(All), a \o b = Rest(p, "done", "s2c")
  PROVE  \A k \in 1..Len(a) : a[k].f = IF Refused(p) THEN "reason" ELSE "screen"
  <1> DEFINE f == IF Refused(p) THEN "reason" ELSE "screen"
             t == Rest(p, "done", "s2c")
  <1>1. f \in DOMAIN Rank /\ 2 \in Nat /\ 0 \in Vals
    BY RankFacts DEF Vals
  <1>2. Bytes(f, 2, 0) \in Seq(All) /\ Len(Bytes(f, 2, 0)) = 2 /\ \A i \in 1..2 : Bytes(f, 2, 0)[i] = [f |-> f, v |-> 0]
    <2> HIDE DEF f
    <2> QED
      BY <1>1, BytesFacts
  <1>3. t \in {Bytes(f, 2, 0), <<>>}
    BY DEF Rest, Closing, Reason, Screen, Says, From, Tap
  <1>4. t \in Seq(All) /\ \A i \in 1..Len(t) : t[i].f = f
    <2>1. CASE t = Bytes(f, 2, 0)
      <3> HIDE DEF f, t
      <3> QED
        BY <1>2, <2>1
    <2>2. CASE t = <<>>
      BY <2>2, AllOf
    <2> QED
      BY <1>3, <2>1, <2>2
  <1>5. a \o b = t
    OBVIOUS
  <1> HIDE DEF t, f
  <1>6. /\ Len(a \o b) = Len(a) + Len(b) /\ Len(a) \in Nat /\ Len(b) \in Nat
        /\ \A i \in 1..Len(a) + Len(b) : (a \o b)[i] = IF i <= Len(a) THEN a[i] ELSE b[i - Len(a)]
    BY ConcatProperties, LenProperties
  <1>7. ASSUME NEW k \in 1..Len(a) PROVE a[k].f = f
    <2>1. k \in 1..Len(a) + Len(b) /\ k <= Len(a)
      BY <1>6
    <2>2. t[k] = a[k] /\ k \in 1..Len(t)
      BY <1>5, <1>6, <2>1
    <2> QED
      BY <1>4, <2>2
  <1> QED
    BY <1>7 DEF f

\* A request that has arrived whole, or a message that cannot be measured, has
\* been sent.
LEMMA SeesAsked ==
  ASSUME IInv, phase = "archived", Serves, Asks, SeeRequest
  PROVE  Asked
  <1>1. buffer # <<>> /\ Len(buffer) >= Header[Kind] /\ ((Kind = "request" /\ Len(buffer) >= Size[Kind]) \/ Kind \in Unknown)
    BY DEF SeeRequest, Measured, Whole
  <1>2. PICK j \in DOMAIN script :
            /\ Kind = script[j] /\ Size[Kind] \in Nat /\ Kind \in Kinds /\ Offset(script, j) \in Nat
            /\ Len(Messages(script)) \in Nat
            /\ Len(buffer) + Len(client) = Len(Messages(script)) - Offset(script, j)
    BY <1>1, AtMessage
  <1>3. Len(buffer) \in Nat /\ Len(client) \in Nat
    BY LenProperties DEF Serves
  <1>4. Header[Kind] \in Nat
    BY <1>2 DEF Header, Kinds, Size
  <1> DEFINE need == IF script[j] = "request" THEN Size[script[j]] ELSE Header[script[j]]
  <1>5. need \in Nat /\ need <= Len(buffer) /\ script[j] \in Unknown \cup {"request"}
    <2>1. CASE Kind = "request"
      <3>1. "request" \notin Unknown
        BY DEF Unknown
      <3> QED
        BY <1>1, <1>2, <2>1, <3>1
    <2>2. CASE Kind # "request"
      BY <1>1, <1>2, <1>4, <2>2
    <2> QED
      BY <2>1, <2>2
  <1> HIDE DEF need
  <1>6. Offset(script, j) + need <= Len(Messages(script)) - Len(client)
    BY <1>2, <1>3, <1>5
  <1> QED
    BY <1>5, <1>6 DEF Asked, need

\* It lets the screen go out (replay.py:_serve_session).
LEMMA Sees ==
  ASSUME IInv, phase = "archived", Serves, Behind, Asks, SeeRequest
  PROVE  Serves' /\ Behind' /\ exhausted'
  <1>1. /\ pos' = Len(s2c) /\ exhausted' /\ ~ busy'
        /\ UNCHANGED capture /\ script' = script /\ client' = client /\ grammar' = grammar
        /\ buffer' \in {SubSeq(buffer, Size["request"] + 1, Len(buffer)), <<>>}
        /\ (buffer' # <<>> => Len(buffer) >= Size["request"])
    BY DEF SeeRequest, Exhaust, Whole
  <1>2. L \in Session /\ buffer \in Seq(All) /\ Recorded \in Seq(All) /\ Lost \in Seq(All) /\ Len(s2c) \in Nat
    BY ServedFacts
  <1>3. ToWrite = Rest(L, "done", "s2c") /\ ~ Refused(L)
    BY DEF Asks
  <1>4. \A k \in 1..Len(Recorded) : Recorded[k].f = "screen"
    BY <1>2, <1>3, LastField DEF ToWrite
  <1>5. Asked
    BY SeesAsked
  <1>6. Behind'
    BY <1>1, <1>4, <1>5, RestOut
  <1>7. buffer' \in Seq(All)
    <2>1. <<>> \in Seq(All)
      BY AllOf
    <2>2. Size["request"] \in Nat
      BY DEF Size
    <2>3. Len(buffer) >= Size["request"] => SubSeq(buffer, Size["request"] + 1, Len(buffer)) \in Seq(All)
      BY <1>2, <2>2, Remainder
    <2> QED
      BY <1>1, <2>1, <2>3
  <1>8. Serves'
    <2>1. s2c' = s2c
      BY <1>1, SameArchive
    <2>2. pos' \in 0..Len(s2c)
      BY <1>1, <1>2
    <2> QED
      BY <1>1, <1>7, <2>1, <2>2 DEF Serves
  <1> QED
    BY <1>1, <1>6, <1>8

\* What goes out at once: the rest of a recording that ends in the handshake, or
\* that ends with a refusal.
LEMMA RestServed ==
  ASSUME IInv, phase = "archived", Serves, Behind, Greets \/ Talks \/ Asks \/ Denied \/ Greeted, ServeRest
  PROVE  Serves' /\ Behind' /\ exhausted'
  <1>1. /\ pos' = Len(s2c) /\ exhausted' /\ ~ busy' /\ ~ (grammar.at = "done" /\ grammar.sized)
        /\ (grammar.at # "done" => Tap(grammar.at) = "s2c")
        /\ UNCHANGED capture /\ script' = script /\ client' = client /\ grammar' = grammar /\ buffer' = buffer
    BY DEF ServeRest, Exhaust, Gated, Serving, Waiting
  <1>2. /\ L \in Session /\ client \in Seq(All) /\ buffer \in Seq(All) /\ Recorded \in Seq(All) /\ Lost \in Seq(All)
        /\ Len(s2c) \in Nat /\ Typed
    BY ServedFacts
  <1>3. s2c' = s2c
    BY <1>1, SameArchive
  <1>4. Serves'
    <2>1. pos' \in 0..Len(s2c)
      BY <1>1, <1>2
    <2> QED
      BY <1>1, <1>3, <2>1 DEF Serves
  <1>5. CASE Greets
    <2>1. grammar.at \in {"version", "reply"} /\ Knows(L, grammar) /\ ToWrite = Rest(L, grammar.at, "s2c")
      BY <1>5 DEF Greets
    <2>2. grammar.at = "version" /\ grammar.at # "done"
      BY <1>1, <2>1 DEF Tap
    <2>3. \A k \in DOMAIN client : Rank[grammar.at] < Rank[client[k].f]
      BY <1>2, <1>5, <2>2, GreetsLater
    <2> QED
      BY <1>1, <2>1, <2>2, <2>3, WritesRest
  <1>6. CASE Talks
    <2>1. grammar.at # "done" /\ Knows(L, grammar) /\ ToWrite = Rest(L, grammar.at, "s2c") /\ ToRead = Rest(L, grammar.at, "c2s")
      BY <1>6 DEF Talks
    <2>2. grammar.at \in Points \ {"done"} /\ Tap(grammar.at) = "s2c"
      BY <1>1, <2>1 DEF Knows
    <2>3. \A k \in DOMAIN client : Rank[grammar.at] < Rank[client[k].f]
      BY <1>2, <2>1, <2>2, ReadsLater
    <2> QED
      BY <1>1, <2>1, <2>2, <2>3, WritesRest
  <1>7. CASE Asks
    BY <1>1, <1>7 DEF Asks
  <1>8. CASE Denied
    <2>1. ToWrite = Rest(L, "done", "s2c") /\ Refused(L) /\ ToRead = <<>>
      BY <1>8 DEF Denied
    <2>2. \A k \in 1..Len(Recorded) : Recorded[k].f = "reason"
      BY <1>2, <2>1, LastField DEF ToWrite
    <2>3. client = <<>>
      <3>1. Len(buffer \o client) = Len(buffer) + Len(client) /\ Len(buffer) \in Nat /\ Len(client) \in Nat
        BY <1>2, ConcatProperties, LenProperties
      <3>2. Len(buffer \o client) = 0
        BY <2>1, AllOf DEF ToRead
      <3>3. Len(client) = 0
        BY <3>1, <3>2
      <3> QED
        BY <1>2, <3>3, EmptySeq
    <2>4. "reason" # "screen"
      OBVIOUS
    <2> HIDE DEF Denied
    <2>5. IF "reason" = "screen" THEN Asked ELSE client = <<>>
      BY <2>3, <2>4
    <2>6. Behind'
      BY <1>1, <2>2, <2>5, RestOut
    <2> QED
      BY <1>1, <1>4, <2>6
  <1>9. CASE Greeted
    <2>1. pos' = pos
      BY <1>1, <1>9 DEF Greeted
    <2>2. Behind'
      BY <1>1, <2>1, BehindSame
    <2> QED
      BY <1>1, <1>4, <2>2
  <1> QED
    BY <1>5, <1>6, <1>7, <1>8, <1>9

-----------------------------------------------------------------------------
(* Every step of the server *)

\* Steps that take no byte and write none.
LEMMA Unmoved ==
  ASSUME Serves, Behind, UNCHANGED <<capture, script, client, buffer, pos, grammar, checked>>, exhausted' => ~ busy'
  PROVE  /\ Serves' /\ Behind' /\ (Asks => Asks')
         /\ awaiting' = awaiting /\ (Greets \/ Talks \/ Asks \/ Denied \/ Greeted) =>
               Greets' \/ Talks' \/ Asks' \/ Denied' \/ Greeted'
  <1>1. /\ UNCHANGED capture /\ script' = script /\ client' = client /\ buffer' = buffer /\ pos' = pos
        /\ grammar' = grammar /\ checked' = checked
    OBVIOUS
  <1>2. L' = L /\ Lost' = Lost /\ s2c' = s2c
    BY <1>1, SameArchive
  <1>3. ToWrite' = ToWrite /\ ToRead' = ToRead
    BY <1>1, <1>2 DEF ToWrite, ToRead, Recorded
  <1>4. Serves'
    BY <1>1, <1>2 DEF Serves
  <1>5. Behind'
    BY <1>1, BehindSame
  <1>6. Asks => Asks'
    BY <1>1, <1>2, <1>3 DEF Asks
  <1>7. awaiting' = awaiting /\ Talks => Talks'
    BY <1>1, <1>2, <1>3 DEF Talks
  <1>8. awaiting' = awaiting /\ Denied => Denied'
    BY <1>1, <1>2, <1>3 DEF Denied
  <1>9. awaiting' = awaiting /\ Greeted => Greeted'
    BY <1>1, <1>2 DEF Greeted
  <1>10. ASSUME awaiting' = awaiting, Greets PROVE Greets'
    <2>1. PICK reply \in Replies \ {0} : ToRead = Speech(reply, script)
      BY <1>10 DEF Greets
    <2>2. Speech(reply, script)' = Speech(reply, script)
      BY <1>1, SameSpeech
    <2>3. \E r \in Replies \ {0} : ToRead' = Speech(r, script)'
      BY <1>3, <2>1, <2>2
    <2> QED
      BY <1>1, <1>2, <1>3, <1>10, <2>3 DEF Greets
  <1> QED
    BY <1>4, <1>5, <1>6, <1>7, <1>8, <1>9, <1>10

\* Bytes of the client arrive: it has less to say, and the server as much to read.
LEMMA Receives ==
  ASSUME IInv, phase = "archived", Serves, Behind, exhausted \/ Greets \/ Talks \/ Asks \/ Denied \/ Greeted,
         NEW n \in Answers, Receive(n)
  PROVE  Serves' /\ Behind' /\ (exhausted' \/ Greets' \/ Talks' \/ Asks' \/ Denied' \/ Greeted')
  <1>1. /\ ~ busy /\ client' = SubSeq(client, n + 1, Len(client))
        /\ UNCHANGED capture /\ script' = script /\ pos' = pos /\ grammar' = grammar /\ checked' = checked
        /\ awaiting' = awaiting /\ exhausted' = exhausted
        /\ IF exhausted THEN buffer' = buffer /\ busy' = busy ELSE buffer' = buffer \o SubSeq(client, 1, n)
    BY DEF Receive
  <1>2. n \in DOMAIN client /\ client \in Seq(All) /\ buffer \in Seq(All)
    BY DEF Answers, Cuts, Serves
  <1>3. L' = L /\ Lost' = Lost /\ s2c' = s2c
    BY <1>1, SameArchive
  <1>4. PICK c \in Seq(All), b \in Seq(All), m \in Nat : c = client /\ b = buffer /\ m = n
    BY <1>2, InTwo
  <1>5. /\ SubSeq(c, 1, m) \in Seq(All) /\ SubSeq(c, m + 1, Len(c)) \in Seq(All)
        /\ (b \o SubSeq(c, 1, m)) \o SubSeq(c, m + 1, Len(c)) = b \o c
        /\ b \o SubSeq(c, 1, m) \in Seq(All)
    <2>1. m \in DOMAIN c
      BY <1>2, <1>4
    <2>2. PICK x \in Seq(All), y \in Seq(All) :
             x = SubSeq(c, 1, m) /\ y = SubSeq(c, m + 1, Len(c)) /\ x \o y = c
      <3>1. SubSeq(c, 1, m) \in Seq(All) /\ SubSeq(c, m + 1, Len(c)) \in Seq(All)
        BY <2>1, InTwo
      <3>2. SubSeq(c, 1, m) \o SubSeq(c, m + 1, Len(c)) = c
        BY <2>1, InTwo
      <3> QED
        BY <3>1, <3>2
    <2>3. (b \o x) \o y = b \o (x \o y) /\ b \o x \in Seq(All)
      BY RegroupedBytes
    <2> QED
      BY <2>2, <2>3
  <1>6. client' \in Seq(All) /\ buffer' \in Seq(All) /\ (~ exhausted => ToRead' = ToRead)
    BY <1>1, <1>2, <1>4, <1>5 DEF ToRead
  <1>7. ToWrite' = ToWrite
    BY <1>1, <1>3 DEF ToWrite, Recorded
  <1>8. Serves'
    BY <1>1, <1>3, <1>6 DEF Serves
  <1>9. /\ Len(client') <= Len(client) /\ Len(client') \in Nat /\ Len(client) \in Nat
        /\ \A k \in DOMAIN client' : \E i \in DOMAIN client : client'[k] = client[i]
    <2>1. Len(c) \in Nat /\ DOMAIN c = 1..Len(c) /\ m \in 1..Len(c) /\ m <= Len(c)
      BY <1>2, <1>4, LenProperties
    <2>2. /\ SubSeq(c, m + 1, Len(c)) \in Seq(All) /\ Len(SubSeq(c, m + 1, Len(c))) = Len(c) - m
          /\ \A k \in 1..Len(c) - m : SubSeq(c, m + 1, Len(c))[k] = c[m + k]
      BY <2>1, Remainder
    <2>3. PICK x \in Seq(All) : x = SubSeq(c, m + 1, Len(c))
      BY <2>2
    <2>4. DOMAIN x = 1..Len(c) - m /\ Len(x) <= Len(c) /\ Len(x) \in Nat
      BY <2>1, <2>2, <2>3, LenProperties
    <2>5. \A k \in DOMAIN x : m + k \in DOMAIN c /\ x[k] = c[m + k]
      <3>1. SUFFICES ASSUME NEW k \in DOMAIN x PROVE m + k \in DOMAIN c /\ x[k] = c[m + k]
        OBVIOUS
      <3>2. k \in 1..Len(c) - m
        BY <2>4
      <3>3. x[k] = c[m + k]
        BY <3>2, <2>2, <2>3
      <3>4. m + k \in DOMAIN c
        BY <3>2, <2>1
      <3> QED
        BY <3>3, <3>4
    <2>6. \A k \in DOMAIN x : \E i \in DOMAIN c : x[k] = c[i]
      BY <2>5
    <2> QED
      BY <1>1, <1>4, <2>1, <2>3, <2>4, <2>6
  <1>10. Asked => Asked'
    <2> SUFFICES ASSUME Asked PROVE Asked'
      OBVIOUS
    <2>1. PICK j \in DOMAIN script :
             /\ script[j] \in Unknown \cup {"request"}
             /\ Offset(script, j) + (IF script[j] = "request" THEN Size[script[j]] ELSE Header[script[j]])
                  <= Len(Messages(script)) - Len(client)
      BY DEF Asked
    <2>2. script \in Scripted
      BY DEF Serves, Scripted
    <2>3. Offset(script, j) \in Nat /\ Len(Messages(script)) \in Nat /\ Size[script[j]] \in Nat /\ script[j] \in Kinds
      BY <2>2, OffsetNext, OffsetEnds
    <2>4. Header[script[j]] \in Nat
      BY <2>3 DEF Header, Kinds, Size
    <2>5. PICK need \in Nat : need = IF script[j] = "request" THEN Size[script[j]] ELSE Header[script[j]]
      BY <2>3, <2>4
    <2>6. Offset(script, j) + need <= Len(Messages(script)) - Len(client')
      BY <1>9, <2>1, <2>3, <2>5
    <2> QED
      BY <1>1, <2>1, <2>5, <2>6 DEF Asked
  <1>11. Behind'
    <2>1. ASSUME NEW i \in 1..pos
          PROVE  IF s2c[i].f = "screen" THEN Asked' ELSE \A k \in DOMAIN client' : Rank[s2c[i].f] < Rank[client'[k].f]
      BY <1>9, <1>10 DEF Behind
    <2> QED
      BY <1>1, <1>3, <2>1 DEF Behind
  <1>12. CASE exhausted
    BY <1>1, <1>8, <1>11, <1>12
  <1>13. CASE ~ exhausted
    <2>1. ToRead' = ToRead
      BY <1>6, <1>13
    <2>2. Talks => Talks'
      BY <1>1, <1>3, <1>7, <2>1 DEF Talks
    <2>3. Asks => Asks'
      BY <1>1, <1>3, <1>7, <2>1 DEF Asks
    <2>4. Denied => Denied'
      BY <1>1, <1>3, <1>7, <2>1 DEF Denied
    <2>5. Greeted => Greeted'
      BY <1>1, <1>3 DEF Greeted
    <2>6. ASSUME Greets PROVE Greets'
      <3>1. PICK reply \in Replies \ {0} : ToRead = Speech(reply, script)
        BY <2>6 DEF Greets
      <3>2. Speech(reply, script)' = Speech(reply, script)
        BY <1>1, SameSpeech
      <3>3. \E r \in Replies \ {0} : ToRead' = Speech(r, script)'
        BY <2>1, <3>1, <3>2
      <3> QED
        BY <1>1, <1>3, <1>7, <2>6, <3>3 DEF Greets
    <2> QED
      BY <1>8, <1>11, <1>13, <2>2, <2>3, <2>4, <2>5, <2>6
  <1> QED
    BY <1>12, <1>13

\* A new grammar knows nothing yet.
LEMMA AtFirst == \A p : Knows(p, Scrubber(FALSE))
  <1> DEFINE g == Scrubber(FALSE)
  <1>1. g.at = "version" /\ g.sized = FALSE /\ g.abort = FALSE /\ g.at \in Points
    BY DEF Scrubber, Points
  <1> HIDE DEF g
  <1>2. ASSUME NEW p PROVE Knows(p, g)
    <2>1. g.at # "done"
      BY <1>1
    <2>2. g.abort = (g.at = "done" /\ Strange(p) /\ ~ g.preserve)
      BY <1>1, <2>1
    <2> QED
      BY <1>1, <2>2 DEF Knows, DH
  <1> QED
    BY <1>2 DEF g

\* A client that connects is served from the beginning.
LEMMA Connects ==
  ASSUME IInv, NEW reply \in Replies \ {0}, NEW messages \in Scripts, Connect(reply, messages)
  PROVE  phase' = "archived" /\ Serves' /\ Behind' /\ Greets'
  <1>1. /\ phase = "archived" /\ script' = messages /\ client' = Speech(reply, messages)
        /\ buffer' = <<>> /\ pos' = 0 /\ grammar' = Scrubber(FALSE)
        /\ checked' = FALSE /\ awaiting' = FALSE /\ exhausted' = FALSE
        /\ UNCHANGED capture
    BY DEF Connect
  <1>2. phase' = phase /\ session' = session /\ scrubber' = scrubber /\ recorded' = recorded /\ shown' = shown
    BY <1>1 DEF capture
  <1>3. Typed /\ reply \in Nat /\ s2c \in Seq(All) /\ Lost \in Seq(All) /\ s2c \o Lost = shown["s2c"]
    BY <1>1, ArchiveWhole, ReplyAssumption DEF IInv
  <1>4. Live(messages)' = Live(messages) /\ L' = Live(messages) /\ s2c' = s2c
    BY <1>1, <1>2 DEF Live, L, s2c
  <1>5. Lost' = Lost
    BY <1>2, <1>4 DEF Lost
  <1>6. Live(messages) \in Session /\ shown["s2c"] = Rest(Live(messages), "version", "s2c")
    BY <1>3, LiveFacts
  <1>7. Speech(reply, messages) \in Seq(All)
    BY <1>3, SpeechFacts
  <1>8. Speech(reply, script)' = Speech(reply, messages)
    <2>1. Live(script)' = Live(messages)
      BY <1>1, <1>2 DEF Live
    <2> QED
      BY <2>1 DEF Speech
  <1>9. ToRead' = Speech(reply, messages)
    BY <1>1, <1>7, AllOf DEF ToRead
  <1>10. ToWrite' = Rest(Live(messages), "version", "s2c")
    <2>1. Recorded' = SubSeq(s2c, 0 + 1, Len(s2c))
      BY <1>1, <1>4 DEF Recorded
    <2>2. 0 + 1 = 1
      OBVIOUS
    <2>3. Recorded' = s2c
      BY <1>3, <2>1, <2>2, AllOf
    <2> QED
      BY <1>3, <1>5, <1>6, <2>3 DEF ToWrite
  <1>11. /\ grammar' \in Grammar /\ ~ grammar'.preserve /\ grammar'.at = "version"
        /\ grammar'.sized = FALSE /\ grammar'.abort = FALSE
    BY <1>1 DEF Scrubber, Grammar, Points, INVALID
  <1>12. Knows(Live(messages), grammar')
    BY <1>1, AtFirst
  <1>13. Serves'
    <2>1. <<>> \in Seq(All)
      BY AllOf
    <2>2. 0 \in 0..Len(s2c)
      BY <1>3, LenProperties
    <2> QED
      BY <1>1, <1>4, <1>7, <1>11, <2>1, <2>2 DEF Serves
  <1>14. Behind'
    BY <1>1 DEF Behind
  <1>15. Greets'
    <2>1. \E r \in Replies \ {0} : ToRead' = Speech(r, script)'
      BY <1>8, <1>9
    <2> QED
      BY <1>1, <1>4, <1>10, <1>11, <1>12, <2>1 DEF Greets
  <1> QED
    BY <1>1, <1>2, <1>13, <1>14, <1>15

\* No step of the capture is left once there is an archive.
LEMMA CaptureOver ==
  ASSUME IInv, phase = "archived"
  PROVE  ~ RecordNext
  <1>1. feeding = "none"
    BY DEF IInv, Typed
  <1>2. \A d \in Directions : ~ Take(d) /\ ~ FeedEnds(d)
    BY <1>1, Sides DEF Take, Watches, FeedEnds
  <1>3. \A d : \A n : ~ Deliver(d, n)
    BY DEF Deliver
  <1>4. ~ ConnectionLost
    BY DEF ConnectionLost
  <1> QED
    BY <1>2, <1>3, <1>4 DEF RecordNext

\* advance preserves the invariant.
LEMMA Advances ==
  ASSUME IInv, ArchiveInv, phase = "archived", Paceable, Serves, Behind,
         exhausted \/ Greets \/ Talks \/ Asks \/ Denied \/ Greeted, Advance, conn' = "up"
  PROVE  Serves' /\ Behind' /\ (exhausted' \/ Greets' \/ Talks' \/ Asks' \/ Denied' \/ Greeted')
  <1>1. busy
    BY DEF Advance, WriteChunk, ReadChunk, Expect, SkipMessage, SeeRequest, AwaitRequest, ServeRest, Serving
  <1>2. Greets \/ Talks \/ Asks \/ Denied \/ Greeted
    BY <1>1 DEF Serves
  <1>3. Gated => Asks
    BY <1>2 DEF Gated, Greets, Talks, Denied, Greeted
  <1>4. Asks \/ Denied => ~ WriteChunk /\ ~ ReadChunk
    BY DEF WriteChunk, ReadChunk, Waiting, Asks, Denied
  <1>5. Greeted => ~ WriteChunk /\ ~ ReadChunk
    <2> SUFFICES ASSUME Greeted PROVE ~ WriteChunk /\ ~ ReadChunk
      OBVIOUS
    <2>1. Tap(grammar.at) = "s2c" /\ pos = Len(s2c)
      BY DEF Greeted, Tap
    <2>2. Len(Recorded) = 0
      <3>1. PICK m \in Nat : m = Len(s2c) /\ Len(Recorded) = m - pos
        BY ServedFacts
      <3> QED
        BY <2>1, <3>1
    <2>3. ~ HasChunk(grammar, Recorded)
      <3>1. Nbytes(grammar) \in {1, 4}
        BY DEF Greeted, Nbytes
      <3> QED
        BY <2>2, <3>1 DEF HasChunk
    <2> QED
      BY <2>1, <2>3 DEF WriteChunk, ReadChunk, Waiting
  <1>6. CASE WriteChunk
    <2>1. CASE Greets
      BY <1>6, <2>1, GreetsWrite
    <2>2. CASE Talks
      BY <1>6, <2>2, TalksWrite
    <2> QED
      BY <1>2, <1>4, <1>5, <1>6, <2>1, <2>2
  <1>7. CASE ReadChunk
    <2>1. CASE Greets
      BY <1>7, <2>1, GreetsRead
    <2>2. CASE Talks
      BY <1>7, <2>2, TalksRead
    <2> QED
      BY <1>2, <1>4, <1>5, <1>7, <2>1, <2>2
  <1>8. CASE Expect
    <2>1. UNCHANGED <<capture, script, client, buffer, pos, grammar, checked>> /\ ~ busy' /\ awaiting' = awaiting
      BY <1>8 DEF Expect
    <2> QED
      BY <1>2, <2>1, Unmoved
  <1>9. CASE SkipMessage
    <2>1. Asks
      BY <1>3, <1>9 DEF SkipMessage
    <2> QED
      BY <1>9, <2>1, Skips
  <1>10. CASE SeeRequest
    <2>1. Asks
      BY <1>3, <1>10 DEF SeeRequest
    <2> QED
      BY <1>10, <2>1, Sees
  <1>11. CASE AwaitRequest
    <2>1. Asks
      BY <1>3, <1>11 DEF AwaitRequest
    <2>2. UNCHANGED <<capture, script, client, buffer, pos, grammar, checked>> /\ ~ busy'
      BY <1>11 DEF AwaitRequest
    <2> QED
      BY <2>1, <2>2, Unmoved
  <1>12. CASE ServeRest
    BY <1>2, <1>12, RestServed
  <1> QED
    BY <1>6, <1>7, <1>8, <1>9, <1>10, <1>11, <1>12 DEF Advance

\* Every step preserves the invariant.
LEMMA ReplayKeeps ==
  ASSUME IInv, ArchiveInv, ReplayInv, [Next]_vars
  PROVE  ReplayInv'
  <1> SUFFICES ASSUME conn' = "up"
               PROVE  /\ phase' = "archived"
                      /\ Paceable' => Serves' /\ Behind' /\ (exhausted' \/ Greets' \/ Talks' \/ Asks' \/ Denied' \/ Greeted')
    BY DEF ReplayInv
  <1>1. CASE conn = "up"
    <2>1. phase = "archived" /\ ~ RecordNext
      BY <1>1, CaptureOver DEF ReplayInv
    <2>2. \A reply, messages : ~ Connect(reply, messages)
      BY <1>1 DEF Connect
    <2>3. ~ Disconnect
      BY DEF Disconnect, Finishes
    <2>4. Advance \/ (\E n \in Answers : Receive(n)) \/ UNCHANGED vars
      BY <2>1, <2>2, <2>3 DEF Next
    <2>5. UNCHANGED capture /\ script' = script
      <3>1. CASE Advance
        BY <3>1 DEF Advance, WriteChunk, ReadChunk, Expect, SkipMessage, SeeRequest, AwaitRequest, ServeRest, Exhaust
      <3>2. CASE \E n \in Answers : Receive(n)
        BY <3>2 DEF Receive
      <3>3. CASE UNCHANGED vars
        BY <3>3 DEF vars, replay
      <3> QED
        BY <2>4, <3>1, <3>2, <3>3
    <2>6. phase' = "archived" /\ (Paceable' <=> Paceable)
      BY <2>1, <2>5, SameArchive
    <2>7. ASSUME Paceable
          PROVE  Serves' /\ Behind' /\ (exhausted' \/ Greets' \/ Talks' \/ Asks' \/ Denied' \/ Greeted')
      <3>1. Serves /\ Behind /\ (exhausted \/ Greets \/ Talks \/ Asks \/ Denied \/ Greeted)
        BY <1>1, <2>7 DEF ReplayInv
      <3>2. CASE Advance
        BY <2>1, <2>7, <3>1, <3>2, Advances
      <3>3. CASE \E n \in Answers : Receive(n)
        BY <2>1, <3>1, <3>3, Receives
      <3>4. CASE UNCHANGED vars
        <4>1. UNCHANGED <<capture, script, client, buffer, pos, grammar, checked>> /\ awaiting' = awaiting
              /\ exhausted' = exhausted /\ busy' = busy
          BY <3>4 DEF vars, replay, progress
        <4>2. exhausted' => ~ busy'
          BY <3>1, <4>1 DEF Serves
        <4> QED
          BY <3>1, <4>1, <4>2, Unmoved
      <3> QED
        BY <2>4, <3>2, <3>3, <3>4
    <2> QED
      BY <2>6, <2>7
  <1>2. CASE conn # "up"
    <2>1. CASE RecordNext /\ UNCHANGED replay
      BY <1>2, <2>1 DEF replay
    <2>2. CASE \E reply \in Replies \ {0}, messages \in Scripts : Connect(reply, messages)
      BY <2>2, Connects
    <2>3. ~ Advance
      <3>1. Advance => conn' \in {conn, "closing"}
        BY DEF Advance, WriteChunk, ReadChunk, Expect, SkipMessage, SeeRequest, AwaitRequest, ServeRest, Exhaust
      <3> QED
        BY <1>2, <3>1
    <2>4. \A n : ~ Receive(n)
      BY <1>2 DEF Receive
    <2>5. ~ Disconnect
      BY DEF Disconnect, Finishes
    <2>6. ~ UNCHANGED vars
      BY <1>2 DEF vars, replay
    <2> QED
      BY <2>1, <2>2, <2>3, <2>4, <2>5, <2>6 DEF Next
  <1> QED
    BY <1>1, <1>2

\* What has been written comes before what the client has still to say.
LEMMA ReplayPaced == IInv /\ ReplayInv => Paced
  <1> SUFFICES ASSUME IInv, ReplayInv, conn = "up", Paceable, NEW i \in 1..pos
               PROVE  IF s2c[i].f = "screen" THEN Asked ELSE client # <<>> => Rank[s2c[i].f] < Rank[Head(client).f]
    BY DEF Paced
  <1>1. Serves /\ Behind
    BY DEF ReplayInv
  <1>2. CASE s2c[i].f = "screen"
    BY <1>1, <1>2 DEF Behind
  <1>3. CASE s2c[i].f # "screen"
    <2>1. \A k \in DOMAIN client : Rank[s2c[i].f] < Rank[client[k].f]
      BY <1>1, <1>3 DEF Behind
    <2>2. ASSUME client # <<>> PROVE 1 \in DOMAIN client /\ Head(client) = client[1]
      <3>1. client \in Seq(All) /\ Len(client) \in Nat /\ DOMAIN client = 1..Len(client)
        BY <1>1, LenProperties DEF Serves
      <3>2. Len(client) # 0
        BY <2>2, <3>1, EmptySeq
      <3> QED
        BY <2>2, <3>1, <3>2
    <2> QED
      BY <1>3, <2>1, <2>2
  <1> QED
    BY <1>2, <1>3

-----------------------------------------------------------------------------
(* The theorems *)

\* The invariant of the archive and of the server (replay.py:ReplayProtocol):
\* the grammar of the live session is at the field both the recording and the
\* client are at, and behind the handshake at the beginning of a message.
THEOREM ReplayInvariant == Spec => [](ArchiveInv /\ ReplayInv)
  <1>1. Init => ArchiveInv /\ ReplayInv
    <2> SUFFICES ASSUME Init PROVE ArchiveInv /\ ReplayInv
      OBVIOUS
    <2>1. phase = "record" /\ conn = "listening"
      BY DEF Init, RecordInit, ReplayInit
    <2>2. scrubber.at = "version" /\ scrubber.ver = 0
      BY DEF Init, RecordInit, Scrubber
    <2> QED
      BY <2>1, <2>2 DEF ArchiveInv, VersionKnown, ReplayInv
  <1>2. IInv /\ ArchiveInv /\ ReplayInv /\ [Next]_vars => ArchiveInv' /\ ReplayInv'
    BY ArchiveKeeps, ReplayKeeps
  <1> QED
    BY <1>1, <1>2, CaptureInvariant, PTL DEF Spec

\* A recording is paced by the client it is served to, for any archive and any
\* messages, and however the client's bytes are cut: no recorded byte goes out
\* before the answers it waits for, and none of the screen before it is asked
\* for (replay.py:advance, _serve_session).
THEOREM AlwaysPaced == Spec => []Paced
  BY CaptureInvariant, ReplayInvariant, ReplayPaced, PTL

-----------------------------------------------------------------------------
(* vnclog's observer of the client *)

\* The states of an observer.
Beyond     == {"protocol", "clientCutText", "qemuExtendedKeyEvent", "astray"}
Observers == [handler : Handshake \cup Beyond, need : Nat, buffer : Seq(All), required : BOOLEAN,
              handled : Seq(Kinds), raised : BOOLEAN, started : {"none"} \cup DOMAIN Rank]

\* What has been delivered and is being fed, and what is still to come.
Fed(d)    == IF feeding = d THEN heard ELSE <<>>
ToHear(d) == Fed(d) \o wire[d]

\* w is the end of s.
EndOf(w, s) == Len(w) <= Len(s) /\ \A i \in 1..Len(w) : w[i] = s[(Len(s) - Len(w)) + i]

\* Bytes of messages.
Spoken(s) == s \in Seq(All) /\ \A i \in DOMAIN s : s[i].f = "input" /\ s[i].v[1] \in Kinds

\* What the observer holds back and has still to be given.
Holds(o, w, s) == o.buffer \o w = s

\* The observer waits for the field the client's side of the session is at; w is
\* what it has not been given yet.
Greeting(o, p, w) == o.handler = "version" /\ o.need = 12 /\ Holds(o, w, Rest(p, "reply", "c2s"))
Choosing(o, p, w) == o.handler = "security" /\ o.need = 1 /\ p.reply >= 3007 /\ Holds(o, w, Rest(p, "choice", "c2s"))
Proving(o, p, w)  == /\ o.handler = "VNCAuthResponse" /\ o.need = 16 /\ p.sec = VNC_AUTHENTICATION
                     /\ Holds(o, w, Rest(p, "response", "c2s"))
Opens(o, p, w)    == o.handler = "clientInit" /\ o.need = 1 /\ Holds(o, w, Verdict(p, "c2s"))

\* After the handshake it is given messages,
Expects(h, k) ==
    /\ h \in Beyond /\ (h = "protocol" => k > 0)
    /\ h = "clientCutText" => k = 3
    /\ h = "qemuExtendedKeyEvent" => k = 10
Listens(o, p, w) ==
    /\ Expects(o.handler, o.need) /\ ~ Refused(p)
    /\ Spoken(o.buffer) /\ Spoken(w) /\ Len(w) <= Len(Messages(p.inputs))

\* and if it can tell where they end it is at the beginning of one, or of the
\* text of one.
AtOne(o, p, w) ==
    \E j \in 1..Len(p.inputs) + 1 :
        LET M == Messages(p.inputs)
        IN  /\ o.handled = SubSeq(p.inputs, 1, j - 1) /\ ~ o.raised
            /\ \/ o.handler = "protocol" /\ Holds(o, w, SubSeq(M, Offset(p.inputs, j) + 1, Len(M)))
               \/ /\ o.handler = "clientCutText" /\ j <= Len(p.inputs) /\ p.inputs[j] = "text"
                  /\ Holds(o, w, SubSeq(M, (Offset(p.inputs, j) + 8) + 1, Len(M)))

Framable(p) == Range(p.inputs) \subseteq Framed

Hears(o, p, w) ==
    \/ (Greeting(o, p, w) \/ Choosing(o, p, w) \/ Proving(o, p, w) \/ Opens(o, p, w)) /\ o.handled = <<>> /\ ~ o.raised
    \/ Listens(o, p, w) /\ (Framable(p) => AtOne(o, p, w))

\* dataReceived has left its loop.
Rests(o) == o.handler = "astray" \/ o.raised \/ Len(o.buffer) < o.need

\* A field is sent after those it answers: ServerInit after the client's
\* ClientInit, which is sent when all of the server's before it has been heard.
Spoke(p, c)          == Len(c) <= Len(Messages(p.inputs))
LockStep(p, c, v, s) == ~ Refused(p) => IF Spoke(p, c) THEN Len(s) <= 28 ELSE Len(v) >= 28

\* The decoder has been given the first of what is opened.
Started(p, o, s) == o.started = IF ~ Refused(p) /\ Len(s) < 28 THEN "serverinit" ELSE "none"
-----------------------------------------------------------------------------
(* The turns of dataReceived *)

\* A set of numbers has a least one; so what holds of 0 and of the successor of
\* each number it holds of holds of all.
LEMMA LeastNumber ==
  ASSUME NEW T, T \subseteq Nat, T # {}
  PROVE  \E m \in T : \A k \in T : m <= k
  <1> DEFINE R == OpToRel(<, Nat)
  <1>1. IsWellFoundedOn(R, Nat)
    BY NatLessThanWellFounded
  <1>2. \A x \in Nat, y \in Nat : y < x => <<y, x>> \in R
    BY DEF OpToRel
  <1> HIDE DEF R
  <1>3. PICK x \in T : \A y \in T : ~ (<<y, x>> \in R)
    BY <1>1, WFMin
  <1>4. \A y \in T : ~ (y < x)
    BY <1>2, <1>3
  <1> QED
    BY <1>4

\* Natural numbers are counted through.
LEMMA Induction ==
  ASSUME NEW S, 0 \in S, \A n \in Nat : n \in S => n + 1 \in S
  PROVE  Nat \subseteq S
  <1> DEFINE T == {n \in Nat : n \notin S}
  <1> SUFFICES ASSUME T # {} PROVE FALSE
    OBVIOUS
  <1>1. PICK m \in T : \A k \in T : m <= k
    BY LeastNumber
  <1>2. m # 0 /\ m - 1 \in Nat /\ m - 1 \notin T
    BY <1>1
  <1> QED
    BY <1>2

\* The turns of an observer, as Heard counts them.
TurnsOf(o, m, g) == g = [n \in 0..m |-> IF n = 0 THEN o ELSE Turn(g[n - 1])]

\* There are such turns.
LEMMA TurnsExist ==
  ASSUME NEW o
  PROVE  \A m \in Nat : \E g : TurnsOf(o, m, g)
  <1> DEFINE S == {m \in Nat : \E g : TurnsOf(o, m, g)}
  <1>1. 0 \in S
    <2> DEFINE g == [n \in 0..0 |-> o]
    <2>1. g = [n \in 0..0 |-> IF n = 0 THEN o ELSE Turn(g[n - 1])]
      OBVIOUS
    <2> QED
      BY <2>1 DEF TurnsOf
  <1>2. \A m \in Nat : m \in S => m + 1 \in S
    <2> SUFFICES ASSUME NEW m \in Nat, m \in S PROVE m + 1 \in S
      OBVIOUS
    <2>1. PICK g : g = [n \in 0..m |-> IF n = 0 THEN o ELSE Turn(g[n - 1])]
      BY DEF TurnsOf
    <2> DEFINE h == [n \in 0..m + 1 |-> IF n = m + 1 THEN Turn(g[m]) ELSE g[n]]
               e == [n \in 0..m + 1 |-> IF n = 0 THEN o ELSE Turn(h[n - 1])]
    <2>2. \A n \in 0..m : g[n] = IF n = 0 THEN o ELSE Turn(g[n - 1])
      BY <2>1, Zenon
    <2>3. \A n \in 0..m + 1 : h[n] = IF n = 0 THEN o ELSE Turn(h[n - 1])
      <3> TAKE n \in 0..m + 1
      <3>1. CASE n = m + 1
        <4>1. n # 0 /\ n - 1 \in 0..m + 1 /\ n - 1 # m + 1 /\ n - 1 = m
          BY <3>1
        <4> QED
          BY <3>1, <4>1
      <3>2. CASE n # m + 1
        <4>1. n \in 0..m
          BY <3>2
        <4>2. n # 0 => n - 1 \in 0..m + 1 /\ n - 1 # m + 1
          BY <3>2
        <4> QED
          BY <2>2, <3>2, <4>1, <4>2
      <3> QED
        BY <3>1, <3>2
    <2>4. h = e
      <3>1. \A n \in 0..m + 1 : h[n] = e[n]
        <4> HIDE DEF h
        <4> QED
          BY <2>3
      <3> QED
        BY <3>1
    <2> HIDE DEF h
    <2> QED
      BY <2>4 DEF TurnsOf
  <1> HIDE DEF S
  <1>3. Nat \subseteq S
    BY <1>1, <1>2, Induction
  <1> QED
    BY <1>3 DEF S

\* What Heard computes is what the turns of dataReceived lead to.
LEMMA HeardTurns ==
  ASSUME NEW o, Len(o.buffer) \in Nat
  PROVE  \E g : TurnsOf(o, Len(o.buffer), g) /\ Heard(o) = g[Len(o.buffer)]
  <1> DEFINE m == Len(o.buffer)
             f == CHOOSE g : g = [n \in 0..m |-> IF n = 0 THEN o ELSE Turn(g[n - 1])]
  <1>1. \E g : g = [n \in 0..m |-> IF n = 0 THEN o ELSE Turn(g[n - 1])]
    BY TurnsExist DEF TurnsOf
  <1>2. f = [n \in 0..m |-> IF n = 0 THEN o ELSE Turn(f[n - 1])]
    BY <1>1
  <1>3. Heard(o) = f[m]
    BY DEF Heard
  <1> QED
    BY <1>2, <1>3 DEF TurnsOf

-----------------------------------------------------------------------------
(* One turn *)

\* The kinds of messages and their lengths.
LEMMA Lengths ==
  /\ Kinds = {"pixelformat", "encodings", "request", "key", "pointer", "text", "fence", "qemu", "odd"}
  /\ Size["pixelformat"] = 20 /\ Size["encodings"] = 12 /\ Size["request"] = 10 /\ Size["key"] = 8 /\ Size["pointer"] = 6
  /\ Size["text"] = 11 /\ Size["fence"] = 12 /\ Size["qemu"] = 12 /\ Size["odd"] = 2
  /\ TYPE_LEN["pixelformat"] = 20 /\ TYPE_LEN["encodings"] = 4 /\ TYPE_LEN["request"] = 10 /\ TYPE_LEN["key"] = 8
  /\ TYPE_LEN["pointer"] = 6 /\ TYPE_LEN["text"] = 8 /\ TYPE_LEN["fence"] = 9 /\ TYPE_LEN["qemu"] = 2 /\ TYPE_LEN["odd"] = 0
  <1>1. Kinds = {"pixelformat", "encodings", "request", "key", "pointer", "text", "fence", "qemu", "odd"}
    BY DEF Kinds, Size
  <1>2. /\ Size["pixelformat"] = 20 /\ Size["encodings"] = 12 /\ Size["request"] = 10 /\ Size["key"] = 8 /\ Size["pointer"] = 6
        /\ Size["text"] = 11 /\ Size["fence"] = 12 /\ Size["qemu"] = 12 /\ Size["odd"] = 2
    BY DEF Size
  <1>3. /\ TYPE_LEN["pixelformat"] = 20 /\ TYPE_LEN["encodings"] = 4 /\ TYPE_LEN["request"] = 10 /\ TYPE_LEN["key"] = 8
        /\ TYPE_LEN["pointer"] = 6 /\ TYPE_LEN["text"] = 8 /\ TYPE_LEN["fence"] = 9 /\ TYPE_LEN["qemu"] = 2 /\ TYPE_LEN["odd"] = 0
    BY DEF TYPE_LEN, Size
  <1> QED
    BY <1>1, <1>2, <1>3

\* An observer that takes bytes and waits for more.
Onward(o, n, h, k) == [Wait(Took(o, n), h, k) EXCEPT !.raised = FALSE]
GoesOn(o, n, h, k, r) ==
    /\ r \in Observers /\ r.handler = h /\ r.need = k /\ r.required = o.required /\ r.handled = o.handled
    /\ r.started = o.started /\ ~ r.raised /\ r.buffer = SubSeq(o.buffer, n + 1, Len(o.buffer))
    /\ Len(o.buffer) \in Nat /\ (n > 0 /\ Len(o.buffer) > 0 => Len(r.buffer) < Len(o.buffer))
    /\ (Len(o.buffer) >= n => Len(r.buffer) = Len(o.buffer) - n)

\* Taking n bytes off the buffer and waiting for k more is one turn.
LEMMA Taking ==
  ASSUME NEW o \in Observers, NEW n \in Nat, NEW h \in Handshake \cup Beyond, NEW k \in Nat,
         NEW r, r = Onward(o, n, h, k)
  PROVE  GoesOn(o, n, h, k, r)
  <1>1. o.buffer \in Seq(All) /\ Len(o.buffer) \in Nat
    BY LenProperties DEF Observers
  <1>2. PICK s \in Seq(All) : s = o.buffer
    BY <1>1
  <1>3. SubSeq(s, n + 1, Len(s)) \in Seq(All) /\ Len(SubSeq(s, n + 1, Len(s))) = IF n + 1 <= Len(s) THEN Len(s) - n ELSE 0
    BY <1>1, <1>2, SubSeqProperties
  <1>4. PICK t \in Seq(All) : t = SubSeq(o.buffer, n + 1, Len(o.buffer))
    BY <1>2, <1>3
  <1>5. r = [o EXCEPT !.buffer = t, !.handler = h, !.need = k, !.raised = FALSE]
    BY <1>4 DEF Onward, Wait, Took, Left, Observers
  <1>6. /\ r \in Observers /\ r.handler = h /\ r.need = k /\ r.required = o.required /\ r.handled = o.handled
        /\ r.started = o.started /\ ~ r.raised /\ r.buffer = t
    BY <1>5 DEF Observers
  <1> QED
    BY <1>1, <1>2, <1>3, <1>4, <1>6 DEF GoesOn

\* The sessions Followed.
Readable(p) == p.reply \in {3003, 3005, 3007, 3008} /\ p.sec \in {NONE, VNC_AUTHENTICATION}
Told(o, p)  == p.reply < 3007 => (o.required <=> p.sec = VNC_AUTHENTICATION)

\* What a session must be like for vnclog to follow it.
LEMMA FollowedSession == session \in Session /\ Followed => Readable(session) /\ Told(observer, session)
  <1> SUFFICES ASSUME session \in Session, Followed PROVE Readable(session) /\ Told(observer, session)
    OBVIOUS
  <1>1. Readable(session)
    BY DEF Followed, Readable
  <1>2. session.reply # 0
    BY <1>1 DEF Readable
  <1>3. Version(session) = session.reply
    BY <1>2 DEF Version
  <1> QED
    BY <1>1, <1>3 DEF Followed, Told

\* What the client says after each of its fields in such a session.
LEMMA ClientSays ==
  ASSUME NEW p \in Session, Readable(p)
  PROVE  /\ Later(p, "reply", "c2s") = IF p.reply >= 3007 THEN Rest(p, "choice", "c2s")
                                       ELSE IF p.sec = VNC_AUTHENTICATION THEN Rest(p, "response", "c2s")
                                       ELSE Verdict(p, "c2s")
         /\ Later(p, "choice", "c2s") = IF p.sec = VNC_AUTHENTICATION THEN Rest(p, "response", "c2s") ELSE Verdict(p, "c2s")
         /\ Later(p, "response", "c2s") = Verdict(p, "c2s")
         /\ Verdict(p, "c2s") = IF Refused(p) THEN <<>> ELSE Rest(p, "init", "c2s")
         /\ Later(p, "init", "c2s") = Messages(p.inputs)
  <1>1. p.sec # INVALID /\ p.sec \in {NONE, VNC_AUTHENTICATION} /\ NONE # VNC_AUTHENTICATION /\ Version(p) = p.reply
        /\ NONE # DIFFIE_HELLMAN /\ VNC_AUTHENTICATION # DIFFIE_HELLMAN /\ p.reply \in Nat
    BY DEF Readable, INVALID, NONE, VNC_AUTHENTICATION, DIFFIE_HELLMAN, Version
  <1>2. \A at \in {"auth", "count", "types", "challenge", "result", "serverinit", "name"} :
            Rest(p, at, "c2s") = Later(p, at, "c2s") /\ Later(p, at, "c2s") \in Seq(All)
    <2> TAKE at \in {"auth", "count", "types", "challenge", "result", "serverinit", "name"}
    <2>1. at \in Points \ {"done"}
      BY DEF Points, Exchange
    <2>2. Other(Tap(at)) = "c2s"
      BY DEF Other, Tap
    <2> QED
      BY <2>1, <2>2, FieldFirst
  <1>3. Later(p, "response", "c2s") = Verdict(p, "c2s")
    BY DEF Later
  <1>4. Proof(p, "c2s") = IF p.sec = VNC_AUTHENTICATION THEN Rest(p, "response", "c2s") ELSE Verdict(p, "c2s")
    <2>1. CASE p.sec = VNC_AUTHENTICATION
      <3>1. Proof(p, "c2s") = Says("c2s", "challenge", 16, 0) \o (Says("c2s", "response", 16, 0) \o Verdict(p, "c2s"))
        BY <1>1, <2>1 DEF Proof
      <3>2. Later(p, "challenge", "c2s") = Says("c2s", "response", 16, 0) \o Verdict(p, "c2s")
        BY DEF Later
      <3>3. Rest(p, "challenge", "c2s") = Says("c2s", "challenge", 16, 0) \o Later(p, "challenge", "c2s")
        <4>1. Size0(p, "challenge") = 16 /\ Value(p, "challenge") = 0
          BY DEF Size0, Value
        <4> QED
          BY <4>1 DEF Rest
      <3>4. Rest(p, "response", "c2s") = Says("c2s", "response", 16, 0) \o Later(p, "response", "c2s")
        <4>1. Size0(p, "response") = 16 /\ Value(p, "response") = 0
          BY DEF Size0, Value
        <4> QED
          BY <4>1 DEF Rest
      <3> QED
        BY <1>2, <1>3, <2>1, <3>1, <3>2, <3>3, <3>4
    <2>2. CASE p.sec # VNC_AUTHENTICATION
      BY <1>1, <2>2 DEF Proof
    <2> QED
      BY <2>1, <2>2
  <1>5. Later(p, "choice", "c2s") = Proof(p, "c2s")
    BY DEF Later
  <1>6. Later(p, "reply", "c2s") = Offer(p, "c2s")
    BY DEF Later
  <1>7. ASSUME p.reply < 3007 PROVE Later(p, "reply", "c2s") = Proof(p, "c2s") /\ ~ (p.reply >= 3007)
    <2>1. Offer(p, "c2s") = Rest(p, "auth", "c2s")
      BY <1>1, <1>7, OfferRest
    <2>2. Later(p, "auth", "c2s") = Proof(p, "c2s")
      BY <1>1 DEF Later
    <2>3. Later(p, "reply", "c2s") = Proof(p, "c2s")
      BY <1>2, <1>6, <2>1, <2>2
    <2> QED
      BY <1>1, <1>7, <2>3
  <1>8. ASSUME ~ (p.reply < 3007) PROVE Later(p, "reply", "c2s") = Rest(p, "choice", "c2s") /\ p.reply >= 3007
    <2>1. Offer(p, "c2s") = Rest(p, "count", "c2s")
      BY <1>1, <1>8, OfferRest
    <2>2. Later(p, "count", "c2s") = Says("c2s", "types", p.types, p.sec) \o (Says("c2s", "choice", 1, p.sec) \o Proof(p, "c2s"))
      BY <1>1 DEF Later
    <2>3. Later(p, "types", "c2s") = Says("c2s", "choice", 1, p.sec) \o Proof(p, "c2s")
      BY DEF Later
    <2>4. Rest(p, "types", "c2s") = Says("c2s", "types", p.types, p.sec) \o Later(p, "types", "c2s")
      <3>1. Size0(p, "types") = p.types /\ Value(p, "types") = p.sec
        BY DEF Size0, Value
      <3> QED
        BY <3>1 DEF Rest
    <2>5. Rest(p, "choice", "c2s") = Says("c2s", "choice", 1, p.sec) \o Later(p, "choice", "c2s")
      <3>1. Size0(p, "choice") = 1 /\ Value(p, "choice") = p.sec
        BY DEF Size0, Value
      <3> QED
        BY <3>1 DEF Rest
    <2>6. Later(p, "reply", "c2s") = Later(p, "count", "c2s")
      BY <1>2, <1>6, <2>1
    <2>7. Later(p, "count", "c2s") = Rest(p, "types", "c2s")
      BY <2>2, <2>3, <2>4
    <2>8. Later(p, "types", "c2s") = Rest(p, "choice", "c2s")
      BY <1>5, <2>3, <2>5
    <2>9. Later(p, "reply", "c2s") = Rest(p, "choice", "c2s")
      BY <1>2, <2>6, <2>7, <2>8
    <2> QED
      BY <1>1, <1>8, <2>9
  <1>9. Verdict(p, "c2s") = IF Refused(p) THEN <<>> ELSE Rest(p, "init", "c2s")
    <2>1. CASE ~ HasResult(p)
      BY <1>1, <2>1, OpeningRest DEF Verdict, Refused
    <2>2. CASE HasResult(p)
      <3>1. Verdict(p, "c2s") = Later(p, "result", "c2s")
        BY <1>2, <2>2, VerdictRest
      <3>2. Later(p, "result", "c2s") = IF p.ok THEN Opening(p, "c2s") ELSE IF Version(p) >= 3008 THEN Reason("c2s") ELSE <<>>
        BY DEF Later
      <3>3. Reason("c2s") = <<>>
        BY DEF Reason, Says, From, Tap
      <3>4. Refused(p) = ~ p.ok
        BY <1>1, <2>2 DEF Refused
      <3>5. Verdict(p, "c2s") = IF p.ok THEN Opening(p, "c2s") ELSE <<>>
        BY <3>1, <3>2, <3>3
      <3> QED
        BY <3>4, <3>5, OpeningRest
    <2> QED
      BY <2>1, <2>2
  <1>10. Later(p, "init", "c2s") = Messages(p.inputs)
    <2>1. Later(p, "init", "c2s") = Says("c2s", "serverinit", 24, 2) \o (Says("c2s", "name", 2, 0) \o Screen(p, "c2s"))
      BY DEF Later
    <2>2. Screen(p, "c2s") = Messages(p.inputs)
      BY DEF Screen
    <2>3. Says("c2s", "serverinit", 24, 2) = <<>> /\ Says("c2s", "name", 2, 0) = <<>>
      BY DEF Says, From, Tap
    <2>4. Messages(p.inputs) \in Seq(All)
      BY MessagesFacts DEF Session
    <2> QED
      BY <2>1, <2>2, <2>3, <2>4, AllOf
  <1>11. Later(p, "reply", "c2s") = IF p.reply >= 3007 THEN Rest(p, "choice", "c2s")
                                       ELSE IF p.sec = VNC_AUTHENTICATION THEN Rest(p, "response", "c2s")
                                       ELSE Verdict(p, "c2s")
    BY <1>4, <1>5, <1>6, <1>7, <1>8
  <1> QED
    BY <1>3, <1>4, <1>5, <1>9, <1>10, <1>11

\* A byte of a client's messages is a byte of one of them.
LEMMA EachByte ==
  ASSUME NEW s \in Scripted, NEW i \in 1..Len(Messages(s))
  PROVE  \E j \in DOMAIN s : \E k \in 1..Size[s[j]] : i = Offset(s, j) + k
  <1>1. s \in Seq(Kinds) /\ Len(s) \in Nat /\ DOMAIN s = 1..Len(s)
    BY ScriptFacts, LenProperties
  <1>2. /\ Offset(s, 1) = 0 /\ Offset(s, Len(s) + 1) = Len(Messages(s)) /\ Len(Messages(s)) \in Nat
        /\ \A j : Offset(s, j) \in Nat
    BY OffsetEnds
  <1> DEFINE T == {j \in 1..Len(s) + 1 : i <= Offset(s, j)}
  <1>3. T \subseteq Nat /\ Len(s) + 1 \in T
    BY <1>1, <1>2
  <1>4. PICK m \in T : \A j \in T : m <= j
    BY <1>3, LeastNumber
  <1>5. m \in Nat /\ m # 1 /\ m - 1 \in 1..Len(s) /\ m - 1 \notin T
    BY <1>1, <1>2, <1>4
  <1>6. PICK j \in DOMAIN s : j = m - 1 /\ j + 1 = m
    BY <1>1, <1>5
  <1>7. Offset(s, j) < i /\ i <= Offset(s, j + 1)
    <2>1. j \in 1..Len(s) + 1 /\ ~ (i <= Offset(s, j))
      BY <1>1, <1>5, <1>6
    <2> QED
      BY <1>2, <1>4, <1>6, <2>1
  <1>8. Offset(s, j + 1) = Offset(s, j) + Size[s[j]] /\ Size[s[j]] \in Nat
    BY OffsetNext
  <1>9. i - Offset(s, j) \in 1..Size[s[j]] /\ i = Offset(s, j) + (i - Offset(s, j))
    BY <1>2, <1>7, <1>8
  <1> QED
    BY <1>9

\* So they are all messages' bytes, as are the parts of such a sequence.
LEMMA SpokenMessages ==
  ASSUME NEW s \in Scripted
  PROVE  Spoken(Messages(s))
  <1>1. Messages(s) \in Seq(All) /\ DOMAIN Messages(s) = 1..Len(Messages(s))
    BY MessagesFacts, LenProperties
  <1>2. ASSUME NEW i \in 1..Len(Messages(s))
        PROVE  Messages(s)[i].f = "input" /\ Messages(s)[i].v[1] \in Kinds
    <2>0. PICK j \in DOMAIN s : \E k \in 1..Size[s[j]] : i = Offset(s, j) + k
      BY EachByte
    <2>1. PICK k \in 1..Size[s[j]] : i = Offset(s, j) + k
      BY <2>0
    <2>2. Messages(s)[i] = [f |-> "input", v |-> <<s[j], k>>]
      BY <2>1, MessagePlace
    <2>3. s[j] \in Kinds
      BY OffsetNext
    <2> QED
      BY <2>2, <2>3
  <1> QED
    BY <1>1, <1>2 DEF Spoken

\* What both parts of a sequence say, the whole says.
LEMMA SpokenParts ==
  ASSUME NEW a \in Seq(All), NEW b \in Seq(All)
  PROVE  Spoken(a \o b) <=> Spoken(a) /\ Spoken(b)
  <1>1. /\ a \o b \in Seq(All) /\ Len(a \o b) = Len(a) + Len(b) /\ Len(a) \in Nat /\ Len(b) \in Nat
        /\ \A k \in 1..Len(a) + Len(b) : (a \o b)[k] = IF k <= Len(a) THEN a[k] ELSE b[k - Len(a)]
    BY ConcatProperties, LenProperties
  <1>2. DOMAIN a = 1..Len(a) /\ DOMAIN b = 1..Len(b) /\ DOMAIN (a \o b) = 1..Len(a) + Len(b)
    BY <1>1, LenProperties
  <1>3. PICK t \in Seq(All) : t = a \o b
    BY <1>1
  <1>4. ASSUME Spoken(t) PROVE Spoken(a) /\ Spoken(b)
    <2>1. ASSUME NEW k \in 1..Len(a) PROVE a[k].f = "input" /\ a[k].v[1] \in Kinds
      <3>1. k \in 1..Len(a) + Len(b) /\ k <= Len(a)
        BY <1>1
      <3>2. t[k] = a[k] /\ k \in DOMAIN t
        BY <1>1, <1>2, <1>3, <3>1
      <3> QED
        BY <1>4, <3>2 DEF Spoken
    <2>2. ASSUME NEW k \in 1..Len(b) PROVE b[k].f = "input" /\ b[k].v[1] \in Kinds
      <3>1. k + Len(a) \in 1..Len(a) + Len(b) /\ ~ (k + Len(a) <= Len(a)) /\ (k + Len(a)) - Len(a) = k
        BY <1>1
      <3>2. t[k + Len(a)] = b[k] /\ k + Len(a) \in DOMAIN t
        BY <1>1, <1>2, <1>3, <3>1
      <3> QED
        BY <1>4, <3>2 DEF Spoken
    <2> QED
      BY <1>2, <2>1, <2>2 DEF Spoken
  <1>5. ASSUME Spoken(a), Spoken(b) PROVE Spoken(t)
    <2>1. ASSUME NEW k \in 1..Len(a) + Len(b) PROVE t[k].f = "input" /\ t[k].v[1] \in Kinds
      <3>1. CASE k <= Len(a)
        <4>1. k \in DOMAIN a /\ t[k] = a[k]
          BY <1>1, <1>2, <1>3, <3>1
        <4> QED
          BY <1>5, <4>1 DEF Spoken
      <3>2. CASE ~ (k <= Len(a))
        <4>1. k - Len(a) \in DOMAIN b /\ t[k] = b[k - Len(a)]
          BY <1>1, <1>2, <1>3, <3>2
        <4> QED
          BY <1>5, <4>1 DEF Spoken
      <3> QED
        BY <3>1, <3>2
    <2> QED
      BY <1>2, <1>3, <2>1 DEF Spoken
  <1> QED
    BY <1>3, <1>4, <1>5

\* Dropping bytes at the beginning leaves what is said in order.
LEMMA SpokenTail ==
  ASSUME NEW s, Spoken(s), NEW n \in Nat
  PROVE  Spoken(SubSeq(s, n + 1, Len(s)))
  <1>1. s \in Seq(All) /\ Len(s) \in Nat /\ DOMAIN s = 1..Len(s)
    BY LenProperties DEF Spoken
  <1>2. CASE n <= Len(s)
    <2>1. PICK t \in Seq(All) : t = SubSeq(s, n + 1, Len(s)) /\ Len(t) = Len(s) - n /\ \A k \in 1..Len(s) - n : t[k] = s[n + k]
      BY <1>1, <1>2, Remainder
    <2>2. DOMAIN t = 1..Len(s) - n
      BY <2>1, LenProperties
    <2>3. \A k \in 1..Len(s) - n : n + k \in DOMAIN s
      BY <1>1
    <2>4. \A k \in DOMAIN t : t[k].f = "input" /\ t[k].v[1] \in Kinds
      BY <2>1, <2>2, <2>3 DEF Spoken
    <2> QED
      BY <2>1, <2>4 DEF Spoken
  <1>3. CASE ~ (n <= Len(s))
    <2>1. SubSeq(s, n + 1, Len(s)) = <<>>
      <3>1. n + 1 \in Nat /\ \A i \in n + 1..Len(s) : s[i] \in All
        BY <1>1, <1>3
      <3>2. SubSeq(s, n + 1, Len(s)) \in Seq(All) /\ Len(SubSeq(s, n + 1, Len(s))) = IF n + 1 <= Len(s) THEN Len(s) - (n + 1) + 1 ELSE 0
        BY <1>1, <3>1, SubSeqProperties
      <3> QED
        BY <1>1, <1>3, <3>2, EmptySeq
    <2>2. <<>> \in Seq(All) /\ DOMAIN <<>> = {}
      BY EmptySeq
    <2> QED
      BY <2>1, <2>2 DEF Spoken
  <1> QED
    BY <1>2, <1>3

\* A turn keeps what the observer was told and when the decoder was started, and
\* takes bytes unless it is the last.
Forth(o, r) == /\ r \in Observers /\ r.required = o.required /\ r.started = o.started
               /\ Rests(r) \/ Len(r.buffer) < Len(o.buffer)

\* The observer takes the field it waits for.
LEMMA FieldKnown ==
  ASSUME NEW p \in Session, NEW o \in Observers, NEW w \in Seq(All), NEW at \in {"reply", "choice", "response", "init"},
         Holds(o, w, Rest(p, at, "c2s")), NEW n, n = Size0(p, at), Len(o.buffer) >= n
  PROVE  /\ n \in Nat /\ n > 0 /\ Len(o.buffer) \in Nat /\ Len(o.buffer) > 0
         /\ SubSeq(o.buffer, n + 1, Len(o.buffer)) \in Seq(All)
         /\ SubSeq(o.buffer, n + 1, Len(o.buffer)) \o w = Later(p, at, "c2s")
         /\ Head(o.buffer).f = at /\ Head(o.buffer).v = Value(p, at)
  <1>1. at \in Points \ {"done"} /\ Tap(at) = "c2s"
    BY DEF Points, Exchange, Tap
  <1>2. n \in Nat /\ n > 0
    <2>1. Size0(p, at) \in {1, 12, 16}
      BY DEF Size0
    <2> QED
      BY <2>1
  <1>3. PICK a \in Seq(All) : a = o.buffer
    BY DEF Observers
  <1>4. Len(a) \in Nat /\ Len(a) >= n /\ a # <<>> /\ Len(a) > 0 /\ 1 \in 1..Len(a) /\ 1 <= n
    BY <1>2, <1>3, LenProperties
  <1>5. a \o w = Rest(p, at, Tap(at))
    BY <1>1, <1>3 DEF Holds
  <1>6. /\ \A i \in 1..Len(a) : i <= n => a[i].f = at
        /\ SubSeq(a, n + 1, Len(a)) \in Seq(All)
        /\ SubSeq(a, n + 1, Len(a)) \o w = Later(p, at, Tap(at))
        /\ Decode(a) = Value(p, at)
    <2>1. /\ \A i \in 1..Len(a) : i <= Size0(p, at) => a[i].f = at
          /\ Len(a) >= Size0(p, at) =>
                /\ SubSeq(a, Size0(p, at) + 1, Len(a)) \in Seq(All)
                /\ SubSeq(a, Size0(p, at) + 1, Len(a)) \o w = Later(p, at, Tap(at))
                /\ Size0(p, at) > 0 => Decode(a) = Value(p, at)
      BY <1>1, <1>5, FieldHead
    <2> QED
      BY <2>1, <1>2, <1>4
  <1>7. Head(a) = a[1] /\ Head(a).f = at /\ Head(a).v = Value(p, at)
    BY <1>4, <1>6 DEF Decode
  <1> QED
    BY <1>1, <1>2, <1>3, <1>4, <1>6, <1>7

Heads(o, at, v)      == Head(o.buffer).f = at /\ Head(o.buffer).v = v
Takes(o, h, k, r, w, s) ==
    r.handler = h /\ r.need = k /\ r.handled = o.handled /\ ~ r.raised /\ Forth(o, r) /\ Holds(r, w, s)

\* A field of the handshake taken whole leaves what comes after it.
LEMMA FieldTaken ==
  ASSUME NEW p \in Session, NEW o \in Observers, NEW w \in Seq(All), NEW at \in {"reply", "choice", "response", "init"},
         Holds(o, w, Rest(p, at, "c2s")), NEW n, n = Size0(p, at), Len(o.buffer) >= n,
         NEW h \in Handshake \cup Beyond, NEW k \in Nat, NEW r, r = Onward(o, n, h, k)
  PROVE  Takes(o, h, k, r, w, Later(p, at, "c2s")) /\ Heads(o, at, Value(p, at))
  <1>1. /\ n \in Nat /\ n > 0 /\ Len(o.buffer) \in Nat /\ Len(o.buffer) > 0
        /\ SubSeq(o.buffer, n + 1, Len(o.buffer)) \o w = Later(p, at, "c2s")
    BY FieldKnown
  <1>2. GoesOn(o, n, h, k, r)
    BY <1>1, Taking
  <1>3. Len(r.buffer) < Len(o.buffer)
    BY <1>1, <1>2 DEF GoesOn
  <1>4. Forth(o, r)
    BY <1>2, <1>3 DEF GoesOn, Forth
  <1>5. Holds(r, w, Later(p, at, "c2s"))
    BY <1>1, <1>2 DEF GoesOn, Holds
  <1>6. Heads(o, at, Value(p, at))
    BY FieldKnown DEF Heads
  <1> QED
    BY <1>2, <1>4, <1>5, <1>6 DEF GoesOn, Takes

\* One turn of an observer that does not rest.
LEMMA TurnIs ==
  ASSUME NEW o \in Observers, ~ Rests(o)
  PROVE  /\ Turn(o) = [Handle(o) EXCEPT !.raised = Raises(o)] /\ o.handler # "astray" /\ ~ o.raised
         /\ Len(o.buffer) >= o.need /\ Len(o.buffer) \in Nat /\ o.need \in Nat /\ o.buffer \in Seq(All)
  <1>1. Len(o.buffer) \in Nat /\ o.need \in Nat /\ o.buffer \in Seq(All)
    BY LenProperties DEF Observers
  <1>2. o.handler # "astray" /\ ~ o.raised /\ ~ (Len(o.buffer) < o.need)
    BY DEF Rests
  <1> QED
    BY <1>1, <1>2 DEF Turn

\* The client's reply,
LEMMA GreetingTurn ==
  ASSUME NEW p \in Session, Readable(p), NEW o \in Observers, Told(o, p), NEW w \in Seq(All),
         Greeting(o, p, w), ~ Rests(o), o.handled = <<>>
  PROVE  Forth(o, Turn(o)) /\ Hears(Turn(o), p, w)
  <1>1. PICK r : r = Turn(o)
    OBVIOUS
  <1>2. /\ o.handler = "version" /\ o.need = 12 /\ Holds(o, w, Rest(p, "reply", "c2s"))
        /\ Len(o.buffer) >= 12 /\ 12 = Size0(p, "reply") /\ Value(p, "reply") = p.reply
    BY TurnIs DEF Greeting, Size0, Value
  <1>3. r = [HandleVersion(o) EXCEPT !.raised = FALSE]
    <2>1. Handle(o) = HandleVersion(o)
      BY <1>2 DEF Handle
    <2>2. Raises(o) = FALSE
      BY <1>2 DEF Raises
    <2> QED
      BY <1>1, <2>1, <2>2, TurnIs
  <1>4. Head(o.buffer).f = "reply" /\ Head(o.buffer).v = p.reply
    BY <1>2, FieldKnown
  <1>5. PICK s : /\ s = Later(p, "reply", "c2s")
                 /\ s = IF p.reply >= 3007 THEN Rest(p, "choice", "c2s")
                        ELSE IF p.sec = VNC_AUTHENTICATION THEN Rest(p, "response", "c2s") ELSE Verdict(p, "c2s")
    BY ClientSays
  <1>6. \A h \in Handshake \cup Beyond, k \in Nat : HandleVersion(o) = Wait(Took(o, 12), h, k) => Takes(o, h, k, r, w, s)
    <2> SUFFICES ASSUME NEW h \in Handshake \cup Beyond, NEW k \in Nat, HandleVersion(o) = Wait(Took(o, 12), h, k)
                 PROVE  Takes(o, h, k, r, w, s)
      OBVIOUS
    <2>1. r = Onward(o, 12, h, k)
      BY <1>3 DEF Onward
    <2> QED
      BY <1>2, <1>5, <2>1, FieldTaken
  <1>7. CASE p.reply >= 3007
    <2>1. p.reply \in {3007, 3008}
      BY <1>7 DEF Readable
    <2>2. HandleVersion(o) = Wait(Took(o, 12), "security", 1)
      BY <1>4, <2>1 DEF HandleVersion
    <2>3. Takes(o, "security", 1, r, w, Rest(p, "choice", "c2s"))
      <3>1. "security" \in Handshake \cup Beyond /\ 1 \in Nat
        BY DEF Handshake
      <3>2. Takes(o, "security", 1, r, w, s)
        BY <1>6, <2>2, <3>1
      <3>3. s = Rest(p, "choice", "c2s")
        BY <1>5, <1>7
      <3> QED
        BY <3>2, <3>3
    <2> QED
      BY <1>1, <1>7, <2>3 DEF Takes, Hears, Choosing
  <1>8. CASE ~ (p.reply >= 3007) /\ p.sec = VNC_AUTHENTICATION
    <2>0. p.reply \in {3003, 3005} /\ p.reply < 3007
      BY <1>8 DEF Readable
    <2>1. p.reply \in {3003, 3005} /\ o.required
      BY <1>8, <2>0 DEF Told
    <2>2. HandleVersion(o) = Wait(Took(o, 12), "VNCAuthResponse", 16)
      BY <1>4, <2>1 DEF HandleVersion
    <2>3. Takes(o, "VNCAuthResponse", 16, r, w, Rest(p, "response", "c2s"))
      <3>1. "VNCAuthResponse" \in Handshake \cup Beyond /\ 16 \in Nat
        BY DEF Handshake
      <3>2. Takes(o, "VNCAuthResponse", 16, r, w, s)
        BY <1>6, <2>2, <3>1
      <3>3. s = Rest(p, "response", "c2s")
        BY <1>5, <1>8
      <3> QED
        BY <3>2, <3>3
    <2> QED
      BY <1>1, <1>8, <2>3 DEF Takes, Hears, Proving
  <1>9. CASE ~ (p.reply >= 3007) /\ p.sec # VNC_AUTHENTICATION
    <2>0. p.reply \in {3003, 3005} /\ p.reply < 3007
      BY <1>9 DEF Readable
    <2>1. p.reply \in {3003, 3005} /\ ~ o.required
      BY <1>9, <2>0 DEF Told
    <2>2. HandleVersion(o) = Wait(Took(o, 12), "clientInit", 1)
      BY <1>4, <2>1 DEF HandleVersion
    <2>3. Takes(o, "clientInit", 1, r, w, Verdict(p, "c2s"))
      <3>1. "clientInit" \in Handshake \cup Beyond /\ 1 \in Nat
        BY DEF Handshake
      <3>2. Takes(o, "clientInit", 1, r, w, s)
        BY <1>6, <2>2, <3>1
      <3>3. s = Verdict(p, "c2s")
        BY <1>5, <1>9
      <3> QED
        BY <3>2, <3>3
    <2> QED
      BY <1>1, <2>3 DEF Takes, Hears, Opens
  <1> QED
    BY <1>7, <1>8, <1>9

\* its choice of a security type,
LEMMA ChoosingTurn ==
  ASSUME NEW p \in Session, Readable(p), NEW o \in Observers, NEW w \in Seq(All),
         Choosing(o, p, w), ~ Rests(o), o.handled = <<>>
  PROVE  Forth(o, Turn(o)) /\ Hears(Turn(o), p, w)
  <1>1. PICK r : r = Turn(o)
    OBVIOUS
  <1>2. /\ o.handler = "security" /\ o.need = 1 /\ Holds(o, w, Rest(p, "choice", "c2s"))
        /\ Len(o.buffer) >= 1 /\ 1 = Size0(p, "choice") /\ Value(p, "choice") = p.sec
    BY TurnIs DEF Choosing, Size0, Value
  <1>3. r = [HandleSecurity(o) EXCEPT !.raised = FALSE]
    <2>1. Handle(o) = HandleSecurity(o)
      BY <1>2 DEF Handle
    <2>2. Raises(o) = FALSE
      BY <1>2 DEF Raises
    <2> QED
      BY <1>1, <2>1, <2>2, TurnIs
  <1>4. Head(o.buffer).v = p.sec
    BY <1>2, FieldKnown
  <1>5. CASE p.sec = VNC_AUTHENTICATION
    <2>1. r = Onward(o, 1, "VNCAuthResponse", 16)
      BY <1>3, <1>4, <1>5 DEF HandleSecurity, Onward
    <2>2. "VNCAuthResponse" \in Handshake \cup Beyond /\ 16 \in Nat
      BY DEF Handshake
    <2>3. Takes(o, "VNCAuthResponse", 16, r, w, Later(p, "choice", "c2s"))
      BY <1>2, <2>1, <2>2, FieldTaken
    <2>4. Later(p, "choice", "c2s") = Rest(p, "response", "c2s")
      BY <1>5, ClientSays
    <2> QED
      BY <1>1, <1>5, <2>3, <2>4 DEF Takes, Hears, Proving
  <1>6. CASE p.sec # VNC_AUTHENTICATION
    <2>1. r = Onward(o, 1, "clientInit", 1)
      BY <1>3, <1>4, <1>6 DEF HandleSecurity, Onward
    <2>2. "clientInit" \in Handshake \cup Beyond /\ 1 \in Nat
      BY DEF Handshake
    <2>3. Takes(o, "clientInit", 1, r, w, Later(p, "choice", "c2s"))
      BY <1>2, <2>1, <2>2, FieldTaken
    <2>4. Later(p, "choice", "c2s") = Verdict(p, "c2s")
      BY <1>6, ClientSays
    <2> QED
      BY <1>1, <2>3, <2>4 DEF Takes, Hears, Opens
  <1> QED
    BY <1>5, <1>6

\* and its response.
LEMMA ProvingTurn ==
  ASSUME NEW p \in Session, Readable(p), NEW o \in Observers, NEW w \in Seq(All),
         Proving(o, p, w), ~ Rests(o), o.handled = <<>>
  PROVE  Forth(o, Turn(o)) /\ Hears(Turn(o), p, w)
  <1>1. PICK r : r = Turn(o)
    OBVIOUS
  <1>2. /\ o.handler = "VNCAuthResponse" /\ o.need = 16 /\ Holds(o, w, Rest(p, "response", "c2s"))
        /\ Len(o.buffer) >= 16 /\ 16 = Size0(p, "response")
    BY TurnIs DEF Proving, Size0
  <1>3. r = Onward(o, 16, "clientInit", 1)
    <2>1. Handle(o) = Wait(Took(o, 16), "clientInit", 1)
      BY <1>2 DEF Handle, HandleVNCAuthResponse
    <2>2. Raises(o) = FALSE
      BY <1>2 DEF Raises
    <2> QED
      BY <1>1, <2>1, <2>2, TurnIs DEF Onward
  <1>4. "clientInit" \in Handshake \cup Beyond /\ 1 \in Nat
    BY DEF Handshake
  <1>5. Takes(o, "clientInit", 1, r, w, Later(p, "response", "c2s"))
    BY <1>2, <1>3, <1>4, FieldTaken
  <1>6. Later(p, "response", "c2s") = Verdict(p, "c2s")
    BY ClientSays
  <1> QED
    BY <1>1, <1>5, <1>6 DEF Takes, Hears, Opens

\* ClientInit is the end of the handshake: what follows are messages.
LEMMA OpeningTurn ==
  ASSUME NEW p \in Session, Readable(p), NEW o \in Observers, NEW w \in Seq(All),
         Opens(o, p, w), ~ Rests(o), o.handled = <<>>
  PROVE  Forth(o, Turn(o)) /\ Hears(Turn(o), p, w)
  <1> DEFINE M == Messages(p.inputs)
  <1>0. PICK r : r = Turn(o)
    OBVIOUS
  <1>1. /\ o.handler = "clientInit" /\ o.need = 1 /\ Holds(o, w, Verdict(p, "c2s"))
        /\ Len(o.buffer) >= 1 /\ 1 = Size0(p, "init") /\ o.buffer \in Seq(All)
    BY TurnIs DEF Opens, Size0
  <1>2. ~ Refused(p)
    <2>1. Len(o.buffer \o w) = Len(o.buffer) + Len(w) /\ Len(w) \in Nat /\ Len(o.buffer) \in Nat
      BY <1>1, ConcatProperties, LenProperties
    <2>2. Len(Verdict(p, "c2s")) # 0
      BY <1>1, <2>1 DEF Holds
    <2>3. Len(<<>>) = 0
      OBVIOUS
    <2> QED
      BY <2>2, <2>3, ClientSays
  <1>3. Holds(o, w, Rest(p, "init", "c2s"))
    BY <1>1, <1>2, ClientSays
  <1>4. r = Onward(o, 1, "protocol", 1)
    <2>1. Handle(o) = Wait(Took(o, 1), "protocol", 1)
      BY <1>1 DEF Handle, HandleClientInit
    <2>2. Raises(o) = FALSE
      BY <1>1 DEF Raises
    <2> QED
      BY <1>0, <2>1, <2>2, TurnIs DEF Onward
  <1>5. Takes(o, "protocol", 1, r, w, M)
    <2>1. "protocol" \in Handshake \cup Beyond /\ 1 \in Nat
      BY DEF Beyond
    <2>2. Takes(o, "protocol", 1, r, w, Later(p, "init", "c2s"))
      BY <1>1, <1>3, <1>4, <2>1, FieldTaken
    <2>3. Later(p, "init", "c2s") = M
      BY ClientSays
    <2> QED
      BY <2>2, <2>3
  <1>6. p.inputs \in Scripted /\ M \in Seq(All) /\ Spoken(M) /\ Len(M) \in Nat
    BY MessagesFacts, SpokenMessages, LenProperties DEF Session
  <1>7. /\ r.handler = "protocol" /\ r.need = 1 /\ r.handled = <<>> /\ ~ r.raised /\ Forth(o, r)
        /\ r.buffer \in Seq(All) /\ r.buffer \o w = M /\ Holds(r, w, M)
    <2> HIDE DEF M
    <2> QED
      BY <1>5 DEF Takes, Forth, Observers, Holds
  <1> HIDE DEF M
  <1>8. Spoken(r.buffer) /\ Spoken(w)
    BY <1>6, <1>7, SpokenParts
  <1>9. Len(w) <= Len(M)
    <2>1. Len(r.buffer \o w) = Len(r.buffer) + Len(w) /\ Len(r.buffer) \in Nat /\ Len(w) \in Nat
      BY <1>7, ConcatProperties, LenProperties
    <2> QED
      BY <1>7, <2>1
  <1>10. Listens(r, p, w)
    BY <1>2, <1>7, <1>8, <1>9 DEF Listens, Expects, Beyond, M
  <1>11. AtOne(r, p, w)
    <2>1. Offset(p.inputs, 1) = 0
      BY <1>6, OffsetEnds
    <2>2. SubSeq(M, 0 + 1, Len(M)) = M
      BY <1>6, AllOf
    <2>3. Holds(r, w, SubSeq(M, Offset(p.inputs, 1) + 1, Len(M)))
      BY <1>7, <2>1, <2>2
    <2>4. p.inputs \in Seq(Kinds) /\ Len(p.inputs) \in Nat /\ 1 \in 1..Len(p.inputs) + 1
      BY <1>6, ScriptFacts, LenProperties
    <2>5. SubSeq(p.inputs, 1, 1 - 1) = <<>>
      BY <2>4, SubSeqEmpty
    <2> QED
      BY <1>7, <2>3, <2>4, <2>5 DEF AtOne, M
  <1>12. Hears(r, p, w)
    BY <1>10, <1>11 DEF Hears
  <1> QED
    BY <1>0, <1>7, <1>12

\* Some bytes of messages taken off what is held back.
Clipped(o, n, x) ==
    /\ x \in Observers /\ x.handler = o.handler /\ x.need = o.need /\ x.required = o.required
    /\ x.handled = o.handled /\ x.started = o.started /\ x.raised = o.raised
    /\ Spoken(x.buffer) /\ Len(x.buffer) \in Nat /\ Len(o.buffer) \in Nat /\ Len(x.buffer) <= Len(o.buffer)
    /\ n > 0 /\ Len(o.buffer) > 0 => Len(x.buffer) < Len(o.buffer)
    /\ x.buffer = SubSeq(o.buffer, n + 1, Len(o.buffer))

\* Cutting the buffer's beginning off touches nothing else.
LEMMA Clips ==
  ASSUME NEW o \in Observers, Spoken(o.buffer), NEW n \in Nat
  PROVE  Clipped(o, n, Took(o, n))
  <1>1. PICK s \in Seq(All) : s = o.buffer /\ Len(s) \in Nat
    BY LenProperties DEF Observers
  <1>0. SubSeq(s, n + 1, Len(s)) \in Seq(All) /\ Len(SubSeq(s, n + 1, Len(s))) = IF n + 1 <= Len(s) THEN Len(s) - n ELSE 0
    BY <1>1, SubSeqProperties
  <1>2. PICK t \in Seq(All) : t = SubSeq(s, n + 1, Len(s)) /\ Len(t) = IF n + 1 <= Len(s) THEN Len(s) - n ELSE 0
    BY <1>0
  <1>3. Spoken(t)
    BY <1>1, <1>2, SpokenTail
  <1>4. Took(o, n) = [o EXCEPT !.buffer = t]
    BY <1>1, <1>2 DEF Took, Left
  <1>5. PICK x : x = Took(o, n)
    OBVIOUS
  <1>6. /\ x \in Observers /\ x.handler = o.handler /\ x.need = o.need /\ x.required = o.required
        /\ x.handled = o.handled /\ x.started = o.started /\ x.raised = o.raised /\ x.buffer = t
    BY <1>4, <1>5 DEF Observers
  <1>7. Len(t) \in Nat /\ Len(t) <= Len(s) /\ (n > 0 /\ Len(s) > 0 => Len(t) < Len(s))
    BY <1>1, <1>2
  <1> QED
    BY <1>1, <1>2, <1>3, <1>5, <1>6, <1>7 DEF Clipped

\* What a handler may leave of an observer that is given messages.
Leaves(o, x) ==
    /\ x \in Observers /\ x.required = o.required /\ x.started = o.started /\ Spoken(x.buffer)
    /\ Expects(x.handler, x.need)
    /\ x.handler = "astray" \/ Len(x.buffer) < x.need \/ Raises(o) \/ Len(x.buffer) < Len(o.buffer)

\* It waits for the next message, for the rest of this one, or hands one on.
LEMMA Waits ==
  ASSUME NEW o \in Observers, NEW y \in Observers, y.required = o.required, y.started = o.started, Spoken(y.buffer),
         NEW h, NEW k \in Nat, NEW kind \in Kinds, Expects(h, k),
         h = "astray" \/ Len(y.buffer) < k \/ Raises(o) \/ Len(y.buffer) < Len(o.buffer)
  PROVE  Leaves(o, Wait(y, h, k)) /\ Leaves(o, HandedOn(Wait(y, h, k), kind))
  <1>1. PICK x : x = Wait(y, h, k)
    OBVIOUS
  <1>2. h \in Beyond /\ h \in Handshake \cup Beyond
    BY DEF Expects
  <1>3. x = [y EXCEPT !.handler = h, !.need = k]
    BY <1>1 DEF Wait
  <1>4. x \in Observers /\ x.handler = h /\ x.need = k /\ x.required = y.required /\ x.started = y.started /\ x.buffer = y.buffer
    BY <1>2, <1>3 DEF Observers
  <1>5. Leaves(o, x)
    BY <1>4 DEF Leaves
  <1>6. PICK z : z = HandedOn(x, kind)
    OBVIOUS
  <1>7. PICK l \in Seq(Kinds) : l = Append(x.handled, kind)
    BY <1>4, AppendProperties DEF Observers
  <1>8. z = [x EXCEPT !.handled = l]
    BY <1>6, <1>7 DEF HandedOn
  <1>9. z \in Observers /\ z.handler = h /\ z.need = k /\ z.required = y.required /\ z.started = y.started /\ z.buffer = y.buffer
    BY <1>4, <1>8 DEF Observers
  <1>10. Leaves(o, z)
    BY <1>9 DEF Leaves
  <1> QED
    BY <1>1, <1>5, <1>6, <1>10

\* So it is with each of the handlers.
LEMMA HandlerLeaves ==
  ASSUME NEW o \in Observers, Expects(o.handler, o.need), Spoken(o.buffer), ~ Rests(o)
  PROVE  Leaves(o, Handle(o))
  <1>1. /\ o.handler # "astray" /\ Len(o.buffer) >= o.need /\ Len(o.buffer) \in Nat /\ o.need \in Nat /\ o.buffer \in Seq(All)
    BY TurnIs
  <1>2. \A n \in Nat : Clipped(o, n, Took(o, n))
    BY Clips
  <1>3. \A y \in Observers : Wait(y, y.handler, y.need) = y
    BY DEF Wait, Observers
  <1>4. CASE o.handler = "protocol"
    <2>1. o.need > 0 /\ Len(o.buffer) > 0 /\ o.buffer # <<>> /\ Head(o.buffer) = o.buffer[1] /\ 1 \in DOMAIN o.buffer
      BY <1>1, <1>4, LenProperties DEF Expects
    <2>2. Head(o.buffer).f = "input" /\ Head(o.buffer).v[1] \in Kinds
      BY <2>1 DEF Spoken
    <2>3. PICK kind \in Kinds : kind = Head(o.buffer).v[1]
      BY <2>2
    <2>4. PICK n \in Nat, m \in Nat : n = TYPE_LEN[kind] /\ m = Size[kind] - n /\ (kind # "odd" => n > 0)
      BY Lengths
    <2>5. PICK x : x = Took(o, n)
      OBVIOUS
    <2>6. Clipped(o, n, x)
      BY <1>2, <2>5
    <2>7. x \in Observers /\ Spoken(x.buffer) /\ x.required = o.required /\ x.started = o.started
          /\ x.handler = "protocol" /\ x.need = o.need
      BY <1>4, <2>6 DEF Clipped
    <2>8. PICK y : y = Took(x, m)
      OBVIOUS
    <2>9. Clipped(x, m, y)
      BY <2>7, <2>8, Clips
    <2>10. y \in Observers /\ Spoken(y.buffer) /\ y.required = o.required /\ y.started = o.started
           /\ y.handler = "protocol" /\ y.need = o.need /\ Len(y.buffer) \in Nat /\ Len(y.buffer) <= Len(x.buffer)
      BY <2>7, <2>9 DEF Clipped
    <2>11. kind # "odd" => Len(x.buffer) < Len(o.buffer) /\ Len(y.buffer) < Len(o.buffer)
      BY <1>1, <2>1, <2>4, <2>6, <2>10 DEF Clipped
    <2>12. CASE Head(o.buffer).v[2] # 1
      <3>1. Handle(o) = Wait(o, "astray", 0)
        BY <1>4, <2>12 DEF Handle, HandleProtocol
      <3>2. Expects("astray", 0)
        BY DEF Expects, Beyond
      <3> QED
        BY <2>3, <3>1, <3>2, Waits
    <2>13. CASE Head(o.buffer).v[2] = 1 /\ Len(o.buffer) < n
      <3>1. Handle(o) = Wait(o, "protocol", n)
        BY <1>4, <2>2, <2>3, <2>4, <2>13 DEF Handle, HandleProtocol
      <3>2. Expects("protocol", n)
        BY <1>1, <2>13 DEF Expects, Beyond
      <3> QED
        BY <2>3, <2>13, <3>1, <3>2, Waits
    <2>14. CASE Head(o.buffer).v[2] = 1 /\ ~ (Len(o.buffer) < n)
      <3>1. Handle(o) = CASE kind \in {"pixelformat", "request", "key", "pointer"} -> HandedOn(x, kind)
               [] kind = "encodings" -> IF Len(x.buffer) < m THEN x
                                        ELSE HandedOn(y, kind)
               [] kind = "text"      -> Wait(x, "clientCutText", m)
               [] kind = "fence"     -> HandedOn(y, kind)
               [] kind = "qemu"      -> Wait(x, "qemuExtendedKeyEvent", 10)
               [] kind = "odd"       -> o
        <4>1. Handle(o) = HandleProtocol(o)
          BY <1>4 DEF Handle
        <4> QED
          BY <2>2, <2>3, <2>4, <2>5, <2>8, <2>14, <4>1 DEF HandleProtocol
      <3>2. Expects("protocol", o.need) /\ Expects("qemuExtendedKeyEvent", 10) /\ Expects("clientCutText", 3)
        BY <2>1 DEF Expects, Beyond
      <3>3. kind # "odd" => Leaves(o, Wait(x, "protocol", o.need)) /\ Leaves(o, HandedOn(Wait(x, "protocol", o.need), kind))
        BY <1>1, <2>7, <2>11, <3>2, Waits
      <3>4. kind # "odd" => Leaves(o, x) /\ Leaves(o, HandedOn(x, kind))
        BY <1>3, <2>7, <3>3
      <3>5. kind # "odd" => Leaves(o, HandedOn(Wait(y, "protocol", o.need), kind))
        BY <1>1, <2>10, <2>11, <3>2, Waits
      <3>6. kind # "odd" => Leaves(o, HandedOn(y, kind))
        BY <1>3, <2>10, <3>5
      <3>7. kind # "odd" => Leaves(o, Wait(x, "clientCutText", 3)) /\ Leaves(o, Wait(x, "qemuExtendedKeyEvent", 10))
        BY <2>7, <2>11, <3>2, Waits
      <3>8. kind = "text" => m = 3
        BY <2>4, Lengths
      <3>9. kind = "odd" => Leaves(o, o)
        <4>1. kind = "odd" => Raises(o)
          BY <1>4, <2>2, <2>3, <2>14 DEF Raises
        <4> QED
          BY <4>1 DEF Leaves
      <3>10. kind \in {"pixelformat", "encodings", "request", "key", "pointer", "text", "fence", "qemu", "odd"}
        BY Lengths
      <3> QED
        BY <3>1, <3>4, <3>6, <3>7, <3>8, <3>9, <3>10
    <2> QED
      BY <2>12, <2>13, <2>14
  <1>5. ASSUME NEW n \in Nat, n > 0, Len(o.buffer) > 0, NEW kind \in Kinds
        PROVE  Leaves(o, HandedOn(Wait(Took(o, n), "protocol", 1), kind))
    <2>1. PICK x : x = Took(o, n) /\ Clipped(o, n, x)
      BY <1>2
    <2>2. Expects("protocol", 1)
      BY DEF Expects, Beyond
    <2>3. x \in Observers /\ Spoken(x.buffer) /\ x.required = o.required /\ x.started = o.started /\ Len(x.buffer) < Len(o.buffer)
      BY <1>5, <2>1 DEF Clipped
    <2> QED
      BY <2>1, <2>2, <2>3, Waits
  <1>6. "text" \in Kinds /\ "qemu" \in Kinds /\ Size["text"] - TYPE_LEN["text"] = 3
    BY Lengths
  <1>7. CASE o.handler = "clientCutText"
    <2>1. Handle(o) = HandedOn(Wait(Took(o, 3), "protocol", 1), "text")
      <3>1. Handle(o) = HandleClientCutText(o)
        BY <1>7 DEF Handle
      <3> QED
        BY <1>6, <3>1 DEF HandleClientCutText
    <2>2. Len(o.buffer) > 0
      BY <1>1, <1>7 DEF Expects
    <2> QED
      BY <1>5, <1>6, <2>1, <2>2
  <1>8. CASE o.handler = "qemuExtendedKeyEvent"
    <2>1. Handle(o) = HandedOn(Wait(Took(o, 12), "protocol", 1), "qemu")
      <3>1. Handle(o) = HandleQemuExtendedKeyEvent(o)
        BY <1>8 DEF Handle
      <3> QED
        BY <3>1 DEF HandleQemuExtendedKeyEvent
    <2>2. Len(o.buffer) > 0
      BY <1>1, <1>8 DEF Expects
    <2> QED
      BY <1>5, <1>6, <2>1, <2>2
  <1> QED
    BY <1>1, <1>4, <1>7, <1>8 DEF Expects, Beyond

\* The observer goes on listening, whatever it is given.
LEMMA ListensTurn ==
  ASSUME NEW p, NEW o \in Observers, NEW w, Listens(o, p, w), ~ Rests(o)
  PROVE  Forth(o, Turn(o)) /\ Listens(Turn(o), p, w)
  <1>1. PICK x : x = Handle(o) /\ Leaves(o, x)
    BY HandlerLeaves DEF Listens
  <1>2. PICK r : r = Turn(o)
    OBVIOUS
  <1>3. r = [x EXCEPT !.raised = Raises(o)]
    BY <1>1, <1>2, TurnIs
  <1>4. Raises(o) \in BOOLEAN
    BY DEF Raises
  <1>5. /\ r \in Observers /\ r.handler = x.handler /\ r.need = x.need /\ r.required = x.required /\ r.started = x.started
        /\ r.buffer = x.buffer
    <2>1. PICK b \in BOOLEAN : b = Raises(o)
      BY <1>4
    <2>2. r = [x EXCEPT !.raised = b]
      BY <1>3, <2>1
    <2> QED
      BY <1>1, <2>2 DEF Leaves, Observers
  <1>6. Raises(o) => r.raised
    <2>1. x \in Observers
      BY <1>1 DEF Leaves
    <2> QED
      BY <1>3, <2>1 DEF Observers
  <1>7. Rests(r) \/ Len(r.buffer) < Len(o.buffer)
    BY <1>1, <1>5, <1>6 DEF Leaves, Rests
  <1>8. Forth(o, r)
    BY <1>1, <1>5, <1>7 DEF Forth, Leaves
  <1>9. Listens(r, p, w)
    BY <1>1, <1>5 DEF Listens, Leaves
  <1> QED
    BY <1>2, <1>8, <1>9

\* What is held back and to come is what follows the first a bytes of M; so is
\* what is left once n are taken.
IsAt(b, w, M, a) == b \o w = SubSeq(M, a + 1, Len(M))

\* The bytes held and those to come begin at byte a of a script M; so do those
\* left when n are taken, at byte a + n.
LEMMA HeldBehind ==
  ASSUME NEW M \in Seq(All), NEW b \in Seq(All), NEW w \in Seq(All), NEW a \in Nat, a <= Len(M), IsAt(b, w, M, a)
  PROVE  /\ Len(b) \in Nat /\ Len(w) \in Nat /\ Len(M) \in Nat /\ Len(b) + Len(w) = Len(M) - a
         /\ Len(b) > 0 => b # <<>> /\ Head(b) = M[a + 1] /\ a < Len(M)
         /\ \A n \in Nat : n > 0 /\ n <= Len(b) =>
               \E u \in Seq(All) : u = SubSeq(b, n + 1, Len(b)) /\ IsAt(u, w, M, a + n)
  <1>1. PICK t \in Seq(All) : t = SubSeq(M, a + 1, Len(M)) /\ Len(t) = Len(M) - a /\ \A k \in 1..Len(M) - a : t[k] = M[a + k]
    BY Remainder
  <1>2. t = b \o w /\ Len(t) = Len(b) + Len(w) /\ Len(b) \in Nat /\ Len(w) \in Nat /\ Len(M) \in Nat /\ Len(t) \in Nat
    BY <1>1, ConcatProperties, LenProperties DEF IsAt
  <1>3. ASSUME Len(b) > 0 PROVE b # <<>> /\ Head(b) = M[a + 1] /\ a < Len(M)
    <2>1. 1 \in 1..Len(b) + Len(w) /\ 1 <= Len(b) /\ 1 \in 1..Len(M) - a /\ a < Len(M)
      BY <1>1, <1>2, <1>3
    <2>2. (b \o w)[1] = b[1]
      BY <2>1, ConcatProperties
    <2>3. t[1] = M[a + 1]
      BY <1>1, <2>1
    <2>4. Head(b) = b[1] /\ b # <<>>
      BY <1>3
    <2> QED
      BY <1>2, <2>1, <2>2, <2>3, <2>4
  <1>4. ASSUME NEW n \in Nat, n > 0, n <= Len(b)
        PROVE  \E u \in Seq(All) : u = SubSeq(b, n + 1, Len(b)) /\ IsAt(u, w, M, a + n)
    <2>1. n \in DOMAIN t /\ a + n <= Len(M)
      <3>1. n \in 1..Len(t)
        BY <1>2, <1>4
      <3> QED
        BY <1>1, <1>2, <1>4, <3>1, LenProperties
    <2>2. PICK x \in Seq(All), y \in Seq(All) :
             x = SubSeq(t, 1, n) /\ y = SubSeq(t, n + 1, Len(t)) /\ x \o y = t /\ Len(x) = n
      BY <2>1, InTwo
    <2>3. Splits(b, w, x, y)
      BY <1>2, <1>4, <2>2 DEF Splits
    <2>4. SubSeq(b, Len(x) + 1, Len(b)) \in Seq(All) /\ SubSeq(b, Len(x) + 1, Len(b)) \o w = y
      BY <2>3, BehindHead
    <2>5. y = SubSeq(M, (a + n) + 1, Len(M))
      BY <1>1, <2>1, <2>2, CutFurther
    <2> QED
      BY <2>2, <2>4, <2>5 DEF IsAt
  <1> QED
    BY <1>1, <1>2, <1>3, <1>4

\* The messages handed on and one more.
LEMMA OneMore ==
  ASSUME NEW s \in Scripted, NEW j \in DOMAIN s
  PROVE  Append(SubSeq(s, 1, j - 1), s[j]) = SubSeq(s, 1, (j + 1) - 1)
  <1>1. s \in Seq(Kinds) /\ Len(s) \in Nat /\ j \in 1..Len(s) /\ j \in Nat
    BY ScriptFacts, LenProperties
  <1>2. SubSeq(s, 1, j) = SubSeq(s, 1, j - 1) \o <<s[j]>>
    <2>1. 1 \in 1..Len(s) /\ j \in 1..Len(s)
      BY <1>1
    <2> QED
      BY <1>1, <2>1, SubSeqRecursiveSecond
  <1>3. s[j] \in Kinds /\ SubSeq(s, 1, j - 1) \in Seq(Kinds)
    <2>1. \A i \in 1..Len(s) : s[i] \in Kinds
      BY <1>1, ElementOfSeq
    <2>2. j - 1 \in Int /\ \A i \in 1..j - 1 : s[i] \in Kinds
      BY <1>1, <2>1
    <2> QED
      BY <1>1, <2>1, <2>2, SubSeqProperties
  <1>4. Append(SubSeq(s, 1, j - 1), s[j]) = SubSeq(s, 1, j - 1) \o <<s[j]>>
    BY <1>3, AppendIsConcat
  <1>5. (j + 1) - 1 = j
    BY <1>1
  <1> QED
    BY <1>2, <1>4, <1>5

\* The messages whose end it finds.
LEMMA FramedKinds ==
  ASSUME NEW kind \in Framed
  PROVE  /\ kind # "text" => kind \in {"pixelformat", "request", "key", "pointer"} /\ TYPE_LEN[kind] = Size[kind]
         /\ TYPE_LEN[kind] \in Nat /\ TYPE_LEN[kind] > 0 /\ kind # "odd" /\ kind # "encodings"
  BY Lengths DEF Framed

\* It is at the beginning of a message, waits for the rest of it, or takes it.
LEMMA AtOneTurn ==
  ASSUME NEW p \in Session, NEW o \in Observers, NEW w \in Seq(All), Listens(o, p, w), Framable(p), AtOne(o, p, w), ~ Rests(o)
  PROVE  AtOne(Turn(o), p, w)
  <1>1. PICK s \in Scripted : s = p.inputs
    BY DEF Session
  <1>2. PICK M \in Seq(All) : M = Messages(s) /\ Len(M) \in Nat
    BY MessagesFacts, OffsetEnds
  <1>3. s \in Seq(Kinds) /\ Len(s) \in Nat /\ DOMAIN s = 1..Len(s) /\ \A j \in DOMAIN s : s[j] \in Framed
    BY <1>1, ScriptFacts, LenProperties DEF Framable, Range
  <1>4. PICK j \in 1..Len(s) + 1 :
          /\ o.handled = SubSeq(s, 1, j - 1)
          /\ \/ o.handler = "protocol" /\ Holds(o, w, SubSeq(M, Offset(s, j) + 1, Len(M)))
             \/ /\ o.handler = "clientCutText" /\ j <= Len(s) /\ s[j] = "text"
                /\ Holds(o, w, SubSeq(M, (Offset(s, j) + 8) + 1, Len(M)))
    BY <1>1, <1>2 DEF AtOne
  <1>5. /\ Len(o.buffer) >= o.need /\ o.need \in Nat /\ ~ o.raised
        /\ Turn(o) = [Handle(o) EXCEPT !.raised = Raises(o)]
    BY TurnIs
  <1>6. PICK b \in Seq(All) : b = o.buffer /\ Len(b) \in Nat
    BY LenProperties DEF Observers
  <1>7. PICK r : r = Turn(o)
    OBVIOUS
  <1>8. PICK a \in Nat : a = Offset(s, j) /\ a <= Len(M)
    <2>1. Offset(s, j) \in Nat /\ Offset(s, j) <= Offset(s, Len(s) + 1) /\ Offset(s, Len(s) + 1) = Len(M)
      <3>1. /\ Offset(s, Len(s) + 1) = Len(Messages(s))
            /\ \A i, n : Offset(s, n) \in Nat /\ (i \in Int /\ n \in Int /\ i <= n => Offset(s, i) <= Offset(s, n))
        BY OffsetEnds
      <3>2. j \in Int /\ Len(s) + 1 \in Int /\ j <= Len(s) + 1
        BY <1>3
      <3> QED BY <3>1, <3>2, <1>2
    <2> QED
      BY <2>1
  <1>9. ASSUME NEW i \in 1..Len(s) + 1, r.handled = SubSeq(s, 1, i - 1), ~ r.raised,
               \/ r.handler = "protocol" /\ Holds(r, w, SubSeq(M, Offset(s, i) + 1, Len(M)))
               \/ /\ r.handler = "clientCutText" /\ i <= Len(s) /\ s[i] = "text"
                  /\ Holds(r, w, SubSeq(M, (Offset(s, i) + 8) + 1, Len(M)))
        PROVE  AtOne(Turn(o), p, w)
    BY <1>1, <1>2, <1>7, <1>9 DEF AtOne
  <1>11. CASE o.handler = "protocol"
    <2>0. IsAt(b, w, M, a)
      BY <1>4, <1>6, <1>8, <1>11 DEF Holds, IsAt
    <2>1. Len(b) > 0 /\ o.need > 0
      BY <1>5, <1>6, <1>11 DEF Listens, Expects
    <2>2. /\ b # <<>> /\ Head(b) = M[a + 1] /\ a < Len(M)
      BY <1>8, <2>0, <2>1, HeldBehind
    <2>3. j \in DOMAIN s /\ j + 1 \in 1..Len(s) + 1
      <3>1. j # Len(s) + 1
        BY <1>2, <1>8, <2>2, OffsetEnds
      <3> QED
        BY <1>3, <3>1
    <2>4. PICK kind \in Framed : kind = s[j]
      BY <1>3, <2>3
    <2>5. /\ Size[kind] \in Nat /\ Size[kind] > 0 /\ kind \in Kinds /\ Offset(s, j + 1) = a + Size[kind]
      BY <1>8, <2>3, <2>4, OffsetNext
    <2>6. Head(o.buffer).f = "input" /\ Head(o.buffer).v[1] = kind /\ Head(o.buffer).v[2] = 1
      <3>1. 1 \in 1..Size[s[j]]
        BY <2>4, <2>5
      <3>2. Messages(s)[Offset(s, j) + 1] = [f |-> "input", v |-> <<s[j], 1>>]
        BY <2>3, <3>1, MessagePlace
      <3> QED
        BY <1>2, <1>6, <1>8, <2>2, <2>4, <3>2
    <2>7. PICK n \in Nat : n = TYPE_LEN[kind] /\ n > 0 /\ (kind # "text" => n = Size[kind])
      BY <2>4, FramedKinds
    <2>8. Raises(o) = FALSE
      <3>1. kind # "odd" /\ kind # "encodings"
        BY FramedKinds
      <3> QED
        BY <2>6, <3>1 DEF Raises
    <2>9. Handle(o) = HandleProtocol(o)
      BY <1>11 DEF Handle
    <2>10. CASE Len(b) < n
      <3>1. Handle(o) = Wait(o, "protocol", n)
        BY <1>6, <2>6, <2>7, <2>9, <2>10 DEF HandleProtocol
      <3>2. r = [o EXCEPT !.handler = "protocol", !.need = n, !.raised = FALSE]
        BY <1>5, <1>7, <2>8, <3>1 DEF Wait, Observers
      <3>3. r.handler = "protocol" /\ r.handled = o.handled /\ ~ r.raised /\ r.buffer = b
        BY <1>6, <3>2 DEF Observers
      <3>4. Holds(r, w, SubSeq(M, Offset(s, j) + 1, Len(M)))
        BY <1>8, <2>0, <3>3 DEF Holds, IsAt
      <3> QED
        BY <1>4, <1>9, <3>3, <3>4
    <2>11. CASE ~ (Len(b) < n)
      <3>8. n > 0 /\ n <= Len(b)
        BY <1>6, <2>7, <2>11
      <3>0. PICK t \in Seq(All) : t = SubSeq(b, n + 1, Len(b)) /\ IsAt(t, w, M, a + n)
        BY <1>8, <2>0, <3>8, HeldBehind
      <3>1. Took(o, n) = [o EXCEPT !.buffer = t]
        BY <1>6, <3>0 DEF Took, Left
      <3>2. CASE kind = "text"
        <4>1. Handle(o) = Wait(Took(o, n), "clientCutText", Size[kind] - n)
          BY <1>6, <2>6, <2>7, <2>9, <2>11, <3>2 DEF HandleProtocol
        <4>2. r = [o EXCEPT !.buffer = t, !.handler = "clientCutText", !.need = Size[kind] - n, !.raised = FALSE]
          BY <1>5, <1>7, <2>8, <3>1, <4>1 DEF Wait, Observers
        <4>3. r.handler = "clientCutText" /\ r.handled = o.handled /\ ~ r.raised /\ r.buffer = t
          BY <4>2 DEF Observers
        <4>4. n = 8
          BY <2>7, <3>2, Lengths
        <4>5. Holds(r, w, SubSeq(M, (Offset(s, j) + 8) + 1, Len(M)))
          BY <1>8, <3>0, <4>3, <4>4 DEF Holds, IsAt
        <4>6. j <= Len(s) /\ s[j] = "text"
          BY <1>3, <2>3, <2>4, <3>2
        <4> QED
          BY <1>4, <1>9, <4>3, <4>5, <4>6
      <3>3. CASE kind # "text"
        <4>0. kind \in {"pixelformat", "request", "key", "pointer"}
          BY <3>3, FramedKinds
        <4>1. Handle(o) = HandedOn(Took(o, n), kind)
          BY <1>6, <2>6, <2>7, <2>9, <2>11, <4>0 DEF HandleProtocol
        <4>2. PICK l : l = Append(o.handled, kind)
          OBVIOUS
        <4>3. r = [o EXCEPT !.buffer = t, !.handled = l, !.raised = FALSE]
          BY <1>5, <1>7, <2>8, <3>1, <4>1, <4>2 DEF HandedOn, Observers
        <4>4. r.handler = "protocol" /\ r.handled = l /\ ~ r.raised /\ r.buffer = t
          BY <1>11, <4>3 DEF Observers
        <4>5. l = SubSeq(s, 1, (j + 1) - 1)
          BY <1>4, <2>3, <2>4, <4>2, OneMore
        <4>6. Holds(r, w, SubSeq(M, Offset(s, j + 1) + 1, Len(M)))
          BY <2>5, <2>7, <3>0, <3>3, <4>4 DEF Holds, IsAt
        <4> QED
          BY <1>9, <2>3, <4>4, <4>5, <4>6
      <3> QED
        BY <3>2, <3>3
    <2> QED
      BY <2>10, <2>11
  <1>12. CASE o.handler = "clientCutText"
    <2>0. j <= Len(s) /\ s[j] = "text" /\ IsAt(b, w, M, a + 8)
      BY <1>4, <1>6, <1>8, <1>12 DEF Holds, IsAt
    <2>1. j <= Len(s) /\ s[j] = "text" /\ o.need = 3
      BY <1>12, <2>0 DEF Listens, Expects
    <2>2. j \in DOMAIN s /\ j + 1 \in 1..Len(s) + 1
      BY <1>3, <2>1
    <2>3. Offset(s, j + 1) = a + 11 /\ a + 11 <= Len(M)
      <3>1. Offset(s, j + 1) = a + 11
        <4>1. Offset(s, j + 1) = Offset(s, j) + Size[s[j]]
          BY <2>2, OffsetNext
        <4>2. Size["text"] = 11
          BY Lengths
        <4> QED
          BY <1>8, <2>1, <4>1, <4>2
      <3>2. j + 1 \in Int /\ Len(s) + 1 \in Int /\ j + 1 <= Len(s) + 1
        BY <1>3, <2>2
      <3>3. Offset(s, j + 1) <= Offset(s, Len(s) + 1)
        BY <3>2, OffsetEnds
      <3> QED
        BY <1>2, <3>1, <3>3, OffsetEnds
    <2>4. PICK c \in Nat : c = a + 8 /\ c <= Len(M) /\ c + 3 = a + 11
      BY <1>2, <2>3
    <2>5. Len(b) >= 3
      BY <1>5, <1>6, <2>1
    <2>6. IsAt(b, w, M, c) /\ 3 \in Nat /\ 3 > 0 /\ 3 <= Len(b)
      BY <1>6, <2>0, <2>4, <2>5
    <2>7. PICK t \in Seq(All) : t = SubSeq(b, 3 + 1, Len(b)) /\ IsAt(t, w, M, c + 3)
      BY <2>4, <2>6, HeldBehind
    <2>8. Took(o, 3) = [o EXCEPT !.buffer = t]
      BY <1>6, <2>7 DEF Took, Left
    <2>9. Handle(o) = HandedOn(Wait(Took(o, 3), "protocol", 1), "text")
      <3>1. Size["text"] - TYPE_LEN["text"] = 3
        BY Lengths
      <3>2. Handle(o) = HandleClientCutText(o)
        BY <1>12 DEF Handle
      <3> QED
        BY <3>1, <3>2 DEF HandleClientCutText
    <2>10. Raises(o) = FALSE
      BY <1>12 DEF Raises
    <2>11. PICK l : l = Append(o.handled, "text")
      OBVIOUS
    <2>12. r = [o EXCEPT !.buffer = t, !.handler = "protocol", !.need = 1, !.handled = l, !.raised = FALSE]
      BY <1>5, <1>7, <2>8, <2>9, <2>10, <2>11 DEF Wait, HandedOn, Observers
    <2>13. r.handler = "protocol" /\ r.handled = l /\ ~ r.raised /\ r.buffer = t
      BY <2>12 DEF Observers
    <2>14. l = SubSeq(s, 1, (j + 1) - 1)
      BY <1>4, <2>1, <2>2, <2>11, OneMore
    <2>15. Holds(r, w, SubSeq(M, Offset(s, j + 1) + 1, Len(M)))
      BY <2>3, <2>4, <2>7, <2>13 DEF Holds, IsAt
    <2> QED
      BY <1>9, <2>2, <2>13, <2>14, <2>15
  <1> QED
    BY <1>4, <1>11, <1>12

\* What the observer waits for is kept by every turn.
LEMMA TurnKeeps ==
  ASSUME NEW p \in Session, Readable(p), NEW o \in Observers, Told(o, p), NEW w \in Seq(All),
         Hears(o, p, w), ~ Rests(o)
  PROVE  Forth(o, Turn(o)) /\ Told(Turn(o), p) /\ Hears(Turn(o), p, w)
  <1>1. Forth(o, Turn(o)) /\ Hears(Turn(o), p, w)
    <2>1. CASE Greeting(o, p, w) /\ o.handled = <<>>
      BY <2>1, GreetingTurn
    <2>2. CASE Choosing(o, p, w) /\ o.handled = <<>>
      BY <2>2, ChoosingTurn
    <2>3. CASE Proving(o, p, w) /\ o.handled = <<>>
      BY <2>3, ProvingTurn
    <2>4. CASE Opens(o, p, w) /\ o.handled = <<>>
      BY <2>4, OpeningTurn
    <2>5. CASE Listens(o, p, w) /\ (Framable(p) => AtOne(o, p, w))
      <3>1. Forth(o, Turn(o)) /\ Listens(Turn(o), p, w)
        BY <2>5, ListensTurn
      <3>2. Framable(p) => AtOne(Turn(o), p, w)
        BY <2>5, AtOneTurn
      <3> QED
        BY <3>1, <3>2 DEF Hears
    <2> QED
      BY <2>1, <2>2, <2>3, <2>4, <2>5 DEF Hears
  <1>2. Told(Turn(o), p)
    BY <1>1 DEF Forth, Told
  <1> QED
    BY <1>1, <1>2

\* What the turns on a chunk make of an observer.
Comes(o, r, p, w) == r \in Observers /\ r.required = o.required /\ r.started = o.started /\ Hears(r, p, w)

\* An observer that has nothing left waits.
LEMMA NothingLeft ==
  ASSUME NEW p, NEW o \in Observers, NEW w, Hears(o, p, w), Len(o.buffer) <= 0
  PROVE  Rests(o)
<1>1. Len(o.buffer) \in Nat /\ o.need \in Nat
  BY DEF Observers
<1>2. CASE o.handler = "astray"
  BY <1>2 DEF Rests
<1>3. CASE o.handler # "astray"
  <2>1. o.need > 0
    <3>1. CASE Greeting(o, p, w) \/ Choosing(o, p, w) \/ Proving(o, p, w) \/ Opens(o, p, w)
      BY <3>1 DEF Greeting, Choosing, Proving, Opens
    <3>2. CASE Listens(o, p, w)
      BY <3>2, <1>3, <1>1 DEF Listens, Expects, Beyond
    <3> QED BY <3>1, <3>2 DEF Hears
  <2> QED BY <2>1, <1>1 DEF Rests
<1> QED BY <1>2, <1>3

\* The turns end where the observer waits, and keep what it waits for.
LEMMA HeardKeeps ==
  ASSUME NEW p \in Session, Readable(p), NEW o \in Observers, Told(o, p), NEW w \in Seq(All), Hears(o, p, w)
  PROVE  Comes(o, Heard(o), p, w) /\ Rests(Heard(o))
<1> DEFINE m == Len(o.buffer)
<1>1. m \in Nat
  BY DEF Observers
<1>2. PICK g : TurnsOf(o, m, g) /\ Heard(o) = g[m]
  BY <1>1, HeardTurns
<1>3. g[0] = o /\ \A n \in 0..m : n > 0 => g[n] = Turn(g[n - 1])
  <2>1. PICK k \in Nat : k = m
    BY <1>1
  <2>2. g = [n \in 0..k |-> IF n = 0 THEN o ELSE Turn(g[n - 1])]
    BY <2>1, <1>2 DEF TurnsOf
  <2>3. \A n \in 0..k : g[n] = IF n = 0 THEN o ELSE Turn(g[n - 1])
    BY <2>2, Zenon
  <2>4. 0 \in 0..k /\ g[0] = IF 0 = 0 THEN o ELSE Turn(g[0 - 1])
    BY <2>1, <2>3
  <2>5. \A n \in 0..k : n > 0 => g[n] = Turn(g[n - 1])
    BY <2>3
  <2> QED BY <2>1, <2>4, <2>5
<1> DEFINE S == {n \in Nat : n <= m => Comes(o, g[n], p, w) /\ (Rests(g[n]) \/ Len(g[n].buffer) <= m - n)}
<1>4. 0 \in S
  BY <1>1, <1>3 DEF Comes
<1>5. ASSUME NEW n \in Nat, n \in S
      PROVE  n + 1 \in S
  <2>1. SUFFICES ASSUME n + 1 <= m
                 PROVE  Comes(o, g[n + 1], p, w) /\ (Rests(g[n + 1]) \/ Len(g[n + 1].buffer) <= m - (n + 1))
    BY DEF S
  <2>2. n <= m /\ n + 1 \in 0..m /\ (n + 1) - 1 = n /\ n + 1 > 0
    BY <2>1, <1>1
  <2>3. Comes(o, g[n], p, w) /\ (Rests(g[n]) \/ Len(g[n].buffer) <= m - n)
    BY <1>5, <2>2 DEF S
  <2>4. g[n + 1] = Turn(g[n])
    BY <1>3, <2>2
  <2>5. PICK x : x = g[n]
    OBVIOUS
  <2>6. PICK r : r = Turn(x)
    OBVIOUS
  <2>7. x \in Observers /\ Told(x, p) /\ Hears(x, p, w) /\ x.required = o.required /\ x.started = o.started
    BY <2>3, <2>5 DEF Comes, Told
  <2>8. CASE Rests(x)
    <3>1. r = x
      BY <2>8, <2>6 DEF Turn, Rests
    <3> QED BY <3>1, <2>8, <2>3, <2>4, <2>5, <2>6
  <2>9. CASE ~ Rests(x)
    <3>1. Forth(x, r) /\ Hears(r, p, w)
      BY <2>9, <2>7, <2>6, TurnKeeps
    <3>2. r \in Observers /\ r.required = o.required /\ r.started = o.started
      BY <3>1, <2>7 DEF Forth
    <3>3. Rests(r) \/ Len(r.buffer) <= m - (n + 1)
      <4>1. CASE Rests(r)
        BY <4>1
      <4>2. CASE Len(r.buffer) < Len(x.buffer)
        <5>1. Len(r.buffer) \in Nat /\ Len(x.buffer) \in Nat
          BY <3>2, <2>7 DEF Observers
        <5>2. Len(x.buffer) <= m - n
          BY <2>3, <2>5, <2>9
        <5> QED BY <4>2, <5>1, <5>2, <1>1
      <4> QED BY <4>1, <4>2, <3>1 DEF Forth
    <3> QED BY <3>1, <3>2, <3>3, <2>4, <2>5, <2>6 DEF Comes
  <2> QED BY <2>8, <2>9
<1>6. Nat \subseteq S
  <2> HIDE DEF S
  <2> QED BY <1>4, <1>5, Induction
<1>7. Comes(o, g[m], p, w) /\ (Rests(g[m]) \/ Len(g[m].buffer) <= m - m)
  BY <1>6, <1>1
<1>8. PICK r : r = Heard(o)
  OBVIOUS
<1>9. Comes(o, r, p, w) /\ (Rests(r) \/ Len(r.buffer) <= 0)
  BY <1>7, <1>8, <1>2, <1>1
<1>10. Rests(r)
  BY <1>9, NothingLeft DEF Comes
<1> QED BY <1>8, <1>9, <1>10

\* A chunk of the client's bytes: what was to come of them is held back.
LEMMA HearsMore ==
  ASSUME NEW p \in Session, NEW o \in Observers, NEW a \in Seq(All), NEW w \in Seq(All), Hears(o, p, a \o w),
         NEW x, x = [o EXCEPT !.buffer = @ \o a, !.raised = FALSE]
  PROVE  x \in Observers /\ x.required = o.required /\ x.started = o.started /\ Hears(x, p, w)
<1>1. PICK b : b = o.buffer
  OBVIOUS
<1>2. PICK t : t = b \o a
  OBVIOUS
<1>3. b \in Seq(All) /\ t \in Seq(All) /\ Len(a) \in Nat /\ Len(w) \in Nat /\ Len(a \o w) = Len(a) + Len(w)
  BY <1>1, <1>2 DEF Observers
<1>4. x.handler = o.handler /\ x.need = o.need /\ x.required = o.required /\ x.handled = o.handled
      /\ x.started = o.started /\ x.raised = FALSE /\ x.buffer = t
  BY <1>1, <1>2 DEF Observers
<1>5. x \in Observers
  BY <1>3, <1>1, <1>2 DEF Observers
<1>6. (b \o a) \o w = b \o (a \o w)
  <2>1. b \in Seq(All) /\ a \in Seq(All) /\ w \in Seq(All)
    BY <1>3
  <2> QED BY <2>1, RegroupedBytes, Zenon
<1>7. \A s : Holds(o, a \o w, s) => Holds(x, w, s)
  BY <1>6, <1>4, <1>1, <1>2 DEF Holds
<1>8. PICK z : z = a \o w
  OBVIOUS
<1>9. \A s : Holds(o, z, s) => Holds(x, w, s)
  BY <1>7, <1>8
<1>10. Hears(o, p, z)
  BY <1>8
<1>11. Hears(x, p, w)
  <2>1. CASE (Greeting(o, p, z) \/ Choosing(o, p, z) \/ Proving(o, p, z) \/ Opens(o, p, z)) /\ o.handled = <<>> /\ ~ o.raised
    <3>1. (Greeting(o, p, z) => Greeting(x, p, w)) /\ (Choosing(o, p, z) => Choosing(x, p, w))
      BY <1>9, <1>4 DEF Greeting, Choosing
    <3>2. (Proving(o, p, z) => Proving(x, p, w)) /\ (Opens(o, p, z) => Opens(x, p, w))
      BY <1>9, <1>4 DEF Proving, Opens
    <3> QED BY <2>1, <3>1, <3>2, <1>4 DEF Hears
  <2>2. CASE Listens(o, p, z) /\ (Framable(p) => AtOne(o, p, z))
    <3>1. Spoken(a) /\ Spoken(w) /\ Spoken(b)
      BY <2>2, <1>8, <1>1, SpokenParts DEF Listens
    <3>2. Spoken(t)
      BY <3>1, <1>2, <1>3, SpokenParts
    <3>3. Len(w) <= Len(Messages(p.inputs))
      <4>1. Len(Messages(p.inputs)) \in Nat
        BY OffsetEnds DEF Session
      <4> QED BY <4>1, <2>2, <1>8, <1>3 DEF Listens
    <3>4. Listens(x, p, w)
      BY <2>2, <3>1, <3>2, <3>3, <1>4 DEF Listens
    <3>5. AtOne(o, p, z) => AtOne(x, p, w)
      BY <1>9, <1>4 DEF AtOne
    <3> QED BY <3>4, <3>5, <2>2 DEF Hears
  <2> QED BY <2>1, <2>2, <1>10 DEF Hears
<1> QED BY <1>4, <1>5, <1>11

\* dataReceived of the client's bytes.
LEMMA HearClientKeeps ==
  ASSUME NEW p \in Session, Readable(p), NEW o \in Observers, Told(o, p), NEW a \in Seq(All), NEW w \in Seq(All),
         Hears(o, p, a \o w)
  PROVE  Comes(o, HearClient(o, a), p, w) /\ Rests(HearClient(o, a))
<1>1. PICK x : x = [o EXCEPT !.buffer = @ \o a, !.raised = FALSE]
  OBVIOUS
<1>2. x \in Observers /\ x.required = o.required /\ x.started = o.started /\ Hears(x, p, w)
  <2>1. \A z : z = [o EXCEPT !.buffer = @ \o a, !.raised = FALSE] =>
            z \in Observers /\ z.required = o.required /\ z.started = o.started /\ Hears(z, p, w)
    BY HearsMore
  <2> QED BY <2>1, <1>1, Zenon
<1>3. PICK y : y = Heard(x)
  OBVIOUS
<1>4. Comes(x, y, p, w) /\ Rests(y)
  BY <1>2, <1>3, HeardKeeps DEF Told
<1>5. Comes(o, y, p, w)
  BY <1>4, <1>2 DEF Comes
<1>6. HearClient(o, a) = IF y.handler = "astray" THEN [y EXCEPT !.buffer = <<>>] ELSE y
  BY <1>1, <1>3 DEF HearClient
<1>7. CASE y.handler # "astray"
  BY <1>7, <1>6, <1>5, <1>4
<1>8. CASE y.handler = "astray"
  <2>1. PICK z : z = [y EXCEPT !.buffer = <<>>]
    OBVIOUS
  <2>2. y \in Observers /\ y.required = o.required /\ y.started = o.started /\ Hears(y, p, w)
    BY <1>5 DEF Comes
  <2>3. z.handler = y.handler /\ z.need = y.need /\ z.required = y.required /\ z.started = y.started /\ z.buffer = <<>>
    BY <2>1, <2>2 DEF Observers
  <2>4. z \in Observers
    <3>1. <<>> \in Seq(All)
      OBVIOUS
    <3> QED BY <3>1, <2>1, <2>2 DEF Observers
  <2>5. Listens(y, p, w) /\ ~ Framable(p)
    BY <2>2, <1>8 DEF Hears, Greeting, Choosing, Proving, Opens, AtOne
  <2>6. Spoken(<<>>)
    BY DEF Spoken
  <2>7. Listens(z, p, w)
    BY <2>5, <2>6, <2>3 DEF Listens
  <2>8. Comes(o, z, p, w) /\ Rests(z)
    BY <2>7, <2>5, <2>4, <2>3, <2>2, <1>8 DEF Comes, Hears, Rests
  <2> QED BY <2>8, <1>6, <1>8, <2>1
<1> QED BY <1>7, <1>8

-----------------------------------------------------------------------------
(* When the decoder is started *)

\* Fields from before ClientInit, and those with something after them.
Early(s)      == s \in Seq(All) /\ \A i \in DOMAIN s : Rank[s[i].f] < 18
Leading(s, z) == \E a : Early(a) /\ z \in Seq(All) /\ s = a \o z

\* One field more in front.
LEMMA EarlyBefore ==
  ASSUME NEW d, NEW f \in DOMAIN Rank, Rank[f] < 18, NEW n \in Nat, NEW v \in Nat, NEW s, NEW z, Leading(s, z)
  PROVE  Leading(Says(d, f, n, v) \o s, z)
<1>1. PICK a : Early(a) /\ z \in Seq(All) /\ s = a \o z
  BY DEF Leading
<1>2. PICK b : b = Says(d, f, n, v)
  OBVIOUS
<1>3. Early(b)
  <2>1. v \in Vals
    BY DEF Vals
  <2>2. Bytes(f, n, v) \in Seq(All) /\ Len(Bytes(f, n, v)) = n /\ \A i \in 1..n : Bytes(f, n, v)[i] = [f |-> f, v |-> v]
    BY <2>1, BytesFacts
  <2>3. DOMAIN Bytes(f, n, v) = 1..n
    BY <2>2, LenProperties
  <2>4. \A i \in 1..n : Bytes(f, n, v)[i].f = f
    BY <2>2
  <2>5. Early(Bytes(f, n, v))
    BY <2>2, <2>3, <2>4 DEF Early
  <2>6. Early(<<>>)
    BY EmptySeq DEF Early
  <2> QED BY <1>2, <2>5, <2>6 DEF Says
<1>4. PICK c : c = b \o a
  OBVIOUS
<1>5. a \in Seq(All) /\ b \in Seq(All)
  BY <1>1, <1>3 DEF Early
<1>6. b \o (a \o z) = c \o z
  <2>1. (b \o a) \o z = b \o (a \o z)
    BY <1>1, <1>5, RegroupedBytes
  <2> QED BY <2>1, <1>4
<1>7. Early(c)
  <2>1. /\ c \in Seq(All) /\ Len(c) = Len(b) + Len(a)
        /\ \A i \in 1..Len(b) + Len(a) : c[i] = IF i <= Len(b) THEN b[i] ELSE a[i - Len(b)]
    BY <1>4, <1>5, ConcatProperties
  <2>2. Len(a) \in Nat /\ Len(b) \in Nat /\ DOMAIN a = 1..Len(a) /\ DOMAIN b = 1..Len(b) /\ DOMAIN c = 1..Len(c)
    BY <1>5, <2>1, LenProperties
  <2>3. ASSUME NEW i \in DOMAIN c PROVE Rank[c[i].f] < 18
    <3>1. i \in 1..Len(b) + Len(a)
      BY <2>1, <2>2
    <3>2. CASE i <= Len(b)
      <4>1. i \in DOMAIN b /\ c[i] = b[i]
        BY <2>1, <2>2, <3>1, <3>2
      <4> QED BY <4>1, <1>3 DEF Early
    <3>3. CASE ~ (i <= Len(b))
      <4>1. i - Len(b) \in DOMAIN a
        BY <2>2, <3>1, <3>3
      <4>2. c[i] = a[i - Len(b)]
        BY <2>1, <3>1, <3>3
      <4> QED BY <4>1, <4>2, <1>1 DEF Early
    <3> QED BY <3>2, <3>3
  <2> QED BY <2>1, <2>3 DEF Early
<1>8. Says(d, f, n, v) \o s = c \o z
  BY <1>6, <1>1, <1>2
<1> QED BY <1>1, <1>7, <1>8 DEF Leading

\* Each of these fields.
LEMMA EarlyFields ==
  ASSUME NEW d, NEW n \in Nat, NEW v \in Nat, NEW s, NEW z, Leading(s, z)
  PROVE  /\ Leading(Says(d, "version", n, v) \o s, z) /\ Leading(Says(d, "reply", n, v) \o s, z)
         /\ Leading(Says(d, "count", n, v) \o s, z) /\ Leading(Says(d, "types", n, v) \o s, z)
         /\ Leading(Says(d, "choice", n, v) \o s, z) /\ Leading(Says(d, "auth", n, v) \o s, z)
         /\ Leading(Says(d, "challenge", n, v) \o s, z) /\ Leading(Says(d, "response", n, v) \o s, z)
         /\ Leading(Says(d, "result", n, v) \o s, z) /\ Leading(Says(d, "reason", n, v) \o s, z)
<1>1. \A f \in {"version", "reply", "count", "types", "choice", "auth", "challenge", "response", "result", "reason"} :
         f \in DOMAIN Rank /\ Rank[f] < 18
  BY RankFacts, RankValues
<1>2. \A f \in {"version", "reply", "count", "types", "choice", "auth", "challenge", "response", "result", "reason"} :
         Leading(Says(d, f, n, v) \o s, z)
  BY <1>1, EarlyBefore
<1> QED BY <1>2

\* A session is its handshake up to the security result and then, unless it was
\* refused, what is opened by ClientInit.
LEMMA StreamOpens ==
  ASSUME NEW p \in Session, Readable(p), NEW d \in Directions, NEW z, z = IF Refused(p) THEN <<>> ELSE Opening(p, d)
  PROVE  Leading(Streams(p)[d], z)
<1>1. /\ p.reply \in Nat /\ p.types \in Nat /\ p.sec \in Nat /\ 0 \in Nat /\ 1 \in Nat /\ 2 \in Nat /\ 4 \in Nat
      /\ 12 \in Nat /\ 16 \in Nat /\ 3008 \in Nat
  BY SessionFacts
<1>2. p.sec # INVALID /\ p.sec \in {NONE, VNC_AUTHENTICATION} /\ NONE # VNC_AUTHENTICATION
      /\ NONE # DIFFIE_HELLMAN /\ VNC_AUTHENTICATION # DIFFIE_HELLMAN
  BY DEF Readable, NONE, VNC_AUTHENTICATION, INVALID, DIFFIE_HELLMAN
<1>3. z \in Seq(All)
  BY DueOrdered, EmptySeq
<1>4. Leading(z, z)
  <2>1. Early(<<>>)
    BY EmptySeq DEF Early
  <2>2. <<>> \o z = z
    BY <1>3, AllOf
  <2> QED BY <2>1, <2>2, <1>3, Zenon DEF Leading
<1>5. Leading(Verdict(p, d), z)
  <2>1. CASE ~ HasResult(p)
    <3>1. Verdict(p, d) = z
      BY <2>1, <1>2 DEF Verdict, Refused
    <3> QED BY <3>1, <1>4
  <2>2. CASE HasResult(p) /\ p.ok
    <3>1. Verdict(p, d) = Says(d, "result", 4, 0) \o z
      BY <2>2, <1>2 DEF Verdict, Refused
    <3> QED BY <3>1, <1>1, <1>4, EarlyFields
  <2>3. CASE HasResult(p) /\ ~ p.ok
    <3>1. z = <<>>
      BY <2>3 DEF Refused
    <3>2. PICK r : r = IF Version(p) >= 3008 THEN Reason(d) ELSE <<>>
      OBVIOUS
    <3>3. Leading(r, z)
      <4>1. Leading(Reason(d) \o <<>>, z)
        <5>1. Leading(Says(d, "reason", 2, 0) \o z, z)
          BY <1>1, <1>4, EarlyFields
        <5> QED BY <5>1, <3>1 DEF Reason
      <4>2. Reason(d) \o <<>> = Reason(d)
        <5>1. Reason(d) \in Seq(All)
          BY ReasonOrdered DEF OrderedFrom
        <5> QED BY <5>1, AllOf
      <4>3. Leading(Reason(d), z)
        BY <4>1, <4>2
      <4> QED BY <4>3, <3>2, <1>4, <3>1
    <3>4. Verdict(p, d) = Says(d, "result", 4, 1) \o r
      BY <2>3, <3>2 DEF Verdict
    <3> QED BY <3>3, <3>4, <1>1, EarlyFields
  <2> QED BY <2>1, <2>2, <2>3
<1>6. Leading(Proof(p, d), z)
  <2>1. CASE p.sec = NONE
    <3>1. Proof(p, d) = Verdict(p, d)
      BY <2>1, <1>2 DEF Proof
    <3> QED BY <3>1, <1>5
  <2>2. CASE p.sec = VNC_AUTHENTICATION
    <3>1. PICK x : x = Says(d, "response", 16, 0) \o Verdict(p, d)
      OBVIOUS
    <3>2. Leading(x, z)
      BY <3>1, <1>1, <1>5, EarlyFields
    <3>3. Proof(p, d) = Says(d, "challenge", 16, 0) \o x
      <4>1. Proof(p, d) = Says(d, "challenge", 16, 0) \o (Says(d, "response", 16, 0) \o Verdict(p, d))
        BY <2>2, <1>2 DEF Proof
      <4> QED BY <4>1, <3>1
    <3>4. Leading(Says(d, "challenge", 16, 0) \o x, z)
      BY <3>2, <1>1, EarlyFields
    <3> QED BY <3>3, <3>4, Zenon
  <2> QED BY <2>1, <2>2, <1>2
<1>7. Leading(Offer(p, d), z)
  <2>1. CASE Version(p) < 3007
    <3>1. Offer(p, d) = Says(d, "auth", 4, p.sec) \o Proof(p, d)
      BY <2>1, <1>2 DEF Offer
    <3> QED BY <3>1, <1>1, <1>6, EarlyFields
  <2>2. CASE ~ (Version(p) < 3007)
    <3>1. PICK x : x = Says(d, "choice", 1, p.sec) \o Proof(p, d)
      OBVIOUS
    <3>2. PICK y : y = Says(d, "types", p.types, p.sec) \o x
      OBVIOUS
    <3>3. Leading(x, z)
      BY <3>1, <1>1, <1>6, EarlyFields
    <3>4. Leading(y, z)
      BY <3>2, <3>3, <1>1, EarlyFields
    <3>5. Offer(p, d) = Says(d, "count", 1, p.types) \o y
      <4>1. Offer(p, d) = Says(d, "count", 1, p.types) \o
                          (Says(d, "types", p.types, p.sec) \o (Says(d, "choice", 1, p.sec) \o Proof(p, d)))
        BY <2>2, <1>2 DEF Offer
      <4> QED BY <4>1, <3>1, <3>2
    <3> QED BY <3>5, <3>4, <1>1, EarlyFields
  <2> QED BY <2>1, <2>2
<1>8. PICK x : x = Says(d, "reply", 12, p.reply) \o Offer(p, d)
  OBVIOUS
<1>9. Leading(x, z)
  BY <1>8, <1>7, <1>1, EarlyFields
<1>10. Streams(p)[d] = Says(d, "version", 12, 3008) \o x
  <2>1. Streams(p)[d] = Says(d, "version", 12, 3008) \o (Says(d, "reply", 12, p.reply) \o Offer(p, d))
    BY DEF Streams
  <2> QED BY <2>1, <1>8
<1>11. Leading(Says(d, "version", 12, 3008) \o x, z)
  BY <1>9, <1>1, EarlyFields
<1> DEFINE y == Says(d, "version", 12, 3008) \o x
<1>12. Leading(y, z) /\ Streams(p)[d] = y
  BY <1>10, <1>11
<1> HIDE DEF y
<1> QED BY <1>12

\* What is opened: ClientInit and the messages of the client; ServerInit, the name
\* and the screen.
LEMMA Opened ==
  ASSUME NEW p \in Session, Readable(p)
  PROVE  /\ Len(Messages(p.inputs)) \in Nat /\ Opening(p, "c2s") \in Seq(All) /\ Opening(p, "s2c") \in Seq(All)
         /\ Len(Opening(p, "c2s")) = Len(Messages(p.inputs)) + 1 /\ Len(Opening(p, "s2c")) = 28
         /\ Opening(p, "c2s")[1].f = "init" /\ Opening(p, "s2c")[1].f = "serverinit"
         /\ \A i \in 2..Len(Opening(p, "c2s")) : Opening(p, "c2s")[i].f = "input"
         /\ \A i \in 1..28 : Opening(p, "s2c")[i].f \in {"serverinit", "name", "screen"}
<1>1. /\ Len(Messages(p.inputs)) \in Nat /\ Messages(p.inputs) \in Seq(All)
      /\ \A i \in DOMAIN Messages(p.inputs) : Messages(p.inputs)[i].f = "input"
  BY OffsetEnds, MessagesFacts DEF Session
<1>2. \A f \in DOMAIN Rank : \A n \in {1, 2, 24} : \A v \in {0, 1, 2} :
        /\ Bytes(f, n, v) \in Seq(All) /\ Len(Bytes(f, n, v)) = n
        /\ \A i \in 1..n : Bytes(f, n, v)[i].f = f
  <2>1. ASSUME NEW f \in DOMAIN Rank, NEW n \in {1, 2, 24}, NEW v \in {0, 1, 2}
        PROVE  /\ Bytes(f, n, v) \in Seq(All) /\ Len(Bytes(f, n, v)) = n
               /\ \A i \in 1..n : Bytes(f, n, v)[i].f = f
    <3>1. v \in Vals /\ n \in Nat
      BY DEF Vals
    <3>2. /\ Bytes(f, n, v) \in Seq(All) /\ Len(Bytes(f, n, v)) = n
          /\ \A i \in 1..n : Bytes(f, n, v)[i] = [f |-> f, v |-> v]
      BY <3>1, BytesFacts
    <3> QED BY <3>2
  <2> QED BY <2>1
<1>3. PICK a : a = Bytes("init", 1, 1)
  OBVIOUS
<1>4. a \in Seq(All) /\ Len(a) = 1 /\ a[1].f = "init"
  <2>1. "init" \in DOMAIN Rank
    BY RankFacts
  <2>2. Bytes("init", 1, 1) \in Seq(All) /\ Len(Bytes("init", 1, 1)) = 1 /\ \A i \in 1..1 : Bytes("init", 1, 1)[i].f = "init"
    BY <1>2, <2>1
  <2> QED BY <2>2, <1>3
<1>5. Opening(p, "c2s") = a \o Messages(p.inputs)
  <2>1. Says("c2s", "init", 1, 1) = a /\ Says("c2s", "serverinit", 24, 2) = <<>> /\ Says("c2s", "name", 2, 0) = <<>>
    BY <1>3 DEF Says, From, Tap
  <2>2. Screen(p, "c2s") = Messages(p.inputs)
    BY DEF Screen
  <2>3. <<>> \o Messages(p.inputs) = Messages(p.inputs)
    BY <1>1, AllOf
  <2> QED BY <2>1, <2>2, <2>3 DEF Opening
<1>6. PICK M : M = Messages(p.inputs)
  OBVIOUS
<1>7. PICK c : c = a \o M
  OBVIOUS
<1>8. /\ c \in Seq(All) /\ Len(c) = Len(M) + 1 /\ c[1].f = "init" /\ \A i \in 2..Len(c) : c[i].f = "input"
  <2>1. M \in Seq(All) /\ Len(M) \in Nat /\ \A i \in 1..Len(M) : M[i].f = "input"
    BY <1>1, <1>6
  <2>2. /\ c \in Seq(All) /\ Len(c) = 1 + Len(M)
        /\ \A i \in 1..1 + Len(M) : c[i] = IF i <= 1 THEN a[i] ELSE M[i - 1]
    <3>1. /\ a \o M \in Seq(All) /\ Len(a \o M) = Len(a) + Len(M)
          /\ \A i \in 1..Len(a) + Len(M) : (a \o M)[i] = IF i <= Len(a) THEN a[i] ELSE M[i - Len(a)]
      BY <1>4, <2>1, ConcatProperties
    <3> QED BY <3>1, <1>4, <1>7
  <2>3. c[1] = a[1]
    BY <2>1, <2>2
  <2>4. \A i \in 2..Len(c) : i - 1 \in 1..Len(M) /\ c[i] = M[i - 1]
    BY <2>1, <2>2
  <2> QED BY <2>1, <2>2, <2>3, <2>4, <1>4
<1>9. PICK b, g, h : b = Bytes("serverinit", 24, 2) /\ g = Bytes("name", 2, 0) /\ h = Bytes("screen", 2, 0)
  OBVIOUS
<1>10. /\ b \in Seq(All) /\ Len(b) = 24 /\ \A i \in 1..24 : b[i].f = "serverinit"
       /\ g \in Seq(All) /\ Len(g) = 2 /\ \A i \in 1..2 : g[i].f = "name"
       /\ h \in Seq(All) /\ Len(h) = 2 /\ \A i \in 1..2 : h[i].f = "screen"
  <2>1. "serverinit" \in DOMAIN Rank /\ "name" \in DOMAIN Rank /\ "screen" \in DOMAIN Rank
    BY RankFacts
  <2>2. /\ Bytes("serverinit", 24, 2) \in Seq(All) /\ Len(Bytes("serverinit", 24, 2)) = 24
        /\ \A i \in 1..24 : Bytes("serverinit", 24, 2)[i].f = "serverinit"
    BY <1>2, <2>1
  <2>3. /\ Bytes("name", 2, 0) \in Seq(All) /\ Len(Bytes("name", 2, 0)) = 2
        /\ \A i \in 1..2 : Bytes("name", 2, 0)[i].f = "name"
    BY <1>2, <2>1
  <2>4. /\ Bytes("screen", 2, 0) \in Seq(All) /\ Len(Bytes("screen", 2, 0)) = 2
        /\ \A i \in 1..2 : Bytes("screen", 2, 0)[i].f = "screen"
    BY <1>2, <2>1
  <2> QED BY <2>2, <2>3, <2>4, <1>9
<1>11. PICK e, k : e = g \o h /\ k = b \o e
  OBVIOUS
<1>12. Opening(p, "s2c") = k
  <2>1. Says("s2c", "init", 1, 1) = <<>> /\ Says("s2c", "serverinit", 24, 2) = b /\ Says("s2c", "name", 2, 0) = g
    BY <1>9 DEF Says, From, Tap
  <2>2. Screen(p, "s2c") = h
    BY <1>9 DEF Screen
  <2>3. k \in Seq(All)
    BY <1>10, <1>11
  <2>4. <<>> \o k = k
    BY <2>3, AllOf
  <2> QED BY <2>1, <2>2, <2>4, <1>11 DEF Opening
<1>13. /\ k \in Seq(All) /\ Len(k) = 28 /\ k[1].f = "serverinit"
       /\ \A i \in 1..28 : k[i].f \in {"serverinit", "name", "screen"}
  <2>1. b \in Seq(All) /\ g \in Seq(All) /\ h \in Seq(All)
    BY <1>10
  <2>2. Len(b) = 24 /\ Len(g) = 2 /\ Len(h) = 2
    BY <1>10
  <2>3. e \in Seq(All) /\ Len(e) = Len(g) + Len(h)
        /\ \A i \in 1..Len(g) + Len(h) : e[i] = IF i <= Len(g) THEN g[i] ELSE h[i - Len(g)]
    BY <2>1, <1>11, ConcatProperties
  <2>4. Len(e) = 4 /\ \A i \in 1..4 : e[i] = IF i <= 2 THEN g[i] ELSE h[i - 2]
    BY <2>2, <2>3
  <2>5. ASSUME NEW i \in 1..4
        PROVE  e[i].f \in {"name", "screen"}
    <3>1. CASE i <= 2
      <4>1. i \in 1..2 /\ e[i] = g[i]
        BY <2>4, <3>1
      <4> QED BY <4>1, <1>10
    <3>2. CASE i > 2
      <4>1. i - 2 \in 1..2 /\ e[i] = h[i - 2]
        BY <2>4, <3>2
      <4> QED BY <4>1, <1>10
    <3> QED BY <3>1, <3>2
  <2>6. k \in Seq(All) /\ Len(k) = Len(b) + Len(e)
        /\ \A i \in 1..Len(b) + Len(e) : k[i] = IF i <= Len(b) THEN b[i] ELSE e[i - Len(b)]
    BY <2>1, <2>3, <1>11, ConcatProperties
  <2>7. Len(k) = 28 /\ \A i \in 1..28 : k[i] = IF i <= 24 THEN b[i] ELSE e[i - 24]
    BY <2>2, <2>4, <2>6
  <2>8. ASSUME NEW i \in 1..28
        PROVE  k[i].f \in {"serverinit", "name", "screen"}
    <3>1. CASE i <= 24
      <4>1. i \in 1..24 /\ k[i] = b[i]
        BY <2>7, <3>1
      <4> QED BY <4>1, <1>10
    <3>2. CASE i > 24
      <4>1. i - 24 \in 1..4 /\ k[i] = e[i - 24]
        BY <2>7, <3>2
      <4> QED BY <4>1, <2>5
    <3> QED BY <3>1, <3>2
  <2>9. k[1].f = "serverinit"
    <3>1. 1 \in 1..28 /\ 1 \in 1..24
      OBVIOUS
    <3>2. k[1] = b[1]
      BY <2>7, <3>1
    <3> QED BY <3>1, <3>2, <1>10
  <2> QED BY <2>6, <2>7, <2>8, <2>9
<1> HIDE <1>2, <1>4, <1>10
<1>14. /\ Opening(p, "s2c") \in Seq(All) /\ Len(Opening(p, "s2c")) = 28 /\ Opening(p, "s2c")[1].f = "serverinit"
       /\ \A i \in 1..28 : Opening(p, "s2c")[i].f \in {"serverinit", "name", "screen"}
  BY <1>12, <1>13
<1>15. Opening(p, "c2s") = c /\ Len(M) \in Nat /\ M = Messages(p.inputs)
  BY <1>1, <1>5, <1>6, <1>7
<1>16. /\ Opening(p, "c2s") \in Seq(All) /\ Len(Opening(p, "c2s")) = Len(M) + 1 /\ Opening(p, "c2s")[1].f = "init"
       /\ \A i \in 2..Len(Opening(p, "c2s")) : Opening(p, "c2s")[i].f = "input"
  BY <1>8, <1>15
<1> QED BY <1>14, <1>15, <1>16

\* What is still to come of a direction: up to ClientInit or ServerInit, and from
\* there on.
LEMMA LateFields ==
  ASSUME NEW p \in Session, Readable(p), ~ Refused(p), NEW d \in Directions, NEW w \in Seq(All), EndOf(w, Streams(p)[d]),
         NEW m, m = Len(Opening(p, d)), NEW n \in 1..Len(w)
  PROVE  /\ m \in Nat /\ Len(w) \in Nat
         /\ n + m <= Len(w) => Rank[w[n].f] < 18
         /\ n + m > Len(w) => (n + m) - Len(w) \in 1..m /\ w[n] = Opening(p, d)[(n + m) - Len(w)]
<1>1. PICK s, z : s = Streams(p)[d] /\ z = Opening(p, d)
  OBVIOUS
<1>2. Leading(s, z)
  BY <1>1, StreamOpens
<1>3. PICK a : Early(a) /\ z \in Seq(All) /\ s = a \o z
  BY <1>2 DEF Leading
<1>4. a \in Seq(All) /\ Len(a) \in Nat /\ Len(z) \in Nat /\ Len(z) = m
  BY <1>3, <1>1 DEF Early
<1>5. Len(s) = Len(a) + m /\ \A i \in 1..Len(a) + m : s[i] = IF i <= Len(a) THEN a[i] ELSE z[i - Len(a)]
  BY <1>3, <1>4, ConcatProperties
<1>6. Len(w) \in Nat /\ Len(w) <= Len(s) /\ w[n] = s[(Len(s) - Len(w)) + n]
  BY <1>1 DEF EndOf
<1>7. PICK i : i = (Len(s) - Len(w)) + n
  OBVIOUS
<1>8. i \in 1..Len(a) + m /\ w[n] = s[i]
  BY <1>4, <1>5, <1>6, <1>7
<1>9. ASSUME n + m <= Len(w)
      PROVE  Rank[w[n].f] < 18
  <2>1. i <= Len(a) /\ i \in 1..Len(a)
    BY <1>9, <1>4, <1>5, <1>6, <1>7, <1>8
  <2>2. i \in DOMAIN a /\ w[n] = a[i]
    BY <2>1, <1>4, <1>5, <1>8
  <2> QED BY <2>2, <1>3 DEF Early
<1>10. ASSUME n + m > Len(w)
       PROVE  (n + m) - Len(w) \in 1..m /\ w[n] = z[(n + m) - Len(w)]
  <2>1. ~ (i <= Len(a)) /\ i - Len(a) = (n + m) - Len(w) /\ i - Len(a) \in 1..m
    BY <1>10, <1>4, <1>5, <1>6, <1>7, <1>8
  <2>2. w[n] = z[i - Len(a)]
    BY <2>1, <1>5, <1>8
  <2> QED BY <2>1, <2>2
<1> QED BY <1>1, <1>4, <1>6, <1>9, <1>10

\* The ranks of what either side has still to send.
LEMMA LateRanks ==
  ASSUME NEW p \in Session, Readable(p), ~ Refused(p), NEW w \in Seq(All), NEW n \in 1..Len(w)
  PROVE  /\ EndOf(w, Streams(p)["c2s"]) =>
               /\ n + Len(Messages(p.inputs)) < Len(w) => Rank[w[n].f] < 18
               /\ n + Len(Messages(p.inputs)) = Len(w) => Rank[w[n].f] = 18
               /\ n + Len(Messages(p.inputs)) > Len(w) => Rank[w[n].f] > 18 /\ w[n].f = "input"
         /\ EndOf(w, Streams(p)["s2c"]) =>
               /\ n + 28 <= Len(w) => Rank[w[n].f] < 18
               /\ n + 28 > Len(w) => Rank[w[n].f] > 18
               /\ n + 28 = Len(w) + 1 => w[n].f = "serverinit"
<1>1. Len(w) \in Nat /\ "c2s" \in Directions /\ "s2c" \in Directions
  BY DEF Directions
<1>2. ASSUME EndOf(w, Streams(p)["c2s"])
      PROVE  /\ n + Len(Messages(p.inputs)) < Len(w) => Rank[w[n].f] < 18
             /\ n + Len(Messages(p.inputs)) = Len(w) => Rank[w[n].f] = 18
             /\ n + Len(Messages(p.inputs)) > Len(w) => Rank[w[n].f] > 18 /\ w[n].f = "input"
  <2>1. PICK k, m, z : k = Len(Messages(p.inputs)) /\ m = Len(z) /\ z = Opening(p, "c2s")
    OBVIOUS
  <2>2. k \in Nat /\ m = k + 1 /\ z[1].f = "init" /\ \A i \in 2..m : z[i].f = "input"
    BY <2>1, Opened
  <2>3. /\ n + m <= Len(w) => Rank[w[n].f] < 18
        /\ n + m > Len(w) => (n + m) - Len(w) \in 1..m /\ w[n] = z[(n + m) - Len(w)]
    BY <1>1, <1>2, <2>1, LateFields
  <2>4. n + k < Len(w) => Rank[w[n].f] < 18
    BY <2>2, <2>3, <1>1
  <2>5. n + k = Len(w) => Rank[w[n].f] = 18
    <3>1. SUFFICES ASSUME n + k = Len(w) PROVE Rank[w[n].f] = 18
      OBVIOUS
    <3>2. (n + m) - Len(w) = 1 /\ n + m > Len(w)
      BY <3>1, <2>2, <1>1
    <3>3. w[n] = z[1]
      BY <3>2, <2>3
    <3> QED BY <3>3, <2>2, RankValues
  <2>6. n + k > Len(w) => Rank[w[n].f] > 18 /\ w[n].f = "input"
    <3>1. SUFFICES ASSUME n + k > Len(w) PROVE Rank[w[n].f] > 18 /\ w[n].f = "input"
      OBVIOUS
    <3>2. (n + m) - Len(w) > 1 /\ n + m > Len(w)
      BY <3>1, <2>2, <1>1
    <3>3. PICK i : i = (n + m) - Len(w)
      OBVIOUS
    <3>4. i \in 2..m /\ w[n] = z[i]
      BY <3>2, <3>3, <2>3, <2>2, <1>1
    <3>5. w[n].f = "input"
      BY <3>4, <2>2
    <3> QED BY <3>5, RankValues
  <2> QED BY <2>1, <2>4, <2>5, <2>6
<1>3. ASSUME EndOf(w, Streams(p)["s2c"])
      PROVE  /\ n + 28 <= Len(w) => Rank[w[n].f] < 18
             /\ n + 28 > Len(w) => Rank[w[n].f] > 18
             /\ n + 28 = Len(w) + 1 => w[n].f = "serverinit"
  <2>1. PICK z : z = Opening(p, "s2c")
    OBVIOUS
  <2>2. Len(z) = 28 /\ z[1].f = "serverinit" /\ \A i \in 1..28 : z[i].f \in {"serverinit", "name", "screen"}
    BY <2>1, Opened
  <2>3. /\ n + 28 <= Len(w) => Rank[w[n].f] < 18
        /\ n + 28 > Len(w) => (n + 28) - Len(w) \in 1..28 /\ w[n] = z[(n + 28) - Len(w)]
    <3>1. PICK m : m = Len(Opening(p, "s2c"))
      OBVIOUS
    <3>2. "s2c" \in Directions
      BY DEF Directions
    <3>3. /\ n + m <= Len(w) => Rank[w[n].f] < 18
          /\ n + m > Len(w) => (n + m) - Len(w) \in 1..m /\ w[n] = Opening(p, "s2c")[(n + m) - Len(w)]
      BY <3>1, <3>2, <1>1, <1>3, LateFields
    <3>4. m = 28
      BY <3>1, <2>1, <2>2
    <3> QED BY <3>3, <3>4, <2>1
  <2>4. n + 28 > Len(w) => Rank[w[n].f] > 18
    <3>1. SUFFICES ASSUME n + 28 > Len(w) PROVE Rank[w[n].f] > 18
      OBVIOUS
    <3>2. PICK i : i = (n + 28) - Len(w)
      OBVIOUS
    <3>3. i \in 1..28 /\ w[n] = z[i]
      BY <3>1, <3>2, <2>3
    <3>4. w[n].f \in {"serverinit", "name", "screen"}
      BY <3>3, <2>2
    <3>5. Rank["serverinit"] > 18 /\ Rank["name"] > 18 /\ Rank["screen"] > 18
      BY RankValues
    <3> QED BY <3>4, <3>5
  <2>5. n + 28 = Len(w) + 1 => w[n].f = "serverinit"
    <3>1. SUFFICES ASSUME n + 28 = Len(w) + 1 PROVE w[n].f = "serverinit"
      OBVIOUS
    <3>2. (n + 28) - Len(w) = 1 /\ n + 28 > Len(w)
      BY <3>1, <1>1
    <3>3. w[n] = z[1]
      BY <3>2, <2>3
    <3> QED BY <3>3, <2>2
  <2> QED BY <2>3, <2>4, <2>5
<1> QED BY <1>2, <1>3

\* The client's side of a session from one of its fields on.
LEMMA RestLength ==
  ASSUME NEW p \in Session, NEW at \in {"reply", "choice", "response", "init"}
  PROVE  /\ Rest(p, at, "c2s") \in Seq(All) /\ Len(Later(p, at, "c2s")) \in Nat /\ Size0(p, at) \in Nat
         /\ Len(Rest(p, at, "c2s")) = Size0(p, at) + Len(Later(p, at, "c2s"))
<1>1. at \in Points \ {"done"} /\ Tap(at) = "c2s"
  BY DEF Points, Exchange, Tap
<1>2. PICK a, b : a = Chunk(p, at) /\ b = Later(p, at, "c2s")
  OBVIOUS
<1>3. Rest(p, at, "c2s") = a \o b /\ a \in Seq(All) /\ b \in Seq(All) /\ Len(a) = Size0(p, at)
  BY <1>1, <1>2, FieldFirst
<1>4. Size0(p, at) \in Nat
  BY <1>1, FieldFacts
<1>5. PICK r : r = a \o b
  OBVIOUS
<1>6. r \in Seq(All) /\ Len(r) = Size0(p, at) + Len(b) /\ Len(b) \in Nat /\ r = Rest(p, at, "c2s")
  BY <1>3, <1>5
<1> QED BY <1>2, <1>4, <1>6

\* In the handshake the observer has not been given all of the field it waits
\* for; so what it has still to be given is more than the messages.
LEMMA HandshakeAhead ==
  ASSUME NEW p \in Session, Readable(p), ~ Refused(p), NEW o \in Observers, NEW w \in Seq(All), Hears(o, p, w), Rests(o)
  PROVE  Spoke(p, w) <=> o.handler \notin Handshake
<1>1. PICK k : k = Len(Messages(p.inputs))
  OBVIOUS
<1>2. k \in Nat /\ Len(w) \in Nat /\ Len(o.buffer) \in Nat /\ o.buffer \in Seq(All)
  <2>1. Len(Messages(p.inputs)) \in Nat
    BY Opened
  <2>2. o.buffer \in Seq(All) /\ Len(o.buffer) \in Nat
    BY DEF Observers
  <2>3. Len(w) \in Nat
    OBVIOUS
  <2> QED BY <1>1, <2>1, <2>2, <2>3
<1>3. CASE Listens(o, p, w)
  <2>1. o.handler \notin Handshake
    BY <1>3 DEF Listens, Expects, Beyond, Handshake
  <2>2. Spoke(p, w)
    BY <1>3 DEF Listens, Spoke
  <2> QED BY <2>1, <2>2
<1>4. ASSUME NEW at \in {"reply", "choice", "response", "init"}, Holds(o, w, Rest(p, at, "c2s")), Len(o.buffer) < Size0(p, at)
      PROVE  Len(w) > Len(Later(p, at, "c2s"))
  <2>1. Rest(p, at, "c2s") \in Seq(All) /\ Len(Later(p, at, "c2s")) \in Nat /\ Size0(p, at) \in Nat
        /\ Len(Rest(p, at, "c2s")) = Size0(p, at) + Len(Later(p, at, "c2s"))
    BY RestLength
  <2>2. Len(Rest(p, at, "c2s")) = Len(o.buffer) + Len(w)
    BY <1>4, <1>2 DEF Holds
  <2> QED BY <1>4, <1>2, <2>1, <2>2
<1>5. Size0(p, "reply") = 12 /\ Size0(p, "choice") = 1 /\ Size0(p, "response") = 16 /\ Size0(p, "init") = 1
  BY DEF Size0
<1>6. Len(Verdict(p, "c2s")) = k + 1
  <2>1. Verdict(p, "c2s") = Rest(p, "init", "c2s") /\ Later(p, "init", "c2s") = Messages(p.inputs)
    BY ClientSays
  <2>2. Len(Rest(p, "init", "c2s")) = 1 + k
    BY <2>1, <1>1, <1>5, RestLength
  <2> QED BY <2>1, <2>2, <1>2
<1>7. Len(Later(p, "response", "c2s")) = k + 1
  BY <1>6, ClientSays
<1>8. Len(Rest(p, "response", "c2s")) = k + 17
  <2>1. Len(Rest(p, "response", "c2s")) = 16 + Len(Later(p, "response", "c2s"))
    BY <1>5, RestLength
  <2> QED BY <2>1, <1>7, <1>2
<1>9. Len(Later(p, "choice", "c2s")) \in Nat /\ Len(Later(p, "choice", "c2s")) > k
  <2>1. Later(p, "choice", "c2s") = IF p.sec = VNC_AUTHENTICATION THEN Rest(p, "response", "c2s") ELSE Verdict(p, "c2s")
    BY ClientSays
  <2> QED BY <2>1, <1>6, <1>8, <1>2
<1>10. Len(Rest(p, "choice", "c2s")) \in Nat /\ Len(Rest(p, "choice", "c2s")) > k
  <2>1. Len(Rest(p, "choice", "c2s")) = 1 + Len(Later(p, "choice", "c2s"))
    BY <1>5, RestLength
  <2> QED BY <2>1, <1>9, <1>2
<1>11. Len(Later(p, "reply", "c2s")) \in Nat /\ Len(Later(p, "reply", "c2s")) > k
  <2> DEFINE l == Later(p, "reply", "c2s")
             a == Rest(p, "choice", "c2s")
             b == Rest(p, "response", "c2s")
             c == Verdict(p, "c2s")
  <2>1. l = a \/ l = b \/ l = c
    BY ClientSays
  <2>2. Len(a) \in Nat /\ Len(a) > k /\ Len(b) = k + 17 /\ Len(c) = k + 1
    BY <1>6, <1>8, <1>10
  <2>3. Len(l) \in Nat /\ Len(l) > k
    <3> HIDE DEF l, a, b, c
    <3> QED BY <2>1, <2>2, <1>2
  <2> QED BY <2>3
<1>12. CASE (Greeting(o, p, w) \/ Choosing(o, p, w) \/ Proving(o, p, w) \/ Opens(o, p, w)) /\ o.handled = <<>> /\ ~ o.raised
  <2>1. o.handler \in Handshake
    BY <1>12 DEF Greeting, Choosing, Proving, Opens, Handshake
  <2>2. Len(o.buffer) < o.need
    BY <1>12 DEF Rests, Greeting, Choosing, Proving, Opens
  <2>3. Len(w) > k
    <3>1. CASE Greeting(o, p, w)
      <4>1. Len(w) > Len(Later(p, "reply", "c2s"))
        BY <3>1, <2>2, <1>4, <1>5 DEF Greeting
      <4> QED BY <4>1, <1>11, <1>2
    <3>2. CASE Choosing(o, p, w)
      <4>1. Len(w) > Len(Later(p, "choice", "c2s"))
        BY <3>2, <2>2, <1>4, <1>5 DEF Choosing
      <4> QED BY <4>1, <1>9, <1>2
    <3>3. CASE Proving(o, p, w)
      <4>1. Len(w) > Len(Later(p, "response", "c2s"))
        BY <3>3, <2>2, <1>4, <1>5 DEF Proving
      <4> QED BY <4>1, <1>7, <1>2
    <3>4. CASE Opens(o, p, w)
      <4>1. Len(o.buffer) = 0
        BY <3>4, <2>2, <1>2 DEF Opens
      <4>2. Len(Verdict(p, "c2s")) = Len(o.buffer) + Len(w)
        BY <3>4, <1>2 DEF Opens, Holds
      <4> QED BY <4>1, <4>2, <1>6, <1>2
    <3> QED BY <1>12, <3>1, <3>2, <3>3, <3>4
  <2>4. ~ Spoke(p, w)
    BY <2>3, <1>1, <1>2 DEF Spoke
  <2> QED BY <2>1, <2>4
<1> QED BY <1>3, <1>12 DEF Hears

\* The end of what is to come is the end of it all.
LEMMA EndOfBehind ==
  ASSUME NEW a \in Seq(All), NEW b \in Seq(All), NEW s, Len(s) \in Nat, EndOf(a \o b, s)
  PROVE  EndOf(b, s)
<1>1. PICK c : c = a \o b
  OBVIOUS
<1>2. Len(a) \in Nat /\ Len(b) \in Nat /\ Len(c) = Len(a) + Len(b)
      /\ \A i \in 1..Len(a) + Len(b) : c[i] = IF i <= Len(a) THEN a[i] ELSE b[i - Len(a)]
  BY <1>1, ConcatProperties
<1>3. Len(c) <= Len(s) /\ \A i \in 1..Len(c) : c[i] = s[(Len(s) - Len(c)) + i]
  BY <1>1 DEF EndOf
<1>4. ASSUME NEW i \in 1..Len(b)
      PROVE  b[i] = s[(Len(s) - Len(b)) + i]
  <2>1. PICK k : k = i + Len(a)
    OBVIOUS
  <2>2. k \in 1..Len(c) /\ k - Len(a) = i /\ ~ (k <= Len(a)) /\ (Len(s) - Len(c)) + k = (Len(s) - Len(b)) + i
    BY <2>1, <1>2
  <2>3. c[k] = b[i]
    BY <2>2, <1>2
  <2>4. c[k] = s[(Len(s) - Len(b)) + i]
    BY <2>2, <1>3
  <2> QED BY <2>3, <2>4
<1>5. Len(b) <= Len(s)
  BY <1>2, <1>3
<1> QED BY <1>4, <1>5 DEF EndOf

\* The server speaks: not ServerInit before the client has sent ClientInit.
LEMMA ServerSpeaks ==
  ASSUME NEW p \in Session, Readable(p), NEW c \in Seq(All), NEW v \in Seq(All), NEW n \in DOMAIN v, Ready(v, c, n),
         EndOf(c, Streams(p)["c2s"]), EndOf(v, Streams(p)["s2c"]), LockStep(p, c, v, v),
         NEW u, u = SubSeq(v, n + 1, Len(v))
  PROVE  LockStep(p, c, u, v) /\ LockStep(p, c, u, u)
<1>1. SUFFICES ASSUME ~ Refused(p)
               PROVE  IF Spoke(p, c) THEN Len(v) <= 28 /\ Len(u) <= 28 ELSE Len(u) >= 28
  BY DEF LockStep
<1>2. PICK k : k = Len(Messages(p.inputs))
  OBVIOUS
<1>3. k \in Nat /\ Len(c) \in Nat /\ Len(v) \in Nat /\ n \in 1..Len(v)
  <2>1. Len(Messages(p.inputs)) \in Nat
    BY Opened
  <2>2. Len(c) \in Nat /\ Len(v) \in Nat /\ n \in 1..Len(v)
    BY LenProperties
  <2> QED BY <2>1, <2>2, <1>2
<1>4. Len(u) = Len(v) - n
  BY <1>3, Remainder
<1>5. CASE Spoke(p, c)
  BY <1>1, <1>3, <1>4, <1>5 DEF LockStep
<1>6. CASE ~ Spoke(p, c)
  <2>1. Len(c) > k /\ 1 \in 1..Len(c)
    BY <1>6, <1>2, <1>3 DEF Spoke
  <2>2. Head(c) = c[1] /\ c # <<>>
    BY <2>1
  <2>3. (1 + k < Len(c) => Rank[c[1].f] < 18) /\ (1 + k = Len(c) => Rank[c[1].f] = 18)
    BY <1>1, <1>2, <2>1, LateRanks
  <2>4. Rank[c[1].f] \in Nat /\ Rank[v[n].f] \in Nat
    BY <2>1, <1>3, ByteRanks
  <2>5. Rank[c[1].f] <= 18
    <3>1. 1 + k < Len(c) \/ 1 + k = Len(c)
      BY <2>1, <1>3
    <3>2. CASE 1 + k < Len(c)
      BY <2>3, <2>4, <3>2
    <3>3. CASE 1 + k = Len(c)
      BY <2>3, <3>3
    <3> QED BY <3>1, <3>2, <3>3
  <2>6. Rank[v[n].f] <= Rank[c[1].f]
    BY <2>2 DEF Ready
  <2>7. n + 28 > Len(v) => Rank[v[n].f] > 18
    BY <1>1, <1>3, LateRanks
  <2>8. ~ (n + 28 > Len(v))
    BY <2>4, <2>5, <2>6, <2>7
  <2> QED BY <2>8, <1>3, <1>4, <1>6
<1> QED BY <1>5, <1>6

\* A comparison of numbers, whatever they count.
LEMMA AtLeast ==
  ASSUME NEW a \in Int, NEW b \in Int
  PROVE  a >= b <=> a = b \/ a > b
BY SMT

\* The client speaks: ClientInit when all that the server says before it has
\* arrived.
LEMMA ClientSpeaks ==
  ASSUME NEW p \in Session, Readable(p), NEW c \in Seq(All), NEW v \in Seq(All), NEW n \in DOMAIN c, Ready(c, v, n),
         EndOf(c, Streams(p)["c2s"]), EndOf(v, Streams(p)["s2c"]), LockStep(p, c, v, v),
         NEW u, u = SubSeq(c, n + 1, Len(c))
  PROVE  LockStep(p, u, v, v)
<1>1. SUFFICES ASSUME ~ Refused(p)
               PROVE  IF Spoke(p, u) THEN Len(v) <= 28 ELSE Len(v) >= 28
  BY DEF LockStep
<1>2. PICK k : k = Len(Messages(p.inputs))
  OBVIOUS
<1>3. k \in Nat /\ Len(c) \in Nat /\ Len(v) \in Nat /\ n \in 1..Len(c)
  <2>1. Len(Messages(p.inputs)) \in Nat
    BY Opened
  <2>2. Len(c) \in Nat /\ Len(v) \in Nat /\ n \in 1..Len(c)
    BY LenProperties
  <2> QED BY <2>1, <2>2, <1>2
<1>4. Len(u) = Len(c) - n
  BY <1>3, Remainder
<1>5. CASE Spoke(p, c)
  <2>1. Len(c) <= k /\ Len(v) <= 28
    BY <1>5, <1>1, <1>2 DEF Spoke, LockStep
  <2>2. Len(u) <= k
    BY <2>1, <1>3, <1>4
  <2> QED BY <2>1, <2>2, <1>2 DEF Spoke
<1>6. CASE ~ Spoke(p, c) /\ ~ Spoke(p, u)
  BY <1>1, <1>6 DEF LockStep
<1>7. CASE ~ Spoke(p, c) /\ Spoke(p, u)
  <2>1. n + k >= Len(c)
    BY <1>7, <1>2, <1>3, <1>4 DEF Spoke
  <2>2. Rank[c[n].f] \in Nat
    BY <1>3, ByteRanks
  <2>3. Rank[c[n].f] >= 18
    <3>1. (n + k = Len(c) => Rank[c[n].f] = 18) /\ (n + k > Len(c) => Rank[c[n].f] > 18)
      BY <1>1, <1>2, <1>3, LateRanks
    <3>2. n + k \in Int /\ Len(c) \in Int
      BY <1>3
    <3>3. n + k = Len(c) \/ n + k > Len(c)
      BY <3>2, <2>1, AtLeast
    <3>4. 18 \in Int /\ Rank[c[n].f] \in Int /\ (Rank[c[n].f] = 18 \/ Rank[c[n].f] > 18)
      BY <3>1, <3>3, <2>2
    <3> QED BY <3>4, AtLeast
  <2>4. Len(v) <= 28
    <3>1. SUFFICES ASSUME Len(v) > 28 PROVE FALSE
      BY <1>3
    <3>2. v # <<>> /\ Head(v) = v[1] /\ 1 \in 1..Len(v)
      BY <3>1, <1>3
    <3>3. Rank[v[1].f] \in Nat /\ Rank[c[n].f] <= Rank[v[1].f]
      BY <3>2, ByteRanks DEF Ready
    <3>4. Rank[v[1].f] < 18
      <4>1. 1 + 28 <= Len(v) => Rank[v[1].f] < 18
        BY <1>1, <3>2, LateRanks
      <4> QED BY <4>1, <3>1, <1>3
    <3> QED BY <3>3, <3>4, <2>2, <2>3
  <2> QED BY <2>4, <1>7
<1> QED BY <1>5, <1>6, <1>7

\* dataReceived of the server's bytes.
LEMMA HearServerStarts ==
  ASSUME NEW p \in Session, Readable(p), NEW o \in Observers, NEW c \in Seq(All), Hears(o, p, c), Rests(o),
         NEW a \in Seq(All), a # <<>>, NEW u \in Seq(All), NEW s, s = a \o u, EndOf(s, Streams(p)["s2c"]),
         LockStep(p, c, u, s), Started(p, o, s)
  PROVE  /\ HearServer(o, a) \in Observers /\ HearServer(o, a).required = o.required
         /\ Hears(HearServer(o, a), p, c) /\ Rests(HearServer(o, a)) /\ Started(p, HearServer(o, a), u)
<1>1. PICK r : r = HearServer(o, a)
  OBVIOUS
<1>2. s \in Seq(All) /\ Len(s) = Len(a) + Len(u) /\ Len(a) \in Nat /\ Len(a) > 0 /\ Len(u) \in Nat /\ s[1] = Head(a)
      /\ Head(a) \in All
  <2>1. Len(a) \in Nat /\ Len(a) > 0 /\ Len(u) \in Nat /\ Head(a) = a[1] /\ Head(a) \in All
    BY EmptySeq
  <2>2. s \in Seq(All) /\ Len(s) = Len(a) + Len(u)
        /\ \A i \in 1..Len(a) + Len(u) : s[i] = IF i <= Len(a) THEN a[i] ELSE u[i - Len(a)]
    BY ConcatProperties
  <2>3. s[1] = a[1]
    BY <2>1, <2>2
  <2> QED BY <2>1, <2>2, <2>3
<1>3. r = IF o.handler \notin Handshake /\ o.started = "none" THEN [o EXCEPT !.started = Head(a).f] ELSE o
  BY <1>1 DEF HearServer
<1>4. Head(a).f \in DOMAIN Rank
  BY <1>2 DEF All
<1>5. r \in Observers /\ r.required = o.required /\ r.handler = o.handler /\ r.need = o.need /\ r.buffer = o.buffer
      /\ r.handled = o.handled /\ r.raised = o.raised
  BY <1>3, <1>4 DEF Observers
<1>6. Hears(r, p, c)
  <2>1. (Greeting(o, p, c) => Greeting(r, p, c)) /\ (Choosing(o, p, c) => Choosing(r, p, c))
    BY <1>5 DEF Greeting, Choosing, Holds
  <2>2. (Proving(o, p, c) => Proving(r, p, c)) /\ (Opens(o, p, c) => Opens(r, p, c))
    BY <1>5 DEF Proving, Opens, Holds
  <2>3. (Listens(o, p, c) => Listens(r, p, c)) /\ (AtOne(o, p, c) => AtOne(r, p, c))
    BY <1>5 DEF Listens, AtOne, Holds
  <2> QED BY <2>1, <2>2, <2>3, <1>5 DEF Hears
<1>7. Rests(r)
  BY <1>5 DEF Rests
<1>8. Started(p, r, u)
  <2>1. CASE Refused(p)
    <3>1. ~ Listens(o, p, c)
      BY <2>1 DEF Listens
    <3>2. o.handler \in Handshake
      BY <3>1 DEF Hears, Greeting, Choosing, Proving, Opens, Handshake
    <3> QED BY <3>2, <1>3, <2>1 DEF Started
  <2>2. CASE ~ Refused(p) /\ o.handler \in Handshake
    <3>1. ~ Spoke(p, c)
      BY <2>2, HandshakeAhead
    <3>2. Len(u) >= 28
      BY <3>1, <2>2 DEF LockStep
    <3>3. ~ (Len(s) < 28) /\ ~ (Len(u) < 28)
      BY <3>2, <1>2
    <3> QED BY <3>3, <1>3, <2>2 DEF Started
  <2>3. CASE ~ Refused(p) /\ o.handler \notin Handshake
    <3>1. Spoke(p, c)
      BY <2>3, HandshakeAhead
    <3>2. Len(s) <= 28
      BY <3>1, <2>3 DEF LockStep
    <3>3. Len(u) < 28
      BY <3>2, <1>2
    <3>4. CASE Len(s) < 28
      <4>1. o.started = "serverinit"
        BY <3>4, <2>3 DEF Started
      <4>2. r = o
        BY <4>1, <1>3
      <4> QED BY <4>1, <4>2, <3>3, <2>3 DEF Started
    <3>5. CASE Len(s) = 28
      <4>1. o.started = "none"
        BY <3>5 DEF Started
      <4>2. r.started = Head(a).f
        BY <4>1, <2>3, <1>3 DEF Observers
      <4>3. Head(a).f = "serverinit"
        <5>1. 1 \in 1..Len(s) /\ 1 + 28 = Len(s) + 1
          BY <3>5
        <5>2. s[1].f = "serverinit"
          BY <5>1, <1>2, <2>3, LateRanks
        <5> QED BY <5>2, <1>2
      <4> QED BY <4>2, <4>3, <3>3, <2>3 DEF Started
    <3> QED BY <3>2, <3>4, <3>5, <1>2
  <2> QED BY <2>1, <2>2, <2>3
<1> QED BY <1>1, <1>5, <1>6, <1>7, <1>8

-----------------------------------------------------------------------------
(* What the observer is told, in any session *)

\* Bytes that are those of messages if they say so.
Known(s) == s \in Seq(All) /\ \A i \in DOMAIN s : s[i].f = "input" => s[i].v[1] \in Kinds

\* A sequence of known messages is made of such sequences.
LEMMA KnownParts ==
  ASSUME NEW a \in Seq(All), NEW b \in Seq(All)
  PROVE  Known(a \o b) <=> Known(a) /\ Known(b)
<1>1. Len(a) \in Nat /\ Len(b) \in Nat /\ DOMAIN a = 1..Len(a) /\ DOMAIN b = 1..Len(b)
  BY LenProperties
<1>2. PICK t \in Seq(All) : t = a \o b
  BY ConcatProperties
<1>3. Len(t) = Len(a) + Len(b) /\ \A k \in 1..Len(a) + Len(b) : t[k] = IF k <= Len(a) THEN a[k] ELSE b[k - Len(a)]
  BY <1>2, ConcatProperties
<1>4. DOMAIN t = 1..Len(a) + Len(b)
  BY <1>2, <1>3, LenProperties
<1>5. ASSUME Known(t) PROVE Known(a) /\ Known(b)
  <2>1. ASSUME NEW k \in 1..Len(a), a[k].f = "input" PROVE a[k].v[1] \in Kinds
    <3>1. k \in DOMAIN t /\ t[k] = a[k]
      BY <1>1, <1>3, <1>4
    <3> QED BY <1>5, <2>1, <3>1 DEF Known
  <2>2. ASSUME NEW k \in 1..Len(b), b[k].f = "input" PROVE b[k].v[1] \in Kinds
    <3>1. k + Len(a) \in 1..Len(a) + Len(b) /\ ~ (k + Len(a) <= Len(a)) /\ (k + Len(a)) - Len(a) = k
      BY <1>1
    <3>2. k + Len(a) \in DOMAIN t /\ t[k + Len(a)] = b[k]
      BY <1>3, <1>4, <3>1
    <3> QED BY <1>5, <2>2, <3>2 DEF Known
  <2> QED BY <1>1, <2>1, <2>2 DEF Known
<1>6. ASSUME Known(a), Known(b) PROVE Known(t)
  <2>1. ASSUME NEW k \in 1..Len(a) + Len(b), t[k].f = "input" PROVE t[k].v[1] \in Kinds
    <3>1. CASE k <= Len(a)
      <4>1. k \in DOMAIN a /\ t[k] = a[k]
        BY <1>1, <1>3, <3>1
      <4> QED BY <1>6, <2>1, <4>1 DEF Known
    <3>2. CASE ~ (k <= Len(a))
      <4>1. k - Len(a) \in DOMAIN b /\ t[k] = b[k - Len(a)]
        BY <1>1, <1>3, <3>2
      <4> QED BY <1>6, <2>1, <4>1 DEF Known
    <3> QED BY <3>1, <3>2
  <2> QED BY <1>2, <1>4, <2>1 DEF Known
<1> QED BY <1>2, <1>5, <1>6

\* What is left of them.
LEMMA KnownTail ==
  ASSUME NEW s, Known(s), NEW n \in Nat
  PROVE  Known(SubSeq(s, n + 1, Len(s)))
<1>1. s \in Seq(All) /\ Len(s) \in Nat /\ DOMAIN s = 1..Len(s)
  BY LenProperties DEF Known
<1>2. CASE n <= Len(s)
  <2>1. PICK t \in Seq(All) : t = SubSeq(s, n + 1, Len(s)) /\ Len(t) = Len(s) - n /\ \A k \in 1..Len(s) - n : t[k] = s[n + k]
    BY <1>1, <1>2, Remainder
  <2>2. DOMAIN t = 1..Len(s) - n
    BY <2>1, LenProperties
  <2>3. \A k \in 1..Len(s) - n : n + k \in DOMAIN s
    BY <1>1
  <2>4. \A k \in DOMAIN t : t[k].f = "input" => t[k].v[1] \in Kinds
    BY <2>1, <2>2, <2>3 DEF Known
  <2> QED BY <2>1, <2>4 DEF Known
<1>3. CASE ~ (n <= Len(s))
  <2>1. SubSeq(s, n + 1, Len(s)) = <<>>
    <3>1. n + 1 \in Nat /\ \A i \in n + 1..Len(s) : s[i] \in All
      BY <1>1, <1>3
    <3>2. SubSeq(s, n + 1, Len(s)) \in Seq(All) /\ Len(SubSeq(s, n + 1, Len(s))) = IF n + 1 <= Len(s) THEN Len(s) - (n + 1) + 1 ELSE 0
      BY <1>1, <3>1, SubSeqProperties
    <3> QED BY <1>1, <1>3, <3>2, EmptySeq
  <2>2. <<>> \in Seq(All) /\ DOMAIN <<>> = {}
    BY EmptySeq
  <2> QED BY <2>1, <2>2 DEF Known
<1> QED BY <1>2, <1>3

\* The observer of a session: there is something to read when it reads.
Tended(o) == o \in Observers /\ Known(o.buffer) /\ (o.handler # "astray" => o.need > 0)
Keeps(o, x) == Tended(x) /\ x.required = o.required

\* It takes bytes, waits, or hands a message on.
LEMMA TookKeeps ==
  ASSUME NEW o, NEW y, Keeps(o, y), NEW n \in Nat
  PROVE  Keeps(o, Took(y, n))
<1>1. PICK t : t = SubSeq(y.buffer, n + 1, Len(y.buffer))
  OBVIOUS
<1>2. Known(t)
  BY <1>1, KnownTail DEF Keeps, Tended
<1>3. PICK x : x = Took(y, n)
  OBVIOUS
<1>4. x = [y EXCEPT !.buffer = t]
  BY <1>1, <1>3 DEF Took, Left
<1>5. x \in Observers /\ x.buffer = t /\ x.required = y.required /\ x.handler = y.handler /\ x.need = y.need
  BY <1>2, <1>4 DEF Known, Keeps, Tended, Observers
<1> QED BY <1>2, <1>3, <1>5 DEF Keeps, Tended

\* Waiting for something else keeps the observer in order.
LEMMA WaitKeeps ==
  ASSUME NEW o, NEW y, Keeps(o, y), NEW h \in Handshake \cup Beyond, NEW k \in Nat, h # "astray" => k > 0
  PROVE  Keeps(o, Wait(y, h, k))
<1>1. PICK x : x = Wait(y, h, k)
  OBVIOUS
<1>2. x = [y EXCEPT !.handler = h, !.need = k]
  BY <1>1 DEF Wait
<1>3. x \in Observers /\ x.buffer = y.buffer /\ x.required = y.required /\ x.handler = h /\ x.need = k
  BY <1>2 DEF Keeps, Tended, Observers
<1> QED BY <1>1, <1>3 DEF Keeps, Tended

\* Handing a message on keeps the observer in order.
LEMMA HandsOn ==
  ASSUME NEW o, NEW y, Keeps(o, y), NEW kind \in Kinds
  PROVE  Keeps(o, HandedOn(y, kind))
<1>1. PICK x : x = HandedOn(y, kind)
  OBVIOUS
<1>2. y \in Observers
  BY DEF Keeps, Tended
<1>3. PICK l \in Seq(Kinds) : l = Append(y.handled, kind)
  BY <1>2, AppendProperties DEF Observers
<1>4. x = [y EXCEPT !.handled = l]
  BY <1>1, <1>3 DEF HandedOn
<1>5. x \in Observers /\ x.buffer = y.buffer /\ x.required = y.required /\ x.handler = y.handler /\ x.need = y.need
  BY <1>2, <1>4 DEF Observers
<1> QED BY <1>1, <1>5 DEF Keeps, Tended

\* So do the handlers.
LEMMA HandlerKeeps ==
  ASSUME NEW o, Tended(o), ~ Rests(o)
  PROVE  Keeps(o, Handle(o))
<1>1. /\ o \in Observers /\ o.handler # "astray" /\ Len(o.buffer) > 0 /\ o.buffer \in Seq(All) /\ Keeps(o, o)
      /\ Len(o.buffer) \in Nat /\ o.handler \in Handshake \cup Beyond
  <2>1. o \in Observers /\ o.handler # "astray" /\ o.need > 0
    BY DEF Tended, Rests
  <2>2. Len(o.buffer) >= o.need /\ Len(o.buffer) \in Nat /\ o.need \in Nat /\ o.buffer \in Seq(All)
    BY <2>1, TurnIs
  <2>3. o.handler \in Handshake \cup Beyond
    BY <2>1 DEF Observers
  <2> QED BY <2>1, <2>2, <2>3 DEF Keeps
<1>2. \A n \in Nat : Keeps(o, Took(o, n))
  BY <1>1, TookKeeps
<1>3. \A y : \A h \in Handshake \cup Beyond : \A k \in Nat : Keeps(o, y) /\ (h # "astray" => k > 0) => Keeps(o, Wait(y, h, k))
  BY WaitKeeps
<1>4. \A y : \A kind \in Kinds : Keeps(o, y) => Keeps(o, HandedOn(y, kind))
  BY HandsOn
<1>5. /\ "version" \in Handshake \cup Beyond /\ "security" \in Handshake \cup Beyond
      /\ "VNCAuthResponse" \in Handshake \cup Beyond /\ "clientInit" \in Handshake \cup Beyond
      /\ "protocol" \in Handshake \cup Beyond /\ "clientCutText" \in Handshake \cup Beyond
      /\ "qemuExtendedKeyEvent" \in Handshake \cup Beyond /\ "astray" \in Handshake \cup Beyond
  BY DEF Handshake, Beyond
<1>13. ASSUME NEW y, Keeps(o, y)
       PROVE  /\ Keeps(o, Wait(y, "VNCAuthResponse", 16)) /\ Keeps(o, Wait(y, "clientInit", 1))
              /\ Keeps(o, Wait(y, "security", 1)) /\ Keeps(o, Wait(y, "protocol", 1))
              /\ Keeps(o, Wait(y, "clientCutText", 3)) /\ Keeps(o, Wait(y, "qemuExtendedKeyEvent", 10))
  <2>1. Keeps(o, Wait(y, "VNCAuthResponse", 16))
    BY <1>5, <1>13, WaitKeeps
  <2>2. Keeps(o, Wait(y, "clientInit", 1))
    BY <1>5, <1>13, WaitKeeps
  <2>3. Keeps(o, Wait(y, "security", 1))
    BY <1>5, <1>13, WaitKeeps
  <2>4. Keeps(o, Wait(y, "protocol", 1))
    BY <1>5, <1>13, WaitKeeps
  <2>5. Keeps(o, Wait(y, "clientCutText", 3))
    BY <1>5, <1>13, WaitKeeps
  <2>6. Keeps(o, Wait(y, "qemuExtendedKeyEvent", 10))
    BY <1>5, <1>13, WaitKeeps
  <2> QED BY <2>1, <2>2, <2>3, <2>4, <2>5, <2>6
<1>6. CASE o.handler = "version"
  <2>1. Handle(o) = HandleVersion(o)
    BY <1>6 DEF Handle
  <2>2. PICK x : x = Took(o, 12) /\ Keeps(o, x)
    BY <1>2
  <2>3. Keeps(o, Wait(x, "VNCAuthResponse", 16)) /\ Keeps(o, Wait(x, "clientInit", 1)) /\ Keeps(o, Wait(x, "security", 1))
    BY <1>13, <2>2
  <2>4. \/ HandleVersion(o) = Wait(x, "VNCAuthResponse", 16) \/ HandleVersion(o) = Wait(x, "clientInit", 1)
        \/ HandleVersion(o) = Wait(x, "security", 1) \/ HandleVersion(o) = x
    BY <2>2 DEF HandleVersion
  <2> QED BY <2>1, <2>2, <2>3, <2>4
<1>7. CASE o.handler = "security"
  <2>1. Handle(o) = HandleSecurity(o)
    BY <1>7 DEF Handle
  <2>2. PICK x : x = Took(o, 1) /\ Keeps(o, x)
    BY <1>2
  <2>3. Keeps(o, Wait(x, "VNCAuthResponse", 16)) /\ Keeps(o, Wait(x, "clientInit", 1))
    BY <1>13, <2>2
  <2>4. HandleSecurity(o) = Wait(x, "VNCAuthResponse", 16) \/ HandleSecurity(o) = Wait(x, "clientInit", 1)
    BY <2>2 DEF HandleSecurity
  <2> QED BY <2>1, <2>3, <2>4
<1>8. CASE o.handler = "VNCAuthResponse"
  <2>1. Handle(o) = Wait(Took(o, 16), "clientInit", 1)
    BY <1>8 DEF Handle, HandleVNCAuthResponse
  <2> QED BY <2>1, <1>2, <1>3, <1>5
<1>9. CASE o.handler = "clientInit"
  <2>1. Handle(o) = Wait(Took(o, 1), "protocol", 1)
    BY <1>9 DEF Handle, HandleClientInit
  <2> QED BY <2>1, <1>2, <1>3, <1>5
<1>10. CASE o.handler = "clientCutText"
  <2>1. "text" \in Kinds /\ Size["text"] - TYPE_LEN["text"] = 3
    BY Lengths
  <2>2. Handle(o) = HandleClientCutText(o)
    BY <1>10 DEF Handle
  <2>3. Handle(o) = HandedOn(Wait(Took(o, 3), "protocol", 1), "text")
    BY <2>1, <2>2 DEF HandleClientCutText
  <2>4. Keeps(o, Wait(Took(o, 3), "protocol", 1))
    BY <1>2, <1>13
  <2> QED BY <2>1, <2>3, <2>4, <1>4
<1>11. CASE o.handler = "qemuExtendedKeyEvent"
  <2>1. "qemu" \in Kinds
    BY Lengths
  <2>2. Handle(o) = HandleQemuExtendedKeyEvent(o)
    BY <1>11 DEF Handle
  <2>3. Handle(o) = HandedOn(Wait(Took(o, 12), "protocol", 1), "qemu")
    BY <2>2 DEF HandleQemuExtendedKeyEvent
  <2>4. Keeps(o, Wait(Took(o, 12), "protocol", 1))
    BY <1>2, <1>13
  <2> QED BY <2>1, <2>3, <2>4, <1>4
<1>12. CASE o.handler = "protocol"
  <2>1. Handle(o) = HandleProtocol(o)
    BY <1>12 DEF Handle
  <2>2. CASE Head(o.buffer).f # "input" \/ Head(o.buffer).v[2] # 1
    <3>1. Handle(o) = Wait(o, "astray", 0)
      BY <2>1, <2>2 DEF HandleProtocol
    <3> QED BY <3>1, <1>1, <1>3, <1>5
  <2>3. CASE ~ (Head(o.buffer).f # "input" \/ Head(o.buffer).v[2] # 1)
    <3>1. 1 \in DOMAIN o.buffer /\ Head(o.buffer) = o.buffer[1]
      BY <1>1, LenProperties
    <3>2. PICK kind \in Kinds : kind = Head(o.buffer).v[1]
      BY <3>1, <2>3 DEF Tended, Known
    <3>3. PICK n \in Nat, m \in Nat : n = TYPE_LEN[kind] /\ m = Size[kind] - n
      BY Lengths
    <3>4. PICK x : x = Took(o, n) /\ Keeps(o, x)
      BY <1>2
    <3>5. PICK y : y = Took(x, m) /\ Keeps(o, y)
      BY <3>4, TookKeeps
    <3>6. CASE Len(o.buffer) < n
      <4>1. Handle(o) = Wait(o, "protocol", n)
        BY <2>1, <2>3, <3>2, <3>3, <3>6 DEF HandleProtocol
      <4>2. n > 0
        BY <3>6, <1>1
      <4> QED BY <4>1, <4>2, <1>1, <1>3, <1>5
    <3>7. CASE ~ (Len(o.buffer) < n)
      <4>1. Handle(o) = CASE kind \in {"pixelformat", "request", "key", "pointer"} -> HandedOn(x, kind)
               [] kind = "encodings" -> IF Len(x.buffer) < m THEN x
                                        ELSE HandedOn(y, kind)
               [] kind = "text"      -> Wait(x, "clientCutText", m)
               [] kind = "fence"     -> HandedOn(y, kind)
               [] kind = "qemu"      -> Wait(x, "qemuExtendedKeyEvent", 10)
               [] kind = "odd"       -> o
        BY <2>1, <2>3, <3>2, <3>3, <3>4, <3>5, <3>7 DEF HandleProtocol
      <4>2. kind = "text" => m = 3
        BY <3>3, Lengths
      <4>3. Keeps(o, Wait(x, "clientCutText", 3)) /\ Keeps(o, Wait(x, "qemuExtendedKeyEvent", 10))
        BY <1>13, <3>4
      <4>4. Keeps(o, HandedOn(x, kind)) /\ Keeps(o, HandedOn(y, kind))
        BY <1>4, <3>4, <3>5
      <4>5. kind \in {"pixelformat", "encodings", "request", "key", "pointer", "text", "fence", "qemu", "odd"}
        BY Lengths
      <4> QED BY <4>1, <4>2, <4>3, <4>4, <4>5, <3>4, <1>1
    <3> QED BY <3>6, <3>7
  <2> QED BY <2>2, <2>3
<1> QED BY <1>1, <1>6, <1>7, <1>8, <1>9, <1>10, <1>11, <1>12 DEF Handshake, Beyond

\* A turn,
LEMMA TurnTended ==
  ASSUME NEW o, Tended(o)
  PROVE  Keeps(o, Turn(o))
<1>1. CASE Rests(o)
  <2>1. Turn(o) = o
    BY <1>1 DEF Turn, Rests
  <2> QED BY <2>1 DEF Keeps
<1>2. CASE ~ Rests(o)
  <2>1. PICK x : x = Handle(o)
    OBVIOUS
  <2>2. Keeps(o, x)
    BY <1>2, <2>1, HandlerKeeps
  <2>3. PICK b \in BOOLEAN : b = Raises(o)
    BY DEF Raises
  <2>4. PICK r : r = Turn(o)
    OBVIOUS
  <2>5. r = [x EXCEPT !.raised = b]
    BY <1>2, <2>1, <2>3, <2>4, TurnIs DEF Tended
  <2>6. x \in Observers
    BY <2>2 DEF Keeps, Tended
  <2>7. r \in Observers /\ r.buffer = x.buffer /\ r.required = x.required /\ r.handler = x.handler /\ r.need = x.need
    BY <2>5, <2>6 DEF Observers
  <2> QED BY <2>2, <2>4, <2>7 DEF Keeps, Tended
<1> QED BY <1>1, <1>2

\* all the turns on a chunk,
LEMMA HeardTended ==
  ASSUME NEW o, Tended(o)
  PROVE  Keeps(o, Heard(o))
<1> DEFINE m == Len(o.buffer)
<1>1. m \in Nat
  BY DEF Tended, Observers
<1>2. PICK g : TurnsOf(o, m, g) /\ Heard(o) = g[m]
  BY <1>1, HeardTurns
<1>3. g[0] = o /\ \A n \in 0..m : n > 0 => g[n] = Turn(g[n - 1])
  <2>1. PICK k \in Nat : k = m
    BY <1>1
  <2>2. g = [n \in 0..k |-> IF n = 0 THEN o ELSE Turn(g[n - 1])]
    BY <2>1, <1>2 DEF TurnsOf
  <2>3. \A n \in 0..k : g[n] = IF n = 0 THEN o ELSE Turn(g[n - 1])
    BY <2>2, Zenon
  <2>4. 0 \in 0..k /\ g[0] = IF 0 = 0 THEN o ELSE Turn(g[0 - 1])
    BY <2>1, <2>3
  <2>5. \A n \in 0..k : n > 0 => g[n] = Turn(g[n - 1])
    BY <2>3
  <2> QED BY <2>1, <2>4, <2>5
<1> DEFINE S == {n \in Nat : n <= m => Keeps(o, g[n])}
<1>4. 0 \in S
  BY <1>1, <1>3 DEF Keeps
<1>5. ASSUME NEW n \in Nat, n \in S
      PROVE  n + 1 \in S
  <2>1. SUFFICES ASSUME n + 1 <= m
                 PROVE  Keeps(o, g[n + 1])
    BY DEF S
  <2>2. n <= m /\ n + 1 \in 0..m /\ (n + 1) - 1 = n /\ n + 1 > 0
    BY <2>1, <1>1
  <2>3. Keeps(o, g[n])
    BY <1>5, <2>2 DEF S
  <2>4. g[n + 1] = Turn(g[n])
    BY <1>3, <2>2
  <2>5. Keeps(g[n], Turn(g[n]))
    BY <2>3, TurnTended DEF Keeps
  <2> QED BY <2>3, <2>4, <2>5 DEF Keeps
<1>6. Nat \subseteq S
  <2> HIDE DEF S
  <2> QED BY <1>4, <1>5, Induction
<1> QED BY <1>1, <1>2, <1>6

\* dataReceived of the client's bytes
LEMMA HearClientTended ==
  ASSUME NEW o, Tended(o), NEW a, Known(a)
  PROVE  Keeps(o, HearClient(o, a))
<1>1. PICK t : t = o.buffer \o a
  OBVIOUS
<1>2. o \in Observers /\ o.buffer \in Seq(All) /\ a \in Seq(All)
  BY DEF Tended, Known, Observers
<1>3. Known(t)
  BY <1>1, <1>2, KnownParts DEF Tended
<1>4. PICK x : x = [o EXCEPT !.buffer = @ \o a, !.raised = FALSE]
  OBVIOUS
<1>5. x = [o EXCEPT !.buffer = t, !.raised = FALSE]
  BY <1>4, <1>1
<1>6. x \in Observers /\ x.buffer = t /\ x.required = o.required /\ x.handler = o.handler /\ x.need = o.need
  BY <1>2, <1>3, <1>5 DEF Known, Observers
<1>7. Tended(x)
  BY <1>3, <1>6 DEF Tended
<1>8. PICK y : y = Heard(x)
  OBVIOUS
<1>9. Tended(y) /\ y.required = o.required
  BY <1>6, <1>7, <1>8, HeardTended DEF Keeps
<1>10. HearClient(o, a) = IF y.handler = "astray" THEN [y EXCEPT !.buffer = <<>>] ELSE y
  BY <1>4, <1>8 DEF HearClient
<1>11. CASE y.handler # "astray"
  BY <1>9, <1>10, <1>11 DEF Keeps
<1>12. CASE y.handler = "astray"
  <2>1. Known(<<>>)
    BY EmptySeq DEF Known
  <2>2. PICK e : e = <<>>
    OBVIOUS
  <2>3. PICK z : z = [y EXCEPT !.buffer = e]
    OBVIOUS
  <2>4. e \in Seq(All)
    BY <2>1, <2>2 DEF Known
  <2>5. z \in Observers /\ z.buffer = e /\ z.required = y.required /\ z.handler = y.handler
    BY <2>3, <2>4, <1>9 DEF Tended, Observers
  <2>6. Keeps(o, z)
    BY <2>1, <2>2, <2>5, <1>9, <1>12 DEF Keeps, Tended
  <2> QED BY <2>2, <2>3, <2>6, <1>10, <1>12
<1> QED BY <1>11, <1>12

\* and of the server's keep an observer in order, and what it was told.
LEMMA HearServerTended ==
  ASSUME NEW o, Tended(o), NEW a \in Seq(All), a # <<>>
  PROVE  Keeps(o, HearServer(o, a))
<1>1. PICK f : f = Head(a).f
  OBVIOUS
<1>2. f \in DOMAIN Rank
  <2>1. Head(a) \in All
    <3>1. Len(a) \in Nat /\ Len(a) > 0 /\ Head(a) = a[1] /\ 1 \in DOMAIN a
      BY EmptySeq, LenProperties
    <3> QED BY <3>1
  <2> QED BY <1>1, <2>1 DEF All
<1>3. PICK x : x = [o EXCEPT !.started = f]
  OBVIOUS
<1>4. x \in Observers /\ x.buffer = o.buffer /\ x.required = o.required /\ x.handler = o.handler /\ x.need = o.need
  BY <1>2, <1>3 DEF Tended, Observers
<1>5. Keeps(o, x) /\ Keeps(o, o)
  BY <1>4 DEF Keeps, Tended
<1>6. HearServer(o, a) = x \/ HearServer(o, a) = o
  BY <1>1, <1>3 DEF HearServer
<1> QED BY <1>5, <1>6

\* Every byte of a session is of the messages if it says so: of a field,
LEMMA KnownBefore ==
  ASSUME NEW d, NEW f \in DOMAIN Rank, f # "input", NEW n \in Nat, NEW v \in Nat, NEW s, Known(s)
  PROVE  Known(Says(d, f, n, v) \o s)
<1>1. PICK b : b = Says(d, f, n, v)
  OBVIOUS
<1>2. Known(b)
  <2>1. v \in Vals
    BY DEF Vals
  <2>2. Bytes(f, n, v) \in Seq(All) /\ Len(Bytes(f, n, v)) = n /\ \A i \in 1..n : Bytes(f, n, v)[i] = [f |-> f, v |-> v]
    BY <2>1, BytesFacts
  <2>3. DOMAIN Bytes(f, n, v) = 1..n
    BY <2>2, LenProperties
  <2>4. \A i \in 1..n : Bytes(f, n, v)[i].f = f
    BY <2>2
  <2>5. Known(Bytes(f, n, v))
    BY <2>2, <2>3, <2>4 DEF Known
  <2>6. Known(<<>>)
    BY EmptySeq DEF Known
  <2> QED BY <1>1, <2>5, <2>6 DEF Says
<1>3. b \in Seq(All) /\ s \in Seq(All)
  BY <1>2 DEF Known
<1>4. Known(b \o s)
  BY <1>2, <1>3, KnownParts
<1> QED BY <1>1, <1>4

\* of each of the fields,
LEMMA KnownFields ==
  ASSUME NEW d, NEW n \in Nat, NEW v \in Nat, NEW s, Known(s)
  PROVE  /\ Known(Says(d, "version", n, v) \o s) /\ Known(Says(d, "reply", n, v) \o s)
         /\ Known(Says(d, "count", n, v) \o s) /\ Known(Says(d, "types", n, v) \o s)
         /\ Known(Says(d, "choice", n, v) \o s) /\ Known(Says(d, "auth", n, v) \o s)
         /\ Known(Says(d, "challenge", n, v) \o s) /\ Known(Says(d, "response", n, v) \o s)
         /\ Known(Says(d, "dh", n, v) \o s) /\ Known(Says(d, "modulus", n, v) \o s)
         /\ Known(Says(d, "serverkey", n, v) \o s) /\ Known(Says(d, "credentials", n, v) \o s)
         /\ Known(Says(d, "clientkey", n, v) \o s) /\ Known(Says(d, "ask", n, v) \o s)
         /\ Known(Says(d, "secret", n, v) \o s) /\ Known(Says(d, "result", n, v) \o s)
         /\ Known(Says(d, "reason", n, v) \o s) /\ Known(Says(d, "init", n, v) \o s)
         /\ Known(Says(d, "serverinit", n, v) \o s) /\ Known(Says(d, "name", n, v) \o s)
         /\ Known(Says(d, "screen", n, v) \o s)
<1> DEFINE Fields == {"version", "reply", "count", "types", "choice", "auth", "challenge", "response", "dh", "modulus",
                      "serverkey", "credentials", "clientkey", "ask", "secret", "result", "reason", "init", "serverinit",
                      "name", "screen"}
<1>1. \A f \in Fields : f \in DOMAIN Rank /\ f # "input"
  BY RankFacts
<1>2. \A f \in Fields : Known(Says(d, f, n, v) \o s)
  BY <1>1, KnownBefore
<1> QED BY <1>2

\* of what is opened,
LEMMA KnownOpening ==
  ASSUME NEW p \in Session, NEW d
  PROVE  Known(Opening(p, d)) /\ Known(Reason(d)) /\ Known(<<>>)
<1>1. 0 \in Nat /\ 1 \in Nat /\ 2 \in Nat /\ 24 \in Nat
  OBVIOUS
<1>2. Known(<<>>)
  BY EmptySeq DEF Known
<1>3. ASSUME NEW f \in {"screen", "reason"}
      PROVE  Known(Bytes(f, 2, 0)) /\ Known(Says(d, f, 2, 0))
  <2>1. f \in DOMAIN Rank /\ 0 \in Vals /\ f # "input"
    BY RankFacts DEF Vals
  <2>2. Bytes(f, 2, 0) \in Seq(All) /\ Len(Bytes(f, 2, 0)) = 2 /\ \A i \in 1..2 : Bytes(f, 2, 0)[i] = [f |-> f, v |-> 0]
    BY <2>1, BytesFacts
  <2>3. DOMAIN Bytes(f, 2, 0) = 1..2
    BY <2>2, LenProperties
  <2>4. \A i \in 1..2 : Bytes(f, 2, 0)[i].f = f
    BY <2>2
  <2>5. Known(Bytes(f, 2, 0))
    BY <2>1, <2>2, <2>3, <2>4 DEF Known
  <2> QED BY <2>5, <1>2 DEF Says
<1>4. Known(Screen(p, d))
  <2>1. Spoken(Messages(p.inputs))
    BY SpokenMessages DEF Session
  <2>2. Known(Messages(p.inputs))
    BY <2>1 DEF Spoken, Known
  <2> QED BY <2>2, <1>3 DEF Screen
<1>5. PICK x : x = Says(d, "name", 2, 0) \o Screen(p, d)
  OBVIOUS
<1>6. PICK y : y = Says(d, "serverinit", 24, 2) \o x
  OBVIOUS
<1>7. Known(x)
  BY <1>1, <1>4, <1>5, KnownFields
<1>8. Known(y)
  BY <1>1, <1>6, <1>7, KnownFields
<1>9. Known(Says(d, "init", 1, 1) \o y)
  BY <1>1, <1>8, KnownFields
<1>10. Opening(p, d) = Says(d, "init", 1, 1) \o y
  BY <1>5, <1>6 DEF Opening
<1>11. Known(Reason(d))
  BY <1>3 DEF Reason
<1> QED BY <1>2, <1>9, <1>10, <1>11

\* of the exchange,
LEMMA KnownProof ==
  ASSUME NEW p \in Session, NEW d
  PROVE  Known(Proof(p, d))
<1>1. p.key \in Nat /\ ARD_CREDENTIALS_LEN \in Nat /\ 0 \in Nat /\ 1 \in Nat /\ 2 \in Nat /\ 4 \in Nat /\ 16 \in Nat
  BY SessionFacts
<1>2. Known(Verdict(p, d))
  <2>1. Known(Opening(p, d)) /\ Known(Reason(d)) /\ Known(<<>>)
    BY KnownOpening
  <2>2. PICK r : r = IF Version(p) >= 3008 THEN Reason(d) ELSE <<>>
    OBVIOUS
  <2>3. Known(r)
    BY <2>1, <2>2
  <2>4. Known(Says(d, "result", 4, 0) \o Opening(p, d)) /\ Known(Says(d, "result", 4, 1) \o r)
    BY <1>1, <2>1, <2>3, KnownFields
  <2>5. \/ Verdict(p, d) = Opening(p, d) \/ Verdict(p, d) = Says(d, "result", 4, 0) \o Opening(p, d)
        \/ Verdict(p, d) = Says(d, "result", 4, 1) \o r
    BY <2>2 DEF Verdict
  <2> QED BY <2>1, <2>4, <2>5
<1> DEFINE V  == Verdict(p, d)
           r1 == Says(d, "response", 16, 0) \o V
           r2 == Says(d, "challenge", 16, 0) \o r1
           k1 == Says(d, "clientkey", p.key, 0) \o V
           k2 == Says(d, "credentials", ARD_CREDENTIALS_LEN, 0) \o k1
           k3 == Says(d, "serverkey", p.key, 0) \o k2
           k4 == Says(d, "modulus", p.key, 0) \o k3
           k5 == Says(d, "dh", 4, p.key) \o k4
           a1 == Says(d, "secret", 2, 0) \o V
           a2 == Says(d, "ask", 2, 0) \o a1
<1>3. Proof(p, d) = r2 \/ Proof(p, d) = k5 \/ Proof(p, d) = V \/ Proof(p, d) = a2
  <2>1. CASE p.sec = VNC_AUTHENTICATION
    <3>1. Proof(p, d) = Says(d, "challenge", 16, 0) \o (Says(d, "response", 16, 0) \o Verdict(p, d))
      BY <2>1 DEF Proof, VNC_AUTHENTICATION, DIFFIE_HELLMAN, NONE
    <3> QED BY <3>1
  <2>2. CASE p.sec = DIFFIE_HELLMAN
    <3>1. p.sec # VNC_AUTHENTICATION /\ p.sec # NONE
      BY <2>2 DEF VNC_AUTHENTICATION, DIFFIE_HELLMAN, NONE
    <3>2. Proof(p, d) = Says(d, "dh", 4, p.key) \o (Says(d, "modulus", p.key, 0) \o (Says(d, "serverkey", p.key, 0) \o
             (Says(d, "credentials", ARD_CREDENTIALS_LEN, 0) \o (Says(d, "clientkey", p.key, 0) \o Verdict(p, d)))))
      BY <2>2, <3>1, Zenon DEF Proof
    <3> QED BY <3>2, Zenon
  <2>3. CASE p.sec = NONE
    <3>1. Proof(p, d) = Verdict(p, d)
      BY <2>3 DEF Proof, VNC_AUTHENTICATION, DIFFIE_HELLMAN, NONE
    <3> QED BY <3>1
  <2>4. CASE p.sec # NONE /\ p.sec # VNC_AUTHENTICATION /\ p.sec # DIFFIE_HELLMAN
    <3>1. Proof(p, d) = Says(d, "ask", 2, 0) \o (Says(d, "secret", 2, 0) \o Verdict(p, d))
      BY <2>4 DEF Proof
    <3> QED BY <3>1
  <2> QED BY <2>1, <2>2, <2>3, <2>4
<1>4. Known(r1)
  BY <1>1, <1>2, KnownFields
<1>5. Known(k1)
  BY <1>1, <1>2, KnownFields
<1>6. Known(a1)
  BY <1>1, <1>2, KnownFields
<1>7. Known(r2)
  <2> HIDE DEF r1
  <2> QED BY <1>1, <1>4, KnownFields
<1>8. Known(a2)
  <2> HIDE DEF a1
  <2> QED BY <1>1, <1>6, KnownFields
<1>9. Known(k2)
  <2> HIDE DEF k1
  <2> QED BY <1>1, <1>5, KnownFields
<1>10. Known(k3)
  <2> HIDE DEF k2
  <2> QED BY <1>1, <1>9, KnownFields
<1>11. Known(k4)
  <2> HIDE DEF k3
  <2> QED BY <1>1, <1>10, KnownFields
<1>12. Known(k5)
  <2> HIDE DEF k4
  <2> QED BY <1>1, <1>11, KnownFields
<1>13. Known(V)
  BY <1>2
<1> HIDE DEF V, r2, k5, a2
<1> QED BY <1>3, <1>7, <1>8, <1>12, <1>13

\* and so of all of it.
LEMMA StreamKnown ==
  ASSUME NEW p \in Session, NEW d \in Directions
  PROVE  Known(Streams(p)[d])
<1>1. p.types \in Nat /\ p.sec \in Nat /\ p.reply \in Nat /\ 0 \in Nat /\ 1 \in Nat /\ 4 \in Nat /\ 12 \in Nat /\ 3008 \in Nat
  BY SessionFacts
<1>2. Known(Proof(p, d)) /\ Known(Reason(d))
  BY KnownProof, KnownOpening
<1> DEFINE b  == IF p.sec = INVALID THEN Reason(d) ELSE Proof(p, d)
           c1 == Says(d, "choice", 1, p.sec) \o Proof(p, d)
           c2 == Says(d, "types", p.types, p.sec) \o c1
           c3 == Says(d, "count", 1, p.types) \o c2
           c4 == Says(d, "count", 1, 0) \o Reason(d)
           c5 == Says(d, "auth", 4, p.sec) \o b
<1>3. Offer(p, d) = c3 \/ Offer(p, d) = c4 \/ Offer(p, d) = c5
  <2>0. Offer(p, d) = IF Version(p) < 3007 THEN c5 ELSE IF p.sec = INVALID THEN c4 ELSE c3
    BY Zenon DEF Offer
  <2> HIDE DEF c3, c4, c5
  <2> QED BY <2>0
<1>4. Known(b)
  BY <1>2
<1>5. Known(c1)
  BY <1>1, <1>2, KnownFields
<1>6. Known(c2)
  <2> HIDE DEF c1
  <2> QED BY <1>1, <1>5, KnownFields
<1>7. Known(c3)
  <2> HIDE DEF c2
  <2> QED BY <1>1, <1>6, KnownFields
<1>8. Known(c4)
  BY <1>1, <1>2, KnownFields
<1>9. Known(c5)
  <2> HIDE DEF b
  <2> QED BY <1>1, <1>4, KnownFields
<1>10. Known(Offer(p, d))
  <2> HIDE DEF c3, c4, c5
  <2> QED BY <1>3, <1>7, <1>8, <1>9
<1> DEFINE x == Says(d, "reply", 12, p.reply) \o Offer(p, d)
           y == Says(d, "version", 12, 3008) \o x
<1>11. Known(x)
  BY <1>1, <1>10, KnownFields
<1>12. Known(y)
  <2> HIDE DEF x
  <2> QED BY <1>1, <1>11, KnownFields
<1>13. Streams(p)[d] = y
  BY DEF Streams
<1> HIDE DEF y
<1> QED BY <1>12, <1>13

\* What is to come of a session is known too.
LEMMA EndKnown ==
  ASSUME NEW p \in Session, NEW d \in Directions, NEW w \in Seq(All), EndOf(w, Streams(p)[d])
  PROVE  Known(w)
<1>1. PICK s : s = Streams(p)[d]
  OBVIOUS
<1>2. Known(s)
  BY <1>1, StreamKnown
<1>3. Len(s) \in Nat /\ Len(w) \in Nat /\ DOMAIN s = 1..Len(s) /\ DOMAIN w = 1..Len(w)
  BY <1>2, LenProperties DEF Known
<1>4. Len(w) <= Len(s) /\ \A i \in 1..Len(w) : w[i] = s[(Len(s) - Len(w)) + i]
  BY <1>1 DEF EndOf
<1>5. ASSUME NEW i \in 1..Len(w), w[i].f = "input"
      PROVE  w[i].v[1] \in Kinds
  <2>1. PICK k : k = (Len(s) - Len(w)) + i
    OBVIOUS
  <2>2. k \in DOMAIN s /\ w[i] = s[k]
    BY <2>1, <1>3, <1>4
  <2> QED BY <2>2, <1>2, <1>5 DEF Known
<1> QED BY <1>3, <1>5 DEF Known

-----------------------------------------------------------------------------
(* The observer in step *)

\* In every session its state is that of an observer; in those Followed it
\* waits for what comes next, and the decoder is started where the server is.
InStep ==
    /\ Hears(observer, session, ToHear("c2s")) /\ Rests(observer)
    /\ LockStep(session, wire["c2s"], wire["s2c"], ToHear("s2c"))
    /\ Started(session, observer, ToHear("s2c"))

ObserverInv ==
    phase = "record" =>
        /\ Tended(observer)
        /\ heard \in Seq(All) /\ (feeding # "none" => heard # <<>>)
        /\ \A d \in Directions : EndOf(ToHear(d), Streams(session)[d])
        /\ Followed => InStep

\* What is not being fed is on the wire.
LEMMA OnTheWire ==
  ASSUME NEW d \in Directions, wire[d] \in Seq(All), feeding # d
  PROVE  ToHear(d) = wire[d]
<1>1. <<>> \o wire[d] = wire[d]
  BY ConcatEmptySeq
<1> QED BY <1>1 DEF ToHear, Fed

\* The sessions followed stay the ones followed.
LEMMA FollowedOn ==
  ASSUME session' = session, observer'.required = observer.required, Followed'
  PROVE  Followed
BY DEF Followed

\* What comes is the end of a direction, whichever part of it is taken away.
LEMMA Directed == Directions = {"c2s", "s2c"} /\ Other("c2s") = "s2c" /\ Other("s2c") = "c2s"
BY DEF Directions, Other

\* When the connection is made the observer waits for the client's version.
LEMMA InitTells ==
  ASSUME RecordInit
  PROVE  ObserverInv
<1>1. IInv /\ phase = "record" /\ feeding = "none" /\ heard = <<>> /\ wire = Streams(session)
  <2>1. IInv
    BY InitKeeps
  <2>2. phase = "record" /\ feeding = "none" /\ heard = <<>> /\ wire = Streams(session)
    BY DEF RecordInit
  <2> QED BY <2>1, <2>2
<1>2. session \in Session /\ wire \in [Directions -> Seq(All)]
  BY <1>1 DEF IInv, Typed
<1>3. \E r \in BOOLEAN : observer = Observer(r)
  <2>1. \E p \in Sessions : \E required \in PasswordRequired(p) : observer = Observer(required)
    BY DEF RecordInit
  <2>2. PICK p \in Sessions : \E required \in PasswordRequired(p) : observer = Observer(required)
    BY <2>1
  <2>3. CASE Version(p) < 3007
    <3>1. PasswordRequired(p) = BOOLEAN
      BY <2>3 DEF PasswordRequired
    <3> QED BY <2>2, <3>1
  <2>4. CASE ~ (Version(p) < 3007)
    <3>1. PasswordRequired(p) = {FALSE}
      BY <2>4 DEF PasswordRequired
    <3> QED BY <2>2, <3>1
  <2> QED BY <2>3, <2>4
<1>4. PICK r \in BOOLEAN : observer = Observer(r)
  BY <1>3
<1>5. /\ observer.handler = "version" /\ observer.need = 12 /\ observer.buffer = <<>> /\ observer.required = r
      /\ observer.handled = <<>> /\ ~ observer.raised /\ observer.started = "none"
  BY <1>4 DEF Observer
<1>6. Tended(observer)
  <2>1. observer \in Observers
    BY <1>4 DEF Observer, Observers, Handshake
  <2>2. Known(observer.buffer)
    BY <1>5 DEF Known
  <2> QED BY <1>5, <2>1, <2>2 DEF Tended
<1>7. \A d \in Directions : wire[d] \in Seq(All) /\ ToHear(d) = wire[d] /\ wire[d] = Streams(session)[d]
  <2> TAKE d \in Directions
  <2>1. wire[d] \in Seq(All)
    BY <1>2
  <2>2. ToHear(d) = wire[d]
    BY <2>1, <1>1, OnTheWire, Sides
  <2> QED BY <2>1, <2>2, <1>1
<1>8. \A d \in Directions : EndOf(ToHear(d), Streams(session)[d])
  <2> TAKE d \in Directions
  <2>1. PICK s : s = ToHear(d)
    OBVIOUS
  <2>2. s \in Seq(All) /\ s = Streams(session)[d]
    BY <2>1, <1>7
  <2>3. Len(s) \in Nat /\ \A i \in 1..Len(s) : (Len(s) - Len(s)) + i = i
    BY <2>2
  <2>4. EndOf(s, s)
    BY <2>3 DEF EndOf
  <2> QED BY <2>1, <2>2, <2>4
<1>9. ASSUME Followed
      PROVE  InStep
  <2>1. Readable(session)
    BY <1>9, <1>2, FollowedSession
  <2>2. PICK c : c = ToHear("c2s")
    OBVIOUS
  <2>3. PICK s : s = ToHear("s2c")
    OBVIOUS
  <2>4. c \in Seq(All) /\ s \in Seq(All) /\ wire["c2s"] = c /\ wire["s2c"] = s /\ c = Streams(session)["c2s"]
        /\ s = Streams(session)["s2c"]
    BY <2>2, <2>3, <1>7, Directed
  <2>5. Hears(observer, session, c)
    <3>1. Streams(session)["c2s"] = Says("c2s", "version", 12, 3008) \o (Says("c2s", "reply", 12, session.reply) \o Offer(session, "c2s"))
      BY Directed DEF Streams
    <3>2. Says("c2s", "version", 12, 3008) = <<>>
      BY DEF Says, From, Tap
    <3>3. Rest(session, "reply", "c2s") = Says("c2s", "reply", 12, session.reply) \o Offer(session, "c2s")
      <4>1. Size0(session, "reply") = 12 /\ Value(session, "reply") = session.reply
        BY DEF Size0, Value
      <4>2. Later(session, "reply", "c2s") = Offer(session, "c2s")
        BY DEF Later
      <4> QED BY <4>1, <4>2 DEF Rest
    <3>4. PICK x : x = Rest(session, "reply", "c2s")
      OBVIOUS
    <3>5. x \in Seq(All)
      BY <3>4, <1>2, RestLength
    <3>6. PICK e : e = <<>> /\ c = e \o x
      <4>1. PICK y : y = Says("c2s", "reply", 12, session.reply) \o Offer(session, "c2s")
        OBVIOUS
      <4>2. c = Says("c2s", "version", 12, 3008) \o y
        <5>1. c = Streams(session)["c2s"]
          BY <2>4
        <5> QED BY <4>1, <3>1, <5>1
      <4>3. x = y
        BY <4>1, <3>3, <3>4, Zenon
      <4> QED BY <4>2, <4>3, <3>2
    <3>7. c = x
      BY <3>5, <3>6, ConcatEmptySeq
    <3>8. observer.buffer \o c = x
      BY <3>5, <3>7, <1>5, ConcatEmptySeq
    <3>9. Greeting(observer, session, c)
      BY <3>4, <3>8, <1>5 DEF Greeting, Holds
    <3> QED BY <3>9, <1>5 DEF Hears
  <2>6. Rests(observer)
    BY <1>5 DEF Rests
  <2>7. ASSUME ~ Refused(session)
        PROVE  Len(s) >= 28
    <3>1. Leading(s, Opening(session, "s2c"))
      BY <2>1, <2>4, <2>7, <1>2, StreamOpens, Directed
    <3>2. Opening(session, "s2c") \in Seq(All) /\ Len(Opening(session, "s2c")) = 28
      BY <2>1, <1>2, Opened
    <3>3. PICK z : z = Opening(session, "s2c")
      OBVIOUS
    <3>4. PICK a : Early(a) /\ s = a \o z
      BY <3>1, <3>3 DEF Leading
    <3>5. a \in Seq(All) /\ z \in Seq(All) /\ Len(z) = 28
      BY <3>2, <3>3, <3>4 DEF Early
    <3>6. Len(s) = Len(a) + 28 /\ Len(a) \in Nat
      <4>1. Len(a \o z) = Len(a) + Len(z) /\ Len(a) \in Nat
        <5>1. Len(a) \in Nat
          BY <3>5, LenProperties
        <5>2. Len(a \o z) = Len(a) + Len(z)
          BY <3>5, ConcatProperties
        <5> QED BY <5>1, <5>2
      <4> QED BY <4>1, <3>4, <3>5
    <3> QED BY <3>6
  <2>8. LockStep(session, c, s, s)
    <3>1. ~ Refused(session) => ~ Spoke(session, c)
      <4>1. observer \in Observers /\ observer.handler \in Handshake
        BY <1>5, <1>6 DEF Tended, Handshake
      <4> QED BY <1>2, <2>1, <2>4, <2>5, <2>6, <4>1, HandshakeAhead
    <3> QED BY <3>1, <2>7 DEF LockStep
  <2>9. Started(session, observer, s)
    <3>1. ~ (~ Refused(session) /\ Len(s) < 28)
      BY <2>7, <2>4
    <3> QED BY <3>1, <1>5 DEF Started
  <2> QED BY <2>2, <2>3, <2>4, <2>5, <2>6, <2>8, <2>9 DEF InStep
<1>10. heard \in Seq(All) /\ (feeding # "none" => heard # <<>>)
  BY <1>1
<1> QED BY <1>6, <1>8, <1>9, <1>10 DEF ObserverInv

\* What is delivered, and what is still on the wire.
LEMMA Delivered ==
  ASSUME IInv, NEW d \in Directions, NEW n \in Cuts(wire[d], wire[Other(d)]), Deliver(d, n),
         NEW x, x = SubSeq(wire[d], 1, n), NEW y, y = SubSeq(wire[d], n + 1, Len(wire[d]))
  PROVE  /\ phase = "record" /\ feeding = "none" /\ session \in Session /\ session' = session
         /\ wire[d] \in Seq(All) /\ wire[Other(d)] \in Seq(All) /\ wire'[d] = y /\ wire'[Other(d)] = wire[Other(d)]
         /\ n \in DOMAIN wire[d] /\ Ready(wire[d], wire[Other(d)], n)
         /\ x \in Seq(All) /\ y \in Seq(All) /\ x # <<>> /\ x \o y = wire[d]
         /\ \/ feeding' = d /\ heard' = x /\ observer' = observer
            \/ feeding' = feeding /\ heard' = heard
               /\ observer' = IF d = "c2s" THEN HearClient(observer, x) ELSE HearServer(observer, x)
<1>1. phase = "record" /\ feeding = "none" /\ session' = session /\ wire' = [wire EXCEPT ![d] = y]
  BY DEF Deliver
<1>2. session \in Session /\ wire \in [Directions -> Seq(All)] /\ Other(d) \in Directions /\ Other(d) # d
  BY Sides DEF IInv, Typed
<1>3. wire[d] \in Seq(All) /\ wire[Other(d)] \in Seq(All) /\ wire'[d] = y /\ wire'[Other(d)] = wire[Other(d)]
  BY <1>1, <1>2
<1>4. n \in DOMAIN wire[d] /\ Ready(wire[d], wire[Other(d)], n)
  BY DEF Cuts
<1>5. PICK w : w = wire[d]
  OBVIOUS
<1>6. x \in Seq(All) /\ y \in Seq(All) /\ Len(x) = n /\ x \o y = w /\ n \in Nat /\ n >= 1
  <2>1. w \in Seq(All) /\ n \in DOMAIN w /\ x = SubSeq(w, 1, n) /\ y = SubSeq(w, n + 1, Len(w))
    BY <1>3, <1>4, <1>5
  <2>2. x \in Seq(All) /\ y \in Seq(All) /\ Len(x) = n /\ x \o y = w
    <3>1. x \in Seq(All) /\ y \in Seq(All)
      <4>1. SubSeq(w, 1, n) \in Seq(All)
        BY <2>1, InTwo
      <4>2. SubSeq(w, n + 1, Len(w)) \in Seq(All)
        BY <2>1, InTwo
      <4> QED BY <2>1, <4>1, <4>2, Zenon
    <3>2. Len(x) = n
      BY <2>1, InTwo
    <3>3. x \o y = w
      BY <2>1, InTwo
    <3> QED BY <3>1, <3>2, <3>3
  <2>3. n \in Nat /\ n >= 1
    BY <2>1, LenProperties
  <2> QED BY <2>2, <2>3
<1>7. x # <<>>
  <2>1. Len(x) # 0
    BY <1>6
  <2> QED BY <2>1, <1>6, EmptySeq
<1>8. \/ feeding' = d /\ heard' = x /\ observer' = observer
      \/ feeding' = feeding /\ heard' = heard
         /\ observer' = IF d = "c2s" THEN HearClient(observer, x) ELSE HearServer(observer, x)
  BY DEF Deliver, Observe
<1> QED BY <1>1, <1>2, <1>3, <1>4, <1>5, <1>6, <1>7, <1>8

\* What is on the wire while nothing is fed.
LEMMA AtRest ==
  ASSUME ObserverInv, phase = "record", feeding = "none", wire["c2s"] \in Seq(All), wire["s2c"] \in Seq(All)
  PROVE  /\ Tended(observer) /\ heard \in Seq(All)
         /\ EndOf(wire["c2s"], Streams(session)["c2s"]) /\ EndOf(wire["s2c"], Streams(session)["s2c"])
         /\ Followed => /\ Hears(observer, session, wire["c2s"]) /\ Rests(observer)
                        /\ LockStep(session, wire["c2s"], wire["s2c"], wire["s2c"])
                        /\ Started(session, observer, wire["s2c"])
<1>1. ToHear("c2s") = wire["c2s"] /\ ToHear("s2c") = wire["s2c"]
  BY OnTheWire, Directed
<1> QED BY <1>1, Directed DEF ObserverInv, InStep

\* dataReceived of the client's bytes.
LEMMA DeliverClient ==
  ASSUME IInv, ObserverInv, NEW n \in Cuts(wire["c2s"], wire["s2c"]), Deliver("c2s", n)
  PROVE  ObserverInv'
<1>1. PICK x : x = SubSeq(wire["c2s"], 1, n)
  OBVIOUS
<1>2. PICK y : y = SubSeq(wire["c2s"], n + 1, Len(wire["c2s"]))
  OBVIOUS
<1>3. /\ phase = "record" /\ feeding = "none" /\ session \in Session /\ session' = session
      /\ wire["c2s"] \in Seq(All) /\ wire["s2c"] \in Seq(All) /\ wire'["c2s"] = y /\ wire'["s2c"] = wire["s2c"]
      /\ n \in DOMAIN wire["c2s"] /\ Ready(wire["c2s"], wire["s2c"], n)
      /\ x \in Seq(All) /\ y \in Seq(All) /\ x # <<>> /\ x \o y = wire["c2s"]
      /\ \/ feeding' = "c2s" /\ heard' = x /\ observer' = observer
         \/ feeding' = feeding /\ heard' = heard /\ observer' = HearClient(observer, x)
  <2>1. PICK d \in Directions : d = "c2s" /\ Other(d) = "s2c"
    BY Directed
  <2>2. n \in Cuts(wire[d], wire[Other(d)]) /\ Deliver(d, n) /\ x = SubSeq(wire[d], 1, n) /\ y = SubSeq(wire[d], n + 1, Len(wire[d]))
    BY <2>1, <1>1, <1>2
  <2>0. d \in Directions
    BY <2>1
  <2>3. /\ phase = "record" /\ feeding = "none" /\ session \in Session /\ session' = session
        /\ wire[d] \in Seq(All) /\ wire[Other(d)] \in Seq(All) /\ wire'[d] = y /\ wire'[Other(d)] = wire[Other(d)]
        /\ n \in DOMAIN wire[d] /\ Ready(wire[d], wire[Other(d)], n)
        /\ x \in Seq(All) /\ y \in Seq(All) /\ x # <<>> /\ x \o y = wire[d]
    <3>1. phase = "record" /\ feeding = "none" /\ session \in Session /\ session' = session
      BY <2>0, <2>2, Delivered
    <3>2. wire[d] \in Seq(All) /\ wire[Other(d)] \in Seq(All) /\ wire'[d] = y /\ wire'[Other(d)] = wire[Other(d)]
      BY <2>0, <2>2, Delivered
    <3>3. n \in DOMAIN wire[d] /\ Ready(wire[d], wire[Other(d)], n)
      BY <2>0, <2>2, Delivered
    <3>4. x \in Seq(All) /\ y \in Seq(All) /\ x # <<>>
      BY <2>0, <2>2, Delivered
    <3>5. x \o y = wire[d]
      BY <2>2, <3>2, <3>3, InTwo
    <3> QED BY <3>1, <3>2, <3>3, <3>4, <3>5
  <2>4. \/ feeding' = d /\ heard' = x /\ observer' = observer
        \/ feeding' = feeding /\ heard' = heard
           /\ observer' = IF d = "c2s" THEN HearClient(observer, x) ELSE HearServer(observer, x)
    BY <2>2 DEF Deliver, Observe
  <2> QED BY <2>1, <2>3, <2>4
<1>4. \/ feeding' = "c2s" /\ heard' = x /\ observer' = observer
      \/ feeding' = feeding /\ heard' = heard /\ observer' = HearClient(observer, x)
  BY <1>3
<1>5. PICK c : c = wire["c2s"]
  OBVIOUS
<1>6. PICK v : v = wire["s2c"]
  OBVIOUS
<1>7. /\ Tended(observer) /\ heard \in Seq(All) /\ EndOf(c, Streams(session)["c2s"]) /\ EndOf(v, Streams(session)["s2c"])
      /\ Followed => Hears(observer, session, c) /\ Rests(observer) /\ LockStep(session, c, v, v)
                     /\ Started(session, observer, v)
  BY <1>3, <1>5, <1>6, AtRest
<1>8. c \in Seq(All) /\ v \in Seq(All) /\ n \in DOMAIN c /\ Ready(c, v, n) /\ x \o y = c /\ y = SubSeq(c, n + 1, Len(c))
  BY <1>2, <1>3, <1>5, <1>6
<1>9. Fed("s2c")' = <<>> /\ ToHear("s2c")' = v
  <2>1. Fed("s2c")' = <<>>
    BY <1>3, <1>4 DEF Fed
  <2>2. <<>> \o v = v
    BY <1>8, ConcatEmptySeq
  <2> QED BY <2>1, <2>2, <1>3, <1>6 DEF ToHear
<1>10. Followed => LockStep(session, y, v, v)
  BY <1>3, <1>7, <1>8, ClientSpeaks, FollowedSession
<1>11. CASE feeding' = "c2s" /\ heard' = x /\ observer' = observer
  <2>1. ToHear("c2s")' = c
    BY <1>3, <1>8, <1>11 DEF ToHear, Fed
  <2>2. Followed' => Followed
    BY <1>3, <1>11, FollowedOn
  <2>3. Followed' => InStep'
    BY <1>3, <1>6, <1>7, <1>9, <1>10, <1>11, <2>1, <2>2 DEF InStep
  <2>4. EndOf(ToHear("c2s"), Streams(session)["c2s"])' /\ EndOf(ToHear("s2c"), Streams(session)["s2c"])'
    BY <1>3, <1>7, <1>9, <2>1
  <2> QED BY <1>3, <1>7, <1>11, <2>3, <2>4, Directed DEF ObserverInv
<1>12. CASE feeding' = feeding /\ heard' = heard /\ observer' = HearClient(observer, x)
  <2>1. ToHear("c2s")' = y
    <3>1. <<>> \o y = y
      BY <1>3, ConcatEmptySeq
    <3>2. Fed("c2s")' = <<>>
      BY <1>3, <1>12 DEF Fed
    <3> QED BY <3>1, <3>2, <1>3 DEF ToHear
  <2>2. PICK r : r = observer'
    OBVIOUS
  <2>3. Keeps(observer, r)
    <3>1. Known(c)
      BY <1>3, <1>7, <1>8, EndKnown, Directed
    <3>2. Known(x)
      BY <3>1, <1>3, <1>8, KnownParts
    <3> QED BY <3>2, <1>7, <1>12, <2>2, HearClientTended
  <2>4. Followed' => Followed
    BY <2>2, <2>3, <1>3, FollowedOn DEF Keeps
  <2>5. ASSUME Followed
        PROVE  Hears(r, session, y) /\ Rests(r) /\ r.started = observer.started
    <3>1. Readable(session) /\ Told(observer, session) /\ observer \in Observers
      BY <2>5, <1>3, <1>7, FollowedSession DEF Tended
    <3>2. Hears(observer, session, x \o y)
      BY <2>5, <1>7, <1>8
    <3>3. Comes(observer, r, session, y) /\ Rests(r)
      BY <3>1, <3>2, <1>3, <1>12, <2>2, HearClientKeeps
    <3> QED BY <3>3 DEF Comes
  <2>6. Followed => Started(session, r, v)
    BY <2>5, <1>7 DEF Started
  <2>7. Followed' => InStep'
    BY <1>3, <1>6, <1>9, <1>10, <2>1, <2>2, <2>4, <2>5, <2>6 DEF InStep
  <2>8. EndOf(y, Streams(session)["c2s"])
    <3>1. PICK s : s = Streams(session)["c2s"]
      OBVIOUS
    <3>2. s \in Seq(All)
      BY <3>1, <1>3, StreamKnown, Directed DEF Known
    <3>3. EndOf(x \o y, s) /\ Len(s) \in Nat
      <4>1. Len(s) \in Nat
        BY <3>2, LenProperties
      <4>2. EndOf(x \o y, s)
        BY <3>1, <1>7, <1>8
      <4> QED BY <4>1, <4>2
    <3> QED BY <3>1, <3>3, <1>3, EndOfBehind
  <2>9. EndOf(ToHear("c2s"), Streams(session)["c2s"])' /\ EndOf(ToHear("s2c"), Streams(session)["s2c"])'
    BY <1>3, <1>7, <1>9, <2>1, <2>8
  <2>10. Tended(observer)'
    BY <2>2, <2>3 DEF Keeps
  <2> QED BY <1>3, <1>7, <1>12, <2>7, <2>9, <2>10, Directed DEF ObserverInv
<1> QED BY <1>4, <1>11, <1>12

\* dataReceived of the server's bytes.
LEMMA DeliverServer ==
  ASSUME IInv, ObserverInv, NEW n \in Cuts(wire["s2c"], wire["c2s"]), Deliver("s2c", n)
  PROVE  ObserverInv'
<1>1. PICK x : x = SubSeq(wire["s2c"], 1, n)
  OBVIOUS
<1>2. PICK y : y = SubSeq(wire["s2c"], n + 1, Len(wire["s2c"]))
  OBVIOUS
<1>3. /\ phase = "record" /\ feeding = "none" /\ session \in Session /\ session' = session
      /\ wire["s2c"] \in Seq(All) /\ wire["c2s"] \in Seq(All) /\ wire'["s2c"] = y /\ wire'["c2s"] = wire["c2s"]
      /\ n \in DOMAIN wire["s2c"] /\ Ready(wire["s2c"], wire["c2s"], n)
      /\ x \in Seq(All) /\ y \in Seq(All) /\ x # <<>> /\ x \o y = wire["s2c"]
      /\ \/ feeding' = "s2c" /\ heard' = x /\ observer' = observer
         \/ feeding' = feeding /\ heard' = heard /\ observer' = HearServer(observer, x)
  <2>1. PICK d \in Directions : d = "s2c" /\ Other(d) = "c2s"
    BY Directed
  <2>2. n \in Cuts(wire[d], wire[Other(d)]) /\ Deliver(d, n) /\ x = SubSeq(wire[d], 1, n) /\ y = SubSeq(wire[d], n + 1, Len(wire[d]))
    BY <2>1, <1>1, <1>2
  <2>0. d \in Directions
    BY <2>1
  <2>3. /\ phase = "record" /\ feeding = "none" /\ session \in Session /\ session' = session
        /\ wire[d] \in Seq(All) /\ wire[Other(d)] \in Seq(All) /\ wire'[d] = y /\ wire'[Other(d)] = wire[Other(d)]
        /\ n \in DOMAIN wire[d] /\ Ready(wire[d], wire[Other(d)], n)
        /\ x \in Seq(All) /\ y \in Seq(All) /\ x # <<>> /\ x \o y = wire[d]
    <3>1. phase = "record" /\ feeding = "none" /\ session \in Session /\ session' = session
      BY <2>0, <2>2, Delivered
    <3>2. wire[d] \in Seq(All) /\ wire[Other(d)] \in Seq(All) /\ wire'[d] = y /\ wire'[Other(d)] = wire[Other(d)]
      BY <2>0, <2>2, Delivered
    <3>3. n \in DOMAIN wire[d] /\ Ready(wire[d], wire[Other(d)], n)
      BY <2>0, <2>2, Delivered
    <3>4. x \in Seq(All) /\ y \in Seq(All) /\ x # <<>>
      BY <2>0, <2>2, Delivered
    <3>5. x \o y = wire[d]
      BY <2>2, <3>2, <3>3, InTwo
    <3> QED BY <3>1, <3>2, <3>3, <3>4, <3>5
  <2>4. \/ feeding' = d /\ heard' = x /\ observer' = observer
        \/ feeding' = feeding /\ heard' = heard
           /\ observer' = IF d = "c2s" THEN HearClient(observer, x) ELSE HearServer(observer, x)
    BY <2>2 DEF Deliver, Observe
  <2> QED BY <2>1, <2>3, <2>4
<1>4. \/ feeding' = "s2c" /\ heard' = x /\ observer' = observer
      \/ feeding' = feeding /\ heard' = heard /\ observer' = HearServer(observer, x)
  BY <1>3
<1>5. PICK c : c = wire["c2s"]
  OBVIOUS
<1>6. PICK v : v = wire["s2c"]
  OBVIOUS
<1>7. /\ Tended(observer) /\ heard \in Seq(All) /\ EndOf(c, Streams(session)["c2s"]) /\ EndOf(v, Streams(session)["s2c"])
      /\ Followed => Hears(observer, session, c) /\ Rests(observer) /\ LockStep(session, c, v, v)
                     /\ Started(session, observer, v)
  BY <1>3, <1>5, <1>6, AtRest
<1>8. c \in Seq(All) /\ v \in Seq(All) /\ n \in DOMAIN v /\ Ready(v, c, n) /\ x \o y = v /\ y = SubSeq(v, n + 1, Len(v))
  BY <1>2, <1>3, <1>5, <1>6
<1>9. Fed("c2s")' = <<>> /\ ToHear("c2s")' = c
  <2>1. Fed("c2s")' = <<>>
    BY <1>3, <1>4 DEF Fed
  <2>2. <<>> \o c = c
    BY <1>8, ConcatEmptySeq
  <2> QED BY <2>1, <2>2, <1>3, <1>5 DEF ToHear
<1>10. Followed => LockStep(session, c, y, v) /\ LockStep(session, c, y, y)
  BY <1>3, <1>7, <1>8, ServerSpeaks, FollowedSession
<1>11. CASE feeding' = "s2c" /\ heard' = x /\ observer' = observer
  <2>1. ToHear("s2c")' = v
    BY <1>3, <1>8, <1>11 DEF ToHear, Fed
  <2>2. Followed' => Followed
    BY <1>3, <1>11, FollowedOn
  <2>3. Followed' => InStep'
    BY <1>3, <1>5, <1>7, <1>9, <1>10, <1>11, <2>1, <2>2 DEF InStep
  <2>4. EndOf(ToHear("c2s"), Streams(session)["c2s"])' /\ EndOf(ToHear("s2c"), Streams(session)["s2c"])'
    BY <1>3, <1>7, <1>9, <2>1
  <2> QED BY <1>3, <1>7, <1>11, <2>3, <2>4, Directed DEF ObserverInv
<1>12. CASE feeding' = feeding /\ heard' = heard /\ observer' = HearServer(observer, x)
  <2>1. ToHear("s2c")' = y
    <3>1. <<>> \o y = y
      BY <1>3, ConcatEmptySeq
    <3>2. Fed("s2c")' = <<>>
      BY <1>3, <1>12 DEF Fed
    <3> QED BY <3>1, <3>2, <1>3 DEF ToHear
  <2>2. PICK r : r = observer'
    OBVIOUS
  <2>3. Keeps(observer, r)
    BY <1>3, <1>7, <1>12, <2>2, HearServerTended
  <2>4. Followed' => Followed
    BY <2>2, <2>3, <1>3, FollowedOn DEF Keeps
  <2>5. ASSUME Followed
        PROVE  Hears(r, session, c) /\ Rests(r) /\ Started(session, r, y)
    <3>1. Readable(session) /\ observer \in Observers
      BY <2>5, <1>3, <1>7, FollowedSession DEF Tended
    <3>2. /\ Hears(observer, session, c) /\ Rests(observer) /\ v = x \o y /\ EndOf(v, Streams(session)["s2c"])
          /\ LockStep(session, c, y, v) /\ Started(session, observer, v)
      BY <2>5, <1>7, <1>8, <1>10
    <3> QED BY <3>1, <3>2, <1>3, <1>8, <1>12, <2>2, HearServerStarts
  <2>6. Followed' => InStep'
    BY <1>3, <1>5, <1>9, <1>10, <2>1, <2>2, <2>4, <2>5 DEF InStep
  <2>7. EndOf(y, Streams(session)["s2c"])
    <3>1. PICK s : s = Streams(session)["s2c"]
      OBVIOUS
    <3>2. s \in Seq(All)
      BY <3>1, <1>3, StreamKnown, Directed DEF Known
    <3>3. EndOf(x \o y, s) /\ Len(s) \in Nat
      <4>1. Len(s) \in Nat
        BY <3>2, LenProperties
      <4>2. EndOf(x \o y, s)
        BY <3>1, <1>7, <1>8
      <4> QED BY <4>1, <4>2
    <3> QED BY <3>1, <3>3, <1>3, EndOfBehind
  <2>8. EndOf(ToHear("c2s"), Streams(session)["c2s"])' /\ EndOf(ToHear("s2c"), Streams(session)["s2c"])'
    BY <1>3, <1>7, <1>9, <2>1, <2>7
  <2>9. Tended(observer)'
    BY <2>2, <2>3 DEF Keeps
  <2> QED BY <1>3, <1>7, <1>12, <2>6, <2>8, <2>9, Directed DEF ObserverInv
<1> QED BY <1>4, <1>11, <1>12

\* What is fed, and what is still on the wire.
LEMMA FeedOver ==
  ASSUME IInv, ObserverInv, NEW d \in Directions, FeedEnds(d), ~ scrubber.abort
  PROVE  /\ phase = "record" /\ phase' = phase /\ session \in Session /\ session' = session /\ wire' = wire
         /\ wire["c2s"] \in Seq(All) /\ wire["s2c"] \in Seq(All) /\ heard \in Seq(All) /\ heard # <<>>
         /\ heard' \in Seq(All) /\ feeding' = "none"
         /\ ToHear(d) = heard \o wire[d] /\ ToHear(Other(d)) = wire[Other(d)]
         /\ \A e \in Directions : ToHear(e)' = wire[e]
<1>1. feeding = d /\ phase = "record" /\ session \in Session /\ wire \in [Directions -> Seq(All)] /\ Other(d) \in Directions
      /\ Other(d) # d /\ d # "none"
  <2>1. feeding = d /\ Other(d) \in Directions /\ Other(d) # d /\ d # "none"
    BY Sides DEF FeedEnds
  <2> QED BY <2>1 DEF IInv, Typed
<1>2. phase' = phase /\ session' = session /\ wire' = wire /\ feeding' = "none" /\ heard' = <<>>
  BY DEF FeedEnds
<1>3. \A e \in Directions : wire[e] \in Seq(All)
  BY <1>1
<1>4. heard \in Seq(All) /\ heard # <<>>
  BY <1>1 DEF ObserverInv
<1>5. ToHear(d) = heard \o wire[d]
  BY <1>1 DEF ToHear, Fed
<1>6. ToHear(Other(d)) = wire[Other(d)]
  BY <1>1, <1>3, OnTheWire
<1>7. ASSUME NEW e \in Directions
      PROVE  ToHear(e)' = wire[e]
  <2>1. <<>> \o wire[e] = wire[e]
    BY <1>3, ConcatEmptySeq
  <2>2. Fed(e)' = <<>>
    BY <1>2, Sides DEF Fed
  <2> QED BY <2>1, <2>2, <1>2 DEF ToHear
<1>8. heard' \in Seq(All)
  BY <1>2
<1> QED BY <1>1, <1>2, <1>3, <1>4, <1>5, <1>6, <1>7, <1>8, Directed

\* Once the data has been fed the observer is given it too: the client's,
LEMMA FeedEndsClient ==
  ASSUME IInv, ObserverInv, FeedEnds("c2s"), ~ scrubber.abort
  PROVE  ObserverInv'
<1>1. "c2s" \in Directions
  BY Directed
<1>2. /\ phase = "record" /\ phase' = phase /\ session \in Session /\ session' = session /\ wire' = wire
      /\ wire["c2s"] \in Seq(All) /\ wire["s2c"] \in Seq(All) /\ heard \in Seq(All) /\ heard # <<>>
      /\ heard' \in Seq(All) /\ feeding' = "none"
  BY <1>1, FeedOver
<1>3. ToHear("c2s") = heard \o wire["c2s"] /\ ToHear("s2c") = wire["s2c"]
  BY <1>1, FeedOver, Directed
<1>4. ToHear("c2s")' = wire["c2s"] /\ ToHear("s2c")' = wire["s2c"]
  BY <1>1, FeedOver, Directed
<1>5. observer' = HearClient(observer, heard)
  BY DEF FeedEnds, Observe
<1>6. PICK c : c = wire["c2s"]
  OBVIOUS
<1>7. PICK v : v = wire["s2c"]
  OBVIOUS
<1>8. PICK a : a = heard
  OBVIOUS
<1>9. a \in Seq(All) /\ c \in Seq(All) /\ v \in Seq(All) /\ observer' = HearClient(observer, a)
  BY <1>2, <1>5, <1>6, <1>7, <1>8
<1>10. Tended(observer) /\ EndOf(a \o c, Streams(session)["c2s"]) /\ EndOf(v, Streams(session)["s2c"])
  <2>1. ToHear("c2s") = a \o c /\ ToHear("s2c") = v
    BY <1>3, <1>6, <1>7, <1>8
  <2> QED BY <1>2, <2>1, Directed DEF ObserverInv
<1>11. ASSUME Followed
       PROVE  Hears(observer, session, a \o c) /\ Rests(observer) /\ LockStep(session, c, v, v) /\ Started(session, observer, v)
  <2>1. ToHear("c2s") = a \o c /\ ToHear("s2c") = v
    BY <1>3, <1>6, <1>7, <1>8
  <2> QED BY <1>2, <1>6, <1>7, <1>11, <2>1 DEF ObserverInv, InStep
<1>12. Keeps(observer, observer')
  <2>1. Known(a \o c)
    <3>1. a \o c \in Seq(All)
      BY <1>9, ConcatProperties
    <3> QED BY <3>1, <1>2, <1>10, EndKnown, Directed
  <2>2. Known(a)
    BY <2>1, <1>9, KnownParts
  <2> QED BY <2>2, <1>9, <1>10, HearClientTended
<1>13. Followed' => Followed
  BY <1>2, <1>12, FollowedOn DEF Keeps
<1>14. ASSUME Followed
       PROVE  Hears(observer', session, c) /\ Rests(observer') /\ LockStep(session, c, v, v) /\ Started(session, observer', v)
  <2>1. Readable(session) /\ Told(observer, session) /\ observer \in Observers
    BY <1>14, <1>2, <1>10, FollowedSession DEF Tended
  <2>2. Comes(observer, observer', session, c) /\ Rests(observer')
    BY <1>11, <1>14, <2>1, <1>2, <1>9, HearClientKeeps
  <2>3. Hears(observer', session, c) /\ observer'.started = observer.started
    BY <2>2 DEF Comes
  <2>4. Started(session, observer', v)
    BY <2>3, <1>11, <1>14 DEF Started
  <2> QED BY <2>2, <2>3, <2>4, <1>11, <1>14
<1>15. Followed' => InStep'
  BY <1>2, <1>4, <1>6, <1>7, <1>13, <1>14 DEF InStep
<1>16. EndOf(c, Streams(session)["c2s"])
  <2>1. PICK s : s = Streams(session)["c2s"]
    OBVIOUS
  <2>2. s \in Seq(All)
    BY <2>1, <1>2, StreamKnown, Directed DEF Known
  <2>3. EndOf(a \o c, s) /\ Len(s) \in Nat
    BY <2>1, <2>2, <1>10
  <2> QED BY <2>1, <2>3, <1>9, EndOfBehind
<1>17. EndOf(ToHear("c2s"), Streams(session)["c2s"])' /\ EndOf(ToHear("s2c"), Streams(session)["s2c"])'
  BY <1>2, <1>4, <1>6, <1>7, <1>10, <1>16
<1>18. Tended(observer)'
  BY <1>12 DEF Keeps
<1> QED BY <1>2, <1>15, <1>17, <1>18, Directed DEF ObserverInv

\* and the server's.
LEMMA FeedEndsServer ==
  ASSUME IInv, ObserverInv, FeedEnds("s2c"), ~ scrubber.abort
  PROVE  ObserverInv'
<1>1. "s2c" \in Directions
  BY Directed
<1>2. /\ phase = "record" /\ phase' = phase /\ session \in Session /\ session' = session /\ wire' = wire
      /\ wire["c2s"] \in Seq(All) /\ wire["s2c"] \in Seq(All) /\ heard \in Seq(All) /\ heard # <<>>
      /\ heard' \in Seq(All) /\ feeding' = "none"
  BY <1>1, FeedOver
<1>3. ToHear("s2c") = heard \o wire["s2c"] /\ ToHear("c2s") = wire["c2s"]
  BY <1>1, FeedOver, Directed
<1>4. ToHear("c2s")' = wire["c2s"] /\ ToHear("s2c")' = wire["s2c"]
  BY <1>1, FeedOver, Directed
<1>5. observer' = HearServer(observer, heard)
  BY DEF FeedEnds, Observe
<1>6. PICK c : c = wire["c2s"]
  OBVIOUS
<1>7. PICK v : v = wire["s2c"]
  OBVIOUS
<1>8. PICK a : a = heard
  OBVIOUS
<1>9. a \in Seq(All) /\ a # <<>> /\ c \in Seq(All) /\ v \in Seq(All) /\ observer' = HearServer(observer, a)
  BY <1>2, <1>5, <1>6, <1>7, <1>8
<1>10. PICK s : s = a \o v
  OBVIOUS
<1>11. ToHear("s2c") = s /\ ToHear("c2s") = c
  BY <1>3, <1>6, <1>7, <1>8, <1>10
<1>12. Tended(observer) /\ EndOf(s, Streams(session)["s2c"]) /\ EndOf(c, Streams(session)["c2s"])
  BY <1>2, <1>11, Directed DEF ObserverInv
<1>13. ASSUME Followed
       PROVE  Hears(observer, session, c) /\ Rests(observer) /\ LockStep(session, c, v, s) /\ Started(session, observer, s)
  BY <1>2, <1>6, <1>7, <1>11, <1>13 DEF ObserverInv, InStep
<1>14. Keeps(observer, observer')
  BY <1>9, <1>12, HearServerTended
<1>15. Followed' => Followed
  BY <1>2, <1>14, FollowedOn DEF Keeps
<1>16. Len(s) = Len(a) + Len(v) /\ Len(a) \in Nat /\ Len(v) \in Nat
  <2>1. Len(a) \in Nat /\ Len(v) \in Nat
    BY <1>9, LenProperties
  <2>2. Len(a \o v) = Len(a) + Len(v)
    BY <1>9, ConcatProperties
  <2> QED BY <2>1, <2>2, <1>10
<1>17. ASSUME Followed
       PROVE  /\ Hears(observer', session, c) /\ Rests(observer') /\ Started(session, observer', v)
              /\ LockStep(session, c, v, v)
  <2>1. Readable(session) /\ observer \in Observers
    BY <1>17, <1>2, <1>12, FollowedSession DEF Tended
  <2>2. Hears(observer', session, c) /\ Rests(observer') /\ Started(session, observer', v)
    BY <1>13, <1>17, <2>1, <1>2, <1>9, <1>10, <1>12, HearServerStarts
  <2>3. LockStep(session, c, v, v)
    <3>1. Len(s) <= 28 => Len(v) <= 28
      BY <1>16
    <3> QED BY <1>13, <1>17, <3>1 DEF LockStep
  <2> QED BY <2>2, <2>3
<1>18. Followed' => InStep'
  BY <1>2, <1>4, <1>6, <1>7, <1>15, <1>17 DEF InStep
<1>19. EndOf(v, Streams(session)["s2c"])
  <2>1. PICK t : t = Streams(session)["s2c"]
    OBVIOUS
  <2>2. t \in Seq(All)
    BY <2>1, <1>2, StreamKnown, Directed DEF Known
  <2>3. EndOf(a \o v, t) /\ Len(t) \in Nat
    BY <2>1, <2>2, <1>10, <1>12
  <2> QED BY <2>1, <2>3, <1>9, EndOfBehind
<1>20. EndOf(ToHear("c2s"), Streams(session)["c2s"])' /\ EndOf(ToHear("s2c"), Streams(session)["s2c"])'
  BY <1>2, <1>4, <1>6, <1>7, <1>12, <1>19
<1>21. Tended(observer)'
  BY <1>14 DEF Keeps
<1> QED BY <1>2, <1>18, <1>20, <1>21, Directed DEF ObserverInv

\* A step that leaves the connection and the observer alone.
LEMMA SameObserver ==
  ASSUME ObserverInv, phase' = phase, session' = session, wire' = wire, feeding' = feeding, heard' = heard,
         observer' = observer
  PROVE  ObserverInv'
<1>1. \A d : ToHear(d)' = ToHear(d)
  BY DEF ToHear, Fed
<1>2. Followed' <=> Followed
  BY DEF Followed
<1>3. InStep' <=> InStep
  BY <1>1 DEF InStep
<1>4. \A d \in Directions : EndOf(ToHear(d), Streams(session)[d])' <=> EndOf(ToHear(d), Streams(session)[d])
  BY <1>1
<1> QED BY <1>1, <1>2, <1>3, <1>4 DEF ObserverInv

\* Every step preserves the invariant.
LEMMA ObserverKeeps == IInv /\ ObserverInv /\ [Next]_vars => ObserverInv'
<1> SUFFICES ASSUME IInv, ObserverInv, [Next]_vars PROVE ObserverInv'
  OBVIOUS
<1>1. CASE RecordNext
  <2>1. ASSUME NEW d \in Directions, Take(d)
        PROVE  ObserverInv'
    BY <2>1, SameObserver DEF Take
  <2>2. ASSUME NEW d \in Directions, FeedEnds(d)
        PROVE  ObserverInv'
    <3>1. CASE scrubber.abort
      <4>1. phase' = "dropped"
        BY <2>2, <3>1 DEF FeedEnds
      <4> QED BY <4>1 DEF ObserverInv
    <3>2. CASE ~ scrubber.abort /\ d = "c2s"
      BY <2>2, <3>2, FeedEndsClient
    <3>3. CASE ~ scrubber.abort /\ d = "s2c"
      BY <2>2, <3>3, FeedEndsServer
    <3> QED BY <3>1, <3>2, <3>3, <2>2, Directed
  <2>3. ASSUME NEW d \in Directions, NEW n \in Cuts(wire[d], wire[Other(d)]), Deliver(d, n)
        PROVE  ObserverInv'
    <3>1. CASE d = "c2s"
      <4>1. n \in Cuts(wire["c2s"], wire["s2c"]) /\ Deliver("c2s", n)
        BY <2>3, <3>1, Directed
      <4> QED BY <4>1, DeliverClient
    <3>2. CASE d = "s2c"
      <4>1. n \in Cuts(wire["s2c"], wire["c2s"]) /\ Deliver("s2c", n)
        BY <2>3, <3>2, Directed
      <4> QED BY <4>1, DeliverServer
    <3> QED BY <3>1, <3>2, <2>3, Directed
  <2>4. CASE ConnectionLost
    <3>1. phase' # "record"
      BY <2>4 DEF ConnectionLost
    <3> QED BY <3>1 DEF ObserverInv
  <2> QED BY <1>1, <2>1, <2>2, <2>3, <2>4 DEF RecordNext
<1>2. CASE ~ RecordNext
  <2>1. UNCHANGED capture
    <3>1. CASE \E reply \in Replies \ {0}, messages \in Scripts : Connect(reply, messages)
      BY <3>1 DEF Connect
    <3>2. CASE Advance
      BY <3>2 DEF Advance, WriteChunk, ReadChunk, Expect, SkipMessage, SeeRequest, AwaitRequest, ServeRest, Exhaust
    <3>3. CASE \E n \in Answers : Receive(n)
      BY <3>3 DEF Receive
    <3>4. CASE Disconnect
      BY <3>4 DEF Disconnect
    <3>5. CASE UNCHANGED vars
      BY <3>5 DEF vars
    <3> QED BY <1>2, <3>1, <3>2, <3>3, <3>4, <3>5 DEF Next
  <2>2. phase' = phase /\ session' = session /\ wire' = wire /\ feeding' = feeding /\ heard' = heard /\ observer' = observer
    BY <2>1 DEF capture
  <2> QED BY <2>2, SameObserver
<1> QED BY <1>1, <1>2

\* What vnclog's observer holds back and has still to be given is the rest of the
\* client's side from the field it waits for on, and later from the beginning of a
\* message on; and it leaves the handshake behind where the client does, so that
\* the server's next byte is the first of ServerInit (loggingproxy.py:RFBServer,
\* dataReceived).
THEOREM ObserverInvariant == Spec => []ObserverInv
<1>1. Init => ObserverInv
  BY InitTells DEF Init
<1>2. IInv /\ ObserverInv /\ [Next]_vars => ObserverInv'
  BY ObserverKeeps
<1> QED BY <1>1, <1>2, CaptureInvariant, PTL DEF Spec

-----------------------------------------------------------------------------
(* What the invariant says of what has been sent *)

\* The first n of a sequence.
LEMMA FirstOf ==
  ASSUME NEW S, NEW s \in Seq(S), NEW n \in Nat, n <= Len(s), NEW u, u = SubSeq(s, 1, n)
  PROVE  /\ u \in Seq(S) /\ Len(u) = n /\ DOMAIN u = 1..n /\ \A i \in 1..n : u[i] = s[i]
         /\ SubSeq(u, 1, Len(u)) = u
<1>1. \A i \in 1..Len(s) : s[i] \in S
  BY ElementOfSeq
<1>2. 1 \in Int /\ n \in Int /\ \A i \in 1..n : s[i] \in S
  BY <1>1, LenProperties
<1>3. /\ u \in Seq(S) /\ Len(u) = (IF 1 <= n THEN n - 1 + 1 ELSE 0)
      /\ \A i \in 1..n - 1 + 1 : u[i] = s[1 + i - 1]
  BY <1>2, SubSeqProperties
<1>4. Len(u) = n /\ \A i \in 1..n : u[i] = s[i]
  BY <1>3
<1>5. DOMAIN u = 1..n
  BY <1>3, <1>4, LenProperties
<1>6. SubSeq(u, 1, Len(u)) = u
  BY <1>3, SubSeqFull
<1> QED BY <1>3, <1>4, <1>5, <1>6

\* The bytes of the first messages are those before the next one.
LEMMA SamePlaces ==
  ASSUME NEW s, NEW u, NEW j \in Int, Len(s) \in Nat, DOMAIN s = 1..Len(s), j - 1 <= Len(s), DOMAIN u = 1..j - 1,
         \A i \in 1..j - 1 : u[i] = s[i]
  PROVE  Extent(u) = Ahead(s, j)
<1>1. ASSUME NEW e, e \in Extent(u)
      PROVE  e \in Ahead(s, j)
  <2>1. PICK i \in DOMAIN u : \E k \in 1..Size[u[i]] : e = <<i, k>>
    BY <1>1, ExtentPlaces
  <2>2. i \in DOMAIN s /\ u[i] = s[i] /\ i < j /\ e[1] = i
    BY <2>1
  <2>3. e \in Extent(s)
    BY <2>1, <2>2, ExtentPlaces
  <2> QED BY <2>2, <2>3 DEF Ahead
<1>2. ASSUME NEW e, e \in Ahead(s, j)
      PROVE  e \in Extent(u)
  <2>1. e \in Extent(s) /\ e[1] < j
    BY <1>2 DEF Ahead
  <2>2. PICK i \in DOMAIN s : \E k \in 1..Size[s[i]] : e = <<i, k>>
    BY <2>1, ExtentPlaces
  <2>3. i \in DOMAIN u /\ u[i] = s[i]
    BY <2>1, <2>2
  <2> QED BY <2>2, <2>3, ExtentPlaces
<1> QED BY <1>1, <1>2

\* The messages handed on are the first of those sent, and their bytes those
\* before the next one.
LEMMA MessagesBefore ==
  ASSUME NEW s \in Scripted, NEW j \in 1..Len(s) + 1, NEW u, u = SubSeq(s, 1, j - 1)
  PROVE  IsPrefix(u, s) /\ Len(Messages(u)) = Offset(s, j)
<1>1. s \in Seq(Kinds) /\ Len(s) \in Nat /\ DOMAIN s = 1..Len(s) /\ j - 1 \in Nat /\ j - 1 <= Len(s) /\ j \in Int
  BY ScriptFacts, LenProperties
<1>2. Len(u) = j - 1 /\ DOMAIN u = 1..j - 1 /\ (\A i \in 1..j - 1 : u[i] = s[i]) /\ SubSeq(u, 1, Len(u)) = u
  BY <1>1, FirstOf
<1>3. IsPrefix(u, s)
  BY <1>1, <1>2 DEF IsPrefix
<1>4. Extent(u) = Ahead(s, j)
  BY <1>1, <1>2, SamePlaces
<1>5. PICK n : n = Offset(s, j)
  OBVIOUS
<1>6. n \in Nat /\ Cardinality(Extent(u)) = n
  BY <1>4, <1>5, OffsetIs, OffsetEnds
<1>7. Messages(u) = [k \in 1..n |-> Byte("input", Place(u, k))]
  BY <1>6 DEF Messages
<1>8. Len(Messages(u)) = n
  BY <1>6, <1>7
<1> QED BY <1>3, <1>5, <1>8

\* What is sent of s before w.
SentOf(s, w) == SubSeq(s, 1, Len(s) - Len(w))
Begun(t)     == \E i \in DOMAIN t : t[i].f = "serverinit"

\* ServerInit has been sent in part if less is to come than from it on.
LEMMA InitSent ==
  ASSUME NEW p \in Session, Readable(p), NEW w \in Seq(All), NEW s, s = Streams(p)["s2c"], Len(w) <= Len(s),
         NEW t, t = SentOf(s, w)
  PROVE  Begun(t) <=> ~ Refused(p) /\ Len(w) < 28
<1> SUFFICES (\E i \in DOMAIN t : t[i].f = "serverinit") <=> ~ Refused(p) /\ Len(w) < 28
  BY DEF Begun
<1>1. PICK z : z = IF Refused(p) THEN <<>> ELSE Opening(p, "s2c")
  OBVIOUS
<1>2. Leading(s, z)
  BY <1>1, StreamOpens, Directed
<1>3. PICK a : Early(a) /\ z \in Seq(All) /\ s = a \o z
  BY <1>2 DEF Leading
<1>4. a \in Seq(All) /\ s \in Seq(All) /\ Len(a) \in Nat /\ Len(z) \in Nat /\ Len(w) \in Nat /\ Len(s) = Len(a) + Len(z)
      /\ \A i \in 1..Len(a) + Len(z) : s[i] = IF i <= Len(a) THEN a[i] ELSE z[i - Len(a)]
  <2>1. a \in Seq(All) /\ z \in Seq(All) /\ Len(a) \in Nat /\ Len(z) \in Nat /\ Len(w) \in Nat
    BY <1>3, LenProperties DEF Early
  <2>2. a \o z \in Seq(All) /\ Len(a \o z) = Len(a) + Len(z)
    BY <2>1, ConcatProperties
  <2>3. \A i \in 1..Len(a) + Len(z) : (a \o z)[i] = IF i <= Len(a) THEN a[i] ELSE z[i - Len(a)]
    BY <2>1, ConcatProperties
  <2> QED BY <2>1, <2>2, <2>3, <1>3
<1>5. PICK m : m = Len(s) - Len(w)
  OBVIOUS
<1>6. m \in Nat /\ m <= Len(s) /\ t = SubSeq(s, 1, m)
  BY <1>4, <1>5 DEF SentOf
<1>7. DOMAIN t = 1..m /\ \A i \in 1..m : t[i] = s[i]
  BY <1>4, <1>6, FirstOf
<1>8. \A i \in 1..Len(a) : a[i].f # "serverinit"
  <2> TAKE i \in 1..Len(a)
  <2>1. i \in DOMAIN a
    BY <1>4, LenProperties
  <2>2. Rank[a[i].f] < 18
    BY <1>3, <2>1 DEF Early
  <2>3. Rank["serverinit"] = 19
    BY DEF Rank
  <2> QED BY <2>2, <2>3
<1>9. \A i \in 1..m : i <= Len(a) => t[i].f # "serverinit"
  <2> TAKE i \in 1..m
  <2> HAVE i <= Len(a)
  <2>1. i \in 1..Len(a) /\ i \in 1..Len(a) + Len(z)
    BY <1>4, <1>6
  <2>2. t[i] = a[i]
    BY <2>1, <1>4, <1>7
  <2> QED BY <2>1, <2>2, <1>8
<1>10. CASE Refused(p)
  <2>1. Len(z) = 0
    BY <1>1, <1>10
  <2>2. \A i \in 1..m : i <= Len(a)
    BY <2>1, <1>4, <1>6
  <2> QED BY <2>2, <1>7, <1>9, <1>10
<1>11. CASE ~ Refused(p)
  <2>1. Len(z) = 28 /\ z[1].f = "serverinit"
    <3>1. z = Opening(p, "s2c")
      BY <1>1, <1>11
    <3> QED BY <3>1, Opened
  <2>2. CASE Len(w) < 28
    <3>1. PICK k : k = Len(a) + 1
      OBVIOUS
    <3>2. k \in 1..m /\ k \in 1..Len(a) + Len(z) /\ k - Len(a) = 1 /\ ~ (k <= Len(a))
      BY <3>1, <2>1, <2>2, <1>4, <1>5
    <3>3. t[k] = z[1]
      BY <3>2, <1>4, <1>7
    <3> QED BY <3>2, <3>3, <2>1, <2>2, <1>7, <1>11
  <2>3. CASE ~ (Len(w) < 28)
    <3>1. \A i \in 1..m : i <= Len(a)
      BY <2>1, <2>3, <1>4, <1>5
    <3> QED BY <3>1, <2>3, <1>7, <1>9
  <2> QED BY <2>2, <2>3
<1> QED BY <1>10, <1>11

\* The bytes of messages that have been sent are all but those to come.
LEMMA InputSent ==
  ASSUME NEW p \in Session, Readable(p), ~ Refused(p), NEW w \in Seq(All), NEW s, s = Streams(p)["c2s"],
         Len(w) <= Len(s), Len(w) <= Len(Messages(p.inputs)), NEW t, t = SentOf(s, w)
  PROVE  Cardinality({i \in DOMAIN t : t[i].f = "input"}) = Len(Messages(p.inputs)) - Len(w)
<1>1. PICK z : z = Opening(p, "c2s")
  OBVIOUS
<1>2. PICK l : l = Len(Messages(p.inputs))
  OBVIOUS
<1>3. Leading(s, z)
  BY <1>1, StreamOpens, Directed
<1>4. PICK a : Early(a) /\ z \in Seq(All) /\ s = a \o z
  BY <1>3 DEF Leading
<1>5. a \in Seq(All) /\ s \in Seq(All) /\ Len(a) \in Nat /\ Len(z) \in Nat /\ Len(w) \in Nat /\ Len(s) = Len(a) + Len(z)
      /\ \A i \in 1..Len(a) + Len(z) : s[i] = IF i <= Len(a) THEN a[i] ELSE z[i - Len(a)]
  <2>1. a \in Seq(All) /\ z \in Seq(All) /\ Len(a) \in Nat /\ Len(z) \in Nat /\ Len(w) \in Nat
    BY <1>4, LenProperties DEF Early
  <2>2. a \o z \in Seq(All) /\ Len(a \o z) = Len(a) + Len(z)
    BY <2>1, ConcatProperties
  <2>3. \A i \in 1..Len(a) + Len(z) : (a \o z)[i] = IF i <= Len(a) THEN a[i] ELSE z[i - Len(a)]
    BY <2>1, ConcatProperties
  <2> QED BY <2>1, <2>2, <2>3, <1>4
<1>6. l \in Nat /\ Len(z) = l + 1 /\ z[1].f = "init"
  BY <1>1, <1>2, Opened
<1>7. \A i \in 2..Len(z) : z[i].f = "input"
  BY <1>1, Opened
<1>8. PICK m : m = Len(s) - Len(w)
  OBVIOUS
<1>9. m \in Nat /\ m <= Len(s) /\ t = SubSeq(s, 1, m)
  BY <1>5, <1>8 DEF SentOf
<1>10. DOMAIN t = 1..m /\ \A i \in 1..m : t[i] = s[i]
  BY <1>5, <1>9, FirstOf
<1>11. \A i \in 1..Len(a) : a[i].f # "input"
  <2> TAKE i \in 1..Len(a)
  <2>1. i \in DOMAIN a
    BY <1>5, LenProperties
  <2>2. Rank[a[i].f] < 18
    BY <1>4, <2>1 DEF Early
  <2>3. Rank["input"] = 21
    BY DEF Rank
  <2> QED BY <2>2, <2>3
<1>12. PICK k : k = Len(a) + 2
  OBVIOUS
<1>13. \A i \in 1..m : t[i].f = "input" <=> i >= k
  <2> TAKE i \in 1..m
  <2>1. i \in 1..Len(a) + Len(z) /\ t[i] = s[i]
    BY <1>5, <1>9, <1>10
  <2>2. CASE i <= Len(a)
    <3>1. t[i] = a[i] /\ i \in 1..Len(a) /\ ~ (i >= k)
      BY <2>1, <2>2, <1>5, <1>12
    <3> QED BY <3>1, <1>11
  <2>3. CASE i = Len(a) + 1
    <3>1. t[i] = z[1] /\ ~ (i >= k)
      <4>1. ~ (i <= Len(a)) /\ i - Len(a) = 1 /\ ~ (i >= k)
        BY <2>3, <1>5, <1>12
      <4> QED BY <4>1, <2>1, <1>5
    <3> QED BY <3>1, <1>6
  <2>4. CASE i > Len(a) + 1
    <3>1. ~ (i <= Len(a)) /\ i - Len(a) \in 2..Len(z) /\ i >= k
      BY <2>1, <2>4, <1>5, <1>12
    <3>2. t[i] = z[i - Len(a)]
      BY <3>1, <2>1, <1>5
    <3> QED BY <3>1, <3>2, <1>7
  <2> QED BY <2>1, <2>2, <2>3, <2>4, <1>5
<1>14. {i \in DOMAIN t : t[i].f = "input"} = k..m
  <2>1. \A i \in k..m : i \in 1..m
    BY <1>5, <1>12
  <2>2. \A i \in 1..m : i >= k => i \in k..m
    BY <1>5, <1>9, <1>12
  <2> QED BY <2>1, <2>2, <1>10, <1>13
<1>15. k \in Int /\ m \in Int /\ (IF k > m THEN 0 ELSE m - k + 1) = l - Len(w)
  BY <1>2, <1>5, <1>6, <1>8, <1>9, <1>12
<1>16. Cardinality(k..m) = l - Len(w)
  BY <1>15, FS_Interval
<1> QED BY <1>2, <1>14, <1>16

\* What the observer holds back of the messages that have been sent.
LEMMA HeldBack ==
  ASSUME NEW p \in Session, NEW o \in Observers, NEW w \in Seq(All), AtOne(o, p, w), Len(w) <= Len(Messages(p.inputs)),
         NEW b, b = IF o.handler = "clientCutText" THEN TYPE_LEN["text"] ELSE 0
  PROVE  /\ IsPrefix(o.handled, p.inputs)
         /\ Len(Messages(o.handled)) + b + Len(o.buffer) = Len(Messages(p.inputs)) - Len(w)
<1>1. PICK s : s = p.inputs
  OBVIOUS
<1>2. s \in Scripted
  BY <1>1 DEF Session
<1>3. PICK M : M = Messages(s)
  OBVIOUS
<1>4. M \in Seq(All) /\ Len(M) \in Nat /\ s \in Seq(Kinds) /\ Len(s) \in Nat /\ DOMAIN s = 1..Len(s)
  <2>1. M \in Seq(All)
    BY <1>2, <1>3, MessagesFacts
  <2> QED BY <2>1, <1>2, ScriptFacts, LenProperties
<1>5. PICK j \in 1..Len(s) + 1 :
        /\ o.handled = SubSeq(s, 1, j - 1)
        /\ \/ o.handler = "protocol" /\ Holds(o, w, SubSeq(M, Offset(s, j) + 1, Len(M)))
           \/ /\ o.handler = "clientCutText" /\ j <= Len(s) /\ s[j] = "text"
              /\ Holds(o, w, SubSeq(M, (Offset(s, j) + 8) + 1, Len(M)))
  BY <1>1, <1>3 DEF AtOne
<1>6. PICK k : k = Offset(s, j)
  OBVIOUS
<1>7. IsPrefix(o.handled, s) /\ Len(Messages(o.handled)) = k
  BY <1>2, <1>5, <1>6, MessagesBefore
<1>8. k \in Nat /\ k <= Len(M)
  <2>1. j \in Int /\ Len(s) + 1 \in Int /\ j <= Len(s) + 1
    BY <1>4, <1>5
  <2>2. Offset(s, j) \in Nat /\ Offset(s, j) <= Offset(s, Len(s) + 1) /\ Offset(s, Len(s) + 1) = Len(Messages(s))
    BY <1>2, <2>1, OffsetEnds
  <2> QED BY <2>2, <1>3, <1>6
<1>9. Len(o.buffer) \in Nat /\ Len(w) \in Nat /\ o.buffer \in Seq(All) /\ Len(o.buffer \o w) = Len(o.buffer) + Len(w)
  <2>1. o.buffer \in Seq(All)
    BY DEF Observers
  <2>2. Len(o.buffer) \in Nat /\ Len(w) \in Nat
    BY <2>1, LenProperties
  <2>3. Len(o.buffer \o w) = Len(o.buffer) + Len(w)
    BY <2>1, ConcatProperties
  <2> QED BY <2>1, <2>2, <2>3
<1>10. Len(Messages(o.handled)) + b + Len(o.buffer) = Len(M) - Len(w)
  <2>0. PICK n \in Nat, m \in Nat, l \in Nat : n = Len(o.buffer) /\ m = Len(w) /\ l = Len(M)
    BY <1>4, <1>9
  <2>1. CASE o.handler = "protocol" /\ Holds(o, w, SubSeq(M, k + 1, Len(M)))
    <3>1. Len(SubSeq(M, k + 1, Len(M))) = Len(M) - k
      BY <1>4, <1>8, Remainder
    <3>2. Len(o.buffer) + Len(w) = Len(M) - k
      BY <2>1, <3>1, <1>9 DEF Holds
    <3>3. b = 0
      BY <2>1
    <3>4. k + b + n = l - m
      <4>1. n + m = l - k
        BY <3>2, <2>0
      <4>2. k + 0 + n = l - m
        BY <4>1, <1>8
      <4> QED BY <3>3, <4>2
    <3> QED BY <3>4, <2>0, <1>7
  <2>2. CASE o.handler = "clientCutText" /\ j <= Len(s) /\ s[j] = "text" /\ Holds(o, w, SubSeq(M, (k + 8) + 1, Len(M)))
    <3>1. k + 8 \in Nat /\ k + 8 <= Len(M)
      <4>1. j \in DOMAIN s /\ 8 \in 1..Size[s[j]]
        BY <2>2, <1>4, <1>5, Lengths
      <4>2. Offset(s, j) + 8 \in 1..Len(Messages(s))
        BY <1>2, <4>1, MessagePlace
      <4> QED BY <4>2, <1>3, <1>6, <1>8
    <3>2. Len(SubSeq(M, (k + 8) + 1, Len(M))) = Len(M) - (k + 8)
      BY <1>4, <3>1, Remainder
    <3>3. Len(o.buffer) + Len(w) = Len(M) - (k + 8)
      BY <2>2, <3>2, <1>9 DEF Holds
    <3>4. b = 8
      BY <2>2, Lengths
    <3>5. k + b + n = l - m
      <4>1. n + m = l - (k + 8)
        BY <3>3, <2>0
      <4>2. k + 8 + n = l - m
        BY <4>1, <1>8
      <4> QED BY <3>4, <4>2
    <3> QED BY <3>5, <2>0, <1>7
  <2> QED BY <2>1, <2>2, <1>5, <1>6
<1> QED BY <1>1, <1>3, <1>7, <1>10

\* The invariant is enough for the property.
LEMMA InvariantInStep == IInv /\ ObserverInv => ObserverInStep
<1> SUFFICES ASSUME IInv, ObserverInv, phase = "record", feeding = "none", Followed
             PROVE  ObserverInStep
  BY DEF ObserverInStep
<1>1. session \in Session /\ wire["c2s"] \in Seq(All) /\ wire["s2c"] \in Seq(All)
  BY Directed DEF IInv, Typed
<1>2. Readable(session)
  BY <1>1, FollowedSession
<1>3. PICK p : p = session
  OBVIOUS
<1>4. PICK w : w = wire["c2s"]
  OBVIOUS
<1>5. PICK v : v = wire["s2c"]
  OBVIOUS
<1>6. /\ p \in Session /\ Readable(p) /\ w \in Seq(All) /\ v \in Seq(All)
      /\ EndOf(w, Streams(p)["c2s"]) /\ EndOf(v, Streams(p)["s2c"]) /\ observer \in Observers
      /\ Hears(observer, p, w) /\ Started(p, observer, v)
  BY <1>1, <1>2, <1>3, <1>4, <1>5, AtRest DEF Tended
<1>7. PICK s : s = Streams(p)["c2s"]
  OBVIOUS
<1>8. PICK u : u = Streams(p)["s2c"]
  OBVIOUS
<1>9. Len(w) <= Len(s) /\ Len(v) <= Len(u)
  BY <1>6, <1>7, <1>8 DEF EndOf
<1>10. PICK sent : sent = [d \in Directions |-> IF d = "c2s" THEN SentOf(s, w) ELSE SentOf(u, v)]
  OBVIOUS
<1>11. sent["c2s"] = SentOf(s, w) /\ sent["s2c"] = SentOf(u, v)
  BY <1>10, Directed
<1>12. observer.started = IF \E i \in DOMAIN sent["s2c"] : sent["s2c"][i].f = "serverinit" THEN "serverinit" ELSE "none"
  <2>1. (\E i \in DOMAIN sent["s2c"] : sent["s2c"][i].f = "serverinit") <=> ~ Refused(p) /\ Len(v) < 28
    <3>1. PICK t : t = SentOf(u, v)
      OBVIOUS
    <3>2. Begun(t) <=> ~ Refused(p) /\ Len(v) < 28
      <4>1. u = Streams(p)["s2c"] /\ Len(v) <= Len(u) /\ p \in Session /\ Readable(p) /\ v \in Seq(All)
        BY <1>6, <1>8, <1>9
      <4> QED BY <3>1, <4>1, InitSent
    <3> QED BY <3>1, <3>2, <1>11 DEF Begun
  <2> QED BY <2>1, <1>6 DEF Started
<1>13. PICK b : b = IF observer.handler = "clientCutText" THEN TYPE_LEN["text"] ELSE 0
  OBVIOUS
<1>14. ASSUME observer.handler \notin Handshake, Range(p.inputs) \subseteq Framed
       PROVE  /\ IsPrefix(observer.handled, p.inputs)
              /\ Len(Messages(observer.handled)) + b + Len(observer.buffer)
                   = Cardinality({i \in DOMAIN sent["c2s"] : sent["c2s"][i].f = "input"})
  <2>1. Listens(observer, p, w) /\ AtOne(observer, p, w)
    BY <1>6, <1>14 DEF Hears, Greeting, Choosing, Proving, Opens, Handshake, Framable
  <2>2. ~ Refused(p) /\ Len(w) <= Len(Messages(p.inputs))
    BY <2>1 DEF Listens
  <2>3. Cardinality({i \in DOMAIN sent["c2s"] : sent["c2s"][i].f = "input"}) = Len(Messages(p.inputs)) - Len(w)
    <3>1. PICK t : t = SentOf(s, w)
      OBVIOUS
    <3>2. Cardinality({i \in DOMAIN t : t[i].f = "input"}) = Len(Messages(p.inputs)) - Len(w)
      BY <3>1, <2>2, <1>6, <1>7, <1>9, InputSent
    <3> QED BY <3>1, <3>2, <1>11
  <2>4. IsPrefix(observer.handled, p.inputs)
    BY <2>1, <2>2, <1>6, <1>13, HeldBack
  <2>5. Len(Messages(observer.handled)) + b + Len(observer.buffer) = Len(Messages(p.inputs)) - Len(w)
    BY <2>1, <2>2, <1>6, <1>13, HeldBack
  <2> QED BY <2>3, <2>4, <2>5
<1>15. /\ sent["c2s"] = SubSeq(Streams(session)["c2s"], 1, Len(Streams(session)["c2s"]) - Len(wire["c2s"]))
       /\ sent["s2c"] = SubSeq(Streams(session)["s2c"], 1, Len(Streams(session)["s2c"]) - Len(wire["s2c"]))
  BY <1>3, <1>4, <1>5, <1>7, <1>8, <1>11 DEF SentOf
<1> QED BY <1>3, <1>12, <1>13, <1>14, <1>15 DEF ObserverInStep

\* vnclog's decoder of the screen is started on the first byte of ServerInit, and
\* the client's messages are handed on as they were sent, however its bytes are
\* cut (loggingproxy.py:RFBServer, startLogging).
THEOREM AlwaysObserverInStep == Spec => []ObserverInStep
BY CaptureInvariant, ObserverInvariant, InvariantInStep, PTL
==============================================================================
