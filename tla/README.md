# A verification development for vncdotool

TLA+ models of the parts of vncdotool (`src/vncdotool`) that are hard to test, the TLC
instances that check them, and the TLAPS proofs of what matters most. Every definition is
translated from the source lines that `PROJECT.json` gives for it under `map`.

## The system

vncdotool drives a VNC server from the command line (`vncdo`), from a Python program
(`vncdotool.api`), and can sit between another client and a server (`vnclog`). Everything
runs in one Twisted reactor thread; only the API adds a second, the application's.

```
 vncdo (command.py)    application thread (api.py)          vnclog (loggingproxy.py)
        \                     |  callFromThread, queue.Queue         |  RFBServer, capture.py
         \                    v                                      v
          factory.deferred: one callback per command         VNCLoggingClient
                    \         |                                     /
                     VNCDoToolClient (client.py): self.deferred, screen, timers
                              |  hooks: beginUpdate, updateRectangle, commitUpdate ...
                     RFBClient (rfb.py): _packet, expect(), _pump()
                      /       |          \
             security/*   messages/*   decoders/*     (generators of byte counts)
                              |
                     TCP, TLS or WebSocket transport  ->  VNC server
```

### Inventory

| Component | State | Operations | What is hard | What makes it correct |
| --- | --- | --- | --- | --- |
| Screen and waiting commands: `client.py`, `imagematch.py` | `screen`, `width`/`height`, `_fullscreen`, `deferred`, `rectanglePos`, a `_StableWatch` | refresh, capture, expect, stable; rectangle, resize and commit hooks; the stability timer | one slot for every waiter, answers split, short or late, resizes, timers between rectangles | no waiter is abandoned; captures show the screen; a settled screen was still; commands end |
| Parser: `rfb.py` | `_packet`, parked handler, version, `rectangles`, `_aborted` | handshake, message and rectangle dispatch, abort, connection loss | a byte stream cut anywhere; handlers that re-park themselves; close while bytes arrive | never out of step; one report, then closed |
| Security types: `security/`, `vencrypt.py` | the generator's position, chosen subtype, TLS pending | None, VNC, VeNCrypt, Apple DH; SecurityResult | which version and type is followed by what; nesting in TLS | both ends agree on what comes next |
| Messages: `messages/` | the generator's position | bell, cut text, colour map, fence | declared lengths | bounded before the wait; a fence is answered |
| Decoders: `decoders/` | the parked generator and its locals, the rectangle buffer, five zlib streams | raw, RRE, CoRRE, hextile, tight, ZRLE, copy, cursor, controls; paste | state carried between tiles and rectangles; byte counts that branch; a backing that is reused | byte counts those of the encoding; every pixel right; malformed data refused, and nothing else but what is not supported |
| Pixel formats: `pixelformat.py` | - | which layouts can be read; width and place of a CPIXEL, a TPIXEL | byte order and shifts together | colours where the layout says |
| Threaded API: `api.py` | `queue`, `factory.deferred`, `protocol`, `_disconnect_callbacks`, the reactor's thread | call, disconnect, shutdown | two threads; timeouts; results chained | calls run one by one, each gets its own result; disconnect and shutdown close and return |
| Command line: `command.py` | `factory.deferred`, `exit_status` | build, run, time out, exit | several ends of one run | the exit status tells the truth |
| Input: `client.py`, `keys.py` | `x`, `y`, `buttons` | keys, pointer, drag | - | mask and position follow the commands |
| Proxy: `loggingproxy.py` | parser of client messages, peers, shared output, one-shot claim | both directions, recording | framing under splits; two connections' ends in any order | forwards everything, records each event once |
| Capture: `capture.py` | scrubber state, buffers | feed, scrub, write the archive | secrets split over chunks | nothing secret is written; one archive |
| Replay: `replay.py` | cursor in the recording | serve in lock step | a client that differs from the recorded one | recorded order kept |
| WebSocket, constants, cursor modes | - | conversions | - | - |

Input and the last row are not modelled; see below for why.

## Modules

| Module | Models | Lines |
| --- | --- | --- |
| `ScreenRefresh` | one `VNCDoToolClient` and the server that paints its screen | client.py 81-133, 142-211, 303-518, 624-718; rfb.py 302-343, 502-514 |
| `RFBClient` | one `RFBClient`, its security types and messages, from the first byte on | rfb.py 60-479, security/, messages/, vencrypt.py |
| `RectangleDecoders` | the decoders of one connection and the pump that runs them | rfb.py 309-418, 444-457; decoders/ |
| `RectangleStream` | the server that writes those rectangles (external), the specification of both, and its properties | |
| `ZRLETiles` | operators: the tile data of a ZRLE rectangle, read and written | decoders/zrle.py |
| `RectBuffer` | operators: the buffer a decoder paints into | decoders/buffer.py |
| `PixelFormats` | operators: the layouts of pixels, CPIXELs and TPIXELs | pixelformat.py 57-221; client.py 551-572 |
| `ThreadedProxy` | one `ThreadedVNCClientProxy`, its application thread and the reactor thread, from start to stop | api.py 37-133, 183-205 |
| `SerialCalls` | what the API promises of calls; `ThreadedProxy` implements it | |
| `CommandRun` | one run of `vncdo` | command.py 111-144, 210-335, 371-401, 784-854 |
| `LoggingProxy` | one process of `vnclog` and all the connections made to it | loggingproxy.py 265-438, 493-557; command.py 619-648 |
| `HandshakeScrubber` | operators: the grammar of a handshake, used to rewrite one and to pace one | capture.py 17-256 |
| `RFBServer` | operators: the proxy's own reading of all the client says, handshake and messages | loggingproxy.py 34-172, 255-281, 425-491 |
| `RawCapture` | one session recorded by `vnclog --capture-raw` | capture.py 98-153, 259-351 |
| `ReplayServer` | the archive of that session, served to live clients; composes with `RawCapture` | replay.py 29-269 |
| `ScreenRefreshProofs`, `RFBClientProofs`, `ThreadedProxyProofs`, `CommandRunProofs`, `LoggingProxyProofs`, `RawCaptureProofs`, `ReplayServerProofs`, `RectangleProofs` | the proofs | |
| `MCScreenRefresh`, `MCRFBClient`, `MCRectangleStream`, `MCCommandRun`, `MCReplayServer` | values of the constants for TLC | |

The models meet at a few narrow places, and are kept apart there. `RFBClient` ends where
a rectangle's bytes have been read and `ScreenRefresh` begins with the hook the decoder calls;
what one promises the other (`Served`: each begun update is committed once, with each of its
rectangles) is a property of the first and the shape of the second. In `RFBClient` a rectangle's
payload is one field; `RectangleDecoders` opens it up, and begins and ends where that field does. `factory.deferred` is
fired by `RFBClient` (`report`) and consumed by `ThreadedProxy` and `CommandRun`. `LoggingProxy`
says which connections are served and how they end; what is recorded of one is `RawCapture`'s.

### ScreenRefresh

The screen is a row of tiles; a desktop size or a region is a set of them, an image a function
from tiles to pixel values, and the empty image is Python's `None`. Two dimensions and byte
layout decide nothing here: what the code asks of a rectangle is which pixels it covers
(`PaintRect`, `Complete`), where it reaches (`Reach`) and whether two crops match (`Matches`).

`deferred` names the callback riding on `self.deferred`; `c2s` and `s2c` are the two directions
of the connection. A rectangle is one action, since a TCP read may end after it and a timer or a
command may run before the next. `CommitUpdate` is one action for the whole of `commitUpdate`,
the callbacks it fires and the request they send included, as nothing can come between them in
one reactor turn. Caller commands run one at a time, as `factory.deferred` makes them;
a `_StableWatch` outlives its command only as a settled record. The server coalesces requests,
answers incremental ones when something changed, and may split or (`Short`) shorten a full answer.

`quiet`, `frame` and `steady` are history variables: the ticks since an update last moved the watched
frame, that frame, and whether the server's screen stood still since the capture was asked for.

### RFBClient

The stream is a sequence of fields, each with what the server means by it, its length and its
value; `got` of them have arrived whole, and `partial` says whether bytes of the next have. This is
as fine as the parser can tell: `_handleExpected` looks at nothing before the whole block is
there, except at the header, which it refuses byte by byte (`HandleBadHeader`). Every
`yield` of a security type or message is a handler of its own, because `_pump` parks it through
`expect`. `running` is the loop in `_handleExpected`: a handler runs as soon as its bytes are
there, before the reactor does anything else. A handler that calls `loseConnection` leaves the
loop and the buffered bytes as they are (`conn = "closing"`), which is the point of several
properties. The two handlers of unbounded length (`Unchecked`, the server name and a rectangle's payload) are here fields like any other.
`report` is `factory.deferred`; a second `errback` raises out of `dataReceived`,
and Twisted then drops the connection.

Cryptography is external: a VNC challenge or DH exchange is a write, a TLS handshake its success
or its failure.

### RectangleDecoders

The generators yield byte counts; `g` is the parked one, with where it is, how many bytes it
waits for, and its local variables (`my`). Every `yield` is an action. As `RFBClient` and
`RecordsSession` deal with streams that are cut, a field arrives whole here, and what matters is
that the field the decoder waits for and the field the server wrote are the same. The server is a
machine of its own: `meant` is the picture it means, painted in its own two-dimensional terms, and
`verdict` says what is to become of it: it is legal, it breaks the encoding, or it is one of two kinds the encoding allows and the
client does not support (see the margins below). `SrvHextile...`, `SrvZRLE...` and `SrvTight...` choose
sub-encodings, palettes, filters, overlapping subrectangles, stream resets, and one fault in a rectangle
(a rectangle outside its tile, an index past its palette, a run too long, a colour never given, a block
too short or too long, a rectangle off the framebuffer).

What lives longer than a rectangle starts as earlier rectangles may have left it: a backing of any
length full of `Stale` pixels, and zlib streams some blocks ahead (`Connections`), and then goes
through two rectangles. A zlib stream is the number of blocks that went through it: a block inflates only where the
compressor stood when it was written, so a reset missed on either side shows. A pixel is a colour until it is read in
the wrong place or width; then it is `Garbled`. `PixelFormats` works out which byte holds which channel on
both sides and separately (`CpixelOffset` the client's way, `WireCpixel` the server's).
JPEG is whether it decodes and to what size.

### ThreadedProxy

`app` is where the application thread is, `posted` what `callFromThread` holds, `queue` is
`self.queue` with each outcome named by the call it belongs to. `callbacks`, `chain` and
`paused` are `factory.deferred`: its callbacks, its result and the deferred it waits for. A fired
deferred runs its callbacks before the reactor does anything else (`Runnable`). Methods are five
kinds by what they return; `late` remembers that a call has timed out. `api.connect` has returned, so the reactor's
thread is started but need not be running yet; `Shutdown` posts `reactor.stop` and joins that thread (`reactor`).
One application thread and one connection.

`SerialCalls` is the abstract specification: calls are made, begun and ended one at a time and in order, and their
outcomes taken. The refinement (`Serial`) maps the calls that are posted, hung on the chain or paused to its
`waiting`, the method under way to its `under`, and the queue to its `results`.

### CommandRun

`AddCommand` is one turn of `build_command_list`. `program` and `pc` are the callbacks and the
next of them; past the program come `loseConnection` and `done(SUCCESS)`, and behind them the
errback. `Outcome` is `error` and `done`. `DisconnectAll` is what an interrupt does to a run that has no outcome: the reactor's stop
disconnects everything before `vncdo` reads the status, so it exits with 11 or 10, and with 1 only while the name is still looked up. `stops` counts scheduled `reactor.stop`s, `unsent`
writes still in the transport's buffer. The 0.1 s before the stop is untimed: anything the
reactor may do can happen in it, which over-approximates. Option and address parsing, whose only
effect is to exit before the run, is left out.

### LoggingProxy

`down` and `up` are the two connections of each session, paired by Twisted's portforward
(external): whichever is lost closes the other. `taken` and `failed` are `session_taken` and
`capture_failed` of the factory, `saw`, `refused` and `capture` attributes of the
`VNCLoggingServerProxy`. A chunk of bytes is one the scrubber gives up on, one with an event to
log, or any other. Whether an archive can be written is a free choice (`SessionLost`).

### RawCapture and ReplayServer

A byte is the field it belongs to and that field's value, so a run of bytes says what it decodes
to and a recorded byte says where it comes from. `Streams` (external) is what a server and a client say
to each other, field by field, and `Cuts` keeps them to their turns; `Deliver` is `dataReceived` with any of the cuts `Pieces` allows, `Take` one
resumption of the scrubber's generator (`Resume`), with what it records (`Records`), and
`FeedEnds` the rest of the handler, in which `RFBServer` hears the same data (`Observe`).
`RFBServer` keeps the messages it has handed on, to be compared with those the client sent (`Inputs`). A byte it takes
for the type of a message that is none makes it `"astray"`: what it does from there is anybody's guess, and not followed.
`phase = "dropped"` is a capture that gave up or had nothing to write.

`ReplayServer` serves what `RawCapture` has left in `recorded`, so every archive it is checked with is one
the writer can produce, also of a session lost in the middle of its handshake.
`connectionMade` and `dataReceived` both end in `advance`, whose loop is `WriteChunk` and
`ReadChunk` and whose tail (`_serve_session`) is the four actions on `Serving`. The stall timer only
logs and is left out. A field of no bytes (a Diffie-Hellman key of size 0) is taken by the loop of `_feed` together with the field before
it, of the same side; here it is a step of its own, before anything else can happen. The live client takes part in the session of the archive with messages of its own (`script`, `Live`) and a
version of its own. `Paced` says of each recorded byte served that the client has nothing left to say that comes before it, and
of a byte of the screen that the client has `Asked`: has sent a whole request, or enough of a message for the
server to see that it cannot measure it.

## What the runs check

All `pass` runs end with no error; deadlock is not checked, since every model stops once its
bounded caller has done its calls, the connection is lost, or the process has exited.

| Run | Bounds | Shows |
| --- | --- | --- |
| `screen` | 1-2 tiles, 3 colours, 2 commands (refresh, capture, expect) on the screen and a region, 1 change or resize, 1 noise rectangle, 4 in flight | `WaiterIsServed`, `ScreenFollows`, `CaptureExact`, `FullRefreshEnds`, `ExpectFinds` |
| `watch` | 1-2 tiles growing unannounced, short answers, 2 commands (stable on the screen and a region, refresh), 2 changes, 3 in flight | `TypeOK`, `WatchListens`, `WindowQuiet`, `StableEnds` |
| `handshake` | seven announced versions, seven offers, six subtype lists, four factories (bare, with a password, with everything, with a pixel layout nobody can decode), fourteen faults, at most one a run, a limit of 65535; then up to 3 messages of the session, of which 1 is no update, 2 rectangles an update, payloads of length 0 and 2, 3 fields in flight | `TypeOK`, `InStep`, `Reported`, `BufferBounded`, `Served`, `HandshakeEnds`, `ClosesEventually` |
| `decoders` | five pixel formats and connections, every encoding in two to six sizes, tiles of 2 and 3 pixels, two zlib streams of Tight, palettes of 2, 3 and 5 colours, one or two rectangles a connection | `InStep`, `Pasted`, `OnlyBadRefused` |
| `api_calls` | 3 calls of all five kinds, with and without a timeout, connection refused or dropped, disconnect, shutdown at any time | `TypeOK`, `ResultMatches`, `DisconnectCloses`, `OneByOne` (the refinement), `CallReturns`, `DisconnectEnds` |
| `cli_outcome` | every line of up to 2 commands of all kinds and of up to 3 of the four that matter in the middle, a delay, with and without a timeout, six endings | `TypeOK`, `SuccessIsHonest`, `FirstWins`, `CutShortIsHonest`, `FailureEnds`, `Terminates` |
| `record_replay` | replies 3.3, 3.7, 3.8 and one that is no version; no, VNC, Diffie-Hellman (keys of 0 and 8), an unknown type or a refusal; result good or bad; handshake kept or not; reads of 11 bytes or all there is; every point of loss; one client message, or one of three lists of them where there is no authentication; three scripts of a live client | `NoSecret`, `RecordsSession`, `ObserverInStep`, `Paced`, `ReplayEnds` |
| `proxy` | 3 connections, all four modes | `TypeOK`, `ClaimHeld`, `ExitHonest`, `SessionEnds` |

The bounds are the least at which each mechanism meets itself: two tiles tell a part of the
screen from the whole and a shrunken desktop from the old one; three colours tell black, the
first and the changed screen apart; two commands let one leave something behind for the next;
a window of two ticks can be restarted in its middle. The limit of 65535 stands for 1 MiB; it is the least of
which no length of two bytes is too long (`LimitAssumption`), and both a text and, with six bytes an entry, a colour map can exceed it. Three fields in flight are the end of a message,
the next and the header of a third, so a read can end in any of them. Three commands put one
before and one after the command that fails or waits. Reads of 11 bytes cut each field of 12, 16, 24 and
128 bytes in its middle and let one field's end arrive with the next one's beginning. Three
connections are a probe or a session, one that comes during it and one after. Tiles of 2 and 3 pixels give a
rectangle of 3 by 2 a smaller tile at its edge, and rows of three indices that do not end on a byte; `LongRun` = 2 makes a run
of three a chained one; `MIN_TO_COMPRESS` = 12 lies between a rectangle of three and one of four pixels; a palette of 2, 3
and 5 packs into 1, 2 and 4 bits. The first of two rectangles is small and need only leave something behind.

Each property of a passing run has a mutant, a definition of the model changed the way a
plausible bug would change the code, under which TLC finds it violated.

### Fairness

`ScreenRefresh` and `RFBClient`: the reactor reads what has arrived and runs its timers, and the
server goes on with what it has begun (weak fairness); no fairness on the server's changes,
on the caller, or on faults. `ThreadedProxy`: the reactor thread keeps running, a
live server answers a `"wait"` method, a blocked thread wakes. `CommandRun`: the interpreter
and the reactor go on; the server need not answer and the buffer need not drain, so what ends a run is its
timeout or the loss of the connection. `LoggingProxy`: a connection being closed is reported lost, and a
stopping reactor loses all connections and exits; nobody has to connect, speak or leave.
`ReplayServer`: `advance` runs to its end and what a connected client has to say arrives.

## Where code and documentation differ

Four runs check one property that the code's own words promise and TLC finds violated;
`PROJECT.json` quotes the line.

| Run | What happens |
| --- | --- |
| `stale_capture` | the retry's late answer completes the next capture with the old screen |
| `empty_reason` | a 3.8 refusal with an empty reason: the pump enters the finished generator for ever |
| `api_stale_result` | a call that timed out leaves its outcome to the next |
| `shared_file` | `--file-per-client`: the first of two clients to leave closes the other's file |

Other things the code does not do bound what the properties above can say. Each can be seen by
changing one bound of a run, and the instance leaves it out:

- `watch` with `Announces = TRUE` violates `WatchListens` and `StableEnds`: a resize leaves a watched region off the
  screen, the callback raises (client.py:115, 371-372), nobody asks again, and the timer settles on its
  own silence. So the desktop there only grows, unannounced.
- The same without regions (`Boxes <- NoRegion`) violates `WindowQuiet`: an update that only
  resizes is not a change, so it never reaches the watch, whose window runs on (client.py:671-675).
- `watch` with `MaxPix = 3`, `Fuzz = 1`, `MaxChanges = 3` violates `WindowQuiet`: a frame is
  compared with the one that last restarted the window (client.py:116), not with the frame before it.
- `stale_capture` with `Sizes = {3}`, `MaxParts = 3`, `MaxChanges = 0`: a full answer spread over three
  messages is saved after two, as each counts as a failed attempt (client.py:676-684). So
  `CaptureExact` is checked with answers of one message.
- `Reported` excepts the four ways a server can end a session with nobody told (`Untold`). An announced version below 3.3 leaves
  `max()` nothing to choose from (rfb.py:146, `ValueError`). A 3.8 refusal whose reason is above the limit raises `DecodeError`, and
  Diffie-Hellman parameters the cryptography library refuses `ValueError`; neither is among `_SECURITY_ERRORS` (rfb.py:50). All three
  leave `dataReceived`. A SecurityResult that is none of the known ones is logged and the connection closed (security/base.py:35-38),
  which tests/unit/test_security.py:204 expects. Without the exception `handshake` violates the property; of the oversized
  reason the code's own words say otherwise, CHANGELOG.md:19 (the "reason strings" end the session "with a reported error") and rfb.py:561 ("called
  when the server sends something we cannot handle"). A password
  asked for and not there is told to `factory.deferred` alone, without `vncAuthFailed` (client.py:574-580), which `Reported` allows.
  `HandshakeEnds` excepts the server that sends ahead of its turn.
- `BufferBounded` excepts two handlers (`Unchecked`): the server name, whose length of four bytes `_handleServerInit` waits for
  as it is (rfb.py:259-263), so that a server can make the client buffer up to 4 GiB; and a rectangle's payload, whose length a decoder
  derives from the framebuffer's size or reads from the payload itself: `RectangleDecoders` shows it to be that of the encoding, and nothing bounds it.
- `disconnect` after the server has closed the connection waits for a loss already past (api.py:87-90), for ever if the
  API has no timeout: `DisconnectEnds` excepts a dropped connection (`Stuck`).
- A proxy method that does not return the client leaves its value as the next one's client (api.py:107):
  the kind `"value"` of `ThreadedProxy`. Behind a call that never ends, `disconnect` runs into its timeout with the
  connection open: `DisconnectCloses` speaks of calls without a timeout, `DisconnectEnds` excepts `Stuck`.
- In `CommandRun` a command with an argument missing is an uncaught exception with exit code 1
  (`RejectCommand`); after the timeout, a pause that ends before the reactor stops lets the next
  command be sent, so `FailureEnds` speaks of failed commands only; and what the transport still
  buffers when the reactor stops is dropped, so nothing is claimed of delivery.
- `ObserverInStep` speaks of the messages `Framed`. Add `"qemu"` to them and it is violated: of a QEMU key event two
  bytes are gone when its handler deletes twelve more (loggingproxy.py:163), two of the next message. Add
  `"encodings"`: the list is read with the header (line 128 on), and if TCP cuts it there `unpack_from` raises with the header
  gone. Add `"fence"`: its payload is what happens to be there. A message that came in two
  parts leaves its length as what the handler waits for (line 113): a shorter one after it is held back until more
  comes, which the test of
  a message in two parts (tests/unit/test_loggingproxy.py:207) does not go on to send. The property therefore says that what is
  held back begins where the last message ended, not that it is short.
- The same property speaks of sessions `Followed`: vnclog's reading of the client skips no Diffie-Hellman exchange
  (loggingproxy.py:94) and, before 3.7, believes `--password-required` (line 76); otherwise it takes some other
  byte for ClientInit and its decoder starts in the wrong place. Forwarding and capture are not affected.
- The scrubber records a direction it does not watch as it is (capture.py:117): `NoSecret` rests on both sides
  keeping to their turns.
- `OnlyBadRefused` counts as bad, besides what breaks an encoding, two rectangles of verdict `"unsupported"`: one with Tight's gradient
  filter, which specs/tight-wire.md:59 allows at 16 and 32 bits and tight.py:138-139 refuses, as docs/usage.md:201 says of it; and an RRE
  rectangle with more subrectangles than pixels, which rre.py:30-33 admits no specification forbids.
- `decoders` passes, with these margins. Nothing a server can write reaches the length check of a paste (rfb.py:349-355): every
  decoder has the right number of bytes by then. ZRLE's sub-encoding 129, undefined in the protocol, is read as a palette of one colour.
  The last block of a compressed rectangle may be too long: that is seen, and refused. The width of a CPIXEL is
  taken from the shifts alone (pixelformat.py:177-191), which is what servers do at a depth of 32 too.

## What is proved

The theorems hold for every value of the constants under the modules' named assumptions
(sizes positive, regions within the largest desktop, commands of the known kinds). They are
about the modelled code and, as in the runs, against the modelled server. Where a theorem needs
more than that, it says so as its own hypothesis, and an instance of the run without it violates the property.

`ScreenRefreshProofs`

- `TypeCorrect`: `Spec => []TypeOK`. One lemma per group of actions; below them, facts on what
  `Fit`, `Crop`, `Painted`, `PaintRect` and `Append`/`Tail` return.
- `WaiterAlwaysServed`: `Spec => []WaiterIsServed`. Not inductive alone: reading the last
  rectangle in flight would leave a waiter with nothing. The strengthening `Framed` says that
  when the server is between messages, what is in flight ends with the end of one; so a commit follows,
  and a commit either fires the slot, or asks again, or there was more.
- `WatchAlwaysListens`: `Spec => []WatchListens`, if every region fits every desktop size
  (`RegionsFit`, which cannot be dropped: see above). The strengthening adds
  `Covered` (the screen spans the desktop, so cropping a region cannot raise) and
  `WatchArmed` (a running watch holds the slot).
- `ScreenAlwaysFollows`: `Spec => []ScreenFollows`, if a server that may change its size says so (`SizesTold`). The property
  speaks of the moment when everything has been read; the invariant `Bound` says that what is in flight, read item by item from
  the screen as it is (`Leads`), ends at the screen and size the server believes in. A step of the server lengthens that way at its
  end, a step of the client shortens it at its head. Without `SizesTold` a desktop that grows unannounced before the first
  rectangle is clipped to the size of ServerInit (client.py:624-640).
- `WindowAlwaysQuiet`: `Spec => []WindowQuiet`, if frames are compared exactly (`Fuzz = 0`), if `RegionsFit`, and if no size is
  announced; each of the three is needed, see above. The invariant `Still` says that while the window runs the frame compared with
  is that of the last commit, that the screen shows it until a rectangle comes that counts, and that no commit is spent on a
  retry: so a commit that moves the frame finds a difference and restarts the window.
- `CaptureAlwaysExact`: `Spec => CaptureExact`, an action property, against a server that answers a full request whole and in
  one message (`AnswersWhole`) and tells its size (`SizesTold`), for a caller who issues no stable command. Each is needed: the run
  `screen` violates the property with `Short`, without `Announces`, or with `"stable"` and two changes (a settled watch leaves its request behind,
  and the answer comes in the capture's time), `stale_capture` with two messages. Under them the
  connection is never more than one request, its answer, or nothing (`Single`). `Exact` then says what a capture under way knows: the mask
  spans the desktop the client knows; no tile painted over in it, nor any in an item on its way, is one that the server's screen
  and its view of the client differ in; and after a retry, which is for the desktop all have agreed on by then, the differing tiles
  are owed. At the save, `Bound` makes the client's screen the server's view of it, and either
  the mask is painted over or the second answer has been read; both leave no tile in which view and screen differ.

`RFBClientProofs`, for any versions, offers, subtypes, faults, factories and lengths, any number of messages, and however TCP cuts the
stream, from one inductive invariant `IInv`

- `AlwaysInStep`: `Spec => []InStep`. Not inductive: it compares the parked handler with the next field, but says nothing of the
  fields behind that one, of which the server may have written any number. So the invariant follows a *path* (`Parses`): a sequence of
  stations, from where the client is to where it will be when it has read everything sent, each made of the one before by what
  the handler of a field does with it (`Reads`). At the end of the path client and server have to agree (`Meets`: which field is next,
  of what length, and what the client has said that the server has not read yet). A field read takes the head
  of the path away, a field sent adds its end, so no step looks at more than one field. One lemma per handler shows that the action is
  the step of `Reads`; one per server action that `Meets` holds again.
- `TypeCorrect`: a conjunct of the invariant. `BufferAlwaysBounded`: a second layer on it. A handler is parked for a length that `requirePayload`
  has passed, or for one that the value of a field on the wire is too narrow to push above the limit (`Narrow`, `LimitAssumption`). The two handlers of `Unchecked` are named in the property. `AlwaysServed`: the counts of updates begun, painted and committed travel along
  the path.
- `AlwaysReported`: from `Phase`, which lists the ways a connection can be: `Alive` on a path; `Early`, fed bytes ahead of its turn;
  `Aborted`, `Refused`, `Finished`, having given up with or without a report; `Lost`. A phase that ends without a report names the fault that
  led to it, one of the four of `Untold`, so the theorem says that there is no fifth.

Of the module's assumptions three matter beyond types: a list of subtypes is finite and fits a count of one byte (`SubtypeAssumption`), so that
it has a best one; a SecurityResult is one of three (`ResultAssumption`); and the limit is no less than what two bytes can say, nor than any
reason a server gives that is not the fault `"reason"` (`LimitAssumption`).

`ThreadedProxyProofs`, for any number and kinds of calls. The inductive invariant `IInv` adds to the types (`Typed`) that the method
under way is the one the chain is paused for (`OneUnder`) and that along the way of a call, from `posted` to `callbacks` to
`paused`, calls stand in the order they were made (`Ordered`); the shared variable of both threads is where this could go wrong.

- `TypeCorrect`; `CallsOneByOne`: `Spec => OneByOne`, the refinement of `SerialCalls`, each action a step of it or a stutter.
- `ResultAlwaysMatches`: from `Fresh`, that without a timeout there is never an outcome, nor a call that will have one,
  but of the call the application waits for.
- `DisconnectAlwaysCloses`: from `Closing`, that the event is set only where there is no connection any more.

`RectangleProofs`, first of a buffer of any size, on any backing, holding pixels of any set

- `FillPaintsItsArea`, `BlitPaintsItsArea`: the area's pixels become what is painted, every other pixel stays, and is blank if
  nothing was painted before. `PixelOfArea` is the arithmetic of rows: an offset of the backing lies in a row of the area
  exactly if its pixel lies in the area. That `Materialize` and `Clear` change no pixel a reader could see is shown first.
  `Pasted` rests on them in the decoders that paint tile by tile.

and then of all the decoders and the pump, for any framebuffer, tiles and lists of rectangles, any use of Tight's streams, and
any number of rectangles, well formed or broken

- `AlwaysInStep`: `Spec => []InStep`. InStep compares the field waited for with the first on the wire, and is not inductive: a
  length computed wrongly, or a field forgotten, shows only later. The inductive invariant `StreamInvariant` (`StreamInvariantHolds`)
  says, for each place where a decoder can be parked, what the rest of the wire is to its end (`Flow`): the field waited for, with
  some value, and after it whatever the encoding has for that value and for what the decoder keeps in its local variables. What may follow is
  described once per encoding: `AfterControl`, `AfterFilter`, `AfterSize` and `Compressed` for Tight, whose data is there or
  not, compressed or not, by its size alone (`DataOf`, `MIN_TO_COMPRESS`); `Left` for the one to three bytes of a length, of which
  the decoder has put together the low ones (`NextByte` is the arithmetic of one more); `HexFields` and `HexAfter` for a Hextile tile,
  whose bits decide the sizes of both fields after it. Hextile and ZRLE also need the server's place, since their fields are written
  tile by tile or at the end: `HexNext` and `HexRest` say that the server is at the tile the decoder is at, or one ahead, and
  that a rectangle that ends early is a broken one. Nothing more is claimed of a connection given up (`aborted`), nor of one where
  a broken rectangle has nothing left on the wire (`Dead`). There is a lemma for each step of a decoder, which takes one field and leaves
  the rest, and for each of the server.
- `Flow` quantifies over all sequences of fields, so TLC cannot evaluate it; the run `decoders` checks `InStep` itself.

Of the assumptions on constants it needs `ServerAssumption` (the server uses streams and lengths there are) and, of `DecoderAssumption`,
that `MIN_TO_COMPRESS` is not 0 (12 in the code: an empty rectangle has no data at all, and no length in front of it) and that JPEG is
none of Tight's streams. Compressed lengths are assumed to fit the 22 bits of three bytes; nothing in the proof rests on it.

`CommandRunProofs`, from one inductive invariant `RunInv`, whose parts say that nothing is
decided before the reactor runs (`Started`), that only the outcome schedules a stop
(`StopsFollow`), that a chain at its end has an outcome and SUCCESS is only decided there
(`Finished`), and that a callback under way was given the client (`Underway`)

- `TypeCorrect`, `SuccessAlwaysHonest`, `CutShortAlwaysHonest`; `FirstAlwaysWins` needs no invariant.

`LoggingProxyProofs`, from one inductive invariant `IInv` for any set of connections, even an infinite one. `ClaimHeld`
is nearly inductive; what it needs is `Owned`, that a refused connection or a probe that has left owns no peer and no
capture. `ExitHonest` relates the exit status to archives written several steps earlier, so
`Books` keeps the account in between: while the session lives nothing is written and the capture is gone exactly
if it failed, afterwards there is one archive or a failure. `Exited` carries it over the exit.

- `TypeCorrect` (at most one archive), `ClaimAlwaysHeld`, `ExitAlwaysHonest`.

`RawCaptureProofs`, for any versions, security types, key sizes and client messages, however the two directions are
cut, and whether or not the archive is served afterwards: the theorems are of `ReplayServer`'s `Spec`, whose own steps leave the
capture alone

- `NoSecretEver`: `Spec => []NoSecret`, `AlwaysRecordsSession`: `Spec => []RecordsSession`. Neither is inductive: that the scrubber drops
  the right bytes depends on its being at the field the session is at. The inductive invariant `IInv` (`CaptureInvariant`) says that the
  scrubber has decoded what this session has said so far (`Knows`); that what a tap holds back, and what is still to come in its direction,
  are together the rest of the session from the scrubber's field on (`Remaining`); that the side the scrubber does not watch has
  nothing held back (`Quiet`) and may not speak, since the field waited for has not been received (`Turns`); and that what is
  recorded and what recording still lacks are together the session the archive shows (`Account`). A chunk taken is then the field
  (`TakeField`), the scrubber resumes at the field the session has next (`MeetsNext`), the rest of the session moves on by one field
  (`LaterRest`), and the account is kept because what is recorded of the field, with what recording lacks after it, is what it
  lacked before (`ShownStep`), which is where a rewritten handshake could go wrong. `NoSecret` follows as no field of an authentication is
  in the session shown.

They rest on `ReplyAssumption`, `TypeAssumption`, `PieceAssumption` and `InputAssumption`: sizes are naturals, pieces are not empty and
clients send messages of the kinds listed.

`ReplayServerProofs`, for any archive `RawCapture` can leave, any messages of the live client, of any kinds and in any number, and
however its bytes are cut

- `AlwaysPaced`: `Spec => []Paced`. It says what has been written, and nothing of where server and client are; what keeps it is that the
  grammar of the live session is where the recorded session is. The inductive invariant `ReplayInv` (`ReplayInvariant`) says so
  of both directions: what is to be written (the rest of the recording, then what the recording has lost) and what is to be read
  (the buffer, then what the client has still to send) are the rest of the session from the grammar's field on. It does so for each stage
  of a connection: `Greets`, where the client's version is not known yet, `Talks`, the rest of the handshake, `Asks`, the
  messages, `Denied`, a refusal, and `Greeted`, a recording that ends with the server's greeting. A chunk written or read is then the
  field the grammar waits for, and comes before all the client has still to say (`NothingBefore`, `BehindField`). In `Asks` what
  is to be read begins where a message begins: `OffsetNext` and `MessagePlace` say where that is in a script of any length,
  so the message found at the head of the buffer is one of the script, and the request seen is one the client has sent (`Sees`). A recording
  that runs out is served to its end, of which nothing is screen unless the client has asked (`RestServed`).
- It rests on `CaptureInvariant`, which says what the recording can be, and on `ArchiveInv`: an archive without the version
  the session settled on ends within the server's greeting, so no client can get past `_version_mismatch` with another one.

Of the module's assumptions `ScriptAssumption` is used: clients send messages of the kinds listed.

Also in `ReplayServerProofs`, of vnclog's observer while the session is recorded

- `AlwaysObserverInStep`: `Spec => []ObserverInStep`. The inductive invariant `ObserverInv` (`ObserverInvariant`) says of every session
  that the observer is well formed and what is still to be heard is the end of each direction, and of a session it can follow (`Followed`)
  that what it holds back, and what it has still to hear, are together the rest of what the client says, from where its handler is
  (`Hears`): at a field of the handshake (`Greeting`, `Choosing`, `Proving`, `Opens`), later at the beginning of a message, or of the text
  of one, in the script (`AtOne`, if all messages are `Framed`). `Rests` says that dataReceived has left its loop, `LockStep`
  that ServerInit answers ClientInit: so when the first byte of ServerInit comes, ClientInit has been handled, and nothing that comes
  before it starts the decoder (`Started`). One lemma per handler shows that a turn of the loop leads from one such place to the
  next (`GreetingTurn`, `ChoosingTurn` and so on); the loop itself, a recursive function of the number of turns, is followed by
  induction on it (`Induction`, from the well-foundedness of the naturals; `HeardTurns`).

Only model-checked: liveness (out of the prover's reach); and of `RectangleStream`, `Pasted` and `OnlyBadRefused`, which
say of every encoding that its decoder undoes it: that packed indices unpack, that runs expand to the picture they came from, that overlapping
subrectangles end up in their order. Both sides of that are recursive functions and folds over the data, and would need an
induction over it for each; their proof would begin with `StreamInvariant`, which has no values in it, and the theorems on the buffer.

## Not modelled

- Input (`keyPress`, `mousePress`, `mouseDrag`, `paste`): messages written in sequence by one actor; nothing waits, fails
  halfway or runs beside anything else, except the pauses of a drag, which are `factory.deferred`'s as any other pause is.
- Cryptography, zlib, JPEG, Pillow and TLS: external, each as far as the code can tell its results apart.
- Dialects: `VMWareDialect` filters what one `dataReceived` brings (client.py:744), as its comment admits; a model would say so again.
- The WebSocket transport: its interleavings are the autobahn library's. Constants, keysyms, cursor modes: tables.
- Option and address parsing, log formats, script formats; the cursor overlay and blur of a capture.
- `api.connect`: it starts the reactor's thread if `reactor.running` does not say that one runs (api.py:183), which a second
  `connect` can find still false. `ThreadedProxy` begins when it has returned, once.
- vnclog's decoder of the server's stream after its start is `RFBClient` again, in a pixel format that follows the client's
  SetPixelFormat at once (loggingproxy.py:440) while the server's answer is on its way.

## Plan

1. `ScreenRefresh` as an implementation of an abstract screen (a capture is a screen the server had since it was asked for), for
   servers that do not split.
2. Dialects on top of `RFBClient`'s stream, and vnclog's decoder across a change of pixel format.
