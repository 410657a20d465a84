---------------------------- MODULE ScreenRefresh ----------------------------
(***************************************************************************)
(* How one VNCDoToolClient keeps its copy of the remote screen, and how    *)
(* the commands that wait for the screen (refreshScreen, captureScreen,    *)
(* captureRegion, expectScreen, expectRegion, stableScreen, stableRegion)  *)
(* share the single `self.deferred` slot that commitUpdate fires.          *)
(*                                                                         *)
(* The screen is one row of tiles.  A desktop size (self.width and         *)
(* self.height) and a region are the set of tiles they cover, an image is  *)
(* a function from tiles to pixel values, and <<>>, the image of no tile,  *)
(* is Python's None.  The rectangles of an update arrive one at a time,    *)
(* because a TCP read may end anywhere: a timer or the next command may    *)
(* run between two of them.                                                *)
(*                                                                         *)
(* The server is external.  It coalesces update requests, answers an       *)
(* incremental one only when something changed, and a full one with the    *)
(* whole requested area over at most MaxParts messages; when Short it may  *)
(* leave part of that area out, as the CHANGELOG says UltraVNC does.       *)
(***************************************************************************)
EXTENDS Integers, Sequences, FiniteSets

CONSTANTS
    Sizes,        \* desktop sizes, in tiles, the server may have
    MaxPix,       \* pixel values are 0..MaxPix; 0 is black
    Fuzz,         \* how far two pixels may differ and still match
    Window,       \* `seconds` of a stable command, in clock ticks
    Commands,     \* which commands the caller may issue
    Boxes,        \* regions, as sets of tiles
    Targets,      \* [box, image] pairs for the expect commands
    Announces,    \* does the server announce DesktopSize
    Short,        \* may the server answer short of the requested area
    MaxParts,     \* messages the server may split one full answer over
    MaxOps,       \* bound: commands issued
    MaxChanges,   \* bound: changes of the server's framebuffer
    MaxNoise,     \* bound: rectangles that paint nothing
    MaxWire       \* bound: messages and rectangles in flight

Black  == 0
Pixels == 0..MaxPix
Desktops == {1..n : n \in Sizes}
Tiles  == UNION Desktops
Images == UNION {[area -> Pixels] : area \in SUBSET Tiles}
AllCommands == {"refresh", "capture", "expect", "stable"}

ASSUME SizesAssumption  == Sizes \subseteq Nat \ {0} /\ Sizes # {}
ASSUME PixelAssumption  == MaxPix \in Nat \ {0} /\ Fuzz \in Nat
ASSUME WindowAssumption == Window \in Nat \ {0}
ASSUME CommandAssumption == Commands \subseteq AllCommands
ASSUME BoxAssumption    == /\ \A b \in Boxes : b \subseteq Tiles /\ b # {}
                           /\ \A g \in Targets : g.box \subseteq Tiles /\ g.image \in Images
ASSUME ServerAssumption == /\ Announces \in BOOLEAN /\ Short \in BOOLEAN
                           /\ MaxParts \in Nat \ {0}
ASSUME BoundAssumption  == /\ MaxOps \in Nat /\ MaxChanges \in Nat
                           /\ MaxNoise \in Nat /\ MaxWire \in Nat

Whole == {}       \* the box of a command on the whole screen (Python's None)

VARIABLES
    \* the client
    screen,       \* self.screen
    desktop,      \* self.width and self.height: the tiles they span
    mask,         \* self._fullscreen: its area, unpainted tiles and retries
    deferred,     \* the callback riding on self.deferred, or "none"
    counted,      \* is rectanglePos non-empty: some rectangle "changed"
    op,           \* the command the caller is waiting for
    watch,        \* the _StableWatch of the last stable command
    saved,        \* the image the last capture wrote
    \* the connection
    c2s, s2c,
    \* the server
    fb,           \* its framebuffer
    view,         \* what the client holds once it has read all of s2c
    asked, owed, parts,
    phase,        \* of the message it is sending: "idle", "begun", "sending"
    \* bounds, and what the properties need to remember
    ops, changes, noise,
    steady,       \* fb has not changed since the command was issued
    quiet,        \* clock ticks since an update moved the watched frame
    frame         \* the watched part of the screen at the last commit

client == <<screen, desktop, mask, deferred, counted, op, watch, saved>>
server == <<fb, view, asked, owed, parts, phase, changes, noise>>
ghost  == <<steady, quiet, frame>>
vars   == <<client, c2s, s2c, server, ops, ghost>>

-----------------------------------------------------------------------------
(* Images *)

None == <<>>

\* Image.new in black with the old image pasted on it; also Image.crop, which
\* pads with black what lies outside the image.
Fit(img, area) == [t \in area |-> IF t \in DOMAIN img THEN img[t] ELSE Black]

Crop(img, box) == IF box = Whole THEN img ELSE Fit(img, box)

Near(p, q) == p - q <= Fuzz /\ q - p <= Fuzz

\* imagematch.matches: the same size, and no pixel further off than the fuzz.
Matches(a, b) == DOMAIN a = DOMAIN b /\ \A t \in DOMAIN a : Near(a[t], b[t])

\* VNCDoToolClient._requireOnScreen: against the screen if there is one.
OnScreen(box) == box \subseteq (IF screen = None THEN desktop ELSE DOMAIN screen)

-----------------------------------------------------------------------------
(* _FullScreenReceived *)

MAX_RETRIES == 1

Awaiting(area) == [area |-> area, unpainted |-> area, retries |-> 0]
Satisfied == Awaiting({})

Complete(m) == m.unpainted = {}
Pending(m)  == m.area # {}
PaintRect(m, box) == [m EXCEPT !.unpainted = @ \ box]

-----------------------------------------------------------------------------
(* The commands *)

Request(inc) == [incremental |-> inc, area |-> desktop]
Ask(inc)     == c2s' = Append(c2s, Request(inc))

\* refreshScreen and the second half of _expectCompare: a new deferred in the
\* slot, whatever it held, and one request.
Arm(callback, inc) ==
    /\ deferred' = callback
    /\ mask' = IF inc THEN Satisfied ELSE Awaiting(desktop)
    /\ Ask(inc)

Idle == [cmd |-> "idle", incremental |-> FALSE, box |-> Whole, target |-> None]
Failed == [Idle EXCEPT !.cmd = "failed"]

\* The caller's commands run one after the other; a failed one ends the chain.
Issue(cmd) ==
    /\ op.cmd = "idle" /\ cmd \in Commands /\ ops < MaxOps
    /\ ops' = ops + 1 /\ steady' = TRUE
    /\ UNCHANGED <<screen, desktop, counted, saved, s2c, server>>

RefreshScreen(inc) ==
    /\ Issue("refresh")
    /\ op' = [Idle EXCEPT !.cmd = "refresh", !.incremental = inc]
    /\ Arm("refresh", inc)
    /\ UNCHANGED <<watch, quiet, frame>>

CaptureScreen(inc) ==
    /\ Issue("capture")
    /\ op' = [Idle EXCEPT !.cmd = "capture", !.incremental = inc]
    /\ Arm("capture", inc)
    /\ UNCHANGED <<watch, quiet, frame>>

CaptureRegion(box, inc) ==
    /\ Issue("capture")
    /\ IF OnScreen(box)
       THEN /\ op' = [Idle EXCEPT !.cmd = "capture", !.incremental = inc, !.box = box]
            /\ Arm("capture", inc)
       ELSE op' = Failed /\ UNCHANGED <<deferred, mask, c2s>>
    /\ UNCHANGED <<watch, quiet, frame>>

\* Mutant: a region is compared as if it were the whole screen.
Matched_WholeScreen(box, image) == screen # None /\ Matches(screen, image)

\* _expectCompare, entered by the command and again by every refresh it waits
\* for: fail off the screen, finish on a match, ask again otherwise.  Only the
\* last touches the slot and the mask, so they are passed as they stand.
Matched(box, image) == screen # None /\ Matches(Crop(screen, box), image)

ExpectCompare(box, image, slot, received) ==
    \/ /\ ~OnScreen(box)
       /\ op' = Failed
       /\ deferred' = slot /\ mask' = received /\ c2s' = c2s
    \/ /\ OnScreen(box) /\ Matched(box, image)
       /\ op' = Idle
       /\ deferred' = slot /\ mask' = received /\ c2s' = c2s
    \/ /\ OnScreen(box) /\ ~Matched(box, image)
       /\ op' = [Idle EXCEPT !.cmd = "expect", !.box = box, !.target = image]
       /\ Arm("expect", screen # None)

Expect(target) ==
    /\ Issue("expect")
    /\ ExpectCompare(target.box, target.image, deferred, mask)
    /\ UNCHANGED <<watch, quiet, frame>>

\* stableScreen (box = Whole) and stableRegion; _StableWatch.start.
NewWatch(box, base) ==
    [box |-> box, base |-> base, left |-> Window, running |-> base # None, settled |-> FALSE]

Stable(box) ==
    /\ Issue("stable")
    /\ \/ /\ ~OnScreen(box)
          /\ op' = Failed /\ UNCHANGED <<deferred, mask, c2s, watch, quiet, frame>>
       \/ /\ OnScreen(box)
          /\ op' = [Idle EXCEPT !.cmd = "stable", !.box = box]
          /\ watch' = NewWatch(box, IF screen = None THEN None ELSE Crop(screen, box))
          /\ Arm("update", screen # None)
          /\ quiet' = 0 /\ frame' = watch'.base

-----------------------------------------------------------------------------
(* The rectangles of an update, as the decoders hand them to the client *)

Arrives(kind) == s2c # <<>> /\ Head(s2c).kind = kind /\ s2c' = Tail(s2c)
Quietly == UNCHANGED <<deferred, op, watch, saved, c2s, server, ops, ghost>>

\* A first rectangle creates a screen of the announced size and is clipped to
\* it; one that runs off an existing screen makes the screen grow to hold it.
Reach(box) == UNION {1..t : t \in box}

Painted(img, pixels) ==
    LET base == IF img = None THEN Fit(img, desktop)
                ELSE Fit(img, DOMAIN img \cup Reach(DOMAIN pixels))
    IN  [t \in DOMAIN base |-> IF t \in DOMAIN pixels THEN pixels[t] ELSE base[t]]

UpdateRectangle ==
    /\ Arrives("paint")
    /\ screen' = Painted(screen, Head(s2c).pixels)
    /\ mask' = PaintRect(mask, DOMAIN Head(s2c).pixels)
    /\ counted' = TRUE
    /\ UNCHANGED desktop /\ Quietly

\* CopyRect counts as a change even when there is no screen to copy within.
CopyRectangle ==
    /\ Arrives("copy")
    /\ LET from == Head(s2c).src
           to   == Head(s2c).dst
       IN  IF screen = None
           THEN UNCHANGED <<screen, mask>>
           ELSE /\ screen' = [t \in DOMAIN screen |-> IF t = to THEN Fit(screen, {from})[from] ELSE screen[t]]
                /\ mask' = PaintRect(mask, {to})
    /\ counted' = TRUE
    /\ UNCHANGED desktop /\ Quietly

\* Mutant: the new size leaves the mask of a pending refresh at the old one.
UpdateDesktopSize_OldMask ==
    /\ Arrives("size")
    /\ screen' = Fit(screen, Head(s2c).area)
    /\ desktop' = Head(s2c).area
    /\ UNCHANGED <<mask, counted>> /\ Quietly

\* Mutant: the new size starts from a black screen.
UpdateDesktopSize_Blank ==
    /\ Arrives("size")
    /\ screen' = Fit(None, Head(s2c).area)
    /\ desktop' = Head(s2c).area
    /\ mask' = IF Pending(mask) THEN Awaiting(desktop') ELSE mask
    /\ UNCHANGED counted /\ Quietly

UpdateDesktopSize ==
    /\ Arrives("size")
    /\ screen' = Fit(screen, Head(s2c).area)
    /\ desktop' = Head(s2c).area
    /\ mask' = IF Pending(mask) THEN Awaiting(desktop') ELSE mask
    /\ UNCHANGED counted /\ Quietly

\* A Cursor rectangle paints nothing but is counted, PointerPos is not.
UpdateCursor ==
    /\ Arrives("cursor")
    /\ counted' = TRUE
    /\ UNCHANGED <<screen, desktop, mask>> /\ Quietly

UpdatePointerPos ==
    /\ Arrives("pointer")
    /\ UNCHANGED <<screen, desktop, mask, counted>> /\ Quietly

-----------------------------------------------------------------------------
(* commitUpdate, and the callback it fires *)

\* What every commit does around the client's own handling: the message is
\* consumed, and the watched frame is noted.
Commit ==
    /\ Arrives("end")
    /\ counted' = FALSE
    /\ frame' = IF op.cmd = "stable" /\ screen # None THEN Crop(screen, watch.box) ELSE frame
    /\ quiet' = IF frame' # None /\ frame # None /\ ~Matches(frame', frame) THEN 0 ELSE quiet
    /\ UNCHANGED <<screen, desktop, server, ops, steady>>

CommitIdle ==
    /\ Commit /\ deferred = "none"
    /\ UNCHANGED <<mask, deferred, op, watch, saved, c2s>>

\* Mutant: an update that painted nothing is waited out without asking again.
CommitNothingPainted_Silent ==
    /\ Commit /\ deferred # "none"
    /\ ~counted \/ screen = None
    /\ UNCHANGED <<mask, deferred, op, watch, saved, c2s>>

CommitNothingPainted ==
    /\ Commit /\ deferred # "none"
    /\ ~counted \/ screen = None
    /\ Ask(FALSE)
    /\ UNCHANGED <<mask, deferred, op, watch, saved>>

\* Mutants: a short answer is counted but not asked for again; or asked for
\* without counting up to MAX_RETRIES.
CommitRetry_Silent ==
    /\ Commit /\ deferred # "none" /\ counted /\ screen # None
    /\ ~Complete(mask) /\ mask.retries < MAX_RETRIES
    /\ mask' = [mask EXCEPT !.retries = @ + 1]
    /\ UNCHANGED <<deferred, op, watch, saved, c2s>>

CommitRetry_Forever ==
    /\ Commit /\ deferred # "none" /\ counted /\ screen # None
    /\ ~Complete(mask)
    /\ mask' = [mask EXCEPT !.retries = @ + 1]
    /\ Ask(FALSE)
    /\ UNCHANGED <<deferred, op, watch, saved>>

CommitRetry ==
    /\ Commit /\ deferred # "none" /\ counted /\ screen # None
    /\ ~Complete(mask) /\ mask.retries < MAX_RETRIES
    /\ mask' = [mask EXCEPT !.retries = @ + 1]
    /\ Ask(FALSE)
    /\ UNCHANGED <<deferred, op, watch, saved>>

\* The refresh is complete, or short after the last retry.
Fires(callback) ==
    /\ Commit /\ deferred = callback /\ counted /\ screen # None
    /\ Complete(mask) \/ mask.retries >= MAX_RETRIES

Done == deferred' = "none" /\ mask' = Satisfied /\ c2s' = c2s

RefreshDone ==
    /\ Fires("refresh") /\ Done
    /\ op' = Idle
    /\ UNCHANGED <<watch, saved>>

CaptureSave ==
    /\ Fires("capture") /\ Done
    /\ \/ OnScreen(op.box) /\ op' = Idle /\ saved' = Crop(screen, op.box)
       \/ ~OnScreen(op.box) /\ op' = Failed /\ saved' = saved
    /\ UNCHANGED watch

ExpectAgain ==
    /\ Fires("expect")
    /\ ExpectCompare(op.box, op.target, "none", Satisfied)
    /\ UNCHANGED <<watch, saved>>

\* Mutants: a change is adopted without restarting the window; a timer is
\* reset when it runs and never started otherwise.
Restarted_KeepsWindow(base) == [watch EXCEPT !.base = base, !.running = TRUE]
Restarted_OnlyResets(base)  == [watch EXCEPT !.base = base, !.left = Window]

\* _StableWatch._update.  Rendering a region that is no longer on the screen
\* raises inside the callback: nothing is asked again and nobody is told.
Restarted(base) == [watch EXCEPT !.base = base, !.left = Window, !.running = TRUE]

\* Mutant: the watch asks again only when the frame changed.
WatchUpdate_AsksOnChange ==
    /\ Fires("update")
    /\ LET now == Crop(screen, watch.box)
       IN  \/ /\ \/ watch.settled \/ ~OnScreen(watch.box)
                 \/ watch.base # None /\ Matches(now, watch.base)
              /\ Done /\ UNCHANGED watch
           \/ /\ ~watch.settled /\ OnScreen(watch.box)
              /\ watch.base = None \/ ~Matches(now, watch.base)
              /\ watch' = Restarted(now)
              /\ Arm("update", TRUE)
    /\ UNCHANGED <<op, saved>>

WatchUpdate ==
    /\ Fires("update")
    /\ \/ /\ watch.settled \/ ~OnScreen(watch.box)
          /\ Done /\ UNCHANGED watch
       \/ /\ ~watch.settled /\ OnScreen(watch.box)
          /\ LET now == Crop(screen, watch.box)
             IN  watch' = IF watch.base = None \/ ~Matches(now, watch.base)
                          THEN Restarted(now) ELSE watch
          /\ Arm("update", TRUE)
    /\ UNCHANGED <<op, saved>>

CommitUpdate == \/ CommitIdle \/ CommitNothingPainted \/ CommitRetry
                \/ RefreshDone \/ CaptureSave \/ ExpectAgain \/ WatchUpdate

-----------------------------------------------------------------------------
(* The clock: reactor.callLater(seconds, self._settle) *)

Tick ==
    /\ watch.running /\ watch.left > 0
    /\ watch' = [watch EXCEPT !.left = @ - 1]
    /\ quiet' = IF quiet < Window THEN quiet + 1 ELSE quiet
    /\ UNCHANGED <<screen, desktop, mask, deferred, counted, op, saved, c2s, s2c, server, ops, steady, frame>>

Settle ==
    /\ watch.running /\ watch.left = 0
    /\ watch' = [watch EXCEPT !.running = FALSE, !.settled = TRUE]
    /\ op' = Idle
    /\ UNCHANGED <<screen, desktop, mask, deferred, counted, saved, c2s, s2c, server, ops, ghost>>

-----------------------------------------------------------------------------
(* The server, external *)

Dirty == {t \in DOMAIN fb : Fit(view, {t})[t] # fb[t]}
Resized == Announces /\ DOMAIN view # DOMAIN fb
Room == Len(c2s) + Len(s2c) < MaxWire

SrvOnly == UNCHANGED <<client, ops, ghost>>

SrvReceive ==
    /\ c2s # <<>>
    /\ c2s' = Tail(c2s)
    /\ asked' = TRUE
    /\ owed' = IF Head(c2s).incremental THEN owed
               ELSE owed \cup (DOMAIN fb \cap Head(c2s).area)
    /\ UNCHANGED <<s2c, fb, view, parts, phase, changes, noise>> /\ SrvOnly

SrvChange(t, p) ==
    /\ changes < MaxChanges /\ t \in DOMAIN fb /\ fb[t] # p
    /\ fb' = [fb EXCEPT ![t] = p]
    /\ changes' = changes + 1 /\ steady' = FALSE
    /\ UNCHANGED <<client, c2s, s2c, view, asked, owed, parts, phase, noise, ops, quiet, frame>>

SrvResize(area) ==
    /\ changes < MaxChanges /\ phase = "idle" /\ area # DOMAIN fb
    /\ Announces \/ DOMAIN fb \subseteq area
    /\ fb' = [t \in area |-> IF t \in DOMAIN fb THEN fb[t] ELSE MaxPix]
    /\ owed' = owed \cap area
    /\ changes' = changes + 1 /\ steady' = FALSE
    /\ UNCHANGED <<client, c2s, s2c, view, asked, parts, phase, noise, ops, quiet, frame>>

\* One FramebufferUpdate message: begun on a pending request when there is
\* something to say, sent rectangle by rectangle, ended.  A new size is the
\* first rectangle of the message after the change.
SrvBegin ==
    /\ asked /\ phase = "idle" /\ Room
    /\ owed # {} \/ Dirty # {} \/ Resized \/ noise < MaxNoise
    /\ asked' = FALSE
    /\ IF Resized
       THEN phase' = "sending" /\ s2c' = Append(s2c, [kind |-> "size", area |-> DOMAIN fb]) /\ view' = Fit(view, DOMAIN fb)
       ELSE phase' = "begun" /\ UNCHANGED <<s2c, view>>
    /\ UNCHANGED <<c2s, fb, owed, parts, changes, noise>> /\ SrvOnly

SrvPaint(box) ==
    /\ phase # "idle" /\ Room
    /\ box # {} /\ box \subseteq owed \cup Dirty
    /\ s2c' = Append(s2c, [kind |-> "paint", pixels |-> [t \in box |-> fb[t]]])
    /\ view' = [t \in DOMAIN view \cup Reach(box) |->
                    IF t \in box THEN fb[t] ELSE Fit(view, {t})[t]]
    /\ owed' = owed \ box
    /\ phase' = "sending"
    /\ UNCHANGED <<c2s, fb, asked, parts, changes, noise>> /\ SrvOnly

\* The server copies only pixels it has already sent.
SrvCopy(from, to) ==
    /\ phase # "idle" /\ Room
    /\ to \in Dirty \cap DOMAIN view /\ from \in DOMAIN view /\ view[from] = fb[to]
    /\ s2c' = Append(s2c, [kind |-> "copy", src |-> from, dst |-> to])
    /\ view' = [view EXCEPT ![to] = fb[to]]
    /\ owed' = owed \ {to}
    /\ phase' = "sending"
    /\ UNCHANGED <<c2s, fb, asked, parts, changes, noise>> /\ SrvOnly

SrvNoise(kind) ==
    /\ phase # "idle" /\ Room /\ noise < MaxNoise
    /\ s2c' = Append(s2c, [kind |-> kind])
    /\ noise' = noise + 1
    /\ phase' = "sending"
    /\ UNCHANGED <<c2s, fb, view, asked, owed, parts, changes>> /\ SrvOnly

SrvEnd ==
    /\ phase = "sending" \/ (phase = "begun" /\ owed = {} /\ Dirty = {})
    /\ s2c' = Append(s2c, [kind |-> "end"])
    /\ phase' = "idle"
    /\ \/ owed = {} /\ parts' = 0 /\ owed' = owed /\ asked' = asked
       \/ owed # {} /\ parts + 1 < MaxParts
          /\ parts' = parts + 1 /\ owed' = owed /\ asked' = TRUE
       \/ owed # {} /\ Short /\ parts' = 0 /\ owed' = {} /\ asked' = asked
    /\ UNCHANGED <<c2s, fb, view, changes, noise>> /\ SrvOnly

-----------------------------------------------------------------------------
Init ==
    /\ desktop \in Desktops
    /\ fb = [t \in desktop |-> 1] /\ view = Fit(None, desktop)
    /\ screen = None /\ mask = Satisfied /\ deferred = "none" /\ counted = FALSE
    /\ op = Idle /\ saved = None
    /\ watch = [NewWatch(Whole, None) EXCEPT !.settled = TRUE]
    /\ c2s = <<>> /\ s2c = <<>>
    /\ asked = FALSE /\ owed = {} /\ parts = 0 /\ phase = "idle"
    /\ ops = 0 /\ changes = 0 /\ noise = 0
    /\ steady = TRUE /\ quiet = 0 /\ frame = None

Command ==
    \/ \E inc \in BOOLEAN : RefreshScreen(inc) \/ CaptureScreen(inc)
    \/ \E inc \in BOOLEAN, box \in Boxes : CaptureRegion(box, inc)
    \/ \E target \in Targets : Expect(target)
    \/ \E box \in Boxes \cup {Whole} : Stable(box)

Read == \/ UpdateRectangle \/ CopyRectangle \/ UpdateDesktopSize
        \/ UpdateCursor \/ UpdatePointerPos \/ CommitUpdate

SrvSend == \/ SrvBegin \/ SrvEnd
           \/ \E box \in SUBSET Tiles : SrvPaint(box)

SrvChoice == \/ \E t \in Tiles, p \in Pixels \ {Black} : SrvChange(t, p)
             \/ \E area \in Desktops : SrvResize(area)
             \/ \E from, to \in Tiles : SrvCopy(from, to)
             \/ \E kind \in {"cursor", "pointer"} : SrvNoise(kind)

Next == Command \/ Read \/ Tick \/ Settle \/ SrvReceive \/ SrvSend \/ SrvChoice

\* The reactor reads what has arrived and runs its timers; the server answers.
Fairness == /\ WF_vars(Read) /\ WF_vars(Tick) /\ WF_vars(Settle)
            /\ WF_vars(SrvReceive) /\ WF_vars(SrvSend)

Spec == Init /\ [][Next]_vars /\ Fairness

-----------------------------------------------------------------------------
(* Properties *)

Callbacks == {"none", "refresh", "capture", "expect", "update"}

Items == [kind : {"paint"}, pixels : Images]
         \cup [kind : {"copy"}, src : Tiles, dst : Tiles]
         \cup [kind : {"size"}, area : Desktops]
         \cup [kind : {"cursor", "pointer", "end"}]

Masks    == [area : SUBSET Tiles, unpainted : SUBSET Tiles, retries : 0..MAX_RETRIES]
Ops      == [cmd : AllCommands \cup {"idle", "failed"}, incremental : BOOLEAN,
             box : SUBSET Tiles, target : Images]
Watches  == [box : SUBSET Tiles, base : Images, left : 0..Window,
             running : BOOLEAN, settled : BOOLEAN]
Requests == [incremental : BOOLEAN, area : Desktops]

ClientType ==
    /\ screen \in Images /\ desktop \in Desktops /\ mask \in Masks
    /\ deferred \in Callbacks /\ counted \in BOOLEAN
    /\ op \in Ops /\ watch \in Watches /\ saved \in Images

ServerType ==
    /\ fb \in Images /\ DOMAIN fb \in Desktops /\ view \in Images
    /\ asked \in BOOLEAN /\ owed \in SUBSET DOMAIN fb
    /\ parts \in 0..MaxParts /\ phase \in {"idle", "begun", "sending"}
    /\ changes \in 0..MaxChanges /\ noise \in 0..MaxNoise

\* The type of every variable.
TypeOK ==
    /\ ClientType /\ ServerType
    /\ c2s \in Seq(Requests) /\ s2c \in Seq(Items)
    /\ ops \in 0..MaxOps
    /\ steady \in BOOLEAN /\ quiet \in 0..Window /\ frame \in Images

\* Something that will make commitUpdate run is on its way.
Outstanding == c2s # <<>> \/ asked \/ phase # "idle" \/ s2c # <<>>

\* Whoever waits on self.deferred is never left waiting for nothing: whatever
\* order commits, retries, resizes and settled watches come in, a request or
\* its answer is still outstanding (commitUpdate, refreshScreen,
\* _expectCompare, _StableWatch._request).
WaiterIsServed == deferred # "none" => Outstanding

\* While the window of a stable command runs, the watch is in the slot and an
\* update request is pending (specs/screen-stability.md, "Keeping a request
\* outstanding"): silence then really is the server's.
WatchListens == watch.running => deferred = "update" /\ Outstanding

\* The time already waited never exceeds the time since an update last moved
\* the watched frame further than the fuzz from the frame before it
\* (_StableWatch: what a stable command promises its caller).
WindowQuiet == watch.running => quiet + watch.left >= Window

\* Once everything sent has been read, the client's screen is the screen the
\* server believes it has (updateRectangle, copyRectangle, updateDesktopSize).
ScreenFollows ==
    s2c = <<>> => \/ screen = view
                  \/ screen = None /\ \A t \in DOMAIN view : view[t] = Black

\* A full capture taken while the server's screen does not change saves that
\* screen, every pixel of it (captureScreen, captureRegion, _captureSave).
Captured == op.cmd = "capture" /\ ~op.incremental /\ op'.cmd = "idle"
CaptureExact == [][Captured /\ steady => saved' = Crop(fb, op.box)]_vars

\* Every non-incremental refresh and capture completes.
FullRefreshEnds == (op.cmd \in {"refresh", "capture"} /\ ~op.incremental)
                       ~> op.cmd \in {"idle", "failed"}

\* A stable command returns once the screen stops changing.
StableEnds == op.cmd = "stable" ~> op.cmd # "stable"

\* An expect command does not wait forever for an image the server is showing:
\* the incremental requests it keeps asking find it (_expectCompare).
ExpectFinds == []<>~(op.cmd = "expect" /\ Matches(Crop(fb, op.box), op.target))
==============================================================================
