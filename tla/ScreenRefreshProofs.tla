------------------------ MODULE ScreenRefreshProofs --------------------------
(* Proofs about ScreenRefresh, for every value of its constants. *)
EXTENDS ScreenRefresh, TLAPS, SequenceTheorems

-----------------------------------------------------------------------------
(* Sequences *)

\* Appending leaves a non-empty sequence that ends with what was appended.
LEMMA AppendLast ==
    ASSUME NEW S, NEW s \in Seq(S), NEW e \in S
    PROVE  /\ Append(s, e) \in Seq(S)
           /\ Append(s, e) # <<>>
           /\ Append(s, e)[Len(Append(s, e))] = e
  BY AppendProperties

\* Taking the head off leaves the last element where there is one left.
LEMMA TailLast ==
    ASSUME NEW S, NEW s \in Seq(S), s # <<>>
    PROVE  /\ Head(s) \in S
           /\ Tail(s) \in Seq(S)
           /\ Tail(s) # <<>> => Tail(s)[Len(Tail(s))] = s[Len(s)]
           /\ Tail(s) = <<>> => Head(s) = s[Len(s)]
<1>1. Head(s) \in S /\ Tail(s) \in Seq(S)
  BY HeadTailProperties
<1>2. Len(s) \in Nat /\ Len(s) # 0 /\ Len(Tail(s)) = Len(s) - 1
  BY HeadTailProperties, EmptySeq, LenProperties
<1>3. ASSUME Tail(s) # <<>>
      PROVE  Tail(s)[Len(Tail(s))] = s[Len(s)]
  <2>1. Len(Tail(s)) # 0
    BY <1>1, <1>3, EmptySeq
  <2>2. Len(s) - 1 \in 1..Len(Tail(s))
    BY <1>2, <2>1
  <2>3. Tail(s)[Len(s) - 1] = s[(Len(s) - 1) + 1]
    BY <1>2, <2>2, HeadTailProperties
  <2>4. (Len(s) - 1) + 1 = Len(s) /\ Len(Tail(s)) = Len(s) - 1
    BY <1>2
  <2> QED BY <2>3, <2>4, Zenon
<1>4. ASSUME Tail(s) = <<>>
      PROVE  Head(s) = s[Len(s)]
  <2>1. \A n \in Nat : n - 1 = 0 => n = 1
    OBVIOUS
  <2>2. Len(<<>>) = 0
    BY EmptySeq
  <2>3. Len(s) = 1
    BY <1>2, <1>4, <2>1, <2>2, Zenon
  <2>4. Head(s) = s[1]
    OBVIOUS
  <2> QED BY <2>3, <2>4, Zenon
<1> QED BY <1>1, <1>3, <1>4

-----------------------------------------------------------------------------
(* Images *)

\* What a member of Images is, and how to show that something is one.
LEMMA ImageElim ==
    ASSUME NEW f \in Images
    PROVE  /\ DOMAIN f \subseteq Tiles
           /\ f = [t \in DOMAIN f |-> f[t]]
           /\ \A t \in DOMAIN f : f[t] \in Pixels
  BY DEF Images

\* A total map from some tiles to pixels is an image.
LEMMA ImageIntro ==
    ASSUME NEW area \in SUBSET Tiles, NEW f \in [area -> Pixels]
    PROVE  f \in Images
  BY DEF Images

\* Python's None is the image of no tile.
LEMMA NoneIsImage == None \in Images /\ DOMAIN None = {}
<1>1. None \in [{} -> Pixels]
  BY DEF None
<1> QED BY <1>1, ImageIntro

\* The three pixel values the model names are pixels.
LEMMA PixelFacts == Black \in Pixels /\ 1 \in Pixels /\ MaxPix \in Pixels
  BY PixelAssumption DEF Black, Pixels

\* A desktop lies within Tiles, and so does everything left of a tile.
LEMMA DesktopFacts ==
    /\ \A area \in Desktops : area \in SUBSET Tiles
    /\ \A t \in Tiles : 1..t \subseteq Tiles
<1>1. \A area \in Desktops : area \in SUBSET Tiles
  BY DEF Tiles
<1>2. ASSUME NEW t \in Tiles
      PROVE  1..t \subseteq Tiles
  <2>1. PICK n \in Sizes : t \in 1..n
    BY DEF Tiles, Desktops
  <2>2. n \in Nat
    BY SizesAssumption
  <2>3. 1..t \subseteq 1..n
    BY <2>1, <2>2
  <2>4. 1..n \in Desktops
    BY DEF Desktops
  <2> QED BY <2>3, <2>4, <1>1
<1> QED BY <1>1, <1>2

\* Pasting an image on a black canvas gives an image of the canvas's size.
LEMMA FitIsImage ==
    ASSUME NEW img \in Images, NEW area \in SUBSET Tiles
    PROVE  Fit(img, area) \in Images /\ DOMAIN Fit(img, area) = area
<1>1. Fit(img, area) \in [area -> Pixels]
  BY ImageElim, PixelFacts DEF Fit
<1> QED BY <1>1, ImageIntro

\* The rendered region is an image.
LEMMA CropIsImage ==
    ASSUME NEW img \in Images, NEW box \in SUBSET Tiles
    PROVE  Crop(img, box) \in Images
  BY FitIsImage DEF Crop

\* What a rectangle makes the screen grow to stays within Tiles.
LEMMA ReachInTiles ==
    ASSUME NEW box \in SUBSET Tiles
    PROVE  Reach(box) \in SUBSET Tiles
  BY DesktopFacts DEF Reach

\* updateRectangle leaves an image, whatever it grows to.
LEMMA PaintedIsImage ==
    ASSUME NEW img \in Images, NEW pixels \in Images, desktop \in Desktops
    PROVE  Painted(img, pixels) \in Images
<1> DEFINE base == IF img = None THEN Fit(img, desktop)
                   ELSE Fit(img, DOMAIN img \cup Reach(DOMAIN pixels))
<1>1. DOMAIN pixels \in SUBSET Tiles /\ DOMAIN img \in SUBSET Tiles /\ desktop \in SUBSET Tiles
  BY ImageElim, DesktopFacts
<1>2. Reach(DOMAIN pixels) \in SUBSET Tiles
  BY <1>1, ReachInTiles
<1>3. base \in Images
  BY <1>1, <1>2, FitIsImage
<1>4. DOMAIN base \in SUBSET Tiles
  BY <1>3, ImageElim
<1>5. \A t \in DOMAIN base : base[t] \in Pixels
  BY <1>3, ImageElim
<1>6. Painted(img, pixels) = [t \in DOMAIN base |-> IF t \in DOMAIN pixels THEN pixels[t] ELSE base[t]]
  BY DEF Painted
<1>7. Painted(img, pixels) \in [DOMAIN base -> Pixels]
  <2> HIDE DEF base
  <2> QED BY <1>5, <1>6, ImageElim
<1> QED
  <2> HIDE DEF base
  <2> QED BY <1>4, <1>7, ImageIntro

-----------------------------------------------------------------------------
(* Type correctness *)

\* What each kind of rectangle carries.
LEMMA ItemFacts ==
    ASSUME NEW item \in Items
    PROVE  /\ item.kind = "paint" => item.pixels \in Images
           /\ item.kind = "copy" => item.src \in Tiles /\ item.dst \in Tiles
           /\ item.kind = "size" => item.area \in Desktops
  BY DEF Items

\* _FullScreenReceived's operations stay within the masks.
LEMMA MaskFacts ==
    /\ Satisfied \in Masks
    /\ \A area \in SUBSET Tiles : Awaiting(area) \in Masks
    /\ \A m \in Masks : \A box : PaintRect(m, box) \in Masks
  BY DEF Satisfied, Awaiting, Masks, PaintRect, MAX_RETRIES

\* The records the commands put in op are commands.
LEMMA OpFacts ==
    /\ Idle \in Ops /\ Failed \in Ops
    /\ \A cmd \in AllCommands, inc \in BOOLEAN, box \in SUBSET Tiles, image \in Images :
          /\ [Idle EXCEPT !.cmd = cmd, !.incremental = inc] \in Ops
          /\ [Idle EXCEPT !.cmd = cmd, !.incremental = inc, !.box = box] \in Ops
          /\ [Idle EXCEPT !.cmd = cmd, !.box = box] \in Ops
          /\ [Idle EXCEPT !.cmd = cmd, !.box = box, !.target = image] \in Ops
  BY NoneIsImage DEF Idle, Failed, Ops, AllCommands, Whole

\* refreshScreen leaves a callback in the slot, a mask and one more request.
LEMMA ArmType ==
    ASSUME TypeOK, NEW callback \in Callbacks, NEW inc \in BOOLEAN, Arm(callback, inc)
    PROVE  /\ deferred' \in Callbacks /\ mask' \in Masks
           /\ c2s' \in Seq(Requests) /\ c2s' # <<>>
<1>1. desktop \in SUBSET Tiles
  BY DesktopFacts DEF TypeOK, ClientType
<1>2. Request(inc) \in Requests
  BY DEF Request, Requests, TypeOK, ClientType
<1> QED BY <1>1, <1>2, MaskFacts, AppendLast DEF Arm, Ask, TypeOK

\* What is read from the wire is an item, and leaves items.
LEMMA ArrivesType ==
    ASSUME TypeOK, NEW kind, Arrives(kind)
    PROVE  Head(s2c) \in Items /\ s2c' \in Seq(Items)
  BY TailLast DEF Arrives, TypeOK

\* The part every commit shares keeps the types of what it touches.
LEMMA CommitType ==
    ASSUME TypeOK, Commit
    PROVE  /\ s2c' \in Seq(Items) /\ counted' \in BOOLEAN
           /\ quiet' \in 0..Window /\ frame' \in Images
           /\ screen' = screen /\ desktop' = desktop /\ ops' = ops /\ steady' = steady
           /\ ServerType'
<1>1. frame' \in Images
  BY CropIsImage DEF Commit, TypeOK, ClientType, Watches
<1>2. quiet' \in 0..Window
  BY WindowAssumption DEF Commit, TypeOK
<1>3. ServerType'
  BY DEF Commit, server, TypeOK, ServerType
<1> QED BY <1>1, <1>2, <1>3, ArrivesType DEF Commit

\* _expectCompare, from the command or from a commit.
LEMMA ExpectType ==
    ASSUME TypeOK, NEW box \in SUBSET Tiles, NEW image \in Images,
           NEW slot \in Callbacks, NEW received \in Masks,
           ExpectCompare(box, image, slot, received)
    PROVE  op' \in Ops /\ deferred' \in Callbacks /\ mask' \in Masks /\ c2s' \in Seq(Requests)
<1>1. CASE c2s' = c2s /\ deferred' = slot /\ mask' = received /\ op' \in {Failed, Idle}
  BY <1>1, OpFacts DEF TypeOK
<1>2. CASE /\ op' = [Idle EXCEPT !.cmd = "expect", !.box = box, !.target = image]
           /\ Arm("expect", screen # None)
  <2>1. op' \in Ops
    BY <1>2, OpFacts DEF AllCommands
  <2>2. "expect" \in Callbacks /\ (screen # None) \in BOOLEAN
    BY DEF Callbacks
  <2> QED BY <1>2, <2>1, <2>2, ArmType
<1> QED BY <1>1, <1>2 DEF ExpectCompare

\* Every command keeps the types.
LEMMA CommandType ==
    ASSUME TypeOK, Command
    PROVE  TypeOK'
<1> USE DEF TypeOK, ClientType
<1>0. ASSUME NEW cmd, Issue(cmd)
      PROVE  /\ screen' \in Images /\ desktop' \in Desktops /\ counted' \in BOOLEAN
             /\ saved' \in Images /\ s2c' \in Seq(Items) /\ ServerType'
             /\ ops' \in 0..MaxOps /\ steady' \in BOOLEAN
  BY <1>0, BoundAssumption DEF Issue, server, ServerType
<1>1. ASSUME NEW inc \in BOOLEAN, RefreshScreen(inc)
      PROVE  TypeOK'
  <2>1. op' \in Ops
    BY <1>1, OpFacts, NoneIsImage DEF RefreshScreen, AllCommands
  <2> QED BY <1>0, <1>1, <2>1, ArmType DEF RefreshScreen, Callbacks
<1>2. ASSUME NEW inc \in BOOLEAN, CaptureScreen(inc)
      PROVE  TypeOK'
  <2>1. op' \in Ops
    BY <1>2, OpFacts, NoneIsImage DEF CaptureScreen, AllCommands
  <2> QED BY <1>0, <1>2, <2>1, ArmType DEF CaptureScreen, Callbacks
<1>3. ASSUME NEW inc \in BOOLEAN, NEW box \in Boxes, CaptureRegion(box, inc)
      PROVE  TypeOK'
  <2>1. box \in SUBSET Tiles
    BY BoxAssumption
  <2>2. CASE OnScreen(box)
    <3>0. op' = [Idle EXCEPT !.cmd = "capture", !.incremental = inc, !.box = box]
      BY <1>3, <2>2 DEF CaptureRegion
    <3>1. op' \in Ops
      BY <2>1, <3>0, OpFacts, NoneIsImage, Zenon DEF AllCommands
    <3> QED BY <1>0, <1>3, <2>2, <3>1, ArmType DEF CaptureRegion, Callbacks
  <2>3. CASE ~OnScreen(box)
    BY <1>0, <1>3, <2>3, OpFacts DEF CaptureRegion
  <2> QED BY <2>2, <2>3
<1>4. ASSUME NEW target \in Targets, Expect(target)
      PROVE  TypeOK'
  <2>1. target.box \in SUBSET Tiles /\ target.image \in Images
    BY BoxAssumption
  <2> QED BY <1>0, <1>4, <2>1, ExpectType DEF Expect
<1>5. ASSUME NEW box \in Boxes \cup {Whole}, Stable(box)
      PROVE  TypeOK'
  <2>1. box \in SUBSET Tiles
    BY BoxAssumption DEF Whole
  <2>2. CASE ~OnScreen(box)
    BY <1>0, <1>5, <2>2, OpFacts DEF Stable
  <2>3. CASE OnScreen(box)
    <3>1. op' \in Ops
      BY <1>5, <2>1, <2>3, OpFacts, NoneIsImage DEF Stable, AllCommands
    <3>2. (IF screen = None THEN None ELSE Crop(screen, box)) \in Images
      BY <2>1, NoneIsImage, CropIsImage
    <3>3. watch' \in Watches /\ quiet' \in 0..Window /\ frame' \in Images
      <4>1. \A base \in Images : NewWatch(box, base) \in Watches /\ NewWatch(box, base).base = base
        BY <2>1, WindowAssumption DEF NewWatch, Watches
      <4> QED BY <1>5, <2>3, <3>2, <4>1, WindowAssumption DEF Stable
    <3>4. deferred' \in Callbacks /\ mask' \in Masks /\ c2s' \in Seq(Requests)
      BY <1>5, <2>3, ArmType DEF Stable, Callbacks
    <3> QED BY <1>0, <1>5, <3>1, <3>3, <3>4 DEF Stable
  <2> QED BY <2>2, <2>3
<1> QED BY <1>1, <1>2, <1>3, <1>4, <1>5 DEF Command

\* Every rectangle and every commit keeps the types.
LEMMA ReadType ==
    ASSUME TypeOK, Read
    PROVE  TypeOK'
<1> USE DEF TypeOK, ClientType
<1>0. ASSUME Quietly
      PROVE  /\ deferred' \in Callbacks /\ op' \in Ops /\ watch' \in Watches
             /\ saved' \in Images /\ c2s' \in Seq(Requests) /\ ServerType'
             /\ ops' \in 0..MaxOps /\ steady' \in BOOLEAN /\ quiet' \in 0..Window /\ frame' \in Images
  BY <1>0 DEF Quietly, server, ghost, ServerType
<1>1. CASE UpdateRectangle
  <2>1. Head(s2c).pixels \in Images
    BY <1>1, ArrivesType, ItemFacts DEF UpdateRectangle, Arrives
  <2> QED BY <1>0, <1>1, <2>1, ArrivesType, PaintedIsImage, MaskFacts DEF UpdateRectangle
<1>2. CASE CopyRectangle
  <2>1. Head(s2c).src \in Tiles /\ Head(s2c).dst \in Tiles
    BY <1>2, ArrivesType, ItemFacts DEF CopyRectangle, Arrives
  <2>2. screen' \in Images
    <3>1. Fit(screen, {Head(s2c).src})[Head(s2c).src] \in Pixels
      BY <2>1, FitIsImage, ImageElim
    <3>2. CASE screen # None
      <4>1. DOMAIN screen \in SUBSET Tiles /\ \A t \in DOMAIN screen : screen[t] \in Pixels
        BY ImageElim
      <4>2. screen' \in [DOMAIN screen -> Pixels]
        BY <1>2, <3>1, <3>2, <4>1 DEF CopyRectangle
      <4> QED BY <4>1, <4>2, ImageIntro
    <3>3. CASE screen = None
      BY <1>2, <3>3 DEF CopyRectangle
    <3> QED BY <3>2, <3>3
  <2>3. mask' \in Masks
    BY <1>2, MaskFacts DEF CopyRectangle
  <2> QED BY <1>0, <1>2, <2>2, <2>3, ArrivesType DEF CopyRectangle
<1>3. CASE UpdateDesktopSize
  <2>1. Head(s2c).area \in Desktops
    BY <1>3, ArrivesType, ItemFacts DEF UpdateDesktopSize, Arrives
  <2>2. Head(s2c).area \in SUBSET Tiles
    BY <2>1, DesktopFacts
  <2> QED BY <1>0, <1>3, <2>1, <2>2, ArrivesType, FitIsImage, MaskFacts DEF UpdateDesktopSize
<1>4. CASE UpdateCursor
  BY <1>0, <1>4, ArrivesType DEF UpdateCursor
<1>5. CASE UpdatePointerPos
  BY <1>0, <1>5, ArrivesType DEF UpdatePointerPos
<1>6. CASE CommitIdle
  BY <1>6, CommitType DEF CommitIdle
<1>7. CASE CommitNothingPainted
  <2>1. c2s' \in Seq(Requests)
    BY <1>7, AppendLast DEF CommitNothingPainted, Ask, Request, Requests
  <2> QED BY <1>7, <2>1, CommitType DEF CommitNothingPainted
<1>8. CASE CommitRetry
  <2>1. c2s' \in Seq(Requests)
    BY <1>8, AppendLast DEF CommitRetry, Ask, Request, Requests
  <2>2. mask' \in Masks
    BY <1>8 DEF CommitRetry, Masks, MAX_RETRIES
  <2> QED BY <1>8, <2>1, <2>2, CommitType DEF CommitRetry
<1>9. CASE RefreshDone
  BY <1>9, CommitType, MaskFacts, OpFacts DEF RefreshDone, Fires, Done, Callbacks
<1>10. CASE CaptureSave
  <2>1. Crop(screen, op.box) \in Images
    BY CropIsImage DEF Ops
  <2> QED BY <1>10, <2>1, CommitType, MaskFacts, OpFacts DEF CaptureSave, Fires, Done, Callbacks
<1>11. CASE ExpectAgain
  <2>1. op.box \in SUBSET Tiles /\ op.target \in Images /\ "none" \in Callbacks
    BY DEF Ops, Callbacks
  <2> QED BY <1>11, <2>1, CommitType, ExpectType, MaskFacts DEF ExpectAgain, Fires
<1>12. CASE WatchUpdate
  <2>1. watch' \in Watches
    <3>1. Crop(screen, watch.box) \in Images
      BY CropIsImage DEF Watches
    <3>2. Restarted(Crop(screen, watch.box)) \in Watches
      <4>1. Window \in 0..Window /\ watch \in Watches
        BY WindowAssumption
      <4>2. \A w \in Watches, base \in Images, n \in 0..Window :
               [w EXCEPT !.base = base, !.left = n, !.running = TRUE] \in Watches
        BY DEF Watches
      <4> QED BY <3>1, <4>1, <4>2 DEF Restarted
    <3> QED BY <1>12, <3>2 DEF WatchUpdate
  <2>2. deferred' \in Callbacks /\ mask' \in Masks /\ c2s' \in Seq(Requests)
    BY <1>12, ArmType, MaskFacts DEF WatchUpdate, Done, Callbacks
  <2> QED BY <1>12, <2>1, <2>2, CommitType DEF WatchUpdate, Fires
<1> QED BY <1>1, <1>2, <1>3, <1>4, <1>5, <1>6, <1>7, <1>8, <1>9, <1>10, <1>11, <1>12
        DEF Read, CommitUpdate

\* The timer keeps the types.
LEMMA ClockType ==
    ASSUME TypeOK, Tick \/ Settle
    PROVE  TypeOK'
<1> USE DEF TypeOK, ClientType
<1>1. CASE Tick
  <2>0. watch.left \in 0..Window /\ watch.left > 0
    BY <1>1 DEF Tick, Watches
  <2>a. watch.left - 1 \in 0..Window
    BY ONLY <2>0, WindowAssumption
  <2>1. watch' \in Watches
    BY ONLY <2>a, <1>1, watch \in Watches DEF Tick, Watches
  <2>2. quiet' \in 0..Window
    BY <1>1, WindowAssumption DEF Tick
  <2> QED BY <1>1, <2>1, <2>2 DEF Tick, server, ServerType
<1>2. CASE Settle
  <2>1. watch' \in Watches
    BY <1>2 DEF Settle, Watches
  <2> QED BY <1>2, <2>1, OpFacts DEF Settle, server, ghost, ServerType
<1> QED BY <1>1, <1>2

\* Every step of the server keeps the types.
LEMMA ServerStepType ==
    ASSUME TypeOK, SrvReceive \/ SrvSend \/ SrvChoice
    PROVE  TypeOK'
<1> USE DEF TypeOK, ServerType
<1>0. ASSUME SrvOnly
      PROVE  ClientType' /\ ops' \in 0..MaxOps
             /\ steady' \in BOOLEAN /\ quiet' \in 0..Window /\ frame' \in Images
  BY <1>0 DEF SrvOnly, client, ghost, ClientType
<1>a. DOMAIN fb \in SUBSET Tiles /\ DOMAIN view \in SUBSET Tiles
  BY ImageElim
<1>b. Dirty \in SUBSET Tiles
  BY <1>a DEF Dirty
<1>1. CASE SrvReceive
  <2>1. c2s' \in Seq(Requests)
    BY <1>1, TailLast DEF SrvReceive
  <2>2. owed' \in SUBSET DOMAIN fb
    BY <1>1 DEF SrvReceive
  <2> QED BY <1>0, <1>1, <2>1, <2>2 DEF SrvReceive
<1>2. CASE SrvBegin
  <2>1. [kind |-> "size", area |-> DOMAIN fb] \in Items
    BY DEF Items
  <2>2. s2c' \in Seq(Items)
    <3>1. s2c' = s2c \/ s2c' = Append(s2c, [kind |-> "size", area |-> DOMAIN fb])
      BY <1>2 DEF SrvBegin
    <3>2. Append(s2c, [kind |-> "size", area |-> DOMAIN fb]) \in Seq(Items) /\ s2c \in Seq(Items)
      BY <2>1, AppendLast
    <3> QED BY ONLY <3>1, <3>2
  <2>3. view' \in Images
    BY <1>2, <1>a, FitIsImage DEF SrvBegin
  <2> QED BY <1>0, <1>2, <2>2, <2>3 DEF SrvBegin
<1>3. CASE SrvEnd
  <2>1. [kind |-> "end"] \in Items
    BY DEF Items
  <2>2. s2c' \in Seq(Items)
    BY <1>3, <2>1, AppendLast DEF SrvEnd
  <2>3. parts' \in 0..MaxParts
    <3>1. parts' = 0 \/ (parts + 1 < MaxParts /\ parts' = parts + 1)
      BY <1>3 DEF SrvEnd
    <3> QED BY <3>1, ServerAssumption
  <2>4. owed' \in SUBSET DOMAIN fb /\ asked' \in BOOLEAN
    BY <1>3 DEF SrvEnd
  <2> QED BY <1>0, <1>3, <2>2, <2>3, <2>4 DEF SrvEnd
<1>4. ASSUME NEW box \in SUBSET Tiles, SrvPaint(box)
      PROVE  TypeOK'
  <2>0. box \in SUBSET DOMAIN fb
    BY <1>4 DEF SrvPaint, Dirty
  <2>1. [t \in box |-> fb[t]] \in Images
    <3>1. [t \in box |-> fb[t]] \in [box -> Pixels]
      BY <2>0, ImageElim
    <3> QED BY <3>1, ImageIntro
  <2>2. [kind |-> "paint", pixels |-> [t \in box |-> fb[t]]] \in Items
    BY <2>1 DEF Items
  <2>3. s2c' \in Seq(Items)
    BY <1>4, <2>2, AppendLast DEF SrvPaint
  <2>4. view' \in Images
    <3>1. DOMAIN view \cup Reach(box) \in SUBSET Tiles
      BY <1>a, ReachInTiles
    <3>2. \A t \in Tiles : Fit(view, {t})[t] \in Pixels
      BY FitIsImage, ImageElim
    <3>3. \A t \in box : fb[t] \in Pixels
      BY <2>0, ImageElim
    <3>4. view' \in [DOMAIN view \cup Reach(box) -> Pixels]
      BY <1>4, <3>1, <3>2, <3>3 DEF SrvPaint
    <3> QED BY <3>1, <3>4, ImageIntro
  <2> QED BY <1>0, <1>4, <2>3, <2>4 DEF SrvPaint
<1>5. ASSUME NEW t \in Tiles, NEW p \in Pixels, SrvChange(t, p)
      PROVE  TypeOK'
  <2>1. fb' \in [DOMAIN fb -> Pixels]
    BY <1>5, ImageElim DEF SrvChange
  <2>2. fb' \in Images /\ DOMAIN fb' = DOMAIN fb
    BY <1>a, <2>1, ImageIntro
  <2>3. changes' \in 0..MaxChanges
    BY <1>5, BoundAssumption DEF SrvChange
  <2>4. ClientType'
    BY <1>5 DEF SrvChange, client, ClientType
  <2> QED BY <1>5, <2>2, <2>3, <2>4 DEF SrvChange
<1>6. ASSUME NEW area \in Desktops, SrvResize(area)
      PROVE  TypeOK'
  <2>1. fb' \in [area -> Pixels]
    BY <1>6, ImageElim, PixelFacts DEF SrvResize
  <2>2. fb' \in Images /\ DOMAIN fb' = area
    BY <2>1, DesktopFacts, ImageIntro
  <2>3. changes' \in 0..MaxChanges
    BY <1>6, BoundAssumption DEF SrvResize
  <2>4. ClientType'
    BY <1>6 DEF SrvResize, client, ClientType
  <2> QED BY <1>6, <2>2, <2>3, <2>4 DEF SrvResize
<1>7. ASSUME NEW from \in Tiles, NEW to \in Tiles, SrvCopy(from, to)
      PROVE  TypeOK'
  <2>1. [kind |-> "copy", src |-> from, dst |-> to] \in Items
    BY DEF Items
  <2>2. s2c' \in Seq(Items)
    BY <1>7, <2>1, AppendLast DEF SrvCopy
  <2>3. fb[to] \in Pixels
    BY <1>7, ImageElim DEF SrvCopy, Dirty
  <2>4. view' \in [DOMAIN view -> Pixels]
    BY <1>7, <2>3, ImageElim DEF SrvCopy
  <2>5. view' \in Images
    BY <1>a, <2>4, ImageIntro
  <2> QED BY <1>0, <1>7, <2>2, <2>5 DEF SrvCopy
<1>8. ASSUME NEW kind \in {"cursor", "pointer"}, SrvNoise(kind)
      PROVE  TypeOK'
  <2>1. [kind |-> kind] \in Items
    BY DEF Items
  <2>2. s2c' \in Seq(Items)
    BY <1>8, <2>1, AppendLast DEF SrvNoise
  <2> QED BY <1>0, <1>8, <2>2, BoundAssumption DEF SrvNoise
<1> QED BY <1>1, <1>2, <1>3, <1>4, <1>5, <1>6, <1>7, <1>8 DEF SrvSend, SrvChoice

\* Every variable of the client and of the server keeps its type: in
\* particular updateRectangle, copyRectangle and updateDesktopSize always
\* leave an image, and no retry counter passes MAX_RETRIES.
THEOREM TypeCorrect == Spec => []TypeOK
<1>1. Init => TypeOK
  <2> SUFFICES ASSUME Init PROVE TypeOK
    OBVIOUS
  <2>1. desktop \in SUBSET Tiles
    BY DesktopFacts DEF Init
  <2>2. fb \in Images /\ DOMAIN fb = desktop
    <3>1. fb \in [desktop -> Pixels]
      BY PixelFacts DEF Init
    <3> QED BY <2>1, <3>1, ImageIntro
  <2>3. view \in Images
    BY <2>1, NoneIsImage, FitIsImage DEF Init
  <2>4. ClientType
    <3>1. watch \in Watches
      <4>1. NewWatch(Whole, None) \in Watches
        BY NoneIsImage, WindowAssumption DEF NewWatch, Watches, Whole
      <4> QED BY <4>1 DEF Init, Watches
    <3> QED BY <3>1, NoneIsImage, MaskFacts, OpFacts DEF Init, ClientType, Callbacks
  <2>5. ServerType
    <3>1. parts \in 0..MaxParts /\ changes \in 0..MaxChanges /\ noise \in 0..MaxNoise
      BY ServerAssumption, BoundAssumption DEF Init
    <3>2. desktop \in Desktops
      BY DEF Init
    <3> QED BY <2>2, <2>3, <3>1, <3>2 DEF Init, ServerType
  <2>6. c2s \in Seq(Requests) /\ s2c \in Seq(Items)
    BY EmptySeq DEF Init
  <2> QED BY <2>4, <2>5, <2>6, NoneIsImage, BoundAssumption, WindowAssumption DEF Init, TypeOK
<1>2. TypeOK /\ [Next]_vars => TypeOK'
  <2>1. ASSUME TypeOK, UNCHANGED vars
        PROVE  TypeOK'
    BY <2>1 DEF vars, client, server, ghost, TypeOK, ClientType, ServerType
  <2> QED BY <2>1, CommandType, ReadType, ClockType, ServerStepType DEF Next
<1> QED BY <1>1, <1>2, PTL DEF Spec

-----------------------------------------------------------------------------
(* A waiter is always served *)

\* While the server is not in the middle of a message, what is in flight ends
\* with the end of one: commitUpdate runs on the last thing the client reads.
Framed == phase = "idle" /\ s2c # <<>> => s2c[Len(s2c)].kind = "end"

\* WaiterIsServed is not inductive by itself: reading the last rectangle in
\* flight would leave nothing outstanding if no end of message followed it.
ServedInv == TypeOK /\ Framed /\ WaiterIsServed

\* A rectangle leaves the slot alone and something behind it.
LEMMA RectServed ==
    ASSUME ServedInv, NEW kind, Arrives(kind), kind # "end", Quietly
    PROVE  Framed' /\ WaiterIsServed'
<1> USE DEF ServedInv
<1>1. /\ Tail(s2c) # <<>> => Tail(s2c)[Len(Tail(s2c))] = s2c[Len(s2c)]
      /\ Tail(s2c) = <<>> => Head(s2c) = s2c[Len(s2c)]
  BY TailLast DEF Arrives, TypeOK
<1>2. phase' = phase /\ s2c' = Tail(s2c) /\ s2c # <<>>
  BY DEF Quietly, server, Arrives
<1>3. Framed'
  BY <1>1, <1>2 DEF Framed
<1>4. Tail(s2c) # <<>> \/ phase # "idle"
  BY <1>1 DEF Framed, Arrives
<1> QED BY <1>2, <1>3, <1>4 DEF WaiterIsServed, Outstanding

\* A commit consumes one end marker and leaves the wire framed.
LEMMA CommitFramed ==
    ASSUME ServedInv, Commit
    PROVE  Framed'
<1>1. Tail(s2c) # <<>> => Tail(s2c)[Len(Tail(s2c))] = s2c[Len(s2c)]
  BY TailLast DEF Commit, Arrives, TypeOK, ServedInv
<1> QED BY <1>1 DEF Commit, Arrives, server, Framed, ServedInv

\* Every rectangle and every commit leaves a waiter something to wait for.
LEMMA ReadServed ==
    ASSUME ServedInv, Read
    PROVE  Framed' /\ WaiterIsServed'
<1> USE DEF ServedInv
<1>1. CASE UpdateRectangle \/ CopyRectangle \/ UpdateDesktopSize \/ UpdateCursor \/ UpdatePointerPos
  BY <1>1, RectServed
     DEF UpdateRectangle, CopyRectangle, UpdateDesktopSize, UpdateCursor, UpdatePointerPos
<1>2. CASE CommitIdle
  BY <1>2, CommitFramed DEF CommitIdle, WaiterIsServed
<1>3. CASE CommitNothingPainted \/ CommitRetry
  <2>1. c2s' # <<>>
    BY <1>3, AppendLast
       DEF CommitNothingPainted, CommitRetry, Ask, Request, Requests, TypeOK, ClientType
  <2> QED BY <1>3, <2>1, CommitFramed
          DEF CommitNothingPainted, CommitRetry, WaiterIsServed, Outstanding
<1>4. CASE RefreshDone \/ CaptureSave
  BY <1>4, CommitFramed DEF RefreshDone, CaptureSave, Fires, Done, WaiterIsServed
<1>5. CASE ExpectAgain
  <2>1. deferred' = "none" \/ c2s' # <<>>
    BY <1>5, ArmType DEF ExpectAgain, ExpectCompare, Callbacks
  <2> QED BY <1>5, <2>1, CommitFramed DEF ExpectAgain, Fires, WaiterIsServed, Outstanding
<1>6. CASE WatchUpdate
  <2>1. deferred' = "none" \/ c2s' # <<>>
    BY <1>6, ArmType DEF WatchUpdate, Done, Callbacks
  <2> QED BY <1>6, <2>1, CommitFramed DEF WatchUpdate, Fires, WaiterIsServed, Outstanding
<1> QED BY <1>1, <1>2, <1>3, <1>4, <1>5, <1>6 DEF Read, CommitUpdate

\* A command that waits has put its request on the wire.
LEMMA CommandServed ==
    ASSUME ServedInv, Command
    PROVE  Framed' /\ WaiterIsServed'
<1> USE DEF ServedInv
<1>1. s2c' = s2c /\ phase' = phase /\ asked' = asked
  BY DEF Command, RefreshScreen, CaptureScreen, CaptureRegion, Expect, Stable, Issue, server
<1>2. c2s' # <<>> \/ (deferred' = deferred /\ c2s' = c2s)
  <2>1. ASSUME NEW callback \in Callbacks, NEW inc \in BOOLEAN, Arm(callback, inc)
        PROVE  c2s' # <<>>
    BY <2>1, ArmType
  <2>2. ASSUME NEW target \in Targets, Expect(target)
        PROVE  c2s' # <<>> \/ (deferred' = deferred /\ c2s' = c2s)
    BY <2>1, <2>2 DEF Expect, ExpectCompare, Callbacks
  <2>3. ASSUME NEW box, Stable(box)
        PROVE  c2s' # <<>> \/ (deferred' = deferred /\ c2s' = c2s)
    BY <2>1, <2>3 DEF Stable, Callbacks
  <2> QED BY <2>1, <2>2, <2>3 DEF Command, RefreshScreen, CaptureScreen, CaptureRegion, Callbacks
<1> QED BY <1>1, <1>2 DEF Framed, WaiterIsServed, Outstanding

\* The server drops no request without answering it.
LEMMA ServerServed ==
    ASSUME ServedInv, SrvReceive \/ SrvSend \/ SrvChoice
    PROVE  Framed' /\ WaiterIsServed'
<1> USE DEF ServedInv
<1>1. CASE SrvReceive
  BY <1>1 DEF SrvReceive, Framed, WaiterIsServed, Outstanding
<1>2. CASE SrvBegin \/ (\E box \in SUBSET Tiles : SrvPaint(box))
           \/ (\E from, to \in Tiles : SrvCopy(from, to))
           \/ (\E kind \in {"cursor", "pointer"} : SrvNoise(kind))
  <2>1. phase' # "idle"
    BY <1>2 DEF SrvBegin, SrvPaint, SrvCopy, SrvNoise
  <2> QED BY <2>1 DEF Framed, WaiterIsServed, Outstanding
<1>3. CASE SrvEnd
  <2>1. [kind |-> "end"] \in Items
    BY DEF Items
  <2>2. s2c' # <<>> /\ s2c'[Len(s2c')] = [kind |-> "end"]
    BY <1>3, <2>1, AppendLast DEF SrvEnd, TypeOK
  <2> QED BY <2>2 DEF Framed, WaiterIsServed, Outstanding
<1>4. CASE (\E t \in Tiles, p \in Pixels \ {Black} : SrvChange(t, p))
           \/ (\E area \in Desktops : SrvResize(area))
  BY <1>4 DEF SrvChange, SrvResize, client, Framed, WaiterIsServed, Outstanding
<1> QED BY <1>1, <1>2, <1>3, <1>4 DEF SrvSend, SrvChoice

\* Whoever waits on self.deferred is never left waiting for nothing, on any
\* screen, against any server that answers its requests, however it splits,
\* shortens or resizes: commitUpdate asks again whenever it does not finish.
THEOREM WaiterAlwaysServed == Spec => []WaiterIsServed
<1>1. Init => Framed /\ WaiterIsServed
  BY DEF Init, Framed, WaiterIsServed
<1>2. TypeOK /\ Framed /\ WaiterIsServed /\ [Next]_vars => Framed' /\ WaiterIsServed'
  <2>1. ASSUME ServedInv, UNCHANGED vars
        PROVE  Framed' /\ WaiterIsServed'
    BY <2>1 DEF vars, client, server, ServedInv, Framed, WaiterIsServed, Outstanding
  <2>2. ASSUME ServedInv, Tick \/ Settle
        PROVE  Framed' /\ WaiterIsServed'
    BY <2>2 DEF Tick, Settle, server, ServedInv, Framed, WaiterIsServed, Outstanding
  <2> QED BY <2>1, <2>2, ReadServed, CommandServed, ServerServed DEF Next, ServedInv
<1> QED BY <1>1, <1>2, TypeCorrect, PTL DEF Spec

-----------------------------------------------------------------------------
(* A stable command listens as long as its region stays on the screen *)

\* No desktop size the server may take leaves a watched region out.
RegionsFit == \A box \in Boxes, area \in Desktops : box \subseteq area

\* The screen is never smaller than the size the server announced.
Covered == screen # None => desktop \subseteq DOMAIN screen

\* A watch that has not settled belongs to the command being waited for and
\* sits in the slot; only such a watch has its timer running.
WatchArmed ==
    /\ watch.box \in Boxes \cup {Whole}
    /\ watch.running => ~watch.settled
    /\ ~watch.settled => op.cmd = "stable" /\ deferred = "update"

\* A watched region that fits every desktop is on the screen at any time.
LEMMA WatchOnScreen ==
    ASSUME RegionsFit, TypeOK, Covered, WatchArmed
    PROVE  OnScreen(watch.box)
  BY DEF RegionsFit, TypeOK, ClientType, Covered, WatchArmed, OnScreen, Whole

\* Every step keeps the screen at least as large as the announced size.
LEMMA CoveredStep ==
    ASSUME TypeOK, Covered, [Next]_vars
    PROVE  Covered'
<1>1. CASE UpdateRectangle
  <2>1. \A pixels : DOMAIN Painted(screen, pixels)
                      = IF screen = None THEN desktop ELSE DOMAIN screen \cup Reach(DOMAIN pixels)
    BY DEF Painted, Fit
  <2> QED BY <1>1, <2>1 DEF UpdateRectangle, Covered
<1>2. CASE CopyRectangle
  BY <1>2 DEF CopyRectangle, Covered
<1>3. CASE UpdateDesktopSize
  BY <1>3 DEF UpdateDesktopSize, Covered, Fit
<1>4. CASE UNCHANGED <<screen, desktop>>
  BY <1>4 DEF Covered
<1>5. CASE Command
  BY <1>4, <1>5 DEF Command, RefreshScreen, CaptureScreen, CaptureRegion, Expect, Stable, Issue
<1>6. CASE UpdateCursor \/ UpdatePointerPos \/ Tick \/ Settle
  BY <1>4, <1>6 DEF UpdateCursor, UpdatePointerPos, Tick, Settle
<1>7. CASE CommitUpdate
  BY <1>4, <1>7 DEF CommitUpdate, CommitIdle, CommitNothingPainted, CommitRetry, RefreshDone,
                    CaptureSave, ExpectAgain, WatchUpdate, Fires, Commit
<1>8. CASE SrvReceive \/ SrvSend \/ SrvChoice
  BY <1>4, <1>8 DEF SrvSend, SrvChoice, SrvReceive, SrvBegin, SrvPaint, SrvEnd, SrvCopy, SrvNoise,
                    SrvChange, SrvResize, SrvOnly, client
<1>9. CASE UNCHANGED vars
  BY <1>4, <1>9 DEF vars, client
<1> QED BY <1>1, <1>2, <1>3, <1>5, <1>6, <1>7, <1>8, <1>9 DEF Next, Read

\* Until it settles, a watch keeps the slot, whatever the step.
LEMMA WatchArmedStep ==
    ASSUME RegionsFit, TypeOK, Covered, WatchArmed, [Next]_vars
    PROVE  WatchArmed'
<1>0. ASSUME UNCHANGED <<watch, op, deferred>>
      PROVE  WatchArmed'
  BY <1>0 DEF WatchArmed
<1>1. ASSUME Command
      PROVE  WatchArmed'
  <2>1. watch.settled /\ ~watch.running
    BY <1>1 DEF WatchArmed, Command, RefreshScreen, CaptureScreen, CaptureRegion, Expect, Stable, Issue
  <2>2. CASE watch' = watch
    BY <2>1, <2>2 DEF WatchArmed
  <2>3. ASSUME NEW box \in Boxes \cup {Whole}, Stable(box)
        PROVE  WatchArmed'
    <3>1. CASE watch' = watch
      BY <2>2, <3>1
    <3>2. CASE OnScreen(box)
      <4>1. \A base : /\ NewWatch(box, base).box = box
                      /\ NewWatch(box, base).settled = FALSE
        BY DEF NewWatch
      <4>2. watch'.box = box /\ watch'.settled = FALSE
        BY <2>3, <3>2, <4>1 DEF Stable
      <4>3. op'.cmd = "stable" /\ deferred' = "update"
        BY <2>3, <3>2 DEF Stable, Arm, Idle
      <4> QED BY <4>2, <4>3 DEF WatchArmed
    <3> QED BY <2>3, <3>1, <3>2 DEF Stable
  <2> QED BY <1>1, <2>2, <2>3 DEF Command, RefreshScreen, CaptureScreen, CaptureRegion, Expect
<1>2. CASE UpdateRectangle \/ CopyRectangle \/ UpdateDesktopSize \/ UpdateCursor \/ UpdatePointerPos
  BY <1>0, <1>2 DEF UpdateRectangle, CopyRectangle, UpdateDesktopSize, UpdateCursor,
                    UpdatePointerPos, Quietly
<1>3. CASE CommitIdle \/ CommitNothingPainted \/ CommitRetry
  BY <1>0, <1>3 DEF CommitIdle, CommitNothingPainted, CommitRetry
<1>4. CASE RefreshDone \/ CaptureSave \/ ExpectAgain
  <2>1. watch.settled /\ ~watch.running /\ watch' = watch
    BY <1>4 DEF RefreshDone, CaptureSave, ExpectAgain, Fires, WatchArmed
  <2> QED BY <2>1 DEF WatchArmed
<1>5. CASE WatchUpdate
  <2>1. CASE watch.settled
    BY <1>5, <2>1 DEF WatchUpdate, WatchArmed
  <2>2. CASE ~watch.settled
    <3>1. Arm("update", TRUE) /\ op' = op
      BY <1>5, <2>2, WatchOnScreen DEF WatchUpdate
    <3>2. watch'.box = watch.box /\ watch'.settled = watch.settled
      BY <1>5, <2>2, WatchOnScreen DEF WatchUpdate, Restarted, TypeOK, ClientType, Watches
    <3> QED BY <2>2, <3>1, <3>2 DEF WatchArmed, Arm
  <2> QED BY <2>1, <2>2
<1>6. CASE Tick
  BY <1>6 DEF Tick, WatchArmed, TypeOK, ClientType, Watches
<1>7. CASE Settle
  BY <1>7 DEF Settle, WatchArmed, TypeOK, ClientType, Watches
<1>8. CASE SrvReceive \/ SrvSend \/ SrvChoice
  BY <1>0, <1>8 DEF SrvSend, SrvChoice, SrvReceive, SrvBegin, SrvPaint, SrvEnd, SrvCopy, SrvNoise,
                    SrvChange, SrvResize, SrvOnly, client
<1>9. CASE UNCHANGED vars
  BY <1>0, <1>9 DEF vars, client
<1> QED BY <1>1, <1>2, <1>3, <1>4, <1>5, <1>6, <1>7, <1>8, <1>9 DEF Next, Read, CommitUpdate

\* While the window of a stable command runs, a request is outstanding
\* throughout it, provided the region lies on every desktop the server may
\* take (always so for stableScreen): _StableWatch never mistakes its own
\* silence for the server's.
THEOREM WatchAlwaysListens ==
    ASSUME RegionsFit
    PROVE  Spec => []WatchListens
<1>1. Init => Covered /\ WatchArmed
  BY DEF Init, Covered, WatchArmed, NewWatch
<1>2. TypeOK /\ Covered /\ WatchArmed /\ [Next]_vars => Covered' /\ WatchArmed'
  BY RegionsFit, CoveredStep, WatchArmedStep
<1>3. TypeOK /\ WatchArmed /\ WaiterIsServed => WatchListens
  BY DEF WatchArmed, WaiterIsServed, WatchListens, TypeOK, ClientType, Watches
<1> QED BY <1>1, <1>2, <1>3, TypeCorrect, WaiterAlwaysServed, PTL DEF Spec

-----------------------------------------------------------------------------
(* The client's screen follows the server's *)

\* A server that may change its desktop size says so; one that may not has but
\* one size.  Without this a rectangle beyond the size of ServerInit is clipped
\* to it as long as there is no screen yet (updateRectangle).
SizesTold == Announces \/ \A a, b \in Desktops : a = b

\* What reading an item makes of a screen and a desktop size, were it read on
\* the display d.
PaintedOn(d, pixels) ==
    LET area == IF d.screen = None THEN d.desktop ELSE DOMAIN d.screen \cup Reach(DOMAIN pixels)
    IN  [t \in area |-> IF t \in DOMAIN pixels THEN pixels[t] ELSE Fit(d.screen, area)[t]]

CopiedOn(d, from, to) ==
    [t \in DOMAIN d.screen |-> IF t = to THEN Fit(d.screen, {from})[from] ELSE d.screen[t]]

Show(d, item) ==
    [screen  |-> IF item.kind = "paint" THEN PaintedOn(d, item.pixels)
                 ELSE IF item.kind = "copy" /\ d.screen # None THEN CopiedOn(d, item.src, item.dst)
                 ELSE IF item.kind = "size" THEN Fit(d.screen, item.area)
                 ELSE d.screen,
     desktop |-> IF item.kind = "size" THEN item.area ELSE d.desktop]

\* Reading the items q one after the other leads from the display d to e.
Leads(d, q, e) ==
    \E p : /\ p[0] = d /\ p[Len(q)] = e
           /\ \A i \in 1..Len(q) : p[i] = Show(p[i - 1], q[i])

Display == [screen |-> screen, desktop |-> desktop]

\* The display e is what the server believes the client to have.
Held(e) ==
    /\ e.desktop = DOMAIN view
    /\ \/ e.screen = view
       \/ e.screen = None /\ \A t \in DOMAIN view : view[t] = Black

\* ScreenFollows speaks of the moment when all has been read.  At any other,
\* what is in flight will lead there; and within a message the server has told
\* the size it paints in.
Bound ==
    /\ DOMAIN view \in Desktops
    /\ phase # "idle" => DOMAIN view = DOMAIN fb
    /\ \E e : Leads(Display, s2c, e) /\ Held(e)

\* Nothing to read leads nowhere.
LEMMA LeadsNowhere ==
    ASSUME NEW d, NEW e
    PROVE  Leads(d, <<>>, e) <=> d = e
<1>1. Len(<<>>) = 0
  BY EmptySeq
<1>2. ASSUME Leads(d, <<>>, e)
      PROVE  d = e
  BY <1>1, <1>2 DEF Leads
<1>3. ASSUME d = e
      PROVE  Leads(d, <<>>, e)
  <2> DEFINE p == [i \in {0} |-> d]
  <2>1. p[0] = d /\ p[Len(<<>>)] = e
    BY <1>1, <1>3
  <2>2. \A i \in 1..Len(<<>>) : p[i] = Show(p[i - 1], <<>>[i])
    BY <1>1
  <2> HIDE DEF p
  <2> QED BY <2>1, <2>2 DEF Leads
<1> QED BY <1>2, <1>3

\* Reading one item goes one step along.
LEMMA LeadsHead ==
    ASSUME NEW d, NEW e, NEW q \in Seq(Items), q # <<>>, Leads(d, q, e)
    PROVE  Leads(Show(d, Head(q)), Tail(q), e)
<1>1. PICK p : /\ p[0] = d /\ p[Len(q)] = e
               /\ \A i \in 1..Len(q) : p[i] = Show(p[i - 1], q[i])
  BY DEF Leads
<1>2. Len(q) \in Nat /\ Len(q) # 0 /\ Tail(q) \in Seq(Items) /\ Len(Tail(q)) = Len(q) - 1
  BY HeadTailProperties, EmptySeq, LenProperties
<1>3. Head(q) = q[1]
  OBVIOUS
<1> DEFINE r == [i \in 0..Len(Tail(q)) |-> p[i + 1]]
<1>4. r[0] = Show(d, Head(q))
  <2>1. 0 \in 0..Len(Tail(q)) /\ 1 \in 1..Len(q) /\ 0 + 1 = 1 /\ 1 - 1 = 0
    BY <1>2
  <2>2. p[1] = Show(p[1 - 1], q[1])
    BY <1>1, <2>1
  <2> QED BY <1>1, <1>3, <2>1, <2>2
<1>5. r[Len(Tail(q))] = e
  <2>1. Len(Tail(q)) \in 0..Len(Tail(q)) /\ Len(Tail(q)) + 1 = Len(q)
    BY <1>2
  <2> QED BY <1>1, <2>1
<1>6. ASSUME NEW i \in 1..Len(Tail(q))
      PROVE  r[i] = Show(r[i - 1], Tail(q)[i])
  <2>1. /\ i \in 0..Len(Tail(q)) /\ i - 1 \in 0..Len(Tail(q))
        /\ (i - 1) + 1 = i /\ i + 1 \in 1..Len(q) /\ (i + 1) - 1 = i
    BY <1>2
  <2>2. r[i] = p[i + 1] /\ r[i - 1] = p[i]
    BY <2>1
  <2>3. p[i + 1] = Show(p[i], q[i + 1])
    BY <1>1, <2>1
  <2>4. Tail(q)[i] = q[i + 1]
    BY HeadTailProperties
  <2> HIDE DEF r
  <2> QED BY <2>2, <2>3, <2>4
<1> HIDE DEF r
<1> QED BY <1>4, <1>5, <1>6 DEF Leads

\* Sending one item leads one step further.
LEMMA LeadsMore ==
    ASSUME NEW d, NEW e, NEW q \in Seq(Items), NEW item \in Items, Leads(d, q, e)
    PROVE  Leads(d, Append(q, item), Show(e, item))
<1>1. PICK p : /\ p[0] = d /\ p[Len(q)] = e
               /\ \A i \in 1..Len(q) : p[i] = Show(p[i - 1], q[i])
  BY DEF Leads
<1>2. /\ Len(q) \in Nat /\ Len(Append(q, item)) = Len(q) + 1
      /\ Append(q, item)[Len(q) + 1] = item
      /\ \A i \in 1..Len(q) : Append(q, item)[i] = q[i]
  BY AppendProperties, LenProperties
<1> DEFINE r == [i \in 0..(Len(q) + 1) |-> IF i = Len(q) + 1 THEN Show(e, item) ELSE p[i]]
<1>3. r[0] = d
  BY <1>1, <1>2
<1>4. r[Len(Append(q, item))] = Show(e, item)
  BY <1>2
<1>5. ASSUME NEW i \in 1..Len(Append(q, item))
      PROVE  r[i] = Show(r[i - 1], Append(q, item)[i])
  <2>1. CASE i = Len(q) + 1
    <3>1. i - 1 = Len(q) /\ i \in 0..(Len(q) + 1) /\ i - 1 \in 0..(Len(q) + 1) /\ i - 1 # Len(q) + 1
      BY <1>2, <2>1
    <3>2. r[i] = Show(e, item) /\ r[i - 1] = p[Len(q)]
      BY <2>1, <3>1
    <3> HIDE DEF r
    <3> QED BY <1>1, <1>2, <2>1, <3>2
  <2>2. CASE i # Len(q) + 1
    <3>1. /\ i \in 1..Len(q) /\ i \in 0..(Len(q) + 1) /\ i - 1 \in 0..(Len(q) + 1)
          /\ i - 1 # Len(q) + 1
      BY <1>2, <2>2
    <3>2. r[i] = p[i] /\ r[i - 1] = p[i - 1]
      BY <2>2, <3>1
    <3> HIDE DEF r
    <3> QED BY <1>1, <1>2, <3>1, <3>2
  <2> QED BY <2>1, <2>2
<1> HIDE DEF r
<1> QED BY <1>3, <1>4, <1>5 DEF Leads

\* What the client does with a rectangle is what Show says of it.
LEMMA ReadShows ==
    ASSUME Read
    PROVE  /\ s2c # <<>> /\ s2c' = Tail(s2c)
           /\ Display' = Show(Display, Head(s2c))
           /\ UNCHANGED server
<1>1. \A pixels : Painted(screen, pixels) = PaintedOn(Display, pixels)
  <2> TAKE pixels
  <2> DEFINE area == IF screen = None THEN desktop ELSE DOMAIN screen \cup Reach(DOMAIN pixels)
  <2>1. (IF screen = None THEN Fit(screen, desktop)
         ELSE Fit(screen, DOMAIN screen \cup Reach(DOMAIN pixels))) = Fit(screen, area)
    OBVIOUS
  <2>2. DOMAIN Fit(screen, area) = area
    BY DEF Fit
  <2>3. Painted(screen, pixels) = [t \in area |-> IF t \in DOMAIN pixels THEN pixels[t]
                                                   ELSE Fit(screen, area)[t]]
    <3> HIDE DEF area
    <3> QED BY <2>1, <2>2 DEF Painted
  <2>4. PaintedOn(Display, pixels) = [t \in area |-> IF t \in DOMAIN pixels THEN pixels[t]
                                                      ELSE Fit(screen, area)[t]]
    BY DEF PaintedOn, Display
  <2> QED BY <2>3, <2>4
<1>2. CASE UpdateRectangle
  <2>1. screen' = PaintedOn(Display, Head(s2c).pixels)
    BY <1>1, <1>2 DEF UpdateRectangle
  <2> QED BY <1>2, <2>1 DEF UpdateRectangle, Arrives, Quietly, Show, Display
<1>3. CASE CopyRectangle
  <2>1. screen # None => screen' = CopiedOn(Display, Head(s2c).src, Head(s2c).dst)
    BY <1>3 DEF CopyRectangle, CopiedOn, Display
  <2> QED BY <1>3, <2>1 DEF CopyRectangle, Arrives, Quietly, Show, Display
<1>4. CASE UpdateDesktopSize
  BY <1>4 DEF UpdateDesktopSize, Arrives, Quietly, Show, Display
<1>5. CASE UpdateCursor \/ UpdatePointerPos
  BY <1>5 DEF UpdateCursor, UpdatePointerPos, Arrives, Quietly, Show, Display
<1>6. CASE CommitUpdate
  <2>1. Commit
    BY <1>6 DEF CommitUpdate, CommitIdle, CommitNothingPainted, CommitRetry, RefreshDone,
                CaptureSave, ExpectAgain, WatchUpdate, Fires
  <2> QED BY <2>1 DEF Commit, Arrives, Show, Display
<1> QED BY <1>2, <1>3, <1>4, <1>5, <1>6 DEF Read

\* Reading keeps what is in flight leading where it led.
LEMMA ReadBound ==
    ASSUME TypeOK, Bound, Read
    PROVE  Bound'
<1>1. PICK e : Leads(Display, s2c, e) /\ Held(e)
  BY DEF Bound
<1>2. Leads(Show(Display, Head(s2c)), Tail(s2c), e)
  BY <1>1, ReadShows, LeadsHead DEF TypeOK
<1>3. Leads(Display', s2c', e)
  BY <1>2, ReadShows
<1>4. Leads(Display, s2c, e)'
  BY <1>3 DEF Leads, Show, PaintedOn, CopiedOn, Fit, Reach
<1>5. Held(e)'
  BY <1>1, ReadShows DEF Held, server
<1>6. UNCHANGED <<view, phase, fb>>
  BY ReadShows DEF server
<1> QED BY <1>4, <1>5, <1>6 DEF Bound

\* What neither reads nor sends leaves all that as it is.
LEMMA StillBound ==
    ASSUME Bound, UNCHANGED <<screen, desktop, s2c, view>>,
           phase' # "idle" => DOMAIN view' = DOMAIN fb'
    PROVE  Bound'
<1>1. PICK e : Leads(Display, s2c, e) /\ Held(e)
  BY DEF Bound
<1>2. Leads(Display', s2c', e)
  BY <1>1 DEF Display
<1>3. Leads(Display, s2c, e)'
  BY <1>2 DEF Leads, Show, PaintedOn, CopiedOn, Fit, Reach
<1>4. Held(e)'
  BY <1>1 DEF Held
<1> QED BY <1>3, <1>4 DEF Bound

\* Sending an item that takes the display along with the server's own picture
\* of it keeps the two together.
LEMMA SendBound ==
    ASSUME TypeOK, Bound, NEW item \in Items, s2c' = Append(s2c, item),
           UNCHANGED <<screen, desktop>>,
           DOMAIN view' \in Desktops, phase' # "idle" => DOMAIN view' = DOMAIN fb',
           \A e : Held(e) => Held(Show(e, item))'
    PROVE  Bound'
<1>1. PICK e : Leads(Display, s2c, e) /\ Held(e)
  BY DEF Bound
<1>2. Leads(Display, Append(s2c, item), Show(e, item))
  BY <1>1, LeadsMore DEF TypeOK
<1>3. Leads(Display', s2c', Show(e, item))
  BY <1>2 DEF Display
<1>4. Leads(Display, s2c, Show(e, item))'
  BY <1>3 DEF Leads, Show, PaintedOn, CopiedOn, Fit, Reach
<1>5. Held(Show(e, item))'
  BY <1>1
<1> QED BY <1>4, <1>5 DEF Bound

\* Within a desktop nothing reaches further than it.
LEMMA ReachWithin ==
    ASSUME NEW area \in Desktops, NEW box \in SUBSET area
    PROVE  Reach(box) \subseteq area
<1>1. PICK n \in Nat : area = 1..n
  BY SizesAssumption DEF Desktops
<1>2. ASSUME NEW t \in box
      PROVE  1..t \subseteq area
  <2>1. t \in 1..n
    BY <1>1
  <2> QED BY <1>1, <2>1
<1> QED BY <1>2 DEF Reach

\* No desktop is empty.
LEMMA DesktopNotEmpty == \A area \in Desktops : area # {}
  BY SizesAssumption DEF Desktops

\* The size goes ahead of the first rectangle painted in it.
LEMMA BeginBound ==
    ASSUME SizesTold, TypeOK, Bound, SrvBegin
    PROVE  Bound'
<1>0. UNCHANGED <<screen, desktop, fb>>
  BY DEF SrvBegin, SrvOnly, client
<1>1. CASE Resized
  <2>1. PICK item \in Items : item = [kind |-> "size", area |-> DOMAIN fb]
    BY DEF Items, TypeOK, ServerType
  <2>2. s2c' = Append(s2c, item) /\ view' = Fit(view, DOMAIN fb)
    BY <1>1, <2>1 DEF SrvBegin
  <2>3. DOMAIN view' = DOMAIN fb
    BY <2>2 DEF Fit
  <2>4. ASSUME NEW e, Held(e)
        PROVE  Held(Show(e, item))'
    <3> DEFINE next == Show(e, item)
    <3>1. next.desktop = DOMAIN fb /\ next.screen = Fit(e.screen, DOMAIN fb)
      BY <2>1 DEF Show
    <3>2. Fit(e.screen, DOMAIN fb) = Fit(view, DOMAIN fb)
      <4>1. CASE e.screen = None
        BY <2>4, <4>1, NoneIsImage DEF Held, Fit
      <4>2. CASE e.screen = view
        BY <4>2
      <4> QED BY <2>4, <4>1, <4>2 DEF Held
    <3>3. next.desktop = DOMAIN view' /\ next.screen = view'
      BY <2>2, <2>3, <3>1, <3>2
    <3> QED BY <3>3 DEF Held
  <2>5. DOMAIN view' \in Desktops
    BY <2>3 DEF TypeOK, ServerType
  <2> QED BY <1>0, <2>2, <2>3, <2>4, <2>5, SendBound
<1>2. CASE ~Resized
  <2>1. UNCHANGED <<s2c, view>>
    BY <1>2 DEF SrvBegin
  <2>2. DOMAIN view = DOMAIN fb
    BY <1>2 DEF Resized, SizesTold, Bound, TypeOK, ServerType
  <2> QED BY <1>0, <2>1, <2>2, StillBound
<1> QED BY <1>1, <1>2

\* A painted box stays within the desktop both agree on.
LEMMA PaintBound ==
    ASSUME TypeOK, Bound, NEW box \in SUBSET Tiles, SrvPaint(box)
    PROVE  Bound'
<1>0. UNCHANGED <<screen, desktop, fb>>
  BY DEF SrvPaint, SrvOnly, client
<1>1. DOMAIN view = DOMAIN fb /\ DOMAIN view \in Desktops
  BY DEF SrvPaint, Bound
<1>2. box \in SUBSET DOMAIN view
  BY <1>1 DEF SrvPaint, Dirty, TypeOK, ServerType
<1>3. Reach(box) \subseteq DOMAIN view
  BY <1>1, <1>2, ReachWithin
<1> DEFINE pixels == [t \in box |-> fb[t]]
<1>4. PICK item \in Items : item = [kind |-> "paint", pixels |-> pixels]
  <2>1. pixels \in [box -> Pixels]
    BY <1>1, <1>2, ImageElim DEF TypeOK, ServerType
  <2>2. pixels \in Images
    BY <2>1, ImageIntro
  <2> HIDE DEF pixels
  <2> QED BY <2>2 DEF Items
<1>5. s2c' = Append(s2c, item)
  BY <1>4 DEF SrvPaint
<1>6. view' = [t \in DOMAIN view |-> IF t \in box THEN fb[t] ELSE view[t]]
  <2>1. view' = [t \in DOMAIN view \cup Reach(box) |->
                    IF t \in box THEN fb[t] ELSE Fit(view, {t})[t]]
    BY DEF SrvPaint
  <2>2. \A t \in DOMAIN view : Fit(view, {t})[t] = view[t]
    BY DEF Fit
  <2>3. DOMAIN view \cup Reach(box) = DOMAIN view
    BY <1>3
  <2> QED BY <2>1, <2>2, <2>3
<1>7. ASSUME NEW e, Held(e)
      PROVE  Held(Show(e, item))'
  <2>1. item.kind = "paint" /\ item.pixels = pixels
    BY <1>4
  <2>2. Show(e, item).screen = PaintedOn(e, pixels) /\ Show(e, item).desktop = e.desktop
    BY <2>1 DEF Show
  <2>3. \A area : PaintedOn(e, pixels) = [t \in area |-> IF t \in box THEN fb[t] ELSE Fit(e.screen, area)[t]]
                    \/ area # (IF e.screen = None THEN e.desktop ELSE DOMAIN e.screen \cup Reach(box))
    BY DEF PaintedOn
  <2>4. (IF e.screen = None THEN e.desktop ELSE DOMAIN e.screen \cup Reach(box)) = DOMAIN view
    BY <1>3, <1>7 DEF Held
  <2>5. PaintedOn(e, pixels) = [t \in DOMAIN view |-> IF t \in box THEN fb[t] ELSE Fit(e.screen, DOMAIN view)[t]]
    BY <2>3, <2>4
  <2>6. \A t \in DOMAIN view : Fit(e.screen, DOMAIN view)[t] = view[t]
    BY <1>7, NoneIsImage DEF Held, Fit
  <2>7. Show(e, item).screen = view'
    BY <1>6, <2>2, <2>5, <2>6
  <2>8. Show(e, item).desktop = DOMAIN view'
    BY <1>6, <1>7, <2>2 DEF Held
  <2> QED BY <2>7, <2>8 DEF Held
<1>8. DOMAIN view' = DOMAIN view
  BY <1>6
<1> QED BY <1>0, <1>1, <1>5, <1>7, <1>8, SendBound

\* What the server copies, the client has to copy from: a black screen holds
\* nothing to copy, so the client has one.
LEMMA CopyBound ==
    ASSUME TypeOK, Bound, NEW from \in Tiles, NEW to \in Tiles, SrvCopy(from, to)
    PROVE  Bound'
<1>0. UNCHANGED <<screen, desktop, fb>>
  BY DEF SrvCopy, SrvOnly, client
<1>1. DOMAIN view = DOMAIN fb /\ DOMAIN view \in Desktops
  BY DEF SrvCopy, Bound
<1>2. PICK item \in Items : item = [kind |-> "copy", src |-> from, dst |-> to]
  BY DEF Items
<1>3. s2c' = Append(s2c, item) /\ view' = [view EXCEPT ![to] = fb[to]]
  BY <1>2 DEF SrvCopy
<1>4. /\ from \in DOMAIN view /\ to \in DOMAIN view
      /\ view[from] = fb[to] /\ view[to] # fb[to]
  <2>1. \A t \in DOMAIN view : Fit(view, {t})[t] = view[t]
    BY DEF Fit
  <2> QED BY <2>1 DEF SrvCopy, Dirty
<1>5. ASSUME NEW e, Held(e)
      PROVE  Held(Show(e, item))'
  <2>1. e.screen = view /\ e.screen # None
    <3>1. DOMAIN view # DOMAIN None
      BY <1>1, DesktopNotEmpty, NoneIsImage
    <3> QED BY <1>4, <1>5, <3>1 DEF Held
  <2>2. Show(e, item).screen = CopiedOn(e, from, to) /\ Show(e, item).desktop = e.desktop
    BY <1>2, <2>1 DEF Show
  <2>3. Fit(view, {from})[from] = fb[to]
    BY <1>4 DEF Fit
  <2>4. CopiedOn(e, from, to) = [t \in DOMAIN view |-> IF t = to THEN fb[to] ELSE view[t]]
    BY <2>1, <2>3 DEF CopiedOn
  <2>5. view' = [t \in DOMAIN view |-> IF t = to THEN fb[to] ELSE view[t]]
    BY <1>3
  <2> QED BY <1>5, <2>2, <2>4, <2>5 DEF Held
<1>6. DOMAIN view' = DOMAIN view
  BY <1>3
<1> QED BY <1>0, <1>1, <1>3, <1>5, <1>6, SendBound

\* The end of a message and what paints nothing leave the display alone.
LEMMA SilentBound ==
    ASSUME TypeOK, Bound,
           SrvEnd \/ (\E kind \in {"cursor", "pointer"} : SrvNoise(kind))
    PROVE  Bound'
<1>1. UNCHANGED <<screen, desktop, fb, view>> /\ (phase' # "idle" => phase # "idle")
  BY DEF SrvEnd, SrvNoise, SrvOnly, client
<1>2. PICK item \in Items : /\ s2c' = Append(s2c, item)
                            /\ item.kind \in {"cursor", "pointer", "end"}
  BY DEF SrvEnd, SrvNoise, Items
<1>3. ASSUME NEW e, Held(e)
      PROVE  Held(Show(e, item))'
  <2>1. Show(e, item).screen = e.screen /\ Show(e, item).desktop = e.desktop
    BY <1>2 DEF Show
  <2> QED BY <1>1, <1>3, <2>1 DEF Held
<1>4. DOMAIN view' \in Desktops /\ (phase' # "idle" => DOMAIN view' = DOMAIN fb')
  BY <1>1 DEF Bound
<1> QED BY <1>1, <1>2, <1>3, <1>4, SendBound

\* Nobody but the reader changes what the client shows, and nobody but the
\* sender what it will come to show.
LEMMA OtherBound ==
    ASSUME TypeOK, Bound,
           \/ Command \/ Tick \/ Settle \/ SrvReceive
           \/ \E t \in Tiles, p \in Pixels \ {Black} : SrvChange(t, p)
           \/ \E area \in Desktops : SrvResize(area)
           \/ UNCHANGED vars
    PROVE  Bound'
<1>1. UNCHANGED <<screen, desktop, s2c, view>>
  BY DEF Command, RefreshScreen, CaptureScreen, CaptureRegion, Expect, Stable, Issue, Tick, Settle,
         SrvReceive, SrvChange, SrvResize, SrvOnly, vars, client, server
<1>2. phase' = phase /\ (phase # "idle" => DOMAIN fb' = DOMAIN fb)
  BY DEF Command, RefreshScreen, CaptureScreen, CaptureRegion, Expect, Stable, Issue, Tick, Settle,
         SrvReceive, SrvChange, SrvResize, SrvOnly, vars, client, server
<1> QED BY <1>1, <1>2, StillBound DEF Bound

LEMMA BoundStep ==
    ASSUME SizesTold, TypeOK, Bound, [Next]_vars
    PROVE  Bound'
  BY ReadBound, BeginBound, PaintBound, CopyBound, SilentBound, OtherBound
     DEF Next, SrvSend, SrvChoice

\* A new client shows nothing, and the server has painted nothing.
LEMMA BoundInit ==
    ASSUME Init
    PROVE  Bound
<1>1. DOMAIN view = desktop /\ desktop \in Desktops /\ \A t \in DOMAIN view : view[t] = Black
  BY NoneIsImage DEF Init, Fit
<1>2. Leads(Display, s2c, Display)
  BY LeadsNowhere DEF Init
<1>3. Held(Display)
  BY <1>1 DEF Init, Held, Display
<1> QED BY <1>1, <1>2, <1>3 DEF Init, Bound

\* Whatever is painted, copied and resized, and wherever the client stands in
\* it: once everything sent has been read, the client's screen is the one the
\* server believes it has, if a server that changes its size says so
\* (updateRectangle, copyRectangle, updateDesktopSize).
THEOREM ScreenAlwaysFollows ==
    ASSUME SizesTold
    PROVE  Spec => []ScreenFollows
<1>1. Init => Bound
  BY BoundInit
<1>2. TypeOK /\ Bound /\ [Next]_vars => Bound'
  BY BoundStep, SizesTold
<1>3. TypeOK /\ Bound => ScreenFollows
  <2> SUFFICES ASSUME Bound, s2c = <<>> PROVE Held(Display)
    BY DEF ScreenFollows, Held, Display
  <2> QED BY LeadsNowhere DEF Bound
<1> QED BY <1>1, <1>2, <1>3, TypeCorrect, PTL DEF Spec

-----------------------------------------------------------------------------
(* A settled screen was still *)

\* A server that never announces a size sends no size.
Unsized == s2c \in Seq({item \in Items : item.kind # "size"})

\* While the window runs, the frame the watch compares with is the one of the
\* last commit, and the screen still shows it unless a rectangle has come in
\* that counts; and no commit is spent on a retry.
Still ==
    watch.running =>
        /\ mask.unpainted = {}
        /\ frame = watch.base
        /\ ~counted /\ screen # None => frame = Crop(screen, watch.box)

\* Without a fuzz only equal images match.
LEMMA MatchesIsEqual ==
    ASSUME Fuzz = 0, NEW a \in Images, NEW b \in Images, Matches(a, b)
    PROVE  a = b
<1>1. DOMAIN a = DOMAIN b
  BY DEF Matches
<1>2. ASSUME NEW t \in DOMAIN a
      PROVE  a[t] = b[t]
  <2>1. a[t] \in Pixels /\ b[t] \in Pixels
    BY <1>1, ImageElim
  <2>2. Near(a[t], b[t])
    BY DEF Matches
  <2>3. \A m, n \in Pixels : m - n <= 0 /\ n - m <= 0 => m = n
    BY PixelAssumption DEF Pixels
  <2> QED BY <2>1, <2>2, <2>3 DEF Near
<1> QED BY <1>1, <1>2, ImageElim

\* Only a size the server announces is a size the client reads.
LEMMA UnsizedStep ==
    ASSUME ~Announces, TypeOK, Unsized, [Next]_vars
    PROVE  Unsized'
<1> DEFINE Plain == {item \in Items : item.kind # "size"}
<1>1. ASSUME s2c # <<>>, s2c' = Tail(s2c)
      PROVE  Unsized'
  BY <1>1, TailLast DEF Unsized
<1>2. ASSUME NEW item \in Plain, s2c' = Append(s2c, item)
      PROVE  Unsized'
  BY <1>2, AppendLast DEF Unsized
<1>3. ASSUME s2c' = s2c
      PROVE  Unsized'
  BY <1>3 DEF Unsized
<1>4. CASE Read
  BY <1>1, <1>4, ReadShows
<1>5. CASE SrvBegin
  BY <1>3, <1>5 DEF SrvBegin, Resized
<1>6. ASSUME NEW box \in SUBSET Tiles, SrvPaint(box)
      PROVE  Unsized'
  <2>1. box \in SUBSET DOMAIN fb
    BY <1>6 DEF SrvPaint, Dirty, TypeOK, ServerType
  <2>2. [t \in box |-> fb[t]] \in [box -> Pixels]
    BY <2>1, ImageElim DEF TypeOK, ServerType
  <2>3. [t \in box |-> fb[t]] \in Images
    BY <2>2, ImageIntro
  <2>4. [kind |-> "paint", pixels |-> [t \in box |-> fb[t]]] \in Plain
    BY <2>3 DEF Items
  <2> QED BY <1>2, <1>6, <2>4 DEF SrvPaint
<1>7. ASSUME NEW from \in Tiles, NEW to \in Tiles, SrvCopy(from, to)
      PROVE  Unsized'
  <2>1. [kind |-> "copy", src |-> from, dst |-> to] \in Plain
    BY DEF Items
  <2> QED BY <1>2, <1>7, <2>1 DEF SrvCopy
<1>8. CASE SrvEnd \/ \E kind \in {"cursor", "pointer"} : SrvNoise(kind)
  <2>1. \A kind \in {"cursor", "pointer", "end"} : [kind |-> kind] \in Plain
    BY DEF Items
  <2> QED BY <1>2, <1>8, <2>1 DEF SrvEnd, SrvNoise
<1>9. CASE \/ Command \/ Tick \/ Settle \/ SrvReceive
           \/ \E t \in Tiles, p \in Pixels \ {Black} : SrvChange(t, p)
           \/ \E area \in Desktops : SrvResize(area)
           \/ UNCHANGED vars
  BY <1>3, <1>9
     DEF Command, RefreshScreen, CaptureScreen, CaptureRegion, Expect, Stable, Issue, Tick, Settle,
         SrvReceive, SrvChange, SrvResize, vars
<1> QED BY <1>4, <1>5, <1>6, <1>7, <1>8, <1>9 DEF Next, SrvSend, SrvChoice

\* The steps that begin, move or end a window.
LEMMA CommandStill ==
    ASSUME RegionsFit, TypeOK, Covered, WatchArmed, Command
    PROVE  Still' /\ WindowQuiet'
<1>1. ~watch.running
  BY DEF WatchArmed, Command, RefreshScreen, CaptureScreen, CaptureRegion, Expect, Stable, Issue
<1>2. CASE watch' = watch
  BY <1>1, <1>2 DEF Still, WindowQuiet
<1>3. ASSUME NEW box \in Boxes \cup {Whole}, Stable(box), OnScreen(box)
      PROVE  Still' /\ WindowQuiet'
  <2> DEFINE base == IF screen = None THEN None ELSE Crop(screen, box)
  <2>1. watch' = NewWatch(box, base) /\ frame' = watch'.base /\ quiet' = 0
    BY <1>3 DEF Stable
  <2>2. /\ watch'.box = box /\ watch'.base = base /\ watch'.left = Window
        /\ watch'.running = (base # None)
    BY <2>1 DEF NewWatch
  <2>3. screen # None => mask' = Satisfied
    BY <1>3 DEF Stable, Arm
  <2>4. screen' = screen
    BY <1>3 DEF Stable, Issue
  <2>5. Satisfied.unpainted = {}
    BY DEF Satisfied, Awaiting
  <2>6. Still'
    BY <2>1, <2>2, <2>3, <2>4, <2>5 DEF Still
  <2>7. WindowQuiet'
    BY <2>1, <2>2, WindowAssumption DEF WindowQuiet
  <2> QED BY <2>6, <2>7
<1> QED BY <1>2, <1>3 DEF Command, RefreshScreen, CaptureScreen, CaptureRegion, Expect, Stable

LEMMA RectStill ==
    ASSUME TypeOK, Unsized, Still, WindowQuiet,
           UpdateRectangle \/ CopyRectangle \/ UpdateDesktopSize \/ UpdateCursor \/ UpdatePointerPos
    PROVE  Still' /\ WindowQuiet'
<1>1. UNCHANGED <<watch, frame, quiet>>
  BY DEF UpdateRectangle, CopyRectangle, UpdateDesktopSize, UpdateCursor, UpdatePointerPos,
         Quietly, ghost
<1>2. ~UpdateDesktopSize
  <2>1. s2c # <<>> => Head(s2c).kind # "size"
    BY TailLast DEF Unsized
  <2> QED BY <2>1 DEF UpdateDesktopSize, Arrives
<1>3. watch.running => mask'.unpainted = {}
  <2>1. \A box : PaintRect(mask, box).unpainted = mask.unpainted \ box
    BY DEF TypeOK, ClientType, Masks, PaintRect
  <2>2. mask' = mask \/ \E box : mask' = PaintRect(mask, box)
    BY <1>2 DEF UpdateRectangle, CopyRectangle, UpdateCursor, UpdatePointerPos
  <2> QED BY <2>1, <2>2 DEF Still
<1>4. counted' \/ UNCHANGED <<screen, counted>>
  BY <1>2 DEF UpdateRectangle, CopyRectangle, UpdateCursor, UpdatePointerPos
<1> QED BY <1>1, <1>3, <1>4 DEF Still, WindowQuiet

\* Ending an update, the watch either starts the window again or has seen no
\* change: then the frame is the one it had.
LEMMA CommitStill ==
    ASSUME Fuzz = 0, RegionsFit, TypeOK, Covered, WatchArmed, Still, WindowQuiet, CommitUpdate
    PROVE  Still' /\ WindowQuiet'
<1>0. ASSUME UNCHANGED watch, ~watch.running
      PROVE  Still' /\ WindowQuiet'
  BY <1>0 DEF Still, WindowQuiet
<1>1. OnScreen(watch.box)
  BY WatchOnScreen
<1>2. /\ Commit /\ screen' = screen /\ counted' = FALSE
      /\ frame' = IF op.cmd = "stable" /\ screen # None THEN Crop(screen, watch.box) ELSE frame
      /\ quiet' = IF frame' # None /\ frame # None /\ ~Matches(frame', frame) THEN 0 ELSE quiet
  BY DEF CommitUpdate, CommitIdle, CommitNothingPainted, CommitRetry, RefreshDone,
         CaptureSave, ExpectAgain, WatchUpdate, Fires, Commit
<1>3. CASE WatchUpdate /\ ~watch.settled
  <2> DEFINE now == Crop(screen, watch.box)
  <2>1. /\ screen # None /\ op.cmd = "stable"
        /\ watch' = IF watch.base = None \/ ~Matches(now, watch.base) THEN Restarted(now) ELSE watch
        /\ mask' = Satisfied
    BY <1>1, <1>3 DEF WatchUpdate, Fires, WatchArmed, Arm
  <2>2. frame' = now
    BY <1>2, <2>1
  <2>3. mask'.unpainted = {}
    BY <2>1 DEF Satisfied, Awaiting
  <2>4. now \in Images /\ watch.base \in Images
    BY CropIsImage DEF TypeOK, ClientType, Watches
  <2>5. CASE watch' = Restarted(now)
    <3>1. watch'.base = now /\ watch'.box = watch.box /\ watch'.left = Window
      BY <2>5 DEF Restarted, TypeOK, ClientType, Watches
    <3>2. quiet' \in Nat
      <4>1. quiet' \in 0..Window
        BY <1>2, CommitType
      <4> QED BY <4>1, WindowAssumption
    <3>3. \A m, n \in Nat : m + n >= n
      OBVIOUS
    <3>4. WindowQuiet'
      BY <3>1, <3>2, <3>3, WindowAssumption DEF WindowQuiet
    <3> QED BY <1>2, <2>2, <2>3, <3>1, <3>4 DEF Still
  <2>6. CASE watch' = watch /\ Matches(now, watch.base)
    <3>1. now = watch.base
      BY <2>4, <2>6, MatchesIsEqual
    <3>2. Still'
      BY <1>2, <2>2, <2>3, <2>6, <3>1 DEF Still
    <3>3. ASSUME watch.running
          PROVE  quiet' = quiet
      <4>1. frame' = frame
        BY <2>2, <3>1, <3>3 DEF Still
      <4>2. Matches(frame, frame)
        BY <2>2, <2>6, <3>1, <4>1
      <4> QED BY <1>2, <4>1, <4>2
    <3> QED BY <2>6, <3>2, <3>3 DEF WindowQuiet
  <2> QED BY <2>1, <2>5, <2>6
<1>4. CASE WatchUpdate /\ watch.settled
  <2>1. watch' = watch /\ ~watch.running
    BY <1>4 DEF WatchUpdate, WatchArmed
  <2> QED BY <1>0, <2>1
<1>5. CASE CommitNothingPainted /\ watch.running
  <2>1. watch' = watch /\ mask' = mask /\ (~counted \/ screen = None)
    BY <1>5 DEF CommitNothingPainted
  <2>2. frame' = frame
    BY <1>2, <1>5, <2>1 DEF Still
  <2>3. quiet' = quiet
    <3>1. \A f \in Images : Matches(f, f)
      <4>1. \A p \in Pixels : Near(p, p)
        BY PixelAssumption DEF Pixels, Near
      <4> QED BY <4>1, ImageElim DEF Matches
    <3> QED BY <1>2, <2>2, <3>1 DEF TypeOK
  <2>4. op.cmd = "stable"
    BY <1>5 DEF WatchArmed
  <2>5. screen # None => frame' = Crop(screen, watch.box)
    BY <1>2, <2>4
  <2> QED BY <1>2, <1>5, <2>1, <2>2, <2>3, <2>5 DEF Still, WindowQuiet
<1>6. CASE CommitIdle \/ CommitRetry \/ RefreshDone \/ CaptureSave \/ ExpectAgain
  <2>1. watch' = watch
    BY <1>6 DEF CommitIdle, CommitRetry, RefreshDone, CaptureSave, ExpectAgain
  <2>2. ~watch.running
    BY <1>6 DEF CommitIdle, CommitRetry, RefreshDone, CaptureSave, ExpectAgain, Fires, Complete,
                WatchArmed, Still
  <2> QED BY <1>0, <2>1, <2>2
<1>7. CASE CommitNothingPainted /\ ~watch.running
  BY <1>0, <1>7 DEF CommitNothingPainted
<1> QED BY <1>3, <1>4, <1>5, <1>6, <1>7 DEF CommitUpdate, WatchArmed, TypeOK, ClientType, Watches

\* The clock takes from what is left what it adds to the silence.
LEMMA ClockStill ==
    ASSUME TypeOK, Still, WindowQuiet, Tick \/ Settle
    PROVE  Still' /\ WindowQuiet'
<1>1. CASE Settle
  BY <1>1 DEF Settle, Still, WindowQuiet, TypeOK, ClientType, Watches
<1>2. CASE Tick
  <2>1. watch'.left = watch.left - 1 /\ watch'.running = watch.running
        /\ watch'.base = watch.base /\ watch'.box = watch.box
    BY <1>2 DEF Tick, TypeOK, ClientType, Watches
  <2>2. watch.left \in 0..Window /\ watch.left > 0 /\ quiet \in 0..Window /\ watch.running
    BY <1>2 DEF Tick, TypeOK, ClientType, Watches
  <2>3. quiet' = IF quiet < Window THEN quiet + 1 ELSE quiet
    BY <1>2 DEF Tick
  <2>4. WindowQuiet'
    BY <2>1, <2>2, <2>3, WindowAssumption DEF WindowQuiet
  <2>5. Still'
    BY <1>2, <2>1 DEF Still, Tick
  <2> QED BY <2>4, <2>5
<1> QED BY <1>1, <1>2

LEMMA StillStep ==
    ASSUME Fuzz = 0, RegionsFit, TypeOK, Covered, WatchArmed, Unsized, Still, WindowQuiet,
           [Next]_vars
    PROVE  Still' /\ WindowQuiet'
<1>1. CASE SrvReceive \/ SrvSend \/ SrvChoice \/ UNCHANGED vars
  <2>1. UNCHANGED <<client, quiet, frame>>
    BY <1>1 DEF SrvSend, SrvChoice, SrvReceive, SrvBegin, SrvPaint, SrvEnd, SrvCopy, SrvNoise,
                SrvChange, SrvResize, SrvOnly, ghost, vars
  <2> QED BY <2>1 DEF client, Still, WindowQuiet
<1> QED BY <1>1, CommandStill, RectStill, CommitStill, ClockStill DEF Next, Read

\* A stable command never settles on a window in which the region was seen to
\* change: the time already waited never exceeds the time since an update last
\* moved it.  That is said of an exact comparison, of regions that stay on the
\* screen, and of a server that does not announce new sizes; without any of the
\* three the code does not keep it (_StableWatch._update, commitUpdate).
THEOREM WindowAlwaysQuiet ==
    ASSUME Fuzz = 0, RegionsFit, ~Announces
    PROVE  Spec => []WindowQuiet
<1>1. Init => Covered /\ WatchArmed /\ Unsized /\ Still /\ WindowQuiet
  <2> SUFFICES ASSUME Init PROVE Covered /\ WatchArmed /\ Unsized /\ Still /\ WindowQuiet
    OBVIOUS
  <2>1. ~watch.running /\ watch.settled /\ watch.box = Whole
    BY DEF Init, NewWatch
  <2> QED BY <2>1, EmptySeq DEF Init, Covered, WatchArmed, Unsized, Still, WindowQuiet
<1>2. TypeOK /\ Covered /\ WatchArmed /\ Unsized /\ Still /\ WindowQuiet /\ [Next]_vars
        => Covered' /\ WatchArmed' /\ Unsized' /\ Still' /\ WindowQuiet'
  BY CoveredStep, WatchArmedStep, UnsizedStep, StillStep, RegionsFit, Fuzz = 0, ~Announces
<1> QED BY <1>1, <1>2, TypeCorrect, PTL DEF Spec

-----------------------------------------------------------------------------
(* A full capture saves the screen that was there *)

\* The server answers a full request with one message that holds all of it.
AnswersWhole == MaxParts = 1 /\ ~Short

\* One request, its answer, and only then the next: the command that runs is
\* the one that waits in the slot, a commit ends the only message under way,
\* and what is owed is owed by the answer under way.
Single ==
    /\ ~watch.running
    /\ deferred # "none" => deferred = op.cmd
    /\ deferred = "none" => c2s = <<>> /\ ~asked /\ phase = "idle" /\ s2c = <<>>
    /\ c2s # <<>> => Tail(c2s) = <<>> /\ ~asked /\ phase = "idle" /\ s2c = <<>>
    /\ asked => phase = "idle" /\ s2c = <<>>
    /\ \A i \in 1..Len(s2c) : s2c[i].kind = "end" => i = Len(s2c) /\ phase = "idle"
    /\ owed # {} => asked \/ phase # "idle"

Capturing == op.cmd = "capture" /\ ~op.incremental /\ steady

\* What an item on its way paints is the server's screen as it is.
IsTrue(item) ==
    /\ item.kind = "paint" => DOMAIN item.pixels \cap Dirty = {}
    /\ item.kind = "copy"  => item.dst \notin Dirty
    /\ item.kind = "size"  => mask.retries = 0

Truthful == \A i \in 1..Len(s2c) : IsTrue(s2c[i])

\* CaptureExact speaks of the moment when the picture is saved.  On the way
\* there the mask spans the desktop the client knows, what it has of it is the
\* server's screen, and once the client has asked again, what the server's
\* view of the client lacks is owed by the answer.
Exact ==
    Capturing =>
        /\ mask.area = desktop
        /\ Dirty \cap mask.area \subseteq mask.unpainted
        /\ Truthful
        /\ c2s # <<>> => Head(c2s) = Request(FALSE)
        /\ s2c # <<>> => DOMAIN view = DOMAIN fb
        /\ mask.retries # 0 => /\ desktop = DOMAIN fb /\ DOMAIN view = DOMAIN fb
                               /\ c2s = <<>> => Dirty \subseteq owed

\* What is left after the first item was there before it.
LEMMA TailItems ==
    ASSUME NEW s \in Seq(Items), s # <<>>
    PROVE  /\ Len(s) \in Nat /\ 1 \in 1..Len(s) /\ Head(s) = s[1]
           /\ Len(Tail(s)) = Len(s) - 1
           /\ \A i \in 1..Len(Tail(s)) : i + 1 \in 1..Len(s) /\ Tail(s)[i] = s[i + 1]
<1>1. Len(s) \in Nat /\ Len(s) # 0 /\ Len(Tail(s)) = Len(s) - 1
  BY HeadTailProperties, EmptySeq, LenProperties
<1>2. \A i \in 1..Len(Tail(s)) : Tail(s)[i] = s[i + 1]
  BY HeadTailProperties
<1>3. Head(s) = s[1]
  OBVIOUS
<1> QED BY <1>1, <1>2, <1>3

\* What is there after an item is sent was there before it, or is that item.
LEMMA AppendItems ==
    ASSUME NEW s \in Seq(Items), NEW item \in Items
    PROVE  /\ Len(s) \in Nat /\ Len(Append(s, item)) = Len(s) + 1
           /\ \A i \in 1..Len(Append(s, item)) :
                 \/ i \in 1..Len(s) /\ Append(s, item)[i] = s[i]
                 \/ i = Len(s) + 1 /\ Append(s, item)[i] = item
<1>1. Len(s) \in Nat /\ Len(Append(s, item)) = Len(s) + 1
  BY AppendProperties, LenProperties
<1>2. /\ \A i \in 1..Len(s) : Append(s, item)[i] = s[i]
      /\ Append(s, item)[Len(s) + 1] = item
  BY AppendProperties
<1>3. \A i \in 1..Len(s) + 1 : i \in 1..Len(s) \/ i = Len(s) + 1
  BY <1>1
<1> QED BY <1>1, <1>2, <1>3

\* A request sent on an idle connection is the only one.
LEMMA OneRequest ==
    ASSUME NEW request
    PROVE  /\ Append(<<>>, request) # <<>> /\ Tail(Append(<<>>, request)) = <<>>
           /\ Head(Append(<<>>, request)) = request
  OBVIOUS

\* A commit ends the only message there is.
LEMMA CommitAlone ==
    ASSUME TypeOK, Single, Commit
    PROVE  /\ s2c # <<>> /\ s2c' = <<>> /\ c2s = <<>> /\ ~asked /\ phase = "idle" /\ owed = {}
           /\ deferred # "none" /\ UNCHANGED <<screen, desktop, fb, view, asked, owed, phase, steady>>
<1>1. s2c # <<>> /\ s2c \in Seq(Items) /\ Head(s2c).kind = "end" /\ s2c' = Tail(s2c)
  BY DEF Commit, Arrives, TypeOK
<1>2. Len(s2c) = 1 /\ phase = "idle"
  <2>1. 1 \in 1..Len(s2c) /\ s2c[1].kind = "end"
    BY <1>1, TailItems
  <2> QED BY <2>1 DEF Single
<1>3. s2c' = <<>>
  <2>1. Tail(s2c) \in Seq(Items) /\ Len(Tail(s2c)) = 0
    BY <1>1, <1>2, TailItems, TailLast
  <2> QED BY <1>1, <2>1, EmptySeq
<1>4. UNCHANGED <<screen, desktop, fb, view, asked, owed, phase, steady>>
  BY DEF Commit, server
<1> QED BY <1>1, <1>2, <1>3, <1>4 DEF Single

\* What a command leaves on the wire: nothing new, or a first request.
Unarmed == UNCHANGED c2s /\ deferred' = "none"
Armed(cmd, inc) ==
    /\ Arm(cmd, inc) /\ op'.cmd = cmd /\ op'.incremental \in {inc, FALSE}
    /\ cmd = "capture" => op'.incremental = inc

\* Who issues a command finds the slot empty and the connection idle.
LEMMA CommandAlone ==
    ASSUME TypeOK, Single, Command, "stable" \notin Commands
    PROVE  /\ deferred = "none" /\ c2s = <<>> /\ s2c = <<>> /\ ~asked /\ phase = "idle"
           /\ UNCHANGED <<screen, desktop, s2c, server, watch>>
           /\ \/ Unarmed /\ op' \in {Idle, Failed}
              \/ \E cmd \in {"refresh", "capture", "expect"}, inc \in BOOLEAN : Armed(cmd, inc)
<1>1. \A cmd : Issue(cmd) => /\ op.cmd = "idle" /\ cmd # "stable"
                             /\ UNCHANGED <<screen, desktop, s2c, server>>
  BY DEF Issue
<1>2. op.cmd = "idle" /\ UNCHANGED <<screen, desktop, s2c, server, watch>>
  BY <1>1 DEF Command, RefreshScreen, CaptureScreen, CaptureRegion, Expect, Stable
<1>3. deferred = "none" /\ c2s = <<>> /\ s2c = <<>> /\ ~asked /\ phase = "idle"
  BY <1>2 DEF Single, TypeOK, ClientType, Callbacks
<1>4. \/ Unarmed /\ op' \in {Idle, Failed}
      \/ \E cmd \in {"refresh", "capture", "expect"}, inc \in BOOLEAN : Armed(cmd, inc)
  <2>1. ASSUME NEW inc \in BOOLEAN, RefreshScreen(inc)
        PROVE  Armed("refresh", inc)
    BY <2>1 DEF RefreshScreen, Armed, Idle
  <2>2. ASSUME NEW inc \in BOOLEAN, CaptureScreen(inc)
        PROVE  Armed("capture", inc)
    BY <2>2 DEF CaptureScreen, Armed, Idle
  <2>3. ASSUME NEW inc \in BOOLEAN, NEW box \in Boxes, CaptureRegion(box, inc)
        PROVE  Armed("capture", inc) \/ (Unarmed /\ op' = Failed)
    BY <2>3, <1>3 DEF CaptureRegion, Armed, Unarmed, Idle
  <2>4. ASSUME NEW target \in Targets, Expect(target)
        PROVE  \/ Unarmed /\ op' \in {Idle, Failed}
               \/ Armed("expect", screen # None)
    BY <2>4, <1>3 DEF Expect, ExpectCompare, Armed, Unarmed, Idle
  <2>5. ASSUME NEW box \in Boxes \cup {Whole}
        PROVE  ~Stable(box)
    BY <1>1 DEF Stable
  <2>6. (screen # None) \in BOOLEAN
    OBVIOUS
  <2> QED BY <2>1, <2>2, <2>3, <2>4, <2>5, <2>6 DEF Command
<1> QED BY <1>2, <1>3, <1>4

\* A commit leaves the connection idle or asks once more, and whoever asks has
\* the slot.
LEMMA CommitChoice ==
    ASSUME TypeOK, Single, CommitUpdate
    PROVE  /\ Commit /\ watch' = watch
           /\ \/ CommitNothingPainted /\ op' = op
              \/ CommitRetry /\ op' = op
              \/ Unarmed /\ op' \in {Idle, Failed}
              \/ \E inc \in BOOLEAN : Armed("expect", inc)
<1>1. Commit
  BY DEF CommitUpdate, CommitIdle, CommitNothingPainted, CommitRetry, RefreshDone,
         CaptureSave, ExpectAgain, WatchUpdate, Fires
<1>2. deferred # "none" /\ deferred = op.cmd
  BY <1>1, CommitAlone DEF Single
<1>3. ~CommitIdle /\ ~WatchUpdate
  BY <1>2 DEF CommitIdle, WatchUpdate, Fires, TypeOK, ClientType, Ops, AllCommands
<1>4. CASE CommitNothingPainted \/ CommitRetry
  BY <1>1, <1>4 DEF CommitNothingPainted, CommitRetry
<1>5. CASE RefreshDone \/ CaptureSave
  BY <1>1, <1>5 DEF RefreshDone, CaptureSave, Done, Unarmed
<1>6. CASE ExpectAgain
  <2>1. \/ Unarmed /\ op' \in {Idle, Failed}
        \/ Armed("expect", screen # None)
    BY <1>6 DEF ExpectAgain, ExpectCompare, Armed, Unarmed, Idle
  <2>2. (screen # None) \in BOOLEAN
    OBVIOUS
  <2> QED BY <1>1, <1>6, <2>1, <2>2 DEF ExpectAgain
<1> QED BY <1>3, <1>4, <1>5, <1>6 DEF CommitUpdate

\* With nothing under way, a first request or none keeps everything single.
LEMMA AskSingle ==
    ASSUME ~watch'.running, c2s = <<>>, s2c' = <<>>, ~asked', phase' = "idle", owed' = {},
           \/ UNCHANGED c2s /\ deferred' = "none"
           \/ /\ deferred' # "none" /\ deferred' = op'.cmd
              /\ \E request : c2s' = Append(c2s, request)
    PROVE  Single'
<1>1. Len(s2c') = 0
  BY EmptySeq
<1>2. \A i \in 1..Len(s2c') : FALSE
  BY <1>1
<1>3. CASE c2s' = <<>> /\ deferred' = "none"
  BY <1>2, <1>3 DEF Single
<1>4. CASE /\ deferred' # "none" /\ deferred' = op'.cmd
           /\ \E request : c2s' = Append(c2s, request)
  <2>1. c2s' # <<>> /\ Tail(c2s') = <<>>
    BY <1>4, OneRequest
  <2> QED BY <1>2, <1>4, <2>1 DEF Single
<1> QED BY <1>3, <1>4

LEMMA CommandSingle ==
    ASSUME TypeOK, Single, Command, "stable" \notin Commands
    PROVE  Single'
<1>1. UNCHANGED <<s2c, asked, phase, owed, watch>>
  BY CommandAlone DEF server
<1>2. ~watch'.running /\ c2s = <<>> /\ s2c' = <<>> /\ ~asked' /\ phase' = "idle" /\ owed' = {}
  BY <1>1, CommandAlone DEF Single
<1>3. CASE Unarmed
  BY <1>2, <1>3, AskSingle DEF Unarmed
<1>4. ASSUME NEW cmd \in {"refresh", "capture", "expect"}, NEW inc \in BOOLEAN, Armed(cmd, inc)
      PROVE  Single'
  <2>1. deferred' = cmd /\ op'.cmd = cmd /\ cmd # "none" /\ c2s' = Append(c2s, Request(inc))
    BY <1>4 DEF Armed, Arm, Ask
  <2> QED BY <1>2, <2>1, AskSingle
<1> QED BY <1>3, <1>4, CommandAlone

LEMMA CommitSingle ==
    ASSUME TypeOK, Single, CommitUpdate
    PROVE  Single'
<1>1. Commit /\ watch' = watch
  BY CommitChoice
<1>2. /\ ~watch'.running /\ c2s = <<>> /\ s2c' = <<>> /\ ~asked' /\ phase' = "idle" /\ owed' = {}
      /\ deferred # "none" /\ deferred = op.cmd
  BY <1>1, CommitAlone DEF Single
<1>3. CASE Unarmed
  BY <1>2, <1>3, AskSingle DEF Unarmed
<1>4. CASE (CommitNothingPainted \/ CommitRetry) /\ op' = op
  <2>1. c2s' = Append(c2s, Request(FALSE)) /\ deferred' = deferred
    BY <1>4 DEF CommitNothingPainted, CommitRetry, Ask
  <2> QED BY <1>2, <1>4, <2>1, AskSingle
<1>5. ASSUME NEW inc \in BOOLEAN, Armed("expect", inc)
      PROVE  Single'
  <2>1. deferred' = "expect" /\ op'.cmd = "expect" /\ c2s' = Append(c2s, Request(inc))
    BY <1>5 DEF Armed, Arm, Ask
  <2> QED BY <1>2, <2>1, AskSingle
<1> QED BY <1>3, <1>4, <1>5, CommitChoice

\* The server takes the one request, answers it, and ends the one answer.
LEMMA ServerSingle ==
    ASSUME TypeOK, Single, AnswersWhole, SrvReceive \/ SrvSend \/ SrvChoice
    PROVE  Single'
<1>0. UNCHANGED <<deferred, op, watch>>
  BY DEF SrvReceive, SrvSend, SrvChoice, SrvBegin, SrvPaint, SrvEnd, SrvCopy, SrvNoise, SrvChange,
         SrvResize, SrvOnly, client
<1>1. CASE SrvReceive
  BY <1>0, <1>1 DEF SrvReceive, Single
<1>2. CASE (\E t \in Tiles, p \in Pixels \ {Black} : SrvChange(t, p))
           \/ (\E area \in Desktops : SrvResize(area))
  <2>1. UNCHANGED <<c2s, s2c, asked, phase>> /\ owed' \subseteq owed
    BY <1>2 DEF SrvChange, SrvResize
  <2> QED BY <1>0, <2>1 DEF Single
<1>3. ASSUME NEW item \in Items, s2c' = Append(s2c, item), UNCHANGED <<c2s, asked>>,
             phase # "idle", item.kind = "end" => phase' = "idle", item.kind # "end" => phase' = "sending",
             owed' # {} => phase' # "idle"
      PROVE  Single'
  <2>1. deferred # "none" /\ c2s = <<>> /\ ~asked
    BY <1>3 DEF Single
  <2>2. \A i \in 1..Len(s2c) : s2c[i].kind # "end"
    BY <1>3 DEF Single
  <2>3. \A i \in 1..Len(s2c') : s2c'[i].kind = "end" => i = Len(s2c') /\ phase' = "idle"
    BY <1>3, <2>2, AppendItems DEF TypeOK
  <2> QED BY <1>0, <1>3, <2>1, <2>3 DEF Single
<1>4. CASE SrvBegin
  <2>1. asked /\ phase = "idle" /\ s2c = <<>> /\ c2s = <<>> /\ deferred # "none"
    BY <1>4 DEF SrvBegin, Single
  <2>2. phase' # "idle" /\ ~asked' /\ c2s' = <<>>
    BY <1>4, <2>1 DEF SrvBegin
  <2>3. \A i \in 1..Len(s2c') : s2c'[i].kind # "end"
    <3>1. CASE Resized
      <4>1. PICK item \in Items : item = [kind |-> "size", area |-> DOMAIN fb]
        BY DEF Items, TypeOK, ServerType
      <4>2. s2c' = Append(s2c, item) /\ item.kind # "end"
        BY <1>4, <3>1, <4>1 DEF SrvBegin
      <4>3. Len(s2c) = 0
        BY <2>1, EmptySeq
      <4> QED BY <4>2, <4>3, AppendItems DEF TypeOK
    <3>2. CASE ~Resized
      <4>1. s2c' = <<>> /\ Len(s2c') = 0
        BY <1>4, <2>1, <3>2, EmptySeq DEF SrvBegin
      <4> QED BY <4>1
    <3> QED BY <3>1, <3>2
  <2> QED BY <1>0, <2>1, <2>2, <2>3 DEF Single
<1>5. ASSUME NEW box \in SUBSET Tiles, SrvPaint(box)
      PROVE  Single'
  <2>1. PICK item \in Items : item = [kind |-> "paint", pixels |-> [t \in box |-> fb[t]]]
    <3>1. box \subseteq DOMAIN fb
      BY <1>5 DEF SrvPaint, Dirty, TypeOK, ServerType
    <3>2. [t \in box |-> fb[t]] \in [box -> Pixels]
      BY <3>1, ImageElim DEF TypeOK, ServerType
    <3>3. [t \in box |-> fb[t]] \in Images
      BY <3>2, ImageIntro
    <3> QED BY <3>3 DEF Items
  <2> QED BY <1>3, <1>5, <2>1 DEF SrvPaint
<1>6. ASSUME NEW from \in Tiles, NEW to \in Tiles, SrvCopy(from, to)
      PROVE  Single'
  <2>1. PICK item \in Items : item = [kind |-> "copy", src |-> from, dst |-> to]
    BY DEF Items
  <2> QED BY <1>3, <1>6, <2>1 DEF SrvCopy
<1>7. ASSUME NEW kind \in {"cursor", "pointer"}, SrvNoise(kind)
      PROVE  Single'
  <2>1. PICK item \in Items : item = [kind |-> kind]
    BY DEF Items
  <2> QED BY <1>3, <1>7, <2>1 DEF SrvNoise
<1>8. CASE SrvEnd
  <2>1. PICK item \in Items : item = [kind |-> "end"]
    BY DEF Items
  <2>2. UNCHANGED asked /\ owed' = {}
    BY <1>8 DEF SrvEnd, AnswersWhole, TypeOK, ServerType
  <2> QED BY <1>3, <1>8, <2>1, <2>2 DEF SrvEnd
<1> QED BY <1>1, <1>2, <1>4, <1>5, <1>6, <1>7, <1>8 DEF SrvSend, SrvChoice

LEMMA SingleStep ==
    ASSUME TypeOK, Single, AnswersWhole, "stable" \notin Commands, [Next]_vars
    PROVE  Single'
<1>1. CASE UNCHANGED vars
  BY <1>1 DEF vars, client, server, Single
<1>2. CASE Tick \/ Settle
  BY <1>2 DEF Tick, Settle, Single
<1>3. ASSUME NEW kind, Arrives(kind), kind # "end", Quietly
      PROVE  Single'
  <2>1. /\ UNCHANGED <<deferred, op, watch, c2s, asked, owed, phase>>
        /\ s2c # <<>> /\ s2c' = Tail(s2c) /\ s2c \in Seq(Items)
    BY <1>3 DEF Quietly, server, Arrives, TypeOK
  <2>2. \A i \in 1..Len(s2c') : s2c'[i].kind = "end" => i = Len(s2c') /\ phase' = "idle"
    <3>1. ASSUME NEW i \in 1..Len(s2c'), s2c'[i].kind = "end"
          PROVE  i = Len(s2c') /\ phase' = "idle"
      <4>1. i + 1 \in 1..Len(s2c) /\ s2c'[i] = s2c[i + 1] /\ Len(s2c') = Len(s2c) - 1 /\ Len(s2c) \in Nat
        BY <2>1, TailItems
      <4>2. i + 1 = Len(s2c) /\ phase = "idle"
        BY <3>1, <4>1 DEF Single
      <4>3. i = Len(s2c) - 1
        BY <4>1, <4>2
      <4> QED BY <2>1, <4>1, <4>2, <4>3
    <3> QED BY <3>1
  <2> QED BY <2>1, <2>2 DEF Single
<1>4. CASE UpdateRectangle \/ CopyRectangle \/ UpdateDesktopSize \/ UpdateCursor \/ UpdatePointerPos
  BY <1>3, <1>4 DEF UpdateRectangle, CopyRectangle, UpdateDesktopSize, UpdateCursor, UpdatePointerPos
<1> QED BY <1>1, <1>2, <1>4, CommandSingle, CommitSingle, ServerSingle DEF Next, Read

\* What was true of an item stays so as long as no tile of the server's screen
\* becomes one the client lacks.
LEMMA StaysTrue ==
    ASSUME NEW item, IsTrue(item), Dirty' \subseteq Dirty, mask.retries = 0 => mask'.retries = 0
    PROVE  IsTrue(item)'
  BY DEF IsTrue

\* On an idle connection nothing has been painted yet, or the client asks for
\* the second time.
LEMMA CommandExact ==
    ASSUME TypeOK, Single, Command, "stable" \notin Commands
    PROVE  Exact'
<1>1. /\ c2s = <<>> /\ s2c' = <<>> /\ UNCHANGED <<desktop, fb, view>>
  BY CommandAlone DEF server
<1>2. CASE Unarmed /\ op' \in {Idle, Failed}
  BY <1>2 DEF Exact, Capturing, Idle, Failed
<1>3. ASSUME NEW cmd \in {"refresh", "capture", "expect"}, NEW inc \in BOOLEAN, Armed(cmd, inc)
      PROVE  Exact'
  <2> SUFFICES ASSUME Capturing' PROVE Exact'
    BY DEF Exact
  <2>1. cmd = "capture" /\ ~inc /\ Arm("capture", FALSE)
    BY <1>3 DEF Armed, Capturing
  <2>2. mask' = Awaiting(desktop) /\ c2s' = Append(<<>>, Request(FALSE))
    BY <1>1, <2>1 DEF Arm, Ask
  <2>3. mask'.area = desktop' /\ mask'.unpainted = desktop' /\ mask'.retries = 0
    BY <1>1, <2>2 DEF Awaiting
  <2>4. Head(c2s') = Request(FALSE)'
    BY <1>1, <2>2, OneRequest DEF Request
  <2>5. Truthful'
    BY <1>1, EmptySeq DEF Truthful
  <2> QED BY <1>1, <2>3, <2>4, <2>5 DEF Exact
<1> QED BY <1>2, <1>3, CommandAlone

\* Reading paints what is true, and a new size starts the mask again.
LEMMA RectExact ==
    ASSUME TypeOK, Single, Exact,
           UpdateRectangle \/ CopyRectangle \/ UpdateDesktopSize \/ UpdateCursor \/ UpdatePointerPos
    PROVE  Exact'
<1>1. /\ UNCHANGED <<op, steady, c2s, fb, view, owed>>
      /\ s2c # <<>> /\ s2c' = Tail(s2c) /\ s2c \in Seq(Items)
  BY DEF UpdateRectangle, CopyRectangle, UpdateDesktopSize, UpdateCursor, UpdatePointerPos,
         Quietly, Arrives, server, ghost, TypeOK
<1> SUFFICES ASSUME Capturing' PROVE Exact'
  BY DEF Exact
<1>2. Capturing /\ Dirty' = Dirty /\ c2s = <<>> /\ c2s' = <<>>
  BY <1>1 DEF Capturing, Dirty, Single
<1>3. /\ mask.area = desktop /\ Dirty \cap mask.area \subseteq mask.unpainted
      /\ Truthful /\ DOMAIN view = DOMAIN fb
      /\ mask.retries # 0 => desktop = DOMAIN fb /\ Dirty \subseteq owed
  BY <1>1, <1>2 DEF Exact
<1>4. IsTrue(Head(s2c)) /\ Head(s2c) \in Items
  BY <1>1, <1>3, TailItems, TailLast DEF Truthful
<1>5. mask.retries = 0 => mask'.retries = 0
  BY DEF UpdateRectangle, CopyRectangle, UpdateDesktopSize, UpdateCursor, UpdatePointerPos,
         PaintRect, Awaiting, TypeOK, ClientType, Masks
<1>6. Truthful'
  <2>1. ASSUME NEW i \in 1..Len(s2c')
        PROVE  IsTrue(s2c[i])'
    <3>1. PICK item : item = s2c'[i]
      OBVIOUS
    <3>2. IsTrue(item)
      BY <1>1, <1>3, <3>1, TailItems DEF Truthful
    <3>3. IsTrue(item)'
      BY <1>2, <1>5, <3>2, StaysTrue
    <3> QED BY <3>1, <3>3 DEF IsTrue
  <2> QED BY <2>1 DEF Truthful
<1>7. ASSUME NEW box, box \cap Dirty = {}, UNCHANGED desktop,
             mask' = PaintRect(mask, box) \/ mask' = mask
      PROVE  Exact'
  <2>1. /\ PaintRect(mask, box).area = mask.area /\ PaintRect(mask, box).retries = mask.retries
        /\ PaintRect(mask, box).unpainted = mask.unpainted \ box
    BY DEF PaintRect, TypeOK, ClientType, Masks
  <2>2. mask'.area = mask.area /\ mask'.retries = mask.retries
    BY <1>7, <2>1
  <2>3. Dirty' \cap mask'.area \subseteq mask'.unpainted
    BY <1>2, <1>3, <1>7, <2>1
  <2> QED BY <1>1, <1>2, <1>3, <1>6, <1>7, <2>2, <2>3 DEF Exact
<1>8. CASE UpdateRectangle
  <2>1. DOMAIN Head(s2c).pixels \cap Dirty = {}
    BY <1>4, <1>8 DEF IsTrue, UpdateRectangle, Arrives
  <2> QED BY <1>7, <1>8, <2>1 DEF UpdateRectangle
<1>9. CASE CopyRectangle
  <2>1. {Head(s2c).dst} \cap Dirty = {}
    BY <1>4, <1>9 DEF IsTrue, CopyRectangle, Arrives
  <2> QED BY <1>7, <1>9, <2>1 DEF CopyRectangle
<1>10. CASE UpdateCursor \/ UpdatePointerPos
  <2>1. {} \cap Dirty = {}
    OBVIOUS
  <2> QED BY <1>7, <1>10, <2>1 DEF UpdateCursor, UpdatePointerPos
<1>11. CASE UpdateDesktopSize
  <2>1. Pending(mask)
    BY <1>3, DesktopNotEmpty DEF Pending, TypeOK, ClientType
  <2>2. mask' = Awaiting(desktop')
    BY <1>11, <2>1 DEF UpdateDesktopSize
  <2>3. mask'.area = desktop' /\ mask'.unpainted = desktop' /\ mask'.retries = 0
    BY <2>2 DEF Awaiting
  <2> QED BY <1>1, <1>2, <1>3, <1>6, <2>3 DEF Exact
<1> QED BY <1>8, <1>9, <1>10, <1>11

\* Once a message is read to its end, the client has what the server sent.
LEMMA AllRead ==
    ASSUME TypeOK, Single, Bound, Commit
    PROVE  desktop = DOMAIN view /\ (screen # None => screen = view)
<1>1. s2c # <<>> /\ s2c \in Seq(Items) /\ Head(s2c).kind = "end" /\ Tail(s2c) = <<>>
  BY CommitAlone DEF Commit, Arrives, TypeOK
<1>2. PICK e : Leads(Display, s2c, e) /\ Held(e)
  BY DEF Bound
<1>3. Leads(Show(Display, Head(s2c)), Tail(s2c), e)
  BY <1>1, <1>2, LeadsHead
<1>4. Show(Display, Head(s2c)) = e
  BY <1>1, <1>3, LeadsNowhere
<1>5. Show(Display, Head(s2c)) = Display
  BY <1>1 DEF Show, Display
<1> QED BY <1>2, <1>4, <1>5 DEF Held, Display

\* The second request is for the whole of the screen there is.
LEMMA CommitExact ==
    ASSUME TypeOK, Single, Bound, Exact, CommitUpdate
    PROVE  Exact'
<1>1. Commit
  BY CommitChoice
<1>2. /\ s2c # <<>> /\ c2s = <<>> /\ s2c' = <<>> /\ desktop = DOMAIN view
      /\ UNCHANGED <<desktop, fb, view, steady>>
  BY <1>1, CommitAlone, AllRead
<1>3. CASE (CommitNothingPainted \/ CommitRetry) /\ op' = op
  <2> SUFFICES ASSUME Capturing' PROVE Exact'
    BY DEF Exact
  <2>1. Capturing /\ Dirty' = Dirty
    BY <1>2, <1>3 DEF Capturing, Dirty
  <2>2. /\ mask.area = desktop /\ Dirty \cap mask.area \subseteq mask.unpainted
        /\ DOMAIN view = DOMAIN fb
    BY <1>2, <2>1 DEF Exact
  <2>3. c2s' = Append(<<>>, Request(FALSE))
    BY <1>2, <1>3 DEF CommitNothingPainted, CommitRetry, Ask
  <2>4. c2s' # <<>> /\ Head(c2s') = Request(FALSE)'
    BY <1>2, <2>3, OneRequest DEF Request
  <2>5. mask'.area = mask.area /\ mask'.unpainted = mask.unpainted
    BY <1>3 DEF CommitNothingPainted, CommitRetry, TypeOK, ClientType, Masks
  <2>6. Truthful'
    BY <1>2, EmptySeq DEF Truthful
  <2> QED BY <1>2, <2>1, <2>2, <2>4, <2>5, <2>6 DEF Exact
<1>4. CASE Unarmed /\ op' \in {Idle, Failed}
  BY <1>4 DEF Exact, Capturing, Idle, Failed
<1>5. ASSUME NEW inc \in BOOLEAN, Armed("expect", inc)
      PROVE  Exact'
  BY <1>5 DEF Exact, Capturing, Armed
<1> QED BY <1>3, <1>4, <1>5, CommitChoice

\* An item sent is true if the server's screen is what it shows.
LEMMA SentTrue ==
    ASSUME TypeOK, Truthful, NEW item \in Items, s2c' = Append(s2c, item), UNCHANGED mask,
           Dirty' \subseteq Dirty, IsTrue(item)'
    PROVE  Truthful'
<1>1. ASSUME NEW i \in 1..Len(s2c')
      PROVE  IsTrue(s2c[i])'
  <2>1. PICK sent : sent = s2c'[i]
    OBVIOUS
  <2>2. \/ i \in 1..Len(s2c) /\ sent = s2c[i]
        \/ sent = item
    BY <2>1, AppendItems DEF TypeOK
  <2>3. IsTrue(sent)'
    <3>1. CASE sent = item
      BY <3>1 DEF IsTrue
    <3>2. CASE i \in 1..Len(s2c) /\ sent = s2c[i]
      <4>1. IsTrue(sent)
        BY <3>2 DEF Truthful
      <4> QED BY <4>1, StaysTrue
    <3> QED BY <2>2, <3>1, <3>2
  <2> QED BY <2>1, <2>3 DEF IsTrue
<1> QED BY <1>1 DEF Truthful

\* What the server paints or copies is what its screen shows, and neither
\* takes a tile from the client.
LEMMA PaintCleans ==
    ASSUME UNCHANGED fb, NEW box,
           NEW area, view' = [t \in DOMAIN view \cup area |->
                                 IF t \in box THEN fb[t] ELSE Fit(view, {t})[t]],
           box \subseteq DOMAIN view \cup area
    PROVE  Dirty' = Dirty \ box
<1>1. ASSUME NEW t
      PROVE  Fit(view', {t})[t] = IF t \in box THEN fb[t] ELSE Fit(view, {t})[t]
  <2>1. Fit(view', {t})[t] = IF t \in DOMAIN view' THEN view'[t] ELSE Black
    BY DEF Fit
  <2>2. Fit(view, {t})[t] = IF t \in DOMAIN view THEN view[t] ELSE Black
    BY DEF Fit
  <2>3. DOMAIN view' = DOMAIN view \cup area
    OBVIOUS
  <2>4. CASE t \in DOMAIN view \cup area
    <3>1. view'[t] = IF t \in box THEN fb[t] ELSE Fit(view, {t})[t]
      BY <2>4
    <3> QED BY <2>1, <2>3, <2>4, <3>1
  <2>5. CASE t \notin DOMAIN view \cup area
    BY <2>1, <2>2, <2>3, <2>5
  <2> QED BY <2>4, <2>5
<1>2. Dirty' = {t \in DOMAIN fb : Fit(view', {t})[t] # fb[t]}
  BY DEF Dirty, Fit
<1>3. ASSUME NEW t
      PROVE  t \in Dirty' <=> t \in Dirty \ box
  <2>1. t \in Dirty' <=> t \in DOMAIN fb /\ Fit(view', {t})[t] # fb[t]
    BY <1>2
  <2>2. t \in Dirty <=> t \in DOMAIN fb /\ Fit(view, {t})[t] # fb[t]
    BY DEF Dirty
  <2>3. CASE t \in box
    BY <1>1, <2>1, <2>3
  <2>4. CASE t \notin box
    BY <1>1, <2>1, <2>2, <2>4
  <2> QED BY <2>3, <2>4
<1> QED BY <1>3

\* Sending a true item keeps what is exact, if what it takes off what is owed
\* the client no longer lacks.
LEMMA SendExact ==
    ASSUME TypeOK, Exact, c2s = <<>>, UNCHANGED <<mask, desktop, op, steady, c2s, fb>>,
           NEW item \in Items, s2c' = Append(s2c, item), DOMAIN view' = DOMAIN fb,
           Dirty' \subseteq Dirty, Capturing => IsTrue(item)',
           Capturing /\ mask.retries # 0 /\ Dirty \subseteq owed => Dirty' \subseteq owed'
    PROVE  Exact'
<1> SUFFICES ASSUME Capturing' PROVE Exact'
  BY DEF Exact
<1>1. Capturing
  BY DEF Capturing
<1>2. Truthful'
  BY <1>1, SentTrue DEF Exact
<1> QED BY <1>1, <1>2 DEF Exact

\* Before the answer begins the client is told the size of what will come.
LEMMA BeginExact ==
    ASSUME TypeOK, Single, Exact, SrvBegin
    PROVE  Exact'
<1>1. /\ s2c = <<>> /\ c2s = <<>> /\ UNCHANGED <<mask, desktop, op, steady, c2s, fb, owed>>
  BY DEF SrvBegin, SrvOnly, client, ghost, Single
<1>2. CASE Resized
  <2>1. PICK item \in Items : item = [kind |-> "size", area |-> DOMAIN fb]
    BY DEF Items, TypeOK, ServerType
  <2>2. s2c' = Append(s2c, item) /\ view' = Fit(view, DOMAIN fb)
    BY <1>2, <2>1 DEF SrvBegin
  <2>3. DOMAIN view' = DOMAIN fb
    BY <2>2 DEF Fit
  <2>4. Dirty' = Dirty
    <3>1. Dirty' = {t \in DOMAIN fb : Fit(view', {t})[t] # fb[t]}
      BY <1>1 DEF Dirty, Fit
    <3>2. ASSUME NEW t \in DOMAIN fb
          PROVE  Fit(view', {t})[t] = Fit(view, {t})[t]
      BY <2>2, <2>3 DEF Fit
    <3> QED BY <3>1, <3>2 DEF Dirty
  <2>5. Capturing => mask.retries = 0
    BY <1>2 DEF Resized, Exact
  <2>6. Capturing => IsTrue(item)'
    BY <1>1, <2>1, <2>5 DEF IsTrue
  <2> QED BY <1>1, <2>1, <2>2, <2>3, <2>4, <2>5, <2>6, SendExact
<1>3. CASE ~Resized
  <2>1. UNCHANGED <<s2c, view>>
    BY <1>3 DEF SrvBegin
  <2>2. Dirty' = Dirty
    BY <1>1, <2>1 DEF Dirty
  <2>3. Truthful'
    BY <1>1, <2>1, EmptySeq DEF Truthful
  <2>4. Capturing' <=> Capturing
    BY <1>1 DEF Capturing
  <2> QED BY <1>1, <2>1, <2>2, <2>3, <2>4 DEF Exact
<1> QED BY <1>2, <1>3

\* What the server sends in a message takes away what it paints.
LEMMA PaintExact ==
    ASSUME TypeOK, Single, Bound, Exact, NEW box \in SUBSET Tiles, SrvPaint(box)
    PROVE  Exact'
<1>1. /\ phase # "idle" /\ c2s = <<>> /\ UNCHANGED <<mask, desktop, op, steady, c2s, fb>>
  BY DEF SrvPaint, SrvOnly, client, ghost, Single
<1>2. DOMAIN view = DOMAIN fb /\ DOMAIN view \in Desktops
  BY <1>1 DEF Bound
<1>3. box \in SUBSET DOMAIN view
  BY <1>2 DEF SrvPaint, Dirty, TypeOK, ServerType
<1>4. Reach(box) \subseteq DOMAIN view
  BY <1>2, <1>3, ReachWithin
<1> DEFINE pixels == [t \in box |-> fb[t]]
<1>5. PICK item \in Items : item = [kind |-> "paint", pixels |-> pixels]
  <2>1. pixels \in [box -> Pixels]
    BY <1>2, <1>3, ImageElim DEF TypeOK, ServerType
  <2>2. pixels \in Images
    BY <2>1, ImageIntro
  <2> HIDE DEF pixels
  <2> QED BY <2>2 DEF Items
<1>6. Dirty' = Dirty \ box /\ DOMAIN view' = DOMAIN fb
  <2>1. view' = [t \in DOMAIN view \cup Reach(box) |-> IF t \in box THEN fb[t] ELSE Fit(view, {t})[t]]
    BY DEF SrvPaint
  <2> QED BY <1>1, <1>2, <1>3, <1>4, <2>1, PaintCleans
<1>7. s2c' = Append(s2c, item) /\ owed' = owed \ box
  BY <1>5 DEF SrvPaint
<1>8. IsTrue(item)'
  BY <1>5, <1>6 DEF IsTrue
<1> QED BY <1>1, <1>5, <1>6, <1>7, <1>8, SendExact

LEMMA CopyExact ==
    ASSUME TypeOK, Single, Bound, Exact, NEW from \in Tiles, NEW to \in Tiles, SrvCopy(from, to)
    PROVE  Exact'
<1>1. /\ phase # "idle" /\ c2s = <<>> /\ UNCHANGED <<mask, desktop, op, steady, c2s, fb>>
  BY DEF SrvCopy, SrvOnly, client, ghost, Single
<1>2. DOMAIN view = DOMAIN fb /\ to \in DOMAIN view
  BY <1>1 DEF Bound, SrvCopy
<1>3. PICK item \in Items : item = [kind |-> "copy", src |-> from, dst |-> to]
  BY DEF Items
<1>4. Dirty' = Dirty \ {to} /\ DOMAIN view' = DOMAIN fb
  <2>1. view' = [view EXCEPT ![to] = fb[to]]
    BY DEF SrvCopy
  <2>2. \A t \in DOMAIN view : Fit(view, {t})[t] = view[t]
    BY DEF Fit
  <2>3. view' = [t \in DOMAIN view |-> IF t \in {to} THEN fb[t] ELSE Fit(view, {t})[t]]
    BY <2>1, <2>2
  <2>4. view' = [t \in DOMAIN view \cup {} |-> IF t \in {to} THEN fb[t] ELSE Fit(view, {t})[t]]
    BY <2>3
  <2>5. {to} \subseteq DOMAIN view \cup {}
    BY <1>2
  <2> QED BY <1>1, <1>2, <2>3, <2>4, <2>5, PaintCleans
<1>5. s2c' = Append(s2c, item) /\ owed' = owed \ {to}
  BY <1>3 DEF SrvCopy
<1>6. IsTrue(item)'
  BY <1>3, <1>4 DEF IsTrue
<1> QED BY <1>1, <1>3, <1>4, <1>5, <1>6, SendExact

\* The rest of what the server does paints nothing.  A request is for all of
\* the desktop; a change of the screen is not the capture's any more.
LEMMA SilentExact ==
    ASSUME TypeOK, Single, Bound, Exact, AnswersWhole,
           \/ SrvEnd \/ SrvReceive
           \/ \E kind \in {"cursor", "pointer"} : SrvNoise(kind)
           \/ \E t \in Tiles, p \in Pixels \ {Black} : SrvChange(t, p)
           \/ \E area \in Desktops : SrvResize(area)
    PROVE  Exact'
<1>1. CASE SrvEnd \/ (\E kind \in {"cursor", "pointer"} : SrvNoise(kind))
  <2>1. /\ phase # "idle" /\ c2s = <<>> /\ UNCHANGED <<mask, desktop, op, steady, c2s, fb, view>>
    BY <1>1 DEF SrvEnd, SrvNoise, SrvOnly, client, ghost, Single
  <2>2. PICK item \in Items : /\ s2c' = Append(s2c, item)
                              /\ item.kind \in {"cursor", "pointer", "end"}
    BY <1>1 DEF SrvEnd, SrvNoise, Items
  <2>3. Dirty' = Dirty /\ DOMAIN view' = DOMAIN fb
    BY <2>1 DEF Dirty, Bound
  <2>4. owed' = owed
    BY <1>1 DEF SrvEnd, SrvNoise, AnswersWhole, TypeOK, ServerType
  <2>5. IsTrue(item)'
    BY <2>2 DEF IsTrue
  <2> QED BY <2>1, <2>2, <2>3, <2>4, <2>5, SendExact
<1>2. CASE (\E t \in Tiles, p \in Pixels \ {Black} : SrvChange(t, p))
           \/ (\E area \in Desktops : SrvResize(area))
  <2>1. ~steady'
    BY <1>2 DEF SrvChange, SrvResize
  <2> QED BY <2>1 DEF Exact, Capturing
<1>3. CASE SrvReceive
  <2>1. /\ c2s # <<>> /\ s2c = <<>> /\ c2s' = <<>> /\ c2s' = Tail(c2s)
        /\ UNCHANGED <<mask, desktop, op, steady, s2c, fb, view>>
        /\ owed' = IF Head(c2s).incremental THEN owed ELSE owed \cup (DOMAIN fb \cap Head(c2s).area)
    BY <1>3 DEF SrvReceive, SrvOnly, client, ghost, Single
  <2> SUFFICES ASSUME Capturing' PROVE Exact'
    BY DEF Exact
  <2>2. Capturing /\ Dirty' = Dirty
    BY <2>1 DEF Capturing, Dirty
  <2>3. Truthful'
    BY <2>1, EmptySeq DEF Truthful
  <2>4. owed' = owed \cup (DOMAIN fb \cap desktop)
    BY <2>1, <2>2 DEF Exact, Request
  <2>5. Dirty \subseteq DOMAIN fb
    BY DEF Dirty
  <2>6. mask.retries # 0 => Dirty' \subseteq owed'
    BY <2>2, <2>4, <2>5 DEF Exact
  <2> QED BY <2>1, <2>2, <2>3, <2>6 DEF Exact
<1> QED BY <1>1, <1>2, <1>3

LEMMA ExactStep ==
    ASSUME TypeOK, Single, Bound, Exact, AnswersWhole, "stable" \notin Commands, [Next]_vars
    PROVE  Exact'
<1>1. CASE UNCHANGED vars
  <2>1. UNCHANGED <<op, steady, mask, desktop, c2s, s2c, fb, view, owed>>
    BY <1>1 DEF vars, client, server, ghost
  <2> QED BY <2>1 DEF Exact, Capturing, Truthful, IsTrue, Dirty, Request
<1>2. ~Tick /\ ~Settle
  BY DEF Tick, Settle, Single
<1> QED BY <1>1, <1>2, CommandExact, RectExact, CommitExact, BeginExact, PaintExact, CopyExact,
           SilentExact DEF Next, Read, SrvSend, SrvChoice

\* The picture is saved when the answer to the last request has been read, and
\* then the client lacks nothing: the mask is painted over, or this is the
\* answer to a second request, which was for the whole of the screen.
LEMMA SaveExact ==
    ASSUME TypeOK, Single, Bound, Exact, CaptureSave, Captured, steady
    PROVE  saved' = Crop(fb, op.box)
<1>1. Commit /\ screen # None /\ (Complete(mask) \/ mask.retries >= MAX_RETRIES)
  BY DEF CaptureSave, Fires
<1>2. Capturing /\ s2c # <<>> /\ c2s = <<>> /\ owed = {}
  BY <1>1, CommitAlone DEF Capturing, Captured
<1>3. screen = view /\ desktop = DOMAIN view /\ DOMAIN view = DOMAIN fb
  BY <1>1, <1>2, AllRead DEF Exact
<1>4. Dirty = {}
  <2>1. CASE mask.unpainted = {}
    BY <1>2, <1>3, <2>1 DEF Exact, Dirty
  <2>2. CASE mask.retries # 0
    BY <1>2, <2>2 DEF Exact
  <2> QED BY <1>1, <2>1, <2>2 DEF Complete, MAX_RETRIES
<1>5. view = fb
  <2>1. \A t \in DOMAIN fb : Fit(view, {t})[t] = fb[t]
    BY <1>4 DEF Dirty
  <2>2. \A t \in DOMAIN fb : view[t] = fb[t]
    BY <1>3, <2>1 DEF Fit
  <2>3. view = [t \in DOMAIN view |-> view[t]] /\ fb = [t \in DOMAIN fb |-> fb[t]]
    BY ImageElim DEF TypeOK, ServerType
  <2> QED BY <1>3, <2>2, <2>3
<1>6. saved' = Crop(screen, op.box)
  BY DEF CaptureSave, Captured, Failed, Idle
<1> QED BY <1>3, <1>5, <1>6

\* Nothing but saving the picture ends a capture well.
LEMMA OnlySaveEnds ==
    ASSUME TypeOK, Single, [Next]_vars, Captured, "stable" \notin Commands
    PROVE  CaptureSave
<1>1. op.cmd = "capture" /\ op'.cmd = "idle"
  BY DEF Captured
<1>2. ~Command
  BY <1>1 DEF Command, RefreshScreen, CaptureScreen, CaptureRegion, Expect, Stable, Issue
<1>3. ~Tick /\ ~Settle
  BY DEF Tick, Settle, Single
<1>4. op' # op
  BY <1>1
<1>5. CommitUpdate
  BY <1>2, <1>3, <1>4
     DEF Next, Read, SrvSend, SrvChoice, UpdateRectangle, CopyRectangle, UpdateDesktopSize,
         UpdateCursor, UpdatePointerPos, Quietly, SrvReceive, SrvBegin, SrvPaint, SrvEnd, SrvCopy,
         SrvNoise, SrvChange, SrvResize, SrvOnly, client, vars
<1>6. deferred = "capture"
  <2>1. Commit
    BY <1>5, CommitChoice
  <2> QED BY <1>1, <2>1, CommitAlone DEF Single
<1> QED BY <1>4, <1>5, <1>6
        DEF CommitUpdate, CommitIdle, CommitNothingPainted, CommitRetry, RefreshDone,
            ExpectAgain, WatchUpdate, Fires

\* A full capture taken while the server's screen does not change saves that
\* screen, every pixel of it.  That is said of a server that answers a full
\* request in one message and tells its size, and of a client that has not
\* used a stable command: the request such a command leaves behind is answered
\* in the capture's time (captureScreen, captureRegion, commitUpdate,
\* _captureSave).
THEOREM CaptureAlwaysExact ==
    ASSUME SizesTold, AnswersWhole, "stable" \notin Commands
    PROVE  Spec => CaptureExact
<1>1. Init => Single /\ Bound /\ Exact
  <2> SUFFICES ASSUME Init PROVE Single /\ Bound /\ Exact
    OBVIOUS
  <2>1. ~watch.running
    BY DEF Init, NewWatch
  <2>2. Single
    BY <2>1, EmptySeq DEF Init, Single
  <2>3. Exact
    BY DEF Init, Idle, Exact, Capturing
  <2> QED BY <2>2, <2>3, BoundInit
<1>2. TypeOK /\ Single /\ Bound /\ Exact /\ [Next]_vars => Single' /\ Bound' /\ Exact'
  BY SingleStep, BoundStep, ExactStep, SizesTold, AnswersWhole, "stable" \notin Commands
<1>3. TypeOK /\ Single /\ Bound /\ Exact /\ [Next]_vars
        => [Captured /\ steady => saved' = Crop(fb, op.box)]_vars
  BY OnlySaveEnds, SaveExact, "stable" \notin Commands
<1> QED BY <1>1, <1>2, <1>3, TypeCorrect, PTL DEF Spec, CaptureExact
==============================================================================
