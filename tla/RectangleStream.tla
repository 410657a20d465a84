--------------------------- MODULE RectangleStream ---------------------------
(***************************************************************************)
(* RectangleDecoders against the server that writes the rectangles: what   *)
(* a server may write in each encoding (external), the specification and   *)
(* what it promises.  A server also breaks the encoding, in every way a    *)
(* decoder looks for, once; the client then gives the connection up.       *)
(***************************************************************************)
EXTENDS RectangleDecoders

CONSTANTS
    Connections,  \* [announced, requested, jpeg, backing, deflated, rects]: the formats
                  \* the server and the user wanted, and what earlier rectangles left
    FirstSizes,   \* RectSizes, for all rectangles but the last
    TightUses     \* [resets, stream, length]: the streams a Tight rectangle
                  \* resets and uses, and the length of its compressed block
ASSUME ServerAssumption ==
    /\ TightUses \subseteq [resets : SUBSET TightStreams, stream : TightStreams,
                             length : CompactLengths]
    /\ FirstSizes \in [Encodings -> SUBSET (Nat \X Nat)]
    /\ \A c \in Connections : /\ c.announced.bpp \in Nat
                               /\ c.announced.truecolor \in BOOLEAN
                               /\ c.requested \in PIXEL_FORMATS \cup {NotAsked}

Coords(t) == (t.x..t.x + t.w - 1) \X (t.y..t.y + t.h - 1)
At(t, im) == [p \in Coords(t) |-> im[(p[2] - t.y) * t.w + (p[1] - t.x)]]
Plain(t, colour) == [p \in Coords(t) |-> colour]
\* What one field puts on the wire: nothing, when it has no bytes
Field(f, n, v) == IF n > 0 THEN <<[f |-> f, n |-> n, v |-> v]>> ELSE <<>>
PixelWidth == Len(WirePixel(pixel_format))
TpixelWidth == Len(WireTpixel(pixel_format))
Box(r) == [x |-> 0, y |-> 0, w |-> r.w, h |-> r.h]
Fits(r) == r.w <= Width /\ r.h <= Height

Ready == /\ ~aborted /\ ~bad /\ wire = <<>> /\ g = Idle /\ sending = <<>>
         /\ rects < MaxRectangles

\* A rectangle begins: its header, and all or the first part of what follows
BeginAs(r, fields, image, v, more) ==
    /\ rect' = r /\ rects' = rects + 1 /\ painted' = <<>>
    /\ wire' = Field("rectangle", 12, r) \o fields
    /\ meant' = image /\ verdict' = v /\ sending' = more
    /\ UNCHANGED <<pixel_format, jpeg_offered, backing, streams, g, aborted>>

Verdict(breaks) == IF breaks THEN "malformed" ELSE "legal"
Begin(r, fields, image, breaks, more) ==
    BeginAs(r, fields, image, Verdict(breaks), more)

Rects(enc) == {[enc |-> enc, w |-> s[1], h |-> s[2]] :
                s \in (IF rects + 1 < MaxRectangles THEN FirstSizes ELSE RectSizes)[enc]}

\* Larger than the framebuffer: the header is enough
SrvTooLarge == Ready /\ \E enc \in WholeRect \cup Filling : \E r \in Rects(enc) :
    ~Fits(r) /\ Begin(r, <<>>, <<>>, TRUE, <<>>) /\ UNCHANGED deflated

SrvRaw == Ready /\ \E r \in Rects("raw") : \E im \in Pictures(r.w * r.h) :
    /\ Fits(r) /\ UNCHANGED deflated
    /\ Begin(r, Field("raw", r.w * r.h * PixelWidth, im), At(Box(r), im), FALSE, <<>>)

SrvCopyRect == Ready /\ \E r \in Rects("copyrect"), x, y \in 0..1 :
    /\ Begin(r, Field("copyrect", 4, [x |-> x, y |-> y]), <<>>,
             x + r.w > Width \/ y + r.h > Height, <<>>)
    /\ UNCHANGED deflated

SrvCursor == Ready /\ \E r \in Rects("cursor") :
    /\ Begin(r, Field("cursor", r.h * (r.w * PixelWidth + (r.w + 7) \div 8), "cursor"),
             <<>>, FALSE, <<>>)
    /\ UNCHANGED deflated

SrvControl == Ready /\ \E r \in Rects("control") :
    Begin(r, <<>>, <<>>, FALSE, <<>>) /\ UNCHANGED deflated

\* Subrectangles within an area or over its edge: none, one, or one over all
\* and one pixel on top
Subs(w, h) == [x : 0..w - 1, y : 0..h - 1, w : 1..2, h : 1..2, colour : Colours]
SubLists(w, h) ==
    {<<>>} \cup {<<s>> : s \in Subs(w, h)}
    \cup {<<[x |-> 0, y |-> 0, w |-> w, h |-> h, colour |-> 1], s>> :
               s \in {s \in Subs(w, h) : s.w = 1 /\ s.h = 1}}
Drawn(subs, x, y, ground) ==
    FoldLeft(LAMBDA m, s : Plain([s EXCEPT !.x = @ + x, !.y = @ + y], s.colour) @@ m,
             ground, subs)
Over(subs, w, h) == \E k \in DOMAIN subs : \/ subs[k].x + subs[k].w > w
                                            \/ subs[k].y + subs[k].h > h

\* The specifications do not bound the count, the decoder does
RREVerdict(subs, w, h) == IF Over(subs, w, h) THEN "malformed"
                          ELSE IF Len(subs) > w * h THEN "unsupported" ELSE "legal"
SrvRRE == Ready /\ \E enc \in {"rre", "corre"}, colour \in Colours : \E r \in Rects(enc) :
    \E subs \in SubLists(r.w, r.h) :
        /\ Fits(r) /\ UNCHANGED deflated
        /\ BeginAs(r, Field("rre", 4 + PixelWidth, [count |-> Len(subs), colour |-> colour])
                    \o Field("subrectangles",
                             Len(subs) * (PixelWidth + IF enc = "rre" THEN 8 ELSE 4), subs),
                   Drawn(subs, 0, 0, Plain(Box(r), colour)), RREVerdict(subs, r.w, r.h), <<>>)

\* Hextile: `sending` is the next tile and the colours that carry over, 0 for none
SrvHextile == Ready /\ \E r \in Rects("hextile") :
    /\ Fits(r) /\ UNCHANGED deflated
    /\ Begin(r, <<>>, <<>>, FALSE,
             IF r.w * r.h = 0 THEN <<>> ELSE [tile |-> 1, bg |-> 0, fg |-> 0])

HextileTiles == TilesOf(rect.w, rect.h, HexTile)
SrvTile(t, fields, image, breaks, bg, fg) ==
    /\ wire' = fields /\ meant' = image @@ meant /\ verdict' = Verdict(breaks)
    /\ sending' = IF breaks \/ sending.tile = Len(HextileTiles) THEN <<>>
                  ELSE [tile |-> sending.tile + 1, bg |-> bg, fg |-> fg]
    /\ UNCHANGED <<client, rect, deflated, rects>>

Sending(enc) == rect.enc = enc /\ sending # <<>> /\ wire = <<>> /\ ~aborted /\ ~bad

SrvHextileRaw ==
    /\ Sending("hextile")
    /\ LET t == HextileTiles[sending.tile]
       IN  \E im \in Pictures(t.w * t.h) :
              SrvTile(t, Field("hextile", 1, {"raw"})
                         \o Field("hextile.raw", t.w * t.h * PixelWidth, im),
                      At(t, im), FALSE, 0, 0)

\* Any mix of the other bits; a foreground of its own is not for coloured ones
HextileBits == {b \in SUBSET {"background", "foreground", "subrects", "coloured"} :
                  "coloured" \in b => "subrects" \in b /\ "foreground" \notin b}
PaintedTile(t, bits, a, d, subs) ==
    LET bg == IF "background" \in bits THEN a ELSE sending.bg
        fg == IF "foreground" \in bits THEN d ELSE sending.fg
        coloured == "coloured" \in bits
        own == IF coloured THEN subs
               ELSE [k \in DOMAIN subs |-> [subs[k] EXCEPT !.colour = fg]]
        head == (IF "background" \in bits THEN PixelWidth ELSE 0)
                + (IF "foreground" \in bits THEN PixelWidth ELSE 0)
                + IF "subrects" \in bits THEN 1 ELSE 0
    IN  /\ "subrects" \notin bits => subs = <<>>
        /\ "background" \notin bits => a = 1
        /\ "foreground" \notin bits => d = 1
        /\ ~coloured => \A k \in DOMAIN subs : subs[k].colour = 1
        /\ SrvTile(t,
             Field("hextile", 1, bits)
             \o (Field("hextile.block", head,
                       [background |-> a, foreground |-> d, count |-> Len(subs)])
             \o Field("hextile.subrects",
                      Len(subs) * (2 + IF coloured THEN PixelWidth ELSE 0), own)),
             Drawn(own, t.x, t.y, Plain(t, bg)),
             bg = 0 \/ (fg = 0 /\ ~coloured /\ subs # <<>>) \/ Over(subs, t.w, t.h),
             bg, IF coloured THEN 0 ELSE fg)
SrvHextileTile ==
    /\ Sending("hextile")
    /\ LET t == HextileTiles[sending.tile]
       IN  \E bits \in HextileBits, a, d \in Colours, subs \in SubLists(t.w, t.h) :
              PaintedTile(t, bits, a, d, subs)

\* ZRLE: `sending` collects the tiles, to compress them at the end
SrvZRLE == Ready /\ \E r \in Rects("zrle") :
    /\ Fits(r) /\ UNCHANGED deflated
    /\ Begin(r, <<>>, <<>>, FALSE, [tile |-> 1, data |-> <<>>, ill |-> FALSE])

ZRLETilesOf == TilesOf(rect.w, rect.h, ZTile)
SrvZRLETile ==
    /\ Sending("zrle") /\ ~sending.ill /\ sending.tile <= Len(ZRLETilesOf)
    /\ LET t == ZRLETilesOf[sending.tile]
       IN  \E s \in ServerTiles(t, Len(WireCpixel(pixel_format))) :
             /\ sending' = [tile |-> sending.tile + 1, data |-> sending.data \o s.bytes,
                            ill |-> s.bad]
             /\ meant' = At(t, s.im) @@ meant
    /\ UNCHANGED <<client, wire, rect, verdict, deflated, rects>>

\* The block as it is, one byte too long, or cut short; its compressed length
\* is any that is not 0, here one more than the tiles
SrvZRLEBlock ==
    /\ Sending("zrle")
    /\ sending.ill \/ sending.tile > Len(ZRLETilesOf)
    /\ LET data == sending.data
           cuts == {SubSeq(data, 1, k) : k \in {0, Len(data) \div 2, Len(data) - 1} \cap Nat}
       IN  \E sent \in {data} \cup IF sending.ill THEN {} ELSE {Append(data, 0)} \cup cuts :
             /\ wire' = Field("zrle", 4, sending.tile)
                        \o Field("zrle.block", sending.tile,
                                 [after |-> deflated[ZRLE], data |-> sent])
             /\ verdict' = Verdict(sending.ill \/ sent # data)
    /\ sending' = <<>> /\ deflated' = [deflated EXCEPT ![ZRLE] = @ + 1]
    /\ UNCHANGED <<client, rect, meant, rects>>

\* Tight
Compact(n) ==
    LET byte(v) == Field("tight.length", 1, v)
    IN  IF n < 128 THEN byte(n)
        ELSE IF n < 16384 THEN byte(128 + (n % 128)) \o byte(n \div 128)
        ELSE byte(128 + (n % 128)) \o (byte(128 + ((n \div 128) % 128)) \o byte(n \div 16384))

Restarted(use) == [s \in Streams |-> IF s \in use.resets THEN 0 ELSE deflated[s]]
Control(use, kind, explicit) ==
    Field("tight", 1, [resets |-> use.resets, kind |-> kind, stream |-> use.stream,
                       explicit |-> explicit])

\* The filter's fields and its data; a block `more` bytes away from its size
TightBody(use, filter, size, data, more) ==
    filter \o IF size < MIN_TO_COMPRESS THEN Field("tight.data", size, data)
              ELSE Compact(use.length) \o
                   Field("tight.zlib", use.length,
                         [after |-> Restarted(use)[use.stream], more |-> more, data |-> data])
TightBasic(r, use, explicit, filter, size, data, im, breaks, more) ==
    /\ Begin(r, Control(use, "basic", explicit) \o TightBody(use, filter, size, data, more),
             At(Box(r), im), breaks \/ r.w > MAX_WIDTH, <<>>)
    /\ deflated' = IF size < MIN_TO_COMPRESS THEN Restarted(use)
                   ELSE [Restarted(use) EXCEPT ![use.stream] = @ + 1]
    /\ more # 0 => size >= MIN_TO_COMPRESS

SrvTightFill == Ready /\ \E r \in Rects("tight"), use \in TightUses, colour \in Colours :
    /\ Fits(r) /\ deflated' = Restarted(use)
    /\ Begin(r, Control(use, "fill", FALSE) \o Field("tight.fill", TpixelWidth, colour),
             Plain(Box(r), colour), FALSE, <<>>)

\* In one piece or not, of the right size or not, asked for or not
SrvTightJpeg ==
    Ready /\ \E r \in Rects("tight"), use \in TightUses, decodes \in BOOLEAN, less \in 0..1 :
    \E im \in Pictures(r.w * r.h) :
    /\ Fits(r) /\ deflated' = Restarted(use)
    /\ ~decodes \/ less = 1 => im = Flat(r.w * r.h, 1)
    /\ Begin(r, Control(use, "jpeg", FALSE) \o (Compact(use.length) \o
                Field("tight.jpeg", use.length,
                      [decodes |-> decodes, w |-> r.w, h |-> r.h + less, data |-> im])),
             At(Box(r), im), ~jpeg_offered \/ ~decodes \/ less = 1 \/ r.w > MAX_WIDTH, <<>>)

SrvTightUndefined == Ready /\ \E r \in Rects("tight"), use \in TightUses :
    /\ Fits(r) /\ deflated' = Restarted(use)
    /\ Begin(r, Control(use, "undefined", FALSE), <<>>, TRUE, <<>>)

SrvTightCopy ==
    Ready /\ \E r \in Rects("tight"), use \in TightUses, explicit \in BOOLEAN, more \in {0 - 1, 0, 1} :
    \E im \in Pictures(r.w * r.h) :
    /\ Fits(r)
    /\ more # 0 => im = Flat(r.w * r.h, 1)
    /\ TightBasic(r, use, explicit, IF explicit THEN Field("tight.filter", 1, "copy") ELSE <<>>,
                  r.w * r.h * TpixelWidth, im, im, more # 0, more)

\* Legal at 16 and 32 bits per pixel, and not supported: refused at its filter
SrvTightGradient == Ready /\ \E r \in Rects("tight"), use \in TightUses :
    /\ Fits(r) /\ deflated' = Restarted(use)
    /\ BeginAs(r, Control(use, "basic", TRUE) \o Field("tight.filter", 1, "gradient"),
               <<>>, "unsupported", <<>>)

PaletteFilter(k) == Field("tight.filter", 1, "palette") \o (Field("tight.palettesize", 1, k - 1)
                    \o Field("tight.palette", k * TpixelWidth, [i \in 1..k |-> Entries(k)[i - 1]]))
SrvTightTwoColours == Ready /\ \E r \in Rects("tight"), use \in TightUses, pad \in 0..1 :
    \E im \in Pictures(r.w * r.h) :
    /\ Fits(r)
    /\ TightBasic(r, use, TRUE, PaletteFilter(2), r.h * ((r.w + 7) \div 8),
                  PackRows([i \in DOMAIN im |-> EntryOf(2, im[i])], 1, pad, r.w, r.h), im, FALSE, 0)

SrvTightPalette == Ready /\ \E r \in Rects("tight"), use \in TightUses, k \in {1, 3}, past \in BOOLEAN :
    \E im \in Pictures(r.w * r.h) :
    /\ Fits(r) /\ r.w * r.h > 0
    /\ past => im = Flat(r.w * r.h, 1)
    /\ k = 1 => \A i \in DOMAIN im : im[i] = 1
    /\ TightBasic(r, use, TRUE, PaletteFilter(k), r.h * r.w,
                  [i \in DOMAIN im |-> IF past /\ i = 0 THEN k ELSE EntryOf(k, im[i])], im, past, 0)

-------------------------------------------------------------------------------
\* A connection that may have had rectangles before: the streams are in step
Init ==
    /\ \E c \in Connections :
          /\ pixel_format = ImageFormat(c.announced, c.requested)
          /\ jpeg_offered = c.jpeg /\ backing = c.backing
          /\ streams = c.deflated /\ deflated = c.deflated /\ rects = c.rects
    /\ g = Idle /\ painted = <<>> /\ aborted = FALSE /\ wire = <<>>
    /\ rect = [enc |-> "control", w |-> 0, h |-> 0] /\ meant = <<>> /\ verdict = "legal"
    /\ sending = <<>>

Decode ==
    \/ HandleRectangle \/ RawDecode \/ CopyRectDecode \/ CursorDecode
    \/ RREHeader \/ RRESubrectangles
    \/ HextileSubencoding \/ HextileRaw \/ HextileBlock \/ HextileSubrects
    \/ TightControl \/ TightFill \/ TightFilter \/ TightPaletteSize \/ TightPalette
    \/ CompactLength \/ TightData \/ TightZlib \/ TightJpeg
    \/ ZRLELength \/ ZRLEBlock

Serve ==
    \/ SrvTooLarge \/ SrvRaw \/ SrvCopyRect \/ SrvCursor \/ SrvControl \/ SrvRRE
    \/ SrvHextile \/ SrvHextileRaw \/ SrvHextileTile
    \/ SrvZRLE \/ SrvZRLETile \/ SrvZRLEBlock
    \/ SrvTightFill \/ SrvTightJpeg \/ SrvTightUndefined \/ SrvTightCopy
    \/ SrvTightGradient \/ SrvTightTwoColours \/ SrvTightPalette

\* The last rectangle is done, or the connection given up
Finished == /\ aborted \/ (rects = MaxRectangles /\ g = Idle /\ wire = <<>> /\ sending = <<>>)
         /\ UNCHANGED vars

Next == Decode \/ Serve \/ Finished
Spec == Init /\ [][Next]_vars

-------------------------------------------------------------------------------
(* The field a decoder waits for is the one the server wrote next, and as  *)
(* long: however a rectangle branches (sub-encodings, filters, palettes,   *)
(* data too short to compress, a size in one to three bytes), the byte     *)
(* counts the generators yield to _pump are those of the encoding, and one *)
(* rectangle leaves the parser at the start of the next.                   *)
InStep == wire # <<>> /\ g.n > 0 /\ ~aborted => Head(wire).f = g.at /\ Head(wire).n = g.n

(* What _finishRectangle pastes is the picture the server meant, every     *)
(* pixel of the rectangle and no other, each colour channel where the      *)
(* format given to updateRectangle has it: whatever an earlier rectangle   *)
(* left in the backing RectBuffer reuses, in the order of overlapping      *)
(* subrectangles, with rows padded to whole bytes, runs that cross rows    *)
(* and pixels of 3 bytes for 4.                                            *)
Pasted ==
    ~bad => \A k \in DOMAIN painted :
        /\ DOMAIN painted[k].pixels = 0..rect.w * rect.h - 1
        /\ \A i \in DOMAIN painted[k].pixels :
              painted[k].pixels[i] = meant[<<i % rect.w, i \div rect.w>>]
        /\ painted[k].layout = RawMode(painted[k].format)

(* What ends the connection is a rectangle that breaks its encoding, or    *)
(* one of the two kinds the encodings allow and the decoders refuse: the   *)
(* gradient filter of Tight (tight.py), and an RRE rectangle of more       *)
(* subrectangles than pixels (rre.py).  All of those and no other: one to  *)
(* be refused is never pasted and, once its bytes are read, the connection *)
(* is given up; any other never costs the connection, also when its zlib   *)
(* block goes on where the last one of its stream ended or after a reset   *)
(* that came with another kind of rectangle.                               *)
OnlyBadRefused ==
    /\ aborted => verdict \in {"malformed", "unsupported"}
    /\ bad => painted = <<>>
    /\ bad /\ g = Idle /\ wire = <<>> => aborted
===============================================================================
