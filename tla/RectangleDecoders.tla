-------------------------- MODULE RectangleDecoders --------------------------
(***************************************************************************)
(* The decoders of one connection (decoders/) and the pump that runs them  *)
(* (rfb.py: _handleRectangle, _pump, _finishRectangle), against a server   *)
(* that writes rectangles in every encoding.                               *)
(*                                                                         *)
(* A decoder is a generator of byte counts; `g` is the parked one: where   *)
(* it is (at), how many bytes it waits for (n) and what it remembers (my). *)
(* `wire` holds the fields the server has written, each with its name (f), *)
(* its length in bytes (n) and what it says (v); a chunk that ends inside  *)
(* a field changes nothing, so a field arrives whole.  What lives longer   *)
(* than a rectangle is the rectangle buffer's backing and the zlib         *)
(* streams.  A zlib stream is the number of blocks that went through it: a *)
(* block inflates only where the compressor was when it was written.       *)
(*                                                                         *)
(* The server (external) knows what it means, `meant`, and what is to be   *)
(* said of what it wrote, `verdict`: it is legal, malformed, or one of the *)
(* kinds its encoding allows and this client does not support.             *)
(***************************************************************************)
EXTENDS ZRLETiles

CONSTANTS
    RectSizes,    \* for each kind of encoding, the <<width, height>> servers send
    HexTile,      \* TILE of hextile.py
    TightStreams, \* range(STREAMS), as names
    MAX_WIDTH, MIN_TO_COMPRESS,
    CompactLengths, \* the lengths a compressed Tight block may have
    Width, Height,  \* of the framebuffer
    Stale,        \* stands for any pixel of a rectangle before this one
    MaxRectangles \* bound: rectangles sent

WholeRect == {"raw", "tight"}
Filling   == {"rre", "corre", "hextile", "zrle"}
ForClient == {"copyrect", "cursor"}
Encodings == WholeRect \cup Filling \cup ForClient \cup {"control"}
ZRLE      == "zrle"
JPEG      == "jpeg"    \* in a stream's place: a compressed length before JPEG data
Streams   == TightStreams \cup {ZRLE}

ASSUME DecoderAssumption ==
    /\ RectSizes \in [Encodings -> SUBSET (Nat \X Nat)]
    /\ HexTile \in 1..16 /\ MIN_TO_COMPRESS \in Nat \ {0} /\ MAX_WIDTH \in Nat
    /\ \A n \in CompactLengths :              \* the 22 bits of three bytes
           n \in Nat /\ n \div 16384 < 256
    /\ Width \in Nat \ {0} /\ Height \in Nat \ {0} /\ MaxRectangles \in Nat
    /\ Stale \notin Colours \cup {Blank, Garbled} /\ {ZRLE, JPEG} \cap TightStreams = {}

VARIABLES
    pixel_format, \* self.pixel_format, settled before the first rectangle
    jpeg_offered, \* TightDecoder._jpeg_offered
    backing,      \* len(self._rect_backing), in pixels
    streams,      \* the decoders' zlib streams
    g,            \* the parked generator
    painted,      \* [] or [the paste] of the rectangle under way
    aborted,      \* self._aborted
    wire, rect, meant, verdict, sending, deflated, rects   \* the server
client == <<pixel_format, jpeg_offered, backing, streams, g, painted, aborted>>
server == <<rect, meant, verdict, sending, deflated, rects>>
vars   == <<client, server, wire>>

bypp == Bypp(pixel_format)
T    == TpixelBytes(pixel_format)
bad  == verdict # "legal"   \* the client is to refuse it
Idle == [at |-> "rectangle", n |-> 12, my |-> <<>>]

-------------------------------------------------------------------------------
\* The pump.

\* send(block): the field waited for is there; a block of 0 bytes always is
Resumed(at) == /\ ~aborted /\ g.at = at
               /\ g.n = 0 \/ (wire # <<>> /\ Head(wire).n = g.n)
Block == IF g.n = 0 THEN <<>> ELSE Head(wire).v
Taken == IF g.n = 0 THEN wire ELSE Tail(wire)

\* The decoder yields n with these local variables
Park(at, n, locals) == /\ g' = [at |-> at, n |-> n, my |-> locals]
                       /\ wire' = Taken /\ UNCHANGED <<painted, aborted>>

\* One of _DECODE_ERRORS (a DecodeError, or struct, zlib or memory running out)
\* in a decoder: abortConnection.  Any other exception leaves dataReceived, and
\* none of those is modelled
Refuse == aborted' = TRUE /\ g' = Idle /\ wire' = <<>> /\ UNCHANGED painted

\* _finishRectangle, without and with a paste of pixels (numbered by rows), the
\* layout they are in and the format they are pasted in
Done == g' = Idle /\ wire' = Taken /\ UNCHANGED <<painted, aborted>>
Paste(pixels, layout, format) ==
    IF Cardinality(DOMAIN pixels) * Len(layout) # rect.w * rect.h * Bypp(format) THEN Refuse
    ELSE /\ painted' = <<[pixels |-> pixels, layout |-> layout, format |-> format]>>
         /\ g' = Idle /\ wire' = Taken /\ UNCHANGED aborted
PasteBuffer(buf, layout) == Paste(ToBytes(buf), layout, pixel_format)

requireFits == rect.w <= Width /\ rect.h <= Height

\* rectBuffer: new backing is zeros, used backing is whatever was left in it
rectBuffer == Open(rect.w, rect.h,
                   [i \in 0..backing' - 1 |-> IF backing' > backing THEN Blank ELSE Stale])

\* The local variables of the Hextile decoder; colour 0 is one not set
TileLocals(buf, tile, background, foreground, bits) ==
    [buf |-> buf, tile |-> tile, background |-> background, foreground |-> foreground,
     bits |-> bits]

\* _handleRectangle and the decoder up to its first yield
HandleRectangle ==
    /\ Resumed("rectangle")
    /\ backing' = IF rect.enc \in Filling /\ requireFits /\ backing < rect.w * rect.h
                  THEN rect.w * rect.h ELSE backing
    /\ LET enc == rect.enc
           area == rect.w * rect.h
       IN  IF enc \in WholeRect \cup Filling /\ ~requireFits THEN Refuse
           ELSE CASE enc = "raw" -> Park("raw", area * bypp, <<>>)
                  [] enc \in {"rre", "corre"} -> Park("rre", 4 + bypp, [buf |-> rectBuffer])
                  [] enc = "hextile" ->
                       IF area = 0 THEN PasteBuffer(rectBuffer, WirePixel(pixel_format))
                       ELSE Park("hextile", 1, TileLocals(rectBuffer, 1, 0, 0, {}))
                  [] enc = "zrle"  -> Park("zrle", 4, [buf |-> rectBuffer])
                  [] enc = "tight" -> Park("tight", 1, <<>>)
                  [] enc = "copyrect" -> Park("copyrect", 4, <<>>)
                  [] enc = "cursor" ->
                       Park("cursor", area * bypp + ((rect.w + 7) \div 8) * rect.h, <<>>)
                  [] enc = "control" -> Done
    /\ UNCHANGED <<pixel_format, jpeg_offered, streams, server>>

Elsewhere == UNCHANGED <<pixel_format, jpeg_offered, backing, server>>

-------------------------------------------------------------------------------
\* Raw, CopyRect, Cursor and RRE.

RawDecode == /\ Resumed("raw")
             /\ Paste(Block, WirePixel(pixel_format), pixel_format)
             /\ UNCHANGED streams /\ Elsewhere

\* Its source is within the framebuffer, or Pillow would copy black from outside
CopyRectDecode == /\ Resumed("copyrect")
                  /\ IF Block.x + rect.w > Width \/ Block.y + rect.h > Height
                     THEN Refuse ELSE Done
                  /\ UNCHANGED streams /\ Elsewhere

CursorDecode == Resumed("cursor") /\ Done /\ UNCHANGED streams /\ Elsewhere

\* The bytes of a subrectangle's coordinates
COORDS_Wide == 8   \* mutant: CoRRE's are as wide as RRE's
COORDS == IF rect.enc = "rre" THEN 8 ELSE 4
RREHeader ==
    /\ Resumed("rre")
    /\ LET buf == Fill(g.my.buf, 0, 0, rect.w, rect.h, Block.colour)
       IN  CASE Block.count = 0 -> PasteBuffer(buf, WirePixel(pixel_format))
             [] Block.count > rect.w * rect.h -> Refuse
             [] OTHER -> Park("subrectangles", (bypp + COORDS) * Block.count, [buf |-> buf])
    /\ UNCHANGED streams /\ Elsewhere

RRESubrectangles ==
    /\ Resumed("subrectangles")
    /\ IF \E k \in DOMAIN Block : ~InBounds(g.my.buf, Block[k].x, Block[k].y, Block[k].w, Block[k].h)
       THEN Refuse
       ELSE PasteBuffer(FoldLeft(LAMBDA b, s : Fill(b, s.x, s.y, s.w, s.h, s.colour),
                                 g.my.buf, Block), WirePixel(pixel_format))
    /\ UNCHANGED streams /\ Elsewhere

-------------------------------------------------------------------------------
\* Hextile.

Tile == TilesOf(rect.w, rect.h, HexTile)[g.my.tile]

\* The next tile, or the rectangle's end
AfterTile(buf, background, foreground) ==
    IF g.my.tile = Len(TilesOf(rect.w, rect.h, HexTile))
    THEN PasteBuffer(buf, WirePixel(pixel_format))
    ELSE Park("hextile", 1, TileLocals(buf, g.my.tile + 1, background, foreground, {}))

HextileSubencoding ==
    /\ Resumed("hextile")
    /\ IF "raw" \in Block
       THEN Park("hextile.raw", Tile.w * Tile.h * bypp, g.my)
       ELSE Park("hextile.block", (IF "background" \in Block THEN bypp ELSE 0)
                                  + (IF "foreground" \in Block THEN bypp ELSE 0)
                                  + (IF "subrects" \in Block THEN 1 ELSE 0),
                 TileLocals(g.my.buf, g.my.tile, g.my.background, g.my.foreground, Block))
    /\ UNCHANGED streams /\ Elsewhere

HextileRaw == /\ Resumed("hextile.raw")
              /\ AfterTile(Blit(g.my.buf, Tile.x, Tile.y, Tile.w, Tile.h, Block), 0, 0)
              /\ UNCHANGED streams /\ Elsewhere

HextileBlock ==
    /\ Resumed("hextile.block")
    /\ LET background == IF "background" \in g.my.bits THEN Block.background ELSE g.my.background
           foreground == IF "foreground" \in g.my.bits THEN Block.foreground ELSE g.my.foreground
           coloured   == "coloured" \in g.my.bits
           buf == Fill(g.my.buf, Tile.x, Tile.y, Tile.w, Tile.h, background)
       IN  CASE background = 0 -> Refuse
             [] background # 0 /\ "subrects" \notin g.my.bits ->
                  AfterTile(buf, background, foreground)
             [] OTHER ->
                  IF Block.count > 0 /\ ~coloured /\ foreground = 0 THEN Refuse
                  ELSE Park("hextile.subrects",
                            (IF coloured THEN bypp + 2 ELSE 2) * Block.count,
                            TileLocals(buf, g.my.tile, background, foreground, g.my.bits))
    /\ UNCHANGED streams /\ Elsewhere

HextileSubrects ==
    /\ Resumed("hextile.subrects")
    /\ LET coloured == "coloured" \in g.my.bits
           paint(b, s) == Fill(b, Tile.x + s.x, Tile.y + s.y, s.w, s.h,
                               IF coloured THEN s.colour ELSE g.my.foreground)
       IN  IF \E k \in DOMAIN Block : \/ Block[k].x + Block[k].w > Tile.w
                                      \/ Block[k].y + Block[k].h > Tile.h
           THEN Refuse
           ELSE AfterTile(FoldLeft(paint, g.my.buf, Block), g.my.background,
                          IF coloured THEN 0 ELSE g.my.foreground)
    /\ UNCHANGED streams /\ Elsewhere

-------------------------------------------------------------------------------
\* Tight.

\* What Tight's pixels come out as (_output_format)
TightPaste(pixels) == Paste(pixels, WireTpixel(pixel_format),
                            IF T = 3 THEN TPIXEL_FORMAT ELSE pixel_format)

\* Rows of whole bytes cut back to the width of the rectangle
Unpacked(data, palette) ==
    LET row == (rect.w + 7) \div 8
    IN  [i \in 0..rect.w * rect.h - 1 |->
            palette[IndexIn(data[(i \div rect.w) * row + (i % rect.w) \div 8 + 1],
                            1, (i % rect.w) % 8)]]

\* _unpalette, on data that is all there; the copy filter has no palette
Unpalette(data, palette) ==
    CASE palette = <<>> -> TightPaste(data)
      [] Len(palette) = 2 -> TightPaste(Unpacked(data, [k \in 0..1 |-> palette[k + 1]]))
      [] OTHER -> IF \E i \in DOMAIN data : data[i] >= Len(palette) THEN Refuse
                  ELSE TightPaste([i \in DOMAIN data |-> palette[data[i] + 1]])

RowSize(palette) == CASE palette = <<>>     -> rect.w * T
                      [] Len(palette) = 2   -> (rect.w + 7) \div 8
                      [] OTHER              -> rect.w

\* Where a compressed length has got to: `part` bytes of it read
LengthLocals(stream, palette, part, length) ==
    [stream |-> stream, palette |-> palette, part |-> part, length |-> length]

\* The rest of _decodeBasic: no data, raw data or compressed data
BasicData(stream, palette) ==
    LET size == rect.h * RowSize(palette)
    IN  CASE size = 0 -> TightPaste(<<>>)
          [] size \in 1..MIN_TO_COMPRESS - 1 -> Park("tight.data", size, [palette |-> palette])
          [] OTHER -> Park("tight.length", 1, LengthLocals(stream, palette, 0, 0))

\* The streams a compression control leaves: it resets some, Fill and JPEG too
Restart_Basic ==   \* mutant: only a basic rectangle resets
    [s \in Streams |-> IF s \in Block.resets /\ Block.kind = "basic" THEN 0 ELSE streams[s]]
Restart == [s \in Streams |-> IF s \in Block.resets THEN 0 ELSE streams[s]]

TightControl ==
    /\ Resumed("tight")
    /\ streams' = Restart
    /\ CASE Block.kind = "fill" -> Park("tight.fill", T, <<>>)
         [] Block.kind = "jpeg" /\ rect.w <= MAX_WIDTH /\ jpeg_offered ->
              Park("tight.length", 1, LengthLocals(JPEG, <<>>, 0, 0))
         [] Block.kind = "basic" /\ rect.w <= MAX_WIDTH ->
              IF Block.explicit THEN Park("tight.filter", 1, [stream |-> Block.stream])
              ELSE BasicData(Block.stream, <<>>)
         [] OTHER -> Refuse        \* too wide, JPEG not offered, or no kind that is defined
    /\ Elsewhere

TightFill == /\ Resumed("tight.fill")
             /\ TightPaste([i \in 0..rect.w * rect.h - 1 |-> Block])
             /\ UNCHANGED streams /\ Elsewhere

TightFilter ==
    /\ Resumed("tight.filter")
    /\ CASE Block = "copy"    -> BasicData(g.my.stream, <<>>)
         [] Block = "palette" -> Park("tight.palettesize", 1, [stream |-> g.my.stream])
         [] OTHER -> Refuse            \* the gradient filter, and those not defined
    /\ UNCHANGED streams /\ Elsewhere

TightPaletteSize ==    \* the byte is the palette's size less one
    /\ Resumed("tight.palettesize")
    /\ Park("tight.palette", (Block + 1) * T, [stream |-> g.my.stream])
    /\ UNCHANGED streams /\ Elsewhere

TightPalette == /\ Resumed("tight.palette") /\ BasicData(g.my.stream, Block)
                /\ UNCHANGED streams /\ Elsewhere

\* _compactLength: 7 bits of each byte, 8 of the third
CompactLength ==
    /\ Resumed("tight.length")
    /\ LET bits   == IF g.my.part = 2 THEN Block ELSE Block % 128
           length == g.my.length + bits * <<1, 128, 16384>>[g.my.part + 1]
           locals == LengthLocals(g.my.stream, g.my.palette, g.my.part + 1, length)
       IN  IF g.my.part < 2 /\ Block >= 128 THEN Park("tight.length", 1, locals)
           ELSE Park(IF g.my.stream = JPEG THEN "tight.jpeg" ELSE "tight.zlib", length, locals)
    /\ UNCHANGED streams /\ Elsewhere

TightData == /\ Resumed("tight.data") /\ Unpalette(Block, g.my.palette)
             /\ UNCHANGED streams /\ Elsewhere

\* _decompress: `more` is how far the block misses the size declared
TightZlib ==
    /\ Resumed("tight.zlib")
    /\ IF Block.after # streams[g.my.stream] \/ Block.more # 0
       THEN Refuse /\ UNCHANGED streams
       ELSE /\ streams' = [streams EXCEPT ![g.my.stream] = @ + 1]
            /\ Unpalette(Block.data, g.my.palette)
    /\ Elsewhere

\* _decodeJpeg: it decodes, and is as large as the rectangle
TightJpeg ==
    /\ Resumed("tight.jpeg")
    /\ IF ~Block.decodes \/ <<Block.w, Block.h>> # <<rect.w, rect.h>> THEN Refuse
       ELSE Paste(Block.data, <<"R", "G", "B">>, TPIXEL_FORMAT)
    /\ UNCHANGED streams /\ Elsewhere

-------------------------------------------------------------------------------
\* ZRLE.

ZRLELength == /\ Resumed("zrle") /\ Park("zrle.block", Block, [buf |-> g.my.buf])
              /\ UNCHANGED streams /\ Elsewhere

ZRLEBlock ==
    /\ Resumed("zrle.block")
    /\ LET z == ZRLERectangle(Block.data, CpixelBytes(pixel_format), g.my.buf)
       IN  IF Block.after # streams[ZRLE] \/ ~z.ok
           THEN Refuse /\ UNCHANGED streams
           ELSE /\ streams' = [streams EXCEPT ![ZRLE] = @ + 1]
                /\ PasteBuffer(z.buf, Expanded(WireCpixel(pixel_format), pixel_format))
    /\ Elsewhere
===============================================================================
