----------------------------- MODULE PixelFormats -----------------------------
(***************************************************************************)
(* pixelformat.py: which layouts of a pixel the client can read, and how   *)
(* wide a pixel is in the encodings that shorten it (CPIXEL in ZRLE,       *)
(* TPIXEL in Tight).                                                       *)
(*                                                                         *)
(* A format gives the width and the shift of red, green and blue in bits.  *)
(* A layout is what the bytes of one pixel hold, in the order they come:   *)
(* "R", "G", "B", or "X" for a byte that carries no colour.  A channel of  *)
(* a 16-bit pixel is no whole byte, so there the layout names the halves.  *)
(***************************************************************************)
EXTENDS Naturals, Sequences

Channel == <<"R", "G", "B">>

Bypp(pf) == (7 + pf.bpp) \div 8

\* _byte_positions, and the mode string raw_mode joins from it
BytePosition(pf, c) == LET low == pf.shift[c] \div 8
                       IN  IF pf.bigendian THEN Bypp(pf) - 1 - low ELSE low
ByteAligned(pf) == /\ \A c \in 1..3 : pf.shift[c] % 8 = 0
                   /\ \A c, d \in 1..3 : pf.shift[c] = pf.shift[d] => c = d
Mode(pf) == [i \in 1..Bypp(pf) |->
                IF \E c \in 1..3 : BytePosition(pf, c) = i - 1
                THEN Channel[CHOOSE c \in 1..3 : BytePosition(pf, c) = i - 1]
                ELSE "X"]

Modes32 == {<<"R", "G", "B", "X">>, <<"B", "G", "R", "X">>,
            <<"X", "R", "G", "B">>, <<"X", "B", "G", "R">>}
Modes24 == {<<"R", "G", "B">>, <<"B", "G", "R">>}
Modes16 == {<<<<5, 6, 5>>, <<11, 5, 0>>>>, <<<<5, 6, 5>>, <<0, 5, 11>>>>,
            <<<<5, 5, 5>>, <<10, 5, 0>>>>, <<<<5, 5, 5>>, <<0, 5, 10>>>>,
            <<<<4, 4, 4>>, <<0, 4, 8>>>>}
Halves  == <<"low", "high">>

\* raw_mode: the layout Pillow is told to read, <<>> for UnsupportedPixelFormat
RawMode(pf) ==
    LET bytes == pf.bpp \in {24, 32} /\ pf.width = <<8, 8, 8>> /\ ByteAligned(pf)
    IN  CASE ~pf.truecolor -> <<>>
          [] pf.truecolor /\ bytes /\ Mode(pf) \in Modes32 \cup Modes24 -> Mode(pf)
          [] /\ pf.truecolor /\ pf.bpp = 16 /\ ~pf.bigendian
             /\ <<pf.width, pf.shift>> \in Modes16 -> Halves
          [] OTHER -> <<>>

TPIXEL_FORMAT == [bpp |-> 24, depth |-> 24, bigendian |-> FALSE, truecolor |-> TRUE,
                  width |-> <<8, 8, 8>>, shift |-> <<0, 8, 16>>]
RGBX8888 == [TPIXEL_FORMAT EXCEPT !.bpp = 32]
BGRX8888 == [RGBX8888 EXCEPT !.shift = <<16, 8, 0>>]
RGB565   == [RGBX8888 EXCEPT !.bpp = 16, !.depth = 16, !.width = <<5, 6, 5>>,
                             !.shift = <<11, 5, 0>>]
PIXEL_FORMATS == {BGRX8888, RGBX8888, RGB565}

\* setImageMode: the format of the connection, from what the server announced
\* and the user asked for (NotAsked, in the tuple's place, is None)
NotAsked == <<>>
ImageFormat(announced, requested) ==
    CASE requested # NotAsked -> requested
      [] requested = NotAsked /\ RawMode(announced) # <<>> -> announced
      [] OTHER -> RGBX8888

\* _cpixel_placement, cpixel_bytes, cpixel_offset
FitsLow(pf)  == \A c \in 1..3 : pf.shift[c] + pf.width[c] <= 24
FitsHigh(pf) == \A c \in 1..3 : pf.shift[c] >= 8
CpixelBytes(pf) == IF pf.truecolor /\ pf.bpp = 32 /\ (FitsLow(pf) \/ FitsHigh(pf))
                   THEN 3 ELSE Bypp(pf)
\* mutant: the offset of a format in little-endian order, for all of them
CpixelOffset_Little(pf) == IF FitsLow(pf) THEN 0 ELSE Bypp(pf) - CpixelBytes(pf)
CpixelOffset(pf) == IF CpixelBytes(pf) # 3 \/ FitsLow(pf) # pf.bigendian
                    THEN 0 ELSE Bypp(pf) - 3

TpixelBytes(pf) == IF /\ pf.truecolor /\ pf.bpp = 32 /\ pf.depth = 24
                      /\ pf.width = <<8, 8, 8>>
                   THEN 3 ELSE Bypp(pf)

\* _expand_cpixels: the layout of a CPIXEL widened to a PIXEL
Expanded(layout, pf) ==
    IF Len(layout) = Bypp(pf) THEN layout
    ELSE [i \in 1..Bypp(pf) |-> IF i - CpixelOffset(pf) \in 1..Len(layout)
                                THEN layout[i - CpixelOffset(pf)] ELSE "X"]

\* What a server writes (external).  The bytes of a pixel, least significant
\* first; a CPIXEL leaves out the one that holds no colour, the most
\* significant if it can, whatever the depth; then all of them in the byte
\* order of the format.
Spare(pf) == {k \in {0, 3} : \A c \in 1..3 : \A bit \in pf.shift[c]..pf.shift[c] + pf.width[c] - 1 :
                                bit \div 8 # k}
Holds(pf, k) == IF \E c \in 1..3 : pf.shift[c] = 8 * k
                THEN Channel[CHOOSE c \in 1..3 : pf.shift[c] = 8 * k] ELSE "X"
InOrder(pf, layout) ==
    IF pf.bigendian THEN [i \in DOMAIN layout |-> layout[Len(layout) + 1 - i]] ELSE layout
WirePixel(pf) == IF pf.bpp = 16 THEN Halves
                 ELSE InOrder(pf, [i \in 1..Bypp(pf) |-> Holds(pf, i - 1)])
WireCpixel(pf) ==
    CASE pf.bpp = 32 /\ 3 \in Spare(pf)  -> InOrder(pf, [i \in 1..3 |-> Holds(pf, i - 1)])
      [] pf.bpp = 32 /\ Spare(pf) = {0}  -> InOrder(pf, [i \in 1..3 |-> Holds(pf, i)])
      [] OTHER -> WirePixel(pf)
WireTpixel(pf) == IF pf.bpp = 32 /\ pf.depth = 24 /\ pf.width = <<8, 8, 8>>
                  THEN <<"R", "G", "B">> ELSE WirePixel(pf)
===============================================================================
