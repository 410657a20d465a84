------------------------------ MODULE ZRLETiles ------------------------------
(***************************************************************************)
(* decoders/zrle.py: the tile data of one ZRLE rectangle, once inflated,   *)
(* turned into pixels; and the tiles a server may write (external).        *)
(*                                                                         *)
(* `data` is the sequence of bytes, `pos` how many have been read.  A      *)
(* CPIXEL of colour k is that many bytes k, so that one read at the wrong  *)
(* place or width shows as Garbled.  LongRun stands for 255, the byte of a *)
(* run length that says another byte follows: tiles are small here.        *)
(***************************************************************************)
EXTENDS RectBuffer, PixelFormats, SequencesExt, FiniteSetsExt

CONSTANTS
    ZTile,        \* TILE of zrle.py
    LongRun,      \* the run length byte that says another follows
    Palettes      \* the sizes of palette servers write

Colours == 1..2            \* the colours servers paint with
Garbled == 99
ASSUME ZRLEAssumption == /\ ZTile \in Nat \ {0} /\ LongRun \in 1..255
                         /\ Palettes \subseteq 2..16

\* The tiles of a rectangle in the order both tilings go through them
TilesOf(w, h, size) ==
    LET across == (w + size - 1) \div size
        down   == (h + size - 1) \div size
        tile(k) == LET x == ((k - 1) % across) * size
                       y == ((k - 1) \div across) * size
                   IN  [x |-> x, y |-> y, w |-> IF size < w - x THEN size ELSE w - x,
                        h |-> IF size < h - y THEN size ELSE h - y]
    IN  [k \in 1..across * down |-> tile(k)]

Short == [ok |-> FALSE]           \* any DecodeError

Cpixel(data, pos, c) == IF \A k \in 1..c : data[pos + k] = data[pos + 1]
                        THEN data[pos + 1] ELSE Garbled
\* `count` CPIXELs, numbered from 0
Cpixels(data, pos, c, count) == [i \in 0..count - 1 |-> Cpixel(data, pos + i * c, c)]

\* The run length loop
RunLength(data, pos) ==
    LET from[p \in Nat] ==
            IF p >= Len(data) THEN Short
            ELSE IF data[p + 1] # LongRun
                 THEN [ok |-> TRUE, run |-> data[p + 1], pos |-> p + 1]
                 ELSE LET rest == from[p + 1]
                      IN  IF rest.ok THEN [rest EXCEPT !.run = @ + LongRun] ELSE Short
    IN  from[pos]

\* The run loop: plain RLE when there is no palette, and palette RLE
Runs(data, start, palette, c, count) ==
    LET plain    == palette = <<>>
        read(p)  == p + IF plain THEN c ELSE 1
        entry(p) == data[p + 1] % 128
        run(p)   == IF plain \/ data[p + 1] >= 128 THEN RunLength(data, read(p))
                    ELSE [ok |-> TRUE, run |-> 0, pos |-> read(p)]
        pixel(p) == IF plain THEN Cpixel(data, p, c) ELSE palette[entry(p)]
        from[p \in Nat, px \in Seq(Nat)] ==
            IF Len(px) >= count THEN [ok |-> Len(px) = count, pos |-> p, px |-> px]
            ELSE IF \/ read(p) > Len(data)
                    \/ ~plain /\ entry(p) \notin DOMAIN palette
                    \/ ~run(p).ok
            THEN Short
            ELSE from[run(p).pos, px \o [k \in 1..run(p).run + 1 |-> pixel(p)]]
    IN  from[start, <<>>]

\* Packed palette indices: a row begins on a byte of its own
Bits(size) == CASE size = 2 -> 1 [] size \in 3..4 -> 2 [] OTHER -> 4
IndexIn(byte, bits, slot) == (byte \div 2^(8 - bits - slot * bits)) % 2^bits
Packed(data, pos, palette, size, tw, th) ==
    LET bits == Bits(size)
        each == 8 \div bits
        row  == (tw + each - 1) \div each
        index(i) == IndexIn(data[pos + (i \div tw) * row + (i % tw) \div each + 1],
                            bits, (i % tw) % each)
    IN  IF pos + row * th > Len(data) THEN Short
        ELSE IF \E i \in 0..tw * th - 1 : index(i) >= size THEN Short
        ELSE [ok |-> TRUE, pos |-> pos + row * th,
              px |-> [i \in 0..tw * th - 1 |-> palette[index(i)]]]

\* One tile: z is [ok, pos, buf], what the tiles before it came to
ZRLETile(data, c, z, t) ==
    LET sub    == data[z.pos + 1]
        size   == sub % 128
        area   == t.w * t.h
        start  == z.pos + 1 + size * c
        palette == IF size = 0 THEN <<>> ELSE Cpixels(data, z.pos + 1, c, size)
        runs   == Runs(data, start, palette, c, area)
        packed == Packed(data, start, palette, size, t.w, t.h)
        done(pos, px) == [ok |-> TRUE, pos |-> pos,
                          buf |-> Blit(z.buf, t.x, t.y, t.w, t.h, px)]
    IN  IF ~z.ok \/ z.pos >= Len(data) THEN Short
        ELSE IF sub \in 17..127 \/ start > Len(data) THEN Short
        ELSE CASE sub >= 128 -> IF ~runs.ok THEN Short
                                ELSE done(runs.pos, [i \in 0..area - 1 |-> runs.px[i + 1]])
               [] sub = 0    -> IF start + area * c > Len(data) THEN Short
                                ELSE done(start + area * c, Cpixels(data, start, c, area))
               [] sub = 1    -> [ok |-> TRUE, pos |-> start,
                                 buf |-> Fill(z.buf, t.x, t.y, t.w, t.h, palette[0])]
               [] sub \in 2..16 -> IF packed.ok THEN done(packed.pos, packed.px) ELSE Short

\* The tiles of a rectangle use up its data exactly
ZRLERectangle(data, c, buf) ==
    LET z == FoldLeft(LAMBDA before, t : ZRLETile(data, c, before, t),
                      [ok |-> TRUE, pos |-> 0, buf |-> buf],
                      TilesOf(buf.width, buf.height, ZTile))
    IN  IF z.ok /\ z.pos # Len(data) THEN Short ELSE z

-------------------------------------------------------------------------------
\* What a server may write for a tile (external).

\* Pictures of n pixels, by rows: one colour, or one pixel of another colour
Flat(n, colour) == [i \in 0..n - 1 |-> colour]
Pictures(n) == {Flat(n, 1), Flat(n, 2)} \cup {[Flat(n, 1) EXCEPT ![q] = 2] : q \in 0..n - 1}

Times(n, v) == [k \in 1..n |-> v]
Entries(k)  == [i \in 0..k - 1 |-> IF i % 2 = 0 THEN 1 ELSE 2]
EntryOf(k, colour) == IF k = 1 THEN 0 ELSE colour - 1
Wide(k, c)  == FlattenSeq([i \in 1..k |-> Times(c, Entries(k)[i - 1])])

\* The runs of one colour in a picture: where each starts, and how long it is
RunsOf(im) ==
    LET n == Cardinality(DOMAIN im)
        starts == SetToSortSeq({i \in DOMAIN im : i = 0 \/ im[i] # im[i - 1]},
                               LAMBDA i, j : i < j)
    IN  [k \in DOMAIN starts |->
            [at |-> starts[k],
             len |-> (IF k = Len(starts) THEN n ELSE starts[k + 1]) - starts[k]]]
RunBytes(len) == Append(Times((len - 1) \div LongRun, LongRun), (len - 1) % LongRun)

\* Rows of indices packed into bytes, the unused bits of a row all `pad`
PackRows(index, bits, pad, tw, th) ==
    LET each == 8 \div bits
        row  == (tw + each - 1) \div each
        slot(r, k) == IF k < tw THEN index[r * tw + k] ELSE pad * (2^bits - 1)
        byte(r, b) == MapThenSumSet(LAMBDA s : slot(r, b * each + s) * 2^(8 - bits - s * bits),
                                    0..each - 1)
    IN  [i \in 1..row * th |-> byte((i - 1) \div row, (i - 1) % row)]

PackedTile(im, k, c, pad, index, t) ==
    <<k>> \o Wide(k, c) \o PackRows(index, Bits(k), pad, t.w, t.h)
RawTile(im, c)   == <<0>> \o FlattenSeq([i \in 1..Cardinality(DOMAIN im) |-> Times(c, im[i - 1])])
PlainRuns(im, c) == <<128>> \o FlattenSeq([k \in DOMAIN RunsOf(im) |->
                        Times(c, im[RunsOf(im)[k].at]) \o RunBytes(RunsOf(im)[k].len)])
\* `short`: a run of one pixel as a bare index; `k` entries, or an index past them
PaletteRuns(im, k, c, short, past) ==
    <<128 + k>> \o Wide(k, c) \o FlattenSeq([j \in DOMAIN RunsOf(im) |->
        LET r == RunsOf(im)[j]
            e == IF past THEN k ELSE EntryOf(k, im[r.at])
        IN  IF short /\ r.len = 1 THEN <<e>> ELSE <<128 + e>> \o RunBytes(r.len)])

\* [bytes, im, bad]: bad when no client may accept them
ServerTiles(t, c) ==
    LET n == t.w * t.h
        ok(bytes, im)  == [bytes |-> bytes, im |-> im, bad |-> FALSE]
        ill(bytes, im) == [bytes |-> bytes, im |-> im, bad |-> TRUE]
        index(im, k)   == [i \in DOMAIN im |-> EntryOf(k, im[i])]
        one == Flat(n, 1)
    IN  {ok(RawTile(im, c), im) : im \in Pictures(n)}
        \cup {ok(<<1>> \o Times(c, a), Flat(n, a)) : a \in Colours}
        \cup {ok(PackedTile(im, k, c, pad, index(im, k), t), im) :
                 im \in Pictures(n), k \in Palettes, pad \in 0..1}
        \cup {ok(PlainRuns(im, c), im) : im \in Pictures(n)}
        \cup {ok(PaletteRuns(im, k, c, short, FALSE), im) :
                 im \in Pictures(n), k \in {2, 3}, short \in BOOLEAN}
        \cup {ok(PaletteRuns(one, 1, c, FALSE, FALSE), one)}
        \cup {ill(PackedTile(one, 3, c, 0, [i \in 0..n - 1 |-> IF i = q THEN 3 ELSE 0], t), one) :
                 q \in 0..n - 1}
        \cup {ill(PaletteRuns(one, 2, c, TRUE, TRUE), one)}
        \cup {ill(<<128>> \o Times(c, 1) \o RunBytes(n + 1), one)}
        \cup {ill(<<17>> \o Wide(17, c) \o PackRows(one, 4, 0, t.w, t.h), one)}
===============================================================================
