--------------------------- MODULE RectangleProofs ---------------------------
(***************************************************************************)
(* Two things about the rectangle decoders, for every size of rectangle.   *)
(*                                                                         *)
(* What the rectangle buffer does to pixels, with any backing and any      *)
(* area: a fill and a blit change the pixels of their area and no other,   *)
(* though the backing is one long row that other rectangles have used.     *)
(* The argument is that an offset belongs to one pixel only (OnePixel), so *)
(* a row of the area covers the offsets of its own pixels (RowOfArea).     *)
(*                                                                         *)
(* And that a decoder and the server stay in step (InStep): the field a    *)
(* decoder waits for is the next on the wire, as long as the decoder       *)
(* expects.  That is not inductive: a wrong length shows fields later.     *)
(* StreamInvariant says, for each place where a decoder can be parked,     *)
(* what the whole rest of the wire is, as a function of the decoder's      *)
(* local variables and the fields themselves: a language of what may       *)
(* follow.  Each step of a decoder takes its first field and leaves a word *)
(* of the next place's language; each step of the server writes one.       *)
(***************************************************************************)
EXTENDS RectangleStream, TLAPS

-------------------------------------------------------------------------------
\* The rectangle buffer

\* A buffer over a backing of at least its size; a held blit fills all of it
Buffer(b, V) ==
    /\ b = [width |-> b.width, height |-> b.height, backing |-> b.backing,
            whole |-> b.whole, covered |-> b.covered]
    /\ b.width \in Nat /\ b.height \in Nat /\ b.covered \in BOOLEAN
    /\ DOMAIN b.backing \subseteq Nat /\ b.backing \in [DOMAIN b.backing -> V]
    /\ 0..b.width * b.height - 1 \subseteq DOMAIN b.backing
    /\ \/ b.whole = <<>>
       \/ b.covered /\ \E f \in [0..b.width * b.height - 1 -> V] : b.whole = <<f>>

Offset(b, x, y)   == y * b.width + x
PixelAt(b, x, y)  == ToBytes(b)[Offset(b, x, y)]
InArea(x, y, w, h, px, py) == px \in x..x + w - 1 /\ py \in y..y + h - 1

\* Buffer c has the size of b, and the pixels of b, with what was never painted
\* blank in the second, and with an area of it painted in the third
SamePixels(b, c) ==
    /\ c.width = b.width /\ c.height = b.height
    /\ \A px \in 0..b.width - 1, py \in 0..b.height - 1 :
            PixelAt(c, px, py) = PixelAt(b, px, py)
Blanked(b, c) ==
    /\ c.width = b.width /\ c.height = b.height
    /\ \A px \in 0..b.width - 1, py \in 0..b.height - 1 :
            PixelAt(c, px, py) = IF b.covered THEN PixelAt(b, px, py) ELSE Blank
Painted(b, c, x, y, w, h, pixels) ==
    /\ c.width = b.width /\ c.height = b.height
    /\ \A px \in 0..b.width - 1, py \in 0..b.height - 1 :
            PixelAt(c, px, py) = IF InArea(x, y, w, h, px, py)
                                 THEN pixels[(py - y) * w + (px - x)]
                                 ELSE PixelAt(b, px, py)

\* Products grow with their factors; the solver needs to be told.
LEMMA Growing == ASSUME NEW W \in Nat, NEW m \in Nat, NEW n \in Nat, m < n
                 PROVE  m * W + W <= n * W
<1>1. n = (m + 1) + (n - m - 1) /\ n - m - 1 \in Nat OBVIOUS
<1>2. n * W = (m * W + W) + (n - m - 1) * W BY <1>1
<1>3. (n - m - 1) * W \in Nat BY <1>1
<1>4. m * W \in Nat OBVIOUS
<1> QED BY <1>2, <1>3, <1>4

\* No two pixels of a buffer share an offset: `(y + row) * stride + x_off`
\* (buffer.py, blit and fill) never reaches into another row.
LEMMA OnePixel == ASSUME NEW W \in Nat, NEW x1 \in 0..W - 1, NEW x2 \in 0..W - 1,
                         NEW y1 \in Nat, NEW y2 \in Nat, y1 * W + x1 = y2 * W + x2
                  PROVE  x1 = x2 /\ y1 = y2
<1>0. y1 * W \in Nat /\ y2 * W \in Nat OBVIOUS
<1>1. CASE y1 < y2
  <2>1. y1 * W + W <= y2 * W BY <1>1, Growing
  <2> QED BY <2>1, <1>0
<1>2. CASE y2 < y1
  <2>1. y2 * W + W <= y1 * W BY <1>2, Growing
  <2> QED BY <2>1, <1>0
<1>3. CASE y1 = y2 BY <1>3, <1>0
<1> QED BY <1>1, <1>2, <1>3

\* A pixel of the buffer has an offset inside its bytes.
LEMMA OffsetInside == ASSUME NEW W \in Nat, NEW H \in Nat, NEW x \in 0..W - 1, NEW y \in 0..H - 1
                      PROVE  y * W + x \in 0..W * H - 1
<1>1. y * W + W <= H * W BY Growing
<1>2. y * W \in Nat /\ H * W = W * H OBVIOUS
<1> QED BY <1>1, <1>2

\* Row r of an area within the buffer covers the offsets of its own pixels.
LEMMA RowOfArea ==
    ASSUME NEW b, b.width \in Nat, NEW x \in Nat, NEW y \in Nat, NEW w \in Nat, NEW r \in Nat,
           x + w <= b.width, NEW px \in 0..b.width - 1, NEW py \in Nat
    PROVE  InRow(b, x, y, w, r, Offset(b, px, py)) <=> py = y + r /\ px \in x..x + w - 1
<1> DEFINE W == b.width
           k == y + r
<1>0. k * W \in Nat /\ py * W \in Nat /\ k \in Nat /\ W \in Nat OBVIOUS
<1>1. InRow(b, x, y, w, r, Offset(b, px, py)) <=>
        k * W + x <= py * W + px /\ py * W + px < k * W + x + w
  BY DEF InRow, RowAt, Offset
<1>2. CASE py < k
  <2>1. py * W + W <= k * W BY <1>2, <1>0, Growing
  <2> QED BY <2>1, <1>2, <1>1, <1>0
<1>3. CASE k < py
  <2>1. k * W + W <= py * W BY <1>3, <1>0, Growing
  <2> QED BY <2>1, <1>3, <1>1, <1>0
<1>4. CASE py = k BY <1>4, <1>1, <1>0
<1> QED BY <1>2, <1>3, <1>4, <1>0

\* A pixel of a buffer is one of its bytes, and its backing holds them all.
LEMMA PixelIsBacked ==
    ASSUME NEW V, NEW b, Buffer(b, V),
           NEW px \in 0..b.width - 1, NEW py \in 0..b.height - 1
    PROVE  /\ b.width * b.height \in Nat
           /\ Offset(b, px, py) \in 0..b.width * b.height - 1
           /\ Offset(b, px, py) \in DOMAIN b.backing
<1> DEFINE W == b.width
           H == b.height
<1>1. W \in Nat /\ H \in Nat /\ 0..W * H - 1 \subseteq DOMAIN b.backing BY DEF Buffer
<1>2. px \in 0..W - 1 /\ py \in 0..H - 1 OBVIOUS
<1>3. py * W + px \in 0..W * H - 1
  <2> HIDE DEF W, H
  <2> QED BY <1>1, <1>2, OffsetInside
<1>4. W * H \in Nat BY <1>1
<1> QED BY <1>1, <1>3, <1>4 DEF Offset

\* The buffer a rectangle gets over the connection's backing is a buffer with
\* nothing painted yet, whatever the rectangle before left in the backing.
LEMMA OpenIsABuffer ==
    ASSUME NEW V, NEW w \in Nat, NEW h \in Nat, NEW n \in Nat, w * h <= n,
           NEW bytes \in [0..n - 1 -> V]
    PROVE  Buffer(Open(w, h, bytes), V)
<1>1. w * h \in Nat OBVIOUS
<1>2. 0..w * h - 1 \subseteq 0..n - 1 BY <1>1
<1> QED BY <1>2 DEF Open, Buffer

\* _materialize changes where the pixels are held and no pixel.
LEMMA MaterializeKeepsPixels ==
    ASSUME NEW V, NEW b, Buffer(b, V), NEW c, c = Materialize(b)
    PROVE  /\ Buffer(c, V) /\ c.whole = <<>> /\ c.covered = b.covered
           /\ SamePixels(b, c)
<1>1. CASE b.whole = <<>>
  <2>1. c = b BY <1>1 DEF Materialize
  <2> QED BY <2>1, <1>1 DEF SamePixels
<1>2. CASE b.whole # <<>>
  <2>1. PICK f \in [0..b.width * b.height - 1 -> V] : b.whole = <<f>> BY <1>2 DEF Buffer
  <2>2. b.whole[1] = f BY <2>1
  <2> DEFINE new == [i \in DOMAIN b.backing |->
                        IF i < b.width * b.height THEN f[i] ELSE b.backing[i]]
  <2>3. c = [width |-> b.width, height |-> b.height, backing |-> new,
             whole |-> <<>>, covered |-> b.covered]
    BY <1>2, <2>2 DEF Materialize, Nbytes, Buffer
  <2>4. new \in [DOMAIN b.backing -> V]
    <3> SUFFICES ASSUME NEW i \in DOMAIN b.backing
                 PROVE  (IF i < b.width * b.height THEN f[i] ELSE b.backing[i]) \in V
      OBVIOUS
    <3>1. i \in Nat /\ b.width * b.height \in Nat /\ b.backing[i] \in V BY DEF Buffer
    <3> QED BY <3>1
  <2>5. Buffer(c, V) BY <2>3, <2>4 DEF Buffer
  <2>6. ASSUME NEW px \in 0..b.width - 1, NEW py \in 0..b.height - 1
        PROVE  PixelAt(c, px, py) = PixelAt(b, px, py)
    <3> DEFINE i == py * b.width + px
    <3>1. i \in 0..b.width * b.height - 1 /\ b.width * b.height \in Nat
      BY PixelIsBacked DEF Offset
    <3>2. i \in DOMAIN b.backing BY PixelIsBacked DEF Offset
    <3>3. PixelAt(b, px, py) = f[i] BY <1>2, <2>2 DEF PixelAt, ToBytes, Offset
    <3>4. PixelAt(c, px, py) = new[i]
      BY <2>3, <3>1 DEF PixelAt, ToBytes, Offset, Nbytes
    <3>5. new[i] = f[i] BY <3>1, <3>2
    <3> QED BY <3>3, <3>4, <3>5
  <2> QED BY <2>3, <2>5, <2>6 DEF SamePixels
<1> QED BY <1>1, <1>2

\* _clear: nothing of an earlier rectangle is left in a buffer painted in part.
LEMMA ClearBlanks ==
    ASSUME NEW V, Blank \in V, NEW b, Buffer(b, V), b.whole = <<>>, NEW c, c = Clear(b)
    PROVE  Buffer(c, V) /\ c.whole = <<>> /\ Blanked(b, c)
<1>0. b.covered \in BOOLEAN BY DEF Buffer
<1>1. CASE b.covered
  <2>1. c = b BY <1>1 DEF Clear
  <2> QED BY <2>1, <1>1 DEF Blanked
<1>2. CASE ~b.covered
  <2> DEFINE new == [i \in DOMAIN b.backing |->
                        IF i < b.width * b.height THEN Blank ELSE b.backing[i]]
  <2>1. c = [width |-> b.width, height |-> b.height, backing |-> new,
             whole |-> <<>>, covered |-> TRUE]
    BY <1>2 DEF Clear, Nbytes, Buffer
  <2>2. new \in [DOMAIN b.backing -> V]
    <3> SUFFICES ASSUME NEW i \in DOMAIN b.backing
                 PROVE  (IF i < b.width * b.height THEN Blank ELSE b.backing[i]) \in V
      OBVIOUS
    <3>1. b.backing[i] \in V BY DEF Buffer
    <3> QED BY <3>1
  <2>3. Buffer(c, V) BY <2>1, <2>2 DEF Buffer
  <2>4. ASSUME NEW px \in 0..b.width - 1, NEW py \in 0..b.height - 1
        PROVE  PixelAt(c, px, py) = IF b.covered THEN PixelAt(b, px, py) ELSE Blank
    <3> DEFINE i == py * b.width + px
    <3>1. /\ i \in 0..b.width * b.height - 1 /\ b.width * b.height \in Nat
          /\ i \in DOMAIN b.backing
      BY PixelIsBacked DEF Offset
    <3>2. PixelAt(c, px, py) = new[i]
      <4> HIDE DEF new
      <4> QED BY <2>1, <3>1 DEF PixelAt, ToBytes, Offset, Nbytes
    <3>3. new[i] = Blank BY <3>1
    <3> QED BY <3>2, <3>3, <1>2
  <2>5. c.whole = <<>> /\ c.width = b.width /\ c.height = b.height BY <2>1
  <2> QED BY <2>3, <2>4, <2>5, Zenon DEF Blanked
<1> QED BY <1>0, <1>1, <1>2

\* Pixel (px, py) of a w by h area at (x, y) is one of the area's pixels.
LEMMA PixelOfArea ==
    ASSUME NEW x \in Nat, NEW y \in Nat, NEW w \in Nat, NEW h \in Nat,
           NEW px \in x..x + w - 1, NEW r \in 0..h - 1
    PROVE  r * w + (px - x) \in 0..w * h - 1
<1>1. px - x \in 0..w - 1 OBVIOUS
<1> QED BY <1>1, OffsetInside

\* The loop over rows writes the pixels of its area, each where it belongs, and
\* no pixel outside it.
LEMMA PaintsItsArea ==
    ASSUME NEW V, NEW b, Buffer(b, V), b.whole = <<>>,
           NEW x \in Nat, NEW y \in Nat, NEW w \in Nat, NEW h \in Nat,
           InBounds(b, x, y, w, h), NEW pixels \in [0..w * h - 1 -> V],
           NEW c, c = Paint(b, x, y, w, h, pixels)
    PROVE  Buffer(c, V) /\ c.whole = <<>> /\ Painted(b, c, x, y, w, h, pixels)
<1> DEFINE Hit(i) == \E r \in 0..h - 1 : InRow(b, x, y, w, r, i)
           Row(i) == CHOOSE r \in 0..h - 1 : InRow(b, x, y, w, r, i)
           new == [i \in DOMAIN b.backing |->
                     IF Hit(i) THEN pixels[Row(i) * w + (i - RowAt(b, x, y, Row(i)))]
                     ELSE b.backing[i]]
<1>0. /\ b.width \in Nat /\ b.height \in Nat /\ DOMAIN b.backing \subseteq Nat
      /\ b.backing \in [DOMAIN b.backing -> V] /\ x + w <= b.width
  BY DEF Buffer, InBounds
<1>1. c = [width |-> b.width, height |-> b.height, backing |-> new,
           whole |-> <<>>, covered |-> b.covered]
  <2>1. c = [b EXCEPT !.backing = new] BY Zenon DEF Paint
  <2> HIDE DEF new
  <2> QED BY <2>1 DEF Buffer
<1>2. ASSUME NEW i \in Nat, Hit(i)
      PROVE  /\ Row(i) \in 0..h - 1 /\ InRow(b, x, y, w, Row(i), i)
             /\ Row(i) * w + (i - RowAt(b, x, y, Row(i))) \in 0..w * h - 1
  <2>1. Row(i) \in 0..h - 1 /\ InRow(b, x, y, w, Row(i), i) BY <1>2
  <2> DEFINE r == Row(i)
             s == RowAt(b, x, y, r)
  <2> HIDE DEF r
  <2>2. r \in 0..h - 1 /\ s <= i /\ i < s + w BY <2>1 DEF InRow, r
  <2>3. s \in Nat
    <3> DEFINE k == y + r
           W == b.width
    <3>1. k \in Nat /\ W \in Nat BY <2>2, <1>0
    <3>2. k * W \in Nat
      <4> HIDE DEF k, W
      <4> QED BY <3>1
    <3> QED BY <3>2 DEF RowAt
  <2> HIDE DEF s
  <2> DEFINE q == x + (i - s)
  <2>4. q \in x..x + w - 1 /\ q - x = i - s BY <2>2, <2>3
  <2> HIDE DEF q
  <2>5. r * w + (q - x) \in 0..w * h - 1 BY <2>2, <2>4, PixelOfArea
  <2>6. q - x = i - s BY <2>4
  <2>7. r * w + (i - s) \in 0..w * h - 1 BY <2>5, <2>6
  <2> QED BY <2>1, <2>7 DEF r, s
<1>3. new \in [DOMAIN b.backing -> V] BY <1>0, <1>2
<1>4. Buffer(c, V) BY <1>1, <1>3 DEF Buffer
<1>5. ASSUME NEW px \in 0..b.width - 1, NEW py \in 0..b.height - 1
      PROVE  PixelAt(c, px, py) =
                IF InArea(x, y, w, h, px, py) THEN pixels[(py - y) * w + (px - x)]
                                              ELSE PixelAt(b, px, py)
  <2> DEFINE i == py * b.width + px
  <2>1. /\ i \in 0..b.width * b.height - 1 /\ b.width * b.height \in Nat
        /\ i \in DOMAIN b.backing
    BY PixelIsBacked DEF Offset
  <2>2. PixelAt(c, px, py) = new[i] /\ PixelAt(b, px, py) = b.backing[i]
    BY <1>1, <2>1 DEF PixelAt, ToBytes, Offset, Nbytes
  <2>0. py \in Nat /\ px \in Nat BY <1>0
  <2>3. \A r \in 0..h - 1 : InRow(b, x, y, w, r, i) <=> py = y + r /\ px \in x..x + w - 1
    <3> TAKE r \in 0..h - 1
    <3>1. r \in Nat OBVIOUS
    <3>2. InRow(b, x, y, w, r, Offset(b, px, py)) <=> py = y + r /\ px \in x..x + w - 1
      BY <3>1, <2>0, <1>0, RowOfArea
    <3> QED BY <3>2 DEF Offset
  <2>4. CASE InArea(x, y, w, h, px, py)
    <3>1. py - y \in 0..h - 1 /\ py = y + (py - y) /\ px \in x..x + w - 1
      BY <2>4, <2>0 DEF InArea
    <3>2. Hit(i) BY <3>1, <2>3
    <3>3. Row(i) \in 0..h - 1 /\ InRow(b, x, y, w, Row(i), i) BY <3>2, <2>1, <1>2
    <3>4. py = y + Row(i) BY <3>3, <2>3
    <3>5. Row(i) = py - y
      <4> HIDE DEF Row
      <4> QED BY <3>4, <3>3, <2>0
    <3>6. RowAt(b, x, y, Row(i)) = py * b.width + x BY <3>4 DEF RowAt
    <3>7. i - RowAt(b, x, y, Row(i)) = px - x BY <3>6, <1>0
    <3>8. new[i] = pixels[(py - y) * w + (px - x)] BY <3>2, <3>5, <3>7, <2>1
    <3> QED BY <3>8, <2>2, <2>4
  <2>5. CASE ~InArea(x, y, w, h, px, py)
    <3>1. ~Hit(i)
      <4> SUFFICES ASSUME NEW r \in 0..h - 1, InRow(b, x, y, w, r, i) PROVE FALSE OBVIOUS
      <4>1. py = y + r /\ px \in x..x + w - 1 BY <2>3
      <4> QED BY <4>1, <2>5 DEF InArea
    <3>2. new[i] = b.backing[i] BY <3>1, <2>1
    <3> QED BY <3>2, <2>2, <2>5
  <2> QED BY <2>4, <2>5
<1>6. c.whole = <<>> /\ c.width = b.width /\ c.height = b.height BY <1>1
<1> QED BY <1>4, <1>5, <1>6, Zenon DEF Painted

\* fill: a solid tile changes the pixels of its own area and no other pixel of
\* the rectangle, and what it leaves of an unpainted buffer is blank, whatever
\* rectangle the backing served before (RectBuffer.fill, _clear, _materialize).
THEOREM FillPaintsItsArea ==
    ASSUME NEW V, Blank \in V, NEW b, Buffer(b, V),
           NEW x \in Nat, NEW y \in Nat, NEW w \in Nat, NEW h \in Nat,
           InBounds(b, x, y, w, h), NEW color \in V
    PROVE  LET c == Fill(b, x, y, w, h, color)
           IN  /\ Buffer(c, V)
               /\ \A px \in 0..b.width - 1, py \in 0..b.height - 1 :
                    PixelAt(c, px, py) =
                        IF InArea(x, y, w, h, px, py) THEN color
                        ELSE IF b.covered THEN PixelAt(b, px, py) ELSE Blank
<1> DEFINE m == Materialize(b)
           ready == IF Entire(b, x, y, w, h) THEN m ELSE Clear(m)
           rows == [k \in 0..w * h - 1 |-> color]
           d == Paint(ready, x, y, w, h, rows)
           c == Fill(b, x, y, w, h, color)
<1>0. b.covered \in BOOLEAN /\ b.width \in Nat /\ b.height \in Nat BY DEF Buffer
<1>1. c = [d EXCEPT !.covered = TRUE] BY Zenon DEF Fill
<1>2. Buffer(m, V) /\ m.whole = <<>> /\ m.covered = b.covered /\ SamePixels(b, m)
  BY MaterializeKeepsPixels
<1> HIDE DEF m, c
<1>3. /\ Buffer(ready, V) /\ ready.whole = <<>>
      /\ ready.width = b.width /\ ready.height = b.height
      /\ ~Entire(b, x, y, w, h) => Blanked(b, ready)
  <2>1. CASE Entire(b, x, y, w, h)
    <3>1. ready = m BY <2>1
    <3> QED BY <2>1, <3>1, <1>2 DEF SamePixels
  <2>2. CASE ~Entire(b, x, y, w, h)
    <3>1. ready = Clear(m) BY <2>2
    <3> HIDE DEF ready
    <3>2. Buffer(ready, V) /\ ready.whole = <<>> /\ Blanked(m, ready)
      BY <1>2, <3>1, ClearBlanks
    <3> QED BY <3>2, <1>2 DEF SamePixels, Blanked
  <2> QED BY <2>1, <2>2
<1> HIDE DEF ready
<1>4. rows \in [0..w * h - 1 -> V] OBVIOUS
<1>5. InBounds(ready, x, y, w, h) BY <1>3 DEF InBounds
<1> HIDE DEF rows
<1>6. Buffer(d, V) /\ d.whole = <<>> /\ Painted(ready, d, x, y, w, h, rows)
  BY <1>3, <1>4, <1>5, PaintsItsArea
<1> HIDE DEF d
<1>7. Buffer(c, V) /\ \A px, py : PixelAt(c, px, py) = PixelAt(d, px, py)
  <2>1. c = [width |-> d.width, height |-> d.height, backing |-> d.backing,
             whole |-> d.whole, covered |-> TRUE]
    BY <1>1, <1>6 DEF Buffer
  <2>2. Buffer(c, V) BY <2>1, <1>6 DEF Buffer
  <2>3. c.whole = <<>> /\ c.backing = d.backing /\ c.width = d.width /\ c.height = d.height
    BY <2>1, <1>6
  <2> QED BY <2>2, <2>3, <1>6 DEF PixelAt, ToBytes, Offset, Nbytes
<1>8. ASSUME NEW px \in 0..b.width - 1, NEW py \in 0..b.height - 1
      PROVE  PixelAt(c, px, py) =
                IF InArea(x, y, w, h, px, py) THEN color
                ELSE IF b.covered THEN PixelAt(b, px, py) ELSE Blank
  <2>0. px \in Nat /\ py \in Nat BY <1>0
  <2>1. CASE InArea(x, y, w, h, px, py)
    <3>1. px \in x..x + w - 1 /\ py - y \in 0..h - 1 BY <2>0, <2>1 DEF InArea
    <3>2. (py - y) * w + (px - x) \in 0..w * h - 1 BY <3>1, PixelOfArea
    <3>3. rows[(py - y) * w + (px - x)] = color BY <3>2 DEF rows
    <3> QED BY <3>3, <1>3, <1>6, <1>7, <2>1 DEF Painted
  <2>2. CASE ~InArea(x, y, w, h, px, py)
    <3>1. ~Entire(b, x, y, w, h) BY <2>0, <2>2, <1>0 DEF Entire, InArea
    <3> QED BY <3>1, <1>3, <1>6, <1>7, <2>2 DEF Painted, Blanked
  <2> QED BY <2>1, <2>2
<1> QED BY <1>7, <1>8 DEF c

\* blit: decoded pixels land on their own area in order, a whole rectangle of
\* them held without a copy included, and the rest of the rectangle keeps what
\* it had or is blank (RectBuffer.blit, _clear, _materialize).
THEOREM BlitPaintsItsArea ==
    ASSUME NEW V, Blank \in V, NEW b, Buffer(b, V),
           NEW x \in Nat, NEW y \in Nat, NEW w \in Nat, NEW h \in Nat,
           InBounds(b, x, y, w, h), NEW pixels \in [0..w * h - 1 -> V]
    PROVE  LET c == Blit(b, x, y, w, h, pixels)
           IN  /\ Buffer(c, V)
               /\ \A px \in 0..b.width - 1, py \in 0..b.height - 1 :
                    PixelAt(c, px, py) =
                        IF InArea(x, y, w, h, px, py) THEN pixels[(py - y) * w + (px - x)]
                        ELSE IF b.covered THEN PixelAt(b, px, py) ELSE Blank
<1> DEFINE c == Blit(b, x, y, w, h, pixels)
           m == Materialize(b)
           k == Clear(m)
           d == Paint(k, x, y, w, h, pixels)
<1>0. b.covered \in BOOLEAN /\ b.width \in Nat /\ b.height \in Nat BY DEF Buffer
<1>1. CASE Entire(b, x, y, w, h)
  <2>0. x = 0 /\ y = 0 /\ w = b.width /\ h = b.height BY <1>1 DEF Entire
  <2>1. c = [b EXCEPT !.whole = <<pixels>>, !.covered = TRUE] BY <1>1, Zenon DEF Blit
  <2> HIDE DEF c
  <2>2. c = [width |-> b.width, height |-> b.height, backing |-> b.backing,
             whole |-> <<pixels>>, covered |-> TRUE]
    BY <2>1 DEF Buffer
  <2>3. Buffer(c, V) BY <2>0, <2>2 DEF Buffer
  <2>4. ASSUME NEW px \in 0..b.width - 1, NEW py \in 0..b.height - 1
        PROVE  /\ InArea(x, y, w, h, px, py)
               /\ PixelAt(c, px, py) = pixels[(py - y) * w + (px - x)]
    <3>1. px \in Nat /\ py \in Nat BY <1>0
    <3>2. InArea(x, y, w, h, px, py) /\ py - y = py /\ px - x = px
      BY <2>0, <3>1 DEF InArea
    <3>3. c.whole # <<>> /\ c.whole[1] = pixels /\ c.width = w BY <2>0, <2>2
    <3>4. PixelAt(c, px, py) = pixels[py * w + px]
      BY <3>3, <3>1, <1>0 DEF PixelAt, ToBytes, Offset
    <3> QED BY <3>2, <3>4
  <2> QED BY <2>3, <2>4 DEF c
<1>2. CASE ~Entire(b, x, y, w, h)
  <2>1. c = d BY <1>2, Zenon DEF Blit
  <2> HIDE DEF c
  <2>2. Buffer(m, V) /\ m.whole = <<>> /\ m.covered = b.covered /\ SamePixels(b, m)
    BY MaterializeKeepsPixels
  <2> HIDE DEF m
  <2>3. Buffer(k, V) /\ k.whole = <<>> /\ Blanked(m, k) BY <2>2, ClearBlanks
  <2> HIDE DEF k
  <2>4. InBounds(k, x, y, w, h) BY <2>2, <2>3 DEF InBounds, SamePixels, Blanked
  <2>5. Buffer(d, V) /\ Painted(k, d, x, y, w, h, pixels) BY <2>3, <2>4, PaintsItsArea
  <2> HIDE DEF d
  <2>6. \A px \in 0..b.width - 1, py \in 0..b.height - 1 :
            PixelAt(c, px, py) =
                IF InArea(x, y, w, h, px, py) THEN pixels[(py - y) * w + (px - x)]
                ELSE IF b.covered THEN PixelAt(b, px, py) ELSE Blank
    BY <2>1, <2>2, <2>3, <2>5 DEF SamePixels, Blanked, Painted
  <2> QED BY <2>1, <2>5, <2>6 DEF c
<1> QED BY <1>1, <1>2

-------------------------------------------------------------------------------
\* What is on the wire: sequences of fields

\* A sequence, whatever it holds: the fields say things of many kinds
IsSeq(s) == \E S : s \in Seq(S)

\* Nothing, one thing, and one sequence after another are sequences.
LEMMA EmptyIsSeq == IsSeq(<<>>)
<1>1. <<>> \in Seq({}) OBVIOUS
<1> QED BY <1>1 DEF IsSeq

LEMMA OneIsSeq == ASSUME NEW x PROVE IsSeq(<<x>>)
<1>1. <<x>> \in Seq({x}) OBVIOUS
<1> QED BY <1>1 DEF IsSeq

LEMMA JoinTyped == ASSUME NEW S, NEW R, NEW s \in Seq(S), NEW r \in Seq(R)
                   PROVE  s \o r \in Seq(S \cup R)
OBVIOUS

LEMMA JoinIsSeq == ASSUME NEW s, NEW r, IsSeq(s), IsSeq(r) PROVE IsSeq(s \o r)
<1>1. PICK S : s \in Seq(S) BY DEF IsSeq
<1>2. PICK R : r \in Seq(R) BY DEF IsSeq
<1>3. s \o r \in Seq(S \cup R) BY <1>1, <1>2, JoinTyped
<1> QED BY <1>3 DEF IsSeq

\* Joining nothing changes nothing, and it does not matter which of
\* three sequences are joined first.
LEMMA JoinEmpty == ASSUME NEW s, IsSeq(s) PROVE <<>> \o s = s /\ s \o <<>> = s
<1>1. PICK S : s \in Seq(S) BY DEF IsSeq
<1> QED BY <1>1

LEMMA JoinAssociates == ASSUME NEW r, NEW s, NEW t, IsSeq(r), IsSeq(s), IsSeq(t)
                        PROVE  (r \o s) \o t = r \o (s \o t)
<1>1. PICK R : r \in Seq(R) BY DEF IsSeq
<1>2. PICK S : s \in Seq(S) BY DEF IsSeq
<1>3. PICK V : t \in Seq(V) BY DEF IsSeq
<1>4. DEFINE U == R \cup S \cup V
<1>5. r \in Seq(U) /\ s \in Seq(U) /\ t \in Seq(U)
  <2>1. r \in Seq(U) BY <1>1
  <2>2. s \in Seq(U) BY <1>2
  <2>3. t \in Seq(U) BY <1>3
  <2> QED BY <2>1, <2>2, <2>3
<1> HIDE DEF U
<1> QED BY <1>5

Joins(s, a, b) == s = a \o b

\* The same, of the four fields of a Tight palette (named, for the solvers).
LEMMA JoinFour ==
    ASSUME NEW a, NEW b, NEW c, NEW d, IsSeq(a), IsSeq(b), IsSeq(c), IsSeq(d),
           NEW x, Joins(x, c, d), NEW y, Joins(y, b, x),
           NEW v, Joins(v, b, c), NEW z, Joins(z, a, v), NEW u, Joins(u, z, d)
    PROVE  Joins(u, a, y)
<1>1. IsSeq(v) BY JoinIsSeq DEF Joins
<1>2. v \o d = y BY JoinAssociates, SMTT(40) DEF Joins
<1>3. (a \o v) \o d = a \o (v \o d) BY <1>1, JoinAssociates, SMTT(40)
<1> QED BY <1>2, <1>3 DEF Joins

\* The first field goes, and the others stay (self._packet in _pump).
LEMMA HeadAndTail == ASSUME NEW x, NEW s, IsSeq(s)
                     PROVE  <<x>> \o s # <<>> /\ Head(<<x>> \o s) = x /\ Tail(<<x>> \o s) = s
<1>1. PICK S : s \in Seq(S) BY DEF IsSeq
<1> QED BY <1>1

\* A field is a sequence, of one or, when it has no bytes, of none.
LEMMA FieldIsSeq == ASSUME NEW f, NEW n, NEW v PROVE IsSeq(Field(f, n, v))
<1>1. CASE n > 0 BY <1>1, OneIsSeq DEF Field
<1>2. CASE ~(n > 0) BY <1>2, EmptyIsSeq DEF Field
<1> QED BY <1>1, <1>2

\* A field of bytes is the head of what it begins; one of none is not there
Begins(w, f, n, v, s) == /\ n > 0 => /\ w # <<>> /\ Tail(w) = s
                                     /\ Head(w) = [f |-> f, n |-> n, v |-> v]
                         /\ n = 0 => w = s

\* What a field begins, it begins as Begins says.
LEMMA FieldFirst ==
    ASSUME NEW f, NEW n \in Nat, NEW v, NEW s, IsSeq(s), NEW w, w = Field(f, n, v) \o s
    PROVE  Begins(w, f, n, v, s)
<1>1. CASE n > 0
  <2>1. w = <<[f |-> f, n |-> n, v |-> v]>> \o s BY <1>1 DEF Field
  <2>2. w # <<>> /\ Head(w) = [f |-> f, n |-> n, v |-> v] /\ Tail(w) = s BY <2>1, HeadAndTail
  <2> QED BY <2>2, <1>1 DEF Begins
<1>2. CASE n = 0 BY <1>2, JoinEmpty DEF Field, Begins
<1> QED BY <1>1, <1>2

\* A field with nothing behind it.
LEMMA FieldAlone == ASSUME NEW f, NEW n, NEW v PROVE Field(f, n, v) \o <<>> = Field(f, n, v)
BY FieldIsSeq, JoinEmpty

-------------------------------------------------------------------------------
Readable(pf) == pf.truecolor = TRUE /\ pf.bpp \in {16, 24, 32}

\* setImageMode always settles on a format of 16, 24 or 32 bits in true
\* colour: one of PIXEL_FORMATS, or one that raw_mode has a mode for.
LEMMA ImageFormatReadable ==
    ASSUME NEW a, NEW q, a.bpp \in Nat, a.truecolor \in BOOLEAN,
           q \in PIXEL_FORMATS \cup {NotAsked}
    PROVE  Readable(ImageFormat(a, q))
<1>1. \A pf \in PIXEL_FORMATS : Readable(pf)
  BY DEF PIXEL_FORMATS, BGRX8888, RGBX8888, RGB565, TPIXEL_FORMAT, Readable
<1>2. Readable(RGBX8888) BY DEF RGBX8888, TPIXEL_FORMAT, Readable
<1>3. RawMode(a) # <<>> => Readable(a)
  <2>1. CASE a.truecolor = FALSE BY <2>1 DEF RawMode
  <2>2. CASE a.truecolor = TRUE /\ a.bpp \in {16, 24, 32} BY <2>2 DEF Readable
  <2>3. CASE a.truecolor = TRUE /\ a.bpp \notin {16, 24, 32} BY <2>3 DEF RawMode
  <2> QED BY <2>1, <2>2, <2>3
<1>4. CASE q # NotAsked BY <1>4, <1>1 DEF ImageFormat
<1>5. CASE q = NotAsked /\ RawMode(a) # <<>> BY <1>5, <1>3 DEF ImageFormat
<1>6. CASE q = NotAsked /\ RawMode(a) = <<>> BY <1>6, <1>2 DEF ImageFormat
<1> QED BY <1>4, <1>5, <1>6

\* A PIXEL and a TPIXEL are as wide for the server as for the client
\* (bypp, tpixel_bytes): the byte counts the decoders multiply by.
LEMMA PixelWidths ==
    ASSUME NEW pf, Readable(pf)
    PROVE  /\ Bypp(pf) \in 2..4 /\ Len(WirePixel(pf)) = Bypp(pf)
           /\ TpixelBytes(pf) \in 2..4 /\ Len(WireTpixel(pf)) = TpixelBytes(pf)
<1>1. Bypp(pf) \in 2..4
  <2>1. CASE pf.bpp = 16 BY <2>1 DEF Bypp
  <2>2. CASE pf.bpp = 24 BY <2>2 DEF Bypp
  <2>3. CASE pf.bpp = 32 BY <2>3 DEF Bypp
  <2> QED BY <2>1, <2>2, <2>3 DEF Readable
<1>2. Len(WirePixel(pf)) = Bypp(pf)
  <2>1. CASE pf.bpp = 16 BY <2>1 DEF WirePixel, Bypp, Halves
  <2>2. CASE pf.bpp # 16
    <3> DEFINE s == [i \in 1..Bypp(pf) |-> Holds(pf, i - 1)]
    <3>1. Len(s) = Bypp(pf) /\ DOMAIN s = 1..Bypp(pf) BY <1>1
    <3>2. WirePixel(pf) = InOrder(pf, s) BY <2>2 DEF WirePixel
    <3> HIDE DEF s
    <3>3. Len(InOrder(pf, s)) = Bypp(pf)
      <4>1. CASE pf.bigendian
        <5>1. InOrder(pf, s) = [i \in 1..Bypp(pf) |-> s[Len(s) + 1 - i]] BY <4>1, <3>1 DEF InOrder
        <5> QED BY <5>1, <1>1
      <4>2. CASE ~pf.bigendian BY <4>2, <3>1 DEF InOrder
      <4> QED BY <4>1, <4>2
    <3> QED BY <3>2, <3>3
  <2> QED BY <2>1, <2>2
<1>3. TpixelBytes(pf) \in 2..4 /\ Len(WireTpixel(pf)) = TpixelBytes(pf)
  <2>1. CASE pf.bpp = 32 /\ pf.depth = 24 /\ pf.width = <<8, 8, 8>>
    <3>1. TpixelBytes(pf) = 3 BY <2>1 DEF TpixelBytes, Readable
    <3>2. WireTpixel(pf) = <<"R", "G", "B">> BY <2>1 DEF WireTpixel
    <3> QED BY <3>1, <3>2
  <2>2. CASE ~(pf.bpp = 32 /\ pf.depth = 24 /\ pf.width = <<8, 8, 8>>)
    <3>1. TpixelBytes(pf) = Bypp(pf) BY <2>2 DEF TpixelBytes
    <3>2. WireTpixel(pf) = WirePixel(pf) BY <2>2 DEF WireTpixel
    <3> QED BY <3>1, <3>2, <1>1, <1>2
  <2> QED BY <2>1, <2>2
<1> QED BY <1>1, <1>2, <1>3

-------------------------------------------------------------------------------
\* Both tilings: how many tiles, and that none is larger than the rectangle
LEMMA Rounded == ASSUME NEW S \in Nat \ {0}, NEW w \in Nat
                 PROVE  LET a == (w + S - 1) \div S
                        IN  a \in Nat /\ (w > 0 => a > 0) /\ a * S <= w + S - 1
<1>1. w + S - 1 \in Nat OBVIOUS
<1>2. \A m \in Nat : m \div S \in Nat OBVIOUS
<1>3. \A m \in Nat : m = S * (m \div S) + (m % S) OBVIOUS
<1>4. \A m \in Nat : (m % S) \in 0..S - 1 OBVIOUS
<1> DEFINE a == (w + S - 1) \div S
           m == ((w + S - 1) % S)
<1>5. a \in Nat /\ w + S - 1 = S * a + m /\ m \in 0..S - 1 BY <1>1, <1>2, <1>3, <1>4
<1> HIDE DEF a, m
<1>6. a * S = S * a BY <1>5
<1>7. a = 0 => S * a = 0 BY <1>5
<1>8. a * S <= w + S - 1 BY <1>5, <1>6
<1>9. w > 0 => a > 0 BY <1>5, <1>7
<1> QED BY <1>5, <1>8, <1>9 DEF a

\* Column c of a tiling begins within the rectangle.
LEMMA Inside == ASSUME NEW S \in Nat \ {0}, NEW w \in Nat, NEW a \in Nat, a * S <= w + S - 1,
                       NEW c \in Nat, c < a
                PROVE  c * S \in Nat /\ w - c * S >= 0
<1>1. c * S \in Nat OBVIOUS
<1>2. (c + 1) * S <= a * S
  <2>1. a = (c + 1) + (a - c - 1) /\ a - c - 1 \in Nat OBVIOUS
  <2>2. a * S = (c + 1) * S + (a - c - 1) * S BY <2>1
  <2>3. (a - c - 1) * S \in Nat BY <2>1
  <2>4. (c + 1) * S \in Nat OBVIOUS
  <2> QED BY <2>2, <2>3, <2>4
<1>3. (c + 1) * S = c * S + S OBVIOUS
<1>4. (c + 1) * S \in Nat /\ a * S \in Nat OBVIOUS
<1> QED BY <1>1, <1>2, <1>3, <1>4

TileCount == Len(TilesOf(rect.w, rect.h, HexTile))
TileAt(k) == TilesOf(rect.w, rect.h, HexTile)[k]

\* The loops of hextile.py and zrle.py: a rectangle of some area has a
\* tile, and no tile has a negative width or height.
LEMMA TilesInside ==
    ASSUME NEW w \in Nat, NEW h \in Nat, NEW S \in Nat \ {0}
    PROVE  /\ Len(TilesOf(w, h, S)) \in Nat
           /\ w * h # 0 => Len(TilesOf(w, h, S)) > 0
           /\ \A k \in 1..Len(TilesOf(w, h, S)) :
                TilesOf(w, h, S)[k].w \in Nat /\ TilesOf(w, h, S)[k].h \in Nat
<1> DEFINE a == (w + S - 1) \div S
           d == (h + S - 1) \div S
           x(k) == ((k - 1) % a) * S
           y(k) == ((k - 1) \div a) * S
           tile(k) == [x |-> x(k), y |-> y(k), w |-> IF S < w - x(k) THEN S ELSE w - x(k),
                       h |-> IF S < h - y(k) THEN S ELSE h - y(k)]
<1>1. TilesOf(w, h, S) = [k \in 1..a * d |-> tile(k)] BY DEF TilesOf
<1>2. a \in Nat /\ (w > 0 => a > 0) /\ a * S <= w + S - 1 BY Rounded
<1>3. d \in Nat /\ (h > 0 => d > 0) /\ d * S <= h + S - 1 BY Rounded
<1> HIDE DEF a, d
<1>4. a * d \in Nat BY <1>2, <1>3
<1>5. Len(TilesOf(w, h, S)) = a * d BY <1>1, <1>4
<1>6. w * h # 0 => a * d > 0
  <2>1. SUFFICES ASSUME w * h # 0 PROVE a * d > 0 OBVIOUS
  <2>2. w > 0 /\ h > 0
    <3>1. w = 0 => w * h = 0 OBVIOUS
    <3>2. h = 0 => w * h = 0 OBVIOUS
    <3> QED BY <2>1, <3>1, <3>2
  <2>3. a \in Nat /\ a > 0 /\ d \in Nat /\ d > 0 BY <2>2, <1>2, <1>3
  <2> QED BY <2>3
<1>7. ASSUME NEW k \in 1..a * d PROVE tile(k).w \in Nat /\ tile(k).h \in Nat
  <2>1. a > 0
    <3>1. a = 0 => a * d = 0 BY <1>3
    <3> QED BY <3>1, <1>2, <1>4
  <2>2. k - 1 \in Nat /\ k - 1 < a * d BY <1>4
  <2>3. ((k - 1) % a) \in 0..a - 1 BY <2>1, <2>2, <1>2
  <2>4. (k - 1) \div a \in Nat BY <2>1, <2>2, <1>2
  <2>5. k - 1 = a * ((k - 1) \div a) + ((k - 1) % a) BY <2>1, <2>2, <1>2
  <2> DEFINE c == ((k - 1) % a)
             r == (k - 1) \div a
  <2>6. c \in Nat /\ c < a /\ r \in Nat /\ k - 1 = a * r + c BY <2>3, <2>4, <2>5, <1>2
  <2> HIDE DEF c, r
  <2>7. r < d
    <3>1. SUFFICES ASSUME r >= d PROVE FALSE BY <2>6, <1>3
    <3>2. r = d + (r - d) /\ r - d \in Nat BY <3>1, <2>6, <1>3
    <3>3. a * r = a * d + a * (r - d) BY <3>2, <1>2, <1>3
    <3>4. a * (r - d) \in Nat /\ a * r \in Nat BY <3>2, <1>2, <2>6
    <3> QED BY <3>3, <3>4, <2>6, <2>2, <1>4
  <2>8. c * S \in Nat /\ w - c * S >= 0 BY <1>2, <2>6, Inside
  <2>9. r * S \in Nat /\ h - r * S >= 0 BY <1>3, <2>6, <2>7, Inside
  <2>10. x(k) = c * S /\ y(k) = r * S BY DEF c, r
  <2> HIDE DEF x, y
  <2>11. (IF S < w - x(k) THEN S ELSE w - x(k)) \in Nat BY <2>8, <2>10
  <2>12. (IF S < h - y(k) THEN S ELSE h - y(k)) \in Nat BY <2>9, <2>10
  <2> QED BY <2>11, <2>12
<1> HIDE DEF tile
<1>8. \A k \in 1..a * d : TilesOf(w, h, S)[k] = tile(k) BY <1>1
<1> QED BY <1>4, <1>5, <1>6, <1>7, <1>8

-------------------------------------------------------------------------------
\* What may follow on the wire, for a rectangle w pixels by h

\* A length and as many bytes
Compressed(name, s) == \E m, v : m \in Nat /\ s = Compact(m) \o Field(name, m, v)
DataOf(size, s) == IF size < MIN_TO_COMPRESS THEN \E v : s = Field("tight.data", size, v)
                   ELSE Compressed("tight.zlib", s)
Row(w, tp, palette) == CASE palette = <<>>   -> w * tp
                         [] Len(palette) = 2 -> (w + 7) \div 8
                         [] OTHER            -> w
AfterSize(w, h, tp, k, s) ==
    \E p, d : IsSeq(d) /\ s = Field("tight.palette", k * tp, p) \o d
              /\ DataOf(h * Row(w, tp, p), d)
AfterFilter(broken, w, h, tp, f, s) ==
    \/ broken /\ s = <<>>
    \/ f = "copy" /\ DataOf(h * Row(w, tp, <<>>), s)
    \/ f = "palette" /\ \E k, d :
            k \in Nat \ {0} /\ IsSeq(d) /\ s = Field("tight.palettesize", 1, k - 1) \o d /\ AfterSize(w, h, tp, k, d)
AfterControl(broken, w, h, tp, c, s) ==
    \/ broken /\ s = <<>>
    \/ c.kind = "fill" /\ \E v : s = Field("tight.fill", tp, v)
    \/ c.kind = "jpeg" /\ Compressed("tight.jpeg", s)
    \/ /\ c.kind = "basic" /\ c.stream # JPEG
       /\ IF c.explicit THEN \E f, d : IsSeq(d) /\ s = Field("tight.filter", 1, f) \o d
                                       /\ AfterFilter(broken, w, h, tp, f, d)
          ELSE DataOf(h * Row(w, tp, <<>>), s)

\* Tile k of a Hextile rectangle, in pixels of bp bytes
HeadSize(bp, bits) == (IF "background" \in bits THEN bp ELSE 0)
                      + (IF "foreground" \in bits THEN bp ELSE 0)
                      + (IF "subrects" \in bits THEN 1 ELSE 0)
HexSubs(bp, bits, c, s) ==
    IF "subrects" \in bits
    THEN c.count \in Nat /\ \E v : s = Field("hextile.subrects",
                                             (IF "coloured" \in bits THEN bp + 2 ELSE 2) * c.count, v)
    ELSE s = <<>>
HexAfter(w, h, bp, k, bits, s) ==
    IF "raw" \in bits
    THEN \E v : s = Field("hextile.raw", TilesOf(w, h, HexTile)[k].w * TilesOf(w, h, HexTile)[k].h * bp, v)
    ELSE \E c, u : IsSeq(u) /\ s = Field("hextile.block", HeadSize(bp, bits), c) \o u
                   /\ HexSubs(bp, bits, c, u)
HexFields(w, h, bp, k, s) ==
    \E bits, u : IsSeq(u) /\ s = Field("hextile", 1, bits) \o u /\ HexAfter(w, h, bp, k, bits, u)

\* Tile k is on the wire: where that leaves the server
HexSent(k) == \/ bad
              \/ k = TileCount /\ sending = <<>>
              \/ k # TileCount /\ sending.tile = k + 1
\* The decoder is before tile k, and s on the wire
HexNext(k, s) == \/ s = <<>> /\ sending.tile = k
                 \/ HexSent(k) /\ HexFields(rect.w, rect.h, bypp, k, s)
\* s is what the wire holds after tile k
HexRest(k, s) == \/ s = <<>> /\ (bad \/ (k = TileCount /\ sending = <<>>))
                 \/ k # TileCount /\ HexNext(k + 1, s)

Counting == sending # <<>> => sending.tile \in Nat \ {0}

Follows(s) ==
    \/ bad /\ s = <<>>
    \/ rect.enc = "raw" /\ \E v : s = Field("raw", rect.w * rect.h * bypp, v)
    \/ rect.enc = "copyrect" /\ \E v : s = Field("copyrect", 4, v)
    \/ rect.enc = "cursor"
       /\ \E v : s = Field("cursor", rect.w * rect.h * bypp + ((rect.w + 7) \div 8) * rect.h, v)
    \/ rect.enc = "control" /\ s = <<>>
    \/ rect.enc \in {"rre", "corre"} /\ \E c, v :
            c.count \in Nat /\ s = Field("rre", 4 + bypp, c)
                                   \o Field("subrectangles", (bypp + COORDS) * c.count, v)
    \/ rect.enc = "hextile" /\ s = <<>>
       /\ IF rect.w * rect.h = 0 THEN sending = <<>> ELSE sending.tile = 1
    \/ rect.enc = "zrle" /\ s = <<>> /\ Counting
    \/ rect.enc = "tight" /\ \E c, u : IsSeq(u) /\ s = Field("tight", 1, c) \o u
                                       /\ AfterControl(bad, rect.w, rect.h, T, c, u)

-------------------------------------------------------------------------------
\* Where the decoder is, and what is on the wire

\* The field it waits for, and the others
Comes(f, v, s) == /\ g.at = f /\ g.n \in Nat
                  /\ wire = Field(f, g.n, v) \o s /\ IsSeq(s)

\* The server is not in the middle of a rectangle
Quiet == rect.enc \in {"hextile", "zrle"} => sending = <<>>

AtRectangle == /\ g = Idle
               /\ \/ wire = <<>> /\ Quiet
                  \/ \E v, s : v = rect /\ Comes("rectangle", v, s) /\ Follows(s)

LastFields == {"raw", "copyrect", "cursor", "subrectangles", "tight.fill", "tight.data",
               "tight.zlib", "tight.jpeg", "zrle.block"}
AtLast == Quiet /\ \E v : Comes(g.at, v, <<>>)
AtRRE  == Quiet /\ g.n > 0 /\ \E c, v :
              c.count \in Nat /\ Comes("rre", c, Field("subrectangles", (bypp + COORDS) * c.count, v))

OfTile(k) == rect.enc = "hextile" /\ g.my.tile = k /\ k \in 1..TileCount
AtHextile == g.n = 1 /\ \E k, s : OfTile(k) /\ wire = s /\ HexNext(k, s)
AtHexRaw  == \E k, v, s : OfTile(k) /\ Comes("hextile.raw", v, s) /\ HexRest(k, s)
AtHexBlock == \E k, bits, c, u, s :
    /\ OfTile(k) /\ g.my.bits = bits /\ g.n = HeadSize(bypp, bits) /\ IsSeq(u) /\ IsSeq(s)
    /\ Comes("hextile.block", c, u \o s) /\ HexSubs(bypp, bits, c, u) /\ HexRest(k, s)
AtHexSubs == \E k, v, s : OfTile(k) /\ Comes("hextile.subrects", v, s) /\ HexRest(k, s)

AtZRLE == /\ rect.enc = "zrle" /\ g.n = 4
          /\ \/ wire = <<>> /\ Counting
             \/ Quiet /\ \E n, v :
                    n \in Nat \ {0} /\ Comes("zrle", n, Field("zrle.block", n, v))

AtTight == Quiet /\ g.n = 1 /\ \E c, s :
    Comes("tight", c, s) /\ AfterControl(bad, rect.w, rect.h, T, c, s)
AtFilter == Quiet /\ g.n = 1 /\ g.my.stream # JPEG /\ \E f, s :
    Comes("tight.filter", f, s) /\ AfterFilter(bad, rect.w, rect.h, T, f, s)
AtPaletteSize == Quiet /\ g.n = 1 /\ g.my.stream # JPEG /\ \E k, s :
    k \in Nat /\ Comes("tight.palettesize", k, s) /\ AfterSize(rect.w, rect.h, T, k + 1, s)
AtPalette == Quiet /\ g.n > 0 /\ g.my.stream # JPEG /\ \E p, s :
    Comes("tight.palette", p, s) /\ DataOf(rect.h * Row(rect.w, T, p), s)

\* The bytes left of a compressed length, `part` of them read
Byte(v)        == Field("tight.length", 1, v)
Two(b, c)      == Byte(b) \o Byte(c)
Three(b, c, d) == Byte(b) \o Two(c, d)
Left(part, m) == CASE part = 0 -> Compact(m)
                   [] part = 1 -> IF m < 128 THEN Byte(m)
                                  ELSE Two(128 + (m % 128), m \div 128)
                   [] part = 2 -> Byte(m)
Weight(part) == IF part = 0 THEN 1 ELSE IF part = 1 THEN 128 ELSE 16384
LengthOf(jpeg) == IF jpeg THEN "tight.jpeg" ELSE "tight.zlib"
AtLength == Quiet /\ g.n = 1 /\ \E part, length, m, v :
    /\ part \in 0..2 /\ length \in Nat /\ m \in Nat
    /\ g.my.part = part /\ g.my.length = length
    /\ wire = Left(part, m) \o Field(LengthOf(g.my.stream = JPEG), length + m * Weight(part), v)

Flow ==
    \/ g.at = "rectangle" /\ AtRectangle
    \/ g.at \in LastFields /\ AtLast
    \/ g.at = "rre" /\ AtRRE
    \/ g.at = "hextile" /\ AtHextile
    \/ g.at = "hextile.raw" /\ AtHexRaw
    \/ g.at = "hextile.block" /\ AtHexBlock
    \/ g.at = "hextile.subrects" /\ AtHexSubs
    \/ g.at = "zrle" /\ AtZRLE
    \/ g.at = "tight" /\ AtTight
    \/ g.at = "tight.filter" /\ AtFilter
    \/ g.at = "tight.palettesize" /\ AtPaletteSize
    \/ g.at = "tight.palette" /\ AtPalette
    \/ g.at = "tight.length" /\ AtLength

\* A server that broke the encoding in a field that the decoder has read
Dead == bad /\ wire = <<>>
Good == aborted \/ Dead \/ Flow
Sized == /\ Readable(pixel_format)
         /\ rect.enc \in Encodings /\ rect.w \in Nat /\ rect.h \in Nat
StreamInvariant == Sized /\ Good

\* Where the decoder is says what is on the wire.
LEMMA FlowAt ==
    ASSUME Flow
    PROVE  /\ g.at = "rectangle" => AtRectangle
           /\ g.at \in LastFields => AtLast
           /\ g.at = "rre" => AtRRE
           /\ g.at = "hextile" => AtHextile
           /\ g.at = "hextile.raw" => AtHexRaw
           /\ g.at = "hextile.block" => AtHexBlock
           /\ g.at = "hextile.subrects" => AtHexSubs
           /\ g.at = "zrle" => AtZRLE
           /\ g.at = "tight" => AtTight
           /\ g.at = "tight.filter" => AtFilter
           /\ g.at = "tight.palettesize" => AtPaletteSize
           /\ g.at = "tight.palette" => AtPalette
           /\ g.at = "tight.length" => AtLength
BY DEF Flow, LastFields

\* The widths of this connection's pixels.
LEMMA Widths == ASSUME Sized
                PROVE  /\ PixelWidth = bypp /\ bypp \in 2..4
                       /\ TpixelWidth = T /\ T \in 2..4
                       /\ rect.w \in Nat /\ rect.h \in Nat
BY PixelWidths DEF Sized, PixelWidth, TpixelWidth, bypp, T

\* The pump hands over the field waited for, and leaves the others.
LEMMA ComesFirst == ASSUME NEW f, NEW v, NEW s, Comes(f, v, s)
                    PROVE  g.n \in Nat /\ Begins(wire, f, g.n, v, s)
BY FieldFirst DEF Comes

\* A decoder that resumes gets the block it asked for, and what is
\* behind it stays on the wire; a block of no bytes takes nothing.
LEMMA Arrives == ASSUME NEW f, NEW v, NEW s, Comes(f, v, s), Resumed(f)
                 PROVE  Taken = s /\ (g.n > 0 => Block = v)
<1>1. g.n \in Nat /\ Begins(wire, f, g.n, v, s) BY ComesFirst
<1>2. CASE g.n = 0 BY <1>1, <1>2 DEF Begins, Taken
<1>3. CASE g.n > 0 BY <1>1, <1>3 DEF Begins, Taken, Block
<1> QED BY <1>1, <1>2, <1>3

\* With nothing on the wire, a decoder waits for no bytes (`yield 0`).
LEMMA Nothing == ASSUME NEW f, NEW v, NEW s, Comes(f, v, s), wire = <<>>
                 PROVE  g.n = 0 /\ s = <<>>
<1>1. g.n \in Nat /\ Begins(wire, f, g.n, v, s) BY ComesFirst
<1>2. g.n = 0 BY <1>1 DEF Begins
<1> QED BY <1>1, <1>2 DEF Begins

\* A decoder that yields n, when the next field has n bytes, waits for it.
LEMMA Parked == ASSUME NEW f, NEW n \in Nat, NEW v, NEW s, NEW locals, IsSeq(s),
                       Park(f, n, locals), Taken = Field(f, n, v) \o s
                PROVE  /\ Comes(f, v, s)'
                       /\ g'.at = f /\ g'.n = n /\ g'.my = locals
BY DEF Park, Comes

\* The steps of a decoder are the client's; the server's rectangle stays
Kept == UNCHANGED <<pixel_format, server>>
Moves == wire' \in {Taken, <<>>}
Ended == (aborted' = TRUE /\ wire' = <<>>) \/ (g' = Idle /\ wire' = Taken)

\* What a step of a decoder cannot change.
LEMMA KeptFacts ==
    ASSUME Kept
    PROVE  /\ rect' = rect /\ bad' = bad /\ sending' = sending /\ pixel_format' = pixel_format
           /\ bypp' = bypp /\ T' = T /\ COORDS' = COORDS /\ TileCount' = TileCount
           /\ Quiet' = Quiet /\ Counting' = Counting /\ (Sized => Sized')
BY DEF Kept, server, bad, bypp, T, COORDS, TileCount, Quiet, Counting, Sized

\* Every end of a rectangle, pasted, finished or refused, is the pump's:
\* _finishRectangle or abortConnection.
LEMMA PasteEnds == ASSUME NEW pixels, NEW layout, NEW format, Paste(pixels, layout, format)
                   PROVE  Ended
BY DEF Paste, Refuse, Ended

LEMMA PasteBufferEnds == ASSUME NEW buf, NEW layout, PasteBuffer(buf, layout) PROVE Ended
BY PasteEnds DEF PasteBuffer

LEMMA TightPasteEnds == ASSUME NEW pixels, TightPaste(pixels) PROVE Ended
BY PasteEnds DEF TightPaste

LEMMA UnpaletteEnds == ASSUME NEW data, NEW palette, Unpalette(data, palette) PROVE Ended
<1>1. CASE palette = <<>> BY <1>1, TightPasteEnds DEF Unpalette
<1>2. CASE palette # <<>> /\ Len(palette) = 2
  <2> DEFINE d == Unpacked(data, [k \in 0..1 |-> palette[k + 1]])
  <2>1. TightPaste(d) BY <1>2 DEF Unpalette
  <2> HIDE DEF d
  <2> QED BY <2>1, TightPasteEnds
<1>3. CASE palette # <<>> /\ Len(palette) # 2
  <2> DEFINE d == [i \in DOMAIN data |-> palette[data[i] + 1]]
  <2>1. Refuse \/ TightPaste(d) BY <1>3 DEF Unpalette
  <2> HIDE DEF d
  <2>2. Refuse => Ended BY DEF Refuse, Ended
  <2> QED BY <2>1, <2>2, TightPasteEnds
<1> QED BY <1>1, <1>2, <1>3

\* The rectangle ends where the next one may begin
LEMMA EndsWell == ASSUME Kept, Ended, Taken = <<>>, Quiet PROVE Good'
<1>1. Quiet' BY KeptFacts
<1>2. CASE aborted' = TRUE BY <1>2 DEF Good
<1>3. CASE g' = Idle /\ wire' = Taken
  <2>1. AtRectangle' BY <1>1, <1>3 DEF AtRectangle, Idle
  <2>2. g'.at = "rectangle" BY <1>3 DEF Idle
  <2> QED BY <2>1, <2>2 DEF Good, Flow
<1> QED BY <1>2, <1>3 DEF Ended

\* A decoder yields the length of the last field of its rectangle.
LEMMA ParkedLast == ASSUME NEW f \in LastFields, NEW n \in Nat, NEW v, NEW locals, Kept, Quiet,
                           Park(f, n, locals), Taken = Field(f, n, v)
                    PROVE  Good'
<1>1. Quiet' BY KeptFacts
<1>2. Taken = Field(f, n, v) \o <<>> BY FieldAlone
<1>3. Comes(f, v, <<>>)' /\ g'.at = f BY <1>2, Parked, EmptyIsSeq
<1>4. AtLast' BY <1>1, <1>3 DEF AtLast, Comes
<1> QED BY <1>3, <1>4 DEF Good, Flow

\* A refusal ends the rectangle, and after it anything goes.
LEMMA RefuseEnds == ASSUME Refuse PROVE Ended
BY DEF Refuse, Ended

LEMMA AbortedIsGood == ASSUME aborted' = TRUE PROVE Good'
BY DEF Good

\* On a rectangle cut off where it broke its encoding, a decoder goes no
\* further than the blocks of no bytes.
LEMMA DeadStays == ASSUME NEW f, Dead, Kept, Resumed(f), Moves PROVE Good'
<1>1. wire = <<>> /\ bad BY DEF Dead
<1>2. g.n = 0 BY <1>1 DEF Resumed
<1>3. wire' = <<>> BY <1>1, <1>2 DEF Moves, Taken
<1>4. bad' BY <1>1, KeptFacts
<1> QED BY <1>3, <1>4 DEF Good, Dead

\* A step of a decoder, when what is on the wire is what it waits for
LEMMA Decoded == ASSUME NEW f, StreamInvariant, Kept, Resumed(f), Moves, Flow => Good'
                 PROVE  StreamInvariant'
<1>1. Sized' BY KeptFacts DEF StreamInvariant
<1>2. Good'
  <2>1. CASE Dead BY <2>1, DeadStays
  <2>2. CASE Flow BY <2>2
  <2>3. ~aborted BY DEF Resumed
  <2> QED BY <2>1, <2>2, <2>3 DEF StreamInvariant, Good
<1> QED BY <1>1, <1>2 DEF StreamInvariant

\* The last field of a rectangle, taken: the wire is empty.
LEMMA LastEnds == ASSUME NEW f \in LastFields, StreamInvariant, Kept, Resumed(f), Ended
                  PROVE  StreamInvariant'
<1>1. Moves BY DEF Moves, Ended
<1>2. ASSUME Flow PROVE Good'
  <2>1. g.at = f BY DEF Resumed
  <2>2. AtLast BY <1>2, <2>1, FlowAt
  <2>3. PICK v : Comes(f, v, <<>>) BY <2>1, <2>2 DEF AtLast
  <2>4. Taken = <<>> BY <2>3, Arrives
  <2>5. Quiet BY <2>2 DEF AtLast
  <2> QED BY <2>4, <2>5, EndsWell
<1> QED BY <1>1, <1>2, Decoded

\* The decoders leave the server and the format of pixels alone.
LEMMA ElsewhereKeeps == ASSUME Elsewhere PROVE Kept
BY DEF Elsewhere, Kept

\* raw.py.
LEMMA RawDecodeKeeps == ASSUME StreamInvariant, RawDecode PROVE StreamInvariant'
<1>1. Resumed("raw") /\ Kept BY ElsewhereKeeps DEF RawDecode
<1>2. Ended BY PasteEnds DEF RawDecode
<1> QED BY <1>1, <1>2, LastEnds DEF LastFields

\* _finishRectangle without pixels.
LEMMA DoneEnds == ASSUME Done PROVE Ended
BY DEF Done, Ended

\* copyrect.py and cursor.py.
LEMMA CopyRectDecodeKeeps == ASSUME StreamInvariant, CopyRectDecode PROVE StreamInvariant'
<1>1. Resumed("copyrect") /\ Kept BY ElsewhereKeeps DEF CopyRectDecode
<1>2. Ended BY DoneEnds, RefuseEnds DEF CopyRectDecode
<1> QED BY <1>1, <1>2, LastEnds DEF LastFields

LEMMA CursorDecodeKeeps == ASSUME StreamInvariant, CursorDecode PROVE StreamInvariant'
<1>1. Resumed("cursor") /\ Kept BY ElsewhereKeeps DEF CursorDecode
<1>2. Ended BY DoneEnds DEF CursorDecode
<1> QED BY <1>1, <1>2, LastEnds DEF LastFields

\* rre.py, past its header.
LEMMA RRESubrectanglesKeeps == ASSUME StreamInvariant, RRESubrectangles PROVE StreamInvariant'
<1>1. Resumed("subrectangles") /\ Kept BY ElsewhereKeeps DEF RRESubrectangles
<1>2. Refuse \/ \E buf, layout : PasteBuffer(buf, layout) BY DEF RRESubrectangles
<1>3. Ended BY <1>2, PasteBufferEnds, RefuseEnds
<1> QED BY <1>1, <1>3, LastEnds DEF LastFields

\* tight.py: the blocks that end a rectangle.
LEMMA TightFillKeeps == ASSUME StreamInvariant, TightFill PROVE StreamInvariant'
<1>1. Resumed("tight.fill") /\ Kept BY ElsewhereKeeps DEF TightFill
<1>2. Ended BY TightPasteEnds DEF TightFill
<1> QED BY <1>1, <1>2, LastEnds DEF LastFields

LEMMA TightDataKeeps == ASSUME StreamInvariant, TightData PROVE StreamInvariant'
<1>1. Resumed("tight.data") /\ Kept BY ElsewhereKeeps DEF TightData
<1>2. Ended BY UnpaletteEnds DEF TightData
<1> QED BY <1>1, <1>2, LastEnds DEF LastFields

LEMMA TightZlibKeeps == ASSUME StreamInvariant, TightZlib PROVE StreamInvariant'
<1>1. Resumed("tight.zlib") /\ Kept BY ElsewhereKeeps DEF TightZlib
<1>2. Refuse \/ Unpalette(Block.data, g.my.palette) BY DEF TightZlib
<1>3. Ended BY <1>2, UnpaletteEnds, RefuseEnds
<1> QED BY <1>1, <1>3, LastEnds DEF LastFields

LEMMA TightJpegKeeps == ASSUME StreamInvariant, TightJpeg PROVE StreamInvariant'
<1>1. Resumed("tight.jpeg") /\ Kept BY ElsewhereKeeps DEF TightJpeg
<1>2. Refuse \/ \E layout : Paste(Block.data, layout, TPIXEL_FORMAT) BY DEF TightJpeg
<1>3. Ended BY <1>2, PasteEnds, RefuseEnds
<1> QED BY <1>1, <1>3, LastEnds DEF LastFields

\* zrle.py: the tiles.
LEMMA ZRLEBlockKeeps == ASSUME StreamInvariant, ZRLEBlock PROVE StreamInvariant'
<1>1. Resumed("zrle.block") /\ Kept BY ElsewhereKeeps DEF ZRLEBlock
<1>2. Refuse \/ \E buf, layout : PasteBuffer(buf, layout) BY DEF ZRLEBlock
<1>3. Ended BY <1>2, PasteBufferEnds, RefuseEnds
<1> QED BY <1>1, <1>3, LastEnds DEF LastFields

\* A step takes the block it was handed, or drops the connection's bytes.
LEMMA ParkMoves == ASSUME NEW f, NEW n, NEW locals, Park(f, n, locals) PROVE Moves
BY DEF Park, Moves

LEMMA EndedMoves == ASSUME Ended PROVE Moves
BY DEF Ended, Moves

\* rre.py: the header says how many subrectangles follow, none included.
LEMMA RREHeaderKeeps == ASSUME StreamInvariant, RREHeader PROVE StreamInvariant'
<1>1. Resumed("rre") /\ Kept BY ElsewhereKeeps DEF RREHeader
<1>2. \/ Block.count = 0 /\ \E buf, layout : PasteBuffer(buf, layout)
      \/ Refuse
      \/ \E locals : Park("subrectangles", (bypp + COORDS) * Block.count, locals)
  BY DEF RREHeader
<1>3. Moves BY <1>2, EndedMoves, PasteBufferEnds, RefuseEnds, ParkMoves
<1>4. ASSUME Flow PROVE Good'
  <2>1. AtRRE BY <1>1, <1>4, FlowAt DEF Resumed
  <2>2. PICK c, v : /\ c.count \in Nat
                    /\ Comes("rre", c, Field("subrectangles", (bypp + COORDS) * c.count, v))
    BY <2>1 DEF AtRRE
  <2>3. Taken = Field("subrectangles", (bypp + COORDS) * c.count, v) /\ Block = c
    BY <2>1, <2>2, <1>1, Arrives DEF AtRRE
  <2>4. Quiet BY <2>1 DEF AtRRE
  <2>5. CASE Block.count = 0 /\ \E buf, layout : PasteBuffer(buf, layout)
    <3>1. Taken = <<>>
      <4>1. (bypp + COORDS) * c.count = 0
        <5>1. bypp + COORDS \in Nat BY Widths DEF COORDS, StreamInvariant
        <5> QED BY <5>1, <2>3, <2>5
      <4> QED BY <4>1, <2>3 DEF Field
    <3> QED BY <3>1, <2>4, <2>5, <1>1, PasteBufferEnds, EndsWell
  <2>6. CASE Refuse BY <2>6, AbortedIsGood DEF Refuse
  <2>7. CASE \E locals : Park("subrectangles", (bypp + COORDS) * Block.count, locals)
    <3>1. PICK locals : Park("subrectangles", (bypp + COORDS) * c.count, locals) BY <2>7, <2>3
    <3>2. (bypp + COORDS) * c.count \in Nat
      <4>1. bypp + COORDS \in Nat BY Widths DEF COORDS, StreamInvariant
      <4> QED BY <4>1, <2>2
    <3>3. PICK n \in Nat : n = (bypp + COORDS) * c.count BY <3>2
    <3>4. Park("subrectangles", n, locals) /\ Taken = Field("subrectangles", n, v)
      BY <3>1, <3>3, <2>3
    <3> QED BY <3>4, <2>4, <1>1, ParkedLast DEF LastFields
  <2> QED BY <1>2, <2>5, <2>6, <2>7
<1> QED BY <1>1, <1>3, <1>4, Decoded

-------------------------------------------------------------------------------
\* Tight

\* A compressed length is one to three bytes, by its size.
LEMMA CompactShort == ASSUME NEW m \in Nat, m < 128 PROVE Compact(m) = Byte(m)
BY DEF Compact, Byte
LEMMA CompactMiddle == ASSUME NEW m \in Nat, m >= 128, m < 16384
                       PROVE  Compact(m) = Two(128 + (m % 128), m \div 128)
<1>1. ~(m < 128) OBVIOUS
<1> QED BY <1>1 DEF Compact, Byte, Two
LEMMA CompactLong ==
    ASSUME NEW m \in Nat, m >= 16384
    PROVE  Compact(m) = Three(128 + (m % 128), 128 + ((m \div 128) % 128), m \div 16384)
<1>1. ~(m < 128) /\ ~(m < 16384) OBVIOUS
<1> QED BY <1>1, SMTT(40) DEF Compact, Byte, Two, Three

\* The bytes of a length are sequences, joined or not.
LEMMA BytesAreSeqs == /\ \A b : IsSeq(Byte(b))
                      /\ \A b, c : IsSeq(Two(b, c))
                      /\ \A b, c, d : IsSeq(Three(b, c, d))
<1>1. \A v : IsSeq(Byte(v)) BY FieldIsSeq DEF Byte
<1>2. \A u, v : IsSeq(Two(u, v)) BY <1>1, JoinIsSeq DEF Two
<1>3. \A u, v, w : IsSeq(Three(u, v, w)) BY <1>1, <1>2, JoinIsSeq DEF Three
<1> QED BY <1>1, <1>2, <1>3

LEMMA CompactIsSeq == ASSUME NEW m \in Nat PROVE IsSeq(Compact(m))
<1>1. CASE m < 128 BY <1>1, BytesAreSeqs, CompactShort
<1>2. CASE m >= 128 /\ m < 16384 BY <1>2, BytesAreSeqs, CompactMiddle
<1>3. CASE m >= 16384 BY <1>3, BytesAreSeqs, CompactLong
<1> QED BY <1>1, <1>2, <1>3

\* The next byte of a length, and the ones left after it
NextByte(part, m, b, s) ==
    IF part < 2 /\ m >= 128 THEN b = 128 + (m % 128) /\ s = Left(part + 1, m \div 128)
    ELSE b = m /\ s = <<>>

LEMMA LeftIsSeq == ASSUME NEW part \in 0..2, NEW m \in Nat PROVE IsSeq(Left(part, m))
<1>1. CASE part = 0 BY <1>1, CompactIsSeq DEF Left
<1>2. CASE part = 1 BY <1>2, BytesAreSeqs DEF Left
<1>3. CASE part = 2 BY <1>3, BytesAreSeqs DEF Left
<1> QED BY <1>1, <1>2, <1>3

\* The next byte of a length: the last one, or one with its high bit set
\* and the rest of the length behind it.
LEMMA LeftFirst == ASSUME NEW part \in 0..2, NEW m \in Nat
                   PROVE  \E b, s : /\ b \in Nat /\ IsSeq(s) /\ NextByte(part, m, b, s)
                                    /\ Left(part, m) = Byte(b) \o s
<1>0. \A v : Byte(v) \o <<>> = Byte(v) BY FieldAlone DEF Byte
<1>1. m \div 128 \in Nat /\ 128 + (m % 128) \in Nat OBVIOUS
<1>2. CASE ~(part < 2 /\ m >= 128)
  <2>1. Left(part, m) = Byte(m)
    <3>1. CASE part = 0 BY <3>1, <1>2, CompactShort DEF Left
    <3>2. CASE part = 1 BY <3>2, <1>2 DEF Left
    <3>3. CASE part = 2 BY <3>3 DEF Left
    <3> QED BY <3>1, <3>2, <3>3
  <2>2. Left(part, m) = Byte(m) \o <<>> BY <2>1, <1>0
  <2>3. NextByte(part, m, m, <<>>) BY <1>2 DEF NextByte
  <2> QED BY <2>2, <2>3, EmptyIsSeq
<1>3. CASE part < 2 /\ m >= 128
  <2> DEFINE b == 128 + (m % 128)
             s == Left(part + 1, m \div 128)
  <2>1. Left(part, m) = Byte(b) \o s
    <3>1. CASE part = 1
      <4>1. s = Byte(m \div 128) BY <3>1 DEF Left
      <4>2. Left(part, m) = Two(b, m \div 128) BY <3>1, <1>3 DEF Left
      <4> HIDE DEF s, b
      <4> QED BY <4>1, <4>2 DEF Two
    <3>2. CASE part = 0 /\ m >= 128 /\ m < 16384
      <4>1. Left(part, m) = Two(b, m \div 128) BY <3>2, CompactMiddle DEF Left
      <4>2. m \div 128 < 128 BY <3>2
      <4>3. s = Byte(m \div 128) BY <4>2, <3>2 DEF Left
      <4> HIDE DEF s, b
      <4> QED BY <4>1, <4>3 DEF Two
    <3>3. CASE part = 0 /\ m >= 16384
      <4>1. Left(part, m) = Three(b, 128 + ((m \div 128) % 128), m \div 16384)
        BY <3>3, CompactLong DEF Left
      <4>2. ~(m \div 128 < 128) /\ m \div 16384 = (m \div 128) \div 128 BY <3>3
      <4>3. s = Two(128 + ((m \div 128) % 128), (m \div 128) \div 128) BY <4>2, <3>3 DEF Left
      <4> HIDE DEF s, b
      <4> QED BY <4>1, <4>2, <4>3, SMTT(40) DEF Three
    <3> QED BY <3>1, <3>2, <3>3, <1>3
  <2>2. NextByte(part, m, b, s) BY <1>3 DEF NextByte
  <2>3. IsSeq(s) BY <1>1, <1>3, LeftIsSeq
  <2> HIDE DEF s
  <2> QED BY <2>1, <2>2, <2>3, <1>1
<1> QED BY <1>2, <1>3

\* The 7 bits of a byte and the bytes behind it weigh what the length does.
LEMMA SevenBits == ASSUME NEW q \in Nat, NEW e \in Nat, NEW W \in Nat
                   PROVE  (128 * q + e) * W = q * (128 * W) + e * W
<1>1. PICK c \in Nat : c = 128 * q OBVIOUS
<1>2. (c + e) * W = c * W + e * W OBVIOUS
<1>3. c * W = q * (128 * W) BY <1>1
<1> QED BY <1>1, <1>2, <1>3

\* _compactLength: adding up the bytes, it stops at the last one, with the
\* length of the block that follows.
LEMMA CompactLengthKeeps == ASSUME StreamInvariant, CompactLength PROVE StreamInvariant'
<1>1. Resumed("tight.length") /\ Kept BY ElsewhereKeeps DEF CompactLength
<1>2. PICK bits, sum : /\ bits = IF g.my.part = 2 THEN Block ELSE Block % 128
                       /\ sum = g.my.length + bits * <<1, 128, 16384>>[g.my.part + 1]
  OBVIOUS
<1>3. IF g.my.part < 2 /\ Block >= 128
      THEN Park("tight.length", 1, LengthLocals(g.my.stream, g.my.palette, g.my.part + 1, sum))
      ELSE Park(LengthOf(g.my.stream = JPEG), sum,
                LengthLocals(g.my.stream, g.my.palette, g.my.part + 1, sum))
  BY <1>2 DEF CompactLength, LengthOf
<1>4. Moves BY <1>3, ParkMoves
<1>5. ASSUME Flow PROVE Good'
  <2>1. AtLength BY <1>1, <1>5, FlowAt DEF Resumed
  <2>2. PICK part, length, m, v :
            /\ part \in 0..2 /\ length \in Nat /\ m \in Nat
            /\ g.my.part = part /\ g.my.length = length
            /\ wire = Left(part, m) \o Field(LengthOf(g.my.stream = JPEG),
                                             length + m * Weight(part), v)
    BY <2>1 DEF AtLength
  <2>3. PICK b, s : /\ b \in Nat /\ IsSeq(s) /\ NextByte(part, m, b, s)
                    /\ Left(part, m) = Byte(b) \o s
    BY <2>2, LeftFirst
  <2>4. PICK name : name = LengthOf(g.my.stream = JPEG) OBVIOUS
  <2>5. m * Weight(part) \in Nat BY <2>2 DEF Weight
  <2>6. PICK total \in Nat : total = length + m * Weight(part) BY <2>2, <2>5
  <2>7. wire = Byte(b) \o (s \o Field(name, total, v))
    <3>1. wire = (Byte(b) \o s) \o Field(name, total, v) BY <2>2, <2>3, <2>4, <2>6
    <3>2. IsSeq(Byte(b)) /\ IsSeq(s) /\ IsSeq(Field(name, total, v)) BY <2>3, FieldIsSeq DEF Byte
    <3> QED BY <3>1, <3>2, JoinAssociates
  <2>8. g.n = 1 /\ g.at = "tight.length" /\ Quiet BY <2>1, <1>1 DEF AtLength, Resumed
  <2>9. PICK rest : rest = s \o Field(name, total, v) OBVIOUS
  <2>10. IsSeq(rest) BY <2>3, <2>9, FieldIsSeq, JoinIsSeq
  <2>11. Comes("tight.length", b, rest) BY <2>7, <2>8, <2>9, <2>10 DEF Comes, Byte
  <2>12. Taken = rest /\ Block = b BY <2>8, <2>11, <1>1, Arrives
  <2>13. <<1, 128, 16384>>[part + 1] = Weight(part) BY <2>2 DEF Weight
  <2>14. sum = length + bits * Weight(part) BY <1>2, <2>2, <2>13
  <2>15. bits = IF part = 2 THEN b ELSE b % 128 BY <1>2, <2>2, <2>12
  <2>16. CASE part < 2 /\ m >= 128
    <3>1. b = 128 + (m % 128) /\ s = Left(part + 1, m \div 128) BY <2>3, <2>16 DEF NextByte
    <3>2. PICK q, e : q \in Nat /\ e \in Nat /\ q = m \div 128 /\ e = m % 128 /\ m = 128 * q + e
                      /\ e < 128
      BY <2>2
    <3>3. bits = e BY <2>2, <2>15, <2>16, <3>1, <3>2
    <3>4. Weight(part + 1) = 128 * Weight(part) /\ Weight(part) \in Nat BY <2>2, <2>16 DEF Weight
    <3>5. total = sum + q * Weight(part + 1) /\ sum \in Nat
      <4>1. PICK W \in Nat : W = Weight(part) BY <3>4
      <4>6. Weight(part + 1) = 128 * W BY <3>4, <4>1
      <4>7. PICK y \in Nat, z \in Nat : y = q * (128 * W) /\ z = e * W
        <5>1. q * (128 * W) \in Nat /\ e * W \in Nat BY <3>2
        <5> QED BY <5>1
      <4>2. m * W = y + z
        <5>1. (128 * q + e) * W = q * (128 * W) + e * W BY <3>2, SevenBits
        <5>2. m = 128 * q + e BY <3>2
        <5>3. m * W = (128 * q + e) * W BY <5>2
        <5>4. y = q * (128 * W) /\ z = e * W BY <4>7
        <5> QED BY <5>1, <5>3, <5>4
      <4>4. sum = length + z BY <2>14, <3>3, <4>1, <4>7
      <4>5. total = length + (y + z) BY <2>6, <4>1, <4>2
      <4>8. q * Weight(part + 1) = y BY <4>6, <4>7
      <4> QED BY <4>4, <4>5, <4>8, <2>2
    <3>6. Park("tight.length", 1, LengthLocals(g.my.stream, g.my.palette, g.my.part + 1, sum))
      BY <1>3, <2>2, <2>12, <2>16, <3>1, <3>2
    <3>7. wire' = rest /\ g'.at = "tight.length" /\ g'.n = 1 /\ g'.my.part = part + 1
          /\ g'.my.length = sum /\ g'.my.stream = g.my.stream
      BY <3>6, <2>2, <2>12 DEF Park, LengthLocals
    <3>8. Quiet' BY <2>8, <1>1, KeptFacts
    <3>9. part + 1 \in 0..2 BY <2>2, <2>16
    <3>10. wire' = Left(part + 1, q) \o Field(name, sum + q * Weight(part + 1), v)
      BY <3>7, <2>9, <3>1, <3>2, <3>5
    <3>11. name = LengthOf(g'.my.stream = JPEG) BY <3>7, <2>4
    <3>12. wire' = Left(part + 1, q) \o Field(LengthOf(g'.my.stream = JPEG),
                                              sum + q * Weight(part + 1), v)
      BY <3>10, <3>11
    <3>14. /\ part + 1 \in 0..2 /\ sum \in Nat /\ q \in Nat
           /\ g'.my.part = part + 1 /\ g'.my.length = sum
           /\ wire' = Left(part + 1, q) \o Field(LengthOf(g'.my.stream = JPEG),
                                                 sum + q * Weight(part + 1), v)
      BY <3>2, <3>5, <3>7, <3>9, <3>12
    <3>13. AtLength' BY <3>7, <3>8, <3>14, Zenon DEF AtLength
    <3> QED BY <3>7, <3>13 DEF Good, Flow
  <2>17. CASE ~(part < 2 /\ m >= 128)
    <3>1. b = m /\ s = <<>> BY <2>3, <2>17 DEF NextByte
    <3>2. bits = m BY <2>2, <2>15, <2>17, <3>1
    <3>3. sum = total BY <2>6, <2>14, <3>2
    <3>4. Park(name, total, LengthLocals(g.my.stream, g.my.palette, g.my.part + 1, sum))
      BY <1>3, <2>2, <2>4, <2>12, <2>17, <3>1, <3>3
    <3>5. Taken = Field(name, total, v) BY <2>9, <2>12, <3>1, FieldIsSeq, JoinEmpty
    <3>6. name \in LastFields BY <2>4 DEF LengthOf, LastFields
    <3> QED BY <3>4, <3>5, <3>6, <2>8, <1>1, ParkedLast
  <2> QED BY <2>16, <2>17
<1> QED BY <1>1, <1>4, <1>5, Decoded

\* A compressed length begins
LEMMA LengthBegins ==
    ASSUME NEW stream, NEW palette, NEW s, Compressed(LengthOf(stream = JPEG), s), Taken = s,
           Kept, Quiet, Park("tight.length", 1, LengthLocals(stream, palette, 0, 0))
    PROVE  Good'
<1>1. PICK m, v : m \in Nat /\ s = Compact(m) \o Field(LengthOf(stream = JPEG), m, v)
  BY DEF Compressed
<1>2. wire' = s /\ g'.at = "tight.length" /\ g'.n = 1 /\ g'.my.part = 0 /\ g'.my.length = 0
      /\ g'.my.stream = stream
  BY DEF Park, LengthLocals
<1>3. Left(0, m) = Compact(m) /\ m = 0 + m * Weight(0) BY <1>1 DEF Left, Weight
<1>4. wire' = Left(0, m) \o Field(LengthOf(g'.my.stream = JPEG), 0 + m * Weight(0), v)
  BY <1>1, <1>2, <1>3
<1>5. 0 \in 0..2 /\ 0 \in Nat OBVIOUS
<1>6. Quiet' BY KeptFacts
<1>7. AtLength' BY <1>1, <1>2, <1>4, <1>5, <1>6, Zenon DEF AtLength
<1> QED BY <1>2, <1>7 DEF Good, Flow

\* The sizes of Tight data that _decodeBasic works out are the server's.
LEMMA SizeFacts == ASSUME Sized, NEW palette
                   PROVE  /\ RowSize(palette) = Row(rect.w, T, palette)
                          /\ rect.h * RowSize(palette) \in Nat
<1>1. rect.w \in Nat /\ rect.h \in Nat /\ T \in 2..4 BY Widths
<1>2. RowSize(palette) = Row(rect.w, T, palette) BY DEF RowSize, Row
<1>3. rect.w * T \in Nat /\ (rect.w + 7) \div 8 \in Nat BY <1>1
<1>4. RowSize(palette) \in Nat
  <2>1. CASE palette = <<>> BY <2>1, <1>3 DEF RowSize
  <2>2. CASE palette # <<>> /\ Len(palette) = 2 BY <2>2, <1>3 DEF RowSize
  <2>3. CASE palette # <<>> /\ Len(palette) # 2 BY <2>3, <1>1 DEF RowSize
  <2> QED BY <2>1, <2>2, <2>3
<1>5. PICK a \in Nat, b \in Nat : a = rect.h /\ b = RowSize(palette) BY <1>1, <1>4
<1>6. a * b \in Nat BY <1>5
<1> QED BY <1>2, <1>5, <1>6

\* _decodeBasic, after the filter: nothing to read, data as it is, or a
\* compressed length first.
LEMMA BasicDataForms ==
    ASSUME NEW stream, NEW palette, Sized, BasicData(stream, palette)
    PROVE  \E size \in Nat : /\ size = rect.h * RowSize(palette)
                             /\ \/ size = 0 /\ TightPaste(<<>>)
                                \/ /\ size > 0 /\ size < MIN_TO_COMPRESS
                                   /\ Park("tight.data", size, [palette |-> palette])
                                \/ /\ size >= MIN_TO_COMPRESS
                                   /\ Park("tight.length", 1, LengthLocals(stream, palette, 0, 0))
<1>1. PICK size \in Nat : size = rect.h * RowSize(palette) BY SizeFacts
<1>2. CASE size = 0 BY <1>1, <1>2 DEF BasicData
<1>3. CASE size \in 1..MIN_TO_COMPRESS - 1
  <2>1. size # 0 /\ size > 0 /\ size < MIN_TO_COMPRESS BY <1>3, DecoderAssumption
  <2>2. Park("tight.data", size, [palette |-> palette]) BY <1>1, <1>3, <2>1 DEF BasicData
  <2> QED BY <1>1, <2>1, <2>2
<1>4. CASE size >= MIN_TO_COMPRESS
  <2>1. size # 0 /\ size \notin 1..MIN_TO_COMPRESS - 1 BY <1>4, DecoderAssumption
  <2>2. Park("tight.length", 1, LengthLocals(stream, palette, 0, 0)) BY <1>1, <2>1 DEF BasicData
  <2> QED BY <1>1, <1>4, <2>2
<1> QED BY <1>2, <1>3, <1>4, DecoderAssumption

LEMMA BasicDataMoves == ASSUME NEW stream, NEW palette, Sized, BasicData(stream, palette)
                        PROVE  Moves
<1>1. TightPaste(<<>>) => Moves BY TightPasteEnds, EndedMoves
<1> QED BY <1>1, BasicDataForms, ParkMoves

\* Each of the three is what the server wrote: both decide by the same size.
LEMMA BasicDataGood ==
    ASSUME NEW stream, NEW palette, NEW s, stream # JPEG, Sized, Kept, Quiet, Taken = s,
           DataOf(rect.h * Row(rect.w, T, palette), s), BasicData(stream, palette)
    PROVE  Good'
<1>1. PICK size \in Nat :
            /\ size = rect.h * RowSize(palette)
            /\ \/ size = 0 /\ TightPaste(<<>>)
               \/ /\ size > 0 /\ size < MIN_TO_COMPRESS
                  /\ Park("tight.data", size, [palette |-> palette])
               \/ /\ size >= MIN_TO_COMPRESS
                  /\ Park("tight.length", 1, LengthLocals(stream, palette, 0, 0))
  BY BasicDataForms
<1>2. DataOf(size, s) BY <1>1, SizeFacts
<1>3. CASE size = 0 /\ TightPaste(<<>>)
  <2>1. size < MIN_TO_COMPRESS BY <1>3, DecoderAssumption
  <2>2. PICK v : s = Field("tight.data", size, v) BY <1>2, <2>1 DEF DataOf
  <2>3. s = <<>> BY <2>2, <1>3 DEF Field
  <2> QED BY <2>3, <1>3, TightPasteEnds, EndsWell
<1>4. CASE /\ size > 0 /\ size < MIN_TO_COMPRESS
           /\ Park("tight.data", size, [palette |-> palette])
  <2>1. PICK v : s = Field("tight.data", size, v) BY <1>2, <1>4 DEF DataOf
  <2> QED BY <2>1, <1>4, ParkedLast DEF LastFields
<1>5. CASE /\ size >= MIN_TO_COMPRESS
           /\ Park("tight.length", 1, LengthLocals(stream, palette, 0, 0))
  <2>1. ~(size < MIN_TO_COMPRESS) BY <1>5, DecoderAssumption
  <2>2. Compressed("tight.zlib", s) BY <1>2, <2>1 DEF DataOf
  <2>3. LengthOf(stream = JPEG) = "tight.zlib" BY DEF LengthOf
  <2>4. Compressed(LengthOf(stream = JPEG), s) BY <2>2, <2>3
  <2> QED BY <2>4, <1>5, LengthBegins
<1> QED BY <1>1, <1>3, <1>4, <1>5

\* When the server broke off in the field just taken, nothing is left.
LEMMA EmptyDies == ASSUME Kept, Moves, bad, Taken = <<>> PROVE Good'
<1>1. wire' = <<>> BY DEF Moves
<1>2. bad' BY KeptFacts
<1> QED BY <1>1, <1>2 DEF Good, Dead

\* _decodeBasic: the palette, its size and the filter.
LEMMA TightPaletteKeeps == ASSUME StreamInvariant, TightPalette PROVE StreamInvariant'
<1>1. Resumed("tight.palette") /\ Kept BY ElsewhereKeeps DEF TightPalette
<1>2. BasicData(g.my.stream, Block) BY DEF TightPalette
<1>3. Moves BY <1>2, BasicDataMoves DEF StreamInvariant
<1>4. ASSUME Flow PROVE Good'
  <2>1. AtPalette BY <1>1, <1>4, FlowAt DEF Resumed
  <2>2. PICK p, s : /\ Comes("tight.palette", p, s)
                    /\ DataOf(rect.h * Row(rect.w, T, p), s)
    BY <2>1 DEF AtPalette
  <2>3. Taken = s /\ Block = p BY <2>1, <2>2, <1>1, Arrives DEF AtPalette
  <2>4. PICK stream : stream = g.my.stream OBVIOUS
  <2>5. stream # JPEG /\ Quiet BY <2>1, <2>4 DEF AtPalette
  <2>6. BasicData(stream, p) BY <1>2, <2>3, <2>4
  <2> QED BY <2>2, <2>3, <2>5, <2>6, <1>1, BasicDataGood DEF StreamInvariant
<1> QED BY <1>1, <1>3, <1>4, Decoded

LEMMA TightPaletteSizeKeeps == ASSUME StreamInvariant, TightPaletteSize PROVE StreamInvariant'
<1>1. Resumed("tight.palettesize") /\ Kept BY ElsewhereKeeps DEF TightPaletteSize
<1>2. Park("tight.palette", (Block + 1) * T, [stream |-> g.my.stream]) BY DEF TightPaletteSize
<1>3. Moves BY <1>2, ParkMoves
<1>4. ASSUME Flow PROVE Good'
  <2>1. AtPaletteSize BY <1>1, <1>4, FlowAt DEF Resumed
  <2>2. PICK k, s : k \in Nat /\ Comes("tight.palettesize", k, s) /\ AfterSize(rect.w, rect.h, T, k + 1, s)
    BY <2>1 DEF AtPaletteSize
  <2>3. Taken = s /\ Block = k BY <2>1, <2>2, <1>1, Arrives DEF AtPaletteSize
  <2>4. PICK p, d : /\ IsSeq(d) /\ s = Field("tight.palette", (k + 1) * T, p) \o d
                    /\ DataOf(rect.h * Row(rect.w, T, p), d)
    BY <2>2 DEF AfterSize
  <2>5. T \in 2..4 BY Widths DEF StreamInvariant
  <2>6. (k + 1) * T \in Nat /\ (k + 1) * T > 0 BY <2>2, <2>5
  <2>7. PICK n \in Nat : n = (k + 1) * T BY <2>6
  <2>8. Park("tight.palette", n, [stream |-> g.my.stream]) /\ Taken = Field("tight.palette", n, p) \o d
    BY <1>2, <2>3, <2>4, <2>7
  <2>9. Comes("tight.palette", p, d)' /\ g'.at = "tight.palette" /\ g'.n = n
        /\ g'.my = [stream |-> g.my.stream]
    BY <2>4, <2>8, Parked
  <2>10. rect' = rect /\ T' = T /\ Quiet' BY <2>1, <1>1, KeptFacts DEF AtPaletteSize
  <2>11. g'.n > 0 /\ g'.my.stream # JPEG BY <2>1, <2>6, <2>7, <2>9 DEF AtPaletteSize
  <2>12. DataOf(rect'.h * Row(rect'.w, T', p), d) BY <2>4, <2>10
  <2>13. AtPalette' BY <2>9, <2>10, <2>11, <2>12, Zenon DEF AtPalette
  <2> QED BY <2>9, <2>13 DEF Good, Flow
<1> QED BY <1>1, <1>3, <1>4, Decoded

LEMMA TightFilterKeeps == ASSUME StreamInvariant, TightFilter PROVE StreamInvariant'
<1>1. Resumed("tight.filter") /\ Kept BY ElsewhereKeeps DEF TightFilter
<1>2. /\ Block = "copy" => BasicData(g.my.stream, <<>>)
      /\ Block = "palette" => Park("tight.palettesize", 1, [stream |-> g.my.stream])
      /\ Block \notin {"copy", "palette"} => Refuse
  BY DEF TightFilter
<1>3. Moves BY <1>2, BasicDataMoves, ParkMoves, RefuseEnds, EndedMoves DEF StreamInvariant
<1>4. ASSUME Flow PROVE Good'
  <2>1. AtFilter BY <1>1, <1>4, FlowAt DEF Resumed
  <2>2. PICK f, s : Comes("tight.filter", f, s) /\ AfterFilter(bad, rect.w, rect.h, T, f, s)
    BY <2>1 DEF AtFilter
  <2>3. Taken = s /\ Block = f BY <2>1, <2>2, <1>1, Arrives DEF AtFilter
  <2>4. PICK stream : stream = g.my.stream OBVIOUS
  <2>5. stream # JPEG /\ Quiet BY <2>1, <2>4 DEF AtFilter
  <2>6. CASE bad /\ s = <<>> BY <2>3, <2>6, <1>1, <1>3, EmptyDies
  <2>7. CASE f = "copy" /\ DataOf(rect.h * Row(rect.w, T, <<>>), s)
    <3>1. BasicData(stream, <<>>) BY <1>2, <2>3, <2>4, <2>7
    <3> QED BY <3>1, <2>3, <2>5, <2>7, <1>1, BasicDataGood DEF StreamInvariant
  <2>8. CASE f = "palette" /\ \E k, d : /\ k \in Nat \ {0} /\ IsSeq(d)
                                        /\ s = Field("tight.palettesize", 1, k - 1) \o d
                                        /\ AfterSize(rect.w, rect.h, T, k, d)
    <3>1. PICK k, d : /\ k \in Nat \ {0} /\ IsSeq(d)
                      /\ s = Field("tight.palettesize", 1, k - 1) \o d
                      /\ AfterSize(rect.w, rect.h, T, k, d)
      BY <2>8
    <3>2. PICK j \in Nat : j = k - 1 /\ k = j + 1 BY <3>1
    <3>3. /\ Park("tight.palettesize", 1, [stream |-> g.my.stream])
          /\ Taken = Field("tight.palettesize", 1, j) \o d
      BY <1>2, <2>3, <2>8, <3>1, <3>2
    <3>4. 1 \in Nat OBVIOUS
    <3>5. Comes("tight.palettesize", j, d)' /\ g'.at = "tight.palettesize" /\ g'.n = 1
          /\ g'.my = [stream |-> g.my.stream]
      BY <3>1, <3>3, <3>4, Parked
    <3>6. rect' = rect /\ T' = T /\ Quiet' BY <2>5, <1>1, KeptFacts
    <3>7. g'.my.stream # JPEG BY <2>4, <2>5, <3>5
    <3>8. AfterSize(rect'.w, rect'.h, T', j + 1, d) BY <3>1, <3>2, <3>6
    <3>9. AtPaletteSize' BY <3>2, <3>5, <3>6, <3>7, <3>8, Zenon DEF AtPaletteSize
    <3> QED BY <3>5, <3>9 DEF Good, Flow
  <2> QED BY <2>2, <2>6, <2>7, <2>8 DEF AfterFilter
<1> QED BY <1>1, <1>3, <1>4, Decoded

\* decodeRect of tight.py, by the kind of rectangle.
LEMMA TightControlForms ==
    ASSUME TightControl
    PROVE  /\ Block.kind = "fill" => Park("tight.fill", T, <<>>)
           /\ Block.kind = "jpeg" => \/ Park("tight.length", 1, LengthLocals(JPEG, <<>>, 0, 0))
                                     \/ Refuse
           /\ Block.kind = "basic" =>
                \/ Block.explicit /\ Park("tight.filter", 1, [stream |-> Block.stream])
                \/ ~Block.explicit /\ BasicData(Block.stream, <<>>)
                \/ Refuse
           /\ Block.kind \notin {"fill", "jpeg", "basic"} => Refuse
<1>1. CASE Block.kind = "fill" BY <1>1 DEF TightControl
<1>2. CASE Block.kind = "jpeg"
  <2>1. CASE rect.w <= MAX_WIDTH /\ jpeg_offered BY <1>2, <2>1 DEF TightControl
  <2>2. CASE ~(rect.w <= MAX_WIDTH /\ jpeg_offered) BY <1>2, <2>2 DEF TightControl
  <2> QED BY <2>1, <2>2
<1>3. CASE Block.kind = "basic"
  <2>1. CASE rect.w <= MAX_WIDTH BY <1>3, <2>1 DEF TightControl
  <2>2. CASE ~(rect.w <= MAX_WIDTH) BY <1>3, <2>2 DEF TightControl
  <2> QED BY <2>1, <2>2
<1>4. CASE Block.kind \notin {"fill", "jpeg", "basic"} BY <1>4 DEF TightControl
<1> QED BY <1>1, <1>2, <1>3, <1>4

LEMMA TightControlKeeps == ASSUME StreamInvariant, TightControl PROVE StreamInvariant'
<1>1. Resumed("tight") /\ Kept BY ElsewhereKeeps DEF TightControl
<1>2. Sized BY DEF StreamInvariant
<1>3. Moves
  <2>1. CASE Block.kind = "fill" BY <2>1, TightControlForms, ParkMoves
  <2>2. CASE Block.kind = "jpeg" BY <2>2, TightControlForms, ParkMoves, RefuseEnds, EndedMoves
  <2>3. CASE Block.kind = "basic"
    <3>1. BasicData(Block.stream, <<>>) => Moves BY <1>2, BasicDataMoves
    <3> QED BY <2>3, <3>1, TightControlForms, ParkMoves, RefuseEnds, EndedMoves
  <2>4. CASE Block.kind \notin {"fill", "jpeg", "basic"}
    BY <2>4, TightControlForms, RefuseEnds, EndedMoves
  <2> QED BY <2>1, <2>2, <2>3, <2>4
<1>4. ASSUME Flow PROVE Good'
  <2>1. AtTight BY <1>1, <1>4, FlowAt DEF Resumed
  <2>2. PICK c, s : Comes("tight", c, s) /\ AfterControl(bad, rect.w, rect.h, T, c, s)
    BY <2>1 DEF AtTight
  <2>3. Taken = s /\ Block = c BY <2>1, <2>2, <1>1, Arrives DEF AtTight
  <2>4. Quiet BY <2>1 DEF AtTight
  <2>5. Refuse => Good' BY AbortedIsGood DEF Refuse
  <2>6. CASE bad /\ s = <<>> BY <2>3, <2>6, <1>1, <1>3, EmptyDies
  <2>7. CASE c.kind = "fill" /\ \E v : s = Field("tight.fill", T, v)
    <3>1. PICK v : s = Field("tight.fill", T, v) BY <2>7
    <3>2. Park("tight.fill", T, <<>>) BY <2>3, <2>7, TightControlForms
    <3>3. T \in Nat BY <1>2, Widths
    <3>4. PICK n \in Nat : n = T BY <3>3
    <3>5. Park("tight.fill", n, <<>>) /\ Taken = Field("tight.fill", n, v) BY <3>1, <3>2, <3>4, <2>3
    <3> QED BY <3>5, <2>4, <1>1, ParkedLast DEF LastFields
  <2>8. CASE c.kind = "jpeg" /\ Compressed("tight.jpeg", s)
    <3>1. Park("tight.length", 1, LengthLocals(JPEG, <<>>, 0, 0)) \/ Refuse
      BY <2>3, <2>8, TightControlForms
    <3>2. Compressed(LengthOf(JPEG = JPEG), s) BY <2>8 DEF LengthOf
    <3> QED BY <3>1, <3>2, <2>3, <2>4, <2>5, <1>1, LengthBegins
  <2>9. CASE /\ c.kind = "basic" /\ c.stream # JPEG
             /\ IF c.explicit THEN \E f, d : IsSeq(d) /\ s = Field("tight.filter", 1, f) \o d
                                             /\ AfterFilter(bad, rect.w, rect.h, T, f, d)
                ELSE DataOf(rect.h * Row(rect.w, T, <<>>), s)
    <3>1. \/ c.explicit /\ Park("tight.filter", 1, [stream |-> c.stream])
          \/ ~c.explicit /\ BasicData(c.stream, <<>>)
          \/ Refuse
      BY <2>3, <2>9, TightControlForms
    <3>2. CASE ~c.explicit /\ BasicData(c.stream, <<>>)
      <4>1. PICK stream : stream = c.stream OBVIOUS
      <4>2. BasicData(stream, <<>>) /\ stream # JPEG /\ DataOf(rect.h * Row(rect.w, T, <<>>), s)
        BY <2>9, <3>2, <4>1
      <4> QED BY <4>2, <2>3, <2>4, <1>1, <1>2, BasicDataGood
    <3>3. CASE c.explicit /\ Park("tight.filter", 1, [stream |-> c.stream])
      <4>1. PICK f, d : /\ IsSeq(d) /\ s = Field("tight.filter", 1, f) \o d
                        /\ AfterFilter(bad, rect.w, rect.h, T, f, d)
        BY <2>9, <3>3
      <4>2. /\ Park("tight.filter", 1, [stream |-> c.stream])
            /\ Taken = Field("tight.filter", 1, f) \o d /\ 1 \in Nat
        BY <3>3, <4>1, <2>3
      <4>3. Comes("tight.filter", f, d)' /\ g'.at = "tight.filter" /\ g'.n = 1
            /\ g'.my = [stream |-> c.stream]
        BY <4>1, <4>2, Parked
      <4>4. rect' = rect /\ T' = T /\ Quiet' /\ bad' = bad BY <2>4, <1>1, KeptFacts
      <4>5. g'.my.stream # JPEG BY <2>9, <4>3
      <4>6. AfterFilter(bad', rect'.w, rect'.h, T', f, d) BY <4>1, <4>4
      <4>7. AtFilter' BY <4>3, <4>4, <4>5, <4>6, Zenon DEF AtFilter
      <4> QED BY <4>3, <4>7 DEF Good, Flow
    <3> QED BY <3>1, <3>2, <3>3, <2>5
  <2> QED BY <2>2, <2>6, <2>7, <2>8, <2>9 DEF AfterControl
<1> QED BY <1>1, <1>3, <1>4, Decoded

\* zrle.py: the length of the block.
LEMMA ZRLELengthKeeps == ASSUME StreamInvariant, ZRLELength PROVE StreamInvariant'
<1>1. Resumed("zrle") /\ Kept BY ElsewhereKeeps DEF ZRLELength
<1>2. Park("zrle.block", Block, [buf |-> g.my.buf]) BY DEF ZRLELength
<1>3. Moves BY <1>2, ParkMoves
<1>4. ASSUME Flow PROVE Good'
  <2>1. AtZRLE BY <1>1, <1>4, FlowAt DEF Resumed
  <2>2. wire # <<>> /\ g.n = 4 BY <2>1, <1>1 DEF AtZRLE, Resumed
  <2>3. PICK n, v : n \in Nat \ {0} /\ Comes("zrle", n, Field("zrle.block", n, v))
    BY <2>1, <2>2 DEF AtZRLE
  <2>4. Quiet BY <2>1, <2>2 DEF AtZRLE
  <2>5. Taken = Field("zrle.block", n, v) /\ Block = n BY <2>2, <2>3, <1>1, Arrives
  <2>6. Park("zrle.block", n, [buf |-> g.my.buf]) BY <1>2, <2>5
  <2> QED BY <2>3, <2>4, <2>5, <2>6, <1>1, ParkedLast DEF LastFields
<1> QED BY <1>1, <1>3, <1>4, Decoded

-------------------------------------------------------------------------------
\* Hextile

\* The tiles of this rectangle have a size, and their pixels a width.
LEMMA TileFacts == ASSUME Sized
                   PROVE  /\ TileCount \in Nat
                          /\ rect.w * rect.h # 0 => TileCount > 0
                          /\ \A k \in 1..TileCount : TileAt(k).w \in Nat /\ TileAt(k).h \in Nat
<1>1. rect.w \in Nat /\ rect.h \in Nat /\ HexTile \in Nat \ {0} BY DecoderAssumption DEF Sized
<1>2. PICK w \in Nat, h \in Nat : w = rect.w /\ h = rect.h BY <1>1
<1>3. /\ Len(TilesOf(w, h, HexTile)) \in Nat
      /\ w * h # 0 => Len(TilesOf(w, h, HexTile)) > 0
      /\ \A k \in 1..Len(TilesOf(w, h, HexTile)) :
            TilesOf(w, h, HexTile)[k].w \in Nat /\ TilesOf(w, h, HexTile)[k].h \in Nat
  BY <1>1, TilesInside
<1> QED BY <1>2, <1>3 DEF TileCount, TileAt

\* A step of the decoder leaves what follows the tile as it is.
LEMMA HexKept ==
    ASSUME Kept, NEW k, NEW s
    PROVE  /\ HexNext(k, s)' = HexNext(k, s) /\ HexRest(k, s)' = HexRest(k, s)
<1>1. rect' = rect /\ bad' = bad /\ sending' = sending /\ bypp' = bypp /\ TileCount' = TileCount
  BY KeptFacts
<1>2. \A j : HexSent(j)' = HexSent(j) BY <1>1 DEF HexSent
<1>3. \A j, r : HexNext(j, r)' = HexNext(j, r) BY <1>1, <1>2 DEF HexNext
<1>4. HexRest(k, s)' = HexRest(k, s) BY <1>1, <1>3 DEF HexRest
<1> QED BY <1>3, <1>4

\* A tile of hextile.py is done: the next subencoding, or the rectangle's end.
LEMMA AfterTileForms ==
    ASSUME NEW buf, NEW background, NEW foreground, AfterTile(buf, background, foreground)
    PROVE  \/ g.my.tile = TileCount /\ PasteBuffer(buf, WirePixel(pixel_format))
           \/ g.my.tile # TileCount
              /\ Park("hextile", 1, TileLocals(buf, g.my.tile + 1, background, foreground, {}))
BY DEF AfterTile, TileCount

LEMMA AfterTileMoves == ASSUME NEW buf, NEW background, NEW foreground,
                               AfterTile(buf, background, foreground)
                        PROVE  Moves
BY AfterTileForms, PasteBufferEnds, EndedMoves, ParkMoves

\* When a tile is done, the next field is the subencoding of the next tile,
\* and behind the last tile there is nothing.
LEMMA AfterTileGood ==
    ASSUME NEW buf, NEW background, NEW foreground, AfterTile(buf, background, foreground),
           NEW k, NEW s, Sized, Kept, OfTile(k), HexRest(k, s), Taken = s
    PROVE  Good'
<1>1. g.my.tile = k /\ k \in 1..TileCount /\ rect.enc = "hextile" BY DEF OfTile
<1>2. Moves BY AfterTileMoves
<1>3. CASE s = <<>> /\ bad BY <1>2, <1>3, EmptyDies
<1>4. CASE s = <<>> /\ k = TileCount /\ sending = <<>>
  <2>1. PasteBuffer(buf, WirePixel(pixel_format)) BY <1>1, <1>4, AfterTileForms
  <2>2. Quiet BY <1>4 DEF Quiet
  <2> QED BY <2>1, <2>2, <1>4, PasteBufferEnds, EndsWell
<1>5. CASE k # TileCount /\ HexNext(k + 1, s)
  <2>1. Park("hextile", 1, TileLocals(buf, k + 1, background, foreground, {}))
    BY <1>1, <1>5, AfterTileForms
  <2>2. wire' = s /\ g'.at = "hextile" /\ g'.n = 1 /\ g'.my.tile = k + 1
    BY <2>1 DEF Park, TileLocals
  <2>3. PICK j : j = k + 1 OBVIOUS
  <2>4. HexNext(j, s)' BY <1>5, <2>3, HexKept
  <2>5. j \in 1..TileCount BY <1>1, <1>5, <2>3, TileFacts
  <2>6. OfTile(j)' BY <1>1, <2>2, <2>3, <2>5, KeptFacts DEF OfTile
  <2>7. AtHextile' BY <2>2, <2>4, <2>6, Zenon DEF AtHextile
  <2> QED BY <2>2, <2>7 DEF Good, Flow
<1> QED BY <1>3, <1>4, <1>5 DEF HexRest

\* hextile.py: the blocks that end a tile.
LEMMA HextileRawKeeps == ASSUME StreamInvariant, HextileRaw PROVE StreamInvariant'
<1>1. Resumed("hextile.raw") /\ Kept BY ElsewhereKeeps DEF HextileRaw
<1>2. PICK buf : AfterTile(buf, 0, 0) BY DEF HextileRaw
<1>3. Moves BY <1>2, AfterTileMoves
<1>4. ASSUME Flow PROVE Good'
  <2>1. AtHexRaw BY <1>1, <1>4, FlowAt DEF Resumed
  <2>2. PICK k, v, s : OfTile(k) /\ Comes("hextile.raw", v, s) /\ HexRest(k, s)
    BY <2>1 DEF AtHexRaw
  <2>3. Taken = s BY <2>2, <1>1, Arrives
  <2> QED BY <2>2, <2>3, <1>1, <1>2, AfterTileGood DEF StreamInvariant
<1> QED BY <1>1, <1>3, <1>4, Decoded

LEMMA HextileSubrectsKeeps == ASSUME StreamInvariant, HextileSubrects PROVE StreamInvariant'
<1>1. Resumed("hextile.subrects") /\ Kept BY ElsewhereKeeps DEF HextileSubrects
<1>2. Refuse \/ \E buf, background, foreground : AfterTile(buf, background, foreground)
  BY DEF HextileSubrects
<1>3. Moves BY <1>2, AfterTileMoves, RefuseEnds, EndedMoves
<1>4. ASSUME Flow PROVE Good'
  <2>1. AtHexSubs BY <1>1, <1>4, FlowAt DEF Resumed
  <2>2. PICK k, v, s : OfTile(k) /\ Comes("hextile.subrects", v, s) /\ HexRest(k, s)
    BY <2>1 DEF AtHexSubs
  <2>3. Taken = s BY <2>2, <1>1, Arrives
  <2>4. Refuse => Good' BY AbortedIsGood DEF Refuse
  <2> QED BY <2>2, <2>3, <2>4, <1>1, <1>2, AfterTileGood DEF StreamInvariant
<1> QED BY <1>1, <1>3, <1>4, Decoded

\* The bytes of its subrectangles
SubsSize(bits, count) == (IF "coloured" \in bits THEN bypp + 2 ELSE 2) * count

\* hextile.py: background, foreground and the number of subrectangles, each
\* there or not; and the block is not there at all when none of them is.
LEMMA HextileBlockForms ==
    ASSUME HextileBlock
    PROVE  \/ Refuse
           \/ /\ "subrects" \notin g.my.bits
              /\ \E buf, background, foreground : AfterTile(buf, background, foreground)
           \/ /\ "subrects" \in g.my.bits
              /\ \E buf, background, foreground :
                    Park("hextile.subrects", SubsSize(g.my.bits, Block.count),
                         TileLocals(buf, g.my.tile, background, foreground, g.my.bits))
<1> DEFINE background == IF "background" \in g.my.bits THEN Block.background ELSE g.my.background
           foreground == IF "foreground" \in g.my.bits THEN Block.foreground ELSE g.my.foreground
           coloured   == "coloured" \in g.my.bits
           buf == Fill(g.my.buf, Tile.x, Tile.y, Tile.w, Tile.h, background)
<1>1. CASE background = 0 BY <1>1 DEF HextileBlock
<1>2. CASE background # 0 /\ "subrects" \notin g.my.bits
  <2>1. AfterTile(buf, background, foreground) BY <1>2 DEF HextileBlock
  <2> HIDE DEF buf, background, foreground
  <2> QED BY <2>1, <1>2
<1>3. CASE background # 0 /\ "subrects" \in g.my.bits
  <2>1. CASE Block.count > 0 /\ ~coloured /\ foreground = 0 BY <1>3, <2>1 DEF HextileBlock
  <2>2. CASE ~(Block.count > 0 /\ ~coloured /\ foreground = 0)
    <3>1. Park("hextile.subrects", SubsSize(g.my.bits, Block.count),
               TileLocals(buf, g.my.tile, background, foreground, g.my.bits))
      BY <1>3, <2>2 DEF HextileBlock, SubsSize
    <3> HIDE DEF buf, background, foreground
    <3> QED BY <3>1, <1>3
  <2> QED BY <2>1, <2>2
<1> HIDE DEF background
<1> QED BY <1>1, <1>2, <1>3

LEMMA HextileBlockKeeps == ASSUME StreamInvariant, HextileBlock PROVE StreamInvariant'
<1>1. Resumed("hextile.block") /\ Kept BY ElsewhereKeeps DEF HextileBlock
<1>2. Sized BY DEF StreamInvariant
<1>3. Moves
  BY HextileBlockForms, AfterTileMoves, ParkMoves, RefuseEnds, EndedMoves
<1>4. ASSUME Flow PROVE Good'
  <2>1. AtHexBlock BY <1>1, <1>4, FlowAt DEF Resumed
  <2>2. PICK k, bits, c, u, s :
            /\ OfTile(k) /\ g.my.bits = bits /\ g.n = HeadSize(bypp, bits) /\ IsSeq(u) /\ IsSeq(s)
            /\ Comes("hextile.block", c, u \o s) /\ HexSubs(bypp, bits, c, u) /\ HexRest(k, s)
    BY <2>1 DEF AtHexBlock
  <2>3. PICK r : r = u \o s OBVIOUS
  <2>4. Taken = r /\ (g.n > 0 => Block = c) BY <2>2, <2>3, <1>1, Arrives
  <2>5. CASE Refuse BY <2>5, AbortedIsGood DEF Refuse
  <2>6. CASE "subrects" \notin bits
             /\ \E buf, background, foreground : AfterTile(buf, background, foreground)
    <3>1. u = <<>> BY <2>2, <2>6 DEF HexSubs
    <3>2. Taken = s BY <2>2, <2>3, <2>4, <3>1, JoinEmpty
    <3> QED BY <3>2, <2>2, <2>6, <1>1, <1>2, AfterTileGood
  <2>7. CASE /\ "subrects" \in bits
             /\ \E buf, background, foreground :
                    Park("hextile.subrects", SubsSize(bits, Block.count),
                         TileLocals(buf, g.my.tile, background, foreground, bits))
    <3>1. bypp \in 2..4 BY <1>2, Widths
    <3>2. g.n > 0 BY <2>2, <2>7, <3>1 DEF HeadSize
    <3>3. Block = c BY <2>4, <3>2
    <3>4. PICK v : c.count \in Nat /\ u = Field("hextile.subrects", SubsSize(bits, c.count), v)
      BY <2>2, <2>7 DEF HexSubs, SubsSize
    <3>5. SubsSize(bits, c.count) \in Nat
      <4>1. PICK e \in Nat : e = IF "coloured" \in bits THEN bypp + 2 ELSE 2 BY <3>1
      <4>2. PICK q \in Nat : q = c.count BY <3>4
      <4>3. e * q \in Nat OBVIOUS
      <4> QED BY <4>1, <4>2, <4>3 DEF SubsSize
    <3>6. PICK n \in Nat : n = SubsSize(bits, c.count) BY <3>5
    <3>7. PICK locals : locals.tile = k /\ Park("hextile.subrects", n, locals)
      BY <2>2, <2>7, <3>3, <3>6 DEF TileLocals, OfTile
    <3>8. Taken = Field("hextile.subrects", n, v) \o s BY <2>3, <2>4, <3>4, <3>6
    <3>9. Comes("hextile.subrects", v, s)' /\ g'.at = "hextile.subrects" /\ g'.my = locals
      BY <3>7, <3>8, <2>2, Parked
    <3>10. OfTile(k)' BY <2>2, <3>7, <3>9, <1>1, KeptFacts DEF OfTile
    <3>11. HexRest(k, s)' BY <2>2, <1>1, HexKept
    <3>12. AtHexSubs' BY <3>9, <3>10, <3>11, Zenon DEF AtHexSubs
    <3> QED BY <3>9, <3>12 DEF Good, Flow
  <2> QED BY <2>2, <2>5, <2>6, <2>7, HextileBlockForms
<1> QED BY <1>1, <1>3, <1>4, Decoded

\* hextile.py: the subencoding settles how many bytes come with it.
LEMMA HextileSubencodingForms ==
    ASSUME HextileSubencoding
    PROVE  \/ "raw" \in Block /\ Park("hextile.raw", Tile.w * Tile.h * bypp, g.my)
           \/ "raw" \notin Block
              /\ Park("hextile.block", HeadSize(bypp, Block),
                      TileLocals(g.my.buf, g.my.tile, g.my.background, g.my.foreground, Block))
BY DEF HextileSubencoding, HeadSize

LEMMA HextileSubencodingKeeps == ASSUME StreamInvariant, HextileSubencoding PROVE StreamInvariant'
<1>1. Resumed("hextile") /\ Kept BY ElsewhereKeeps DEF HextileSubencoding
<1>2. Sized BY DEF StreamInvariant
<1>3. Moves BY HextileSubencodingForms, ParkMoves
<1>4. ASSUME Flow PROVE Good'
  <2>1. AtHextile BY <1>1, <1>4, FlowAt DEF Resumed
  <2>2. PICK k, r : OfTile(k) /\ wire = r /\ HexNext(k, r) BY <2>1 DEF AtHextile
  <2>3. g.n = 1 /\ g.at = "hextile" /\ wire # <<>> BY <2>1, <1>1 DEF AtHextile, Resumed
  <2>4. HexSent(k) /\ HexFields(rect.w, rect.h, bypp, k, r) BY <2>2, <2>3 DEF HexNext
  <2>5. PICK bits, u : /\ IsSeq(u) /\ r = Field("hextile", 1, bits) \o u
                       /\ HexAfter(rect.w, rect.h, bypp, k, bits, u)
    BY <2>4 DEF HexFields
  <2>6. Comes("hextile", bits, u) BY <2>2, <2>3, <2>5 DEF Comes
  <2>7. Taken = u /\ Block = bits BY <2>3, <2>6, <1>1, Arrives
  <2>8. HexRest(k, <<>>) BY <2>4 DEF HexRest, HexSent, HexNext
  <2>9. HexRest(k, <<>>)' BY <2>8, <1>1, HexKept
  <2>10. k \in 1..TileCount /\ g.my.tile = k BY <2>2 DEF OfTile
  <2>11. CASE "raw" \in bits
    <3>1. PICK v : u = Field("hextile.raw", TileAt(k).w * TileAt(k).h * bypp, v)
      BY <2>5, <2>11 DEF HexAfter, TileAt
    <3>2. Tile = TileAt(k) BY <2>10 DEF Tile, TileAt
    <3>3. TileAt(k).w * TileAt(k).h * bypp \in Nat
      <4>1. TileAt(k).w \in Nat /\ TileAt(k).h \in Nat BY <2>10, <1>2, TileFacts
      <4>2. bypp \in Nat BY <1>2, Widths
      <4>3. PICK a \in Nat, b \in Nat, c \in Nat : a = TileAt(k).w /\ b = TileAt(k).h /\ c = bypp
        BY <4>1, <4>2
      <4>4. a * b \in Nat OBVIOUS
      <4>5. (a * b) * c \in Nat BY <4>4
      <4> QED BY <4>3, <4>5
    <3>4. PICK n \in Nat : n = TileAt(k).w * TileAt(k).h * bypp BY <3>3
    <3>10. PICK locals : locals = g.my OBVIOUS
    <3>5. Park("hextile.raw", n, locals)
      BY <2>7, <2>11, <3>2, <3>4, <3>10, HextileSubencodingForms
    <3>6. Taken = Field("hextile.raw", n, v) \o <<>> BY <2>7, <3>1, <3>4, FieldAlone
    <3>7. Comes("hextile.raw", v, <<>>)' /\ g'.at = "hextile.raw" /\ g'.my = locals
      BY <3>5, <3>6, EmptyIsSeq, Parked
    <3>8. OfTile(k)' BY <2>2, <3>7, <3>10, <1>1, KeptFacts DEF OfTile
    <3>9. AtHexRaw' BY <3>7, <3>8, <2>9, Zenon DEF AtHexRaw
    <3> QED BY <3>7, <3>9 DEF Good, Flow
  <2>12. CASE "raw" \notin bits
    <3>1. PICK c, d : /\ IsSeq(d) /\ u = Field("hextile.block", HeadSize(bypp, bits), c) \o d
                      /\ HexSubs(bypp, bits, c, d)
      BY <2>5, <2>12 DEF HexAfter
    <3>2. HeadSize(bypp, bits) \in Nat
      <4>1. bypp \in Nat BY <1>2, Widths
      <4> QED BY <4>1 DEF HeadSize
    <3>3. PICK n \in Nat : n = HeadSize(bypp, bits) BY <3>2
    <3>4. PICK locals : /\ locals.tile = k /\ locals.bits = bits
                        /\ Park("hextile.block", n, locals)
      BY <2>7, <2>10, <2>12, <3>3, HextileSubencodingForms DEF TileLocals
    <3>5. Taken = Field("hextile.block", n, c) \o d BY <2>7, <3>1, <3>3
    <3>6. Comes("hextile.block", c, d)' /\ g'.at = "hextile.block" /\ g'.n = n /\ g'.my = locals
      BY <3>1, <3>4, <3>5, Parked
    <3>7. d \o <<>> = d BY <3>1, JoinEmpty
    <3>8. Comes("hextile.block", c, d \o <<>>)' BY <3>6, <3>7
    <3>9. bypp' = bypp /\ rect' = rect /\ TileCount' = TileCount BY <1>1, KeptFacts
    <3>10. OfTile(k)' BY <2>2, <3>4, <3>6, <3>9 DEF OfTile
    <3>11. g'.my.bits = bits /\ g'.n = HeadSize(bypp', bits) /\ HexSubs(bypp', bits, c, d)
      BY <3>1, <3>3, <3>4, <3>6, <3>9
    <3>12. AtHexBlock'
      BY <3>1, <3>8, <3>10, <3>11, <2>9, EmptyIsSeq, Zenon DEF AtHexBlock
    <3> QED BY <3>6, <3>12 DEF Good, Flow
  <2> QED BY <2>11, <2>12
<1> QED BY <1>1, <1>3, <1>4, Decoded

-------------------------------------------------------------------------------
\* The start of a rectangle

\* _handleRectangle, by encoding: what the decoder asks for first.
LEMMA HandleForms ==
    ASSUME HandleRectangle
    PROVE  \/ Refuse
           \/ rect.enc = "raw" /\ Park("raw", rect.w * rect.h * bypp, <<>>)
           \/ rect.enc \in {"rre", "corre"} /\ \E locals : Park("rre", 4 + bypp, locals)
           \/ /\ rect.enc = "hextile" /\ rect.w * rect.h = 0
              /\ \E buf, layout : PasteBuffer(buf, layout)
           \/ /\ rect.enc = "hextile" /\ rect.w * rect.h # 0
              /\ \E locals : locals.tile = 1 /\ Park("hextile", 1, locals)
           \/ rect.enc = "zrle" /\ \E locals : Park("zrle", 4, locals)
           \/ rect.enc = "tight" /\ Park("tight", 1, <<>>)
           \/ rect.enc = "copyrect" /\ Park("copyrect", 4, <<>>)
           \/ rect.enc = "cursor"
              /\ Park("cursor", rect.w * rect.h * bypp + ((rect.w + 7) \div 8) * rect.h, <<>>)
           \/ rect.enc = "control" /\ Done
           \/ rect.enc \notin Encodings
<1>1. CASE rect.enc \in WholeRect \cup Filling /\ ~requireFits BY <1>1 DEF HandleRectangle
<1>2. CASE ~(rect.enc \in WholeRect \cup Filling /\ ~requireFits)
  <2>1. CASE rect.enc = "raw" BY <1>2, <2>1 DEF HandleRectangle
  <2>2. CASE rect.enc \in {"rre", "corre"}
    <3>1. Park("rre", 4 + bypp, [buf |-> rectBuffer]) BY <1>2, <2>2 DEF HandleRectangle
    <3> QED BY <3>1, <2>2
  <2>3. CASE rect.enc = "hextile" /\ rect.w * rect.h = 0
    <3>1. PasteBuffer(rectBuffer, WirePixel(pixel_format)) BY <1>2, <2>3 DEF HandleRectangle
    <3> QED BY <3>1, <2>3
  <2>4. CASE rect.enc = "hextile" /\ rect.w * rect.h # 0
    <3>1. Park("hextile", 1, TileLocals(rectBuffer, 1, 0, 0, {}))
      BY <1>2, <2>4 DEF HandleRectangle
    <3>2. TileLocals(rectBuffer, 1, 0, 0, {}).tile = 1 BY DEF TileLocals
    <3> QED BY <3>1, <3>2, <2>4
  <2>5. CASE rect.enc = "zrle"
    <3>1. Park("zrle", 4, [buf |-> rectBuffer]) BY <1>2, <2>5 DEF HandleRectangle
    <3> QED BY <3>1, <2>5
  <2>6. CASE rect.enc = "tight" BY <1>2, <2>6 DEF HandleRectangle
  <2>7. CASE rect.enc = "copyrect" BY <1>2, <2>7 DEF HandleRectangle
  <2>8. CASE rect.enc = "cursor" BY <1>2, <2>8 DEF HandleRectangle
  <2>9. CASE rect.enc = "control" BY <1>2, <2>9 DEF HandleRectangle
  <2> QED BY <2>1, <2>2, <2>3, <2>4, <2>5, <2>6, <2>7, <2>8, <2>9
           DEF Encodings, WholeRect, Filling, ForClient
<1> QED BY <1>1, <1>2

LEMMA HandleRectangleKeeps == ASSUME StreamInvariant, HandleRectangle PROVE StreamInvariant'
<1>1. Resumed("rectangle") /\ Kept BY DEF HandleRectangle, Kept
<1>2. Sized BY DEF StreamInvariant
<1>3. rect.enc \in Encodings BY <1>2 DEF Sized
<1>4. Moves BY <1>3, HandleForms, ParkMoves, EndedMoves, RefuseEnds, PasteBufferEnds, DoneEnds
<1>5. ASSUME Flow PROVE Good'
  <2>1. AtRectangle BY <1>1, <1>5, FlowAt DEF Resumed
  <2>2. g.n = 12 /\ wire # <<>> BY <2>1, <1>1 DEF AtRectangle, Idle, Resumed
  <2>3. PICK v, s : v = rect /\ Comes("rectangle", v, s) /\ Follows(s) BY <2>1, <2>2 DEF AtRectangle
  <2>4. Taken = s BY <2>3, <1>1, Arrives
  <2>5. bypp \in 2..4 /\ T \in 2..4 /\ rect.w \in Nat /\ rect.h \in Nat BY <1>2, Widths
  <2>6. CASE bad /\ s = <<>> BY <2>4, <2>6, <1>1, <1>4, EmptyDies
  <2>7. CASE Refuse BY <2>7, AbortedIsGood DEF Refuse
  <2>8. rect.enc \notin {"hextile", "zrle"} => Quiet BY DEF Quiet
  <2>9. rect.w * rect.h \in Nat
    <3>1. PICK a \in Nat, b \in Nat : a = rect.w /\ b = rect.h BY <2>5
    <3>2. a * b \in Nat OBVIOUS
    <3> QED BY <3>1, <3>2
  <2>10. rect.w * rect.h * bypp \in Nat
    <3>1. PICK a \in Nat, b \in Nat : a = rect.w * rect.h /\ b = bypp BY <2>5, <2>9
    <3>2. a * b \in Nat OBVIOUS
    <3> QED BY <3>1, <3>2
  <2>11. CASE rect.enc = "raw" /\ ~(bad /\ s = <<>>) /\ ~Refuse
    <3>1. PICK n \in Nat : n = rect.w * rect.h * bypp BY <2>10
    <3>2. PICK w : s = Field("raw", n, w) BY <2>3, <2>11, <3>1 DEF Follows
    <3>3. Park("raw", n, <<>>) BY <2>11, <3>1, <1>3, HandleForms
    <3> QED BY <3>2, <3>3, <2>4, <2>8, <2>11, <1>1, ParkedLast DEF LastFields
  <2>12. CASE rect.enc = "copyrect" /\ ~(bad /\ s = <<>>) /\ ~Refuse
    <3>1. PICK n \in Nat : n = 4 OBVIOUS
    <3>2. PICK w : s = Field("copyrect", n, w) BY <2>3, <2>12, <3>1 DEF Follows
    <3>3. Park("copyrect", n, <<>>) BY <2>12, <3>1, <1>3, HandleForms
    <3> QED BY <3>2, <3>3, <2>4, <2>8, <2>12, <1>1, ParkedLast DEF LastFields
  <2>13. CASE rect.enc = "cursor" /\ ~(bad /\ s = <<>>) /\ ~Refuse
    <3>1. ((rect.w + 7) \div 8) * rect.h \in Nat
      <4>1. (rect.w + 7) \div 8 \in Nat BY <2>5
      <4>2. PICK a \in Nat, b \in Nat : a = (rect.w + 7) \div 8 /\ b = rect.h BY <4>1, <2>5
      <4>3. a * b \in Nat OBVIOUS
      <4> QED BY <4>2, <4>3
    <3>2. PICK n \in Nat : n = rect.w * rect.h * bypp + ((rect.w + 7) \div 8) * rect.h
      BY <2>10, <3>1
    <3>3. PICK w : s = Field("cursor", n, w) BY <2>3, <2>13, <3>2 DEF Follows
    <3>4. Park("cursor", n, <<>>) BY <2>13, <3>2, <1>3, HandleForms
    <3> QED BY <3>3, <3>4, <2>4, <2>8, <2>13, <1>1, ParkedLast DEF LastFields
  <2>14. CASE rect.enc = "control" /\ ~(bad /\ s = <<>>) /\ ~Refuse
    <3>1. Taken = <<>> BY <2>3, <2>4, <2>14 DEF Follows
    <3>2. Done BY <2>14, HandleForms DEF Encodings, ForClient
    <3> QED BY <3>1, <3>2, <2>8, <2>14, <1>1, DoneEnds, EndsWell
  <2>15. CASE rect.enc \in {"rre", "corre"} /\ ~(bad /\ s = <<>>) /\ ~Refuse
    <3>1. PICK n \in Nat : n = 4 + bypp /\ n > 0 BY <2>5
    <3>2. PICK c, w : /\ c.count \in Nat
                      /\ s = Field("rre", n, c) \o Field("subrectangles", (bypp + COORDS) * c.count, w)
      BY <2>3, <2>15, <3>1 DEF Follows
    <3>3. PICK rest : rest = Field("subrectangles", (bypp + COORDS) * c.count, w) /\ IsSeq(rest)
      BY FieldIsSeq
    <3>4. PICK locals : Park("rre", n, locals) BY <2>15, <3>1, <1>3, HandleForms
    <3>5. Taken = Field("rre", n, c) \o rest BY <2>4, <3>2, <3>3
    <3>11. IsSeq(rest) /\ Park("rre", n, locals) BY <3>3, <3>4
    <3>6. Comes("rre", c, rest)' /\ g'.at = "rre" /\ g'.n = n BY <3>5, <3>11, Parked
    <3>7. Quiet' BY <2>8, <2>15, <1>1, KeptFacts
    <3>8. rest = Field("subrectangles", (bypp' + COORDS') * c.count, w) BY <3>3, <1>1, KeptFacts
    <3>9. Comes("rre", c, Field("subrectangles", (bypp + COORDS) * c.count, w))' BY <3>6, <3>8
    <3>10. AtRRE' BY <3>1, <3>2, <3>6, <3>7, <3>9 DEF AtRRE
    <3> QED BY <3>6, <3>10 DEF Good, Flow
  <2>16. CASE rect.enc = "hextile" /\ rect.w * rect.h = 0 /\ ~(bad /\ s = <<>>) /\ ~Refuse
    <3>1. Taken = <<>> /\ Quiet BY <2>3, <2>4, <2>16 DEF Follows, Quiet
    <3>2. \E buf, layout : PasteBuffer(buf, layout) BY <2>16, HandleForms DEF Encodings, Filling
    <3> QED BY <3>1, <3>2, <1>1, PasteBufferEnds, EndsWell
  <2>17. CASE rect.enc = "hextile" /\ rect.w * rect.h # 0 /\ ~(bad /\ s = <<>>) /\ ~Refuse
    <3>1. s = <<>> /\ sending.tile = 1 BY <2>3, <2>17 DEF Follows
    <3>2. PICK locals : locals.tile = 1 /\ Park("hextile", 1, locals)
      BY <2>17, HandleForms DEF Encodings, Filling
    <3>3. wire' = <<>> /\ g'.at = "hextile" /\ g'.n = 1 /\ g'.my.tile = 1
      BY <3>1, <3>2, <2>4 DEF Park
    <3>4. 1 \in 1..TileCount BY <2>17, <1>2, TileFacts
    <3>5. OfTile(1)' BY <2>17, <3>3, <3>4, <1>1, KeptFacts DEF OfTile
    <3>6. HexNext(1, <<>>)' BY <3>1, <1>1, KeptFacts DEF HexNext
    <3>7. AtHextile' BY <3>3, <3>5, <3>6, Zenon DEF AtHextile
    <3> QED BY <3>3, <3>7 DEF Good, Flow
  <2>18. CASE rect.enc = "zrle" /\ ~(bad /\ s = <<>>) /\ ~Refuse
    <3>1. s = <<>> /\ Counting BY <2>3, <2>18 DEF Follows
    <3>2. PICK locals : Park("zrle", 4, locals) BY <2>18, HandleForms DEF Encodings, Filling
    <3>3. wire' = <<>> /\ g'.at = "zrle" /\ g'.n = 4 BY <3>1, <3>2, <2>4 DEF Park
    <3>4. rect'.enc = "zrle" /\ Counting' BY <3>1, <2>18, <1>1, KeptFacts
    <3>5. AtZRLE' BY <3>3, <3>4 DEF AtZRLE
    <3> QED BY <3>3, <3>5 DEF Good, Flow
  <2>19. CASE rect.enc = "tight" /\ ~(bad /\ s = <<>>) /\ ~Refuse
    <3>1. PICK c, u : /\ IsSeq(u) /\ s = Field("tight", 1, c) \o u
                      /\ AfterControl(bad, rect.w, rect.h, T, c, u)
      BY <2>3, <2>19 DEF Follows
    <3>2. Park("tight", 1, <<>>) BY <2>19, HandleForms DEF Encodings, WholeRect
    <3>3. Taken = Field("tight", 1, c) \o u /\ 1 \in Nat BY <2>4, <3>1
    <3>4. Comes("tight", c, u)' /\ g'.at = "tight" /\ g'.n = 1 BY <3>1, <3>2, <3>3, Parked
    <3>5. Quiet' /\ rect' = rect /\ bad' = bad /\ T' = T BY <2>8, <2>19, <1>1, KeptFacts
    <3>6. AfterControl(bad', rect'.w, rect'.h, T', c, u) BY <3>1, <3>5
    <3>7. AtTight' BY <3>4, <3>5, <3>6, Zenon DEF AtTight
    <3> QED BY <3>4, <3>7 DEF Good, Flow
  <2> QED BY <2>6, <2>7, <2>11, <2>12, <2>13, <2>14, <2>15, <2>16, <2>17, <2>18, <2>19, <1>3
          DEF Encodings, WholeRect, Filling, ForClient
<1> QED BY <1>1, <1>4, <1>5, Decoded

-------------------------------------------------------------------------------
\* The server

\* The rectangles of an encoding are that encoding's, and have a size.
LEMMA RectsTyped == ASSUME NEW enc \in Encodings, NEW r \in Rects(enc)
                    PROVE  r.enc = enc /\ r.w \in Nat /\ r.h \in Nat
<1>1. PICK sizes \in [Encodings -> SUBSET (Nat \X Nat)] :
            \E s \in sizes[enc] : r = [enc |-> enc, w |-> s[1], h |-> s[2]]
  BY DecoderAssumption, ServerAssumption DEF Rects
<1>2. PICK s \in Nat \X Nat : r = [enc |-> enc, w |-> s[1], h |-> s[2]] BY <1>1
<1> QED BY <1>2

\* What a new rectangle changes, and what it leaves.
LEMMA BeginFacts ==
    ASSUME NEW r, NEW fields, NEW image, NEW v, NEW more, BeginAs(r, fields, image, v, more)
    PROVE  /\ rect' = r /\ verdict' = v /\ sending' = more
           /\ wire' = Field("rectangle", 12, r) \o fields
           /\ bypp' = bypp /\ T' = T /\ g' = g /\ pixel_format' = pixel_format
BY DEF BeginAs, bypp, T

\* The client is to refuse what breaks its encoding.
LEMMA Judged == ASSUME NEW breaks \in BOOLEAN, verdict' = Verdict(breaks) PROVE bad' = breaks
BY DEF Verdict, bad

\* A rectangle begins behind the last one's end: its header is what the
\* parser waits for, and what follows the header is its encoding's.
LEMMA Begun ==
    ASSUME NEW r, NEW fields, NEW image, NEW v, NEW more, BeginAs(r, fields, image, v, more),
           StreamInvariant, Ready, r.enc \in Encodings, r.w \in Nat, r.h \in Nat,
           NEW s, s = fields, IsSeq(s), Follows(s)'
    PROVE  StreamInvariant'
<1>1. rect' = r /\ g' = Idle /\ pixel_format' = pixel_format BY BeginFacts DEF Ready
<1>2. wire' = Field("rectangle", 12, r) \o s BY BeginFacts
<1>3. g'.at = "rectangle" /\ g'.n = 12 BY <1>1 DEF Idle
<1>4. Comes("rectangle", r, s)' BY <1>2, <1>3 DEF Comes
<1>5. AtRectangle' BY <1>1, <1>4 DEF AtRectangle, Idle
<1>6. Good' BY <1>3, <1>5 DEF Good, Flow
<1>7. Sized' BY <1>1 DEF StreamInvariant, Sized
<1> QED BY <1>6, <1>7 DEF StreamInvariant

\* The rectangles whose server writes them in one go: one too large for the
\* framebuffer, and Raw, CopyRect, Cursor, the pseudo-encodings and RRE.
LEMMA SrvTooLargeKeeps == ASSUME StreamInvariant, SrvTooLarge PROVE StreamInvariant'
<1>1. PICK enc \in WholeRect \cup Filling : \E r \in Rects(enc) : Begin(r, <<>>, <<>>, TRUE, <<>>)
  BY DEF SrvTooLarge
<1>2. PICK r \in Rects(enc) : Begin(r, <<>>, <<>>, TRUE, <<>>) BY <1>1
<1>3. enc \in Encodings BY DEF Encodings
<1>4. r.enc \in Encodings /\ r.w \in Nat /\ r.h \in Nat BY <1>3, RectsTyped
<1>5. bad' BY <1>2, BeginFacts, Judged DEF Begin
<1>6. Follows(<<>>)' BY <1>5 DEF Follows
<1> QED BY <1>2, <1>4, <1>6, EmptyIsSeq, Begun DEF SrvTooLarge, Begin

LEMMA SrvControlKeeps == ASSUME StreamInvariant, SrvControl PROVE StreamInvariant'
<1>1. PICK r \in Rects("control") : Begin(r, <<>>, <<>>, FALSE, <<>>) BY DEF SrvControl
<1>2. "control" \in Encodings BY DEF Encodings
<1>3. r.enc = "control" /\ r.w \in Nat /\ r.h \in Nat BY <1>2, RectsTyped
<1>4. rect' = r BY <1>1, BeginFacts DEF Begin
<1>5. Follows(<<>>)' BY <1>3, <1>4 DEF Follows
<1> QED BY <1>1, <1>2, <1>3, <1>5, EmptyIsSeq, Begun DEF SrvControl, Begin

LEMMA SrvRawKeeps == ASSUME StreamInvariant, SrvRaw PROVE StreamInvariant'
<1>1. PICK r, im : /\ r \in Rects("raw")
                   /\ Begin(r, Field("raw", r.w * r.h * PixelWidth, im), At(Box(r), im), FALSE, <<>>)
  BY DEF SrvRaw
<1>2. "raw" \in Encodings BY DEF Encodings, WholeRect
<1>3. r.enc = "raw" /\ r.w \in Nat /\ r.h \in Nat BY <1>1, <1>2, RectsTyped
<1>4. PICK s : s = Field("raw", r.w * r.h * PixelWidth, im) /\ IsSeq(s) BY FieldIsSeq
<1>5. rect' = r /\ bypp' = PixelWidth BY <1>1, Widths, BeginFacts DEF StreamInvariant, Begin
<1>6. s = Field("raw", rect'.w * rect'.h * bypp', im) BY <1>4, <1>5
<1>7. Follows(s)' BY <1>3, <1>5, <1>6, Zenon DEF Follows
<1> QED BY <1>1, <1>2, <1>3, <1>4, <1>7, Begun DEF SrvRaw, Begin

LEMMA SrvCopyRectKeeps == ASSUME StreamInvariant, SrvCopyRect PROVE StreamInvariant'
<1>1. PICK r, v, broken : /\ r \in Rects("copyrect")
                          /\ Begin(r, Field("copyrect", 4, v), <<>>, broken, <<>>)
  BY DEF SrvCopyRect
<1>2. "copyrect" \in Encodings BY DEF Encodings, ForClient
<1>3. r.enc = "copyrect" /\ r.w \in Nat /\ r.h \in Nat BY <1>1, <1>2, RectsTyped
<1>4. PICK s : s = Field("copyrect", 4, v) /\ IsSeq(s) BY FieldIsSeq
<1>5. rect' = r BY <1>1, BeginFacts DEF Begin
<1>6. Follows(s)' BY <1>3, <1>4, <1>5, Zenon DEF Follows
<1> QED BY <1>1, <1>2, <1>3, <1>4, <1>6, Begun DEF SrvCopyRect, Begin

LEMMA SrvCursorKeeps == ASSUME StreamInvariant, SrvCursor PROVE StreamInvariant'
<1>1. PICK r \in Rects("cursor") :
            Begin(r, Field("cursor", r.h * (r.w * PixelWidth + (r.w + 7) \div 8), "cursor"),
                  <<>>, FALSE, <<>>)
  BY DEF SrvCursor
<1>2. "cursor" \in Encodings BY DEF Encodings, ForClient
<1>3. r.enc = "cursor" /\ r.w \in Nat /\ r.h \in Nat BY <1>2, RectsTyped
<1>4. PICK s : /\ s = Field("cursor", r.h * (r.w * PixelWidth + (r.w + 7) \div 8), "cursor")
               /\ IsSeq(s)
  BY FieldIsSeq
<1>5. rect' = r /\ bypp' = PixelWidth /\ PixelWidth \in Nat
  BY <1>1, Widths DEF StreamInvariant, Begin, BeginAs, bypp
<1>6. r.h * (r.w * PixelWidth + (r.w + 7) \div 8)
      = r.w * r.h * PixelWidth + ((r.w + 7) \div 8) * r.h
  <2>1. (r.w + 7) \div 8 \in Nat BY <1>3
  <2>2. PICK w \in Nat, h \in Nat, b \in Nat, m \in Nat :
            w = r.w /\ h = r.h /\ b = PixelWidth /\ m = (r.w + 7) \div 8
    BY <2>1, <1>3, <1>5
  <2>3. h * (w * b + m) = w * h * b + m * h OBVIOUS
  <2> QED BY <2>2, <2>3
<1>7. s = Field("cursor", rect'.w * rect'.h * bypp' + ((rect'.w + 7) \div 8) * rect'.h, "cursor")
  BY <1>4, <1>5, <1>6
<1>8. Follows(s)' BY <1>3, <1>5, <1>7, Zenon DEF Follows
<1> QED BY <1>1, <1>2, <1>3, <1>4, <1>8, Begun DEF SrvCursor, Begin

\* Subrectangles can be counted.
LEMMA SubListsAreSeqs == ASSUME NEW w, NEW h, NEW subs \in SubLists(w, h) PROVE Len(subs) \in Nat
<1>1. CASE subs = <<>> BY <1>1
<1>2. CASE \E s : subs = <<s>> BY <1>2
<1>3. CASE \E r, s : subs = <<r, s>> BY <1>3
<1> QED BY <1>1, <1>2, <1>3 DEF SubLists

LEMMA SrvRREKeeps == ASSUME StreamInvariant, SrvRRE PROVE StreamInvariant'
<1>1. PICK enc, colour, r, subs :
        /\ enc \in {"rre", "corre"} /\ r \in Rects(enc) /\ subs \in SubLists(r.w, r.h)
        /\ BeginAs(r, Field("rre", 4 + PixelWidth, [count |-> Len(subs), colour |-> colour])
                    \o Field("subrectangles",
                             Len(subs) * (PixelWidth + IF enc = "rre" THEN 8 ELSE 4), subs),
                   Drawn(subs, 0, 0, Plain(Box(r), colour)), RREVerdict(subs, r.w, r.h), <<>>)
  BY DEF SrvRRE
<1>2. enc \in Encodings BY <1>1 DEF Encodings, Filling
<1>3. r.enc = enc /\ r.w \in Nat /\ r.h \in Nat BY <1>1, <1>2, RectsTyped
<1>4. PICK c : c = [count |-> Len(subs), colour |-> colour] OBVIOUS
<1>5. c.count = Len(subs) /\ Len(subs) \in Nat BY <1>1, <1>4, SubListsAreSeqs
<1>6. PICK s : s = Field("rre", 4 + PixelWidth, c)
                   \o Field("subrectangles",
                            Len(subs) * (PixelWidth + IF enc = "rre" THEN 8 ELSE 4), subs)
  OBVIOUS
<1>7. rect' = r /\ bypp' = PixelWidth /\ PixelWidth \in Nat
  BY <1>1, Widths, BeginFacts DEF StreamInvariant, Begin
<1>8. COORDS' = IF enc = "rre" THEN 8 ELSE 4 BY <1>3, <1>7 DEF COORDS
<1>9. Len(subs) * (PixelWidth + IF enc = "rre" THEN 8 ELSE 4) = (bypp' + COORDS') * c.count
  <2>1. PICK a \in Nat, b \in Nat : a = Len(subs) /\ b = PixelWidth + IF enc = "rre" THEN 8 ELSE 4
    BY <1>5, <1>7
  <2>2. a * b = b * a OBVIOUS
  <2> QED BY <2>1, <2>2, <1>5, <1>7, <1>8
<1>10. s = Field("rre", 4 + bypp', c) \o Field("subrectangles", (bypp' + COORDS') * c.count, subs)
  BY <1>6, <1>7, <1>9
<1>11. IsSeq(s) BY <1>6, FieldIsSeq, JoinIsSeq
<1>12. rect'.enc \in {"rre", "corre"} /\ c.count \in Nat BY <1>1, <1>3, <1>5, <1>7
<1>13. Follows(s)' BY <1>10, <1>12, Zenon DEF Follows
<1>14. BeginAs(r, s, Drawn(subs, 0, 0, Plain(Box(r), colour)), RREVerdict(subs, r.w, r.h), <<>>)
  BY <1>1, <1>4, <1>6
<1> QED BY <1>2, <1>3, <1>11, <1>13, <1>14, Begun DEF SrvRRE

\* The rectangles whose server goes on tile by tile: at first only the header.
LEMMA SrvHextileKeeps == ASSUME StreamInvariant, SrvHextile PROVE StreamInvariant'
<1>1. PICK r \in Rects("hextile") :
        Begin(r, <<>>, <<>>, FALSE,
              IF r.w * r.h = 0 THEN <<>> ELSE [tile |-> 1, bg |-> 0, fg |-> 0])
  BY DEF SrvHextile
<1>2. "hextile" \in Encodings BY DEF Encodings, Filling
<1>3. r.enc = "hextile" /\ r.w \in Nat /\ r.h \in Nat BY <1>2, RectsTyped
<1>4. rect' = r /\ sending' = IF r.w * r.h = 0 THEN <<>> ELSE [tile |-> 1, bg |-> 0, fg |-> 0]
  BY <1>1 DEF Begin, BeginAs
<1>5. Follows(<<>>)'
  <2>1. CASE r.w * r.h = 0 BY <1>3, <1>4, <2>1 DEF Follows
  <2>2. CASE r.w * r.h # 0
    <3>1. sending'.tile = 1 BY <1>4, <2>2
    <3> QED BY <1>3, <1>4, <2>2, <3>1 DEF Follows
  <2> QED BY <2>1, <2>2
<1> QED BY <1>1, <1>2, <1>3, <1>5, EmptyIsSeq, Begun DEF SrvHextile, Begin

LEMMA SrvZRLEKeeps == ASSUME StreamInvariant, SrvZRLE PROVE StreamInvariant'
<1>1. PICK r \in Rects("zrle") :
        Begin(r, <<>>, <<>>, FALSE, [tile |-> 1, data |-> <<>>, ill |-> FALSE])
  BY DEF SrvZRLE
<1>2. "zrle" \in Encodings BY DEF Encodings, Filling
<1>3. r.enc = "zrle" /\ r.w \in Nat /\ r.h \in Nat BY <1>2, RectsTyped
<1>4. rect' = r /\ sending'.tile = 1 BY <1>1 DEF Begin, BeginAs
<1>5. Counting' BY <1>4 DEF Counting
<1>6. Follows(<<>>)' BY <1>3, <1>4, <1>5 DEF Follows
<1> QED BY <1>1, <1>2, <1>3, <1>6, EmptyIsSeq, Begun DEF SrvZRLE, Begin
-------------------------------------------------------------------------------
\* The server of Hextile, tile by tile

\* The decoder has read all there is of the tiles before tile k
HexWaits(k) ==
    \/ g.at = "hextile" /\ g.n = 1 /\ OfTile(k)
    \/ /\ g.n = 0 /\ k - 1 # TileCount /\ OfTile(k - 1) /\ k \in Nat
       /\ \/ g.at \in {"hextile.raw", "hextile.subrects"}
          \/ g.at = "hextile.block" /\ \E bits, c :
                g.my.bits = bits /\ HeadSize(bypp, bits) = 0 /\ HexSubs(bypp, bits, c, <<>>)

\* A tile has at least its subencoding, so with nothing on the wire the
\* tile is still to be sent.
LEMMA FieldsAreSomething == ASSUME NEW w, NEW h, NEW bp, NEW k PROVE ~HexFields(w, h, bp, k, <<>>)
<1>1. SUFFICES ASSUME NEW bits, NEW u, IsSeq(u), <<>> = Field("hextile", 1, bits) \o u PROVE FALSE
  BY DEF HexFields
<1>2. PICK v : v = <<>> OBVIOUS
<1>3. Begins(v, "hextile", 1, bits, u) BY <1>1, <1>2, FieldFirst
<1> QED BY <1>2, <1>3 DEF Begins

LEMMA NextIsServed == ASSUME NEW k, HexNext(k, <<>>) PROVE sending.tile = k
BY FieldsAreSomething DEF HexNext

LEMMA RestIsServed == ASSUME NEW k, HexRest(k, <<>>), sending # <<>>, ~bad
                      PROVE  k # TileCount /\ sending.tile = k + 1
<1>1. k # TileCount /\ HexNext(k + 1, <<>>) BY DEF HexRest
<1>2. PICK n : n = k + 1 OBVIOUS
<1>3. HexNext(n, <<>>) BY <1>1, <1>2
<1> QED BY <1>1, <1>2, <1>3, NextIsServed

\* When the server sends the next tile, the decoder has read all those before
\* it, but for blocks of no bytes it has not been given yet.
LEMMA HexWaiting == ASSUME StreamInvariant, Sending("hextile")
                    PROVE  \E k : k = sending.tile /\ HexWaits(k)
<1>1. rect.enc = "hextile" /\ sending # <<>> /\ wire = <<>> /\ ~bad /\ ~aborted BY DEF Sending
<1>2. ~Quiet BY <1>1 DEF Quiet
<1>3. Flow BY <1>1 DEF StreamInvariant, Good, Dead
<1>4. g.at # "rectangle"
  <2>1. SUFFICES ASSUME AtRectangle PROVE FALSE BY <1>3, FlowAt
  <2>2. PICK v, s : g = Idle /\ Comes("rectangle", v, s) BY <2>1, <1>2 DEF AtRectangle
  <2>3. g.n = 0 BY <2>2, <1>1, Nothing
  <2> QED BY <2>2, <2>3 DEF Idle
<1>5. \/ g.at = "hextile" /\ AtHextile
      \/ g.at = "hextile.raw" /\ AtHexRaw
      \/ g.at = "hextile.block" /\ AtHexBlock
      \/ g.at = "hextile.subrects" /\ AtHexSubs
  BY <1>1, <1>2, <1>3, <1>4 DEF Flow, AtLast, AtRRE, AtZRLE, AtTight, AtFilter, AtPaletteSize,
                                AtPalette, AtLength
<1>6. \A k : OfTile(k) => k \in Nat /\ (k + 1) - 1 = k BY DEF OfTile
<1>7. CASE g.at = "hextile" /\ AtHextile
  <2>1. PICK k, s : g.n = 1 /\ OfTile(k) /\ wire = s /\ HexNext(k, s) BY <1>7 DEF AtHextile
  <2>2. sending.tile = k BY <2>1, <1>1, NextIsServed
  <2> QED BY <2>1, <2>2, <1>7 DEF HexWaits
<1>8. CASE g.at = "hextile.raw" /\ AtHexRaw
  <2>1. PICK k, v, s : OfTile(k) /\ Comes("hextile.raw", v, s) /\ HexRest(k, s)
    BY <1>8 DEF AtHexRaw
  <2>2. g.n = 0 /\ HexRest(k, <<>>) BY <2>1, <1>1, Nothing
  <2>3. k # TileCount /\ sending.tile = k + 1 BY <2>2, <1>1, RestIsServed
  <2>4. PICK n \in Nat : n = k + 1 /\ n - 1 = k BY <2>1, <1>6
  <2>5. HexWaits(n) BY <2>1, <2>2, <2>3, <2>4, <1>8 DEF HexWaits
  <2> QED BY <2>3, <2>4, <2>5
<1>9. CASE g.at = "hextile.subrects" /\ AtHexSubs
  <2>1. PICK k, v, s : OfTile(k) /\ Comes("hextile.subrects", v, s) /\ HexRest(k, s)
    BY <1>9 DEF AtHexSubs
  <2>2. g.n = 0 /\ HexRest(k, <<>>) BY <2>1, <1>1, Nothing
  <2>3. k # TileCount /\ sending.tile = k + 1 BY <2>2, <1>1, RestIsServed
  <2>4. PICK n \in Nat : n = k + 1 /\ n - 1 = k BY <2>1, <1>6
  <2>5. HexWaits(n) BY <2>1, <2>2, <2>3, <2>4, <1>9 DEF HexWaits
  <2> QED BY <2>3, <2>4, <2>5
<1>10. CASE g.at = "hextile.block" /\ AtHexBlock
  <2>1. PICK k, bits, c, u, s :
            /\ OfTile(k) /\ g.my.bits = bits /\ g.n = HeadSize(bypp, bits) /\ IsSeq(u) /\ IsSeq(s)
            /\ Comes("hextile.block", c, u \o s) /\ HexSubs(bypp, bits, c, u) /\ HexRest(k, s)
    BY <1>10 DEF AtHexBlock
  <2>2. PICK d : d = u \o s OBVIOUS
  <2>3. Comes("hextile.block", c, d) BY <2>1, <2>2
  <2>4. g.n = 0 /\ d = <<>> BY <2>3, <1>1, Nothing
  <2>5. u = <<>> /\ s = <<>>
    <3>1. PICK S : u \in Seq(S) BY <2>1 DEF IsSeq
    <3>2. PICK R : s \in Seq(R) BY <2>1 DEF IsSeq
    <3>3. Len(u \o s) = Len(u) + Len(s) /\ Len(u) \in Nat /\ Len(s) \in Nat BY <3>1, <3>2
    <3>4. Len(u \o s) = 0 BY <2>2, <2>4
    <3>5. Len(u) = 0 /\ Len(s) = 0 BY <3>3, <3>4
    <3> QED BY <3>1, <3>2, <3>5
  <2>6. HexRest(k, <<>>) /\ HexSubs(bypp, bits, c, <<>>) /\ HeadSize(bypp, bits) = 0
    BY <2>1, <2>4, <2>5
  <2>7. k # TileCount /\ sending.tile = k + 1 BY <2>6, <1>1, RestIsServed
  <2>8. PICK n \in Nat : n = k + 1 /\ n - 1 = k BY <2>1, <1>6
  <2>9. OfTile(n - 1) /\ n - 1 # TileCount /\ g.my.bits = bits BY <2>1, <2>7, <2>8
  <2>10. HexWaits(n) BY <2>4, <2>6, <2>9, <1>10, Zenon DEF HexWaits
  <2> QED BY <2>7, <2>8, <2>10
<1> QED BY <1>5, <1>7, <1>8, <1>9, <1>10

\* The fields of tile k arrive where the decoder waits for them
LEMMA HexServed ==
    ASSUME StreamInvariant, NEW k, HexWaits(k), UNCHANGED <<client, rect, deflated, rects>>,
           NEW s, wire' = s, IsSeq(s), HexFields(rect.w, rect.h, bypp, k, s), HexSent(k)'
    PROVE  StreamInvariant'
<1>1. g' = g /\ rect' = rect /\ bypp' = bypp /\ TileCount' = TileCount /\ pixel_format' = pixel_format
  BY DEF client, bypp, TileCount
<1>2. Sized' BY <1>1 DEF StreamInvariant, Sized
<1>3. HexFields(rect'.w, rect'.h, bypp', k, s) BY <1>1
<1>4. HexNext(k, s)' BY <1>3 DEF HexNext
<1>5. CASE g.at = "hextile" /\ g.n = 1 /\ OfTile(k)
  <2>1. OfTile(k)' BY <1>1, <1>5 DEF OfTile
  <2>2. g'.n = 1 /\ g'.at = "hextile" BY <1>1, <1>5
  <2>3. AtHextile' BY <1>4, <2>1, <2>2, Zenon DEF AtHextile
  <2> QED BY <1>2, <2>2, <2>3 DEF StreamInvariant, Good, Flow
<1>6. CASE /\ g.n = 0 /\ k - 1 # TileCount /\ OfTile(k - 1) /\ k \in Nat
           /\ \/ g.at \in {"hextile.raw", "hextile.subrects"}
              \/ g.at = "hextile.block" /\ \E bits, c :
                    g.my.bits = bits /\ HeadSize(bypp, bits) = 0 /\ HexSubs(bypp, bits, c, <<>>)
  <2>1. PICK j : j = k - 1 /\ j + 1 = k BY <1>6
  <2>2. OfTile(j)' /\ j # TileCount' BY <1>1, <1>6, <2>1 DEF OfTile
  <2>3. HexRest(j, s)'
    <3>1. HexNext(j + 1, s)' BY <1>4, <2>1
    <3> QED BY <2>2, <3>1 DEF HexRest
  <2>4. \A f, v : s = Field(f, 0, v) \o s BY JoinEmpty DEF Field
  <2>5. \A f, v : g'.at = f => Comes(f, v, s)' BY <1>1, <1>6, <2>4 DEF Comes
  <2>6. CASE g.at = "hextile.raw"
    <3>1. AtHexRaw' BY <1>1, <2>2, <2>3, <2>5, <2>6, Zenon DEF AtHexRaw
    <3> QED BY <1>1, <1>2, <2>6, <3>1 DEF StreamInvariant, Good, Flow
  <2>7. CASE g.at = "hextile.subrects"
    <3>1. AtHexSubs' BY <1>1, <2>2, <2>3, <2>5, <2>7, Zenon DEF AtHexSubs
    <3> QED BY <1>1, <1>2, <2>7, <3>1 DEF StreamInvariant, Good, Flow
  <2>8. CASE g.at = "hextile.block" /\ \E bits, c :
                g.my.bits = bits /\ HeadSize(bypp, bits) = 0 /\ HexSubs(bypp, bits, c, <<>>)
    <3>1. PICK bits, c : g.my.bits = bits /\ HeadSize(bypp, bits) = 0 /\ HexSubs(bypp, bits, c, <<>>)
      BY <2>8
    <3>2. g'.my.bits = bits /\ g'.n = HeadSize(bypp', bits) /\ HexSubs(bypp', bits, c, <<>>)
      BY <1>1, <1>6, <3>1
    <3>3. PICK u : u = <<>> OBVIOUS
    <3>4. IsSeq(u) /\ u \o s = s BY <3>3, EmptyIsSeq, JoinEmpty
    <3>5. Comes("hextile.block", c, s)' BY <1>1, <2>5, <2>8
    <3>6. Comes("hextile.block", c, u \o s)' BY <3>4, <3>5
    <3>7. HexSubs(bypp', bits, c, u) BY <3>2, <3>3
    <3>8. AtHexBlock' BY <2>2, <2>3, <3>2, <3>4, <3>6, <3>7, Zenon DEF AtHexBlock
    <3> QED BY <1>1, <1>2, <2>8, <3>8 DEF StreamInvariant, Good, Flow
  <2> QED BY <1>6, <2>6, <2>7, <2>8
<1> QED BY <1>5, <1>6 DEF HexWaits

\* A tile whose fields are in their order keeps the two in step.
LEMMA HexTileServed ==
    ASSUME StreamInvariant, Sending("hextile"), UNCHANGED <<client, rect, deflated, rects>>,
           NEW s, wire' = s, IsSeq(s),
           HexFields(rect.w, rect.h, bypp, sending.tile, s),
           \/ bad'
           \/ sending.tile = TileCount /\ sending' = <<>>
           \/ sending.tile # TileCount /\ sending'.tile = sending.tile + 1
    PROVE  StreamInvariant'
<1>1. PICK k : k = sending.tile /\ HexWaits(k) BY HexWaiting
<1>2. TileCount' = TileCount BY DEF TileCount
<1>3. HexFields(rect.w, rect.h, bypp, k, s) BY <1>1
<1>4. HexSent(k)' BY <1>1, <1>2 DEF HexSent
<1> QED BY <1>1, <1>3, <1>4, HexServed

\* After a tile the server goes on to the next, or is done.
LEMMA SrvTileSent ==
    ASSUME NEW breaks \in BOOLEAN, NEW bg, NEW fg,
           sending' = IF breaks \/ sending.tile = Len(HextileTiles) THEN <<>>
                      ELSE [tile |-> sending.tile + 1, bg |-> bg, fg |-> fg],
           verdict' = Verdict(breaks)
    PROVE  \/ bad'
           \/ sending.tile = TileCount /\ sending' = <<>>
           \/ sending.tile # TileCount /\ sending'.tile = sending.tile + 1
<1>1. Len(HextileTiles) = TileCount BY DEF HextileTiles, TileCount
<1>2. CASE breaks BY <1>2, Judged
<1>3. CASE ~breaks /\ sending.tile = TileCount BY <1>1, <1>3
<1>4. CASE ~breaks /\ sending.tile # TileCount BY <1>1, <1>4
<1> QED BY <1>2, <1>3, <1>4

\* The tiles a server may write: raw, and any mix of the other bits.
LEMMA SrvHextileRawKeeps == ASSUME StreamInvariant, SrvHextileRaw PROVE StreamInvariant'
<1>1. Sending("hextile") BY DEF SrvHextileRaw
<1>2. PICK t, im, image : /\ t = HextileTiles[sending.tile]
                          /\ SrvTile(t, Field("hextile", 1, {"raw"})
                                        \o Field("hextile.raw", t.w * t.h * PixelWidth, im),
                                     image, FALSE, 0, 0)
  BY DEF SrvHextileRaw
<1>3. UNCHANGED <<client, rect, deflated, rects>> BY <1>2 DEF SrvTile
<1>4. PICK u : u = Field("hextile.raw", t.w * t.h * PixelWidth, im) /\ IsSeq(u) BY FieldIsSeq
<1>5. PICK bits : bits = {"raw"} OBVIOUS
<1>6. PICK s : s = Field("hextile", 1, bits) \o u OBVIOUS
<1>7. wire' = s BY <1>2, <1>4, <1>5, <1>6 DEF SrvTile
<1>8. IsSeq(s) BY <1>4, <1>6, FieldIsSeq, JoinIsSeq
<1>9. HexAfter(rect.w, rect.h, bypp, sending.tile, bits, u)
  <2>1. t = TilesOf(rect.w, rect.h, HexTile)[sending.tile] BY <1>2 DEF HextileTiles
  <2>2. PixelWidth = bypp BY Widths DEF StreamInvariant
  <2>3. "raw" \in bits BY <1>5
  <2> QED BY <1>4, <2>1, <2>2, <2>3 DEF HexAfter
<1>10. HexFields(rect.w, rect.h, bypp, sending.tile, s) BY <1>4, <1>6, <1>9, Zenon DEF HexFields
<1>11. \/ bad'
       \/ sending.tile = TileCount /\ sending' = <<>>
       \/ sending.tile # TileCount /\ sending'.tile = sending.tile + 1
  BY <1>2, SrvTileSent DEF SrvTile
<1> QED BY <1>1, <1>3, <1>7, <1>8, <1>10, <1>11, HexTileServed

LEMMA SrvHextileTileKeeps == ASSUME StreamInvariant, SrvHextileTile PROVE StreamInvariant'
<1>1. Sending("hextile") BY DEF SrvHextileTile
<1>2. PICK t : t = HextileTiles[sending.tile] OBVIOUS
<1>3. PICK bits \in HextileBits, a, d \in Colours, subs \in SubLists(t.w, t.h) :
            PaintedTile(t, bits, a, d, subs)
  BY <1>2 DEF SrvHextileTile
<1>4. PICK fg, bg : /\ fg = IF "foreground" \in bits THEN d ELSE sending.fg
                    /\ bg = IF "background" \in bits THEN a ELSE sending.bg
  OBVIOUS
<1>5. PICK c : c = [background |-> a, foreground |-> d, count |-> Len(subs)] OBVIOUS
<1>6. PICK breaks \in BOOLEAN :
            breaks = (bg = 0 \/ (fg = 0 /\ "coloured" \notin bits /\ subs # <<>>)
                      \/ Over(subs, t.w, t.h))
  OBVIOUS
<1>7. "subrects" \notin bits => subs = <<>> BY <1>3 DEF PaintedTile
<1>8. PICK own, image :
        SrvTile(t,
             Field("hextile", 1, bits)
             \o (Field("hextile.block",
                       (IF "background" \in bits THEN PixelWidth ELSE 0)
                       + (IF "foreground" \in bits THEN PixelWidth ELSE 0)
                       + IF "subrects" \in bits THEN 1 ELSE 0, c)
             \o Field("hextile.subrects",
                      Len(subs) * (2 + IF "coloured" \in bits THEN PixelWidth ELSE 0), own)),
             image, breaks, bg, IF "coloured" \in bits THEN 0 ELSE fg)
  BY <1>3, <1>4, <1>5, <1>6 DEF PaintedTile
<1>9. UNCHANGED <<client, rect, deflated, rects>> BY <1>8 DEF SrvTile
<1>10. PixelWidth = bypp /\ bypp \in Nat BY Widths DEF StreamInvariant
<1>11. PICK n : n = Len(subs) * (2 + IF "coloured" \in bits THEN PixelWidth ELSE 0) OBVIOUS
<1>12. PICK u : u = Field("hextile.subrects", n, own) /\ IsSeq(u) BY FieldIsSeq
<1>13. PICK e : e = Field("hextile.block", HeadSize(bypp, bits), c) \o u OBVIOUS
<1>14. PICK s : s = Field("hextile", 1, bits) \o e OBVIOUS
<1>15. wire' = s BY <1>8, <1>10, <1>11, <1>12, <1>13, <1>14 DEF SrvTile, HeadSize
<1>16. IsSeq(e) BY <1>12, <1>13, FieldIsSeq, JoinIsSeq
<1>17. IsSeq(s) BY <1>14, <1>16, FieldIsSeq, JoinIsSeq
<1>18. c.count = Len(subs) /\ c.count \in Nat BY <1>3, <1>5, SubListsAreSeqs
<1>19. HexSubs(bypp, bits, c, u)
  <2>1. CASE "subrects" \in bits
    <3>1. n = (IF "coloured" \in bits THEN bypp + 2 ELSE 2) * c.count
      <4>1. PICK x \in Nat, y \in Nat :
                x = c.count /\ y = IF "coloured" \in bits THEN bypp + 2 ELSE 2
        BY <1>10, <1>18
      <4>2. 2 + (IF "coloured" \in bits THEN PixelWidth ELSE 0) = y BY <1>10, <4>1
      <4>3. x * y = y * x OBVIOUS
      <4>4. c.count = Len(subs) BY <1>5
      <4> QED BY <1>11, <4>1, <4>2, <4>3, <4>4
    <3>2. u = Field("hextile.subrects", (IF "coloured" \in bits THEN bypp + 2 ELSE 2) * c.count, own)
      BY <1>12, <3>1
    <3> QED BY <2>1, <3>2, <1>18 DEF HexSubs
  <2>2. CASE "subrects" \notin bits
    <3>1. subs = <<>> /\ Len(subs) = 0 BY <1>7, <2>2
    <3>2. 2 + (IF "coloured" \in bits THEN PixelWidth ELSE 0) \in Nat BY <1>10
    <3>3. n = 0 BY <1>11, <3>1, <3>2
    <3>4. u = <<>> BY <1>12, <3>3 DEF Field
    <3> QED BY <2>2, <3>4 DEF HexSubs
  <2> QED BY <2>1, <2>2
<1>20. HexAfter(rect.w, rect.h, bypp, sending.tile, bits, e)
  <2>1. "raw" \notin bits BY <1>3 DEF HextileBits
  <2> QED BY <1>12, <1>13, <1>19, <2>1, Zenon DEF HexAfter
<1>21. HexFields(rect.w, rect.h, bypp, sending.tile, s) BY <1>14, <1>16, <1>20, Zenon DEF HexFields
<1>22. \/ bad'
       \/ sending.tile = TileCount /\ sending' = <<>>
       \/ sending.tile # TileCount /\ sending'.tile = sending.tile + 1
  BY <1>6, <1>8, SrvTileSent DEF SrvTile
<1> QED BY <1>1, <1>9, <1>15, <1>17, <1>21, <1>22, HexTileServed

\* The server of ZRLE collects tiles while the decoder waits for the length
LEMMA ZRLEWaiting == ASSUME StreamInvariant, Sending("zrle")
                     PROVE  /\ g.at = "zrle" /\ g.n = 4
                            /\ rect.enc = "zrle" /\ sending.tile \in Nat \ {0}
<1>1. rect.enc = "zrle" /\ sending # <<>> /\ wire = <<>> /\ ~bad /\ ~aborted BY DEF Sending
<1>2. ~Quiet BY <1>1 DEF Quiet
<1>3. Flow BY <1>1 DEF StreamInvariant, Good, Dead
<1>4. g.at # "rectangle"
  <2>1. SUFFICES ASSUME AtRectangle PROVE FALSE BY <1>3, FlowAt
  <2>2. PICK v, s : g = Idle /\ Comes("rectangle", v, s) BY <2>1, <1>2 DEF AtRectangle
  <2>3. g.n = 0 BY <2>2, <1>1, Nothing
  <2> QED BY <2>2, <2>3 DEF Idle
<1>5. g.at = "zrle" /\ AtZRLE
  BY <1>1, <1>2, <1>3, <1>4 DEF Flow, AtLast, AtRRE, AtHextile, AtHexRaw, AtHexBlock, AtHexSubs,
                                OfTile, AtTight, AtFilter, AtPaletteSize, AtPalette, AtLength
<1>6. Counting BY <1>2, <1>5 DEF AtZRLE
<1> QED BY <1>1, <1>5, <1>6 DEF AtZRLE, Counting

\* A ZRLE tile joins the others; all of them are one block with its length.
LEMMA SrvZRLETileKeeps == ASSUME StreamInvariant, SrvZRLETile PROVE StreamInvariant'
<1>1. Sending("zrle") BY DEF SrvZRLETile
<1>2. UNCHANGED <<client, wire, rect, verdict, deflated, rects>> BY DEF SrvZRLETile
<1>3. sending'.tile = sending.tile + 1 BY DEF SrvZRLETile
<1>4. g.at = "zrle" /\ g.n = 4 /\ rect.enc = "zrle" /\ sending.tile \in Nat \ {0}
  BY <1>1, ZRLEWaiting
<1>5. Counting' BY <1>3, <1>4 DEF Counting
<1>6. wire' = <<>> /\ g' = g /\ rect' = rect /\ pixel_format' = pixel_format
  BY <1>1, <1>2 DEF Sending, client
<1>7. AtZRLE' BY <1>4, <1>5, <1>6 DEF AtZRLE
<1>8. Sized' BY <1>6 DEF StreamInvariant, Sized
<1> QED BY <1>4, <1>6, <1>7, <1>8 DEF StreamInvariant, Good, Flow

LEMMA SrvZRLEBlockKeeps == ASSUME StreamInvariant, SrvZRLEBlock PROVE StreamInvariant'
<1>1. Sending("zrle") BY DEF SrvZRLEBlock
<1>2. UNCHANGED <<client, rect, meant, rects>> /\ sending' = <<>> BY DEF SrvZRLEBlock
<1>3. PICK n, v : n = sending.tile /\ wire' = Field("zrle", 4, n) \o Field("zrle.block", n, v)
  BY DEF SrvZRLEBlock
<1>4. g.at = "zrle" /\ g.n = 4 /\ rect.enc = "zrle" /\ sending.tile \in Nat \ {0}
  BY <1>1, ZRLEWaiting
<1>5. g' = g /\ rect' = rect /\ pixel_format' = pixel_format BY <1>2 DEF client
<1>6. Quiet' BY <1>2 DEF Quiet
<1>7. PICK s : s = Field("zrle.block", n, v) /\ IsSeq(s) BY FieldIsSeq
<1>8. Comes("zrle", n, s)'
  <2>1. wire' = Field("zrle", 4, n) \o s BY <1>3, <1>7
  <2> QED BY <1>4, <1>5, <1>7, <2>1, SMTT(40) DEF Comes
<1>9. Comes("zrle", n, Field("zrle.block", n, v))' BY <1>7, <1>8
<1>10. n \in Nat \ {0} BY <1>3, <1>4
<1>11. AtZRLE' BY <1>4, <1>5, <1>6, <1>9, <1>10, Zenon DEF AtZRLE
<1>12. Sized' BY <1>5 DEF StreamInvariant, Sized
<1> QED BY <1>4, <1>5, <1>11, <1>12 DEF StreamInvariant, Good, Flow

-------------------------------------------------------------------------------
\* The server of Tight

\* A Tight rectangle names a zlib stream and has a block of some length.
LEMMA UsesTyped == ASSUME NEW use \in TightUses PROVE use.length \in Nat /\ use.stream # JPEG
<1>1. use.stream \in TightStreams /\ use.length \in CompactLengths BY ServerAssumption
<1>2. JPEG \notin TightStreams /\ CompactLengths \subseteq Nat BY DecoderAssumption
<1> QED BY <1>1, <1>2

\* A Tight rectangle begins with its control, and what the control says
\* follows.
LEMMA TightBegun ==
    ASSUME StreamInvariant, Ready, NEW r \in Rects("tight"), NEW c, NEW u, IsSeq(u),
           NEW s, s = Field("tight", 1, c) \o u, NEW image, NEW v,
           BeginAs(r, s, image, v, <<>>),
           AfterControl(v # "legal", r.w, r.h, TpixelWidth, c, u)
    PROVE  StreamInvariant'
<1>1. "tight" \in Encodings BY DEF Encodings, WholeRect
<1>2. r.enc = "tight" /\ r.w \in Nat /\ r.h \in Nat BY <1>1, RectsTyped
<1>3. rect' = r /\ bad' = (v # "legal") /\ T' = TpixelWidth
  BY Widths, BeginFacts DEF StreamInvariant, bad, T
<1>4. IsSeq(s) BY FieldIsSeq, JoinIsSeq
<1>5. AfterControl(bad', rect'.w, rect'.h, T', c, u) BY <1>3
<1>6. Follows(s)' BY <1>2, <1>3, <1>5, Zenon DEF Follows
<1> QED BY <1>1, <1>2, <1>4, <1>6, Begun

LEMMA TightBegunWell ==
    ASSUME StreamInvariant, Ready, NEW r \in Rects("tight"), NEW c, NEW u, IsSeq(u),
           NEW s, s = Field("tight", 1, c) \o u, NEW image, NEW breaks \in BOOLEAN,
           Begin(r, s, image, breaks, <<>>),
           AfterControl(breaks, r.w, r.h, TpixelWidth, c, u)
    PROVE  StreamInvariant'
<1>1. PICK v : v = Verdict(breaks) OBVIOUS
<1>2. (v # "legal") = breaks BY <1>1 DEF Verdict
<1>3. BeginAs(r, s, image, v, <<>>) BY <1>1 DEF Begin
<1> QED BY <1>2, <1>3, TightBegun

\* Fill, JPEG, and what this client does not accept: a control that is not defined
\* and the gradient filter.
LEMMA SrvTightFillKeeps == ASSUME StreamInvariant, SrvTightFill PROVE StreamInvariant'
<1>1. PICK r \in Rects("tight"), use \in TightUses, colour \in Colours :
        Begin(r, Control(use, "fill", FALSE) \o Field("tight.fill", TpixelWidth, colour),
              Plain(Box(r), colour), FALSE, <<>>)
  BY DEF SrvTightFill
<1>2. PICK u : u = Field("tight.fill", TpixelWidth, colour) /\ IsSeq(u) BY FieldIsSeq
<1>3. PICK c : c = [resets |-> use.resets, kind |-> "fill", stream |-> use.stream,
                    explicit |-> FALSE]
  OBVIOUS
<1>4. PICK s : s = Field("tight", 1, c) \o u OBVIOUS
<1>5. PICK image : Begin(r, s, image, FALSE, <<>>) BY <1>1, <1>2, <1>3, <1>4 DEF Control
<1>6. AfterControl(FALSE, r.w, r.h, TpixelWidth, c, u) BY <1>2, <1>3 DEF AfterControl
<1>7. Ready BY DEF SrvTightFill
<1> QED BY <1>2, <1>4, <1>5, <1>6, <1>7, TightBegunWell

LEMMA SrvTightUndefinedKeeps == ASSUME StreamInvariant, SrvTightUndefined PROVE StreamInvariant'
<1>1. PICK r \in Rects("tight"), use \in TightUses :
        Begin(r, Control(use, "undefined", FALSE), <<>>, TRUE, <<>>)
  BY DEF SrvTightUndefined
<1>2. PICK u : u = <<>> /\ IsSeq(u) BY EmptyIsSeq
<1>3. PICK c : c = [resets |-> use.resets, kind |-> "undefined", stream |-> use.stream,
                    explicit |-> FALSE]
  OBVIOUS
<1>4. PICK s : s = Field("tight", 1, c) OBVIOUS
<1>5. s = Field("tight", 1, c) \o u BY <1>2, <1>4, FieldAlone
<1>6. PICK image : Begin(r, s, image, TRUE, <<>>) BY <1>1, <1>3, <1>4 DEF Control
<1>7. AfterControl(TRUE, r.w, r.h, TpixelWidth, c, u) BY <1>2 DEF AfterControl
<1>8. Ready BY DEF SrvTightUndefined
<1> QED BY <1>2, <1>5, <1>6, <1>7, <1>8, TightBegunWell

LEMMA SrvTightGradientKeeps == ASSUME StreamInvariant, SrvTightGradient PROVE StreamInvariant'
<1>1. PICK r \in Rects("tight"), use \in TightUses :
        BeginAs(r, Control(use, "basic", TRUE) \o Field("tight.filter", 1, "gradient"), <<>>,
                "unsupported", <<>>)
  BY DEF SrvTightGradient
<1>2. PICK f, d : f = "gradient" /\ d = <<>> /\ IsSeq(d) BY EmptyIsSeq
<1>3. PICK u : u = Field("tight.filter", 1, f) /\ IsSeq(u) BY FieldIsSeq
<1>4. u = Field("tight.filter", 1, f) \o d BY <1>2, <1>3, FieldAlone
<1>5. PICK c : c = [resets |-> use.resets, kind |-> "basic", stream |-> use.stream,
                    explicit |-> TRUE]
  OBVIOUS
<1>6. PICK s : s = Field("tight", 1, c) \o u OBVIOUS
<1>7. PICK image, v : BeginAs(r, s, image, v, <<>>) /\ v = "unsupported"
  BY <1>1, <1>2, <1>3, <1>5, <1>6 DEF Control
<1>8. AfterFilter(TRUE, r.w, r.h, TpixelWidth, f, d) BY <1>2 DEF AfterFilter
<1>9. c.kind = "basic" /\ c.stream # JPEG /\ c.explicit BY <1>5, UsesTyped
<1>10. AfterControl(TRUE, r.w, r.h, TpixelWidth, c, u)
  BY <1>2, <1>4, <1>8, <1>9, Zenon DEF AfterControl
<1>11. Ready BY DEF SrvTightGradient
<1>12. AfterControl(v # "legal", r.w, r.h, TpixelWidth, c, u)
  <2>1. (v # "legal") = TRUE BY <1>7
  <2> QED BY <1>10, <2>1
<1>13. r \in Rects("tight") /\ IsSeq(u) /\ s = Field("tight", 1, c) \o u BY <1>1, <1>3, <1>6
<1>14. BeginAs(r, s, image, v, <<>>) BY <1>7
<1> QED BY <1>11, <1>12, <1>13, <1>14, TightBegun

LEMMA SrvTightJpegKeeps == ASSUME StreamInvariant, SrvTightJpeg PROVE StreamInvariant'
<1>1. PICK r \in Rects("tight"), use \in TightUses, decodes \in BOOLEAN, less \in 0..1 :
      \E im \in Pictures(r.w * r.h) :
        /\ Fits(r) /\ deflated' = Restarted(use)
        /\ ~decodes \/ less = 1 => im = Flat(r.w * r.h, 1)
        /\ Begin(r, Control(use, "jpeg", FALSE) \o (Compact(use.length) \o
                 Field("tight.jpeg", use.length,
                      [decodes |-> decodes, w |-> r.w, h |-> r.h + less, data |-> im])),
             At(Box(r), im), ~jpeg_offered \/ ~decodes \/ less = 1 \/ r.w > MAX_WIDTH, <<>>)
  BY DEF SrvTightJpeg
<1>2. PICK breaks \in BOOLEAN : breaks = (~jpeg_offered \/ ~decodes \/ less = 1 \/ r.w > MAX_WIDTH)
  OBVIOUS
<1>3. PICK v, image :
        Begin(r, Control(use, "jpeg", FALSE) \o (Compact(use.length) \o
                 Field("tight.jpeg", use.length, v)), image, breaks, <<>>)
  BY <1>1, <1>2
<1>4. PICK m \in Nat : m = use.length BY UsesTyped
<1>5. PICK u : u = Compact(m) \o Field("tight.jpeg", m, v) OBVIOUS
<1>6. IsSeq(u) BY <1>5, CompactIsSeq, FieldIsSeq, JoinIsSeq
<1>7. PICK c : c = [resets |-> use.resets, kind |-> "jpeg", stream |-> use.stream,
                    explicit |-> FALSE]
  OBVIOUS
<1>8. PICK s : s = Field("tight", 1, c) \o u OBVIOUS
<1>9. Begin(r, s, image, breaks, <<>>) BY <1>3, <1>4, <1>5, <1>7, <1>8 DEF Control
<1>10. Compressed("tight.jpeg", u) BY <1>5, Zenon DEF Compressed
<1>11. AfterControl(breaks, r.w, r.h, TpixelWidth, c, u) BY <1>7, <1>10 DEF AfterControl
<1>12. Ready BY DEF SrvTightJpeg
<1> QED BY <1>6, <1>8, <1>9, <1>11, <1>12, TightBegunWell

\* A filter and its data, whichever the filter
Bodied(body, filter, size) == \E d : body = filter \o d /\ IsSeq(d) /\ DataOf(size, d)

\* The data behind a filter is as it is when it is short, compressed when not.
LEMMA BodyData ==
    ASSUME NEW use \in TightUses, NEW filter, NEW size \in Nat, NEW data, NEW more,
           NEW body, body = TightBody(use, filter, size, data, more)
    PROVE  Bodied(body, filter, size)
<1>1. PICK m \in Nat : m = use.length BY UsesTyped
<1>2. PICK v : v = [after |-> Restarted(use)[use.stream], more |-> more, data |-> data] OBVIOUS
<1>3. CASE size < MIN_TO_COMPRESS
  <2>1. PICK d : d = Field("tight.data", size, data) /\ IsSeq(d) BY FieldIsSeq
  <2>2. body = filter \o d BY <1>3, <2>1 DEF TightBody
  <2>3. DataOf(size, d) BY <1>3, <2>1 DEF DataOf
  <2> QED BY <2>1, <2>2, <2>3, Zenon DEF Bodied
<1>4. CASE ~(size < MIN_TO_COMPRESS)
  <2>1. PICK d : d = Compact(m) \o Field("tight.zlib", m, v) OBVIOUS
  <2>2. IsSeq(d) BY <2>1, CompactIsSeq, FieldIsSeq, JoinIsSeq
  <2>3. body = filter \o d BY <1>1, <1>2, <1>4, <2>1 DEF TightBody
  <2>4. Compressed("tight.zlib", d) BY <2>1, Zenon DEF Compressed
  <2>5. DataOf(size, d) BY <1>4, <2>4 DEF DataOf
  <2> QED BY <2>2, <2>3, <2>5, Zenon DEF Bodied
<1> QED BY <1>3, <1>4

\* What follows the control of a basic rectangle
Filtered(explicit, broken, w, h, tp, u) ==
    IF explicit THEN \E f, d : IsSeq(d) /\ u = Field("tight.filter", 1, f) \o d
                               /\ AfterFilter(broken, w, h, tp, f, d)
    ELSE DataOf(h * Row(w, tp, <<>>), u)

\* A basic rectangle: its filter, told or not, and data of the filter's size.
LEMMA TightBasicKeeps ==
    ASSUME StreamInvariant, Ready, NEW r \in Rects("tight"), NEW use \in TightUses,
           NEW explicit \in BOOLEAN, NEW filter, IsSeq(filter), NEW size \in Nat, NEW data, NEW im,
           NEW breaks \in BOOLEAN, NEW more,
           TightBasic(r, use, explicit, filter, size, data, im, breaks, more),
           \A d, broken : IsSeq(d) /\ DataOf(size, d) =>
                Filtered(explicit, broken, r.w, r.h, TpixelWidth, filter \o d)
    PROVE  StreamInvariant'
<1>1. PICK ill \in BOOLEAN : ill = (breaks \/ r.w > MAX_WIDTH) OBVIOUS
<1>2. PICK body : body = TightBody(use, filter, size, data, more) OBVIOUS
<1>3. PICK d : body = filter \o d /\ IsSeq(d) /\ DataOf(size, d)
  <2>1. Bodied(body, filter, size) BY <1>2, BodyData
  <2> QED BY <2>1 DEF Bodied
<1>4. IsSeq(body) BY <1>3, JoinIsSeq
<1>5. Filtered(explicit, ill, r.w, r.h, TpixelWidth, body) BY <1>3
<1>6. PICK c : c = [resets |-> use.resets, kind |-> "basic", stream |-> use.stream,
                    explicit |-> explicit]
  OBVIOUS
<1>7. PICK s : s = Field("tight", 1, c) \o body OBVIOUS
<1>8. PICK image : Begin(r, s, image, ill, <<>>)
  BY <1>1, <1>2, <1>6, <1>7 DEF TightBasic, Control
<1>9. c.kind = "basic" /\ c.stream # JPEG /\ c.explicit = explicit BY <1>6, UsesTyped
<1>10. AfterControl(ill, r.w, r.h, TpixelWidth, c, body) BY <1>5, <1>9 DEF AfterControl, Filtered
<1> QED BY <1>4, <1>7, <1>8, <1>10, TightBegunWell

\* The copy filter, told or not: the data is the pixels.
LEMMA CopyFiltered ==
    ASSUME NEW w \in Nat, NEW h \in Nat, NEW tp \in Nat, NEW explicit \in BOOLEAN,
           NEW filter, filter = IF explicit THEN Field("tight.filter", 1, "copy") ELSE <<>>,
           NEW d, IsSeq(d), DataOf(w * h * tp, d), NEW broken
    PROVE  Filtered(explicit, broken, w, h, tp, filter \o d)
<1>1. w * h * tp = h * (w * tp) OBVIOUS
<1>2. Row(w, tp, <<>>) = w * tp BY DEF Row
<1>3. DataOf(h * Row(w, tp, <<>>), d) BY <1>1, <1>2
<1>4. CASE explicit
  <2>1. PICK f : f = "copy" OBVIOUS
  <2>2. PICK u : u = filter \o d OBVIOUS
  <2>3. u = Field("tight.filter", 1, f) \o d BY <1>4, <2>1, <2>2
  <2>4. AfterFilter(broken, w, h, tp, f, d) BY <1>3, <2>1 DEF AfterFilter
  <2>5. Filtered(explicit, broken, w, h, tp, u) BY <1>4, <2>3, <2>4, Zenon DEF Filtered
  <2> QED BY <2>2, <2>5
<1>5. CASE ~explicit
  <2>1. filter \o d = d BY <1>5, JoinEmpty
  <2> QED BY <1>3, <1>5, <2>1 DEF Filtered
<1> QED BY <1>4, <1>5

\* The palette filter: a size, the palette, and data of rows by its size,
\* a bit to a pixel for two colours and a byte to a pixel for others.
LEMMA PaletteFiltered ==
    ASSUME NEW w \in Nat, NEW h \in Nat, NEW k \in Nat \ {0}, NEW tp, tp = TpixelWidth, NEW size,
           NEW row, row = (IF k = 2 THEN (w + 7) \div 8 ELSE w), size = h * row,
           NEW filter, filter = PaletteFilter(k), NEW d, IsSeq(d), DataOf(size, d), NEW broken
    PROVE  Filtered(TRUE, broken, w, h, tp, filter \o d)
<1>1. PICK p : p = [i \in 1..k |-> Entries(k)[i - 1]] OBVIOUS
<1>2. p # <<>> /\ Len(p) = k
  <2>1. Len(p) = k BY <1>1
  <2> QED BY <2>1
<1>3. Row(w, tp, p) = row BY <1>2 DEF Row
<1>4. PICK a : a = Field("tight.palette", k * tp, p) /\ IsSeq(a) BY FieldIsSeq
<1>5. PICK b : b = Field("tight.palettesize", 1, k - 1) /\ IsSeq(b) BY FieldIsSeq
<1>6. PICK f : f = "palette" OBVIOUS
<1>7. PICK c : c = Field("tight.filter", 1, f) /\ IsSeq(c) BY FieldIsSeq
<1>8. filter = c \o (b \o a) BY <1>1, <1>4, <1>5, <1>6, <1>7 DEF PaletteFilter
<1>9. PICK x : x = a \o d OBVIOUS
<1>10. PICK y : y = b \o x OBVIOUS
<1>11. IsSeq(x) /\ IsSeq(y) /\ IsSeq(b \o a)
  <2>1. IsSeq(x) BY <1>4, <1>9, JoinIsSeq
  <2>2. IsSeq(y) BY <1>5, <1>10, <2>1, JoinIsSeq
  <2>3. IsSeq(b \o a) BY <1>4, <1>5, JoinIsSeq
  <2> QED BY <2>1, <2>2, <2>3
<1>12. PICK u : u = filter \o d OBVIOUS
<1>15. Joins(u, c, y)
  <2>1. PICK v : v = b \o a OBVIOUS
  <2>2. Joins(v, b, a) BY <2>1 DEF Joins
  <2>3. Joins(x, a, d) BY <1>9 DEF Joins
  <2>4. Joins(y, b, x) BY <1>10 DEF Joins
  <2>5. Joins(filter, c, v) BY <1>8, <2>1 DEF Joins
  <2>6. Joins(u, filter, d) BY <1>12 DEF Joins
  <2>7. IsSeq(a) /\ IsSeq(b) /\ IsSeq(c) BY <1>4, <1>5, <1>7
  <2> QED BY <2>2, <2>3, <2>4, <2>5, <2>6, <2>7, JoinFour
<1>13. AfterSize(w, h, tp, k, x)
  <2>1. DataOf(h * Row(w, tp, p), d) BY <1>3
  <2>2. x = Field("tight.palette", k * tp, p) \o d BY <1>4, <1>9
  <2> QED BY <2>1, <2>2, Zenon DEF AfterSize
<1>14. AfterFilter(broken, w, h, tp, f, y)
  <2>1. y = Field("tight.palettesize", 1, k - 1) \o x BY <1>5, <1>10
  <2> QED BY <1>6, <1>11, <1>13, <2>1, Zenon DEF AfterFilter
<1>16. u = Field("tight.filter", 1, f) \o y BY <1>7, <1>15 DEF Joins
<1>17. Filtered(TRUE, broken, w, h, tp, u) BY <1>11, <1>14, <1>16, Zenon DEF Filtered
<1> QED BY <1>12, <1>17

\* The basic rectangles a server may write.
LEMMA SrvTightCopyKeeps == ASSUME StreamInvariant, SrvTightCopy PROVE StreamInvariant'
<1>1. PICK r \in Rects("tight"), use \in TightUses, explicit \in BOOLEAN, more \in {0 - 1, 0, 1} :
      \E im \in Pictures(r.w * r.h) :
        /\ Fits(r)
        /\ more # 0 => im = Flat(r.w * r.h, 1)
        /\ TightBasic(r, use, explicit, IF explicit THEN Field("tight.filter", 1, "copy") ELSE <<>>,
                      r.w * r.h * TpixelWidth, im, im, more # 0, more)
  BY DEF SrvTightCopy
<1>2. PICK filter : filter = IF explicit THEN Field("tight.filter", 1, "copy") ELSE <<>> OBVIOUS
<1>3. IsSeq(filter) BY <1>2, FieldIsSeq, EmptyIsSeq
<1>4. "tight" \in Encodings BY DEF Encodings, WholeRect
<1>5. r.w \in Nat /\ r.h \in Nat BY <1>4, RectsTyped
<1>6. PICK tp \in Nat : tp = TpixelWidth BY Widths DEF StreamInvariant
<1>7. PICK size : size = r.w * r.h * tp OBVIOUS
<1>8. size \in Nat
  <2>1. PICK a \in Nat, b \in Nat : a = r.w /\ b = r.h BY <1>5
  <2>2. a * b * tp \in Nat OBVIOUS
  <2> QED BY <1>7, <2>1, <2>2
<1>9. PICK breaks \in BOOLEAN : breaks = (more # 0) OBVIOUS
<1>10. PICK im : TightBasic(r, use, explicit, filter, size, im, im, breaks, more)
  BY <1>1, <1>2, <1>6, <1>7, <1>9
<1>11. ASSUME NEW d, NEW broken, IsSeq(d), DataOf(size, d)
       PROVE  Filtered(explicit, broken, r.w, r.h, TpixelWidth, filter \o d)
  BY <1>2, <1>5, <1>6, <1>7, <1>11, CopyFiltered
<1>12. Ready BY DEF SrvTightCopy
<1> QED BY <1>3, <1>8, <1>10, <1>11, <1>12, TightBasicKeeps

\* The two with a palette, whatever its size.
LEMMA PaletteKeeps ==
    ASSUME StreamInvariant, Ready, NEW r \in Rects("tight"), NEW use \in TightUses,
           NEW k \in Nat \ {0}, NEW row \in Nat, row = (IF k = 2 THEN (r.w + 7) \div 8 ELSE r.w),
           NEW size, size = r.h * row, NEW data, NEW im, NEW breaks \in BOOLEAN, NEW filter,
           filter = PaletteFilter(k),
           TightBasic(r, use, TRUE, filter, size, data, im, breaks, 0)
    PROVE  StreamInvariant'
<1>1. "tight" \in Encodings BY DEF Encodings, WholeRect
<1>2. r.w \in Nat /\ r.h \in Nat BY <1>1, RectsTyped
<1>3. size \in Nat
  <2>1. PICK h \in Nat : h = r.h BY <1>2
  <2>2. h * row \in Nat OBVIOUS
  <2> QED BY <2>1, <2>2
<1>4. PICK tp \in Nat : tp = TpixelWidth BY Widths DEF StreamInvariant
<1>5. IsSeq(filter)
  <2>1. PICK p : p = [i \in 1..k |-> Entries(k)[i - 1]] OBVIOUS
  <2>2. PICK a : a = Field("tight.palette", k * tp, p) /\ IsSeq(a) BY FieldIsSeq
  <2>3. PICK b : b = Field("tight.palettesize", 1, k - 1) /\ IsSeq(b) BY FieldIsSeq
  <2>4. PICK c : c = Field("tight.filter", 1, "palette") /\ IsSeq(c) BY FieldIsSeq
  <2>5. PICK x : x = b \o a /\ IsSeq(x) BY <2>2, <2>3, JoinIsSeq
  <2>6. filter = c \o x BY <1>4, <2>1, <2>2, <2>3, <2>4, <2>5 DEF PaletteFilter
  <2> QED BY <2>4, <2>5, <2>6, JoinIsSeq
<1>6. ASSUME NEW d, NEW broken, IsSeq(d), DataOf(size, d)
      PROVE  Filtered(TRUE, broken, r.w, r.h, TpixelWidth, filter \o d)
  BY <1>2, <1>4, <1>6, PaletteFiltered
<1>7. PICK explicit \in BOOLEAN : explicit = TRUE OBVIOUS
<1>8. ASSUME NEW d, NEW broken, IsSeq(d), DataOf(size, d)
      PROVE  Filtered(explicit, broken, r.w, r.h, TpixelWidth, filter \o d)
  BY <1>6, <1>7, <1>8
<1>9. TightBasic(r, use, explicit, filter, size, data, im, breaks, 0) BY <1>7
<1> QED BY <1>3, <1>5, <1>8, <1>9, TightBasicKeeps

LEMMA SrvTightTwoColoursKeeps == ASSUME StreamInvariant, SrvTightTwoColours PROVE StreamInvariant'
<1>1. PICK r \in Rects("tight"), use \in TightUses, pad \in 0..1 :
      \E im \in Pictures(r.w * r.h) :
        /\ Fits(r)
        /\ TightBasic(r, use, TRUE, PaletteFilter(2), r.h * ((r.w + 7) \div 8),
                      PackRows([i \in DOMAIN im |-> EntryOf(2, im[i])], 1, pad, r.w, r.h), im, FALSE, 0)
  BY DEF SrvTightTwoColours
<1>2. "tight" \in Encodings BY DEF Encodings, WholeRect
<1>3. r.w \in Nat /\ r.h \in Nat BY <1>2, RectsTyped
<1>4. PICK row \in Nat : row = (r.w + 7) \div 8 BY <1>3
<1>5. PICK k \in Nat \ {0} : k = 2 OBVIOUS
<1>6. PICK filter : filter = PaletteFilter(k) OBVIOUS
<1>7. PICK size : size = r.h * row OBVIOUS
<1>8. PICK breaks \in BOOLEAN : breaks = FALSE OBVIOUS
<1>9. PICK data, im : TightBasic(r, use, TRUE, filter, size, data, im, breaks, 0)
  BY <1>1, <1>4, <1>5, <1>6, <1>7, <1>8
<1>10. row = IF k = 2 THEN (r.w + 7) \div 8 ELSE r.w BY <1>4, <1>5
<1>11. Ready BY DEF SrvTightTwoColours
<1> QED BY <1>6, <1>7, <1>9, <1>10, <1>11, PaletteKeeps

LEMMA SrvTightPaletteKeeps == ASSUME StreamInvariant, SrvTightPalette PROVE StreamInvariant'
<1>1. PICK r \in Rects("tight"), use \in TightUses, k \in {1, 3}, past \in BOOLEAN :
      \E im \in Pictures(r.w * r.h) :
        /\ Fits(r) /\ r.w * r.h > 0
        /\ past => im = Flat(r.w * r.h, 1)
        /\ k = 1 => \A i \in DOMAIN im : im[i] = 1
        /\ TightBasic(r, use, TRUE, PaletteFilter(k), r.h * r.w,
                      [i \in DOMAIN im |-> IF past /\ i = 0 THEN k ELSE EntryOf(k, im[i])], im, past, 0)
  BY DEF SrvTightPalette
<1>2. "tight" \in Encodings BY DEF Encodings, WholeRect
<1>3. PICK row \in Nat : row = r.w BY <1>2, RectsTyped
<1>4. PICK filter : filter = PaletteFilter(k) OBVIOUS
<1>5. PICK size : size = r.h * row OBVIOUS
<1>6. PICK data, im : TightBasic(r, use, TRUE, filter, size, data, im, past, 0)
  BY <1>1, <1>3, <1>4, <1>5
<1>7. k \in Nat \ {0} /\ k # 2 OBVIOUS
<1>8. row = IF k = 2 THEN (r.w + 7) \div 8 ELSE r.w BY <1>3, <1>7
<1>9. Ready BY DEF SrvTightPalette
<1> QED BY <1>4, <1>5, <1>6, <1>7, <1>8, <1>9, PaletteKeeps

-------------------------------------------------------------------------------
\* All steps together

\* Nothing happens, and nothing changes.
LEMMA Standing == ASSUME StreamInvariant, UNCHANGED vars PROVE StreamInvariant'
<1>1. Kept /\ g' = g /\ wire' = wire /\ aborted' = aborted BY DEF vars, client, server, Kept
<1>2. /\ rect' = rect /\ bad' = bad /\ sending' = sending /\ bypp' = bypp /\ T' = T
      /\ COORDS' = COORDS /\ TileCount' = TileCount /\ Quiet' = Quiet /\ Counting' = Counting
      /\ (Sized => Sized')
  BY <1>1, KeptFacts
<1>3. \A f, v, s : Comes(f, v, s) => Comes(f, v, s)' BY <1>1 DEF Comes
<1>4. \A s : Follows(s) => Follows(s)' BY <1>2 DEF Follows
<1>5. \A k : HexSent(k) => HexSent(k)' BY <1>2 DEF HexSent
<1>6. \A k, s : HexNext(k, s) => HexNext(k, s)' BY <1>2, <1>5 DEF HexNext
<1>7. \A k, s : HexRest(k, s) => HexRest(k, s)' BY <1>2, <1>6 DEF HexRest
<1>8. \A k : OfTile(k) => OfTile(k)' BY <1>1, <1>2 DEF OfTile
<1>9. Flow => Flow'
  <2>1. AtRectangle => AtRectangle' BY <1>1, <1>2, <1>3, <1>4 DEF AtRectangle
  <2>2. AtLast => AtLast' BY <1>1, <1>2, <1>3 DEF AtLast
  <2>3. AtRRE => AtRRE' BY <1>1, <1>2, <1>3 DEF AtRRE
  <2>4. AtHextile => AtHextile' BY <1>1, <1>6, <1>8 DEF AtHextile
  <2>5. AtHexRaw => AtHexRaw' BY <1>3, <1>7, <1>8 DEF AtHexRaw
  <2>6. AtHexBlock => AtHexBlock'
    <3>1. SUFFICES ASSUME AtHexBlock PROVE AtHexBlock' OBVIOUS
    <3>2. PICK k, bits, c, u, s :
            /\ OfTile(k) /\ g.my.bits = bits /\ g.n = HeadSize(bypp, bits) /\ IsSeq(u) /\ IsSeq(s)
            /\ Comes("hextile.block", c, u \o s) /\ HexSubs(bypp, bits, c, u) /\ HexRest(k, s)
      BY <3>1 DEF AtHexBlock
    <3>3. /\ OfTile(k)' /\ g'.my.bits = bits /\ g'.n = HeadSize(bypp', bits)
          /\ HexSubs(bypp', bits, c, u) /\ HexRest(k, s)'
      BY <3>2, <1>1, <1>2, <1>7, <1>8
    <3>4. PICK d : d = u \o s OBVIOUS
    <3>5. Comes("hextile.block", c, d) BY <3>2, <3>4
    <3>6. Comes("hextile.block", c, d)' BY <3>5, <1>3
    <3>7. Comes("hextile.block", c, u \o s)' BY <3>4, <3>6
    <3> QED BY <3>2, <3>3, <3>7, Zenon DEF AtHexBlock
  <2>7. AtHexSubs => AtHexSubs' BY <1>3, <1>7, <1>8 DEF AtHexSubs
  <2>8. AtZRLE => AtZRLE' BY <1>1, <1>2, <1>3 DEF AtZRLE
  <2>9. AtTight => AtTight' BY <1>1, <1>2, <1>3 DEF AtTight
  <2>10. AtFilter => AtFilter' BY <1>1, <1>2, <1>3 DEF AtFilter
  <2>11. AtPaletteSize => AtPaletteSize' BY <1>1, <1>2, <1>3 DEF AtPaletteSize
  <2>12. AtPalette => AtPalette' BY <1>1, <1>2, <1>3 DEF AtPalette
  <2>13. AtLength => AtLength' BY <1>1, <1>2 DEF AtLength
  <2> QED BY <1>1, <2>1, <2>2, <2>3, <2>4, <2>5, <2>6, <2>7, <2>8, <2>9, <2>10, <2>11, <2>12, <2>13
          DEF Flow
<1> QED BY <1>1, <1>2, <1>9 DEF StreamInvariant, Good, Dead

\* A connection before its next rectangle, whatever earlier ones left.
LEMMA StreamStarts == Init => StreamInvariant
<1>1. SUFFICES ASSUME Init PROVE StreamInvariant OBVIOUS
<1>2. PICK c \in Connections : pixel_format = ImageFormat(c.announced, c.requested)
  BY <1>1 DEF Init
<1>3. PICK a, q : a = c.announced /\ q = c.requested OBVIOUS
<1>4. a.bpp \in Nat /\ a.truecolor \in BOOLEAN /\ q \in PIXEL_FORMATS \cup {NotAsked}
  BY <1>2, <1>3, ServerAssumption
<1>5. Readable(pixel_format) BY <1>2, <1>3, <1>4, ImageFormatReadable
<1>6. rect = [enc |-> "control", w |-> 0, h |-> 0] BY <1>1 DEF Init
<1>7. Sized BY <1>5, <1>6 DEF Sized, Encodings
<1>8. wire = <<>> /\ g = Idle BY <1>1 DEF Init
<1>9. AtRectangle BY <1>6, <1>8 DEF AtRectangle, Quiet
<1> QED BY <1>7, <1>8, <1>9 DEF StreamInvariant, Good, Flow, Idle

\* Each step of a decoder, each of the server, and so every step.
LEMMA DecodeKeeps == ASSUME StreamInvariant, Decode PROVE StreamInvariant'
BY HandleRectangleKeeps, RawDecodeKeeps, CopyRectDecodeKeeps, CursorDecodeKeeps, RREHeaderKeeps,
   RRESubrectanglesKeeps, HextileSubencodingKeeps, HextileRawKeeps, HextileBlockKeeps,
   HextileSubrectsKeeps, TightControlKeeps, TightFillKeeps, TightFilterKeeps,
   TightPaletteSizeKeeps, TightPaletteKeeps, CompactLengthKeeps, TightDataKeeps, TightZlibKeeps,
   TightJpegKeeps, ZRLELengthKeeps, ZRLEBlockKeeps DEF Decode

LEMMA ServeKeeps == ASSUME StreamInvariant, Serve PROVE StreamInvariant'
BY SrvTooLargeKeeps, SrvRawKeeps, SrvCopyRectKeeps, SrvCursorKeeps, SrvControlKeeps, SrvRREKeeps,
   SrvHextileKeeps, SrvHextileRawKeeps, SrvHextileTileKeeps, SrvZRLEKeeps, SrvZRLETileKeeps,
   SrvZRLEBlockKeeps, SrvTightFillKeeps, SrvTightJpegKeeps, SrvTightUndefinedKeeps,
   SrvTightCopyKeeps, SrvTightGradientKeeps, SrvTightTwoColoursKeeps, SrvTightPaletteKeeps
   DEF Serve

LEMMA StreamStep == StreamInvariant /\ [Next]_vars => StreamInvariant'
<1>1. SUFFICES ASSUME StreamInvariant, [Next]_vars PROVE StreamInvariant' OBVIOUS
<1>2. CASE Decode BY <1>1, <1>2, DecodeKeeps
<1>3. CASE Serve BY <1>1, <1>3, ServeKeeps
<1>4. CASE UNCHANGED vars BY <1>1, <1>4, Standing
<1>5. Finished => UNCHANGED vars BY DEF Finished
<1> QED BY <1>1, <1>2, <1>3, <1>4, <1>5 DEF Next

\* Wherever the decoder of a rectangle is parked, the wire holds the rest of
\* the rectangle from the field it waits for on, as the encoding has it, or
\* nothing; whatever the sizes, tiles, filters and lengths.
THEOREM StreamInvariantHolds == Spec => []StreamInvariant
<1>1. Init => StreamInvariant BY StreamStarts
<1>2. StreamInvariant /\ [Next]_vars => StreamInvariant' BY StreamStep
<1> QED BY <1>1, <1>2, PTL DEF Spec

\* A decoder for which a field comes waits for that field, and its length.
LEMMA ComesInStep == ASSUME NEW f, NEW v, NEW s, Comes(f, v, s), g.n > 0
                     PROVE  Head(wire).f = g.at /\ Head(wire).n = g.n
<1>1. Begins(wire, f, g.n, v, s) /\ g.at = f BY ComesFirst DEF Comes
<1>2. Head(wire) = [f |-> f, n |-> g.n, v |-> v] BY <1>1 DEF Begins
<1> QED BY <1>1, <1>2

\* So it is in every place where a decoder can be parked.
LEMMA FlowInStep == ASSUME Flow, wire # <<>>, g.n > 0
                    PROVE  Head(wire).f = g.at /\ Head(wire).n = g.n
<1>1. ASSUME \E f, v, s : Comes(f, v, s) PROVE Head(wire).f = g.at /\ Head(wire).n = g.n
  BY <1>1, ComesInStep
<1>2. CASE AtRectangle BY <1>1, <1>2 DEF AtRectangle
<1>3. CASE AtLast BY <1>1, <1>3 DEF AtLast
<1>4. CASE AtRRE BY <1>1, <1>4 DEF AtRRE
<1>5. CASE AtHexRaw \/ AtHexSubs BY <1>1, <1>5 DEF AtHexRaw, AtHexSubs
<1>6. CASE AtHexBlock BY <1>1, <1>6 DEF AtHexBlock
<1>7. CASE AtZRLE BY <1>1, <1>7 DEF AtZRLE
<1>8. CASE AtTight \/ AtFilter \/ AtPaletteSize \/ AtPalette
  BY <1>1, <1>8 DEF AtTight, AtFilter, AtPaletteSize, AtPalette
<1>9. CASE AtHextile /\ g.at = "hextile"
  <2>1. PICK k, s : g.n = 1 /\ wire = s /\ HexNext(k, s) BY <1>9 DEF AtHextile
  <2>2. HexFields(rect.w, rect.h, bypp, k, s) BY <2>1 DEF HexNext
  <2>3. PICK bits, u : IsSeq(u) /\ s = Field("hextile", 1, bits) \o u BY <2>2 DEF HexFields
  <2>4. Comes("hextile", bits, u) BY <1>9, <2>1, <2>3 DEF Comes
  <2> QED BY <1>1, <2>4
<1>10. CASE AtLength /\ g.at = "tight.length"
  <2>1. PICK part, length, m, v :
            /\ part \in 0..2 /\ length \in Nat /\ m \in Nat /\ g.n = 1
            /\ wire = Left(part, m) \o Field(LengthOf(g.my.stream = JPEG),
                                             length + m * Weight(part), v)
    BY <1>10, SMTT(40) DEF AtLength
  <2>2. PICK b, s : /\ b \in Nat /\ IsSeq(s) /\ NextByte(part, m, b, s)
                    /\ Left(part, m) = Byte(b) \o s
    BY <2>1, LeftFirst
  <2>3. PICK d : d = Field(LengthOf(g.my.stream = JPEG), length + m * Weight(part), v) /\ IsSeq(d)
    BY FieldIsSeq
  <2>4. PICK c : c = Byte(b) /\ IsSeq(c) BY FieldIsSeq DEF Byte
  <2>5. PICK u : u = s \o d OBVIOUS
  <2>6. wire = c \o u
    <3>1. wire = (c \o s) \o d BY <2>1, <2>2, <2>3, <2>4
    <3> QED BY <3>1, <2>2, <2>3, <2>4, <2>5, JoinAssociates, SMTT(40)
  <2>7. IsSeq(u) BY <2>2, <2>3, <2>5, JoinIsSeq
  <2>8. g.at = "tight.length" /\ g.n = 1 /\ g.n \in Nat BY <1>10, <2>1
  <2>9. c = Field("tight.length", g.n, b) BY <2>4, <2>8 DEF Byte
  <2>10. Comes("tight.length", b, u) BY <2>6, <2>7, <2>8, <2>9 DEF Comes
  <2> QED BY <1>1, <2>10
<1> QED BY <1>2, <1>3, <1>4, <1>5, <1>6, <1>7, <1>8, <1>9, <1>10 DEF Flow

\* InStep for every framebuffer, tiling, rectangle and length: the sizes
\* the generators yield to _pump are those of the fields the server wrote
\* (rfb.py: _pump; decoders/: every yield).
THEOREM AlwaysInStep == Spec => []InStep
<1>1. StreamInvariant => InStep BY FlowInStep DEF StreamInvariant, Good, Dead, InStep
<1> QED BY <1>1, StreamInvariantHolds, PTL
===============================================================================
