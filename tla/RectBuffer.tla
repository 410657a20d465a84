------------------------------ MODULE RectBuffer ------------------------------
(***************************************************************************)
(* decoders/buffer.py: the buffer a decoder paints one rectangle into.     *)
(* The backing is one row after another and is the connection's: it is     *)
(* handed from rectangle to rectangle and only grows, so it may be longer  *)
(* than the rectangle and arrives holding the pixels of another one.  A    *)
(* blit of the whole rectangle is held in `whole` and not copied.          *)
(*                                                                         *)
(* The code counts bytes; every offset in it is an offset in pixels times  *)
(* bypp, so here the backing is a function from offsets in pixels.         *)
(***************************************************************************)
EXTENDS Naturals, Sequences

CONSTANT Blank          \* the pixel of zero bytes

\* RectBuffer.__init__
Open(w, h, backing) == [width |-> w, height |-> h, backing |-> backing,
                        whole |-> <<>>, covered |-> FALSE]

Nbytes(b) == b.width * b.height
Entire(b, x, y, w, h)    == x = 0 /\ y = 0 /\ w = b.width /\ h = b.height
InBounds(b, x, y, w, h)  == x + w <= b.width /\ y + h <= b.height

\* _materialize
Materialize(b) ==
    IF b.whole = <<>> THEN b
    ELSE [b EXCEPT !.whole = <<>>,
                   !.backing = [i \in DOMAIN b.backing |->
                        IF i < Nbytes(b) THEN b.whole[1][i] ELSE b.backing[i]]]

\* _clear
Clear(b) ==
    IF b.covered THEN b
    ELSE [b EXCEPT !.covered = TRUE,
                   !.backing = [i \in DOMAIN b.backing |->
                        IF i < Nbytes(b) THEN Blank ELSE b.backing[i]]]

\* Where row r of the area written to begins (dst), and is offset i in it?
RowAt(b, x, y, r)     == (y + r) * b.width + x
InRow(b, x, y, w, r, i) == RowAt(b, x, y, r) <= i /\ i < RowAt(b, x, y, r) + w

\* The loop over rows: pixels[k] is the k-th of the area, row by row.  Rows as
\* wide as the buffer are one slice; the rows of the loop make up that slice.
Paint(b, x, y, w, h, pixels) ==
    [b EXCEPT !.backing = [i \in DOMAIN b.backing |->
        IF \E r \in 0..h - 1 : InRow(b, x, y, w, r, i)
        THEN LET r == CHOOSE r \in 0..h - 1 : InRow(b, x, y, w, r, i)
             IN  pixels[r * w + (i - RowAt(b, x, y, r))]
        ELSE b.backing[i]]]

\* fill, for an area within the buffer
Fill(b, x, y, w, h, color) ==
    LET ready == IF Entire(b, x, y, w, h) THEN Materialize(b) ELSE Clear(Materialize(b))
        rows  == [k \in 0..w * h - 1 |-> color]
    IN  [Paint(ready, x, y, w, h, rows) EXCEPT !.covered = TRUE]

\* blit, for an area within the buffer
Blit(b, x, y, w, h, pixels) ==
    IF Entire(b, x, y, w, h) THEN [b EXCEPT !.whole = <<pixels>>, !.covered = TRUE]
    ELSE Paint(Clear(Materialize(b)), x, y, w, h, pixels)

\* tobytes
ToBytes(b) == IF b.whole # <<>> THEN b.whole[1]
              ELSE [i \in 0..Nbytes(b) - 1 |-> b.backing[i]]
===============================================================================
