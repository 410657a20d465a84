-------------------------- MODULE MCRectangleStream --------------------------
(* Values of the constants of RectangleStream. *)
EXTENDS RectangleStream
BigEndian == [RGBX8888 EXCEPT !.bigendian = TRUE]
HighBytes == [RGBX8888 EXCEPT !.shift = <<8, 16, 24>>]
Deep      == [BGRX8888 EXCEPT !.depth = 32]
Mapped    == [RGBX8888 EXCEPT !.bpp = 8, !.truecolor = FALSE]
Counts(a, b, c) == [s \in Streams |-> CASE s = "0" -> a [] s = "1" -> b [] s = ZRLE -> c]
Connection(announced, requested, jpeg, back, deflate, sent) ==
    [announced |-> announced, requested |-> requested, jpeg |-> jpeg,
     backing |-> back, deflated |-> deflate, rects |-> sent]
SomeConnections == {
    Connection(BigEndian, NotAsked, TRUE,  0, Counts(1, 0, 0), 0),
    Connection(HighBytes, NotAsked, FALSE, 4, Counts(0, 1, 1), 1),
    Connection(Deep,      NotAsked, TRUE,  9, Counts(1, 1, 0), 1),
    Connection(Mapped,    NotAsked, FALSE, 0, Counts(0, 0, 0), 0),
    Connection(Mapped,    RGB565,   TRUE,  6, Counts(1, 1, 1), 1)}
Sizes == [raw |-> {<<3, 2>>, <<0, 1>>, <<11, 1>>}, rre |-> {<<2, 2>>, <<1, 1>>}, corre |-> {<<3, 2>>},
          hextile |-> {<<3, 2>>, <<1, 5>>, <<0, 2>>}, zrle |-> {<<3, 2>>, <<4, 1>>},
          tight |-> {<<3, 1>>, <<4, 1>>, <<9, 2>>, <<10, 1>>, <<0, 2>>, <<1, 12>>},
          copyrect |-> {<<1, 1>>, <<10, 1>>}, cursor |-> {<<9, 2>>}, control |-> {<<5, 5>>}]
Earlier == [enc \in Encodings |-> CASE enc = "tight" -> {<<4, 1>>} [] enc = "zrle" -> {<<1, 1>>}
                                    [] enc = "rre" -> {<<3, 1>>} [] OTHER -> {}]
Use(resets, stream, length) == [resets |-> resets, stream |-> stream, length |-> length]
SomeUses == {Use({}, "0", 5), Use({"0"}, "0", 300), Use({"1"}, "0", 20000), Use({}, "1", 20000)}
===============================================================================
