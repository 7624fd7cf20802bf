----------------------------- MODULE MCFitsTiles -----------------------------
(* Small tables: every pair of edits of a sound table of each kind, the    *)
(* Rice streams of three samples, and the PLIO lists of two instructions.  *)
(* A payload is at most 16 bytes long.  No sample is 32 bits wide: TLC's   *)
(* integers are not.                                                       *)
EXTENDS FitsTiles

Pointer(role, type) ==
  [role |-> role, form |-> "P", type |-> type, repeat |-> 1, scaled |-> FALSE]
Fixed(role, type) == [Pointer(role, type) EXCEPT !.form = "none"]

GzipOf(out) ==
  [kind |-> "gzip", header |-> "good", out |-> out, deflate |-> "ended",
   trailer |-> "good", rest |-> "none"]

(* Item(r, i) is a scalar, or the count of elements and the stream.        *)
Make(axes, bitpix, codec, fields, Item(_, _)) ==
  LET n == Len(fields)
      shape == [axes |-> axes]
      rows == Product([a \in DOMAIN axes |-> Bins(shape, a)])
      size == SumOf([i \in 1..n |-> FieldWidth(fields[i])])
      used == {x \in (1..rows) \X (1..n) : fields[x[2]].form # "none" /\ Item(x[1], x[2])[1] > 0}
      place(r, i) == 16 * ((r - 1) * n + i - 1)
      extent(x) == <<place(x[1], x[2]), TypeSize(fields[x[2]].type, Item(x[1], x[2])[1])>>
  IN  [kind |-> "binary", rowSize |-> size, rows |-> rows,
       pcount |-> 16 * rows * n, theap |-> -1, fields |-> fields,
       axes |-> axes, bitpix |-> bitpix, codec |-> codec, malformed |-> {},
       block |-> 2, bytepix |-> IF bitpix = 8 THEN 1 ELSE 2,
       quantiz |-> "none", dither |-> -1, maskcmp |-> "none",
       scale |-> "none", zero |-> "none",
       cells |-> [r \in 1..rows |-> [i \in 1..n |->
                    IF fields[i].form = "none" THEN Item(r, i)
                    ELSE IF Item(r, i)[1] = 0 THEN <<0, 0>>
                    ELSE <<Item(r, i)[1], place(r, i)>>]],
       heap |-> [e \in {extent(x) : x \in used} |->
                   LET x == CHOOSE y \in used : extent(y) = e IN Item(x[1], x[2])[2]]]

Plane == << <<3, 2>>, <<2, -1>> >>
PlaneOf(r) == IF r % 2 = 1 THEN 2 ELSE 1
Line == << <<3, -1>> >>
Cube == << <<2, -1>>, <<1, 1>>, <<2, 2>> >>

Raw == [kind |-> "raw"]
Sound(r) == [kind |-> "hcompress", dims |-> <<PlaneOf(r), 1>>, planes |-> 8, sound |-> TRUE]

Bases == <<
  Make(Plane, 8, "GZIP_1", <<Pointer("data", "B")>>, LAMBDA r, i : <<5, GzipOf(PlaneOf(r))>>),
  Make(Cube, 16, "GZIP_2", <<Pointer("data", "B")>>, LAMBDA r, i : <<5, GzipOf(8)>>),
  Make(Plane, 8, "GZIP_1", <<Pointer("data", "B"), Pointer("raw", "B")>>,
       LAMBDA r, i : CASE i = 1 /\ r # 2 -> <<5, GzipOf(PlaneOf(r))>>
                       [] i = 2 /\ r = 2 -> <<1, Raw>>
                       [] OTHER -> <<0, Raw>>),
  Make(Plane, 8, "HCOMPRESS_1", <<Pointer("data", "B"), Pointer("gzip", "B")>>,
       LAMBDA r, i : CASE i = 1 /\ r # 2 -> <<9, Sound(r)>>
                       [] i = 2 /\ r = 2 -> <<5, GzipOf(1)>>
                       [] OTHER -> <<0, Raw>>),
  [Make(Plane, 8, "NOCOMPRESS", <<Pointer("data", "B"), Pointer("mask", "B")>>,
        LAMBDA r, i : CASE i = 1 -> <<PlaneOf(r), Raw>>
                        [] r = 1 -> <<5, GzipOf(2)>>
                        [] OTHER -> <<0, Raw>>)
   EXCEPT !.maskcmp = "GZIP_1"],
  Make(<< <<2, 1>> >>, -32, "GZIP_1",
       <<Fixed("none", "X"), Pointer("data", "B"), Fixed("scale", "E"), Fixed("zero", "D")>>,
       LAMBDA r, i : CASE i = 1 -> "zero" [] i = 2 -> <<5, GzipOf(4)>> [] OTHER -> "finite") >>

(* The k-th edit of a table. *)
Edits == 1..37
Edited(b, k) ==
  LET stream(name, v) ==
        [b EXCEPT !.heap = [e \in DOMAIN b.heap |->
           IF name \in DOMAIN b.heap[e] THEN [b.heap[e] EXCEPT ![name] = v] ELSE b.heap[e]]]
      first == b.fields[1]
  IN CASE k = 1 -> b
       [] k = 2 -> [b EXCEPT !.theap = TableSize(b) - 1]
       [] k = 3 -> [b EXCEPT !.theap = TableSize(b) + 8, !.pcount = @ + 8]
       [] k = 4 -> [b EXCEPT !.theap = UnitSize(b) + 1]
       [] k = 5 -> [b EXCEPT !.pcount = Max({0, @ - 12})]
       [] k = 6 -> [b EXCEPT !.rowSize = @ + 1]
       [] k = 7 -> [b EXCEPT !.rowSize = @ - 1]
       [] k = 8 -> [b EXCEPT !.fields[1].repeat = 0]
       [] k = 9 -> [b EXCEPT !.fields[1].repeat = 2]
       [] k = 10 -> [b EXCEPT !.fields[1].type = "I"]
       [] k = 11 -> [b EXCEPT !.fields[1].type = "?"]
       [] k = 12 -> [b EXCEPT !.fields[1].scaled = TRUE]
       [] k = 13 -> [b EXCEPT !.fields[1].role = "none"]
       [] k = 14 -> [b EXCEPT !.fields = Append(@, first), !.rowSize = @ + 8,
                              !.pcount = @ + 4, !.cells = [r \in DOMAIN @ |-> Append(@[r], <<1, 0>>)]]
       [] k = 15 -> [b EXCEPT !.cells[1][1] = IF first.form = "P" THEN <<0, 0>> ELSE @]
       [] k = 16 -> [b EXCEPT !.cells[1][1] = IF first.form = "P" THEN <<-1, 0>> ELSE @]
       [] k = 17 -> [b EXCEPT !.cells[1][1] =
                       IF first.form = "P" THEN <<5, HeapSize(b) - 4>> ELSE @]
       [] k = 18 -> [b EXCEPT !.axes[1][1] = @ + 1]
       [] k = 19 -> [b EXCEPT !.axes[1][1] = 0]
       [] k = 20 -> [b EXCEPT !.axes[1][2] = 1]
       [] k = 21 -> [b EXCEPT !.bitpix = 24]
       [] k = 22 -> [b EXCEPT !.bitpix = 16]
       [] k = 23 -> [b EXCEPT !.codec = "?"]
       [] k = 24 -> [b EXCEPT !.codec = "RICE_1"]
       [] k = 25 -> [b EXCEPT !.maskcmp = IF @ = "none" THEN "GZIP_1" ELSE "none"]
       [] k = 26 -> [b EXCEPT !.quantiz = "SUBTRACTIVE_DITHER_1"]
       [] k = 27 -> [b EXCEPT !.scale = "finite", !.zero = "zero", !.dither = 1]
       [] k = 28 -> [b EXCEPT !.scale = "nonfinite"]
       [] k = 29 -> [b EXCEPT !.zero = "finite"]
       [] k = 30 -> stream("header", "long")
       [] k = 31 -> stream("out", 2)
       [] k = 32 -> stream("deflate", "broken")
       [] k = 33 -> stream("trailer", "bad")
       [] k = 34 -> stream("rest", "member")
       [] k = 35 -> stream("rest", "byte")
       [] k = 36 -> stream("planes", 33)
       [] k = 37 -> [b EXCEPT !.malformed = {"ZBLANK"}]
-----------------------------------------------------------------------------
(* A Rice encoder for samples of one byte in blocks, each with a code of   *)
(* its own.                                                                *)
Bits(n, width) == [i \in 1..width |-> (n \div 2^(width - i)) % 2]
Zero(n) == [i \in 1..n |-> 0]
Mapped(a, b) == LET d == (b - a) % 256 IN IF d < 128 THEN 2 * d ELSE 2 * (256 - d) - 1
Coded(d, c) ==
  CASE c = 0 -> <<>>
    [] c = 7 -> Bits(d, 8)
    [] OTHER -> Zero(d \div 2^(c - 1)) \o <<1>> \o Bits(d % 2^(c - 1), c - 1)
RiceBits(s, codes, size) ==
  LET d == [i \in DOMAIN s |-> IF i = 1 THEN 0 ELSE Mapped(s[i - 1], s[i])]
      own(i) == codes[1 + (i - 1) \div size]
      sample(i) == (IF (i - 1) % size = 0 THEN Bits(own(i), 3) ELSE <<>>) \o Coded(d[i], own(i))
      all == FoldLeft(LAMBDA b, i : b \o sample(i), Bits(s[1], 8), [i \in DOMAIN s |-> i])
  IN  [bits |-> all \o Zero((8 - (Len(all) % 8)) % 8), free |-> (8 - (Len(all) % 8)) % 8]
RiceStream(s, codes, size, damage) ==
  LET coded == RiceBits(s, codes, size)
      n == Len(coded.bits)
      bits == CASE damage = "none" -> coded.bits
                [] damage = "cut" -> SubSeq(coded.bits, 1, n - 8)
                [] damage = "long" -> coded.bits \o Zero(8)
                [] damage = "pad" -> [coded.bits EXCEPT ![n] = 1]
      clean == damage = "none" \/ (damage = "pad" /\ coded.free = 0 /\ coded.bits[n] = 1)
  IN  [kind |-> "rice", bits |-> bits, samples |-> s, clean |-> clean]
Samples == {<<a, b, c>> : a \in {0, 200}, b \in {0, 1, 255}, c \in {0, 3}}
Codings ==
  {x \in Samples \X {<<c, d>> : c, d \in {0, 1, 2, 7}} \X {"none", "cut", "long", "pad"} :
     /\ x[2][1] = 0 => x[1][2] = x[1][1]
     /\ x[2][2] = 0 => x[1][3] = x[1][2]
     /\ \A i \in 1..2 : x[2][i] \in {1, 2} =>
          \A j \in {k \in 2..3 : (k + 1) \div 2 = i} :
            Mapped(x[1][j - 1], x[1][j]) \div 2^(x[2][i] - 1) < 16
     /\ x[3] = "pad" => RiceBits(x[1], x[2], 2).free > 0}
RicePlans == {<<"rice", x, "none">> : x \in Codings}
               \cup {<<"rice", <<<<0, 1, 3>>, <<1, 2>>, "none">>, edit>> :
                       edit \in {"block", "bytepix", "mask"}}
RiceTable(x, edit) ==
  LET stream == RiceStream(x[1], x[2], IF edit = "mask" THEN 32 ELSE 2, x[3])
      plain == Make(Line, 8, "RICE_1", <<Pointer("data", "B")>>,
                    LAMBDA r, i : <<Len(stream.bits) \div 8, stream>>)
  IN  CASE edit = "none" -> plain
        [] edit = "block" -> [plain EXCEPT !.block = 0]
        [] edit = "bytepix" -> [plain EXCEPT !.bytepix = 2]
        [] edit = "mask" ->
             [Make(Line, 8, "NOCOMPRESS", <<Pointer("data", "B"), Pointer("mask", "B")>>,
                   LAMBDA r, i : IF i = 1 THEN <<3, Raw>> ELSE <<Len(stream.bits) \div 8, stream>>)
              EXCEPT !.maskcmp = "RICE_1"]
-----------------------------------------------------------------------------
Words ==
  {<<0, 0>>, <<0, 2>>, <<4, 3>>, <<5, 1>>, <<6, 1>>, <<7, 1>>, <<7, 2>>, <<2, 5>>, <<3, 2>>,
   <<1, 7, 0>>, <<1, 4095, 4095>>, <<1, 0, 4096>>, <<1, 5, -1>>, <<1, 5>>, <<8, 0>>}
WordPixels(w) == CASE w[1] \in {0, 4, 5} -> w[2] [] w[1] \in {6, 7} -> 1 [] OTHER -> 0
Highs(list) ==
  LET step(h, w) == CASE w[1] = 1 -> w[2] + 4096 * w[3] [] w[1] \in {2, 6} -> h + w[2]
                      [] w[1] \in {3, 7} -> h - w[2] [] OTHER -> h
  IN  [n \in DOMAIN list |-> FoldLeft(step, 1, SubSeq(list, 1, n))]
PlioStream(list, header) ==
  LET pixels == SumOf([n \in DOMAIN list |-> WordPixels(list[n])])
      legal == ToSet(list) \cap {<<0, 0>>, <<1, 5, -1>>, <<1, 5>>, <<8, 0>>} = {}
  IN  [kind |-> "plio", header |-> header, words |-> list, pixels |-> pixels,
       clean |-> /\ header = "good" /\ legal /\ pixels <= 3
                 /\ ToSet(Highs(list)) \subseteq 0..MaxHigh]
Lists == {<<>>} \cup {<<w>> : w \in Words}
          \cup {x \in Words \X Words : x[1] # <<1, 5>>}
PlioPlans == {<<"plio", x, "good", "none">> : x \in Lists}
               \cup {<<"plio", <<>>, header, "none">> : header \in {"extent", "unknown", "size"}}
               \cup {<<"plio", <<<<0, 2>>>>, "good", edit>> : edit \in {"mask", "heap"}}
PlioTable(list, header, edit) ==
  LET stream == PlioStream(list, header)
      plain == Make(Line, 8, "PLIO_1", <<Pointer("data", "I")>>, LAMBDA r, i : <<7, stream>>)
  IN  CASE edit = "none" -> plain
        [] edit = "heap" -> [plain EXCEPT !.pcount = 13]
        [] edit = "mask" ->
             [Make(Line, 8, "NOCOMPRESS", <<Pointer("data", "B"), Pointer("mask", "B")>>,
                   LAMBDA r, i : IF i = 1 THEN <<3, Raw>> ELSE <<14, stream>>)
              EXCEPT !.maskcmp = "PLIO_1"]
-----------------------------------------------------------------------------
AsciiFields ==
  {[start |-> s, type |-> y[1], width |-> w, precision |-> y[2]] :
     s \in -1..2, w \in 0..2, y \in {<<"A", "none">>, <<"I", "given">>, <<"F", "given">>,
                                     <<"E", "none">>, <<"X", "none">>}}
AsciiPlans == {<<"ascii", <<f, g>>, 0, "none", "none">> : f, g \in AsciiFields}
                \cup {<<"ascii", <<>>, 1, "none", "none">>}
AsciiTable(fields, pcount) ==
  [kind |-> "ascii", rowSize |-> 3, rows |-> 1, pcount |-> pcount, theap |-> -1, fields |-> fields]

EditPlans == {<<"edit", b, x>> : b \in DOMAIN Bases,
                                 x \in {y \in Edits \X Edits : y[1] <= y[2]}}

MCPlans == EditPlans \cup RicePlans \cup PlioPlans \cup AsciiPlans
MCTable(p) ==
  CASE p[1] = "edit" -> Edited(Edited(Bases[p[2]], p[3][1]), p[3][2])
    [] p[1] = "rice" -> RiceTable(p[2], p[3])
    [] p[1] = "plio" -> PlioTable(p[2], p[3], p[4])
    [] p[1] = "ascii" -> AsciiTable(p[2], p[3])
=============================================================================
