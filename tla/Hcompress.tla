------------------------------ MODULE Hcompress ------------------------------
(***************************************************************************)
(* The decoder of an HCOMPRESS tile (validation/fits/hcompress.rs), one    *)
(* action for each plane, level and pass, on the code of an image.  Arrays *)
(* are flat, as in the code, and worked on in place, from 0 on.  The       *)
(* stream is what follows the header and the number of planes.  Both       *)
(* widths of the code (i32, i64) are one here, with values far from        *)
(* overflow.                                                               *)
(***************************************************************************)
EXTENDS HTransform, HcInput

CONSTANTS
  Geometries,   \* pairs nx, ny
  Images(_, _), \* images of nx * ny pixels
  Scales,       \* quantization: 0 and 1 are none
  Streams       \* pairs: how the encoder writes planes ("direct", "tree" or
                \* "mixed"), and what happened to the stream then ("none", ...)

VARIABLES
  nx, ny, scale, planes, sum,  \* the header: geometry, scale, bit planes, sumall
  image, target,   \* what was encoded: the pixels, and the coefficients
  data,            \* the bytes of the tile
  intact,          \* history: they are those the encoder wrote
  reader,          \* HcInput
  phase, verdict,
  q,               \* quadrant, or the level of the transform
  bit, k,          \* plane, level of its tree
  grid,            \* nx, ny, nfx, nfy, c of the loop over levels
  size, scratch,   \* of the quadrant
  a                \* coefficients, then pixels

header == <<nx, ny, scale, planes, sum, image, target, data, intact>>
vars == <<header, reader, phase, verdict, q, bit, k, grid, size, scratch, a>>

(* Quadrants: rows, columns, the offset of the first element, its planes.  *)
QuadrantsOf(x, y, p) ==
  <<[x |-> Half(x), y |-> Half(y), off |-> 0, planes |-> p[1]],
    [x |-> Half(x), y |-> y \div 2, off |-> Half(y), planes |-> p[2]],
    [x |-> x \div 2, y |-> Half(y), off |-> y * Half(x), planes |-> p[2]],
    [x |-> x \div 2, y |-> y \div 2, off |-> y * Half(x) + Half(y), planes |-> p[3]]>>
Quadrants == QuadrantsOf(nx, ny, planes)
Quad == Quadrants[q]
Depth(quad) == Levels(Max({quad.x, quad.y, 1}))

(* The encoder's side: coefficients divided by the scale, and the number   *)
(* of bits of the largest of each kind of quadrant.                        *)
Digitize(v, s) ==
  LET d == (s + 1) \div 2 - 1
      part == (Magnitude(v) + d) \div s
  IN  IF s <= 1 THEN v ELSE IF v < 0 THEN -part ELSE part
Kind(p, x, y) == 1 + (IF p \div y >= Half(x) THEN 1 ELSE 0)
                   + (IF p % y >= Half(y) THEN 1 ELSE 0)
BitsOf(n) == Min({b \in 0..30 : 2^b > n})

Encoded(x, y, s, pixels) ==
  LET h == Forward(pixels, x, y)
  IN  [p \in DOMAIN h |-> Digitize(h[p], s)]
PlanesOf(x, y, c) ==
  [kind \in 1..3 |->
     BitsOf(Max({0} \cup {Magnitude(c[p]) :
                            p \in {r \in DOMAIN c : r > 0 /\ Kind(r, x, y) = kind}}))]

(* The planes of the quadrants, from the highest on, and a zero nybble,    *)
(* then the signs of what is not zero.                                     *)
PlanesCode(x, y, c, p, format) ==
  LET Quadrant(quad) ==
        LET plane(b) ==
              PlaneCode({e \in (0..(quad.x - 1)) \X (0..(quad.y - 1)) :
                           (Magnitude(c[quad.off + y * e[1] + e[2]]) \div 2^b) % 2 = 1},
                        quad.x, quad.y, Max({Depth(quad), 1}),
                        format = "direct" \/ (format = "mixed" /\ b % 2 = 0))
        IN  FlattenSeq([t \in 1..quad.planes |-> plane(quad.planes - t)])
  IN  FlattenSeq([n \in 1..4 |-> Quadrant(QuadrantsOf(x, y, p)[n])]) \o Digits(0, 4)
SignsCode(c) ==
  LET nonzero == SelectSeq([t \in 1..Cardinality(DOMAIN c) |-> c[t - 1]], LAMBDA v : v # 0)
  IN  [t \in DOMAIN nonzero |-> IF nonzero[t] < 0 THEN 1 ELSE 0]

Written(bits, signs, damage) ==
  LET bytes == Bytes(Filled(bits, IF damage = "padding" THEN 1 ELSE 0)
                       \o Filled(signs, IF damage = "end" THEN 1 ELSE 0))
  IN  CASE damage = "short" -> Front(bytes)
        [] damage = "long" -> Append(bytes, 0)
        [] damage = "format" -> [bytes EXCEPT ![1] = 5 * 16 + (@ % 16)]
        [] OTHER -> bytes

Init ==
  \E g \in Geometries, s \in Scales :
    /\ nx = g[1] /\ ny = g[2] /\ scale = s
    /\ image \in Images(nx, ny)
    /\ LET c == Encoded(nx, ny, s, image)
       IN  /\ sum = c[0]
           /\ target = [c EXCEPT ![0] = 0]
           /\ planes = PlanesOf(nx, ny, c)
           /\ \E stream \in Streams :
                LET bits == PlanesCode(nx, ny, target, planes, stream[1])
                    signs == SignsCode(target)
                IN  /\ data = Written(bits, signs, stream[2])
                    /\ intact = (data = Written(bits, signs, "none"))
    /\ reader = NoBits
    /\ phase = "start" /\ verdict = "none"
    /\ q = 0 /\ bit = 0 /\ k = 0 /\ grid = <<1, 1, 0, 0, 0>>
    /\ size = 0 /\ scratch = <<>> /\ a = [p \in DOMAIN image |-> 0]

At(p) == verdict = "none" /\ phase = p
Refuse(kind) ==
  verdict' = kind /\ UNCHANGED <<reader, phase, q, bit, k, grid, size, scratch, a>>
Continue(r) == ~Starved(data, r) /\ reader' = r /\ UNCHANGED verdict
-----------------------------------------------------------------------------

(* qtree_decode begins: an array for the codes of the quadrant. *)
StartQuadrant ==
  /\ At("start") \/ (At("plane") /\ bit < 0)
  /\ q < 4
  /\ q' = q + 1
  /\ LET quad == Quadrants[q + 1]
     IN  /\ bit' = quad.planes - 1
         /\ size' = Half(quad.x) * Half(quad.y) + 4
         /\ scratch' = [t \in 0..(size' - 1) |-> 0]
  /\ phase' = "plane"
  /\ UNCHANGED <<header, reader, verdict, k, grid, a>>

(* bitins: each code puts its four bits into a square of two by two.       *)
Inserted(codes) ==
  LET x == Quad.x
      y == Quad.y
      code(i, j) == codes[Half(y) * (i \div 2) + j \div 2]
      weight(i, j) == 2^(3 - 2 * (i % 2) - (j % 2))
      new(i, j) == IF (code(i, j) \div weight(i, j)) % 2 = 1 THEN 2^bit ELSE 0
  IN  [p \in DOMAIN a |->
        LET r == p - Quad.off
            i == r \div ny
            j == r % ny
        IN  IF r >= 0 /\ i < x /\ j < y THEN a[p] + new(i, j) ELSE a[p]]

(* A plane begins with its format. *)
Format == Nybble(data, reader)
BadFormat ==
  /\ At("plane") /\ bit >= 0
  /\ Starved(data, Format[2]) \/ Format[1] \notin {0, 15}
  /\ Refuse("integrity") /\ UNCHANGED header

(* read_bdirect *)
ReadDirect ==
  /\ At("plane") /\ bit >= 0
  /\ Format[1] = 0 /\ ~Starved(data, Format[2])
  /\ LET count == Half(Quad.x) * Half(Quad.y)
         codes == Nybbles(data, Format[2], count)
     IN  \/ Starved(data, codes[2]) /\ Refuse("integrity")
         \/ /\ Continue(codes[2])
            /\ scratch' = [t \in DOMAIN scratch |->
                            IF t < count THEN codes[1][t + 1] ELSE scratch[t]]
            /\ a' = IF Quad.x = 0 \/ Quad.y = 0 THEN a ELSE Inserted(scratch')
            /\ bit' = bit - 1
            /\ UNCHANGED <<phase, q, k, grid, size>>
  /\ UNCHANGED header

ReadRoot ==
  /\ At("plane") /\ bit >= 0
  /\ Format[1] = 15 /\ ~Starved(data, Format[2])
  /\ LET root == Huffman(data, Format[2])
     IN  \/ Starved(data, root[2]) /\ Refuse("integrity")
         \/ /\ Continue(root[2])
            /\ scratch' = [scratch EXCEPT ![0] = root[1]]
            /\ grid' = <<1, 1, Quad.x, Quad.y, 2^Depth(Quad)>>
            /\ k' = 1
            /\ phase' = "tree"
            /\ UNCHANGED <<q, bit, size, a>>
  /\ UNCHANGED header

(* Twice as many elements as far as they lie inside. *)
Doubled(g) ==
  LET c == g[5] \div 2
      Grow(n, f) == IF f <= c THEN 2 * n - 1 ELSE 2 * n
      Left(f) == IF f <= c THEN f ELSE f - c
  IN  <<Grow(g[1], g[3]), Grow(g[2], g[4]), Left(g[3]), Left(g[4]), c>>

(* Mutant: the codes are moved apart from the first on. *)
MovedUp(s, x, y) ==
  LET step(b, t) == [b EXCEPT ![2 * (y * (t \div Half(y)) + (t % Half(y)))] = b[t]]
  IN  FoldLeft(step, s, [t \in 1..(Half(x) * Half(y)) |-> t - 1])

(* qtree_copy, first half: the codes are moved apart in place, the last    *)
(* one first.                                                              *)
Moved(s, x, y) ==
  LET count == Half(x) * Half(y)
      step(b, t) == [b EXCEPT ![2 * (y * (t \div Half(y)) + (t % Half(y)))] = b[t]]
  IN  FoldLeft(step, s, [t \in 1..count |-> count - t])

(* Second half: each code is replaced by its bits. *)
Spread(s, x, y) ==
  [p \in DOMAIN s |->
     LET i == p \div y
         j == p % y
         code == s[y * (i - (i % 2)) + j - (j % 2)]
     IN  IF p < x * y THEN (code \div 2^(3 - 2 * (i % 2) - (j % 2))) % 2 ELSE s[p]]

(* One turn of the loop over k, with qtree_expand: a new code is read for  *)
(* each element that is not zero, from the last on.  The last element is   *)
(* written, which the array may not have.                                  *)
Expand ==
  /\ At("tree") /\ k < Depth(Quad)
  /\ LET g == Doubled(grid)
         x == g[1]
         y == g[2]
         bits == Spread(Moved(scratch, x, y), x, y)
         step(acc, p) ==
           IF acc[1][p] = 0 THEN acc
           ELSE LET code == Huffman(data, acc[2])
                IN  <<[acc[1] EXCEPT ![p] = code[1]], code[2]>>
         read == FoldLeft(step, <<bits, reader>>, [t \in 1..(x * y) |-> x * y - t])
     IN  \/ x * y > size /\ Refuse("panic")
         \/ x * y <= size /\ Starved(data, read[2]) /\ Refuse("integrity")
         \/ /\ x * y <= size
            /\ Continue(read[2])
            /\ grid' = g /\ k' = k + 1
            /\ scratch' = read[1]
            /\ UNCHANGED <<phase, q, bit, size, a>>
  /\ UNCHANGED header

InsertTree ==
  /\ At("tree") /\ k >= Depth(Quad)
  /\ a' = IF Quad.x = 0 \/ Quad.y = 0 THEN a ELSE Inserted(scratch)
  /\ bit' = bit - 1
  /\ phase' = "plane"
  /\ UNCHANGED <<header, reader, verdict, q, k, grid, size, scratch>>

Cancel == verdict = "none" /\ Refuse("cancelled") /\ UNCHANGED header
-----------------------------------------------------------------------------
(* The zero nybble and the filling, the signs from the next byte on, the   *)
(* sum in place of the first coefficient, the scale.                       *)
ReadSigns ==
  /\ At("plane") /\ bit < 0 /\ q = 4
  /\ LET end == Nybble(data, reader)
         step(acc, p) ==
           IF acc[1][p] = 0 THEN acc
           ELSE LET sign == Bit(data, acc[2])
                IN  <<[acc[1] EXCEPT ![p] = IF sign[1] = 1 THEN -@ ELSE @], sign[2]>>
         read == FoldLeft(step, <<a, Aligned(end[2])>>, [t \in 1..(nx * ny) |-> t - 1])
         whole == [read[1] EXCEPT ![0] = sum]
     IN  \/ /\ end[1] # 0 \/ end[2].bits # 0 \/ Starved(data, read[2])
            /\ Refuse("integrity")
         \/ /\ end[1] = 0 /\ end[2].bits = 0
            /\ Continue(read[2])
            /\ a' = [p \in DOMAIN a |-> IF scale > 1 THEN whole[p] * scale ELSE whole[p]]
            /\ phase' = "round"
            /\ UNCHANGED <<q, bit, k, grid, size, scratch>>
  /\ UNCHANGED header

(* hinv begins: the sum is rounded. *)
StartTransform ==
  /\ At("round")
  /\ LET levels == Levels(Max({nx, ny}))
         low == 2^levels
     IN  IF levels = 0 THEN phase' = "end" /\ UNCHANGED <<a, k, grid>>
         ELSE /\ a' = [a EXCEPT ![0] = Rounded(a[0], 2 * low, low, low - 1)]
              /\ grid' = <<1, 1, nx, ny, low>>
              /\ k' = levels - 1
              /\ phase' = "transform"
  /\ UNCHANGED <<header, reader, verdict, q, bit, size, scratch>>

(* unshuffle: the second half of n elements, step apart, is copied away,   *)
(* and the first half moved apart in place, the last one first.            *)
Unshuffled(b, first, n, step) ==
  LET half == Half(n)
      tmp == [t \in 0..(n - half - 1) |-> b[first + step * (half + t)]]
      move(c, t) == [c EXCEPT ![first + 2 * step * t] = c[first + step * t]]
      even == FoldLeft(move, b, [t \in 1..half |-> half - t])
      odd == {t \in 0..(n - 1) : t % 2 = 1}
  IN  [p \in DOMAIN b |->
        IF \E t \in odd : p = first + step * t
        THEN tmp[(CHOOSE t \in odd : p = first + step * t) \div 2] ELSE even[p]]
Ordered(b, x, y) ==
  LET rows == FoldLeft(LAMBDA c, i : Unshuffled(c, ny * (i - 1), y, 1), b, [i \in 1..x |-> i])
  IN  FoldLeft(LAMBDA c, j : Unshuffled(c, j - 1, x, ny), rows, [j \in 1..y |-> j])

Toward(v, low) == IF v >= 0 THEN v - low ELSE v + low
LowBit(v, m) == IF (v \div m) % 2 = 1 THEN m ELSE 0

(* The four pixels of a square, from its sum and its differences.          *)
Square(h0, x0, y0, c0, level) ==
  LET bit0 == 2^level
      bit1 == 2 * bit0
      low == IF level = 0 THEN 0 ELSE bit0 \div 2 - 1
      shift == IF level = 0 THEN 4 ELSE 2
      hc == Rounded(c0, bit0, bit0 \div 2, low)
      lowbit0 == LowBit(hc, bit0)
      hx == Toward(Rounded(x0, bit1, bit0, bit0 - 1), lowbit0)
      hy == Toward(Rounded(y0, bit1, bit0, bit0 - 1), lowbit0)
      odd == {v \in 1..3 : LowBit(<<hc, hx, hy>>[v], bit1) # 0}
      lowbit1 == IF Cardinality(odd) % 2 = 1 THEN bit1 ELSE 0
      s == IF h0 >= 0 THEN h0 + lowbit0 - lowbit1
           ELSE h0 + (IF lowbit0 = 0 THEN lowbit1 ELSE lowbit0 - lowbit1)
  IN  << <<(s - hx - hy + hc) \div shift, (s - hx + hy - hc) \div shift>>,
         <<(s + hx - hy - hc) \div shift, (s + hx + hy + hc) \div shift>> >>

(* Mutant: the bit that the difference shares with the sum is not taken    *)
(* from the sum.                                                           *)
PairKeepsLowBit(h0, d0, level) ==
  LET bit1 == 2^(level + 1)
      shift == IF level = 0 THEN 4 ELSE 2
      d == Rounded(d0, bit1, bit1 \div 2, bit1 \div 2 - 1)
  IN  <<(h0 - d) \div shift, (h0 + d) \div shift>>

(* The two pixels at an odd edge. *)
Pair(h0, d0, level) ==
  LET bit1 == 2^(level + 1)
      shift == IF level = 0 THEN 4 ELSE 2
      d == Rounded(d0, bit1, bit1 \div 2, bit1 \div 2 - 1)
      s == Toward(h0, LowBit(d, bit1))
  IN  <<(s - d) \div shift, (s + d) \div shift>>

TransformLevel ==
  /\ At("transform") /\ k >= 0
  /\ LET g == Doubled(grid)
         x == g[1]
         y == g[2]
         b == Ordered(a, x, y)
         pixel(i, j) ==
           LET u == i - (i % 2)
               v == j - (j % 2)
               p == ny * u + v
           IN  CASE u + 1 < x /\ v + 1 < y ->
                      Square(b[p], b[p + ny], b[p + 1], b[p + ny + 1], k)[1 + (i % 2)][1 + (j % 2)]
                 [] u + 1 < x /\ v + 1 = y -> Pair(b[p], b[p + ny], k)[1 + (i % 2)]
                 [] u + 1 = x /\ v + 1 < y -> Pair(b[p], b[p + 1], k)[1 + (j % 2)]
                 [] OTHER -> b[p] \div (IF k = 0 THEN 4 ELSE 2)
     IN  /\ a' = [p \in DOMAIN a |->
                    IF p \div ny < x /\ p % ny < y THEN pixel(p \div ny, p % ny) ELSE b[p]]
         /\ grid' = g
  /\ k' = k - 1
  /\ phase' = IF k = 0 THEN "end" ELSE phase
  /\ UNCHANGED <<header, reader, verdict, q, bit, size, scratch>>

(* Every byte is read, and what is left of the last one is zero. *)
Finish ==
  /\ At("end")
  /\ verdict' = IF reader.next = Len(data) /\ reader.bits = 0 THEN "decoded" ELSE "integrity"
  /\ UNCHANGED <<header, reader, phase, q, bit, k, grid, size, scratch, a>>

Next ==
  \/ StartQuadrant \/ BadFormat \/ ReadDirect \/ ReadRoot \/ Expand \/ InsertTree
  \/ ReadSigns \/ StartTransform \/ TransformLevel \/ Finish
  \/ Cancel
Spec == Init /\ [][Next]_vars
-----------------------------------------------------------------------------
(* While planes are read, whatever their formats: the quadrants read so    *)
(* far hold the magnitudes of the image's coefficients, the one at work    *)
(* their bits above the plane, and the others nothing, so that no plane    *)
(* reaches into another quadrant.                                          *)
PlanesAccumulate ==
  phase \in {"plane", "tree"} =>
    \A n \in 1..4 : LET quad == Quadrants[n] IN
      \A i \in 0..(quad.x - 1), j \in 0..(quad.y - 1) :
        LET p == quad.off + ny * i + j
            m == Magnitude(target[p])
        IN  a[p] = CASE n < q -> m
                     [] n = q -> FloorTo(m, 2^(bit + 1))
                     [] n > q -> 0

(* A tile decodes if and only if nothing is missing in its stream, nothing *)
(* added, and every filling is zero; it then gives the pixels that were    *)
(* encoded or, with a scale, pixels that are off by at most the scale.     *)
PixelsAreRestored ==
  /\ verdict = "integrity" => ~intact
  /\ verdict = "decoded" => intact /\
    \A p \in DOMAIN image :
      IF scale <= 1 THEN a[p] = image[p] ELSE Magnitude(a[p] - image[p]) <= scale

(* A tile of positive geometry is decoded or refused, never a panic (docs/ *)
(* CompressedFitsResourceImplementation.md 105, tests/validation/          *)
(* compressed.rs 398).                                                     *)
NeverPanics == verdict # "panic"
=============================================================================
