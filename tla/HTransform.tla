----------------------------- MODULE HTransform -----------------------------
(***************************************************************************)
(* The H-transform of an image and its code, as the encoder of HCOMPRESS   *)
(* in CFITSIO makes them.  The repository has only a decoder: this is what *)
(* its input is taken to be.  An array is a function of 0 .. nx * ny - 1,  *)
(* rows after each other, nx the slow axis.                                *)
(***************************************************************************)
EXTENDS Integers, Sequences, FiniteSetsExt, SequencesExt

Half(n) == (n + 1) \div 2
Ceiling(n, m) == (n + m - 1) \div m
FloorTo(v, m) == (v \div m) * m
Magnitude(v) == IF v < 0 THEN -v ELSE v

(* Number of halvings after which n elements are one. *)
Levels(n) == Min({k \in 0..30 : 2^k >= n})

(* Round up from zero on, to a multiple of m; a negative value gets low.   *)
Rounded(v, m, high, low) == FloorTo(v + (IF v >= 0 THEN high ELSE low), m)

(* One level: the block of x * y elements at the top left is replaced by   *)
(* sums and differences, then each kind is moved together.                 *)
ForwardLevel(a, ny, x, y, k) ==
  LET At(i, j) == IF i < x /\ j < y THEN a[ny * i + j] ELSE 0
      odd(i, j) == i + 1 >= x \/ j + 1 >= y
      both(i, j) == i + 1 >= x /\ j + 1 >= y
      Scale(i, j, v) ==
        LET up == IF both(i, j) THEN 4 ELSE IF odd(i, j) THEN 2 ELSE 1
        IN  IF k = 0 THEN v * up ELSE (v * up) \div 2
      sign(s, t) == IF s = t THEN 1 ELSE -1
      Coefficient(i, j, dx, dy) ==
        Scale(i, j, At(i, j)
          + (IF dx = 0 THEN 1 ELSE -1) * At(i + 1, j)
          + (IF dy = 0 THEN 1 ELSE -1) * At(i, j + 1)
          + sign(dx, dy) * At(i + 1, j + 1))
      Value(i, j, dx, dy) ==
        LET v == (IF dx + dy = 1 THEN -1 ELSE 1) * Coefficient(i, j, dx, dy)
        IN  CASE dx + dy = 2 -> v
              [] dx + dy = 1 -> Rounded(v, 2^(k + 1), 2^k, 0)
              [] OTHER -> Rounded(v, 2^(k + 2), 2^(k + 1), 2^(k + 1) - 1)
      source(t, n) == IF t < Half(n) THEN 2 * t ELSE 2 * (t - Half(n)) + 1
  IN  [p \in DOMAIN a |->
        LET i == p \div ny
            j == p % ny
        IN  IF i >= x \/ j >= y THEN a[p]
            ELSE LET u == source(i, x)
                     v == source(j, y)
                 IN  Value(u - (u % 2), v - (v % 2), u % 2, v % 2)]

Forward(image, nx, ny) ==
  LET levels == Levels(Max({nx, ny}))
      f[k \in 0..levels] ==
        IF k = 0 THEN image
        ELSE ForwardLevel(f[k - 1], ny, Ceiling(nx, 2^(k - 1)), Ceiling(ny, 2^(k - 1)), k - 1)
  IN  f[levels]

(* The code of the node that covers size * size elements, at (i, j), of an *)
(* array whose elements at the places in ones are set: which quarters have *)
(* such an element.                                                        *)
NodeCode(ones, size, i, j) ==
  LET quarter == size \div 2
      Has(dx, dy) ==
        \E u, v \in 0..(quarter - 1) :
          <<size * i + quarter * dx + u, size * j + quarter * dy + v>> \in ones
      Weight(dx, dy) == IF Has(dx, dy) THEN 2^(3 - 2 * dx - dy) ELSE 0
  IN  Weight(0, 0) + Weight(0, 1) + Weight(1, 0) + Weight(1, 1)
-----------------------------------------------------------------------------
(* The code of an array of coefficients: planes, signs, whole bytes.       *)

Digits(v, n) == [t \in 1..n |-> (v \div 2^(n - t)) % 2]
HuffmanCode(v) ==
  Digits(<<62, 0, 1, 8, 2, 9, 26, 27, 3, 28, 10, 29, 11, 30, 63, 12>>[v + 1],
         <<6, 3, 3, 4, 3, 4, 5, 5, 3, 5, 4, 5, 4, 5, 6, 4>>[v + 1])

(* One plane of a quadrant of x * y elements: the nybbles as they are, or  *)
(* the tree, root first and each level from its last element on, without   *)
(* what is zero but for the root.                                          *)
PlaneCode(ones, x, y, height, direct) ==
  LET wide(level, n) == Ceiling(n, 2^(height - level))
      Codes(level) ==
        [t \in 1..(wide(level, x) * wide(level, y)) |->
           NodeCode(ones, 2^(height - level),
                    (t - 1) \div wide(level, y), (t - 1) % wide(level, y))]
      root == NodeCode(ones, 2^height, 0, 0)
      Tree(level) ==
        FlattenSeq([t \in DOMAIN Codes(level) |->
          LET code == Reverse(Codes(level))[t]
          IN  IF code = 0 THEN <<>> ELSE HuffmanCode(code)])
  IN  IF direct
      THEN Digits(0, 4) \o FlattenSeq([t \in DOMAIN Codes(height - 1) |->
                                        Digits(Codes(height - 1)[t], 4)])
      ELSE Digits(15, 4) \o HuffmanCode(root)
             \o FlattenSeq([level \in 1..(height - 1) |-> Tree(level)])

(* Bits filled up to a whole byte, the last one of the filling given. *)
Filled(bits, last) ==
  LET n == (8 - (Len(bits) % 8)) % 8
  IN  bits \o [t \in 1..n |-> IF t = n THEN last ELSE 0]
Bytes(bits) ==
  [t \in 1..(Len(bits) \div 8) |->
     FoldLeft(LAMBDA v, b : 2 * v + b, 0, SubSeq(bits, 8 * t - 7, 8 * t))]
=============================================================================
