--------------------------- MODULE FitsTilesProofs ---------------------------
(***************************************************************************)
(* Proofs about FitsTiles, for every table, every limit and every stream:  *)
(* columns and payloads lie where there is room, the tiles of an accepted  *)
(* image hold each of its pixels once and no more bytes than were          *)
(* admitted, and the two paths that decode GZIP agree.                     *)
(*                                                                         *)
(* The first part is arithmetic.  Rows count the tiles axis by axis, the   *)
(* first one fastest, so the tiles along the first d axes repeat in blocks *)
(* of as many rows as there are tiles on those axes, and each block comes  *)
(* to the product of their lengths (AxesInBlocks, by induction on d): the  *)
(* tiles of all rows come to the image.  Then what each check establishes, *)
(* then the inductive invariant IInv, one lemma for each action, and what  *)
(* follows from it.                                                        *)
(***************************************************************************)
EXTENDS FitsTiles, ByteTotalsProofs, FunctionTheorems, SequenceTheorems

(* What holds of 0, and of n + 1 if it holds of n, holds of every number   *)
(* up to m.                                                                *)
LEMMA Upward ==
  ASSUME NEW m \in Nat, NEW S, 0 \in S, \A n \in 0..(m - 1) : n \in S => n + 1 \in S
  PROVE  \A n \in 0..m : n \in S
<1> DEFINE T == {n \in 0..m : n \notin S}
<1>1. ASSUME T # {} PROVE FALSE
  <2>1. PICK n \in T : \A x \in T : n <= x
    <3>1. T \in SUBSET Nat
      OBVIOUS
    <3> HIDE DEF T
    <3> QED
      BY <1>1, <3>1, LeastNumber
  <2>2. n # 0
    OBVIOUS
  <2>3. n - 1 \in 0..(m - 1) /\ n - 1 \notin T
    BY <2>1, <2>2
  <2>4. n - 1 \in S
    BY <2>3
  <2>5. (n - 1) + 1 \in S
    BY <2>3, <2>4
  <2> QED
    BY <2>1, <2>5
<1> QED
  BY <1>1

(* A list of numbers as a function on the places 1 to its length. *)
LEMMA ListOf ==
  ASSUME NEW n \in Nat, NEW S, NEW s \in [1..n -> S]
  PROVE  s \in Seq(S) /\ Len(s) = n
OBVIOUS

(* The running sums of lists that agree up to a place agree up to it. *)
LEMMA SumsOfPrefix ==
  ASSUME NEW s \in Seq(Nat), NEW z \in Seq(Nat), NEW m \in Nat,
         m <= Len(s), m <= Len(z), \A i \in 1..m : s[i] = z[i]
  PROVE  \A n \in 0..m : RunningSums(s)[n] = RunningSums(z)[n]
<1>1. PICK f, g : f = RunningSums(s) /\ g = RunningSums(z)
  OBVIOUS
<1>2. PICK L \in Nat, M \in Nat : L = Len(s) /\ M = Len(z)
  OBVIOUS
<1>3. /\ f[0] = 0
      /\ \A n \in 1..L : f[n] = f[n - 1] + s[n]
  BY <1>1, <1>2, RunningSumsDef
<1>4. /\ g[0] = 0
      /\ \A n \in 1..M : g[n] = g[n - 1] + z[n]
  BY <1>1, <1>2, RunningSumsDef
<1>5. \A n \in 1..m : n \in 1..L /\ n \in 1..M
  BY <1>2
<1>6. \A n \in 1..m : f[n] = f[n - 1] + s[n] /\ g[n] = g[n - 1] + z[n]
  BY <1>3, <1>4, <1>5
<1> DEFINE S == {n \in 0..m : f[n] = g[n]}
<1>7. 0 \in S
  BY <1>3, <1>4
<1>8. ASSUME NEW n \in 0..(m - 1), n \in S PROVE n + 1 \in S
  <2>1. n + 1 \in 1..m /\ (n + 1) - 1 = n
    OBVIOUS
  <2>2. f[n + 1] = f[n] + s[n + 1] /\ g[n + 1] = g[n] + z[n + 1]
    BY <1>6, <2>1
  <2> QED
    BY <1>8, <2>1, <2>2
<1>9. \A n \in 0..m : n \in S
  <2> HIDE DEF S
  <2> QED
    BY <1>7, <1>8, Upward
<1> QED
  BY <1>1, <1>9

(* Their running products too. *)
LEMMA ProductsOfPrefix ==
  ASSUME NEW s \in Seq(Nat), NEW z \in Seq(Nat), NEW m \in Nat,
         m <= Len(s), m <= Len(z), \A i \in 1..m : s[i] = z[i]
  PROVE  \A n \in 0..m : RunningProducts(s)[n] = RunningProducts(z)[n]
<1>1. PICK f, g : f = RunningProducts(s) /\ g = RunningProducts(z)
  OBVIOUS
<1>2. PICK L \in Nat, M \in Nat : L = Len(s) /\ M = Len(z)
  OBVIOUS
<1>3. /\ f[0] = 1
      /\ \A n \in 1..L : f[n] = f[n - 1] * s[n]
  BY <1>1, <1>2, RunningProductsDef
<1>4. /\ g[0] = 1
      /\ \A n \in 1..M : g[n] = g[n - 1] * z[n]
  BY <1>1, <1>2, RunningProductsDef
<1>5. \A n \in 1..m : n \in 1..L /\ n \in 1..M
  BY <1>2
<1>6. \A n \in 1..m : f[n] = f[n - 1] * s[n] /\ g[n] = g[n - 1] * z[n]
  BY <1>3, <1>4, <1>5
<1> DEFINE S == {n \in 0..m : f[n] = g[n]}
<1>7. 0 \in S
  BY <1>3, <1>4
<1>8. ASSUME NEW n \in 0..(m - 1), n \in S PROVE n + 1 \in S
  <2>1. n + 1 \in 1..m /\ (n + 1) - 1 = n
    OBVIOUS
  <2>2. f[n + 1] = f[n] * s[n + 1] /\ g[n + 1] = g[n] * z[n + 1]
    BY <1>6, <2>1
  <2> QED
    BY <1>8, <2>1, <2>2
<1>9. \A n \in 0..m : n \in S
  <2> HIDE DEF S
  <2> QED
    BY <1>7, <1>8, Upward
<1> QED
  BY <1>1, <1>9

(* Quotient and remainder of the next number. *)
LEMMA NextDigits ==
  ASSUME NEW b \in Nat \ {0}, NEW x \in Nat
  PROVE  /\ x \div b \in Nat /\ x % b \in 0..(b - 1)
         /\ x = b * (x \div b) + (x % b)
         /\ IF x % b = b - 1
            THEN (x + 1) \div b = x \div b + 1 /\ (x + 1) % b = 0
            ELSE (x + 1) \div b = x \div b /\ (x + 1) % b = (x % b) + 1
<1>1. x \div b \in Nat /\ x % b \in 0..(b - 1) /\ x = b * (x \div b) + (x % b)
  OBVIOUS
<1>2. PICK q, r : q = x \div b /\ r = x % b
  OBVIOUS
<1>3. /\ (x + 1) \div b \in Nat /\ (x + 1) % b \in 0..(b - 1)
      /\ x + 1 = b * ((x + 1) \div b) + ((x + 1) % b)
  OBVIOUS
<1>4. PICK p, s : p = (x + 1) \div b /\ s = (x + 1) % b
  OBVIOUS
<1>5. /\ q \in Nat /\ r \in 0..(b - 1) /\ p \in Nat /\ s \in 0..(b - 1)
      /\ b * p + s = b * q + r + 1
  BY <1>1, <1>2, <1>3, <1>4
<1>6. b * p - b * q = r + 1 - s
  BY <1>5
<1>7. b * (p - q) = b * p - b * q
  BY <1>5
<1>8. PICK d \in Int : d = p - q
  BY <1>5
<1>9. b * d = r + 1 - s
  BY <1>6, <1>7, <1>8
<1>10. d \in {0, 1}
  <2>1. CASE d >= 2
    <3>1. b * d >= b * 2
      BY <2>1
    <3> QED
      BY <1>5, <1>9, <3>1
  <2>2. CASE d <= -1
    <3>1. b * d <= b * (-1)
      BY <2>2
    <3> QED
      BY <1>5, <1>9, <3>1
  <2> QED
    BY <2>1, <2>2
<1>11. CASE d = 0
  BY <1>1, <1>2, <1>4, <1>5, <1>8, <1>9, <1>11
<1>12. CASE d = 1
  BY <1>1, <1>2, <1>4, <1>5, <1>8, <1>9, <1>12
<1> QED
  BY <1>10, <1>11, <1>12
(* Where a list is a multiple of another its sums grow by that multiple.   *)
GrowTogether(u, v, m, n, g) ==
  RunningSums(v)[m + n] = RunningSums(v)[m] + g * (RunningSums(u)[m + n] - RunningSums(u)[m])
Multiple(u, v, m, n, g) == \A i \in 1..n : v[m + i] = u[m + i] * g
(* A list that is a multiple of another one over a stretch grows as many   *)
(* times as much over it.                                                  *)
LEMMA ProportionalSums ==
  ASSUME NEW u \in Seq(Nat), NEW v \in Seq(Nat), NEW m \in Nat, NEW n \in Nat, NEW g \in Nat,
         m + n <= Len(u), m + n <= Len(v), Multiple(u, v, m, n, g)
  PROVE  GrowTogether(u, v, m, n, g)
<1>0. PICK f, h : f = RunningSums(u) /\ h = RunningSums(v)
  OBVIOUS
<1>1. PICK L \in Nat, M \in Nat : L = Len(u) /\ M = Len(v)
  OBVIOUS
<1>2. f \in [0..L -> Nat] /\ \A x \in 1..L : f[x] = f[x - 1] + u[x]
  BY <1>0, <1>1, RunningSumsDef
<1>3. h \in [0..M -> Nat] /\ \A x \in 1..M : h[x] = h[x - 1] + v[x]
  BY <1>0, <1>1, RunningSumsDef
<1> DEFINE S == {i \in 0..n : h[m + i] = h[m] + g * (f[m + i] - f[m])}
<1>4. 0 \in S
  <2>1. f[m] \in Nat /\ h[m] \in Nat
    <3>1. m \in 0..L /\ m \in 0..M
      BY <1>1
    <3> QED
      BY <1>2, <1>3, <3>1
  <2>2. g * (f[m] - f[m]) = 0 /\ m + 0 = m
    BY <2>1
  <2> QED
    BY <2>1, <2>2
<1>5. ASSUME NEW i \in 0..(n - 1), i \in S PROVE i + 1 \in S
  <2>1. /\ m + (i + 1) \in 1..L /\ m + (i + 1) \in 1..M /\ (m + (i + 1)) - 1 = m + i
        /\ m + i \in 0..L /\ m \in 0..L /\ m + i \in 0..M /\ m \in 0..M /\ i + 1 \in 1..n
    BY <1>1
  <2>2. PICK x, y, z : x = f[m + i] /\ y = u[m + (i + 1)] /\ z = f[m]
    OBVIOUS
  <2>3. x \in Nat /\ y \in Nat /\ z \in Nat
    <3>1. x \in Nat /\ z \in Nat
      BY <1>2, <2>1, <2>2
    <3>2. y \in Nat
      <4>1. \A k \in 1..L : u[k] \in Nat
        BY <1>1
      <4> QED
        BY <2>1, <2>2, <4>1
    <3> QED
      BY <3>1, <3>2
  <2>4. f[m + (i + 1)] = x + y /\ h[m + (i + 1)] = h[m + i] + y * g
    <3>1. v[m + (i + 1)] = y * g
      BY <2>1, <2>2 DEF Multiple
    <3>2. f[m + (i + 1)] = x + y
      BY <1>2, <2>1, <2>2
    <3>3. h[m + (i + 1)] = h[m + i] + v[m + (i + 1)]
      BY <1>3, <2>1
    <3> QED
      BY <3>1, <3>2, <3>3
  <2>5. h[m + i] = h[m] + g * (x - z) /\ h[m] \in Nat
    BY <1>3, <1>5, <2>1, <2>2
  <2>6. g * (x - z) + y * g = g * ((x + y) - z)
    BY <2>3
  <2>7. h[m + (i + 1)] = h[m] + g * ((x + y) - z)
    <3>1. PICK p \in Int, w \in Int : p = g * (x - z) /\ w = y * g
      BY <2>3
    <3>2. h[m + (i + 1)] = (h[m] + p) + w
      BY <2>4, <2>5, <3>1, Zenon
    <3>3. g * ((x + y) - z) = p + w
      BY <2>6, <3>1, Zenon
    <3>4. (h[m] + p) + w = h[m] + (p + w)
      BY <2>5
    <3> QED
      BY <3>2, <3>3, <3>4, Zenon
  <2> QED
    BY <2>2, <2>4, <2>7
<1>6. \A i \in 0..n : i \in S
  <2> HIDE DEF S
  <2> QED
    BY <1>4, <1>5, Upward
<1>7. n \in S
  BY <1>6
<1> QED
  BY <1>0, <1>7 DEF GrowTogether

(* The terms of a list come in blocks of b, of which each comes to a; what *)
(* is left of it in the rows of one tile when it is cut along an axis.     *)
InBlocks(u, b, a) ==
  \A k \in Nat : k * b <= Len(u) => RunningSums(u)[k * b] = k * a
CutAlong(u, v, b, A, T, B) ==
  \A r \in 1..Len(u) : v[r] = u[r] * Lesser(T, A - (((r - 1) \div b) % B) * T)

(* A product of two positive numbers is positive. *)
LEMMA PositiveProduct ==
  ASSUME NEW x \in Nat \ {0}, NEW y \in Nat \ {0}
  PROVE  x * y \in Nat \ {0}
OBVIOUS

(* Products of positive factors are positive. *)
LEMMA PositiveProducts ==
  ASSUME NEW s \in Seq(Nat), \A i \in 1..Len(s) : s[i] # 0
  PROVE  \A i \in 0..Len(s) : RunningProducts(s)[i] \in Nat \ {0}
<1>1. PICK f : f = RunningProducts(s)
  OBVIOUS
<1>2. PICK L \in Nat : L = Len(s)
  OBVIOUS
<1>3. f \in [0..L -> Nat] /\ f[0] = 1 /\ \A x \in 1..L : f[x] = f[x - 1] * s[x]
  BY <1>1, <1>2, RunningProductsDef
<1>4. \A x \in 1..L : s[x] \in Nat \ {0}
  BY <1>2
<1> DEFINE S == {i \in 0..L : f[i] \in Nat \ {0}}
<1>5. 0 \in S
  BY <1>3
<1>6. ASSUME NEW i \in 0..(L - 1), i \in S PROVE i + 1 \in S
  <2>1. i + 1 \in 1..L /\ (i + 1) - 1 = i
    OBVIOUS
  <2>2. PICK x \in Nat \ {0}, y \in Nat \ {0} : x = f[i] /\ y = s[i + 1]
    BY <1>4, <1>6, <2>1
  <2>3. f[i + 1] = x * y
    BY <1>3, <2>1, <2>2
  <2>4. x * y \in Nat \ {0}
    BY <2>2, PositiveProduct
  <2> QED
    BY <2>1, <2>3, <2>4
<1>7. \A i \in 0..L : i \in S
  <2> HIDE DEF S
  <2> QED
    BY <1>5, <1>6, Upward
<1> QED
  BY <1>1, <1>2, <1>7

(* A list of ones. *)
LEMMA SumOfOnes ==
  ASSUME NEW s \in Seq(Nat), \A i \in 1..Len(s) : s[i] = 1
  PROVE  InBlocks(s, 1, 1)
<1>1. PICK f : f = RunningSums(s)
  OBVIOUS
<1>2. PICK L \in Nat : L = Len(s)
  OBVIOUS
<1>3. f \in [0..L -> Nat] /\ f[0] = 0 /\ \A x \in 1..L : f[x] = f[x - 1] + s[x]
  BY <1>1, <1>2, RunningSumsDef
<1> DEFINE S == {i \in 0..L : f[i] = i}
<1>4. 0 \in S
  BY <1>3
<1>5. ASSUME NEW i \in 0..(L - 1), i \in S PROVE i + 1 \in S
  <2>1. i + 1 \in 1..L /\ (i + 1) - 1 = i
    OBVIOUS
  <2>2. f[i + 1] = f[i] + s[i + 1] /\ s[i + 1] = 1
    BY <1>2, <1>3, <2>1
  <2> QED
    BY <1>5, <2>1, <2>2
<1>6. \A i \in 0..L : i \in S
  <2> HIDE DEF S
  <2> QED
    BY <1>4, <1>5, Upward
<1>7. ASSUME NEW k \in Nat, k * 1 <= Len(s) PROVE RunningSums(s)[k * 1] = k * 1
  BY <1>1, <1>2, <1>6, <1>7
<1> QED
  BY <1>7 DEF InBlocks

(* The laws of products, with nothing else in sight.                       *)
LEMMA Products ==
  ASSUME NEW a \in Nat, NEW b \in Nat, NEW c \in Nat
  PROVE  /\ a * b \in Nat /\ a * b = b * a /\ (a + 1) * b = a * b + b
         /\ a * (b + c) = a * b + a * c
         /\ a * (b * c) = b * (a * c) /\ (a * b) * c = a * (b * c)
<1>1. a * b \in Nat /\ a * b = b * a /\ (a + 1) * b = a * b + b
  OBVIOUS
<1>2. a * (b + c) = a * b + a * c
  OBVIOUS
<1>3. a * (b * c) = b * (a * c)
  OBVIOUS
<1>4. (a * b) * c = a * (b * c)
  OBVIOUS
<1> QED
  BY <1>1, <1>2, <1>3, <1>4

(* Within a block the place is in the list, and the quotient stays. *)
LEMMA WithinBlock ==
  ASSUME NEW u \in Seq(Nat), NEW s \in Nat, NEW b \in Nat \ {0}, s + b <= Len(u),
         NEW i \in 1..b
  PROVE  s + i \in 1..Len(u)
OBVIOUS

(* The members of a block have the same quotient. *)
LEMMA QuotientInBlock ==
  ASSUME NEW b \in Nat \ {0}, NEW q \in Nat, NEW i \in 1..b
  PROVE  ((q * b + i) - 1) \div b = q
<1>1. PICK x \in 0..(b - 1) : x = i - 1
  OBVIOUS
<1>2. (q * b + i) - 1 = b * q + x
  BY <1>1
<1>3. (b * q + x) \div b = q
  OBVIOUS
<1> QED
  BY <1>2, <1>3

(* The first member of a block divides without a rest. *)
LEMMA WholeQuotient ==
  ASSUME NEW b \in Nat \ {0}, NEW q \in Nat
  PROVE  (q * b) \div b = q /\ (q * b) % b = 0
<1>1. (b * q + 0) \div b = q /\ (b * q + 0) % b = 0
  OBVIOUS
<1>2. b * q + 0 = q * b
  OBVIOUS
<1> QED
  BY <1>1, <1>2

(* As many tiles as it takes to cover an axis. *)
LEMMA TilesOfAxis ==
  ASSUME NEW A \in Nat \ {0}, NEW T \in Nat \ {0}, NEW B, B = (A + T - 1) \div T
  PROVE  /\ B \in Nat \ {0} /\ A <= B * T
         /\ \A j \in 0..(B - 1) : j * T < A
<1>1. PICK r \in 0..(T - 1) : A + T - 1 = T * B + r /\ B \in Nat
  <2>1. A + T - 1 \in Nat
    OBVIOUS
  <2>2. /\ (A + T - 1) \div T \in Nat /\ (A + T - 1) % T \in 0..(T - 1)
        /\ A + T - 1 = T * ((A + T - 1) \div T) + ((A + T - 1) % T)
    BY <2>1, NextDigits
  <2> QED
    BY <2>2
<1>2. PICK w \in Nat : w = T * B
  BY <1>1
<1>3. A <= w /\ w - T < A
  BY <1>1, <1>2
<1>4. B # 0
  <2>1. T * 0 = 0
    OBVIOUS
  <2> QED
    BY <1>2, <1>3, <2>1
<1>5. ASSUME NEW j \in 0..(B - 1) PROVE j * T < A
  <2>1. j \in Nat /\ B - j >= 1 /\ B - j \in Nat
    BY <1>1
  <2>2. T * (B - j) >= T * 1
    BY <2>1
  <2>3. T * (B - j) = T * B - T * j /\ T * j = j * T /\ T * j \in Nat
    BY <1>1, <2>1
  <2> QED
    BY <1>2, <1>3, <2>2, <2>3
<1>6. B * T = T * B
  BY <1>1
<1> QED
  BY <1>1, <1>2, <1>3, <1>4, <1>5, <1>6

(* What the first q tiles of an axis cover, tiles of one line after those  *)
(* of another; the last tile of a line is as long as what is left.         *)
Covered(A, T, B, q) == (q \div B) * A + Lesser(A, (q % B) * T)

(* One tile further along an axis, as much more is covered as that tile is *)
(* long.                                                                   *)
LEMMA CoveredNext ==
  ASSUME NEW A \in Nat \ {0}, NEW T \in Nat \ {0}, NEW B, B = (A + T - 1) \div T,
         NEW q \in Nat
  PROVE  /\ Covered(A, T, B, q) \in Nat
         /\ Lesser(T, A - (q % B) * T) \in Nat \ {0}
         /\ Covered(A, T, B, q + 1) = Covered(A, T, B, q) + Lesser(T, A - (q % B) * T)
<1>1. B \in Nat \ {0} /\ A <= B * T /\ \A j \in 0..(B - 1) : j * T < A
  BY TilesOfAxis
<1>2. PICK n, j : n = q \div B /\ j = q % B
  OBVIOUS
<1>3. /\ n \in Nat /\ j \in 0..(B - 1)
      /\ IF j = B - 1 THEN (q + 1) \div B = n + 1 /\ (q + 1) % B = 0
                      ELSE (q + 1) \div B = n /\ (q + 1) % B = j + 1
  BY <1>1, <1>2, NextDigits
<1>4. PICK x \in Nat : x = j * T
  BY <1>3
<1>5. x < A /\ (j + 1) * T = x + T
  BY <1>1, <1>3, <1>4
<1>6. PICK y \in Nat : y = n * A
  BY <1>3
<1>7. (n + 1) * A = y + A
  BY <1>3, <1>6
<1>8. Covered(A, T, B, q) = y + Lesser(A, x)
  BY <1>2, <1>4, <1>6 DEF Covered
<1>9. Lesser(A, x) = x
  BY <1>5 DEF Lesser
<1>10. CASE j = B - 1
  <2>1. Covered(A, T, B, q + 1) = (n + 1) * A + Lesser(A, 0 * T)
    BY <1>3, <1>10 DEF Covered
  <2>2. 0 * T = 0 /\ Lesser(A, 0) = 0
    BY DEF Lesser
  <2>3. B * T = x + T
    BY <1>1, <1>5, <1>10
  <2>4. A - x <= T
    BY <1>1, <2>3
  <2>5. Lesser(T, A - x) = A - x
    BY <1>5, <2>4 DEF Lesser
  <2> QED
    BY <1>2, <1>4, <1>5, <1>7, <1>8, <1>9, <2>1, <2>2, <2>5
<1>11. CASE j # B - 1
  <2>1. Covered(A, T, B, q + 1) = n * A + Lesser(A, (j + 1) * T)
    BY <1>3, <1>11 DEF Covered
  <2>2. Covered(A, T, B, q + 1) = y + Lesser(A, x + T)
    BY <1>5, <1>6, <2>1
  <2>3. j + 1 \in 0..(B - 1)
    BY <1>1, <1>3, <1>11
  <2>4. x + T < A
    BY <1>1, <1>5, <2>3
  <2>5. Lesser(A, x + T) = x + T /\ Lesser(T, A - x) = T
    BY <2>4 DEF Lesser
  <2> QED
    BY <1>2, <1>4, <1>5, <1>8, <1>9, <2>2, <2>5
<1> QED
  BY <1>10, <1>11

(* One axis: tiles that stand b apart, in blocks of which each comes to a, *)
(* make blocks of which each comes to a whole axis of them.                *)
LEMMA TileSum ==
  ASSUME NEW u \in Seq(Nat), NEW v \in Seq(Nat), NEW b \in Nat \ {0}, NEW q \in Nat,
         NEW A, NEW T, NEW B, CutAlong(u, v, b, A, T, B),
         NEW s \in Nat, s = q * b, s + b <= Len(u), s + b <= Len(v),
         NEW g \in Nat, g = Lesser(T, A - (q % B) * T)
  PROVE  GrowTogether(u, v, s, b, g)
<1>1. ASSUME NEW i \in 1..b PROVE v[s + i] = u[s + i] * g
  <2>1. s + i \in 1..Len(u)
    BY WithinBlock
  <2>2. ((s + i) - 1) \div b = q
    BY QuotientInBlock
  <2>3. v[s + i] = u[s + i] * Lesser(T, A - ((((s + i) - 1) \div b) % B) * T)
    BY <2>1 DEF CutAlong
  <2> QED
    BY <2>2, <2>3
<1>2. Multiple(u, v, s, b, g)
  BY <1>1 DEF Multiple
<1> QED
  BY <1>2, ProportionalSums

(* The tiles along one more axis: blocks that come to a become longer      *)
(* blocks that come to a * A, the clipped tile at the edge included.       *)
LEMMA TilesAlong ==
  ASSUME NEW b \in Nat \ {0}, NEW a \in Nat, NEW A \in Nat \ {0}, NEW T \in Nat \ {0},
         NEW B, B = (A + T - 1) \div T, NEW R \in Nat,
         NEW u \in Seq(Nat), NEW v \in Seq(Nat), Len(u) = R, Len(v) = R,
         CutAlong(u, v, b, A, T, B), InBlocks(u, b, a)
  PROVE  InBlocks(v, b * B, a * A)
<1>1. B \in Nat \ {0}
  BY TilesOfAxis
<1>2. PICK f, h : f = RunningSums(u) /\ h = RunningSums(v)
  OBVIOUS
<1>3. f \in [0..R -> Nat] /\ h \in [0..R -> Nat] /\ h[0] = 0
  BY <1>2, RunningSumsDef
<1>4. ASSUME NEW q \in Nat, q * b + b <= R, h[q * b] = a * Covered(A, T, B, q)
      PROVE  h[(q + 1) * b] = a * Covered(A, T, B, q + 1)
  <2>1. PICK s \in Nat : s = q * b
    OBVIOUS
  <2>2. (q + 1) * b = s + b /\ s + b <= R
    BY <1>4, <2>1, Products
  <2>3. PICK g : g = Lesser(T, A - (q % B) * T)
    OBVIOUS
  <2>4. PICK c : c = Covered(A, T, B, q)
    OBVIOUS
  <2>5. c \in Nat /\ g \in Nat /\ Covered(A, T, B, q + 1) = c + g
    BY <2>3, <2>4, CoveredNext
  <2>8. h[s + b] = h[s] + g * (f[s + b] - f[s])
    <3>1. s + b <= Len(u) /\ s + b <= Len(v) /\ g \in Nat
      BY <2>2, <2>5
    <3>2. GrowTogether(u, v, s, b, g)
      BY <2>1, <2>3, <3>1, TileSum
    <3> QED
      BY <1>2, <3>2, Zenon DEF GrowTogether
  <2>9. f[s] = q * a /\ f[s + b] = (q + 1) * a
    <3>1. q * b <= Len(u) /\ (q + 1) * b <= Len(u) /\ q + 1 \in Nat
      BY <1>4, <2>1, <2>2
    <3>2. f[q * b] = q * a
      BY <1>2, <3>1 DEF InBlocks
    <3>3. f[(q + 1) * b] = (q + 1) * a
      BY <1>2, <3>1 DEF InBlocks
    <3> QED
      BY <2>1, <2>2, <3>2, <3>3
  <2>10. f[s + b] - f[s] = a
    <3>1. PICK x \in Nat : x = q * a
      BY Products
    <3>2. (q + 1) * a = x + a
      BY <3>1, Products
    <3> QED
      BY <2>9, <3>1, <3>2
  <2>11. h[s + b] = a * c + g * a
    BY <1>4, <2>1, <2>4, <2>8, <2>10
  <2>12. a * (c + g) = a * c + g * a
    BY <2>5, Products
  <2> QED
    BY <2>2, <2>5, <2>11, <2>12
<1>5. ASSUME NEW m \in Nat, m * b <= R
      PROVE  h[m * b] = a * Covered(A, T, B, m)
  <2> DEFINE S == {q \in 0..m : h[q * b] = a * Covered(A, T, B, q)}
  <2>1. 0 \in S
    <3>1. 0 * b = 0 /\ a * 0 = 0
      OBVIOUS
    <3>2. Covered(A, T, B, 0) = 0
      <4>1. 0 \div B = 0 /\ 0 % B = 0
        BY <1>1
      <4>2. 0 * A = 0 /\ 0 * T = 0 /\ Lesser(A, 0) = 0
        BY DEF Lesser
      <4> QED
        BY <4>1, <4>2 DEF Covered
    <3> QED
      BY <1>3, <3>1, <3>2
  <2>2. ASSUME NEW q \in 0..(m - 1), q \in S PROVE q + 1 \in S
    <3>1. q \in Nat /\ q + 1 \in 0..m
      OBVIOUS
    <3>2. q * b + b <= R
      <4>1. PICK d \in Nat : m = (q + 1) + d
        <5>1. m - (q + 1) \in Nat /\ m = (q + 1) + (m - (q + 1))
          BY <3>1
        <5> QED
          BY <5>1
      <4>2. m * b = (q + 1) * b + d * b /\ d * b \in Nat /\ (q + 1) * b = q * b + b
            /\ q * b \in Nat
        <5>1. b * ((q + 1) + d) = b * (q + 1) + b * d
          BY <3>1, Products
        <5> QED
          BY <3>1, <4>1, <5>1, Products
      <4>3. PICK x \in Nat, y \in Nat : x = q * b /\ y = d * b
        BY <4>2
      <4>4. (x + b) + y <= R
        BY <1>5, <4>2, <4>3
      <4>5. x + b <= R
        BY <4>4
      <4> QED
        BY <4>3, <4>5, Zenon
    <3>3. h[(q + 1) * b] = a * Covered(A, T, B, q + 1)
      BY <1>4, <2>2, <3>1, <3>2
    <3> QED
      BY <3>1, <3>3
  <2>3. \A q \in 0..m : q \in S
    <3> HIDE DEF S
    <3> QED
      BY <2>1, <2>2, Upward
  <2>4. m \in S
    BY <2>3
  <2> QED
    BY <2>4
<1>6. ASSUME NEW k \in Nat, k * (b * B) <= R
      PROVE  h[k * (b * B)] = k * (a * A)
  <2>1. k * B \in Nat /\ (k * B) * b = k * (b * B)
    BY <1>1, Products
  <2>2. h[k * (b * B)] = a * Covered(A, T, B, k * B)
    BY <1>5, <1>6, <2>1
  <2>3. Covered(A, T, B, k * B) = k * A
    <3>1. (k * B) \div B = k /\ (k * B) % B = 0
      BY <1>1, WholeQuotient
    <3>2. 0 * T = 0 /\ Lesser(A, 0) = 0 /\ k * A \in Nat
      BY DEF Lesser
    <3> QED
      BY <3>1, <3>2 DEF Covered
  <2>4. a * (k * A) = k * (a * A)
    BY Products
  <2> QED
    BY <2>2, <2>3, <2>4
<1> QED
  BY <1>2, <1>6 DEF InBlocks
(* Lists of checks.  The first that fails decides. *)
LEMMA FirstFailing ==
  ASSUME NEW checks, DOMAIN checks \subseteq Nat
  PROVE  \/ /\ FirstFault(checks) = "none"
            /\ \A i \in DOMAIN checks : checks[i] = "none"
         \/ \E i \in DOMAIN checks :
              /\ FirstFault(checks) = checks[i] /\ checks[i] # "none"
              /\ \A j \in DOMAIN checks : j < i => checks[j] = "none"
<1> DEFINE failing == {i \in DOMAIN checks : checks[i] # "none"}
<1>1. CASE failing = {}
  BY <1>1 DEF FirstFault
<1>2. CASE failing # {}
  <2>1. PICK m \in failing : \A i \in failing : m <= i
    <3>1. failing \in SUBSET Nat
      OBVIOUS
    <3> HIDE DEF failing
    <3> QED
      BY <1>2, <3>1, LeastNumber
  <2>2. Min(failing) \in failing /\ \A i \in failing : Min(failing) <= i
    <3> HIDE DEF failing
    <3> QED
      BY <2>1 DEF Min
  <2>3. FirstFault(checks) = checks[Min(failing)]
    BY <1>2 DEF FirstFault
  <2>4. ASSUME NEW j \in DOMAIN checks, j < Min(failing) PROVE checks[j] = "none"
    <3>1. Min(failing) \in Nat /\ j \in Nat
      BY <2>2
    <3> QED
      BY <2>2, <2>4, <3>1
  <2> QED
    BY <2>2, <2>3, <2>4
<1> QED
  BY <1>1, <1>2

(* Of two checks the first that fails counts. *)
LEMMA TwoChecks ==
  ASSUME NEW a, NEW b
  PROVE  FirstFault(<<a, b>>) = IF a # "none" THEN a ELSE b
<1>1. PICK c : c = <<a, b>>
  OBVIOUS
<1>2. DOMAIN c = 1 .. 2 /\ DOMAIN c \subseteq Nat /\ c[1] = a /\ c[2] = b
  BY <1>1
<1>3. \A i \in DOMAIN c : i = 1 \/ i = 2
  BY <1>2
<1>4. 1 \in DOMAIN c /\ 2 \in DOMAIN c /\ 1 < 2
  BY <1>2
<1> QED
  BY <1>1, <1>2, <1>3, <1>4, FirstFailing

(* Of three. *)
LEMMA ThreeChecks ==
  ASSUME NEW c1, NEW c2, NEW c3
  PROVE  FirstFault(<<c1, c2, c3>>) =
           IF c1 # "none" THEN c1 ELSE IF c2 # "none" THEN c2 ELSE c3
<1>1. PICK s : s = <<c1, c2, c3>>
  OBVIOUS
<1>2. /\ DOMAIN s = 1 .. 3 /\ DOMAIN s \subseteq Nat
      /\ s[1] = c1 /\ s[2] = c2 /\ s[3] = c3
  BY <1>1
<1>3. \A i \in DOMAIN s : i \in {1, 2, 3}
  BY <1>2
<1>4. {1, 2, 3} \subseteq DOMAIN s
  BY <1>2
<1> QED
  BY <1>1, <1>2, <1>3, <1>4, FirstFailing

(* Of four. *)
LEMMA FourChecks ==
  ASSUME NEW c1, NEW c2, NEW c3, NEW c4
  PROVE  FirstFault(<<c1, c2, c3, c4>>) =
           IF c1 # "none" THEN c1 ELSE IF c2 # "none" THEN c2 ELSE
           IF c3 # "none" THEN c3 ELSE c4
<1>1. PICK s : s = <<c1, c2, c3, c4>>
  OBVIOUS
<1>2. /\ DOMAIN s = 1 .. 4 /\ DOMAIN s \subseteq Nat
      /\ s[1] = c1 /\ s[2] = c2 /\ s[3] = c3 /\ s[4] = c4
  BY <1>1
<1>3. \A i \in DOMAIN s : i \in {1, 2, 3, 4}
  BY <1>2
<1>4. {1, 2, 3, 4} \subseteq DOMAIN s
  BY <1>2
<1> QED
  BY <1>1, <1>2, <1>3, <1>4, FirstFailing

(* Of five. *)
LEMMA FiveChecks ==
  ASSUME NEW c1, NEW c2, NEW c3, NEW c4, NEW c5
  PROVE  FirstFault(<<c1, c2, c3, c4, c5>>) =
           IF c1 # "none" THEN c1 ELSE IF c2 # "none" THEN c2 ELSE
           IF c3 # "none" THEN c3 ELSE IF c4 # "none" THEN c4 ELSE c5
<1>1. PICK s : s = <<c1, c2, c3, c4, c5>>
  OBVIOUS
<1>2. /\ DOMAIN s = 1 .. 5 /\ DOMAIN s \subseteq Nat
      /\ s[1] = c1 /\ s[2] = c2 /\ s[3] = c3 /\ s[4] = c4 /\ s[5] = c5
  BY <1>1
<1>3. \A i \in DOMAIN s : i \in {1, 2, 3, 4, 5}
  BY <1>2
<1>4. {1, 2, 3, 4, 5} \subseteq DOMAIN s
  BY <1>2
<1> QED
  BY <1>1, <1>2, <1>3, <1>4, FirstFailing

(* Of six. *)
LEMMA SixChecks ==
  ASSUME NEW c1, NEW c2, NEW c3, NEW c4, NEW c5, NEW c6
  PROVE  FirstFault(<<c1, c2, c3, c4, c5, c6>>) =
           IF c1 # "none" THEN c1 ELSE IF c2 # "none" THEN c2 ELSE
           IF c3 # "none" THEN c3 ELSE IF c4 # "none" THEN c4 ELSE
           IF c5 # "none" THEN c5 ELSE c6
<1>1. PICK s : s = <<c1, c2, c3, c4, c5, c6>>
  OBVIOUS
<1>2. /\ DOMAIN s = 1 .. 6 /\ DOMAIN s \subseteq Nat
      /\ s[1] = c1 /\ s[2] = c2 /\ s[3] = c3 /\ s[4] = c4 /\ s[5] = c5
      /\ s[6] = c6
  BY <1>1
<1>3. \A i \in DOMAIN s : i \in {1, 2, 3, 4, 5, 6}
  BY <1>2
<1>4. {1, 2, 3, 4, 5, 6} \subseteq DOMAIN s
  BY <1>2
<1> QED
  BY <1>1, <1>2, <1>3, <1>4, FirstFailing

(* Min, of two numbers. *)
LEMMA LeastOfTwo ==
  ASSUME NEW a \in Int, NEW b \in Int
  PROVE  Min({a, b}) = Lesser(a, b)
<1>1. CASE a <= b
  <2>1. \A y \in {a, b} : a <= y
    BY <1>1
  <2>2. \A x \in {a, b} : (\A y \in {a, b} : x <= y) => x = a
    BY <1>1
  <2> QED
    BY <1>1, <2>1, <2>2 DEF Min, Lesser
<1>2. CASE b < a
  <2>1. \A y \in {a, b} : b <= y
    BY <1>2
  <2>2. \A x \in {a, b} : (\A y \in {a, b} : x <= y) => x = b
    BY <1>2
  <2> QED
    BY <1>2, <2>1, <2>2 DEF Min, Lesser
<1> QED
  BY <1>1, <1>2

(* Axes and tiles of some length. *)
Sized(x) ==
  /\ x.axes \in Seq(Nat \X (Nat \cup {-1}))
  /\ \A n \in DOMAIN x.axes : x.axes[n][1] \in Nat \ {0} /\ TileOf(x, n) \in Nat \ {0}
LengthsOf(x) == [n \in DOMAIN x.axes |-> x.axes[n][1]]
BinsOf(x) == [n \in DOMAIN x.axes |-> Bins(x, n)]
(* What the first d axes contribute to the tile of each row. *)
Along(x, R, d) == [r \in 1..R |-> RunningProducts(TileDims(x, r))[d]]

(* The axes of a table that passed its checks are positive, and as many as *)
(* its lists have members.                                                 *)
LEMMA AxesType ==
  ASSUME NEW x, Sized(x)
  PROVE  /\ Len(x.axes) \in Nat /\ DOMAIN x.axes = 1..Len(x.axes)
         /\ LengthsOf(x) \in Seq(Nat) /\ Len(LengthsOf(x)) = Len(x.axes)
         /\ BinsOf(x) \in Seq(Nat) /\ Len(BinsOf(x)) = Len(x.axes)
         /\ \A n \in 1..Len(x.axes) :
              /\ x.axes[n][1] \in Nat \ {0} /\ TileOf(x, n) \in Nat \ {0}
              /\ Bins(x, n) \in Nat \ {0}
              /\ LengthsOf(x)[n] = x.axes[n][1] /\ BinsOf(x)[n] = Bins(x, n)
<1>1. PICK N \in Nat : N = Len(x.axes) /\ DOMAIN x.axes = 1..N
  BY DEF Sized
<1>2. \A n \in 1..N : x.axes[n][1] \in Nat \ {0} /\ TileOf(x, n) \in Nat \ {0}
  BY <1>1 DEF Sized
<1>3. ASSUME NEW n \in 1..N PROVE Bins(x, n) \in Nat \ {0}
  BY <1>2, TilesOfAxis DEF Bins
<1>4. LengthsOf(x) \in [1..N -> Nat] /\ BinsOf(x) \in [1..N -> Nat]
  BY <1>1, <1>2, <1>3 DEF LengthsOf, BinsOf
<1>5. /\ LengthsOf(x) \in Seq(Nat) /\ Len(LengthsOf(x)) = N
      /\ BinsOf(x) \in Seq(Nat) /\ Len(BinsOf(x)) = N
  BY <1>4, ListOf
<1>6. \A n \in 1..N : LengthsOf(x)[n] = x.axes[n][1] /\ BinsOf(x)[n] = Bins(x, n)
  BY <1>1 DEF LengthsOf, BinsOf
<1> QED
  BY <1>1, <1>2, <1>3, <1>5, <1>6

(* Bins of the axes before the n-th, as TileDims takes them. *)
LEMMA BinsBefore ==
  ASSUME NEW x, Sized(x), NEW n \in 1..Len(x.axes)
  PROVE  /\ RunningProducts(BinsOf(x))[n - 1] \in Nat \ {0}
         /\ Product([m \in 1..(n - 1) |-> Bins(x, m)]) = RunningProducts(BinsOf(x))[n - 1]
<1>1. PICK N \in Nat : N = Len(x.axes)
  BY AxesType
<1>2. PICK s : s = [m \in 1..(n - 1) |-> Bins(x, m)]
  OBVIOUS
<1>3. n - 1 \in 0..N /\ n - 1 \in Nat /\ n \in 1..N
  BY <1>1
<1>4. s \in [1..(n - 1) -> Nat]
  <2>1. \A m \in 1..(n - 1) : m \in 1..N
    BY <1>3
  <2>2. \A m \in 1..(n - 1) : Bins(x, m) \in Nat
    BY <1>1, <2>1, AxesType
  <2> QED
    BY <1>2, <2>2
<1>5. s \in Seq(Nat) /\ Len(s) = n - 1
  BY <1>3, <1>4, ListOf
<1>6. PICK z : z = BinsOf(x)
  OBVIOUS
<1>7. /\ z \in Seq(Nat) /\ Len(z) = N
      /\ \A i \in 1..N : z[i] \in Nat \ {0} /\ z[i] = Bins(x, i)
  <2>1. \A i \in 1..N : Bins(x, i) \in Nat \ {0} /\ z[i] = Bins(x, i)
    BY <1>1, <1>6, AxesType
  <2>2. z \in Seq(Nat) /\ Len(z) = N
    BY <1>1, <1>6, AxesType
  <2> QED
    BY <2>1, <2>2
<1>8. \A i \in 1..(n - 1) : s[i] = z[i]
  <2>1. \A i \in 1..(n - 1) : i \in 1..N /\ s[i] = Bins(x, i)
    BY <1>2, <1>3
  <2> QED
    BY <1>7, <2>1
<1>9. RunningProducts(s)[n - 1] = RunningProducts(z)[n - 1]
  <2>0. n - 1 <= Len(s) /\ n - 1 <= Len(z)
    BY <1>3, <1>5, <1>7
  <2>1. \A i \in 0..(n - 1) : RunningProducts(s)[i] = RunningProducts(z)[i]
    BY <1>3, <1>5, <1>7, <1>8, <2>0, ProductsOfPrefix
  <2> QED
    BY <1>3, <2>1
<1>10. \A i \in 0..N : RunningProducts(z)[i] \in Nat \ {0}
  BY <1>1, <1>7, PositiveProducts
<1> QED
  BY <1>2, <1>3, <1>5, <1>6, <1>9, <1>10 DEF Product

(* The tile of a row along one axis. *)
LEMMA TileLength ==
  ASSUME NEW x, Sized(x), NEW r \in Nat \ {0}, NEW n \in 1..Len(x.axes)
  PROVE  /\ TileDims(x, r)[n] =
              Lesser(TileOf(x, n), x.axes[n][1]
                - (((r - 1) \div RunningProducts(BinsOf(x))[n - 1]) % Bins(x, n)) * TileOf(x, n))
         /\ TileDims(x, r)[n] \in Nat \ {0}
<1>1. PICK b, A, T, B : /\ b = RunningProducts(BinsOf(x))[n - 1]
                       /\ A = x.axes[n][1] /\ T = TileOf(x, n) /\ B = Bins(x, n)
  OBVIOUS
<1>2. b \in Nat \ {0} /\ A \in Nat \ {0} /\ T \in Nat \ {0} /\ B \in Nat \ {0}
  BY <1>1, AxesType, BinsBefore
<1>3. B = (A + T - 1) \div T
  BY <1>1 DEF Bins
<1>4. PICK q \in Nat : q = (r - 1) \div b
  <2>1. r - 1 \in Nat
    OBVIOUS
  <2> QED
    BY <1>2, <2>1, NextDigits
<1>5. TileDims(x, r)[n] = Min({T, A - (q % B) * T})
  <2>1. n \in DOMAIN x.axes
    BY AxesType
  <2>2. Product([m \in 1..(n - 1) |-> Bins(x, m)]) = b
    BY <1>1, BinsBefore
  <2> QED
    BY <1>1, <1>4, <2>1, <2>2 DEF TileDims
<1>6. T \in Int /\ A - (q % B) * T \in Int
  BY <1>2, <1>4
<1>7. Lesser(T, A - (q % B) * T) \in Nat \ {0}
  BY <1>2, <1>3, <1>4, CoveredNext
<1> QED
  BY <1>1, <1>4, <1>5, <1>6, <1>7, LeastOfTwo

(* The pixels of a tile are a natural number. *)
LEMMA TileType ==
  ASSUME NEW x, Sized(x), NEW r \in Nat \ {0}
  PROVE  /\ TileDims(x, r) \in Seq(Nat) /\ Len(TileDims(x, r)) = Len(x.axes)
         /\ TilePixels(x, r) = RunningProducts(TileDims(x, r))[Len(x.axes)]
         /\ TilePixels(x, r) \in Nat
<1>1. PICK N \in Nat : N = Len(x.axes) /\ DOMAIN x.axes = 1..N
  BY AxesType
<1>2. PICK s : s = TileDims(x, r)
  OBVIOUS
<1>3. DOMAIN s = 1..N /\ s = [n \in 1..N |-> s[n]]
  BY <1>1, <1>2, Zenon DEF TileDims
<1>4. \A n \in 1..N : s[n] \in Nat
  BY <1>1, <1>2, TileLength
<1>5. s \in [1..N -> Nat]
  BY <1>3, <1>4
<1>6. s \in Seq(Nat) /\ Len(s) = N
  BY <1>5, ListOf
<1>7. RunningProducts(s)[N] \in Nat
  <2>1. N \in 0..Len(s)
    BY <1>6
  <2> QED
    BY <1>6, <2>1, RunningProductsDef
<1> QED
  BY <1>1, <1>2, <1>6, <1>7 DEF TilePixels, Product

(* So are those of its first d axes. *)
LEMMA AlongType ==
  ASSUME NEW x, Sized(x), NEW R \in Nat, NEW d \in 0..Len(x.axes)
  PROVE  /\ Along(x, R, d) \in Seq(Nat) /\ Len(Along(x, R, d)) = R
         /\ \A r \in 1..R : Along(x, R, d)[r] = RunningProducts(TileDims(x, r))[d]
<1>1. ASSUME NEW r \in 1..R PROVE RunningProducts(TileDims(x, r))[d] \in Nat
  <2>1. PICK s : s = TileDims(x, r)
    OBVIOUS
  <2>2. r \in Nat \ {0}
    OBVIOUS
  <2>3. s \in Seq(Nat) /\ d \in 0..Len(s)
    BY <2>1, <2>2, TileType
  <2> QED
    BY <2>1, <2>3, RunningProductsDef
<1>2. Along(x, R, d) \in [1..R -> Nat]
  BY <1>1 DEF Along
<1>3. \A r \in 1..R : Along(x, R, d)[r] = RunningProducts(TileDims(x, r))[d]
  BY DEF Along
<1> QED
  BY <1>2, <1>3, ListOf

(* Axis by axis: the tiles of a block of rows are a block of the image. *)
LEMMA AxesInBlocks ==
  ASSUME NEW x, Sized(x), NEW R \in Nat
  PROVE  \A d \in 0..Len(x.axes) :
           InBlocks(Along(x, R, d), RunningProducts(BinsOf(x))[d],
                    RunningProducts(LengthsOf(x))[d])
<1>1. PICK N \in Nat : N = Len(x.axes)
  BY AxesType
<1>2. PICK P, Q : P = RunningProducts(BinsOf(x)) /\ Q = RunningProducts(LengthsOf(x))
  OBVIOUS
<1>3. /\ P[0] = 1 /\ Q[0] = 1 /\ Q \in [0..N -> Nat]
      /\ \A n \in 1..N : P[n] = P[n - 1] * Bins(x, n) /\ Q[n] = Q[n - 1] * x.axes[n][1]
  <2>1. PICK b : b = BinsOf(x)
    OBVIOUS
  <2>2. PICK a : a = LengthsOf(x)
    OBVIOUS
  <2>3. /\ a \in Seq(Nat) /\ Len(a) = N /\ b \in Seq(Nat) /\ Len(b) = N
        /\ \A n \in 1..N : a[n] = x.axes[n][1] /\ b[n] = Bins(x, n)
    BY <1>1, <2>1, <2>2, AxesType
  <2>4. P[0] = 1 /\ \A n \in 1..N : P[n] = P[n - 1] * b[n]
    BY <1>2, <2>1, <2>3, RunningProductsDef
  <2>5. Q[0] = 1 /\ Q \in [0..N -> Nat] /\ \A n \in 1..N : Q[n] = Q[n - 1] * a[n]
    BY <1>2, <2>2, <2>3, RunningProductsDef
  <2> QED
    BY <2>3, <2>4, <2>5
<1> DEFINE S == {d \in 0..N : InBlocks(Along(x, R, d), P[d], Q[d])}
<1>4. 0 \in S
  <2>1. PICK u : u = Along(x, R, 0)
    OBVIOUS
  <2>2. 0 \in 0..N
    OBVIOUS
  <2>3. u \in Seq(Nat) /\ Len(u) = R /\ \A r \in 1..R : u[r] = RunningProducts(TileDims(x, r))[0]
    BY <1>1, <2>1, <2>2, AlongType
  <2>4. ASSUME NEW r \in 1..R PROVE u[r] = 1
    <3>1. r \in Nat \ {0}
      OBVIOUS
    <3>2. TileDims(x, r) \in Seq(Nat)
      BY <3>1, TileType
    <3> QED
      BY <2>3, <3>2, RunningProductsDef
  <2>5. InBlocks(u, 1, 1)
    BY <2>3, <2>4, SumOfOnes
  <2> QED
    BY <1>3, <2>1, <2>2, <2>5
<1>5. ASSUME NEW d \in 0..(N - 1), d \in S PROVE d + 1 \in S
  <2>1. d + 1 \in 1..N /\ (d + 1) - 1 = d /\ d \in 0..N /\ d + 1 \in 0..N
    BY <1>1
  <2>2. PICK u, v : u = Along(x, R, d) /\ v = Along(x, R, d + 1)
    OBVIOUS
  <2>3. /\ u \in Seq(Nat) /\ Len(u) = R /\ v \in Seq(Nat) /\ Len(v) = R
        /\ \A r \in 1..R : u[r] = RunningProducts(TileDims(x, r))[d]
        /\ \A r \in 1..R : v[r] = RunningProducts(TileDims(x, r))[d + 1]
    BY <1>1, <2>1, <2>2, AlongType
  <2>4. PICK A, T, B : A = x.axes[d + 1][1] /\ T = TileOf(x, d + 1) /\ B = Bins(x, d + 1)
    OBVIOUS
  <2>5. /\ P[d] \in Nat \ {0} /\ Q[d] \in Nat
        /\ A \in Nat \ {0} /\ T \in Nat \ {0} /\ B = (A + T - 1) \div T
    <3>1. P[d] \in Nat \ {0}
      BY <1>1, <1>2, <2>1, BinsBefore
    <3>2. A \in Nat \ {0} /\ T \in Nat \ {0}
      BY <1>1, <2>1, <2>4, AxesType
    <3>3. B = (A + T - 1) \div T
      BY <2>4 DEF Bins
    <3> QED
      BY <1>3, <2>1, <3>1, <3>2, <3>3
  <2>6. ASSUME NEW r \in 1..Len(u)
        PROVE  v[r] = u[r] * Lesser(T, A - (((r - 1) \div P[d]) % B) * T)
    <3>1. r \in 1..R /\ r \in Nat \ {0}
      BY <2>3
    <3>2. TileDims(x, r)[d + 1] = Lesser(T, A - (((r - 1) \div P[d]) % B) * T)
      BY <1>1, <1>2, <2>1, <2>4, <3>1, TileLength
    <3>3. PICK s : s = TileDims(x, r)
      OBVIOUS
    <3>4. s \in Seq(Nat) /\ d + 1 \in 1..Len(s)
      BY <1>1, <2>1, <3>1, <3>3, TileType
    <3>5. RunningProducts(s)[d + 1] = RunningProducts(s)[d] * s[d + 1]
      BY <2>1, <3>4, RunningProductsDef
    <3> QED
      BY <2>3, <3>1, <3>2, <3>3, <3>5, Zenon
  <2>7. CutAlong(u, v, P[d], A, T, B)
    BY <2>6 DEF CutAlong
  <2>8. InBlocks(u, P[d], Q[d])
    BY <1>5, <2>2
  <2>9. InBlocks(v, P[d] * B, Q[d] * A)
    BY <2>3, <2>5, <2>7, <2>8, TilesAlong
  <2>10. P[d + 1] = P[d] * B /\ Q[d + 1] = Q[d] * A
    BY <1>3, <2>1, <2>4
  <2> QED
    BY <2>1, <2>2, <2>9, <2>10
<1>6. \A d \in 0..N : d \in S
  <2> HIDE DEF S
  <2> QED
    BY <1>4, <1>5, Upward
<1> QED
  BY <1>1, <1>2, <1>6

(* The tiles of as many rows as there are bins are the image. *)
LEMMA TilesAreTheImage ==
  ASSUME NEW x, Sized(x), NEW R \in Nat, R = Product(BinsOf(x))
  PROVE  RunningSums([r \in 1..R |-> TilePixels(x, r)])[R] = ImagePixels(x)
<1>1. PICK N \in Nat : N = Len(x.axes)
  BY AxesType
<1>2. PICK P, Q : P = RunningProducts(BinsOf(x))[N] /\ Q = RunningProducts(LengthsOf(x))[N]
  OBVIOUS
<1>3. P = R /\ Q = ImagePixels(x)
  <2>1. Len(BinsOf(x)) = N /\ Len(LengthsOf(x)) = N
    BY <1>1, AxesType
  <2> QED
    BY <1>2, <2>1 DEF Product, ImagePixels, LengthsOf
<1>4. Q \in Nat
  <2>1. PICK a : a = LengthsOf(x)
    OBVIOUS
  <2>2. a \in Seq(Nat) /\ Len(a) = N /\ N \in 0..N
    BY <1>1, <2>1, AxesType
  <2> QED
    BY <1>2, <2>1, <2>2, RunningProductsDef
<1>5. N \in 0..Len(x.axes)
  BY <1>1
<1>6. PICK u : u = Along(x, R, N)
  OBVIOUS
<1>7. InBlocks(u, R, Q) /\ Len(u) = R
  <2>1. InBlocks(Along(x, R, N), RunningProducts(BinsOf(x))[N],
                 RunningProducts(LengthsOf(x))[N])
    BY <1>5, AxesInBlocks
  <2>2. Len(u) = R
    BY <1>5, <1>6, AlongType
  <2> QED
    BY <1>2, <1>3, <1>6, <2>1, <2>2, Zenon
<1>8. u = [r \in 1..R |-> TilePixels(x, r)]
  <2>1. ASSUME NEW r \in 1..R PROVE RunningProducts(TileDims(x, r))[N] = TilePixels(x, r)
    <3>1. r \in Nat \ {0}
      OBVIOUS
    <3> QED
      BY <1>1, <3>1, TileType
  <2> QED
    BY <1>6, <2>1 DEF Along
<1>9. RunningSums(u)[1 * R] = 1 * Q
  <2>1. 1 * R <= Len(u) /\ 1 \in Nat
    BY <1>7
  <2> QED
    BY <1>7, <2>1 DEF InBlocks
<1>10. 1 * R = R /\ 1 * Q = Q
  BY <1>4
<1> QED
  BY <1>3, <1>8, <1>9, <1>10

Phases == {"ascii", "heap", "fields", "dispatch", "fast", "row", "mask", "decode"}
(* A list, whatever its members are. *)
IsList(s) == s \in Seq({s[n] : n \in DOMAIN s})

(* What the jobs done came to, and the tiles of the rows before r.         *)
PixelsOf(o, masks) ==
  SumOf([n \in DOMAIN o |-> IF o[n].job.mask = masks THEN o[n].job.pixels ELSE 0])
BytesOf(o) == SumOf([n \in DOMAIN o |-> o[n].count])
TilesBefore(r) == SumOf([n \in 1..(r - 1) |-> TilePixels(t, n)])
IsOutput(o) == o.job.mask \in BOOLEAN /\ o.job.pixels \in Nat /\ o.count \in Nat

TypeInv ==
  /\ IsTable(t) /\ level \in {"structural", "full"} /\ phase \in Phases
  /\ {field, row} \subseteq Nat \ {0} /\ decoded \in Nat
  /\ IsList(outputs) /\ \A n \in DOMAIN outputs : IsOutput(outputs[n])
  /\ (phase = "ascii") <=> (t.kind = "ascii")
  /\ phase # "decode" => job = NoJob

(* What the checks of the header and of its columns established, and what  *)
(* validate_tiles adds to it before the first row.                         *)
ColumnsPass(n) == \A i \in 1..n : FieldFault(t, i) = "none"
LaidOut ==
  /\ HeapFault(t) = "none" /\ ColumnsPass(Len(t.fields))
  /\ ColumnStart(t, Len(t.fields) + 1) = t.rowSize
  /\ GeometryFault(t) = "none" /\ CountFault(t) = "none"
Prepared == Supported(t) \/ ColumnsFault(t) = "none"
InHeap(extent) ==
  /\ HeapStart(t) + extent[1] >= TableSize(t)
  /\ HeapStart(t) + extent[1] + extent[2] <= UnitSize(t)

AtRows == {"fast", "row", "mask", "decode"}
ColumnsInv ==
  /\ phase = "ascii" => (verdict = "valid" => AsciiFault(t) = "none")
  /\ phase \in {"heap", "fields"} => verdict # "valid"
  /\ phase = "heap" => field = 1
  /\ phase = "fields" =>
       HeapFault(t) = "none" /\ field <= Len(t.fields) + 1 /\ ColumnsPass(field - 1)
  /\ phase \in {"dispatch"} \cup AtRows => LaidOut
  /\ phase \in AtRows => level = "full" /\ Prepared

(* The stream at work is one of the row's, inside the heap. *)
IsJob(j) ==
  /\ j.mask \in BOOLEAN /\ j.pixels = TilePixels(t, row) /\ j.width \in Nat
  /\ j.width <= IF j.mask THEN 1 ELSE SampleBytes(t)
  /\ InHeap(j.extent)
JobInv == phase = "decode" => IsJob(job)

(* What is decoded of the image: the rows before the one at work, and its  *)
(* tile too when it is the mask's turn.                                    *)
AtMask == phase = "mask" \/ (phase = "decode" /\ job.mask)
ImageBytes == ImagePixels(t) * SampleBytes(t)
SumsInv ==
  /\ row <= t.rows + 1 /\ (phase \in {"mask", "decode"} => row <= t.rows)
  /\ verdict = "valid" => phase \in {"fast", "row"} /\ row = t.rows + 1
  /\ PixelsOf(outputs, FALSE) = TilesBefore(IF AtMask THEN row + 1 ELSE row)
  /\ PixelsOf(outputs, TRUE) <= TilesBefore(row)
  /\ BytesOf(outputs)
       <= PixelsOf(outputs, FALSE) * SampleBytes(t) + PixelsOf(outputs, TRUE)
  /\ decoded = ImageBytes + PixelsOf(outputs, TRUE)
                 + (IF phase = "decode" /\ job.mask THEN job.pixels ELSE 0)
TilesInv ==
  /\ phase \notin AtRows => outputs = <<>> /\ row = 1
  /\ phase \notin {"dispatch"} \cup AtRows => decoded = 0
  /\ phase = "dispatch" =>
       decoded = ImageBytes /\ (verdict = "valid" => level = "structural")
  /\ phase \in AtRows => SumsInv
  /\ decoded <= MaxDecoded

(* What tiles.rs would make of a row, and what gzip.rs has made of the     *)
(* rows before the one at work.                                            *)
RowResult(r) ==
  IF RowFault(r) # "none" THEN RowFault(r)
  ELSE LET j == RowJob(r)
           s == Stream(j.extent)
       IN  IF s.kind = "gzip" THEN GzipFault(s, j.pixels * j.width) ELSE "integrity"
FastJob(r) ==
  [codec |-> t.codec, extent |-> Extent(t, r, 1), mask |-> FALSE,
   pixels |-> TilePixels(t, r), width |-> SampleBytes(t), block |-> 0]
Plain == Supported(t) /\ t.malformed = {}
PathInv ==
  /\ phase = "fast" => Supported(t)
  /\ phase \in {"row", "mask"} => ~Supported(t)
  /\ (phase = "decode" /\ Supported(t)) => job = FastJob(row) /\ FastRowFault(row) = "none"
  /\ (phase \in {"fast", "decode"} /\ Plain) =>
       /\ \A r \in 1..(row - 1) : RowResult(r) = "none"
       /\ verdict # "none" => verdict = GeneralVerdict

(* The inductive invariant. *)
IInv == TypeInv /\ ColumnsInv /\ JobInv /\ TilesInv /\ PathInv
-----------------------------------------------------------------------------
(* Of nine, which is the length of DataFault's list. *)
LEMMA NineChecks ==
  ASSUME NEW c1, NEW c2, NEW c3, NEW c4, NEW c5, NEW c6, NEW c7, NEW c8, NEW c9
  PROVE  FirstFault(<<c1, c2, c3, c4, c5, c6, c7, c8, c9>>) =
           IF c1 # "none" THEN c1 ELSE IF c2 # "none" THEN c2 ELSE
           IF c3 # "none" THEN c3 ELSE IF c4 # "none" THEN c4 ELSE
           IF c5 # "none" THEN c5 ELSE IF c6 # "none" THEN c6 ELSE
           IF c7 # "none" THEN c7 ELSE IF c8 # "none" THEN c8 ELSE c9
<1>1. PICK s : s = <<c1, c2, c3, c4, c5, c6, c7, c8, c9>>
  OBVIOUS
<1>2. /\ DOMAIN s = 1 .. 9 /\ DOMAIN s \subseteq Nat
      /\ s[1] = c1 /\ s[2] = c2 /\ s[3] = c3 /\ s[4] = c4 /\ s[5] = c5
      /\ s[6] = c6 /\ s[7] = c7 /\ s[8] = c8 /\ s[9] = c9
  BY <1>1
<1>3. \A i \in DOMAIN s : i \in {1, 2, 3, 4, 5, 6, 7, 8, 9}
  BY <1>2
<1>4. {1, 2, 3, 4, 5, 6, 7, 8, 9} \subseteq DOMAIN s
  BY <1>2
<1> QED
  BY <1>1, <1>2, <1>3, <1>4, FirstFailing

(* Kinds of faults.  None of the checks calls a table valid.               *)
LEMMA CheckKind ==
  ASSUME NEW fails, NEW kind, kind # "valid"
  PROVE  Check(fails, kind) # "valid"
BY DEF Check

(* Nor does a list of checks that do not. *)
LEMMA ListKind ==
  ASSUME NEW checks, DOMAIN checks \subseteq Nat,
         \A i \in DOMAIN checks : checks[i] # "valid"
  PROVE  FirstFault(checks) # "valid"
BY FirstFailing

(* Nor the check of a descriptor. *)
LEMMA DescriptorKind ==
  ASSUME NEW x, NEW type, NEW cell
  PROVE  DescriptorFault(x, type, cell) # "valid"
BY TwoChecks, CheckKind DEF DescriptorFault

(* Nor the checks of the columns and of the geometry. *)
LEMMA ColumnKinds ==
  ASSUME NEW x
  PROVE  /\ HeapFault(x) # "valid" /\ \A i : FieldFault(x, i) # "valid"
         /\ GeometryFault(x) # "valid" /\ CountFault(x) # "valid"
<1>1. HeapFault(x) # "valid"
  BY ThreeChecks, CheckKind DEF HeapFault
<1>2. ASSUME NEW i PROVE FieldFault(x, i) # "valid"
  <2> DEFINE f == x.fields[i]
             known == f.type \in KnownTypes
             sized == known \/ f.form # "none"
             fits == sized /\ ColumnStart(x, i) + FieldWidth(f) <= x.rowSize
             pointers == f.form # "none" /\ f.repeat = 1
             rows == [r \in 1..x.rows |->
                IF pointers /\ known /\ fits THEN DescriptorFault(x, f.type, x.cells[r][i])
                ELSE "none"]
             c1 == Check(f.form # "none" /\ f.repeat > 1, "invalid")
             c2 == Check(~sized, "unsupported")
             c3 == Check(~fits, "invalid")
             c4 == Check(~known, "unsupported")
             c5 == FirstFault(rows)
  <2>1. FieldFault(x, i) = FirstFault(<<c1, c2, c3, c4, c5>>)
    BY DEF FieldFault
  <2>2. c1 # "valid" /\ c2 # "valid" /\ c3 # "valid" /\ c4 # "valid"
    BY CheckKind
  <2>3. \A r \in DOMAIN rows : rows[r] # "valid"
    BY DescriptorKind
  <2>4. DOMAIN rows \subseteq Nat
    OBVIOUS
  <2>5. c5 # "valid"
    <3> HIDE DEF rows
    <3> QED
      BY <2>3, <2>4, ListKind
  <2> HIDE DEF c1, c2, c3, c4, c5
  <2> QED
    BY <2>1, <2>2, <2>5, FiveChecks
<1>3. GeometryFault(x) # "valid"
  <2> DEFINE c1 == Check(x.axes = <<>>, "invalid")
             c2 == Check(\E n \in DOMAIN x.axes : x.axes[n][1] = 0 \/ TileOf(x, n) = 0, "invalid")
             c3 == Check(ImagePixels(x) > MaxInt, "invalid")
             c4 == Check(x.bitpix \notin {8, 16, 32, 64, -32, -64}, "invalid")
             c5 == Check(ImagePixels(x) * SampleBytes(x) > MaxInt, "invalid")
  <2>1. GeometryFault(x) = FirstFault(<<c1, c2, c3, c4, c5>>)
    BY DEF GeometryFault
  <2>2. c1 # "valid" /\ c2 # "valid" /\ c3 # "valid" /\ c4 # "valid" /\ c5 # "valid"
    BY CheckKind
  <2> HIDE DEF c1, c2, c3, c4, c5
  <2> QED
    BY <2>1, <2>2, FiveChecks
<1>4. CountFault(x) # "valid"
  BY CheckKind DEF CountFault
<1> QED
  BY <1>1, <1>2, <1>3, <1>4

(* Nor those of a column of an ASCII table. *)
LEMMA AsciiKind ==
  ASSUME NEW x, NEW i
  PROVE  AsciiFieldFault(x, i) # "valid"
<1> DEFINE f == x.fields[i]
           last == f.start + f.width
           earlier == {x.fields[k] : k \in 1..(i - 1)}
           c1 == Check(f.start < 0 \/ f.type = "none", "invalid")
           c2 == Check(f.type \notin {"A", "I", "F", "E", "D"}, "unsupported")
           c3 == Check(f.width <= 0, "invalid")
           c4 == Check(f.type \in {"F", "E", "D"} <=> f.precision = "none", "invalid")
           c5 == Check(last > x.rowSize, "invalid")
           c6 == Check(\E g \in earlier : f.start < g.start + g.width /\ last > g.start, "invalid")
<1>1. AsciiFieldFault(x, i) = FirstFault(<<c1, c2, c3, c4, c5, c6>>)
  BY DEF AsciiFieldFault
<1>2. /\ c1 # "valid" /\ c2 # "valid" /\ c3 # "valid" /\ c4 # "valid"
      /\ c5 # "valid" /\ c6 # "valid"
  BY CheckKind
<1> HIDE DEF c1, c2, c3, c4, c5, c6
<1> QED
  BY <1>1, <1>2, SixChecks

(* Nor those of validate_tiles before the first row. *)
LEMMA PreparedKinds ==
  ASSUME NEW x, x.fields \in Seq(BinaryColumns)
  PROVE  ColumnsFault(x) # "valid" /\ ParameterFault(x) # "valid"
<1>1. ASSUME NEW i PROVE RoleFault(x, i) # "valid"
  <2>1. \A c1, c2, c3 : (c1 # "valid" /\ c2 # "valid" /\ c3 # "valid")
          => FirstFault(<<c1, c2, c3>>) # "valid"
    BY ThreeChecks
  <2> QED
    BY <2>1, CheckKind DEF RoleFault
<1>2. ColumnsFault(x) # "valid"
  <2> DEFINE roles == [i \in DOMAIN x.fields |-> RoleFault(x, i)]
             c1 == FirstFault(roles)
             c2 == Check(HasColumn(x, "gzip") /\ HasColumn(x, "raw"), "invalid")
             c3 == Check(HasColumn(x, "scale") # HasColumn(x, "zero"), "invalid")
             c4 == Check(~HasColumn(x, "data"), "invalid")
  <2>1. ColumnsFault(x) = FirstFault(<<c1, c2, c3, c4>>)
    BY DEF ColumnsFault
  <2>2. DOMAIN roles \subseteq Nat /\ \A i \in DOMAIN roles : roles[i] # "valid"
    BY <1>1
  <2>3. c1 # "valid"
    <3> HIDE DEF roles
    <3> QED
      BY <2>2, ListKind
  <2>4. c2 # "valid" /\ c3 # "valid" /\ c4 # "valid"
    BY CheckKind
  <2> HIDE DEF c1, c2, c3, c4
  <2> QED
    BY <2>1, <2>3, <2>4, FourChecks
<1>3. ParameterFault(x) # "valid"
  <2> DEFINE c1 == Check({"BLOCKSIZE", "BYTEPIX"} \cap x.malformed # {}, "invalid")
             c2 == Check(x.codec = "HCOMPRESS_1" /\ {"SMOOTH", "SCALE"} \cap x.malformed # {}, "invalid")
             c3 == Check("ZBLANK" \in x.malformed, "invalid")
             c4 == Check(/\ x.quantiz \in {"SUBTRACTIVE_DITHER_1", "SUBTRACTIVE_DITHER_2"}
                         /\ x.dither \notin 1..10000, "invalid")
             c5 == Check(x.quantiz = "other", "unsupported")
             c6 == Check(HasColumn(x, "mask") # (x.maskcmp # "none"), "invalid")
  <2>1. ParameterFault(x) = FirstFault(<<c1, c2, c3, c4, c5, c6>>)
    BY DEF ParameterFault
  <2>2. /\ c1 # "valid" /\ c2 # "valid" /\ c3 # "valid" /\ c4 # "valid"
        /\ c5 # "valid" /\ c6 # "valid"
    BY ZenonT(40), CheckKind
  <2> HIDE DEF c1, c2, c3, c4, c5, c6
  <2> QED
    BY <2>1, <2>2, SixChecks
<1> QED
  BY <1>2, <1>3

(* Nor do the checks of a row, or those of a decoder. *)
LEMMA RowKinds ==
  ASSUME NEW r
  PROVE  FastRowFault(r) # "valid" /\ RowFault(r) # "valid"
<1>1. FastRowFault(r) # "valid"
  BY TwoChecks, CheckKind DEF FastRowFault
<1>2. ASSUME NEW role PROVE PayloadFault(t, r, role) # "valid"
  BY DescriptorKind DEF PayloadFault
<1>3. DataFault(r) # "valid"
  <2> DEFINE type == t.fields[CHOOSE i \in Column(t, "data") : TRUE].type
             width == IF Quantized(t, r) THEN 4 ELSE SampleBytes(t)
             float == t.bitpix < 0 /\ ~Quantized(t, r)
             scale == Scalar(t, r, "scale")
             zero == Scalar(t, r, "zero")
             dims == TileDims(t, r)
             c1 == ScalarFault(scale)
             c2 == ScalarFault(zero)
             c3 == Check((scale = "none") # (zero = "none"), "invalid")
             c4 == Check(/\ t.codec = "HCOMPRESS_1"
                         /\ Product(dims) # Product(SubSeq(dims, 1, Min({2, Len(dims)}))), "unsupported")
             c5 == Check(t.codec \in Rice \cup {"PLIO_1", "HCOMPRESS_1"} /\ float, "unsupported")
             c6 == Check(t.codec \in Rice /\ t.bytepix # width, "invalid")
             c7 == Check(t.codec \in Gzip \cup Rice \cup {"HCOMPRESS_1"} /\ type # "B", "invalid")
             c8 == Check(t.codec = "PLIO_1" /\ type # "I", "invalid")
             c9 == Check(t.codec = "NOCOMPRESS" /\ Payload(t, r, "data")[2] # Product(dims) * width,
                         "integrity")
  <2>1. DataFault(r) = FirstFault(<<c1, c2, c3, c4, c5, c6, c7, c8, c9>>)
    BY DEF DataFault
  <2>2. /\ c1 # "valid" /\ c2 # "valid" /\ c3 # "valid" /\ c4 # "valid" /\ c5 # "valid"
        /\ c6 # "valid" /\ c7 # "valid" /\ c8 # "valid" /\ c9 # "valid"
    BY CheckKind DEF ScalarFault
  <2> HIDE DEF c1, c2, c3, c4, c5, c6, c7, c8, c9
  <2> QED
    BY <2>1, <2>2, NineChecks
<1>4. RowFault(r) # "valid"
  <2> DEFINE c1 == PayloadFault(t, r, "data")
             c2 == PayloadFault(t, r, "gzip")
             c3 == PayloadFault(t, r, "raw")
             c4 == Check(Cardinality(Active(r)) # 1, "invalid")
             c5 == IF Active(r) = {"data"} THEN DataFault(r) ELSE "none"
             c6 == IF Active(r) = {"raw"}
                   THEN Check(\/ t.fields[CHOOSE i \in Column(t, "raw") : TRUE].type # RawType(t.bitpix)
                              \/ Payload(t, r, "raw")[2] # TilePixels(t, r) * SampleBytes(t), "integrity")
                   ELSE "none"
  <2>1. RowFault(r) = FirstFault(<<c1, c2, c3, c4, c5, c6>>)
    BY DEF RowFault
  <2>2. c1 # "valid" /\ c2 # "valid" /\ c3 # "valid" /\ c4 # "valid"
    BY <1>2, CheckKind
  <2>3. c5 # "valid" /\ c6 # "valid"
    BY <1>3, CheckKind
  <2> HIDE DEF c1, c2, c3, c4, c5, c6
  <2> QED
    BY <2>1, <2>2, <2>3, SixChecks
<1> QED
  BY <1>1, <1>4

(* Nor those of the decoders of whole streams. *)
LEMMA DecoderKinds ==
  ASSUME NEW s, NEW n
  PROVE  GzipFault(s, n) # "valid" /\ HcompressFault(s) # "valid"
<1>1. HcompressFault(s) # "valid"
  BY CheckKind DEF HcompressFault
<1>2. GzipFault(s, n) # "valid"
  <2> DEFINE c1 == Check(s.header = "long", "limit")
             c2 == Check(s.header = "bad" \/ s.out > n \/ s.deflate = "broken", "integrity")
             c3 == Check(s.trailer = "bad", "integrity")
             c4 == Check(s.rest = "member", "unsupported")
             c5 == Check(s.rest = "byte" \/ s.out # n, "integrity")
  <2>1. GzipFault(s, n) = FirstFault(<<c1, c2, c3, c4, c5>>)
    BY DEF GzipFault
  <2>2. c1 # "valid" /\ c2 # "valid" /\ c3 # "valid" /\ c4 # "valid" /\ c5 # "valid"
    BY CheckKind
  <2> HIDE DEF c1, c2, c3, c4, c5
  <2> QED
    BY <2>1, <2>2, FiveChecks
<1> QED
  BY <1>1, <1>2

-----------------------------------------------------------------------------
(* What passing the checks means. *)
LEMMA TypeSizes ==
  ASSUME NEW type \in KnownTypes, NEW n \in Nat
  PROVE  TypeSize(type, n) \in Nat /\ TypeSize(type, 0) = 0
<1>1. CASE type = "X"
  <2>1. (n + 7) \div 8 \in Nat /\ (0 + 7) \div 8 = 0
    OBVIOUS
  <2> QED
    BY <1>1, <2>1 DEF TypeSize
<1>2. CASE type # "X"
  <2>1. Widths[type] \in Nat
    BY <1>2 DEF KnownTypes, Widths
  <2>2. n * Widths[type] \in Nat /\ 0 * Widths[type] = 0
    BY <2>1
  <2> QED
    BY <1>2, <2>2 DEF TypeSize
<1> QED
  BY <1>1, <1>2

(* The sizes of a table are numbers. *)
LEMMA SizesOfTable ==
  ASSUME NEW x, IsTable(x)
  PROVE  /\ {x.rowSize, x.rows, x.pcount} \subseteq Nat /\ TableSize(x) \in Nat
         /\ UnitSize(x) \in Nat /\ HeapStart(x) \in Int /\ HeapSize(x) \in Int
<1>1. x.rowSize \in Nat /\ x.rows \in Nat /\ x.pcount \in Nat /\ x.theap \in Int
  BY DEF IsTable
<1>2. TableSize(x) \in Nat
  BY <1>1 DEF TableSize
<1>3. UnitSize(x) \in Nat /\ HeapStart(x) \in Int
  BY <1>1, <1>2 DEF UnitSize, HeapStart
<1>4. HeapSize(x) \in Int
  BY <1>3 DEF HeapSize
<1> QED
  BY <1>1, <1>2, <1>3, <1>4

(* An accepted heap lies after the rows and in the unit. *)
LEMMA HeapSound ==
  ASSUME NEW x, HeapFault(x) = "none"
  PROVE  ~(HeapStart(x) < TableSize(x)) /\ ~(HeapStart(x) > UnitSize(x))
<1> DEFINE c1 == Check(Len(x.fields) > MaxFields, "invalid")
           c2 == Check(TableSize(x) > MaxInt, "invalid")
           c3 == Check(HeapStart(x) < TableSize(x) \/ HeapStart(x) > UnitSize(x), "invalid")
<1>1. HeapFault(x) = FirstFault(<<c1, c2, c3>>)
  BY DEF HeapFault
<1>2. c3 = "none"
  <2> HIDE DEF c1, c2, c3
  <2> QED
    BY <1>1, ThreeChecks
<1> QED
  BY <1>2 DEF Check

(* An accepted descriptor has its payload in the heap, if it has one. *)
LEMMA DescriptorSound ==
  ASSUME NEW x, IsTable(x), HeapFault(x) = "none", NEW type \in KnownTypes,
         NEW cell \in Int \X Int, DescriptorFault(x, type, cell) = "none"
  PROVE  /\ cell[1] \in Nat /\ cell[2] \in Nat /\ TypeSize(type, cell[1]) \in Nat
         /\ \/ TypeSize(type, cell[1]) = 0
            \/ /\ HeapStart(x) + cell[2] >= TableSize(x)
               /\ HeapStart(x) + cell[2] + TypeSize(type, cell[1]) <= UnitSize(x)
<1> DEFINE c1 == Check(cell[1] < 0 \/ cell[2] < 0, "invalid")
           c2 == Check(cell[1] > 0 /\ cell[2] + TypeSize(type, cell[1]) > HeapSize(x), "invalid")
<1>1. DescriptorFault(x, type, cell) = FirstFault(<<c1, c2>>)
  BY DEF DescriptorFault
<1>2. c1 = "none" /\ c2 = "none"
  <2> HIDE DEF c1, c2
  <2> QED
    BY <1>1, TwoChecks
<1>3. cell[1] \in Nat /\ cell[2] \in Nat
  <2>1. ~(cell[1] < 0 \/ cell[2] < 0)
    BY <1>2 DEF Check
  <2> QED
    BY <2>1
<1>4. ~(cell[1] > 0 /\ cell[2] + TypeSize(type, cell[1]) > HeapSize(x))
  BY <1>2 DEF Check
<1>5. PICK n : n = TypeSize(type, cell[1])
  OBVIOUS
<1>6. n \in Nat /\ (cell[1] = 0 => n = 0)
  BY <1>3, <1>5, TypeSizes
<1>7. /\ ~(HeapStart(x) < TableSize(x)) /\ TableSize(x) \in Nat /\ UnitSize(x) \in Nat
      /\ HeapStart(x) \in Int /\ HeapSize(x) = UnitSize(x) - HeapStart(x)
  BY HeapSound, SizesOfTable DEF HeapSize
<1>8. n = 0 \/ (HeapStart(x) + cell[2] >= TableSize(x)
                  /\ HeapStart(x) + cell[2] + n <= UnitSize(x))
  <2>1. PICK hs \in Int, ts \in Nat, us \in Nat :
          hs = HeapStart(x) /\ ts = TableSize(x) /\ us = UnitSize(x)
    BY <1>7
  <2>2. CASE cell[1] = 0
    BY <1>6, <2>2
  <2>3. CASE cell[1] > 0
    <3>1. ~(cell[2] + n > us - hs) /\ ~(hs < ts)
      BY <1>4, <1>5, <1>7, <2>1, <2>3
    <3>2. hs + cell[2] >= ts /\ hs + cell[2] + n <= us
      BY <1>3, <1>6, <3>1
    <3> QED
      BY <2>1, <3>2
  <2> QED
    BY <1>3, <2>2, <2>3
<1> QED
  BY <1>3, <1>5, <1>6, <1>8

(* An accepted column is of a known type and has accepted descriptors. *)
LEMMA FieldSound ==
  ASSUME NEW x, IsTable(x), x.kind = "binary", NEW i \in DOMAIN x.fields,
         FieldFault(x, i) = "none"
  PROVE  /\ x.fields[i].type \in KnownTypes
         /\ (x.fields[i].form # "none" /\ x.fields[i].repeat = 1) =>
              \A r \in 1..x.rows : DescriptorFault(x, x.fields[i].type, x.cells[r][i]) = "none"
<1> DEFINE f == x.fields[i]
           known == f.type \in KnownTypes
           sized == known \/ f.form # "none"
           fits == sized /\ ColumnStart(x, i) + FieldWidth(f) <= x.rowSize
           pointers == f.form # "none" /\ f.repeat = 1
           rows == [r \in 1..x.rows |->
              IF pointers /\ known /\ fits THEN DescriptorFault(x, f.type, x.cells[r][i])
              ELSE "none"]
           c1 == Check(f.form # "none" /\ f.repeat > 1, "invalid")
           c2 == Check(~sized, "unsupported")
           c3 == Check(~fits, "invalid")
           c4 == Check(~known, "unsupported")
           c5 == FirstFault(rows)
<1>1. FieldFault(x, i) = FirstFault(<<c1, c2, c3, c4, c5>>)
  BY DEF FieldFault
<1>2. c3 = "none" /\ c4 = "none" /\ c5 = "none"
  <2> HIDE DEF c1, c2, c3, c4, c5
  <2> QED
    BY <1>1, FiveChecks
<1>3. known /\ fits
  <2> HIDE DEF known, fits
  <2> QED
    BY <1>2 DEF Check
<1>4. \A r \in DOMAIN rows : rows[r] = "none"
  <2>1. DOMAIN rows \subseteq Nat
    OBVIOUS
  <2> HIDE DEF rows
  <2> QED
    BY <1>2, <2>1, FirstFailing
<1>5. ASSUME pointers, NEW r \in 1..x.rows
      PROVE  DescriptorFault(x, f.type, x.cells[r][i]) = "none"
  <2>1. rows[r] = DescriptorFault(x, f.type, x.cells[r][i])
    <3> HIDE DEF known, fits, pointers
    <3> QED
      BY <1>3, <1>5
  <2> QED
    BY <1>4, <2>1
<1> QED
  BY <1>3, <1>5

(* An accepted geometry has positive lengths and tiles, and a row for each *)
(* tile.                                                                   *)
LEMMA GeometrySound ==
  ASSUME NEW x, IsTable(x), x.kind = "binary", GeometryFault(x) = "none"
  PROVE  /\ Sized(x) /\ SampleBytes(x) \in Nat /\ (x.bitpix < 0 => SampleBytes(x) >= 4)
         /\ CountFault(x) = "none" => Product(BinsOf(x)) = x.rows
<1> DEFINE c1 == Check(x.axes = <<>>, "invalid")
           c2 == Check(\E n \in DOMAIN x.axes : x.axes[n][1] = 0 \/ TileOf(x, n) = 0, "invalid")
           c3 == Check(ImagePixels(x) > MaxInt, "invalid")
           c4 == Check(x.bitpix \notin {8, 16, 32, 64, -32, -64}, "invalid")
           c5 == Check(ImagePixels(x) * SampleBytes(x) > MaxInt, "invalid")
<1>1. GeometryFault(x) = FirstFault(<<c1, c2, c3, c4, c5>>)
  BY DEF GeometryFault
<1>2. c2 = "none" /\ c4 = "none"
  <2> HIDE DEF c1, c2, c3, c4, c5
  <2> QED
    BY <1>1, FiveChecks
<1>3. /\ \A n \in DOMAIN x.axes : x.axes[n][1] # 0 /\ TileOf(x, n) # 0
      /\ x.bitpix \in {8, 16, 32, 64, -32, -64}
  BY <1>2 DEF Check
<1>4. Sized(x)
  <2>1. x.axes \in Seq(Nat \X (Nat \cup {-1}))
    BY DEF IsTable
  <2>2. ASSUME NEW n \in DOMAIN x.axes
        PROVE  x.axes[n][1] \in Nat \ {0} /\ TileOf(x, n) \in Nat \ {0}
    <3>1. x.axes[n] \in Nat \X (Nat \cup {-1})
      BY <2>1
    <3>2. x.axes[n][1] \in Nat /\ x.axes[n][2] \in Nat \cup {-1}
      BY <3>1
    <3>3. TileOf(x, n) \in Nat
      <4>1. CASE x.axes[n][2] # -1
        BY <3>2, <4>1 DEF TileOf
      <4>2. CASE x.axes[n][2] = -1 /\ n = 1
        BY <3>2, <4>2 DEF TileOf
      <4>3. CASE x.axes[n][2] = -1 /\ n # 1
        BY <3>2, <4>3 DEF TileOf
      <4> QED
        BY <4>1, <4>2, <4>3
    <3> QED
      BY <1>3, <3>2, <3>3
  <2> QED
    BY <2>1, <2>2 DEF Sized
<1>5. SampleBytes(x) \in Nat /\ (x.bitpix < 0 => SampleBytes(x) >= 4)
  BY <1>3 DEF SampleBytes
<1>6. CountFault(x) = "none" => Product(BinsOf(x)) = x.rows
  BY DEF CountFault, BinsOf, Check
<1> QED
  BY <1>4, <1>5, <1>6

(* The pixels of the tiles before a row. *)
LEMMA PixelsBefore ==
  ASSUME IsTable(t), t.kind = "binary", GeometryFault(t) = "none", CountFault(t) = "none"
  PROVE  /\ ImagePixels(t) \in Nat /\ TilesBefore(1) = 0
         /\ TilesBefore(t.rows + 1) = ImagePixels(t)
         /\ \A r \in 1..t.rows :
              /\ TilePixels(t, r) \in Nat
              /\ TilesBefore(r + 1) = TilesBefore(r) + TilePixels(t, r)
         /\ \A r \in 1..(t.rows + 1) :
              TilesBefore(r) \in Nat /\ TilesBefore(r) <= ImagePixels(t)
<1>1. PICK R \in Nat : R = t.rows
  BY SizesOfTable
<1>2. Sized(t) /\ R = Product(BinsOf(t))
  BY <1>1, GeometrySound
<1>3. PICK s : s = [r \in 1..R |-> TilePixels(t, r)]
  OBVIOUS
<1>4. \A r \in 1..R : TilePixels(t, r) \in Nat
  <2>1. \A r \in 1..R : r \in Nat \ {0}
    OBVIOUS
  <2> QED
    BY <1>2, <2>1, TileType
<1>5. s \in Seq(Nat) /\ Len(s) = R /\ \A r \in 1..R : s[r] = TilePixels(t, r)
  <2>1. s \in [1..R -> Nat]
    BY <1>3, <1>4
  <2> QED
    BY <1>3, <2>1, ListOf
<1>6. PICK f : f = RunningSums(s)
  OBVIOUS
<1>7. f \in [0..R -> Nat] /\ f[0] = 0 /\ \A r \in 1..R : f[r] = f[r - 1] + TilePixels(t, r)
  BY <1>5, <1>6, RunningSumsDef
<1>8. f[R] = ImagePixels(t)
  BY <1>2, <1>3, <1>6, TilesAreTheImage
<1>9. ASSUME NEW r \in 1..(R + 1) PROVE TilesBefore(r) = f[r - 1]
  <2>1. PICK m \in 0..R : m = r - 1
    OBVIOUS
  <2>2. PICK z : z = [n \in 1..m |-> TilePixels(t, n)]
    OBVIOUS
  <2>3. z \in Seq(Nat) /\ Len(z) = m /\ \A n \in 1..m : z[n] = TilePixels(t, n)
    <3>1. z \in [1..m -> Nat]
      BY <1>4, <2>1, <2>2
    <3> QED
      BY <2>1, <2>2, <3>1, ListOf
  <2>4. RunningSums(z)[m] = f[m]
    <3>1. m <= Len(z) /\ m <= Len(s) /\ m \in Nat /\ \A i \in 1..m : z[i] = s[i]
      BY SMTT(30), <1>5, <2>1, <2>3
    <3>2. \A n \in 0..m : RunningSums(z)[n] = RunningSums(s)[n]
      BY <1>5, <2>3, <3>1, SumsOfPrefix
    <3> QED
      BY <1>6, <2>1, <3>2
  <2> QED
    BY <2>1, <2>2, <2>3, <2>4 DEF TilesBefore, SumOf
<1>10. ASSUME NEW r \in 1..(R + 1) PROVE f[r - 1] \in Nat /\ f[r - 1] <= f[R]
  <2>1. r - 1 \in 0..R /\ R \in (r - 1)..R
    OBVIOUS
  <2> QED
    BY <1>5, <1>6, <1>7, <2>1, RunningSumsGrow
<1>11. ASSUME NEW r \in 1..R PROVE TilesBefore(r + 1) = TilesBefore(r) + TilePixels(t, r)
  <2>1. r \in 1..(R + 1) /\ r + 1 \in 1..(R + 1) /\ (r + 1) - 1 = r
    OBVIOUS
  <2> QED
    BY <1>7, <1>9, <2>1
<1>12. TilesBefore(1) = 0 /\ TilesBefore(R + 1) = ImagePixels(t)
  <2>1. 1 \in 1..(R + 1) /\ R + 1 \in 1..(R + 1) /\ 1 - 1 = 0 /\ (R + 1) - 1 = R
    OBVIOUS
  <2> QED
    BY <1>7, <1>8, <1>9, <2>1
<1>13. ImagePixels(t) \in Nat
  <2>1. R \in 0..R
    OBVIOUS
  <2> QED
    BY <1>7, <1>8, <2>1
<1>14. \A r \in 1..(R + 1) : TilesBefore(r) \in Nat /\ TilesBefore(r) <= ImagePixels(t)
  BY <1>8, <1>9, <1>10
<1> QED
  BY <1>1, <1>4, <1>11, <1>12, <1>13, <1>14

-----------------------------------------------------------------------------
(* What is said of the table stays true while the table stays. *)
LEMMA LaidOutStays ==
  ASSUME t' = t
  PROVE  /\ LaidOut' = LaidOut /\ Prepared' = Prepared /\ Plain' = Plain
         /\ ImageBytes' = ImageBytes
         /\ \A n : ColumnsPass(n)' = ColumnsPass(n)
         /\ \A e : InHeap(e)' = InHeap(e)
         /\ \A r : TilesBefore(r)' = TilesBefore(r)
<1>1. \A n : ColumnsPass(n)' = ColumnsPass(n)
  BY DEF ColumnsPass
<1>2. LaidOut' = LaidOut
  BY <1>1 DEF LaidOut
<1>3. Prepared' = Prepared /\ Plain' = Plain
  BY DEF Prepared, Plain
<1>4. ImageBytes' = ImageBytes
  BY DEF ImageBytes
<1>5. \A e : InHeap(e)' = InHeap(e)
  BY DEF InHeap
<1>6. \A r : TilesBefore(r)' = TilesBefore(r)
  BY DEF TilesBefore
<1> QED
  BY <1>1, <1>2, <1>3, <1>4, <1>5, <1>6

(* So does what the rows come to. *)
LEMMA RowsStay ==
  ASSUME t' = t
  PROVE  /\ \A r : RowFault(r)' = RowFault(r)
         /\ \A r : FastRowFault(r)' = FastRowFault(r)
         /\ \A r : RowResult(r)' = RowResult(r)
         /\ \A r : FastJob(r)' = FastJob(r)
         /\ GeneralVerdict' = GeneralVerdict
<1>1. ASSUME NEW r PROVE DataFault(r)' = DataFault(r)
  BY DEF DataFault
<1>2. ASSUME NEW r PROVE Active(r)' = Active(r)
  BY DEF Active
<1>3. ASSUME NEW r PROVE RowFault(r)' = RowFault(r)
  BY <1>1, <1>2 DEF RowFault
<1>4. ASSUME NEW r PROVE FastRowFault(r)' = FastRowFault(r)
  BY DEF FastRowFault
<1>5. ASSUME NEW r PROVE RowJob(r)' = RowJob(r)
  BY <1>2 DEF RowJob
<1>6. ASSUME NEW e PROVE Stream(e)' = Stream(e)
  BY DEF Stream
<1>7. ASSUME NEW r PROVE RowResult(r)' = RowResult(r)
  BY <1>3, <1>5, <1>6 DEF RowResult
<1>8. ASSUME NEW r PROVE FastJob(r)' = FastJob(r)
  BY DEF FastJob
<1>9. GeneralVerdict' = GeneralVerdict
  BY <1>3, <1>5, <1>6 DEF GeneralVerdict
<1> QED
  BY <1>3, <1>4, <1>7, <1>8, <1>9

(* A list that grows by one. *)
LEMMA ListGrows ==
  ASSUME NEW s, IsList(s), NEW o, NEW z, z = Append(s, o)
  PROVE  /\ IsList(z) /\ Len(s) \in Nat /\ Len(z) = Len(s) + 1
         /\ DOMAIN s = 1..Len(s) /\ DOMAIN z = 1..(Len(s) + 1)
         /\ \A n \in 1..Len(s) : z[n] = s[n]
         /\ z[Len(s) + 1] = o
<1>1. PICK S : S = {s[n] : n \in DOMAIN s} \cup {o}
  OBVIOUS
<1>2. s \in Seq(S) /\ o \in S
  BY <1>1 DEF IsList
<1>3. PICK L \in Nat : L = Len(s) /\ DOMAIN s = 1..L
  BY <1>2
<1>4. /\ z \in Seq(S) /\ Len(z) = L + 1 /\ z[L + 1] = o /\ DOMAIN z = 1..(L + 1)
      /\ \A n \in 1..L : z[n] = s[n]
  BY <1>2, <1>3
<1>5. IsList(z)
  <2>1. PICK Z : Z = {z[n] : n \in DOMAIN z}
    OBVIOUS
  <2>2. z \in [1..(L + 1) -> Z]
    <3>1. z \in [1..(L + 1) -> S]
      BY <1>3, <1>4, LenProperties
    <3>2. \A n \in 1..(L + 1) : z[n] \in Z
      BY <1>4, <2>1
    <3> QED
      BY <3>1, <3>2
  <2>3. L + 1 \in Nat
    OBVIOUS
  <2>4. z \in Seq(Z)
    BY <2>2, <2>3, ListOf
  <2> QED
    BY <2>1, <2>4 DEF IsList
<1> QED
  BY <1>3, <1>4, <1>5

(* A sum over a list that grows by one. *)
LEMMA SumGrows ==
  ASSUME NEW n \in Nat, NEW f \in [1..n -> Nat], NEW g \in [1..(n + 1) -> Nat],
         \A i \in 1..n : g[i] = f[i]
  PROVE  SumOf(f) \in Nat /\ SumOf(g) = SumOf(f) + g[n + 1]
<1>1. f \in Seq(Nat) /\ Len(f) = n
  BY ListOf
<1>2. g \in Seq(Nat) /\ Len(g) = n + 1
  <2>1. n + 1 \in Nat
    OBVIOUS
  <2> QED
    BY <2>1, ListOf
<1>3. RunningSums(f)[n] = RunningSums(g)[n]
  <2>1. n <= Len(f) /\ n <= Len(g)
    BY <1>1, <1>2
  <2>2. \A i \in 0..n : RunningSums(f)[i] = RunningSums(g)[i]
    BY <1>1, <1>2, <2>1, SumsOfPrefix
  <2> QED
    BY <2>2
<1>4. RunningSums(g)[n + 1] = RunningSums(g)[n] + g[n + 1]
  <2>1. n + 1 \in 1..Len(g) /\ (n + 1) - 1 = n
    BY <1>2
  <2> QED
    BY <1>2, <2>1, RunningSumsDef
<1>5. RunningSums(f)[n] \in Nat
  <2>1. n \in 0..Len(f)
    BY <1>1
  <2> QED
    BY <1>1, <2>1, RunningSumsDef
<1> QED
  BY <1>1, <1>2, <1>3, <1>4, <1>5 DEF SumOf

(* One more stream decoded. *)
LEMMA OutputsGrow ==
  ASSUME NEW s, IsList(s), \A n \in DOMAIN s : IsOutput(s[n]),
         NEW o, IsOutput(o), NEW z, z = Append(s, o)
  PROVE  /\ IsList(z) /\ \A n \in DOMAIN z : IsOutput(z[n])
         /\ \A m \in BOOLEAN :
              /\ PixelsOf(s, m) \in Nat
              /\ PixelsOf(z, m) = PixelsOf(s, m) + (IF o.job.mask = m THEN o.job.pixels ELSE 0)
         /\ BytesOf(s) \in Nat /\ BytesOf(z) = BytesOf(s) + o.count
<1>1. PICK L : L = Len(s)
  OBVIOUS
<1>2. /\ IsList(z) /\ L \in Nat /\ DOMAIN s = 1..L /\ DOMAIN z = 1..(L + 1)
      /\ z[L + 1] = o
  BY <1>1, ListGrows
<1>3. \A n \in 1..L : z[n] = s[n]
  BY <1>1, ListGrows
<1>4. \A n \in 1..L : s[n].job.mask \in BOOLEAN /\ s[n].job.pixels \in Nat /\ s[n].count \in Nat
  BY <1>2 DEF IsOutput
<1>5. o.job.mask \in BOOLEAN /\ o.job.pixels \in Nat /\ o.count \in Nat
  BY DEF IsOutput
<1>6. \A n \in 1..(L + 1) : n \in 1..L \/ n = L + 1
  BY <1>2
<1>7. \A n \in DOMAIN z : IsOutput(z[n])
  <2>1. \A n \in 1..L : IsOutput(s[n])
    BY <1>2
  <2> QED
    BY <1>2, <1>3, <1>6, <2>1, Zenon
<1>8. \A n \in 1..(L + 1) :
        z[n].job.mask \in BOOLEAN /\ z[n].job.pixels \in Nat /\ z[n].count \in Nat
  BY <1>2, <1>7, Zenon DEF IsOutput
<1>9. ASSUME NEW m \in BOOLEAN
      PROVE  /\ PixelsOf(s, m) \in Nat
             /\ PixelsOf(z, m) = PixelsOf(s, m) + (IF o.job.mask = m THEN o.job.pixels ELSE 0)
  <2>1. PICK f : f = [n \in 1..L |-> IF s[n].job.mask = m THEN s[n].job.pixels ELSE 0]
    OBVIOUS
  <2>2. PICK g : g = [n \in 1..(L + 1) |-> IF z[n].job.mask = m THEN z[n].job.pixels ELSE 0]
    OBVIOUS
  <2>3. f \in [1..L -> Nat]
    BY <1>4, <2>1
  <2>4. g \in [1..(L + 1) -> Nat]
    BY <1>8, <2>2
  <2>5. \A i \in 1..L : i \in 1..(L + 1)
    BY <1>2
  <2>6. \A i \in 1..L : g[i] = f[i]
    BY <1>3, <2>1, <2>2, <2>5
  <2>7. L + 1 \in 1..(L + 1)
    BY <1>2
  <2>8. g[L + 1] = IF o.job.mask = m THEN o.job.pixels ELSE 0
    BY <1>2, <2>2, <2>7
  <2>9. SumOf(f) \in Nat /\ SumOf(g) = SumOf(f) + g[L + 1]
    BY <1>2, <2>3, <2>4, <2>6, SumGrows
  <2>10. PixelsOf(s, m) = SumOf(f) /\ PixelsOf(z, m) = SumOf(g)
    BY <1>2, <2>1, <2>2, Zenon DEF PixelsOf
  <2> QED
    BY <2>8, <2>9, <2>10, Zenon
<1>10. BytesOf(s) \in Nat /\ BytesOf(z) = BytesOf(s) + o.count
  <2>1. PICK f : f = [n \in 1..L |-> s[n].count]
    OBVIOUS
  <2>2. PICK g : g = [n \in 1..(L + 1) |-> z[n].count]
    OBVIOUS
  <2>3. f \in [1..L -> Nat]
    BY <1>4, <2>1
  <2>4. g \in [1..(L + 1) -> Nat]
    BY <1>8, <2>2
  <2>5. \A i \in 1..L : i \in 1..(L + 1)
    BY <1>2
  <2>6. \A i \in 1..L : g[i] = f[i]
    BY <1>3, <2>1, <2>2, <2>5
  <2>7. L + 1 \in 1..(L + 1)
    BY <1>2
  <2>8. g[L + 1] = o.count
    BY <1>2, <2>2, <2>7
  <2>9. SumOf(f) \in Nat /\ SumOf(g) = SumOf(f) + g[L + 1]
    BY <1>2, <2>3, <2>4, <2>6, SumGrows
  <2>10. BytesOf(s) = SumOf(f) /\ BytesOf(z) = SumOf(g)
    BY <1>2, <2>1, <2>2, Zenon DEF BytesOf
  <2> QED
    BY <2>8, <2>9, <2>10, Zenon
<1> QED
  BY <1>2, <1>7, <1>9, <1>10

(* Nothing decoded comes to nothing. *)
LEMMA NoOutputs ==
  /\ IsList(<<>>) /\ BytesOf(<<>>) = 0
  /\ \A m \in BOOLEAN : PixelsOf(<<>>, m) = 0
<1>1. PICK s : s = <<>>
  OBVIOUS
<1>2. s \in Seq({s[n] : n \in DOMAIN s}) /\ DOMAIN s = {} /\ Len(s) = 0
  BY <1>1
<1>3. s \in Seq(Nat)
  BY <1>1
<1>4. RunningSums(s)[0] = 0
  BY <1>3, RunningSumsDef
<1>5. SumOf(s) = 0
  BY <1>2, <1>4 DEF SumOf
<1>6. BytesOf(s) = 0
  <2>1. [n \in DOMAIN s |-> s[n].count] = s
    BY <1>1, <1>2
  <2> QED
    BY <1>5, <2>1 DEF BytesOf
<1>7. ASSUME NEW m \in BOOLEAN PROVE PixelsOf(s, m) = 0
  <2>1. [n \in DOMAIN s |-> IF s[n].job.mask = m THEN s[n].job.pixels ELSE 0] = s
    BY <1>1, <1>2
  <2> QED
    BY <1>5, <2>1 DEF PixelsOf
<1> QED
  BY <1>1, <1>2, <1>6, <1>7 DEF IsList

-----------------------------------------------------------------------------
(* The constants, and the first state. *)
LEMMA Limits == {MaxStructures, MaxDecoded, MaxBlock, MaxHigh} \subseteq Nat
BY TilesAssumption

(* The first state satisfies the invariant. *)
LEMMA InitIInv == Init => IInv
<1> SUFFICES ASSUME Init PROVE IInv
  OBVIOUS
<1>1. /\ IsTable(t) /\ level \in {"structural", "full"} /\ verdict = "none"
      /\ field = 1 /\ row = 1 /\ decoded = 0 /\ job = NoJob /\ outputs = <<>>
      /\ phase = IF t.kind = "ascii" THEN "ascii" ELSE "heap"
  BY TilesAssumption DEF Init
<1>2. t.kind \in {"ascii", "binary"}
  BY <1>1 DEF IsTable
<1>3. TypeInv
  <2>1. IsList(outputs) /\ DOMAIN outputs = {}
    BY <1>1, NoOutputs
  <2> QED
    BY <1>1, <1>2, <2>1 DEF TypeInv, Phases
<1>4. ColumnsInv
  BY <1>1, <1>2 DEF ColumnsInv, AtRows
<1>5. JobInv
  BY <1>1, <1>2 DEF JobInv
<1>6. TilesInv
  BY <1>1, <1>2, Limits DEF TilesInv, SumsInv, AtRows
<1>7. PathInv
  BY <1>1, <1>2 DEF PathInv
<1> QED
  BY <1>3, <1>4, <1>5, <1>6, <1>7 DEF IInv

(* A step that touches nothing that the invariant is about. *)
LEMMA DecoderAlone ==
  ASSUME IInv, UNCHANGED <<t, level, phase, verdict, field, row, decoded, job, outputs>>
  PROVE  IInv'
<1>1. TypeInv'
  BY DEF IInv, TypeInv
<1>2. ColumnsInv'
  BY LaidOutStays DEF IInv, ColumnsInv
<1>3. JobInv'
  BY LaidOutStays DEF IInv, JobInv, IsJob
<1>4. TilesInv'
  <2>1. AtMask' = AtMask
    BY DEF AtMask
  <2>2. \A m : PixelsOf(outputs, m)' = PixelsOf(outputs, m)
    BY DEF PixelsOf
  <2>3. BytesOf(outputs)' = BytesOf(outputs)
    BY DEF BytesOf
  <2> QED
    BY <2>1, <2>2, <2>3, LaidOutStays DEF IInv, TilesInv, SumsInv
<1>5. PathInv'
  BY LaidOutStays, RowsStay DEF IInv, PathInv
<1> QED
  BY <1>1, <1>2, <1>3, <1>4, <1>5 DEF IInv

(* Where a table may be called valid, and what gzip.rs may call it. *)
MayBeValid ==
  \/ phase = "ascii" /\ AsciiFault(t) = "none"
  \/ phase = "dispatch" /\ level = "structural"
  \/ phase \in {"fast", "row"} /\ row = t.rows + 1
AsMeant(kind) == (phase \in {"fast", "decode"} /\ Plain) => kind = GeneralVerdict

(* A judgement keeps the invariant, if what it says is what is meant. *)
LEMMA Judged ==
  ASSUME IInv, NEW kind, verdict' = kind, verdict = "none",
         UNCHANGED <<t, level, phase, field, row, decoded, job, outputs>>,
         kind = "valid" => MayBeValid, AsMeant(kind)
  PROVE  IInv'
<1>1. TypeInv'
  BY DEF IInv, TypeInv
<1>2. ColumnsInv'
  <2>1. phase = "ascii" => (kind = "valid" => AsciiFault(t) = "none")
    BY DEF MayBeValid
  <2>2. phase \in {"heap", "fields"} => kind # "valid"
    BY DEF MayBeValid
  <2>3. AsciiFault(t)' = AsciiFault(t)
    OBVIOUS
  <2> QED
    BY <2>1, <2>2, <2>3, LaidOutStays DEF IInv, ColumnsInv
<1>3. JobInv'
  BY LaidOutStays DEF IInv, JobInv, IsJob
<1>4. TilesInv'
  <2>1. AtMask' = AtMask
    BY DEF AtMask
  <2>2. \A m : PixelsOf(outputs, m)' = PixelsOf(outputs, m)
    BY DEF PixelsOf
  <2>3. BytesOf(outputs)' = BytesOf(outputs)
    BY DEF BytesOf
  <2>4. phase = "dispatch" => (kind = "valid" => level = "structural")
    BY DEF MayBeValid
  <2>5. phase \in AtRows => (kind = "valid" => phase \in {"fast", "row"} /\ row = t.rows + 1)
    BY DEF MayBeValid, AtRows
  <2> QED
    BY <2>1, <2>2, <2>3, <2>4, <2>5, LaidOutStays DEF IInv, TilesInv, SumsInv
<1>5. PathInv'
  BY LaidOutStays, RowsStay DEF IInv, PathInv, AsMeant
<1> QED
  BY <1>1, <1>2, <1>3, <1>4, <1>5 DEF IInv

(* Judge does no more than that. *)
LEMMA JudgeKept ==
  ASSUME IInv, NEW kind, Judge(kind), verdict = "none",
         kind = "valid" => MayBeValid, AsMeant(kind)
  PROVE  IInv'
BY Judged DEF Judge, input, counters

(* Past the check of an ASCII table, the table is a binary one. *)
LEMMA BinaryTable ==
  ASSUME TypeInv, phase # "ascii"
  PROVE  t.kind = "binary" /\ IsTable(t) /\ t.fields \in Seq(BinaryColumns)
BY DEF TypeInv, IsTable

(* Before the rows. *)
LEMMA CheckAsciiStep == ASSUME IInv, CheckAscii PROVE IInv'
<1>1. /\ phase = "ascii" /\ verdict = "none"
      /\ Judge(IF AsciiFault(t) = "none" THEN "valid" ELSE AsciiFault(t))
  BY DEF CheckAscii, At
<1>2. PICK kind : kind = IF AsciiFault(t) = "none" THEN "valid" ELSE AsciiFault(t)
  OBVIOUS
<1>3. CASE AsciiFault(t) = "none"
  BY <1>1, <1>2, <1>3, JudgeKept DEF MayBeValid, AsMeant
<1>4. CASE AsciiFault(t) # "none"
  <2>1. AsciiFault(t) # "valid"
    <3> DEFINE columns == [i \in DOMAIN t.fields |-> AsciiFieldFault(t, i)]
               c1 == Check(t.pcount # 0 \/ Len(t.fields) > MaxFields, "invalid")
               c2 == FirstFault(columns)
    <3>1. AsciiFault(t) = FirstFault(<<c1, c2>>)
      BY DEF AsciiFault
    <3>2. c1 # "valid"
      BY CheckKind
    <3>3. DOMAIN columns \subseteq Nat
      <4>1. t.fields \in Seq(AsciiColumns)
        BY <1>1 DEF IInv, TypeInv, IsTable
      <4> QED
        BY <4>1
    <3>4. \A i \in DOMAIN columns : columns[i] # "valid"
      <4>1. ASSUME NEW i PROVE AsciiFieldFault(t, i) # "valid"
        BY AsciiKind
      <4> QED
        BY <4>1
    <3>5. c2 # "valid"
      <4> HIDE DEF columns
      <4> QED
        BY <3>3, <3>4, ListKind
    <3> HIDE DEF c1, c2
    <3> QED
      BY <3>1, <3>2, <3>5, TwoChecks
  <2>2. kind # "valid" /\ Judge(kind)
    BY <1>1, <1>2, <1>4, <2>1
  <2>3. AsMeant(kind)
    BY <1>1 DEF AsMeant
  <2> QED
    BY <1>1, <2>2, <2>3, JudgeKept
<1> QED
  BY <1>3, <1>4

(* The heap. *)
LEMMA CheckHeapStep == ASSUME IInv, CheckHeap PROVE IInv'
<1>1. phase = "heap" /\ verdict = "none"
  BY DEF CheckHeap, At
<1>2. CASE HeapFault(t) # "none" /\ Judge(HeapFault(t))
  <2>1. HeapFault(t) # "valid" /\ AsMeant(HeapFault(t))
    BY <1>1, ColumnKinds DEF AsMeant
  <2> QED
    BY <1>1, <1>2, <2>1, JudgeKept
<1>3. CASE HeapFault(t) = "none" /\ Go("fields") /\ UNCHANGED <<field, row, counters, job>>
  <2>1. /\ phase' = "fields"
        /\ UNCHANGED <<t, level, verdict, outputs, field, row, decoded, job>>
    BY <1>3 DEF Go, input, counters
  <2>2. TypeInv'
    BY <1>1, <2>1 DEF IInv, TypeInv, Phases
  <2>3. ColumnsInv'
    <3>1. field = 1
      BY <1>1 DEF IInv, ColumnsInv
    <3>2. Len(t.fields) \in Nat
      BY <1>1, BinaryTable DEF IInv
    <3>3. ColumnsPass(field - 1) /\ field <= Len(t.fields) + 1
      BY <3>1, <3>2 DEF ColumnsPass
    <3> QED
      BY <1>1, <1>3, <2>1, <3>3, LaidOutStays DEF ColumnsInv, AtRows
  <2>4. JobInv'
    BY <2>1 DEF JobInv
  <2>5. TilesInv'
    BY <1>1, <2>1 DEF IInv, TilesInv, SumsInv, AtRows
  <2>6. PathInv'
    BY <2>1 DEF PathInv
  <2> QED
    BY <2>2, <2>3, <2>4, <2>5, <2>6 DEF IInv
<1> QED
  BY <1>2, <1>3 DEF CheckHeap

(* A column. *)
LEMMA CheckFieldStep == ASSUME IInv, CheckField PROVE IInv'
<1>1. phase = "fields" /\ verdict = "none" /\ field \in DOMAIN t.fields
  BY DEF CheckField, At
<1>2. PICK items : items =
        IF t.fields[field].form # "none" /\ t.fields[field].repeat = 1 THEN t.rows ELSE 0
  OBVIOUS
<1> DEFINE c1 == Check(structures + 1 > MaxStructures, "limit")
           c2 == FieldFault(t, field)
           c3 == Check(structures + 1 + items > MaxStructures, "limit")
           fault == FirstFault(<<c1, c2, c3>>)
<1>3. \/ fault # "none" /\ Judge(fault)
      \/ /\ fault = "none" /\ field' = field + 1
         /\ Go("fields") /\ UNCHANGED <<row, decoded, undecoded, job>>
  BY <1>2 DEF CheckField
<1>4. c1 # "valid" /\ c2 # "valid" /\ c3 # "valid"
  BY CheckKind, ColumnKinds
<1>5. fault # "valid" /\ (fault = "none" => c2 = "none")
  <2> HIDE DEF c1, c2, c3
  <2> QED
    BY <1>4, ThreeChecks
<1>6. AsMeant(fault)
  BY <1>1 DEF AsMeant
<1>7. CASE fault # "none" /\ Judge(fault)
  <2> HIDE DEF fault
  <2> QED
    BY <1>1, <1>5, <1>6, <1>7, JudgeKept
<1>8. CASE /\ fault = "none" /\ field' = field + 1
           /\ Go("fields") /\ UNCHANGED <<row, decoded, undecoded, job>>
  <2>1. /\ phase' = "fields" /\ field' = field + 1
        /\ UNCHANGED <<t, level, verdict, outputs, row, decoded, job>>
    BY <1>8 DEF Go, input
  <2>2. FieldFault(t, field) = "none"
    BY <1>5, <1>8
  <2> HIDE DEF fault
  <2>3. TypeInv'
    BY <1>1, <2>1 DEF IInv, TypeInv, Phases
  <2>4. ColumnsInv'
    <3>1. HeapFault(t) = "none" /\ ColumnsPass(field - 1)
      BY <1>1 DEF IInv, ColumnsInv
    <3>2. PICK L \in Nat : L = Len(t.fields) /\ DOMAIN t.fields = 1..L
      BY <1>1, BinaryTable DEF IInv
    <3>3. field \in 1..L
      BY <1>1, <3>2
    <3>4. ColumnsPass((field + 1) - 1)
      <4>1. ASSUME NEW i \in 1..((field + 1) - 1) PROVE FieldFault(t, i) = "none"
        <5>1. i \in 1..(field - 1) \/ i = field
          BY <3>3
        <5> QED
          BY <2>2, <3>1, <5>1 DEF ColumnsPass
      <4> QED
        BY <4>1 DEF ColumnsPass
    <3>5. field + 1 <= Len(t.fields) + 1
      BY <3>2, <3>3
    <3> QED
      BY <1>1, <2>1, <3>1, <3>4, <3>5, LaidOutStays DEF ColumnsInv, AtRows
  <2>5. JobInv'
    BY <2>1 DEF JobInv
  <2>6. TilesInv'
    BY <1>1, <2>1 DEF IInv, TilesInv, SumsInv, AtRows
  <2>7. PathInv'
    BY <2>1 DEF PathInv
  <2> QED
    BY <2>3, <2>4, <2>5, <2>6, <2>7 DEF IInv
<1> QED
  BY <1>3, <1>7, <1>8

(* The geometry: the bytes of the image are admitted. *)
LEMMA CheckLayoutStep == ASSUME IInv, CheckLayout PROVE IInv'
<1>1. phase = "fields" /\ verdict = "none" /\ field = Len(t.fields) + 1
  BY DEF CheckLayout, At
<1>2. /\ t.kind = "binary" /\ IsTable(t) /\ Len(t.fields) \in Nat
  BY <1>1, BinaryTable DEF IInv
<1> DEFINE bytes == decoded + ImagePixels(t) * SampleBytes(t)
           c1 == Check(ColumnStart(t, field) # t.rowSize, "invalid")
           c2 == GeometryFault(t)
           c3 == IF GeometryFault(t) = "none" THEN Check(bytes > MaxDecoded, "limit") ELSE "none"
           c4 == IF GeometryFault(t) = "none" THEN CountFault(t) ELSE "none"
           fault == FirstFault(<<c1, c2, c3, c4>>)
<1>3. \/ fault # "none" /\ Judge(fault)
      \/ /\ fault = "none" /\ decoded' = bytes
         /\ Go("dispatch") /\ UNCHANGED <<field, row, structures, undecoded, job>>
  BY DEF CheckLayout
<1>4. c1 # "valid" /\ c2 # "valid" /\ c3 # "valid" /\ c4 # "valid"
  BY CheckKind, ColumnKinds
<1>5. /\ fault # "valid"
      /\ fault = "none" => c1 = "none" /\ c2 = "none" /\ c3 = "none" /\ c4 = "none"
  <2> HIDE DEF c1, c2, c3, c4
  <2> QED
    BY <1>4, FourChecks
<1>6. AsMeant(fault)
  BY <1>1 DEF AsMeant
<1>7. CASE fault # "none" /\ Judge(fault)
  <2> HIDE DEF fault
  <2> QED
    BY <1>1, <1>5, <1>6, <1>7, JudgeKept
<1>8. CASE /\ fault = "none" /\ decoded' = bytes
           /\ Go("dispatch") /\ UNCHANGED <<field, row, structures, undecoded, job>>
  <2>1. /\ phase' = "dispatch" /\ decoded' = decoded + ImageBytes
        /\ UNCHANGED <<t, level, verdict, outputs, field, row, job>>
    BY <1>8 DEF Go, input, ImageBytes
  <2>2. c1 = "none" /\ c2 = "none" /\ c3 = "none" /\ c4 = "none"
    BY <1>5, <1>8
  <2>3. /\ ColumnStart(t, field) = t.rowSize
        /\ GeometryFault(t) = "none" /\ CountFault(t) = "none"
    BY <2>2 DEF Check
  <2>4. ~(decoded + ImageBytes > MaxDecoded)
    BY <2>2, <2>3 DEF Check, ImageBytes
  <2> HIDE DEF fault
  <2>5. decoded = 0 /\ outputs = <<>> /\ row = 1
    BY <1>1 DEF IInv, TilesInv, SumsInv, AtRows
  <2>6. ImageBytes \in Nat
    <3>1. ImagePixels(t) \in Nat /\ SampleBytes(t) \in Nat
      BY <1>2, <2>3, PixelsBefore, GeometrySound
    <3> QED
      BY <3>1 DEF ImageBytes
  <2>7. decoded' = ImageBytes /\ ImageBytes <= MaxDecoded
    BY <2>1, <2>4, <2>5, <2>6, Limits
  <2>8. LaidOut
    <3>1. HeapFault(t) = "none" /\ ColumnsPass(field - 1)
      BY <1>1 DEF IInv, ColumnsInv
    <3>2. field - 1 = Len(t.fields)
      BY <1>1, <1>2
    <3> QED
      BY <1>1, <2>3, <3>1, <3>2 DEF LaidOut
  <2>9. TypeInv'
    BY <1>1, <2>1, <2>6, <2>7 DEF IInv, TypeInv, Phases
  <2>10. ColumnsInv'
    BY <1>1, <2>1, <2>8, LaidOutStays DEF ColumnsInv, AtRows
  <2>11. JobInv'
    BY <2>1 DEF JobInv
  <2>12. TilesInv'
    BY <1>1, <2>1, <2>5, <2>7, LaidOutStays DEF TilesInv, SumsInv, AtRows
  <2>13. PathInv'
    BY <2>1 DEF PathInv
  <2> QED
    BY <2>9, <2>10, <2>11, <2>12, <2>13 DEF IInv
<1> QED
  BY <1>3, <1>7, <1>8

(* The choice between the two paths, where nothing is decoded yet. *)
LEMMA DispatchStep == ASSUME IInv, Dispatch PROVE IInv'
<1>1. phase = "dispatch" /\ verdict = "none"
  BY DEF Dispatch, At
<1>2. t.kind = "binary" /\ IsTable(t) /\ t.fields \in Seq(BinaryColumns)
  BY <1>1, BinaryTable DEF IInv
<1>3. \A kind : AsMeant(kind)
  BY <1>1 DEF AsMeant
<1> DEFINE c1 == ColumnsFault(t)
           c2 == IF ColumnsFault(t) = "none" THEN ParameterFault(t) ELSE "none"
           fault == FirstFault(<<c1, c2>>)
<1>4. fault # "valid" /\ (fault = "none" => c1 = "none")
  <2>1. c1 # "valid" /\ c2 # "valid"
    BY <1>2, PreparedKinds
  <2> HIDE DEF c1, c2
  <2> QED
    BY <2>1, TwoChecks
<1>5. CASE level = "structural" /\ verdict' = "valid"
             /\ UNCHANGED <<input, phase, field, row, structures, decoded, job, decoder, outputs>>
  <2>1. MayBeValid
    BY <1>1, <1>5 DEF MayBeValid
  <2>2. verdict' = "valid" /\ UNCHANGED <<t, level, phase, field, row, decoded, job, outputs>>
    BY <1>5 DEF input
  <2> QED
    BY <1>1, <1>3, <2>1, <2>2, Judged
<1>6. CASE Judge("unsupported")
  BY <1>1, <1>3, <1>6, JudgeKept
<1>7. CASE fault # "none" /\ Judge(fault)
  <2> HIDE DEF fault
  <2> QED
    BY <1>1, <1>3, <1>4, <1>7, JudgeKept
<1>8. CASE /\ level = "full" /\ (Supported(t) \/ fault = "none")
           /\ Go(IF Supported(t) THEN "fast" ELSE "row") /\ UNCHANGED <<field, row, counters, job>>
  <2>1. Prepared
    BY <1>4, <1>8 DEF Prepared
  <2>2. /\ phase' = IF Supported(t) THEN "fast" ELSE "row"
        /\ UNCHANGED <<t, level, verdict, outputs, field, row, decoded, job>>
    BY <1>8 DEF Go, input, counters
  <2> HIDE DEF fault
  <2>3. phase' \in {"fast", "row"} /\ phase' # "decode" /\ phase' # "mask"
    BY <2>2
  <2>4. LaidOut /\ outputs = <<>> /\ row = 1 /\ decoded = ImageBytes /\ decoded <= MaxDecoded
    BY <1>1 DEF IInv, ColumnsInv, TilesInv, SumsInv, AtRows
  <2>5. TypeInv'
    BY <1>1, <2>2, <2>3 DEF IInv, TypeInv, Phases
  <2>6. ColumnsInv'
    BY <1>1, <1>8, <2>1, <2>2, <2>3, <2>4, LaidOutStays DEF ColumnsInv, AtRows
  <2>7. JobInv'
    BY <2>3 DEF JobInv
  <2>8. TilesInv'
    <3>1. TilesBefore(1) = 0 /\ ImageBytes \in Nat /\ t.rows \in Nat /\ SampleBytes(t) \in Nat
      <4>1. ImagePixels(t) \in Nat /\ SampleBytes(t) \in Nat /\ TilesBefore(1) = 0
        BY <1>2, <2>4, PixelsBefore, GeometrySound DEF LaidOut
      <4> QED
        BY <1>2, <4>1, SizesOfTable DEF ImageBytes
    <3>2. PixelsOf(<<>>, FALSE) = 0 /\ PixelsOf(<<>>, TRUE) = 0 /\ BytesOf(<<>>) = 0
      BY NoOutputs
    <3>3. /\ outputs' = <<>> /\ row' = 1 /\ decoded' = ImageBytes /\ ~AtMask'
      BY <2>2, <2>3, <2>4 DEF AtMask
    <3>4. TilesBefore(1)' = 0 /\ ImageBytes' = ImageBytes
      BY <2>2, <3>1, LaidOutStays
    <3>5. PixelsOf(outputs, FALSE)' = 0 /\ PixelsOf(outputs, TRUE)' = 0 /\ BytesOf(outputs)' = 0
      BY <3>2, <3>3
    <3>6. 0 * SampleBytes(t) = 0 /\ 1 <= t.rows + 1 /\ ImageBytes = ImageBytes + 0
      BY <3>1
    <3>7. verdict' # "valid" /\ t' = t /\ phase' \in AtRows
      BY <1>1, <2>2, <2>3 DEF AtRows
    <3>8. TilesBefore(row)' = 0 /\ TilesBefore(IF AtMask THEN row + 1 ELSE row)' = 0
      <4>1. TilesBefore(row)' = TilesBefore(1)
        BY <2>2, <3>3 DEF TilesBefore
      <4>2. TilesBefore(IF AtMask THEN row + 1 ELSE row)' = TilesBefore(1)
        BY <2>2, <3>3 DEF TilesBefore
      <4> QED
        BY <3>1, <4>1, <4>2
    <3>9. (PixelsOf(outputs, FALSE) * SampleBytes(t))' = 0
      BY <3>5, <3>6, <3>7
    <3>10. (row <= t.rows + 1)' /\ (phase \in {"mask", "decode"} => row <= t.rows)'
      BY <2>3, <3>3, <3>6, <3>7
    <3>11. (verdict = "valid" => phase \in {"fast", "row"} /\ row = t.rows + 1)'
      BY <3>7
    <3>12. (PixelsOf(outputs, FALSE) = TilesBefore(IF AtMask THEN row + 1 ELSE row))'
      BY <3>5, <3>8
    <3>13. (PixelsOf(outputs, TRUE) <= TilesBefore(row))'
      <4>1. 0 <= 0
        OBVIOUS
      <4> QED
        BY <3>5, <3>8, <4>1, Zenon
    <3>14. (BytesOf(outputs)
             <= PixelsOf(outputs, FALSE) * SampleBytes(t) + PixelsOf(outputs, TRUE))'
      <4>1. 0 <= 0 + 0
        OBVIOUS
      <4> QED
        BY <3>5, <3>9, <4>1, Zenon
    <3>15. (decoded = ImageBytes + PixelsOf(outputs, TRUE)
                       + (IF phase = "decode" /\ job.mask THEN job.pixels ELSE 0))'
      <4>1. (IF phase = "decode" /\ job.mask THEN job.pixels ELSE 0)' = 0
        BY <2>3
      <4>2. ImageBytes = (ImageBytes + 0) + 0
        BY <3>1
      <4> QED
        BY <3>3, <3>4, <3>5, <4>1, <4>2, Zenon
    <3>16. SumsInv'
      BY <3>10, <3>11, <3>12, <3>13, <3>14, <3>15, Zenon DEF SumsInv
    <3>17. phase' # "dispatch"
      BY <2>3
    <3> QED
      BY <2>2, <2>4, <3>7, <3>16, <3>17 DEF TilesInv
  <2>9. PathInv'
    <3>1. \A r : r \notin 1..(row - 1)
      BY <2>4
    <3> QED
      BY <1>1, <2>2, <2>3, <3>1 DEF PathInv
  <2> QED
    BY <2>5, <2>6, <2>7, <2>8, <2>9 DEF IInv
<1> QED
  BY <1>5, <1>6, <1>7, <1>8 DEF Dispatch

(* The end of the rows. *)
LEMMA EndRowsStep == ASSUME IInv, EndRows, AsMeant("valid") PROVE IInv'
<1>1. phase \in {"fast", "row"} /\ verdict = "none" /\ row > t.rows /\ Judge("valid")
  BY DEF EndRows
<1>2. row = t.rows + 1
  <2>1. row <= t.rows + 1 /\ row \in Nat /\ t.rows \in Nat
    BY <1>1, SizesOfTable DEF IInv, TypeInv, TilesInv, SumsInv, AtRows
  <2> QED
    BY <1>1, <2>1
<1>3. MayBeValid
  BY <1>1, <1>2 DEF MayBeValid
<1> QED
  BY <1>1, <1>3, JudgeKept

(* A row or its mask is taken up: from where the sums stand to a job.      *)
Takes(next, from) ==
  /\ verdict = "none" /\ phase = from /\ phase' = "decode" /\ job' = next
  /\ UNCHANGED <<t, level, verdict, field, row, outputs>>

(* Taking a stream up moves none of the sums. *)
LEMMA Taken ==
  ASSUME IInv, NEW next, NEW from \in {"fast", "row"}, Takes(next, from), decoded' = decoded,
         row <= t.rows, ~next.mask, IsJob(next),
         Supported(t) => (next = FastJob(row) /\ FastRowFault(row) = "none")
  PROVE  IInv'
<1>1. /\ verdict = "none" /\ phase = from /\ phase' = "decode" /\ job' = next
      /\ UNCHANGED <<t, level, verdict, field, row, outputs>>
  BY DEF Takes
<1>2. TypeInv'
  BY <1>1 DEF IInv, TypeInv, Phases
<1>3. ColumnsInv'
  BY <1>1, LaidOutStays DEF IInv, ColumnsInv, AtRows
<1>4. JobInv'
  BY <1>1, LaidOutStays DEF JobInv, IsJob
<1>5. TilesInv'
  <2>1. ~AtMask' /\ ~AtMask
    BY <1>1 DEF AtMask
  <2>2. \A m : PixelsOf(outputs, m)' = PixelsOf(outputs, m)
    BY <1>1 DEF PixelsOf
  <2>3. BytesOf(outputs)' = BytesOf(outputs)
    BY <1>1 DEF BytesOf
  <2>4. phase # "decode" /\ phase \in AtRows
    BY <1>1 DEF AtRows
  <2> QED
    BY <1>1, <2>1, <2>2, <2>3, <2>4, LaidOutStays DEF IInv, TilesInv, SumsInv, AtRows
<1>6. PathInv'
  <2>1. phase = "fast" => Supported(t)
    BY DEF IInv, PathInv
  <2>2. phase = "row" => ~Supported(t)
    BY DEF IInv, PathInv
  <2>3. Plain => (phase = "fast" /\ \A r \in 1..(row - 1) : RowResult(r) = "none")
    BY <1>1, <2>2 DEF IInv, PathInv, Plain
  <2> QED
    BY <1>1, <2>1, <2>2, <2>3, LaidOutStays, RowsStay DEF PathInv
<1> QED
  BY <1>2, <1>3, <1>4, <1>5, <1>6 DEF IInv

-----------------------------------------------------------------------------
(* The table that gzip.rs takes, as tiles.rs would see it. *)
OnlyData(x) ==
  /\ DOMAIN x.fields = {1}
  /\ Column(x, "data") = {1} /\ (CHOOSE k \in Column(x, "data") : TRUE) = 1
  /\ \A role \in Roles \ {"data"} : ~HasColumn(x, role)
  /\ x.fields[1].form # "none" /\ x.fields[1].repeat = 1 /\ x.fields[1].type = "B"
  /\ x.fields[1].role = "data" /\ ~x.fields[1].scaled

(* It has one column, with the data, and no parameter that tiles.rs would  *)
(* look at.                                                                *)
LEMMA SupportedTable ==
  ASSUME NEW x, x.fields \in Seq(BinaryColumns), Supported(x)
  PROVE  /\ OnlyData(x) /\ x.codec \in Gzip /\ x.bitpix \in {8, 16, 32, 64}
         /\ x.quantiz = "none" /\ x.scale = "none" /\ x.zero = "none" /\ x.maskcmp = "none"
<1>1. DOMAIN x.fields = {1}
  <2>1. DOMAIN x.fields = 1..1
    BY DEF Supported
  <2> QED
    BY <2>1
<1>2. /\ x.fields[1].form # "none" /\ x.fields[1].repeat = 1 /\ x.fields[1].type = "B"
      /\ x.fields[1].role = "data" /\ ~x.fields[1].scaled
  BY DEF Supported
<1>3. Column(x, "data") = {1}
  BY <1>1, <1>2 DEF Column
<1>4. (CHOOSE k \in Column(x, "data") : TRUE) = 1
  BY <1>3
<1>5. \A role \in Roles \ {"data"} : ~HasColumn(x, role)
  BY <1>1, <1>2 DEF Column, HasColumn
<1>6. x.codec \in Gzip /\ x.bitpix \in {8, 16, 32, 64}
  BY DEF Supported, Gzip
<1>7. x.quantiz = "none" /\ x.scale = "none" /\ x.zero = "none" /\ x.maskcmp = "none"
  <2>1. {x.quantiz, x.scale, x.zero, x.maskcmp} = {"none"}
    BY DEF Supported
  <2> QED
    BY <2>1
<1> QED
  BY <1>1, <1>2, <1>3, <1>4, <1>5, <1>6, <1>7 DEF OnlyData

(* The checks that tiles.rs makes before the rows find nothing in it. *)
LEMMA ParametersPass ==
  ASSUME t.fields \in Seq(BinaryColumns), Plain
  PROVE  ColumnsFault(t) = "none" /\ ParameterFault(t) = "none"
<1>1. /\ OnlyData(t) /\ t.codec \in Gzip /\ t.quantiz = "none" /\ t.maskcmp = "none"
      /\ t.malformed = {}
  BY SupportedTable DEF Plain
<1>2. /\ ~HasColumn(t, "gzip") /\ ~HasColumn(t, "scale") /\ ~HasColumn(t, "zero")
      /\ ~HasColumn(t, "mask") /\ HasColumn(t, "data")
  BY <1>1 DEF OnlyData, Roles, HasColumn
<1>3. RoleFault(t, 1) = "none"
  <2>1. \A k : k \notin 1..(1 - 1)
    OBVIOUS
  <2>2. \A c1, c2, c3 : (c1 = "none" /\ c2 = "none" /\ c3 = "none")
          => FirstFault(<<c1, c2, c3>>) = "none"
    BY ThreeChecks
  <2> QED
    BY <1>1, <2>1, <2>2 DEF RoleFault, OnlyData, Check
<1>4. ColumnsFault(t) = "none"
  <2> DEFINE roles == [i \in DOMAIN t.fields |-> RoleFault(t, i)]
             c1 == FirstFault(roles)
             c2 == Check(HasColumn(t, "gzip") /\ HasColumn(t, "raw"), "invalid")
             c3 == Check(HasColumn(t, "scale") # HasColumn(t, "zero"), "invalid")
             c4 == Check(~HasColumn(t, "data"), "invalid")
  <2>1. ColumnsFault(t) = FirstFault(<<c1, c2, c3, c4>>)
    BY DEF ColumnsFault
  <2>2. DOMAIN roles \subseteq Nat /\ \A i \in DOMAIN roles : roles[i] = "none"
    BY <1>1, <1>3 DEF OnlyData
  <2>3. c1 = "none"
    <3> HIDE DEF roles
    <3> QED
      BY <2>2, FirstFailing
  <2>4. c2 = "none" /\ c4 = "none"
    BY <1>2 DEF Check
  <2>5. c3 = "none"
    <3>1. ~(HasColumn(t, "scale") # HasColumn(t, "zero"))
      <4>1. Column(t, "scale") = {} /\ Column(t, "zero") = {}
        BY <1>2 DEF HasColumn
      <4> QED
        BY <4>1 DEF HasColumn
    <3> QED
      BY <3>1, Zenon DEF Check
  <2> HIDE DEF c1, c2, c3, c4
  <2> QED
    BY <2>1, <2>3, <2>4, <2>5, FourChecks
<1>5. ParameterFault(t) = "none"
  <2> DEFINE c1 == Check({"BLOCKSIZE", "BYTEPIX"} \cap t.malformed # {}, "invalid")
             c2 == Check(t.codec = "HCOMPRESS_1" /\ {"SMOOTH", "SCALE"} \cap t.malformed # {}, "invalid")
             c3 == Check("ZBLANK" \in t.malformed, "invalid")
             c4 == Check(/\ t.quantiz \in {"SUBTRACTIVE_DITHER_1", "SUBTRACTIVE_DITHER_2"}
                         /\ t.dither \notin 1..10000, "invalid")
             c5 == Check(t.quantiz = "other", "unsupported")
             c6 == Check(HasColumn(t, "mask") # (t.maskcmp # "none"), "invalid")
  <2>1. ParameterFault(t) = FirstFault(<<c1, c2, c3, c4, c5, c6>>)
    BY DEF ParameterFault
  <2>2. c1 = "none" /\ c2 = "none" /\ c3 = "none"
    BY <1>1 DEF Check
  <2>3. c4 = "none" /\ c5 = "none"
    BY <1>1 DEF Check
  <2>4. c6 = "none"
    <3>1. ~(HasColumn(t, "mask") # (t.maskcmp # "none"))
      <4>1. Column(t, "mask") = {} /\ t.maskcmp = "none"
        BY <1>1, <1>2 DEF HasColumn
      <4> QED
        BY <4>1 DEF HasColumn
    <3> QED
      BY <3>1, Zenon DEF Check
  <2> HIDE DEF c1, c2, c3, c4, c5, c6
  <2> QED
    BY <2>1, <2>2, <2>3, <2>4, SixChecks
<1> QED
  BY <1>4, <1>5

(* The descriptors of a row on such a table have been checked with the     *)
(* column: all that is left is whether there is anything in the cell.      *)
LEMMA OnlyCell ==
  ASSUME IsTable(t), t.kind = "binary", LaidOut, Supported(t), NEW r \in 1..t.rows
  PROVE  /\ t.cells[r][1] \in Nat \X Nat
         /\ DescriptorFault(t, "B", t.cells[r][1]) = "none"
         /\ Extent(t, r, 1) = <<t.cells[r][1][2], t.cells[r][1][1]>>
         /\ t.cells[r][1][1] # 0 =>
              /\ InHeap(Extent(t, r, 1))
              /\ ~(t.cells[r][1][2] + t.cells[r][1][1] > HeapSize(t))
<1>1. OnlyData(t) /\ t.fields \in Seq(BinaryColumns)
  BY SupportedTable DEF IsTable
<1>2. 1 \in DOMAIN t.fields /\ t.fields[1].form # "none" /\ t.fields[1].repeat = 1
      /\ t.fields[1].type = "B"
  BY <1>1 DEF OnlyData
<1>3. FieldFault(t, 1) = "none" /\ HeapFault(t) = "none"
  <2>1. 1 \in 1..Len(t.fields)
    BY <1>1, <1>2
  <2> QED
    BY <2>1 DEF LaidOut, ColumnsPass
<1>4. DescriptorFault(t, "B", t.cells[r][1]) = "none" /\ "B" \in KnownTypes
  BY <1>2, <1>3, FieldSound
<1>5. t.cells[r][1] \in Int \X Int
  BY <1>2 DEF IsTable
<1>6. PICK cell : cell = t.cells[r][1]
  OBVIOUS
<1>7. PICK n, o : n = cell[1] /\ o = cell[2]
  OBVIOUS
<1>8. /\ n \in Nat /\ o \in Nat
      /\ \/ TypeSize("B", n) = 0
         \/ /\ HeapStart(t) + o >= TableSize(t)
            /\ HeapStart(t) + o + TypeSize("B", n) <= UnitSize(t)
  BY <1>3, <1>4, <1>5, <1>6, <1>7, DescriptorSound
<1>9. TypeSize("B", n) = n
  BY <1>8 DEF TypeSize, Widths
<1>10. cell \in Nat \X Nat
  BY <1>5, <1>6, <1>7, <1>8
<1>11. Extent(t, r, 1) = <<o, n>>
  BY <1>2, <1>6, <1>7, <1>9 DEF Extent
<1>12. ASSUME n # 0 PROVE InHeap(<<o, n>>) /\ ~(o + n > HeapSize(t))
  <2>1. HeapStart(t) + o >= TableSize(t) /\ HeapStart(t) + o + n <= UnitSize(t)
    BY <1>8, <1>9, <1>12
  <2>2. HeapStart(t) \in Int /\ UnitSize(t) \in Nat /\ HeapSize(t) = UnitSize(t) - HeapStart(t)
    BY SizesOfTable DEF HeapSize
  <2>3. ~(o + n > HeapSize(t))
    BY <1>8, <2>1, <2>2
  <2>4. InHeap(<<o, n>>)
    BY <2>1 DEF InHeap
  <2> QED
    BY <2>3, <2>4
<1> QED
  BY <1>4, <1>6, <1>7, <1>10, <1>11, <1>12, Zenon

(* So gzip.rs refuses a row only when there is nothing in its cell. *)
LEMMA FastFault ==
  ASSUME IsTable(t), t.kind = "binary", LaidOut, Supported(t), NEW r \in 1..t.rows
  PROVE  FastRowFault(r) = IF t.cells[r][1][1] = 0 THEN "invalid" ELSE "none"
<1>1. PICK cell : cell = t.cells[r][1]
  OBVIOUS
<1>2. /\ cell[1] \in Nat /\ cell[2] \in Nat
      /\ cell[1] # 0 => ~(cell[2] + cell[1] > HeapSize(t))
  BY <1>1, OnlyCell
<1> DEFINE c1 == Check(cell[1] < 0 \/ cell[2] < 0 \/ cell[2] + cell[1] > HeapSize(t), "invalid")
           c2 == Check(cell[1] = 0, "invalid")
<1>3. FastRowFault(r) = FirstFault(<<c1, c2>>)
  BY <1>1 DEF FastRowFault
<1>4. c1 \in {"none", "invalid"} /\ (cell[1] # 0 => c1 = "none")
  BY <1>2 DEF Check
<1>5. c2 = IF cell[1] = 0 THEN "invalid" ELSE "none"
  BY DEF Check
<1> HIDE DEF c1, c2
<1> QED
  BY <1>1, <1>3, <1>4, <1>5, TwoChecks

(* tiles.rs finds the same fault in the row, or the same stream. *)
LEMMA PathsMeet ==
  ASSUME IsTable(t), t.kind = "binary", LaidOut, Supported(t), NEW r \in 1..t.rows
  PROVE  /\ RowFault(r) = FastRowFault(r)
         /\ FastRowFault(r) = "none" =>
              /\ RowJob(r).extent = Extent(t, r, 1) /\ RowJob(r).pixels = TilePixels(t, r)
              /\ RowJob(r).width = SampleBytes(t)
<1>1. /\ OnlyData(t) /\ t.codec \in Gzip /\ t.bitpix \in {8, 16, 32, 64}
      /\ t.scale = "none" /\ t.zero = "none"
  BY SupportedTable DEF IsTable
<1>2. /\ HasColumn(t, "data") /\ ~HasColumn(t, "gzip") /\ ~HasColumn(t, "raw")
      /\ ~HasColumn(t, "scale") /\ ~HasColumn(t, "zero")
      /\ (CHOOSE k \in Column(t, "data") : TRUE) = 1 /\ t.fields[1].type = "B"
  BY <1>1 DEF OnlyData, Roles, HasColumn
<1>3. PICK n, o : n = t.cells[r][1][1] /\ o = t.cells[r][1][2]
  OBVIOUS
<1>4. /\ n \in Nat /\ o \in Nat /\ Extent(t, r, 1) = <<o, n>>
      /\ DescriptorFault(t, "B", t.cells[r][1]) = "none"
  <2>1. t.cells[r][1] \in Nat \X Nat
    BY OnlyCell
  <2> QED
    BY <1>3, <2>1, OnlyCell
<1>5. FastRowFault(r) = IF n = 0 THEN "invalid" ELSE "none"
  BY <1>3, FastFault
<1>6. /\ Payload(t, r, "data") = <<o, n>>
      /\ Payload(t, r, "gzip") = <<0, 0>> /\ Payload(t, r, "raw") = <<0, 0>>
  BY <1>2, <1>4 DEF Payload
<1>7. /\ PayloadFault(t, r, "data") = "none" /\ PayloadFault(t, r, "gzip") = "none"
      /\ PayloadFault(t, r, "raw") = "none"
  BY <1>2, <1>4 DEF PayloadFault
<1>8. Active(r) = IF n = 0 THEN {} ELSE {"data"}
  BY <1>4, <1>6 DEF Active
<1>9. ~Quantized(t, r)
  BY <1>1 DEF Quantized
<1>10. DataFault(r) = "none"
  <2> DEFINE type == t.fields[CHOOSE i \in Column(t, "data") : TRUE].type
             width == IF Quantized(t, r) THEN 4 ELSE SampleBytes(t)
             float == t.bitpix < 0 /\ ~Quantized(t, r)
             scale == Scalar(t, r, "scale")
             zero == Scalar(t, r, "zero")
             dims == TileDims(t, r)
             c1 == ScalarFault(scale)
             c2 == ScalarFault(zero)
             c3 == Check((scale = "none") # (zero = "none"), "invalid")
             c4 == Check(/\ t.codec = "HCOMPRESS_1"
                         /\ Product(dims) # Product(SubSeq(dims, 1, Min({2, Len(dims)}))), "unsupported")
             c5 == Check(t.codec \in Rice \cup {"PLIO_1", "HCOMPRESS_1"} /\ float, "unsupported")
             c6 == Check(t.codec \in Rice /\ t.bytepix # width, "invalid")
             c7 == Check(t.codec \in Gzip \cup Rice \cup {"HCOMPRESS_1"} /\ type # "B", "invalid")
             c8 == Check(t.codec = "PLIO_1" /\ type # "I", "invalid")
             c9 == Check(t.codec = "NOCOMPRESS" /\ Payload(t, r, "data")[2] # Product(dims) * width,
                         "integrity")
  <2>1. DataFault(r) = FirstFault(<<c1, c2, c3, c4, c5, c6, c7, c8, c9>>)
    BY DEF DataFault
  <2>2. scale = "none" /\ zero = "none" /\ type = "B"
    BY <1>1, <1>2 DEF Scalar
  <2>3. t.codec \notin Rice \cup {"PLIO_1", "HCOMPRESS_1", "NOCOMPRESS"}
    BY <1>1 DEF Gzip, Rice
  <2>4. c1 = "none" /\ c2 = "none" /\ c3 = "none"
    <3> HIDE DEF scale, zero
    <3> QED
      BY <2>2 DEF ScalarFault, Check
  <2>5. c7 = "none"
    <3> HIDE DEF type
    <3> QED
      BY <2>2 DEF Check
  <2>6. c4 = "none" /\ c5 = "none" /\ c6 = "none" /\ c8 = "none" /\ c9 = "none"
    <3> HIDE DEF type, width, float, dims
    <3> QED
      BY <2>3 DEF Check
  <2> HIDE DEF c1, c2, c3, c4, c5, c6, c7, c8, c9
  <2> QED
    BY <2>1, <2>4, <2>5, <2>6, NineChecks
<1>11. RowFault(r) = IF n = 0 THEN "invalid" ELSE "none"
  <2> DEFINE c1 == PayloadFault(t, r, "data")
             c2 == PayloadFault(t, r, "gzip")
             c3 == PayloadFault(t, r, "raw")
             c4 == Check(Cardinality(Active(r)) # 1, "invalid")
             c5 == IF Active(r) = {"data"} THEN DataFault(r) ELSE "none"
             c6 == IF Active(r) = {"raw"}
                   THEN Check(\/ t.fields[CHOOSE i \in Column(t, "raw") : TRUE].type # RawType(t.bitpix)
                              \/ Payload(t, r, "raw")[2] # TilePixels(t, r) * SampleBytes(t), "integrity")
                   ELSE "none"
  <2>1. RowFault(r) = FirstFault(<<c1, c2, c3, c4, c5, c6>>)
    BY DEF RowFault
  <2>2. c1 = "none" /\ c2 = "none" /\ c3 = "none"
    BY <1>7
  <2>3. c4 = IF n = 0 THEN "invalid" ELSE "none"
    BY <1>8, FS_EmptySet, FS_Singleton DEF Check
  <2>4. c5 = "none"
    BY <1>10
  <2>5. c6 = "none"
    <3>1. Active(r) # {"raw"}
      BY <1>8
    <3> QED
      BY <3>1
  <2> HIDE DEF c1, c2, c3, c4, c5, c6
  <2> QED
    BY <2>1, <2>2, <2>3, <2>4, <2>5, SixChecks
<1>12. ASSUME n # 0
       PROVE  /\ RowJob(r).extent = Extent(t, r, 1) /\ RowJob(r).pixels = TilePixels(t, r)
              /\ RowJob(r).width = SampleBytes(t)
  <2>1. (CHOOSE x \in Active(r) : TRUE) = "data"
    BY <1>8, <1>12
  <2> QED
    BY <1>4, <1>6, <1>9, <2>1 DEF RowJob
<1> QED
  BY <1>5, <1>11, <1>12

(* What tiles.rs calls the table is what it finds in the first row that    *)
(* has something wrong with it.                                            *)
LEMMA ResultKind == ASSUME NEW r PROVE RowResult(r) # "valid"
BY RowKinds, DecoderKinds DEF RowResult

(* When it finds nothing wrong the table is valid. *)
LEMMA VerdictIs ==
  ASSUME IsTable(t), t.kind = "binary", Plain
  PROVE  /\ (\A r \in 1..t.rows : RowResult(r) = "none") => GeneralVerdict = "valid"
         /\ \A r \in 1..t.rows :
              (RowResult(r) # "none" /\ \A n \in 1..(r - 1) : RowResult(n) = "none")
                => GeneralVerdict = RowResult(r)
<1>1. t.fields \in Seq(BinaryColumns) /\ t.rows \in Nat
  BY SizesOfTable DEF IsTable
<1>2. PICK s : s = [r \in 1..t.rows |-> RowResult(r)]
  OBVIOUS
<1>3. PICK rows : rows = FirstFault(s)
  OBVIOUS
<1>4. GeneralVerdict = IF rows = "none" THEN "valid" ELSE rows
  <2> DEFINE parameters == IF ColumnsFault(t) # "none" THEN ColumnsFault(t) ELSE ParameterFault(t)
             fault == FirstFault(<<parameters, rows>>)
  <2>1. GeneralVerdict = IF fault = "none" THEN "valid" ELSE fault
    BY <1>2, <1>3 DEF GeneralVerdict, RowResult
  <2>2. parameters = "none"
    BY <1>1, ParametersPass
  <2>3. fault = rows
    <3> HIDE DEF parameters
    <3> QED
      BY <2>2, TwoChecks
  <2> QED
    BY <2>1, <2>3
<1>5. DOMAIN s = 1..t.rows /\ DOMAIN s \subseteq Nat /\ \A r \in 1..t.rows : s[r] = RowResult(r)
  BY <1>1, <1>2
<1>6. \/ rows = "none" /\ \A r \in 1..t.rows : s[r] = "none"
      \/ \E r \in 1..t.rows :
           rows = s[r] /\ s[r] # "none" /\ \A n \in 1..t.rows : n < r => s[n] = "none"
  BY <1>3, <1>5, FirstFailing
<1>7. ASSUME \A r \in 1..t.rows : RowResult(r) = "none" PROVE GeneralVerdict = "valid"
  BY <1>4, <1>5, <1>6, <1>7
<1>8. ASSUME NEW r \in 1..t.rows, RowResult(r) # "none",
             \A n \in 1..(r - 1) : RowResult(n) = "none"
      PROVE  GeneralVerdict = RowResult(r)
  <2>1. PICK q \in 1..t.rows :
          rows = s[q] /\ s[q] # "none" /\ \A n \in 1..t.rows : n < q => s[n] = "none"
    BY <1>5, <1>6, <1>8
  <2>2. ~(r < q)
    BY <1>5, <1>8, <2>1
  <2>3. ~(q < r)
    <3>1. ASSUME q < r PROVE q \in 1..(r - 1)
      BY <1>1, <3>1
    <3> QED
      BY <1>5, <1>8, <2>1, <3>1
  <2>4. q = r
    BY <1>1, <2>2, <2>3
  <2> QED
    BY <1>4, <1>5, <2>1, <2>4
<1> QED
  BY <1>7, <1>8

(* What becomes of a row is what gzip.rs makes of it. *)
LEMMA PlainRow ==
  ASSUME IsTable(t), t.kind = "binary", LaidOut, Supported(t), NEW r \in 1..t.rows
  PROVE  /\ FastRowFault(r) # "none" => RowResult(r) = FastRowFault(r)
         /\ FastRowFault(r) = "none" =>
              RowResult(r) =
                LET s == Stream(FastJob(r).extent)
                IN  IF s.kind = "gzip" THEN GzipFault(s, FastJob(r).pixels * FastJob(r).width)
                    ELSE "integrity"
<1>1. RowFault(r) = FastRowFault(r)
  BY PathsMeet
<1>2. ASSUME FastRowFault(r) = "none"
      PROVE  /\ RowJob(r).extent = FastJob(r).extent /\ RowJob(r).pixels = FastJob(r).pixels
             /\ RowJob(r).width = FastJob(r).width
  BY <1>2, PathsMeet DEF FastJob
<1> QED
  BY <1>1, <1>2 DEF RowResult

(* Where the table stands when there are rows. *)
LEMMA RowsType ==
  ASSUME IInv, phase \in AtRows
  PROVE  /\ IsTable(t) /\ t.kind = "binary" /\ t.fields \in Seq(BinaryColumns)
         /\ LaidOut /\ Prepared /\ SumsInv /\ t.rows \in Nat /\ row \in Nat \ {0}
         /\ SampleBytes(t) \in Nat /\ GeometryFault(t) = "none" /\ CountFault(t) = "none"
<1>1. t.kind = "binary" /\ IsTable(t) /\ t.fields \in Seq(BinaryColumns)
  BY BinaryTable DEF IInv, AtRows
<1>2. LaidOut /\ Prepared /\ SumsInv
  BY DEF IInv, ColumnsInv, TilesInv
<1>3. t.rows \in Nat /\ row \in Nat \ {0}
  BY <1>1, SizesOfTable DEF IInv, TypeInv
<1>4. GeometryFault(t) = "none" /\ CountFault(t) = "none"
  BY <1>2 DEF LaidOut
<1>5. SampleBytes(t) \in Nat
  BY <1>1, <1>4, GeometrySound
<1> QED
  BY <1>1, <1>2, <1>3, <1>4, <1>5

(* A row, in gzip.rs. *)
LEMMA TakeFastRowStep == ASSUME IInv, TakeFastRow PROVE IInv'
<1>1. phase = "fast" /\ verdict = "none" /\ row <= t.rows
  BY DEF TakeFastRow, At
<1>2. /\ IsTable(t) /\ t.kind = "binary" /\ t.fields \in Seq(BinaryColumns)
      /\ LaidOut /\ t.rows \in Nat /\ row \in Nat \ {0}
  BY <1>1, RowsType DEF AtRows
<1>3. row \in 1..t.rows /\ Supported(t)
  BY <1>1, <1>2 DEF IInv, PathInv
<1>4. CASE FastRowFault(row) # "none" /\ Judge(FastRowFault(row))
  <2>1. ASSUME Plain PROVE FastRowFault(row) = GeneralVerdict
    <3>1. \A r \in 1..(row - 1) : RowResult(r) = "none"
      BY <1>1, <2>1 DEF IInv, PathInv
    <3>2. RowResult(row) = FastRowFault(row)
      BY <1>2, <1>3, <1>4, PlainRow
    <3> QED
      BY <1>2, <1>3, <1>4, <2>1, <3>1, <3>2, VerdictIs
  <2>2. AsMeant(FastRowFault(row)) /\ FastRowFault(row) # "valid"
    BY <2>1, RowKinds DEF AsMeant
  <2> QED
    BY <1>1, <1>4, <2>2, JudgeKept
<1>5. CASE /\ FastRowFault(row) = "none" /\ job' = FastJob(row)
           /\ Go("decode") /\ UNCHANGED <<field, row, counters>>
  <2>1. /\ Takes(FastJob(row), "fast") /\ decoded' = decoded
    BY <1>1, <1>5 DEF Takes, Go, input, counters
  <2>2. ~FastJob(row).mask
    BY DEF FastJob
  <2>3. IsJob(FastJob(row))
    <3>1. t.cells[row][1][1] # 0
      BY <1>2, <1>3, <1>5, FastFault
    <3>2. InHeap(Extent(t, row, 1))
      BY <1>2, <1>3, <3>1, OnlyCell
    <3>3. SampleBytes(t) \in Nat
      BY <1>1, RowsType DEF AtRows
    <3>4. SampleBytes(t) <= SampleBytes(t)
      BY <3>3
    <3> QED
      BY <3>2, <3>3, <3>4 DEF IsJob, FastJob
  <2> QED
    BY <1>1, <1>5, <2>1, <2>2, <2>3, Taken
<1> QED
  BY <1>4, <1>5 DEF TakeFastRow, FastJob

(* What columns of tiles.rs established: the columns with the parts of a   *)
(* tile have descriptors in them.                                          *)
Payloads == {"data", "gzip", "raw", "mask"}

(* RoleFault has seen to that for each of them. *)
LEMMA RolesSound ==
  ASSUME NEW x, x.fields \in Seq(BinaryColumns), ColumnsFault(x) = "none",
         NEW i \in DOMAIN x.fields, x.fields[i].role \in Payloads
  PROVE  x.fields[i].form # "none"
<1>1. RoleFault(x, i) = "none"
  <2> DEFINE roles == [k \in DOMAIN x.fields |-> RoleFault(x, k)]
             c1 == FirstFault(roles)
             c2 == Check(HasColumn(x, "gzip") /\ HasColumn(x, "raw"), "invalid")
             c3 == Check(HasColumn(x, "scale") # HasColumn(x, "zero"), "invalid")
             c4 == Check(~HasColumn(x, "data"), "invalid")
  <2>1. ColumnsFault(x) = FirstFault(<<c1, c2, c3, c4>>)
    BY DEF ColumnsFault
  <2>2. c1 = "none"
    <3> HIDE DEF c1, c2, c3, c4
    <3> QED
      BY <2>1, FourChecks
  <2>3. DOMAIN roles \subseteq Nat /\ DOMAIN roles = DOMAIN x.fields
    OBVIOUS
  <2>4. \A k \in DOMAIN roles : roles[k] = "none"
    <3> HIDE DEF roles
    <3> QED
      BY <2>2, <2>3, FirstFailing
  <2> QED
    BY <2>4
<1> DEFINE f == x.fields[i]
           legal ==
             CASE f.role = "data" -> f.form # "none" /\ f.type \in {"B", "I", "J"}
               [] f.role \in {"gzip", "mask"} -> f.form # "none" /\ f.type = "B"
               [] f.role = "raw" -> f.form # "none" /\ f.type \in {"B", "I", "J", "K", "E", "D"}
               [] f.role \in {"scale", "zero"} -> f.form = "none" /\ f.type \in {"E", "D"}
               [] f.role = "blank" -> f.form = "none" /\ f.type = "J"
               [] OTHER -> TRUE
           again == \E k \in 1..(i - 1) : x.fields[k].role = f.role
           c1 == Check(f.repeat # 1 \/ again, "invalid")
           c2 == Check(f.scaled, "unsupported")
           c3 == Check(~legal, "invalid")
<1>2. f.role # "none"
  BY DEF Payloads
<1>3. RoleFault(x, i) = FirstFault(<<c1, c2, c3>>)
  BY <1>2 DEF RoleFault
<1>4. c3 = "none"
  <2> HIDE DEF c1, c2, c3
  <2> QED
    BY <1>1, <1>3, ThreeChecks
<1>5. legal
  <2> HIDE DEF legal
  <2> QED
    BY <1>4 DEF Check
<1>6. CASE f.role = "data"
  BY <1>5, <1>6
<1>7. CASE f.role \in {"gzip", "mask"}
  BY <1>5, <1>7
<1>8. CASE f.role = "raw"
  BY <1>5, <1>8
<1> QED
  BY <1>6, <1>7, <1>8 DEF Payloads

(* A payload whose descriptor has been read again lies in the heap. *)
LEMMA PayloadFits ==
  ASSUME IsTable(t), t.kind = "binary", LaidOut, ColumnsFault(t) = "none",
         NEW r \in 1..t.rows, NEW role \in Payloads,
         PayloadFault(t, r, role) = "none"
  PROVE  /\ Payload(t, r, role)[2] \in Nat
         /\ Payload(t, r, role)[2] > 0 => InHeap(Payload(t, r, role))
<1>1. CASE ~HasColumn(t, role)
  BY <1>1 DEF Payload
<1>2. CASE HasColumn(t, role)
  <2>1. PICK i : i = CHOOSE k \in Column(t, role) : TRUE
    OBVIOUS
  <2>2. i \in DOMAIN t.fields /\ t.fields[i].role = role
    BY <1>2, <2>1 DEF HasColumn, Column
  <2>3. t.fields \in Seq(BinaryColumns)
    BY DEF IsTable
  <2>4. t.fields[i].form # "none"
    BY <2>2, <2>3, RolesSound
  <2>5. FieldFault(t, i) = "none" /\ HeapFault(t) = "none"
    <3>1. i \in 1..Len(t.fields)
      BY <2>2, <2>3
    <3> QED
      BY <3>1 DEF LaidOut, ColumnsPass
  <2>6. PICK type : type = t.fields[i].type
    OBVIOUS
  <2>7. type \in KnownTypes
    BY <2>2, <2>5, <2>6, FieldSound
  <2>8. PICK cell : cell = t.cells[r][i]
    OBVIOUS
  <2>9. cell \in Int \X Int
    BY <2>2, <2>4, <2>8 DEF IsTable
  <2>10. DescriptorFault(t, type, cell) = "none"
    BY <1>2, <2>1, <2>6, <2>8 DEF PayloadFault
  <2>11. Payload(t, r, role) = <<cell[2], TypeSize(type, cell[1])>>
    BY <1>2, <2>1, <2>6, <2>8 DEF Payload, Extent
  <2>12. PICK n : n = TypeSize(type, cell[1])
    OBVIOUS
  <2>13. /\ n \in Nat
         /\ \/ n = 0
            \/ /\ HeapStart(t) + cell[2] >= TableSize(t)
               /\ HeapStart(t) + cell[2] + n <= UnitSize(t)
    BY <2>5, <2>7, <2>9, <2>10, <2>12, DescriptorSound
  <2>14. Payload(t, r, role)[1] = cell[2] /\ Payload(t, r, role)[2] = n
    BY <2>11, <2>12
  <2>15. n > 0 => /\ HeapStart(t) + cell[2] >= TableSize(t)
                  /\ HeapStart(t) + cell[2] + n <= UnitSize(t)
    BY <2>13
  <2> QED
    BY <2>13, <2>14, <2>15 DEF InHeap
<1> QED
  BY <1>1, <1>2

(* The stream of a row is one of its payloads. *)
LEMMA RowJobFits ==
  ASSUME IsTable(t), t.kind = "binary", LaidOut, ColumnsFault(t) = "none",
         row \in 1..t.rows, RowFault(row) = "none"
  PROVE  IsJob(RowJob(row)) /\ ~RowJob(row).mask
<1> DEFINE c1 == PayloadFault(t, row, "data")
           c2 == PayloadFault(t, row, "gzip")
           c3 == PayloadFault(t, row, "raw")
           c4 == Check(Cardinality(Active(row)) # 1, "invalid")
           c5 == IF Active(row) = {"data"} THEN DataFault(row) ELSE "none"
           c6 == IF Active(row) = {"raw"}
                 THEN Check(\/ t.fields[CHOOSE i \in Column(t, "raw") : TRUE].type # RawType(t.bitpix)
                            \/ Payload(t, row, "raw")[2] # TilePixels(t, row) * SampleBytes(t), "integrity")
                 ELSE "none"
<1>1. RowFault(row) = FirstFault(<<c1, c2, c3, c4, c5, c6>>)
  BY DEF RowFault
<1>2. c1 = "none" /\ c2 = "none" /\ c3 = "none" /\ c4 = "none"
  <2> HIDE DEF c1, c2, c3, c4, c5, c6
  <2> QED
    BY <1>1, SixChecks
<1>3. Active(row) # {}
  <2>1. Cardinality(Active(row)) = 1
    BY <1>2 DEF Check
  <2> QED
    BY <2>1, FS_EmptySet
<1>4. PICK role : role = CHOOSE x \in Active(row) : TRUE
  OBVIOUS
<1>5. role \in Active(row)
  BY <1>3, <1>4
<1>6. role \in {"data", "gzip", "raw"} /\ Payload(t, row, role)[2] > 0
  BY <1>5 DEF Active
<1>7. PayloadFault(t, row, role) = "none" /\ role \in Payloads
  BY <1>2, <1>6 DEF Payloads
<1>8. InHeap(Payload(t, row, role))
  BY <1>6, <1>7, PayloadFits
<1>9. SampleBytes(t) \in Nat /\ (t.bitpix < 0 => SampleBytes(t) >= 4)
  BY GeometrySound DEF LaidOut
<1>10. PICK width : width = IF role = "data" /\ Quantized(t, row) THEN 4 ELSE SampleBytes(t)
  OBVIOUS
<1>11. width \in Nat /\ width <= SampleBytes(t)
  <2>1. Quantized(t, row) => t.bitpix < 0
    BY DEF Quantized
  <2> QED
    BY <1>9, <1>10, <2>1
<1>12. /\ RowJob(row).extent = Payload(t, row, role) /\ RowJob(row).mask = FALSE
       /\ RowJob(row).pixels = TilePixels(t, row) /\ RowJob(row).width = width
  BY <1>4, <1>10 DEF RowJob
<1> QED
  BY <1>8, <1>11, <1>12 DEF IsJob

(* A row, in tiles.rs. *)
LEMMA TakeRowStep == ASSUME IInv, TakeRow PROVE IInv'
<1>1. phase = "row" /\ verdict = "none" /\ row <= t.rows
  BY DEF TakeRow, At
<1>2. /\ IsTable(t) /\ t.kind = "binary" /\ LaidOut /\ Prepared
      /\ t.rows \in Nat /\ row \in Nat \ {0}
  BY <1>1, RowsType DEF AtRows
<1>3. row \in 1..t.rows /\ ~Supported(t) /\ ColumnsFault(t) = "none"
  BY <1>1, <1>2 DEF IInv, PathInv, Prepared
<1>4. CASE RowFault(row) # "none" /\ Judge(RowFault(row))
  <2>1. AsMeant(RowFault(row)) /\ RowFault(row) # "valid"
    BY <1>1, RowKinds DEF AsMeant
  <2> QED
    BY <1>1, <1>4, <2>1, JudgeKept
<1>5. CASE /\ RowFault(row) = "none" /\ job' = RowJob(row)
           /\ Go("decode") /\ UNCHANGED <<field, row, counters>>
  <2>1. Takes(RowJob(row), "row") /\ decoded' = decoded
    BY <1>1, <1>5 DEF Takes, Go, input, counters
  <2>2. IsJob(RowJob(row)) /\ ~RowJob(row).mask
    BY <1>2, <1>3, <1>5, RowJobFits
  <2> QED
    BY <1>1, <1>3, <2>1, <2>2, Taken
<1> QED
  BY <1>4, <1>5 DEF TakeRow

(* The sums are numbers. *)
LEMMA SumsType ==
  ASSUME IInv, phase \in AtRows
  PROVE  /\ \A m \in BOOLEAN : PixelsOf(outputs, m) \in Nat
         /\ BytesOf(outputs) \in Nat /\ ImageBytes \in Nat
<1>1. IsList(outputs) /\ \A n \in DOMAIN outputs : IsOutput(outputs[n])
  BY DEF IInv, TypeInv
<1>2. PICK o : o = [job |-> [mask |-> TRUE, pixels |-> 0], count |-> 0]
  OBVIOUS
<1>3. IsOutput(o)
  BY <1>2 DEF IsOutput
<1>4. PICK z : z = Append(outputs, o)
  OBVIOUS
<1>5. (\A m \in BOOLEAN : PixelsOf(outputs, m) \in Nat) /\ BytesOf(outputs) \in Nat
  BY <1>1, <1>3, <1>4, OutputsGrow
<1>6. ImageBytes \in Nat
  <2>1. ImagePixels(t) \in Nat /\ SampleBytes(t) \in Nat
    BY RowsType, PixelsBefore
  <2> QED
    BY <2>1 DEF ImageBytes
<1> QED
  BY <1>5, <1>6

(* Outside a mask, the bytes admitted are those of the image and of the    *)
(* masks that are done.                                                    *)
LEMMA Admitted ==
  ASSUME IInv, phase \in AtRows, ~(phase = "decode" /\ job.mask)
  PROVE  decoded = ImageBytes + PixelsOf(outputs, TRUE)
<1>1. PICK i \in Nat, p \in Nat : i = ImageBytes /\ p = PixelsOf(outputs, TRUE)
  BY SumsType
<1>2. decoded = i + p + (IF phase = "decode" /\ job.mask THEN job.pixels ELSE 0)
  BY <1>1 DEF IInv, TilesInv, SumsInv
<1>3. decoded = i + p + 0
  BY <1>2
<1>4. i + p + 0 = i + p
  OBVIOUS
<1> QED
  BY <1>1, <1>3, <1>4

(* A null mask, or none: its pixels are admitted before it is decoded. *)
LEMMA TakeMaskStep == ASSUME IInv, TakeMask PROVE IInv'
<1>1. phase = "mask" /\ verdict = "none"
  BY DEF TakeMask, At
<1>2. /\ IsTable(t) /\ t.kind = "binary" /\ LaidOut /\ Prepared /\ SumsInv
      /\ t.rows \in Nat /\ row \in Nat \ {0} /\ GeometryFault(t) = "none" /\ CountFault(t) = "none"
  BY <1>1, RowsType DEF AtRows
<1>3. row \in 1..t.rows /\ ~Supported(t) /\ ColumnsFault(t) = "none" /\ ~Plain
  BY <1>1, <1>2 DEF IInv, PathInv, Prepared, SumsInv, Plain
<1>4. PICK extent, pixels : extent = Payload(t, row, "mask") /\ pixels = TilePixels(t, row)
  OBVIOUS
<1> DEFINE c1 == PayloadFault(t, row, "mask")
           c2 == Check(extent[2] > 0 /\ decoded + pixels > MaxDecoded, "limit")
           c3 == Check(extent[2] > 0 /\ t.maskcmp \notin Gzip \cup Rice \cup {"PLIO_1"},
                       "unsupported")
           fault == FirstFault(<<c1, c2, c3>>)
           next == [codec |-> t.maskcmp, extent |-> extent, mask |-> TRUE,
                    pixels |-> pixels, width |-> 1, block |-> 32]
<1>5. \/ fault # "none" /\ Judge(fault)
      \/ /\ fault = "none" /\ extent[2] = 0
         /\ row' = row + 1
         /\ Go("row") /\ UNCHANGED <<field, counters, job>>
      \/ /\ fault = "none" /\ extent[2] > 0
         /\ decoded' = decoded + pixels
         /\ job' = next
         /\ Go("decode") /\ UNCHANGED <<field, row, structures, undecoded>>
  BY <1>4 DEF TakeMask
<1>6. /\ fault # "valid"
      /\ fault = "none" => c1 = "none" /\ c2 = "none"
  <2>1. c1 # "valid" /\ c2 # "valid" /\ c3 # "valid"
    BY DescriptorKind, CheckKind DEF PayloadFault
  <2> HIDE DEF c1, c2, c3
  <2> QED
    BY <2>1, ThreeChecks
<1>7. /\ pixels \in Nat /\ TilesBefore(row + 1) = TilesBefore(row) + pixels
      /\ TilesBefore(row) \in Nat /\ TilesBefore(row + 1) \in Nat
  <2>1. row \in 1..(t.rows + 1) /\ row + 1 \in 1..(t.rows + 1)
    BY <1>2, <1>3
  <2> QED
    BY <1>2, <1>3, <1>4, <2>1, PixelsBefore
<1>8. /\ decoded \in Nat /\ decoded <= MaxDecoded /\ MaxDecoded \in Nat
      /\ PixelsOf(outputs, TRUE) <= TilesBefore(row) /\ PixelsOf(outputs, TRUE) \in Nat
      /\ ImageBytes \in Nat
  BY <1>1, <1>2, Limits, SumsType DEF IInv, TypeInv, TilesInv, SumsInv, AtRows
<1>9. decoded = ImageBytes + PixelsOf(outputs, TRUE)
  BY <1>1, Admitted DEF AtRows
<1>10. /\ AtMask
       /\ PixelsOf(outputs, FALSE) = TilesBefore(row + 1)
       /\ BytesOf(outputs)
            <= PixelsOf(outputs, FALSE) * SampleBytes(t) + PixelsOf(outputs, TRUE)
  <2>1. AtMask /\ phase # "decode"
    BY <1>1 DEF AtMask
  <2> QED
    BY <1>2, <2>1 DEF IInv, TypeInv, TilesInv, SumsInv
<1>11. CASE fault # "none" /\ Judge(fault)
  <2>1. AsMeant(fault)
    BY <1>1 DEF AsMeant
  <2> HIDE DEF fault
  <2> QED
    BY <1>1, <1>6, <1>11, <2>1, JudgeKept
<1>12. CASE /\ fault = "none" /\ extent[2] = 0
            /\ row' = row + 1
            /\ Go("row") /\ UNCHANGED <<field, counters, job>>
  <2>1. /\ phase' = "row" /\ row' = row + 1
        /\ UNCHANGED <<t, level, verdict, outputs, field, decoded, job>>
    BY <1>12 DEF Go, input, counters
  <2> HIDE DEF fault
  <2>2. TypeInv'
    BY <1>1, <1>2, <2>1 DEF IInv, TypeInv, Phases
  <2>3. ColumnsInv'
    BY <1>1, <2>1, LaidOutStays DEF IInv, ColumnsInv, AtRows
  <2>4. JobInv'
    BY <2>1 DEF JobInv
  <2>5. TilesInv'
    <3>1. ~AtMask' /\ phase' \in AtRows
      BY <2>1 DEF AtMask, AtRows
    <3>2. \A m : PixelsOf(outputs, m)' = PixelsOf(outputs, m)
      BY <2>1 DEF PixelsOf
    <3>3. BytesOf(outputs)' = BytesOf(outputs)
      BY <2>1 DEF BytesOf
    <3>5. PixelsOf(outputs, TRUE) <= TilesBefore(row + 1)
      <4>1. PICK a, b, c :
              a = PixelsOf(outputs, TRUE) /\ b = TilesBefore(row) /\ c = TilesBefore(row + 1)
        OBVIOUS
      <4>2. a \in Nat /\ b \in Nat /\ c \in Nat /\ a <= b /\ c = b + pixels
        BY <1>7, <1>8, <4>1
      <4>3. a <= c
        BY <1>7, <4>2
      <4> QED
        BY <4>1, <4>3
    <3>6. TilesBefore(row)' = TilesBefore(row + 1)
      BY <2>1 DEF TilesBefore
    <3>7. (row <= t.rows + 1)' /\ (phase \in {"mask", "decode"} => row <= t.rows)'
      BY <1>2, <1>3, <2>1
    <3>8. (verdict = "valid" => phase \in {"fast", "row"} /\ row = t.rows + 1)'
      BY <1>1, <2>1
    <3>9. (PixelsOf(outputs, FALSE) = TilesBefore(IF AtMask THEN row + 1 ELSE row))'
      <4>1. TilesBefore(IF AtMask THEN row + 1 ELSE row)' = TilesBefore(row)'
        BY <3>1
      <4> QED
        BY <1>10, <3>2, <3>6, <4>1
    <3>10. (PixelsOf(outputs, TRUE) <= TilesBefore(row))'
      BY <3>2, <3>5, <3>6
    <3>11. (BytesOf(outputs)
              <= PixelsOf(outputs, FALSE) * SampleBytes(t) + PixelsOf(outputs, TRUE))'
      BY <1>10, <2>1, <3>2, <3>3
    <3>12. (decoded = ImageBytes + PixelsOf(outputs, TRUE)
                        + (IF phase = "decode" /\ job.mask THEN job.pixels ELSE 0))'
      <4>1. (IF phase = "decode" /\ job.mask THEN job.pixels ELSE 0)' = 0
        BY <2>1
      <4>2. decoded = ImageBytes + PixelsOf(outputs, TRUE) + 0
        <5>1. PICK i, p : i = ImageBytes /\ p = PixelsOf(outputs, TRUE)
          OBVIOUS
        <5>2. i \in Nat /\ p \in Nat /\ decoded = i + p
          BY <1>8, <1>9, <5>1
        <5>3. decoded = i + p + 0
          BY <5>2
        <5> QED
          BY <5>1, <5>3
      <4>3. ImageBytes' = ImageBytes
        BY <2>1, LaidOutStays
      <4> QED
        BY <2>1, <3>2, <4>1, <4>2, <4>3, Zenon
    <3>13. SumsInv'
      BY <3>7, <3>8, <3>9, <3>10, <3>11, <3>12, Zenon DEF SumsInv
    <3>14. (phase # "dispatch")' /\ (decoded <= MaxDecoded)'
      BY <1>8, <2>1
    <3> QED
      BY <3>1, <3>13, <3>14 DEF TilesInv, AtRows
  <2>6. PathInv'
    BY <1>3, <2>1, LaidOutStays DEF PathInv
  <2> QED
    BY <2>2, <2>3, <2>4, <2>5, <2>6 DEF IInv
<1>13. CASE /\ fault = "none" /\ extent[2] > 0
            /\ decoded' = decoded + pixels
            /\ job' = next
            /\ Go("decode") /\ UNCHANGED <<field, row, structures, undecoded>>
  <2>1. /\ phase' = "decode" /\ decoded' = decoded + pixels /\ job' = next
        /\ UNCHANGED <<t, level, verdict, outputs, field, row>>
    BY <1>13 DEF Go, input
  <2>2. c1 = "none" /\ c2 = "none"
    BY <1>6, <1>13
  <2> HIDE DEF fault
  <2>3. decoded + pixels <= MaxDecoded
    <3>1. ~(decoded + pixels > MaxDecoded)
      BY <1>13, <2>2 DEF Check
    <3> QED
      BY <1>7, <1>8, <3>1, Limits
  <2>4. InHeap(extent)
    BY <1>2, <1>3, <1>4, <1>13, <2>2, PayloadFits DEF Payloads
  <2>5. job'.mask = TRUE /\ job'.pixels = pixels /\ job'.width = 1 /\ job'.extent = extent
    BY <2>1
  <2> HIDE DEF next
  <2>6. TypeInv'
    <3>1. decoded' \in Nat
      BY <1>7, <1>8, <2>1
    <3> QED
      BY <1>1, <2>1, <3>1 DEF IInv, TypeInv, Phases
  <2>7. ColumnsInv'
    BY <1>1, <2>1, LaidOutStays DEF IInv, ColumnsInv, AtRows
  <2>8. JobInv'
    <3>1. InHeap(job.extent)'
      BY <2>1, <2>4, <2>5, LaidOutStays
    <3>2. (job.pixels = TilePixels(t, row))'
      BY <1>4, <2>1, <2>5
    <3>3. (job.mask \in BOOLEAN)' /\ (job.width \in Nat)'
      <4>1. TRUE \in BOOLEAN /\ 1 \in Nat
        OBVIOUS
      <4> QED
        BY <2>5, <4>1, Zenon
    <3>4. (job.width <= IF job.mask THEN 1 ELSE SampleBytes(t))'
      BY <2>5
    <3> QED
      BY <3>1, <3>2, <3>3, <3>4, Zenon DEF JobInv, IsJob
  <2>9. TilesInv'
    <3>1. AtMask' /\ phase' \in AtRows
      BY <2>1, <2>5 DEF AtMask, AtRows
    <3>2. \A m : PixelsOf(outputs, m)' = PixelsOf(outputs, m)
      BY <2>1 DEF PixelsOf
    <3>3. BytesOf(outputs)' = BytesOf(outputs)
      BY <2>1 DEF BytesOf
    <3>4. TilesBefore(row)' = TilesBefore(row) /\ TilesBefore(row + 1)' = TilesBefore(row + 1)
      BY <2>1 DEF TilesBefore
    <3>5. (row <= t.rows + 1)' /\ (phase \in {"mask", "decode"} => row <= t.rows)'
      BY <1>2, <1>3, <2>1
    <3>6. (verdict = "valid" => phase \in {"fast", "row"} /\ row = t.rows + 1)'
      BY <1>1, <2>1
    <3>7. (PixelsOf(outputs, FALSE) = TilesBefore(IF AtMask THEN row + 1 ELSE row))'
      <4>1. TilesBefore(IF AtMask THEN row + 1 ELSE row)' = TilesBefore(row + 1)'
        BY <3>1
      <4> QED
        BY <1>10, <3>2, <3>4, <4>1
    <3>8. (PixelsOf(outputs, TRUE) <= TilesBefore(row))'
      BY <1>8, <3>2, <3>4
    <3>9. (BytesOf(outputs)
              <= PixelsOf(outputs, FALSE) * SampleBytes(t) + PixelsOf(outputs, TRUE))'
      BY <1>10, <2>1, <3>2, <3>3
    <3>10. (decoded = ImageBytes + PixelsOf(outputs, TRUE)
                        + (IF phase = "decode" /\ job.mask THEN job.pixels ELSE 0))'
      <4>1. (IF phase = "decode" /\ job.mask THEN job.pixels ELSE 0)' = pixels
        BY <2>1, <2>5
      <4>2. decoded = ImageBytes + PixelsOf(outputs, TRUE)
        BY <1>9
      <4>3. ImageBytes' = ImageBytes
        BY <2>1, LaidOutStays
      <4> QED
        BY <2>1, <3>2, <4>1, <4>2, <4>3
    <3>11. SumsInv'
      BY <3>5, <3>6, <3>7, <3>8, <3>9, <3>10, Zenon DEF SumsInv
    <3>12. (phase # "dispatch")' /\ (decoded <= MaxDecoded)'
      BY <2>1, <2>3
    <3> QED
      BY <3>1, <3>11, <3>12 DEF TilesInv, AtRows
  <2>10. PathInv'
    BY <1>3, <2>1, LaidOutStays DEF PathInv
  <2> QED
    BY <2>6, <2>7, <2>8, <2>9, <2>10 DEF IInv
<1> QED
  BY <1>5, <1>11, <1>12, <1>13

(* The bytes of a stream: a sample of each pixel of a tile, a byte of each *)
(* pixel of a mask.                                                        *)
LEMMA BytesNext ==
  ASSUME NEW a \in Nat, NEW b \in Nat, NEW n \in Nat, NEW p \in Nat, NEW w \in Nat, NEW s \in Nat,
         n <= a * s + b
  PROVE  /\ w <= s => n + p * w <= (a + p) * s + b
         /\ w <= 1 => n + p * w <= a * s + (b + p)
<1>1. PICK q, u : q = p * w /\ u = a * s
  OBVIOUS
<1>2. q \in Nat /\ u \in Nat /\ n <= u + b
  BY <1>1
<1>3. ASSUME w <= s PROVE n + q <= (a + p) * s + b
  <2>1. PICK d \in Nat : s = w + d
    BY <1>3
  <2>2. PICK v : v = p * s
    OBVIOUS
  <2>3. v = p * w + p * d /\ p * d \in Nat /\ v \in Nat
    BY <2>1, <2>2
  <2>4. q <= v
    BY <1>1, <1>2, <2>3
  <2>5. (a + p) * s = u + v
    BY <1>1, <2>2
  <2> HIDE <1>1
  <2> QED
    BY <1>2, <2>3, <2>4, <2>5
<1>4. ASSUME w <= 1 PROVE n + q <= u + (b + p)
  <2>1. w = 0 \/ w = 1
    BY <1>4
  <2>2. q = 0 \/ q = p
    BY <1>1, <2>1
  <2> QED
    BY <1>2, <2>2
<1> QED
  BY <1>1, <1>3, <1>4

(* Where the sums stand when the stream at work is done. *)
StreamsStand(z) ==
  /\ IsList(z) /\ \A n \in DOMAIN z : IsOutput(z[n])
  /\ PixelsOf(z, FALSE) = TilesBefore(row + 1)
  /\ PixelsOf(z, TRUE) <= TilesBefore(row + 1)
  /\ ~job.mask => PixelsOf(z, TRUE) <= TilesBefore(row)
  /\ BytesOf(z) <= PixelsOf(z, FALSE) * SampleBytes(t) + PixelsOf(z, TRUE)
  /\ decoded = ImageBytes + PixelsOf(z, TRUE)

(* There they stand, whether it was the stream of a tile or of a mask. *)
LEMMA StreamDone ==
  ASSUME IInv, phase = "decode", NEW o, o.job = job, o.count = job.pixels * job.width,
         NEW z, z = Append(outputs, o)
  PROVE  StreamsStand(z) /\ row \in 1..t.rows
<1>1. /\ IsTable(t) /\ t.kind = "binary" /\ LaidOut /\ SumsInv /\ t.rows \in Nat
      /\ row \in Nat \ {0} /\ SampleBytes(t) \in Nat
      /\ GeometryFault(t) = "none" /\ CountFault(t) = "none"
  BY RowsType DEF AtRows
<1>2. row \in 1..t.rows
  BY <1>1 DEF SumsInv
<1>3. PICK p, w, m, s : p = job.pixels /\ w = job.width /\ m = job.mask /\ s = SampleBytes(t)
  OBVIOUS
<1>4. /\ m \in BOOLEAN /\ p = TilePixels(t, row) /\ w \in Nat
      /\ w <= IF m THEN 1 ELSE s
  BY <1>3 DEF IInv, JobInv, IsJob
<1>5. PICK x, y : x = TilesBefore(row) /\ y = TilesBefore(row + 1)
  OBVIOUS
<1>6. p \in Nat /\ y = x + p /\ x \in Nat /\ y \in Nat
  <2>1. row \in 1..(t.rows + 1) /\ row + 1 \in 1..(t.rows + 1)
    BY <1>1, <1>2
  <2> QED
    BY <1>1, <1>2, <1>4, <1>5, <2>1, PixelsBefore
<1>7. IsOutput(o)
  <2>1. p * w \in Nat
    BY <1>4, <1>6
  <2> QED
    BY <1>3, <1>4, <1>6, <2>1 DEF IsOutput
<1>8. PICK a, b, n, i : /\ a = PixelsOf(outputs, FALSE) /\ b = PixelsOf(outputs, TRUE)
                        /\ n = BytesOf(outputs) /\ i = ImageBytes
  OBVIOUS
<1>9. a \in Nat /\ b \in Nat /\ n \in Nat /\ i \in Nat
  <2>1. FALSE \in BOOLEAN /\ TRUE \in BOOLEAN
    OBVIOUS
  <2> QED
    BY <1>8, <2>1, SumsType DEF AtRows
<1>10. /\ a = IF m THEN y ELSE x
       /\ b <= x /\ n <= a * s + b /\ decoded = i + b + (IF m THEN p ELSE 0)
  <2>1. AtMask <=> m
    BY <1>3 DEF AtMask
  <2>2. a = IF m THEN y ELSE x
    BY <1>1, <1>5, <1>8, <2>1 DEF SumsInv
  <2>3. b <= x
    BY <1>1, <1>5, <1>8 DEF SumsInv
  <2>4. n <= a * s + b
    BY <1>1, <1>3, <1>8 DEF SumsInv
  <2>5. decoded = i + b + (IF m THEN p ELSE 0)
    BY <1>1, <1>3, <1>8 DEF SumsInv
  <2> QED
    BY <2>2, <2>3, <2>4, <2>5
<1>11. PICK a2, b2, n2 : a2 = PixelsOf(z, FALSE) /\ b2 = PixelsOf(z, TRUE) /\ n2 = BytesOf(z)
  OBVIOUS
<1>12. /\ IsList(z) /\ \A k \in DOMAIN z : IsOutput(z[k])
       /\ a2 = a + (IF m = FALSE THEN p ELSE 0) /\ b2 = b + (IF m = TRUE THEN p ELSE 0)
       /\ n2 = n + o.count
  <2>1. IsList(outputs) /\ \A k \in DOMAIN outputs : IsOutput(outputs[k])
    BY DEF IInv, TypeInv
  <2>2. /\ IsList(z) /\ \A k \in DOMAIN z : IsOutput(z[k])
        /\ \A v \in BOOLEAN :
             PixelsOf(z, v) = PixelsOf(outputs, v) + (IF o.job.mask = v THEN o.job.pixels ELSE 0)
        /\ BytesOf(z) = BytesOf(outputs) + o.count
    BY <1>7, <2>1, OutputsGrow
  <2>3. o.job.mask = m /\ o.job.pixels = p
    BY <1>3
  <2>4. FALSE \in BOOLEAN /\ TRUE \in BOOLEAN
    OBVIOUS
  <2>5. a2 = a + (IF m = FALSE THEN p ELSE 0)
    BY <1>8, <1>11, <2>2, <2>3, <2>4, Zenon
  <2>6. b2 = b + (IF m = TRUE THEN p ELSE 0)
    BY <1>8, <1>11, <2>2, <2>3, <2>4, Zenon
  <2> QED
    BY <1>8, <1>11, <2>2, <2>5, <2>6
<1>13. n2 = n + p * w
  BY <1>3, <1>12
<1>14. CASE m
  <2>1. m = TRUE /\ m # FALSE
    BY <1>4, <1>14
  <2>2. a2 = a /\ b2 = b + p /\ a = y /\ decoded = i + b + p /\ w <= 1
    BY <1>4, <1>6, <1>9, <1>10, <1>12, <2>1
  <2>3. n2 <= a * s + (b + p)
    BY <1>1, <1>3, <1>4, <1>6, <1>9, <1>10, <1>13, <2>2, BytesNext
  <2>4. b2 <= y /\ decoded = i + b2
    BY <1>6, <1>9, <1>10, <2>2
  <2> QED
    BY <1>2, <1>3, <1>5, <1>8, <1>11, <1>12, <1>14, <2>2, <2>3, <2>4, Zenon DEF StreamsStand
<1>15. CASE ~m
  <2>1. m = FALSE /\ m # TRUE
    BY <1>4, <1>15
  <2>2. a2 = a + p /\ b2 = b /\ a = x /\ decoded = i + b /\ w <= s
    BY <1>4, <1>6, <1>9, <1>10, <1>12, <2>1
  <2>3. n2 <= (a + p) * s + b
    BY <1>1, <1>3, <1>4, <1>6, <1>9, <1>10, <1>13, <2>2, BytesNext
  <2>4. a2 = y /\ b2 <= x /\ b2 <= y /\ decoded = i + b2
    BY <1>6, <1>9, <1>10, <2>2
  <2> QED
    BY <1>2, <1>3, <1>5, <1>8, <1>11, <1>12, <1>15, <2>2, <2>3, <2>4, Zenon DEF StreamsStand
<1> QED
  BY <1>4, <1>14, <1>15

(* The sums after a step, from what they are of the lists and the row that *)
(* the step leaves.                                                        *)
LEMMA StreamsStandNext ==
  ASSUME NEW z, StreamsStand(z), outputs' = z, t' = t, decoded' = decoded
  PROVE  /\ IsList(outputs)' /\ (\A n \in DOMAIN outputs : IsOutput(outputs[n]))'
         /\ PixelsOf(outputs, FALSE)' = TilesBefore(row + 1)
         /\ PixelsOf(outputs, TRUE)' <= TilesBefore(row + 1)
         /\ ~job.mask => PixelsOf(outputs, TRUE)' <= TilesBefore(row)
         /\ (BytesOf(outputs)
               <= PixelsOf(outputs, FALSE) * SampleBytes(t) + PixelsOf(outputs, TRUE))'
         /\ (decoded = ImageBytes + PixelsOf(outputs, TRUE))'
<1>1. /\ PixelsOf(outputs, FALSE)' = PixelsOf(z, FALSE)
      /\ PixelsOf(outputs, TRUE)' = PixelsOf(z, TRUE) /\ BytesOf(outputs)' = BytesOf(z)
      /\ IsList(outputs)' = IsList(z)
  BY DEF PixelsOf, BytesOf, IsList
<1>2. ImageBytes' = ImageBytes /\ SampleBytes(t)' = SampleBytes(t)
  BY LaidOutStays
<1>3. (\A n \in DOMAIN outputs : IsOutput(outputs[n]))'
  BY DEF StreamsStand
<1>4. /\ PixelsOf(z, FALSE) = TilesBefore(row + 1)
      /\ PixelsOf(z, TRUE) <= TilesBefore(row + 1)
      /\ ~job.mask => PixelsOf(z, TRUE) <= TilesBefore(row)
      /\ IsList(z)
  BY DEF StreamsStand
<1>5. decoded = ImageBytes + PixelsOf(z, TRUE)
  BY DEF StreamsStand
<1>6. BytesOf(z) <= PixelsOf(z, FALSE) * SampleBytes(t) + PixelsOf(z, TRUE)
  BY DEF StreamsStand
<1>7. (BytesOf(outputs)
         <= PixelsOf(outputs, FALSE) * SampleBytes(t) + PixelsOf(outputs, TRUE))'
  BY <1>1, <1>2, <1>6, Zenon
<1>8. (decoded = ImageBytes + PixelsOf(outputs, TRUE))'
  BY <1>1, <1>2, <1>5, Zenon
<1> QED
  BY <1>1, <1>3, <1>4, <1>7, <1>8

(* Complete, after a stream of the length that was expected. *)
LEMMA CompleteKept ==
  ASSUME IInv, verdict = "none", phase = "decode", NEW count, NEW samples,
         Complete(count, samples), count = job.pixels * job.width,
         Plain => RowResult(row) = "none"
  PROVE  IInv'
<1>1. /\ IsTable(t) /\ t.kind = "binary" /\ SumsInv /\ t.rows \in Nat /\ row \in Nat \ {0}
  BY RowsType DEF AtRows
<1>2. PICK o : o = [job |-> job, count |-> count, samples |-> samples]
  OBVIOUS
<1>3. PICK z : z = Append(outputs, o)
  OBVIOUS
<1>4. /\ outputs' = z /\ job' = NoJob
      /\ UNCHANGED <<t, level, verdict, field, decoded>>
  BY <1>2, <1>3 DEF Complete, input, counters
<1>5. StreamsStand(z) /\ row \in 1..t.rows
  <2>1. o.job = job /\ o.count = job.pixels * job.width
    BY <1>2
  <2> QED
    BY <1>3, <2>1, StreamDone
<1>6. \/ ~job.mask /\ ~Supported(t) /\ phase' = "mask" /\ row' = row
      \/ /\ phase' = IF Supported(t) THEN "fast" ELSE "row"
         /\ row' = row + 1
  BY DEF Complete
<1>7. phase' \in {"fast", "row", "mask"} /\ phase' # "decode" /\ row' \in Nat \ {0}
  BY <1>1, <1>6
<1>8. TypeInv'
  <2>1. IsList(outputs)' /\ (\A n \in DOMAIN outputs : IsOutput(outputs[n]))'
    BY <1>4, <1>5, StreamsStandNext
  <2> QED
    BY <1>4, <1>7, <2>1 DEF IInv, TypeInv, Phases
<1>9. ColumnsInv'
  BY <1>4, <1>7, LaidOutStays DEF IInv, ColumnsInv, AtRows
<1>10. JobInv'
  BY <1>7 DEF JobInv
<1>11. TilesInv'
  <2>1. (phase \in AtRows)' /\ (phase # "dispatch")' /\ (decoded <= MaxDecoded)'
    BY <1>4, <1>7 DEF IInv, TilesInv, AtRows
  <2>2. (verdict = "valid" => phase \in {"fast", "row"} /\ row = t.rows + 1)'
    BY <1>4
  <2>3. (row <= t.rows + 1)' /\ (phase \in {"mask", "decode"} => row <= t.rows)'
    BY <1>1, <1>4, <1>5, <1>6, <1>7
  <2>4. TilesBefore(IF AtMask THEN row + 1 ELSE row)' = TilesBefore(row + 1)
    <3>1. CASE phase' = "mask" /\ row' = row
      <4>1. AtMask'
        BY <3>1 DEF AtMask
      <4> QED
        BY <1>4, <3>1, <4>1 DEF TilesBefore
    <3>2. CASE phase' # "mask" /\ row' = row + 1
      <4>1. ~AtMask'
        BY <1>7, <3>2 DEF AtMask
      <4> QED
        BY <1>4, <3>2, <4>1 DEF TilesBefore
    <3> QED
      BY <1>6, <3>1, <3>2
  <2>5. (PixelsOf(outputs, FALSE) = TilesBefore(IF AtMask THEN row + 1 ELSE row))'
    <3>1. PixelsOf(outputs, FALSE)' = TilesBefore(row + 1)
      BY <1>4, <1>5, StreamsStandNext
    <3> QED
      BY <2>4, <3>1, Zenon
  <2>6. (PixelsOf(outputs, TRUE) <= TilesBefore(row))'
    <3>1. /\ PixelsOf(outputs, TRUE)' <= TilesBefore(row + 1)
          /\ ~job.mask => PixelsOf(outputs, TRUE)' <= TilesBefore(row)
      BY <1>4, <1>5, StreamsStandNext
    <3>2. CASE ~job.mask /\ row' = row
      <4>1. TilesBefore(row)' = TilesBefore(row)
        BY <1>4, <3>2 DEF TilesBefore
      <4> QED
        BY <3>1, <3>2, <4>1, Zenon
    <3>3. CASE row' = row + 1
      <4>1. TilesBefore(row)' = TilesBefore(row + 1)
        BY <1>4, <3>3 DEF TilesBefore
      <4> QED
        BY <3>1, <4>1, Zenon
    <3> QED
      BY <1>6, <3>2, <3>3
  <2>7. (BytesOf(outputs)
           <= PixelsOf(outputs, FALSE) * SampleBytes(t) + PixelsOf(outputs, TRUE))'
    BY <1>4, <1>5, StreamsStandNext
  <2>8. (decoded = ImageBytes + PixelsOf(outputs, TRUE)
                     + (IF phase = "decode" /\ job.mask THEN job.pixels ELSE 0))'
    <3>1. (decoded = ImageBytes + PixelsOf(outputs, TRUE))'
      BY <1>4, <1>5, StreamsStandNext
    <3>2. (IF phase = "decode" /\ job.mask THEN job.pixels ELSE 0)' = 0
      BY <1>7
    <3>3. PICK d : d = decoded'
      OBVIOUS
    <3>4. d \in Nat /\ d = d + 0
      BY <1>4, <3>3 DEF IInv, TypeInv
    <3> QED
      BY <3>1, <3>2, <3>3, <3>4, Zenon
  <2>9. SumsInv'
    BY <2>2, <2>3, <2>5, <2>6, <2>7, <2>8, Zenon DEF SumsInv
  <2> QED
    BY <2>1, <2>9, Zenon DEF TilesInv
<1>12. PathInv'
  <2>1. phase' = "fast" => Supported(t)
    BY <1>6
  <2>2. phase' \in {"row", "mask"} => ~Supported(t)
    BY <1>6
  <2>3. ASSUME phase' = "fast", Plain
        PROVE  \A r \in 1..(row' - 1) : RowResult(r) = "none"
    <3>1. \A r \in 1..(row - 1) : RowResult(r) = "none"
      BY <2>3 DEF IInv, PathInv
    <3>2. row' = row + 1
      BY <1>6, <2>3
    <3>3. \A r \in 1..(row' - 1) : r \in 1..(row - 1) \/ r = row
      BY <1>1, <3>2
    <3> QED
      BY <2>3, <3>1, <3>3
  <2>4. verdict' = "none"
    BY <1>4
  <2>5. Supported(t)' = Supported(t) /\ Plain' = Plain
    BY <1>4, LaidOutStays
  <2>6. \A r : RowResult(r)' = RowResult(r)
    BY <1>4, RowsStay
  <2>7. ((phase \in {"fast", "decode"} /\ Plain) =>
           /\ \A r \in 1..(row - 1) : RowResult(r) = "none"
           /\ verdict # "none" => verdict = GeneralVerdict)'
    BY <1>7, <2>3, <2>4, <2>5, <2>6
  <2>8. (phase = "fast" => Supported(t))' /\ (phase \in {"row", "mask"} => ~Supported(t))'
    BY <2>1, <2>2, <2>5
  <2>9. ((phase = "decode" /\ Supported(t)) => job = FastJob(row) /\ FastRowFault(row) = "none")'
    BY <1>7
  <2> QED
    BY <2>7, <2>8, <2>9, Zenon DEF PathInv
<1> QED
  BY <1>8, <1>9, <1>10, <1>11, <1>12 DEF IInv

(* GZIP, HCOMPRESS and plain bytes. *)
LEMMA DecodeWholeStep == ASSUME IInv, DecodeWhole PROVE IInv'
<1>1. phase = "decode" /\ verdict = "none"
  BY DEF DecodeWhole, At
<1>2. /\ IsTable(t) /\ t.kind = "binary" /\ t.fields \in Seq(BinaryColumns)
      /\ LaidOut /\ SumsInv /\ t.rows \in Nat /\ row \in Nat \ {0}
  BY <1>1, RowsType DEF AtRows
<1>3. row \in 1..t.rows
  BY <1>1, <1>2 DEF SumsInv
<1>4. PICK s, expected : s = Stream(job.extent) /\ expected = job.pixels * job.width
  OBVIOUS
<1>5. PICK fault :
        fault = CASE job.codec = "NOCOMPRESS" -> "none"
                  [] job.codec = "HCOMPRESS_1" ->
                       IF s.kind = "hcompress" THEN HcompressFault(s) ELSE "integrity"
                  [] OTHER -> IF s.kind = "gzip" THEN GzipFault(s, expected) ELSE "integrity"
  OBVIOUS
<1>6. \/ fault # "none" /\ Judge(fault)
      \/ fault = "none" /\ Complete(expected, <<>>)
  BY <1>4, <1>5 DEF DecodeWhole
<1>7. fault # "valid"
  <2>1. HcompressFault(s) # "valid" /\ GzipFault(s, expected) # "valid"
    BY DecoderKinds
  <2> QED
    BY <1>5, <2>1
<1>8. ASSUME Plain
      PROVE  fault = RowResult(row) /\ \A r \in 1..(row - 1) : RowResult(r) = "none"
  <2>1. Supported(t) /\ job = FastJob(row) /\ FastRowFault(row) = "none"
    BY <1>1, <1>8 DEF IInv, PathInv, Plain
  <2>2. job.codec \in Gzip
    BY <1>2, <2>1, SupportedTable DEF FastJob
  <2>3. job.codec # "NOCOMPRESS" /\ job.codec # "HCOMPRESS_1"
    BY <2>2 DEF Gzip
  <2>4. fault = IF s.kind = "gzip" THEN GzipFault(s, expected) ELSE "integrity"
    BY <1>5, <2>3
  <2>5. RowResult(row) = IF s.kind = "gzip" THEN GzipFault(s, expected) ELSE "integrity"
    BY <1>2, <1>3, <1>4, <2>1, PlainRow
  <2>6. \A r \in 1..(row - 1) : RowResult(r) = "none"
    BY <1>1, <1>8 DEF IInv, PathInv
  <2> QED
    BY <2>4, <2>5, <2>6
<1>9. CASE fault # "none" /\ Judge(fault)
  <2>1. Plain => fault = GeneralVerdict
    BY <1>2, <1>3, <1>8, <1>9, VerdictIs
  <2>2. AsMeant(fault)
    BY <2>1 DEF AsMeant
  <2> QED
    BY <1>1, <1>7, <1>9, <2>2, JudgeKept
<1>10. CASE fault = "none" /\ Complete(expected, <<>>)
  <2>1. Plain => RowResult(row) = "none"
    BY <1>8, <1>10
  <2> QED
    BY <1>1, <1>4, <1>10, <2>1, CompleteKept
<1> QED
  BY <1>6, <1>9, <1>10

(* gzip.rs decodes GZIP and nothing else. *)
LEMMA NotPlain ==
  ASSUME IInv, phase = "decode", job.codec \notin Gzip
  PROVE  ~Plain /\ \A kind : AsMeant(kind)
<1>1. t.fields \in Seq(BinaryColumns)
  BY RowsType DEF AtRows
<1>2. ~Supported(t)
  <2>1. ASSUME Supported(t) PROVE FALSE
    <3>1. job = FastJob(row)
      BY <2>1 DEF IInv, PathInv
    <3>2. job.codec = t.codec
      BY <3>1 DEF FastJob
    <3> QED
      BY <1>1, <2>1, <3>2, SupportedTable
  <2> QED
    BY <2>1
<1> QED
  BY <1>2 DEF Plain, AsMeant

(* So a Rice stream is not of a table that gzip.rs takes. *)
LEMMA RiceIsNotPlain ==
  ASSUME IInv, InRice
  PROVE  phase = "decode" /\ verdict = "none" /\ ~Plain /\ \A kind : AsMeant(kind)
<1>1. phase = "decode" /\ verdict = "none" /\ job.codec \in Rice
  BY DEF InRice, At
<1>2. job.codec \notin Gzip
  BY <1>1 DEF Rice, Gzip
<1> QED
  BY <1>1, <1>2, NotPlain

(* Nor is a PLIO list. *)
LEMMA PlioIsNotPlain ==
  ASSUME IInv, InPlio
  PROVE  phase = "decode" /\ verdict = "none" /\ ~Plain /\ \A kind : AsMeant(kind)
<1>1. phase = "decode" /\ verdict = "none" /\ job.codec = "PLIO_1"
  BY DEF InPlio, At
<1>2. job.codec \notin Gzip
  BY <1>1 DEF Gzip
<1> QED
  BY <1>1, <1>2, NotPlain

(* The decoders of Rice and PLIO keep to their own state until the end. *)
LEMMA StartRiceStep == ASSUME IInv, StartRice PROVE IInv'
<1>1. phase = "decode" /\ verdict = "none" /\ \A kind : AsMeant(kind)
  BY RiceIsNotPlain DEF StartRice
<1>2. PICK bits : bits = IF Stream(job.extent).kind = "rice" THEN Stream(job.extent).bits ELSE <<>>
  OBVIOUS
<1> DEFINE c1 == Check(job.width \notin {1, 2, 4}, "unsupported")
           c2 == Check(job.block \notin 1..MaxBlock, "invalid")
           c3 == Check(Len(bits) < 8 * job.width, "integrity")
           fault == FirstFault(<<c1, c2, c3>>)
<1>3. fault # "valid"
  <2>1. c1 # "valid" /\ c2 # "valid" /\ c3 # "valid"
    BY CheckKind
  <2> HIDE DEF c1, c2, c3
  <2> QED
    BY <2>1, ThreeChecks
<1>4. \/ Judge(fault)
      \/ UNCHANGED <<input, phase, verdict, field, row, counters, job, done, code, outputs>>
  BY <1>2 DEF StartRice
<1> HIDE DEF fault
<1>5. CASE Judge(fault)
  BY <1>1, <1>3, <1>5, JudgeKept
<1>6. CASE UNCHANGED <<input, phase, verdict, field, row, counters, job, done, code, outputs>>
  BY <1>6, DecoderAlone DEF input, counters
<1> QED
  BY <1>4, <1>5, <1>6

(* A block of samples. *)
LEMMA StartBlockStep == ASSUME IInv, StartBlock PROVE IInv'
<1>1. phase = "decode" /\ verdict = "none" /\ \A kind : AsMeant(kind)
  BY RiceIsNotPlain DEF StartBlock
<1>2. \/ Judge("integrity")
      \/ UNCHANGED <<input, phase, verdict, field, row, counters, job, done, value, outputs>>
  BY DEF StartBlock
<1>3. CASE Judge("integrity")
  BY <1>1, <1>3, JudgeKept
<1>4. CASE UNCHANGED <<input, phase, verdict, field, row, counters, job, done, value, outputs>>
  BY <1>4, DecoderAlone DEF input, counters
<1> QED
  BY <1>2, <1>3, <1>4

(* A sample. *)
LEMMA ReadSampleStep == ASSUME IInv, ReadSample PROVE IInv'
<1>1. phase = "decode" /\ verdict = "none" /\ \A kind : AsMeant(kind)
  BY RiceIsNotPlain DEF ReadSample
<1>2. ASSUME NEW d, NEW n, Sample(d, n) PROVE IInv'
  BY <1>2, DecoderAlone DEF Sample, input, counters
<1>3. CASE Judge("integrity")
  BY <1>1, <1>3, JudgeKept
<1>4. \/ Judge("integrity") \/ \E d, n : Sample(d, n)
  BY DEF ReadSample
<1> QED
  BY <1>2, <1>3, <1>4

(* The end of a Rice stream. *)
LEMMA EndRiceStep == ASSUME IInv, EndRice PROVE IInv'
<1>1. phase = "decode" /\ verdict = "none" /\ ~Plain /\ \A kind : AsMeant(kind)
  BY RiceIsNotPlain DEF EndRice
<1>2. Judge("integrity") \/ Complete(job.pixels * job.width, done)
  BY DEF EndRice
<1>3. CASE Judge("integrity")
  BY <1>1, <1>3, JudgeKept
<1>4. CASE Complete(job.pixels * job.width, done)
  BY <1>1, <1>4, CompleteKept
<1> QED
  BY <1>2, <1>3, <1>4

(* The header of a PLIO list. *)
LEMMA StartPlioStep == ASSUME IInv, StartPlio PROVE IInv'
<1>1. phase = "decode" /\ verdict = "none" /\ \A kind : AsMeant(kind)
  BY PlioIsNotPlain DEF StartPlio
<1>2. PICK s : s = Stream(job.extent)
  OBVIOUS
<1> DEFINE c1 == Check(s.kind # "plio", "integrity")
           c2 == Check(s.kind = "plio" /\ s.header = "unknown", "unsupported")
           c3 == Check(s.kind = "plio" /\ s.header # "good", "integrity")
           fault == FirstFault(<<c1, c2, c3>>)
<1>3. fault # "valid"
  <2>1. c1 # "valid" /\ c2 # "valid" /\ c3 # "valid"
    BY CheckKind
  <2> HIDE DEF c1, c2, c3
  <2> QED
    BY <2>1, ThreeChecks
<1>4. \/ Judge(fault)
      \/ UNCHANGED <<input, phase, verdict, field, row, counters, job, done, block, outputs>>
  BY <1>2 DEF StartPlio
<1> HIDE DEF fault
<1>5. CASE Judge(fault)
  BY <1>1, <1>3, <1>5, JudgeKept
<1>6. CASE UNCHANGED <<input, phase, verdict, field, row, counters, job, done, block, outputs>>
  BY <1>6, DecoderAlone DEF input, counters
<1> QED
  BY <1>4, <1>5, <1>6

(* An instruction. *)
LEMMA InstructionStep == ASSUME IInv, Instruction PROVE IInv'
<1>1. phase = "decode" /\ verdict = "none" /\ \A kind : AsMeant(kind)
  BY PlioIsNotPlain DEF Instruction
<1>2. \/ Judge("integrity")
      \/ UNCHANGED <<input, phase, verdict, field, row, counters, job, done, code, outputs>>
  BY DEF Instruction
<1>3. CASE Judge("integrity")
  BY <1>1, <1>3, JudgeKept
<1>4. CASE UNCHANGED <<input, phase, verdict, field, row, counters, job, done, code, outputs>>
  BY <1>4, DecoderAlone DEF input, counters
<1> QED
  BY <1>2, <1>3, <1>4

(* The end of a PLIO list. *)
LEMMA EndPlioStep == ASSUME IInv, EndPlio PROVE IInv'
<1>1. phase = "decode" /\ verdict = "none" /\ ~Plain /\ Complete(job.pixels * job.width, <<block>>)
  BY PlioIsNotPlain DEF EndPlio
<1> QED
  BY <1>1, CompleteKept

(* The end of the rows is where tiles.rs would end too. *)
LEMMA EndIsMeant == ASSUME IInv, EndRows PROVE AsMeant("valid")
<1>1. phase \in {"fast", "row"} /\ row > t.rows
  BY DEF EndRows
<1>2. IsTable(t) /\ t.kind = "binary" /\ t.rows \in Nat /\ row \in Nat \ {0}
  BY <1>1, RowsType DEF AtRows
<1>3. ASSUME phase = "fast", Plain PROVE GeneralVerdict = "valid"
  <2>1. \A r \in 1..(row - 1) : RowResult(r) = "none"
    BY <1>3 DEF IInv, PathInv
  <2>2. \A r \in 1..t.rows : r \in 1..(row - 1)
    BY <1>1, <1>2
  <2> QED
    BY <1>2, <1>3, <2>1, <2>2, VerdictIs
<1> QED
  BY <1>1, <1>3 DEF AsMeant

(* Every step keeps the invariant. *)
LEMMA NextIInv == ASSUME IInv, [Next]_vars PROVE IInv'
<1>1. CASE CheckAscii
  BY <1>1, CheckAsciiStep
<1>2. CASE CheckHeap
  BY <1>2, CheckHeapStep
<1>3. CASE CheckField
  BY <1>3, CheckFieldStep
<1>4. CASE CheckLayout
  BY <1>4, CheckLayoutStep
<1>5. CASE Dispatch
  BY <1>5, DispatchStep
<1>6. CASE TakeFastRow
  BY <1>6, TakeFastRowStep
<1>7. CASE TakeRow
  BY <1>7, TakeRowStep
<1>8. CASE TakeMask
  BY <1>8, TakeMaskStep
<1>9. CASE EndRows
  BY <1>9, EndIsMeant, EndRowsStep
<1>10. CASE DecodeWhole
  BY <1>10, DecodeWholeStep
<1>11. CASE StartRice
  BY <1>11, StartRiceStep
<1>12. CASE StartBlock
  BY <1>12, StartBlockStep
<1>13. CASE ReadSample
  BY <1>13, ReadSampleStep
<1>14. CASE EndRice
  BY <1>14, EndRiceStep
<1>15. CASE StartPlio
  BY <1>15, StartPlioStep
<1>16. CASE Instruction
  BY <1>16, InstructionStep
<1>17. CASE EndPlio
  BY <1>17, EndPlioStep
<1>18. CASE UNCHANGED vars
  BY <1>18, DecoderAlone DEF vars, input, counters
<1> QED
  BY <1>1, <1>2, <1>3, <1>4, <1>5, <1>6, <1>7, <1>8, <1>9, <1>10, <1>11, <1>12, <1>13,
     <1>14, <1>15, <1>16, <1>17, <1>18 DEF Next

-----------------------------------------------------------------------------
(* The columns of an ASCII table: characters of the row that no other      *)
(* column has.                                                             *)
Characters(f) == f.start..(f.start + f.width - 1)

(* An accepted column is in the row, on none of those before it, and as    *)
(* wide as it says.                                                        *)
LEMMA AsciiFieldSound ==
  ASSUME NEW x, x.fields \in Seq(AsciiColumns), x.rowSize \in Nat,
         NEW i \in 1..Len(x.fields), AsciiFieldFault(x, i) = "none"
  PROVE  /\ Characters(x.fields[i]) \subseteq 0..(x.rowSize - 1)
         /\ \A k \in 1..(i - 1) : Characters(x.fields[k]) \cap Characters(x.fields[i]) = {}
         /\ IsFiniteSet(Characters(x.fields[i]))
         /\ Cardinality(Characters(x.fields[i])) = x.fields[i].width
<1> DEFINE f == x.fields[i]
           last == f.start + f.width
           earlier == {x.fields[k] : k \in 1..(i - 1)}
           c1 == Check(f.start < 0 \/ f.type = "none", "invalid")
           c2 == Check(f.type \notin {"A", "I", "F", "E", "D"}, "unsupported")
           c3 == Check(f.width <= 0, "invalid")
           c4 == Check(f.type \in {"F", "E", "D"} <=> f.precision = "none", "invalid")
           c5 == Check(last > x.rowSize, "invalid")
           c6 == Check(\E g \in earlier : f.start < g.start + g.width /\ last > g.start, "invalid")
<1>1. AsciiFieldFault(x, i) = FirstFault(<<c1, c2, c3, c4, c5, c6>>)
  BY DEF AsciiFieldFault
<1>2. c1 = "none" /\ c3 = "none" /\ c5 = "none" /\ c6 = "none"
  <2> HIDE DEF c1, c2, c3, c4, c5, c6
  <2> QED
    BY <1>1, SixChecks
<1>3. /\ ~(f.start < 0) /\ ~(f.width <= 0) /\ ~(last > x.rowSize)
      /\ \A g \in earlier : ~(f.start < g.start + g.width /\ last > g.start)
  BY <1>2 DEF Check
<1>4. ASSUME NEW k \in 1..Len(x.fields)
      PROVE  x.fields[k].start \in Int /\ x.fields[k].width \in Nat
  <2>1. x.fields[k] \in AsciiColumns
    OBVIOUS
  <2> QED
    BY <2>1 DEF AsciiColumns
<1>5. PICK s \in Nat, w \in Nat : s = f.start /\ w = f.width
  BY <1>3, <1>4
<1>6. w > 0 /\ s + w <= x.rowSize
  BY SMTT(30), <1>3, <1>5
<1>7. Characters(f) = s..(s + w - 1)
  BY <1>5 DEF Characters
<1>8. IsFiniteSet(s..(s + w - 1)) /\ Cardinality(s..(s + w - 1)) = w
  <2>1. PICK b \in Int : b = s + w - 1
    OBVIOUS
  <2>2. b - s + 1 = w /\ ~(s > b)
    BY <1>6, <2>1
  <2>3. IsFiniteSet(s..b) /\ Cardinality(s..b) = b - s + 1
    <3>1. s \in Int
      OBVIOUS
    <3>2. IsFiniteSet(s..b) /\ Cardinality(s..b) = IF s > b THEN 0 ELSE b - s + 1
      BY <2>1, <3>1, FS_Interval, Zenon
    <3> QED
      BY <2>2, <3>2
  <2> QED
    BY <2>1, <2>2, <2>3
<1>9. ASSUME NEW k \in 1..(i - 1)
      PROVE  Characters(x.fields[k]) \cap Characters(f) = {}
  <2>1. x.fields[k] \in earlier /\ k \in 1..Len(x.fields)
    OBVIOUS
  <2>2. PICK a \in Int, b \in Nat : a = x.fields[k].start /\ b = x.fields[k].width
    BY <1>4, <2>1
  <2>3. ~(s < a + b /\ s + w > a)
    BY <1>3, <1>5, <2>1, <2>2
  <2>4. (a..(a + b - 1)) \cap (s..(s + w - 1)) = {}
    BY <2>3
  <2> QED
    BY <1>7, <2>2, <2>4 DEF Characters
<1>10. s..(s + w - 1) \subseteq 0..(x.rowSize - 1)
  BY <1>6
<1> QED
  BY <1>5, <1>7, <1>8, <1>9, <1>10

(* Disjoint, the columns are no wider together than the row. *)
LEMMA AsciiColumnsFit ==
  ASSUME NEW x, IsTable(x), x.kind = "ascii", AsciiFault(x) = "none"
  PROVE  SumOf([i \in DOMAIN x.fields |-> x.fields[i].width]) <= x.rowSize
<1>1. x.fields \in Seq(AsciiColumns) /\ x.rowSize \in Nat
  BY DEF IsTable
<1>2. PICK L \in Nat : L = Len(x.fields) /\ DOMAIN x.fields = 1..L
  BY <1>1
<1>3. \A i \in 1..L : AsciiFieldFault(x, i) = "none"
  <2> DEFINE columns == [i \in DOMAIN x.fields |-> AsciiFieldFault(x, i)]
             c1 == Check(x.pcount # 0 \/ Len(x.fields) > MaxFields, "invalid")
             c2 == FirstFault(columns)
  <2>1. AsciiFault(x) = FirstFault(<<c1, c2>>)
    BY DEF AsciiFault
  <2>2. c2 = "none"
    <3> HIDE DEF c1, c2
    <3> QED
      BY <2>1, TwoChecks
  <2>3. DOMAIN columns \subseteq Nat /\ DOMAIN columns = 1..L
    BY <1>2
  <2>4. \A i \in DOMAIN columns : columns[i] = "none"
    <3> HIDE DEF columns
    <3> QED
      BY <2>2, <2>3, FirstFailing
  <2> QED
    BY <2>3, <2>4
<1>4. PICK C : C = [i \in 1..L |-> Characters(x.fields[i])]
  OBVIOUS
<1>5. PICK w : w = [i \in 1..L |-> x.fields[i].width]
  OBVIOUS
<1>6. w \in Seq(Nat) /\ Len(w) = L
  <2>1. ASSUME NEW i \in 1..L PROVE x.fields[i].width \in Nat
    <3>1. x.fields[i] \in AsciiColumns
      BY <1>1, <1>2
    <3> QED
      BY <3>1 DEF AsciiColumns
  <2>2. w \in [1..L -> Nat]
    BY <1>5, <2>1
  <2> QED
    BY <2>2, ListOf
<1>7. ASSUME NEW i \in 1..L
      PROVE  /\ C[i] \subseteq 0..(x.rowSize - 1)
             /\ \A k \in 1..(i - 1) : C[k] \cap C[i] = {}
             /\ IsFiniteSet(C[i]) /\ Cardinality(C[i]) = w[i]
  <2>1. /\ Characters(x.fields[i]) \subseteq 0..(x.rowSize - 1)
        /\ \A k \in 1..(i - 1) : Characters(x.fields[k]) \cap Characters(x.fields[i]) = {}
        /\ IsFiniteSet(Characters(x.fields[i]))
        /\ Cardinality(Characters(x.fields[i])) = x.fields[i].width
    BY <1>1, <1>2, <1>3, AsciiFieldSound
  <2>2. C[i] = Characters(x.fields[i]) /\ w[i] = x.fields[i].width
    BY <1>4, <1>5
  <2>3. \A k \in 1..(i - 1) : C[k] = Characters(x.fields[k])
    BY <1>4
  <2> QED
    BY <2>1, <2>2, <2>3
<1>8. PICK g : g = RunningSums(w)
  OBVIOUS
<1>9. /\ g \in [0..L -> Nat] /\ g[0] = 0 /\ \A i \in 1..L : g[i] = g[i - 1] + w[i]
  BY <1>6, <1>8, RunningSumsDef
<1> DEFINE U(n) == UNION {C[i] : i \in 1..n}
           S == {n \in 0..L : IsFiniteSet(U(n)) /\ Cardinality(U(n)) = g[n]}
<1>10. 0 \in S
  <2>1. U(0) = {}
    OBVIOUS
  <2>2. 0 \in 0..L
    OBVIOUS
  <2> HIDE DEF U
  <2> QED
    BY <1>9, <2>1, <2>2, FS_EmptySet
<1>11. ASSUME NEW n \in 0..(L - 1), n \in S PROVE n + 1 \in S
  <2>1. n + 1 \in 1..L /\ (n + 1) - 1 = n /\ n + 1 \in 0..L
    OBVIOUS
  <2>2. U(n + 1) = U(n) \cup C[n + 1]
    <3>1. \A i : i \in 1..(n + 1) <=> i \in 1..n \/ i = n + 1
      BY <2>1
    <3> QED
      BY <3>1
  <2>3. U(n) \cap C[n + 1] = {}
    <3>1. \A k \in 1..n : C[k] \cap C[n + 1] = {}
      BY <1>7, <2>1
    <3> QED
      BY <3>1
  <2>4. IsFiniteSet(U(n)) /\ Cardinality(U(n)) = g[n]
    BY <1>11
  <2>5. IsFiniteSet(C[n + 1]) /\ Cardinality(C[n + 1]) = w[n + 1]
    BY <1>7, <2>1
  <2>6. g[n + 1] = g[n] + w[n + 1] /\ g[n] \in Nat /\ w[n + 1] \in Nat
    BY <1>6, <1>9, <2>1
  <2>7. /\ IsFiniteSet(U(n) \cup C[n + 1])
        /\ Cardinality(U(n) \cup C[n + 1]) =
             Cardinality(U(n)) + Cardinality(C[n + 1]) - Cardinality(U(n) \cap C[n + 1])
    <3> HIDE DEF U
    <3> QED
      BY <2>4, <2>5, FS_Union
  <2>8. Cardinality(U(n) \cap C[n + 1]) = 0
    BY <2>3, FS_EmptySet
  <2> HIDE DEF U
  <2>9. Cardinality(U(n + 1)) = g[n] + w[n + 1] - 0
    BY <2>2, <2>4, <2>5, <2>7, <2>8, Zenon
  <2>10. Cardinality(U(n + 1)) = g[n + 1]
    BY <2>6, <2>9
  <2>11. IsFiniteSet(U(n + 1))
    BY <2>2, <2>7, Zenon
  <2> QED
    BY <2>1, <2>10, <2>11
<1>12. L \in S
  <2> HIDE DEF S
  <2>1. \A n \in 0..L : n \in S
    BY <1>10, <1>11, Upward
  <2> QED
    BY <2>1
<1>13. U(L) \subseteq 0..(x.rowSize - 1)
  BY <1>7
<1>14. Cardinality(U(L)) <= x.rowSize
  <2>1. IsFiniteSet(0..(x.rowSize - 1)) /\ Cardinality(0..(x.rowSize - 1)) = x.rowSize
    <3>1. CASE x.rowSize = 0
      <4>1. 0..(x.rowSize - 1) = {}
        BY <3>1
      <4> QED
        BY <3>1, <4>1, FS_EmptySet
    <3>2. CASE x.rowSize > 0
      <4>1. x.rowSize - 1 \in Int /\ (x.rowSize - 1) - 0 + 1 = x.rowSize /\ ~(0 > x.rowSize - 1)
        BY <1>1, <3>2
      <4> QED
        BY SMTT(30), <4>1, FS_Interval
    <3> QED
      BY <1>1, <3>1, <3>2
  <2> HIDE DEF U
  <2> QED
    BY <1>13, <2>1, FS_Subset
<1>15. g[L] <= x.rowSize
  BY <1>12, <1>14
<1>16. [i \in DOMAIN x.fields |-> x.fields[i].width] = w
  BY <1>2, <1>5
<1> QED
  BY <1>6, <1>8, <1>15, <1>16 DEF SumOf

(* The columns of a binary table stand one after the other, and each of    *)
(* its descriptors has been checked.                                       *)
LEMMA BinaryFits ==
  ASSUME IsTable(t), t.kind = "binary", LaidOut
  PROVE  /\ SumOf([i \in DOMAIN t.fields |-> FieldWidth(t.fields[i])]) = t.rowSize
         /\ \A i \in DOMAIN t.fields, r \in 1..t.rows :
              (t.fields[i].form # "none" /\ t.fields[i].repeat = 1) =>
                 Extent(t, r, i)[2] = 0
                   \/ HeapStart(t) + Extent(t, r, i)[1] + Extent(t, r, i)[2] <= UnitSize(t)
<1>1. t.fields \in Seq(BinaryColumns)
  BY DEF IsTable
<1>2. PICK L \in Nat : L = Len(t.fields) /\ DOMAIN t.fields = 1..L
  BY <1>1
<1>3. SumOf([i \in DOMAIN t.fields |-> FieldWidth(t.fields[i])]) = t.rowSize
  <2>1. (L + 1) - 1 = L
    OBVIOUS
  <2>2. ColumnStart(t, L + 1) = t.rowSize
    BY <1>2 DEF LaidOut
  <2> QED
    BY <1>2, <2>1, <2>2 DEF ColumnStart
<1>4. ASSUME NEW i \in DOMAIN t.fields, NEW r \in 1..t.rows,
             t.fields[i].form # "none", t.fields[i].repeat = 1
      PROVE  Extent(t, r, i)[2] = 0
               \/ HeapStart(t) + Extent(t, r, i)[1] + Extent(t, r, i)[2] <= UnitSize(t)
  <2>1. FieldFault(t, i) = "none" /\ HeapFault(t) = "none"
    BY <1>2 DEF LaidOut, ColumnsPass
  <2>2. PICK type, cell : type = t.fields[i].type /\ cell = t.cells[r][i]
    OBVIOUS
  <2>3. type \in KnownTypes /\ DescriptorFault(t, type, cell) = "none"
    BY <1>4, <2>1, <2>2, FieldSound
  <2>4. cell \in Int \X Int
    BY <1>4, <2>2 DEF IsTable
  <2>5. Extent(t, r, i) = <<cell[2], TypeSize(type, cell[1])>>
    BY <2>2 DEF Extent
  <2>6. \/ TypeSize(type, cell[1]) = 0
        \/ HeapStart(t) + cell[2] + TypeSize(type, cell[1]) <= UnitSize(t)
    BY <2>1, <2>3, <2>4, DescriptorSound
  <2>7. Extent(t, r, i)[1] = cell[2] /\ Extent(t, r, i)[2] = TypeSize(type, cell[1])
    BY <2>5
  <2> QED
    BY <2>6, <2>7, Zenon
<1> QED
  BY <1>3, <1>4

(* What the invariant says of columns and payloads. *)
LEMMA FitsFollows == ASSUME IInv PROVE ColumnsAndPayloadsFit
<1> DEFINE widths == [i \in DOMAIN t.fields |->
             IF t.kind = "ascii" THEN t.fields[i].width ELSE FieldWidth(t.fields[i])]
<1>1. IsTable(t) /\ t.kind \in {"ascii", "binary"} /\ phase \in Phases
  BY DEF IInv, TypeInv, IsTable
<1>2. ASSUME verdict = "valid", t.kind = "ascii" PROVE SumOf(widths) <= t.rowSize
  <2>1. AsciiFault(t) = "none"
    BY <1>2 DEF IInv, TypeInv, ColumnsInv
  <2>2. widths = [i \in DOMAIN t.fields |-> t.fields[i].width]
    BY <1>2
  <2> HIDE DEF widths
  <2> QED
    BY <1>1, <1>2, <2>1, <2>2, AsciiColumnsFit
<1>3. ASSUME verdict = "valid", t.kind = "binary"
      PROVE  /\ SumOf(widths) <= t.rowSize
             /\ \A i \in DOMAIN t.fields, r \in 1..t.rows :
                  (t.fields[i].form # "none" /\ t.fields[i].repeat = 1) =>
                     Extent(t, r, i)[2] = 0
                       \/ HeapStart(t) + Extent(t, r, i)[1] + Extent(t, r, i)[2] <= UnitSize(t)
  <2>1. phase # "ascii"
    BY <1>3 DEF IInv, TypeInv
  <2>2. phase \in {"dispatch"} \cup AtRows
    BY <1>1, <1>3, <2>1 DEF IInv, ColumnsInv, Phases, AtRows
  <2>3. LaidOut
    BY <2>2 DEF IInv, ColumnsInv
  <2>4. widths = [i \in DOMAIN t.fields |-> FieldWidth(t.fields[i])]
    BY <1>3
  <2> HIDE DEF widths
  <2>5. SumOf(widths) = t.rowSize
    BY <1>1, <1>3, <2>3, <2>4, BinaryFits
  <2>6. t.rowSize \in Nat
    BY <1>1, SizesOfTable
  <2>7. SumOf(widths) <= t.rowSize
    BY <2>5, <2>6
  <2> QED
    BY <1>1, <1>3, <2>3, <2>7, BinaryFits
<1>4. ASSUME job # NoJob
      PROVE  /\ HeapStart(t) + job.extent[1] >= TableSize(t)
             /\ HeapStart(t) + job.extent[1] + job.extent[2] <= UnitSize(t)
  <2>1. phase = "decode"
    BY <1>4 DEF IInv, TypeInv
  <2> QED
    BY <2>1 DEF IInv, JobInv, IsJob, InHeap
<1> QED
  BY <1>1, <1>2, <1>3, <1>4 DEF ColumnsAndPayloadsFit

(* Part of an image has no more bytes than the whole of it. *)
LEMMA BytesAdmitted ==
  ASSUME NEW a \in Nat, NEW b \in Nat, NEW i \in Nat, NEW s \in Nat, NEW e \in Nat,
         NEW n \in Nat, a <= i, n <= a * s + b
  PROVE  n <= i * s + b + e
<1>1. PICK d \in Nat : i = a + d
  OBVIOUS
<1>2. PICK q \in Nat, v \in Nat : q = a * s /\ v = d * s
  OBVIOUS
<1>3. i * s = q + v
  BY <1>1, <1>2
<1>4. n <= q + b
  BY <1>2
<1>5. n <= q + v + b + e
  BY <1>4
<1> QED
  BY <1>3, <1>5

(* What it says of tiles and bytes. *)
LEMMA FillsFollows == ASSUME IInv PROVE TilesFillTheImage
<1>1. decoded <= MaxDecoded /\ decoded \in Nat /\ IsTable(t)
  BY DEF IInv, TilesInv, TypeInv
<1>2. BytesOf(outputs) <= decoded
  <2>1. CASE phase \notin AtRows
    <3>1. outputs = <<>>
      BY <2>1 DEF IInv, TilesInv
    <3>2. BytesOf(outputs) = 0
      BY <3>1, NoOutputs
    <3> QED
      BY <1>1, <3>2
  <2>2. CASE phase \in AtRows
    <3>1. /\ t.kind = "binary" /\ SumsInv /\ t.rows \in Nat /\ row \in Nat \ {0}
          /\ SampleBytes(t) \in Nat /\ GeometryFault(t) = "none" /\ CountFault(t) = "none"
      BY <2>2, RowsType
    <3>2. PICK s, i, p, a, b, n : /\ s = SampleBytes(t) /\ i = ImagePixels(t)
                                 /\ p = i * s /\ a = PixelsOf(outputs, FALSE)
                                 /\ b = PixelsOf(outputs, TRUE) /\ n = BytesOf(outputs)
      OBVIOUS
    <3>3. i \in Nat /\ s \in Nat /\ a \in Nat /\ b \in Nat /\ n \in Nat
      BY <1>1, <2>2, <3>1, <3>2, SumsType, PixelsBefore
    <3>4. a <= i
      <4>1. PICK m : m = IF AtMask THEN row + 1 ELSE row
        OBVIOUS
      <4>2. m \in 1..(t.rows + 1)
        <5>1. row <= t.rows + 1 /\ (AtMask => row <= t.rows)
          BY <3>1 DEF SumsInv, AtMask
        <5> QED
          BY <3>1, <4>1, <5>1
      <4>3. a = TilesBefore(m)
        BY <3>1, <3>2, <4>1 DEF SumsInv
      <4> QED
        BY <1>1, <3>1, <3>2, <4>2, <4>3, PixelsBefore
    <3>5. n <= a * s + b
      BY <3>1, <3>2 DEF SumsInv
    <3>6. PICK e : e = IF phase = "decode" /\ job.mask THEN job.pixels ELSE 0
      OBVIOUS
    <3>7. e \in Nat
      <4>1. CASE phase = "decode" /\ job.mask
        <5>1. job.pixels = TilePixels(t, row) /\ row \in 1..t.rows
          BY <3>1, <4>1 DEF IInv, JobInv, IsJob, SumsInv
        <5> QED
          BY <1>1, <3>1, <3>6, <4>1, <5>1, PixelsBefore
      <4>2. CASE ~(phase = "decode" /\ job.mask)
        BY <3>6, <4>2
      <4> QED
        BY <4>1, <4>2
    <3>8. decoded = p + b + e
      <4>1. decoded = ImageBytes + b + e
        BY <3>1, <3>2, <3>6 DEF SumsInv
      <4>2. ImageBytes = p
        BY <3>2 DEF ImageBytes
      <4> QED
        BY <4>1, <4>2
    <3>9. n <= i * s + b + e
      BY <3>3, <3>4, <3>5, <3>7, BytesAdmitted
    <3> QED
      BY <3>2, <3>8, <3>9
  <2> QED
    BY <2>1, <2>2
<1>3. ASSUME verdict = "valid", level = "full", t.kind = "binary"
      PROVE  PixelsOf(outputs, FALSE) = ImagePixels(t) /\ PixelsOf(outputs, TRUE) <= ImagePixels(t)
  <2>1. phase \in AtRows
    <3>1. phase \in Phases /\ phase # "ascii"
      BY <1>3 DEF IInv, TypeInv
    <3>2. phase \notin {"heap", "fields", "dispatch"}
      BY <1>3 DEF IInv, ColumnsInv, TilesInv
    <3> QED
      BY <3>1, <3>2 DEF Phases, AtRows
  <2>2. SumsInv /\ GeometryFault(t) = "none" /\ CountFault(t) = "none"
    BY <2>1, RowsType
  <2>3. row = t.rows + 1 /\ ~AtMask
    BY <1>3, <2>2 DEF SumsInv, AtMask
  <2>4. /\ PixelsOf(outputs, FALSE) = TilesBefore(t.rows + 1)
        /\ PixelsOf(outputs, TRUE) <= TilesBefore(t.rows + 1)
    BY <2>2, <2>3 DEF SumsInv
  <2>5. TilesBefore(t.rows + 1) = ImagePixels(t)
    BY <1>1, <1>3, <2>2, PixelsBefore
  <2> QED
    BY <2>4, <2>5
<1> QED
  BY <1>1, <1>2, <1>3, Zenon DEF TilesFillTheImage, PixelsOf, BytesOf

(* What it says of the two paths. *)
LEMMA AgreeFollows == ASSUME IInv PROVE PathsAgree
BY DEF IInv, PathInv, Plain, PathsAgree
-----------------------------------------------------------------------------
(* The strengthening holds in every reachable state. *)
THEOREM TilesStrengthening == Spec => []IInv
<1>1. Init => IInv
  BY InitIInv
<1>2. IInv /\ [Next]_vars => IInv'
  BY NextIInv
<1> QED
  BY <1>1, <1>2, PTL DEF Spec

(* A column and a payload lie where the header says there is room. *)
THEOREM ColumnsFit == Spec => []ColumnsAndPayloadsFit
<1>1. IInv => ColumnsAndPayloadsFit
  BY FitsFollows
<1> QED
  BY <1>1, TilesStrengthening, PTL

(* The tiles hold each pixel once, and no more bytes than were admitted. *)
THEOREM TilesFill == Spec => []TilesFillTheImage
<1>1. IInv => TilesFillTheImage
  BY FillsFollows
<1> QED
  BY <1>1, TilesStrengthening, PTL

(* The two paths come to the same. *)
THEOREM Agreement == Spec => []PathsAgree
<1>1. IInv => PathsAgree
  BY AgreeFollows
<1> QED
  BY <1>1, TilesStrengthening, PTL
=============================================================================
