-------------------------- MODULE ByteTotalsProofs --------------------------
(***************************************************************************)
(* The arithmetic of Total: it is a natural number, it is 0 exactly when   *)
(* nothing is held, it moves by b when one entry moves by b, and no entry  *)
(* exceeds it.  And the least of a set of numbers, which stands in for     *)
(* induction where a proof has to go through the numbers one by one.       *)
(***************************************************************************)
EXTENDS ByteTotals, FiniteSetTheorems, WellFoundedInduction, TLAPS

(* A column of cells: as many cells as its range of indices has. *)
LEMMA ColumnCells ==
  ASSUME NEW d, NEW lo \in Int, NEW hi \in Int, lo <= hi + 1
  PROVE  /\ IsFiniteSet({d} \X (lo .. hi))
         /\ Cardinality({d} \X (lo .. hi)) = hi - lo + 1
<1> DEFINE rows == lo .. hi
<1>1. IsFiniteSet({d}) /\ Cardinality({d}) = 1
  BY FS_Singleton
<1>2. IsFiniteSet(rows) /\ Cardinality(rows) = hi - lo + 1
  BY FS_Interval
<1> HIDE DEF rows
<1>3. /\ IsFiniteSet({d} \X rows)
      /\ Cardinality({d} \X rows) = Cardinality({d}) * Cardinality(rows)
  BY <1>1, <1>2, FS_Product
<1>4. QED
  BY <1>1, <1>2, <1>3 DEF rows

(* The bytes of one entry are finitely many: there are f[d] of them. *)
LEMMA EntryCells ==
  ASSUME NEW D, NEW f \in [D -> Nat], NEW d \in D
  PROVE  /\ IsFiniteSet(CellsOf(f, d))
         /\ Cardinality(CellsOf(f, d)) = f[d]
<1>1. PICK n \in Nat : n = f[d]
  OBVIOUS
<1>2. 1 \in Int /\ n \in Int /\ 1 <= n + 1 /\ n - 1 + 1 = n
  OBVIOUS
<1>3. /\ IsFiniteSet({d} \X (1 .. n))
      /\ Cardinality({d} \X (1 .. n)) = n - 1 + 1
  BY <1>2, ColumnCells
<1>4. QED
  BY <1>1, <1>2, <1>3 DEF CellsOf

(* A cell belongs to Cells(f) exactly when its index is within the entry. *)
LEMMA CellsMember ==
  ASSUME NEW D, NEW f \in [D -> Nat]
  PROVE  \A c : c \in Cells(f) <=> \E d \in D : c \in CellsOf(f, d)
BY DEF Cells

(* A finite table of naturals has finitely many cells. *)
LEMMA CellsFinite ==
  ASSUME NEW D, IsFiniteSet(D), NEW f \in [D -> Nat]
  PROVE  IsFiniteSet(Cells(f))
<1> DEFINE parts == {CellsOf(f, d) : d \in D}
<1> DEFINE part == [d \in D |-> CellsOf(f, d)]
<1>1. part \in Surjection(D, parts)
  BY DEF Surjection
<1>2. IsFiniteSet(parts)
  BY <1>1, FS_Surjection
<1>3. \A P \in parts : IsFiniteSet(P)
  BY EntryCells
<1>4. IsFiniteSet(UNION parts)
  BY <1>2, <1>3, FS_UNION
<1>5. QED
  BY <1>4 DEF Cells

(* A total is a natural number. *)
LEMMA TotalType ==
  ASSUME NEW D, IsFiniteSet(D), NEW f \in [D -> Nat]
  PROVE  Total(f) \in Nat
BY CellsFinite, FS_CardinalityType DEF Total

(* Nothing held is a total of 0. *)
LEMMA TotalZero ==
  ASSUME NEW D, NEW f \in [D -> Nat], \A d \in D : f[d] = 0
  PROVE  Total(f) = 0
<1>1. \A d \in D : CellsOf(f, d) = {}
  BY DEF CellsOf
<1>2. Cells(f) = {}
  BY <1>1, CellsMember
<1>3. QED
  BY <1>2, FS_EmptySet DEF Total

(* One entry is part of the total. *)
LEMMA TotalAtLeast ==
  ASSUME NEW D, IsFiniteSet(D), NEW f \in [D -> Nat], NEW d \in D
  PROVE  f[d] <= Total(f)
<1>1. CellsOf(f, d) \in SUBSET Cells(f)
  BY CellsMember
<1>2. Cardinality(CellsOf(f, d)) <= Cardinality(Cells(f))
  BY <1>1, CellsFinite, FS_Subset
<1>3. QED
  BY <1>2, EntryCells DEF Total

(* Adding b bytes to one entry adds b bytes to the total: the new cells    *)
(* are those of index f[d]+1 .. f[d]+b, and none of them was there before. *)
LEMMA TotalAdd ==
  ASSUME NEW D, IsFiniteSet(D), NEW f \in [D -> Nat], NEW g \in [D -> Nat],
         NEW d \in D, NEW b \in Nat,
         g[d] = f[d] + b, \A e \in D \ {d} : g[e] = f[e]
  PROVE  Total(g) = Total(f) + b
<1> DEFINE new == {d} \X ((f[d] + 1) .. (f[d] + b))
<1>1. IsFiniteSet(new) /\ Cardinality(new) = b
  <2>1. f[d] + 1 \in Int /\ f[d] + b \in Int /\ f[d] + 1 <= (f[d] + b) + 1
    OBVIOUS
  <2>2. IsFiniteSet(new) /\ Cardinality(new) = (f[d] + b) - (f[d] + 1) + 1
    BY <2>1, ColumnCells
  <2>3. QED
    BY <2>1, <2>2
<1>2. Cells(g) = Cells(f) \cup new
  <2>1. CellsOf(g, d) = CellsOf(f, d) \cup new
    <3>1. 1 .. g[d] = (1 .. f[d]) \cup ((f[d] + 1) .. (f[d] + b))
      OBVIOUS
    <3>2. QED
      BY <3>1 DEF CellsOf
  <2>2. \A e \in D \ {d} : CellsOf(g, e) = CellsOf(f, e)
    BY DEF CellsOf
  <2>3. ASSUME NEW c
        PROVE  c \in Cells(g) <=> c \in Cells(f) \cup new
    <3>1. c \in Cells(g) <=> \E e \in D : c \in CellsOf(g, e)
      BY CellsMember
    <3>2. c \in Cells(f) <=> \E e \in D : c \in CellsOf(f, e)
      BY CellsMember
    <3> HIDE DEF new
    <3>3. QED
      BY <2>1, <2>2, <3>1, <3>2
  <2>4. QED
    BY <2>3
<1>3. Cells(f) \cap new = {}
  <2>1. ASSUME NEW c \in new, NEW e \in D, c \in CellsOf(f, e)
        PROVE  FALSE
    BY <2>1 DEF CellsOf
  <2>2. QED
    BY <2>1, CellsMember
<1>4. IsFiniteSet(Cells(f)) /\ Cardinality(Cells(f)) \in Nat
  BY CellsFinite, FS_CardinalityType
<1>5. Cardinality({}) = 0
  BY FS_EmptySet
<1>6. Cardinality(Cells(f) \cup new) = Cardinality(Cells(f)) + b
  <2> HIDE DEF new
  <2>1. Cardinality(Cells(f) \cup new)
          = Cardinality(Cells(f)) + Cardinality(new)
              - Cardinality(Cells(f) \cap new)
    BY <1>1, <1>4, FS_Union
  <2>2. Cardinality(Cells(f) \cap new) = 0
    BY <1>3, <1>5
  <2>3. QED
    BY <1>1, <1>4, <2>1, <2>2
<1>7. QED
  BY <1>2, <1>6 DEF Total

(* Taking b bytes from one entry takes b bytes from the total. *)
LEMMA TotalSubtract ==
  ASSUME NEW D, IsFiniteSet(D), NEW f \in [D -> Nat], NEW g \in [D -> Nat],
         NEW d \in D, NEW b \in Nat,
         g[d] = f[d] - b, \A e \in D \ {d} : g[e] = f[e]
  PROVE  Total(g) = Total(f) - b
<1>1. f[d] = g[d] + b
  OBVIOUS
<1>2. Total(f) = Total(g) + b
  BY <1>1, TotalAdd
<1>3. Total(g) \in Nat /\ Total(f) \in Nat
  BY TotalType
<1>4. QED
  BY <1>2, <1>3

(* One more entry adds what it holds. *)
LEMMA TotalExtends ==
  ASSUME NEW D, IsFiniteSet(D), NEW f \in [D -> Nat], NEW d, d \notin D,
         NEW g \in [D \cup {d} -> Nat], \A i \in D : g[i] = f[i]
  PROVE  Total(g) = Total(f) + g[d]
<1> DEFINE E == D \cup {d}
           z == [i \in E |-> IF i = d THEN 0 ELSE f[i]]
<1>1. z \in [E -> Nat] /\ z[d] = 0 /\ \A i \in D : z[i] = f[i]
  OBVIOUS
<1>2. Cells(z) = Cells(f)
  <2>1. \A i \in D : CellsOf(z, i) = CellsOf(f, i)
    BY DEF CellsOf
  <2>2. CellsOf(z, d) = {}
    BY <1>1 DEF CellsOf
  <2>3. ASSUME NEW c PROVE c \in Cells(z) <=> c \in Cells(f)
    <3>1. c \in Cells(z) <=> \E i \in E : c \in CellsOf(z, i)
      <4> HIDE DEF z, E
      <4> QED
        BY <1>1, CellsMember
    <3>2. c \in Cells(f) <=> \E i \in D : c \in CellsOf(f, i)
      BY CellsMember
    <3> HIDE DEF z
    <3> QED
      BY <2>1, <2>2, <3>1, <3>2
  <2> QED
    BY <2>3
<1>3. Total(z) = Total(f)
  BY <1>2 DEF Total
<1>4. Total(g) = Total(z) + g[d]
  <2>1. IsFiniteSet(E) /\ d \in E /\ g \in [E -> Nat] /\ g[d] \in Nat
    BY FS_AddElement
  <2>2. g[d] = z[d] + g[d] /\ \A i \in E \ {d} : g[i] = z[i]
    BY <1>1, <2>1
  <2> HIDE DEF z, E
  <2> QED
    BY <1>1, <2>1, <2>2, TotalAdd
<1> QED
  BY <1>3, <1>4

(* A set of numbers that is not empty has a least one. *)
LEMMA LeastNumber ==
  ASSUME NEW T \in SUBSET Nat, T # {}
  PROVE  \E m \in T : \A x \in T : m <= x
<1> DEFINE R == {ss \in Nat \X Nat : ss[1] < ss[2]}
<1>1. IsWellFoundedOn(R, Nat)
  BY NatLessThanWellFounded DEF OpToRel
<1>2. PICK m \in T : \A x \in T : <<x, m>> \notin R
  <2> HIDE DEF R
  <2> QED
    BY <1>1, WFMin
<1>3. ASSUME NEW x \in T, x < m PROVE FALSE
  <2>1. <<x, m>> \in Nat \X Nat /\ <<x, m>>[1] < <<x, m>>[2]
    BY <1>3
  <2> QED
    BY <1>2, <2>1
<1> QED
  BY <1>3

(* The first n terms come to the first n - 1 and the n-th. *)
LEMMA RunningSumsDef ==
  ASSUME NEW terms \in Seq(Nat)
  PROVE  /\ RunningSums(terms) \in [0 .. Len(terms) -> Nat]
         /\ RunningSums(terms)[0] = 0
         /\ \A n \in 1 .. Len(terms) :
              RunningSums(terms)[n] = RunningSums(terms)[n - 1] + terms[n]
<1> DEFINE L == Len(terms)
           Upto(g, k) ==
             /\ g \in [0 .. k -> Nat] /\ g[0] = 0
             /\ \A n \in 1 .. k : g[n] = g[n - 1] + terms[n]
           Rec(g) ==
             g = [n \in 0 .. L |-> IF n = 0 THEN 0 ELSE g[n - 1] + terms[n]]
           T == {k \in 0 .. L : ~ \E g : Upto(g, k)}
<1>1. L \in Nat /\ \A n \in 1 .. L : terms[n] \in Nat
  OBVIOUS
<1> HIDE DEF L
<1>2. ASSUME T # {} PROVE FALSE
  <2>1. PICK m \in T : \A k \in T : m <= k
    <3>1. T \in SUBSET Nat
      BY <1>1
    <3> HIDE DEF T
    <3> QED
      BY <1>2, <3>1, LeastNumber
  <2>2. m \in 0 .. L /\ ~ \E g : Upto(g, m)
    OBVIOUS
  <2>3. m # 0
    <3>1. Upto([n \in 0 .. 0 |-> 0], 0)
      OBVIOUS
    <3> QED
      BY <2>2, <3>1
  <2>4. m - 1 \in 0 .. L /\ ~ (m <= m - 1)
    BY <1>1, <2>2, <2>3
  <2>5. PICK g : Upto(g, m - 1)
    <3> HIDE DEF Upto
    <3> QED
      BY <2>1, <2>4
  <2> DEFINE h == [n \in 0 .. m |-> IF n = m THEN g[m - 1] + terms[m] ELSE g[n]]
  <2>6. m \in 1 .. L /\ m - 1 \in Nat /\ terms[m] \in Nat /\ g[m - 1] \in Nat
    BY <1>1, <2>2, <2>3, <2>5
  <2>7. h \in [0 .. m -> Nat] /\ h[0] = 0
    BY <2>5, <2>6
  <2>8. \A n \in 1 .. m : h[n] = h[n - 1] + terms[n]
    BY <2>5, <2>6
  <2> QED
    BY <2>2, <2>7, <2>8
<1>3. PICK g : Upto(g, L)
  <2>1. L \in 0 .. L
    BY <1>1
  <2> HIDE DEF Upto
  <2> QED
    BY <1>2, <2>1
<1>4. Rec(g)
  <2>1. DOMAIN g = 0 .. L /\ g \in [0 .. L -> Nat]
    BY <1>3
  <2>2. \A n \in 0 .. L : g[n] = IF n = 0 THEN 0 ELSE g[n - 1] + terms[n]
    BY <1>1, <1>3
  <2> QED
    BY <2>1, <2>2
<1>5. RunningSums(terms) = CHOOSE f : Rec(f)
  BY DEF RunningSums, L
<1>6. Rec(RunningSums(terms))
  <2> HIDE DEF Rec
  <2> QED
    BY <1>4, <1>5
<1>7. PICK s : s = RunningSums(terms)
  OBVIOUS
<1>8. /\ DOMAIN s = 0 .. L /\ s[0] = 0
      /\ s = [n \in DOMAIN s |-> s[n]]
      /\ \A n \in 1 .. L : s[n] = s[n - 1] + terms[n]
  <2>1. s = [n \in 0 .. L |-> IF n = 0 THEN 0 ELSE s[n - 1] + terms[n]]
    BY <1>6, <1>7
  <2>2. DOMAIN s = 0 .. L /\ \A n \in 0 .. L :
          s[n] = IF n = 0 THEN 0 ELSE s[n - 1] + terms[n]
    BY <2>1, Zenon
  <2>3. s = [n \in DOMAIN s |-> s[n]]
    BY <2>1, Zenon
  <2>4. s[0] = 0
    BY <1>1, <2>2
  <2>5. \A n \in 1 .. L : s[n] = s[n - 1] + terms[n]
    BY <1>1, <2>2
  <2> QED
    BY <2>2, <2>3, <2>4, <2>5, Zenon
<1>9. \A n \in 0 .. L : s[n] \in Nat
  <2> DEFINE U == {n \in 0 .. L : s[n] \notin Nat}
  <2>1. ASSUME U # {} PROVE FALSE
    <3>1. PICK m \in U : \A k \in U : m <= k
      <4>1. U \in SUBSET Nat
        BY <1>1
      <4> HIDE DEF U
      <4> QED
        BY <2>1, <4>1, LeastNumber
    <3>2. m \in 1 .. L /\ m - 1 \in 0 .. L
      BY <1>1, <1>8, <3>1
    <3>3. s[m - 1] \in Nat
      BY <3>1, <3>2
    <3>4. s[m] = s[m - 1] + terms[m]
      BY <1>8, <3>2
    <3>5. terms[m] \in Nat
      BY <1>1, <3>2
    <3>6. s[m] \in Nat
      BY <3>3, <3>4, <3>5
    <3> QED
      BY <3>1, <3>6
  <2> QED
    BY <2>1
<1> QED
  BY <1>7, <1>8, <1>9 DEF L

(* The first n factors multiply to the first n - 1 times the n-th. *)
LEMMA RunningProductsDef ==
  ASSUME NEW factors \in Seq(Nat)
  PROVE  /\ RunningProducts(factors) \in [0 .. Len(factors) -> Nat]
         /\ RunningProducts(factors)[0] = 1
         /\ \A n \in 1 .. Len(factors) :
              RunningProducts(factors)[n] = RunningProducts(factors)[n - 1] * factors[n]
<1> DEFINE L == Len(factors)
           Upto(g, k) ==
             /\ g \in [0 .. k -> Nat] /\ g[0] = 1
             /\ \A n \in 1 .. k : g[n] = g[n - 1] * factors[n]
           Rec(g) ==
             g = [n \in 0 .. L |-> IF n = 0 THEN 1 ELSE g[n - 1] * factors[n]]
           T == {k \in 0 .. L : ~ \E g : Upto(g, k)}
<1>1. L \in Nat /\ \A n \in 1 .. L : factors[n] \in Nat
  OBVIOUS
<1> HIDE DEF L
<1>2. ASSUME T # {} PROVE FALSE
  <2>1. PICK m \in T : \A k \in T : m <= k
    <3>1. T \in SUBSET Nat
      BY <1>1
    <3> HIDE DEF T
    <3> QED
      BY <1>2, <3>1, LeastNumber
  <2>2. m \in 0 .. L /\ ~ \E g : Upto(g, m)
    OBVIOUS
  <2>3. m # 0
    <3>1. Upto([n \in 0 .. 0 |-> 1], 0)
      OBVIOUS
    <3> QED
      BY <2>2, <3>1
  <2>4. m - 1 \in 0 .. L /\ ~ (m <= m - 1)
    BY <1>1, <2>2, <2>3
  <2>5. PICK g : Upto(g, m - 1)
    <3> HIDE DEF Upto
    <3> QED
      BY <2>1, <2>4
  <2> DEFINE h == [n \in 0 .. m |-> IF n = m THEN g[m - 1] * factors[m] ELSE g[n]]
  <2>6. m \in 1 .. L /\ m - 1 \in Nat /\ factors[m] \in Nat /\ g[m - 1] \in Nat
    BY <1>1, <2>2, <2>3, <2>5
  <2>7. h \in [0 .. m -> Nat] /\ h[0] = 1
    BY <2>5, <2>6
  <2>8. \A n \in 1 .. m : h[n] = h[n - 1] * factors[n]
    BY <2>5, <2>6
  <2> QED
    BY <2>2, <2>7, <2>8
<1>3. PICK g : Upto(g, L)
  <2>1. L \in 0 .. L
    BY <1>1
  <2> HIDE DEF Upto
  <2> QED
    BY <1>2, <2>1
<1>4. Rec(g)
  <2>1. DOMAIN g = 0 .. L /\ g \in [0 .. L -> Nat]
    BY <1>3
  <2>2. \A n \in 0 .. L : g[n] = IF n = 0 THEN 1 ELSE g[n - 1] * factors[n]
    BY <1>1, <1>3
  <2> QED
    BY <2>1, <2>2
<1>5. RunningProducts(factors) = CHOOSE f : Rec(f)
  BY DEF RunningProducts, L
<1>6. Rec(RunningProducts(factors))
  <2> HIDE DEF Rec
  <2> QED
    BY <1>4, <1>5
<1>7. PICK s : s = RunningProducts(factors)
  OBVIOUS
<1>8. /\ DOMAIN s = 0 .. L /\ s[0] = 1
      /\ s = [n \in DOMAIN s |-> s[n]]
      /\ \A n \in 1 .. L : s[n] = s[n - 1] * factors[n]
  <2>1. s = [n \in 0 .. L |-> IF n = 0 THEN 1 ELSE s[n - 1] * factors[n]]
    BY <1>6, <1>7
  <2>2. DOMAIN s = 0 .. L /\ \A n \in 0 .. L :
          s[n] = IF n = 0 THEN 1 ELSE s[n - 1] * factors[n]
    BY <2>1, Zenon
  <2>3. s = [n \in DOMAIN s |-> s[n]]
    BY <2>1, Zenon
  <2>4. s[0] = 1
    BY <1>1, <2>2
  <2>5. \A n \in 1 .. L : s[n] = s[n - 1] * factors[n]
    BY <1>1, <2>2
  <2> QED
    BY <2>2, <2>3, <2>4, <2>5, Zenon
<1>9. \A n \in 0 .. L : s[n] \in Nat
  <2> DEFINE U == {n \in 0 .. L : s[n] \notin Nat}
  <2>1. ASSUME U # {} PROVE FALSE
    <3>1. PICK m \in U : \A k \in U : m <= k
      <4>1. U \in SUBSET Nat
        BY <1>1
      <4> HIDE DEF U
      <4> QED
        BY <2>1, <4>1, LeastNumber
    <3>2. m \in 1 .. L /\ m - 1 \in 0 .. L
      BY <1>1, <1>8, <3>1
    <3>3. s[m - 1] \in Nat
      BY <3>1, <3>2
    <3>4. s[m] = s[m - 1] * factors[m]
      BY <1>8, <3>2
    <3>5. factors[m] \in Nat
      BY <1>1, <3>2
    <3>6. s[m] \in Nat
      BY <3>3, <3>4, <3>5
    <3> QED
      BY <3>1, <3>6
  <2> QED
    BY <2>1
<1> QED
  BY <1>7, <1>8, <1>9 DEF L

(* Running sums do not decrease. *)
LEMMA RunningSumsGrow ==
  ASSUME NEW terms \in Seq(Nat), NEW m \in 0 .. Len(terms), NEW n \in m .. Len(terms)
  PROVE  RunningSums(terms)[m] <= RunningSums(terms)[n]
<1>1. PICK s : s = RunningSums(terms)
  OBVIOUS
<1>2. PICK L \in Nat : L = Len(terms)
  OBVIOUS
<1>3. /\ s \in [0 .. L -> Nat]
      /\ \A k \in 1 .. L : terms[k] \in Nat /\ s[k] = s[k - 1] + terms[k]
  <2>1. \A k \in 1 .. L : terms[k] \in Nat
    BY <1>2
  <2> QED
    BY <1>1, <1>2, <2>1, RunningSumsDef
<1> DEFINE T == {k \in m .. L : s[k] < s[m]}
<1>4. ASSUME T # {} PROVE FALSE
  <2>1. PICK k \in T : \A j \in T : k <= j
    <3>1. T \in SUBSET Nat
      BY <1>2
    <3> HIDE DEF T
    <3> QED
      BY <1>4, <3>1, LeastNumber
  <2>2. k \in m .. L /\ s[k] < s[m] /\ m \in Nat /\ k \in Nat /\ k # m
    <3>1. k \in m .. L /\ s[k] < s[m] /\ m \in 0 .. L
      BY <1>2
    <3>2. s[m] \in Nat /\ m \in Nat /\ k \in Nat
      BY <1>2, <1>3, <3>1
    <3> QED
      BY <3>1, <3>2
  <2>3. k \in 1 .. L /\ k - 1 \in m .. L /\ ~ (k <= k - 1) /\ k - 1 \in 0 .. L /\ m \in 0 .. L
    BY <1>2, <2>2
  <2>4. ~ (s[k - 1] < s[m])
    BY <2>1, <2>3
  <2>5. s[k] \in Nat /\ s[k - 1] \in Nat /\ s[m] \in Nat /\ terms[k] \in Nat
    BY <1>3, <2>3
  <2> QED
    BY <1>3, <2>2, <2>3, <2>4, <2>5
<1>5. ~ (s[n] < s[m]) /\ s[n] \in Nat /\ s[m] \in Nat
  <2>1. m \in 0 .. L /\ n \in 0 .. L /\ n \in m .. L
    BY <1>2
  <2>2. s[n] \in Nat /\ s[m] \in Nat
    BY <1>3, <2>1
  <2> QED
    BY <1>4, <2>1, <2>2
<1> QED
  BY <1>1, <1>5

(* Positive terms make them grow. *)
LEMMA RunningSumsGrowStrictly ==
  ASSUME NEW terms \in Seq(Nat \ {0}),
         NEW m \in 0 .. Len(terms), NEW n \in 0 .. Len(terms), m < n
  PROVE  RunningSums(terms)[m] < RunningSums(terms)[n]
<1>1. PICK s : s = RunningSums(terms)
  OBVIOUS
<1>2. PICK L \in Nat : L = Len(terms)
  OBVIOUS
<1>3. terms \in Seq(Nat) /\ \A k \in 1 .. L : terms[k] \in Nat /\ terms[k] > 0
  BY <1>2
<1>4. /\ s \in [0 .. L -> Nat]
      /\ \A k \in 1 .. L : s[k] = s[k - 1] + terms[k]
  BY <1>1, <1>2, <1>3, RunningSumsDef
<1>5. m + 1 \in 1 .. L /\ m \in 0 .. L /\ n \in 0 .. L /\ n \in (m + 1) .. L /\ m + 1 - 1 = m
  BY <1>2
<1>6. s[m + 1] = s[m] + terms[m + 1]
  BY <1>4, <1>5
<1>7. s[m + 1] <= s[n]
  <2>1. m + 1 \in 0 .. L
    BY <1>5
  <2> QED
    BY <1>1, <1>2, <1>3, <1>5, <2>1, RunningSumsGrow
<1>8. s[m] \in Nat /\ s[m + 1] \in Nat /\ s[n] \in Nat
  <2>1. m + 1 \in 0 .. L
    BY <1>5
  <2> QED
    BY <1>4, <1>5, <2>1
<1> QED
  BY <1>1, <1>3, <1>5, <1>6, <1>7, <1>8

=============================================================================
