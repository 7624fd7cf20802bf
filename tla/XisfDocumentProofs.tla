-------------------------- MODULE XisfDocumentProofs --------------------------
(***************************************************************************)
(* Proofs about XisfDocument, for documents of any size and depth: the     *)
(* visitor accepts what is in its place, the validator's tree is the       *)
(* document's and within its budget, and the consumers agree.              *)
(***************************************************************************)
EXTENDS XisfDocument, ByteTotalsProofs, SequenceTheorems

(* Sets of numbers in order.                                               *)

Bounded(S) == \E n \in Nat : S \subseteq 1..n
Lists(s, S) == s \in [1..Cardinality(S) -> S] /\ Ordered(s)

(* Numbers below a bound are finitely many. *)
LEMMA BoundedFinite ==
  ASSUME NEW S, Bounded(S)
  PROVE  IsFiniteSet(S) /\ Cardinality(S) \in Nat /\ S \subseteq Nat
<1>1. PICK n \in Nat : S \subseteq 1..n
  BY DEF Bounded
<1>2. IsFiniteSet(1..n)
  BY <1>1, FS_Interval
<1>3. IsFiniteSet(S)
  BY <1>1, <1>2, FS_Subset
<1> QED
  BY <1>1, <1>3, FS_CardinalityType

(* What a listing is, spelled out. *)
LEMMA ListsMeans ==
  ASSUME NEW S, NEW s
  PROVE  Lists(s, S) <=>
           /\ s \in [1..Cardinality(S) -> S]
           /\ \A k, l \in 1..Cardinality(S) : k < l => s[k] < s[l]
<1>1. s \in [1..Cardinality(S) -> S] => DOMAIN s = 1..Cardinality(S)
  OBVIOUS
<1> QED
  BY <1>1, Zenon DEF Lists, Ordered

(* A listing has every number of its set. *)
LEMMA ListingIsOnto ==
  ASSUME NEW S, Bounded(S), NEW s, Lists(s, S)
  PROVE  \A x \in S : \E k \in 1..Cardinality(S) : s[k] = x
<1> DEFINE c == Cardinality(S)
<1>1. IsFiniteSet(S) /\ c \in Nat
  BY BoundedFinite
<1>2. \A k, l \in 1..c : s[k] = s[l] => k = l
  <2>1. \A k, l \in 1..c : k < l => s[k] < s[l]
    BY ListsMeans
  <2>2. s \in [1..c -> S]
    BY ListsMeans
  <2>3. S \subseteq Nat
    BY BoundedFinite
  <2> HIDE DEF c
  <2>4. \A k \in 1..c : s[k] \in Nat
    BY <2>2, <2>3
  <2> QED
    BY <1>1, <2>1, <2>4
<1>3. s \in Injection(1..c, S)
  <2>1. s \in [1..c -> S]
    BY DEF Lists
  <2> QED
    BY <1>2, <2>1 DEF Injection, IsInjective
<1>4. IsFiniteSet(1..c) /\ Cardinality(1..c) = c
  BY <1>1, FS_Interval
<1>5. s \in Surjection(1..c, S)
  BY <1>1, <1>3, <1>4, FS_Injection
<1> QED
  BY <1>5 DEF Surjection

(* There is only one listing. *)
LEMMA ListingIsUnique ==
  ASSUME NEW S, Bounded(S),
         NEW s, Lists(s, S), NEW t, Lists(t, S)
  PROVE  s = t
<1> DEFINE c == Cardinality(S)
<1>1. c \in Nat
  BY BoundedFinite
<1>2. /\ s \in [1..c -> Nat] /\ \A k, l \in 1..c : k < l => s[k] < s[l]
      /\ t \in [1..c -> Nat] /\ \A k, l \in 1..c : k < l => t[k] < t[l]
  <2>1. s \in [1..c -> S] /\ t \in [1..c -> S] /\ S \subseteq Nat
    BY ListsMeans, BoundedFinite
  <2>2. s \in [1..c -> Nat] /\ t \in [1..c -> Nat]
    BY <2>1
  <2> QED
    BY <2>2, ListsMeans
<1>3. /\ \A x \in 1..c : \E k \in 1..c : s[k] = t[x]
      /\ \A x \in 1..c : \E k \in 1..c : t[k] = s[x]
  <2>1. \A x \in 1..c : s[x] \in S /\ t[x] \in S
    BY DEF Lists
  <2>2. \A x \in S : \E k \in 1..c : s[k] = x
    BY ListingIsOnto
  <2>3. \A x \in S : \E k \in 1..c : t[k] = x
    BY ListingIsOnto
  <2> QED
    BY <2>1, <2>2, <2>3
<1> DEFINE T == {k \in 1..c : s[k] # t[k]}
<1>4. SUFFICES ASSUME T # {} PROVE FALSE
  <2>1. s \in [1..c -> Nat] /\ t \in [1..c -> Nat]
    BY <1>2
  <2> HIDE DEF c
  <2>2. CASE T = {}
    <3>1. \A k \in 1..c : s[k] = t[k]
      BY <2>2
    <3>2. s = [k \in 1..c |-> s[k]] /\ t = [k \in 1..c |-> t[k]]
      BY <2>1
    <3> HIDE DEF T
    <3> QED
      BY <3>1, <3>2
  <2> QED
    BY <2>2
<1>5. PICK m \in T : \A x \in T : m <= x
  <2>1. T \in SUBSET Nat
    BY <1>1
  <2> HIDE DEF T
  <2> QED
    BY <1>4, <2>1, LeastNumber
<1>6. \A x \in 1..c : x < m => s[x] = t[x]
  BY <1>1, <1>5
<1>7. PICK k \in 1..c, l \in 1..c : s[k] = t[m] /\ t[l] = s[m]
  BY <1>3, <1>5
<1>8. s[m] \in Nat /\ t[m] \in Nat /\ s[m] # t[m] /\ m \in 1..c
  BY <1>2, <1>5
<1> HIDE DEF c, T
<1>9. CASE s[m] < t[m]
  <2>1. CASE l < m
    <3>1. s[l] = t[l] /\ s[l] < s[m]
      BY <1>2, <1>6, <1>7, <1>8, <2>1
    <3> QED
      BY <1>7, <1>8, <3>1
  <2>2. CASE m < l
    BY <1>2, <1>7, <1>8, <1>9, <2>2
  <2> QED
    BY <1>1, <1>7, <1>8, <2>1, <2>2
<1>10. CASE t[m] < s[m]
  <2>1. CASE k < m
    <3>1. s[k] = t[k] /\ t[k] < t[m]
      BY <1>2, <1>6, <1>7, <1>8, <2>1
    <3> QED
      BY <1>7, <1>8, <3>1
  <2>2. CASE m < k
    BY <1>2, <1>7, <1>8, <1>10, <2>2
  <2> QED
    BY <1>1, <1>7, <1>8, <2>1, <2>2
<1> QED
  BY <1>8, <1>9, <1>10

(* The listing of a set is the one sequence that lists it. *)
LEMMA ListingIs ==
  ASSUME NEW S, Bounded(S), NEW s, Lists(s, S)
  PROVE  Listing(S) = s
<1>1. Lists(Listing(S), S)
  BY DEF Listing, Lists
<1> QED
  BY <1>1, ListingIsUnique

(* A number beyond all of a set goes to the end of the listing. *)
LEMMA ListsMore ==
  ASSUME NEW S, Bounded(S), NEW s, Lists(s, S),
         NEW m \in Nat \ {0}, \A x \in S : x < m
  PROVE  /\ Bounded(S \cup {m})
         /\ Cardinality(S \cup {m}) = Cardinality(S) + 1
         /\ Lists([k \in 1..(Cardinality(S) + 1) |->
                     IF k <= Cardinality(S) THEN s[k] ELSE m], S \cup {m})
<1> DEFINE c == Cardinality(S)
           t == [k \in 1..(c + 1) |-> IF k <= c THEN s[k] ELSE m]
<1>1. IsFiniteSet(S) /\ c \in Nat /\ S \subseteq Nat
  BY BoundedFinite
<1>2. Cardinality(S \cup {m}) = c + 1
  <2>1. m \notin S
    BY <1>1
  <2> QED
    BY <1>1, <2>1, FS_AddElement
<1>3. s \in [1..c -> S] /\ \A k, l \in 1..c : k < l => s[k] < s[l]
  BY ListsMeans
<1>4. Bounded(S \cup {m})
  <2>1. PICK n \in Nat : S \subseteq 1..n
    BY DEF Bounded
  <2>2. S \cup {m} \subseteq 1..m
    BY <1>1, <2>1
  <2> QED
    BY <2>2 DEF Bounded
<1> HIDE DEF c
<1>5. t \in [1..(c + 1) -> S \cup {m}]
  BY <1>1, <1>3
<1>6. \A k, l \in 1..(c + 1) : k < l => t[k] < t[l]
  <2>1. \A k \in 1..c : s[k] \in Nat /\ s[k] < m
    BY <1>1, <1>3
  <2> QED
    BY <1>1, <1>3, <2>1
<1>7. Lists(t, S \cup {m})
  <2> HIDE DEF t
  <2> QED
    BY <1>2, <1>5, <1>6, ListsMeans
<1> QED
  BY <1>2, <1>4, <1>7 DEF c

(* Every bounded set of numbers has a listing. *)
LEMMA ListingExists ==
  ASSUME NEW S, Bounded(S)
  PROVE  Lists(Listing(S), S)
<1> DEFINE Bad(i) == \E R \in SUBSET (1..i) : \A s : ~Lists(s, R)
           T == {i \in Nat : Bad(i)}
<1>1. T = {}
  <2> SUFFICES ASSUME T # {} PROVE FALSE
    OBVIOUS
  <2>1. PICK m \in T : \A x \in T : m <= x
    <3>1. T \in SUBSET Nat
      OBVIOUS
    <3> HIDE DEF T
    <3> QED
      BY <3>1, LeastNumber
  <2>2. PICK R \in SUBSET (1..m) : \A s : ~Lists(s, R)
    BY <2>1
  <2>3. m \in Nat
    BY <2>1
  <2>4. R # {}
    <3> SUFFICES ASSUME R = {} PROVE FALSE
      OBVIOUS
    <3>1. Cardinality(R) = 0
      BY FS_EmptySet
    <3>2. Lists(<<>>, R)
      <4>1. /\ <<>> \in [1..0 -> R]
            /\ \A k, l \in 1..0 : k < l => <<>>[k] < <<>>[l]
        OBVIOUS
      <4> QED
        BY <3>1, <4>1, ListsMeans
    <3> QED
      BY <2>2, <3>2
  <2>5. m > 0 /\ m - 1 \in Nat
    <3>1. PICK x \in R : TRUE
      BY <2>4
    <3>2. x \in 1..m
      BY <3>1
    <3> QED
      BY <2>3, <3>2
  <2>6. ~Bad(m - 1)
    <3> HIDE DEF Bad
    <3>1. m - 1 \notin T
      <4> HIDE DEF T
      <4> QED
        BY <2>1, <2>3, <2>5
    <3> QED
      BY <2>5, <3>1
  <2> DEFINE Q == R \ {m}
  <2>7. Q \subseteq 1..(m - 1)
    BY <2>3, <2>5
  <2>8. PICK s : Lists(s, Q)
    BY <2>6, <2>7
  <2>9. CASE m \in R
    <3>1. (\A x \in Q : x < m) /\ m \in Nat \ {0}
      BY <2>3, <2>5, <2>7
    <3>2. Bounded(Q)
      <4> HIDE DEF Q
      <4> QED
        BY <2>5, <2>7 DEF Bounded
    <3>3. R = Q \cup {m}
      BY <2>9
    <3> HIDE DEF Q
    <3>4. \E t : Lists(t, Q \cup {m})
      BY <2>8, <3>1, <3>2, ListsMore
    <3> QED
      BY <2>2, <3>3, <3>4
  <2>10. CASE m \notin R
    <3>1. R = Q
      BY <2>10
    <3> QED
      BY <2>2, <2>8, <3>1
  <2> QED
    BY <2>9, <2>10
<1>2. PICK n \in Nat : S \subseteq 1..n
  BY DEF Bounded
<1>3. ~Bad(n)
  BY <1>1
<1>4. \E s : Lists(s, S)
  BY <1>2, <1>3
<1> QED
  BY <1>4, ListingIs

(* How the listing of a set grows. *)
LEMMA ListingGrows ==
  ASSUME NEW S, Bounded(S), NEW m \in Nat \ {0}, \A x \in S : x < m
  PROVE  /\ Cardinality(S) \in Nat /\ Bounded(S \cup {m})
         /\ Cardinality(S \cup {m}) = Cardinality(S) + 1
         /\ Listing(S \cup {m}) = [k \in 1..(Cardinality(S) + 1) |->
               IF k <= Cardinality(S) THEN Listing(S)[k] ELSE m]
<1>1. Lists(Listing(S), S)
  BY ListingExists
<1> QED
  BY <1>1, ListsMore, ListingIs, BoundedFinite, SMTT(20)

-----------------------------------------------------------------------------
(* The depth of an event and the elements around it.                       *)

Event ==
  [kind : {"start", "empty"}, tag : Tags]
  \cup [kind : {"close"}, name : {tag.name : tag \in Tags},
        space : {tag.space : tag \in Tags}]
  \cup [kind : {"text", "cdata"}, text : {"word", "blank"}]
  \cup [kind : {"doctype", "malformed", "eof"}]

Plus(i) == IF Nests(i) THEN 1 ELSE 0
Minus(i) == IF Closes(i) THEN 1 ELSE 0

(* Counting one number further. *)
LEMMA CountedUpTo ==
  ASSUME NEW i \in Nat, NEW A, NEW B, NEW new, A \subseteq 1..(i - 1),
         B = A \/ B = A \cup {i}, new = IF i \in B THEN 1 ELSE 0
  PROVE  /\ Cardinality(A) \in Nat /\ Cardinality(B) \in Nat
         /\ Cardinality(B) = Cardinality(A) + new
<1>1. Bounded(A) \/ A = {}
  <2>1. i = 0 => A = {}
    OBVIOUS
  <2>2. i # 0 => i - 1 \in Nat
    OBVIOUS
  <2> QED
    BY <2>1, <2>2 DEF Bounded
<1>2. IsFiniteSet(A) /\ Cardinality(A) \in Nat
  <2>1. CASE A = {}
    BY <2>1, FS_EmptySet
  <2>2. CASE Bounded(A)
    BY <2>2, BoundedFinite
  <2> QED
    BY <1>1, <2>1, <2>2
<1>3. i \notin A
  OBVIOUS
<1>4. CASE B = A
  BY <1>2, <1>3, <1>4
<1>5. CASE B = A \cup {i}
  <2>1. Cardinality(B) = Cardinality(A) + 1
    BY <1>2, <1>3, <1>5, FS_AddElement
  <2> QED
    BY <1>2, <1>5, <2>1
<1> QED
  BY <1>4, <1>5

(* The depth goes up after a start tag and down after an end tag. *)
LEMMA DepthCounts ==
  /\ Depth(1) = 0
  /\ \A i \in Nat \ {0} : Depth(i) \in Int /\ Depth(i + 1) = Depth(i) + Plus(i) - Minus(i)
<1> DEFINE N(i) == {j \in 1..(i - 1) : Nests(j)}
           C(i) == {j \in 1..(i - 1) : Closes(j)}
<1>1. \A i : Depth(i) = Cardinality(N(i)) - Cardinality(C(i))
  BY DEF Depth
<1>2. N(1) = {} /\ C(1) = {}
  OBVIOUS
<1>3. ASSUME NEW i \in Nat \ {0}
      PROVE  /\ N(i) \subseteq 1..(i - 1) /\ C(i) \subseteq 1..(i - 1)
             /\ N(i + 1) = N(i) \/ N(i + 1) = N(i) \cup {i}
             /\ C(i + 1) = C(i) \/ C(i + 1) = C(i) \cup {i}
             /\ i \in N(i + 1) <=> Nests(i)
             /\ i \in C(i + 1) <=> Closes(i)
  <2>1. 1..(i + 1 - 1) = 1..(i - 1) \cup {i}
    OBVIOUS
  <2> QED
    BY <2>1
<1> HIDE DEF N, C
<1>4. Depth(1) = 0
  BY <1>1, <1>2, FS_EmptySet
<1>5. ASSUME NEW i \in Nat \ {0}
      PROVE  Depth(i) \in Int /\ Depth(i + 1) = Depth(i) + Plus(i) - Minus(i)
  <2>1. /\ Cardinality(N(i)) \in Nat /\ Cardinality(N(i + 1)) \in Nat
        /\ Cardinality(N(i + 1)) = Cardinality(N(i)) + Plus(i)
    <3>1. N(i) \subseteq 1..(i - 1)
      BY <1>3
    <3>2. N(i + 1) = N(i) \/ N(i + 1) = N(i) \cup {i}
      BY <1>3
    <3>3. Plus(i) = IF i \in N(i + 1) THEN 1 ELSE 0
      BY <1>3 DEF Plus
    <3> QED
      BY <3>1, <3>2, <3>3, CountedUpTo
  <2>2. /\ Cardinality(C(i)) \in Nat /\ Cardinality(C(i + 1)) \in Nat
        /\ Cardinality(C(i + 1)) = Cardinality(C(i)) + Minus(i)
    <3>1. C(i) \subseteq 1..(i - 1)
      BY <1>3
    <3>2. C(i + 1) = C(i) \/ C(i + 1) = C(i) \cup {i}
      BY <1>3
    <3>3. Minus(i) = IF i \in C(i + 1) THEN 1 ELSE 0
      BY <1>3 DEF Minus
    <3> QED
      BY <3>1, <3>2, <3>3, CountedUpTo
  <2>3. Plus(i) \in Int /\ Minus(i) \in Int
    BY DEF Plus, Minus
  <2> QED
    BY <1>1, <2>1, <2>2, <2>3
<1> QED
  BY <1>4, <1>5

(* What is around an event is around the next one, if it is not closed. *)
LEMMA AroundNext ==
  \A i \in Nat \ {0} :
    /\ Around(i) \subseteq 1..(i - 1)
    /\ \A j \in Around(i) : Nests(j) /\ Depth(j) < Depth(i)
    /\ \A j : j \in Around(i + 1) <=>
         /\ j \in Around(i) \/ (j = i /\ Nests(i))
         /\ Depth(j) < Depth(i + 1)
<1> SUFFICES ASSUME NEW i \in Nat \ {0}
    PROVE /\ Around(i) \subseteq 1..(i - 1)
          /\ \A j \in Around(i) : Nests(j) /\ Depth(j) < Depth(i)
          /\ \A j : j \in Around(i + 1) <=>
               /\ j \in Around(i) \/ (j = i /\ Nests(i))
               /\ Depth(j) < Depth(i + 1)
  OBVIOUS
<1>1. Around(i) \subseteq 1..(i - 1)
  BY DEF Around
<1>2. \A j \in Nat \ {0} : Depth(j) \in Int
  BY DepthCounts
<1>3. ASSUME NEW j \in Around(i) PROVE Nests(j) /\ Depth(j) < Depth(i)
  <2>1. j \in 1..(i - 1) /\ Nests(j) /\ \A k \in (j + 1)..i : Depth(k) > Depth(j)
    BY DEF Around
  <2>2. i \in (j + 1)..i
    BY <2>1
  <2> QED
    BY <1>2, <2>1, <2>2
<1>4. ASSUME NEW j \in Around(i + 1)
      PROVE  (j \in Around(i) \/ (j = i /\ Nests(i))) /\ Depth(j) < Depth(i + 1)
  <2>1. /\ j \in 1..i /\ Nests(j)
        /\ \A k \in (j + 1)..(i + 1) : Depth(k) > Depth(j)
    BY DEF Around
  <2>2. i + 1 \in (j + 1)..(i + 1)
    BY <2>1
  <2>3. Depth(j) < Depth(i + 1)
    BY <1>2, <2>1, <2>2
  <2>4. CASE j = i
    BY <2>1, <2>3, <2>4
  <2>5. CASE j # i
    <3>1. j \in 1..(i - 1) /\ \A k \in (j + 1)..i : k \in (j + 1)..(i + 1)
      BY <2>1, <2>5
    <3>2. j \in Around(i)
      BY <2>1, <3>1 DEF Around
    <3> QED
      BY <2>3, <3>2
  <2> QED
    BY <2>4, <2>5
<1>5. ASSUME NEW j, j \in Around(i) \/ (j = i /\ Nests(i)), Depth(j) < Depth(i + 1)
      PROVE  j \in Around(i + 1)
  <2>1. j \in 1..i /\ Nests(j)
    BY <1>1, <1>3, <1>5
  <2>2. \A k \in (j + 1)..i : Depth(k) > Depth(j)
    BY <1>5, <2>1 DEF Around
  <2>3. \A k \in (j + 1)..(i + 1) : k = i + 1 \/ k \in (j + 1)..i
    BY <2>1
  <2>4. Depth(i + 1) > Depth(j)
    BY <1>2, <1>5, <2>1
  <2>5. j \in 1..(i + 1 - 1)
    BY <2>1
  <2> QED
    BY <2>1, <2>2, <2>3, <2>4, <2>5 DEF Around
<1> QED
  BY <1>1, <1>3, <1>4, <1>5

(* The open elements before event i, from the root inwards. *)
IsPath(ids, i) ==
  /\ ids \in Seq(Nat) /\ Len(ids) = Depth(i)
  /\ Around(i) = {ids[k] : k \in 1..Len(ids)}
  /\ \A k \in 1..Len(ids) :
       /\ Nests(ids[k]) /\ Depth(ids[k]) = k - 1
       /\ Around(ids[k]) = {ids[m] : m \in 1..(k - 1)}

(* The path of open elements is increasing and ends before the event. *)
LEMMA PathIsBefore ==
  \A ids : \A i \in Nat \ {0} : IsPath(ids, i) =>
    /\ \A k \in 1..Len(ids) : ids[k] \in 1..(i - 1)
    /\ \A k, l \in 1..Len(ids) : k < l => ids[k] < ids[l]
<1> SUFFICES ASSUME NEW i \in Nat \ {0}, NEW ids, IsPath(ids, i)
    PROVE /\ \A k \in 1..Len(ids) : ids[k] \in 1..(i - 1)
          /\ \A k, l \in 1..Len(ids) : k < l => ids[k] < ids[l]
  OBVIOUS
<1>1. ids \in Seq(Nat) /\ Len(ids) \in Nat
  BY DEF IsPath
<1>2. \A k \in 1..Len(ids) : ids[k] \in 1..(i - 1)
  <2>1. \A k \in 1..Len(ids) : ids[k] \in Around(i)
    BY DEF IsPath
  <2> QED
    BY <2>1, AroundNext
<1>3. ASSUME NEW k \in 1..Len(ids), NEW l \in 1..Len(ids), k < l
      PROVE  ids[k] < ids[l]
  <2>1. k \in 1..(l - 1)
    BY <1>3
  <2>2. Around(ids[l]) = {ids[m] : m \in 1..(l - 1)}
    BY DEF IsPath
  <2>3. ids[k] \in Around(ids[l])
    BY <2>1, <2>2
  <2>4. ids[l] \in Nat \ {0} /\ ids[k] \in Nat
    BY <1>2
  <2>5. Around(ids[l]) \subseteq 1..(ids[l] - 1)
    BY <2>4, AroundNext
  <2> QED
    BY <2>3, <2>4, <2>5
<1> QED
  BY <1>2, <1>3

(* Nothing is open before the first event. *)
LEMMA PathStarts == IsPath(<<>>, 1)
<1>1. Around(1) = {}
  BY DEF Around
<1> QED
  BY <1>1, DepthCounts DEF IsPath

(* A start tag makes the path longer. *)
LEMMA PathGrows ==
  \A ids : \A i \in Nat \ {0} :
    IsPath(ids, i) /\ Nests(i) => IsPath(Append(ids, i), i + 1)
<1> SUFFICES ASSUME NEW i \in Nat \ {0}, NEW ids, IsPath(ids, i), Nests(i)
    PROVE  IsPath(Append(ids, i), i + 1)
  OBVIOUS
<1> DEFINE c == Len(ids)
           more == Append(ids, i)
<1>1. /\ ids \in Seq(Nat) /\ c \in Nat /\ c = Depth(i)
      /\ Around(i) = {ids[k] : k \in 1..c}
  BY DEF IsPath
<1>2. \A k \in 1..c :
        /\ Nests(ids[k]) /\ Depth(ids[k]) = k - 1
        /\ Around(ids[k]) = {ids[m] : m \in 1..(k - 1)}
  BY DEF IsPath
<1>3. /\ more \in Seq(Nat) /\ Len(more) = c + 1 /\ more[c + 1] = i
      /\ \A k \in 1..c : more[k] = ids[k]
  BY <1>1
<1>4. Depth(i + 1) = c + 1
  <2>1. Plus(i) = 1 /\ Minus(i) = 0
    BY DEF Plus, Minus, Nests, Closes
  <2> QED
    BY <1>1, <2>1, DepthCounts
<1> HIDE DEF c, more
<1>5. ASSUME NEW m \in 0..c
      PROVE  {more[k] : k \in 1..m} = {ids[k] : k \in 1..m}
  <2>1. \A k \in 1..m : more[k] = ids[k]
    BY <1>1, <1>3
  <2> QED
    BY <2>1
<1>6. Around(i + 1) = {more[k] : k \in 1..(c + 1)}
  <2>1. ASSUME NEW j PROVE j \in Around(i + 1) <=> j \in Around(i) \/ j = i
    <3>1. j \in Around(i) => Depth(j) < Depth(i) /\ j \in Nat \ {0}
      BY AroundNext
    <3>2. Depth(i) < Depth(i + 1) /\ Depth(i) \in Int
      BY <1>1, <1>4
    <3>3. j \in Around(i) => Depth(j) < Depth(i + 1)
      <4>1. j \in Around(i) => Depth(j) \in Int
        BY <3>1, DepthCounts
      <4> QED
        BY <1>1, <1>4, <3>1, <4>1
    <3>4. j \in Around(i + 1) <=>
            (j \in Around(i) \/ (j = i /\ Nests(i))) /\ Depth(j) < Depth(i + 1)
      BY AroundNext
    <3> QED
      BY <3>2, <3>3, <3>4
  <2>2. ASSUME NEW j PROVE j \in {more[k] : k \in 1..(c + 1)} <=> j \in Around(i) \/ j = i
    <3>1. 1..(c + 1) = 1..c \cup {c + 1}
      BY <1>1
    <3> QED
      BY <1>1, <1>3, <3>1
  <2> QED
    BY <2>1, <2>2
<1>7. ASSUME NEW k \in 1..(c + 1)
      PROVE  /\ Nests(more[k]) /\ Depth(more[k]) = k - 1
             /\ Around(more[k]) = {more[m] : m \in 1..(k - 1)}
  <2>1. CASE k \in 1..c
    <3>1. more[k] = ids[k] /\ k - 1 \in 0..c
      BY <1>1, <1>3, <2>1
    <3> QED
      BY <1>2, <1>5, <2>1, <3>1
  <2>2. CASE k = c + 1
    <3>1. more[k] = i /\ k - 1 = c /\ c \in 0..c
      BY <1>1, <1>3, <2>2
    <3>2. Around(i) = {more[m] : m \in 1..c}
      BY <1>1, <1>5, <3>1
    <3> QED
      BY <1>1, <3>1, <3>2
  <2> QED
    BY <1>1, <2>1, <2>2
<1>8. Len(more) = Depth(i + 1) /\ Around(i + 1) = {more[k] : k \in 1..Len(more)}
  BY <1>3, <1>4, <1>6
<1>9. IsPath(more, i + 1)
  BY <1>3, <1>7, <1>8 DEF IsPath
<1> QED
  BY <1>9 DEF more

(* An end tag makes it shorter. *)
LEMMA PathShrinks ==
  \A ids : \A i \in Nat \ {0} :
    IsPath(ids, i) /\ Closes(i) /\ ids # <<>> => IsPath(Front(ids), i + 1)
<1> SUFFICES ASSUME NEW i \in Nat \ {0}, NEW ids, IsPath(ids, i), Closes(i), ids # <<>>
    PROVE  IsPath(Front(ids), i + 1)
  OBVIOUS
<1> DEFINE c == Len(ids)
           less == Front(ids)
<1>1. /\ ids \in Seq(Nat) /\ c \in Nat \ {0} /\ c = Depth(i)
      /\ Around(i) = {ids[k] : k \in 1..c}
  BY DEF IsPath
<1>2. \A k \in 1..c :
        /\ Nests(ids[k]) /\ Depth(ids[k]) = k - 1
        /\ Around(ids[k]) = {ids[m] : m \in 1..(k - 1)}
  BY DEF IsPath
<1>3. /\ less \in Seq(Nat) /\ Len(less) = c - 1
      /\ \A k \in 1..(c - 1) : less[k] = ids[k]
  BY <1>1 DEF Front
<1>4. Depth(i + 1) = c - 1
  <2>1. Plus(i) = 0 /\ Minus(i) = 1
    BY DEF Plus, Minus, Nests, Closes
  <2> QED
    BY <1>1, <2>1, DepthCounts
<1> HIDE DEF c, less
<1>5. ASSUME NEW m \in 0..(c - 1)
      PROVE  {less[k] : k \in 1..m} = {ids[k] : k \in 1..m}
  <2>1. \A k \in 1..m : less[k] = ids[k]
    BY <1>1, <1>3
  <2> QED
    BY <2>1
<1>6. Around(i + 1) = {less[k] : k \in 1..(c - 1)}
  <2>1. ASSUME NEW j
        PROVE  j \in Around(i + 1) <=> j \in Around(i) /\ Depth(j) < c - 1
    <3>1. ~Nests(i)
      BY DEF Nests, Closes
    <3> QED
      BY <1>4, <3>1, AroundNext
  <2>2. ASSUME NEW j
        PROVE  j \in {ids[k] : k \in 1..(c - 1)} <=> j \in Around(i) /\ Depth(j) < c - 1
    <3>1. j \in Around(i) <=> \E k \in 1..c : j = ids[k]
      BY <1>1
    <3>2. \A k \in 1..c : Depth(ids[k]) = k - 1
      BY <1>2
    <3>3. \A k \in 1..c : Depth(ids[k]) < c - 1 <=> k \in 1..(c - 1)
      BY <1>1, <3>2
    <3> QED
      BY <1>1, <3>1, <3>3
  <2>3. c - 1 \in 0..(c - 1)
    BY <1>1
  <2> QED
    BY <1>5, <2>1, <2>2, <2>3
<1>7. ASSUME NEW k \in 1..(c - 1)
      PROVE  /\ Nests(less[k]) /\ Depth(less[k]) = k - 1
             /\ Around(less[k]) = {less[m] : m \in 1..(k - 1)}
  <2>1. less[k] = ids[k] /\ k - 1 \in 0..(c - 1) /\ k \in 1..c
    BY <1>1, <1>3
  <2> QED
    BY <1>2, <1>5, <2>1
<1>8. Len(less) = Depth(i + 1) /\ Around(i + 1) = {less[k] : k \in 1..Len(less)}
  BY <1>3, <1>4, <1>6
<1>9. IsPath(less, i + 1)
  BY <1>3, <1>7, <1>8 DEF IsPath
<1> QED
  BY <1>9 DEF less

(* Any other event leaves it. *)
LEMMA PathStays ==
  \A ids : \A i \in Nat \ {0} :
    IsPath(ids, i) /\ ~Nests(i) /\ ~Closes(i) => IsPath(ids, i + 1)
<1> SUFFICES ASSUME NEW i \in Nat \ {0}, NEW ids, IsPath(ids, i), ~Nests(i), ~Closes(i)
    PROVE  IsPath(ids, i + 1)
  OBVIOUS
<1>1. Depth(i + 1) = Depth(i) /\ Depth(i) \in Int
  BY DepthCounts DEF Plus, Minus
<1>2. ASSUME NEW j PROVE j \in Around(i + 1) <=> j \in Around(i)
  BY <1>1, AroundNext
<1>3. Around(i + 1) = Around(i)
  BY <1>2
<1> QED
  BY <1>1, <1>3 DEF IsPath

Continues ==
  \A ids : \A i \in Nat \ {0} : IsPath(ids, i) =>
    /\ Nests(i) => IsPath(Append(ids, i), i + 1)
    /\ Closes(i) /\ ids # <<>> => IsPath(Front(ids), i + 1)
    /\ ~Nests(i) /\ ~Closes(i) => IsPath(ids, i + 1)

(* The path of open elements after any event. *)
LEMMA PathContinues == Continues
  BY PathGrows, PathShrinks, PathStays DEF Continues

-----------------------------------------------------------------------------
(* What one more event leaves as it is, and what it adds.                  *)

OneMore(n, e) ==
  /\ events \in Seq(Event) /\ e \in Event
  /\ n = Len(events) /\ events' = Append(events, e)

(* One more event, and those before it as they were. *)
LEMMA Longer ==
  ASSUME NEW n, NEW e, OneMore(n, e)
  PROVE  /\ n \in Nat /\ Len(events') = n + 1 /\ events' \in Seq(Event)
         /\ DOMAIN events = 1..n /\ DOMAIN events' = 1..(n + 1)
         /\ events'[n + 1] = e /\ \A i \in 1..n : events'[i] = events[i]
  BY DEF OneMore

(* An event changes no depth at or before its place. *)
LEMMA DepthKept ==
  ASSUME NEW n, NEW e, OneMore(n, e)
  PROVE  \A i \in 1..(n + 1) : Depth(i)' = Depth(i)
<1> SUFFICES ASSUME NEW i \in 1..(n + 1) PROVE Depth(i)' = Depth(i)
  OBVIOUS
<1>1. n \in Nat /\ \A j \in 1..n : events'[j] = events[j]
  BY Longer
<1>2. \A j \in 1..(i - 1) : events'[j] = events[j]
  BY <1>1
<1>3. {j \in 1..(i - 1) : Nests(j)}' = {j \in 1..(i - 1) : Nests(j)}
  BY <1>2 DEF Nests
<1>4. {j \in 1..(i - 1) : Closes(j)}' = {j \in 1..(i - 1) : Closes(j)}
  BY <1>2 DEF Closes
<1> QED
  BY <1>3, <1>4 DEF Depth

(* An event changes what encloses no event at or before its place. *)
LEMMA AroundKept ==
  ASSUME NEW n, NEW e, OneMore(n, e)
  PROVE  \A i \in 1..(n + 1) : Around(i)' = Around(i) /\ Parent(i)' = Parent(i)
<1> SUFFICES ASSUME NEW i \in 1..(n + 1)
    PROVE Around(i)' = Around(i) /\ Parent(i)' = Parent(i)
  OBVIOUS
<1>1. n \in Nat /\ \A j \in 1..n : events'[j] = events[j]
  BY Longer
<1>2. \A j \in 1..(i - 1) : events'[j] = events[j]
  BY <1>1
<1>3. \A j \in 1..(i - 1) : \A k : k = j \/ k \in (j + 1)..i => Depth(k)' = Depth(k)
  BY <1>1, DepthKept
<1>4. \A j \in 1..(i - 1) : Nests(j)' <=> Nests(j)
  BY <1>2 DEF Nests
<1>5. \A j \in 1..(i - 1) : (\A k \in (j + 1)..i : Depth(k)' > Depth(j)')
                              <=> \A k \in (j + 1)..i : Depth(k) > Depth(j)
  BY <1>3
<1>6. Around(i)' = {j \in 1..(i - 1) : Nests(j)' /\ \A k \in (j + 1)..i : Depth(k)' > Depth(j)'}
  BY DEF Around
<1>7. Around(i)' = Around(i)
  <2>1. Around(i) = {j \in 1..(i - 1) : Nests(j) /\ \A k \in (j + 1)..i : Depth(k) > Depth(j)}
    BY DEF Around
  <2> QED
    BY <1>4, <1>5, <1>6, <2>1
<1> QED
  BY <1>7 DEF Parent, None

(* The events so far keep their place, and so does the path. *)
LEMMA PathKept ==
  ASSUME NEW n, NEW e, OneMore(n, e), NEW ids, IsPath(ids, n + 1)
  PROVE  IsPath(ids, n + 1)'
<1>1. n \in Nat /\ n + 1 \in Nat \ {0} /\ n + 1 \in 1..(n + 1)
      /\ \A j \in 1..n : events'[j] = events[j]
  BY Longer
<1>2. \A k \in 1..Len(ids) : ids[k] \in 1..n
  <2>1. \A k \in 1..Len(ids) : ids[k] \in 1..(n + 1 - 1)
    BY <1>1, PathIsBefore
  <2> QED
    BY <1>1, <2>1
<1>3. \A k \in 1..Len(ids) :
        /\ Nests(ids[k])' <=> Nests(ids[k])
        /\ Depth(ids[k])' = Depth(ids[k]) /\ Around(ids[k])' = Around(ids[k])
  <2>1. \A i \in 1..n : i \in 1..(n + 1)
    BY <1>1
  <2>2. \A i \in 1..n : Nests(i)' <=> Nests(i)
    BY <1>1 DEF Nests
  <2> QED
    BY <1>2, <2>1, <2>2, DepthKept, AroundKept
<1>4. Depth(n + 1)' = Depth(n + 1) /\ Around(n + 1)' = Around(n + 1)
  BY <1>1, DepthKept, AroundKept
<1> QED
  BY <1>3, <1>4 DEF IsPath

(* An event moves none before it into or out of an extension. *)
LEMMA ForeignKept ==
  ASSUME NEW n, NEW e, OneMore(n, e)
  PROVE  \A i \in 1..n : Foreign(i)' <=> Foreign(i)
<1> SUFFICES ASSUME NEW i \in 1..n PROVE Foreign(i)' <=> Foreign(i)
  OBVIOUS
<1>1. n \in Nat /\ \A j \in 1..n : events'[j] = events[j]
  BY Longer
<1>2. Around(i)' = Around(i)
  BY <1>1, AroundKept
<1>3. \A j \in Around(i) \cup {i} : j \in 1..n
  BY <1>1, AroundNext
<1>4. \A j \in Around(i) \cup {i} : events'[j] = events[j]
  BY <1>1, <1>3
<1> QED
  BY <1>2, <1>4 DEF Foreign, Opens, IsCore

(* The core elements so far, and the new one. *)
LEMMA CoreGrows ==
  ASSUME NEW n, NEW e, OneMore(n, e)
  PROVE  /\ Inner' = IF Foreign(n + 1)' THEN Inner ELSE Inner \cup {n + 1}
         /\ CoreElements' = IF ~Foreign(n + 1)' /\ Opens(n + 1)'
                             THEN CoreElements \cup {n + 1} ELSE CoreElements
         /\ CoreElements \subseteq 1..n /\ Inner \subseteq 1..n
<1>1. /\ n \in Nat /\ \A j \in 1..n : events'[j] = events[j]
      /\ DOMAIN events = 1..n /\ DOMAIN events' = 1..(n + 1)
  BY Longer
<1>2. \A i \in 1..n : (Foreign(i)' <=> Foreign(i)) /\ (Opens(i)' <=> Opens(i))
  BY <1>1, ForeignKept DEF Opens
<1>3. ASSUME NEW i
      PROVE  i \in Inner' <=> i \in Inner \/ (i = n + 1 /\ ~Foreign(n + 1)')
  <2>1. i \in Inner' <=> i \in 1..(n + 1) /\ ~Foreign(i)'
    BY <1>1 DEF Inner
  <2>2. i \in Inner <=> i \in 1..n /\ ~Foreign(i)
    BY <1>1 DEF Inner
  <2> QED
    BY <1>1, <1>2, <2>1, <2>2
<1>4. Inner \subseteq 1..n
  BY <1>1 DEF Inner
<1>5. ASSUME NEW i
      PROVE  i \in CoreElements' <=>
               \/ i \in CoreElements
               \/ i = n + 1 /\ ~Foreign(n + 1)' /\ Opens(n + 1)'
  <2>1. i \in CoreElements' <=> i \in Inner' /\ Opens(i)'
    BY DEF CoreElements
  <2>2. i \in CoreElements <=> i \in Inner /\ Opens(i)
    BY DEF CoreElements
  <2>3. i \in Inner => (Opens(i)' <=> Opens(i)) /\ i # n + 1
    BY <1>1, <1>2, <1>4
  <2> QED
    BY <1>3, <2>1, <2>2, <2>3
<1> QED
  BY <1>3, <1>4, <1>5 DEF CoreElements

-----------------------------------------------------------------------------
(* The visitor: its stack are the elements around the next event.          *)

Names == {tag.name : tag \in Tags}
Spaces == {tag.space : tag \in Tags}
Frame(j) == [name |-> events[j].tag.name, space |-> events[j].tag.space]
Next1 == Len(events) + 1

Visitor ==
  /\ events \in Seq(Event) /\ roots \in Nat
  /\ stack \in Seq([name : Names, space : Spaces])
  /\ Standing =>
       /\ \E ids : IsPath(ids, Next1)
       /\ Len(stack) = Depth(Next1)
       /\ \A j \in Around(Next1) : stack[Depth(j) + 1] = Frame(j)
       /\ roots = IF \E j \in DOMAIN events : Opens(j) THEN 1 ELSE 0
       /\ stack # <<>> => IsCore(stack[1].space)
       /\ ~InExtension => \A k \in 1..Len(stack) : IsCore(stack[k].space)

(* The two fields of a frame. *)
LEMMA FrameFields ==
  \A j : Frame(j).name = events[j].tag.name /\ Frame(j).space = events[j].tag.space
  BY DEF Frame

(* Where the next event will be. *)
LEMMA PathEnds ==
  \A ids : \A i \in Nat \ {0} : IsPath(ids, i) =>
    /\ Around(i) \subseteq 1..(i - 1)
    /\ \A j \in Around(i) : Nests(j) /\ Depth(j) \in 0..(Len(ids) - 1)
    /\ \A j, k \in Around(i) : Depth(j) = Depth(k) => j = k
    /\ \A d \in 0..(Len(ids) - 1) : \E j \in Around(i) : Depth(j) = d
    /\ Len(ids) = 0 => Around(i) = {} /\ Parent(i) = None
    /\ Len(ids) > 0 =>
         /\ Parent(i) \in Around(i) /\ Depth(Parent(i)) = Len(ids) - 1
         /\ Around(i) = Around(Parent(i)) \cup {Parent(i)}
<1> SUFFICES ASSUME NEW ids, NEW i \in Nat \ {0}, IsPath(ids, i)
    PROVE /\ Around(i) \subseteq 1..(i - 1)
          /\ \A j \in Around(i) : Nests(j) /\ Depth(j) \in 0..(Len(ids) - 1)
          /\ \A j, k \in Around(i) : Depth(j) = Depth(k) => j = k
          /\ \A d \in 0..(Len(ids) - 1) : \E j \in Around(i) : Depth(j) = d
          /\ Len(ids) = 0 => Around(i) = {} /\ Parent(i) = None
          /\ Len(ids) > 0 =>
               /\ Parent(i) \in Around(i) /\ Depth(Parent(i)) = Len(ids) - 1
               /\ Around(i) = Around(Parent(i)) \cup {Parent(i)}
  OBVIOUS
<1> DEFINE c == Len(ids)
<1>1. c \in Nat /\ ids \in Seq(Nat) /\ Around(i) = {ids[k] : k \in 1..c}
  BY DEF IsPath
<1>2. \A k \in 1..c : Nests(ids[k]) /\ Depth(ids[k]) = k - 1
  BY DEF IsPath
<1>3. \A k \in 1..c : ids[k] \in 1..(i - 1)
  BY PathIsBefore
<1>4. \A k, l \in 1..c : k < l => ids[k] < ids[l]
  BY PathIsBefore
<1>5. ASSUME c > 0
      PROVE  /\ Parent(i) \in Around(i) /\ Depth(Parent(i)) = c - 1
             /\ Around(i) = Around(Parent(i)) \cup {Parent(i)}
  <2> DEFINE p == ids[c]
  <2>1. c \in 1..c /\ p \in Around(i) /\ p \in Nat
    BY <1>1, <1>5
  <2>2. \A j \in Around(i) : p >= j /\ j \in Nat
    <3> SUFFICES ASSUME NEW k \in 1..c PROVE p >= ids[k] /\ ids[k] \in Nat
      BY <1>1
    <3> QED
      BY <1>1, <1>4, <2>1
  <2>3. Max(Around(i)) = p
    <3> HIDE DEF p
    <3>1. \A x \in Around(i) : (\A y \in Around(i) : x >= y) => x = p
      BY <2>1, <2>2
    <3> QED
      BY <2>1, <2>2, <3>1 DEF Max
  <2>4. Parent(i) = p
    BY <2>1, <2>3 DEF Parent
  <2>5. Around(p) = {ids[m] : m \in 1..(c - 1)}
    BY <2>1 DEF IsPath
  <2>6. {ids[k] : k \in 1..c} = {ids[m] : m \in 1..(c - 1)} \cup {ids[c]}
    <3>1. 1..c = 1..(c - 1) \cup {c}
      BY <1>1, <1>5
    <3> QED
      BY <3>1
  <2>7. Depth(p) = c - 1
    BY <1>2, <2>1
  <2> HIDE DEF p, c
  <2> QED
    BY <1>1, <2>1, <2>4, <2>5, <2>6, <2>7 DEF p
<1>6. c = 0 => Around(i) = {} /\ Parent(i) = None
  BY <1>1 DEF Parent
<1>7. \A j \in Around(i) : Nests(j) /\ Depth(j) \in 0..(c - 1)
  BY <1>1, <1>2
<1>8. \A j, k \in Around(i) : Depth(j) = Depth(k) => j = k
  <2> SUFFICES ASSUME NEW a \in 1..c, NEW b \in 1..c, Depth(ids[a]) = Depth(ids[b])
      PROVE  ids[a] = ids[b]
    BY <1>1
  <2> QED
    BY <1>1, <1>2
<1>9. \A d \in 0..(c - 1) : \E j \in Around(i) : Depth(j) = d
  <2> SUFFICES ASSUME NEW d \in 0..(c - 1) PROVE \E j \in Around(i) : Depth(j) = d
    OBVIOUS
  <2>1. d + 1 \in 1..c /\ d + 1 - 1 = d
    BY <1>1
  <2> QED
    BY <1>1, <1>2, <2>1
<1>10. Around(i) \subseteq 1..(i - 1)
  BY AroundNext
<1> QED
  BY <1>5, <1>6, <1>7, <1>8, <1>9, <1>10

(* Where the visitor stands, while it does: its stack is the path of the *)
(* open elements, and tells whether they are in an extension.            *)
LEMMA Position ==
  ASSUME Visitor, Standing, NEW n, n = Len(events)
  PROVE  /\ n \in Nat /\ Around(n + 1) \subseteq 1..n
         /\ Len(stack) \in Nat /\ Len(stack) = Depth(n + 1)
         /\ \A j \in Around(n + 1) :
              /\ Nests(j) /\ Depth(j) \in 0..(Len(stack) - 1)
              /\ stack[Depth(j) + 1] = Frame(j)
         /\ \A j, k \in Around(n + 1) : Depth(j) = Depth(k) => j = k
         /\ \A d \in 0..(Len(stack) - 1) : \E j \in Around(n + 1) : Depth(j) = d
         /\ (\E j \in Around(n + 1) : Opens(j) /\ ~IsCore(events[j].tag.space))
              <=> InExtension
         /\ stack = <<>> => Around(n + 1) = {} /\ Parent(n + 1) = None
         /\ stack # <<>> =>
              /\ Parent(n + 1) \in Around(n + 1)
              /\ Depth(Parent(n + 1)) = Len(stack) - 1
              /\ Around(n + 1) = Around(Parent(n + 1)) \cup {Parent(n + 1)}
              /\ Last(stack) = Frame(Parent(n + 1))
              /\ Foreign(Parent(n + 1)) <=> InExtension
<1>1. n \in Nat /\ n + 1 \in Nat \ {0} /\ Next1 = n + 1
  BY DEF Visitor, Next1
<1>2. PICK ids : IsPath(ids, n + 1)
  BY <1>1 DEF Visitor
<1>3. Len(ids) = Len(stack) /\ Len(stack) = Depth(n + 1) /\ Len(stack) \in Nat
  BY <1>1, <1>2 DEF Visitor, IsPath
<1>4. \A j \in Around(n + 1) : stack[Depth(j) + 1] = Frame(j)
  BY <1>1 DEF Visitor
<1>5. /\ Around(n + 1) \subseteq 1..n
      /\ \A j \in Around(n + 1) : Nests(j) /\ Depth(j) \in 0..(Len(stack) - 1)
      /\ \A j, k \in Around(n + 1) : Depth(j) = Depth(k) => j = k
      /\ \A d \in 0..(Len(stack) - 1) : \E j \in Around(n + 1) : Depth(j) = d
      /\ Len(stack) = 0 => Around(n + 1) = {} /\ Parent(n + 1) = None
      /\ Len(stack) > 0 =>
           /\ Parent(n + 1) \in Around(n + 1) /\ Depth(Parent(n + 1)) = Len(stack) - 1
           /\ Around(n + 1) = Around(Parent(n + 1)) \cup {Parent(n + 1)}
  <2>1. n + 1 - 1 = n
    BY <1>1
  <2> QED
    BY <1>1, <1>2, <1>3, <2>1, PathEnds
<1>6. (\E j \in Around(n + 1) : Opens(j) /\ ~IsCore(events[j].tag.space)) <=> InExtension
  <2>1. ASSUME NEW j \in Around(n + 1), ~IsCore(events[j].tag.space) PROVE InExtension
    <3>1. stack[Depth(j) + 1].space = events[j].tag.space
      BY <1>4, FrameFields
    <3>2. Depth(j) + 1 \in 1..Len(stack)
      BY <1>3, <1>5
    <3> QED
      BY <2>1, <3>1, <3>2 DEF Visitor
  <2>2. ASSUME InExtension
        PROVE  \E j \in Around(n + 1) : Opens(j) /\ ~IsCore(events[j].tag.space)
    <3>1. 1 \in 0..(Len(stack) - 1) /\ ~IsCore(stack[2].space)
      BY <1>3, <2>2 DEF InExtension
    <3>2. PICK j \in Around(n + 1) : Depth(j) = 1
      BY <1>5, <3>1
    <3>3. stack[2].space = events[j].tag.space
      <4>1. stack[Depth(j) + 1] = Frame(j) /\ Depth(j) + 1 = 2
        BY <1>4, <3>2
      <4> QED
        BY <4>1, FrameFields
    <3>4. Opens(j)
      BY <1>5 DEF Nests, Opens
    <3> QED
      BY <3>1, <3>3, <3>4
  <2> QED
    BY <2>1, <2>2
<1>7. stack = <<>> => Len(stack) = 0
  OBVIOUS
<1>8. ASSUME stack # <<>>
      PROVE  /\ Len(stack) > 0 /\ Last(stack) = Frame(Parent(n + 1))
             /\ Foreign(Parent(n + 1)) <=> InExtension
  <2>1. Len(stack) > 0
    BY <1>3, <1>8 DEF Visitor
  <2>2. Len(stack) - 1 + 1 = Len(stack)
    BY <1>3
  <2>3. Last(stack) = Frame(Parent(n + 1))
    BY <1>4, <1>5, <2>1, <2>2 DEF Last
  <2>4. Foreign(Parent(n + 1)) <=>
          \E j \in Around(n + 1) : Opens(j) /\ ~IsCore(events[j].tag.space)
    BY <1>5, <2>1 DEF Foreign
  <2> QED
    BY <1>6, <2>1, <2>3, <2>4
<1> QED
  BY <1>1, <1>3, <1>4, <1>5, <1>6, <1>7, <1>8

(* What the next event finds, and what it leaves to the one after it. *)
LEMMA Following ==
  ASSUME Visitor, Standing, NEW n, NEW e, OneMore(n, e)
  PROVE  /\ Around(n + 1)' = Around(n + 1) /\ Parent(n + 1)' = Parent(n + 1)
         /\ Depth(n + 1)' = Depth(n + 1)
         /\ \A j \in Around(n + 1) : Depth(j)' = Depth(j) /\ Frame(j)' = Frame(j)
         /\ Next1' = n + 2
         /\ e.kind = "start" =>
              /\ Depth(n + 2)' = Depth(n + 1) + 1
              /\ Around(n + 2)' = Around(n + 1) \cup {n + 1}
              /\ \E ids : IsPath(ids, n + 2)'
         /\ e.kind = "close" /\ stack # <<>> =>
              /\ Depth(n + 2)' = Depth(n + 1) - 1
              /\ Around(n + 2)' = Around(n + 1) \ {Parent(n + 1)}
              /\ \E ids : IsPath(ids, n + 2)'
         /\ e.kind \notin {"start", "close"} =>
              /\ Depth(n + 2)' = Depth(n + 1)
              /\ Around(n + 2)' = Around(n + 1)
              /\ \E ids : IsPath(ids, n + 2)'
<1>1. /\ n \in Nat /\ n = Len(events) /\ Len(events') = n + 1 /\ events'[n + 1] = e
      /\ \A j \in 1..n : events'[j] = events[j]
  BY Longer DEF OneMore
<1>2. n + 1 \in 1..(n + 1) /\ n + 1 \in Nat \ {0} /\ n + 1 + 1 = n + 2
  BY <1>1
<1>3. /\ Around(n + 1)' = Around(n + 1) /\ Parent(n + 1)' = Parent(n + 1)
      /\ Depth(n + 1)' = Depth(n + 1)
  BY <1>2, DepthKept, AroundKept
<1>4. \A j \in Around(n + 1) : Depth(j)' = Depth(j) /\ Frame(j)' = Frame(j)
  <2>1. Around(n + 1) \subseteq 1..n /\ 1..n \subseteq 1..(n + 1)
    BY <1>1, Position
  <2>2. \A j \in 1..n : Frame(j)' = Frame(j)
    BY <1>1 DEF Frame
  <2> QED
    BY <2>1, <2>2, DepthKept
<1>5. Next1' = n + 2
  BY <1>1 DEF Next1
<1>6. PICK path : IsPath(path, n + 1)
  BY <1>1 DEF Visitor, Next1
<1>7. IsPath(path, n + 1)'
  BY <1>6, PathKept
<1>8. /\ (Nests(n + 1)' <=> e.kind = "start") /\ (Closes(n + 1)' <=> e.kind = "close")
      /\ (Plus(n + 1)' = IF e.kind = "start" THEN 1 ELSE 0)
      /\ (Minus(n + 1)' = IF e.kind = "close" THEN 1 ELSE 0)
  BY <1>1 DEF Nests, Closes, Plus, Minus
<1>9. /\ Depth(n + 1)' \in Int
      /\ Depth(n + 2)' = Depth(n + 1)' + Plus(n + 1)' - Minus(n + 1)'
  <2>1. (\A i \in Nat \ {0} : Depth(i) \in Int
           /\ Depth(i + 1) = Depth(i) + Plus(i) - Minus(i))'
    BY DepthCounts, PTL
  <2> QED
    BY <1>2, <2>1
<1>10. \A j : j \in Around(n + 2)' <=>
         /\ j \in Around(n + 1) \/ (j = n + 1 /\ e.kind = "start")
         /\ Depth(j)' < Depth(n + 2)'
  <2>1. (\A i \in Nat \ {0} :
           /\ Around(i) \subseteq 1..(i - 1)
           /\ \A j \in Around(i) : Nests(j) /\ Depth(j) < Depth(i)
           /\ \A j : j \in Around(i + 1) <=>
                /\ j \in Around(i) \/ (j = i /\ Nests(i))
                /\ Depth(j) < Depth(i + 1))'
    BY AroundNext, PTL
  <2>2. \A j : j \in Around(n + 1 + 1)' <=>
             /\ j \in Around(n + 1)' \/ (j = n + 1 /\ Nests(n + 1)')
             /\ Depth(j)' < Depth(n + 1 + 1)'
    BY <1>2, <2>1
  <2> QED
    BY <1>2, <1>3, <1>8, <2>2
<1>11. \A j \in Around(n + 1) : Depth(j)' \in Int /\ Depth(j)' < Depth(n + 1)'
  <2>1. \A j \in Around(n + 1) : Depth(j) \in Int /\ Depth(j) < Depth(n + 1)
    <3>1. \A j \in Around(n + 1) : j \in Nat \ {0}
      <4>1. Around(n + 1) \subseteq 1..n
        BY <1>1, Position
      <4> QED
        BY <1>1, <4>1
    <3> QED
      BY <1>2, <3>1, DepthCounts, AroundNext
  <2> QED
    BY <1>3, <1>4, <2>1
<1>12. ASSUME e.kind = "start"
       PROVE  /\ Depth(n + 2)' = Depth(n + 1) + 1
              /\ Around(n + 2)' = Around(n + 1) \cup {n + 1}
              /\ \E ids : IsPath(ids, n + 2)'
  <2>1. Depth(n + 2)' = Depth(n + 1)' + 1
    BY <1>8, <1>9, <1>12
  <2>2. \A j : j \in Around(n + 2)' <=> j \in Around(n + 1) \cup {n + 1}
    BY <1>9, <1>10, <1>11, <1>12, <2>1
  <2>3. Continues'
    BY PathContinues, PTL
  <2>4. IsPath(Append(path, n + 1), n + 2)'
    BY <1>2, <1>7, <1>8, <1>12, <2>3 DEF Continues
  <2> QED
    BY <1>3, <2>1, <2>2, <2>4
<1>13. ASSUME e.kind = "close", stack # <<>>
       PROVE  /\ Depth(n + 2)' = Depth(n + 1) - 1
              /\ Around(n + 2)' = Around(n + 1) \ {Parent(n + 1)}
              /\ \E ids : IsPath(ids, n + 2)'
  <2>1. Depth(n + 2)' = Depth(n + 1)' - 1
    BY <1>8, <1>9, <1>13
  <2>2. /\ Parent(n + 1) \in Around(n + 1) /\ Depth(Parent(n + 1)) = Depth(n + 1) - 1
        /\ \A j \in Around(n + 1) : Depth(j) = Depth(Parent(n + 1)) => j = Parent(n + 1)
    BY <1>1, <1>13, Position
  <2>3. ASSUME NEW j
        PROVE  j \in Around(n + 2)' <=> j \in Around(n + 1) \ {Parent(n + 1)}
    <3>1. j \in Around(n + 2)' <=> j \in Around(n + 1) /\ Depth(j)' < Depth(n + 1)' - 1
      BY <1>10, <1>13, <2>1
    <3>2. j \in Around(n + 1) =>
            /\ Depth(j)' \in Int /\ Depth(j)' < Depth(n + 1)' /\ Depth(j)' = Depth(j)
      BY <1>4, <1>11
    <3> QED
      BY <1>3, <1>9, <2>2, <3>1, <3>2
  <2>4. path # <<>>
    <3>1. Len(path) = Depth(n + 1)
      BY <1>6 DEF IsPath
    <3>2. Len(stack) = Depth(n + 1)
      BY <1>1, Position
    <3>3. Len(stack) # 0
      BY <1>13 DEF Visitor
    <3>4. Len(<<>>) = 0
      OBVIOUS
    <3> QED
      BY <3>1, <3>2, <3>3, <3>4
  <2>5. Continues'
    BY PathContinues, PTL
  <2>6. IsPath(Front(path), n + 2)'
    BY <1>2, <1>7, <1>8, <1>13, <2>4, <2>5 DEF Continues
  <2> QED
    BY <1>3, <2>1, <2>3, <2>6
<1>14. ASSUME e.kind \notin {"start", "close"}
       PROVE  /\ Depth(n + 2)' = Depth(n + 1)
              /\ Around(n + 2)' = Around(n + 1)
              /\ \E ids : IsPath(ids, n + 2)'
  <2>1. Depth(n + 2)' = Depth(n + 1)'
    BY <1>8, <1>9, <1>14
  <2>2. \A j : j \in Around(n + 2)' <=> j \in Around(n + 1)
    BY <1>9, <1>10, <1>11, <1>14, <2>1
  <2>3. Continues'
    BY PathContinues, PTL
  <2>4. IsPath(path, n + 2)'
    BY <1>2, <1>7, <1>8, <1>14, <2>3 DEF Continues
  <2> QED
    BY <1>3, <2>1, <2>2, <2>4
<1> QED
  BY <1>3, <1>4, <1>5, <1>12, <1>13, <1>14

(* A visit that stands is as it was, and the next one is told why not. *)
VisitorThere(n) ==
  /\ \E ids : IsPath(ids, n)
  /\ Len(stack) = Depth(n)
  /\ \A j \in Around(n) : stack[Depth(j) + 1] = Frame(j)
  /\ roots = IF \E j \in DOMAIN events : Opens(j) THEN 1 ELSE 0
  /\ stack # <<>> => IsCore(stack[1].space)
  /\ ~InExtension => \A k \in 1..Len(stack) : IsCore(stack[k].space)

(* The visitor's invariant, with its last part at a number. *)
LEMMA VisitorIs ==
  Visitor <=>
    /\ events \in Seq(Event) /\ roots \in Nat
    /\ stack \in Seq([name : Names, space : Spaces])
    /\ Standing => VisitorThere(Next1)
  BY DEF Visitor, VisitorThere

(* A visit that ends in an error where the event has no place is right. *)
LEMMA Refusal ==
  ASSUME Visitor, Standing, NEW n, NEW e, OneMore(n, e),
         UNCHANGED <<stack, roots>>, ~Standing', ~InPlace(n + 1)'
  PROVE  Visitor' /\ VisitIsRight'
<1>1. Visitor'
  <2>1. events' \in Seq(Event)
    BY Longer
  <2> QED
    BY <2>1 DEF Visitor
<1>2. Len(events') = n + 1
  BY Longer
<1> QED
  BY <1>1, <1>2 DEF VisitIsRight

(* A visit that goes on where the event has its place is right. *)
LEMMA Acceptance ==
  ASSUME Visitor, Standing, NEW n, NEW e, OneMore(n, e),
         stack' \in Seq([name : Names, space : Spaces]), roots' \in Nat,
         VisitorThere(n + 2)', Standing', InPlace(n + 1)'
  PROVE  Visitor' /\ VisitIsRight'
<1>1. Visitor'
  <2>1. events' \in Seq(Event) /\ Next1' = n + 2
    BY Longer, Following
  <2>2. VisitorThere(Next1)'
    BY <2>1
  <2>3. (Visitor <=>
           /\ events \in Seq(Event) /\ roots \in Nat
           /\ stack \in Seq([name : Names, space : Spaces])
           /\ Standing => VisitorThere(Next1))'
    BY VisitorIs, PTL
  <2> QED
    BY <2>1, <2>2, <2>3
<1>2. Len(events') = n + 1
  BY Longer
<1> QED
  BY <1>1, <1>2 DEF VisitIsRight

(* The count of roots tells whether an element was opened. *)
LEMMA RootIsKnown ==
  ASSUME Visitor, Standing
  PROVE  /\ roots \in {0, 1} /\ (roots = 0 <=> \A j \in 1..Len(events) : ~Opens(j))
         /\ stack # <<>> => roots = 1
<1> DEFINE n == Len(events)
<1>1. DOMAIN events = 1..n /\ n \in Nat
  BY DEF Visitor
<1>2. roots = IF \E j \in 1..n : Opens(j) THEN 1 ELSE 0
  BY <1>1 DEF Visitor
<1>3. ASSUME stack # <<>> PROVE \E j \in 1..n : Opens(j)
  <2> HIDE DEF n
  <2>1. Parent(n + 1) \in Around(n + 1) /\ Around(n + 1) \subseteq 1..n
    BY <1>3, Position DEF n
  <2>2. Nests(Parent(n + 1))
    BY <2>1, Position DEF n
  <2> QED
    BY <2>1, <2>2 DEF Nests, Opens
<1> QED
  BY <1>2, <1>3

(* What remains of a stack when its top is taken off. *)
LEMMA FrontIs ==
  ASSUME NEW S, NEW s \in Seq(S), Len(s) > 0
  PROVE  /\ Front(s) \in Seq(S) /\ Len(Front(s)) = Len(s) - 1
         /\ \A k \in 1..(Len(s) - 1) : Front(s)[k] = s[k]
<1>1. /\ Len(s) \in Nat /\ Len(s) - 1 \in Nat /\ 1 \in Int
      /\ \A k \in 1..Len(s) : s[k] \in S
  OBVIOUS
<1>2. \A k \in 1..(Len(s) - 1) : s[k] \in S
  BY <1>1
<1> DEFINE m == Len(s) - 1
<1>3. /\ SubSeq(s, 1, m) \in Seq(S)
      /\ Len(SubSeq(s, 1, m)) = IF 1 <= m THEN m - 1 + 1 ELSE 0
      /\ \A k \in 1..(m - 1 + 1) : SubSeq(s, 1, m)[k] = s[1 + k - 1]
  <2>1. m \in Int
    BY <1>1
  <2> HIDE DEF m
  <2> QED
    BY <1>1, <1>2, <2>1, SubSeqProperties DEF m
<1>4. m \in Nat /\ m - 1 + 1 = m /\ \A k \in 1..m : 1 + k - 1 = k
  BY <1>1
<1>5. Front(s) = SubSeq(s, 1, m)
  BY DEF Front
<1> HIDE DEF m
<1>6. Len(SubSeq(s, 1, m)) = m
  <2>1. CASE m = 0
    BY <1>3, <2>1
  <2>2. CASE m # 0
    BY <1>3, <1>4, <2>2
  <2> QED
    BY <2>1, <2>2
<1>7. \A k \in 1..m : SubSeq(s, 1, m)[k] = s[k]
  BY <1>3, <1>4
<1> QED
  BY <1>3, <1>5, <1>6, <1>7 DEF m

(* An event that opens and closes nothing leaves the stack the document's. *)
LEMMA StaysThere ==
  ASSUME Visitor, Standing, NEW n, NEW e, OneMore(n, e),
         e.kind \notin {"start", "close"}, stack' = stack,
         roots' = IF \E j \in DOMAIN events' : Opens(j)' THEN 1 ELSE 0
  PROVE  VisitorThere(n + 2)'
<1>1. /\ n = Len(events) /\ n \in Nat
  BY Longer DEF OneMore
<1>2. /\ \E ids : IsPath(ids, n + 2)'
      /\ Depth(n + 2)' = Depth(n + 1) /\ Around(n + 2)' = Around(n + 1)
      /\ \A j \in Around(n + 1) : Depth(j)' = Depth(j) /\ Frame(j)' = Frame(j)
  BY Following
<1>3. /\ \A j \in Around(n + 1) : stack[Depth(j) + 1] = Frame(j)
      /\ Len(stack) = Depth(n + 1)
  BY <1>1, Position
<1>4. \A j \in Around(n + 2)' : stack'[Depth(j)' + 1] = Frame(j)'
  BY <1>2, <1>3
<1>5. /\ stack' # <<>> => IsCore(stack'[1].space)
      /\ ~InExtension' => \A k \in 1..Len(stack') : IsCore(stack'[k].space)
  BY DEF Visitor, InExtension
<1> QED
  BY <1>2, <1>3, <1>4, <1>5 DEF VisitorThere

(* Only an element adds to the roots. *)
LEMMA RootsKept ==
  ASSUME Visitor, Standing, NEW n, NEW e, OneMore(n, e),
         e.kind \notin {"start", "empty"}, roots' = roots
  PROVE  roots' = IF \E j \in DOMAIN events' : Opens(j)' THEN 1 ELSE 0
<1>1. /\ n \in Nat /\ DOMAIN events = 1..n /\ DOMAIN events' = 1..(n + 1)
      /\ events'[n + 1] = e /\ \A i \in 1..n : events'[i] = events[i]
  BY Longer
<1>2. \A j \in 1..n : Opens(j)' <=> Opens(j)
  BY <1>1 DEF Opens
<1>3. ~Opens(n + 1)'
  BY <1>1 DEF Opens
<1>4. (\E j \in DOMAIN events' : Opens(j)') <=> \E j \in DOMAIN events : Opens(j)
  BY <1>1, <1>2, <1>3
<1> QED
  BY <1>4 DEF Visitor

(* What it takes for an event of each kind to be in its place. *)
LEMMA InPlaceOpens ==
  \A i : Opens(i) =>
    (InPlace(i) <=>
       /\ events[i].tag.space # "unknown" /\ events[i].tag.fault # "attribute"
       /\ Depth(i) = 0 =>
            /\ events[i].tag.name = "xisf" /\ IsCore(events[i].tag.space)
            /\ \A j \in 1..(i - 1) : ~Opens(j)
       /\ IsCore(events[i].tag.space) \/ Depth(i) = 1 \/ Foreign(Parent(i)))
<1> SUFFICES ASSUME NEW i, Opens(i)
    PROVE InPlace(i) <=>
            /\ events[i].tag.space # "unknown" /\ events[i].tag.fault # "attribute"
            /\ Depth(i) = 0 =>
                 /\ events[i].tag.name = "xisf" /\ IsCore(events[i].tag.space)
                 /\ \A j \in 1..(i - 1) : ~Opens(j)
            /\ IsCore(events[i].tag.space) \/ Depth(i) = 1 \/ Foreign(Parent(i))
  OBVIOUS
<1>1. ~Says(i) /\ events[i].kind \notin {"close", "text", "eof"}
  BY DEF Opens, Says
<1> QED
  BY <1>1, Zenon DEF InPlace

(* A start tag or an empty element: accepted exactly in its place. *)
LEMMA VisitorElement ==
  ASSUME Visitor, visit = "open", NEW tag \in Tags, NEW empty \in BOOLEAN,
         Element(tag, empty)
  PROVE  Visitor' /\ VisitIsRight'
<1> DEFINE e == [kind |-> IF empty THEN "empty" ELSE "start", tag |-> tag]
           frame == [name |-> tag.name, space |-> tag.space]
<1>5. PICK n : n = Len(events)
  OBVIOUS
<1>1. e \in Event /\ e.tag = tag /\ e.kind = IF empty THEN "empty" ELSE "start"
  BY DEF Event
<1>2. OneMore(n, e)
  BY <1>1, <1>5 DEF OneMore, Element, Read, Visitor
<1>3. Standing
  BY DEF Standing
<1>4. frame \in [name : Names, space : Spaces] /\ frame.name = tag.name
      /\ frame.space = tag.space
  BY DEF Names, Spaces
<1> HIDE DEF e, frame
<1>6. /\ n \in Nat /\ Len(stack) \in Nat /\ Len(stack) = Depth(n + 1)
      /\ stack \in Seq([name : Names, space : Spaces])
      /\ (stack = <<>> <=> Len(stack) = 0)
  <2>1. n \in Nat /\ Len(stack) \in Nat /\ Len(stack) = Depth(n + 1)
    BY <1>3, <1>5, Position
  <2>2. stack \in Seq([name : Names, space : Spaces])
    BY DEF Visitor
  <2> QED
    BY <2>1, <2>2
<1>7. /\ events'[n + 1] = e /\ DOMAIN events' = 1..(n + 1)
      /\ \A i \in 1..n : events'[i] = events[i]
  BY <1>2, Longer
<1>8. Opens(n + 1)'
  BY <1>1, <1>7 DEF Opens
<1>9. InPlace(n + 1)' <=> ~Refused(tag)
  <2>1. InPlace(n + 1)' <=>
          /\ tag.space # "unknown" /\ tag.fault # "attribute"
          /\ Depth(n + 1)' = 0 =>
               /\ tag.name = "xisf" /\ IsCore(tag.space)
               /\ \A j \in 1..(n + 1 - 1) : ~Opens(j)'
          /\ IsCore(tag.space) \/ Depth(n + 1)' = 1 \/ Foreign(Parent(n + 1))'
    <3>1. (\A i : Opens(i) =>
             (InPlace(i) <=>
                /\ events[i].tag.space # "unknown" /\ events[i].tag.fault # "attribute"
                /\ Depth(i) = 0 =>
                     /\ events[i].tag.name = "xisf" /\ IsCore(events[i].tag.space)
                     /\ \A j \in 1..(i - 1) : ~Opens(j)
                /\ IsCore(events[i].tag.space) \/ Depth(i) = 1 \/ Foreign(Parent(i))))'
      BY InPlaceOpens, PTL
    <3>2. PICK i : i = n + 1
      OBVIOUS
    <3>3. (InPlace(i) <=>
             /\ events[i].tag.space # "unknown" /\ events[i].tag.fault # "attribute"
             /\ Depth(i) = 0 =>
                  /\ events[i].tag.name = "xisf" /\ IsCore(events[i].tag.space)
                  /\ \A j \in 1..(i - 1) : ~Opens(j)
             /\ IsCore(events[i].tag.space) \/ Depth(i) = 1 \/ Foreign(Parent(i)))'
      BY <1>8, <3>1, <3>2
    <3>4. events'[i].tag = tag
      BY <1>1, <1>7, <3>2
    <3>5. InPlace(i)' <=>
             /\ tag.space # "unknown" /\ tag.fault # "attribute"
             /\ Depth(i)' = 0 =>
                  /\ tag.name = "xisf" /\ IsCore(tag.space)
                  /\ \A j \in 1..(i - 1) : ~Opens(j)'
             /\ IsCore(tag.space) \/ Depth(i)' = 1 \/ Foreign(Parent(i))'
      BY <3>3, <3>4 DEF IsCore
    <3> QED
      BY <1>6, <3>2, <3>5
  <2>2. Depth(n + 1)' = Len(stack)
    BY <1>2, <1>3, <1>6, Following
  <2>3. (\A j \in 1..(n + 1 - 1) : ~Opens(j)') <=> ~(roots > 0)
    <3>1. n + 1 - 1 = n
      BY <1>6
    <3>2. \A j \in 1..n : Opens(j)' <=> Opens(j)
      BY <1>7 DEF Opens
    <3>3. roots \in {0, 1} /\ (roots = 0 <=> \A j \in 1..n : ~Opens(j))
      BY <1>3, <1>5, RootIsKnown
    <3> QED
      BY <3>1, <3>2, <3>3
  <2>4. stack # <<>> => (Foreign(Parent(n + 1))' <=> InExtension)
    <3> SUFFICES ASSUME stack # <<>> PROVE Foreign(Parent(n + 1))' <=> InExtension
      OBVIOUS
    <3>1. PICK p : p = Parent(n + 1)
      OBVIOUS
    <3>2. Parent(n + 1)' = p
      BY <1>2, <1>3, <3>1, Following
    <3>3. p \in Around(n + 1) /\ Around(n + 1) \subseteq 1..n
      BY <1>3, <1>5, <3>1, Position
    <3>4. Foreign(p)' <=> Foreign(p)
      BY <1>2, <3>3, ForeignKept
    <3>5. Foreign(p) <=> InExtension
      BY <1>3, <1>5, <3>1, Position
    <3> QED
      BY <3>2, <3>4, <3>5
  <2>5. (Depth(n + 1)' = 0 <=> stack = <<>>) /\ (Depth(n + 1)' = 1 <=> Len(stack) = 1)
    BY <1>6, <2>2
  <2>6. Refused(tag) <=>
          \/ tag.space = "unknown" \/ tag.fault = "attribute"
          \/ stack = <<>> /\ (roots > 0 \/ tag.name # "xisf" \/ ~IsCore(tag.space))
          \/ ~InExtension /\ Len(stack) # 1 /\ ~IsCore(tag.space)
    BY DEF Refused
  <2>7. CASE stack = <<>>
    <3>1. ~InExtension
      BY <1>6, <2>7 DEF InExtension
    <3> QED
      BY <2>1, <2>3, <2>5, <2>6, <2>7, <3>1
  <2>8. CASE stack # <<>>
    BY <2>1, <2>4, <2>5, <2>6, <2>8
  <2> QED
    BY <2>7, <2>8
<1>10. CASE Refused(tag)
  <2>1. ~Standing' /\ UNCHANGED <<stack, roots>>
    BY <1>10 DEF Element, Refuse, Standing
  <2> QED
    BY <1>2, <1>3, <1>9, <1>10, <2>1, Refusal
<1>11. CASE ~Refused(tag)
  <2>1. /\ Standing' /\ stack' = IF empty THEN stack ELSE Append(stack, frame)
        /\ roots' = IF Len(stack) = 0 THEN roots + 1 ELSE roots
    BY <1>3, <1>11 DEF Element, Tell, Standing, frame
  <2>2. roots' = 1
    <3>1. roots \in {0, 1} /\ (stack # <<>> => roots = 1)
      BY <1>3, RootIsKnown
    <3>2. stack = <<>> => ~(roots > 0)
      BY <1>11 DEF Refused
    <3> QED
      BY <1>6, <2>1, <3>1, <3>2
  <2>3. roots' = IF \E j \in DOMAIN events' : Opens(j)' THEN 1 ELSE 0
    <3>1. n + 1 \in DOMAIN events'
      BY <1>6, <1>7
    <3> QED
      BY <1>8, <2>2, <3>1
  <2>4. /\ stack # <<>> => IsCore(stack[1].space)
        /\ ~InExtension => \A k \in 1..Len(stack) : IsCore(stack[k].space)
    BY <1>3 DEF Visitor
  <2>5. CASE empty
    <3>1. stack' = stack /\ e.kind = "empty"
      BY <1>1, <2>1, <2>5
    <3>2. VisitorThere(n + 2)'
      BY <1>2, <1>3, <2>3, <3>1, StaysThere
    <3> QED
      <4>1. stack' \in Seq([name : Names, space : Spaces]) /\ roots' \in Nat
        BY <1>6, <2>2, <3>1
      <4>2. Standing' /\ InPlace(n + 1)'
        BY <1>9, <1>11, <2>1
      <4> QED
        BY <1>2, <1>3, <3>2, <4>1, <4>2, Acceptance
  <2>6. CASE ~empty
    <3>1. stack' = Append(stack, frame) /\ e.kind = "start"
      BY <1>1, <2>1, <2>6
    <3>2. /\ stack' \in Seq([name : Names, space : Spaces])
          /\ Len(stack') = Len(stack) + 1 /\ stack'[Len(stack) + 1] = frame
          /\ \A k \in 1..Len(stack) : stack'[k] = stack[k]
      <4> HIDE DEF frame
      <4> QED
        BY <1>4, <1>6, <3>1, AppendProperties
    <3>3. /\ \E ids : IsPath(ids, n + 2)'
          /\ Depth(n + 2)' = Depth(n + 1) + 1
          /\ Around(n + 2)' = Around(n + 1) \cup {n + 1}
          /\ \A j \in Around(n + 1) : Depth(j)' = Depth(j) /\ Frame(j)' = Frame(j)
          /\ Depth(n + 1)' = Depth(n + 1)
      BY <1>2, <1>3, <3>1, Following
    <3>4. \A j \in Around(n + 1) :
             stack[Depth(j) + 1] = Frame(j) /\ Depth(j) + 1 \in 1..Len(stack)
      <4>1. \A j \in Around(n + 1) :
               stack[Depth(j) + 1] = Frame(j) /\ Depth(j) \in 0..(Len(stack) - 1)
        BY <1>3, <1>5, Position
      <4> QED
        BY <1>6, <4>1
    <3>5. Frame(n + 1)' = frame
      BY <1>1, <1>7 DEF Frame, frame
    <3>6. \A j \in Around(n + 2)' : stack'[Depth(j)' + 1] = Frame(j)'
      <4> HIDE DEF frame
      <4> QED
        BY <1>6, <3>2, <3>3, <3>4, <3>5
    <3>7. Len(stack') = Depth(n + 2)'
      BY <1>6, <3>2, <3>3
    <3>8. IsCore(stack'[1].space)
      <4>1. CASE stack = <<>>
        <5>1. stack'[1] = frame /\ IsCore(tag.space)
          BY <1>6, <1>11, <3>2, <4>1 DEF Refused
        <5> QED
          BY <1>4, <5>1
      <4>2. CASE stack # <<>>
        <5>1. 1 \in 1..Len(stack)
          BY <1>6, <4>2
        <5> QED
          BY <2>4, <3>2, <4>2, <5>1
      <4> QED
        BY <4>1, <4>2
    <3>9. ASSUME ~InExtension', NEW k \in 1..Len(stack') PROVE IsCore(stack'[k].space)
      <4>1. ~InExtension
        <5>1. Len(stack) >= 2 => stack'[2] = stack[2] /\ Len(stack') >= 2
          BY <1>6, <3>2
        <5> QED
          BY <3>9, <5>1 DEF InExtension
      <4>2. CASE k \in 1..Len(stack)
        BY <2>4, <3>2, <4>1, <4>2
      <4>3. CASE k = Len(stack) + 1
        <5>1. stack'[k].space = tag.space
          BY <1>4, <3>2, <4>3
        <5>2. CASE Len(stack) = 1
          BY <3>2, <3>9, <4>3, <5>2 DEF InExtension
        <5>3. CASE Len(stack) # 1
          BY <1>11, <4>1, <5>1, <5>3 DEF Refused
        <5> QED
          BY <5>2, <5>3
      <4> QED
        BY <1>6, <3>2, <4>2, <4>3
    <3>10. VisitorThere(n + 2)'
      BY <2>3, <3>3, <3>6, <3>7, <3>8, <3>9 DEF VisitorThere
    <3> QED
      <4>1. stack' \in Seq([name : Names, space : Spaces]) /\ roots' \in Nat
        BY <2>2, <3>2
      <4>2. Standing' /\ InPlace(n + 1)'
        BY <1>9, <1>11, <2>1
      <4> QED
        BY <1>2, <1>3, <3>10, <4>1, <4>2, Acceptance
  <2> QED
    BY <2>5, <2>6
<1> QED
  BY <1>10, <1>11

(* The place of an end tag. *)
LEMMA InPlaceCloses ==
  \A i : Closes(i) =>
    (InPlace(i) <=>
       /\ Parent(i) # None /\ events[Parent(i)].tag.name = events[i].name
       /\ events[Parent(i)].tag.space = events[i].space)
<1> SUFFICES ASSUME NEW i, Closes(i)
    PROVE InPlace(i) <=>
            /\ Parent(i) # None /\ events[Parent(i)].tag.name = events[i].name
            /\ events[Parent(i)].tag.space = events[i].space
  OBVIOUS
<1>1. ~Opens(i) /\ ~Says(i) /\ events[i].kind = "close"
  BY DEF Opens, Says, Closes
<1> QED
  BY <1>1, Zenon DEF InPlace

(* The place of text. *)
LEMMA InPlaceSays ==
  \A i : Says(i) =>
    (InPlace(i) <=>
       Depth(i) > 0 \/ (events[i].kind = "text" /\ events[i].text = "blank"))
<1> SUFFICES ASSUME NEW i, Says(i)
    PROVE InPlace(i) <=>
            Depth(i) > 0 \/ (events[i].kind = "text" /\ events[i].text = "blank")
  OBVIOUS
<1>1. ~Opens(i) /\ events[i].kind \notin {"close", "eof"}
  BY DEF Opens, Says
<1> QED
  BY <1>1, Zenon DEF InPlace

(* The place of the end of the input. *)
LEMMA InPlaceEnds ==
  \A i : events[i].kind = "eof" =>
    (InPlace(i) <=> Depth(i) = 0 /\ \E j \in 1..(i - 1) : Opens(j))
<1> SUFFICES ASSUME NEW i, events[i].kind = "eof"
    PROVE InPlace(i) <=> Depth(i) = 0 /\ \E j \in 1..(i - 1) : Opens(j)
  OBVIOUS
<1>1. ~Opens(i) /\ ~Says(i) /\ events[i].kind \notin {"close", "text"}
  BY DEF Opens, Says
<1> QED
  BY <1>1, Zenon DEF InPlace

(* An end tag: accepted exactly when it closes the innermost element. *)
LEMMA VisitorEnd ==
  ASSUME Visitor, visit = "open", NEW name \in Names, NEW space \in Spaces,
         End(name, space)
  PROVE  Visitor' /\ VisitIsRight'
<1> DEFINE e == [kind |-> "close", name |-> name, space |-> space]
           matches == stack # <<>> /\ Last(stack) = [name |-> name, space |-> space]
<1>1. PICK n : n = Len(events)
  OBVIOUS
<1>2. e \in Event /\ e.name = name /\ e.space = space /\ e.kind = "close"
  BY DEF Event, Names, Spaces
<1>3. OneMore(n, e)
  BY <1>1, <1>2 DEF OneMore, End, Read, Visitor
<1>4. Standing
  BY DEF Standing
<1> HIDE DEF e
<1>5. /\ n \in Nat /\ Len(stack) \in Nat /\ Len(stack) = Depth(n + 1)
      /\ stack \in Seq([name : Names, space : Spaces])
      /\ (stack = <<>> <=> Len(stack) = 0)
  <2>1. n \in Nat /\ Len(stack) \in Nat /\ Len(stack) = Depth(n + 1)
    BY <1>1, <1>4, Position
  <2>2. stack \in Seq([name : Names, space : Spaces])
    BY DEF Visitor
  <2> QED
    BY <2>1, <2>2
<1>6. /\ events'[n + 1] = e /\ DOMAIN events' = 1..(n + 1)
      /\ \A j \in 1..n : events'[j] = events[j]
  BY <1>3, Longer
<1>7. PICK here : here = n + 1
  OBVIOUS
<1>8. Closes(here)' /\ events'[here].name = name /\ events'[here].space = space
  BY <1>2, <1>6, <1>7 DEF Closes
<1>9. PICK p : p = Parent(n + 1)
  OBVIOUS
<1>10. Parent(here)' = p
  BY <1>3, <1>4, <1>7, <1>9, Following
<1>11. /\ stack = <<>> => p = None
       /\ stack # <<>> =>
            /\ p \in Around(n + 1) /\ p \in 1..n
            /\ Depth(p) = Len(stack) - 1 /\ Last(stack) = Frame(p)
  BY <1>1, <1>4, <1>9, Position
<1>12. InPlace(n + 1)' <=> matches
  <2>1. (\A i : Closes(i) =>
           (InPlace(i) <=>
              /\ Parent(i) # None /\ events[Parent(i)].tag.name = events[i].name
              /\ events[Parent(i)].tag.space = events[i].space))'
    BY InPlaceCloses, PTL
  <2>2. InPlace(here)' <=>
          p # None /\ events'[p].tag.name = name /\ events'[p].tag.space = space
    BY <1>8, <1>10, <2>1
  <2>3. CASE stack = <<>>
    BY <1>7, <1>11, <2>2, <2>3
  <2>4. CASE stack # <<>>
    <3>1. events'[p] = events[p] /\ p # None
      BY <1>6, <1>11, <2>4 DEF None
    <3>2. Last(stack) = [name |-> events[p].tag.name, space |-> events[p].tag.space]
      BY <1>11, <2>4 DEF Frame
    <3>3. Last(stack) = [name |-> name, space |-> space] <=>
            events[p].tag.name = name /\ events[p].tag.space = space
      BY <3>2
    <3> QED
      BY <1>7, <2>2, <2>4, <3>1, <3>3
  <2> QED
    BY <2>3, <2>4
<1>13. CASE ~matches
  <2>1. ~Standing' /\ UNCHANGED <<stack, roots>>
    BY <1>13 DEF End, Refuse, Standing
  <2> QED
    BY <1>3, <1>4, <1>12, <1>13, <2>1, Refusal
<1>14. CASE matches
  <2>1. Standing' /\ stack' = Front(stack) /\ roots' = roots
    BY <1>4, <1>14 DEF End, Tell, Standing
  <2>2. roots' = IF \E j \in DOMAIN events' : Opens(j)' THEN 1 ELSE 0
    BY <1>2, <1>3, <1>4, <2>1, RootsKept
  <2>3. Len(stack) > 0
    BY <1>5, <1>14
  <2>4. /\ stack' \in Seq([name : Names, space : Spaces])
        /\ Len(stack') = Len(stack) - 1
        /\ \A k \in 1..(Len(stack) - 1) : stack'[k] = stack[k]
    BY <1>5, <2>1, <2>3, FrontIs
  <2>5. /\ \E ids : IsPath(ids, n + 2)'
        /\ Depth(n + 2)' = Depth(n + 1) - 1
        /\ Around(n + 2)' = Around(n + 1) \ {p}
        /\ \A j \in Around(n + 1) : Depth(j)' = Depth(j) /\ Frame(j)' = Frame(j)
    BY <1>2, <1>3, <1>4, <1>9, <1>14, Following
  <2>6. \A j \in Around(n + 1) :
          /\ Depth(j) \in 0..(Len(stack) - 1) /\ stack[Depth(j) + 1] = Frame(j)
          /\ Depth(j) = Depth(p) => j = p
    BY <1>1, <1>4, <1>11, <1>14, Position
  <2>7. \A j \in Around(n + 1) \ {p} :
          Depth(j) + 1 \in 1..(Len(stack) - 1) /\ stack[Depth(j) + 1] = Frame(j)
    BY <1>5, <1>11, <1>14, <2>6
  <2>8. \A j \in Around(n + 2)' : stack'[Depth(j)' + 1] = Frame(j)'
    BY <2>4, <2>5, <2>7
  <2>9. Len(stack') = Depth(n + 2)'
    BY <1>5, <2>4, <2>5
  <2>10. /\ stack # <<>> => IsCore(stack[1].space)
         /\ ~InExtension => \A k \in 1..Len(stack) : IsCore(stack[k].space)
    BY <1>4 DEF Visitor
  <2>11. stack' # <<>> => IsCore(stack'[1].space)
    <3> SUFFICES ASSUME stack' # <<>> PROVE IsCore(stack'[1].space)
      OBVIOUS
    <3>1. 1 \in 1..(Len(stack) - 1)
      BY <1>5, <2>3, <2>4
    <3> QED
      BY <1>14, <2>4, <2>10, <3>1
  <2>12. ASSUME ~InExtension', NEW k \in 1..Len(stack') PROVE IsCore(stack'[k].space)
    <3>1. k \in 1..(Len(stack) - 1) /\ k \in 1..Len(stack) /\ stack'[k] = stack[k]
      BY <1>5, <2>4, <2>12
    <3>2. CASE k = 1
      BY <1>14, <2>10, <3>1, <3>2
    <3>3. CASE k # 1
      <4>1. 2 \in 1..(Len(stack) - 1) /\ Len(stack') >= 2
        BY <1>5, <2>4, <3>1, <3>3
      <4>2. stack'[2] = stack[2]
        BY <2>4, <4>1
      <4>3. ~InExtension
        BY <1>5, <2>12, <4>1, <4>2 DEF InExtension
      <4> QED
        BY <2>10, <3>1, <4>3
    <3> QED
      BY <3>2, <3>3
  <2>13. VisitorThere(n + 2)'
    BY <2>2, <2>5, <2>8, <2>9, <2>11, <2>12 DEF VisitorThere
  <2>14. Standing' /\ InPlace(n + 1)' /\ roots' \in Nat
    BY <1>12, <1>14, <2>1 DEF Visitor
  <2> QED
    BY <1>3, <1>4, <2>4, <2>13, <2>14, Acceptance
<1> QED
  BY <1>13, <1>14

(* Text: refused only outside the root, when it is CDATA or not blank. *)
LEMMA VisitorText ==
  ASSUME Visitor, visit = "open", NEW text \in {"word", "blank"}, NEW cdata \in BOOLEAN,
         Text(text, cdata)
  PROVE  Visitor' /\ VisitIsRight'
<1> DEFINE e == [kind |-> IF cdata THEN "cdata" ELSE "text", text |-> text]
           refused == stack = <<>> /\ (cdata \/ text = "word")
<1>1. PICK n : n = Len(events)
  OBVIOUS
<1>2. e \in Event /\ e.text = text /\ e.kind = IF cdata THEN "cdata" ELSE "text"
  BY DEF Event
<1>3. OneMore(n, e)
  BY <1>1, <1>2 DEF OneMore, Text, Read, Visitor
<1>4. Standing
  BY DEF Standing
<1> HIDE DEF e
<1>5. /\ n \in Nat /\ Len(stack) \in Nat /\ Len(stack) = Depth(n + 1)
      /\ stack \in Seq([name : Names, space : Spaces])
      /\ (stack = <<>> <=> Len(stack) = 0)
  <2>1. n \in Nat /\ Len(stack) \in Nat /\ Len(stack) = Depth(n + 1)
    BY <1>1, <1>4, Position
  <2>2. stack \in Seq([name : Names, space : Spaces])
    BY DEF Visitor
  <2> QED
    BY <2>1, <2>2
<1>6. events'[n + 1] = e
  BY <1>3, Longer
<1>7. PICK here : here = n + 1
  OBVIOUS
<1>8. /\ Says(here)' /\ events'[here].text = text
      /\ events'[here].kind = IF cdata THEN "cdata" ELSE "text"
  BY <1>2, <1>6, <1>7 DEF Says
<1>9. Depth(here)' = Len(stack)
  BY <1>3, <1>4, <1>5, <1>7, Following
<1>10. InPlace(n + 1)' <=> ~refused
  <2>1. (\A i : Says(i) =>
           (InPlace(i) <=>
              Depth(i) > 0 \/ (events[i].kind = "text" /\ events[i].text = "blank")))'
    BY InPlaceSays, PTL
  <2>2. InPlace(here)' <=>
          Depth(here)' > 0 \/ (events'[here].kind = "text" /\ events'[here].text = "blank")
    BY <1>8, <2>1
  <2> QED
    BY <1>5, <1>7, <1>8, <1>9, <2>2
<1>11. CASE refused
  <2>1. ~Standing' /\ UNCHANGED <<stack, roots>>
    BY <1>11 DEF Text, Refuse, Standing
  <2> QED
    BY <1>3, <1>4, <1>10, <1>11, <2>1, Refusal
<1>12. CASE ~refused
  <2>1. Standing' /\ stack' = stack /\ roots' = roots
    BY <1>4, <1>12 DEF Text, Tell, Standing
  <2>2. e.kind \notin {"start", "empty", "close"}
    BY <1>2
  <2>3. roots' = IF \E j \in DOMAIN events' : Opens(j)' THEN 1 ELSE 0
    BY <1>3, <1>4, <2>1, <2>2, RootsKept
  <2>4. VisitorThere(n + 2)'
    BY <1>3, <1>4, <2>1, <2>2, <2>3, StaysThere
  <2>5. /\ stack' \in Seq([name : Names, space : Spaces]) /\ roots' \in Nat
        /\ Standing' /\ InPlace(n + 1)'
    BY <1>5, <1>10, <1>12, <2>1 DEF Visitor
  <2> QED
    BY <1>3, <1>4, <2>4, <2>5, Acceptance
<1> QED
  BY <1>11, <1>12

(* The end of the input, a document type, and what does not parse. *)
LEMMA VisitorEof ==
  ASSUME Visitor, visit = "open", Eof
  PROVE  Visitor' /\ VisitIsRight'
<1> DEFINE e == [kind |-> "eof"]
<1>1. PICK n : n = Len(events)
  OBVIOUS
<1>2. e \in Event /\ e.kind = "eof"
  BY DEF Event
<1>3. OneMore(n, e)
  BY <1>1, <1>2 DEF OneMore, Eof, Read, Visitor
<1>4. Standing
  BY DEF Standing
<1> HIDE DEF e
<1>5. /\ n \in Nat /\ Len(stack) \in Nat /\ Len(stack) = Depth(n + 1)
      /\ stack \in Seq([name : Names, space : Spaces])
      /\ (stack = <<>> <=> Len(stack) = 0)
  <2>1. n \in Nat /\ Len(stack) \in Nat /\ Len(stack) = Depth(n + 1)
    BY <1>1, <1>4, Position
  <2>2. stack \in Seq([name : Names, space : Spaces])
    BY DEF Visitor
  <2> QED
    BY <2>1, <2>2
<1>6. events'[n + 1] = e /\ \A j \in 1..n : events'[j] = events[j]
  BY <1>3, Longer
<1>7. PICK here : here = n + 1
  OBVIOUS
<1>8. events'[here].kind = "eof" /\ 1..(here - 1) = 1..n
  BY <1>2, <1>5, <1>6, <1>7
<1>9. Depth(here)' = Len(stack)
  BY <1>3, <1>4, <1>5, <1>7, Following
<1>10. InPlace(n + 1)' <=> roots = 1 /\ stack = <<>>
  <2>1. (\A i : events[i].kind = "eof" =>
           (InPlace(i) <=> Depth(i) = 0 /\ \E j \in 1..(i - 1) : Opens(j)))'
    BY InPlaceEnds, PTL
  <2>2. InPlace(here)' <=> Depth(here)' = 0 /\ \E j \in 1..(here - 1) : Opens(j)'
    BY <1>8, <2>1
  <2>3. \A j \in 1..n : Opens(j)' <=> Opens(j)
    BY <1>6 DEF Opens
  <2>4. roots = 1 <=> \E j \in 1..n : Opens(j)
    BY <1>1, <1>4, RootIsKnown
  <2> QED
    BY <1>5, <1>7, <1>8, <1>9, <2>2, <2>3, <2>4
<1>11. CASE roots # 1 \/ stack # <<>>
  <2>1. ~Standing' /\ UNCHANGED <<stack, roots>>
    BY <1>11 DEF Eof, Refuse, Standing
  <2> QED
    BY <1>3, <1>4, <1>10, <1>11, <2>1, Refusal
<1>12. CASE roots = 1 /\ stack = <<>>
  <2>1. Standing' /\ stack' = stack /\ roots' = roots
    BY <1>12 DEF Eof, Standing
  <2>2. e.kind \notin {"start", "empty", "close"}
    BY <1>2
  <2>3. roots' = IF \E j \in DOMAIN events' : Opens(j)' THEN 1 ELSE 0
    BY <1>3, <1>4, <2>1, <2>2, RootsKept
  <2>4. VisitorThere(n + 2)'
    BY <1>3, <1>4, <2>1, <2>2, <2>3, StaysThere
  <2>5. /\ stack' \in Seq([name : Names, space : Spaces]) /\ roots' \in Nat
        /\ Standing' /\ InPlace(n + 1)'
    BY <1>5, <1>10, <1>12, <2>1 DEF Visitor
  <2> QED
    BY <1>3, <1>4, <2>4, <2>5, Acceptance
<1> QED
  BY <1>11, <1>12

(* A document type and what does not parse are refused. *)
LEMMA VisitorFails ==
  ASSUME Visitor, visit = "open", DocType \/ ReadFails
  PROVE  Visitor' /\ VisitIsRight'
<1>1. PICK n : n = Len(events)
  OBVIOUS
<1>2. PICK kind \in {"doctype", "malformed"} : events' = Append(events, [kind |-> kind])
  BY DEF DocType, ReadFails, Read
<1>3. PICK e : e = [kind |-> kind]
  OBVIOUS
<1>4. e \in Event /\ e.kind = kind
  BY <1>3 DEF Event
<1>5. OneMore(n, e)
  BY <1>1, <1>2, <1>3, <1>4 DEF OneMore, Visitor
<1>6. Standing /\ ~Standing' /\ UNCHANGED <<stack, roots>>
  BY DEF DocType, ReadFails, Refuse, Standing
<1>7. ~InPlace(n + 1)'
  <2>1. events'[n + 1].kind \in {"doctype", "malformed"}
    BY <1>4, <1>5, Longer
  <2>2. ~Opens(n + 1)' /\ ~Says(n + 1)' /\ events'[n + 1].kind \notin {"close", "text", "eof"}
    BY <2>1 DEF Opens, Says
  <2> QED
    BY <2>2, Zenon DEF InPlace
<1> QED
  BY <1>5, <1>6, <1>7, Refusal

(* What is read off the events stays as it is when they do. *)
LEMMA SameEvents ==
  ASSUME events' = events
  PROVE  /\ \A i : Depth(i)' = Depth(i) /\ Around(i)' = Around(i) /\ Frame(i)' = Frame(i)
         /\ \A i : Parent(i)' = Parent(i)
         /\ \A i : Opens(i)' <=> Opens(i)
         /\ \A i : Foreign(i)' <=> Foreign(i)
         /\ \A i : \A ids : IsPath(ids, i)' <=> IsPath(ids, i)
         /\ \A i : InPlace(i)' <=> InPlace(i)
<1>1. /\ \A i : (Nests(i)' <=> Nests(i)) /\ (Closes(i)' <=> Closes(i))
      /\ \A i : (Opens(i)' <=> Opens(i)) /\ (Says(i)' <=> Says(i)) /\ Frame(i)' = Frame(i)
  BY DEF Nests, Closes, Opens, Says, Frame
<1>2. ASSUME NEW i PROVE Depth(i)' = Depth(i)
  <2>1. {j \in 1..(i - 1) : Nests(j)}' = {j \in 1..(i - 1) : Nests(j)}
    BY <1>1
  <2>2. {j \in 1..(i - 1) : Closes(j)}' = {j \in 1..(i - 1) : Closes(j)}
    BY <1>1
  <2> QED
    BY <2>1, <2>2 DEF Depth
<1>3. ASSUME NEW i PROVE Around(i)' = Around(i)
  <2>1. Around(i)' = {j \in 1..(i - 1) : Nests(j)' /\ \A k \in (j + 1)..i : Depth(k)' > Depth(j)'}
    BY DEF Around
  <2>2. Around(i) = {j \in 1..(i - 1) : Nests(j) /\ \A k \in (j + 1)..i : Depth(k) > Depth(j)}
    BY DEF Around
  <2> QED
    BY <1>1, <1>2, <2>1, <2>2
<1>4. \A i : Parent(i)' = Parent(i)
  BY <1>3 DEF Parent, None
<1>5. \A i : Foreign(i)' <=> Foreign(i)
  BY <1>1, <1>3 DEF Foreign, IsCore
<1>6. ASSUME NEW i, NEW ids PROVE IsPath(ids, i)' <=> IsPath(ids, i)
  BY <1>1, <1>2, <1>3 DEF IsPath
<1>7. ASSUME NEW i PROVE InPlace(i)' <=> InPlace(i)
  BY <1>1, <1>2, <1>4, <1>5 DEF InPlace, IsCore, None
<1> QED
  BY <1>1, <1>2, <1>3, <1>4, <1>5, <1>6, <1>7

(* Every step keeps the visitor's invariant and its verdict right. *)
LEMMA VisitorStep ==
  Visitor /\ VisitIsRight /\ [Next]_vars => Visitor' /\ VisitIsRight'
<1> SUFFICES ASSUME Visitor, VisitIsRight, [Next]_vars
    PROVE  Visitor' /\ VisitIsRight'
  OBVIOUS
<1>1. ASSUME NEW tag \in Tags, NEW empty \in BOOLEAN, Element(tag, empty)
      PROVE  Visitor' /\ VisitIsRight'
  <2>1. visit = "open"
    BY <1>1 DEF Element, Read
  <2> QED
    BY <1>1, <2>1, VisitorElement
<1>2. ASSUME NEW pair \in {<<tag.name, tag.space>> : tag \in Tags}, End(pair[1], pair[2])
      PROVE  Visitor' /\ VisitIsRight'
  <2>1. visit = "open"
    BY <1>2 DEF End, Read
  <2>2. pair[1] \in Names /\ pair[2] \in Spaces
    BY DEF Names, Spaces
  <2> QED
    BY <1>2, <2>1, <2>2, VisitorEnd
<1>3. ASSUME NEW text \in {"word", "blank"}, NEW cdata \in Forms, Text(text, cdata)
      PROVE  Visitor' /\ VisitIsRight'
  <2>1. visit = "open" /\ cdata \in BOOLEAN
    BY <1>3 DEF Text, Read, Forms
  <2> QED
    BY <1>3, <2>1, VisitorText
<1>4. ASSUME DocType \/ ReadFails PROVE Visitor' /\ VisitIsRight'
  <2>1. visit = "open"
    BY <1>4 DEF DocType, ReadFails, Read
  <2> QED
    BY <1>4, <2>1, VisitorFails
<1>5. ASSUME Eof PROVE Visitor' /\ VisitIsRight'
  <2>1. visit = "open"
    BY <1>5 DEF Eof, Read
  <2> QED
    BY <1>5, <2>1, VisitorEof
<1>6. CASE UNCHANGED vars
  <2>1. events' = events /\ UNCHANGED <<stack, roots, visit>>
    BY <1>6 DEF vars
  <2>2. /\ \A i : Depth(i)' = Depth(i) /\ Around(i)' = Around(i) /\ Frame(i)' = Frame(i)
        /\ \A i : Opens(i)' <=> Opens(i)
        /\ \A i : \A ids : IsPath(ids, i)' <=> IsPath(ids, i)
        /\ \A i : InPlace(i)' <=> InPlace(i)
    BY <2>1, SameEvents
  <2>3. Next1' = Next1
    BY <2>1 DEF Next1
  <2>4. Visitor'
    BY <2>1, <2>2, <2>3 DEF Visitor, Standing, InExtension
  <2>5. VisitIsRight'
    BY <2>1, <2>2 DEF VisitIsRight, Standing
  <2> QED
    BY <2>4, <2>5
<1> QED
  BY <1>1, <1>2, <1>3, <1>4, <1>5, <1>6 DEF Next

(* They hold before the first event. *)
LEMMA VisitorInit ==
  Init => Visitor /\ VisitIsRight
<1> SUFFICES ASSUME Init PROVE Visitor /\ VisitIsRight
  OBVIOUS
<1>1. events = <<>> /\ stack = <<>> /\ roots = 0 /\ visit = "open" /\ Next1 = 1
  BY DEF Init, Next1
<1>2. 1..(1 - 1) = {} /\ 1..0 = {}
  OBVIOUS
<1>3. Depth(1) = 0
  <2>1. {j \in 1..(1 - 1) : Nests(j)} = {} /\ {j \in 1..(1 - 1) : Closes(j)} = {}
    BY <1>2
  <2> QED
    BY <2>1, FS_EmptySet DEF Depth
<1>4. Around(1) = {}
  BY <1>2 DEF Around
<1>5. IsPath(<<>>, 1)
  <2>1. <<>> \in Seq(Nat) /\ Len(<<>>) = 0
    OBVIOUS
  <2>2. {<<>>[k] : k \in 1..0} = {}
    BY <1>2
  <2> QED
    BY <1>2, <1>3, <1>4, <2>1, <2>2 DEF IsPath
<1>6. Visitor
  <2>1. DOMAIN events = {}
    BY <1>1
  <2>2. \E ids : IsPath(ids, Next1)
    BY <1>1, <1>5
  <2>3. Len(stack) = Depth(Next1) /\ Around(Next1) = {} /\ 1..Len(stack) = {}
    BY <1>1, <1>2, <1>3, <1>4
  <2>4. events \in Seq(Event) /\ stack \in Seq([name : Names, space : Spaces])
    BY <1>1
  <2> QED
    BY <1>1, <2>1, <2>2, <2>3, <2>4 DEF Visitor
<1> QED
  BY <1>1, <1>6 DEF VisitIsRight

(* The visitor refuses an event exactly when the document, read as a whole, *)
(* has no place for it, whatever the document (structural.rs:295-313).     *)
THEOREM VisitorIsRight == Spec => []VisitIsRight
<1>1. Init => Visitor /\ VisitIsRight
  BY VisitorInit
<1>2. Visitor /\ VisitIsRight /\ [Next]_vars => (Visitor /\ VisitIsRight)'
  BY VisitorStep
<1> QED
  BY <1>1, <1>2, PTL DEF Spec

-----------------------------------------------------------------------------
(* The core elements, their numbers, and what is listed below them.        *)

(* The core elements have different numbers, from 1. *)
LEMMA Numbers ==
  ASSUME events \in Seq(Event)
  PROVE  /\ Bounded(CoreElements) /\ Cardinality(CoreElements) \in Nat
         /\ Number(None) = 0
         /\ \A i : Number(i) \in Nat
         /\ \A i \in CoreElements : i \in Nat /\ Number(i) \in 1..Cardinality(CoreElements)
         /\ \A i, j \in CoreElements : i < j => Number(i) < Number(j)
         /\ \A i, j \in CoreElements : Number(i) = Number(j) => i = j
<1>1. Len(events) \in Nat /\ CoreElements \subseteq 1..Len(events)
  BY DEF CoreElements, Inner
<1>2. Bounded(CoreElements)
  BY <1>1 DEF Bounded
<1>3. /\ IsFiniteSet(CoreElements) /\ Cardinality(CoreElements) \in Nat
      /\ \A i \in CoreElements : i \in Nat \ {0}
  BY <1>1, <1>2, BoundedFinite
<1>4. Number(None) = 0
  <2>1. {j \in CoreElements : j <= None} = {}
    BY <1>3 DEF None
  <2> QED
    BY <2>1, FS_EmptySet DEF Number
<1>5. ASSUME NEW i
      PROVE  /\ IsFiniteSet({j \in CoreElements : j <= i})
             /\ Number(i) \in Nat /\ Number(i) <= Cardinality(CoreElements)
  <2>1. {j \in CoreElements : j <= i} \in SUBSET CoreElements
    OBVIOUS
  <2> QED
    BY <1>3, <2>1, FS_Subset, FS_CardinalityType DEF Number
<1>9. \A i : Number(i) \in Nat /\ Number(i) <= Cardinality(CoreElements)
  BY <1>5
<1>6. ASSUME NEW i \in CoreElements PROVE Number(i) # 0
  <2>1. i \in {j \in CoreElements : j <= i}
    BY <1>3
  <2> QED
    BY <1>5, <2>1, FS_EmptySet DEF Number
<1>7. ASSUME NEW i \in CoreElements, NEW j \in CoreElements, i < j
      PROVE  Number(i) < Number(j)
  <2> DEFINE A == {k \in CoreElements : k <= i}
             B == {k \in CoreElements : k <= j}
  <2>1. A \in SUBSET B /\ j \in B /\ j \notin A
    BY <1>3, <1>7
  <2>2. IsFiniteSet(B) /\ Cardinality(A) = Number(i) /\ Cardinality(B) = Number(j)
    BY <1>5 DEF Number
  <2> HIDE DEF A, B
  <2>3. Cardinality(A) <= Cardinality(B) /\ Cardinality(A) # Cardinality(B)
    BY <2>1, <2>2, FS_Subset
  <2> QED
    BY <1>9, <2>2, <2>3
<1>8. ASSUME NEW i \in CoreElements, NEW j \in CoreElements, Number(i) = Number(j)
      PROVE  i = j
  BY <1>3, <1>7, <1>8, <1>9
<1> QED
  <2>1. \A i \in CoreElements : i \in Nat /\ Number(i) \in 1..Cardinality(CoreElements)
    BY <1>3, <1>6, <1>9
  <2> QED
    BY <1>2, <1>3, <1>4, <1>7, <1>8, <1>9, <2>1

(* Whether the next event is in an extension. *)
LEMMA ForeignNext ==
  ASSUME Visitor, Standing, NEW n, NEW e, OneMore(n, e)
  PROVE  Foreign(n + 1)' <=>
           InExtension \/ (e.kind \in {"start", "empty"} /\ ~IsCore(e.tag.space))
<1>1. /\ n = Len(events) /\ n \in Nat /\ events'[n + 1] = e
      /\ \A j \in 1..n : events'[j] = events[j]
  BY Longer DEF OneMore
<1>2. PICK here : here = n + 1
  OBVIOUS
<1>3. Around(here)' = Around(n + 1) /\ Around(n + 1) \subseteq 1..n /\ events'[here] = e
  BY <1>1, <1>2, Following, Position
<1>4. Foreign(here)' <=>
        \E j \in Around(here)' \cup {here} : Opens(j)' /\ ~IsCore(events'[j].tag.space)
  BY DEF Foreign
<1>5. \A j \in Around(n + 1) : events'[j] = events[j] /\ (Opens(j)' <=> Opens(j))
  BY <1>1, <1>3 DEF Opens
<1>6. (\E j \in Around(n + 1) : Opens(j) /\ ~IsCore(events[j].tag.space)) <=> InExtension
  BY <1>1, Position
<1>7. Opens(here)' <=> e.kind \in {"start", "empty"}
  BY <1>3 DEF Opens
<1>8. Foreign(here)' <=>
        \/ \E j \in Around(n + 1) : Opens(j) /\ ~IsCore(events[j].tag.space)
        \/ Opens(here)' /\ ~IsCore(e.tag.space)
  BY <1>3, <1>4, <1>5
<1> QED
  BY <1>2, <1>6, <1>7, <1>8

(* An event changes the number of none before it. *)
LEMMA NumberKept ==
  ASSUME NEW n, NEW e, OneMore(n, e)
  PROVE  \A i \in 0..n : Number(i)' = Number(i)
<1> SUFFICES ASSUME NEW i \in 0..n PROVE Number(i)' = Number(i)
  OBVIOUS
<1>1. n \in Nat
  BY Longer
<1>2. CoreElements' \subseteq CoreElements \cup {n + 1} /\ CoreElements \subseteq CoreElements'
  BY CoreGrows
<1>3. {j \in CoreElements' : j <= i} = {j \in CoreElements : j <= i}
  BY <1>1, <1>2
<1> QED
  BY <1>3 DEF Number

(* Whether the event that comes next is a core element. *)
Core(n) == ~Foreign(n + 1) /\ Opens(n + 1)

(* A new core element gets the next number. *)
LEMMA NumberNext ==
  ASSUME NEW n, NEW e, OneMore(n, e)
  PROVE  /\ Core(n)' => /\ Number(n + 1)' = Cardinality(CoreElements) + 1
                        /\ Cardinality(CoreElements') = Cardinality(CoreElements) + 1
                        /\ CoreElements' = CoreElements \cup {n + 1}
         /\ ~Core(n)' => CoreElements' = CoreElements
<1>1. /\ n \in Nat /\ CoreElements \subseteq 1..n
      /\ CoreElements' = IF Core(n)' THEN CoreElements \cup {n + 1} ELSE CoreElements
  BY Longer, CoreGrows DEF Core
<1>2. ASSUME Core(n)'
      PROVE  /\ Number(n + 1)' = Cardinality(CoreElements) + 1
             /\ Cardinality(CoreElements') = Cardinality(CoreElements) + 1
             /\ CoreElements' = CoreElements \cup {n + 1}
  <2>1. IsFiniteSet(CoreElements) /\ n + 1 \notin CoreElements
    <3>1. Bounded(CoreElements)
      BY <1>1 DEF Bounded
    <3> QED
      BY <1>1, <3>1, BoundedFinite
  <2>2. Cardinality(CoreElements \cup {n + 1}) = Cardinality(CoreElements) + 1
    BY <2>1, FS_AddElement
  <2>3. {j \in CoreElements' : j <= n + 1} = CoreElements \cup {n + 1}
    <3>1. CoreElements' = CoreElements \cup {n + 1}
      BY <1>1, <1>2
    <3>2. \A j \in CoreElements \cup {n + 1} : j <= n + 1
      BY <1>1
    <3> QED
      BY <3>1, <3>2
  <2> QED
    BY <1>1, <1>2, <2>2, <2>3 DEF Number
<1>3. ~Core(n)' => CoreElements' = CoreElements
  BY <1>1
<1> QED
  BY <1>2, <1>3

(* A new core element or text joins the list of its parent only. *)
LEMMA ListedGrow ==
  ASSUME NEW n, NEW e, OneMore(n, e)
  PROVE  /\ \A i : Children(i)' = IF Core(n)' /\ Parent(n + 1)' = i
                                  THEN Children(i) \cup {n + 1} ELSE Children(i)
         /\ \A i : Texts(i)' =
              IF ~Foreign(n + 1)' /\ e.kind \in {"text", "cdata"} /\ Parent(n + 1)' = i
              THEN Texts(i) \cup {n + 1} ELSE Texts(i)
         /\ \A i : Children(i) \subseteq 1..n /\ Texts(i) \subseteq 1..n
<1>1. /\ n \in Nat /\ events'[n + 1] = e /\ \A j \in 1..n : events'[j] = events[j]
      /\ \A j \in 1..n : j \in 1..(n + 1) /\ j # n + 1
  BY Longer
<1>2. \A j \in 1..n : Parent(j)' = Parent(j) /\ (Says(j)' <=> Says(j))
  BY <1>1, AroundKept DEF Says
<1>3. /\ CoreElements' = IF Core(n)' THEN CoreElements \cup {n + 1} ELSE CoreElements
      /\ Inner' = IF Foreign(n + 1)' THEN Inner ELSE Inner \cup {n + 1}
      /\ CoreElements \subseteq 1..n /\ Inner \subseteq 1..n
  BY CoreGrows DEF Core
<1>4. Says(n + 1)' <=> e.kind \in {"text", "cdata"}
  BY <1>1 DEF Says
<1>5. ASSUME NEW i
      PROVE  Children(i)' = IF Core(n)' /\ Parent(n + 1)' = i
                            THEN Children(i) \cup {n + 1} ELSE Children(i)
  <2>1. Children(i)' = {j \in CoreElements' : Parent(j)' = i}
    BY DEF Children
  <2>2. Children(i) = {j \in CoreElements : Parent(j) = i}
    BY DEF Children
  <2>3. {j \in CoreElements : Parent(j)' = i} = {j \in CoreElements : Parent(j) = i}
    BY <1>2, <1>3
  <2>4. CASE Core(n)'
    BY <1>3, <2>1, <2>2, <2>3, <2>4
  <2>5. CASE ~Core(n)'
    BY <1>3, <2>1, <2>2, <2>3, <2>5
  <2> QED
    BY <2>4, <2>5
<1>6. ASSUME NEW i
      PROVE  Texts(i)' =
               IF ~Foreign(n + 1)' /\ e.kind \in {"text", "cdata"} /\ Parent(n + 1)' = i
               THEN Texts(i) \cup {n + 1} ELSE Texts(i)
  <2>1. Texts(i)' = {j \in Inner' : Says(j)' /\ Parent(j)' = i}
    BY DEF Texts
  <2>2. Texts(i) = {j \in Inner : Says(j) /\ Parent(j) = i}
    BY DEF Texts
  <2>3. {j \in Inner : Says(j)' /\ Parent(j)' = i} = {j \in Inner : Says(j) /\ Parent(j) = i}
    BY <1>2, <1>3
  <2>4. CASE Foreign(n + 1)'
    BY <1>3, <2>1, <2>2, <2>3, <2>4
  <2>5. CASE ~Foreign(n + 1)'
    BY <1>3, <1>4, <2>1, <2>2, <2>3, <2>5
  <2> QED
    BY <2>4, <2>5
<1>7. \A i : Children(i) \subseteq CoreElements /\ Texts(i) \subseteq Inner
  BY DEF Children, Texts
<1> QED
  BY <1>3, <1>5, <1>6, <1>7

(* Numbers are natural numbers. *)
LEMMA NumbersAreNat ==
  events \in Seq(Event) => \A j : Number(j) \in Nat
  BY Numbers

(* The numbers of the children, through the listing of the children. *)
LEMMA KidsAre ==
  \A j, R, m, M : Children(j) = R /\ m = Cardinality(R) /\ M = Listing(R) =>
    Kids(j) = [k \in 1..m |-> Number(M[k])]
  BY DEF Kids

(* A child goes to the end of its parent's, and no other changes. *)
LEMMA KidsGrow ==
  ASSUME NEW n, NEW e, OneMore(n, e)
  PROVE  /\ \A i : Kids(i) \in Seq(Nat)
         /\ \A i : Kids(i)' = IF Core(n)' /\ Parent(n + 1)' = i
                              THEN Append(Kids(i), Number(n + 1)') ELSE Kids(i)
<1> SUFFICES ASSUME NEW i
    PROVE /\ Kids(i) \in Seq(Nat)
          /\ Kids(i)' = IF Core(n)' /\ Parent(n + 1)' = i
                        THEN Append(Kids(i), Number(n + 1)') ELSE Kids(i)
  OBVIOUS
<1>1. events \in Seq(Event)
  BY DEF OneMore
<1>0. n \in Nat /\ n + 1 \in Nat \ {0}
  BY Longer
<1>2. PICK S : S = Children(i)
  OBVIOUS
<1>3. PICK c : c = Cardinality(S)
  OBVIOUS
<1>4. PICK L : L = Listing(S)
  OBVIOUS
<1>5. S \subseteq 1..n /\ Bounded(S) /\ \A x \in S : x < n + 1
  <2>1. S \subseteq 1..n
    BY <1>2, ListedGrow
  <2> QED
    <3>1. Bounded(S)
      BY <1>0, <2>1 DEF Bounded
    <3>2. \A x \in 1..n : x < n + 1
      BY <1>0
    <3> QED
      BY <2>1, <3>1, <3>2
<1>6. c \in Nat /\ L \in [1..c -> S]
  <2>1. Lists(L, S) /\ c \in Nat
    BY <1>3, <1>4, <1>5, ListingExists, BoundedFinite
  <2> QED
    BY <1>3, <2>1 DEF Lists
<1>7. \A j : Number(j) \in Nat
  BY <1>1, Numbers
<1>8. Kids(i) = [k \in 1..c |-> Number(L[k])]
  BY <1>2, <1>3, <1>4 DEF Kids
<1>9. Kids(i) \in Seq(Nat) /\ Len(Kids(i)) = c /\ \A k \in 1..c : Kids(i)[k] = Number(L[k])
  BY <1>6, <1>7, <1>8
<1>10. \A k \in 1..c : Number(L[k])' = Number(L[k])
  <2>1. \A k \in 1..c : L[k] \in 0..n
    <3>1. \A x \in 1..n : x \in 0..n
      BY <1>0
    <3>2. \A k \in 1..c : L[k] \in S
      BY <1>6
    <3> QED
      BY <1>5, <3>1, <3>2
  <2> QED
    BY <2>1, NumberKept
<1>11. \A R, m, M : Children(i)' = R /\ m = Cardinality(R) /\ M = Listing(R) =>
         Kids(i)' = [k \in 1..m |-> Number(M[k])']
  <2>1. (\A j, R, m, M : Children(j) = R /\ m = Cardinality(R) /\ M = Listing(R) =>
          Kids(j) = [k \in 1..m |-> Number(M[k])])'
    BY KidsAre, PTL
  <2> QED
    BY <2>1
<1>12. CASE ~(Core(n)' /\ Parent(n + 1)' = i)
  <2>1. Children(i)' = S
    BY <1>2, <1>12, ListedGrow
  <2>2. Kids(i)' = [k \in 1..c |-> Number(L[k])']
    BY <1>3, <1>4, <1>11, <2>1
  <2> QED
    BY <1>8, <1>9, <1>10, <1>12, <2>2
<1>13. CASE Core(n)' /\ Parent(n + 1)' = i
  <2>1. Children(i)' = S \cup {n + 1}
    BY <1>2, <1>13, ListedGrow
  <2>2. PICK M : M = Listing(S \cup {n + 1})
    OBVIOUS
  <2>3. Cardinality(S \cup {n + 1}) = c + 1
    BY <1>0, <1>3, <1>5, ListingGrows
  <2>4. M = [k \in 1..(c + 1) |-> IF k <= c THEN L[k] ELSE n + 1]
    BY <1>0, <1>3, <1>4, <1>5, <2>2, ListingGrows
  <2>5. Kids(i)' = [k \in 1..(c + 1) |-> Number(M[k])']
    BY <1>11, <2>1, <2>2, <2>3
  <2>6. /\ \A k \in 1..c : k \in 1..(c + 1) /\ M[k] = L[k]
        /\ c + 1 \in 1..(c + 1) /\ M[c + 1] = n + 1
    BY <1>6, <2>4
  <2>7. PICK new : new = Number(n + 1)'
    OBVIOUS
  <2>8. new \in Nat
    <3>1. events' \in Seq(Event)
      BY Longer
    <3>2. (events \in Seq(Event) => \A j : Number(j) \in Nat)'
      BY NumbersAreNat, PTL
    <3> QED
      BY <2>7, <3>1, <3>2
  <2>9. /\ \A k \in 1..c : Kids(i)'[k] = Kids(i)[k]
        /\ Kids(i)'[c + 1] = new
    BY <1>6, <1>9, <1>10, <2>5, <2>6, <2>7
  <2>13. /\ Append(Kids(i), new) \in Seq(Nat) /\ Len(Append(Kids(i), new)) = c + 1
         /\ Append(Kids(i), new)[c + 1] = new
         /\ \A k \in 1..c : Append(Kids(i), new)[k] = Kids(i)[k]
    BY <1>9, <2>8, AppendProperties
  <2>10. \A k \in 1..(c + 1) : Kids(i)'[k] = Append(Kids(i), new)[k]
    BY <1>6, <2>9, <2>13
  <2>11. Append(Kids(i), new) = [k \in 1..(c + 1) |-> Append(Kids(i), new)[k]]
    <3>1. PICK s : s = Append(Kids(i), new)
      OBVIOUS
    <3>2. s \in Seq(Nat) /\ Len(s) = c + 1
      BY <2>13, <3>1
    <3>3. s = [k \in 1..(c + 1) |-> s[k]]
      BY <3>2
    <3> QED
      BY <3>1, <3>3
  <2>12. Kids(i)' = [k \in 1..(c + 1) |-> Kids(i)'[k]]
    BY <2>5
  <2> QED
    BY <1>9, <1>13, <2>7, <2>10, <2>11, <2>12
<1> QED
  BY <1>9, <1>12, <1>13

(* The text of an element, through the listing of its pieces. *)
LEMMA TextIs ==
  \A j, R, m, M : Texts(j) = R /\ m = Cardinality(R) /\ M = Listing(R) =>
    TextOf(j) = [k \in 1..m |-> events[M[k]].text]
  BY DEF TextOf

(* Text goes to the end of what the element around it has. *)
LEMMA TextGrows ==
  ASSUME NEW n, NEW e, OneMore(n, e)
  PROVE  /\ \A i : TextOf(i) \in Seq({"word", "blank"})
         /\ \A i : TextOf(i)' =
              IF ~Foreign(n + 1)' /\ e.kind \in {"text", "cdata"} /\ Parent(n + 1)' = i
              THEN Append(TextOf(i), e.text) ELSE TextOf(i)
<1> DEFINE W == {"word", "blank"}
           more == ~Foreign(n + 1)' /\ e.kind \in {"text", "cdata"}
<1> SUFFICES ASSUME NEW i
    PROVE /\ TextOf(i) \in Seq(W)
          /\ TextOf(i)' = IF more /\ Parent(n + 1)' = i
                          THEN Append(TextOf(i), e.text) ELSE TextOf(i)
  OBVIOUS
<1>1. events \in Seq(Event) /\ e \in Event /\ n = Len(events)
  BY DEF OneMore
<1>2. n \in Nat /\ n + 1 \in Nat \ {0}
  BY Longer
<1>3. events'[n + 1] = e /\ \A j \in 1..n : events'[j] = events[j]
  BY Longer
<1>4. \A x \in Event : x.kind \in {"text", "cdata"} => x.text \in W
  BY DEF Event
<1> HIDE DEF W
<1>5. PICK S : S = Texts(i)
  OBVIOUS
<1>6. PICK c : c = Cardinality(S)
  OBVIOUS
<1>7. PICK L : L = Listing(S)
  OBVIOUS
<1>8. S \subseteq 1..n
  BY <1>5, ListedGrow
<1>9. Bounded(S) /\ \A x \in S : x < n + 1
  <2>1. Bounded(S)
    BY <1>2, <1>8 DEF Bounded
  <2>2. \A x \in 1..n : x < n + 1
    BY <1>2
  <2> QED
    BY <1>8, <2>1, <2>2
<1>10. c \in Nat /\ L \in [1..c -> S]
  <2>1. Lists(L, S) /\ c \in Nat
    BY <1>6, <1>7, <1>9, ListingExists, BoundedFinite
  <2> QED
    BY <1>6, <2>1 DEF Lists
<1>11. \A j \in S : j \in 1..n /\ events[j].text \in W
  <2>1. \A j \in S : events[j].kind \in {"text", "cdata"}
    BY <1>5 DEF Texts, Says
  <2>2. \A j \in S : j \in 1..n /\ events[j] \in Event
    BY <1>1, <1>8
  <2> QED
    BY <1>4, <2>1, <2>2
<1>12. TextOf(i) = [k \in 1..c |-> events[L[k]].text]
  BY <1>5, <1>6, <1>7, TextIs
<1>13. \A k \in 1..c : L[k] \in S
  BY <1>10
<1>14. /\ TextOf(i) \in Seq(W) /\ Len(TextOf(i)) = c
       /\ \A k \in 1..c : TextOf(i)[k] = events[L[k]].text
  BY <1>10, <1>11, <1>12, <1>13
<1>15. \A k \in 1..c : events'[L[k]].text = events[L[k]].text
  BY <1>3, <1>11, <1>13
<1>16. \A R, m, M : Texts(i)' = R /\ m = Cardinality(R) /\ M = Listing(R) =>
         TextOf(i)' = [k \in 1..m |-> events'[M[k]].text]
  <2>1. (\A j, R, m, M : Texts(j) = R /\ m = Cardinality(R) /\ M = Listing(R) =>
          TextOf(j) = [k \in 1..m |-> events[M[k]].text])'
    BY TextIs, PTL
  <2> QED
    BY <2>1
<1>17. CASE ~(more /\ Parent(n + 1)' = i)
  <2>1. Texts(i)' = S
    BY <1>5, <1>17, ListedGrow
  <2>2. TextOf(i)' = [k \in 1..c |-> events'[L[k]].text]
    BY <1>6, <1>7, <1>16, <2>1
  <2> QED
    BY <1>12, <1>14, <1>15, <1>17, <2>2
<1>18. CASE more /\ Parent(n + 1)' = i
  <2>1. Texts(i)' = S \cup {n + 1}
    BY <1>5, <1>18, ListedGrow
  <2>2. PICK M : M = Listing(S \cup {n + 1})
    OBVIOUS
  <2>3. Cardinality(S \cup {n + 1}) = c + 1
    BY <1>2, <1>6, <1>9, ListingGrows
  <2>4. M = [k \in 1..(c + 1) |-> IF k <= c THEN L[k] ELSE n + 1]
    BY <1>2, <1>6, <1>7, <1>9, <2>2, ListingGrows
  <2>5. TextOf(i)' = [k \in 1..(c + 1) |-> events'[M[k]].text]
    BY <1>16, <2>1, <2>2, <2>3
  <2>6. /\ \A k \in 1..c : k \in 1..(c + 1) /\ M[k] = L[k]
        /\ c + 1 \in 1..(c + 1) /\ M[c + 1] = n + 1
    BY <1>10, <2>4
  <2>7. e.text \in W
    BY <1>1, <1>4, <1>18
  <2>8. PICK s : s = Append(TextOf(i), e.text)
    OBVIOUS
  <2>9. /\ s \in Seq(W) /\ Len(s) = c + 1 /\ s[c + 1] = e.text
        /\ \A k \in 1..c : s[k] = TextOf(i)[k]
    BY <1>14, <2>7, <2>8, AppendProperties
  <2>10. \A k \in 1..c : TextOf(i)'[k] = TextOf(i)[k]
    BY <1>14, <1>15, <2>5, <2>6
  <2>11. TextOf(i)'[c + 1] = e.text
    BY <1>3, <2>5, <2>6
  <2>12. \A k \in 1..(c + 1) : TextOf(i)'[k] = s[k]
    BY <1>10, <2>9, <2>10, <2>11
  <2>13. s = [k \in 1..(c + 1) |-> s[k]]
    BY <2>9
  <2>14. TextOf(i)' = [k \in 1..(c + 1) |-> TextOf(i)'[k]]
    BY <2>5
  <2>15. TextOf(i)' = s
    BY <2>12, <2>13, <2>14
  <2> QED
    BY <1>14, <1>18, <2>8, <2>15
<1> QED
  BY <1>14, <1>17, <1>18

-----------------------------------------------------------------------------
(* The validator's consumer, one operation at a time.                      *)

Words == {"word", "blank"}
Node == [name : Names, tag : Tags, text : Seq(Words), children : Seq(Nat), parent : Nat]
TreeRecord ==
  [verdict : {"open", "ok", "invalid", "unsupported", "limit"}, nodes : Seq(Node),
   stack : Seq(Nat), limit : Nat, structures : Nat, memory : Nat]

(* An element is admitted exactly when it fits the limit and the memory. *)
LEMMA AdmitIs ==
  ASSUME NEW t \in TreeRecord, t.verdict = "open", NEW a \in Nat
  PROVE  LET u == Admit(t, a)
             fits == t.structures + 1 <= t.limit /\ t.memory + 1 + a <= Room
         IN  /\ u \in TreeRecord /\ u.nodes = t.nodes /\ u.stack = t.stack
             /\ u.limit = t.limit
             /\ fits => /\ u.verdict = "open" /\ u.structures = t.structures + 1
                        /\ u.memory = t.memory + 1 + a
             /\ ~fits => u.verdict = "limit"
<1>1. Room \in Nat /\ t.structures \in Nat /\ t.memory \in Nat /\ t.limit \in Nat
  BY DocumentAssumption DEF TreeRecord
<1>2. CASE t.structures + 1 > t.limit \/ t.memory + 1 + a > Room
  <2>1. Admit(t, a) = [t EXCEPT !.verdict = "limit"]
    BY <1>2 DEF Admit
  <2> QED
    BY <1>1, <1>2, <2>1, SMTT(20) DEF TreeRecord
<1>3. CASE ~(t.structures + 1 > t.limit \/ t.memory + 1 + a > Room)
  <2>1. Admit(t, a) = [t EXCEPT !.structures = t.structures + 1,
                                !.memory = t.memory + 1 + a]
    BY <1>3 DEF Admit
  <2>2. t.structures + 1 <= t.limit /\ t.memory + 1 + a <= Room
    BY <1>1, <1>3
  <2>3. t.structures + 1 \in Nat /\ t.memory + 1 + a \in Nat
    BY <1>1
  <2>4. /\ Admit(t, a) \in TreeRecord /\ Admit(t, a).nodes = t.nodes
        /\ Admit(t, a).stack = t.stack /\ Admit(t, a).limit = t.limit
        /\ Admit(t, a).verdict = "open" /\ Admit(t, a).structures = t.structures + 1
        /\ Admit(t, a).memory = t.memory + 1 + a
    BY <2>1, <2>3 DEF TreeRecord
  <2> QED
    BY <2>2, <2>4
<1> QED
  BY <1>2, <1>3

(* A node is added below the top of the stack, and linked to it. *)
LEMMA GrowIs ==
  ASSUME NEW t \in TreeRecord, t.verdict = "open", NEW e, e.tag \in Tags,
         e.depth \in Nat, e.empty \in BOOLEAN
  PROVE  LET u == Grow(t, e)
             idx == Len(t.nodes) + 1
             parent == IF t.stack = <<>> THEN None ELSE Last(t.stack)
         IN  /\ u \in TreeRecord /\ u.limit = t.limit
             /\ u.structures = t.structures /\ u.memory = t.memory
             /\ u.verdict \in {"open", "invalid"}
             /\ u.verdict = "open" =>
                  /\ Len(u.nodes) = idx
                  /\ u.nodes[idx] = [name |-> e.tag.name, tag |-> e.tag, text |-> <<>>,
                                     children |-> <<>>, parent |-> parent]
                  /\ \A i \in 1..Len(t.nodes) :
                       u.nodes[i] = IF i = parent
                                    THEN [t.nodes[i] EXCEPT !.children = Append(@, idx)]
                                    ELSE t.nodes[i]
                  /\ u.stack = IF e.empty THEN t.stack ELSE Append(t.stack, idx)
<1>1. PICK idx : idx = Len(t.nodes) + 1
  OBVIOUS
<1>2. PICK parent : parent = IF t.stack = <<>> THEN None ELSE Last(t.stack)
  OBVIOUS
<1>3. PICK node : node = [name |-> e.tag.name, tag |-> e.tag, text |-> <<>>,
                          children |-> <<>>, parent |-> parent]
  OBVIOUS
<1>4. PICK linked : linked = [i \in 1..(idx - 1) |->
                                IF i = parent
                                THEN [t.nodes[i] EXCEPT !.children = Append(@, idx)]
                                ELSE t.nodes[i]]
  OBVIOUS
<1>5. CASE e.tag.fault = "descriptor" \/ e.depth # Len(t.stack)
  <2>1. Grow(t, e) = [t EXCEPT !.verdict = "invalid"]
    BY <1>5 DEF Grow
  <2> QED
    BY <2>1 DEF TreeRecord
<1>6. CASE ~(e.tag.fault = "descriptor" \/ e.depth # Len(t.stack))
  <2>1. Grow(t, e) = [t EXCEPT !.nodes = Append(linked, node),
                               !.stack = IF e.empty THEN t.stack ELSE Append(t.stack, idx)]
    BY <1>1, <1>2, <1>3, <1>4, <1>6 DEF Grow
  <2>2. t.nodes \in Seq(Node) /\ t.stack \in Seq(Nat) /\ idx \in Nat /\ idx - 1 = Len(t.nodes)
    BY <1>1 DEF TreeRecord
  <2>3. parent \in Nat
    <3>1. CASE t.stack = <<>>
      BY <1>2, <3>1 DEF None
    <3>2. CASE t.stack # <<>>
      <4>1. Len(t.stack) \in 1..Len(t.stack)
        BY <2>2, <3>2
      <4> QED
        BY <1>2, <2>2, <3>2, <4>1 DEF Last
    <3> QED
      BY <3>1, <3>2
  <2>4. node \in Node
    <3>1. <<>> \in Seq(Words) /\ <<>> \in Seq(Nat) /\ e.tag.name \in Names
      BY DEF Names
    <3> QED
      BY <1>3, <2>3, <3>1 DEF Node
  <2>5. ASSUME NEW i \in 1..(idx - 1)
        PROVE  linked[i] \in Node
    <3>1. t.nodes[i] \in Node
      BY <2>2
    <3>2. t.nodes[i].children \in Seq(Nat)
      BY <3>1 DEF Node
    <3>3. Append(t.nodes[i].children, idx) \in Seq(Nat)
      BY <2>2, <3>2
    <3>4. [t.nodes[i] EXCEPT !.children = Append(@, idx)] \in Node
      BY <3>1, <3>3 DEF Node
    <3> QED
      BY <1>4, <3>1, <3>4
  <2>6. linked \in Seq(Node) /\ Len(linked) = idx - 1
    <3>1. linked = [i \in 1..(idx - 1) |-> linked[i]]
      BY <1>4
    <3>2. linked \in [1..(idx - 1) -> Node]
      BY <2>5, <3>1
    <3>3. idx - 1 \in Nat
      BY <2>2
    <3> QED
      BY <3>2, <3>3
  <2>7. /\ Append(linked, node) \in Seq(Node) /\ Len(Append(linked, node)) = idx
        /\ Append(linked, node)[idx] = node
        /\ \A i \in 1..(idx - 1) : Append(linked, node)[i] = linked[i]
    <3>1. Append(linked, node) \in Seq(Node) /\ Len(Append(linked, node)) = idx - 1 + 1
          /\ Append(linked, node)[idx - 1 + 1] = node
          /\ \A i \in 1..(idx - 1) : Append(linked, node)[i] = linked[i]
      BY <2>4, <2>6, AppendProperties
    <3>2. idx - 1 + 1 = idx
      BY <2>2
    <3> QED
      BY <3>1, <3>2
  <2>8. (IF e.empty THEN t.stack ELSE Append(t.stack, idx)) \in Seq(Nat)
    BY <2>2
  <2>9. /\ Grow(t, e) \in TreeRecord /\ Grow(t, e).limit = t.limit
        /\ Grow(t, e).structures = t.structures /\ Grow(t, e).memory = t.memory
        /\ Grow(t, e).verdict = "open" /\ Grow(t, e).nodes = Append(linked, node)
        /\ Grow(t, e).stack = IF e.empty THEN t.stack ELSE Append(t.stack, idx)
    BY <2>1, <2>7, <2>8 DEF TreeRecord
  <2> QED
    <3>1. PICK u : u = Grow(t, e)
      OBVIOUS
    <3>2. /\ u \in TreeRecord /\ u.limit = t.limit /\ u.verdict = "open"
          /\ u.structures = t.structures /\ u.memory = t.memory
      BY <2>9, <3>1
    <3>3. /\ Len(u.nodes) = idx /\ u.nodes[idx] = node
          /\ u.stack = IF e.empty THEN t.stack ELSE Append(t.stack, idx)
      BY <2>7, <2>9, <3>1
    <3>4. \A i \in 1..Len(t.nodes) : u.nodes[i] = linked[i]
      BY <1>1, <2>2, <2>7, <2>9, <3>1
    <3>5. \A i \in 1..Len(t.nodes) :
            u.nodes[i] = IF i = parent
                         THEN [t.nodes[i] EXCEPT !.children = Append(@, idx)]
                         ELSE t.nodes[i]
      BY <1>1, <1>4, <2>2, <3>4
    <3> QED
      BY <1>1, <1>2, <1>3, <3>1, <3>2, <3>3, <3>5
<1> QED
  BY <1>5, <1>6

(* The attributes of a tag can be counted. *)
LEMMA AttrsAreCounted ==
  \A tag \in Tags : Cardinality(tag.attrs) \in Nat
  BY DocumentAssumption, FS_CardinalityType

(* A consumer that has its verdict does nothing. *)
LEMMA ParseDone ==
  ASSUME NEW t, t.verdict # "open", NEW e
  PROVE  Parse(t, e) = t
  BY Zenon DEF Parse

(* The elements of an extension are paid for, its text and ends are free. *)
LEMMA ParseIgnored ==
  ASSUME NEW t, t.verdict = "open", NEW e, e.kind = "ignored"
  PROVE  Parse(t, e) = IF e.attributes < 0 THEN t ELSE Admit(t, e.attributes)
<1>1. /\ ~(t.verdict # "open") /\ e.kind # "element" /\ e.kind # "end" /\ e.kind # "text"
      /\ e.kind = "ignored"
  OBVIOUS
<1> QED
  BY <1>1, Zenon DEF Parse

(* A core element is paid for first, then added. *)
LEMMA ParseElement ==
  ASSUME NEW t \in TreeRecord, t.verdict = "open", NEW e, e.kind = "element",
         e.tag \in Tags, e.depth \in Nat, e.empty \in BOOLEAN
  PROVE  LET u == Parse(t, e)
             a == Cardinality(e.tag.attrs)
             fits == t.structures + 1 <= t.limit /\ t.memory + 1 + a <= Room
             idx == Len(t.nodes) + 1
             parent == IF t.stack = <<>> THEN None ELSE Last(t.stack)
         IN  /\ u \in TreeRecord /\ u.limit = t.limit
             /\ fits => /\ u.verdict \in {"open", "invalid"}
                        /\ u.structures = t.structures + 1 /\ u.memory = t.memory + 1 + a
             /\ ~fits => u.verdict = "limit"
             /\ u.verdict = "open" =>
                  /\ Len(u.nodes) = idx
                  /\ u.nodes[idx] = [name |-> e.tag.name, tag |-> e.tag, text |-> <<>>,
                                     children |-> <<>>, parent |-> parent]
                  /\ \A i \in 1..Len(t.nodes) :
                       u.nodes[i] = IF i = parent
                                    THEN [t.nodes[i] EXCEPT !.children = Append(@, idx)]
                                    ELSE t.nodes[i]
                  /\ u.stack = IF e.empty THEN t.stack ELSE Append(t.stack, idx)
<1>1. PICK a \in Nat : a = Cardinality(e.tag.attrs)
  BY AttrsAreCounted
<1>2. PICK v : v = Admit(t, a)
  OBVIOUS
<1>3. Parse(t, e) = IF v.verdict # "open" THEN v ELSE Grow(v, e)
  BY <1>1, <1>2 DEF Parse
<1>4. /\ v \in TreeRecord /\ v.nodes = t.nodes /\ v.stack = t.stack /\ v.limit = t.limit
      /\ t.structures + 1 <= t.limit /\ t.memory + 1 + a <= Room =>
           /\ v.verdict = "open" /\ v.structures = t.structures + 1
           /\ v.memory = t.memory + 1 + a
      /\ ~(t.structures + 1 <= t.limit /\ t.memory + 1 + a <= Room) => v.verdict = "limit"
  BY <1>2, AdmitIs
<1>5. CASE v.verdict # "open"
  <2>1. Parse(t, e) = v
    BY <1>3, <1>5
  <2> QED
    BY <1>1, <1>4, <1>5, <2>1
<1>6. CASE v.verdict = "open"
  <2>1. PICK u : u = Grow(v, e)
    OBVIOUS
  <2>2. Parse(t, e) = u
    BY <1>3, <1>6, <2>1
  <2>3. PICK idx : idx = Len(t.nodes) + 1
    OBVIOUS
  <2>4. PICK parent : parent = IF t.stack = <<>> THEN None ELSE Last(t.stack)
    OBVIOUS
  <2>5. /\ u \in TreeRecord /\ u.limit = v.limit
        /\ u.structures = v.structures /\ u.memory = v.memory
        /\ u.verdict \in {"open", "invalid"}
    BY <1>4, <1>6, <2>1, GrowIs
  <2>7. idx = Len(v.nodes) + 1 /\ parent = IF v.stack = <<>> THEN None ELSE Last(v.stack)
    BY <1>4, <2>3, <2>4
  <2>6. u.verdict = "open" =>
           /\ Len(u.nodes) = idx
           /\ u.nodes[idx] = [name |-> e.tag.name, tag |-> e.tag, text |-> <<>>,
                              children |-> <<>>, parent |-> parent]
           /\ \A i \in 1..Len(v.nodes) :
                u.nodes[i] = IF i = parent
                             THEN [v.nodes[i] EXCEPT !.children = Append(@, idx)]
                             ELSE v.nodes[i]
           /\ u.stack = IF e.empty THEN v.stack ELSE Append(v.stack, idx)
    BY <1>4, <1>6, <2>1, <2>7, GrowIs
  <2> QED
    BY <1>1, <1>4, <1>6, <2>2, <2>3, <2>4, <2>5, <2>6, ZenonT(40)
<1> QED
  BY <1>5, <1>6

(* The end of the element on top of the stack takes it off. *)
LEMMA ParseEnd ==
  ASSUME NEW t \in TreeRecord, t.verdict = "open", NEW e, e.kind = "end", Len(t.stack) > 0,
         t.nodes[Last(t.stack)].name = e.name, Len(t.stack) - 1 = e.depth
  PROVE  /\ Parse(t, e) = [t EXCEPT !.stack = Front(t.stack)]
         /\ Parse(t, e) \in TreeRecord
<1>1. t.stack # <<>> /\ t.stack \in Seq(Nat)
  BY DEF TreeRecord
<1>2. Parse(t, e) = [t EXCEPT !.stack = Front(t.stack)]
  BY <1>1 DEF Parse
<1>3. Front(t.stack) \in Seq(Nat)
  BY <1>1, FrontIs
<1> QED
  BY <1>2, <1>3 DEF TreeRecord

Written(node, text) == [node EXCEPT !.text = Append(@, text)]

(* Text goes to the node on top of the stack. *)
LEMMA ParseText ==
  ASSUME NEW t \in TreeRecord, t.verdict = "open", NEW e, e.kind = "text",
         e.depth = Len(t.stack), e.text \in Words,
         NEW top \in 1..Len(t.nodes), top = Last(t.stack)
  PROVE  LET u == Parse(t, e)
         IN  /\ u \in TreeRecord /\ Len(u.nodes) = Len(t.nodes)
             /\ u.verdict = "open" /\ u.stack = t.stack /\ u.limit = t.limit
             /\ u.structures = t.structures /\ u.memory = t.memory
             /\ \A i \in 1..Len(t.nodes) :
                  u.nodes[i] = IF i = top
                               THEN Written(t.nodes[i], e.text)
                               ELSE t.nodes[i]
<1>1. t.nodes \in Seq(Node) /\ Len(t.nodes) \in Nat
  BY DEF TreeRecord
<1>2. PICK new : new = [t.nodes[top] EXCEPT !.text = Append(@, e.text)]
  OBVIOUS
<1>3. new \in Node
  <2>1. t.nodes[top] \in Node
    BY <1>1
  <2>2. t.nodes[top].text \in Seq(Words)
    BY <2>1 DEF Node
  <2>3. Append(t.nodes[top].text, e.text) \in Seq(Words)
    BY <2>2
  <2> QED
    BY <1>2, <2>1, <2>3 DEF Node
<1>4. PICK nodes : nodes = [t.nodes EXCEPT ![top] = new]
  OBVIOUS
<1>5. /\ nodes \in Seq(Node) /\ Len(nodes) = Len(t.nodes)
      /\ \A i \in 1..Len(t.nodes) : nodes[i] = IF i = top THEN new ELSE t.nodes[i]
  BY <1>1, <1>3, <1>4
<1>6. Parse(t, e) = [t EXCEPT !.nodes = nodes]
  BY <1>2, <1>4 DEF Parse
<1> QED
  BY <1>2, <1>5, <1>6 DEF TreeRecord, Written

-----------------------------------------------------------------------------
(* The tree is the document's, as long as the validator keeps it.          *)

(* How many of the open elements are core elements: those of an extension *)
(* are above them all.                                                     *)
CoreOpen == IF InExtension THEN 1 ELSE Len(stack)

NodeIs(i) ==
  LET node == tree.nodes[Number(i)]
  IN  /\ node.tag = events[i].tag /\ node.name = events[i].tag.name
      /\ node.parent = Number(Parent(i))
      /\ node.children = Kids(i) /\ node.text = TextOf(i)

TreeIs(next) ==
  /\ Len(tree.nodes) = Cardinality(CoreElements)
  /\ Len(tree.stack) = CoreOpen
  /\ \A j \in Around(next) : Depth(j) < CoreOpen => tree.stack[Depth(j) + 1] = Number(j)
  /\ \A i \in CoreElements : NodeIs(i)

Tree ==
  /\ tree \in TreeRecord
  /\ visit = "open" => tree.verdict # "ok"
  /\ Standing /\ tree.verdict \in {"open", "ok"} => TreeIs(Next1)

(* The core elements among the open ones are the outermost. *)
LEMMA CoreOpenIs ==
  ASSUME Visitor, Standing
  PROVE  /\ CoreOpen \in Nat /\ Len(stack) \in Nat /\ CoreOpen <= Len(stack)
         /\ stack = <<>> => CoreOpen = 0 /\ ~InExtension
         /\ stack # <<>> => CoreOpen >= 1 /\ Len(stack) >= 1
         /\ ~InExtension => CoreOpen = Len(stack)
         /\ InExtension => CoreOpen = 1 /\ Len(stack) >= 2 /\ stack # <<>>
<1>1. stack \in Seq([name : Names, space : Spaces])
  BY DEF Visitor
<1>2. Len(stack) \in Nat /\ (stack = <<>> <=> Len(stack) = 0)
  BY <1>1
<1> QED
  BY <1>2 DEF CoreOpen, InExtension

(* The open elements that are core ones. *)
LEMMA CoreAround ==
  ASSUME Visitor, Standing, NEW n, n = Len(events), NEW j \in Around(n + 1),
         Depth(j) < CoreOpen
  PROVE  j \in CoreElements
<1>1. /\ n \in Nat /\ Around(n + 1) \subseteq 1..n /\ Nests(j)
      /\ Depth(j) \in 0..(Len(stack) - 1)
      /\ \A i \in Around(n + 1) : stack[Depth(i) + 1] = Frame(i)
      /\ \A i \in Around(n + 1) : Depth(i) \in 0..(Len(stack) - 1)
  BY Position
<1>2. n + 1 \in Nat \ {0} /\ Next1 = n + 1
  BY <1>1 DEF Next1
<1>3. PICK ids : IsPath(ids, n + 1)
  BY <1>2 DEF Visitor
<1>4. \A i \in Around(j) : i \in Around(n + 1) /\ Depth(i) < Depth(j)
  <2>1. PICK k \in 1..Len(ids) : j = ids[k]
    BY <1>3 DEF IsPath
  <2>2. /\ Depth(j) = k - 1 /\ Around(j) = {ids[m] : m \in 1..(k - 1)}
        /\ Around(n + 1) = {ids[m] : m \in 1..Len(ids)} /\ Len(ids) \in Nat
        /\ \A m \in 1..Len(ids) : Depth(ids[m]) = m - 1
    BY <1>3, <2>1, SMTT(20) DEF IsPath
  <2>3. \A m \in 1..(k - 1) : m \in 1..Len(ids) /\ m - 1 < k - 1
    BY <2>2
  <2> QED
    BY <2>2, <2>3
<1>5. \A i \in Around(n + 1) : Depth(i) < CoreOpen => IsCore(events[i].tag.space)
  <2> SUFFICES ASSUME NEW i \in Around(n + 1), Depth(i) < CoreOpen
      PROVE  IsCore(events[i].tag.space)
    OBVIOUS
  <2>1. stack[Depth(i) + 1].space = events[i].tag.space
    BY <1>1, FrameFields
  <2>2. Depth(i) + 1 \in 1..Len(stack)
    BY <1>1, CoreOpenIs
  <2>3. CASE InExtension
    <3>1. Depth(i) + 1 = 1 /\ stack # <<>>
      BY <1>1, <2>3, CoreOpenIs
    <3> QED
      BY <2>1, <3>1 DEF Visitor
  <2>4. CASE ~InExtension
    BY <2>1, <2>2, <2>4 DEF Visitor
  <2> QED
    BY <2>3, <2>4
<1>6. \A i \in Around(j) \cup {j} : IsCore(events[i].tag.space)
  <2>1. \A i \in Around(j) : Depth(i) \in Int /\ Depth(i) < CoreOpen
    <3>1. \A i \in Around(j) : Depth(i) \in Int /\ Depth(i) < Depth(j)
      BY <1>1, <1>4
    <3>2. CoreOpen \in Nat /\ Depth(j) \in Int
      BY <1>1, CoreOpenIs
    <3> QED
      BY <3>1, <3>2
  <2> QED
    BY <1>4, <1>5, <2>1
<1>7. ~Foreign(j) /\ Opens(j)
  BY <1>1, <1>6 DEF Foreign, Nests, Opens
<1>8. j \in DOMAIN events
  BY <1>1 DEF Visitor
<1> QED
  BY <1>7, <1>8 DEF CoreElements, Inner

(* What an event finds at the top of the validator's stack. *)
LEMMA TreeTop ==
  ASSUME Visitor, Standing, tree \in TreeRecord, NEW n, n = Len(events), TreeIs(n + 1),
         stack # <<>>, ~InExtension
  PROVE  /\ Parent(n + 1) \in CoreElements /\ Len(tree.stack) > 0 /\ tree.stack # <<>>
         /\ Last(tree.stack) = Number(Parent(n + 1))
<1>1. Parent(n + 1) \in Around(n + 1) /\ Depth(Parent(n + 1)) = Len(stack) - 1
  BY Position
<1>2. Len(stack) \in Nat /\ CoreOpen = Len(stack) /\ Len(stack) >= 1
  BY CoreOpenIs
<1>3. Depth(Parent(n + 1)) < CoreOpen /\ Depth(Parent(n + 1)) + 1 = Len(stack)
  BY <1>1, <1>2
<1>4. Parent(n + 1) \in CoreElements
  BY <1>1, <1>3, CoreAround
<1>5. tree.stack[Len(stack)] = Number(Parent(n + 1)) /\ Len(tree.stack) = Len(stack)
  BY <1>1, <1>2, <1>3 DEF TreeIs
<1>6. tree.stack # <<>>
  <2>1. Len(<<>>) = 0
    OBVIOUS
  <2> QED
    BY <1>2, <1>5, <2>1
<1> QED
  BY <1>2, <1>4, <1>5, <1>6 DEF Last

(* Numbers below a bound have a greatest. *)
LEMMA GreatestNumber ==
  ASSUME NEW n \in Nat, NEW S, S \subseteq 1..n, S # {}
  PROVE  Max(S) \in S
<1> DEFINE T == {k \in Nat : \E x \in S : k = n - x}
<1>1. T \in SUBSET Nat /\ T # {}
  <2>1. PICK x \in S : TRUE
    OBVIOUS
  <2>2. n - x \in Nat
    OBVIOUS
  <2> QED
    BY <2>2
<1>2. PICK k \in T : \A y \in T : k <= y
  <2> HIDE DEF T
  <2> QED
    BY <1>1, LeastNumber
<1>3. PICK x \in S : k = n - x
  BY <1>2
<1>4. \A y \in S : x >= y
  <2> SUFFICES ASSUME NEW y \in S PROVE x >= y
    OBVIOUS
  <2>1. n - y \in T /\ x \in Nat /\ y \in Nat
    OBVIOUS
  <2>2. n - x <= n - y
    BY <1>2, <1>3, <2>1
  <2> QED
    BY <2>1, <2>2
<1> QED
  BY <1>4 DEF Max

(* An element encloses what comes after its start tag. *)
LEMMA ParentIsBefore ==
  \A i \in Nat \ {0} : Parent(i) \in 0..(i - 1)
<1> SUFFICES ASSUME NEW i \in Nat \ {0} PROVE Parent(i) \in 0..(i - 1)
  OBVIOUS
<1>1. Around(i) \subseteq 1..(i - 1) /\ i - 1 \in Nat
  BY AroundNext
<1>2. CASE Around(i) = {}
  BY <1>1, <1>2 DEF Parent, None
<1>3. CASE Around(i) # {}
  <2>1. Max(Around(i)) \in Around(i)
    BY <1>1, <1>3, GreatestNumber
  <2>2. Parent(i) \in 1..(i - 1)
    BY <1>1, <1>3, <2>1 DEF Parent
  <2> QED
    BY <2>2
<1> QED
  BY <1>2, <1>3

(* What the tree says of the elements so far stays the same. *)
LEMMA NodesKept ==
  ASSUME NEW n, NEW e, OneMore(n, e)
  PROVE  \A i \in CoreElements :
           /\ i \in 1..n /\ events'[i] = events[i]
           /\ Number(i)' = Number(i) /\ Number(Parent(i))' = Number(Parent(i))
<1> SUFFICES ASSUME NEW i \in CoreElements
    PROVE /\ i \in 1..n /\ events'[i] = events[i]
          /\ Number(i)' = Number(i) /\ Number(Parent(i))' = Number(Parent(i))
  OBVIOUS
<1>1. n \in Nat /\ \A j \in 1..n : events'[j] = events[j]
  BY Longer
<1>2. i \in 1..n
  BY CoreGrows
<1>3. i \in 0..n /\ i \in 1..(n + 1) /\ i \in Nat \ {0} /\ 0..(i - 1) \subseteq 0..n
  BY <1>1, <1>2
<1>4. PICK p : p = Parent(i)
  OBVIOUS
<1>5. Parent(i)' = p
  BY <1>3, <1>4, AroundKept
<1>6. p \in 0..n
  BY <1>3, <1>4, ParentIsBefore
<1>7. Number(p)' = Number(p) /\ Number(i)' = Number(i)
  BY <1>3, <1>6, NumberKept
<1> QED
  BY <1>1, <1>2, <1>4, <1>5, <1>7

(* An event that is neither a core element nor the text of one. *)
LEMMA NodesStay ==
  ASSUME Visitor, Standing, NEW n, NEW e, OneMore(n, e), TreeIs(n + 1),
         tree'.nodes = tree.nodes, ~Core(n)',
         Foreign(n + 1)' \/ e.kind \notin {"text", "cdata"} \/ stack = <<>>
  PROVE  CoreElements' = CoreElements /\ \A i \in CoreElements : NodeIs(i)'
<1>1. n = Len(events) /\ CoreElements' = CoreElements
  BY NumberNext DEF OneMore
<1>2. n \in Nat
  BY Longer
<1>4. ASSUME NEW i \in CoreElements PROVE NodeIs(i)'
  <2>1. Kids(i)' = Kids(i)
    BY KidsGrow
  <2>2. TextOf(i)' = TextOf(i)
    <3>1. CASE Foreign(n + 1)' \/ e.kind \notin {"text", "cdata"}
      BY <3>1, TextGrows
    <3>2. CASE stack = <<>>
      <4>1. Parent(n + 1)' = None
        <5>1. Parent(n + 1)' = Parent(n + 1)
          BY Following
        <5>2. Parent(n + 1) = None
          BY <1>1, <3>2, Position
        <5> QED
          BY <5>1, <5>2
      <4>2. i # None
        <5>1. i \in 1..n
          BY NodesKept
        <5> QED
          BY <1>2, <5>1 DEF None
      <4> QED
        BY <4>1, <4>2, TextGrows
    <3> QED
      BY <3>1, <3>2
  <2>3. /\ events'[i] = events[i] /\ Number(i)' = Number(i)
        /\ Number(Parent(i))' = Number(Parent(i))
    BY NodesKept
  <2>4. NodeIs(i)
    BY DEF TreeIs
  <2> QED
    BY <2>1, <2>2, <2>3, <2>4 DEF NodeIs
<1> QED
  BY <1>1, <1>4

(* An event that is of no concern to the tree. *)
LEMMA TreeKept ==
  ASSUME Visitor, Standing, tree \in TreeRecord, NEW n, NEW e, OneMore(n, e), TreeIs(n + 1),
         tree'.nodes = tree.nodes, tree'.stack = tree.stack, CoreOpen' = CoreOpen,
         \A j \in Around(n + 2)' : j \in Around(n + 1) \/ ~(Depth(j)' < CoreOpen),
         ~Core(n)',
         Foreign(n + 1)' \/ e.kind \notin {"text", "cdata"} \/ stack = <<>>
  PROVE  TreeIs(n + 2)'
<1>1. n = Len(events) /\ CoreElements' = CoreElements
  BY NumberNext DEF OneMore
<1>2. n \in Nat /\ Around(n + 1) \subseteq 1..n
  BY <1>1, Position
<1>3. \A j \in Around(n + 2)' : Depth(j)' < CoreOpen' => tree'.stack[Depth(j)' + 1] = Number(j)'
  <2> SUFFICES ASSUME NEW j \in Around(n + 1), Depth(j)' < CoreOpen
      PROVE  tree'.stack[Depth(j)' + 1] = Number(j)'
    OBVIOUS
  <2>1. Depth(j)' = Depth(j)
    BY Following
  <2>2. Number(j)' = Number(j)
    <3>1. j \in 0..n
      BY <1>2
    <3> QED
      BY <3>1, NumberKept
  <2> QED
    BY <2>1, <2>2 DEF TreeIs
<1>4. \A i \in CoreElements : NodeIs(i)'
  BY NodesStay
<1> QED
  BY <1>1, <1>3, <1>4 DEF TreeIs

(* Nothing is inside what has not been read yet. *)
LEMMA NothingYet ==
  ASSUME events \in Seq(Event), NEW n, n = Len(events)
  PROVE  Kids(n + 1) = <<>> /\ TextOf(n + 1) = <<>>
<1>1. n \in Nat /\ DOMAIN events = 1..n
  OBVIOUS
<1>2. \A j \in 1..n : Parent(j) # n + 1
  <2> SUFFICES ASSUME NEW j \in 1..n PROVE Parent(j) # n + 1
    OBVIOUS
  <2>1. Parent(j) \in 0..(j - 1)
    BY <1>1, ParentIsBefore
  <2> QED
    BY <1>1, <2>1
<1>3. Inner \subseteq 1..n /\ CoreElements \subseteq 1..n
  BY <1>1 DEF CoreElements, Inner
<1>4. Children(n + 1) = {} /\ Texts(n + 1) = {}
  BY <1>2, <1>3 DEF Children, Texts
<1>5. Cardinality({}) = 0 /\ 1..0 = {}
  BY FS_EmptySet
<1>6. \A f : f = [k \in 1..0 |-> f[k]] => f = <<>>
  BY <1>5
<1>7. Kids(n + 1) = <<>>
  <2>1. Kids(n + 1) = [k \in 1..0 |-> Number(Listing(Children(n + 1))[k])]
    BY <1>4, <1>5 DEF Kids
  <2>2. Kids(n + 1) = [k \in 1..0 |-> Kids(n + 1)[k]]
    BY <2>1
  <2> QED
    BY <1>6, <2>2
<1>8. TextOf(n + 1) = <<>>
  <2>1. TextOf(n + 1) = [k \in 1..0 |-> events[Listing(Texts(n + 1))[k]].text]
    BY <1>4, <1>5 DEF TextOf
  <2>2. TextOf(n + 1) = [k \in 1..0 |-> TextOf(n + 1)[k]]
    BY <2>1
  <2> QED
    BY <1>6, <2>2
<1> QED
  BY <1>7, <1>8

(* The tree of the next state has one more node, with its place in the tree. *)
Grown(e, idx, parent) ==
  /\ idx = Len(tree.nodes) + 1
  /\ parent = IF tree.stack = <<>> THEN None ELSE Last(tree.stack)
  /\ Len(tree'.nodes) = idx
  /\ tree'.nodes[idx] = [name |-> e.tag.name, tag |-> e.tag, text |-> <<>>,
                         children |-> <<>>, parent |-> parent]
  /\ \A i \in 1..Len(tree.nodes) :
       tree'.nodes[i] = IF i = parent
                        THEN [tree.nodes[i] EXCEPT !.children = Append(@, idx)]
                        ELSE tree.nodes[i]
  /\ tree'.stack = IF e.kind = "empty" THEN tree.stack ELSE Append(tree.stack, idx)

(* A core element added to the tree of the document gives the tree of the *)
(* document with that element.                                            *)
LEMMA TreeElement ==
  ASSUME Visitor, Standing, tree \in TreeRecord, NEW n, NEW e, OneMore(n, e), TreeIs(n + 1),
         e.kind \in {"start", "empty"}, Core(n)', ~InExtension, ~InExtension',
         Len(stack') = IF e.kind = "empty" THEN Len(stack) ELSE Len(stack) + 1,
         NEW idx, NEW parent, Grown(e, idx, parent)
  PROVE  TreeIs(n + 2)'
<1>14. /\ idx = Len(tree.nodes) + 1
       /\ parent = IF tree.stack = <<>> THEN None ELSE Last(tree.stack)
       /\ Len(tree'.nodes) = idx
       /\ tree'.nodes[idx] = [name |-> e.tag.name, tag |-> e.tag, text |-> <<>>,
                              children |-> <<>>, parent |-> parent]
       /\ \A i \in 1..Len(tree.nodes) :
            tree'.nodes[i] = IF i = parent
                             THEN [tree.nodes[i] EXCEPT !.children = Append(@, idx)]
                             ELSE tree.nodes[i]
       /\ tree'.stack = IF e.kind = "empty" THEN tree.stack ELSE Append(tree.stack, idx)
  BY DEF Grown
<1>1. n = Len(events) /\ events \in Seq(Event)
  BY DEF OneMore
<1>2. /\ n \in Nat /\ Around(n + 1) \subseteq 1..n /\ Len(stack) \in Nat
      /\ Len(stack) = Depth(n + 1) /\ CoreOpen = Len(stack)
      /\ \A j \in Around(n + 1) : Depth(j) \in 0..(Len(stack) - 1)
  BY <1>1, Position, CoreOpenIs
<1>3. /\ Len(tree.nodes) = Cardinality(CoreElements) /\ Len(tree.stack) = Len(stack)
      /\ \A j \in Around(n + 1) : tree.stack[Depth(j) + 1] = Number(j)
      /\ \A i \in CoreElements : NodeIs(i)
  <2>1. \A j \in Around(n + 1) : Depth(j) < CoreOpen
    BY <1>2
  <2> QED
    BY <1>2, <2>1 DEF TreeIs
<1>4. /\ tree.stack \in Seq(Nat) /\ tree.nodes \in Seq(Node)
  BY DEF TreeRecord
<1>5. /\ Number(n + 1)' = idx /\ Cardinality(CoreElements') = idx
      /\ CoreElements' = CoreElements \cup {n + 1}
  BY <1>3, <1>14, NumberNext
<1>6. PICK p : p = Parent(n + 1)
  OBVIOUS
<1>7. Parent(n + 1)' = p /\ p \in 0..n
  <2>1. Parent(n + 1)' = p
    BY <1>6, Following
  <2>2. p \in 0..(n + 1 - 1)
    BY <1>2, <1>6, ParentIsBefore
  <2> QED
    BY <1>2, <2>1, <2>2
<1>8. /\ parent = Number(p)
      /\ \A i \in CoreElements : Number(i) = parent <=> i = p
  <2>1. CASE stack = <<>>
    <3>1. Len(stack) = 0 /\ p = None
      BY <1>1, <1>6, <2>1, Position
    <3>2. tree.stack = <<>>
      BY <1>3, <1>4, <3>1
    <3>3. Number(p) = 0 /\ \A i \in CoreElements : i # 0 /\ Number(i) # 0
      <4>1. Number(None) = 0 /\ \A i \in CoreElements : Number(i) \in 1..Cardinality(CoreElements)
        BY <1>1, Numbers
      <4>2. \A i \in CoreElements : i \in 1..n
        BY NodesKept
      <4> QED
        BY <1>2, <3>1, <4>1, <4>2
    <3> QED
      BY <1>14, <3>1, <3>2, <3>3 DEF None
  <2>2. CASE stack # <<>>
    <3>1. p \in CoreElements /\ tree.stack # <<>> /\ Last(tree.stack) = Number(p)
      BY <1>1, <1>6, <2>2, TreeTop
    <3> QED
      BY <1>1, <1>14, <3>1, Numbers
  <2> QED
    BY <2>1, <2>2
<1>9. Len(tree'.stack) = CoreOpen'
  <2>1. CoreOpen' = Len(stack')
    BY DEF CoreOpen
  <2>2. CASE e.kind = "empty"
    BY <1>3, <1>14, <2>1, <2>2
  <2>3. CASE e.kind # "empty"
    BY <1>2, <1>3, <1>4, <1>5, <1>14, <2>1, <2>3
  <2> QED
    BY <2>2, <2>3
<1>10. \A j \in Around(n + 1) :
         /\ Depth(j)' = Depth(j) /\ Number(j)' = Number(j)
         /\ Depth(j) + 1 \in 1..Len(tree.stack)
  <2>1. \A j \in Around(n + 1) : j \in 0..n
    BY <1>2
  <2>2. \A j \in Around(n + 1) : Depth(j)' = Depth(j)
    BY Following
  <2>3. \A j \in Around(n + 1) : Number(j)' = Number(j)
    BY <2>1, NumberKept
  <2> QED
    BY <1>2, <1>3, <2>2, <2>3
<1>11. \A j \in Around(n + 2)' : tree'.stack[Depth(j)' + 1] = Number(j)'
  <2>1. CASE e.kind = "empty"
    <3>1. Around(n + 2)' = Around(n + 1)
      BY <2>1, Following
    <3> QED
      BY <1>3, <1>10, <1>14, <2>1, <3>1
  <2>2. CASE e.kind = "start"
    <3>1. Around(n + 2)' = Around(n + 1) \cup {n + 1} /\ Depth(n + 1)' = Depth(n + 1)
      BY <2>2, Following
    <3>2. idx \in Nat
      BY <1>4, <1>14
    <3>3. /\ tree'.stack[Len(stack) + 1] = idx
          /\ \A k \in 1..Len(tree.stack) : tree'.stack[k] = tree.stack[k]
      BY <1>3, <1>4, <1>14, <2>2, <3>2, AppendProperties
    <3> QED
      BY <1>2, <1>3, <1>5, <1>10, <3>1, <3>3
  <2> QED
    BY <2>1, <2>2
<1>12. ASSUME NEW i \in CoreElements PROVE NodeIs(i)'
  <2>1. /\ i \in 1..n /\ events'[i] = events[i] /\ Number(i)' = Number(i)
        /\ Number(Parent(i))' = Number(Parent(i))
    BY NodesKept
  <2>2. TextOf(i)' = TextOf(i)
    BY TextGrows
  <2>3. PICK k : k = Number(i)
    OBVIOUS
  <2>4. k \in 1..Len(tree.nodes)
    BY <1>1, <1>3, <2>3, Numbers
  <2>5. tree.nodes[k] \in Node
    BY <1>4, <2>4
  <2>6. /\ tree.nodes[k].tag = events[i].tag /\ tree.nodes[k].name = events[i].tag.name
        /\ tree.nodes[k].parent = Number(Parent(i))
        /\ tree.nodes[k].children = Kids(i) /\ tree.nodes[k].text = TextOf(i)
    BY <1>3, <2>3 DEF NodeIs
  <2>7. CASE i = p
    <3>1. Kids(i)' = Append(Kids(i), idx)
      BY <1>5, <1>7, <2>7, KidsGrow
    <3>2. tree'.nodes[k] = [tree.nodes[k] EXCEPT !.children = Append(@, idx)]
      BY <1>8, <1>14, <2>3, <2>4, <2>7
    <3>3. /\ tree'.nodes[k].children = Append(tree.nodes[k].children, idx)
          /\ tree'.nodes[k].tag = tree.nodes[k].tag /\ tree'.nodes[k].name = tree.nodes[k].name
          /\ tree'.nodes[k].parent = tree.nodes[k].parent
          /\ tree'.nodes[k].text = tree.nodes[k].text
      BY <2>5, <3>2 DEF Node
    <3> QED
      BY <2>1, <2>2, <2>3, <2>6, <3>1, <3>3 DEF NodeIs
  <2>8. CASE i # p
    <3>1. Kids(i)' = Kids(i)
      BY <1>7, <2>8, KidsGrow
    <3>2. tree'.nodes[k] = tree.nodes[k]
      BY <1>8, <1>14, <2>3, <2>4, <2>8
    <3> QED
      BY <2>1, <2>2, <2>3, <2>6, <3>1, <3>2 DEF NodeIs
  <2> QED
    BY <2>7, <2>8
<1>13. NodeIs(n + 1)'
  <2>1. Kids(n + 1) = <<>> /\ TextOf(n + 1) = <<>>
    BY <1>1, NothingYet
  <2>2. PICK here : here = n + 1
    OBVIOUS
  <2>3. p # here
    BY <1>2, <1>7, <2>2
  <2>4. Kids(here)' = <<>>
    BY <1>7, <2>1, <2>2, <2>3, KidsGrow
  <2>5. TextOf(here)' = <<>>
    BY <2>1, <2>2, TextGrows
  <2>6. events'[here] = e /\ Number(here)' = idx
    BY <1>5, <2>2, Longer
  <2>7. Number(Parent(here))' = parent
    <3>1. Number(p)' = Number(p)
      BY <1>7, NumberKept
    <3> QED
      BY <1>7, <1>8, <2>2, <3>1
  <2>8. NodeIs(here)'
    BY <1>14, <2>4, <2>5, <2>6, <2>7 DEF NodeIs
  <2> QED
    BY <2>2, <2>8
<1> QED
  BY <1>5, <1>9, <1>11, <1>12, <1>13, <1>14 DEF TreeIs

(* So does a core element closed in both. *)
LEMMA TreeEnd ==
  ASSUME Visitor, Standing, tree \in TreeRecord, NEW n, NEW e, OneMore(n, e), TreeIs(n + 1),
         e.kind = "close", stack # <<>>, ~InExtension, ~InExtension',
         Len(stack') = Len(stack) - 1,
         tree'.nodes = tree.nodes, tree'.stack = Front(tree.stack)
  PROVE  TreeIs(n + 2)'
<1>1. n = Len(events) /\ events'[n + 1] = e
  BY Longer DEF OneMore
<1>2. /\ n \in Nat /\ Around(n + 1) \subseteq 1..n /\ Len(stack) \in Nat
      /\ CoreOpen = Len(stack) /\ Len(stack) >= 1
      /\ \A j \in Around(n + 1) : Depth(j) \in 0..(Len(stack) - 1)
  BY <1>1, Position, CoreOpenIs
<1>3. /\ Len(tree.nodes) = Cardinality(CoreElements) /\ Len(tree.stack) = Len(stack)
      /\ \A j \in Around(n + 1) : tree.stack[Depth(j) + 1] = Number(j)
  <2>1. \A j \in Around(n + 1) : Depth(j) < CoreOpen
    BY <1>2
  <2> QED
    BY <1>2, <2>1 DEF TreeIs
<1>4. /\ Len(tree'.stack) = Len(stack) - 1
      /\ \A k \in 1..(Len(stack) - 1) : tree'.stack[k] = tree.stack[k]
  <2>1. tree.stack \in Seq(Nat) /\ Len(tree.stack) > 0
    BY <1>2, <1>3 DEF TreeRecord
  <2> QED
    <3>1. /\ Len(Front(tree.stack)) = Len(tree.stack) - 1
          /\ \A k \in 1..(Len(tree.stack) - 1) : Front(tree.stack)[k] = tree.stack[k]
      BY <2>1, FrontIs
    <3> QED
      BY <1>3, <3>1
<1>5. ~Core(n)'
  <2>1. ~Opens(n + 1)'
    BY <1>1 DEF Opens
  <2> QED
    BY <2>1 DEF Core
<1>6. CoreElements' = CoreElements /\ \A i \in CoreElements : NodeIs(i)'
  BY <1>5, NodesStay
<1>7. PICK p : p = Parent(n + 1)
  OBVIOUS
<1>8. Around(n + 2)' = Around(n + 1) \ {p}
  BY <1>7, Following
<1>9. \A j \in Around(n + 1) \ {p} : Depth(j) + 1 \in 1..(Len(stack) - 1)
  <2>1. p \in Around(n + 1) /\ Depth(p) = Len(stack) - 1
    BY <1>1, <1>7, Position
  <2>2. \A j \in Around(n + 1) : Depth(j) = Depth(p) => j = p
    BY <1>1, <2>1, Position
  <2> QED
    BY <1>2, <2>1, <2>2
<1>10. \A j \in Around(n + 1) : Depth(j)' = Depth(j) /\ Number(j)' = Number(j)
  <2>1. \A j \in Around(n + 1) : j \in 0..n
    BY <1>2
  <2>2. \A j \in Around(n + 1) : Depth(j)' = Depth(j)
    BY Following
  <2> QED
    BY <2>1, <2>2, NumberKept
<1>11. \A j \in Around(n + 2)' : tree'.stack[Depth(j)' + 1] = Number(j)'
  BY <1>3, <1>4, <1>8, <1>9, <1>10
<1>12. Len(tree'.stack) = CoreOpen' /\ Len(tree'.nodes) = Cardinality(CoreElements)'
  BY <1>3, <1>4, <1>6 DEF CoreOpen
<1> QED
  BY <1>6, <1>11, <1>12 DEF TreeIs

(* So does text added to the innermost open element. *)
LEMMA TreeText ==
  ASSUME Visitor, Standing, tree \in TreeRecord, NEW n, NEW e, OneMore(n, e), TreeIs(n + 1),
         e.kind \in {"text", "cdata"}, stack # <<>>, ~InExtension, stack' = stack,
         NEW top, top = Last(tree.stack), tree'.stack = tree.stack,
         Len(tree'.nodes) = Len(tree.nodes),
         \A i \in 1..Len(tree.nodes) :
           tree'.nodes[i] = IF i = top
                            THEN Written(tree.nodes[i], e.text)
                            ELSE tree.nodes[i]
  PROVE  TreeIs(n + 2)'
<1>1. n = Len(events) /\ events'[n + 1] = e /\ events \in Seq(Event)
  BY Longer DEF OneMore
<1>2. n \in Nat /\ Around(n + 1) \subseteq 1..n
  BY <1>1, Position
<1>3. CoreOpen' = CoreOpen
  BY DEF CoreOpen, InExtension
<1>4. ~Core(n)' /\ ~Foreign(n + 1)'
  <2>1. ~Opens(n + 1)'
    BY <1>1 DEF Opens
  <2>2. ~Foreign(n + 1)'
    BY ForeignNext
  <2> QED
    BY <2>1, <2>2 DEF Core
<1>5. CoreElements' = CoreElements
  BY <1>4, NumberNext
<1>6. PICK p : p = Parent(n + 1)
  OBVIOUS
<1>7. p \in CoreElements /\ top = Number(p)
  BY <1>1, <1>6, TreeTop
<1>8. Parent(n + 1)' = p
  BY <1>6, Following
<1>9. ASSUME NEW i \in CoreElements PROVE NodeIs(i)'
  <2>1. /\ events'[i] = events[i] /\ Number(i)' = Number(i)
        /\ Number(Parent(i))' = Number(Parent(i))
    BY NodesKept
  <2>2. Kids(i)' = Kids(i)
    BY <1>4, KidsGrow
  <2>3. PICK k : k = Number(i)
    OBVIOUS
  <2>4. k \in 1..Len(tree.nodes)
    BY <1>1, <2>3, Numbers DEF TreeIs
  <2>5. tree.nodes[k] \in Node
    BY <2>4 DEF TreeRecord
  <2>6. /\ tree.nodes[k].tag = events[i].tag /\ tree.nodes[k].name = events[i].tag.name
        /\ tree.nodes[k].parent = Number(Parent(i))
        /\ tree.nodes[k].children = Kids(i) /\ tree.nodes[k].text = TextOf(i)
    BY <2>3 DEF TreeIs, NodeIs
  <2>7. CASE i = p
    <3>1. TextOf(i)' = Append(TextOf(i), e.text)
      BY <1>4, <1>8, <2>7, TextGrows
    <3>2. tree'.nodes[k] = [tree.nodes[k] EXCEPT !.text = Append(@, e.text)]
      BY <1>7, <2>3, <2>4, <2>7 DEF Written
    <3>3. /\ tree'.nodes[k].text = Append(tree.nodes[k].text, e.text)
          /\ tree'.nodes[k].tag = tree.nodes[k].tag /\ tree'.nodes[k].name = tree.nodes[k].name
          /\ tree'.nodes[k].parent = tree.nodes[k].parent
          /\ tree'.nodes[k].children = tree.nodes[k].children
      BY <2>5, <3>2 DEF Node
    <3> QED
      BY <2>1, <2>2, <2>3, <2>6, <3>1, <3>3 DEF NodeIs
  <2>8. CASE i # p
    <3>1. TextOf(i)' = TextOf(i)
      BY <1>8, <2>8, TextGrows
    <3>2. k # top
      BY <1>1, <1>7, <2>3, <2>8, Numbers
    <3>3. tree'.nodes[k] = tree.nodes[k]
      BY <2>4, <3>2
    <3> QED
      BY <2>1, <2>2, <2>3, <2>6, <3>1, <3>3 DEF NodeIs
  <2> QED
    BY <2>7, <2>8
<1>10. \A j \in Around(n + 2)' :
         Depth(j)' < CoreOpen' => tree'.stack[Depth(j)' + 1] = Number(j)'
  <2>1. Around(n + 2)' = Around(n + 1)
    BY Following
  <2>2. \A j \in Around(n + 1) : j \in 0..n
    BY <1>2
  <2>3. \A j \in Around(n + 1) : Depth(j)' = Depth(j)
    BY Following
  <2>4. \A j \in Around(n + 1) : Number(j)' = Number(j)
    BY <2>2, NumberKept
  <2> QED
    BY <1>3, <2>1, <2>3, <2>4 DEF TreeIs
<1>11. Len(tree'.stack) = CoreOpen' /\ Len(tree'.nodes) = Cardinality(CoreElements)'
  BY <1>3, <1>5 DEF TreeIs
<1> QED
  BY <1>5, <1>9, <1>10, <1>11 DEF TreeIs

-----------------------------------------------------------------------------
(* What the validator has admitted, and what a document costs.             *)

Fees == [i \in Opened |-> Cardinality(events[i].tag.attrs)]
Cost == Cardinality(Opened) + Total(Fees)

Bill ==
  Standing =>
    /\ tree.verdict \in {"open", "ok"} =>
         /\ tree.structures = Cardinality(Opened) /\ tree.memory = Cost
         /\ tree.structures <= tree.limit /\ tree.memory <= Room
    /\ tree.verdict = "limit" => Cardinality(Opened) > tree.limit \/ Cost > Room

(* What a document costs grows with each element, by one and its *)
(* attributes, and with nothing else.                            *)
LEMMA CostGrows ==
  ASSUME NEW n, NEW e, OneMore(n, e)
  PROVE  /\ Cardinality(Opened) \in Nat /\ Cost \in Nat
         /\ e.kind \in {"start", "empty"} =>
              /\ Cardinality(Opened)' = Cardinality(Opened) + 1
              /\ Cardinality(e.tag.attrs) \in Nat
              /\ Cost' = Cost + 1 + Cardinality(e.tag.attrs)
         /\ e.kind \notin {"start", "empty"} =>
              Cardinality(Opened)' = Cardinality(Opened) /\ Cost' = Cost
<1>1. /\ n \in Nat /\ events'[n + 1] = e /\ \A j \in 1..n : events'[j] = events[j]
      /\ DOMAIN events = 1..n /\ DOMAIN events' = 1..(n + 1)
  BY Longer
<1>2. events \in Seq(Event) /\ e \in Event
  BY DEF OneMore
<1>3. \A x \in Event : x.kind \in {"start", "empty"} => Cardinality(x.tag.attrs) \in Nat
  <2>1. \A x \in Event : x.kind \in {"start", "empty"} => x.tag \in Tags
    BY DEF Event
  <2> QED
    BY <2>1, AttrsAreCounted
<1>4. PICK D : D = Opened
  OBVIOUS
<1>5. PICK f : f = Fees
  OBVIOUS
<1>6. PICK g : g = Fees'
  OBVIOUS
<1>7. D \subseteq 1..n /\ \A i \in D : events[i].kind \in {"start", "empty"}
  BY <1>1, <1>4 DEF Opened, Opens
<1>8. IsFiniteSet(D) /\ Cardinality(D) \in Nat /\ n + 1 \notin D
  <2>1. n \in Nat /\ n + 1 \notin 1..n
    BY <1>1
  <2>2. Bounded(D)
    BY <1>7, <2>1 DEF Bounded
  <2> QED
    BY <1>7, <2>1, <2>2, BoundedFinite
<1>9. f \in [D -> Nat] /\ \A i \in D : f[i] = Cardinality(events[i].tag.attrs)
  <2>1. \A i \in D : Cardinality(events[i].tag.attrs) \in Nat
    <3>1. \A i \in D : events[i] \in Event
      BY <1>1, <1>2, <1>7
    <3> QED
      BY <1>3, <1>7, <3>1
  <2> QED
    BY <1>4, <1>5, <2>1 DEF Fees
<1>10. Total(f) \in Nat
  BY <1>8, <1>9, TotalType
<1>11. Opened' = IF e.kind \in {"start", "empty"} THEN D \cup {n + 1} ELSE D
  <2>1. Opened' = {i \in 1..(n + 1) : Opens(i)'}
    BY <1>1 DEF Opened
  <2>2. Opened = {i \in 1..n : Opens(i)}
    BY <1>1 DEF Opened
  <2>3. \A i \in 1..n : Opens(i)' <=> Opens(i)
    BY <1>1 DEF Opens
  <2>4. Opens(n + 1)' <=> e.kind \in {"start", "empty"}
    BY <1>1 DEF Opens
  <2>5. 1..(n + 1) = 1..n \cup {n + 1}
    BY <1>1
  <2> QED
    BY <1>4, <2>1, <2>2, <2>3, <2>4, <2>5
<1>12. g = [i \in Opened' |-> Cardinality(events'[i].tag.attrs)]
  BY <1>6 DEF Fees
<1>13. \A i \in D : events'[i] = events[i]
  BY <1>1, <1>7
<1>14. CASE e.kind \in {"start", "empty"}
  <2>1. Cardinality(e.tag.attrs) \in Nat
    BY <1>2, <1>3, <1>14
  <2>2. Opened' = D \cup {n + 1}
    BY <1>11, <1>14
  <2>3. g = [i \in D \cup {n + 1} |-> Cardinality(events'[i].tag.attrs)]
    BY <1>12, <2>2
  <2>4. /\ g[n + 1] = Cardinality(e.tag.attrs)
        /\ \A i \in D : g[i] = f[i]
    BY <1>1, <1>9, <1>13, <2>3
  <2>5. g \in [D \cup {n + 1} -> Nat]
    BY <1>9, <2>1, <2>3, <2>4
  <2>6. Total(g) = Total(f) + Cardinality(e.tag.attrs)
    <3>1. PICK d : d = n + 1
      OBVIOUS
    <3>2. d \notin D /\ g \in [D \cup {d} -> Nat] /\ IsFiniteSet(D) /\ f \in [D -> Nat]
      BY <1>8, <1>9, <2>5, <3>1
    <3>3. \A i \in D : g[i] = f[i]
      BY <2>4
    <3>4. Total(g) = Total(f) + g[d]
      BY <3>2, <3>3, TotalExtends
    <3> QED
      BY <2>4, <3>1, <3>4
  <2>7. Cardinality(D \cup {n + 1}) = Cardinality(D) + 1
    BY <1>8, FS_AddElement
  <2>8. Cardinality(Opened)' = Cardinality(D) + 1 /\ Cost' = Cardinality(D) + 1 + Total(g)
    BY <1>6, <2>2, <2>7 DEF Cost
  <2> QED
    BY <1>4, <1>5, <1>8, <1>10, <1>14, <2>1, <2>6, <2>8 DEF Cost
<1>15. CASE e.kind \notin {"start", "empty"}
  <2>1. Opened' = D
    BY <1>11, <1>15
  <2>2. g = f
    BY <1>9, <1>12, <1>13, <2>1
  <2>3. Cardinality(Opened)' = Cardinality(D) /\ Cost' = Cardinality(D) + Total(g)
    BY <1>6, <2>1 DEF Cost
  <2> QED
    BY <1>4, <1>5, <1>8, <1>10, <1>15, <2>2, <2>3 DEF Cost
<1> QED
  BY <1>14, <1>15

(* Each element is paid for as it is read, *)
LEMMA BillElement ==
  ASSUME visit = "open", Standing, tree \in TreeRecord, tree.verdict # "ok", Bill,
         NEW n, NEW e, OneMore(n, e), e.kind \in {"start", "empty"},
         NEW a, a = Cardinality(e.tag.attrs), tree'.limit = tree.limit,
         tree.verdict # "open" => tree' = tree,
         tree.verdict = "open" =>
           /\ tree.structures + 1 <= tree.limit /\ tree.memory + 1 + a <= Room =>
                /\ tree'.verdict \in {"open", "invalid"}
                /\ tree'.structures = tree.structures + 1
                /\ tree'.memory = tree.memory + 1 + a
           /\ ~(tree.structures + 1 <= tree.limit /\ tree.memory + 1 + a <= Room) =>
                tree'.verdict = "limit"
  PROVE  Bill'
<1>1. /\ Cardinality(Opened) \in Nat /\ Cost \in Nat /\ a \in Nat
      /\ Cardinality(Opened)' = Cardinality(Opened) + 1 /\ Cost' = Cost + 1 + a
  BY CostGrows
<1>2. Room \in Nat /\ tree.limit \in Nat /\ tree.structures \in Nat /\ tree.memory \in Nat
  BY DocumentAssumption DEF TreeRecord
<1>3. CASE tree.verdict # "open"
  BY <1>1, <1>2, <1>3 DEF Bill
<1>4. CASE tree.verdict = "open"
  <2>1. tree.structures = Cardinality(Opened) /\ tree.memory = Cost
    BY <1>4 DEF Bill
  <2> QED
    BY <1>1, <1>2, <1>4, <2>1 DEF Bill
<1> QED
  BY <1>3, <1>4

(* and nothing else is. *)
LEMMA BillKept ==
  ASSUME Standing, Bill, NEW n, NEW e, OneMore(n, e), e.kind \notin {"start", "empty"},
         tree'.limit = tree.limit, tree'.structures = tree.structures,
         tree'.memory = tree.memory,
         \/ tree'.verdict = tree.verdict \/ tree'.verdict \in {"invalid", "unsupported"}
         \/ tree'.verdict = "ok" /\ tree.verdict = "open"
  PROVE  Bill'
<1>1. Cardinality(Opened)' = Cardinality(Opened) /\ Cost' = Cost
  BY CostGrows
<1> QED
  BY <1>1 DEF Bill

-----------------------------------------------------------------------------
(* Every step keeps the tree and the bill.                                 *)

(* The tree's invariant after an event. *)
LEMMA TreeNext ==
  ASSUME Visitor, Standing, NEW n, NEW e, OneMore(n, e), tree' \in TreeRecord,
         visit' = "open" => tree'.verdict # "ok",
         tree'.verdict \in {"open", "ok"} => TreeIs(n + 2)'
  PROVE  Tree'
<1>1. Next1' = n + 2
  BY Following
<1>2. tree'.verdict \in {"open", "ok"} => TreeIs(Next1)'
  BY <1>1
<1> QED
  BY <1>2 DEF Tree

(* Nothing is said of the tree after a failed visit. *)
LEMMA TreeRefused ==
  ASSUME Tree, Bill, tree' = tree, visit' \notin {"open", "ok"}
  PROVE  Tree' /\ Bill'
  BY DEF Tree, Bill, Standing

(* The parts of an element's step, and where the element is. *)
LEMMA ElementStep ==
  ASSUME Visitor, visit = "open", NEW tag \in Tags, NEW empty \in BOOLEAN,
         Element(tag, empty), NEW n, n = Len(events),
         NEW e, e = [kind |-> IF empty THEN "empty" ELSE "start", tag |-> tag]
  PROVE  /\ Standing /\ OneMore(n, e) /\ e.tag = tag
         /\ e.kind = IF empty THEN "empty" ELSE "start"
         /\ (Core(n)' <=> ~InExtension /\ IsCore(tag.space))
         /\ (Foreign(n + 1)' <=> InExtension \/ ~IsCore(tag.space))
         /\ ~Refused(tag) =>
              /\ visit' = "open"
              /\ Len(stack') = IF empty THEN Len(stack) ELSE Len(stack) + 1
              /\ Core(n)' => ~InExtension'
              /\ ~Core(n)' => CoreOpen' = CoreOpen /\ Len(stack) >= 1 /\ CoreOpen = 1
<1>1. e \in Event /\ e.tag = tag /\ e.kind = IF empty THEN "empty" ELSE "start"
  BY DEF Event
<1>2. OneMore(n, e)
  BY <1>1 DEF OneMore, Element, Read, Visitor
<1>3. Standing
  BY DEF Standing
<1>4. Foreign(n + 1)' <=> InExtension \/ ~IsCore(tag.space)
  BY <1>1, <1>2, <1>3, ForeignNext
<1>5. Opens(n + 1)'
  <2>1. events'[n + 1] = e
    BY <1>2, Longer
  <2> QED
    BY <1>1, <2>1 DEF Opens
<1>6. Core(n)' <=> ~InExtension /\ IsCore(tag.space)
  BY <1>4, <1>5 DEF Core
<1>7. ASSUME ~Refused(tag)
      PROVE  /\ visit' = "open"
             /\ Len(stack') = IF empty THEN Len(stack) ELSE Len(stack) + 1
             /\ Core(n)' => ~InExtension'
             /\ ~Core(n)' => CoreOpen' = CoreOpen /\ Len(stack) >= 1 /\ CoreOpen = 1
  <2> DEFINE frame == [name |-> tag.name, space |-> tag.space]
  <2>1. visit' = "open" /\ stack' = IF empty THEN stack ELSE Append(stack, frame)
    BY <1>7 DEF Element, Tell
  <2>2. frame \in [name : Names, space : Spaces] /\ frame.space = tag.space
    BY DEF Names, Spaces
  <2> HIDE DEF frame
  <2>3. stack \in Seq([name : Names, space : Spaces]) /\ Len(stack) \in Nat
    BY DEF Visitor
  <2>4. stack = <<>> <=> Len(stack) = 0
    BY <2>3
  <2>5. CASE empty
    <3>1. stack' = stack
      BY <2>1, <2>5
    <3>2. ~Core(n)' => Len(stack) >= 1 /\ CoreOpen = 1
      <4>1. stack = <<>> => IsCore(tag.space) /\ ~InExtension
        BY <1>7, <2>4 DEF Refused, InExtension
      <4>2. ~IsCore(tag.space) /\ ~InExtension => Len(stack) = 1
        BY <1>7 DEF Refused
      <4>3. ~Core(n)' => InExtension \/ Len(stack) = 1
        BY <1>6, <4>1, <4>2
      <4> QED
        BY <2>3, <4>3 DEF CoreOpen, InExtension
    <3> QED
      BY <1>6, <2>1, <2>5, <3>1, <3>2 DEF CoreOpen, InExtension
  <2>6. CASE ~empty
    <3>1. stack' = Append(stack, frame)
      BY <2>1, <2>6
    <3>2. /\ Len(stack') = Len(stack) + 1 /\ stack'[Len(stack) + 1] = frame
          /\ \A k \in 1..Len(stack) : stack'[k] = stack[k]
      BY <2>2, <2>3, <3>1, AppendProperties
    <3>3. CASE InExtension
      <4>1. stack'[2] = stack[2] /\ Len(stack') >= 2 /\ Len(stack) >= 2
        BY <2>3, <3>2, <3>3 DEF InExtension
      <4>2. InExtension' /\ CoreOpen' = 1 /\ CoreOpen = 1
        BY <3>3, <4>1 DEF InExtension, CoreOpen
      <4> QED
        BY <1>6, <2>1, <2>3, <2>6, <3>2, <3>3, <4>1, <4>2
    <3>4. CASE ~InExtension /\ ~IsCore(tag.space)
      <4>1. Len(stack) = 1
        BY <1>7, <3>4 DEF Refused
      <4>2. Len(stack') = 2 /\ stack'[2] = frame
        BY <3>2, <4>1
      <4>3. InExtension' /\ CoreOpen' = 1 /\ CoreOpen = 1
        BY <2>2, <3>4, <4>1, <4>2 DEF InExtension, CoreOpen
      <4> QED
        BY <1>6, <2>1, <2>6, <3>2, <3>4, <4>1, <4>3
    <3>5. CASE ~InExtension /\ IsCore(tag.space)
      <4>1. Len(stack') >= 2 => IsCore(stack'[2].space)
        <5>1. CASE Len(stack) >= 2
          <6>1. stack'[2] = stack[2]
            BY <2>3, <3>2, <5>1
          <6> QED
            BY <3>5, <5>1, <6>1 DEF InExtension
        <5>2. CASE ~(Len(stack) >= 2)
          <6>1. Len(stack') >= 2 => Len(stack) = 1
            <7>1. Len(stack) \in Nat /\ Len(stack') = Len(stack) + 1
              BY <2>3, <3>2
            <7>2. PICK m \in Nat : m = Len(stack)
              BY <7>1
            <7>3. Len(stack') = m + 1 /\ ~(m >= 2)
              BY <5>2, <7>1, <7>2
            <7> QED
              BY <7>2, <7>3
          <6>2. Len(stack) = 1 => stack'[2] = frame
            BY <3>2
          <6> QED
            BY <2>2, <3>5, <6>1, <6>2
        <5> QED
          BY <5>1, <5>2
      <4> QED
        BY <1>6, <2>1, <2>6, <3>2, <3>5, <4>1 DEF InExtension
    <3> QED
      BY <3>3, <3>4, <3>5
  <2> QED
    BY <2>5, <2>6
<1> QED
  BY <1>1, <1>2, <1>3, <1>4, <1>6, <1>7

(* A start tag or an empty element keeps the tree and the bill. *)
LEMMA TreeElementStep ==
  ASSUME Visitor, Tree, Bill, visit = "open", NEW tag \in Tags, NEW empty \in BOOLEAN,
         Element(tag, empty)
  PROVE  Tree' /\ Bill'
<1>1. PICK n : n = Len(events)
  OBVIOUS
<1>2. PICK e : e = [kind |-> IF empty THEN "empty" ELSE "start", tag |-> tag]
  OBVIOUS
<1>3. /\ Standing /\ OneMore(n, e) /\ e.tag = tag
      /\ e.kind = IF empty THEN "empty" ELSE "start"
      /\ (Core(n)' <=> ~InExtension /\ IsCore(tag.space))
      /\ (Foreign(n + 1)' <=> InExtension \/ ~IsCore(tag.space))
  BY <1>1, <1>2, ElementStep
<1>4. ~Refused(tag) =>
        /\ visit' = "open"
        /\ Len(stack') = IF empty THEN Len(stack) ELSE Len(stack) + 1
        /\ Core(n)' => ~InExtension'
        /\ ~Core(n)' => CoreOpen' = CoreOpen /\ Len(stack) >= 1 /\ CoreOpen = 1
  BY <1>1, <1>2, ElementStep
<1>5. e.kind \in {"start", "empty"} /\ tree \in TreeRecord /\ tree.verdict # "ok"
  BY <1>3 DEF Tree
<1>6. PICK a \in Nat : a = Cardinality(tag.attrs)
  BY AttrsAreCounted
<1>7. CASE Refused(tag)
  <2>1. tree' = tree /\ visit' \notin {"open", "ok"}
    BY <1>7 DEF Element, Refuse
  <2> QED
    BY <2>1, TreeRefused
<1>8. CASE ~Refused(tag) /\ tree.verdict # "open"
  <2>1. tree' = tree
    <3>1. \E x : tree' = Parse(tree, x)
      BY <1>8 DEF Element, Tell
    <3> QED
      BY <1>8, <3>1, ParseDone
  <2>2. Tree'
    BY <1>3, <1>5, <1>8, <2>1, TreeNext
  <2>3. Bill'
    BY <1>3, <1>5, <1>8, <2>1, BillElement
  <2> QED
    BY <2>2, <2>3
<1>9. CASE ~Refused(tag) /\ tree.verdict = "open" /\ ~Core(n)'
  <2>1. PICK x : x = [kind |-> "ignored", attributes |-> a]
    OBVIOUS
  <2>2. tree' = Parse(tree, x)
    BY <1>3, <1>6, <1>9, <2>1 DEF Element, Tell
  <2>3. x.kind = "ignored" /\ x.attributes = a /\ ~(a < 0)
    BY <1>6, <2>1
  <2>4. tree' = Admit(tree, a)
    BY <1>9, <2>2, <2>3, ParseIgnored
  <2>5. /\ tree' \in TreeRecord /\ tree'.nodes = tree.nodes /\ tree'.stack = tree.stack
        /\ tree'.limit = tree.limit
        /\ tree.structures + 1 <= tree.limit /\ tree.memory + 1 + a <= Room =>
             /\ tree'.verdict = "open" /\ tree'.structures = tree.structures + 1
             /\ tree'.memory = tree.memory + 1 + a
        /\ ~(tree.structures + 1 <= tree.limit /\ tree.memory + 1 + a <= Room) =>
             tree'.verdict = "limit"
    BY <1>5, <1>6, <1>9, <2>4, AdmitIs
  <2>6. Bill'
    BY <1>3, <1>5, <1>6, <1>9, <2>5, BillElement
  <2>7. TreeIs(n + 1)
    BY <1>1, <1>3, <1>9 DEF Tree, Next1
  <2>8. \A j \in Around(n + 2)' : j \in Around(n + 1) \/ ~(Depth(j)' < CoreOpen)
    <3>1. /\ Around(n + 2)' \subseteq Around(n + 1) \cup {n + 1}
          /\ Depth(n + 1)' = Depth(n + 1)
      <4>1. CASE e.kind = "start"
        BY <1>3, <4>1, Following
      <4>2. CASE e.kind = "empty"
        BY <1>3, <4>2, Following
      <4> QED
        BY <1>5, <4>1, <4>2
    <3>2. Depth(n + 1) = Len(stack) /\ Len(stack) \in Nat /\ Len(stack) >= 1 /\ CoreOpen = 1
      BY <1>1, <1>3, <1>4, <1>9, Position
    <3> QED
      BY <3>1, <3>2
  <2>9. TreeIs(n + 2)'
    <3>1. CoreOpen' = CoreOpen /\ Foreign(n + 1)'
      BY <1>3, <1>4, <1>9
    <3> QED
      BY <1>3, <1>5, <1>9, <2>5, <2>7, <2>8, <3>1, TreeKept
  <2>10. visit' = "open" /\ tree'.verdict # "ok"
    BY <1>4, <1>9, <2>5
  <2>11. Tree'
    BY <1>3, <2>5, <2>9, <2>10, TreeNext
  <2> QED
    BY <2>6, <2>11
<1>10. CASE ~Refused(tag) /\ tree.verdict = "open" /\ Core(n)'
  <2>1. PICK x : x = [kind |-> "element", tag |-> tag, depth |-> Len(stack),
                      empty |-> empty, at |-> Len(events) + 1]
    OBVIOUS
  <2>2. tree' = Parse(tree, x)
    BY <1>3, <1>10, <2>1 DEF Element, Tell
  <2>3. /\ x.kind = "element" /\ x.tag = tag /\ x.depth \in Nat
        /\ x.empty = empty
    <3>1. Len(stack) \in Nat
      BY <1>3, CoreOpenIs
    <3> QED
      BY <2>1, <3>1
  <2>4. PICK idx : idx = Len(tree.nodes) + 1
    OBVIOUS
  <2>5. PICK parent : parent = IF tree.stack = <<>> THEN None ELSE Last(tree.stack)
    OBVIOUS
  <2>6. /\ tree' \in TreeRecord /\ tree'.limit = tree.limit
        /\ tree.structures + 1 <= tree.limit /\ tree.memory + 1 + a <= Room =>
             /\ tree'.verdict \in {"open", "invalid"}
             /\ tree'.structures = tree.structures + 1 /\ tree'.memory = tree.memory + 1 + a
        /\ ~(tree.structures + 1 <= tree.limit /\ tree.memory + 1 + a <= Room) =>
             tree'.verdict = "limit"
        /\ tree'.verdict = "open" =>
             /\ Len(tree'.nodes) = idx
             /\ tree'.nodes[idx] = [name |-> tag.name, tag |-> tag, text |-> <<>>,
                                children |-> <<>>, parent |-> parent]
             /\ \A i \in 1..Len(tree.nodes) :
                  tree'.nodes[i] = IF i = parent
                               THEN [tree.nodes[i] EXCEPT !.children = Append(@, idx)]
                               ELSE tree.nodes[i]
             /\ tree'.stack = IF empty THEN tree.stack ELSE Append(tree.stack, idx)
    BY <1>5, <1>6, <1>10, <2>2, <2>3, <2>4, <2>5, ParseElement
  <2>7. Bill'
    BY <1>3, <1>5, <1>6, <1>10, <2>6, BillElement
  <2>8. TreeIs(n + 1)
    BY <1>1, <1>3, <1>10 DEF Tree, Next1
  <2>9. ASSUME tree'.verdict = "open" PROVE TreeIs(n + 2)'
    <3>1. /\ ~InExtension /\ ~InExtension' /\ (empty <=> e.kind = "empty")
          /\ Len(stack') = IF e.kind = "empty" THEN Len(stack) ELSE Len(stack) + 1
      BY <1>3, <1>4, <1>10
    <3>2. /\ Len(tree'.nodes) = idx
          /\ tree'.nodes[idx] = [name |-> e.tag.name, tag |-> e.tag, text |-> <<>>,
                             children |-> <<>>, parent |-> parent]
      BY <1>3, <2>6, <2>9
    <3>3. \A i \in 1..Len(tree.nodes) :
            tree'.nodes[i] = IF i = parent
                         THEN [tree.nodes[i] EXCEPT !.children = Append(@, idx)]
                         ELSE tree.nodes[i]
      BY <2>6, <2>9
    <3>4. tree'.stack = IF e.kind = "empty" THEN tree.stack ELSE Append(tree.stack, idx)
      BY <2>6, <2>9, <3>1
    <3>5. Standing /\ OneMore(n, e) /\ Core(n)'
      BY <1>3, <1>10
    <3> QED
      <4>1. Grown(e, idx, parent)
        BY <2>4, <2>5, <3>2, <3>3, <3>4 DEF Grown
      <4> QED
        BY <1>5, <2>8, <3>1, <3>5, <4>1, TreeElement
  <2>10. visit' = "open" /\ tree'.verdict # "ok"
    BY <1>4, <1>10, <2>6
  <2>11. Tree'
    BY <1>3, <2>6, <2>9, <2>10, TreeNext
  <2> QED
    BY <2>7, <2>11
<1> QED
  BY <1>7, <1>8, <1>9, <1>10

-----------------------------------------------------------------------------
(* An event that adds no node and opens and closes no core element leaves  *)
(* the tree the document's, and the bill as it is.                         *)
LEMMA TreeUnchanged ==
  ASSUME Visitor, Tree, Bill, visit = "open", visit' = "open", tree' = tree,
         NEW n, NEW e, OneMore(n, e), e.kind \notin {"start", "empty"},
         tree.verdict = "open" =>
           /\ CoreOpen' = CoreOpen /\ Around(n + 2)' \subseteq Around(n + 1)
           /\ Foreign(n + 1)' \/ e.kind \notin {"text", "cdata"} \/ stack = <<>>
  PROVE  Tree' /\ Bill'
<1>1. Standing /\ tree \in TreeRecord /\ tree.verdict # "ok" /\ n = Len(events)
  BY DEF Tree, Standing, OneMore
<1>2. ~Core(n)'
  <2>1. events'[n + 1] = e
    BY Longer
  <2> QED
    BY <2>1 DEF Core, Opens
<1>3. tree'.verdict \in {"open", "ok"} => TreeIs(n + 2)'
  <2> SUFFICES ASSUME tree.verdict = "open" PROVE TreeIs(n + 2)'
    BY <1>1
  <2>1. TreeIs(n + 1)
    BY <1>1 DEF Tree, Next1
  <2>2. /\ CoreOpen' = CoreOpen
        /\ \A j \in Around(n + 2)' : j \in Around(n + 1) \/ ~(Depth(j)' < CoreOpen)
        /\ Foreign(n + 1)' \/ e.kind \notin {"text", "cdata"} \/ stack = <<>>
    OBVIOUS
  <2> QED
    BY <1>1, <1>2, <2>1, <2>2, TreeKept
<1>4. Tree'
  BY <1>1, <1>3, TreeNext
<1>5. Bill'
  BY <1>1, BillKept
<1> QED
  BY <1>4, <1>5

(* Closing an element keeps the tree and the bill. *)
LEMMA TreeEndStep ==
  ASSUME Visitor, Tree, Bill, visit = "open", NEW name \in Names, NEW space \in Spaces,
         End(name, space)
  PROVE  Tree' /\ Bill'
<1>1. PICK n : n = Len(events)
  OBVIOUS
<1>2. PICK e : e = [kind |-> "close", name |-> name, space |-> space]
  OBVIOUS
<1>3. e \in Event /\ e.kind = "close" /\ e.kind \notin {"start", "empty", "text", "cdata"}
  BY <1>2 DEF Event, Names, Spaces
<1>4. OneMore(n, e)
  BY <1>1, <1>2, <1>3 DEF OneMore, End, Read, Visitor
<1>5. Standing /\ tree \in TreeRecord /\ tree.verdict # "ok"
  BY DEF Standing, Tree
<1>6. PICK matches \in BOOLEAN :
        matches <=> stack # <<>> /\ Last(stack) = [name |-> name, space |-> space]
  OBVIOUS
<1>7. CASE ~matches
  <2>1. tree' = tree /\ visit' \notin {"open", "ok"}
    BY <1>6, <1>7 DEF End, Refuse
  <2> QED
    BY <2>1, TreeRefused
<1>8. CASE matches
  <2>1. /\ visit' = "open" /\ stack' = Front(stack) /\ stack # <<>>
        /\ tree' = Parse(tree, IF InExtension THEN [kind |-> "ignored", attributes |-> -1]
                               ELSE [kind |-> "end", name |-> name, depth |-> Len(stack) - 1])
    BY <1>6, <1>8 DEF End, Tell
  <2>2. /\ Len(stack) \in Nat /\ Len(stack) >= 1 /\ Len(stack) > 0
        /\ stack \in Seq([name : Names, space : Spaces])
    <3>1. Len(stack) \in Nat /\ Len(stack) >= 1
      BY <1>5, <2>1, CoreOpenIs
    <3> QED
      BY <3>1 DEF Visitor
  <2>3. /\ Len(stack') = Len(stack) - 1
        /\ \A k \in 1..(Len(stack) - 1) : stack'[k] = stack[k]
    BY <2>1, <2>2, FrontIs
  <2>4. Len(stack') >= 2 => stack'[2] = stack[2] /\ Len(stack) >= 2
    BY <2>2, <2>3
  <2>5. Around(n + 2)' \subseteq Around(n + 1)
    BY <1>3, <1>4, <1>5, <2>1, Following
  <2>6. CASE tree.verdict # "open"
    <3>1. tree' = tree
      BY <2>1, <2>6, ParseDone
    <3> QED
      BY <1>3, <1>4, <2>1, <2>6, <3>1, TreeUnchanged
  <2>7. CASE tree.verdict = "open" /\ InExtension
    <3>1. PICK x : x = [kind |-> "ignored", attributes |-> -1]
      OBVIOUS
    <3>2. x.kind = "ignored" /\ x.attributes < 0 /\ tree' = Parse(tree, x)
      BY <2>1, <2>7, <3>1
    <3>3. tree' = tree
      BY <2>7, <3>2, ParseIgnored
    <3>4. CoreOpen' = 1 /\ CoreOpen = 1
      <4>1. CoreOpen = 1 /\ Len(stack) >= 2
        BY <2>7 DEF CoreOpen, InExtension
      <4>2. CASE Len(stack') >= 2
        BY <2>4, <2>7, <4>1, <4>2 DEF CoreOpen, InExtension
      <4>3. CASE ~(Len(stack') >= 2)
        <5>1. Len(stack') = 1
          BY <2>2, <2>3, <4>1, <4>3
        <5> QED
          BY <4>1, <4>3, <5>1 DEF CoreOpen, InExtension
      <4> QED
        BY <4>2, <4>3
    <3> QED
      BY <1>3, <1>4, <2>1, <2>5, <3>3, <3>4, TreeUnchanged
  <2>8. CASE tree.verdict = "open" /\ ~InExtension
    <3>1. TreeIs(n + 1)
      BY <1>1, <1>5, <2>8 DEF Tree, Next1
    <3>2. PICK p : p = Parent(n + 1)
      OBVIOUS
    <3>3. p \in CoreElements /\ Len(tree.stack) > 0 /\ Last(tree.stack) = Number(p)
      BY <1>1, <1>5, <2>1, <2>8, <3>1, <3>2, TreeTop
    <3>4. tree.nodes[Number(p)].name = name
      <4>1. tree.nodes[Number(p)].name = events[p].tag.name
        BY <3>1, <3>3 DEF TreeIs, NodeIs
      <4>2. Last(stack) = Frame(p)
        BY <1>1, <1>5, <2>1, <3>2, Position
      <4> QED
        BY <1>6, <1>8, <4>1, <4>2, FrameFields
    <3>5. Len(tree.stack) = Len(stack)
      BY <2>8, <3>1 DEF TreeIs, CoreOpen
    <3>6. PICK x : x = [kind |-> "end", name |-> name, depth |-> Len(stack) - 1]
      OBVIOUS
    <3>7. tree' = Parse(tree, x) /\ x.kind = "end" /\ x.name = name /\ x.depth = Len(stack) - 1
      BY <2>1, <2>8, <3>6
    <3>8. tree' = [tree EXCEPT !.stack = Front(tree.stack)] /\ tree' \in TreeRecord
      BY <1>5, <2>8, <3>3, <3>4, <3>5, <3>7, ParseEnd
    <3>9. /\ tree'.nodes = tree.nodes /\ tree'.stack = Front(tree.stack)
          /\ tree'.limit = tree.limit /\ tree'.structures = tree.structures
          /\ tree'.memory = tree.memory /\ tree'.verdict = "open"
      BY <1>5, <2>8, <3>8 DEF TreeRecord
    <3>10. ~InExtension'
      BY <2>4, <2>8 DEF InExtension
    <3>11. TreeIs(n + 2)'
      BY <1>3, <1>4, <1>5, <2>1, <2>3, <2>8, <3>1, <3>9, <3>10, TreeEnd
    <3>12. Tree'
      BY <1>4, <1>5, <3>8, <3>9, <3>11, TreeNext
    <3>13. Bill'
      BY <1>3, <1>4, <1>5, <2>8, <3>9, BillKept
    <3> QED
      BY <3>12, <3>13
  <2> QED
    BY <2>6, <2>7, <2>8
<1> QED
  BY <1>7, <1>8

(* Text keeps the tree and the bill. *)
LEMMA TreeTextStep ==
  ASSUME Visitor, Tree, Bill, visit = "open", NEW text \in Words, NEW cdata \in BOOLEAN,
         Text(text, cdata)
  PROVE  Tree' /\ Bill'
<1>1. PICK n : n = Len(events)
  OBVIOUS
<1>2. PICK e : e = [kind |-> IF cdata THEN "cdata" ELSE "text", text |-> text]
  OBVIOUS
<1>3. /\ e \in Event /\ e.kind \in {"text", "cdata"} /\ e.text = text
      /\ e.kind \notin {"start", "empty", "close"}
  BY <1>2 DEF Event, Words
<1>4. OneMore(n, e)
  BY <1>1, <1>2, <1>3 DEF OneMore, Text, Read, Visitor
<1>5. Standing /\ tree \in TreeRecord /\ tree.verdict # "ok"
  BY DEF Standing, Tree
<1>6. CASE stack = <<>> /\ (cdata \/ text = "word")
  <2>1. tree' = tree /\ visit' \notin {"open", "ok"}
    BY <1>6 DEF Text, Refuse
  <2> QED
    BY <2>1, TreeRefused
<1>7. CASE ~(stack = <<>> /\ (cdata \/ text = "word"))
  <2>1. /\ visit' = "open" /\ stack' = stack
        /\ stack = <<>> => tree' = tree
        /\ stack # <<>> =>
             tree' = Parse(tree, IF InExtension THEN [kind |-> "ignored", attributes |-> -1]
                           ELSE [kind |-> "text", text |-> text, depth |-> Len(stack)])
    BY <1>7 DEF Text, Tell
  <2>2. CoreOpen' = CoreOpen
    BY <2>1 DEF CoreOpen, InExtension
  <2>3. Around(n + 2)' \subseteq Around(n + 1)
    BY <1>3, <1>4, <1>5, Following
  <2>4. CASE tree' = tree /\ (tree.verdict # "open" \/ stack = <<>> \/ InExtension)
    <3>1. InExtension => Foreign(n + 1)'
      BY <1>4, <1>5, ForeignNext
    <3> QED
      BY <1>3, <1>4, <2>1, <2>2, <2>3, <2>4, <3>1, TreeUnchanged
  <2>5. CASE stack # <<>> /\ tree.verdict # "open"
    <3>1. tree' = tree
      BY <2>1, <2>5, ParseDone
    <3> QED
      BY <2>4, <2>5, <3>1
  <2>6. CASE stack # <<>> /\ tree.verdict = "open" /\ InExtension
    <3>1. PICK x : x = [kind |-> "ignored", attributes |-> -1]
      OBVIOUS
    <3>2. x.kind = "ignored" /\ x.attributes < 0 /\ tree' = Parse(tree, x)
      BY <2>1, <2>6, <3>1
    <3>3. tree' = tree
      BY <2>6, <3>2, ParseIgnored
    <3> QED
      BY <2>4, <2>6, <3>3
  <2>7. CASE stack # <<>> /\ tree.verdict = "open" /\ ~InExtension
    <3>1. TreeIs(n + 1)
      BY <1>1, <1>5, <2>7 DEF Tree, Next1
    <3>2. PICK top : top = Last(tree.stack)
      OBVIOUS
    <3>3. top \in 1..Len(tree.nodes)
      <4>1. Parent(n + 1) \in CoreElements /\ top = Number(Parent(n + 1))
        BY <1>1, <1>5, <2>7, <3>1, <3>2, TreeTop
      <4>2. Number(Parent(n + 1)) \in 1..Cardinality(CoreElements)
        BY <4>1, Numbers DEF Visitor
      <4> QED
        BY <3>1, <4>1, <4>2 DEF TreeIs
    <3>4. Len(tree.stack) = Len(stack)
      BY <2>7, <3>1 DEF TreeIs, CoreOpen
    <3>5. PICK x : x = [kind |-> "text", text |-> text, depth |-> Len(stack)]
      OBVIOUS
    <3>6. /\ tree' = Parse(tree, x) /\ x.kind = "text" /\ x.text = text /\ x.text \in Words
          /\ x.depth = Len(tree.stack)
      BY <2>1, <2>7, <3>4, <3>5
    <3>7. LET u == Parse(tree, x)
          IN  /\ u \in TreeRecord /\ Len(u.nodes) = Len(tree.nodes)
              /\ u.verdict = "open" /\ u.stack = tree.stack /\ u.limit = tree.limit
              /\ u.structures = tree.structures /\ u.memory = tree.memory
              /\ \A i \in 1..Len(tree.nodes) :
                   u.nodes[i] = IF i = top
                                THEN Written(tree.nodes[i], x.text)
                                ELSE tree.nodes[i]
      BY <1>5, <2>7, <3>2, <3>3, <3>6, ParseText
    <3>12. /\ tree' \in TreeRecord /\ Len(tree'.nodes) = Len(tree.nodes)
           /\ tree'.verdict = "open" /\ tree'.stack = tree.stack
           /\ tree'.limit = tree.limit /\ tree'.structures = tree.structures
           /\ tree'.memory = tree.memory
      BY <3>6, <3>7
    <3>8. \A i \in 1..Len(tree.nodes) :
            tree'.nodes[i] = IF i = top
                         THEN Written(tree.nodes[i], e.text)
                         ELSE tree.nodes[i]
      BY <1>3, <3>6, <3>7
    <3>9. TreeIs(n + 2)'
      BY <1>3, <1>4, <1>5, <2>1, <2>7, <3>1, <3>2, <3>12, <3>8, TreeText
    <3>10. Tree'
      BY <1>4, <1>5, <3>12, <3>9, TreeNext
    <3>11. Bill'
      BY <1>3, <1>4, <1>5, <2>7, <3>12, BillKept
    <3> QED
      BY <3>10, <3>11
  <2> QED
    BY <2>1, <2>4, <2>5, <2>6, <2>7
<1> QED
  BY <1>6, <1>7

-----------------------------------------------------------------------------
(* The end of the input settles the verdict and changes nothing else. *)
LEMMA ParsedIs ==
  ASSUME NEW t \in TreeRecord, NEW u, u = Parsed(t)
  PROVE  /\ t.verdict # "open" => u = t
         /\ u \in TreeRecord /\ u.nodes = t.nodes /\ u.stack = t.stack
         /\ u.limit = t.limit /\ u.structures = t.structures /\ u.memory = t.memory
         /\ t.verdict = "open" => u.verdict \in {"invalid", "unsupported", "ok"}
<1>1. CASE t.verdict # "open"
  BY <1>1 DEF Parsed
<1>2. CASE t.verdict = "open"
  <2>1. PICK v : v = IF "version" \notin t.nodes[1].tag.attrs THEN "invalid"
                     ELSE IF t.nodes[1].tag.fault = "version" THEN "unsupported" ELSE "ok"
    OBVIOUS
  <2>2. u = [t EXCEPT !.verdict = v]
    BY <1>2, <2>1 DEF Parsed
  <2>3. v \in {"invalid", "unsupported", "ok"}
    BY <2>1
  <2> QED
    BY <1>2, <2>2, <2>3 DEF TreeRecord
<1> QED
  BY <1>1, <1>2

(* The end of the input, a document type, and what does not parse. *)
LEMMA TreeEofStep ==
  ASSUME Visitor, Tree, Bill, visit = "open", Eof
  PROVE  Tree' /\ Bill'
<1>1. PICK n : n = Len(events)
  OBVIOUS
<1>2. PICK e : e = [kind |-> "eof"]
  OBVIOUS
<1>3. e \in Event /\ e.kind \notin {"start", "empty", "close", "text", "cdata"}
  BY <1>2 DEF Event
<1>4. OneMore(n, e)
  BY <1>1, <1>2, <1>3 DEF OneMore, Eof, Read, Visitor
<1>5. Standing /\ tree \in TreeRecord /\ tree.verdict # "ok"
  BY DEF Standing, Tree
<1>6. CASE roots # 1 \/ stack # <<>>
  <2>1. tree' = tree /\ visit' \notin {"open", "ok"}
    BY <1>6 DEF Eof, Refuse
  <2> QED
    BY <2>1, TreeRefused
<1>7. CASE roots = 1 /\ stack = <<>>
  <2>1. visit' = "ok" /\ stack' = stack /\ tree' = Parsed(tree)
    BY <1>7 DEF Eof
  <2>2. /\ tree.verdict # "open" => tree' = tree
        /\ tree' \in TreeRecord /\ tree'.nodes = tree.nodes /\ tree'.stack = tree.stack
        /\ tree'.limit = tree.limit /\ tree'.structures = tree.structures
        /\ tree'.memory = tree.memory
        /\ tree.verdict = "open" => tree'.verdict \in {"invalid", "unsupported", "ok"}
    BY <1>5, <2>1, ParsedIs
  <2>3. ~Core(n)'
    <3>1. events'[n + 1] = e
      BY <1>4, Longer
    <3> QED
      BY <1>3, <3>1 DEF Core, Opens
  <2>4. tree'.verdict \in {"open", "ok"} => TreeIs(n + 2)'
    <3> SUFFICES ASSUME tree.verdict = "open" PROVE TreeIs(n + 2)'
      BY <1>5, <2>2
    <3>1. TreeIs(n + 1)
      BY <1>1, <1>5 DEF Tree, Next1
    <3>2. CoreOpen' = CoreOpen
      BY <2>1 DEF CoreOpen, InExtension
    <3>3. \A j \in Around(n + 2)' : j \in Around(n + 1) \/ ~(Depth(j)' < CoreOpen)
      BY <1>3, <1>4, <1>5, Following
    <3> QED
      BY <1>3, <1>4, <1>5, <2>2, <2>3, <3>1, <3>2, <3>3, TreeKept
  <2>5. visit' = "open" => tree'.verdict # "ok"
    BY <2>1
  <2>6. Tree'
    BY <1>4, <1>5, <2>2, <2>4, <2>5, TreeNext
  <2>7. \/ tree'.verdict = tree.verdict \/ tree'.verdict \in {"invalid", "unsupported"}
        \/ tree'.verdict = "ok" /\ tree.verdict = "open"
    BY <2>2
  <2>8. Bill'
    BY <1>3, <1>4, <1>5, <2>2, <2>7, BillKept
  <2> QED
    BY <2>6, <2>8
<1> QED
  BY <1>6, <1>7

(* The elements, their numbers, children and texts are those of the events. *)
LEMMA SameDocument ==
  ASSUME events' = events
  PROVE  /\ CoreElements' = CoreElements /\ Opened' = Opened /\ Fees' = Fees
         /\ \A i : Number(i)' = Number(i)
         /\ \A i : Kids(i)' = Kids(i) /\ TextOf(i)' = TextOf(i)
<1>1. /\ \A i : Around(i)' = Around(i) /\ Parent(i)' = Parent(i)
      /\ \A i : (Opens(i)' <=> Opens(i)) /\ (Foreign(i)' <=> Foreign(i))
      /\ \A i : Says(i)' <=> Says(i)
  BY SameEvents DEF Says
<1>2. Inner' = Inner /\ Opened' = Opened
  BY <1>1 DEF Inner, Opened
<1>3. CoreElements' = CoreElements
  BY <1>1, <1>2 DEF CoreElements
<1>4. ASSUME NEW i PROVE Number(i)' = Number(i)
  BY <1>3 DEF Number
<1>5. ASSUME NEW i PROVE Kids(i)' = Kids(i)
  <2>1. (\A j, R, m, M : Children(j) = R /\ m = Cardinality(R) /\ M = Listing(R) =>
          Kids(j) = [k \in 1..m |-> Number(M[k])])'
    BY KidsAre, PTL
  <2>2. PICK S, c, L : S = Children(i) /\ c = Cardinality(S) /\ L = Listing(S)
    OBVIOUS
  <2>3. Children(i)' = S
    BY <1>1, <1>3, <2>2 DEF Children
  <2>4. Kids(i)' = [k \in 1..c |-> Number(L[k])']
    BY <2>1, <2>2, <2>3
  <2>5. Kids(i) = [k \in 1..c |-> Number(L[k])]
    BY <2>2, KidsAre
  <2> QED
    BY <1>4, <2>4, <2>5
<1>6. ASSUME NEW i PROVE TextOf(i)' = TextOf(i)
  <2>1. (\A j, R, m, M : Texts(j) = R /\ m = Cardinality(R) /\ M = Listing(R) =>
          TextOf(j) = [k \in 1..m |-> events[M[k]].text])'
    BY TextIs, PTL
  <2>2. PICK S, c, L : S = Texts(i) /\ c = Cardinality(S) /\ L = Listing(S)
    OBVIOUS
  <2>3. Texts(i)' = S
    BY <1>1, <1>2, <2>2 DEF Texts
  <2>4. TextOf(i)' = [k \in 1..c |-> events'[L[k]].text]
    BY <2>1, <2>2, <2>3
  <2>5. TextOf(i) = [k \in 1..c |-> events[L[k]].text]
    BY <2>2, TextIs
  <2> QED
    BY <2>4, <2>5
<1>7. Fees' = Fees
  BY <1>2 DEF Fees
<1> QED
  BY <1>2, <1>3, <1>4, <1>5, <1>6, <1>7

(* The tree and the bill along every step. *)
LEMMA TreeStep ==
  Visitor /\ Tree /\ Bill /\ [Next]_vars => Tree' /\ Bill'
<1> SUFFICES ASSUME Visitor, Tree, Bill, [Next]_vars PROVE Tree' /\ Bill'
  OBVIOUS
<1>1. ASSUME NEW tag \in Tags, NEW empty \in BOOLEAN, Element(tag, empty)
      PROVE  Tree' /\ Bill'
  <2>1. visit = "open"
    BY <1>1 DEF Element, Read
  <2> QED
    BY <1>1, <2>1, TreeElementStep
<1>2. ASSUME NEW pair \in {<<tag.name, tag.space>> : tag \in Tags}, End(pair[1], pair[2])
      PROVE  Tree' /\ Bill'
  <2>1. visit = "open"
    BY <1>2 DEF End, Read
  <2>2. pair[1] \in Names /\ pair[2] \in Spaces
    BY DEF Names, Spaces
  <2> QED
    BY <1>2, <2>1, <2>2, TreeEndStep
<1>3. ASSUME NEW text \in {"word", "blank"}, NEW cdata \in Forms, Text(text, cdata)
      PROVE  Tree' /\ Bill'
  <2>1. visit = "open" /\ cdata \in BOOLEAN /\ text \in Words
    BY <1>3 DEF Text, Read, Forms, Words
  <2> QED
    BY <1>3, <2>1, TreeTextStep
<1>4. ASSUME DocType \/ ReadFails PROVE Tree' /\ Bill'
  <2>1. tree' = tree /\ visit' \notin {"open", "ok"}
    BY <1>4 DEF DocType, ReadFails, Refuse
  <2> QED
    BY <2>1, TreeRefused
<1>5. ASSUME Eof PROVE Tree' /\ Bill'
  <2>1. visit = "open"
    BY <1>5 DEF Eof, Read
  <2> QED
    BY <1>5, <2>1, TreeEofStep
<1>6. CASE UNCHANGED vars
  <2>1. events' = events /\ UNCHANGED <<stack, visit, tree>>
    BY <1>6 DEF vars
  <2>2. /\ CoreElements' = CoreElements /\ Opened' = Opened /\ Fees' = Fees
        /\ \A i : Number(i)' = Number(i)
        /\ \A i : Kids(i)' = Kids(i) /\ TextOf(i)' = TextOf(i)
    BY <2>1, SameDocument
  <2>3. \A i : Depth(i)' = Depth(i) /\ Around(i)' = Around(i) /\ Parent(i)' = Parent(i)
    BY <2>1, SameEvents
  <2>4. Next1' = Next1 /\ CoreOpen' = CoreOpen /\ (Standing' <=> Standing)
    BY <2>1 DEF Next1, CoreOpen, InExtension, Standing
  <2>5. ASSUME NEW i, NodeIs(i) PROVE NodeIs(i)'
    <3>1. PICK p : p = Parent(i)
      OBVIOUS
    <3>2. Parent(i)' = p /\ Number(p)' = Number(p) /\ Number(i)' = Number(i)
      BY <2>2, <2>3, <3>1
    <3> QED
      BY <2>1, <2>2, <2>5, <3>1, <3>2 DEF NodeIs
  <2>6. ASSUME TreeIs(Next1) PROVE TreeIs(Next1)'
    <3>1. PICK next : next = Next1
      OBVIOUS
    <3>2. next = Next1' /\ TreeIs(next)
      BY <2>4, <2>6, <3>1
    <3>3. TreeIs(next)'
      BY <2>1, <2>2, <2>3, <2>4, <2>5, <3>2 DEF TreeIs
    <3> QED
      BY <3>2, <3>3
  <2>7. Tree'
    BY <2>1, <2>4, <2>6 DEF Tree
  <2>8. Bill'
    BY <2>1, <2>2, <2>4 DEF Bill, Cost
  <2> QED
    BY <2>7, <2>8
<1> QED
  BY <1>1, <1>2, <1>3, <1>4, <1>5, <1>6 DEF Next

(* Before the first event. *)
LEMMA TreeInit ==
  Init => Tree /\ Bill
<1> SUFFICES ASSUME Init PROVE Tree /\ Bill
  OBVIOUS
<1>1. events = <<>> /\ stack = <<>> /\ visit = "open" /\ Next1 = 1 /\ DOMAIN events = {}
  BY DEF Init, Next1
<1>2. /\ tree \in TreeRecord /\ tree.verdict = "open" /\ tree.nodes = <<>>
      /\ tree.stack = <<>> /\ tree.structures = 0 /\ tree.memory = 0
  BY DocumentAssumption DEF Init, TreeRecord
<1>3. CoreElements = {} /\ Opened = {}
  BY <1>1 DEF CoreElements, Inner, Opened
<1>4. Around(1) = {}
  <2>1. 1..(1 - 1) = {}
    OBVIOUS
  <2> QED
    BY <2>1 DEF Around
<1>5. CoreOpen = 0
  BY <1>1 DEF CoreOpen, InExtension
<1>6. Cardinality({}) = 0
  BY FS_EmptySet
<1>7. Tree
  <2>1. Len(tree.nodes) = Cardinality(CoreElements) /\ Len(tree.stack) = CoreOpen
    BY <1>2, <1>3, <1>5, <1>6
  <2>2. TreeIs(Next1)
    BY <1>1, <1>3, <1>4, <2>1 DEF TreeIs
  <2> QED
    BY <1>2, <2>2 DEF Tree
<1>8. Bill
  <2>1. Total(Fees) = 0
    <3>1. Fees \in [{} -> Nat] /\ \A d \in {} : Fees[d] = 0
      BY <1>3 DEF Fees
    <3>2. PICK f : f = Fees
      OBVIOUS
    <3> QED
      BY <3>1, <3>2, TotalZero
  <2>2. Cost = 0 /\ Cardinality(Opened) = 0
    BY <1>3, <1>6, <2>1 DEF Cost
  <2>3. tree.limit \in Nat /\ Room \in Nat
    BY <1>2, DocumentAssumption DEF TreeRecord
  <2> QED
    BY <1>2, <2>2, <2>3 DEF Bill
<1> QED
  BY <1>7, <1>8

(* The validator's tree is the document's, whatever the document. *)
THEOREM TreeIsRight == Spec => []TreeIsTheDocument
<1> DEFINE Inv == Visitor /\ VisitIsRight /\ Tree /\ Bill
<1>1. Init => Inv
  BY VisitorInit, TreeInit
<1>2. Inv /\ [Next]_vars => Inv'
  BY VisitorStep, TreeStep
<1>3. Inv => TreeIsTheDocument
  <2> SUFFICES ASSUME Tree, Standing, tree.verdict \in {"open", "ok"}
      PROVE  /\ Len(tree.nodes) = Cardinality(CoreElements)
             /\ \A i \in CoreElements : NodeIs(i)
    BY DEF TreeIsTheDocument, NodeIs
  <2> QED
    BY DEF Tree, TreeIs
<1> QED
  BY <1>1, <1>2, <1>3, PTL DEF Spec

(* Whatever the document, what is kept of it has been paid for, and it is  *)
(* refused for a limit only when the limit is below what it costs.         *)
THEOREM BudgetIsRight == Spec => []BudgetCoversTheDocument
<1> DEFINE Inv == Visitor /\ VisitIsRight /\ Tree /\ Bill
<1>1. Init => Inv
  BY VisitorInit, TreeInit
<1>2. Inv /\ [Next]_vars => Inv'
  BY VisitorStep, TreeStep
<1>3. Inv => BudgetCoversTheDocument
  BY DEF Bill, Cost, Fees, BudgetCoversTheDocument
<1> QED
  BY <1>1, <1>2, <1>3, PTL DEF Spec

-----------------------------------------------------------------------------
(* The loader's consumer finds the first image.                            *)

Named(x) == {i \in CoreElements : events[i].tag.name = x}
FirstImage == IF Named("Image") = {} THEN None ELSE Min(Named("Image"))

(* A core element joins those of its name. *)
LEMMA NamedNext ==
  ASSUME NEW n, NEW e, OneMore(n, e)
  PROVE  /\ \A x : Named(x) \subseteq 1..n
         /\ \A x : Named(x)' = IF Core(n)' /\ e.tag.name = x
                               THEN Named(x) \cup {n + 1} ELSE Named(x)
<1>1. n \in Nat /\ events'[n + 1] = e /\ \A i \in 1..n : events'[i] = events[i]
  BY Longer
<1>2. /\ CoreElements \subseteq 1..n
      /\ CoreElements' = IF Core(n)' THEN CoreElements \cup {n + 1} ELSE CoreElements
  BY CoreGrows, NumberNext
<1>3. \A x : Named(x) \subseteq 1..n
  BY <1>2 DEF Named
<1>4. ASSUME NEW x
      PROVE  Named(x)' = IF Core(n)' /\ e.tag.name = x THEN Named(x) \cup {n + 1} ELSE Named(x)
  <2>1. Named(x)' = {i \in CoreElements' : events'[i].tag.name = x}
    BY DEF Named
  <2>2. \A i \in CoreElements : events'[i].tag.name = events[i].tag.name
    BY <1>1, <1>2
  <2> QED
    BY <1>1, <1>2, <2>1, <2>2 DEF Named
<1> QED
  BY <1>3, <1>4

(* Numbers have a least, and a greater one does not change it. *)
LEMMA LeastIs ==
  ASSUME NEW S \in SUBSET Nat, S # {}
  PROVE  Min(S) \in S /\ \A y \in S : Min(S) <= y
<1>1. \E x \in S : \A y \in S : x <= y
  BY LeastNumber
<1> QED
  BY <1>1 DEF Min

(* A greater number does not become the least. *)
LEMMA LeastKept ==
  ASSUME NEW n \in Nat, NEW S, S \subseteq 1..n
  PROVE  /\ S # {} => Min(S \cup {n + 1}) = Min(S) /\ Min(S) \in 1..n
         /\ Min({n + 1}) = n + 1
<1>1. S \in SUBSET Nat /\ S \cup {n + 1} \in SUBSET Nat /\ {n + 1} \in SUBSET Nat
  OBVIOUS
<1>2. Min({n + 1}) = n + 1
  BY <1>1, LeastIs
<1>3. ASSUME S # {} PROVE Min(S \cup {n + 1}) = Min(S) /\ Min(S) \in 1..n
  <2>1. PICK a : a = Min(S)
    OBVIOUS
  <2>2. PICK b : b = Min(S \cup {n + 1})
    OBVIOUS
  <2>3. a \in S /\ \A y \in S : a <= y
    BY <1>1, <1>3, <2>1, LeastIs
  <2>4. b \in S \cup {n + 1} /\ \A y \in S \cup {n + 1} : b <= y
    BY <1>1, <2>2, LeastIs
  <2>5. a \in 1..n /\ b <= a
    BY <2>3, <2>4
  <2>6. b \in S
    BY <2>4, <2>5
  <2>7. a <= b /\ b \in Nat /\ a \in Nat
    BY <1>1, <2>3, <2>6
  <2> QED
    BY <2>1, <2>2, <2>5, <2>7
<1> QED
  BY <1>2, <1>3

(* The first image after an event. *)
LEMMA FirstImageNext ==
  ASSUME NEW n, NEW e, OneMore(n, e)
  PROVE  /\ FirstImage = None <=> Named("Image") = {}
         /\ ~(Core(n)' /\ e.tag.name = "Image") \/ FirstImage # None =>
              FirstImage' = FirstImage /\ (Named("Image")' = {} <=> Named("Image") = {})
         /\ Core(n)' /\ e.tag.name = "Image" /\ FirstImage = None => FirstImage' = n + 1
         /\ FirstImage \in Nat
<1>1. PICK S : S = Named("Image")
  OBVIOUS
<1>2. PICK T : T = Named("Image")'
  OBVIOUS
<1>3. /\ n \in Nat /\ S \subseteq 1..n
      /\ T = IF Core(n)' /\ e.tag.name = "Image" THEN S \cup {n + 1} ELSE S
  BY <1>1, <1>2, NamedNext, Longer
<1>4. FirstImage = (IF S = {} THEN 0 ELSE Min(S)) /\ FirstImage' = IF T = {} THEN 0 ELSE Min(T)
  BY <1>1, <1>2 DEF FirstImage, None
<1>5. /\ S # {} => Min(S \cup {n + 1}) = Min(S) /\ Min(S) \in 1..n
      /\ Min({n + 1}) = n + 1
  BY <1>3, LeastKept
<1>6. FirstImage = None <=> S = {}
  BY <1>3, <1>4, <1>5 DEF None
<1>7. FirstImage \in Nat
  BY <1>3, <1>4, <1>5
<1>8. CASE ~(Core(n)' /\ e.tag.name = "Image")
  BY <1>1, <1>2, <1>3, <1>4, <1>6, <1>7, <1>8
<1>9. CASE Core(n)' /\ e.tag.name = "Image" /\ S # {}
  BY <1>1, <1>2, <1>3, <1>4, <1>5, <1>6, <1>7, <1>9
<1>10. CASE Core(n)' /\ e.tag.name = "Image" /\ S = {}
  <2>1. T = {n + 1}
    BY <1>3, <1>10
  <2>2. FirstImage' = n + 1
    BY <1>4, <1>5, <2>1
  <2> QED
    BY <1>1, <1>6, <1>7, <1>10, <2>2
<1> QED
  BY <1>8, <1>9, <1>10

Loader ==
  /\ loader \in [verdict : {"open", "ok", "error"}, image : Nat]
  /\ visit = "open" => loader.verdict # "ok"
  /\ visit = "ok" => loader.verdict # "open"
  /\ Standing =>
       /\ loader.verdict \in {"open", "ok"} => loader.image = FirstImage
       /\ loader.verdict = "ok" => Named("Image") # {}
       /\ loader.verdict = "error" =>
            \/ tree.verdict \notin {"open", "ok"}
            \/ visit = "ok" /\ Named("Image") = {}

(* Nothing is said of the loader after a failed visit. *)
LEMMA LoaderRefused ==
  ASSUME Loader, loader' = loader, visit' \notin {"open", "ok"}
  PROVE  Loader'
  BY DEF Loader, Standing

(* Events that are no core element. *)
LEMMA LoaderKept ==
  ASSUME Loader, visit = "open", visit' = "open", NEW n, NEW e, OneMore(n, e),
         ~(Core(n)' /\ e.tag.name = "Image") \/ FirstImage # None, loader' = loader,
         tree.verdict \notin {"open", "ok"} => tree' = tree
  PROVE  Loader'
<1>1. FirstImage' = FirstImage /\ (Named("Image")' = {} <=> Named("Image") = {})
  BY FirstImageNext
<1> QED
  BY <1>1 DEF Loader, Standing

(* A consumer told of what is no element. *)
LEMMA LoaderDeaf ==
  ASSUME NEW l, NEW x, x.kind # "element"
  PROVE  FindImage(l, x) = l
  BY DEF FindImage

(* A faulty descriptor is never kept. *)
LEMMA ParseFault ==
  ASSUME NEW t \in TreeRecord, t.verdict = "open", NEW e, e.kind = "element",
         e.tag \in Tags, e.tag.fault = "descriptor"
  PROVE  Parse(t, e).verdict \notin {"open", "ok"}
<1>1. PICK a \in Nat : a = Cardinality(e.tag.attrs)
  BY AttrsAreCounted
<1>2. PICK u : u = Admit(t, a)
  OBVIOUS
<1>3. u \in TreeRecord /\ u.verdict \in {"open", "limit"}
  BY <1>1, <1>2, AdmitIs
<1>4. Parse(t, e) = IF u.verdict # "open" THEN u ELSE Grow(u, e)
  BY <1>1, <1>2 DEF Parse
<1>5. Grow(u, e) = [u EXCEPT !.verdict = "invalid"]
  BY DEF Grow
<1>6. Grow(u, e).verdict = "invalid"
  BY <1>3, <1>5 DEF TreeRecord
<1> QED
  BY <1>3, <1>4, <1>6

(* A start tag or an empty element. *)
LEMMA LoaderElementStep ==
  ASSUME Visitor, Tree, Loader, visit = "open", NEW tag \in Tags, NEW empty \in BOOLEAN,
         Element(tag, empty)
  PROVE  Loader'
<1>1. PICK n : n = Len(events)
  OBVIOUS
<1>2. PICK e : e = [kind |-> IF empty THEN "empty" ELSE "start", tag |-> tag]
  OBVIOUS
<1>3. /\ Standing /\ OneMore(n, e) /\ e.tag = tag
      /\ e.kind = IF empty THEN "empty" ELSE "start"
      /\ (Core(n)' <=> ~InExtension /\ IsCore(tag.space))
      /\ ~Refused(tag) => visit' = "open"
  BY <1>1, <1>2, ElementStep
<1>4. tree \in TreeRecord /\ tree.verdict # "ok"
  BY <1>3 DEF Tree
<1>5. tree.verdict \notin {"open", "ok"} => tree' = tree
  BY ParseDone DEF Element, Refuse, Tell
<1>6. CASE Refused(tag)
  <2>1. loader' = loader /\ visit' \notin {"open", "ok"}
    BY <1>6 DEF Element, Refuse
  <2> QED
    BY <2>1, LoaderRefused
<1>7. CASE ~Refused(tag) /\ ~Core(n)'
  <2>1. PICK x : x = [kind |-> "ignored", attributes |-> Cardinality(tag.attrs)]
    OBVIOUS
  <2>2. loader' = FindImage(loader, x) /\ x.kind # "element"
    BY <1>3, <1>7, <2>1 DEF Element, Tell
  <2>3. loader' = loader
    BY <2>2, LoaderDeaf
  <2> QED
    BY <1>3, <1>5, <1>7, <2>3, LoaderKept
<1>8. CASE ~Refused(tag) /\ Core(n)'
  <2>1. PICK x : x = [kind |-> "element", tag |-> tag, depth |-> Len(stack),
                      empty |-> empty, at |-> Len(events) + 1]
    OBVIOUS
  <2>2. /\ loader' = FindImage(loader, x) /\ tree' = Parse(tree, x)
        /\ x.kind = "element" /\ x.tag = tag /\ x.at = n + 1
    BY <1>1, <1>3, <1>8, <2>1 DEF Element, Tell
  <2>3. loader \in [verdict : {"open", "ok", "error"}, image : Nat] /\ loader.verdict # "ok"
    BY DEF Loader
  <2>4. CASE loader.verdict # "open" \/ loader.image # None \/ tag.name # "Image"
    <3>1. loader' = loader
      BY <2>2, <2>4 DEF FindImage
    <3>2. CASE loader.verdict # "open"
      <4>1. loader'.verdict = "error" /\ tree'.verdict \notin {"open", "ok"}
        BY <1>3, <1>5, <2>3, <3>1, <3>2 DEF Loader
      <4> QED
        BY <1>3, <1>8, <2>3, <3>1, <4>1 DEF Loader
    <3>3. CASE loader.verdict = "open"
      <4>1. FirstImage = loader.image
        BY <1>3, <3>3 DEF Loader
      <4> QED
        BY <1>3, <1>5, <1>8, <2>4, <3>1, <3>3, <4>1, LoaderKept
    <3> QED
      BY <3>2, <3>3
  <2>5. CASE loader.verdict = "open" /\ loader.image = None /\ tag.name = "Image"
    <3>1. FirstImage = None
      BY <1>3, <2>5 DEF Loader
    <3>2. FirstImage' = n + 1 /\ n \in Nat
      BY <1>3, <1>8, <2>5, <3>1, FirstImageNext, Longer
    <3>3. CASE tag.fault = "descriptor"
      <4>1. loader' = [loader EXCEPT !.verdict = "error"]
        BY <2>2, <2>5, <3>3 DEF FindImage
      <4>2. loader' \in [verdict : {"open", "ok", "error"}, image : Nat] /\ loader'.verdict = "error"
        BY <2>3, <4>1
      <4>3. tree'.verdict \notin {"open", "ok"}
        BY <1>4, <1>5, <2>2, <3>3, ParseFault
      <4> QED
        BY <1>3, <1>8, <4>2, <4>3 DEF Loader
    <3>4. CASE tag.fault # "descriptor"
      <4>1. loader' = [loader EXCEPT !.image = n + 1]
        BY <2>2, <2>5, <3>4 DEF FindImage
      <4>2. /\ loader' \in [verdict : {"open", "ok", "error"}, image : Nat]
            /\ loader'.verdict = "open" /\ loader'.image = n + 1
        BY <2>3, <2>5, <3>2, <4>1
      <4> QED
        BY <1>3, <1>8, <3>2, <4>2 DEF Loader
    <3> QED
      BY <3>3, <3>4
  <2> QED
    BY <2>4, <2>5
<1> QED
  BY <1>6, <1>7, <1>8

(* End tags and text. *)
LEMMA LoaderOtherStep ==
  ASSUME Visitor, Tree, Loader, visit = "open",
         \/ \E name \in Names, space \in Spaces : End(name, space)
         \/ \E text \in Words, cdata \in BOOLEAN : Text(text, cdata)
  PROVE  Loader'
<1>1. PICK n : n = Len(events)
  OBVIOUS
<1>2. PICK e \in Event : /\ events' = Append(events, e)
                         /\ e.kind \notin {"start", "empty"}
  <2>1. CASE \E name \in Names, space \in Spaces : End(name, space)
    <3>1. PICK name \in Names, space \in Spaces : End(name, space)
      BY <2>1
    <3>2. PICK e : e = [kind |-> "close", name |-> name, space |-> space]
      OBVIOUS
    <3>3. e \in Event /\ e.kind = "close"
      BY <3>2 DEF Event, Names, Spaces
    <3> QED
      BY <3>1, <3>2, <3>3 DEF End, Read
  <2>2. CASE \E text \in Words, cdata \in BOOLEAN : Text(text, cdata)
    <3>1. PICK text \in Words, cdata \in BOOLEAN : Text(text, cdata)
      BY <2>2
    <3>2. PICK e : e = [kind |-> IF cdata THEN "cdata" ELSE "text", text |-> text]
      OBVIOUS
    <3>3. e \in Event /\ e.kind \in {"text", "cdata"}
      BY <3>2 DEF Event, Words
    <3> QED
      BY <3>1, <3>2, <3>3 DEF Text, Read
  <2> QED
    BY <2>1, <2>2
<1>3. OneMore(n, e)
  BY <1>1, <1>2 DEF OneMore, Visitor
<1>4. ~Core(n)'
  <2>1. events'[n + 1] = e
    BY <1>3, Longer
  <2> QED
    BY <1>2, <2>1 DEF Core, Opens
<1>5. \/ visit' \notin {"open", "ok"} /\ tree' = tree /\ loader' = loader
      \/ visit' = "open" /\ tree' = tree /\ loader' = loader
      \/ visit' = "open" /\ \E x : /\ x.kind # "element" /\ tree' = Parse(tree, x)
                                   /\ loader' = FindImage(loader, x)
  <2>1. PICK i : i = [kind |-> "ignored", attributes |-> -1]
    OBVIOUS
  <2>2. i.kind # "element"
    BY <2>1
  <2>3. ASSUME NEW name, NEW space, End(name, space)
        PROVE  \/ visit' \notin {"open", "ok"} /\ tree' = tree /\ loader' = loader
               \/ visit' = "open" /\ \E x : /\ x.kind # "element" /\ tree' = Parse(tree, x)
                                            /\ loader' = FindImage(loader, x)
    <3>1. PICK x : x = [kind |-> "end", name |-> name, depth |-> Len(stack) - 1]
      OBVIOUS
    <3>2. x.kind # "element"
      BY <3>1
    <3> QED
      BY <2>1, <2>2, <2>3, <3>1, <3>2 DEF End, Refuse, Tell
  <2>4. ASSUME NEW text, NEW cdata, Text(text, cdata)
        PROVE  \/ visit' \notin {"open", "ok"} /\ tree' = tree /\ loader' = loader
               \/ visit' = "open" /\ tree' = tree /\ loader' = loader
               \/ visit' = "open" /\ \E x : /\ x.kind # "element" /\ tree' = Parse(tree, x)
                                            /\ loader' = FindImage(loader, x)
    <3>1. PICK x : x = [kind |-> "text", text |-> text, depth |-> Len(stack)]
      OBVIOUS
    <3>2. x.kind # "element"
      BY <3>1
    <3> QED
      BY <2>1, <2>2, <2>4, <3>1, <3>2 DEF Text, Refuse, Tell
  <2> QED
    BY <2>3, <2>4
<1>6. CASE visit' \notin {"open", "ok"} /\ loader' = loader
  BY <1>6, LoaderRefused
<1>7. CASE visit' = "open"
  <2>1. tree.verdict \notin {"open", "ok"} => tree' = tree
    BY <1>5, <1>7, ParseDone
  <2>2. loader' = loader
    BY <1>5, <1>7, LoaderDeaf
  <2> QED
    BY <1>3, <1>4, <1>7, <2>1, <2>2, LoaderKept
<1> QED
  BY <1>5, <1>6, <1>7

(* The end of the input: there is an image, or the loader fails. *)
LEMMA LoaderEofStep ==
  ASSUME Visitor, Tree, Loader, visit = "open", Eof
  PROVE  Loader'
<1>1. PICK n : n = Len(events)
  OBVIOUS
<1>2. PICK e : e = [kind |-> "eof"]
  OBVIOUS
<1>3. e \in Event /\ e.kind \notin {"start", "empty"}
  BY <1>2 DEF Event
<1>4. OneMore(n, e)
  BY <1>1, <1>2, <1>3 DEF OneMore, Eof, Read, Visitor
<1>5. Standing /\ tree \in TreeRecord
  BY DEF Standing, Tree
<1>6. CASE roots # 1 \/ stack # <<>>
  <2>1. loader' = loader /\ visit' \notin {"open", "ok"}
    BY <1>6 DEF Eof, Refuse
  <2> QED
    BY <2>1, LoaderRefused
<1>7. CASE roots = 1 /\ stack = <<>>
  <2>1. visit' = "ok" /\ tree' = Parsed(tree) /\ loader' = Found(loader)
    BY <1>7 DEF Eof
  <2>2. ~Core(n)'
    <3>1. events'[n + 1] = e
      BY <1>4, Longer
    <3> QED
      BY <1>3, <3>1 DEF Core, Opens
  <2>3. FirstImage' = FirstImage /\ (Named("Image")' = {} <=> Named("Image") = {})
    BY <1>4, <2>2, FirstImageNext
  <2>4. FirstImage = None <=> Named("Image") = {}
    BY <1>4, FirstImageNext
  <2>5. loader \in [verdict : {"open", "ok", "error"}, image : Nat] /\ loader.verdict # "ok"
    BY DEF Loader
  <2>6. CASE loader.verdict # "open"
    <3>1. loader' = loader /\ loader.verdict = "error"
      BY <2>1, <2>5, <2>6 DEF Found
    <3>2. tree.verdict \notin {"open", "ok"}
      BY <1>5, <3>1 DEF Loader
    <3>3. tree' = tree
      BY <2>1, <3>2 DEF Parsed
    <3> QED
      BY <2>1, <2>5, <3>1, <3>2, <3>3 DEF Loader
  <2>7. CASE loader.verdict = "open"
    <3>1. PICK v : v = IF loader.image = None THEN "error" ELSE "ok"
      OBVIOUS
    <3>2. loader' = [loader EXCEPT !.verdict = v]
      BY <2>1, <2>7, <3>1 DEF Found
    <3>3. /\ loader' \in [verdict : {"open", "ok", "error"}, image : Nat]
          /\ loader'.verdict = v /\ loader'.image = loader.image /\ v \in {"error", "ok"}
      BY <2>5, <3>1, <3>2
    <3>4. loader.image = FirstImage
      BY <1>5, <2>7 DEF Loader
    <3> QED
      BY <2>1, <2>3, <2>4, <3>1, <3>3, <3>4 DEF Loader
  <2> QED
    BY <2>6, <2>7
<1> QED
  BY <1>6, <1>7

(* The loader along every step. *)
LEMMA LoaderStep ==
  Visitor /\ Tree /\ Loader /\ [Next]_vars => Loader'
<1> SUFFICES ASSUME Visitor, Tree, Loader, [Next]_vars PROVE Loader'
  OBVIOUS
<1>1. ASSUME NEW tag \in Tags, NEW empty \in BOOLEAN, Element(tag, empty) PROVE Loader'
  <2>1. visit = "open"
    BY <1>1 DEF Element, Read
  <2> QED
    BY <1>1, <2>1, LoaderElementStep
<1>2. ASSUME NEW pair \in {<<tag.name, tag.space>> : tag \in Tags}, End(pair[1], pair[2])
      PROVE  Loader'
  <2>1. visit = "open"
    BY <1>2 DEF End, Read
  <2>2. pair[1] \in Names /\ pair[2] \in Spaces
    BY DEF Names, Spaces
  <2> QED
    BY <1>2, <2>1, <2>2, LoaderOtherStep
<1>3. ASSUME NEW text \in {"word", "blank"}, NEW cdata \in Forms, Text(text, cdata)
      PROVE  Loader'
  <2>1. visit = "open" /\ cdata \in BOOLEAN /\ text \in Words
    BY <1>3 DEF Text, Read, Forms, Words
  <2> QED
    BY <1>3, <2>1, LoaderOtherStep
<1>4. ASSUME DocType \/ ReadFails PROVE Loader'
  <2>1. loader' = loader /\ visit' \notin {"open", "ok"}
    BY <1>4 DEF DocType, ReadFails, Refuse
  <2> QED
    BY <2>1, LoaderRefused
<1>5. ASSUME Eof PROVE Loader'
  <2>1. visit = "open"
    BY <1>5 DEF Eof, Read
  <2> QED
    BY <1>5, <2>1, LoaderEofStep
<1>6. CASE UNCHANGED vars
  <2>1. events' = events /\ UNCHANGED <<visit, tree, loader>>
    BY <1>6 DEF vars
  <2>2. CoreElements' = CoreElements
    BY <2>1, SameDocument
  <2>3. Named("Image")' = Named("Image")
    BY <2>1, <2>2 DEF Named
  <2>4. FirstImage' = FirstImage
    BY <2>3 DEF FirstImage, None
  <2> QED
    BY <2>1, <2>3, <2>4 DEF Loader, Standing
<1> QED
  BY <1>1, <1>2, <1>3, <1>4, <1>5, <1>6 DEF Next

(* Before the first event. *)
LEMMA LoaderInit ==
  Init => Loader
<1> SUFFICES ASSUME Init PROVE Loader
  OBVIOUS
<1>1. events = <<>> /\ visit = "open" /\ loader = [verdict |-> "open", image |-> 0]
  BY DEF Init, None
<1>2. Named("Image") = {}
  BY <1>1 DEF Named, CoreElements, Inner
<1>3. FirstImage = 0
  BY <1>2 DEF FirstImage, None
<1> QED
  BY <1>1, <1>3 DEF Loader

-----------------------------------------------------------------------------
(* The metadata reader's consumer, one operation at a time.                *)

Rec == [at : Nat, depth : Nat, text : Seq(Words), child : BOOLEAN,
        value : Seq(Words \cup {"attr"})]
RecordsRecord ==
  [verdict : {"open", "ok", "error"}, pending : Seq(Rec), properties : Seq(Rec),
   keywords : Nat, images : Seq(Nat)]
Given(tag) == IF "value" \in tag.attrs THEN <<"attr">> ELSE <<>>

(* A reader that has its verdict does nothing; neither do extensions. *)
LEMMA CollectDone ==
  ASSUME NEW m, NEW x, m.verdict # "open" \/ x.kind = "ignored"
  PROVE  Collect(m, x) = m
  BY DEF Collect

(* The record of a Property as it is opened. *)
LEMMA RecordIs ==
  ASSUME NEW x, x.tag \in Tags, x.depth \in Nat, x.at \in Nat
  PROVE  /\ Record(x) \in Rec /\ Record(x).at = x.at /\ Record(x).depth = x.depth
         /\ Record(x).text = <<>> /\ Record(x).child = FALSE
         /\ Record(x).value = Given(x.tag)
<1>1. Given(x.tag) \in Seq(Words \cup {"attr"})
  <2>1. <<>> \in Seq(Words \cup {"attr"}) /\ <<"attr">> \in Seq(Words \cup {"attr"})
    OBVIOUS
  <2> QED
    BY <2>1 DEF Given
<1>2. Record(x) = [at |-> x.at, depth |-> x.depth, text |-> <<>>, child |-> FALSE,
                   value |-> Given(x.tag)]
  BY DEF Record, Given
<1>3. <<>> \in Seq(Words)
  OBVIOUS
<1> QED
  BY <1>1, <1>2, <1>3 DEF Rec

(* What a core element inside does to a pending record. *)
Nested(p, depth) == [p EXCEPT !.child = @ \/ depth > p.depth]

(* The fields of a record with a child. *)
LEMMA NestedIs ==
  ASSUME NEW p \in Rec, NEW depth \in Nat
  PROVE  /\ Nested(p, depth) \in Rec /\ Nested(p, depth).at = p.at
         /\ Nested(p, depth).depth = p.depth /\ Nested(p, depth).text = p.text
         /\ Nested(p, depth).value = p.value
         /\ depth > p.depth => Nested(p, depth).child = TRUE
<1>1. p.child \in BOOLEAN /\ (p.child \/ depth > p.depth) \in BOOLEAN
  BY DEF Rec
<1>2. PICK c \in BOOLEAN : c = (p.child \/ depth > p.depth)
  BY <1>1
<1>3. Nested(p, depth) = [p EXCEPT !.child = c]
  BY <1>2 DEF Nested
<1>4. depth > p.depth => c = TRUE
  BY <1>2
<1> QED
  BY <1>3, <1>4 DEF Rec

(* A core element: a Property is pending alone, every other element makes *)
(* it have a child.                                                       *)
LEMMA CollectElementIs ==
  ASSUME NEW m \in RecordsRecord, m.verdict = "open", Len(m.pending) \in {0, 1},
         NEW x, x.kind = "element", x.tag \in Tags, x.depth \in Nat,
         x.empty \in BOOLEAN, x.at \in Nat
  PROVE  LET u == Collect(m, x)
         IN  /\ u \in RecordsRecord /\ u.verdict \in {"open", "error"}
             /\ Len(u.pending) \in {0, 1}
             /\ u.verdict = "open" =>
                  /\ u.images = IF x.tag.name = "Image" THEN Append(m.images, x.at)
                                ELSE m.images
                  /\ u.properties = IF x.tag.name = "Property" /\ x.empty
                                    THEN Append(m.properties, Record(x))
                                    ELSE m.properties
                  /\ x.tag.name = "Property" => m.pending = <<>>
                  /\ x.tag.name = "Property" /\ x.empty => u.pending = <<>>
                  /\ x.tag.name = "Property" /\ ~x.empty => u.pending = <<Record(x)>>
                  /\ x.tag.name # "Property" =>
                       /\ Len(u.pending) = Len(m.pending)
                       /\ m.pending # <<>> => u.pending[1] = Nested(m.pending[1], x.depth)
<1>1. /\ m.pending \in Seq(Rec) /\ m.properties \in Seq(Rec) /\ m.images \in Seq(Nat)
      /\ m.keywords \in Nat
  BY DEF RecordsRecord
<1>2. Record(x) \in Rec
  BY RecordIs
<1>3. PICK pending : pending = [i \in DOMAIN m.pending |->
                    [m.pending[i] EXCEPT !.child = @ \/ x.depth > m.pending[i].depth]]
  OBVIOUS
<1>4. pending = [i \in 1..Len(m.pending) |-> Nested(m.pending[i], x.depth)]
  BY <1>1, <1>3 DEF Nested
<1>5. \A i \in 1..Len(m.pending) : Nested(m.pending[i], x.depth) \in Rec
  <2>1. \A i \in 1..Len(m.pending) : m.pending[i] \in Rec
    BY <1>1
  <2> QED
    BY <2>1, NestedIs
<1>6. pending \in Seq(Rec) /\ Len(pending) = Len(m.pending)
  BY <1>1, <1>4, <1>5
<1>7. m.pending # <<>> => pending[1] = Nested(m.pending[1], x.depth)
  BY <1>1, <1>4
<1>8. PICK u : u = Collect(m, x)
  OBVIOUS
<1>9. u = CollectElement(m, x)
  BY <1>8 DEF Collect
<1>10. CASE \/ ~(Required(x.tag.name) \subseteq x.tag.attrs)
            \/ x.tag.name = "Property" /\ m.pending # <<>>
  <2>1. u = [m EXCEPT !.verdict = "error"]
    BY <1>9, <1>10 DEF CollectElement
  <2> QED
    BY <1>8, <2>1 DEF RecordsRecord
<1>11. CASE ~(\/ ~(Required(x.tag.name) \subseteq x.tag.attrs)
              \/ x.tag.name = "Property" /\ m.pending # <<>>)
  <2>1. u = CASE x.tag.name = "Property" ->
                  IF x.empty THEN [m EXCEPT !.properties = Append(@, Record(x))]
                  ELSE [m EXCEPT !.pending = <<Record(x)>>]
             [] x.tag.name = "FITSKeyword" ->
                  [m EXCEPT !.keywords = @ + 1, !.pending = pending]
             [] x.tag.name = "Image" ->
                  [m EXCEPT !.images = Append(@, x.at), !.pending = pending]
             [] OTHER -> [m EXCEPT !.pending = pending]
    BY <1>3, <1>9, <1>11, Zenon DEF CollectElement
  <2>2. CASE x.tag.name = "Property"
    <3>1. m.pending = <<>>
      BY <1>11, <2>2
    <3>2. CASE x.empty
      <4>1. u = [m EXCEPT !.properties = Append(m.properties, Record(x))]
        BY <2>1, <2>2, <3>2
      <4>2. Append(m.properties, Record(x)) \in Seq(Rec)
        BY <1>1, <1>2
      <4> QED
        <5>1. PICK s \in Seq(Rec) : s = Append(m.properties, Record(x))
          BY <4>2
        <5>2. u = [m EXCEPT !.properties = s]
          BY <4>1, <5>1
        <5>3. /\ u \in RecordsRecord /\ u.verdict = "open" /\ u.images = m.images
              /\ u.properties = s /\ u.pending = m.pending
          BY <5>2 DEF RecordsRecord
        <5> QED
          BY <1>8, <2>2, <3>1, <3>2, <5>1, <5>3
    <3>3. CASE ~x.empty
      <4>1. u = [m EXCEPT !.pending = <<Record(x)>>]
        BY <2>1, <2>2, <3>3
      <4>2. PICK s : s = <<Record(x)>>
        OBVIOUS
      <4>3. s \in Seq(Rec) /\ Len(s) = 1
        BY <1>2, <4>2
      <4> QED
        BY <1>8, <2>2, <3>1, <3>3, <4>1, <4>2, <4>3 DEF RecordsRecord
    <3> QED
      BY <3>2, <3>3
  <2>3. CASE x.tag.name = "FITSKeyword"
    <3>1. u = [m EXCEPT !.keywords = m.keywords + 1, !.pending = pending]
      BY <2>1, <2>3
    <3>2. PICK keywords \in Nat : keywords = m.keywords + 1
      BY <1>1
    <3>3. u = [m EXCEPT !.keywords = keywords, !.pending = pending]
      BY <3>1, <3>2
    <3>4. /\ u \in RecordsRecord /\ u.verdict = "open" /\ u.images = m.images
          /\ u.properties = m.properties /\ u.pending = pending
      BY <1>6, <3>2, <3>3 DEF RecordsRecord
    <3> QED
      BY <1>6, <1>7, <1>8, <2>3, <3>4
  <2>4. CASE x.tag.name = "Image"
    <3>1. u = [m EXCEPT !.images = Append(m.images, x.at), !.pending = pending]
      BY <2>1, <2>4
    <3>2. Append(m.images, x.at) \in Seq(Nat)
      BY <1>1
    <3>3. /\ u \in RecordsRecord /\ u.verdict = "open" /\ u.images = Append(m.images, x.at)
          /\ u.properties = m.properties /\ u.pending = pending
      BY <1>1, <1>6, <3>1, <3>2 DEF RecordsRecord
    <3> QED
      BY <1>6, <1>7, <1>8, <2>4, <3>3
  <2>5. CASE x.tag.name \notin {"Property", "FITSKeyword", "Image"}
    <3>1. u = [m EXCEPT !.pending = pending]
      BY <2>1, <2>5
    <3> QED
      BY <1>1, <1>6, <1>7, <1>8, <2>5, <3>1 DEF RecordsRecord
  <2> QED
    BY <2>2, <2>3, <2>4, <2>5
<1> QED
  BY <1>10, <1>11

(* Text goes to a pending record only directly inside its element. *)
LEMMA CollectTextIs ==
  ASSUME NEW m \in RecordsRecord, m.verdict = "open", Len(m.pending) \in {0, 1},
         NEW x, x.kind = "text", x.text \in Words, x.depth \in Nat
  PROVE  LET u == Collect(m, x)
             direct == m.pending # <<>> /\ x.depth = m.pending[1].depth + 1
         IN  /\ ~direct => u = m
             /\ direct =>
                  /\ u \in RecordsRecord /\ u.verdict = "open" /\ Len(u.pending) = 1
                  /\ u.images = m.images /\ u.properties = m.properties
                  /\ u.pending[1] = Written(m.pending[1], x.text)
<1>1. Collect(m, x) = CollectText(m, x)
  BY DEF Collect
<1>2. CASE ~(m.pending # <<>> /\ x.depth = m.pending[1].depth + 1)
  BY <1>1, <1>2 DEF CollectText
<1>3. CASE m.pending # <<>> /\ x.depth = m.pending[1].depth + 1
  <2>1. m.pending \in Seq(Rec) /\ Len(m.pending) = 1
    BY <1>3 DEF RecordsRecord
  <2>2. m.pending[1] \in Rec
    BY <2>1
  <2>3. PICK p : p = m.pending[1]
    OBVIOUS
  <2>4. PICK q : q = Written(p, x.text)
    OBVIOUS
  <2>5. Append(p.text, x.text) \in Seq(Words)
    BY <2>2, <2>3 DEF Rec
  <2>6. q \in Rec
    BY <2>2, <2>3, <2>4, <2>5 DEF Rec, Written
  <2>7. PICK pending : pending = [m.pending EXCEPT ![1] = q]
    OBVIOUS
  <2>8. pending \in Seq(Rec) /\ Len(pending) = 1 /\ pending[1] = q
    BY <2>1, <2>6, <2>7
  <2>9. Collect(m, x) = [m EXCEPT !.pending = pending]
    BY <1>1, <1>3, <2>3, <2>4, <2>7 DEF CollectText, Written
  <2> QED
    BY <1>3, <2>3, <2>4, <2>8, <2>9 DEF RecordsRecord
<1> QED
  BY <1>2, <1>3

(* The value of a record that is closed. *)
ValueOf(p) ==
  IF /\ p.value = <<>> /\ p.text # <<>>
     /\ ~p.child \/ Significant(p.text)
  THEN p.text ELSE p.value

(* The end of a pending Property gives its record a value. *)
LEMMA CollectEndIs ==
  ASSUME NEW m \in RecordsRecord, m.verdict = "open", Len(m.pending) \in {0, 1},
         NEW x, x.kind = "end"
  PROVE  LET u == Collect(m, x)
             closes == x.name = "Property" /\ m.pending # <<>> /\ m.pending[1].depth = x.depth
             p == m.pending[1]
         IN  /\ ~closes => u = m
             /\ closes =>
                  /\ u \in RecordsRecord /\ u.images = m.images
                  /\ Len(u.pending) \in {0, 1} /\ u.verdict \in {"open", "error"}
                  /\ u.verdict = "open" =>
                       /\ u.pending = <<>>
                       /\ ~(p.value # <<>> /\ Significant(p.text))
                       /\ \E q \in Rec : /\ q.at = p.at /\ q.value = ValueOf(p)
                                         /\ u.properties = Append(m.properties, q)
<1>1. Collect(m, x) = CollectEnd(m, x)
  BY DEF Collect
<1>2. CASE ~(x.name = "Property" /\ m.pending # <<>> /\ m.pending[1].depth = x.depth)
  BY <1>1, <1>2 DEF CollectEnd
<1>3. CASE x.name = "Property" /\ m.pending # <<>> /\ m.pending[1].depth = x.depth
  <2>1. m.pending \in Seq(Rec) /\ Len(m.pending) = 1 /\ m.properties \in Seq(Rec)
    BY <1>3 DEF RecordsRecord
  <2>2. PICK p : p = m.pending[1]
    OBVIOUS
  <2>3. p \in Rec
    BY <2>1, <2>2
  <2>4. PICK v : v = ValueOf(p)
    OBVIOUS
  <2>5. v \in Seq(Words \cup {"attr"})
    <3>1. p.text \in Seq(Words) /\ p.value \in Seq(Words \cup {"attr"})
      BY <2>3 DEF Rec
    <3>2. p.text \in Seq(Words \cup {"attr"})
      BY <3>1
    <3>3. v = p.text \/ v = p.value
      BY <2>4 DEF ValueOf
    <3> QED
      BY <3>1, <3>2, <3>3
  <2>6. PICK q : q = [p EXCEPT !.value = v]
    OBVIOUS
  <2>7. q \in Rec /\ q.at = p.at /\ q.value = v
    BY <2>3, <2>5, <2>6 DEF Rec
  <2>8. CASE p.value # <<>> /\ Significant(p.text)
    <3>1. Collect(m, x) = [m EXCEPT !.verdict = "error"]
      BY <1>1, <1>3, <2>2, <2>8 DEF CollectEnd
    <3> QED
      BY <1>3, <2>1, <3>1 DEF RecordsRecord
  <2>9. CASE ~(p.value # <<>> /\ Significant(p.text))
    <3>1. Collect(m, x) = [m EXCEPT !.pending = <<>>, !.properties = Append(@, q)]
      BY <1>1, <1>3, <2>2, <2>4, <2>6, <2>9 DEF CollectEnd, ValueOf
    <3>2. <<>> \in Seq(Rec) /\ Append(m.properties, q) \in Seq(Rec) /\ Len(<<>>) = 0
      BY <2>1, <2>7
    <3>3. /\ Collect(m, x) \in RecordsRecord /\ Collect(m, x).images = m.images
          /\ Collect(m, x).pending = <<>> /\ Collect(m, x).verdict = "open"
          /\ Collect(m, x).properties = Append(m.properties, q)
      BY <3>1, <3>2 DEF RecordsRecord
    <3> QED
      BY <1>3, <2>2, <2>4, <2>7, <2>9, <3>2, <3>3
  <2> QED
    BY <2>8, <2>9
<1> QED
  BY <1>2, <1>3

-----------------------------------------------------------------------------
(* The records of the metadata reader are those of the document.           *)

(* A record of an open Property: what has been read inside it so far. *)
Pends(p) ==
  /\ p.depth = Depth(p.at) /\ p.text = TextOf(p.at)
  /\ p.child <=> Children(p.at) # {}
  /\ p.value = Given(events[p.at].tag)

RecordsAre(next) ==
  /\ ToSet(records.images) = Named("Image")
  /\ \A k \in 1..Len(records.properties) :
       /\ records.properties[k].at \in Named("Property") \ Around(next)
       /\ records.properties[k].value = Value(records.properties[k].at)
  /\ \A i \in Named("Property") \ Around(next) :
       \E k \in 1..Len(records.properties) : records.properties[k].at = i
  /\ records.pending = <<>> => Named("Property") \cap Around(next) = {}
  /\ records.pending # <<>> =>
       /\ Named("Property") \cap Around(next) = {records.pending[1].at}
       /\ Pends(records.pending[1])

Records ==
  /\ records \in RecordsRecord /\ Len(records.pending) \in {0, 1}
  /\ visit = "open" => records.verdict # "ok"
  /\ Standing /\ records.verdict \in {"open", "ok"} => RecordsAre(Next1)

(* The value of a Property, from what was read inside it. *)
LEMMA ValueIs ==
  ASSUME NEW p \in Rec, Pends(p)
  PROVE  ValueOf(p) = Value(p.at)
<1>1. PICK i : i = p.at
  OBVIOUS
<1>2. /\ p.text = TextOf(i) /\ (p.child <=> Children(i) # {})
      /\ p.value = IF "value" \in events[i].tag.attrs THEN <<"attr">> ELSE <<>>
  BY <1>1 DEF Pends, Given
<1>3. CASE "value" \in events[i].tag.attrs
  <2>1. <<"attr">> # <<>>
    OBVIOUS
  <2> QED
    BY <1>1, <1>2, <1>3, <2>1 DEF ValueOf, Value
<1>4. CASE "value" \notin events[i].tag.attrs
  <2>1. p.value = <<>>
    BY <1>2, <1>4
  <2>2. CASE p.child
    <3>1. Children(i) # {}
      BY <1>2, <2>2
    <3> QED
      BY <1>1, <1>2, <1>4, <2>1, <2>2, <3>1 DEF ValueOf, Value
  <2>3. CASE ~p.child
    <3>1. Children(i) = {}
      BY <1>2, <2>3
    <3> QED
      BY <1>1, <1>2, <1>4, <2>1, <2>3, <3>1 DEF ValueOf, Value
  <2> QED
    BY <2>2, <2>3
<1> QED
  BY <1>3, <1>4

(* An event inside another element, or that is nothing of the core, changes *)
(* nothing of what an element says.                                         *)
LEMMA ValueKept ==
  ASSUME NEW n, NEW e, OneMore(n, e), NEW i \in CoreElements,
         \/ Parent(n + 1)' # i
         \/ ~Core(n)' /\ (Foreign(n + 1)' \/ e.kind \notin {"text", "cdata"})
  PROVE  /\ Value(i)' = Value(i) /\ TextOf(i)' = TextOf(i)
         /\ Children(i)' = Children(i) /\ events'[i] = events[i] /\ Depth(i)' = Depth(i)
<1>1. TextOf(i)' = TextOf(i)
  BY TextGrows
<1>2. Children(i)' = Children(i)
  BY ListedGrow
<1>3. events'[i] = events[i] /\ i \in 1..n
  BY NodesKept
<1>4. Depth(i)' = Depth(i)
  <2>1. i \in 1..(n + 1)
    BY <1>3, Longer
  <2> QED
    BY <2>1, DepthKept
<1> QED
  BY <1>1, <1>2, <1>3, <1>4 DEF Value

(* So a pending record stays as it should be. *)
LEMMA PendsKept ==
  ASSUME NEW p, NEW i, i = p.at, Pends(p), TextOf(i)' = TextOf(i),
         Children(i)' = Children(i), events'[i] = events[i], Depth(i)' = Depth(i)
  PROVE  Pends(p)'
  BY DEF Pends

(* An event that is nothing of the core and closes no Property. *)
LEMMA RecordsStay ==
  ASSUME Visitor, Standing, NEW n, NEW e, OneMore(n, e), RecordsAre(n + 1), ~Core(n)',
         Foreign(n + 1)' \/ e.kind \notin {"text", "cdata"} \/ stack = <<>>,
         Named("Property") \cap Around(n + 2)' = Named("Property") \cap Around(n + 1),
         records'.images = records.images, records'.properties = records.properties,
         records'.pending = records.pending
  PROVE  RecordsAre(n + 2)'
<1>1. \A x : Named(x)' = Named(x)
  BY NamedNext
<1>2. ASSUME NEW i \in CoreElements
      PROVE  /\ Value(i)' = Value(i) /\ TextOf(i)' = TextOf(i)
             /\ Children(i)' = Children(i) /\ events'[i] = events[i] /\ Depth(i)' = Depth(i)
  <2>1. stack = <<>> => Parent(n + 1)' # i
    <3>1. stack = <<>> => Parent(n + 1)' = None
      <4>1. n = Len(events)
        BY DEF OneMore
      <4> QED
        BY <4>1, Following, Position
    <3>2. i # None
      <4>1. i \in 1..n
        BY NodesKept
      <4> QED
        BY <4>1 DEF None
    <3> QED
      BY <3>1, <3>2
  <2> QED
    BY <2>1, ValueKept
<1>3. \A x : Named(x) \subseteq CoreElements
  BY DEF Named
<1>4. Named("Property") \ Around(n + 2)' = Named("Property") \ Around(n + 1)
  OBVIOUS
<1>5. \A k \in 1..Len(records.properties) :
        /\ records.properties[k].at \in Named("Property") \ Around(n + 1)
        /\ records.properties[k].value = Value(records.properties[k].at)
        /\ records.properties[k].value = Value(records.properties[k].at)'
  BY <1>2, <1>3 DEF RecordsAre
<1>6. records.pending # <<>> => Pends(records.pending[1])'
  <2> SUFFICES ASSUME records.pending # <<>> PROVE Pends(records.pending[1])'
    OBVIOUS
  <2>1. PICK p : p = records.pending[1]
    OBVIOUS
  <2>2. PICK i : i = p.at
    OBVIOUS
  <2>3. i \in CoreElements /\ Pends(p)
    BY <1>3, <2>1, <2>2 DEF RecordsAre
  <2>4. Pends(p)'
    BY <1>2, <2>2, <2>3, PendsKept
  <2>5. p = records'.pending[1]
    BY <2>1
  <2> QED
    BY <2>1, <2>4
<1>7. /\ ToSet(records.images) = Named("Image")
      /\ \A i \in Named("Property") \ Around(n + 1) :
           \E k \in 1..Len(records.properties) : records.properties[k].at = i
      /\ records.pending = <<>> => Named("Property") \cap Around(n + 1) = {}
      /\ records.pending # <<>> =>
           Named("Property") \cap Around(n + 1) = {records.pending[1].at}
  BY DEF RecordsAre
<1> QED
  BY <1>1, <1>4, <1>5, <1>6, <1>7 DEF RecordsAre

(* A core element inside another makes that one have a child. *)
LEMMA ChildInside ==
  ASSUME Visitor, Standing, NEW n, NEW e, OneMore(n, e), ~InExtension, Core(n)',
         NEW i \in Around(n + 1)
  PROVE  Children(i)' # {}
<1>1. n \in Nat /\ n = Len(events) /\ Around(n + 1) \subseteq 1..n
  BY Position DEF OneMore
<1>2. stack # <<>>
  BY <1>1, Position
<1>3. PICK ids : IsPath(ids, Next1)
  BY DEF Visitor
<1>4. IsPath(ids, n + 1) /\ n + 1 \in Nat \ {0}
  BY <1>1, <1>3 DEF Next1
<1>5. /\ Len(ids) \in Nat /\ Around(n + 1) = {ids[k] : k \in 1..Len(ids)}
      /\ \A k \in 1..Len(ids) : Around(ids[k]) = {ids[m] : m \in 1..(k - 1)}
      /\ \A k \in 1..Len(ids) : Depth(ids[k]) = k - 1
  <2>1. /\ ids \in Seq(Nat) /\ Around(n + 1) = {ids[k] : k \in 1..Len(ids)}
        /\ \A k \in 1..Len(ids) :
             /\ Nests(ids[k]) /\ Depth(ids[k]) = k - 1
             /\ Around(ids[k]) = {ids[m] : m \in 1..(k - 1)}
    BY <1>4 DEF IsPath
  <2>2. Len(ids) \in Nat
    BY <2>1
  <2> QED
    BY <2>1, <2>2
<1>6. /\ \A k \in 1..Len(ids) : ids[k] \in 1..n
      /\ \A k, l \in 1..Len(ids) : k < l => ids[k] < ids[l]
  BY <1>1, <1>4, PathIsBefore
<1>7. PICK k \in 1..Len(ids) : i = ids[k]
  BY <1>5
<1>8. PICK p : p = Parent(n + 1)
  OBVIOUS
<1>9. p \in Around(n + 1) /\ Parent(n + 1)' = p /\ Depth(p) = Len(stack) - 1
  BY <1>1, <1>2, <1>8, Position, Following
<1>10. Len(ids) = Len(stack)
  BY <1>1, <1>4, Position DEF IsPath
<1>11. CASE p = i
  <2>1. n + 1 \in Children(i)'
    BY <1>9, <1>11, ListedGrow
  <2> QED
    BY <2>1
<1>12. CASE p # i
  <2>1. k + 1 \in 1..Len(ids)
    <3>1. PICK l \in 1..Len(ids) : p = ids[l]
      BY <1>5, <1>9
    <3>2. l = Len(ids)
      BY <1>5, <1>9, <1>10, <3>1
    <3>3. k # Len(ids)
      BY <1>7, <1>12, <3>1, <3>2
    <3> QED
      BY <1>5, <1>7, <3>3
  <2>2. PICK c : c = ids[k + 1]
    OBVIOUS
  <2>3. c \in Around(n + 1) /\ c \in 1..n
    BY <1>5, <1>6, <2>1, <2>2
  <2>4. c \in CoreElements
    <3>1. Depth(c) < CoreOpen
      <4>1. Depth(c) \in 0..(Len(stack) - 1) /\ Len(stack) \in Nat
        BY <1>1, <2>3, Position
      <4>2. CoreOpen = Len(stack)
        BY DEF CoreOpen
      <4> QED
        BY <4>1, <4>2
    <3> QED
      BY <1>1, <2>3, <3>1, CoreAround
  <2>5. Parent(c) = i
    <3>1. PICK S : S = Around(c)
      OBVIOUS
    <3>2. S = {ids[m] : m \in 1..k}
      <4>1. (k + 1) - 1 = k
        OBVIOUS
      <4> QED
        BY <1>5, <2>1, <2>2, <3>1, <4>1
    <3>3. i \in S /\ \A y \in S : i >= y
      <4>1. k \in 1..k
        BY <1>5
      <4>2. i \in S
        BY <1>7, <3>2, <4>1
      <4>3. \A m \in 1..k : ids[k] >= ids[m]
        <5> SUFFICES ASSUME NEW m \in 1..k PROVE ids[k] >= ids[m]
          OBVIOUS
        <5>1. m \in 1..Len(ids) /\ k \in 1..Len(ids) /\ ids[k] \in Nat /\ ids[m] \in Nat
          BY <1>5, <1>6
        <5>2. m < k => ids[m] < ids[k]
          BY <1>6, <5>1
        <5> QED
          BY <5>1, <5>2
      <4> QED
        BY <1>7, <3>2, <4>2, <4>3
    <3>4. \A y \in S : y \in Nat
      <4>1. \A m \in 1..k : m \in 1..Len(ids)
        BY <1>5
      <4> QED
        BY <1>6, <3>2, <4>1
    <3>5. Max(S) = i
      <4>1. \A x \in S : (\A y \in S : x >= y) => x = i
        BY <3>3, <3>4
      <4> QED
        BY <3>3, <4>1 DEF Max
    <3> QED
      BY <3>1, <3>3, <3>5 DEF Parent
  <2>6. c \in Children(i)
    BY <2>4, <2>5 DEF Children
  <2>7. c \in Children(i)'
    BY <2>6, ListedGrow
  <2> QED
    BY <2>7
<1> QED
  BY <1>11, <1>12

(* Where a new element starts. *)
LEMMA StartsEmpty ==
  ASSUME Visitor, Standing, NEW n, NEW e, OneMore(n, e), e.kind \in {"start", "empty"}
  PROVE  TextOf(n + 1)' = <<>> /\ Children(n + 1)' = {}
<1>1. n \in Nat /\ n = Len(events) /\ events \in Seq(Event)
  BY Longer DEF OneMore
<1>2. TextOf(n + 1) = <<>>
  BY <1>1, NothingYet
<1>3. Children(n + 1) = {}
  <2>1. \A j \in Nat \ {0} : Parent(j) \in 0..(j - 1)
    BY ParentIsBefore
  <2>2. \A j \in Children(n + 1) : j \in 1..n /\ Parent(j) = n + 1
    BY ListedGrow DEF Children
  <2>3. ASSUME NEW j \in Children(n + 1) PROVE FALSE
    <3>1. j \in 1..n /\ Parent(j) = n + 1 /\ Parent(j) \in 0..(j - 1)
      BY <1>1, <2>1, <2>2
    <3> QED
      BY <1>1, <3>1
  <2> QED
    BY <2>3
<1>4. Parent(n + 1)' # n + 1
  <2>1. Parent(n + 1)' = Parent(n + 1)
    BY Following
  <2>2. Parent(n + 1) \in 0..n
    <3>1. n + 1 \in Nat \ {0} /\ (n + 1) - 1 = n
      BY <1>1
    <3> QED
      BY <3>1, ParentIsBefore
  <2> QED
    BY <1>1, <2>1, <2>2
<1>5. TextOf(n + 1)' = TextOf(n + 1)
  BY <1>4, TextGrows
<1>6. Children(n + 1)' = Children(n + 1)
  BY <1>4, ListedGrow
<1> QED
  BY <1>2, <1>3, <1>5, <1>6

(* A core element that is no Property. *)
LEMMA RecordsElement ==
  ASSUME Visitor, Standing, NEW n, NEW e, OneMore(n, e), RecordsAre(n + 1), Core(n)',
         e.kind \in {"start", "empty"}, ~InExtension, e.tag.name # "Property",
         records \in RecordsRecord, Len(records.pending) \in {0, 1},
         records'.images = IF e.tag.name = "Image" THEN Append(records.images, n + 1)
                           ELSE records.images,
         records'.properties = records.properties,
         records' \in RecordsRecord, Len(records'.pending) = Len(records.pending),
         records.pending # <<>> =>
           records'.pending[1] = Nested(records.pending[1], Len(stack))
  PROVE  RecordsAre(n + 2)'
<1>1. n \in Nat /\ n = Len(events) /\ Around(n + 1) \subseteq 1..n
  BY Position DEF OneMore
<1>2. Around(n + 2)' \subseteq Around(n + 1) \cup {n + 1} /\ Around(n + 1) \subseteq Around(n + 2)'
  <2>1. CASE e.kind = "start"
    BY <2>1, Following
  <2>2. CASE e.kind = "empty"
    BY <2>2, Following
  <2> QED
    BY <2>1, <2>2
<1>3. /\ Named("Property")' = Named("Property") /\ Named("Property") \subseteq 1..n
      /\ Named("Image")' = IF e.tag.name = "Image" THEN Named("Image") \cup {n + 1}
                           ELSE Named("Image")
  BY NamedNext
<1>4. n + 1 \notin 1..n
  BY <1>1
<1>5. /\ Named("Property") \ Around(n + 2)' = Named("Property") \ Around(n + 1)
      /\ Named("Property") \cap Around(n + 2)' = Named("Property") \cap Around(n + 1)
  BY <1>2, <1>3, <1>4
<1>6. Named("Property") \subseteq CoreElements
  BY DEF Named
<1>7. Parent(n + 1)' \in Around(n + 1) \cup {0}
  <2>1. Parent(n + 1)' = Parent(n + 1)
    BY Following
  <2> QED
    BY <1>1, <2>1, Position DEF None
<1>8. ASSUME NEW i \in Named("Property") \ Around(n + 1) PROVE Value(i)' = Value(i)
  <2>1. Parent(n + 1)' # i
    BY <1>3, <1>7, <1>8
  <2> QED
    BY <1>6, <2>1, ValueKept
<1>9. /\ \A k \in 1..Len(records.properties) :
           /\ records.properties[k].at \in Named("Property") \ Around(n + 1)
           /\ records.properties[k].value = Value(records.properties[k].at)'
      /\ \A i \in Named("Property") \ Around(n + 1) :
           \E k \in 1..Len(records.properties) : records.properties[k].at = i
  BY <1>8 DEF RecordsAre
<1>10. ToSet(records'.images) = Named("Image")'
  <2>1. ToSet(records.images) = Named("Image") /\ records.images \in Seq(Nat)
    BY DEF RecordsAre, RecordsRecord
  <2>2. ToSet(Append(records.images, n + 1)) = ToSet(records.images) \cup {n + 1}
    <3>1. PICK s : s = records.images
      OBVIOUS
    <3>2. s \in Seq(Nat) /\ n + 1 \in Nat
      BY <1>1, <2>1, <3>1
    <3>3. PICK t : t = Append(s, n + 1)
      OBVIOUS
    <3>4. /\ DOMAIN s = 1..Len(s) /\ DOMAIN t = 1..(Len(s) + 1) /\ Len(s) \in Nat
          /\ t[Len(s) + 1] = n + 1 /\ \A k \in 1..Len(s) : t[k] = s[k]
      BY <3>2, <3>3, AppendProperties
    <3> QED
      BY <3>1, <3>3, <3>4 DEF ToSet
  <2> QED
    BY <1>3, <2>1, <2>2
<1>11. /\ records.pending \in Seq(Rec) /\ records'.pending \in Seq(Rec)
       /\ (records'.pending = <<>> <=> records.pending = <<>>)
  <2>1. records.pending \in Seq(Rec) /\ records'.pending \in Seq(Rec)
    BY DEF RecordsRecord
  <2> QED
    BY <2>1
<1>12. PICK q : q = records'.pending[1]
  OBVIOUS
<1>14. ASSUME records.pending # <<>>
       PROVE  q.at = records.pending[1].at /\ Pends(q)'
  <2>1. PICK p : p = records.pending[1]
    OBVIOUS
  <2>3. p \in Rec /\ Len(stack) \in Nat
    <3>1. Len(records.pending) >= 1
      BY <1>11, <1>14
    <3>2. Len(stack) \in Nat
      BY <1>1, Position
    <3> QED
      BY <1>11, <2>1, <3>1, <3>2
  <2>4. q = Nested(p, Len(stack))
    BY <1>12, <1>14, <2>1
  <2>5. PICK i : i = p.at
    OBVIOUS
  <2>6. i \in Named("Property") \cap Around(n + 1) /\ Pends(p)
    BY <1>14, <2>1, <2>5 DEF RecordsAre
  <2>7. p.depth = Depth(i) /\ p.text = TextOf(i) /\ p.value = Given(events[i].tag)
    BY <2>5, <2>6 DEF Pends
  <2>8. Len(stack) > p.depth
    <3>1. Depth(i) \in 0..(Len(stack) - 1)
      BY <1>1, <2>6, Position
    <3> QED
      BY <2>3, <2>7, <3>1
  <2>9. q.at = i /\ q.depth = p.depth /\ q.text = p.text /\ q.value = p.value /\ q.child = TRUE
    BY <2>3, <2>4, <2>5, <2>8, NestedIs
  <2>10. Children(i)' # {}
    BY <2>6, ChildInside
  <2>11. TextOf(i)' = TextOf(i)
    BY TextGrows
  <2>12. events'[i] = events[i] /\ Depth(i)' = Depth(i)
    <3>1. i \in 1..n /\ i \in 1..(n + 1)
      BY <1>1, <2>6
    <3> QED
      BY <3>1, DepthKept, Longer
  <2>13. Pends(q)'
    BY <2>7, <2>9, <2>10, <2>11, <2>12 DEF Pends
  <2> QED
    BY <2>1, <2>5, <2>9, <2>13
<1>13. /\ records.pending = <<>> => Named("Property") \cap Around(n + 1) = {}
       /\ records.pending # <<>> =>
            Named("Property") \cap Around(n + 1) = {records.pending[1].at}
  BY DEF RecordsAre
<1>15. ASSUME records'.pending # <<>> PROVE Pends(records.pending[1])'
  <2>1. Pends(q)'
    BY <1>11, <1>14, <1>15
  <2> QED
    BY <1>12, <2>1
<1> QED
  BY <1>3, <1>5, <1>9, <1>10, <1>11, <1>12, <1>13, <1>14, <1>15 DEF RecordsAre

(* A sequence with one more element. *)
LEMMA OneAppended ==
  ASSUME NEW S, NEW s \in Seq(S), NEW x \in S, NEW t, t = Append(s, x)
  PROVE  /\ Len(s) \in Nat /\ Len(t) = Len(s) + 1 /\ 1..Len(t) = 1..Len(s) \cup {Len(t)}
         /\ t[Len(t)] = x /\ \A k \in 1..Len(s) : t[k] = s[k] /\ k # Len(t)
  BY AppendProperties

(* A Property. *)
LEMMA RecordsProperty ==
  ASSUME Visitor, Standing, NEW n, NEW e, OneMore(n, e), RecordsAre(n + 1), Core(n)',
         e.kind \in {"start", "empty"}, ~InExtension, e.tag.name = "Property",
         records \in RecordsRecord, records.pending = <<>>,
         records'.images = records.images,
         NEW r \in Rec, r.at = n + 1, r.depth = Len(stack), r.text = <<>>, r.child = FALSE,
         r.value = Given(e.tag),
         records'.properties = IF e.kind = "empty" THEN Append(records.properties, r)
                               ELSE records.properties,
         records'.pending = IF e.kind = "empty" THEN <<>> ELSE <<r>>
  PROVE  RecordsAre(n + 2)'
<1>1. n \in Nat /\ n = Len(events) /\ Around(n + 1) \subseteq 1..n
  BY Position DEF OneMore
<1>2. PICK N : N = Named("Property")
  OBVIOUS
<1>3. PICK A : A = Around(n + 1)
  OBVIOUS
<1>4. /\ N \subseteq 1..n /\ Named("Property")' = N \cup {n + 1}
      /\ Named("Image")' = Named("Image")
  BY <1>2, NamedNext
<1>5. /\ N \cap A = {} /\ ToSet(records.images) = Named("Image")
      /\ \A k \in 1..Len(records.properties) :
           /\ records.properties[k].at \in N
           /\ records.properties[k].value = Value(records.properties[k].at)
      /\ \A i \in N : \E k \in 1..Len(records.properties) : records.properties[k].at = i
  BY <1>2, <1>3 DEF RecordsAre
<1>6. Parent(n + 1)' \in A \cup {0}
  <2>1. Parent(n + 1)' = Parent(n + 1)
    BY Following
  <2>2. CASE stack = <<>>
    <3>1. Parent(n + 1) = 0
      BY <1>1, <2>2, Position DEF None
    <3> QED
      BY <2>1, <3>1
  <2>3. CASE stack # <<>>
    <3>1. Parent(n + 1) \in A
      BY <1>1, <1>3, <2>3, Position
    <3> QED
      BY <2>1, <3>1
  <2> QED
    BY <2>2, <2>3
<1>7. ASSUME NEW i \in N PROVE Value(i)' = Value(i)
  <2>1. Parent(n + 1)' # i /\ i \in CoreElements
    BY <1>2, <1>4, <1>5, <1>6 DEF Named
  <2> QED
    BY <2>1, ValueKept
<1>8. TextOf(n + 1)' = <<>> /\ Children(n + 1)' = {}
  BY StartsEmpty
<1>9. PICK here : here = n + 1
  OBVIOUS
<1>10. TextOf(here)' = <<>> /\ Children(here)' = {} /\ events'[here] = e
  BY <1>8, <1>9, Longer
<1>11. PICK old : old = records.properties
  OBVIOUS
<1>12. old \in Seq(Rec)
  BY <1>11 DEF RecordsRecord
<1>13. here \notin N /\ here \notin A
  BY <1>1, <1>3, <1>4, <1>9
<1>14. \A k \in 1..Len(old) : old[k].at \in N /\ old[k].value = Value(old[k].at)'
  BY <1>5, <1>7, <1>11
<1>15. CASE e.kind = "empty"
  <2>1. Around(n + 2)' = A
    BY <1>3, <1>15, Following
  <2>2. PICK new : new = Append(old, r)
    OBVIOUS
  <2>3. records'.properties = new /\ records'.pending = <<>>
    BY <1>11, <1>15, <2>2
  <2>4. /\ 1..Len(new) = 1..Len(old) \cup {Len(new)}
        /\ new[Len(new)] = r /\ \A k \in 1..Len(old) : new[k] = old[k]
    BY <1>12, <2>2, OneAppended
  <2>5. Value(here)' = r.value
    <3>1. ~("value" \in e.tag.attrs) => r.value = <<>>
      BY DEF Given
    <3>2. "value" \in e.tag.attrs => r.value = <<"attr">>
      BY DEF Given
    <3>3. Value(here)' = IF "value" \in e.tag.attrs THEN <<"attr">> ELSE <<>>
      BY <1>10 DEF Value
    <3> QED
      BY <3>1, <3>2, <3>3
  <2>6. \A k \in 1..Len(new) :
          new[k].at \in (N \cup {here}) \ A /\ new[k].value = Value(new[k].at)'
    <3>1. \A k \in 1..Len(old) :
            new[k].at \in (N \cup {here}) \ A /\ new[k].value = Value(new[k].at)'
      BY <1>5, <1>14, <2>4
    <3>2. r.at \in (N \cup {here}) \ A /\ r.value = Value(r.at)'
      BY <1>9, <1>13, <2>5
    <3> QED
      BY <2>4, <3>1, <3>2
  <2>7. \A i \in (N \cup {here}) \ A : \E k \in 1..Len(new) : new[k].at = i
    <3>1. \A i \in N : \E k \in 1..Len(old) : new[k].at = i
      BY <1>5, <1>11, <2>4
    <3>2. new[Len(new)].at = here
      BY <1>9, <2>4
    <3> QED
      BY <2>4, <3>1, <3>2
  <2>8. (N \cup {here}) \cap A = {}
    BY <1>5, <1>13
  <2> QED
    BY <1>4, <1>5, <1>9, <2>1, <2>3, <2>6, <2>7, <2>8 DEF RecordsAre
<1>16. CASE e.kind = "start"
  <2>1. Around(n + 2)' = A \cup {here}
    BY <1>3, <1>9, <1>16, Following
  <2>2. records'.properties = old /\ records'.pending = <<r>>
    BY <1>11, <1>16
  <2>3. Depth(here)' = Len(stack)
    BY <1>1, <1>9, Following, Position
  <2>4. Pends(r)'
    BY <1>9, <1>10, <2>3 DEF Pends
  <2>5. (N \cup {here}) \ (A \cup {here}) = N /\ (N \cup {here}) \cap (A \cup {here}) = {here}
    BY <1>5, <1>13
  <2>6. <<r>> # <<>> /\ <<r>>[1] = r
    OBVIOUS
  <2>7. records'.pending # <<>> /\ records'.pending[1] = r
    BY <2>2, <2>6
  <2>8. Pends(records.pending[1])'
    BY <2>4, <2>7
  <2>9. \A i \in N : \E k \in 1..Len(old) : old[k].at = i
    BY <1>5, <1>11
  <2>10. /\ \A k \in 1..Len(old) :
              /\ old[k].at \in Named("Property")' \ Around(n + 2)'
              /\ old[k].value = Value(old[k].at)'
         /\ \A i \in Named("Property")' \ Around(n + 2)' :
              \E k \in 1..Len(old) : old[k].at = i
         /\ Named("Property")' \cap Around(n + 2)' = {r.at}
    BY <1>4, <1>9, <1>14, <2>1, <2>5, <2>9
  <2>11. ToSet(records'.images) = Named("Image")'
    BY <1>4, <1>5
  <2> QED
    BY <2>2, <2>7, <2>8, <2>10, <2>11 DEF RecordsAre
<1> QED
  BY <1>15, <1>16

(* Text in a core element. *)
LEMMA RecordsText ==
  ASSUME Visitor, Standing, NEW n, NEW e, OneMore(n, e), RecordsAre(n + 1),
         e.kind \in {"text", "cdata"}, stack # <<>>, ~InExtension,
         records \in RecordsRecord, Len(records.pending) \in {0, 1},
         NEW direct \in BOOLEAN,
         direct <=> records.pending # <<>> /\ Len(stack) = records.pending[1].depth + 1,
         ~direct => records' = records,
         direct =>
           /\ Len(records'.pending) = 1
           /\ records'.images = records.images /\ records'.properties = records.properties
           /\ records'.pending[1] = Written(records.pending[1], e.text)
  PROVE  RecordsAre(n + 2)'
<1>1. n \in Nat /\ n = Len(events) /\ Around(n + 1) \subseteq 1..n
  BY Position DEF OneMore
<1>2. PICK N : N = Named("Property")
  OBVIOUS
<1>3. PICK A : A = Around(n + 1)
  OBVIOUS
<1>4. ~Core(n)' /\ ~Foreign(n + 1)'
  <2>1. events'[n + 1] = e
    BY Longer
  <2>2. ~Opens(n + 1)'
    BY <2>1 DEF Opens
  <2>3. ~Foreign(n + 1)'
    BY ForeignNext
  <2> QED
    BY <2>2, <2>3 DEF Core
<1>5. N \subseteq 1..n /\ Named("Property")' = N /\ Named("Image")' = Named("Image")
  BY <1>2, <1>4, NamedNext
<1>6. PICK p : p = Parent(n + 1)
  OBVIOUS
<1>7. p \in A /\ Parent(n + 1)' = p /\ Depth(p) = Len(stack) - 1 /\ Len(stack) \in Nat
  BY <1>1, <1>3, <1>6, Position, Following
<1>8. Around(n + 2)' = A
  BY <1>3, Following
<1>9. ASSUME NEW i \in N, i # p
      PROVE  /\ Value(i)' = Value(i) /\ TextOf(i)' = TextOf(i)
             /\ Children(i)' = Children(i) /\ events'[i] = events[i] /\ Depth(i)' = Depth(i)
  <2>1. i \in CoreElements /\ Parent(n + 1)' # i
    BY <1>2, <1>7, <1>9 DEF Named
  <2> QED
    BY <2>1, ValueKept
<1>10. /\ ToSet(records.images) = Named("Image")
       /\ \A k \in 1..Len(records.properties) :
            /\ records.properties[k].at \in N \ A
            /\ records.properties[k].value = Value(records.properties[k].at)
       /\ \A i \in N \ A : \E k \in 1..Len(records.properties) : records.properties[k].at = i
       /\ records.pending = <<>> => N \cap A = {}
       /\ records.pending # <<>> =>
            N \cap A = {records.pending[1].at} /\ Pends(records.pending[1])
  BY <1>2, <1>3 DEF RecordsAre
<1>11. \A k \in 1..Len(records.properties) :
         records.properties[k].value = Value(records.properties[k].at)'
  BY <1>7, <1>9, <1>10
<1>12. records'.images = records.images /\ records'.properties = records.properties
  OBVIOUS
<1>13. records.pending \in Seq(Rec)
  BY DEF RecordsRecord
<1>14. PICK q : q = records.pending[1]
  OBVIOUS
<1>15. records.pending # <<>> =>
         /\ q \in Rec /\ q.at \in N \cap A /\ Pends(q) /\ q.depth = Depth(q.at)
         /\ q.depth \in Nat
  <2> SUFFICES ASSUME records.pending # <<>>
      PROVE  /\ q \in Rec /\ q.at \in N \cap A /\ Pends(q) /\ q.depth = Depth(q.at)
             /\ q.depth \in Nat
    OBVIOUS
  <2>1. 1 \in 1..Len(records.pending)
    BY <1>13
  <2>2. q \in Rec
    BY <1>13, <1>14, <2>1
  <2>3. q.at \in N \cap A /\ Pends(q)
    BY <1>10, <1>14
  <2> QED
    BY <2>2, <2>3 DEF Pends, Rec
<1>16. \A j \in A : Depth(j) = Depth(p) => j = p
  BY <1>1, <1>3, <1>7, Position
<1>17. records.pending # <<>> => (direct <=> q.at = p)
  BY <1>7, <1>14, <1>15, <1>16
<1>18. CASE ~direct
  <2>1. records' = records
    BY <1>18
  <2>2. records.pending # <<>> => Pends(records.pending[1])'
    <3> SUFFICES ASSUME records.pending # <<>> PROVE Pends(records.pending[1])'
      OBVIOUS
    <3>1. PICK i : i = q.at
      OBVIOUS
    <3>2. Pends(q)'
      BY <1>9, <1>15, <1>17, <1>18, <3>1, PendsKept
    <3> QED
      BY <1>14, <2>1, <3>2
  <2> QED
    BY <1>5, <1>8, <1>10, <1>11, <2>1, <2>2 DEF RecordsAre
<1>19. CASE direct
  <2>1. PICK u : u = records'.pending[1]
    OBVIOUS
  <2>2. u = Written(q, e.text) /\ q.at = p /\ records.pending # <<>>
    BY <1>14, <1>17, <1>19, <2>1
  <2>3. u.at = q.at /\ u.depth = q.depth /\ u.child = q.child /\ u.value = q.value
        /\ u.text = Append(q.text, e.text)
    BY <1>15, <2>2 DEF Written, Rec
  <2>4. TextOf(p)' = Append(TextOf(p), e.text)
    BY <1>4, <1>7, TextGrows
  <2>5. /\ Children(p)' = Children(p) /\ events'[p] = events[p] /\ Depth(p)' = Depth(p)
    <3>1. p \in 1..n /\ p \in 1..(n + 1)
      BY <1>1, <1>3, <1>7
    <3> QED
      BY <1>4, <3>1, ListedGrow, DepthKept, Longer
  <2>6. /\ q.depth = Depth(p) /\ q.text = TextOf(p) /\ (q.child <=> Children(p) # {})
        /\ q.value = Given(events[p].tag)
    BY <1>15, <2>2 DEF Pends
  <2>7. /\ u.at = p /\ u.depth = Depth(p)' /\ u.text = TextOf(p)'
        /\ u.value = Given(events'[p].tag)
    BY <2>2, <2>3, <2>4, <2>5, <2>6
  <2>8. u.child <=> Children(p)' # {}
    BY <2>3, <2>5, <2>6
  <2>9. Pends(u)'
    BY <2>7, <2>8 DEF Pends
  <2>10. Pends(records.pending[1])'
    BY <2>1, <2>9
  <2>11. records'.pending # <<>> /\ records'.pending[1].at = q.at
    <3>1. Len(<<>>) = 0
      OBVIOUS
    <3> QED
      BY <1>19, <2>1, <2>3, <3>1
  <2>12. N \cap A = {q.at}
    BY <1>10, <1>14, <2>2
  <2> QED
    <3>1. ToSet(records'.images) = Named("Image")'
      BY <1>5, <1>10, <1>12
    <3>2. \A k \in 1..Len(records'.properties) :
            /\ records'.properties[k].at \in Named("Property")' \ Around(n + 2)'
            /\ records'.properties[k].value = Value(records.properties[k].at)'
      BY <1>5, <1>8, <1>10, <1>11, <1>12
    <3>3. \A i \in Named("Property")' \ Around(n + 2)' :
            \E k \in 1..Len(records'.properties) : records'.properties[k].at = i
      BY <1>5, <1>8, <1>10, <1>12
    <3>4. Named("Property")' \cap Around(n + 2)' = {records'.pending[1].at}
      BY <1>5, <1>8, <2>11, <2>12
    <3> QED
      BY <1>12, <2>10, <2>11, <3>1, <3>2, <3>3, <3>4 DEF RecordsAre
<1> QED
  BY <1>18, <1>19

(* The end of a core element. *)
LEMMA RecordsEnd ==
  ASSUME Visitor, Standing, NEW n, NEW e, OneMore(n, e), RecordsAre(n + 1),
         e.kind = "close", stack # <<>>, ~InExtension,
         e.name = events[Parent(n + 1)].tag.name,
         records \in RecordsRecord, Len(records.pending) \in {0, 1},
         NEW closes \in BOOLEAN,
         closes <=> /\ e.name = "Property" /\ records.pending # <<>>
                    /\ records.pending[1].depth = Len(stack) - 1,
         ~closes => records' = records,
         closes =>
           /\ records'.images = records.images /\ records'.pending = <<>>
           /\ \E r \in Rec : /\ r.at = records.pending[1].at
                             /\ r.value = ValueOf(records.pending[1])
                             /\ records'.properties = Append(records.properties, r)
  PROVE  RecordsAre(n + 2)'
<1>1. n \in Nat /\ n = Len(events) /\ Around(n + 1) \subseteq 1..n
  BY Position DEF OneMore
<1>2. PICK N : N = Named("Property")
  OBVIOUS
<1>3. PICK A : A = Around(n + 1)
  OBVIOUS
<1>4. ~Core(n)' /\ e.kind \notin {"text", "cdata"}
  <2>1. events'[n + 1] = e
    BY Longer
  <2> QED
    BY <2>1 DEF Core, Opens
<1>5. N \subseteq 1..n /\ Named("Property")' = N /\ Named("Image")' = Named("Image")
  BY <1>2, <1>4, NamedNext
<1>6. PICK p : p = Parent(n + 1)
  OBVIOUS
<1>7. /\ p \in A /\ Depth(p) = Len(stack) - 1 /\ Len(stack) \in Nat
      /\ Around(n + 2)' = A \ {p} /\ e.name = events[p].tag.name
  BY <1>1, <1>3, <1>6, Position, Following
<1>8. /\ ToSet(records.images) = Named("Image")
      /\ \A k \in 1..Len(records.properties) :
           /\ records.properties[k].at \in N \ A
           /\ records.properties[k].value = Value(records.properties[k].at)
      /\ \A i \in N \ A : \E k \in 1..Len(records.properties) : records.properties[k].at = i
      /\ records.pending = <<>> => N \cap A = {}
      /\ records.pending # <<>> =>
           N \cap A = {records.pending[1].at} /\ Pends(records.pending[1])
  BY <1>2, <1>3 DEF RecordsAre
<1>9. \A i \in N : Value(i)' = Value(i)
  <2>1. \A i \in N : i \in CoreElements
    BY <1>2 DEF Named
  <2> QED
    BY <1>4, <2>1, ValueKept
<1>10. PICK q : q = records.pending[1]
  OBVIOUS
<1>11. ASSUME records.pending # <<>>
       PROVE  /\ q \in Rec /\ q.at \in N \cap A /\ Pends(q) /\ q.depth = Depth(q.at)
  <2>1. records.pending \in Seq(Rec)
    BY DEF RecordsRecord
  <2>2. 1 \in 1..Len(records.pending)
    BY <1>11, <2>1
  <2>3. q \in Rec
    BY <1>10, <2>1, <2>2
  <2>4. q.at \in N \cap A /\ Pends(q)
    BY <1>8, <1>10, <1>11
  <2> QED
    BY <2>3, <2>4 DEF Pends
<1>12. \A j \in A : Depth(j) = Depth(p) => j = p
  <2>1. \A j, k \in A : Depth(j) = Depth(k) => j = k
    <3>1. n = Len(events)
      BY DEF OneMore
    <3> QED
      BY <1>3, <3>1, Position, Zenon
  <2> QED
    BY <1>7, <2>1
<1>13. CASE ~closes
  <2>1. records' = records
    BY <1>13
  <2>2. p \notin N
    <3> SUFFICES ASSUME p \in N PROVE FALSE
      OBVIOUS
    <3>1. records.pending # <<>> /\ p = q.at
      BY <1>7, <1>8, <1>10
    <3>2. e.name = "Property"
      BY <1>2, <1>7 DEF Named
    <3>3. records.pending[1].depth = Len(stack) - 1
      BY <1>7, <1>10, <1>11, <3>1
    <3> QED
      BY <1>13, <3>1, <3>2, <3>3
  <2>3. N \cap Around(n + 2)' = N \cap A
    BY <1>7, <2>2
  <2> QED
    BY <1>2, <1>3, <1>4, <2>1, <2>3, RecordsStay
<1>14. CASE closes
  <2>1. records.pending # <<>> /\ q.depth = Len(stack) - 1
    BY <1>10, <1>14
  <2>2. q.at = p /\ q \in Rec /\ Pends(q)
    BY <1>7, <1>11, <1>12, <2>1
  <2>3. PICK r \in Rec : /\ r.at = p /\ r.value = ValueOf(q)
                         /\ records'.properties = Append(records.properties, r)
    BY <1>10, <1>14, <2>2
  <2>4. PICK old : old = records.properties
    OBVIOUS
  <2>5. PICK new : new = records'.properties
    OBVIOUS
  <2>6. /\ 1..Len(new) = 1..Len(old) \cup {Len(new)}
        /\ new[Len(new)] = r /\ \A k \in 1..Len(old) : new[k] = old[k]
    <3>1. old \in Seq(Rec)
      BY <2>4 DEF RecordsRecord
    <3> QED
      BY <2>3, <2>4, <2>5, <3>1, OneAppended
  <2>7. p \in N /\ N \cap A = {p}
    BY <1>8, <1>10, <1>11, <2>1, <2>2
  <2>8. r.value = Value(p)'
    BY <1>9, <2>2, <2>3, <2>7, ValueIs
  <2>9. \A k \in 1..Len(new) :
          new[k].at \in N \ (A \ {p}) /\ new[k].value = Value(new[k].at)'
    <3>1. \A k \in 1..Len(old) :
            new[k].at \in N \ (A \ {p}) /\ new[k].value = Value(new[k].at)'
      BY <1>8, <1>9, <2>4, <2>6
    <3>2. r.at \in N \ (A \ {p}) /\ r.value = Value(r.at)'
      BY <2>3, <2>7, <2>8
    <3> QED
      BY <2>6, <3>1, <3>2
  <2>10. \A i \in N \ (A \ {p}) : \E k \in 1..Len(new) : new[k].at = i
    <3>1. \A i \in N \ A : \E k \in 1..Len(old) : new[k].at = i
      BY <1>8, <2>4, <2>6
    <3>2. new[Len(new)].at = p
      BY <2>3, <2>6
    <3> QED
      BY <2>6, <3>1, <3>2
  <2>11. N \cap (A \ {p}) = {}
    BY <2>7
  <2>12. records'.pending = <<>> /\ records'.images = records.images
    BY <1>14
  <2> QED
    BY <1>5, <1>7, <1>8, <2>5, <2>9, <2>10, <2>11, <2>12 DEF RecordsAre
<1> QED
  BY <1>13, <1>14

(* The records' invariant after an event. *)
LEMMA RecordsNext ==
  ASSUME Visitor, Standing, NEW n, NEW e, OneMore(n, e), records' \in RecordsRecord,
         Len(records'.pending) \in {0, 1},
         visit' = "open" => records'.verdict # "ok",
         records'.verdict \in {"open", "ok"} => RecordsAre(n + 2)'
  PROVE  Records'
<1>1. Next1' = n + 2
  BY Following
<1>2. records'.verdict \in {"open", "ok"} => RecordsAre(Next1)'
  BY <1>1
<1> QED
  BY <1>2 DEF Records

(* Nothing is said of the records after a failed visit. *)
LEMMA RecordsRefused ==
  ASSUME Records, records' = records, visit' \notin {"open", "ok"}
  PROVE  Records'
  BY DEF Records, Standing

(* An event that leaves the records alone. *)
LEMMA RecordsUnchanged ==
  ASSUME Visitor, Records, visit = "open", visit' = "open", records' = records,
         NEW n, NEW e, OneMore(n, e), ~Core(n)',
         records.verdict = "open" =>
           /\ Foreign(n + 1)' \/ e.kind \notin {"text", "cdata"} \/ stack = <<>>
           /\ Named("Property") \cap Around(n + 2)' = Named("Property") \cap Around(n + 1)
  PROVE  Records'
<1>1. /\ Standing /\ records \in RecordsRecord /\ records.verdict # "ok" /\ n = Len(events)
      /\ Len(records.pending) \in {0, 1}
  BY DEF Records, Standing, OneMore
<1>2. records'.verdict \in {"open", "ok"} => RecordsAre(n + 2)'
  <2> SUFFICES ASSUME records.verdict = "open" PROVE RecordsAre(n + 2)'
    BY <1>1
  <2>1. RecordsAre(n + 1)
    BY <1>1 DEF Records, Next1
  <2> QED
    BY <1>1, <2>1, RecordsStay
<1> QED
  BY <1>1, <1>2, RecordsNext

(* A start tag or an empty element keeps the records right. *)
LEMMA RecordsElementStep ==
  ASSUME Visitor, Records, visit = "open", NEW tag \in Tags, NEW empty \in BOOLEAN,
         Element(tag, empty)
  PROVE  Records'
<1>1. PICK n : n = Len(events)
  OBVIOUS
<1>2. PICK e : e = [kind |-> IF empty THEN "empty" ELSE "start", tag |-> tag]
  OBVIOUS
<1>3. /\ Standing /\ OneMore(n, e) /\ e.tag = tag
      /\ e.kind = IF empty THEN "empty" ELSE "start"
      /\ (Core(n)' <=> ~InExtension /\ IsCore(tag.space))
      /\ ~Refused(tag) => visit' = "open"
  BY <1>1, <1>2, ElementStep
<1>4. /\ e.kind \in {"start", "empty"} /\ records \in RecordsRecord /\ records.verdict # "ok"
      /\ Len(records.pending) \in {0, 1}
  BY <1>3 DEF Records
<1>5. CASE Refused(tag)
  <2>1. records' = records /\ visit' \notin {"open", "ok"}
    BY <1>5 DEF Element, Refuse
  <2> QED
    BY <2>1, RecordsRefused
<1>6. CASE ~Refused(tag) /\ (records.verdict # "open" \/ ~Core(n)')
  <2>1. PICK x : x = IF ~Core(n)'
                     THEN [kind |-> "ignored", attributes |-> Cardinality(tag.attrs)]
                     ELSE [kind |-> "element", tag |-> tag, depth |-> Len(stack),
                           empty |-> empty, at |-> Len(events) + 1]
    OBVIOUS
  <2>2. records' = Collect(records, x) /\ (records.verdict # "open" \/ x.kind = "ignored")
    BY <1>3, <1>6, <2>1 DEF Element, Tell
  <2>3. records' = records
    BY <2>2, CollectDone
  <2>4. CASE records.verdict # "open"
    BY <1>3, <1>4, <1>6, <2>3, <2>4, RecordsNext
  <2>5. CASE ~Core(n)'
    <3>1. Named("Property") \subseteq 1..n /\ n \in Nat
      BY <1>3, NamedNext, Longer
    <3>2. Around(n + 2)' = Around(n + 1) \/ Around(n + 2)' = Around(n + 1) \cup {n + 1}
      <4>1. CASE e.kind = "start"
        BY <1>3, <4>1, Following
      <4>2. CASE e.kind = "empty"
        BY <1>3, <4>2, Following
      <4> QED
        BY <1>4, <4>1, <4>2
    <3>3. Named("Property") \cap Around(n + 2)' = Named("Property") \cap Around(n + 1)
      BY <3>1, <3>2
    <3>4. e.kind \notin {"text", "cdata"}
      BY <1>4
    <3> QED
      BY <1>3, <1>6, <2>3, <2>5, <3>3, <3>4, RecordsUnchanged
  <2> QED
    BY <1>6, <2>4, <2>5
<1>7. CASE ~Refused(tag) /\ records.verdict = "open" /\ Core(n)'
  <2>1. PICK x : x = [kind |-> "element", tag |-> tag, depth |-> Len(stack),
                      empty |-> empty, at |-> Len(events) + 1]
    OBVIOUS
  <2>2. n \in Nat /\ Len(stack) \in Nat
    BY <1>1, <1>3, Position
  <2>3. /\ x.kind = "element" /\ x.tag = tag /\ x.depth = Len(stack) /\ x.empty = empty
        /\ x.at = n + 1 /\ x.depth \in Nat /\ x.at \in Nat
    BY <1>1, <2>1, <2>2
  <2>4. records' = Collect(records, x)
    BY <1>3, <1>7, <2>1 DEF Element, Tell
  <2>5. /\ records' \in RecordsRecord /\ records'.verdict \in {"open", "error"}
        /\ Len(records'.pending) \in {0, 1}
    BY <1>4, <1>7, <2>3, <2>4, CollectElementIs
  <2>6. ASSUME records'.verdict = "open"
        PROVE  /\ records'.images = IF tag.name = "Image" THEN Append(records.images, n + 1)
                                    ELSE records.images
               /\ records'.properties = IF tag.name = "Property" /\ empty
                                        THEN Append(records.properties, Record(x))
                                        ELSE records.properties
               /\ tag.name = "Property" => records.pending = <<>>
               /\ tag.name = "Property" /\ empty => records'.pending = <<>>
               /\ tag.name = "Property" /\ ~empty => records'.pending = <<Record(x)>>
               /\ tag.name # "Property" =>
                    /\ Len(records'.pending) = Len(records.pending)
                    /\ records.pending # <<>> =>
                         records'.pending[1] = Nested(records.pending[1], Len(stack))
    BY <1>4, <1>7, <2>3, <2>4, <2>6, CollectElementIs
  <2>7. RecordsAre(n + 1) /\ ~InExtension
    BY <1>1, <1>3, <1>7 DEF Records, Next1
  <2>8. ASSUME records'.verdict = "open" PROVE RecordsAre(n + 2)'
    <3>1. CASE tag.name = "Property"
      <4>1. PICK r : r = Record(x)
        OBVIOUS
      <4>2. /\ r \in Rec /\ r.at = n + 1 /\ r.depth = Len(stack) /\ r.text = <<>>
            /\ r.child = FALSE /\ r.value = Given(e.tag)
        BY <1>3, <2>3, <4>1, RecordIs
      <4>3. empty <=> e.kind = "empty"
        BY <1>3
      <4>4. records.pending = <<>> /\ records'.images = records.images
        BY <2>6, <2>8, <3>1
      <4>5. /\ records'.properties = IF e.kind = "empty" THEN Append(records.properties, r)
                                     ELSE records.properties
            /\ records'.pending = IF e.kind = "empty" THEN <<>> ELSE <<r>>
        BY <2>6, <2>8, <3>1, <4>1, <4>3
      <4> QED
        BY <1>3, <1>4, <1>7, <2>7, <3>1, <4>2, <4>4, <4>5, RecordsProperty
    <3>2. CASE tag.name # "Property"
      <4>1. /\ records'.images = IF e.tag.name = "Image" THEN Append(records.images, n + 1)
                                 ELSE records.images
            /\ records'.properties = records.properties
            /\ Len(records'.pending) = Len(records.pending)
            /\ records.pending # <<>> =>
                 records'.pending[1] = Nested(records.pending[1], Len(stack))
        BY <1>3, <2>6, <2>8, <3>2
      <4> QED
        BY <1>3, <1>4, <1>7, <2>5, <2>7, <3>2, <4>1, RecordsElement
    <3> QED
      BY <3>1, <3>2
  <2> QED
    BY <1>3, <2>5, <2>8, RecordsNext
<1> QED
  BY <1>5, <1>6, <1>7

(* So does an end tag. *)
LEMMA RecordsEndStep ==
  ASSUME Visitor, Records, visit = "open", NEW name \in Names, NEW space \in Spaces,
         End(name, space)
  PROVE  Records'
<1>1. PICK n : n = Len(events)
  OBVIOUS
<1>2. PICK e : e = [kind |-> "close", name |-> name, space |-> space]
  OBVIOUS
<1>3. /\ e \in Event /\ e.kind = "close" /\ e.name = name
      /\ e.kind \notin {"start", "empty", "text", "cdata"}
  BY <1>2 DEF Event, Names, Spaces
<1>4. OneMore(n, e)
  BY <1>1, <1>2, <1>3 DEF OneMore, End, Read, Visitor
<1>5. /\ Standing /\ records \in RecordsRecord /\ records.verdict # "ok"
      /\ Len(records.pending) \in {0, 1}
  BY DEF Standing, Records
<1>6. ~Core(n)'
  <2>1. events'[n + 1] = e
    BY <1>4, Longer
  <2> QED
    BY <1>3, <2>1 DEF Core, Opens
<1>7. PICK matches \in BOOLEAN :
        matches <=> stack # <<>> /\ Last(stack) = [name |-> name, space |-> space]
  OBVIOUS
<1>8. CASE ~matches
  <2>1. records' = records /\ visit' \notin {"open", "ok"}
    BY <1>7, <1>8 DEF End, Refuse
  <2> QED
    BY <2>1, RecordsRefused
<1>9. CASE matches
  <2>1. /\ visit' = "open" /\ stack # <<>>
        /\ records' = Collect(records,
             IF InExtension THEN [kind |-> "ignored", attributes |-> -1]
             ELSE [kind |-> "end", name |-> name, depth |-> Len(stack) - 1])
    BY <1>7, <1>9 DEF End, Tell
  <2>2. PICK p : p = Parent(n + 1)
    OBVIOUS
  <2>3. /\ p \in Around(n + 1) /\ Last(stack) = Frame(p) /\ (Foreign(p) <=> InExtension)
        /\ Around(n + 2)' = Around(n + 1) \ {p}
    BY <1>1, <1>3, <1>4, <1>5, <2>1, <2>2, Position, Following
  <2>4. CASE records.verdict # "open"
    <3>1. records' = records
      BY <2>1, <2>4, CollectDone
    <3> QED
      BY <1>4, <1>6, <2>1, <2>4, <3>1, RecordsUnchanged
  <2>5. CASE records.verdict = "open" /\ InExtension
    <3>1. PICK x : x = [kind |-> "ignored", attributes |-> -1]
      OBVIOUS
    <3>2. x.kind = "ignored" /\ records' = Collect(records, x)
      BY <2>1, <2>5, <3>1
    <3>3. records' = records
      BY <3>2, CollectDone
    <3>4. p \notin Named("Property")
      BY <2>3, <2>5 DEF Named, CoreElements, Inner
    <3>5. Named("Property") \cap Around(n + 2)' = Named("Property") \cap Around(n + 1)
      BY <2>3, <3>4
    <3> QED
      BY <1>3, <1>4, <1>6, <2>1, <3>3, <3>5, RecordsUnchanged
  <2>6. CASE records.verdict = "open" /\ ~InExtension
    <3>1. PICK x : x = [kind |-> "end", name |-> name, depth |-> Len(stack) - 1]
      OBVIOUS
    <3>2. /\ records' = Collect(records, x) /\ x.kind = "end" /\ x.name = name
          /\ x.depth = Len(stack) - 1
      BY <2>1, <2>6, <3>1
    <3>3. RecordsAre(n + 1)
      BY <1>1, <1>5, <2>6 DEF Records, Next1
    <3>4. e.name = events[p].tag.name
      BY <1>3, <1>7, <1>9, <2>3, FrameFields
    <3>5. PICK closes \in BOOLEAN :
            closes <=> /\ x.name = "Property" /\ records.pending # <<>>
                       /\ records.pending[1].depth = x.depth
      OBVIOUS
    <3>6. /\ ~closes => records' = records
          /\ closes =>
               /\ records' \in RecordsRecord /\ records'.images = records.images
               /\ Len(records'.pending) \in {0, 1} /\ records'.verdict \in {"open", "error"}
               /\ records'.verdict = "open" =>
                    /\ records'.pending = <<>>
                    /\ \E q \in Rec : /\ q.at = records.pending[1].at
                                      /\ q.value = ValueOf(records.pending[1])
                                      /\ records'.properties = Append(records.properties, q)
      BY <1>5, <2>6, <3>2, <3>5, CollectEndIs
    <3>7. /\ records' \in RecordsRecord /\ Len(records'.pending) \in {0, 1}
          /\ records'.verdict \in {"open", "error"}
      BY <1>5, <2>6, <3>6
    <3>8. ASSUME records'.verdict = "open" PROVE RecordsAre(n + 2)'
      <4>1. closes <=> /\ e.name = "Property" /\ records.pending # <<>>
                       /\ records.pending[1].depth = Len(stack) - 1
        BY <1>3, <3>2, <3>5
      <4>2. ~closes => records' = records
        BY <3>6
      <4>3. closes =>
              /\ records'.images = records.images /\ records'.pending = <<>>
              /\ \E r \in Rec : /\ r.at = records.pending[1].at
                                /\ r.value = ValueOf(records.pending[1])
                                /\ records'.properties = Append(records.properties, r)
        BY <3>6, <3>8
      <4> QED
        BY <1>3, <1>4, <1>5, <2>1, <2>2, <2>6, <3>3, <3>4, <4>1, <4>2, <4>3, RecordsEnd
    <3> QED
      BY <1>4, <1>5, <3>7, <3>8, RecordsNext
  <2> QED
    BY <2>4, <2>5, <2>6
<1> QED
  BY <1>8, <1>9

(* So does text. *)
LEMMA RecordsTextStep ==
  ASSUME Visitor, Records, visit = "open", NEW text \in Words, NEW cdata \in BOOLEAN,
         Text(text, cdata)
  PROVE  Records'
<1>1. PICK n : n = Len(events)
  OBVIOUS
<1>2. PICK e : e = [kind |-> IF cdata THEN "cdata" ELSE "text", text |-> text]
  OBVIOUS
<1>3. /\ e \in Event /\ e.kind \in {"text", "cdata"} /\ e.text = text
      /\ e.kind \notin {"start", "empty", "close"}
  BY <1>2 DEF Event, Words
<1>4. OneMore(n, e)
  BY <1>1, <1>2, <1>3 DEF OneMore, Text, Read, Visitor
<1>5. /\ Standing /\ records \in RecordsRecord /\ records.verdict # "ok"
      /\ Len(records.pending) \in {0, 1}
  BY DEF Standing, Records
<1>6. ~Core(n)'
  <2>1. events'[n + 1] = e
    BY <1>4, Longer
  <2> QED
    BY <1>3, <2>1 DEF Core, Opens
<1>7. CASE stack = <<>> /\ (cdata \/ text = "word")
  <2>1. records' = records /\ visit' \notin {"open", "ok"}
    BY <1>7 DEF Text, Refuse
  <2> QED
    BY <2>1, RecordsRefused
<1>8. CASE ~(stack = <<>> /\ (cdata \/ text = "word"))
  <2>1. /\ visit' = "open"
        /\ stack = <<>> => records' = records
        /\ stack # <<>> =>
             records' = Collect(records,
               IF InExtension THEN [kind |-> "ignored", attributes |-> -1]
               ELSE [kind |-> "text", text |-> text, depth |-> Len(stack)])
    BY <1>8 DEF Text, Tell
  <2>2. Named("Property") \cap Around(n + 2)' = Named("Property") \cap Around(n + 1)
    BY <1>3, <1>4, <1>5, Following
  <2>3. CASE records' = records /\ (records.verdict # "open" \/ stack = <<>> \/ InExtension)
    <3>1. InExtension => Foreign(n + 1)'
      BY <1>4, <1>5, ForeignNext
    <3> QED
      BY <1>4, <1>6, <2>1, <2>2, <2>3, <3>1, RecordsUnchanged
  <2>4. CASE stack # <<>> /\ (records.verdict # "open" \/ InExtension)
    <3>1. PICK x : x = IF InExtension THEN [kind |-> "ignored", attributes |-> -1]
                       ELSE [kind |-> "text", text |-> text, depth |-> Len(stack)]
      OBVIOUS
    <3>2. records' = Collect(records, x) /\ (records.verdict # "open" \/ x.kind = "ignored")
      BY <2>1, <2>4, <3>1
    <3>3. records' = records
      BY <3>2, CollectDone
    <3> QED
      BY <2>3, <2>4, <3>3
  <2>5. CASE stack # <<>> /\ records.verdict = "open" /\ ~InExtension
    <3>1. PICK x : x = [kind |-> "text", text |-> text, depth |-> Len(stack)]
      OBVIOUS
    <3>2. Len(stack) \in Nat
      BY <1>1, <1>5, Position
    <3>3. /\ records' = Collect(records, x) /\ x.kind = "text" /\ x.text = text
          /\ x.depth = Len(stack) /\ x.text \in Words /\ x.depth \in Nat
      BY <2>1, <2>5, <3>1, <3>2
    <3>4. RecordsAre(n + 1)
      BY <1>1, <1>5, <2>5 DEF Records, Next1
    <3>5. PICK direct \in BOOLEAN :
            direct <=> records.pending # <<>> /\ x.depth = records.pending[1].depth + 1
      OBVIOUS
    <3>6. /\ ~direct => records' = records
          /\ direct =>
               /\ records' \in RecordsRecord /\ records'.verdict = "open"
               /\ Len(records'.pending) = 1
               /\ records'.images = records.images /\ records'.properties = records.properties
               /\ records'.pending[1] = Written(records.pending[1], x.text)
      BY <1>5, <2>5, <3>3, <3>5, CollectTextIs
    <3>7. /\ records' \in RecordsRecord /\ Len(records'.pending) \in {0, 1}
          /\ records'.verdict = "open"
      BY <1>5, <2>5, <3>6
    <3>8. RecordsAre(n + 2)'
      <4>1. direct <=> records.pending # <<>> /\ Len(stack) = records.pending[1].depth + 1
        BY <3>3, <3>5
      <4>2. ~direct => records' = records
        BY <3>6
      <4>3. direct =>
              /\ Len(records'.pending) = 1
              /\ records'.images = records.images /\ records'.properties = records.properties
              /\ records'.pending[1] = Written(records.pending[1], e.text)
        BY <1>3, <3>3, <3>6
      <4> QED
        BY <1>3, <1>4, <1>5, <2>5, <3>4, <4>1, <4>2, <4>3, RecordsText
    <3> QED
      BY <1>4, <1>5, <3>7, <3>8, RecordsNext
  <2> QED
    BY <2>1, <2>3, <2>4, <2>5
<1> QED
  BY <1>7, <1>8

(* So does the end of the input. *)
LEMMA RecordsEofStep ==
  ASSUME Visitor, Records, visit = "open", Eof
  PROVE  Records'
<1>1. PICK n : n = Len(events)
  OBVIOUS
<1>2. PICK e : e = [kind |-> "eof"]
  OBVIOUS
<1>3. e \in Event /\ e.kind \notin {"start", "empty", "close", "text", "cdata"}
  BY <1>2 DEF Event
<1>4. OneMore(n, e)
  BY <1>1, <1>2, <1>3 DEF OneMore, Eof, Read, Visitor
<1>5. /\ Standing /\ records \in RecordsRecord /\ records.verdict # "ok"
      /\ Len(records.pending) \in {0, 1}
  BY DEF Standing, Records
<1>6. CASE roots # 1 \/ stack # <<>>
  <2>1. records' = records /\ visit' \notin {"open", "ok"}
    BY <1>6 DEF Eof, Refuse
  <2> QED
    BY <2>1, RecordsRefused
<1>7. CASE roots = 1 /\ stack = <<>>
  <2>1. visit' = "ok" /\ records' = Collected(records)
    BY <1>7 DEF Eof
  <2>2. ~Core(n)'
    <3>1. events'[n + 1] = e
      BY <1>4, Longer
    <3> QED
      BY <1>3, <3>1 DEF Core, Opens
  <2>3. CASE records.verdict # "open"
    <3>1. records' = records
      BY <2>1, <2>3 DEF Collected
    <3> QED
      BY <1>4, <1>5, <2>1, <2>3, <3>1, RecordsNext
  <2>4. CASE records.verdict = "open"
    <3>1. PICK v : v = IF records.pending # <<>> THEN "error" ELSE "ok"
      OBVIOUS
    <3>2. records' = [records EXCEPT !.verdict = v] /\ v \in {"error", "ok"}
      BY <2>1, <2>4, <3>1 DEF Collected
    <3>3. /\ records' \in RecordsRecord /\ records'.images = records.images
          /\ records'.properties = records.properties /\ records'.pending = records.pending
      BY <1>5, <3>2 DEF RecordsRecord
    <3>4. RecordsAre(n + 1)
      BY <1>1, <1>5, <2>4 DEF Records, Next1
    <3>5. Named("Property") \cap Around(n + 2)' = Named("Property") \cap Around(n + 1)
      BY <1>3, <1>4, <1>5, Following
    <3>6. RecordsAre(n + 2)'
      BY <1>3, <1>4, <1>5, <2>2, <3>3, <3>4, <3>5, RecordsStay
    <3> QED
      BY <1>4, <1>5, <2>1, <3>3, <3>6, RecordsNext
  <2> QED
    BY <2>3, <2>4
<1> QED
  BY <1>6, <1>7

(* The records along every step. *)
LEMMA RecordsStep ==
  Visitor /\ Records /\ [Next]_vars => Records'
<1> SUFFICES ASSUME Visitor, Records, [Next]_vars PROVE Records'
  OBVIOUS
<1>1. ASSUME NEW tag \in Tags, NEW empty \in BOOLEAN, Element(tag, empty) PROVE Records'
  <2>1. visit = "open"
    BY <1>1 DEF Element, Read
  <2> QED
    BY <1>1, <2>1, RecordsElementStep
<1>2. ASSUME NEW pair \in {<<tag.name, tag.space>> : tag \in Tags}, End(pair[1], pair[2])
      PROVE  Records'
  <2>1. visit = "open"
    BY <1>2 DEF End, Read
  <2>2. pair[1] \in Names /\ pair[2] \in Spaces
    BY DEF Names, Spaces
  <2> QED
    BY <1>2, <2>1, <2>2, RecordsEndStep
<1>3. ASSUME NEW text \in {"word", "blank"}, NEW cdata \in Forms, Text(text, cdata)
      PROVE  Records'
  <2>1. visit = "open" /\ cdata \in BOOLEAN /\ text \in Words
    BY <1>3 DEF Text, Read, Forms, Words
  <2> QED
    BY <1>3, <2>1, RecordsTextStep
<1>4. ASSUME DocType \/ ReadFails PROVE Records'
  <2>1. records' = records /\ visit' \notin {"open", "ok"}
    BY <1>4 DEF DocType, ReadFails, Refuse
  <2> QED
    BY <2>1, RecordsRefused
<1>5. ASSUME Eof PROVE Records'
  <2>1. visit = "open"
    BY <1>5 DEF Eof, Read
  <2> QED
    BY <1>5, <2>1, RecordsEofStep
<1>6. CASE UNCHANGED vars
  <2>1. events' = events /\ UNCHANGED <<visit, records>>
    BY <1>6 DEF vars
  <2>2. /\ CoreElements' = CoreElements
        /\ \A i : TextOf(i)' = TextOf(i)
    BY <2>1, SameDocument
  <2>3. \A i : Depth(i)' = Depth(i) /\ Around(i)' = Around(i) /\ Parent(i)' = Parent(i)
    BY <2>1, SameEvents
  <2>4. Next1' = Next1 /\ (Standing' <=> Standing)
    BY <2>1 DEF Next1, Standing
  <2>5. \A x : Named(x)' = Named(x)
    BY <2>1, <2>2 DEF Named
  <2>6. \A i : Children(i)' = Children(i)
    BY <2>2, <2>3 DEF Children
  <2>7. \A i : Value(i)' = Value(i)
    BY <2>1, <2>2, <2>6 DEF Value
  <2>8. ASSUME NEW p, Pends(p) PROVE Pends(p)'
    BY <2>1, <2>2, <2>3, <2>6, <2>8 DEF Pends
  <2>9. ASSUME RecordsAre(Next1) PROVE RecordsAre(Next1)'
    <3>1. PICK next : next = Next1
      OBVIOUS
    <3>2. next = Next1' /\ RecordsAre(next)
      BY <2>4, <2>9, <3>1
    <3>3. PICK p : p = records.pending[1]
      OBVIOUS
    <3>4. Pends(p) => Pends(records.pending[1])'
      BY <2>1, <2>8, <3>3
    <3>5. RecordsAre(next)'
      BY <2>1, <2>3, <2>5, <2>7, <3>2, <3>3, <3>4 DEF RecordsAre
    <3> QED
      BY <3>2, <3>5
  <2> QED
    BY <2>1, <2>4, <2>9 DEF Records
<1> QED
  BY <1>1, <1>2, <1>3, <1>4, <1>5, <1>6 DEF Next

(* Before the first event. *)
LEMMA RecordsInit ==
  Init => Records
<1> SUFFICES ASSUME Init PROVE Records
  OBVIOUS
<1>1. /\ events = <<>> /\ visit = "open"
      /\ records = [verdict |-> "open", pending |-> <<>>, properties |-> <<>>,
                    keywords |-> 0, images |-> <<>>]
  BY DEF Init
<1>2. \A x : Named(x) = {}
  BY <1>1 DEF Named, CoreElements, Inner
<1>3. records \in RecordsRecord /\ Len(records.pending) = 0 /\ records.pending = <<>>
  BY <1>1 DEF RecordsRecord
<1>4. ToSet(records.images) = {} /\ Len(records.properties) = 0 /\ 1..0 = {}
  BY <1>1 DEF ToSet
<1>5. RecordsAre(Next1)
  BY <1>2, <1>3, <1>4 DEF RecordsAre
<1> QED
  BY <1>1, <1>3, <1>5 DEF Records

(* The validator, the loader and the metadata reader agree on what a       *)
(* document says, whatever the document (xisf.rs:603-748).                 *)
THEOREM ConsumersAreRight == Spec => []ConsumersAgree
<1> DEFINE Inv == Visitor /\ VisitIsRight /\ Tree /\ Bill /\ Loader /\ Records
<1>1. Init => Inv
  BY VisitorInit, TreeInit, LoaderInit, RecordsInit
<1>2. Inv /\ [Next]_vars => Inv'
  BY VisitorStep, TreeStep, LoaderStep, RecordsStep
<1>3. Inv => ConsumersAgree
  <2> SUFFICES ASSUME Visitor, Tree, Loader, Records, Standing PROVE ConsumersAgree
    BY DEF ConsumersAgree
  <2>1. /\ {i \in CoreElements : events[i].tag.name = "Image"} = Named("Image")
        /\ {i \in CoreElements : events[i].tag.name = "Property"} = Named("Property")
    BY DEF Named
  <2>2. PICK n : n = Len(events)
    OBVIOUS
  <2>3. \A i \in Named("Property") : Closed(i) <=> i \notin Around(n + 1)
    <3>1. \A i \in Around(n + 1) : Nests(i)
      BY <2>2, Position
    <3> QED
      BY <2>2, <3>1 DEF Closed, Nests
  <2>4. ASSUME records.verdict \in {"open", "ok"}
        PROVE  /\ ToSet(records.images) = Named("Image")
               /\ {records.properties[k].at : k \in DOMAIN records.properties}
                    = {i \in Named("Property") : Closed(i)}
               /\ \A k \in DOMAIN records.properties :
                    LET p == records.properties[k] IN p.value = Value(p.at)
    <3>1. RecordsAre(n + 1)
      BY <2>2, <2>4 DEF Records, Next1
    <3>2. DOMAIN records.properties = 1..Len(records.properties)
      <4>1. records.properties \in Seq(Rec)
        BY DEF Records, RecordsRecord
      <4> QED
        BY <4>1
    <3>3. {i \in Named("Property") : Closed(i)} = Named("Property") \ Around(n + 1)
      BY <2>3
    <3> QED
      BY <3>1, <3>2, <3>3 DEF RecordsAre
  <2>5. loader.verdict \in {"open", "ok"} =>
          loader.image = IF Named("Image") = {} THEN None ELSE Min(Named("Image"))
    BY DEF Loader, FirstImage
  <2>6. loader.verdict = "ok" /\ tree.verdict = "ok" =>
          tree.nodes[Number(loader.image)].name = "Image"
    <3> SUFFICES ASSUME loader.verdict = "ok", tree.verdict = "ok"
        PROVE  tree.nodes[Number(loader.image)].name = "Image"
      OBVIOUS
    <3>1. loader.image \in Named("Image")
      <4>1. Named("Image") # {} /\ loader.image = Min(Named("Image"))
        BY <2>5 DEF Loader
      <4>2. Named("Image") \in SUBSET Nat
        BY Numbers DEF Named, Visitor
      <4> QED
        BY <4>1, <4>2, LeastIs
    <3>2. TreeIs(Next1)
      BY DEF Tree
    <3> QED
      BY <3>1, <3>2 DEF TreeIs, NodeIs, Named
  <2>7. visit = "ok" /\ Named("Image") # {} /\ tree.verdict = "ok" => loader.verdict = "ok"
    BY DEF Loader
  <2> QED
    BY <2>1, <2>4, <2>5, <2>6, <2>7 DEF ConsumersAgree
<1> QED
  BY <1>1, <1>2, <1>3, PTL DEF Spec
=============================================================================
