---------------------------- MODULE FitsWalkProofs ----------------------------
(***************************************************************************)
(* Proofs about FitsWalk, for files and headers of any length and any set  *)
(* of cards: a unit whose data are read is legal and paid for, a refusal   *)
(* is justified, and the units tile the file.                              *)
(***************************************************************************)
EXTENDS FitsWalk, ByteTotalsProofs, SequenceTheorems

(* Whole blocks.                                                           *)

(* A number lies between a multiple of b and the next one. *)
LEMMA Quotient ==
  ASSUME NEW a \in Nat, NEW b \in Nat \ {0}
  PROVE  /\ a \div b \in Nat
         /\ (a \div b) * b <= a /\ a < (a \div b) * b + b
  OBVIOUS

(* A multiple leaves no rest. *)
LEMMA Multiple ==
  ASSUME NEW q \in Nat, NEW b \in Nat \ {0}
  PROVE  q * b \in Nat /\ (q * b) % b = 0
  OBVIOUS

(* The product distributes over the sum. *)
LEMMA Distributes ==
  ASSUME NEW p \in Nat, NEW q \in Nat, NEW b \in Nat
  PROVE  (p + q) * b = p * b + q * b
  OBVIOUS

(* The sum of two multiples is a multiple. *)
LEMMA MultiplesAdd ==
  ASSUME NEW a \in Nat, NEW c \in Nat, NEW b \in Nat \ {0}, a % b = 0, c % b = 0
  PROVE  (a + c) % b = 0
<1>1. a = (a \div b) * b /\ a \div b \in Nat
  OBVIOUS
<1>2. c = (c \div b) * b /\ c \div b \in Nat
  OBVIOUS
<1>3. PICK p \in Nat, q \in Nat : a = p * b /\ c = q * b
  BY <1>1, <1>2
<1>4. a + c = (p + q) * b /\ p + q \in Nat
  BY <1>3, Distributes
<1> QED
  BY <1>4, Multiple

(* Different multiples of b are at least b apart. *)
LEMMA LaterMultiple ==
  ASSUME NEW p \in Nat, NEW q \in Nat, NEW b \in Nat, p < q
  PROVE  p * b + b <= q * b
<1>1. PICK d \in Nat : q = p + 1 + d
  <2>1. q - p - 1 \in Nat /\ q = p + 1 + (q - p - 1)
    OBVIOUS
  <2> QED
    BY <2>1
<1>2. q * b = p * b + b + d * b /\ d * b \in Nat /\ p * b \in Nat
  BY <1>1
<1> QED
  BY <1>2

(* padded gives the least number of whole blocks that holds n bytes. *)
LEMMA PaddedIsLeast ==
  ASSUME NEW n \in Nat
  PROVE  /\ Padded(n) \in Nat /\ Padded(n) % BlockSize = 0
         /\ n <= Padded(n) /\ Padded(n) <= n + BlockSize - 1
         /\ WholeBlocks(n) = Padded(n)
<1> DEFINE b == BlockSize
           q == (n + b - 1) \div b
<1>1. b \in Nat \ {0} /\ n + b - 1 \in Nat
  BY FitsAssumption
<1>2. q \in Nat /\ q * b <= n + b - 1 /\ n + b - 1 < q * b + b /\ q * b \in Nat
  BY <1>1, Quotient, Multiple
<1>3. Padded(n) = q * b
  BY DEF Padded
<1> HIDE DEF q, b
<1>4. n <= q * b
  BY <1>1, <1>2
<1>5. q \in 0..n
  <2>1. SUFFICES ASSUME n < q PROVE FALSE
    BY <1>2
  <2>2. n * b + b <= q * b
    BY <1>1, <1>2, <2>1, LaterMultiple
  <2>3. n <= n * b /\ n * b \in Nat
    BY <1>1
  <2> QED
    BY <1>1, <1>2, <2>2, <2>3
<1>6. ASSUME NEW k \in Nat, n <= k * b PROVE q * b <= k * b
  <2>1. CASE k < q
    <3>1. k * b + b <= q * b /\ k * b \in Nat
      BY <1>1, <1>2, <2>1, LaterMultiple
    <3> QED
      BY <1>1, <1>2, <1>6, <3>1
  <2>2. CASE q <= k
    <3>1. CASE q = k
      BY <1>2, <3>1
    <3>2. CASE q < k
      <4>1. q * b + b <= k * b /\ k * b \in Nat
        BY <1>1, <1>2, <3>2, LaterMultiple
      <4> QED
        BY <1>1, <1>2, <4>1
    <3> QED
      BY <1>2, <2>2, <3>1, <3>2
  <2> QED
    BY <1>2, <2>1, <2>2
<1>7. WholeBlocks(n) = q * b
  <2> DEFINE S == {c \in {k * b : k \in 0..n} : c >= n}
  <2>1. q * b \in S
    BY <1>2, <1>4, <1>5
  <2>2. \A c \in S : q * b <= c
    BY <1>6
  <2>3. \A c \in S : c \in Nat
    <3>1. \A k \in 0..n : k * b \in Nat
      BY <1>1
    <3> QED
      BY <3>1
  <2>4. Min(S) = q * b
    <3> HIDE DEF S
    <3>1. \A x \in S : (\A y \in S : x =< y) => x = q * b
      BY <1>2, <2>1, <2>2, <2>3
    <3>2. \A y \in S : q * b =< y
      BY <2>2
    <3> QED
      BY <2>1, <3>1, <3>2 DEF Min
  <2>5. WholeBlocks(n) = Min(S)
    BY DEF WholeBlocks, b
  <2> QED
    BY <2>4, <2>5
<1> QED
  BY <1>1, <1>2, <1>3, <1>4, <1>7, Multiple DEF b
-----------------------------------------------------------------------------
(* What the walk knows of a header, and what its cards say.                *)

(* The map holds the recorded cards. *)
Lookup ==
  /\ DOMAIN h = {Key(text[i]) : i \in {j \in DOMAIN text : Recorded(text[j])}}
  /\ \A i \in DOMAIN text : Recorded(text[i]) => h[Key(text[i])] = text[i].value

(* A header whose END has been read. *)
Closed ==
  /\ Dimensions \in 0..MaxAxes
  /\ Len(text) > 3 + Dimensions + (IF index = 0 THEN 0 ELSE 2)
  /\ text[Len(text)].name = "END"

Refused == phase = "cards" /\ verdict = "invalid"

(* The map agrees with the cards, and the counters with the cards read.    *)
HeaderIsRead ==
  /\ ~Refused => Lookup
  /\ phase # "hdu" /\ ~Refused =>
       InOrder /\ offset = start + Len(text) * CardSize
  /\ phase \in {"cards", "header"} /\ ~Refused =>
       Len(text) * CardSize <= headerBytes
  /\ phase = "cards" /\ ~Refused =>
       \A i \in DOMAIN text : text[i].name # "END"
  /\ phase \in {"header", "sums", "payload"} => Closed

LastEnd == IF hdus = <<>> THEN 0 ELSE hdus[Len(hdus)].end
Summed == Total([i \in DOMAIN hdus |-> Cardinality(hdus[i].sums)])
Here == Cardinality(Sums \cap DOMAIN h)

(* The counters are those of the units passed, and of the one at work.     *)
CountersAgree ==
  /\ decoded = DecodedPassed + (IF phase \in {"sums", "payload"} THEN Declared ELSE 0)
  /\ present = Summed + (IF phase \in {"sums", "payload"} THEN Here ELSE 0)
  /\ verified = IF level = "structural" THEN 0
                ELSE Summed + (IF phase = "payload" THEN Here ELSE 0)
  /\ images <= Len(hdus) + (IF phase \in {"sums", "payload"} THEN 1 ELSE 0)
  /\ phase \in {"sums", "payload"} => Declared \in Nat /\ DataSize \in Nat
  /\ phase = "payload" /\ level = "full" =>
       \A k \in Sums \cap DOMAIN h : h[k] = "good"

Units == [start : Nat, end : Nat, cards : Nat, sums : SUBSET Sums, declared : Nat]

(* The unit at work starts where the last one ended. *)
UnitsFollow ==
  /\ hdus \in Seq(Units)
  /\ IF phase = "hdu" THEN offset = LastEnd ELSE start = LastEnd
  /\ verdict = "valid" => phase = "hdu" /\ offset = size

Inv ==
  /\ TypeOK /\ HeaderIsRead /\ CountersAgree /\ UnitsFollow /\ UnitsTileTheFile
  /\ ReadUnitsAreLegal /\ DamageIsReal
-----------------------------------------------------------------------------
(* The first occurrence of a keyword is the only one.                      *)

(* The least of one number. *)
LEMMA LeastOfOne ==
  ASSUME NEW i \in Int PROVE Min({i}) = i
  BY DEF Min

(* What every card of a header has. *)
LEMMA CardFields ==
  ASSUME text \in Seq(Cards), NEW i \in DOMAIN text
  PROVE  /\ i \in 1..Len(text) /\ text[i] \in Cards
         /\ text[i].name \in Range(Names) /\ text[i].n \in Nat
         /\ text[i].name # "NAXIS" => text[i].n = 0
<1>1. i \in 1..Len(text) /\ text[i] \in Cards
  OBVIOUS
<1> QED
  BY <1>1, FitsAssumption

(* The first three cards are in place, which gives the number of axes. *)
Opened ==
  \A i \in DOMAIN text : i <= 3 =>
    /\ text[i].n = 0
    /\ i = 1 => text[i].name = IF index = 0 THEN "SIMPLE" ELSE "XTENSION"
    /\ i = 2 => text[i].name = "BITPIX"
    /\ i = 3 => text[i].name = "NAXIS"

(* An ordered header begins as a header must. *)
LEMMA InOrderOpens == text \in Seq(Cards) /\ InOrder => Opened
<1> SUFFICES ASSUME text \in Seq(Cards), InOrder PROVE Opened
  OBVIOUS
<1>1. DOMAIN text = 1..Len(text) /\ Len(text) \in Nat
  OBVIOUS
<1> QED
  BY <1>1 DEF InOrder, Opened

(* The number of axes is what the third card says. *)
LEMMA NaxisIsThird ==
  text \in Seq(Cards) /\ Opened =>
    Dimensions = IF Len(text) >= 3 THEN text[3].value ELSE 0
<1> SUFFICES ASSUME text \in Seq(Cards), Opened
             PROVE  Dimensions = IF Len(text) >= 3 THEN text[3].value ELSE 0
  OBVIOUS
<1>1. DOMAIN text = 1..Len(text) /\ Len(text) \in Nat
  OBVIOUS
<1>2. \A i \in DOMAIN text : i <= 3 =>
        /\ text[i].n = 0
        /\ i = 1 => text[i].name \in {"SIMPLE", "XTENSION"}
        /\ i = 2 => text[i].name = "BITPIX"
        /\ i = 3 => text[i].name = "NAXIS"
  BY <1>1 DEF Opened
<1>3. CASE Len(text) >= 3
  <2>1. 3 \in Occurrences("NAXIS")
    BY <1>1, <1>2, <1>3 DEF Occurrences
  <2>2. \A i \in Occurrences("NAXIS") : i \in Nat /\ 3 <= i
    BY <1>1, <1>2 DEF Occurrences
  <2>3. Min(Occurrences("NAXIS")) = 3
    <3>1. \A x \in Occurrences("NAXIS") :
            (\A y \in Occurrences("NAXIS") : x =< y) => x = 3
      BY <2>1, <2>2
    <3> QED
      BY <2>1, <2>2, <3>1 DEF Min
  <2> QED
    BY <1>3, <2>1, <2>3 DEF Dimensions, Says
<1>4. CASE ~(Len(text) >= 3)
  <2>1. Occurrences("NAXIS") = {}
    BY <1>1, <1>2, <1>4 DEF Occurrences
  <2> QED
    BY <1>4, <2>1 DEF Dimensions, Says
<1> QED
  BY <1>3, <1>4

(* In an ordered header the map says of a keyword what the cards say. *)
LEMMA SaysIsOptional ==
  ASSUME NEW name, name \notin {"COMMENT", "END", "BROKEN"}
  PROVE  text \in Seq(Cards) /\ InOrder /\ Lookup =>
           \A default : Says(name, default) = Optional(name, default)
<1> SUFFICES ASSUME text \in Seq(Cards), InOrder, Lookup, NEW default
             PROVE  Says(name, default) = Optional(name, default)
  OBVIOUS
<1>1. DOMAIN text = 1..Len(text) /\ Len(text) \in Nat
  OBVIOUS
<1>2. Has(name) <=> Occurrences(name) # {}
  BY DEF Has, Lookup, Occurrences, Key, Recorded
<1>3. CASE Occurrences(name) = {}
  BY <1>2, <1>3 DEF Says, Optional
<1>4. CASE Occurrences(name) # {}
  <2>1. PICK i \in DOMAIN text : text[i].name = name /\ text[i].n = 0
    BY <1>4 DEF Occurrences
  <2>2. \A j \in Occurrences(name) : j = i
    <3> SUFFICES ASSUME NEW j \in Occurrences(name), j # i PROVE FALSE
      OBVIOUS
    <3>1. j \in DOMAIN text /\ text[j].name = name /\ text[j].n = 0
      BY DEF Occurrences
    <3>2. i < j \/ j < i
      BY <1>1, <2>1, <3>1
    <3> QED
      BY <2>1, <3>1, <3>2 DEF InOrder
  <2>3. Occurrences(name) = {i}
    BY <2>1, <2>2 DEF Occurrences
  <2>4. Min(Occurrences(name)) = i
    BY <1>1, <2>1, <2>3, LeastOfOne
  <2>5. h[Key(text[i])] = text[i].value /\ Key(text[i]) = <<name, 0>>
    BY <2>1 DEF Lookup, Recorded, Key
  <2> QED
    BY <1>2, <1>4, <2>4, <2>5 DEF Says, Optional
<1> QED
  BY <1>3, <1>4

(* The number of axes, as far as it is known. *)
LEMMA NumberIsDimensions ==
  text \in Seq(Cards) /\ InOrder /\ Lookup =>
    Number("NAXIS", 0) = IF Len(text) >= 3 THEN Dimensions ELSE -1
<1> SUFFICES ASSUME text \in Seq(Cards), InOrder, Lookup
             PROVE  Number("NAXIS", 0) = IF Len(text) >= 3 THEN Dimensions ELSE -1
  OBVIOUS
<1>1. Dimensions = IF Len(text) >= 3 THEN text[3].value ELSE 0
  BY NaxisIsThird, InOrderOpens
<1>2. CASE Len(text) >= 3
  <2>1. 3 \in DOMAIN text /\ text[3].name = "NAXIS" /\ text[3].n = 0
    BY <1>2 DEF InOrder
  <2>2. <<"NAXIS", 0>> \in DOMAIN h /\ h[<<"NAXIS", 0>>] = text[3].value
    BY <2>1 DEF Lookup, Recorded, Key
  <2> QED
    BY <1>1, <1>2, <2>2 DEF Number
<1>3. CASE ~(Len(text) >= 3)
  <2>1. \A i \in DOMAIN text : text[i].name # "NAXIS"
    BY <1>3 DEF InOrder
  <2>2. <<"NAXIS", 0>> \notin DOMAIN h
    BY <2>1 DEF Lookup, Recorded, Key
  <2> QED
    BY <1>3, <2>2 DEF Number
<1> QED
  BY <1>2, <1>3
-----------------------------------------------------------------------------
(* The next card: InPlace asks for the order of the standard.              *)

(* What the standard asks of a card at this place. *)
Fits(card, place) ==
  /\ place = 1 /\ index = 0 => Key(card) = <<"SIMPLE", 0>>
  /\ place = 1 /\ index > 0 => Key(card) = <<"XTENSION", 0>>
  /\ place = 2 => Key(card) = <<"BITPIX", 0>>
  /\ place = 3 => Key(card) = <<"NAXIS", 0>>
  /\ place > 3 =>
       /\ Dimensions \in 0..MaxAxes
       /\ place <= 3 + Dimensions => Key(card) = <<"NAXIS", place - 3>>
       /\ index > 0 /\ place = 4 + Dimensions => Key(card) = <<"PCOUNT", 0>>
       /\ index > 0 /\ place = 5 + Dimensions => Key(card) = <<"GCOUNT", 0>>

(* The order the walk tests is the order of the whole header. *)
LEMMA InPlaceFits ==
  ASSUME text \in Seq(Cards), InOrder, Lookup, index \in Nat, NEW card
  PROVE  InPlace(card) <=> Fits(card, Len(text) + 1)
<1> DEFINE place == Len(text) + 1
           known == Number("NAXIS", 0)
           top == 3 + (IF known = -1 THEN 0 ELSE known)
<1>1. place \in Nat \ {0} /\ Len(text) = place - 1
  OBVIOUS
<1>2. known = IF place > 3 THEN Dimensions ELSE -1
  BY <1>1, NumberIsDimensions
<1>3. DOMAIN Mandatory = 1..(IF index = 0 THEN top ELSE top + 2)
  BY DEF Mandatory
<1>4. ASSUME place \in DOMAIN Mandatory
      PROVE  Mandatory[place] =
               CASE place = 1 /\ index = 0 -> <<"SIMPLE", 0>>
                 [] place = 1 /\ index > 0 -> <<"XTENSION", 0>>
                 [] place = 2               -> <<"BITPIX", 0>>
                 [] place = 3               -> <<"NAXIS", 0>>
                 [] place \in 4..top        -> <<"NAXIS", place - 3>>
                 [] place = top + 1         -> <<"PCOUNT", 0>>
                 [] place = top + 2         -> <<"GCOUNT", 0>>
  BY <1>3, <1>4 DEF Mandatory
<1>5. CASE place <= 3
  <2>1. top = 3
    BY <1>1, <1>2, <1>5
  <2>2. place \in DOMAIN Mandatory
    BY <1>1, <1>3, <1>5, <2>1
  <2>3. InPlace(card) <=> Key(card) = Mandatory[place]
    BY <1>1, <1>5, <2>2 DEF InPlace
  <2> HIDE DEF top
  <2>4. CASE place = 1 /\ index = 0
    <3>1. Mandatory[place] = <<"SIMPLE", 0>>
      BY <1>4, <2>1, <2>2, <2>4
    <3> QED
      BY <2>3, <2>4, <3>1 DEF Fits
  <2>5. CASE place = 1 /\ index > 0
    <3>1. Mandatory[place] = <<"XTENSION", 0>>
      BY <1>4, <2>1, <2>2, <2>5
    <3>2. \A p : p = 1 /\ index > 0 =>
                  (Fits(card, p) <=> Key(card) = <<"XTENSION", 0>>)
      BY DEF Fits
    <3> QED
      BY <2>3, <2>5, <3>1, <3>2
  <2>6. CASE place = 2
    <3>1. Mandatory[place] = <<"BITPIX", 0>>
      BY <1>4, <2>1, <2>2, <2>6
    <3>2. \A p : p = 2 => (Fits(card, p) <=> Key(card) = <<"BITPIX", 0>>)
      BY DEF Fits
    <3> QED
      BY <2>3, <2>6, <3>1, <3>2
  <2>7. CASE place = 3
    <3>1. Mandatory[place] = <<"NAXIS", 0>>
      BY <1>4, <2>1, <2>2, <2>7
    <3> QED
      BY <2>3, <2>7, <3>1 DEF Fits
  <2> QED
    BY <1>1, <1>5, <2>4, <2>5, <2>6, <2>7
<1>6. CASE place > 3 /\ Dimensions \notin 0..MaxAxes
  BY <1>2, <1>6 DEF InPlace, Fits
<1>7. CASE place > 3 /\ Dimensions \in 0..MaxAxes
  <2>1. top = 3 + Dimensions /\ Dimensions \in Nat
    BY <1>2, <1>7, FitsAssumption
  <2>2. InPlace(card) <=>
          (place \in DOMAIN Mandatory => Key(card) = Mandatory[place])
    BY <1>1, <1>2, <1>7 DEF InPlace
  <2> HIDE DEF top
  <2>3. CASE place <= top
    <3>1. place \in DOMAIN Mandatory /\ Mandatory[place] = <<"NAXIS", place - 3>>
      BY <1>1, <1>3, <1>4, <1>7, <2>1, <2>3
    <3> QED
      BY <1>1, <1>7, <2>1, <2>2, <2>3, <3>1 DEF Fits
  <2>4. CASE index > 0 /\ place = top + 1
    <3>1. place \in DOMAIN Mandatory /\ Mandatory[place] = <<"PCOUNT", 0>>
      BY <1>1, <1>3, <1>4, <1>7, <2>1, <2>4
    <3> QED
      BY <1>1, <1>7, <2>1, <2>2, <2>4, <3>1 DEF Fits
  <2>5. CASE index > 0 /\ place = top + 2
    <3>1. place \in DOMAIN Mandatory /\ Mandatory[place] = <<"GCOUNT", 0>>
      BY <1>1, <1>3, <1>4, <1>7, <2>1, <2>5
    <3> QED
      BY <1>1, <1>7, <2>1, <2>2, <2>5, <3>1 DEF Fits
  <2>6. CASE place > top /\ ~(index > 0 /\ place \in {top + 1, top + 2})
    <3>1. place \notin DOMAIN Mandatory
      BY <1>1, <1>3, <2>1, <2>6
    <3> QED
      BY <1>1, <1>7, <2>1, <2>2, <2>6, <3>1 DEF Fits
  <2> QED
    BY <1>1, <2>1, <2>3, <2>4, <2>5, <2>6
<1> QED
  BY <1>1, <1>5, <1>6, <1>7

(* A header that grows by a card. *)
LEMMA NextText ==
  ASSUME text \in Seq(Cards), NEW card \in Cards, text' = Append(text, card)
  PROVE  /\ text' \in Seq(Cards)
         /\ Len(text) \in Nat /\ Len(text') = Len(text) + 1
         /\ DOMAIN text = 1..Len(text) /\ DOMAIN text' = 1..(Len(text) + 1)
         /\ \A i \in DOMAIN text : text'[i] = text[i]
         /\ text'[Len(text) + 1] = card
  OBVIOUS

(* Only axes have a number. *)
LEMMA CardIsKnown ==
  ASSUME NEW card \in Cards
  PROVE  /\ card.n \in Nat
         /\ card.name # "NAXIS" => card.n = 0
  BY FitsAssumption

(* A card that is in place, and new, keeps the order. *)
LEMMA AcceptedCard ==
  ASSUME text \in Seq(Cards), InOrder, Lookup, index \in Nat, index' = index,
         NEW card \in Cards, text' = Append(text, card),
         Fits(card, Len(text) + 1), card.name # "BROKEN",
         Recorded(card) => Key(card) \notin DOMAIN h,
         \A i \in DOMAIN text : text[i].name # "END"
  PROVE  InOrder'
<1> DEFINE place == Len(text) + 1
<1>1. /\ text' \in Seq(Cards)
      /\ place \in Nat \ {0} /\ Len(text) = place - 1 /\ Len(text') = place
      /\ DOMAIN text = 1..(place - 1) /\ DOMAIN text' = 1..place
      /\ \A i \in DOMAIN text : text'[i] = text[i]
      /\ text'[place] = card
  BY NextText
<1>2. Dimensions = IF place > 3 THEN text[3].value ELSE 0
  BY <1>1, NaxisIsThird, InOrderOpens
<1> HIDE DEF place
<1>3. Fits(card, place)
  BY DEF place
<1>4. Opened'
  <2>1. Opened
    BY InOrderOpens
  <2> QED
    BY <1>1, <1>3, <2>1 DEF Opened, Fits, Key
<1>5. Dimensions' = IF place >= 3 THEN text'[3].value ELSE 0
  <2>1. (text \in Seq(Cards) /\ Opened =>
           Dimensions = IF Len(text) >= 3 THEN text[3].value ELSE 0)'
    BY NaxisIsThird, PTL
  <2> QED
    BY <1>1, <1>4, <2>1
<1>6. place > 3 => Dimensions' = Dimensions /\ Dimensions \in 0..MaxAxes
  BY <1>1, <1>2, <1>3, <1>5 DEF Fits
<1>7. ASSUME NEW i \in DOMAIN text'
      PROVE  /\ i > 3 =>
                  /\ Dimensions' \in 0..MaxAxes
                  /\ i <= 3 + Dimensions' => text'[i].name = "NAXIS" /\ text'[i].n = i - 3
                  /\ index > 0 /\ i - (3 + Dimensions') \in 1..2 =>
                       text'[i].name = <<"PCOUNT", "GCOUNT">>[i - (3 + Dimensions')]
             /\ text'[i].name # "BROKEN"
  <2>1. CASE i = place
    <3>1. CASE i > 3
      <4>1. Dimensions' = Dimensions /\ Dimensions \in Nat /\ Dimensions \in 0..MaxAxes
        BY <1>6, <2>1, <3>1, FitsAssumption
      <4>2. i <= 3 + Dimensions => card.name = "NAXIS" /\ card.n = i - 3
        BY <1>3, <2>1, <3>1 DEF Fits, Key
      <4>3. ASSUME index > 0, i - (3 + Dimensions) \in 1..2
            PROVE  card.name = <<"PCOUNT", "GCOUNT">>[i - (3 + Dimensions)]
        <5>1. CASE i = 4 + Dimensions
          <6>1. card.name = "PCOUNT" /\ i - (3 + Dimensions) = 1
            BY <1>1, <1>3, <2>1, <3>1, <4>1, <4>3, <5>1 DEF Fits, Key
          <6> QED
            BY <6>1
        <5>2. CASE i = 5 + Dimensions
          <6>1. card.name = "GCOUNT" /\ i - (3 + Dimensions) = 2
            BY <1>1, <1>3, <2>1, <3>1, <4>1, <4>3, <5>2 DEF Fits, Key
          <6> QED
            BY <6>1
        <5> QED
          BY <1>1, <4>1, <4>3, <5>1, <5>2, SMTT(20)
      <4> QED
        BY <1>1, <2>1, <3>1, <4>1, <4>2, <4>3
    <3>2. CASE ~(i > 3)
      BY <1>1, <2>1, <3>2
    <3> QED
      BY <3>1, <3>2
  <2>2. CASE i # place
    <3>1. i \in DOMAIN text /\ text'[i] = text[i]
      BY <1>1, <2>2
    <3>2. CASE i > 3
      <4>1. Dimensions' = Dimensions
        BY <1>1, <1>6, <3>1, <3>2
      <4> QED
        BY <3>1, <3>2, <4>1 DEF InOrder
    <3>3. CASE ~(i > 3)
      BY <3>1, <3>3 DEF InOrder
    <3> QED
      BY <3>2, <3>3
  <2> QED
    BY <2>1, <2>2
<1>8. ASSUME NEW i \in DOMAIN text', NEW j \in DOMAIN text', i < j,
             text'[i].name = text'[j].name, text'[i].n = text'[j].n
      PROVE  text'[i].name = "COMMENT"
  <2>1. i \in DOMAIN text /\ text'[i] = text[i]
    BY <1>1, <1>8
  <2>2. CASE j = place
    <3>1. Key(text[i]) = Key(card) /\ card.name = text[i].name
      BY <1>1, <1>8, <2>1, <2>2 DEF Key
    <3>2. Recorded(card) => Recorded(text[i]) /\ Key(text[i]) \in DOMAIN h
      BY <2>1, <3>1 DEF Recorded, Lookup
    <3> QED
      BY <2>1, <3>1, <3>2 DEF Recorded
  <2>3. CASE j # place
    <3>1. j \in DOMAIN text /\ text'[j] = text[j]
      BY <1>1, <2>3
    <3> QED
      BY <1>8, <2>1, <3>1 DEF InOrder
  <2> QED
    BY <2>2, <2>3
<1>9. ASSUME NEW i \in DOMAIN text', i <= 3
      PROVE  /\ text'[i].name = <<IF index = 0 THEN "SIMPLE" ELSE "XTENSION",
                                  "BITPIX", "NAXIS">>[i]
             /\ text'[i].n = 0
  <2>1. i \in {1, 2, 3}
    BY <1>1, <1>9
  <2>2. text'[i].n = 0
    BY <1>4, <1>9 DEF Opened
  <2>3. CASE i = 1
    BY <1>4, <2>2, <2>3 DEF Opened
  <2>4. CASE i = 2
    BY <1>4, <2>2, <2>4 DEF Opened
  <2>5. CASE i = 3
    BY <1>4, <2>2, <2>5 DEF Opened
  <2> QED
    BY <2>1, <2>3, <2>4, <2>5
<1> QED
  BY <1>7, <1>8, <1>9 DEF InOrder

(* A card the walk refuses breaks the order. *)
LEMMA RefusedCard ==
  ASSUME text \in Seq(Cards), InOrder, Lookup, index \in Nat, index' = index,
         NEW card \in Cards, text' = Append(text, card),
         \/ card.name = "BROKEN"
         \/ ~Fits(card, Len(text) + 1)
         \/ Recorded(card) /\ Key(card) \in DOMAIN h
  PROVE  ~InOrder'
<1> SUFFICES ASSUME InOrder' PROVE FALSE
  OBVIOUS
<1> DEFINE place == Len(text) + 1
<1>1. /\ text' \in Seq(Cards)
      /\ place \in Nat \ {0} /\ Len(text) = place - 1 /\ Len(text') = place
      /\ DOMAIN text = 1..(place - 1) /\ DOMAIN text' = 1..place
      /\ \A i \in DOMAIN text : text'[i] = text[i]
      /\ text'[place] = card
  BY NextText
<1>2. Dimensions = IF place > 3 THEN text[3].value ELSE 0
  BY <1>1, NaxisIsThird, InOrderOpens
<1>3. Opened' /\ Dimensions' = IF place >= 3 THEN text'[3].value ELSE 0
  <2>1. (text \in Seq(Cards) /\ InOrder => Opened)'
    BY InOrderOpens, PTL
  <2>2. (text \in Seq(Cards) /\ Opened =>
           Dimensions = IF Len(text) >= 3 THEN text[3].value ELSE 0)'
    BY NaxisIsThird, PTL
  <2> QED
    BY <1>1, <2>1, <2>2
<1>4. place > 3 => Dimensions' = Dimensions
  BY <1>1, <1>2, <1>3
<1>5. card.name # "BROKEN"
  BY <1>1 DEF InOrder
<1>6. ~(Recorded(card) /\ Key(card) \in DOMAIN h)
  <2> SUFFICES ASSUME Recorded(card), Key(card) \in DOMAIN h PROVE FALSE
    OBVIOUS
  <2>1. PICK i \in DOMAIN text : Recorded(text[i]) /\ Key(text[i]) = Key(card)
    BY DEF Lookup
  <2>2. /\ i \in DOMAIN text' /\ place \in DOMAIN text' /\ i < place
        /\ text'[i].name = card.name /\ text'[i].n = card.n
    BY <1>1, <2>1 DEF Key
  <2>3. text'[i].name = "COMMENT"
    BY <1>1, <2>2 DEF InOrder
  <2> QED
    BY <2>2, <2>3 DEF Recorded
<1>7. Fits(card, place)
  <2>1. place \in DOMAIN text' /\ text'[place] = card
    BY <1>1
  <2>2. card.name # "NAXIS" => card.n = 0
    BY CardIsKnown
  <2>3. CASE place <= 3
    BY <1>1, <1>3, <2>1, <2>3 DEF Opened, Fits, Key
  <2>4. CASE place > 3
    <3>1. Dimensions \in 0..MaxAxes /\ Dimensions \in Nat
      BY <1>4, <2>1, <2>4, FitsAssumption DEF InOrder
    <3>2. place <= 3 + Dimensions => Key(card) = <<"NAXIS", place - 3>>
      BY <1>4, <2>1, <2>4 DEF InOrder, Key
    <3>3. ASSUME index > 0, place = 4 + Dimensions PROVE Key(card) = <<"PCOUNT", 0>>
      <4>1. place - (3 + Dimensions) = 1
        BY <3>1, <3>3
      <4>2. card.name = <<"PCOUNT", "GCOUNT">>[1]
        BY <1>4, <2>1, <2>4, <3>3, <4>1 DEF InOrder
      <4> QED
        BY <2>2, <4>2 DEF Key
    <3>4. ASSUME index > 0, place = 5 + Dimensions PROVE Key(card) = <<"GCOUNT", 0>>
      <4>1. place - (3 + Dimensions) = 2
        BY <3>1, <3>4
      <4>2. card.name = <<"PCOUNT", "GCOUNT">>[2]
        BY <1>4, <2>1, <2>4, <3>4, <4>1 DEF InOrder
      <4> QED
        BY <2>2, <4>2 DEF Key
    <3> QED
      BY <1>1, <2>4, <3>1, <3>2, <3>3, <3>4 DEF Fits
  <2> QED
    BY <1>1, <2>3, <2>4
<1> QED
  BY <1>5, <1>6, <1>7
-----------------------------------------------------------------------------
(* A header whose END has been read: what the walk computes from the map   *)
(* is what the cards say.                                                  *)

HeaderRead ==
  /\ text \in Seq(Cards) /\ InOrder /\ Lookup /\ Closed
  /\ index \in Nat /\ start \in Nat

(* The product the walk computes is the volume of the cards. *)
LEMMA VolumeIsProduct ==
  \A n : Volume(n) = Product([k \in 1..Dimensions |-> Extent(k)], n)
  BY DEF Volume, Product

(* The definitions that read the header only keep their value with it. *)
LEMMA Unchanged ==
  ASSUME UNCHANGED <<header, hdu>>
  PROVE  /\ Lookup' = Lookup /\ InOrder' = InOrder /\ Closed' = Closed
         /\ Legal' = Legal /\ Supported' = Supported
         /\ UnitEnd' = UnitEnd /\ HeaderEnd' = HeaderEnd
         /\ SaidDecoded' = SaidDecoded
         /\ \A k, d : Says(k, d)' = Says(k, d)
<1>1. text' = text /\ h' = h /\ index' = index /\ start' = start
  BY DEF header, hdu
<1>2. \A k, d : Says(k, d)' = Says(k, d)
  BY <1>1 DEF Says, Occurrences
<1>3. Dimensions' = Dimensions
  BY <1>1 DEF Dimensions, Says, Occurrences
<1>4. \A k : Extent(k)' = Extent(k)
  BY <1>1 DEF Extent
<1>5. \A n : Volume(n)' = Volume(n)
  <2>1. (\A n : Volume(n) = Product([k \in 1..Dimensions |-> Extent(k)], n))'
    BY VolumeIsProduct, PTL
  <2> QED
    BY <1>3, <1>4, <2>1, VolumeIsProduct
<1>6. InOrder' = InOrder
  BY <1>1, <1>3 DEF InOrder
<1>7. Lookup' = Lookup /\ Closed' = Closed
  BY <1>1, <1>3 DEF Lookup, Closed
<1>8. SaidType' = SaidType /\ HeaderEnd' = HeaderEnd /\ SaidSize' = SaidSize
  BY <1>1, <1>2, <1>3, <1>5 DEF SaidType, HeaderEnd, SaidSize
<1>9. UnitEnd' = UnitEnd /\ SaidDecoded' = SaidDecoded
  BY <1>2, <1>8 DEF UnitEnd, SaidDecoded
<1>10. Legal' = Legal
  BY <1>1, <1>2, <1>3, <1>4, <1>5, <1>6, <1>8, <1>9 DEF Legal
<1>11. Supported' = Supported
  BY <1>1, <1>2, <1>8 DEF Supported
<1> QED
  BY <1>2, <1>6, <1>7, <1>8, <1>9, <1>10, <1>11

(* What the map says of a keyword, the cards say. *)
LEMMA SaysIs ==
  ASSUME HeaderRead, NEW name, NEW default,
         name \in {"SIMPLE", "XTENSION", "BITPIX", "NAXIS", "PCOUNT", "GCOUNT",
                   "GROUPS", "TFIELDS", "ZIMAGE", "DATASUM", "CHECKSUM"}
  PROVE  Says(name, default) = Optional(name, default)
<1>1. text \in Seq(Cards) /\ InOrder /\ Lookup =>
        \A d : Says(name, d) = Optional(name, d)
  BY SaysIsOptional
<1> QED
  BY <1>1 DEF HeaderRead

(* The keywords that a complete header has. *)
LEMMA MandatoryAreRead ==
  ASSUME HeaderRead
  PROVE  /\ Dimensions \in 0..MaxAxes /\ Dimensions \in Nat
         /\ Len(text) \in Nat /\ Len(text) > 3
         /\ Number("NAXIS", 0) = Dimensions
         /\ Has("BITPIX")
         /\ index > 0 => Has("XTENSION")
         /\ index > 0 => Has("PCOUNT") /\ Has("GCOUNT")
         /\ \A k \in 1..Dimensions :
              Number("NAXIS", k) = Extent(k) /\ Extent(k) \in -1..MaxInt
<1>1. /\ Dimensions \in 0..MaxAxes /\ Dimensions \in Nat /\ Len(text) \in Nat
      /\ Len(text) > 3 + Dimensions
      /\ index > 0 => Len(text) > 5 + Dimensions
      /\ index \in Nat /\ DOMAIN text = 1..Len(text) /\ Opened
  BY InOrderOpens, FitsAssumption DEF HeaderRead, Closed
<1>2. Number("NAXIS", 0) = Dimensions
  BY <1>1, NumberIsDimensions DEF HeaderRead
<1>3. ASSUME NEW i \in DOMAIN text, Recorded(text[i])
      PROVE  Key(text[i]) \in DOMAIN h /\ h[Key(text[i])] = text[i].value
  BY <1>3 DEF HeaderRead, Lookup
<1>4. Has("BITPIX")
  <2>1. 2 \in DOMAIN text /\ Key(text[2]) = <<"BITPIX", 0>> /\ Recorded(text[2])
    BY <1>1 DEF Opened, Key, Recorded
  <2> QED
    BY <1>3, <2>1 DEF Has
<1>5. index > 0 => Has("XTENSION")
  <2> SUFFICES ASSUME index > 0 PROVE Has("XTENSION")
    OBVIOUS
  <2>1. 1 \in DOMAIN text /\ Key(text[1]) = <<"XTENSION", 0>> /\ Recorded(text[1])
    BY <1>1 DEF Opened, Key, Recorded
  <2> QED
    BY <1>3, <2>1 DEF Has
<1>6. ASSUME index > 0 PROVE Has("PCOUNT") /\ Has("GCOUNT")
  <2> DEFINE p == 4 + Dimensions
             g == 5 + Dimensions
  <2>1. p \in DOMAIN text /\ g \in DOMAIN text /\ p > 3 /\ g > 3
    BY <1>1, <1>6
  <2>2. p - (3 + Dimensions) = 1 /\ g - (3 + Dimensions) = 2
    BY <1>1
  <2> HIDE DEF p, g
  <2>3. text[p].name = <<"PCOUNT", "GCOUNT">>[1] /\ text[g].name = <<"PCOUNT", "GCOUNT">>[2]
    BY <1>6, <2>1, <2>2 DEF HeaderRead, InOrder
  <2>4. text[p].name = "PCOUNT" /\ text[g].name = "GCOUNT"
    BY <2>3
  <2>5. text[p].n = 0 /\ text[g].n = 0
    BY <2>1, <2>4, CardFields DEF HeaderRead
  <2>6. /\ Key(text[p]) = <<"PCOUNT", 0>> /\ Recorded(text[p])
        /\ Key(text[g]) = <<"GCOUNT", 0>> /\ Recorded(text[g])
    BY <2>4, <2>5 DEF Key, Recorded
  <2> QED
    BY <1>3, <2>1, <2>6 DEF Has
<1>7. ASSUME NEW k \in 1..Dimensions
      PROVE  Number("NAXIS", k) = Extent(k) /\ Extent(k) \in -1..MaxInt
  <2>1. /\ 3 + k \in DOMAIN text /\ 3 + k > 3 /\ 3 + k <= 3 + Dimensions
        /\ (3 + k) - 3 = k
    BY <1>1
  <2>2. text[3 + k].name = "NAXIS" /\ text[3 + k].n = k
    BY <2>1 DEF HeaderRead, InOrder
  <2>3. Key(text[3 + k]) = <<"NAXIS", k>> /\ Recorded(text[3 + k])
    BY <2>2 DEF Key, Recorded
  <2>4. text[3 + k].value \in -1..MaxInt
    BY <2>1, <2>2, CardFields, FitsAssumption DEF HeaderRead
  <2> QED
    BY <1>3, <2>1, <2>3, <2>4 DEF Number, Extent
<1> QED
  BY <1>1, <1>2, <1>4, <1>5, <1>6, <1>7

(* What a recorded keyword can say. *)
LEMMA KnownValues ==
  ASSUME HeaderRead
  PROVE  /\ Has("PCOUNT") => h[<<"PCOUNT", 0>>] \in -1..MaxInt
         /\ Has("GCOUNT") => h[<<"GCOUNT", 0>>] \in -1..MaxInt
         /\ Has("TFIELDS") => h[<<"TFIELDS", 0>>] \in
              {"fits", "invalid", "unsupported", "limit"}
         /\ Has("ZIMAGE") => h[<<"ZIMAGE", 0>>] \in
              {"fits", "F", "invalid", "unsupported", "limit"}
         /\ \A k \in Sums \cap DOMAIN h : h[k] \in {"good", "bad", "malformed"}
<1>1. ASSUME NEW name, Has(name)
      PROVE  \E card \in Cards : card.name = name /\ card.value = h[<<name, 0>>]
  <2>1. PICK i \in DOMAIN text : Recorded(text[i]) /\ Key(text[i]) = <<name, 0>>
    BY <1>1 DEF HeaderRead, Lookup, Has
  <2>2. text[i] \in Cards /\ text[i].name = name /\ h[<<name, 0>>] = text[i].value
    BY <2>1 DEF HeaderRead, Lookup, Key
  <2> QED
    BY <2>2
<1>2. ASSUME NEW k \in Sums \cap DOMAIN h
      PROVE  h[k] \in {"good", "bad", "malformed"}
  <2>1. PICK name \in {"DATASUM", "CHECKSUM"} : k = <<name, 0>>
    BY DEF Sums
  <2>2. Has(name)
    BY <2>1 DEF Has
  <2> QED
    BY <1>1, <2>1, <2>2, FitsAssumption
<1> QED
  BY <1>1, <1>2, FitsAssumption

(* The walk computes the number, lengths and size that the cards state. *)
LEMMA WalkComputes ==
  ASSUME HeaderRead
  PROVE  /\ AxisLengths = [k \in 1..Dimensions |-> Extent(k)]
         /\ Axes = 1..Dimensions
         /\ \A n : Product(AxisLengths, n) = Volume(n)
         /\ Pcount = Says("PCOUNT", 0) /\ Pcount \in -1..MaxInt
         /\ Gcount = Says("GCOUNT", 1) /\ Gcount \in -1..MaxInt
         /\ \A d : h[<<"BITPIX", 0>>] = Says("BITPIX", d)
         /\ Kind = SaidType
         /\ Compressed <=> Says("ZIMAGE", "F") # "F"
         /\ DataSize = SaidSize /\ Declared = SaidDecoded
         /\ Data = HeaderEnd /\ Data \in Nat
         /\ HeaderSize \in Nat /\ HeaderSize % BlockSize = 0
         /\ Len(text) * CardSize <= HeaderSize /\ Len(text) * CardSize \in Nat
         /\ HeaderSize > 0
<1> USE MandatoryAreRead
<1>1. Axes = 1..Dimensions /\ AxisLengths = [k \in 1..Dimensions |-> Extent(k)]
  BY DEF Axes, AxisLengths
<1>2. \A n : Product(AxisLengths, n) = Volume(n)
  BY <1>1, VolumeIsProduct
<1>3. Pcount = Says("PCOUNT", 0) /\ Gcount = Says("GCOUNT", 1)
  <2>1. Says("PCOUNT", 0) = Optional("PCOUNT", 0) /\ Says("GCOUNT", 1) = Optional("GCOUNT", 1)
    BY SaysIs
  <2> QED
    BY <2>1 DEF Pcount, Gcount, Optional, Number, Has, HeaderRead
<1>4. Pcount \in -1..MaxInt /\ Gcount \in -1..MaxInt
  <2>1. MaxInt \in Nat \ {0} /\ index \in Nat
    BY FitsAssumption DEF HeaderRead
  <2>2. /\ Has("PCOUNT") => h[<<"PCOUNT", 0>>] \in -1..MaxInt
        /\ Has("GCOUNT") => h[<<"GCOUNT", 0>>] \in -1..MaxInt
    BY KnownValues
  <2>3. index > 0 => Has("PCOUNT") /\ Has("GCOUNT")
    OBVIOUS
  <2>4. 0 \in -1..MaxInt /\ 1 \in -1..MaxInt
    BY <2>1
  <2> HIDE MandatoryAreRead
  <2> QED
    BY <2>1, <2>2, <2>3, <2>4 DEF Pcount, Gcount, Optional, Number, Has
<1>5. \A d : h[<<"BITPIX", 0>>] = Says("BITPIX", d)
  BY SaysIs DEF Optional
<1>6. Kind = SaidType
  <2>1. Says("XTENSION", "none") = Optional("XTENSION", "none")
    BY SaysIs
  <2>2. index \in Nat /\ (index > 0 => Has("XTENSION"))
    BY DEF HeaderRead
  <2> HIDE MandatoryAreRead
  <2> QED
    BY <2>1, <2>2 DEF Kind, SaidType, Optional
<1>7. Compressed <=> Says("ZIMAGE", "F") # "F"
  <2>1. Says("ZIMAGE", "F") = Optional("ZIMAGE", "F")
    BY SaysIs
  <2> QED
    BY <2>1 DEF Compressed, Optional, Is
<1>8. DataSize = SaidSize
  <2>1. Elements = IF Dimensions = 0 THEN 0 ELSE Volume(Dimensions)
    <3>1. Axes = {} <=> Dimensions = 0
      BY <1>1
    <3> QED
      BY <1>2, <3>1 DEF Elements
  <2> QED
    BY <1>3, <1>5, <2>1 DEF DataSize, SaidSize
<1>9. Declared = SaidDecoded
  BY <1>7, <1>8 DEF Declared, SaidDecoded
<1>10. /\ Len(text) * CardSize \in Nat /\ Len(text) * CardSize > 0
  BY FitsAssumption
<1>11. /\ HeaderSize \in Nat /\ HeaderSize % BlockSize = 0
       /\ Len(text) * CardSize <= HeaderSize
       /\ HeaderSize = WholeBlocks(Len(text) * CardSize)
  BY <1>10, PaddedIsLeast DEF HeaderSize
<1>12. Data = HeaderEnd /\ Data \in Nat
  BY <1>11 DEF Data, HeaderEnd, HeaderRead
<1> QED
  BY <1>1, <1>2, <1>3, <1>4, <1>5, <1>6, <1>7, <1>8, <1>9, <1>10, <1>11, <1>12
-----------------------------------------------------------------------------
(* The checks on a header, one by one.                                     *)

(* A function on 1..n is a sequence of n entries. *)
LEMMA FromTo ==
  ASSUME NEW n \in Nat, NEW S, NEW f, f = [i \in 1..n |-> f[i]],
         \A i \in 1..n : f[i] \in S
  PROVE  f \in Seq(S) /\ Len(f) = n
<1>1. f \in [1..n -> S]
  OBVIOUS
<1> QED
  BY <1>1

Joined(a, b, c) == a \o b \o c

(* Where the entries of three joined lists stand. *)
LEMMA ThreeLists ==
  ASSUME NEW S, NEW a \in Seq(S), NEW b \in Seq(S), NEW c \in Seq(S)
  PROVE  /\ DOMAIN Joined(a, b, c) = 1..(Len(a) + Len(b) + Len(c))
         /\ \A i \in 1..Len(a) : Joined(a, b, c)[i] = a[i]
         /\ \A i \in 1..Len(b) : Joined(a, b, c)[Len(a) + i] = b[i]
         /\ \A i \in 1..Len(c) : Joined(a, b, c)[Len(a) + Len(b) + i] = c[i]
<1> DEFINE front == a \o b
<1>1. /\ front \in Seq(S) /\ Len(front) = Len(a) + Len(b)
      /\ \A i \in 1..Len(a) + Len(b) :
           front[i] = IF i <= Len(a) THEN a[i] ELSE b[i - Len(a)]
  BY ConcatProperties, Zenon
<1> HIDE DEF front
<1>2. /\ front \o c \in Seq(S) /\ Len(front \o c) = Len(front) + Len(c)
      /\ \A i \in 1..Len(front) + Len(c) :
           (front \o c)[i] = IF i <= Len(front) THEN front[i] ELSE c[i - Len(front)]
  <2>1. front \in Seq(S)
    BY <1>1
  <2> QED
    BY <2>1, ConcatProperties, Zenon
<1>3. Len(a) \in Nat /\ Len(b) \in Nat /\ Len(c) \in Nat
  OBVIOUS
<1>4. DOMAIN (front \o c) = 1..(Len(a) + Len(b) + Len(c))
  BY <1>1, <1>2, <1>3
<1>5. ASSUME NEW i \in 1..Len(a) PROVE (front \o c)[i] = a[i]
  BY <1>1, <1>2, <1>3
<1>6. ASSUME NEW i \in 1..Len(b) PROVE (front \o c)[Len(a) + i] = b[i]
  <2> DEFINE j == Len(a) + i
  <2>1. j \in 1..(Len(a) + Len(b)) /\ ~(j <= Len(a)) /\ j - Len(a) = i
    BY <1>3
  <2>2. j \in 1..(Len(front) + Len(c)) /\ j <= Len(front)
    BY <1>1, <1>3, <2>1
  <2> HIDE DEF j
  <2>3. (front \o c)[j] = b[i]
    BY <1>1, <1>2, <2>1, <2>2
  <2> QED
    BY <2>3 DEF j
<1>7. ASSUME NEW i \in 1..Len(c) PROVE (front \o c)[Len(a) + Len(b) + i] = c[i]
  <2> DEFINE j == Len(a) + Len(b) + i
  <2>1. j \in 1..(Len(front) + Len(c)) /\ ~(j <= Len(front)) /\ j - Len(front) = i
    BY <1>1, <1>3
  <2> HIDE DEF j
  <2>2. (front \o c)[j] = c[i]
    BY <1>2, <2>1
  <2> QED
    BY <2>2 DEF j
<1>8. Joined(a, b, c) = front \o c
  BY DEF Joined, front
<1> QED
  BY <1>4, <1>5, <1>6, <1>7, <1>8

(* The eighteen checks and where each list of them begins. *)
LEMMA ChecksInOrder ==
  /\ DOMAIN HeaderChecks = 1..18
  /\ \A i \in 1..4 : HeaderChecks[i] = FormChecks[i]
  /\ \A i \in 1..8 : HeaderChecks[4 + i] = SizeChecks[i]
  /\ \A i \in 1..6 : HeaderChecks[12 + i] = ContentChecks[i]
<1> DEFINE S == {FormChecks[i] : i \in 1..4} \cup {SizeChecks[i] : i \in 1..8}
                \cup {ContentChecks[i] : i \in 1..6}
<1>1. FormChecks = [i \in 1..4 |-> FormChecks[i]]
  BY DEF FormChecks
<1>2. SizeChecks = [i \in 1..8 |-> SizeChecks[i]]
  BY DEF SizeChecks
<1>3. ContentChecks = [i \in 1..6 |-> ContentChecks[i]]
  BY DEF ContentChecks
<1>4. /\ \A i \in 1..4 : FormChecks[i] \in S
      /\ \A i \in 1..8 : SizeChecks[i] \in S
      /\ \A i \in 1..6 : ContentChecks[i] \in S
  OBVIOUS
<1> HIDE DEF S
<1>5. FormChecks \in Seq(S) /\ Len(FormChecks) = 4
  BY <1>1, <1>4, FromTo
<1>6. SizeChecks \in Seq(S) /\ Len(SizeChecks) = 8
  BY <1>2, <1>4, FromTo
<1>7. ContentChecks \in Seq(S) /\ Len(ContentChecks) = 6
  BY <1>3, <1>4, FromTo
<1>8. /\ DOMAIN HeaderChecks = 1..(4 + 8 + 6)
      /\ \A i \in 1..4 : HeaderChecks[i] = FormChecks[i]
      /\ \A i \in 1..8 : HeaderChecks[4 + i] = SizeChecks[i]
      /\ \A i \in 1..6 : HeaderChecks[4 + 8 + i] = ContentChecks[i]
  <2>1. HeaderChecks = Joined(FormChecks, SizeChecks, ContentChecks)
    BY DEF HeaderChecks, Joined
  <2>2. FormChecks \in Seq(S) /\ SizeChecks \in Seq(S) /\ ContentChecks \in Seq(S)
    BY <1>5, <1>6, <1>7
  <2> DEFINE all == Joined(FormChecks, SizeChecks, ContentChecks)
  <2>3. /\ DOMAIN all = 1..(Len(FormChecks) + Len(SizeChecks) + Len(ContentChecks))
        /\ \A i \in 1..Len(FormChecks) : all[i] = FormChecks[i]
        /\ \A i \in 1..Len(SizeChecks) :
             all[Len(FormChecks) + i] = SizeChecks[i]
        /\ \A i \in 1..Len(ContentChecks) :
             all[Len(FormChecks) + Len(SizeChecks) + i] = ContentChecks[i]
    BY <2>2, ThreeLists
  <2> HIDE DEF all
  <2>4. HeaderChecks = all
    BY <2>1 DEF all
  <2> QED
    BY <1>5, <1>6, <1>7, <2>3, <2>4
<1> QED
  BY <1>8

(* A set of numbers that is not empty has a least one. *)
LEMMA FirstOfSome ==
  ASSUME NEW T \in SUBSET Nat, T # {}
  PROVE  Min(T) \in T /\ \A x \in T : Min(T) <= x
<1>1. PICK m \in T : \A x \in T : m <= x
  <2> DEFINE R == {ss \in Nat \X Nat : ss[1] < ss[2]}
  <2>1. IsWellFoundedOn(R, Nat)
    BY NatLessThanWellFounded DEF OpToRel
  <2>2. PICK m \in T : \A x \in T : <<x, m>> \notin R
    <3> HIDE DEF R
    <3> QED
      BY <2>1, WFMin
  <2>3. ASSUME NEW x \in T, x < m PROVE FALSE
    <3>1. <<x, m>> \in Nat \X Nat /\ <<x, m>>[1] < <<x, m>>[2]
      BY <2>3
    <3> QED
      BY <2>2, <3>1
  <2> QED
    BY <2>3
<1>2. \A x \in T : (\A y \in T : x <= y) => x = m
  BY <1>1
<1> QED
  BY <1>1, <1>2 DEF Min

(* The walk ends with the error of the first check that fails. *)
LEMMA FirstFaultFails ==
  \/ FirstFault = "none" /\ \A i \in 1..18 : HeaderChecks[i] = "none"
  \/ \E m \in 1..18 :
       /\ HeaderChecks[m] # "none" /\ FirstFault = HeaderChecks[m]
       /\ \A i \in 1..(m - 1) : HeaderChecks[i] = "none"
<1> DEFINE failing == {i \in 1..18 : HeaderChecks[i] # "none"}
<1>1. FirstFault = IF failing = {} THEN "none" ELSE HeaderChecks[Min(failing)]
  BY ChecksInOrder DEF FirstFault
<1>2. CASE failing = {}
  BY <1>1, <1>2
<1>3. CASE failing # {}
  <2>1. Min(failing) \in failing /\ \A x \in failing : Min(failing) <= x
    <3>1. failing \in SUBSET Nat
      OBVIOUS
    <3> HIDE DEF failing
    <3> QED
      BY <1>3, <3>1, FirstOfSome
  <2>2. PICK m : m = Min(failing)
    OBVIOUS
  <2> QED
    BY <1>1, <1>3, <2>1, <2>2
<1> QED
  BY <1>2, <1>3

(* What each check looks at. *)
LEMMA FormFails ==
  /\ HeaderChecks[1] =
       Fault(headerBytes - Len(text) * CardSize + HeaderSize > MaxHeader, "limit")
  /\ HeaderChecks[2] =
       Fault(start + HeaderSize > size, "incomplete")
  /\ HeaderChecks[3] =
       Fault((index = 0 /\ ~Is("SIMPLE", "T")) \/ Is("GROUPS", "T"), "unsupported")
  /\ HeaderChecks[4] =
       Fault(h[<<"BITPIX", 0>>] \notin {8, 16, 32, 64, -32, -64}, "invalid")
<1>1. \A i \in 1..4 : HeaderChecks[i] = FormChecks[i]
  BY ChecksInOrder
<1>2. /\ HeaderChecks[1] = FormChecks[1] /\ HeaderChecks[2] = FormChecks[2]
      /\ HeaderChecks[3] = FormChecks[3] /\ HeaderChecks[4] = FormChecks[4]
  BY <1>1
<1> QED
  BY <1>2 DEF FormChecks

(* What the checks on the size look at. *)
LEMMA SizeFails ==
  /\ HeaderChecks[5] =
       Fault(\E n \in Axes : AxisLengths[n] = -1
       \/ Overflows(Product(AxisLengths, n)), "invalid")
  /\ HeaderChecks[6] =
       Fault(Pcount = -1 \/ Gcount = -1, "invalid")
  /\ HeaderChecks[7] =
       Fault(Gcount # 1, "unsupported")
  /\ HeaderChecks[8] =
       Fault(Kind = "IMAGE" /\ Pcount # 0, "invalid")
  /\ HeaderChecks[9] =
       Fault(Kind \in {"TABLE", "BINTABLE"}
       /\ (h[<<"BITPIX", 0>>] # 8 \/ Number("NAXIS", 0) # 2), "invalid")
  /\ HeaderChecks[10] =
       Fault(Kind \notin {"IMAGE", "TABLE", "BINTABLE"}, "unsupported")
  /\ HeaderChecks[11] =
       Fault(Overflows(DataSize + BlockSize - 1)
       \/ Overflows(Data + Padded(DataSize)), "invalid")
  /\ HeaderChecks[12] =
       Fault(Data + Padded(DataSize) > size, "incomplete")
<1>1. \A i \in 1..8 : HeaderChecks[4 + i] = SizeChecks[i]
  BY ChecksInOrder
<1>2. /\ HeaderChecks[5] = SizeChecks[1] /\ HeaderChecks[6] = SizeChecks[2]
      /\ HeaderChecks[7] = SizeChecks[3] /\ HeaderChecks[8] = SizeChecks[4]
      /\ HeaderChecks[9] = SizeChecks[5] /\ HeaderChecks[10] = SizeChecks[6]
      /\ HeaderChecks[11] = SizeChecks[7] /\ HeaderChecks[12] = SizeChecks[8]
  BY <1>1
<1> QED
  BY <1>2 DEF SizeChecks

(* What the checks on the content look at. *)
LEMMA ContentFails ==
  /\ HeaderChecks[13] =
       Fault(Kind = "TABLE" /\ Pcount # 0, "invalid")
  /\ HeaderChecks[14] =
       Fault(Kind \in {"TABLE", "BINTABLE"} /\ ~Is("TFIELDS", "fits"),
       Optional("TFIELDS", "invalid"))
  /\ HeaderChecks[15] =
       Fault(Compressed /\ Kind # "BINTABLE", "invalid")
  /\ HeaderChecks[16] =
       Fault(Compressed /\ ~Is("ZIMAGE", "fits"), Optional("ZIMAGE", "invalid"))
  /\ HeaderChecks[17] =
       Fault(decoded + Declared > MaxDecoded, "limit")
  /\ HeaderChecks[18] =
       Fault(Is("DATASUM", "malformed") \/ Is("CHECKSUM", "malformed"), "invalid")
<1>1. \A i \in 1..6 : HeaderChecks[12 + i] = ContentChecks[i]
  BY ChecksInOrder
<1>2. /\ HeaderChecks[13] = ContentChecks[1] /\ HeaderChecks[14] = ContentChecks[2]
      /\ HeaderChecks[15] = ContentChecks[3] /\ HeaderChecks[16] = ContentChecks[4]
      /\ HeaderChecks[17] = ContentChecks[5] /\ HeaderChecks[18] = ContentChecks[6]
  BY <1>1
<1> QED
  BY <1>2 DEF ContentChecks

(* With the checks on the numbers passed, the size of the data is known. *)
LEMMA SizeIsKnown ==
  ASSUME HeaderRead, \A i \in 4..6 : HeaderChecks[i] = "none"
  PROVE  /\ DataSize \in Nat
         /\ UnitEnd = Data + Padded(DataSize)
         /\ Padded(DataSize) \in Nat /\ Padded(DataSize) % BlockSize = 0
         /\ DataSize <= Padded(DataSize)
<1>1. /\ \A n \in Axes : ~Overflows(Product(AxisLengths, n))
      /\ Pcount # -1
      /\ h[<<"BITPIX", 0>>] \in {8, 16, 32, 64, -32, -64}
  <2>1. HeaderChecks[4] = "none" /\ HeaderChecks[5] = "none" /\ HeaderChecks[6] = "none"
    OBVIOUS
  <2> QED
    BY <2>1, FormFails, SizeFails DEF Fault
<1>2. /\ Axes = 1..Dimensions /\ Dimensions \in Nat
      /\ Number("NAXIS", 0) = Dimensions
      /\ Pcount \in -1..MaxInt /\ DataSize = SaidSize /\ Data = HeaderEnd
  BY WalkComputes, MandatoryAreRead
<1>3. MaxInt \in Nat
  BY FitsAssumption
<1>4. Pcount \in Nat
  BY <1>1, <1>2, <1>3
<1>5. Elements \in Nat
  <2>1. CASE Axes = {}
    BY <2>1 DEF Elements
  <2>2. CASE Axes # {}
    <3>1. Dimensions \in Axes
      BY <1>2, <2>2
    <3>2. Product(AxisLengths, Dimensions) \in 0..MaxInt
      BY <1>1, <3>1 DEF Overflows
    <3> QED
      BY <1>2, <1>3, <2>2, <3>2 DEF Elements
  <2> QED
    BY <2>1, <2>2
<1>6. Bytes(h[<<"BITPIX", 0>>]) \in Nat
  <2>1. \A b \in {8, 16, 32, 64, -32, -64} : Bytes(b) \in Nat
    BY DEF Bytes
  <2> QED
    BY <1>1, <2>1
<1>7. DataSize \in Nat
  <2>1. \A a, b, c \in Nat : (a + b) * c \in Nat
    OBVIOUS
  <2> QED
    BY <1>4, <1>5, <1>6, <2>1 DEF DataSize
<1>8. /\ Padded(DataSize) \in Nat /\ Padded(DataSize) % BlockSize = 0
      /\ DataSize <= Padded(DataSize) /\ WholeBlocks(DataSize) = Padded(DataSize)
  BY <1>7, PaddedIsLeast
<1>9. UnitEnd = Data + Padded(DataSize)
  BY <1>2, <1>8 DEF UnitEnd
<1> QED
  BY <1>7, <1>8, <1>9

(* The tests of the walk on logical keywords are those of the cards. *)
LEMMA KeywordsSay ==
  ASSUME HeaderRead
  PROVE  /\ Is("SIMPLE", "T") <=> Says("SIMPLE", "F") = "T"
         /\ Is("GROUPS", "T") <=> Says("GROUPS", "F") = "T"
         /\ Is("DATASUM", "malformed") <=> Says("DATASUM", "good") = "malformed"
         /\ Is("CHECKSUM", "malformed") <=> Says("CHECKSUM", "good") = "malformed"
         /\ Optional("TFIELDS", "invalid") = Says("TFIELDS", "invalid")
         /\ Is("TFIELDS", "fits") <=> Says("TFIELDS", "invalid") = "fits"
         /\ Says("TFIELDS", "invalid") \in {"fits", "invalid", "unsupported", "limit"}
         /\ Says("TFIELDS", "invalid") # "invalid" =>
              Says("TFIELDS", "fits") = Says("TFIELDS", "invalid")
         /\ Is("ZIMAGE", "fits") <=> Says("ZIMAGE", "F") = "fits"
         /\ Says("ZIMAGE", "F") \in {"fits", "F", "invalid", "unsupported", "limit"}
         /\ Compressed => /\ Optional("ZIMAGE", "invalid") = Says("ZIMAGE", "F")
                          /\ Says("ZIMAGE", "fits") = Says("ZIMAGE", "F")
                          /\ Says("ZIMAGE", "F") # "F"
<1>1. /\ Says("SIMPLE", "F") = Optional("SIMPLE", "F")
      /\ Says("GROUPS", "F") = Optional("GROUPS", "F")
      /\ Says("DATASUM", "good") = Optional("DATASUM", "good")
      /\ Says("CHECKSUM", "good") = Optional("CHECKSUM", "good")
      /\ Says("TFIELDS", "invalid") = Optional("TFIELDS", "invalid")
      /\ Says("TFIELDS", "fits") = Optional("TFIELDS", "fits")
      /\ Says("ZIMAGE", "F") = Optional("ZIMAGE", "F")
      /\ Says("ZIMAGE", "fits") = Optional("ZIMAGE", "fits")
  BY SaysIs
<1>2. /\ Has("TFIELDS") => h[<<"TFIELDS", 0>>] \in
           {"fits", "invalid", "unsupported", "limit"}
      /\ Has("ZIMAGE") => h[<<"ZIMAGE", 0>>] \in
           {"fits", "F", "invalid", "unsupported", "limit"}
  BY KnownValues
<1> QED
  BY <1>1, <1>2 DEF Optional, Is, Compressed

(* A header that passes every check. *)
LEMMA PassedHeader ==
  ASSUME HeaderRead, size \in Sizes, decoded \in Nat, headerBytes \in Nat,
         \A i \in 1..18 : HeaderChecks[i] = "none"
  PROVE  /\ Legal /\ Supported /\ UnitEnd <= size
         /\ UnitEnd = Data + Padded(DataSize)
         /\ DataSize \in Nat /\ Declared \in Nat
         /\ decoded + Declared <= MaxDecoded
         /\ headerBytes - Len(text) * CardSize + HeaderSize <= MaxHeader
<1>1. /\ HeaderChecks[1] = "none" /\ HeaderChecks[2] = "none"
      /\ HeaderChecks[3] = "none" /\ HeaderChecks[4] = "none"
      /\ HeaderChecks[5] = "none" /\ HeaderChecks[6] = "none"
      /\ HeaderChecks[7] = "none" /\ HeaderChecks[8] = "none"
      /\ HeaderChecks[9] = "none" /\ HeaderChecks[10] = "none"
      /\ HeaderChecks[11] = "none" /\ HeaderChecks[12] = "none"
  OBVIOUS
<1>2. /\ HeaderChecks[13] = "none" /\ HeaderChecks[14] = "none"
      /\ HeaderChecks[15] = "none" /\ HeaderChecks[16] = "none"
      /\ HeaderChecks[17] = "none" /\ HeaderChecks[18] = "none"
  OBVIOUS
<1>3. /\ DataSize \in Nat /\ UnitEnd = Data + Padded(DataSize)
      /\ Padded(DataSize) \in Nat
  BY SizeIsKnown
<1>4. /\ MaxInt \in Nat /\ BlockSize \in Nat \ {0} /\ MaxHeader \in Nat
      /\ MaxDecoded \in Nat /\ TileBytes \in Nat
      /\ size \in Nat /\ size + 2 * BlockSize <= MaxInt
  BY FitsAssumption
<1>5. /\ Data = HeaderEnd /\ Data \in Nat /\ HeaderSize \in Nat
      /\ Len(text) * CardSize \in Nat
      /\ Axes = 1..Dimensions /\ AxisLengths = [k \in 1..Dimensions |-> Extent(k)]
      /\ \A n : Product(AxisLengths, n) = Volume(n)
      /\ Pcount = Says("PCOUNT", 0) /\ Gcount = Says("GCOUNT", 1)
      /\ \A d : h[<<"BITPIX", 0>>] = Says("BITPIX", d)
      /\ Kind = SaidType
      /\ Compressed <=> Says("ZIMAGE", "F") # "F"
  BY WalkComputes
<1>6. headerBytes - Len(text) * CardSize + HeaderSize <= MaxHeader
  <2>1. ~(headerBytes - Len(text) * CardSize + HeaderSize > MaxHeader)
    BY <1>1, FormFails DEF Fault
  <2> QED
    BY <1>4, <1>5, <2>1
<1>7. Declared \in Nat /\ decoded + Declared <= MaxDecoded
  <2>1. Declared \in Nat
    BY <1>3, <1>4 DEF Declared
  <2>2. ~(decoded + Declared > MaxDecoded)
    BY <1>2, ContentFails DEF Fault
  <2> QED
    BY <1>4, <2>1, <2>2
<1>8. UnitEnd <= size
  <2>1. ~(Data + Padded(DataSize) > size)
    BY <1>1, SizeFails DEF Fault
  <2> QED
    BY <1>3, <1>4, <1>5, <2>1
<1>9. UnitEnd + BlockSize <= MaxInt
  BY <1>3, <1>4, <1>5, <1>8
<1>10. Kind \in {"IMAGE", "TABLE", "BINTABLE"} /\ Gcount = 1 /\ Pcount # -1
  BY <1>1, SizeFails DEF Fault
<1>11. Supported
  <2>1. (index = 0 => Is("SIMPLE", "T")) /\ ~Is("GROUPS", "T")
    BY <1>1, FormFails DEF Fault
  <2> QED
    BY <1>5, <1>10, <2>1, KeywordsSay DEF Supported
<1>12. \A n \in 1..Dimensions : Extent(n) # -1 /\ Volume(n) \in 0..MaxInt
  <2>1. ~(\E n \in Axes : AxisLengths[n] = -1 \/ Overflows(Product(AxisLengths, n)))
    BY <1>1, SizeFails DEF Fault
  <2> QED
    BY <1>5, <2>1 DEF Overflows
<1>13. Says("BITPIX", 7) \in {8, 16, 32, 64, -32, -64}
  <2>1. ~(h[<<"BITPIX", 0>>] \notin {8, 16, 32, 64, -32, -64})
    BY <1>1, FormFails DEF Fault
  <2> QED
    BY <1>5, <2>1
<1>14. ~(Kind = "IMAGE" /\ Pcount # 0) /\ ~(Kind = "TABLE" /\ Pcount # 0)
  BY <1>1, <1>2, SizeFails, ContentFails DEF Fault
<1>15. ~(Compressed /\ Kind # "BINTABLE") /\ ~(Compressed /\ ~Is("ZIMAGE", "fits"))
  <2>1. Compressed => /\ Optional("ZIMAGE", "invalid") = Says("ZIMAGE", "F")
                      /\ Says("ZIMAGE", "F") \in {"fits", "invalid", "unsupported", "limit"}
    BY KeywordsSay
  <2> QED
    BY <1>2, <2>1, ContentFails DEF Fault
<1>16. ~(Kind \in {"TABLE", "BINTABLE"} /\ ~Is("TFIELDS", "fits"))
  <2>1. /\ Optional("TFIELDS", "invalid") = Says("TFIELDS", "invalid")
        /\ Says("TFIELDS", "invalid") \in {"fits", "invalid", "unsupported", "limit"}
    BY KeywordsSay
  <2> QED
    BY <1>2, <2>1, ContentFails DEF Fault
<1>17. Kind \in {"TABLE", "BINTABLE"} =>
         Dimensions = 2 /\ h[<<"BITPIX", 0>>] = 8
  <2>1. ~(Kind \in {"TABLE", "BINTABLE"}
            /\ (h[<<"BITPIX", 0>>] # 8 \/ Number("NAXIS", 0) # 2))
    BY <1>1, SizeFails DEF Fault
  <2>2. Number("NAXIS", 0) = Dimensions
    BY MandatoryAreRead
  <2> QED
    BY <2>1, <2>2
<1>18. ~Is("DATASUM", "malformed") /\ ~Is("CHECKSUM", "malformed")
  BY <1>2, ContentFails DEF Fault
<1>19. Legal
  <2>1. InOrder /\ text[Len(text)].name = "END"
    BY DEF HeaderRead, Closed
  <2>2. SaidType = "IMAGE" => Says("PCOUNT", 0) = 0 /\ Says("ZIMAGE", "F") = "F"
    BY <1>5, <1>14, <1>15
  <2>3. SaidType = "TABLE" => Says("PCOUNT", 0) = 0 /\ Says("ZIMAGE", "F") = "F"
    BY <1>5, <1>14, <1>15
  <2>4. SaidType \in {"TABLE", "BINTABLE"} =>
          /\ Dimensions = 2 /\ Says("BITPIX", 7) = 8
          /\ Says("TFIELDS", "invalid") # "invalid"
    <3>1. Is("TFIELDS", "fits") => Says("TFIELDS", "invalid") = "fits"
      BY KeywordsSay
    <3> QED
      BY <1>5, <1>16, <1>17, <3>1
  <2>5. Says("ZIMAGE", "F") # "invalid"
    <3>1. Is("ZIMAGE", "fits") => Says("ZIMAGE", "F") = "fits"
      BY KeywordsSay
    <3> QED
      BY <1>5, <1>15, <3>1
  <2>6. Says("DATASUM", "good") # "malformed" /\ Says("CHECKSUM", "good") # "malformed"
    BY <1>18, KeywordsSay
  <2>7. Says("PCOUNT", 0) # -1 /\ Says("GCOUNT", 1) # -1
    BY <1>5, <1>10
  <2> QED
    BY <1>9, <1>12, <1>13, <2>1, <2>2, <2>3, <2>4, <2>5, <2>6, <2>7 DEF Legal
<1> QED
  BY <1>3, <1>6, <1>7, <1>8, <1>11, <1>19

(* A header that fails a check, and passes those before it. *)
LEMMA RefusedHeader ==
  ASSUME HeaderRead, size \in Sizes, NEW m \in 1..18, HeaderChecks[m] # "none",
         \A i \in 1..(m - 1) : HeaderChecks[i] = "none"
  PROVE  /\ HeaderChecks[m] \in Kinds
         /\ HeaderChecks[m] = "invalid" => ~Legal
         /\ HeaderChecks[m] = "incomplete" => HeaderEnd > size \/ UnitEnd > size
         /\ HeaderChecks[m] = "unsupported" =>
              \/ ~Supported
              \/ "unsupported" \in {Says("TFIELDS", "fits"), Says("ZIMAGE", "fits")}
<1> DEFINE Goal ==
             /\ HeaderChecks[m] \in Kinds
             /\ HeaderChecks[m] = "invalid" => ~Legal
             /\ HeaderChecks[m] = "incomplete" => HeaderEnd > size \/ UnitEnd > size
             /\ HeaderChecks[m] = "unsupported" =>
                  \/ ~Supported
                  \/ "unsupported" \in {Says("TFIELDS", "fits"), Says("ZIMAGE", "fits")}
<1>1. ASSUME HeaderChecks[m] = "limit" PROVE Goal
  BY <1>1 DEF Kinds
<1>2. ASSUME HeaderChecks[m] = "invalid", ~Legal PROVE Goal
  BY <1>2 DEF Kinds
<1>3. ASSUME HeaderChecks[m] = "incomplete", HeaderEnd > size \/ UnitEnd > size
      PROVE  Goal
  BY <1>3 DEF Kinds
<1>4. ASSUME HeaderChecks[m] = "unsupported",
             \/ ~Supported
             \/ "unsupported" \in {Says("TFIELDS", "fits"), Says("ZIMAGE", "fits")}
      PROVE  Goal
  BY <1>4 DEF Kinds
<1> HIDE DEF Goal
<1>5. /\ MaxInt \in Nat /\ BlockSize \in Nat \ {0}
      /\ size \in Nat /\ size + 2 * BlockSize <= MaxInt
  BY FitsAssumption
<1>6. /\ Data = HeaderEnd /\ Data \in Nat /\ Data = start + HeaderSize
      /\ Axes = 1..Dimensions /\ AxisLengths = [k \in 1..Dimensions |-> Extent(k)]
      /\ \A n : Product(AxisLengths, n) = Volume(n)
      /\ Pcount = Says("PCOUNT", 0) /\ Gcount = Says("GCOUNT", 1)
      /\ \A d : h[<<"BITPIX", 0>>] = Says("BITPIX", d)
      /\ Kind = SaidType
      /\ Compressed <=> Says("ZIMAGE", "F") # "F"
  BY WalkComputes DEF Data
<1>7. m > 6 => /\ DataSize \in Nat /\ UnitEnd = Data + Padded(DataSize)
               /\ Padded(DataSize) \in Nat /\ DataSize <= Padded(DataSize)
  BY SizeIsKnown
<1>8. m \in {1, 17} => Goal
  BY <1>1, FormFails, ContentFails DEF Fault
<1>9. m = 2 => Goal
  BY <1>3, <1>6, FormFails DEF Fault
<1>10. m = 3 => Goal
  <2> SUFFICES ASSUME m = 3 PROVE Goal
    OBVIOUS
  <2>1. /\ HeaderChecks[m] = "unsupported"
        /\ (index = 0 /\ ~Is("SIMPLE", "T")) \/ Is("GROUPS", "T")
    BY FormFails DEF Fault
  <2>2. ~Supported
    BY <2>1, KeywordsSay DEF Supported
  <2> QED
    BY <1>4, <2>1, <2>2
<1>11. m = 4 => Goal
  BY <1>2, <1>6, FormFails DEF Fault, Legal
<1>12. m = 5 => Goal
  <2> SUFFICES ASSUME m = 5 PROVE Goal
    OBVIOUS
  <2>1. /\ HeaderChecks[m] = "invalid"
        /\ \E n \in Axes : AxisLengths[n] = -1 \/ Overflows(Product(AxisLengths, n))
    BY SizeFails DEF Fault
  <2>2. \E n \in 1..Dimensions : Extent(n) = -1 \/ Volume(n) \notin 0..MaxInt
    BY <1>6, <2>1 DEF Overflows
  <2>3. ~Legal
    BY <2>2 DEF Legal
  <2> QED
    BY <1>2, <2>1, <2>3
<1>13. m = 6 => Goal
  <2> SUFFICES ASSUME m = 6 PROVE Goal
    OBVIOUS
  <2>1. HeaderChecks[m] = "invalid" /\ (Pcount = -1 \/ Gcount = -1)
    BY SizeFails DEF Fault
  <2>2. ~Legal
    BY <1>6, <2>1 DEF Legal
  <2> QED
    BY <1>2, <2>1, <2>2
<1>14. m = 7 => Goal
  <2> SUFFICES ASSUME m = 7 PROVE Goal
    OBVIOUS
  <2>1. HeaderChecks[m] = "unsupported" /\ Gcount # 1
    BY SizeFails DEF Fault
  <2>2. ~Supported
    BY <1>6, <2>1 DEF Supported
  <2> QED
    BY <1>4, <2>1, <2>2
<1>15. m \in {8, 13} => Goal
  <2> SUFFICES ASSUME m \in {8, 13} PROVE Goal
    OBVIOUS
  <2>1. HeaderChecks[m] = "invalid" /\ Kind \in {"IMAGE", "TABLE"} /\ Pcount # 0
    BY SizeFails, ContentFails DEF Fault
  <2>2. ~Legal
    BY <1>6, <2>1 DEF Legal
  <2> QED
    BY <1>2, <2>1, <2>2
<1>16. m = 9 => Goal
  <2> SUFFICES ASSUME m = 9 PROVE Goal
    OBVIOUS
  <2>1. /\ HeaderChecks[m] = "invalid" /\ Kind \in {"TABLE", "BINTABLE"}
        /\ h[<<"BITPIX", 0>>] # 8 \/ Number("NAXIS", 0) # 2
    BY SizeFails DEF Fault
  <2>2. Number("NAXIS", 0) = Dimensions
    BY MandatoryAreRead
  <2>3. ~Legal
    BY <1>6, <2>1, <2>2 DEF Legal
  <2> QED
    BY <1>2, <2>1, <2>3
<1>17. m = 10 => Goal
  <2> SUFFICES ASSUME m = 10 PROVE Goal
    OBVIOUS
  <2>1. HeaderChecks[m] = "unsupported" /\ Kind \notin {"IMAGE", "TABLE", "BINTABLE"}
    BY SizeFails DEF Fault
  <2>2. ~Supported
    BY <1>6, <2>1 DEF Supported
  <2> QED
    BY <1>4, <2>1, <2>2
<1>18. m = 11 => Goal
  <2> SUFFICES ASSUME m = 11 PROVE Goal
    OBVIOUS
  <2>1. /\ HeaderChecks[m] = "invalid"
        /\ \/ Overflows(DataSize + BlockSize - 1)
           \/ Overflows(Data + Padded(DataSize))
    BY SizeFails DEF Fault
  <2>2. /\ DataSize \in Nat /\ UnitEnd = Data + Padded(DataSize)
        /\ Padded(DataSize) \in Nat /\ DataSize <= Padded(DataSize)
    BY <1>7
  <2>3. \/ DataSize + BlockSize - 1 > MaxInt
        \/ Data + Padded(DataSize) > MaxInt
    BY <1>5, <1>6, <2>1, <2>2 DEF Overflows
  <2>4. ~(UnitEnd + BlockSize <= MaxInt)
    BY <1>5, <1>6, <2>2, <2>3, SMTT(20)
  <2>5. ~Legal
    BY <2>4 DEF Legal
  <2> QED
    BY <1>2, <2>1, <2>5
<1>19. m = 12 => Goal
  <2> SUFFICES ASSUME m = 12 PROVE Goal
    OBVIOUS
  <2>1. HeaderChecks[m] = "incomplete" /\ Data + Padded(DataSize) > size
    BY SizeFails DEF Fault
  <2> QED
    BY <1>3, <1>7, <2>1
<1>20. m = 14 => Goal
  <2> SUFFICES ASSUME m = 14 PROVE Goal
    OBVIOUS
  <2>1. /\ HeaderChecks[m] = Says("TFIELDS", "invalid")
        /\ Kind \in {"TABLE", "BINTABLE"} /\ Says("TFIELDS", "invalid") # "fits"
    BY ContentFails, KeywordsSay DEF Fault
  <2>2. CASE Says("TFIELDS", "invalid") = "invalid"
    BY <1>2, <1>6, <2>1, <2>2 DEF Legal
  <2>3. CASE Says("TFIELDS", "invalid") = "unsupported"
    BY <1>4, <2>1, <2>3, KeywordsSay
  <2>4. CASE Says("TFIELDS", "invalid") = "limit"
    BY <1>1, <2>1, <2>4
  <2> QED
    BY <2>1, <2>2, <2>3, <2>4, KeywordsSay
<1>21. m = 15 => Goal
  <2> SUFFICES ASSUME m = 15 PROVE Goal
    OBVIOUS
  <2>1. HeaderChecks[m] = "invalid" /\ Compressed /\ Kind # "BINTABLE"
    BY ContentFails DEF Fault
  <2>2. Kind \in {"IMAGE", "TABLE", "BINTABLE"}
    <3>1. HeaderChecks[10] = "none"
      OBVIOUS
    <3> QED
      BY <3>1, SizeFails DEF Fault
  <2>3. ~Legal
    BY <1>6, <2>1, <2>2 DEF Legal
  <2> QED
    BY <1>2, <2>1, <2>3
<1>22. m = 16 => Goal
  <2> SUFFICES ASSUME m = 16 PROVE Goal
    OBVIOUS
  <2>1. /\ Compressed /\ ~Is("ZIMAGE", "fits")
        /\ HeaderChecks[m] = Optional("ZIMAGE", "invalid")
    BY ContentFails DEF Fault
  <2>2. /\ HeaderChecks[m] = Says("ZIMAGE", "F")
        /\ Says("ZIMAGE", "F") \in {"invalid", "unsupported", "limit"}
        /\ Says("ZIMAGE", "fits") = Says("ZIMAGE", "F")
    BY <2>1, KeywordsSay
  <2>3. CASE Says("ZIMAGE", "F") = "invalid"
    BY <1>2, <2>2, <2>3 DEF Legal
  <2>4. CASE Says("ZIMAGE", "F") = "unsupported"
    BY <1>4, <2>2, <2>4
  <2>5. CASE Says("ZIMAGE", "F") = "limit"
    BY <1>1, <2>2, <2>5
  <2> QED
    BY <2>2, <2>3, <2>4, <2>5
<1>23. m = 18 => Goal
  <2> SUFFICES ASSUME m = 18 PROVE Goal
    OBVIOUS
  <2>1. /\ HeaderChecks[m] = "invalid"
        /\ Is("DATASUM", "malformed") \/ Is("CHECKSUM", "malformed")
    BY ContentFails DEF Fault
  <2>2. ~Legal
    BY <2>1, KeywordsSay DEF Legal
  <2> QED
    BY <1>2, <2>1, <2>2
<1>24. Goal
  <2>1. m \in {1, 17} \/ m \in {8, 13} \/ m = 2 \/ m = 3 \/ m = 4 \/ m = 5
        \/ m = 6 \/ m = 7 \/ m = 9 \/ m = 10 \/ m = 11 \/ m = 12 \/ m = 14
        \/ m = 15 \/ m = 16 \/ m = 18
    OBVIOUS
  <2> QED
    BY <1>8, <1>9, <1>10, <1>11, <1>12, <1>13, <1>14, <1>15, <1>16, <1>17,
       <1>18, <1>19, <1>20, <1>21, <1>22, <1>23, <2>1
<1> QED
  BY <1>24 DEF Goal

(* No check on a header is on its checksums, or on what they cover. *)
LEMMA ChecksAreNoSums ==
  ASSUME HeaderRead, NEW m \in 1..18
  PROVE  HeaderChecks[m] # "integrity"
<1>1. /\ HeaderChecks[1] # "integrity" /\ HeaderChecks[2] # "integrity"
      /\ HeaderChecks[3] # "integrity" /\ HeaderChecks[4] # "integrity"
  BY FormFails DEF Fault
<1>2. /\ HeaderChecks[5] # "integrity" /\ HeaderChecks[6] # "integrity"
      /\ HeaderChecks[7] # "integrity" /\ HeaderChecks[8] # "integrity"
      /\ HeaderChecks[9] # "integrity" /\ HeaderChecks[10] # "integrity"
      /\ HeaderChecks[11] # "integrity" /\ HeaderChecks[12] # "integrity"
  BY SizeFails DEF Fault
<1>3. /\ HeaderChecks[13] # "integrity" /\ HeaderChecks[15] # "integrity"
      /\ HeaderChecks[17] # "integrity" /\ HeaderChecks[18] # "integrity"
  BY ContentFails DEF Fault
<1>4. HeaderChecks[14] # "integrity" /\ HeaderChecks[16] # "integrity"
  BY ContentFails, KeywordsSay DEF Fault
<1> QED
  BY <1>1, <1>2, <1>3, <1>4

(* A header that exceeds a limit. *)
LEMMA RefusedForLimit ==
  ASSUME HeaderRead, NEW m \in 1..18, HeaderChecks[m] = "limit"
  PROVE  \/ headerBytes - Len(text) * CardSize + HeaderSize > MaxHeader
         \/ decoded + Declared > MaxDecoded
         \/ "limit" \in {Says("TFIELDS", "fits"), Says("ZIMAGE", "fits")}
<1>1. CASE m = 1
  BY <1>1, FormFails DEF Fault
<1>2. CASE m = 17
  BY <1>2, ContentFails DEF Fault
<1>3. CASE m = 14
  <2>1. HeaderChecks[m] = Says("TFIELDS", "invalid")
    BY <1>3, ContentFails, KeywordsSay DEF Fault
  <2> QED
    BY <2>1, KeywordsSay
<1>4. CASE m = 16
  <2>1. Compressed /\ HeaderChecks[m] = Optional("ZIMAGE", "invalid")
    BY <1>4, ContentFails DEF Fault
  <2> QED
    BY <2>1, KeywordsSay
<1>5. m \in {1, 14, 16, 17}
  <2>1. /\ HeaderChecks[2] # "limit" /\ HeaderChecks[3] # "limit"
        /\ HeaderChecks[4] # "limit"
    BY FormFails DEF Fault
  <2>2. /\ HeaderChecks[5] # "limit" /\ HeaderChecks[6] # "limit"
        /\ HeaderChecks[7] # "limit" /\ HeaderChecks[8] # "limit"
        /\ HeaderChecks[9] # "limit" /\ HeaderChecks[10] # "limit"
        /\ HeaderChecks[11] # "limit" /\ HeaderChecks[12] # "limit"
    BY SizeFails DEF Fault
  <2>3. /\ HeaderChecks[13] # "limit" /\ HeaderChecks[15] # "limit"
        /\ HeaderChecks[18] # "limit"
    BY ContentFails DEF Fault
  <2> QED
    BY <2>1, <2>2, <2>3
<1> QED
  BY <1>1, <1>2, <1>3, <1>4, <1>5
-----------------------------------------------------------------------------
(* The invariant holds from the start and is kept by every step.           *)

(* The walk starts in the invariant. *)
LEMMA InvInit == Init => Inv
<1> SUFFICES ASSUME Init PROVE Inv
  OBVIOUS
<1> USE DEF Init
<1>1. size \in Nat /\ 0 \in 0..size /\ 0 \in 0..MaxDecoded /\ 0 <= MaxHeader
      /\ 0 <= MaxStructures
  BY FitsAssumption
<1>2. hdus = <<>> /\ Len(hdus) = 0 /\ DOMAIN hdus = {} /\ hdus \in Seq(Units)
      /\ text = <<>> /\ DOMAIN text = {} /\ text \in Seq(Cards) /\ DOMAIN h = {}
  BY EmptySeq
<1>3. TypeOK
  BY <1>1, <1>2 DEF TypeOK, Kinds
<1>4. DecodedPassed = 0 /\ Summed = 0
  <2>1. DecodedPassed = Total([i \in {} |-> hdus[i].declared])
        /\ Summed = Total([i \in {} |-> Cardinality(hdus[i].sums)])
    BY <1>2 DEF DecodedPassed, Summed
  <2>2. \A f : f \in [{} -> Nat] => Total(f) = 0
    BY TotalZero
  <2> QED
    BY <2>1, <2>2
<1>5. HeaderIsRead
  BY <1>2 DEF HeaderIsRead, Lookup, Refused
<1>6. CountersAgree
  BY <1>2, <1>4 DEF CountersAgree
<1>7. UnitsFollow
  BY <1>2 DEF UnitsFollow, LastEnd
<1>8. UnitsTileTheFile /\ ReadUnitsAreLegal /\ DamageIsReal
  BY <1>2 DEF UnitsTileTheFile, ReadUnitsAreLegal, DamageIsReal
<1> QED
  BY <1>3, <1>5, <1>6, <1>7, <1>8 DEF Inv

(* Types that the steps rely on. *)
LEMMA Numbers ==
  ASSUME Inv
  PROVE  /\ size \in Nat /\ size \in Sizes /\ start \in Nat /\ offset \in Nat
         /\ index \in Nat /\ index = Len(hdus)
         /\ headerBytes \in Nat /\ structures \in Nat /\ decoded \in Nat
         /\ images \in Nat /\ present \in Nat /\ verified \in Nat
         /\ text \in Seq(Cards) /\ Len(text) \in Nat
         /\ CardSize \in Nat \ {0} /\ MaxHeader \in Nat /\ MaxStructures \in Nat
         /\ MaxDecoded \in Nat
<1>1. size \in Nat
  BY FitsAssumption DEF Inv, TypeOK
<1>2. Len(hdus) \in Nat
  BY DEF Inv, UnitsFollow
<1> QED
  BY <1>1, <1>2, FitsAssumption DEF Inv, TypeOK

(* Past the last card the header is complete, ordered and in the map. *)
LEMMA InvHeaderRead ==
  ASSUME Inv, phase \in {"header", "sums", "payload"}
  PROVE  HeaderRead
<1>1. InOrder /\ Lookup /\ Closed
  BY DEF Inv, HeaderIsRead, Refused
<1> QED
  BY <1>1, Numbers DEF HeaderRead

(* There are two checksum keywords. *)
LEMMA SumsAreFinite == IsFiniteSet(Sums)
<1>1. Sums = {<<"DATASUM", 0>>} \cup {<<"CHECKSUM", 0>>}
  BY DEF Sums
<1> QED
  BY <1>1, FS_Singleton, FS_AddElement

(* The checksums of the unit at work are a number. *)
LEMMA HereIsNumber == Here \in Nat
<1>1. IsFiniteSet(Sums)
  BY SumsAreFinite
<1>2. IsFiniteSet(Sums \cap DOMAIN h)
  BY <1>1, FS_Intersection
<1> QED
  BY <1>2, FS_CardinalityType DEF Here

(* The totals over the units passed are numbers. *)
LEMMA TotalsAreNumbers ==
  ASSUME hdus \in Seq(Units)
  PROVE  /\ DOMAIN hdus = 1..Len(hdus) /\ Len(hdus) \in Nat
         /\ IsFiniteSet(DOMAIN hdus)
         /\ [i \in DOMAIN hdus |-> hdus[i].declared] \in [DOMAIN hdus -> Nat]
         /\ [i \in DOMAIN hdus |-> Cardinality(hdus[i].sums)] \in [DOMAIN hdus -> Nat]
         /\ DecodedPassed \in Nat /\ Summed \in Nat
<1>1. DOMAIN hdus = 1..Len(hdus) /\ Len(hdus) \in Nat
  OBVIOUS
<1>2. IsFiniteSet(DOMAIN hdus)
  BY <1>1, FS_Interval
<1>3. IsFiniteSet(Sums)
  BY SumsAreFinite
<1>4. ASSUME NEW i \in DOMAIN hdus
      PROVE  hdus[i].declared \in Nat /\ hdus[i].sums \in SUBSET Sums
  <2>1. \A u \in Units : u.declared \in Nat /\ u.sums \in SUBSET Sums
    BY DEF Units
  <2>2. hdus[i] \in Units
    BY <1>1
  <2> QED
    BY <2>1, <2>2
<1>5. \A i \in DOMAIN hdus : Cardinality(hdus[i].sums) \in Nat
  BY <1>3, <1>4, FS_Subset, FS_CardinalityType
<1>6. [i \in DOMAIN hdus |-> hdus[i].declared] \in [DOMAIN hdus -> Nat]
  BY <1>4
<1>7. [i \in DOMAIN hdus |-> Cardinality(hdus[i].sums)] \in [DOMAIN hdus -> Nat]
  BY <1>5
<1>8. DecodedPassed \in Nat /\ Summed \in Nat
  BY <1>2, <1>6, <1>7, TotalType DEF DecodedPassed, Summed
<1> QED
  BY <1>1, <1>2, <1>6, <1>7, <1>8

(* What a step that leaves the header and the units alone leaves alone. *)
LEMMA Stays ==
  ASSUME UNCHANGED <<header, hdu, hdus>>
  PROVE  /\ Declared' = Declared /\ DataSize' = DataSize /\ Here' = Here
         /\ DecodedPassed' = DecodedPassed /\ Summed' = Summed /\ LastEnd' = LastEnd
         /\ Len(hdus)' = Len(hdus)
<1>1. h' = h /\ index' = index /\ hdus' = hdus
  BY DEF header, hdu
<1>2. DataSize' = DataSize
  <2>1. Elements' = Elements /\ Pcount' = Pcount
    BY <1>1 DEF Elements, Axes, AxisLengths, Number, Pcount, Optional, Has
  <2> QED
    BY <1>1, <2>1 DEF DataSize
<1>3. Compressed' = Compressed
  BY <1>1 DEF Compressed, Has, Is
<1>4. Declared' = Declared
  BY <1>2, <1>3 DEF Declared
<1>5. DecodedPassed' = DecodedPassed /\ Summed' = Summed /\ LastEnd' = LastEnd
  BY <1>1 DEF DecodedPassed, Summed, LastEnd
<1> QED
  BY <1>1, <1>2, <1>4, <1>5 DEF Here

(* A step that changes nothing keeps the invariant. *)
LEMMA InvStutter == Inv /\ UNCHANGED vars => Inv'
<1> SUFFICES ASSUME Inv, UNCHANGED vars PROVE Inv'
  OBVIOUS
<1>1. UNCHANGED <<header, hdu, hdus, file, counters, phase, verdict>>
  BY DEF vars, header, hdu, file, counters
<1>2. /\ level' = level /\ size' = size /\ index' = index /\ start' = start
      /\ offset' = offset /\ text' = text /\ h' = h /\ phase' = phase
      /\ headerBytes' = headerBytes /\ structures' = structures
      /\ decoded' = decoded /\ images' = images /\ present' = present
      /\ verified' = verified /\ verdict' = verdict /\ hdus' = hdus
  BY DEF vars
<1>3. /\ Lookup' = Lookup /\ InOrder' = InOrder /\ Closed' = Closed
      /\ Legal' = Legal /\ Supported' = Supported
      /\ UnitEnd' = UnitEnd /\ HeaderEnd' = HeaderEnd
      /\ SaidDecoded' = SaidDecoded
      /\ \A k, d : Says(k, d)' = Says(k, d)
  BY <1>1, Unchanged
<1>4. /\ Declared' = Declared /\ DataSize' = DataSize /\ Here' = Here
      /\ DecodedPassed' = DecodedPassed /\ Summed' = Summed /\ LastEnd' = LastEnd
  BY <1>1, Stays
<1>5. TypeOK'
  BY <1>2 DEF Inv, TypeOK
<1>6. HeaderIsRead'
  BY <1>2, <1>3 DEF Inv, HeaderIsRead, Refused
<1>7. CountersAgree'
  BY <1>2, <1>4 DEF Inv, CountersAgree
<1>8. UnitsFollow' /\ UnitsTileTheFile'
  BY <1>2, <1>4 DEF Inv, UnitsFollow, UnitsTileTheFile
<1>9. ReadUnitsAreLegal'
  BY <1>2, <1>3, <1>4 DEF Inv, ReadUnitsAreLegal
<1>10. DamageIsReal'
  BY <1>2, <1>3 DEF Inv, DamageIsReal
<1> QED
  BY <1>5, <1>6, <1>7, <1>8, <1>9, <1>10 DEF Inv

(* A refusal that leaves the header as it is. *)
LEMMA InvRefuse ==
  ASSUME Inv, NEW kind \in Kinds, verdict = "none",
         phase \in {"cards", "header", "sums", "payload"}, verdict' = kind,
         UNCHANGED <<phase, hdu, hdus, header, file, decoded, images, present, verified>>,
         headerBytes' \in Nat, structures' \in Nat, headerBytes <= headerBytes',
         kind # "limit" => headerBytes' <= MaxHeader /\ structures' <= MaxStructures,
         phase = "cards" => kind # "invalid",
         kind = "incomplete" /\ phase = "cards" => offset + CardSize > size,
         kind = "invalid" /\ phase = "header" => ~Legal,
         kind = "incomplete" /\ phase = "header" => HeaderEnd > size \/ UnitEnd > size,
         kind = "unsupported" /\ phase = "header" =>
           \/ ~Supported
           \/ "unsupported" \in {Says("TFIELDS", "fits"), Says("ZIMAGE", "fits")},
         kind = "integrity" /\ phase = "sums" =>
           level = "full" /\ "bad" \in {Says("DATASUM", "good"), Says("CHECKSUM", "good")}
  PROVE  Inv'
<1>1. UNCHANGED <<header, hdu, hdus>>
  OBVIOUS
<1>2. /\ level' = level /\ size' = size /\ index' = index /\ start' = start
      /\ offset' = offset /\ text' = text /\ h' = h /\ phase' = phase
      /\ decoded' = decoded /\ images' = images /\ present' = present
      /\ verified' = verified /\ hdus' = hdus
  BY DEF header, hdu, file
<1>3. /\ Lookup' = Lookup /\ InOrder' = InOrder /\ Closed' = Closed
      /\ Legal' = Legal /\ Supported' = Supported
      /\ UnitEnd' = UnitEnd /\ HeaderEnd' = HeaderEnd
      /\ SaidDecoded' = SaidDecoded
      /\ \A k, d : Says(k, d)' = Says(k, d)
  BY <1>1, Unchanged
<1>4. /\ Declared' = Declared /\ DataSize' = DataSize /\ Here' = Here
      /\ DecodedPassed' = DecodedPassed /\ Summed' = Summed /\ LastEnd' = LastEnd
  BY <1>1, Stays
<1>5. TypeOK'
  BY <1>2 DEF Inv, TypeOK
<1>6. HeaderIsRead'
  <2>1. ~Refused /\ ~Refused'
    BY <1>2 DEF Refused
  <2>2. Len(text) * CardSize <= headerBytes => Len(text) * CardSize <= headerBytes'
    <3>1. Len(text) * CardSize \in Nat /\ headerBytes \in Nat
      BY Numbers, SMTT(20)
    <3> QED
      BY <3>1
  <2> QED
    BY <1>2, <1>3, <2>1, <2>2 DEF Inv, HeaderIsRead
<1>7. CountersAgree'
  BY <1>2, <1>4 DEF Inv, CountersAgree
<1>8. kind # "valid"
  BY DEF Kinds
<1>9. UnitsFollow' /\ UnitsTileTheFile'
  BY <1>2, <1>4, <1>8 DEF Inv, UnitsFollow, UnitsTileTheFile
<1>10. ReadUnitsAreLegal'
  BY <1>2, <1>3, <1>4 DEF Inv, ReadUnitsAreLegal
<1>11. DamageIsReal'
  BY <1>2, <1>3 DEF DamageIsReal
<1> QED
  BY <1>5, <1>6, <1>7, <1>9, <1>10, <1>11 DEF Inv

(* BeginHdu: the header is empty, the units are as before. *)
LEMMA InvBeginHdu == Inv /\ BeginHdu => Inv'
<1> SUFFICES ASSUME Inv, BeginHdu PROVE Inv'
  OBVIOUS
<1>1. /\ phase = "hdu" /\ verdict = "none" /\ phase' = "cards" /\ verdict' = "none"
      /\ level' = level /\ size' = size /\ index' = index /\ start' = offset
      /\ offset' = offset /\ text' = <<>> /\ h' = <<>>
      /\ headerBytes' = headerBytes /\ structures' = structures
      /\ decoded' = decoded /\ images' = images /\ present' = present
      /\ verified' = verified /\ hdus' = hdus
  BY DEF BeginHdu, At, Go, file, counters
<1>2. DOMAIN text' = {} /\ DOMAIN h' = {} /\ Len(text') = 0 /\ text' \in Seq(Cards)
  BY <1>1, EmptySeq
<1>3. DecodedPassed' = DecodedPassed /\ Summed' = Summed /\ LastEnd' = LastEnd
  BY <1>1 DEF DecodedPassed, Summed, LastEnd
<1>4. TypeOK'
  BY <1>1, <1>2 DEF Inv, TypeOK
<1>5. HeaderIsRead'
  <2>1. Lookup' /\ InOrder'
    BY <1>2 DEF Lookup, InOrder
  <2>2. offset' = start' + Len(text') * CardSize
    BY <1>1, <1>2, Numbers
  <2>3. Len(text') * CardSize <= headerBytes'
    BY <1>1, <1>2, Numbers
  <2> QED
    BY <1>1, <1>2, <2>1, <2>2, <2>3 DEF HeaderIsRead
<1>6. CountersAgree'
  BY <1>1, <1>3 DEF Inv, CountersAgree
<1>7. UnitsFollow' /\ UnitsTileTheFile'
  BY <1>1, <1>3 DEF Inv, UnitsFollow, UnitsTileTheFile
<1>8. ReadUnitsAreLegal' /\ DamageIsReal'
  BY <1>1 DEF ReadUnitsAreLegal, DamageIsReal
<1> QED
  BY <1>4, <1>5, <1>6, <1>7, <1>8 DEF Inv

(* Finish: the units fill the file. *)
LEMMA InvFinish == Inv /\ Finish => Inv'
<1> SUFFICES ASSUME Inv, Finish PROVE Inv'
  OBVIOUS
<1>1. /\ phase = "hdu" /\ verdict = "none" /\ offset >= size
      /\ phase' = phase /\ verdict' = "valid"
      /\ level' = level /\ size' = size /\ index' = index /\ start' = start
      /\ offset' = offset /\ text' = text /\ h' = h
      /\ headerBytes' = headerBytes /\ structures' = structures
      /\ decoded' = decoded /\ images' = images /\ present' = present
      /\ verified' = verified /\ hdus' = hdus
  BY DEF Finish, At, file, hdu, header, counters
<1>2. Lookup' = Lookup
  BY <1>1 DEF Lookup
<1>3. DecodedPassed' = DecodedPassed /\ Summed' = Summed /\ LastEnd' = LastEnd
  BY <1>1 DEF DecodedPassed, Summed, LastEnd
<1>4. TypeOK'
  BY <1>1 DEF Inv, TypeOK
<1>5. HeaderIsRead'
  BY <1>1, <1>2 DEF Inv, HeaderIsRead, Refused
<1>6. CountersAgree'
  BY <1>1, <1>3 DEF Inv, CountersAgree
<1>7. offset = size /\ size > 0
  BY <1>1, FitsAssumption DEF Inv, TypeOK
<1>8. UnitsFollow'
  BY <1>1, <1>3, <1>7 DEF Inv, UnitsFollow
<1>9. UnitsTileTheFile'
  BY <1>1, <1>7 DEF Inv, UnitsFollow, UnitsTileTheFile, LastEnd
<1>10. ReadUnitsAreLegal' /\ DamageIsReal'
  BY <1>1 DEF ReadUnitsAreLegal, DamageIsReal
<1> QED
  BY <1>4, <1>5, <1>6, <1>8, <1>9, <1>10 DEF Inv

(* ReadCard: the header grows by a card in its place, or is refused for it. *)
LEMMA InvReadCard == Inv /\ ReadCard => Inv'
<1> SUFFICES ASSUME Inv, ReadCard PROVE Inv'
  OBVIOUS
<1> DEFINE over == headerBytes' > MaxHeader \/ structures' > MaxStructures
           short == offset + CardSize > size
<1>1. /\ phase = "cards" /\ verdict = "none"
      /\ headerBytes' = headerBytes + CardSize /\ structures' = structures + 1
      /\ level' = level /\ size' = size
      /\ decoded' = decoded /\ images' = images /\ present' = present
      /\ verified' = verified
  BY DEF ReadCard, At, file
<1>2. headerBytes' \in Nat /\ structures' \in Nat /\ headerBytes <= headerBytes'
  <2>1. headerBytes \in Nat /\ structures \in Nat /\ CardSize \in Nat
    BY Numbers
  <2> QED
    BY <1>1, <2>1
<1>3. UNCHANGED <<file, decoded, images, present, verified>>
  BY <1>1 DEF file
<1>4. CASE over /\ Refuse("limit") /\ UNCHANGED header
  BY <1>1, <1>2, <1>3, <1>4, InvRefuse DEF Refuse, Kinds
<1>5. CASE ~over /\ short /\ Refuse("incomplete") /\ UNCHANGED header
  <2>1. headerBytes' <= MaxHeader /\ structures' <= MaxStructures
    BY <1>2, <1>5, Numbers, SMTT(20)
  <2> QED
    BY <1>1, <1>2, <1>3, <1>5, <2>1, InvRefuse DEF Refuse, Kinds
<1>6. ASSUME ~over, ~short, offset' = offset + CardSize, NEW card \in Cards,
             text' = Append(text, card),
             IF \/ card.name = "BROKEN" \/ ~InPlace(card)
                \/ Recorded(card) /\ Key(card) \in DOMAIN h
             THEN Refuse("invalid") /\ UNCHANGED h
             ELSE /\ h' = IF Recorded(card)
                          THEN [k \in DOMAIN h \cup {Key(card)} |->
                                 IF k = Key(card) THEN card.value ELSE h[k]]
                          ELSE h
                  /\ Go(IF card.name = "END" THEN "header" ELSE "cards")
                  /\ UNCHANGED hdu
      PROVE  Inv'
  <2> DEFINE refused == \/ card.name = "BROKEN" \/ ~InPlace(card)
                        \/ Recorded(card) /\ Key(card) \in DOMAIN h
             place == Len(text) + 1
  <2>1. /\ index' = index /\ start' = start /\ hdus' = hdus
        /\ verdict' = IF refused THEN "invalid" ELSE "none"
        /\ phase' = IF refused \/ card.name # "END" THEN "cards" ELSE "header"
    BY <1>1, <1>6 DEF Refuse, Go, hdu
  <2>2. /\ text' \in Seq(Cards)
        /\ place \in Nat \ {0} /\ Len(text) = place - 1 /\ Len(text') = place
        /\ DOMAIN text = 1..(place - 1) /\ DOMAIN text' = 1..place
        /\ \A i \in DOMAIN text : text'[i] = text[i]
        /\ text'[place] = card /\ place \in DOMAIN text'
    <3>1. text \in Seq(Cards)
      BY Numbers
    <3>2. text' = Append(text, card)
      BY <1>6
    <3>3. /\ text' \in Seq(Cards)
          /\ Len(text) \in Nat /\ Len(text') = Len(text) + 1
          /\ DOMAIN text = 1..Len(text) /\ DOMAIN text' = 1..(Len(text) + 1)
          /\ \A i \in DOMAIN text : text'[i] = text[i]
          /\ text'[Len(text) + 1] = card
      BY <3>1, <3>2, NextText
    <3>4. /\ place \in Nat \ {0} /\ Len(text) = place - 1
          /\ place - 1 = Len(text) /\ place \in 1..place
      BY <3>3
    <3> QED
      BY <3>3, <3>4
  <2>3. /\ headerBytes' <= MaxHeader /\ structures' <= MaxStructures
        /\ offset' \in 0..size
    <3>1. offset \in Nat /\ size \in Nat /\ CardSize \in Nat
      BY Numbers
    <3>2. offset' = offset + CardSize /\ offset + CardSize <= size
      BY <1>6, <3>1
    <3>3. MaxHeader \in Nat /\ MaxStructures \in Nat
      BY Numbers
    <3>4. headerBytes' <= MaxHeader /\ structures' <= MaxStructures
      BY <1>2, <1>6, <3>3
    <3> QED
      BY <3>1, <3>2, <3>4
  <2>4. Lookup /\ InOrder /\ offset = start + Len(text) * CardSize
        /\ Len(text) * CardSize <= headerBytes
        /\ \A i \in DOMAIN text : text[i].name # "END"
    BY <1>1 DEF Inv, HeaderIsRead, Refused
  <2>5. InPlace(card) <=> Fits(card, Len(text) + 1)
    BY <2>4, InPlaceFits, Numbers
  <2> HIDE DEF place
  <2>6. DecodedPassed' = DecodedPassed /\ Summed' = Summed /\ LastEnd' = LastEnd
    BY <2>1 DEF DecodedPassed, Summed, LastEnd
  <2>7. \A i \in DOMAIN text : Key(text'[i]) = Key(text[i])
    BY <2>2
  <2>8. {Key(text[i]) : i \in DOMAIN text} \subseteq {Key(text'[i]) : i \in DOMAIN text'}
    BY <2>2, <2>7
  <2>9. Key(card) \in {Key(text'[i]) : i \in DOMAIN text'}
    BY <2>2
  <2>10. DOMAIN h' \subseteq {Key(text'[i]) : i \in DOMAIN text'}
    <3>1. DOMAIN h \subseteq {Key(text[i]) : i \in DOMAIN text}
      BY DEF Inv, TypeOK
    <3>2. DOMAIN h' \subseteq DOMAIN h \cup {Key(card)}
      BY <1>6
    <3> QED
      BY <2>8, <2>9, <3>1, <3>2
  <2>11. TypeOK'
    BY <1>1, <1>2, <2>1, <2>2, <2>3, <2>10 DEF Inv, TypeOK, Kinds
  <2>12. CountersAgree'
    BY <1>1, <2>1, <2>6 DEF Inv, CountersAgree
  <2>13. UnitsFollow' /\ UnitsTileTheFile'
    BY <1>1, <2>1, <2>6 DEF Inv, UnitsFollow, UnitsTileTheFile
  <2>14. ReadUnitsAreLegal'
    BY <2>1 DEF ReadUnitsAreLegal
  <2>15. CASE refused
    <3>1. ~InOrder'
      <4>1. \/ card.name = "BROKEN"
            \/ ~Fits(card, Len(text) + 1)
            \/ Recorded(card) /\ Key(card) \in DOMAIN h
        BY <2>5, <2>15
      <4> QED
        BY <1>6, <2>1, <2>4, <4>1, Numbers, RefusedCard
    <3>2. DamageIsReal'
      BY <2>1, <2>15, <3>1 DEF DamageIsReal
    <3>3. HeaderIsRead'
      BY <2>1, <2>15 DEF HeaderIsRead, Refused
    <3> QED
      BY <2>11, <2>12, <2>13, <2>14, <3>2, <3>3 DEF Inv
  <2>16. CASE ~refused
    <3>1. InOrder'
      <4>1. /\ text \in Seq(Cards) /\ index \in Nat /\ index' = index
            /\ Fits(card, Len(text) + 1) /\ card.name # "BROKEN"
            /\ Recorded(card) => Key(card) \notin DOMAIN h
        <5>1. InPlace(card)
          BY <2>16, Zenon
        <5>2. Fits(card, Len(text) + 1)
          BY <2>5, <5>1, Zenon
        <5>3. card.name # "BROKEN" /\ (Recorded(card) => Key(card) \notin DOMAIN h)
          BY <2>16, Zenon
        <5> QED
          BY <2>1, <5>2, <5>3, Numbers
      <4> QED
        BY <1>6, <2>4, <4>1, AcceptedCard
    <3>2. DamageIsReal'
      BY <2>1, <2>16 DEF DamageIsReal
    <3>3. Lookup'
      <4>1. CASE Recorded(card)
        <5>1. /\ DOMAIN h' = DOMAIN h \cup {Key(card)} /\ h'[Key(card)] = card.value
              /\ \A k \in DOMAIN h : k # Key(card) => h'[k] = h[k]
          BY <1>6, <2>16, <4>1
        <5>2. {i \in DOMAIN text' : Recorded(text'[i])}
                = {i \in DOMAIN text : Recorded(text[i])} \cup {place}
          BY <2>2, <4>1
        <5>3. DOMAIN h' = {Key(text'[i]) : i \in {j \in DOMAIN text' : Recorded(text'[j])}}
          <6>1. DOMAIN h = {Key(text[i]) : i \in {j \in DOMAIN text : Recorded(text[j])}}
            BY <2>4 DEF Lookup
          <6> QED
            BY <2>2, <2>7, <5>1, <5>2, <6>1
        <5>4. ASSUME NEW i \in DOMAIN text', Recorded(text'[i])
              PROVE  h'[Key(text'[i])] = text'[i].value
          <6>1. CASE i = place
            BY <2>2, <5>1, <6>1
          <6>2. CASE i # place
            <7>1. i \in DOMAIN text /\ text'[i] = text[i]
              BY <2>2, <6>2
            <7>2. Key(text[i]) \in DOMAIN h /\ h[Key(text[i])] = text[i].value
              BY <2>4, <5>4, <7>1 DEF Lookup
            <7>3. Key(text[i]) # Key(card)
              BY <2>16, <4>1, <7>2
            <7> QED
              BY <5>1, <7>1, <7>2, <7>3
          <6> QED
            BY <6>1, <6>2
        <5> QED
          BY <5>3, <5>4 DEF Lookup
      <4>2. CASE ~Recorded(card)
        <5>1. h' = h
          BY <1>6, <2>16, <4>2
        <5>2. {i \in DOMAIN text' : Recorded(text'[i])}
                = {i \in DOMAIN text : Recorded(text[i])}
          BY <2>2, <4>2
        <5>3. \A i \in DOMAIN text' : Recorded(text'[i]) =>
                 i \in DOMAIN text /\ text'[i] = text[i]
          BY <2>2, <4>2
        <5>4. {Key(text'[i]) : i \in {j \in DOMAIN text' : Recorded(text'[j])}}
                = {Key(text[i]) : i \in {j \in DOMAIN text : Recorded(text[j])}}
          BY <2>7, <5>2
        <5> QED
          BY <2>4, <5>1, <5>3, <5>4 DEF Lookup
      <4> QED
        BY <4>1, <4>2
    <3>4. /\ offset' = start' + Len(text') * CardSize
          /\ Len(text') * CardSize <= headerBytes'
      <4>1. Len(text') * CardSize = Len(text) * CardSize + CardSize
            /\ Len(text) * CardSize \in Nat
        <5>1. CardSize \in Nat /\ 1 \in Nat /\ place - 1 \in Nat
          BY <2>2, Numbers
        <5>2. ((place - 1) + 1) * CardSize = (place - 1) * CardSize + 1 * CardSize
          BY <5>1, Distributes
        <5>3. (place - 1) * CardSize \in Nat /\ (place - 1) + 1 = place
          BY <2>2, <5>1
        <5> QED
          BY <2>2, <5>1, <5>2, <5>3
      <4>2. CardSize \in Nat /\ headerBytes \in Nat /\ start \in Nat
        BY Numbers
      <4> QED
        BY <1>1, <1>6, <2>1, <2>4, <4>1, <4>2
    <3>5. CASE card.name # "END"
      <4>1. phase' = "cards" /\ ~Refused'
        BY <2>1, <2>16, <3>5 DEF Refused
      <4>2. \A i \in DOMAIN text' : text'[i].name # "END"
        BY <2>2, <2>4, <3>5
      <4>3. HeaderIsRead'
        BY <3>1, <3>3, <3>4, <4>1, <4>2 DEF HeaderIsRead
      <4> QED
        BY <2>11, <2>12, <2>13, <2>14, <3>2, <4>3 DEF Inv
    <3>6. CASE card.name = "END"
      <4>1. phase' = "header" /\ ~Refused'
        BY <2>1, <2>16, <3>6 DEF Refused
      <4>2. Fits(card, place) /\ index \in Nat
        <5>1. index \in Nat
          BY Numbers
        <5>2. InPlace(card)
          BY <2>16, Zenon
        <5>3. Fits(card, Len(text) + 1)
          BY <2>5, <5>2, Zenon
        <5> QED
          BY <5>1, <5>3 DEF place
      <4>3. /\ place > 3 /\ Dimensions \in 0..MaxAxes /\ ~(place <= 3 + Dimensions)
            /\ index > 0 => place # 4 + Dimensions /\ place # 5 + Dimensions
        <5>1. Key(card)[1] = "END"
          BY <3>6 DEF Key
        <5>2. \A n : <<"SIMPLE", n>>[1] # "END" /\ <<"XTENSION", n>>[1] # "END"
                 /\ <<"BITPIX", n>>[1] # "END" /\ <<"NAXIS", n>>[1] # "END"
                 /\ <<"PCOUNT", n>>[1] # "END" /\ <<"GCOUNT", n>>[1] # "END"
          OBVIOUS
        <5>3. place > 3
          BY <2>2, <4>2, <5>1, <5>2 DEF Fits
        <5> QED
          BY <4>2, <5>1, <5>2, <5>3 DEF Fits
      <4>4. Dimensions' = Dimensions
        <5>1. Dimensions = text[3].value
          <6>1. text \in Seq(Cards) /\ Opened /\ Len(text) >= 3
            <7>1. text \in Seq(Cards) /\ Len(text) \in Nat
              BY Numbers
            <7>2. Opened
              BY <2>4, <7>1, InOrderOpens
            <7>3. Len(text) >= 3
              BY <2>2, <4>3, <7>1
            <7> QED
              BY <7>1, <7>2, <7>3
          <6> QED
            BY <6>1, NaxisIsThird
        <5>2. (text \in Seq(Cards) /\ InOrder => Opened)'
          BY InOrderOpens, PTL
        <5>3. (text \in Seq(Cards) /\ Opened =>
                 Dimensions = IF Len(text) >= 3 THEN text[3].value ELSE 0)'
          BY NaxisIsThird, PTL
        <5> QED
          BY <2>2, <3>1, <4>3, <5>1, <5>2, <5>3
      <4>5. Closed'
        <5>1. MaxAxes \in Nat
          BY FitsAssumption
        <5> QED
          BY <2>1, <2>2, <3>6, <4>2, <4>3, <4>4, <5>1 DEF Closed
      <4>6. HeaderIsRead'
        BY <3>1, <3>3, <3>4, <4>1, <4>5 DEF HeaderIsRead
      <4> QED
        BY <2>11, <2>12, <2>13, <2>14, <3>2, <4>6 DEF Inv
    <3> QED
      BY <3>5, <3>6
  <2> QED
    BY <2>15, <2>16
<1>7. \/ over /\ Refuse("limit") /\ UNCHANGED header
      \/ ~over /\ short /\ Refuse("incomplete") /\ UNCHANGED header
      \/ /\ ~over /\ ~short /\ offset' = offset + CardSize
         /\ \E card \in Cards :
              /\ text' = Append(text, card)
              /\ IF \/ card.name = "BROKEN" \/ ~InPlace(card)
                    \/ Recorded(card) /\ Key(card) \in DOMAIN h
                 THEN Refuse("invalid") /\ UNCHANGED h
                 ELSE /\ h' = IF Recorded(card)
                              THEN [k \in DOMAIN h \cup {Key(card)} |->
                                     IF k = Key(card) THEN card.value ELSE h[k]]
                              ELSE h
                      /\ Go(IF card.name = "END" THEN "header" ELSE "cards")
                      /\ UNCHANGED hdu
  BY Zenon DEF ReadCard
<1> HIDE DEF over, short
<1> QED
  BY <1>4, <1>5, <1>6, <1>7

(* CheckHeader: a header passes all checks and conforms, or is refused for one. *)
LEMMA InvCheckHeader == Inv /\ CheckHeader => Inv'
<1> SUFFICES ASSUME Inv, CheckHeader PROVE Inv'
  OBVIOUS
<1>1. phase = "header" /\ verdict = "none" /\ UNCHANGED <<file, header>>
  BY DEF CheckHeader, At
<1>2. HeaderRead /\ size \in Sizes
  BY <1>1, InvHeaderRead, Numbers
<1>3. /\ headerBytes \in Nat /\ structures \in Nat
      /\ headerBytes <= MaxHeader /\ structures <= MaxStructures
  BY <1>1 DEF Inv, TypeOK
<1>4. CASE FirstFault # "none" /\ Refuse(FirstFault) /\ UNCHANGED counters
  <2>1. PICK m \in 1..18 :
          /\ HeaderChecks[m] # "none" /\ FirstFault = HeaderChecks[m]
          /\ \A i \in 1..(m - 1) : HeaderChecks[i] = "none"
    BY <1>4, FirstFaultFails
  <2>2. /\ HeaderChecks[m] \in Kinds
        /\ HeaderChecks[m] = "invalid" => ~Legal
        /\ HeaderChecks[m] = "incomplete" => HeaderEnd > size \/ UnitEnd > size
        /\ HeaderChecks[m] = "unsupported" =>
             \/ ~Supported
             \/ "unsupported" \in {Says("TFIELDS", "fits"), Says("ZIMAGE", "fits")}
    BY <1>2, <2>1, RefusedHeader
  <2>3. /\ verdict' = HeaderChecks[m] /\ headerBytes' = headerBytes
        /\ structures' = structures
        /\ UNCHANGED <<phase, hdu, hdus, header, file, decoded, images, present, verified>>
    BY <1>1, <1>4, <2>1 DEF Refuse, counters
  <2>4. headerBytes' \in Nat /\ structures' \in Nat /\ headerBytes <= headerBytes'
        /\ headerBytes' <= MaxHeader /\ structures' <= MaxStructures
    BY <1>3, <2>3
  <2>5. phase \in {"cards", "header", "sums", "payload"} /\ phase # "cards"
    BY <1>1
  <2> QED
    BY <1>1, <2>2, <2>3, <2>4, <2>5, InvRefuse
<1>5. ASSUME FirstFault = "none",
             headerBytes' = headerBytes - Len(text) * CardSize + HeaderSize,
             images' = IF Compressed \/ (Kind = "IMAGE" /\ Elements > 0)
                       THEN images + 1 ELSE images,
             decoded' = decoded + Declared,
             present' = present + Cardinality(Sums \cap DOMAIN h),
             Go("sums"), UNCHANGED <<structures, verified, hdu>>
      PROVE  Inv'
  <2>1. \A i \in 1..18 : HeaderChecks[i] = "none"
    BY <1>5, FirstFaultFails
  <2>2. decoded \in Nat /\ present \in Nat /\ images \in Nat /\ index = Len(hdus) /\ index \in Nat
    BY Numbers
  <2>3. /\ Legal /\ Supported /\ UnitEnd <= size
        /\ DataSize \in Nat /\ Declared \in Nat
        /\ decoded + Declared <= MaxDecoded
        /\ headerBytes - Len(text) * CardSize + HeaderSize <= MaxHeader
    BY <1>2, <1>3, <2>1, <2>2, PassedHeader
  <2>4. /\ phase' = "sums" /\ verdict' = "none" /\ hdus' = hdus
        /\ structures' = structures /\ verified' = verified
        /\ level' = level /\ size' = size /\ index' = index /\ start' = start
        /\ offset' = offset /\ text' = text /\ h' = h
        /\ UNCHANGED <<header, hdu, hdus>>
    BY <1>1, <1>5 DEF Go, file, header, hdu
  <2>5. /\ Lookup' = Lookup /\ InOrder' = InOrder /\ Closed' = Closed
        /\ Legal' = Legal /\ Supported' = Supported
        /\ UnitEnd' = UnitEnd /\ SaidDecoded' = SaidDecoded
    BY <2>4, Unchanged
  <2>6. /\ Declared' = Declared /\ DataSize' = DataSize /\ Here' = Here
        /\ DecodedPassed' = DecodedPassed /\ Summed' = Summed /\ LastEnd' = LastEnd
    BY <2>4, Stays
  <2>7. /\ decoded = DecodedPassed /\ present = Summed /\ images <= Len(hdus)
        /\ Len(text) * CardSize <= headerBytes
    <3>1. DecodedPassed \in Nat /\ Summed \in Nat
      BY TotalsAreNumbers DEF Inv, UnitsFollow
    <3> QED
      BY <1>1, <2>2, <3>1 DEF Inv, CountersAgree, HeaderIsRead, Refused
  <2>8. headerBytes' \in 0..MaxHeader
    <3>1. HeaderSize \in Nat /\ Len(text) * CardSize \in Nat
      BY <1>2, WalkComputes
    <3>2. MaxHeader \in Nat
      BY Numbers
    <3> QED
      BY <1>3, <1>5, <2>3, <2>7, <3>1, <3>2
  <2>9. images' \in 0..(Len(hdus) + 1)
    BY <1>5, <2>2, <2>7
  <2>10. decoded' \in 0..MaxDecoded /\ present' \in Nat
    <3>1. Here \in Nat /\ present' = present + Here
      BY <1>5, HereIsNumber DEF Here
    <3> QED
      BY <1>5, <2>2, <2>3, <3>1, Numbers, SMTT(20)
  <2>11. TypeOK'
    BY <1>1, <1>3, <2>4, <2>8, <2>9, <2>10, Numbers, SMTT(20) DEF Inv, TypeOK
  <2>12. HeaderIsRead'
    BY <1>1, <2>4, <2>5 DEF Inv, HeaderIsRead, Refused
  <2>13. CountersAgree'
    <3>1. decoded' = DecodedPassed' + Declared' /\ present' = Summed' + Here'
      BY <1>5, <2>6, <2>7 DEF Here
    <3>2. verified' = IF level' = "structural" THEN 0 ELSE Summed' + 0
      BY <1>1, <2>4, <2>6 DEF Inv, CountersAgree
    <3>3. images' <= Len(hdus') + 1
      BY <2>2, <2>4, <2>9
    <3> QED
      BY <2>3, <2>4, <2>6, <3>1, <3>2, <3>3 DEF CountersAgree
  <2>14. UnitsFollow' /\ UnitsTileTheFile'
    BY <1>1, <2>4, <2>6 DEF Inv, UnitsFollow, UnitsTileTheFile
  <2>15. ReadUnitsAreLegal'
    <3>1. SaidDecoded = Declared
      BY <1>2, WalkComputes
    <3>2. DecodedPassed' + SaidDecoded' <= MaxDecoded
      BY <2>2, <2>3, <2>5, <2>6, <2>7, <3>1
    <3> QED
      BY <2>3, <2>4, <2>5, <3>2 DEF ReadUnitsAreLegal
  <2>16. DamageIsReal'
    BY <2>4 DEF DamageIsReal
  <2> QED
    BY <2>11, <2>12, <2>13, <2>14, <2>15, <2>16 DEF Inv
<1> QED
  BY <1>4, <1>5 DEF CheckHeader

(* VerifySums: all checksums of the unit are verified, or one is bad. *)
LEMMA InvVerifySums == Inv /\ VerifySums => Inv'
<1> SUFFICES ASSUME Inv, VerifySums PROVE Inv'
  OBVIOUS
<1>1. /\ phase = "sums" /\ verdict = "none"
      /\ UNCHANGED <<file, header, headerBytes, structures, decoded, images, present>>
  BY DEF VerifySums, At
<1>2. /\ headerBytes \in Nat /\ structures \in Nat
      /\ headerBytes <= MaxHeader /\ structures <= MaxStructures
      /\ level \in {"structural", "full"}
  BY <1>1 DEF Inv, TypeOK
<1>3. ASSUME Refuse("integrity"), UNCHANGED verified, level = "full",
             NEW k \in Sums \cap DOMAIN h, h[k] = "bad"
      PROVE  Inv'
  <2>1. "integrity" \in Kinds
    BY DEF Kinds
  <2>2. "bad" \in {Says("DATASUM", "good"), Says("CHECKSUM", "good")}
    <3>1. HeaderRead
      BY <1>1, InvHeaderRead
    <3>2. /\ Says("DATASUM", "good") = Optional("DATASUM", "good")
          /\ Says("CHECKSUM", "good") = Optional("CHECKSUM", "good")
      BY <3>1, SaysIs
    <3>3. k \in DOMAIN h /\ (k = <<"DATASUM", 0>> \/ k = <<"CHECKSUM", 0>>)
      BY DEF Sums
    <3>4. "bad" \in {Optional("DATASUM", "good"), Optional("CHECKSUM", "good")}
      BY <1>3, <3>3 DEF Optional, Has
    <3> QED
      BY <3>2, <3>4
  <2> QED
    BY <1>1, <1>2, <1>3, <2>1, <2>2, InvRefuse DEF Refuse
<1>4. ASSUME Go("payload"), UNCHANGED hdu,
             verified' = IF level = "full" THEN verified + Here ELSE verified,
             level = "full" => \A k \in Sums \cap DOMAIN h : h[k] # "bad"
      PROVE  Inv'
  <2>1. /\ phase' = "payload" /\ verdict' = "none" /\ hdus' = hdus
        /\ headerBytes' = headerBytes /\ structures' = structures
        /\ decoded' = decoded /\ images' = images /\ present' = present
        /\ level' = level /\ size' = size /\ index' = index /\ start' = start
        /\ offset' = offset /\ text' = text /\ h' = h
        /\ UNCHANGED <<header, hdu, hdus>>
    BY <1>1, <1>4 DEF Go, file, header, hdu
  <2>2. /\ Lookup' = Lookup /\ InOrder' = InOrder /\ Closed' = Closed
        /\ Legal' = Legal /\ Supported' = Supported
        /\ UnitEnd' = UnitEnd /\ SaidDecoded' = SaidDecoded
    BY <2>1, Unchanged
  <2>3. /\ Declared' = Declared /\ DataSize' = DataSize /\ Here' = Here
        /\ DecodedPassed' = DecodedPassed /\ Summed' = Summed /\ LastEnd' = LastEnd
    BY <2>1, Stays
  <2>4. Here \in Nat /\ verified \in Nat
    BY HereIsNumber, Numbers
  <2>5. TypeOK'
    BY <1>1, <1>4, <2>1, <2>4 DEF Inv, TypeOK
  <2>6. HeaderIsRead'
    BY <1>1, <2>1, <2>2 DEF Inv, HeaderIsRead, Refused
  <2>7. level = "full" => \A k \in Sums \cap DOMAIN h : h[k] = "good"
    <3> SUFFICES ASSUME level = "full", NEW k \in Sums \cap DOMAIN h
                 PROVE  h[k] = "good"
      OBVIOUS
    <3>1. HeaderRead
      BY <1>1, InvHeaderRead
    <3>2. h[k] \in {"good", "bad", "malformed"} /\ h[k] # "bad"
      BY <1>4, <3>1, KnownValues
    <3>3. ~Is("DATASUM", "malformed") /\ ~Is("CHECKSUM", "malformed")
      <4>1. Legal
        BY <1>1 DEF Inv, ReadUnitsAreLegal
      <4> QED
        BY <3>1, <4>1, KeywordsSay DEF Legal
    <3> QED
      BY <3>2, <3>3 DEF Sums, Is, Has
  <2>8. CountersAgree'
    <3>1. Summed \in Nat
      BY TotalsAreNumbers DEF Inv, UnitsFollow
    <3>2. verified' = IF level' = "structural" THEN 0 ELSE Summed' + Here'
      <4>1. verified = IF level = "structural" THEN 0 ELSE Summed + 0
        BY <1>1 DEF Inv, CountersAgree
      <4> QED
        BY <1>2, <1>4, <2>1, <2>3, <2>4, <3>1, <4>1
    <3> QED
      BY <1>1, <2>1, <2>3, <2>7, <3>2 DEF Inv, CountersAgree
  <2>9. UnitsFollow' /\ UnitsTileTheFile'
    BY <1>1, <2>1, <2>3 DEF Inv, UnitsFollow, UnitsTileTheFile
  <2>10. ReadUnitsAreLegal'
    BY <1>1, <2>1, <2>2, <2>3 DEF Inv, ReadUnitsAreLegal
  <2>11. DamageIsReal'
    BY <2>1 DEF DamageIsReal
  <2> QED
    BY <2>5, <2>6, <2>8, <2>9, <2>10, <2>11 DEF Inv
<1>5. CASE level = "full" /\ ~\E k \in Sums \cap DOMAIN h : h[k] = "bad"
  BY <1>4, <1>5 DEF VerifySums, Here
<1>6. CASE level = "full" /\ \E k \in Sums \cap DOMAIN h : h[k] = "bad"
  BY <1>3, <1>6 DEF VerifySums
<1>7. CASE level # "full"
  BY <1>4, <1>7 DEF VerifySums
<1> QED
  BY <1>5, <1>6, <1>7

(* RefusePayload: the columns or tiles are refused. *)
LEMMA InvRefusePayload == Inv /\ RefusePayload => Inv'
<1> SUFFICES ASSUME Inv, RefusePayload PROVE Inv'
  OBVIOUS
<1>1. phase = "payload" /\ verdict = "none" /\ UNCHANGED <<file, header, counters>>
  BY DEF RefusePayload, At
<1>2. PICK kind \in Kinds : Refuse(kind)
  BY DEF RefusePayload
<1>3. /\ headerBytes \in Nat /\ structures \in Nat
      /\ headerBytes <= MaxHeader /\ structures <= MaxStructures
  BY <1>1 DEF Inv, TypeOK
<1>4. /\ verdict' = kind /\ headerBytes' = headerBytes /\ structures' = structures
      /\ UNCHANGED <<phase, hdu, hdus, header, file, decoded, images, present, verified>>
  BY <1>1, <1>2 DEF Refuse, counters
<1> QED
  BY <1>1, <1>3, <1>4, InvRefuse

(* NextHdu: the unit follows those before it. *)
LEMMA InvNextHdu == Inv /\ NextHdu => Inv'
<1> SUFFICES ASSUME Inv, NextHdu PROVE Inv'
  OBVIOUS
<1> DEFINE unit == [start |-> start, end |-> offset', cards |-> Len(text),
                    sums |-> Sums \cap DOMAIN h, declared |-> Declared]
           n == Len(hdus)
<1>1. /\ phase = "payload" /\ verdict = "none" /\ phase' = "hdu" /\ verdict' = "none"
      /\ offset' = Data + Padded(DataSize) /\ index' = index + 1
      /\ hdus' = Append(hdus, unit)
      /\ level' = level /\ size' = size /\ start' = start /\ text' = text /\ h' = h
      /\ headerBytes' = headerBytes /\ structures' = structures
      /\ decoded' = decoded /\ images' = images /\ present' = present
      /\ verified' = verified
  BY DEF NextHdu, At, file, counters
<1>2. HeaderRead
  BY <1>1, InvHeaderRead
<1>3. /\ Data = start + HeaderSize /\ Data \in Nat /\ Data = HeaderEnd
      /\ HeaderSize \in Nat /\ HeaderSize % BlockSize = 0 /\ HeaderSize > 0
      /\ DataSize = SaidSize
  BY <1>2, WalkComputes DEF Data
<1>4. DataSize \in Nat /\ Declared \in Nat
  BY <1>1 DEF Inv, CountersAgree
<1>5. /\ Padded(DataSize) \in Nat /\ Padded(DataSize) % BlockSize = 0
      /\ UnitEnd = Data + Padded(DataSize)
  BY <1>3, <1>4, PaddedIsLeast DEF UnitEnd
<1>6. UnitEnd <= size
  BY <1>1 DEF Inv, ReadUnitsAreLegal
<1>7. offset' \in Nat /\ offset' > start /\ offset' <= size
  <2>1. start \in Nat /\ size \in Nat
    BY Numbers
  <2> QED
    BY <1>1, <1>3, <1>5, <1>6, <2>1
<1>8. unit \in Units
  BY <1>4, <1>7, Numbers DEF Units
<1>9. hdus \in Seq(Units) /\ n \in Nat /\ index = n
  BY Numbers DEF Inv, UnitsFollow
<1>10. /\ hdus' \in Seq(Units) /\ Len(hdus') = n + 1
       /\ DOMAIN hdus = 1..n /\ DOMAIN hdus' = 1..(n + 1)
       /\ \A i \in 1..n : hdus'[i] = hdus[i]
       /\ hdus'[n + 1] = unit
  <2> HIDE DEF unit
  <2> QED
    BY <1>1, <1>8, <1>9
<1>11. LastEnd' = offset' /\ start = LastEnd
  BY <1>1, <1>9, <1>10 DEF LastEnd, Inv, UnitsFollow
<1>12. start % BlockSize = 0
  <2>1. BlockSize \in Nat \ {0} /\ 0 % BlockSize = 0
    BY FitsAssumption
  <2>2. CASE hdus = <<>>
    BY <1>11, <2>1, <2>2 DEF LastEnd
  <2>3. CASE hdus # <<>>
    <3>1. n \in DOMAIN hdus
      BY <1>9, <1>10, <2>3
    <3> QED
      BY <1>11, <2>3, <3>1 DEF LastEnd, Inv, UnitsTileTheFile
  <2> QED
    BY <2>2, <2>3
<1>13. offset' % BlockSize = 0
  <2>1. BlockSize \in Nat \ {0} /\ start \in Nat
    BY FitsAssumption, Numbers
  <2>2. (start + HeaderSize) % BlockSize = 0 /\ start + HeaderSize \in Nat
    BY <1>3, <1>12, <2>1, MultiplesAdd
  <2>3. ((start + HeaderSize) + Padded(DataSize)) % BlockSize = 0
    BY <1>5, <2>1, <2>2, MultiplesAdd
  <2> QED
    BY <1>1, <1>3, <2>3
<1>14. DecodedPassed' = DecodedPassed + Declared /\ Summed' = Summed + Here
  <2> DEFINE D == 1..n
             f == [i \in DOMAIN hdus |-> hdus[i].declared]
             g == [i \in DOMAIN hdus' |-> hdus'[i].declared]
             p == [i \in DOMAIN hdus |-> Cardinality(hdus[i].sums)]
             q == [i \in DOMAIN hdus' |-> Cardinality(hdus'[i].sums)]
  <2>1. PICK last : last = n + 1
    OBVIOUS
  <2>2. IsFiniteSet(D)
    BY <1>9, FS_Interval
  <2>3. last \notin D /\ D \cup {last} = 1..(n + 1)
    BY <1>9, <2>1
  <2>4. f \in [D -> Nat] /\ p \in [D -> Nat]
    BY <1>9, <1>10, TotalsAreNumbers
  <2>5. unit.declared = Declared /\ Cardinality(unit.sums) = Here
    BY DEF Here
  <2> HIDE DEF unit
  <2>6. /\ \A i \in D : g[i] = f[i] /\ q[i] = p[i]
        /\ g[last] = Declared /\ q[last] = Here
    BY <1>9, <1>10, <2>1, <2>5
  <2>7. g \in [D \cup {last} -> Nat] /\ q \in [D \cup {last} -> Nat]
    <3>1. ASSUME NEW i \in 1..(n + 1) PROVE g[i] \in Nat /\ q[i] \in Nat
      <4>1. CASE i = last
        BY <1>4, <2>6, <4>1, HereIsNumber
      <4>2. CASE i # last
        <5>1. i \in D
          BY <1>9, <2>1, <4>2
        <5> QED
          BY <2>4, <2>6, <5>1
      <4> QED
        BY <4>1, <4>2
    <3> QED
      BY <1>10, <2>3, <3>1
  <2>8. DecodedPassed = Total(f) /\ Summed = Total(p) /\ DecodedPassed' = Total(g) /\ Summed' = Total(q)
    BY DEF DecodedPassed, Summed
  <2> HIDE DEF D, f, g, p, q
  <2>9. Total(g) = Total(f) + g[last]
    <3>1. last \notin D /\ \A i \in D : g[i] = f[i]
      BY <2>3, <2>6
    <3> QED
      BY <2>2, <2>4, <2>7, <3>1, TotalExtends
  <2>10. Total(q) = Total(p) + q[last]
    <3>1. last \notin D /\ \A i \in D : q[i] = p[i]
      BY <2>3, <2>6
    <3> QED
      BY <2>2, <2>4, <2>7, <3>1, TotalExtends
  <2> QED
    BY <2>6, <2>8, <2>9, <2>10
<1>15. TypeOK'
  <2>1. images \in 0..(n + 1)
    BY DEF Inv, TypeOK
  <2>2. images' \in 0..(Len(hdus') + 1)
    BY <1>1, <1>9, <1>10, <2>1
  <2>3. index' = Len(hdus')
    BY <1>1, <1>9, <1>10
  <2>4. offset' \in 0..size'
    BY <1>1, <1>7, Numbers
  <2> QED
    BY <1>1, <2>2, <2>3, <2>4 DEF Inv, TypeOK
<1>16. HeaderIsRead'
  <2>1. Lookup' = Lookup
    BY <1>1 DEF Lookup
  <2> QED
    BY <1>1, <2>1 DEF Inv, HeaderIsRead, Refused
<1>17. CountersAgree'
  <2>1. DecodedPassed \in Nat /\ Summed \in Nat /\ Here \in Nat
    BY <1>9, TotalsAreNumbers, HereIsNumber
  <2>2. /\ decoded = DecodedPassed + Declared /\ present = Summed + Here
        /\ verified = IF level = "structural" THEN 0 ELSE Summed + Here
        /\ images <= n + 1
    BY <1>1 DEF Inv, CountersAgree
  <2>3. /\ decoded' = DecodedPassed' + 0 /\ present' = Summed' + 0
        /\ verified' = IF level' = "structural" THEN 0 ELSE Summed' + 0
        /\ images' <= Len(hdus') + 0
    BY <1>1, <1>4, <1>9, <1>10, <1>14, <2>1, <2>2, Numbers
  <2> QED
    BY <1>1, <2>3 DEF CountersAgree
<1>18. UnitsFollow'
  BY <1>1, <1>10, <1>11 DEF UnitsFollow
<1>19. UnitsTileTheFile'
  <2>1. ASSUME NEW i \in DOMAIN hdus'
        PROVE  /\ hdus'[i].start = (IF i = 1 THEN 0 ELSE hdus'[i - 1].end)
               /\ hdus'[i].end > hdus'[i].start /\ hdus'[i].end % BlockSize = 0
               /\ hdus'[i].end <= size'
    <3>1. CASE i = n + 1
      <4>1. unit.start = start /\ unit.end = offset'
        OBVIOUS
      <4>2. start = IF i = 1 THEN 0 ELSE hdus'[i - 1].end
        <5>1. CASE n = 0
          BY <1>9, <1>11, <3>1, <5>1 DEF LastEnd
        <5>2. CASE n # 0
          <6>1. hdus # <<>> /\ i # 1 /\ i - 1 = n /\ n \in 1..n
            BY <1>9, <3>1, <5>2
          <6> QED
            BY <1>10, <1>11, <6>1 DEF LastEnd
        <5> QED
          BY <5>1, <5>2
      <4> HIDE DEF unit
      <4> QED
        BY <1>1, <1>7, <1>10, <1>13, <3>1, <4>1, <4>2
    <3>2. CASE i # n + 1
      <4>1. i \in 1..n /\ (i # 1 => i - 1 \in 1..n)
        BY <1>9, <1>10, <3>2
      <4>2. /\ hdus[i].start = (IF i = 1 THEN 0 ELSE hdus[i - 1].end)
            /\ hdus[i].end > hdus[i].start /\ hdus[i].end % BlockSize = 0
            /\ hdus[i].end <= size
        BY <1>10, <4>1 DEF Inv, UnitsTileTheFile
      <4> QED
        BY <1>1, <1>10, <4>1, <4>2
    <3> QED
      BY <3>1, <3>2
  <2> QED
    BY <1>1, <2>1 DEF UnitsTileTheFile
<1>20. ReadUnitsAreLegal' /\ DamageIsReal'
  BY <1>1 DEF ReadUnitsAreLegal, DamageIsReal
<1> QED
  BY <1>15, <1>16, <1>17, <1>18, <1>19, <1>20 DEF Inv
-----------------------------------------------------------------------------
(* The invariant, and what it says of the walk.                            *)

(* Every step keeps the invariant. *)
LEMMA InvNext == Inv /\ [Next]_vars => Inv'
  BY InvBeginHdu, InvFinish, InvReadCard, InvCheckHeader, InvVerifySums,
     InvRefusePayload, InvNextHdu, InvStutter DEF Next

(* The invariant holds in every state. *)
LEMMA Invariant == Spec => []Inv
<1>1. Init => Inv
  BY InvInit
<1>2. Inv /\ [Next]_vars => Inv'
  BY InvNext
<1> QED
  BY <1>1, <1>2, PTL DEF Spec

-----------------------------------------------------------------------------
(* Why a walk is refused: the counters are what the units and cards passed *)
(* come to, so that a limit they exceed is exceeded by the file.           *)

WorkAgrees ==
  verdict = "none" =>
    /\ phase = "hdu" => headerBytes = HeadersPassed /\ structures = CardsPassed
    /\ phase # "hdu" => structures = CardsPassed + Len(text)
    /\ phase \in {"cards", "header"} =>
         headerBytes = HeadersPassed + Len(text) * CardSize
    /\ phase \in {"sums", "payload"} =>
         headerBytes = HeadersPassed + WholeBlocks(Len(text) * CardSize)

Reasons == WorkAgrees /\ LimitsAreReached /\ RefusedInPlace

HeaderCosts == [i \in DOMAIN hdus |-> WholeBlocks(hdus[i].cards * CardSize)]
CardCosts == [i \in DOMAIN hdus |-> hdus[i].cards]

(* What the units passed have cost are numbers. *)
LEMMA CostsAreNumbers ==
  ASSUME hdus \in Seq(Units)
  PROVE  /\ HeaderCosts \in [1..Len(hdus) -> Nat] /\ CardCosts \in [1..Len(hdus) -> Nat]
         /\ IsFiniteSet(1..Len(hdus)) /\ Len(hdus) \in Nat
         /\ HeadersPassed = Total(HeaderCosts) /\ CardsPassed = Total(CardCosts)
         /\ HeadersPassed \in Nat /\ CardsPassed \in Nat
<1>1. DOMAIN hdus = 1..Len(hdus) /\ Len(hdus) \in Nat
  OBVIOUS
<1>2. IsFiniteSet(1..Len(hdus))
  BY <1>1, FS_Interval
<1>3. ASSUME NEW i \in DOMAIN hdus
      PROVE  hdus[i].cards \in Nat /\ WholeBlocks(hdus[i].cards * CardSize) \in Nat
  <2>1. \A u \in Units : u.cards \in Nat
    BY DEF Units
  <2>2. hdus[i].cards \in Nat /\ CardSize \in Nat
    BY <1>1, <2>1, FitsAssumption
  <2>3. hdus[i].cards * CardSize \in Nat
    BY <2>2
  <2> QED
    BY <2>2, <2>3, PaddedIsLeast
<1>4. HeaderCosts \in [1..Len(hdus) -> Nat] /\ CardCosts \in [1..Len(hdus) -> Nat]
  BY <1>1, <1>3 DEF HeaderCosts, CardCosts
<1>5. HeadersPassed = Total(HeaderCosts) /\ CardsPassed = Total(CardCosts)
  BY DEF HeadersPassed, CardsPassed, HeaderCosts, CardCosts
<1>6. Total(HeaderCosts) \in Nat /\ Total(CardCosts) \in Nat
  BY <1>2, <1>4, TotalType
<1> QED
  BY <1>1, <1>2, <1>4, <1>5, <1>6

(* They stay while no unit is passed. *)
LEMMA CostsStay ==
  ASSUME hdus' = hdus
  PROVE  HeadersPassed' = HeadersPassed /\ CardsPassed' = CardsPassed
         /\ DecodedPassed' = DecodedPassed
  BY DEF HeadersPassed, CardsPassed, DecodedPassed

(* A step that ends the walk, but not for a limit. *)
LEMMA ReasonsOfVerdict ==
  ASSUME verdict' \notin {"none", "limit"}, RefusedInPlace'
  PROVE  Reasons'
  BY DEF Reasons, WorkAgrees, LimitsAreReached

(* The types that the steps need. *)
LEMMA ReasonNumbers ==
  ASSUME Inv
  PROVE  /\ HeadersPassed \in Nat /\ CardsPassed \in Nat
         /\ Len(text) \in Nat /\ CardSize \in Nat /\ Len(text) * CardSize \in Nat
         /\ headerBytes \in Nat /\ structures \in Nat
<1>1. Len(text) \in Nat /\ CardSize \in Nat /\ headerBytes \in Nat /\ structures \in Nat
  BY Numbers
<1>2. HeadersPassed \in Nat /\ CardsPassed \in Nat
  BY CostsAreNumbers DEF Inv, UnitsFollow
<1> QED
  BY <1>1, <1>2

LEMMA ReasonsInit == Init => Reasons
<1> SUFFICES ASSUME Init PROVE Reasons
  OBVIOUS
<1>1. hdus = <<>> /\ verdict = "none" /\ phase = "hdu" /\ headerBytes = 0 /\ structures = 0
  BY DEF Init
<1>2. HeadersPassed = 0 /\ CardsPassed = 0
  <2>1. HeadersPassed = Total([i \in {} |-> WholeBlocks(hdus[i].cards * CardSize)])
        /\ CardsPassed = Total([i \in {} |-> hdus[i].cards])
    BY <1>1 DEF HeadersPassed, CardsPassed
  <2>2. \A f : f \in [{} -> Nat] => Total(f) = 0
    BY TotalZero
  <2> QED
    BY <2>1, <2>2
<1> QED
  BY <1>1, <1>2 DEF Reasons, WorkAgrees, LimitsAreReached, RefusedInPlace, Kinds

LEMMA ReasonsBeginHdu == Inv /\ Reasons /\ BeginHdu => Reasons'
<1> SUFFICES ASSUME Inv, Reasons, BeginHdu PROVE Reasons'
  OBVIOUS
<1>1. /\ phase = "hdu" /\ verdict = "none" /\ phase' = "cards" /\ verdict' = "none"
      /\ text' = <<>> /\ hdus' = hdus
      /\ headerBytes' = headerBytes /\ structures' = structures
  BY DEF BeginHdu, At, Go, counters
<1>2. HeadersPassed' = HeadersPassed /\ CardsPassed' = CardsPassed
  BY <1>1, CostsStay
<1>3. headerBytes = HeadersPassed /\ structures = CardsPassed
  BY <1>1 DEF Reasons, WorkAgrees
<1>4. Len(text') = 0 /\ Len(text') * CardSize = 0
  BY <1>1, ReasonNumbers
<1>5. /\ headerBytes' = HeadersPassed' + Len(text') * CardSize
      /\ structures' = CardsPassed' + Len(text')
  BY <1>1, <1>2, <1>3, <1>4, ReasonNumbers
<1> QED
  BY <1>1, <1>5 DEF Reasons, WorkAgrees, LimitsAreReached, RefusedInPlace, Kinds

LEMMA ReasonsReadCard == Inv /\ Reasons /\ ReadCard => Reasons'
<1> SUFFICES ASSUME Inv, Reasons, ReadCard PROVE Reasons'
  OBVIOUS
<1>1. /\ phase = "cards" /\ verdict = "none"
      /\ headerBytes' = headerBytes + CardSize /\ structures' = structures + 1
  BY DEF ReadCard, At
<1>2. /\ headerBytes = HeadersPassed + Len(text) * CardSize
      /\ structures = CardsPassed + Len(text)
  BY <1>1 DEF Reasons, WorkAgrees
<1>3. (Len(text) + 1) * CardSize = Len(text) * CardSize + CardSize
  <2>1. 1 \in Nat /\ 1 * CardSize = CardSize
    BY ReasonNumbers
  <2> QED
    BY <2>1, ReasonNumbers, Distributes
<1>4. /\ headerBytes' = HeadersPassed + (Len(text) + 1) * CardSize
      /\ structures' = CardsPassed + (Len(text) + 1)
      /\ structures' = CardsPassed + Len(text) + 1
  <2> DEFINE read == Len(text) * CardSize
  <2>1. read \in Nat
    BY ReasonNumbers
  <2> HIDE DEF read
  <2>2. headerBytes = HeadersPassed + read /\ (Len(text) + 1) * CardSize = read + CardSize
    BY <1>2, <1>3 DEF read
  <2>3. headerBytes' = HeadersPassed + (read + CardSize)
    BY <1>1, <2>1, <2>2, ReasonNumbers
  <2>4. /\ structures' = CardsPassed + (Len(text) + 1)
        /\ structures' = CardsPassed + Len(text) + 1
    BY <1>1, <1>2, ReasonNumbers
  <2> QED
    BY <2>2, <2>3, <2>4
<1>5. ASSUME headerBytes' > MaxHeader \/ structures' > MaxStructures,
             Refuse("limit"), UNCHANGED header
      PROVE  Reasons'
  <2>1. verdict' = "limit" /\ phase' = "cards" /\ hdus' = hdus /\ text' = text
    BY <1>1, <1>5 DEF Refuse, header
  <2>2. HeadersPassed' = HeadersPassed /\ CardsPassed' = CardsPassed
    BY <2>1, CostsStay
  <2>3. \/ HeadersPassed' + (Len(text') + 1) * CardSize > MaxHeader
        \/ CardsPassed' + Len(text') + 1 > MaxStructures
    BY <1>4, <1>5, <2>1, <2>2
  <2> QED
    BY <2>1, <2>3 DEF Reasons, WorkAgrees, LimitsAreReached, RefusedInPlace
<1>6. ASSUME Refuse("incomplete") \/ Refuse("invalid")
      PROVE  Reasons'
  <2>1. verdict' \in {"incomplete", "invalid"} /\ phase' = "cards"
    BY <1>1, <1>6 DEF Refuse
  <2> QED
    BY <2>1, ReasonsOfVerdict DEF RefusedInPlace
<1>7. ASSUME NEW card \in Cards, text' = Append(text, card),
             Go(IF card.name = "END" THEN "header" ELSE "cards")
      PROVE  Reasons'
  <2>1. phase' \in {"cards", "header"} /\ verdict' = "none" /\ hdus' = hdus
    BY <1>1, <1>7 DEF Go
  <2>2. HeadersPassed' = HeadersPassed /\ CardsPassed' = CardsPassed
    BY <2>1, CostsStay
  <2>3. Len(text') = Len(text) + 1
    BY <1>7, Numbers
  <2> QED
    BY <1>4, <2>1, <2>2, <2>3 DEF Reasons, WorkAgrees, LimitsAreReached, RefusedInPlace, Kinds
<1>8. \/ /\ headerBytes' > MaxHeader \/ structures' > MaxStructures
         /\ Refuse("limit") /\ UNCHANGED header
      \/ Refuse("incomplete") \/ Refuse("invalid")
      \/ \E card \in Cards : /\ text' = Append(text, card)
                             /\ Go(IF card.name = "END" THEN "header" ELSE "cards")
  BY Zenon DEF ReadCard
<1> QED
  BY <1>5, <1>6, <1>7, <1>8

LEMMA ReasonsCheckHeader == Inv /\ Reasons /\ CheckHeader => Reasons'
<1> SUFFICES ASSUME Inv, Reasons, CheckHeader PROVE Reasons'
  OBVIOUS
<1>1. phase = "header" /\ verdict = "none" /\ text' = text /\ UNCHANGED header
  BY DEF CheckHeader, At, header
<1>2. HeaderRead
  BY <1>1, InvHeaderRead
<1>3. /\ headerBytes = HeadersPassed + Len(text) * CardSize
      /\ structures = CardsPassed + Len(text)
  BY <1>1 DEF Reasons, WorkAgrees
<1>4. /\ WholeBlocks(Len(text) * CardSize) = HeaderSize /\ HeaderSize \in Nat
      /\ headerBytes - Len(text) * CardSize + HeaderSize = HeadersPassed + HeaderSize
  <2> DEFINE read == Len(text) * CardSize
  <2>1. read \in Nat
    BY ReasonNumbers
  <2> HIDE DEF read
  <2>2. WholeBlocks(read) = Padded(read) /\ Padded(read) \in Nat
    BY <2>1, PaddedIsLeast
  <2>3. HeaderSize = Padded(read)
    BY DEF HeaderSize, read
  <2>4. headerBytes = HeadersPassed + read
    BY <1>3 DEF read
  <2>5. headerBytes - read + HeaderSize = HeadersPassed + HeaderSize
    BY <2>1, <2>2, <2>3, <2>4, ReasonNumbers
  <2> QED
    BY <2>2, <2>3, <2>5 DEF read
<1>5. CASE FirstFault # "none" /\ Refuse(FirstFault) /\ UNCHANGED counters
  <2>1. PICK m \in 1..18 :
          /\ HeaderChecks[m] # "none" /\ FirstFault = HeaderChecks[m]
          /\ \A i \in 1..(m - 1) : HeaderChecks[i] = "none"
    BY <1>5, FirstFaultFails
  <2>2. verdict' = HeaderChecks[m] /\ phase' = "header" /\ hdus' = hdus
        /\ UNCHANGED <<header, hdu>>
    BY <1>1, <1>5, <2>1 DEF Refuse
  <2>3. HeaderChecks[m] \notin {"none", "integrity"}
    BY <1>2, <2>1, ChecksAreNoSums
  <2>4. RefusedInPlace'
    BY <2>2, <2>3 DEF RefusedInPlace
  <2>5. CASE HeaderChecks[m] = "limit"
    <3>1. \/ HeadersPassed + HeaderSize > MaxHeader
          \/ decoded + Declared > MaxDecoded
          \/ "limit" \in {Says("TFIELDS", "fits"), Says("ZIMAGE", "fits")}
      BY <1>2, <1>4, <2>5, RefusedForLimit
    <3>2. decoded = DecodedPassed /\ Declared = SaidDecoded
      <4>1. decoded = DecodedPassed + 0 /\ DecodedPassed \in Nat
        BY <1>1, TotalsAreNumbers DEF Inv, CountersAgree, UnitsFollow
      <4> QED
        BY <1>2, <4>1, WalkComputes
    <3>3. /\ HeadersPassed' = HeadersPassed /\ DecodedPassed' = DecodedPassed
          /\ SaidDecoded' = SaidDecoded /\ \A k, d : Says(k, d)' = Says(k, d)
      BY <2>2, CostsStay, Unchanged
    <3>4. LimitsAreReached'
      BY <1>1, <1>4, <2>2, <3>1, <3>2, <3>3 DEF LimitsAreReached
    <3> QED
      BY <2>2, <2>4, <2>5, <3>4 DEF Reasons, WorkAgrees
  <2>6. CASE HeaderChecks[m] # "limit"
    BY <2>2, <2>3, <2>4, <2>6, ReasonsOfVerdict
  <2> QED
    BY <2>5, <2>6
<1>6. ASSUME headerBytes' = headerBytes - Len(text) * CardSize + HeaderSize,
             Go("sums"), structures' = structures
      PROVE  Reasons'
  <2>1. phase' = "sums" /\ verdict' = "none" /\ hdus' = hdus
    BY <1>1, <1>6 DEF Go
  <2>2. HeadersPassed' = HeadersPassed /\ CardsPassed' = CardsPassed
    BY <2>1, CostsStay
  <2>3. /\ headerBytes' = HeadersPassed' + WholeBlocks(Len(text') * CardSize)
        /\ structures' = CardsPassed' + Len(text')
    BY <1>1, <1>3, <1>4, <1>6, <2>2
  <2> QED
    BY <2>1, <2>3 DEF Reasons, WorkAgrees, LimitsAreReached, RefusedInPlace, Kinds
<1> QED
  BY <1>5, <1>6 DEF CheckHeader

LEMMA ReasonsVerifySums == Inv /\ Reasons /\ VerifySums => Reasons'
<1> SUFFICES ASSUME Inv, Reasons, VerifySums PROVE Reasons'
  OBVIOUS
<1>1. /\ phase = "sums" /\ verdict = "none" /\ text' = text
      /\ headerBytes' = headerBytes /\ structures' = structures
  BY DEF VerifySums, At, header
<1>2. CASE Refuse("integrity")
  <2>1. verdict' = "integrity" /\ phase' = "sums"
    BY <1>1, <1>2 DEF Refuse
  <2> QED
    BY <2>1, ReasonsOfVerdict DEF RefusedInPlace
<1>3. CASE Go("payload")
  <2>1. phase' = "payload" /\ verdict' = "none" /\ hdus' = hdus
    BY <1>1, <1>3 DEF Go
  <2>2. HeadersPassed' = HeadersPassed /\ CardsPassed' = CardsPassed
    BY <2>1, CostsStay
  <2> QED
    BY <1>1, <2>1, <2>2 DEF Reasons, WorkAgrees, LimitsAreReached, RefusedInPlace, Kinds
<1> QED
  BY <1>2, <1>3 DEF VerifySums

LEMMA ReasonsRefusePayload == Inv /\ Reasons /\ RefusePayload => Reasons'
<1> SUFFICES ASSUME Inv, Reasons, RefusePayload PROVE Reasons'
  OBVIOUS
<1>1. PICK kind \in Kinds : Refuse(kind)
  BY DEF RefusePayload
<1>2. verdict' \in Kinds /\ phase' = "payload"
  BY <1>1 DEF RefusePayload, At, Refuse
<1> QED
  BY <1>2 DEF Reasons, WorkAgrees, LimitsAreReached, RefusedInPlace, Kinds

LEMMA ReasonsNextHdu == Inv /\ Reasons /\ NextHdu => Reasons'
<1> SUFFICES ASSUME Inv, Reasons, NextHdu PROVE Reasons'
  OBVIOUS
<1> DEFINE n == Len(hdus)
<1>0. PICK last : last = n + 1
  OBVIOUS
<1>1. /\ phase = "payload" /\ verdict = "none" /\ phase' = "hdu" /\ verdict' = "none"
      /\ headerBytes' = headerBytes /\ structures' = structures
  BY DEF NextHdu, At, counters
<1>2. PICK unit : unit.cards = Len(text) /\ hdus' = Append(hdus, unit)
  BY DEF NextHdu
<1>3. hdus \in Seq(Units) /\ hdus' \in Seq(Units)
  <2>1. Inv'
    BY InvNextHdu
  <2> QED
    BY <2>1 DEF Inv, UnitsFollow
<1>4. /\ n \in Nat /\ DOMAIN hdus = 1..n /\ DOMAIN hdus' = 1..n \cup {last}
      /\ \A i \in 1..n : hdus'[i] = hdus[i]
      /\ hdus'[last] = unit /\ Len(hdus') = n + 1 /\ last \notin 1..n
  BY <1>0, <1>2, <1>3
<1>5. /\ HeaderCosts \in [1..n -> Nat] /\ CardCosts \in [1..n -> Nat] /\ IsFiniteSet(1..n)
      /\ HeadersPassed = Total(HeaderCosts) /\ CardsPassed = Total(CardCosts)
  BY <1>3, CostsAreNumbers
<1>6. /\ HeaderCosts' \in [1..n \cup {last} -> Nat] /\ CardCosts' \in [1..n \cup {last} -> Nat]
      /\ HeadersPassed' = Total(HeaderCosts') /\ CardsPassed' = Total(CardCosts')
  <2>1. (hdus \in Seq(Units) =>
           /\ HeaderCosts \in [1..Len(hdus) -> Nat] /\ CardCosts \in [1..Len(hdus) -> Nat]
           /\ HeadersPassed = Total(HeaderCosts) /\ CardsPassed = Total(CardCosts))'
    BY CostsAreNumbers, PTL
  <2>2. 1..Len(hdus') = 1..n \cup {last}
    BY <1>4
  <2> QED
    BY <1>3, <2>1, <2>2
<1>7. /\ \A i \in 1..n : HeaderCosts'[i] = HeaderCosts[i] /\ CardCosts'[i] = CardCosts[i]
      /\ HeaderCosts'[last] = WholeBlocks(Len(text) * CardSize)
      /\ CardCosts'[last] = Len(text)
  <2> HIDE DEF n
  <2> QED
    BY <1>2, <1>4 DEF HeaderCosts, CardCosts
<1> HIDE DEF n
<1>8. /\ Total(HeaderCosts') = Total(HeaderCosts) + HeaderCosts'[last]
      /\ Total(CardCosts') = Total(CardCosts) + CardCosts'[last]
  <2> DEFINE D == 1..n
             f == HeaderCosts
             g == HeaderCosts'
             p == CardCosts
             q == CardCosts'
  <2>1. IsFiniteSet(D)
    BY <1>5
  <2>2. f \in [D -> Nat] /\ p \in [D -> Nat]
    BY <1>5
  <2>3. g \in [D \cup {last} -> Nat] /\ q \in [D \cup {last} -> Nat]
    BY <1>6
  <2>4. last \notin D /\ \A i \in D : g[i] = f[i]
    BY <1>4, <1>7
  <2>5. last \notin D /\ \A i \in D : q[i] = p[i]
    BY <1>4, <1>7
  <2> HIDE DEF D, f, g, p, q
  <2>6. Total(g) = Total(f) + g[last]
    BY <2>1, <2>2, <2>3, <2>4, TotalExtends
  <2>7. Total(q) = Total(p) + q[last]
    BY <2>1, <2>2, <2>3, <2>5, TotalExtends
  <2> QED
    BY <2>6, <2>7 DEF f, g, p, q
<1>9. /\ headerBytes = HeadersPassed + WholeBlocks(Len(text) * CardSize)
      /\ structures = CardsPassed + Len(text)
  BY <1>1 DEF Reasons, WorkAgrees
<1>10. headerBytes' = HeadersPassed' /\ structures' = CardsPassed'
  BY <1>1, <1>5, <1>6, <1>7, <1>8, <1>9
<1> QED
  BY <1>1, <1>10 DEF Reasons, WorkAgrees, LimitsAreReached, RefusedInPlace, Kinds

LEMMA ReasonsNext == Inv /\ Reasons /\ [Next]_vars => Reasons'
<1> SUFFICES ASSUME Inv, Reasons, [Next]_vars PROVE Reasons'
  OBVIOUS
<1>1. CASE Finish
  <2>1. verdict' = "valid"
    BY <1>1 DEF Finish
  <2> QED
    BY <2>1, ReasonsOfVerdict DEF RefusedInPlace, Kinds
<1>2. CASE UNCHANGED vars
  <2>1. /\ verdict' = verdict /\ phase' = phase /\ text' = text /\ hdus' = hdus
        /\ headerBytes' = headerBytes /\ structures' = structures
        /\ UNCHANGED <<header, hdu>>
    BY <1>2 DEF vars, header, hdu
  <2>2. /\ HeadersPassed' = HeadersPassed /\ CardsPassed' = CardsPassed
        /\ DecodedPassed' = DecodedPassed
        /\ SaidDecoded' = SaidDecoded /\ \A k, d : Says(k, d)' = Says(k, d)
    BY <2>1, CostsStay, Unchanged
  <2>3. WorkAgrees'
    BY <2>1, <2>2 DEF Reasons, WorkAgrees
  <2>4. LimitsAreReached'
    BY <2>1, <2>2 DEF Reasons, LimitsAreReached
  <2>5. RefusedInPlace'
    BY <2>1 DEF Reasons, RefusedInPlace
  <2> QED
    BY <2>3, <2>4, <2>5 DEF Reasons
<1> QED
  BY <1>1, <1>2, ReasonsBeginHdu, ReasonsReadCard, ReasonsCheckHeader,
     ReasonsVerifySums, ReasonsRefusePayload, ReasonsNextHdu DEF Next

(* In every state, refusals for a limit and their places have a reason. *)
LEMMA ReasonsHold == Spec => []Reasons
<1>1. Init => Reasons
  BY ReasonsInit
<1>2. Inv /\ Reasons /\ [Next]_vars => Reasons'
  BY ReasonsNext
<1> QED
  BY <1>1, <1>2, Invariant, PTL DEF Spec

-----------------------------------------------------------------------------
(* What the invariants say of the walk.                                    *)

(* The checksums of a header, counted in the map and in the cards. *)
LEMMA SumsOfTheHeader ==
  ASSUME HeaderRead
  PROVE  LET here == {"DATASUM", "CHECKSUM"} \cap {text[i].name : i \in DOMAIN text}
         IN  /\ Here = Cardinality(here)
             /\ \A name \in here : <<name, 0>> \in Sums \cap DOMAIN h
<1> DEFINE here == {"DATASUM", "CHECKSUM"} \cap {text[i].name : i \in DOMAIN text}
           there == Sums \cap DOMAIN h
<1>1. ASSUME NEW name \in {"DATASUM", "CHECKSUM"}
      PROVE  name \in here <=> <<name, 0>> \in there
  <2>1. ASSUME NEW i \in DOMAIN text, text[i].name = name
        PROVE  <<name, 0>> \in DOMAIN h
    <3>1. text[i].n = 0 /\ Recorded(text[i]) /\ Key(text[i]) = <<name, 0>>
      BY <2>1, CardFields DEF HeaderRead, Recorded, Key
    <3> QED
      BY <3>1 DEF HeaderRead, Lookup
  <2>2. ASSUME <<name, 0>> \in DOMAIN h
        PROVE  \E i \in DOMAIN text : text[i].name = name
    BY <2>2 DEF HeaderRead, Lookup, Key
  <2>3. <<name, 0>> \in Sums
    BY DEF Sums
  <2> QED
    BY <2>1, <2>2, <2>3
<1>2. Cardinality(there) = Cardinality(here)
  <2> DEFINE key == [name \in here |-> <<name, 0>>]
  <2>1. key \in Bijection(here, there)
    <3>1. \A name \in here : <<name, 0>> \in there
      BY <1>1
    <3>2. \A k \in there : \E name \in here : k = <<name, 0>>
      BY <1>1 DEF Sums
    <3>3. \A a, b : <<a, 0>> = <<b, 0>> => a = b
      OBVIOUS
    <3> HIDE DEF here, there
    <3>4. key \in [here -> there]
      BY <3>1
    <3>5. \A a, b \in here : key[a] = key[b] => a = b
      BY <3>3
    <3>6. \A k \in there : \E name \in here : key[name] = k
      BY <3>2
    <3> QED
      BY <3>4, <3>5, <3>6 DEF Bijection, Injection, Surjection, IsInjective
  <2>2. IsFiniteSet(there)
    BY SumsAreFinite, FS_Intersection
  <2>3. IsFiniteSet(here)
    <3>1. IsFiniteSet({"DATASUM"} \cup {"CHECKSUM"})
      BY FS_Singleton, FS_AddElement
    <3>2. here \in SUBSET ({"DATASUM"} \cup {"CHECKSUM"})
      OBVIOUS
    <3> HIDE DEF here
    <3> QED
      BY <3>1, <3>2, FS_Subset
  <2> HIDE DEF here, there, key
  <2> QED
    BY <2>1, <2>2, <2>3, FS_Bijection DEF ExistsBijection
<1> QED
  BY <1>1, <1>2 DEF Here

(* Payloads come after the checksums. *)
LEMMA ChecksumsFollow == Inv => ChecksumsComeFirst
<1> SUFFICES ASSUME Inv PROVE ChecksumsComeFirst
  OBVIOUS
<1> DEFINE here == {"DATASUM", "CHECKSUM"} \cap {text[i].name : i \in DOMAIN text}
<1>1. ASSUME phase = "payload", level = "full"
      PROVE  /\ \A name \in here : Says(name, "bad") = "good"
             /\ verified = Summed + Cardinality(here)
  <2>1. HeaderRead
    BY <1>1, InvHeaderRead
  <2>2. verified = Summed + Here /\ \A k \in Sums \cap DOMAIN h : h[k] = "good"
    BY <1>1 DEF Inv, CountersAgree
  <2>3. Here = Cardinality(here) /\ \A name \in here : <<name, 0>> \in Sums \cap DOMAIN h
    BY <2>1, SumsOfTheHeader
  <2>4. ASSUME NEW name \in here PROVE Says(name, "bad") = "good"
    <3>1. name \in {"DATASUM", "CHECKSUM"}
      OBVIOUS
    <3>2. <<name, 0>> \in DOMAIN h /\ h[<<name, 0>>] = "good"
      BY <2>2, <2>3
    <3>3. Says(name, "bad") = Optional(name, "bad")
      BY <2>1, <3>1, SaysIs
    <3> QED
      BY <3>2, <3>3 DEF Optional, Has
  <2> QED
    BY <2>2, <2>3, <2>4
<1>2. ASSUME verdict = "valid"
      PROVE  present = Summed /\ verified = IF level = "full" THEN Summed ELSE 0
  <2>1. phase = "hdu" /\ level \in {"structural", "full"}
    BY <1>2 DEF Inv, UnitsFollow, TypeOK
  <2>2. Summed \in Nat
    BY TotalsAreNumbers DEF Inv, UnitsFollow
  <2> QED
    BY <2>1, <2>2 DEF Inv, CountersAgree
<1> QED
  BY <1>1, <1>2 DEF ChecksumsComeFirst, Summed

(* Every variable keeps its type, and the counters their limits, in every  *)
(* walk (header and structure of validation/mod.rs).                       *)
THEOREM Typed == Spec => []TypeOK
<1>1. Inv => TypeOK
  BY DEF Inv
<1> QED
  BY <1>1, Invariant, PTL

(* A unit whose data are read is legal, supported, inside the file, and its *)
(* declared work was admitted (validate of validation/fits.rs).            *)
THEOREM ReadsAreLegal == Spec => []ReadUnitsAreLegal
<1>1. Inv => ReadUnitsAreLegal
  BY DEF Inv
<1> QED
  BY <1>1, Invariant, PTL

(* No sound file is called damaged, no complete one cut off, and none over *)
(* a limit that its headers and the work they declare do not exceed.       *)
THEOREM RefusalsHaveReasons == Spec => []RefusalsAreJustified
<1>1. Inv /\ Reasons => RefusalsAreJustified
  BY DEF Inv, Reasons, RefusalsAreJustified
<1> QED
  BY <1>1, Invariant, ReasonsHold, PTL

(* The units tile the file, and the checksums of each were counted, and    *)
(* verified before its payload was decoded.                                *)
THEOREM EveryUnitIsPassed == Spec => []UnitsAreAccounted
<1>1. Inv => UnitsAreAccounted
  BY ChecksumsFollow DEF Inv, UnitsAreAccounted
<1> QED
  BY <1>1, Invariant, PTL
=============================================================================
