------------------------------- MODULE FitsWalk -------------------------------
(***************************************************************************)
(* The walk of the validator over the header and data units of a FITS file *)
(* (validate of validation/fits.rs), on a file that does not change: the   *)
(* cards of a header one by one, the checks on what they declare, the      *)
(* checksums, and the next unit.                                           *)
(*                                                                         *)
(* The file is unknown until it is read: each read picks a card.  Values   *)
(* are what the checks tell apart: numbers with -1 for text that is not a  *)
(* nonnegative number; "fits" where the columns of a table, or the tiles   *)
(* of a compressed image, agree with the rest of the header, or else the   *)
(* error they lead to; "good" or "bad" for a checksum that holds or does   *)
(* not.                                                                    *)
(* Cancellation and changes of the file are ValidateFile's, reservations   *)
(* of memory MemoryBudget's.                                               *)
(***************************************************************************)
EXTENDS ByteTotals, Sequences, FiniteSetsExt, Functions

CONSTANTS
  CardSize,      \* 80 bytes
  BlockSize,     \* 2880 bytes
  MaxInt,        \* u64::MAX
  MaxAxes,       \* 999
  MaxHeader,     \* limits.header
  MaxStructures, \* limits.structures
  MaxDecoded,    \* limits.decoded
  Sizes,         \* lengths of a file
  Cards,         \* cards of 80 bytes, as the checks tell them apart
  TileBytes,     \* decoded size of a compressed image
  MaxExtra       \* bound: cards after the mandatory ones, in one header

(* Keywords.  COMMENT stands for those the walk does not record, BROKEN    *)
(* for a card that is not ASCII or not of the form its keyword asks for.   *)
Names == <<"SIMPLE", "XTENSION", "BITPIX", "NAXIS", "PCOUNT", "GCOUNT",
           "GROUPS", "TFIELDS", "ZIMAGE", "DATASUM", "CHECKSUM", "COMMENT",
           "BROKEN", "END">>

Kinds == {"invalid", "unsupported", "limit", "incomplete", "integrity"}

(* A number is one that fits u64, or -1; only the axes are numbered.  The  *)
(* walk is taken by files that begin with SIMPLE, which are not empty.     *)
ASSUME FitsAssumption ==
  /\ {CardSize, BlockSize, MaxInt, MaxAxes, MaxHeader, MaxStructures,
      MaxDecoded, TileBytes} \subseteq Nat \ {0}
  /\ BlockSize % CardSize = 0
  /\ Sizes \subseteq 1..(MaxInt - 2 * BlockSize)
  /\ \A card \in Cards :
       /\ card.name \in Range(Names) /\ card.n \in 0..MaxAxes
       /\ card.n > 0 => card.name = "NAXIS"
       /\ card.name \in {"NAXIS", "PCOUNT", "GCOUNT"} => card.value \in -1..MaxInt
       /\ card.name = "TFIELDS" =>
            card.value \in {"fits", "invalid", "unsupported", "limit"}
       /\ card.name = "ZIMAGE" =>
            card.value \in {"fits", "F", "invalid", "unsupported", "limit"}
       /\ card.name \in {"DATASUM", "CHECKSUM"} =>
            card.value \in {"good", "bad", "malformed"}

VARIABLES
  level,       \* options.level
  size,        \* c.stamp.size
  index,       \* HDU at work
  start,       \* where it starts
  offset,      \* where the next card is
  text,        \* cards of this header read so far
  h,           \* structural keywords and their values
  headerBytes, structures, decoded, images,  \* counters of the call
  present, verified,                         \* c.checksums
  phase,       \* place in the loop
  verdict,     \* how the walk ended
  hdus         \* history: the units accepted

vars == <<level, size, index, start, offset, text, h, headerBytes, structures,
          decoded, images, present, verified, phase, verdict, hdus>>
file == <<level, size>>
hdu == <<index, start>>
header == <<offset, text, h>>
counters == <<headerBytes, structures, decoded, images, present, verified>>

Sums == {<<"DATASUM", 0>>, <<"CHECKSUM", 0>>}

Key(card) == <<card.name, card.n>>
Has(name) == <<name, 0>> \in DOMAIN h
(* number and optional: -1 for a missing or malformed value.  *)
Number(name, n) == IF <<name, n>> \in DOMAIN h THEN h[<<name, n>>] ELSE -1
Optional(name, default) == IF Has(name) THEN h[<<name, 0>>] ELSE default
Is(name, value) == Has(name) /\ h[<<name, 0>>] = value

(* Mutant: an exact multiple gets another block. *)
PaddedPlus(n) == (n \div BlockSize + 1) * BlockSize
Padded(n) == ((n + BlockSize - 1) \div BlockSize) * BlockSize
(* Checked arithmetic: a value that is no u64 is an error of its own. *)
Overflows(n) == n \notin 0..MaxInt
-----------------------------------------------------------------------------
Init ==
  /\ level \in {"structural", "full"}
  /\ size \in Sizes
  /\ index = 0 /\ start = 0 /\ offset = 0
  /\ text = <<>> /\ h = <<>>
  /\ headerBytes = 0 /\ structures = 0 /\ decoded = 0 /\ images = 0
  /\ present = 0 /\ verified = 0
  /\ phase = "hdu" /\ verdict = "none" /\ hdus = <<>>

At(place) == verdict = "none" /\ phase = place
Refuse(kind) == verdict' = kind /\ UNCHANGED <<phase, hdu, hdus>>
Go(place) == phase' = place /\ UNCHANGED <<verdict, hdus>>

BeginHdu ==
  /\ At("hdu")
  /\ offset < size
  /\ start' = offset /\ text' = <<>> /\ h' = <<>>
  /\ Go("cards")
  /\ UNCHANGED <<file, index, offset, counters>>

Finish ==
  /\ At("hdu")
  /\ offset >= size
  /\ verdict' = "valid"
  /\ UNCHANGED <<file, hdu, header, counters, phase, hdus>>
-----------------------------------------------------------------------------
(* The keywords a header begins with, by place, as far as its NAXIS is     *)
(* known.                                                                  *)
Mandatory ==
  LET top == 3 + (IF Number("NAXIS", 0) = -1 THEN 0 ELSE Number("NAXIS", 0))
  IN  [place \in 1..(IF index = 0 THEN top ELSE top + 2) |->
        CASE place = 1 /\ index = 0 -> <<"SIMPLE", 0>>
          [] place = 1 /\ index > 0 -> <<"XTENSION", 0>>
          [] place = 2               -> <<"BITPIX", 0>>
          [] place = 3               -> <<"NAXIS", 0>>
          [] place \in 4..top        -> <<"NAXIS", place - 3>>
          [] place = top + 1         -> <<"PCOUNT", 0>>
          [] place = top + 2         -> <<"GCOUNT", 0>>]

(* Mutant: only the first three places are looked at. *)
InPlaceAtTop(card) ==
  /\ Len(text) >= 3 => Number("NAXIS", 0) \in 0..MaxAxes
  /\ Len(text) < 3 => Key(card) = Mandatory[Len(text) + 1]

(* Whether a card with this keyword may be the next.                       *)
InPlace(card) ==
  LET place == Len(text) + 1
      required == Mandatory
  IN  /\ place > 3 => Number("NAXIS", 0) \in 0..MaxAxes
      /\ place \in DOMAIN required => Key(card) = required[place]
Recorded(card) == card.name \notin {"COMMENT", "END", "BROKEN"}

(* Input bound: after the mandatory cards a header has MaxExtra cards at   *)
(* most, in the order of Names, and END.  The code keeps them in a map.    *)
Rank(card) == CHOOSE i \in DOMAIN Names : Names[i] = card.name
MayFollow(card) ==
  LET top == Len(Mandatory)
  IN  Len(text) >= 3 /\ Len(text) >= top =>
        \/ card.name = "END"
        \/ /\ Len(text) < top + MaxExtra
           /\ Len(text) > top => Rank(card) >= Rank(text[Len(text)])

(* One turn of the inner loop: the limits, the read, and the card.         *)
ReadCard ==
  /\ At("cards")
  /\ headerBytes' = headerBytes + CardSize
  /\ structures' = structures + 1
  /\ LET over == headerBytes' > MaxHeader \/ structures' > MaxStructures
         short == offset + CardSize > size
     IN  \/ over /\ Refuse("limit") /\ UNCHANGED header
         \/ ~over /\ short /\ Refuse("incomplete") /\ UNCHANGED header
         \/ /\ ~over /\ ~short
            /\ offset' = offset + CardSize
            /\ \E card \in Cards :
                 /\ MayFollow(card)
                 /\ text' = Append(text, card)
                 /\ IF \/ card.name = "BROKEN" \/ ~InPlace(card)
                       \/ Recorded(card) /\ Key(card) \in DOMAIN h
                    THEN Refuse("invalid") /\ UNCHANGED h
                    ELSE /\ h' = IF Recorded(card)
                                 THEN [k \in DOMAIN h \cup {Key(card)} |->
                                        IF k = Key(card) THEN card.value
                                        ELSE h[k]]
                                 ELSE h
                         /\ Go(IF card.name = "END" THEN "header" ELSE "cards")
                         /\ UNCHANGED hdu
  /\ UNCHANGED <<file, decoded, images, present, verified>>
-----------------------------------------------------------------------------
HeaderSize == Padded(Len(text) * CardSize)
Data == start + HeaderSize
Kind == IF index = 0 THEN "IMAGE" ELSE h[<<"XTENSION", 0>>]
Axes == 1..Number("NAXIS", 0)
AxisLengths == [n \in Axes |-> Number("NAXIS", n)]
(* Products over the first axes.  One that overflows stops the loop.       *)
Product(lengths, n) == FoldFunctionOnSet(LAMBDA a, b : a * b, 1, lengths, 1..n)
Elements ==
  IF Axes = {} THEN 0 ELSE Product(AxisLengths, Number("NAXIS", 0))
Pcount == IF index = 0 THEN Optional("PCOUNT", 0) ELSE Number("PCOUNT", 0)
Gcount == IF index = 0 THEN Optional("GCOUNT", 1) ELSE Number("GCOUNT", 0)
Bytes(bitpix) == IF bitpix < 0 THEN -bitpix \div 8 ELSE bitpix \div 8
DataSize == (Elements + Pcount) * Bytes(h[<<"BITPIX", 0>>])
Compressed == Has("ZIMAGE") /\ ~Is("ZIMAGE", "F")
Declared == IF Compressed THEN TileBytes ELSE DataSize

(* The checks on a header, in order; the first that fails ends the walk.   *)
Fault(fails, kind) == IF fails THEN kind ELSE "none"
FormChecks ==
  <<Fault(headerBytes - Len(text) * CardSize + HeaderSize > MaxHeader, "limit"),
    Fault(start + HeaderSize > size, "incomplete"),
    Fault((index = 0 /\ ~Is("SIMPLE", "T")) \/ Is("GROUPS", "T"), "unsupported"),
    Fault(h[<<"BITPIX", 0>>] \notin {8, 16, 32, 64, -32, -64}, "invalid")>>
SizeChecks ==
  <<Fault(\E n \in Axes : AxisLengths[n] = -1
                          \/ Overflows(Product(AxisLengths, n)), "invalid"),
    Fault(Pcount = -1 \/ Gcount = -1, "invalid"),
    Fault(Gcount # 1, "unsupported"),
    Fault(Kind = "IMAGE" /\ Pcount # 0, "invalid"),
    Fault(Kind \in {"TABLE", "BINTABLE"}
            /\ (h[<<"BITPIX", 0>>] # 8 \/ Number("NAXIS", 0) # 2), "invalid"),
    Fault(Kind \notin {"IMAGE", "TABLE", "BINTABLE"}, "unsupported"),
    Fault(Overflows(DataSize + BlockSize - 1)
            \/ Overflows(Data + Padded(DataSize)), "invalid"),
    Fault(Data + Padded(DataSize) > size, "incomplete")>>
ContentChecks ==
  <<Fault(Kind = "TABLE" /\ Pcount # 0, "invalid"),
    Fault(Kind \in {"TABLE", "BINTABLE"} /\ ~Is("TFIELDS", "fits"),
          Optional("TFIELDS", "invalid")),
    Fault(Compressed /\ Kind # "BINTABLE", "invalid"),
    Fault(Compressed /\ ~Is("ZIMAGE", "fits"), Optional("ZIMAGE", "invalid")),
    Fault(decoded + Declared > MaxDecoded, "limit"),
    Fault(Is("DATASUM", "malformed") \/ Is("CHECKSUM", "malformed"), "invalid")>>

HeaderChecks == FormChecks \o SizeChecks \o ContentChecks
FirstFault ==
  LET checks == HeaderChecks
      failing == {i \in DOMAIN checks : checks[i] # "none"}
  IN  IF failing = {} THEN "none" ELSE checks[Min(failing)]

(* What follows the inner loop, up to the checksums.  The counters of a    *)
(* refused call are not reported, and stay.                                *)
CheckHeader ==
  /\ At("header")
  /\ \/ /\ FirstFault # "none"
        /\ Refuse(FirstFault)
        /\ UNCHANGED counters
     \/ /\ FirstFault = "none"
        /\ headerBytes' = headerBytes - Len(text) * CardSize + HeaderSize
        /\ images' = IF Compressed \/ (Kind = "IMAGE" /\ Elements > 0)
                     THEN images + 1 ELSE images
        /\ decoded' = decoded + Declared
        /\ present' = present + Cardinality(Sums \cap DOMAIN h)
        /\ Go("sums")
        /\ UNCHANGED <<structures, verified, hdu>>
  /\ UNCHANGED <<file, header>>

(* The checksums, DATASUM first; only a full validation reads the data.    *)
VerifySums ==
  /\ At("sums")
  /\ IF level = "full"
     THEN IF \E k \in Sums \cap DOMAIN h : h[k] = "bad"
          THEN Refuse("integrity") /\ UNCHANGED verified
          ELSE /\ verified' = verified + Cardinality(Sums \cap DOMAIN h)
               /\ Go("payload") /\ UNCHANGED hdu
     ELSE Go("payload") /\ UNCHANGED <<verified, hdu>>
  /\ UNCHANGED <<file, header, headerBytes, structures, decoded, images,
                 present>>

(* The tiles of a compressed image are decoded, or their codec is noted,   *)
(* and may be refused for any reason of the decoders.                      *)
RefusePayload ==
  /\ At("payload")
  /\ Compressed
  /\ \E kind \in Kinds : Refuse(kind)
  /\ UNCHANGED <<file, header, counters>>

(* Mutant: the next unit is looked for where the data end. *)
NextHduUnpadded ==
  /\ At("payload")
  /\ offset' = Data + DataSize
  /\ index' = index + 1
  /\ hdus' = Append(hdus, [start |-> start, end |-> offset',
                           cards |-> Len(text),
                           sums |-> Sums \cap DOMAIN h, declared |-> Declared])
  /\ phase' = "hdu"
  /\ UNCHANGED <<file, start, text, h, counters, verdict>>

NextHdu ==
  /\ At("payload")
  /\ offset' = Data + Padded(DataSize)
  /\ index' = index + 1
  /\ hdus' = Append(hdus, [start |-> start, end |-> offset',
                           cards |-> Len(text),
                           sums |-> Sums \cap DOMAIN h, declared |-> Declared])
  /\ phase' = "hdu"
  /\ UNCHANGED <<file, start, text, h, counters, verdict>>

Next ==
  \/ BeginHdu \/ Finish \/ ReadCard \/ CheckHeader \/ VerifySums
  \/ RefusePayload \/ NextHdu

Spec == Init /\ [][Next]_vars
-----------------------------------------------------------------------------
(* What a header says, read from its cards as a whole. *)
Occurrences(name) == {i \in DOMAIN text : text[i].name = name /\ text[i].n = 0}
Says(name, default) ==
  IF Occurrences(name) = {} THEN default ELSE text[Min(Occurrences(name))].value
Dimensions == Says("NAXIS", 0)
Extent(n) == text[3 + n].value
WholeBlocks(n) == Min({b \in {k * BlockSize : k \in 0..n} : b >= n})
Volume(n) == FoldFunctionOnSet(LAMBDA a, b : a * b, 1,
                               [k \in 1..Dimensions |-> Extent(k)], 1..n)
SaidSize ==
  ((IF Dimensions = 0 THEN 0 ELSE Volume(Dimensions)) + Says("PCOUNT", 0))
    * Bytes(Says("BITPIX", 8))
SaidType == IF index = 0 THEN "IMAGE" ELSE Says("XTENSION", "none")
SaidDecoded == IF Says("ZIMAGE", "F") = "F" THEN SaidSize ELSE TileBytes
HeaderEnd == start + WholeBlocks(Len(text) * CardSize)
UnitEnd == HeaderEnd + WholeBlocks(SaidSize)

(* The order of the FITS standard, of the cards read so far.               *)
InOrder ==
  LET opening == <<IF index = 0 THEN "SIMPLE" ELSE "XTENSION",
                   "BITPIX", "NAXIS">>
      top == 3 + Dimensions
      closing == <<"PCOUNT", "GCOUNT">>
  IN  /\ \A i \in DOMAIN text :
           /\ i <= 3 => text[i].name = opening[i] /\ text[i].n = 0
           /\ i > 3 =>
                /\ Dimensions \in 0..MaxAxes
                /\ i <= top => text[i].name = "NAXIS" /\ text[i].n = i - 3
                /\ index > 0 /\ i - top \in 1..2 =>
                     text[i].name = closing[i - top]
           /\ text[i].name # "BROKEN"
      /\ \A i, j \in DOMAIN text :
           i < j /\ text[i].name = text[j].name /\ text[i].n = text[j].n =>
             text[i].name = "COMMENT"

(* A header whose numbers can be right for a file of some length.  The     *)
(* axes are multiplied from the first: one that no u64 holds is not saved  *)
(* by an axis of length zero after it.                                     *)
Legal ==
  /\ InOrder
  /\ text[Len(text)].name = "END"
  /\ Says("BITPIX", 7) \in {8, 16, 32, 64, -32, -64}
  /\ \A n \in 1..Dimensions : Extent(n) # -1 /\ Volume(n) \in 0..MaxInt
  /\ Says("PCOUNT", 0) # -1 /\ Says("GCOUNT", 1) # -1
  /\ UnitEnd + BlockSize <= MaxInt
  /\ SaidType = "IMAGE" => Says("PCOUNT", 0) = 0 /\ Says("ZIMAGE", "F") = "F"
  /\ SaidType = "TABLE" => Says("PCOUNT", 0) = 0 /\ Says("ZIMAGE", "F") = "F"
  /\ SaidType \in {"TABLE", "BINTABLE"} =>
       /\ Dimensions = 2 /\ Says("BITPIX", 7) = 8
       /\ Says("TFIELDS", "invalid") # "invalid"
  /\ Says("ZIMAGE", "F") # "invalid"
  /\ Says("DATASUM", "good") # "malformed"
  /\ Says("CHECKSUM", "good") # "malformed"
Supported ==
  /\ index = 0 => Says("SIMPLE", "F") = "T"
  /\ Says("GROUPS", "F") # "T" /\ Says("GCOUNT", 1) = 1
  /\ SaidType \in {"IMAGE", "TABLE", "BINTABLE"}

(* Every variable keeps its type, and the counters their limits.           *)
TypeOK ==
  /\ level \in {"structural", "full"} /\ size \in Sizes
  /\ index = Len(hdus) /\ start \in 0..size /\ offset \in 0..size
  /\ text \in Seq(Cards)
  /\ DOMAIN h \subseteq {Key(text[i]) : i \in DOMAIN text}
  /\ verdict # "limit" =>
       headerBytes <= MaxHeader /\ structures <= MaxStructures
  /\ headerBytes \in Nat /\ structures \in Nat /\ decoded \in 0..MaxDecoded
  /\ images \in 0..(Len(hdus) + 1) /\ present \in Nat /\ verified \in Nat
  /\ phase \in {"hdu", "cards", "header", "sums", "payload"}
  /\ verdict \in Kinds \cup {"none", "valid"}

(* What the units passed have cost, counted again from the units.          *)
HeadersPassed == Total([i \in DOMAIN hdus |-> WholeBlocks(hdus[i].cards * CardSize)])
CardsPassed == Total([i \in DOMAIN hdus |-> hdus[i].cards])
DecodedPassed == Total([i \in DOMAIN hdus |-> hdus[i].declared])

(* A unit whose data are read is one the standard knows, in the subset the *)
(* validator supports, lies in the file, and its declared work was admitted*)
(* with that of the units before it (Bound declared work before checksum   *)
(* I/O).                                                                   *)
ReadUnitsAreLegal ==
  phase \in {"sums", "payload"} =>
    /\ Legal /\ Supported
    /\ UnitEnd <= size
    /\ DecodedPassed + SaidDecoded <= MaxDecoded

(* No sound file is called damaged: a header refused as invalid breaks a   *)
(* rule, an incomplete file is shorter than the headers in it say, and a   *)
(* checksum that holds is not called bad.                                  *)
DamageIsReal ==
  /\ verdict = "invalid" /\ phase = "cards" => ~InOrder
  /\ verdict = "invalid" /\ phase = "header" => ~Legal
  /\ verdict = "incomplete" /\ phase = "cards" => offset + CardSize > size
  /\ verdict = "incomplete" /\ phase = "header" =>
       HeaderEnd > size \/ UnitEnd > size
  /\ verdict = "unsupported" /\ phase = "header" =>
       \/ ~Supported
       \/ "unsupported" \in {Says("TFIELDS", "fits"), Says("ZIMAGE", "fits")}
  /\ verdict = "integrity" /\ phase = "sums" =>
       level = "full" /\ "bad" \in {Says("DATASUM", "good"), Says("CHECKSUM", "good")}

(* No limit is said to be exceeded that is not: the headers up to here, in *)
(* whole blocks but for the one being read, their cards with the next one, *)
(* or the declared work are more than the call allows, or a table or its   *)
(* tiles are.                                                              *)
LimitsAreReached ==
  /\ verdict = "limit" /\ phase = "cards" =>
       \/ HeadersPassed + (Len(text) + 1) * CardSize > MaxHeader
       \/ CardsPassed + Len(text) + 1 > MaxStructures
  /\ verdict = "limit" /\ phase = "header" =>
       \/ HeadersPassed + WholeBlocks(Len(text) * CardSize) > MaxHeader
       \/ DecodedPassed + SaidDecoded > MaxDecoded
       \/ "limit" \in {Says("TFIELDS", "fits"), Says("ZIMAGE", "fits")}

(* A refusal is made at a place that can have a reason for it; the codes   *)
(* of the decoders of a payload are their own (FitsTiles).                 *)
RefusedInPlace ==
  verdict \in Kinds =>
    /\ phase # "hdu"
    /\ phase = "cards" => verdict \in {"invalid", "incomplete", "limit"}
    /\ phase = "header" => verdict # "integrity"
    /\ phase = "sums" => verdict = "integrity"

(* Up to the payloads every refusal, of whatever kind, has its reason in   *)
(* the cards, the length of the file and the limits of the call.           *)
RefusalsAreJustified == DamageIsReal /\ LimitsAreReached /\ RefusedInPlace

(* Units follow each other without gap or overlap, in whole blocks, and a  *)
(* valid file ends where its last unit ends.                               *)
UnitsTileTheFile ==
  /\ \A i \in DOMAIN hdus :
       /\ hdus[i].start = (IF i = 1 THEN 0 ELSE hdus[i - 1].end)
       /\ hdus[i].end > hdus[i].start /\ hdus[i].end % BlockSize = 0
       /\ hdus[i].end <= size
  /\ verdict = "valid" => hdus # <<>> /\ hdus[Len(hdus)].end = size

(* Payloads are decoded after the checksums that cover them have been      *)
(* verified; a full report leaves none unchecked and a structural report   *)
(* claims none (unchecked of ChecksumSummary).                             *)
ChecksumsComeFirst ==
  LET before == Total([i \in DOMAIN hdus |-> Cardinality(hdus[i].sums)])
      here == {"DATASUM", "CHECKSUM"} \cap {text[i].name : i \in DOMAIN text}
  IN  /\ phase = "payload" /\ level = "full" =>
           /\ \A name \in here : Says(name, "bad") = "good"
           /\ verified = before + Cardinality(here)
      /\ verdict = "valid" =>
           /\ present = before
           /\ verified = IF level = "full" THEN before ELSE 0

(* Every unit of the file is passed once, and its checksums with it. *)
UnitsAreAccounted == UnitsTileTheFile /\ ChecksumsComeFirst
=============================================================================
