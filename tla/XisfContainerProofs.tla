------------------------ MODULE XisfContainerProofs ------------------------
(***************************************************************************)
(* The validation of an XISF container and the loading of its image, for   *)
(* every set of files, every limit and every buffer length: nothing that   *)
(* an element carries is ignored, what is decoded was admitted, validator  *)
(* and loader agree, and the loader returns the samples of the image.      *)
(*                                                                         *)
(* The inductive invariant says of every element passed what its checks    *)
(* established, counts the blocks checked, keeps the parts of the block at *)
(* work in line with the offsets of the loop, and says of a refusal which  *)
(* check failed.  The loader's part says what it has read of the file.     *)
(***************************************************************************)
EXTENDS XisfContainer, ByteTotalsProofs, FunctionTheorems

(* Phases within a block; the element that describes a block, its parts,  *)
(* and what it is for a part to be one frame of exactly its lengths.       *)
Working == {"decode", "inflate", "frame"}
Described(b) == nodes[Description(b)]
PartsOf(d) == Parts(d, d.size)
WholePart(d, p) == PartFault(d, Before(PartsOf(d), p - 1, 1), PartsOf(d)[p]) = "none"

(* What the checks established of an element that the loop has passed.     *)
Checked(b) ==
  /\ b \in DOMAIN nodes /\ nodes[b].name # "Reference" /\ nodes[b].form # "none"
  /\ RoleFault(b) = "none" /\ PlaceFault(b) = "none"
  /\ CompressionFault(Described(b), Described(b).size) = "none"
  /\ Expected(nodes[b]) \in {-1, BlockLength(Described(b))}
  /\ (IsImage(nodes[b]) /\ HasCompression(Described(b)) /\ Described(b).item > 0)
       => Described(b).item = SampleSize(nodes[b])
  /\ level = "full" => Described(b).checksum \in {"none", "good"}
Passed(i) ==
  IF nodes[i].name = "Reference" THEN ReferenceFault(i) = "none"
  ELSE RoleFault(i) = "none" /\ (nodes[i].form # "none" => i \in blocks)
DecodedWhole(b) ==
  (level = "full" /\ HasCompression(Described(b))) =>
    \A p \in DOMAIN PartsOf(Described(b)) : WholePart(Described(b), p)

(* What is added up over the blocks checked, and those with a checksum.    *)
Lengths(S) == [b \in S |-> BlockLength(Described(b))]
Summed(S) == {b \in S : Described(b).checksum # "none"}

(* The kinds of a refusal, and the types of the variables.                *)
Kinds == {"incomplete", "invalid", "limit", "unsupported", "integrity"}
TypeInv ==
  /\ file \in Files /\ level \in {"structural", "full"}
  /\ phase \in {"open", "uids", "element"} \cup Working
  /\ at \in 1..(Len(nodes) + 1)
  /\ offset \in Nat /\ taken \in Nat /\ given \in Nat
  /\ structures \in Nat /\ decoded \in Nat /\ images \in Nat
  /\ present \in Nat /\ verified \in Nat
  /\ verdict \in {"none", "valid"} \cup Kinds
  /\ verdict = "valid" => phase = "element" /\ at = Len(nodes) + 1
  /\ phase \in {"open", "uids"} => at = 1
  /\ phase \notin Working => part = 1 /\ offset = 0 /\ taken = 0 /\ given = 0

(* The prefix, the geometries and the identifiers are checked before any   *)
(* element is.                                                             *)
HeaderInv ==
  /\ phase # "open" =>
       /\ EnvelopeFault(file) = "none" /\ structures <= MaxStructures
       /\ \A k \in DOMAIN nodes : IsImage(nodes[k]) => DescriptorFault(nodes[k]) = "none"
  /\ phase \notin {"open", "uids"} =>
       \A i, j \in Identified :
         nodes[i].name # "Reference" /\ (nodes[i].uid = nodes[j].uid => i = j)

(* Elements before the current one are passed, and their blocks decoded.   *)
ElementsInv ==
  /\ \A i \in DOMAIN nodes : i < at => Passed(i)
  /\ blocks \subseteq DOMAIN nodes
  /\ \A b \in blocks :
       /\ Checked(b)
       /\ (b < at /\ DecodedWhole(b)) \/ (b = at /\ phase \in Working)

(* The counters are those of the blocks checked.                           *)
CountsInv ==
  /\ present = Cardinality(Summed(blocks))
  /\ verified = IF level = "full" THEN present ELSE 0
  /\ level = "structural" =>
       undecoded = {Described(b).codec : b \in blocks} \ {"none"}
  /\ decoded = Total(Lengths(blocks)) /\ decoded <= MaxDecoded

(* The loop over the parts stands at the sum of the parts before, each of  *)
(* which was a whole frame.                                                *)
WorkInv ==
  phase \in Working =>
    /\ at \in blocks /\ level = "full" /\ HasCompression(Block)
    /\ part \in DOMAIN PartsOf(Block)
    /\ offset = Before(PartsOf(Block), part - 1, 1)
    /\ \A p \in DOMAIN PartsOf(Block) : p < part => WholePart(Block, p)
    /\ taken <= Piece[1] /\ given <= Piece[2]
    /\ phase = "inflate" => Block.codec = "zlib"
    /\ phase = "frame" => Block.codec = "zstd"
    /\ phase # "decode" => FrameAt(Block, offset) # {}

(* Which check failed, of a refusal of this kind. *)
RefusedFor(kind) ==
  /\ phase = "open" =>
       \/ kind = "limit" \/ EnvelopeFault(file) # "none"
       \/ \E k \in DOMAIN nodes : IsImage(nodes[k]) /\ DescriptorFault(nodes[k]) # "none"
  /\ phase = "uids" => IdentifiersClash
  /\ phase = "element" => IF at \in DOMAIN nodes THEN ElementFails(kind) ELSE blocks = {}
  /\ phase \in Working => kind = "limit" \/ PartFault(Block, offset, Piece) # "none"
RefusalInv == verdict \notin {"none", "valid"} => RefusedFor(verdict)

(* The loader can start on the image, and a part of it can be loaded.      *)
Fits == HeaderReadable /\ FirstImage > 0 /\ Capable(nodes[FirstImage])
Shown == nodes[FirstImage]
Loads(p) ==
  LET frames == FrameAt(Shown, Before(PartsOf(Shown), p - 1, 1))
  IN  /\ frames # {} /\ WholePart(Shown, p)
      /\ ~ \E k \in frames : History(Shown.frames[k]) > MaxHistory
(* What the loader has of the image, or the reason why it has nothing.     *)
LoaderInv ==
  /\ loaded \in {"no", "parts", "ok", "error"}
  /\ loaded = "no" => piece = 1 /\ source = 0
  /\ loaded = "parts" =>
       /\ Fits /\ HasCompression(Shown) /\ piece \in DOMAIN PartsOf(Shown)
       /\ source = Before(PartsOf(Shown), piece - 1, 1)
       /\ \A p \in DOMAIN PartsOf(Shown) : p < piece => Loads(p)
  /\ loaded = "ok" =>
       /\ Fits
       /\ HasCompression(Shown) => \A p \in DOMAIN PartsOf(Shown) : Loads(p)
       /\ pixels = Decoded(Shown, IF HasCompression(Shown) /\ Shown.item > 0
                                  THEN Unshuffle(Stored(Shown), Shown.item)
                                  ELSE Stored(Shown))
  /\ loaded = "error" =>
       \/ ~ Fits
       \/ HasCompression(Shown) /\ \E p \in DOMAIN PartsOf(Shown) : ~ Loads(p)

ValidatorInv ==
  TypeInv /\ HeaderInv /\ ElementsInv /\ CountsInv /\ WorkInv /\ RefusalInv
(* The inductive invariant. *)
IInv == ValidatorInv /\ LoaderInv
-----------------------------------------------------------------------------
(* Lists of checks.  The first that fails decides. *)
LEMMA FirstFailing ==
  ASSUME NEW checks, DOMAIN checks \subseteq Nat
  PROVE  \/ /\ FirstFault(checks) = "none"
            /\ \A i \in DOMAIN checks : checks[i] = "none"
         \/ \E i \in DOMAIN checks :
              /\ FirstFault(checks) = checks[i] /\ checks[i] # "none"
              /\ \A j \in DOMAIN checks : j < i => checks[j] = "none"
<1> DEFINE failing == {i \in DOMAIN checks : checks[i] # "none"}
<1>1. CASE failing = {}
  BY <1>1 DEF FirstFault
<1>2. CASE failing # {}
  <2>1. PICK m \in failing : \A i \in failing : m <= i
    <3>1. failing \in SUBSET Nat
      OBVIOUS
    <3> HIDE DEF failing
    <3> QED
      BY <1>2, <3>1, LeastNumber
  <2>2. Min(failing) \in failing /\ \A i \in failing : Min(failing) <= i
    <3> HIDE DEF failing
    <3> QED
      BY <2>1 DEF Min
  <2>3. FirstFault(checks) = checks[Min(failing)]
    BY <1>2 DEF FirstFault
  <2>4. ASSUME NEW j \in DOMAIN checks, j < Min(failing) PROVE checks[j] = "none"
    <3>1. Min(failing) \in Nat /\ j \in Nat
      BY <2>2
    <3> QED
      BY <2>2, <2>4, <3>1
  <2> QED
    BY <2>2, <2>3, <2>4
<1> QED
  BY <1>1, <1>2

(* Of two checks the first that fails counts. *)
LEMMA TwoChecks ==
  ASSUME NEW a, NEW b
  PROVE  FirstFault(<<a, b>>) = IF a # "none" THEN a ELSE b
<1>1. PICK c : c = <<a, b>>
  OBVIOUS
<1>2. DOMAIN c = 1 .. 2 /\ DOMAIN c \subseteq Nat /\ c[1] = a /\ c[2] = b
  BY <1>1
<1>3. \A i \in DOMAIN c : i = 1 \/ i = 2
  BY <1>2
<1>4. 1 \in DOMAIN c /\ 2 \in DOMAIN c /\ 1 < 2
  BY <1>2
<1> QED
  BY <1>1, <1>2, <1>3, <1>4, FirstFailing

(* Of three. *)
LEMMA ThreeChecks ==
  ASSUME NEW c1, NEW c2, NEW c3
  PROVE  FirstFault(<<c1, c2, c3>>) =
           IF c1 # "none" THEN c1 ELSE IF c2 # "none" THEN c2 ELSE c3
<1>1. PICK s : s = <<c1, c2, c3>>
  OBVIOUS
<1>2. /\ DOMAIN s = 1 .. 3 /\ DOMAIN s \subseteq Nat
      /\ s[1] = c1 /\ s[2] = c2 /\ s[3] = c3
  BY <1>1
<1>3. \A i \in DOMAIN s : i \in {1, 2, 3}
  BY <1>2
<1>4. {1, 2, 3} \subseteq DOMAIN s
  BY <1>2
<1> QED
  BY <1>1, <1>2, <1>3, <1>4, FirstFailing

(* Of four. *)
LEMMA FourChecks ==
  ASSUME NEW c1, NEW c2, NEW c3, NEW c4
  PROVE  FirstFault(<<c1, c2, c3, c4>>) =
           IF c1 # "none" THEN c1 ELSE IF c2 # "none" THEN c2 ELSE
           IF c3 # "none" THEN c3 ELSE c4
<1>1. PICK s : s = <<c1, c2, c3, c4>>
  OBVIOUS
<1>2. /\ DOMAIN s = 1 .. 4 /\ DOMAIN s \subseteq Nat
      /\ s[1] = c1 /\ s[2] = c2 /\ s[3] = c3 /\ s[4] = c4
  BY <1>1
<1>3. \A i \in DOMAIN s : i \in {1, 2, 3, 4}
  BY <1>2
<1>4. {1, 2, 3, 4} \subseteq DOMAIN s
  BY <1>2
<1> QED
  BY <1>1, <1>2, <1>3, <1>4, FirstFailing

(* Of five. *)
LEMMA FiveChecks ==
  ASSUME NEW c1, NEW c2, NEW c3, NEW c4, NEW c5
  PROVE  FirstFault(<<c1, c2, c3, c4, c5>>) =
           IF c1 # "none" THEN c1 ELSE IF c2 # "none" THEN c2 ELSE
           IF c3 # "none" THEN c3 ELSE IF c4 # "none" THEN c4 ELSE c5
<1>1. PICK s : s = <<c1, c2, c3, c4, c5>>
  OBVIOUS
<1>2. /\ DOMAIN s = 1 .. 5 /\ DOMAIN s \subseteq Nat
      /\ s[1] = c1 /\ s[2] = c2 /\ s[3] = c3 /\ s[4] = c4 /\ s[5] = c5
  BY <1>1
<1>3. \A i \in DOMAIN s : i \in {1, 2, 3, 4, 5}
  BY <1>2
<1>4. {1, 2, 3, 4, 5} \subseteq DOMAIN s
  BY <1>2
<1> QED
  BY <1>1, <1>2, <1>3, <1>4, FirstFailing

(* Of six. *)
LEMMA SixChecks ==
  ASSUME NEW c1, NEW c2, NEW c3, NEW c4, NEW c5, NEW c6
  PROVE  FirstFault(<<c1, c2, c3, c4, c5, c6>>) =
           IF c1 # "none" THEN c1 ELSE IF c2 # "none" THEN c2 ELSE
           IF c3 # "none" THEN c3 ELSE IF c4 # "none" THEN c4 ELSE
           IF c5 # "none" THEN c5 ELSE c6
<1>1. PICK s : s = <<c1, c2, c3, c4, c5, c6>>
  OBVIOUS
<1>2. /\ DOMAIN s = 1 .. 6 /\ DOMAIN s \subseteq Nat
      /\ s[1] = c1 /\ s[2] = c2 /\ s[3] = c3 /\ s[4] = c4 /\ s[5] = c5
      /\ s[6] = c6
  BY <1>1
<1>3. \A i \in DOMAIN s : i \in {1, 2, 3, 4, 5, 6}
  BY <1>2
<1>4. {1, 2, 3, 4, 5, 6} \subseteq DOMAIN s
  BY <1>2
<1> QED
  BY <1>1, <1>2, <1>3, <1>4, FirstFailing

(* Of ten, which is the length of CompressionFault's list. *)
LEMMA TenChecks ==
  ASSUME NEW c1, NEW c2, NEW c3, NEW c4, NEW c5, NEW c6, NEW c7, NEW c8, NEW c9, NEW c10
  PROVE  FirstFault(<<c1, c2, c3, c4, c5, c6, c7, c8, c9, c10>>) =
           IF c1 # "none" THEN c1 ELSE IF c2 # "none" THEN c2 ELSE
           IF c3 # "none" THEN c3 ELSE IF c4 # "none" THEN c4 ELSE
           IF c5 # "none" THEN c5 ELSE IF c6 # "none" THEN c6 ELSE
           IF c7 # "none" THEN c7 ELSE IF c8 # "none" THEN c8 ELSE
           IF c9 # "none" THEN c9 ELSE c10
<1>1. PICK s : s = <<c1, c2, c3, c4, c5, c6, c7, c8, c9, c10>>
  OBVIOUS
<1>2. /\ DOMAIN s = 1 .. 10 /\ DOMAIN s \subseteq Nat
      /\ s[1] = c1 /\ s[2] = c2 /\ s[3] = c3 /\ s[4] = c4 /\ s[5] = c5
      /\ s[6] = c6 /\ s[7] = c7 /\ s[8] = c8 /\ s[9] = c9
      /\ s[10] = c10
  BY <1>1
<1>3. \A i \in DOMAIN s : i \in {1, 2, 3, 4, 5, 6, 7, 8, 9, 10}
  BY <1>2
<1>4. {1, 2, 3, 4, 5, 6, 7, 8, 9, 10} \subseteq DOMAIN s
  BY <1>2
<1> QED
  BY <1>1, <1>2, <1>3, <1>4, FirstFailing

-----------------------------------------------------------------------------
(* The parts of a block, and the frames in its bytes. *)
LEMMA BeforeDef ==
  ASSUME NEW parts \in Seq(Nat \X Nat), NEW k \in {1, 2}
  PROVE  /\ \A p \in 0 .. Len(parts) : Before(parts, p, k) \in Nat
         /\ Before(parts, 0, k) = 0
         /\ \A p \in 1 .. Len(parts) :
              Before(parts, p, k) = Before(parts, p - 1, k) + parts[p][k]
         /\ \A p \in 0 .. Len(parts) : Before(parts, p, k) <= PartTotal(parts, k)
<1>1. PICK terms : terms = [i \in DOMAIN parts |-> parts[i][k]]
  OBVIOUS
<1>2. PICK L \in Nat : L = Len(parts) /\ DOMAIN parts = 1 .. L
  OBVIOUS
<1>3. terms \in Seq(Nat) /\ Len(terms) = L /\ \A p \in 1 .. L : terms[p] = parts[p][k]
  <2>1. \A i \in 1 .. L : parts[i] \in Nat \X Nat
    BY <1>2
  <2>2. \A i \in 1 .. L : parts[i][k] \in Nat
    BY <2>1
  <2>3. terms \in [1 .. L -> Nat]
    BY <1>1, <1>2, <2>2
  <2> QED
    BY <1>1, <1>2, <2>3
<1>4. \A p : Before(parts, p, k) = RunningSums(terms)[p]
  BY <1>1 DEF Before
<1>5. PICK s : s = RunningSums(terms)
  OBVIOUS
<1>6. /\ s \in [0 .. L -> Nat] /\ s[0] = 0
      /\ \A p \in 1 .. L : s[p] = s[p - 1] + terms[p]
  BY <1>3, <1>5, RunningSumsDef
<1>7. \A p \in 0 .. L : s[p] <= s[L]
  <2>1. ASSUME NEW p \in 0 .. L PROVE s[p] <= s[L]
    <3>1. L \in p .. L
      BY <1>2
    <3> QED
      BY <1>3, <1>5, <3>1, RunningSumsGrow
  <2> QED
    BY <2>1
<1>8. PartTotal(parts, k) = s[L]
  BY <1>2, <1>4, <1>5 DEF PartTotal
<1>9. \A p : Before(parts, p, k) = s[p]
  BY <1>4, <1>5
<1>10. \A p \in 0 .. L : s[p] \in Nat
  BY <1>6
<1>11. \A p \in 1 .. L : s[p] = s[p - 1] + parts[p][k]
  BY <1>3, <1>6
<1> QED
  <2>1. \A p \in 0 .. L : Before(parts, p, k) \in Nat
    BY <1>9, <1>10
  <2>2. \A p \in 1 .. L : Before(parts, p, k) = Before(parts, p - 1, k) + parts[p][k]
    BY <1>9, <1>11
  <2>3. Before(parts, 0, k) = 0
    BY <1>6, <1>9
  <2>4. \A p \in 0 .. L : Before(parts, p, k) <= PartTotal(parts, k)
    BY <1>7, <1>8, <1>9
  <2> QED
    BY <1>2, <2>1, <2>2, <2>3, <2>4

(* The parts of a block are pairs of lengths, and there is one at least. *)
LEMMA PartsType ==
  ASSUME NEW d \in Elements
  PROVE  /\ PartsOf(d) \in Seq(Nat \X Nat) /\ Len(PartsOf(d)) \in Nat \ {0}
         /\ DOMAIN PartsOf(d) = 1 .. Len(PartsOf(d))
         /\ d.frames \in Seq(Frames)
<1>1. /\ d.subblocks \in Seq(Nat \X Nat) /\ d.frames \in Seq(Frames)
      /\ d.size \in Nat /\ d.decoded \in Nat
  BY DEF Elements
<1>2. CASE d.subblocks = << >>
  <2>1. PartsOf(d) = << <<d.size, d.decoded>> >>
    BY <1>2 DEF PartsOf, Parts
  <2> QED
    BY <1>1, <2>1
<1>3. CASE d.subblocks # << >>
  <2>1. PartsOf(d) = d.subblocks
    BY <1>3 DEF PartsOf, Parts
  <2> QED
    BY <1>1, <1>3, <2>1
<1> QED
  BY <1>2, <1>3

(* At most one frame starts at an offset, since frames are not empty. *)
LEMMA OneFrame ==
  ASSUME NEW d \in Elements, NEW o, NEW i \in FrameAt(d, o), NEW j \in FrameAt(d, o)
  PROVE  i = j
<1>1. PICK terms : terms = [f \in DOMAIN d.frames |-> d.frames[f].stored]
  OBVIOUS
<1>2. PICK L \in Nat : L = Len(d.frames) /\ DOMAIN d.frames = 1 .. L
  BY PartsType
<1>3. terms \in Seq(Nat \ {0}) /\ Len(terms) = L
  <2>1. \A f \in 1 .. L : d.frames[f] \in Frames
    BY <1>2, PartsType
  <2>2. \A f \in 1 .. L : d.frames[f].stored \in Nat \ {0}
    BY <2>1 DEF Frames
  <2>3. terms \in [1 .. L -> Nat \ {0}]
    BY <1>1, <1>2, <2>2
  <2> QED
    BY <1>2, <2>3
<1>4. /\ i \in 1 .. L /\ RunningSums(terms)[i - 1] = o
      /\ j \in 1 .. L /\ RunningSums(terms)[j - 1] = o
  BY <1>1, <1>2 DEF FrameAt
<1>5. terms \in Seq(Nat)
  <2>1. terms \in [1 .. L -> Nat \ {0}]
    BY <1>3
  <2> QED
    BY <1>2, <2>1
<1>6. RunningSums(terms)[i - 1] \in Nat
  <2>1. i - 1 \in 0 .. Len(terms)
    BY <1>2, <1>3, <1>4
  <2> QED
    BY <1>5, <2>1, RunningSumsDef
<1>7. ASSUME NEW m \in 1 .. L, NEW n \in 1 .. L, m < n
      PROVE  RunningSums(terms)[m - 1] < RunningSums(terms)[n - 1]
  <2>1. m - 1 \in 0 .. Len(terms) /\ n - 1 \in 0 .. Len(terms) /\ m - 1 < n - 1
    BY <1>2, <1>3, <1>7
  <2> QED
    BY <1>3, <2>1, RunningSumsGrowStrictly
<1>8. ~ (i < j) /\ ~ (j < i)
  <2>1. ~ (o < o)
    BY <1>4, <1>6
  <2> QED
    BY <1>4, <1>7, <2>1
<1> QED
  BY <1>2, <1>4, <1>8

(* What a descriptor that is accepted says of its parts. *)
LEMMA SoundParts ==
  ASSUME NEW d \in Elements, HasCompression(d), CompressionFault(d, d.size) = "none"
  PROVE  /\ PartTotal(PartsOf(d), 1) = d.size /\ PartTotal(PartsOf(d), 2) = d.decoded
         /\ d.item # 0
         /\ \A p \in DOMAIN PartsOf(d) : d.subblocks # << >> => PartsOf(d)[p][1] # 0
<1> DEFINE c1 == Check(d.codec = "malformed" \/ d.item = 0, "invalid")
           c2 == Check(\E k \in DOMAIN d.subblocks : 0 \in ToSet(d.subblocks[k]), "invalid")
           c3 == Check(\E k \in {1, 2} : PartTotal(PartsOf(d), k) > MaxInt, "invalid")
           c4 == Check(PartTotal(PartsOf(d), 1) # d.size, "invalid")
           c5 == Check(PartTotal(PartsOf(d), 2) # d.decoded, "invalid")
           c6 == Check(d.item > d.decoded, "invalid")
<1>1. CompressionFault(d, d.size) = FirstFault(<<c1, c2, c3, c4, c5, c6>>)
  BY DEF CompressionFault, PartsOf
<1>2. c1 = "none" /\ c2 = "none" /\ c4 = "none" /\ c5 = "none"
  <2> HIDE DEF c1, c2, c3, c4, c5, c6
  <2> QED
    BY <1>1, SixChecks
<1>3. /\ ~ (d.codec = "malformed" \/ d.item = 0)
      /\ ~ \E k \in DOMAIN d.subblocks : 0 \in ToSet(d.subblocks[k])
      /\ PartTotal(PartsOf(d), 1) = d.size /\ PartTotal(PartsOf(d), 2) = d.decoded
  BY <1>2 DEF Check
<1>4. ASSUME NEW p \in DOMAIN PartsOf(d), d.subblocks # << >>
      PROVE  PartsOf(d)[p][1] # 0
  <2>1. PartsOf(d) = d.subblocks
    BY <1>4 DEF PartsOf, Parts
  <2>2. p \in DOMAIN d.subblocks /\ d.subblocks[p] \in Nat \X Nat
    <3>1. d.subblocks \in Seq(Nat \X Nat)
      BY DEF Elements
    <3> QED
      BY <1>4, <2>1, <3>1
  <2>3. 1 \in DOMAIN d.subblocks[p]
    BY <2>2
  <2>4. d.subblocks[p][1] \in ToSet(d.subblocks[p])
    BY <2>3 DEF ToSet
  <2> QED
    BY <1>3, <2>1, <2>2, <2>4
<1> QED
  BY <1>3, <1>4

(* A part that decodes is the one frame at its offset, all of it. *)
LEMMA WholePartFrame ==
  ASSUME NEW d \in Elements, NEW o, NEW part_
  PROVE  PartFault(d, o, part_) = "none" <=>
           \E k \in FrameAt(d, o) :
             d.frames[k].stored = part_[1] /\ d.frames[k].decoded = part_[2]
BY DEF PartFault, Check

-----------------------------------------------------------------------------
(* What depends only on the file and the level does not change. *)
LEMMA FileStays ==
  ASSUME file' = file, level' = level
  PROVE  /\ nodes' = nodes
         /\ \A i : Children(i)' = Children(i)
         /\ \A i : DataChildren(i)' = DataChildren(i)
         /\ \A i : Description(i)' = Description(i)
         /\ \A i : Described(i)' = Described(i)
         /\ Identified' = Identified
<1>1. nodes' = nodes
  BY DEF nodes
<1>2. \A i : Children(i)' = Children(i)
  BY <1>1 DEF Children
<1>3. \A i : DataChildren(i)' = DataChildren(i)
  BY <1>1, <1>2 DEF DataChildren
<1>4. \A i : Description(i)' = Description(i)
  <2>1. ASSUME NEW i PROVE Description(i)' = Description(i)
    <3>1. DataChildren(i)' = DataChildren(i)
      BY <1>3
    <3>2. nodes'[i].form = nodes[i].form
      BY <1>1
    <3> QED
      BY <3>1, <3>2 DEF Description
  <2> QED
    BY <2>1
<1>5. \A i : Described(i)' = Described(i)
  BY <1>1, <1>4 DEF Described
<1>6. Identified' = Identified
  BY <1>1 DEF Identified
<1> QED
  BY <1>1, <1>2, <1>3, <1>4, <1>5, <1>6

(* What the checks say of an element is a matter of the file and the       *)
(* level.                                                                  *)
LEMMA FaultsStay ==
  ASSUME file' = file, level' = level
  PROVE  /\ \A i : RoleFault(i)' = RoleFault(i)
         /\ \A i : ReferenceFault(i)' = ReferenceFault(i)
         /\ \A i : PlaceFault(i)' = PlaceFault(i)
         /\ \A b : Checked(b)' <=> Checked(b)
         /\ \A b : DecodedWhole(b)' <=> DecodedWhole(b)
<1>1. \A i : RoleFault(i)' = RoleFault(i)
  BY FileStays DEF RoleFault
<1>2. \A i : ReferenceFault(i)' = ReferenceFault(i)
  BY FileStays DEF ReferenceFault
<1>3. \A i : PlaceFault(i)' = PlaceFault(i)
  <2>1. \A i, e : InlineFault(i, e)' = InlineFault(i, e)
    BY FileStays DEF InlineFault
  <2>2. ASSUME NEW i PROVE PlaceFault(i)' = PlaceFault(i)
    <3>1. PICK d : d = Description(i) /\ d = Description(i)'
      BY FileStays
    <3>2. PICK n : n = nodes[i] /\ n = nodes'[i]
      BY FileStays
    <3>3. PICK e : e = nodes[d].encoding /\ e = nodes'[d].encoding
      BY FileStays
    <3>4. PICK f : f = file /\ f = file'
      OBVIOUS
    <3>5. DataChildren(i)' = DataChildren(i)
      BY FileStays
    <3>6. PICK q, r : /\ q = InlineFault(i, n.encoding) /\ q = InlineFault(i, n.encoding)'
                      /\ r = InlineFault(d, e) /\ r = InlineFault(d, e)'
      BY <2>1
    <3>7. PlaceFault(i) =
            CASE n.form = "attachment" ->
                   FirstFault(<<Check(n.offset < XmlEnd(f), "invalid"),
                                RangeFault(n.offset, n.size, f.size)>>)
              [] n.form = "inline" -> q
              [] n.form = "embedded" ->
                   IF HasDescriptor(n) \/ Cardinality(DataChildren(i)) # 1 THEN "invalid"
                   ELSE r
              [] n.form = "other" -> "unsupported"
      BY <3>1, <3>2, <3>3, <3>4, <3>6 DEF PlaceFault
    <3>8. PlaceFault(i)' =
            CASE n.form = "attachment" ->
                   FirstFault(<<Check(n.offset < XmlEnd(f), "invalid"),
                                RangeFault(n.offset, n.size, f.size)>>)
              [] n.form = "inline" -> q
              [] n.form = "embedded" ->
                   IF HasDescriptor(n) \/ Cardinality(DataChildren(i)) # 1 THEN "invalid"
                   ELSE r
              [] n.form = "other" -> "unsupported"
      BY <3>1, <3>2, <3>3, <3>4, <3>5, <3>6 DEF PlaceFault
    <3> QED
      BY <3>7, <3>8
  <2> QED
    BY <2>2
<1>4. \A b : Checked(b)' <=> Checked(b)
  BY <1>1, <1>3, FileStays DEF Checked
<1>5. \A b : DecodedWhole(b)' <=> DecodedWhole(b)
  BY FileStays DEF DecodedWhole
<1> QED
  BY <1>1, <1>2, <1>3, <1>4, <1>5

(* So are the lengths that are added up. *)
LEMMA SumsStay ==
  ASSUME file' = file, level' = level
  PROVE  /\ \A S : Lengths(S)' = Lengths(S)
         /\ \A S : Summed(S)' = Summed(S)
<1>1. \A S : Lengths(S)' = Lengths(S)
  BY FileStays DEF Lengths
<1>2. \A S : Summed(S)' = Summed(S)
  BY FileStays DEF Summed
<1> QED
  BY <1>1, <1>2

(* So is all that the loader's invariant says of the image. *)
LEMMA ImageStays ==
  ASSUME file' = file, level' = level
  PROVE  /\ Shown' = Shown /\ (Fits' <=> Fits) /\ FirstImage' = FirstImage
         /\ \A p : Loads(p)' <=> Loads(p)
<1>1. FirstImage' = FirstImage
  BY FileStays DEF FirstImage
<1>2. Shown' = Shown
  BY <1>1, FileStays DEF Shown
<1>3. HeaderReadable' <=> HeaderReadable
  BY DEF HeaderReadable
<1>4. \A n : Capable(n)' <=> Capable(n)
  BY DEF Capable
<1>5. Fits' <=> Fits
  BY <1>1, <1>3, <1>4, FileStays DEF Fits
<1>6. \A p : Loads(p)' <=> Loads(p)
  BY <1>2 DEF Loads
<1> QED
  BY <1>1, <1>2, <1>5, <1>6

-----------------------------------------------------------------------------
(* The elements of a file, and what the checks say of them. *)
LEMMA NodesType ==
  ASSUME TypeInv
  PROVE  /\ nodes \in Seq(Elements) /\ Len(nodes) \in Nat
         /\ DOMAIN nodes = 1 .. Len(nodes)
         /\ \A i \in DOMAIN nodes :
              nodes[i] \in Elements /\ nodes[i].parent \in Nat /\ nodes[i].parent < i
<1>1. file \in Files
  BY DEF TypeInv
<1>2. /\ nodes \in Seq(Elements)
      /\ \A i \in DOMAIN nodes : nodes[i].parent < i
  BY <1>1, FilesAssumption DEF nodes
<1>3. Len(nodes) \in Nat /\ DOMAIN nodes = 1 .. Len(nodes)
  BY <1>2
<1>4. \A i \in DOMAIN nodes : nodes[i] \in Elements
  BY <1>2
<1>5. \A n \in Elements : n.parent \in Nat
  BY DEF Elements
<1> QED
  BY <1>2, <1>3, <1>4, <1>5

(* An element whose role is in order: an image has a layout, data belong   *)
(* to an embedded block, and only these and blocks have descriptors.       *)
LEMMA RoleSound ==
  ASSUME NEW i, RoleFault(i) = "none"
  PROVE  /\ IsImage(nodes[i]) => LayoutFault(nodes[i]) = "none"
         /\ nodes[i].name = "Data" =>
              /\ nodes[i].form = "none" /\ nodes[i].parent # 0
              /\ nodes[nodes[i].parent].form = "embedded"
         /\ (nodes[i].form = "none" /\ nodes[i].name # "Data") => ~ HasDescriptor(nodes[i])
<1> DEFINE n == nodes[i]
           c1 == Check(IsImage(n) /\ LayoutFault(n) # "none", LayoutFault(n))
           c2 == Check(/\ n.name = "Data"
                       /\ n.form # "none" \/ n.parent = 0 \/ nodes[n.parent].form # "embedded",
                       "invalid")
           c3 == Check(n.form = "none" /\ n.name # "Data" /\ HasDescriptor(n), "invalid")
<1>1. RoleFault(i) = FirstFault(<<c1, c2, c3>>)
  BY DEF RoleFault
<1>2. c1 = "none" /\ c2 = "none" /\ c3 = "none"
  <2> HIDE DEF c1, c2, c3
  <2> QED
    BY <1>1, ThreeChecks
<1> QED
  BY <1>2 DEF Check

(* The element that describes a block: the one that has it, or its only    *)
(* Data child.                                                             *)
LEMMA DescriptionSound ==
  ASSUME TypeInv, NEW b \in DOMAIN nodes, nodes[b].form # "none", PlaceFault(b) = "none"
  PROVE  /\ Description(b) \in DOMAIN nodes /\ Described(b) \in Elements
         /\ nodes[b].form = "embedded" =>
              DataChildren(b) = {Description(b)} /\ ~ HasDescriptor(nodes[b])
         /\ nodes[b].form # "embedded" =>
              Description(b) = b /\ nodes[b].form \in {"attachment", "inline"}
<1>1. nodes[b].form \in {"attachment", "inline", "embedded", "other"}
  <2>1. nodes[b] \in Elements
    BY NodesType
  <2> QED
    BY <2>1 DEF Elements
<1>2. nodes[b].form # "other"
  BY DEF PlaceFault
<1>3. CASE nodes[b].form = "embedded"
  <2>1. ~ HasDescriptor(nodes[b]) /\ Cardinality(DataChildren(b)) = 1
    BY <1>3 DEF PlaceFault
  <2>2. DataChildren(b) \subseteq DOMAIN nodes
    BY DEF DataChildren, Children
  <2>3. IsFiniteSet(DataChildren(b))
    <3>1. IsFiniteSet(DOMAIN nodes)
      BY NodesType, FS_Interval
    <3> QED
      BY <2>2, <3>1, FS_Subset
  <2>4. PICK k : DataChildren(b) = {k}
    BY <2>1, <2>3, FS_Singleton
  <2>5. Description(b) = k
    BY <1>3, <2>4 DEF Description
  <2> QED
    BY <1>3, <2>1, <2>2, <2>4, <2>5, NodesType DEF Described
<1>4. CASE nodes[b].form # "embedded"
  BY <1>1, <1>2, <1>4, NodesType DEF Description, Described
<1> QED
  BY <1>3, <1>4

(* No two blocks share a description. *)
LEMMA OneBlock ==
  ASSUME TypeInv, NEW a, NEW b, Checked(a), Checked(b), Description(a) = Description(b)
  PROVE  a = b
<1>1. /\ a \in DOMAIN nodes /\ nodes[a].form # "none"
      /\ RoleFault(a) = "none" /\ PlaceFault(a) = "none"
      /\ b \in DOMAIN nodes /\ nodes[b].form # "none"
      /\ RoleFault(b) = "none" /\ PlaceFault(b) = "none"
  BY DEF Checked
<1>2. /\ nodes[a].form = "embedded" => Description(a) \in DataChildren(a)
      /\ nodes[a].form # "embedded" => Description(a) = a
      /\ nodes[b].form = "embedded" => Description(b) \in DataChildren(b)
      /\ nodes[b].form # "embedded" => Description(b) = b
  BY <1>1, DescriptionSound
<1>3. nodes[a].name # "Data" /\ nodes[b].name # "Data"
  BY <1>1, RoleSound
<1> QED
  BY <1>2, <1>3 DEF DataChildren, Children

-----------------------------------------------------------------------------
(* Every fault is of a kind that the code reports. *)
FaultKinds == Kinds \cup {"none"}

(* A check gives the kind it is written with, or none. *)
LEMMA CheckKinds ==
  /\ \A fails, kind : kind \in FaultKinds => Check(fails, kind) \in FaultKinds
  /\ {"none", "incomplete", "invalid", "limit", "unsupported", "integrity"} \subseteq FaultKinds
  /\ "none" \notin Kinds /\ "valid" \notin FaultKinds
BY DEF Check, FaultKinds, Kinds

(* A list of checks gives one of their kinds, or none. *)
LEMMA FirstKinds ==
  ASSUME NEW checks, DOMAIN checks \subseteq Nat,
         \A i \in DOMAIN checks : checks[i] \in FaultKinds
  PROVE  FirstFault(checks) \in FaultKinds
BY FirstFailing, CheckKinds

(* The checks of XisfDescriptors give the kinds of the code's errors. *)
LEMMA DescriptorKinds ==
  /\ \A start, length, sourceLen : RangeFault(start, length, sourceLen) \in FaultKinds
  /\ \A f : EnvelopeFault(f) \in FaultKinds
  /\ \A n : DescriptorFault(n) \in FaultKinds /\ LayoutFault(n) \in FaultKinds
  /\ \A n, stored : CompressionFault(n, stored) \in FaultKinds
  /\ \A n, o, p : PartFault(n, o, p) \in FaultKinds
<1>1. ASSUME NEW start, NEW length, NEW sourceLen
      PROVE  RangeFault(start, length, sourceLen) \in FaultKinds
  BY TwoChecks, CheckKinds DEF RangeFault
<1>2. ASSUME NEW f PROVE EnvelopeFault(f) \in FaultKinds
  BY <1>1, ThreeChecks, CheckKinds DEF EnvelopeFault
<1>3. ASSUME NEW n PROVE DescriptorFault(n) \in FaultKinds /\ LayoutFault(n) \in FaultKinds
  BY ThreeChecks, CheckKinds DEF DescriptorFault, LayoutFault
<1>4. ASSUME NEW n, NEW stored PROVE CompressionFault(n, stored) \in FaultKinds
  <2> DEFINE c1 == Check(n.codec = "malformed" \/ n.item = 0, "invalid")
             c2 == Check(\E k \in DOMAIN n.subblocks : 0 \in ToSet(n.subblocks[k]), "invalid")
             c3 == Check(\E k \in {1, 2} : PartTotal(Parts(n, stored), k) > MaxInt, "invalid")
             c4 == Check(PartTotal(Parts(n, stored), 1) # stored, "invalid")
             c5 == Check(PartTotal(Parts(n, stored), 2) # n.decoded, "invalid")
             c6 == Check(n.item > n.decoded, "invalid")
  <2>1. \/ CompressionFault(n, stored) = FirstFault(<<c1, c2, c3, c4, c5, c6>>)
        \/ CompressionFault(n, stored) = Check(n.subblocks # << >>, "invalid")
    BY DEF CompressionFault
  <2>2. /\ c1 \in FaultKinds /\ c2 \in FaultKinds /\ c3 \in FaultKinds
        /\ c4 \in FaultKinds /\ c5 \in FaultKinds /\ c6 \in FaultKinds
        /\ Check(n.subblocks # << >>, "invalid") \in FaultKinds
    BY CheckKinds
  <2> HIDE DEF c1, c2, c3, c4, c5, c6
  <2> QED
    BY <2>1, <2>2, SixChecks
<1>5. ASSUME NEW n, NEW o, NEW p PROVE PartFault(n, o, p) \in FaultKinds
  BY CheckKinds DEF PartFault
<1> QED
  BY <1>1, <1>2, <1>3, <1>4, <1>5

(* So do the checks of an element. *)
LEMMA ElementKinds ==
  ASSUME TypeInv, NEW i \in DOMAIN nodes
  PROVE  /\ RoleFault(i) \in FaultKinds /\ ReferenceFault(i) \in FaultKinds
         /\ nodes[i].form # "none" => PlaceFault(i) \in FaultKinds
<1>1. ReferenceFault(i) \in FaultKinds
  BY TwoChecks, CheckKinds DEF ReferenceFault
<1>2. RoleFault(i) \in FaultKinds
  <2> DEFINE n == nodes[i]
             c1 == Check(IsImage(n) /\ LayoutFault(n) # "none", LayoutFault(n))
             c2 == Check(/\ n.name = "Data"
                         /\ n.form # "none" \/ n.parent = 0
                              \/ nodes[n.parent].form # "embedded", "invalid")
             c3 == Check(n.form = "none" /\ n.name # "Data" /\ HasDescriptor(n), "invalid")
  <2>1. RoleFault(i) = FirstFault(<<c1, c2, c3>>)
    BY DEF RoleFault
  <2>2. c1 \in FaultKinds /\ c2 \in FaultKinds /\ c3 \in FaultKinds
    BY CheckKinds, DescriptorKinds
  <2> HIDE DEF c1, c2, c3
  <2> QED
    BY <2>1, <2>2, ThreeChecks
<1>3. ASSUME NEW k, NEW e PROVE InlineFault(k, e) \in FaultKinds
  BY FourChecks, CheckKinds DEF InlineFault
<1>4. ASSUME nodes[i].form # "none" PROVE PlaceFault(i) \in FaultKinds
  <2>1. nodes[i].form \in {"attachment", "inline", "embedded", "other"}
    <3>1. nodes[i] \in Elements
      BY NodesType
    <3> QED
      BY <1>4, <3>1 DEF Elements
  <2>2. CASE nodes[i].form = "attachment"
    <3>1. PlaceFault(i) = FirstFault(<<Check(nodes[i].offset < XmlEnd(file), "invalid"),
                            RangeFault(nodes[i].offset, nodes[i].size, file.size)>>)
      BY <2>2 DEF PlaceFault
    <3> QED
      BY <3>1, TwoChecks, CheckKinds, DescriptorKinds
  <2>3. CASE nodes[i].form # "attachment"
    BY <1>3, <2>1, <2>3, CheckKinds DEF PlaceFault
  <2> QED
    BY <2>2, <2>3
<1> QED
  BY <1>1, <1>2, <1>4

(* So do the checks of a block. *)
LEMMA BlockKinds ==
  ASSUME NEW n, NEW d
  PROVE  BlockFault(n, d) \in FaultKinds
<1> DEFINE c1 == Check(structures + 1 + Len(d.subblocks) > MaxStructures, "limit")
           c2 == CompressionFault(d, d.size)
           c3 == Check(IsImage(n) /\ HasCompression(d) /\ d.item > 0
                         /\ d.item # SampleSize(n), "invalid")
           c4 == ExpectedFault(n)
           c5 == Check(Expected(n) \notin {-1, BlockLength(d)}, "invalid")
           c6 == Check(n.order \notin {"none", "little", "big"}, "invalid")
           c7 == Check(decoded + BlockLength(d) > MaxInt, "invalid")
           c8 == Check(decoded + BlockLength(d) > MaxDecoded, "limit")
           c9 == ChecksumFault(d)
           c10 == Check(/\ level = "full" /\ HasCompression(d)
                        /\ d.codec \notin {"zlib", "lz4", "lz4hc", "zstd"}, "unsupported")
<1>1. BlockFault(n, d) = FirstFault(<<c1, c2, c3, c4, c5, c6, c7, c8, c9, c10>>)
  BY DEF BlockFault
<1>2. c4 \in FaultKinds
  <2>1. PICK p : p = FirstFault(<<Check(n.counts = << >>, "invalid"),
                      Check(Product(n.counts) > MaxInt, "invalid"),
                      Check(Product(n.counts) * n.width > MaxInt, "invalid")>>)
    OBVIOUS
  <2>2. p \in FaultKinds
    BY <2>1, ThreeChecks, CheckKinds
  <2>3. c4 \in {LayoutFault(n), p, "none"}
    BY <2>1 DEF ExpectedFault
  <2> QED
    BY <2>2, <2>3, DescriptorKinds, CheckKinds
<1>3. c9 \in FaultKinds
  BY ThreeChecks, CheckKinds DEF ChecksumFault
<1>4. /\ c1 \in FaultKinds /\ c2 \in FaultKinds /\ c3 \in FaultKinds
      /\ c5 \in FaultKinds /\ c6 \in FaultKinds /\ c7 \in FaultKinds
      /\ c8 \in FaultKinds /\ c10 \in FaultKinds
  BY CheckKinds, DescriptorKinds
<1> HIDE DEF c1, c2, c3, c4, c5, c6, c7, c8, c9, c10
<1> QED
  BY <1>1, <1>2, <1>3, <1>4, TenChecks

(* What a block that is accepted satisfies. *)
LEMMA BlockSound ==
  ASSUME NEW n, NEW d, BlockFault(n, d) = "none"
  PROVE  /\ ~ structures + 1 + Len(d.subblocks) > MaxStructures
         /\ CompressionFault(d, d.size) = "none"
         /\ (IsImage(n) /\ HasCompression(d) /\ d.item > 0) => d.item = SampleSize(n)
         /\ Expected(n) \in {-1, BlockLength(d)}
         /\ ~ decoded + BlockLength(d) > MaxDecoded
         /\ d.checksum # "malformed"
         /\ level = "full" => d.checksum \notin {"unknown", "bad"}
<1> DEFINE c1 == Check(structures + 1 + Len(d.subblocks) > MaxStructures, "limit")
           c2 == CompressionFault(d, d.size)
           c3 == Check(IsImage(n) /\ HasCompression(d) /\ d.item > 0
                         /\ d.item # SampleSize(n), "invalid")
           c4 == ExpectedFault(n)
           c5 == Check(Expected(n) \notin {-1, BlockLength(d)}, "invalid")
           c6 == Check(n.order \notin {"none", "little", "big"}, "invalid")
           c7 == Check(decoded + BlockLength(d) > MaxInt, "invalid")
           c8 == Check(decoded + BlockLength(d) > MaxDecoded, "limit")
           c9 == ChecksumFault(d)
           c10 == Check(/\ level = "full" /\ HasCompression(d)
                        /\ d.codec \notin {"zlib", "lz4", "lz4hc", "zstd"}, "unsupported")
<1>1. BlockFault(n, d) = FirstFault(<<c1, c2, c3, c4, c5, c6, c7, c8, c9, c10>>)
  BY DEF BlockFault
<1>2. c1 = "none" /\ c2 = "none" /\ c3 = "none" /\ c5 = "none" /\ c8 = "none" /\ c9 = "none"
  <2> HIDE DEF c1, c2, c3, c4, c5, c6, c7, c8, c9, c10
  <2> QED
    BY <1>1, TenChecks
<1>3. /\ ~ structures + 1 + Len(d.subblocks) > MaxStructures
      /\ ~ decoded + BlockLength(d) > MaxDecoded
      /\ Expected(n) \in {-1, BlockLength(d)}
      /\ ~ (IsImage(n) /\ HasCompression(d) /\ d.item > 0 /\ d.item # SampleSize(n))
  BY <1>2 DEF Check
<1>4. d.checksum # "malformed" /\ (level = "full" => d.checksum \notin {"unknown", "bad"})
  <2> DEFINE s1 == Check(d.checksum = "malformed", "invalid")
             s2 == Check(level = "full" /\ d.checksum = "unknown", "unsupported")
             s3 == Check(level = "full" /\ d.checksum = "bad", "integrity")
  <2>1. FirstFault(<<s1, s2, s3>>) = "none"
    BY <1>2 DEF ChecksumFault
  <2>2. s1 = "none" /\ s2 = "none" /\ s3 = "none"
    <3> HIDE DEF s1, s2, s3
    <3> QED
      BY <2>1, ThreeChecks
  <2> QED
    BY <2>2 DEF Check
<1> QED
  BY <1>2, <1>3, <1>4

-----------------------------------------------------------------------------
(* Parts of the invariant that a step leaves alone. *)
LEMMA BlockIs == Block = Described(at)
BY DEF Block, Described

(* The block at work is a matter of the file and the element at work. *)
LEMMA BlockStays ==
  ASSUME file' = file, level' = level, at' = at
  PROVE  Block' = Block
<1>1. PICK a : a = at /\ a = at'
  OBVIOUS
<1>2. Description(a)' = Description(a)
  BY FileStays
<1>3. Block = nodes[Description(a)]
  BY <1>1 DEF Block
<1>4. Block' = nodes'[Description(a)']
  BY <1>1 DEF Block
<1> QED
  BY <1>2, <1>3, <1>4, FileStays

(* A step that leaves the file and the phase alone keeps HeaderInv. *)
LEMMA HeaderKept ==
  ASSUME HeaderInv, file' = file, level' = level, phase' = phase, structures' = structures
  PROVE  HeaderInv'
BY FileStays DEF HeaderInv

(* A step that stays at an element, and does not turn back from decoding   *)
(* it, keeps ElementsInv.                                                  *)
LEMMA ElementsKept ==
  ASSUME ElementsInv, file' = file, level' = level, at' = at, blocks' = blocks,
         phase \in Working => phase' \in Working
  PROVE  ElementsInv'
<1>1. \A i : Passed(i)' <=> Passed(i)
  BY FileStays, FaultsStay DEF Passed
<1> QED
  BY <1>1, FileStays, FaultsStay DEF ElementsInv

(* A step that leaves the counters alone keeps CountsInv. *)
LEMMA CountsKept ==
  ASSUME CountsInv, file' = file, level' = level, blocks' = blocks, present' = present,
         verified' = verified, undecoded' = undecoded, decoded' = decoded
  PROVE  CountsInv'
<1>1. PICK S : S = blocks /\ S = blocks'
  OBVIOUS
<1>2. Summed(S)' = Summed(S) /\ Lengths(S)' = Lengths(S)
  BY SumsStay
<1>3. /\ present = Cardinality(Summed(S))
      /\ verified = IF level = "full" THEN present ELSE 0
      /\ level = "structural" =>
           undecoded = {Described(b).codec : b \in S} \ {"none"}
      /\ decoded = Total(Lengths(S)) /\ decoded <= MaxDecoded
  BY <1>1 DEF CountsInv
<1>4. /\ present' = Cardinality(Summed(S)')
      /\ verified' = IF level' = "full" THEN present' ELSE 0
      /\ level' = "structural" =>
           undecoded' = {Described(b)'.codec : b \in S} \ {"none"}
      /\ decoded' = Total(Lengths(S)') /\ decoded' <= MaxDecoded
  BY <1>2, <1>3, FileStays
<1> QED
  BY <1>1, <1>4 DEF CountsInv

(* A step that leaves the place in the block alone keeps WorkInv. *)
LEMMA WorkKept ==
  ASSUME WorkInv, file' = file, level' = level, at' = at, blocks' = blocks,
         phase' = phase, part' = part, offset' = offset, taken' = taken, given' = given
  PROVE  WorkInv'
<1>1. Block' = Block
  BY BlockStays
<1>2. Piece' = Piece
  BY <1>1 DEF Piece
<1> QED
  BY <1>1, <1>2 DEF WorkInv

(* A step of the validator keeps LoaderInv. *)
LEMMA LoaderKept ==
  ASSUME LoaderInv, file' = file, level' = level, UNCHANGED loading
  PROVE  LoaderInv'
BY ImageStays DEF LoaderInv, loading

(* A refusal keeps its reason while the validator stands still. *)
LEMMA RefusalStays ==
  ASSUME UNCHANGED <<file, level, place, counters, blocks>>, NEW kind
  PROVE  RefusedFor(kind)' <=> RefusedFor(kind)
<1>1. /\ file' = file /\ level' = level /\ phase' = phase /\ at' = at /\ part' = part
      /\ offset' = offset /\ structures' = structures /\ decoded' = decoded
      /\ blocks' = blocks
  BY DEF place, counters
<1>2. PICK a : a = at /\ a = at'
  BY <1>1
<1>3. /\ Block' = Block /\ nodes' = nodes /\ Identified' = Identified
      /\ RoleFault(a)' = RoleFault(a) /\ PlaceFault(a)' = PlaceFault(a)
      /\ ReferenceFault(a)' = ReferenceFault(a)
  BY <1>1, BlockStays, FileStays, FaultsStay
<1>4. PICK n, d, o, q :
        /\ n = nodes[a] /\ n = nodes'[a] /\ d = Block /\ d = Block'
        /\ o = offset /\ o = offset' /\ q = Piece /\ q = Piece'
  BY <1>1, <1>3 DEF Piece
<1>5. ElementFails(kind)' <=> ElementFails(kind)
  <2>1. BlockFault(n, d)' = BlockFault(n, d)
    <3>1. ChecksumFault(d)' = ChecksumFault(d)
      BY <1>1 DEF ChecksumFault
    <3> QED
      BY <1>1, <3>1 DEF BlockFault
  <2>2. ElementFails(kind) <=>
          IF n.name = "Reference" THEN ReferenceFault(a) = kind
          ELSE \/ RoleFault(a) = kind
               \/ n.form # "none" /\ (PlaceFault(a) = kind \/ BlockFault(n, d) = kind)
    BY <1>2, <1>4 DEF ElementFails
  <2>3. ElementFails(kind)' <=>
          IF n.name = "Reference" THEN ReferenceFault(a)' = kind
          ELSE \/ RoleFault(a)' = kind
               \/ n.form # "none" /\ (PlaceFault(a)' = kind \/ BlockFault(n, d)' = kind)
    BY <1>2, <1>4 DEF ElementFails
  <2> QED
    BY <1>3, <2>1, <2>2, <2>3
<1>6. IdentifiersClash' <=> IdentifiersClash
  BY <1>3 DEF IdentifiersClash
<1>7. PICK f : f = PartFault(Block, offset, Piece) /\ f = PartFault(Block, offset, Piece)'
  BY <1>4
<1> QED
  BY <1>1, <1>3, <1>5, <1>6, <1>7 DEF RefusedFor

(* A step of the loader. *)
LEMMA ValidatorKept ==
  ASSUME ValidatorInv, UNCHANGED <<file, level, place, counters, verdict, blocks>>
  PROVE  ValidatorInv'
<1>1. /\ file' = file /\ level' = level /\ phase' = phase /\ at' = at /\ part' = part
      /\ offset' = offset /\ taken' = taken /\ given' = given
      /\ structures' = structures /\ decoded' = decoded /\ images' = images
      /\ present' = present /\ verified' = verified /\ undecoded' = undecoded
      /\ verdict' = verdict /\ blocks' = blocks
  BY DEF place, progress, counters
<1>2. HeaderInv' /\ ElementsInv' /\ CountsInv' /\ WorkInv'
  BY <1>1, HeaderKept, ElementsKept, CountsKept, WorkKept DEF ValidatorInv
<1>3. TypeInv'
  BY <1>1, FileStays DEF ValidatorInv, TypeInv
<1>4. RefusalInv'
  <2>1. PICK v : v = verdict /\ v = verdict'
    BY <1>1
  <2>2. RefusedFor(v)' <=> RefusedFor(v)
    BY RefusalStays
  <2>3. RefusalInv
    BY DEF ValidatorInv
  <2> QED
    BY <2>1, <2>2, <2>3 DEF RefusalInv
<1> QED
  BY <1>2, <1>3, <1>4 DEF ValidatorInv

(* A refusal. *)
LEMMA RefuseKept ==
  ASSUME ValidatorInv, NEW kind \in Kinds, verdict = "none", Refuse(kind),
         file' = file, level' = level, RefusedFor(kind)
  PROVE  ValidatorInv'
<1>1. /\ phase' = phase /\ at' = at /\ part' = part
      /\ offset' = offset /\ taken' = taken /\ given' = given
      /\ structures' = structures /\ decoded' = decoded /\ images' = images
      /\ present' = present /\ verified' = verified /\ undecoded' = undecoded
      /\ verdict' = kind /\ blocks' = blocks /\ UNCHANGED <<place, counters>>
  BY DEF Refuse, place, progress, counters
<1>2. HeaderInv' /\ ElementsInv' /\ CountsInv' /\ WorkInv'
  BY <1>1, HeaderKept, ElementsKept, CountsKept, WorkKept DEF ValidatorInv
<1>3. TypeInv'
  BY <1>1, FileStays, CheckKinds DEF ValidatorInv, TypeInv, FaultKinds
<1>4. RefusalInv'
  BY <1>1, RefusalStays DEF RefusalInv
<1> QED
  BY <1>2, <1>3, <1>4 DEF ValidatorInv

-----------------------------------------------------------------------------
(* The steps before the elements. *)
LEMMA OpenStep ==
  ASSUME ValidatorInv, OpenContainer
  PROVE  ValidatorInv'
<1> DEFINE c1 == EnvelopeFault(file)
           c2 == Check(file.xmlLen > MaxHeader, "limit")
           c3 == Check(structures > MaxStructures, "limit")
           images_ == [k \in DOMAIN nodes |->
                         IF IsImage(nodes[k]) THEN DescriptorFault(nodes[k]) ELSE "none"]
           c4 == FirstFault(images_)
           fault == FirstFault(<<c1, c2, c3, c4>>)
<1>1. /\ verdict = "none" /\ phase = "open" /\ file' = file /\ level' = level
      /\ \/ fault # "none" /\ Refuse(fault)
         \/ /\ fault = "none" /\ phase' = "uids"
            /\ UNCHANGED <<at, part, offset, progress, counters, verdict, blocks>>
  BY DEF OpenContainer, At
<1>2. TypeInv /\ HeaderInv /\ ElementsInv /\ CountsInv
  BY DEF ValidatorInv
<1>3. DOMAIN images_ = DOMAIN nodes /\ DOMAIN images_ \subseteq Nat
  BY <1>2, NodesType
<1>4. fault \in FaultKinds
  <2>1. \A k \in DOMAIN images_ : images_[k] \in FaultKinds
    BY DescriptorKinds, CheckKinds
  <2>2. c4 \in FaultKinds
    <3> HIDE DEF images_
    <3> QED
      BY <1>3, <2>1, FirstKinds
  <2>3. c1 \in FaultKinds /\ c2 \in FaultKinds /\ c3 \in FaultKinds
    BY CheckKinds, DescriptorKinds
  <2> HIDE DEF c1, c2, c3, c4
  <2> QED
    BY <2>2, <2>3, FourChecks
<1>5. CASE fault # "none" /\ Refuse(fault)
  <2>1. fault \in Kinds
    BY <1>4, <1>5 DEF FaultKinds
  <2>2. \/ c1 # "none"
        \/ fault = c2 /\ c2 # "none"
        \/ fault = c3 /\ c3 # "none"
        \/ c4 # "none"
    <3> HIDE DEF c1, c2, c3, c4
    <3> QED
      BY <1>5, FourChecks
  <2>3. c2 \in {"none", "limit"} /\ c3 \in {"none", "limit"}
    BY DEF Check
  <2>4. c4 # "none" =>
          \E k \in DOMAIN nodes : IsImage(nodes[k]) /\ DescriptorFault(nodes[k]) # "none"
    <3>1. c4 # "none" => \E k \in DOMAIN images_ : images_[k] # "none"
      <4> HIDE DEF images_
      <4> QED
        BY <1>3, FirstFailing
    <3> QED
      BY <1>3, <3>1
  <2>5. RefusedFor(fault)
    <3> HIDE DEF c2, c3, c4, fault
    <3> QED
      BY <1>1, <2>2, <2>3, <2>4 DEF RefusedFor, Working
  <2> HIDE DEF fault
  <2> QED
    BY <1>1, <1>5, <2>1, <2>5, RefuseKept
<1>6. CASE /\ fault = "none" /\ phase' = "uids"
           /\ UNCHANGED <<at, part, offset, progress, counters, verdict, blocks>>
  <2>1. /\ at' = at /\ part' = part
        /\ offset' = offset /\ taken' = taken /\ given' = given
        /\ structures' = structures /\ decoded' = decoded /\ images' = images
        /\ present' = present /\ verified' = verified /\ undecoded' = undecoded
        /\ verdict' = verdict /\ blocks' = blocks
    BY <1>6 DEF progress, counters
  <2>2. c1 = "none" /\ c3 = "none" /\ c4 = "none"
    <3> HIDE DEF c1, c2, c3, c4
    <3> QED
      BY <1>6, FourChecks
  <2>3. \A k \in DOMAIN nodes : IsImage(nodes[k]) => DescriptorFault(nodes[k]) = "none"
    <3>1. \A k \in DOMAIN images_ : images_[k] = "none"
      <4> HIDE DEF images_
      <4> QED
        BY <1>3, <2>2, FirstFailing
    <3> QED
      BY <1>3, <3>1
  <2>4. structures <= MaxStructures
    <3>1. ~ structures > MaxStructures
      BY <2>2 DEF Check
    <3>2. structures \in Nat /\ MaxStructures \in Nat
      BY <1>2, FilesAssumption DEF TypeInv
    <3> QED
      BY <3>1, <3>2
  <2>5. ElementsInv' /\ CountsInv'
    BY <1>1, <1>2, <1>6, <2>1, ElementsKept, CountsKept DEF Working
  <2>6. TypeInv'
    BY <1>1, <1>2, <1>6, <2>1, FileStays DEF TypeInv, Working
  <2>7. HeaderInv'
    BY <1>1, <1>6, <2>1, <2>2, <2>3, <2>4, FileStays DEF HeaderInv
  <2>8. WorkInv' /\ RefusalInv'
    BY <1>1, <1>6, <2>1 DEF WorkInv, RefusalInv, Working
  <2> QED
    BY <2>5, <2>6, <2>7, <2>8 DEF ValidatorInv
<1> QED
  BY <1>1, <1>5, <1>6

(* CheckUids keeps the invariant: identifiers are unique afterwards. *)
LEMMA UidsStep ==
  ASSUME ValidatorInv, CheckUids
  PROVE  ValidatorInv'
<1> DEFINE wrong == \E i \in Identified :
                      \/ nodes[i].name = "Reference" \/ nodes[i].uid = ""
                      \/ \E j \in Identified : j < i /\ nodes[j].uid = nodes[i].uid
<1>1. /\ verdict = "none" /\ phase = "uids" /\ file' = file /\ level' = level
      /\ \/ wrong /\ Refuse("invalid")
         \/ /\ ~ wrong /\ phase' = "element"
            /\ UNCHANGED <<at, part, offset, progress, counters, verdict, blocks>>
  BY DEF CheckUids, At
<1>2. TypeInv /\ HeaderInv /\ ElementsInv /\ CountsInv
  BY DEF ValidatorInv
<1>3. CASE wrong /\ Refuse("invalid")
  <2>1. "invalid" \in Kinds
    BY DEF Kinds
  <2>2. IdentifiersClash
    <3>1. ASSUME NEW i \in Identified, NEW j \in Identified, j < i PROVE i # j
      <4>1. i \in Nat /\ j \in Nat
        BY <1>2, NodesType DEF Identified
      <4> QED
        BY <3>1, <4>1
    <3> QED
      BY <1>3, <3>1 DEF IdentifiersClash
  <2>3. RefusedFor("invalid")
    BY <1>1, <2>2 DEF RefusedFor, Working
  <2> HIDE DEF wrong
  <2> QED
    BY <1>1, <1>3, <2>1, <2>3, RefuseKept
<1>4. CASE /\ ~ wrong /\ phase' = "element"
           /\ UNCHANGED <<at, part, offset, progress, counters, verdict, blocks>>
  <2>1. /\ at' = at /\ part' = part
        /\ offset' = offset /\ taken' = taken /\ given' = given
        /\ structures' = structures /\ decoded' = decoded /\ images' = images
        /\ present' = present /\ verified' = verified /\ undecoded' = undecoded
        /\ verdict' = verdict /\ blocks' = blocks
    BY <1>4 DEF progress, counters
  <2>2. \A i, j \in Identified :
          nodes[i].name # "Reference" /\ (nodes[i].uid = nodes[j].uid => i = j)
    <3>1. ASSUME NEW i \in Identified, NEW j \in Identified
          PROVE  nodes[i].name # "Reference" /\ (nodes[i].uid = nodes[j].uid => i = j)
      <4>1. i \in Nat /\ j \in Nat
        BY <1>2, NodesType DEF Identified
      <4>2. /\ nodes[i].name # "Reference"
            /\ ~ (j < i /\ nodes[j].uid = nodes[i].uid)
            /\ ~ (i < j /\ nodes[i].uid = nodes[j].uid)
        BY <1>4, <3>1
      <4> QED
        BY <4>1, <4>2
    <3> QED
      BY <3>1
  <2>3. ElementsInv' /\ CountsInv'
    BY <1>1, <1>2, <1>4, <2>1, ElementsKept, CountsKept DEF Working
  <2>4. TypeInv'
    BY <1>1, <1>2, <1>4, <2>1, FileStays DEF TypeInv, Working
  <2>5. HeaderInv'
    BY <1>1, <1>2, <1>4, <2>1, <2>2, FileStays DEF HeaderInv
  <2>6. WorkInv' /\ RefusalInv'
    BY <1>1, <1>4, <2>1 DEF WorkInv, RefusalInv, Working
  <2> QED
    BY <2>3, <2>4, <2>5, <2>6 DEF ValidatorInv
<1> QED
  BY <1>1, <1>3, <1>4

-----------------------------------------------------------------------------
(* On to the next element. *)
LEMMA ElementsAdvance ==
  ASSUME TypeInv, ElementsInv, file' = file, level' = level,
         at \in DOMAIN nodes, at' = at + 1, phase' = "element",
         NEW B, blocks' = B, blocks \subseteq B, B \subseteq blocks \cup {at},
         at \in B => Checked(at) /\ DecodedWhole(at),
         IF nodes[at].name = "Reference" THEN ReferenceFault(at) = "none"
         ELSE RoleFault(at) = "none" /\ (nodes[at].form # "none" => at \in B)
  PROVE  ElementsInv'
<1>1. PICK a : a = at
  OBVIOUS
<1>2. a \in Nat /\ a \in DOMAIN nodes
  BY <1>1, NodesType
<1>3. ASSUME NEW i \in DOMAIN nodes, i < a + 1 PROVE Passed(i)'
  <2>1. i \in Nat
    BY NodesType
  <2>2. IF nodes[i].name = "Reference" THEN ReferenceFault(i) = "none"
        ELSE RoleFault(i) = "none" /\ (nodes[i].form # "none" => i \in B)
    <3>1. CASE i = a
      BY <1>1, <3>1
    <3>2. CASE i < a
      <4>1. Passed(i)
        BY <1>1, <3>2 DEF ElementsInv
      <4> QED
        BY <4>1 DEF Passed
    <3> QED
      BY <1>2, <1>3, <2>1, <3>1, <3>2
  <2> QED
    BY <2>2, FileStays, FaultsStay DEF Passed
<1>4. ASSUME NEW b \in B PROVE Checked(b)' /\ b < a + 1 /\ DecodedWhole(b)'
  <2>1. CASE b = a
    BY <1>1, <1>2, <2>1, FaultsStay
  <2>2. CASE b # a
    <3>1. b \in blocks /\ b \in DOMAIN nodes
      BY <1>1, <2>2 DEF ElementsInv
    <3>2. Checked(b) /\ b < a /\ DecodedWhole(b)
      BY <1>1, <2>2, <3>1 DEF ElementsInv
    <3>3. b \in Nat
      BY <3>1, NodesType
    <3> QED
      BY <1>2, <3>2, <3>3, FaultsStay
  <2> QED
    BY <2>1, <2>2
<1>5. B \subseteq DOMAIN nodes
  BY DEF ElementsInv
<1> QED
  BY <1>1, <1>3, <1>4, <1>5, FileStays DEF ElementsInv

(* Going on to the next element keeps the invariant, if this one is passed *)
(* and its parts are decoded.                                              *)
LEMMA AdvanceKept ==
  ASSUME ValidatorInv, file' = file, level' = level, phase \notin {"open", "uids"},
         at \in DOMAIN nodes, verdict = "none", Advance,
         UNCHANGED <<counters, verdict, blocks>>,
         phase \in Working => DecodedWhole(at), phase = "element" => Passed(at)
  PROVE  ValidatorInv'
<1>1. /\ phase' = "element" /\ at' = at + 1 /\ part' = 1 /\ offset' = 0
      /\ taken' = 0 /\ given' = 0
      /\ structures' = structures /\ decoded' = decoded /\ images' = images
      /\ present' = present /\ verified' = verified /\ undecoded' = undecoded
      /\ verdict' = verdict /\ blocks' = blocks
  BY DEF Advance, counters
<1>2. TypeInv /\ HeaderInv /\ ElementsInv /\ CountsInv /\ WorkInv
  BY DEF ValidatorInv
<1>3. CountsInv'
  BY <1>1, <1>2, CountsKept
<1>4. HeaderInv'
  BY <1>1, <1>2, FileStays DEF HeaderInv
<1>5. TypeInv'
  <2>1. Len(nodes) \in Nat /\ at \in 1 .. Len(nodes)
    BY <1>2, NodesType
  <2>2. at + 1 \in 1 .. (Len(nodes) + 1)
    BY <2>1
  <2> QED
    BY <1>1, <1>2, <2>2, FileStays DEF TypeInv, Working
<1>6. ElementsInv'
  <2>1. phase \in Working => at \in blocks
    BY <1>2 DEF WorkInv
  <2>2. phase = "element" \/ phase \in Working
    BY <1>2 DEF TypeInv
  <2>3. at \in blocks => Checked(at) /\ DecodedWhole(at)
    <3>1. ~ (at < at)
      <4>1. at \in Nat
        BY <1>2, NodesType
      <4> QED
        BY <4>1
    <3> QED
      BY <1>2, <2>2, <3>1 DEF ElementsInv
  <2>4. IF nodes[at].name = "Reference" THEN ReferenceFault(at) = "none"
        ELSE RoleFault(at) = "none" /\ (nodes[at].form # "none" => at \in blocks)
    <3>1. CASE phase = "element"
      BY <3>1 DEF Passed
    <3>2. CASE phase \in Working
      BY <2>1, <2>3, <3>2 DEF Checked
    <3> QED
      BY <2>2, <3>1, <3>2
  <2>5. PICK B : B = blocks
    OBVIOUS
  <2> QED
    BY <1>1, <1>2, <2>3, <2>4, <2>5, ElementsAdvance
<1>7. WorkInv' /\ RefusalInv'
  BY <1>1 DEF WorkInv, RefusalInv, Working
<1> QED
  BY <1>3, <1>4, <1>5, <1>6, <1>7 DEF ValidatorInv

(* PassElement keeps the invariant: a reference, or an element without a   *)
(* block.                                                                  *)
LEMMA PassStep ==
  ASSUME ValidatorInv, PassElement
  PROVE  ValidatorInv'
<1> DEFINE n == nodes[at]
           fault == IF n.name = "Reference" THEN ReferenceFault(at) ELSE RoleFault(at)
<1>1. /\ verdict = "none" /\ phase = "element" /\ at \in DOMAIN nodes
      /\ file' = file /\ level' = level
      /\ n.name = "Reference" \/ n.form = "none" \/ fault # "none"
      /\ \/ fault # "none" /\ Refuse(fault)
         \/ fault = "none" /\ Advance /\ UNCHANGED <<counters, verdict, blocks>>
  BY DEF PassElement, At
<1>2. TypeInv
  BY DEF ValidatorInv
<1>3. CASE fault # "none" /\ Refuse(fault)
  <2>1. fault \in Kinds
    BY <1>1, <1>2, <1>3, ElementKinds DEF FaultKinds
  <2>2. RefusedFor(fault)
    BY <1>1, <1>3 DEF RefusedFor, ElementFails, Working
  <2> HIDE DEF fault
  <2> QED
    BY <1>1, <1>3, <2>1, <2>2, RefuseKept
<1>4. CASE fault = "none" /\ Advance /\ UNCHANGED <<counters, verdict, blocks>>
  <2>1. Passed(at)
    BY <1>1, <1>4 DEF Passed
  <2>2. phase \notin Working /\ phase \notin {"open", "uids"}
    BY <1>1 DEF Working
  <2> HIDE DEF fault
  <2> QED
    BY <1>1, <1>4, <2>1, <2>2, AdvanceKept
<1> QED
  BY <1>1, <1>3, <1>4

(* One block more. *)
LEMMA BlockLengthType ==
  ASSUME NEW d \in Elements
  PROVE  BlockLength(d) \in Nat /\ Len(d.subblocks) \in Nat
<1>1. d.size \in Nat /\ d.decoded \in Nat /\ d.subblocks \in Seq(Nat \X Nat)
  BY DEF Elements
<1> QED
  BY <1>1 DEF BlockLength

(* The blocks are finitely many, and each has a length. *)
LEMMA BlocksFinite ==
  ASSUME TypeInv, ElementsInv
  PROVE  /\ IsFiniteSet(blocks) /\ IsFiniteSet(Summed(blocks))
         /\ \A b \in blocks : Described(b) \in Elements
         /\ Lengths(blocks) \in [blocks -> Nat]
<1>1. IsFiniteSet(DOMAIN nodes)
  BY NodesType, FS_Interval
<1>2. IsFiniteSet(blocks)
  BY <1>1, FS_Subset DEF ElementsInv
<1>3. Summed(blocks) \subseteq blocks
  BY DEF Summed
<1>4. IsFiniteSet(Summed(blocks))
  BY <1>2, <1>3, FS_Subset
<1>5. \A b \in blocks : Described(b) \in Elements
  BY DescriptionSound DEF ElementsInv, Checked
<1>6. Lengths(blocks) \in [blocks -> Nat]
  BY <1>5, BlockLengthType DEF Lengths
<1> QED
  BY <1>2, <1>4, <1>5, <1>6

(* Adding a block that was not counted keeps the counters in line. *)
LEMMA CountsAdd ==
  ASSUME TypeInv, ElementsInv, CountsInv, file' = file, level' = level,
         at \notin blocks, at \in DOMAIN nodes, blocks' = blocks \cup {at},
         NEW d \in Elements, d = Described(at),
         decoded' = decoded + BlockLength(d), ~ decoded' > MaxDecoded,
         present' = IF d.checksum = "none" THEN present ELSE present + 1,
         verified' = IF level = "full" THEN verified + present' - present ELSE verified,
         undecoded' = undecoded \cup (IF level = "structural" /\ HasCompression(d)
                                      THEN {d.codec} ELSE {})
  PROVE  CountsInv' /\ decoded' \in Nat /\ present' \in Nat /\ verified' \in Nat
<1>1. PICK a, S, B : a = at /\ S = blocks /\ B = S \cup {a} /\ B = blocks'
  OBVIOUS
<1>2. /\ IsFiniteSet(S) /\ IsFiniteSet(Summed(S)) /\ Lengths(S) \in [S -> Nat]
      /\ \A b \in S : Described(b) \in Elements
  BY <1>1, BlocksFinite
<1>3. present' = Cardinality(Summed(B))
  <2>1. a \notin Summed(S)
    BY <1>1 DEF Summed
  <2>2. CASE d.checksum = "none"
    <3>1. Summed(B) = Summed(S)
      BY <1>1, <2>2 DEF Summed
    <3> QED
      BY <1>1, <2>2, <3>1 DEF CountsInv
  <2>3. CASE d.checksum # "none"
    <3>1. Summed(B) = Summed(S) \cup {a}
      BY <1>1, <2>3 DEF Summed
    <3> QED
      BY <1>1, <1>2, <2>1, <2>3, <3>1, FS_AddElement DEF CountsInv
  <2> QED
    BY <2>2, <2>3
<1>4. decoded' = Total(Lengths(B))
  <2>1. Lengths(B) \in [B -> Nat] /\ Lengths(B)[a] = BlockLength(d)
    BY <1>1, <1>2, BlockLengthType DEF Lengths
  <2>2. \A b \in S : Lengths(B)[b] = Lengths(S)[b]
    BY <1>1 DEF Lengths
  <2>3. Total(Lengths(B)) = Total(Lengths(S)) + Lengths(B)[a]
    BY <1>1, <1>2, <2>1, <2>2, TotalExtends
  <2> QED
    BY <1>1, <2>1, <2>3 DEF CountsInv
<1>5. present \in Nat /\ verified \in Nat /\ decoded \in Nat /\ BlockLength(d) \in Nat
  BY BlockLengthType DEF TypeInv
<1>6. verified' = IF level = "full" THEN present' ELSE 0
  BY <1>5 DEF CountsInv, TypeInv
<1>7. level = "structural" => undecoded' = {Described(b).codec : b \in B} \ {"none"}
  <2>1. level = "structural" => undecoded = {Described(b).codec : b \in S} \ {"none"}
    BY <1>1 DEF CountsInv
  <2>2. {Described(b).codec : b \in B} = {Described(b).codec : b \in S} \cup {d.codec}
    BY <1>1
  <2> QED
    BY <2>1, <2>2 DEF HasCompression
<1>8. decoded' <= MaxDecoded
  <2>1. MaxDecoded \in Nat
    BY FilesAssumption
  <2> QED
    BY <1>5, <2>1
<1>9. Summed(B)' = Summed(B) /\ Lengths(B)' = Lengths(B)
  BY SumsStay
<1>10. /\ present' = Cardinality(Summed(B)')
       /\ verified' = IF level' = "full" THEN present' ELSE 0
       /\ level' = "structural" =>
            undecoded' = {Described(b)'.codec : b \in B} \ {"none"}
       /\ decoded' = Total(Lengths(B)') /\ decoded' <= MaxDecoded
  BY <1>3, <1>4, <1>6, <1>7, <1>8, <1>9, FileStays
<1>11. CountsInv'
  BY <1>1, <1>10 DEF CountsInv
<1> QED
  BY <1>5, <1>6, <1>11

(* CheckBlock keeps the invariant: the checks passed are those of Checked. *)
LEMMA CheckStep ==
  ASSUME ValidatorInv, CheckBlock
  PROVE  ValidatorInv'
<1>1. PICK n, d, fault :
        /\ n = nodes[at] /\ d = Described(at) /\ fault = BlockFault(n, d)
  OBVIOUS
<1>2. /\ verdict = "none" /\ phase = "element" /\ at \in DOMAIN nodes
      /\ file' = file /\ level' = level
      /\ n.name # "Reference" /\ n.form # "none" /\ RoleFault(at) = "none"
  BY <1>1 DEF CheckBlock, At
<1>3. TypeInv /\ HeaderInv /\ ElementsInv /\ CountsInv
  BY DEF ValidatorInv
<1>4. CASE PlaceFault(at) # "none" /\ Refuse(PlaceFault(at))
  <2>1. PlaceFault(at) \in Kinds
    BY <1>1, <1>2, <1>3, <1>4, ElementKinds DEF FaultKinds
  <2>2. RefusedFor(PlaceFault(at))
    BY <1>1, <1>2, <1>4 DEF RefusedFor, ElementFails, Working
  <2> QED
    BY <1>2, <1>4, <2>1, <2>2, RefuseKept
<1>5. CASE PlaceFault(at) = "none" /\ fault # "none" /\ Refuse(fault)
  <2>1. fault \in Kinds
    BY <1>1, <1>5, BlockKinds DEF FaultKinds
  <2>2. RefusedFor(fault)
    BY <1>1, <1>2, BlockIs DEF RefusedFor, ElementFails, Working
  <2> QED
    BY <1>2, <1>5, <2>1, <2>2, RefuseKept
<1>6. CASE /\ PlaceFault(at) = "none" /\ fault = "none"
           /\ structures' = structures + 1 + Len(d.subblocks)
           /\ decoded' = decoded + BlockLength(d)
           /\ images' = IF n.name = "Image" THEN images + 1 ELSE images
           /\ present' = IF d.checksum = "none" THEN present ELSE present + 1
           /\ verified' = IF level = "full" THEN verified + present' - present ELSE verified
           /\ undecoded' = undecoded \cup
                (IF level = "structural" /\ HasCompression(d) THEN {d.codec} ELSE {})
           /\ blocks' = blocks \cup {at}
           /\ IF level = "full" /\ HasCompression(d)
              THEN phase' = "decode" /\ UNCHANGED <<at, part, offset, progress>>
              ELSE Advance
           /\ UNCHANGED verdict
  <2>1. d \in Elements /\ d.checksum \in {"none", "good", "bad", "malformed", "unknown"}
    <3>1. d \in Elements
      BY <1>1, <1>2, <1>3, <1>6, DescriptionSound
    <3> QED
      BY <3>1 DEF Elements
  <2>2. /\ ~ structures + 1 + Len(d.subblocks) > MaxStructures
        /\ CompressionFault(d, d.size) = "none"
        /\ (IsImage(n) /\ HasCompression(d) /\ d.item > 0) => d.item = SampleSize(n)
        /\ Expected(n) \in {-1, BlockLength(d)}
        /\ ~ decoded + BlockLength(d) > MaxDecoded
        /\ d.checksum # "malformed"
        /\ level = "full" => d.checksum \notin {"unknown", "bad"}
    BY <1>1, <1>6, BlockSound
  <2>3. Checked(at)
    BY <1>1, <1>2, <1>6, <2>1, <2>2 DEF Checked
  <2>4. at \in Nat /\ at \notin blocks /\ ~ (at < at)
    <3>1. at \in Nat
      BY <1>2, <1>3, NodesType
    <3> QED
      BY <1>2, <1>3, <3>1 DEF ElementsInv, Working
  <2>5. CountsInv' /\ decoded' \in Nat /\ present' \in Nat /\ verified' \in Nat
    BY <1>1, <1>2, <1>3, <1>6, <2>1, <2>2, <2>4, CountsAdd
  <2>6. structures' \in Nat /\ structures' <= MaxStructures /\ images' \in Nat
    <3>1. structures \in Nat /\ images \in Nat /\ Len(d.subblocks) \in Nat /\ MaxStructures \in Nat
      BY <1>3, <2>1, BlockLengthType, FilesAssumption DEF TypeInv
    <3>2. structures' = structures + 1 + Len(d.subblocks)
      BY <1>6
    <3>3. structures' \in Nat /\ structures' <= MaxStructures
      <4>1. PICK x \in Nat, y \in Nat, m \in Nat :
              x = structures /\ y = Len(d.subblocks) /\ m = MaxStructures
        BY <3>1
      <4>2. PICK z : z = structures'
        OBVIOUS
      <4>3. z = x + 1 + y /\ ~ (x + 1 + y > m)
        BY <2>2, <3>2, <4>1, <4>2
      <4>4. z \in Nat /\ z <= m
        BY <4>3
      <4> QED
        BY <4>1, <4>2, <4>4
    <3>4. images' \in Nat
      BY <1>6, <3>1
    <3> QED
      BY <3>3, <3>4
  <2>7. HeaderInv' /\ RefusalInv'
    <3>1. phase' # "open" /\ phase' \notin {"open", "uids"}
      BY <1>6 DEF Advance
    <3>2. verdict' = "none"
      BY <1>2, <1>6
    <3> QED
      BY <1>2, <1>3, <2>6, <3>1, <3>2, FileStays DEF HeaderInv, RefusalInv
  <2>8. CASE level = "full" /\ HasCompression(d)
    <3>1. /\ phase' = "decode" /\ at' = at /\ part' = part /\ offset' = offset
          /\ taken' = taken /\ given' = given /\ verdict' = verdict
          /\ blocks' = blocks \cup {at}
      BY <1>6, <2>8 DEF progress
    <3>2. TypeInv'
      BY <1>2, <1>3, <2>5, <2>6, <3>1, FileStays DEF TypeInv, Working
    <3>3. ElementsInv'
      <4>1. \A i \in DOMAIN nodes : i < at => Passed(i)'
        BY <1>2, <1>3, <3>1, FileStays, FaultsStay DEF ElementsInv, Passed
      <4>2. \A b \in blocks \cup {at} :
              Checked(b)' /\ ((b < at /\ DecodedWhole(b)') \/ b = at)
        BY <1>2, <1>3, <2>3, FaultsStay DEF ElementsInv
      <4>3. blocks \cup {at} \subseteq DOMAIN nodes
        BY <1>2, <1>3 DEF ElementsInv
      <4> QED
        BY <1>2, <3>1, <4>1, <4>2, <4>3, FileStays DEF ElementsInv, Working
    <3>4. WorkInv'
      <4>1. Block' = Block /\ Block = d
        BY <1>1, <1>2, <3>1, BlockStays, BlockIs
      <4>2. /\ PartsOf(d) \in Seq(Nat \X Nat) /\ Len(PartsOf(d)) \in Nat \ {0}
            /\ DOMAIN PartsOf(d) = 1 .. Len(PartsOf(d))
        BY <2>1, PartsType
      <4>3. part = 1 /\ offset = 0 /\ taken = 0 /\ given = 0
        BY <1>2, <1>3 DEF TypeInv, Working
      <4>4. 1 \in DOMAIN PartsOf(d) /\ 1 - 1 = 0
        BY <4>2
      <4>5. /\ Before(PartsOf(d), 0, 1) = 0 /\ PartsOf(d)[1] \in Nat \X Nat
        BY <4>2, <4>4, BeforeDef
      <4>6. Piece = PartsOf(d)[1] /\ Piece' = Piece
        BY <3>1, <4>1, <4>3 DEF Piece, PartsOf
      <4>7. 0 <= Piece[1] /\ 0 <= Piece[2]
        BY <4>5, <4>6
      <4>8. \A p \in DOMAIN PartsOf(d) : ~ (p < 1)
        BY <4>2
      <4> QED
        BY <1>2, <2>8, <3>1, <4>1, <4>3, <4>4, <4>5, <4>6, <4>7, <4>8 DEF WorkInv
    <3> QED
      BY <2>5, <2>7, <3>2, <3>3, <3>4 DEF ValidatorInv
  <2>9. CASE ~ (level = "full" /\ HasCompression(d))
    <3>1. /\ phase' = "element" /\ at' = at + 1 /\ part' = 1 /\ offset' = 0
          /\ taken' = 0 /\ given' = 0 /\ verdict' = verdict
          /\ blocks' = blocks \cup {at}
      BY <1>6, <2>9 DEF Advance
    <3>2. TypeInv'
      <4>1. Len(nodes) \in Nat /\ at \in 1 .. Len(nodes)
        BY <1>2, <1>3, NodesType
      <4>2. at + 1 \in 1 .. (Len(nodes) + 1)
        BY <4>1
      <4> QED
        BY <1>2, <1>3, <2>5, <2>6, <3>1, <4>2, FileStays DEF TypeInv
    <3>3. ElementsInv'
      <4>1. DecodedWhole(at)
        BY <1>1, <2>9 DEF DecodedWhole
      <4>2. PICK B : B = blocks \cup {at}
        OBVIOUS
      <4>3. IF nodes[at].name = "Reference" THEN ReferenceFault(at) = "none"
            ELSE RoleFault(at) = "none" /\ (nodes[at].form # "none" => at \in B)
        BY <1>1, <1>2, <4>2
      <4> QED
        BY <1>2, <1>3, <2>3, <3>1, <4>1, <4>2, <4>3, ElementsAdvance
    <3>4. WorkInv'
      BY <3>1 DEF WorkInv, Working
    <3> QED
      BY <2>5, <2>7, <3>2, <3>3, <3>4 DEF ValidatorInv
  <2> QED
    BY <2>8, <2>9
<1>7. \/ PlaceFault(at) # "none" /\ Refuse(PlaceFault(at))
      \/ PlaceFault(at) = "none" /\ fault # "none" /\ Refuse(fault)
      \/ /\ PlaceFault(at) = "none" /\ fault = "none"
         /\ structures' = structures + 1 + Len(d.subblocks)
         /\ decoded' = decoded + BlockLength(d)
         /\ images' = IF n.name = "Image" THEN images + 1 ELSE images
         /\ present' = IF d.checksum = "none" THEN present ELSE present + 1
         /\ verified' = IF level = "full" THEN verified + present' - present ELSE verified
         /\ undecoded' = undecoded \cup
              (IF level = "structural" /\ HasCompression(d) THEN {d.codec} ELSE {})
         /\ blocks' = blocks \cup {at}
         /\ IF level = "full" /\ HasCompression(d)
            THEN phase' = "decode" /\ UNCHANGED <<at, part, offset, progress>>
            ELSE Advance
         /\ UNCHANGED verdict
  BY <1>1 DEF CheckBlock, Described
<1> QED
  BY <1>4, <1>5, <1>6, <1>7

-----------------------------------------------------------------------------
(* The parts of the block at work. *)
LEMMA WorkFacts ==
  ASSUME TypeInv, ElementsInv, WorkInv, phase \in Working
  PROVE  /\ at \in DOMAIN nodes /\ Checked(at) /\ level = "full"
         /\ Block = Described(at) /\ Block \in Elements /\ HasCompression(Block)
         /\ PartsOf(Block) \in Seq(Nat \X Nat) /\ Len(PartsOf(Block)) \in Nat
         /\ DOMAIN PartsOf(Block) = 1 .. Len(PartsOf(Block))
         /\ part \in 1 .. Len(PartsOf(Block))
         /\ Piece = PartsOf(Block)[part] /\ Piece \in Nat \X Nat
         /\ offset + Piece[1] = Before(PartsOf(Block), part, 1)
         /\ offset + Piece[1] <= Block.size
         /\ part = Len(PartsOf(Block)) => offset + Piece[1] = Block.size
         /\ \A k \in FrameAt(Block, offset) : Block.frames[k] \in Frames
         /\ FrameAt(Block, offset) # {} =>
              Current \in FrameAt(Block, offset) /\ Source \in Frames
<1>1. /\ at \in blocks /\ level = "full" /\ HasCompression(Block)
      /\ part \in DOMAIN PartsOf(Block)
      /\ offset = Before(PartsOf(Block), part - 1, 1)
  BY DEF WorkInv
<1>2. at \in DOMAIN nodes /\ Checked(at)
  BY <1>1 DEF ElementsInv
<1>3. Block = Described(at) /\ Block \in Elements
  BY <1>2, BlockIs, DescriptionSound DEF Checked
<1>4. /\ PartsOf(Block) \in Seq(Nat \X Nat) /\ Len(PartsOf(Block)) \in Nat
      /\ DOMAIN PartsOf(Block) = 1 .. Len(PartsOf(Block)) /\ Block.frames \in Seq(Frames)
  BY <1>3, PartsType
<1>5. Piece = PartsOf(Block)[part] /\ Piece \in Nat \X Nat
  BY <1>1, <1>4 DEF Piece, PartsOf
<1>6. PartTotal(PartsOf(Block), 1) = Block.size
  BY <1>1, <1>2, <1>3, SoundParts DEF Checked
<1>7. PICK L \in Nat : L = Len(PartsOf(Block))
  BY <1>4
<1>8. part \in 1 .. L /\ part \in 0 .. L
  BY <1>1, <1>4, <1>7
<1>9. Before(PartsOf(Block), part, 1) = offset + Piece[1]
  BY <1>1, <1>4, <1>5, <1>7, <1>8, BeforeDef
<1>10. Before(PartsOf(Block), part, 1) <= PartTotal(PartsOf(Block), 1)
  BY <1>4, <1>7, <1>8, BeforeDef
<1>11. \A k \in FrameAt(Block, offset) : Block.frames[k] \in Frames
  BY <1>4 DEF FrameAt
<1>12. FrameAt(Block, offset) # {} => Current \in FrameAt(Block, offset) /\ Source \in Frames
  BY <1>11 DEF Current, Source
<1>13. part = Len(PartsOf(Block)) => offset + Piece[1] = Block.size
  BY <1>6, <1>9 DEF PartTotal
<1>14. offset + Piece[1] <= Block.size
  BY <1>6, <1>9, <1>10
<1> QED
  BY <1>1, <1>2, <1>3, <1>4, <1>5, <1>7, <1>8, <1>9, <1>11, <1>12, <1>13, <1>14

(* Going on to the next part keeps the invariant, if this one is whole. *)
LEMMA NextPartKept ==
  ASSUME ValidatorInv, file' = file, level' = level, verdict = "none", phase \in Working,
         NextPart, UNCHANGED <<counters, verdict, blocks>>, WholePart(Block, part)
  PROVE  ValidatorInv'
<1>1. TypeInv /\ HeaderInv /\ ElementsInv /\ CountsInv /\ WorkInv
  BY DEF ValidatorInv
<1>2. /\ structures' = structures /\ decoded' = decoded /\ images' = images
      /\ present' = present /\ verified' = verified /\ undecoded' = undecoded
      /\ verdict' = verdict /\ blocks' = blocks
  BY DEF counters
<1>3. PICK d, L, r :
        /\ d = Block /\ L = Len(PartsOf(Block)) /\ r = part
        /\ L \in Nat /\ r \in 1 .. L /\ DOMAIN PartsOf(d) = 1 .. L
  BY <1>1, WorkFacts
<1>4. phase \notin {"open", "uids", "element"}
  BY DEF Working
<1>5. \A p \in 1 .. L : p <= r => WholePart(d, p)
  <2>1. \A p \in 1 .. L : p < r => WholePart(d, p)
    BY <1>1, <1>3 DEF WorkInv
  <2>2. WholePart(d, r)
    BY <1>3
  <2>3. \A p \in 1 .. L : p <= r => p < r \/ p = r
    BY <1>3
  <2> QED
    BY <2>1, <2>2, <2>3
<1>6. CASE part = Len(PartsOf(Block))
  <2>1. Advance
    BY <1>6 DEF NextPart, PartsOf
  <2>2. DecodedWhole(at)
    <3>1. \A p \in DOMAIN PartsOf(d) : WholePart(d, p)
      BY <1>3, <1>5, <1>6
    <3> QED
      BY <1>1, <1>3, <3>1, WorkFacts DEF DecodedWhole
  <2>3. at \in DOMAIN nodes
    BY <1>1, WorkFacts
  <2> QED
    BY <1>4, <2>1, <2>2, <2>3, AdvanceKept
<1>7. CASE part # Len(PartsOf(Block))
  <2>1. /\ part' = part + 1 /\ offset' = offset + Piece[1]
        /\ phase' = "decode" /\ taken' = 0 /\ given' = 0 /\ at' = at
    BY <1>7 DEF NextPart, PartsOf
  <2>2. r + 1 \in 1 .. L /\ (r + 1) - 1 = r
    BY <1>3, <1>7
  <2>3. part' = r + 1 /\ offset' = Before(PartsOf(d), r, 1)
    BY <1>1, <1>3, <2>1, WorkFacts
  <2>4. Block' = d /\ Piece' = PartsOf(d)[r + 1]
    <3>1. Block' = d
      BY <1>3, <2>1, BlockStays
    <3> QED
      BY <2>3, <3>1 DEF Piece, PartsOf
  <2>5. /\ Piece' \in Nat \X Nat /\ offset' \in Nat
    <3>1. /\ PartsOf(d) \in Seq(Nat \X Nat) /\ offset \in Nat /\ Piece[1] \in Nat
      BY <1>1, <1>3, WorkFacts DEF TypeInv
    <3>2. PartsOf(d)[r + 1] \in Nat \X Nat
      BY <1>3, <2>2, <3>1
    <3>3. offset + Piece[1] \in Nat
      BY <3>1
    <3> QED
      BY <2>1, <2>4, <3>2, <3>3
  <2>6. HeaderInv' /\ CountsInv'
    BY <1>1, <1>2, <1>4, <2>1, CountsKept, FileStays DEF HeaderInv
  <2>7. ElementsInv'
    BY <1>1, <1>2, <2>1, ElementsKept DEF Working
  <2>8. TypeInv'
    BY <1>1, <1>2, <2>1, <2>5, FileStays DEF TypeInv, Working
  <2>9. RefusalInv'
    BY <1>2 DEF RefusalInv
  <2>10. WorkInv'
    <3>1. \A p \in 1 .. L : p < r + 1 => WholePart(d, p)
      <4>1. \A p \in 1 .. L : p < r + 1 => p <= r
        BY <1>3
      <4> QED
        BY <1>5, <4>1
    <3>2. at' \in blocks' /\ level' = "full" /\ HasCompression(d)
      BY <1>1, <1>2, <1>3, <2>1 DEF WorkInv
    <3>3. 0 <= Piece'[1] /\ 0 <= Piece'[2]
      BY <2>5
    <3>4. phase' = "decode" /\ taken' = 0 /\ given' = 0
      BY <2>1
    <3> QED
      BY <1>3, <2>2, <2>3, <2>4, <3>1, <3>2, <3>3, <3>4 DEF WorkInv
  <2> QED
    BY <2>6, <2>7, <2>8, <2>9, <2>10 DEF ValidatorInv
<1> QED
  BY <1>6, <1>7

(* What a part's storage says: the bytes end after the block, or the part, *)
(* which is read from the file in one piece, ends after the file.          *)
LEMMA StorageKinds ==
  ASSUME NEW n, NEW d, NEW start, NEW length
  PROVE  StorageFault(n, d, start, length) \in FaultKinds
BY CheckKinds, DescriptorKinds DEF StorageFault

(* A part lies in its block, and an attached block in the file: what fails *)
(* of a part is the decoding.                                              *)
LEMMA StorageHolds ==
  ASSUME TypeInv, ElementsInv, WorkInv, phase \in Working
  PROVE  StorageFault(nodes[at], Block, offset, Piece[1]) = "none"
<1>1. PICK n, d, o, l, s :
        /\ n = nodes[at] /\ d = Block /\ o = offset /\ l = Piece[1] /\ s = file.size
  OBVIOUS
<1>2. /\ o \in Nat /\ l \in Nat /\ d \in Elements /\ o + l <= d.size
      /\ at \in DOMAIN nodes /\ Checked(at) /\ Block = Described(at)
  BY <1>1, WorkFacts DEF TypeInv
<1>3. d.size \in Nat
  BY <1>2 DEF Elements
<1>4. ~ (o + l > d.size)
  BY <1>2, <1>3
<1>5. ASSUME n.form = "attachment" PROVE RangeFault(n.offset + o, l, s) = "none"
  <2>1. d = n
    BY <1>1, <1>2, <1>5 DEF Described, Description
  <2>2. PlaceFault(at) =
          FirstFault(<<Check(n.offset < XmlEnd(file), "invalid"),
                       RangeFault(n.offset, n.size, s)>>)
    BY <1>1, <1>5 DEF PlaceFault
  <2>3. RangeFault(n.offset, n.size, s) = "none"
    BY <1>2, <2>2, TwoChecks DEF Checked
  <2>4. n.offset \in Nat /\ s \in Nat /\ MaxInt \in Nat
    BY <1>1, <1>2, <2>1, FilesAssumption, DescriptorAssumption DEF Elements, TypeInv
  <2>5. ~ (n.offset + n.size > MaxInt) /\ ~ (n.offset + n.size > s)
    BY <2>3, TwoChecks DEF RangeFault, Check
  <2>6. PICK a, z, m : a = n.offset /\ z = n.size /\ m = MaxInt
    OBVIOUS
  <2>7. ~ (a + o + l > m) /\ ~ (a + o + l > s)
    BY <1>2, <1>3, <2>1, <2>4, <2>5, <2>6
  <2> QED
    BY <2>6, <2>7, TwoChecks DEF RangeFault, Check
<1> QED
  BY <1>1, <1>4, <1>5 DEF StorageFault, Check

(* A frame of other lengths than the part's makes the part fail. *)
LEMMA FrameIsNot ==
  ASSUME TypeInv, ElementsInv, WorkInv, phase \in {"inflate", "frame"},
         Source.stored # Piece[1] \/ Source.decoded # Piece[2]
  PROVE  PartFault(Block, offset, Piece) # "none"
<1>1. phase \in Working /\ FrameAt(Block, offset) # {}
  BY DEF Working, WorkInv
<1>2. PICK d, o, q, k :
        /\ d = Block /\ o = offset /\ q = Piece /\ k = Current
        /\ k \in FrameAt(d, o) /\ d.frames[k] = Source /\ d \in Elements
  BY <1>1, WorkFacts DEF Source
<1>3. \A j \in FrameAt(d, o) : j = k
  BY <1>2, OneFrame
<1> QED
  BY <1>2, <1>3 DEF PartFault, Check

(* DecodeWhole keeps the invariant: an LZ4 part is given at once or        *)
(* refused.                                                                *)
LEMMA WholeStep ==
  ASSUME ValidatorInv, DecodeWhole
  PROVE  ValidatorInv'
<1>1. PICK s, f, fault :
        /\ s = StorageFault(nodes[at], Block, offset, Piece[1])
        /\ f = PartFault(Block, offset, Piece) /\ fault = FirstFault(<<s, f>>)
  OBVIOUS
<1>2. /\ verdict = "none" /\ phase = "decode" /\ Block.codec \in {"lz4", "lz4hc"}
      /\ file' = file /\ level' = level
      /\ \/ fault # "none" /\ Refuse(fault)
         \/ fault = "none" /\ NextPart /\ UNCHANGED <<counters, verdict, blocks>>
  BY <1>1 DEF DecodeWhole, At
<1>3. phase \in Working /\ TypeInv /\ ElementsInv /\ WorkInv
  BY <1>2 DEF Working, ValidatorInv
<1>4. CASE fault # "none" /\ Refuse(fault)
  <2>1. fault \in FaultKinds
    BY <1>1, StorageKinds, DescriptorKinds, TwoChecks
  <2>2. fault \in Kinds
    BY <1>4, <2>1 DEF FaultKinds
  <2>3. f # "none"
    BY <1>1, <1>3, <1>4, StorageHolds, TwoChecks
  <2>4. RefusedFor(fault)
    BY <1>1, <1>2, <2>3 DEF RefusedFor
  <2> QED
    BY <1>2, <1>4, <2>2, <2>4, RefuseKept
<1>5. CASE fault = "none" /\ NextPart /\ UNCHANGED <<counters, verdict, blocks>>
  <2>1. f = "none"
    BY <1>1, <1>5, TwoChecks
  <2>2. WholePart(Block, part)
    BY <1>1, <1>3, <2>1, WorkFacts DEF WholePart, WorkInv
  <2> QED
    BY <1>2, <1>3, <1>5, <2>2, NextPartKept
<1> QED
  BY <1>2, <1>4, <1>5

(* OpenPart keeps the invariant: a refusal has its reason, and a frame was *)
(* found.                                                                  *)
LEMMA OpenPartStep ==
  ASSUME ValidatorInv, OpenPart
  PROVE  ValidatorInv'
<1> DEFINE IsZstd == Block.codec = "zstd"
           Found == FrameAt(Block, offset)
           First == Check(IsZstd /\ Piece[1] = 0, "integrity")
           Second == Check(IsZstd /\ structures >= MaxStructures, "limit")
           Third == StorageFault(nodes[at], Block, offset, Piece[1])
           Fourth == Check(Found = {}, "integrity")
           Fifth == Check(IsZstd /\ Found # {} /\ History(Source) > MaxWorking,
                          "limit")
           Opens(z, f) ==
             \/ f # "none" /\ Refuse(f)
             \/ /\ f = "none"
                /\ structures' = IF z THEN structures + 1 ELSE structures
                /\ phase' = IF z THEN "frame" ELSE "inflate"
                /\ UNCHANGED <<at, part, offset, progress, decoded, images,
                               present, verified, undecoded, verdict, blocks>>
<1>0. Opens(IsZstd, FirstFault(<<First, Second, Third, Fourth, Fifth>>))
  BY DEF OpenPart
<1> HIDE DEF Opens
<1>1. PICK zstd, none, fault, c1, c2, c3, c4, c5 :
        /\ zstd <=> Block.codec = "zstd"
        /\ none <=> FrameAt(Block, offset) = {}
        /\ c1 = Check(zstd /\ Piece[1] = 0, "integrity")
        /\ c2 = Check(zstd /\ structures >= MaxStructures, "limit")
        /\ c3 = StorageFault(nodes[at], Block, offset, Piece[1])
        /\ c4 = Check(none, "integrity")
        /\ c5 = Check(zstd /\ ~none /\ History(Source) > MaxWorking, "limit")
        /\ fault = FirstFault(<<c1, c2, c3, c4, c5>>)
        /\ Opens(zstd, fault)
  BY <1>0
<1> USE DEF Opens
<1>2. /\ verdict = "none" /\ phase = "decode" /\ Block.codec \in {"zlib", "zstd"}
      /\ file' = file /\ level' = level
  BY DEF OpenPart, At
<1>3. phase \in Working /\ TypeInv /\ HeaderInv /\ ElementsInv /\ CountsInv /\ WorkInv
  BY <1>2 DEF Working, ValidatorInv
<1>4. /\ c1 # "none" => Piece[1] = 0
      /\ c2 \in {"none", "limit"} /\ (c2 = "none" => ~ (zstd /\ structures >= MaxStructures))
      /\ c4 # "none" => none
      /\ (c4 = "none" => ~ none)
      /\ c5 \in {"none", "limit"}
  BY <1>1 DEF Check
<1>5. fault = IF c1 # "none" THEN c1 ELSE IF c2 # "none" THEN c2 ELSE
             IF c3 # "none" THEN c3 ELSE IF c4 # "none" THEN c4 ELSE c5
  <2>1. fault = FirstFault(<<c1, c2, c3, c4, c5>>)
    BY <1>1
  <2> QED
    BY <2>1, FiveChecks
<1>6. CASE fault # "none" /\ Refuse(fault)
  <2>1. fault \in Kinds
    <3>1. c1 \in FaultKinds /\ c2 \in FaultKinds /\ c4 \in FaultKinds /\ c5 \in FaultKinds
      BY <1>1, CheckKinds
    <3>2. fault \in FaultKinds
      BY <1>1, <1>5, <3>1, StorageKinds
    <3> QED
      BY <1>6, <3>2 DEF FaultKinds
  <2>2. fault = "limit" \/ PartFault(Block, offset, Piece) # "none"
    <3>1. c3 = "none"
      BY <1>1, <1>3, StorageHolds
    <3>2. \/ c1 # "none"
          \/ fault = c2 /\ c2 # "none"
          \/ c4 # "none"
          \/ fault = c5 /\ c5 # "none"
      BY <1>5, <1>6, <3>1
    <3>3. PICK d, o, q : d = Block /\ o = offset /\ q = Piece
      OBVIOUS
    <3>4. \A k \in FrameAt(d, o) : d.frames[k].stored # 0
      BY <1>3, <3>3, WorkFacts DEF Frames
    <3>5. q[1] = 0 \/ FrameAt(d, o) = {} => PartFault(d, o, q) # "none"
      BY <3>4 DEF PartFault, Check
    <3> QED
      BY <1>1, <1>4, <3>2, <3>3, <3>5
  <2>3. RefusedFor(fault)
    BY <1>2, <2>2 DEF RefusedFor
  <2> QED
    BY <1>2, <1>6, <2>1, <2>3, RefuseKept
<1>7. CASE /\ fault = "none"
           /\ structures' = IF zstd THEN structures + 1 ELSE structures
           /\ phase' = IF zstd THEN "frame" ELSE "inflate"
           /\ UNCHANGED <<at, part, offset, progress, decoded, images, present,
                          verified, undecoded, verdict, blocks>>
  <2>1. /\ at' = at /\ part' = part /\ offset' = offset /\ taken' = taken /\ given' = given
        /\ decoded' = decoded /\ images' = images /\ present' = present
        /\ verified' = verified /\ undecoded' = undecoded /\ verdict' = verdict
        /\ blocks' = blocks
    BY <1>7 DEF progress
  <2>2. c2 = "none" /\ c4 = "none"
    BY <1>5, <1>7
  <2>3. structures' \in Nat /\ structures' <= MaxStructures
    <3>1. PICK s \in Nat, m \in Nat : s = structures /\ m = MaxStructures /\ s <= m
      <4>1. structures <= MaxStructures
        BY <1>2, <1>3 DEF HeaderInv
      <4> QED
        BY <1>3, <4>1, FilesAssumption DEF TypeInv
    <3>2. zstd => ~ (s >= m)
      BY <1>4, <2>2, <3>1
    <3>3. PICK t : t = structures'
      OBVIOUS
    <3>4. t = IF zstd THEN s + 1 ELSE s
      BY <1>7, <3>1, <3>3
    <3>5. t \in Nat /\ t <= m
      BY <3>1, <3>2, <3>4
    <3> QED
      BY <3>1, <3>3, <3>5
  <2>4. phase' \in {"inflate", "frame"}
    BY <1>7
  <2>5. Block' = Block
    BY <1>2, <2>1, BlockStays
  <2>6. Piece' = Piece
    BY <2>1, <2>5 DEF Piece
  <2>7. CountsInv' /\ ElementsInv'
    BY <1>2, <1>3, <2>1, <2>4, CountsKept, ElementsKept DEF Working
  <2>8. TypeInv'
    BY <1>2, <1>3, <2>1, <2>3, <2>4, FileStays DEF TypeInv, Working
  <2>9. HeaderInv'
    BY <1>2, <1>3, <2>1, <2>3, <2>4, FileStays DEF HeaderInv
  <2>10. RefusalInv'
    BY <1>2, <2>1 DEF RefusalInv
  <2>11. WorkInv'
    <3>1. FrameAt(Block, offset) # {}
      BY <1>1, <1>4, <2>2
    <3>2. /\ phase' = "inflate" => Block.codec = "zlib"
          /\ phase' = "frame" => Block.codec = "zstd"
      BY <1>1, <1>2, <1>7
    <3> QED
      BY <1>2, <1>3, <2>1, <2>5, <2>6, <3>1, <3>2 DEF WorkInv
  <2> QED
    BY <2>7, <2>8, <2>9, <2>10, <2>11 DEF ValidatorInv
<1> QED
  BY <1>1, <1>6, <1>7

-----------------------------------------------------------------------------
(* One call of a decoder. *)
LEMMA LeastOfTwo ==
  ASSUME NEW a \in Int, NEW b \in Int
  PROVE  Min({a, b}) = IF a <= b THEN a ELSE b
<1>1. CASE a <= b
  <2>1. \A y \in {a, b} : a <= y
    BY <1>1
  <2>2. \A x \in {a, b} : (\A y \in {a, b} : x <= y) => x = a
    BY <1>1
  <2> QED
    BY <1>1, <2>1, <2>2 DEF Min
<1>2. CASE b < a
  <2>1. \A y \in {a, b} : b <= y
    BY <1>2
  <2>2. \A x \in {a, b} : (\A y \in {a, b} : x <= y) => x = b
    BY <1>2
  <2> QED
    BY <1>2, <2>1, <2>2 DEF Min
<1> QED
  BY <1>1, <1>2

(* What a call takes and gives stays inside the part and the frame. *)
LEMMA CallTypes ==
  ASSUME TypeInv, ElementsInv, WorkInv, phase \in {"inflate", "frame"},
         NEW c \in Take, NEW p \in Give
  PROVE  /\ taken + c \in Nat /\ given + p \in Nat
         /\ taken + c <= Piece[1] /\ (p # 0 => given + p <= Source.decoded)
         /\ Current \in FrameAt(Block, offset) /\ Source \in Frames
         /\ Piece[1] \in Nat /\ Piece[2] \in Nat
         /\ Source.stored \in Nat /\ Source.decoded \in Nat
<1>1. phase \in Working /\ FrameAt(Block, offset) # {}
  BY DEF Working, WorkInv
<1>2. /\ Current \in FrameAt(Block, offset) /\ Source \in Frames
      /\ Piece[1] \in Nat /\ Piece[2] \in Nat
  BY <1>1, WorkFacts
<1>3. Source.stored \in Nat /\ Source.decoded \in Nat
  BY <1>2 DEF Frames
<1>4. PICK t, g, p1, p2, s, d, h :
        /\ t = taken /\ g = given /\ p1 = Piece[1] /\ p2 = Piece[2]
        /\ s = Source.stored /\ d = Source.decoded /\ h = Scratch
  OBVIOUS
<1>5. /\ t \in Nat /\ g \in Nat /\ p1 \in Nat /\ p2 \in Nat /\ s \in Nat /\ d \in Nat
      /\ h \in Nat \ {0} /\ t <= p1 /\ g <= p2
  BY <1>1, <1>2, <1>3, <1>4, FilesAssumption DEF TypeInv, WorkInv
<1>6. Readable = IF p1 <= s THEN p1 ELSE s
  BY <1>4, <1>5, LeastOfTwo DEF Readable
<1>7. c \in 0 .. ((IF p1 <= s THEN p1 ELSE s) - t)
  BY <1>4, <1>6 DEF Take
<1>8. PICK m : m = Capacity /\ m \in Int
  <2>1. p2 - g + 1 \in Int /\ h \in Int
    BY <1>5
  <2>2. Capacity = Min({p2 - g + 1, h})
    BY <1>4 DEF Capacity
  <2> QED
    BY <2>1, <2>2, LeastOfTwo
<1>9. p \in 0 .. (IF m <= d - g THEN m ELSE d - g)
  <2>1. d - g \in Int
    BY <1>5
  <2>2. Min({m, d - g}) = IF m <= d - g THEN m ELSE d - g
    BY <1>8, <2>1, LeastOfTwo
  <2> QED
    BY <1>4, <1>8, <2>2 DEF Give
<1>10. t + c \in Nat /\ t + c <= p1
  BY <1>5, <1>7
<1>11. g + p \in Nat /\ (p # 0 => g + p <= d)
  BY <1>5, <1>8, <1>9
<1> QED
  BY <1>2, <1>3, <1>4, <1>10, <1>11

(* A call that stays in its part keeps the invariant. *)
LEMMA MoveKept ==
  ASSUME ValidatorInv, verdict = "none", file' = file, level' = level, phase \in Working,
         UNCHANGED <<phase, at, part, offset, counters, verdict, blocks>>,
         taken' \in Nat, given' \in Nat, taken' <= Piece[1], given' <= Piece[2]
  PROVE  ValidatorInv'
<1>1. /\ phase' = phase /\ at' = at /\ part' = part /\ offset' = offset
      /\ structures' = structures /\ decoded' = decoded /\ images' = images
      /\ present' = present /\ verified' = verified /\ undecoded' = undecoded
      /\ verdict' = verdict /\ blocks' = blocks
  BY DEF counters
<1>2. HeaderInv' /\ ElementsInv' /\ CountsInv'
  BY <1>1, HeaderKept, ElementsKept, CountsKept DEF ValidatorInv
<1>3. TypeInv'
  BY <1>1, FileStays DEF ValidatorInv, TypeInv
<1>4. Block' = Block
  BY <1>1, BlockStays
<1>5. Piece' = Piece
  BY <1>1, <1>4 DEF Piece
<1>6. WorkInv'
  BY <1>1, <1>4, <1>5 DEF ValidatorInv, WorkInv
<1>7. RefusalInv'
  BY <1>1 DEF RefusalInv
<1> QED
  BY <1>2, <1>3, <1>6, <1>7 DEF ValidatorInv

(* A frame of exactly the part's lengths makes the part whole. *)
LEMMA FrameIsWhole ==
  ASSUME TypeInv, ElementsInv, WorkInv, phase \in {"inflate", "frame"},
         Source.stored = Piece[1], Source.decoded = Piece[2]
  PROVE  WholePart(Block, part)
<1>1. phase \in Working /\ FrameAt(Block, offset) # {}
  BY DEF Working, WorkInv
<1>2. PICK d, o, q, k :
        /\ d = Block /\ o = offset /\ q = Piece /\ k = Current
        /\ k \in FrameAt(d, o) /\ d.frames[k] = Source /\ d \in Elements
        /\ q = PartsOf(d)[part] /\ o = Before(PartsOf(d), part - 1, 1)
  BY <1>1, WorkFacts DEF Source, WorkInv
<1>3. PartFault(d, o, q) = "none"
  BY <1>2, WholePartFrame
<1> QED
  BY <1>2, <1>3 DEF WholePart

(* Inflate keeps the invariant: the stream ends where the part does, or is *)
(* refused.                                                                *)
LEMMA InflateStep ==
  ASSUME ValidatorInv, Inflate
  PROVE  ValidatorInv'
<1>1. PICK c \in Take, p \in Give :
        \/ /\ \/ given + p > Piece[2]
              \/ /\ taken + c = Source.stored /\ given + p = Source.decoded
                 /\ ~ (taken + c = Piece[1] /\ given + p = Piece[2])
              \/ c + p = 0 /\ taken = Readable /\ taken < Source.stored
           /\ Refuse("integrity")
        \/ /\ taken + c = Source.stored /\ given + p = Source.decoded
           /\ taken + c = Piece[1] /\ given + p = Piece[2]
           /\ NextPart /\ UNCHANGED <<counters, verdict, blocks>>
        \/ /\ given + p <= Piece[2]
           /\ taken' = taken + c /\ given' = given + p
           /\ UNCHANGED <<phase, at, part, offset, counters, verdict, blocks>>
  BY DEF Inflate
<1>2. verdict = "none" /\ phase = "inflate" /\ file' = file /\ level' = level
  BY DEF Inflate, At
<1>3. phase \in Working /\ TypeInv /\ ElementsInv /\ WorkInv
  BY <1>2 DEF Working, ValidatorInv
<1>4. /\ taken + c \in Nat /\ given + p \in Nat /\ taken + c <= Piece[1]
  BY <1>2, <1>3, CallTypes
<1>5. CASE /\ \/ given + p > Piece[2]
              \/ /\ taken + c = Source.stored /\ given + p = Source.decoded
                 /\ ~ (taken + c = Piece[1] /\ given + p = Piece[2])
              \/ c + p = 0 /\ taken = Readable /\ taken < Source.stored
           /\ Refuse("integrity")
  <2>1. PICK t, g, p1, p2, s, d :
          /\ t = taken /\ g = given /\ p1 = Piece[1] /\ p2 = Piece[2]
          /\ s = Source.stored /\ d = Source.decoded
          /\ t \in Nat /\ g \in Nat /\ p1 \in Nat /\ p2 \in Nat /\ s \in Nat /\ d \in Nat
          /\ g <= p2 /\ g + p \in Nat /\ (p # 0 => g + p <= d)
    BY <1>2, <1>3, CallTypes DEF TypeInv, WorkInv
  <2>2. ASSUME g + p > p2 PROVE d # p2
    <3>1. p # 0
      BY <2>1, <2>2
    <3> QED
      BY <2>1, <2>2, <3>1
  <2>3. ASSUME t = Readable, t < s PROVE s # p1
    <3>1. Readable = IF p1 <= s THEN p1 ELSE s
      BY <2>1, LeastOfTwo DEF Readable
    <3> QED
      BY <2>1, <2>3, <3>1
  <2>4. s # p1 \/ d # p2
    BY <1>5, <2>1, <2>2, <2>3
  <2>5. PartFault(Block, offset, Piece) # "none"
    BY <1>2, <1>3, <2>1, <2>4, FrameIsNot
  <2>6. RefusedFor("integrity") /\ "integrity" \in Kinds
    BY <1>2, <2>5 DEF RefusedFor, Kinds
  <2> QED
    BY <1>2, <1>5, <2>6, RefuseKept
<1>6. CASE /\ taken + c = Source.stored /\ given + p = Source.decoded
           /\ taken + c = Piece[1] /\ given + p = Piece[2]
           /\ NextPart /\ UNCHANGED <<counters, verdict, blocks>>
  <2>1. WholePart(Block, part)
    BY <1>2, <1>3, <1>6, FrameIsWhole
  <2> QED
    BY <1>2, <1>3, <1>6, <2>1, NextPartKept
<1>7. CASE /\ given + p <= Piece[2]
           /\ taken' = taken + c /\ given' = given + p
           /\ UNCHANGED <<phase, at, part, offset, counters, verdict, blocks>>
  <2>1. taken' \in Nat /\ given' \in Nat /\ taken' <= Piece[1] /\ given' <= Piece[2]
    BY <1>4, <1>7
  <2> QED
    BY <1>2, <1>3, <1>7, <2>1, MoveKept
<1> QED
  BY <1>1, <1>5, <1>6, <1>7

(* ReadFrame keeps the invariant, in the same way. *)
LEMMA ReadFrameStep ==
  ASSUME ValidatorInv, ReadFrame
  PROVE  ValidatorInv'
<1>1. verdict = "none" /\ phase = "frame" /\ file' = file /\ level' = level
  BY DEF ReadFrame, At
<1>2. phase \in Working /\ TypeInv /\ ElementsInv /\ WorkInv
  BY <1>1 DEF Working, ValidatorInv
<1>3. /\ Source.stored \in Nat /\ Source.decoded \in Nat
      /\ Piece[1] \in Nat /\ Piece[2] \in Nat
  <2>1. FrameAt(Block, offset) # {}
    BY <1>1, <1>2 DEF WorkInv
  <2>2. Source \in Frames /\ Piece \in Nat \X Nat
    BY <1>2, <2>1, WorkFacts
  <2> QED
    BY <2>2 DEF Frames
<1>4. ASSUME Source.stored # Piece[1] \/ Source.decoded # Piece[2], Refuse("integrity")
      PROVE  ValidatorInv'
  <2>1. PartFault(Block, offset, Piece) # "none"
    BY <1>1, <1>2, <1>4, FrameIsNot
  <2>2. RefusedFor("integrity") /\ "integrity" \in Kinds
    BY <1>1, <2>1 DEF RefusedFor, Kinds
  <2> QED
    BY <1>1, <1>4, <2>2, RefuseKept
<1>5. CASE Piece[1] < Source.stored /\ Refuse("integrity")
  <2>1. Source.stored # Piece[1]
    BY <1>3, <1>5
  <2> QED
    BY <1>4, <1>5, <2>1
<1>6. ASSUME NEW c \in Take, NEW p \in Give \ {0},
             \/ given + p > Piece[2] /\ Refuse("integrity")
             \/ /\ given + p <= Piece[2]
                /\ taken' = taken + c /\ given' = given + p
                /\ UNCHANGED <<phase, at, part, offset, counters, verdict, blocks>>
      PROVE  ValidatorInv'
  <2>1. /\ taken + c \in Nat /\ given + p \in Nat /\ taken + c <= Piece[1]
        /\ given + p <= Source.decoded
    BY <1>1, <1>2, CallTypes
  <2>2. CASE given + p > Piece[2] /\ Refuse("integrity")
    <3>1. Source.decoded # Piece[2]
      BY <1>3, <2>1, <2>2
    <3> QED
      BY <1>4, <2>2, <3>1
  <2>3. CASE /\ given + p <= Piece[2]
             /\ taken' = taken + c /\ given' = given + p
             /\ UNCHANGED <<phase, at, part, offset, counters, verdict, blocks>>
    <3>1. taken' \in Nat /\ given' \in Nat /\ taken' <= Piece[1] /\ given' <= Piece[2]
      BY <2>1, <2>3
    <3> QED
      BY <1>1, <1>2, <2>3, <3>1, MoveKept
  <2> QED
    BY <1>6, <2>2, <2>3
<1>7. CASE /\ given = Source.decoded /\ Source.stored <= Piece[1]
           /\ \/ /\ Source.stored # Piece[1] \/ given # Piece[2]
                 /\ Refuse("integrity")
              \/ /\ Source.stored = Piece[1] /\ given = Piece[2]
                 /\ NextPart /\ UNCHANGED <<counters, verdict, blocks>>
  <2>1. CASE /\ Source.stored # Piece[1] \/ given # Piece[2]
             /\ Refuse("integrity")
    BY <1>4, <1>7, <2>1
  <2>2. CASE /\ Source.stored = Piece[1] /\ given = Piece[2]
             /\ NextPart /\ UNCHANGED <<counters, verdict, blocks>>
    <3>1. WholePart(Block, part)
      BY <1>1, <1>2, <1>7, <2>2, FrameIsWhole
    <3> QED
      BY <1>1, <1>2, <2>2, <3>1, NextPartKept
  <2> QED
    BY <1>7, <2>1, <2>2
<1> QED
  BY <1>5, <1>6, <1>7 DEF ReadFrame

(* Finish keeps the invariant: the file is called valid after its last     *)
(* element.                                                                *)
LEMMA FinishStep ==
  ASSUME ValidatorInv, Finish
  PROVE  ValidatorInv'
<1>1. /\ verdict = "none" /\ phase = "element" /\ at = Len(nodes) + 1
      /\ file' = file /\ level' = level /\ blocks' = blocks
      /\ verdict' \in {"valid", "invalid"} /\ UNCHANGED <<place, counters>>
  BY DEF Finish, At
<1>2. /\ phase' = phase /\ at' = at /\ part' = part
      /\ offset' = offset /\ taken' = taken /\ given' = given
      /\ structures' = structures /\ decoded' = decoded /\ images' = images
      /\ present' = present /\ verified' = verified /\ undecoded' = undecoded
  BY <1>1 DEF place, progress, counters
<1>3. HeaderInv' /\ ElementsInv' /\ CountsInv' /\ WorkInv'
  BY <1>1, <1>2, HeaderKept, ElementsKept, CountsKept, WorkKept DEF ValidatorInv
<1>4. TypeInv
  BY DEF ValidatorInv
<1>5. TypeInv'
  BY <1>1, <1>2, <1>4, FileStays DEF TypeInv, Kinds
<1>6. RefusalInv'
  <2>1. at \notin DOMAIN nodes
    <3>1. PICK m \in Nat : m = Len(nodes) /\ DOMAIN nodes = 1 .. m
      BY <1>4, NodesType
    <3>2. m + 1 \notin 1 .. m
      BY <3>1
    <3> QED
      BY <1>1, <3>1, <3>2
  <2>2. verdict' = "invalid" => blocks = {}
    BY DEF Finish
  <2>3. blocks = {} => RefusedFor("invalid")
    BY <1>1, <2>1 DEF RefusedFor, Working
  <2>4. RefusedFor("invalid")' <=> RefusedFor("invalid")
    BY <1>1, RefusalStays
  <2>5. PICK v : v = verdict'
    OBVIOUS
  <2> QED
    BY <1>1, <2>2, <2>3, <2>4, <2>5 DEF RefusalInv
<1> QED
  BY <1>3, <1>5, <1>6 DEF ValidatorInv
-----------------------------------------------------------------------------
(* The loader. *)
LEMMA ImageType ==
  ASSUME TypeInv, FirstImage > 0
  PROVE  /\ FirstImage \in DOMAIN nodes /\ Shown \in Elements /\ Shown.name = "Image"
         /\ PartsOf(Shown) \in Seq(Nat \X Nat) /\ Len(PartsOf(Shown)) \in Nat \ {0}
         /\ DOMAIN PartsOf(Shown) = 1 .. Len(PartsOf(Shown))
<1> DEFINE images_ == {i \in DOMAIN nodes : nodes[i].name = "Image"}
<1>1. FirstImage = IF images_ = {} THEN 0 ELSE Min(images_)
  BY DEF FirstImage
<1>2. images_ # {}
  <2>1. ~ (0 > 0)
    OBVIOUS
  <2> QED
    BY <1>1, <2>1
<1>3. images_ \in SUBSET Nat
  BY NodesType
<1>4. Min(images_) \in images_
  <2> HIDE DEF images_
  <2>1. PICK m \in images_ : \A x \in images_ : m <= x
    BY <1>2, <1>3, LeastNumber
  <2> QED
    BY <2>1 DEF Min
<1>5. FirstImage \in DOMAIN nodes /\ Shown.name = "Image"
  BY <1>1, <1>2, <1>4 DEF Shown
<1>6. Shown \in Elements
  BY <1>5, NodesType DEF Shown
<1> QED
  BY <1>5, <1>6, PartsType

(* A part that its decoder consumes whole is read to its end, no further.  *)
LEMMA FetchedWhole ==
  ASSUME NEW length \in Nat
  PROVE  Fetched(length, length) = length
<1>1. PICK a \in Nat \ {0} : a = Ahead
  BY FilesAssumption
<1>2. PICK q : q = (length + a - 1) \div a
  OBVIOUS
<1>3. q \in Nat /\ length <= a * q
  BY <1>2
<1>4. a * q \in Int
  BY <1>3
<1>5. Fetched(length, length) = Min({length, a * q})
  BY <1>1, <1>2 DEF Fetched
<1> QED
  BY <1>3, <1>4, <1>5, LeastOfTwo

(* LoadImage keeps the loader's invariant. *)
LEMMA LoadImageStep ==
  ASSUME TypeInv, LoaderInv, LoadImage
  PROVE  LoaderInv'
<1>1. /\ loaded = "no" /\ file' = file /\ level' = level /\ piece' = piece /\ source' = source
      /\ piece = 1 /\ source = 0
      /\ \/ ~ Fits /\ loaded' = "error" /\ pixels' = pixels
         \/ Fits /\ HasCompression(Shown) /\ loaded' = "parts" /\ pixels' = pixels
         \/ Fits /\ ~ HasCompression(Shown) /\ Loaded(Shown, Stored(Shown))
  BY DEF LoadImage, Fits, Shown, LoaderInv
<1>2. Shown' = Shown /\ (Fits' <=> Fits)
  BY <1>1, ImageStays
<1>3. CASE ~ Fits /\ loaded' = "error"
  BY <1>2, <1>3 DEF LoaderInv
<1>4. CASE Fits /\ HasCompression(Shown) /\ loaded' = "parts"
  <2>1. /\ PartsOf(Shown) \in Seq(Nat \X Nat) /\ Len(PartsOf(Shown)) \in Nat \ {0}
        /\ DOMAIN PartsOf(Shown) = 1 .. Len(PartsOf(Shown))
    BY <1>4, ImageType DEF Fits
  <2>2. 1 \in DOMAIN PartsOf(Shown) /\ \A p \in DOMAIN PartsOf(Shown) : ~ (p < 1)
    BY <2>1
  <2>3. Before(PartsOf(Shown), 1 - 1, 1) = 0
    BY <2>1, BeforeDef
  <2> QED
    BY <1>1, <1>2, <1>4, <2>2, <2>3 DEF LoaderInv
<1>5. CASE Fits /\ ~ HasCompression(Shown) /\ Loaded(Shown, Stored(Shown))
  BY <1>2, <1>5 DEF LoaderInv, Loaded
<1> QED
  BY <1>1, <1>3, <1>4, <1>5

(* LoadPart keeps the loader's invariant: each part loaded is a whole      *)
(* frame.                                                                  *)
LEMMA LoadPartStep ==
  ASSUME TypeInv, LoaderInv, LoadPart
  PROVE  LoaderInv'
<1>1. PICK n, parts, frames, r, fails :
        /\ n = Shown /\ parts = PartsOf(n) /\ frames = FrameAt(n, source) /\ r = piece
        /\ fails <=> \/ frames = {} \/ PartFault(n, source, parts[r]) # "none"
                     \/ \E k \in frames : History(n.frames[k]) > MaxHistory
        /\ \/ fails /\ loaded' = "error"
           \/ /\ ~ fails
              /\ \E k \in frames :
                   source' = source + Fetched(parts[r][1], n.frames[k].stored)
              /\ piece' = r + 1
              /\ IF r < Len(parts) THEN UNCHANGED <<loaded, pixels>>
                 ELSE Loaded(n, IF n.item > 0 THEN Unshuffle(Stored(n), n.item)
                                ELSE Stored(n))
  BY DEF LoadPart, Shown, PartsOf
<1>2. /\ loaded = "parts" /\ file' = file /\ level' = level
      /\ Fits /\ HasCompression(n) /\ r \in DOMAIN parts
      /\ source = Before(parts, r - 1, 1)
      /\ \A p \in DOMAIN parts : p < r => Loads(p)
  BY <1>1 DEF LoadPart, LoaderInv
<1>3. PICK L \in Nat \ {0} :
        /\ L = Len(parts) /\ DOMAIN parts = 1 .. L /\ parts \in Seq(Nat \X Nat)
        /\ n \in Elements
  BY <1>1, <1>2, ImageType DEF Fits
<1>4. r \in 1 .. L /\ r \in Nat /\ r + 1 - 1 = r
  BY <1>2, <1>3
<1>5. Loads(r) <=> ~ fails
  BY <1>1, <1>2 DEF Loads, WholePart
<1>6. Shown' = n /\ (Fits' <=> Fits) /\ \A p : Loads(p)' <=> Loads(p)
  BY <1>1, <1>2, ImageStays
<1>7. CASE fails /\ loaded' = "error"
  <2>1. \E p \in DOMAIN PartsOf(n) : ~ Loads(p)
    BY <1>1, <1>2, <1>5, <1>7
  <2> QED
    BY <1>2, <1>6, <1>7, <2>1 DEF LoaderInv
<1>8. CASE /\ ~ fails
           /\ \E k \in frames :
                source' = source + Fetched(parts[r][1], n.frames[k].stored)
           /\ piece' = r + 1
           /\ IF r < Len(parts) THEN UNCHANGED <<loaded, pixels>>
              ELSE Loaded(n, IF n.item > 0 THEN Unshuffle(Stored(n), n.item)
                             ELSE Stored(n))
  <2>1. source' = Before(parts, r, 1)
    <3>1. PICK k \in frames :
            source' = source + Fetched(parts[r][1], n.frames[k].stored)
      BY <1>8
    <3>2. PICK j \in frames : n.frames[j].stored = parts[r][1]
      <4>1. PICK o, q : o = source /\ q = parts[r]
        OBVIOUS
      <4>2. PartFault(n, o, q) = "none"
        BY <1>1, <1>8, <4>1
      <4>3. \E j \in FrameAt(n, o) : n.frames[j].stored = q[1]
        BY <1>1, <1>3, <4>2, WholePartFrame
      <4> QED
        BY <1>1, <4>1, <4>3
    <3>3. j = k
      BY <1>1, <1>3, <3>1, <3>2, OneFrame
    <3>4. parts[r] \in Nat \X Nat
      BY <1>3, <1>4
    <3>5. Fetched(parts[r][1], parts[r][1]) = parts[r][1]
      BY <3>4, FetchedWhole
    <3>6. source' = source + parts[r][1]
      BY <3>1, <3>2, <3>3, <3>5
    <3>7. Before(parts, r, 1) = Before(parts, r - 1, 1) + parts[r][1]
      BY <1>3, <1>4, BeforeDef
    <3> QED
      BY <1>2, <3>6, <3>7
  <2>2. \A p \in 1 .. L : p < r + 1 => Loads(p)
    <3>1. Loads(r)
      BY <1>5, <1>8
    <3>2. \A p \in 1 .. L : p < r + 1 => p < r \/ p = r
      BY <1>4
    <3> QED
      BY <1>2, <1>3, <3>1, <3>2
  <2>3. CASE r < Len(parts)
    <3>1. r + 1 \in 1 .. L
      BY <1>3, <1>4, <2>3
    <3>2. /\ loaded' = "parts" /\ Fits' /\ HasCompression(n)
          /\ piece' = r + 1 /\ piece' \in DOMAIN PartsOf(n)
          /\ source' = Before(PartsOf(n), (r + 1) - 1, 1)
          /\ \A p \in DOMAIN PartsOf(n) : p < r + 1 => Loads(p)
      BY <1>1, <1>2, <1>3, <1>4, <1>6, <1>8, <2>1, <2>2, <2>3, <3>1, SMTT(40)
    <3> QED
      BY <1>6, <3>2 DEF LoaderInv
  <2>4. CASE ~ (r < Len(parts))
    <3>1. r = L
      BY <1>3, <1>4, <2>4
    <3>2. \A p \in DOMAIN PartsOf(n) : Loads(p)
      <4>1. \A p \in 1 .. L : p < r + 1
        BY <1>4, <3>1
      <4> QED
        BY <1>1, <1>3, <2>2, <4>1
    <3>3. /\ loaded' = "ok"
          /\ pixels' = Decoded(n, IF HasCompression(n) /\ n.item > 0
                                  THEN Unshuffle(Stored(n), n.item) ELSE Stored(n))
      BY <1>2, <1>8, <2>4 DEF Loaded
    <3> QED
      BY <1>2, <1>6, <3>2, <3>3 DEF LoaderInv
  <2> QED
    BY <2>3, <2>4
<1> QED
  BY <1>1, <1>7, <1>8

-----------------------------------------------------------------------------
(* The inductive invariant. *)
LEMMA InitIInv == Init => IInv
<1> SUFFICES ASSUME Init PROVE IInv
  OBVIOUS
<1>1. /\ file \in Files /\ level \in {"structural", "full"} /\ phase = "open" /\ at = 1
      /\ part = 1 /\ offset = 0 /\ taken = 0 /\ given = 0 /\ structures = Len(nodes)
      /\ decoded = 0 /\ images = 0 /\ present = 0 /\ verified = 0 /\ undecoded = {}
      /\ verdict = "none" /\ blocks = {} /\ loaded = "no" /\ piece = 1 /\ source = 0
  BY DEF Init, nodes
<1>2. /\ nodes \in Seq(Elements)
  BY <1>1, FilesAssumption DEF nodes
<1>3. PICK L \in Nat : L = Len(nodes) /\ DOMAIN nodes = 1 .. L
  BY <1>2
<1>4. TypeInv
  <2>1. 1 \in 1 .. (L + 1)
    BY <1>3
  <2> QED
    BY <1>1, <1>3, <2>1 DEF TypeInv, Working
<1>5. HeaderInv /\ WorkInv /\ RefusalInv
  BY <1>1 DEF HeaderInv, WorkInv, RefusalInv, Working
<1>6. ElementsInv
  <2>1. \A i \in 1 .. L : ~ (i < 1)
    BY <1>3
  <2> QED
    BY <1>1, <1>3, <2>1 DEF ElementsInv
<1>7. CountsInv
  <2>1. Summed({}) = {} /\ Cardinality({}) = 0
    BY FS_EmptySet DEF Summed
  <2>2. Total(Lengths({})) = 0
    <3>1. Lengths({}) \in [{} -> Nat]
      BY DEF Lengths
    <3> QED
      BY <3>1, TotalZero
  <2>3. MaxDecoded \in Nat /\ 0 <= MaxDecoded
    BY FilesAssumption
  <2> QED
    BY <1>1, <2>1, <2>2, <2>3 DEF CountsInv
<1>8. LoaderInv
  BY <1>1 DEF LoaderInv
<1> QED
  BY <1>4, <1>5, <1>6, <1>7, <1>8 DEF IInv, ValidatorInv

(* Every step keeps the invariant. *)
LEMMA NextIInv == IInv /\ [Next]_vars => IInv'
<1> SUFFICES ASSUME IInv, [Next]_vars PROVE IInv'
  OBVIOUS
<1>1. ValidatorInv /\ LoaderInv /\ TypeInv
  BY DEF IInv, ValidatorInv
<1>2. CASE OpenContainer \/ CheckUids \/ PassElement \/ CheckBlock
             \/ DecodeWhole \/ OpenPart \/ Inflate \/ ReadFrame \/ Finish
  <2>1. ValidatorInv'
    BY <1>1, <1>2, OpenStep, UidsStep, PassStep, CheckStep, WholeStep, OpenPartStep,
       InflateStep, ReadFrameStep, FinishStep
  <2>2. file' = file /\ level' = level /\ UNCHANGED loading
    BY <1>2 DEF OpenContainer, CheckUids, PassElement, CheckBlock, DecodeWhole,
                OpenPart, Inflate, ReadFrame, Finish
  <2>3. LoaderInv'
    BY <1>1, <2>2, LoaderKept
  <2> QED
    BY <2>1, <2>3 DEF IInv
<1>3. CASE LoadImage \/ LoadPart
  <2>1. LoaderInv'
    BY <1>1, <1>3, LoadImageStep, LoadPartStep
  <2>2. UNCHANGED <<file, level, place, counters, verdict, blocks>>
    BY <1>3 DEF LoadImage, LoadPart
  <2>3. ValidatorInv'
    BY <1>1, <2>2, ValidatorKept
  <2> QED
    BY <2>1, <2>3 DEF IInv
<1>4. CASE UNCHANGED vars
  <2>1. UNCHANGED <<file, level, place, counters, verdict, blocks, loading>>
    BY <1>4 DEF vars, place, progress, counters, loading
  <2>2. ValidatorInv'
    BY <1>1, <2>1, ValidatorKept
  <2>3. LoaderInv'
    BY <1>1, <2>1, LoaderKept
  <2> QED
    BY <2>2, <2>3 DEF IInv
<1> QED
  BY <1>2, <1>3, <1>4 DEF Next

(* Every variable keeps its type, what was passed was checked, the parts   *)
(* are gone through without a gap, and a refusal has a reason: what the    *)
(* loops of validate, decode and load_xisf may rely on at each turn.       *)
THEOREM Invariant == Spec => []IInv
BY InitIInv, NextIInv, PTL DEF Spec
-----------------------------------------------------------------------------
(* What has been decoded was admitted before, the parts lie in the block   *)
(* one after the other, and no decoder passes the end of its part.         *)
LEMMA AdmittedFromIInv == IInv => WorkIsAdmitted
<1> SUFFICES ASSUME IInv PROVE WorkIsAdmitted
  OBVIOUS
<1>1. TypeInv /\ HeaderInv /\ ElementsInv /\ CountsInv /\ WorkInv
  BY DEF IInv, ValidatorInv
<1>2. decoded <= MaxDecoded
  BY <1>1 DEF CountsInv
<1>3. phase # "open" => structures <= MaxStructures
  BY <1>1 DEF HeaderInv
<1>4. ASSUME phase \in Working
      PROVE  /\ taken <= PartsOf(Block)[part][1] /\ given <= PartsOf(Block)[part][2]
             /\ offset + PartsOf(Block)[part][1] <= Block.size
             /\ part = Len(PartsOf(Block)) =>
                  offset + PartsOf(Block)[part][1] = Block.size
  BY <1>1, <1>4, WorkFacts DEF WorkInv
<1>5. ASSUME phase \in Working
      PROVE  Before(PartsOf(Block), part, 2) + Total(Lengths({b \in blocks : b < at}))
               <= decoded
  <2>1. PICK done : done = {b \in blocks : b < at}
    OBVIOUS
  <2>2. at \in blocks /\ at \in Nat /\ ~ (at < at)
    <3>1. at \in Nat
      BY <1>1, <1>5, WorkFacts, NodesType
    <3> QED
      BY <1>1, <1>5, <3>1 DEF WorkInv
  <2>3. blocks = done \cup {at} /\ at \notin done
    BY <1>1, <2>1, <2>2 DEF ElementsInv
  <2>4. /\ IsFiniteSet(blocks) /\ Lengths(blocks) \in [blocks -> Nat]
        /\ IsFiniteSet(done) /\ done \subseteq blocks
    <3>1. IsFiniteSet(blocks) /\ Lengths(blocks) \in [blocks -> Nat]
      BY <1>1, BlocksFinite
    <3> QED
      BY <2>3, <3>1, FS_Subset
  <2>5. /\ Lengths(done) \in [done -> Nat]
        /\ \A b \in done : Lengths(blocks)[b] = Lengths(done)[b]
    BY <2>4 DEF Lengths
  <2>6. Total(Lengths(blocks)) = Total(Lengths(done)) + Lengths(blocks)[at]
    BY <2>3, <2>4, <2>5, TotalExtends
  <2>7. Total(Lengths(done)) \in Nat
    BY <2>4, <2>5, TotalType
  <2>8. Lengths(blocks)[at] = Block.decoded
    <3>1. Block = Described(at) /\ HasCompression(Block)
      BY <1>1, <1>5, WorkFacts
    <3> QED
      BY <2>2, <3>1 DEF Lengths, BlockLength
  <2>9. /\ Before(PartsOf(Block), part, 2) \in Nat
        /\ Before(PartsOf(Block), part, 2) <= Block.decoded /\ Block.decoded \in Nat
    <3>1. PICK d, L, r :
            /\ d = Block /\ L = Len(PartsOf(Block)) /\ r = part
            /\ L \in Nat /\ r \in 1 .. L /\ PartsOf(d) \in Seq(Nat \X Nat) /\ d \in Elements
            /\ HasCompression(d) /\ CompressionFault(d, d.size) = "none"
      BY <1>1, <1>5, WorkFacts DEF Checked
    <3>2. PartTotal(PartsOf(d), 2) = d.decoded
      BY <3>1, SoundParts
    <3>3. r \in 0 .. L
      BY <3>1
    <3>4. Before(PartsOf(d), r, 2) \in Nat /\ Before(PartsOf(d), r, 2) <= d.decoded
      BY <3>1, <3>2, <3>3, BeforeDef
    <3>5. d.decoded \in Nat
      BY <3>1 DEF Elements
    <3> QED
      BY <3>1, <3>4, <3>5
  <2>10. decoded = Total(Lengths(done)) + Block.decoded
    BY <1>1, <2>6, <2>8 DEF CountsInv
  <2> QED
    BY <2>1, <2>7, <2>9, <2>10
<1> QED
  <2>1. /\ Block = nodes[Description(at)]
        /\ PartsOf(Block) = Parts(Block, Block.size)
        /\ \A S : Lengths(S) = [b \in S |-> BlockLength(nodes[Description(b)])]
    BY DEF Block, PartsOf, Lengths, Described
  <2>2. Lengths({b \in blocks : b < at})
          = [b \in {c \in blocks : c < at} |-> BlockLength(nodes[Description(b)])]
    BY <2>1
  <2> QED
    BY <1>2, <1>3, <1>4, <1>5, <2>1, <2>2 DEF WorkIsAdmitted, Working

(* What decoders give was admitted by the checked sums of validate before  *)
(* they started, and stays inside the part they decode (decode of          *)
(* validation/xisf.rs, streaming.rs and codec.rs).                         *)
THEOREM Admitted == Spec => []WorkIsAdmitted
BY Invariant, AdmittedFromIInv, PTL

-----------------------------------------------------------------------------
(* A valid file has been looked at entirely. *)
LEMMA ValidPassed ==
  ASSUME IInv, verdict = "valid"
  PROVE  /\ \A i \in DOMAIN nodes : Passed(i)
         /\ blocks \subseteq DOMAIN nodes
         /\ \A b \in blocks : Checked(b) /\ DecodedWhole(b)
         /\ \A i, j \in Identified :
              nodes[i].name # "Reference" /\ (nodes[i].uid = nodes[j].uid => i = j)
         /\ EnvelopeFault(file) = "none"
         /\ \A k \in DOMAIN nodes : IsImage(nodes[k]) => DescriptorFault(nodes[k]) = "none"
<1>1. TypeInv /\ HeaderInv /\ ElementsInv
  BY DEF IInv, ValidatorInv
<1>2. phase = "element" /\ at = Len(nodes) + 1
  BY <1>1 DEF TypeInv
<1>3. \A i \in DOMAIN nodes : i < at
  <2>1. PICK m \in Nat : m = Len(nodes) /\ DOMAIN nodes = 1 .. m
    BY <1>1, NodesType
  <2>2. \A i \in 1 .. m : i < m + 1
    OBVIOUS
  <2> QED
    BY <1>2, <2>1, <2>2
<1>4. phase \notin Working
  BY <1>2 DEF Working
<1> QED
  BY <1>1, <1>2, <1>3, <1>4 DEF ElementsInv, HeaderInv

(* Whatever an element carries belongs to a block. *)
LEMMA DescriptionsUsed ==
  ASSUME IInv, verdict = "valid", NEW i \in DOMAIN nodes, nodes[i].name # "Reference",
         HasDescriptor(nodes[i])
  PROVE  \E b \in blocks : Description(b) = i
<1>1. TypeInv
  BY DEF IInv, ValidatorInv
<1>2. /\ \A k \in DOMAIN nodes : Passed(k)
      /\ \A b \in blocks : Checked(b)
  BY ValidPassed
<1>3. RoleFault(i) = "none" /\ (nodes[i].form # "none" => i \in blocks)
  BY <1>2 DEF Passed
<1>4. CASE nodes[i].form # "none"
  <2>1. i \in blocks /\ PlaceFault(i) = "none"
    BY <1>2, <1>3, <1>4 DEF Checked
  <2>2. nodes[i].form # "embedded"
    BY <1>1, <1>4, <2>1, DescriptionSound
  <2>3. Description(i) = i
    BY <2>2 DEF Description
  <2> QED
    BY <2>1, <2>3
<1>5. CASE nodes[i].form = "none"
  <2>1. nodes[i].name = "Data"
    BY <1>3, <1>5, RoleSound
  <2>2. PICK p : p = nodes[i].parent /\ p # 0 /\ nodes[p].form = "embedded"
    BY <1>3, <2>1, RoleSound
  <2>3. p \in DOMAIN nodes
    <3>1. PICK m \in Nat : DOMAIN nodes = 1 .. m
      BY <1>1, NodesType
    <3>2. p \in Nat /\ p < i /\ i \in 1 .. m
      BY <1>1, <2>2, <3>1, NodesType
    <3> QED
      BY <2>2, <3>1, <3>2
  <2>4. nodes[p].name # "Reference"
    <3>1. ASSUME nodes[p].name = "Reference" PROVE FALSE
      <4>1. ReferenceFault(p) = "none"
        BY <1>2, <2>3, <3>1 DEF Passed
      <4>2. Check(nodes[p].form # "none" \/ Children(p) # {}, "invalid") = "none"
        BY <4>1, TwoChecks DEF ReferenceFault
      <4> QED
        BY <2>2, <4>2 DEF Check
    <3> QED
      BY <3>1
  <2>5. p \in blocks /\ PlaceFault(p) = "none"
    BY <1>2, <2>2, <2>3, <2>4 DEF Passed, Checked
  <2>6. DataChildren(p) = {Description(p)}
    BY <1>1, <2>2, <2>3, <2>5, DescriptionSound
  <2>7. i \in DataChildren(p)
    BY <2>1, <2>2 DEF DataChildren, Children
  <2> QED
    BY <2>5, <2>6, <2>7
<1> QED
  BY <1>4, <1>5

(* In a valid file every reference is to exactly one element. *)
LEMMA ReferencesResolved ==
  ASSUME IInv, verdict = "valid", NEW i \in DOMAIN nodes, nodes[i].name = "Reference"
  PROVE  Cardinality({k \in DOMAIN nodes : /\ nodes[k].name # "Reference"
                                           /\ nodes[k].uid = nodes[i].ref}) = 1
<1>1. ReferenceFault(i) = "none"
  BY ValidPassed DEF Passed
<1>2. Check(nodes[i].ref \notin {nodes[k].uid : k \in Identified}, "invalid") = "none"
  BY <1>1, TwoChecks DEF ReferenceFault
<1>3. PICK t \in Identified : nodes[t].uid = nodes[i].ref
  BY <1>2 DEF Check
<1>4. {k \in DOMAIN nodes : nodes[k].name # "Reference" /\ nodes[k].uid = nodes[i].ref} = {t}
  BY <1>3, ValidPassed DEF Identified
<1> QED
  BY <1>4, FS_Singleton

(* The invariant implies the property: where an element was passed, its    *)
(* role says where its descriptors belong.                                 *)
LEMMA IgnoredFromIInv == IInv => NothingIsIgnored
<1> SUFFICES ASSUME IInv, verdict = "valid" PROVE NothingIsIgnored
  BY DEF NothingIsIgnored
<1> DEFINE referable == {k \in DOMAIN nodes : nodes[k].name # "Reference"}
           references == DOMAIN nodes \ referable
           described == {i \in referable : HasDescriptor(nodes[i])}
           sums == {i \in described : nodes[i].checksum # "none"}
<1>1. TypeInv /\ ElementsInv /\ CountsInv
  BY DEF IInv, ValidatorInv
<1>2. \A b \in blocks : Checked(b) /\ DecodedWhole(b)
  BY ValidPassed
<1>3. \A i \in described : \E b \in blocks : Description(b) = i
  BY DescriptionsUsed
<1>4. \A b \in blocks : Description(b) \in referable
  <2>1. ASSUME NEW b \in blocks PROVE Description(b) \in referable
    <3>1. /\ b \in DOMAIN nodes /\ nodes[b].name # "Reference" /\ nodes[b].form # "none"
          /\ PlaceFault(b) = "none"
      BY <1>2 DEF Checked
    <3>2. /\ Description(b) \in DOMAIN nodes
          /\ nodes[b].form = "embedded" => Description(b) \in DataChildren(b)
          /\ nodes[b].form # "embedded" => Description(b) = b
      BY <1>1, <3>1, DescriptionSound
    <3> QED
      BY <3>1, <3>2 DEF DataChildren
  <2> QED
    BY <2>1
<1>5. \A a, b \in blocks : Description(a) = Description(b) => a = b
  BY <1>1, <1>2, OneBlock
<1>6. \A i \in references :
        Cardinality({k \in referable : nodes[k].uid = nodes[i].ref}) = 1
  <2>1. ASSUME NEW i \in references
        PROVE  Cardinality({k \in referable : nodes[k].uid = nodes[i].ref}) = 1
    <3>1. {k \in referable : nodes[k].uid = nodes[i].ref}
            = {k \in DOMAIN nodes : /\ nodes[k].name # "Reference"
                                    /\ nodes[k].uid = nodes[i].ref}
      OBVIOUS
    <3> QED
      BY <3>1, ReferencesResolved
  <2> QED
    BY <2>1
<1>7. \A i \in described : Cardinality({b \in blocks : Description(b) = i}) = 1
  <2>1. ASSUME NEW i \in described
        PROVE  Cardinality({b \in blocks : Description(b) = i}) = 1
    <3>1. PICK b \in blocks : Description(b) = i
      BY <1>3
    <3>2. {c \in blocks : Description(c) = i} = {b}
      BY <1>5, <3>1
    <3> QED
      BY <3>2, FS_Singleton
  <2> QED
    BY <2>1
<1>8. present = Cardinality(sums)
  <2>1. PICK S, T, f : S = Summed(blocks) /\ T = sums /\ f = [b \in S |-> Description(b)]
    OBVIOUS
  <2>2. \A b \in S : b \in blocks /\ f[b] = Description(b) /\ f[b] \in T
    BY <1>4, <2>1 DEF Summed, Described, HasDescriptor
  <2>3. \A i \in T : \E b \in S : f[b] = i
    BY <1>3, <2>1 DEF Summed, Described
  <2>4. f \in Bijection(S, T)
    <3>1. f \in [S -> T]
      BY <2>1, <2>2
    <3>2. \A a, b \in S : f[a] = f[b] => a = b
      BY <1>5, <2>2
    <3> QED
      BY <2>3, <3>1, <3>2, Fun_IsBij
  <2>5. IsFiniteSet(S)
    BY <1>1, <2>1, BlocksFinite
  <2>6. Cardinality(S) = Cardinality(T)
    BY <2>4, <2>5, FS_Bijection DEF ExistsBijection
  <2> QED
    BY <1>1, <2>1, <2>6 DEF CountsInv
<1>9. ASSUME level = "full"
      PROVE  /\ verified = present /\ \A i \in sums : nodes[i].checksum = "good"
             /\ \A i \in described : HasCompression(nodes[i]) =>
                  \A p \in DOMAIN PartsOf(nodes[i]) : WholePart(nodes[i], p)
  <2>1. verified = present
    BY <1>1, <1>9 DEF CountsInv
  <2>2. \A i \in sums : nodes[i].checksum = "good"
    BY <1>2, <1>3, <1>9 DEF Checked, Described
  <2>3. \A i \in described : HasCompression(nodes[i]) =>
          \A p \in DOMAIN PartsOf(nodes[i]) : WholePart(nodes[i], p)
    BY <1>2, <1>3, <1>9 DEF DecodedWhole, Described
  <2> QED
    BY <2>1, <2>2, <2>3
<1>10. ASSUME level # "full"
       PROVE  verified = 0 /\ undecoded = {nodes[i].codec : i \in described} \ {"none"}
  <2>1. level = "structural"
    BY <1>1, <1>10 DEF TypeInv
  <2>2. verified = 0 /\ undecoded = {Described(b).codec : b \in blocks} \ {"none"}
    BY <1>1, <2>1 DEF CountsInv
  <2>3. \A b \in blocks : Described(b).codec # "none" =>
          Description(b) \in described /\ Described(b).codec = nodes[Description(b)].codec
    BY <1>4 DEF Described, HasDescriptor, HasCompression
  <2>4. \A i \in described : \E b \in blocks : Described(b).codec = nodes[i].codec
    BY <1>3 DEF Described
  <2> QED
    BY <2>2, <2>3, <2>4
<1> QED
  BY <1>6, <1>7, <1>8, <1>9, <1>10 DEF NothingIsIgnored, PartsOf, WholePart

(* In a file that validate calls valid, every descriptor belongs to one    *)
(* block that was checked, references are resolved, and each decoded part  *)
(* is one frame with nothing after it.                                     *)
THEOREM NothingIgnored == Spec => []NothingIsIgnored
BY Invariant, IgnoredFromIInv, PTL
-----------------------------------------------------------------------------
(* The validator and the loader.  The checks of an image of the kind that  *)
(* the loader supports are those the loader makes itself.                  *)
LEMMA CapableSound ==
  ASSUME TypeInv, FirstImage > 0, Capable(Shown)
  PROVE  /\ Shown \in Elements /\ Shown.name = "Image" /\ Shown.form = "attachment"
         /\ Shown = Described(FirstImage) /\ Shown = nodes[FirstImage]
         /\ LayoutFault(Shown) = "none" /\ Shown.order \in {"none", "little", "big"}
         /\ SampleSize(Shown) = 2 /\ Expected(Shown) = BlockLength(Shown)
         /\ CompressionFault(Shown, Shown.size) = "none"
         /\ HasCompression(Shown) => Shown.codec = "zstd" /\ Shown.item \in {-1, 2}
         /\ RoleFault(FirstImage) = "none" /\ PlaceFault(FirstImage) = "none"
<1>1. Shown \in Elements /\ Shown.name = "Image" /\ Shown = nodes[FirstImage]
  BY ImageType DEF Shown
<1>2. /\ DescriptorFault(Shown) = "none" /\ LayoutFault(Shown) = "none"
      /\ Shown.form = "attachment" /\ Shown.format = "UInt16"
      /\ Shown.offset >= XmlEnd(file)
      /\ RangeFault(Shown.offset, Shown.size, file.size) = "none"
      /\ CompressionFault(Shown, Shown.size) = "none"
      /\ HasCompression(Shown) => /\ Shown.codec = "zstd" /\ Shown.item \in {-1, 2}
                                  /\ Shown.decoded = ImageBytes(Shown)
      /\ ~ HasCompression(Shown) => Shown.size = ImageBytes(Shown)
  BY DEF Capable, Decodable
<1>3. Shown = Described(FirstImage)
  BY <1>1, <1>2 DEF Described, Description
<1>4. Shown.order \in {"none", "little", "big"}
  <2>1. Check(Shown.order \notin {"none", "little", "big"}, "invalid") = "none"
    BY <1>2, ThreeChecks DEF DescriptorFault
  <2> QED
    BY <2>1 DEF Check
<1>5. SampleSize(Shown) = 2
  BY <1>2 DEF SampleSize, SampleSizes
<1>6. IsImage(Shown) /\ Expected(Shown) = ImageBytes(Shown)
  BY <1>1 DEF Expected, IsImage
<1>7. Expected(Shown) = BlockLength(Shown)
  BY <1>2, <1>6 DEF BlockLength
<1>8. RoleFault(FirstImage) = "none"
  <2> DEFINE n == nodes[FirstImage]
             c1 == Check(IsImage(n) /\ LayoutFault(n) # "none", LayoutFault(n))
             c2 == Check(/\ n.name = "Data"
                         /\ n.form # "none" \/ n.parent = 0
                              \/ nodes[n.parent].form # "embedded", "invalid")
             c3 == Check(n.form = "none" /\ n.name # "Data" /\ HasDescriptor(n), "invalid")
  <2>1. RoleFault(FirstImage) = FirstFault(<<c1, c2, c3>>)
    BY DEF RoleFault
  <2>2. c1 = "none" /\ c2 = "none" /\ c3 = "none"
    BY <1>1, <1>2 DEF Check
  <2> HIDE DEF c1, c2, c3
  <2> QED
    BY <2>1, <2>2, ThreeChecks
<1>9. PlaceFault(FirstImage) = "none"
  <2>1. PlaceFault(FirstImage) =
          FirstFault(<<Check(Shown.offset < XmlEnd(file), "invalid"),
                       RangeFault(Shown.offset, Shown.size, file.size)>>)
    BY <1>1, <1>2 DEF PlaceFault
  <2>2. Check(Shown.offset < XmlEnd(file), "invalid") = "none"
    <3>1. Shown.offset \in Nat
      BY <1>1 DEF Elements
    <3>2. XmlEnd(file) \in Nat
      <4>1. PrefixLen \in Nat /\ file.xmlLen \in Nat
        BY FilesAssumption, DescriptorAssumption DEF TypeInv
      <4> QED
        BY <4>1 DEF XmlEnd
    <3>3. ~ (Shown.offset < XmlEnd(file))
      BY <1>2, <3>1, <3>2
    <3> QED
      BY <3>3 DEF Check
  <2> QED
    BY <1>2, <2>1, <2>2, TwoChecks
<1> QED
  BY <1>1, <1>2, <1>3, <1>4, <1>5, <1>7, <1>8, <1>9

(* Where the loader is capable of an image, the validator's checks of its  *)
(* block fail for a limit, a sum beyond 64 bits or a checksum only.        *)
LEMMA CapableRefused ==
  ASSUME TypeInv, FirstImage > 0, Capable(Shown)
  PROVE  \/ BlockFault(Shown, Shown) \in {"none", "limit"}
         \/ decoded + BlockLength(Shown) > MaxInt
         \/ ChecksumFault(Shown) # "none"
<1> DEFINE n == Shown
           d == Shown
           c1 == Check(structures + 1 + Len(d.subblocks) > MaxStructures, "limit")
           c2 == CompressionFault(d, d.size)
           c3 == Check(IsImage(n) /\ HasCompression(d) /\ d.item > 0
                         /\ d.item # SampleSize(n), "invalid")
           c4 == ExpectedFault(n)
           c5 == Check(Expected(n) \notin {-1, BlockLength(d)}, "invalid")
           c6 == Check(n.order \notin {"none", "little", "big"}, "invalid")
           c7 == Check(decoded + BlockLength(d) > MaxInt, "invalid")
           c8 == Check(decoded + BlockLength(d) > MaxDecoded, "limit")
           c9 == ChecksumFault(d)
           c10 == Check(/\ level = "full" /\ HasCompression(d)
                        /\ d.codec \notin {"zlib", "lz4", "lz4hc", "zstd"}, "unsupported")
<1>1. BlockFault(n, d) = FirstFault(<<c1, c2, c3, c4, c5, c6, c7, c8, c9, c10>>)
  BY DEF BlockFault
<1>2. c1 \in {"none", "limit"} /\ c8 \in {"none", "limit"}
  BY DEF Check
<1>3. c2 = "none" /\ c5 = "none" /\ c6 = "none"
  BY CapableSound DEF Check
<1>4. c3 = "none"
  <2>1. HasCompression(d) => d.item \in {-1, 2}
    BY CapableSound
  <2>2. \A item \in {-1, 2} : item > 0 => item = 2
    OBVIOUS
  <2>3. ~ (IsImage(n) /\ HasCompression(d) /\ d.item > 0 /\ d.item # SampleSize(n))
    BY <2>1, <2>2, CapableSound
  <2> QED
    BY <2>3 DEF Check
<1>5. c4 = "none"
  BY CapableSound DEF ExpectedFault, IsImage
<1>6. c7 = "none" \/ decoded + BlockLength(d) > MaxInt
  BY DEF Check
<1>7. c9 = ChecksumFault(Shown)
  OBVIOUS
<1>8. c10 = "none"
  BY CapableSound DEF Check
<1> HIDE DEF c1, c2, c3, c4, c5, c6, c7, c8, c9, c10
<1> QED
  <2>1. FirstFault(<<c1, c2, c3, c4, c5, c6, c7, c8, c9, c10>>) =
          IF c1 # "none" THEN c1 ELSE IF c2 # "none" THEN c2 ELSE
          IF c3 # "none" THEN c3 ELSE IF c4 # "none" THEN c4 ELSE
          IF c5 # "none" THEN c5 ELSE IF c6 # "none" THEN c6 ELSE
          IF c7 # "none" THEN c7 ELSE IF c8 # "none" THEN c8 ELSE
          IF c9 # "none" THEN c9 ELSE c10
    BY TenChecks
  <2> QED
    BY <1>1, <1>2, <1>3, <1>4, <1>5, <1>6, <1>7, <1>8, <2>1

(* Where an image has been shown, what the file is refused for is nothing  *)
(* that the loader looks at.                                               *)
LEMMA ShownRefused ==
  ASSUME IInv, loaded = "ok", verdict \notin {"none", "valid", "limit"}
  PROVE  UnseenByLoader
<1>1. TypeInv /\ ElementsInv /\ WorkInv /\ RefusedFor(verdict)
  BY DEF IInv, ValidatorInv, RefusalInv
<1>2. /\ HeaderReadable /\ FirstImage > 0 /\ Capable(Shown)
      /\ HasCompression(Shown) => \A p \in DOMAIN PartsOf(Shown) : Loads(p)
  BY DEF IInv, LoaderInv, Fits, Shown
<1>3. /\ FirstImage \in DOMAIN nodes /\ nodes[FirstImage] = Shown
      /\ Shown = Described(FirstImage) /\ Shown.name = "Image"
      /\ Shown.form = "attachment" /\ RoleFault(FirstImage) = "none"
      /\ PlaceFault(FirstImage) = "none"
  BY <1>1, <1>2, ImageType, CapableSound
<1>4. phase = "open" =>
        \E k \in DOMAIN nodes \ {FirstImage} :
          IsImage(nodes[k]) /\ DescriptorFault(nodes[k]) # "none"
  BY <1>1, <1>2, <1>3 DEF RefusedFor, HeaderReadable, Capable
<1>5. phase = "uids" => IdentifiersClash
  BY <1>1 DEF RefusedFor
<1>6. ASSUME phase = "element", at = FirstImage
      PROVE  \/ ChecksumFault(nodes[at]) # "none"
             \/ decoded + BlockLength(nodes[at]) > MaxInt
  <2>1. ElementFails(verdict)
    BY <1>1, <1>3, <1>6 DEF RefusedFor
  <2>2. Block = Shown
    BY <1>3, <1>6, BlockIs
  <2>3. verdict = BlockFault(Shown, Shown)
    BY <1>3, <1>6, <2>1, <2>2 DEF ElementFails
  <2> QED
    BY <1>1, <1>2, <1>3, <1>6, <2>3, CapableRefused
<1>7. ASSUME phase = "element", at # FirstImage
      PROVE  at \in DOMAIN nodes /\ ElementFails(verdict)
  <2>1. ASSUME at \notin DOMAIN nodes PROVE FALSE
    <3>1. PICK m, a, f : /\ m = Len(nodes) /\ m \in Nat /\ DOMAIN nodes = 1 .. m
                         /\ a = at /\ f = FirstImage
      BY <1>1, NodesType
    <3>2. a \in 1 .. (m + 1) /\ a \notin 1 .. m /\ f \in 1 .. m
      BY <1>1, <1>3, <2>1, <3>1 DEF TypeInv
    <3>3. f < a
      BY <3>1, <3>2
    <3>4. Passed(FirstImage)
      BY <1>1, <1>3, <3>1, <3>3 DEF ElementsInv
    <3>5. FirstImage \in blocks
      BY <1>3, <3>4 DEF Passed
    <3> QED
      BY <1>1, <1>7, <2>1, <3>5 DEF RefusedFor
  <2> QED
    BY <1>1, <1>7, <2>1 DEF RefusedFor
<1>8. ASSUME phase \in Working
      PROVE  at # FirstImage /\ PartFault(Block, offset, Piece) # "none"
  <2>1. PartFault(Block, offset, Piece) # "none"
    BY <1>1, <1>8 DEF RefusedFor
  <2>2. ASSUME at = FirstImage PROVE FALSE
    <3>1. Block = Shown
      BY <1>3, <2>2, BlockIs
    <3>2. PICK d, o, r, q :
            /\ d = Block /\ d = Shown /\ o = offset /\ r = part /\ q = Piece
            /\ HasCompression(d) /\ r \in DOMAIN PartsOf(d)
            /\ q = PartsOf(d)[r] /\ o = Before(PartsOf(d), r - 1, 1)
      BY <1>1, <1>8, <3>1, WorkFacts DEF WorkInv
    <3>3. PartFault(d, o, q) = "none"
      BY <1>2, <3>2 DEF Loads, WholePart
    <3> QED
      BY <2>1, <3>2, <3>3
  <2> QED
    BY <2>1, <2>2
<1> QED
  BY <1>4, <1>5, <1>6, <1>7, <1>8 DEF UnseenByLoader, Working

(* An image of the kind that the loader supports is shown if it is valid.  *)
LEMMA ImageBytesType ==
  ASSUME NEW n \in Elements
  PROVE  Product(n.dims) \in Nat /\ SampleSize(n) \in Nat /\ ImageBytes(n) \in Nat
<1>1. Product(n.dims) \in Nat
  <2>1. n.dims \in Seq(Nat)
    BY DEF Elements
  <2>2. PICK L \in Nat : L = Len(n.dims)
    BY <2>1
  <2>3. RunningProducts(n.dims) \in [0 .. L -> Nat] /\ L \in 0 .. L
    BY <2>1, <2>2, RunningProductsDef
  <2> QED
    BY <2>2, <2>3 DEF Product
<1>2. SampleSize(n) \in Nat
  BY DEF SampleSize, SampleSizes
<1> QED
  BY <1>1, <1>2 DEF ImageBytes

(* Where a file is valid and the loader is not content with its image, a   *)
(* frame asks for more history than the loader has.                        *)
LEMMA ValidShown ==
  ASSUME IInv, loaded = "error", verdict = "valid", level = "full", FirstImage > 0,
         Len(Shown.dims) = 3, Shown.dims[3] = 1, Shown.format = "UInt16",
         Shown.form = "attachment", Shown.codec \in {"none", "zstd"}
  PROVE  \E k \in DOMAIN Shown.frames : History(Shown.frames[k]) > MaxHistory
<1>1. TypeInv
  BY DEF IInv, ValidatorInv
<1>2. PICK i, n : /\ i = FirstImage /\ n = Shown /\ n = nodes[i] /\ i \in DOMAIN nodes
                  /\ n \in Elements /\ n.name = "Image"
  BY <1>1, ImageType DEF Shown
<1>3. i \in blocks
  <2>1. Passed(i)
    BY <1>2, ValidPassed
  <2> QED
    BY <1>2, <2>1 DEF Passed
<1>4. Description(i) = i /\ Described(i) = n
  BY <1>2 DEF Described, Description
<1>5. IsImage(n) /\ DescriptorFault(n) = "none" /\ EnvelopeFault(file) = "none"
  <2>1. IsImage(n)
    BY <1>2 DEF IsImage
  <2> QED
    BY <1>2, <2>1, ValidPassed
<1>6. /\ RoleFault(i) = "none" /\ PlaceFault(i) = "none"
      /\ CompressionFault(n, n.size) = "none" /\ Expected(n) \in {-1, BlockLength(n)}
      /\ (HasCompression(n) /\ n.item > 0) => n.item = SampleSize(n)
      /\ HasCompression(n) => \A p \in DOMAIN PartsOf(n) : WholePart(n, p)
  BY <1>2, <1>3, <1>4, <1>5, ValidPassed DEF Checked, DecodedWhole
<1>7. LayoutFault(n) = "none"
  BY <1>2, <1>5, <1>6, RoleSound
<1>8. n.offset >= XmlEnd(file) /\ RangeFault(n.offset, n.size, file.size) = "none"
  <2>1. PlaceFault(i) = FirstFault(<<Check(n.offset < XmlEnd(file), "invalid"),
                                     RangeFault(n.offset, n.size, file.size)>>)
    BY <1>2 DEF PlaceFault
  <2>2. /\ Check(n.offset < XmlEnd(file), "invalid") = "none"
        /\ RangeFault(n.offset, n.size, file.size) = "none"
    BY <1>6, <2>1, TwoChecks
  <2>3. ~ (n.offset < XmlEnd(file))
    BY <2>2 DEF Check
  <2>4. n.offset \in Nat /\ XmlEnd(file) \in Nat
    <3>1. n.offset \in Nat
      BY <1>2 DEF Elements
    <3>2. PrefixLen \in Nat /\ file.xmlLen \in Nat
      BY <1>1, FilesAssumption, DescriptorAssumption DEF TypeInv
    <3> QED
      BY <3>1, <3>2 DEF XmlEnd
  <2> QED
    BY <2>2, <2>3, <2>4
<1>9. BlockLength(n) = ImageBytes(n)
  <2>1. Expected(n) = ImageBytes(n)
    BY <1>2, <1>5 DEF Expected, IsImage
  <2>2. ImageBytes(n) \in Nat
    BY <1>2, ImageBytesType
  <2>3. ImageBytes(n) # -1
    BY <2>2
  <2> QED
    BY <1>6, <2>1, <2>3
<1>10. HasCompression(n) => n.codec = "zstd" /\ n.decoded = ImageBytes(n) /\ n.item \in {-1, 2}
  <2>1. ASSUME HasCompression(n) PROVE n.item \in {-1, 2}
    <3>1. n.item \in Nat \cup {-1}
      BY <1>2 DEF Elements
    <3>2. n.item # 0
      BY <1>2, <1>6, <2>1, SoundParts
    <3>3. SampleSize(n) = 2
      BY <1>2 DEF SampleSize, SampleSizes
    <3>4. n.item > 0 => n.item = 2
      BY <1>6, <2>1, <3>3
    <3> QED
      BY <3>1, <3>2, <3>4
  <2> QED
    BY <1>2, <1>9, <2>1 DEF HasCompression, BlockLength
<1>11. ~ HasCompression(n) => n.size = ImageBytes(n)
  BY <1>9 DEF BlockLength
<1>12. Fits
  <2>1. Capable(n)
    BY <1>2, <1>5, <1>6, <1>7, <1>8, <1>10, <1>11 DEF Capable, Decodable
  <2> QED
    BY <1>2, <1>5, <2>1 DEF Fits, HeaderReadable
<1>13. PICK p \in DOMAIN PartsOf(n) : HasCompression(n) /\ ~ Loads(p)
  BY <1>2, <1>12 DEF IInv, LoaderInv
<1>14. PICK o, q : /\ o = Before(PartsOf(n), p - 1, 1) /\ q = PartsOf(n)[p]
                   /\ PartFault(n, o, q) = "none"
  BY <1>6, <1>13 DEF WholePart
<1>15. FrameAt(n, o) # {}
  BY <1>2, <1>14, WholePartFrame
<1>16. \E k \in FrameAt(n, o) : History(n.frames[k]) > MaxHistory
  BY <1>2, <1>6, <1>13, <1>14, <1>15 DEF Loads
<1> QED
  BY <1>2, <1>16 DEF FrameAt

(* The invariant implies the agreement. *)
LEMMA AgreesFromIInv == IInv => LoaderAgrees
<1> SUFFICES ASSUME IInv PROVE LoaderAgrees
  OBVIOUS
<1>1. Shown = nodes[FirstImage]
  BY DEF Shown
<1> QED
  BY <1>1, ShownRefused, ValidShown DEF LoaderAgrees

(* Of a file whose first image load_xisf shows, validate refuses only what *)
(* load_xisf does not look at, or what is over a limit: no check of that   *)
(* image's geometry, place, compression or parts fails.  And load_xisf     *)
(* shows the image of a valid file, but for a frame with too much history. *)
THEOREM Agreement == Spec => []LoaderAgrees
BY Invariant, AgreesFromIInv, PTL
-----------------------------------------------------------------------------
(* The shuffle.  A byte that is the r-th of the q-th of some items is      *)
(* number r * items + q of the stored ones.                                *)
LEMMA Digits ==
  ASSUME NEW items \in Nat, NEW item \in Nat \ {0}, NEW a \in 0 .. (item * items - 1)
  PROVE  /\ a % item \in 0 .. (item - 1) /\ a \div item \in 0 .. (items - 1)
         /\ a = item * (a \div item) + (a % item)
<1>1. PICK q, r : q = a \div item /\ r = a % item
  OBVIOUS
<1>2. a \in Nat /\ a < item * items
  OBVIOUS
<1>3. q \in Int /\ r \in Int /\ a = item * q + r /\ 0 <= r /\ r < item
  BY <1>1, <1>2
<1>4. 0 <= q
  <2>1. ASSUME q <= -1 PROVE FALSE
    <3>1. item * q <= item * (-1)
      BY <1>3, <2>1
    <3> QED
      BY <1>2, <1>3, <3>1
  <2> QED
    BY <1>3, <2>1
<1>5. q < items
  <2>1. ASSUME items <= q PROVE FALSE
    <3>1. item * items <= item * q
      BY <1>3, <2>1
    <3> QED
      BY <1>2, <1>3, <3>1
  <2> QED
    BY <1>3, <2>1
<1> QED
  BY <1>1, <1>3, <1>4, <1>5

(* Quotient and remainder of a number are unique. *)
LEMMA DigitsUnique ==
  ASSUME NEW item \in Nat \ {0}, NEW q \in Nat, NEW r \in 0 .. (item - 1)
  PROVE  (item * q + r) % item = r /\ (item * q + r) \div item = q
<1>1. PICK n : n = item * q + r
  OBVIOUS
<1>2. n \in Nat
  <2>1. item * q \in Nat
    OBVIOUS
  <2> QED
    BY <1>1, <2>1
<1>3. PICK c, d : c = n \div item /\ d = n % item
  OBVIOUS
<1>4. c \in Int /\ d \in Int /\ n = item * c + d /\ 0 <= d /\ d < item
  BY <1>2, <1>3
<1>5. ~ (c < q)
  <2>1. ASSUME c < q PROVE FALSE
    <3>1. item * (c + 1) <= item * q
      BY <1>4, <2>1
    <3>2. item * (c + 1) = item * c + item
      BY <1>4
    <3> QED
      BY <1>1, <1>4, <3>1, <3>2
  <2> QED
    BY <2>1
<1>6. ~ (q < c)
  <2>1. ASSUME q < c PROVE FALSE
    <3>1. item * (q + 1) <= item * c
      BY <1>4, <2>1
    <3>2. item * (q + 1) = item * q + item
      OBVIOUS
    <3> QED
      BY <1>1, <1>4, <3>1, <3>2
  <2> QED
    BY <2>1
<1>7. c = q
  BY <1>4, <1>5, <1>6
<1> QED
  BY <1>1, <1>3, <1>4, <1>7

(* A place of an earlier row is before every place of a later one. *)
LEMMA Rows ==
  ASSUME NEW items \in Nat, NEW r \in Nat, NEW s \in Nat, r < s,
         NEW q \in 0 .. (items - 1), NEW t \in Nat
  PROVE  r * items + q < s * items + t
<1>1. (r + 1) * items <= s * items
  OBVIOUS
<1>2. (r + 1) * items = r * items + items
  OBVIOUS
<1> QED
  BY <1>1, <1>2

(* The place of a byte: as many come before it. *)
LEMMA PlaceOfByte ==
  ASSUME NEW items \in Nat, NEW item \in Nat \ {0}, NEW a \in 0 .. (item * items - 1)
  PROVE  Cardinality({b \in 0 .. (item * items - 1) :
                        \/ b % item < a % item
                        \/ b % item = a % item /\ b < a})
           = (a % item) * items + a \div item
<1>1. PICK place_ : place_ = [b \in 0 .. (item * items - 1) |-> (b % item) * items + b \div item]
  OBVIOUS
<1>2. PICK W, S : /\ W = 0 .. (item * items - 1)
                  /\ S = {b \in W : \/ b % item < a % item
                                    \/ b % item = a % item /\ b < a}
  OBVIOUS
<1>3. ASSUME NEW b \in W
      PROVE  /\ b \in Nat /\ b % item \in 0 .. (item - 1) /\ b \div item \in 0 .. (items - 1)
             /\ b = item * (b \div item) + (b % item)
             /\ place_[b] = (b % item) * items + b \div item /\ place_[b] \in Nat
  <2>1. /\ b \in Nat /\ b % item \in 0 .. (item - 1) /\ b \div item \in 0 .. (items - 1)
        /\ b = item * (b \div item) + (b % item)
    <3>1. b \in 0 .. (item * items - 1)
      BY <1>2
    <3>2. b \in Nat
      BY <3>1
    <3> QED
      BY <3>1, <3>2, Digits, Zenon
  <2>2. place_[b] = (b % item) * items + b \div item
    BY <1>1, <1>2
  <2>3. PICK r \in Nat, q \in Nat : r = b % item /\ q = b \div item
    BY <2>1
  <2>4. r * items + q \in Nat
    OBVIOUS
  <2> QED
    BY <2>1, <2>2, <2>3, <2>4
<1>4. ASSUME NEW b \in W, NEW c \in W
      PROVE  /\ place_[b] < place_[c] <=> \/ b % item < c % item
                                          \/ b % item = c % item /\ b < c
             /\ place_[b] = place_[c] => b = c
  <2>1. PICK r, q, s, t :
          /\ r \in 0 .. (item - 1) /\ q \in 0 .. (items - 1)
          /\ s \in 0 .. (item - 1) /\ t \in 0 .. (items - 1)
          /\ r = b % item /\ q = b \div item /\ s = c % item /\ t = c \div item
          /\ b = item * q + r /\ place_[b] = r * items + q /\ b \in Nat
          /\ c = item * t + s /\ place_[c] = s * items + t /\ c \in Nat
    BY <1>3
  <2>2. r < s => r * items + q < s * items + t
    BY <2>1, Rows
  <2>3. s < r => s * items + t < r * items + q
    BY <2>1, Rows
  <2>4. q < t => item * q + r < item * t + r
    <3>1. ASSUME q < t PROVE item * q < item * t
      BY <2>1, <3>1
    <3> QED
      BY <2>1, <3>1
  <2>5. t < q => item * t + r < item * q + r
    <3>1. ASSUME t < q PROVE item * t < item * q
      BY <2>1, <3>1
    <3> QED
      BY <2>1, <3>1
  <2>6. r = s => (q < t <=> b < c) /\ (q = t <=> b = c)
    BY <2>1, <2>4, <2>5
  <2>7. PICK x \in Nat, y \in Nat : x = place_[b] /\ y = place_[c]
    BY <1>3
  <2>8. r = s => (x < y <=> q < t) /\ (x = y <=> q = t)
    BY <2>1, <2>7
  <2>9. (r < s => x < y) /\ (s < r => y < x)
    BY <2>1, <2>2, <2>3, <2>7
  <2>10. (x < y <=> r < s \/ (r = s /\ b < c)) /\ (x = y => b = c)
    BY <2>1, <2>6, <2>7, <2>8, <2>9
  <2> QED
    BY <2>1, <2>7, <2>10
<1>5. PICK m \in Nat : m = place_[a] /\ a \in W
  BY <1>2, <1>3
<1>6. PICK f : f = [b \in S |-> place_[b] + 1]
  OBVIOUS
<1>7. f \in [S -> 1 .. m]
  <2>1. ASSUME NEW b \in S PROVE place_[b] + 1 \in 1 .. m
    <3>1. place_[b] < m /\ place_[b] \in Nat
      BY <1>2, <1>3, <1>4, <1>5
    <3> QED
      BY <3>1
  <2> QED
    BY <1>6, <2>1
<1>8. \A b, c \in S : f[b] = f[c] => b = c
  <2>1. ASSUME NEW b \in S, NEW c \in S, f[b] = f[c] PROVE b = c
    <3>1. place_[b] \in Nat /\ place_[c] \in Nat
      BY <1>2, <1>3
    <3>2. place_[b] = place_[c]
      BY <1>6, <2>1, <3>1
    <3> QED
      BY <1>2, <1>4, <3>2
  <2> QED
    BY <2>1
<1>9. \A x \in 1 .. m : \E b \in S : f[b] = x
  <2>1. ASSUME NEW x \in 1 .. m PROVE \E b \in S : f[b] = x
    <3>1. PICK r, q :
            /\ r \in 0 .. (item - 1) /\ q \in 0 .. (items - 1) /\ x - 1 = r * items + q
      <4>1. PICK s, t : /\ s \in 0 .. (item - 1) /\ t \in 0 .. (items - 1)
                        /\ m = s * items + t
        <5>1. PICK s, t : s = a % item /\ t = a \div item
          OBVIOUS
        <5>2. s \in 0 .. (item - 1) /\ t \in 0 .. (items - 1)
          BY <1>3, <1>5, <5>1
        <5>3. m = s * items + t
          BY <1>3, <1>5, <5>1
        <5> QED
          BY <5>2, <5>3
      <4>2. items \in Nat \ {0}
        BY <4>1
      <4>3. x - 1 \in 0 .. (items * item - 1)
        <5>1. (s + 1) * items <= item * items
          BY <4>1
        <5>2. (s + 1) * items = s * items + items
          BY <4>1
        <5>3. item * items = items * item /\ item * items \in Nat /\ s * items \in Nat
          BY <4>1
        <5> QED
          BY <4>1, <5>1, <5>2, <5>3
      <4>4. PICK n, r, q : n = x - 1 /\ r = n \div items /\ q = n % items
        OBVIOUS
      <4>5. q \in 0 .. (items - 1) /\ r \in 0 .. (item - 1) /\ n = items * r + q
        BY <4>2, <4>3, <4>4, Digits, Zenon
      <4>6. items * r = r * items
        BY <4>5
      <4> QED
        BY <4>4, <4>5, <4>6
    <3>2. PICK b : b = item * q + r
      OBVIOUS
    <3>3. b % item = r /\ b \div item = q
      BY <3>1, <3>2, DigitsUnique
    <3>4. b \in W
      <4>1. item * (q + 1) <= item * items
        BY <3>1
      <4>2. item * (q + 1) = item * q + item /\ item * q \in Nat /\ item * items \in Nat
        BY <3>1
      <4> QED
        BY <1>2, <3>1, <3>2, <4>1, <4>2
    <3>5. place_[b] = x - 1
      BY <1>3, <3>1, <3>3, <3>4
    <3>6. place_[b] < place_[a]
      BY <1>5, <3>5
    <3>7. b \in S
      BY <1>2, <1>4, <1>5, <3>4, <3>6
    <3> QED
      BY <1>6, <3>5, <3>7
  <2> QED
    BY <2>1
<1>10. f \in Bijection(S, 1 .. m)
  BY <1>7, <1>8, <1>9, Fun_IsBij
<1>11. IsFiniteSet(S)
  <2>1. IsFiniteSet(W)
    BY <1>2, FS_Interval
  <2> QED
    BY <1>2, <2>1, FS_Subset
<1>12. Cardinality(1 .. m) = m
  <2>1. 1 \in Int /\ m \in Int /\ 1 <= m + 1 /\ m - 1 + 1 = m
    OBVIOUS
  <2> QED
    BY <2>1, FS_Interval
<1>13. Cardinality(S) = m
  BY <1>10, <1>11, <1>12, FS_Bijection DEF ExistsBijection
<1> QED
  BY <1>2, <1>3, <1>5, <1>13
(* What a writer shuffles, unshuffle puts back, for every item and length; *)
(* bytes beyond the last whole item included.                              *)
LEMMA ShuffleUndone ==
  ASSUME NEW length \in Nat, NEW item \in Nat \ {0}
  PROVE  Unshuffle(Written(length, item), item) = [t \in 1 .. length |-> t]
<1>1. PICK items, whole, W :
        /\ items = length \div item /\ whole = items * item /\ W = Written(length, item)
  OBVIOUS
<1>2. /\ items \in Nat /\ whole \in Nat /\ whole <= length /\ whole = item * items
  <2>1. items \in Int /\ length = item * items + (length % item)
        /\ 0 <= length % item /\ length % item < item
    BY <1>1
  <2>2. 0 <= items
    <3>1. ASSUME items <= -1 PROVE FALSE
      <4>1. item * items <= item * (-1)
        BY <2>1, <3>1
      <4> QED
        BY <2>1, <4>1
    <3> QED
      BY <2>1, <3>1
  <2>3. item * items = items * item /\ item * items \in Nat
    BY <2>1, <2>2
  <2> QED
    BY <1>1, <2>1, <2>2, <2>3
<1>3. ASSUME NEW a \in 0 .. (whole - 1)
      PROVE  Cardinality({b \in 0 .. (whole - 1) : \/ b % item < a % item
                                                   \/ b % item = a % item /\ b < a})
               = (a % item) * items + a \div item
  BY <1>2, PlaceOfByte, Zenon
<1>4. W = [t \in 1 .. length |->
             IF t > whole THEN t
             ELSE 1 + CHOOSE a \in 0 .. (whole - 1) :
                    Cardinality({b \in 0 .. (whole - 1) :
                                   \/ b % item < a % item
                                   \/ b % item = a % item /\ b < a}) = t - 1]
  BY <1>1 DEF Written
<1> DEFINE From(p) ==
             CHOOSE a \in 0 .. (whole - 1) : (a % item) * items + a \div item = p
<1>5. /\ DOMAIN W = 1 .. length
      /\ \A t \in 1 .. length : W[t] = IF t > whole THEN t ELSE 1 + From(t - 1)
  <2>1. ASSUME NEW t \in 1 .. length
        PROVE  W[t] = IF t > whole THEN t ELSE 1 + From(t - 1)
    <3>1. W[t] = IF t > whole THEN t
                 ELSE 1 + CHOOSE a \in 0 .. (whole - 1) :
                        Cardinality({b \in 0 .. (whole - 1) :
                                       \/ b % item < a % item
                                       \/ b % item = a % item /\ b < a}) = t - 1
      BY <1>4
    <3> QED
      BY <1>3, <3>1
  <2> QED
    BY <1>4, <2>1
<1>6. \A a, b \in 0 .. (whole - 1) :
        (a % item) * items + a \div item = (b % item) * items + b \div item => a = b
  <2>1. ASSUME NEW a \in 0 .. (whole - 1), NEW b \in 0 .. (whole - 1),
               (a % item) * items + a \div item = (b % item) * items + b \div item
        PROVE  a = b
    <3>1. PICK r, q, s, t :
            r = a % item /\ q = a \div item /\ s = b % item /\ t = b \div item
      OBVIOUS
    <3>2. r \in 0 .. (item - 1) /\ q \in 0 .. (items - 1) /\ a = item * q + r
      BY <1>2, <3>1, Digits, Zenon
    <3>3. s \in 0 .. (item - 1) /\ t \in 0 .. (items - 1) /\ b = item * t + s
      BY <1>2, <3>1, Digits, Zenon
    <3>4. r * items + q = s * items + t
      BY <2>1, <3>1
    <3>5. r < s => r * items + q < s * items + t
      BY <1>2, <3>2, <3>3, Rows
    <3>6. s < r => s * items + t < r * items + q
      BY <1>2, <3>2, <3>3, Rows
    <3>7. r * items \in Nat /\ s * items \in Nat
      BY <1>2, <3>2, <3>3
    <3>8. r = s /\ q = t
      BY <3>2, <3>3, <3>4, <3>5, <3>6, <3>7
    <3> QED
      BY <3>2, <3>3, <3>8
  <2> QED
    BY <2>1
<1>7. Len(W) = length
  BY <1>5
<1>8. Unshuffle(W, item) =
        [t \in 1 .. length |->
           IF t <= whole
           THEN W[(((t - 1) % item) * items + (t - 1) \div item) + 1] ELSE W[t]]
  BY <1>1, <1>5, <1>7 DEF Unshuffle
<1>9. ASSUME NEW t \in 1 .. length
      PROVE  (IF t <= whole
              THEN W[(((t - 1) % item) * items + (t - 1) \div item) + 1] ELSE W[t]) = t
  <2>1. CASE t <= whole
    <3>1. PICK a, p : a = t - 1 /\ p = (a % item) * items + a \div item
      OBVIOUS
    <3>2. a \in 0 .. (whole - 1)
      BY <1>2, <2>1, <3>1
    <3>3. p \in Nat /\ p < whole
      <4>1. PICK r, q : r = a % item /\ q = a \div item
        OBVIOUS
      <4>2. r \in 0 .. (item - 1) /\ q \in 0 .. (items - 1)
        BY <1>2, <3>2, <4>1, Digits, Zenon
      <4>3. r < item /\ r \in Nat /\ q \in 0 .. (items - 1) /\ 0 \in Nat
        BY <4>2
      <4>4. r * items + q < item * items + 0
        BY <1>2, <4>3, Rows
      <4>5. r * items \in Nat /\ item * items \in Nat
        BY <1>2, <4>3
      <4> QED
        BY <1>2, <3>1, <4>1, <4>2, <4>4, <4>5
    <3>4. p + 1 \in 1 .. length /\ ~ (p + 1 > whole) /\ p + 1 - 1 = p
      BY <1>2, <3>3
    <3>5. From(p) = a
      BY <1>6, <3>1, <3>2
    <3>6. W[p + 1] = 1 + From(p)
      <4> HIDE DEF From
      <4>1. PICK u : u = p + 1
        OBVIOUS
      <4>2. u \in 1 .. length /\ ~ (u > whole) /\ u - 1 = p
        BY <1>2, <3>3, <4>1
      <4>3. W[u] = 1 + From(u - 1)
        BY <1>5, <4>2
      <4>4. From(u - 1) = From(p)
        BY <4>2
      <4> QED
        BY <4>1, <4>3, <4>4
    <3>7. W[p + 1] = t
      <4>1. 1 + a = t
        BY <3>1
      <4> HIDE DEF From
      <4> QED
        BY <3>5, <3>6, <4>1
    <3> QED
      BY <2>1, <3>1, <3>7
  <2>2. CASE ~ (t <= whole)
    <3>1. t > whole
      BY <1>2, <2>2
    <3> QED
      BY <1>5, <2>2, <3>1
  <2> QED
    BY <2>1, <2>2
<1> QED
  BY <1>1, <1>8, <1>9

(* Without a shuffle the bytes are in their order: an item is one byte.    *)
LEMMA Unshuffled ==
  ASSUME NEW length \in Nat
  PROVE  Written(length, 1) = [t \in 1 .. length |-> t]
<1>1. PICK W : W = Written(length, 1)
  OBVIOUS
<1>2. Unshuffle(W, 1) = [t \in 1 .. length |-> t]
  BY <1>1, ShuffleUndone
<1>3. DOMAIN W = 1 .. length
  BY <1>1 DEF Written
<1>4. Len(W) = length /\ length \div 1 = length
  BY <1>3
<1>5. Unshuffle(W, 1) =
        [t \in 1 .. length |->
           IF t <= length * 1
           THEN W[(((t - 1) % 1) * length + (t - 1) \div 1) + 1] ELSE W[t]]
  BY <1>3, <1>4 DEF Unshuffle
<1>6. \A t \in 1 .. length : Unshuffle(W, 1)[t] = W[t]
  <2>1. ASSUME NEW t \in 1 .. length PROVE Unshuffle(W, 1)[t] = W[t]
    <3>1. (t - 1) % 1 = 0 /\ (t - 1) \div 1 = t - 1
      OBVIOUS
    <3>2. ((t - 1) % 1) * length + (t - 1) \div 1 + 1 = t
      BY <3>1
    <3> QED
      BY <1>5, <3>2
  <2> QED
    BY <2>1
<1>7. W = [t \in 1 .. length |-> W[t]]
  BY <1>1, <1>3 DEF Written
<1> QED
  BY <1>1, <1>2, <1>6, <1>7

(* The invariant implies that the samples are in order. *)
LEMMA PixelsFromIInv == IInv => PixelsAreSamples
<1> SUFFICES ASSUME IInv, loaded = "ok" PROVE PixelsAreSamples
  BY DEF PixelsAreSamples
<1>1. TypeInv /\ LoaderInv
  BY DEF IInv, ValidatorInv
<1>2. /\ FirstImage > 0 /\ Capable(Shown)
      /\ pixels = Decoded(Shown, IF HasCompression(Shown) /\ Shown.item > 0
                                 THEN Unshuffle(Stored(Shown), Shown.item)
                                 ELSE Stored(Shown))
  BY <1>1 DEF LoaderInv, Fits, Shown
<1>3. PICK n, m, bytes, item :
        /\ n = Shown /\ m = Product(n.dims) /\ item = n.item
        /\ bytes = IF HasCompression(n) /\ item > 0
                   THEN Unshuffle(Stored(n), item) ELSE Stored(n)
  OBVIOUS
<1>4. n \in Elements /\ SampleSize(n) = 2 /\ (HasCompression(n) => item \in {-1, 2})
  BY <1>1, <1>2, <1>3, CapableSound
<1>5. m \in Nat /\ ImageBytes(n) = m * 2
  BY <1>3, <1>4, ImageBytesType DEF ImageBytes
<1>6. PICK length \in Nat : length = m * 2
  BY <1>5
<1>7. bytes = [t \in 1 .. length |-> t]
  <2>1. CASE HasCompression(n) /\ item > 0
    <3>1. Stored(n) = Written(length, item)
      BY <1>3, <1>5, <1>6, <2>1 DEF Stored
    <3>2. item \in Nat \ {0}
      BY <1>4, <2>1
    <3> QED
      BY <1>3, <2>1, <3>1, <3>2, ShuffleUndone
  <2>2. CASE ~ (HasCompression(n) /\ item > 0)
    <3>1. Stored(n) = Written(length, 1)
      BY <1>3, <1>5, <1>6, <2>2 DEF Stored
    <3> QED
      BY <1>3, <2>2, <3>1, Unshuffled
  <2> QED
    BY <2>1, <2>2
<1>8. Len(bytes) = length /\ length \div 2 = m
  BY <1>5, <1>6, <1>7
<1>9. \A k \in 1 .. m : Sample(n, bytes, k) =
        IF n.order = "big" THEN <<2 * k - 1, 2 * k>> ELSE <<2 * k, 2 * k - 1>>
  <2>1. ASSUME NEW k \in 1 .. m
        PROVE  bytes[2 * k - 1] = 2 * k - 1 /\ bytes[2 * k] = 2 * k
    <3>1. 2 * k - 1 \in 1 .. length /\ 2 * k \in 1 .. length
      BY <1>5, <1>6
    <3> QED
      BY <1>7, <3>1
  <2> QED
    BY <2>1 DEF Sample
<1>10. pixels = [k \in 1 .. m |-> Sample(n, bytes, k)]
  BY <1>2, <1>3, <1>8 DEF Decoded
<1> QED
  BY <1>3, <1>9, <1>10 DEF PixelsAreSamples, Shown

(* What load_xisf returns are the samples of the image in order: the byte  *)
(* shuffle is undone and the byte order followed, for every geometry.      *)
THEOREM Pixels == Spec => []PixelsAreSamples
BY Invariant, PixelsFromIInv, PTL
=============================================================================
