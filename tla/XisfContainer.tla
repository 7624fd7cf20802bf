---------------------------- MODULE XisfContainer ----------------------------
(***************************************************************************)
(* The validation of an XISF file after its XML has been read (validate of *)
(* validation/xisf.rs), and the loading of its first image (xisf.rs), both *)
(* of one file that does not change.  The elements are those XisfDocument  *)
(* gives.  An element is checked in one step, and each part of a           *)
(* compressed block is decoded call by call, by decoders known by what     *)
(* they take and give: a frame's bytes, in pieces of any length.           *)
(* Cancellation and changes of the file are ValidateFile's, reservations   *)
(* are MemoryBudget's, but for the history of a frame, the largest one.    *)
(***************************************************************************)
EXTENDS XisfDescriptors

CONSTANTS
  Files,         \* sizes, prefixes and elements of the files to look at
  MaxHeader, MaxStructures, MaxDecoded,  \* limits of the call
  MaxWorking,    \* limits.working, of which CodecScratch is taken beforehand
  MaxHistory,    \* MAX_LOADER_ZSTD_HISTORY
  Scratch,       \* length of the buffer that decoders write to
  Ahead          \* length of the buffer that the loader reads to

(* The elements are in the order of their start tags, so that a parent     *)
(* comes before its children; element 0 is the parent of the root.         *)
ASSUME FilesAssumption ==
  /\ {MaxHeader, MaxStructures, MaxDecoded, MaxWorking, MaxHistory} \subseteq Nat
  /\ {Scratch, Ahead} \subseteq Nat \ {0}
  /\ \A f \in Files :
       /\ f \in [size : Nat, reservedZero : BOOLEAN, xmlLen : Nat, nodes : Seq(Elements)]
       /\ \A i \in DOMAIN f.nodes : f.nodes[i].parent < i

VARIABLES
  file, level,   \* the file, and options.level
  phase,         \* place in validate
  at,            \* element at work
  part,          \* part of its block to be decoded next
  offset,        \* where that part starts in the stored bytes
  taken, given,  \* bytes the decoder of the part has consumed and produced
  structures, decoded, images, present, verified, undecoded,  \* of the call
  verdict,       \* how validate ended
  blocks,        \* history: blocks checked, with the element that has them
  loaded,        \* "no", "parts", "ok" or "error": progress of load_xisf
  piece, source, \* the part it decodes next; bytes it has read of the block
  pixels         \* samples it returned, as pairs of high and low byte

vars == <<file, level, phase, at, part, offset, taken, given, structures,
          decoded, images, present, verified, undecoded, verdict, blocks, loaded, piece, source, pixels>>
progress == <<taken, given>>
place == <<phase, at, part, offset, progress>>
counters == <<structures, decoded, images, present, verified, undecoded>>
loading == <<loaded, piece, source, pixels>>

nodes == file.nodes
IsImage(n) == n.name \in {"Image", "Thumbnail"}
Children(i) == {k \in DOMAIN nodes : nodes[k].parent = i}
Identified == {i \in DOMAIN nodes : nodes[i].uid # "none"}

Init ==
  /\ file \in Files
  /\ level \in {"structural", "full"}
  /\ phase = "open" /\ at = 1 /\ part = 1 /\ offset = 0
  /\ taken = 0 /\ given = 0
  /\ structures = Len(file.nodes) /\ decoded = 0 /\ images = 0
  /\ present = 0 /\ verified = 0 /\ undecoded = {}
  /\ verdict = "none" /\ blocks = {}
  /\ loaded = "no" /\ piece = 1 /\ source = 0 /\ pixels = <<>>

At(p) == verdict = "none" /\ phase = p
Refuse(kind) ==
  verdict' = kind /\ UNCHANGED <<place, counters, blocks>>
-----------------------------------------------------------------------------
(* The envelope, the header, and the descriptors that are parsed with it.  *)
OpenContainer ==
  /\ At("open")
  /\ LET fault == FirstFault(<<
           EnvelopeFault(file),
           Check(file.xmlLen > MaxHeader, "limit"),
           Check(structures > MaxStructures, "limit"),
           FirstFault([k \in DOMAIN nodes |->
             IF IsImage(nodes[k]) THEN DescriptorFault(nodes[k]) ELSE "none"])>>)
     IN  \/ fault # "none" /\ Refuse(fault)
         \/ /\ fault = "none"
            /\ phase' = "uids"
            /\ UNCHANGED <<at, part, offset, progress, counters, verdict, blocks>>
  /\ UNCHANGED <<file, level, loading>>

CheckUids ==
  /\ At("uids")
  /\ LET wrong == \E i \in Identified :
                    \/ nodes[i].name = "Reference" \/ nodes[i].uid = ""
                    \/ \E j \in Identified : j < i /\ nodes[j].uid = nodes[i].uid
     IN  \/ wrong /\ Refuse("invalid")
         \/ /\ ~wrong
            /\ phase' = "element"
            /\ UNCHANGED <<at, part, offset, progress, counters, verdict, blocks>>
  /\ UNCHANGED <<file, level, loading>>
-----------------------------------------------------------------------------
(* The checks of one element, in the order of the loop of validate.        *)

ReferenceFault(i) ==
  FirstFault(<<
    Check(nodes[i].ref \notin {nodes[k].uid : k \in Identified}, "invalid"),
    Check(nodes[i].form # "none" \/ Children(i) # {}, "invalid")>>)

HasDescriptor(n) == n.checksum # "none" \/ HasCompression(n) \/ n.subblocks # <<>>
DataChildren(i) == {k \in Children(i) : nodes[k].name = "Data"}

(* expected: the bytes a block must have, or -1 where nothing says.        *)
ExpectedFault(n) ==
  CASE IsImage(n) -> LayoutFault(n)
    [] n.name = "Property" /\ n.width > 0 ->
         FirstFault(<<Check(n.counts = <<>>, "invalid"),
                      Check(Product(n.counts) > MaxInt, "invalid"),
                      Check(Product(n.counts) * n.width > MaxInt, "invalid")>>)
    [] OTHER -> "none"
Expected(n) ==
  CASE IsImage(n) -> ImageBytes(n)
    [] n.name = "Property" /\ n.width > 0 -> Product(n.counts) * n.width
    [] OTHER -> -1

(* Mutant: descriptors may stand with an embedded location as well.        *)
RoleFaultLoose(i) ==
  Check(IsImage(nodes[i]) /\ LayoutFault(nodes[i]) # "none", LayoutFault(nodes[i]))

(* Before the location is looked at. *)
RoleFault(i) ==
  LET n == nodes[i]
  IN  FirstFault(<<
        Check(IsImage(n) /\ LayoutFault(n) # "none", LayoutFault(n)),
        Check(/\ n.name = "Data"
              /\ n.form # "none" \/ n.parent = 0 \/ nodes[n.parent].form # "embedded",
              "invalid"),
        Check(n.form = "none" /\ n.name # "Data" /\ HasDescriptor(n), "invalid")>>)

InlineFault(i, encoding) ==
  FirstFault(<<
    Check(Children(i) # {}, "invalid"),
    Check(encoding = "none", "invalid"),
    Check(encoding \notin {"base64", "hex"}, "unsupported"),
    Check(~nodes[i].sound, "invalid")>>)

(* The element that describes the block of element i. *)
Description(i) ==
  IF nodes[i].form = "embedded" THEN CHOOSE k \in DataChildren(i) : TRUE ELSE i

PlaceFault(i) ==
  LET n == nodes[i]
  IN  CASE n.form = "attachment" ->
             FirstFault(<<Check(n.offset < XmlEnd(file), "invalid"),
                          RangeFault(n.offset, n.size, file.size)>>)
        [] n.form = "inline" -> InlineFault(i, n.encoding)
        [] n.form = "embedded" ->
             IF HasDescriptor(n) \/ Cardinality(DataChildren(i)) # 1 THEN "invalid"
             ELSE InlineFault(Description(i), nodes[Description(i)].encoding)
        [] n.form = "other" -> "unsupported"

(* A digest that is none is refused at any level, before the level is      *)
(* looked at; the digests are compared at the full level only.             *)
ChecksumFault(d) ==
  FirstFault(<<
    Check(d.checksum = "malformed", "invalid"),
    Check(level = "full" /\ d.checksum = "unknown", "unsupported"),
    Check(level = "full" /\ d.checksum = "bad", "integrity")>>)

BlockLength(d) == IF HasCompression(d) THEN d.decoded ELSE d.size
BlockFault(n, d) ==
  FirstFault(<<
    Check(structures + 1 + Len(d.subblocks) > MaxStructures, "limit"),
    CompressionFault(d, d.size),
    Check(IsImage(n) /\ HasCompression(d) /\ d.item > 0 /\ d.item # SampleSize(n), "invalid"),
    ExpectedFault(n),
    Check(Expected(n) \notin {-1, BlockLength(d)}, "invalid"),
    Check(n.order \notin {"none", "little", "big"}, "invalid"),
    Check(decoded + BlockLength(d) > MaxInt, "invalid"),
    Check(decoded + BlockLength(d) > MaxDecoded, "limit"),
    ChecksumFault(d),
    Check(/\ level = "full" /\ HasCompression(d)
          /\ d.codec \notin {"zlib", "lz4", "lz4hc", "zstd"}, "unsupported")>>)

Advance ==
  /\ phase' = "element" /\ at' = at + 1 /\ part' = 1 /\ offset' = 0
  /\ taken' = 0 /\ given' = 0

(* An element without a block: a Reference, or one with no location.       *)
PassElement ==
  /\ At("element") /\ at \in DOMAIN nodes
  /\ LET n == nodes[at]
         fault == IF n.name = "Reference" THEN ReferenceFault(at) ELSE RoleFault(at)
     IN  /\ n.name = "Reference" \/ n.form = "none" \/ fault # "none"
         /\ \/ fault # "none" /\ Refuse(fault)
            \/ fault = "none" /\ Advance /\ UNCHANGED <<counters, verdict, blocks>>
  /\ UNCHANGED <<file, level, loading>>

(* An element with a block, up to its checksum. *)
CheckBlock ==
  /\ At("element") /\ at \in DOMAIN nodes
  /\ LET n == nodes[at]
     IN  /\ n.name # "Reference" /\ n.form # "none" /\ RoleFault(at) = "none"
         /\ \/ PlaceFault(at) # "none" /\ Refuse(PlaceFault(at))
            \/ /\ PlaceFault(at) = "none"
               /\ LET d == nodes[Description(at)]
                      fault == BlockFault(n, d)
                  IN  \/ fault # "none" /\ Refuse(fault)
                      \/ /\ fault = "none"
                         /\ structures' = structures + 1 + Len(d.subblocks)
                         /\ decoded' = decoded + BlockLength(d)
                         /\ images' = IF n.name = "Image" THEN images + 1 ELSE images
                         /\ present' = IF d.checksum = "none" THEN present ELSE present + 1
                         /\ verified' = IF level = "full" THEN verified + present' - present
                                        ELSE verified
                         /\ undecoded' = undecoded \cup
                              (IF level = "structural" /\ HasCompression(d)
                               THEN {d.codec} ELSE {})
                         /\ blocks' = blocks \cup {at}
                         /\ IF level = "full" /\ HasCompression(d)
                            THEN phase' = "decode" /\ UNCHANGED <<at, part, offset, progress>>
                            ELSE Advance
                         /\ UNCHANGED verdict
  /\ UNCHANGED <<file, level, loading>>

-----------------------------------------------------------------------------
(* The parts of a compressed block, one after the other (decode).          *)

Block == nodes[Description(at)]
Piece == Parts(Block, Block.size)[part]
Current == CHOOSE k \in FrameAt(Block, offset) : TRUE
Source == Block.frames[Current]

NextPart ==
  IF part = Len(Parts(Block, Block.size)) THEN Advance
  ELSE /\ part' = part + 1 /\ offset' = offset + Piece[1]
       /\ phase' = "decode" /\ taken' = 0 /\ given' = 0 /\ UNCHANGED at

(* The bytes of a part: of the block, or, read in one piece from the file, *)
(* of the file.                                                            *)
StorageFault(n, d, start, length) ==
  IF d.codec \in {"lz4", "lz4hc"} /\ n.form = "attachment"
  THEN RangeFault(n.offset + start, length, file.size)
  ELSE Check(start + length > d.size, "invalid")

(* LZ4: whole blocks, into exactly the declared length. *)
DecodeWhole ==
  /\ At("decode") /\ Block.codec \in {"lz4", "lz4hc"}
  /\ LET fault == FirstFault(<<StorageFault(nodes[at], Block, offset, Piece[1]),
                              PartFault(Block, offset, Piece)>>)
     IN  \/ fault # "none" /\ Refuse(fault)
         \/ fault = "none" /\ NextPart /\ UNCHANGED <<counters, verdict, blocks>>
  /\ UNCHANGED <<file, level, loading>>

(* streaming::zlib and streaming::zstd up to their decoder, the latter     *)
(* with the requirements its frame states.                                 *)
OpenPart ==
  /\ At("decode") /\ Block.codec \in {"zlib", "zstd"}
  /\ LET zstd == Block.codec = "zstd"
         none == FrameAt(Block, offset) = {}
         fault == FirstFault(<<
           Check(zstd /\ Piece[1] = 0, "integrity"),
           Check(zstd /\ structures >= MaxStructures, "limit"),
           StorageFault(nodes[at], Block, offset, Piece[1]),
           Check(none, "integrity"),
           Check(zstd /\ ~none /\ History(Source) > MaxWorking, "limit")>>)
     IN  \/ fault # "none" /\ Refuse(fault)
         \/ /\ fault = "none"
            /\ structures' = IF zstd THEN structures + 1 ELSE structures
            /\ phase' = IF zstd THEN "frame" ELSE "inflate"
            /\ UNCHANGED <<at, part, offset, progress, decoded, images, present,
                           verified, undecoded, verdict, blocks>>
  /\ UNCHANGED <<file, level, loading>>

(* Room for one byte more than is missing, so that too many are noticed.   *)
Capacity == Min({Piece[2] - given + 1, Scratch})
Give == 0..Min({Capacity, Source.decoded - given})
Readable == Min({Piece[1], Source.stored})
Take == 0..(Readable - taken)

(* One call of Decompress: it moves on while it can, and ends with the     *)
(* frame.                                                                  *)
Inflate ==
  /\ At("inflate")
  /\ \E c \in Take, p \in Give :
       /\ p > 0 => taken + c > 0
       /\ c + p = 0 => taken = Readable /\ taken < Source.stored
       /\ LET ended == taken + c = Source.stored /\ given + p = Source.decoded
              exact == taken + c = Piece[1] /\ given + p = Piece[2]
          IN  \/ /\ given + p > Piece[2] \/ (ended /\ ~exact) \/ c + p = 0
                 /\ Refuse("integrity")
              \/ /\ ended /\ exact
                 /\ NextPart /\ UNCHANGED <<counters, verdict, blocks>>
              \/ /\ given + p <= Piece[2] /\ ~ended /\ c + p > 0
                 /\ taken' = taken + c /\ given' = given + p
                 /\ UNCHANGED <<phase, at, part, offset, counters, verdict, blocks>>
  /\ UNCHANGED <<file, level, loading>>

(* One turn of decode_zstd_frame: a read that gives nothing is the end of  *)
(* the frame; one that lacks input fails.                                  *)
ReadFrame ==
  /\ At("frame")
  /\ \/ Piece[1] < Source.stored /\ Refuse("integrity")
     \/ \E c \in Take, p \in Give \ {0} :
          /\ taken + c > 0
          /\ \/ given + p > Piece[2] /\ Refuse("integrity")
             \/ /\ given + p <= Piece[2]
                /\ taken' = taken + c /\ given' = given + p
                /\ UNCHANGED <<phase, at, part, offset, counters, verdict, blocks>>
     \/ /\ given = Source.decoded /\ Source.stored <= Piece[1]
        /\ \/ /\ Source.stored # Piece[1] \/ given # Piece[2]
              /\ Refuse("integrity")
           \/ /\ Source.stored = Piece[1] /\ given = Piece[2]
              /\ NextPart /\ UNCHANGED <<counters, verdict, blocks>>
  /\ UNCHANGED <<file, level, loading>>

Finish ==
  /\ At("element") /\ at = Len(nodes) + 1
  /\ verdict' = IF blocks = {} /\ images > 0 THEN "invalid" ELSE "valid"
  /\ UNCHANGED <<file, level, place, counters, blocks, loading>>
-----------------------------------------------------------------------------
(* The loader: parse_image_data_block, decode_compressed_image, decode.    *)

FirstImage ==
  LET images_ == {i \in DOMAIN nodes : nodes[i].name = "Image"}
  IN  IF images_ = {} THEN 0 ELSE Min(images_)

HeaderReadable == EnvelopeFault(file) = "none"
Decodable(n) == n.format = "UInt16" /\ LayoutFault(n) = "none"

Capable(n) ==
  /\ DescriptorFault(n) = "none"
  /\ Len(n.dims) = 3 /\ Decodable(n) /\ n.dims[3] = 1
  /\ n.form = "attachment"
  /\ n.offset >= XmlEnd(file) /\ RangeFault(n.offset, n.size, file.size) = "none"
  /\ CompressionFault(n, n.size) = "none"
  /\ IF HasCompression(n)
     THEN n.codec = "zstd" /\ n.decoded = ImageBytes(n) /\ n.item \in {-1, 2}
     ELSE n.size = ImageBytes(n)

(* The bytes of the block, known by their place in the samples: a writer   *)
(* shuffles them by planes, which Written states without an index sum.     *)
Written(length, item) ==
  LET whole == (length \div item) * item
      before(a, b) == \/ a % item < b % item
                      \/ a % item = b % item /\ a < b
  IN  [t \in 1..length |->
        IF t > whole THEN t
        ELSE 1 + CHOOSE a \in 0..(whole - 1) :
               Cardinality({b \in 0..(whole - 1) : before(b, a)}) = t - 1]
Stored(n) ==
  Written(ImageBytes(n), IF HasCompression(n) /\ n.item > 0 THEN n.item ELSE 1)

Sample(n, bytes, k) ==
  IF n.order = "big" THEN <<bytes[2 * k - 1], bytes[2 * k]>>
  ELSE <<bytes[2 * k], bytes[2 * k - 1]>>

Decoded(n, bytes) == [k \in 1..(Len(bytes) \div 2) |-> Sample(n, bytes, k)]

(* Mutant: it reads ahead beyond the part. *)
FetchedAnywhere(length, consumed) == Ahead * ((consumed + Ahead - 1) \div Ahead)

(* What ReaderInput has read of a part of which a decoder consumed so much. *)
Fetched(length, consumed) ==
  Min({length, Ahead * ((consumed + Ahead - 1) \div Ahead)})

(* The loader shares nothing with the validator but the file: here it      *)
(* comes second.                                                           *)
Loaded(n, bytes) == loaded' = "ok" /\ pixels' = Decoded(n, bytes)
LoadImage ==
  /\ verdict # "none" /\ loaded = "no"
  /\ LET n == nodes[FirstImage]
         fits == HeaderReadable /\ FirstImage > 0 /\ Capable(n)
     IN  \/ ~fits /\ loaded' = "error" /\ UNCHANGED pixels
         \/ fits /\ HasCompression(n) /\ loaded' = "parts" /\ UNCHANGED pixels
         \/ fits /\ ~HasCompression(n) /\ Loaded(n, Stored(n))
  /\ UNCHANGED <<file, level, place, counters, verdict, blocks, piece, source>>

(* The parts are read one after the other, without a seek between them. *)
LoadPart ==
  /\ loaded = "parts"
  /\ LET n == nodes[FirstImage]
         parts == Parts(n, n.size)
         frames == FrameAt(n, source)
         fails == \/ frames = {} \/ PartFault(n, source, parts[piece]) # "none"
                  \/ \E k \in frames : History(n.frames[k]) > MaxHistory
     IN  \/ fails /\ loaded' = "error" /\ UNCHANGED <<piece, source, pixels>>
         \/ /\ ~fails
            /\ \E k \in frames :
                 source' = source + Fetched(parts[piece][1], n.frames[k].stored)
            /\ piece' = piece + 1
            /\ IF piece < Len(parts) THEN UNCHANGED <<loaded, pixels>>
               ELSE Loaded(n, IF n.item > 0 THEN Unshuffle(Stored(n), n.item) ELSE Stored(n))
  /\ UNCHANGED <<file, level, place, counters, verdict, blocks>>

Next ==
  \/ OpenContainer \/ CheckUids \/ PassElement \/ CheckBlock
  \/ DecodeWhole \/ OpenPart \/ Inflate \/ ReadFrame
  \/ Finish \/ LoadImage \/ LoadPart
Spec == Init /\ [][Next]_vars
-----------------------------------------------------------------------------
(* In a valid file a Reference names one element with data of its own, so  *)
(* that references cannot be chained.  A checksum, compression or list of  *)
(* subblocks that an element carries belongs to exactly one checked block, *)
(* whether it stands on the element or on its Data child; a full           *)
(* validation has compared every checksum, and a structural one has named  *)
(* every codec it did not try.  A full one has decoded every part, and     *)
(* found in it one frame, all of it, of the declared length: nothing       *)
(* follows the frame, and no byte of it is missing.                        *)
NothingIsIgnored ==
  verdict = "valid" =>
    LET referable == {k \in DOMAIN nodes : nodes[k].name # "Reference"}
        references == DOMAIN nodes \ referable
        described == {i \in referable : HasDescriptor(nodes[i])}
        sums == {i \in described : nodes[i].checksum # "none"}
    IN  /\ \A i \in references :
             Cardinality({k \in referable : nodes[k].uid = nodes[i].ref}) = 1
        /\ \A i \in described : Cardinality({b \in blocks : Description(b) = i}) = 1
        /\ present = Cardinality(sums)
        /\ IF level = "full"
           THEN /\ verified = present /\ \A i \in sums : nodes[i].checksum = "good"
                /\ \A i \in described : HasCompression(nodes[i]) =>
                     LET parts == Parts(nodes[i], nodes[i].size)
                     IN  \A p \in DOMAIN parts :
                           PartFault(nodes[i], Before(parts, p - 1, 1), parts[p])
                             = "none"
           ELSE /\ verified = 0
                /\ undecoded = {nodes[i].codec : i \in described} \ {"none"}

(* What has been decoded, parts of the block at work included, is within   *)
(* what was admitted before it, and so are the structures; the parts of a  *)
(* block lie one after the other inside its stored bytes, and a decoder    *)
(* never passes the end of its part.                                       *)
WorkIsAdmitted ==
  LET d == nodes[Description(at)]
      parts == Parts(d, d.size)
      done == {b \in blocks : b < at}
  IN  /\ decoded <= MaxDecoded
      /\ phase # "open" => structures <= MaxStructures
      /\ phase \in {"decode", "inflate", "frame"} =>
           /\ taken <= parts[part][1] /\ given <= parts[part][2]
           /\ offset + parts[part][1] <= d.size
           /\ part = Len(parts) => offset + parts[part][1] = d.size
           /\ Before(parts, part, 2) + Total([b \in done |-> BlockLength(nodes[Description(b)])])
                <= decoded

(* An identifier on a Reference, an empty one, or one on two elements. *)
IdentifiersClash ==
  \/ \E i \in Identified : nodes[i].name = "Reference" \/ nodes[i].uid = ""
  \/ \E i, j \in Identified : i # j /\ nodes[i].uid = nodes[j].uid

(* A check of the element at work, before its parts, fails with this kind. *)
ElementFails(kind) ==
  LET n == nodes[at]
  IN  IF n.name = "Reference" THEN ReferenceFault(at) = kind
      ELSE \/ RoleFault(at) = kind
           \/ n.form # "none" /\ (PlaceFault(at) = kind \/ BlockFault(n, Block) = kind)

(* What validate stopped at is nothing that the loader looks at: another   *)
(* image's descriptor, an identifier, the checksum of the first image, a   *)
(* sum of decoded bytes beyond 64 bits, or another element and its parts.  *)
UnseenByLoader ==
  /\ phase = "open" =>
       \E k \in DOMAIN nodes \ {FirstImage} :
         IsImage(nodes[k]) /\ DescriptorFault(nodes[k]) # "none"
  /\ phase = "uids" => IdentifiersClash
  /\ phase = "element" =>
       IF at = FirstImage
       THEN \/ ChecksumFault(nodes[at]) # "none"
            \/ decoded + BlockLength(nodes[at]) > MaxInt
       ELSE at \in DOMAIN nodes /\ ElementFails(verdict)
  /\ phase \in {"decode", "inflate", "frame"} =>
       at # FirstImage /\ PartFault(Block, offset, Piece) # "none"

(* The validator and the loader read the same image.  Where the loader     *)
(* shows it, a refusal is for a limit of the validator's own or for what   *)
(* the loader does not look at: never for the envelope, the geometry, the  *)
(* place, the compression or a part of this image.  And an image of the    *)
(* kind the loader supports is shown if the file is valid, except for the  *)
(* history of its frames.                                                  *)
LoaderAgrees ==
  LET n == nodes[FirstImage]
  IN  /\ loaded = "ok" /\ verdict \notin {"none", "valid", "limit"} => UnseenByLoader
      /\ (/\ loaded = "error" /\ verdict = "valid" /\ level = "full" /\ FirstImage > 0
          /\ Len(n.dims) = 3 /\ n.dims[3] = 1 /\ n.format = "UInt16"
          /\ n.form = "attachment" /\ n.codec \in {"none", "zstd"})
            => \E k \in DOMAIN n.frames : History(n.frames[k]) > MaxHistory

(* The pixels the loader returns are the samples in their order, in either *)
(* byte order of the file and with or without a shuffle of 16-bit items,   *)
(* which are the only items it takes.                                      *)
PixelsAreSamples ==
  loaded = "ok" =>
    LET n == nodes[FirstImage]
    IN  pixels = [k \in 1..Product(n.dims) |->
          IF n.order = "big" THEN <<2 * k - 1, 2 * k>> ELSE <<2 * k, 2 * k - 1>>]
=============================================================================
