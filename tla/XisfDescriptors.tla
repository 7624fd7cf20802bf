-------------------------- MODULE XisfDescriptors --------------------------
(***************************************************************************)
(* What the validator and the loader of XISF files share: the prefix of    *)
(* the file and checked ranges, the size of an image, the compression      *)
(* descriptor, and the byte shuffle (xisf/structural.rs, xisf/codec.rs).   *)
(*                                                                         *)
(* An element is a record of what the code reads of it:                    *)
(*   name, parent         its name and the index of its parent, 0: none    *)
(*   uid, ref             identifiers, "none" where absent                 *)
(*   form, offset, size   location: "none", "attachment", "inline",        *)
(*                        "embedded" or "other", and the extent            *)
(*   encoding, sound      of the text: base64, hex, other or none; whether *)
(*                        it can be decoded; size is the decoded length    *)
(*   checksum             none, good, bad, malformed or unknown            *)
(*   codec, decoded, item the compression: none and malformed are codecs;  *)
(*                        item is -1 without a shuffle                     *)
(*   subblocks            pairs <<stored, decoded>>, << >> where absent;   *)
(*                        <<0, 0>> for one that is no pair of numbers      *)
(*   dims, format, order  geometry, sampleFormat and byteOrder             *)
(*   width, counts        of a Property: bytes of an element (0 if not     *)
(*                        numeric), and length, or rows and columns        *)
(*   frames               what the stored bytes are: frames with their     *)
(*                        stored and decoded length and their window       *)
(***************************************************************************)
EXTENDS Faults, FiniteSets

CONSTANTS
  MaxInt,     \* u64::MAX
  PrefixLen,  \* 16
  MinHistory  \* 1024

ASSUME DescriptorAssumption ==
  {MaxInt, PrefixLen, MinHistory} \subseteq Nat \ {0}

Frames == [stored : Nat \ {0}, decoded : Nat, window : Nat]
Elements ==
  [name : STRING, parent : Nat, uid : STRING, ref : STRING,
   form : {"none", "attachment", "inline", "embedded", "other"},
   offset : Nat, size : Nat, encoding : STRING, sound : BOOLEAN,
   checksum : {"none", "good", "bad", "malformed", "unknown"},
   codec : STRING, decoded : Nat, item : Nat \cup {-1},
   subblocks : Seq(Nat \X Nat), dims : Seq(Nat), format : STRING, order : STRING,
   width : Nat, counts : Seq(Nat), frames : Seq(Frames)]

(* checked_range *)
RangeFault(start, length, sourceLen) ==
  FirstFault(<<
    Check(start + length > MaxInt, "invalid"),
    Check(start + length > sourceLen, "incomplete")>>)

(* MonolithicEnvelope::parse, of a file with the signature.  The prefix is *)
(* there as far as the file is.                                            *)
EnvelopeFault(file) ==
  FirstFault(<<
    Check(file.size < PrefixLen, "incomplete"),
    Check(~file.reservedZero, "invalid"),
    RangeFault(PrefixLen, file.xmlLen, file.size)>>)
XmlEnd(file) == PrefixLen + file.xmlLen
-----------------------------------------------------------------------------
SampleSizes ==
  [UInt8 |-> 1, UInt16 |-> 2, UInt32 |-> 4, Float32 |-> 4, UInt64 |-> 8,
   Float64 |-> 8, Complex32 |-> 8, Complex64 |-> 16]
SampleSize(n) == IF n.format \in DOMAIN SampleSizes THEN SampleSizes[n.format] ELSE 0

(* ImageDescriptor::parse *)
DescriptorFault(n) ==
  FirstFault(<<
    Check(0 \in ToSet(n.dims) \/ Len(n.dims) < 2, "invalid"),
    Check(n.format = "none" \/ n.form = "none", "invalid"),
    Check(n.order \notin {"none", "little", "big"}, "invalid")>>)

(* sample_layout: the dimensions are not zero, so a product that overflows *)
(* stays too large.                                                        *)
LayoutFault(n) ==
  FirstFault(<<
    Check(Product(n.dims) > MaxInt, "invalid"),
    Check(SampleSize(n) = 0, "unsupported"),
    Check(Product(n.dims) * SampleSize(n) > MaxInt, "invalid")>>)
ImageBytes(n) == Product(n.dims) * SampleSize(n)
-----------------------------------------------------------------------------
(* Compression::parse and checked_subblock_totals.                         *)

HasCompression(n) == n.codec # "none"
Parts(n, stored) == IF n.subblocks = <<>> THEN <<<<stored, n.decoded>>>> ELSE n.subblocks

(* The stored lengths (k = 1) or the decoded ones (k = 2) of the first     *)
(* parts.                                                                  *)
Before(parts, p, k) == RunningSums([i \in DOMAIN parts |-> parts[i][k]])[p]
PartTotal(parts, k) == Before(parts, Len(parts), k)

(* Mutant: only the stored lengths have to add up. *)
StoredCompressionFault(n, stored) ==
  IF ~HasCompression(n) THEN Check(n.subblocks # <<>>, "invalid")
  ELSE FirstFault(<<
    Check(n.codec = "malformed" \/ n.item = 0, "invalid"),
    Check(\E k \in DOMAIN n.subblocks : 0 \in ToSet(n.subblocks[k]), "invalid"),
    Check(PartTotal(Parts(n, stored), 1) # stored, "invalid")>>)

CompressionFault(n, stored) ==
  IF ~HasCompression(n) THEN Check(n.subblocks # <<>>, "invalid")
  ELSE FirstFault(<<
    Check(n.codec = "malformed" \/ n.item = 0, "invalid"),
    Check(\E k \in DOMAIN n.subblocks : 0 \in ToSet(n.subblocks[k]), "invalid"),
    Check(\E k \in {1, 2} : PartTotal(Parts(n, stored), k) > MaxInt, "invalid"),
    Check(PartTotal(Parts(n, stored), 1) # stored, "invalid"),
    Check(PartTotal(Parts(n, stored), 2) # n.decoded, "invalid"),
    Check(n.item > n.decoded, "invalid")>>)

(* The frame that starts at an offset of the stored bytes, if one does.    *)
FrameAt(n, offset) ==
  {k \in DOMAIN n.frames :
     RunningSums([f \in DOMAIN n.frames |-> n.frames[f].stored])[k - 1] = offset}

(* zstd_frame_requirements: the history is the window, at least MinHistory *)
(* and rounded to a power of two.                                          *)
History(frame) ==
  LET need == Max({frame.window, MinHistory})
  IN  Min({p \in {2^k : k \in 0..need} : p >= need})

(* A part decodes if it is one frame, all of it, of the declared length.   *)
PartFault(n, offset, part) ==
  LET at == FrameAt(n, offset)
  IN  Check(\A k \in at : \/ n.frames[k].stored # part[1]
                          \/ n.frames[k].decoded # part[2], "integrity")
-----------------------------------------------------------------------------
(* Mutant: rows and columns are taken for each other. *)
UnshuffleSwapped(input, item) ==
  LET items == Len(input) \div item
      source(target) == (target % items) * item + target \div items
  IN  [t \in DOMAIN input |->
        IF t <= items * item THEN input[source(t - 1) + 1] ELSE input[t]]

(* unshuffle, with sequences counted from 1.  Bytes beyond the last whole  *)
(* item stay where they are.                                               *)
Unshuffle(input, item) ==
  LET items == Len(input) \div item
      source(target) == (target % item) * items + target \div item
  IN  [t \in DOMAIN input |->
        IF t <= items * item THEN input[source(t - 1) + 1] ELSE input[t]]
=============================================================================
