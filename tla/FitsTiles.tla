------------------------------ MODULE FitsTiles ------------------------------
(***************************************************************************)
(* One table of a FITS file, from the check of its columns to the decoding *)
(* of the tiles of an image that is compressed into it (binary_table,      *)
(* ascii_table, tile_layout and validate_tiles of validation/fits.rs,      *)
(* fits/tiles.rs, fits/gzip.rs, fits/rice.rs, fits/plio.rs).  Where the    *)
(* table stands in its file is FitsWalk's, the decoding of HCOMPRESS is    *)
(* Hcompress's.                                                            *)
(*                                                                         *)
(* A stream of the heap is a record with its kind and                      *)
(*   gzip      header (good, bad, long), out (bytes that it inflates to),  *)
(*             deflate (ended, broken), trailer (good, bad), rest (none,   *)
(*             byte, member)                                               *)
(*   rice      bits, samples (what was encoded), clean (undamaged)         *)
(*   plio      header (good, extent, unknown, size), words (pairs of       *)
(*             opcode and data, triples with the word that follows for     *)
(*             opcode 1), pixels (how many were encoded), clean            *)
(*   hcompress dims, planes (its largest count), sound                     *)
(*   raw       any bytes                                                   *)
(* The file does not change and the call is not cancelled: that is         *)
(* ValidateFile's.                                                         *)
(***************************************************************************)
EXTENDS FitsTables

CONSTANTS
  Plans,          \* tables to choose from: table p for each p of Plans
  Table(_),
  MaxStructures,  \* limits.structures
  MaxDecoded,     \* limits.decoded
  MaxBlock,       \* 65536
  MaxHigh         \* 0xffffff

ASSUME TilesAssumption ==
  /\ {MaxStructures, MaxDecoded, MaxBlock, MaxHigh} \subseteq Nat
  /\ \A p \in Plans : IsTable(Table(p))

VARIABLES
  t, level,       \* the table, and options.level
  phase, verdict, \* place in the code, and how the table was judged
  field, row,     \* column and row at work
  structures, decoded, undecoded,  \* of the call
  job,            \* the stream at work, and what it must decode to
  left, done, value, code, block,  \* of the decoder, see below
  outputs         \* history: the jobs done, with what they gave

input == <<t, level>>
counters == <<structures, decoded, undecoded>>
decoder == <<left, done, value, code, block>>
vars == <<input, phase, verdict, field, row, counters, job, decoder, outputs>>

NoJob == [codec |-> "none"]
Rice == {"RICE_1", "RICE_ONE"}
Gzip == {"GZIP_1", "GZIP_2"}
Codecs == Rice \cup Gzip \cup {"PLIO_1", "HCOMPRESS_1", "NOCOMPRESS"}

Init ==
  /\ \E p \in Plans : t = Table(p)
  /\ level \in {"structural", "full"}
  /\ phase = IF t.kind = "ascii" THEN "ascii" ELSE "heap"
  /\ verdict = "none"
  /\ field = 1 /\ row = 1
  /\ structures = 0 /\ decoded = 0 /\ undecoded = {}
  /\ job = NoJob
  /\ left = <<>> /\ done = <<>> /\ value = 0 /\ code = 0 /\ block = 0
  /\ outputs = <<>>

At(p) == verdict = "none" /\ phase = p
Judge(kind) ==
  /\ verdict' = kind
  /\ UNCHANGED <<input, phase, field, row, counters, job, decoder, outputs>>
Go(p) == phase' = p /\ UNCHANGED <<input, verdict, decoder, outputs>>
-----------------------------------------------------------------------------
CheckAscii ==
  /\ At("ascii")
  /\ Judge(IF AsciiFault(t) = "none" THEN "valid" ELSE AsciiFault(t))

CheckHeap ==
  /\ At("heap")
  /\ \/ HeapFault(t) # "none" /\ Judge(HeapFault(t))
     \/ /\ HeapFault(t) = "none"
        /\ Go("fields") /\ UNCHANGED <<field, row, counters, job>>

(* A structure for the column and for each of its descriptors.             *)
CheckField ==
  /\ At("fields") /\ field \in DOMAIN t.fields
  /\ LET f == t.fields[field]
         items == IF f.form # "none" /\ f.repeat = 1 THEN t.rows ELSE 0
         fault == FirstFault(<<
           Check(structures + 1 > MaxStructures, "limit"),
           FieldFault(t, field),
           Check(structures + 1 + items > MaxStructures, "limit")>>)
     IN  \/ fault # "none" /\ Judge(fault)
         \/ /\ fault = "none"
            /\ structures' = structures + 1 + items
            /\ field' = field + 1
            /\ Go("fields") /\ UNCHANGED <<row, decoded, undecoded, job>>

CheckLayout ==
  /\ At("fields") /\ field = Len(t.fields) + 1
  /\ LET bytes == decoded + ImagePixels(t) * SampleBytes(t)
         fault == FirstFault(<<
           Check(ColumnStart(t, field) # t.rowSize, "invalid"),
           GeometryFault(t),
           IF GeometryFault(t) = "none" THEN Check(bytes > MaxDecoded, "limit") ELSE "none",
           IF GeometryFault(t) = "none" THEN CountFault(t) ELSE "none">>)
     IN  \/ fault # "none" /\ Judge(fault)
         \/ /\ fault = "none"
            /\ decoded' = bytes
            /\ Go("dispatch") /\ UNCHANGED <<field, row, structures, undecoded, job>>

(* validate_tiles: after the checksums, which FitsWalk has.                *)
Dispatch ==
  /\ At("dispatch")
  /\ \/ /\ level = "structural"
        /\ undecoded' = {t.codec} /\ verdict' = "valid"
        /\ UNCHANGED <<input, phase, field, row, structures, decoded, job, decoder, outputs>>
     \/ level = "full" /\ t.codec \notin Codecs /\ Judge("unsupported")
     \/ /\ level = "full" /\ t.codec \in Codecs
        /\ LET fault == FirstFault(<<ColumnsFault(t),
                          IF ColumnsFault(t) = "none" THEN ParameterFault(t) ELSE "none">>)
           IN  \/ ~Supported(t) /\ fault # "none" /\ Judge(fault)
               \/ /\ Supported(t) \/ fault = "none"
                  /\ Go(IF Supported(t) THEN "fast" ELSE "row")
                  /\ UNCHANGED <<field, row, counters, job>>
-----------------------------------------------------------------------------
(* The rows, in gzip.rs and in tiles.rs.                                   *)

Stream(extent) ==
  IF extent \in DOMAIN t.heap THEN t.heap[extent] ELSE [kind |-> "raw"]

FastRowFault(r) ==
  LET cell == t.cells[r][1]
  IN  FirstFault(<<
        Check(cell[1] < 0 \/ cell[2] < 0 \/ cell[2] + cell[1] > HeapSize(t), "invalid"),
        Check(cell[1] = 0, "invalid")>>)

TakeFastRow ==
  /\ At("fast") /\ row <= t.rows
  /\ \/ FastRowFault(row) # "none" /\ Judge(FastRowFault(row))
     \/ /\ FastRowFault(row) = "none"
        /\ job' = [codec |-> t.codec, extent |-> Extent(t, row, 1), mask |-> FALSE,
                   pixels |-> TilePixels(t, row), width |-> SampleBytes(t), block |-> 0]
        /\ Go("decode") /\ UNCHANGED <<field, row, counters>>

Active(r) == {role \in {"data", "gzip", "raw"} : Payload(t, r, role)[2] > 0}

(* What has to hold of a row before its codec starts.                      *)
DataFault(r) ==
  LET type == t.fields[CHOOSE i \in Column(t, "data") : TRUE].type
      width == IF Quantized(t, r) THEN 4 ELSE SampleBytes(t)
      float == t.bitpix < 0 /\ ~Quantized(t, r)
      scale == Scalar(t, r, "scale")
      zero == Scalar(t, r, "zero")
      dims == TileDims(t, r)
  IN  FirstFault(<<
        ScalarFault(scale), ScalarFault(zero),
        Check((scale = "none") # (zero = "none"), "invalid"),
        Check(/\ t.codec = "HCOMPRESS_1"
              /\ Product(dims) # Product(SubSeq(dims, 1, Min({2, Len(dims)}))), "unsupported"),
        Check(t.codec \in Rice \cup {"PLIO_1", "HCOMPRESS_1"} /\ float, "unsupported"),
        Check(t.codec \in Rice /\ t.bytepix # width, "invalid"),
        Check(t.codec \in Gzip \cup Rice \cup {"HCOMPRESS_1"} /\ type # "B", "invalid"),
        Check(t.codec = "PLIO_1" /\ type # "I", "invalid"),
        Check(t.codec = "NOCOMPRESS" /\ Payload(t, r, "data")[2] # Product(dims) * width,
              "integrity")>>)

RawType(bitpix) ==
  CASE bitpix = 8 -> "B" [] bitpix = 16 -> "I" [] bitpix = 32 -> "J"
    [] bitpix = 64 -> "K" [] bitpix = -32 -> "E" [] bitpix = -64 -> "D"

RowFault(r) ==
  FirstFault(<<
    PayloadFault(t, r, "data"), PayloadFault(t, r, "gzip"), PayloadFault(t, r, "raw"),
    Check(Cardinality(Active(r)) # 1, "invalid"),
    IF Active(r) = {"data"} THEN DataFault(r) ELSE "none",
    IF Active(r) = {"raw"}
    THEN Check(\/ t.fields[CHOOSE i \in Column(t, "raw") : TRUE].type # RawType(t.bitpix)
               \/ Payload(t, r, "raw")[2] # TilePixels(t, r) * SampleBytes(t), "integrity")
    ELSE "none">>)

RowJob(r) ==
  LET role == CHOOSE x \in Active(r) : TRUE
  IN  [codec |-> CASE role = "data" -> t.codec [] role = "gzip" -> "GZIP_1"
                   [] role = "raw" -> "NOCOMPRESS",
       extent |-> Payload(t, r, role), mask |-> FALSE,
       pixels |-> TilePixels(t, r),
       width |-> IF role = "data" /\ Quantized(t, r) THEN 4 ELSE SampleBytes(t),
       block |-> t.block]

TakeRow ==
  /\ At("row") /\ row <= t.rows
  /\ \/ RowFault(row) # "none" /\ Judge(RowFault(row))
     \/ /\ RowFault(row) = "none"
        /\ job' = RowJob(row)
        /\ Go("decode") /\ UNCHANGED <<field, row, counters>>

(* The null mask of a tile, a payload of its own.                          *)
TakeMask ==
  /\ At("mask")
  /\ LET extent == Payload(t, row, "mask")
         pixels == TilePixels(t, row)
         fault == FirstFault(<<
           PayloadFault(t, row, "mask"),
           Check(extent[2] > 0 /\ decoded + pixels > MaxDecoded, "limit"),
           Check(extent[2] > 0 /\ t.maskcmp \notin Gzip \cup Rice \cup {"PLIO_1"},
                 "unsupported")>>)
     IN  \/ fault # "none" /\ Judge(fault)
         \/ /\ fault = "none" /\ extent[2] = 0
            /\ row' = row + 1
            /\ Go("row") /\ UNCHANGED <<field, counters, job>>
         \/ /\ fault = "none" /\ extent[2] > 0
            /\ decoded' = decoded + pixels
            /\ job' = [codec |-> t.maskcmp, extent |-> extent, mask |-> TRUE,
                       pixels |-> pixels, width |-> 1, block |-> 32]
            /\ Go("decode") /\ UNCHANGED <<field, row, structures, undecoded>>

EndRows ==
  /\ phase \in {"fast", "row"} /\ verdict = "none" /\ row > t.rows
  /\ Judge("valid")

(* A stream is done: on to the mask of the row, or to the next one.        *)
Complete(count, samples) ==
  /\ outputs' = Append(outputs, [job |-> job, count |-> count, samples |-> samples])
  /\ job' = NoJob
  /\ left' = <<>> /\ done' = <<>> /\ value' = 0 /\ code' = 0 /\ block' = 0
  /\ IF HasColumn(t, "mask") /\ ~job.mask /\ ~Supported(t)
     THEN phase' = "mask" /\ UNCHANGED row
     ELSE /\ phase' = IF Supported(t) THEN "fast" ELSE "row"
          /\ row' = row + 1
  /\ UNCHANGED <<input, verdict, field, counters>>
-----------------------------------------------------------------------------
(* GZIP, HCOMPRESS and plain bytes.                                        *)

(* stream of gzip.rs *)
GzipFault(s, expected) ==
  FirstFault(<<
    Check(s.header = "long", "limit"),
    Check(s.header = "bad" \/ s.out > expected \/ s.deflate = "broken", "integrity"),
    Check(s.trailer = "bad", "integrity"),
    Check(s.rest = "member", "unsupported"),
    Check(s.rest = "byte" \/ s.out # expected, "integrity")>>)

(* validate of hcompress.rs, whose header has the slow axis first.         *)
HcompressFault(s) ==
  LET dims == TileDims(t, row)
      tile == <<dims[1], IF Len(dims) > 1 THEN dims[2] ELSE 1>>
      width == IF t.bitpix \in {8, 16} THEN 32 ELSE 64
  IN  Check(s.dims # tile \/ s.planes > width \/ ~s.sound, "integrity")

DecodeWhole ==
  /\ At("decode") /\ job.codec \in Gzip \cup {"HCOMPRESS_1", "NOCOMPRESS"}
  /\ LET s == Stream(job.extent)
         expected == job.pixels * job.width
         fault == CASE job.codec = "NOCOMPRESS" -> "none"
                    [] job.codec = "HCOMPRESS_1" ->
                         IF s.kind = "hcompress" THEN HcompressFault(s) ELSE "integrity"
                    [] OTHER -> IF s.kind = "gzip" THEN GzipFault(s, expected) ELSE "integrity"
     IN  \/ fault # "none" /\ Judge(fault)
         \/ fault = "none" /\ Complete(expected, <<>>)
-----------------------------------------------------------------------------
(* Rice.  left is the bits not yet read, done the samples, value the last  *)
(* one, code the parameter of the block and block the samples left in it.  *)

Form(bytepix) ==
  CASE bytepix = 1 -> [fs |-> 3, max |-> 6, width |-> 8]
    [] bytepix = 2 -> [fs |-> 4, max |-> 14, width |-> 16]
    [] bytepix = 4 -> [fs |-> 5, max |-> 25, width |-> 32]
Number(bits) == FoldLeft(LAMBDA n, b : 2 * n + b, 0, bits)
First(n) == Number(SubSeq(left, 1, n))
After(n) == SubSeq(left, n + 1, Len(left))

InRice == At("decode") /\ job.codec \in Rice
Width == Form(job.width).width

StartRice ==
  /\ InRice /\ block = 0 /\ done = <<>> /\ left = <<>>
  /\ LET s == Stream(job.extent)
         bits == IF s.kind = "rice" THEN s.bits ELSE <<>>
         fault == FirstFault(<<
           Check(job.width \notin {1, 2, 4}, "unsupported"),
           Check(job.block \notin 1..MaxBlock, "invalid"),
           Check(Len(bits) < 8 * job.width, "integrity")>>)
     IN  \/ fault # "none" /\ Judge(fault)
         \/ /\ fault = "none"
            /\ value' = Number(SubSeq(bits, 1, Width))
            /\ left' = SubSeq(bits, Width + 1, Len(bits))
            /\ block' = -1
            /\ UNCHANGED <<input, phase, verdict, field, row, counters, job, done, code, outputs>>

StartBlock ==
  /\ InRice /\ Len(done) < job.pixels
  /\ block = -1 \/ (block = 0 /\ done # <<>>)
  /\ LET form == Form(job.width)
     IN  IF Len(left) < form.fs \/ First(form.fs) > form.max + 1 THEN Judge("integrity")
         ELSE /\ code' = First(form.fs)
              /\ left' = After(form.fs)
              /\ block' = Min({job.block, job.pixels - Len(done)})
              /\ UNCHANGED <<input, phase, verdict, field, row, counters, job, done,
                             value, outputs>>

(* Zeros before the next one; unary stops at a difference too large.       *)
Zeros ==
  LET ones == {i \in DOMAIN left : left[i] = 1}
  IN  IF ones = {} THEN -1 ELSE Min(ones) - 1
Decoded(difference) ==
  LET signed == IF difference % 2 = 0 THEN difference \div 2 ELSE -(difference \div 2) - 1
  IN  (value + signed) % 2^Width

Sample(difference, bits) ==
  /\ value' = Decoded(difference)
  /\ done' = Append(done, value')
  /\ left' = After(bits)
  /\ block' = block - 1
  /\ UNCHANGED <<input, phase, verdict, field, row, counters, job, code, outputs>>

ReadSample ==
  /\ InRice /\ block > 0
  /\ LET fs == code - 1
         max == Form(job.width).max
     IN  \/ code = 0 /\ Sample(0, 0)
         \/ /\ code = max + 1
            /\ IF Len(left) < Width THEN Judge("integrity") ELSE Sample(First(Width), Width)
         \/ /\ code \in 1..max
            /\ IF \/ Zeros = -1 \/ Zeros > 2^(Width - fs) - 1
                  \/ Len(left) < Zeros + 1 + fs
               THEN Judge("integrity")
               ELSE Sample(Zeros * 2^fs + Number(SubSeq(left, Zeros + 2, Zeros + 1 + fs)),
                           Zeros + 1 + fs)

(* Mutant: bits may be left over. *)
EndRiceAnywhere ==
  /\ InRice /\ Len(done) = job.pixels /\ block = 0 /\ done # <<>>
  /\ Complete(job.pixels * job.width, done)

EndRice ==
  /\ InRice /\ Len(done) = job.pixels /\ block = 0 /\ done # <<>>
  /\ \/ /\ Len(left) >= 8 \/ 1 \in ToSet(left)
        /\ Judge("integrity")
     \/ /\ Len(left) < 8 /\ 1 \notin ToSet(left)
        /\ Complete(job.pixels * job.width, done)
-----------------------------------------------------------------------------
(* PLIO.  left is the instructions, value the high value, block counts the *)
(* pixels emitted, code is 1 once the header has been read.                *)

InPlio == At("decode") /\ job.codec = "PLIO_1"

StartPlio ==
  /\ InPlio /\ code = 0
  /\ LET s == Stream(job.extent)
         fault == FirstFault(<<
           Check(s.kind # "plio", "integrity"),
           Check(s.kind = "plio" /\ s.header = "unknown", "unsupported"),
           Check(s.kind = "plio" /\ s.header # "good", "integrity")>>)
     IN  \/ fault # "none" /\ Judge(fault)
         \/ /\ fault = "none"
            /\ left' = s.words /\ value' = 1 /\ code' = 1
            /\ UNCHANGED <<input, phase, verdict, field, row, counters, job, done, block, outputs>>

Instruction ==
  /\ InPlio /\ code = 1 /\ left # <<>>
  /\ LET word == left[1]
         op == word[1]
         data == word[2]
         count == CASE op \in {0, 4, 5} -> data [] op \in {6, 7} -> 1 [] OTHER -> 0
         high == CASE op = 1 /\ Len(word) = 3 -> word[3] * 4096 + data
                   [] op \in {2, 6} -> value + data
                   [] op \in {3, 7} -> value - data
                   [] OTHER -> value
         wrong == \/ op \notin 0..7
                  \/ op \in {0, 4, 5} /\ data = 0
                  \/ op = 1 /\ (Len(word) < 3 \/ high < 0)
                  \/ high \notin 0..MaxHigh
                  \/ block + count > job.pixels
     IN  IF wrong THEN Judge("integrity")
         ELSE /\ left' = Tail(left) /\ value' = high /\ block' = block + count
              /\ UNCHANGED <<input, phase, verdict, field, row, counters, job, done,
                             code, outputs>>

(* The pixels that are not written are zero. *)
EndPlio ==
  /\ InPlio /\ code = 1 /\ left = <<>>
  /\ Complete(job.pixels * job.width, <<block>>)

Next ==
  \/ CheckAscii \/ CheckHeap \/ CheckField \/ CheckLayout \/ Dispatch
  \/ TakeFastRow \/ TakeRow \/ TakeMask \/ EndRows \/ DecodeWhole
  \/ StartRice \/ StartBlock \/ ReadSample \/ EndRice
  \/ StartPlio \/ Instruction \/ EndPlio
Spec == Init /\ [][Next]_vars
-----------------------------------------------------------------------------
(* A column and a payload lie where the header says there is room: the     *)
(* columns of an accepted table share its row without overlap, and every   *)
(* stream that was decoded lies in the heap, after the rows.               *)
ColumnsAndPayloadsFit ==
  /\ verdict = "valid" =>
       /\ SumOf([i \in DOMAIN t.fields |->
                   IF t.kind = "ascii" THEN t.fields[i].width ELSE FieldWidth(t.fields[i])])
            <= t.rowSize
       /\ t.kind = "binary" =>
            \A i \in DOMAIN t.fields, r \in 1..t.rows :
              (t.fields[i].form # "none" /\ t.fields[i].repeat = 1) =>
                 Extent(t, r, i)[2] = 0
                   \/ HeapStart(t) + Extent(t, r, i)[1] + Extent(t, r, i)[2] <= UnitSize(t)
  /\ job # NoJob =>
       /\ HeapStart(t) + job.extent[1] >= TableSize(t)
       /\ HeapStart(t) + job.extent[1] + job.extent[2] <= UnitSize(t)

(* The streams of the tiles of an accepted image hold each of its pixels   *)
(* once, and together with the masks no more bytes than were admitted.     *)
TilesFillTheImage ==
  LET Pixels(masks) ==
        SumOf([n \in DOMAIN outputs |->
                IF outputs[n].job.mask = masks THEN outputs[n].job.pixels ELSE 0])
  IN  /\ decoded <= MaxDecoded
      /\ SumOf([n \in DOMAIN outputs |-> outputs[n].count]) <= decoded
      /\ (verdict = "valid" /\ level = "full" /\ t.kind = "binary") =>
           Pixels(FALSE) = ImagePixels(t) /\ Pixels(TRUE) <= ImagePixels(t)

(* A Rice stream that is accepted gave the samples that were encoded, and  *)
(* a list of PLIO instructions the pixels it writes; what ends early, goes *)
(* on, or has a bit set in its padding is not accepted.  No stream that an *)
(* encoder writes is refused.                                              *)
Entropy == {"rice", "plio"}
StreamsAreExact ==
  /\ \A n \in DOMAIN outputs :
       LET s == Stream(outputs[n].job.extent)
       IN  s.kind \in Entropy =>
             /\ s.clean
             /\ outputs[n].samples = IF s.kind = "rice" THEN s.samples ELSE <<s.pixels>>
  /\ (phase = "decode" /\ verdict = "integrity") =>
       LET s == Stream(job.extent) IN s.kind \in Entropy => ~s.clean

(* gzip.rs takes the plainest tables, tiles.rs the others.  On a table     *)
(* that gzip.rs takes both come to the same: what one of them refuses the  *)
(* other refuses, for the same kind of reason, but for parameters that     *)
(* gzip.rs does not read.                                                  *)
GeneralVerdict ==
  LET Result(r) ==
        IF RowFault(r) # "none" THEN RowFault(r)
        ELSE LET j == RowJob(r)
                 s == Stream(j.extent)
             IN  IF s.kind = "gzip" THEN GzipFault(s, j.pixels * j.width) ELSE "integrity"
      parameters == IF ColumnsFault(t) # "none" THEN ColumnsFault(t) ELSE ParameterFault(t)
      rows == FirstFault([r \in 1..t.rows |-> Result(r)])
      fault == FirstFault(<<parameters, rows>>)
  IN  IF fault = "none" THEN "valid" ELSE fault
PathsAgree ==
  (/\ phase \in {"fast", "decode"} /\ verdict # "none"
   /\ Supported(t) /\ t.malformed = {}) => verdict = GeneralVerdict
=============================================================================
