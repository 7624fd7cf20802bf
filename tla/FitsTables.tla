----------------------------- MODULE FitsTables -----------------------------
(***************************************************************************)
(* The tables of FITS files, and the images compressed into them: the      *)
(* checks on columns, descriptors and tile geometry (validation/fits.rs,   *)
(* fits/tiles.rs, fits/gzip.rs).                                           *)
(*                                                                         *)
(* A table is a record of what its header and its rows say:                *)
(*   kind                 "ascii" or "binary"                              *)
(*   rowSize, rows        NAXIS1, NAXIS2                                   *)
(*   pcount, theap        PCOUNT, THEAP (-1: absent)                       *)
(*   fields               columns, see below                               *)
(*   axes                 pairs of ZNAXISn and ZTILEn (-1: absent)         *)
(*   bitpix, codec        ZBITPIX, ZCMPTYPE                                *)
(*   malformed            parameters with a value that does not parse      *)
(*   block, bytepix       BLOCKSIZE, BYTEPIX                               *)
(*   quantiz, dither      ZQUANTIZ ("none": absent), ZDITHER0              *)
(*   maskcmp              ZMASKCMP ("none": absent)                        *)
(*   scale, zero          ZSCALE, ZZERO of the header                      *)
(*   cells                for each row, the value in each column: a pair   *)
(*                        of count and offset, or a scalar                 *)
(*   heap                 the streams in the heap, by offset and length    *)
(* A column of a binary table has a role (its TTYPE, "none" for others), a *)
(* form ("P", "Q" or "none"), a type, a repeat count and scaled, which is  *)
(* TSCAL, TZERO or TNULL.  One of an ASCII table has a start, a type, a    *)
(* width and a precision.  Scalars are none, zero, finite, nonfinite, bad. *)
(***************************************************************************)
EXTENDS Faults, FiniteSets, Functions

CONSTANTS
  MaxInt,    \* u64::MAX
  MaxFields  \* 999

ASSUME TableAssumption == {MaxInt, MaxFields} \subseteq Nat \ {0}

(* What a header and the rows can say: every number that is not a pair of  *)
(* a descriptor or a start is parsed as unsigned.                          *)
AsciiColumns == [start : Int, width : Nat, type : STRING, precision : STRING]
BinaryColumns ==
  [role : STRING, form : {"P", "Q", "none"}, type : STRING, repeat : Nat, scaled : BOOLEAN]
IsTable(t) ==
  /\ t.kind \in {"ascii", "binary"}
  /\ {t.rowSize, t.rows, t.pcount} \subseteq Nat /\ t.theap \in Int
  /\ t.kind = "ascii" => t.fields \in Seq(AsciiColumns)
  /\ t.kind = "binary" =>
       /\ t.fields \in Seq(BinaryColumns)
       /\ t.axes \in Seq(Nat \X (Nat \cup {-1})) /\ t.bitpix \in Int
       /\ \A r \in 1..t.rows, i \in DOMAIN t.fields :
            t.fields[i].form # "none" => t.cells[r][i] \in Int \X Int

(* type_size, for the types of fixed size; bits are packed.                *)
Widths ==
  [L |-> 1, A |-> 1, B |-> 1, I |-> 2, J |-> 4, E |-> 4, K |-> 8, D |-> 8,
   C |-> 8, M |-> 16]
KnownTypes == DOMAIN Widths \cup {"X"}
TypeSize(type, count) ==
  IF type = "X" THEN (count + 7) \div 8 ELSE count * Widths[type]

DescriptorSize(f) == IF f.form = "P" THEN 8 ELSE 16
FieldWidth(f) ==
  IF f.form # "none" THEN f.repeat * DescriptorSize(f) ELSE TypeSize(f.type, f.repeat)

TableSize(t) == t.rowSize * t.rows
UnitSize(t) == TableSize(t) + t.pcount
HeapStart(t) == IF t.theap = -1 THEN TableSize(t) ELSE t.theap
HeapSize(t) == UnitSize(t) - HeapStart(t)
-----------------------------------------------------------------------------
(* binary_table, up to the first column.                                   *)
HeapFault(t) ==
  FirstFault(<<
    Check(Len(t.fields) > MaxFields, "invalid"),
    Check(TableSize(t) > MaxInt, "invalid"),
    Check(HeapStart(t) < TableSize(t) \/ HeapStart(t) > UnitSize(t), "invalid")>>)

ColumnStart(t, i) == SumOf([k \in 1..(i - 1) |-> FieldWidth(t.fields[k])])

(* Mutant: counts are taken for bytes. *)
DescriptorFaultOfCount(t, type, cell) ==
  FirstFault(<<
    Check(cell[1] < 0 \/ cell[2] < 0, "invalid"),
    Check(cell[1] > 0 /\ cell[2] + cell[1] > HeapSize(t), "invalid")>>)

DescriptorFault(t, type, cell) ==
  FirstFault(<<
    Check(cell[1] < 0 \/ cell[2] < 0, "invalid"),
    Check(cell[1] > 0 /\ cell[2] + TypeSize(type, cell[1]) > HeapSize(t), "invalid")>>)

(* One column, with its descriptors in all rows.                           *)
FieldFault(t, i) ==
  LET f == t.fields[i]
      known == f.type \in KnownTypes
      sized == known \/ f.form # "none"
      fits == sized /\ ColumnStart(t, i) + FieldWidth(f) <= t.rowSize
      pointers == f.form # "none" /\ f.repeat = 1
  IN  FirstFault(<<
        Check(f.form # "none" /\ f.repeat > 1, "invalid"),
        Check(~sized, "unsupported"),
        Check(~fits, "invalid"),
        Check(~known, "unsupported"),
        FirstFault([r \in 1..t.rows |->
          IF pointers /\ known /\ fits THEN DescriptorFault(t, f.type, t.cells[r][i]) ELSE "none"])>>)

(* ascii_table: columns stand anywhere in a row, but not on each other.    *)
AsciiFieldFault(t, i) ==
  LET f == t.fields[i]
      last == f.start + f.width
      earlier == {t.fields[k] : k \in 1..(i - 1)}
  IN  FirstFault(<<
        Check(f.start < 0 \/ f.type = "none", "invalid"),
        Check(f.type \notin {"A", "I", "F", "E", "D"}, "unsupported"),
        Check(f.width <= 0, "invalid"),
        Check(f.type \in {"F", "E", "D"} <=> f.precision = "none", "invalid"),
        Check(last > t.rowSize, "invalid"),
        Check(\E g \in earlier : f.start < g.start + g.width /\ last > g.start, "invalid")>>)
AsciiFault(t) ==
  FirstFault(<<
    Check(t.pcount # 0 \/ Len(t.fields) > MaxFields, "invalid"),
    FirstFault([i \in DOMAIN t.fields |-> AsciiFieldFault(t, i)])>>)
-----------------------------------------------------------------------------
(* The geometry of tiles (tile_layout).                                    *)

TileOf(t, axis) ==
  IF t.axes[axis][2] # -1 THEN t.axes[axis][2]
  ELSE IF axis = 1 THEN t.axes[axis][1] ELSE 1
Bins(t, axis) == (t.axes[axis][1] + TileOf(t, axis) - 1) \div TileOf(t, axis)
ImagePixels(t) == Product([n \in DOMAIN t.axes |-> t.axes[n][1]])
SampleBytes(t) == (IF t.bitpix < 0 THEN -t.bitpix ELSE t.bitpix) \div 8

(* The admission of the decoded bytes comes between the two.               *)
GeometryFault(t) ==
  FirstFault(<<
    Check(t.axes = <<>>, "invalid"),
    Check(\E n \in DOMAIN t.axes : t.axes[n][1] = 0 \/ TileOf(t, n) = 0, "invalid"),
    Check(ImagePixels(t) > MaxInt, "invalid"),
    Check(t.bitpix \notin {8, 16, 32, 64, -32, -64}, "invalid"),
    Check(ImagePixels(t) * SampleBytes(t) > MaxInt, "invalid")>>)
CountFault(t) ==
  Check(Product([n \in DOMAIN t.axes |-> Bins(t, n)]) # t.rows, "invalid")

(* Mutant: the tiles at an edge are as large as the others.                *)
UnclippedDims(t, r) == [n \in DOMAIN t.axes |-> TileOf(t, n)]

(* Dimensions of the tile in a row; rows are counted from 1.               *)
TileDims(t, r) ==
  LET before(n) == Product([m \in 1..(n - 1) |-> Bins(t, m)])
      place(n) == ((r - 1) \div before(n)) % Bins(t, n)
  IN  [n \in DOMAIN t.axes |->
        Min({TileOf(t, n), t.axes[n][1] - place(n) * TileOf(t, n)})]
TilePixels(t, r) == Product(TileDims(t, r))
-----------------------------------------------------------------------------
(* columns of tiles.rs: which column has which part of a tile.             *)

Roles == {"data", "gzip", "raw", "scale", "zero", "mask", "blank"}
Column(t, role) == {i \in DOMAIN t.fields : t.fields[i].role = role}
HasColumn(t, role) == Column(t, role) # {}

RoleFault(t, i) ==
  LET f == t.fields[i]
      legal ==
        CASE f.role = "data" -> f.form # "none" /\ f.type \in {"B", "I", "J"}
          [] f.role \in {"gzip", "mask"} -> f.form # "none" /\ f.type = "B"
          [] f.role = "raw" -> f.form # "none" /\ f.type \in {"B", "I", "J", "K", "E", "D"}
          [] f.role \in {"scale", "zero"} -> f.form = "none" /\ f.type \in {"E", "D"}
          [] f.role = "blank" -> f.form = "none" /\ f.type = "J"
          [] OTHER -> TRUE
      again == \E k \in 1..(i - 1) : t.fields[k].role = f.role
  IN  IF f.role = "none" THEN "none"
      ELSE FirstFault(<<Check(f.repeat # 1 \/ again, "invalid"),
                        Check(f.scaled, "unsupported"),
                        Check(~legal, "invalid")>>)
ColumnsFault(t) ==
  FirstFault(<<
    FirstFault([i \in DOMAIN t.fields |-> RoleFault(t, i)]),
    Check(HasColumn(t, "gzip") /\ HasColumn(t, "raw"), "invalid"),
    Check(HasColumn(t, "scale") # HasColumn(t, "zero"), "invalid"),
    Check(~HasColumn(t, "data"), "invalid")>>)

(* What validate of tiles.rs checks before the first row.                  *)
ParameterFault(t) ==
  FirstFault(<<
    Check({"BLOCKSIZE", "BYTEPIX"} \cap t.malformed # {}, "invalid"),
    Check(t.codec = "HCOMPRESS_1" /\ {"SMOOTH", "SCALE"} \cap t.malformed # {}, "invalid"),
    Check("ZBLANK" \in t.malformed, "invalid"),
    Check(/\ t.quantiz \in {"SUBTRACTIVE_DITHER_1", "SUBTRACTIVE_DITHER_2"}
          /\ t.dither \notin 1..10000, "invalid"),
    Check(t.quantiz = "other", "unsupported"),
    Check(HasColumn(t, "mask") # (t.maskcmp # "none"), "invalid")>>)

(* Mutant: only the codec, the column and the sample type are looked at.   *)
SupportedOfCodec(t) ==
  /\ t.bitpix \in {8, 16, 32, 64}
  /\ t.codec \in {"GZIP_1", "GZIP_2"}
  /\ Len(t.fields) = 1
  /\ LET f == t.fields[1]
     IN  f.role = "data" /\ f.form # "none" /\ f.type = "B" /\ f.repeat = 1 /\ ~f.scaled

(* The table that gzip.rs takes: one column, nothing but GZIP in it.       *)
Supported(t) ==
  /\ t.bitpix \in {8, 16, 32, 64}
  /\ t.codec \in {"GZIP_1", "GZIP_2"}
  /\ Len(t.fields) = 1
  /\ LET f == t.fields[1]
     IN  f.role = "data" /\ f.form # "none" /\ f.type = "B" /\ f.repeat = 1 /\ ~f.scaled
  /\ {t.quantiz, t.scale, t.zero, t.maskcmp} = {"none"}

(* payload: descriptors are read, and checked, again.                      *)
Extent(t, r, i) == <<t.cells[r][i][2], TypeSize(t.fields[i].type, t.cells[r][i][1])>>
PayloadFault(t, r, role) ==
  IF ~HasColumn(t, role) THEN "none"
  ELSE LET i == CHOOSE k \in Column(t, role) : TRUE
       IN  DescriptorFault(t, t.fields[i].type, t.cells[r][i])
Payload(t, r, role) ==
  IF HasColumn(t, role) THEN Extent(t, r, CHOOSE k \in Column(t, role) : TRUE) ELSE <<0, 0>>

(* scalar: a column comes before the keyword of the same name.             *)
Scalar(t, r, role) ==
  IF HasColumn(t, role) THEN t.cells[r][CHOOSE k \in Column(t, role) : TRUE]
  ELSE IF role = "scale" THEN t.scale ELSE t.zero
ScalarFault(v) == Check(v \in {"bad", "nonfinite"}, "invalid")
Quantized(t, r) == t.bitpix < 0 /\ Scalar(t, r, "scale") = "finite"
=============================================================================
