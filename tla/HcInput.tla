------------------------------- MODULE HcInput -------------------------------
(***************************************************************************)
(* The reader of an HCOMPRESS stream (HcInput of validation/fits/          *)
(* hcompress.rs).  It is a record of the bytes taken, the bits of the last *)
(* ones not given yet, and their value: the code keeps given bits above    *)
(* them, and masks them.  A read is a pair of a value and the reader after *)
(* it.  One beyond the end leaves the reader beyond the end for good,      *)
(* where the code returns an error at once.                                *)
(***************************************************************************)
EXTENDS Integers, Sequences, SequencesExt

NoBits == [next |-> 0, held |-> 0, bits |-> 0]
Starved(data, r) == r.next > Len(data)

(* start_inputing_bits *)
Aligned(r) == [r EXCEPT !.held = 0, !.bits = 0]

(* next_byte, and its place below the bits held. *)
WithByte(data, r) ==
  IF r.next < Len(data)
  THEN [next |-> r.next + 1, held |-> r.held + 8, bits |-> r.bits * 256 + data[r.next + 1]]
  ELSE [next |-> Len(data) + 1, held |-> r.held + 8, bits |-> r.bits * 256]

(* The upper n of the bits held. *)
Given(r, n) ==
  <<r.bits \div 2^(r.held - n),
    [r EXCEPT !.held = r.held - n, !.bits = r.bits % 2^(r.held - n)]>>

(* input_nbits, at most a byte *)
Nbits(data, r, n) == Given(IF r.held < n THEN WithByte(data, r) ELSE r, n)
Nybble(data, r) == Nbits(data, r, 4)
Bit(data, r) == Nbits(data, r, 1)

(* input_nnybble: two at a time, from one more byte, whose lower bits are  *)
(* held for the next.                                                      *)
Nybbles(data, r, n) ==
  LET start == IF n # 1 /\ r.held = 8 THEN [next |-> r.next - 1, held |-> 0, bits |-> 0] ELSE r
      pair(acc, k) ==
        LET s == WithByte(data, acc[2])
        IN  <<acc[1] \o <<s.bits \div 2^(start.held + 4), (s.bits \div 2^start.held) % 16>>,
              [s EXCEPT !.held = start.held, !.bits = s.bits % 2^start.held]>>
      pairs == FoldLeft(pair, <<<<>>, start>>, [k \in 1..(n \div 2) |-> k])
      last == Nybble(data, pairs[2])
  IN  IF n % 2 = 0 THEN pairs ELSE <<Append(pairs[1], last[1]), last[2]>>

(* input_huffman: codes of three to six bits, each longer one begun by     *)
(* what no shorter one is.                                                 *)
Huffman(data, r) ==
  LET three == Nbits(data, r, 3)
      More(read) == LET b == Bit(data, read[2]) IN <<2 * read[1] + b[1], b[2]>>
      four == More(three)
      five == More(four)
      six == More(five)
  IN  CASE three[1] < 4 -> <<2^three[1], three[2]>>
        [] three[1] >= 4 /\ four[1] < 13 -> <<<<3, 5, 10, 12, 15>>[four[1] - 7], four[2]>>
        [] three[1] >= 4 /\ four[1] >= 13 /\ five[1] < 31 ->
             <<<<6, 7, 9, 11, 13>>[five[1] - 25], five[2]>>
        [] OTHER -> <<IF six[1] = 62 THEN 0 ELSE 14, six[2]>>
=============================================================================
