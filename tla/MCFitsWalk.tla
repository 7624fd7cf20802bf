----------------------------- MODULE MCFitsWalk -----------------------------
(* Cards of every keyword, with values on both sides of each check.        *)
EXTENDS FitsWalk

Card(name, n, value) == [name |-> name, n |-> n, value |-> value]
MCCards ==
  {Card("SIMPLE", 0, v) : v \in {"T", "F"}}
  \cup {Card("XTENSION", 0, v) : v \in {"IMAGE", "TABLE", "BINTABLE"}}
  \cup {Card("BITPIX", 0, v) : v \in {8, -16}}
  \cup {Card("NAXIS", 0, v) : v \in -1..(MaxAxes + 1)}
  \cup {Card("NAXIS", 1, 3), Card("NAXIS", 2, -1), Card("NAXIS", 2, 0), Card("NAXIS", 2, 15)}
  \cup {Card("PCOUNT", 0, v) : v \in {-1, 0, 1}}
  \cup {Card("GCOUNT", 0, v) : v \in {1, 2}}
  \cup {Card("TFIELDS", 0, v) : v \in {"fits", "limit"}}
  \cup {Card("ZIMAGE", 0, v) : v \in {"fits", "unsupported"}}
  \cup {Card("DATASUM", 0, v) : v \in {"good", "bad", "malformed"}}
  \cup {Card("CHECKSUM", 0, v) : v \in {"good", "bad"}}
  \cup {Card(k, 0, "T") : k \in {"GROUPS", "COMMENT", "END", "BROKEN"}}
=============================================================================
