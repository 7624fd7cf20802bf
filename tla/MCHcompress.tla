----------------------------- MODULE MCHcompress -----------------------------
(* Small images of every parity, steep and flat.                           *)
EXTENDS Hcompress

Flat(x, y, v) == [p \in 0..(x * y - 1) |-> v]
MCImages(x, y) ==
  IF x * y < 30
  THEN {[Flat(x, y, v[1]) EXCEPT ![p] = v[2]] :
          p \in 0..(x * y - 1), v \in {<<0, 7>>, <<-3, 1>>, <<5, -8>>, <<4, 4>>}}
  ELSE {[Flat(x, y, 2) EXCEPT ![p] = -1, ![x * y - 1 - p] = high] :
          p \in {0, 5, x * y - 3}, high \in {1, 4}}
MCGeometries == {<<1, 1>>, <<1, 2>>, <<2, 2>>, <<2, 3>>, <<3, 3>>, <<1, 5>>, <<5, 2>>, <<3, 6>>, <<5, 5>>, <<2, 18>>, <<9, 9>>}

MCStreams ==
  {<<f, "none">> : f \in {"direct", "tree"}}
  \cup {<<"mixed", d>> : d \in {"none", "short", "long", "format", "padding", "end"}}

ThinStreams == {<<"tree", "none">>}
ThinImages(x, y) == {[Flat(x, y, 0) EXCEPT ![p] = 1] : p \in {0, 5, x * y - 1}}
ThinGeometries == {<<1, 16>>, <<1, 17>>, <<17, 1>>}
=============================================================================
