-------------------------- MODULE MCXisfContainer --------------------------
(* Files of a header of two bytes and at most three elements.              *)
EXTENDS XisfContainer

Frame(stored, plain) == [stored |-> stored, decoded |-> plain, window |-> 3]

(* An attached image of three 16-bit samples, not compressed. *)
Plain ==
  [name |-> "Image", parent |-> 1, uid |-> "u", ref |-> "none",
   form |-> "attachment", offset |-> 4, size |-> 6, encoding |-> "none",
   sound |-> TRUE, checksum |-> "none", codec |-> "none", decoded |-> 0,
   item |-> -1, subblocks |-> <<>>, dims |-> <<3, 1, 1>>, format |-> "UInt16",
   order |-> "none", width |-> 0, counts |-> <<>>, frames |-> <<>>]
Bare == [Plain EXCEPT !.uid = "none", !.form = "none", !.format = "none", !.dims = <<>>]
Zstd == [Plain EXCEPT !.codec = "zstd", !.decoded = 6, !.size = 5,
                      !.frames = <<Frame(5, 6)>>]
Halves == [Zstd EXCEPT !.subblocks = <<<<2, 4>>, <<3, 2>>>>,
                       !.frames = <<Frame(2, 4), Frame(3, 2)>>]

Storages ==
  {Plain, [Plain EXCEPT !.size = 5], [Plain EXCEPT !.subblocks = <<<<6, 6>>>>],
   Zstd, [Zstd EXCEPT !.item = 0], [Zstd EXCEPT !.item = 1], [Zstd EXCEPT !.item = 2],
   [Zstd EXCEPT !.item = 4], [Zstd EXCEPT !.codec = "lz4"], [Zstd EXCEPT !.codec = "lzma"],
   [Zstd EXCEPT !.codec = "zlib"], [Halves EXCEPT !.codec = "zlib"],
   [Zstd EXCEPT !.codec = "zlib", !.decoded = 4],
   [Zstd EXCEPT !.codec = "zlib", !.frames = <<Frame(4, 6)>>],
   [Halves EXCEPT !.codec = "zlib", !.frames = <<Frame(5, 6)>>],
   [Halves EXCEPT !.codec = "zlib", !.frames = <<Frame(2, 3), Frame(3, 3)>>],
   [Zstd EXCEPT !.frames = <<Frame(4, 6)>>], [Halves EXCEPT !.codec = "lz4"],
   [Zstd EXCEPT !.codec = "malformed"], [Zstd EXCEPT !.decoded = 4],
   [Zstd EXCEPT !.frames = <<Frame(2, 4), Frame(3, 2)>>],
   [Zstd EXCEPT !.frames[1].window = 9], [Zstd EXCEPT !.frames[1].window = 17],
   Halves, [Halves EXCEPT !.item = 2],
   [Halves EXCEPT !.subblocks = <<<<3, 4>>, <<2, 2>>>>, !.frames = <<Frame(3, 4), Frame(2, 2)>>], [Halves EXCEPT !.frames = <<Frame(5, 6)>>],
   [Halves EXCEPT !.subblocks = <<<<2, 4>>, <<2, 2>>>>],
   [Halves EXCEPT !.subblocks = <<<<2, 4>>, <<3, 4>>>>,
                  !.frames = <<Frame(2, 4), Frame(3, 4)>>],
   [Halves EXCEPT !.subblocks = <<<<2, 4>>, <<0, 0>>, <<3, 2>>>>],
   [Halves EXCEPT !.subblocks = <<<<2, 4>>, <<41, 2>>>>]}
Geometries ==
  {[dims |-> d, format |-> f] :
     d \in {<<3, 1, 1>>}, f \in {"UInt16", "UInt8", "Strange", "none"}}
  \cup {[dims |-> d, format |-> "UInt16"] :
          d \in {<<6>>, <<3, 1>>, <<1, 1, 3>>, <<3, 0, 1>>, <<5, 5, 1>>, <<7, 7, 1>>}}
Places ==
  {[form |-> "attachment", offset |-> o] : o \in {2, 4, 5, 40}}
  \cup {[form |-> f, offset |-> 0] : f \in {"inline", "embedded", "other", "none"}}

Images ==
  {[n EXCEPT !.form = p.form, !.offset = p.offset, !.checksum = c] :
     n \in Storages, p \in Places, c \in {"none", "good", "bad"}}
  \cup {[n EXCEPT !.dims = g.dims, !.format = g.format] : n \in Storages, g \in Geometries}
  \cup {[n EXCEPT !.order = o, !.checksum = c] :
          n \in {Plain, Zstd, [Zstd EXCEPT !.item = 2], Halves},
          o \in {"little", "big", "middle"}, c \in {"none", "malformed", "unknown"}}

Data == [Bare EXCEPT !.name = "Data", !.encoding = "base64"]
Texts ==
  {Data, [Data EXCEPT !.sound = FALSE], [Data EXCEPT !.encoding = "none"],
   [Data EXCEPT !.encoding = "other"], [Data EXCEPT !.checksum = "good"],
   [Data EXCEPT !.checksum = "bad"], [Data EXCEPT !.form = "inline"],
   [Data EXCEPT !.codec = "zstd", !.decoded = 6, !.frames = <<Frame(6, 6)>>]}
Reference == [Bare EXCEPT !.name = "Reference", !.ref = "u"]
Property ==
  [Bare EXCEPT !.name = "Property", !.form = "inline", !.encoding = "hex",
               !.width = 2, !.counts = <<3>>]
Others ==
  {[d EXCEPT !.parent = p] : d \in Texts, p \in {1, 2}}
  \cup {Reference, [Reference EXCEPT !.ref = "w"], [Reference EXCEPT !.uid = "v"],
        [Reference EXCEPT !.form = "inline"], [Reference EXCEPT !.ref = "none"]}
  \cup {Property, [Property EXCEPT !.counts = <<3, 3>>], [Property EXCEPT !.counts = <<>>],
        [Property EXCEPT !.counts = <<9, 5>>], [Property EXCEPT !.width = 0],
        [Property EXCEPT !.uid = "u"], [Property EXCEPT !.uid = ""],
        [Property EXCEPT !.order = "middle"]}
  \cup {[Zstd EXCEPT !.name = "Thumbnail", !.uid = "v"], [Zstd EXCEPT !.uid = "w"],
        [Zstd EXCEPT !.name = "Thumbnail", !.uid = "v", !.order = "middle"],
        [Zstd EXCEPT !.uid = "w", !.frames = <<Frame(4, 6)>>],
        [Halves EXCEPT !.uid = "w", !.frames = <<Frame(5, 6)>>],
        [Bare EXCEPT !.checksum = "good"], [Bare EXCEPT !.name = "Metadata"]}

Root == [Bare EXCEPT !.name = "xisf", !.parent = 0]
Few == {Plain, Halves, [Plain EXCEPT !.form = "inline", !.encoding = "base64"]}
Hosts == {[Plain EXCEPT !.form = "embedded", !.size = 0], [Zstd EXCEPT !.form = "embedded"]}
Bodies ==
  {<<Root, n>> : n \in Images}
  \cup {<<Root, n, o>> : n \in Few \cup Hosts, o \in Others}
  \cup {<<Root, n, o, p>> : n \in Hosts, o \in Others, p \in Others}
  \cup {<<Root, Plain, [Property EXCEPT !.uid = u], Reference>> : u \in {"u", "v"}}

MCFiles ==
  {[size |-> s, reservedZero |-> TRUE, xmlLen |-> 2, nodes |-> b] :
     s \in {9, 10}, b \in Bodies}
  \cup {[size |-> s, reservedZero |-> z, xmlLen |-> x, nodes |-> <<Root, Plain>>] :
          s \in {1, 3, 10}, z \in BOOLEAN, x \in {2, 4, 40}}
=============================================================================
