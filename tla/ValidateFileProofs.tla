------------------------- MODULE ValidateFileProofs -------------------------
(***************************************************************************)
(* Proofs about ValidateFile, for all files, values, header lengths and    *)
(* bounds: a verdict is about the version that was stamped.                *)
(*                                                                         *)
(* While no write fell within the tick of the stamp, the file either still *)
(* has the stamped time, and then the stamped chunks, or it never has that *)
(* time again.  So what was read is either a prefix of the stamped version *)
(* or the comparison at the end fails.                                     *)
(***************************************************************************)
EXTENDS ValidateFile, TLAPS

Stamped == pc \in {"signature", "extents", "poll", "fill", "decode", "stream",
                   "last", "consistent", "compare", "differs"}

(* The open file has not been written since the stamp, as far as its time  *)
(* tells, and its time can be trusted.                                     *)
Quiet == ~blurred /\ disk[handle].time = stamp.time

(* Before the stamp nothing has been read or decided; from then on it is   *)
(* the stamp of the open file.                                             *)
StampIsOfHandle ==
  /\ pc \in {"start", "open", "stat"} =>
       result = "none" /\ outcome = "none" /\ stamp.inode = NoFile
         /\ stamp.size = 0 /\ at = 0
  /\ pc = "stat" => handle # NoFile
  /\ pc \notin {"returned"} => outcome = "none"
  /\ Stamped =>
       /\ handle \in Inode
       /\ stamp.inode = handle
       /\ stamp.size = Len(original)

(* An unwritten file has the stamped chunks. *)
QuietIsOriginal == Stamped /\ Quiet => disk[handle].data = original

(* The payload passes run on a file of the declared length. *)
PassesFit ==
  /\ pc \in {"extents", "last"} => Len(original) >= 1 /\ at <= Len(original)
  /\ pc \in {"poll", "fill", "decode"} =>
       /\ Len(original) >= Whole
       /\ at \in 1..Whole
       /\ level = "full"
  /\ pc = "poll" => at < Whole \/ (codec = "zstd" /\ at > 1)
  /\ pc = "fill" => at < Whole
  /\ pc = "decode" => at > 1 /\ codec = "zstd"
  /\ pc = "stream" => Len(original) >= Whole /\ level = "full"
  /\ pc = "last" => Len(original) >= Whole

(* The chunks 2 to k of the stamped version agree with its first. *)
AgreeUpTo(k) == \A j \in 2..k : original[j] = original[1]

Right(verdict) ==
  verdict \in Findings \cup {"ok"} => verdict = Verdict(original, level)

(* What has been read of a quiet file is the stamped version. *)
ReadIsOriginal ==
  /\ Quiet =>
       /\ pc \in {"extents", "poll", "fill", "decode", "stream", "last"} =>
            header = <<original[1]>> /\ original[1] \in Signature
       /\ pc \in {"poll", "fill", "decode", "stream", "last"} =>
            Len(original) = Whole \/ original[1] \notin Contiguous
       /\ pc \in {"poll", "fill", "decode"} => AgreeUpTo(at)
       /\ pc = "stream" => AgreeUpTo(Whole)
       /\ pc = "last" /\ level = "full" => AgreeUpTo(Whole)
       /\ pc = "consistent" => Right(result)
  /\ ~blurred /\ pc = "compare" => Right(result)
  /\ ~blurred /\ pc = "returned" /\ result # "none" => Right(outcome)

IInv ==
  /\ TypeOK
  /\ StampIsOfHandle
  /\ QuietIsOriginal
  /\ PassesFit
  /\ ~hidden => ReadIsOriginal

(* The chunks of a new file are a sequence of values. *)
LEMMA InitialDisk == Init => disk \in [Inode -> [data : Seq(Value), time : Nat]]
<1> SUFFICES ASSUME Init PROVE disk \in [Inode -> [data : Seq(Value), time : Nat]]
  OBVIOUS
<1>1. ASSUME NEW n \in 0..Whole + 1, NEW d \in [1..n -> Value]
      PROVE  d \in Seq(Value)
  BY FileAssumption
<1>2. ASSUME NEW i \in Inode
      PROVE  disk[i] \in [data : Seq(Value), time : Nat]
  BY <1>1, <1>2 DEF Init
<1> QED
  BY <1>2 DEF Init

(* A call that has not begun satisfies the invariant. *)
LEMMA InitIInv == Init => IInv
<1> SUFFICES ASSUME Init PROVE IInv
  OBVIOUS
<1>1. TypeOK
  <2>1. stamp \in [size : Nat, time : Nat, inode : Inode \cup {NoFile}]
    BY DEF Init
  <2>2. header \in Seq(Value) /\ original \in Seq(Value)
    BY DEF Init
  <2>3. /\ path \in Inode \cup {NoFile, Special}
        /\ clock \in Nat /\ events \in Nat
        /\ level \in {"structural", "full"} /\ codec \in Codec
        /\ pc \in Phases
        /\ handle \in Inode \cup {NoFile, Special}
        /\ result \in Errors \cup {"none", "ok"}
        /\ outcome \in Errors \cup {"none", "ok"}
    BY DEF Init, Phases
  <2>4. at \in Nat /\ at <= stamp.size
    BY DEF Init
  <2>5. /\ cancel \in BOOLEAN /\ stopped \in BOOLEAN
        /\ touched \in BOOLEAN /\ blurred \in BOOLEAN /\ hidden \in BOOLEAN
    BY DEF Init
  <2> QED
    BY <2>1, <2>2, <2>3, <2>4, <2>5, InitialDisk DEF TypeOK
<1> QED
  BY <1>1 DEF Init, IInv, StampIsOfHandle, QuietIsOriginal, PassesFit,
              ReadIsOriginal, Stamped

(* What the environment may not disturb while the call is under way. *)
LEMMA EventStep ==
  ASSUME IInv, Event, TypeOK',
         Stamped /\ Quiet' => Quiet /\ disk'[handle] = disk[handle],
         ~blurred' => ~blurred
  PROVE  IInv'
<1> USE DEF IInv, Event, options
<1>1. StampIsOfHandle' /\ PassesFit'
  BY DEF StampIsOfHandle, PassesFit, Stamped
<1>2. QuietIsOriginal'
  BY DEF QuietIsOriginal, Stamped
<1>3. ~hidden' => ReadIsOriginal'
  BY DEF ReadIsOriginal, Right, AgreeUpTo, Stamped
<1> QED
  BY <1>1, <1>2, <1>3

(* A write keeps the invariant: it moves the time or is blurred. *)
LEMMA StoreStep ==
  ASSUME IInv, NEW i \in Inode, NEW d \in Seq(Value), Store(i, d)
  PROVE  IInv'
<1>1. TypeOK'
  <2>1. [data |-> d, time |-> clock] \in [data : Seq(Value), time : Nat]
    BY DEF IInv, TypeOK
  <2>2. disk' \in [Inode -> [data : Seq(Value), time : Nat]]
    BY <2>1 DEF IInv, TypeOK, Store
  <2>3. touched' \in BOOLEAN /\ blurred' \in BOOLEAN
    BY DEF Store
  <2>4. events' \in Nat
    BY DEF IInv, TypeOK, Store, Event
  <2>5. UNCHANGED <<path, clock, cancel, options, pc, handle, stamp, at, header,
                    result, outcome, original, stopped, hidden>>
    BY DEF Store, Event
  <2> QED
    BY <2>2, <2>3, <2>4, <2>5 DEF IInv, TypeOK, options
<1>2. Stamped /\ Quiet' => Quiet /\ disk'[handle] = disk[handle]
  BY DEF IInv, TypeOK, StampIsOfHandle, Store, Event, Quiet
<1> QED
  BY <1>1, <1>2, EventStep DEF Store, IInv, TypeOK

(* Renames, ticks and the flag keep the invariant. *)
LEMMA OtherEventStep ==
  ASSUME IInv, \/ \E p \in Inode \cup {NoFile, Special} : Rename(p)
               \/ Tick
               \/ ToggleCancel
  PROVE  IInv'
<1>1. TypeOK'
  <2>1. CASE \E p \in Inode \cup {NoFile, Special} : Rename(p)
    BY <2>1 DEF IInv, TypeOK, Rename, Event, options
  <2>2. CASE Tick
    BY <2>2 DEF IInv, TypeOK, Tick, Event, options
  <2>3. CASE ToggleCancel
    BY <2>3 DEF IInv, TypeOK, ToggleCancel, Event, options
  <2> QED
    BY <2>1, <2>2, <2>3
<1>2. Quiet' => Quiet /\ disk'[handle] = disk[handle]
  BY DEF Rename, Tick, ToggleCancel, Event, Quiet
<1> QED
  BY <1>1, <1>2, EventStep DEF Rename, Tick, ToggleCancel

(* Writing, appending and truncating keep a file a sequence of values. *)
LEMMA WriteStep ==
  ASSUME IInv, NEW i \in Inode, Write(i) \/ Append1(i) \/ Truncate(i)
  PROVE  IInv'
<1>1. disk[i].data \in Seq(Value)
  BY DEF IInv, TypeOK
<1>2. CASE Write(i)
  <2>1. PICK k \in 1..Len(disk[i].data), v \in Value :
          Store(i, [disk[i].data EXCEPT ![k] = v])
    BY <1>2 DEF Write
  <2>2. [disk[i].data EXCEPT ![k] = v] \in Seq(Value)
    BY <1>1
  <2> QED
    BY <2>1, <2>2, StoreStep
<1>3. CASE Append1(i)
  <2>1. PICK v \in Value : Store(i, Append(disk[i].data, v))
    BY <1>3 DEF Append1
  <2>2. Append(disk[i].data, v) \in Seq(Value)
    BY <1>1
  <2> QED
    BY <2>1, <2>2, StoreStep
<1>4. CASE Truncate(i)
  <2>1. SubSeq(disk[i].data, 1, Len(disk[i].data) - 1) \in Seq(Value)
    BY <1>1, <1>4 DEF Truncate
  <2> QED
    BY <1>4, <2>1, StoreStep DEF Truncate
<1> QED
  BY <1>2, <1>3, <1>4

(* The steps before the stamp, and the one that takes it. *)
LEMMA OpeningStep ==
  ASSUME IInv, Start \/ Open \/ StatHandle
  PROVE  IInv'
<1> USE FileAssumption
    DEF IInv, TypeOK, StampIsOfHandle, Stamped, Start, Open, StatHandle, Step,
        Goto, Return, environment, options
<1>1. TypeOK'
  <2>1. CASE Start \/ Open
    BY <2>1 DEF Phases, Errors, Findings
  <2>2. CASE StatHandle /\ stamp' = stamp
    BY <2>2 DEF Phases, Errors, Findings
  <2>3. CASE StatHandle /\ stamp' # stamp
    <3>1. handle \in Inode /\ disk[handle] \in [data : Seq(Value), time : Nat]
      BY <2>3
    <3>2. Stamp(handle) \in [size : Nat, time : Nat, inode : Inode \cup {NoFile}]
      BY <3>1 DEF Stamp
    <3> QED
      BY <2>3, <3>1, <3>2 DEF Phases
  <2> QED
    BY <2>1, <2>2, <2>3
<1>2. StampIsOfHandle'
  BY DEF Stamp
<1>3. QuietIsOriginal'
  BY DEF QuietIsOriginal, Quiet
<1>4. PassesFit'
  BY DEF PassesFit
<1>5. ReadIsOriginal'
  BY DEF ReadIsOriginal
<1> QED
  BY <1>1, <1>2, <1>3, <1>4, <1>5

(* The end of the closure keeps the invariant, when its verdict on a quiet  *)
(* file is the right one.                                                  *)
LEMMA ConcludeStep ==
  ASSUME IInv, NEW kind \in Errors \cup {"ok"}, Conclude(kind),
         pc \in {"signature", "extents", "poll", "fill", "decode", "stream", "last"},
         UNCHANGED <<environment, options, handle, stamp, original>>,
         header' \in Seq(Value), stopped' \in BOOLEAN, hidden' \in BOOLEAN,
         ~hidden' => ~hidden,
         at' \in Nat, at' <= stamp.size,
         ~hidden' /\ Quiet => Right(kind)
  PROVE  IInv'
<1> USE DEF IInv, Conclude, Return, environment, options
<1>1. TypeOK'
  <2>1. /\ result' \in Errors \cup {"none", "ok"}
        /\ outcome' \in Errors \cup {"none", "ok"}
        /\ pc' \in Phases
    BY DEF TypeOK, Phases
  <2> QED
    BY <2>1 DEF TypeOK
<1>2. StampIsOfHandle' /\ QuietIsOriginal' /\ PassesFit'
  BY DEF StampIsOfHandle, QuietIsOriginal, PassesFit, Quiet, Stamped
<1>3. ~hidden' => ReadIsOriginal'
  BY DEF ReadIsOriginal, Quiet, Right, Findings
<1> QED
  BY <1>1, <1>2, <1>3

(* A failed read is no finding about a quiet file, unless the chunk is     *)
(* past its end.                                                           *)
LEMMA ReadFailsKind ==
  ASSUME IInv, Stamped, NEW k \in Nat, NEW e \in ReadErrors(k)
  PROVE  /\ e \in Errors
         /\ Quiet /\ e \in Findings => e = "Incomplete" /\ k > Len(original)
  BY DEF IInv, TypeOK, StampIsOfHandle, QuietIsOriginal, ReadErrors, Errors,
         Findings

(* A failed read keeps the invariant, when the chunk lies within the       *)
(* stamped file or the file has no chunk at all.                           *)
LEMMA ReadFailsStep ==
  ASSUME IInv, NEW k \in Nat, ReadFails(k),
         pc \in {"signature", "fill", "stream"},
         UNCHANGED <<environment, options, handle, stamp, original, at, header,
                     hidden>>,
         k <= Len(original) \/ Len(original) = 0
  PROVE  IInv'
<1>1. Stamped
  BY DEF Stamped
<1>2. PICK e \in ReadErrors(k) :
        stopped' = (stopped \/ e = "Cancelled") /\ Conclude(e)
  BY DEF ReadFails
<1>3. e \in Errors
  BY <1>1, ReadFailsKind
<1>4. ASSUME Quiet PROVE Right(e)
  <2>1. e \in Findings => e = "Incomplete" /\ Len(original) = 0
    BY <1>1, <1>4, ReadFailsKind DEF IInv, TypeOK
  <2>2. e # "ok"
    BY <1>3 DEF Errors, Findings
  <2> QED
    BY <2>1, <2>2 DEF Right, Verdict
<1> QED
  BY <1>2, <1>3, <1>4, ConcludeStep DEF IInv, TypeOK

(* Reading the signature: a chunk of the stamped version, if it is quiet. *)
LEMMA SignatureStep ==
  ASSUME IInv, ReadSignature
  PROVE  IInv'
<1> USE DEF ReadSignature, Step
<1>1. /\ Stamped /\ handle \in Inode /\ stamp.size = Len(original) /\ at \in Nat
      /\ original \in Seq(Value) /\ disk[handle].data \in Seq(Value)
      /\ at <= stamp.size
  BY DEF IInv, TypeOK, Stamped, StampIsOfHandle
<1>2. CASE ReadFails(1) /\ UNCHANGED header
  <2>1. 1 <= Len(original) \/ Len(original) = 0
    BY <1>1
  <2> QED
    BY <1>2, <2>1, ReadFailsStep
<1>3. CASE MayRead(1) /\ header' = <<disk[handle].data[1]>> /\ UNCHANGED stopped
  <2>1. header'[1] = disk[handle].data[1] /\ header' \in Seq(Value)
    BY <1>1, <1>3 DEF MayRead
  <2>2. Quiet => original = disk[handle].data
    BY <1>1 DEF IInv, QuietIsOriginal
  <2>3. CASE header'[1] \notin Signature /\ Conclude("Unsupported")
    <3>1. ~hidden /\ Quiet => Right("Unsupported")
      BY <1>1, <1>3, <2>1, <2>2, <2>3 DEF Right, Verdict, MayRead
    <3>2. /\ "Unsupported" \in Errors
          /\ stopped' \in BOOLEAN /\ hidden' \in BOOLEAN
      BY <1>3 DEF IInv, TypeOK, Errors, Findings
    <3>3. /\ pc = "signature" /\ at' = at /\ hidden' = hidden
          /\ UNCHANGED <<environment, options, handle, stamp, original>>
      OBVIOUS
    <3> HIDE DEF ReadSignature
    <3> QED
      BY <1>1, <2>1, <2>3, <3>1, <3>2, <3>3, ConcludeStep
  <2>4. CASE header'[1] \in Signature /\ Goto("extents")
    <3> USE DEF Goto, environment, options
    <3>1. TypeOK'
      BY <1>1, <1>3, <2>1, <2>4 DEF IInv, TypeOK, Phases
    <3>2. StampIsOfHandle' /\ QuietIsOriginal' /\ PassesFit'
      BY <1>1, <1>3, <2>4
         DEF IInv, StampIsOfHandle, QuietIsOriginal, PassesFit, Quiet, Stamped,
             MayRead
    <3>3. ReadIsOriginal'
      BY <1>3, <2>1, <2>2, <2>4 DEF ReadIsOriginal, Quiet
    <3> QED
      BY <3>1, <3>2, <3>3 DEF IInv
  <2> QED
    BY <1>2, <1>3, <2>3, <2>4
<1> QED
  BY <1>2, <1>3

(* A checkpoint that sees the flag ends the closure with no finding. *)
LEMMA CheckpointStops ==
  ASSUME IInv, cancel, stopped' = TRUE, Conclude("Cancelled"),
         pc \in {"extents", "poll", "last"},
         UNCHANGED <<environment, options, handle, stamp, original, header,
                     hidden>>,
         at' \in Nat, at' <= stamp.size
  PROVE  IInv'
<1>1. Right("Cancelled") /\ "Cancelled" \in Errors
  BY DEF Right, Findings, Errors
<1> QED
  BY <1>1, ConcludeStep DEF IInv, TypeOK

(* Checking the declared extents against the stamp keeps the invariant. *)
LEMMA ExtentsStep ==
  ASSUME IInv, CheckExtents
  PROVE  IInv'
<1> USE FileAssumption DEF CheckExtents, Step
<1>1. /\ Stamped /\ handle \in Inode /\ stamp.size = Len(original) /\ at \in Nat
      /\ original \in Seq(Value) /\ Len(original) >= 1 /\ at <= Len(original)
      /\ header \in Seq(Value)
      /\ stopped \in BOOLEAN /\ hidden \in BOOLEAN
      /\ ~hidden /\ Quiet => header[1] = original[1] /\ original[1] \in Signature
  BY DEF IInv, TypeOK, Stamped, StampIsOfHandle, PassesFit, ReadIsOriginal
<1>2. CASE /\ \E e \in {"ResourceBusy", "ResourceLimit"} : Conclude(e)
           /\ UNCHANGED <<at, stopped>>
  <2>1. PICK e \in {"ResourceBusy", "ResourceLimit"} : Conclude(e)
    BY <1>2
  <2>2. Right(e) /\ e \in Errors
    BY DEF Right, Findings, Errors
  <2> QED
    BY <1>1, <1>2, <2>1, <2>2, ConcludeStep
<1>3. CASE at' = Advance(1)
  <2>1. at' \in Nat /\ at' <= stamp.size
    BY <1>1, <1>3 DEF Advance
  <2>2. CASE cancel /\ stopped' = TRUE /\ Conclude("Cancelled")
    BY <1>1, <2>1, <2>2, CheckpointStops
  <2>3. CASE Whole > stamp.size /\ Conclude("Incomplete") /\ UNCHANGED stopped
    <3>1. ~hidden /\ Quiet => Right("Incomplete")
      BY <1>1, <2>3 DEF Right, Verdict
    <3> QED
      BY <1>1, <2>1, <2>3, <3>1, ConcludeStep DEF Errors, Findings
  <2>4. CASE Whole < stamp.size /\ header[1] \in Contiguous
             /\ Conclude("InvalidStructure") /\ UNCHANGED stopped
    <3>1. ~hidden /\ Quiet => Right("InvalidStructure")
      BY <1>1, <2>4 DEF Right, Verdict
    <3> QED
      BY <1>1, <2>1, <2>4, <3>1, ConcludeStep DEF Errors, Findings
  <2>5. CASE /\ \/ Whole = stamp.size
                \/ Whole < stamp.size /\ header[1] \notin Contiguous
             /\ UNCHANGED stopped
             /\ Goto(IF level = "full" THEN PayloadNext(1) ELSE "last")
    <3> USE DEF Goto, environment, options
    <3>1. /\ pc' \in {"last", "stream", "fill", "poll"}
          /\ pc' # "last" => level = "full"
          /\ pc' = "stream" => Whole = 1
          /\ pc' \in {"poll", "fill"} => Whole > 1 /\ at' = 1
          /\ pc' = "last" => level # "full"
      BY <1>3, <2>5 DEF PayloadNext, Advance
    <3>2. TypeOK'
      BY <1>1, <2>1, <2>5, <3>1 DEF IInv, TypeOK, Phases
    <3>3. StampIsOfHandle' /\ QuietIsOriginal' /\ PassesFit'
      BY <1>1, <2>1, <2>5, <3>1
         DEF IInv, StampIsOfHandle, QuietIsOriginal, PassesFit, Quiet, Stamped
    <3>4. ~hidden' => ReadIsOriginal'
      BY <1>1, <2>5, <3>1
         DEF IInv, ReadIsOriginal, Quiet, AgreeUpTo
    <3> QED
      BY <3>2, <3>3, <3>4 DEF IInv
  <2>6. CASE Checkpoint(
              \/ Whole > stamp.size /\ Conclude("Incomplete")
              \/ Whole < stamp.size /\ header[1] \in Contiguous
                   /\ Conclude("InvalidStructure")
              \/ /\ \/ Whole = stamp.size
                    \/ Whole < stamp.size /\ header[1] \notin Contiguous
                 /\ Goto(IF level = "full" THEN PayloadNext(1) ELSE "last"))
    BY <2>2, <2>3, <2>4, <2>5, <2>6 DEF Checkpoint
  <2> QED
    BY <1>2, <2>6
<1> QED
  BY <1>2, <1>3

(* The checkpoint of the decoding loop keeps the invariant. *)
LEMMA PollStep ==
  ASSUME IInv, Poll
  PROVE  IInv'
<1> USE DEF Poll, Step
<1>1. at \in Nat /\ at <= stamp.size
  BY DEF IInv, TypeOK
<1>2. CASE cancel /\ stopped' = TRUE /\ Conclude("Cancelled")
  BY <1>1, <1>2, CheckpointStops
<1>3. CASE /\ Goto(IF codec = "zstd" /\ at > 1 THEN "decode" ELSE "fill")
           /\ UNCHANGED stopped
  <2> USE DEF Goto, environment, options
  <2>1. TypeOK'
    BY <1>3 DEF IInv, TypeOK, Phases
  <2>2. StampIsOfHandle' /\ QuietIsOriginal' /\ PassesFit'
    BY <1>3 DEF IInv, StampIsOfHandle, QuietIsOriginal, PassesFit, Quiet, Stamped
  <2>3. ~hidden' => ReadIsOriginal'
    BY <1>3 DEF IInv, ReadIsOriginal, Quiet, AgreeUpTo
  <2> QED
    BY <2>1, <2>2, <2>3 DEF IInv
<1> QED
  BY <1>2, <1>3 DEF Checkpoint

(* Decoding the next chunk keeps the invariant: on a quiet file it is the  *)
(* next chunk of the stamped version.                                      *)
LEMMA FillStep ==
  ASSUME IInv, Fill
  PROVE  IInv'
<1> USE FileAssumption DEF Fill, Step
<1>1. /\ Stamped /\ handle \in Inode /\ stamp.size = Len(original)
      /\ at \in 1..Whole - 1 /\ Len(original) >= Whole /\ level = "full"
      /\ original \in Seq(Value) /\ disk[handle].data \in Seq(Value)
      /\ header \in Seq(Value)
      /\ stopped \in BOOLEAN /\ hidden \in BOOLEAN
  BY DEF IInv, TypeOK, Stamped, StampIsOfHandle, PassesFit
<1>2. CASE ReadFails(at + 1) /\ UNCHANGED at
  <2>1. at + 1 \in Nat /\ at + 1 <= Len(original)
    BY <1>1
  <2> QED
    BY <1>2, <2>1, ReadFailsStep
<1>3. CASE MayRead(at + 1) /\ at' = Advance(at + 1) /\ UNCHANGED stopped
  <2>1. at' \in Nat /\ at' <= stamp.size
    BY <1>1, <1>3 DEF Advance
  <2>2. ~hidden /\ Quiet =>
          /\ disk[handle].data[at + 1] = original[at + 1]
          /\ header[1] = original[1]
          /\ original[1] \in Signature
          /\ Len(original) = Whole \/ original[1] \notin Contiguous
          /\ AgreeUpTo(at)
    BY <1>1 DEF IInv, QuietIsOriginal, ReadIsOriginal
  <2>3. CASE /\ disk[handle].data[at + 1] # header[1]
             /\ Conclude("IntegrityMismatch")
    <3>1. ~hidden /\ Quiet => Right("IntegrityMismatch")
      <4>1. ~hidden /\ Quiet =>
              \E k \in 2..Whole : original[k] # original[1]
        BY <1>1, <2>2, <2>3
      <4> QED
        BY <1>1, <2>2, <4>1, SMTT(20) DEF Right, Verdict
    <3> QED
      BY <1>1, <1>3, <2>1, <2>3, <3>1, ConcludeStep DEF Errors, Findings
  <2>4. CASE /\ disk[handle].data[at + 1] = header[1]
             /\ Goto(PayloadNext(at + 1))
    <3> USE DEF Goto, environment, options
    <3>1. /\ pc' \in {"stream", "fill", "poll"}
          /\ pc' = "stream" => at + 1 = Whole
          /\ pc' \in {"poll", "fill"} => at' = at + 1 /\ at + 1 \in 2..Whole
          /\ pc' = "poll" => codec = "zstd" \/ at + 1 < Whole
          /\ pc' = "fill" => at + 1 < Whole
      BY <1>1, <1>3, <2>4 DEF PayloadNext, Advance
    <3>2. TypeOK'
      BY <1>1, <1>3, <2>1, <2>4, <3>1 DEF IInv, TypeOK, Phases
    <3>3. StampIsOfHandle' /\ QuietIsOriginal' /\ PassesFit'
      BY <1>1, <2>1, <2>4, <3>1
         DEF IInv, StampIsOfHandle, QuietIsOriginal, PassesFit, Quiet, Stamped
    <3>4. ~hidden /\ Quiet =>
            \A j \in 2..at + 1 : original[j] = original[1]
      BY <1>1, <2>2, <2>4 DEF AgreeUpTo
    <3>5. ~hidden' => ReadIsOriginal'
      BY <1>1, <2>4, <3>1, <3>4 DEF IInv, ReadIsOriginal, Quiet, AgreeUpTo
    <3> QED
      BY <3>2, <3>3, <3>5 DEF IInv
  <2> QED
    BY <1>2, <1>3, <2>3, <2>4
<1> QED
  BY <1>2, <1>3

(* Decoding a frame keeps the invariant: it reads the next chunk of the    *)
(* stamped version of a quiet file, or it hides an error.                  *)
LEMMA DecodeStep ==
  ASSUME IInv, Decode
  PROVE  IInv'
<1> USE FileAssumption DEF Decode, Step
<1>1. /\ Stamped /\ handle \in Inode /\ stamp.size = Len(original)
      /\ at \in 2..Whole /\ Len(original) >= Whole /\ level = "full"
      /\ original \in Seq(Value) /\ disk[handle].data \in Seq(Value)
      /\ header \in Seq(Value)
      /\ stopped \in BOOLEAN /\ hidden \in BOOLEAN
  BY DEF IInv, TypeOK, Stamped, StampIsOfHandle, PassesFit
<1>2. CASE \E e \in InputErrors : HideError(e) /\ UNCHANGED at
  <2>1. /\ Conclude("IntegrityMismatch") /\ UNCHANGED at
        /\ hidden' = TRUE /\ stopped' \in BOOLEAN
    BY <1>1, <1>2 DEF HideError
  <2> QED
    BY <1>1, <2>1, ConcludeStep DEF Errors, Findings
<1>3. CASE /\ at < Whole /\ MayRead(at + 1)
           /\ at' = at + 1 /\ UNCHANGED <<stopped, hidden>>
  <2>1. ~hidden /\ Quiet =>
          /\ disk[handle].data[at + 1] = original[at + 1]
          /\ header[1] = original[1]
          /\ original[1] \in Signature
          /\ Len(original) = Whole \/ original[1] \notin Contiguous
          /\ AgreeUpTo(at)
    BY <1>1 DEF IInv, QuietIsOriginal, ReadIsOriginal
  <2>2. CASE /\ disk[handle].data[at + 1] # header[1]
             /\ Conclude("IntegrityMismatch")
    <3>1. ~hidden /\ Quiet => \E k \in 2..Whole : original[k] # original[1]
      BY <1>1, <1>3, <2>1, <2>2
    <3>2. ~hidden /\ Quiet => Right("IntegrityMismatch")
      BY <1>1, <2>1, <3>1 DEF Right, Verdict
    <3> QED
      BY <1>1, <1>3, <2>2, <3>2, ConcludeStep DEF Errors, Findings
  <2>3. CASE disk[handle].data[at + 1] = header[1] /\ Goto("poll")
    <3> USE DEF Goto, environment, options
    <3>1. codec = "zstd"
      BY DEF IInv, PassesFit
    <3>2. TypeOK'
      BY <1>1, <1>3, <2>3 DEF IInv, TypeOK, Phases
    <3>3. StampIsOfHandle' /\ QuietIsOriginal' /\ PassesFit'
      BY <1>1, <1>3, <2>3, <3>1
         DEF IInv, StampIsOfHandle, QuietIsOriginal, PassesFit, Quiet, Stamped
    <3>4. ~hidden /\ Quiet => \A j \in 2..at + 1 : original[j] = original[1]
      <4>1. \A j \in 2..at + 1 : j \in 2..at \/ j = at + 1
        BY <1>1
      <4>2. ~hidden /\ Quiet => original[at + 1] = original[1]
        BY <2>1, <2>3
      <4> QED
        BY <2>1, <4>1, <4>2 DEF AgreeUpTo
    <3>5. ~hidden' => ReadIsOriginal'
      BY <1>1, <1>3, <2>3, <3>4 DEF IInv, ReadIsOriginal, Quiet, AgreeUpTo
    <3> QED
      BY <3>2, <3>3, <3>5 DEF IInv
  <2> QED
    BY <1>3, <2>2, <2>3
<1>4. CASE /\ at = Whole /\ at' = 0 /\ Goto("stream")
           /\ UNCHANGED <<stopped, hidden>>
  <2> USE DEF Goto, environment, options
  <2>1. TypeOK'
    BY <1>1, <1>4 DEF IInv, TypeOK, Phases
  <2>2. StampIsOfHandle' /\ QuietIsOriginal' /\ PassesFit'
    BY <1>1, <1>4
       DEF IInv, StampIsOfHandle, QuietIsOriginal, PassesFit, Quiet, Stamped
  <2>3. ~hidden' => ReadIsOriginal'
    BY <1>1, <1>4 DEF IInv, ReadIsOriginal, Quiet, AgreeUpTo
  <2> QED
    BY <2>1, <2>2, <2>3 DEF IInv
<1> QED
  BY <1>2, <1>3, <1>4

(* The second pass keeps the invariant. *)
LEMMA StreamStep ==
  ASSUME IInv, Stream
  PROVE  IInv'
<1> USE DEF Stream, Step
<1>1. /\ Stamped /\ handle \in Inode /\ stamp.size = Len(original)
      /\ at \in Nat /\ at <= stamp.size /\ Len(original) >= Whole
      /\ level = "full" /\ original \in Seq(Value)
      /\ header \in Seq(Value)
      /\ stopped \in BOOLEAN /\ hidden \in BOOLEAN
  BY DEF IInv, TypeOK, Stamped, StampIsOfHandle, PassesFit
<1>2. CASE /\ \E e \in {"ResourceBusy", "ResourceLimit"} : Conclude(e)
           /\ UNCHANGED <<at, stopped>>
  <2>1. PICK e \in {"ResourceBusy", "ResourceLimit"} : Conclude(e)
    BY <1>2
  <2>2. Right(e) /\ e \in Errors
    BY DEF Right, Findings, Errors
  <2> QED
    BY <1>1, <1>2, <2>1, <2>2, ConcludeStep
<1>3. CASE at < stamp.size /\ ReadFails(at + 1) /\ UNCHANGED at
  <2>1. at + 1 \in Nat /\ at + 1 <= Len(original)
    BY <1>1, <1>3
  <2> QED
    BY <1>3, <2>1, ReadFailsStep
<1>4. CASE /\ UNCHANGED stopped
           /\ \/ at < stamp.size /\ at' = at + 1 /\ Goto("stream")
              \/ at' = at /\ Goto("last")
  <2> USE FileAssumption DEF Goto, environment, options
  <2>1. TypeOK'
    BY <1>1, <1>4 DEF IInv, TypeOK, Phases
  <2>2. StampIsOfHandle' /\ QuietIsOriginal' /\ PassesFit'
    BY <1>1, <1>4
       DEF IInv, StampIsOfHandle, QuietIsOriginal, PassesFit, Quiet, Stamped
  <2>3. ~hidden' => ReadIsOriginal'
    BY <1>4 DEF IInv, ReadIsOriginal, Quiet, AgreeUpTo
  <2> QED
    BY <2>1, <2>2, <2>3 DEF IInv
<1> QED
  BY <1>2, <1>3, <1>4

(* The last checkpoint ends the closure with the right verdict. *)
LEMMA LastStep ==
  ASSUME IInv, LastCheckpoint
  PROVE  IInv'
<1> USE DEF LastCheckpoint, Step
<1>1. /\ at \in Nat /\ at <= stamp.size /\ Len(original) >= Whole
      /\ header \in Seq(Value)
      /\ stopped \in BOOLEAN /\ hidden \in BOOLEAN
      /\ Len(original) >= 1 /\ original \in Seq(Value)
  BY DEF IInv, TypeOK, PassesFit
<1>2. CASE cancel /\ stopped' = TRUE /\ Conclude("Cancelled")
  BY <1>1, <1>2, CheckpointStops
<1>3. CASE Conclude("ok") /\ UNCHANGED stopped
  <2>1. ~hidden /\ Quiet => Right("ok")
    BY <1>1, FileAssumption, SMTT(20)
       DEF IInv, TypeOK, ReadIsOriginal, AgreeUpTo, Right, Verdict
  <2> QED
    BY <1>1, <1>3, <2>1, ConcludeStep
<1> QED
  BY <1>2, <1>3 DEF Checkpoint

(* The two comparisons let the result of a quiet file through. *)
LEMMA CompareStep ==
  ASSUME IInv, CompareHandle \/ ComparePath
  PROVE  IInv'
<1> USE DEF IInv, CompareHandle, ComparePath, Step, Goto, Return, environment,
            options
<1>1. TypeOK'
  BY DEF TypeOK, Phases, Errors
<1>2. StampIsOfHandle' /\ QuietIsOriginal' /\ PassesFit'
  BY DEF StampIsOfHandle, QuietIsOriginal, PassesFit, Quiet, Stamped
<1>3. pc = "consistent" /\ Stamp(handle) = stamp => disk[handle].time = stamp.time
  BY DEF Stamp
<1>4. ~hidden' => ReadIsOriginal'
  BY <1>3 DEF ReadIsOriginal, Quiet, Right, Findings
<1> QED
  BY <1>1, <1>2, <1>4
-----------------------------------------------------------------------------
(* Every step keeps the invariant. *)
LEMMA NextIInv == IInv /\ [Next]_vars => IInv'
<1> SUFFICES ASSUME IInv, [Next]_vars PROVE IInv'
  OBVIOUS
<1>1. CASE UNCHANGED vars
  BY <1>1
     DEF vars, environment, options, IInv, TypeOK, StampIsOfHandle, Stamped,
         QuietIsOriginal, Quiet, PassesFit, ReadIsOriginal, AgreeUpTo, Right
<1>2. CASE Next
  BY <1>2, WriteStep, OtherEventStep, OpeningStep, SignatureStep, ExtentsStep,
     PollStep, FillStep, DecodeStep, StreamStep, LastStep, CompareStep DEF Next, Call
<1> QED
  BY <1>1, <1>2

(* The strengthening holds in every reachable state. *)
THEOREM CallStrengthening == Spec => []IInv
  BY InitIInv, NextIInv, PTL DEF Spec

(* The variables keep their types, and no pass reads past the stamp. *)
THEOREM CallTypeCorrect == Spec => []TypeOK
<1>1. IInv => TypeOK
  BY DEF IInv
<1> QED
  BY <1>1, CallStrengthening, PTL

(* A verdict is about the stamped version, except when the Zstandard       *)
(* decoder changed the kind of its input's error.                          *)
THEOREM VerdictsAreOfOneVersion == Spec => []FindingsAreTrue
<1>1. IInv => FindingsAreTrue
  <2> SUFFICES ASSUME IInv, Judged, ~blurred, ~hidden
               PROVE  outcome = Verdict(original, level)
    BY DEF FindingsAreTrue
  <2>1. pc = "returned"
    BY DEF IInv, StampIsOfHandle, Judged, Findings
  <2> QED
    BY <2>1 DEF IInv, ReadIsOriginal, Right, Judged
<1> QED
  BY <1>1, CallStrengthening, PTL
-----------------------------------------------------------------------------
(* What the call owes its caller: as long as nobody touched the file, the  *)
(* handle has the stamp and the path's file, and is not found to differ;   *)
(* and an outcome is decided once, with the checkpoint that saw the flag   *)
(* or at the last comparison.                                              *)
Debts ==
  /\ OutcomeIsOwed
  /\ stopped /\ ~hidden => outcome = "Cancelled"
  /\ result # "ChangedDuringValidation"
  /\ ~touched =>
       /\ handle # NoFile => path = handle
       /\ Stamped => Stamp(handle) = stamp
       /\ pc # "differs"

(* A call that has not begun owes nothing. *)
LEMMA InitDebts == Init => Debts
  BY DEF Init, Debts, OutcomeIsOwed, VerdictIsOfThePath, ChangesAreReal,
         CancellationIsDistinct, Judged, Findings, Stamped

(* Events come before the outcome, and mark what they touch. *)
LEMMA EventDebts ==
  ASSUME IInv, Debts,
         \/ \E i \in Inode : Write(i) \/ Append1(i) \/ Truncate(i)
         \/ \E p \in Inode \cup {NoFile, Special} : Rename(p)
         \/ Tick
         \/ ToggleCancel
  PROVE  Debts'
<1>1. Event
  BY DEF Write, Append1, Truncate, Store, Rename, Tick, ToggleCancel
<1>2. outcome = "none" /\ outcome' = "none"
  BY <1>1 DEF Event, IInv, StampIsOfHandle
<1>3. /\ UNCHANGED <<handle, stamp, pc, result, stopped, hidden>>
      /\ Stamped' = Stamped /\ (Stamped => handle \in Inode)
  BY <1>1 DEF Event, IInv, StampIsOfHandle, Stamped
<1>4. ASSUME ~touched'
      PROVE  /\ ~touched
             /\ handle # NoFile => UNCHANGED path
             /\ handle \in Inode => disk'[handle] = disk[handle]
  <2>1. CASE \E i \in Inode : Write(i) \/ Append1(i) \/ Truncate(i)
    <3>1. PICK i \in Inode : \E data : Store(i, data)
      BY <2>1 DEF Write, Append1, Truncate
    <3> QED
      BY <1>4, <3>1 DEF Store, IInv, TypeOK
  <2>2. CASE \E p \in Inode \cup {NoFile, Special} : Rename(p)
    BY <1>4, <2>2 DEF Rename
  <2>3. CASE Tick \/ ToggleCancel
    BY <1>4, <2>3 DEF Tick, ToggleCancel
  <2> QED
    BY <2>1, <2>2, <2>3
<1>5. OutcomeIsOwed'
  BY <1>2 DEF OutcomeIsOwed, VerdictIsOfThePath, ChangesAreReal,
              CancellationIsDistinct, Judged, Findings
<1> QED
  BY <1>2, <1>3, <1>4, <1>5 DEF Debts, Stamp

(* The closure ends: with the cancellation at once, or with a result that  *)
(* is no outcome yet.                                                      *)
LEMMA ConcludeDebts ==
  ASSUME IInv, Debts, NEW kind, Conclude(kind), kind # "ChangedDuringValidation",
         Stamped,
         pc \notin {"consistent", "compare", "differs"},
         UNCHANGED <<environment, handle, stamp>>,
         stopped' /\ ~hidden' => kind = "Cancelled"
  PROVE  Debts'
<1>1. outcome = "none"
  BY DEF IInv, StampIsOfHandle, Stamped
<1>2. Stamp(handle)' = Stamp(handle)
  BY DEF environment, Stamp
<1>3. outcome' = (IF kind = "Cancelled" THEN kind ELSE "none")
  BY <1>1 DEF Conclude, Return
<1>4. OutcomeIsOwed' /\ (stopped' /\ ~hidden' => outcome' = "Cancelled")
  BY <1>3 DEF OutcomeIsOwed, VerdictIsOfThePath, ChangesAreReal,
              CancellationIsDistinct, Judged, Findings
<1> QED
  BY <1>2, <1>4 DEF Debts, Conclude, Return, environment

(* The call goes on: nothing is decided. *)
LEMMA GotoDebts ==
  ASSUME IInv, Debts, NEW place, Goto(place), place # "differs", Stamped,
         UNCHANGED <<environment, handle, stamp, stopped, hidden>>
  PROVE  Debts'
<1>1. outcome = "none" /\ outcome' = "none"
  BY DEF IInv, StampIsOfHandle, Stamped, Goto
<1>2. Stamp(handle)' = Stamp(handle)
  BY DEF environment, Stamp
<1> QED
  BY <1>1, <1>2 DEF Debts, OutcomeIsOwed, VerdictIsOfThePath, ChangesAreReal,
                    CancellationIsDistinct, Judged, Findings, environment, Goto

(* The steps up to the stamp: the file opened is the path's. *)
LEMMA OpeningDebts ==
  ASSUME IInv, Debts, Start \/ Open \/ StatHandle
  PROVE  Debts'
<1> USE FileAssumption DEF IInv, StampIsOfHandle, Start, Open, StatHandle, Step, Goto, Return,
                           environment
<1>1. OutcomeIsOwed'
  BY DEF Debts, OutcomeIsOwed, VerdictIsOfThePath, ChangesAreReal,
         CancellationIsDistinct, Judged, Findings
<1>2. /\ (stopped /\ ~hidden => outcome = "Cancelled")'
      /\ result' # "ChangedDuringValidation"
  BY DEF Debts
<1>3. (~touched => (handle # NoFile => path = handle)
                      /\ (Stamped => Stamp(handle) = stamp) /\ pc # "differs")'
  BY DEF Debts, Stamped, Stamp
<1> QED
  BY <1>1, <1>2, <1>3 DEF Debts

(* Reading, checking and decoding. *)
LEMMA ClosureDebts ==
  ASSUME IInv, Debts,
         ReadSignature \/ CheckExtents \/ Poll \/ Fill \/ Decode \/ Stream
           \/ LastCheckpoint
  PROVE  Debts'
<1> DEFINE Same == UNCHANGED <<environment, handle, stamp>>
<1>1. Stamped /\ pc \notin {"consistent", "compare", "differs"} /\ Same /\ outcome = "none"
  BY DEF ReadSignature, CheckExtents, Poll, Fill, Decode, Stream, LastCheckpoint,
         Step, Stamped, IInv, StampIsOfHandle
<1>2. stopped /\ ~hidden => FALSE
  BY <1>1 DEF Debts
<1>3. ASSUME \E k \in Nat : ReadFails(k), UNCHANGED hidden
      PROVE  Debts'
  <2>1. PICK k \in Nat : ReadFails(k)
    BY <1>3
  <2>2. PICK e \in ReadErrors(k) :
          stopped' = (stopped \/ e = "Cancelled") /\ Conclude(e)
    BY <2>1 DEF ReadFails
  <2>3. stamp.size \in Nat
    BY DEF IInv, TypeOK
  <2>4. e # "ChangedDuringValidation"
    BY <2>2, <2>3 DEF ReadErrors
  <2> QED
    BY <1>1, <1>2, <1>3, <2>2, <2>4, ConcludeDebts
<1>4. ASSUME NEW kind, Conclude(kind), kind # "ChangedDuringValidation",
             UNCHANGED <<stopped, hidden>>
      PROVE  Debts'
  BY <1>1, <1>2, <1>4, ConcludeDebts
<1>5. ASSUME Conclude("Cancelled") PROVE Debts'
  BY <1>1, <1>5, ConcludeDebts
<1>6. ASSUME NEW place, Goto(place), place # "differs", UNCHANGED <<stopped, hidden>>
      PROVE  Debts'
  BY <1>1, <1>6, GotoDebts
<1>7. ASSUME NEW e, HideError(e) PROVE Debts'
  BY <1>1, <1>7, ConcludeDebts DEF HideError
<1>8. at \in Nat /\ \A k : PayloadNext(k) # "differs"
  BY DEF IInv, TypeOK, PayloadNext
<1> HIDE DEF Same
<1>9. CASE ReadSignature
  BY <1>3, <1>4, <1>6, <1>9 DEF ReadSignature
<1>10. CASE CheckExtents
  BY <1>4, <1>5, <1>6, <1>8, <1>10 DEF CheckExtents, Checkpoint
<1>11. CASE Poll
  BY <1>5, <1>6, <1>11 DEF Poll, Checkpoint
<1>12. CASE Fill
  BY <1>3, <1>4, <1>6, <1>8, <1>12 DEF Fill
<1>13. CASE Decode
  BY <1>4, <1>6, <1>13, <1>7 DEF Decode
<1>14. CASE Stream
  BY <1>3, <1>4, <1>6, <1>8, <1>14 DEF Stream
<1>15. CASE LastCheckpoint
  BY <1>4, <1>5, <1>15 DEF LastCheckpoint, Checkpoint
<1> QED
  BY <1>9, <1>10, <1>11, <1>12, <1>13, <1>14, <1>15

(* The comparisons: an untouched file passes both, and a path that passes  *)
(* the second names the open file.                                         *)
LEMMA CompareDebts ==
  ASSUME IInv, Debts, CompareHandle \/ ComparePath
  PROVE  Debts'
<1>1. /\ Stamped /\ outcome = "none" /\ handle \in Inode /\ stamp.inode = handle
      /\ handle # NoFile
      /\ UNCHANGED <<environment, handle, stamp, result, stopped, hidden>>
  BY FileAssumption
     DEF CompareHandle, ComparePath, Step, Stamped, IInv, StampIsOfHandle, Goto
<1>2. ~touched => Stamp(handle) = stamp /\ path = handle
  BY <1>1 DEF Debts
<1>3. ~(stopped /\ ~hidden)
  BY <1>1 DEF Debts
<1>4. SamePath => path = handle
  BY <1>1 DEF SamePath, Stamp
<1>5. outcome' = "ChangedDuringValidation" => touched
  BY <1>1, <1>2 DEF Debts, CompareHandle, ComparePath, SamePath, Return, Goto
<1>6. outcome' \in Findings \cup {"ok"} => path = handle
  BY <1>1, <1>4 DEF CompareHandle, ComparePath, Return, Goto, Findings
<1>7. ~touched => pc' # "differs"
  BY <1>2 DEF Debts, CompareHandle, ComparePath, Return, Goto
<1> QED
  BY <1>1, <1>2, <1>3, <1>5, <1>6, <1>7
     DEF Debts, OutcomeIsOwed, VerdictIsOfThePath, ChangesAreReal,
         CancellationIsDistinct, Judged, environment, Stamp
-----------------------------------------------------------------------------
(* Every step keeps them. *)
LEMMA NextDebts == IInv /\ Debts /\ [Next]_vars => Debts'
<1> SUFFICES ASSUME IInv, Debts, [Next]_vars PROVE Debts'
  OBVIOUS
<1>1. CASE UNCHANGED vars
  BY <1>1
     DEF vars, environment, Debts, OutcomeIsOwed, VerdictIsOfThePath, ChangesAreReal,
         CancellationIsDistinct, Judged, Stamped, Stamp
<1>2. CASE Next
  BY <1>2, EventDebts, OpeningDebts, ClosureDebts, CompareDebts DEF Next, Call
<1> QED
  BY <1>1, <1>2

(* A verdict is of the file the path names, a change is a writer's, and    *)
(* who cancelled is told so, except for what the decoder hid.              *)
THEOREM OutcomesAreOwed == Spec => []OutcomeIsOwed
<1>1. Debts => OutcomeIsOwed
  BY DEF Debts
<1> QED
  BY <1>1, InitDebts, NextDebts, CallStrengthening, PTL DEF Spec
=============================================================================
