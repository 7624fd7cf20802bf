---------------------------- MODULE ValidateFile ----------------------------
(***************************************************************************)
(* One call of validate_controlled (validation/mod.rs) on a file that its  *)
(* producer may still write, replace or remove, and that the caller may    *)
(* cancel, at any time.  The call opens the path, keeps the stamp of the   *)
(* open file, reads, and at the end compares the stamps of the handle and  *)
(* of the path with the one it kept.                                       *)
(*                                                                         *)
(* A file is a sequence of chunks, each read after one checkpoint.  The    *)
(* formats are abstracted to what the control flow tells apart: the first  *)
(* chunk has a known signature or not, it declares Whole chunks, and each  *)
(* other chunk agrees with the first (checksums, decoders) or not.  The    *)
(* structural level checks extents only; the full level reads the payload, *)
(* through a decoder when it is compressed, then streams the whole file.   *)
(* Writes are stamped by a clock, whose ticks may be coarse.               *)
(***************************************************************************)
EXTENDS Integers, Sequences, FiniteSets

CONSTANTS
  Inode,      \* files of the directory
  NoFile,     \* the path names no file
  Special,    \* something at the path that is not a regular file
  Value,      \* what a chunk may hold
  Signature,  \* values whose first chunk is a known signature
  Contiguous, \* those of FITS, whose HDUs fill the file
  Whole,      \* chunks that the header declares
  Codec,      \* what the payload may be stored with: "none", "zlib", "zstd"
  MaxEvents   \* bound: writes, renames, ticks and cancellation toggles

ASSUME FileAssumption ==
  /\ NoFile \notin Inode /\ Special \notin Inode
  /\ Contiguous \subseteq Signature /\ Signature \subseteq Value
  /\ Whole \in Nat \ {0}
  /\ Codec \subseteq {"none", "zlib", "zstd"}
  /\ MaxEvents \in Nat

VARIABLES
  disk,      \* chunks and modification time of each file
  path,      \* the file the path names
  clock,     \* the time a write is stamped with
  cancel,    \* the caller's AtomicBool
  events,    \* counts the bound MaxEvents
  level,     \* options.level
  codec,     \* the compression of the payload
  pc,        \* what the call does next
  handle,    \* the open file
  stamp,     \* Context.stamp
  at,        \* chunks read in this pass
  header,    \* the first chunk, once read
  result,    \* what the closure returned
  outcome,   \* what the call returned
  original,  \* history: the chunks when the stamp was taken
  stopped,   \* history: a checkpoint saw the flag
  hidden,    \* history: a decoder changed the kind of its input's error
  touched,   \* history: the file or its name changed since it was opened
  blurred    \* history: a write since then left the stamped time as it was

environment == <<disk, path, clock, cancel, events, touched, blurred>>
options == <<level, codec>>
vars == <<environment, options, pc, handle, stamp, at, header, result,
          outcome, original, stopped, hidden>>

Findings == {"Incomplete", "InvalidStructure", "IntegrityMismatch",
             "Unsupported"}
Errors == Findings \cup {"ChangedDuringValidation", "Cancelled", "Io",
                         "ResourceBusy", "ResourceLimit"}
Phases == {"start", "open", "stat", "signature", "extents", "poll", "fill",
           "decode", "stream", "last", "consistent", "compare", "differs", "returned"}

(* FileStamp::from_metadata: length, modification time, device and inode. *)
Stamp(i) == [size |-> Len(disk[i].data), time |-> disk[i].time, inode |-> i]

Init ==
  /\ disk \in [Inode -> {[data |-> d, time |-> 0] :
                           d \in UNION {[1..n -> Value] : n \in 0..Whole + 1}}]
  /\ path \in Inode \cup {NoFile, Special}
  /\ \A i \in Inode : i # path => disk[i].data = <<>>
  /\ clock \in {0, 1}
  /\ cancel \in BOOLEAN
  /\ events = 0
  /\ level \in {"structural", "full"}
  /\ codec \in Codec
  /\ pc = "start"
  /\ handle = NoFile
  /\ stamp = [size |-> 0, time |-> 0, inode |-> NoFile]
  /\ at = 0
  /\ header = <<>>
  /\ result = "none" /\ outcome = "none"
  /\ original = <<>>
  /\ stopped = FALSE /\ hidden = FALSE /\ touched = FALSE /\ blurred = FALSE
-----------------------------------------------------------------------------
(* The producer of the file, and the thread that may cancel the call. *)
Event ==
  /\ events < MaxEvents
  /\ pc # "returned"
  /\ events' = events + 1
  /\ UNCHANGED <<options, pc, handle, stamp, at, header, result, outcome,
                 original, stopped, hidden>>

Store(i, data) ==
  /\ Event
  /\ disk' = [disk EXCEPT ![i] = [data |-> data, time |-> clock]]
  /\ touched' = (touched \/ i = handle)
  /\ blurred' = (blurred \/ (i = stamp.inode /\ clock = stamp.time))
  /\ UNCHANGED <<path, clock, cancel>>

Write(i) ==
  \E k \in 1..Len(disk[i].data), v \in Value :
    Store(i, [disk[i].data EXCEPT ![k] = v])
Append1(i) ==
  /\ Len(disk[i].data) <= Whole
  /\ \E v \in Value : Store(i, Append(disk[i].data, v))
Truncate(i) ==
  /\ disk[i].data # <<>>
  /\ Store(i, SubSeq(disk[i].data, 1, Len(disk[i].data) - 1))

(* Another file is renamed over the path, or the path is removed. *)
Rename(p) ==
  /\ Event
  /\ p # path
  /\ path' = p
  /\ touched' = (touched \/ handle # NoFile)
  /\ UNCHANGED <<disk, clock, cancel, blurred>>

Tick ==
  /\ Event
  /\ clock' = clock + 1
  /\ UNCHANGED <<disk, path, cancel, touched, blurred>>

ToggleCancel ==
  /\ Event
  /\ cancel' = ~cancel
  /\ UNCHANGED <<disk, path, clock, touched, blurred>>
-----------------------------------------------------------------------------
Step(from) ==
  /\ pc = from
  /\ UNCHANGED <<environment, options>>

Goto(to) == pc' = to /\ UNCHANGED <<result, outcome>>

Return(kind) ==
  /\ outcome' = kind
  /\ pc' = "returned"

(* Mutant: the stamps are compared after a success only. *)
ConcludeComparesSuccess(kind) ==
  /\ result' = kind
  /\ IF kind = "ok"
     THEN pc' = "consistent" /\ UNCHANGED outcome
     ELSE Return(kind)

(* The closure ends.  A cancellation is the outcome; everything else waits *)
(* for the comparison of the stamps, which may override it.                *)
Conclude(kind) ==
  /\ result' = kind
  /\ IF kind = "Cancelled"
     THEN Return(kind)
     ELSE pc' = "consistent" /\ UNCHANGED outcome

(* A checkpoint of the closure: its caller goes on unless the flag is set. *)
Checkpoint(Continue) ==
  \/ /\ cancel
     /\ stopped' = TRUE
     /\ Conclude("Cancelled")
  \/ /\ ~cancel
     /\ UNCHANGED stopped
     /\ Continue

(* Context::read: the extent against the stamp, a checkpoint, read_exact,  *)
(* which meets the end of a file that shrank, or a failing device.         *)
ReadErrors(k) ==
  CASE k > stamp.size -> {"Incomplete"}
    [] k <= stamp.size /\ cancel -> {"Cancelled"}
    [] k <= stamp.size /\ ~cancel ->
         {"Io"} \cup IF k > Len(disk[handle].data) THEN {"Incomplete"} ELSE {}

MayRead(k) == k <= stamp.size /\ ~cancel /\ k <= Len(disk[handle].data)

ReadFails(k) ==
  \E e \in ReadErrors(k) :
    /\ stopped' = (stopped \/ e = "Cancelled")
    /\ Conclude(e)

(* decode_zstd_frame turns an error of its input, whatever its kind, into  *)
(* invalid data, which streaming::zstd reports as an integrity mismatch.   *)
HideError(e) ==
  /\ stopped' = (stopped \/ e = "Cancelled")
  /\ hidden' = TRUE
  /\ Conclude("IntegrityMismatch")
-----------------------------------------------------------------------------
Start ==
  /\ Step("start")
  /\ \/ cancel /\ stopped' = TRUE /\ Return("Cancelled") /\ UNCHANGED result
     \/ ~cancel /\ Goto("open") /\ UNCHANGED stopped
  /\ UNCHANGED <<handle, stamp, at, header, original, hidden>>

Open ==
  /\ Step("open")
  /\ \/ path = NoFile /\ Return("Io") /\ UNCHANGED <<result, handle>>
     \/ path # NoFile /\ handle' = path /\ Goto("stat")
  /\ UNCHANGED <<stamp, at, header, original, stopped, hidden>>

(* Metadata, the account and the empty diagnostics reservation. *)
StatHandle ==
  /\ Step("stat")
  /\ \/ /\ Return(IF handle = Special THEN "Unsupported" ELSE "Io")
        /\ UNCHANGED <<result, stamp, original>>
     \/ /\ handle # Special
        /\ stamp' = Stamp(handle)
        /\ original' = disk[handle].data
        /\ Goto("signature")
  /\ UNCHANGED <<handle, at, header, stopped, hidden>>

ReadSignature ==
  /\ Step("signature")
  /\ \/ ReadFails(1) /\ UNCHANGED header
     \/ /\ MayRead(1)
        /\ header' = <<disk[handle].data[1]>>
        /\ IF header'[1] \in Signature
           THEN Goto("extents")
           ELSE Conclude("Unsupported")
        /\ UNCHANGED stopped
  /\ UNCHANGED <<handle, stamp, at, original, hidden>>

(* What follows the k-th chunk: a Zstandard block is decoded once its first *)
(* chunk, with the frame's requirements, is in the buffer.                 *)
PayloadNext(k) ==
  CASE k = Whole /\ (k = 1 \/ codec # "zstd") -> "stream"
    [] k # Whole /\ codec = "none" -> "fill"
    [] OTHER -> "poll"

(* Chunks read: none again once the pass over the payload is complete. *)
Advance(k) == IF PayloadNext(k) = "stream" THEN 0 ELSE k

(* xisf::validate and fits::validate on the declared layout: working       *)
(* memory, a checkpoint, the declared extents; the payload follows at the  *)
(* full level.  What follows the last HDU of a FITS file is taken for one  *)
(* more; XISF does not look past its blocks.                               *)
CheckExtents ==
  /\ Step("extents")
  /\ \/ /\ \E e \in {"ResourceBusy", "ResourceLimit"} : Conclude(e)
        /\ UNCHANGED <<at, stopped>>
     \/ /\ Checkpoint(
             \/ Whole > stamp.size /\ Conclude("Incomplete")
             \/ Whole < stamp.size /\ header[1] \in Contiguous
                  /\ Conclude("InvalidStructure")
             \/ /\ \/ Whole = stamp.size
                   \/ Whole < stamp.size /\ header[1] \notin Contiguous
                /\ Goto(IF level = "full" THEN PayloadNext(1) ELSE "last"))
        /\ at' = Advance(1)
  /\ UNCHANGED <<handle, stamp, header, original, hidden>>

(* The checkpoint of the decoding loop. *)
Poll ==
  /\ Step("poll")
  /\ Checkpoint(Goto(IF codec = "zstd" /\ at > 1 THEN "decode" ELSE "fill"))
  /\ UNCHANGED <<handle, stamp, at, header, original, hidden>>

(* Input::fill_buf, for zlib, the checksum or the inspection of a frame. *)
Fill ==
  /\ Step("fill")
  /\ \/ ReadFails(at + 1) /\ UNCHANGED at
     \/ /\ MayRead(at + 1)
        /\ IF disk[handle].data[at + 1] = header[1]
           THEN Goto(PayloadNext(at + 1))
           ELSE Conclude("IntegrityMismatch")
        /\ at' = Advance(at + 1)
        /\ UNCHANGED stopped
  /\ UNCHANGED <<handle, stamp, header, original, hidden>>

(* decoder.read of a Zstandard frame, which calls Input::fill_buf itself:  *)
(* a checkpoint, and the next chunk when there is one.                     *)
InputErrors ==
  IF at < Whole THEN ReadErrors(at + 1) ELSE {e \in {"Cancelled"} : cancel}

Decode ==
  /\ Step("decode")
  /\ \/ \E e \in InputErrors : HideError(e) /\ UNCHANGED at
     \/ /\ at < Whole /\ MayRead(at + 1)
        /\ IF disk[handle].data[at + 1] = header[1]
           THEN Goto("poll")
           ELSE Conclude("IntegrityMismatch")
        /\ at' = at + 1
        /\ UNCHANGED <<stopped, hidden>>
     \/ /\ at = Whole /\ ~cancel
        /\ at' = 0
        /\ Goto("stream") /\ UNCHANGED <<stopped, hidden>>
  /\ UNCHANGED <<handle, stamp, header, original>>

(* Mutant: read instead of read_exact; the end of the file is no error. *)
StreamToLength ==
  /\ Step("stream")
  /\ \/ at < stamp.size /\ cancel /\ ReadFails(at + 1) /\ UNCHANGED at
     \/ /\ at < stamp.size
        /\ ~cancel
        /\ at' = IF MayRead(at + 1) THEN at + 1 ELSE at
        /\ Goto("stream") /\ UNCHANGED stopped
     \/ at = stamp.size /\ Goto("last") /\ UNCHANGED <<at, stopped>>
  /\ UNCHANGED <<handle, stamp, header, original, hidden>>

(* The full level reads every byte of the stamped length once more. *)
Stream ==
  /\ Step("stream")
  /\ \/ /\ at = 0
        /\ \E e \in {"ResourceBusy", "ResourceLimit"} : Conclude(e)
        /\ UNCHANGED <<at, stopped>>
     \/ at < stamp.size /\ ReadFails(at + 1) /\ UNCHANGED at
     \/ /\ at < stamp.size /\ MayRead(at + 1)
        /\ at' = at + 1
        /\ Goto("stream") /\ UNCHANGED stopped
     \/ at = stamp.size /\ Goto("last") /\ UNCHANGED <<at, stopped>>
  /\ UNCHANGED <<handle, stamp, header, original, hidden>>

LastCheckpoint ==
  /\ Step("last")
  /\ Checkpoint(Conclude("ok"))
  /\ UNCHANGED <<handle, stamp, at, header, original, hidden>>

(* consistent() looks at the handle, then at the path, then at what it     *)
(* saw.  Its first half: whether the handle still has the stamp.           *)
CompareHandle ==
  /\ Step("consistent")
  /\ \/ Return("Io") /\ UNCHANGED result
     \/ Goto(IF Stamp(handle) = stamp THEN "compare" ELSE "differs")
  /\ UNCHANGED <<handle, stamp, at, header, original, stopped, hidden>>

SamePath == path \in Inode /\ Stamp(path) = stamp

(* Mutant: the path only has to exist. *)
ComparePathExists ==
  /\ \E from \in {"compare", "differs"} : Step(from)
  /\ \/ Return("Io")
     \/ (pc = "differs" \/ path \notin Inode) /\ Return("ChangedDuringValidation")
     \/ pc = "compare" /\ path \in Inode /\ Return(result)
  /\ UNCHANGED <<result, handle, stamp, at, header, original, stopped, hidden>>

(* Second half: whether the path has it too.  Then the closure's result    *)
(* stands.                                                                 *)
ComparePath ==
  /\ \E from \in {"compare", "differs"} : Step(from)
  /\ \/ Return("Io")
     \/ (pc = "differs" \/ ~SamePath) /\ Return("ChangedDuringValidation")
     \/ pc = "compare" /\ SamePath /\ Return(result)
  /\ UNCHANGED <<result, handle, stamp, at, header, original, stopped, hidden>>

Call ==
  \/ Start \/ Open \/ StatHandle \/ ReadSignature \/ CheckExtents
  \/ Poll \/ Fill \/ Decode \/ Stream
  \/ LastCheckpoint \/ CompareHandle \/ ComparePath

Next ==
  \/ Call
  \/ \E i \in Inode : Write(i) \/ Append1(i) \/ Truncate(i)
  \/ \E p \in Inode \cup {NoFile, Special} : Rename(p)
  \/ Tick
  \/ ToggleCancel

Spec == Init /\ [][Next]_vars

(* The calling thread is scheduled, and reads of the OS come back. *)
FairSpec == Spec /\ WF_vars(Call)
-----------------------------------------------------------------------------
(* Every variable keeps its type. *)
TypeOK ==
  /\ disk \in [Inode -> [data : Seq(Value), time : Nat]]
  /\ path \in Inode \cup {NoFile, Special}
  /\ clock \in Nat /\ events \in Nat
  /\ {cancel, stopped, hidden} \subseteq BOOLEAN
  /\ touched \in BOOLEAN /\ blurred \in BOOLEAN
  /\ level \in {"structural", "full"} /\ codec \in Codec
  /\ pc \in Phases
  /\ handle \in Inode \cup {NoFile, Special}
  /\ stamp \in [size : Nat, time : Nat, inode : Inode \cup {NoFile}]
  /\ at \in Nat /\ at <= stamp.size
  /\ header \in Seq(Value) /\ original \in Seq(Value)
  /\ result \in Errors \cup {"none", "ok"}
  /\ outcome \in Errors \cup {"none", "ok"}

(* What a call says of a file that nobody touches, by its definition. *)
Verdict(data, lvl) ==
  CASE Len(data) = 0 -> "Incomplete"
    [] Len(data) > 0 /\ data[1] \notin Signature -> "Unsupported"
    [] OTHER ->
         CASE Len(data) < Whole -> "Incomplete"
           [] Len(data) > Whole /\ data[1] \in Contiguous -> "InvalidStructure"
           [] OTHER ->
                IF lvl = "full" /\ \E k \in 2..Whole : data[k] # data[1]
                THEN "IntegrityMismatch"
                ELSE "ok"

Judged == outcome \in Findings \cup {"ok"} /\ result # "none"

(* A report or a format finding is about one version of the file, the one  *)
(* stamped at the start: chunks of two versions never add up to a verdict, *)
(* and a sound file is never found corrupt because it was being written    *)
(* (mod.rs: a concurrent source change invalidates both success and format *)
(* findings).  The stamp must tell versions apart: a write within the tick *)
(* of the stamp is excluded, as FileStamp is no snapshot, and so is what   *)
(* is reported for an error whose kind a decoder changed.                  *)
FindingsAreTrue ==
  Judged /\ ~blurred /\ ~hidden => outcome = Verdict(original, level)

(* The file judged is the one the path names at the end, so a path that    *)
(* was renamed over or removed meanwhile gets no verdict.                  *)
VerdictIsOfThePath == Judged => path = handle

(* A file at rest is never reported as changed. *)
ChangesAreReal == outcome = "ChangedDuringValidation" => touched

(* Once a checkpoint saw the caller's flag, the outcome is Cancelled: not  *)
(* a finding, not a change that happened too (mod.rs: errors distinguish   *)
(* cancelled from invalid input; cancellation is the terminal outcome),    *)
(* unless a decoder changed the kind of the error.                         *)
CancellationIsDistinct ==
  outcome # "none" /\ stopped /\ ~hidden => outcome = "Cancelled"

(* What the caller is told is owed: a verdict to the path, a change to a   *)
(* writer, and nothing but the cancellation to one who cancelled.          *)
OutcomeIsOwed ==
  VerdictIsOfThePath /\ ChangesAreReal /\ CancellationIsDistinct

(* A call that was cancelled does not report corruption (mod.rs: errors    *)
(* distinguish invalid and cancelled input).                               *)
CancelledIsNotCorrupt == stopped => outcome # "IntegrityMismatch"

(* The call comes to its end while the file shrinks and grows under it. *)
CallReturns == <>(pc = "returned")
=============================================================================
