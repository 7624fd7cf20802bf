----------------------------- MODULE BenchProofs -----------------------------
(***************************************************************************)
(* Proofs about the benchmark, for every value of the constants.  First    *)
(* BenchParent, the process that starts the samples: one inductive         *)
(* invariant, preserved action by action.  Then BenchRunner, the sample:   *)
(* a file is in one place, a sample is complete and in order, and a        *)
(* failure never ends in a sample.  The two specifications share nothing:  *)
(* each theorem is about one of them.                                      *)
(***************************************************************************)
EXTENDS BenchParent, BenchRunner, FiniteSetTheorems, TLAPS

(* --------------------------- The parent process --------------------------*)
Directories == [frames : 0..Frames, manifest : FileStates, exists : BOOLEAN]

(* Where the scratch directory is complete, and where a child may live.    *)
Watching == {"cancelled", "deadline", "try_wait", "kill", "wait"}
Sampling == Watching \cup {"samples", "spawn", "read"}
Finishing == {"create", "write", "remove"}

(* The directory grows, is complete while samples run, and is gone before  *)
(* the report is opened.                                                   *)
ScratchFollows ==
  /\ stage = "start" => scratch = Absent /\ output = "absent"
  /\ stage = "frames" => scratch.exists /\ scratch.manifest = "absent"
  /\ stage \in Sampling \cup {"cleanup"} => scratch = Whole
  /\ stage \in Finishing => scratch = Absent /\ output = "absent"

(* A child that was not reaped is watched by the parent.                   *)
ChildFollows ==
  /\ child \in {"running", "ended"} => stage \in Watching
  /\ stage = "read" => child = "reaped" /\ status = "success"
  /\ stage \in Watching => child # "none"

(* Every accepted sample is from a child that succeeded, and there is room *)
(* for the one at work; after the last test of the flag they are all       *)
(* there, and that test found it clear.                                    *)
SamplesFollow ==
  /\ \A k \in 1..Len(samples) : samples[k] = "success"
  /\ stage \in Watching \cup {"spawn", "read"} => Len(samples) < Samples
  /\ stage \in Finishing \cup {"cleanup"} => Len(samples) = Samples /\ ~early
  /\ early => flag

(* A file of this program at --output is unfinished while it is written,   *)
(* or for ever if it could not be removed.                                 *)
ReportFollows ==
  /\ report = "partial" =>
       stage \in {"write", "remove"} \/ (stage = "end" /\ stuck)
  /\ report = "whole" =>
       /\ stage = "end" /\ ending = "report"
       /\ Len(samples) = Samples /\ scratch = Absent /\ ~early
  /\ ending = "report" => report = "whole"
  /\ stage = "end" <=> ending # "none"
  /\ stage \in {"write", "remove"} => report = "partial"

(* The two halves of the type invariant, apart for the provers.            *)
FlagsTyped ==
  /\ flag \in BOOLEAN /\ killed \in BOOLEAN
  /\ early \in BOOLEAN /\ stuck \in BOOLEAN
PartsTyped ==
  /\ stage \in ParentStages
  /\ scratch \in Directories
  /\ child \in {"none", "running", "ended", "reaped"}
  /\ status \in {"none", "success", "failure", "killed"}
  /\ output \in FileStates
  /\ elapsed \in 0..Timeout
  /\ samples \in Seq({"none", "success", "failure", "killed"})
  /\ Len(samples) <= Samples
  /\ report \in FileStates \cup {"other"}
  /\ ending \in {"none", "error", "report"}

(* The inductive invariant.                                                *)
ParentInv ==
  /\ FlagsTyped
  /\ PartsTyped
  /\ ScratchFollows
  /\ ChildFollows
  /\ SamplesFollow
  /\ ReportFollows
  /\ NothingIsLeft

(* The directory before, at the start and at the end of the generation.    *)
LEMMA ScratchTyped ==
  /\ Absent \in Directories
  /\ Empty \in Directories
  /\ Whole \in Directories
BY ParentAssumption DEF Absent, Empty, Whole, Directories, FileStates

(* Removing a part of the directory leaves a directory.                    *)
LEMMA RemovalTyped ==
  ASSUME NEW before \in Directories,
         NEW after \in [frames : 0..before.frames,
                        manifest : {"absent", before.manifest}, exists : {TRUE}]
  PROVE  after \in Directories
<1>1. before.frames \in 0..Frames /\ before.manifest \in FileStates
  BY DEF Directories
<1>2. after.frames \in 0..Frames /\ after.manifest \in FileStates
  BY <1>1, ParentAssumption DEF FileStates
<1>3. after = [frames |-> after.frames, manifest |-> after.manifest,
               exists |-> TRUE]
  OBVIOUS
<1> QED
  BY <1>2, <1>3 DEF Directories

(* The initial state is as the invariant says.                             *)
LEMMA InitParentInv == ParentInit => ParentInv
<1> SUFFICES ASSUME ParentInit PROVE ParentInv
  OBVIOUS
<1>1. FlagsTyped
  BY DEF ParentInit, FlagsTyped
<1>2. PartsTyped
  BY ScratchTyped, ParentAssumption
  DEF ParentInit, PartsTyped, ParentStages, FileStates
<1>3. ScratchFollows /\ ChildFollows /\ SamplesFollow /\ ReportFollows
  BY DEF ParentInit, ScratchFollows, ChildFollows, SamplesFollow,
     ReportFollows, Watching, Sampling, Finishing
<1>4. NothingIsLeft
  BY DEF ParentInit, NothingIsLeft
<1> QED
  BY <1>1, <1>2, <1>3, <1>4 DEF ParentInv

(* Every step keeps the invariant.                                         *)
LEMMA NextParentInv == ParentInv /\ [ParentNext]_parentVars => ParentInv'
<1> SUFFICES ASSUME ParentInv, [ParentNext]_parentVars PROVE ParentInv'
  OBVIOUS
<1> USE ParentAssumption, ScratchTyped
    DEF ParentInv, FlagsTyped, PartsTyped, ScratchFollows, ChildFollows,
        SamplesFollow, ReportFollows, NothingIsLeft, Watching, Sampling,
        Finishing, ParentStages, FileStates, Parent, Fail, End, process, result
<1>1. CASE CreateScratch
  <2>1. FlagsTyped'
    BY <1>1 DEF CreateScratch, Absent, Empty
  <2>2. PartsTyped'
    <3>1. scratch' \in Directories
      BY <1>1 DEF CreateScratch
    <3> QED
      BY <1>1, <3>1 DEF CreateScratch
  <2>3. ScratchFollows'
    BY <1>1 DEF CreateScratch, Absent, Empty
  <2>4. ChildFollows'
    BY <1>1 DEF CreateScratch, Absent, Empty
  <2>5. SamplesFollow'
    BY <1>1 DEF CreateScratch, Absent, Empty
  <2>6. ReportFollows'
    BY <1>1 DEF CreateScratch, Absent, Empty
  <2>7. NothingIsLeft'
    BY <1>1 DEF CreateScratch, Absent, Empty
  <2> QED
    BY <2>1, <2>2, <2>3, <2>4, <2>5, <2>6, <2>7
<1>2. CASE GenerateFrame
  BY <1>2 DEF GenerateFrame, Absent, Whole, Directories
<1>3. CASE WriteManifest
  BY <1>3 DEF WriteManifest, Absent, Whole, Directories
<1>4. CASE NextSample
  BY <1>4 DEF NextSample
<1>5. CASE SpawnChild
  <2>1. FlagsTyped'
    BY <1>5 DEF SpawnChild
  <2>2. PartsTyped'
    BY <1>5 DEF SpawnChild
  <2>3. ScratchFollows'
    BY <1>5 DEF SpawnChild
  <2>4. ChildFollows'
    BY <1>5 DEF SpawnChild
  <2>5. SamplesFollow'
    BY <1>5 DEF SpawnChild
  <2>6. ReportFollows'
    BY <1>5 DEF SpawnChild
  <2>7. NothingIsLeft'
    BY <1>5 DEF SpawnChild
  <2> QED
    BY <2>1, <2>2, <2>3, <2>4, <2>5, <2>6, <2>7
<1>6. CASE TestCancel
  BY <1>6 DEF TestCancel
<1>7. CASE TestDeadline
  BY <1>7 DEF TestDeadline
<1>8. CASE TryWait
  BY <1>8 DEF TryWait
<1>9. CASE ReadSample
  <2>1. FlagsTyped'
    BY <1>9 DEF ReadSample
  <2>2. /\ Len(samples) < Samples
        /\ samples' = samples \/ samples' = Append(samples, "success")
        /\ stage' = "samples" \/ (stage' = "kill" /\ samples' = samples)
    <3>1. stage = "read" /\ status = "success" /\ Len(samples) < Samples
      BY <1>9 DEF ReadSample
    <3>2. \/ stage' = "kill" /\ samples' = samples
          \/ stage' = "samples" /\ samples' = Append(samples, status)
      BY <1>9 DEF ReadSample
    <3>3. Append(samples, status) = Append(samples, "success")
      BY <3>1
    <3> HIDE DEF ParentInv, FlagsTyped, PartsTyped, SamplesFollow
    <3> QED
      BY <3>1, <3>2, <3>3
  <2> DEFINE Exits == {"none", "success", "failure", "killed"}
  <2>3. samples \in Seq(Exits) /\ "success" \in Exits
    OBVIOUS
  <2>4. /\ samples' \in Seq(Exits)
        /\ Len(samples') <= Samples
        /\ \A k \in 1..Len(samples') : samples'[k] = "success"
        /\ samples' = samples \/ stage' = "samples"
    <3> HIDE DEF Exits
    <3>1. CASE samples' = samples
      BY <2>2, <2>3, <3>1
    <3>2. CASE samples' = Append(samples, "success")
      <4>1. Len(samples') = Len(samples) + 1 /\ samples' \in Seq(Exits)
        BY <2>3, <3>2
      <4>2. ASSUME NEW k \in 1..Len(samples') PROVE samples'[k] = "success"
        BY <2>3, <3>2, <4>1, <4>2
      <4> QED
        BY <2>2, <4>1, <4>2
    <3> QED
      BY <2>2, <3>1, <3>2
  <2>5. PartsTyped'
    BY <1>9, <2>4 DEF ReadSample
  <2>6. ScratchFollows'
    BY <1>9 DEF ReadSample
  <2>7. ChildFollows'
    BY <1>9 DEF ReadSample
  <2>8. SamplesFollow'
    BY <1>9, <2>2, <2>4 DEF ReadSample
  <2>9. ReportFollows'
    BY <1>9 DEF ReadSample
  <2>10. NothingIsLeft'
    BY <1>9 DEF ReadSample
  <2> QED
    BY <2>1, <2>5, <2>6, <2>7, <2>8, <2>9, <2>10
<1>10. CASE Kill
  BY <1>10 DEF Kill
<1>11. CASE Wait
  BY <1>11 DEF Wait
<1>12. CASE DropSet
  <2>1. FlagsTyped'
    BY <1>12 DEF DropSet, RemoveAll, RemoveSome
  <2>2. PartsTyped'
    <3>1. scratch' \in Directories
      BY <1>12, RemovalTyped DEF DropSet, RemoveAll, RemoveSome
    <3>2. output' \in FileStates
      BY <1>12 DEF DropSet, RemoveAll, RemoveSome
    <3> QED
      BY <1>12, <3>1, <3>2 DEF DropSet
  <2>3. ScratchFollows'
    BY <1>12 DEF DropSet, RemoveAll, RemoveSome
  <2>4. ChildFollows'
    BY <1>12 DEF DropSet, RemoveAll, RemoveSome
  <2>5. SamplesFollow'
    BY <1>12 DEF DropSet, RemoveAll, RemoveSome
  <2>6. ReportFollows'
    BY <1>12 DEF DropSet, RemoveAll, RemoveSome
  <2>7. NothingIsLeft'
    BY <1>12 DEF DropSet, RemoveAll, RemoveSome
  <2> QED
    BY <2>1, <2>2, <2>3, <2>4, <2>5, <2>6, <2>7
<1>13. CASE LastCheck
  BY <1>13 DEF LastCheck
<1>14. CASE Cleanup
  <2>1. FlagsTyped'
    BY <1>14 DEF Cleanup, RemoveAll, RemoveSome
  <2>2. PartsTyped'
    <3>1. scratch' \in Directories
      BY <1>14, RemovalTyped DEF Cleanup, RemoveAll, RemoveSome
    <3>2. output' \in FileStates
      BY <1>14 DEF Cleanup, RemoveAll, RemoveSome
    <3> QED
      BY <1>14, <3>1, <3>2 DEF Cleanup
  <2>3. ScratchFollows'
    BY <1>14 DEF Cleanup, RemoveAll, RemoveSome
  <2>4. ChildFollows'
    BY <1>14 DEF Cleanup, RemoveAll, RemoveSome
  <2>5. SamplesFollow'
    BY <1>14 DEF Cleanup, RemoveAll, RemoveSome
  <2>6. ReportFollows'
    BY <1>14 DEF Cleanup, RemoveAll, RemoveSome
  <2>7. NothingIsLeft'
    BY <1>14 DEF Cleanup, RemoveAll, RemoveSome
  <2> QED
    BY <2>1, <2>2, <2>3, <2>4, <2>5, <2>6, <2>7
<1>15. CASE CreateReport
  <2>1. FlagsTyped'
    BY <1>15 DEF CreateReport
  <2>2. PartsTyped'
    BY <1>15 DEF CreateReport
  <2>3. ScratchFollows'
    BY <1>15 DEF CreateReport
  <2>4. ChildFollows'
    BY <1>15 DEF CreateReport
  <2>5. SamplesFollow'
    BY <1>15 DEF CreateReport
  <2>6. ReportFollows'
    <3>1. stage = "create" /\ ending = "none" /\ report \in {"absent", "other"}
      BY <1>15 DEF CreateReport
    <3>2. CASE End("error") /\ UNCHANGED report
      BY <1>15, <3>1, <3>2 DEF CreateReport
    <3>3. CASE report' = "partial" /\ stage' = "write" /\ UNCHANGED ending
      <4>1. stage' = "write" /\ report' = "partial" /\ ending' = "none"
        BY <3>1, <3>3
      <4> QED
        BY <4>1 DEF ReportFollows
    <3> QED
      BY <1>15, <3>2, <3>3 DEF CreateReport
  <2>7. NothingIsLeft'
    BY <1>15 DEF CreateReport
  <2> QED
    BY <2>1, <2>2, <2>3, <2>4, <2>5, <2>6, <2>7
<1>16. CASE WriteReport
  BY <1>16 DEF WriteReport
<1>17. CASE RemoveReport
  BY <1>17 DEF RemoveReport
<1>18. CASE Interrupt
  BY <1>18 DEF Interrupt
<1>19. CASE OtherReport
  BY <1>19 DEF OtherReport
<1>20. CASE Tick
  BY <1>20 DEF Tick
<1>21. CASE ChildWrites \/ ChildSucceeds \/ ChildFails \/ ChildDies
  BY <1>21 DEF ChildWrites, ChildSucceeds, ChildFails, ChildDies, ChildStep
<1>22. CASE UNCHANGED parentVars
  BY <1>22 DEF parentVars
<1> QED
  BY <1>1, <1>2, <1>3, <1>4, <1>5, <1>6, <1>7, <1>8, <1>9, <1>10, <1>11,
     <1>12, <1>13, <1>14, <1>15, <1>16, <1>17, <1>18, <1>19, <1>20, <1>21,
     <1>22 DEF ParentNext, Run

(* The invariant holds of every reachable state.                           *)
LEMMA ParentInvariance == ParentSpec => []ParentInv
BY InitParentInv, NextParentInv, PTL DEF ParentSpec
-----------------------------------------------------------------------------
(* Every variable of the parent keeps its type, and no repetition is run   *)
(* beyond the plan (run of main.rs).                                       *)
THEOREM ParentTypeCorrect == ParentSpec => []ParentTypeOK
<1>1. ParentInv => ParentTypeOK
  BY DEF ParentInv, FlagsTyped, PartsTyped, Directories, ParentTypeOK
<1> QED
  BY <1>1, ParentInvariance, PTL

(* On every path of failure a child is stopped and reaped before its files *)
(* are removed and before the parent ends (the ChildGuard of main.rs).     *)
THEOREM ChildrenAreOwned == ParentSpec => []ChildIsOwned
<1>1. ParentInv => ChildIsOwned
  BY DEF ParentInv, ChildFollows, ScratchFollows, Sampling, Watching,
     ChildIsOwned
<1> QED
  BY <1>1, ParentInvariance, PTL

(* A whole report has a successful child for every sample, is written when *)
(* the directory is gone, and never after an early Ctrl-C (run of main.rs).*)
THEOREM ReportsAreEarned == ParentSpec => []ReportIsEarned
<1>1. ASSUME ParentInv PROVE ReportIsEarned
  <2>1. samples \in Seq({"none", "success", "failure", "killed"})
    BY <1>1 DEF ParentInv, PartsTyped
  <2>2. ASSUME Len(samples) = Samples
        PROVE samples = [k \in 1..Samples |-> "success"]
    BY <1>1, <2>1, <2>2, ParentAssumption DEF ParentInv, SamplesFollow
  <2> QED
    BY <1>1, <2>2 DEF ParentInv, ReportFollows, ReportIsEarned
<1> QED
  BY <1>1, ParentInvariance, PTL

(* A program that ends in an error leaves no directory and no unfinished   *)
(* report, unless a removal failed (the drops of main.rs and fixtures.rs). *)
THEOREM ErrorsLeaveNothing == ParentSpec => []NothingIsLeft
<1>1. ParentInv => NothingIsLeft
  BY DEF ParentInv
<1> QED
  BY <1>1, ParentInvariance, PTL

(* A file that somebody else put at --output is neither written nor        *)
(* removed (create_new in write_report).                                   *)
THEOREM ForeignFilesStay == ParentSpec => OthersArePreserved
<1>1. ParentInv /\ [ParentNext]_parentVars
        => [report = "other" => report' = "other"]_parentVars
  <2> SUFFICES ASSUME ParentInv, ParentNext, report = "other"
               PROVE  report' = "other"
    BY DEF parentVars
  <2>1. stage \notin {"write", "remove"}
    BY DEF ParentInv, ReportFollows
  <2> QED
    BY <2>1 DEF ParentNext, Run, CreateScratch, GenerateFrame, WriteManifest,
       NextSample, SpawnChild, TestCancel, TestDeadline, TryWait, ReadSample,
       Kill, Wait, DropSet, LastCheck, Cleanup, CreateReport, WriteReport,
       RemoveReport, Interrupt, OtherReport, Tick, ChildWrites, ChildSucceeds,
       ChildFails, ChildDies, ChildStep, Parent, Fail, End, result
<1> QED
  BY <1>1, ParentInvariance, PTL DEF ParentSpec, OthersArePreserved
-----------------------------------------------------------------------------
(* ------------------------------ One sample ------------------------------*)

(* What the calling thread's progress says of the others. *)
Stages ==
  /\ main = "start" => ~wronged /\ \A w \in Worker : pc[w] = "unspawned"
  /\ main \in {"start", "spawn", "drain"} => receiving
  /\ main \in {"join", "decide", "returned"} => AllEnded
  /\ main \in {"join", "decide"} => channel = <<>>
  /\ outcome # "none" => main = "returned"

(* Files that were claimed are below the index, and in one place each. *)
Apart ==
  /\ \A w \in Worker : index[w] < next
  /\ \A k \in DOMAIN channel : channel[k] < next
  /\ \A k \in DOMAIN files : files[k] < next
  /\ \A v, w \in Worker : index[v] = index[w] /\ index[v] # Failed => v = w
  /\ \A k, l \in DOMAIN channel :
       channel[k] = channel[l] /\ channel[k] # Failed => k = l
  /\ \A k, l \in DOMAIN files : files[k] = files[l] => k = l
  /\ \A w \in Worker, k \in DOMAIN channel :
       index[w] = channel[k] => index[w] = Failed
  /\ \A w \in Worker, k \in DOMAIN files : index[w] # files[k]
  /\ \A k \in DOMAIN channel, l \in DOMAIN files : channel[k] # files[l]

(* A failure is known to the calling thread, or on its way to it. *)
OnItsWay ==
  \/ failure
  \/ main = "unwind"
  \/ outcome \in {"error", "panic"}
  \/ main \in {"spawn", "drain", "join"} /\ \E w \in Worker : pc[w] = "panicked"
  \/ /\ main \in {"spawn", "drain"}
     /\ \/ \E w \in Worker : pc[w] = "send" /\ index[w] = Failed
        \/ \E k \in DOMAIN channel : channel[k] = Failed

RInv ==
  /\ TypeOK
  /\ Stages
  /\ Apart
  /\ wronged => OnItsWay
  /\ SampleIsComplete
  /\ FailureIsReported
-----------------------------------------------------------------------------
(* Sorting the complete results.                                           *)

Complete(s) ==
  /\ s \in [1..Files -> Index]
  /\ \A i, j \in 1..Files : s[i] = s[j] => i = j

(* As many different results as files are all the files. *)
LEMMA CompleteCovers ==
  ASSUME NEW s, Complete(s)
  PROVE  \A v \in Index : \E i \in 1..Files : s[i] = v
<1>1. /\ IsFiniteSet(1..Files) /\ IsFiniteSet(Index)
      /\ Cardinality(1..Files) = Files /\ Cardinality(Index) = Files
  BY RunnerAssumption, FS_Interval DEF Index
<1>2. s \in Injection(1..Files, Index)
  BY DEF Complete, Injection, IsInjective
<1>3. s \in Surjection(1..Files, Index)
  BY <1>1, <1>2, FS_Injection
<1> QED
  BY <1>3 DEF Surjection

(* As many of them as it says are below a number. *)
LEMMA CountBelow ==
  ASSUME NEW s, Complete(s), NEW v \in 0..Files
  PROVE  Cardinality({i \in 1..Files : s[i] < v}) = v
<1> DEFINE B == {i \in 1..Files : s[i] < v}
           g == [i \in B |-> s[i]]
<1>1. IsFiniteSet(B)
  BY RunnerAssumption, FS_Interval, FS_Subset
<1>2. g \in Injection(B, 0..v - 1)
  BY RunnerAssumption DEF Complete, Index, Injection, IsInjective
<1>3. g \in Surjection(B, 0..v - 1)
  <2>1. ASSUME NEW u \in 0..v - 1 PROVE \E i \in B : g[i] = u
    <3>1. u \in Index /\ u < v
      BY RunnerAssumption DEF Index
    <3>2. PICK i \in 1..Files : s[i] = u
      BY <3>1, CompleteCovers
    <3> QED
      BY <3>1, <3>2
  <2> QED
    BY <1>2, <2>1 DEF Injection, Surjection
<1>4. ExistsBijection(B, 0..v - 1)
  BY <1>2, <1>3 DEF ExistsBijection, Bijection
<1>5. Cardinality(B) = Cardinality(0..v - 1)
  BY <1>1, <1>4, FS_Bijection
<1>6. Cardinality(0..v - 1) = v
  BY FS_Interval, RunnerAssumption
<1> QED
  BY <1>5, <1>6

(* Sorted, they are the files in the order of the manifest. *)
LEMMA SortedIsManifest ==
  ASSUME NEW s, Complete(s)
  PROVE  SortedByIndex(s) = [k \in 1..Files |-> k - 1]
<1>1. DOMAIN s = 1..Files
  BY DEF Complete
<1> DEFINE Values == {s[i] : i \in 1..Files}
           Below(v) == Cardinality({i \in 1..Files : s[i] < v})
           UpTo(v) == Cardinality({i \in 1..Files : s[i] <= v})
<1>2. Values = Index
  <2>1. \A i \in 1..Files : s[i] \in Index
    BY DEF Complete
  <2>2. \A v \in Index : \E i \in 1..Files : s[i] = v
    BY CompleteCovers
  <2> QED
    BY <2>1, <2>2
<1>3. ASSUME NEW v \in Index PROVE Below(v) = v /\ UpTo(v) = v + 1
  <2>1. v \in 0..Files /\ v + 1 \in 0..Files
    BY RunnerAssumption DEF Index
  <2>2. {i \in 1..Files : s[i] <= v} = {i \in 1..Files : s[i] < v + 1}
    <3>1. \A i \in 1..Files : s[i] \in Int /\ v \in Int
      BY RunnerAssumption DEF Complete, Index
    <3>2. \A i \in 1..Files : s[i] <= v <=> s[i] < v + 1
      BY <3>1
    <3> QED
      BY <3>2
  <2> QED
    BY <2>1, <2>2, CountBelow
<1>4. ASSUME NEW k \in 1..Files
      PROVE  (CHOOSE v \in Values : Below(v) < k /\ k <= UpTo(v)) = k - 1
  <2>1. k - 1 \in Index
    BY RunnerAssumption DEF Index
  <2> HIDE DEF Below, UpTo, Values
  <2>2. Below(k - 1) < k /\ k <= UpTo(k - 1)
    BY <1>3, <2>1
  <2>3. \A v \in Index : Below(v) < k /\ k <= UpTo(v) => v = k - 1
    BY <1>3, RunnerAssumption DEF Index
  <2> QED
    BY <1>2, <2>1, <2>2, <2>3
<1>5. SortedByIndex(s) =
        [k \in 1..Files |-> CHOOSE v \in Values : Below(v) < k /\ k <= UpTo(v)]
  BY <1>1 DEF SortedByIndex
<1> HIDE DEF Values, Below, UpTo
<1> QED
  BY <1>4, <1>5
-----------------------------------------------------------------------------
(* Nothing is claimed before the start. *)
LEMMA InitRInv == Init => RInv
<1> SUFFICES ASSUME Init PROVE RInv
  OBVIOUS
<1> USE DEF Init
<1>1. Capacity \in Nat
  BY RunnerAssumption, FS_CardinalityType DEF Capacity
<1>2. TypeOK
  <2>1. Len(channel) <= Capacity
    BY <1>1
  <2>2. {stopped, cancel, receiving, failure, wronged} \subseteq BOOLEAN
    OBVIOUS
  <2> QED
    BY <2>1, <2>2 DEF TypeOK, Phases
<1>3. Stages
  BY DEF Stages
<1>4. Apart
  BY DEF Apart, Failed
<1> QED
  BY <1>2, <1>3, <1>4 DEF RInv, SampleIsComplete, FailureIsReported

(* Steps that leave the workers and their results alone. *)
LEMMA MainStep ==
  ASSUME RInv, Start \/ DropSender \/ SpawnFails \/ ToggleCancel \/ Disconnected
                 \/ Join \/ JoinUnwinding
  PROVE  RInv'
<1> USE DEF Start, DropSender, SpawnFails, ToggleCancel, Disconnected, Join,
            JoinUnwinding, Return, workers, decided
<1>1. TypeOK'
  <2>1. {stopped, cancel, receiving, failure, wronged}' \subseteq BOOLEAN
    BY DEF RInv, TypeOK
  <2>2. /\ UNCHANGED <<next, channel, pc, index, files>>
        /\ toggles' \in Nat
    BY DEF RInv, TypeOK
  <2>3. main' \in {"start", "spawn", "drain", "join", "decide", "unwind", "returned"}
        /\ outcome' \in {"none", "sample", "error", "panic"}
    BY DEF RInv, TypeOK
  <2> QED
    BY <2>1, <2>2, <2>3 DEF RInv, TypeOK
<1>2. Stages'
  BY DEF RInv, Stages, AllEnded
<1>3. Apart'
  BY DEF RInv, Apart
<1>4. (wronged => OnItsWay)'
  <2>1. CASE Start
    BY <2>1 DEF RInv, Stages
  <2>2. CASE SpawnFails
    BY <2>2 DEF OnItsWay
  <2>3. CASE DropSender
    BY <2>3 DEF RInv, OnItsWay
  <2>4. CASE ToggleCancel
    BY <2>4 DEF RInv, OnItsWay
  <2>5. CASE Disconnected
    BY <2>5 DEF RInv, OnItsWay, AllEnded
  <2>6. CASE Join
    BY <2>6 DEF RInv, OnItsWay
  <2>7. CASE JoinUnwinding
    BY <2>7 DEF OnItsWay
  <2> QED
    BY <2>1, <2>2, <2>3, <2>4, <2>5, <2>6, <2>7
<1>5. outcome' # "sample"
  BY DEF RInv, Stages
<1> QED
  BY <1>1, <1>2, <1>3, <1>4, <1>5 DEF RInv, SampleIsComplete, FailureIsReported

(* A new worker has claimed nothing. *)
LEMMA SpawnStep ==
  ASSUME RInv, NEW w \in Worker, Spawn(w)
  PROVE  RInv'
<1> USE DEF Spawn, decided
<1>1. TypeOK'
  BY DEF RInv, TypeOK, Phases
<1>2. Stages'
  BY DEF RInv, Stages
<1>3. Apart'
  BY DEF RInv, Apart
<1>4. (wronged => OnItsWay)'
  BY DEF RInv, TypeOK, OnItsWay
<1>5. SampleIsComplete' /\ FailureIsReported'
  BY DEF RInv, SampleIsComplete, FailureIsReported
<1> QED
  BY <1>1, <1>2, <1>3, <1>4, <1>5 DEF RInv

(* A received result leaves the other types alone. *)
LEMMA ReceivedIsTyped ==
  ASSUME RInv,
         UNCHANGED <<index, next, pc, outcome, wronged, main, receiving, stopped,
                     cancel, toggles>>,
         channel' \in Seq(Index \cup {Failed}), Len(channel') <= Capacity,
         failure' \in {failure, TRUE},
         \/ files' = files
         \/ files' \in Seq(Index)
  PROVE  TypeOK'
<1>1. {stopped, cancel, receiving, failure, wronged}' \subseteq BOOLEAN
  BY DEF RInv, TypeOK
<1>2. files' \in Seq(Index)
  BY DEF RInv, TypeOK
<1> QED
  BY <1>1, <1>2 DEF RInv, TypeOK

(* A result moves from the channel to the results. *)
LEMMA ReceiveStep ==
  ASSUME RInv, Receive \/ CallbackPanics
  PROVE  RInv'
<1>1. /\ channel \in Seq(Index \cup {Failed}) /\ files \in Seq(Index)
      /\ channel # <<>>
  BY DEF RInv, TypeOK, Receive, CallbackPanics
<1>2. /\ Head(channel) = channel[1] /\ 1 \in DOMAIN channel
      /\ channel[1] \in Index \cup {Failed} /\ Failed \notin Index
      /\ DOMAIN channel = 1..Len(channel) /\ DOMAIN files = 1..Len(files)
      /\ Len(channel) \in Nat \ {0} /\ Len(files) \in Nat
  BY <1>1, RunnerAssumption DEF Index, Failed
<1>3. CASE CallbackPanics
  <2> USE <1>3 DEF CallbackPanics, workers
  <2>1. TypeOK'
    <3>1. Capacity \in Nat
      BY RunnerAssumption, FS_CardinalityType DEF Capacity
    <3>2. channel' \in Seq(Index \cup {Failed}) /\ Len(channel') <= Capacity
      BY <3>1
    <3>3. {stopped, cancel, receiving, failure, wronged}' \subseteq BOOLEAN
      BY DEF RInv, TypeOK
    <3>4. UNCHANGED <<next, toggles, pc, index, files, outcome>> /\ main' = "unwind"
      OBVIOUS
    <3> QED
      BY <3>2, <3>3, <3>4 DEF RInv, TypeOK
  <2>2. Stages' /\ OnItsWay'
    BY DEF RInv, Stages, OnItsWay
  <2>3. Apart'
    BY DEF RInv, Apart
  <2>4. outcome' # "sample"
    BY DEF RInv, Stages
  <2> QED
    BY <2>1, <2>2, <2>3, <2>4 DEF RInv, SampleIsComplete, FailureIsReported
<1>4. CASE Receive
  <2> USE DEF Receive, workers
  <2>1. /\ channel' \in Seq(Index \cup {Failed})
        /\ Len(channel') = Len(channel) - 1
        /\ DOMAIN channel' = 1..Len(channel) - 1
        /\ \A k \in DOMAIN channel' : channel'[k] = channel[k + 1]
    BY <1>1, <1>4
  <2>2. \A k \in DOMAIN channel' : k \in Nat /\ k + 1 \in DOMAIN channel /\ k + 1 # 1
    BY <1>2, <2>1
  <2>3. UNCHANGED <<index, next, pc, outcome, wronged, main, receiving, stopped, cancel,
                    toggles>>
    BY <1>4
  <2>4. Stages' /\ outcome' # "sample"
    BY <1>4 DEF RInv, Stages, AllEnded
  <2>7. channel' \in Seq(Index \cup {Failed}) /\ Len(channel') <= Capacity
    <3>1. Capacity \in Nat /\ Len(channel) <= Capacity
      BY RunnerAssumption, FS_CardinalityType DEF Capacity, RInv, TypeOK
    <3> QED
      BY <1>2, <2>1, <3>1
  <2>5. CASE channel[1] = Failed
    <3>1. failure' = TRUE /\ files' = files
      BY <1>2, <1>4, <2>5
    <3>2. TypeOK'
      BY <2>3, <2>7, <3>1, ReceivedIsTyped
    <3>3. \A k, l \in DOMAIN channel' :
            channel'[k] = channel'[l] /\ channel'[k] # Failed => k = l
      BY <2>1, <2>2 DEF RInv, Apart
    <3>4. Apart'
      BY <2>1, <2>2, <2>3, <3>1, <3>3 DEF RInv, Apart
    <3> QED
      BY <2>4, <3>1, <3>2, <3>4
         DEF RInv, OnItsWay, SampleIsComplete, FailureIsReported
  <2>6. CASE channel[1] # Failed
    <3>1. /\ failure' = failure /\ files' = Append(files, channel[1])
          /\ channel[1] \in Index
      BY <1>2, <1>4, <2>6
    <3>2. /\ files' \in Seq(Index)
          /\ DOMAIN files' = 1..Len(files) + 1
          /\ files'[Len(files) + 1] = channel[1]
          /\ \A k \in DOMAIN files : files'[k] = files[k]
      BY <1>1, <3>1
    <3>3. \A k \in DOMAIN files' : k \in DOMAIN files \/ k = Len(files) + 1
      BY <1>2, <3>2
    <3>4. TypeOK'
      BY <2>3, <2>7, <3>1, <3>2, ReceivedIsTyped DEF RInv, TypeOK
    <3>5. Apart'
      <4>1. \A k, l \in DOMAIN channel' :
              channel'[k] = channel'[l] /\ channel'[k] # Failed => k = l
        BY <2>1, <2>2 DEF RInv, Apart
      <4>2. \A k \in DOMAIN channel' : channel'[k] # channel[1] /\ channel'[k] < next
        BY <1>2, <2>1, <2>2, <2>6 DEF RInv, Apart
      <4>3. \A w \in Worker, k \in DOMAIN channel' :
              index[w] = channel'[k] => index[w] = Failed
        BY <2>1, <2>2 DEF RInv, Apart
      <4>4. \A w \in Worker : index[w] # channel[1]
        BY <1>2, <2>6 DEF RInv, Apart
      <4>5. channel[1] < next /\ \A k \in DOMAIN files : files[k] # channel[1]
        BY <1>2 DEF RInv, Apart
      <4>6. \A k \in DOMAIN channel', l \in DOMAIN files : channel'[k] # files[l]
        BY <2>1, <2>2 DEF RInv, Apart
      <4>7. /\ \A k \in DOMAIN files' : files'[k] < next
            /\ \A w \in Worker, k \in DOMAIN files' : index[w] # files'[k]
            /\ \A k \in DOMAIN channel', l \in DOMAIN files' : channel'[k] # files'[l]
        BY <3>2, <3>3, <4>2, <4>4, <4>5, <4>6 DEF RInv, Apart
      <4>8. \A k, l \in DOMAIN files' : files'[k] = files'[l] => k = l
        BY <3>2, <3>3, <4>5 DEF RInv, Apart
      <4> QED
        BY <2>3, <4>1, <4>2, <4>3, <4>7, <4>8 DEF RInv, Apart
    <3>6. (wronged => OnItsWay)'
      <4>1. ASSUME NEW k \in DOMAIN channel, channel[k] = Failed
            PROVE  \E l \in DOMAIN channel' : channel'[l] = Failed
        <5>1. k - 1 \in DOMAIN channel' /\ k - 1 + 1 = k
          BY <1>2, <2>1, <2>6, <4>1
        <5> QED
          BY <2>1, <4>1, <5>1
      <4> QED
        BY <2>3, <3>1, <4>1 DEF RInv, OnItsWay
    <3> QED
      BY <2>4, <3>4, <3>5, <3>6 DEF RInv, SampleIsComplete, FailureIsReported
  <2> QED
    BY <2>5, <2>6
<1> QED
  BY <1>3, <1>4

(* The decision: a sample has all files, so that none is elsewhere. *)
LEMMA DecideStep ==
  ASSUME RInv, Decide
  PROVE  RInv'
<1> USE DEF Decide, Return, workers
<1>1. CASE outcome' = "error" /\ UNCHANGED files
  BY <1>1 DEF RInv, TypeOK, Stages, AllEnded, Apart, OnItsWay, SampleIsComplete,
              FailureIsReported
<1>2. CASE /\ ~failure /\ Len(files) = Files /\ outcome' = "sample"
           /\ files' = SortedByIndex(files)
  <2>1. Complete(files)
    BY <1>2 DEF RInv, TypeOK, Apart, Complete
  <2>2. files' = [k \in 1..Files |-> k - 1]
    BY <1>2, <2>1, SortedIsManifest
  <2>3. channel = <<>> /\ ~wronged
    BY <1>2 DEF RInv, Stages, OnItsWay
  <2>4. TypeOK'
    BY <1>2, <2>2, RunnerAssumption DEF RInv, TypeOK, Index
  <2>5. Apart'
    <3>1. \A v \in Index : \E k \in DOMAIN files : files[k] = v
      BY <2>1, CompleteCovers DEF Complete
    <3>2. \A k \in DOMAIN files' : files'[k] \in Index
      BY <2>2, RunnerAssumption DEF Index
    <3>3. \A k, l \in DOMAIN files' : files'[k] = files'[l] => k = l
      BY <2>2, RunnerAssumption
    <3> QED
      BY <2>3, <3>1, <3>2, <3>3 DEF RInv, Apart
  <2>6. Stages' /\ SampleIsComplete' /\ FailureIsReported' /\ ~wronged'
    BY <1>2, <2>2, <2>3 DEF RInv, Stages, AllEnded, SampleIsComplete, FailureIsReported
  <2> QED
    BY <2>4, <2>5, <2>6 DEF RInv
<1> QED
  BY <1>1, <1>2
-----------------------------------------------------------------------------
(* A worker's step. *)

(* The calling thread waits while a worker is under way. *)
LEMMA WorkerIsUnderWay ==
  ASSUME RInv, NEW w \in Worker, pc[w] \notin {"unspawned", "done", "panicked"}
  PROVE  main \in {"spawn", "drain", "unwind"} /\ outcome = "none"
  BY DEF RInv, TypeOK, Stages, AllEnded

(* Steps that change no place of a file. *)
LEMMA TestStep ==
  ASSUME RInv, NEW w \in Worker, TestStopped(w) \/ PollCancel(w)
  PROVE  RInv'
<1> USE DEF TestStopped, PollCancel, Goto, decided
<1>1. main \in {"spawn", "drain", "unwind"} /\ outcome = "none"
  BY WorkerIsUnderWay
<1>2. TypeOK'
  BY DEF RInv, TypeOK, Phases
<1>3. Stages' /\ Apart' /\ SampleIsComplete' /\ FailureIsReported'
  BY <1>1 DEF RInv, Stages, Apart, SampleIsComplete, FailureIsReported
<1>4. (wronged => OnItsWay)'
  BY DEF RInv, TypeOK, OnItsWay
<1> QED
  BY <1>2, <1>3, <1>4 DEF RInv

(* The claimed file was in nobody's hands. *)
LEMMA ClaimStep ==
  ASSUME RInv, NEW w \in Worker, Claim(w)
  PROVE  RInv'
<1> USE DEF Claim, Goto, decided
<1>1. main \in {"spawn", "drain", "unwind"} /\ outcome = "none"
  BY WorkerIsUnderWay
<1>2. TypeOK'
  BY DEF RInv, TypeOK, Phases
<1>3. Stages' /\ SampleIsComplete' /\ FailureIsReported'
  BY <1>1 DEF RInv, Stages, SampleIsComplete, FailureIsReported
<1>4. Apart'
  <2>1. next \in Int /\ UNCHANGED <<channel, files>> /\ next' = next + 1
    BY DEF RInv, TypeOK
  <2>2. \A v \in Worker : \/ index'[v] = index[v]
                          \/ v = w /\ index'[v] = Failed
                          \/ v = w /\ index'[v] = next
    BY DEF RInv, TypeOK
  <2>3. \A v \in Worker : index[v] \in Int /\ index[v] < next
    BY RunnerAssumption DEF RInv, TypeOK, Apart, Index, Failed
  <2>4. /\ \A k \in DOMAIN channel : channel[k] \in Int /\ channel[k] < next
        /\ \A k \in DOMAIN files : files[k] \in Int /\ files[k] < next
    BY RunnerAssumption DEF RInv, TypeOK, Apart, Index, Failed
  <2>5. /\ \A v \in Worker : index'[v] < next'
        /\ \A k \in DOMAIN channel' : channel'[k] < next'
        /\ \A k \in DOMAIN files' : files'[k] < next'
    BY <2>1, <2>2, <2>3, <2>4 DEF Failed, RInv, TypeOK
  <2>6. \A u, v \in Worker : index'[u] = index'[v] /\ index'[u] # Failed => u = v
    BY <2>1, <2>2, <2>3 DEF RInv, Apart
  <2>7. \A v \in Worker, k \in DOMAIN channel' :
          index'[v] = channel'[k] => index'[v] = Failed
    BY <2>1, <2>2, <2>4 DEF RInv, Apart
  <2>8. \A v \in Worker, k \in DOMAIN files' : index'[v] # files'[k]
    <3>1. \A k \in DOMAIN files : files[k] # Failed
      BY RunnerAssumption DEF RInv, TypeOK, Index, Failed
    <3> QED
      BY <2>1, <2>2, <2>4, <3>1 DEF RInv, Apart
  <2> QED
    BY <2>1, <2>5, <2>6, <2>7, <2>8 DEF RInv, Apart
<1>5. (wronged => OnItsWay)'
  BY DEF RInv, TypeOK, OnItsWay
<1> QED
  BY <1>2, <1>3, <1>4, <1>5 DEF RInv

(* A worker may give up its file. *)
LEMMA DroppingKeepsApart ==
  ASSUME RInv, UNCHANGED <<next, channel, files>>,
         \A v \in Worker : index'[v] \in {index[v], Failed}
  PROVE  Apart'
<1>1. /\ \A k \in DOMAIN files : files[k] # Failed
      /\ Failed < next
  BY RunnerAssumption DEF RInv, TypeOK, Index, Failed
<1> QED
  BY <1>1 DEF RInv, Apart

(* A failed measurement leaves the file and takes the failure along. *)
LEMMA MeasureStep ==
  ASSUME RInv, NEW w \in Worker, Measure(w)
  PROVE  RInv'
<1> USE DEF Measure, Goto, decided
<1>1. main \in {"spawn", "drain", "unwind"} /\ outcome = "none"
  BY WorkerIsUnderWay
<1>2. TypeOK'
  BY DEF RInv, TypeOK, Phases
<1>3. Stages' /\ SampleIsComplete' /\ FailureIsReported'
  BY <1>1 DEF RInv, Stages, SampleIsComplete, FailureIsReported
<1>4. Apart'
  <2>1. \A v \in Worker : index'[v] \in {index[v], Failed}
    BY DEF RInv, TypeOK
  <2> QED
    BY <2>1, DroppingKeepsApart
<1>5. (wronged => OnItsWay)'
  BY <1>1 DEF RInv, TypeOK, OnItsWay
<1> QED
  BY <1>2, <1>3, <1>4, <1>5 DEF RInv

(* A result moves from the worker to the channel. *)
LEMMA SendStep ==
  ASSUME RInv, NEW w \in Worker, Send(w)
  PROVE  RInv'
<1> USE DEF Send, Goto, decided
<1>1. main \in {"spawn", "drain", "unwind"} /\ outcome = "none"
  BY WorkerIsUnderWay
<1>2. index[w] \in Index \cup {Failed} /\ channel \in Seq(Index \cup {Failed})
  BY DEF RInv, TypeOK
<1>3. Stages' /\ SampleIsComplete' /\ FailureIsReported'
  BY <1>1 DEF RInv, Stages, SampleIsComplete, FailureIsReported
<1>4. CASE receiving /\ Len(channel) < Capacity /\ channel' = Append(channel, index[w])
  <2>1. /\ channel' \in Seq(Index \cup {Failed}) /\ Len(channel') = Len(channel) + 1
        /\ Len(channel) + 1 \in DOMAIN channel' /\ channel'[Len(channel) + 1] = index[w]
        /\ \A k \in DOMAIN channel : k \in DOMAIN channel' /\ channel'[k] = channel[k]
        /\ \A k \in DOMAIN channel' : k \in DOMAIN channel \/ k = Len(channel) + 1
        /\ Len(channel) \in Nat /\ Len(channel) + 1 \notin DOMAIN channel
    BY <1>2, <1>4
  <2>2. Capacity \in Nat
    BY RunnerAssumption, FS_CardinalityType DEF Capacity
  <2>3. TypeOK'
    <3>1. Len(channel') <= Capacity
      BY <1>4, <2>1, <2>2
    <3>2. pc' \in [Worker -> Phases] /\ index' \in [Worker -> Index \cup {Failed}]
      BY DEF RInv, TypeOK, Phases
    <3> QED
      BY <2>1, <3>1, <3>2 DEF RInv, TypeOK
  <2>4. Apart'
    <3>1. \A v \in Worker : index'[v] = IF v = w THEN Failed ELSE index[v]
      BY DEF RInv, TypeOK
    <3>2. /\ \A k \in DOMAIN files : files[k] # Failed
          /\ Failed < next
      BY RunnerAssumption DEF RInv, TypeOK, Index, Failed
    <3>3. /\ \A v \in Worker : index'[v] < next
          /\ \A k \in DOMAIN channel' : channel'[k] < next
      BY <2>1, <3>1, <3>2 DEF RInv, Apart
    <3>4. \A u, v \in Worker : index'[u] = index'[v] /\ index'[u] # Failed => u = v
      BY <3>1 DEF RInv, Apart
    <3>5. \A k, l \in DOMAIN channel' :
            channel'[k] = channel'[l] /\ channel'[k] # Failed => k = l
      BY <2>1 DEF RInv, Apart
    <3>6. \A v \in Worker, k \in DOMAIN channel' :
            index'[v] = channel'[k] => index'[v] = Failed
      BY <2>1, <3>1 DEF RInv, Apart
    <3>7. /\ \A v \in Worker, k \in DOMAIN files : index'[v] # files[k]
          /\ \A k \in DOMAIN channel', l \in DOMAIN files : channel'[k] # files[l]
      BY <2>1, <3>1, <3>2 DEF RInv, Apart
    <3> QED
      BY <3>3, <3>4, <3>5, <3>6, <3>7 DEF RInv, Apart
  <2>5. (wronged => OnItsWay)'
    BY <2>1 DEF RInv, TypeOK, OnItsWay
  <2> QED
    BY <1>3, <2>3, <2>4, <2>5 DEF RInv
<1>5. CASE ~receiving /\ UNCHANGED channel
  <2>1. main = "unwind"
    BY <1>1, <1>5 DEF RInv, Stages
  <2>2. TypeOK'
    BY <1>5 DEF RInv, TypeOK, Phases
  <2>3. Apart'
    <3>1. \A v \in Worker : index'[v] \in {index[v], Failed}
      BY DEF RInv, TypeOK
    <3> QED
      BY <1>5, <3>1, DroppingKeepsApart
  <2> QED
    BY <1>3, <2>1, <2>2, <2>3 DEF RInv, OnItsWay
<1> QED
  BY <1>4, <1>5
-----------------------------------------------------------------------------
(* Every step keeps the invariant. *)
LEMMA NextRInv == RInv /\ [Next]_vars => RInv'
<1> SUFFICES ASSUME RInv, [Next]_vars PROVE RInv'
  OBVIOUS
<1>1. CASE UNCHANGED vars
  BY <1>1 DEF vars, workers, decided, RInv, TypeOK, Stages, AllEnded, Apart, OnItsWay,
              SampleIsComplete, FailureIsReported
<1>2. CASE Next
  BY <1>2, MainStep, SpawnStep, ReceiveStep, DecideStep, TestStep, ClaimStep,
     MeasureStep, SendStep DEF Next, Main, Work
<1> QED
  BY <1>1, <1>2

(* The strengthening holds in every reachable state. *)
THEOREM RunnerStrengthening == Spec => []RInv
  BY InitRInv, NextRInv, PTL DEF Spec

(* A sample has one measurement of each file in manifest order, for any    *)
(* number of workers and files.                                            *)
THEOREM SamplesAreComplete == Spec => []SampleIsComplete
<1>1. RInv => SampleIsComplete
  BY DEF RInv
<1> QED
  BY <1>1, RunnerStrengthening, PTL

(* Nothing that failed ends in a sample. *)
THEOREM FailuresAreReported == Spec => []FailureIsReported
<1>1. RInv => FailureIsReported
  BY DEF RInv
<1> QED
  BY <1>1, RunnerStrengthening, PTL

(* A set without two different elements has at most one. *)
LEMMA AtMostOne ==
  ASSUME NEW S, \A x, y \in S : x = y
  PROVE  Cardinality(S) = IF S = {} THEN 0 ELSE 1
<1>1. CASE S = {}
  BY <1>1, FS_EmptySet
<1>2. CASE S # {}
  <2>1. PICK x : S = {x}
    BY <1>2
  <2> QED
    BY <2>1, FS_Singleton
<1> QED
  BY <1>1, <1>2

(* No file is claimed, sent or received twice. *)
THEOREM FilesAreMeasuredOnce == Spec => []NoFileTwice
<1>1. RInv => NoFileTwice
  <2> SUFFICES ASSUME RInv, NEW f \in Index
               PROVE  Places(f) <= IF f < next THEN 1 ELSE 0
    BY DEF NoFileTwice
  <2> DEFINE A == {w \in Worker : index[w] = f}
             B == {k \in DOMAIN channel : channel[k] = f}
             C == {k \in DOMAIN files : files[k] = f}
  <2>1. f # Failed /\ f \in Int /\ next \in Int
    BY RunnerAssumption DEF Index, Failed, RInv, TypeOK
  <2>2. Cardinality(A) = IF A = {} THEN 0 ELSE 1
    <3>1. \A x, y \in A : x = y
      BY <2>1 DEF RInv, Apart
    <3> QED
      BY <3>1, AtMostOne
  <2>3. Cardinality(B) = IF B = {} THEN 0 ELSE 1
    <3>1. \A x, y \in B : x = y
      BY <2>1 DEF RInv, Apart
    <3> QED
      BY <3>1, AtMostOne
  <2>4. Cardinality(C) = IF C = {} THEN 0 ELSE 1
    <3>1. \A x, y \in C : x = y
      BY DEF RInv, Apart
    <3> QED
      BY <3>1, AtMostOne
  <2>5. A = {} \/ B = {}
    BY <2>1 DEF RInv, Apart
  <2>6. A = {} \/ C = {}
    BY DEF RInv, Apart
  <2>7. B = {} \/ C = {}
    BY DEF RInv, Apart
  <2>8. f >= next => A = {} /\ B = {} /\ C = {}
    BY <2>1 DEF RInv, Apart
  <2> QED
    BY <2>1, <2>2, <2>3, <2>4, <2>5, <2>6, <2>7, <2>8 DEF Places
<1> QED
  BY <1>1, RunnerStrengthening, PTL
=============================================================================
