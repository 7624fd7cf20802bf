----------------------------- MODULE BenchParent -----------------------------
(***************************************************************************)
(* The command-line benchmark: run, isolated and write_report of           *)
(* astro-bench's main.rs over the FixtureSet of fixtures.rs.  The parent   *)
(* generates a scratch directory, runs each sample in a child process that *)
(* reads it, polls for cancellation, the deadline and the child's exit,    *)
(* removes the directory and writes the report.  Every call of the         *)
(* operating system may fail; Ctrl-C may come at any time; the child may   *)
(* fail, hang, or exit with its output incomplete.                         *)
(*                                                                         *)
(* A failure drops what is live, innermost first: the ChildGuard of        *)
(* isolated, which kills and waits, then the FixtureSet of run, which      *)
(* removes the directory.  What a sample measures is BenchRunner's.        *)
(***************************************************************************)
EXTENDS Naturals, Sequences

CONSTANTS
  Frames,   \* recipe.frames
  Samples,  \* worker counts times repeats
  Timeout   \* options.timeout, in ticks of the clock

ASSUME ParentAssumption ==
  /\ Frames \in Nat \ {0}
  /\ Samples \in Nat \ {0}
  /\ Timeout \in Nat \ {0}

VARIABLES
  stage,    \* what the parent does next
  flag,     \* the AtomicBool that Ctrl-C sets
  scratch,  \* the directory: absent, or its frames and manifest
  child,    \* the child process, to the operating system
  status,   \* exit status of the child, once it has ended
  killed,   \* a kill signal was sent to it
  output,   \* sample-N.json: absent, cut off, or whole
  elapsed,  \* ticks since the child was started
  samples,  \* exit status of the child of each sample accepted
  report,   \* the file at --output
  ending,   \* how the program ended
  early,    \* history: Ctrl-C came before the last test of the flag
  stuck     \* history: a removal failed

parentVars == <<stage, flag, scratch, child, status, killed, output, elapsed,
                samples, report, ending, early, stuck>>
process == <<child, status, killed, output>>
result == <<report, ending>>

ParentStages == {"start", "frames", "samples", "spawn", "cancelled",
                 "deadline", "try_wait", "read", "kill", "wait", "drop",
                 "cleanup", "create", "write", "remove", "end"}
FileStates == {"absent", "partial", "whole"}
Absent == [frames |-> 0, manifest |-> "absent", exists |-> FALSE]
Empty == [frames |-> 0, manifest |-> "absent", exists |-> TRUE]
Whole == [frames |-> Frames, manifest |-> "whole", exists |-> TRUE]

ParentInit ==
  /\ stage = "start"
  /\ flag = FALSE
  /\ scratch = Absent
  /\ child = "none" /\ status = "none" /\ killed = FALSE
  /\ output = "absent" /\ elapsed = 0
  /\ samples = <<>>
  /\ report = "absent" /\ ending = "none"
  /\ early = FALSE /\ stuck = FALSE

Parent(from) ==
  /\ stage = from
  /\ UNCHANGED <<flag, early>>

(* Where the error of a step leads, and how the program ends. *)
Fail(to) == stage' = to
End(kind) == stage' = "end" /\ ending' = kind
-----------------------------------------------------------------------------
(* create_dir, which makes this instance the owner of the directory. *)
CreateScratch ==
  /\ Parent("start")
  /\ \/ End("error") /\ UNCHANGED scratch
     \/ /\ ~flag
        /\ scratch' = Empty
        /\ stage' = "frames" /\ UNCHANGED ending
  /\ UNCHANGED <<process, elapsed, samples, report, stuck>>

(* One frame is written under the quota, validated and hashed. *)
GenerateFrame ==
  /\ Parent("frames")
  /\ scratch.frames < Frames
  /\ \/ Fail("drop") /\ UNCHANGED scratch
     \/ /\ ~flag
        /\ scratch' = [scratch EXCEPT !.frames = @ + 1]
        /\ UNCHANGED stage
  /\ UNCHANGED <<process, elapsed, samples, result, stuck>>

WriteManifest ==
  /\ Parent("frames")
  /\ scratch.frames = Frames
  /\ \/ /\ \E m \in FileStates : scratch' = [scratch EXCEPT !.manifest = m]
        /\ Fail("drop")
     \/ /\ scratch' = [scratch EXCEPT !.manifest = "whole"]
        /\ stage' = "samples"
  /\ UNCHANGED <<process, elapsed, samples, result, stuck>>

(* The test of the flag between samples, and the new output file.  *)
NextSample ==
  /\ Parent("samples")
  /\ Len(samples) < Samples
  /\ \/ Fail("drop") /\ UNCHANGED output
     \/ ~flag /\ output' = "partial" /\ stage' = "spawn"
  /\ UNCHANGED <<scratch, child, status, killed, elapsed, samples, result,
                 stuck>>

SpawnChild ==
  /\ Parent("spawn")
  /\ \/ /\ Fail("drop")
        /\ UNCHANGED <<child, status, killed, elapsed>>
     \/ /\ child' = "running" /\ status' = "none" /\ killed' = FALSE
        /\ elapsed' = 0
        /\ stage' = "cancelled"
  /\ UNCHANGED <<scratch, output, samples, result, stuck>>

TestCancel ==
  /\ Parent("cancelled")
  /\ IF flag THEN Fail("kill") ELSE stage' = "deadline"
  /\ UNCHANGED <<scratch, process, elapsed, samples, result, stuck>>

(* Mutant: the deadline is looked at when the child has ended. *)
TestDeadlineOfEnded ==
  /\ Parent("deadline")
  /\ IF elapsed >= Timeout /\ child # "running"
     THEN Fail("kill") ELSE stage' = "try_wait"
  /\ UNCHANGED <<scratch, process, elapsed, samples, result, stuck>>

TestDeadline ==
  /\ Parent("deadline")
  /\ IF elapsed >= Timeout THEN Fail("kill") ELSE stage' = "try_wait"
  /\ UNCHANGED <<scratch, process, elapsed, samples, result, stuck>>

(* Mutant: any exit ends the polling. *)
TryWaitIgnoresStatus ==
  /\ Parent("try_wait")
  /\ \/ Fail("kill") /\ UNCHANGED child
     \/ child = "running" /\ stage' = "cancelled" /\ UNCHANGED child
     \/ child = "ended" /\ child' = "reaped" /\ stage' = "read"
  /\ UNCHANGED <<scratch, status, killed, output, elapsed, samples, result,
                 stuck>>

(* try_wait reaps a child that has ended; its failure is an error. *)
TryWait ==
  /\ Parent("try_wait")
  /\ \/ Fail("kill") /\ UNCHANGED child
     \/ child = "running" /\ stage' = "cancelled" /\ UNCHANGED child
     \/ /\ child = "ended"
        /\ child' = "reaped"
        /\ IF status = "success" THEN stage' = "read" ELSE Fail("kill")
  /\ UNCHANGED <<scratch, status, killed, output, elapsed, samples, result,
                 stuck>>

(* The output is read, parsed and removed.  An output that was cut off     *)
(* does not parse.                                                         *)
ReadSample ==
  /\ Parent("read")
  /\ \/ Fail("kill") /\ UNCHANGED <<output, samples>>
     \/ /\ output = "whole"
        /\ output' = "absent"
        /\ samples' = Append(samples, status)
        /\ stage' = "samples"
  /\ UNCHANGED <<scratch, child, status, killed, elapsed, result, stuck>>

(* Mutant: the guard kills and does not wait. *)
KillOnly ==
  /\ Parent("kill")
  /\ killed' = (killed \/ child = "running")
  /\ stage' = "drop"
  /\ UNCHANGED <<scratch, child, status, output, elapsed, samples, result,
                 stuck>>

(* Drop of the ChildGuard: a child that was reaped gets no signal. *)
Kill ==
  /\ Parent("kill")
  /\ killed' = (killed \/ child = "running")
  /\ stage' = "wait"
  /\ UNCHANGED <<scratch, child, status, output, elapsed, samples, result,
                 stuck>>

Wait ==
  /\ Parent("wait")
  /\ child \in {"ended", "reaped"}
  /\ child' = "reaped"
  /\ stage' = "drop"
  /\ UNCHANGED <<scratch, status, killed, output, elapsed, samples, result,
                 stuck>>

(* remove_dir_all may fail with part of the directory removed.  *)
RemoveSome ==
  /\ scratch' \in [frames : 0..scratch.frames,
                   manifest : {"absent", scratch.manifest}, exists : {TRUE}]
  /\ output' \in {"absent", output}
RemoveAll ==
  /\ scratch' = Absent
  /\ output' = "absent"

(* Drop of the FixtureSet: its failure is not reported. *)
DropSet ==
  /\ Parent("drop")
  /\ \/ RemoveAll /\ UNCHANGED stuck
     \/ RemoveSome /\ stuck' = TRUE
  /\ End("error")
  /\ UNCHANGED <<child, status, killed, elapsed, samples, report>>

(* Mutant: the flag was tested before each sample, and is not any more. *)
LastCheckSkipped ==
  /\ Parent("samples")
  /\ Len(samples) = Samples
  /\ stage' = "cleanup"
  /\ UNCHANGED <<scratch, process, elapsed, samples, result, stuck>>

(* All samples are there: summaries, the time for the report, which a      *)
(* clock set before 1970 refuses, and the last test of the flag.           *)
LastCheck ==
  /\ Parent("samples")
  /\ Len(samples) = Samples
  /\ \/ Fail("drop")
     \/ ~flag /\ stage' = "cleanup"
  /\ UNCHANGED <<scratch, process, elapsed, samples, result, stuck>>

(* cleanup, after whose failure the set is dropped, still the owner. *)
Cleanup ==
  /\ Parent("cleanup")
  /\ \/ RemoveAll /\ stage' = "create"
     \/ RemoveSome /\ Fail("drop")
  /\ UNCHANGED <<child, status, killed, elapsed, samples, result, stuck>>

(* write_report opens with create_new: an existing file is an error. *)
CreateReport ==
  /\ Parent("create")
  /\ \/ End("error") /\ UNCHANGED report
     \/ /\ report = "absent"
        /\ report' = "partial"
        /\ stage' = "write" /\ UNCHANGED ending
  /\ UNCHANGED <<scratch, process, elapsed, samples, stuck>>

(* Mutant: the error of write_all is returned where it occurs. *)
WriteReportReturns ==
  /\ Parent("write")
  /\ report' \in {"partial", "whole"}
  /\ End(IF report' = "whole" THEN "report" ELSE "error")
  /\ UNCHANGED <<scratch, process, elapsed, samples, stuck>>

WriteReport ==
  /\ Parent("write")
  /\ \/ report' = "whole" /\ End("report")
     \/ Fail("remove") /\ UNCHANGED result
  /\ UNCHANGED <<scratch, process, elapsed, samples, stuck>>

RemoveReport ==
  /\ Parent("remove")
  /\ \/ report' = "absent" /\ UNCHANGED stuck
     \/ stuck' = TRUE /\ UNCHANGED report
  /\ End("error")
  /\ UNCHANGED <<scratch, process, elapsed, samples>>
-----------------------------------------------------------------------------
(* Ctrl-C; a child of the same terminal gets it too, and then fails. *)
Interrupt ==
  /\ ~flag /\ stage # "end"
  /\ flag' = TRUE
  /\ early' = (stage \notin {"cleanup", "create", "write", "remove"})
  /\ UNCHANGED <<stage, scratch, process, elapsed, samples, result, stuck>>

(* Another program makes a file at --output. *)
OtherReport ==
  /\ report = "absent" /\ stage # "end"
  /\ report' = "other"
  /\ UNCHANGED <<stage, flag, scratch, process, elapsed, samples, ending,
                 early, stuck>>

Tick ==
  /\ child = "running"
  /\ elapsed < Timeout
  /\ elapsed' = elapsed + 1
  /\ UNCHANGED <<stage, flag, scratch, process, samples, result, early, stuck>>

ChildStep ==
  /\ child = "running"
  /\ UNCHANGED <<stage, flag, scratch, killed, elapsed, samples, result, early,
                 stuck>>

(* main of the child writes the sample at its end. *)
ChildWrites ==
  /\ ChildStep
  /\ scratch = Whole
  /\ output = "partial"
  /\ output' = "whole"
  /\ UNCHANGED <<child, status>>

(* It succeeds, though the last bytes of its output may be lost: the       *)
(* buffer of stdout is flushed at exit, where an error goes nowhere.       *)
ChildSucceeds ==
  /\ ChildStep
  /\ scratch = Whole
  /\ child' = "ended" /\ status' = "success"
  /\ UNCHANGED output

ChildFails ==
  /\ ChildStep
  /\ child' = "ended" /\ status' = "failure"
  /\ UNCHANGED output

ChildDies ==
  /\ ChildStep
  /\ killed
  /\ child' = "ended" /\ status' = "killed"
  /\ UNCHANGED output

Run ==
  \/ CreateScratch \/ GenerateFrame \/ WriteManifest
  \/ NextSample \/ SpawnChild \/ TestCancel \/ TestDeadline \/ TryWait
  \/ ReadSample \/ Kill \/ Wait \/ DropSet
  \/ LastCheck \/ Cleanup \/ CreateReport \/ WriteReport \/ RemoveReport

ParentNext ==
  \/ Run
  \/ Interrupt \/ OtherReport \/ Tick
  \/ ChildWrites \/ ChildSucceeds \/ ChildFails \/ ChildDies

ParentSpec == ParentInit /\ [][ParentNext]_parentVars

(* The parent is scheduled, time passes, and a killed child dies.  Nothing *)
(* is assumed of a child that was not killed: it may hang.                 *)
FairParentSpec ==
  /\ ParentSpec
  /\ WF_parentVars(Run) /\ WF_parentVars(Tick) /\ WF_parentVars(ChildDies)
-----------------------------------------------------------------------------
(* Every variable keeps its type; no repetition is run beyond the plan.    *)
ParentTypeOK ==
  /\ stage \in ParentStages
  /\ flag \in BOOLEAN /\ killed \in BOOLEAN
  /\ early \in BOOLEAN /\ stuck \in BOOLEAN
  /\ scratch \in [frames : 0..Frames, manifest : FileStates, exists : BOOLEAN]
  /\ child \in {"none", "running", "ended", "reaped"}
  /\ status \in {"none", "success", "failure", "killed"}
  /\ output \in FileStates
  /\ elapsed \in 0..Timeout
  /\ samples \in Seq({"none", "success", "failure", "killed"})
  /\ Len(samples) <= Samples
  /\ report \in FileStates \cup {"other"}
  /\ ending \in {"none", "error", "report"}

(* A child never runs without its files, nor without its parent: on every  *)
(* path of failure it is stopped and reaped before the directory goes      *)
(* (ChildGuard: own every child until it has exited; the README: stops and *)
(* reaps any current child before removing its owned fixtures).            *)
ChildIsOwned ==
  child \in {"running", "ended"} =>
    /\ scratch = Whole
    /\ stage \in {"cancelled", "deadline", "try_wait", "kill", "wait"}

(* A report says what it must: every sample of it is from a child that     *)
(* succeeded, the scratch directory is gone, nobody interrupted the run    *)
(* before the last test of the flag, and it is there when the program ends *)
(* well.                                                                   *)
ReportIsEarned ==
  /\ report = "whole" =>
       /\ samples = [k \in 1..Samples |-> "success"]
       /\ scratch = Absent
       /\ ~early
  /\ ending = "report" => report = "whole"

(* An error leaves neither the scratch directory nor an unfinished report, *)
(* unless a removal failed.                                                *)
NothingIsLeft ==
  ending = "error" /\ ~stuck =>
    scratch = Absent /\ output = "absent" /\ report \in {"absent", "other"}

(* A file that another program made at --output stays, also when it is     *)
(* made after the options were checked (existing files are preserved).     *)
OthersArePreserved == [][report = "other" => report' = "other"]_parentVars

(* The program ends, although a child may hang: the deadline is looked at  *)
(* as long as the child has not ended.                                     *)
RunEnds == <>(stage = "end")
=============================================================================
