----------------------------- MODULE BenchRunner -----------------------------
(***************************************************************************)
(* One benchmark sample: run_sample and measure_file of astro-bench's      *)
(* runner.rs.  The calling thread spawns workers, drops its own sender,    *)
(* drains a bounded channel, joins the workers and decides.  A worker      *)
(* tests two flags, claims the next index, measures that file, and sends   *)
(* the result.  Each access to a flag, to the index or to the channel is a *)
(* step of its own.                                                        *)
(*                                                                         *)
(* What a measurement yields is left open: a result, an error of its file, *)
(* or a panic.  Spawning a thread may fail and the caller's progress       *)
(* callback may panic.  The caller's cancellation flag may be set and      *)
(* cleared at any time.                                                    *)
(***************************************************************************)
EXTENDS Integers, Sequences, FiniteSets

CONSTANTS
  Worker,     \* names for the threads; as many as `workers`
  Files,      \* set.manifest().files.len()
  MaxToggles  \* bound: changes of the cancellation flag

ASSUME RunnerAssumption ==
  /\ IsFiniteSet(Worker) /\ Worker # {}
  /\ Files \in Nat
  /\ MaxToggles \in Nat

Capacity == 2 * Cardinality(Worker)   \* of the sync_channel
Index == 0..Files - 1

VARIABLES
  next,      \* the shared AtomicUsize
  stopped,   \* the shared AtomicBool
  cancel,    \* the caller's AtomicBool
  toggles,   \* counts the bound MaxToggles
  channel,   \* results sent and not received: an index, or Failed
  receiving, \* the receiver has not been dropped
  pc,        \* what each worker does next
  index,     \* the index each worker claimed
  main,      \* what the calling thread does next
  failure,   \* the calling thread's `failure` is set
  files,     \* measurements in the order of their arrival
  outcome,   \* what run_sample came to
  wronged    \* history: a spawn, a measurement or a worker failed

vars == <<next, stopped, cancel, toggles, channel, receiving, pc, index, main,
          failure, files, outcome, wronged>>
workers == <<next, pc, index>>
decided == <<main, failure, files, outcome>>

Failed == -1
Phases == {"unspawned", "test", "poll", "claim", "measure", "send", "done",
           "panicked"}

Init ==
  /\ next = 0
  /\ stopped = FALSE
  /\ cancel \in BOOLEAN /\ toggles = 0
  /\ channel = <<>>
  /\ receiving = TRUE
  /\ pc = [w \in Worker |-> "unspawned"]
  /\ index = [w \in Worker |-> Failed]
  /\ main = "start"
  /\ failure = FALSE
  /\ files = <<>>
  /\ outcome = "none"
  /\ wronged = FALSE

ToggleCancel ==
  /\ toggles < MaxToggles
  /\ main # "returned"
  /\ toggles' = toggles + 1
  /\ cancel' = ~cancel
  /\ UNCHANGED <<stopped, channel, receiving, workers, decided, wronged>>
-----------------------------------------------------------------------------
(* The calling thread.                                                     *)
Return(kind) == main' = "returned" /\ outcome' = kind

(* checkpoint(cancel)?, before anything is shared. *)
Start ==
  /\ main = "start"
  /\ \/ cancel /\ Return("error")
     \/ ~cancel /\ main' = "spawn" /\ UNCHANGED outcome
  /\ UNCHANGED <<stopped, cancel, toggles, channel, receiving, workers,
                 failure, files, wronged>>

Spawn(w) ==
  /\ main = "spawn"
  /\ pc[w] = "unspawned"
  /\ pc' = [pc EXCEPT ![w] = "test"]
  /\ UNCHANGED <<next, stopped, cancel, toggles, channel, receiving, index,
                 decided, wronged>>

(* Mutant: a sample with fewer workers goes on. *)
SpawnFailsQuietly ==
  /\ main = "spawn"
  /\ \E w \in Worker : pc[w] = "unspawned"
  /\ stopped' = TRUE
  /\ wronged' = TRUE
  /\ main' = "drain"
  /\ UNCHANGED <<cancel, toggles, channel, receiving, workers, failure, files,
                 outcome>>

(* Mutant: the workers that run are joined before the channel is drained. *)
SpawnFailsJoins ==
  /\ main = "spawn"
  /\ \E w \in Worker : pc[w] = "unspawned"
  /\ stopped' = TRUE
  /\ failure' = TRUE
  /\ wronged' = TRUE
  /\ main' = "join"
  /\ UNCHANGED <<cancel, toggles, channel, receiving, workers, files, outcome>>

(* The operating system refuses a thread: the workers that run are told    *)
(* to stop, and no other is spawned.                                       *)
SpawnFails ==
  /\ main = "spawn"
  /\ \E w \in Worker : pc[w] = "unspawned"
  /\ stopped' = TRUE
  /\ failure' = TRUE
  /\ wronged' = TRUE
  /\ main' = "drain"
  /\ UNCHANGED <<cancel, toggles, channel, receiving, workers, files, outcome>>

(* drop(tx): from here on the workers hold the only senders. *)
DropSender ==
  /\ main = "spawn"
  /\ \A w \in Worker : pc[w] # "unspawned"
  /\ main' = "drain"
  /\ UNCHANGED <<stopped, cancel, toggles, channel, receiving, workers,
                 failure, files, outcome, wronged>>

(* for result in rx: a measurement goes to the callback and to `files`,    *)
(* an error is kept when it is the first.                                  *)
Receive ==
  /\ main = "drain"
  /\ channel # <<>>
  /\ channel' = Tail(channel)
  /\ IF Head(channel) = Failed
     THEN failure' = TRUE /\ UNCHANGED files
     ELSE files' = Append(files, Head(channel)) /\ UNCHANGED failure
  /\ UNCHANGED <<stopped, cancel, toggles, receiving, workers, main, outcome,
                 wronged>>

(* The callback panics: the receiver is dropped, and thread::scope joins   *)
(* the workers before it resumes the panic.                                *)
CallbackPanics ==
  /\ main = "drain"
  /\ channel # <<>> /\ Head(channel) # Failed
  /\ channel' = <<>>
  /\ receiving' = FALSE
  /\ main' = "unwind"
  /\ UNCHANGED <<stopped, cancel, toggles, workers, failure, files, outcome,
                 wronged>>

AllEnded == \A w \in Worker : pc[w] \in {"unspawned", "done", "panicked"}

(* Every sender is gone and the channel is empty. *)
Disconnected ==
  /\ main = "drain"
  /\ channel = <<>> /\ AllEnded
  /\ receiving' = FALSE
  /\ main' = "join"
  /\ UNCHANGED <<stopped, cancel, toggles, channel, workers, failure, files,
                 outcome, wronged>>

(* join of every handle; a panic of a worker becomes the failure. *)
Join ==
  /\ main = "join"
  /\ AllEnded
  /\ failure' = (failure \/ \E w \in Worker : pc[w] = "panicked")
  /\ main' = "decide"
  /\ UNCHANGED <<stopped, cancel, toggles, channel, receiving, workers, files,
                 outcome, wronged>>

JoinUnwinding ==
  /\ main = "unwind"
  /\ AllEnded
  /\ Return("panic")
  /\ UNCHANGED <<stopped, cancel, toggles, channel, receiving, workers,
                 failure, files, wronged>>

(* sort_by_key: at place k is the value that fewer than k are below.       *)
SortedByIndex(s) ==
  LET Below(v) == Cardinality({i \in DOMAIN s : s[i] < v})
      UpTo(v) == Cardinality({i \in DOMAIN s : s[i] <= v})
  IN  [k \in DOMAIN s |->
         CHOOSE v \in {s[i] : i \in DOMAIN s} : Below(v) < k /\ k <= UpTo(v)]

(* Mutant: the count of the results is not compared with the manifest. *)
DecideWithoutCount ==
  /\ main = "decide"
  /\ IF failure \/ cancel
     THEN Return("error") /\ UNCHANGED files
     ELSE Return("sample") /\ files' = SortedByIndex(files)
  /\ UNCHANGED <<stopped, cancel, toggles, channel, receiving, workers,
                 failure, wronged>>

(* A failure, a flag that is set now, or a missing result is an error. *)
Decide ==
  /\ main = "decide"
  /\ IF failure \/ cancel \/ Len(files) # Files
     THEN Return("error") /\ UNCHANGED files
     ELSE Return("sample") /\ files' = SortedByIndex(files)
  /\ UNCHANGED <<stopped, cancel, toggles, channel, receiving, workers,
                 failure, wronged>>
-----------------------------------------------------------------------------
(* A worker. *)
Goto(w, from, to) ==
  /\ pc[w] = from
  /\ pc' = [pc EXCEPT ![w] = to]
  /\ UNCHANGED <<cancel, toggles, receiving, decided>>

TestStopped(w) ==
  /\ Goto(w, "test", IF stopped THEN "done" ELSE "poll")
  /\ UNCHANGED <<next, stopped, channel, index, wronged>>

PollCancel(w) ==
  /\ Goto(w, "poll", IF cancel THEN "done" ELSE "claim")
  /\ UNCHANGED <<next, stopped, channel, index, wronged>>

(* next.fetch_add(1), and the end of the manifest. *)
Claim(w) ==
  /\ Goto(w, "claim", IF next \in Index THEN "measure" ELSE "done")
  /\ index' = [index EXCEPT ![w] = IF next \in Index THEN next ELSE Failed]
  /\ next' = next + 1
  /\ UNCHANGED <<stopped, channel, wronged>>

(* Mutant: a failed file goes back to the workers. *)
MeasureRetries(w) ==
  \/ /\ ~cancel
     /\ Goto(w, "measure", "send")
     /\ UNCHANGED <<next, stopped, channel, index, wronged>>
  \/ /\ Goto(w, "measure", "test")
     /\ next' = next - 1
     /\ index' = [index EXCEPT ![w] = Failed]
     /\ UNCHANGED <<stopped, channel, wronged>>

(* measure_file: a result, an error of the file or of the checkpoint, or a *)
(* panic.  An error stops the other workers.                               *)
Measure(w) ==
  \/ /\ ~cancel
     /\ Goto(w, "measure", "send")
     /\ UNCHANGED <<next, stopped, channel, index, wronged>>
  \/ /\ Goto(w, "measure", "send")
     /\ index' = [index EXCEPT ![w] = Failed]
     /\ stopped' = TRUE
     /\ wronged' = TRUE
     /\ UNCHANGED <<next, channel>>
  \/ /\ Goto(w, "measure", "panicked")
     /\ wronged' = TRUE
     /\ UNCHANGED <<next, stopped, channel, index>>

(* tx.send: waits for room, and fails when the receiver is gone. *)
Send(w) ==
  /\ \/ /\ receiving /\ Len(channel) < Capacity
        /\ channel' = Append(channel, index[w])
        /\ Goto(w, "send", "test")
     \/ /\ ~receiving
        /\ Goto(w, "send", "done")
        /\ UNCHANGED channel
  /\ index' = [index EXCEPT ![w] = Failed]
  /\ UNCHANGED <<next, stopped, wronged>>

Main ==
  \/ Start \/ DropSender \/ Receive \/ Disconnected
  \/ Join \/ JoinUnwinding \/ Decide
  \/ \E w \in Worker : Spawn(w)
Work(w) == TestStopped(w) \/ PollCancel(w) \/ Claim(w) \/ Measure(w) \/ Send(w)

Next ==
  \/ Main \/ SpawnFails \/ CallbackPanics
  \/ \E w \in Worker : Work(w)
  \/ ToggleCancel

Spec == Init /\ [][Next]_vars

(* Threads are scheduled and measurements end. *)
FairSpec == Spec /\ WF_vars(Main) /\ \A w \in Worker : WF_vars(Work(w))
-----------------------------------------------------------------------------
(* Every variable keeps its type; a claimed index is one of the manifest.  *)
TypeOK ==
  /\ next \in Nat /\ toggles \in Nat
  /\ {stopped, cancel, receiving, failure, wronged} \subseteq BOOLEAN
  /\ channel \in Seq(Index \cup {Failed}) /\ Len(channel) <= Capacity
  /\ pc \in [Worker -> Phases]
  /\ index \in [Worker -> Index \cup {Failed}]
  /\ main \in {"start", "spawn", "drain", "join", "decide", "unwind", "returned"}
  /\ files \in Seq(Index)
  /\ outcome \in {"none", "sample", "error", "panic"}

(* A file is in at most one place: in the hands of one worker, once in the *)
(* channel or once among the results, and only after it was claimed.  So   *)
(* no file is measured twice, whatever the workers interleave.             *)
Places(f) ==
  Cardinality({w \in Worker : index[w] = f})
    + Cardinality({k \in DOMAIN channel : channel[k] = f})
    + Cardinality({k \in DOMAIN files : files[k] = f})
NoFileTwice ==
  \A f \in Index : Places(f) <= IF f < next THEN 1 ELSE 0

(* A sample has one measurement of each file in manifest order, although   *)
(* workers finish in any order, stop early, and the flag may be set and    *)
(* cleared again (Sample.completed_files, Sample.files).                   *)
SampleIsComplete ==
  outcome = "sample" => files = [k \in 1..Files |-> k - 1]

(* A failed spawn, a failed measurement or a panic never ends in a sample, *)
(* not even when the results are complete (Sample: any failure returns an  *)
(* error instead).                                                         *)
FailureIsReported == outcome = "sample" => ~wronged

(* run_sample returns: no worker waits forever for room in the channel and *)
(* the calling thread never joins a worker that waits for it.              *)
SampleReturns == <>(main = "returned")
=============================================================================
