# ravensky-astro: formal models and proofs

This directory holds TLA+ models of ravensky-astro, a Rust workspace that reads,
validates and measures astronomical images (FITS and XISF). TLC checks the models
on small instances; TLAPS proves the central properties for every value of the
constants. `PROJECT.json` lists the components, the runs, the hazards, and for each
definition of a module the source lines it stands for.

    tlc -workers 2 -config MCMemoryBudget.cfg MCMemoryBudget
    tlapm SharedProofs.tla

## The system

| Component | Source | State | Operations | Hard part |
|---|---|---|---|---|
| Shared memory allowance | `astro-io/src/validation/resources.rs` | capacity, atomic `used` and `peak`; per call a local budget; live reservations | `try_reserve`, `reserve`, `grow`, drop | lock-free counter shared by threads; two ledgers kept in step while calls fail half-way |
| CFITSIO gate | `astro-io/src/fits/backend.rs` | owner, depth, mutex, condition variable | `with_cfitsio`, `try_with_cfitsio`, drop of a permit | nesting, lost and spurious wake-ups, release while unwinding |
| Validation call | `astro-io/src/validation/mod.rs`, `input.rs`, `xisf/streaming.rs` | open file, stamp, counters of the call | open, stat, read, stream, checkpoint, compare | the file changes while it is read; cancellation; which of several errors is reported |
| Benchmark sample | `astro-bench/src/runner.rs` | shared index and stop flag, bounded channel, join handles | spawn, claim, measure, send, drain, join | blocked senders, failed spawns, panics, a flag set and cleared |
| Benchmark parent | `astro-bench/src/main.rs` | child process, deadline, report file | spawn, poll, kill, reap, write | exit racing the deadline, cleanup on every path |
| Fixtures | `astro-bench/src/fixtures.rs` | directory, byte quota, manifest | generate, write, open, remove | failure half-way, quota with partial writes |
| FITS validation | `astro-io/src/validation/fits.rs` | offset, header cards | walk of header and data units | sizes multiplied and padded in u64 |
| FITS compressed tables | `astro-io/src/validation/fits/*.rs` | bit readers, output counts, arrays worked on in place | tile layout; GZIP, Rice, PLIO, HCOMPRESS | bounds of descriptors, exact consumption, two code paths for one table |
| XISF document | `astro-io/src/xisf/structural.rs`, and its three consumers | stack of open elements, tree, budgets, pending property | a turn for each XML event | three readings of one document, extensions, budgets |
| XISF blocks | `astro-io/src/validation/xisf.rs`, `astro-io/src/xisf/codec.rs` | element at work, decoder of a part, counters | references, placement, checksums, decoding, unshuffling | descriptors nobody reads, decoders that read ahead |
| XISF loader | `astro-io/src/xisf.rs` | reader with its buffer, samples | load of the first image | agreement with the validator |
| FITS loader, metadata, metrics | `astro-io/src/fits.rs`, `astro-metadata`, `astro-metrics` | none across calls | sequential conversions | native libraries, text and floating point |

How they interact: an application calls `validate_file_with_budget` from several
threads; each call owns its file, shares only the `MemoryBudget` and the caller's
cancellation flag, and asks its `Account` for every buffer. Loaders and metadata
readers enter CFITSIO through the gate; the validator never does. The benchmark
runs validation calls on several workers over one budget, in a child process that
its parent starts once per sample.

What makes each part correct is stated with its module below; the parts without a
module are in the plan.

## Modules

### The memory allowance

`MemoryBudget` has one action per atomic access of `try_reserve`: `Load`, `Swap` or
`SwapFails` (compare-exchange), `RecordPeak` (`fetch_max`), and `Release` (the drop).
`TryReserve` and `Busy` are the entry and the refusal. A thread in `Call` goes through
an `Account`, whose per-call budget (`local`) is charged before the shared one and
returned when the shared one refuses; a thread in `Host` uses the public
`try_reserve` directly. `Slot` names the reservations a thread holds at once;
reserving again for a held slot is `Reservation::grow`. After a refusal a call only
releases (`unwind`), as every caller propagates the error with `?`.

`Allowance` is the abstract specification: ask, be granted or refused in one step,
give back. `Ideal` in `MemoryBudget` is the refinement mapping, with the grant at the
successful exchange and the refusal at the read that found too little.
`ByteTotals` defines the sum of a function with values in `Nat`, without recursion, so
that its arithmetic can be proved, and the running sums and products of a list; the FITS
and XISF modules use it too.

* `UsedIsHeld`: the counter is the sum of the live reservations at every instant.
* `WithinCapacity`: neither the counter nor a value some thread read exceeds the
  capacity, so the unchecked subtraction of the loop does not wrap.
* `PeakIsHighWater`: the peak lags the true maximum only by a thread about to record.
* `LedgersAgree`: the two ledgers of a call differ by the request in flight only.
* `VerdictsAreRight`: busy means "would fit if the others released", limit means not.
* `ImplementsAllowance`, `CallsReturn`: refinement, and no call waits for another.

### The CFITSIO gate

`CfitsioGate` separates taking the mutex from the code under it, because the
`try_lock` of another thread can fail in between. `CheckOwner` is one turn of the
`while` loop: it parks (wait and unlock are one step) or takes the gate. `NotifyOne`
wakes any parked thread; `SpuriousWake` needs nobody. `ReleaseGate` is the body of the
drop. `reentrant` is chosen at the start, as the linked library reports it.
`NativeSection` is the abstract nested critical section.

* `OneThreadInside`: the mutual exclusion the module's documentation promises.
* `GateMatchesPermits`: owner and depth are the permits that are out, so no sequence
  of nesting, refusal and unwinding closes the gate for good or opens it early.
* `NoLostWakeup`: a free gate with parked callers has a caller on its way.
* `ImplementsSection`, `CallersServed`: refinement, and blocking callers get in.

### A validation call

`ValidateFile` follows `validate_controlled` step by step against a directory whose
files are written, truncated, extended, renamed over or removed, and a caller that
sets and clears the flag. A file is a sequence of chunks. The formats are abstracted
to what decides the control flow: whether the first chunk is a known signature,
whether the declared extents fit (`CheckExtents`; a FITS file must be filled by its
HDUs, an XISF file need not), whether each payload chunk agrees with the header. The
payload is read plain, through zlib, or through Zstandard, whose decoder calls
`fill_buf` itself (`Decode`). `Conclude` is the end of the closure with its rule that a
cancellation is final and any other result waits for `consistent`, which looks at the
handle (`CompareHandle`), then at the path, and then compares both (`ComparePath`).

The clock may stand still, so a write can leave the modification time as it was. The
stamp is documented as an observation and no snapshot: `blurred` marks a write within
the tick of the stamp, and `FindingsAreTrue` excludes it. `hidden` marks an error whose
kind the Zstandard decoder changed (see the finding).

* `FindingsAreTrue`: a report or a format finding is what the definition `Verdict` says
  of the version that was stamped; mixed reads never produce one.
* `OutcomeIsOwed`: the file judged is the one the path names at the end
  (`VerdictIsOfThePath`), "changed" is only said of a file that was touched
  (`ChangesAreReal`), and once a checkpoint saw the caller's flag the outcome is the
  cancellation (`CancellationIsDistinct`).
* `CallReturns`: the loops end although the file shrinks or grows under them.

### A benchmark sample

`BenchRunner` models `run_sample` and `measure_file`: the calling thread (`main`) and
the workers, the shared index, the stop flag, the bounded channel and both ends of it.
A measurement yields a result, an error or a panic; spawning may fail; the progress
callback may panic, whereupon the receiver is dropped and `thread::scope` joins.

* `NoFileTwice`: a file is in one place only: a worker, the channel or the results.
* `SampleIsComplete`: a sample has each file once, in manifest order.
* `FailureIsReported`: no failed spawn, measurement or worker ends in a sample.
* `SampleReturns`: no worker waits for room forever, and every join ends.

### The benchmark command

`BenchParent` models `run`, `isolated` and `write_report` over the life of a
`FixtureSet`: the directory is created, filled and sealed with a manifest; each sample
opens its output, spawns a child and polls (`TestCancel`, `TestDeadline`, `TryWait`);
the output is read; after the last sample the flag is tested once more (`LastCheck`,
which also fails where the clock is before 1970, as the report's time cannot be given),
the directory removed, and the report written. Every system call may fail; a failure drops what is
live (`Kill`, `Wait`, `DropSet`), as the error leaves `isolated` and `run` with `?`. The
child works, fails, hangs, or loses the tail of its output at exit. Ctrl-C sets the flag
at any time, and another program may create the report's path.

* `ChildIsOwned`: an unreaped child has its files and a parent that watches it.
* `ReportIsEarned`: a whole report has a successful child for every sample, follows the
  removal of the directory, and no Ctrl-C came before the last test.
* `NothingIsLeft`: an error leaves neither directory nor partial report, unless a
  removal failed. `OthersArePreserved` (proved, in no run): a foreign file at the path
  stays.
* `RunEnds`: the command ends although a child may hang.

### The FITS walk

`FitsWalk` models `validate` of `validation/fits.rs`: `ReadCard` is a turn of the inner
loop (limits, read, order of mandatory cards, duplicates), `CheckHeader` everything up
to the checksums as a list of checks of which the first that fails gives the error,
`VerifySums`, the payload, and `NextHdu`. The file is unknown until it is read, so each
card is a choice among `Cards`. Columns and tile layouts agree with the header or not by
the value of a card; their own arithmetic is in `FitsTables`. Sizes are unbounded
numbers that must lie in `0..MaxInt` where the code multiplies and adds with checks. The
properties read the cards as a whole (`InOrder`, `Legal`, `UnitEnd`), while the code
counts. `Legal` follows the code in one point that a reader may not expect: the axes are
multiplied from the first, and a product that no u64 holds is refused although an axis
of length zero comes after it.

* `ReadUnitsAreLegal`: data are only read of a unit that conforms, lies in the file and
  whose declared work was admitted with that of the units before it.
* `RefusalsAreJustified`: a file called invalid breaks a rule, one called incomplete is
  shorter than its headers say, one called unsupported or bad in integrity has such a card
  or sum (`DamageIsReal`); and no limit is said to be exceeded that is not, where header
  bytes, cards and decoded bytes are counted again from the units passed
  (`LimitsAreReached`). The codes that a payload's decoders give are outside it: they are
  the subject of `FitsTiles` and `Hcompress`.
* `UnitsAreAccounted`: units follow each other without gap or overlap and fill a valid
  file (`UnitsTileTheFile`), and payloads come after their checksums, all of which a
  full report has verified (`ChecksumsComeFirst`).

### FITS tables and tiles

`FitsTables` has the checks without state, as lists of faults of which the first counts
(`FirstFault` of `Faults`): the columns of binary and ASCII tables, the parameters of a
compressed image, descriptors and their extents, the tiles that an image is cut into
(`TileDims` clips those at an edge), and the test for the fast GZIP path (`Supported`).
A table is a record of what its header and rows say.

`FitsTiles` is the control: columns in turn, then rows by the fast path
(`TakeFastRow`) or the general one (`TakeRow`, `TakeMask`), then a decoder for each
stream. Rice is decoded bit by bit (`StartBlock`, `ReadSample`, `EndRice`), PLIO
instruction by instruction (`Instruction`), GZIP as a header, an inflated length and a
trailer (inflation itself is a library). The sound tables of `MCFitsTiles` are edited in
one place each; its Rice and PLIO streams are encoded there and damaged. `IsTable` gives
the fields of a table the types that the header parser gives them.

* `ColumnsAndPayloadsFit`: columns do not overlap, and streams lie in the heap.
* `TilesFillTheImage`: the streams of an accepted image have each pixel once, and no
  more bytes than were admitted.
* `StreamsAreExact`: a stream is accepted exactly if it is undamaged, and gives back the
  samples it was made of.
* `PathsAgree`: the fast path and the general one judge a table alike.

### HCOMPRESS

`HTransform` is the encoder's side, the reference: the transform and the code of its
coefficients, plane by plane, as a tree or directly. The repository has no encoder; the
definitions are external. `HcInput` is the bit reader. `Hcompress` decodes the bytes as
the code does, in place: a plane begins (`StartQuadrant`, `BadFormat`), is read directly
(`ReadDirect`) or as a tree (`ReadRoot`, `Expand`, `InsertTree`), then come the signs and
the inverse transform, one level at a time.

* `PlanesAccumulate`: quadrants hold their bits above the plane, and never each other's.
* `PixelsAreRestored`: an undamaged stream decodes, a damaged one does not, and the
  pixels are the image's, or off by at most the scale.
* `NeverPanics` is refuted for thin tiles: see the findings.

### The XISF document

`XisfDocument` takes the events of the XML reader one by one: an event is a choice among
`Tags`, text, an end tag or the end of the file. `visit` is the visitor's own state, with
its stack and its namespaces; `tree`, `loader` and `records` are the consumers: the
validator's tree with its budgets, the loader's search for an image, and the records that
`astro-metadata` starts from. Each consumer makes its own visit in the program; the
module lets them listen to one and fail apart from each other. A tag opens an element or
is empty; text comes as text or as a CDATA section, of which only the former may be blank
outside the root. The properties define the document anew, from the events alone
(`Nests`, `Parent`, `TextOf`).

* `VisitIsRight`: a visit succeeds for balanced documents with one core root.
* `TreeIsTheDocument`: the core elements, once, in order, in place, with their text.
* `BudgetCoversTheDocument`: all elements have been paid for, extensions too, and only a
  document that does not fit is refused for it.
* `ConsumersAgree`: tree, loader and records tell of one document.

### XISF blocks and the loader

`XisfDescriptors` has the checks of locations, compression, subblocks and geometries, the
extent of a block and the inverse of the shuffle. `XisfContainer` has the file prefix, an
element at a time, the decoding of each part of a block call by call (`OpenPart`,
`Inflate`, `ReadFrame`; `DecodeWhole` for LZ4), and then the loader (`LoadImage`,
`LoadPart`), whose reader fetches up to a buffer ahead (`Fetched`). Decoders are known by
what they take and give: a frame's stored and decoded length, in pieces of any size.

* `NothingIsIgnored`: in a valid file each descriptor belongs to one checked block, and
  each decoded part is one frame with nothing after it.
* `WorkIsAdmitted`: what decoders give was admitted before, and none passes its part.
* `LoaderAgrees`: of a file whose first image the loader shows, the validator refuses only
  what the loader does not look at (`UnseenByLoader`), or what is over a limit of its own.
  Not looked at are: the descriptor of another image (`OpenContainer`), identifiers that
  are empty, stand twice or are on a Reference (`CheckUids`, also where the image itself
  has one), References and all other elements with their blocks, the image's checksum, and
  a sum of decoded bytes that would pass a u64. The envelope and the image's own
  descriptor, role, place, compression and parts are never what fails. The other way, the
  image of a valid file is shown, but for the history of its frames. The run has a file
  for each of these but the sum; the proof found that one.
* `PixelsAreSamples`: the loader returns the samples in order, for blocks with and without
  a shuffle of 16-bit items and in both byte orders.

## Runs

| Run | Instance | Distinct states | Shows |
|---|---|---|---|
| `memory_budget` | 2 calls, 1 host, 2 slots, capacity 2, limit 3, requests 1 to 3, 3 attempts each | 231 thousand | the allowance under every interleaving of atomic accesses |
| `cfitsio_gate` | 3 threads, 2 calls each | 4 thousand | the gate, reentrant and not |
| `validate_file` | 2 files, 3 chunk values, headers of 2 chunks, zlib and zstd, 2 events | 2.6 million | one call against writers and the caller |
| `zstd_error_kind` | 1 file, headers of 3 chunks, plain and zstd, 1 event | violation | the first finding |
| `bench_runner` | 2 workers, 5 files, 2 toggles of the flag | 110 thousand | one sample |
| `bench_parent` | 2 frames, 2 samples, deadline of 2 ticks | 4 thousand | the command from its directory to its report |
| `fits_walk` | cards of one cell in blocks of five, files of 14 and 20 cells, 34 cards, 2 optional cards per header | 2.1 million | every such file: two units and the header of a third |
| `fits_tiles` | sound tables with 37 edits, Rice streams of three samples, PLIO lists, pairs of ASCII columns | 58 thousand | what is accepted, and that it fits |
| `hcompress` | 11 geometries up to 9 x 9 and 2 x 18, 2 scales, 8 kinds of stream | 190 thousand | decoding against the encoder |
| `hcompress_thin` | 1 x 16, 1 x 17 and 17 x 1, trees only | violation | the second finding |
| `xisf_document` | 6 tags, 3 elements, 5 elements and texts, limits 2 and 3 | 624 thousand | every such document |
| `xisf_container` | an image with up to two other elements, files of 9 and 10 bytes | 95 thousand | what is accepted, and what is loaded of it |

Why the bounds are enough. Three threads are the least at which a third one acts
between the load and the exchange of two others, and at which a woken waiter of the
gate loses to a newcomer. A capacity below the limit and a request above both make all
three refusals happen. Two events let a file be written and written back, or written
and renamed; a call looks at the file's identity three times, so a third event adds no
new order of two. Five files exceed the channel's four places, so that a worker can
block in `send`. Files of 20 cells
hold a primary unit followed by an image with data or by a binary table with two
optional cards; 14 is no multiple of a block; `MaxInt` is passed by a product of two
axes. The limits of `fits_walk` are such that each is reached without the
others: header bytes also by the padding alone, decoded bytes by two units together. Three elements give a sibling, a child and an extension around a core element.
Images for HCOMPRESS have every pair of parities, and up to five levels; a stream is
shortened, prolonged, given a wrong format, and given a bit in each of its fillings.
Seven structures let an image with two subblocks pass and one with three fail.
Integers of TLC have 32 bits: Rice samples are of 8 and 16 bits, and values of HCOMPRESS
are small. Every bound is a constant named in its module (`MaxAttempts`,
`MaxCalls`, `MaxEvents`, `MaxToggles`, `MaxExtra`, `MaxElements`, `MaxParts`) and in a
guard; `Files`, `Plans`, `Geometries` and `Images` are the inputs.

`CHECK_DEADLOCK FALSE` is set because the systems end: all calls made, the sample
returned, the file judged.

## Fairness

* `MemoryBudget`: a started reservation goes on, and a call drops its guards and
  returns; a host may keep what it holds for ever.
* `CfitsioGate`: closures end (its documentation forbids waiting for another thread
  inside); a thread that wants the mutex gets it sometime (strong fairness, the mutex
  is held for a few instructions); nothing is assumed of spurious wake-ups.
* `ValidateFile`: the calling thread is scheduled; reads of the OS come back.
* `BenchRunner`: threads are scheduled and measurements end. Failed spawns, panics and
  the flag are not fair.
* `BenchParent`: the parent is scheduled, the clock advances while a child runs, and a
  child that was sent a kill signal dies. Nothing is assumed of any other child.

## Proofs

Proved with TLAPS for all values of the constants that satisfy the named assumptions
(`BudgetAssumption`, `GateAssumption`, `FileAssumption`, `ParentAssumption`,
`RunnerAssumption`, `FitsAssumption`, `TilesAssumption`, `DocumentAssumption`,
`DescriptorAssumption`, `FilesAssumption`), with no other axiom. Every invariant and
every refinement that the passing runs check is proved, but for three invariants of
decoders named below.

* `SharedProofs`, of `MemoryBudget`. The inductive invariant adds to the checked ones what holds of
  a thread between its accesses: what it read is within the capacity, a request past
  the admission fits the smaller of the limit and the capacity together with the
  share, and an idle thread has nothing in flight. It is needed because `UsedIsHeld`
  alone says nothing of the value a thread is about to compare. `ByteTotalsProofs` has
  the lemmas on sums (adding to or clearing one entry), as cardinalities of sets of
  cells, which avoids induction. `Linearizable` maps initial states and every step.
* `SharedProofs`, of `CfitsioGate`. Two facts strengthen the properties: the mutex is held
  exactly by the thread at a step under it, and `parked` are the threads whose phase says
  so. The gate's definitions have names of their own (`GateInit`, `GateNext`), so that
  one module can speak of both things that calls share.
* `ValidateFileProofs`. While no write fell within the tick of the stamp, the open file
  either still has the stamped time and chunks (`Quiet`) or never has that time again.
  So what was read is a prefix of the stamped version, or the comparison fails. For
  `OutcomeIsOwed` the addition (`Debts`) is what the call may still say: while nothing
  touched the file, the path names the open handle and the handle still has the stamp,
  and a call that a checkpoint stopped has already come to `Cancelled`.
* `BenchProofs`, of `BenchRunner`. `NoFileTwice` counts, which is not inductive as it stands: the
  invariant says that a claimed file is below the shared index and that no two of the
  places it could be in hold the same one (`Apart`), how far the calling thread is
  allows what of the workers (`Stages`), and that a failure is either known to the
  calling thread or still on its way in a worker or in the channel (`OnItsWay`). That a
  complete sample, sorted, is the manifest is a counting argument: as many different
  indices as there are files are all of them, so the place of each is its index.
* `BenchProofs`, of `BenchParent`. The properties speak of the end or of a running child; the
  invariant adds what each place of the program may rely on: the directory is complete
  from the first sample to the clean-up, the child is reaped where its output is read,
  the samples accepted so far are all of successful children, and a partial report is
  only where `write_report` is at work.
* `FitsWalkProofs`, for files, headers and counts of axes of any size. Besides the
  types and the two properties, the invariant says: what the loop holds of the header
  is the text read so far, without duplicates and in order (`HeaderIsRead`); the
  counters agree with the units passed (`CountersAgree`); each unit starts where the
  one before it ends (`UnitsFollow`, `UnitsTileTheFile`). A second invariant on top of it
  (`Reasons`) says that the counters the code keeps are what the units and cards passed
  come to: with it `RefusalsAreJustified` follows for limits too. The heart is that the code's
  list of checks and the reading of the cards as a whole say the same: a header that
  no check refuses is `Legal`, and each check that fails breaks `Legal` or meets the
  end of the file. The product of the axes is a fold; the axes are gone through with
  the least one at which the two readings would part (`LeastNumber` of
  `ByteTotalsProofs`).
* `FitsTilesProofs`, for tables of any columns, axes, tiles and rows, any streams and any
  limits. `TilesAssumption` only gives the fields of a table their types: counts are
  natural numbers, while a descriptor in the heap, the offset of the heap and the start of
  an ASCII column may be any integer. That an accepted image is filled rests on arithmetic: the
  rows count the tiles with the first axis fastest, so the tiles along the first `d` axes
  repeat in blocks, and each block comes to the product of the first `d` lengths
  (`AxesInBlocks`, by induction on `d`); along one axis whole tiles and a clipped last one
  come to its length (`TilesOfAxis`). The invariant says: what the checks passed so far
  established (`ColumnsInv`); the stream at work belongs to the row at work and lies in
  the heap (`JobInv`); what is decoded are the tiles of the rows before, no stream gave
  more than its tile holds, and the bytes counted against the limit are those of the image
  and of the masks (`TilesInv`); a table on the fast path has no row behind it that the
  general path would refuse (`PathInv`). `PathsAgree` needs the last one because the two
  paths make their checks in different orders: `PathsMeet` compares them for one row, and
  `ParametersPass` shows that of a table whose parameters are well formed the general
  path refuses none before its first row.
* `XisfDocumentProofs`, for documents of any length and depth. The visitor's stack is the
  path of open elements, each inside the one before (`Visitor`): that is what makes "the
  top of the stack" the parent. On it rest one invariant for each consumer. `Tree`: the
  nodes are the core elements in the order of their start tags, each with its children
  and the text between its tags. `Bill`: what has been charged is one for each element
  that was opened, extensions included, and one for each of its attributes, so that the
  limit is passed exactly when the document does not fit. `Loader`: the image is the first
  of the document. `Records`: the pending property is the innermost open one, and what is
  recorded has ended. `ConsumersAgree` compares the three readings through the document,
  never with each other.
* `XisfContainerProofs`, for every set of files (`FilesAssumption` only gives the fields
  of an element their types and puts a parent before its children), every limit and every
  length of a buffer. The invariant says: an element behind the loop has passed its
  checks, and its block is decoded (`ElementsInv`); the counters are sums and numbers of
  the blocks checked (`CountsInv`); the loop over the parts stands at the sum of the
  stored lengths before it, each part behind it is one whole frame, and the decoder at
  work is inside its own (`WorkInv`); a refusal has a check that failed (`RefusalInv`);
  the loader has read the same parts, or has met the one it cannot load (`LoaderInv`).
  `CompressionFault` makes the running sums of the parts end at the stored and the decoded
  length, and they grow with each part: so no decoder leaves the block, and where the last
  part ends the block does. `NothingIsIgnored` needs that a descriptor has only one
  element that can refer to it: an embedded block has one `Data` child, and that child
  has the block's location nowhere else. `LoaderAgrees` puts the two lists of checks next
  to each other: `RefusalInv` names the check that failed, at whatever place the validator
  stopped, and each one that could fail of a shown image is one the loader has made too,
  or is named in the property. A part that fails has no frame of its lengths: the range of
  its bytes cannot be what fails (`StorageHolds`). `PixelsAreSamples` is arithmetic:
  `Unshuffle` reads the byte at `row * items + column`, and a quotient and a remainder
  determine their number. The lemma behind it (`ShuffleUndone`) is for items of any size
  and a tail that no whole item fills; the loader meets only items of two bytes in blocks
  of an even length.

The library's induction theorems take an operator as a parameter and cannot be used;
proofs about sequences, running sums, axes and shuffled bytes take the least place at
which something would be wrong instead (`LeastNumber`, and `Upward`, which is induction
over the members of a set).

Only model-checked:

* every liveness property and the fairness behind it: the prover has no rules for
  `ENABLED` here;
* `StreamsAreExact` (`FitsTiles`), `PlanesAccumulate` and `PixelsAreRestored`
  (`Hcompress`): they compare a decoder with the encoder of the same data. The encoders
  are recursive definitions (bits of a list of samples, trees of quadrants), and what
  those give for every input needs induction over data; for Rice and PLIO the encoder is
  also an input of the run and no definition that a theorem could name.

## Findings

`zstd_error_kind` (expected violation): `decode_zstd_frame` (`xisf/codec.rs:337`)
replaces every error of its reader by invalid data. A cancellation that arrives in the
reader is then reported as `IntegrityMismatch`, of a sound file, although
`validation/mod.rs:495` says that errors distinguish cancelled from invalid input. The
zlib and GZIP paths keep the kind.

`hcompress_thin` (expected violation): an empty quadrant of a tile with one row or one
column has a scratch array of four elements (`validation/fits/hcompress.rs:540`), but
the loop over its tree takes its depth from the longer side. With more than 16 pixels
the loop reaches five elements and indexes past the array. The tests
(`tests/validation/compressed.rs:398`) and `docs/CompressedFitsResourceImplementation.md:105`
say that no bounded HCOMPRESS stream panics.

## Not modelled, and why

Pixels, rendering and statistics (`astro-metrics`) are floating point over the output
of native libraries. The FITS loader is a conversation with CFITSIO, of which the gate is
what the repository adds. The mapping of keywords to fields in `astro-metadata` is
sequential text and floating point; the records it starts from are in `XisfDocument`.
Process statistics are readings of the OS. The quota writer and the contents of
benchmark fixtures, and the admission estimate of a sample, are sequential arithmetic
that no other part reads. In `ValidateFile` the contents of a format are abstracted; the
counters for structures, header and decoded bytes appear as the error they end in.
Of the formats: the grammar of attribute values and of header cards is a field of the
input, inflation and checksums are results, HCOMPRESS has one width instead of two, and
the fields of its header are read before the model begins.

## Plan

1. Composition: several validation calls over one allowance inside a sample.
2. The quota writer.
