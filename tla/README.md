# mpifxcorr in TLA+

This directory holds TLA+ models of mpifxcorr, the MPI software correlator of DiFX, the TLC
configurations that check them on small instances, and machine-checked proofs. The program is under
`src/` (C++ in `src/src/`); line numbers below refer to it. `PROJECT.json` maps each definition to the
lines it models and lists components, runs, mutants, findings, hazards and theorems.

## The system

mpifxcorr runs as one MPI job. Rank 0 is the *FxManager*, the next ranks are *Datastreams*, one for each
antenna's recording, and the rest are *Cores* (`mpifxcorr.cpp`, `main`). The job is a list of scans. The
FxManager cuts each scan into *subintegrations* and gives each, in turn, to a Core, telling all the
Datastreams to send that Core their data for it. The Core correlates the data and returns a result; the
FxManager adds results up into *Visibilities* (integrations) and writes them out in time order.

    FxManager --CR_RECEIVETIME, CR_TERMINATE--> Core
    FxManager --DS_PROCESS, DS_TERMINATE-->     Datastream
    Datastream --CR_PROCESSDATA, CR_PROCESSCONTROL--> Core
    Core --CR_VALIDVIS-->                       FxManager

Inside each process threads share a ring of buffers, with *one mutex per buffer*, handed over hand over
hand: a thread takes the mutex of the next buffer before it gives up the one it has. There is hardly any
other synchronisation, so the order of locks and unlocks, at start-up and shutdown too, carries the
correctness of the program.

| component | state | operations | what makes it correct |
|---|---|---|---|
| Core (`core.cpp`) | ring of 4 slots (`procslots`: time, data, results, one mutex per process thread), `numreceived`, `numprocessed[]` | `execute`, `receivedata`, `loopprocess`, `processdata` | every subintegration gets one result, complete, in order; no slot is used by main and a thread at once; it ends when told to |
| FxManager (`fxmanager.cpp`) | `coretimes`, `numsent`, `extrareceived`; ring of Visibilities with mutexes, `oldestlockedvis`, `newestlockedvis`, `islocked`; `writesegment` | `execute`, `sendData`, `receiveData`, `locateVisIndex`, `loopwrite` | a result is added to the integration of its time or reported stale; integrations are written once, in order, when complete; it ends |
| Visibility (`visibility.cpp`) | results, `currentscan`, start time, `currentsubints`, `offsetns` | `addData`, `increment`, `updateTime`, `writedata` | the Visibilities of the ring stand for successive integrations; each knows how many subintegrations it needs |
| Datastream (`datastream.cpp`) | ring of databuffer segments (`bufferinfo`: time, scan, configuration, valid bytes, outstanding sends), `atsegment`, `waitsegment`, `lastvalidsegment` | `execute`, `calculateControlParams`, `waitForSendComplete`; `loopfileread`, `diskToMemory`, `openfile`; fake and network readers | what is sent as valid is the data of that time and stays so until it is taken; data that is there is sent; every request is answered |
| DataMuxer (`datamuxer.cpp`) | rings of thread buffers, `processframenumber`, `threadbufferfree` | `datacheck`, `deinterlace`, `multiplex`, `cornerturn_*` | one stream of frames of consecutive times; each sample at its thread and time; nothing complete is lost |
| file datastreams (`vdiffile.cpp`, `mark5bfile.cpp`) | ring of read-buffer slots with mutexes, `slotMutexOwner`, `lockstart`, `lockend`, `muxindex`, `lastslot` | `readthreadfunction`, `dataRead`, `initialiseFile` | frames consecutive while their slots are locked; every file and the job end |
| module and network datastreams (`mark5bmark5.cpp`, `vdifnetwork.cpp`) | as above, a thread for the whole job, barriers | `mark5threadfunction`, `networkthreadfunction`, `dataRead`, destructors | the same; both sides meet at the barrier, also after a failure |
| Mk5DataStream (`mk5.cpp`) | `packet_segmentstart`, `packet_head`, `udp_offset`, `udp_buf` | `readnetwork`, `networkToMemory` | a segment holds the stream's bytes in place, or fill |
| Configuration (`configuration.cpp`) | tables of frequencies, datastreams, baselines, rules, scans; offsets of results | `parseConfiguration`, `process*Table`, `consistencyCheck`, `populateResultLengths` | sizes and places agree between all who count them |
| Mode, PCal (`mode.cpp`, `pcal.cpp`) | spectra of a few blocks, weights, autocorrelations, bins of tones | `setData`, `setOffsets`, `process`, `extractAndIntegrate`, `getFinalPCal` | a block's samples are those of its time and were there; a tone is summed in phase |
| main, command thread (`mpifxcorr.cpp`) | MPI ranks, command thread state | reading the files together, barriers, execute, abort | all processes take the same collective calls, and end |
| Monitor thread, Model, Polyco, SwitchedPower, watchdog, utilities | - | - | not modelled (below) |

Hard to test: the threads' interleavings on the rings; jobs shorter than a ring; shutdown in every phase;
Cores that answer out of step with each other; files and scans with gaps; data that straddles buffers while
sends are in flight; late, lost and repeated packets and frames; places in the results that a dozen loops
count each for itself. `PROJECT.json` lists these hazards at their lines, with the properties that are about
them.

## Modules

    Correlator            the processes of a job and their messages
      FxManager           rank 0: sending, receiving, Visibilities, writing
      DataStream          main thread and reader of a Datastream on its databuffer
        SlotRing          readers with a thread and ring of their own: VDIF and Mark5B files
        ServerRing          Mark5 modules and VDIF from a network
        UdpReader           UDP packets
        Muxer               interlaced VDIF threads
        Subint              the bytes and flags of one subintegration
      CoreRing            main thread and process threads of a Core   => CorePipeline
        Processing        what the process threads compute, block by block (Subint, PCal)
        ResultPath        where they add it, where the writer finds it (Configuration)

Each component is a module; the `MC` modules hold instances for TLC and the `_proof` modules the proofs.

* `CorePipeline` - what a Core promises the FxManager: a FIFO of at most RING subintegrations that gives
  one result each, in order, and stops when told to. `FxManager` and `Correlator` use a Core as this.
* `CoreRing` - how it does it: one action per lock, unlock, wait, receive, send or piece of work between
  two of them. `mpc` and `wpc[t]` are program counters, `locks[s][t]` the holder of
  `procslots[s].slotlocks[t]`; a loop over threads is walked with `i`. A result buffer is the set of shares
  added since it was zeroed, enough to tell a lost, doubled, early or misplaced share. Short jobs
  (`ShortJob`, `Adjust`, `Countdown`), both shutdown paths and the condition wait at start-up are in it.
* `FxManager` - constructor handshake, main thread and write thread. Time is in subintegrations, so that
  the integration a Visibility stands for is a number, `vis[s]`; a result is the number of its
  subintegration, a Core the FIFO `queue[c]`. `timeDifference` with its `LLONG_MAX`/`LLONG_MIN` cases is
  `NotBefore` and `NotAfter`; the code compares the middle of a subintegration, so ties do not occur.
  `stale`, `forced`, `abandoned` and `written` record what happened and steer nothing.
* `DataStream` - main thread and read thread on the databuffer, for the three sources the reader has: files,
  frames from a network, and the fake data of a job without a recording. Time and place are in blocks,
  `data[s][j]` is the recording time of block `j` of segment `s`, and a send keeps pointing into the ring
  until `Taken` (MPI_Issend). `outstandingsendlock` is not modelled: only the reader takes it, to poll.
* `Subint` - one subintegration sample by sample and in ns: where in the databuffer
  `calculateControlParams` starts a send, which blocks it flags, and which samples `Mode::process` takes for
  a block from the time, the delay and the flags it is given. Constants and operators, no variables.
* `PCal` - which extractor a phase-cal band gets, where each sample is added and where a tone is read. A sum
  is the phase of what is in it. Constants and operators.
* `Processing` - the process threads of a Core on blocks of `Subint`, `numBufferedFFTs` at a time: spectra,
  cross-correlations, autocorrelations, weights, bins, tones, kurtosis, averaging windows. A spectrum is the
  block it was made of, an accumulator the bag of what was added.
* `Configuration` - the tables made of an input file, the checks that accept a job, the lookups.
* `ResultPath` - parsing in the sections' order, the layout of the results (`Place`, `CoreLayout`), what
  process threads add at which float, and what the Visibility takes for what. It is `Configuration`, two
  threads of a Core and the writer composed.
* `SlotRing` - reader thread and `dataRead` of a VDIFDataStream. `mutex[s]` also stands for the last slot
  when `s = 0`, as in the code; `lapped` and `overlap` record the two ways the reader may get ahead that the
  locks do not exclude (below).
* `ServerRing` - the same for a thread that lives as long as the datastream, with its barriers, records and
  failing reads. Anyone may unlock a mutex, as in the code. For a network stream `dataremaining` starts with
  either value and is set by `BeginReading`, after the barriers: `GaveUp` is a thread that saw it too early.
* `UdpReader` - `readnetwork` in units of a packet's part, with the network as a set of packets.
* `Muxer` - `VDIFMuxer` and its use by the file reader, in words of a frame; a corner turn is a function on
  the samples of words. It has recursive operators and is only model-checked.
* `Correlator` - the processes from reading the input files together to `MPI_Finalize`, command threads,
  and the messages; a datastream and a Core there have as many buffers as they need to be checked for waiting.

**What is external.** `vdifmux` and `mark5bfix` (of the vdifio and mark5access libraries) are modelled by how
many frames they take; MPI by ordered channels, where `MPI_Ssend` waits and `MPI_Issend` does not; the system
by mutexes, condition variables with spurious wake-ups and barriers.

## Runs

| run | instance | what it shows |
|---|---|---|
| `core_safety` | 3 threads, ring of 4, 0 to 6 subintegrations, 2 configurations, spurious wake-ups | `SlotExclusion`, `WorkersSeeTheirSubint`, `SentCompleteInOrder` |
| `core_pipeline` | 2 threads, the same | the ring implements `CorePipeline`, fairness included; `Terminates` |
| `fx_job` | 2 Cores, ring of 4 Visibilities, 9 subintegrations in 3 scans, integrations of two, some cut short | `RingMatchesLocks`, `VisExclusion`, `OwnTime`, `WrittenOnceInOrder`, `NothingLost`, `OwnIntegration`, `WrittenWhenComplete`, `Terminates` |
| `ds_safety` | each reader, 6 segments, 2 scans, 3 files or streams with gaps, one missing | `SentDataIntact`, `SegmentExclusion`, `NothingSkipped`, `Answers`, `Terminates` |
| `ds_mutual_wait` | 5 segments, 2 files | finding: main and reader wait for each other |
| `vdif` | 5 slots of 5 frames, reads of 2, files of 45, 38, 7, 4 and 3 frames, a bad file, jumps, 2 scans | `InOrder`, `Terminates` |
| `server` | the same ring; module with scans before, across and within the job or an empty one; network of 4, 13 or 20 frames; failing reads | `InOrder`, `Ends` |
| `udp` | packets of 4, segments of 15, 16 packets, two lost, one twice, overtaking by 2 | `DataInPlace`, `NothingDropped` |
| `mux` | 7 formats; for 3 of them every file with one fault | `InOrder`, `SamplesTurned`, `NothingLost` |
| `processing` | 2 threads, 7 blocks, 2 kinds of averaging over 152 states of the data, and 3 more phase-cal bands | `WindowsTile`, `WeightsAreData`, `SamplesRight` |
| `setup` | 14 jobs, sections in 3 orders, 2 threads | `Exclusive`, `ReadBack` |
| `correlator` | manager, 2 datastreams, 2 Cores, ring of 2, 5 subintegrations, 2 files, a failing command socket | `DataMatch`, `NothingLeft`, `FairTurns`, `Ends` |

`TypeOK` is checked in `core_safety`, `fx_job` and `ds_safety`. In every run a deadlock is an error, but for
`ds_mutual_wait`, where it is the finding.

**Bounds.** `RING` is 4 in the Core runs, as in the code. `MaxSubints` = 6 is more than one turn after the
ring is full, and each behaviour chooses when `CR_TERMINATE` comes, so every job length from 0 on occurs.
Three threads are the fewest with one that is neither first nor last. FxManager uses `RING` = 2 to reach a
full pipeline with few subintegrations (the index arithmetic is the same modulo), and the fewest Visibilities
that the module allows, so that giving up, wrapping, skipping of middle slots and catching up all occur with
a Core that is two integrations behind. The Datastream job goes one and a half times round its ring, with
sends that start in the gap before a file, run from one segment into the next, over the end of the ring, and
past the end of the data; 4 blocks in a segment and 2 in a send let it start at every offset that matters.
`FlagsPerInt` is 1 there: with the code's 30 a partly valid send of few blocks is always dropped (`FullWords`),
which would hide the flags; `Subint` has the words of flags, 2 blocks each. 5 slots are the fewest with which
a reader ahead, a consumer on two slots and the copy in front of slot 1 can coincide. In `Subint` a sample is
5/4 ns, so that roundings to ns, bytes and samples differ, and blocks do not divide a segment. In `UdpReader`
packets and segments are coprime, so every phase of a segment in a packet occurs. In `Muxer` 17 times go round
the rings of 12 and over the turn of a second. In `Correlator` a fifth subintegration is one more than fills
the two rings of two.

**Fairness.** Weak fairness of each thread: it is scheduled while it can run. A mutex is modelled as available
again and again until taken, and where a thread waits for one, at most one other thread contends, so weak
fairness suffices. Weak fairness also of the manager's next message (Core, Datastream), of Cores answering
what they were sent (FxManager; this is what `CorePipeline` promises) and taking what Datastreams send, and
of a network sending what it will. In `Correlator` only the manager, whose probing could go on by itself, and
*some* other process that can go on are fair, which is less than the scheduler gives. Spurious wake-ups,
SIGINT, failures and loss are never forced.

**What the instances assume.** Each condition is one the code does not check; where it fails, a property
fails or the model has no state worth checking. The hazards of `PROJECT.json` give the lines.

* `fx_job`: the write thread's signal comes when the constructor waits (`StartupRace` = FALSE: else the job
  may never start, `fxmanager.cpp` 214-219, 664-667), and all scans have one integration time (749, 776).
  `OwnIntegration` leaves out results placed after data was dropped to catch up (782).
* `ds_safety`: no file ends within less than a send of a segment's start (the copy back at `datastream.cpp`
  1976 has its ends swapped), a stream's first frame fills three segments (1148-1162), a network does not
  keep the reader in `accept` or `recv` after the job (1299, 1657), a fake job is longer than two segments
  (1037, 1115), one configuration (949), no segment follows on another only when their times are counted from
  the starts of different scans (593). What fake data is is not checked, and `NothingSkipped` is about
  what came before the network hung up.
* `vdif`: `InOrder` is about states where the reader has not gone round the ring before the first lock
  (`lapped`) and no reader is left over from another file (`overlap`). A file list in which a file is an exact
  multiple of a slot and another follows deadlocks, since the locks are kept (`vdiffile.cpp` 838): none here.
  So does one in which the first of several files ends, or looks so after a lap, before three reads: these go
  on whatever remains (`datastream.cpp` 874-893), with slot numbers below 0, undefined in the code and no lock
  of the ring in the model. The file of 4 frames, alone in its list, has such reads. `InOrder` leaves them out.
* `server`: as `vdif`, and `slipped`: at an exact slot boundary the consumer goes on into a slot it has not
  locked. It also leaves out a network stream that the thread has ended after a whole slot, having found
  `dataremaining` not set yet (`GaveUp`): `loopnetworkread` starts it with the barriers (`vdifnetwork.cpp`
  378-379, 677) before it sets the flag (679), which has no value until then, and the thread tests it after its
  first slot (269). It then waits at the barrier for good and the consumer takes slots that were never filled:
  with a stream of 13 frames, TLC finds `InOrder` without `~GaveUp` violated. A stream of 4 frames ends before the
  third read, which is shown the slot after the last one. `Ends` leaves out a read that failed (the thread is stopped with the consumer waiting in the destructor's barrier) and
  the undefined join of a thread that was never started.
* `udp`: the losses of `McLosses`: next to a boundary that segment and packet share, an off-by-one shifts or
  blanks data (`mk5.cpp` 757, 792, 905-910, 948-952), and a skip of whole segments is not accounted for.
* `mux`: one file whose first frame is aligned, with fewer foreign bytes at a place than a frame, delays
  within the two reads ahead and gaps of up to 4 times. A gap of more than a read aborts the job.
* `processing`: a block's clock starts with a segment that begins with a second and is not the last of the
  ring, and delays move by at most `GuardNS` within a subintegration. `SamplesRight` leaves out the last
  block before flagged data, which may run past the data's end: a block too many there is not seen.
* `setup`: one number of products in all configurations (`populateResultLengths` takes a maximum for each),
  no baseline in the wrong order with cross-hand products, no LSB/USB pair that falls on one frequency. The room for tones is counted by recorded frequency, from the
  polarisations the file gives for each (`configuration.cpp` 2422), their places by band: the jobs' counts agree. A zoom
  product after a recorded first band, for which line 2989 looks before its array, is not among them. No property
  says that what is correlated is at one frequency, since the code accepts other jobs: for bands at different
  ones it only warns (2946-2954; job `Apart`), and 2989 looks up the zoom band of datastream 2 by the first
  product (`[j][0]`) for all of them, so that a later one may be at another frequency (job `ZoomMixed`).
* `correlator`: `Eager`, a small `MPI_Send` is buffered. With a synchronous one the datastreams and the
  manager's `terminate` wait for each other.

## Finding

`ds_mutual_wait`: `datastream.cpp` 908-929, 2092, 2106, 455. With the minimum of 5 segments that
`configuration.cpp` 2561 accepts, main and reader deadlock when a new file is opened. `PROJECT.json` quotes
the text the code disagrees with.

## Proofs

| module | theorem | |
|---|---|---|
| `CoreRing_proof` | `TypeCorrect` | `Spec => []TypeOK` |
| | `SlotsExclusive` | `Spec => []SlotExclusion` |
| | `SubintsMatch` | `Spec => []WorkersSeeTheirSubint` |
| | `ResultsComplete` | `Spec => []SentCompleteInOrder` |
| | `StepsOfPipeline` | `Spec => PipelineSteps`: `Init` and `[][Next]_vars` of `CorePipeline` |
| `FxManager_proof` | `LocksMatch` | `Spec => []RingMatchesLocks` |
| | `VisibilitiesExclusive` | `Spec => []VisExclusion` |
| | `TimesAreOwn` | `Spec => []OwnTime` |
| `FxPlaces_proof` | `TypeCorrect` | `Spec => []TypeOK` |
| | `OwnPlaces` | `EvenScans`: `Spec => []OwnIntegration` |
| | `WrittenInOrder` | `Spec => []WrittenOnceInOrder` |
| | `NothingIsLost` | `NeverShorter`: `Spec => []NothingLost` |
| | `CompleteWhenWritten` | `EvenScans`: `Spec => []WrittenWhenComplete` |
| `DataStream_proof` | `SegmentsExclusive` | `Spec => []SegmentExclusion` |
| | `TypeCorrect` | `Spec => []TypeOK` |
| | `SentInOneScan` | `NoShortEnd`: `Spec /\ []NextOfScan => []SentDataIntact` |
| | `SentIsRecorded` | `NoShortEnd`, `ScansApart`: `Spec => []SentDataIntact` |
| `Correlator_proof` | `DataMatches` | `Spec => []DataMatch` |
| | `TurnsAreFair` | `Spec => []FairTurns` |
| | `ResultsReturn` | `Spec => []Returned`: `NothingLeft`, but for the word to terminate |
| | `NothingIsLeft` | `Subints >= numcores`: `Spec => []NothingLeft` |
| `SlotRing_proof` | `SlotsTyped` | `Spec => []TypeOK` |
| | `SlotsInOrder` | `Spec => []InOrder` |
| `ServerRing_proof` | `RecordsInOrder` | `Spec => []InOrder` |

They hold for every value of the constants that the modules' ASSUMEs allow: any number of threads, Cores, datastreams,
segments (from 5), Visibilities (from 4), read-buffer slots (from 5, each longer than two reads), scans, files
and records; `StartupRace` and spurious wake-ups either way.
The hypotheses named before a colon are about the job, and each is there because the property fails without it:

* `EvenScans`, all scans have one integration time; `NeverShorter`, it does not become shorter from a scan to
  a later one. `locateVisIndex` places a result by the integration time of the scan that is being *sent*
  (`fxmanager.cpp` 749). With scans of 4 subintegrations in one integration and then 1 in one, 3 Cores and 5
  Visibilities TLC finds the last results of the first scan in a Visibility past the end of the job, never written.
* `NoShortEnd`, no file ends within less than a send of a segment's start just where another begins. The copy
  back of `diskToMemory` has its ends swapped (`datastream.cpp` 1976): files of 17 and 8 blocks are enough.
* `NextOfScan`, a segment that is taken for the next one is of the same scan. Main compares times counted from
  the start of the scan each segment is in (593): with scans at 0 and 100, a file that ends 17 blocks into the
  first and one that starts 17 into the second follow on each other, and data of the wrong scan is sent as
  valid. `ScansApart` says it of the job: files are not a whole number of segments apart when counted from the
  starts of different scans; every job of one scan meets it. `ds_safety` does not, and yet meets `NextOfScan`.
* `Subints >= numcores`, every Core is given something. One that is not sends nothing, and the manager may end
  while its word to terminate is still on the way (2 Cores, 1 subintegration); `Returned` allows for that.

None of the properties is inductive; TLC has checked each strengthening on the runs' instances.

**Sums** (`Sums`, lemmas only). The first subintegration of a scan is a recursive sum, and the induction
theorems of the library cannot be used. `LeastOf` has a least number in every set of them, from the finite
sets' ordering being well-founded; that a sum exists, is unique, grows and has a part for every number up to
it (`SumDefined`, `SumGrows`, `SumParts`) follows by taking a least number for which it does not. `Multiples`,
`SlotOf` and `Residues` are the arithmetic of rings whose length is a constant: the solver has no products,
quotients or remainders of two unknowns, and they turn these into an order of multiples.

**CoreRing.** `IInv` adds `LockInv` (who holds which mutex, as a function of the program counters), `MainInv`
(what main knows at each step), `ThreadInv` (which phases of start-up and shutdown can coincide),
`PositionInv` (how far `numprocessed[t]` can be from `numreceived` and `Len(sent)`: the mutexes bound it by the
ring), `DataInv` (the last RING-1 subintegrations received are in their slots), `ResultInv` (the result of
each in flight is the shares added so far) and `SentInv`. From `LockInv` a thread that takes a mutex learns
that the other side is not in the slot, which moves `PositionInv` on; `DataInv` and `ResultInv` follow because
two subintegrations less than a ring apart have different slots (`SlotInjective`). For `StepsOfPipeline`
`DrainedInv` is added (nothing is left when main joins the threads): a step that receives is `Receive`, one
that sends is `Return`, the one to `CR_TERMINATE` is `Terminate`, and all others stutter.

**FxManager.** `IInv` is `Ended` (main gives up its mutexes for good) or: `RingInv` (what main holds is what
`islocked` says, between oldest and newest), `WriterInv` (which mutexes the write thread holds at each of its
steps), `StartInv` (the constructor's handshake), `WindowInv` and `RoomInv` (how far oldest and newest can be
apart at each step of `locateVisIndex`) and `PlaceInv` (where the write thread is: just behind what main
holds). The places on the ring are numbered from oldest (`*Number` lemmas), which turns the wrap-around into
linear arithmetic. `VisExclusion` is `RingInv` and `WriterInv`: a mutex has one holder.

**FxManager, times.** `TInv`: the types of what `OwnTime` is about, how many subintegrations each Core has been sent
during and after the fill-up (`FillInv`), and that the entries of `coretimes` between the oldest unanswered
and the newest are the numbers in the Core's queue, in order (`NotedInv`).

**FxManager, places (`FxPlaces_proof`).** `BaseInv` has the types, `HandInv` (the result in hand is of a Core that owes it) and `EndInv`
(the counts of the shutdown). `OrderInv`: a Visibility is as many integrations ahead of the one being
written as it is places ahead on the ring. With it, and `ScanOrder` (how the integration of a subintegration
compares with one of the ring, by the scan's integration time and the one used), the loop of `locateVisIndex`
ends at the integration of the result (`PlacedInv`), on the ring or dropped from behind it.

**FxManager, output (`FxPlaces_proof`).** `OwedInv`: what `execute` counts as missing is what the Cores hold. `CoverInv`: what was sent is
in a Core, in hand, in a Visibility, written or reported. `AccInv`: what is in a Visibility is in
no other and is not written yet, or is all written and not yet moved on (`Away`). `OutInv`: what was written
is before the front, which only moves forward. `WrittenInOrder` is in `AccInv` and `OutInv`; `NothingIsLost`
also needs `HomeInv` (no result is in an integration after its own), where `NeverShorter` is used.

For `CompleteWhenWritten`, `CompleteInv`, until an integration has been forced out: an integration main has let go of is
`Settled`, all of its subintegrations have been added (`LetGoInv`, `FullInv`), and what came too late is of an
abandoned one (`StaleInv`). By `MembersBound` an integration has no more subintegrations than are expected of
it, so that when as many have been added none is missing.

**DataStream.** `DInv` is `Over` (main is at its end, or the reader has left its loop) or `MainInv` (main
holds the mutexes of `atsegment` and the next), `StartInv` (what the reader has filled before main starts) and
`ReaderInv` (the reader holds the mutex of the segment it is in, or that of the third while it fills the first
segments). It ends with the reader's loop: there a fake reader may unlock a mutex that main holds. `TypeInv`
adds to the types how far a file has been read (`StageInv`, `FileInv`) and `WindowInv`: the segments whose
sends are not yet seen completed never fill the ring. `DataInv`, for recorded data, is `SentInv` (outstanding
sends are counted), until main is at its end `StoreInv` (what is valid in a segment is what was recorded
from its start on; every block of a send that is flagged is in such a part of the ring, in the overflow area
too), and until the reader leaves its loop `WayInv` (the next block read is that of `readtime`; the segment
read last has no sends outstanding, and is full, or empty, or ends with its file).

**Correlator.** `LinkInv` follows the messages: the numbers grow along every queue (`TimesInv`, `StreamInv`),
and what a Core has been told of is, for each datastream, what it holds of its data and what is on its way
from there (`Matched`), in a send, in hand, in a message or still to be told. The oldest send for a Core is
then of its first instruction, whatever the datastreams and the other Cores do (`DataOfHead`). `StopInv`: the
word to terminate is the last in its queue. For the end, `RingInv` (results in a Core's ring as a function of
where it is) and `CountInv`: the results to come are as many as the fill-up, the loop or `Owed` says, at each
step of the manager. `TurnInv`: after how many probes a Core is the next one, and whether it has been probed
since a result was taken last, bounds how often another has been taken while its own waited.

**SlotRing.** Slots are counted on from the consumer's, so that slot lockmod + 1 is slot 1 a turn later. `Good`
says that until a reader laps the ring or meets another, and while data remain, either the file is being read,
`Begun(W)`, or has been, `Over`. In both what has been read and not taken is in the ring, from the
consumer's place on (`Data`). `Begun(W)`: the reader is at slot W, behind the last frame read, and holds its
mutex, or the one before, or both (`Written`, `ReaderHolds`); the consumer holds those of
`lockstart .. lockend`, which end before the reader's and are less than a ring apart from them
(`ConsumerHolds`); before its first lock the reader is in its first turn (`FirstLap`). A slot that is free to
be locked is then none of the other's, and what is overwritten has been taken. `Over`: endindex is where the
frames that are left end. That the slots the consumer looks at have been read is in neither: it follows where
it locks them, since the reader is past every slot the consumer has locked.

**ServerRing.** The same for one record after the other, with a consumer that locks at most one slot more and
lets go of those before its place, locked or not: it goes wrong only where it slips, and `InOrder` ends there, as it does with `GaveUp`: a thread that has
ended a network stream early is never at work on it again, so what holds while `~GaveUp` is inductive.
Added are `Ready`, what both know between two records (the thread is done, `Quiet`, before it can be at the
first barrier; the ring is empty before the second), and that a record may end with nothing left in its last
slot (`Empty`). `Over` has the end of what is visible in it, because there the consumer's slot is no longer
bounded by the thread's.

**Only model-checked.** Liveness, and the fairness that is part of `ImplementsPipeline`: TLAPS cannot prove
them here. `NothingSkipped`, of which the hypotheses on a stream's first frame and on gaps are more than the
proof of `SentDataIntact` needs; `UdpReader`, whose properties hold of the losses of `McLosses` only. All
properties of `Muxer`, `Processing` and `ResultPath`: their data goes through folds, recursive operators
(`Muxer`) or tables made of a job.

## Not modelled

* Numerical work: unpacking, fringe rotation, transforms, phase shifts, calibration, the delay model
  (`model.cpp`), pulsar phases (`polyco.cpp`), switched power. Delays, bins and validity are inputs.
* Reading of text and writing of files: parsers of lines, DiFX records, ASCII output, messages.
* Devices and sockets: Streamstor and Mark 6 calls (`nativemk5.cpp`, `mark5utils.cpp`,
  `*mark6_datastream.cpp`), raw and TCP sockets, `peekfile`, tests for sync. The libraries are not in the
  repository. `vdifmark5.cpp` is not constructed by the program.
* The monitor thread, started only with a monitor server: hazard at `fxmanager.cpp` 838.
* Nanosecond arithmetic of integrations that are no whole number of subintegrations (`offsetns`).
* Allocation of scratch arrays when configurations change: the hazard at `core.cpp` 577 (and 2014).
* `DataMuxer::skipframes` and `resetcounters`: the second file of a multiplexed job.
* Scripts, test programs and the selection of vector libraries.

What would come next: a proof of `NothingSkipped`, a statement of which losses `UdpReader` withstands that could be
proved, and the monitor thread with the shutdown.
