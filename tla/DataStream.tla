----------------------------- MODULE DataStream -----------------------------
(***************************************************************************)
(* A Datastream: a read thread fills a ring of NumSegments databuffer      *)
(* segments from files (loopfileread), from frames that a sender sends     *)
(* over a connection (loopnetworkread), or from nothing, for tests         *)
(* (loopfakeread), and the main thread (execute) sends the Cores the piece *)
(* of it that the FxManager asks for.                                      *)
(*                                                                         *)
(* Mutex bufferlock[s] protects segment s.  Main holds those of segments   *)
(* at and at + 1, the reader that of the segment it reads into.  A send is *)
(* not blocking: it stays outstanding, its data still in the ring, until   *)
(* the Core has taken it.  Main counts the sends posted from a segment in  *)
(* numsent[s], and the reader waits for numsent[s] = 0 before it reads     *)
(* into s, in a timed wait that polls (so no wake-up is ever lost, and     *)
(* outstandingsendlock, which nobody else takes, is left out).             *)
(*                                                                         *)
(* Time and place are counted in blocks.  A segment has SegBlocks blocks,  *)
(* a subintegration SendBlocks; block j of the data is the one recorded at *)
(* time j, delays included, so a subintegration may start anywhere in a    *)
(* segment and may run over into the next.                                 *)
(***************************************************************************)
EXTENDS Integers, Sequences, FiniteSets, FiniteSetsExt

CONSTANTS
  NumSegments,   \* numdatasegments
  SegBlocks,     \* readbytes (and nsinc), in blocks
  SendBlocks,    \* sendbytes (blockspersend), in blocks
  MaxSends,      \* maxsendspersegment
  FlagsPerInt,   \* FLAGS_PER_INT
  Scans,         \* the scans: [start, duration, config]
  Sources,       \* which of "file", "network" and "fake" data may come from
  Files,         \* the files: [start, length, opens]
  Frames         \* the frames sent, the same; one of which the header is
                 \* not understood does not open

(* configuration.cpp refuses fewer than 5 segments, and a segment holds a  *)
(* whole number of the largest sends.                                      *)
ASSUME SegmentsAssumption == NumSegments \in Nat /\ NumSegments >= 5
ASSUME BlocksAssumption ==
  /\ SendBlocks \in Nat \ {0}
  /\ SegBlocks \in {n * SendBlocks : n \in 1 .. SegBlocks}
  /\ FlagsPerInt \in Nat \ {0}
  /\ MaxSends \in Nat \ {0}
ASSUME ScansAssumption ==
  /\ Scans \in Seq([start : Nat, duration : Nat \ {0}, config : Nat])
  /\ Scans # << >>
  /\ \A k \in 1 .. Len(Scans) - 1 :
       Scans[k].start + Scans[k].duration <= Scans[k + 1].start
ASSUME FilesAssumption ==
  /\ Sources \subseteq {"file", "network", "fake"}
  /\ {Files, Frames} \subseteq Seq([start : Nat, length : Nat \ {0}, opens : BOOLEAN])

Segments == 0 .. NumSegments - 1
NumScans == Len(Scans)
Wrap(s) == s % NumSegments

(* The subintegrations the FxManager asks for, scan after scan.            *)
SubintEnd[k \in 0 .. NumScans] ==
  IF k = 0 THEN 0
  ELSE SubintEnd[k - 1] + ((Scans[k].duration + SendBlocks - 1) \div SendBlocks)
NumSubints == SubintEnd[NumScans]
SubintScan(n) == CHOOSE k \in 1 .. NumScans : SubintEnd[k - 1] <= n /\ n < SubintEnd[k]
SubintTime(n) ==
  LET k == SubintScan(n) IN Scans[k].start + (n - SubintEnd[k - 1]) * SendBlocks

VARIABLES
  source,        \* where data comes from: readfromfile, fake
  mpc,           \* where the main thread is
  asked,         \* the subintegration being, or next to be, asked for
  at,            \* atsegment
  wait,          \* waitsegment
  sends,         \* the sends that are outstanding
  numsent,       \* bufferinfo[s].numsent
  lock,          \* lock[s]: holder of bufferlock[s]
  scan,          \* bufferinfo[s].scan
  start,         \* bufferinfo[s].scanseconds, scanns: from the start of the job
  config,        \* bufferinfo[s].configindex
  valid,         \* bufferinfo[s].validbytes
  readto,        \* bufferinfo[s].readto
  data,          \* data[s][j]: the time of the data in block j of segment s
  overflow,      \* the same for the area past the last segment
  keepreading,   \* keepreading
  started,       \* readthreadstarted
  rpc,           \* where the read thread is
  last,          \* lastvalidsegment
  numread,       \* segments read, up to 3
  readscan,      \* readscan
  readtime,      \* readseconds, readnanoseconds: from the start of the job
  filesread,     \* files or frames opened or tried
  filepos,       \* blocks read of it: framebytesremaining is the rest
  dataremaining, \* dataremaining
  isnewfile,     \* isnewfile
  hungup         \* the sender has closed the connection inside a frame

infoVars == <<scan, start, config>>
segmentVars == <<valid, readto, data>>
fileVars == <<readscan, readtime, filesread, filepos, dataremaining, isnewfile, hungup>>
mainVars == <<source, mpc, asked, at, wait, sends, overflow>>
readerVars == <<rpc, last, numread, fileVars>>
vars == <<mainVars, numsent, lock, infoVars, segmentVars, keepreading, started,
          readerVars>>

Free == "free"
Main == "main"
Reader == "reader"
Junk == -1

MainSteps == {"init", "request", "check", "seek", "lockahead", "unlockbehind",
              "post", "invalid", "waitmax", "drain", "unlockat", "unlockahead",
              "join", "done"}
ReaderSteps == {"openfirst", "firstframe", "fill", "fillread", "locklast", "start", "outer",
                "inner", "lock", "unlockprev", "prepare", "read",
                "unlocklate", "nextfile", "exit", "end"}

Inputs == IF source = "network" THEN Frames ELSE Files

Sends == [subint : 0 .. NumSubints - 1, seg : Segments, pos : Int,
          flags : SUBSET (0 .. SendBlocks - 1), config : Nat]
Blocks == [0 .. SegBlocks - 1 -> Nat \cup {Junk}]

(* The positions, counters and flags of both threads are in range: the     *)
(* ring indices never leave the ring, no segment has more sends than it    *)
(* has MPI requests for, and nothing is read past a segment.               *)
TypeOK ==
  /\ mpc \in MainSteps
  /\ asked \in 0 .. NumSubints
  /\ at \in Segments
  /\ wait \in Segments
  /\ sends \subseteq Sends
  /\ numsent \in [Segments -> 0 .. MaxSends]
  /\ lock \in [Segments -> {Free, Main, Reader}]
  /\ scan \in [Segments -> 1 .. NumScans]
  /\ start \in [Segments -> Nat]
  /\ config \in [Segments -> Nat]
  /\ valid \in [Segments -> 0 .. SegBlocks]
  /\ readto \in [Segments -> BOOLEAN]
  /\ data \in [Segments -> Blocks]
  /\ overflow \in Blocks
  /\ keepreading \in BOOLEAN
  /\ started \in BOOLEAN
  /\ rpc \in ReaderSteps
  /\ last \in Segments
  /\ numread \in 0 .. 3
  /\ readscan \in 1 .. NumScans
  /\ readtime \in Nat
  /\ source \in Sources
  /\ filesread \in 0 .. Len(Inputs) + 1
  /\ filepos \in Nat
  /\ dataremaining \in BOOLEAN
  /\ isnewfile \in BOOLEAN
  /\ hungup \in BOOLEAN

Init ==
  /\ source \in Sources
  /\ mpc = "init"
  /\ asked = 0
  /\ at = 0
  /\ wait = 0
  /\ sends = {}
  /\ numsent = [s \in Segments |-> 0]
  /\ lock = [s \in Segments |-> IF s \in {0, 1} THEN Main ELSE Free]
  /\ scan = [s \in Segments |-> 1]
  /\ start = [s \in Segments |-> Scans[1].start]
  /\ config = [s \in Segments |-> Scans[1].config]
  /\ valid = [s \in Segments |-> 0]
  /\ readto = [s \in Segments |-> FALSE]
  /\ data = [s \in Segments |-> [j \in 0 .. SegBlocks - 1 |-> Junk]]
  /\ overflow = [j \in 0 .. SegBlocks - 1 |-> Junk]
  /\ keepreading = TRUE
  /\ started = FALSE
  /\ rpc = "openfirst"
  /\ last = 0
  /\ numread = 0
  /\ readscan = 1
  /\ readtime = Scans[1].start
  /\ filesread = 0
  /\ filepos = 0
  /\ dataremaining = FALSE
  /\ isnewfile = FALSE
  /\ hungup = FALSE

Acquire(who, s) == lock[s] = Free /\ lock' = [lock EXCEPT ![s] = who]
Release(s) == lock' = [lock EXCEPT ![s] = Free]

(***************************************************************************)
(* The main thread.                                                        *)
(***************************************************************************)
AllSent(s) == \A m \in sends : m.seg # s

(* How far the segment main is at is ahead of the one it has last seen all *)
(* sends completed from.                                                   *)
Ahead == Wrap(at - wait + NumSegments)
MustWait == at \in {Wrap(wait - 3 + NumSegments), Wrap(wait - 2 + NumSegments)}

(* Mutant: the segment that was waited for is not freed.                   *)
WaitAndKeep ==
  IF Ahead <= 2 THEN UNCHANGED <<wait, numsent>>
  ELSE IF AllSent(wait) THEN wait' = Wrap(wait + 1) /\ UNCHANGED numsent
       ELSE ~MustWait /\ UNCHANGED <<wait, numsent>>

(* waitForSendComplete: free the oldest segment if its sends are complete, *)
(* and wait for them if the ring is nearly full.                           *)
WaitForSendComplete ==
  IF Ahead <= 2 THEN UNCHANGED <<wait, numsent>>
  ELSE IF AllSent(wait)
       THEN /\ wait' = Wrap(wait + 1)
            /\ numsent' = [numsent EXCEPT ![wait] = 0]
       ELSE ~MustWait /\ UNCHANGED <<wait, numsent>>

Scan == SubintScan(asked)
Time == SubintTime(asked)

(* nsdifference, in blocks; it is only looked at within one scan.          *)
Offset == Time - start[at]

MGo(here, there) == mpc = here /\ mpc' = there

SeeStarted ==
  /\ MGo("init", "request")
  /\ started
  /\ UNCHANGED <<source, asked, at, wait, sends, overflow, numsent, lock, infoVars,
                 segmentVars, keepreading, started, readerVars>>

ReceiveRequest ==
  /\ MGo("request", "check")
  /\ asked < NumSubints
  /\ UNCHANGED <<source, asked, at, wait, sends, overflow, numsent, lock, infoVars,
                 segmentVars, keepreading, started, readerVars>>

(* calculateControlParams: the tests made before anything is locked.       *)
Check ==
  /\ mpc = "check"
  /\ IF Scan < scan[at]
     THEN mpc' = "invalid" /\ UNCHANGED <<wait, numsent>>
     ELSE /\ WaitForSendComplete
          /\ mpc' = IF readto[at] THEN "seek" ELSE "invalid"
  /\ UNCHANGED <<source, asked, at, sends, overflow, lock, infoVars, segmentVars,
                 keepreading, started, readerVars>>

(* Has the data asked for still to come, and will it?                      *)
Passed == Scan > scan[at] \/ (Scan = scan[at] /\ Offset >= valid[at])
MoreToCome == keepreading \/ at # last

Seek ==
  /\ MGo("seek", "lockahead")
  /\ Passed /\ MoreToCome
  /\ WaitForSendComplete
  /\ UNCHANGED <<source, asked, at, sends, overflow, lock, infoVars, segmentVars,
                 keepreading, started, readerVars>>

LockNothing ==      \* mutant: main goes on without the mutex
  /\ MGo("lockahead", "unlockbehind")
  /\ UNCHANGED <<source, asked, at, wait, sends, overflow, numsent, lock, infoVars,
                 segmentVars, keepreading, started, readerVars>>

LockAhead ==
  /\ MGo("lockahead", "unlockbehind")
  /\ Acquire(Main, Wrap(at + 2))
  /\ UNCHANGED <<source, asked, at, wait, sends, overflow, numsent, infoVars,
                 segmentVars, keepreading, started, readerVars>>

UnlockBehindUnwrapped ==      \* mutant: atsegment runs off the ring
  /\ MGo("unlockbehind", "seek")
  /\ Release(at)
  /\ at' = at + 1
  /\ UNCHANGED <<source, asked, wait, sends, overflow, numsent, infoVars, segmentVars,
                 keepreading, started, readerVars>>

UnlockBehind ==
  /\ MGo("unlockbehind", "seek")
  /\ Release(at)
  /\ at' = Wrap(at + 1)
  /\ UNCHANGED <<source, asked, wait, sends, overflow, numsent, infoVars, segmentVars,
                 keepreading, started, readerVars>>

(* The time of segment s within its scan, all that is compared with the    *)
(* next segment's.                                                         *)
InScan(s) == start[s] - Scans[scan[s]].start
NextSeg == Wrap(at + 1)
Contiguous == InScan(NextSeg) - InScan(at) = SegBlocks

(* The subintegration is wholly before the segment, or of another scan.    *)
OutOfReach == Scan # scan[at] \/ Offset < -SendBlocks

(* Blocks of the subintegration that are before the segment.               *)
Skipped == IF Offset < 0 THEN -Offset ELSE 0
Position == Offset + Skipped     \* bufferindex, in the segment

(* All of the rest is in the segment, or in it and the next.               *)
AllOk ==
  \/ valid[at] - Position >= SendBlocks
  \/ /\ valid[at] = SegBlocks
     /\ Contiguous
     /\ valid[at] - Position + valid[NextSeg] > SendBlocks

(* Mutant: the next segment is not looked at.                              *)
FlagsInSegment ==
  {i \in Skipped .. SendBlocks - 1 : Position + i < valid[at]}

(* The blocks flagged valid.                                               *)
Flags ==
  {i \in Skipped .. SendBlocks - 1 :
     \/ AllOk
     \/ Position + i < valid[at]
     \/ /\ valid[at] = SegBlocks
        /\ Contiguous
        /\ valid[at] - Position + valid[NextSeg] > i}

(* A partly valid subintegration is only sent if a valid block is found in *)
(* the words of flags that are full.  (The code's other early exits are    *)
(* taken only when no block is valid.)                                     *)
FullWords == (SendBlocks \div FlagsPerInt) * FlagsPerInt
SomeGoodData == AllOk \/ \E i \in Flags : i < FullWords

Found ==
  /\ mpc = "seek"
  /\ ~(Passed /\ MoreToCome)
  /\ mpc' = IF OutOfReach \/ ~SomeGoodData THEN "invalid" ELSE "post"
  /\ UNCHANGED <<source, asked, at, wait, sends, overflow, numsent, lock, infoVars,
                 segmentVars, keepreading, started, readerVars>>

(* MPI_Issend of data and control information, counted in numsent.         *)
Send(flags) ==
  /\ sends' = sends \cup {[subint |-> asked, seg |-> at, pos |-> Offset,
                           flags |-> flags, config |-> config[at]]}
  /\ numsent' = [numsent EXCEPT ![at] = @ + 1]
  /\ asked' = asked + 1
  /\ mpc' = IF numsent[at] + 1 = MaxSends THEN "waitmax" ELSE "request"
  /\ UNCHANGED <<source, at, wait, lock, infoVars, segmentVars, keepreading, started,
                 readerVars>>

(* INVALID_SUBINT: one byte is sent, from the start of the databuffer.     *)
PostInvalid ==
  /\ mpc = "invalid"
  /\ Send({})
  /\ UNCHANGED overflow

(* A send that runs off the end of the databuffer gets what it needs of    *)
(* segment 0 copied there first.                                           *)
Post ==
  /\ mpc = "post"
  /\ Send(Flags)
  /\ overflow' = IF at = NumSegments - 1 /\ Position + SendBlocks > SegBlocks
                 THEN [j \in DOMAIN overflow |->
                         IF j < Position + SendBlocks - SegBlocks
                         THEN data[0][j] ELSE overflow[j]]
                 ELSE overflow

(* A segment many requests are answered from runs out of MPI requests.     *)
WaitMax ==
  /\ MGo("waitmax", "request")
  /\ AllSent(at)
  /\ numsent' = [numsent EXCEPT ![at] = 0]
  /\ UNCHANGED <<source, asked, at, wait, sends, overflow, lock, infoVars,
                 segmentVars, keepreading, started, readerVars>>

ReceiveTerminate ==
  /\ MGo("request", "drain")
  /\ keepreading' = FALSE
  /\ UNCHANGED <<source, asked, at, wait, sends, overflow, numsent, lock, infoVars,
                 segmentVars, started, readerVars>>

(* Wait for the sends of the segments with any, in order ...               *)
Unsent == {s \in Segments : numsent[s] > 0}

Drain ==
  /\ mpc = "drain"
  /\ Unsent # {}
  /\ AllSent(Min(Unsent))
  /\ numsent' = [numsent EXCEPT ![Min(Unsent)] = 0]
  /\ UNCHANGED <<mainVars, lock, infoVars, segmentVars, keepreading, started,
                 readerVars>>

(* ... then give up the mutexes and wait for the read thread.              *)
Drained ==
  /\ MGo("drain", "unlockat")
  /\ Unsent = {}
  /\ UNCHANGED <<source, asked, at, wait, sends, overflow, numsent, lock, infoVars,
                 segmentVars, keepreading, started, readerVars>>

UnlockNext ==      \* mutant: the wrong mutex is given up
  /\ MGo("unlockat", "unlockahead")
  /\ Release(Wrap(at + 1))
  /\ UNCHANGED <<source, asked, at, wait, sends, overflow, numsent, infoVars,
                 segmentVars, keepreading, started, readerVars>>

UnlockAt ==
  /\ MGo("unlockat", "unlockahead")
  /\ Release(at)
  /\ UNCHANGED <<source, asked, at, wait, sends, overflow, numsent, infoVars,
                 segmentVars, keepreading, started, readerVars>>

UnlockAhead ==
  /\ MGo("unlockahead", "join")
  /\ Release(Wrap(at + 1))
  /\ UNCHANGED <<source, asked, at, wait, sends, overflow, numsent, infoVars,
                 segmentVars, keepreading, started, readerVars>>

Join ==
  /\ MGo("join", "done")
  /\ rpc = "end"
  /\ UNCHANGED <<source, asked, at, wait, sends, overflow, numsent, lock, infoVars,
                 segmentVars, keepreading, started, readerVars>>

MainStep ==
  \/ SeeStarted \/ Check \/ Seek \/ LockAhead \/ UnlockBehind \/ Found
  \/ PostInvalid \/ Post \/ WaitMax \/ Drain \/ Drained \/ UnlockAt
  \/ UnlockAhead \/ Join

(* A Core takes what it was sent.                                          *)
Taken(m) ==
  /\ sends' = sends \ {m}
  /\ UNCHANGED <<source, mpc, asked, at, wait, overflow, numsent, lock, infoVars,
                 segmentVars, keepreading, started, readerVars>>

(***************************************************************************)
(* The read thread.                                                        *)
(***************************************************************************)
ScanEnd(k) == Scans[k].start + Scans[k].duration

(* initialiseFile: on to the first scan that has not ended by time t, then *)
(* back to one that has started.                                           *)
ScanFrom(k, t) ==
  LET up == Min({j \in k .. NumScans : j = NumScans \/ ScanEnd(j) >= t})
  IN Max({j \in 1 .. up : j = 1 \/ Scans[j].start <= t})

(* openfile(filesread++).                                                  *)
Opened ==
  /\ isnewfile' = TRUE
  /\ filepos' = 0
  /\ readtime' = Inputs[filesread + 1].start
  /\ readscan' = ScanFrom(readscan, readtime')
OpenFile ==
  /\ filesread' = filesread + 1
  /\ IF filesread >= Len(Files)
     THEN /\ dataremaining' = FALSE
          /\ keepreading' = FALSE
          /\ UNCHANGED <<isnewfile, filepos, readtime, readscan>>
     ELSE IF ~Files[filesread + 1].opens
     THEN /\ dataremaining' = FALSE
          /\ UNCHANGED <<keepreading, isnewfile, filepos, readtime, readscan>>
     ELSE /\ dataremaining' = TRUE
          /\ Opened
          /\ UNCHANGED keepreading
  /\ UNCHANGED hungup

(* openframe: a header is read, if the sender has not closed before it.    *)
OpenFrame ==
  /\ filesread' = filesread + 1
  /\ IF filesread < Len(Frames) /\ Frames[filesread + 1].opens
     THEN Opened /\ UNCHANGED keepreading
     ELSE keepreading' = FALSE /\ UNCHANGED <<isnewfile, filepos, readtime, readscan>>
  /\ UNCHANGED <<dataremaining, hungup>>

RGo(here, there) == rpc = here /\ rpc' = there

OpenFirst ==
  /\ rpc = "openfirst"
  /\ OpenFile
  /\ rpc' = IF dataremaining' THEN "fill"
            ELSE IF keepreading' THEN "openfirst" ELSE "start"
  /\ UNCHANGED <<mainVars, numsent, lock, infoVars, segmentVars, started, last,
                 numread>>

(* openstream: a sender connects.                                          *)
OpenStream ==
  /\ RGo("openfirst", "firstframe")
  /\ UNCHANGED <<mainVars, numsent, lock, infoVars, segmentVars, keepreading,
                 started, last, numread, fileVars>>

(* The segments are read into even if the first frame could not be opened. *)
FirstFrame ==
  /\ RGo("firstframe", "fill")
  /\ OpenFrame
  /\ UNCHANGED <<mainVars, numsent, lock, infoVars, segmentVars, started, last,
                 numread>>

InitialiseFake ==
  /\ RGo("openfirst", "fill")
  /\ dataremaining' = TRUE
  /\ readscan' = 1
  /\ readtime' = Scans[1].start
  /\ UNCHANGED <<mainVars, numsent, lock, infoVars, segmentVars, keepreading,
                 started, last, numread, filesread, filepos, isnewfile, hungup>>

(* diskToMemory(s) first says what it will read (waitForBuffer) ...        *)
Prepare(s) ==
  /\ start' = [start EXCEPT ![s] = readtime]
  /\ scan' = [scan EXCEPT ![s] = readscan]
  /\ config' = [config EXCEPT ![s] = Scans[readscan].config]
  /\ UNCHANGED <<mainVars, numsent, lock, segmentVars, keepreading, started,
                 numread, fileVars>>

(* ... and then reads it, once all sends from the segment are complete.    *)
(* When the previous segment holds less than a send, and this one follows  *)
(* on it, some data is copied back: to its start, not to its end.          *)
Before(s) == Wrap(s - 1 + NumSegments)

ShortBefore(s) ==
  /\ readto[Before(s)]
  /\ valid[Before(s)] < SendBlocks
  /\ config[Before(s)] = config[s]
  /\ scan[Before(s)] = scan[s]
  /\ start[s] = start[Before(s)] + valid[Before(s)]

Filled(s, n, new, ends) ==
  LET back == Min({SegBlocks - valid[Before(s)], SendBlocks, n})
      old == data[Before(s)]
  IN /\ valid' = [valid EXCEPT ![s] = n]
     /\ data' = [data EXCEPT
                  ![s] = new,
                  ![Before(s)] = [j \in DOMAIN old |->
                    IF ShortBefore(s) /\ j < back
                    THEN new[j + valid[Before(s)]] ELSE old[j]]]
     /\ readtime' = readtime + SegBlocks
     /\ readscan' = IF readtime' >= ScanEnd(readscan) /\ readscan < NumScans
                    THEN readscan + 1 ELSE readscan
     /\ keepreading' =
          (keepreading /\ ~ends /\ (readtime' < ScanEnd(readscan) \/ readscan < NumScans))
     /\ UNCHANGED <<mainVars, numsent, lock, infoVars, started, filesread>>

(* What is left of the file or frame, and a segment when n blocks of it    *)
(* have been read into it.                                                 *)
Left ==
  IF filesread \in 1 .. Len(Inputs) /\ Inputs[filesread].opens
  THEN Inputs[filesread].length - filepos ELSE 0
Contents(s, n) ==
  [j \in 0 .. SegBlocks - 1 |->
     IF j < n THEN Inputs[filesread].start + filepos + j ELSE data[s][j]]

DiskToMemory(s) ==
  LET n == Min({SegBlocks, Left})
  IN /\ Filled(s, n, Contents(s, n), FALSE)
     /\ readto' = [readto EXCEPT ![s] = TRUE]
     /\ filepos' = filepos + n
     /\ dataremaining' = (dataremaining /\ n < Left)
     /\ UNCHANGED hungup

(* A fake segment is valid whatever is in it.                              *)
FakeToMemory(s) ==
  /\ Filled(s, SegBlocks, data[s], FALSE)
  /\ readto' = [readto EXCEPT ![s] = TRUE]
  /\ UNCHANGED <<filepos, dataremaining, hungup>>

(* networkToMemory: all of the segment or of the rest of the frame is      *)
(* waited for, unless the sender closes first.  What has come by then is   *)
(* in the segment, none of it valid: Junk will do for it.                  *)
JobEnd == ScanEnd(NumScans)    \* executeSeconds
ReadNetwork(s) ==
  LET n == Min({SegBlocks, Left})
  IN /\ ~hungup \/ n = 0
     /\ Filled(s, n, Contents(s, n), readtime + SegBlocks >= JobEnd)
     /\ readto' = [readto EXCEPT ![s] = TRUE]
     /\ filepos' = filepos + n
     /\ dataremaining' = (dataremaining /\ n < Left)
     /\ UNCHANGED hungup
HangUp(s) ==
  LET n == Min({SegBlocks, Left})
  IN /\ n > 0
     /\ Filled(s, 0, [j \in DOMAIN data[s] |-> IF j < n THEN Junk ELSE data[s][j]], TRUE)
     /\ hungup' = TRUE
     /\ UNCHANGED <<readto, filepos, dataremaining>>

Reading(s) ==
  \/ source = "file" /\ DiskToMemory(s)
  \/ source = "fake" /\ FakeToMemory(s)
  \/ source = "network" /\ (ReadNetwork(s) \/ HangUp(s))

(* Two segments are read before main is started, and a third after that.   *)
Fill ==
  /\ RGo("fill", "fillread")
  /\ Prepare(numread)
  /\ last' = IF source = "network" THEN numread ELSE last

FillRead ==
  /\ rpc = "fillread"
  /\ numsent[numread] = 0
  /\ Reading(numread)
  /\ numread' = numread + 1
  /\ rpc' = CASE numread = 0 -> "fill" [] numread = 1 -> "locklast"
              [] OTHER -> "outer"
  /\ last' = IF source = "fake" /\ numread = 2 THEN numread ELSE last
  /\ UNCHANGED isnewfile

LockLast ==
  /\ RGo("locklast", "start")
  /\ last' = IF source = "file" THEN numread ELSE last
  /\ Acquire(Reader, numread)
  /\ UNCHANGED <<mainVars, numsent, infoVars, segmentVars, keepreading, started,
                 numread, fileVars>>

Start ==
  /\ RGo("start", IF keepreading \/ source = "network" THEN "fill" ELSE "outer")
  /\ started' = TRUE
  /\ last' = IF source = "fake" /\ ~keepreading THEN numread - 1 ELSE last
  /\ UNCHANGED <<mainVars, numsent, lock, infoVars, segmentVars, keepreading,
                 numread, fileVars>>

Outer ==
  /\ RGo("outer", IF keepreading THEN "inner" ELSE "exit")
  /\ UNCHANGED <<mainVars, numsent, lock, infoVars, segmentVars, keepreading,
                 started, last, numread, fileVars>>

(* lastvalidsegment moves on before its mutex is asked for.                *)
MoreHere == IF source = "network" THEN Left > 0 ELSE dataremaining
Inner ==
  /\ rpc = "inner"
  /\ IF MoreHere /\ keepreading
     THEN rpc' = "lock" /\ last' = Wrap(last + 1)
     ELSE rpc' = (IF keepreading THEN "nextfile" ELSE "outer") /\ UNCHANGED last
  /\ UNCHANGED <<mainVars, numsent, lock, infoVars, segmentVars, keepreading,
                 started, numread, fileVars>>

(* The first segment of a new file is read with the one before still held. *)
Lock ==
  /\ RGo("lock", IF isnewfile THEN "prepare" ELSE "unlockprev")
  /\ Acquire(Reader, last)
  /\ UNCHANGED <<mainVars, numsent, infoVars, segmentVars, keepreading,
                 started, last, numread, fileVars>>

UnlockPrev ==
  /\ RGo("unlockprev", "prepare")
  /\ Release(Before(last))
  /\ UNCHANGED <<mainVars, numsent, infoVars, segmentVars, keepreading,
                 started, last, numread, fileVars>>

PrepareLast ==
  /\ RGo("prepare", "read")
  /\ Prepare(last)
  /\ UNCHANGED last

ReadLastAtOnce ==      \* mutant: the sends are not waited for
  /\ RGo("read", IF isnewfile THEN "unlocklate" ELSE "inner")
  /\ Reading(last)
  /\ UNCHANGED <<last, numread, isnewfile>>

ReadLast ==
  /\ RGo("read", IF isnewfile THEN "unlocklate" ELSE "inner")
  /\ numsent[last] = 0
  /\ Reading(last)
  /\ UNCHANGED <<last, numread, isnewfile>>

UnlockLate ==
  /\ RGo("unlocklate", "inner")
  /\ Release(Before(last))
  /\ isnewfile' = FALSE
  /\ UNCHANGED <<mainVars, numsent, infoVars, segmentVars, keepreading,
                 started, last, numread, readscan, readtime, filesread, filepos,
                 dataremaining, hungup>>

(* The next file is opened; the segment after the last one is given the    *)
(* configuration of the scan that comes next, whoever holds its mutex.     *)
NextFile ==
  /\ RGo("nextfile", "outer")
  /\ config' = [config EXCEPT ![Wrap(last + 1)] = Scans[readscan].config]
  /\ OpenFile
  /\ UNCHANGED <<mainVars, numsent, lock, scan, start, segmentVars, started,
                 last, numread>>

NextFrame ==
  /\ RGo("nextfile", "outer")
  /\ OpenFrame
  /\ config' = [config EXCEPT ![Wrap(last + 1)] = Scans[readscan'].config]
  /\ UNCHANGED <<mainVars, numsent, lock, scan, start, segmentVars, started,
                 last, numread>>

Exit ==
  /\ RGo("exit", "end")
  /\ IF numread > 0 THEN Release(last) ELSE UNCHANGED lock
  /\ UNCHANGED <<mainVars, numsent, infoVars, segmentVars, keepreading,
                 started, last, numread, fileVars>>

(* The three loops differ in where the data comes from.  Fake data never   *)
(* runs out, so loopfakeread's look for another file is never reached.     *)
Loop ==
  \/ Fill \/ FillRead \/ LockLast \/ Start \/ Outer \/ Inner \/ Lock
  \/ UnlockPrev \/ PrepareLast \/ ReadLast \/ UnlockLate \/ Exit
loopfileread == source = "file" /\ (OpenFirst \/ NextFile \/ Loop)
loopnetworkread ==
  source = "network" /\ (OpenStream \/ FirstFrame \/ NextFrame \/ Loop)
loopfakeread == source = "fake" /\ (InitialiseFake \/ Loop)
ReaderStep == loopfileread \/ loopnetworkread \/ loopfakeread

Finished ==
  /\ mpc = "done"
  /\ UNCHANGED vars

Next ==
  \/ MainStep
  \/ ReceiveRequest
  \/ ReceiveTerminate
  \/ \E m \in sends : Taken(m)
  \/ ReaderStep
  \/ Finished

Fairness ==
  /\ WF_vars(MainStep)
  /\ WF_vars(ReceiveRequest \/ ReceiveTerminate)
  /\ WF_vars(\E m \in sends : Taken(m))
  /\ WF_vars(ReaderStep)

Spec == Init /\ [][Next]_vars /\ Fairness
-----------------------------------------------------------------------------
(***************************************************************************)
(* Properties.                                                             *)
(***************************************************************************)
(* What the Core gets as block i of the data of send m: what is in the     *)
(* ring at the time it takes it.                                           *)
Got(m, i) ==
  LET p == m.pos + i
  IN IF p < SegBlocks THEN data[m.seg][p]
     ELSE IF m.seg = NumSegments - 1 THEN overflow[p - SegBlocks]
     ELSE data[m.seg + 1][p - SegBlocks]

(* As long as a send is outstanding every block of it that is flagged      *)
(* valid is the data recorded at that block's time: the right place was    *)
(* found, in one segment or across two, and the read thread has not read   *)
(* over it.  (There is no telling what fake data is.)                      *)
SentDataIntact ==
  source # "fake" =>
    \A m \in sends : \A i \in m.flags : Got(m, i) = SubintTime(m.subint) + i

(* The segments main looks at are not being read into.                     *)
SegmentExclusion ==
  /\ rpc \in {"prepare", "read", "fill", "fillread"}
  /\ mpc \notin {"init", "unlockat", "unlockahead", "join", "done"}
  => (IF rpc \in {"prepare", "read"} THEN last ELSE numread)
        \notin {at, Wrap(at + 1)}

(* Subintegration n is on one file or frame, and the segment it starts in  *)
(* is all after the scan before.  Fake data is as good as one long file.   *)
OnInput(n, f) ==
  LET t == SubintTime(n) - f.start
      k == SubintScan(n)
  IN /\ f.opens
     /\ t >= 0
     /\ t + SendBlocks <= f.length
     /\ k > 1 => f.start + (t \div SegBlocks) * SegBlocks >= ScanEnd(k - 1)
OnFile(n) ==
  IF source = "fake"
  THEN OnInput(n, [start |-> Scans[1].start, length |-> JobEnd, opens |-> TRUE])
  ELSE \E f \in 1 .. Len(Inputs) : OnInput(n, Inputs[f])

(* A subintegration that is on one file or frame, and does not start in    *)
(* the segment in which the scan before ended, is sent whole:              *)
(* calculateControlParams neither gives up on it nor flags a block of it   *)
(* invalid, unless the sender has hung up.                                 *)
NothingSkipped ==
  ~hungup => \A m \in sends : \A i \in 0 .. SendBlocks - 1 :
    /\ OnFile(m.subint)
    /\ SubintTime(m.subint) + i < ScanEnd(SubintScan(m.subint))
    => i \in m.flags

(* Told to terminate, the Datastream does.                                 *)
Terminates == mpc = "drain" ~> mpc = "done"

(* Every request is answered: the two threads never wait for each other,   *)
(* main for the mutex of a segment the reader holds while that waits for   *)
(* main to see its sends completed, and no Core is waited for in vain.     *)
Answers == mpc = "check" ~> mpc = "request"
=============================================================================
