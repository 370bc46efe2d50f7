------------------------------ MODULE SlotRing ------------------------------
(***************************************************************************)
(* The read buffer of a VDIFDataStream.  A reader thread, one per file,    *)
(* fills the slots of a ring with frames, and dataRead, in the thread that *)
(* fills the databuffer (the consumer), multiplexes them out of it.        *)
(*                                                                         *)
(* Mutex s of readthreadmutex protects slot s, and slot Slots - 1 as well  *)
(* when s = 0: reading begins at slot 1, and what the consumer has left of *)
(* the last slot is moved to the end of slot 0, in front of slot 1.  The   *)
(* consumer holds the mutexes of slots lockstart .. lockend, the reader    *)
(* that of the slot it reads into and takes the next before it gives it    *)
(* up.  slotMutexOwner, which no mutex protects, says who holds which.     *)
(*                                                                         *)
(* Places and times are counted in frames; frame j of a file is the one    *)
(* recorded j frames after its first.  vdifmux is modelled by how many     *)
(* frames it takes: one too few when frames are missing, one too many when *)
(* there are foreign ones.                                                 *)
(***************************************************************************)
EXTENDS Integers, Sequences, FiniteSets, FiniteSetsExt

CONSTANTS
  Slots,        \* readbufferslots
  SlotSize,     \* readbufferslotsize
  ReadSize,     \* readbytes: what one dataRead puts in the databuffer
  MinLeftOver,  \* minleftoverdata
  Extras,       \* what vdifmux takes beyond ReadSize
  Jumps,        \* frames skipped at the start of a file: the job is past them
  FileLists,    \* the lists of files there may be: a file is [start, length]
  BadFiles,     \* the files vdifmux may find nothing in, or fail on
  Scans,        \* the scans: [end, config]
  JobEnd        \* getExecuteSeconds()

(* A slot holds a little more than two reads (readbufferslotsize is 2.1    *)
(* times a segment).                                                       *)
ASSUME SlotsAssumption ==
  /\ Slots \in Nat /\ Slots >= 5
  /\ ReadSize \in Nat \ {0}
  /\ SlotSize \in Nat /\ SlotSize > 2 * ReadSize
  /\ MinLeftOver \in Nat
  /\ Extras \subseteq Int /\ \A extra \in Extras : ReadSize + extra >= 0
  /\ Jumps \subseteq Nat
ASSUME FilesAssumption ==
  /\ \A files \in FileLists : files \in Seq([start : Nat, length : Nat \ {0}])
  /\ BadFiles \subseteq Nat
  /\ Scans \in Seq([end : Nat, config : Nat \cup {-1}]) /\ Scans # << >>
  /\ JobEnd \in Nat

VARIABLES
  files,         \* datafilenames
  cpc,           \* where the consumer is
  lockstart,     \* the first and the last slot the consumer has locked,
  lockend,       \*   or -1: none yet, -2: no file
  muxindex,      \* where its next frame is
  n2,            \* the last slot the current dataRead looks at
  file,          \* the file that is open
  taken,         \* frames of it skipped or taken
  readtime,      \* readseconds, readnanoseconds: from the start of the job
  readscan,      \* readscan
  numread,       \* segments filled, as far as loopfileread cares
  dataremaining, keepreading,
  mutex,         \* mutex[s]: readthreadmutex[s] is locked
  owner,         \* slotMutexOwner[s]
  buf,           \* readbuffer: the time of each frame in it
  lastslot,      \* the slot the file ends in, and
  endindex,      \*   where
  writeslot,     \* readbufferwriteslot
  filepos,       \* frames read of the file
  rpc,           \* rpc[f]: where the reader thread of file f is
  curslot,       \* curslot[f]: the slot it has just read
  endofscan,     \* endofscan[f]
  overlap,       \* history: a reader was started before the last had ended
  lapped         \* history: a reader was back at slot 1 before the consumer
                 \*   had locked it for the first time

consumerVars == <<cpc, lockstart, lockend, muxindex, n2>>
fileVars == <<files, file, taken, readtime, readscan, numread, dataremaining,
              keepreading>>
lockVars == <<mutex, owner>>
readerVars == <<buf, lastslot, endindex, writeslot, filepos, rpc, curslot,
                endofscan, overlap, lapped>>
vars == <<consumerVars, fileVars, lockVars, readerVars>>

None == 0
Consumer == 1
Reader == 2
Junk == -1
lockmod == Slots - 1
RingSize == Slots * SlotSize
Readers == UNION {DOMAIN list : list \in FileLists}
NumScans == Len(Scans)
FileTime(f, j) == files[f].start + j
Running(f) == rpc[f] \notin {"none", "done"}

Init ==
  /\ files \in FileLists
  /\ cpc = "open"
  /\ lockstart = -2 /\ lockend = -2 /\ lastslot = -2
  /\ endindex = 0 /\ muxindex = 0 /\ n2 = 0
  /\ file = 0 /\ taken = 0 /\ filepos = 0
  /\ readtime = 0 /\ readscan = 1 /\ numread = 0
  /\ dataremaining = FALSE /\ keepreading = TRUE
  /\ mutex = [s \in 0 .. lockmod - 1 |-> FALSE]
  /\ owner = [s \in 0 .. lockmod - 1 |-> None]
  /\ buf = [i \in 0 .. RingSize - 1 |-> Junk]
  /\ writeslot = 1
  /\ rpc = [f \in Readers |-> "none"]
  /\ curslot = [f \in Readers |-> 0]
  /\ endofscan = [f \in Readers |-> FALSE]
  /\ overlap = FALSE /\ lapped = FALSE

-----------------------------------------------------------------------------
(* The locks.                                                              *)

lockSlot(slot, who) ==
  LET s == slot % lockmod IN
  /\ ~mutex[s]
  /\ mutex' = [mutex EXCEPT ![s] = TRUE]
  /\ owner' = [owner EXCEPT ![s] = who]

(* Unlocks whether or not the caller has the lock.  What is below slot 0 is *)
(* before the arrays, undefined in the code: no lock of the ring.          *)
unlockSlots(slots) ==
  LET S == {slot % lockmod : slot \in slots \cap Nat} IN
  /\ mutex' = [s \in DOMAIN mutex |-> mutex[s] /\ s \notin S]
  /\ owner' = [s \in DOMAIN owner |-> IF s \in S THEN None ELSE owner[s]]

KeepAllSlots(who) ==      \* mutant: nothing is unlocked
  UNCHANGED lockVars

unlockAllSlots(who) == unlockSlots({s \in DOMAIN owner : owner[s] = who})

-----------------------------------------------------------------------------
(* The consumer.                                                           *)

CGo(here, there) == cpc = here /\ cpc' = there

(* openfile: the files have run out.                                       *)
NoMoreFiles ==
  /\ CGo("open", "exit")
  /\ file = Len(files)
  /\ dataremaining' = FALSE /\ keepreading' = FALSE
  /\ UNCHANGED <<lockstart, lockend, muxindex, n2, files, file, taken, readtime,
                 readscan, numread, lockVars, readerVars>>

(* openfile, initialiseFile and startReaderThread.  The lock of slot 1 is  *)
(* taken in the name of the reader before there is one.                    *)
OpenFile ==
  /\ cpc = "open"
  /\ file < Len(files)
  /\ file' = file + 1
  /\ \E jump \in Jumps :
       /\ taken' = jump
       /\ filepos' = jump
       /\ readtime' = FileTime(file', jump)
       /\ dataremaining' = (jump < files[file'].length)
  /\ cpc' = IF dataremaining' THEN "read" ELSE "open"
  /\ lockstart' = -1 /\ lockend' = -1 /\ lastslot' = -1
  /\ writeslot' = 1
  /\ lockSlot(1, Reader)
  /\ rpc' = [rpc EXCEPT ![file'] = "top"]
  /\ overlap' = (overlap \/ \E f \in Readers : Running(f))
  /\ UNCHANGED <<muxindex, n2, files, readscan, numread, keepreading, buf, endindex,
                 curslot, endofscan, lapped>>

FirstRead ==
  /\ CGo("read", "lockfirst")
  /\ lockstart = -1
  /\ muxindex' = SlotSize
  /\ lockstart' = 1 /\ lockend' = 1
  /\ UNCHANGED <<n2, fileVars, lockVars, readerVars>>

LockFirst ==
  /\ CGo("lockfirst", "choose")
  /\ lockSlot(lockstart, Consumer)
  /\ UNCHANGED <<lockstart, lockend, muxindex, n2, fileVars, readerVars>>

LaterRead ==
  /\ CGo("read", "choose")
  /\ lockstart # -1
  /\ UNCHANGED <<lockstart, lockend, muxindex, n2, fileVars, lockVars, readerVars>>

(* The last slot wanted: that of the end of the file when it is less than  *)
(* a read away, of the end of the next read but one otherwise.             *)
LastWanted ==
  IF lastslot >= 0 /\ muxindex + ReadSize > endindex /\ muxindex < endindex
  THEN (endindex - 1) \div SlotSize
  ELSE (muxindex + 2 * ReadSize - 1) \div SlotSize

Choose ==
  /\ cpc = "choose"
  /\ n2' = LastWanted
  /\ cpc' = IF lockend < n2' THEN "lockmore" ELSE "mux"
  /\ UNCHANGED <<lockstart, lockend, muxindex, fileVars, lockVars, readerVars>>

LockNothing ==      \* mutant: the slot is read without its lock
  /\ cpc = "lockmore"
  /\ lockend' = lockend + 1
  /\ cpc' = IF lockend' < n2 THEN "lockmore" ELSE "mux"
  /\ UNCHANGED <<lockstart, muxindex, n2, fileVars, lockVars, readerVars>>

LockMore ==
  /\ cpc = "lockmore"
  /\ lockend' = lockend + 1
  /\ IF lockend' < 0 THEN UNCHANGED lockVars ELSE lockSlot(lockend', Consumer)
  /\ cpc' = IF lockend' < n2 THEN "lockmore" ELSE "mux"
  /\ UNCHANGED <<lockstart, muxindex, n2, fileVars, readerVars>>

muxend == IF lastslot = n2 THEN endindex ELSE (n2 + 1) * SlotSize
visible == muxend - muxindex

(* Nothing is visible: "this should never be".  The locks are kept.        *)
Weird ==
  /\ CGo("mux", "housekeep")
  /\ visible <= 0
  /\ dataremaining' = FALSE
  /\ UNCHANGED <<lockstart, lockend, muxindex, n2, files, file, taken, readtime,
                 readscan, numread, keepreading, lockVars, readerVars>>

(* vdifmux may find nothing, or fail, in a bad file, or when there is no   *)
(* more of the file and what it is shown is older.                         *)
NothingThere == file \in BadFiles \/ ~dataremaining

(* The file is taken to have ended: the locks are kept.                    *)
MuxNothing ==
  /\ CGo("mux", "housekeep")
  /\ visible > 0 /\ NothingThere
  /\ dataremaining' = FALSE
  /\ UNCHANGED <<lockstart, lockend, muxindex, n2, files, file, taken, readtime,
                 readscan, numread, keepreading, lockVars, readerVars>>

(* vdifmux fails: one lock is given up, the others are kept.               *)
MuxFails ==
  /\ CGo("mux", "housekeep")
  /\ visible > 0 /\ NothingThere
  /\ dataremaining' = FALSE
  /\ unlockSlots({lockend})
  /\ UNCHANGED <<lockstart, lockend, muxindex, n2, files, file, taken, readtime,
                 readscan, numread, keepreading, readerVars>>

EndOfFile(index) ==
  lastslot = n2 /\ (index + MinLeftOver > endindex \/ 4 * visible < ReadSize)

(* What is left in the last slot goes to the end of slot 0, whose lock is  *)
(* the same.                                                               *)
MoveDown(index) ==
  LET start == index % SlotSize IN
  /\ buf' = [i \in DOMAIN buf |->
               IF i \in start .. SlotSize - 1 THEN buf[i + (Slots - 1) * SlotSize]
               ELSE buf[i]]
  /\ muxindex' = start
  /\ lockstart' = 0 /\ lockend' = 0

(* The slots wholly used are given up, the last locked one excepted.       *)
Advance(index) ==
  LET from == Min({index \div SlotSize, lockend})
      first == Max({lockstart, from})
  IN
  /\ unlockSlots(lockstart .. first - 1)
  /\ IF first = Slots - 1 /\ lastslot # Slots - 1
     THEN MoveDown(index)
     ELSE /\ muxindex' = index /\ lockstart' = first
          /\ UNCHANGED <<lockend, buf>>

Mux ==
  /\ cpc = "mux"
  /\ visible > 0
  /\ \E extra \in Extras :
       LET used == Min({visible, ReadSize + extra})
           index == muxindex + used
       IN
       /\ taken' = taken + used
       /\ readtime' = FileTime(file, taken)
       /\ IF EndOfFile(index)
          THEN /\ cpc' = "housekeep"
               /\ dataremaining' = FALSE
               /\ unlockAllSlots(Consumer)
               /\ lockstart' = -2 /\ lockend' = -2 /\ muxindex' = index
               /\ UNCHANGED buf
          ELSE /\ UNCHANGED dataremaining
               /\ IF index = RingSize
                  THEN /\ cpc' = "wrap"
                       /\ muxindex' = SlotSize
                       /\ UNCHANGED <<lockstart, lockend, lockVars, buf>>
                  ELSE cpc' = "housekeep" /\ Advance(index)
  /\ UNCHANGED <<n2, files, file, readscan, numread, keepreading, lastslot, endindex,
                 writeslot, filepos, rpc, curslot, endofscan, overlap, lapped>>

(* The last slot was used up exactly: on with slot 1.                      *)
WrapAround ==
  /\ CGo("wrap", "housekeep")
  /\ ~mutex[1]
  /\ LET S == {slot % lockmod : slot \in lockstart .. Slots - 1} IN
     /\ mutex' = [s \in DOMAIN mutex |-> s = 1 \/ (mutex[s] /\ s \notin S)]
     /\ owner' = [s \in DOMAIN owner |->
                    IF s = 1 THEN Consumer ELSE IF s \in S THEN None ELSE owner[s]]
  /\ lockstart' = 1 /\ lockend' = 1
  /\ UNCHANGED <<muxindex, n2, fileVars, readerVars>>

(* diskToMemory, once dataRead has returned, and the loop it is called     *)
(* from, whose first three reads do not look at dataremaining.  "find next *)
(* valid schedule scan" goes on while getScanConfigIndex is not 0.         *)
NextScan ==
  LET k == {i \in readscan + 1 .. NumScans : Scans[i].config = 0} IN
  IF k = {} THEN NumScans + 1 ELSE Min(k)

NextTime == readtime + ReadSize
CrossScan == NextTime >= Scans[readscan].end

HouseKeep ==
  /\ cpc = "housekeep"
  /\ readtime' = NextTime
  /\ readscan' = IF NextTime < JobEnd /\ CrossScan THEN NextScan ELSE readscan
  /\ LET over == NextTime >= JobEnd \/ readscan' > NumScans IN
     /\ keepreading' = ~over
     /\ dataremaining' = (dataremaining /\ NextTime < JobEnd)
     /\ numread' = Min({3, numread + 1})
     /\ cpc' = CASE over -> IF lockstart >= 0 THEN "join" ELSE "exit"
                 [] ~over /\ (dataremaining \/ numread' < 3) -> "read"
                 [] OTHER -> "open"
     /\ IF over /\ lockstart >= 0
        THEN unlockAllSlots(Consumer)
        ELSE UNCHANGED lockVars
  /\ UNCHANGED <<lockstart, lockend, muxindex, n2, files, file, taken, readerVars>>

Join ==
  /\ CGo("join", "exit")
  /\ rpc[file] = "done"
  /\ lockstart' = -2 /\ lockend' = -2
  /\ UNCHANGED <<muxindex, n2, fileVars, lockVars, readerVars>>

ConsumerStep ==
  NoMoreFiles \/ OpenFile \/ FirstRead \/ LockFirst \/ LaterRead \/ Choose
    \/ LockMore \/ Weird \/ MuxNothing \/ MuxFails \/ Mux \/ WrapAround \/ HouseKeep \/ Join

-----------------------------------------------------------------------------
(* The reader of file f: readthreadfunction.                               *)

RGo(f, here, there) == rpc[f] = here /\ rpc' = [rpc EXCEPT ![f] = there]

(* The slot is neither the old data nor the new while it is being read.    *)
StartRead(f) ==
  /\ RGo(f, "top", "fill")
  /\ keepreading /\ ~endofscan[f]
  /\ buf' = [i \in DOMAIN buf |-> IF i \div SlotSize = writeslot THEN Junk ELSE buf[i]]
  /\ lapped' = (lapped \/ (writeslot = 1 /\ curslot[f] # 0
                            /\ (lockstart = -1 \/ cpc = "lockfirst")))
  /\ UNCHANGED <<consumerVars, fileVars, lockVars, lastslot, endindex, writeslot,
                 filepos, curslot, endofscan, overlap>>

Fill(f) ==
  LET left == IF filepos < files[file].length THEN files[file].length - filepos ELSE 0
      n == Min({SlotSize, left})
      base == writeslot * SlotSize
  IN
  /\ RGo(f, "fill", "lock")
  /\ buf' = [i \in DOMAIN buf |->
               IF i \in base .. base + n - 1 THEN FileTime(file, filepos + i - base)
               ELSE buf[i]]
  /\ filepos' = filepos + n
  /\ endofscan' = [endofscan EXCEPT ![f] = n < SlotSize]
  /\ lastslot' = IF n < SlotSize THEN writeslot ELSE lastslot
  /\ endindex' = IF n < SlotSize THEN base + n ELSE endindex
  /\ curslot' = [curslot EXCEPT ![f] = writeslot]
  /\ writeslot' = IF writeslot + 1 >= Slots THEN 1 ELSE writeslot + 1
  /\ UNCHANGED <<consumerVars, fileVars, lockVars, overlap, lapped>>

LockNext(f) ==
  /\ RGo(f, "lock", "unlock")
  /\ lockSlot(writeslot, Reader)
  /\ UNCHANGED <<consumerVars, fileVars, buf, lastslot, endindex, writeslot,
                 filepos, curslot, endofscan, overlap, lapped>>

UnlockThis(f) ==
  /\ RGo(f, "unlock", "top")
  /\ unlockSlots({curslot[f]})
  /\ UNCHANGED <<consumerVars, fileVars, buf, lastslot, endindex, writeslot,
                 filepos, curslot, endofscan, overlap, lapped>>

EndReader(f) ==
  /\ RGo(f, "top", "done")
  /\ ~keepreading \/ endofscan[f]
  /\ unlockAllSlots(Reader)
  /\ UNCHANGED <<consumerVars, fileVars, buf, lastslot, endindex, writeslot,
                 filepos, curslot, endofscan, overlap, lapped>>

ReaderStep(f) ==
  StartRead(f) \/ Fill(f) \/ LockNext(f) \/ UnlockThis(f) \/ EndReader(f)

(* A reader still waiting for a slot is left behind with the process.      *)
Finished ==
  /\ cpc = "exit"
  /\ UNCHANGED vars

Next == ConsumerStep \/ (\E f \in Readers : ReaderStep(f)) \/ Finished

Fairness ==
  /\ WF_vars(ConsumerStep)
  /\ \A f \in Readers : WF_vars(ReaderStep(f))

Spec == Init /\ [][Next]_vars /\ Fairness

-----------------------------------------------------------------------------
(* While the consumer has locked them, the frames vdifmux takes them from  *)
(* are those of the file from where the last call left off, without a gap  *)
(* and whatever the reader is doing, as long as the readers of two files   *)
(* do not overlap and no reader laps the ring before the first lock.  The  *)
(* first three reads go on after the end of a file.                        *)
Visible(i) == buf[muxindex + i] = FileTime(file, taken + i)

InOrder ==
  cpc = "mux" /\ dataremaining /\ ~overlap /\ ~lapped =>
    \A i \in 0 .. visible - 1 : taken + i < files[file].length => Visible(i)

(* The job is read to its end, or the reader would be joined for ever.     *)
Terminates == <>(cpc = "exit")
=============================================================================
