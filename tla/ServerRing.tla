----------------------------- MODULE ServerRing -----------------------------
(***************************************************************************)
(* The read buffer of a Mark5BMark5DataStream (kind "mark5") and of a      *)
(* VDIFNetworkDataStream (kind "network").  Unlike that of SlotRing, the   *)
(* thread that fills it lives as long as the datastream: it serves one     *)
(* scan after the other, and a barrier that the consumer and the thread    *)
(* pass twice before each lets the thread lock slot 1 first.  The          *)
(* destructor passes the barrier the same way to stop it.                  *)
(*                                                                         *)
(* mutex[s] says who has locked the mutex of slot s (and of slot Slots - 1 *)
(* when s = 0); anyone may unlock it.  Places and times are counted in     *)
(* frames, and a record is a scan of the module or what the network sends. *)
(***************************************************************************)
EXTENDS Integers, Sequences, FiniteSets, FiniteSetsExt

CONSTANTS
  Slots,         \* readbufferslots
  SlotSize,      \* readbufferslotsize
  ReadSize,      \* readbytes: what one dataRead puts in the databuffer
  MinLeftOver,   \* minleftoverdata
  Extras,        \* what mark5bfix or vdifmux takes beyond ReadSize
  Modules,       \* the directories there may be: sequences of [start, length]
  Sends,         \* how many frames the network may send
  Scans,         \* the schedule: [end, config]
  JobEnd,        \* getExecuteSeconds()
  Fails          \* the ways a read off the module may fail

ASSUME RingAssumption ==
  /\ Slots \in Nat /\ Slots >= 5
  /\ ReadSize \in Nat \ {0}
  /\ SlotSize \in Nat /\ SlotSize > 2 * ReadSize
  /\ MinLeftOver \in Nat \ {0}
  /\ Extras \subseteq Int /\ \A extra \in Extras : ReadSize + extra >= 0
  /\ JobEnd \in Nat
  /\ Fails \subseteq {"dma", "other"}
ASSUME RecordsAssumption ==
  /\ Modules \subseteq Seq([start : Int, length : Nat])
  /\ Sends \subseteq Nat
  /\ Scans \in Seq([end : Int, config : Int])

VARIABLES
  kind, directory, sends,
  cpc,                     \* where the consumer is
  lockstart, lockend,      \* the first and the last slot it has locked
  muxindex,                \* fixindex, muxindex: its next frame
  n2,                      \* the last slot the current dataRead looks at
  numread,                 \* segments filled, as far as loopfileread cares
  scanNum,                 \* the record being read, 0 before the first
  taken,                   \* frames of it taken
  readtime, readscan,
  dataremaining, keepreading,
  threadstop,              \* mark5threadstop, networkthreadstop
  xlrfail,                 \* mark5xlrfail
  mutex, buf, lastslot, endindex,
  writeslot,               \* readbufferwriteslot
  readpointer,             \* frames of the record read
  readend,
  tpc,                     \* where the thread is
  curslot,                 \* the slot it has just filled
  endofscan,
  nBadReadStatus,
  lapped,                  \* history: the thread was back at slot 1 before
                           \*   the consumer had locked it
  slipped                  \* history: the consumer went on into a slot it
                           \*   had not locked

constVars == <<kind, directory, sends>>
consumerVars == <<cpc, lockstart, lockend, muxindex, n2, numread, taken,
                  slipped>>
scanVars == <<scanNum, readtime, readscan, threadstop>>
flagVars == <<dataremaining, keepreading>>
threadVars == <<lastslot, endindex, writeslot, tpc, curslot, endofscan,
                nBadReadStatus, lapped, xlrfail>>
posVars == <<readpointer, readend>>
vars == <<constVars, consumerVars, scanVars, flagVars, mutex, buf, threadVars,
          posVars>>

None == 0
Consumer == 1
Thread == 2
Junk == -1
lockmod == Slots - 1
RingSize == Slots * SlotSize
NumScans == Len(Scans)
Records == IF kind = "network" THEN << [start |-> 0, length |-> sends] >>
           ELSE directory
FrameTime(j) == Records[scanNum].start + j

(* Nothing gives dataremaining a value before a network stream is open.    *)
Init ==
  /\ \/ kind = "mark5" /\ directory \in Modules /\ sends = 0
     \/ kind = "network" /\ directory = << >> /\ sends \in Sends
  /\ cpc = "open" /\ tpc = "bar1"
  /\ lockstart = -2 /\ lockend = -2 /\ lastslot = -2
  /\ endindex = 0 /\ muxindex = 0 /\ n2 = 0 /\ numread = 0
  /\ scanNum = 0 /\ taken = 0 /\ readpointer = 0 /\ readend = 0
  /\ readtime = 0 /\ readscan = 1
  /\ dataremaining \in BOOLEAN /\ (kind = "mark5" => ~dataremaining)
  /\ keepreading = TRUE /\ threadstop = FALSE /\ xlrfail = FALSE
  /\ mutex = [s \in 0 .. lockmod - 1 |-> None]
  /\ buf = [i \in 0 .. RingSize - 1 |-> Junk]
  /\ writeslot = 1 /\ curslot = 0
  /\ endofscan = FALSE /\ nBadReadStatus = 0
  /\ lapped = FALSE /\ slipped = FALSE

lock(slot, who) ==
  /\ mutex[slot % lockmod] = None
  /\ mutex' = [mutex EXCEPT ![slot % lockmod] = who]

(* After the end of a record lockstart is -2, and the code may unlock what  *)
(* is before the array: no mutex of the ring.                              *)
unlock(slots) ==
  mutex' = [s \in DOMAIN mutex |->
              IF s \in {slot % lockmod : slot \in slots \cap Nat} THEN None ELSE mutex[s]]

-----------------------------------------------------------------------------
(* The consumer: openfile and initialiseFile.                              *)

CGo(here, there) == cpc = here /\ cpc' = there

(* The first record that ends after the start of the job; later ones in    *)
(* the order of the directory.                                             *)
FirstScan == {k \in 1 .. Len(Records) : Records[k].start + Records[k].length > 0
                                          /\ Records[k].start < JobEnd}

NextRecord ==
  IF scanNum = 0
  THEN IF FirstScan = {} THEN 0 ELSE Min(FirstScan)
  ELSE IF scanNum < Len(Records) /\ Records[scanNum + 1].start <= JobEnd
       THEN scanNum + 1 ELSE 0

OpenRecord ==
  /\ CGo("open", "bar1")
  /\ NextRecord # 0
  /\ kind = "network" => scanNum = 0
  /\ scanNum' = NextRecord
  /\ readtime' = Records[scanNum'].start
  /\ taken' = 0 /\ readpointer' = 0 /\ readend' = Records[scanNum'].length
  /\ dataremaining' = (dataremaining \/ kind = "mark5")
  /\ lockstart' = -1 /\ lockend' = -1 /\ lastslot' = -1
  /\ UNCHANGED <<constVars, muxindex, n2, numread, slipped, readscan, threadstop,
                 keepreading, mutex, buf, endindex, writeslot, tpc, curslot,
                 endofscan, nBadReadStatus, lapped, xlrfail>>

(* The module has no more for this job: the thread is told to stop here    *)
(* and then.                                                               *)
NoMoreRecords ==
  /\ CGo("open", "leave")
  /\ kind = "mark5" /\ NextRecord = 0
  /\ dataremaining' = FALSE /\ keepreading' = FALSE
  /\ threadstop' = TRUE
  /\ UNCHANGED <<constVars, lockstart, lockend, muxindex, n2, numread, taken,
                 slipped, scanNum, readtime, readscan, mutex, buf, threadVars, posVars>>

(* A network stream is not opened again.                                   *)
StreamEnded ==
  /\ CGo("open", "leave")
  /\ kind = "network" /\ scanNum # 0
  /\ dataremaining' = FALSE /\ keepreading' = FALSE
  /\ UNCHANGED <<constVars, lockstart, lockend, muxindex, n2, numread, taken,
                 slipped, scanVars, mutex, buf, threadVars, posVars>>

(* Both are at the barrier, the first time and the second.                 *)
Meet(here, there, tthere) ==
  /\ tpc = here /\ tpc' = tthere
  /\ cpc \in {here, IF here = "bar1" THEN "dtor1" ELSE "dtor2"}
  /\ cpc' = CASE cpc = here -> there
              [] cpc = "dtor1" -> "dtor2"
              [] cpc = "dtor2" -> "join"
  /\ threadstop' = (threadstop \/ cpc = "dtor1")
  /\ UNCHANGED <<constVars, lockstart, lockend, muxindex, n2, numread, taken,
                 slipped, scanNum, readtime, readscan, flagVars, mutex, buf,
                 lastslot, endindex, writeslot, curslot, endofscan,
                 nBadReadStatus, lapped, xlrfail, posVars>>

Barrier1 == Meet("bar1", "bar2", "arm")
Barrier2 == Meet("bar2", "begin", "top")

(* Only now, with the thread at work, does a network stream set its flag.  *)
BeginReading ==
  /\ cpc = "begin"
  /\ cpc' = IF keepreading THEN "read" ELSE "leave"
  /\ dataremaining' = (dataremaining \/ kind = "network")
  /\ UNCHANGED <<constVars, lockstart, lockend, muxindex, n2, numread, taken,
                 slipped, scanVars, keepreading, mutex, buf, threadVars, posVars>>

-----------------------------------------------------------------------------
(* The consumer: dataRead.                                                 *)

FirstRead ==
  /\ CGo("read", "lockfirst")
  /\ lockstart = -1
  /\ muxindex' = SlotSize
  /\ lockstart' = 1 /\ lockend' = 1
  /\ UNCHANGED <<constVars, n2, numread, taken, slipped, scanVars, flagVars,
                 mutex, buf, threadVars, posVars>>

(* The reading has failed: the locks are given up.                         *)
StopReading(slots) ==
  /\ cpc' = "leave"
  /\ dataremaining' = FALSE /\ keepreading' = FALSE
  /\ unlock(slots)
  /\ lockstart' = -2 /\ lockend' = -2

LockFirst ==
  /\ cpc = "lockfirst"
  /\ IF xlrfail
     THEN mutex[1] = None /\ StopReading({})
     ELSE /\ cpc' = "choose"
          /\ lock(1, Consumer)
          /\ UNCHANGED <<flagVars, lockstart, lockend>>
  /\ UNCHANGED <<constVars, muxindex, n2, numread, taken, slipped, scanVars, buf,
                 threadVars, posVars>>

LaterRead ==
  /\ CGo("read", "choose")
  /\ lockstart # -1
  /\ UNCHANGED <<constVars, lockstart, lockend, muxindex, n2, numread, taken,
                 slipped, scanVars, flagVars, mutex, buf, threadVars, posVars>>

LastWanted ==
  IF lastslot >= 0 /\ muxindex + ReadSize > endindex /\ muxindex < endindex
  THEN (endindex - 1) \div SlotSize
  ELSE (muxindex + ReadSize - 1) \div SlotSize

(* At most one slot more is locked, and only when the read needs two.      *)
Choose ==
  /\ cpc = "choose"
  /\ n2' = LastWanted
  /\ IF n2' > muxindex \div SlotSize /\ lockend # n2'
     THEN cpc' = "lockmore" /\ lockend' = n2'
     ELSE cpc' = "fix" /\ UNCHANGED lockend
  /\ UNCHANGED <<constVars, lockstart, muxindex, numread, taken, slipped,
                 scanVars, flagVars, mutex, buf, threadVars, posVars>>

LockMore ==
  /\ cpc = "lockmore"
  /\ IF xlrfail
     THEN mutex[lockend % lockmod] = None /\ StopReading({lockstart})
     ELSE /\ cpc' = "fix"
          /\ lock(lockend, Consumer)
          /\ UNCHANGED <<flagVars, lockstart, lockend>>
  /\ UNCHANGED <<constVars, muxindex, n2, numread, taken, slipped, scanVars, buf,
                 threadVars, posVars>>

muxend == IF lastslot = n2 THEN endindex ELSE (n2 + 1) * SlotSize
visible == muxend - muxindex

(* Nothing is visible: "this should never be".  The network stream ends,   *)
(* the module is asked again.                                              *)
Weird ==
  /\ CGo("fix", "housekeep")
  /\ visible <= 0
  /\ dataremaining' = (dataremaining /\ kind = "mark5")
  /\ UNCHANGED <<constVars, lockstart, lockend, muxindex, n2, numread, taken,
                 slipped, scanVars, keepreading, mutex, buf, threadVars, posVars>>

(* vdifmux finds nothing or fails: the locks are kept.                     *)
MuxFails ==
  /\ CGo("fix", "housekeep")
  /\ visible > 0 /\ kind = "network"
  /\ dataremaining' = FALSE
  /\ UNCHANGED <<constVars, lockstart, lockend, muxindex, n2, numread, taken,
                 slipped, scanVars, keepreading, mutex, buf, threadVars, posVars>>

EndOfScan(index) ==
  lastslot = n2 /\ (index + MinLeftOver > endindex \/ 4 * visible < ReadSize)

MoveTooFew(index) ==      \* mutant: the last frame is not moved
  LET start == index % SlotSize IN
  /\ buf' = [i \in DOMAIN buf |->
               IF i \in start .. SlotSize - 2 THEN buf[i + (Slots - 1) * SlotSize]
               ELSE buf[i]]
  /\ muxindex' = start
  /\ lockstart' = 0 /\ lockend' = 0

(* The rest of the last slot goes to the end of slot 0.                    *)
MoveDown(index) ==
  LET start == index % SlotSize IN
  /\ buf' = [i \in DOMAIN buf |->
               IF i \in start .. SlotSize - 1 THEN buf[i + (Slots - 1) * SlotSize]
               ELSE buf[i]]
  /\ muxindex' = start
  /\ lockstart' = 0 /\ lockend' = 0

(* The slots before the next frame are given up, locked or not.            *)
Advance(index) ==
  LET first == Max({lockstart, index \div SlotSize}) IN
  /\ unlock(lockstart .. first - 1)
  /\ slipped' = (slipped \/ first > lockend)
  /\ IF first = Slots - 1 /\ lastslot # Slots - 1
     THEN MoveDown(index)
     ELSE muxindex' = index /\ lockstart' = first /\ UNCHANGED <<lockend, buf>>

Fix ==
  /\ cpc = "fix"
  /\ visible > 0
  /\ \E extra \in Extras :
       LET used == Min({visible, ReadSize + extra})
           index == muxindex + used
       IN
       /\ taken' = taken + used
       /\ readtime' = FrameTime(taken)
       /\ IF EndOfScan(index)
          THEN /\ cpc' = "housekeep"
               /\ dataremaining' = FALSE
               /\ unlock({lockstart, lockend})
               /\ lockstart' = -2 /\ lockend' = -2 /\ muxindex' = index
               /\ UNCHANGED <<buf, slipped>>
          ELSE /\ UNCHANGED dataremaining
               /\ IF index = RingSize
                  THEN /\ cpc' = "wrap"
                       /\ muxindex' = SlotSize
                       /\ UNCHANGED <<lockstart, lockend, mutex, buf, slipped>>
                  ELSE cpc' = "housekeep" /\ Advance(index)
  /\ UNCHANGED <<constVars, n2, numread, scanNum, readscan, threadstop,
                 keepreading, threadVars, posVars>>

WrapAround ==
  /\ CGo("wrap", "housekeep")
  /\ mutex[1] = None
  /\ mutex' = [s \in DOMAIN mutex |->
                 IF s = 1 THEN Consumer
                 ELSE IF s \in {slot % lockmod : slot \in lockstart .. Slots - 1}
                 THEN None ELSE mutex[s]]
  /\ lockstart' = 1 /\ lockend' = 1
  /\ UNCHANGED <<constVars, muxindex, n2, numread, taken, slipped, scanVars,
                 flagVars, buf, threadVars, posVars>>

(* diskToMemory after dataRead, and the loop it is called from.  Only the  *)
(* network stream looks at the end of the job; the first three reads do    *)
(* not look at dataremaining.                                              *)
NextScan ==
  LET k == {i \in readscan + 1 .. NumScans : Scans[i].config = 0} IN
  IF k = {} THEN NumScans + 1 ELSE Min(k)

NextTime == readtime + ReadSize
PastJob == kind = "network" /\ NextTime >= JobEnd

(* At the end of the job a network stream does what VDIFDataStream does:   *)
(* it forgets its locks, unlocks mutexes of the base class that nobody     *)
(* uses, and joins a thread the base class never started, which is         *)
(* undefined: the call returns or the process dies.                        *)
HouseKeep ==
  /\ cpc = "housekeep"
  /\ readtime' = NextTime
  /\ readscan' = IF NextTime >= Scans[readscan].end /\ keepreading /\ ~PastJob
                 THEN NextScan ELSE readscan
  /\ keepreading' = (keepreading /\ ~PastJob /\ readscan' <= NumScans)
  /\ dataremaining' = (dataremaining /\ ~PastJob)
  /\ numread' = Min({3, numread + 1})
  /\ LET joins == /\ kind = "network" /\ lockstart >= 0
                  /\ PastJob \/ readscan' > NumScans
         here == CASE ~keepreading' -> "leave"
                   [] keepreading' /\ (dataremaining' \/ numread' < 3) -> "read"
                   [] OTHER -> "open"
     IN
     /\ cpc' \in {here} \cup (IF joins THEN {"dead"} ELSE {})
     /\ lockstart' = IF joins THEN -2 ELSE lockstart
     /\ lockend' = IF joins THEN -2 ELSE lockend
  /\ UNCHANGED <<constVars, muxindex, n2, taken, slipped, scanNum, threadstop,
                 mutex, buf, threadVars, posVars>>

(* The end of loopfileread or loopnetworkread: one slot is unlocked.       *)
Leave ==
  /\ CGo("leave", "ended")
  /\ unlock(IF lockstart >= 0 THEN {lockstart} ELSE {})
  /\ UNCHANGED <<constVars, lockstart, lockend, muxindex, n2, numread, taken,
                 slipped, scanVars, flagVars, buf, threadVars, posVars>>

(* The destructor passes the barrier twice and joins the thread.  It sets   *)
(* networkthreadstop before, mark5threadstop between the two times.        *)
Destroy ==
  /\ CGo("ended", "dtor1")
  /\ threadstop' = (threadstop \/ kind = "network")
  /\ UNCHANGED <<constVars, lockstart, lockend, muxindex, n2, numread, taken,
                 slipped, scanNum, readtime, readscan, flagVars, mutex, buf,
                 threadVars, posVars>>

Join ==
  /\ CGo("join", "gone")
  /\ tpc = "exit"
  /\ UNCHANGED <<constVars, lockstart, lockend, muxindex, n2, numread, taken,
                 slipped, scanVars, flagVars, mutex, buf, threadVars, posVars>>

ConsumerStep ==
  OpenRecord \/ NoMoreRecords \/ StreamEnded \/ BeginReading \/ FirstRead
    \/ LockFirst \/ LaterRead \/ Choose \/ LockMore \/ Weird \/ MuxFails \/ Fix
    \/ WrapAround \/ HouseKeep \/ Leave \/ Destroy \/ Join

-----------------------------------------------------------------------------
(* The thread: mark5threadfunction, networkthreadfunction.                 *)

TGo(here, there) == tpc = here /\ tpc' = there

Arm ==
  /\ TGo("arm", "bar2")
  /\ writeslot' = 1
  /\ lock(1, Thread)
  /\ UNCHANGED <<constVars, consumerVars, scanVars, flagVars, buf, lastslot,
                 endindex, curslot, endofscan, nBadReadStatus, lapped, xlrfail, posVars>>

(* mark5threadstop ends the loop before it begins.                         *)
Stopped ==
  /\ TGo("top", "unlock")
  /\ threadstop
  /\ UNCHANGED <<constVars, consumerVars, scanVars, flagVars, mutex, buf,
                 lastslot, endindex, writeslot, curslot, endofscan,
                 nBadReadStatus, lapped, xlrfail, posVars>>

(* Nothing is left to read: not expected.                                  *)
PastEnd ==
  /\ TGo("top", "unlock")
  /\ ~threadstop /\ kind = "mark5"
  /\ readpointer >= readend
  /\ lastslot' = writeslot
  /\ endindex' = writeslot * SlotSize
  /\ UNCHANGED <<constVars, consumerVars, scanVars, flagVars, mutex, buf,
                 writeslot, curslot, endofscan, nBadReadStatus, lapped, xlrfail, posVars>>

StartRead ==
  /\ TGo("top", "fill")
  /\ ~threadstop
  /\ kind = "mark5" => readpointer < readend
  /\ buf' = [i \in DOMAIN buf |-> IF i \div SlotSize = writeslot THEN Junk ELSE buf[i]]
  /\ lapped' = (lapped \/ (writeslot = 1 /\ readpointer > 0
                            /\ (lockstart = -1 \/ cpc = "lockfirst")))
  /\ endofscan' = FALSE
  /\ UNCHANGED <<constVars, consumerVars, scanVars, flagVars, mutex, lastslot,
                 endindex, writeslot, curslot, nBadReadStatus, xlrfail, posVars>>

(* n frames arrive in the slot; the scan ends in it when last.             *)
Store(n, last) ==
  LET base == writeslot * SlotSize IN
  /\ buf' = [i \in DOMAIN buf |->
               IF i \in base .. base + n - 1 THEN FrameTime(readpointer + i - base)
               ELSE buf[i]]
  /\ readpointer' = readpointer + n
  /\ endofscan' = last
  /\ lastslot' = IF last THEN writeslot ELSE lastslot
  /\ endindex' = IF last THEN base + n ELSE endindex
  /\ curslot' = writeslot
  /\ writeslot' = IF writeslot + 1 >= Slots THEN 1 ELSE writeslot + 1

FillFromModule ==
  /\ TGo("fill", "lock")
  /\ kind = "mark5"
  /\ LET last == readpointer + SlotSize >= readend IN
     Store(IF last THEN readend - readpointer ELSE SlotSize, last)
  /\ UNCHANGED <<constVars, consumerVars, scanVars, flagVars, mutex,
                 nBadReadStatus, lapped, xlrfail, readend>>

(* The read fails, and the thread returns with the slot locked.            *)
FailRead ==
  /\ TGo("fill", "exit")
  /\ kind = "mark5"
  /\ \/ "dma" \in Fails /\ UNCHANGED <<flagVars, xlrfail>>
     \/ /\ "other" \in Fails
        /\ dataremaining' = FALSE /\ keepreading' = FALSE /\ xlrfail' = TRUE
  /\ UNCHANGED <<constVars, consumerVars, scanVars, mutex, buf, lastslot,
                 endindex, writeslot, curslot, endofscan, nBadReadStatus, lapped, posVars>>

(* A part of a slot ends the scan.                                         *)
FillFromNetwork ==
  /\ TGo("fill", "lock")
  /\ kind = "network" /\ readpointer < readend
  /\ LET n == Min({SlotSize, readend - readpointer}) IN Store(n, n < SlotSize)
  /\ UNCHANGED <<constVars, consumerVars, scanVars, flagVars, mutex,
                 nBadReadStatus, lapped, xlrfail, readend>>

(* Nothing comes.  The second time this ends the job.                      *)
Nothing ==
  /\ tpc = "fill"
  /\ kind = "network" /\ readpointer = readend
  /\ nBadReadStatus' = nBadReadStatus + 1
  /\ keepreading' = (keepreading /\ nBadReadStatus' <= 1)
  /\ tpc' = IF keepreading' THEN "top" ELSE "unlock"
  /\ UNCHANGED <<constVars, consumerVars, scanVars, dataremaining, mutex, buf,
                 lastslot, endindex, writeslot, curslot, endofscan, lapped,
                 xlrfail, posVars>>

LockNext ==
  /\ TGo("lock", "next")
  /\ lock(writeslot, Thread)
  /\ UNCHANGED <<constVars, consumerVars, scanVars, flagVars, buf, lastslot,
                 endindex, writeslot, curslot, endofscan, nBadReadStatus, lapped,
                 xlrfail, posVars>>

UnlockThis ==
  /\ TGo("next", "again")
  /\ unlock({curslot})
  /\ UNCHANGED <<constVars, consumerVars, scanVars, flagVars, buf, lastslot,
                 endindex, writeslot, curslot, endofscan, nBadReadStatus, lapped,
                 xlrfail, posVars>>

Again ==
  /\ tpc = "again"
  /\ tpc' = IF endofscan \/ ~dataremaining \/ ~keepreading THEN "unlock" ELSE "top"
  /\ UNCHANGED <<constVars, consumerVars, scanVars, flagVars, mutex, buf,
                 lastslot, endindex, writeslot, curslot, endofscan,
                 nBadReadStatus, lapped, xlrfail, posVars>>

KeepLast ==      \* mutant: the thread keeps the last slot
  /\ TGo("unlock", "check")
  /\ UNCHANGED <<constVars, consumerVars, scanVars, flagVars, mutex, buf,
                 lastslot, endindex, writeslot, curslot, endofscan,
                 nBadReadStatus, lapped, xlrfail, posVars>>

UnlockLast ==
  /\ TGo("unlock", "check")
  /\ unlock({writeslot})
  /\ UNCHANGED <<constVars, consumerVars, scanVars, flagVars, buf, lastslot,
                 endindex, writeslot, curslot, endofscan, nBadReadStatus, lapped,
                 xlrfail, posVars>>

Check ==
  /\ tpc = "check"
  /\ tpc' = IF threadstop THEN "exit" ELSE "bar1"
  /\ UNCHANGED <<constVars, consumerVars, scanVars, flagVars, mutex, buf,
                 lastslot, endindex, writeslot, curslot, endofscan,
                 nBadReadStatus, lapped, xlrfail, posVars>>

ThreadStep ==
  Arm \/ Stopped \/ PastEnd \/ StartRead \/ FillFromModule \/ FailRead
    \/ FillFromNetwork \/ Nothing \/ LockNext \/ UnlockThis \/ Again
    \/ UnlockLast \/ Check

(* A thread that has failed leaves its slot locked, and the consumer waits *)
(* for it; and a destructor may wait at the barrier.                       *)
ThreadFailed == tpc = "exit" /\ ~threadstop
Finished ==
  /\ cpc \in {"dtor1", "dtor2", "join", "gone", "dead"} \/ ThreadFailed
  /\ UNCHANGED vars

Alive == cpc # "dead"

Next ==
  \/ Alive /\ (ConsumerStep \/ Barrier1 \/ Barrier2 \/ ThreadStep)
  \/ Finished

Fairness ==
  /\ WF_vars(ConsumerStep)
  /\ WF_vars(Alive /\ ThreadStep)
  /\ WF_vars(Alive /\ (Barrier1 \/ Barrier2))

Spec == Init /\ [][Next]_vars /\ Fairness

-----------------------------------------------------------------------------
(* The thread of a network stream has ended the record after a whole slot, *)
(* as if it were the last: it read dataremaining before the consumer had   *)
(* set it (BeginReading), and waits at the barrier for a next record.      *)
GaveUp == kind = "network" /\ tpc \in {"unlock", "check", "bar1"} /\ lastslot < 0

(* While the consumer has locked their slots, the frames it takes are those *)
(* of the record from where the last call left off, without a gap and      *)
(* whatever the thread is doing: as long as the thread has not lapped the  *)
(* consumer before its first lock or given the record up, the consumer has *)
(* not gone on into a slot without locking it, and neither the record nor  *)
(* the stream has come to its end.  The first three reads go on after the  *)
(* end of a record.                                                        *)
InOrder ==
  cpc = "fix" /\ dataremaining /\ keepreading /\ ~lapped /\ ~slipped /\ ~GaveUp =>
    \A i \in 0 .. visible - 1 : buf[muxindex + i] = FrameTime(taken + i)

(* The consumer's loop over the reads of the job is behind it.             *)
Left == cpc \in {"leave", "ended", "dtor1", "dtor2", "join", "gone"}
(* The job is read to its end, unless a read off the module has failed or  *)
(* the process has died.                                                   *)
Ends == <>(Left \/ ThreadFailed \/ cpc = "dead")
=============================================================================
