--------------------------- MODULE SlotRing_proof ---------------------------
(***************************************************************************)
(* Proofs about the ring of read-buffer slots of a VDIF or Mark5B file:    *)
(* the types, and that what is given to vdifmux is frames of one file in   *)
(* their order, for every number and length of slots, every list of files  *)
(* and all jumps.  Positions are numbers of frames since the file's start; *)
(* B(s) is the place of slot s in the buffer.                              *)
(***************************************************************************)
EXTENDS SlotRing, Sums

B(s) == s * SlotSize

FileTypes ==
  /\ files \in FileLists /\ file \in 0 .. Len(files) /\ taken \in Int
  /\ dataremaining \in BOOLEAN /\ keepreading \in BOOLEAN
ConsumerTypes ==
  /\ cpc \in {"open", "read", "lockfirst", "choose", "lockmore", "mux", "wrap",
              "housekeep", "join", "exit"}
  /\ lockstart \in Int /\ lockend \in Int /\ muxindex \in Int /\ n2 \in Int
LockTypes == mutex \in [0 .. lockmod - 1 -> BOOLEAN]
ReaderTypes ==
  /\ filepos \in Int /\ lastslot \in Int /\ endindex \in Int
  /\ overlap \in BOOLEAN /\ lapped \in BOOLEAN
  /\ writeslot \in 1 .. lockmod
  /\ rpc \in [Readers -> {"none", "top", "fill", "lock", "unlock", "done"}]
  /\ curslot \in [Readers -> 0 .. lockmod]
  /\ endofscan \in [Readers -> BOOLEAN]
BufTypes == buf \in [0 .. RingSize - 1 -> Int]
TypeOK == FileTypes /\ ConsumerTypes /\ LockTypes /\ ReaderTypes /\ BufTypes

(* The consumer is in the middle of a file.                                *)
Active ==
  /\ dataremaining
  /\ cpc \in {"read", "lockfirst", "choose", "lockmore", "mux", "wrap", "housekeep"}
(* Readers are started one after the other.                                *)
Threads ==
  /\ ~keepreading => cpc \in {"join", "exit"}
  /\ \A f \in Readers : f > file => rpc[f] = "none" /\ curslot[f] = 0 /\ ~endofscan[f]
  /\ ~overlap => \A f \in Readers : Running(f) => f = file
Taking ==
  /\ Active => /\ file >= 1
               /\ \/ lockstart >= 0 /\ lockend >= 0
                  \/ lockstart = -1 /\ cpc = "read"
  /\ cpc = "lockfirst" => lockstart = 1 /\ lockend = 1 /\ muxindex = SlotSize

-----------------------------------------------------------------------------
(* Slots begin SlotSize apart.                                             *)
LEMMA Constants ==
  /\ lockmod \in Int /\ lockmod >= 4 /\ Slots = lockmod + 1 /\ Slots \in Int
  /\ SlotSize \in Int /\ ReadSize \in Int /\ ReadSize >= 1
  /\ SlotSize > 2 * ReadSize
BY SlotsAssumption DEF lockmod

LEMMA Places ==
  /\ \A a \in Int : B(a) \in Int /\ B(a + 1) = B(a) + SlotSize
                    /\ B(a + lockmod) = B(a) + B(lockmod)
                    /\ B(a - lockmod) = B(a) - B(lockmod)
  /\ \A a, b \in Int : a < b => B(a) + SlotSize <= B(b)
  /\ \A a, b \in Int : B(a) < B(b) => a < b
  /\ \A a, b \in Int : a <= b => B(a) <= B(b)
  /\ B(0) = 0 /\ B(1) = SlotSize
  /\ RingSize = B(lockmod) + SlotSize /\ RingSize = B(lockmod + 1)
  /\ RingSize = B(Slots)
<1>1. SlotSize >= 1
  BY Constants
<1>2. B(0) = 0 /\ B(1) = SlotSize
  BY Constants DEF B
<1>3. RingSize = B(Slots) /\ RingSize = B(lockmod + 1)
        /\ B(lockmod + 1) = B(lockmod) + SlotSize
  BY Constants DEF B, RingSize
<1> QED
  BY <1>1, <1>2, <1>3, Constants, Multiples DEF B

(* The slot a place is in.                                                 *)
LEMMA Slot ==
  ASSUME NEW x \in Int
  PROVE  /\ x \div SlotSize \in Int
         /\ B(x \div SlotSize) <= x /\ x < B(x \div SlotSize) + SlotSize
         /\ \A b \in Int : B(b) <= x <=> b <= x \div SlotSize
<1>1. SlotSize >= 1
  BY Constants
<1> QED
  BY <1>1, Constants, SlotOf DEF B

LEMMA Remainder ==
  ASSUME NEW s \in Int, NEW x \in Int, B(s) <= x, x < B(s) + SlotSize
  PROVE  x % SlotSize = x - B(s)
<1>1. SlotSize >= 1
  BY Constants
<1> QED
  BY <1>1, Constants, SlotOf DEF B

(* Which slots have the same lock.                                         *)
LEMMA Residue ==
  /\ \A a \in Int : a % lockmod \in 0 .. lockmod - 1
                    /\ (a + lockmod) % lockmod = a % lockmod
                    /\ (a - lockmod) % lockmod = a % lockmod
  /\ \A a, b \in Int : a < b /\ b < a + lockmod => a % lockmod # b % lockmod
<1>1. lockmod >= 1
  BY Constants
<1> QED
  BY <1>1, Constants, Residues

LEMMA One == 1 % lockmod = 1
<1>1. lockmod >= 2
  BY Constants
<1> QED
  BY <1>1, Constants, OneLeft

LEMMA Files ==
  /\ \A f \in Readers : f \in Nat \ {0}
  /\ \A list \in FileLists :
       /\ Len(list) \in Nat
       /\ \A f \in 1 .. Len(list) :
            f \in Readers /\ list[f].start \in Nat /\ list[f].length \in Nat \ {0}
<1>1. ASSUME NEW list \in FileLists
      PROVE  /\ Len(list) \in Nat /\ DOMAIN list = 1 .. Len(list)
             /\ \A f \in 1 .. Len(list) : list[f] \in [start : Nat, length : Nat \ {0}]
  <2> DEFINE T == [start : Nat, length : Nat \ {0}]
  <2>1. list \in Seq(T)
    BY FilesAssumption
  <2> HIDE DEF T
  <2>2. Len(list) \in Nat /\ DOMAIN list = 1 .. Len(list)
        /\ \A f \in 1 .. Len(list) : list[f] \in T
    BY <2>1
  <2> QED
    BY <2>2 DEF T
<1> QED
  BY <1>1 DEF Readers

LEMMA Greater ==
  ASSUME NEW a \in Int, NEW b \in Int
  PROVE  Max({a, b}) = IF a >= b THEN a ELSE b
BY DEF Max

LEMMA Less ==
  ASSUME NEW a \in Int, NEW b \in Int
  PROVE  Min({a, b}) = IF a <= b THEN a ELSE b
BY DEF Min

LEMMA LockTyped ==
  ASSUME LockTypes, NEW slot \in Int, NEW who, lockSlot(slot, who)
  PROVE  LockTypes'
BY DEF LockTypes, lockSlot

LEMMA UnlockTyped ==
  ASSUME LockTypes, NEW slots, unlockSlots(slots)
  PROVE  LockTypes'
BY DEF LockTypes, unlockSlots

(* Advance: first is the slot the consumer goes on in.                     *)
Advanced(index, first) ==
  /\ lockstart <= first
  /\ first = lockstart \/ (first <= lockend /\ B(first) <= index)
  /\ \A b \in Int : b <= lockend /\ B(b) <= index => b <= first
  /\ unlockSlots(lockstart .. first - 1)
  /\ \/ first = lockmod /\ lastslot # lockmod /\ MoveDown(index)
     \/ /\ ~ (first = lockmod /\ lastslot # lockmod)
        /\ muxindex' = index /\ lockstart' = first /\ UNCHANGED <<lockend, buf>>

LEMMA AdvanceIs ==
  ASSUME TypeOK, NEW index \in Int, Advance(index)
  PROVE  \E first \in Int : Advanced(index, first)
<1> DEFINE q == index \div SlotSize
           from == Min({q, lockend})
           first == Max({lockstart, from})
<1>1. q \in Int /\ lockend \in Int /\ lockstart \in Int
      /\ \A b \in Int : B(b) <= index <=> b <= q
  BY Slot DEF TypeOK, ConsumerTypes
<1>2. /\ unlockSlots(lockstart .. first - 1)
      /\ IF first = Slots - 1 /\ lastslot # Slots - 1
         THEN MoveDown(index)
         ELSE /\ muxindex' = index /\ lockstart' = first
              /\ UNCHANGED <<lockend, buf>>
  BY DEF Advance
<1> HIDE DEF q
<1>3. from = IF q <= lockend THEN q ELSE lockend
  BY <1>1, Less
<1>4. from \in Int
  BY <1>1, <1>3
<1> HIDE DEF from
<1>5. first = IF lockstart >= from THEN lockstart ELSE from
  BY <1>1, <1>4, Greater
<1>6. first \in Int
  BY <1>1, <1>4, <1>5
<1> HIDE DEF first
<1>7. lockstart <= first /\ (first = lockstart \/ (first <= lockend /\ B(first) <= index))
  BY <1>1, <1>3, <1>4, <1>5, <1>6
<1>8. \A b \in Int : b <= lockend /\ B(b) <= index => b <= first
  BY <1>1, <1>3, <1>4, <1>5, <1>6
<1>9. Advanced(index, first)
  BY <1>2, <1>7, <1>8 DEF Advanced, lockmod
<1> QED
  BY <1>6, <1>9

(* Mux: the frames up to index are taken.                                  *)
Muxed(index) ==
  /\ muxindex <= index /\ index <= muxend
  /\ taken' = taken + (index - muxindex)
  /\ \/ /\ cpc' = "housekeep" /\ dataremaining' = FALSE
        /\ unlockAllSlots(Consumer)
        /\ lockstart' = -2 /\ lockend' = -2 /\ muxindex' = index
        /\ UNCHANGED buf
     \/ /\ ~EndOfFile(index)
        /\ UNCHANGED dataremaining
        /\ \/ /\ index = RingSize /\ cpc' = "wrap" /\ muxindex' = SlotSize
              /\ UNCHANGED <<lockstart, lockend, lockVars, buf>>
           \/ index # RingSize /\ cpc' = "housekeep" /\ Advance(index)
  /\ UNCHANGED <<n2, files, file, readscan, keepreading, lastslot, endindex,
                 writeslot, filepos, rpc, curslot, endofscan, overlap, lapped>>

LEMMA MuxEnd == TypeOK => muxend \in Int
<1> SUFFICES ASSUME TypeOK PROVE muxend \in Int
  OBVIOUS
<1>1. endindex \in Int /\ n2 \in Int /\ SlotSize \in Int
  BY Constants DEF TypeOK, ConsumerTypes, ReaderTypes
<1> QED
  BY <1>1 DEF muxend

LEMMA MuxIs ==
  ASSUME TypeOK, Mux
  PROVE  cpc = "mux" /\ \E index \in Int : Muxed(index)
<1>1. cpc = "mux" /\ visible > 0
  BY DEF Mux
<1>2. PICK extra \in Extras :
        LET used == Min({visible, ReadSize + extra})
            index == muxindex + used
        IN
        /\ taken' = taken + used
        /\ readtime' = FileTime(file, taken)
        /\ IF EndOfFile(index)
           THEN /\ cpc' = "housekeep"
                /\ dataremaining' = FALSE
                /\ unlockAllSlots(Consumer)
                /\ lockstart' = -2 /\ lockend' = -2 /\ muxindex' = index
                /\ UNCHANGED buf
           ELSE /\ UNCHANGED dataremaining
                /\ IF index = RingSize
                   THEN /\ cpc' = "wrap"
                        /\ muxindex' = SlotSize
                        /\ UNCHANGED <<lockstart, lockend, lockVars, buf>>
                   ELSE cpc' = "housekeep" /\ Advance(index)
  BY DEF Mux
<1> DEFINE used == Min({visible, ReadSize + extra})
           index == muxindex + used
<1>3. extra \in Int /\ ReadSize + extra >= 0
  BY SlotsAssumption
<1>4. muxend \in Int /\ muxindex \in Int /\ visible = muxend - muxindex
  BY MuxEnd DEF TypeOK, ConsumerTypes, visible
<1>5. used = IF visible <= ReadSize + extra THEN visible ELSE ReadSize + extra
  BY <1>3, <1>4, Less, Constants
<1>6. used \in Int /\ used >= 0 /\ used <= visible
  BY <1>1, <1>3, <1>4, <1>5, Constants
<1>7. taken' = taken + used
  BY <1>2
<1>8. IF EndOfFile(index)
           THEN /\ cpc' = "housekeep"
                /\ dataremaining' = FALSE
                /\ unlockAllSlots(Consumer)
                /\ lockstart' = -2 /\ lockend' = -2 /\ muxindex' = index
                /\ UNCHANGED buf
           ELSE /\ UNCHANGED dataremaining
                /\ IF index = RingSize
                   THEN /\ cpc' = "wrap"
                        /\ muxindex' = SlotSize
                        /\ UNCHANGED <<lockstart, lockend, lockVars, buf>>
                   ELSE cpc' = "housekeep" /\ Advance(index)
  BY <1>2
<1> HIDE DEF used
<1>9. index \in Int /\ muxindex <= index /\ index <= muxend /\ used = index - muxindex
  BY <1>4, <1>6
<1> HIDE DEF index
<1>10. UNCHANGED <<n2, files, file, readscan, keepreading, lastslot, endindex,
                 writeslot, filepos, rpc, curslot, endofscan, overlap, lapped>>
  BY DEF Mux
<1>11. Muxed(index)
  BY <1>7, <1>8, <1>9, <1>10 DEF Muxed
<1> QED
  BY <1>1, <1>9, <1>11

-----------------------------------------------------------------------------
(* Types, and which threads run.                                           *)
Basic == TypeOK /\ Threads /\ Taking

(* MoveDown copies within the ring.                                        *)
LEMMA MovedTyped ==
  ASSUME TypeOK, NEW index \in Int, MoveDown(index)
  PROVE  BufTypes' /\ muxindex' \in Int /\ lockstart' = 0 /\ lockend' = 0
<1> DEFINE start == index % SlotSize
<1>1. start \in 0 .. SlotSize - 1
  BY Constants
<1>2. /\ buf' = [i \in DOMAIN buf |->
               IF i \in start .. SlotSize - 1 THEN buf[i + (Slots - 1) * SlotSize]
               ELSE buf[i]]
      /\ muxindex' = start /\ lockstart' = 0 /\ lockend' = 0
  BY DEF MoveDown
<1> HIDE DEF start
<1>3. DOMAIN buf = 0 .. RingSize - 1 /\ \A i \in 0 .. RingSize - 1 : buf[i] \in Int
  BY DEF TypeOK, BufTypes
<1>4. ASSUME NEW i \in start .. SlotSize - 1
      PROVE  i + (Slots - 1) * SlotSize \in 0 .. RingSize - 1
  <2>1. (Slots - 1) * SlotSize = B(lockmod) /\ RingSize = B(lockmod) + SlotSize
        /\ B(lockmod) \in Int /\ B(lockmod) >= 0
    <3>1. B(0) <= B(lockmod) /\ B(0) = 0 /\ B(lockmod) \in Int
      BY Places, Constants
    <3>2. (Slots - 1) * SlotSize = B(lockmod)
      BY DEF B, lockmod
    <3>3. RingSize = B(lockmod) + SlotSize
      BY Places
    <3> QED
      BY <3>1, <3>2, <3>3
  <2> QED
    BY <2>1, <1>1, Constants
<1>5. BufTypes'
  BY <1>2, <1>3, <1>4 DEF BufTypes
<1> QED
  BY <1>1, <1>2, <1>5

LEMMA BasicConsumer ==
  ASSUME Basic, ConsumerStep
  PROVE  Basic'
<1>0. TypeOK /\ Threads /\ Taking
  BY DEF Basic
<1>1. FileTypes /\ ConsumerTypes /\ LockTypes /\ ReaderTypes /\ BufTypes
  BY <1>0 DEF TypeOK
<1> USE <1>1
<1>3. CASE NoMoreFiles
  <2>1. ReaderTypes' /\ BufTypes' /\ LockTypes'
    BY <1>3 DEF NoMoreFiles, readerVars, lockVars, ReaderTypes, BufTypes, LockTypes
  <2>2. FileTypes' /\ ConsumerTypes'
    BY <1>3 DEF NoMoreFiles, CGo, FileTypes, ConsumerTypes
  <2>3. Threads'
    BY <1>3, <1>0 DEF NoMoreFiles, CGo, readerVars, Threads, Running
  <2>4. Taking'
    BY <1>3, <1>0 DEF NoMoreFiles, CGo, Taking, Active
  <2> QED
    BY <2>1, <2>2, <2>3, <2>4 DEF Basic, TypeOK
<1>4. CASE OpenFile
  <2>0. Len(files) \in Nat /\ file \in 0 .. Len(files) /\ file < Len(files)
        /\ file' = file + 1 /\ files' = files
    BY <1>4, Files DEF OpenFile, FileTypes
  <2>1. file' \in 1 .. Len(files)
    BY <2>0
  <2>2. file' \in Readers /\ files[file'].length \in Nat
    BY <2>1, Files DEF FileTypes
  <2>3. PICK jump \in Jumps : taken' = jump /\ filepos' = jump
             /\ dataremaining' = (jump < files[file'].length)
    BY <1>4 DEF OpenFile
  <2>4. jump \in Int
    BY SlotsAssumption
  <2>5. FileTypes'
    BY <1>4, <2>0, <2>1, <2>2, <2>3, <2>4 DEF OpenFile, FileTypes
  <2>6. ConsumerTypes'
    BY <1>4 DEF OpenFile, ConsumerTypes
  <2>7. LockTypes'
    <3>1. lockSlot(1, Reader)
      BY <1>4 DEF OpenFile
    <3> QED
      BY <3>1, LockTyped
  <2>8. rpc' = [rpc EXCEPT ![file'] = "top"]
    BY <1>4 DEF OpenFile
  <2>9. rpc' \in [Readers -> {"none", "top", "fill", "lock", "unlock", "done"}]
    BY <2>8 DEF ReaderTypes
  <2>10. ReaderTypes'
    BY <1>4, <2>3, <2>4, <2>9, Constants DEF OpenFile, ReaderTypes
  <2>11. BufTypes'
    BY <1>4 DEF OpenFile, BufTypes
  <2>12. Threads'
    <3>1. keepreading
      BY <1>0, <1>4 DEF OpenFile, Threads, FileTypes
    <3>2. ASSUME NEW f \in Readers, f > file'
          PROVE  rpc'[f] = "none" /\ curslot'[f] = 0 /\ ~endofscan'[f]
      <4>1. f > file /\ f # file'
        BY <3>2, <2>0, Files
      <4>2. rpc'[f] = rpc[f] /\ curslot' = curslot /\ endofscan' = endofscan
        BY <1>4, <2>8, <4>1 DEF OpenFile, ReaderTypes
      <4> QED
        BY <4>1, <4>2, <1>0 DEF Threads
    <3>3. ASSUME ~overlap', NEW f \in Readers, Running(f)' PROVE f = file'
      <4>1. ~Running(f)
        BY <1>4, <3>3 DEF OpenFile
      <4>2. f # file' => rpc'[f] = rpc[f]
        BY <2>8 DEF ReaderTypes
      <4> QED
        BY <3>3, <4>1, <4>2 DEF Running
    <3> QED
      BY <3>1, <3>2, <3>3, <1>4 DEF OpenFile, Threads
  <2>13. Taking'
    BY <1>4, <2>1 DEF OpenFile, Taking, Active
  <2> QED
    BY <2>5, <2>6, <2>7, <2>10, <2>11, <2>12, <2>13 DEF Basic, TypeOK
<1>5. CASE FirstRead
  <2>1. ReaderTypes' /\ BufTypes' /\ LockTypes' /\ FileTypes'
    BY <1>5 DEF FirstRead, readerVars, lockVars, fileVars, ReaderTypes, BufTypes,
                LockTypes, FileTypes
  <2>2. ConsumerTypes'
    BY <1>5, Constants DEF FirstRead, CGo, ConsumerTypes
  <2>3. Threads'
    BY <1>5, <1>0 DEF FirstRead, CGo, readerVars, fileVars, Threads, Running
  <2>4. Taking'
    BY <1>5, <1>0 DEF FirstRead, CGo, fileVars, Taking, Active
  <2> QED
    BY <2>1, <2>2, <2>3, <2>4 DEF Basic, TypeOK
<1>6. CASE LockFirst
  <2>1. ReaderTypes' /\ BufTypes' /\ FileTypes'
    BY <1>6 DEF LockFirst, readerVars, fileVars, ReaderTypes, BufTypes, FileTypes
  <2>2. ConsumerTypes'
    BY <1>6 DEF LockFirst, CGo, ConsumerTypes
  <2>3. LockTypes'
    <3>1. lockSlot(lockstart, Consumer) /\ lockstart \in Int
      BY <1>6 DEF LockFirst, ConsumerTypes
    <3> QED
      BY <3>1, LockTyped
  <2>4. Threads'
    BY <1>6, <1>0 DEF LockFirst, CGo, readerVars, fileVars, Threads, Running
  <2>5. Taking'
    BY <1>6, <1>0 DEF LockFirst, CGo, fileVars, Taking, Active
  <2> QED
    BY <2>1, <2>2, <2>3, <2>4, <2>5 DEF Basic, TypeOK
<1>7. CASE LaterRead
  <2>1. ReaderTypes' /\ BufTypes' /\ FileTypes' /\ LockTypes'
    BY <1>7 DEF LaterRead, readerVars, fileVars, lockVars, ReaderTypes, BufTypes,
                FileTypes, LockTypes
  <2>2. ConsumerTypes'
    BY <1>7 DEF LaterRead, CGo, ConsumerTypes
  <2>4. Threads'
    BY <1>7, <1>0 DEF LaterRead, CGo, readerVars, fileVars, Threads, Running
  <2>5. Taking'
    BY <1>7, <1>0 DEF LaterRead, CGo, fileVars, Taking, Active
  <2> QED
    BY <2>1, <2>2, <2>4, <2>5 DEF Basic, TypeOK
<1>8. CASE Choose
  <2>1. ReaderTypes' /\ BufTypes' /\ FileTypes' /\ LockTypes'
    BY <1>8 DEF Choose, readerVars, fileVars, lockVars, ReaderTypes, BufTypes,
                FileTypes, LockTypes
  <2>2. LastWanted \in Int
    <3>1. endindex - 1 \in Int /\ muxindex + 2 * ReadSize - 1 \in Int
      BY Constants DEF ConsumerTypes, ReaderTypes
    <3>2. (endindex - 1) \div SlotSize \in Int
          /\ (muxindex + 2 * ReadSize - 1) \div SlotSize \in Int
      BY <3>1, Slot
    <3> QED
      BY <3>2 DEF LastWanted
  <2>3. ConsumerTypes'
    BY <1>8, <2>2 DEF Choose, ConsumerTypes
  <2>4. Threads'
    BY <1>8, <1>0 DEF Choose, readerVars, fileVars, Threads, Running
  <2>5. Taking'
    BY <1>8, <1>0 DEF Choose, fileVars, Taking, Active
  <2> QED
    BY <2>1, <2>3, <2>4, <2>5 DEF Basic, TypeOK
<1>9. CASE LockMore
  <2>1. ReaderTypes' /\ BufTypes' /\ FileTypes'
    BY <1>9 DEF LockMore, readerVars, fileVars, ReaderTypes, BufTypes, FileTypes
  <2>2. ConsumerTypes'
    BY <1>9 DEF LockMore, ConsumerTypes
  <2>3. LockTypes'
    <3>1. CASE lockend' < 0
      BY <1>9, <3>1 DEF LockMore, LockTypes, lockVars
    <3>2. CASE ~(lockend' < 0)
      BY <1>9, <3>2 DEF LockMore, LockTypes, lockSlot
    <3> QED
      BY <3>1, <3>2
  <2>4. Threads'
    BY <1>9, <1>0 DEF LockMore, readerVars, fileVars, Threads, Running
  <2>5. Taking'
    <3>1. /\ cpc = "lockmore" /\ cpc' \in {"lockmore", "mux"}
          /\ lockend' = lockend + 1 /\ UNCHANGED <<lockstart, file, dataremaining>>
      BY <1>9 DEF LockMore, fileVars
    <3>2. lockend \in Int
      BY <1>0 DEF ConsumerTypes
    <3> QED
      BY <1>0, <3>1, <3>2 DEF Taking, Active
  <2> QED
    BY <2>1, <2>2, <2>3, <2>4, <2>5 DEF Basic, TypeOK
<1>10. CASE Weird \/ MuxNothing
  <2>0. /\ CGo("mux", "housekeep") /\ dataremaining' = FALSE
        /\ UNCHANGED <<lockstart, lockend, muxindex, n2, files, file, taken,
                       keepreading, lockVars, readerVars>>
    BY <1>10 DEF Weird, MuxNothing
  <2>1. ReaderTypes' /\ BufTypes' /\ FileTypes' /\ LockTypes'
    BY <2>0 DEF readerVars, lockVars, ReaderTypes, BufTypes, FileTypes, LockTypes
  <2>2. ConsumerTypes'
    BY <2>0 DEF CGo, ConsumerTypes
  <2>4. Threads'
    BY <2>0, <1>0 DEF CGo, readerVars, Threads, Running
  <2>5. Taking'
    BY <2>0 DEF CGo, Taking, Active
  <2> QED
    BY <2>1, <2>2, <2>4, <2>5 DEF Basic, TypeOK
<1>11. CASE MuxFails
  <2>0. /\ CGo("mux", "housekeep") /\ dataremaining' = FALSE
        /\ unlockSlots({lockend})
        /\ UNCHANGED <<lockstart, lockend, muxindex, n2, files, file, taken,
                       keepreading, readerVars>>
    BY <1>11 DEF MuxFails
  <2>1. ReaderTypes' /\ BufTypes' /\ FileTypes'
    BY <2>0 DEF readerVars, ReaderTypes, BufTypes, FileTypes
  <2>2. ConsumerTypes'
    BY <2>0 DEF CGo, ConsumerTypes
  <2>3. LockTypes'
    BY <2>0, UnlockTyped
  <2>4. Threads'
    BY <2>0, <1>0 DEF CGo, readerVars, Threads, Running
  <2>5. Taking'
    BY <2>0 DEF CGo, Taking, Active
  <2> QED
    BY <2>1, <2>2, <2>3, <2>4, <2>5 DEF Basic, TypeOK
<1>12. CASE Mux
  <2>1. cpc = "mux" /\ \E index \in Int : Muxed(index)
    BY <1>0, <1>12, MuxIs
  <2>2. PICK index \in Int : Muxed(index)
    BY <2>1
  <2>3. taken' = taken + (index - muxindex) /\ cpc' \in {"housekeep", "wrap"}
        /\ dataremaining' \in {FALSE, dataremaining}
        /\ UNCHANGED <<n2, files, file, keepreading, lastslot, endindex,
                 writeslot, filepos, rpc, curslot, endofscan, overlap, lapped>>
    BY <2>2 DEF Muxed
  <2>4. FileTypes'
    <3>1. dataremaining' \in BOOLEAN
      BY <2>3, Zenon DEF FileTypes
    <3>2. taken' \in Int
      BY <2>3 DEF FileTypes, ConsumerTypes
    <3> QED
      BY <2>3, <3>1, <3>2 DEF FileTypes
  <2>5. ReaderTypes'
    BY <2>3 DEF ReaderTypes
  <2>6. Threads'
    BY <2>1, <2>3, <1>0 DEF Threads, Running
  <2>7. /\ dataremaining => lockstart >= 0 /\ lockend >= 0 /\ file >= 1
        /\ lockstart \in Int /\ lockend \in Int
        /\ dataremaining' => dataremaining
    <3>1. dataremaining' => dataremaining
      BY <2>3, Zenon
    <3> QED
      BY <2>1, <3>1, <1>0 DEF Taking, Active, ConsumerTypes
  <2>8. CASE cpc' = "housekeep" /\ dataremaining' = FALSE
              /\ unlockAllSlots(Consumer)
              /\ lockstart' = -2 /\ lockend' = -2 /\ muxindex' = index
              /\ UNCHANGED buf
    <3>1. LockTypes'
      BY <2>8, UnlockTyped DEF unlockAllSlots
    <3>2. ConsumerTypes' /\ BufTypes' /\ Taking'
      BY <2>3, <2>8 DEF ConsumerTypes, BufTypes, Taking, Active
    <3> QED
      BY <2>4, <2>5, <2>6, <3>1, <3>2 DEF Basic, TypeOK
  <2>9. CASE /\ cpc' = "wrap" /\ muxindex' = SlotSize
             /\ UNCHANGED <<lockstart, lockend, lockVars, buf>>
    <3>1. ConsumerTypes' /\ BufTypes' /\ LockTypes'
      BY <1>0, <2>3, <2>9, Constants
      DEF ConsumerTypes, BufTypes, LockTypes, lockVars
    <3>2. Taking'
      BY <2>3, <2>7, <2>9 DEF Taking, Active
    <3> QED
      BY <2>4, <2>5, <2>6, <3>1, <3>2 DEF Basic, TypeOK
  <2>10. CASE cpc' = "housekeep" /\ Advance(index)
    <3>1. PICK first \in Int : Advanced(index, first)
      BY <1>0, <2>10, AdvanceIs
    <3>2. LockTypes'
      BY <3>1, UnlockTyped DEF Advanced
    <3>3. /\ BufTypes' /\ muxindex' \in Int /\ lockstart' \in Int /\ lockend' \in Int
          /\ dataremaining => lockstart' >= 0 /\ lockend' >= 0
      <4>1. CASE MoveDown(index)
        BY <4>1, <1>0, MovedTyped
      <4>2. CASE muxindex' = index /\ lockstart' = first /\ UNCHANGED <<lockend, buf>>
        BY <1>0, <4>2, <3>1, <2>7 DEF BufTypes, Advanced
      <4> QED
        BY <3>1, <4>1, <4>2 DEF Advanced
    <3>4. ConsumerTypes'
      BY <1>0, <2>3, <2>10, <3>3 DEF ConsumerTypes
    <3>5. Taking'
      BY <2>3, <2>7, <2>10, <3>3 DEF Taking, Active
    <3> QED
      BY <2>4, <2>5, <2>6, <3>2, <3>3, <3>4, <3>5 DEF Basic, TypeOK
  <2> QED
    BY <2>2, <2>8, <2>9, <2>10 DEF Muxed
<1>13. CASE WrapAround
  <2>1. ReaderTypes' /\ BufTypes' /\ FileTypes'
    BY <1>13 DEF WrapAround, readerVars, fileVars, ReaderTypes, BufTypes, FileTypes
  <2>2. ConsumerTypes'
    BY <1>13 DEF WrapAround, CGo, ConsumerTypes
  <2>3. LockTypes'
    BY <1>13 DEF WrapAround, LockTypes
  <2>4. Threads'
    BY <1>13, <1>0 DEF WrapAround, CGo, readerVars, fileVars, Threads, Running
  <2>5. Taking'
    BY <1>13, <1>0 DEF WrapAround, CGo, fileVars, Taking, Active
  <2> QED
    BY <2>1, <2>2, <2>3, <2>4, <2>5 DEF Basic, TypeOK
<1>14. CASE HouseKeep
  <2>1. ReaderTypes' /\ BufTypes'
    BY <1>14 DEF HouseKeep, readerVars, ReaderTypes, BufTypes
  <2> DEFINE over == NextTime >= JobEnd \/ readscan' > NumScans
  <2>2. /\ cpc = "housekeep" /\ keepreading' = ~over
        /\ dataremaining' = (dataremaining /\ NextTime < JobEnd)
        /\ cpc' = CASE over -> IF lockstart >= 0 THEN "join" ELSE "exit"
                 [] ~over /\ dataremaining -> "read"
                 [] OTHER -> "open"
        /\ IF over /\ lockstart >= 0 THEN unlockAllSlots(Consumer) ELSE UNCHANGED lockVars
        /\ UNCHANGED <<lockstart, lockend, muxindex, n2, files, file, taken, readerVars>>
    BY <1>14 DEF HouseKeep
  <2> HIDE DEF over
  <2>3. cpc' \in {"join", "exit", "read", "open"} /\ keepreading' \in BOOLEAN
        /\ (~keepreading' => cpc' \in {"join", "exit"})
        /\ (cpc' = "read" => dataremaining)
    BY <2>2
  <2>4. dataremaining' \in BOOLEAN
    BY <2>2
  <2>5. FileTypes' /\ ConsumerTypes'
    BY <2>2, <2>3, <2>4 DEF FileTypes, ConsumerTypes
  <2>6. LockTypes'
    BY <2>2, UnlockTyped DEF unlockAllSlots, lockVars, LockTypes
  <2>7. Threads'
    BY <2>2, <2>3, <1>0 DEF readerVars, Threads, Running
  <2>8. Taking'
    BY <2>2, <2>3, <1>0 DEF Taking, Active
  <2> QED
    BY <2>1, <2>5, <2>6, <2>7, <2>8 DEF Basic, TypeOK
<1>15. CASE Join
  <2>1. ReaderTypes' /\ BufTypes' /\ FileTypes' /\ LockTypes'
    BY <1>15 DEF Join, readerVars, fileVars, lockVars, ReaderTypes, BufTypes,
                FileTypes, LockTypes
  <2>2. ConsumerTypes'
    BY <1>15 DEF Join, CGo, ConsumerTypes
  <2>4. Threads'
    BY <1>15, <1>0 DEF Join, CGo, readerVars, fileVars, Threads, Running
  <2>5. Taking'
    BY <1>15, <1>0 DEF Join, CGo, fileVars, Taking, Active
  <2> QED
    BY <2>1, <2>2, <2>4, <2>5 DEF Basic, TypeOK
<1> QED
  BY <1>3, <1>4, <1>5, <1>6, <1>7, <1>8, <1>9, <1>10, <1>11, <1>12, <1>13, <1>14,
     <1>15 DEF ConsumerStep

(* Nothing a reader does is seen in the consumer's own variables.          *)
LEMMA BasicReader ==
  ASSUME Basic, NEW f \in Readers, ReaderStep(f)
  PROVE  Basic'
<1>0. TypeOK /\ Threads /\ Taking
  BY DEF Basic
<1>1. FileTypes /\ ConsumerTypes /\ LockTypes /\ ReaderTypes /\ BufTypes
  BY <1>0 DEF TypeOK
<1>2. /\ UNCHANGED <<consumerVars, fileVars, overlap>>
      /\ Running(f) /\ \E there \in {"top", "fill", "lock", "unlock", "done"} :
           rpc' = [rpc EXCEPT ![f] = there]
  BY DEF ReaderStep, StartRead, Fill, LockNext, UnlockThis, EndReader, RGo, Running
<1>3. f <= file /\ file \in 1 .. Len(files) /\ files \in FileLists
  <2>1. f \in Nat \ {0} /\ ~ (f > file) /\ file \in Int
    BY <1>0, <1>1, <1>2, Files DEF Threads, Running, FileTypes
  <2> QED
    BY <2>1, <1>1 DEF FileTypes
<1>4. FileTypes' /\ ConsumerTypes' /\ Taking'
  BY <1>0, <1>1, <1>2 DEF consumerVars, fileVars, FileTypes, ConsumerTypes, Taking, Active
<1>5. /\ curslot' = curslot \/ curslot' = [curslot EXCEPT ![f] = writeslot]
      /\ endofscan' \in [Readers -> BOOLEAN]
      /\ \A g \in Readers : g # f => endofscan'[g] = endofscan[g] /\ curslot'[g] = curslot[g]
                                       /\ rpc'[g] = rpc[g]
      /\ rpc' \in [Readers -> {"none", "top", "fill", "lock", "unlock", "done"}]
  <2>1. endofscan' = endofscan \/ \E b \in BOOLEAN : endofscan' = [endofscan EXCEPT ![f] = b]
    <3>1. CASE Fill(f)
      <4> DEFINE left == IF filepos < files[file].length
                         THEN files[file].length - filepos ELSE 0
                 b == Min({SlotSize, left}) < SlotSize
      <4>1. endofscan' = [endofscan EXCEPT ![f] = b]
        BY <3>1 DEF Fill
      <4>2. b \in BOOLEAN
        OBVIOUS
      <4> HIDE DEF b
      <4> QED
        BY <4>1, <4>2
    <3>2. CASE ~Fill(f)
      BY <3>2 DEF ReaderStep, StartRead, LockNext, UnlockThis, EndReader
    <3> QED
      BY <3>1, <3>2
  <2>2. curslot' = curslot \/ curslot' = [curslot EXCEPT ![f] = writeslot]
    BY DEF ReaderStep, StartRead, Fill, LockNext, UnlockThis, EndReader
  <2> QED
    BY <1>1, <1>2, <2>1, <2>2 DEF ReaderTypes
<1>6. Threads'
  <2>1. \A g \in Readers : g > file => g # f
    BY <1>3, Files
  <2>2. UNCHANGED <<file, keepreading, cpc, overlap>>
    BY <1>2 DEF consumerVars, fileVars
  <2>3. \A g \in Readers : Running(g)' => Running(g)
    BY <1>2, <1>5 DEF Running
  <2> QED
    BY <1>0, <1>5, <2>1, <2>2, <2>3 DEF Threads
<1>7. curslot' \in [Readers -> 0 .. lockmod]
  BY <1>1, <1>5, Constants DEF ReaderTypes
<1>8. LockTypes' /\ ReaderTypes' /\ BufTypes'
  <2>1. CASE StartRead(f)
    <3>1. LockTypes'
      BY <2>1, <1>1 DEF StartRead, lockVars, LockTypes
    <3>2. BufTypes'
      BY <2>1, <1>1 DEF StartRead, BufTypes, Junk
    <3>3. lapped' \in BOOLEAN
      BY <2>1 DEF StartRead
    <3>4. ReaderTypes'
      BY <2>1, <1>1, <1>5, <1>7, <3>3 DEF StartRead, ReaderTypes
    <3> QED
      BY <3>1, <3>2, <3>4
  <2>2. CASE Fill(f)
    <3> DEFINE left == IF filepos < files[file].length
                       THEN files[file].length - filepos ELSE 0
               n == Min({SlotSize, left})
               base == writeslot * SlotSize
    <3>1. /\ buf' = [i \in DOMAIN buf |->
                       IF i \in base .. base + n - 1 THEN FileTime(file, filepos + i - base)
                       ELSE buf[i]]
          /\ filepos' = filepos + n
          /\ lastslot' = IF n < SlotSize THEN writeslot ELSE lastslot
          /\ endindex' = IF n < SlotSize THEN base + n ELSE endindex
          /\ writeslot' = IF writeslot + 1 >= Slots THEN 1 ELSE writeslot + 1
          /\ UNCHANGED <<lockVars, overlap, lapped>>
      BY <2>2 DEF Fill
    <3>2. files[file].start \in Int /\ files[file].length \in Int
      BY <1>3, Files
    <3>3. filepos \in Int /\ writeslot \in 1 .. lockmod /\ writeslot \in Int
      BY <1>1, Constants DEF ReaderTypes
    <3>4. left \in Int
      BY <3>2, <3>3
    <3> HIDE DEF left
    <3>5. n \in Int
      BY <3>4, Constants, Less
    <3>6. base \in Int
      BY <3>3, Constants
    <3> HIDE DEF n, base
    <3>7. LockTypes'
      BY <3>1, <1>1 DEF lockVars, LockTypes
    <3>8. BufTypes'
      <4>1. \A i \in Int : FileTime(file, filepos + i - base) \in Int
        BY <3>2, <3>3, <3>6 DEF FileTime
      <4>2. DOMAIN buf = 0 .. RingSize - 1 /\ \A i \in 0 .. RingSize - 1 : buf[i] \in Int
        BY <1>1 DEF BufTypes
      <4> QED
        BY <3>1, <4>1, <4>2 DEF BufTypes
    <3>9. filepos' \in Int /\ lastslot' \in Int /\ endindex' \in Int
      BY <3>1, <3>3, <3>5, <3>6, <1>1 DEF ReaderTypes
    <3>10. writeslot' \in 1 .. lockmod
      BY <3>1, <3>3, Constants
    <3>11. ReaderTypes'
      BY <3>1, <1>1, <1>5, <1>7, <3>9, <3>10 DEF ReaderTypes
    <3> QED
      BY <3>7, <3>8, <3>11
  <2>3. CASE LockNext(f)
    <3>1. LockTypes'
      <4>1. lockSlot(writeslot, Reader) /\ writeslot \in Int
        BY <2>3, <1>1, Constants DEF LockNext, ReaderTypes
      <4> QED
        BY <4>1, <1>1, LockTyped
    <3>2. BufTypes' /\ ReaderTypes'
      BY <2>3, <1>1, <1>5, <1>7 DEF LockNext, BufTypes, ReaderTypes
    <3> QED
      BY <3>1, <3>2
  <2>4. CASE UnlockThis(f)
    <3>1. LockTypes'
      BY <2>4, <1>1, UnlockTyped DEF UnlockThis
    <3>2. BufTypes' /\ ReaderTypes'
      BY <2>4, <1>1, <1>5, <1>7 DEF UnlockThis, BufTypes, ReaderTypes
    <3> QED
      BY <3>1, <3>2
  <2>5. CASE EndReader(f)
    <3>1. LockTypes'
      BY <2>5, <1>1, UnlockTyped DEF EndReader, unlockAllSlots
    <3>2. BufTypes' /\ ReaderTypes'
      BY <2>5, <1>1, <1>5, <1>7 DEF EndReader, BufTypes, ReaderTypes
    <3> QED
      BY <3>1, <3>2
  <2> QED
    BY <2>1, <2>2, <2>3, <2>4, <2>5 DEF ReaderStep
<1> QED
  BY <1>4, <1>6, <1>8 DEF Basic, TypeOK

LEMMA BasicStep == Basic /\ [Next]_vars => Basic'
<1> SUFFICES ASSUME Basic, [Next]_vars PROVE Basic'
  OBVIOUS
<1>1. CASE UNCHANGED vars
  BY <1>1 DEF vars, consumerVars, fileVars, lockVars, readerVars, Basic, TypeOK,
    FileTypes, ConsumerTypes, LockTypes, ReaderTypes, BufTypes, Threads, Running,
    Taking, Active
<1> QED
  BY <1>1, BasicConsumer, BasicReader DEF Next, Finished

LEMMA BasicInit == Init => Basic
<1> SUFFICES ASSUME Init PROVE Basic
  OBVIOUS
<1>1. FileTypes
  <2>1. files \in FileLists /\ file = 0 /\ taken = 0
        /\ dataremaining = FALSE /\ keepreading = TRUE
    BY DEF Init
  <2>2. Len(files) \in Nat
    BY <2>1, Files
  <2>3. dataremaining \in BOOLEAN /\ keepreading \in BOOLEAN
    BY <2>1, Zenon
  <2>4. file \in 0 .. Len(files) /\ taken \in Int
    BY <2>1, <2>2
  <2> QED
    BY <2>1, <2>3, <2>4, Zenon DEF FileTypes
<1>2. ConsumerTypes /\ Taking
  BY DEF Init, ConsumerTypes, Taking, Active
<1>3. LockTypes
  BY DEF Init, LockTypes
<1>4. ReaderTypes /\ Threads
  <2>1. /\ rpc = [f \in Readers |-> "none"] /\ curslot = [f \in Readers |-> 0]
        /\ endofscan = [f \in Readers |-> FALSE] /\ keepreading = TRUE
        /\ overlap = FALSE /\ lapped = FALSE /\ writeslot = 1
        /\ filepos = 0 /\ lastslot = -2 /\ endindex = 0
    BY DEF Init
  <2>2. 0 \in 0 .. lockmod /\ 1 \in 1 .. lockmod
    BY Constants
  <2>3. ReaderTypes
    <3>1. rpc \in [Readers -> {"none", "top", "fill", "lock", "unlock", "done"}]
      BY <2>1
    <3>2. curslot \in [Readers -> 0 .. lockmod] /\ endofscan \in [Readers -> BOOLEAN]
      BY <2>1, <2>2
    <3>3. overlap \in BOOLEAN /\ lapped \in BOOLEAN
      BY <2>1, Zenon
    <3>4. filepos \in Int /\ lastslot \in Int /\ endindex \in Int /\ writeslot \in 1 .. lockmod
      BY <2>1, <2>2
    <3> QED
      BY <3>1, <3>2, <3>3, <3>4, Zenon DEF ReaderTypes
  <2>4. Threads
    BY <2>1 DEF Threads, Running
  <2> QED
    BY <2>3, <2>4
<1>5. BufTypes
  BY DEF Init, BufTypes, Junk
<1> QED
  BY <1>1, <1>2, <1>3, <1>4, <1>5 DEF Basic, TypeOK

-----------------------------------------------------------------------------
(* Slots are counted on from the consumer's: slot W and W - lockmod have   *)
(* the same lock, and slot lockmod + 1 is slot 1 again.  Before the first  *)
(* lock the consumer is taken to be at slot 1.                             *)
First == lockstart = -1 \/ cpc = "lockfirst"
Mx == IF lockstart = -1 THEN SlotSize ELSE muxindex
Turn == IF cpc = "wrap" THEN lockmod ELSE 0
Lo == lockstart - Turn
Hi == lockend - Turn
Held(x) == mutex[x % lockmod]
Place(x) == IF x < RingSize THEN x ELSE x - B(lockmod)

(* What has been read and not taken yet is in the ring.                    *)
Data ==
  \A i \in Int : 0 <= i /\ i < filepos - taken =>
    buf[Place(Mx + i)] = FileTime(file, taken + i)

(* The reader is at slot W, and holds the locks From(W) .. To(W).          *)
From(W) == IF rpc[file] \in {"lock", "unlock"} THEN W - 1 ELSE W
To(W) == IF rpc[file] = "lock" THEN W - 1 ELSE W
Written(W) ==
  /\ rpc[file] \in {"top", "fill", "lock", "unlock"} /\ ~endofscan[file]
  /\ W \in {writeslot, writeslot + lockmod}
  /\ Mx + (filepos - taken) = B(W)
  /\ filepos <= files[file].length
  /\ Mx <= B(lockmod)
ReaderHolds(W) ==
  /\ \A x \in From(W) .. To(W) : Held(x)
  /\ rpc[file] \in {"lock", "unlock"} => curslot[file] % lockmod = (W - 1) % lockmod
FirstLap(W) ==
  First =>
    /\ 1 <= From(W) /\ W <= lockmod + 1
    /\ rpc[file] = "fill" => W <= lockmod
    /\ W > 1 => curslot[file] # 0
ConsumerHolds(W) ==
  ~First =>
    /\ Lo <= Hi /\ Hi < From(W) /\ To(W) < Lo + lockmod
    /\ \A x \in Lo .. Hi : Held(x)
    /\ Mx <= B(Hi + 1) /\ B(Hi) <= Mx + 2 * ReadSize - 1
    /\ cpc = "wrap" => Hi = 0

(* The consumer's place, its locks and the slots it looks at.              *)
Looking ==
  /\ ~First => Mx >= 0 /\ B(Lo) <= Mx
  /\ cpc \in {"lockmore", "mux"} => n2 >= 0 /\ B(n2) <= Mx + 2 * ReadSize - 1
  /\ cpc = "lockmore" => lockend < n2
  /\ cpc = "mux" => n2 <= lockend
  /\ cpc = "wrap" => muxindex = SlotSize

Begun(W) ==
  /\ lastslot = -1
  /\ Data /\ Written(W) /\ ReaderHolds(W) /\ FirstLap(W) /\ ConsumerHolds(W)
  /\ Looking

(* The reader has come to the end of the file, endindex.                   *)
Ended ==
  /\ rpc[file] \in {"lock", "unlock", "top", "done"} /\ endofscan[file]
  /\ filepos = files[file].length
  /\ lastslot \in 1 .. lockmod
  /\ B(lastslot) <= endindex /\ endindex < B(lastslot) + SlotSize
Left ==
  filepos > taken =>
    /\ filepos - taken < B(lockmod)
    /\ Mx + (filepos - taken) \in {endindex, endindex + B(lockmod)}
    /\ Mx > B(lockmod) => Mx + (filepos - taken) = endindex
    /\ Looking
Over == Data /\ Ended /\ Left

Good == Active /\ ~overlap /\ ~lapped => (\E W \in Int : Begun(W)) \/ Over
Inv == Basic /\ Good

LEMMA Current ==
  ASSUME Basic, Active
  PROVE  /\ file \in Readers /\ file \in 1 .. Len(files) /\ files \in FileLists
         /\ files[file].length \in Int /\ files[file].start \in Int
         /\ Mx \in Int /\ Lo \in Int /\ Hi \in Int /\ Turn \in Int
         /\ filepos \in Int /\ taken \in Int /\ keepreading
         /\ lockstart \in Int /\ lockend \in Int /\ muxindex \in Int /\ n2 \in Int
         /\ lastslot \in Int /\ endindex \in Int /\ writeslot \in 1 .. lockmod
         /\ writeslot \in Int
<1>1. /\ FileTypes /\ ConsumerTypes /\ ReaderTypes /\ Threads /\ Taking
  BY DEF Basic, TypeOK
<1>2. file \in 1 .. Len(files) /\ files \in FileLists
  <2>1. Len(files) \in Nat /\ file >= 1
    BY <1>1, Files DEF Taking, FileTypes
  <2> QED
    BY <1>1, <2>1 DEF FileTypes
<1>3. file \in Readers /\ files[file].length \in Int /\ files[file].start \in Int
  BY <1>2, Files
<1>4. Mx \in Int /\ Turn \in Int /\ Lo \in Int /\ Hi \in Int
  BY <1>1, Constants DEF Mx, Turn, Lo, Hi, ConsumerTypes
<1>5. keepreading
  <2>1. cpc \notin {"join", "exit"}
    BY DEF Active
  <2>2. keepreading \in BOOLEAN
    BY <1>1 DEF FileTypes
  <2> QED
    BY <1>1, <2>1, <2>2, Zenon DEF Threads
<1> QED
  BY <1>1, <1>2, <1>3, <1>4, <1>5, Constants DEF FileTypes, ConsumerTypes, ReaderTypes

(* What taking and giving up locks does.                                   *)
LEMMA Locking ==
  ASSUME LockTypes, NEW slot \in Int, NEW who, lockSlot(slot, who)
  PROVE  /\ ~Held(slot)
         /\ \A x \in Int : Held(x) \/ x % lockmod = slot % lockmod => Held(x)'
<1>1. \A x \in Int : x % lockmod \in 0 .. lockmod - 1
  BY Residue
<1> QED
  BY <1>1 DEF LockTypes, lockSlot, Held

LEMMA Unlocking ==
  ASSUME LockTypes, NEW slots \in SUBSET Int, unlockSlots(slots)
  PROVE  \A x \in Int : Held(x) /\ (\A y \in slots : y % lockmod # x % lockmod)
                          => Held(x)'
<1>1. \A x \in Int : x % lockmod \in 0 .. lockmod - 1
  BY Residue
<1> QED
  BY <1>1 DEF LockTypes, unlockSlots, Held

(* Two slots less than the ring apart have locks of their own.             *)
LEMMA Apart ==
  ASSUME NEW a \in Int, NEW b \in Int, a % lockmod = b % lockmod,
         a < b + lockmod, b < a + lockmod
  PROVE  a = b
<1>1. a < b \/ a = b \/ b < a
  OBVIOUS
<1> QED
  BY <1>1, Residue

(* A slot held is not one that is free to lock.                            *)
LEMMA Distinct ==
  ASSUME NEW a \in Int, NEW b \in Int, Held(a), ~Held(b)
  PROVE  a # b /\ a # b - lockmod /\ a # b + lockmod
<1>1. b % lockmod = (b - lockmod) % lockmod /\ b % lockmod = (b + lockmod) % lockmod
  BY Residue
<1> QED
  BY <1>1 DEF Held

-----------------------------------------------------------------------------
(* The consumer's steps.                                                   *)

(* A step that neither takes nor writes frames.                            *)
LEMMA NothingTaken ==
  ASSUME Basic, Active, Mx' = Mx, UNCHANGED <<files, file, taken, readerVars>>
  PROVE  /\ Data => Data'
         /\ Ended => Ended'
         /\ \A W \in Int : /\ From(W)' = From(W) /\ To(W)' = To(W)
                           /\ Written(W) => Written(W)'
<1>1. UNCHANGED <<buf, filepos, rpc, endofscan, writeslot, lastslot, endindex>>
  BY DEF readerVars
<1>2. Data => Data'
  BY <1>1 DEF Data, Place, FileTime
<1>3. Ended => Ended'
  BY <1>1 DEF Ended
<1>4. ASSUME NEW W \in Int
      PROVE  /\ From(W)' = From(W) /\ To(W)' = To(W)
             /\ Written(W) => Written(W)'
  BY <1>1 DEF From, To, Written
<1> QED
  BY <1>2, <1>3, <1>4

LEMMA GoodOpen ==
  ASSUME Inv, OpenFile
  PROVE  Good'
<1> SUFFICES ASSUME Active', ~overlap', ~lapped' PROVE \E W \in Int : Begun(W)'
  BY DEF Good
<1>0. Basic
  BY DEF Inv
<1>1. Basic'
  BY <1>0, BasicConsumer DEF ConsumerStep
<1>2. /\ file' = file + 1 /\ cpc' = "read" /\ lockstart' = -1 /\ lastslot' = -1
      /\ writeslot' = 1 /\ rpc' = [rpc EXCEPT ![file'] = "top"]
      /\ UNCHANGED <<endofscan, curslot, files>> /\ lockSlot(1, Reader)
      /\ dataremaining'
  BY DEF OpenFile, Active
<1>3. PICK jump \in Jumps : taken' = jump /\ filepos' = jump
             /\ dataremaining' = (jump < files[file'].length)
  BY DEF OpenFile
<1>4. jump \in Int /\ jump < files[file'].length
  <2>1. jump \in Int
    BY SlotsAssumption
  <2>2. jump < files[file'].length
    BY <1>2, <1>3, Zenon
  <2> QED
    BY <2>1, <2>2
<1>5. /\ file' \in Readers /\ file' > file /\ Threads /\ LockTypes
      /\ rpc \in [Readers -> {"none", "top", "fill", "lock", "unlock", "done"}]
  <2>0. Len(files) \in Nat /\ file \in 0 .. Len(files) /\ file < Len(files)
        /\ files \in FileLists
    BY <1>0, Files DEF Basic, TypeOK, FileTypes, OpenFile
  <2>1. file' \in Readers
    <3>1. file' \in 1 .. Len(files)
      BY <2>0, <1>2
    <3> QED
      BY <2>0, <3>1, Files
  <2>2. file \in Int
    BY <2>0
  <2> QED
    BY <1>0, <1>2, <2>1, <2>2 DEF Basic, TypeOK, ReaderTypes
<1>6. rpc'[file'] = "top" /\ ~endofscan'[file']
  BY <1>2, <1>5 DEF Threads
<1>7. Held(1)'
  BY <1>2, <1>5, Locking
<1>8. Mx' = SlotSize
  BY <1>2 DEF Mx
<1>9. Data'
  BY <1>3, <1>4 DEF Data
<1>10. Written(1)'
  <2>1. SlotSize = B(1) /\ B(1) <= B(lockmod)
    BY Places, Constants
  <2>2. Mx' + (filepos' - taken') = B(1)
    BY <1>3, <1>4, <1>8, <2>1, Constants
  <2>3. filepos' <= files'[file'].length
    <3>1. files'[file'].length \in Int
      <4>1. Len(files) \in Nat /\ file \in 0 .. Len(files) /\ file < Len(files)
            /\ files \in FileLists
        BY <1>0, Files DEF Basic, TypeOK, FileTypes, OpenFile
      <4>2. file' \in 1 .. Len(files)
        BY <4>1, <1>2
      <4> QED
        BY <4>1, <4>2, <1>2, Files
    <3> QED
      BY <1>2, <1>3, <1>4, <3>1
  <2> QED
    BY <1>2, <1>6, <1>8, <2>1, <2>2, <2>3 DEF Written
<1>11. From(1)' = 1 /\ To(1)' = 1
  BY <1>6 DEF From, To
<1>12. ReaderHolds(1)'
  BY <1>6, <1>7, <1>11 DEF ReaderHolds
<1>13. First'
  BY <1>2 DEF First
<1>14. FirstLap(1)'
  BY <1>6, <1>11, Constants DEF FirstLap
<1>15. ConsumerHolds(1)' /\ Looking'
  BY <1>2, <1>13 DEF ConsumerHolds, Looking
<1>16. Begun(1)'
  BY <1>2, <1>9, <1>10, <1>12, <1>14, <1>15 DEF Begun
<1> QED
  BY <1>16

(* FirstRead and LaterRead.                                                *)
LEMMA GoodRead ==
  ASSUME Inv, FirstRead \/ LaterRead
  PROVE  Good'
<1> SUFFICES ASSUME Active', ~overlap', ~lapped'
             PROVE  (\E W \in Int : Begun(W)') \/ Over'
  BY DEF Good
<1>0. Basic /\ Good
  BY DEF Inv
<1>1. /\ cpc = "read" /\ UNCHANGED <<fileVars, lockVars, readerVars>>
      /\ \/ /\ lockstart = -1 /\ muxindex' = SlotSize /\ lockstart' = 1 /\ lockend' = 1
            /\ cpc' = "lockfirst"
         \/ /\ lockstart # -1 /\ UNCHANGED <<lockstart, lockend, muxindex>>
            /\ cpc' = "choose"
  BY DEF FirstRead, LaterRead, CGo
<1>2. Active /\ ~overlap /\ ~lapped
  BY <1>1 DEF Active, fileVars, readerVars
<1>3. Mx' = Mx /\ First' = First /\ (~First => Lo' = Lo /\ Hi' = Hi)
      /\ Turn' = 0 /\ Turn = 0
  BY <1>1, Constants DEF Mx, First, Lo, Hi, Turn
<1>4. UNCHANGED <<files, file, taken, mutex, buf, filepos, rpc, curslot, endofscan,
                 lastslot, endindex>>
  BY <1>1 DEF fileVars, lockVars, readerVars
<1>5. Looking => Looking'
  BY <1>1, <1>3 DEF Looking
<1>6. UNCHANGED <<files, file, taken, readerVars>>
  BY <1>1, <1>4
<1>7. CASE \E W \in Int : Begun(W)
  <2>1. PICK W \in Int : Begun(W)
    BY <1>7
  <2>2. Data' /\ Written(W)' /\ From(W)' = From(W) /\ To(W)' = To(W)
    BY <1>0, <1>2, <1>3, <1>6, <2>1, NothingTaken DEF Begun
  <2>3. ReaderHolds(W)'
    BY <1>4, <2>1, <2>2 DEF Begun, ReaderHolds, Held
  <2>4. FirstLap(W)'
    BY <1>3, <1>4, <2>1, <2>2 DEF Begun, FirstLap
  <2>5. ConsumerHolds(W)'
    BY <1>1, <1>3, <1>4, <2>1, <2>2 DEF Begun, ConsumerHolds, Held
  <2>6. Begun(W)'
    BY <1>4, <1>5, <2>1, <2>2, <2>3, <2>4, <2>5 DEF Begun
  <2> QED
    BY <2>6
<1>8. CASE Over
  <2>1. Data' /\ Ended'
    BY <1>0, <1>2, <1>3, <1>6, <1>8, NothingTaken DEF Over
  <2>2. Left'
    BY <1>3, <1>4, <1>5, <1>8 DEF Over, Left
  <2> QED
    BY <2>1, <2>2 DEF Over
<1> QED
  BY <1>0, <1>2, <1>7, <1>8 DEF Good

LEMMA GoodLockFirst ==
  ASSUME Inv, LockFirst
  PROVE  Good'
<1> SUFFICES ASSUME Active', ~overlap', ~lapped'
             PROVE  (\E W \in Int : Begun(W)') \/ Over'
  BY DEF Good
<1>0. Basic /\ Good /\ LockTypes
  BY DEF Inv, Basic, TypeOK
<1>1. /\ cpc = "lockfirst" /\ cpc' = "choose" /\ lockSlot(lockstart, Consumer)
      /\ UNCHANGED <<lockstart, lockend, muxindex, n2, fileVars, readerVars>>
  BY DEF LockFirst, CGo
<1>2. Active /\ ~overlap /\ ~lapped
  BY <1>1 DEF Active, fileVars, readerVars
<1>3. lockstart = 1 /\ lockend = 1 /\ muxindex = SlotSize /\ SlotSize \in Int
  BY <1>0, <1>1, Constants DEF Basic, Taking
<1>4. Mx = SlotSize /\ Mx' = SlotSize /\ First /\ ~First' /\ Lo' = 1 /\ Hi' = 1
  BY <1>1, <1>3 DEF Mx, First, Lo, Hi, Turn
<1>5. UNCHANGED <<files, file, taken, filepos, rpc, curslot, lastslot, endindex, readerVars>>
  BY <1>1 DEF fileVars, readerVars
<1>6. Looking'
  BY <1>1, <1>4, Places, Constants DEF Looking
<1>7. ~Held(1) /\ Held(1)' /\ \A x \in Int : Held(x) => Held(x)'
  BY <1>0, <1>1, <1>3, Locking
<1>8. CASE \E W \in Int : Begun(W)
  <2>1. PICK W \in Int : Begun(W)
    BY <1>8
  <2>2. Data' /\ Written(W)' /\ From(W)' = From(W) /\ To(W)' = To(W)
    BY <1>0, <1>2, <1>4, <1>5, <2>1, NothingTaken DEF Begun
  <2>3. \A x \in From(W) .. To(W) : Held(x) /\ x # 1 /\ x # lockmod + 1
    <3>1. \A x \in From(W) .. To(W) : Held(x)
      BY <2>1 DEF Begun, ReaderHolds
    <3> QED
      BY <3>1, <1>7, Distinct, Constants
  <2>4. 1 < From(W) /\ To(W) < lockmod + 1
    <3>1. 1 <= From(W) /\ W <= lockmod + 1
      BY <1>4, <2>1 DEF Begun, FirstLap
    <3>2. From(W) \in {W, W - 1} /\ To(W) \in {W, W - 1} /\ From(W) <= To(W)
      BY DEF From, To
    <3>3. From(W) \in From(W) .. To(W) /\ To(W) \in From(W) .. To(W)
      BY <3>2
    <3>4. From(W) # 1 /\ To(W) # lockmod + 1
      BY <2>3, <3>3
    <3> QED
      BY <3>1, <3>2, <3>4, Constants
  <2>5. ReaderHolds(W)'
    <3>1. \A x \in From(W) .. To(W) : x \in Int
      BY DEF From, To
    <3> QED
      BY <1>5, <1>7, <2>1, <2>2, <2>3, <3>1 DEF Begun, ReaderHolds
  <2>6. FirstLap(W)'
    BY <1>4 DEF FirstLap
  <2>7. ConsumerHolds(W)'
    <3>1. \A x \in 1 .. 1 : Held(x)'
      BY <1>7
    <3>2. B(1) = SlotSize /\ B(1 + 1) = SlotSize + SlotSize
      BY Places
    <3> QED
      BY <1>1, <1>4, <2>2, <2>4, <3>1, <3>2, Constants DEF ConsumerHolds
  <2>8. Begun(W)'
    BY <1>5, <1>6, <2>1, <2>2, <2>5, <2>6, <2>7 DEF Begun
  <2> QED
    BY <2>8
<1>9. CASE Over
  <2>1. Data' /\ Ended'
    BY <1>0, <1>2, <1>4, <1>5, <1>9, NothingTaken DEF Over
  <2>2. Left'
    BY <1>4, <1>5, <1>6, <1>9 DEF Over, Left
  <2> QED
    BY <2>1, <2>2 DEF Over
<1> QED
  BY <1>0, <1>2, <1>8, <1>9 DEF Good

LEMMA GoodChoose ==
  ASSUME Inv, Choose
  PROVE  Good'
<1> SUFFICES ASSUME Active', ~overlap', ~lapped'
             PROVE  (\E W \in Int : Begun(W)') \/ Over'
  BY DEF Good
<1>0. Basic /\ Good
  BY DEF Inv
<1>1. /\ cpc = "choose" /\ n2' = LastWanted
      /\ cpc' = IF lockend < n2' THEN "lockmore" ELSE "mux"
      /\ UNCHANGED <<lockstart, lockend, muxindex, fileVars, lockVars, readerVars>>
  BY DEF Choose
<1>2. Active /\ ~overlap /\ ~lapped
  BY <1>1 DEF Active, fileVars, readerVars
<1>3. lockstart >= 0 /\ lockstart \in Int /\ lockend \in Int /\ muxindex \in Int
      /\ endindex \in Int
  BY <1>0, <1>1, <1>2, Current DEF Basic, Taking
<1>4. Mx' = Mx /\ Mx = muxindex /\ ~First /\ ~First' /\ Lo' = Lo /\ Hi' = Hi
  BY <1>1, <1>3, Constants DEF Mx, First, Lo, Hi, Turn
<1>5. UNCHANGED <<files, file, taken, mutex, filepos, rpc, curslot, lastslot, endindex,
                 readerVars>>
  BY <1>1 DEF fileVars, lockVars, readerVars
<1>6. ASSUME Looking PROVE Looking'
  <2>1. Mx >= 0 /\ B(Lo) <= Mx
    BY <1>4, <1>6 DEF Looking
  <2>2. PICK last \in Int : /\ LastWanted = last \div SlotSize
                            /\ last >= 0 /\ last <= Mx + 2 * ReadSize - 1
    <3>1. CASE lastslot >= 0 /\ muxindex + ReadSize > endindex /\ muxindex < endindex
      <4>1. /\ endindex - 1 \in Int /\ endindex - 1 >= 0
            /\ endindex - 1 <= Mx + 2 * ReadSize - 1
        BY <1>3, <1>4, <2>1, <3>1, Constants
      <4> QED
        BY <3>1, <4>1 DEF LastWanted
    <3>2. CASE ~ (lastslot >= 0 /\ muxindex + ReadSize > endindex /\ muxindex < endindex)
      <4>1. /\ muxindex + 2 * ReadSize - 1 \in Int /\ muxindex + 2 * ReadSize - 1 >= 0
            /\ muxindex + 2 * ReadSize - 1 <= Mx + 2 * ReadSize - 1
        BY <1>3, <1>4, <2>1, Constants
      <4> QED
        BY <3>2, <4>1 DEF LastWanted
    <3> QED
      BY <3>1, <3>2
  <2>3. n2' = last \div SlotSize /\ n2' \in Int /\ B(n2') <= last /\ n2' >= 0
    <3>1. /\ last \div SlotSize \in Int /\ B(last \div SlotSize) <= last
          /\ (B(0) <= last <=> 0 <= last \div SlotSize)
      BY Slot
    <3>2. B(0) = 0
      BY Places
    <3> QED
      BY <1>1, <2>2, <3>1, <3>2
  <2>4. B(n2') \in Int
    BY <2>3, Places
  <2>5. B(n2') <= Mx + 2 * ReadSize - 1
    BY <2>2, <2>3, <2>4, <1>3, <1>4, Constants
  <2>6. B(n2)' = B(n2')
    BY DEF B
  <2> QED
    BY <1>1, <1>3, <1>4, <2>1, <2>3, <2>5, <2>6 DEF Looking, B
<1>7. CASE \E W \in Int : Begun(W)
  <2>1. PICK W \in Int : Begun(W)
    BY <1>7
  <2>2. Data' /\ Written(W)' /\ From(W)' = From(W) /\ To(W)' = To(W)
    BY <1>0, <1>2, <1>4, <1>5, <2>1, NothingTaken DEF Begun
  <2>3. ReaderHolds(W)'
    BY <1>5, <2>1, <2>2 DEF Begun, ReaderHolds, Held
  <2>4. FirstLap(W)'
    BY <1>4 DEF FirstLap
  <2>5. ConsumerHolds(W)'
    BY <1>1, <1>4, <1>5, <2>1, <2>2 DEF Begun, ConsumerHolds, Held
  <2>6. Begun(W)'
    BY <1>5, <1>6, <2>1, <2>2, <2>3, <2>4, <2>5 DEF Begun
  <2> QED
    BY <2>6
<1>8. CASE Over
  <2>1. Data' /\ Ended'
    BY <1>0, <1>2, <1>4, <1>5, <1>8, NothingTaken DEF Over
  <2>2. Left'
    BY <1>4, <1>5, <1>6, <1>8 DEF Over, Left
  <2> QED
    BY <2>1, <2>2 DEF Over
<1> QED
  BY <1>0, <1>2, <1>7, <1>8 DEF Good

LEMMA GoodLockMore ==
  ASSUME Inv, LockMore
  PROVE  Good'
<1> SUFFICES ASSUME Active', ~overlap', ~lapped'
             PROVE  (\E W \in Int : Begun(W)') \/ Over'
  BY DEF Good
<1>0. Basic /\ Good /\ LockTypes
  BY DEF Inv, Basic, TypeOK
<1>1. /\ cpc = "lockmore" /\ lockend' = lockend + 1
      /\ cpc' = IF lockend' < n2 THEN "lockmore" ELSE "mux"
      /\ UNCHANGED <<lockstart, muxindex, n2, fileVars, readerVars>>
  BY DEF LockMore
<1>2. Active /\ ~overlap /\ ~lapped
  BY <1>1 DEF Active, fileVars, readerVars
<1>3. lockstart >= 0 /\ lockstart \in Int /\ lockend \in Int /\ muxindex \in Int
      /\ n2 \in Int
  BY <1>0, <1>1, <1>2, Current DEF Basic, Taking
<1>4. /\ Mx' = Mx /\ Mx = muxindex /\ ~First /\ ~First'
      /\ Lo' = Lo /\ Lo = lockstart /\ Hi = lockend /\ Hi' = Hi + 1 /\ Hi \in Int
      /\ Lo \in Int
  BY <1>1, <1>3, Constants DEF Mx, First, Lo, Hi, Turn
<1>5. UNCHANGED <<files, file, taken, filepos, rpc, curslot, lastslot, endindex,
                 readerVars>>
  BY <1>1 DEF fileVars, readerVars
<1>6. Looking => Looking'
  BY <1>1, <1>3, <1>4 DEF Looking, B
<1>7. PICK h \in Int : /\ h = Hi + 1 /\ ~Held(h) /\ Held(h)'
                      /\ \A x \in Int : Held(x) => Held(x)'
  <2>1. PICK s \in Int : s = lockend + 1
    BY <1>3
  <2>2. lockSlot(s, Consumer)
    <3>1. lockend >= 0
      BY <1>0, <1>1, <1>2 DEF Basic, Taking
    <3>2. ~(lockend' < 0)
      BY <1>1, <1>3, <3>1
    <3> QED
      BY <1>1, <2>1, <3>2 DEF LockMore
  <2>3. ~Held(s) /\ Held(s)' /\ \A x \in Int : Held(x) => Held(x)'
    BY <1>0, <2>2, Locking
  <2>4. s = Hi + 1
    BY <1>4, <2>1
  <2> QED
    BY <2>3, <2>4
<1>8. CASE \E W \in Int : Begun(W)
  <2>1. PICK W \in Int : Begun(W)
    BY <1>8
  <2>2. Data' /\ Written(W)' /\ From(W)' = From(W) /\ To(W)' = To(W)
    BY <1>0, <1>2, <1>4, <1>5, <2>1, NothingTaken DEF Begun
  <2>3. \A x \in From(W) .. To(W) : x \in Int /\ Held(x) /\ x # h
    <3>1. \A x \in From(W) .. To(W) : Held(x)
      BY <2>1 DEF Begun, ReaderHolds
    <3>2. \A x \in From(W) .. To(W) : x \in Int
      BY DEF From, To
    <3> QED
      BY <3>1, <3>2, <1>7
  <2>4. Hi + 1 < From(W)
    <3>1. Hi < From(W)
      BY <1>4, <2>1 DEF Begun, ConsumerHolds
    <3>2. From(W) \in {W, W - 1} /\ To(W) \in {W, W - 1} /\ From(W) <= To(W)
      BY DEF From, To
    <3>3. From(W) \in From(W) .. To(W)
      BY <3>2
    <3> QED
      BY <1>4, <1>7, <2>3, <3>1, <3>2, <3>3
  <2>5. ReaderHolds(W)'
    BY <1>5, <1>7, <2>1, <2>2, <2>3 DEF Begun, ReaderHolds
  <2>6. FirstLap(W)'
    BY <1>4 DEF FirstLap
  <2>7. ConsumerHolds(W)'
    <3>1. /\ Lo <= Hi /\ To(W) < Lo + lockmod /\ Mx <= B(Hi + 1)
          /\ \A x \in Lo .. Hi : Held(x)
      BY <1>4, <2>1 DEF Begun, ConsumerHolds
    <3>2. Mx <= B(Hi + 1 + 1)
      <4>1. B(Hi + 1 + 1) = B(Hi + 1) + SlotSize /\ B(Hi + 1) \in Int
        <5>1. Hi + 1 \in Int
          BY <1>4
        <5> QED
          BY <5>1, Places
      <4> QED
        BY <3>1, <4>1, <1>3, <1>4, Constants
    <3>3. B(Hi + 1) <= Mx + 2 * ReadSize - 1
      <4>1. B(n2) <= Mx + 2 * ReadSize - 1 /\ Hi + 1 <= n2
        BY <1>1, <1>3, <1>4, <2>1 DEF Begun, Looking
      <4>2. h <= n2 /\ n2 \in Int
        BY <4>1, <1>3, <1>7
      <4>3. B(h) <= B(n2) /\ B(h) \in Int /\ B(n2) \in Int
        BY <4>2, Places
      <4> QED
        BY <4>1, <4>3, <1>3, <1>4, <1>7, Constants
    <3>4. \A x \in Int : Lo <= x /\ x <= Hi + 1 => Held(x)'
      <4> SUFFICES ASSUME NEW x \in Int, Lo <= x, x <= Hi + 1 PROVE Held(x)'
        OBVIOUS
      <4>1. CASE x = h
        BY <4>1, <1>7
      <4>2. CASE x # h
        <5>1. x \in Lo .. Hi
          BY <4>2, <1>4, <1>7
        <5> QED
          BY <5>1, <3>1, <1>7
      <4> QED
        BY <4>1, <4>2
    <3>5. /\ Lo' <= Hi' /\ Hi' < From(W)' /\ To(W)' < Lo' + lockmod
          /\ cpc' # "wrap" /\ Mx' <= B(Hi' + 1) /\ B(Hi') <= Mx' + 2 * ReadSize - 1
      BY <1>1, <1>4, <2>2, <2>4, <3>1, <3>2, <3>3
    <3>6. \A x \in Lo' .. Hi' : Held(x)'
      BY <3>4, <1>4
    <3> QED
      BY <3>5, <3>6 DEF ConsumerHolds, B
  <2>8. Begun(W)'
    BY <1>5, <1>6, <2>1, <2>2, <2>5, <2>6, <2>7 DEF Begun
  <2> QED
    BY <2>8
<1>9. CASE Over
  <2>1. Data' /\ Ended'
    BY <1>0, <1>2, <1>4, <1>5, <1>9, NothingTaken DEF Over
  <2>2. Left'
    BY <1>4, <1>5, <1>6, <1>9 DEF Over, Left
  <2> QED
    BY <2>1, <2>2 DEF Over
<1> QED
  BY <1>0, <1>2, <1>8, <1>9 DEF Good

LEMMA GoodHouseKeep ==
  ASSUME Inv, HouseKeep
  PROVE  Good'
<1> SUFFICES ASSUME Active', ~overlap', ~lapped'
             PROVE  (\E W \in Int : Begun(W)') \/ Over'
  BY DEF Good
<1>0. Basic /\ Good
  BY DEF Inv
<1> DEFINE over == NextTime >= JobEnd \/ readscan' > NumScans
<1>1. /\ cpc = "housekeep"
      /\ cpc' = CASE over -> IF lockstart >= 0 THEN "join" ELSE "exit"
               [] ~over /\ (dataremaining \/ numread' < 3) -> "read"
               [] OTHER -> "open"
      /\ dataremaining' => dataremaining
      /\ IF over /\ lockstart >= 0 THEN unlockAllSlots(Consumer) ELSE UNCHANGED lockVars
      /\ UNCHANGED <<lockstart, lockend, muxindex, n2, files, file, taken, readerVars>>
  BY DEF HouseKeep
<1> HIDE DEF over
<1>2. cpc' = "read" /\ dataremaining /\ UNCHANGED lockVars
  BY <1>1 DEF Active
<1>3. Active /\ ~overlap /\ ~lapped
  BY <1>1, <1>2 DEF Active, readerVars
<1>4. /\ Mx' = Mx /\ First' = First /\ Lo' = Lo /\ Hi' = Hi
  BY <1>1, <1>2 DEF Mx, First, Lo, Hi, Turn
<1>5. UNCHANGED <<files, file, taken, mutex, filepos, rpc, curslot, lastslot, endindex,
                 readerVars>>
  BY <1>1, <1>2 DEF lockVars, readerVars
<1>6. Looking => Looking'
  BY <1>1, <1>2, <1>4 DEF Looking, B
<1>7. CASE \E W \in Int : Begun(W)
  <2>1. PICK W \in Int : Begun(W)
    BY <1>7
  <2>2. Data' /\ Written(W)' /\ From(W)' = From(W) /\ To(W)' = To(W)
    BY <1>0, <1>3, <1>4, <1>5, <2>1, NothingTaken DEF Begun
  <2>3. ReaderHolds(W)'
    BY <1>5, <2>1, <2>2 DEF Begun, ReaderHolds, Held
  <2>4. FirstLap(W)'
    BY <1>4, <1>5, <2>1, <2>2 DEF Begun, FirstLap
  <2>5. ConsumerHolds(W)'
    BY <1>2, <1>4, <1>5, <2>1, <2>2 DEF Begun, ConsumerHolds, Held
  <2>6. Begun(W)'
    BY <1>5, <1>6, <2>1, <2>2, <2>3, <2>4, <2>5 DEF Begun
  <2> QED
    BY <2>6
<1>8. CASE Over
  <2>1. Data' /\ Ended'
    BY <1>0, <1>3, <1>4, <1>5, <1>8, NothingTaken DEF Over
  <2>2. Left'
    BY <1>4, <1>5, <1>6, <1>8 DEF Over, Left
  <2> QED
    BY <2>1, <2>2 DEF Over
<1> QED
  BY <1>0, <1>3, <1>7, <1>8 DEF Good

(* The frames behind index are where the consumer looks for them when it   *)
(* goes on at index.                                                       *)
LEMMA Kept ==
  ASSUME Basic, Active, Data, NEW index \in Int, Mx <= index, Mx' = index,
         taken' = taken + (index - Mx), UNCHANGED <<files, file, filepos, buf>>
  PROVE  Data'
<1>0. Mx \in Int /\ taken \in Int /\ filepos \in Int
  BY Current
<1>1. ASSUME NEW i \in Int, 0 <= i, i < filepos' - taken'
      PROVE  buf'[Place(Mx' + i)] = files'[file'].start + (taken' + i)
  <2>1. PICK j \in Int : j = i + (index - Mx)
    BY <1>0
  <2>2. 0 <= j /\ j < filepos - taken /\ Mx + j = Mx' + i /\ taken + j = taken' + i
    BY <1>0, <1>1, <2>1
  <2>3. buf[Place(Mx + j)] = files[file].start + (taken + j)
    BY <2>2 DEF Data, FileTime
  <2> QED
    BY <2>2, <2>3
<1> QED
  BY <1>1 DEF Data, FileTime

(* So they are a turn of the ring further down, whether the rest of the    *)
(* last slot has been moved or there is none.                              *)
LEMMA Turned ==
  ASSUME Basic, Active, Data, NEW index \in Int, Mx <= index,
         B(lockmod) <= index, index <= RingSize, Mx' = index - B(lockmod),
         taken' = taken + (index - Mx), UNCHANGED <<files, file, filepos>>,
         Mx + (filepos - taken) <= RingSize + B(lockmod),
         (index = RingSize /\ buf' = buf) \/ (index < RingSize /\ MoveDown(index))
  PROVE  Data'
<1>0. Mx \in Int /\ taken \in Int /\ filepos \in Int
  BY Current
<1>1. B(lockmod) \in Int /\ B(lockmod) >= SlotSize /\ RingSize = B(lockmod) + SlotSize
      /\ RingSize \in Int /\ SlotSize \in Int
  <2>1. B(1) <= B(lockmod) /\ B(1) = SlotSize /\ B(lockmod) \in Int
    BY Places, Constants
  <2> QED
    BY <2>1, Places, Constants
<1>2. ASSUME NEW i \in Int, 0 <= i, i < filepos' - taken'
      PROVE  buf'[Place(Mx' + i)] = files'[file'].start + (taken' + i)
  <2>1. PICK j \in Int : j = i + (index - Mx)
    BY <1>0
  <2>2. 0 <= j /\ j < filepos - taken /\ Mx + j = index + i /\ taken + j = taken' + i
    BY <1>0, <1>2, <2>1
  <2>3. buf[Place(Mx + j)] = files[file].start + (taken + j)
    BY <2>2 DEF Data, FileTime
  <2>4. PICK p \in Int : p = Mx' + i
    BY <1>1
  <2>5. /\ 0 <= p /\ p < RingSize /\ Mx + j = p + B(lockmod)
        /\ index - B(lockmod) <= p
    <3> DEFINE b == B(lockmod)
               r == RingSize
               m == Mx
    <3>1. b \in Int /\ r \in Int /\ m \in Int /\ b <= index /\ m + (filepos - taken) <= r + b
      BY <1>0, <1>1
    <3>2. p = index - b + i /\ j < filepos - taken /\ j = i + (index - m) /\ m + j = index + i
      BY <1>0, <1>1, <2>1, <2>2, <2>4
    <3> HIDE DEF b, r, m
    <3>3. 0 <= p /\ p < r /\ m + j = p + b /\ index - b <= p
      BY <3>1, <3>2, <1>0, <1>2
    <3> QED
      BY <3>3 DEF b, r, m
  <2>6. Place(Mx' + i) = p
    BY <2>4, <2>5 DEF Place
  <2>7. Place(Mx + j) = IF p < SlotSize THEN p + B(lockmod) ELSE p
    BY <1>1, <2>5 DEF Place
  <2>8. buf'[p] = buf[Place(Mx + j)]
    <3>1. CASE index = RingSize /\ buf' = buf
      <4>1. p >= SlotSize
        BY <3>1, <1>1, <1>2, <2>4
      <4> QED
        BY <3>1, <4>1, <2>7, <1>1
    <3>2. CASE index < RingSize /\ MoveDown(index)
      <4>1. index % SlotSize = index - B(lockmod)
        BY <3>2, <1>1, Remainder, Constants
      <4>2. (Slots - 1) * SlotSize = B(lockmod)
        BY DEF B, lockmod
      <4>3. DOMAIN buf = 0 .. RingSize - 1
        BY DEF Basic, TypeOK, BufTypes
      <4>4. p \in DOMAIN buf /\ (p \in index - B(lockmod) .. SlotSize - 1 <=> p < SlotSize)
        <5>1. p \in 0 .. RingSize - 1
          BY <1>1, <2>5
        <5>2. p \in index - B(lockmod) .. SlotSize - 1 <=> p < SlotSize
          BY <1>1, <2>5
        <5> QED
          BY <4>3, <5>1, <5>2
      <4>5. buf'[p] = IF p < SlotSize THEN buf[p + B(lockmod)] ELSE buf[p]
        <5>1. buf' = [k \in DOMAIN buf |->
               IF k \in index - B(lockmod) .. SlotSize - 1 THEN buf[k + B(lockmod)]
               ELSE buf[k]]
          BY <3>2, <4>1, <4>2 DEF MoveDown
        <5> QED
          BY <4>4, <5>1
      <4> QED
        BY <4>5, <2>7
    <3> QED
      BY <3>1, <3>2
  <2> QED
    BY <2>2, <2>3, <2>6, <2>8
<1> QED
  BY <1>2 DEF Data, FileTime

(* Giving up slots low .. first - 1 leaves the locks of the others.        *)
LEMMA GivenUp ==
  ASSUME LockTypes, NEW low \in Int, NEW first \in Int, unlockSlots(low .. first - 1)
  PROVE  \A x \in Int : Held(x) /\ first <= x /\ x < low + lockmod => Held(x)'
<1>1. low .. first - 1 \in SUBSET Int
  OBVIOUS
<1>2. ASSUME NEW x \in Int, first <= x, x < low + lockmod, NEW y \in low .. first - 1
      PROVE  y % lockmod # x % lockmod
  <2>1. y \in Int /\ y < x /\ x < y + lockmod
    BY <1>2, Constants
  <2> QED
    BY <2>1, Residue
<1>3. \A x \in Int : Held(x) /\ (\A y \in low .. first - 1 : y % lockmod # x % lockmod)
                      => Held(x)'
  BY <1>1, Unlocking
<1> QED
  BY <1>2, <1>3

(* Where Mux leaves the consumer while it has something to look at.        *)
LEMMA MuxPlace ==
  ASSUME Basic, cpc = "mux", dataremaining, Looking, NEW index \in Int, muxindex <= index,
         index <= muxend,
         lastslot = n2 => B(n2) <= endindex /\ endindex < B(n2) + SlotSize
  PROVE  /\ Mx = muxindex /\ ~First /\ Lo = lockstart /\ Hi = lockend /\ Active
         /\ lockstart >= 0 /\ Mx >= 0 /\ B(lockstart) <= Mx
         /\ n2 <= lockend /\ index <= B(n2 + 1) /\ B(n2) <= Mx + 2 * ReadSize - 1
         /\ Mx <= B(lockmod) => n2 <= lockmod /\ index <= RingSize
         /\ \A b \in Int : B(b) < index => b <= lockend
<1>1. Active
  BY DEF Active
<1>2. lockstart >= 0 /\ lockstart \in Int /\ lockend \in Int /\ muxindex \in Int
      /\ n2 \in Int /\ endindex \in Int
  BY <1>1, Current DEF Basic, Taking
<1>3. Mx = muxindex /\ ~First /\ Lo = lockstart /\ Hi = lockend
  BY <1>2, Constants DEF Mx, First, Lo, Hi, Turn
<1>4. Mx >= 0 /\ B(lockstart) <= Mx /\ n2 <= lockend /\ B(n2) <= Mx + 2 * ReadSize - 1
  BY <1>3 DEF Looking
<1>5. B(n2 + 1) = B(n2) + SlotSize /\ B(n2) \in Int /\ B(n2 + 1) \in Int /\ n2 + 1 \in Int
  <2>1. n2 \in Int /\ n2 + 1 \in Int
    BY <1>2
  <2> QED
    BY <2>1, Places
<1>6. index <= B(n2 + 1)
  <2>1. (n2 + 1) * SlotSize = B(n2 + 1)
    BY DEF B
  <2> QED
    BY <1>2, <1>5, <2>1, Constants DEF muxend
<1>7. Mx <= B(lockmod) => n2 <= lockmod /\ index <= RingSize
  <2> SUFFICES ASSUME Mx <= B(lockmod) PROVE n2 <= lockmod /\ index <= RingSize
    OBVIOUS
  <2>1. RingSize = B(lockmod) + SlotSize /\ RingSize = B(lockmod + 1)
        /\ B(lockmod) \in Int /\ lockmod + 1 \in Int
    BY Places, Constants
  <2>2. B(n2) < B(lockmod + 1)
    BY <1>2, <1>3, <1>4, <1>5, <2>1, Constants
  <2>3. n2 < lockmod + 1
    BY <1>2, <2>1, <2>2, Places
  <2>4. n2 + 1 <= lockmod + 1
    BY <1>2, <2>3, Constants
  <2>5. B(n2 + 1) <= B(lockmod + 1)
    BY <1>5, <2>1, <2>4, Places
  <2> QED
    BY <1>2, <1>5, <1>6, <2>1, <2>3, <2>5, Constants
<1>8. ASSUME NEW b \in Int, B(b) < index PROVE b <= lockend
  <2>1. B(b) < B(n2 + 1)
    <3>1. B(b) \in Int
      BY Places
    <3> QED
      BY <1>5, <1>6, <1>8, <3>1
  <2>2. b < n2 + 1
    BY <1>5, <2>1, Places
  <2> QED
    BY <1>2, <1>4, <2>2
<1> QED
  BY <1>1, <1>2, <1>3, <1>4, <1>6, <1>7, <1>8

LEMMA GoodMuxBegun ==
  ASSUME Basic, Mux, NEW index \in Int, Muxed(index), Active', NEW W \in Int, Begun(W)
  PROVE  \E V \in Int : Begun(V)'
<1> USE DEF Begun
<1>0. LockTypes /\ cpc = "mux" /\ dataremaining
  BY DEF Basic, TypeOK, Mux, Active, Muxed
<1>1. /\ muxindex <= index /\ index <= muxend /\ taken' = taken + (index - muxindex)
      /\ UNCHANGED <<n2, files, file, lastslot, endindex, writeslot, filepos, rpc,
                     curslot, endofscan>>
  BY DEF Muxed
<1>2. n2 >= 0 /\ lastslot # n2
  BY <1>0 DEF Looking
<1>3. /\ Mx = muxindex /\ ~First /\ Lo = lockstart /\ Hi = lockend /\ Active
      /\ lockstart >= 0 /\ Mx >= 0 /\ B(lockstart) <= Mx
      /\ n2 <= lockend /\ index <= B(n2 + 1)
      /\ Mx <= B(lockmod) => n2 <= lockmod /\ index <= RingSize
      /\ \A b \in Int : B(b) < index => b <= lockend
  BY <1>0, <1>1, <1>2, MuxPlace
<1>4. /\ lockstart \in Int /\ lockend \in Int /\ n2 \in Int /\ Mx \in Int
      /\ filepos \in Int /\ taken \in Int
  BY <1>3, Current
<1>5. /\ lockstart <= lockend /\ lockend < From(W) /\ To(W) < lockstart + lockmod
      /\ \A x \in lockstart .. lockend : Held(x)
      /\ Mx <= B(lockend + 1) /\ B(lockend) <= Mx + 2 * ReadSize - 1
  BY <1>3 DEF ConsumerHolds
<1>6. Mx <= B(lockmod) /\ n2 <= lockmod /\ index <= RingSize
  BY <1>3 DEF Written
<1>7. From(W) \in {W, W - 1} /\ To(W) \in {W, W - 1} /\ From(W) <= To(W)
      /\ From(W)' = From(W) /\ To(W)' = To(W)
  BY <1>1 DEF From, To
<1>8. /\ B(lockmod) \in Int /\ RingSize = B(lockmod) + SlotSize
      /\ RingSize = B(lockmod + 1) /\ lockmod + 1 \in Int
  BY Places, Constants
<1>9. lockstart <= lockmod /\ lockend <= lockmod
  <2>1. B(lockstart) < B(lockmod + 1) /\ B(lockend) < B(lockmod + 1)
    <3>1. B(lockstart) \in Int /\ B(lockend) \in Int
      BY <1>4, Places
    <3> QED
      BY <1>3, <1>4, <1>5, <1>6, <1>8, <3>1, Constants
  <2>2. lockstart < lockmod + 1 /\ lockend < lockmod + 1
    BY <1>4, <1>8, <2>1, Places
  <2> QED
    BY <1>4, <2>2, Constants
<1>10. Mx + (filepos - taken) = B(W) /\ Mx + (filepos - taken) <= RingSize + B(lockmod)
  <2>1. Mx + (filepos - taken) = B(W)
    BY DEF Written
  <2>2. W <= lockmod + lockmod /\ lockmod + lockmod \in Int
    BY <1>4, <1>5, <1>7, <1>9, Constants
  <2>3. B(W) <= B(lockmod + lockmod) /\ B(lockmod + lockmod) = B(lockmod) + B(lockmod)
        /\ B(W) \in Int
    BY <2>2, Places, Constants
  <2> QED
    BY <2>1, <2>3, <1>8, Constants
<1>11. index + (filepos' - taken') = B(W) /\ filepos' <= files'[file'].length
  BY <1>1, <1>3, <1>4, <1>10 DEF Written
<1>12. /\ rpc'[file'] = rpc[file] /\ rpc'[file'] \in {"top", "fill", "lock", "unlock"}
       /\ ~endofscan'[file'] /\ curslot'[file'] = curslot[file] /\ lastslot' = -1
       /\ W \in {writeslot, writeslot + lockmod} /\ writeslot' = writeslot
       /\ writeslot \in 1 .. lockmod
       /\ rpc[file] \in {"lock", "unlock"} => curslot[file] % lockmod = (W - 1) % lockmod
       /\ \A x \in From(W) .. To(W) : Held(x)
  <2>1. writeslot \in 1 .. lockmod
    BY <1>3, Current
  <2> QED
    BY <1>1, <2>1 DEF Written, ReaderHolds
(* On in the same turn, or a turn further down.                            *)
<1>13. ASSUME muxindex' = index, lockend' = lockend, lockstart' \in Int,
              lockstart <= lockstart', lockstart' <= lockend, B(lockstart') <= index,
              cpc' = "housekeep", buf' = buf, index <= B(lockmod),
              \A x \in Int : Held(x) /\ lockstart' <= x /\ x < lockstart + lockmod
                              => Held(x)'
       PROVE  Begun(W)'
  <2>1. Mx' = index /\ ~First' /\ Lo' = lockstart' /\ Hi' = lockend
    <3>1. lockstart' # -1 /\ cpc' = "housekeep"
      BY <1>13, <1>3, <1>4
    <3>2. Turn' = 0 /\ Mx' = index /\ ~First'
      BY <3>1, <1>13 DEF Mx, First, Turn
    <3>3. Lo' = lockstart' - 0 /\ Hi' = lockend' - 0
      BY <3>2 DEF Lo, Hi
    <3>4. lockstart' \in Int /\ lockend' = lockend /\ lockend \in Int
      BY <1>4, <1>13
    <3>5. \A a \in Int : a - 0 = a
      OBVIOUS
    <3>6. Lo' = lockstart' /\ Hi' = lockend
      BY <3>3, <3>4, <3>5, Zenon
    <3> QED
      BY <3>2, <3>6, Zenon
  <2>2. Data'
    BY <1>1, <1>3, <1>13, <2>1, Kept
  <2>3. Written(W)'
    BY <1>11, <1>12, <1>13, <2>1 DEF Written
  <2>4. ReaderHolds(W)'
    <3>1. ASSUME NEW x \in Int, From(W) <= x, x <= To(W) PROVE Held(x)'
      <4>1. Held(x)
        BY <1>12, <3>1, <1>7
      <4>2. lockstart' <= x /\ x < lockstart + lockmod
        BY <1>4, <1>5, <1>7, <1>13, <3>1, Constants
      <4> QED
        BY <4>1, <4>2, <1>13
    <3>2. \A x \in From(W) .. To(W) : x \in Int /\ From(W) <= x /\ x <= To(W)
      BY <1>7
    <3> QED
      BY <1>7, <1>12, <3>1, <3>2 DEF ReaderHolds
  <2>5. FirstLap(W)'
    BY <2>1 DEF FirstLap
  <2>6. ConsumerHolds(W)'
    <3>1. ASSUME NEW x \in Int, lockstart' <= x, x <= lockend PROVE Held(x)'
      <4>1. x \in lockstart .. lockend /\ x < lockstart + lockmod
        BY <1>4, <1>5, <1>7, <1>13, <3>1, Constants
      <4> QED
        BY <4>1, <1>5, <1>13, <3>1
    <3>2. index <= B(lockend + 1) /\ B(lockend) <= index + 2 * ReadSize - 1
      <4>1. lockend + 1 \in Int /\ n2 + 1 \in Int /\ n2 + 1 <= lockend + 1
        BY <1>3, <1>4
      <4>2. B(n2 + 1) <= B(lockend + 1) /\ B(n2 + 1) \in Int /\ B(lockend + 1) \in Int
            /\ B(lockend) \in Int
        BY <4>1, <1>4, Places
      <4> QED
        BY <4>2, <1>1, <1>3, <1>4, <1>5, Constants
    <3>3. \A x \in Lo' .. Hi' : Held(x)'
      BY <1>4, <1>13, <2>1, <3>1
    <3>4. Lo' <= Hi' /\ Hi' < From(W)' /\ To(W)' < Lo' + lockmod
      BY <1>4, <1>5, <1>7, <1>13, <2>1, Constants
    <3> QED
      BY <1>13, <2>1, <3>2, <3>3, <3>4 DEF ConsumerHolds, B
  <2>7. Looking'
    <3>1. index >= 0
      BY <1>1, <1>3, <1>4
    <3> QED
      BY <1>13, <2>1, <3>1 DEF Looking, B
  <2> QED
    BY <1>12, <2>2, <2>3, <2>4, <2>5, <2>6, <2>7
<1>14. ASSUME lockend = lockmod, Hi' = 0, Lo' \in Int, Lo' <= 0,
              lockstart - lockmod <= Lo',
              Mx' = index - B(lockmod), B(lockmod) <= index, Data', ~First',
              B(Lo') <= Mx', cpc' = "wrap" => muxindex' = SlotSize,
              cpc' \in {"wrap", "housekeep"},
              \A x \in Int : Held(x) /\ Lo' + lockmod <= x /\ x < lockstart + lockmod
                              => Held(x)'
       PROVE  \E V \in Int : Begun(V)'
  <2>1. PICK V \in Int : V = W - lockmod
    BY Constants
  <2>10. PICK low \in Int : /\ low = Lo' /\ low <= 0 /\ lockstart - lockmod <= low
    BY <1>14
  <2>2. /\ From(V)' = From(W) - lockmod /\ To(V)' = To(W) - lockmod
        /\ V \in {writeslot', writeslot' + lockmod}
    <3>1. W > lockmod
      BY <1>5, <1>7, <1>14, Constants
    <3>2. V = writeslot
      BY <1>12, <2>1, <3>1, Constants
    <3>3. From(V)' = From(W) - lockmod /\ To(V)' = To(W) - lockmod
      BY <1>12, <2>1, Constants DEF From, To
    <3> QED
      BY <3>2, <3>3, <1>12
  <2>3. Mx' <= SlotSize /\ SlotSize <= B(lockmod) /\ Mx' \in Int /\ Mx' >= 0
    <3>1. B(1) <= B(lockmod) /\ B(1) = SlotSize
      BY Places, Constants
    <3> QED
      BY <3>1, <1>6, <1>8, <1>14, Constants
  <2>4. Written(V)'
    <3>1. Mx' + (filepos' - taken') = B(V)
      <4>1. B(V) = B(W) - B(lockmod) /\ B(W) \in Int
        BY <2>1, Places
      <4>2. filepos' \in Int /\ taken' \in Int
        BY <1>1, <1>3, <1>4
      <4> QED
        BY <4>1, <4>2, <1>8, <1>11, <1>14
    <3>2. Mx' <= B(lockmod)
      BY <1>8, <2>3, Constants
    <3> QED
      BY <1>11, <1>12, <2>2, <3>1, <3>2 DEF Written
  <2>5. \A x \in Int : Held(x + lockmod)' => Held(x)'
    BY Residue DEF Held
  <2>6. ReaderHolds(V)'
    <3>1. ASSUME NEW x \in From(V)' .. To(V)' PROVE Held(x)'
      <4>1. PICK y \in Int : y = x + lockmod
        BY Constants
      <4>2. y \in From(W) .. To(W) /\ x \in Int
        BY <1>7, <2>2, <4>1, Constants
      <4>3. Lo' + lockmod <= y /\ y < lockstart + lockmod
        <5>1. From(W) <= y /\ y <= To(W) /\ From(W) \in Int /\ To(W) \in Int
          BY <1>7, <4>1, <4>2
        <5>2. lockmod < From(W) /\ To(W) < lockstart + lockmod /\ lockmod \in Int
              /\ lockstart \in Int
          BY <1>4, <1>5, <1>14, Constants
        <5>3. low + lockmod <= lockmod
          <6>1. low <= 0 /\ lockmod \in Int
            BY <2>10, Constants
          <6> QED
            BY <6>1
        <5>4. low + lockmod <= y /\ y < lockstart + lockmod
          BY <5>1, <5>2, <5>3, <4>1
        <5> QED
          BY <5>4, <2>10
      <4>4. Held(y)'
        BY <1>12, <1>14, <4>2, <4>3
      <4> QED
        BY <2>5, <4>1, <4>2, <4>4
    <3>2. (V - 1) % lockmod = (W - 1) % lockmod
      <4>1. W - 1 \in Int /\ V - 1 = (W - 1) - lockmod
        BY <2>1, Constants
      <4> QED
        BY <4>1, Residue
    <3> QED
      BY <1>12, <3>1, <3>2 DEF ReaderHolds
  <2>7. FirstLap(V)'
    BY <1>14 DEF FirstLap
  <2>8. ConsumerHolds(V)'
    <3>1. ASSUME NEW x \in Lo' .. Hi' PROVE Held(x)'
      <4>1. PICK y \in Int : y = x + lockmod
        BY Constants
      <4>2. y \in lockstart .. lockend /\ x \in Int /\ Lo' + lockmod <= y
        <5>1. x \in Int /\ low <= x /\ x <= 0
          BY <1>14, <2>10
        <5>2. lockstart - lockmod <= low /\ lockstart \in Int /\ lockmod \in Int
              /\ lockend = lockmod
          BY <1>4, <1>14, <2>10, Constants
        <5>3. lockstart <= y /\ y <= lockmod /\ low + lockmod <= y
          BY <5>1, <5>2, <4>1
        <5>4. y \in lockstart .. lockend
          BY <5>2, <5>3
        <5> QED
          BY <5>1, <5>3, <5>4, <2>10, Zenon
      <4>3. y < lockstart + lockmod
        BY <4>2, <1>4, <1>5, <1>7, Constants
      <4>4. Held(y)'
        BY <1>5, <1>14, <4>2, <4>3
      <4> QED
        BY <2>5, <4>1, <4>2, <4>4
    <3>2. Hi' < From(V)' /\ To(V)' < Lo' + lockmod
      BY <1>4, <1>5, <1>7, <1>14, <2>2, Constants
    <3>3. Mx' <= B(0 + 1) /\ B(0) <= Mx' + 2 * ReadSize - 1
      <4>1. B(1) = SlotSize /\ B(0) = 0
        BY Places
      <4> QED
        BY <2>3, <4>1, Constants
    <3> QED
      BY <1>14, <3>1, <3>2, <3>3 DEF ConsumerHolds, B
  <2>9. Looking'
    BY <1>14, <2>3 DEF Looking, B
  <2> QED
    BY <1>12, <2>4, <2>6, <2>7, <2>8, <2>9, <1>14
<1>15. CASE /\ index = RingSize /\ cpc' = "wrap" /\ muxindex' = SlotSize
            /\ UNCHANGED <<lockstart, lockend, lockVars, buf>>
  <2>1. Mx' = SlotSize /\ ~First' /\ Lo' = lockstart - lockmod /\ Hi' = lockend - lockmod
    BY <1>15, <1>3, <1>4, Constants DEF Mx, First, Lo, Hi, Turn
  <2>2. lockend = lockmod
    <3>1. B(lockmod) < index
      BY <1>8, <1>15, Constants
    <3>2. lockmod <= lockend
      BY <1>3, <3>1, Constants
    <3> QED
      BY <1>4, <1>9, <3>2, Constants
  <2>3. Data'
    <3>1. Mx <= index /\ B(lockmod) <= index /\ index <= RingSize /\ Mx' = index - B(lockmod)
          /\ taken' = taken + (index - Mx)
      BY <1>1, <1>3, <1>8, <1>15, <2>1, Constants
    <3>2. index = RingSize /\ buf' = buf /\ UNCHANGED <<files, file, filepos>>
      BY <1>1, <1>15
    <3>3. Mx + (filepos - taken) <= RingSize + B(lockmod)
      BY <1>10
    <3> QED
      BY <1>3, <3>1, <3>2, <3>3, Turned
  <2>4. B(Lo') <= Mx'
    <3>1. B(lockstart - lockmod) = B(lockstart) - B(lockmod) /\ B(lockstart) \in Int
      BY <1>4, Places
    <3>2. B(lockstart) <= RingSize
      BY <3>1, <1>1, <1>3, <1>4, <1>15
    <3>3. B(lockstart - lockmod) <= SlotSize
      BY <3>1, <3>2, <1>8, Constants
    <3> QED
      BY <3>3, <2>1
  <2>5. \A x \in Int : Held(x) => Held(x)'
    BY <1>15 DEF Held, lockVars
  <2>6. Mx' = index - B(lockmod) /\ B(lockmod) <= index /\ Hi' = 0 /\ Lo' \in Int /\ Lo' <= 0
        /\ lockstart - lockmod <= Lo'
    BY <1>4, <1>8, <1>9, <1>15, <2>1, <2>2, Constants
  <2> QED
    BY <1>14, <1>15, <2>1, <2>2, <2>3, <2>4, <2>5, <2>6
<1>16. CASE index # RingSize /\ cpc' = "housekeep" /\ Advance(index)
  <2>1. TypeOK
    BY DEF Basic
  <2>2. PICK first \in Int : Advanced(index, first)
    BY <1>16, <2>1, AdvanceIs
  <2>3. /\ lockstart <= first /\ first <= lockend /\ B(first) <= index
        /\ first <= lockmod
        /\ \A b \in Int : b <= lockend /\ B(b) <= index => b <= first
        /\ unlockSlots(lockstart .. first - 1)
    <3>1. /\ lockstart <= first
          /\ first = lockstart \/ (first <= lockend /\ B(first) <= index)
          /\ \A b \in Int : b <= lockend /\ B(b) <= index => b <= first
          /\ unlockSlots(lockstart .. first - 1)
      BY <2>2 DEF Advanced
    <3>2. B(lockstart) <= index
      <4>1. B(lockstart) \in Int
        BY <1>4, Places
      <4> QED
        BY <4>1, <1>1, <1>3, <1>4
    <3>3. first <= lockend
      BY <3>1, <1>5
    <3> QED
      BY <3>1, <3>2, <3>3, <1>4, <1>9, Constants
  <2>4. \A x \in Int : Held(x) /\ first <= x /\ x < lockstart + lockmod => Held(x)'
    BY <1>0, <1>4, <2>3, GivenUp
  <2>5. CASE first = lockmod
    <3>1. MoveDown(index) /\ lastslot # lockmod
      BY <2>2, <2>5, <1>12, <1>1, Constants DEF Advanced
    <3>2. index \in Int /\ B(lockmod) <= index /\ index < RingSize /\ Mx <= index
          /\ taken' = taken + (index - Mx)
      BY <2>3, <2>5, <1>1, <1>3, <1>6, <1>8, <1>16, Constants
    <3>3. muxindex' = index - B(lockmod) /\ lockstart' = 0 /\ lockend' = 0
      <4>1. index % SlotSize = index - B(lockmod)
        BY <3>2, <1>8, Remainder, Constants
      <4> QED
        BY <3>1, <4>1 DEF MoveDown
    <3>4. Mx' = index - B(lockmod) /\ ~First' /\ Lo' = 0 /\ Hi' = 0
      BY <3>3, <1>16 DEF Mx, First, Lo, Hi, Turn
    <3>5. Data'
      <4>1. index < RingSize /\ MoveDown(index) /\ UNCHANGED <<files, file, filepos>>
        BY <1>1, <3>1, <3>2
      <4>2. Mx + (filepos - taken) <= RingSize + B(lockmod) /\ index <= RingSize
        BY <1>6, <1>10
      <4> QED
        BY <1>3, <3>2, <3>4, <4>1, <4>2, Turned
    <3>6. lockend = lockmod
      BY <1>4, <1>9, <2>3, <2>5, Constants
    <3>7. B(Lo') <= Mx'
      BY <3>2, <3>4, <1>8, Places
    <3>8. Lo' \in Int /\ Lo' <= 0 /\ lockstart - lockmod <= Lo'
      BY <3>4, <1>4, <1>9, Constants
    <3>9. \A x \in Int : Held(x) /\ Lo' + lockmod <= x /\ x < lockstart + lockmod => Held(x)'
      BY <2>4, <2>5, <3>4, Constants
    <3> QED
      BY <1>14, <1>16, <3>2, <3>4, <3>5, <3>6, <3>7, <3>8, <3>9
  <2>6. CASE first # lockmod
    <3>1. muxindex' = index /\ lockstart' = first /\ lockend' = lockend /\ buf' = buf
      BY <2>2, <2>6 DEF Advanced
    <3>2. index <= B(lockmod)
      <4>1. SUFFICES ASSUME B(lockmod) < index PROVE FALSE
        BY <1>8
      <4>2. lockmod <= lockend
        BY <4>1, <1>3, Constants
      <4>3. lockmod <= first
        BY <4>1, <4>2, <2>3, <1>8, Constants
      <4> QED
        BY <4>3, <2>3, <2>6, Constants
    <3>3. Begun(W)'
      BY <1>13, <1>16, <2>3, <2>4, <3>1, <3>2
    <3> QED
      BY <3>3
  <2> QED
    BY <2>5, <2>6
<1>17. dataremaining' # FALSE \/ cpc' = "wrap"
  BY DEF Active, Muxed
<1> QED
  BY <1>15, <1>16, <1>17 DEF Muxed

LEMMA GoodMuxOver ==
  ASSUME Basic, Mux, NEW index \in Int, Muxed(index), Active', Over
  PROVE  Over'
<1>0. cpc = "mux" /\ dataremaining /\ Data /\ Ended /\ Left /\ TypeOK /\ Active
  BY DEF Basic, Mux, Over, Active, Muxed
<1>1. /\ muxindex <= index /\ index <= muxend /\ taken' = taken + (index - muxindex)
      /\ UNCHANGED <<n2, files, file, lastslot, endindex, writeslot, filepos, rpc,
                     curslot, endofscan>>
  BY DEF Muxed
<1>2. Ended'
  BY <1>0, <1>1 DEF Ended, B
<1>3. /\ Mx \in Int /\ filepos \in Int /\ taken \in Int /\ lastslot \in Int /\ endindex \in Int
      /\ lockstart \in Int /\ lockend \in Int /\ muxindex \in Int /\ lockstart >= 0
  BY <1>0, Current DEF Basic, Taking
<1>4. Mx = muxindex
  BY <1>3 DEF Mx
<1>5. PICK rem \in Int : rem = filepos - taken
  BY <1>3
<1>6. PICK left \in Int : left = rem - (index - Mx)
  BY <1>3
<1>7. filepos' - taken' = left
  BY <1>1, <1>3, <1>4, <1>5, <1>6
<1>8. CASE left <= 0
  <2>1. Data'
    BY <1>7, <1>8 DEF Data
  <2>2. PICK f \in Int, t \in Int : f = filepos' /\ t = taken'
    BY <1>1, <1>3
  <2>3. ~(filepos' > taken')
    <3>1. f - t = left
      BY <1>7, <2>2
    <3>2. ~(f > t)
      BY <3>1, <1>8
    <3> QED
      BY <3>2, <2>2
  <2> QED
    BY <1>2, <2>1, <2>3 DEF Over, Left
<1>9. CASE left > 0
  <2>1. rem > 0 /\ index < Mx + rem /\ Mx <= index
    BY <1>1, <1>3, <1>4, <1>6, <1>9
  <2>2. /\ rem < B(lockmod) /\ Mx + rem \in {endindex, endindex + B(lockmod)}
        /\ Mx > B(lockmod) => Mx + rem = endindex
        /\ Looking
    <3>1. filepos > taken
      BY <1>3, <1>5, <2>1
    <3> QED
      BY <3>1, <1>0, <1>5 DEF Left
  <2>3. /\ lastslot >= 1 /\ lastslot <= lockmod
        /\ B(lastslot) <= endindex /\ endindex < B(lastslot) + SlotSize
    BY <1>0, <1>3, Constants DEF Ended
  <2>4. /\ ~First /\ Mx >= 0 /\ B(lockstart) <= Mx
        /\ Mx <= B(lockmod) => n2 <= lockmod /\ index <= RingSize
        /\ \A b \in Int : B(b) < index => b <= lockend
    BY <1>0, <1>1, <2>2, <2>3, MuxPlace
  <2>5. /\ B(lockmod) \in Int /\ RingSize = B(lockmod) + SlotSize /\ RingSize \in Int
        /\ RingSize = B(lockmod + 1) /\ lockmod + 1 \in Int /\ B(lockmod) >= SlotSize
    <3>1. B(1) <= B(lockmod) /\ B(1) = SlotSize /\ B(lockmod) \in Int
      BY Places, Constants
    <3> QED
      BY <3>1, Places, Constants
  <2>6. endindex < RingSize
    <3>1. B(lastslot) <= B(lockmod) /\ B(lastslot) \in Int
      BY <1>3, <2>3, Places, Constants
    <3> QED
      BY <1>3, <2>3, <2>5, <3>1, Constants
  <2>7. index <= RingSize
    BY <1>3, <2>1, <2>2, <2>4, <2>5, <2>6
  <2>8. Mx + rem <= RingSize + B(lockmod)
    BY <1>3, <2>2, <2>5, <2>6, Constants
  <2>9. index >= 0 /\ left < B(lockmod)
    BY <1>3, <1>6, <2>1, <2>2, <2>4, <2>5
  <2>10. B(lockstart) \in Int /\ B(lockstart) <= index
    <3>1. B(lockstart) \in Int
      BY <1>3, Places
    <3> QED
      BY <3>1, <1>3, <2>1, <2>4
(* A turn further down.                                                    *)
  <2>11. ASSUME Mx + rem # endindex, B(lockmod) <= index, Mx' = index - B(lockmod),
                (index = RingSize /\ buf' = buf) \/ (index < RingSize /\ MoveDown(index)),
                Looking'
         PROVE  Over'
    <3>1. Data'
      <4>1. taken' = taken + (index - Mx) /\ UNCHANGED <<files, file, filepos>>
        BY <1>1, <1>4
      <4>2. Mx + (filepos - taken) <= RingSize + B(lockmod)
        BY <1>5, <2>8
      <4> QED
        BY <1>0, <2>1, <2>7, <2>11, <4>1, <4>2, Turned
    <3>2. Mx' + left = endindex
      <4>1. Mx + rem = endindex + B(lockmod)
        BY <2>2, <2>11
      <4>2. PICK m \in Int : m = Mx' /\ m = index - B(lockmod)
        BY <2>5, <2>11
      <4>3. m + left = endindex
        BY <1>3, <1>6, <2>5, <4>1, <4>2
      <4> QED
        BY <4>2, <4>3
    <3>3. Left'
      BY <1>1, <1>7, <2>9, <2>11, <3>2 DEF Left, B
    <3> QED
      BY <1>2, <3>1, <3>3 DEF Over
  <2>12. CASE /\ index = RingSize /\ cpc' = "wrap" /\ muxindex' = SlotSize
              /\ UNCHANGED <<lockstart, lockend, lockVars, buf>>
    <3>1. Mx + rem # endindex
      BY <1>3, <2>1, <2>5, <2>6, <2>12
    <3>2. B(lockmod) <= index /\ SlotSize = index - B(lockmod)
      BY <2>5, <2>12, Constants
    <3>3. Mx' = SlotSize
      BY <2>12 DEF Mx
    <3>4. Lo' = lockstart - lockmod
      <4>1. Turn' = lockmod
        BY <2>12 DEF Turn
      <4> QED
        BY <4>1, <2>12 DEF Lo
    <3>5. B(lockstart - lockmod) <= SlotSize
      <4>1. B(lockstart - lockmod) = B(lockstart) - B(lockmod)
        BY <1>3, Places
      <4> QED
        BY <4>1, <2>5, <2>10, <2>12, Constants
    <3>6. Looking'
      <4>1. B(Lo)' <= Mx' /\ Mx' >= 0
        BY <3>3, <3>4, <3>5, Constants DEF B
      <4> QED
        BY <4>1, <2>12 DEF Looking
    <3>7. Mx' = index - B(lockmod)
      BY <3>2, <3>3
    <3> QED
      BY <2>11, <2>12, <3>1, <3>2, <3>6, <3>7
  <2>13. CASE index # RingSize /\ cpc' = "housekeep" /\ Advance(index)
    <3>1. PICK first \in Int : Advanced(index, first)
      BY <1>0, <2>13, AdvanceIs
    <3>2. /\ lockstart <= first
          /\ first = lockstart \/ (first <= lockend /\ B(first) <= index)
          /\ \A b \in Int : b <= lockend /\ B(b) <= index => b <= first
      BY <3>1 DEF Advanced
    <3>3. index < RingSize /\ B(first) <= index /\ B(first) \in Int /\ first >= 0
      <4>1. index < RingSize
        BY <2>5, <2>7, <2>13
      <4>2. B(first) <= index
        BY <2>10, <3>2
      <4>3. B(first) \in Int
        BY Places
      <4>4. first >= 0
        BY <1>3, <3>2
      <4> QED
        BY <4>1, <4>2, <4>3, <4>4
    <3>4. first <= lockmod
      <4>1. B(first) < B(lockmod + 1)
        BY <2>5, <3>3
      <4>2. first < lockmod + 1
        BY <2>5, <4>1, Places
      <4> QED
        BY <4>2, Constants
    <3>5. CASE first = lockmod /\ lastslot # lockmod /\ MoveDown(index)
      <4>1. Mx + rem # endindex
        <5>1. lastslot + 1 <= lockmod /\ lastslot + 1 \in Int
          BY <1>3, <2>3, <3>5, Constants
        <5>2. B(lastslot + 1) <= B(lockmod) /\ B(lastslot + 1) = B(lastslot) + SlotSize
              /\ B(lastslot) \in Int
          BY <1>3, <5>1, Places, Constants
        <5> QED
          BY <1>3, <2>1, <2>3, <2>5, <3>3, <3>5, <5>2, Constants
      <4>2. index % SlotSize = index - B(lockmod)
        BY <2>5, <3>3, <3>5, Remainder, Constants
      <4>3. muxindex' = index - B(lockmod) /\ lockstart' = 0
        BY <3>5, <4>2 DEF MoveDown
      <4>4. Mx' = index - B(lockmod) /\ Turn' = 0
        BY <2>13, <4>3 DEF Mx, Turn
      <4>5. Lo' = 0
        BY <4>3, <4>4 DEF Lo
      <4>6. index - B(lockmod) >= 0
        BY <2>5, <3>3, <3>5
      <4>7. Looking'
        <5>1. B(Lo)' <= Mx' /\ Mx' >= 0
          BY <4>4, <4>5, <4>6, Constants DEF B
        <5> QED
          BY <5>1, <2>13 DEF Looking
      <4> QED
        BY <2>11, <3>3, <3>5, <4>1, <4>4, <4>7
    <3>6. CASE /\ ~ (first = lockmod /\ lastslot # lockmod)
               /\ muxindex' = index /\ lockstart' = first /\ UNCHANGED <<lockend, buf>>
      <4>1. Mx' = index /\ Turn' = 0
        <5>1. lockstart' # -1
          BY <3>3, <3>6
        <5> QED
          BY <5>1, <2>13, <3>6 DEF Mx, Turn
      <4>2. Lo' = first
        <5>1. first - 0 = first
          OBVIOUS
        <5> QED
          BY <3>6, <4>1, <5>1 DEF Lo
      <4>3. Data'
        BY <1>0, <1>1, <1>4, <2>1, <3>6, <4>1, Kept
      <4>4. index + left = Mx + rem
        BY <1>3, <1>6
      <4>5. index > B(lockmod) => Mx + rem = endindex
        <5>1. SUFFICES ASSUME index > B(lockmod), Mx + rem # endindex PROVE FALSE
          OBVIOUS
        <5>2. lockmod <= lockend
          BY <5>1, <2>4, <2>5, Constants
        <5>3. lockmod <= first
          BY <5>1, <5>2, <3>2, <2>5, Constants
        <5>4. lastslot = lockmod
          BY <5>3, <3>4, <3>6, Constants
        <5>5. endindex >= B(lockmod) /\ Mx + rem = endindex + B(lockmod) /\ Mx <= B(lockmod)
          BY <1>3, <2>2, <2>3, <2>5, <5>1, <5>4
        <5> QED
          BY <1>3, <2>2, <2>5, <5>5
      <4>6. Looking'
        <5>1. B(Lo)' <= Mx' /\ Mx' >= 0
          BY <4>1, <4>2, <3>3, <2>9, Constants DEF B
        <5> QED
          BY <5>1, <2>13 DEF Looking
      <4>7. Left'
        <5>1. Mx' + left \in {endindex, endindex + B(lockmod)}
          BY <2>2, <4>1, <4>4
        <5>2. Mx' > B(lockmod) => Mx' + left = endindex
          BY <4>1, <4>4, <4>5
        <5> QED
          BY <1>1, <1>7, <2>9, <4>6, <5>1, <5>2 DEF Left, B
      <4> QED
        BY <1>2, <4>3, <4>7 DEF Over
    <3> QED
      BY <3>1, <3>5, <3>6 DEF Advanced
  <2>14. dataremaining' # FALSE \/ cpc' = "wrap"
    BY DEF Active, Muxed
  <2> QED
    BY <2>12, <2>13, <2>14 DEF Muxed
<1> QED
  BY <1>3, <1>6, <1>8, <1>9

LEMMA GoodMux ==
  ASSUME Inv, Mux
  PROVE  Good'
<1> SUFFICES ASSUME Active', ~overlap', ~lapped'
             PROVE  (\E W \in Int : Begun(W)') \/ Over'
  BY DEF Good
<1>1. Basic /\ Good /\ TypeOK
  BY DEF Inv, Basic
<1>2. cpc = "mux" /\ \E index \in Int : Muxed(index)
  BY <1>1, MuxIs
<1>3. PICK index \in Int : Muxed(index)
  BY <1>2
<1>4. Active /\ ~overlap /\ ~lapped
  BY <1>2, <1>3 DEF Active, Muxed
<1>5. CASE Over
  BY <1>1, <1>3, <1>5, GoodMuxOver
<1>6. CASE \E W \in Int : Begun(W)
  BY <1>1, <1>3, <1>6, GoodMuxBegun
<1> QED
  BY <1>1, <1>4, <1>5, <1>6 DEF Good

LEMMA GoodWrap ==
  ASSUME Inv, WrapAround
  PROVE  Good'
<1> SUFFICES ASSUME Active', ~overlap', ~lapped'
             PROVE  (\E W \in Int : Begun(W)') \/ Over'
  BY DEF Good
<1>0. Basic /\ Good /\ LockTypes
  BY DEF Inv, Basic, TypeOK
<1>1. /\ cpc = "wrap" /\ cpc' = "housekeep" /\ ~mutex[1]
      /\ lockstart' = 1 /\ lockend' = 1
      /\ UNCHANGED <<muxindex, n2, files, file, taken, dataremaining, buf, filepos, rpc,
                     curslot, lastslot, endindex, overlap, lapped, readerVars>>
  BY DEF WrapAround, CGo, fileVars, readerVars
<1>2. Active /\ ~overlap /\ ~lapped
  BY <1>1 DEF Active
<1>3. lockstart \in Int /\ lockend \in Int /\ lockstart >= 0 /\ muxindex \in Int
  BY <1>0, <1>1, <1>2, Current DEF Basic, Taking
<1>4. Mx = muxindex /\ Mx' = muxindex /\ ~First /\ ~First' /\ Lo' = 1 /\ Hi' = 1
      /\ Lo = lockstart - lockmod /\ Hi = lockend - lockmod
  <2>1. Turn = lockmod /\ Turn' = 0 /\ lockstart # -1
    BY <1>1, <1>3 DEF Turn
  <2>2. Mx = muxindex /\ Mx' = muxindex /\ ~First /\ ~First'
    BY <1>1, <2>1 DEF Mx, First
  <2>3. Lo' = 1 - 0 /\ Hi' = 1 - 0 /\ Lo = lockstart - lockmod /\ Hi = lockend - lockmod
    BY <1>1, <2>1 DEF Lo, Hi
  <2>4. 1 - 0 = 1
    OBVIOUS
  <2> QED
    BY <2>2, <2>3, <2>4, Zenon
<1>5. Looking => Looking' /\ Mx = SlotSize
  <2> SUFFICES ASSUME Looking PROVE Looking' /\ Mx = SlotSize
    OBVIOUS
  <2>1. Mx = SlotSize
    BY <1>1, <1>4 DEF Looking
  <2>2. 1 * SlotSize = SlotSize /\ SlotSize >= 0
    BY Constants
  <2>3. B(Lo)' <= Mx' /\ Mx' >= 0
    BY <1>4, <2>1, <2>2, Constants DEF B
  <2> QED
    BY <1>1, <2>1, <2>3 DEF Looking
<1>6. CASE \E W \in Int : Begun(W)
  <2>1. PICK W \in Int : Begun(W)
    BY <1>6
  <2> USE DEF Begun
  <2>2. Data' /\ Written(W)' /\ From(W)' = From(W) /\ To(W)' = To(W)
    BY <1>0, <1>1, <1>2, <1>4, <2>1, NothingTaken
  <2>3. /\ lockstart <= lockmod /\ 0 < From(W) /\ To(W) < lockstart
        /\ \A x \in From(W) .. To(W) : Held(x)
        /\ From(W) \in Int /\ To(W) \in Int /\ From(W) <= To(W) /\ To(W) <= From(W) + 1
    <3>1. From(W) \in {W, W - 1} /\ To(W) \in {W, W - 1} /\ From(W) <= To(W)
      BY DEF From, To
    <3>2. Lo <= Hi /\ Hi < From(W) /\ To(W) < Lo + lockmod /\ Hi = 0
      BY <1>1, <1>4, <2>1 DEF ConsumerHolds
    <3>3. \A x \in From(W) .. To(W) : Held(x)
      BY <2>1 DEF ReaderHolds
    <3>4. lockstart - lockmod <= 0 /\ 0 < From(W) /\ To(W) < (lockstart - lockmod) + lockmod
      BY <1>4, <3>2
    <3>5. (lockstart - lockmod) + lockmod = lockstart /\ lockstart <= lockmod
      BY <1>3, <3>4, Constants
    <3>6. From(W) \in Int /\ To(W) \in Int /\ To(W) <= From(W) + 1
      BY <3>1
    <3> QED
      BY <3>1, <3>3, <3>4, <3>5, <3>6
  <2>4. 1 < From(W)
    <3>1. ~Held(1)
      BY <1>1, One DEF Held
    <3>2. From(W) \in From(W) .. To(W)
      BY <2>3
    <3>3. From(W) # 1
      BY <2>3, <3>1, <3>2
    <3> QED
      BY <2>3, <3>3
  <2>5. Held(1)' /\ \A x \in From(W) .. To(W) : Held(x)'
    <3> DEFINE S == {slot % lockmod : slot \in lockstart .. Slots - 1}
    <3>1. mutex' = [s \in DOMAIN mutex |-> s = 1 \/ (mutex[s] /\ s \notin S)]
      BY DEF WrapAround
    <3>2. \A x \in Int : x % lockmod \in DOMAIN mutex
      BY <1>0, Residue DEF LockTypes
    <3>3. Held(1)'
      <4>1. mutex'[1 % lockmod] = (1 % lockmod = 1 \/ (mutex[1 % lockmod] /\ 1 % lockmod \notin S))
        <5> HIDE DEF S
        <5> QED
          BY <3>1, <3>2
      <4> QED
        BY <4>1, One DEF Held
    <3>4. ASSUME NEW x \in From(W) .. To(W) PROVE Held(x)'
      <4>1. x \in Int /\ 1 < x /\ x < lockstart /\ Held(x)
        <5>1. x \in Int /\ From(W) <= x /\ x <= To(W)
          BY <2>3
        <5>2. 1 < x /\ x < lockstart
          BY <1>3, <2>3, <2>4, <5>1
        <5> QED
          BY <2>3, <5>1, <5>2
      <4>2. ASSUME NEW y \in lockstart .. Slots - 1 PROVE y % lockmod # x % lockmod
        <5>1. y \in Int /\ x < y /\ y < x + lockmod
          BY <1>3, <4>1, Constants
        <5> QED
          BY <4>1, <5>1, Residue
      <4>3. x % lockmod \notin S
        BY <4>2
      <4>4. mutex'[x % lockmod] = (x % lockmod = 1 \/ (mutex[x % lockmod] /\ x % lockmod \notin S))
        <5> HIDE DEF S
        <5> QED
          BY <3>1, <3>2, <4>1
      <4> HIDE DEF S
      <4> QED
        BY <4>1, <4>3, <4>4 DEF Held
    <3> QED
      BY <3>3, <3>4
  <2>6. ReaderHolds(W)'
    BY <1>1, <2>1, <2>2, <2>5 DEF ReaderHolds
  <2>7. FirstLap(W)'
    BY <1>4 DEF FirstLap
  <2>8. ConsumerHolds(W)'
    <3>1. Mx' <= B(2) /\ B(1) <= Mx' + 2 * ReadSize - 1
      <4>1. B(1) = SlotSize /\ B(1) <= B(2)
        BY Places
      <4> QED
        BY <1>4, <1>5, <2>1, <4>1, Constants
    <3>2. 1 < From(W) /\ To(W) < 1 + lockmod
      BY <1>3, <2>3, <2>4, Constants
    <3>3. \A x \in 1 .. 1 : Held(x)'
      BY <2>5
    <3>4. 1 + 1 = 2
      OBVIOUS
    <3>5. \A x \in Lo' .. Hi' : Held(x)'
      BY <1>4, <3>3
    <3>6. Lo' <= Hi' /\ Hi' < From(W)' /\ To(W)' < Lo' + lockmod
      BY <1>4, <2>2, <3>2
    <3>7. Mx' <= B(Hi + 1)' /\ B(Hi)' <= Mx' + 2 * ReadSize - 1
      BY <1>4, <3>1, <3>4 DEF B
    <3> QED
      BY <1>1, <3>5, <3>6, <3>7 DEF ConsumerHolds
  <2>9. Begun(W)'
    BY <1>1, <1>5, <2>1, <2>2, <2>6, <2>7, <2>8
  <2> QED
    BY <2>9
<1>7. CASE Over
  <2>1. Data' /\ Ended'
    BY <1>0, <1>1, <1>2, <1>4, <1>7, NothingTaken DEF Over
  <2>2. Left'
    BY <1>1, <1>4, <1>5, <1>7 DEF Over, Left, B
  <2> QED
    BY <2>1, <2>2 DEF Over
<1> QED
  BY <1>0, <1>2, <1>6, <1>7 DEF Good

(* The steps after which nothing more is taken of the file.                *)
LEMMA GoodElse ==
  ASSUME Inv, NoMoreFiles \/ Weird \/ MuxNothing \/ MuxFails \/ Join \/ Finished
  PROVE  Good'
<1>1. CASE Finished
  BY <1>1 DEF Inv, Good, Finished, Active, vars, consumerVars
<1>2. CASE NoMoreFiles \/ Weird \/ MuxNothing \/ MuxFails \/ Join
  <2>1. cpc' \in {"exit", "housekeep"} /\ (cpc' = "housekeep" => dataremaining' = FALSE)
    BY <1>2 DEF NoMoreFiles, Weird, MuxNothing, MuxFails, Join, CGo
  <2>2. ~Active'
    BY <2>1 DEF Active
  <2> QED
    BY <2>2 DEF Good
<1> QED
  BY <1>1, <1>2

-----------------------------------------------------------------------------
(* The reader's steps.  They leave the consumer where it is.               *)
LEMMA Reading ==
  ASSUME Inv, NEW f \in Readers, ReaderStep(f), Active', ~overlap', ~lapped'
  PROVE  /\ f = file /\ Active /\ ~overlap /\ ~lapped
         /\ (\E W \in Int : Begun(W)) \/ Over
         /\ rpc \in [Readers -> {"none", "top", "fill", "lock", "unlock", "done"}]
         /\ Mx' = Mx /\ First' = First /\ Lo' = Lo /\ Hi' = Hi
         /\ UNCHANGED <<cpc, files, file, taken, lockstart, lockend, muxindex, n2>>
         /\ Looking => Looking'
<1>1. UNCHANGED <<consumerVars, fileVars, overlap>> /\ (lapped => lapped') /\ Running(f)
  <2>1. CASE StartRead(f)
    BY <2>1 DEF StartRead, RGo, Running
  <2>2. CASE Fill(f)
    BY <2>2 DEF Fill, RGo, Running
  <2>3. CASE LockNext(f) \/ UnlockThis(f) \/ EndReader(f)
    BY <2>3 DEF LockNext, UnlockThis, EndReader, RGo, Running
  <2> QED
    BY <2>1, <2>2, <2>3 DEF ReaderStep
<1>2. UNCHANGED <<cpc, files, file, taken, lockstart, lockend, muxindex, n2, dataremaining>>
  BY <1>1 DEF consumerVars, fileVars
<1>3. Active /\ ~overlap /\ ~lapped
  BY <1>1, <1>2 DEF Active
<1>4. f = file
  BY <1>1, <1>3 DEF Inv, Basic, Threads
<1>5. rpc \in [Readers -> {"none", "top", "fill", "lock", "unlock", "done"}]
  BY DEF Inv, Basic, TypeOK, ReaderTypes
<1>6. Mx' = Mx /\ First' = First /\ Lo' = Lo /\ Hi' = Hi
  BY <1>2 DEF Mx, First, Lo, Hi, Turn
<1>7. Looking => Looking'
  BY <1>2, <1>6 DEF Looking, B
<1> QED
  BY <1>2, <1>3, <1>4, <1>5, <1>6, <1>7 DEF Inv, Good

(* A step of the reader that only takes or gives up a lock.                *)
LEMMA NothingRead ==
  ASSUME Inv, NEW f \in Readers, ReaderStep(f), Active', ~overlap', ~lapped',
         UNCHANGED <<buf, lastslot, endindex, writeslot, filepos, curslot, endofscan>>
  PROVE  /\ Data => Data'
         /\ Over /\ rpc'[file] \in {"lock", "unlock", "top", "done"} => Over'
         /\ \A W \in Int : Written(W) /\ rpc'[file] \in {"top", "fill", "lock", "unlock"}
                             => Written(W)'
<1>1. /\ Mx' = Mx /\ UNCHANGED <<files, file, taken>> /\ (Looking => Looking')
  BY Reading
<1>2. Data => Data'
  BY <1>1 DEF Data, Place, FileTime
<1>3. Over /\ rpc'[file] \in {"lock", "unlock", "top", "done"} => Ended'
  BY <1>1 DEF Over, Ended, B
<1>4. Over => Left'
  BY <1>1 DEF Over, Left, B
<1>5. \A W \in Int : Written(W) /\ rpc'[file] \in {"top", "fill", "lock", "unlock"}
                             => Written(W)'
  BY <1>1 DEF Written, B
<1> QED
  BY <1>2, <1>3, <1>4, <1>5 DEF Over

LEMMA GoodLockNext ==
  ASSUME Inv, NEW f \in Readers, LockNext(f)
  PROVE  Good'
<1> SUFFICES ASSUME Active', ~overlap', ~lapped'
             PROVE  (\E W \in Int : Begun(W)') \/ Over'
  BY DEF Good
<1>0. ReaderStep(f)
  BY DEF ReaderStep
<1>1. /\ f = file /\ Active /\ ~overlap /\ ~lapped
      /\ (\E W \in Int : Begun(W)) \/ Over
      /\ rpc \in [Readers -> {"none", "top", "fill", "lock", "unlock", "done"}]
      /\ Mx' = Mx /\ First' = First /\ Lo' = Lo /\ Hi' = Hi
      /\ UNCHANGED <<cpc, files, file, taken, lockstart, lockend, muxindex, n2>>
      /\ Looking => Looking'
  BY <1>0, Reading
<1>2. /\ rpc[file] = "lock" /\ rpc'[file] = "unlock" /\ lockSlot(writeslot, Reader)
      /\ UNCHANGED <<buf, lastslot, endindex, writeslot, filepos, curslot, endofscan>>
  BY <1>1 DEF LockNext, RGo
<1>3. /\ Data => Data'
      /\ Over => Over'
      /\ \A W \in Int : Written(W) => Written(W)'
  BY <1>0, <1>2, NothingRead
<1>4. CASE \E W \in Int : Begun(W)
  <2>1. PICK W \in Int : Begun(W)
    BY <1>4
  <2> USE DEF Begun
  <2>2. LockTypes /\ writeslot \in Int /\ Lo \in Int /\ Hi \in Int
    BY <1>1, Current DEF Inv, Basic, TypeOK
  <2>3. /\ ~Held(writeslot)
        /\ \A x \in Int : Held(x) \/ x % lockmod = writeslot % lockmod => Held(x)'
    BY <1>2, <2>2, Locking
  <2>4. From(W) = W - 1 /\ To(W) = W - 1 /\ From(W)' = W - 1 /\ To(W)' = W
    BY <1>1, <1>2 DEF From, To
  <2>5. W % lockmod = writeslot % lockmod
    BY <2>1, <2>2, Residue DEF Written
  <2>6. ReaderHolds(W)'
    <3>1. Held(W - 1)
      BY <2>1, <2>4 DEF ReaderHolds
    <3>2. Held(W - 1)' /\ Held(W)'
      BY <2>3, <2>5, <3>1
    <3>3. ASSUME NEW x \in W - 1 .. W PROVE Held(x)'
      <4>1. x = W - 1 \/ x = W
        OBVIOUS
      <4> QED
        BY <3>2, <4>1
    <3>4. curslot[file] % lockmod = (W - 1) % lockmod
      BY <1>2, <2>1 DEF ReaderHolds
    <3> QED
      BY <1>1, <1>2, <2>4, <3>3, <3>4 DEF ReaderHolds
  <2>7. FirstLap(W)'
    BY <1>1, <1>2, <2>1, <2>4 DEF FirstLap
  <2>8. ConsumerHolds(W)'
    <3> SUFFICES ASSUME ~First PROVE ConsumerHolds(W)'
      BY <1>1 DEF ConsumerHolds
    <3>1. /\ Lo <= Hi /\ Hi < W - 1 /\ W - 1 < Lo + lockmod
          /\ \A x \in Lo .. Hi : Held(x)
          /\ Mx <= B(Hi + 1) /\ B(Hi) <= Mx + 2 * ReadSize - 1
          /\ cpc = "wrap" => Hi = 0
      BY <2>1, <2>4 DEF ConsumerHolds
    <3>2. W # Lo + lockmod
      <4>1. SUFFICES ASSUME W = Lo + lockmod PROVE FALSE
        OBVIOUS
      <4>2. W % lockmod = Lo % lockmod
        BY <2>2, <4>1, Residue
      <4>3. Lo \in Lo .. Hi
        BY <2>2, <3>1
      <4>4. Held(Lo)
        BY <3>1, <4>3
      <4> QED
        BY <2>3, <2>5, <4>2, <4>4 DEF Held
    <3>3. W < Lo + lockmod
      BY <2>2, <3>1, <3>2, Constants
    <3>4. \A x \in Lo .. Hi : Held(x)'
      BY <2>2, <2>3, <3>1
    <3> QED
      BY <1>1, <2>4, <3>1, <3>3, <3>4 DEF ConsumerHolds, B
  <2>9. Begun(W)'
    BY <1>1, <1>2, <1>3, <2>1, <2>6, <2>7, <2>8
  <2> QED
    BY <2>9
<1> QED
  BY <1>1, <1>3, <1>4

LEMMA GoodUnlockThis ==
  ASSUME Inv, NEW f \in Readers, UnlockThis(f)
  PROVE  Good'
<1> SUFFICES ASSUME Active', ~overlap', ~lapped'
             PROVE  (\E W \in Int : Begun(W)') \/ Over'
  BY DEF Good
<1>0. ReaderStep(f)
  BY DEF ReaderStep
<1>1. /\ f = file /\ Active /\ ~overlap /\ ~lapped
      /\ (\E W \in Int : Begun(W)) \/ Over
      /\ rpc \in [Readers -> {"none", "top", "fill", "lock", "unlock", "done"}]
      /\ Mx' = Mx /\ First' = First /\ Lo' = Lo /\ Hi' = Hi
      /\ UNCHANGED <<cpc, files, file, taken, lockstart, lockend, muxindex, n2>>
      /\ Looking => Looking'
  BY <1>0, Reading
<1>2. /\ rpc[file] = "unlock" /\ rpc'[file] = "top" /\ unlockSlots({curslot[file]})
      /\ UNCHANGED <<buf, lastslot, endindex, writeslot, filepos, curslot, endofscan>>
  BY <1>1 DEF UnlockThis, RGo
<1>3. /\ Data => Data'
      /\ Over => Over'
      /\ \A W \in Int : Written(W) => Written(W)'
  BY <1>0, <1>2, NothingRead
<1>4. CASE \E W \in Int : Begun(W)
  <2>1. PICK W \in Int : Begun(W)
    BY <1>4
  <2> USE DEF Begun
  <2>2. LockTypes /\ Lo \in Int /\ Hi \in Int /\ file \in Readers
    BY <1>1, Current DEF Inv, Basic, TypeOK
  <2>3. curslot[file] \in Int
    <3>1. curslot \in [Readers -> 0 .. lockmod]
      BY DEF Inv, Basic, TypeOK, ReaderTypes
    <3> QED
      BY <2>2, <3>1, Constants
  <2>4. From(W) = W - 1 /\ To(W) = W /\ From(W)' = W /\ To(W)' = W
    BY <1>1, <1>2 DEF From, To
  <2>5. curslot[file] % lockmod = (W - 1) % lockmod
    BY <1>2, <2>1 DEF ReaderHolds
  <2>6. ASSUME NEW x \in Int, Held(x), W - 1 < x \/ x < W - 1, x < W - 1 + lockmod,
               W - 1 < x + lockmod
        PROVE  Held(x)'
    <3>1. (W - 1) % lockmod # x % lockmod
      BY <2>6, Residue
    <3>2. {curslot[file]} \in SUBSET Int
      BY <2>3
    <3> QED
      BY <1>2, <2>2, <2>5, <2>6, <3>1, <3>2, Unlocking
  <2>7. ReaderHolds(W)'
    <3>1. Held(W)
      BY <2>1, <2>4 DEF ReaderHolds
    <3>2. Held(W)'
      BY <2>6, <3>1, Constants
    <3>3. \A x \in W .. W : Held(x)'
      BY <3>2
    <3> QED
      BY <1>1, <1>2, <2>4, <3>3 DEF ReaderHolds
  <2>8. FirstLap(W)'
    BY <1>1, <1>2, <2>1, <2>4 DEF FirstLap
  <2>9. ConsumerHolds(W)'
    <3> SUFFICES ASSUME ~First PROVE ConsumerHolds(W)'
      BY <1>1 DEF ConsumerHolds
    <3>1. /\ Lo <= Hi /\ Hi < W - 1 /\ W < Lo + lockmod
          /\ \A x \in Lo .. Hi : Held(x)
          /\ Mx <= B(Hi + 1) /\ B(Hi) <= Mx + 2 * ReadSize - 1
          /\ cpc = "wrap" => Hi = 0
      BY <2>1, <2>4 DEF ConsumerHolds
    <3>2. ASSUME NEW x \in Lo .. Hi PROVE Held(x)'
      <4>1. x \in Int /\ Held(x) /\ x < W - 1 /\ W - 1 < x + lockmod
        BY <2>2, <3>1, Constants
      <4>2. x < W - 1 + lockmod
        BY <4>1, Constants
      <4> QED
        BY <2>6, <4>1, <4>2
    <3>3. Hi < W
      BY <2>2, <3>1
    <3> QED
      BY <1>1, <2>4, <3>1, <3>2, <3>3 DEF ConsumerHolds, B
  <2>10. Begun(W)'
    BY <1>1, <1>2, <1>3, <2>1, <2>7, <2>8, <2>9
  <2> QED
    BY <2>10
<1> QED
  BY <1>1, <1>3, <1>4

LEMMA GoodEndReader ==
  ASSUME Inv, NEW f \in Readers, EndReader(f)
  PROVE  Good'
<1> SUFFICES ASSUME Active', ~overlap', ~lapped'
             PROVE  (\E W \in Int : Begun(W)') \/ Over'
  BY DEF Good
<1>0. ReaderStep(f)
  BY DEF ReaderStep
<1>1. /\ f = file /\ Active
      /\ (\E W \in Int : Begun(W)) \/ Over
      /\ rpc \in [Readers -> {"none", "top", "fill", "lock", "unlock", "done"}]
  BY <1>0, Reading
<1>2. /\ rpc'[file] = "done"
      /\ ~keepreading \/ endofscan[file]
      /\ UNCHANGED <<buf, lastslot, endindex, writeslot, filepos, curslot, endofscan>>
  BY <1>1 DEF EndReader, RGo
<1>3. Over => Over'
  BY <1>0, <1>2, NothingRead
<1>4. keepreading
  BY <1>1, Current DEF Inv
<1>5. \A W \in Int : ~Begun(W)
  BY <1>2, <1>4 DEF Begun, Written
<1> QED
  BY <1>1, <1>3, <1>5

(* A reader about to read, or reading, into slot W writes over nothing that *)
(* is still to be taken.                                                   *)
LEMMA Ahead ==
  ASSUME Basic, Active, NEW W \in Int, Begun(W), rpc[file] \in {"top", "fill"},
         First => W <= lockmod
  PROVE  /\ Mx >= 0 /\ Mx <= B(lockmod) /\ B(W) + SlotSize <= Mx + B(lockmod)
         /\ W \in {writeslot, writeslot + lockmod} /\ W >= 1 /\ W < lockmod + lockmod
         /\ Mx + (filepos - taken) = B(W)
<1>1. Mx \in Int /\ Lo \in Int /\ writeslot \in 1 .. lockmod
  BY Current
<1>2. /\ Mx <= B(lockmod) /\ W \in {writeslot, writeslot + lockmod}
      /\ Mx + (filepos - taken) = B(W)
  BY DEF Begun, Written
<1>3. B(lockmod) \in Int /\ B(W) \in Int /\ B(lockmod) >= SlotSize
  <2>1. B(1) <= B(lockmod) /\ B(1) = SlotSize
    BY Places, Constants
  <2> QED
    BY <2>1, Places, Constants
<1>4. Mx >= 0 /\ B(W) + SlotSize <= Mx + B(lockmod)
  <2>1. CASE First
    <3>1. Mx = SlotSize
      BY <2>1 DEF First, Mx, Basic, Taking
    <3>2. B(W) <= B(lockmod)
      BY <2>1, Places, Constants
    <3> QED
      BY <1>3, <3>1, <3>2, Constants
  <2>2. CASE ~First
    <3>1. W < Lo + lockmod /\ B(Lo) <= Mx /\ Mx >= 0
      BY <2>2 DEF Begun, ConsumerHolds, Looking, To
    <3>2. Lo + lockmod \in Int /\ B(Lo) \in Int
      BY <1>1, Constants, Places
    <3>3. B(W) + SlotSize <= B(Lo + lockmod) /\ B(Lo + lockmod) = B(Lo) + B(lockmod)
      BY <1>1, <3>1, <3>2, Places
    <3> QED
      BY <1>1, <1>3, <3>1, <3>2, <3>3, Constants
  <2> QED
    BY <2>1, <2>2
<1>5. W < lockmod + lockmod
  <2>1. lockmod + lockmod \in Int
    BY Constants
  <2>2. B(lockmod + lockmod) = B(lockmod) + B(lockmod)
    BY Places, Constants
  <2>3. B(W) < B(lockmod + lockmod)
    BY <1>1, <1>2, <1>3, <1>4, <2>2, Constants
  <2> QED
    BY <2>1, <2>3, Places
<1>6. W >= 1
  BY <1>1, <1>2, Constants
<1> QED
  BY <1>2, <1>4, <1>5, <1>6

LEMMA Behind ==
  ASSUME Basic, Active, NEW W \in Int, Begun(W), rpc[file] \in {"top", "fill"},
         First => W <= lockmod, NEW i \in Int, 0 <= i, i < filepos - taken
  PROVE  /\ Place(Mx + i) \in 0 .. RingSize - 1
         /\ Place(Mx + i) < B(writeslot) \/ Place(Mx + i) >= B(writeslot) + SlotSize
<1>1. /\ Mx >= 0 /\ Mx <= B(lockmod) /\ B(W) + SlotSize <= Mx + B(lockmod)
      /\ W \in {writeslot, writeslot + lockmod} /\ Mx + (filepos - taken) = B(W)
  BY Ahead
<1>2. /\ Mx \in Int /\ writeslot \in 1 .. lockmod /\ writeslot \in Int
      /\ filepos \in Int /\ taken \in Int
  BY Current
<1>3. PICK x \in Int : x = Mx + i
  BY <1>2
<1>4. PICK e \in Int : e = filepos - taken
  BY <1>2
<1>5. /\ B(lockmod) \in Int /\ B(W) \in Int /\ B(writeslot) \in Int
      /\ RingSize = B(lockmod) + SlotSize /\ SlotSize \in Int /\ SlotSize >= 1
      /\ B(writeslot) <= B(lockmod) /\ B(writeslot + lockmod) = B(writeslot) + B(lockmod)
  <2>1. writeslot <= lockmod /\ lockmod \in Int /\ writeslot \in Int
    BY <1>2, Constants
  <2>2. B(writeslot) <= B(lockmod) /\ B(writeslot + lockmod) = B(writeslot) + B(lockmod)
    BY <2>1, Places
  <2>3. B(lockmod) \in Int /\ B(W) \in Int /\ B(writeslot) \in Int
    BY <2>1, Places
  <2>4. RingSize = B(lockmod) + SlotSize
    BY Places
  <2> QED
    BY <2>2, <2>3, <2>4, Constants
<1>6. x >= Mx /\ x < B(W) /\ x >= 0
  BY <1>1, <1>2, <1>3, <1>4
<1>7. CASE W = writeslot
  <2>1. x < B(writeslot) /\ x < RingSize
    BY <1>5, <1>6, <1>7
  <2>2. Place(Mx + i) = x
    BY <1>3, <2>1 DEF Place
  <2> QED
    BY <1>5, <1>6, <2>1, <2>2
<1>8. CASE W = writeslot + lockmod
  <2>1. B(writeslot) + SlotSize <= Mx /\ x < B(writeslot) + B(lockmod)
    BY <1>1, <1>2, <1>5, <1>6, <1>8
  <2>2. CASE x < RingSize
    <3>1. Place(Mx + i) = x
      BY <1>3, <2>2 DEF Place
    <3>2. x >= B(writeslot) + SlotSize
      BY <1>2, <1>5, <1>6, <2>1
    <3> QED
      BY <1>5, <1>6, <2>2, <3>1, <3>2
  <2>3. CASE x >= RingSize
    <3>1. Place(Mx + i) = x - B(lockmod)
      BY <1>3, <1>5, <2>3 DEF Place
    <3>2. x - B(lockmod) < B(writeslot) /\ x - B(lockmod) >= 0 /\ x - B(lockmod) < RingSize
      BY <1>5, <2>1, <2>3
    <3> QED
      BY <1>5, <3>1, <3>2
  <2> QED
    BY <1>5, <2>2, <2>3
<1> QED
  BY <1>1, <1>7, <1>8

LEMMA GoodStartRead ==
  ASSUME Inv, NEW f \in Readers, StartRead(f)
  PROVE  Good'
<1> SUFFICES ASSUME Active', ~overlap', ~lapped'
             PROVE  (\E W \in Int : Begun(W)') \/ Over'
  BY DEF Good
<1>0. ReaderStep(f) /\ Basic /\ BufTypes
  BY DEF ReaderStep, Inv, Basic, TypeOK
<1>1. /\ f = file /\ Active /\ ~overlap /\ ~lapped
      /\ (\E W \in Int : Begun(W)) \/ Over
      /\ rpc \in [Readers -> {"none", "top", "fill", "lock", "unlock", "done"}]
      /\ Mx' = Mx /\ First' = First /\ Lo' = Lo /\ Hi' = Hi
      /\ UNCHANGED <<cpc, files, file, taken, lockstart, lockend, muxindex, n2>>
      /\ Looking => Looking'
  BY <1>0, Reading
<1>2. /\ rpc[file] = "top" /\ rpc'[file] = "fill" /\ ~endofscan[file]
      /\ buf' = [i \in DOMAIN buf |-> IF i \div SlotSize = writeslot THEN Junk ELSE buf[i]]
      /\ lapped' = (lapped \/ (writeslot = 1 /\ curslot[file] # 0
                                /\ (lockstart = -1 \/ cpc = "lockfirst")))
      /\ UNCHANGED <<lastslot, endindex, writeslot, filepos, curslot, endofscan>>
      /\ UNCHANGED mutex
  BY <1>1 DEF StartRead, RGo, lockVars
<1>3. PICK W \in Int : Begun(W)
  BY <1>1, <1>2 DEF Over, Ended
<1> USE DEF Begun
<1>4. From(W) = W /\ To(W) = W /\ From(W)' = W /\ To(W)' = W
  BY <1>1, <1>2 DEF From, To
<1>5. writeslot \in 1 .. lockmod /\ writeslot \in Int
  BY <1>0, <1>1, Current
<1>6. First => W <= lockmod
  <2>1. SUFFICES ASSUME First, W > lockmod PROVE FALSE
    BY Constants
  <2>2. W <= lockmod + 1 /\ (W > 1 => curslot[file] # 0)
    BY <1>3, <2>1 DEF FirstLap
  <2>3. W = writeslot + lockmod
    BY <1>3, <1>5, <2>1, Constants DEF Written
  <2>4. writeslot = 1 /\ curslot[file] # 0
    BY <1>5, <2>1, <2>2, <2>3, Constants
  <2> QED
    BY <1>2, <2>1, <2>4 DEF First
<1>7. Data'
  <2>1. ASSUME NEW i \in Int, 0 <= i, i < filepos - taken
        PROVE  buf'[Place(Mx + i)] = buf[Place(Mx + i)]
    <3>1. PICK p \in Int : p = Place(Mx + i) /\ p \in 0 .. RingSize - 1
                           /\ (p < B(writeslot) \/ p >= B(writeslot) + SlotSize)
      <4>1. Place(Mx + i) \in 0 .. RingSize - 1
            /\ (Place(Mx + i) < B(writeslot) \/ Place(Mx + i) >= B(writeslot) + SlotSize)
        BY <1>0, <1>1, <1>2, <1>3, <1>6, <2>1, Behind
      <4>2. Place(Mx + i) \in Int
        BY <4>1
      <4> QED
        BY <4>1, <4>2
    <3>2. p \div SlotSize # writeslot
      <4>1. B(p \div SlotSize) <= p /\ p < B(p \div SlotSize) + SlotSize
        BY Slot
      <4>2. B(writeslot) \in Int /\ SlotSize \in Int
        BY <1>5, Places, Constants
      <4> QED
        BY <3>1, <4>1, <4>2
    <3>3. p \in DOMAIN buf
      BY <1>0, <3>1 DEF BufTypes
    <3>4. buf'[p] = buf[p]
      BY <1>2, <3>2, <3>3
    <3> QED
      BY <3>1, <3>4
  <2>2. \A i \in Int : Place(Mx + i)' = Place(Mx + i)
    BY <1>1 DEF Place
  <2> QED
    BY <1>1, <1>2, <1>3, <2>1, <2>2 DEF Data, FileTime, Place
<1>8. Written(W)'
  BY <1>1, <1>2, <1>3 DEF Written, B
<1>9. ReaderHolds(W)'
  BY <1>1, <1>2, <1>3, <1>4 DEF ReaderHolds, Held
<1>10. FirstLap(W)'
  BY <1>1, <1>2, <1>3, <1>4, <1>6, Constants DEF FirstLap
<1>11. ConsumerHolds(W)'
  BY <1>1, <1>2, <1>3, <1>4 DEF ConsumerHolds, Held, B
<1>12. Begun(W)'
  BY <1>1, <1>2, <1>3, <1>7, <1>8, <1>9, <1>10, <1>11
<1> QED
  BY <1>12

LEMMA GoodFill ==
  ASSUME Inv, NEW f \in Readers, Fill(f)
  PROVE  Good'
<1> SUFFICES ASSUME Active', ~overlap', ~lapped'
             PROVE  (\E W \in Int : Begun(W)') \/ Over'
  BY DEF Good
<1>0. ReaderStep(f) /\ Basic /\ BufTypes
  BY DEF ReaderStep, Inv, Basic, TypeOK
<1>1. /\ f = file /\ Active /\ ~overlap /\ ~lapped
      /\ (\E W \in Int : Begun(W)) \/ Over
      /\ rpc \in [Readers -> {"none", "top", "fill", "lock", "unlock", "done"}]
      /\ Mx' = Mx /\ First' = First /\ Lo' = Lo /\ Hi' = Hi
      /\ UNCHANGED <<cpc, files, file, taken, lockstart, lockend, muxindex, n2>>
      /\ Looking => Looking'
  BY <1>0, Reading
<1>2. /\ file \in Readers /\ files[file].length \in Int /\ files[file].start \in Int
      /\ filepos \in Int /\ taken \in Int /\ Mx \in Int
      /\ writeslot \in 1 .. lockmod /\ writeslot \in Int
  BY <1>0, <1>1, Current
<1>3. /\ curslot \in [Readers -> 0 .. lockmod] /\ endofscan \in [Readers -> BOOLEAN]
  BY <1>0 DEF Basic, TypeOK, ReaderTypes
<1>4. PICK n \in Int : n = IF SlotSize <= files[file].length - filepos THEN SlotSize
                           ELSE files[file].length - filepos
  BY <1>2, Constants
<1> DEFINE left == IF filepos < files[file].length
                   THEN files[file].length - filepos ELSE 0
<1>5. n = Min({SlotSize, left})
  <2>1. rpc[file] = "fill"
    BY <1>1 DEF Fill, RGo
  <2>2. filepos <= files[file].length
    BY <1>1, <2>1 DEF Over, Ended, Begun, Written
  <2>3. left = files[file].length - filepos /\ left \in Int
    BY <1>2, <2>2
  <2> HIDE DEF left
  <2> QED
    BY <1>2, <1>4, <2>3, Constants, Less
<1>6. /\ rpc[file] = "fill" /\ rpc'[file] = "lock"
      /\ buf' = [i \in DOMAIN buf |->
               IF i \in B(writeslot) .. B(writeslot) + n - 1
               THEN FileTime(file, filepos + i - B(writeslot))
               ELSE buf[i]]
      /\ filepos' = filepos + n
      /\ endofscan'[file] = (n < SlotSize)
      /\ lastslot' = IF n < SlotSize THEN writeslot ELSE lastslot
      /\ endindex' = IF n < SlotSize THEN B(writeslot) + n ELSE endindex
      /\ curslot'[file] = writeslot
      /\ writeslot' = IF writeslot + 1 >= Slots THEN 1 ELSE writeslot + 1
      /\ UNCHANGED mutex
  BY <1>1, <1>2, <1>3, <1>5 DEF Fill, RGo, B, lockVars
<1>7. PICK W \in Int : Begun(W)
  BY <1>1, <1>6 DEF Over, Ended
<1> USE DEF Begun
<1>8. First => 1 <= W /\ W <= lockmod
  BY <1>6, <1>7, Constants DEF FirstLap, From
<1>9. /\ Mx >= 0 /\ Mx <= B(lockmod) /\ B(W) + SlotSize <= Mx + B(lockmod)
      /\ W \in {writeslot, writeslot + lockmod} /\ W >= 1 /\ W < lockmod + lockmod
      /\ Mx + (filepos - taken) = B(W)
  BY <1>0, <1>1, <1>6, <1>7, <1>8, Ahead
<1>10. n >= 0 /\ n <= SlotSize /\ filepos + n <= files[file].length
       /\ (n < SlotSize => filepos + n = files[file].length)
  <2>1. filepos <= files[file].length
    BY <1>7 DEF Written
  <2> QED
    BY <1>2, <1>4, <2>1, Constants
<1>11. /\ B(lockmod) \in Int /\ B(W) \in Int /\ B(writeslot) \in Int
       /\ RingSize = B(lockmod) + SlotSize /\ SlotSize \in Int /\ SlotSize >= 1
       /\ B(writeslot) <= B(lockmod) /\ B(writeslot + lockmod) = B(writeslot) + B(lockmod)
       /\ B(writeslot) >= SlotSize
  <2>1. B(1) <= B(writeslot) /\ B(1) = SlotSize
    BY <1>2, Places
  <2> QED
    BY <1>2, <2>1, Places, Constants
<1>12. PICK rem \in Int : rem = filepos - taken
  BY <1>2
<1>13. filepos' - taken' = rem + n /\ Mx + rem = B(W)
  BY <1>1, <1>2, <1>6, <1>9, <1>12
<1>14. DOMAIN buf = 0 .. RingSize - 1
  BY <1>0 DEF BufTypes
<1>15. Data'
  <2>1. ASSUME NEW i \in Int, 0 <= i, i < rem + n
        PROVE  buf'[Place(Mx + i)] = files[file].start + (taken + i)
    <3>1. CASE i < rem
      <4>1. i < filepos - taken
        BY <1>12, <3>1
      <4>2. /\ Place(Mx + i) \in 0 .. RingSize - 1
            /\ Place(Mx + i) < B(writeslot) \/ Place(Mx + i) >= B(writeslot) + SlotSize
        BY <1>0, <1>1, <1>6, <1>7, <1>8, <2>1, <4>1, Behind
      <4>3. PICK p \in Int : p = Place(Mx + i)
        BY <4>2
      <4>4. p \in DOMAIN buf /\ ~(p \in B(writeslot) .. B(writeslot) + n - 1)
        <5>1. p \in DOMAIN buf
          BY <1>14, <4>2, <4>3
        <5>2. p < B(writeslot) \/ p >= B(writeslot) + SlotSize
          BY <4>2, <4>3
        <5>3. B(writeslot) \in Int /\ SlotSize \in Int /\ n <= SlotSize
          BY <1>10, <1>11
        <5> QED
          BY <5>1, <5>2, <5>3
      <4>5. buf'[p] = buf[p]
        BY <1>6, <4>4
      <4>6. buf[Place(Mx + i)] = files[file].start + (taken + i)
        BY <1>7, <2>1, <4>1 DEF Data, FileTime
      <4> QED
        BY <4>3, <4>5, <4>6
    <3>2. CASE i >= rem
      <4>1. PICK j \in Int : j = i - rem
        OBVIOUS
      <4>2. 0 <= j /\ j < n /\ Mx + i = B(W) + j
        BY <1>2, <1>13, <2>1, <3>2, <4>1
      <4>3. PICK p \in Int : p = B(writeslot) + j
        BY <1>11
      <4>4. Place(Mx + i) = p
        <5>1. PICK x \in Int : x = Mx + i
          BY <1>2
        <5>2. CASE W = writeslot
          <6>1. x = p /\ x < RingSize
            BY <1>10, <1>11, <4>2, <4>3, <5>1, <5>2
          <6> QED
            BY <5>1, <6>1 DEF Place
        <5>3. CASE W = writeslot + lockmod
          <6>1. x - B(lockmod) = p /\ ~(x < RingSize)
            BY <1>10, <1>11, <4>2, <4>3, <5>1, <5>3
          <6> QED
            BY <5>1, <6>1 DEF Place
        <5> QED
          BY <1>9, <5>2, <5>3
      <4>5. p \in DOMAIN buf /\ p \in B(writeslot) .. B(writeslot) + n - 1
        <5>1. 0 <= p /\ p <= RingSize - 1 /\ B(writeslot) <= p /\ p <= B(writeslot) + n - 1
          BY <1>10, <1>11, <4>2, <4>3
        <5>2. RingSize - 1 \in Int /\ B(writeslot) + n - 1 \in Int
          BY <1>11
        <5> QED
          BY <1>11, <1>14, <5>1, <5>2
      <4>6. buf'[p] = files[file].start + (filepos + p - B(writeslot))
        BY <1>6, <4>5 DEF FileTime
      <4>7. filepos + p - B(writeslot) = taken + i
        BY <1>2, <1>11, <1>12, <4>1, <4>3
      <4> QED
        BY <4>4, <4>6, <4>7
    <3> QED
      BY <3>1, <3>2
  <2>2. \A i \in Int : Place(Mx + i)' = Place(Mx + i)
    BY <1>1 DEF Place
  <2>3. ASSUME NEW i \in Int, 0 <= i, i < filepos' - taken'
        PROVE  buf'[Place(Mx + i)'] = files'[file'].start + (taken' + i)
    <3>1. i < rem + n
      BY <1>13, <2>3
    <3> QED
      BY <1>1, <2>1, <2>2, <2>3, <3>1
  <2> QED
    BY <2>3 DEF Data, FileTime
<1>16. CASE n < SlotSize
  <2>1. Ended'
    <3>1. endofscan'[file] /\ lastslot' = writeslot /\ endindex' = B(writeslot) + n
          /\ filepos' = files[file].length
      BY <1>6, <1>10, <1>16
    <3>2. B(writeslot) <= B(writeslot) + n /\ B(writeslot) + n < B(writeslot) + SlotSize
      BY <1>10, <1>11, <1>16
    <3> QED
      BY <1>1, <1>2, <1>6, <3>1, <3>2 DEF Ended, B
  <2>2. Left'
    <3>1. rem + n < B(lockmod)
      BY <1>2, <1>9, <1>11, <1>13, <1>16
    <3>2. Mx + (rem + n) \in {B(writeslot) + n, B(writeslot) + n + B(lockmod)}
      <4>1. B(W) \in {B(writeslot), B(writeslot) + B(lockmod)}
        BY <1>9, <1>11
      <4> QED
        BY <1>2, <1>11, <1>13, <4>1
    <3>3. endindex' = B(writeslot) + n
      BY <1>6, <1>16
    <3>4. ~(Mx > B(lockmod))
      BY <1>2, <1>9, <1>11
    <3> QED
      BY <1>1, <1>7, <1>13, <3>1, <3>2, <3>3, <3>4 DEF Left, B
  <2> QED
    BY <1>15, <2>1, <2>2 DEF Over
<1>17. CASE n = SlotSize
  <2>1. PICK V \in Int : V = W + 1
    OBVIOUS
  <2>2. From(W) = W /\ To(W) = W /\ From(V)' = W /\ To(V)' = W
    BY <1>1, <1>6, <2>1 DEF From, To
  <2>3. V \in {writeslot', writeslot' + lockmod}
    <3>1. Slots = lockmod + 1 /\ lockmod \in Int
      BY Constants
    <3> QED
      BY <1>2, <1>6, <1>9, <2>1, <3>1
  <2>4. Written(V)'
    <3>1. B(V) = B(W) + SlotSize
      BY <2>1, Places
    <3>2. Mx + (rem + n) = B(V)
      BY <1>2, <1>11, <1>13, <1>17, <3>1
    <3>3. ~(n < SlotSize) /\ filepos' <= files[file].length
      BY <1>6, <1>10, <1>11, <1>17
    <3>4. ~endofscan'[file]
      BY <1>6, <3>3, Zenon
    <3> QED
      BY <1>1, <1>6, <1>9, <1>13, <2>3, <3>2, <3>3, <3>4 DEF Written, B
  <2>5. ReaderHolds(V)'
    <3>1. \A x \in W .. W : Held(x)'
      BY <1>6, <1>7, <2>2 DEF ReaderHolds, Held
    <3>2. writeslot % lockmod = (V - 1) % lockmod
      <4>1. V - 1 = W
        BY <2>1
      <4> QED
        BY <1>2, <1>9, <4>1, Residue
    <3> QED
      BY <1>1, <1>6, <2>2, <3>1, <3>2 DEF ReaderHolds
  <2>6. FirstLap(V)'
    <3>1. writeslot # 0 /\ rpc'[file] # "fill"
      BY <1>2, <1>6
    <3>2. First => 1 <= W /\ V <= lockmod + 1
      BY <1>8, <2>1, Constants
    <3> QED
      BY <1>1, <1>6, <2>2, <3>1, <3>2 DEF FirstLap
  <2>7. ConsumerHolds(V)'
    BY <1>1, <1>6, <1>7, <2>2 DEF ConsumerHolds, Held, B
  <2>8. lastslot' = -1
    BY <1>6, <1>7, <1>11, <1>17
  <2>9. Begun(V)'
    BY <1>1, <1>7, <1>15, <2>4, <2>5, <2>6, <2>7, <2>8
  <2> QED
    BY <2>9
<1> QED
  BY <1>10, <1>11, <1>16, <1>17

-----------------------------------------------------------------------------
(* The invariant is inductive, and InOrder follows.                        *)
LEMMA GoodStep == Inv /\ [Next]_vars => Good'
<1> SUFFICES ASSUME Inv, [Next]_vars PROVE Good'
  OBVIOUS
<1>1. CASE ConsumerStep
  BY <1>1, GoodOpen, GoodRead, GoodLockFirst, GoodChoose, GoodLockMore, GoodMux,
     GoodWrap, GoodHouseKeep, GoodElse DEF ConsumerStep
<1>2. ASSUME NEW f \in Readers, ReaderStep(f) PROVE Good'
  BY <1>2, GoodStartRead, GoodFill, GoodLockNext, GoodUnlockThis, GoodEndReader
     DEF ReaderStep
<1>3. CASE Finished
  BY <1>3, GoodElse
<1>4. CASE UNCHANGED vars
  <2>1. /\ Active' = Active /\ Data' = Data /\ Ended' = Ended /\ Left' = Left
        /\ \A W \in Int : Begun(W)' = Begun(W)
    <3>1. UNCHANGED <<cpc, lockstart, lockend, muxindex, n2, files, file, taken, dataremaining,
                      mutex, buf, lastslot, endindex, writeslot, filepos, rpc, curslot,
                      endofscan, overlap, lapped>>
      BY <1>4 DEF vars, consumerVars, fileVars, lockVars, readerVars
    <3>2. /\ Mx' = Mx /\ First' = First /\ Lo' = Lo /\ Hi' = Hi
      BY <3>1 DEF Mx, First, Lo, Hi, Turn
    <3>3. Looking' = Looking /\ Active' = Active
      BY <3>1, <3>2 DEF Looking, Active, B
    <3>4. Data' = Data /\ Ended' = Ended /\ Left' = Left
      BY <3>1, <3>2, <3>3 DEF Data, Ended, Left, Place, FileTime, B
    <3>5. ASSUME NEW W \in Int PROVE Begun(W)' = Begun(W)
      <4>1. From(W)' = From(W) /\ To(W)' = To(W)
        BY <3>1 DEF From, To
      <4>2. Written(W)' = Written(W) /\ ReaderHolds(W)' = ReaderHolds(W)
        BY <3>1, <3>2, <4>1 DEF Written, ReaderHolds, Held, B
      <4>3. FirstLap(W)' = FirstLap(W) /\ ConsumerHolds(W)' = ConsumerHolds(W)
        BY <3>1, <3>2, <4>1 DEF FirstLap, ConsumerHolds, Held, B
      <4> QED
        BY <3>1, <3>3, <3>4, <4>2, <4>3 DEF Begun
    <3> QED
      BY <3>3, <3>4, <3>5
  <2>2. overlap' = overlap /\ lapped' = lapped
    BY <1>4 DEF vars, readerVars
  <2> QED
    BY <2>1, <2>2 DEF Inv, Good, Over
<1> QED
  BY <1>1, <1>2, <1>3, <1>4 DEF Next

LEMMA InvInit == Init => Inv
<1> SUFFICES ASSUME Init PROVE Inv
  OBVIOUS
<1>1. ~Active
  BY DEF Init, Active
<1> QED
  BY <1>1, BasicInit DEF Inv, Good

LEMMA InvStep == Inv /\ [Next]_vars => Inv'
BY BasicStep, GoodStep DEF Inv

LEMMA InvInOrder == Inv => InOrder
<1> SUFFICES ASSUME Inv, cpc = "mux", dataremaining, ~overlap, ~lapped,
                    NEW i \in 0 .. visible - 1, taken + i < files[file].length
             PROVE  Visible(i)
  BY DEF InOrder
<1>1. Active /\ Basic /\ Good /\ TypeOK
  BY DEF Active, Inv, Basic
<1>2. /\ Mx \in Int /\ muxindex \in Int /\ filepos \in Int /\ taken \in Int
      /\ lastslot \in Int /\ endindex \in Int /\ lockend \in Int /\ n2 \in Int
      /\ files[file].length \in Int
  BY <1>1, Current
<1>3. PICK index \in Int : index = muxindex + i + 1
  BY <1>2
<1>4. muxend \in Int
  BY <1>1, MuxEnd
<1>5. i \in Int /\ 0 <= i /\ i < muxend - muxindex
  BY <1>2, <1>4 DEF visible
<1>6. muxindex <= index /\ index <= muxend
  BY <1>2, <1>3, <1>4, <1>5
<1>7. /\ B(lockmod) \in Int /\ RingSize = B(lockmod) + SlotSize /\ RingSize \in Int
      /\ SlotSize \in Int
  BY Places, Constants
<1>8. ASSUME Data, Mx = muxindex, i < filepos - taken, Mx + i < RingSize
      PROVE  Visible(i)
  BY <1>5, <1>8 DEF Data, Place, Visible
<1>9. ASSUME NEW W \in Int, Begun(W) PROVE Visible(i)
  <2>1. Looking /\ Data /\ lastslot = -1 /\ n2 >= 0
    BY <1>9 DEF Begun, Looking
  <2>2. /\ Mx = muxindex /\ ~First /\ Hi = lockend
        /\ n2 <= lockend /\ index <= B(n2 + 1)
        /\ Mx <= B(lockmod) => n2 <= lockmod /\ index <= RingSize
    BY <1>1, <1>2, <1>6, <2>1, MuxPlace
  <2>3. Mx <= B(lockmod) /\ Mx + (filepos - taken) = B(W)
    BY <1>9 DEF Begun, Written
  <2>4. lockend < W
    BY <1>2, <1>9, <2>2 DEF Begun, ConsumerHolds, From
  <2>5. B(n2 + 1) <= B(W) /\ B(n2 + 1) \in Int /\ B(W) \in Int
    <3>1. n2 + 1 \in Int /\ n2 + 1 <= W
      BY <1>2, <2>2, <2>4
    <3> QED
      BY <3>1, Places
  <2>6. i < filepos - taken /\ Mx + i < RingSize
    BY <1>2, <1>3, <1>5, <1>7, <2>2, <2>3, <2>5
  <2> QED
    BY <1>8, <2>1, <2>2, <2>6
<1>10. ASSUME Over PROVE Visible(i)
  <2>1. i < filepos - taken /\ filepos > taken
    <3>1. filepos = files[file].length
      BY <1>10 DEF Over, Ended
    <3> QED
      BY <1>2, <1>5, <3>1
  <2>2. /\ Mx > B(lockmod) => Mx + (filepos - taken) = endindex
        /\ Looking
    BY <1>10, <2>1 DEF Over, Left
  <2>3. /\ lastslot \in Int /\ lastslot >= 1 /\ lastslot <= lockmod
        /\ B(lastslot) <= endindex /\ endindex < B(lastslot) + SlotSize
    BY <1>2, <1>10, Constants DEF Over, Ended
  <2>4. /\ Mx = muxindex
        /\ Mx <= B(lockmod) => n2 <= lockmod /\ index <= RingSize
    BY <1>1, <1>6, <2>2, <2>3, MuxPlace
  <2>5. endindex < RingSize
    <3>1. B(lastslot) <= B(lockmod) /\ B(lastslot) \in Int
      BY <2>3, Places, Constants
    <3> QED
      BY <1>2, <1>7, <2>3, <3>1
  <2>6. Mx + i < RingSize
    BY <1>2, <1>3, <1>5, <1>7, <2>1, <2>2, <2>4, <2>5
  <2>7. Data
    BY <1>10 DEF Over
  <2> QED
    BY <1>8, <2>1, <2>4, <2>6, <2>7
<1> QED
  BY <1>1, <1>9, <1>10 DEF Good

(* The buffer and its readers keep to their types.                         *)
THEOREM SlotsTyped == Spec => []TypeOK
<1>1. Inv => TypeOK
  BY DEF Inv, Basic
<1> QED
  BY <1>1, InvInit, InvStep, PTL DEF Spec

(* As long as the readers of two files do not overlap and no reader laps   *)
(* the ring before the first lock, the frames vdifmux takes from the slots *)
(* the consumer has locked are those of the file, in order and without a   *)
(* gap, whatever the reader is doing.                                      *)
THEOREM SlotsInOrder == Spec => []InOrder
<1> QED
  BY InvInit, InvStep, InvInOrder, PTL DEF Spec

=============================================================================
