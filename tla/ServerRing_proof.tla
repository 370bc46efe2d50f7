-------------------------- MODULE ServerRing_proof --------------------------
(***************************************************************************)
(* Proof of InOrder of ServerRing.  The invariant says, as that of         *)
(* SlotRing_proof does for its ring, where the thread and the consumer are *)
(* in the ring and which locks they hold, and besides that the thread has  *)
(* done with a record before the next is opened.                           *)
(***************************************************************************)
EXTENDS ServerRing, Sums

B(s) == s * SlotSize
Opening == {"bar1", "bar2"}
Going == {"begin", "read", "lockfirst", "choose", "lockmore", "fix", "wrap",
          "housekeep"}
Gone == {"leave", "ended", "dtor1", "dtor2", "join", "gone", "dead"}
ThreadStates == {"bar1", "arm", "bar2", "top", "fill", "lock", "next", "again",
                 "unlock", "check", "exit"}

ConstTypes ==
  \/ kind = "mark5" /\ directory \in Modules
  \/ kind = "network" /\ sends \in Sends
ConsumerTypes ==
  /\ cpc \in {"open"} \cup Opening \cup Going \cup Gone
  /\ lockstart \in Int /\ lockend \in Int /\ muxindex \in Int /\ n2 \in Int
  /\ taken \in Nat
ThreadTypes ==
  /\ tpc \in ThreadStates
  /\ lastslot \in Int /\ endindex \in Int
  /\ writeslot \in 1 .. lockmod /\ curslot \in 0 .. lockmod
PosTypes ==
  readpointer \in Int /\ readend \in Nat /\ scanNum \in Nat /\ readscan \in Nat
LockTypes == mutex \in [0 .. lockmod - 1 -> 0 .. 2]
BufTypes == DOMAIN buf = 0 .. RingSize - 1
Typed ==
  ConstTypes /\ ConsumerTypes /\ ThreadTypes /\ PosTypes /\ LockTypes /\ BufTypes

(* What the flags say of where the consumer is.                            *)
Flags ==
  /\ keepreading => ~threadstop /\ ~xlrfail /\ cpc \notin Gone
  /\ kind = "mark5" /\ keepreading /\ cpc = "open" => ~dataremaining
Taking ==
  /\ cpc \in Opening \cup {"begin"} => lockstart = -1
  /\ cpc \in Going /\ dataremaining =>
       lockstart >= 0 \/ (lockstart = -1 /\ cpc \in {"begin", "read"})
  /\ cpc = "lockfirst" => lockstart = 1 /\ lockend = 1 /\ muxindex = SlotSize
Basic == Typed /\ Flags /\ Taking

-----------------------------------------------------------------------------
(* Slots begin SlotSize apart.                                             *)
LEMMA Constants ==
  /\ lockmod \in Int /\ lockmod >= 4 /\ Slots = lockmod + 1 /\ Slots \in Int
  /\ SlotSize \in Int /\ ReadSize \in Int /\ ReadSize >= 1
  /\ SlotSize > 2 * ReadSize /\ MinLeftOver \in Int /\ MinLeftOver >= 1
BY RingAssumption DEF lockmod

LEMMA Places ==
  /\ \A a \in Int : B(a) \in Int /\ B(a + 1) = B(a) + SlotSize
                    /\ B(a + lockmod) = B(a) + B(lockmod)
                    /\ B(a - lockmod) = B(a) - B(lockmod)
  /\ \A a, b \in Int : a < b => B(a) + SlotSize <= B(b)
  /\ \A a, b \in Int : B(a) < B(b) => a < b
  /\ \A a, b \in Int : a <= b => B(a) <= B(b)
  /\ B(0) = 0 /\ B(1) = SlotSize
  /\ RingSize = B(lockmod) + SlotSize /\ RingSize = B(lockmod + 1)
  /\ RingSize = B(Slots)
<1>1. SlotSize >= 1
  BY Constants
<1>2. B(0) = 0 /\ B(1) = SlotSize
  BY Constants DEF B
<1>3. RingSize = B(Slots) /\ RingSize = B(lockmod + 1)
        /\ B(lockmod + 1) = B(lockmod) + SlotSize
  BY Constants DEF B, RingSize
<1> QED
  BY <1>1, <1>2, <1>3, Constants, Multiples DEF B

(* The slot a place is in.                                                 *)
LEMMA Slot ==
  ASSUME NEW x \in Int
  PROVE  /\ x \div SlotSize \in Int
         /\ B(x \div SlotSize) <= x /\ x < B(x \div SlotSize) + SlotSize
         /\ \A b \in Int : B(b) <= x <=> b <= x \div SlotSize
<1>1. SlotSize >= 1
  BY Constants
<1> QED
  BY <1>1, Constants, SlotOf DEF B

LEMMA Remainder ==
  ASSUME NEW s \in Int, NEW x \in Int, B(s) <= x, x < B(s) + SlotSize
  PROVE  x % SlotSize = x - B(s)
<1>1. SlotSize >= 1
  BY Constants
<1> QED
  BY <1>1, Constants, SlotOf DEF B

(* Which slots have the same lock.                                         *)
LEMMA Residue ==
  /\ \A a \in Int : a % lockmod \in 0 .. lockmod - 1
                    /\ (a + lockmod) % lockmod = a % lockmod
                    /\ (a - lockmod) % lockmod = a % lockmod
  /\ \A a, b \in Int : a < b /\ b < a + lockmod => a % lockmod # b % lockmod
<1>1. lockmod >= 1
  BY Constants
<1> QED
  BY <1>1, Constants, Residues

LEMMA One == 1 % lockmod = 1
<1>1. lockmod >= 2
  BY Constants
<1> QED
  BY <1>1, Constants, OneLeft

LEMMA Greater ==
  ASSUME NEW a \in Int, NEW b \in Int
  PROVE  Max({a, b}) = IF a >= b THEN a ELSE b
BY DEF Max

LEMMA Less ==
  ASSUME NEW a \in Int, NEW b \in Int
  PROVE  Min({a, b}) = IF a <= b THEN a ELSE b
BY DEF Min


(* The record that is opened is one of those there are.                    *)
LEMMA RecordOpened ==
  ASSUME ConstTypes, scanNum \in Nat, NextRecord # 0
  PROVE  NextRecord \in Nat \ {0} /\ Records[NextRecord].length \in Nat
<1> DEFINE R == [start : Int, length : Nat]
<1>1. Records \in Seq(R)
  <2>1. CASE kind = "mark5" /\ directory \in Modules
    BY <2>1, RecordsAssumption DEF Records
  <2>2. CASE kind = "network" /\ sends \in Sends
    <3>1. sends \in Nat /\ Records = << [start |-> 0, length |-> sends] >>
      BY <2>2, RecordsAssumption DEF Records
    <3>2. [start |-> 0, length |-> sends] \in R
      BY <3>1
    <3> HIDE DEF R
    <3> QED
      BY <3>1, <3>2
  <2> QED
    BY <2>1, <2>2 DEF ConstTypes
<1> HIDE DEF R
<1>2. Len(Records) \in Nat /\ \A k \in 1 .. Len(Records) : Records[k] \in R
  BY <1>1
<1>3. NextRecord \in 1 .. Len(Records)
  <2>1. CASE scanNum = 0
    <3>1. NextRecord = Min(FirstScan) /\ FirstScan # {}
      BY <2>1 DEF NextRecord
    <3>2. FirstScan \subseteq 1 .. Len(Records)
      BY DEF FirstScan
    <3>3. FirstScan \in SUBSET Nat
      BY <1>2, <3>2
    <3>4. \E m \in FirstScan : \A k \in FirstScan : m <= k
      BY <3>1, <3>3, LeastOf
    <3>5. Min(FirstScan) \in FirstScan
      BY <3>4 DEF Min
    <3> QED
      BY <3>1, <3>2, <3>5
  <2>2. CASE scanNum # 0
    <3>1. NextRecord = scanNum + 1 /\ scanNum < Len(Records)
      BY <2>2 DEF NextRecord
    <3> QED
      BY <3>1, <1>2
  <2> QED
    BY <2>1, <2>2
<1>4. Records[NextRecord] \in R /\ NextRecord \in Nat \ {0}
  BY <1>2, <1>3
<1> QED
  BY <1>4 DEF R

LEMMA LockTyped ==
  ASSUME LockTypes, NEW slot \in Int, NEW who \in 0 .. 2, lock(slot, who)
  PROVE  LockTypes'
BY DEF LockTypes, lock

LEMMA UnlockTyped ==
  ASSUME LockTypes, NEW slots, unlock(slots)
  PROVE  LockTypes'
BY DEF LockTypes, unlock, None

(* Advance: first is the slot the consumer goes on in.                     *)
Advanced(index, first) ==
  /\ lockstart <= first
  /\ first = lockstart \/ B(first) <= index
  /\ \A b \in Int : B(b) <= index => b <= first
  /\ unlock(lockstart .. first - 1)
  /\ slipped' = (slipped \/ first > lockend)
  /\ \/ first = lockmod /\ lastslot # lockmod /\ MoveDown(index)
     \/ /\ ~ (first = lockmod /\ lastslot # lockmod)
        /\ muxindex' = index /\ lockstart' = first /\ UNCHANGED <<lockend, buf>>

LEMMA AdvanceIs ==
  ASSUME ConsumerTypes, NEW index \in Int, Advance(index)
  PROVE  \E first \in Int : Advanced(index, first)
<1> DEFINE q == index \div SlotSize
           first == Max({lockstart, q})
<1>1. q \in Int /\ lockstart \in Int /\ \A b \in Int : B(b) <= index <=> b <= q
  BY Slot DEF ConsumerTypes
<1>2. /\ unlock(lockstart .. first - 1)
      /\ slipped' = (slipped \/ first > lockend)
      /\ IF first = Slots - 1 /\ lastslot # Slots - 1
         THEN MoveDown(index)
         ELSE muxindex' = index /\ lockstart' = first /\ UNCHANGED <<lockend, buf>>
  BY DEF Advance
<1> HIDE DEF q
<1>3. first = IF lockstart >= q THEN lockstart ELSE q
  BY <1>1, Greater
<1>4. first \in Int
  BY <1>1, <1>3
<1> HIDE DEF first
<1>5. lockstart <= first /\ (first = lockstart \/ B(first) <= index)
  BY <1>1, <1>3, <1>4
<1>6. \A b \in Int : B(b) <= index => b <= first
  BY <1>1, <1>3, <1>4
<1>7. Advanced(index, first)
  BY <1>2, <1>5, <1>6 DEF Advanced, lockmod
<1> QED
  BY <1>4, <1>7

(* Fix: the frames up to index are taken.                                  *)
Fixed(index) ==
  /\ muxindex <= index /\ index <= muxend
  /\ taken' = taken + (index - muxindex)
  /\ \/ /\ EndOfScan(index)
        /\ cpc' = "housekeep" /\ dataremaining' = FALSE
        /\ unlock({lockstart, lockend})
        /\ lockstart' = -2 /\ lockend' = -2 /\ muxindex' = index
        /\ UNCHANGED <<buf, slipped>>
     \/ /\ ~EndOfScan(index)
        /\ UNCHANGED dataremaining
        /\ \/ /\ index = RingSize /\ cpc' = "wrap" /\ muxindex' = SlotSize
              /\ UNCHANGED <<lockstart, lockend, mutex, buf, slipped>>
           \/ index # RingSize /\ cpc' = "housekeep" /\ Advance(index)
  /\ UNCHANGED <<constVars, n2, numread, scanNum, readscan, threadstop,
                 keepreading, threadVars, posVars>>

LEMMA FixIs ==
  ASSUME Typed, Fix
  PROVE  cpc = "fix" /\ muxindex < muxend /\ \E index \in Int : Fixed(index)
<1>1. cpc = "fix" /\ visible > 0
  BY DEF Fix
<1>2. PICK extra \in Extras :
        LET used == Min({visible, ReadSize + extra})
            index == muxindex + used
        IN
        /\ taken' = taken + used
        /\ IF EndOfScan(index)
           THEN /\ cpc' = "housekeep"
                /\ dataremaining' = FALSE
                /\ unlock({lockstart, lockend})
                /\ lockstart' = -2 /\ lockend' = -2 /\ muxindex' = index
                /\ UNCHANGED <<buf, slipped>>
           ELSE /\ UNCHANGED dataremaining
                /\ IF index = RingSize
                   THEN /\ cpc' = "wrap"
                        /\ muxindex' = SlotSize
                        /\ UNCHANGED <<lockstart, lockend, mutex, buf, slipped>>
                   ELSE cpc' = "housekeep" /\ Advance(index)
  BY DEF Fix
<1> DEFINE used == Min({visible, ReadSize + extra})
           index == muxindex + used
<1>3. extra \in Int /\ ReadSize + extra >= 0
  BY RingAssumption
<1>4. muxend \in Int /\ muxindex \in Int /\ visible = muxend - muxindex
  <2>1. endindex \in Int /\ n2 \in Int /\ SlotSize \in Int /\ muxindex \in Int
    BY Constants DEF Typed, ConsumerTypes, ThreadTypes
  <2>2. (n2 + 1) * SlotSize \in Int
    BY <2>1
  <2> QED
    BY <2>1, <2>2 DEF muxend, visible
<1>5. used = IF visible <= ReadSize + extra THEN visible ELSE ReadSize + extra
  BY <1>3, <1>4, Less, Constants
<1>6. used \in Int /\ used >= 0 /\ used <= visible
  BY <1>1, <1>3, <1>4, <1>5, Constants
<1>7. taken' = taken + used
  BY <1>2
<1>8. IF EndOfScan(index)
           THEN /\ cpc' = "housekeep"
                /\ dataremaining' = FALSE
                /\ unlock({lockstart, lockend})
                /\ lockstart' = -2 /\ lockend' = -2 /\ muxindex' = index
                /\ UNCHANGED <<buf, slipped>>
           ELSE /\ UNCHANGED dataremaining
                /\ IF index = RingSize
                   THEN /\ cpc' = "wrap"
                        /\ muxindex' = SlotSize
                        /\ UNCHANGED <<lockstart, lockend, mutex, buf, slipped>>
                   ELSE cpc' = "housekeep" /\ Advance(index)
  BY <1>2
<1> HIDE DEF used
<1>9. index \in Int /\ muxindex <= index /\ index <= muxend /\ used = index - muxindex
  BY <1>4, <1>6
<1> HIDE DEF index
<1>10. UNCHANGED <<constVars, n2, numread, scanNum, readscan, threadstop,
                 keepreading, threadVars, posVars>>
  BY DEF Fix
<1>11. Fixed(index)
  BY <1>7, <1>8, <1>9, <1>10 DEF Fixed
<1> QED
  BY <1>1, <1>4, <1>9, <1>11

(* MoveDown copies within the ring.                                        *)
LEMMA MovedTyped ==
  ASSUME Typed, NEW index \in Int, MoveDown(index)
  PROVE  BufTypes' /\ muxindex' \in Int /\ lockstart' = 0 /\ lockend' = 0
<1> DEFINE start == index % SlotSize
<1>1. start \in 0 .. SlotSize - 1
  BY Constants
<1>2. /\ buf' = [i \in DOMAIN buf |->
               IF i \in start .. SlotSize - 1 THEN buf[i + (Slots - 1) * SlotSize]
               ELSE buf[i]]
      /\ muxindex' = start /\ lockstart' = 0 /\ lockend' = 0
  BY DEF MoveDown
<1> HIDE DEF start
<1> QED
  BY <1>1, <1>2 DEF Typed, BufTypes

(* The steps of the consumer that give it nothing new to read.             *)
LEMMA BasicEnds ==
  ASSUME Basic, NoMoreRecords \/ StreamEnded \/ Leave \/ Destroy \/ Join
  PROVE  Basic'
<1>0. Typed /\ Flags /\ Taking
  BY DEF Basic
<1>1. ConstTypes /\ ConsumerTypes /\ ThreadTypes /\ PosTypes /\ LockTypes /\ BufTypes
  BY <1>0 DEF Typed
<1>2. /\ UNCHANGED <<constVars, lockstart, lockend, muxindex, n2, taken, scanNum,
                     readscan, buf, threadVars, posVars>>
      /\ cpc \in {"open"} \cup Gone /\ cpc' \in Gone
      /\ cpc = "open" => keepreading' = FALSE
      /\ cpc # "open" => keepreading' = keepreading
  BY DEF NoMoreRecords, StreamEnded, Leave, Destroy, Join, CGo, scanVars, flagVars, Gone
<1>3. LockTypes'
  <2>1. mutex' = mutex \/ \E slots : unlock(slots)
    BY DEF NoMoreRecords, StreamEnded, Leave, Destroy, Join
  <2> QED
    BY <2>1, <1>1, UnlockTyped DEF LockTypes
<1>4. ConstTypes' /\ ConsumerTypes' /\ ThreadTypes' /\ PosTypes' /\ BufTypes'
  BY <1>1, <1>2 DEF constVars, threadVars, posVars, ConstTypes, ConsumerTypes,
    ThreadTypes, PosTypes, BufTypes
<1>5. Flags'
  <2>1. ~keepreading'
    BY <1>0, <1>2 DEF Flags
  <2> QED
    BY <2>1 DEF Flags
<1>6. Taking'
  BY <1>2 DEF Taking, Opening, Going, Gone
<1> QED
  BY <1>3, <1>4, <1>5, <1>6 DEF Basic, Typed

LEMMA BasicOpen ==
  ASSUME Basic, OpenRecord
  PROVE  Basic'
<1>0. Typed /\ Flags /\ Taking
  BY DEF Basic
<1>1. ConstTypes /\ ConsumerTypes /\ ThreadTypes /\ PosTypes /\ LockTypes /\ BufTypes
  BY <1>0 DEF Typed
<1>2. scanNum' = NextRecord /\ readend' = Records[scanNum'].length /\ NextRecord # 0
      /\ taken' = 0 /\ readpointer' = 0
  BY DEF OpenRecord
<1>3. scanNum' \in Nat /\ readend' \in Nat
  <2>1. NextRecord \in Nat \ {0} /\ Records[NextRecord].length \in Nat
    BY <1>1, <1>2, RecordOpened DEF PosTypes
  <2>2. readend' = Records[NextRecord].length
    BY <1>2
  <2> QED
    BY <2>1, <2>2, <1>2
<1>4. PosTypes' /\ ConsumerTypes'
  BY <1>1, <1>2, <1>3 DEF OpenRecord, CGo, PosTypes, ConsumerTypes, Opening
<1>5. ConstTypes' /\ ThreadTypes' /\ LockTypes' /\ BufTypes'
  BY <1>1 DEF OpenRecord, constVars, ConstTypes, ThreadTypes, LockTypes, BufTypes
<1>6. Flags' /\ Taking'
  BY <1>0 DEF OpenRecord, CGo, Flags, Taking, Opening, Going, Gone
<1> QED
  BY <1>4, <1>5, <1>6 DEF Basic, Typed

LEMMA BasicLocks ==
  ASSUME Basic, FirstRead \/ LockFirst \/ LaterRead \/ LockMore \/ WrapAround
  PROVE  Basic'
<1>0. Typed /\ Flags /\ Taking
  BY DEF Basic
<1>1. ConstTypes /\ ConsumerTypes /\ ThreadTypes /\ PosTypes /\ LockTypes /\ BufTypes
  BY <1>0 DEF Typed
<1>2. UNCHANGED <<constVars, n2, taken, scanVars, buf, threadVars, posVars>>
      /\ muxindex' \in {muxindex, SlotSize}
  BY DEF FirstRead, LockFirst, LaterRead, LockMore, WrapAround
<1>3. LockTypes'
  <2>1. CASE FirstRead \/ LaterRead
    BY <2>1, <1>1 DEF FirstRead, LaterRead, LockTypes
  <2>2. CASE LockFirst
    <3>1. lock(1, Consumer) \/ \E slots : unlock(slots)
      BY <2>2 DEF LockFirst, StopReading
    <3> QED
      BY <3>1, <1>1, LockTyped, UnlockTyped DEF Consumer
  <2>3. CASE LockMore
    <3>1. lock(lockend, Consumer) \/ \E slots : unlock(slots)
      BY <2>3 DEF LockMore, StopReading
    <3>2. lockend \in Int
      BY <1>1 DEF ConsumerTypes
    <3> QED
      BY <3>1, <3>2, <1>1, LockTyped, UnlockTyped DEF Consumer
  <2>4. CASE WrapAround
    BY <2>4, <1>1 DEF WrapAround, LockTypes, None, Consumer
  <2> QED
    BY <2>1, <2>2, <2>3, <2>4
<1>4. ConstTypes' /\ ThreadTypes' /\ PosTypes' /\ BufTypes'
  BY <1>1, <1>2 DEF constVars, scanVars, threadVars, posVars, ConstTypes, ThreadTypes,
    PosTypes, BufTypes
<1>5. ConsumerTypes'
  <2>1. cpc' \in Going \cup Gone
    BY DEF FirstRead, LockFirst, LaterRead, LockMore, WrapAround, CGo, StopReading,
      Going, Gone
  <2>2. lockstart' \in Int /\ lockend' \in Int
    BY <1>1 DEF FirstRead, LockFirst, LaterRead, LockMore, WrapAround, StopReading,
      ConsumerTypes
  <2>3. muxindex' \in Int
    BY <1>1, <1>2, Constants DEF ConsumerTypes
  <2> QED
    BY <1>1, <1>2, <2>1, <2>2, <2>3 DEF ConsumerTypes
<1>6. Flags' /\ Taking'
  <2>1. CASE cpc' = "leave"
    <3>1. ~keepreading' /\ ~dataremaining'
      BY <2>1 DEF FirstRead, LockFirst, LaterRead, LockMore, WrapAround, CGo,
        StopReading
    <3> QED
      BY <3>1, <2>1 DEF Flags, Taking, Opening, Going
  <2>2. CASE cpc' # "leave"
    <3>1. /\ UNCHANGED flagVars /\ cpc \in Going \ {"begin"}
          /\ cpc' \in {"lockfirst", "choose", "fix", "housekeep"}
          /\ lockstart' = lockstart \/ lockstart' = 1
          /\ cpc' = "lockfirst" => lockstart' = 1 /\ lockend' = 1 /\ muxindex' = SlotSize
          /\ cpc = "read" => lockstart' # -1
      BY <2>2 DEF FirstRead, LockFirst, LaterRead, LockMore, WrapAround, CGo,
        StopReading, Going
    <3> QED
      BY <3>1, <1>0, <1>2 DEF constVars, flagVars, scanVars, threadVars, Flags, Taking,
        Opening, Going, Gone
  <2> QED
    BY <2>1, <2>2
<1> QED
  BY <1>3, <1>4, <1>5, <1>6 DEF Basic, Typed

LEMMA BasicChoose ==
  ASSUME Basic, Choose \/ Weird \/ MuxFails
  PROVE  Basic'
<1>0. Typed /\ Flags /\ Taking
  BY DEF Basic
<1>1. ConstTypes /\ ConsumerTypes /\ ThreadTypes /\ PosTypes /\ LockTypes /\ BufTypes
  BY <1>0 DEF Typed
<1>2. UNCHANGED <<constVars, lockstart, muxindex, taken, scanVars, keepreading, mutex,
                  buf, threadVars, posVars>>
  BY DEF Choose, Weird, MuxFails, flagVars
<1>3. LastWanted \in Int
  <2>1. endindex - 1 \in Int /\ muxindex + ReadSize - 1 \in Int
    BY <1>1, Constants DEF ConsumerTypes, ThreadTypes
  <2>2. (endindex - 1) \div SlotSize \in Int
        /\ (muxindex + ReadSize - 1) \div SlotSize \in Int
    BY <2>1, Slot
  <2> QED
    BY <2>2 DEF LastWanted
<1>4. ConstTypes' /\ ThreadTypes' /\ PosTypes' /\ BufTypes' /\ LockTypes'
  BY <1>1, <1>2 DEF constVars, scanVars, threadVars, posVars, ConstTypes, ThreadTypes,
    PosTypes, BufTypes, LockTypes
<1>5. /\ n2' \in {n2, LastWanted} /\ lockend' \in {lockend, n2'}
      /\ cpc \in {"choose", "fix"} /\ cpc' \in {"lockmore", "fix", "housekeep"}
      /\ dataremaining' => dataremaining
  <2>1. CASE Choose
    BY <2>1 DEF Choose, flagVars
  <2>2. CASE Weird
    BY <2>2, Zenon DEF Weird, CGo
  <2>3. CASE MuxFails
    BY <2>3 DEF MuxFails, CGo
  <2> QED
    BY <2>1, <2>2, <2>3
<1>6. ConsumerTypes'
  <2>1. n2' \in Int
    BY <1>1, <1>3, <1>5 DEF ConsumerTypes
  <2>2. lockend' \in Int
    BY <1>1, <1>5, <2>1 DEF ConsumerTypes
  <2> QED
    BY <1>1, <1>2, <1>5, <2>1, <2>2 DEF ConsumerTypes, Going
<1>7. Flags' /\ Taking'
  BY <1>0, <1>2, <1>5 DEF scanVars, threadVars, Flags, Taking, Opening, Going, Gone
<1> QED
  BY <1>4, <1>6, <1>7 DEF Basic, Typed

LEMMA BasicFix ==
  ASSUME Basic, Fix
  PROVE  Basic'
<1>0. Typed /\ Flags /\ Taking
  BY DEF Basic
<1>1. ConstTypes /\ ConsumerTypes /\ ThreadTypes /\ PosTypes /\ LockTypes /\ BufTypes
  BY <1>0 DEF Typed
<1>2. cpc = "fix" /\ \E index \in Int : Fixed(index)
  BY <1>0, FixIs
<1>3. PICK index \in Int : Fixed(index)
  BY <1>2
<1>4. /\ UNCHANGED <<constVars, n2, scanNum, readscan, threadstop, keepreading,
                     threadVars, posVars>>
      /\ taken' = taken + (index - muxindex) /\ muxindex <= index
  BY <1>3 DEF Fixed
<1>5. ConstTypes' /\ ThreadTypes' /\ PosTypes'
  BY <1>1, <1>4 DEF constVars, threadVars, posVars, ConstTypes, ThreadTypes, PosTypes
<1>6. taken' \in Nat /\ n2' \in Int
  BY <1>1, <1>4 DEF ConsumerTypes
<1>7. keepreading' => ~threadstop' /\ ~xlrfail'
  BY <1>0, <1>4 DEF Flags, threadVars
<1>8. CASE EndOfScan(index)
  <2>1. /\ cpc' = "housekeep" /\ dataremaining' = FALSE /\ unlock({lockstart, lockend})
        /\ lockstart' = -2 /\ lockend' = -2 /\ muxindex' = index /\ buf' = buf
    BY <1>3, <1>8 DEF Fixed
  <2>2. LockTypes'
    BY <2>1, <1>1, UnlockTyped
  <2>3. ConsumerTypes' /\ BufTypes'
    BY <2>1, <1>1, <1>6 DEF ConsumerTypes, BufTypes, Going
  <2>4. Flags' /\ Taking'
    BY <2>1, <1>7 DEF Flags, Taking, Opening, Going, Gone
  <2> QED
    BY <2>2, <2>3, <2>4, <1>5 DEF Basic, Typed
<1>9. CASE ~EndOfScan(index) /\ index = RingSize
  <2>1. /\ cpc' = "wrap" /\ muxindex' = SlotSize /\ dataremaining' = dataremaining
        /\ UNCHANGED <<lockstart, lockend, mutex, buf>>
    BY <1>3, <1>9 DEF Fixed
  <2>2. ConsumerTypes' /\ BufTypes' /\ LockTypes'
    BY <2>1, <1>1, <1>6, Constants DEF ConsumerTypes, BufTypes, LockTypes, Going
  <2>4. Flags' /\ Taking'
    BY <2>1, <1>7, <1>0, <1>2 DEF Flags, Taking, Opening, Going, Gone
  <2> QED
    BY <2>2, <2>4, <1>5 DEF Basic, Typed
<1>10. CASE ~EndOfScan(index) /\ index # RingSize
  <2>1. cpc' = "housekeep" /\ Advance(index) /\ dataremaining' = dataremaining
    BY <1>3, <1>10 DEF Fixed
  <2>2. PICK first \in Int : Advanced(index, first)
    BY <2>1, <1>1, AdvanceIs
  <2>3. LockTypes' /\ lockstart <= first
    BY <2>2, <1>1, UnlockTyped DEF Advanced
  <2>4. /\ BufTypes'
        /\ muxindex' \in Int /\ lockstart' \in Int /\ lockend' \in Int
        /\ lockstart' = 0 \/ lockstart' = first
    <3>1. CASE MoveDown(index)
      BY <3>1, <1>0, MovedTyped
    <3>2. CASE ~MoveDown(index)
      <4>1. muxindex' = index /\ lockstart' = first /\ UNCHANGED <<lockend, buf>>
        BY <3>2, <2>2 DEF Advanced
      <4> QED
        BY <4>1, <1>1 DEF ConsumerTypes, BufTypes
    <3> QED
      BY <3>1, <3>2
  <2>5. ConsumerTypes'
    BY <2>1, <2>4, <1>6 DEF ConsumerTypes, Going
  <2>6. Flags'
    BY <2>1, <1>7, <1>0 DEF Flags, Gone
  <2>7. Taking'
    <3>1. dataremaining' => lockstart >= 0 /\ lockstart \in Int
      BY <2>1, <1>0, <1>1, <1>2 DEF Taking, Going, ConsumerTypes
    <3>2. dataremaining' => lockstart' >= 0
      BY <3>1, <2>3, <2>4
    <3> QED
      BY <2>1, <3>2 DEF Taking, Opening
  <2> QED
    BY <2>3, <2>4, <2>5, <2>6, <2>7, <1>5 DEF Basic, Typed
<1> QED
  BY <1>8, <1>9, <1>10

(* diskToMemory, and the loop it is called from.                           *)
LEMMA HouseKept ==
  ASSUME HouseKeep, PosTypes
  PROVE  /\ cpc = "housekeep" /\ cpc' \in {"leave", "dead", "read", "open"}
         /\ readscan' \in Nat
         /\ keepreading' => keepreading /\ cpc' \in {"read", "open"}
         /\ ~keepreading' => cpc' \in {"leave", "dead"}
         /\ cpc' = "open" => ~dataremaining'
         /\ dataremaining' => dataremaining
         /\ \/ lockstart' = lockstart /\ lockend' = lockend
            \/ lockstart' = -2 /\ lockend' = -2 /\ ~(keepreading' /\ dataremaining')
         /\ UNCHANGED <<constVars, muxindex, n2, taken, slipped, scanNum, threadstop,
                        mutex, buf, threadVars, posVars>>
<1> DEFINE over == readscan' > NumScans
           joins == kind = "network" /\ lockstart >= 0 /\ (PastJob \/ over)
           here == CASE ~keepreading' -> "leave"
                     [] keepreading' /\ (dataremaining' \/ numread' < 3) -> "read"
                     [] OTHER -> "open"
<1>1. /\ cpc = "housekeep"
      /\ keepreading' = (keepreading /\ ~PastJob /\ readscan' <= NumScans)
      /\ dataremaining' = (dataremaining /\ ~PastJob)
      /\ cpc' \in {here} \cup (IF joins THEN {"dead"} ELSE {})
      /\ lockstart' = IF joins THEN -2 ELSE lockstart
      /\ lockend' = IF joins THEN -2 ELSE lockend
      /\ UNCHANGED <<constVars, muxindex, n2, taken, slipped, scanNum, threadstop,
                        mutex, buf, threadVars, posVars>>
  BY DEF HouseKeep
<1>2. readscan' \in Nat /\ NumScans \in Nat
  <2>1. NumScans \in Nat
    BY RecordsAssumption DEF NumScans
  <2>2. NextScan \in Nat
    <3> DEFINE k == {i \in readscan + 1 .. NumScans : Scans[i].config = 0}
    <3>1. k \subseteq Nat
      BY <2>1 DEF PosTypes
    <3>2. NextScan = IF k = {} THEN NumScans + 1 ELSE Min(k)
      BY DEF NextScan
    <3> HIDE DEF k
    <3>3. k # {} => \E m \in k : \A n \in k : m <= n
      BY <3>1, LeastOf
    <3>4. k # {} => Min(k) \in k
      BY <3>3 DEF Min
    <3> QED
      BY <2>1, <3>1, <3>2, <3>4
  <2>3. readscan' \in {readscan, NextScan}
    BY DEF HouseKeep
  <2> QED
    BY <2>1, <2>2, <2>3 DEF PosTypes
<1>3. over => ~(readscan' <= NumScans)
  BY <1>2
<1> HIDE DEF over
<1> QED
  BY <1>1, <1>2, <1>3

LEMMA BasicHouseKeep ==
  ASSUME Basic, HouseKeep
  PROVE  Basic'
<1>0. Typed /\ Flags /\ Taking
  BY DEF Basic
<1>1. ConstTypes /\ ConsumerTypes /\ ThreadTypes /\ PosTypes /\ LockTypes /\ BufTypes
  BY <1>0 DEF Typed
<1>2. /\ cpc = "housekeep" /\ cpc' \in {"leave", "dead", "read", "open"}
      /\ readscan' \in Nat
      /\ keepreading' => keepreading /\ cpc' \in {"read", "open"}
      /\ ~keepreading' => cpc' \in {"leave", "dead"}
      /\ cpc' = "open" => ~dataremaining'
      /\ dataremaining' => dataremaining
      /\ \/ lockstart' = lockstart /\ lockend' = lockend
         \/ lockstart' = -2 /\ lockend' = -2 /\ ~(keepreading' /\ dataremaining')
      /\ UNCHANGED <<constVars, muxindex, n2, taken, slipped, scanNum, threadstop,
                     mutex, buf, threadVars, posVars>>
  BY <1>1, HouseKept
<1>3. ConstTypes' /\ ThreadTypes' /\ PosTypes' /\ BufTypes' /\ LockTypes'
  BY <1>1, <1>2 DEF constVars, threadVars, posVars, ConstTypes, ThreadTypes,
    PosTypes, BufTypes, LockTypes
<1>4. ConsumerTypes'
  <2>1. lockstart' \in Int /\ lockend' \in Int
    BY <1>1, <1>2 DEF ConsumerTypes
  <2> QED
    BY <1>1, <1>2, <2>1 DEF ConsumerTypes, Going, Gone
<1>5. Flags' /\ Taking'
  BY <1>0, <1>2 DEF threadVars, Flags, Taking, Opening, Going, Gone
<1> QED
  BY <1>3, <1>4, <1>5 DEF Basic, Typed

LEMMA BasicMeet ==
  ASSUME Basic, Barrier1 \/ Barrier2
  PROVE  Basic'
<1>0. Typed /\ Flags /\ Taking
  BY DEF Basic
<1>1. ConstTypes /\ ConsumerTypes /\ ThreadTypes /\ PosTypes /\ LockTypes /\ BufTypes
  BY <1>0 DEF Typed
<1>2. /\ UNCHANGED <<constVars, lockstart, lockend, muxindex, n2, taken, scanNum,
                     readscan, flagVars, mutex, buf, lastslot, endindex, writeslot, curslot,
                     posVars, xlrfail>>
      /\ tpc' \in {"arm", "top"}
      /\ threadstop' = (threadstop \/ cpc = "dtor1")
  BY DEF Barrier1, Barrier2, Meet
<1>3. \/ cpc = "bar1" /\ cpc' = "bar2"
      \/ cpc = "bar2" /\ cpc' = "begin"
      \/ cpc = "dtor1" /\ cpc' = "dtor2"
      \/ cpc = "dtor2" /\ cpc' = "join"
  BY DEF Barrier1, Barrier2, Meet
<1>4. ConstTypes' /\ ThreadTypes' /\ PosTypes' /\ BufTypes' /\ LockTypes'
  BY <1>1, <1>2 DEF constVars, posVars, ConstTypes, ThreadTypes, ThreadStates,
    PosTypes, BufTypes, LockTypes
<1>5. ConsumerTypes'
  BY <1>1, <1>2, <1>3 DEF ConsumerTypes, Opening, Going, Gone
<1>6. Flags'
  <2>1. keepreading' => keepreading /\ cpc \notin Gone /\ ~threadstop /\ ~xlrfail
    BY <1>0, <1>2 DEF Flags, flagVars
  <2>2. keepreading' => ~threadstop' /\ ~xlrfail'
    BY <2>1, <1>2 DEF Gone
  <2> QED
    BY <1>3, <2>1, <2>2 DEF Flags, Gone
<1>7. Taking'
  BY <1>0, <1>2, <1>3 DEF Taking, flagVars, Opening, Going, Gone
<1> QED
  BY <1>4, <1>5, <1>6, <1>7 DEF Basic, Typed

LEMMA BasicBegin ==
  ASSUME Basic, BeginReading
  PROVE  Basic'
<1>0. Typed /\ Flags /\ Taking
  BY DEF Basic
<1>1. ConstTypes /\ ConsumerTypes /\ ThreadTypes /\ PosTypes /\ LockTypes /\ BufTypes
  BY <1>0 DEF Typed
<1>2. /\ UNCHANGED <<constVars, lockstart, lockend, muxindex, n2, taken, scanVars,
                     keepreading, mutex, buf, threadVars, posVars>>
      /\ cpc = "begin" /\ cpc' = IF keepreading THEN "read" ELSE "leave"
  BY DEF BeginReading
<1>3. ConstTypes' /\ ThreadTypes' /\ PosTypes' /\ BufTypes' /\ LockTypes'
  BY <1>1, <1>2 DEF constVars, scanVars, threadVars, posVars, ConstTypes, ThreadTypes,
    PosTypes, BufTypes, LockTypes
<1>4. ConsumerTypes'
  BY <1>1, <1>2 DEF ConsumerTypes, Going, Gone
<1>5. Flags' /\ Taking'
  BY <1>0, <1>2 DEF scanVars, threadVars, Flags, Taking, Opening, Going, Gone
<1> QED
  BY <1>3, <1>4, <1>5 DEF Basic, Typed

(* Nothing the thread does is seen in the consumer's own variables.        *)
LEMMA BasicThread ==
  ASSUME Basic, ThreadStep
  PROVE  Basic'
<1>0. Typed /\ Flags /\ Taking
  BY DEF Basic
<1>1. ConstTypes /\ ConsumerTypes /\ ThreadTypes /\ PosTypes /\ LockTypes /\ BufTypes
  BY <1>0 DEF Typed
<1>2. /\ UNCHANGED <<constVars, consumerVars, scanVars, readend>>
      /\ tpc' \in ThreadStates
  <2>1. CASE Arm \/ Stopped \/ PastEnd \/ StartRead
    BY <2>1 DEF Arm, Stopped, PastEnd, StartRead, TGo, posVars, ThreadStates
  <2>2. CASE FillFromModule \/ FailRead \/ FillFromNetwork \/ Nothing
    BY <2>2 DEF FillFromModule, FailRead, FillFromNetwork, Nothing, TGo, posVars,
      ThreadStates
  <2>3. CASE LockNext \/ UnlockThis \/ Again \/ UnlockLast \/ Check
    BY <2>3 DEF LockNext, UnlockThis, Again, UnlockLast, Check, TGo, posVars,
      ThreadStates
  <2> QED
    BY <2>1, <2>2, <2>3 DEF ThreadStep
<1>3. /\ keepreading' => keepreading /\ xlrfail' = xlrfail
      /\ dataremaining' => dataremaining
      /\ ~dataremaining => ~dataremaining'
  <2>1. CASE FailRead
    BY <2>1 DEF FailRead, flagVars
  <2>2. CASE Nothing
    <3>1. UNCHANGED <<dataremaining, xlrfail>>
          /\ keepreading' = (keepreading /\ nBadReadStatus' <= 1)
      BY <2>2 DEF Nothing
    <3> QED
      BY <3>1, Zenon
  <2>3. CASE ~FailRead /\ ~Nothing
    <3>1. UNCHANGED <<flagVars, xlrfail>>
      BY <2>3 DEF ThreadStep, Arm, Stopped, PastEnd, StartRead, FillFromModule,
        FillFromNetwork, LockNext, UnlockThis, Again, UnlockLast, Check
    <3> QED
      BY <3>1 DEF flagVars
  <2> QED
    BY <2>1, <2>2, <2>3
<1>4. ConstTypes' /\ ConsumerTypes' /\ Taking'
  BY <1>0, <1>1, <1>2, <1>3 DEF constVars, consumerVars, ConstTypes, ConsumerTypes, Taking
<1>5. Flags'
  BY <1>0, <1>2, <1>3 DEF Flags, constVars, scanVars, consumerVars
<1>6. LockTypes'
  <2>1. UNCHANGED mutex \/ (\E slot \in Int : lock(slot, Thread)) \/ \E slots : unlock(slots)
    <3>1. writeslot \in Int /\ 1 \in Int
      BY <1>1, Constants DEF ThreadTypes
    <3> QED
      BY <3>1 DEF ThreadStep, Arm, Stopped, PastEnd, StartRead, FillFromModule,
        FailRead, FillFromNetwork, Nothing, LockNext, UnlockThis, Again, UnlockLast, Check
  <2> QED
    BY <2>1, <1>1, LockTyped, UnlockTyped DEF LockTypes, Thread
<1>7. ThreadTypes' /\ PosTypes' /\ BufTypes'
  <2>0. writeslot \in 1 .. lockmod /\ writeslot \in Int /\ readpointer \in Int /\ readend \in Int
        /\ writeslot * SlotSize \in Int
    BY <1>1, Constants DEF ThreadTypes, PosTypes
  <2>1. CASE \E n \in Int, last \in BOOLEAN : Store(n, last) /\ readend' = readend
    <3>1. PICK n \in Int, last \in BOOLEAN : Store(n, last) /\ readend' = readend
      BY <2>1
    <3> DEFINE base == writeslot * SlotSize
    <3>2. /\ DOMAIN buf' = DOMAIN buf
          /\ readpointer' = readpointer + n
          /\ lastslot' \in {writeslot, lastslot}
          /\ endindex' \in {base + n, endindex}
          /\ curslot' = writeslot
          /\ writeslot' = IF writeslot + 1 >= Slots THEN 1 ELSE writeslot + 1
      BY <3>1 DEF Store
    <3>3. base \in Int
      BY <2>0
    <3> HIDE DEF base
    <3>4. writeslot' \in 1 .. lockmod /\ curslot' \in 0 .. lockmod
      BY <2>0, <3>2, Constants
    <3>5. lastslot' \in Int /\ endindex' \in Int /\ readpointer' \in Int
      BY <2>0, <3>2, <3>3, <1>1 DEF ThreadTypes
    <3>6. BufTypes'
      BY <1>1, <3>2 DEF BufTypes
    <3> QED
      BY <3>1, <3>4, <3>5, <3>6, <1>1, <1>2 DEF ThreadTypes, PosTypes, scanVars
  <2>2. CASE FillFromModule
    <3> DEFINE last == readpointer + SlotSize >= readend
               n == IF last THEN readend - readpointer ELSE SlotSize
    <3>1. Store(n, last) /\ readend' = readend
      BY <2>2 DEF FillFromModule
    <3>2. n \in Int /\ last \in BOOLEAN
      BY <2>0, Constants
    <3> HIDE DEF n, last
    <3> QED
      BY <3>1, <3>2, <2>1
  <2>3. CASE FillFromNetwork
    <3> DEFINE n == Min({SlotSize, readend - readpointer})
               last == n < SlotSize
    <3>1. Store(n, last) /\ readend' = readend
      BY <2>3 DEF FillFromNetwork
    <3>2. n \in Int
      BY <2>0, Less, Constants
    <3>3. last \in BOOLEAN
      OBVIOUS
    <3> HIDE DEF n, last
    <3> QED
      BY <3>1, <3>2, <3>3, <2>1
  <2>4. CASE ~FillFromModule /\ ~FillFromNetwork
    <3>1. /\ UNCHANGED <<curslot, posVars>> /\ DOMAIN buf' = DOMAIN buf
          /\ writeslot' \in {1, writeslot} /\ lastslot' \in {lastslot, writeslot}
          /\ endindex' \in {endindex, writeslot * SlotSize}
      <4>1. CASE Arm \/ Stopped \/ PastEnd \/ StartRead
        BY <4>1 DEF Arm, Stopped, PastEnd, StartRead
      <4>2. CASE FailRead \/ Nothing \/ LockNext \/ UnlockThis \/ Again \/ UnlockLast \/ Check
        BY <4>2 DEF FailRead, Nothing, LockNext, UnlockThis, Again, UnlockLast, Check
      <4> QED
        BY <2>4, <4>1, <4>2 DEF ThreadStep
    <3>2. 1 \in 1 .. lockmod
      BY Constants
    <3>3. writeslot' \in 1 .. lockmod
      BY <3>1, <3>2, <2>0
    <3>4. lastslot' \in Int /\ endindex' \in Int
      BY <3>1, <2>0, <1>1 DEF ThreadTypes
    <3>5. ThreadTypes'
      BY <1>1, <1>2, <3>1, <3>3, <3>4 DEF ThreadTypes
    <3>6. PosTypes' /\ BufTypes'
      BY <1>1, <1>2, <3>1 DEF PosTypes, posVars, scanVars, BufTypes
    <3> QED
      BY <3>5, <3>6
  <2> QED
    BY <2>2, <2>3, <2>4
<1> QED
  BY <1>4, <1>5, <1>6, <1>7 DEF Basic, Typed

LEMMA BasicStep == Basic /\ [Next]_vars => Basic'
<1> SUFFICES ASSUME Basic, [Next]_vars PROVE Basic'
  OBVIOUS
<1>1. CASE UNCHANGED vars
  BY <1>1 DEF vars, constVars, consumerVars, scanVars, flagVars, threadVars, posVars,
    Basic, Typed, ConstTypes, ConsumerTypes, ThreadTypes, PosTypes, LockTypes,
    BufTypes, Flags, Taking
<1>2. CASE ConsumerStep
  BY <1>2, BasicOpen, BasicBegin, BasicEnds, BasicLocks, BasicChoose, BasicFix, BasicHouseKeep
    DEF ConsumerStep
<1> QED
  BY <1>1, <1>2, BasicMeet, BasicThread DEF Next, Finished

LEMMA BasicInit == Init => Basic
<1> SUFFICES ASSUME Init PROVE Basic
  OBVIOUS
<1>1. /\ cpc = "open" /\ tpc = "bar1"
      /\ lockstart = -2 /\ lockend = -2 /\ lastslot = -2
      /\ endindex = 0 /\ muxindex = 0 /\ n2 = 0
      /\ scanNum = 0 /\ taken = 0 /\ readpointer = 0 /\ readend = 0
      /\ readscan = 1 /\ writeslot = 1 /\ curslot = 0
      /\ kind = "mark5" => dataremaining = FALSE
      /\ threadstop = FALSE /\ xlrfail = FALSE
      /\ mutex = [s \in 0 .. lockmod - 1 |-> None]
      /\ buf = [i \in 0 .. RingSize - 1 |-> Junk]
  BY DEF Init
<1>2. ConstTypes
  BY DEF Init, ConstTypes
<1>3. ConsumerTypes /\ PosTypes
  BY <1>1 DEF ConsumerTypes, PosTypes
<1>4. ThreadTypes
  BY <1>1, Constants DEF ThreadTypes, ThreadStates
<1>5. LockTypes /\ BufTypes
  BY <1>1 DEF LockTypes, BufTypes, None
<1>6. Flags /\ Taking
  BY <1>1 DEF Flags, Taking, Opening, Going, Gone
<1> QED
  BY <1>2, <1>3, <1>4, <1>5, <1>6 DEF Basic, Typed

-----------------------------------------------------------------------------
(* Slots are counted on from the consumer's: slot W and W - lockmod have   *)
(* the same lock, and slot lockmod + 1 is slot 1 again.  Before the first  *)
(* lock the consumer is taken to be at slot 1.                             *)
First == lockstart = -1 \/ cpc = "lockfirst"
Mx == IF lockstart = -1 THEN SlotSize ELSE muxindex
Turn == IF cpc = "wrap" THEN lockmod ELSE 0
Lo == lockstart - Turn
Hi == lockend - Turn - (IF cpc = "lockmore" THEN 1 ELSE 0)
Held(x) == mutex[x % lockmod] # None
Place(x) == IF x < RingSize THEN x ELSE x - B(lockmod)

(* What has been read and not taken yet is in the ring.                    *)
Data ==
  \A i \in Int : 0 <= i /\ i < readpointer - taken =>
    buf[Place(Mx + i)] = FrameTime(taken + i)

(* The thread has come to the end of a record and gives up its slot.       *)
Quiet ==
  \/ tpc \in {"lock", "next", "again"} /\ endofscan
  \/ tpc \in {"unlock", "check", "bar1", "exit"}

(* Before a record the ring is empty, and the thread is done with the last *)
(* one before it locks slot 1.                                             *)
Ready ==
  /\ cpc \in Opening =>
       /\ lockstart = -1 /\ lastslot = -1 /\ taken = 0 /\ readpointer = 0
       /\ kind = "mark5" => dataremaining
  /\ cpc = "bar1" => Quiet
  /\ cpc = "bar2" => tpc \in {"arm", "bar2"} /\ (tpc = "bar2" => writeslot = 1 /\ Held(1))
  /\ kind = "mark5" /\ ~dataremaining => Quiet
  /\ kind = "network" /\ scanNum = 0 => cpc = "open" /\ tpc = "bar1"

(* In the middle of one the thread is at slot W, and holds the locks       *)
(* From(W) .. To(W).                                                       *)
From(W) == IF tpc \in {"lock", "next"} THEN W - 1 ELSE W
To(W) == IF tpc = "lock" THEN W - 1 ELSE W
Written(W) ==
  /\ tpc \in {"top", "fill", "lock", "next", "again", "exit"}
  /\ tpc \in {"lock", "next", "again"} => ~endofscan
  /\ W \in {writeslot, writeslot + lockmod}
  /\ Mx + (readpointer - taken) = B(W)
  /\ kind = "mark5" => readpointer < readend \/ (readpointer = 0 /\ tpc = "top")
  /\ kind = "network" => readpointer <= readend
  /\ Mx <= B(lockmod)
ReaderHolds(W) ==
  /\ \A x \in From(W) .. To(W) : Held(x)
  /\ tpc \in {"lock", "next"} => curslot % lockmod = (W - 1) % lockmod
FirstLap(W) ==
  First =>
    /\ 1 <= From(W) /\ W <= lockmod + 1
    /\ tpc = "fill" => W <= lockmod
    /\ W > 1 => readpointer > 0
ConsumerHolds(W) ==
  ~First =>
    /\ Lo <= Hi /\ Hi < From(W) /\ To(W) < Lo + lockmod
    /\ \A x \in Lo .. Hi : Held(x)
    /\ B(Hi) <= Mx + ReadSize - 1
    /\ cpc = "wrap" => Hi = 0
    /\ cpc \in {"lockmore", "fix"} => n2 <= lockend

(* The consumer's place, and the slots it looks at.                        *)
Looking ==
  /\ ~First /\ cpc # "wrap" => Mx >= 0 /\ B(Lo) <= Mx /\ Mx < B(Lo) + SlotSize
  /\ cpc \in {"lockmore", "fix"} => n2 >= 0 /\ B(n2) <= Mx + ReadSize - 1
  /\ cpc = "lockmore" => lockend = n2 /\ n2 = Lo + 1
  /\ cpc = "wrap" => muxindex = SlotSize /\ 0 <= lockstart /\ lockstart <= lockmod

Begun(W) ==
  /\ lastslot = -1
  /\ Data /\ Written(W) /\ ReaderHolds(W) /\ FirstLap(W) /\ ConsumerHolds(W)
  /\ Looking

(* The thread has come to the end of the record, endindex; there may be    *)
(* nothing in it.                                                          *)
Remaining ==
  /\ readpointer > taken /\ readpointer - taken <= B(lockmod)
  /\ B(lastslot) < endindex /\ endindex <= B(lastslot) + SlotSize
  /\ Mx + (readpointer - taken) \in {endindex, endindex + B(lockmod)}
  /\ Mx > B(lockmod) => Mx + (readpointer - taken) = endindex
Empty == readpointer = taken /\ Mx = endindex /\ endindex = B(lastslot)
Over ==
  /\ Quiet /\ lastslot \in 1 .. lockmod
  /\ Data /\ Looking
  /\ Remaining \/ Empty
  /\ cpc \in {"lockmore", "fix"} => muxend <= Mx + (readpointer - taken)

(* A network stream sets dataremaining when the thread is at work, which   *)
(* may have found it unset and given up.                                   *)
Active == cpc \in Going /\ (dataremaining \/ cpc = "begin") /\ ~GaveUp
Steady == keepreading /\ ~lapped /\ ~slipped
Reading == (\E W \in Int : Begun(W)) \/ Over
Good == Steady => Ready /\ (Active => Reading)
Inv == Basic /\ Good

LEMMA Current ==
  ASSUME Basic
  PROVE  /\ Mx \in Int /\ Lo \in Int /\ Hi \in Int /\ Turn \in Int
         /\ readpointer \in Int /\ taken \in Int /\ taken >= 0 /\ readend \in Int
         /\ readend >= 0
         /\ lockstart \in Int /\ lockend \in Int /\ muxindex \in Int /\ n2 \in Int
         /\ lastslot \in Int /\ endindex \in Int /\ writeslot \in 1 .. lockmod
         /\ writeslot \in Int /\ curslot \in Int
<1>1. ConsumerTypes /\ ThreadTypes /\ PosTypes
  BY DEF Basic, Typed
<1>2. Mx \in Int /\ Turn \in Int /\ Lo \in Int /\ Hi \in Int
  BY <1>1, Constants DEF Mx, Turn, Lo, Hi, ConsumerTypes
<1> QED
  BY <1>1, <1>2, Constants DEF ConsumerTypes, ThreadTypes, PosTypes

(* Whether it has given the record up is up to the thread.                 *)
LEMMA SameGaveUp ==
  ASSUME UNCHANGED <<constVars, threadVars>>
  PROVE  GaveUp' = GaveUp
BY DEF constVars, threadVars, GaveUp

(* While a record is read the consumer has locked, or is about to.         *)
LEMMA Locked ==
  ASSUME Basic, Active
  PROVE  /\ lockstart >= 0 \/ (lockstart = -1 /\ cpc \in {"begin", "read"})
         /\ cpc \in {"choose", "lockmore", "fix", "wrap", "housekeep"} =>
              ~First /\ Mx = muxindex /\ lockstart >= 0
BY DEF Basic, Taking, Active, First, Mx

(* What taking and giving up locks does.                                   *)
LEMMA Locking ==
  ASSUME LockTypes, NEW slot \in Int, NEW who \in {Consumer, Thread}, lock(slot, who)
  PROVE  /\ ~Held(slot)
         /\ \A x \in Int : Held(x) \/ x % lockmod = slot % lockmod => Held(x)'
<1>1. \A x \in Int : x % lockmod \in 0 .. lockmod - 1
  BY Residue
<1>2. who # None
  BY DEF Consumer, Thread, None
<1> QED
  BY <1>1, <1>2 DEF LockTypes, lock, Held

LEMMA Unlocking ==
  ASSUME LockTypes, NEW slots \in SUBSET Int, unlock(slots)
  PROVE  \A x \in Int : Held(x) /\ (\A y \in slots : y % lockmod # x % lockmod)
                          => Held(x)'
<1>1. \A x \in Int : x % lockmod \in 0 .. lockmod - 1
  BY Residue
<1> QED
  BY <1>1 DEF LockTypes, unlock, Held

(* Two slots less than the ring apart have locks of their own.             *)
LEMMA Apart ==
  ASSUME NEW a \in Int, NEW b \in Int, a % lockmod = b % lockmod,
         a < b + lockmod, b < a + lockmod
  PROVE  a = b
<1>1. a < b \/ a = b \/ b < a
  OBVIOUS
<1> QED
  BY <1>1, Residue

(* A slot held is not one that is free to lock.                            *)
LEMMA Distinct ==
  ASSUME NEW a \in Int, NEW b \in Int, Held(a), ~Held(b)
  PROVE  a # b /\ a # b - lockmod /\ a # b + lockmod
<1>1. b % lockmod = (b - lockmod) % lockmod /\ b % lockmod = (b + lockmod) % lockmod
  BY Residue
<1> QED
  BY <1>1 DEF Held

(* Giving up slots low .. first - 1 leaves the locks of the others.        *)
LEMMA GivenUp ==
  ASSUME LockTypes, NEW low \in Int, NEW first \in Int, unlock(low .. first - 1)
  PROVE  \A x \in Int : Held(x) /\ first <= x /\ x < low + lockmod => Held(x)'
<1>1. low .. first - 1 \in SUBSET Int
  OBVIOUS
<1>2. ASSUME NEW x \in Int, first <= x, x < low + lockmod, NEW y \in low .. first - 1
      PROVE  y % lockmod # x % lockmod
  <2>1. y \in Int /\ y < x /\ x < y + lockmod
    BY <1>2, Constants
  <2> QED
    BY <2>1, Residue
<1>3. \A x \in Int : Held(x) /\ (\A y \in low .. first - 1 : y % lockmod # x % lockmod)
                      => Held(x)'
  BY <1>1, Unlocking
<1> QED
  BY <1>2, <1>3

(* The flags go down and stay down.                                        *)
LEMMA StillSteady ==
  ASSUME Basic, Alive /\ (ConsumerStep \/ Barrier1 \/ Barrier2 \/ ThreadStep), Steady'
  PROVE  Steady
<1>1. CASE ConsumerStep
  <2>1. keepreading' => keepreading
    <3>1. CASE HouseKeep
      BY <3>1, HouseKept DEF Basic, Typed
    <3>2. CASE Fix
      BY <3>2 DEF Fix
    <3>3. CASE ~HouseKeep /\ ~Fix
      BY <1>1, <3>3 DEF ConsumerStep, OpenRecord, NoMoreRecords, StreamEnded, BeginReading, FirstRead,
        LockFirst, StopReading, LaterRead, Choose, LockMore, Weird, MuxFails, WrapAround,
        Leave, Destroy, Join, flagVars
    <3> QED
      BY <3>1, <3>2, <3>3
  <2>2. lapped' = lapped
    BY <1>1 DEF ConsumerStep, OpenRecord, NoMoreRecords, StreamEnded, BeginReading, FirstRead,
        LockFirst, LaterRead, Choose, LockMore, Weird, MuxFails, WrapAround,
        Fix, HouseKeep, Leave, Destroy, Join, threadVars
  <2>3. slipped => slipped'
    <3>1. CASE Fix
      <4>1. Typed
        BY DEF Basic
      <4>2. PICK index \in Int : Fixed(index)
        BY <3>1, <4>1, FixIs
      <4>3. slipped' = slipped \/ Advance(index)
        BY <4>2 DEF Fixed
      <4> QED
        BY <4>3, Zenon DEF Advance
    <3>2. CASE ~Fix
      BY <1>1, <3>2 DEF ConsumerStep, OpenRecord, NoMoreRecords, StreamEnded, BeginReading, FirstRead,
        LockFirst, LaterRead, Choose, LockMore, Weird, MuxFails, WrapAround,
        HouseKeep, Leave, Destroy, Join
    <3> QED
      BY <3>1, <3>2
  <2> QED
    BY <2>1, <2>2, <2>3 DEF Steady
<1>2. CASE Barrier1 \/ Barrier2
  <2>1. UNCHANGED <<keepreading, lapped, slipped>>
    BY <1>2 DEF Barrier1, Barrier2, Meet, flagVars
  <2> QED
    BY <2>1 DEF Steady
<1>3. CASE ThreadStep
  <2>1. slipped' = slipped
    BY <1>3 DEF ThreadStep, Arm, Stopped, PastEnd, StartRead, FillFromModule, FailRead,
        FillFromNetwork, Nothing, LockNext, UnlockThis, Again, UnlockLast, Check,
        consumerVars
  <2>2. lapped => lapped'
    <3>1. CASE StartRead
      BY <3>1, Zenon DEF StartRead
    <3>2. CASE ~StartRead
      BY <1>3, <3>2 DEF ThreadStep, Arm, Stopped, PastEnd, FillFromModule, FailRead,
        FillFromNetwork, Nothing, LockNext, UnlockThis, Again, UnlockLast, Check
    <3> QED
      BY <3>1, <3>2
  <2>3. keepreading' => keepreading
    <3>1. CASE Nothing
      BY <3>1, Zenon DEF Nothing
    <3>2. CASE ~Nothing
      BY <1>3, <3>2 DEF ThreadStep, Arm, Stopped, PastEnd, FillFromModule, FailRead,
        StartRead, FillFromNetwork, LockNext, UnlockThis, Again, UnlockLast, Check, flagVars
    <3> QED
      BY <3>1, <3>2
  <2> QED
    BY <2>1, <2>2, <2>3 DEF Steady
<1> QED
  BY <1>1, <1>2, <1>3

-----------------------------------------------------------------------------
(* Between the records.                                                    *)

(* Once it is giving up its slot the thread reads nothing.                 *)
LEMMA QuietStep ==
  ASSUME Quiet, ThreadStep
  PROVE  /\ Quiet' /\ tpc # "bar1"
         /\ UNCHANGED <<constVars, consumerVars, scanVars, flagVars, buf, lastslot, endindex,
                        posVars>>
<1>1. LockNext \/ UnlockThis \/ Again \/ UnlockLast \/ Check
  BY DEF Quiet, ThreadStep, Arm, Stopped, PastEnd, StartRead, FillFromModule, FailRead,
    FillFromNetwork, Nothing, TGo
<1>2. UNCHANGED <<constVars, consumerVars, scanVars, flagVars, buf, lastslot, endindex,
                  posVars, endofscan>>
  BY <1>1 DEF LockNext, UnlockThis, Again, UnlockLast, Check
<1>3. tpc # "bar1" /\ Quiet'
  BY <1>1, <1>2 DEF LockNext, UnlockThis, Again, UnlockLast, Check, TGo, Quiet
<1> QED
  BY <1>2, <1>3

(* It does not come to a barrier in the middle of a record.                *)
LEMMA ReadyOpen ==
  ASSUME Inv, Steady, OpenRecord
  PROVE  Ready' /\ ~Active'
<1>0. Basic /\ Ready /\ keepreading /\ Flags
  BY DEF Inv, Good, Steady, Basic
<1>1. /\ cpc = "open" /\ cpc' = "bar1" /\ scanNum' = NextRecord /\ NextRecord # 0
      /\ kind = "network" => scanNum = 0
      /\ taken' = 0 /\ readpointer' = 0 /\ (kind = "mark5" => dataremaining')
      /\ lockstart' = -1 /\ lastslot' = -1
      /\ UNCHANGED <<kind, tpc, endofscan, writeslot, mutex>>
  BY DEF OpenRecord, CGo, constVars
<1>2. kind = "mark5" => ~dataremaining
  BY <1>0, <1>1 DEF Flags
<1>3. Quiet
  <2>1. kind = "mark5" \/ kind = "network"
    BY <1>0 DEF Basic, Typed, ConstTypes
  <2> QED
    BY <1>0, <1>1, <1>2, <2>1 DEF Ready, Quiet
<1>4. Quiet'
  BY <1>1, <1>3 DEF Quiet
<1> QED
  BY <1>1, <1>4 DEF Ready, Active, Going

LEMMA ReadyMeet ==
  ASSUME Inv, Steady, Barrier1 \/ Barrier2
  PROVE  Ready' /\ (Active' => Begun(1)')
<1>0. Basic /\ Ready /\ keepreading /\ Flags
  BY DEF Inv, Good, Steady, Basic
<1>1. /\ UNCHANGED <<constVars, lockstart, lockend, muxindex, n2, taken, scanNum,
                     flagVars, mutex, buf, lastslot, endindex, writeslot, curslot,
                     endofscan, posVars>>
      /\ \/ cpc = "bar1" /\ cpc' = "bar2" /\ tpc' = "arm"
         \/ cpc = "bar2" /\ cpc' = "begin" /\ tpc = "bar2" /\ tpc' = "top"
  <2>1. cpc \notin Gone
    BY <1>0 DEF Flags
  <2>2. CASE Barrier1
    BY <2>1, <2>2 DEF Barrier1, Meet, Gone
  <2>3. CASE Barrier2
    BY <2>1, <2>3 DEF Barrier2, Meet, Gone
  <2> QED
    BY <2>2, <2>3
<1>2. /\ lockstart = -1 /\ lastslot = -1 /\ taken = 0 /\ readpointer = 0
      /\ kind = "mark5" => dataremaining
      /\ ~(kind = "network" /\ scanNum = 0)
      /\ cpc = "bar2" => writeslot = 1 /\ Held(1)
  BY <1>0, <1>1 DEF Ready, Opening
<1>3. UNCHANGED <<dataremaining, kind, readpointer>>
  BY <1>1 DEF flagVars, constVars, posVars
<1>4. Ready'
  BY <1>1, <1>2, <1>3 DEF Ready, Opening
<1>5. ASSUME Active' PROVE Begun(1)'
  <2>1. cpc = "bar2" /\ cpc' = "begin" /\ tpc' = "top" /\ writeslot' = 1 /\ Held(1)'
        /\ lastslot' = -1
    BY <1>1, <1>2, <1>5 DEF Active, Going, Held
  <2>2. First' /\ Mx' = SlotSize /\ readpointer' - taken' = 0 /\ readpointer' = 0
    BY <1>1, <1>2, <1>3 DEF First, Mx
  <2>3. Data'
    BY <2>2 DEF Data
  <2>4. From(1)' = 1 /\ To(1)' = 1
    BY <2>1 DEF From, To
  <2>5. Written(1)'
    <3>1. SlotSize = B(1) /\ B(1) <= B(lockmod) /\ SlotSize + 0 = SlotSize
      BY Places, Constants
    <3>2. readpointer' <= readend'
      BY <1>0, <1>1, <2>2, Current DEF posVars
    <3> QED
      BY <2>1, <2>2, <3>1, <3>2 DEF Written, B
  <2>6. ReaderHolds(1)'
    BY <2>1, <2>4 DEF ReaderHolds
  <2>7. FirstLap(1)'
    BY <2>1, <2>4, Constants DEF FirstLap
  <2>8. ConsumerHolds(1)' /\ Looking'
    BY <2>1, <2>2 DEF ConsumerHolds, Looking
  <2> QED
    BY <2>1, <2>3, <2>5, <2>6, <2>7, <2>8 DEF Begun
<1> QED
  BY <1>4, <1>5

LEMMA ReadyConsumer ==
  ASSUME Inv, Steady, ConsumerStep, ~OpenRecord, keepreading'
  PROVE  Ready'
<1>0. Basic /\ Ready /\ keepreading /\ Flags /\ Typed
  BY DEF Inv, Good, Steady, Basic
<1>1. /\ cpc \in Going /\ cpc' \notin Opening
      /\ UNCHANGED <<kind, scanNum, tpc, endofscan>>
  <2>1. ~(NoMoreRecords \/ StreamEnded \/ Leave \/ Destroy \/ Join)
    <3>1. ~(NoMoreRecords \/ StreamEnded)
      BY DEF NoMoreRecords, StreamEnded
    <3>2. cpc \notin Gone
      BY <1>0 DEF Flags
    <3>3. ~(Leave \/ Destroy \/ Join)
      BY <3>2 DEF Leave, Destroy, Join, CGo, Gone
    <3> QED
      BY <3>1, <3>3
  <2>2. CASE Fix
    <3>1. cpc = "fix" /\ \E index \in Int : Fixed(index)
      BY <1>0, <2>2, FixIs
    <3>2. PICK index \in Int : Fixed(index)
      BY <3>1
    <3> QED
      BY <3>1, <3>2 DEF Fixed, Going, Opening, constVars, threadVars
  <2>3. CASE HouseKeep
    BY <1>0, <2>3, HouseKept DEF Typed, Going, Opening, constVars, threadVars
  <2>4. CASE ~Fix /\ ~HouseKeep
    BY <2>1, <2>4 DEF ConsumerStep, BeginReading, FirstRead, LockFirst, LaterRead, Choose, LockMore, Weird,
      MuxFails, WrapAround, StopReading, CGo, Going, Opening, constVars, scanVars, threadVars
  <2> QED
    BY <2>2, <2>3, <2>4
<1>2. ~(kind = "network" /\ scanNum = 0)
  BY <1>0, <1>1 DEF Ready, Going
<1>3. Quiet => Quiet'
  BY <1>1 DEF Quiet
<1>4. ASSUME kind = "mark5", ~dataremaining' PROVE Quiet
  <2>1. CASE ~dataremaining
    BY <1>0, <1>4, <2>1 DEF Ready
  <2>2. CASE dataremaining
    <3>1. Fix
      <4>1. CASE HouseKeep
        BY <1>4, <2>2, <4>1, Zenon DEF HouseKeep, PastJob
      <4>2. CASE Weird
        BY <1>4, <2>2, <4>2, Zenon DEF Weird
      <4>3. CASE ~HouseKeep /\ ~Weird /\ ~Fix
        BY <1>4, <2>2, <4>3 DEF ConsumerStep, NoMoreRecords, StreamEnded, BeginReading, FirstRead,
          LockFirst, StopReading, LaterRead, Choose, LockMore, MuxFails, WrapAround,
          Leave, Destroy, Join, flagVars
      <4> QED
        BY <4>1, <4>2, <4>3
    <3>2. cpc = "fix" /\ \E index \in Int : Fixed(index)
      BY <1>0, <3>1, FixIs
    <3>3. PICK index \in Int : Fixed(index)
      BY <3>2
    <3>4. EndOfScan(index)
      BY <1>4, <2>2, <3>3 DEF Fixed
    <3>5. lastslot = n2
      BY <3>4 DEF EndOfScan
    <3>6. Active
      BY <1>1, <1>4, <2>2 DEF Active, GaveUp
    <3>7. ~First
      BY <1>0, <3>2, <3>6, Locked
    <3>8. ASSUME NEW W \in Int, Begun(W) PROVE FALSE
      <4>1. n2 >= 0 /\ lastslot = -1
        BY <3>2, <3>8 DEF Begun, Looking
      <4> QED
        BY <3>5, <4>1
    <3> QED
      BY <3>6, <3>8 DEF Inv, Good, Reading, Over
  <2> QED
    BY <2>1, <2>2
<1> QED
  BY <1>1, <1>2, <1>3, <1>4 DEF Ready, Opening

LEMMA ReadyThread ==
  ASSUME Inv, Steady, ThreadStep, keepreading'
  PROVE  Ready'
<1>0. Basic /\ Ready /\ keepreading /\ Flags /\ Typed
  BY DEF Inv, Good, Steady, Basic
<1>1. UNCHANGED <<constVars, consumerVars, scanVars, dataremaining>>
  BY <1>0 DEF ThreadStep, Arm, Stopped, PastEnd, StartRead, FillFromModule, FailRead,
    FillFromNetwork, Nothing, LockNext, UnlockThis, Again, UnlockLast, Check, flagVars
<1>2. UNCHANGED <<cpc, lockstart, taken, scanNum, kind>>
  BY <1>1 DEF constVars, consumerVars, scanVars
<1>3. ~(kind = "network" /\ scanNum = 0)
  <2>1. tpc # "bar1"
    BY DEF ThreadStep, Arm, Stopped, PastEnd, StartRead, FillFromModule, FailRead,
      FillFromNetwork, Nothing, LockNext, UnlockThis, Again, UnlockLast, Check, TGo
  <2> QED
    BY <1>0, <2>1 DEF Ready
<1>4. CASE Quiet
  <2>1. Quiet' /\ UNCHANGED <<lastslot, posVars>>
    BY <1>4, QuietStep
  <2>2. cpc # "bar2"
    BY <1>0, <1>4 DEF Ready, Quiet
  <2> QED
    BY <1>0, <1>1, <1>2, <1>3, <2>1, <2>2 DEF Ready, Opening, posVars
<1>5. CASE ~Quiet
  <2>1. cpc # "bar1" /\ ~(kind = "mark5" /\ ~dataremaining)
    BY <1>0, <1>5 DEF Ready
  <2>2. CASE cpc = "bar2"
    <3>1. tpc \in {"arm", "bar2"}
      BY <1>0, <2>2 DEF Ready
    <3>2. Arm
      BY <3>1 DEF ThreadStep, Stopped, PastEnd, StartRead, FillFromModule, FailRead,
        FillFromNetwork, Nothing, LockNext, UnlockThis, Again, UnlockLast, Check, TGo
    <3>3. tpc' = "bar2" /\ writeslot' = 1 /\ lock(1, Thread) /\ UNCHANGED <<lastslot, posVars>>
      BY <3>2 DEF Arm, TGo
    <3>4. Held(1)'
      <4>1. LockTypes
        BY <1>0 DEF Typed
      <4> QED
        BY <3>3, <4>1, Locking
    <3> QED
      BY <1>0, <1>1, <1>2, <1>3, <2>1, <2>2, <3>3, <3>4 DEF Ready, Opening, posVars
  <2>3. CASE cpc # "bar2"
    BY <1>1, <1>2, <1>3, <2>1, <2>3 DEF Ready, Opening
  <2> QED
    BY <2>2, <2>3
<1> QED
  BY <1>4, <1>5

-----------------------------------------------------------------------------
(* The consumer's steps.                                                   *)

(* A step that neither takes nor writes frames.                            *)
LEMMA NothingTaken ==
  ASSUME Mx' = Mx, UNCHANGED <<constVars, taken, scanNum, threadVars, posVars, buf>>
  PROVE  /\ Data => Data'
         /\ Quiet => Quiet'
         /\ \A W \in Int : /\ From(W)' = From(W) /\ To(W)' = To(W)
                           /\ Written(W) => Written(W)'
         /\ Remaining => Remaining'
         /\ Empty => Empty'
<1>1. UNCHANGED <<buf, readpointer, readend, tpc, endofscan, writeslot, lastslot, endindex,
                  kind, directory, sends>>
  BY DEF threadVars, posVars, constVars
<1>2. Data => Data'
  BY <1>1 DEF Data, Place, FrameTime, Records
<1>3. Quiet => Quiet'
  BY <1>1 DEF Quiet
<1>4. ASSUME NEW W \in Int
      PROVE  /\ From(W)' = From(W) /\ To(W)' = To(W)
             /\ Written(W) => Written(W)'
  BY <1>1 DEF From, To, Written
<1>5. (Remaining => Remaining') /\ (Empty => Empty')
  BY <1>1 DEF Remaining, Empty
<1> QED
  BY <1>2, <1>3, <1>4, <1>5

(* After it the thread's end of the record is what it was.                 *)
LEMMA StillOver ==
  ASSUME Over, Looking', Mx' = Mx,
         UNCHANGED <<constVars, taken, scanNum, threadVars, posVars, buf>>,
         cpc' \in {"lockmore", "fix"} => muxend' <= Mx + (readpointer - taken)
  PROVE  Over'
<1>1. Quiet' /\ Data' /\ (Remaining' \/ Empty')
  BY NothingTaken DEF Over
<1>2. readpointer' = readpointer /\ lastslot' = lastslot
  BY DEF threadVars, posVars
<1> QED
  BY <1>1, <1>2 DEF Over

(* What the consumer has locked does not change.                           *)
LEMMA GoodPass ==
  ASSUME Basic, Active, Reading, cpc \in {"begin", "read", "fix", "housekeep"},
         cpc' \in {"choose", "housekeep", "read", "lockfirst"}, Mx' = Mx, First' = First,
         ~First => Lo' = Lo /\ Hi' = Hi,
         UNCHANGED <<constVars, taken, scanNum, threadVars, posVars, buf, mutex>>
  PROVE  Reading'
<1>1. Looking => Looking'
  BY DEF Looking
<1>2. UNCHANGED <<tpc, curslot, lastslot, readpointer>>
  BY DEF threadVars, posVars
<1>3. ASSUME NEW W \in Int, Begun(W) PROVE Begun(W)'
  <2>2. Data' /\ Written(W)' /\ From(W)' = From(W) /\ To(W)' = To(W)
    BY <1>3, NothingTaken DEF Begun
  <2>3. ReaderHolds(W)'
    BY <1>2, <1>3, <2>2 DEF Begun, ReaderHolds, Held
  <2>4. FirstLap(W)'
    BY <1>2, <1>3, <2>2 DEF Begun, FirstLap
  <2>5. ConsumerHolds(W)'
    BY <1>3, <2>2 DEF Begun, ConsumerHolds, Held
  <2> QED
    BY <1>1, <1>2, <1>3, <2>2, <2>3, <2>4, <2>5 DEF Begun
<1>4. ASSUME Over PROVE Over'
  BY <1>1, <1>4, StillOver DEF Over
<1> QED
  BY <1>3, <1>4 DEF Reading

LEMMA GoodRead ==
  ASSUME Inv, Steady,
         BeginReading \/ FirstRead \/ LaterRead \/ Weird \/ MuxFails \/ HouseKeep,
         Active', keepreading'
  PROVE  Reading'
<1>0. Basic /\ Good /\ PosTypes
  BY DEF Inv, Basic, Typed
<1>1. CASE FirstRead
  <2>1. /\ cpc = "read" /\ cpc' = "lockfirst" /\ lockstart = -1 /\ muxindex' = SlotSize
        /\ lockstart' = 1 /\ Active
        /\ UNCHANGED <<constVars, taken, scanNum, threadVars, posVars, buf, mutex>>
    BY <1>1, SameGaveUp DEF FirstRead, CGo, Active, Going, flagVars, scanVars
  <2>2. Mx' = Mx /\ First' /\ First
    BY <2>1 DEF Mx, First
  <2> QED
    BY <1>0, <2>1, <2>2, GoodPass DEF Good
<1>2. CASE LaterRead \/ Weird \/ MuxFails \/ HouseKeep
  <2>1. /\ cpc \in {"read", "fix", "housekeep"} /\ cpc' \in {"choose", "housekeep", "read"}
        /\ cpc' = "choose" => lockstart # -1
        /\ dataremaining
        /\ UNCHANGED <<lockstart, lockend, muxindex, constVars, taken, scanNum, threadVars,
                       posVars, buf, mutex>>
    <3>1. CASE LaterRead
      BY <3>1 DEF LaterRead, CGo, Active, flagVars, scanVars
    <3>2. CASE Weird
      BY <3>2, Zenon DEF Weird, CGo, Active, scanVars
    <3>3. CASE MuxFails
      BY <3>3 DEF MuxFails, CGo, Active
    <3>4. CASE HouseKeep
      BY <1>0, <3>4, HouseKept DEF Active, Going
    <3> QED
      BY <1>2, <3>1, <3>2, <3>3, <3>4
  <2>2. Active
    BY <2>1, SameGaveUp DEF Active, Going
  <2>3. Mx' = Mx /\ First' = First /\ Lo' = Lo /\ Hi' = Hi
    BY <2>1 DEF Mx, First, Lo, Hi, Turn
  <2> QED
    BY <1>0, <2>1, <2>2, <2>3, GoodPass DEF Good
<1>3. CASE BeginReading
  <2>1. /\ cpc = "begin" /\ cpc' = "read" /\ lockstart = -1
        /\ UNCHANGED <<lockstart, lockend, muxindex, constVars, taken, scanNum, threadVars,
                       posVars, buf, mutex>>
    BY <1>0, <1>3 DEF BeginReading, Active, Going, Basic, Taking, scanVars
  <2>2. Active
    BY <2>1, SameGaveUp DEF Active, Going
  <2>3. Mx' = Mx /\ First' /\ First
    BY <2>1 DEF Mx, First
  <2> QED
    BY <1>0, <2>1, <2>2, <2>3, GoodPass DEF Good
<1> QED
  BY <1>1, <1>2, <1>3

LEMMA GoodLockFirst ==
  ASSUME Inv, Steady, LockFirst, Active', keepreading'
  PROVE  Reading'
<1>0. Basic /\ Good /\ LockTypes /\ SlotSize \in Int
  BY Constants DEF Inv, Basic, Typed
<1>1. /\ cpc = "lockfirst" /\ cpc' = "choose" /\ lock(1, Consumer) /\ dataremaining
      /\ UNCHANGED <<lockstart, lockend, muxindex, constVars, taken, scanNum, threadVars,
                     posVars, buf>>
  BY DEF LockFirst, StopReading, Active, flagVars, scanVars
<1>2. Active /\ Reading
  BY <1>0, <1>1, SameGaveUp DEF Active, Going, Good
<1>3. lockstart = 1 /\ lockend = 1 /\ muxindex = SlotSize
  BY <1>0, <1>1 DEF Basic, Taking
<1>4. Mx' = Mx /\ Mx' = SlotSize /\ First /\ ~First' /\ Lo' = 1 /\ Hi' = 1
  BY <1>1, <1>3 DEF Mx, First, Lo, Hi, Turn
<1>5. UNCHANGED <<tpc, curslot, lastslot, readpointer>>
  BY <1>1 DEF threadVars, posVars
<1>6. Looking'
  <2>1. B(1) = SlotSize /\ SlotSize >= 0 /\ SlotSize < B(1) + SlotSize
    BY Places, Constants
  <2>2. B(Lo)' = B(1)
    BY <1>4 DEF B
  <2>3. Mx' >= 0 /\ B(Lo)' <= Mx' /\ Mx' < B(Lo)' + SlotSize
    BY <1>4, <2>1, <2>2, Constants
  <2> QED
    BY <1>1, <2>3 DEF Looking
<1>7. ~Held(1) /\ Held(1)' /\ \A x \in Int : Held(x) => Held(x)'
  BY <1>0, <1>1, Locking
<1>8. ASSUME NEW W \in Int, Begun(W) PROVE Begun(W)'
  <2>2. Data' /\ Written(W)' /\ From(W)' = From(W) /\ To(W)' = To(W)
    BY <1>1, <1>4, <1>8, NothingTaken DEF Begun
  <2>3. \A x \in From(W) .. To(W) : x \in Int /\ Held(x) /\ x # 1 /\ x # lockmod + 1
    <3>1. \A x \in From(W) .. To(W) : x \in Int /\ Held(x)
      BY <1>8 DEF Begun, ReaderHolds, From, To
    <3> QED
      BY <3>1, <1>7, Distinct, Constants
  <2>4. 1 < From(W) /\ To(W) < lockmod + 1
    <3>1. 1 <= From(W) /\ W <= lockmod + 1
      BY <1>4, <1>8 DEF Begun, FirstLap
    <3>2. From(W) \in {W, W - 1} /\ To(W) \in {W, W - 1} /\ From(W) <= To(W)
      BY DEF From, To
    <3>3. From(W) \in From(W) .. To(W) /\ To(W) \in From(W) .. To(W)
      BY <3>2
    <3>4. From(W) # 1 /\ To(W) # lockmod + 1
      BY <2>3, <3>3
    <3> QED
      BY <3>1, <3>2, <3>4, Constants
  <2>5. ReaderHolds(W)'
    BY <1>5, <1>7, <1>8, <2>2, <2>3 DEF Begun, ReaderHolds
  <2>6. FirstLap(W)'
    BY <1>4 DEF FirstLap
  <2>7. ConsumerHolds(W)'
    <3>1. \A x \in 1 .. 1 : Held(x)'
      BY <1>7
    <3>2. B(1) = SlotSize
      BY Places
    <3>3. 1 < From(W)' /\ To(W)' < 1 + lockmod
      BY <2>2, <2>4, Constants
    <3>4. B(1) <= Mx' + ReadSize - 1
      BY <1>4, <3>2, Constants
    <3> QED
      BY <1>1, <1>4, <3>1, <3>3, <3>4 DEF ConsumerHolds, B
  <2> QED
    BY <1>5, <1>6, <1>8, <2>2, <2>5, <2>6, <2>7 DEF Begun
<1>9. ASSUME Over PROVE Over'
  BY <1>1, <1>4, <1>6, <1>9, StillOver
<1> QED
  BY <1>2, <1>8, <1>9 DEF Reading

(* Which slot the read ends in.  At the end of the record it ends with it. *)
LEMMA Wanted ==
  ASSUME Basic, Active, cpc = "choose", Looking
  PROVE  /\ LastWanted \in Int /\ LastWanted >= 0 /\ B(LastWanted) <= Mx + ReadSize - 1
         /\ LastWanted <= Lo + 1 /\ muxindex \div SlotSize = Lo
         /\ \/ Mx + ReadSize - 1 < B(LastWanted + 1)
            \/ /\ Mx + ReadSize > endindex /\ Mx < endindex
               /\ LastWanted = (endindex - 1) \div SlotSize
<1>1. /\ lockstart \in Int /\ lockstart >= 0 /\ muxindex \in Int /\ endindex \in Int
      /\ Mx = muxindex /\ ~First /\ Lo = lockstart /\ lastslot \in Int
  BY Current, Locked, Constants DEF Lo, Turn
<1>2. Mx >= 0 /\ B(Lo) <= Mx /\ Mx < B(Lo) + SlotSize
  BY <1>1 DEF Looking
<1>3. PICK last \in Int : /\ LastWanted = last \div SlotSize
                          /\ last >= 0 /\ last <= Mx + ReadSize - 1
                          /\ \/ last = Mx + ReadSize - 1
                             \/ /\ Mx + ReadSize > endindex /\ Mx < endindex
                                /\ last = endindex - 1
  <2>1. CASE lastslot >= 0 /\ muxindex + ReadSize > endindex /\ muxindex < endindex
    <3>1. endindex - 1 \in Int /\ endindex - 1 >= 0 /\ endindex - 1 <= Mx + ReadSize - 1
      BY <1>1, <1>2, <2>1, Constants
    <3> QED
      BY <1>1, <2>1, <3>1 DEF LastWanted
  <2>2. CASE ~ (lastslot >= 0 /\ muxindex + ReadSize > endindex /\ muxindex < endindex)
    <3>1. /\ muxindex + ReadSize - 1 \in Int /\ muxindex + ReadSize - 1 >= 0
          /\ muxindex + ReadSize - 1 <= Mx + ReadSize - 1
          /\ muxindex + ReadSize - 1 = Mx + ReadSize - 1
      BY <1>1, <1>2, Constants
    <3> QED
      BY <2>2, <3>1 DEF LastWanted
  <2> QED
    BY <2>1, <2>2
<1> DEFINE q == last \div SlotSize
<1>4. /\ q \in Int /\ B(q) <= last /\ last < B(q) + SlotSize
      /\ \A b \in Int : B(b) <= last <=> b <= q
  BY Slot
<1>5. LastWanted = q
  BY <1>3
<1> HIDE DEF q
<1>6. q >= 0
  BY <1>3, <1>4, Places
<1>7. B(q) \in Int /\ B(q + 1) = B(q) + SlotSize /\ B(Lo) \in Int
      /\ B(Lo + 1) = B(Lo) + SlotSize /\ B(Lo + 1 + 1) = B(Lo + 1) + SlotSize
  <2>1. Lo \in Int /\ Lo + 1 \in Int
    BY <1>1
  <2> QED
    BY <1>4, <2>1, Places
<1>8. B(q) <= Mx + ReadSize - 1
  BY <1>1, <1>3, <1>4, <1>7, Constants
<1>9. q <= Lo + 1
  <2>1. B(q) < B(Lo + 1 + 1)
    BY <1>1, <1>2, <1>7, <1>8, Constants
  <2>2. q < Lo + 1 + 1
    BY <1>1, <1>4, <2>1, Places
  <2> QED
    BY <1>1, <1>4, <2>2
<1>10. muxindex \div SlotSize = Lo
  <2> DEFINE m == muxindex \div SlotSize
  <2>1. m \in Int /\ B(m) <= muxindex /\ muxindex < B(m) + SlotSize
        /\ \A b \in Int : B(b) <= muxindex <=> b <= m
    BY <1>1, Slot
  <2> HIDE DEF m
  <2>2. Lo <= m
    BY <1>1, <1>2, <2>1
  <2>3. ~(Lo + 1 <= m)
    <3>1. ~(B(Lo + 1) <= muxindex)
      BY <1>1, <1>2, <1>7, Constants
    <3> QED
      BY <1>1, <2>1, <3>1
  <2>4. m = Lo
    BY <1>1, <2>1, <2>2, <2>3
  <2> QED
    BY <2>4 DEF m
<1>11. \/ Mx + ReadSize - 1 < B(q + 1)
       \/ Mx + ReadSize > endindex /\ Mx < endindex /\ last = endindex - 1
  BY <1>1, <1>3, <1>4, <1>7, Constants
<1> QED
  BY <1>3, <1>4, <1>5, <1>6, <1>8, <1>9, <1>10, <1>11

LEMMA GoodChoose ==
  ASSUME Inv, Steady, Choose, Active'
  PROVE  Reading'
<1>0. Basic /\ Good
  BY DEF Inv
<1>1. /\ cpc = "choose" /\ n2' = LastWanted
      /\ IF n2' > muxindex \div SlotSize /\ lockend # n2'
         THEN cpc' = "lockmore" /\ lockend' = n2'
         ELSE cpc' = "fix" /\ lockend' = lockend
      /\ UNCHANGED <<lockstart, muxindex, constVars, taken, scanNum, flagVars, threadVars,
                     posVars, buf, mutex>>
  BY DEF Choose, scanVars
<1>2. Active /\ Reading /\ dataremaining
  BY <1>0, <1>1, SameGaveUp DEF Active, Going, Good, flagVars
<1>3. /\ lockstart \in Int /\ lockstart >= 0 /\ lockend \in Int /\ endindex \in Int
      /\ Mx \in Int /\ readpointer \in Int /\ taken \in Int /\ lastslot \in Int
      /\ Lo = lockstart /\ Hi = lockend /\ ~First /\ Mx = muxindex
  BY <1>0, <1>1, <1>2, Current, Locked, Constants DEF Lo, Hi, Turn
<1>4. Mx' = Mx /\ ~First' /\ Lo' = Lo
  BY <1>1, <1>3, Constants DEF Mx, First, Lo, Turn
<1>5. UNCHANGED <<tpc, curslot, lastslot, endindex, readpointer>>
  BY <1>1 DEF threadVars, posVars
<1>6. Looking
  BY <1>2 DEF Reading, Begun, Over
<1>7. PICK q \in Int :
        /\ n2' = q /\ q >= 0 /\ B(q) <= Mx + ReadSize - 1 /\ q <= Lo + 1
        /\ muxindex \div SlotSize = Lo
        /\ \/ Mx + ReadSize - 1 < B(q + 1)
           \/ Mx + ReadSize > endindex /\ Mx < endindex /\ q = (endindex - 1) \div SlotSize
  BY <1>0, <1>1, <1>2, <1>6, Wanted
<1>8. \/ cpc' = "lockmore" /\ lockend' = q /\ q = Lo + 1
      \/ cpc' = "fix" /\ lockend' = lockend /\ (q <= Lo \/ lockend = q)
  BY <1>1, <1>3, <1>7
<1>9. Hi' = IF cpc' = "lockmore" THEN Lo ELSE Hi
  BY <1>3, <1>8 DEF Hi, Turn
<1>10. Looking'
  <2>1. B(n2)' = B(q) /\ B(Lo)' = B(Lo)
    BY <1>4, <1>7 DEF B
  <2>2. Mx' >= 0 /\ B(Lo)' <= Mx' /\ Mx' < B(Lo)' + SlotSize
    BY <1>1, <1>3, <1>4, <1>6, <2>1 DEF Looking
  <2> QED
    BY <1>4, <1>7, <1>8, <2>1, <2>2 DEF Looking
<1>11. ASSUME NEW W \in Int, Begun(W) PROVE Begun(W)'
  <2>2. Data' /\ Written(W)' /\ From(W)' = From(W) /\ To(W)' = To(W)
    BY <1>1, <1>4, <1>11, NothingTaken DEF Begun
  <2>3. ReaderHolds(W)'
    BY <1>1, <1>5, <1>11, <2>2 DEF Begun, ReaderHolds, Held
  <2>4. FirstLap(W)'
    BY <1>4 DEF FirstLap
  <2>5. ConsumerHolds(W)'
    <3>1. /\ Lo <= Hi /\ Hi < From(W) /\ To(W) < Lo + lockmod
          /\ \A x \in Lo .. Hi : Held(x)
          /\ B(Hi) <= Mx + ReadSize - 1
      BY <1>3, <1>11 DEF Begun, ConsumerHolds
    <3>2. PICK h \in Int : /\ h = Hi' /\ Lo <= h /\ h <= Hi
                           /\ h = Lo \/ h = Hi
      BY <1>3, <1>9, <3>1
    <3>3. \A x \in Lo .. h : Held(x)'
      BY <1>1, <1>3, <3>1, <3>2 DEF Held
    <3>4. h < From(W)
      BY <1>3, <3>1, <3>2 DEF From
    <3>5. B(h) <= Mx + ReadSize - 1
      <4>1. B(Lo) \in Int /\ B(Lo) <= Mx
        BY <1>1, <1>3, <1>6, Places DEF Looking
      <4> QED
        BY <1>3, <3>1, <3>2, <4>1, Constants
    <3>6. n2' <= lockend' /\ cpc' # "wrap"
      BY <1>3, <1>7, <1>8, <3>1
    <3>7. B(Hi)' = B(h)
      BY <3>2 DEF B
    <3> QED
      BY <1>4, <2>2, <3>1, <3>2, <3>3, <3>4, <3>5, <3>6, <3>7 DEF ConsumerHolds
  <2> QED
    BY <1>5, <1>10, <1>11, <2>2, <2>3, <2>4, <2>5 DEF Begun
<1>12. ASSUME Over PROVE Over'
  <2>1. muxend' = IF lastslot = q THEN endindex ELSE B(q + 1)
    BY <1>5, <1>7 DEF muxend, B
  <2>2. /\ B(q) \in Int /\ B(q + 1) = B(q) + SlotSize /\ q + 1 \in Int
        /\ B(lastslot) \in Int /\ B(lastslot + 1) = B(lastslot) + SlotSize
        /\ lastslot + 1 \in Int /\ B(lockmod) \in Int /\ B(lockmod) >= 0
        /\ B(lockmod + 1) = B(lockmod) + SlotSize /\ lockmod + 1 \in Int
    <3>1. B(0) <= B(lockmod) /\ B(0) = 0
      BY Places, Constants
    <3>2. \A a \in Int : B(a) \in Int /\ B(a + 1) = B(a) + SlotSize
      BY Places, Zenon
    <3>3. q \in Int /\ lastslot \in Int /\ lockmod \in Int /\ \A a \in Int : a + 1 \in Int
      BY <1>3, Constants
    <3>4. B(lockmod) >= 0
      BY <3>1
    <3> QED
      BY <3>2, <3>3, <3>4, Zenon
  <2>3. lastslot \in 1 .. lockmod /\ lastslot >= 1 /\ B(lastslot) >= SlotSize
    <3>1. lastslot \in 1 .. lockmod
      BY <1>12 DEF Over
    <3>2. lastslot >= 1
      BY <3>1
    <3>3. B(1) <= B(lastslot) /\ B(1) = SlotSize
      BY <1>3, <3>2, Places
    <3> QED
      BY <3>1, <3>2, <3>3
  <2> DEFINE rem == readpointer - taken
  <2>4. rem \in Int
    BY <1>3
  <2>5. muxend' <= Mx + rem
    <3>1. CASE Empty
      <4>1. rem = 0 /\ Mx = endindex /\ endindex = B(lastslot)
        BY <1>3, <3>1 DEF Empty
      <4>2. ~(Mx < endindex) /\ Mx + ReadSize - 1 < B(q + 1)
        BY <1>3, <1>7, <4>1
      <4>3. B(lastslot) < B(q + 1) /\ B(q) < B(lastslot + 1)
        BY <1>3, <1>7, <2>2, <4>1, <4>2, Constants
      <4>4. lastslot < q + 1 /\ q < lastslot + 1
        BY <1>3, <2>2, <4>3, Places
      <4>5. lastslot = q
        BY <1>3, <4>4
      <4> QED
        BY <1>3, <2>1, <4>1, <4>5
    <3>2. CASE Remaining
      <4>1. /\ rem > 0 /\ rem <= B(lockmod)
            /\ B(lastslot) < endindex /\ endindex <= B(lastslot) + SlotSize
            /\ Mx + rem \in {endindex, endindex + B(lockmod)}
            /\ Mx > B(lockmod) => Mx + rem = endindex
        BY <1>3, <3>2 DEF Remaining
      <4> HIDE DEF rem
      <4>2. CASE Mx + rem = endindex /\ Mx + ReadSize > endindex
        <5>1. q = lastslot
          <6>1. CASE q = (endindex - 1) \div SlotSize
            <7>1. B(lastslot) <= endindex - 1 /\ ~(B(lastslot + 1) <= endindex - 1)
                  /\ endindex - 1 \in Int
              <8>1. PICK b \in Int : b = B(lastslot) /\ b + SlotSize = B(lastslot + 1)
                BY <2>2
              <8>2. b < endindex /\ endindex <= b + SlotSize
                BY <4>1, <8>1
              <8>3. b <= endindex - 1 /\ ~(b + SlotSize <= endindex - 1)
                BY <1>3, <8>2, Constants
              <8> QED
                BY <1>3, <8>1, <8>3
            <7>2. \A b \in Int : B(b) <= endindex - 1 <=> b <= q
              BY <6>1, <7>1, Slot
            <7>3. lastslot <= q /\ ~(lastslot + 1 <= q)
              BY <1>3, <2>2, <7>1, <7>2
            <7> QED
              BY <1>3, <7>3
          <6>2. CASE Mx + ReadSize - 1 < B(q + 1)
            <7>1. B(lastslot) < B(q + 1)
              BY <1>3, <2>2, <4>1, <4>2, <6>2, Constants
            <7>2. lastslot <= q
              BY <1>3, <2>2, <7>1, Places
            <7>3. CASE q = lastslot
              BY <7>3
            <7>4. CASE q # lastslot
              <8>1. Mx < endindex
                BY <1>3, <2>4, <4>1, <4>2
              <8>2. LastWanted = (endindex - 1) \div SlotSize
                BY <1>1, <1>3, <2>3, <4>2, <8>1, Constants DEF LastWanted
              <8>3. q = (endindex - 1) \div SlotSize
                BY <1>1, <1>7, <8>2
              <8> QED
                BY <6>1, <8>3
            <7> QED
              BY <7>3, <7>4
          <6> QED
            BY <1>7, <6>1, <6>2
        <5> QED
          BY <1>3, <2>1, <4>2, <5>1
      <4>3. CASE Mx + rem = endindex /\ ~(Mx + ReadSize > endindex)
        <5>1. B(q) < B(lastslot + 1)
          BY <1>3, <1>7, <2>2, <4>1, <4>3, Constants
        <5>2. q < lastslot + 1
          BY <2>2, <5>1, Places
        <5>3. q # lastslot => B(q + 1) <= B(lastslot)
          <6>1. q # lastslot => q + 1 <= lastslot
            BY <1>3, <5>2
          <6> QED
            BY <1>3, <2>2, <6>1, Places
        <5> QED
          BY <1>3, <2>1, <2>2, <4>1, <4>3, <5>3
      <4>4. CASE Mx + rem # endindex
        <5>1. Mx + rem = endindex + B(lockmod) /\ Mx <= B(lockmod)
          BY <1>3, <4>1, <4>4, <2>2
        <5>2. B(q) < B(lockmod + 1)
          BY <1>3, <1>7, <2>2, <5>1, Constants
        <5>3. q + 1 <= lockmod + 1
          <6>1. q < lockmod + 1
            BY <2>2, <5>2, Places
          <6> QED
            BY <6>1, Constants
        <5>4. B(q + 1) <= B(lockmod + 1)
          BY <2>2, <5>3, Places
        <5> QED
          BY <1>3, <2>1, <2>2, <2>3, <4>1, <5>1, <5>4, Constants
      <4> QED
        BY <4>2, <4>3, <4>4
    <3> QED
      BY <1>12, <3>1, <3>2 DEF Over
  <2> QED
    BY <1>1, <1>4, <1>10, <1>12, <2>5, StillOver
<1> QED
  BY <1>2, <1>11, <1>12 DEF Reading

LEMMA GoodLockMore ==
  ASSUME Inv, Steady, LockMore, Active', keepreading'
  PROVE  Reading'
<1>0. Basic /\ Good /\ LockTypes
  BY DEF Inv, Basic, Typed
<1>1. /\ cpc = "lockmore" /\ cpc' = "fix" /\ lock(lockend, Consumer) /\ dataremaining
      /\ UNCHANGED <<lockstart, lockend, muxindex, n2, constVars, taken, scanNum,
                     threadVars, posVars, buf>>
  BY DEF LockMore, StopReading, Active, flagVars, scanVars
<1>2. Active /\ Reading
  BY <1>0, <1>1, SameGaveUp DEF Active, Going, Good
<1>3. /\ lockstart >= 0 /\ lockstart \in Int /\ lockend \in Int /\ n2 \in Int /\ Mx \in Int
      /\ ~First /\ Mx = muxindex
  BY <1>0, <1>1, <1>2, Current, Locked
<1>4. Looking
  BY <1>2 DEF Reading, Begun, Over
<1>5. lockend = n2 /\ n2 = Lo + 1 /\ Lo = lockstart /\ Hi = Lo /\ n2 >= 0
      /\ B(n2) <= Mx + ReadSize - 1
  BY <1>1, <1>3, <1>4, Constants DEF Looking, Lo, Hi, Turn
<1>6. Mx' = Mx /\ ~First' /\ Lo' = Lo /\ Hi' = n2
  BY <1>1, <1>3, <1>5, Constants DEF Mx, First, Lo, Hi, Turn
<1>7. UNCHANGED <<tpc, curslot, lastslot, endindex, readpointer>>
  BY <1>1 DEF threadVars, posVars
<1>8. Looking'
  <2>1. B(n2)' = B(n2) /\ B(Lo)' = B(Lo)
    BY <1>1, <1>6 DEF B
  <2>2. Mx' >= 0 /\ B(Lo)' <= Mx' /\ Mx' < B(Lo)' + SlotSize
    BY <1>1, <1>3, <1>4, <1>6, <2>1 DEF Looking
  <2> QED
    BY <1>1, <1>5, <1>6, <2>1, <2>2 DEF Looking
<1>9. PICK h \in Int : /\ h = n2 /\ ~Held(h) /\ Held(h)'
                      /\ \A x \in Int : Held(x) => Held(x)'
  <2>1. PICK s \in Int : s = n2
    BY <1>3
  <2>2. lock(s, Consumer)
    BY <1>1, <1>5, <2>1
  <2>3. ~Held(s) /\ Held(s)' /\ \A x \in Int : Held(x) => Held(x)'
    BY <1>0, <2>2, Locking
  <2> QED
    BY <2>1, <2>3
<1>10. ASSUME NEW W \in Int, Begun(W) PROVE Begun(W)'
  <2>2. Data' /\ Written(W)' /\ From(W)' = From(W) /\ To(W)' = To(W)
    BY <1>1, <1>6, <1>10, NothingTaken DEF Begun
  <2>3. \A x \in From(W) .. To(W) : x \in Int /\ Held(x) /\ x # h
    <3>1. \A x \in From(W) .. To(W) : x \in Int /\ Held(x)
      BY <1>10 DEF Begun, ReaderHolds, From, To
    <3> QED
      BY <3>1, <1>9
  <2>4. h < From(W)
    <3>1. Hi < From(W)
      BY <1>3, <1>10 DEF Begun, ConsumerHolds
    <3>2. From(W) \in {W, W - 1} /\ To(W) \in {W, W - 1} /\ From(W) <= To(W)
      BY DEF From, To
    <3>3. From(W) # h
      BY <2>3, <3>2
    <3> QED
      BY <1>3, <1>5, <1>9, <3>1, <3>2, <3>3
  <2>5. ReaderHolds(W)'
    BY <1>7, <1>9, <1>10, <2>2, <2>3 DEF Begun, ReaderHolds
  <2>6. FirstLap(W)'
    BY <1>6 DEF FirstLap
  <2>7. ConsumerHolds(W)'
    <3>1. To(W) < Lo + lockmod /\ \A x \in Lo .. Hi : Held(x)
      BY <1>3, <1>10 DEF Begun, ConsumerHolds
    <3>2. \A x \in Lo .. h : Held(x)'
      <4> SUFFICES ASSUME NEW x \in Lo .. h PROVE Held(x)'
        OBVIOUS
      <4>1. x = h \/ x \in Lo .. Hi
        BY <1>3, <1>5, <1>9
      <4> QED
        BY <1>9, <3>1, <4>1
    <3>3. Lo' <= h /\ B(Hi)' = B(n2)
      BY <1>3, <1>5, <1>6, <1>9 DEF B
    <3> QED
      BY <1>1, <1>3, <1>5, <1>6, <1>9, <2>2, <2>4, <3>1, <3>2, <3>3 DEF ConsumerHolds
  <2> QED
    BY <1>7, <1>8, <1>10, <2>2, <2>5, <2>6, <2>7 DEF Begun
<1>11. ASSUME Over PROVE Over'
  <2>1. muxend' = muxend /\ muxend <= Mx + (readpointer - taken)
    BY <1>1, <1>7, <1>11 DEF muxend, Over
  <2> QED
    BY <1>1, <1>6, <1>8, <1>11, <2>1, StillOver
<1> QED
  BY <1>2, <1>10, <1>11 DEF Reading

(* The frames taken are those there were.                                  *)
LEMMA Kept ==
  ASSUME Basic, Data, NEW index \in Int, Mx <= index, Mx' = index,
         taken' = taken + (index - Mx), UNCHANGED <<constVars, scanNum, readpointer, buf>>
  PROVE  Data'
<1>0. Mx \in Int /\ taken \in Int /\ readpointer \in Int
  BY Current
<1> DEFINE start == Records[scanNum].start
<1>1. start' = start
  BY DEF constVars, Records
<1>2. ASSUME NEW i \in Int, 0 <= i, i < readpointer' - taken'
      PROVE  buf'[Place(Mx' + i)] = start + (taken' + i)
  <2>1. PICK j \in Int : j = i + (index - Mx)
    BY <1>0
  <2>2. 0 <= j /\ j < readpointer - taken /\ Mx + j = Mx' + i /\ taken + j = taken' + i
    BY <1>0, <1>2, <2>1
  <2>3. buf[Place(Mx + j)] = start + (taken + j)
    BY <2>2 DEF Data, FrameTime
  <2> HIDE DEF start
  <2> QED
    BY <2>2, <2>3
<1> QED
  BY <1>1, <1>2 DEF Data, FrameTime

(* So they are a turn of the ring further down, whether the rest of the    *)
(* last slot has been moved or there is none.                              *)
LEMMA Turned ==
  ASSUME Basic, Data, NEW index \in Int, Mx <= index,
         B(lockmod) <= index, index <= RingSize, Mx' = index - B(lockmod),
         taken' = taken + (index - Mx), UNCHANGED <<constVars, scanNum, readpointer>>,
         Mx + (readpointer - taken) <= RingSize + B(lockmod),
         (index = RingSize /\ buf' = buf) \/ (index < RingSize /\ MoveDown(index))
  PROVE  Data'
<1>0. Mx \in Int /\ taken \in Int /\ readpointer \in Int
  BY Current
<1> DEFINE start == Records[scanNum].start
<1>a. start' = start
  BY DEF constVars, Records
<1>1. B(lockmod) \in Int /\ B(lockmod) >= SlotSize /\ RingSize = B(lockmod) + SlotSize
      /\ RingSize \in Int /\ SlotSize \in Int
  <2>1. B(1) <= B(lockmod) /\ B(1) = SlotSize /\ B(lockmod) \in Int
    BY Places, Constants
  <2> QED
    BY <2>1, Places, Constants
<1>2. ASSUME NEW i \in Int, 0 <= i, i < readpointer' - taken'
      PROVE  buf'[Place(Mx' + i)] = start + (taken' + i)
  <2>1. PICK j \in Int : j = i + (index - Mx)
    BY <1>0
  <2>2. 0 <= j /\ j < readpointer - taken /\ Mx + j = index + i /\ taken + j = taken' + i
    BY <1>0, <1>2, <2>1
  <2>3. buf[Place(Mx + j)] = start + (taken + j)
    BY <2>2 DEF Data, FrameTime
  <2> HIDE DEF start
  <2>4. PICK p \in Int : p = Mx' + i
    BY <1>1
  <2>5. /\ 0 <= p /\ p < RingSize /\ Mx + j = p + B(lockmod)
        /\ index - B(lockmod) <= p
    <3> DEFINE b == B(lockmod)
               r == RingSize
               m == Mx
    <3>1. b \in Int /\ r \in Int /\ m \in Int /\ b <= index /\ m + (readpointer - taken) <= r + b
      BY <1>0, <1>1
    <3>2. p = index - b + i /\ j < readpointer - taken /\ j = i + (index - m) /\ m + j = index + i
      BY <1>0, <1>1, <2>1, <2>2, <2>4
    <3> HIDE DEF b, r, m
    <3>3. 0 <= p /\ p < r /\ m + j = p + b /\ index - b <= p
      BY <3>1, <3>2, <1>0, <1>2
    <3> QED
      BY <3>3 DEF b, r, m
  <2>6. Place(Mx' + i) = p
    BY <2>4, <2>5 DEF Place
  <2>7. Place(Mx + j) = IF p < SlotSize THEN p + B(lockmod) ELSE p
    BY <1>1, <2>5 DEF Place
  <2>8. buf'[p] = buf[Place(Mx + j)]
    <3>1. CASE index = RingSize /\ buf' = buf
      <4>1. p >= SlotSize
        BY <3>1, <1>1, <1>2, <2>4
      <4> QED
        BY <3>1, <4>1, <2>7, <1>1
    <3>2. CASE index < RingSize /\ MoveDown(index)
      <4>1. index % SlotSize = index - B(lockmod)
        BY <3>2, <1>1, Remainder, Constants
      <4>2. (Slots - 1) * SlotSize = B(lockmod)
        BY DEF B, lockmod
      <4>3. DOMAIN buf = 0 .. RingSize - 1
        BY DEF Basic, Typed, BufTypes
      <4>4. p \in DOMAIN buf /\ (p \in index - B(lockmod) .. SlotSize - 1 <=> p < SlotSize)
        <5>1. p \in 0 .. RingSize - 1
          BY <1>1, <2>5
        <5>2. p \in index - B(lockmod) .. SlotSize - 1 <=> p < SlotSize
          BY <1>1, <2>5
        <5> QED
          BY <4>3, <5>1, <5>2
      <4>5. buf'[p] = IF p < SlotSize THEN buf[p + B(lockmod)] ELSE buf[p]
        <5>1. buf' = [k \in DOMAIN buf |->
               IF k \in index - B(lockmod) .. SlotSize - 1 THEN buf[k + B(lockmod)]
               ELSE buf[k]]
          BY <3>2, <4>1, <4>2 DEF MoveDown
        <5> QED
          BY <4>4, <5>1
      <4> QED
        BY <4>5, <2>7
    <3> QED
      BY <3>1, <3>2
  <2> QED
    BY <2>2, <2>3, <2>6, <2>8
<1> QED
  BY <1>a, <1>2 DEF Data, FrameTime

(* Where Fix leaves the consumer while it has something to look at.        *)
LEMMA FixPlace ==
  ASSUME Basic, Active, cpc = "fix", Looking, NEW index \in Int, muxindex <= index,
         index <= muxend,
         lastslot = n2 => B(n2) <= endindex /\ endindex <= B(n2) + SlotSize
  PROVE  /\ Mx = muxindex /\ ~First /\ Lo = lockstart /\ Hi = lockend
         /\ lockstart >= 0 /\ Mx >= 0 /\ B(lockstart) <= Mx
         /\ n2 >= 0 /\ index <= B(n2 + 1) /\ B(n2) <= Mx + ReadSize - 1
         /\ Mx <= B(lockmod) => n2 <= lockmod /\ index <= RingSize
         /\ \A b \in Int : B(b) < index => b <= n2
<1>2. lockstart >= 0 /\ lockstart \in Int /\ lockend \in Int /\ muxindex \in Int
      /\ n2 \in Int /\ endindex \in Int
  BY Current, Locked
<1>3. Mx = muxindex /\ ~First /\ Lo = lockstart /\ Hi = lockend
  BY <1>2, Locked, Constants DEF Lo, Hi, Turn
<1>4. Mx >= 0 /\ B(lockstart) <= Mx /\ n2 >= 0 /\ B(n2) <= Mx + ReadSize - 1
  BY <1>3 DEF Looking
<1>5. B(n2 + 1) = B(n2) + SlotSize /\ B(n2) \in Int /\ B(n2 + 1) \in Int /\ n2 + 1 \in Int
  <2>1. n2 \in Int /\ n2 + 1 \in Int
    BY <1>2
  <2> QED
    BY <2>1, Places
<1>6. index <= B(n2 + 1)
  <2>1. (n2 + 1) * SlotSize = B(n2 + 1)
    BY DEF B
  <2> QED
    BY <1>2, <1>5, <2>1, Constants DEF muxend
<1>7. Mx <= B(lockmod) => n2 <= lockmod /\ index <= RingSize
  <2> SUFFICES ASSUME Mx <= B(lockmod) PROVE n2 <= lockmod /\ index <= RingSize
    OBVIOUS
  <2>1. RingSize = B(lockmod) + SlotSize /\ RingSize = B(lockmod + 1)
        /\ B(lockmod) \in Int /\ lockmod + 1 \in Int
    BY Places, Constants
  <2>2. B(n2) < B(lockmod + 1)
    BY <1>2, <1>3, <1>4, <1>5, <2>1, Constants
  <2>3. n2 < lockmod + 1
    BY <1>2, <2>1, <2>2, Places
  <2>4. n2 + 1 <= lockmod + 1
    BY <1>2, <2>3, Constants
  <2>5. B(n2 + 1) <= B(lockmod + 1)
    BY <1>5, <2>1, <2>4, Places
  <2> QED
    BY <1>2, <1>5, <1>6, <2>1, <2>3, <2>5, Constants
<1>8. ASSUME NEW b \in Int, B(b) < index PROVE b <= n2
  <2>1. B(b) < B(n2 + 1)
    <3>1. B(b) \in Int
      BY Places
    <3> QED
      BY <1>5, <1>6, <1>8, <3>1
  <2>2. b < n2 + 1
    BY <1>5, <2>1, Places
  <2> QED
    BY <1>2, <2>2
<1> QED
  BY <1>2, <1>3, <1>4, <1>6, <1>7, <1>8

LEMMA GoodFixBegun ==
  ASSUME Basic, Active, cpc = "fix", NEW index \in Int, Fixed(index), Active', ~slipped',
         NEW W \in Int, Begun(W)
  PROVE  \E V \in Int : Begun(V)'
<1> USE DEF Begun
<1>0. LockTypes
  BY DEF Basic, Typed
<1>1. /\ muxindex <= index /\ index <= muxend /\ taken' = taken + (index - muxindex)
      /\ UNCHANGED <<n2, constVars, kind, scanNum, lastslot, endindex, writeslot, readpointer,
                     readend, tpc, curslot, endofscan>>
  BY DEF Fixed, threadVars, posVars, constVars
<1>2. n2 >= 0 /\ lastslot # n2 /\ Looking
  BY DEF Looking
<1>3. /\ Mx = muxindex /\ ~First /\ Lo = lockstart /\ Hi = lockend
      /\ lockstart >= 0 /\ Mx >= 0 /\ B(lockstart) <= Mx
      /\ n2 >= 0 /\ index <= B(n2 + 1) /\ B(n2) <= Mx + ReadSize - 1
      /\ Mx <= B(lockmod) => n2 <= lockmod /\ index <= RingSize
      /\ \A b \in Int : B(b) < index => b <= n2
  BY <1>1, <1>2, FixPlace
<1>4. /\ lockstart \in Int /\ lockend \in Int /\ n2 \in Int /\ Mx \in Int
      /\ readpointer \in Int /\ taken \in Int
  BY Current
<1>5. /\ lockstart <= lockend /\ lockend < From(W) /\ To(W) < lockstart + lockmod
      /\ \A x \in lockstart .. lockend : Held(x)
      /\ B(lockend) <= Mx + ReadSize - 1 /\ n2 <= lockend
  BY <1>3 DEF ConsumerHolds
<1>6. Mx <= B(lockmod) /\ n2 <= lockmod /\ index <= RingSize
  BY <1>3 DEF Written
<1>7. From(W) \in {W, W - 1} /\ To(W) \in {W, W - 1} /\ From(W) <= To(W)
      /\ From(W)' = From(W) /\ To(W)' = To(W)
  BY <1>1 DEF From, To
<1>8. /\ B(lockmod) \in Int /\ RingSize = B(lockmod) + SlotSize
      /\ RingSize = B(lockmod + 1) /\ lockmod + 1 \in Int
  BY Places, Constants
<1>9. lockstart <= lockmod /\ lockend <= lockmod
  <2>1. B(lockstart) < B(lockmod + 1) /\ B(lockend) < B(lockmod + 1)
    <3>1. B(lockstart) \in Int /\ B(lockend) \in Int
      BY <1>4, Places
    <3> QED
      BY <1>3, <1>4, <1>5, <1>6, <1>8, <3>1, Constants
  <2>2. lockstart < lockmod + 1 /\ lockend < lockmod + 1
    BY <1>4, <1>8, <2>1, Places
  <2> QED
    BY <1>4, <2>2, Constants
<1>10. Mx + (readpointer - taken) = B(W) /\ Mx + (readpointer - taken) <= RingSize + B(lockmod)
  <2>1. Mx + (readpointer - taken) = B(W)
    BY DEF Written
  <2>2. W <= lockmod + lockmod /\ lockmod + lockmod \in Int
    BY <1>4, <1>5, <1>7, <1>9, Constants
  <2>3. B(W) <= B(lockmod + lockmod) /\ B(lockmod + lockmod) = B(lockmod) + B(lockmod)
        /\ B(W) \in Int
    BY <2>2, Places, Constants
  <2> QED
    BY <2>1, <2>3, <1>8, Constants
<1>11. /\ index + (readpointer' - taken') = B(W)
       /\ kind' = "mark5" => readpointer' < readend' \/ (readpointer' = 0 /\ tpc' = "top")
       /\ kind' = "network" => readpointer' <= readend'
  <2>1. index + (readpointer' - taken') = B(W)
    BY <1>1, <1>3, <1>4, <1>10
  <2> QED
    BY <2>1, <1>1 DEF Written
<1>12. /\ tpc' = tpc /\ tpc' \in {"top", "fill", "lock", "next", "again", "exit"}
       /\ tpc' \in {"lock", "next", "again"} => ~endofscan'
       /\ curslot' = curslot /\ lastslot' = -1
       /\ W \in {writeslot, writeslot + lockmod} /\ writeslot' = writeslot
       /\ writeslot \in 1 .. lockmod
       /\ tpc \in {"lock", "next"} => curslot % lockmod = (W - 1) % lockmod
       /\ \A x \in From(W) .. To(W) : Held(x)
  <2>1. writeslot \in 1 .. lockmod
    BY Current
  <2> QED
    BY <1>1, <2>1 DEF Written, ReaderHolds
(* On in the same turn, or a turn further down.                            *)
<1>13. ASSUME muxindex' = index, lockend' = lockend, lockstart' \in Int,
              lockstart <= lockstart', lockstart' <= lockend, B(lockstart') <= index,
              index < B(lockstart') + SlotSize,
              cpc' = "housekeep", buf' = buf, index <= B(lockmod),
              \A x \in Int : Held(x) /\ lockstart' <= x /\ x < lockstart + lockmod
                              => Held(x)'
       PROVE  Begun(W)'
  <2>1. Mx' = index /\ ~First' /\ Lo' = lockstart' /\ Hi' = lockend
    <3>1. lockstart' # -1 /\ cpc' = "housekeep"
      BY <1>13, <1>3, <1>4
    <3>2. Turn' = 0 /\ Mx' = index /\ ~First'
      BY <3>1, <1>13 DEF Mx, First, Turn
    <3>3. Lo' = lockstart' - 0 /\ Hi' = lockend' - 0 - 0
      BY <3>1, <3>2 DEF Lo, Hi
    <3>4. lockstart' \in Int /\ lockend' = lockend /\ lockend \in Int
      BY <1>4, <1>13
    <3>5. \A a \in Int : a - 0 = a
      OBVIOUS
    <3>6. Lo' = lockstart' /\ Hi' = lockend
      BY <3>3, <3>4, <3>5, Zenon
    <3> QED
      BY <3>2, <3>6, Zenon
  <2>2. Data'
    BY <1>1, <1>3, <1>13, <2>1, Kept
  <2>3. Written(W)'
    <3>1. B(W)' = B(W)
      BY DEF B
    <3>2. Mx' + (readpointer - taken)' = B(W)
      BY <1>11, <2>1
    <3>3. Mx' <= B(lockmod)' /\ lockmod' = lockmod
      BY <1>13, <2>1 DEF B, lockmod
    <3> QED
      BY <1>11, <1>12, <3>1, <3>2, <3>3 DEF Written
  <2>4. ReaderHolds(W)'
    <3>1. ASSUME NEW x \in Int, From(W) <= x, x <= To(W) PROVE Held(x)'
      <4>1. Held(x)
        BY <1>12, <3>1, <1>7
      <4>2. lockstart' <= x /\ x < lockstart + lockmod
        BY <1>4, <1>5, <1>7, <1>13, <3>1, Constants
      <4> QED
        BY <4>1, <4>2, <1>13
    <3>2. \A x \in From(W) .. To(W) : x \in Int /\ From(W) <= x /\ x <= To(W)
      BY <1>7
    <3> QED
      BY <1>7, <1>12, <3>1, <3>2 DEF ReaderHolds
  <2>5. FirstLap(W)'
    BY <2>1 DEF FirstLap
  <2>6. ConsumerHolds(W)'
    <3>1. ASSUME NEW x \in Int, lockstart' <= x, x <= lockend PROVE Held(x)'
      <4>1. x \in lockstart .. lockend /\ x < lockstart + lockmod
        BY <1>4, <1>5, <1>7, <1>13, <3>1, Constants
      <4> QED
        BY <4>1, <1>5, <1>13, <3>1
    <3>2. B(lockend) <= index + ReadSize - 1
      <4>1. B(lockend) \in Int
        BY <1>4, Places
      <4> QED
        BY <4>1, <1>1, <1>3, <1>4, <1>5, Constants
    <3>3. \A x \in Lo' .. Hi' : Held(x)'
      BY <1>4, <1>13, <2>1, <3>1
    <3>4. Lo' <= Hi' /\ Hi' < From(W)' /\ To(W)' < Lo' + lockmod
      BY <1>4, <1>5, <1>7, <1>13, <2>1, Constants
    <3>5. B(Hi)' = B(lockend)
      BY <2>1 DEF B
    <3> QED
      BY <1>13, <2>1, <3>2, <3>3, <3>4, <3>5 DEF ConsumerHolds
  <2>7. Looking'
    <3>1. index >= 0
      BY <1>1, <1>3, <1>4
    <3>2. B(Lo)' = B(lockstart')
      BY <2>1 DEF B
    <3> QED
      BY <1>13, <2>1, <3>1, <3>2 DEF Looking
  <2> QED
    BY <1>12, <2>2, <2>3, <2>4, <2>5, <2>6, <2>7
<1>14. ASSUME lockend = lockmod, Hi' = 0, Lo' \in Int, Lo' <= 0,
              lockstart - lockmod <= Lo',
              Mx' = index - B(lockmod), B(lockmod) <= index, Data', ~First',
              cpc' \in {"wrap", "housekeep"}, Looking',
              \A x \in Int : Held(x) /\ Lo' + lockmod <= x /\ x < lockstart + lockmod
                              => Held(x)'
       PROVE  \E V \in Int : Begun(V)'
  <2>1. PICK V \in Int : V = W - lockmod
    BY Constants
  <2>10. PICK low \in Int : /\ low = Lo' /\ low <= 0 /\ lockstart - lockmod <= low
    BY <1>14
  <2>2. /\ From(V)' = From(W) - lockmod /\ To(V)' = To(W) - lockmod
        /\ V \in {writeslot', writeslot' + lockmod}
    <3>1. W > lockmod
      BY <1>5, <1>7, <1>14, Constants
    <3>2. V = writeslot
      BY <1>12, <2>1, <3>1, Constants
    <3>3. From(V)' = From(W) - lockmod /\ To(V)' = To(W) - lockmod
      BY <1>12, <2>1, Constants DEF From, To
    <3> QED
      BY <3>2, <3>3, <1>12
  <2>3. Mx' <= SlotSize /\ SlotSize <= B(lockmod) /\ Mx' \in Int /\ Mx' >= 0
    <3>1. B(1) <= B(lockmod) /\ B(1) = SlotSize
      BY Places, Constants
    <3> QED
      BY <3>1, <1>6, <1>8, <1>14, Constants
  <2>4. Written(V)'
    <3>1. Mx' + (readpointer' - taken') = B(V)
      <4>1. B(V) = B(W) - B(lockmod) /\ B(W) \in Int
        BY <2>1, Places
      <4>2. readpointer' \in Int /\ taken' \in Int
        BY <1>1, <1>3, <1>4
      <4> QED
        BY <4>1, <4>2, <1>8, <1>11, <1>14
    <3>2. Mx' <= B(lockmod)
      BY <1>8, <2>3, Constants
    <3>3. B(V)' = B(V) /\ B(lockmod)' = B(lockmod) /\ lockmod' = lockmod
      BY DEF B, lockmod
    <3> QED
      BY <1>11, <1>12, <2>2, <3>1, <3>2, <3>3 DEF Written
  <2>5. \A x \in Int : Held(x + lockmod)' => Held(x)'
    BY Residue DEF Held
  <2>6. ReaderHolds(V)'
    <3>1. ASSUME NEW x \in From(V)' .. To(V)' PROVE Held(x)'
      <4>1. PICK y \in Int : y = x + lockmod
        BY Constants
      <4>2. y \in From(W) .. To(W) /\ x \in Int
        BY <1>7, <2>2, <4>1, Constants
      <4>3. Lo' + lockmod <= y /\ y < lockstart + lockmod
        <5>1. From(W) <= y /\ y <= To(W) /\ From(W) \in Int /\ To(W) \in Int
          BY <1>7, <4>1, <4>2
        <5>2. lockmod < From(W) /\ To(W) < lockstart + lockmod /\ lockmod \in Int
              /\ lockstart \in Int
          BY <1>4, <1>5, <1>14, Constants
        <5>3. low + lockmod <= lockmod
          <6>1. low <= 0 /\ lockmod \in Int
            BY <2>10, Constants
          <6> QED
            BY <6>1
        <5>4. low + lockmod <= y /\ y < lockstart + lockmod
          BY <5>1, <5>2, <5>3, <4>1
        <5> QED
          BY <5>4, <2>10
      <4>4. Held(y)'
        BY <1>12, <1>14, <4>2, <4>3
      <4> QED
        BY <2>5, <4>1, <4>2, <4>4
    <3>2. (V - 1) % lockmod = (W - 1) % lockmod
      <4>1. W - 1 \in Int /\ V - 1 = (W - 1) - lockmod
        BY <2>1, Constants
      <4> QED
        BY <4>1, Residue
    <3> QED
      BY <1>12, <3>1, <3>2 DEF ReaderHolds
  <2>7. FirstLap(V)'
    BY <1>14 DEF FirstLap
  <2>8. ConsumerHolds(V)'
    <3>1. ASSUME NEW x \in Lo' .. Hi' PROVE Held(x)'
      <4>1. PICK y \in Int : y = x + lockmod
        BY Constants
      <4>2. y \in lockstart .. lockend /\ x \in Int /\ Lo' + lockmod <= y
        <5>1. x \in Int /\ low <= x /\ x <= 0
          BY <1>14, <2>10
        <5>2. lockstart - lockmod <= low /\ lockstart \in Int /\ lockmod \in Int
              /\ lockend = lockmod
          BY <1>4, <1>14, <2>10, Constants
        <5>3. lockstart <= y /\ y <= lockmod /\ low + lockmod <= y
          BY <5>1, <5>2, <4>1
        <5>4. y \in lockstart .. lockend
          BY <5>2, <5>3
        <5> QED
          BY <5>1, <5>3, <5>4, <2>10, Zenon
      <4>3. y < lockstart + lockmod
        BY <4>2, <1>4, <1>5, <1>7, Constants
      <4>4. Held(y)'
        BY <1>5, <1>14, <4>2, <4>3
      <4> QED
        BY <2>5, <4>1, <4>2, <4>4
    <3>2. Hi' < From(V)' /\ To(V)' < Lo' + lockmod
      BY <1>4, <1>5, <1>7, <1>14, <2>2, Constants
    <3>3. B(Hi)' <= Mx' + ReadSize - 1
      <4>1. B(Hi)' = B(0) /\ B(0) = 0
        BY <1>14, Places DEF B
      <4> QED
        BY <2>3, <4>1, Constants
    <3>4. Lo' <= Hi' /\ cpc' \notin {"lockmore", "fix"}
      BY <1>14, <2>10
    <3> QED
      BY <1>14, <3>1, <3>2, <3>3, <3>4 DEF ConsumerHolds
  <2> QED
    BY <1>12, <2>4, <2>6, <2>7, <2>8, <1>14
<1>15. CASE /\ index = RingSize /\ cpc' = "wrap" /\ muxindex' = SlotSize
            /\ UNCHANGED <<lockstart, lockend, mutex, buf>>
  <2>1. Mx' = SlotSize /\ ~First' /\ Lo' = lockstart - lockmod /\ Hi' = lockend - lockmod
    BY <1>15, <1>3, <1>4, Constants DEF Mx, First, Lo, Hi, Turn
  <2>2. lockend = lockmod
    <3>1. B(lockmod) < index
      BY <1>8, <1>15, Constants
    <3>2. lockmod <= n2
      BY <1>3, <3>1, Constants
    <3> QED
      BY <1>4, <1>5, <1>9, <3>2, Constants
  <2>3. Data'
    <3>1. Mx <= index /\ B(lockmod) <= index /\ index <= RingSize /\ Mx' = index - B(lockmod)
          /\ taken' = taken + (index - Mx)
      BY <1>1, <1>3, <1>8, <1>15, <2>1, Constants
    <3>2. index = RingSize /\ buf' = buf /\ UNCHANGED <<constVars, scanNum, readpointer>>
      BY <1>1, <1>15
    <3>3. Mx + (readpointer - taken) <= RingSize + B(lockmod)
      BY <1>10
    <3> QED
      BY <3>1, <3>2, <3>3, Turned
  <2>4. Looking'
    BY <1>3, <1>9, <1>15, <2>1 DEF Looking
  <2>5. \A x \in Int : Held(x) => Held(x)'
    BY <1>15 DEF Held
  <2>6. Mx' = index - B(lockmod) /\ B(lockmod) <= index /\ Hi' = 0 /\ Lo' \in Int /\ Lo' <= 0
        /\ lockstart - lockmod <= Lo'
    BY <1>4, <1>8, <1>9, <1>15, <2>1, <2>2, Constants
  <2> QED
    BY <1>14, <1>15, <2>1, <2>2, <2>3, <2>4, <2>5, <2>6
<1>16. CASE index # RingSize /\ cpc' = "housekeep" /\ Advance(index)
  <2>1. ConsumerTypes
    BY DEF Basic, Typed
  <2>2. PICK first \in Int : Advanced(index, first)
    BY <1>16, <2>1, AdvanceIs
  <2>3. /\ lockstart <= first /\ first <= lockend /\ B(first) <= index
        /\ first <= lockmod /\ index < B(first) + SlotSize
        /\ \A b \in Int : B(b) <= index => b <= first
        /\ unlock(lockstart .. first - 1)
    <3>1. /\ lockstart <= first
          /\ first = lockstart \/ B(first) <= index
          /\ \A b \in Int : B(b) <= index => b <= first
          /\ unlock(lockstart .. first - 1)
          /\ slipped' = (slipped \/ first > lockend)
      BY <2>2 DEF Advanced
    <3>2. B(first) <= index
      <4>1. B(lockstart) \in Int
        BY <1>4, Places
      <4> QED
        BY <3>1, <4>1, <1>1, <1>3, <1>4
    <3>3. first <= lockend
      <4>1. ~(first > lockend)
        BY <3>1, Zenon
      <4> QED
        BY <4>1, <1>4
    <3>4. index < B(first) + SlotSize
      <4>1. ~(B(first + 1) <= index)
        BY <3>1
      <4>2. B(first + 1) = B(first) + SlotSize /\ B(first) \in Int
        BY Places
      <4> QED
        BY <4>1, <4>2, Constants
    <3> QED
      BY <3>1, <3>2, <3>3, <3>4, <1>4, <1>9, Constants
  <2>4. \A x \in Int : Held(x) /\ first <= x /\ x < lockstart + lockmod => Held(x)'
    BY <1>0, <1>4, <2>3, GivenUp
  <2>5. CASE first = lockmod
    <3>1. MoveDown(index) /\ lastslot # lockmod
      BY <2>2, <2>5, <1>12, <1>1, Constants DEF Advanced
    <3>2. index \in Int /\ B(lockmod) <= index /\ index < RingSize /\ Mx <= index
          /\ taken' = taken + (index - Mx)
      BY <2>3, <2>5, <1>1, <1>3, <1>6, <1>8, <1>16, Constants
    <3>3. muxindex' = index - B(lockmod) /\ lockstart' = 0 /\ lockend' = 0
      <4>1. index % SlotSize = index - B(lockmod)
        BY <3>2, <1>8, Remainder, Constants
      <4> QED
        BY <3>1, <4>1 DEF MoveDown
    <3>4. Mx' = index - B(lockmod) /\ ~First' /\ Lo' = 0 /\ Hi' = 0
      BY <3>3, <1>16 DEF Mx, First, Lo, Hi, Turn
    <3>5. Data'
      <4>1. index < RingSize /\ MoveDown(index) /\ UNCHANGED <<constVars, scanNum, readpointer>>
        BY <1>1, <3>1, <3>2
      <4>2. Mx + (readpointer - taken) <= RingSize + B(lockmod) /\ index <= RingSize
        BY <1>6, <1>10
      <4> QED
        BY <3>2, <3>4, <4>1, <4>2, Turned
    <3>6. lockend = lockmod
      BY <1>4, <1>9, <2>3, <2>5, Constants
    <3>7. Looking'
      <4>1. B(Lo)' = B(0) /\ B(0) = 0
        BY <3>4, Places DEF B
      <4>2. Mx' >= 0 /\ Mx' < SlotSize
        BY <3>2, <3>4, <1>8, Constants
      <4>3. Mx' < 0 + SlotSize
        BY <4>2, Constants
      <4> QED
        BY <1>16, <4>1, <4>2, <4>3 DEF Looking
    <3>8. Lo' \in Int /\ Lo' <= 0 /\ lockstart - lockmod <= Lo'
      BY <3>4, <1>4, <1>9, Constants
    <3>9. \A x \in Int : Held(x) /\ Lo' + lockmod <= x /\ x < lockstart + lockmod => Held(x)'
      BY <2>4, <2>5, <3>4, Constants
    <3> QED
      BY <1>14, <1>16, <3>2, <3>4, <3>5, <3>6, <3>7, <3>8, <3>9
  <2>6. CASE first # lockmod
    <3>1. muxindex' = index /\ lockstart' = first /\ lockend' = lockend /\ buf' = buf
      BY <2>2, <2>6 DEF Advanced
    <3>2. index <= B(lockmod)
      <4>1. SUFFICES ASSUME B(lockmod) < index PROVE FALSE
        BY <1>8
      <4>2. lockmod <= first
        BY <4>1, <2>3, <1>8, Constants
      <4> QED
        BY <4>2, <2>3, <2>6, Constants
    <3>3. Begun(W)'
      BY <1>13, <1>16, <2>3, <2>4, <3>1, <3>2
    <3> QED
      BY <3>3
  <2> QED
    BY <2>5, <2>6
<1>17. dataremaining'
  BY DEF Active, Fixed
<1> QED
  BY <1>15, <1>16, <1>17 DEF Fixed

LEMMA GoodFixOver ==
  ASSUME Basic, Active, cpc = "fix", muxindex < muxend, NEW index \in Int, Fixed(index),
         Active', Over
  PROVE  Over'
<1>0. Data /\ Looking /\ Quiet /\ lastslot \in 1 .. lockmod
      /\ muxend <= Mx + (readpointer - taken)
  BY DEF Over
<1>1. /\ muxindex <= index /\ index <= muxend /\ taken' = taken + (index - muxindex)
      /\ UNCHANGED <<n2, constVars, scanNum, lastslot, endindex, readpointer, tpc, endofscan>>
  BY DEF Fixed, threadVars, posVars
<1>2. Quiet' /\ lastslot' \in 1 .. lockmod /\ lockmod' = lockmod
  BY <1>0, <1>1 DEF Quiet, lockmod
<1>3. /\ Mx \in Int /\ readpointer \in Int /\ taken \in Int /\ lastslot \in Int
      /\ endindex \in Int /\ lockstart \in Int /\ lockend \in Int /\ muxindex \in Int
      /\ lockstart >= 0 /\ n2 \in Int /\ Mx = muxindex
  BY Current, Locked
<1>4. PICK rem \in Int : rem = readpointer - taken
  BY <1>3
<1>5. PICK left \in Int : left = rem - (index - Mx)
  BY <1>3
<1>6. readpointer' - taken' = left /\ taken' = taken + (index - Mx)
  BY <1>1, <1>3, <1>4, <1>5
<1>7. PICK m \in Int : m = muxend
  <2>1. B(n2 + 1) \in Int
    BY <1>3, Places
  <2> QED
    BY <1>3, <2>1 DEF muxend, B
<1>8. Remaining
  <2>1. ~Empty
    BY <1>0, <1>3, <1>4, <1>7 DEF Empty
  <2> QED
    BY <2>1 DEF Over
<1>9. /\ rem <= B(lockmod) /\ Mx + rem \in {endindex, endindex + B(lockmod)}
      /\ Mx > B(lockmod) => Mx + rem = endindex
      /\ B(lastslot) < endindex /\ endindex <= B(lastslot) + SlotSize
      /\ m <= Mx + rem
  BY <1>0, <1>4, <1>7, <1>8 DEF Remaining
<1>10. /\ lastslot >= 1 /\ lastslot <= lockmod /\ lastslot + 1 \in Int
       /\ B(lastslot) \in Int /\ B(lastslot + 1) = B(lastslot) + SlotSize
       /\ B(lastslot) >= SlotSize /\ B(lastslot) <= B(lockmod)
  <2>1. lastslot >= 1 /\ lastslot <= lockmod /\ lastslot + 1 \in Int
    BY <1>0, <1>3, Constants
  <2>2. B(1) <= B(lastslot) /\ B(1) = SlotSize /\ B(lastslot) <= B(lockmod)
    <3>1. B(1) = SlotSize
      BY Places, Zenon
    <3>2. \A a, b \in Int : a <= b => B(a) <= B(b)
      BY Places, Zenon
    <3>3. B(1) <= B(lastslot)
      BY <1>3, <2>1, <3>2
    <3>4. B(lastslot) <= B(lockmod)
      BY <1>3, <2>1, <3>2, Constants
    <3> QED
      BY <3>1, <3>3, <3>4
  <2> QED
    BY <1>3, <2>1, <2>2, Places
<1>11. /\ ~First /\ Mx >= 0 /\ B(lockstart) <= Mx /\ n2 >= 0 /\ index <= B(n2 + 1)
       /\ Mx <= B(lockmod) => n2 <= lockmod /\ index <= RingSize
  <2>1. lastslot = n2 => B(n2) <= endindex /\ endindex <= B(n2) + SlotSize
    BY <1>3, <1>9, <1>10
  <2> QED
    BY <1>0, <1>1, <2>1, FixPlace
<1>12. /\ B(lockmod) \in Int /\ RingSize = B(lockmod) + SlotSize /\ RingSize \in Int
       /\ RingSize = B(lockmod + 1) /\ lockmod + 1 \in Int /\ B(lockmod) >= SlotSize
  <2>1. B(1) <= B(lockmod) /\ B(1) = SlotSize /\ B(lockmod) \in Int
    BY Places, Constants
  <2> QED
    BY <2>1, Places, Constants
<1>13. endindex <= RingSize
  BY <1>3, <1>9, <1>10, <1>12, Constants
<1>14. ~EndOfScan(index)
  BY DEF Fixed, Active
<1>15. index < Mx + rem
  <2>1. CASE lastslot = n2
    <3>1. m = endindex
      BY <1>7, <2>1 DEF muxend
    <3>2. ~(index + MinLeftOver > endindex)
      BY <1>14, <2>1 DEF EndOfScan
    <3> QED
      BY <1>3, <1>9, <3>1, <3>2, Constants
  <2>2. CASE lastslot # n2
    <3>1. m = B(n2 + 1) /\ n2 + 1 \in Int
      BY <1>3, <1>7, <2>2 DEF muxend, B
    <3>2. m # Mx + rem
      <4>1. CASE Mx + rem = endindex
        <5>1. SUFFICES ASSUME B(n2 + 1) = endindex PROVE FALSE
          BY <3>1, <4>1
        <5>2. lastslot < n2 + 1
          BY <1>3, <1>9, <3>1, <5>1, Places
        <5>3. ~(lastslot + 1 < n2 + 1)
          <6>1. lastslot + 1 < n2 + 1 => B(lastslot + 1) + SlotSize <= B(n2 + 1)
            BY <1>10, <3>1, Places
          <6> QED
            BY <1>3, <1>9, <1>10, <5>1, <6>1, Constants
        <5> QED
          BY <1>3, <2>2, <5>2, <5>3
      <4>2. CASE Mx + rem # endindex
        <5>1. Mx + rem = endindex + B(lockmod) /\ Mx <= B(lockmod)
          BY <1>3, <1>9, <1>12, <4>2
        <5>2. n2 + 1 <= lockmod + 1
          BY <1>3, <1>11, <5>1, Constants
        <5>3. B(n2 + 1) <= RingSize
          BY <1>12, <3>1, <5>2, Places
        <5> QED
          BY <1>3, <1>9, <1>10, <1>12, <3>1, <5>1, <5>3, Constants
      <4> QED
        BY <4>1, <4>2
    <3> QED
      BY <1>1, <1>3, <1>7, <1>9, <3>2
  <2> QED
    BY <2>1, <2>2
<1>16. left > 0 /\ left <= B(lockmod) /\ Mx <= index /\ index >= 0
  BY <1>1, <1>3, <1>5, <1>9, <1>11, <1>12, <1>15
<1>17. index <= RingSize
  BY <1>3, <1>9, <1>11, <1>12, <1>13, <1>15
<1>18. Mx + rem <= RingSize + B(lockmod)
  BY <1>3, <1>9, <1>12, <1>13, Constants
<1>19. B(lockstart) \in Int /\ B(lockstart) <= index
  <2>1. B(lockstart) \in Int
    BY <1>3, Places
  <2> QED
    BY <2>1, <1>3, <1>11, <1>16
<1>20. ASSUME NEW x \in Int, Mx' = x, x + left \in {endindex, endindex + B(lockmod)},
              x > B(lockmod) => x + left = endindex
       PROVE  Remaining'
  <2>1. B(lockmod)' = B(lockmod) /\ B(lastslot)' = B(lastslot)
    BY <1>1, <1>2 DEF B
  <2>2. readpointer' > taken'
    <3>1. readpointer' \in Int /\ taken' \in Int
      BY <1>1, <1>3, <1>6
    <3> QED
      BY <3>1, <1>6, <1>16
  <2> QED
    BY <1>1, <1>6, <1>9, <1>16, <1>20, <2>1, <2>2 DEF Remaining
<1>21. cpc' \notin {"lockmore", "fix"}
  BY DEF Fixed
(* A turn further down.                                                    *)
<1>22. ASSUME Mx + rem # endindex, B(lockmod) <= index, Mx' = index - B(lockmod),
              (index = RingSize /\ buf' = buf) \/ (index < RingSize /\ MoveDown(index)),
              Looking'
       PROVE  Over'
  <2>1. Data'
    <3>1. UNCHANGED <<constVars, scanNum, readpointer>>
      BY <1>1
    <3>2. Mx + (readpointer - taken) <= RingSize + B(lockmod)
      BY <1>4, <1>18
    <3> QED
      BY <1>0, <1>6, <1>16, <1>17, <1>22, <3>1, <3>2, Turned
  <2>2. PICK x \in Int : x = index - B(lockmod)
    BY <1>12
  <2>3. x + left = endindex
    <3>1. Mx + rem = endindex + B(lockmod)
      BY <1>9, <1>22
    <3> QED
      BY <1>3, <1>5, <1>12, <2>2, <3>1
  <2>4. Remaining'
    BY <1>20, <1>22, <2>2, <2>3
  <2> QED
    BY <1>2, <1>21, <1>22, <2>1, <2>4 DEF Over
<1>23. CASE /\ index = RingSize /\ cpc' = "wrap" /\ muxindex' = SlotSize
            /\ UNCHANGED <<lockstart, lockend, mutex, buf>>
  <2>1. Mx + rem # endindex
    BY <1>3, <1>12, <1>13, <1>15, <1>23
  <2>2. B(lockmod) <= index /\ SlotSize = index - B(lockmod)
    BY <1>12, <1>23, Constants
  <2>3. Mx' = SlotSize
    BY <1>23 DEF Mx
  <2>4. lockstart <= lockmod
    <3>1. Mx <= B(lockmod)
      BY <1>3, <1>9, <1>12, <2>1
    <3>2. lockstart < lockmod + 1
      <4>1. B(lockstart) < B(lockmod + 1)
        BY <1>3, <1>11, <1>12, <1>19, <3>1, Constants
      <4> QED
        BY <1>3, <1>12, <4>1, Places
    <3> QED
      BY <1>3, <3>2, Constants
  <2>5. Looking'
    BY <1>2, <1>3, <1>23, <2>4 DEF Looking
  <2>6. Mx' = index - B(lockmod)
    BY <2>2, <2>3
  <2> QED
    BY <1>22, <1>23, <2>1, <2>2, <2>5, <2>6
<1>24. CASE index # RingSize /\ cpc' = "housekeep" /\ Advance(index)
  <2>0. ConsumerTypes
    BY DEF Basic, Typed
  <2>1. PICK first \in Int : Advanced(index, first)
    BY <1>24, <2>0, AdvanceIs
  <2>2. /\ lockstart <= first
        /\ first = lockstart \/ B(first) <= index
        /\ \A b \in Int : B(b) <= index => b <= first
    BY <2>1 DEF Advanced
  <2>3. /\ index < RingSize /\ B(first) <= index /\ B(first) \in Int /\ first >= 0
        /\ index < B(first) + SlotSize
    <3>1. index < RingSize
      BY <1>12, <1>17, <1>24
    <3>2. B(first) <= index
      BY <1>19, <2>2
    <3>3. B(first) \in Int /\ B(first + 1) = B(first) + SlotSize
      BY Places
    <3>4. first >= 0
      BY <1>3, <2>2
    <3>5. ~(B(first + 1) <= index)
      BY <2>2
    <3>6. index < B(first) + SlotSize
      BY <3>3, <3>5, Constants
    <3> QED
      BY <3>1, <3>2, <3>3, <3>4, <3>6
  <2>4. first <= lockmod
    <3>1. B(first) < B(lockmod + 1)
      BY <1>12, <2>3
    <3>2. first < lockmod + 1
      BY <1>12, <3>1, Places
    <3> QED
      BY <3>2, Constants
  <2>5. CASE first = lockmod /\ lastslot # lockmod /\ MoveDown(index)
    <3>1. Mx + rem # endindex
      <4>1. lastslot + 1 <= lockmod
        BY <1>3, <1>10, <2>5, Constants
      <4>2. B(lastslot + 1) <= B(lockmod)
        BY <1>10, <4>1, Places, Constants
      <4> QED
        BY <1>3, <1>9, <1>10, <1>12, <1>15, <2>3, <2>5, <4>2, Constants
    <3>2. index % SlotSize = index - B(lockmod)
      BY <1>12, <2>3, <2>5, Remainder, Constants
    <3>3. muxindex' = index - B(lockmod) /\ lockstart' = 0
      BY <2>5, <3>2 DEF MoveDown
    <3>4. Mx' = index - B(lockmod) /\ Turn' = 0
      BY <1>24, <3>3 DEF Mx, Turn
    <3>5. Lo' = 0
      BY <3>3, <3>4 DEF Lo
    <3>6. index - B(lockmod) >= 0 /\ index - B(lockmod) < 0 + SlotSize
      BY <1>12, <2>3, <2>5, Constants
    <3>7. Looking'
      <4>1. B(Lo)' = 0
        BY <3>5, Places DEF B
      <4> QED
        BY <1>24, <3>4, <3>6, <4>1 DEF Looking
    <3> QED
      BY <1>22, <2>3, <2>5, <3>1, <3>4, <3>7
  <2>6. CASE /\ ~ (first = lockmod /\ lastslot # lockmod)
             /\ muxindex' = index /\ lockstart' = first /\ UNCHANGED <<lockend, buf>>
    <3>1. Mx' = index /\ Turn' = 0
      <4>1. lockstart' # -1
        BY <2>3, <2>6
      <4> QED
        BY <4>1, <1>24, <2>6 DEF Mx, Turn
    <3>2. Lo' = first
      <4>1. first - 0 = first
        OBVIOUS
      <4> QED
        BY <2>6, <3>1, <4>1 DEF Lo
    <3>3. Data'
      BY <1>0, <1>1, <1>6, <1>16, <2>6, <3>1, Kept
    <3>4. index + left = Mx + rem
      BY <1>3, <1>5
    <3>5. index > B(lockmod) => Mx + rem = endindex
      <4>1. SUFFICES ASSUME index > B(lockmod), Mx + rem # endindex PROVE FALSE
        OBVIOUS
      <4>2. lockmod <= first
        BY <4>1, <2>2, <1>12, Constants
      <4>3. lastslot = lockmod
        BY <4>2, <2>4, <2>6, Constants
      <4>4. endindex >= B(lockmod) /\ Mx + rem = endindex + B(lockmod) /\ Mx <= B(lockmod)
        BY <1>3, <1>9, <1>12, <4>1, <4>3
      <4>5. endindex > B(lockmod)
        BY <1>3, <1>9, <1>12, <4>3
      <4> QED
        BY <1>3, <1>9, <1>12, <4>4, <4>5
    <3>6. Looking'
      <4>1. B(Lo)' = B(first)
        BY <3>2 DEF B
      <4> QED
        BY <1>16, <1>24, <2>3, <3>1, <4>1 DEF Looking
    <3>7. Remaining'
      BY <1>9, <1>20, <3>1, <3>4, <3>5
    <3> QED
      BY <1>2, <1>21, <3>3, <3>6, <3>7 DEF Over
  <2> QED
    BY <2>1, <2>5, <2>6 DEF Advanced
<1> QED
  BY <1>14, <1>23, <1>24 DEF Fixed

LEMMA GoodFix ==
  ASSUME Inv, Steady, Fix, Active', ~slipped'
  PROVE  Reading'
<1>0. Basic /\ Good /\ Typed
  BY DEF Inv, Basic
<1>1. cpc = "fix" /\ muxindex < muxend /\ \E index \in Int : Fixed(index)
  BY <1>0, FixIs
<1>2. PICK index \in Int : Fixed(index)
  BY <1>1
<1>3. Active
  <2>1. /\ dataremaining' = FALSE \/ dataremaining' = dataremaining
        /\ cpc' # "begin" /\ UNCHANGED <<constVars, threadVars>>
    BY <1>2 DEF Fixed
  <2> QED
    BY <1>1, <2>1, SameGaveUp DEF Active, Going
<1>4. ASSUME NEW W \in Int, Begun(W) PROVE \E V \in Int : Begun(V)'
  BY <1>0, <1>1, <1>2, <1>3, <1>4, GoodFixBegun
<1>5. ASSUME Over PROVE Over'
  BY <1>0, <1>1, <1>2, <1>3, <1>5, GoodFixOver
<1> QED
  BY <1>0, <1>3, <1>4, <1>5 DEF Good, Reading

LEMMA GoodWrap ==
  ASSUME Inv, Steady, WrapAround, Active'
  PROVE  Reading'
<1>0. Basic /\ Good /\ LockTypes
  BY DEF Inv, Basic, Typed
<1>1. /\ cpc = "wrap" /\ cpc' = "housekeep" /\ mutex[1] = None /\ dataremaining
      /\ lockstart' = 1 /\ lockend' = 1
      /\ UNCHANGED <<muxindex, n2, constVars, taken, scanNum, threadVars, posVars, buf>>
  BY DEF WrapAround, CGo, Active, flagVars, scanVars
<1>2. Active /\ Reading
  BY <1>0, <1>1, SameGaveUp DEF Active, Going, Good
<1>3. lockstart \in Int /\ lockend \in Int /\ lockstart >= 0 /\ muxindex \in Int
      /\ Mx = muxindex /\ ~First
  BY <1>0, <1>1, <1>2, Current, Locked
<1>4. Mx' = muxindex /\ ~First' /\ Lo' = 1 /\ Hi' = 1
      /\ Lo = lockstart - lockmod /\ Hi = lockend - lockmod
  <2>1. Turn = lockmod /\ Turn' = 0 /\ cpc # "lockmore" /\ cpc' # "lockmore"
    BY <1>1 DEF Turn
  <2>2. Mx' = muxindex /\ ~First'
    BY <1>1 DEF Mx, First
  <2>3. Lo' = 1 - 0 /\ Hi' = 1 - 0 - 0 /\ Lo = lockstart - lockmod
        /\ Hi = lockend - lockmod - 0
    BY <1>1, <2>1 DEF Lo, Hi
  <2>4. 1 - 0 = 1 /\ lockend - lockmod - 0 = lockend - lockmod
    BY <1>3, Constants
  <2> QED
    BY <2>2, <2>3, <2>4, Zenon
<1>5. Looking /\ Mx = SlotSize /\ Looking'
  <2>0. Looking
    BY <1>2 DEF Reading, Begun, Over
  <2>1. Mx = SlotSize
    BY <1>1, <1>3, <2>0 DEF Looking
  <2>2. B(Lo)' = SlotSize
    BY <1>4, Places DEF B
  <2>3. SlotSize >= 0 /\ SlotSize <= SlotSize /\ SlotSize < SlotSize + SlotSize
    BY Constants
  <2> QED
    BY <1>1, <1>3, <1>4, <2>0, <2>1, <2>2, <2>3 DEF Looking
<1>6. ASSUME NEW W \in Int, Begun(W) PROVE Begun(W)'
  <2>2. Data' /\ Written(W)' /\ From(W)' = From(W) /\ To(W)' = To(W)
    BY <1>1, <1>3, <1>4, <1>6, NothingTaken DEF Begun
  <2>3. /\ lockstart <= lockmod /\ 0 < From(W) /\ To(W) < lockstart
        /\ \A x \in From(W) .. To(W) : Held(x)
        /\ From(W) \in Int /\ To(W) \in Int /\ From(W) <= To(W) /\ To(W) <= From(W) + 1
    <3>1. From(W) \in {W, W - 1} /\ To(W) \in {W, W - 1} /\ From(W) <= To(W)
      BY DEF From, To
    <3>2. Lo <= Hi /\ Hi < From(W) /\ To(W) < Lo + lockmod /\ Hi = 0
      BY <1>1, <1>3, <1>6 DEF Begun, ConsumerHolds
    <3>3. \A x \in From(W) .. To(W) : Held(x)
      BY <1>6 DEF Begun, ReaderHolds
    <3>4. lockstart - lockmod <= 0 /\ 0 < From(W) /\ To(W) < (lockstart - lockmod) + lockmod
      BY <1>4, <3>2
    <3>5. (lockstart - lockmod) + lockmod = lockstart /\ lockstart <= lockmod
      BY <1>3, <3>4, Constants
    <3>6. From(W) \in Int /\ To(W) \in Int /\ To(W) <= From(W) + 1
      BY <3>1
    <3> QED
      BY <3>1, <3>3, <3>4, <3>5, <3>6
  <2>4. 1 < From(W)
    <3>1. ~Held(1)
      BY <1>1, One DEF Held
    <3>2. From(W) \in From(W) .. To(W)
      BY <2>3
    <3>3. From(W) # 1
      BY <2>3, <3>1, <3>2
    <3> QED
      BY <2>3, <3>3
  <2>5. Held(1)' /\ \A x \in From(W) .. To(W) : Held(x)'
    <3> DEFINE S == {slot % lockmod : slot \in lockstart .. Slots - 1}
    <3>1. mutex' = [s \in DOMAIN mutex |->
                      IF s = 1 THEN Consumer ELSE IF s \in S THEN None ELSE mutex[s]]
      BY DEF WrapAround
    <3>2. \A x \in Int : x % lockmod \in DOMAIN mutex
      BY <1>0, Residue DEF LockTypes
    <3>3. Held(1)'
      <4>1. mutex'[1 % lockmod] = Consumer
        <5> HIDE DEF S
        <5> QED
          BY <3>1, <3>2, One
      <4> QED
        BY <4>1 DEF Held, Consumer, None
    <3>4. ASSUME NEW x \in From(W) .. To(W) PROVE Held(x)'
      <4>1. x \in Int /\ 1 < x /\ x < lockstart /\ Held(x)
        <5>1. x \in Int /\ From(W) <= x /\ x <= To(W)
          BY <2>3
        <5>2. 1 < x /\ x < lockstart
          BY <1>3, <2>3, <2>4, <5>1
        <5> QED
          BY <2>3, <5>1, <5>2
      <4>2. ASSUME NEW y \in lockstart .. Slots - 1 PROVE y % lockmod # x % lockmod
        <5>1. y \in Int /\ x < y /\ y < x + lockmod
          BY <1>3, <4>1, Constants
        <5> QED
          BY <4>1, <5>1, Residue
      <4>3. x % lockmod \notin S
        BY <4>2
      <4>4. mutex'[x % lockmod] \in {Consumer, mutex[x % lockmod]}
        <5> HIDE DEF S
        <5> QED
          BY <3>1, <3>2, <4>1, <4>3
      <4> HIDE DEF S
      <4> QED
        BY <4>1, <4>4 DEF Held, Consumer, None
    <3> QED
      BY <3>3, <3>4
  <2>6. ReaderHolds(W)'
    BY <1>1, <1>6, <2>2, <2>5 DEF Begun, ReaderHolds, threadVars
  <2>7. FirstLap(W)'
    BY <1>4 DEF FirstLap
  <2>8. ConsumerHolds(W)'
    <3>1. B(Hi)' = SlotSize /\ SlotSize <= Mx' + ReadSize - 1
      BY <1>3, <1>4, <1>5, Places, Constants DEF B
    <3>2. 1 < From(W) /\ To(W) < 1 + lockmod
      BY <1>3, <2>3, <2>4, Constants
    <3>3. \A x \in 1 .. 1 : Held(x)'
      BY <2>5
    <3>4. \A x \in Lo' .. Hi' : Held(x)'
      BY <1>4, <3>3
    <3>5. Lo' <= Hi' /\ Hi' < From(W)' /\ To(W)' < Lo' + lockmod
      BY <1>4, <2>2, <3>2
    <3> QED
      BY <1>1, <3>1, <3>4, <3>5 DEF ConsumerHolds
  <2> QED
    BY <1>1, <1>5, <1>6, <2>2, <2>6, <2>7, <2>8 DEF Begun, threadVars
<1>7. ASSUME Over PROVE Over'
  <2>1. cpc' \notin {"lockmore", "fix"} /\ Mx' = Mx
    BY <1>1, <1>3, <1>4
  <2> QED
    BY <1>1, <1>5, <1>7, <2>1, StillOver
<1> QED
  BY <1>2, <1>6, <1>7 DEF Reading

-----------------------------------------------------------------------------
(* The thread's steps.  They leave the consumer where it is.               *)
LEMMA ThreadOnly ==
  ASSUME Inv, Steady, ThreadStep, Active', keepreading'
  PROVE  /\ Basic /\ Active /\ Reading /\ ~threadstop
         /\ Mx' = Mx /\ First' = First /\ Lo' = Lo /\ Hi' = Hi
         /\ UNCHANGED <<constVars, kind, scanNum, dataremaining, cpc, taken, lockstart, lockend,
                        muxindex, n2>>
         /\ Looking => Looking'
<1>0. Basic /\ Good /\ Flags /\ keepreading
  BY DEF Inv, Basic, Steady
<1>1. UNCHANGED <<constVars, consumerVars, scanVars, dataremaining>>
  BY <1>0 DEF ThreadStep, Arm, Stopped, PastEnd, StartRead, FillFromModule, FailRead,
    FillFromNetwork, Nothing, LockNext, UnlockThis, Again, UnlockLast, Check, flagVars
<1>2. UNCHANGED <<constVars, kind, scanNum, dataremaining, cpc, taken, lockstart, lockend,
                  muxindex, n2>>
  BY <1>1 DEF constVars, consumerVars, scanVars
<1>3. Active
  <2>1. ASSUME GaveUp PROVE FALSE
    <3>1. (UnlockLast \/ Check) /\ lastslot' = lastslot
      BY <2>1 DEF GaveUp, ThreadStep, Arm, Stopped, PastEnd, StartRead, FillFromModule,
        FailRead, FillFromNetwork, Nothing, LockNext, UnlockThis, Again, UnlockLast, Check,
        TGo
    <3>2. tpc' \in {"check", "bar1"}
      BY <1>0, <3>1 DEF Flags, UnlockLast, Check, TGo
    <3> QED
      BY <1>2, <2>1, <3>1, <3>2 DEF Active, GaveUp
  <2> QED
    BY <1>2, <2>1 DEF Active
<1>4. Reading /\ ~threadstop
  BY <1>0, <1>3 DEF Good, Flags
<1>5. Mx' = Mx /\ First' = First /\ Lo' = Lo /\ Hi' = Hi
  BY <1>2 DEF Mx, First, Lo, Hi, Turn
<1>6. Looking => Looking'
  <2>1. B(Lo)' = B(Lo) /\ B(n2)' = B(n2) /\ lockmod' = lockmod
    BY <1>2, <1>5 DEF B, lockmod
  <2> QED
    BY <1>2, <1>5, <2>1 DEF Looking
<1> QED
  BY <1>0, <1>2, <1>3, <1>4, <1>5, <1>6

LEMMA GoodQuiet ==
  ASSUME Inv, Steady, ThreadStep, Active', keepreading', Over
  PROVE  Over'
<1>0. Quiet
  BY DEF Over
<1>1. Mx' = Mx /\ UNCHANGED <<constVars, scanNum, cpc, taken, n2>> /\ (Looking => Looking')
  BY ThreadOnly
<1>2. Quiet' /\ UNCHANGED <<buf, lastslot, endindex, readpointer>>
  BY <1>0, QuietStep DEF posVars
<1>3. Data' = Data /\ Remaining' = Remaining /\ Empty' = Empty
  <2>1. FrameTime(taken)' = FrameTime(taken) /\ Records' = Records
    BY <1>1 DEF constVars, FrameTime, Records
  <2>2. Data' = Data
    BY <1>1, <1>2, <2>1 DEF Data, Place, FrameTime, B
  <2>3. Remaining' = Remaining /\ Empty' = Empty
    BY <1>1, <1>2 DEF Remaining, Empty, B
  <2> QED
    BY <2>2, <2>3
<1>4. muxend' = muxend /\ lockmod' = lockmod
  BY <1>1, <1>2 DEF muxend, lockmod
<1> QED
  BY <1>1, <1>2, <1>3, <1>4 DEF Over

(* A step of the thread that reads nothing.                                *)
LEMMA NothingRead ==
  ASSUME Inv, Steady, ThreadStep, Active', keepreading', NEW W \in Int, Begun(W),
         UNCHANGED <<buf, lastslot, endindex, writeslot, posVars, curslot, endofscan>>
  PROVE  /\ Data' /\ lastslot' = -1 /\ Looking'
         /\ tpc # "top" /\ tpc' \in {"top", "next", "again", "exit"}
              /\ (tpc' \in {"next", "again"} => ~endofscan) => Written(W)'
<1>1. /\ Mx' = Mx /\ UNCHANGED <<constVars, scanNum, kind, cpc, taken>>
      /\ (Looking => Looking')
  BY ThreadOnly
<1>2. Data'
  <2>1. Data' = Data
    BY <1>1 DEF Data, Place, FrameTime, B, posVars, constVars, Records
  <2> QED
    BY <2>1 DEF Begun
<1>3. ASSUME tpc # "top", tpc' \in {"top", "next", "again", "exit"},
             tpc' \in {"next", "again"} => ~endofscan
      PROVE  Written(W)'
  <2>1. Written(W) /\ B(W)' = B(W) /\ B(lockmod)' = B(lockmod) /\ lockmod' = lockmod
    BY DEF Begun, B, lockmod
  <2> QED
    BY <1>1, <1>3, <2>1 DEF Written, posVars
<1> QED
  BY <1>1, <1>2, <1>3 DEF Begun

LEMMA GoodPause ==
  ASSUME Inv, Steady, FailRead \/ Nothing \/ Again, Active', keepreading',
         NEW W \in Int, Begun(W)
  PROVE  Begun(W)'
<1>0. ThreadStep
  BY DEF ThreadStep
<1>1. /\ Mx' = Mx /\ First' = First /\ Lo' = Lo /\ Hi' = Hi /\ Active
      /\ UNCHANGED <<constVars, kind, scanNum, dataremaining, cpc, taken, lockend, n2>>
      /\ keepreading
  BY <1>0, ThreadOnly DEF Steady
<1>2. /\ tpc \in {"fill", "again"} /\ tpc' \in {"top", "exit"}
      /\ UNCHANGED <<buf, lastslot, endindex, writeslot, posVars, curslot, endofscan, mutex>>
  <2>1. CASE FailRead
    BY <2>1 DEF FailRead, TGo
  <2>2. CASE Nothing
    BY <2>2 DEF Nothing
  <2>3. CASE Again
    <3>1. ~endofscan /\ lastslot = -1 /\ tpc = "again"
      BY <2>3 DEF Begun, Written, Again
    <3>2. dataremaining
      <4>1. Ready /\ (kind = "mark5" \/ kind = "network")
        BY DEF Inv, Good, Basic, Typed, ConstTypes
      <4>2. kind = "mark5" => dataremaining
        BY <3>1, <4>1 DEF Ready, Quiet
      <4>3. ASSUME kind = "network", ~dataremaining PROVE FALSE
        <5>1. tpc' = "unlock" /\ lastslot' = -1
          BY <2>3, <3>1, <4>3 DEF Again
        <5> QED
          BY <1>1, <4>3, <5>1 DEF Active, GaveUp
      <4> QED
        BY <4>1, <4>2, <4>3
    <3> QED
      BY <1>1, <2>3, <3>1, <3>2 DEF Again
  <2> QED
    BY <2>1, <2>2, <2>3
<1>3. Data' /\ lastslot' = -1 /\ Looking' /\ Written(W)'
  BY <1>0, <1>2, NothingRead
<1>4. From(W) = W /\ To(W) = W /\ From(W)' = W /\ To(W)' = W
  BY <1>2 DEF From, To
<1>5. ReaderHolds(W)'
  BY <1>2, <1>4 DEF Begun, ReaderHolds, Held
<1>6. FirstLap(W)'
  BY <1>1, <1>2, <1>4 DEF Begun, FirstLap, posVars
<1>7. ConsumerHolds(W)'
  <2>1. B(Hi)' = B(Hi)
    BY <1>1 DEF B
  <2> QED
    BY <1>1, <1>2, <1>4, <2>1 DEF Begun, ConsumerHolds, Held
<1> QED
  BY <1>3, <1>5, <1>6, <1>7 DEF Begun

LEMMA GoodLockNext ==
  ASSUME Inv, Steady, LockNext, Active', keepreading', NEW W \in Int, Begun(W)
  PROVE  Begun(W)'
<1>0. ThreadStep
  BY DEF ThreadStep
<1>1. /\ Mx' = Mx /\ First' = First /\ Lo' = Lo /\ Hi' = Hi /\ Active /\ Basic
      /\ UNCHANGED <<constVars, kind, scanNum, dataremaining, cpc, taken, lockend, n2>>
  BY <1>0, ThreadOnly
<1>2. /\ tpc = "lock" /\ tpc' = "next" /\ lock(writeslot, Thread)
      /\ UNCHANGED <<buf, lastslot, endindex, writeslot, posVars, curslot, endofscan>>
      /\ ~endofscan
  BY DEF LockNext, TGo, Begun, Written
<1>3. Data' /\ lastslot' = -1 /\ Looking' /\ Written(W)'
  BY <1>0, <1>2, NothingRead
<1> USE DEF Begun
<1>4. LockTypes /\ writeslot \in Int /\ Lo \in Int /\ Hi \in Int
  BY <1>1, Current DEF Basic, Typed
<1>5. /\ ~Held(writeslot)
      /\ \A x \in Int : Held(x) \/ x % lockmod = writeslot % lockmod => Held(x)'
  <2>1. Thread \in {Consumer, Thread}
    OBVIOUS
  <2>2. PICK s \in Int : s = writeslot
    BY <1>4
  <2>3. lock(s, Thread)
    BY <1>2, <2>2
  <2>4. ~Held(s) /\ \A x \in Int : Held(x) \/ x % lockmod = s % lockmod => Held(x)'
    BY <1>4, <2>1, <2>3, Locking
  <2> QED
    BY <2>2, <2>4
<1>6. From(W) = W - 1 /\ To(W) = W - 1 /\ From(W)' = W - 1 /\ To(W)' = W
  BY <1>2 DEF From, To
<1>7. W % lockmod = writeslot % lockmod
  BY <1>4, Residue DEF Written
<1>8. ReaderHolds(W)'
  <2>1. Held(W - 1)
    BY <1>6 DEF ReaderHolds
  <2>2. Held(W - 1)' /\ Held(W)'
    BY <1>5, <1>7, <2>1
  <2>3. ASSUME NEW x \in W - 1 .. W PROVE Held(x)'
    <3>1. x = W - 1 \/ x = W
      OBVIOUS
    <3> QED
      BY <2>2, <3>1
  <2>4. curslot % lockmod = (W - 1) % lockmod
    BY <1>2 DEF ReaderHolds
  <2> QED
    BY <1>2, <1>6, <2>3, <2>4 DEF ReaderHolds
<1>9. FirstLap(W)'
  BY <1>1, <1>2, <1>6 DEF FirstLap, posVars
<1>10. ConsumerHolds(W)'
  <2> SUFFICES ASSUME ~First PROVE ConsumerHolds(W)'
    BY <1>1 DEF ConsumerHolds
  <2>1. /\ Lo <= Hi /\ Hi < W - 1 /\ W - 1 < Lo + lockmod
        /\ \A x \in Lo .. Hi : Held(x)
        /\ B(Hi) <= Mx + ReadSize - 1
        /\ cpc = "wrap" => Hi = 0
        /\ cpc \in {"lockmore", "fix"} => n2 <= lockend
    BY <1>6 DEF ConsumerHolds
  <2>2. W # Lo + lockmod
    <3>1. SUFFICES ASSUME W = Lo + lockmod PROVE FALSE
      OBVIOUS
    <3>2. W % lockmod = Lo % lockmod
      BY <1>4, <3>1, Residue
    <3>3. Lo \in Lo .. Hi
      BY <1>4, <2>1
    <3>4. Held(Lo)
      BY <2>1, <3>3
    <3> QED
      BY <1>5, <1>7, <3>2, <3>4 DEF Held
  <2>3. W < Lo + lockmod
    BY <1>4, <2>1, <2>2, Constants
  <2>4. \A x \in Lo .. Hi : Held(x)'
    BY <1>4, <1>5, <2>1
  <2>5. B(Hi)' = B(Hi)
    BY <1>1 DEF B
  <2> QED
    BY <1>1, <1>6, <2>1, <2>3, <2>4, <2>5 DEF ConsumerHolds
<1> QED
  BY <1>3, <1>8, <1>9, <1>10

LEMMA GoodUnlockThis ==
  ASSUME Inv, Steady, UnlockThis, Active', keepreading', NEW W \in Int, Begun(W)
  PROVE  Begun(W)'
<1>0. ThreadStep
  BY DEF ThreadStep
<1>1. /\ Mx' = Mx /\ First' = First /\ Lo' = Lo /\ Hi' = Hi /\ Active /\ Basic
      /\ UNCHANGED <<constVars, kind, scanNum, dataremaining, cpc, taken, lockend, n2>>
  BY <1>0, ThreadOnly
<1>2. /\ tpc = "next" /\ tpc' = "again" /\ unlock({curslot})
      /\ UNCHANGED <<buf, lastslot, endindex, writeslot, posVars, curslot, endofscan>>
      /\ ~endofscan
  BY DEF UnlockThis, TGo, Begun, Written
<1>3. Data' /\ lastslot' = -1 /\ Looking' /\ Written(W)'
  BY <1>0, <1>2, NothingRead
<1> USE DEF Begun
<1>4. LockTypes /\ curslot \in Int /\ Lo \in Int /\ Hi \in Int
  BY <1>1, Current DEF Basic, Typed
<1>5. From(W) = W - 1 /\ To(W) = W /\ From(W)' = W /\ To(W)' = W
  BY <1>2 DEF From, To
<1>6. curslot % lockmod = (W - 1) % lockmod
  BY <1>2 DEF ReaderHolds
<1>7. ASSUME NEW x \in Int, Held(x), W - 1 < x \/ x < W - 1, x < W - 1 + lockmod,
             W - 1 < x + lockmod
      PROVE  Held(x)'
  <2>1. (W - 1) % lockmod # x % lockmod
    BY <1>7, Residue
  <2>2. {curslot} \in SUBSET Int
    BY <1>4
  <2> QED
    BY <1>2, <1>4, <1>6, <1>7, <2>1, <2>2, Unlocking
<1>8. ReaderHolds(W)'
  <2>1. Held(W)
    BY <1>5 DEF ReaderHolds
  <2>2. Held(W)'
    BY <1>7, <2>1, Constants
  <2>3. \A x \in W .. W : Held(x)'
    BY <2>2
  <2> QED
    BY <1>2, <1>5, <2>3 DEF ReaderHolds
<1>9. FirstLap(W)'
  BY <1>1, <1>2, <1>5 DEF FirstLap, posVars
<1>10. ConsumerHolds(W)'
  <2> SUFFICES ASSUME ~First PROVE ConsumerHolds(W)'
    BY <1>1 DEF ConsumerHolds
  <2>1. /\ Lo <= Hi /\ Hi < W - 1 /\ W < Lo + lockmod
        /\ \A x \in Lo .. Hi : Held(x)
        /\ B(Hi) <= Mx + ReadSize - 1
        /\ cpc = "wrap" => Hi = 0
        /\ cpc \in {"lockmore", "fix"} => n2 <= lockend
    BY <1>5 DEF ConsumerHolds
  <2>2. ASSUME NEW x \in Lo .. Hi PROVE Held(x)'
    <3>1. x \in Int /\ Held(x) /\ x < W - 1 /\ W - 1 < x + lockmod
      BY <1>4, <2>1, Constants
    <3>2. x < W - 1 + lockmod
      BY <3>1, Constants
    <3> QED
      BY <1>7, <3>1, <3>2
  <2>3. Hi < W
    BY <1>4, <2>1
  <2>4. B(Hi)' = B(Hi)
    BY <1>1 DEF B
  <2> QED
    BY <1>1, <1>5, <2>1, <2>2, <2>3, <2>4 DEF ConsumerHolds
<1> QED
  BY <1>3, <1>8, <1>9, <1>10

(* A thread about to read, or reading, into slot W writes over nothing that *)
(* is still to be taken.                                                   *)
LEMMA Ahead ==
  ASSUME Basic, NEW W \in Int, Begun(W), tpc \in {"top", "fill"},
         First => W <= lockmod
  PROVE  /\ Mx >= 0 /\ Mx <= B(lockmod) /\ B(W) + SlotSize <= Mx + B(lockmod)
         /\ Mx <= B(W)
         /\ W \in {writeslot, writeslot + lockmod} /\ W >= 1 /\ W < lockmod + lockmod
         /\ Mx + (readpointer - taken) = B(W)
<1>1. Mx \in Int /\ Lo \in Int /\ Hi \in Int /\ writeslot \in 1 .. lockmod
  BY Current
<1>2. /\ Mx <= B(lockmod) /\ W \in {writeslot, writeslot + lockmod}
      /\ Mx + (readpointer - taken) = B(W)
  BY DEF Begun, Written
<1>3. B(lockmod) \in Int /\ B(W) \in Int /\ B(lockmod) >= SlotSize
  <2>1. B(1) <= B(lockmod) /\ B(1) = SlotSize
    BY Places, Constants
  <2> QED
    BY <2>1, Places, Constants
<1>4. W >= 1 /\ B(W) >= SlotSize
  <2>1. W >= 1
    BY <1>1, <1>2, Constants
  <2>2. B(1) <= B(W) /\ B(1) = SlotSize
    BY <2>1, Places
  <2> QED
    BY <2>1, <2>2
<1>5. Mx >= 0 /\ B(W) + SlotSize <= Mx + B(lockmod) /\ Mx <= B(W)
  <2>1. CASE First
    <3>1. Mx = SlotSize
      BY <2>1 DEF First, Mx, Basic, Taking
    <3>2. B(W) <= B(lockmod)
      BY <2>1, Places, Constants
    <3> QED
      BY <1>3, <1>4, <3>1, <3>2, Constants
  <2>2. CASE ~First /\ cpc # "wrap"
    <3>1. W < Lo + lockmod /\ B(Lo) <= Mx /\ Mx >= 0 /\ Mx < B(Lo) + SlotSize
          /\ Lo <= Hi /\ Hi < W
      BY <2>2 DEF Begun, ConsumerHolds, Looking, To, From
    <3>2. Lo + lockmod \in Int /\ B(Lo) \in Int /\ Lo < W
      BY <1>1, <3>1, Constants, Places
    <3>3. B(W) + SlotSize <= B(Lo + lockmod) /\ B(Lo + lockmod) = B(Lo) + B(lockmod)
          /\ B(Lo) + SlotSize <= B(W)
      BY <1>1, <3>1, <3>2, Places
    <3> QED
      BY <1>1, <1>3, <3>1, <3>2, <3>3, Constants
  <2>3. CASE ~First /\ cpc = "wrap"
    <3>1. Mx = SlotSize /\ lockstart <= lockmod /\ W < Lo + lockmod /\ lockstart \in Int
          /\ Lo = lockstart - lockmod
      BY <2>3, Current DEF Begun, ConsumerHolds, Looking, To, First, Mx, Lo, Turn
    <3>2. W < lockmod
      BY <1>1, <3>1, Constants
    <3>3. B(W) + SlotSize <= B(lockmod)
      BY <3>2, Places, Constants
    <3> QED
      BY <1>3, <1>4, <3>1, <3>3, Constants
  <2> QED
    BY <2>1, <2>2, <2>3
<1>6. W < lockmod + lockmod
  <2>1. lockmod + lockmod \in Int
    BY Constants
  <2>2. B(lockmod + lockmod) = B(lockmod) + B(lockmod)
    BY Places, Constants
  <2>3. B(W) < B(lockmod + lockmod)
    BY <1>1, <1>2, <1>3, <1>5, <2>2, Constants
  <2> QED
    BY <2>1, <2>3, Places
<1> QED
  BY <1>2, <1>4, <1>5, <1>6

LEMMA Behind ==
  ASSUME Basic, NEW W \in Int, Begun(W), tpc \in {"top", "fill"},
         First => W <= lockmod, NEW i \in Int, 0 <= i, i < readpointer - taken
  PROVE  /\ Place(Mx + i) \in 0 .. RingSize - 1
         /\ Place(Mx + i) < B(writeslot) \/ Place(Mx + i) >= B(writeslot) + SlotSize
<1>1. /\ Mx >= 0 /\ Mx <= B(lockmod) /\ B(W) + SlotSize <= Mx + B(lockmod)
      /\ W \in {writeslot, writeslot + lockmod} /\ Mx + (readpointer - taken) = B(W)
  BY Ahead
<1>2. /\ Mx \in Int /\ writeslot \in 1 .. lockmod /\ writeslot \in Int
      /\ readpointer \in Int /\ taken \in Int
  BY Current
<1>3. PICK x \in Int : x = Mx + i
  BY <1>2
<1>4. PICK e \in Int : e = readpointer - taken
  BY <1>2
<1>5. /\ B(lockmod) \in Int /\ B(W) \in Int /\ B(writeslot) \in Int
      /\ RingSize = B(lockmod) + SlotSize /\ SlotSize \in Int /\ SlotSize >= 1
      /\ B(writeslot) <= B(lockmod) /\ B(writeslot + lockmod) = B(writeslot) + B(lockmod)
  <2>1. writeslot <= lockmod /\ lockmod \in Int /\ writeslot \in Int
    BY <1>2, Constants
  <2>2. B(writeslot) <= B(lockmod) /\ B(writeslot + lockmod) = B(writeslot) + B(lockmod)
    BY <2>1, Places
  <2>3. B(lockmod) \in Int /\ B(W) \in Int /\ B(writeslot) \in Int
    BY <2>1, Places
  <2>4. RingSize = B(lockmod) + SlotSize
    BY Places
  <2> QED
    BY <2>2, <2>3, <2>4, Constants
<1>6. x >= Mx /\ x < B(W) /\ x >= 0
  BY <1>1, <1>2, <1>3, <1>4
<1>7. CASE W = writeslot
  <2>1. x < B(writeslot) /\ x < RingSize
    BY <1>5, <1>6, <1>7
  <2>2. Place(Mx + i) = x
    BY <1>3, <2>1 DEF Place
  <2> QED
    BY <1>5, <1>6, <2>1, <2>2
<1>8. CASE W = writeslot + lockmod
  <2>1. B(writeslot) + SlotSize <= Mx /\ x < B(writeslot) + B(lockmod)
    BY <1>1, <1>2, <1>5, <1>6, <1>8
  <2>2. CASE x < RingSize
    <3>1. Place(Mx + i) = x
      BY <1>3, <2>2 DEF Place
    <3>2. x >= B(writeslot) + SlotSize
      BY <1>2, <1>5, <1>6, <2>1
    <3> QED
      BY <1>5, <1>6, <2>2, <3>1, <3>2
  <2>3. CASE x >= RingSize
    <3>1. Place(Mx + i) = x - B(lockmod)
      BY <1>3, <1>5, <2>3 DEF Place
    <3>2. x - B(lockmod) < B(writeslot) /\ x - B(lockmod) >= 0 /\ x - B(lockmod) < RingSize
      BY <1>5, <2>1, <2>3
    <3> QED
      BY <1>5, <3>1, <3>2
  <2> QED
    BY <1>5, <2>2, <2>3
<1> QED
  BY <1>1, <1>7, <1>8

(* A record of no frames ends before it has begun.                         *)
LEMMA GoodPastEnd ==
  ASSUME Inv, Steady, PastEnd, Active', keepreading', NEW W \in Int, Begun(W)
  PROVE  Over'
<1>0. ThreadStep
  BY DEF ThreadStep
<1>1. /\ Mx' = Mx /\ Basic /\ Active
      /\ UNCHANGED <<constVars, kind, scanNum, dataremaining, cpc, taken, lockstart, n2>>
      /\ Looking => Looking'
  BY <1>0, ThreadOnly
<1>2. /\ tpc = "top" /\ tpc' = "unlock" /\ kind = "mark5" /\ readpointer >= readend
      /\ lastslot' = writeslot /\ endindex' = B(writeslot)
      /\ UNCHANGED <<buf, writeslot, readpointer>>
  BY DEF PastEnd, TGo, posVars, B
<1>3. /\ Mx \in Int /\ readpointer \in Int /\ taken \in Int /\ taken >= 0 /\ readend \in Int
      /\ writeslot \in 1 .. lockmod /\ writeslot \in Int /\ Lo \in Int /\ Hi \in Int
  BY <1>1, Current
<1>4. readpointer = 0 /\ Mx + (readpointer - taken) = B(W)
      /\ W \in {writeslot, writeslot + lockmod}
  BY <1>2, <1>3 DEF Begun, Written
<1>5. From(W) = W /\ To(W) = W
  BY <1>2 DEF From, To
<1>6. W >= 1
  BY <1>3, <1>4, Constants
<1>7. cpc \notin {"choose", "lockmore", "fix", "housekeep"} /\ Mx = SlotSize
  <2>1. CASE First
    <3>1. Mx = SlotSize
      BY <1>1, <2>1 DEF First, Mx, Basic, Taking
    <3> QED
      BY <1>1, <2>1, <3>1, Locked
  <2>2. CASE ~First /\ cpc # "wrap"
    <3>1. Lo <= Hi /\ Hi < W /\ Mx < B(Lo) + SlotSize
      BY <1>5, <2>2 DEF Begun, ConsumerHolds, Looking
    <3>2. B(Lo) + SlotSize <= B(W) /\ B(Lo) \in Int /\ B(W) \in Int
      <4>1. Lo < W
        BY <1>3, <3>1
      <4> QED
        BY <1>3, <4>1, Places
    <3> QED
      BY <1>3, <1>4, <3>1, <3>2, Constants
  <2>3. CASE ~First /\ cpc = "wrap"
    BY <1>1, <2>3 DEF Begun, Looking, First, Mx
  <2> QED
    BY <2>1, <2>2, <2>3
<1>8. W = 1 /\ taken = 0
  <2>1. B(W) <= SlotSize /\ B(W) \in Int /\ B(1) = SlotSize /\ B(1) <= B(W)
    <3>1. B(W) \in Int /\ B(1) = SlotSize /\ B(1) <= B(W)
      BY <1>6, Places
    <3> QED
      BY <3>1, <1>3, <1>4, <1>7, Constants
  <2>2. taken = 0
    BY <1>3, <1>4, <1>7, <2>1, Constants
  <2>3. ~(1 < W)
    <3>1. 1 < W => B(1) + SlotSize <= B(W)
      BY Places
    <3> QED
      BY <2>1, <3>1, Constants
  <2> QED
    BY <1>6, <2>2, <2>3
<1>9. writeslot = 1
  BY <1>3, <1>4, <1>8, Constants
<1>10. Empty'
  <2>1. endindex' = SlotSize /\ B(lastslot)' = SlotSize
    <3>1. B(1) = SlotSize /\ lastslot' = 1
      BY <1>2, <1>9, Places
    <3> QED
      BY <1>2, <1>9, <3>1 DEF B
  <2> QED
    BY <1>1, <1>2, <1>4, <1>7, <1>8, <2>1 DEF Empty
<1>11. Data'
  <2>1. readpointer' = 0 /\ taken' = 0
    BY <1>1, <1>2, <1>4, <1>8
  <2> QED
    BY <2>1 DEF Data
<1>12. Looking'
  BY <1>1 DEF Begun
<1>13. Quiet' /\ lastslot' \in 1 .. lockmod /\ lockmod' = lockmod
  BY <1>2, <1>3 DEF Quiet, lockmod
<1> QED
  BY <1>1, <1>7, <1>10, <1>11, <1>12, <1>13 DEF Over

LEMMA GoodStartRead ==
  ASSUME Inv, StartRead, Active', Steady', Steady, NEW W \in Int, Begun(W)
  PROVE  Begun(W)'
<1>0. ThreadStep /\ keepreading' /\ ~lapped'
  BY DEF ThreadStep, Steady
<1>1. /\ Mx' = Mx /\ First' = First /\ Lo' = Lo /\ Hi' = Hi /\ Active /\ Basic
      /\ UNCHANGED <<constVars, kind, scanNum, dataremaining, cpc, taken, lockend, n2>>
      /\ Looking => Looking'
  BY <1>0, ThreadOnly
<1>2. /\ tpc = "top" /\ tpc' = "fill"
      /\ kind = "mark5" => readpointer < readend
      /\ buf' = [i \in DOMAIN buf |-> IF i \div SlotSize = writeslot THEN Junk ELSE buf[i]]
      /\ lapped' = (lapped \/ (writeslot = 1 /\ readpointer > 0
                                /\ (lockstart = -1 \/ cpc = "lockfirst")))
      /\ UNCHANGED <<lastslot, endindex, writeslot, readpointer, readend, curslot, mutex>>
  BY DEF StartRead, TGo, posVars
<1> USE DEF Begun
<1>3. BufTypes
  BY <1>1 DEF Basic, Typed
<1>4. From(W) = W /\ To(W) = W /\ From(W)' = W /\ To(W)' = W
  BY <1>2 DEF From, To
<1>5. writeslot \in 1 .. lockmod /\ writeslot \in Int
  BY <1>1, Current
<1>6. First => W <= lockmod
  <2>1. SUFFICES ASSUME First, W > lockmod PROVE FALSE
    BY Constants
  <2>2. W <= lockmod + 1 /\ (W > 1 => readpointer > 0)
    BY <2>1 DEF FirstLap
  <2>3. W = writeslot + lockmod
    BY <1>5, <2>1, Constants DEF Written
  <2>4. writeslot = 1 /\ readpointer > 0
    BY <1>5, <2>1, <2>2, <2>3, Constants
  <2>5. lockstart = -1 \/ cpc = "lockfirst"
    BY <2>1 DEF First
  <2>6. lapped'
    BY <1>2, <2>4, <2>5, Zenon
  <2> QED
    BY <1>0, <2>6
<1>7. Data'
  <2>1. ASSUME NEW i \in Int, 0 <= i, i < readpointer - taken
        PROVE  buf'[Place(Mx + i)] = buf[Place(Mx + i)]
    <3>1. PICK p \in Int : p = Place(Mx + i) /\ p \in 0 .. RingSize - 1
                           /\ (p < B(writeslot) \/ p >= B(writeslot) + SlotSize)
      <4>1. Place(Mx + i) \in 0 .. RingSize - 1
            /\ (Place(Mx + i) < B(writeslot) \/ Place(Mx + i) >= B(writeslot) + SlotSize)
        BY <1>1, <1>2, <1>6, <2>1, Behind
      <4>2. Place(Mx + i) \in Int
        BY <4>1
      <4> QED
        BY <4>1, <4>2
    <3>2. p \div SlotSize # writeslot
      <4>1. B(p \div SlotSize) <= p /\ p < B(p \div SlotSize) + SlotSize
        BY Slot
      <4>2. B(writeslot) \in Int /\ SlotSize \in Int
        BY <1>5, Places, Constants
      <4> QED
        BY <3>1, <4>1, <4>2
    <3>3. p \in DOMAIN buf
      BY <1>3, <3>1 DEF BufTypes
    <3>4. buf'[p] = buf[p]
      BY <1>2, <3>2, <3>3
    <3> QED
      BY <3>1, <3>4
  <2>2. \A i \in Int : /\ Place(Mx + i)' = Place(Mx + i)
                      /\ FrameTime(taken + i)' = FrameTime(taken + i)
    BY <1>1 DEF Place, FrameTime, Records, constVars, B
  <2>3. UNCHANGED <<readpointer, taken>>
    BY <1>1, <1>2
  <2>4. ASSUME NEW i \in Int, 0 <= i, i < (readpointer - taken)'
        PROVE  (buf[Place(Mx + i)])' = FrameTime(taken + i)'
    BY <2>1, <2>2, <2>3, <2>4 DEF Data
  <2> QED
    BY <2>4 DEF Data
<1>8. Written(W)'
  <2>1. Written(W) /\ B(W)' = B(W) /\ B(lockmod)' = B(lockmod) /\ lockmod' = lockmod
    BY DEF B, lockmod
  <2> QED
    BY <1>1, <1>2, <2>1 DEF Written
<1>9. ReaderHolds(W)'
  BY <1>2, <1>4 DEF ReaderHolds, Held
<1>10. FirstLap(W)'
  BY <1>1, <1>2, <1>4, <1>6, Constants DEF FirstLap
<1>11. ConsumerHolds(W)'
  <2>1. B(Hi)' = B(Hi)
    BY <1>1 DEF B
  <2> QED
    BY <1>1, <1>2, <1>4, <2>1 DEF ConsumerHolds, Held
<1> QED
  BY <1>1, <1>2, <1>7, <1>8, <1>9, <1>10, <1>11

(* n frames have come into slot W.  The record goes on, or it has ended.   *)
Stored(n, last) ==
  /\ n >= 1 /\ n <= SlotSize
  /\ ~last => n = SlotSize
  /\ kind = "mark5" /\ ~last => readpointer + n < readend
  /\ kind = "network" => readpointer + n <= readend
  /\ tpc = "fill" /\ tpc' = "lock"
  /\ Store(n, last)
  /\ UNCHANGED <<readend, mutex, lapped>>

LEMMA StoredIs ==
  ASSUME Inv, FillFromModule \/ FillFromNetwork, NEW W \in Int, Begun(W)
  PROVE  \E n \in Int, last \in BOOLEAN : Stored(n, last)
<1>0. readpointer \in Int /\ readend \in Int
  BY Current DEF Inv
<1>1. CASE FillFromModule
  <2> DEFINE last == readpointer + SlotSize >= readend
             n == IF last THEN readend - readpointer ELSE SlotSize
  <2>1. readpointer < readend
    BY <1>1 DEF FillFromModule, TGo, Begun, Written
  <2>2. n \in Int /\ last \in BOOLEAN
    BY <1>0, Constants
  <2>3. /\ n >= 1 /\ n <= SlotSize
        /\ ~last => n = SlotSize
        /\ ~last => readpointer + n < readend
    BY <1>0, <2>1, Constants
  <2>4. /\ tpc = "fill" /\ tpc' = "lock" /\ kind = "mark5"
        /\ UNCHANGED <<readend, mutex, lapped>>
    BY <1>1 DEF FillFromModule, TGo
  <2>5. Store(n, last)
    BY <1>1 DEF FillFromModule
  <2> HIDE DEF last, n
  <2>6. Stored(n, last)
    BY <2>3, <2>4, <2>5 DEF Stored
  <2> QED
    BY <2>2, <2>6
<1>2. CASE FillFromNetwork
  <2> DEFINE n == Min({SlotSize, readend - readpointer})
  <2>1. /\ tpc = "fill" /\ tpc' = "lock" /\ kind = "network" /\ readpointer < readend
        /\ UNCHANGED <<readend, mutex, lapped>>
    BY <1>2 DEF FillFromNetwork, TGo
  <2>2. Store(n, n < SlotSize)
    BY <1>2 DEF FillFromNetwork
  <2>3. n = IF SlotSize <= readend - readpointer THEN SlotSize ELSE readend - readpointer
    BY <1>0, Constants, Less
  <2> HIDE DEF n
  <2>4. n \in Int /\ n >= 1 /\ n <= SlotSize /\ readpointer + n <= readend
        /\ (~(n < SlotSize) => n = SlotSize)
    BY <1>0, <2>1, <2>3, Constants
  <2>5. Stored(n, n < SlotSize)
    BY <2>1, <2>2, <2>4 DEF Stored
  <2>6. (n < SlotSize) \in BOOLEAN
    OBVIOUS
  <2> QED
    BY <2>4, <2>5, <2>6
<1> QED
  BY <1>1, <1>2

LEMMA GoodFill ==
  ASSUME Inv, Steady, FillFromModule \/ FillFromNetwork, Active', keepreading',
         NEW W \in Int, Begun(W)
  PROVE  Reading'
<1>0. ThreadStep
  BY DEF ThreadStep
<1>1. /\ Mx' = Mx /\ First' = First /\ Lo' = Lo /\ Hi' = Hi /\ Active /\ Basic
      /\ UNCHANGED <<constVars, kind, scanNum, dataremaining, cpc, taken, lockend, n2>>
      /\ Looking => Looking'
  BY <1>0, ThreadOnly
<1>2. /\ readpointer \in Int /\ taken \in Int /\ taken >= 0 /\ Mx \in Int /\ readend \in Int
      /\ writeslot \in 1 .. lockmod /\ writeslot \in Int /\ Lo \in Int /\ Hi \in Int
      /\ n2 \in Int /\ lockend \in Int
  BY <1>1, Current
<1>3. PICK n \in Int, last \in BOOLEAN : Stored(n, last)
  BY StoredIs
<1>4. /\ n >= 1 /\ n <= SlotSize
      /\ ~last => n = SlotSize
      /\ kind = "mark5" /\ ~last => readpointer + n < readend
      /\ kind = "network" => readpointer + n <= readend
  BY <1>3 DEF Stored
<1> DEFINE start == Records[scanNum].start
<1>5. /\ tpc = "fill" /\ tpc' = "lock"
      /\ buf' = [i \in DOMAIN buf |->
               IF i \in B(writeslot) .. B(writeslot) + n - 1
               THEN start + (readpointer + i - B(writeslot))
               ELSE buf[i]]
      /\ readpointer' = readpointer + n
      /\ endofscan' = last
      /\ lastslot' = IF last THEN writeslot ELSE lastslot
      /\ endindex' = IF last THEN B(writeslot) + n ELSE endindex
      /\ curslot' = writeslot
      /\ writeslot' = IF writeslot + 1 >= Slots THEN 1 ELSE writeslot + 1
      /\ UNCHANGED <<mutex, readend>>
  BY <1>3 DEF Stored, Store, B, FrameTime
<1>6. start' = start
  BY <1>1 DEF constVars, Records
<1> HIDE DEF start
<1> USE DEF Begun
<1>7. From(W) = W /\ To(W) = W
  BY <1>5 DEF From, To
<1>8. First => 1 <= W /\ W <= lockmod
  BY <1>5, <1>7, Constants DEF FirstLap
<1>9. /\ Mx >= 0 /\ Mx <= B(lockmod) /\ B(W) + SlotSize <= Mx + B(lockmod) /\ Mx <= B(W)
      /\ W \in {writeslot, writeslot + lockmod} /\ W >= 1 /\ W < lockmod + lockmod
      /\ Mx + (readpointer - taken) = B(W)
  BY <1>1, <1>5, <1>8, Ahead
<1>11. /\ B(lockmod) \in Int /\ B(W) \in Int /\ B(writeslot) \in Int
       /\ RingSize = B(lockmod) + SlotSize /\ SlotSize \in Int /\ SlotSize >= 1
       /\ B(writeslot) <= B(lockmod) /\ B(writeslot + lockmod) = B(writeslot) + B(lockmod)
       /\ B(writeslot) >= SlotSize
  <2>1. B(1) = SlotSize
    BY Places, Zenon
  <2>2. \A a, b \in Int : a <= b => B(a) <= B(b)
    BY Places, Zenon
  <2>3. B(1) <= B(writeslot) /\ B(writeslot) <= B(lockmod)
    BY <1>2, <2>2, Constants
  <2>4. B(lockmod) \in Int /\ B(W) \in Int /\ B(writeslot) \in Int
        /\ B(writeslot + lockmod) = B(writeslot) + B(lockmod)
    BY <1>2, Places, Constants
  <2> QED
    BY <2>1, <2>3, <2>4, Places, Constants
<1>12. PICK rem \in Int : rem = readpointer - taken
  BY <1>2
<1>13. readpointer' - taken' = rem + n /\ Mx + rem = B(W) /\ rem >= 0
  BY <1>1, <1>2, <1>5, <1>9, <1>11, <1>12
<1>14. DOMAIN buf = 0 .. RingSize - 1
  BY <1>1 DEF Basic, Typed, BufTypes
<1>15. Data'
  <2>1. ASSUME NEW i \in Int, 0 <= i, i < rem + n
        PROVE  buf'[Place(Mx + i)] = start + (taken + i)
    <3>1. CASE i < rem
      <4>1. i < readpointer - taken
        BY <1>12, <3>1
      <4>2. /\ Place(Mx + i) \in 0 .. RingSize - 1
            /\ Place(Mx + i) < B(writeslot) \/ Place(Mx + i) >= B(writeslot) + SlotSize
        BY <1>1, <1>5, <1>8, <2>1, <4>1, Behind
      <4>3. PICK p \in Int : p = Place(Mx + i)
        BY <4>2
      <4>4. p \in DOMAIN buf /\ ~(p \in B(writeslot) .. B(writeslot) + n - 1)
        <5>1. p \in DOMAIN buf
          BY <1>14, <4>2, <4>3
        <5>2. p < B(writeslot) \/ p >= B(writeslot) + SlotSize
          BY <4>2, <4>3
        <5>3. B(writeslot) \in Int /\ SlotSize \in Int /\ n <= SlotSize
          BY <1>4, <1>11
        <5> QED
          BY <5>1, <5>2, <5>3
      <4>5. buf'[p] = buf[p]
        BY <1>5, <4>4
      <4>6. buf[Place(Mx + i)] = start + (taken + i)
        BY <2>1, <4>1 DEF Data, FrameTime, start
      <4> QED
        BY <4>3, <4>5, <4>6
    <3>2. CASE i >= rem
      <4>1. PICK j \in Int : j = i - rem
        OBVIOUS
      <4>2. 0 <= j /\ j < n /\ Mx + i = B(W) + j
        BY <1>2, <1>13, <2>1, <3>2, <4>1
      <4>3. PICK p \in Int : p = B(writeslot) + j
        BY <1>11
      <4>4. Place(Mx + i) = p
        <5>1. PICK x \in Int : x = Mx + i
          BY <1>2
        <5>2. CASE W = writeslot
          <6>1. x = p /\ x < RingSize
            BY <1>4, <1>11, <4>2, <4>3, <5>1, <5>2
          <6> QED
            BY <5>1, <6>1 DEF Place
        <5>3. CASE W = writeslot + lockmod
          <6>1. x - B(lockmod) = p /\ ~(x < RingSize)
            BY <1>4, <1>11, <4>2, <4>3, <5>1, <5>3
          <6> QED
            BY <5>1, <6>1 DEF Place
        <5> QED
          BY <1>9, <5>2, <5>3
      <4>5. p \in DOMAIN buf /\ p \in B(writeslot) .. B(writeslot) + n - 1
        <5>1. 0 <= p /\ p <= RingSize - 1 /\ B(writeslot) <= p /\ p <= B(writeslot) + n - 1
          BY <1>4, <1>11, <4>2, <4>3
        <5>2. RingSize - 1 \in Int /\ B(writeslot) + n - 1 \in Int
          BY <1>11
        <5> QED
          BY <1>11, <1>14, <5>1, <5>2
      <4>6. buf'[p] = start + (readpointer + p - B(writeslot))
        BY <1>5, <4>5
      <4>7. readpointer + p - B(writeslot) = taken + i
        BY <1>2, <1>11, <1>12, <4>1, <4>3
      <4> QED
        BY <4>4, <4>6, <4>7
    <3> QED
      BY <3>1, <3>2
  <2>2. \A i \in Int : Place(Mx + i)' = Place(Mx + i)
    BY <1>1 DEF Place, B
  <2>3. ASSUME NEW i \in Int, 0 <= i, i < readpointer' - taken'
        PROVE  buf'[Place(Mx + i)'] = start' + (taken' + i)
    <3>1. i < rem + n
      BY <1>13, <2>3
    <3> QED
      BY <1>1, <1>6, <2>1, <2>2, <2>3, <3>1
  <2> QED
    BY <2>3 DEF Data, FrameTime, start
<1>16. Looking'
  BY <1>1
<1>17. CASE last
  <2>1. lastslot' = writeslot /\ endindex' = B(writeslot) + n /\ endofscan'
    BY <1>5, <1>17
  <2>2. Quiet' /\ lastslot' \in 1 .. lockmod /\ lockmod' = lockmod
    BY <1>2, <1>5, <2>1 DEF Quiet, lockmod
  <2>3. B(lockmod)' = B(lockmod) /\ B(lastslot)' = B(writeslot)
    BY <2>1 DEF B
  <2>4. Remaining'
    <3>1. rem + n <= B(lockmod) /\ rem + n > 0
      BY <1>2, <1>4, <1>9, <1>11, <1>13
    <3>2. Mx + (rem + n) \in {B(writeslot) + n, B(writeslot) + n + B(lockmod)}
      <4>1. B(W) \in {B(writeslot), B(writeslot) + B(lockmod)}
        BY <1>9, <1>11
      <4> QED
        BY <1>2, <1>11, <1>13, <4>1
    <3>3. ~(Mx > B(lockmod))
      BY <1>2, <1>9, <1>11
    <3>4. readpointer' > taken'
      <4>1. readpointer' = readpointer + n /\ taken' = taken
        BY <1>1, <1>5
      <4>2. readpointer + n > taken
        BY <1>2, <1>4, <1>12, <1>13
      <4> QED
        BY <4>1, <4>2
    <3>5. B(writeslot) < B(writeslot) + n /\ B(writeslot) + n <= B(writeslot) + SlotSize
      BY <1>4, <1>11
    <3> QED
      BY <1>1, <1>13, <2>1, <2>3, <3>1, <3>2, <3>3, <3>4, <3>5 DEF Remaining
  <2>5. ASSUME cpc' \in {"lockmore", "fix"} PROVE muxend' <= Mx' + (readpointer' - taken')
    <3>1. cpc \in {"lockmore", "fix"} /\ ~First
      BY <1>1, <2>5, Locked
    <3>2. Hi < W /\ n2 <= lockend /\ n2 <= W
      <4>1. Hi < W /\ n2 <= lockend
        BY <1>7, <3>1 DEF ConsumerHolds
      <4>2. Hi = lockend - (IF cpc = "lockmore" THEN 1 ELSE 0)
        BY <1>2, <3>1 DEF Hi, Turn
      <4> QED
        BY <1>2, <4>1, <4>2
    <3>3. B(n2) <= Mx + ReadSize - 1 /\ B(n2) \in Int /\ n2 + 1 \in Int
      BY <1>2, <3>1, Places DEF Looking
    <3>4. n2 < lockmod + 1
      <4>0. RingSize = B(lockmod + 1) /\ lockmod + 1 \in Int
        BY Places, Constants
      <4>1. B(n2) < B(lockmod + 1) /\ lockmod + 1 \in Int
        BY <1>2, <1>9, <1>11, <3>3, <4>0, Constants
      <4> QED
        BY <1>2, <4>1, Places
    <3>5. muxend' = IF writeslot = n2 THEN B(writeslot) + n ELSE B(n2 + 1)
      BY <1>1, <2>1 DEF muxend, B
    <3>6. CASE writeslot = n2
      <4>1. B(writeslot) <= B(W)
        BY <1>2, <3>2, <3>6, Places
      <4> QED
        BY <1>1, <1>2, <1>11, <1>13, <3>5, <3>6, <4>1
    <3>7. CASE writeslot # n2
      <4>1. n2 # W
        BY <1>2, <1>9, <3>4, <3>7, Constants
      <4>2. B(n2 + 1) <= B(W) /\ B(n2 + 1) \in Int
        <5>1. n2 + 1 <= W
          BY <1>2, <3>2, <4>1
        <5> QED
          BY <3>3, <5>1, Places
      <4> QED
        BY <1>1, <1>2, <1>4, <1>11, <1>13, <3>5, <3>7, <4>2
    <3> QED
      BY <3>6, <3>7
  <2>6. Over'
    BY <1>15, <1>16, <2>2, <2>4, <2>5 DEF Over
  <2> QED
    BY <2>6 DEF Reading
<1>18. CASE ~last
  <2>0. n = SlotSize
    BY <1>4, <1>18
  <2>1. PICK V \in Int : V = W + 1
    OBVIOUS
  <2>2. From(V)' = W /\ To(V)' = W
    BY <1>5, <2>1 DEF From, To
  <2>3. V \in {writeslot', writeslot' + lockmod}
    <3>1. Slots = lockmod + 1 /\ lockmod \in Int
      BY Constants
    <3> QED
      BY <1>2, <1>5, <1>9, <2>1, <3>1
  <2>4. Written(V)'
    <3>1. B(V)' = B(V) /\ B(V) = B(W) + SlotSize /\ B(lockmod)' = B(lockmod)
          /\ lockmod' = lockmod
      <4>1. B(V) = B(W) + SlotSize
        BY <2>1, Places
      <4> QED
        BY <4>1 DEF B, lockmod
    <3>2. Mx + (rem + n) = B(V)
      BY <1>2, <1>11, <1>13, <2>0, <3>1
    <3>3. ~endofscan'
      BY <1>5, <1>18
    <3>4. /\ kind' = "mark5" => readpointer' < readend'
          /\ kind' = "network" => readpointer' <= readend'
      BY <1>1, <1>4, <1>5, <1>18
    <3> QED
      BY <1>1, <1>5, <1>9, <1>13, <2>3, <3>1, <3>2, <3>3, <3>4 DEF Written
  <2>5. ReaderHolds(V)'
    <3>1. \A x \in W .. W : Held(x)'
      BY <1>5, <1>7 DEF ReaderHolds, Held
    <3>2. writeslot % lockmod = (V - 1) % lockmod
      <4>1. V - 1 = W
        BY <2>1
      <4> QED
        BY <1>2, <1>9, <4>1, Residue
    <3> QED
      BY <1>5, <2>2, <3>1, <3>2 DEF ReaderHolds
  <2>6. FirstLap(V)'
    <3>1. readpointer' > 0 /\ tpc' # "fill"
      <4>1. readpointer + n > 0
        BY <1>2, <1>4, <1>12, <1>13
      <4> QED
        BY <1>5, <4>1
    <3>2. First => 1 <= W /\ V <= lockmod + 1
      BY <1>8, <2>1, Constants
    <3> QED
      BY <1>1, <2>2, <3>1, <3>2 DEF FirstLap
  <2>7. ConsumerHolds(V)'
    <3>1. B(Hi)' = B(Hi)
      BY <1>1 DEF B
    <3> QED
      BY <1>1, <1>5, <1>7, <2>2, <3>1 DEF ConsumerHolds, Held
  <2>8. lastslot' = -1
    BY <1>5, <1>18
  <2>9. Begun(V)'
    BY <1>15, <1>16, <2>4, <2>5, <2>6, <2>7, <2>8
  <2> QED
    BY <2>9 DEF Reading
<1> QED
  BY <1>17, <1>18

-----------------------------------------------------------------------------
(* The invariant is inductive, and InOrder follows.                        *)
LEMMA GoodConsumer ==
  ASSUME Inv, Steady, Steady', ConsumerStep
  PROVE  Ready' /\ (Active' => Reading')
<1>0. keepreading' /\ ~slipped'
  BY DEF Steady
<1>1. CASE OpenRecord
  BY <1>1, ReadyOpen
<1>2. CASE ~OpenRecord
  <2>1. Ready'
    BY <1>0, <1>2, ReadyConsumer
  <2>2. ASSUME Active' PROVE Reading'
    <3>1. CASE NoMoreRecords \/ StreamEnded \/ Leave \/ Destroy \/ Join
      BY <2>2, <3>1 DEF NoMoreRecords, StreamEnded, Leave, Destroy, Join, CGo, Active, Going
    <3>2. CASE BeginReading \/ FirstRead \/ LaterRead \/ Weird \/ MuxFails \/ HouseKeep
      BY <1>0, <2>2, <3>2, GoodRead
    <3>3. CASE LockFirst \/ Choose \/ LockMore
      BY <1>0, <2>2, <3>3, GoodLockFirst, GoodChoose, GoodLockMore
    <3>4. CASE Fix \/ WrapAround
      BY <1>0, <2>2, <3>4, GoodFix, GoodWrap
    <3> QED
      BY <1>2, <3>1, <3>2, <3>3, <3>4 DEF ConsumerStep
  <2> QED
    BY <2>1, <2>2
<1> QED
  BY <1>1, <1>2

LEMMA GoodThread ==
  ASSUME Inv, Steady, Steady', ThreadStep
  PROVE  Ready' /\ (Active' => Reading')
<1>0. keepreading'
  BY DEF Steady
<1>1. Ready'
  BY <1>0, ReadyThread
<1>2. ASSUME Active' PROVE Reading'
  <2>1. Reading /\ ~threadstop
    BY <1>0, <1>2, ThreadOnly
  <2>2. CASE Over
    BY <1>0, <1>2, <2>2, GoodQuiet DEF Reading
  <2>3. ASSUME NEW W \in Int, Begun(W) PROVE Reading'
    <3>1. tpc \in {"top", "fill", "lock", "next", "again", "exit"}
      BY <2>3 DEF Begun, Written
    <3>2. ~(Arm \/ Stopped \/ UnlockLast \/ Check)
      BY <2>1, <3>1 DEF Arm, Stopped, UnlockLast, Check, TGo
    <3>3. CASE PastEnd
      BY <1>0, <1>2, <2>3, <3>3, GoodPastEnd DEF Reading
    <3>4. CASE StartRead
      <4>1. Begun(W)'
        BY <1>2, <2>3, <3>4, GoodStartRead
      <4> QED
        BY <4>1 DEF Reading
    <3>5. CASE FillFromModule \/ FillFromNetwork
      BY <1>0, <1>2, <2>3, <3>5, GoodFill
    <3>6. CASE FailRead \/ Nothing \/ Again
      <4>1. Begun(W)'
        BY <1>0, <1>2, <2>3, <3>6, GoodPause
      <4> QED
        BY <4>1 DEF Reading
    <3>7. CASE LockNext \/ UnlockThis
      <4>1. Begun(W)'
        BY <1>0, <1>2, <2>3, <3>7, GoodLockNext, GoodUnlockThis
      <4> QED
        BY <4>1 DEF Reading
    <3> QED
      BY <3>2, <3>3, <3>4, <3>5, <3>6, <3>7 DEF ThreadStep
  <2> QED
    BY <2>1, <2>2, <2>3 DEF Reading
<1> QED
  BY <1>1, <1>2

LEMMA GoodSame ==
  ASSUME Good, UNCHANGED vars
  PROVE  Good'
<1>1. UNCHANGED <<kind, directory, sends, cpc, lockstart, lockend, muxindex, n2, taken,
                  scanNum, dataremaining, keepreading, mutex, buf, lastslot, endindex,
                  writeslot, readpointer, readend, tpc, curslot, endofscan, lapped, slipped>>
  BY DEF vars, constVars, consumerVars, scanVars, flagVars, threadVars, posVars
<1>2. /\ Mx' = Mx /\ First' = First /\ Lo' = Lo /\ Hi' = Hi /\ lockmod' = lockmod
      /\ Quiet' = Quiet /\ muxend' = muxend
  BY <1>1 DEF Mx, First, Lo, Hi, Turn, lockmod, Quiet, muxend
<1>3. Looking' = Looking /\ Active' = Active /\ Steady' = Steady
  BY <1>1, <1>2 DEF Looking, Active, GaveUp, Steady, B
<1>4. Data' = Data
  <2>1. Records' = Records
    BY <1>1 DEF Records
  <2> QED
    BY <1>1, <1>2, <2>1 DEF Data, Place, FrameTime, B
<1>5. Remaining' = Remaining /\ Empty' = Empty
  BY <1>1, <1>2 DEF Remaining, Empty, B
<1>6. Over' = Over
  BY <1>1, <1>2, <1>3, <1>4, <1>5 DEF Over
<1>7. ASSUME NEW W \in Int PROVE Begun(W)' = Begun(W)
  <2>1. From(W)' = From(W) /\ To(W)' = To(W)
    BY <1>1 DEF From, To
  <2>2. Written(W)' = Written(W) /\ ReaderHolds(W)' = ReaderHolds(W)
    BY <1>1, <1>2, <2>1 DEF Written, ReaderHolds, Held, B
  <2>3. FirstLap(W)' = FirstLap(W) /\ ConsumerHolds(W)' = ConsumerHolds(W)
    BY <1>1, <1>2, <2>1 DEF FirstLap, ConsumerHolds, Held, B
  <2> QED
    BY <1>1, <1>3, <1>4, <2>2, <2>3 DEF Begun
<1>8. Ready' = Ready
  BY <1>1, <1>2 DEF Ready, Held
<1>9. Reading => Reading'
  <2>1. CASE Over
    BY <2>1, <1>6 DEF Reading
  <2>2. ASSUME NEW W \in Int, Begun(W) PROVE Reading'
    <3>1. Begun(W)'
      BY <1>7, <2>2
    <3> QED
      BY <3>1 DEF Reading
  <2> QED
    BY <2>1, <2>2 DEF Reading
<1> QED
  BY <1>3, <1>8, <1>9 DEF Good

LEMMA GoodStep == Inv /\ [Next]_vars => Good'
<1> SUFFICES ASSUME Inv, [Next]_vars PROVE Good'
  OBVIOUS
<1>1. CASE UNCHANGED vars \/ Finished
  <2>1. UNCHANGED vars
    BY <1>1 DEF Finished
  <2> QED
    BY <2>1, GoodSame DEF Inv
<1>2. CASE Alive /\ (ConsumerStep \/ Barrier1 \/ Barrier2 \/ ThreadStep)
  <2> SUFFICES ASSUME Steady' PROVE Ready' /\ (Active' => Reading')
    BY DEF Good
  <2>1. Steady
    BY <1>2, StillSteady DEF Inv
  <2>2. CASE ConsumerStep
    BY <2>1, <2>2, GoodConsumer
  <2>3. CASE Barrier1 \/ Barrier2
    <3>1. Ready' /\ (Active' => Begun(1)')
      BY <2>1, <2>3, ReadyMeet
    <3>2. 1 \in Int
      OBVIOUS
    <3> QED
      BY <3>1, <3>2 DEF Reading
  <2>4. CASE ThreadStep
    BY <2>1, <2>4, GoodThread
  <2> QED
    BY <1>2, <2>2, <2>3, <2>4
<1> QED
  BY <1>1, <1>2 DEF Next

LEMMA InvInit == Init => Inv
<1> SUFFICES ASSUME Init PROVE Inv
  OBVIOUS
<1>1. ~Active
  BY DEF Init, Active, Going
<1>2. Ready
  BY DEF Init, Ready, Opening, Quiet
<1> QED
  BY <1>1, <1>2, BasicInit DEF Inv, Good

LEMMA InvStep == Inv /\ [Next]_vars => Inv'
BY BasicStep, GoodStep DEF Inv

LEMMA InvInOrder == Inv => InOrder
<1> SUFFICES ASSUME Inv, cpc = "fix", dataremaining, keepreading, ~lapped, ~slipped,
                    ~GaveUp,
                    NEW i \in 0 .. visible - 1
             PROVE  buf[muxindex + i] = FrameTime(taken + i)
  BY DEF InOrder
<1>1. Active /\ Basic /\ Reading
  BY DEF Active, Going, Inv, Good, Steady
<1>2. /\ Mx \in Int /\ muxindex \in Int /\ readpointer \in Int /\ taken \in Int
      /\ lastslot \in Int /\ endindex \in Int /\ lockend \in Int /\ n2 \in Int
      /\ Mx = muxindex
  BY <1>1, Current, Locked
<1>3. PICK index \in Int : index = muxindex + i + 1
  BY <1>2
<1>4. PICK m \in Int : m = muxend
  <2>1. B(n2 + 1) \in Int
    BY <1>2, Places
  <2> QED
    BY <1>2, <2>1 DEF muxend, B
<1>5. i \in Int /\ 0 <= i /\ i < muxend - muxindex
  BY <1>2, <1>4 DEF visible
<1>6. muxindex <= index /\ index <= muxend
  BY <1>2, <1>3, <1>4, <1>5
<1>7. /\ B(lockmod) \in Int /\ RingSize = B(lockmod) + SlotSize /\ RingSize \in Int
      /\ SlotSize \in Int
  BY Places, Constants
<1>8. ASSUME Data, i < readpointer - taken, Mx + i < RingSize
      PROVE  buf[muxindex + i] = FrameTime(taken + i)
  BY <1>2, <1>5, <1>8 DEF Data, Place
<1>9. ASSUME NEW W \in Int, Begun(W)
      PROVE  buf[muxindex + i] = FrameTime(taken + i)
  <2>1. Looking /\ Data /\ lastslot = -1 /\ n2 >= 0
    BY <1>9 DEF Begun, Looking
  <2>2. /\ ~First /\ Hi = lockend /\ index <= B(n2 + 1)
        /\ Mx <= B(lockmod) => n2 <= lockmod /\ index <= RingSize
    BY <1>1, <1>2, <1>6, <2>1, FixPlace
  <2>3. Mx <= B(lockmod) /\ Mx + (readpointer - taken) = B(W)
    BY <1>9 DEF Begun, Written
  <2>4. n2 <= lockend /\ lockend < W
    BY <1>2, <1>9, <2>2 DEF Begun, ConsumerHolds, From
  <2>5. B(n2 + 1) <= B(W) /\ B(n2 + 1) \in Int /\ B(W) \in Int
    <3>1. n2 + 1 \in Int /\ n2 + 1 <= W
      BY <1>2, <2>4
    <3> QED
      BY <3>1, Places
  <2>6. i < readpointer - taken /\ Mx + i < RingSize
    BY <1>2, <1>3, <1>5, <1>7, <2>2, <2>3, <2>5
  <2> QED
    BY <1>8, <2>1, <2>6
<1>10. ASSUME Over PROVE buf[muxindex + i] = FrameTime(taken + i)
  <2>1. Data /\ Looking /\ muxend <= Mx + (readpointer - taken)
        /\ lastslot \in 1 .. lockmod
    BY <1>10 DEF Over
  <2>2. PICK rem \in Int : rem = readpointer - taken
    BY <1>2
  <2>3. i < rem /\ rem > 0 /\ index <= Mx + rem
    BY <1>2, <1>4, <1>5, <1>6, <2>1, <2>2
  <2>4. /\ Mx > B(lockmod) => Mx + rem = endindex
        /\ B(lastslot) < endindex /\ endindex <= B(lastslot) + SlotSize
    <3>1. ~Empty
      BY <1>2, <2>2, <2>3 DEF Empty
    <3>2. Remaining
      BY <1>10, <3>1 DEF Over
    <3> QED
      BY <2>2, <3>2 DEF Remaining
  <2>5. lastslot >= 1 /\ lastslot <= lockmod /\ B(lastslot) \in Int
        /\ B(lastslot) <= B(lockmod)
    <3>1. lastslot >= 1 /\ lastslot <= lockmod
      BY <1>2, <2>1, Constants
    <3>2. \A a, b \in Int : a <= b => B(a) <= B(b)
      BY Places, Zenon
    <3> QED
      BY <1>2, <3>1, <3>2, Places, Constants
  <2>6. Mx <= B(lockmod) => index <= RingSize
    <3>1. lastslot = n2 => B(n2) <= endindex /\ endindex <= B(n2) + SlotSize
      BY <1>2, <2>4, <2>5
    <3> QED
      BY <1>1, <1>6, <2>1, <3>1, FixPlace
  <2>7. endindex <= RingSize
    BY <1>2, <1>7, <2>4, <2>5
  <2>8. Mx + i < RingSize
    BY <1>2, <1>3, <1>5, <1>7, <2>3, <2>4, <2>6, <2>7
  <2> QED
    BY <1>8, <2>1, <2>2, <2>3, <2>8
<1> QED
  BY <1>1, <1>9, <1>10 DEF Reading

(* As long as the thread does not lap the consumer before its first lock   *)
(* nor ends a network stream that has not ended (because it finds          *)
(* dataremaining not yet set), and the consumer does not go on into a slot *)
(* it has not locked, the frames mark5bfix or vdifmux takes are those of   *)
(* the record being read, in order and without a gap, from its first frame *)
(* to its end, for every directory of the module and every length of the   *)
(* network's stream.                                                       *)
THEOREM RecordsInOrder == Spec => []InOrder
<1> QED
  BY InvInit, InvStep, InvInOrder, PTL DEF Spec

=============================================================================
