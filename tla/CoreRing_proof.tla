--------------------------- MODULE CoreRing_proof ---------------------------
(***************************************************************************)
(* Proofs about CoreRing, for every number of threads, every ring length   *)
(* of at least 3 and every number of subintegrations, with or without      *)
(* spurious wake-ups.                                                      *)
(***************************************************************************)
EXTENDS CoreRing, TLAPS

(***************************************************************************)
(* Slots of the ring.                                                      *)
(***************************************************************************)
LEMMA RingFacts == /\ RING \in Nat /\ RING >= 3
                   /\ Last = RING - 1 /\ Second = RING - 2
                   /\ Last \in Slots /\ Second \in Slots /\ 0 \in Slots
BY RingAssumption DEF Last, Second, Slots

LEMMA SlotType == ASSUME NEW k \in Int PROVE Slot(k) \in Slots
BY RingAssumption DEF Slot, Slots

LEMMA SlotSmall == ASSUME NEW k \in Slots PROVE Slot(k) = k
BY RingAssumption DEF Slot, Slots

(* Two subintegrations less than a ring apart are in different slots.      *)
LEMMA SlotInjective ==
  ASSUME NEW a \in Int, NEW b \in Int, a < b, b < a + RING
  PROVE  Slot(a) # Slot(b)
<1> DEFINE qa == a \div RING   qb == b \div RING
<1>1. a = RING * qa + (a % RING) /\ qa \in Int /\ a % RING \in 0 .. RING - 1
  BY RingAssumption
<1>2. b = RING * qb + (b % RING) /\ qb \in Int /\ b % RING \in 0 .. RING - 1
  BY RingAssumption
<1>3. SUFFICES ASSUME a % RING = b % RING PROVE FALSE
  BY DEF Slot
<1>4. b - a = RING * (qb - qa)
  BY <1>1, <1>2, <1>3, RingAssumption
<1> HIDE DEF qa, qb
<1>5. CASE qb - qa >= 1
  BY <1>1, <1>2, <1>4, <1>5, RingAssumption
<1>6. CASE qb - qa <= 0
  BY <1>1, <1>2, <1>4, <1>6, RingAssumption
<1> QED
  BY <1>1, <1>2, <1>5, <1>6

LEMMA SlotShift == ASSUME NEW k \in Int PROVE Slot(k + RING) = Slot(k)
<1> DEFINE qa == k \div RING   qb == (k + RING) \div RING
<1>1. /\ k = RING * qa + (k % RING)
      /\ qa \in Int /\ k % RING \in 0 .. RING - 1
  BY RingAssumption
<1>2. /\ k + RING = RING * qb + ((k + RING) % RING)
      /\ qb \in Int /\ (k + RING) % RING \in 0 .. RING - 1
  BY RingAssumption
<1>3. (k % RING) - ((k + RING) % RING) = RING * (qb - qa - 1)
  BY <1>1, <1>2, RingAssumption
<1> HIDE DEF qa, qb
<1>4. CASE qb - qa - 1 >= 1
  BY <1>1, <1>2, <1>3, <1>4, RingAssumption
<1>5. CASE qb - qa - 1 <= -1
  BY <1>1, <1>2, <1>3, <1>5, RingAssumption
<1>6. CASE qb - qa - 1 = 0
  BY <1>1, <1>2, <1>3, <1>6, RingAssumption DEF Slot
<1> QED
  BY <1>1, <1>2, <1>4, <1>5, <1>6

(***************************************************************************)
(* The inductive invariant.                                                *)
(***************************************************************************)
(* The steps of the main thread, by what it holds and knows there.         *)
Filling == {"lockfirst", "offsets", "data", "locknext", "unlockthis", "send"}
StartUp == {"locksecond", "launch", "waitinit", "condwait", "waiting",
            "unlocksecond"}
Swapping == {"swapunlock", "swaplock"}
Draining == {"drainlock", "drainsend"}
Ending == {"shutunlock", "drainlock", "drainsend", "join"}

(* The mutexes the main thread holds.                                      *)
MainHolds(s, t) ==
  \/ mpc = "lockfirst" /\ s = 0 /\ t < i
  \/ mpc \in {"offsets", "data", "send"} /\ s = Index
  \/ mpc = "locknext" /\ (s = Index \/ (s = Slot(numreceived + 1) /\ t < i))
  \/ mpc = "unlockthis"
       /\ ((s = Index /\ t >= i) \/ s = Slot(numreceived + 1))
  \/ mpc = "swapunlock" /\ ((s = Index /\ t >= i) \/ (s = Last /\ t < i))
  \/ mpc = "swaplock" /\ ((s = Index /\ t > i) \/ (s = Last /\ t < i))
  \/ mpc = "locksecond" /\ (s = Last \/ (s = Second /\ t < i))
  \/ mpc \in {"launch", "waitinit", "condwait"} /\ s \in {Last, Second}
  \/ mpc = "waiting" /\ (s = Second \/ (s = Last /\ t # i))
  \/ mpc = "unlocksecond" /\ (s = Last \/ (s = Second /\ t >= i))
  \/ mpc = "shutunlock" /\ s = ToUnlock /\ t >= i
  \/ mpc = "quit" /\ s = 0 /\ t >= i

(* The mutexes process thread t holds (its own mutex of these slots).      *)
WorkerHolds(s, t) ==
  \/ wpc[t] = "lockzero" /\ s = Last
  \/ wpc[t] = "unlockend" /\ s \in {0, Last}
  \/ wpc[t] \in {"init", "signal", "check", "work", "locknext", "exitunlock"}
       /\ s = Here(t)
  \/ wpc[t] = "unlockcur" /\ s \in {Here(t), Ahead(t)}

LockInv ==
  \A s \in Slots, t \in Threads :
    /\ locks[s][t] = Main <=> MainHolds(s, t)
    /\ locks[s][t] = Worker <=> WorkerHolds(s, t)

(* What the main thread knows at each step.                                *)
MainInv ==
  /\ mpc \in Filling \cup {"swapunlock", "swaplock", "quit"} \cup StartUp =>
       drained = 0
  /\ mpc \in Filling => ~terminate
  /\ mpc \in Ending \cup Swapping \cup {"quit", "done"} => terminate
  /\ mpc \in {"lockfirst", "quit"} => numreceived = 0 /\ ~launched
  /\ mpc \in {"offsets", "data", "locknext", "unlockthis"} /\ ~launched =>
       numreceived < Last
  /\ mpc \in {"offsets", "data", "locknext", "unlockthis"} /\ launched =>
       numreceived >= Last
  /\ mpc = "send" => launched /\ numreceived >= RING
  /\ mpc \in Swapping => ~launched /\ 0 < numreceived /\ numreceived < Last
  /\ mpc \in {"locksecond", "launch"} => ~launched
  /\ mpc \in {"waitinit", "condwait", "waiting", "unlocksecond"} \cup Ending =>
       launched
  /\ mpc \in StartUp => /\ 0 < numreceived /\ numreceived <= Last
                        /\ ~terminate <=> numreceived = Last
  /\ mpc \in {"locknext", "unlockthis"} => numreceived < MaxSubints
  /\ mpc = "data" => numreceived < MaxSubints
  /\ mpc \in Ending => numreceived > 0
  /\ mpc = "shutunlock" => drained = 0
  /\ mpc \in Draining => drained < Countdown
  /\ mpc \in {"offsets", "data", "send", "drainsend"} => i = 0

(* Start-up of the process threads.                                        *)
Running == {"signal", "check", "work", "locknext", "unlockcur", "exitunlock",
            "teardown", "exit"}
ThreadInv ==
  \A t \in Threads :
    /\ ~launched /\ mpc # "launch" => wpc[t] = "none"
    /\ mpc = "launch" /\ t >= i => wpc[t] = "none"
    /\ wpc[t] \notin Running => ~initialised[t] /\ numprocessed[t] = 0
    /\ mpc \in {"waitinit", "condwait", "waiting"} /\ t < i => initialised[t]
    /\ mpc \in {"unlocksecond"} \cup Ending => initialised[t]
    /\ mpc \in Filling /\ launched => initialised[t]
    /\ wpc[t] \in {"exitunlock", "teardown", "exit"} =>
         terminate /\ numprocessed[t] = numreceived
    /\ wpc[t] # "none" => mpc \in StartUp \cup Filling \cup Ending \cup {"done"}

(* How far a process thread can be from the main thread.                   *)
PositionInv ==
  \A t \in Threads :
    LET p == numprocessed[t] IN
    /\ p <= numreceived
    /\ p >= numreceived - RING + 1
    /\ mpc = "locknext" /\ launched /\ t < i => p >= numreceived - RING + 2
    /\ mpc = "unlockthis" /\ launched => p >= numreceived - RING + 2
    /\ wpc[t] \in {"work", "locknext"} =>
         p < numreceived \/ (mpc = "unlockthis" /\ t < i)
    /\ wpc[t] = "unlockcur" => p < numreceived
    /\ mpc \in StartUp /\ mpc # "unlocksecond" =>
         p < Second /\ (wpc[t] = "unlockcur" => p + 1 < Second)
    /\ mpc \in Draining => p >= Len(sent)
    /\ mpc = "drainlock" /\ t < i => p > Len(sent)
    /\ mpc = "drainsend" => p > Len(sent)

(* The data in the ring: the last RING-1 subintegrations are in it.        *)
DataInv ==
  /\ \A k \in Int : 0 <= k /\ numreceived - RING < k /\ k < numreceived =>
       subint[Slot(k)] = k
  /\ mpc \in {"locknext", "unlockthis"} => subint[Index] = numreceived
  /\ \A s \in Slots : keep[s] <=> ~(terminate /\ s = Index)

(* Thread t has added its share of subintegration k.                       *)
Added(t, k) ==
  \/ numprocessed[t] > k
  \/ numprocessed[t] = k /\ wpc[t] \in {"locknext", "unlockcur"}

SharesOf(k, t) == IF 0 <= k /\ Added(t, k) THEN <<k>> ELSE << >>

(* The results in the ring: exactly the shares added so far, of the RING   *)
(* consecutive subintegrations from Oldest on.                             *)
Oldest == IF mpc = "send" THEN numreceived - RING ELSE numreceived - RING + 1

ResultInv ==
  \A t \in Threads, k \in Int :
    Oldest <= k /\ k < Oldest + RING => results[Slot(k)][t] = SharesOf(k, t)

SentInv ==
  /\ SentCompleteInOrder
  /\ mpc \notin {"done", "join"} =>
       Len(sent) = (IF numreceived < Last THEN 0 ELSE numreceived - RING + 1)
                     + drained - (IF mpc = "send" THEN 1 ELSE 0)

IInv ==
  TypeOK /\ MainInv /\ LockInv /\ ThreadInv /\ PositionInv
    /\ DataInv /\ ResultInv /\ SentInv

(***************************************************************************)
(* Types.                                                                  *)
(***************************************************************************)
LEMMA AcquireLock ==
  ASSUME TypeOK, NEW s \in Slots, NEW t \in Threads, NEW h \in {Main, Worker},
         Acquire(h, s, t)
  PROVE  /\ locks' \in [Slots -> [Threads -> {Free, Main, Worker}]]
         /\ locks[s][t] = Free
         /\ \A s1 \in Slots, t1 \in Threads :
              locks'[s1][t1] = IF s1 = s /\ t1 = t THEN h ELSE locks[s1][t1]
BY DEF TypeOK, Acquire

LEMMA ReleaseLock ==
  ASSUME TypeOK, NEW s \in Slots, NEW t \in Threads, Release(s, t)
  PROVE  /\ locks' \in [Slots -> [Threads -> {Free, Main, Worker}]]
         /\ \A s1 \in Slots, t1 \in Threads :
              locks'[s1][t1] = IF s1 = s /\ t1 = t THEN Free ELSE locks[s1][t1]
BY DEF TypeOK, Release

LEMMA IterateThreads ==
  ASSUME TypeOK, NEW here, NEW after, Iterate(here, after)
  PROVE  /\ i' \in Threads
         /\ mpc = here
         /\ \/ LastIteration /\ i' = 0 /\ mpc' = after
            \/ ~LastIteration /\ i' = i + 1 /\ mpc' = here
BY ThreadsAssumption DEF TypeOK, Threads, Iterate, LastIteration

(* Every step keeps the types.                                             *)
LEMMA Typing == ASSUME IInv, [Next]_vars PROVE TypeOK'
<1> USE RingFacts, SlotType, AcquireLock, ReleaseLock, IterateThreads,
        ConfigAssumption, BoundAssumption
    DEF TypeOK
<1>0. TypeOK /\ MainInv
  BY DEF IInv
<1>i. i \in Threads /\ 0 \in Threads /\ Index \in Slots /\ DrainSlot \in Slots
  <2>1. i \in Threads /\ 0 \in Threads
    BY <1>0, ThreadsAssumption DEF Threads
  <2>2. Index \in Slots
    BY <1>0 DEF Index
  <2>3. Adjust \in Int
    BY <1>0 DEF Adjust
  <2>4. numreceived + drained + 1 + Adjust \in Int
    BY <1>0, <2>3
  <2>5. DrainSlot \in Slots
    BY <2>4 DEF DrainSlot
  <2> QED
    BY <2>1, <2>2, <2>5
<1>s. ToUnlock \in Slots /\ numreceived \in Int /\ Slot(numreceived + 1) \in Slots
  BY <1>0, <1>i DEF ToUnlock
<1>t. \A t \in Threads : Here(t) \in Slots /\ Ahead(t) \in Slots
  BY <1>0 DEF Here, Ahead
<1>1. CASE LockFirst
  BY <1>0, <1>i, <1>s, <1>1
  DEF LockFirst, MainSteps, slotVars, workerVars
<1>2. CASE ReceiveData
  BY <1>0, <1>i, <1>s, <1>2
  DEF ReceiveData, MainSteps, slotVars, workerVars
<1>3. CASE LockNext
  BY <1>0, <1>i, <1>s, <1>3
  DEF LockNext, MainSteps, slotVars, workerVars
<1>4. CASE UnlockThis
  <2>1. mpc = "unlockthis" => numreceived < MaxSubints
    BY <1>0 DEF MainInv
  <2>2. numreceived' \in 0 .. MaxSubints
    BY <1>0, <1>4, <2>1 DEF UnlockThis, Iterate
  <2> QED
    BY <1>0, <1>i, <1>4, <2>2 DEF UnlockThis, MainSteps, slotVars, workerVars
<1>5. CASE SwapUnlock
  BY <1>0, <1>i, <1>s, <1>5
  DEF SwapUnlock, MainSteps, slotVars, workerVars
<1>6. CASE SwapLock
  <2>1. i' \in Threads
    BY <1>0, <1>6, ThreadsAssumption DEF SwapLock, LastIteration, Threads
  <2> QED
    BY <1>0, <1>i, <1>6, <2>1 DEF SwapLock, MainSteps, slotVars, workerVars
<1>7. CASE LockSecond
  BY <1>0, <1>i, <1>s, <1>7
  DEF LockSecond, MainSteps, slotVars, workerVars
<1>8. CASE Launch
  BY <1>0, <1>i, <1>s, <1>8
  DEF Launch, LastIteration, MainSteps, WorkerSteps, slotVars
<1>9. CASE SeeInitialised
  BY <1>0, <1>i, <1>s, <1>9
  DEF SeeInitialised, MainSteps, slotVars, workerVars
<1>10. CASE SeeUninitialised
  BY <1>0, <1>i, <1>s, <1>10
  DEF SeeUninitialised, MainSteps, slotVars, workerVars
<1>11. CASE CondWait
  BY <1>0, <1>i, <1>s, <1>11
  DEF CondWait, MainSteps, slotVars, workerVars
<1>12. CASE CondWake
  BY <1>0, <1>i, <1>s, <1>12
  DEF CondWake, MainSteps, slotVars, workerVars
<1>13. CASE UnlockSecond
  BY <1>0, <1>i, <1>s, <1>13
  DEF UnlockSecond, MainSteps, slotVars, workerVars
<1>14. CASE SendResults
  <2>1. sent' \in Seq([Threads -> Seq(Int)])
    BY <1>0, <1>i, <1>14 DEF SendResults
  <2>2. NoShares \in [Threads -> Seq(Int)]
    BY DEF NoShares
  <2>3. results' \in [Slots -> [Threads -> Seq(Int)]]
    BY <1>0, <1>i, <1>14, <2>2 DEF SendResults
  <2> QED
    BY <1>0, <1>14, <2>1, <2>3 DEF SendResults, MainSteps, slotVars, workerVars
<1>15. CASE ShutUnlock
  BY <1>0, <1>i, <1>s, <1>15
  DEF ShutUnlock, MainSteps, slotVars, workerVars
<1>16. CASE DrainLock
  BY <1>0, <1>i, <1>s, <1>16
  DEF DrainLock, MainSteps, slotVars, workerVars
<1>17. CASE DrainSend
  <2>1. sent' \in Seq([Threads -> Seq(Int)])
    BY <1>0, <1>i, <1>17 DEF DrainSend
  <2>2. drained < Countdown
    BY <1>0, <1>17 DEF DrainSend, MainInv, Draining
  <2>3. drained' \in 0 .. RING
    BY <1>0, <1>17, <2>2 DEF DrainSend, Countdown, ShortJob
  <2> QED
    BY <1>0, <1>17, <2>1, <2>3 DEF DrainSend, MainSteps, slotVars, workerVars
<1>18. CASE Join
  BY <1>0, <1>i, <1>s, <1>18
  DEF Join, MainSteps, slotVars, workerVars
<1>19. CASE QuietExit
  BY <1>0, <1>i, <1>s, <1>19
  DEF QuietExit, MainSteps, slotVars, workerVars
<1>20. ASSUME NEW c \in Configs, ReceiveTime(c) PROVE TypeOK'
  BY <1>0, <1>i, <1>20 DEF ReceiveTime, MainSteps, workerVars
<1>21. CASE ReceiveTerminate
  BY <1>0, <1>i, <1>21 DEF ReceiveTerminate, AfterFill, MainSteps, workerVars
<1>22. CASE SpuriousWakeup
  BY <1>0, <1>22 DEF SpuriousWakeup, mainVars, slotVars, workerVars
<1>23. ASSUME NEW t \in Threads, Start(t) PROVE TypeOK'
  BY <1>0, <1>t, <1>23 DEF Start, Go, WorkerSteps, mainVars, slotVars
<1>24. ASSUME NEW t \in Threads, LockZero(t) PROVE TypeOK'
  BY <1>0, <1>t, <1>24 DEF LockZero, Go, WorkerSteps, mainVars, slotVars
<1>25. ASSUME NEW t \in Threads, UnlockEnd(t) PROVE TypeOK'
  BY <1>0, <1>t, <1>25 DEF UnlockEnd, Go, WorkerSteps, mainVars, slotVars
<1>26. ASSUME NEW t \in Threads, SetInitialised(t) PROVE TypeOK'
  BY <1>0, <1>t, <1>26 DEF SetInitialised, Go, WorkerSteps, mainVars, slotVars
<1>27. ASSUME NEW t \in Threads, Signal(t) PROVE TypeOK'
  BY <1>0, <1>t, <1>27 DEF Signal, Go, WorkerSteps, mainVars, slotVars
<1>28. ASSUME NEW t \in Threads, Check(t) PROVE TypeOK'
  BY <1>0, <1>t, <1>28 DEF Check, Go, WorkerSteps, mainVars, slotVars
<1>29. ASSUME NEW t \in Threads, Work(t) PROVE TypeOK'
  <2>a. Here(t) \in Slots /\ t \in Threads
    BY <1>t, <1>29
  <2>c. results[Here(t)] \in [Threads -> Seq(Int)]
    BY <1>0, <2>a
  <2>b. subint[Here(t)] \in Int
    BY <1>0, <2>a
  <2>1. Append(results[Here(t)][t], subint[Here(t)]) \in Seq(Int)
    BY <2>a, <2>b, <2>c
  <2>2. results' \in [Slots -> [Threads -> Seq(Int)]]
    BY <1>0, <1>t, <1>29, <2>1 DEF Work
  <2>3. wpc' \in [Threads -> WorkerSteps]
    BY <1>0, <1>29 DEF Work, Go, WorkerSteps
  <2> QED
    BY <1>0, <1>29, <2>2, <2>3 DEF Work, mainVars, slotVars
<1>30. ASSUME NEW t \in Threads, WorkerLockNext(t) PROVE TypeOK'
  BY <1>0, <1>t, <1>30 DEF WorkerLockNext, Go, WorkerSteps, mainVars, slotVars
<1>31. ASSUME NEW t \in Threads, WorkerUnlock(t) PROVE TypeOK'
  <2>1. numprocessed[t] + 1 \in Nat
    BY <1>0, <1>31, SMTT(30)
  <2>3. numprocessed' \in [Threads -> Nat]
    BY <1>0, <1>31, <2>1 DEF WorkerUnlock
  <2>2. wpc' \in [Threads -> WorkerSteps]
    BY <1>0, <1>31 DEF WorkerUnlock, Go, WorkerSteps
  <2> QED
    BY <1>0, <1>t, <1>31, <2>3, <2>2 DEF WorkerUnlock, mainVars, slotVars
<1>32. ASSUME NEW t \in Threads, ExitUnlock(t) PROVE TypeOK'
  BY <1>0, <1>t, <1>32 DEF ExitUnlock, Go, WorkerSteps, mainVars, slotVars
<1>33. ASSUME NEW t \in Threads, Teardown(t) PROVE TypeOK'
  BY <1>0, <1>t, <1>33 DEF Teardown, Go, WorkerSteps, mainVars, slotVars
<1>34. CASE UNCHANGED vars
  BY <1>0, <1>34 DEF vars, mainVars, slotVars, workerVars
<1> QED
  BY <1>1, <1>2, <1>3, <1>4, <1>5, <1>6, <1>7, <1>8, <1>9, <1>10, <1>11,
     <1>12, <1>13, <1>14, <1>15, <1>16, <1>17, <1>18, <1>19, <1>20, <1>21,
     <1>22, <1>23, <1>24, <1>25, <1>26, <1>27, <1>28, <1>29, <1>30, <1>31,
     <1>32, <1>33, <1>34
  DEF Next, MainStep, WorkerStep, Finished

LEMMA MainPreserved == ASSUME IInv, [Next]_vars, TypeOK' PROVE MainInv'
<1> USE RingFacts
    DEF Filling, StartUp, Swapping, Draining, Ending, MainInv
<1>0. TypeOK /\ MainInv
  BY DEF IInv
<1>i. /\ numreceived \in Nat /\ drained \in Nat /\ i \in Int
      /\ 0 <= i /\ i <= NumThreads - 1 /\ NumThreads \in Nat
  BY <1>0, ThreadsAssumption, BoundAssumption DEF TypeOK, Threads
<1>1. CASE LockFirst
  BY <1>0, <1>i, <1>1 DEF LockFirst, Iterate, LastIteration
<1>2. CASE ReceiveData
  BY <1>0, <1>i, <1>2 DEF ReceiveData, Iterate, LastIteration
<1>3. CASE LockNext
  BY <1>0, <1>i, <1>3 DEF LockNext, Iterate, LastIteration
<1>4. CASE UnlockThis
  BY <1>0, <1>i, <1>4 DEF UnlockThis, Iterate, LastIteration
<1>5. CASE SwapUnlock
  BY <1>0, <1>i, <1>5 DEF SwapUnlock, Iterate, LastIteration
<1>6. CASE SwapLock
  BY <1>0, <1>i, <1>6 DEF SwapLock, Iterate, LastIteration
<1>7. CASE LockSecond
  BY <1>0, <1>i, <1>7 DEF LockSecond, Iterate, LastIteration
<1>8. CASE Launch
  BY <1>0, <1>i, <1>8 DEF Launch, Iterate, LastIteration
<1>9. CASE SeeInitialised
  BY <1>0, <1>i, <1>9 DEF SeeInitialised, Iterate, LastIteration
<1>10. CASE SeeUninitialised
  BY <1>0, <1>i, <1>10 DEF SeeUninitialised, Iterate, LastIteration
<1>11. CASE CondWait
  BY <1>0, <1>i, <1>11 DEF CondWait, Iterate, LastIteration
<1>12. CASE CondWake
  BY <1>0, <1>i, <1>12 DEF CondWake, Iterate, LastIteration
<1>13. CASE UnlockSecond
  BY <1>0, <1>i, <1>13 DEF UnlockSecond, Iterate, LastIteration
<1>14. CASE SendResults
  BY <1>0, <1>i, <1>14 DEF SendResults, Iterate, LastIteration
<1>15. CASE ShutUnlock
  BY <1>0, <1>i, <1>15
  DEF ShutUnlock, Iterate, LastIteration, Countdown, ShortJob
<1>16. CASE DrainLock
  BY <1>0, <1>i, <1>16
  DEF DrainLock, Iterate, LastIteration, Countdown, ShortJob
<1>17. CASE DrainSend
  BY <1>0, <1>i, <1>17 DEF DrainSend, Countdown, ShortJob
<1>18. CASE Join
  BY <1>0, <1>i, <1>18 DEF Join, Iterate, LastIteration
<1>19. CASE QuietExit
  BY <1>0, <1>i, <1>19 DEF QuietExit, Iterate, LastIteration
<1>20. ASSUME NEW c \in Configs, ReceiveTime(c) PROVE MainInv'
  BY <1>0, <1>i, <1>20 DEF ReceiveTime, Iterate, LastIteration
<1>21. CASE ReceiveTerminate
  BY <1>0, <1>i, <1>21 DEF ReceiveTerminate, AfterFill
<1>22. ASSUME NEW t \in Threads, WorkerStep(t) PROVE MainInv'
  <2>1. UNCHANGED mainVars
    BY <1>22 DEF WorkerStep, Start, LockZero, UnlockEnd, SetInitialised,
       Signal, Check, Work, WorkerLockNext, WorkerUnlock, ExitUnlock, Teardown
  <2> QED
    BY <1>0, <2>1 DEF mainVars, Countdown, ShortJob
<1>23. CASE SpuriousWakeup
  BY <1>0, <1>i, <1>23 DEF SpuriousWakeup, mainVars, Countdown, ShortJob
<1>24. CASE UNCHANGED vars
  BY <1>0, <1>24 DEF vars, mainVars, Countdown, ShortJob
<1> QED
  BY <1>1, <1>2, <1>3, <1>4, <1>5, <1>6, <1>7, <1>8, <1>9, <1>10, <1>11,
     <1>12, <1>13, <1>14, <1>15, <1>16, <1>17, <1>18, <1>19, <1>20, <1>21,
     <1>22, <1>23, <1>24
  DEF Next, MainStep, Finished

(* Mutexes: what holds them follows from where the threads are.            *)
LEMMA MainHoldsSame ==
  ASSUME UNCHANGED mainVars
  PROVE  \A s \in Slots, t \in Threads : MainHolds(s, t)' <=> MainHolds(s, t)
BY DEF mainVars, MainHolds, Index, ToUnlock, ShortJob

LEMMA WorkerHoldsSame ==
  ASSUME UNCHANGED <<wpc, numprocessed>>
  PROVE  \A s \in Slots, t \in Threads : WorkerHolds(s, t)' <=> WorkerHolds(s, t)
BY DEF WorkerHolds, Here, Ahead

LEMMA MainAcquires ==
  ASSUME TypeOK, LockInv, NEW s0 \in Slots, NEW t0 \in Threads,
         Acquire(Main, s0, t0), UNCHANGED <<wpc, numprocessed>>,
         \A s \in Slots, t \in Threads :
           MainHolds(s, t)' <=> (s = s0 /\ t = t0) \/ MainHolds(s, t)
  PROVE  LockInv'
<1>1. /\ locks[s0][t0] = Free
      /\ \A s \in Slots, t \in Threads :
           locks'[s][t] = IF s = s0 /\ t = t0 THEN Main ELSE locks[s][t]
  BY AcquireLock
<1> QED
  BY <1>1, WorkerHoldsSame DEF LockInv, Free, Main, Worker

LEMMA MainReleases ==
  ASSUME TypeOK, LockInv, NEW s0 \in Slots, NEW t0 \in Threads,
         Release(s0, t0), MainHolds(s0, t0), UNCHANGED <<wpc, numprocessed>>,
         \A s \in Slots, t \in Threads :
           MainHolds(s, t)' <=> ~(s = s0 /\ t = t0) /\ MainHolds(s, t)
  PROVE  LockInv'
<1>1. \A s \in Slots, t \in Threads :
        locks'[s][t] = IF s = s0 /\ t = t0 THEN Free ELSE locks[s][t]
  BY ReleaseLock
<1>2. ~WorkerHolds(s0, t0)
  BY DEF LockInv, Main, Worker
<1> QED
  BY <1>1, <1>2, WorkerHoldsSame DEF LockInv, Free, Main, Worker

LEMMA WorkerAcquires ==
  ASSUME TypeOK, LockInv, NEW s0 \in Slots, NEW t0 \in Threads,
         Acquire(Worker, s0, t0), UNCHANGED mainVars,
         \A s \in Slots, t \in Threads :
           WorkerHolds(s, t)' <=> (s = s0 /\ t = t0) \/ WorkerHolds(s, t)
  PROVE  LockInv'
<1>1. /\ locks[s0][t0] = Free
      /\ \A s \in Slots, t \in Threads :
           locks'[s][t] = IF s = s0 /\ t = t0 THEN Worker ELSE locks[s][t]
  BY AcquireLock
<1> QED
  BY <1>1, MainHoldsSame DEF LockInv, Free, Main, Worker

LEMMA WorkerReleases ==
  ASSUME TypeOK, LockInv, NEW s0 \in Slots, NEW t0 \in Threads,
         Release(s0, t0), WorkerHolds(s0, t0), UNCHANGED mainVars,
         \A s \in Slots, t \in Threads :
           WorkerHolds(s, t)' <=> ~(s = s0 /\ t = t0) /\ WorkerHolds(s, t)
  PROVE  LockInv'
<1>1. \A s \in Slots, t \in Threads :
        locks'[s][t] = IF s = s0 /\ t = t0 THEN Free ELSE locks[s][t]
  BY ReleaseLock
<1>2. ~MainHolds(s0, t0)
  BY DEF LockInv, Main, Worker
<1> QED
  BY <1>1, <1>2, MainHoldsSame DEF LockInv, Free, Main, Worker

LEMMA WorkerSlots ==
  ASSUME TypeOK, NEW t \in Threads
  PROVE  /\ numprocessed[t] \in Nat
         /\ Here(t) \in Slots /\ Ahead(t) \in Slots /\ Here(t) # Ahead(t)
         /\ numprocessed[t] = 0 => Here(t) = 0
<1>1. numprocessed[t] \in Nat
  BY DEF TypeOK
<1>2. Here(t) # Ahead(t)
  BY <1>1, SlotInjective, RingFacts DEF Here, Ahead
<1>3. Slot(0) = 0
  BY RingFacts, SlotSmall
<1> QED
  BY <1>1, <1>2, <1>3, SlotType DEF Here, Ahead

(* A process thread that goes on in the same slot.                         *)
LEMMA WorkerGoes ==
  ASSUME TypeOK, NEW t \in Threads, NEW here, NEW there, Go(t, here, there),
         numprocessed' = numprocessed
  PROVE  /\ wpc[t] = here /\ wpc'[t] = there
         /\ \A u \in Threads : Here(u)' = Here(u) /\ Ahead(u)' = Ahead(u)
         /\ \A s \in Slots, u \in Threads :
              u # t => (WorkerHolds(s, u)' <=> WorkerHolds(s, u))
<1>1. wpc[t] = here /\ wpc' = [wpc EXCEPT ![t] = there]
  BY DEF Go
<1>2. wpc'[t] = there /\ \A u \in Threads : u # t => wpc'[u] = wpc[u]
  BY <1>1 DEF TypeOK
<1>3. \A u \in Threads : Here(u)' = Here(u) /\ Ahead(u)' = Ahead(u)
  BY DEF Here, Ahead
<1>4. ASSUME NEW s \in Slots, NEW u \in Threads, u # t
      PROVE  WorkerHolds(s, u)' <=> WorkerHolds(s, u)
  BY <1>2, <1>3, <1>4 DEF WorkerHolds
<1> QED
  BY <1>1, <1>2, <1>3, <1>4

LEMMA LocksPreserved == ASSUME IInv, [Next]_vars, TypeOK' PROVE LockInv'
<1> USE RingFacts
<1>0. TypeOK /\ MainInv /\ LockInv /\ ThreadInv
  BY DEF IInv
<1>i. /\ numreceived \in Nat /\ i \in Int /\ i \in Threads
      /\ 0 <= i /\ i <= NumThreads - 1 /\ NumThreads \in Nat
  BY <1>0, ThreadsAssumption, BoundAssumption DEF TypeOK, Threads
<1>n. /\ Index \in Slots /\ Slot(numreceived + 1) \in Slots
      /\ Index # Slot(numreceived + 1) /\ ToUnlock \in Slots
      /\ numreceived <= Last => Index = numreceived
  BY <1>i, SlotType, SlotSmall, SlotInjective DEF Index, Slots, ToUnlock
<1>m. numreceived + 1 <= Last => Slot(numreceived + 1) = numreceived + 1
  BY <1>i, SlotSmall DEF Slots
<1>1. CASE LockFirst
  <2>1. \A s \in Slots, t \in Threads :
          MainHolds(s, t)' <=> (s = 0 /\ t = i) \/ MainHolds(s, t)
    BY <1>0, <1>i, <1>n, <1>m, <1>1
    DEF LockFirst, Iterate, LastIteration, MainHolds, MainInv, Threads, Index,
        ToUnlock, ShortJob, Filling, StartUp, Swapping, Ending
  <2> QED
    BY <1>0, <1>i, <1>n, <1>1, <2>1, MainAcquires DEF LockFirst, workerVars
<1>2. CASE ReceiveData
  <2>1. UNCHANGED <<wpc, numprocessed, locks>>
    BY <1>2 DEF ReceiveData, workerVars
  <2>2. \A s \in Slots, t \in Threads : MainHolds(s, t)' <=> MainHolds(s, t)
    BY <1>0, <1>i, <1>n, <1>m, <1>2
    DEF ReceiveData, Iterate, LastIteration, MainHolds, MainInv, Threads,
        Index,
        ToUnlock, ShortJob, Filling, StartUp, Swapping, Ending
  <2> QED
    BY <1>0, <2>1, <2>2, WorkerHoldsSame DEF LockInv
<1>3. CASE LockNext
  <2>1. \A s \in Slots, t \in Threads :
          MainHolds(s, t)' <=> (s = Slot(numreceived + 1) /\ t = i) \/ MainHolds(s, t)
    BY <1>0, <1>i, <1>n, <1>m, <1>3
    DEF LockNext, Iterate, LastIteration, MainHolds, MainInv, Threads, Index,
        ToUnlock, ShortJob, Filling, StartUp, Swapping, Ending
  <2> QED
    BY <1>0, <1>i, <1>n, <1>3, <2>1, MainAcquires DEF LockNext, workerVars
<1>4. CASE UnlockThis
  <2>1. MainHolds(Index, i)
    BY <1>0, <1>i, <1>n, <1>m, <1>4 DEF UnlockThis, Iterate, MainHolds
  <2>2. \A s \in Slots, t \in Threads :
          MainHolds(s, t)' <=> ~(s = Index /\ t = i) /\ MainHolds(s, t)
    BY <1>0, <1>i, <1>n, <1>m, <1>4
    DEF UnlockThis, Iterate, LastIteration, MainHolds, MainInv, Threads, Index,
        ToUnlock, ShortJob, Filling, StartUp, Swapping, Ending
  <2> QED
    BY <1>0, <1>i, <1>n, <1>4, <2>1, <2>2, MainReleases
    DEF UnlockThis, workerVars
<1>5. CASE SwapUnlock
  <2>1. MainHolds(Index, i)
    BY <1>0, <1>i, <1>n, <1>m, <1>5 DEF SwapUnlock, Iterate, MainHolds
  <2>2. \A s \in Slots, t \in Threads :
          MainHolds(s, t)' <=> ~(s = Index /\ t = i) /\ MainHolds(s, t)
    BY <1>0, <1>i, <1>n, <1>m, <1>5
    DEF SwapUnlock, Iterate, LastIteration, MainHolds, MainInv, Threads, Index,
        ToUnlock, ShortJob, Filling, StartUp, Swapping, Ending
  <2> QED
    BY <1>0, <1>i, <1>n, <1>5, <2>1, <2>2, MainReleases
    DEF SwapUnlock, workerVars
<1>6. CASE SwapLock
  <2>1. \A s \in Slots, t \in Threads :
          MainHolds(s, t)' <=> (s = Last /\ t = i) \/ MainHolds(s, t)
    BY <1>0, <1>i, <1>n, <1>m, <1>6
    DEF SwapLock, Iterate, LastIteration, MainHolds, MainInv, Threads, Index,
        ToUnlock, ShortJob, Filling, StartUp, Swapping, Ending
  <2> QED
    BY <1>0, <1>i, <1>n, <1>6, <2>1, MainAcquires DEF SwapLock, workerVars
<1>7. CASE LockSecond
  <2>1. \A s \in Slots, t \in Threads :
          MainHolds(s, t)' <=> (s = Second /\ t = i) \/ MainHolds(s, t)
    BY <1>0, <1>i, <1>n, <1>m, <1>7
    DEF LockSecond, Iterate, LastIteration, MainHolds, MainInv, Threads, Index,
        ToUnlock, ShortJob, Filling, StartUp, Swapping, Ending
  <2> QED
    BY <1>0, <1>i, <1>n, <1>7, <2>1, MainAcquires DEF LockSecond, workerVars
<1>8. CASE Launch
  <2>1. wpc[i] = "none" /\ wpc'[i] = "start"
    BY <1>0, <1>i, <1>8 DEF Launch, ThreadInv, Iterate, TypeOK
  <2>2. \A s \in Slots, t \in Threads : WorkerHolds(s, t)' <=> WorkerHolds(s, t)
    BY <1>0, <1>8, <2>1 DEF Launch, WorkerHolds, Here, Ahead, TypeOK
  <2>3. \A s \in Slots, t \in Threads : MainHolds(s, t)' <=> MainHolds(s, t)
    BY <1>8 DEF Launch, Iterate, MainHolds
  <2> QED
    BY <1>0, <1>8, <2>2, <2>3 DEF Launch, LockInv
<1>9. CASE SeeInitialised
  <2>1. UNCHANGED <<wpc, numprocessed, locks>>
    BY <1>9 DEF SeeInitialised, workerVars
  <2>2. \A s \in Slots, t \in Threads : MainHolds(s, t)' <=> MainHolds(s, t)
    BY <1>0, <1>i, <1>n, <1>m, <1>9
    DEF SeeInitialised, Iterate, LastIteration, MainHolds, MainInv, Threads,
        Index,
        ToUnlock, ShortJob, Filling, StartUp, Swapping, Ending
  <2> QED
    BY <1>0, <2>1, <2>2, WorkerHoldsSame DEF LockInv
<1>10. CASE SeeUninitialised
  <2>1. UNCHANGED <<wpc, numprocessed, locks>>
    BY <1>10 DEF SeeUninitialised, workerVars
  <2>2. \A s \in Slots, t \in Threads : MainHolds(s, t)' <=> MainHolds(s, t)
    BY <1>0, <1>i, <1>n, <1>m, <1>10
    DEF SeeUninitialised, Iterate, LastIteration, MainHolds, MainInv, Threads,
        Index,
        ToUnlock, ShortJob, Filling, StartUp, Swapping, Ending
  <2> QED
    BY <1>0, <2>1, <2>2, WorkerHoldsSame DEF LockInv
<1>11. CASE CondWait
  <2>1. MainHolds(Last, i)
    BY <1>0, <1>i, <1>n, <1>m, <1>11 DEF CondWait, Iterate, MainHolds
  <2>2. \A s \in Slots, t \in Threads :
          MainHolds(s, t)' <=> ~(s = Last /\ t = i) /\ MainHolds(s, t)
    BY <1>0, <1>i, <1>n, <1>m, <1>11
    DEF CondWait, Iterate, LastIteration, MainHolds, MainInv, Threads, Index,
        ToUnlock, ShortJob, Filling, StartUp, Swapping, Ending
  <2> QED
    BY <1>0, <1>i, <1>n, <1>11, <2>1, <2>2, MainReleases
    DEF CondWait, workerVars
<1>12. CASE CondWake
  <2>1. \A s \in Slots, t \in Threads :
          MainHolds(s, t)' <=> (s = Last /\ t = i) \/ MainHolds(s, t)
    BY <1>0, <1>i, <1>n, <1>m, <1>12
    DEF CondWake, Iterate, LastIteration, MainHolds, MainInv, Threads, Index,
        ToUnlock, ShortJob, Filling, StartUp, Swapping, Ending
  <2> QED
    BY <1>0, <1>i, <1>n, <1>12, <2>1, MainAcquires DEF CondWake, workerVars
<1>13. CASE UnlockSecond
  <2>1. MainHolds(Second, i)
    BY <1>0, <1>i, <1>n, <1>m, <1>13 DEF UnlockSecond, Iterate, MainHolds
  <2>2. \A s \in Slots, t \in Threads :
          MainHolds(s, t)' <=> ~(s = Second /\ t = i) /\ MainHolds(s, t)
    BY <1>0, <1>i, <1>n, <1>m, <1>13
    DEF UnlockSecond, Iterate, LastIteration, MainHolds, MainInv, Threads,
        Index,
        ToUnlock, ShortJob, Filling, StartUp, Swapping, Ending
  <2> QED
    BY <1>0, <1>i, <1>n, <1>13, <2>1, <2>2, MainReleases
    DEF UnlockSecond, workerVars
<1>14. CASE SendResults
  <2>1. UNCHANGED <<wpc, numprocessed, locks>>
    BY <1>14 DEF SendResults, workerVars
  <2>2. \A s \in Slots, t \in Threads : MainHolds(s, t)' <=> MainHolds(s, t)
    BY <1>0, <1>i, <1>n, <1>m, <1>14
    DEF SendResults, Iterate, LastIteration, MainHolds, MainInv, Threads,
        Index,
        ToUnlock, ShortJob, Filling, StartUp, Swapping, Ending
  <2> QED
    BY <1>0, <2>1, <2>2, WorkerHoldsSame DEF LockInv
<1>15. CASE ShutUnlock
  <2>1. MainHolds(ToUnlock, i)
    BY <1>0, <1>i, <1>n, <1>m, <1>15 DEF ShutUnlock, Iterate, MainHolds
  <2>2. \A s \in Slots, t \in Threads :
          MainHolds(s, t)' <=> ~(s = ToUnlock /\ t = i) /\ MainHolds(s, t)
    BY <1>0, <1>i, <1>n, <1>m, <1>15
    DEF ShutUnlock, Iterate, LastIteration, MainHolds, MainInv, Threads, Index,
        ToUnlock, ShortJob, Filling, StartUp, Swapping, Ending
  <2> QED
    BY <1>0, <1>i, <1>n, <1>15, <2>1, <2>2, MainReleases
    DEF ShutUnlock, workerVars
<1>16. CASE DrainLock
  <2>1. UNCHANGED <<wpc, numprocessed, locks>>
    BY <1>16 DEF DrainLock, workerVars
  <2>2. \A s \in Slots, t \in Threads : MainHolds(s, t)' <=> MainHolds(s, t)
    BY <1>0, <1>i, <1>n, <1>m, <1>16
    DEF DrainLock, Iterate, LastIteration, MainHolds, MainInv, Threads, Index,
        ToUnlock, ShortJob, Filling, StartUp, Swapping, Ending
  <2> QED
    BY <1>0, <2>1, <2>2, WorkerHoldsSame DEF LockInv
<1>17. CASE DrainSend
  <2>1. UNCHANGED <<wpc, numprocessed, locks>>
    BY <1>17 DEF DrainSend, workerVars
  <2>2. \A s \in Slots, t \in Threads : MainHolds(s, t)' <=> MainHolds(s, t)
    BY <1>0, <1>i, <1>n, <1>m, <1>17
    DEF DrainSend, Iterate, LastIteration, MainHolds, MainInv, Threads, Index,
        ToUnlock, ShortJob, Filling, StartUp, Swapping, Ending
  <2> QED
    BY <1>0, <2>1, <2>2, WorkerHoldsSame DEF LockInv
<1>18. CASE Join
  <2>1. UNCHANGED <<wpc, numprocessed, locks>>
    BY <1>18 DEF Join, workerVars
  <2>2. \A s \in Slots, t \in Threads : MainHolds(s, t)' <=> MainHolds(s, t)
    BY <1>0, <1>i, <1>n, <1>m, <1>18
    DEF Join, Iterate, LastIteration, MainHolds, MainInv, Threads, Index,
        ToUnlock, ShortJob, Filling, StartUp, Swapping, Ending
  <2> QED
    BY <1>0, <2>1, <2>2, WorkerHoldsSame DEF LockInv
<1>19. CASE QuietExit
  <2>1. MainHolds(0, i)
    BY <1>0, <1>i, <1>n, <1>m, <1>19 DEF QuietExit, Iterate, MainHolds
  <2>2. \A s \in Slots, t \in Threads :
          MainHolds(s, t)' <=> ~(s = 0 /\ t = i) /\ MainHolds(s, t)
    BY <1>0, <1>i, <1>n, <1>m, <1>19
    DEF QuietExit, Iterate, LastIteration, MainHolds, MainInv, Threads, Index,
        ToUnlock, ShortJob, Filling, StartUp, Swapping, Ending
  <2> QED
    BY <1>0, <1>i, <1>n, <1>19, <2>1, <2>2, MainReleases
    DEF QuietExit, workerVars
<1>20. ASSUME NEW c \in Configs, ReceiveTime(c) PROVE LockInv'
  <2>1. UNCHANGED <<wpc, numprocessed, locks>>
    BY <1>20 DEF ReceiveTime, workerVars
  <2>2. \A s \in Slots, t \in Threads : MainHolds(s, t)' <=> MainHolds(s, t)
    BY <1>0, <1>i, <1>n, <1>m, <1>20
    DEF ReceiveTime, Iterate, LastIteration, MainHolds, MainInv, Threads,
        Index,
        ToUnlock, ShortJob, Filling, StartUp, Swapping, Ending
  <2> QED
    BY <1>0, <2>1, <2>2, WorkerHoldsSame DEF LockInv
<1>21. CASE ReceiveTerminate
  <2>1. UNCHANGED <<wpc, numprocessed, locks>>
    BY <1>21 DEF ReceiveTerminate, workerVars
  <2>2. \A s \in Slots, t \in Threads : MainHolds(s, t)' <=> MainHolds(s, t)
    BY <1>0, <1>i, <1>n, <1>m, <1>21
    DEF ReceiveTerminate, Iterate, LastIteration, AfterFill, MainHolds,
        MainInv, Threads, Index,
        ToUnlock, ShortJob, Filling, StartUp, Swapping, Ending
  <2> QED
    BY <1>0, <2>1, <2>2, WorkerHoldsSame DEF LockInv
<1>22. CASE SpuriousWakeup
  BY <1>0, <1>22, MainHoldsSame, WorkerHoldsSame
  DEF SpuriousWakeup, LockInv, workerVars
<1>23. ASSUME NEW t \in Threads, Start(t) PROVE LockInv'
  <2>0. t \in Threads /\ Here(t) \in Slots /\ Ahead(t) \in Slots
    BY <1>0, <1>23, WorkerSlots
  <2>1. \A s \in Slots, u \in Threads :
          WorkerHolds(s, u)' <=> (s = Last /\ u = t) \/ WorkerHolds(s, u)
    <3>1. /\ wpc[t] = "start" /\ wpc'[t] = "lockzero" /\ Here(t)' = Here(t)
          /\ Ahead(t)' = Ahead(t)
          /\ \A s \in Slots, u \in Threads :
               u # t => (WorkerHolds(s, u)' <=> WorkerHolds(s, u))
      BY <1>0, <1>23, WorkerGoes DEF Start
    <3>2. \A s \in Slots :
            WorkerHolds(s, t)' <=> s = Last \/ WorkerHolds(s, t)
      BY <2>0, <3>1 DEF WorkerHolds
    <3> QED
      BY <2>0, <3>1, <3>2
  <2> QED
    BY <1>0, <2>0, <1>23, <2>1, WorkerAcquires DEF Start
<1>24. ASSUME NEW t \in Threads, LockZero(t) PROVE LockInv'
  <2>0. t \in Threads /\ Here(t) \in Slots /\ Ahead(t) \in Slots
    BY <1>0, <1>24, WorkerSlots
  <2>1. \A s \in Slots, u \in Threads :
          WorkerHolds(s, u)' <=> (s = 0 /\ u = t) \/ WorkerHolds(s, u)
    <3>1. /\ wpc[t] = "lockzero" /\ wpc'[t] = "unlockend" /\ Here(t)' = Here(t)
          /\ Ahead(t)' = Ahead(t)
          /\ \A s \in Slots, u \in Threads :
               u # t => (WorkerHolds(s, u)' <=> WorkerHolds(s, u))
      BY <1>0, <1>24, WorkerGoes DEF LockZero
    <3>2. \A s \in Slots :
            WorkerHolds(s, t)' <=> s = 0 \/ WorkerHolds(s, t)
      BY <2>0, <3>1 DEF WorkerHolds
    <3> QED
      BY <2>0, <3>1, <3>2
  <2> QED
    BY <1>0, <2>0, <1>24, <2>1, WorkerAcquires DEF LockZero
<1>25. ASSUME NEW t \in Threads, UnlockEnd(t) PROVE LockInv'
  <2>0. t \in Threads /\ Here(t) \in Slots /\ Ahead(t) \in Slots
    BY <1>0, <1>25, WorkerSlots
  <2>a. numprocessed[t] = 0 /\ Slot(numprocessed[t]) = 0
    BY <1>0, <1>25, WorkerSlots DEF UnlockEnd, Go, ThreadInv, Running, Here
  <2>1. \A s \in Slots, u \in Threads :
          WorkerHolds(s, u)' <=> ~(s = Last /\ u = t) /\ WorkerHolds(s, u)
    <3>1. wpc[t] = "unlockend" /\ wpc' = [wpc EXCEPT ![t] = "init"]
      BY <1>25 DEF UnlockEnd, Go
    <3>2. numprocessed' = numprocessed
      BY <1>25 DEF UnlockEnd
    <3>3. 0 # Last
      BY RingFacts
    <3> QED
      BY <1>0, <2>0, <2>a, <3>1, <3>2, <3>3
      DEF WorkerHolds, Here, Ahead, TypeOK
  <2>2. WorkerHolds(Last, t)
    BY <1>25 DEF UnlockEnd, Go, WorkerHolds
  <2> QED
    BY <1>0, <2>0, <1>25, <2>1, <2>2, WorkerReleases DEF UnlockEnd
<1>26. ASSUME NEW t \in Threads, SetInitialised(t) PROVE LockInv'
  <2>1. UNCHANGED mainVars /\ UNCHANGED locks
    BY <1>26 DEF SetInitialised
  <2>2. \A s \in Slots, u \in Threads : WorkerHolds(s, u)' <=> WorkerHolds(s, u)
    BY <1>0, <1>26
    DEF SetInitialised, Go, WorkerHolds, Here, Ahead, TypeOK
  <2> QED
    BY <1>0, <2>1, <2>2, MainHoldsSame DEF LockInv
<1>27. ASSUME NEW t \in Threads, Signal(t) PROVE LockInv'
  <2>1. UNCHANGED mainVars /\ UNCHANGED locks
    BY <1>27 DEF Signal
  <2>2. \A s \in Slots, u \in Threads : WorkerHolds(s, u)' <=> WorkerHolds(s, u)
    BY <1>0, <1>27
    DEF Signal, Go, WorkerHolds, Here, Ahead, TypeOK
  <2> QED
    BY <1>0, <2>1, <2>2, MainHoldsSame DEF LockInv
<1>28. ASSUME NEW t \in Threads, Check(t) PROVE LockInv'
  <2>1. UNCHANGED mainVars /\ UNCHANGED locks
    BY <1>28 DEF Check
  <2>2. \A s \in Slots, u \in Threads : WorkerHolds(s, u)' <=> WorkerHolds(s, u)
    BY <1>0, <1>28
    DEF Check, Go, WorkerHolds, Here, Ahead, TypeOK
  <2> QED
    BY <1>0, <2>1, <2>2, MainHoldsSame DEF LockInv
<1>29. ASSUME NEW t \in Threads, Work(t) PROVE LockInv'
  <2>1. UNCHANGED mainVars /\ UNCHANGED locks
    BY <1>29 DEF Work
  <2>2. \A s \in Slots, u \in Threads : WorkerHolds(s, u)' <=> WorkerHolds(s, u)
    BY <1>0, <1>29
    DEF Work, Go, WorkerHolds, Here, Ahead, TypeOK
  <2> QED
    BY <1>0, <2>1, <2>2, MainHoldsSame DEF LockInv
<1>30. ASSUME NEW t \in Threads, WorkerLockNext(t) PROVE LockInv'
  <2>0. t \in Threads /\ Here(t) \in Slots /\ Ahead(t) \in Slots
    BY <1>0, <1>30, WorkerSlots
  <2>1. \A s \in Slots, u \in Threads :
          WorkerHolds(s, u)' <=> (s = Ahead(t) /\ u = t) \/ WorkerHolds(s, u)
    <3>1. /\ wpc[t] = "locknext" /\ wpc'[t] = "unlockcur" /\ Here(t)' = Here(t)
          /\ Ahead(t)' = Ahead(t)
          /\ \A s \in Slots, u \in Threads :
               u # t => (WorkerHolds(s, u)' <=> WorkerHolds(s, u))
      BY <1>0, <1>30, WorkerGoes DEF WorkerLockNext
    <3>2. \A s \in Slots :
            WorkerHolds(s, t)' <=> s = Ahead(t) \/ WorkerHolds(s, t)
      BY <2>0, <3>1 DEF WorkerHolds
    <3> QED
      BY <2>0, <3>1, <3>2
  <2> QED
    BY <1>0, <2>0, <1>30, <2>1, WorkerAcquires DEF WorkerLockNext
<1>31. ASSUME NEW t \in Threads, WorkerUnlock(t) PROVE LockInv'
  <2>0. t \in Threads /\ Here(t) \in Slots /\ Ahead(t) \in Slots
    BY <1>0, <1>31, WorkerSlots
  <2>1. PICK s0 \in Slots : s0 = Here(t)
    BY <2>0
  <2>2. \A s \in Slots, u \in Threads :
          WorkerHolds(s, u)' <=> ~(s = s0 /\ u = t) /\ WorkerHolds(s, u)
    BY <1>0, <2>0, <2>1, <1>31, WorkerSlots
    DEF WorkerUnlock, Go, WorkerHolds, Here, Ahead, TypeOK, ThreadInv, Running
  <2>3. WorkerHolds(s0, t)
    BY <1>31, <2>1 DEF WorkerUnlock, Go, WorkerHolds
  <2>4. Release(s0, t)
    BY <1>31, <2>1 DEF WorkerUnlock
  <2>5. UNCHANGED mainVars
    BY <1>31 DEF WorkerUnlock
  <2>6. TypeOK /\ LockInv
    BY <1>0
  <2> QED
    BY <2>0, <2>2, <2>3, <2>4, <2>5, <2>6, WorkerReleases
<1>32. ASSUME NEW t \in Threads, ExitUnlock(t) PROVE LockInv'
  <2>0. t \in Threads /\ Here(t) \in Slots /\ Ahead(t) \in Slots
    BY <1>0, <1>32, WorkerSlots
  <2>1. PICK s0 \in Slots : s0 = Here(t)
    BY <2>0
  <2>2. \A s \in Slots, u \in Threads :
          WorkerHolds(s, u)' <=> ~(s = s0 /\ u = t) /\ WorkerHolds(s, u)
    BY <1>0, <2>0, <2>1, <1>32, WorkerSlots
    DEF ExitUnlock, Go, WorkerHolds, Here, Ahead, TypeOK, ThreadInv, Running
  <2>3. WorkerHolds(s0, t)
    BY <1>32, <2>1 DEF ExitUnlock, Go, WorkerHolds
  <2>4. Release(s0, t)
    BY <1>32, <2>1 DEF ExitUnlock
  <2>5. UNCHANGED mainVars
    BY <1>32 DEF ExitUnlock
  <2>6. TypeOK /\ LockInv
    BY <1>0
  <2> QED
    BY <2>0, <2>2, <2>3, <2>4, <2>5, <2>6, WorkerReleases
<1>33. ASSUME NEW t \in Threads, Teardown(t) PROVE LockInv'
  <2>1. UNCHANGED mainVars /\ UNCHANGED locks
    BY <1>33 DEF Teardown
  <2>2. \A s \in Slots, u \in Threads : WorkerHolds(s, u)' <=> WorkerHolds(s, u)
    BY <1>0, <1>33
    DEF Teardown, Go, WorkerHolds, Here, Ahead, TypeOK
  <2> QED
    BY <1>0, <2>1, <2>2, MainHoldsSame DEF LockInv
<1>34. CASE UNCHANGED vars
  BY <1>0, <1>34, MainHoldsSame, WorkerHoldsSame
  DEF vars, LockInv, workerVars
<1> QED
  BY <1>1, <1>2, <1>3, <1>4, <1>5, <1>6, <1>7, <1>8, <1>9, <1>10, <1>11,
     <1>12, <1>13, <1>14, <1>15, <1>16, <1>17, <1>18, <1>19, <1>20, <1>21,
     <1>22, <1>23, <1>24, <1>25, <1>26, <1>27, <1>28, <1>29, <1>30, <1>31,
     <1>32, <1>33, <1>34
  DEF Next, MainStep, WorkerStep, Finished

(* Start-up and the end of the process threads.                            *)
LEMMA GoThread ==
  ASSUME TypeOK, NEW t \in Threads, NEW here, NEW there, Go(t, here, there)
  PROVE  /\ wpc[t] = here
         /\ \A u \in Threads : wpc'[u] = IF u = t THEN there ELSE wpc[u]
BY DEF TypeOK, Go

(* A process thread that meets the end marker has done everything.         *)
LEMMA EndMarker ==
  ASSUME IInv, NEW t \in Threads, ~keep[Here(t)]
  PROVE  terminate /\ numprocessed[t] = numreceived
<1>1. /\ numprocessed[t] \in Int /\ numreceived \in Int
      /\ numprocessed[t] <= numreceived
      /\ numreceived < numprocessed[t] + RING
  <2>1. numprocessed[t] \in Int /\ numreceived \in Int
    BY BoundAssumption DEF IInv, TypeOK
  <2>2. numprocessed[t] <= numreceived /\ numprocessed[t] >= numreceived - RING + 1
    BY DEF IInv, PositionInv
  <2> QED
    BY <2>1, <2>2, RingFacts
<1>2. Here(t) \in Slots
  BY <1>1, SlotType DEF Here
<1>3. terminate /\ Here(t) = Index
  BY <1>2 DEF IInv, DataInv
<1>4. ~(numprocessed[t] < numreceived)
  BY <1>1, <1>3, SlotInjective DEF Here, Index
<1> QED
  BY <1>1, <1>3, <1>4

LEMMA ThreadsPreserved == ASSUME IInv, [Next]_vars, TypeOK' PROVE ThreadInv'
<1> USE RingFacts
    DEF Filling, StartUp, Swapping, Ending, Running
<1>0. TypeOK /\ MainInv /\ ThreadInv
  BY DEF IInv
<1>i. /\ numreceived \in Nat /\ i \in Int /\ i \in Threads
      /\ 0 <= i /\ i <= NumThreads - 1 /\ NumThreads \in Nat
  BY <1>0, ThreadsAssumption, BoundAssumption DEF TypeOK, Threads
<1>t. \A t \in Threads : t \in Int /\ 0 <= t /\ t <= NumThreads - 1
  BY <1>i DEF Threads
<1>1. CASE LockFirst
  BY <1>0, <1>i, <1>t, <1>1
  DEF LockFirst, Iterate, LastIteration, ThreadInv, workerVars, MainInv
<1>2. CASE ReceiveData
  BY <1>0, <1>i, <1>t, <1>2
  DEF ReceiveData, Iterate, LastIteration, ThreadInv, workerVars, MainInv
<1>3. CASE LockNext
  BY <1>0, <1>i, <1>t, <1>3
  DEF LockNext, Iterate, LastIteration, ThreadInv, workerVars, MainInv
<1>4. CASE UnlockThis
  BY <1>0, <1>i, <1>t, <1>4
  DEF UnlockThis, Iterate, LastIteration, ThreadInv, workerVars, MainInv
<1>5. CASE SwapUnlock
  BY <1>0, <1>i, <1>t, <1>5
  DEF SwapUnlock, Iterate, LastIteration, ThreadInv, workerVars, MainInv
<1>6. CASE SwapLock
  BY <1>0, <1>i, <1>t, <1>6
  DEF SwapLock, Iterate, LastIteration, ThreadInv, workerVars, MainInv
<1>7. CASE LockSecond
  BY <1>0, <1>i, <1>t, <1>7
  DEF LockSecond, Iterate, LastIteration, ThreadInv, workerVars, MainInv
<1>8. CASE Launch
  <2>1. UNCHANGED <<numprocessed, initialised, terminate, numreceived>>
    BY <1>8 DEF Launch
  <2>2. \A u \in Threads : wpc'[u] = IF u = i THEN "start" ELSE wpc[u]
    BY <1>0, <1>8 DEF Launch, TypeOK
  <2>3. mpc = "launch" /\ ~launched /\ wpc[i] = "none"
    BY <1>0, <1>i, <1>8 DEF Launch, Iterate, ThreadInv, MainInv
  <2>4. \/ i' = 0 /\ mpc' = "waitinit" /\ i = NumThreads - 1 /\ launched'
        \/ i' = i + 1 /\ mpc' = "launch" /\ ~launched'
    BY <1>i, <1>8, <2>3 DEF Launch, Iterate, LastIteration
  <2> QED
    BY <1>0, <1>i, <1>t, <2>1, <2>2, <2>3, <2>4 DEF ThreadInv
<1>9. CASE SeeInitialised
  BY <1>0, <1>i, <1>t, <1>9
  DEF SeeInitialised, Iterate, LastIteration, ThreadInv, workerVars, MainInv
<1>10. CASE SeeUninitialised
  BY <1>0, <1>i, <1>t, <1>10
  DEF SeeUninitialised, Iterate, LastIteration, ThreadInv, workerVars, MainInv
<1>11. CASE CondWait
  BY <1>0, <1>i, <1>t, <1>11
  DEF CondWait, Iterate, LastIteration, ThreadInv, workerVars, MainInv
<1>12. CASE CondWake
  BY <1>0, <1>i, <1>t, <1>12
  DEF CondWake, Iterate, LastIteration, ThreadInv, workerVars, MainInv
<1>13. CASE UnlockSecond
  BY <1>0, <1>i, <1>t, <1>13
  DEF UnlockSecond, Iterate, LastIteration, ThreadInv, workerVars, MainInv
<1>14. CASE SendResults
  BY <1>0, <1>i, <1>t, <1>14
  DEF SendResults, Iterate, LastIteration, ThreadInv, workerVars, MainInv
<1>15. CASE ShutUnlock
  BY <1>0, <1>i, <1>t, <1>15
  DEF ShutUnlock, Iterate, LastIteration, ThreadInv, workerVars, MainInv
<1>16. CASE DrainLock
  BY <1>0, <1>i, <1>t, <1>16
  DEF DrainLock, Iterate, LastIteration, ThreadInv, workerVars, MainInv
<1>17. CASE DrainSend
  BY <1>0, <1>i, <1>t, <1>17
  DEF DrainSend, Iterate, LastIteration, ThreadInv, workerVars, MainInv
<1>18. CASE Join
  BY <1>0, <1>i, <1>t, <1>18
  DEF Join, Iterate, LastIteration, ThreadInv, workerVars, MainInv
<1>19. CASE QuietExit
  BY <1>0, <1>i, <1>t, <1>19
  DEF QuietExit, Iterate, LastIteration, ThreadInv, workerVars, MainInv
<1>20. ASSUME NEW c \in Configs, ReceiveTime(c) PROVE ThreadInv'
  BY <1>0, <1>i, <1>t, <1>20
  DEF ReceiveTime, Iterate, LastIteration, ThreadInv, workerVars, MainInv
<1>21. CASE ReceiveTerminate
  BY <1>0, <1>i, <1>t, <1>21
  DEF ReceiveTerminate, AfterFill, ThreadInv, workerVars, MainInv
<1>22. CASE SpuriousWakeup
  BY <1>0, <1>i, <1>t, <1>22
  DEF SpuriousWakeup, mainVars, workerVars, ThreadInv
<1>23. ASSUME NEW t \in Threads, Start(t) PROVE ThreadInv'
  <2>1. UNCHANGED mainVars /\ UNCHANGED initialised
    BY <1>23 DEF Start
  <2>2. /\ wpc[t] = "start"
        /\ \A u \in Threads : wpc'[u] = IF u = t THEN "lockzero" ELSE wpc[u]
    BY <1>0, <1>23, GoThread DEF Start
  <2>3. \A u \in Threads : numprocessed'[u] = numprocessed[u]
    BY <1>0, <1>23 DEF Start, TypeOK
  <2> QED
    BY <1>0, <2>1, <2>2, <2>3 DEF mainVars, ThreadInv
<1>24. ASSUME NEW t \in Threads, LockZero(t) PROVE ThreadInv'
  <2>1. UNCHANGED mainVars /\ UNCHANGED initialised
    BY <1>24 DEF LockZero
  <2>2. /\ wpc[t] = "lockzero"
        /\ \A u \in Threads : wpc'[u] = IF u = t THEN "unlockend" ELSE wpc[u]
    BY <1>0, <1>24, GoThread DEF LockZero
  <2>3. \A u \in Threads : numprocessed'[u] = numprocessed[u]
    BY <1>0, <1>24 DEF LockZero, TypeOK
  <2> QED
    BY <1>0, <2>1, <2>2, <2>3 DEF mainVars, ThreadInv
<1>25. ASSUME NEW t \in Threads, UnlockEnd(t) PROVE ThreadInv'
  <2>1. UNCHANGED mainVars /\ UNCHANGED initialised
    BY <1>25 DEF UnlockEnd
  <2>2. /\ wpc[t] = "unlockend"
        /\ \A u \in Threads : wpc'[u] = IF u = t THEN "init" ELSE wpc[u]
    BY <1>0, <1>25, GoThread DEF UnlockEnd
  <2>3. \A u \in Threads : numprocessed'[u] = numprocessed[u]
    BY <1>0, <1>25 DEF UnlockEnd, TypeOK
  <2> QED
    BY <1>0, <2>1, <2>2, <2>3 DEF mainVars, ThreadInv
<1>26. ASSUME NEW t \in Threads, SetInitialised(t) PROVE ThreadInv'
  <2>1. UNCHANGED mainVars
    BY <1>26 DEF SetInitialised
  <2>2. /\ wpc[t] = "init"
        /\ \A u \in Threads : wpc'[u] = IF u = t THEN "signal" ELSE wpc[u]
    BY <1>0, <1>26, GoThread DEF SetInitialised
  <2>3. \A u \in Threads : numprocessed'[u] = numprocessed[u]
    BY <1>0, <1>26 DEF SetInitialised, TypeOK
  <2>4. \A u \in Threads : initialised'[u] = IF u = t THEN TRUE ELSE initialised[u]
    BY <1>0, <1>26 DEF SetInitialised, TypeOK
  <2> QED
    BY <1>0, <2>1, <2>2, <2>3, <2>4 DEF mainVars, ThreadInv
<1>27. ASSUME NEW t \in Threads, Signal(t) PROVE ThreadInv'
  <2>1. UNCHANGED mainVars /\ UNCHANGED initialised
    BY <1>27 DEF Signal
  <2>2. /\ wpc[t] = "signal"
        /\ \A u \in Threads : wpc'[u] = IF u = t THEN "check" ELSE wpc[u]
    BY <1>0, <1>27, GoThread DEF Signal
  <2>3. \A u \in Threads : numprocessed'[u] = numprocessed[u]
    BY <1>0, <1>27 DEF Signal, TypeOK
  <2> QED
    BY <1>0, <2>1, <2>2, <2>3 DEF mainVars, ThreadInv
<1>28. ASSUME NEW t \in Threads, Check(t) PROVE ThreadInv'
  <2>1. UNCHANGED mainVars /\ UNCHANGED <<numprocessed, initialised>>
    BY <1>28 DEF Check
  <2>2. /\ wpc[t] = "check"
        /\ \A u \in Threads : u # t => wpc'[u] = wpc[u]
    BY <1>0, <1>28 DEF Check, TypeOK
  <2>3. wpc'[t] = IF keep[Here(t)] THEN "work" ELSE "exitunlock"
    BY <1>0, <1>28 DEF Check, TypeOK
  <2>4. wpc'[t] = "exitunlock" => terminate /\ numprocessed[t] = numreceived
    BY <1>28, <2>3, EndMarker
  <2> QED
    BY <1>0, <2>1, <2>2, <2>3, <2>4 DEF mainVars, ThreadInv
<1>29. ASSUME NEW t \in Threads, Work(t) PROVE ThreadInv'
  <2>1. UNCHANGED mainVars /\ UNCHANGED initialised
    BY <1>29 DEF Work
  <2>2. /\ wpc[t] = "work"
        /\ \A u \in Threads : wpc'[u] = IF u = t THEN "locknext" ELSE wpc[u]
    BY <1>0, <1>29, GoThread DEF Work
  <2>3. \A u \in Threads : numprocessed'[u] = numprocessed[u]
    BY <1>0, <1>29 DEF Work, TypeOK
  <2> QED
    BY <1>0, <2>1, <2>2, <2>3 DEF mainVars, ThreadInv
<1>30. ASSUME NEW t \in Threads, WorkerLockNext(t) PROVE ThreadInv'
  <2>1. UNCHANGED mainVars /\ UNCHANGED initialised
    BY <1>30 DEF WorkerLockNext
  <2>2. /\ wpc[t] = "locknext"
        /\ \A u \in Threads : wpc'[u] = IF u = t THEN "unlockcur" ELSE wpc[u]
    BY <1>0, <1>30, GoThread DEF WorkerLockNext
  <2>3. \A u \in Threads : numprocessed'[u] = numprocessed[u]
    BY <1>0, <1>30 DEF WorkerLockNext, TypeOK
  <2> QED
    BY <1>0, <2>1, <2>2, <2>3 DEF mainVars, ThreadInv
<1>31. ASSUME NEW t \in Threads, WorkerUnlock(t) PROVE ThreadInv'
  <2>1. UNCHANGED mainVars /\ UNCHANGED initialised
    BY <1>31 DEF WorkerUnlock
  <2>2. /\ wpc[t] = "unlockcur"
        /\ \A u \in Threads : wpc'[u] = IF u = t THEN "check" ELSE wpc[u]
    BY <1>0, <1>31, GoThread DEF WorkerUnlock
  <2>3. \A u \in Threads : u # t => numprocessed'[u] = numprocessed[u]
    BY <1>0, <1>31 DEF WorkerUnlock, TypeOK
  <2> QED
    BY <1>0, <2>1, <2>2, <2>3 DEF mainVars, ThreadInv
<1>32. ASSUME NEW t \in Threads, ExitUnlock(t) PROVE ThreadInv'
  <2>1. UNCHANGED mainVars /\ UNCHANGED initialised
    BY <1>32 DEF ExitUnlock
  <2>2. /\ wpc[t] = "exitunlock"
        /\ \A u \in Threads : wpc'[u] = IF u = t THEN "teardown" ELSE wpc[u]
    BY <1>0, <1>32, GoThread DEF ExitUnlock
  <2>3. \A u \in Threads : numprocessed'[u] = numprocessed[u]
    BY <1>0, <1>32 DEF ExitUnlock, TypeOK
  <2> QED
    BY <1>0, <2>1, <2>2, <2>3 DEF mainVars, ThreadInv
<1>33. ASSUME NEW t \in Threads, Teardown(t) PROVE ThreadInv'
  <2>1. UNCHANGED mainVars /\ UNCHANGED initialised
    BY <1>33 DEF Teardown
  <2>2. /\ wpc[t] = "teardown"
        /\ \A u \in Threads : wpc'[u] = IF u = t THEN "exit" ELSE wpc[u]
    BY <1>0, <1>33, GoThread DEF Teardown
  <2>3. \A u \in Threads : numprocessed'[u] = numprocessed[u]
    BY <1>0, <1>33 DEF Teardown, TypeOK
  <2> QED
    BY <1>0, <2>1, <2>2, <2>3 DEF mainVars, ThreadInv
<1>34. CASE UNCHANGED vars
  BY <1>0, <1>34 DEF vars, mainVars, workerVars, ThreadInv
<1> QED
  BY <1>1, <1>2, <1>3, <1>4, <1>5, <1>6, <1>7, <1>8, <1>9, <1>10, <1>11,
     <1>12, <1>13, <1>14, <1>15, <1>16, <1>17, <1>18, <1>19, <1>20, <1>21,
     <1>22, <1>23, <1>24, <1>25, <1>26, <1>27, <1>28, <1>29, <1>30, <1>31,
     <1>32, <1>33, <1>34
  DEF Next, MainStep, WorkerStep, Finished

(* Positions: what a process thread holds keeps the main thread behind it. *)
LEMMA Positions ==
  ASSUME IInv, NEW t \in Threads
  PROVE  /\ numprocessed[t] \in Nat /\ numreceived \in Nat
         /\ numprocessed[t] <= numreceived
         /\ numprocessed[t] >= numreceived - RING + 1
         /\ Here(t) \in Slots /\ Ahead(t) \in Slots
<1>1. numprocessed[t] \in Nat /\ numreceived \in Nat
  BY BoundAssumption DEF IInv, TypeOK
<1>2. numprocessed[t] <= numreceived /\ numprocessed[t] >= numreceived - RING + 1
  BY DEF IInv, PositionInv
<1> QED
  BY <1>1, <1>2, SlotType DEF Here, Ahead

LEMMA RunningHolds ==
  ASSUME IInv, NEW t \in Threads, initialised[t]
  PROVE  \/ locks[Here(t)][t] = Worker
         \/ /\ wpc[t] \in {"teardown", "exit"}
            /\ terminate /\ numprocessed[t] = numreceived
<1>1. Here(t) \in Slots
  BY Positions
<1>2. wpc[t] \in Running
  BY DEF IInv, ThreadInv
<1>3. CASE wpc[t] \in {"teardown", "exit"}
  BY <1>3 DEF IInv, ThreadInv
<1>4. CASE wpc[t] \notin {"teardown", "exit"}
  <2>1. WorkerHolds(Here(t), t)
    BY <1>2, <1>4 DEF Running, WorkerHolds
  <2> QED
    BY <2>1, <1>1 DEF IInv, LockInv
<1> QED
  BY <1>3, <1>4

(* The slot the shutdown sequence is at is the next one to be sent.        *)
LEMMA DrainPosition ==
  ASSUME IInv, mpc \in Draining
  PROVE  /\ Len(sent) \in Nat /\ DrainSlot = Slot(Len(sent))
         /\ numreceived - RING < Len(sent) /\ Len(sent) < numreceived
<1>1. numreceived \in Nat /\ drained \in Nat /\ drained < Countdown
  BY BoundAssumption DEF IInv, TypeOK, MainInv, Draining
<1>2. Len(sent) = (IF numreceived < Last THEN 0 ELSE numreceived - RING + 1)
                    + drained
  <2>1. Len(sent) = (IF numreceived < Last THEN 0 ELSE numreceived - RING + 1)
                     + drained - (IF mpc = "send" THEN 1 ELSE 0)
    BY DEF IInv, SentInv, Draining
  <2> QED
    BY <2>1, <1>1, RingFacts DEF Draining
<1>l. Len(sent) \in Int
  BY <1>1, <1>2, RingFacts
<1>3. Slot(Len(sent) + RING) = Slot(Len(sent))
  BY <1>l, SlotShift
<1>4. DrainSlot = Slot(Len(sent) + RING)
  BY <1>l, <1>1, <1>2, RingFacts DEF DrainSlot, Adjust, ShortJob
<1> QED
  BY <1>l, <1>1, <1>2, <1>3, <1>4, RingFacts DEF Countdown, ShortJob

(* Main never holds a mutex of a slot that a process thread holds.         *)
LEMMA Disjoint ==
  ASSUME LockInv, NEW s \in Slots, NEW t \in Threads
  PROVE  ~(MainHolds(s, t) /\ WorkerHolds(s, t))
BY DEF LockInv, Main, Worker

(* A process thread that goes on to work has a slot that was received.     *)
LEMMA CheckedPosition ==
  ASSUME IInv, NEW t \in Threads, wpc[t] = "check", keep[Here(t)]
  PROVE  \/ numprocessed[t] < numreceived
         \/ mpc = "unlockthis" /\ t < i
<1> SUFFICES ASSUME numprocessed[t] = numreceived,
                    ~(mpc = "unlockthis" /\ t < i)
             PROVE  FALSE
  BY Positions
<1>1. Here(t) = Index /\ Index \in Slots /\ numreceived \in Nat
  BY Positions DEF Here, Index
<1>2. ~terminate
  BY <1>1 DEF IInv, DataInv
<1>3. WorkerHolds(Index, t) /\ ~MainHolds(Index, t)
  <2>1. WorkerHolds(Index, t)
    BY <1>1 DEF WorkerHolds
  <2> QED
    BY <2>1, <1>1, Disjoint DEF IInv
<1>4. mpc \in Filling \cup StartUp
  <2>1. mpc \in StartUp \cup Filling \cup Ending \cup {"done"}
    BY DEF IInv, ThreadInv
  <2> QED
    BY <1>2, <2>1 DEF IInv, MainInv
<1>5. CASE mpc \in Filling
  <2>1. mpc # "lockfirst"
    BY DEF IInv, ThreadInv, MainInv
  <2>2. i \in Int /\ t \in Int
    BY ThreadsAssumption DEF IInv, TypeOK, Threads
  <2> QED
    BY <1>3, <1>5, <2>1, <2>2 DEF Filling, MainHolds
<1>6. CASE mpc \in StartUp
  <2>1. numreceived = Last
    BY <1>2, <1>6 DEF IInv, MainInv
  <2>2. mpc = "unlocksecond"
    BY <1>6, <2>1, RingFacts DEF IInv, PositionInv
  <2>3. Index = Last
    BY <2>1, RingFacts, SlotSmall DEF Index
  <2> QED
    BY <1>3, <2>2, <2>3 DEF MainHolds
<1> QED
  BY <1>4, <1>5, <1>6

LEMMA PositionsPreserved == ASSUME IInv, [Next]_vars, TypeOK' PROVE PositionInv'
<1> USE RingFacts
    DEF Filling, StartUp, Draining, Ending, Swapping
<1>0. TypeOK /\ MainInv /\ ThreadInv /\ PositionInv
  BY DEF IInv
<1>i. /\ numreceived \in Nat /\ i \in Int /\ i \in Threads
      /\ 0 <= i /\ i <= NumThreads - 1 /\ NumThreads \in Nat
  BY <1>0, ThreadsAssumption, BoundAssumption DEF TypeOK, Threads
<1>t. \A t \in Threads : /\ t \in Int /\ 0 <= t /\ t <= NumThreads - 1
                         /\ numprocessed[t] \in Nat
  <2>1. \A t \in Threads : numprocessed[t] \in Nat
    BY <1>0 DEF TypeOK
  <2>2. \A t \in Threads : t \in Int /\ 0 <= t /\ t <= NumThreads - 1
    BY <1>i DEF Threads
  <2> QED
    BY <2>1, <2>2
<1>l. Len(sent) \in Nat
  BY <1>0 DEF TypeOK
<1>n. \A t \in Threads : ~launched /\ mpc # "launch" =>
        wpc[t] = "none" /\ numprocessed[t] = 0
  BY <1>0 DEF ThreadInv, Running
<1>w. \A t \in Threads : wpc[t] = "none" => numprocessed[t] = 0
  BY <1>0 DEF ThreadInv, Running
<1>1. CASE LockFirst
  BY <1>0, <1>i, <1>t, <1>l, <1>n, <1>1
  DEF LockFirst, Iterate, LastIteration, PositionInv, workerVars, MainInv
<1>2. CASE ReceiveData
  BY <1>0, <1>i, <1>t, <1>l, <1>n, <1>2
  DEF ReceiveData, Iterate, LastIteration, PositionInv, workerVars, MainInv
<1>3. CASE LockNext
  <2>1. UNCHANGED <<wpc, numprocessed, numreceived, launched, sent>> /\ mpc = "locknext"
    BY <1>3 DEF LockNext, Iterate, workerVars
  <2>2. launched => numprocessed[i] >= numreceived - RING + 2
    <3> SUFFICES ASSUME launched, numprocessed[i] = numreceived - RING + 1
                 PROVE  FALSE
      BY <1>0, <1>i, <1>t DEF PositionInv
    <3>1. initialised[i] /\ ~terminate
      BY <1>0, <1>i, <2>1 DEF ThreadInv, MainInv
    <3>2. locks[Here(i)][i] = Worker
      BY <1>i, <3>1, RunningHolds
    <3>3. Slot(numprocessed[i] + RING) = Slot(numprocessed[i])
      BY <1>i, <1>t, SlotShift
    <3>4. numprocessed[i] + RING = numreceived + 1
      BY <1>i, <1>t
    <3>5. Here(i) = Slot(numreceived + 1)
      BY <3>3, <3>4 DEF Here
    <3> QED
      BY <1>3, <3>2, <3>5 DEF LockNext, Acquire, Free, Worker
  <2>3. \/ i' = 0 /\ mpc' = "unlockthis" /\ i = NumThreads - 1
        \/ i' = i + 1 /\ mpc' = "locknext"
    BY <1>0, <1>i, <1>3 DEF LockNext, Iterate, LastIteration
  <2>4. \A t \in Threads : launched /\ (t < i' \/ mpc' = "unlockthis") =>
          numprocessed[t] >= numreceived - RING + 2
    BY <1>0, <1>i, <1>t, <2>1, <2>2, <2>3 DEF PositionInv
  <2>5. mpc' \in {"locknext", "unlockthis"}
    BY <2>3
  <2>6. \A t \in Threads : /\ numprocessed'[t] = numprocessed[t]
                           /\ wpc'[t] = wpc[t]
                           /\ wpc[t] \in {"work", "locknext"} => numprocessed[t] < numreceived
    BY <1>0, <2>1 DEF PositionInv
  <2>7. numreceived' = numreceived /\ launched' = launched
    BY <2>1
  <2>8. \A t \in Threads :
          /\ numprocessed[t] <= numreceived
          /\ numprocessed[t] >= numreceived - RING + 1
          /\ wpc[t] = "unlockcur" => numprocessed[t] < numreceived
    BY <1>0 DEF PositionInv
  <2> QED
    BY <2>4, <2>5, <2>6, <2>7, <2>8 DEF PositionInv
<1>4. CASE UnlockThis
  BY <1>0, <1>i, <1>t, <1>l, <1>n, <1>4, SMTT(60)
  DEF UnlockThis, Iterate, LastIteration, PositionInv, workerVars, MainInv
<1>5. CASE SwapUnlock
  BY <1>0, <1>i, <1>t, <1>l, <1>n, <1>5
  DEF SwapUnlock, Iterate, LastIteration, PositionInv, workerVars, MainInv
<1>6. CASE SwapLock
  BY <1>0, <1>i, <1>t, <1>l, <1>n, <1>6
  DEF SwapLock, Iterate, LastIteration, PositionInv, workerVars, MainInv
<1>7. CASE LockSecond
  BY <1>0, <1>i, <1>t, <1>l, <1>n, <1>7
  DEF LockSecond, Iterate, LastIteration, PositionInv, workerVars, MainInv
<1>8. CASE Launch
  <2>1. UNCHANGED <<numprocessed, numreceived, sent>>
    BY <1>8 DEF Launch
  <2>2. \A u \in Threads : wpc'[u] = IF u = i THEN "start" ELSE wpc[u]
    BY <1>0, <1>8 DEF Launch, TypeOK
  <2>3. mpc = "launch" /\ mpc' \in {"launch", "waitinit"}
    BY <1>8 DEF Launch, Iterate
  <2> QED
    BY <1>0, <1>i, <1>t, <2>1, <2>2, <2>3 DEF PositionInv
<1>9. CASE SeeInitialised
  BY <1>0, <1>i, <1>t, <1>l, <1>n, <1>9
  DEF SeeInitialised, Iterate, LastIteration, PositionInv, workerVars, MainInv
<1>10. CASE SeeUninitialised
  BY <1>0, <1>i, <1>t, <1>l, <1>n, <1>10
  DEF SeeUninitialised, Iterate, LastIteration, PositionInv, workerVars,
      MainInv
<1>11. CASE CondWait
  BY <1>0, <1>i, <1>t, <1>l, <1>n, <1>11
  DEF CondWait, Iterate, LastIteration, PositionInv, workerVars, MainInv
<1>12. CASE CondWake
  BY <1>0, <1>i, <1>t, <1>l, <1>n, <1>12
  DEF CondWake, Iterate, LastIteration, PositionInv, workerVars, MainInv
<1>13. CASE UnlockSecond
  BY <1>0, <1>i, <1>t, <1>l, <1>n, <1>13
  DEF UnlockSecond, Iterate, LastIteration, PositionInv, workerVars, MainInv
<1>14. CASE SendResults
  BY <1>0, <1>i, <1>t, <1>l, <1>n, <1>14
  DEF SendResults, Iterate, LastIteration, PositionInv, workerVars, MainInv
<1>15. CASE ShutUnlock
  <2>1. UNCHANGED <<wpc, numprocessed, numreceived, launched, drained, sent>>
    BY <1>15 DEF ShutUnlock, workerVars
  <2>2. mpc = "shutunlock" /\ drained = 0
    BY <1>0, <1>15 DEF ShutUnlock, Iterate, MainInv
  <2>3. Len(sent) = IF numreceived < Last THEN 0 ELSE numreceived - RING + 1
    <3>1. Len(sent) = (IF numreceived < Last THEN 0 ELSE numreceived - RING + 1)
                       + drained - (IF mpc = "send" THEN 1 ELSE 0)
      BY <2>2 DEF IInv, SentInv
    <3> QED
      BY <1>i, <2>2, <3>1
  <2>4. \/ i' = 0 /\ mpc' = "drainlock"
        \/ mpc' = "shutunlock"
    BY <1>0, <1>i, <1>15 DEF ShutUnlock, Iterate, LastIteration
  <2> QED
    BY <1>0, <1>i, <1>t, <1>l, <2>1, <2>2, <2>3, <2>4, SMTT(30) DEF PositionInv
<1>16. CASE DrainLock
  <2>1. UNCHANGED <<wpc, numprocessed, numreceived, launched, sent>> /\ mpc = "drainlock"
    BY <1>16 DEF DrainLock, Iterate, workerVars
  <2>2. numprocessed[i] > Len(sent)
    <3> SUFFICES ASSUME numprocessed[i] = Len(sent) PROVE FALSE
      BY <1>0, <1>i, <1>t, <1>l, <2>1 DEF PositionInv
    <3>1. /\ DrainSlot = Slot(Len(sent)) /\ Len(sent) < numreceived
      BY <2>1, DrainPosition
    <3>2. initialised[i]
      BY <1>0, <1>i, <2>1 DEF ThreadInv
    <3>3. locks[Here(i)][i] = Worker
      BY <1>i, <1>l, <3>1, <3>2, RunningHolds
    <3> QED
      BY <1>16, <3>1, <3>3 DEF DrainLock, Here, Free, Worker
  <2>3. \/ i' = 0 /\ mpc' = "drainsend" /\ i = NumThreads - 1
        \/ i' = i + 1 /\ mpc' = "drainlock"
    BY <1>0, <1>i, <1>16 DEF DrainLock, Iterate, LastIteration
  <2>4. \A t \in Threads : t < i' \/ mpc' = "drainsend" =>
          numprocessed[t] > Len(sent)
    BY <1>0, <1>i, <1>t, <1>l, <2>1, <2>2, <2>3, SMTT(30) DEF PositionInv
  <2> QED
    BY <1>0, <1>i, <1>t, <1>l, <2>1, <2>3, <2>4, SMTT(30) DEF PositionInv
<1>17. CASE DrainSend
  <2>1. UNCHANGED <<i, wpc, numprocessed, numreceived, launched>>
    BY <1>17 DEF DrainSend, workerVars
  <2>2. mpc = "drainsend" /\ mpc' \in {"join", "drainlock"} /\ i = 0
    BY <1>0, <1>17 DEF DrainSend, MainInv
  <2>3. DrainSlot \in Slots /\ Len(sent') = Len(sent) + 1
    <3>1. DrainSlot \in Slots
      BY <2>2, DrainPosition, SlotType
    <3>2. results[DrainSlot] \in [Threads -> Seq(Int)]
      BY <1>0, <3>1 DEF TypeOK
    <3>3. sent \in Seq([Threads -> Seq(Int)])
      BY <1>0 DEF TypeOK
    <3> QED
      BY <1>17, <3>1, <3>2, <3>3 DEF DrainSend
  <2> QED
    BY <1>0, <1>i, <1>t, <1>l, <2>1, <2>2, <2>3, SMTT(30) DEF PositionInv
<1>18. CASE Join
  BY <1>0, <1>i, <1>t, <1>l, <1>n, <1>18
  DEF Join, Iterate, LastIteration, PositionInv, workerVars, MainInv
<1>19. CASE QuietExit
  BY <1>0, <1>i, <1>t, <1>l, <1>n, <1>19
  DEF QuietExit, Iterate, LastIteration, PositionInv, workerVars, MainInv
<1>20. ASSUME NEW c \in Configs, ReceiveTime(c) PROVE PositionInv'
  BY <1>0, <1>i, <1>t, <1>l, <1>n, <1>20
  DEF ReceiveTime, Iterate, LastIteration, PositionInv, workerVars, MainInv
<1>21. CASE ReceiveTerminate
  BY <1>0, <1>i, <1>t, <1>l, <1>n, <1>21
  DEF ReceiveTerminate, AfterFill, PositionInv, workerVars, MainInv
<1>22. CASE SpuriousWakeup
  BY <1>0, <1>i, <1>t, <1>l, <1>n, <1>22
  DEF SpuriousWakeup, mainVars, workerVars, PositionInv
<1>23. ASSUME NEW t \in Threads, Start(t) PROVE PositionInv'
  <2>1. UNCHANGED mainVars /\ UNCHANGED <<numprocessed, sent>>
    BY <1>23 DEF Start
  <2>2. /\ wpc[t] = "start"
        /\ \A u \in Threads : wpc'[u] = IF u = t THEN "lockzero" ELSE wpc[u]
    BY <1>0, <1>23, GoThread DEF Start
  <2> QED
    BY <1>0, <2>1, <2>2 DEF mainVars, PositionInv
<1>24. ASSUME NEW t \in Threads, LockZero(t) PROVE PositionInv'
  <2>1. UNCHANGED mainVars /\ UNCHANGED <<numprocessed, sent>>
    BY <1>24 DEF LockZero
  <2>2. /\ wpc[t] = "lockzero"
        /\ \A u \in Threads : wpc'[u] = IF u = t THEN "unlockend" ELSE wpc[u]
    BY <1>0, <1>24, GoThread DEF LockZero
  <2> QED
    BY <1>0, <2>1, <2>2 DEF mainVars, PositionInv
<1>25. ASSUME NEW t \in Threads, UnlockEnd(t) PROVE PositionInv'
  <2>1. UNCHANGED mainVars /\ UNCHANGED <<numprocessed, sent>>
    BY <1>25 DEF UnlockEnd
  <2>2. /\ wpc[t] = "unlockend"
        /\ \A u \in Threads : wpc'[u] = IF u = t THEN "init" ELSE wpc[u]
    BY <1>0, <1>25, GoThread DEF UnlockEnd
  <2> QED
    BY <1>0, <2>1, <2>2 DEF mainVars, PositionInv
<1>26. ASSUME NEW t \in Threads, SetInitialised(t) PROVE PositionInv'
  <2>1. UNCHANGED mainVars /\ UNCHANGED <<numprocessed, sent>>
    BY <1>26 DEF SetInitialised
  <2>2. /\ wpc[t] = "init"
        /\ \A u \in Threads : wpc'[u] = IF u = t THEN "signal" ELSE wpc[u]
    BY <1>0, <1>26, GoThread DEF SetInitialised
  <2> QED
    BY <1>0, <2>1, <2>2 DEF mainVars, PositionInv
<1>27. ASSUME NEW t \in Threads, Signal(t) PROVE PositionInv'
  <2>1. UNCHANGED mainVars /\ UNCHANGED <<numprocessed, sent>>
    BY <1>27 DEF Signal
  <2>2. /\ wpc[t] = "signal"
        /\ \A u \in Threads : wpc'[u] = IF u = t THEN "check" ELSE wpc[u]
    BY <1>0, <1>27, GoThread DEF Signal
  <2> QED
    BY <1>0, <2>1, <2>2 DEF mainVars, PositionInv
<1>28. ASSUME NEW t \in Threads, Check(t) PROVE PositionInv'
  <2>1. UNCHANGED mainVars /\ UNCHANGED <<numprocessed, sent>>
    BY <1>28 DEF Check
  <2>2. /\ wpc[t] = "check"
        /\ \A u \in Threads : u # t => wpc'[u] = wpc[u]
    BY <1>0, <1>28 DEF Check, TypeOK
  <2>3. wpc'[t] = IF keep[Here(t)] THEN "work" ELSE "exitunlock"
    BY <1>0, <1>28 DEF Check, TypeOK
  <2>4. wpc'[t] = "work" => \/ numprocessed[t] < numreceived
                            \/ mpc = "unlockthis" /\ t < i
    BY <1>28, <2>2, <2>3, CheckedPosition
  <2> QED
    BY <1>0, <2>1, <2>2, <2>3, <2>4 DEF mainVars, PositionInv
<1>29. ASSUME NEW t \in Threads, Work(t) PROVE PositionInv'
  <2>1. UNCHANGED mainVars /\ UNCHANGED <<numprocessed, sent>>
    BY <1>29 DEF Work
  <2>2. /\ wpc[t] = "work"
        /\ \A u \in Threads : wpc'[u] = IF u = t THEN "locknext" ELSE wpc[u]
    BY <1>0, <1>29, GoThread DEF Work
  <2> QED
    BY <1>0, <2>1, <2>2 DEF mainVars, PositionInv
<1>30. ASSUME NEW t \in Threads, WorkerLockNext(t) PROVE PositionInv'
  <2>1. UNCHANGED mainVars /\ UNCHANGED <<numprocessed, sent>>
    BY <1>30 DEF WorkerLockNext
  <2>2. /\ wpc[t] = "locknext"
        /\ \A u \in Threads : wpc'[u] = IF u = t THEN "unlockcur" ELSE wpc[u]
    BY <1>0, <1>30, GoThread DEF WorkerLockNext
  <2>3. /\ numprocessed[t] < numreceived
        /\ mpc \in StartUp /\ mpc # "unlocksecond" => numprocessed[t] + 1 < Second
    <3>1. Ahead(t) \in Slots /\ ~MainHolds(Ahead(t), t)
      <4>1. Ahead(t) \in Slots
        BY <1>30, Positions
      <4>2. locks[Ahead(t)][t] = Free
        BY <1>30 DEF WorkerLockNext, Acquire
      <4> QED
        BY <4>1, <4>2 DEF IInv, LockInv, Free, Main
    <3>2. numprocessed[t] < numreceived
      <4> SUFFICES ASSUME ~(numprocessed[t] < numreceived) PROVE FALSE
        OBVIOUS
      <4>1. mpc = "unlockthis" /\ t < i
        BY <1>0, <2>2 DEF PositionInv
      <4>2. numprocessed[t] = numreceived
        BY <1>0, <1>i, <1>t DEF PositionInv
      <4> QED
        BY <3>1, <4>1, <4>2 DEF MainHolds, Ahead
    <3>3. ASSUME mpc \in StartUp, mpc # "unlocksecond"
          PROVE  numprocessed[t] + 1 < Second
      <4>1. numprocessed[t] < Second /\ numprocessed[t] \in Nat
        BY <1>0, <1>t, <3>3 DEF PositionInv
      <4>2. mpc # "locksecond"
        BY <1>0, <2>2 DEF MainInv, ThreadInv
      <4>3. Ahead(t) # Second
        BY <3>1, <3>3, <4>2 DEF MainHolds
      <4>4. Slot(Second) = Second
        BY SlotSmall
      <4>5. numprocessed[t] + 1 # Second
        BY <4>3, <4>4 DEF Ahead
      <4> QED
        BY <4>1, <4>5
    <3> QED
      BY <3>2, <3>3
  <2> QED
    BY <1>0, <2>1, <2>2, <2>3 DEF mainVars, PositionInv
<1>31. ASSUME NEW t \in Threads, WorkerUnlock(t) PROVE PositionInv'
  <2>1. UNCHANGED mainVars /\ UNCHANGED sent
    BY <1>31 DEF WorkerUnlock
  <2>2. /\ wpc[t] = "unlockcur"
        /\ \A u \in Threads : wpc'[u] = IF u = t THEN "check" ELSE wpc[u]
    BY <1>0, <1>31, GoThread DEF WorkerUnlock
  <2>3. \A u \in Threads :
          numprocessed'[u] = IF u = t THEN numprocessed[t] + 1 ELSE numprocessed[u]
    BY <1>0, <1>31 DEF WorkerUnlock, TypeOK
  <2> QED
    BY <1>0, <1>i, <1>t, <1>l, <2>1, <2>2, <2>3, SMTT(30)
    DEF mainVars, PositionInv
<1>32. ASSUME NEW t \in Threads, ExitUnlock(t) PROVE PositionInv'
  <2>1. UNCHANGED mainVars /\ UNCHANGED <<numprocessed, sent>>
    BY <1>32 DEF ExitUnlock
  <2>2. /\ wpc[t] = "exitunlock"
        /\ \A u \in Threads : wpc'[u] = IF u = t THEN "teardown" ELSE wpc[u]
    BY <1>0, <1>32, GoThread DEF ExitUnlock
  <2> QED
    BY <1>0, <2>1, <2>2 DEF mainVars, PositionInv
<1>33. ASSUME NEW t \in Threads, Teardown(t) PROVE PositionInv'
  <2>1. UNCHANGED mainVars /\ UNCHANGED <<numprocessed, sent>>
    BY <1>33 DEF Teardown
  <2>2. /\ wpc[t] = "teardown"
        /\ \A u \in Threads : wpc'[u] = IF u = t THEN "exit" ELSE wpc[u]
    BY <1>0, <1>33, GoThread DEF Teardown
  <2> QED
    BY <1>0, <2>1, <2>2 DEF mainVars, PositionInv
<1>34. CASE UNCHANGED vars
  BY <1>0, <1>34 DEF vars, mainVars, workerVars, PositionInv
<1> QED
  BY <1>1, <1>2, <1>3, <1>4, <1>5, <1>6, <1>7, <1>8, <1>9, <1>10, <1>11,
     <1>12, <1>13, <1>14, <1>15, <1>16, <1>17, <1>18, <1>19, <1>20, <1>21,
     <1>22, <1>23, <1>24, <1>25, <1>26, <1>27, <1>28, <1>29, <1>30, <1>31,
     <1>32, <1>33, <1>34
  DEF Next, MainStep, WorkerStep, Finished

(* The data in the ring stays: only the slot main fills changes.           *)
LEMMA DataPreserved == ASSUME IInv, [Next]_vars, TypeOK' PROVE DataInv'
<1> USE RingFacts
<1>0. TypeOK /\ MainInv /\ DataInv
  BY DEF IInv
<1>i. /\ numreceived \in Nat /\ Index \in Slots
      /\ \A k \in Int : numreceived - RING < k /\ k < numreceived =>
           Slot(k) # Index
  <2>1. numreceived \in Nat
    BY <1>0, BoundAssumption DEF TypeOK
  <2> QED
    BY <2>1, SlotType, SlotInjective DEF Index
<1>1. CASE LockFirst
  <2>1. UNCHANGED <<numreceived, terminate, subint, keep>>
    BY <1>1 DEF LockFirst, slotVars
  <2>2. mpc' \in {"locknext", "unlockthis"} => mpc \in {"locknext", "unlockthis"}
    BY <1>1 DEF LockFirst, Iterate
  <2> QED
    BY <1>0, <2>1, <2>2 DEF DataInv, Index
<1>2. CASE ReceiveData
  <2>1. UNCHANGED <<numreceived, terminate, keep>>
    BY <1>2 DEF ReceiveData
  <2>2. \A s \in Slots : subint'[s] = IF s = Index THEN numreceived ELSE subint[s]
    BY <1>0, <1>2 DEF ReceiveData, TypeOK
  <2>3. \A k \in Int : 0 <= k /\ numreceived - RING < k /\ k < numreceived =>
          subint'[Slot(k)] = k
    BY <1>0, <1>i, <2>2, SlotType DEF DataInv
  <2> QED
    BY <1>0, <1>i, <2>1, <2>2, <2>3 DEF DataInv, Index
<1>3. CASE LockNext
  <2>1. UNCHANGED <<numreceived, terminate, subint, keep>>
    BY <1>3 DEF LockNext, slotVars
  <2>2. mpc' \in {"locknext", "unlockthis"} => mpc \in {"locknext", "unlockthis"}
    BY <1>3 DEF LockNext, Iterate
  <2> QED
    BY <1>0, <2>1, <2>2 DEF DataInv, Index
<1>4. CASE UnlockThis
  <2>1. UNCHANGED <<terminate, subint, keep>> /\ mpc = "unlockthis"
    BY <1>4 DEF UnlockThis, Iterate, slotVars
  <2>2. ~terminate
    BY <1>0, <2>1 DEF MainInv, Filling
  <2>3. subint[Index] = numreceived
    BY <1>0, <2>1 DEF DataInv
  <2>4. \/ numreceived' = numreceived /\ mpc' = "unlockthis"
        \/ numreceived' = numreceived + 1 /\ mpc' \notin {"locknext", "unlockthis"}
    BY <1>4 DEF UnlockThis, Iterate, LastIteration
  <2>5. \A k \in Int : /\ 0 <= k /\ numreceived' - RING < k /\ k < numreceived'
                       => subint[Slot(k)] = k
    <3> SUFFICES ASSUME NEW k \in Int, 0 <= k,
                        numreceived' - RING < k, k < numreceived'
                 PROVE  subint[Slot(k)] = k
      OBVIOUS
    <3>1. CASE k = numreceived
      BY <2>3, <3>1 DEF Index
    <3>2. CASE k # numreceived
      BY <1>0, <1>i, <2>4, <3>2 DEF DataInv
    <3> QED
      BY <3>1, <3>2
  <2>6. \A s \in Slots : keep[s]
    BY <1>0, <2>2 DEF DataInv
  <2> QED
    BY <2>1, <2>2, <2>3, <2>4, <2>5, <2>6 DEF DataInv, Index
<1>5. CASE SwapUnlock
  <2>1. UNCHANGED <<numreceived, terminate, subint, keep>>
    BY <1>5 DEF SwapUnlock, slotVars
  <2>2. mpc' \in {"locknext", "unlockthis"} => mpc \in {"locknext", "unlockthis"}
    BY <1>5 DEF SwapUnlock, Iterate
  <2> QED
    BY <1>0, <2>1, <2>2 DEF DataInv, Index
<1>6. CASE SwapLock
  <2>1. UNCHANGED <<numreceived, terminate, subint, keep>>
    BY <1>6 DEF SwapLock, slotVars
  <2>2. mpc' \in {"locknext", "unlockthis"} => mpc \in {"locknext", "unlockthis"}
    BY <1>6 DEF SwapLock, Iterate
  <2> QED
    BY <1>0, <2>1, <2>2 DEF DataInv, Index
<1>7. CASE LockSecond
  <2>1. UNCHANGED <<numreceived, terminate, subint, keep>>
    BY <1>7 DEF LockSecond, slotVars
  <2>2. mpc' \in {"locknext", "unlockthis"} => mpc \in {"locknext", "unlockthis"}
    BY <1>7 DEF LockSecond, Iterate
  <2> QED
    BY <1>0, <2>1, <2>2 DEF DataInv, Index
<1>8. CASE Launch
  <2>1. UNCHANGED <<numreceived, terminate, subint, keep>>
    BY <1>8 DEF Launch, slotVars
  <2>2. mpc' \in {"locknext", "unlockthis"} => mpc \in {"locknext", "unlockthis"}
    BY <1>8 DEF Launch, Iterate
  <2> QED
    BY <1>0, <2>1, <2>2 DEF DataInv, Index
<1>9. CASE SeeInitialised
  <2>1. UNCHANGED <<numreceived, terminate, subint, keep>>
    BY <1>9 DEF SeeInitialised, slotVars
  <2>2. mpc' \in {"locknext", "unlockthis"} => mpc \in {"locknext", "unlockthis"}
    BY <1>9 DEF SeeInitialised, Iterate
  <2> QED
    BY <1>0, <2>1, <2>2 DEF DataInv, Index
<1>10. CASE SeeUninitialised
  <2>1. UNCHANGED <<numreceived, terminate, subint, keep>>
    BY <1>10 DEF SeeUninitialised, slotVars
  <2>2. mpc' \in {"locknext", "unlockthis"} => mpc \in {"locknext", "unlockthis"}
    BY <1>10 DEF SeeUninitialised, Iterate
  <2> QED
    BY <1>0, <2>1, <2>2 DEF DataInv, Index
<1>11. CASE CondWait
  <2>1. UNCHANGED <<numreceived, terminate, subint, keep>>
    BY <1>11 DEF CondWait, slotVars
  <2>2. mpc' \in {"locknext", "unlockthis"} => mpc \in {"locknext", "unlockthis"}
    BY <1>11 DEF CondWait, Iterate
  <2> QED
    BY <1>0, <2>1, <2>2 DEF DataInv, Index
<1>12. CASE CondWake
  <2>1. UNCHANGED <<numreceived, terminate, subint, keep>>
    BY <1>12 DEF CondWake, slotVars
  <2>2. mpc' \in {"locknext", "unlockthis"} => mpc \in {"locknext", "unlockthis"}
    BY <1>12 DEF CondWake, Iterate
  <2> QED
    BY <1>0, <2>1, <2>2 DEF DataInv, Index
<1>13. CASE UnlockSecond
  <2>1. UNCHANGED <<numreceived, terminate, subint, keep>>
    BY <1>13 DEF UnlockSecond, slotVars
  <2>2. mpc' \in {"locknext", "unlockthis"} => mpc \in {"locknext", "unlockthis"}
    BY <1>13 DEF UnlockSecond, Iterate
  <2> QED
    BY <1>0, <2>1, <2>2 DEF DataInv, Index
<1>14. CASE SendResults
  <2>1. UNCHANGED <<numreceived, terminate, subint, keep>>
    BY <1>14 DEF SendResults, slotVars
  <2>2. mpc' \in {"locknext", "unlockthis"} => mpc \in {"locknext", "unlockthis"}
    BY <1>14 DEF SendResults, Iterate
  <2> QED
    BY <1>0, <2>1, <2>2 DEF DataInv, Index
<1>15. CASE ShutUnlock
  <2>1. UNCHANGED <<numreceived, terminate, subint, keep>>
    BY <1>15 DEF ShutUnlock, slotVars
  <2>2. mpc' \in {"locknext", "unlockthis"} => mpc \in {"locknext", "unlockthis"}
    BY <1>15 DEF ShutUnlock, Iterate
  <2> QED
    BY <1>0, <2>1, <2>2 DEF DataInv, Index
<1>16. CASE DrainLock
  <2>1. UNCHANGED <<numreceived, terminate, subint, keep>>
    BY <1>16 DEF DrainLock, slotVars
  <2>2. mpc' \in {"locknext", "unlockthis"} => mpc \in {"locknext", "unlockthis"}
    BY <1>16 DEF DrainLock, Iterate
  <2> QED
    BY <1>0, <2>1, <2>2 DEF DataInv, Index
<1>17. CASE DrainSend
  <2>1. UNCHANGED <<numreceived, terminate, subint, keep>>
    BY <1>17 DEF DrainSend, slotVars
  <2>2. mpc' \in {"locknext", "unlockthis"} => mpc \in {"locknext", "unlockthis"}
    BY <1>17 DEF DrainSend, Iterate
  <2> QED
    BY <1>0, <2>1, <2>2 DEF DataInv, Index
<1>18. CASE Join
  <2>1. UNCHANGED <<numreceived, terminate, subint, keep>>
    BY <1>18 DEF Join, slotVars
  <2>2. mpc' \in {"locknext", "unlockthis"} => mpc \in {"locknext", "unlockthis"}
    BY <1>18 DEF Join, Iterate
  <2> QED
    BY <1>0, <2>1, <2>2 DEF DataInv, Index
<1>19. CASE QuietExit
  <2>1. UNCHANGED <<numreceived, terminate, subint, keep>>
    BY <1>19 DEF QuietExit, slotVars
  <2>2. mpc' \in {"locknext", "unlockthis"} => mpc \in {"locknext", "unlockthis"}
    BY <1>19 DEF QuietExit, Iterate
  <2> QED
    BY <1>0, <2>1, <2>2 DEF DataInv, Index
<1>20. ASSUME NEW c \in Configs, ReceiveTime(c) PROVE DataInv'
  BY <1>0, <1>20 DEF ReceiveTime, DataInv, Index
<1>21. CASE ReceiveTerminate
  <2>1. UNCHANGED <<numreceived, subint>> /\ terminate'
    BY <1>21 DEF ReceiveTerminate
  <2>2. ~terminate
    BY <1>0, <1>21 DEF ReceiveTerminate, MainInv, Filling
  <2>3. \A s \in Slots : keep'[s] = IF s = Index THEN FALSE ELSE keep[s]
    BY <1>0, <1>21 DEF ReceiveTerminate, TypeOK
  <2>4. mpc' \notin {"locknext", "unlockthis"}
    BY <1>21 DEF ReceiveTerminate, AfterFill
  <2> QED
    BY <1>0, <2>1, <2>2, <2>3, <2>4 DEF DataInv, Index
<1>22. ASSUME NEW t \in Threads, WorkerStep(t) PROVE DataInv'
  <2>1. UNCHANGED mainVars /\ UNCHANGED slotVars
    BY <1>22 DEF WorkerStep, Start, LockZero, UnlockEnd, SetInitialised,
       Signal, Check, Work, WorkerLockNext, WorkerUnlock, ExitUnlock, Teardown
  <2> QED
    BY <1>0, <2>1 DEF mainVars, slotVars, DataInv, Index
<1>23. CASE SpuriousWakeup
  BY <1>0, <1>23 DEF SpuriousWakeup, mainVars, slotVars, DataInv, Index
<1>24. CASE UNCHANGED vars
  BY <1>0, <1>24 DEF vars, mainVars, slotVars, DataInv, Index
<1> QED
  BY <1>1, <1>2, <1>3, <1>4, <1>5, <1>6, <1>7, <1>8, <1>9, <1>10, <1>11,
     <1>12, <1>13, <1>14, <1>15, <1>16, <1>17, <1>18, <1>19, <1>20, <1>21,
     <1>22, <1>23, <1>24
  DEF Next, MainStep, Finished

(* Which subintegration a process thread reads, from the data in the ring. *)
LEMMA WorkingPosition ==
  ASSUME IInv, NEW t \in Threads, wpc[t] = "work"
  PROVE  /\ subint[Here(t)] = numprocessed[t]
         /\ mpc = "send" => numprocessed[t] < numreceived
<1>1. /\ numprocessed[t] \in Int /\ numprocessed[t] >= 0
      /\ numreceived \in Nat /\ numprocessed[t] <= numreceived
      /\ numreceived - RING < numprocessed[t]
  BY Positions, RingFacts
<1>2. \/ numprocessed[t] < numreceived
      \/ mpc = "unlockthis"
  BY DEF IInv, PositionInv
<1>3. CASE numprocessed[t] < numreceived
  BY <1>1, <1>3 DEF IInv, DataInv, Here
<1>4. CASE mpc = "unlockthis" /\ numprocessed[t] = numreceived
  BY <1>4 DEF IInv, DataInv, Here, Index
<1> QED
  BY <1>1, <1>2, <1>3, <1>4

(* Results change only by a share a process thread adds, or when main      *)
(* zeroes the slot it has sent.                                            *)
LEMMA SharesSame ==
  ASSUME NEW t \in Threads, numprocessed'[t] = numprocessed[t],
         wpc'[t] = wpc[t] \/ {wpc[t], wpc'[t]} \cap {"locknext", "unlockcur"} = {}
           \/ {wpc[t], wpc'[t]} \subseteq {"locknext", "unlockcur"}
  PROVE  \A k \in Int : SharesOf(k, t)' = SharesOf(k, t)
BY DEF SharesOf, Added

LEMMA ResultsSame ==
  ASSUME ResultInv, UNCHANGED <<numreceived, results>>,
         mpc # "send", mpc' # "send",
         \A t \in Threads, k \in Int : SharesOf(k, t)' = SharesOf(k, t)
  PROVE  ResultInv'
BY DEF ResultInv, Oldest

LEMMA ResultsPreserved == ASSUME IInv, [Next]_vars, TypeOK' PROVE ResultInv'
<1> USE RingFacts
<1>0. TypeOK /\ MainInv /\ ResultInv
  BY DEF IInv
<1>i. numreceived \in Nat /\ Index \in Slots
  <2>1. numreceived \in Nat
    BY <1>0, BoundAssumption DEF TypeOK
  <2> QED
    BY <2>1, SlotType DEF Index
<1>o. Oldest \in Int /\ \A k \in Int : Slot(k) \in Slots
  BY <1>i, SlotType DEF Oldest
<1>1. CASE LockFirst
  <2>1. UNCHANGED <<numreceived, results, numprocessed, wpc>>
    BY <1>1 DEF LockFirst, slotVars, workerVars
  <2>2. mpc # "send" /\ mpc' # "send"
    BY <1>1 DEF LockFirst, Iterate
  <2> QED
    BY <1>0, <2>1, <2>2, SharesSame, ResultsSame
<1>2. CASE ReceiveData
  <2>1. UNCHANGED <<numreceived, results, numprocessed, wpc>>
    BY <1>2 DEF ReceiveData, slotVars, workerVars
  <2>2. mpc # "send" /\ mpc' # "send"
    BY <1>2 DEF ReceiveData, Iterate
  <2> QED
    BY <1>0, <2>1, <2>2, SharesSame, ResultsSame
<1>3. CASE LockNext
  <2>1. UNCHANGED <<numreceived, results, numprocessed, wpc>>
    BY <1>3 DEF LockNext, slotVars, workerVars
  <2>2. mpc # "send" /\ mpc' # "send"
    BY <1>3 DEF LockNext, Iterate
  <2> QED
    BY <1>0, <2>1, <2>2, SharesSame, ResultsSame
<1>4. CASE UnlockThis
  <2>1. UNCHANGED <<results, numprocessed, wpc, launched>> /\ mpc = "unlockthis"
    BY <1>4 DEF UnlockThis, Iterate, workerVars
  <2>2. \A u \in Threads, k \in Int : SharesOf(k, u)' = SharesOf(k, u)
    BY <2>1, SharesSame
  <2>3. CASE ~LastIteration
    <3>1. numreceived' = numreceived /\ mpc' # "send"
      BY <1>4, <2>3 DEF UnlockThis, Iterate, LastIteration
    <3> QED
      BY <1>0, <2>1, <2>2, <3>1, ResultsSame
  <2>4. CASE LastIteration /\ launched
    <3>1. numreceived' = numreceived + 1 /\ mpc' = "send"
      BY <1>4, <2>4 DEF UnlockThis, Iterate, LastIteration
    <3>2. Oldest' = Oldest
      BY <1>i, <2>1, <3>1 DEF Oldest
    <3> QED
      BY <1>0, <2>1, <2>2, <3>2 DEF ResultInv
  <2>5. CASE LastIteration /\ ~launched
    <3>1. numreceived' = numreceived + 1 /\ mpc' # "send"
      BY <1>4, <2>5 DEF UnlockThis, Iterate, LastIteration
    <3>2. Oldest' = Oldest + 1 /\ Oldest < 0 /\ Oldest + RING = numreceived + 1
      <4>1. numreceived < Last
        BY <1>0, <2>1, <2>5 DEF MainInv
      <4> QED
        BY <1>i, <2>1, <3>1, <4>1 DEF Oldest
    <3>3. ASSUME NEW u \in Threads, NEW k \in Int,
                 Oldest + 1 <= k, k < Oldest + 1 + RING
          PROVE  results[Slot(k)][u] = SharesOf(k, u)
      <4>1. CASE k < Oldest + RING
        BY <1>0, <1>o, <3>3, <4>1 DEF ResultInv
      <4>2. CASE k = Oldest + RING
        <5>1. results[Slot(Oldest)][u] = SharesOf(Oldest, u)
          BY <1>0, <1>o DEF ResultInv
        <5>2. SharesOf(Oldest, u) = << >>
          BY <1>o, <3>2 DEF SharesOf
        <5>3. Slot(k) = Slot(Oldest)
          BY <1>o, <4>2, SlotShift
        <5>4. numprocessed[u] = 0
          BY <2>1, <2>5 DEF IInv, ThreadInv, Running
        <5>5. SharesOf(k, u) = << >>
          BY <1>i, <3>2, <4>2, <5>4 DEF SharesOf, Added
        <5> QED
          BY <5>1, <5>2, <5>3, <5>5
      <4> QED
        BY <1>o, <3>3, <4>1, <4>2
    <3> QED
      BY <2>1, <2>2, <3>2, <3>3 DEF ResultInv
  <2> QED
    BY <2>3, <2>4, <2>5
<1>5. CASE SwapUnlock
  <2>1. UNCHANGED <<numreceived, results, numprocessed, wpc>>
    BY <1>5 DEF SwapUnlock, slotVars, workerVars
  <2>2. mpc # "send" /\ mpc' # "send"
    BY <1>5 DEF SwapUnlock, Iterate
  <2> QED
    BY <1>0, <2>1, <2>2, SharesSame, ResultsSame
<1>6. CASE SwapLock
  <2>1. UNCHANGED <<numreceived, results, numprocessed, wpc>>
    BY <1>6 DEF SwapLock, slotVars, workerVars
  <2>2. mpc # "send" /\ mpc' # "send"
    BY <1>6 DEF SwapLock, Iterate
  <2> QED
    BY <1>0, <2>1, <2>2, SharesSame, ResultsSame
<1>7. CASE LockSecond
  <2>1. UNCHANGED <<numreceived, results, numprocessed, wpc>>
    BY <1>7 DEF LockSecond, slotVars, workerVars
  <2>2. mpc # "send" /\ mpc' # "send"
    BY <1>7 DEF LockSecond, Iterate
  <2> QED
    BY <1>0, <2>1, <2>2, SharesSame, ResultsSame
<1>8. CASE Launch
  <2>1. UNCHANGED <<numreceived, results, numprocessed>>
    BY <1>8 DEF Launch
  <2>2. mpc # "send" /\ mpc' # "send"
    BY <1>8 DEF Launch, Iterate
  <2>3. i \in Threads /\ wpc[i] = "none"
    BY <1>0, <1>8, ThreadsAssumption
    DEF Launch, Iterate, IInv, ThreadInv, TypeOK, Threads
  <2>4. \A u \in Threads : wpc'[u] = IF u = i THEN "start" ELSE wpc[u]
    BY <1>0, <1>8 DEF Launch, TypeOK
  <2>5. \A u \in Threads, k \in Int : SharesOf(k, u)' = SharesOf(k, u)
    BY <2>1, <2>3, <2>4 DEF SharesOf, Added
  <2> QED
    BY <1>0, <2>1, <2>2, <2>5, ResultsSame
<1>9. CASE SeeInitialised
  <2>1. UNCHANGED <<numreceived, results, numprocessed, wpc>>
    BY <1>9 DEF SeeInitialised, slotVars, workerVars
  <2>2. mpc # "send" /\ mpc' # "send"
    BY <1>9 DEF SeeInitialised, Iterate
  <2> QED
    BY <1>0, <2>1, <2>2, SharesSame, ResultsSame
<1>10. CASE SeeUninitialised
  <2>1. UNCHANGED <<numreceived, results, numprocessed, wpc>>
    BY <1>10 DEF SeeUninitialised, slotVars, workerVars
  <2>2. mpc # "send" /\ mpc' # "send"
    BY <1>10 DEF SeeUninitialised, Iterate
  <2> QED
    BY <1>0, <2>1, <2>2, SharesSame, ResultsSame
<1>11. CASE CondWait
  <2>1. UNCHANGED <<numreceived, results, numprocessed, wpc>>
    BY <1>11 DEF CondWait, slotVars, workerVars
  <2>2. mpc # "send" /\ mpc' # "send"
    BY <1>11 DEF CondWait, Iterate
  <2> QED
    BY <1>0, <2>1, <2>2, SharesSame, ResultsSame
<1>12. CASE CondWake
  <2>1. UNCHANGED <<numreceived, results, numprocessed, wpc>>
    BY <1>12 DEF CondWake, slotVars, workerVars
  <2>2. mpc # "send" /\ mpc' # "send"
    BY <1>12 DEF CondWake, Iterate
  <2> QED
    BY <1>0, <2>1, <2>2, SharesSame, ResultsSame
<1>13. CASE UnlockSecond
  <2>1. UNCHANGED <<numreceived, results, numprocessed, wpc>>
    BY <1>13 DEF UnlockSecond, slotVars, workerVars
  <2>2. mpc # "send" /\ mpc' # "send"
    BY <1>13 DEF UnlockSecond, Iterate
  <2> QED
    BY <1>0, <2>1, <2>2, SharesSame, ResultsSame
<1>14. CASE SendResults
  <2>1. UNCHANGED <<numreceived, numprocessed, wpc>>
    BY <1>14 DEF SendResults, workerVars
  <2>2. mpc = "send" /\ mpc' = "offsets" /\ Oldest' = Oldest + 1
    BY <1>i, <1>14, <2>1 DEF SendResults, Oldest
  <2>3. \A s \in Slots, u \in Threads :
          results'[s][u] = IF s = Index THEN << >> ELSE results[s][u]
    BY <1>0, <1>i, <1>14 DEF SendResults, TypeOK, NoShares
  <2>4. Oldest + RING = numreceived
    BY <1>i, <2>2 DEF Oldest
  <2>5. ASSUME NEW u \in Threads, NEW k \in Int,
               Oldest + 1 <= k, k < Oldest + 1 + RING
        PROVE  results'[Slot(k)][u] = SharesOf(k, u)
    <3>1. CASE k < numreceived
      <4>1. Slot(k) # Index
        BY <1>i, <1>o, <2>4, <2>5, <3>1, SlotInjective DEF Index
      <4>2. results'[Slot(k)][u] = results[Slot(k)][u]
        BY <1>o, <2>3, <4>1
      <4> QED
        BY <1>0, <1>o, <2>4, <2>5, <3>1, <4>2 DEF ResultInv
    <3>2. CASE k = numreceived
      <4>1. results'[Slot(k)][u] = << >>
        BY <1>i, <2>3, <3>2 DEF Index
      <4>2. numprocessed[u] \in Nat /\ numprocessed[u] <= numreceived
        BY Positions
      <4>3. wpc[u] \in {"locknext", "unlockcur"} => numprocessed[u] < numreceived
        BY <2>2 DEF IInv, PositionInv
      <4>4. ~Added(u, k)
        BY <1>i, <3>2, <4>2, <4>3 DEF Added
      <4> QED
        BY <4>1, <4>4 DEF SharesOf
    <3> QED
      BY <1>i, <1>o, <2>4, <2>5, <3>1, <3>2
  <2>6. \A u \in Threads, k \in Int : SharesOf(k, u)' = SharesOf(k, u)
    BY <2>1, SharesSame
  <2> QED
    BY <2>2, <2>5, <2>6 DEF ResultInv
<1>15. CASE ShutUnlock
  <2>1. UNCHANGED <<numreceived, results, numprocessed, wpc>>
    BY <1>15 DEF ShutUnlock, slotVars, workerVars
  <2>2. mpc # "send" /\ mpc' # "send"
    BY <1>15 DEF ShutUnlock, Iterate
  <2> QED
    BY <1>0, <2>1, <2>2, SharesSame, ResultsSame
<1>16. CASE DrainLock
  <2>1. UNCHANGED <<numreceived, results, numprocessed, wpc>>
    BY <1>16 DEF DrainLock, slotVars, workerVars
  <2>2. mpc # "send" /\ mpc' # "send"
    BY <1>16 DEF DrainLock, Iterate
  <2> QED
    BY <1>0, <2>1, <2>2, SharesSame, ResultsSame
<1>17. CASE DrainSend
  <2>1. UNCHANGED <<numreceived, results, numprocessed, wpc>>
    BY <1>17 DEF DrainSend, slotVars, workerVars
  <2>2. mpc # "send" /\ mpc' # "send"
    BY <1>17 DEF DrainSend, Iterate
  <2> QED
    BY <1>0, <2>1, <2>2, SharesSame, ResultsSame
<1>18. CASE Join
  <2>1. UNCHANGED <<numreceived, results, numprocessed, wpc>>
    BY <1>18 DEF Join, slotVars, workerVars
  <2>2. mpc # "send" /\ mpc' # "send"
    BY <1>18 DEF Join, Iterate
  <2> QED
    BY <1>0, <2>1, <2>2, SharesSame, ResultsSame
<1>19. CASE QuietExit
  <2>1. UNCHANGED <<numreceived, results, numprocessed, wpc>>
    BY <1>19 DEF QuietExit, slotVars, workerVars
  <2>2. mpc # "send" /\ mpc' # "send"
    BY <1>19 DEF QuietExit, Iterate
  <2> QED
    BY <1>0, <2>1, <2>2, SharesSame, ResultsSame
<1>20. ASSUME NEW c \in Configs, ReceiveTime(c) PROVE ResultInv'
  <2>1. UNCHANGED <<numreceived, results, numprocessed, wpc>>
    BY <1>20 DEF ReceiveTime, slotVars, workerVars
  <2>2. mpc # "send" /\ mpc' # "send"
    BY <1>20 DEF ReceiveTime, Iterate
  <2> QED
    BY <1>0, <2>1, <2>2, SharesSame, ResultsSame
<1>21. CASE ReceiveTerminate
  <2>1. UNCHANGED <<numreceived, results, numprocessed, wpc>>
    BY <1>21 DEF ReceiveTerminate, slotVars, workerVars
  <2>2. mpc # "send" /\ mpc' # "send"
    BY <1>21 DEF ReceiveTerminate, Iterate, AfterFill
  <2> QED
    BY <1>0, <2>1, <2>2, SharesSame, ResultsSame
<1>22. CASE SpuriousWakeup
  <2>1. UNCHANGED <<numreceived, results, numprocessed, wpc>>
    BY <1>22 DEF SpuriousWakeup, mainVars, workerVars
  <2>2. mpc # "send" /\ mpc' # "send"
    BY <1>22 DEF SpuriousWakeup, mainVars
  <2> QED
    BY <1>0, <2>1, <2>2, SharesSame, ResultsSame
<1>23. ASSUME NEW t \in Threads, Start(t) PROVE ResultInv'
  <2>1. UNCHANGED mainVars /\ UNCHANGED <<numprocessed, results>>
    BY <1>23 DEF Start
  <2>2. /\ wpc[t] = "start"
        /\ \A u \in Threads : wpc'[u] = IF u = t THEN "lockzero" ELSE wpc[u]
    BY <1>0, <1>23, GoThread DEF Start
  <2>3. \A u \in Threads, k \in Int : SharesOf(k, u)' = SharesOf(k, u)
    BY <2>1, <2>2 DEF SharesOf, Added
  <2> QED
    BY <1>0, <2>1, <2>3 DEF mainVars, ResultInv, Oldest
<1>24. ASSUME NEW t \in Threads, LockZero(t) PROVE ResultInv'
  <2>1. UNCHANGED mainVars /\ UNCHANGED <<numprocessed, results>>
    BY <1>24 DEF LockZero
  <2>2. /\ wpc[t] = "lockzero"
        /\ \A u \in Threads : wpc'[u] = IF u = t THEN "unlockend" ELSE wpc[u]
    BY <1>0, <1>24, GoThread DEF LockZero
  <2>3. \A u \in Threads, k \in Int : SharesOf(k, u)' = SharesOf(k, u)
    BY <2>1, <2>2 DEF SharesOf, Added
  <2> QED
    BY <1>0, <2>1, <2>3 DEF mainVars, ResultInv, Oldest
<1>25. ASSUME NEW t \in Threads, UnlockEnd(t) PROVE ResultInv'
  <2>1. UNCHANGED mainVars /\ UNCHANGED <<numprocessed, results>>
    BY <1>25 DEF UnlockEnd
  <2>2. /\ wpc[t] = "unlockend"
        /\ \A u \in Threads : wpc'[u] = IF u = t THEN "init" ELSE wpc[u]
    BY <1>0, <1>25, GoThread DEF UnlockEnd
  <2>3. \A u \in Threads, k \in Int : SharesOf(k, u)' = SharesOf(k, u)
    BY <2>1, <2>2 DEF SharesOf, Added
  <2> QED
    BY <1>0, <2>1, <2>3 DEF mainVars, ResultInv, Oldest
<1>26. ASSUME NEW t \in Threads, SetInitialised(t) PROVE ResultInv'
  <2>1. UNCHANGED mainVars /\ UNCHANGED <<numprocessed, results>>
    BY <1>26 DEF SetInitialised
  <2>2. /\ wpc[t] = "init"
        /\ \A u \in Threads : wpc'[u] = IF u = t THEN "signal" ELSE wpc[u]
    BY <1>0, <1>26, GoThread DEF SetInitialised
  <2>3. \A u \in Threads, k \in Int : SharesOf(k, u)' = SharesOf(k, u)
    BY <2>1, <2>2 DEF SharesOf, Added
  <2> QED
    BY <1>0, <2>1, <2>3 DEF mainVars, ResultInv, Oldest
<1>27. ASSUME NEW t \in Threads, Signal(t) PROVE ResultInv'
  <2>1. UNCHANGED mainVars /\ UNCHANGED <<numprocessed, results>>
    BY <1>27 DEF Signal
  <2>2. /\ wpc[t] = "signal"
        /\ \A u \in Threads : wpc'[u] = IF u = t THEN "check" ELSE wpc[u]
    BY <1>0, <1>27, GoThread DEF Signal
  <2>3. \A u \in Threads, k \in Int : SharesOf(k, u)' = SharesOf(k, u)
    BY <2>1, <2>2 DEF SharesOf, Added
  <2> QED
    BY <1>0, <2>1, <2>3 DEF mainVars, ResultInv, Oldest
<1>28. ASSUME NEW t \in Threads, Check(t) PROVE ResultInv'
  <2>1. UNCHANGED mainVars /\ UNCHANGED <<numprocessed, results>>
    BY <1>28 DEF Check
  <2>2. /\ wpc[t] = "check" /\ wpc'[t] \in {"work", "exitunlock"}
        /\ \A u \in Threads : u # t => wpc'[u] = wpc[u]
    BY <1>0, <1>28 DEF Check, TypeOK
  <2>3. \A u \in Threads, k \in Int : SharesOf(k, u)' = SharesOf(k, u)
    BY <2>1, <2>2 DEF SharesOf, Added
  <2> QED
    BY <1>0, <2>1, <2>3 DEF mainVars, ResultInv, Oldest
<1>29. ASSUME NEW t \in Threads, Work(t) PROVE ResultInv'
  <2>1. UNCHANGED mainVars /\ UNCHANGED numprocessed
    BY <1>29 DEF Work
  <2>2. /\ wpc[t] = "work"
        /\ \A u \in Threads : wpc'[u] = IF u = t THEN "locknext" ELSE wpc[u]
    BY <1>0, <1>29, GoThread DEF Work
  <2>3. /\ numprocessed[t] \in Int /\ Here(t) \in Slots /\ t \in Threads
        /\ 0 <= numprocessed[t]
        /\ Oldest <= numprocessed[t] /\ numprocessed[t] < Oldest + RING
    <3>1. mpc = "send" => numprocessed[t] < numreceived
      BY <2>2, <1>29, WorkingPosition
    <3>2. /\ numprocessed[t] \in Nat /\ Here(t) \in Slots
          /\ numprocessed[t] <= numreceived
          /\ numprocessed[t] >= numreceived - RING + 1
      BY <1>29, Positions
    <3> QED
      BY <1>i, <1>29, <3>1, <3>2 DEF Oldest
  <2>4. results[Here(t)][t] = << >>
    <3>1. results[Slot(numprocessed[t])][t] = SharesOf(numprocessed[t], t)
      BY <1>0, <2>3 DEF ResultInv
    <3>2. ~Added(t, numprocessed[t])
      BY <2>2, <2>3 DEF Added
    <3> QED
      BY <3>1, <3>2 DEF SharesOf, Here
  <2>5. subint[Here(t)] = numprocessed[t]
    BY <1>29, <2>2, WorkingPosition
  <2>6. \A s \in Slots, u \in Threads :
          results'[s][u] = IF s = Here(t) /\ u = t THEN <<numprocessed[t]>>
                           ELSE results[s][u]
    <3>1. Append(results[Here(t)][t], subint[Here(t)]) = <<numprocessed[t]>>
      BY <2>4, <2>5
    <3>2. results[Here(t)] \in [Threads -> Seq(Int)]
      BY <1>0, <2>3 DEF TypeOK
    <3> QED
      BY <1>0, <1>29, <2>3, <3>1, <3>2 DEF Work, TypeOK
  <2>7. ASSUME NEW u \in Threads, NEW k \in Int, Oldest <= k, k < Oldest + RING
        PROVE  results'[Slot(k)][u] = SharesOf(k, u)'
    <3>0. results[Slot(k)][u] = SharesOf(k, u)
      BY <1>0, <2>7 DEF ResultInv
    <3>1. CASE u = t /\ k = numprocessed[t]
      <4>1. Added(t, k)'
        BY <2>1, <2>2, <2>3, <3>1 DEF Added
      <4>2. results'[Slot(k)][u] = <<k>>
        BY <2>3, <2>6, <3>1 DEF Here
      <4> QED
        BY <2>3, <3>1, <4>1, <4>2 DEF SharesOf
    <3>2. CASE u = t /\ k # numprocessed[t]
      <4>1. Slot(k) # Here(t)
        BY <1>o, <2>3, <2>7, <3>2, SlotInjective DEF Here
      <4>2. results'[Slot(k)][u] = results[Slot(k)][u]
        BY <1>o, <2>6, <4>1
      <4>3. Added(t, k)' <=> Added(t, k)
        BY <2>1, <2>3, <3>2 DEF Added
      <4> QED
        BY <3>0, <3>2, <4>2, <4>3 DEF SharesOf
    <3>3. CASE u # t
      <4>1. results'[Slot(k)][u] = results[Slot(k)][u]
        BY <1>o, <2>6, <3>3
      <4>2. Added(u, k)' <=> Added(u, k)
        BY <2>1, <2>2, <3>3 DEF Added
      <4> QED
        BY <3>0, <4>1, <4>2 DEF SharesOf
    <3> QED
      BY <3>1, <3>2, <3>3
  <2> QED
    BY <2>1, <2>7 DEF mainVars, ResultInv, Oldest
<1>30. ASSUME NEW t \in Threads, WorkerLockNext(t) PROVE ResultInv'
  <2>1. UNCHANGED mainVars /\ UNCHANGED <<numprocessed, results>>
    BY <1>30 DEF WorkerLockNext
  <2>2. /\ wpc[t] = "locknext"
        /\ \A u \in Threads : wpc'[u] = IF u = t THEN "unlockcur" ELSE wpc[u]
    BY <1>0, <1>30, GoThread DEF WorkerLockNext
  <2>3. \A u \in Threads, k \in Int : SharesOf(k, u)' = SharesOf(k, u)
    BY <2>1, <2>2 DEF SharesOf, Added
  <2> QED
    BY <1>0, <2>1, <2>3 DEF mainVars, ResultInv, Oldest
<1>31. ASSUME NEW t \in Threads, WorkerUnlock(t) PROVE ResultInv'
  <2>1. UNCHANGED mainVars /\ UNCHANGED results
    BY <1>31 DEF WorkerUnlock
  <2>2. /\ wpc[t] = "unlockcur"
        /\ \A u \in Threads : wpc'[u] = IF u = t THEN "check" ELSE wpc[u]
    BY <1>0, <1>31, GoThread DEF WorkerUnlock
  <2>3. \A u \in Threads :
          numprocessed'[u] = IF u = t THEN numprocessed[t] + 1 ELSE numprocessed[u]
    BY <1>0, <1>31 DEF WorkerUnlock, TypeOK
  <2>4. numprocessed[t] \in Nat
    BY <1>0, <1>31 DEF TypeOK
  <2>5. \A u \in Threads, k \in Int : SharesOf(k, u)' = SharesOf(k, u)
    BY <2>2, <2>3, <2>4 DEF SharesOf, Added
  <2> QED
    BY <1>0, <2>1, <2>5 DEF mainVars, ResultInv, Oldest
<1>32. ASSUME NEW t \in Threads, ExitUnlock(t) PROVE ResultInv'
  <2>1. UNCHANGED mainVars /\ UNCHANGED <<numprocessed, results>>
    BY <1>32 DEF ExitUnlock
  <2>2. /\ wpc[t] = "exitunlock"
        /\ \A u \in Threads : wpc'[u] = IF u = t THEN "teardown" ELSE wpc[u]
    BY <1>0, <1>32, GoThread DEF ExitUnlock
  <2>3. \A u \in Threads, k \in Int : SharesOf(k, u)' = SharesOf(k, u)
    BY <2>1, <2>2 DEF SharesOf, Added
  <2> QED
    BY <1>0, <2>1, <2>3 DEF mainVars, ResultInv, Oldest
<1>33. ASSUME NEW t \in Threads, Teardown(t) PROVE ResultInv'
  <2>1. UNCHANGED mainVars /\ UNCHANGED <<numprocessed, results>>
    BY <1>33 DEF Teardown
  <2>2. /\ wpc[t] = "teardown"
        /\ \A u \in Threads : wpc'[u] = IF u = t THEN "exit" ELSE wpc[u]
    BY <1>0, <1>33, GoThread DEF Teardown
  <2>3. \A u \in Threads, k \in Int : SharesOf(k, u)' = SharesOf(k, u)
    BY <2>1, <2>2 DEF SharesOf, Added
  <2> QED
    BY <1>0, <2>1, <2>3 DEF mainVars, ResultInv, Oldest
<1>34. CASE UNCHANGED vars
  BY <1>0, <1>34
  DEF vars, mainVars, workerVars, ResultInv, Oldest, SharesOf, Added
<1> QED
  BY <1>1, <1>2, <1>3, <1>4, <1>5, <1>6, <1>7, <1>8, <1>9, <1>10, <1>11,
     <1>12, <1>13, <1>14, <1>15, <1>16, <1>17, <1>18, <1>19, <1>20, <1>21,
     <1>22, <1>23, <1>24, <1>25, <1>26, <1>27, <1>28, <1>29, <1>30, <1>31,
     <1>32, <1>33, <1>34
  DEF Next, MainStep, WorkerStep, Finished

(* What has been sent grows by one complete result at a time.              *)
LEMMA LiveResult ==
  ASSUME IInv, NEW n \in Nat, Oldest <= n, n < Oldest + RING,
         \A t \in Threads : numprocessed[t] > n
  PROVE  /\ results[Slot(n)] = [t \in Threads |-> <<n>>]
         /\ results[Slot(n)] \in [Threads -> Seq(Int)]
<1>1. Slot(n) \in Slots
  BY SlotType
<1>2. results[Slot(n)] \in [Threads -> Seq(Int)]
  BY <1>1 DEF IInv, TypeOK
<1>3. \A t \in Threads : results[Slot(n)][t] = <<n>>
  <2>1. \A t \in Threads : SharesOf(n, t) = <<n>>
    BY DEF SharesOf, Added
  <2>2. \A t \in Threads : results[Slot(n)][t] = SharesOf(n, t)
    BY DEF IInv, ResultInv
  <2> QED
    BY <2>1, <2>2
<1> QED
  BY <1>2, <1>3

LEMMA SendNext ==
  ASSUME IInv, NEW r \in [Threads -> Seq(Int)],
         r = [t \in Threads |-> <<Len(sent)>>], sent' = Append(sent, r)
  PROVE  SentCompleteInOrder' /\ Len(sent') = Len(sent) + 1
<1>1. sent \in Seq([Threads -> Seq(Int)])
  BY DEF IInv, TypeOK
<1>2. /\ Len(sent') = Len(sent) + 1 /\ Len(sent) \in Nat
      /\ \A n \in 1 .. Len(sent) : sent'[n] = sent[n]
      /\ sent'[Len(sent) + 1] = r
  BY <1>1
<1>3. \A n \in 1 .. Len(sent) : sent[n] = [t \in Threads |-> <<n - 1>>]
  BY DEF IInv, SentInv, SentCompleteInOrder
<1>4. \A n \in 1 .. Len(sent') : n \in 1 .. Len(sent) \/ n = Len(sent) + 1
  BY <1>2
<1>5. Len(sent) + 1 - 1 = Len(sent)
  BY <1>2
<1>6. \A n \in 1 .. Len(sent') : sent'[n] = [t \in Threads |-> <<n - 1>>]
  BY <1>2, <1>3, <1>4, <1>5
<1> QED
  BY <1>2, <1>6 DEF SentCompleteInOrder

LEMMA SentPreserved == ASSUME IInv, [Next]_vars, TypeOK' PROVE SentInv'
<1> USE RingFacts
<1>0. TypeOK /\ MainInv /\ SentInv
  BY DEF IInv
<1>i. numreceived \in Nat /\ drained \in Nat /\ Len(sent) \in Nat
  BY <1>0, BoundAssumption DEF TypeOK
<1>1. CASE LockFirst
  <2>1. UNCHANGED <<numreceived, drained, sent>> /\ mpc \notin {"done", "join", "send"}
          /\ mpc' # "send"
    BY <1>1 DEF LockFirst, Iterate
  <2> QED
    BY <1>0, <2>1 DEF SentInv, SentCompleteInOrder
<1>2. CASE ReceiveData
  <2>1. UNCHANGED <<numreceived, drained, sent>> /\ mpc \notin {"done", "join", "send"}
          /\ mpc' # "send"
    BY <1>2 DEF ReceiveData, Iterate
  <2> QED
    BY <1>0, <2>1 DEF SentInv, SentCompleteInOrder
<1>3. CASE LockNext
  <2>1. UNCHANGED <<numreceived, drained, sent>> /\ mpc \notin {"done", "join", "send"}
          /\ mpc' # "send"
    BY <1>3 DEF LockNext, Iterate
  <2> QED
    BY <1>0, <2>1 DEF SentInv, SentCompleteInOrder
<1>4. CASE UnlockThis
  <2>1. UNCHANGED <<sent, drained>> /\ mpc = "unlockthis"
    BY <1>4 DEF UnlockThis, Iterate
  <2>2. \/ numreceived' = numreceived /\ mpc' = "unlockthis"
        \/ launched /\ numreceived' = numreceived + 1 /\ mpc' = "send"
        \/ /\ ~launched /\ numreceived' = numreceived + 1
           /\ mpc' \in {"locksecond", "offsets"}
    BY <1>4 DEF UnlockThis, Iterate, LastIteration
  <2>3. IF launched THEN numreceived >= Last ELSE numreceived < Last
    BY <1>0, <2>1 DEF MainInv
  <2> QED
    BY <1>0, <1>i, <2>1, <2>2, <2>3, SMTT(30) DEF SentInv, SentCompleteInOrder
<1>5. CASE SwapUnlock
  <2>1. UNCHANGED <<numreceived, drained, sent>> /\ mpc \notin {"done", "join", "send"}
          /\ mpc' # "send"
    BY <1>5 DEF SwapUnlock, Iterate
  <2> QED
    BY <1>0, <2>1 DEF SentInv, SentCompleteInOrder
<1>6. CASE SwapLock
  <2>1. UNCHANGED <<numreceived, drained, sent>> /\ mpc \notin {"done", "join", "send"}
          /\ mpc' # "send"
    BY <1>6 DEF SwapLock, Iterate
  <2> QED
    BY <1>0, <2>1 DEF SentInv, SentCompleteInOrder
<1>7. CASE LockSecond
  <2>1. UNCHANGED <<numreceived, drained, sent>> /\ mpc \notin {"done", "join", "send"}
          /\ mpc' # "send"
    BY <1>7 DEF LockSecond, Iterate
  <2> QED
    BY <1>0, <2>1 DEF SentInv, SentCompleteInOrder
<1>8. CASE Launch
  <2>1. UNCHANGED <<numreceived, drained, sent>> /\ mpc \notin {"done", "join", "send"}
          /\ mpc' # "send"
    BY <1>8 DEF Launch, Iterate
  <2> QED
    BY <1>0, <2>1 DEF SentInv, SentCompleteInOrder
<1>9. CASE SeeInitialised
  <2>1. UNCHANGED <<numreceived, drained, sent>> /\ mpc \notin {"done", "join", "send"}
          /\ mpc' # "send"
    BY <1>9 DEF SeeInitialised, Iterate
  <2> QED
    BY <1>0, <2>1 DEF SentInv, SentCompleteInOrder
<1>10. CASE SeeUninitialised
  <2>1. UNCHANGED <<numreceived, drained, sent>> /\ mpc \notin {"done", "join", "send"}
          /\ mpc' # "send"
    BY <1>10 DEF SeeUninitialised, Iterate
  <2> QED
    BY <1>0, <2>1 DEF SentInv, SentCompleteInOrder
<1>11. CASE CondWait
  <2>1. UNCHANGED <<numreceived, drained, sent>> /\ mpc \notin {"done", "join", "send"}
          /\ mpc' # "send"
    BY <1>11 DEF CondWait, Iterate
  <2> QED
    BY <1>0, <2>1 DEF SentInv, SentCompleteInOrder
<1>12. CASE CondWake
  <2>1. UNCHANGED <<numreceived, drained, sent>> /\ mpc \notin {"done", "join", "send"}
          /\ mpc' # "send"
    BY <1>12 DEF CondWake, Iterate
  <2> QED
    BY <1>0, <2>1 DEF SentInv, SentCompleteInOrder
<1>13. CASE UnlockSecond
  <2>1. UNCHANGED <<numreceived, drained, sent>> /\ mpc \notin {"done", "join", "send"}
          /\ mpc' # "send"
    BY <1>13 DEF UnlockSecond, Iterate
  <2> QED
    BY <1>0, <2>1 DEF SentInv, SentCompleteInOrder
<1>14. CASE SendResults
  <2>1. UNCHANGED <<numreceived, drained>> /\ mpc = "send" /\ mpc' = "offsets"
    BY <1>14 DEF SendResults
  <2>2. numreceived >= RING /\ drained = 0
    BY <1>0, <2>1 DEF MainInv, Filling
  <2>3. Len(sent) = numreceived - RING
    BY <1>0, <1>i, <2>1, <2>2 DEF SentInv
  <2>4. Oldest = Len(sent) /\ \A t \in Threads : numprocessed[t] > Len(sent)
    BY <1>i, <2>1, <2>3, Positions DEF Oldest
  <2>5. Slot(Len(sent)) = Index
    <3>1. Slot(Len(sent) + RING) = Slot(Len(sent))
      BY <1>i, SlotShift
    <3>2. Len(sent) + RING = numreceived
      BY <1>i, <2>3
    <3> QED
      BY <3>1, <3>2 DEF Index
  <2>6. /\ results[Index] = [t \in Threads |-> <<Len(sent)>>]
        /\ results[Index] \in [Threads -> Seq(Int)]
    <3>1. Oldest <= Len(sent) /\ Len(sent) < Oldest + RING
      BY <1>i, <2>4
    <3> QED
      BY <1>i, <2>4, <2>5, <3>1, LiveResult
  <2>7. SentCompleteInOrder' /\ Len(sent') = Len(sent) + 1
    BY <1>14, <2>6, SendNext DEF SendResults
  <2> QED
    BY <1>i, <2>1, <2>2, <2>3, <2>7 DEF SentInv
<1>15. CASE ShutUnlock
  <2>1. UNCHANGED <<numreceived, drained, sent>> /\ mpc \notin {"done", "join", "send"}
          /\ mpc' # "send"
    BY <1>15 DEF ShutUnlock, Iterate
  <2> QED
    BY <1>0, <2>1 DEF SentInv, SentCompleteInOrder
<1>16. CASE DrainLock
  <2>1. UNCHANGED <<numreceived, drained, sent>> /\ mpc \notin {"done", "join", "send"}
          /\ mpc' # "send"
    BY <1>16 DEF DrainLock, Iterate
  <2> QED
    BY <1>0, <2>1 DEF SentInv, SentCompleteInOrder
<1>17. CASE DrainSend
  <2>1. /\ UNCHANGED numreceived /\ drained' = drained + 1
        /\ mpc = "drainsend" /\ mpc' # "send"
    BY <1>17 DEF DrainSend
  <2>2. /\ DrainSlot = Slot(Len(sent))
        /\ numreceived - RING < Len(sent) /\ Len(sent) < numreceived
    BY <2>1, DrainPosition DEF Draining
  <2>3. /\ Oldest <= Len(sent) /\ Len(sent) < Oldest + RING
    BY <1>i, <2>1, <2>2 DEF Oldest
  <2>4. \A t \in Threads : numprocessed[t] > Len(sent)
    BY <2>1 DEF IInv, PositionInv
  <2>5. /\ results[DrainSlot] = [t \in Threads |-> <<Len(sent)>>]
        /\ results[DrainSlot] \in [Threads -> Seq(Int)]
    BY <1>i, <2>2, <2>3, <2>4, LiveResult
  <2>6. SentCompleteInOrder' /\ Len(sent') = Len(sent) + 1
    BY <1>17, <2>5, SendNext DEF DrainSend
  <2>7. Len(sent) = (IF numreceived < Last THEN 0 ELSE numreceived - RING + 1)
                      + drained
    BY <1>0, <1>i, <2>1 DEF SentInv
  <2> QED
    BY <1>i, <2>1, <2>6, <2>7 DEF SentInv
<1>18. CASE Join
  <2>1. UNCHANGED sent /\ mpc' \in {"join", "done"}
    BY <1>18 DEF Join, Iterate
  <2> QED
    BY <1>0, <2>1 DEF SentInv, SentCompleteInOrder
<1>19. CASE QuietExit
  <2>1. UNCHANGED <<numreceived, drained, sent>> /\ mpc \notin {"done", "join", "send"}
          /\ mpc' # "send"
    BY <1>19 DEF QuietExit, Iterate
  <2> QED
    BY <1>0, <2>1 DEF SentInv, SentCompleteInOrder
<1>20. ASSUME NEW c \in Configs, ReceiveTime(c) PROVE SentInv'
  <2>1. UNCHANGED <<numreceived, drained, sent>> /\ mpc \notin {"done", "join", "send"}
          /\ mpc' # "send"
    BY <1>20 DEF ReceiveTime, Iterate
  <2> QED
    BY <1>0, <2>1 DEF SentInv, SentCompleteInOrder
<1>21. CASE ReceiveTerminate
  <2>1. UNCHANGED <<numreceived, drained, sent>> /\ mpc \notin {"done", "join", "send"}
          /\ mpc' # "send"
    BY <1>21 DEF ReceiveTerminate, AfterFill
  <2> QED
    BY <1>0, <2>1 DEF SentInv, SentCompleteInOrder
<1>22. ASSUME NEW t \in Threads, WorkerStep(t) PROVE SentInv'
  <2>1. UNCHANGED mainVars /\ UNCHANGED sent
    BY <1>22 DEF WorkerStep, Start, LockZero, UnlockEnd, SetInitialised,
       Signal, Check, Work, WorkerLockNext, WorkerUnlock, ExitUnlock, Teardown
  <2> QED
    BY <1>0, <2>1 DEF mainVars, SentInv, SentCompleteInOrder
<1>23. CASE SpuriousWakeup
  <2>1. UNCHANGED <<numreceived, drained, sent, mpc>>
    BY <1>23 DEF SpuriousWakeup, mainVars
  <2> QED
    BY <1>0, <2>1 DEF SentInv, SentCompleteInOrder
<1>24. CASE UNCHANGED vars
  BY <1>0, <1>24 DEF vars, mainVars, SentInv, SentCompleteInOrder
<1> QED
  BY <1>1, <1>2, <1>3, <1>4, <1>5, <1>6, <1>7, <1>8, <1>9, <1>10, <1>11,
     <1>12, <1>13, <1>14, <1>15, <1>16, <1>17, <1>18, <1>19, <1>20, <1>21,
     <1>22, <1>23, <1>24
  DEF Next, MainStep, Finished

(***************************************************************************)
(* The theorems.                                                           *)
(***************************************************************************)
LEMMA Initially == Init => IInv
<1> SUFFICES ASSUME Init PROVE IInv
  OBVIOUS
<1> USE RingFacts DEF Init
<1>0. 0 \in Threads /\ \A t \in Threads : t \in Int /\ 0 <= t
  BY ThreadsAssumption DEF Threads
<1>1. TypeOK
  <2>1. NoShares \in [Threads -> Seq(Int)]
    BY DEF NoShares
  <2>2. /\ results \in [Slots -> [Threads -> Seq(Int)]]
        /\ sent \in Seq([Threads -> Seq(Int)])
    BY <2>1
  <2>3. /\ mpc \in MainSteps /\ i \in Threads
        /\ numreceived \in 0 .. MaxSubints /\ drained \in 0 .. RING
        /\ wpc \in [Threads -> WorkerSteps]
    BY <1>0, BoundAssumption DEF MainSteps, WorkerSteps
  <2>4. /\ locks \in [Slots -> [Threads -> {Free, Main, Worker}]]
        /\ subint \in [Slots -> Int] /\ config \in [Slots -> Configs]
        /\ keep \in [Slots -> BOOLEAN] /\ numprocessed \in [Threads -> Nat]
        /\ lastconfig \in [Threads -> Configs]
        /\ initialised \in [Threads -> BOOLEAN]
    BY ConfigAssumption
  <2> QED
    BY <2>2, <2>3, <2>4 DEF TypeOK
<1>2. MainInv
  BY DEF MainInv, Filling, StartUp, Swapping, Draining, Ending
<1>3. LockInv
  BY <1>0 DEF LockInv, MainHolds, WorkerHolds, Free, Main, Worker
<1>4. ThreadInv
  BY DEF ThreadInv, Filling, StartUp, Swapping, Draining, Ending, Running
<1>5. PositionInv
  BY <1>0 DEF PositionInv, StartUp, Draining
<1>6. DataInv
  BY DEF DataInv
<1>7. ResultInv
  <2> SUFFICES ASSUME NEW t \in Threads, NEW k \in Int,
                      Oldest <= k, k < Oldest + RING
               PROVE  results[Slot(k)][t] = SharesOf(k, t)
    BY DEF ResultInv
  <2>1. results[Slot(k)][t] = << >>
    BY SlotType DEF NoShares
  <2>2. SharesOf(k, t) = << >>
    BY DEF SharesOf, Added
  <2> QED
    BY <2>1, <2>2
<1>8. SentInv
  BY DEF SentInv, SentCompleteInOrder
<1> QED
  BY <1>1, <1>2, <1>3, <1>4, <1>5, <1>6, <1>7, <1>8 DEF IInv

(* Every step of either kind of thread keeps the inductive invariant.      *)
LEMMA Inductive == IInv /\ [Next]_vars => IInv'
BY Typing, MainPreserved, LocksPreserved, ThreadsPreserved,
   PositionsPreserved, DataPreserved, ResultsPreserved, SentPreserved
DEF IInv

LEMMA Invariance == Spec => []IInv
BY Initially, Inductive, PTL DEF Spec

(* Every variable of the Core keeps its type.                              *)
THEOREM TypeCorrect == Spec => []TypeOK
<1>1. IInv => TypeOK
  BY DEF IInv
<1> QED
  BY <1>1, Invariance, PTL

(* The slots of the receive ring are never shared: while the main thread   *)
(* of core.cpp fills, sends or zeroes a slot, no process thread is in it.  *)
THEOREM SlotsExclusive == Spec => []SlotExclusion
<1>1. IInv => SlotExclusion
  <2> SUFFICES ASSUME IInv, NEW s \in Slots, MainIn(s),
                      NEW t \in Threads, WorkerIn(t, s)
               PROVE  FALSE
    BY DEF SlotExclusion
  <2>1. WorkerHolds(s, t)
    BY DEF WorkerIn, WorkerHolds
  <2>2. CASE mpc \in {"offsets", "data", "send"} /\ s = Index
    BY <2>1, <2>2, Disjoint DEF MainHolds, IInv
  <2>3. CASE mpc = "drainsend" /\ s = DrainSlot
    <3>1. /\ Len(sent) \in Nat /\ s = Slot(Len(sent))
          /\ numreceived - RING < Len(sent) /\ Len(sent) < numreceived
      BY <2>3, DrainPosition DEF Draining
    <3>2. numprocessed[t] > Len(sent)
      BY <2>3 DEF IInv, PositionInv
    <3>3. /\ numprocessed[t] \in Nat /\ numprocessed[t] <= numreceived
          /\ numreceived \in Nat
      BY Positions
    <3>4. s = Slot(numprocessed[t])
      BY DEF WorkerIn, Here
    <3>5. /\ Len(sent) < numprocessed[t] /\ numprocessed[t] < Len(sent) + RING
          /\ Len(sent) \in Int /\ numprocessed[t] \in Int
      BY <3>1, <3>2, <3>3, RingFacts
    <3>6. Slot(Len(sent)) # Slot(numprocessed[t])
      BY <3>5, SlotInjective
    <3> QED
      BY <3>1, <3>4, <3>6
  <2> QED
    BY <2>2, <2>3 DEF MainIn
<1> QED
  BY <1>1, Invariance, PTL

(* A process thread that calls processdata for the n-th time finds the     *)
(* n-th received subintegration in its slot, however the threads race.     *)
THEOREM SubintsMatch == Spec => []WorkersSeeTheirSubint
<1>1. IInv => WorkersSeeTheirSubint
  BY WorkingPosition DEF WorkersSeeTheirSubint
<1> QED
  BY <1>1, Invariance, PTL

(* The FxManager gets every subintegration it asked this Core for in the   *)
(* order it asked, each with the share of every process thread, once.      *)
THEOREM ResultsComplete == Spec => []SentCompleteInOrder
<1>1. IInv => SentCompleteInOrder
  BY DEF IInv, SentInv
<1> QED
  BY <1>1, Invariance, PTL
(***************************************************************************)
(* The ring and its threads take the steps of CorePipeline.                *)
(***************************************************************************)
(* When the drained slots have been sent nothing is left of the job.       *)
DrainedInv == mpc = "join" => Len(sent) = numreceived

(* What CorePipeline may do, fairness aside.                               *)
PipelineSteps ==
  Pipeline!Init /\ [][Pipeline!Next]_(Pipeline!pipelineVars)

(* The numbers of n results in order.                                      *)
FirstResults(n) == [k \in 1 .. n |-> k - 1]

LEMMA NextResult ==
  ASSUME NEW n \in Nat
  PROVE  /\ Len(FirstResults(n)) = n
         /\ Append(FirstResults(n), n) = FirstResults(n + 1)
<1> DEFINE s == FirstResults(n)   t == FirstResults(n + 1)
<1>1. s \in Seq(Int) /\ Len(s) = n /\ \A k \in 1 .. n : s[k] = k - 1
  BY DEF FirstResults
<1>2. t \in Seq(Int) /\ Len(t) = n + 1 /\ \A k \in 1 .. n + 1 : t[k] = k - 1
  BY DEF FirstResults
<1> HIDE DEF s, t
<1>3. Append(s, n) \in Seq(Int) /\ Len(Append(s, n)) = n + 1
  BY <1>1
<1>4. \A k \in 1 .. n + 1 : Append(s, n)[k] = t[k]
  BY <1>1, <1>2
<1>5. Append(s, n) = t
  BY <1>2, <1>3, <1>4
<1> QED
  BY <1>1, <1>5 DEF s, t

(* The results sent, as CorePipeline sees them.                            *)
LEMMA ReturnedFirst ==
  ASSUME TypeOK, SentCompleteInOrder
  PROVE  /\ Len(sent) \in Nat
         /\ [n \in 1 .. Len(sent) |-> FullResultOf(sent[n])]
              = FirstResults(Len(sent))
<1>1. Len(sent) \in Nat
  BY DEF TypeOK
<1>2. ASSUME NEW n \in 1 .. Len(sent) PROVE FullResultOf(sent[n]) = n - 1
  <2>1. sent[n] = [t \in Threads |-> <<n - 1>>]
    BY DEF SentCompleteInOrder
  <2>2. 0 \in Threads
    BY ThreadsAssumption DEF Threads
  <2>3. /\ sent[n][0] = <<n - 1>> /\ Len(sent[n][0]) = 1
        /\ \A t \in Threads : sent[n][t] = sent[n][0]
        /\ sent[n][0][1] = n - 1
    BY <2>1, <2>2
  <2> QED
    BY <2>3 DEF FullResultOf
<1> QED
  BY <1>1, <1>2 DEF FirstResults

Returned == [n \in 1 .. Len(sent) |-> FullResultOf(sent[n])]
InOrder == Len(sent) \in Nat /\ Returned = FirstResults(Len(sent))

LEMMA InOrderNext == TypeOK' /\ SentCompleteInOrder' => InOrder'
<1>1. TypeOK /\ SentCompleteInOrder => InOrder
  BY ReturnedFirst DEF InOrder, Returned
<1> QED
  BY <1>1, PTL

(* How many results have been sent where the main thread is.               *)
LEMMA SentCounts ==
  ASSUME IInv
  PROVE  /\ Len(sent) \in Nat /\ numreceived \in Nat
         /\ mpc = "unlockthis" => numreceived - Len(sent) < RING
         /\ mpc \in {"send", "drainsend"} => Len(sent) < numreceived
         /\ mpc = "quit" => Len(sent) = numreceived
<1>1. /\ Len(sent) \in Nat /\ numreceived \in Nat /\ drained \in Nat
      /\ RING \in Nat /\ RING >= 3 /\ Last = RING - 1
  BY RingFacts, BoundAssumption DEF IInv, TypeOK
<1>2. mpc \notin {"done", "join"} =>
        Len(sent) = (IF numreceived < Last THEN 0 ELSE numreceived - RING + 1)
                      + drained - (IF mpc = "send" THEN 1 ELSE 0)
  BY DEF IInv, SentInv
<1>3. /\ mpc \in {"unlockthis", "send", "quit"} => drained = 0
      /\ mpc = "send" => numreceived >= RING
      /\ mpc = "quit" => numreceived = 0
  BY DEF IInv, MainInv, Filling
<1>4. mpc = "drainsend" => Len(sent) < numreceived
  BY DrainPosition DEF Draining
<1> QED
  BY <1>1, <1>2, <1>3, <1>4

LEMMA DrainedInit == Init => DrainedInv
BY DEF Init, DrainedInv

LEMMA DrainedStep ==
  ASSUME IInv, IInv', DrainedInv, [Next]_vars
  PROVE  DrainedInv'
<1> SUFFICES ASSUME mpc' = "join" PROVE Len(sent') = numreceived'
  BY DEF DrainedInv
<1>1. CASE DrainSend
  <2>1. /\ mpc = "drainsend" /\ drained + 1 = Countdown
        /\ sent' = Append(sent, results[DrainSlot]) /\ numreceived' = numreceived
    BY <1>1 DEF DrainSend
  <2>2. /\ Len(sent) \in Nat /\ numreceived \in Nat /\ drained \in Nat
        /\ RING \in Nat /\ RING >= 3 /\ Last = RING - 1
        /\ sent \in Seq([Threads -> Seq(Int)])
    BY RingFacts, BoundAssumption DEF IInv, TypeOK
  <2>3. Len(sent) = (IF numreceived < Last THEN 0 ELSE numreceived - RING + 1)
                      + drained
    BY <2>1, <2>2 DEF IInv, SentInv
  <2>4. DrainSlot \in Slots
    <3>1. Adjust \in Int
      BY <2>2 DEF Adjust
    <3>2. numreceived + drained + 1 + Adjust \in Int
      BY <2>2, <3>1
    <3> QED
      BY <3>2, SlotType DEF DrainSlot
  <2>5. Len(sent') = Len(sent) + 1
    BY <2>1, <2>2, <2>4 DEF IInv, TypeOK
  <2>6. drained + 1 = IF numreceived < Last THEN numreceived ELSE Last
    BY <2>1 DEF Countdown, ShortJob
  <2> QED
    BY <2>1, <2>2, <2>3, <2>5, <2>6
<1>2. CASE ~DrainSend
  <2>1. mpc = "join" /\ UNCHANGED <<sent, numreceived>>
    BY <1>2 DEF Next, vars, mainVars, MainStep, LockFirst, ReceiveData, LockNext,
      UnlockThis, SwapUnlock, SwapLock, LockSecond, Launch, SeeInitialised,
      SeeUninitialised, CondWait, CondWake, UnlockSecond, SendResults,
      ShutUnlock, DrainLock, Join, QuietExit, Iterate, ReceiveTime,
      ReceiveTerminate, AfterFill, SpuriousWakeup, WorkerStep, Start, LockZero,
      UnlockEnd, SetInitialised, Signal, Check, Work, WorkerLockNext,
      WorkerUnlock, ExitUnlock, Teardown, Finished
  <2> QED
    BY <2>1 DEF DrainedInv
<1> QED
  BY <1>1, <1>2

(* Steps that change nothing a CorePipeline has.                           *)
Inside ==
  UNCHANGED <<numreceived, sent, terminate>> /\ (mpc' = "done" <=> mpc = "done")

LEMMA PipelineInit == Init => Pipeline!Init
<1> SUFFICES ASSUME Init PROVE Pipeline!Init
  OBVIOUS
<1>1. Len(sent) = 0 /\ 1 .. Len(sent) = {}
  BY DEF Init
<1>2. [n \in 1 .. Len(sent) |-> FullResultOf(sent[n])] = << >>
  BY <1>1
<1> QED
  BY <1>2 DEF Init, Pipeline!Init

LEMMA PipelineStep ==
  ASSUME IInv, IInv', DrainedInv, [Next]_vars
  PROVE  [Pipeline!Next]_(Pipeline!pipelineVars)
<1>1. /\ InOrder /\ InOrder'
      /\ Len(sent) \in Nat /\ numreceived \in Nat /\ NumThreads \in Nat
  BY ReturnedFirst, InOrderNext, SentCounts, ThreadsAssumption
  DEF IInv, SentInv, InOrder, Returned
<1>2. CASE Inside
  BY <1>2 DEF Inside, Pipeline!pipelineVars
(* Return: one more result has been sent, the one that was next.           *)
<1>3. CASE SendResults \/ DrainSend
  <2>1. /\ \E s \in Slots : sent' = Append(sent, results[s])
        /\ UNCHANGED <<numreceived, terminate>>
        /\ mpc # "done" /\ mpc' # "done"
        /\ mpc \in {"send", "drainsend"}
    <3>1. Index \in Slots
      BY <1>1, SlotType DEF Index
    <3>2. DrainSlot \in Slots
      <4>1. Adjust \in Int /\ drained \in Int
        BY <1>1, RingFacts DEF Adjust, IInv, TypeOK
      <4>2. numreceived + drained + 1 + Adjust \in Int
        BY <1>1, <4>1
      <4> QED
        BY <4>2, SlotType DEF DrainSlot
    <3> QED
      BY <1>3, <3>1, <3>2 DEF SendResults, DrainSend
  <2>2. Len(sent') = Len(sent) + 1
    BY <2>1 DEF IInv, TypeOK
  <2>3. Returned' = Append(Returned, Len(Returned))
    BY <1>1, <2>2, NextResult DEF InOrder
  <2>4. Len(Returned) < numreceived
    BY <1>1, <2>1, SentCounts, NextResult DEF InOrder
  <2>5. Pipeline!Return
    BY <2>1, <2>3, <2>4 DEF Pipeline!Return, Returned
  <2> QED
    BY <2>5 DEF Pipeline!Next
(* Accept: the last mutex of the slot that was filled is given up.         *)
<1>4. CASE UnlockThis
  <2>1. /\ mpc = "unlockthis" /\ mpc' # "done"
        /\ UNCHANGED <<sent, terminate>>
        /\ numreceived' = IF LastIteration THEN numreceived + 1 ELSE numreceived
        /\ ~terminate
    BY <1>4 DEF UnlockThis, Iterate, IInv, MainInv, Filling
  <2>2. CASE ~LastIteration
    BY <1>2, <2>1, <2>2 DEF Inside
  <2>3. CASE LastIteration
    <3>1. numreceived - Len(Returned) < RING /\ Returned' = Returned
      BY <1>1, <2>1, SentCounts, NextResult DEF InOrder
    <3>2. Pipeline!Accept
      BY <2>1, <2>3, <3>1 DEF Pipeline!Accept, Returned
    <3> QED
      BY <3>2 DEF Pipeline!Next
  <2> QED
    BY <2>2, <2>3
(* Close.                                                                  *)
<1>5. CASE ReceiveTerminate
  <2>1. /\ ~terminate /\ terminate' /\ UNCHANGED <<numreceived, sent>>
        /\ mpc # "done" /\ mpc' # "done" /\ terminate' = TRUE
    BY <1>5 DEF ReceiveTerminate, AfterFill, IInv, MainInv, Filling
  <2>2. Pipeline!Close
    BY <2>1 DEF Pipeline!Close
  <2> QED
    BY <2>2 DEF Pipeline!Next
(* Stop: the last thread has been joined, or none was launched.            *)
<1>6. CASE Join \/ QuietExit
  <2>1. /\ UNCHANGED <<numreceived, sent, terminate>> /\ mpc # "done"
        /\ mpc \in {"join", "quit"} /\ terminate
    BY <1>6 DEF Join, QuietExit, Iterate, IInv, MainInv, Ending
  <2>2. CASE mpc' # "done"
    BY <1>2, <2>1, <2>2 DEF Inside
  <2>3. CASE mpc' = "done"
    <3>1. Len(sent) = numreceived
      BY <2>1, SentCounts DEF DrainedInv
    <3>2. Len(Returned) = numreceived /\ Returned' = Returned
      BY <1>1, <2>1, <3>1, NextResult DEF InOrder
    <3>3. Pipeline!Stop
      BY <2>1, <2>3, <3>2 DEF Pipeline!Stop, Returned
    <3> QED
      BY <3>3 DEF Pipeline!Next
  <2> QED
    BY <2>2, <2>3
<1>7. CASE \/ UNCHANGED vars
           \/ LockFirst \/ ReceiveData \/ LockNext \/ SwapUnlock \/ SwapLock
           \/ LockSecond \/ Launch \/ SeeInitialised \/ SeeUninitialised
           \/ CondWait \/ CondWake \/ UnlockSecond \/ ShutUnlock \/ DrainLock
           \/ (\E c \in Configs : ReceiveTime(c)) \/ SpuriousWakeup \/ Finished
  <2>1. Inside
    BY <1>7 DEF Inside, vars, mainVars, LockFirst, ReceiveData, LockNext,
      SwapUnlock, SwapLock, LockSecond, Launch, SeeInitialised,
      SeeUninitialised, CondWait, CondWake, UnlockSecond, ShutUnlock, DrainLock,
      Iterate, ReceiveTime, SpuriousWakeup, Finished
  <2> QED
    BY <1>2, <2>1
<1>8. ASSUME NEW t \in Threads, WorkerStep(t)
      PROVE  [Pipeline!Next]_(Pipeline!pipelineVars)
  <2>1. Inside
    BY <1>8 DEF Inside, mainVars, WorkerStep, Start, LockZero, UnlockEnd,
      SetInitialised, Signal, Check, Work, WorkerLockNext, WorkerUnlock,
      ExitUnlock, Teardown
  <2> QED
    BY <1>2, <2>1
<1> QED
  BY <1>3, <1>4, <1>5, <1>6, <1>7, <1>8 DEF Next, MainStep

(* A Core does what CorePipeline promises the FxManager, step by step: it  *)
(* takes one subintegration at a time and never holds more than RING, gives*)
(* back one result each, in order, takes no more once it has been told to  *)
(* terminate, and stops only when it has given back what it held.          *)
THEOREM StepsOfPipeline == Spec => PipelineSteps
<1>1. IInv /\ IInv' /\ DrainedInv /\ [Next]_vars => DrainedInv'
  BY DrainedStep
<1>2. IInv /\ IInv' /\ DrainedInv /\ [Next]_vars
        => [Pipeline!Next]_(Pipeline!pipelineVars)
  BY PipelineStep
<1>3. Init => Pipeline!Init
  BY PipelineInit
<1> QED
  BY <1>1, <1>2, <1>3, DrainedInit, Invariance, PTL DEF Spec, PipelineSteps
=============================================================================
