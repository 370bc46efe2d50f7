------------------------------ MODULE CoreRing ------------------------------
(***************************************************************************)
(* A Core node: the main thread (Core::execute) fills a ring of RING slots *)
(* with subintegrations, and NumThreads process threads                    *)
(* (Core::loopprocess) each work on their share of every slot.  The only   *)
(* synchronisation is one mutex per slot and thread: the main thread       *)
(* always holds all the mutexes of the slot it is about to fill, and a     *)
(* process thread always holds its own mutex of the slot it is about to    *)
(* process.                                                                *)
(*                                                                         *)
(* A result buffer is abstracted to the shares accumulated in it: for each *)
(* thread, the sequence of subintegrations whose share that thread added   *)
(* since the buffer was zeroed.                                            *)
(***************************************************************************)
EXTENDS Integers, Sequences

CONSTANTS
  NumThreads,   \* numprocessthreads
  RING,         \* RECEIVE_RING_LENGTH, 4 in the code
  Configs,      \* indices of the configurations a scan may have
  FirstConfig,  \* currentconfigindex of the constructor, 0 in the code
  MaxSubints,   \* bound: subintegrations the FxManager sends this Core
  Spurious      \* may pthread_cond_wait return without a signal?

ASSUME ThreadsAssumption == NumThreads \in Nat \ {0}
ASSUME RingAssumption == RING \in Nat /\ RING >= 3
ASSUME ConfigAssumption == FirstConfig \in Configs
ASSUME BoundAssumption == MaxSubints \in Nat /\ Spurious \in BOOLEAN

Threads == 0 .. NumThreads - 1
Slots == 0 .. RING - 1
Slot(k) == k % RING      \* the slot of the k-th subintegration

VARIABLES
  mpc,          \* where the main thread is
  i,            \* the thread index of the main thread's current loop
  numreceived,  \* subintegrations received
  terminate,    \* CR_TERMINATE has been received
  launched,     \* the process threads have been created
  drained,      \* slots sent by the shutdown sequence
  woken,        \* the process condition main waits on has been signalled
  locks,        \* locks[s][t]: holder of procslots[s].slotlocks[t]
  subint,       \* subint[s]: the subintegration whose data is in slot s
  config,       \* config[s]: procslots[s].configindex
  keep,         \* keep[s]: procslots[s].keepprocessing
  results,      \* results[s][t]: shares thread t added to slot s
  wpc,          \* wpc[t]: where process thread t is
  numprocessed, \* numprocessed[t]: slots thread t is done with
  lastconfig,   \* lastconfig[t]: configuration thread t is set up for
  initialised,  \* processthreadinitialised
  sent          \* the result buffers sent to the FxManager, in order

mainVars == <<mpc, i, numreceived, terminate, launched, drained>>
slotVars == <<subint, config, keep>>
workerVars == <<wpc, numprocessed, lastconfig, initialised>>
vars == <<mainVars, woken, locks, slotVars, results, workerVars, sent>>

Last == RING - 1
Second == RING - 2
Free == "free"
Main == "main"
Worker == "worker"

NoShares == [t \in Threads |-> << >>]

MainSteps == {"lockfirst", "offsets", "data", "locknext", "unlockthis",
              "swapunlock", "swaplock", "locksecond", "launch", "waitinit",
              "condwait", "waiting", "unlocksecond", "send", "shutunlock",
              "drainlock", "drainsend", "join", "quit", "done"}
WorkerSteps == {"none", "start", "lockzero", "unlockend", "init", "signal",
                "check", "work", "locknext", "unlockcur", "exitunlock",
                "teardown", "exit"}

(* The main thread's loop counters and the slots' contents are in range:   *)
(* no loop over the threads runs past the last of them.                    *)
TypeOK ==
  /\ mpc \in MainSteps
  /\ i \in Threads
  /\ numreceived \in 0 .. MaxSubints
  /\ terminate \in BOOLEAN
  /\ launched \in BOOLEAN
  /\ drained \in 0 .. RING
  /\ woken \in BOOLEAN
  /\ locks \in [Slots -> [Threads -> {Free, Main, Worker}]]
  /\ subint \in [Slots -> Int]
  /\ config \in [Slots -> Configs]
  /\ keep \in [Slots -> BOOLEAN]
  /\ results \in [Slots -> [Threads -> Seq(Int)]]
  /\ wpc \in [Threads -> WorkerSteps]
  /\ numprocessed \in [Threads -> Nat]
  /\ lastconfig \in [Threads -> Configs]
  /\ initialised \in [Threads -> BOOLEAN]
  /\ sent \in Seq([Threads -> Seq(Int)])

(* The constructor: empty slots set up for the first configuration.        *)
Init ==
  /\ mpc = "lockfirst"
  /\ i = 0
  /\ numreceived = 0
  /\ terminate = FALSE
  /\ launched = FALSE
  /\ drained = 0
  /\ woken = FALSE
  /\ locks = [s \in Slots |-> [t \in Threads |-> Free]]
  /\ subint = [s \in Slots |-> -1]
  /\ config = [s \in Slots |-> FirstConfig]
  /\ keep = [s \in Slots |-> TRUE]
  /\ results = [s \in Slots |-> NoShares]
  /\ wpc = [t \in Threads |-> "none"]
  /\ numprocessed = [t \in Threads |-> 0]
  /\ lastconfig = [t \in Threads |-> FirstConfig]
  /\ initialised = [t \in Threads |-> FALSE]
  /\ sent = << >>

(***************************************************************************)
(* Mutexes, and the main thread's loops over the process threads.          *)
(***************************************************************************)
Acquire(who, s, t) ==
  /\ locks[s][t] = Free
  /\ locks' = [locks EXCEPT ![s][t] = who]

Release(s, t) == locks' = [locks EXCEPT ![s][t] = Free]

(* Mutant: a loop over the process threads that runs once too often.       *)
IterateTooFar(here, after) ==
  /\ mpc = here
  /\ i' = IF i = NumThreads THEN 0 ELSE i + 1
  /\ mpc' = IF i = NumThreads THEN after ELSE here

(* One iteration of `for(i=0;i<numprocessthreads;i++)` at step `here`;     *)
(* after the last one the main thread goes on at step `after`.             *)
Iterate(here, after) ==
  /\ mpc = here
  /\ i' = IF i = NumThreads - 1 THEN 0 ELSE i + 1
  /\ mpc' = IF i = NumThreads - 1 THEN after ELSE here

LastIteration == i = NumThreads - 1

(***************************************************************************)
(* The main thread.                                                        *)
(***************************************************************************)
Index == Slot(numreceived)      \* the slot receivedata is called with

LockFirst ==
  /\ Iterate("lockfirst", "offsets")
  /\ Acquire(Main, 0, i)
  /\ UNCHANGED <<numreceived, terminate, launched, drained, woken, slotVars,
                 results, workerVars, sent>>

(* Where execute goes when the start-up fill ends with n subintegrations.  *)
AfterFill(n) ==
  IF n = 0 THEN "quit" ELSE IF n < Last THEN "swapunlock" ELSE "locksecond"

(* receivedata: the FxManager's message says which time to work on; the    *)
(* slot takes the configuration of that scan.                              *)
ReceiveTime(c) ==
  /\ mpc = "offsets"
  /\ numreceived < MaxSubints
  /\ config' = [config EXCEPT ![Index] = c]
  /\ mpc' = "data"
  /\ UNCHANGED <<i, numreceived, terminate, launched, drained, woken, locks,
                 subint, keep, results, workerVars, sent>>

(* receivedata: CR_TERMINATE instead.  The slot keeps its old contents.    *)
ReceiveTerminate ==
  /\ mpc = "offsets"
  /\ terminate' = TRUE
  /\ keep' = [keep EXCEPT ![Index] = FALSE]
  /\ mpc' = IF launched THEN "shutunlock" ELSE AfterFill(numreceived)
  /\ UNCHANGED <<i, numreceived, launched, drained, woken, locks, subint,
                 config, results, workerVars, sent>>

(* receivedata: the messages of all datastreams have arrived.              *)
ReceiveData ==
  /\ mpc = "data"
  /\ subint' = [subint EXCEPT ![Index] = numreceived]
  /\ mpc' = "locknext"
  /\ UNCHANGED <<i, numreceived, terminate, launched, drained, woken, locks,
                 config, keep, results, workerVars, sent>>

LockNext ==
  /\ Iterate("locknext", "unlockthis")
  /\ Acquire(Main, Slot(numreceived + 1), i)
  /\ UNCHANGED <<numreceived, terminate, launched, drained, woken, slotVars,
                 results, workerVars, sent>>

(* receivedata returns 1: in the start-up fill the next of RING-1 slots is *)
(* next, in the main loop the results of the slot now locked are.          *)
UnlockThis ==
  /\ Iterate("unlockthis",
             IF launched THEN "send"
             ELSE IF numreceived + 1 = Last THEN "locksecond" ELSE "offsets")
  /\ Release(Index, i)
  /\ numreceived' = IF LastIteration THEN numreceived + 1 ELSE numreceived
  /\ UNCHANGED <<terminate, launched, drained, woken, slotVars, results,
                 workerVars, sent>>

(* A job too short to fill the ring: swap the held slot for the last one.  *)
SwapUnlock ==
  /\ mpc = "swapunlock"
  /\ mpc' = "swaplock"
  /\ Release(Index, i)
  /\ UNCHANGED <<i, numreceived, terminate, launched, drained, woken,
                 slotVars, results, workerVars, sent>>

SwapLock ==
  /\ mpc = "swaplock"
  /\ mpc' = IF LastIteration THEN "locksecond" ELSE "swapunlock"
  /\ i' = IF LastIteration THEN 0 ELSE i + 1
  /\ Acquire(Main, Last, i)
  /\ UNCHANGED <<numreceived, terminate, launched, drained, woken, slotVars,
                 results, workerVars, sent>>

LockSecond ==
  /\ Iterate("locksecond", "launch")
  /\ Acquire(Main, Second, i)
  /\ UNCHANGED <<numreceived, terminate, launched, drained, woken, slotVars,
                 results, workerVars, sent>>

Launch ==
  /\ Iterate("launch", "waitinit")
  /\ wpc' = [wpc EXCEPT ![i] = "start"]
  /\ launched' = (launched \/ LastIteration)
  /\ UNCHANGED <<numreceived, terminate, drained, woken, locks, slotVars,
                 results, numprocessed, lastconfig, initialised, sent>>

(* while(!processthreadinitialised[i]) pthread_cond_wait(...)              *)
SeeInitialised ==
  /\ initialised[i]
  /\ Iterate("waitinit", "unlocksecond")
  /\ UNCHANGED <<numreceived, terminate, launched, drained, woken, locks,
                 slotVars, results, workerVars, sent>>

SeeUninitialised ==
  /\ mpc = "waitinit"
  /\ ~initialised[i]
  /\ mpc' = "condwait"
  /\ UNCHANGED <<i, numreceived, terminate, launched, drained, woken, locks,
                 slotVars, results, workerVars, sent>>

CondWait ==
  /\ mpc = "condwait"
  /\ mpc' = "waiting"
  /\ woken' = FALSE
  /\ Release(Last, i)
  /\ UNCHANGED <<i, numreceived, terminate, launched, drained, slotVars,
                 results, workerVars, sent>>

CondWake ==
  /\ mpc = "waiting"
  /\ woken
  /\ Acquire(Main, Last, i)
  /\ mpc' = "waitinit"
  /\ UNCHANGED <<i, numreceived, terminate, launched, drained, woken,
                 slotVars, results, workerVars, sent>>

SpuriousWakeup ==
  /\ Spurious
  /\ mpc = "waiting"
  /\ ~woken
  /\ woken' = TRUE
  /\ UNCHANGED <<mainVars, locks, slotVars, results, workerVars, sent>>

UnlockSecond ==
  /\ Iterate("unlocksecond", IF terminate THEN "shutunlock" ELSE "offsets")
  /\ Release(Second, i)
  /\ UNCHANGED <<numreceived, terminate, launched, drained, woken, slotVars,
                 results, workerVars, sent>>

(* Mutant: the results are not zeroed once they are sent.                   *)
SendResultsOnly ==
  /\ mpc = "send"
  /\ sent' = Append(sent, results[Index])
  /\ mpc' = "offsets"
  /\ UNCHANGED <<i, numreceived, terminate, launched, drained, woken, locks,
                 slotVars, results, workerVars>>

(* MPI_Ssend of the slot whose mutexes main holds, which is then zeroed.   *)
SendResults ==
  /\ mpc = "send"
  /\ sent' = Append(sent, results[Index])
  /\ results' = [results EXCEPT ![Index] = NoShares]
  /\ mpc' = "offsets"
  /\ UNCHANGED <<i, numreceived, terminate, launched, drained, woken, locks,
                 slotVars, workerVars>>

(* Shutdown: tounlock, adjust and countdown of execute.                    *)
ShortJob == numreceived < Last
ToUnlock == IF ShortJob THEN Last ELSE Index
Countdown == IF ShortJob THEN numreceived ELSE Last
AdjustNothing == 0      \* mutant: a short job is drained like a long one
Adjust == IF ShortJob THEN Last - numreceived ELSE 0
DrainSlot == Slot(numreceived + drained + 1 + Adjust)

ShutUnlock ==
  /\ Iterate("shutunlock", "drainlock")
  /\ Release(ToUnlock, i)
  /\ UNCHANGED <<numreceived, terminate, launched, drained, woken, slotVars,
                 results, workerVars, sent>>

(* Mutant: the shutdown sequence does not wait for the process threads.     *)
DrainAtOnce ==
  /\ Iterate("drainlock", "drainsend")
  /\ UNCHANGED <<numreceived, terminate, launched, drained, woken, locks,
                 slotVars, results, workerVars, sent>>

(* Lock and unlock at once: wait until thread i is done with the slot.     *)
DrainLock ==
  /\ Iterate("drainlock", "drainsend")
  /\ locks[DrainSlot][i] = Free
  /\ UNCHANGED <<numreceived, terminate, launched, drained, woken, locks,
                 slotVars, results, workerVars, sent>>

DrainSend ==
  /\ mpc = "drainsend"
  /\ sent' = Append(sent, results[DrainSlot])
  /\ drained' = drained + 1
  /\ mpc' = IF drained + 1 = Countdown THEN "join" ELSE "drainlock"
  /\ UNCHANGED <<i, numreceived, terminate, launched, woken, locks, slotVars,
                 results, workerVars>>

Join ==
  /\ wpc[i] = "exit"
  /\ Iterate("join", "done")
  /\ UNCHANGED <<numreceived, terminate, launched, drained, woken, locks,
                 slotVars, results, workerVars, sent>>

(* Told to terminate before any data: nothing was ever launched.           *)
QuietExit ==
  /\ Iterate("quit", "done")
  /\ Release(0, i)
  /\ UNCHANGED <<numreceived, terminate, launched, drained, woken, slotVars,
                 results, workerVars, sent>>

MainStep ==
  \/ LockFirst \/ ReceiveData \/ LockNext \/ UnlockThis
  \/ SwapUnlock \/ SwapLock \/ LockSecond \/ Launch
  \/ SeeInitialised \/ SeeUninitialised \/ CondWait \/ CondWake
  \/ UnlockSecond \/ SendResults \/ ShutUnlock \/ DrainLock \/ DrainSend
  \/ Join \/ QuietExit

(***************************************************************************)
(* A process thread.                                                       *)
(***************************************************************************)
Here(t) == Slot(numprocessed[t])
Ahead(t) == Slot(numprocessed[t] + 1)

Go(t, here, there) ==
  /\ wpc[t] = here
  /\ wpc' = [wpc EXCEPT ![t] = there]

(* Set up for the configuration of slot 0, then take the end slot ...      *)
Start(t) ==
  /\ Go(t, "start", "lockzero")
  /\ lastconfig' = [lastconfig EXCEPT ![t] = config[0]]
  /\ Acquire(Worker, Last, t)
  /\ UNCHANGED <<mainVars, woken, slotVars, results, numprocessed,
                 initialised, sent>>

(* ... then slot 0 ...                                                     *)
LockZero(t) ==
  /\ Go(t, "lockzero", "unlockend")
  /\ Acquire(Worker, 0, t)
  /\ UNCHANGED <<mainVars, woken, slotVars, results, numprocessed, lastconfig,
                 initialised, sent>>

(* ... and give the end slot back to the main thread.                      *)
UnlockEnd(t) ==
  /\ Go(t, "unlockend", "init")
  /\ Release(Last, t)
  /\ UNCHANGED <<mainVars, woken, slotVars, results, numprocessed, lastconfig,
                 initialised, sent>>

SetInitialised(t) ==
  /\ Go(t, "init", "signal")
  /\ initialised' = [initialised EXCEPT ![t] = TRUE]
  /\ UNCHANGED <<mainVars, woken, locks, slotVars, results, numprocessed,
                 lastconfig, sent>>

(* Mutant: the thread does not signal that it is initialised.               *)
SignalNobody(t) ==
  /\ Go(t, "signal", "check")
  /\ UNCHANGED <<mainVars, woken, locks, slotVars, results, numprocessed,
                 lastconfig, initialised, sent>>

(* pthread_cond_signal wakes the main thread if it waits on condition t.   *)
Signal(t) ==
  /\ Go(t, "signal", "check")
  /\ woken' = (woken \/ (mpc = "waiting" /\ i = t))
  /\ UNCHANGED <<mainVars, locks, slotVars, results, numprocessed, lastconfig,
                 initialised, sent>>

(* The head of the loop: follow a change of configuration, then process    *)
(* the slot unless the main thread has marked it as the end.               *)
Check(t) ==
  /\ wpc[t] = "check"
  /\ lastconfig' = [lastconfig EXCEPT ![t] = config[Here(t)]]
  /\ wpc' = [wpc EXCEPT ![t] = IF keep[Here(t)] THEN "work" ELSE "exitunlock"]
  /\ UNCHANGED <<mainVars, woken, locks, slotVars, results, numprocessed,
                 initialised, sent>>

(* processdata: add this thread's share of the slot to its results.        *)
Work(t) ==
  /\ Go(t, "work", "locknext")
  /\ results' = [results EXCEPT ![Here(t)][t] = Append(@, subint[Here(t)])]
  /\ UNCHANGED <<mainVars, woken, locks, slotVars, numprocessed, lastconfig,
                 initialised, sent>>

(* Mutant: the thread gives up its slot before it has the next one.         *)
WorkerUnlockFirst(t) ==
  /\ Go(t, "locknext", "unlockcur")
  /\ locks' = [locks EXCEPT ![Here(t)][t] = Free]
  /\ UNCHANGED <<mainVars, woken, slotVars, results, numprocessed, lastconfig,
                 initialised, sent>>

(* processdata ends by locking the next slot, then unlocking this one.     *)
WorkerLockNext(t) ==
  /\ Go(t, "locknext", "unlockcur")
  /\ Acquire(Worker, Ahead(t), t)
  /\ UNCHANGED <<mainVars, woken, slotVars, results, numprocessed, lastconfig,
                 initialised, sent>>

WorkerUnlock(t) ==
  /\ Go(t, "unlockcur", "check")
  /\ Release(Here(t), t)
  /\ numprocessed' = [numprocessed EXCEPT ![t] = @ + 1]
  /\ UNCHANGED <<mainVars, woken, slotVars, results, lastconfig, initialised,
                 sent>>

ExitUnlock(t) ==
  /\ Go(t, "exitunlock", "teardown")
  /\ Release(Here(t), t)
  /\ UNCHANGED <<mainVars, woken, slotVars, results, numprocessed, lastconfig,
                 initialised, sent>>

(* Free the scratch space.                                                 *)
Teardown(t) ==
  /\ Go(t, "teardown", "exit")
  /\ UNCHANGED <<mainVars, woken, locks, slotVars, results, numprocessed,
                 lastconfig, initialised, sent>>

WorkerStep(t) ==
  \/ Start(t) \/ LockZero(t) \/ UnlockEnd(t) \/ SetInitialised(t) \/ Signal(t)
  \/ Check(t) \/ Work(t) \/ WorkerLockNext(t) \/ WorkerUnlock(t)
  \/ ExitUnlock(t) \/ Teardown(t)

Finished ==
  /\ mpc = "done"
  /\ UNCHANGED vars

Next ==
  \/ MainStep
  \/ \E c \in Configs : ReceiveTime(c)
  \/ ReceiveTerminate
  \/ SpuriousWakeup
  \/ \E t \in Threads : WorkerStep(t)
  \/ Finished

(* Both kinds of thread run, a mutex that stays free is eventually got,    *)
(* and the FxManager eventually says what to do next (its next message is  *)
(* a time or, at the end of the job at the latest, CR_TERMINATE).          *)
Fairness ==
  /\ WF_vars(MainStep)
  /\ WF_vars(ReceiveTerminate \/ \E c \in Configs : ReceiveTime(c))
  /\ \A t \in Threads : WF_vars(WorkerStep(t))

Spec == Init /\ [][Next]_vars /\ Fairness
-----------------------------------------------------------------------------
(***************************************************************************)
(* Properties.                                                             *)
(***************************************************************************)
(* The slot whose time, data or results the main thread may touch now.     *)
MainIn(s) ==
  \/ mpc \in {"offsets", "data", "send"} /\ s = Index
  \/ mpc = "drainsend" /\ s = DrainSlot

WorkerIn(t, s) == wpc[t] \in {"check", "work"} /\ s = Here(t)

(* The main thread never fills, sends or zeroes a slot that some process   *)
(* thread is reading or accumulating into (core.cpp: the slotlocks), also  *)
(* in the shutdown sequence, where main sends without holding the mutexes. *)
SlotExclusion ==
  \A s \in Slots : MainIn(s) => \A t \in Threads : ~WorkerIn(t, s)

(* A process thread that processes its n-th slot finds the n-th received   *)
(* subintegration there: it never laps the main thread round the ring and  *)
(* never processes a slot that has not been filled yet.                    *)
WorkersSeeTheirSubint ==
  \A t \in Threads : wpc[t] = "work" => subint[Here(t)] = numprocessed[t]

(* The n-th message sent to the FxManager holds the share of every thread  *)
(* of the n-th received subintegration, each exactly once and nothing      *)
(* else: no result is sent early, twice, or on top of an old one.          *)
SentCompleteInOrder ==
  \A n \in 1 .. Len(sent) : sent[n] = [t \in Threads |-> <<n - 1>>]

(* Once told to terminate, the Core stops with all its threads ended.      *)
Terminates ==
  terminate ~> (mpc = "done" /\ \A t \in Threads : wpc[t] \in {"none", "exit"})

(* The number of the subintegration a result buffer is the full result of. *)
FullResultOf(r) ==
  IF Len(r[0]) = 1 /\ \A t \in Threads : r[t] = r[0] THEN r[0][1] ELSE -1

(* The ring and its threads implement the FIFO pipeline of CorePipeline.   *)
Pipeline == INSTANCE CorePipeline WITH
  accepted <- numreceived,
  returned <- [n \in 1 .. Len(sent) |-> FullResultOf(sent[n])],
  closed   <- terminate,
  stopped  <- mpc = "done"

ImplementsPipeline == Pipeline!Spec

=============================================================================
