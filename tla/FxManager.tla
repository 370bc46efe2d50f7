----------------------------- MODULE FxManager ------------------------------
(***************************************************************************)
(* The FxManager: its main thread hands subintegrations to the Cores, adds *)
(* the results that come back to a ring of VisLength Visibility objects,   *)
(* and its write thread writes the Visibilities out one after the other.   *)
(*                                                                         *)
(* Mutex bufferlock[s] protects Visibility s.  The main thread holds those *)
(* of the Visibilities oldestlockedvis .. newestlockedvis that are still   *)
(* being accumulated; the write thread always holds the one of the last    *)
(* Visibility it wrote while it waits for the next.                        *)
(*                                                                         *)
(* Time is counted in subintegrations from the start of the job, scan      *)
(* after scan; a scan is divided into integrations of intTime each, the    *)
(* last of which may be cut short.  A result is the number of the          *)
(* subintegration it came from.  A Core is the FIFO of what it was told to *)
(* do, see CorePipeline.                                                   *)
(***************************************************************************)
EXTENDS Integers, Sequences, FiniteSets

CONSTANTS
  NumCores,       \* numcores
  RING,           \* Core::RECEIVE_RING_LENGTH
  VisLength,      \* config->getVisBufferLength()
  Scans,          \* the scans: [subints, intTime], both in subintegrations
  StartupRace     \* may the write thread signal between the constructor's
                  \* test of writethreadinitialised and its cond_wait?

ASSUME CoresAssumption == NumCores \in Nat \ {0} /\ RING \in Nat \ {0}
ASSUME VisAssumption == VisLength \in Nat /\ VisLength >= 4
ASSUME ScansAssumption ==
  Scans \in Seq([subints : Nat \ {0}, intTime : Nat \ {0}]) /\ Scans # << >>
ASSUME StartupAssumption == StartupRace \in BOOLEAN

Cores == 0 .. NumCores - 1
VisSlots == 0 .. VisLength - 1
NumScans == Len(Scans)

(* The subintegrations of scan k are ScanEnd[k-1] .. ScanEnd[k] - 1 ...    *)
ScanEnd[k \in 0 .. NumScans] ==
  IF k = 0 THEN 0 ELSE ScanEnd[k - 1] + Scans[k].subints
MaxSubints == ScanEnd[NumScans]
Subints == 0 .. MaxSubints - 1
ScanOf(n) == CHOOSE k \in 1 .. NumScans : ScanEnd[k - 1] <= n /\ n < ScanEnd[k]

(* ... and its integrations are VisEnd[k-1] .. VisEnd[k] - 1.              *)
VisEnd[k \in 0 .. NumScans] ==
  IF k = 0 THEN 0
  ELSE VisEnd[k - 1]
         + ((Scans[k].subints + Scans[k].intTime - 1) \div Scans[k].intTime)
PastEnd(v) == v >= VisEnd[NumScans]
VisScan(v) == CHOOSE k \in 1 .. NumScans : VisEnd[k - 1] <= v /\ v < VisEnd[k]
VisStart(v) ==
  LET k == VisScan(v)
  IN ScanEnd[k - 1] + (v - VisEnd[k - 1]) * Scans[k].intTime

(* The integration subintegration n belongs to.                            *)
IntegrationOf(n) ==
  LET k == ScanOf(n)
  IN VisEnd[k - 1] + ((n - ScanEnd[k - 1]) \div Scans[k].intTime)

VARIABLES
  mpc,            \* where the main thread is
  sending,        \* execute is in the loop that sends out subintegrations
  next,           \* the next subintegration to send (senddata, sendcount)
  numsent,        \* numsent[c]
  extrareceived,  \* extrareceived[c]
  coretimes,      \* coretimes[k][c]
  queue,          \* queue[c]: sent to Core c, result not yet received
  drain,          \* results still to be received after the last send
  from,           \* sourceid of the result being handled
  result,         \* resultbuffer: the subintegration the result is of
  visindex,       \* visindex, -1 for stale data
  count,          \* loop counter of locateVisIndex and of the final unlock
  oldest,         \* oldestlockedvis
  newest,         \* newestlockedvis
  islocked,       \* islocked[s]
  lock,           \* lock[s]: holder of bufferlock[s]
  vis,            \* vis[s]: the integration Visibility s stands for
  acc,            \* acc[s]: subintegrations added to Visibility s
  keepwriting,    \* keepwriting
  initialised,    \* writethreadinitialised
  woken,          \* writecond has been signalled to the waiting main thread
  wpc,            \* where the write thread is
  ws,             \* writesegment
  wi,             \* loop counter of the last loop of loopwrite
  written,        \* the integrations written, in order
  stale,          \* results ignored with a warning
  forced,         \* results placed after dropping data to catch up
  abandoned       \* integrations given up before they were complete

coreVars == <<next, numsent, extrareceived, coretimes, queue>>
ringVars == <<oldest, newest, islocked, lock>>
visVars == <<vis, acc>>
writerVars == <<initialised, wpc, ws, wi, written>>
logVars == <<stale, forced, abandoned>>
mainVars == <<mpc, sending, coreVars, drain, from, result, visindex, count,
              oldest, newest, islocked, keepwriting, logVars>>
vars == <<mpc, sending, coreVars, drain, from, result, visindex, count,
          ringVars, visVars, keepwriting, woken, writerVars, logVars>>

Free == "free"
Main == "main"
Writer == "writer"
NoResult == -1

Locating == {"locate", "search", "extend", "catchup", "relock"}
MainSteps == {"testinit", "condwait", "waiting", "loop", "resend", "add",
              "locknext", "release", "unlockall", "join", "done"}
               \cup Locating
WriterSteps == {"lockend", "init", "signal", "check", "lock", "unlockprev",
                "write", "increment", "lastunlock", "final", "exit"}

Integrations == [vis : Nat, subints : SUBSET Subints]

(* The ring indices never leave the ring of Visibilities, and a result     *)
(* still to be received at the end is one that is still owed.              *)
TypeOK ==
  /\ mpc \in MainSteps
  /\ sending \in BOOLEAN
  /\ next \in 0 .. MaxSubints
  /\ numsent \in [Cores -> Nat]
  /\ extrareceived \in [Cores -> Nat]
  /\ coretimes \in [0 .. RING - 1 -> [Cores -> Subints \cup {NoResult}]]
  /\ queue \in [Cores -> Seq(Subints)]
  /\ drain \in 0 .. RING * NumCores
  /\ from \in Cores
  /\ result \in Subints \cup {NoResult}
  /\ visindex \in VisSlots \cup {-1}
  /\ count \in 0 .. VisLength
  /\ oldest \in VisSlots
  /\ newest \in VisSlots
  /\ islocked \in [VisSlots -> BOOLEAN]
  /\ lock \in [VisSlots -> {Free, Main, Writer}]
  /\ vis \in [VisSlots -> Nat]
  /\ acc \in [VisSlots -> SUBSET Subints]
  /\ keepwriting \in BOOLEAN
  /\ initialised \in BOOLEAN
  /\ woken \in BOOLEAN
  /\ wpc \in WriterSteps
  /\ ws \in VisSlots
  /\ wi \in 0 .. VisLength
  /\ written \in Seq(Integrations)
  /\ stale \subseteq Subints
  /\ forced \subseteq Subints
  /\ abandoned \subseteq Nat

(* The constructor up to the launch of the write thread.                   *)
Init ==
  /\ mpc = "testinit"
  /\ sending = TRUE
  /\ next = 0
  /\ numsent = [c \in Cores |-> 0]
  /\ extrareceived = [c \in Cores |-> 0]
  /\ coretimes = [k \in 0 .. RING - 1 |-> [c \in Cores |-> NoResult]]
  /\ queue = [c \in Cores |-> << >>]
  /\ drain = 0
  /\ from = 0
  /\ result = NoResult
  /\ visindex = -1
  /\ count = 0
  /\ oldest = 0
  /\ newest = 1
  /\ islocked = [s \in VisSlots |-> s \in {0, 1}]
  /\ lock = [s \in VisSlots |-> IF s \in {0, 1} THEN Main ELSE Free]
  /\ vis = [s \in VisSlots |-> s]
  /\ acc = [s \in VisSlots |-> {}]
  /\ keepwriting = TRUE
  /\ initialised = FALSE
  /\ woken = FALSE
  /\ wpc = "lockend"
  /\ ws = 0
  /\ wi = 0
  /\ written = << >>
  /\ stale = {}
  /\ forced = {}
  /\ abandoned = {}

(***************************************************************************)
(* The ring of Visibilities.                                               *)
(***************************************************************************)
Wrap(s) == s % VisLength
Span == Wrap(newest - oldest + VisLength)
Acquire(who, s) == lock[s] = Free /\ lock' = [lock EXCEPT ![s] = who]
Release(s) == lock' = [lock EXCEPT ![s] = Free]

(* while(!islocked[oldestlockedvis]) oldestlockedvis++, from slot s on.    *)
Steps(s, locked) ==
  CHOOSE k \in 0 .. VisLength - 1 :
    locked[Wrap(s + k)] /\ \A j \in 0 .. k - 1 : ~locked[Wrap(s + j)]

(* Unlock the oldest Visibility, whether it is full or not.                *)
GiveUpOldestInPlace ==      \* mutant: oldestlockedvis is not moved on
  /\ Release(oldest)
  /\ islocked' = [islocked EXCEPT ![oldest] = FALSE]
  /\ abandoned' = abandoned \cup {vis[oldest]}
  /\ UNCHANGED oldest

GiveUpOldest ==
  /\ Release(oldest)
  /\ islocked' = [islocked EXCEPT ![oldest] = FALSE]
  /\ oldest' = Wrap(oldest + Steps(oldest, islocked'))
  /\ abandoned' = abandoned \cup {vis[oldest]}

LockNewest ==
  /\ newest' = Wrap(newest + 1)
  /\ Acquire(Main, newest')
  /\ islocked' = [islocked EXCEPT ![newest'] = TRUE]

(* Subintegrations in a full integration; a Visibility past the end of the *)
(* job keeps the configuration of the last scan.                           *)
FullCount(v) == Scans[IF PastEnd(v) THEN NumScans ELSE VisScan(v)].intTime

OneTooFew(v) == FullCount(v) - 1      \* mutant: complete too early

(* How many subintegrations make integration v complete: fewer for one     *)
(* that is cut off by the end of its scan, unless it is the scan's first.  *)
Expected(v) ==
  IF /\ ~PastEnd(v)
     /\ VisStart(v) > ScanEnd[VisScan(v) - 1]
     /\ VisStart(v) + FullCount(v) > ScanEnd[VisScan(v)]
  THEN ScanEnd[VisScan(v)] - VisStart(v) ELSE FullCount(v)

(***************************************************************************)
(* Start-up: the constructor waits for the write thread.                   *)
(***************************************************************************)
TestInitialised ==
  /\ mpc = "testinit"
  /\ mpc' = IF initialised THEN "loop" ELSE "condwait"
  /\ UNCHANGED <<sending, coreVars, drain, from, result, visindex, count,
                 ringVars, visVars, keepwriting, woken, writerVars, logVars>>

CondWait ==
  /\ mpc = "condwait"
  /\ mpc' = "waiting"
  /\ woken' = FALSE
  /\ Release(1)
  /\ UNCHANGED <<sending, coreVars, drain, from, result, visindex, count,
                 oldest, newest, islocked, visVars, keepwriting, writerVars,
                 logVars>>

CondWake ==
  /\ mpc = "waiting"
  /\ woken
  /\ Acquire(Main, 1)
  /\ mpc' = "testinit"
  /\ UNCHANGED <<sending, coreVars, drain, from, result, visindex, count,
                 oldest, newest, islocked, visVars, keepwriting, woken,
                 writerVars, logVars>>

SpuriousWakeup ==
  /\ mpc = "waiting"
  /\ ~woken
  /\ woken' = TRUE
  /\ UNCHANGED <<mainVars, lock, visVars, writerVars>>

(***************************************************************************)
(* Sending and receiving.                                                  *)
(***************************************************************************)
Filling == next < RING * NumCores

(* Tell Core c (and all Datastreams) to process the next subintegration.   *)
SendData(c) ==
  /\ queue' = [queue EXCEPT ![c] = Append(@, next)]
  /\ coretimes' = [coretimes EXCEPT ![numsent[c] % RING][c] = next]
  /\ numsent' = [numsent EXCEPT ![c] = @ + 1]
  /\ next' = next + 1
  /\ UNCHANGED extrareceived

SendFill ==
  /\ mpc = "loop"
  /\ sending
  /\ next < MaxSubints
  /\ Filling
  /\ SendData(next % NumCores)
  /\ UNCHANGED <<mpc, sending, drain, from, result, visindex, count, ringVars,
                 visVars, keepwriting, woken, writerVars, logVars>>

(* The end of the job, or SIGINT, which is only caught once the Cores have *)
(* been filled.                                                            *)
StopSending ==
  /\ mpc = "loop"
  /\ sending
  /\ next = MaxSubints \/ ~Filling
  /\ sending' = FALSE
  /\ drain' = IF Filling THEN next ELSE RING * NumCores
  /\ UNCHANGED <<mpc, coreVars, from, result, visindex, count, ringVars,
                 visVars, keepwriting, woken, writerVars, logVars>>

(* A result arrives from whichever Core has one first.                     *)
Receive(c) ==
  /\ mpc = "loop"
  /\ IF sending THEN next < MaxSubints /\ ~Filling ELSE drain > 0
  /\ queue[c] # << >>
  /\ from' = c
  /\ result' = Head(queue[c])
  /\ queue' = [queue EXCEPT ![c] = Tail(@)]
  /\ mpc' = "locate"
  /\ UNCHANGED <<sending, next, numsent, extrareceived, coretimes, drain,
                 visindex, count, ringVars, visVars, keepwriting, woken,
                 writerVars, logVars>>

(* Mutant: a drained result is looked up like one in the main loop.        *)
InfoIndexOfSent(c) == numsent[c] % RING

(* When the result's time was noted: its entry in coretimes.               *)
InfoIndex(c) ==
  IF numsent[c] < RING THEN extrareceived[c]
  ELSE (numsent[c] + extrareceived[c]) % RING
CoreTime == coretimes[InfoIndex(from)][from]

(***************************************************************************)
(* locateVisIndex.                                                         *)
(***************************************************************************)
(* inttime is that of the scan execute is at, not that of the result.  Its *)
(* loop over the scans runs to the last one even after SIGINT.             *)
IntTime == Scans[IF sending THEN ScanOf(next) ELSE NumScans].intTime

SameScan(s) == ~PastEnd(vis[s]) /\ ScanOf(CoreTime) = VisScan(vis[s])
LaterScan(s) == ~PastEnd(vis[s]) /\ ScanOf(CoreTime) > VisScan(vis[s])
                                                        \* LLONG_MAX
(* difference >= 0                                                         *)
NotBefore(s) ==
  LaterScan(s) \/ (SameScan(s) /\ VisStart(vis[s]) <= CoreTime)

NotAfterInclusive(s) ==      \* mutant: difference <= inttime
  ~LaterScan(s) /\ (SameScan(s) => CoreTime <= VisStart(vis[s]) + IntTime)

(* difference < inttime                                                    *)
NotAfter(s) ==
  ~LaterScan(s) /\ (SameScan(s) => CoreTime < VisStart(vis[s]) + IntTime)

(* Never lock the ring so full that the write thread has no room.          *)
Locate ==
  /\ mpc = "locate"
  /\ mpc' = "search"
  /\ IF Span >= VisLength - 3
     THEN GiveUpOldest ELSE UNCHANGED <<lock, islocked, oldest, abandoned>>
  /\ UNCHANGED <<sending, coreVars, drain, from, result, visindex, count,
                 newest, visVars, keepwriting, woken, writerVars, stale,
                 forced>>

Matches == {k \in 0 .. Span : LET s == Wrap(oldest + k)
                              IN NotBefore(s) /\ NotAfter(s)}

SearchFound ==
  /\ mpc = "search"
  /\ \E k \in Matches : /\ \A j \in Matches : k <= j
                        /\ visindex' = Wrap(oldest + k)
  /\ mpc' = "resend"
  /\ UNCHANGED <<sending, coreVars, drain, from, result, count, ringVars,
                 visVars, keepwriting, woken, writerVars, logVars>>

SearchStale ==
  /\ mpc = "search"
  /\ \A k \in 0 .. Span : ~NotBefore(Wrap(oldest + k))
  /\ visindex' = -1
  /\ mpc' = "resend"
  /\ UNCHANGED <<sending, coreVars, drain, from, result, count, ringVars,
                 visVars, keepwriting, woken, writerVars, logVars>>

SearchNewer ==
  /\ mpc = "search"
  /\ Matches = {}
  /\ \E k \in 0 .. Span : NotBefore(Wrap(oldest + k))
  /\ mpc' = "extend"
  /\ UNCHANGED <<sending, coreVars, drain, from, result, visindex, count,
                 ringVars, visVars, keepwriting, woken, writerVars, logVars>>

(* Lock more Visibilities until the one that is wanted is reached ...      *)
Extend ==
  /\ mpc = "extend"
  /\ Span < VisLength - 3
  /\ LockNewest
  /\ IF NotAfter(newest')
     THEN mpc' = "resend" /\ visindex' = newest'
     ELSE UNCHANGED <<mpc, visindex>>
  /\ UNCHANGED <<sending, coreVars, drain, from, result, count, oldest,
                 visVars, keepwriting, woken, writerVars, logVars>>

(* ... or there is no room, and old ones have to be given up.              *)
ExtendFull ==
  /\ mpc = "extend"
  /\ Span >= VisLength - 3
  /\ mpc' = "catchup"
  /\ forced' = forced \cup {result}
  /\ UNCHANGED <<sending, coreVars, drain, from, result, visindex, count,
                 ringVars, visVars, keepwriting, woken, writerVars, stale,
                 abandoned>>

(* while(difference > inttime): difference is in nanoseconds and inttime   *)
(* in seconds, so it stops only at a Visibility that starts after the data.*)
CatchUp ==
  /\ mpc = "catchup"
  /\ NotBefore(newest)
  /\ GiveUpOldest
  /\ count' = Steps(oldest, islocked')
  /\ mpc' = "relock"
  /\ UNCHANGED <<sending, coreVars, drain, from, result, visindex, newest,
                 visVars, keepwriting, woken, writerVars, stale, forced>>

CaughtUp ==
  /\ mpc = "catchup"
  /\ ~NotBefore(newest)
  /\ visindex' = newest
  /\ mpc' = "resend"
  /\ UNCHANGED <<sending, coreVars, drain, from, result, count, ringVars,
                 visVars, keepwriting, woken, writerVars, logVars>>

(* Lock as many new Visibilities as were given up.                         *)
Relock ==
  /\ mpc = "relock"
  /\ LockNewest
  /\ count' = IF NotAfter(newest') THEN 0 ELSE count - 1
  /\ mpc' = IF count' = 0 THEN "catchup" ELSE "relock"
  /\ UNCHANGED <<sending, coreVars, drain, from, result, visindex, oldest,
                 visVars, keepwriting, woken, writerVars, logVars>>

(***************************************************************************)
(* The rest of receiveData: keep the Core busy, then store the result.     *)
(***************************************************************************)
Resend ==
  /\ mpc = "resend"
  /\ IF sending
     THEN SendData(from) /\ UNCHANGED drain
     ELSE /\ extrareceived' = [extrareceived EXCEPT ![from] = @ + 1]
          /\ drain' = drain - 1
          /\ UNCHANGED <<next, numsent, coretimes, queue>>
  /\ IF visindex = -1
     THEN mpc' = "loop" /\ stale' = stale \cup {result}
     ELSE mpc' = "add" /\ UNCHANGED stale
  /\ UNCHANGED <<sending, from, result, visindex, count, ringVars, visVars,
                 keepwriting, woken, writerVars, forced,
                 abandoned>>

AddData ==
  /\ mpc = "add"
  /\ acc' = [acc EXCEPT ![visindex] = @ \cup {result}]
  /\ mpc' = IF Cardinality(acc'[visindex]) < Expected(vis[visindex])
            THEN "loop"
            ELSE IF visindex = newest THEN "locknext" ELSE "release"
  /\ UNCHANGED <<sending, coreVars, drain, from, result, visindex, count,
                 ringVars, vis, keepwriting, woken, writerVars, logVars>>

LockNext ==
  /\ mpc = "locknext"
  /\ LockNewest
  /\ mpc' = "release"
  /\ UNCHANGED <<sending, coreVars, drain, from, result, visindex, count,
                 oldest, visVars, keepwriting, woken, writerVars, logVars>>

(* Mutant: islocked still says that main holds the Visibility.             *)
ReleaseUnmarked ==
  /\ mpc = "release"
  /\ Release(visindex)
  /\ mpc' = "loop"
  /\ UNCHANGED <<sending, coreVars, drain, from, result, visindex, count,
                 oldest, newest, islocked, visVars, keepwriting, woken,
                 writerVars, logVars>>

(* A complete Visibility goes to the write thread.                         *)
ReleaseVis ==
  /\ mpc = "release"
  /\ Release(visindex)
  /\ islocked' = [islocked EXCEPT ![visindex] = FALSE]
  /\ oldest' = IF oldest = visindex
               THEN Wrap(oldest + Steps(oldest, islocked')) ELSE oldest
  /\ mpc' = "loop"
  /\ UNCHANGED <<sending, coreVars, drain, from, result, visindex, count,
                 newest, visVars, keepwriting, woken, writerVars, logVars>>

(***************************************************************************)
(* The end: let the write thread have everything, and wait for it.         *)
(***************************************************************************)
StopWriting ==
  /\ mpc = "loop"
  /\ ~sending
  /\ drain = 0
  /\ keepwriting' = FALSE
  /\ count' = 0
  /\ mpc' = "unlockall"
  /\ UNCHANGED <<sending, coreVars, drain, from, result, visindex, ringVars,
                 visVars, woken, writerVars, logVars>>

UnlockAfterOldest ==      \* mutant: starts one Visibility too late
  /\ mpc = "unlockall"
  /\ Release(Wrap(oldest + count + 1))
  /\ count' = count + 1
  /\ mpc' = IF count = Span THEN "join" ELSE "unlockall"
  /\ UNCHANGED <<sending, coreVars, drain, from, result, visindex, oldest,
                 newest, islocked, visVars, keepwriting, woken, writerVars,
                 logVars>>

UnlockAll ==
  /\ mpc = "unlockall"
  /\ Release(Wrap(oldest + count))
  /\ count' = count + 1
  /\ mpc' = IF count = Span THEN "join" ELSE "unlockall"
  /\ UNCHANGED <<sending, coreVars, drain, from, result, visindex, oldest,
                 newest, islocked, visVars, keepwriting, woken, writerVars,
                 logVars>>

Join ==
  /\ mpc = "join"
  /\ wpc = "exit"
  /\ mpc' = "done"
  /\ UNCHANGED <<sending, coreVars, drain, from, result, visindex, count,
                 ringVars, visVars, keepwriting, woken, writerVars, logVars>>

MainStep ==
  \/ TestInitialised \/ CondWait \/ CondWake
  \/ SendFill \/ Locate \/ SearchFound \/ SearchStale \/ SearchNewer
  \/ Extend \/ ExtendFull \/ CatchUp \/ CaughtUp \/ Relock
  \/ Resend \/ AddData \/ LockNext \/ ReleaseVis
  \/ StopWriting \/ UnlockAll \/ Join

(***************************************************************************)
(* The write thread.                                                       *)
(***************************************************************************)
Previous == Wrap(ws + VisLength - 1)

WGo(here, there) == wpc = here /\ wpc' = there

LockEnd ==
  /\ WGo("lockend", "init")
  /\ Acquire(Writer, VisLength - 1)
  /\ UNCHANGED <<mainVars, visVars, woken, initialised, ws, wi, written>>

SetInitialised ==
  /\ WGo("init", "signal")
  /\ initialised' = TRUE
  /\ UNCHANGED <<mainVars, lock, visVars, woken, ws, wi, written>>

Signal ==
  /\ WGo("signal", "check")
  /\ StartupRace \/ mpc # "condwait"
  /\ woken' = (mpc = "waiting")
  /\ UNCHANGED <<mainVars, lock, visVars, initialised, ws, wi, written>>

CheckKeepWriting ==
  /\ WGo("check", IF keepwriting THEN "lock" ELSE "lastunlock")
  /\ UNCHANGED <<mainVars, lock, visVars, woken, initialised, ws, wi, written>>

LockSegment ==
  /\ WGo("lock", "unlockprev")
  /\ Acquire(Writer, ws)
  /\ UNCHANGED <<mainVars, visVars, woken, initialised, ws, wi, written>>

UnlockPrevious ==
  /\ WGo("unlockprev", "write")
  /\ Release(Previous)
  /\ UNCHANGED <<mainVars, visVars, woken, initialised, ws, wi, written>>

(* What writedata writes of Visibility s: nothing if nothing was added or  *)
(* if it is past the end of the correlation.                               *)
Output(s) ==
  IF acc[s] = {} \/ PastEnd(vis[s])
  THEN << >> ELSE <<[vis |-> vis[s], subints |-> acc[s]]>>

WriteSegment ==
  /\ WGo("write", "increment")
  /\ written' = written \o Output(ws)
  /\ UNCHANGED <<mainVars, lock, visVars, woken, initialised, ws, wi>>

IncrementKeepingData ==      \* mutant: the results are not zeroed
  /\ WGo("increment", "check")
  /\ vis' = IF PastEnd(vis[ws])
            THEN vis ELSE [vis EXCEPT ![ws] = @ + VisLength]
  /\ ws' = Wrap(ws + 1)
  /\ UNCHANGED <<mainVars, lock, acc, woken, initialised, wi, written>>

IncrementUnwrapped ==      \* mutant: writesegment runs off the ring
  /\ WGo("increment", "check")
  /\ ws' = ws + 1
  /\ UNCHANGED <<mainVars, lock, visVars, woken, initialised, wi, written>>

(* Visibility::increment does nothing once past the end.                   *)
Increment ==
  /\ WGo("increment", "check")
  /\ IF PastEnd(vis[ws])
     THEN UNCHANGED visVars
     ELSE /\ vis' = [vis EXCEPT ![ws] = @ + VisLength]
          /\ acc' = [acc EXCEPT ![ws] = {}]
  /\ ws' = Wrap(ws + 1)
  /\ UNCHANGED <<mainVars, lock, woken, initialised, wi, written>>

LastUnlock ==
  /\ WGo("lastunlock", "final")
  /\ Release(Previous)
  /\ UNCHANGED <<mainVars, visVars, woken, initialised, ws, wi, written>>

FinalWriteRest ==      \* mutant: the first of the ring is left out
  /\ wpc = "final"
  /\ written' = written \o (IF wi = 0 THEN << >> ELSE Output(Wrap(ws + wi)))
  /\ wi' = wi + 1
  /\ wpc' = IF wi' = VisLength THEN "exit" ELSE "final"
  /\ UNCHANGED <<mainVars, lock, visVars, woken, initialised, ws>>

(* Everything that is left, without a lock: main adds nothing any more.    *)
FinalWrite ==
  /\ wpc = "final"
  /\ written' = written \o Output(Wrap(ws + wi))
  /\ wi' = wi + 1
  /\ wpc' = IF wi' = VisLength THEN "exit" ELSE "final"
  /\ UNCHANGED <<mainVars, lock, visVars, woken, initialised, ws>>

WriterStep ==
  \/ LockEnd \/ SetInitialised \/ Signal \/ CheckKeepWriting \/ LockSegment
  \/ UnlockPrevious \/ WriteSegment \/ Increment \/ LastUnlock \/ FinalWrite

Finished ==
  /\ mpc = "done"
  /\ UNCHANGED vars

Next ==
  \/ MainStep
  \/ StopSending
  \/ SpuriousWakeup
  \/ \E c \in Cores : Receive(c)
  \/ WriterStep
  \/ Finished

(* The threads run, a mutex that stays free is got, and a Core that was    *)
(* told to process something sends a result (CorePipeline).                *)
Fairness ==
  /\ WF_vars(MainStep)
  /\ WF_vars(next = MaxSubints /\ StopSending)
  /\ WF_vars(\E c \in Cores : Receive(c))
  /\ WF_vars(WriterStep)

Spec == Init /\ [][Next]_vars /\ Fairness
-----------------------------------------------------------------------------
(***************************************************************************)
(* Properties.                                                             *)
(***************************************************************************)
Started == mpc \notin {"testinit", "condwait", "waiting"}
Accumulating == Started /\ mpc \notin {"unlockall", "join", "done"}

(* islocked, oldestlockedvis and newestlockedvis describe the mutexes main *)
(* really holds, and every one of them is between oldest and newest.       *)
RingMatchesLocks ==
  Accumulating =>
    /\ \A s \in VisSlots :
         /\ islocked[s] <=> lock[s] = Main
         /\ islocked[s] => Wrap(s - oldest + VisLength) <= Span
    /\ islocked[oldest] /\ islocked[newest]

(* Main adds to a Visibility, and compares the times of those it may add   *)
(* to, only while the write thread is not writing or incrementing them.    *)
VisExclusion ==
  wpc \in {"write", "increment"} =>
    /\ mpc = "add" => visindex # ws
    /\ mpc = "search" => \A k \in 0 .. Span : ws # Wrap(oldest + k)

(* The bookkeeping of coretimes, numsent and extrareceived gives back the  *)
(* time of the very subintegration the Core's result is of.                *)
OwnTime == mpc \in Locating => CoreTime = result

(* Integrations are written in time order, each once, whether full, given  *)
(* up or left over at the end; no subintegration is in two of them.        *)
WrittenOnceInOrder ==
  \A m, n \in 1 .. Len(written) :
    m < n => /\ written[m].vis < written[n].vis
             /\ written[m].subints \cap written[n].subints = {}

(* Except where data had to be dropped to catch up, a result is added to   *)
(* the integration it belongs to.  (All scans must have the same intTime.) *)
OwnIntegration ==
  mpc = "add" /\ result \notin forced =>
    vis[visindex] = IntegrationOf(result)

(* When the job is over every subintegration sent out has been written or  *)
(* was reported as stale (or was one data was dropped for).  (intTime must *)
(* not become shorter from a scan to the next.)                            *)
NothingLost ==
  mpc = "done" =>
    0 .. next - 1 \subseteq
      stale \cup forced \cup UNION {written[n].subints : n \in 1 .. Len(written)}

(* An integration that was not given up under pressure is written only     *)
(* when every subintegration of it that was ever sent has been added.      *)
(* (All scans must have the same intTime.)                                 *)
WrittenWhenComplete ==
  forced = {} =>
    \A n \in 1 .. Len(written) :
      LET v == written[n].vis
      IN v \notin abandoned =>
           written[n].subints = {k \in 0 .. next - 1 : IntegrationOf(k) = v}

(* Once the last subintegration is sent the manager ends.                  *)
Terminates == ~sending ~> mpc = "done"

=============================================================================
