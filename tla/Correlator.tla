----------------------------- MODULE Correlator -----------------------------
(***************************************************************************)
(* The processes of mpifxcorr and the messages between them: the manager,   *)
(* the datastreams and the cores read the input files together, run, and    *)
(* end together.  While they run each waits for others: the manager for a   *)
(* core's result and for a datastream to take an instruction, a datastream  *)
(* for the cores to take its data, a core for its instructions, for data of *)
(* every datastream, and for the manager to take a result.  What each does  *)
(* with the data is in FxManager, DataStream and CoreRing.                  *)
(*                                                                          *)
(* MPI keeps the order of the messages between two processes.  MPI_Ssend    *)
(* waits for the receiver, MPI_Issend does not, and MPI_Send may do either: *)
(* Eager says whether a message of three integers is buffered.              *)
(***************************************************************************)
EXTENDS Integers, Sequences, FiniteSets, SequencesExt

CONSTANTS
    numdatastreams, numcores,
    RING,      \* Core::RECEIVE_RING_LENGTH
    Subints,   \* subintegrations of the job
    Files,     \* files that are read by all: .input, .calc, .im, ...
    Eager,     \* does MPI_Send buffer a small message?
    Deaf       \* processes whose command socket cannot be opened

MANAGERID == 0
FIRSTTELESCOPEID == 1
Datastreams == FIRSTTELESCOPEID .. numdatastreams
Cores == numdatastreams + 1 .. numdatastreams + numcores
Procs == {MANAGERID} \cup Datastreams \cup Cores

ASSUME CorrelatorAssumption ==
    /\ numdatastreams \in Nat \ {0} /\ numcores \in Nat \ {0}
    /\ RING \in Nat /\ RING >= 2
    /\ Subints \in Nat /\ Files \in Nat \ {0}
    /\ Eager \in BOOLEAN /\ Deaf \subseteq Procs

VARIABLES
    unreadable,   \* the file the manager cannot open, 0 for none
    stage,        \* stage[p]: where main is
    calls,        \* calls[p]: collective operations p has called
    command,      \* command[p]: p's command thread
    aborted,      \* MPI_Abort has been called
    mpc,          \* the manager: where execute is
    target,       \* the core of the instruction that is being sent
    telling,      \* the datastream it is sent to next
    sendcount, terminatenow, lastsource,
    probed,       \* cores probed in this receiveData
    owed,         \* results still to be received after the last send
    times,        \* times[c]: instructions on their way to core c
    instruction,  \* instruction[d]: messages on their way to datastream d
    dpc, doing,   \* the datastreams: where execute is, with which instruction
    sends,        \* sends[d]: sends of d that no core has taken yet
    cpc,          \* the cores: where execute is
    got, ret,     \* got[c], ret[c]: subintegrations received, results taken
    held,         \* held[c][d]: the subintegration of d's data in c's slot
    passed        \* history: passed[c][b]: results of b taken while c's waited

startVars == <<unreadable, stage, calls, command, aborted>>
managerVars == <<mpc, target, telling, sendcount, terminatenow, lastsource, probed, owed>>
datastreamVars == <<dpc, doing, sends>>
coreVars == <<cpc, got, ret, held>>
messageVars == <<times, instruction>>
vars == <<startVars, managerVars, datastreamVars, coreVars, messageVars, passed>>

Process(c, n) == [core |-> c, subint |-> n]
Terminate == [core |-> MANAGERID, subint |-> 0]

Init ==
    /\ unreadable \in 0 .. Files
    /\ stage = [p \in Procs |-> "reading"]
    /\ calls = [p \in Procs |-> 0]
    /\ command = [p \in Procs |-> "none"]
    /\ aborted = FALSE
    /\ mpc = "loop" /\ target = MANAGERID /\ telling = 0
    /\ sendcount = 0 /\ terminatenow = FALSE /\ lastsource = numdatastreams
    /\ probed = 0 /\ owed = 0
    /\ times = [c \in Cores |-> << >>]
    /\ instruction = [d \in Datastreams |-> << >>]
    /\ dpc = [d \in Datastreams |-> "fill"]
    /\ doing = [d \in Datastreams |-> Terminate]
    /\ sends = [d \in Datastreams |-> << >>]
    /\ cpc = [c \in Cores |-> "time"]
    /\ got = [c \in Cores |-> 0] /\ ret = [c \in Cores |-> 0]
    /\ held = [c \in Cores |-> [d \in Datastreams |-> -1]]
    /\ passed = [c \in Cores |-> [b \in Cores |-> 0]]

(***************************************************************************)
(* Collective operations.  Every process makes its calls in order; the nth  *)
(* call of one meets the nth of the others.  A barrier is left when all     *)
(* have come, a broadcast when the manager has.                             *)
(***************************************************************************)
Enter(p) == calls' = [calls EXCEPT ![p] = @ + 1]
AllEntered(p) == \A q \in Procs : calls[q] >= calls[p]
ManagerEntered(p) == calls[MANAGERID] >= calls[p]

Goto(p, s) == stage' = [stage EXCEPT ![p] = s]

runVars == <<managerVars, datastreamVars, coreVars, messageVars, passed>>

(* mpiGetFileContent is called for every file: a barrier, the broadcast of  *)
(* its length and that of its content.                                      *)
File(p) == (calls[p] \div 3) + 1

(* The manager cannot open the file: it goes to the barrier that main has   *)
(* for an inconsistent configuration, which the others' one meets.          *)
CannotOpen ==
    /\ stage[MANAGERID] = "reading" /\ calls[MANAGERID] % 3 = 0
    /\ File(MANAGERID) = unreadable
    /\ Enter(MANAGERID) /\ Goto(MANAGERID, "inconsistent")
    /\ UNCHANGED <<unreadable, command, aborted, runVars>>

Abort ==
    /\ stage[MANAGERID] = "inconsistent" /\ AllEntered(MANAGERID)
    /\ aborted' = TRUE
    /\ UNCHANGED <<unreadable, stage, calls, command, runVars>>

Read(p) ==
    /\ stage[p] = "reading" /\ File(p) <= Files
    /\ p = MANAGERID /\ calls[p] % 3 = 0 => File(p) # unreadable
    /\ Enter(p) /\ Goto(p, IF calls[p] % 3 = 0 THEN "barrier" ELSE "bcast")
    /\ UNCHANGED <<unreadable, command, aborted, runVars>>

LeaveCall(p) ==
    /\ \/ stage[p] = "barrier" /\ AllEntered(p)
       \/ stage[p] = "bcast" /\ ManagerEntered(p)
    /\ Goto(p, "reading")
    /\ UNCHANGED <<unreadable, calls, command, aborted, runVars>>

(* The command thread is launched, and main waits until it says that it has *)
(* opened its socket or that it could not.                                  *)
LaunchCommandThread(p) ==
    /\ stage[p] = "reading" /\ File(p) > Files
    /\ command' = [command EXCEPT ![p] = "opening"]
    /\ Goto(p, "waiting")
    /\ UNCHANGED <<unreadable, calls, aborted, runVars>>

OpenSocket(p) ==
    /\ command[p] = "opening"
    /\ command' = [command EXCEPT ![p] = IF p \in Deaf THEN "failed" ELSE "acting"]
    /\ UNCHANGED <<unreadable, stage, calls, aborted, runVars>>

(* Everyone has caught up, the objects are made, everyone has caught up;    *)
(* execute, and a last barrier.                                             *)
Waiting(p) ==
    /\ stage[p] = "waiting" /\ command[p] \in {"failed", "acting"}
    /\ Enter(p) /\ Goto(p, "caughtup")
    /\ UNCHANGED <<unreadable, command, aborted, runVars>>

MakeObject(p) ==
    /\ stage[p] = "caughtup" /\ AllEntered(p)
    /\ Enter(p) /\ Goto(p, "made")
    /\ UNCHANGED <<unreadable, command, aborted, runVars>>

Execute(p) ==
    /\ stage[p] = "made" /\ AllEntered(p)
    /\ Goto(p, "execute")
    /\ UNCHANGED <<unreadable, calls, command, aborted, runVars>>

Executed(p) ==
    /\ stage[p] = "execute"
    /\ IF p = MANAGERID THEN mpc = "end"
       ELSE IF p \in Datastreams THEN dpc[p] = "end" ELSE cpc[p] = "end"
    /\ Enter(p) /\ Goto(p, "finalize")
    /\ UNCHANGED <<unreadable, command, aborted, runVars>>

(* After MPI_Finalize the command thread is cancelled and joined.           *)
Exit(p) ==
    /\ stage[p] = "finalize" /\ AllEntered(p)
    /\ Goto(p, "exit")
    /\ command' = [command EXCEPT ![p] = "joined"]
    /\ UNCHANGED <<unreadable, calls, aborted, runVars>>

(***************************************************************************)
(* The manager.                                                             *)
(***************************************************************************)
ManagerAt(s) == stage[MANAGERID] = "execute" /\ mpc = s

(* The handler is installed when every core has been filled up.             *)
FillUp == RING * numcores

Interrupt ==
    /\ stage[MANAGERID] = "execute" /\ sendcount >= FillUp /\ ~terminatenow
    /\ terminatenow' = TRUE
    /\ UNCHANGED <<startVars, mpc, target, telling, sendcount, lastsource, probed, owed,
                   datastreamVars, coreVars, messageVars, passed>>

Loop ==
    /\ ManagerAt("loop") /\ sendcount < Subints /\ ~terminatenow
    /\ IF sendcount < FillUp
       THEN /\ target' = numdatastreams + 1 + (sendcount % numcores)
            /\ mpc' = "time" /\ UNCHANGED probed
       ELSE mpc' = "probe" /\ probed' = 0 /\ UNCHANGED target
    /\ UNCHANGED <<startVars, telling, sendcount, terminatenow, lastsource, owed,
                   datastreamVars, coreVars, messageVars, passed>>

(* sendData: MPI_Send to the core, MPI_Ssend to each datastream in turn.    *)
CanSend(c) == Eager \/ (stage[c] = "execute" /\ cpc[c] = "time")

SendTime ==
    /\ ManagerAt("time") /\ CanSend(target)
    /\ times' = [times EXCEPT ![target] = Append(@, Process(target, sendcount))]
    /\ mpc' = "tell" /\ telling' = FIRSTTELESCOPEID
    /\ UNCHANGED <<startVars, target, sendcount, terminatenow, lastsource, probed, owed,
                   datastreamVars, coreVars, instruction, passed>>

Listening(d) == stage[d] = "execute" /\ dpc[d] # "fill" /\ instruction[d] = << >>

SendInstruction ==
    /\ ManagerAt("tell") /\ Listening(telling)
    /\ instruction' = [instruction EXCEPT ![telling] = Append(@, Process(target, sendcount))]
    /\ IF telling < numdatastreams
       THEN telling' = telling + 1 /\ UNCHANGED <<mpc, sendcount>>
       ELSE mpc' = "loop" /\ sendcount' = sendcount + 1 /\ UNCHANGED telling
    /\ UNCHANGED <<startVars, target, terminatenow, lastsource, probed, owed,
                   datastreamVars, coreVars, times, passed>>

(* receiveData probes the cores one after the other, beginning with the one *)
(* after the last that was found, and takes the first result it finds.      *)
Offers(c) == cpc[c] \in {"offer", "drain"}
NextSource == IF lastsource + 1 > numcores + numdatastreams THEN numdatastreams + 1
              ELSE lastsource + 1

(* MPI_Ssend has ended: the core goes on.                                   *)
Took(c) ==
    /\ ret' = [ret EXCEPT ![c] = @ + 1]
    /\ cpc' = [cpc EXCEPT ![c] = IF @ = "offer" THEN "time"
                                 ELSE IF ret'[c] = got[c] THEN "end" ELSE "drain"]
    /\ passed' = [b \in Cores |->
                    IF b = c THEN [a \in Cores |-> 0]
                    ELSE [passed[b] EXCEPT ![c] = IF Offers(b) THEN @ + 1 ELSE @]]
    /\ UNCHANGED <<got, held>>

(* A result is answered by the next instruction, as long as there is one.   *)
Take(c) ==
    /\ IF owed = 0
       THEN target' = c /\ mpc' = "time" /\ UNCHANGED owed
       ELSE /\ owed' = owed - 1 /\ UNCHANGED target
            /\ mpc' = IF owed = 1 THEN "end" ELSE "probe"
    /\ probed' = 0

(* The probing begins at the first core every time.                         *)
ProbeInOrder ==
    /\ ManagerAt("probe") /\ probed < numcores
    /\ lastsource' = numdatastreams + 1 + probed
    /\ IF Offers(lastsource')
       THEN Take(lastsource') /\ Took(lastsource')
       ELSE probed' = probed + 1 /\ UNCHANGED <<mpc, target, owed, coreVars, passed>>
    /\ UNCHANGED <<startVars, telling, sendcount, terminatenow, datastreamVars, messageVars>>

Probe ==
    /\ ManagerAt("probe") /\ probed < numcores
    /\ lastsource' = NextSource
    /\ IF Offers(NextSource)
       THEN Take(NextSource) /\ Took(NextSource)
       ELSE probed' = probed + 1 /\ UNCHANGED <<mpc, target, owed, coreVars, passed>>
    /\ UNCHANGED <<startVars, telling, sendcount, terminatenow, datastreamVars, messageVars>>

(* No core had sent: the first message that comes, from whichever core.     *)
ReceiveAny(c) ==
    /\ ManagerAt("probe") /\ probed = numcores
    /\ Offers(c)
    /\ Take(c) /\ Took(c)
    /\ UNCHANGED <<startVars, telling, sendcount, terminatenow, lastsource,
                   datastreamVars, messageVars>>

(* terminate, and then the results that are owed.                           *)
StopSending ==
    /\ ManagerAt("loop") /\ (sendcount = Subints \/ terminatenow)
    /\ mpc' = "stopcores" /\ target' = numdatastreams + 1
    /\ UNCHANGED <<startVars, telling, sendcount, terminatenow, lastsource, probed, owed,
                   datastreamVars, coreVars, messageVars, passed>>

TerminateCore ==
    /\ ManagerAt("stopcores") /\ CanSend(target)
    /\ times' = [times EXCEPT ![target] = Append(@, Terminate)]
    /\ IF target < numdatastreams + numcores
       THEN target' = target + 1 /\ UNCHANGED <<mpc, telling>>
       ELSE mpc' = "stopdatastreams" /\ telling' = FIRSTTELESCOPEID /\ UNCHANGED target
    /\ UNCHANGED <<startVars, sendcount, terminatenow, lastsource, probed, owed,
                   datastreamVars, coreVars, instruction, passed>>

(* One result too few for every core.                                       *)
OwedInFill == IF sendcount < FillUp THEN sendcount ELSE FillUp - numcores

Owed == IF sendcount < FillUp THEN sendcount ELSE FillUp

TerminateDatastream ==
    /\ ManagerAt("stopdatastreams") /\ (Eager \/ Listening(telling))
    /\ instruction' = [instruction EXCEPT ![telling] = Append(@, Terminate)]
    /\ IF telling < numdatastreams
       THEN telling' = telling + 1 /\ UNCHANGED <<mpc, owed, probed>>
       ELSE /\ owed' = Owed /\ probed' = 0 /\ UNCHANGED telling
            /\ mpc' = IF Owed = 0 THEN "end" ELSE "probe"
    /\ UNCHANGED <<startVars, target, sendcount, terminatenow, lastsource,
                   datastreamVars, coreVars, times, passed>>

(***************************************************************************)
(* A datastream.  It always has a receive posted for the next instruction.  *)
(***************************************************************************)
DatastreamAt(d, s) == stage[d] = "execute" /\ dpc[d] = s
DsGoto(d, s) == dpc' = [dpc EXCEPT ![d] = s]

FillBuffer(d) ==
    /\ DatastreamAt(d, "fill") /\ DsGoto(d, "request")
    /\ UNCHANGED <<startVars, managerVars, doing, sends, coreVars, messageVars, passed>>

(* MPI_Wait, and at once another receive.                                   *)
Request(d) ==
    /\ DatastreamAt(d, "request") /\ instruction[d] # << >>
    /\ doing' = [doing EXCEPT ![d] = Head(instruction[d])]
    /\ instruction' = [instruction EXCEPT ![d] = Tail(@)]
    /\ DsGoto(d, IF Head(instruction[d]) = Terminate THEN "drain" ELSE "post")
    /\ UNCHANGED <<startVars, managerVars, sends, coreVars, times, passed>>

(* What the message said is stored before the buffer is given to the next   *)
(* receive; without that the data would be those of a later instruction.    *)
ToldSince(d) == IF instruction[d] = << >> THEN doing[d] ELSE Head(instruction[d])

Told(d) == doing[d]

(* Before it posts the data the datastream may have to wait for earlier     *)
(* sends (waitForSendComplete), and after it for all of them, if it has no  *)
(* request left for another from the same segment.                          *)
WaitEarlier(d) ==
    /\ DatastreamAt(d, "post") /\ sends[d] # << >>
    /\ DsGoto(d, "waitpost")
    /\ UNCHANGED <<startVars, managerVars, doing, sends, coreVars, messageVars, passed>>

Post(d) ==
    /\ DatastreamAt(d, "post") \/ (DatastreamAt(d, "waitpost") /\ sends[d] = << >>)
    /\ sends' = [sends EXCEPT ![d] = Append(@, Told(d))]
    /\ \/ DsGoto(d, "request")
       \/ DsGoto(d, "waitall")
    /\ UNCHANGED <<startVars, managerVars, doing, coreVars, messageVars, passed>>

WaitAll(d) ==
    /\ DatastreamAt(d, "waitall") /\ sends[d] = << >>
    /\ DsGoto(d, "request")
    /\ UNCHANGED <<startVars, managerVars, doing, sends, coreVars, messageVars, passed>>

Drain(d) ==
    /\ DatastreamAt(d, "drain") /\ sends[d] = << >>
    /\ DsGoto(d, "end")
    /\ UNCHANGED <<startVars, managerVars, doing, sends, coreVars, messageVars, passed>>

(***************************************************************************)
(* A core.                                                                  *)
(***************************************************************************)
CoreAt(c, s) == stage[c] = "execute" /\ cpc[c] = s
CoreGoto(c, s) == cpc' = [cpc EXCEPT ![c] = s]

ReceiveTime(c) ==
    /\ CoreAt(c, "time") /\ times[c] # << >> /\ Head(times[c]) # Terminate
    /\ held' = [held EXCEPT ![c] = [d \in Datastreams |-> -1]]
    /\ CoreGoto(c, "data")
    /\ UNCHANGED <<startVars, managerVars, datastreamVars, got, ret, messageVars, passed>>

(* The results that are still in the ring are sent before it ends.          *)
EndAtOnce(c) ==
    /\ CoreAt(c, "time") /\ times[c] # << >> /\ Head(times[c]) = Terminate
    /\ times' = [times EXCEPT ![c] = Tail(@)]
    /\ CoreGoto(c, "end")
    /\ UNCHANGED <<startVars, managerVars, datastreamVars, got, ret, held, instruction, passed>>

ReceiveTerminate(c) ==
    /\ CoreAt(c, "time") /\ times[c] # << >> /\ Head(times[c]) = Terminate
    /\ times' = [times EXCEPT ![c] = Tail(@)]
    /\ CoreGoto(c, IF got[c] = ret[c] THEN "end" ELSE "drain")
    /\ passed' = [passed EXCEPT ![c] = [b \in Cores |-> 0]]
    /\ UNCHANGED <<startVars, managerVars, datastreamVars, got, ret, held, instruction>>

(* The posted receives match the oldest send of each datastream.            *)
ReceiveData(c, d) ==
    /\ CoreAt(c, "data") /\ held[c][d] = -1
    /\ LET k == SelectInSeq(sends[d], LAMBDA s : s.core = c) IN
       /\ k # 0
       /\ held' = [held EXCEPT ![c][d] = sends[d][k].subint]
       /\ sends' = [sends EXCEPT ![d] = RemoveAt(@, k)]
    /\ UNCHANGED <<startVars, managerVars, dpc, doing, cpc, got, ret, messageVars, passed>>

(* All have come.  Once the ring is full every subintegration received is   *)
(* followed by the oldest result.                                           *)
SlotFull(c) ==
    /\ CoreAt(c, "data") /\ \A d \in Datastreams : held[c][d] # -1
    /\ got' = [got EXCEPT ![c] = @ + 1]
    /\ times' = [times EXCEPT ![c] = Tail(@)]
    /\ CoreGoto(c, IF got[c] + 1 < RING THEN "time" ELSE "offer")
    /\ passed' = [passed EXCEPT ![c] = [b \in Cores |-> 0]]
    /\ UNCHANGED <<startVars, managerVars, datastreamVars, ret, held, instruction>>

(***************************************************************************)
(* The specification.                                                       *)
(***************************************************************************)
StartStep(p) ==
    \/ Read(p) \/ LeaveCall(p) \/ LaunchCommandThread(p) \/ Waiting(p)
    \/ MakeObject(p) \/ Execute(p) \/ Executed(p) \/ Exit(p)
ManagerStep ==
    \/ Loop \/ SendTime \/ SendInstruction \/ Probe \/ \E c \in Cores : ReceiveAny(c)
    \/ StopSending \/ TerminateCore \/ TerminateDatastream
DatastreamStep(d) ==
    FillBuffer(d) \/ Request(d) \/ WaitEarlier(d) \/ Post(d) \/ WaitAll(d) \/ Drain(d)
CoreStep(c) ==
    \/ ReceiveTime(c) \/ ReceiveTerminate(c) \/ SlotFull(c)
    \/ \E d \in Datastreams : ReceiveData(c, d)

Ended == (aborted \/ \A p \in Procs : stage[p] = "exit") /\ UNCHANGED vars

Next ==
    \/ Ended
    \/ /\ ~aborted
       /\ \/ CannotOpen \/ Abort \/ Interrupt \/ ManagerStep
          \/ \E p \in Procs : StartStep(p) \/ OpenSocket(p)
          \/ \E d \in Datastreams : DatastreamStep(d)
          \/ \E c \in Cores : CoreStep(c)

(* The manager, which may probe for ever, goes on when it can, and so does  *)
(* some other process or command thread; nobody has to interrupt the job.   *)
Others ==
    \/ \E p \in Procs : StartStep(p) \/ OpenSocket(p)
    \/ \E d \in Datastreams : DatastreamStep(d)
    \/ \E c \in Cores : CoreStep(c)
Fairness ==
    /\ WF_vars(~aborted /\ (CannotOpen \/ Abort \/ ManagerStep))
    /\ WF_vars(~aborted /\ Others)

Spec == Init /\ [][Next]_vars /\ Fairness

(***************************************************************************)
(* Properties.                                                              *)
(***************************************************************************)

(* A core's data are of the subintegration that its instruction is for, of  *)
(* every datastream, though instruction and data come from processes that   *)
(* only the manager's order of sends keeps in step (receivedata).           *)
DataMatch ==
    \A c \in Cores : cpc[c] = "data" =>
        \A d \in Datastreams : held[c][d] \in {-1, Head(times[c]).subint}

(* When the manager's execute ends every subintegration it handed out has   *)
(* come back, and nothing is left on its way to anyone.                     *)
NothingLeft ==
    mpc = "end" =>
        /\ \A c \in Cores : got[c] = ret[c] /\ times[c] = << >>
        /\ \A d \in Datastreams : sends[d] = << >>

(* "Work around MPI_Recv's desire to prioritize receives by MPI rank": a    *)
(* core whose result waits is passed over twice by each other core at most. *)
FairTurns == \A b, c \in Cores : Offers(c) => passed[c][b] <= 2

(* The job ends, interrupted or not, and if a file cannot be read it ends   *)
(* too: no process waits for ever.                                          *)
Ends == <>(aborted \/ \A p \in Procs : stage[p] = "exit")
=============================================================================
