-------------------------- MODULE DataStream_proof --------------------------
(***************************************************************************)
(* Proofs about the databuffer ring of a Datastream, for every ring of at  *)
(* least 5 segments, every size of the segments and of the pieces sent,    *)
(* every list of scans and every file or frame there is to read.           *)
(***************************************************************************)
EXTENDS DataStream, Sums

(***************************************************************************)
(* Going round the ring.                                                   *)
(***************************************************************************)
LEMMA SegmentNumber ==
  ASSUME NEW s \in Segments
  PROVE  /\ s \in Int /\ 0 <= s /\ s < NumSegments
         /\ NumSegments \in Int /\ NumSegments >= 5
BY SegmentsAssumption DEF Segments

LEMMA WrapOnce ==
  ASSUME NEW k \in Int, 0 <= k, k < 2 * NumSegments
  PROVE  /\ k < NumSegments => Wrap(k) = k
         /\ NumSegments <= k => Wrap(k) = k - NumSegments
         /\ Wrap(k) \in Segments
<1> DEFINE q == k \div NumSegments
<1>1. /\ k = NumSegments * q + (k % NumSegments)
      /\ q \in Int /\ k % NumSegments \in 0 .. NumSegments - 1
  BY SegmentsAssumption
<1> HIDE DEF q
<1>2. CASE q <= -1
  BY <1>1, <1>2, SegmentsAssumption
<1>3. CASE q >= 2
  BY <1>1, <1>3, SegmentsAssumption
<1>4. CASE q = 0
  BY <1>1, <1>4, SegmentsAssumption DEF Wrap, Segments
<1>5. CASE q = 1
  BY <1>1, <1>5, SegmentsAssumption DEF Wrap, Segments
<1> QED
  BY <1>1, <1>2, <1>3, <1>4, <1>5

(* The next two segments and the one before.                               *)
LEMMA Neighbours ==
  ASSUME NEW s \in Segments
  PROVE  /\ Wrap(s + 1) \in Segments /\ Wrap(s + 2) \in Segments
         /\ Before(s) \in Segments
         /\ s # Wrap(s + 1) /\ s # Wrap(s + 2) /\ Wrap(s + 1) # Wrap(s + 2)
         /\ Wrap(Wrap(s + 1) + 1) = Wrap(s + 2)
         /\ Before(Wrap(s + 1)) = s
         /\ Before(s) # s
<1>1. /\ s \in Int /\ 0 <= s /\ s < NumSegments
      /\ NumSegments \in Int /\ NumSegments >= 5
  BY SegmentNumber
<1>2. PICK a \in Int, b \in Int, c \in Int :
        a = s + 1 /\ b = s + 2 /\ c = s - 1 + NumSegments
  BY <1>1
<1>3. /\ 0 <= a /\ a < 2 * NumSegments /\ 0 <= b /\ b < 2 * NumSegments
      /\ 0 <= c /\ c < 2 * NumSegments
  BY <1>1, <1>2
<1>4. /\ a < NumSegments => Wrap(a) = a
      /\ NumSegments <= a => Wrap(a) = a - NumSegments
      /\ Wrap(a) \in Segments
  BY <1>3, WrapOnce
<1>5. /\ b < NumSegments => Wrap(b) = b
      /\ NumSegments <= b => Wrap(b) = b - NumSegments
      /\ Wrap(b) \in Segments
  BY <1>3, WrapOnce
<1>6. /\ c < NumSegments => Wrap(c) = c
      /\ NumSegments <= c => Wrap(c) = c - NumSegments
      /\ Wrap(c) \in Segments
  BY <1>3, WrapOnce
<1>7. PICK d \in Int, e \in Int :
        d = Wrap(a) + 1 /\ e = Wrap(a) - 1 + NumSegments
  BY <1>1, <1>4, SegmentNumber
<1>8. 0 <= d /\ d < 2 * NumSegments /\ 0 <= e /\ e < 2 * NumSegments
  BY <1>1, <1>4, <1>7, SegmentNumber
<1>9. /\ d < NumSegments => Wrap(d) = d
      /\ NumSegments <= d => Wrap(d) = d - NumSegments
  BY <1>8, WrapOnce
<1>10. /\ e < NumSegments => Wrap(e) = e
       /\ NumSegments <= e => Wrap(e) = e - NumSegments
  BY <1>8, WrapOnce
<1>11. /\ s # Wrap(a) /\ s # Wrap(b) /\ Wrap(a) # Wrap(b) /\ Wrap(c) # s
       /\ Wrap(d) = Wrap(b) /\ Wrap(e) = s
  BY <1>1, <1>2, <1>4, <1>5, <1>6, <1>7, <1>9, <1>10, SegmentNumber
<1>12. /\ Wrap(s + 1) = Wrap(a) /\ Wrap(s + 2) = Wrap(b)
       /\ Before(s) = Wrap(c)
  BY <1>2 DEF Before
<1>13. Wrap(Wrap(a) + 1) = Wrap(d) /\ Before(Wrap(a)) = Wrap(e)
  BY <1>7 DEF Before
<1> QED
  BY <1>4, <1>5, <1>6, <1>11, <1>12, <1>13

LEMMA FirstSegments ==
  /\ 0 \in Segments /\ 1 \in Segments /\ 2 \in Segments
  /\ Wrap(0 + 1) = 1
<1>1. NumSegments \in Int /\ NumSegments >= 5
  BY SegmentsAssumption
<1>2. 0 <= 1 /\ 1 < 2 * NumSegments /\ 1 < NumSegments
  BY <1>1
<1>3. Wrap(1) = 1
  BY <1>2, WrapOnce
<1>4. 0 + 1 = 1
  OBVIOUS
<1> QED
  BY <1>1, <1>3, <1>4 DEF Segments

(***************************************************************************)
(* The inductive invariant, until main terminates or the reader leaves its *)
(* loop (which may then give up a mutex that is not its own).              *)
(***************************************************************************)
Over ==
  \/ mpc \in {"unlockat", "unlockahead", "join", "done"}
  \/ rpc \in {"exit", "end"}
  \/ rpc = "outer" /\ ~keepreading

(* Main has segment at and the next, and one more while it moves on.       *)
MainInv ==
  /\ at \in Segments
  /\ lock \in [Segments -> {Free, Main, Reader}]
  /\ lock[at] = Main /\ lock[Wrap(at + 1)] = Main
  /\ mpc = "unlockbehind" => lock[Wrap(at + 2)] = Main

(* It does nothing before the reader has read two segments.                *)
Early ==
  \/ rpc \in {"openfirst", "firstframe", "locklast", "start"}
  \/ rpc \in {"fill", "fillread"} /\ numread \in {0, 1}

StartInv ==
  /\ source \in {"file", "network", "fake"}
  /\ Early => ~started
  /\ ~started => mpc = "init" /\ at = 0
  /\ rpc \in {"openfirst", "firstframe"} => numread = 0
  /\ rpc \in {"fill", "fillread"} => numread \in {0, 1, 2}
  /\ rpc = "locklast" => numread = 2

(* The mutexes the reader has, by where it is: one, or two while it moves  *)
(* on to the next segment.                                                 *)
ThirdHeld == numread = 2 /\ lock[2] = Reader /\ (source = "file" => last = 2)

ReaderInv ==
  /\ last \in Segments
  /\ rpc \in {"fill", "fillread"} /\ numread = 2 => ThirdHeld
  /\ rpc = "fillread" /\ source = "network" => last = numread
  /\ rpc = "start" => ThirdHeld \/ (source = "file" /\ ~keepreading)
  /\ rpc \in {"outer", "inner", "nextfile", "prepare", "read", "unlocklate",
              "unlockprev"} => lock[last] = Reader
  /\ rpc \in {"lock", "unlockprev", "unlocklate"} => lock[Before(last)] = Reader
  /\ rpc \in {"prepare", "read"} /\ isnewfile => lock[Before(last)] = Reader
  /\ rpc = "unlockprev" => ~isnewfile

InnerInv == MainInv /\ StartInv /\ ReaderInv
DInv == Over \/ InnerInv
LEMMA InitInv == Init => InnerInv
<1> SUFFICES ASSUME Init PROVE InnerInv
  OBVIOUS
<1>1. MainInv
  BY FirstSegments DEF Init, MainInv, Free, Main
<1>2. StartInv
  BY FilesAssumption DEF Init, StartInv
<1>3. ReaderInv
  BY FirstSegments DEF Init, ReaderInv
<1> QED
  BY <1>1, <1>2, <1>3 DEF InnerInv

LEMMA OverStays == ASSUME Over, [Next]_vars PROVE Over'
<1>1. CASE mpc \in {"unlockat", "unlockahead", "join", "done"}
  <2>1. ASSUME MainStep \/ ReceiveRequest \/ ReceiveTerminate
        PROVE  mpc' \in {"unlockat", "unlockahead", "join", "done"}
    BY <1>1, <2>1 DEF MainStep, ReceiveRequest, ReceiveTerminate, SeeStarted,
      Check, Seek, LockAhead, UnlockBehind, Found, PostInvalid, Post, WaitMax,
      Drain, Drained, UnlockAt, UnlockAhead, Join, MGo
  <2>2. ASSUME ReaderStep PROVE mpc' = mpc
    BY <2>2 DEF ReaderStep, loopfileread, loopnetworkread, loopfakeread, Loop,
      OpenFirst, OpenStream, FirstFrame, InitialiseFake, Fill, Prepare,
      FillRead, Reading, DiskToMemory, FakeToMemory, ReadNetwork, HangUp,
      Filled, LockLast, Start, Outer, Inner, Lock, UnlockPrev, PrepareLast,
      ReadLast, UnlockLate, NextFile, NextFrame, Exit, mainVars
  <2> QED
    BY <1>1, <2>1, <2>2 DEF Over, Next, Taken, Finished, vars, mainVars
<1>2. CASE rpc \in {"exit", "end"} \/ (rpc = "outer" /\ ~keepreading)
  <2>1. ASSUME MainStep \/ ReceiveRequest \/ ReceiveTerminate
        PROVE  rpc' = rpc /\ (keepreading' = keepreading \/ ~keepreading')
    BY <2>1 DEF MainStep, ReceiveRequest, ReceiveTerminate, SeeStarted,
      Check, Seek, LockAhead, UnlockBehind, Found, PostInvalid, Post, Send,
      WaitMax, Drain, Drained, UnlockAt, UnlockAhead, Join, readerVars
  <2>2. ASSUME ReaderStep PROVE rpc' \in {"exit", "end"}
    BY <1>2, <2>2 DEF ReaderStep, loopfileread, loopnetworkread, loopfakeread,
      Loop, OpenFirst, OpenStream, FirstFrame, InitialiseFake, Fill, FillRead,
      LockLast, Start, Outer, Inner, Lock, UnlockPrev, PrepareLast, ReadLast,
      UnlockLate, NextFile, NextFrame, Exit, RGo
  <2> QED
    BY <1>2, <2>1, <2>2 DEF Over, Next, Taken, Finished, vars, readerVars
<1> QED
  BY <1>1, <1>2 DEF Over

(***************************************************************************)
(* The steps of the main thread and of the Cores.                          *)
(***************************************************************************)
(* Main leaves the reader what it has.                                     *)
LEMMA MainLeaves ==
  ASSUME InnerInv, MainInv', UNCHANGED <<source, started, readerVars>>,
         keepreading' = keepreading \/ ~keepreading',
         \A s \in Segments : lock[s] = Reader => lock'[s] = Reader,
         mpc = "init" => UNCHANGED <<mpc, at>> \/ started,
         mpc # "init" => mpc' # "init"
  PROVE  InnerInv'
<1>1. UNCHANGED <<rpc, last, numread, isnewfile>>
  BY DEF readerVars, fileVars
<1>2. StartInv'
  BY <1>1 DEF InnerInv, StartInv, Early
<1>3. last \in Segments /\ Before(last) \in Segments
  BY Neighbours DEF InnerInv, ReaderInv
<1>4. ReaderInv'
  BY <1>1, <1>3, FirstSegments DEF InnerInv, ReaderInv, ThirdHeld, Before, Wrap
<1> QED
  BY <1>2, <1>4 DEF InnerInv

(* Steps of main that take and give up no mutex.                           *)
LEMMA MainMoves ==
  ASSUME InnerInv,
         SeeStarted \/ Check \/ Seek \/ Found \/ PostInvalid \/ Post \/ WaitMax
           \/ Drain \/ Drained \/ ReceiveRequest \/ ReceiveTerminate
           \/ \E m \in sends : Taken(m)
  PROVE  InnerInv'
<1>1. /\ UNCHANGED <<source, at, lock, started, readerVars>>
      /\ keepreading' = keepreading \/ ~keepreading'
      /\ mpc = "init" => mpc' = mpc \/ started
      /\ mpc # "init" => mpc' # "init"
      /\ mpc' = "unlockbehind" => mpc = "unlockbehind"
  BY DEF SeeStarted, Check, Seek, Found, PostInvalid, Post, Send, WaitMax,
    Drain, Drained, ReceiveRequest, ReceiveTerminate, Taken, MGo, mainVars
<1>2. MainInv'
  BY <1>1 DEF InnerInv, MainInv, Wrap
<1> QED
  BY <1>1, <1>2, MainLeaves

LEMMA LockAheadStep == ASSUME InnerInv, LockAhead PROVE InnerInv'
<1>1. /\ mpc = "lockahead" /\ mpc' = "unlockbehind"
      /\ lock[Wrap(at + 2)] = Free
      /\ lock' = [lock EXCEPT ![Wrap(at + 2)] = Main]
      /\ UNCHANGED <<source, at, started, keepreading, readerVars>>
  BY DEF LockAhead, MGo, Acquire
<1>2. /\ at \in Segments /\ Wrap(at + 2) \in Segments
      /\ Wrap(at + 1) \in Segments
  BY Neighbours DEF InnerInv, MainInv
<1>3. MainInv'
  <2>1. /\ lock' \in [Segments -> {Free, Main, Reader}]
        /\ \A s \in Segments : lock[s] = Main => lock'[s] = Main
        /\ lock'[Wrap(at + 2)] = Main
    BY <1>1, <1>2 DEF InnerInv, MainInv
  <2> QED
    BY <2>1, <1>1, <1>2 DEF InnerInv, MainInv, Wrap
<1>4. \A s \in Segments : lock[s] = Reader => lock'[s] = Reader
  BY <1>1, <1>2 DEF InnerInv, MainInv, Free, Reader
<1> QED
  BY <1>1, <1>3, <1>4, MainLeaves

LEMMA UnlockBehindStep == ASSUME InnerInv, UnlockBehind PROVE InnerInv'
<1>1. /\ mpc = "unlockbehind" /\ mpc' = "seek"
      /\ at' = Wrap(at + 1)
      /\ lock' = [lock EXCEPT ![at] = Free]
      /\ UNCHANGED <<source, started, keepreading, readerVars>>
  BY DEF UnlockBehind, MGo, Release
<1>2. /\ at \in Segments /\ Wrap(at + 2) \in Segments
      /\ Wrap(at + 1) \in Segments
      /\ at # Wrap(at + 1) /\ at # Wrap(at + 2)
      /\ Wrap(Wrap(at + 1) + 1) = Wrap(at + 2)
  BY Neighbours DEF InnerInv, MainInv
<1>3. MainInv'
  <2>1. /\ lock' \in [Segments -> {Free, Main, Reader}]
        /\ lock'[Wrap(at + 1)] = Main /\ lock'[Wrap(at + 2)] = Main
    BY <1>1, <1>2 DEF InnerInv, MainInv
  <2>2. Wrap(at + 1)' = Wrap(at + 2)
    BY <1>1, <1>2 DEF Wrap
  <2> QED
    BY <2>1, <2>2, <1>1, <1>2 DEF MainInv
<1>4. \A s \in Segments : lock[s] = Reader => lock'[s] = Reader
  BY <1>1, <1>2 DEF InnerInv, MainInv, Main, Reader
<1> QED
  BY <1>1, <1>3, <1>4, MainLeaves

LEMMA MainKeeps ==
  ASSUME InnerInv,
         MainStep \/ ReceiveRequest \/ ReceiveTerminate
           \/ \E m \in sends : Taken(m)
  PROVE  DInv'
<1>1. ASSUME UnlockAt \/ UnlockAhead \/ Join PROVE Over'
  BY <1>1 DEF UnlockAt, UnlockAhead, Join, MGo, Over
<1> QED
  BY <1>1, MainMoves, LockAheadStep, UnlockBehindStep DEF MainStep, DInv

(***************************************************************************)
(* The steps of the reader.                                                *)
(***************************************************************************)
(* The reader leaves main what it has.                                     *)
LEMMA ReaderLeaves ==
  ASSUME InnerInv, UNCHANGED <<mpc, at>>,
         lock' \in [Segments -> {Free, Main, Reader}],
         \A s \in Segments : lock[s] = Main => lock'[s] = Main
  PROVE  MainInv'
<1>1. /\ at \in Segments /\ Wrap(at + 1) \in Segments
      /\ Wrap(at + 2) \in Segments
  BY Neighbours DEF InnerInv, MainInv
<1> QED
  BY <1>1 DEF InnerInv, MainInv, Wrap

LEMMA OpeningSteps ==
  ASSUME InnerInv,
         (source = "file" /\ OpenFirst) \/ OpenStream \/ FirstFrame
           \/ InitialiseFake
  PROVE  InnerInv'
<1>1. /\ rpc \in {"openfirst", "firstframe"}
      /\ rpc' \in {"openfirst", "firstframe", "fill", "start"}
      /\ rpc' = "start" => source = "file" /\ ~keepreading'
      /\ UNCHANGED <<source, mpc, at, lock, started, last, numread>>
  BY DEF OpenFirst, OpenStream, FirstFrame, InitialiseFake, RGo, mainVars
<1>2. MainInv'
  BY <1>1, ReaderLeaves DEF InnerInv, MainInv
<1>3. numread = 0 /\ Early
  BY <1>1 DEF InnerInv, StartInv, Early
<1>4. StartInv'
  BY <1>1, <1>3 DEF InnerInv, StartInv, Early
<1>5. ReaderInv'
  BY <1>1, <1>3 DEF InnerInv, ReaderInv
<1> QED
  BY <1>2, <1>4, <1>5 DEF InnerInv

LEMMA FillStep == ASSUME InnerInv, Fill PROVE InnerInv'
<1>1. /\ rpc = "fill" /\ rpc' = "fillread"
      /\ last' = IF source = "network" THEN numread ELSE last
      /\ UNCHANGED <<source, mpc, at, lock, keepreading, started, numread>>
  BY DEF Fill, RGo, Prepare, mainVars
<1>2. MainInv'
  BY <1>1, ReaderLeaves DEF InnerInv, MainInv
<1>3. StartInv'
  BY <1>1 DEF InnerInv, StartInv, Early
<1>4. ReaderInv'
  <2>1. last' \in Segments
    BY <1>1, FirstSegments DEF InnerInv, StartInv, ReaderInv
  <2> QED
    BY <2>1, <1>1 DEF InnerInv, ReaderInv, ThirdHeld
<1> QED
  BY <1>2, <1>3, <1>4 DEF InnerInv

(* What reading into a segment leaves alone.                               *)
LEMMA ReadingLeaves ==
  ASSUME NEW s, Reading(s)
  PROVE  UNCHANGED <<source, mpc, at, lock, started>>
BY DEF Reading, DiskToMemory, FakeToMemory, ReadNetwork, HangUp, Filled,
  mainVars

LEMMA FillReadStep == ASSUME InnerInv, FillRead PROVE InnerInv'
<1>1. /\ rpc = "fillread" /\ numread' = numread + 1
      /\ numread \in {0, 1, 2}
      /\ last' = IF source = "fake" /\ numread = 2 THEN numread ELSE last
      /\ UNCHANGED <<source, mpc, at, lock, started>>
  BY ReadingLeaves DEF FillRead, InnerInv, StartInv
<1>2. rpc' = CASE numread = 0 -> "fill" [] numread = 1 -> "locklast"
                  [] OTHER -> "outer"
  BY DEF FillRead
<1>3. MainInv'
  BY <1>1, ReaderLeaves DEF InnerInv, MainInv
<1>4. last' \in Segments
  BY <1>1, FirstSegments DEF InnerInv, ReaderInv
<1>5. CASE numread = 0 \/ numread = 1
  <2>1. /\ rpc' \in {"fill", "locklast"}
        /\ rpc' = "fill" => numread' = 1
        /\ rpc' = "locklast" => numread' = 2
        /\ ~started
    BY <1>1, <1>2, <1>5 DEF InnerInv, StartInv, Early
  <2>2. StartInv'
    BY <2>1, <1>1 DEF InnerInv, StartInv
  <2>3. CASE rpc' = "fill"
    BY <2>1, <2>2, <2>3, <1>3, <1>4 DEF InnerInv, ReaderInv
  <2>4. CASE rpc' = "locklast"
    BY <2>1, <2>2, <2>4, <1>3, <1>4 DEF InnerInv, ReaderInv
  <2> QED
    BY <2>1, <2>3, <2>4
<1>6. CASE numread = 2
  <2>1. rpc' = "outer"
    BY <1>2, <1>6
  <2>2. lock[2] = Reader /\ last' = 2
    BY <1>1, <1>6 DEF InnerInv, StartInv, ReaderInv, ThirdHeld
  <2>3. StartInv'
    BY <2>1, <1>1 DEF InnerInv, StartInv, Early
  <2>4. ReaderInv'
    BY <2>1, <2>2, <1>1, <1>4 DEF ReaderInv
  <2> QED
    BY <2>3, <2>4, <1>3 DEF InnerInv
<1> QED
  BY <1>1, <1>5, <1>6

LEMMA LockLastStep == ASSUME InnerInv, LockLast PROVE InnerInv'
<1>1. /\ rpc = "locklast" /\ rpc' = "start" /\ numread = 2
      /\ last' = IF source = "file" THEN numread ELSE last
      /\ lock[2] = Free /\ lock' = [lock EXCEPT ![2] = Reader]
      /\ UNCHANGED <<source, mpc, at, started, keepreading, numread>>
  BY DEF LockLast, RGo, Acquire, mainVars, InnerInv, StartInv
<1>2. MainInv'
  <2>1. /\ lock' \in [Segments -> {Free, Main, Reader}]
        /\ \A s \in Segments : lock[s] = Main => lock'[s] = Main
    BY <1>1, FirstSegments DEF InnerInv, MainInv, Free, Main
  <2> QED
    BY <2>1, <1>1, ReaderLeaves
<1>3. StartInv'
  BY <1>1 DEF InnerInv, StartInv, Early
<1>4. lock'[2] = Reader
  BY <1>1, FirstSegments DEF InnerInv, MainInv
<1>5. ReaderInv'
  BY <1>1, <1>4, FirstSegments DEF InnerInv, ReaderInv, ThirdHeld
<1> QED
  BY <1>2, <1>3, <1>5 DEF InnerInv

LEMMA StartStep == ASSUME InnerInv, Start PROVE DInv'
<1>1. /\ rpc = "start"
      /\ rpc' = IF keepreading \/ source = "network" THEN "fill" ELSE "outer"
      /\ started'
      /\ last' = IF source = "fake" /\ ~keepreading THEN numread - 1 ELSE last
      /\ UNCHANGED <<source, mpc, at, lock, keepreading, numread>>
  BY DEF Start, RGo, mainVars
<1>2. CASE keepreading \/ source = "network"
  <2>1. ThirdHeld /\ rpc' = "fill" /\ last' = last
    BY <1>1, <1>2 DEF InnerInv, ReaderInv
  <2>2. MainInv'
    BY <1>1, ReaderLeaves DEF InnerInv, MainInv
  <2>3. StartInv'
    BY <2>1, <1>1 DEF InnerInv, StartInv, Early, ThirdHeld
  <2>4. ReaderInv'
    BY <2>1, <1>1 DEF InnerInv, ReaderInv, ThirdHeld
  <2> QED
    BY <2>2, <2>3, <2>4 DEF InnerInv, DInv
<1>3. CASE ~(keepreading \/ source = "network")
  BY <1>1, <1>3 DEF DInv, Over
<1> QED
  BY <1>2, <1>3

(* The reader's loop, from which it has one mutex, or two.                 *)
LoopStep ==
  Outer \/ Inner \/ Lock \/ UnlockPrev \/ PrepareLast \/ ReadLast
    \/ UnlockLate \/ NextFile \/ NextFrame

LEMMA LoopStart ==
  ASSUME InnerInv, LoopStep
  PROVE  /\ UNCHANGED <<source, mpc, at, started>>
         /\ rpc' \in {"outer", "inner", "lock", "unlockprev", "prepare",
                      "read", "unlocklate", "nextfile", "exit"}
         /\ StartInv'
<1>1. /\ UNCHANGED <<source, mpc, at, started>>
      /\ rpc \in {"outer", "inner", "lock", "unlockprev", "prepare", "read",
                  "unlocklate", "nextfile"}
      /\ rpc' \in {"outer", "inner", "lock", "unlockprev", "prepare", "read",
                   "unlocklate", "nextfile", "exit"}
  BY ReadingLeaves DEF LoopStep, Outer, Inner, Lock, UnlockPrev, PrepareLast,
    ReadLast, UnlockLate, NextFile, NextFrame, Prepare, RGo, mainVars
<1>2. StartInv'
  BY <1>1 DEF InnerInv, StartInv, Early
<1> QED
  BY <1>1, <1>2

LEMMA LoopMoves ==
  ASSUME InnerInv,
         Inner \/ PrepareLast \/ ReadLast \/ NextFile \/ NextFrame
           \/ (Outer /\ keepreading)
  PROVE  InnerInv'
<1>1. /\ UNCHANGED <<source, mpc, at>> /\ StartInv'
      /\ rpc' \in {"outer", "inner", "lock", "unlockprev", "prepare", "read",
                   "unlocklate", "nextfile", "exit"}
  BY LoopStart DEF LoopStep
<1>2. lock' = lock
  BY ReadingLeaves DEF Inner, PrepareLast, ReadLast, NextFile, NextFrame,
    Outer, Prepare
<1>3. MainInv'
  BY <1>1, <1>2, ReaderLeaves DEF InnerInv, MainInv
<1>4. last \in Segments
  BY DEF InnerInv, ReaderInv
<1>5. CASE Inner /\ rpc' = "lock"
  <2>1. lock[last] = Reader /\ last' = Wrap(last + 1)
    BY <1>5 DEF Inner, InnerInv, ReaderInv
  <2>2. last' \in Segments /\ Before(last)' = last
    BY <2>1, <1>4, Neighbours DEF Before, Wrap
  <2>3. ReaderInv'
    BY <2>1, <2>2, <1>2, <1>5 DEF ReaderInv
  <2> QED
    BY <2>3, <1>1, <1>3 DEF InnerInv
<1>6. CASE ~(Inner /\ rpc' = "lock")
  <2>1. /\ last' = last /\ lock[last] = Reader
        /\ rpc' \in {"outer", "inner", "nextfile", "read", "unlocklate"}
        /\ rpc' = "unlocklate" => lock[Before(last)] = Reader
        /\ rpc' = "read" /\ isnewfile' => lock[Before(last)] = Reader
    BY <1>6 DEF Inner, PrepareLast, Prepare, ReadLast, NextFile, NextFrame,
      Outer, RGo, InnerInv, ReaderInv, fileVars
  <2>2. Before(last)' = Before(last)
    BY <2>1 DEF Before, Wrap
  <2>3. ReaderInv'
    BY <2>1, <2>2, <1>2, <1>4 DEF ReaderInv
  <2> QED
    BY <2>3, <1>1, <1>3 DEF InnerInv
<1> QED
  BY <1>5, <1>6

LEMMA LockStep == ASSUME InnerInv, Lock PROVE InnerInv'
<1>1. /\ rpc = "lock"
      /\ rpc' = IF isnewfile THEN "prepare" ELSE "unlockprev"
      /\ lock[last] = Free /\ lock' = [lock EXCEPT ![last] = Reader]
      /\ UNCHANGED <<last, isnewfile>>
  BY DEF Lock, RGo, Acquire, fileVars
<1>2. UNCHANGED <<source, mpc, at>> /\ StartInv'
  BY LoopStart DEF LoopStep
<1>3. /\ last \in Segments /\ Before(last) \in Segments
      /\ Before(last) # last /\ lock[Before(last)] = Reader
      /\ Before(last)' = Before(last)
  BY <1>1, Neighbours DEF InnerInv, ReaderInv, Before, Wrap
<1>4. MainInv'
  <2>1. /\ lock' \in [Segments -> {Free, Main, Reader}]
        /\ \A s \in Segments : lock[s] = Main => lock'[s] = Main
    BY <1>1, <1>3 DEF InnerInv, MainInv, Free, Main
  <2> QED
    BY <2>1, <1>2, ReaderLeaves
<1>5. ReaderInv'
  BY <1>1, <1>3 DEF InnerInv, MainInv, ReaderInv
<1> QED
  BY <1>2, <1>4, <1>5 DEF InnerInv

LEMMA UnlockSteps ==
  ASSUME InnerInv, UnlockPrev \/ UnlockLate PROVE InnerInv'
<1>1. /\ rpc \in {"unlockprev", "unlocklate"}
      /\ rpc' \in {"prepare", "inner"}
      /\ lock' = [lock EXCEPT ![Before(last)] = Free]
      /\ last' = last
  BY DEF UnlockPrev, UnlockLate, RGo, Release
<1>2. UNCHANGED <<source, mpc, at>> /\ StartInv'
  BY LoopStart DEF LoopStep
<1>3. /\ last \in Segments /\ Before(last) \in Segments
      /\ Before(last) # last
      /\ lock[Before(last)] = Reader /\ lock[last] = Reader
  BY <1>1, Neighbours DEF InnerInv, ReaderInv
<1>4. MainInv'
  <2>1. /\ lock' \in [Segments -> {Free, Main, Reader}]
        /\ \A s \in Segments : lock[s] = Main => lock'[s] = Main
    BY <1>1, <1>3 DEF InnerInv, MainInv, Main, Reader
  <2> QED
    BY <2>1, <1>2, ReaderLeaves
<1>5. lock'[last] = Reader
  BY <1>1, <1>3 DEF InnerInv, MainInv
<1>6. rpc' = "prepare" => ~isnewfile'
  BY DEF UnlockPrev, UnlockLate, RGo, fileVars, InnerInv, ReaderInv
<1>7. ReaderInv'
  BY <1>1, <1>3, <1>5, <1>6 DEF InnerInv, ReaderInv
<1> QED
  BY <1>2, <1>4, <1>7 DEF InnerInv

(* At its end the reader is not in the loop any more.                      *)
LEMMA EndSteps ==
  ASSUME InnerInv, Exit \/ (Outer /\ ~keepreading) PROVE Over'
BY DEF Exit, Outer, RGo, Over

LEMMA ReaderKeeps == ASSUME InnerInv, ReaderStep PROVE DInv'
BY OpeningSteps, FillStep, FillReadStep, LockLastStep, StartStep, LoopMoves,
  LockStep, UnlockSteps, EndSteps
DEF ReaderStep, loopfileread, loopnetworkread, loopfakeread, Loop, DInv

(***************************************************************************)
(* The theorem.                                                            *)
(***************************************************************************)
LEMMA StepInv == DInv /\ [Next]_vars => DInv'
<1> SUFFICES ASSUME DInv, [Next]_vars PROVE DInv'
  OBVIOUS
<1>1. CASE Over
  BY <1>1, OverStays DEF DInv
<1>2. CASE InnerInv /\ UNCHANGED vars
  BY <1>2 DEF DInv, InnerInv, MainInv, StartInv, Early, ReaderInv, ThirdHeld,
    Before, Wrap, vars, mainVars, readerVars, fileVars
<1>3. CASE InnerInv /\ Next
  BY <1>2, <1>3, MainKeeps, ReaderKeeps DEF Next, Finished
<1> QED
  BY <1>1, <1>2, <1>3 DEF DInv

(* Main never looks at, or sends from, the segment the read thread is      *)
(* reading into: bufferlock, atsegment and lastvalidsegment of             *)
(* datastream.cpp keep them apart.                                         *)
THEOREM SegmentsExclusive == Spec => []SegmentExclusion
<1>1. Spec => []DInv
  BY InitInv, StepInv, PTL DEF Spec, DInv
<1>2. ASSUME DInv PROVE SegmentExclusion
  <2> SUFFICES ASSUME rpc \in {"prepare", "read", "fill", "fillread"},
                 mpc \notin {"init", "unlockat", "unlockahead", "join", "done"}
               PROVE  (IF rpc \in {"prepare", "read"} THEN last ELSE numread)
                        \notin {at, Wrap(at + 1)}
    BY DEF SegmentExclusion
  <2>1. InnerInv
    BY <1>2 DEF DInv, Over
  <2>2. lock[at] = Main /\ lock[Wrap(at + 1)] = Main
    BY <2>1 DEF InnerInv, MainInv
  <2>3. CASE rpc \in {"prepare", "read"}
    BY <2>1, <2>2, <2>3 DEF InnerInv, ReaderInv, Main, Reader
  <2>4. CASE rpc \in {"fill", "fillread"}
    <3>1. numread = 2 /\ lock[2] = Reader
      BY <2>1, <2>4 DEF InnerInv, StartInv, Early, ReaderInv, ThirdHeld
    <3> QED
      BY <3>1, <2>2, <2>4 DEF Main, Reader
  <2> QED
    BY <2>3, <2>4
<1>3. DInv => SegmentExclusion
  BY <1>2
<1> QED
  BY <1>1, <1>3, PTL

(***************************************************************************)
(* Types.  First the constants, and the least and the greatest of a set.   *)
(***************************************************************************)
LEMMA BlockFacts ==
  /\ SendBlocks \in Nat /\ SendBlocks >= 1
  /\ SegBlocks \in Nat /\ SegBlocks >= SendBlocks
  /\ MaxSends \in Nat /\ MaxSends >= 1
<1>1. PICK n \in 1 .. SegBlocks : SegBlocks = n * SendBlocks
  BY BlocksAssumption
<1>2. n \in Int /\ n >= 1 /\ SendBlocks \in Int /\ SendBlocks >= 1
  BY BlocksAssumption
<1>3. PICK e \in Nat : n = 1 + e
  BY <1>2
<1>4. SegBlocks = SendBlocks + e * SendBlocks /\ e * SendBlocks \in Nat
  BY <1>1, <1>2, <1>3
<1> QED
  BY <1>2, <1>4, BlocksAssumption

LEMMA LeastIs ==
  ASSUME NEW K \in SUBSET Nat, K # {}
  PROVE  Min(K) \in K /\ \A k \in K : Min(K) <= k
BY LeastOf DEF Min

LEMMA GreatestIs ==
  ASSUME NEW K \in SUBSET Nat, K # {}, NEW b \in Nat, \A k \in K : k <= b
  PROVE  Max(K) \in K /\ \A k \in K : k <= Max(K)
<1> DEFINE U == {u \in Nat : \A k \in K : k <= u}
<1>1. PICK m \in U : \A u \in U : m <= u
  <2>1. U \in SUBSET Nat /\ b \in U
    OBVIOUS
  <2> HIDE DEF U
  <2> QED
    BY <2>1, LeastOf
<1>2. m \in K
  <2>1. SUFFICES ASSUME m \notin K PROVE FALSE
    OBVIOUS
  <2>2. PICK k \in K : TRUE
    OBVIOUS
  <2>3. k \in Nat /\ m \in Nat /\ k <= m /\ k # m
    BY <1>1, <2>1
  <2>4. m - 1 \in Nat /\ \A j \in K : j <= m - 1
    BY <1>1, <2>1, <2>3
  <2>5. m - 1 \in U
    BY <2>4
  <2> QED
    BY <1>1, <2>5
<1>3. \A k \in K : m >= k
  BY <1>1
<1> QED
  BY <1>2, <1>3 DEF Max

LEMMA ScanTypes ==
  /\ NumScans \in Nat /\ NumScans >= 1
  /\ \A k \in 1 .. NumScans :
       /\ Scans[k].start \in Nat /\ Scans[k].config \in Nat
       /\ Scans[k].duration \in Nat /\ Scans[k].duration >= 1
<1> DEFINE S == [start : Nat, duration : Nat \ {0}, config : Nat]
<1>1. Scans \in Seq(S) /\ Scans # << >>
  BY ScansAssumption
<1>2. \A k \in 1 .. NumScans : Scans[k] \in S
  <2> HIDE DEF S
  <2> QED
    BY <1>1 DEF NumScans
<1> QED
  BY <1>1, <1>2 DEF NumScans

(* Which scan a subintegration is of, and when.                            *)
SubintsOf ==
  [k \in 1 .. NumScans |-> (Scans[k].duration + SendBlocks - 1) \div SendBlocks]

LEMMA SubintsType == SubintsOf \in [1 .. NumScans -> Nat]
<1>1. ASSUME NEW k \in 1 .. NumScans
      PROVE  (Scans[k].duration + SendBlocks - 1) \div SendBlocks \in Nat
  <2>1. PICK a \in Int, t \in Int :
          a = Scans[k].duration + SendBlocks - 1 /\ t = SendBlocks
    BY ScanTypes, BlockFacts
  <2>2. a >= 0 /\ t >= 1
    BY <2>1, ScanTypes, BlockFacts
  <2>3. a \div t \in Int /\ a \div t >= 0
    BY <2>2, Division
  <2> QED
    BY <2>1, <2>3
<1> QED
  BY <1>1 DEF SubintsOf

LEMMA SubintEnds == IsSum(SubintEnd, SubintsOf, NumScans)
<1> DEFINE d(k) == (Scans[k].duration + SendBlocks - 1) \div SendBlocks
<1>1. \A k \in 0 .. NumScans : k # 0 => SubintsOf[k] = d(k)
  BY ScanTypes DEF SubintsOf
<1>2. SubintEnd = CHOOSE g : g = [k \in 0 .. NumScans |->
                                    IF k = 0 THEN 0 ELSE g[k - 1] + d(k)]
  BY DEF SubintEnd
<1> HIDE DEF d
<1>3. \A g : [k \in 0 .. NumScans |-> IF k = 0 THEN 0 ELSE g[k - 1] + SubintsOf[k]]
             = [k \in 0 .. NumScans |-> IF k = 0 THEN 0 ELSE g[k - 1] + d(k)]
  BY <1>1
<1>4. SubintEnd = CHOOSE g : g = [k \in 0 .. NumScans |->
                                    IF k = 0 THEN 0 ELSE g[k - 1] + SubintsOf[k]]
  BY <1>2, <1>3, Zenon
<1> QED
  BY <1>4, ScanTypes, SubintsType, SumDefined

LEMMA SubintFacts ==
  /\ NumSubints \in Nat
  /\ \A n \in 0 .. NumSubints - 1 :
       SubintScan(n) \in 1 .. NumScans /\ SubintTime(n) \in Nat
<1>1. NumSubints \in Nat /\ \A k \in 0 .. NumScans : SubintEnd[k] \in Nat
  BY SubintEnds, ScanTypes DEF IsSum, NumSubints
<1>2. ASSUME NEW n \in 0 .. NumSubints - 1
      PROVE  SubintScan(n) \in 1 .. NumScans /\ SubintTime(n) \in Nat
  <2>1. n \in Nat /\ n < SubintEnd[NumScans]
    BY <1>1 DEF NumSubints
  <2>2. \E k \in 1 .. NumScans : SubintEnd[k - 1] <= n /\ n < SubintEnd[k]
    BY <2>1, ScanTypes, SubintsType, SubintEnds, SumParts
  <2>3. /\ SubintScan(n) \in 1 .. NumScans
        /\ SubintEnd[SubintScan(n) - 1] <= n
    BY <2>2 DEF SubintScan
  <2>4. PICK k \in 1 .. NumScans : k = SubintScan(n)
    BY <2>3
  <2>5. /\ k - 1 \in 0 .. NumScans /\ Scans[k].start \in Nat
        /\ n - SubintEnd[k - 1] \in Nat
    BY <1>1, <2>1, <2>3, <2>4, ScanTypes
  <2>6. PICK a \in Nat, b \in Nat, c \in Nat :
          a = n - SubintEnd[k - 1] /\ b = Scans[k].start /\ c = SendBlocks
    BY <2>5, BlockFacts
  <2>7. b + a * c \in Nat
    OBVIOUS
  <2>8. SubintTime(n) = b + a * c
    BY <2>4, <2>6 DEF SubintTime
  <2> QED
    BY <2>3, <2>7, <2>8
<1> QED
  BY <1>1, <1>2

LEMMA InputTypes ==
  /\ Inputs \in {Files, Frames} /\ Len(Inputs) \in Nat
  /\ \A f \in 1 .. Len(Inputs) :
       /\ Inputs[f].start \in Nat /\ Inputs[f].opens \in BOOLEAN
       /\ Inputs[f].length \in Nat /\ Inputs[f].length >= 1
<1> DEFINE S == [start : Nat, length : Nat \ {0}, opens : BOOLEAN]
<1>1. Inputs \in Seq(S) /\ Inputs \in {Files, Frames}
  BY FilesAssumption DEF Inputs
<1>2. \A f \in 1 .. Len(Inputs) : Inputs[f] \in S
  <2> HIDE DEF S
  <2> QED
    BY <1>1
<1>3. Len(Inputs) \in Nat
  <2> HIDE DEF S
  <2> QED
    BY <1>1
<1> QED
  BY <1>1, <1>2, <1>3

LEMMA ScanFromType ==
  ASSUME NEW k \in 1 .. NumScans, NEW t \in Nat
  PROVE  ScanFrom(k, t) \in 1 .. NumScans
<1> DEFINE U == {j \in k .. NumScans : j = NumScans \/ ScanEnd(j) >= t}
           up == Min(U)
           D == {j \in 1 .. up : j = 1 \/ Scans[j].start <= t}
<1>1. U \in SUBSET Nat /\ NumScans \in U
  BY ScanTypes
<1>2. up \in U
  <2> HIDE DEF U
  <2> QED
    BY <1>1, LeastIs
<1>3. up \in 1 .. NumScans /\ NumScans \in Nat
  BY <1>2, ScanTypes
<1> HIDE DEF up
<1>4. /\ up \in Nat
      /\ D \in SUBSET Nat /\ 1 \in D /\ \A j \in D : j <= up
      /\ D \subseteq 1 .. NumScans
  BY <1>3
<1>5. Max(D) \in D
  <2> HIDE DEF D
  <2> QED
    BY <1>4, GreatestIs
<1>6. Max(D) \in 1 .. NumScans
  <2> HIDE DEF D
  <2> QED
    BY <1>4, <1>5
<1>7. ScanFrom(k, t) = Max(D)
  BY DEF ScanFrom, up
<1> QED
  BY <1>6, <1>7

(* Steps from segment a forward to segment b.                              *)
Gap(a, b) == Wrap(b - a + NumSegments)

LEMMA WrapNext ==
  ASSUME NEW s \in Segments
  PROVE  /\ Wrap(s + 1) = IF s = NumSegments - 1 THEN 0 ELSE s + 1
         /\ Wrap(s + 1) \in Segments
<1>1. s + 1 \in Int /\ 0 <= s + 1 /\ s + 1 < 2 * NumSegments
  BY SegmentNumber
<1> QED
  BY <1>1, WrapOnce, SegmentNumber

LEMMA GapIs ==
  ASSUME NEW a \in Segments, NEW b \in Segments
  PROVE  /\ Gap(a, b) = IF b >= a THEN b - a ELSE b - a + NumSegments
         /\ Gap(a, b) \in Segments
<1>1. PICK k \in Int : k = b - a + NumSegments
  BY SegmentNumber
<1>2. 0 <= k /\ k < 2 * NumSegments
  BY <1>1, SegmentNumber
<1>3. /\ k < NumSegments => Wrap(k) = k
      /\ NumSegments <= k => Wrap(k) = k - NumSegments
      /\ Wrap(k) \in Segments
  BY <1>2, WrapOnce
<1>4. Gap(a, b) = Wrap(k)
  BY <1>1 DEF Gap
<1> QED
  BY <1>1, <1>3, <1>4, SegmentNumber

LEMMA GapNext ==
  ASSUME NEW a \in Segments, NEW b \in Segments
  PROVE  /\ Gap(a, b) \in Int /\ 0 <= Gap(a, b) /\ Gap(a, b) < NumSegments
         /\ Gap(a, Wrap(b + 1))
              = IF Gap(a, b) = NumSegments - 1 THEN 0 ELSE Gap(a, b) + 1
         /\ Gap(Wrap(a + 1), b)
              = IF Gap(a, b) = 0 THEN NumSegments - 1 ELSE Gap(a, b) - 1
<1>1. /\ Wrap(a + 1) \in Segments /\ Wrap(b + 1) \in Segments
      /\ Wrap(a + 1) = IF a = NumSegments - 1 THEN 0 ELSE a + 1
      /\ Wrap(b + 1) = IF b = NumSegments - 1 THEN 0 ELSE b + 1
  BY WrapNext
<1>2. PICK c \in Segments, d \in Segments : c = Wrap(a + 1) /\ d = Wrap(b + 1)
  BY <1>1
<1>3. /\ Gap(a, b) = IF b >= a THEN b - a ELSE b - a + NumSegments
      /\ Gap(a, d) = IF d >= a THEN d - a ELSE d - a + NumSegments
      /\ Gap(c, b) = IF b >= c THEN b - c ELSE b - c + NumSegments
  BY GapIs
<1>4. /\ a \in Int /\ 0 <= a /\ a < NumSegments
      /\ b \in Int /\ 0 <= b /\ b < NumSegments
      /\ NumSegments \in Int /\ NumSegments >= 5
  BY SegmentNumber
<1> QED
  BY <1>1, <1>2, <1>3, <1>4

(***************************************************************************)
(* The inductive invariant: the types, where the threads are, how much of  *)
(* a file has been read, and how far main is ahead of the sends.           *)
(***************************************************************************)
StageInv ==
  /\ rpc \in {"openfirst", "firstframe"} => numread = 0
  /\ rpc \in {"fill", "fillread"} => numread \in {0, 1, 2}
  /\ rpc = "locklast" => numread = 2
  /\ rpc = "start" => numread = 2 \/ (source = "file" /\ ~keepreading)
  /\ mpc \in {"check", "seek", "lockahead", "unlockbehind", "invalid", "post"}
       => asked < NumSubints

FileInv ==
  /\ keepreading \/ rpc \in {"openfirst", "firstframe", "nextfile"}
       => filesread <= Len(Inputs)
  /\ filesread \in 1 .. Len(Inputs) /\ Inputs[filesread].opens
       => filepos <= Inputs[filesread].length

(* The segments with sends not yet seen completed are those from wait to   *)
(* at, never the whole ring: main comes to a segment with none.            *)
WindowInv ==
  /\ Ahead <= NumSegments - 2
  /\ mpc \in {"lockahead", "unlockbehind"} => Ahead <= NumSegments - 3
  /\ \A s \in Segments : numsent[s] > 0 => Gap(wait, s) <= Ahead
  /\ mpc # "waitmax" => numsent[at] < MaxSends

TypeInv == TypeOK /\ StageInv /\ FileInv /\ WindowInv

LEMMA LeftType ==
  ASSUME TypeOK, FileInv
  PROVE  /\ Left \in Nat
         /\ Left > 0 => /\ filesread \in 1 .. Len(Inputs)
                        /\ Inputs[filesread].opens
                        /\ Left = Inputs[filesread].length - filepos
<1>1. filepos \in Nat
  BY DEF TypeOK
<1>2. CASE filesread \in 1 .. Len(Inputs) /\ Inputs[filesread].opens
  <2>1. /\ Left = Inputs[filesread].length - filepos
        /\ Inputs[filesread].length \in Nat /\ filepos <= Inputs[filesread].length
    BY <1>2, InputTypes DEF FileInv, Left
  <2> QED
    BY <1>1, <1>2, <2>1
<1>3. CASE ~(filesread \in 1 .. Len(Inputs) /\ Inputs[filesread].opens)
  BY <1>3 DEF Left
<1> QED
  BY <1>2, <1>3

LEMMA TypeInit == Init => TypeInv
<1> SUFFICES ASSUME Init PROVE TypeInv
  OBVIOUS
<1> USE DEF Init
<1>1. TypeOK
  <2>1. /\ NumScans \in Nat /\ NumScans >= 1 /\ Scans[1].start \in Nat
        /\ Scans[1].config \in Nat /\ NumSubints \in Nat
    BY ScanTypes, SubintFacts
  <2>2. overflow \in Blocks /\ data \in [Segments -> Blocks]
    BY DEF Blocks
  <2>3. mpc \in MainSteps /\ rpc \in ReaderSteps
    BY DEF MainSteps, ReaderSteps
  <2>4. sends \subseteq Sends
    OBVIOUS
  <2>5. /\ numsent \in [Segments -> 0 .. MaxSends]
        /\ valid \in [Segments -> 0 .. SegBlocks]
    BY BlockFacts
  <2>6. 0 \in Segments /\ Len(Inputs) \in Nat
    BY FirstSegments, InputTypes
  <2>7. lock \in [Segments -> {Free, Main, Reader}]
    OBVIOUS
  <2>8. /\ scan \in [Segments -> 1 .. NumScans] /\ start \in [Segments -> Nat]
        /\ config \in [Segments -> Nat] /\ readto \in [Segments -> BOOLEAN]
    BY <2>1
  <2>9. filesread \in 0 .. Len(Inputs) + 1 /\ asked \in 0 .. NumSubints
    BY <2>1, <2>6
  <2>10. /\ at \in Segments /\ wait \in Segments /\ last \in Segments
         /\ source \in Sources
    BY <2>6
  <2>11. /\ keepreading \in BOOLEAN /\ started \in BOOLEAN
         /\ dataremaining \in BOOLEAN /\ isnewfile \in BOOLEAN
         /\ hungup \in BOOLEAN
    OBVIOUS
  <2>12. /\ numread \in 0 .. 3 /\ readscan \in 1 .. NumScans
         /\ readtime \in Nat /\ filepos \in Nat
    BY <2>1
  <2> HIDE DEF Init
  <2> QED
    BY <2>1, <2>2, <2>3, <2>4, <2>5, <2>6, <2>7, <2>8, <2>9, <2>10, <2>11,
      <2>12 DEF TypeOK
<1>2. StageInv
  BY DEF StageInv
<1>3. FileInv
  BY InputTypes DEF FileInv
<1>4. WindowInv
  <2>1. Ahead = Gap(0, 0)
    BY DEF Ahead, Gap
  <2>2. Ahead = 0 /\ NumSegments \in Int /\ NumSegments >= 5
    BY <2>1, FirstSegments, GapIs, SegmentsAssumption
  <2> QED
    BY <2>2, BlockFacts, FirstSegments DEF WindowInv
<1> QED
  BY <1>1, <1>2, <1>3, <1>4 DEF TypeInv

(***************************************************************************)
(* Types: the steps of main.                                               *)
(***************************************************************************)
LEMMA MainTypes ==
  ASSUME TypeInv, UNCHANGED <<source, infoVars, segmentVars, started, readerVars>>,
         mpc' \in MainSteps, asked' \in 0 .. NumSubints,
         at' \in Segments, wait' \in Segments, sends' \subseteq Sends,
         numsent' \in [Segments -> 0 .. MaxSends],
         lock' \in [Segments -> {Free, Main, Reader}], overflow' \in Blocks,
         keepreading' = keepreading \/ keepreading' = FALSE,
         mpc' \in {"check", "seek", "lockahead", "unlockbehind", "invalid", "post"}
           => asked' < NumSubints
  PROVE  TypeOK' /\ StageInv' /\ FileInv'
<1> USE DEF infoVars, segmentVars, readerVars, fileVars
<1>1. Inputs' = Inputs
  BY DEF Inputs
<1>2. keepreading' \in BOOLEAN
  BY DEF TypeInv, TypeOK
<1>3. TypeOK'
  BY <1>1, <1>2 DEF TypeInv, TypeOK
<1>4. StageInv'
  BY DEF TypeInv, StageInv
<1>5. FileInv'
  BY <1>1 DEF TypeInv, FileInv
<1> QED
  BY <1>3, <1>4, <1>5

(* Steps that leave main where it is, or send it on with nothing sent.     *)
LEMMA PlainTypes ==
  ASSUME TypeInv,
         SeeStarted \/ ReceiveRequest \/ Found \/ ReceiveTerminate \/ LockAhead
           \/ Drained \/ UnlockAt \/ UnlockAhead \/ Join
           \/ \E m \in sends : Taken(m)
  PROVE  TypeInv'
<1>1. /\ UNCHANGED <<source, infoVars, segmentVars, started, readerVars>>
      /\ UNCHANGED <<asked, at, wait, numsent, overflow>>
      /\ sends' \subseteq sends
      /\ mpc' \in MainSteps
      /\ keepreading' = keepreading \/ keepreading' = FALSE
      /\ mpc' \in {"check", "seek", "lockahead", "unlockbehind", "invalid", "post"}
           => asked < NumSubints
      /\ mpc' \in {"lockahead", "unlockbehind"} => mpc \in {"lockahead", "unlockbehind"}
      /\ mpc' # "waitmax" => mpc # "waitmax"
  BY DEF SeeStarted, ReceiveRequest, Found, ReceiveTerminate, LockAhead, Drained,
    UnlockAt, UnlockAhead, Join, Taken, MGo, MainSteps, TypeInv, TypeOK, StageInv
<1>2. lock' \in [Segments -> {Free, Main, Reader}]
  BY DEF SeeStarted, ReceiveRequest, Found, ReceiveTerminate, LockAhead, Drained,
    UnlockAt, UnlockAhead, Join, Taken, Acquire, Release, TypeInv, TypeOK
<1>3. TypeOK' /\ StageInv' /\ FileInv'
  <2>1. /\ asked' \in 0 .. NumSubints /\ at' \in Segments /\ wait' \in Segments
        /\ sends' \subseteq Sends /\ numsent' \in [Segments -> 0 .. MaxSends]
        /\ overflow' \in Blocks
    BY <1>1 DEF TypeInv, TypeOK
  <2> QED
    BY <1>1, <1>2, <2>1, MainTypes
<1>4. WindowInv'
  <2>1. Ahead' = Ahead /\ \A s \in Segments : Gap(wait, s)' = Gap(wait, s)
    BY <1>1 DEF Ahead, Gap, Wrap
  <2> QED
    BY <1>1, <2>1 DEF TypeInv, WindowInv, Gap, Wrap
<1> QED
  BY <1>3, <1>4 DEF TypeInv

(* Freeing the oldest segment, or being near enough to it.                 *)
LEMMA WaitKeeps ==
  ASSUME TypeInv, WaitForSendComplete, at' = at
  PROVE  /\ wait' \in Segments
         /\ numsent' \in [Segments -> 0 .. MaxSends]
         /\ Ahead' <= NumSegments - 3
         /\ \A s \in Segments : numsent'[s] > 0 => Gap(wait', s) <= Ahead'
         /\ \A s \in Segments : numsent'[s] <= numsent[s]
<1>1. /\ at \in Segments /\ wait \in Segments
      /\ numsent \in [Segments -> 0 .. MaxSends]
      /\ MaxSends \in Nat
  BY BlockFacts DEF TypeInv, TypeOK
<1>2. /\ NumSegments \in Int /\ NumSegments >= 5
      /\ Wrap(wait + 1) \in Segments
  BY <1>1, WrapNext, SegmentsAssumption
<1>3. Ahead = Gap(wait, at) /\ Ahead' = Gap(wait', at)
  BY DEF Ahead, Gap, Wrap
<1>4. /\ Ahead \in Int /\ 0 <= Ahead /\ Ahead <= NumSegments - 2
      /\ \A s \in Segments : numsent[s] > 0 => Gap(wait, s) <= Ahead
  BY <1>1, <1>3, GapNext DEF TypeInv, WindowInv
<1>5. CASE Ahead <= 2
  <2>1. UNCHANGED <<wait, numsent>>
    BY <1>5 DEF WaitForSendComplete
  <2>2. Ahead' = Ahead
    BY <2>1, <1>3
  <2> QED
    BY <2>1, <2>2, <1>1, <1>2, <1>4, <1>5
<1>6. CASE Ahead > 2 /\ AllSent(wait)
  <2>1. /\ wait' = Wrap(wait + 1)
        /\ numsent' = [numsent EXCEPT ![wait] = 0]
    BY <1>4, <1>6 DEF WaitForSendComplete
  <2>2. Ahead' = Ahead - 1
    BY <2>1, <1>1, <1>3, <1>6, GapNext
  <2>3. \A s \in Segments : numsent'[s] = IF s = wait THEN 0 ELSE numsent[s]
    BY <2>1, <1>1
  <2>4. ASSUME NEW s \in Segments, numsent'[s] > 0
        PROVE  Gap(wait', s) <= Ahead'
    <3>1. s # wait /\ numsent[s] > 0
      BY <2>3, <2>4
    <3>2. Gap(wait, s) <= Ahead
      BY <3>1, <1>4
    <3>3. Gap(wait, s) # 0
      BY <3>1, <1>1, <1>2, GapIs, SegmentNumber
    <3>4. Gap(wait', s) = Gap(wait, s) - 1 /\ Gap(wait, s) \in Int
      BY <3>3, <2>1, <1>1, GapNext
    <3> QED
      BY <2>2, <3>2, <3>4, <1>4
  <2>5. /\ numsent' \in [Segments -> 0 .. MaxSends]
        /\ \A s \in Segments : numsent'[s] <= numsent[s]
    BY <2>1, <2>3, <1>1
  <2> QED
    BY <2>1, <2>2, <2>4, <2>5, <1>2, <1>4
<1>7. CASE Ahead > 2 /\ ~AllSent(wait)
  <2>1. ~MustWait /\ UNCHANGED <<wait, numsent>>
    BY <1>4, <1>7 DEF WaitForSendComplete
  <2>2. Ahead' = Ahead
    BY <2>1, <1>3
  <2>3. /\ wait \in Int /\ 0 <= wait /\ wait < NumSegments
        /\ at \in Int /\ 0 <= at /\ at < NumSegments
    BY <1>1, SegmentNumber
  <2>4. PICK a \in Int, b \in Int :
          a = wait - 3 + NumSegments /\ b = wait - 2 + NumSegments
    BY <2>3, <1>2
  <2>5. 0 <= a /\ a < 2 * NumSegments /\ 0 <= b /\ b < 2 * NumSegments
    BY <2>3, <2>4, <1>2
  <2>6. /\ a < NumSegments => Wrap(a) = a
        /\ NumSegments <= a => Wrap(a) = a - NumSegments
        /\ b < NumSegments => Wrap(b) = b
        /\ NumSegments <= b => Wrap(b) = b - NumSegments
    BY <2>5, WrapOnce
  <2>7. at # Wrap(a) /\ at # Wrap(b)
    BY <2>1, <2>4 DEF MustWait
  <2>8. Ahead = IF at >= wait THEN at - wait ELSE at - wait + NumSegments
    BY <1>1, <1>3, GapIs
  <2>9. Ahead # NumSegments - 3 /\ Ahead # NumSegments - 2
    BY <2>3, <2>4, <2>6, <2>7, <2>8, <1>2
  <2> QED
    BY <2>1, <2>2, <2>9, <1>1, <1>2, <1>4
<1> QED
  BY <1>4, <1>5, <1>6, <1>7

(* Steps that look for a segment to free.                                  *)
LEMMA SeekTypes == ASSUME TypeInv, Check \/ Seek PROVE TypeInv'
<1>1. /\ UNCHANGED <<source, infoVars, segmentVars, started, readerVars>>
      /\ UNCHANGED <<asked, at, sends, overflow, lock, keepreading>>
      /\ mpc \in {"check", "seek"}
      /\ mpc' \in {"invalid", "seek", "lockahead"}
      /\ mpc' = "lockahead" => WaitForSendComplete
      /\ WaitForSendComplete \/ UNCHANGED <<wait, numsent>>
  BY DEF Check, Seek, MGo
<1>2. /\ at \in Segments /\ wait \in Segments
      /\ numsent \in [Segments -> 0 .. MaxSends]
      /\ NumSegments \in Int /\ MaxSends \in Nat
      /\ numsent[at] < MaxSends /\ asked < NumSubints
  <2>1. /\ at \in Segments /\ wait \in Segments
        /\ numsent \in [Segments -> 0 .. MaxSends]
    BY DEF TypeInv, TypeOK
  <2>2. mpc # "waitmax" /\ asked < NumSubints
    BY <1>1 DEF TypeInv, StageInv
  <2>3. numsent[at] < MaxSends
    BY <2>2 DEF TypeInv, WindowInv
  <2> QED
    BY <2>1, <2>2, <2>3, BlockFacts, SegmentsAssumption
<1>3. CASE WaitForSendComplete
  <2>1. /\ wait' \in Segments
        /\ numsent' \in [Segments -> 0 .. MaxSends]
        /\ Ahead' <= NumSegments - 3
        /\ \A s \in Segments : numsent'[s] > 0 => Gap(wait', s) <= Ahead'
        /\ \A s \in Segments : numsent'[s] <= numsent[s]
    BY <1>1, <1>3, WaitKeeps
  <2>2. mpc' \in MainSteps
    BY <1>1 DEF MainSteps
  <2>3. TypeOK' /\ StageInv' /\ FileInv'
    <3>1. /\ asked' \in 0 .. NumSubints /\ at' \in Segments
          /\ sends' \subseteq Sends /\ overflow' \in Blocks
          /\ lock' \in [Segments -> {Free, Main, Reader}]
      BY <1>1 DEF TypeInv, TypeOK
    <3> QED
      BY <1>1, <1>2, <2>1, <2>2, <3>1, MainTypes
  <2>4. Ahead' \in Int
    <3>1. Ahead' = Gap(wait', at)
      BY <1>1 DEF Ahead, Gap, Wrap
    <3> QED
      BY <3>1, <1>2, <2>1, GapNext
  <2>5. numsent'[at] < MaxSends
    BY <1>2, <2>1
  <2>6. WindowInv'
    BY <1>1, <1>2, <2>1, <2>4, <2>5 DEF WindowInv, Gap, Wrap
  <2> QED
    BY <2>3, <2>6 DEF TypeInv
<1>4. CASE UNCHANGED <<wait, numsent>> /\ mpc' # "lockahead"
  <2>1. mpc' \in MainSteps /\ wait' \in Segments
    BY <1>1, <1>2, <1>4 DEF MainSteps
  <2>2. TypeOK' /\ StageInv' /\ FileInv'
    <3>1. /\ asked' \in 0 .. NumSubints /\ at' \in Segments
          /\ sends' \subseteq Sends /\ overflow' \in Blocks
          /\ numsent' \in [Segments -> 0 .. MaxSends]
          /\ lock' \in [Segments -> {Free, Main, Reader}]
      BY <1>1, <1>4 DEF TypeInv, TypeOK
    <3> QED
      BY <1>1, <1>2, <2>1, <3>1, MainTypes
  <2>3. WindowInv'
    BY <1>1, <1>2, <1>4 DEF TypeInv, WindowInv, Ahead, Gap, Wrap
  <2> QED
    BY <2>2, <2>3 DEF TypeInv
<1> QED
  BY <1>1, <1>3, <1>4

LEMMA UnlockBehindTypes == ASSUME TypeInv, UnlockBehind PROVE TypeInv'
<1>1. /\ UNCHANGED <<source, infoVars, segmentVars, started, readerVars>>
      /\ UNCHANGED <<asked, wait, sends, overflow, numsent, keepreading>>
      /\ mpc = "unlockbehind" /\ mpc' = "seek"
      /\ at' = Wrap(at + 1) /\ lock' = [lock EXCEPT ![at] = Free]
  BY DEF UnlockBehind, MGo, Release
<1>2. /\ at \in Segments /\ wait \in Segments
      /\ numsent \in [Segments -> 0 .. MaxSends]
      /\ NumSegments \in Int /\ MaxSends \in Nat /\ MaxSends >= 1
      /\ asked < NumSubints /\ Ahead <= NumSegments - 3
      /\ Wrap(at + 1) \in Segments
  BY <1>1, BlockFacts, SegmentsAssumption, WrapNext
  DEF TypeInv, TypeOK, WindowInv, StageInv
<1>3. TypeOK' /\ StageInv' /\ FileInv'
  <2>1. /\ asked' \in 0 .. NumSubints /\ at' \in Segments /\ wait' \in Segments
        /\ sends' \subseteq Sends /\ overflow' \in Blocks
        /\ numsent' \in [Segments -> 0 .. MaxSends]
        /\ lock' \in [Segments -> {Free, Main, Reader}]
    BY <1>1, <1>2 DEF TypeInv, TypeOK
  <2>2. mpc' \in MainSteps /\ asked' < NumSubints
    BY <1>1, <1>2 DEF MainSteps
  <2> QED
    BY <1>1, <2>1, <2>2, MainTypes
<1>4. WindowInv'
  <2>1. Ahead = Gap(wait, at) /\ Ahead' = Gap(wait, Wrap(at + 1))
    BY <1>1 DEF Ahead, Gap, Wrap
  <2>2. Ahead' = Ahead + 1 /\ Ahead \in Int
    BY <1>2, <2>1, GapNext
  <2>3. \A s \in Segments : numsent[s] > 0 => Gap(wait, s) <= Ahead
    BY DEF TypeInv, WindowInv
  <2>4. \A s \in Segments : Gap(wait, s) \in Int
    BY <1>2, GapNext
  <2>5. numsent[Wrap(at + 1)] = 0
    BY <1>2, <2>1, <2>2, <2>3
  <2>6. \A s \in Segments : numsent'[s] > 0 => Gap(wait', s) <= Ahead'
    BY <1>1, <2>2, <2>3, <2>4
  <2> QED
    BY <1>1, <1>2, <2>2, <2>5, <2>6 DEF WindowInv, Gap, Wrap
<1> QED
  BY <1>3, <1>4 DEF TypeInv

(* What is sent, and what is copied past the end of the databuffer.        *)
LEMMA SendTypes ==
  ASSUME TypeInv, PostInvalid \/ Post PROVE TypeInv'
<1>1. /\ UNCHANGED <<source, infoVars, segmentVars, started, readerVars>>
      /\ UNCHANGED <<at, wait, lock, keepreading>>
      /\ mpc \in {"post", "invalid"} /\ asked' = asked + 1
      /\ mpc' = IF numsent[at] + 1 = MaxSends THEN "waitmax" ELSE "request"
      /\ numsent' = [numsent EXCEPT ![at] = @ + 1]
      /\ \E f \in {Flags, {}} :
           sends' = sends \cup {[subint |-> asked, seg |-> at, pos |-> Offset,
                                 flags |-> f, config |-> config[at]]}
  BY DEF PostInvalid, Post, Send
<1>2. /\ at \in Segments /\ wait \in Segments
      /\ numsent \in [Segments -> 0 .. MaxSends]
      /\ asked \in 0 .. NumSubints /\ config[at] \in Nat /\ start[at] \in Nat
      /\ sends \subseteq Sends /\ overflow \in Blocks
      /\ data \in [Segments -> Blocks]
      /\ lock \in [Segments -> {Free, Main, Reader}]
  BY DEF TypeInv, TypeOK
<1>3. mpc # "waitmax" /\ asked < NumSubints
  BY <1>1 DEF TypeInv, StageInv
<1>4. numsent[at] < MaxSends /\ MaxSends \in Nat /\ NumSubints \in Nat
  BY <1>3, BlockFacts, SubintFacts DEF TypeInv, WindowInv
<1>5. asked \in 0 .. NumSubints - 1 /\ asked' \in 0 .. NumSubints
  BY <1>1, <1>2, <1>3, <1>4
<1>6. Time \in Nat /\ Offset \in Int
  BY <1>2, <1>5, SubintFacts DEF Time, Offset
<1>7. Position \in Int /\ Skipped \in Nat
  BY <1>6 DEF Position, Skipped
<1>8. Flags \in SUBSET (0 .. SendBlocks - 1)
  <2>1. \A i \in Skipped .. SendBlocks - 1 : i \in 0 .. SendBlocks - 1
    BY <1>7, BlockFacts
  <2> QED
    BY <2>1 DEF Flags
<1>9. sends' \subseteq Sends
  <2>1. PICK f \in {Flags, {}} :
          sends' = sends \cup {[subint |-> asked, seg |-> at, pos |-> Offset,
                                flags |-> f, config |-> config[at]]}
    BY <1>1
  <2>2. f \in SUBSET (0 .. SendBlocks - 1)
    BY <1>8
  <2>3. [subint |-> asked, seg |-> at, pos |-> Offset,
         flags |-> f, config |-> config[at]] \in Sends
    BY <2>2, <1>2, <1>5, <1>6 DEF Sends
  <2> QED
    BY <2>1, <2>3, <1>2
<1>10. overflow' \in Blocks
  <2>1. CASE PostInvalid
    BY <2>1, <1>2 DEF PostInvalid
  <2>2. CASE Post
    <3>1. data[0] \in Blocks
      BY <1>2, FirstSegments
    <3>2. CASE UNCHANGED overflow
      BY <3>2, <1>2
    <3>3. CASE overflow' = [j \in DOMAIN overflow |->
                              IF j < Position + SendBlocks - SegBlocks
                              THEN data[0][j] ELSE overflow[j]]
      BY <3>1, <3>3, <1>2 DEF Blocks
    <3> QED
      BY <2>2, <3>2, <3>3 DEF Post
  <2> QED
    BY <2>1, <2>2
<1>11. /\ numsent' \in [Segments -> 0 .. MaxSends]
       /\ \A s \in Segments : numsent'[s] = IF s = at THEN numsent[at] + 1 ELSE numsent[s]
  BY <1>1, <1>2, <1>4
<1>12. TypeOK' /\ StageInv' /\ FileInv'
  <2>1. mpc' \in MainSteps /\ mpc' \in {"waitmax", "request"}
    BY <1>1 DEF MainSteps
  <2> QED
    BY <2>1, <1>1, <1>2, <1>5, <1>9, <1>10, <1>11, MainTypes
<1>13. WindowInv'
  <2>1. Ahead' = Ahead /\ Ahead = Gap(wait, at)
    BY <1>1 DEF Ahead, Gap, Wrap
  <2>2. Ahead <= NumSegments - 2
    BY DEF TypeInv, WindowInv
  <2>3. ASSUME NEW s \in Segments, numsent'[s] > 0 PROVE Gap(wait, s) <= Ahead
    <3>1. CASE s = at
      BY <3>1, <2>1, <1>2, GapNext
    <3>2. CASE s # at
      BY <3>2, <2>3, <1>11 DEF TypeInv, WindowInv
    <3> QED
      BY <3>1, <3>2
  <2>4. mpc' # "waitmax" => numsent'[at] < MaxSends
    BY <1>1, <1>2, <1>4, <1>11
  <2>5. mpc' \notin {"lockahead", "unlockbehind"}
    BY <1>1
  <2>6. \A s \in Segments : numsent'[s] > 0 => Gap(wait', s) <= Ahead'
    BY <1>1, <2>1, <2>3 DEF Gap, Wrap
  <2> QED
    BY <1>1, <2>1, <2>2, <2>4, <2>5, <2>6 DEF WindowInv
<1> QED
  BY <1>12, <1>13 DEF TypeInv

(* A segment, all of whose sends are complete, is free again.              *)
LEMMA FreeTypes ==
  ASSUME TypeInv, WaitMax \/ Drain PROVE TypeInv'
<1>1. /\ UNCHANGED <<source, infoVars, segmentVars, started, readerVars>>
      /\ UNCHANGED <<asked, at, wait, sends, overflow, lock, keepreading>>
      /\ mpc' \in {"request", "drain"} /\ mpc \in {"waitmax", "drain"}
      /\ mpc = "waitmax" => numsent' = [numsent EXCEPT ![at] = 0]
      /\ mpc = "drain" => mpc' = "drain"
      /\ \E z : numsent' = [numsent EXCEPT ![z] = 0]
  BY DEF WaitMax, Drain, MGo, mainVars
<1>2. /\ at \in Segments /\ wait \in Segments
      /\ numsent \in [Segments -> 0 .. MaxSends]
      /\ MaxSends \in Nat /\ MaxSends >= 1
  BY BlockFacts DEF TypeInv, TypeOK
<1>3. /\ numsent' \in [Segments -> 0 .. MaxSends]
      /\ \A s \in Segments : numsent'[s] \in {0, numsent[s]}
  <2>1. PICK z : numsent' = [numsent EXCEPT ![z] = 0]
    BY <1>1
  <2>2. 0 \in 0 .. MaxSends
    BY <1>2
  <2>3. \A s \in Segments : numsent'[s] = IF s = z THEN 0 ELSE numsent[s]
    BY <2>1, <1>2
  <2> QED
    BY <2>1, <2>2, <2>3, <1>2
<1>4. TypeOK' /\ StageInv' /\ FileInv'
  <2>1. mpc' \in MainSteps
    BY <1>1 DEF MainSteps
  <2>2. /\ asked' \in 0 .. NumSubints /\ at' \in Segments /\ wait' \in Segments
        /\ sends' \subseteq Sends /\ overflow' \in Blocks
        /\ lock' \in [Segments -> {Free, Main, Reader}]
    BY <1>1 DEF TypeInv, TypeOK
  <2> QED
    BY <2>1, <2>2, <1>1, <1>3, MainTypes
<1>5. WindowInv'
  <2>1. Ahead' = Ahead
    BY <1>1 DEF Ahead, Wrap
  <2>2. numsent'[at] < MaxSends
    <3>1. CASE mpc = "waitmax"
      BY <3>1, <1>1, <1>2
    <3>2. CASE mpc = "drain"
      <4>1. numsent[at] < MaxSends
        BY <3>2 DEF TypeInv, WindowInv
      <4> QED
        BY <4>1, <1>2, <1>3
    <3> QED
      BY <3>1, <3>2, <1>1
  <2>3. \A s \in Segments : numsent'[s] > 0 => Gap(wait, s) <= Ahead
    BY <1>3 DEF TypeInv, WindowInv
  <2>4. \A s \in Segments : numsent'[s] > 0 => Gap(wait', s) <= Ahead'
    BY <1>1, <2>1, <2>3 DEF Gap, Wrap
  <2>5. Ahead <= NumSegments - 2
    BY DEF TypeInv, WindowInv
  <2> QED
    BY <1>1, <2>1, <2>2, <2>4, <2>5 DEF WindowInv
<1> QED
  BY <1>4, <1>5 DEF TypeInv

LEMMA MainKeepsTypes ==
  ASSUME TypeInv,
         MainStep \/ ReceiveRequest \/ ReceiveTerminate
           \/ \E m \in sends : Taken(m)
  PROVE  TypeInv'
BY PlainTypes, SeekTypes, UnlockBehindTypes, SendTypes, FreeTypes DEF MainStep

(***************************************************************************)
(* Types: the steps of the reader.                                         *)
(***************************************************************************)
(* What main has, the reader leaves.                                       *)
LEMMA WindowStays ==
  ASSUME TypeInv, UNCHANGED <<mainVars, numsent>> PROVE WindowInv'
BY DEF TypeInv, WindowInv, Ahead, Gap, Wrap, mainVars

(* What is true of where the reader is and of what it has read.            *)
LEMMA ReaderTypes ==
  ASSUME TypeInv, UNCHANGED <<mainVars, numsent>>,
         lock' \in [Segments -> {Free, Main, Reader}],
         scan' \in [Segments -> 1 .. NumScans],
         start' \in [Segments -> Nat], config' \in [Segments -> Nat],
         valid' \in [Segments -> 0 .. SegBlocks],
         readto' \in [Segments -> BOOLEAN], data' \in [Segments -> Blocks],
         keepreading' \in BOOLEAN, started' \in BOOLEAN, rpc' \in ReaderSteps,
         last' \in Segments, numread' \in 0 .. 3, readscan' \in 1 .. NumScans,
         readtime' \in Nat, filesread' \in 0 .. Len(Inputs) + 1, filepos' \in Nat,
         dataremaining' \in BOOLEAN, isnewfile' \in BOOLEAN, hungup' \in BOOLEAN
  PROVE  TypeOK'
<1>1. Inputs' = Inputs
  BY DEF Inputs, mainVars
<1> QED
  BY <1>1 DEF TypeInv, TypeOK, mainVars

(* Steps that neither open nor read.                                       *)
LEMMA WalkTypes ==
  ASSUME TypeInv,
         OpenStream \/ LockLast \/ Start \/ Outer \/ Inner \/ Lock \/ UnlockPrev
           \/ UnlockLate \/ Exit
  PROVE  TypeInv'
<1>1. /\ UNCHANGED <<mainVars, numsent, infoVars, segmentVars, keepreading>>
      /\ UNCHANGED <<numread, readscan, readtime, filesread, filepos,
                     dataremaining, hungup>>
      /\ started' = started \/ started' = TRUE
      /\ isnewfile' = isnewfile \/ isnewfile' = FALSE
  BY DEF OpenStream, LockLast, Start, Outer, Inner, Lock, UnlockPrev,
    UnlockLate, Exit, fileVars
<1>2. rpc' \in ReaderSteps
  BY DEF OpenStream, LockLast, Start, Outer, Inner, Lock, UnlockPrev,
    UnlockLate, Exit, RGo, ReaderSteps
<1>3. lock' \in [Segments -> {Free, Main, Reader}]
  BY DEF OpenStream, LockLast, Start, Outer, Inner, Lock, UnlockPrev,
    UnlockLate, Exit, Acquire, Release, TypeInv, TypeOK
<1>4. last' \in Segments
  <2>1. last \in Segments /\ Wrap(last + 1) \in Segments
    BY WrapNext DEF TypeInv, TypeOK
  <2>2. LockLast => numread = 2
    BY DEF LockLast, RGo, TypeInv, StageInv
  <2>3. Start => (source = "fake" => numread = 2)
    BY DEF Start, RGo, TypeInv, StageInv
  <2> QED
    BY <2>1, <2>2, <2>3, FirstSegments
    DEF OpenStream, LockLast, Start, Outer, Inner, Lock, UnlockPrev,
      UnlockLate, Exit, fileVars
<1>5. TypeOK'
  <2>1. started' \in BOOLEAN /\ isnewfile' \in BOOLEAN
    BY <1>1, Zenon DEF TypeInv, TypeOK
  <2>2. /\ scan' \in [Segments -> 1 .. NumScans]
        /\ start' \in [Segments -> Nat] /\ config' \in [Segments -> Nat]
        /\ valid' \in [Segments -> 0 .. SegBlocks]
        /\ readto' \in [Segments -> BOOLEAN] /\ data' \in [Segments -> Blocks]
    BY <1>1 DEF infoVars, segmentVars, TypeInv, TypeOK
  <2>3. /\ keepreading' \in BOOLEAN /\ dataremaining' \in BOOLEAN
        /\ hungup' \in BOOLEAN
    BY <1>1, Zenon DEF TypeInv, TypeOK
  <2>4. /\ numread' \in 0 .. 3 /\ readscan' \in 1 .. NumScans
        /\ readtime' \in Nat /\ filesread' \in 0 .. Len(Inputs) + 1
        /\ filepos' \in Nat
    BY <1>1 DEF TypeInv, TypeOK
  <2> QED
    BY <1>1, <1>2, <1>3, <1>4, <2>1, <2>2, <2>3, <2>4, ReaderTypes
<1>6. StageInv'
  <2>1. /\ rpc' \in {"openfirst", "firstframe"} => rpc = "openfirst"
        /\ rpc' \in {"fill", "fillread"} => rpc = "start" /\ numread = 2
        /\ rpc' # "locklast"
        /\ rpc' = "start" => rpc = "locklast"
    BY DEF OpenStream, LockLast, Start, Outer, Inner, Lock, UnlockPrev,
      UnlockLate, Exit, RGo, TypeInv, StageInv
  <2> QED
    BY <2>1, <1>1 DEF TypeInv, StageInv, mainVars
<1>7. FileInv'
  <2>1. Inputs' = Inputs
    BY <1>1 DEF Inputs, mainVars
  <2>2. rpc' \in {"openfirst", "firstframe", "nextfile"}
          => keepreading \/ rpc = "openfirst"
    BY DEF OpenStream, LockLast, Start, Outer, Inner, Lock, UnlockPrev,
      UnlockLate, Exit, RGo
  <2> QED
    BY <2>1, <2>2, <1>1 DEF TypeInv, FileInv
<1> QED
  BY <1>1, <1>5, <1>6, <1>7, WindowStays DEF TypeInv

(* Another file or frame is opened, or there is none.                      *)
LEMMA OpenTypes ==
  ASSUME TypeInv,
         \/ source = "file" /\ (OpenFirst \/ NextFile)
         \/ source = "network" /\ (FirstFrame \/ NextFrame)
  PROVE  TypeInv'
<1>1. /\ UNCHANGED <<mainVars, numsent, lock, scan, start, segmentVars, started>>
      /\ UNCHANGED <<last, numread, hungup>>
      /\ filesread' = filesread + 1
      /\ rpc \in {"openfirst", "firstframe", "nextfile"}
      /\ rpc' \in {"openfirst", "fill", "start", "outer"}
      /\ rpc' = "openfirst" => source = "file" /\ keepreading' /\ rpc = "openfirst"
      /\ rpc' = "fill" => rpc \in {"openfirst", "firstframe"}
      /\ rpc' = "start" => source = "file" /\ ~keepreading'
  BY DEF OpenFirst, NextFile, FirstFrame, NextFrame, OpenFile, OpenFrame, RGo,
    infoVars
<1>2. /\ Inputs' = Inputs
      /\ Inputs = IF source = "network" THEN Frames ELSE Files
      /\ Len(Inputs) \in Nat /\ filesread \in 0 .. Len(Inputs)
  <2>1. /\ Inputs' = Inputs
        /\ Inputs = IF source = "network" THEN Frames ELSE Files
    BY <1>1 DEF Inputs, mainVars
  <2>2. filesread \in 0 .. Len(Inputs) + 1 /\ filesread <= Len(Inputs)
    BY <1>1 DEF TypeInv, TypeOK, FileInv
  <2> QED
    BY <2>1, <2>2, InputTypes
<1>3. /\ keepreading' => filesread < Len(Inputs)
      /\ keepreading' = keepreading \/ keepreading' = FALSE
      /\ \/ UNCHANGED <<isnewfile, filepos, readtime, readscan>>
         \/ /\ isnewfile' = TRUE /\ filepos' = 0 /\ filesread < Len(Inputs)
            /\ readtime' = Inputs[filesread + 1].start
            /\ readscan' = ScanFrom(readscan, readtime')
      /\ filesread + 1 \in 1 .. Len(Inputs) /\ Inputs[filesread + 1].opens
           => filepos' = 0
      /\ dataremaining' = dataremaining \/ dataremaining' = TRUE
           \/ dataremaining' = FALSE
      /\ keepreading' => keepreading
  <2>1. CASE source = "file"
    <3>1. OpenFile /\ Inputs = Files
      BY <2>1, <1>2 DEF OpenFirst, NextFile
    <3>2. CASE filesread >= Len(Files)
      BY <3>1, <3>2, <1>2 DEF OpenFile
    <3>3. CASE filesread < Len(Files) /\ ~Files[filesread + 1].opens
      BY <3>1, <3>3, <1>2 DEF OpenFile
    <3>4. CASE filesread < Len(Files) /\ Files[filesread + 1].opens
      BY <3>1, <3>4, <1>2 DEF OpenFile, Opened
    <3>5. filesread \in Int /\ Len(Files) \in Int
      BY <3>1, <1>2
    <3>6. \/ filesread >= Len(Files)
          \/ filesread < Len(Files) /\ Files[filesread + 1].opens
          \/ filesread < Len(Files) /\ ~Files[filesread + 1].opens
      BY <3>5
    <3> QED
      BY <3>2, <3>3, <3>4, <3>6
  <2>2. CASE source = "network"
    <3>1. OpenFrame /\ Inputs = Frames
      BY <2>2, <1>2 DEF FirstFrame, NextFrame
    <3>2. CASE filesread < Len(Frames) /\ Frames[filesread + 1].opens
      BY <3>1, <3>2, <1>2 DEF OpenFrame, Opened
    <3>3. CASE ~(filesread < Len(Frames) /\ Frames[filesread + 1].opens)
      BY <3>1, <3>3, <1>2 DEF OpenFrame
    <3> QED
      BY <3>1, <3>2, <3>3
  <2> QED
    BY <2>1, <2>2
<1>4. readtime' \in Nat /\ readscan' \in 1 .. NumScans /\ filepos' \in Nat
  <2>1. /\ readtime \in Nat /\ readscan \in 1 .. NumScans /\ filepos \in Nat
    BY DEF TypeInv, TypeOK
  <2>2. filesread < Len(Inputs) => Inputs[filesread + 1].start \in Nat
    BY <1>2, InputTypes
  <2>3. CASE UNCHANGED <<filepos, readtime, readscan>>
    BY <2>1, <2>3
  <2>4. CASE /\ filepos' = 0 /\ readtime' \in Nat
             /\ readscan' = ScanFrom(readscan, readtime')
    BY <2>1, <2>4, ScanFromType
  <2> QED
    BY <2>2, <2>3, <2>4, <1>3
<1>5. config' \in [Segments -> Nat]
  <2>1. \A k \in 1 .. NumScans : Scans[k].config \in Nat
    BY ScanTypes
  <2>2. /\ config \in [Segments -> Nat] /\ readscan \in 1 .. NumScans
    BY DEF TypeInv, TypeOK
  <2>3. \/ UNCHANGED config
        \/ \E z : config' = [config EXCEPT ![z] = Scans[readscan].config]
        \/ \E z : config' = [config EXCEPT ![z] = Scans[readscan'].config]
    BY DEF OpenFirst, NextFile, FirstFrame, NextFrame, infoVars
  <2> QED
    BY <2>1, <2>2, <2>3, <1>4
<1>6. TypeOK'
  <2>1. /\ keepreading' \in BOOLEAN /\ isnewfile' \in BOOLEAN
        /\ dataremaining' \in BOOLEAN
    BY <1>3, Zenon DEF TypeInv, TypeOK
  <2>2. started' \in BOOLEAN /\ hungup' \in BOOLEAN
    BY <1>1, Zenon DEF TypeInv, TypeOK
  <2>3. filesread' \in 0 .. Len(Inputs) + 1 /\ rpc' \in ReaderSteps
    BY <1>1, <1>2 DEF ReaderSteps
  <2>4. /\ lock' \in [Segments -> {Free, Main, Reader}]
        /\ scan' \in [Segments -> 1 .. NumScans] /\ start' \in [Segments -> Nat]
        /\ valid' \in [Segments -> 0 .. SegBlocks]
        /\ readto' \in [Segments -> BOOLEAN] /\ data' \in [Segments -> Blocks]
        /\ last' \in Segments /\ numread' \in 0 .. 3
    BY <1>1 DEF segmentVars, TypeInv, TypeOK
  <2> QED
    BY <1>1, <1>4, <1>5, <2>1, <2>2, <2>3, <2>4, ReaderTypes
<1>7. StageInv'
  <2>1. rpc \in {"openfirst", "firstframe"} => numread = 0
    BY DEF TypeInv, StageInv
  <2> QED
    BY <1>1, <1>3, <2>1 DEF TypeInv, StageInv, mainVars
<1>8. FileInv'
  <2>1. keepreading' \/ rpc' \in {"openfirst", "firstframe", "nextfile"}
          => filesread' <= Len(Inputs)
    BY <1>1, <1>2, <1>3
  <2>2. filesread' \in 1 .. Len(Inputs) /\ Inputs[filesread'].opens
          => filepos' <= Inputs[filesread'].length
    BY <1>1, <1>2, <1>3, InputTypes
  <2> QED
    BY <2>1, <2>2, <1>2 DEF FileInv
<1> QED
  BY <1>1, <1>6, <1>7, <1>8, WindowStays DEF TypeInv

LEMMA FakeTypes == ASSUME TypeInv, InitialiseFake PROVE TypeInv'
<1>1. /\ UNCHANGED <<mainVars, numsent, lock, infoVars, segmentVars, keepreading,
                     started, last, numread, filesread, filepos, isnewfile, hungup>>
      /\ rpc = "openfirst" /\ rpc' = "fill" /\ dataremaining' = TRUE
      /\ readscan' = 1 /\ readtime' = Scans[1].start
  BY DEF InitialiseFake, RGo
<1>2. readscan' \in 1 .. NumScans /\ readtime' \in Nat /\ rpc' \in ReaderSteps
  BY <1>1, ScanTypes DEF ReaderSteps
<1>3. TypeOK'
  BY <1>1, <1>2, ReaderTypes DEF infoVars, segmentVars, TypeInv, TypeOK
<1>4. StageInv'
  BY <1>1 DEF TypeInv, StageInv, mainVars
<1>5. FileInv'
  BY <1>1 DEF TypeInv, FileInv, Inputs, mainVars
<1> QED
  BY <1>1, <1>3, <1>4, <1>5, WindowStays DEF TypeInv

(* A segment is said to be read into.                                      *)
LEMMA PrepareTypes == ASSUME TypeInv, Fill \/ PrepareLast PROVE TypeInv'
<1>1. \E s :
        /\ start' = [start EXCEPT ![s] = readtime]
        /\ scan' = [scan EXCEPT ![s] = readscan]
        /\ config' = [config EXCEPT ![s] = Scans[readscan].config]
  BY DEF Fill, PrepareLast, Prepare
<1>2. /\ UNCHANGED <<mainVars, numsent, lock, segmentVars, keepreading, started,
                     numread, fileVars>>
      /\ rpc \in {"fill", "prepare"} /\ rpc' \in {"fillread", "read"}
      /\ rpc' = "fillread" => rpc = "fill"
      /\ last' = last \/ (last' = numread /\ rpc = "fill")
  <2>1. CASE Fill
    BY <2>1 DEF Fill, Prepare, RGo
  <2>2. CASE PrepareLast
    BY <2>2 DEF PrepareLast, Prepare, RGo
  <2> QED
    BY <2>1, <2>2
<1>3. /\ scan' \in [Segments -> 1 .. NumScans] /\ start' \in [Segments -> Nat]
      /\ config' \in [Segments -> Nat]
  <2>1. /\ readscan \in 1 .. NumScans /\ Scans[readscan].config \in Nat
        /\ readtime \in Nat /\ scan \in [Segments -> 1 .. NumScans]
        /\ start \in [Segments -> Nat] /\ config \in [Segments -> Nat]
    BY ScanTypes DEF TypeInv, TypeOK
  <2> QED
    BY <1>1, <2>1
<1>4. last' \in Segments /\ rpc' \in ReaderSteps
  BY <1>2, FirstSegments DEF TypeInv, TypeOK, StageInv, ReaderSteps
<1>5. TypeOK'
  BY <1>2, <1>3, <1>4, ReaderTypes DEF segmentVars, fileVars, TypeInv, TypeOK
<1>6. StageInv'
  BY <1>2 DEF TypeInv, StageInv, mainVars
<1>7. FileInv'
  BY <1>2 DEF TypeInv, FileInv, Inputs, mainVars, fileVars
<1> QED
  BY <1>2, <1>5, <1>6, <1>7, WindowStays DEF TypeInv

LEMMA LesserIs ==
  ASSUME NEW a \in Nat, NEW b \in Nat
  PROVE  Min({a, b}) = IF a <= b THEN a ELSE b
<1>1. Min({a, b}) \in {a, b} /\ \A k \in {a, b} : Min({a, b}) <= k
  BY LeastIs
<1> QED
  BY <1>1

LEMMA LeastOfThree ==
  ASSUME NEW a \in Nat, NEW b \in Nat, NEW c \in Nat
  PROVE  /\ Min({a, b, c}) \in Nat
         /\ Min({a, b, c}) <= a /\ Min({a, b, c}) <= b /\ Min({a, b, c}) <= c
<1>1. Min({a, b, c}) \in {a, b, c} /\ \A k \in {a, b, c} : Min({a, b, c}) <= k
  BY LeastIs
<1> QED
  BY <1>1

(* How much is read into a segment, and what is then in it.                *)
Portion == Min({SegBlocks, Left})

LEMMA PortionIs ==
  ASSUME TypeInv
  PROVE  /\ Left \in Nat /\ Portion \in 0 .. SegBlocks
         /\ Portion = IF SegBlocks <= Left THEN SegBlocks ELSE Left
         /\ filepos + Portion \in Nat
         /\ filesread \in 1 .. Len(Inputs) /\ Inputs[filesread].opens
              => filepos + Portion <= Inputs[filesread].length
<1>1. Left \in Nat /\ SegBlocks \in Nat /\ filepos \in Nat
  BY LeftType, BlockFacts DEF TypeInv, TypeOK
<1>2. Portion = IF SegBlocks <= Left THEN SegBlocks ELSE Left
  BY <1>1, LesserIs DEF Portion
<1>3. ASSUME filesread \in 1 .. Len(Inputs), Inputs[filesread].opens
      PROVE  /\ Left = Inputs[filesread].length - filepos
             /\ Inputs[filesread].length \in Nat
  BY <1>3, InputTypes DEF Left
<1> QED
  BY <1>1, <1>2, <1>3

LEMMA ContentsType ==
  ASSUME TypeInv, NEW s \in Segments
  PROVE  Contents(s, Portion) \in Blocks
<1>1. data[s] \in Blocks /\ filepos \in Nat
  BY DEF TypeInv, TypeOK
<1>2. ASSUME NEW j \in 0 .. SegBlocks - 1
      PROVE  (IF j < Portion THEN Inputs[filesread].start + filepos + j ELSE data[s][j])
               \in Nat \cup {Junk}
  <2>1. CASE j < Portion
    <3>1. j \in Nat /\ Left > 0
      BY <1>2, <2>1, PortionIs, BlockFacts
    <3>2. filesread \in 1 .. Len(Inputs)
      BY <3>1, LeftType DEF TypeInv
    <3>3. Inputs[filesread].start \in Nat
      BY <3>2, InputTypes
    <3> QED
      BY <1>1, <2>1, <3>1, <3>3
  <2>2. CASE ~(j < Portion)
    BY <1>1, <2>2 DEF Blocks
  <2> QED
    BY <2>1, <2>2
<1> QED
  BY <1>2 DEF Contents, Blocks

LEMMA FilledTypes ==
  ASSUME TypeInv, NEW s \in Segments, NEW n \in 0 .. SegBlocks, NEW new \in Blocks,
         NEW ends, Filled(s, n, new, ends)
  PROVE  /\ valid' \in [Segments -> 0 .. SegBlocks]
         /\ data' \in [Segments -> Blocks]
         /\ readtime' = readtime + SegBlocks /\ readtime' \in Nat
         /\ readscan' \in 1 .. NumScans
         /\ keepreading' \in BOOLEAN /\ (keepreading' => keepreading)
         /\ UNCHANGED <<mainVars, numsent, lock, infoVars, started, filesread>>
<1>1. /\ valid \in [Segments -> 0 .. SegBlocks] /\ data \in [Segments -> Blocks]
      /\ readtime \in Nat /\ readscan \in 1 .. NumScans
      /\ SegBlocks \in Nat /\ SendBlocks \in Nat /\ NumScans \in Nat
  BY BlockFacts, ScanTypes DEF TypeInv, TypeOK
<1>2. Before(s) \in Segments /\ Before(s) # s
  BY Neighbours
<1> DEFINE v == valid[Before(s)]   old == data[Before(s)]
           back == Min({SegBlocks - v, SendBlocks, n})
           mixed == [j \in DOMAIN old |-> IF ShortBefore(s) /\ j < back
                                          THEN new[j + v] ELSE old[j]]
<1>3. v \in Nat /\ v <= SegBlocks /\ SegBlocks - v \in Nat /\ n \in Nat
  BY <1>1, <1>2
<1>4. old \in Blocks
  BY <1>1, <1>2
<1>5. back \in Nat /\ back <= SegBlocks - v
  <2>1. PICK a \in Nat : a = SegBlocks - v
    BY <1>3
  <2>2. Min({a, SendBlocks, n}) \in Nat /\ Min({a, SendBlocks, n}) <= a
    BY <1>1, <1>3, LeastOfThree
  <2> QED
    BY <2>1, <2>2
<1> HIDE DEF back
<1>6. mixed \in Blocks
  <2>1. ASSUME NEW j \in 0 .. SegBlocks - 1, j < back
        PROVE  new[j + v] \in Nat \cup {Junk}
    <3>1. j + v \in 0 .. SegBlocks - 1
      BY <1>1, <1>3, <1>5, <2>1
    <3> QED
      BY <3>1 DEF Blocks
  <2> QED
    BY <1>4, <2>1 DEF Blocks
<1>7. /\ valid' = [valid EXCEPT ![s] = n]
      /\ data' = [data EXCEPT ![s] = new, ![Before(s)] = mixed]
  BY DEF Filled, back
<1> HIDE DEF mixed, v, old
<1>8. valid' \in [Segments -> 0 .. SegBlocks] /\ data' \in [Segments -> Blocks]
  BY <1>1, <1>6, <1>7
<1>9. /\ readtime' = readtime + SegBlocks
      /\ readscan' = IF readtime' >= ScanEnd(readscan) /\ readscan < NumScans
                     THEN readscan + 1 ELSE readscan
      /\ UNCHANGED <<mainVars, numsent, lock, infoVars, started, filesread>>
  BY DEF Filled
<1>10. keepreading' \in BOOLEAN /\ (keepreading' => keepreading)
  BY DEF Filled
<1>11. readtime' \in Nat /\ readscan' \in 1 .. NumScans
  BY <1>1, <1>9
<1> QED
  BY <1>8, <1>9, <1>10, <1>11

LEMMA ReadingTypes ==
  ASSUME TypeInv, NEW s \in Segments, Reading(s)
  PROVE  /\ valid' \in [Segments -> 0 .. SegBlocks]
         /\ data' \in [Segments -> Blocks]
         /\ readto' \in [Segments -> BOOLEAN]
         /\ readtime' \in Nat /\ readscan' \in 1 .. NumScans
         /\ keepreading' \in BOOLEAN /\ (keepreading' => keepreading)
         /\ UNCHANGED <<mainVars, numsent, lock, infoVars, started, filesread>>
         /\ filepos' \in {filepos, filepos + Portion} /\ filepos' \in Nat
         /\ dataremaining' \in BOOLEAN /\ hungup' \in BOOLEAN
<1>1. \E n \in 0 .. SegBlocks, new \in Blocks :
        \E ends : Filled(s, n, new, ends)
  <2>1. /\ Portion \in 0 .. SegBlocks /\ SegBlocks \in 0 .. SegBlocks
        /\ 0 \in 0 .. SegBlocks
    BY PortionIs, BlockFacts
  <2>2. Contents(s, Portion) \in Blocks /\ data[s] \in Blocks
    BY ContentsType DEF TypeInv, TypeOK
  <2>3. [j \in DOMAIN data[s] |-> IF j < Portion THEN Junk ELSE data[s][j]] \in Blocks
    BY <2>2 DEF Blocks
  <2>4. CASE DiskToMemory(s)
    <3>1. Filled(s, Portion, Contents(s, Portion), FALSE)
      BY <2>4 DEF DiskToMemory, Portion
    <3> QED
      BY <3>1, <2>1, <2>2
  <2>5. CASE FakeToMemory(s)
    <3>1. Filled(s, SegBlocks, data[s], FALSE)
      BY <2>5 DEF FakeToMemory
    <3> QED
      BY <3>1, <2>1, <2>2
  <2>6. CASE ReadNetwork(s)
    <3>1. \E ends : Filled(s, Portion, Contents(s, Portion), ends)
      BY <2>6 DEF ReadNetwork, Portion
    <3> QED
      BY <3>1, <2>1, <2>2
  <2>7. CASE HangUp(s)
    <3>1. Filled(s, 0, [j \in DOMAIN data[s] |->
                          IF j < Portion THEN Junk ELSE data[s][j]], TRUE)
      BY <2>7 DEF HangUp, Portion
    <3> QED
      BY <3>1, <2>1, <2>3
  <2> QED
    BY <2>4, <2>5, <2>6, <2>7 DEF Reading
<1>2. /\ readto' = [readto EXCEPT ![s] = TRUE] \/ readto' = readto
      /\ filepos' \in {filepos, filepos + Portion}
  BY DEF Reading, DiskToMemory, FakeToMemory, ReadNetwork, HangUp, Portion
<1>3. readto' \in [Segments -> BOOLEAN]
  BY <1>2 DEF TypeInv, TypeOK
<1>4. filepos' \in Nat
  BY <1>2, PortionIs DEF TypeInv, TypeOK
<1>5. dataremaining' \in BOOLEAN /\ hungup' \in BOOLEAN
  <2>1. /\ dataremaining' = dataremaining \/ dataremaining' \in BOOLEAN
        /\ hungup' = hungup \/ hungup' = TRUE
    BY DEF Reading, DiskToMemory, FakeToMemory, ReadNetwork, HangUp
  <2> QED
    BY <2>1, Zenon DEF TypeInv, TypeOK
<1> QED
  BY <1>1, <1>2, <1>3, <1>4, <1>5, FilledTypes

LEMMA ReadTypes == ASSUME TypeInv, FillRead \/ ReadLast PROVE TypeInv'
<1>1. PICK s \in Segments : Reading(s)
  BY FirstSegments DEF FillRead, ReadLast, TypeInv, TypeOK, StageInv
<1>2. /\ UNCHANGED <<mainVars, numsent, lock, infoVars, started, filesread>>
      /\ valid' \in [Segments -> 0 .. SegBlocks]
      /\ data' \in [Segments -> Blocks]
      /\ readto' \in [Segments -> BOOLEAN]
      /\ readtime' \in Nat /\ readscan' \in 1 .. NumScans
      /\ keepreading' \in BOOLEAN /\ (keepreading' => keepreading)
      /\ filepos' \in {filepos, filepos + Portion} /\ filepos' \in Nat
      /\ dataremaining' \in BOOLEAN /\ hungup' \in BOOLEAN
  BY <1>1, ReadingTypes
<1>3. /\ isnewfile' = isnewfile
      /\ rpc \in {"fillread", "read"}
      /\ rpc' \in {"fill", "locklast", "outer", "unlocklate", "inner"}
      /\ numread' = numread \/ (numread' = numread + 1 /\ rpc = "fillread")
      /\ last' = last \/ (last' = numread /\ rpc = "fillread")
      /\ rpc' = "fill" => rpc = "fillread" /\ numread = 0 /\ numread' = 1
      /\ rpc' = "locklast" => rpc = "fillread" /\ numread = 1 /\ numread' = 2
  BY DEF FillRead, ReadLast, RGo
<1>4. rpc = "fillread" => numread \in {0, 1, 2}
  BY DEF TypeInv, StageInv
<1>5. TypeOK'
  <2>1. /\ last' \in Segments /\ numread' \in 0 .. 3 /\ rpc' \in ReaderSteps
    <3>1. last \in Segments /\ numread \in 0 .. 3
      BY DEF TypeInv, TypeOK
    <3>2. last' \in Segments
      BY <1>3, <1>4, <3>1, FirstSegments
    <3>3. numread' \in 0 .. 3
      BY <1>3, <1>4, <3>1
    <3> QED
      BY <1>3, <3>2, <3>3 DEF ReaderSteps
  <2>2. /\ lock' \in [Segments -> {Free, Main, Reader}]
        /\ scan' \in [Segments -> 1 .. NumScans] /\ start' \in [Segments -> Nat]
        /\ config' \in [Segments -> Nat]
        /\ filesread' \in 0 .. Len(Inputs) + 1
    BY <1>2 DEF infoVars, TypeInv, TypeOK
  <2>3. started' \in BOOLEAN /\ isnewfile' \in BOOLEAN
    BY <1>2, <1>3, Zenon DEF TypeInv, TypeOK
  <2> QED
    BY <1>2, <2>1, <2>2, <2>3, ReaderTypes
<1>6. StageInv'
  BY <1>2, <1>3 DEF TypeInv, StageInv, mainVars
<1>7. FileInv'
  <2>1. Inputs' = Inputs
    BY <1>2 DEF Inputs, mainVars
  <2>2. filesread \in 1 .. Len(Inputs) /\ Inputs[filesread].opens
          => filepos' <= Inputs[filesread].length
    BY <1>2, PortionIs DEF TypeInv, FileInv
  <2> QED
    BY <2>1, <2>2, <1>2, <1>3 DEF TypeInv, FileInv
<1> QED
  BY <1>2, <1>5, <1>6, <1>7, WindowStays DEF TypeInv

LEMMA TypeStep == TypeInv /\ [Next]_vars => TypeInv'
<1> SUFFICES ASSUME TypeInv, [Next]_vars PROVE TypeInv'
  OBVIOUS
<1>1. CASE UNCHANGED vars
  <2>1. Inputs' = Inputs
    BY <1>1 DEF vars, mainVars, Inputs
  <2>2. UNCHANGED <<source, asked, at, wait, sends, overflow, numsent, lock, mpc>>
    BY <1>1 DEF vars, mainVars
  <2>3. UNCHANGED <<scan, start, config, valid, readto, data, keepreading, started,
                    rpc, last, numread, readscan, readtime, filesread, filepos,
                    dataremaining, isnewfile, hungup>>
    BY <1>1 DEF vars, infoVars, segmentVars, readerVars, fileVars
  <2>4. TypeOK'
    BY <2>1, <2>2, <2>3 DEF TypeInv, TypeOK
  <2>5. StageInv' /\ FileInv'
    BY <2>1, <2>2, <2>3 DEF TypeInv, StageInv, FileInv
  <2>6. WindowInv'
    BY <2>2 DEF TypeInv, WindowInv, Ahead, Gap, Wrap
  <2> QED
    BY <2>4, <2>5, <2>6 DEF TypeInv
<1>2. CASE ReaderStep
  BY <1>2, OpenTypes, FakeTypes, PrepareTypes, ReadTypes, WalkTypes
  DEF ReaderStep, loopfileread, loopnetworkread, loopfakeread, Loop
<1> QED
  BY <1>1, <1>2, MainKeepsTypes DEF Next, Finished

LEMMA TypeInvariance == Spec => []TypeInv
BY TypeInit, TypeStep, PTL DEF Spec

(* Both threads' positions stay on the ring and within the scans and the   *)
(* files, no segment is ever given more sends than there are MPI requests  *)
(* for, and nothing is read past a segment's end (waitForSendComplete,     *)
(* calculateControlParams and diskToMemory of datastream.cpp).             *)
THEOREM TypeCorrect == Spec => []TypeOK
<1>1. TypeInv => TypeOK
  BY DEF TypeInv
<1> QED
  BY <1>1, TypeInvariance, PTL

LEMMA InputsStay == ASSUME UNCHANGED source PROVE Inputs' = Inputs
BY DEF Inputs

(***************************************************************************)
(* Remainders.                                                             *)
(***************************************************************************)
LEMMA Remainder ==
  ASSUME NEW k \in Int, NEW q \in Int, NEW v \in Int, 0 <= v, v < SegBlocks,
         k = q * SegBlocks + v
  PROVE  k % SegBlocks = v
<1>1. SegBlocks \in Int /\ SegBlocks >= 1
  BY BlockFacts
<1>2. PICK t \in Int : t = SegBlocks
  BY <1>1
<1> DEFINE r == k \div t
<1>3. /\ r \in Int /\ k % t \in Int
      /\ k = t * r + (k % t) /\ 0 <= k % t /\ k % t < t
  BY <1>1, <1>2
<1>4. PICK w \in Int : w = k % t
  BY <1>3
<1> HIDE DEF r
<1>5. ASSUME r < q PROVE FALSE
  <2>1. PICK e \in Nat : q = r + 1 + e
    BY <1>3, <1>5
  <2>2. q * t = t * r + t + e * t /\ e * t \in Nat /\ t * r \in Int
    BY <2>1, <1>1, <1>2, <1>3
  <2> QED
    BY <2>2, <1>2, <1>3
<1>6. ASSUME q < r PROVE FALSE
  <2>1. PICK e \in Nat : r = q + 1 + e
    BY <1>3, <1>6
  <2>2. t * r = q * t + t + e * t /\ e * t \in Nat /\ q * t \in Int
    BY <2>1, <1>1, <1>2, <1>3
  <2> QED
    BY <2>2, <1>2, <1>3
<1>7. r = q
  BY <1>3, <1>5, <1>6
<1>8. q * t \in Int /\ t * r = q * t
  BY <1>7, <1>2
<1> QED
  BY <1>2, <1>3, <1>8

LEMMA Multiple ==
  ASSUME NEW k \in Int
  PROVE  k % SegBlocks = 0 <=> \E q \in Int : k = q * SegBlocks
<1>1. SegBlocks \in Int /\ SegBlocks >= 1
  BY BlockFacts
<1>2. ASSUME NEW q \in Int, k = q * SegBlocks PROVE k % SegBlocks = 0
  <2>1. q * SegBlocks \in Int
    BY <1>1
  <2>2. k = q * SegBlocks + 0
    BY <1>2, <2>1
  <2> QED
    BY <1>1, <2>2, Remainder
<1>3. ASSUME k % SegBlocks = 0 PROVE \E q \in Int : k = q * SegBlocks
  <2>1. PICK t \in Int : t = SegBlocks
    BY <1>1
  <2> DEFINE r == k \div t
  <2>2. /\ r \in Int /\ k % t \in Int /\ k = t * r + (k % t)
    BY <1>1, <2>1
  <2> HIDE DEF r
  <2>3. k = r * t
    BY <2>1, <2>2, <1>3
  <2> QED
    BY <2>1, <2>2, <2>3
<1> QED
  BY <1>2, <1>3

(* A segment further on is as far from a whole number of segments.         *)
LEMMA NextMultiple ==
  ASSUME NEW k \in Int, k % SegBlocks = 0
  PROVE  (k + SegBlocks) % SegBlocks = 0
<1>1. SegBlocks \in Int
  BY BlockFacts
<1>2. PICK q \in Int : k = q * SegBlocks
  BY Multiple
<1>3. k + SegBlocks = (q + 1) * SegBlocks /\ k + SegBlocks \in Int
  BY <1>1, <1>2
<1> QED
  BY <1>3, Multiple

(***************************************************************************)
(* What is sent is what was recorded.  Three things have to be said of the *)
(* files (and of the frames) and the scans, for the code gives something   *)
(* else away when they are not so.                                         *)
(***************************************************************************)
(* No file ends within less than a send of a segment's start just where    *)
(* another file begins: what diskToMemory copies back goes to the start of *)
(* the segment before, over data that is there.                            *)
NoShortEnd ==
  \A from \in {Files, Frames} : \A f, g \in 1 .. Len(from) :
    /\ from[f].opens /\ from[g].opens
    /\ from[f].length % SegBlocks \in 1 .. SendBlocks - 1
    => from[g].start # from[f].start + from[f].length

(* Main tells whether a segment follows on another by their times within   *)
(* their scans.  The next one must not follow in another scan.             *)
NextOfScan ==
  mpc = "post" /\ valid[at] = SegBlocks /\ valid[NextSeg] > 0 /\ Contiguous
    => scan[NextSeg] = scan[at]

(* That is so if two files, or one, do not begin a whole number of         *)
(* segments apart counted from the starts of different scans.              *)
ScansApart ==
  \A from \in {Files, Frames} : \A f, g \in 1 .. Len(from) :
    \A k, l \in 1 .. NumScans :
      /\ from[f].opens /\ from[g].opens
      /\ ((from[f].start - Scans[k].start) - (from[g].start - Scans[l].start))
           % SegBlocks = 0
      => k = l

(* The inductive invariant.  Until main or the reader leaves its loop the  *)
(* segment read last is known:                                             *)
MainOver == mpc \in {"unlockat", "unlockahead", "join", "done"}
Filling == rpc \in {"fill", "fillread", "locklast", "start"}
Moving == rpc \in {"lock", "unlockprev", "prepare", "read"}
Settled == rpc \in {"unlocklate", "inner", "nextfile"} \/ (rpc = "outer" /\ keepreading)
Newest == IF Filling THEN Before(numread) ELSE IF Moving THEN Before(last) ELSE last

(* Sends outstanding are counted, there are none before main starts and    *)
(* after it has drained them, and none from the segment read last.         *)
CountInv == \A s \in Segments : numsent[s] = 0 => AllSent(s)
QuietInv == mpc = "init" \/ MainOver => sends = {}
GoneInv == (Filling /\ numread = 2) \/ Moving \/ Settled => AllSent(Newest)

(* What is valid in a segment is what was recorded from its start on, and  *)
(* it is some whole number of segments into a file.                        *)
BeingRead(s) == \/ rpc = "read" /\ s = last
                \/ rpc = "fillread" /\ s = numread
RecordedInv ==
  \A s \in Segments : ~BeingRead(s) =>
    \A j \in 0 .. valid[s] - 1 : data[s][j] = start[s] + j
AlignedInv ==
  \A s \in Segments : ~BeingRead(s) /\ valid[s] > 0 =>
    \E f \in 1 .. Len(Inputs) :
      Inputs[f].opens /\ (start[s] - Inputs[f].start) % SegBlocks = 0

(* The next block read is the one recorded at readtime.                    *)
NextTimeInv ==
  /\ source = "file" => ~hungup
  /\ rpc = "read" => start[last] = readtime
  /\ rpc = "fillread" => start[numread] = readtime
  /\ Left > 0 /\ ~hungup =>
       /\ readtime = Inputs[filesread].start + filepos
       /\ filepos % SegBlocks = 0
       /\ filepos > 0 => start[Newest] + SegBlocks = readtime

(* The segment read last is full or empty or ends where its file does.     *)
EndInv ==
  /\ numread = 0 => \A s \in Segments : ~readto[s]
  /\ Moving \/ Settled => numread > 0
  /\ (Filling /\ numread > 0) \/ Moving \/ Settled =>
       valid[Newest] \in {0, SegBlocks} \/ \E f \in 1 .. Len(Inputs) :
         /\ Inputs[f].opens
         /\ start[Newest] + valid[Newest] = Inputs[f].start + Inputs[f].length
         /\ Inputs[f].length % SegBlocks = valid[Newest]

(* Each flagged block of a send is in a part of the ring that is valid, at *)
(* its place.                                                              *)
Holds(m, i) ==
  LET p == m.pos + i   next == Wrap(m.seg + 1)   t == SubintTime(m.subint) + i
  IN /\ p >= 0
     /\ p < SegBlocks => p < valid[m.seg] /\ data[m.seg][p] = t
     /\ p >= SegBlocks =>
          /\ p - SegBlocks < valid[next] /\ data[next][p - SegBlocks] = t
          /\ m.seg = NumSegments - 1 => overflow[p - SegBlocks] = t
HeldInv == \A m \in sends : \A i \in m.flags : Holds(m, i)

SentInv == CountInv /\ QuietInv
StoreInv == RecordedInv /\ AlignedInv /\ HeldInv
WayInv == GoneInv /\ NextTimeInv /\ EndInv
DataInv == source # "fake" => SentInv /\ (MainOver \/ StoreInv) /\ (Over \/ WayInv)

LEMMA DataInit == Init => DataInv
<1> SUFFICES ASSUME Init, source # "fake"
             PROVE  SentInv /\ StoreInv /\ WayInv
  BY DEF DataInv
<1>1. SentInv
  BY DEF Init, SentInv, CountInv, QuietInv, AllSent
<1>2. StoreInv
  BY DEF Init, StoreInv, RecordedInv, AlignedInv, HeldInv
<1>3. Left = 0
  BY DEF Init, Left
<1>4. WayInv
  BY <1>3 DEF Init, WayInv, GoneInv, NextTimeInv, EndInv, Filling, Moving, Settled
<1> QED
  BY <1>1, <1>2, <1>4

(***************************************************************************)
(* What has been sent from where.                                          *)
(***************************************************************************)
LEMMA ReaderKeepsMain ==
  ASSUME ReaderStep PROVE UNCHANGED <<mainVars, numsent>>
<1>1. ASSUME NEW s, Reading(s) PROVE UNCHANGED <<mainVars, numsent>>
  BY <1>1 DEF Reading, DiskToMemory, FakeToMemory, ReadNetwork, HangUp, Filled
<1>2. ASSUME Loop PROVE UNCHANGED <<mainVars, numsent>>
  BY <1>1, <1>2 DEF Loop, Fill, FillRead, Prepare, LockLast, Start, Outer, Inner,
    Lock, UnlockPrev, PrepareLast, ReadLast, UnlockLate, Exit
<1> QED
  BY <1>2 DEF ReaderStep, loopfileread, loopnetworkread, loopfakeread, OpenFirst,
    OpenStream, FirstFrame, InitialiseFake, NextFile, NextFrame

(* Steps that post nothing.                                                *)
LEMMA QuietSteps ==
  ASSUME SentInv, [Next]_vars, ~(Post \/ PostInvalid)
  PROVE  /\ sends' \subseteq sends /\ overflow' = overflow
         /\ \/ numsent' = numsent
            \/ \E z : /\ z = wait \/ z = at \/ (z = Min(Unsent) /\ Unsent # {})
                      /\ AllSent(z) /\ numsent' = [numsent EXCEPT ![z] = 0]
         /\ mpc' = "init" => mpc = "init"
         /\ MainOver' => MainOver \/ Drained
<1>1. CASE ReaderStep \/ Finished \/ UNCHANGED vars
  BY <1>1, ReaderKeepsMain DEF Finished, vars, mainVars, MainOver
<1>2. CASE SeeStarted \/ ReceiveRequest \/ Found \/ ReceiveTerminate \/ LockAhead
             \/ UnlockBehind \/ Drained \/ UnlockAt \/ UnlockAhead \/ Join
             \/ \E m \in sends : Taken(m)
  BY <1>2 DEF SeeStarted, ReceiveRequest, Found, ReceiveTerminate, LockAhead,
    UnlockBehind, Drained, UnlockAt, UnlockAhead, Join, Taken, MGo, MainOver
<1>3. CASE Check \/ Seek
  <2>1. /\ WaitForSendComplete \/ numsent' = numsent
        /\ UNCHANGED <<sends, overflow>> /\ mpc # "init"
        /\ mpc' \in {"invalid", "seek", "lockahead"}
    BY <1>3 DEF Check, Seek, MGo
  <2> QED
    BY <2>1 DEF WaitForSendComplete, MainOver
<1>4. CASE WaitMax \/ Drain
  BY <1>4 DEF WaitMax, Drain, MGo, MainOver, mainVars
<1> QED
  BY <1>1, <1>2, <1>3, <1>4 DEF Next, MainStep

LEMMA SentStep ==
  ASSUME TypeInv, SentInv, [Next]_vars
  PROVE  SentInv'
<1>1. /\ numsent \in [Segments -> 0 .. MaxSends] /\ MaxSends \in Nat
      /\ sends \subseteq Sends /\ at \in Segments /\ wait \in Segments
  BY BlockFacts DEF TypeInv, TypeOK
<1>2. CASE Post \/ PostInvalid
  <2>1. /\ numsent' = [numsent EXCEPT ![at] = @ + 1]
        /\ mpc' \in {"waitmax", "request"}
        /\ \A m \in sends' : m \in sends \/ m.seg = at
    BY <1>2 DEF Post, PostInvalid, Send
  <2>2. \A s \in Segments : numsent'[s] = IF s = at THEN numsent[at] + 1 ELSE numsent[s]
    BY <2>1, <1>1
  <2>3. CountInv'
    <3>1. ASSUME NEW s \in Segments, numsent'[s] = 0, NEW m \in sends' PROVE m.seg # s
      <4>1. s # at
        BY <2>2, <3>1, <1>1
      <4> QED
        BY <4>1, <2>1, <2>2, <3>1 DEF SentInv, CountInv, AllSent
    <3> QED
      BY <3>1 DEF CountInv, AllSent
  <2> QED
    BY <2>1, <2>3 DEF SentInv, QuietInv, MainOver
<1>3. CASE ~(Post \/ PostInvalid)
  <2>1. /\ sends' \subseteq sends
        /\ \/ numsent' = numsent
           \/ \E z : /\ z = wait \/ z = at \/ (z = Min(Unsent) /\ Unsent # {})
                     /\ AllSent(z) /\ numsent' = [numsent EXCEPT ![z] = 0]
        /\ mpc' = "init" => mpc = "init"
        /\ MainOver' => MainOver \/ Drained
    BY <1>3, QuietSteps
  <2>2. CountInv'
    <3>1. CASE numsent' = numsent
      BY <2>1, <3>1 DEF SentInv, CountInv, AllSent
    <3>2. CASE \E z : /\ z = wait \/ z = at \/ (z = Min(Unsent) /\ Unsent # {})
                      /\ AllSent(z) /\ numsent' = [numsent EXCEPT ![z] = 0]
      <4>1. PICK z : /\ z = wait \/ z = at \/ (z = Min(Unsent) /\ Unsent # {})
                     /\ AllSent(z) /\ numsent' = [numsent EXCEPT ![z] = 0]
        BY <3>2
      <4>2. \A s \in Segments : s # z => numsent'[s] = numsent[s]
        BY <4>1, <1>1
      <4> QED
        BY <2>1, <4>1, <4>2 DEF SentInv, CountInv, AllSent
    <3> QED
      BY <2>1, <3>1, <3>2
  <2>3. QuietInv'
    <3>1. CASE mpc = "init" \/ MainOver
      BY <2>1, <3>1 DEF SentInv, QuietInv
    <3>2. CASE Drained
      <4>1. \A s \in Segments : numsent[s] = 0
        BY <3>2, <1>1 DEF Drained, Unsent
      <4>2. \A m \in sends : m.seg \in Segments
        BY <1>1 DEF Sends
      <4>3. sends = {}
        BY <4>1, <4>2 DEF SentInv, CountInv, AllSent
      <4> QED
        BY <2>1, <4>3 DEF QuietInv
    <3> QED
      BY <2>1, <3>1, <3>2 DEF QuietInv
  <2> QED
    BY <2>2, <2>3 DEF SentInv
<1> QED
  BY <1>2, <1>3

(***************************************************************************)
(* The steps of main.                                                      *)
(***************************************************************************)
(* A send is not posted from the segment read last, whose mutex, or the    *)
(* next one's, the reader has.                                             *)
LEMMA NotFromNewest ==
  ASSUME InnerInv, mpc \in {"post", "invalid"},
         (Filling /\ numread = 2) \/ Moving \/ Settled
  PROVE  at # Newest
<1>1. /\ at \in Segments /\ lock[at] = Main /\ lock[Wrap(at + 1)] = Main
      /\ last \in Segments
  BY DEF InnerInv, MainInv, ReaderInv
<1>2. ~Early
  BY DEF InnerInv, StartInv
<1>3. CASE Settled
  <2>1. lock[last] = Reader /\ Newest = last
    BY <1>3 DEF InnerInv, ReaderInv, Settled, Newest, Filling, Moving
  <2> QED
    BY <2>1, <1>1 DEF Main, Reader
<1>4. CASE Moving
  <2>1. Newest = Before(last)
    BY <1>4 DEF Moving, Newest, Filling
  <2>2. lock[Before(last)] = Reader \/ lock[last] = Reader
    BY <1>4 DEF Moving, InnerInv, ReaderInv
  <2>3. at = Before(last) => Wrap(at + 1) = last
    <3>1. last \in Int /\ 0 <= last /\ last < NumSegments /\ NumSegments >= 5
      BY <1>1, SegmentNumber
    <3>2. PICK b \in Segments : b = Before(last)
      BY <1>1, Neighbours
    <3>3. Before(last) = IF last = 0 THEN NumSegments - 1 ELSE last - 1
      <4>1. PICK c \in Int : c = last - 1 + NumSegments
        BY <3>1, SegmentsAssumption
      <4>2. 0 <= c /\ c < 2 * NumSegments
        BY <3>1, <4>1, SegmentsAssumption
      <4>3. /\ c < NumSegments => Wrap(c) = c
            /\ NumSegments <= c => Wrap(c) = c - NumSegments
        BY <4>2, WrapOnce
      <4> QED
        BY <3>1, <4>1, <4>3, SegmentsAssumption DEF Before
    <3>4. Wrap(b + 1) = IF b = NumSegments - 1 THEN 0 ELSE b + 1
      BY WrapNext
    <3> QED
      BY <3>1, <3>2, <3>3, <3>4, SegmentsAssumption
  <2> QED
    BY <2>1, <2>2, <2>3, <1>1 DEF Main, Reader
<1>5. CASE Filling /\ numread = 2
  <2>1. lock[2] = Reader
    BY <1>2, <1>5 DEF InnerInv, ReaderInv, ThirdHeld, Filling, Early
  <2>2. Newest = 1 /\ Wrap(1 + 1) = 2
    <3>1. /\ 1 \in Segments /\ NumSegments \in Int /\ NumSegments >= 5
      BY FirstSegments, SegmentsAssumption
    <3>2. Wrap(1 + 1) = 2
      BY <3>1, WrapNext
    <3>3. Before(Wrap(1 + 1)) = 1
      BY <3>1, Neighbours
    <3> QED
      BY <3>2, <3>3, <1>5 DEF Newest
  <2> QED
    BY <2>1, <2>2, <1>1 DEF Main, Reader
<1> QED
  BY <1>3, <1>4, <1>5

(* What main and the Cores do leaves what the reader knows.                *)
LEMMA MainLeavesWay ==
  ASSUME InnerInv, WayInv, UNCHANGED <<source, infoVars, segmentVars, readerVars>>,
         keepreading' = keepreading \/ ~keepreading',
         \A m \in sends' : m \in sends \/ (m.seg = at /\ mpc \in {"post", "invalid"})
  PROVE  WayInv'
<1>1. /\ UNCHANGED <<start, valid, readto, rpc, last, numread, readtime, filesread,
                     filepos, hungup>>
      /\ Inputs' = Inputs
  BY DEF infoVars, segmentVars, readerVars, fileVars, Inputs
<1>2. /\ Filling' = Filling /\ Moving' = Moving /\ (Settled' => Settled)
      /\ Newest' = Newest /\ Left' = Left
  BY <1>1 DEF Filling, Moving, Settled, Newest, Left, Before, Wrap
<1>3. GoneInv'
  <2> SUFFICES ASSUME ((Filling /\ numread = 2) \/ Moving \/ Settled)'
               PROVE  AllSent(Newest)'
    BY DEF GoneInv
  <2>1. (Filling /\ numread = 2) \/ Moving \/ Settled
    BY <1>1, <1>2
  <2>2. AllSent(Newest)
    BY <2>1 DEF WayInv, GoneInv
  <2>3. mpc \in {"post", "invalid"} => at # Newest
    BY <2>1, NotFromNewest
  <2> QED
    BY <1>2, <2>2, <2>3 DEF AllSent
<1>4. NextTimeInv'
  BY <1>1, <1>2 DEF WayInv, NextTimeInv
<1>5. EndInv'
  BY <1>1, <1>2 DEF WayInv, EndInv
<1> QED
  BY <1>3, <1>4, <1>5 DEF WayInv

LEMMA MainLeavesStore ==
  ASSUME StoreInv, UNCHANGED <<source, infoVars, segmentVars, readerVars, overflow>>,
         sends' \subseteq sends
  PROVE  StoreInv'
<1>1. /\ UNCHANGED <<start, valid, data, rpc, last, numread>>
      /\ Inputs' = Inputs /\ \A s : BeingRead(s)' = BeingRead(s)
  BY DEF infoVars, segmentVars, readerVars, fileVars, Inputs, BeingRead
<1>2. RecordedInv'
  BY <1>1 DEF StoreInv, RecordedInv
<1>3. AlignedInv'
  BY <1>1 DEF StoreInv, AlignedInv
<1>4. \A m, i : Holds(m, i)' = Holds(m, i)
  BY <1>1 DEF Holds, Wrap
<1>5. HeldInv'
  BY <1>4 DEF StoreInv, HeldInv
<1> QED
  BY <1>2, <1>3, <1>5 DEF StoreInv

(* A block that main flags is in the segment, or in the next one, and was  *)
(* recorded at its time.                                                   *)
FlaggedRight(i) ==
  LET p == Offset + i   t == SubintTime(asked) + i
  IN /\ p >= 0
     /\ p < SegBlocks => p < valid[at] /\ data[at][p] = t
     /\ p >= SegBlocks => /\ p - SegBlocks < valid[NextSeg]
                          /\ data[NextSeg][p - SegBlocks] = t
     /\ p < Position + SendBlocks

LEMMA FlagsRight ==
  ASSUME TypeInv, RecordedInv, NextOfScan, mpc = "post",
         ~BeingRead(at), ~BeingRead(NextSeg), NEW i \in Flags
  PROVE  FlaggedRight(i)
<1>1. /\ at \in Segments /\ NextSeg \in Segments
      /\ start \in [Segments -> Nat] /\ valid \in [Segments -> 0 .. SegBlocks]
      /\ scan \in [Segments -> 1 .. NumScans] /\ asked \in 0 .. NumSubints
      /\ asked < NumSubints
  BY Neighbours DEF TypeInv, TypeOK, StageInv, NextSeg
<1>2. SegBlocks \in Nat /\ SendBlocks \in Nat /\ NumSubints \in Nat
  BY BlockFacts, SubintFacts
<1>3. asked \in 0 .. NumSubints - 1
  BY <1>1, <1>2
<1>4. PICK a \in Nat, b \in Nat, v \in Nat, w \in Nat, T \in Nat :
        /\ a = start[at] /\ b = start[NextSeg]
        /\ v = valid[at] /\ w = valid[NextSeg]
        /\ T = SubintTime(asked)
        /\ v <= SegBlocks /\ w <= SegBlocks
  BY <1>1, <1>2, <1>3, SubintFacts
<1>5. PICK off \in Int, skip \in Nat, pos \in Int :
        /\ off = Offset /\ off = T - a
        /\ skip = Skipped /\ skip = (IF off < 0 THEN -off ELSE 0)
        /\ pos = Position /\ pos = off + skip
  BY <1>4 DEF Offset, Time, Skipped, Position
<1>6. /\ i \in Int /\ skip <= i /\ i < SendBlocks
      /\ \/ AllOk
         \/ pos + i < v
         \/ v = SegBlocks /\ Contiguous /\ v - pos + w > i
  BY <1>2, <1>4, <1>5 DEF Flags
<1>7. AllOk => \/ v - pos >= SendBlocks
               \/ v = SegBlocks /\ Contiguous /\ v - pos + w > SendBlocks
  BY <1>4, <1>5 DEF AllOk
<1>8. PICK p \in Int : p = off + i
  BY <1>6
<1>9. p >= 0 /\ p <= pos + i /\ p < pos + SendBlocks /\ T + i = a + p
  BY <1>2, <1>4, <1>5, <1>6, <1>8
<1>10. CASE p < SegBlocks
  <2>1. p < v
    BY <1>2, <1>4, <1>6, <1>7, <1>9, <1>10
  <2>2. data[at][p] = a + p
    <3>1. p \in 0 .. valid[at] - 1
      BY <2>1, <1>4, <1>9
    <3> QED
      BY <3>1, <1>1, <1>4 DEF RecordedInv
  <2>3. data[at][p] = T + i
    BY <2>2, <1>9
  <2> QED
    BY <2>1, <2>3, <1>2, <1>4, <1>5, <1>8, <1>9, <1>10 DEF FlaggedRight
<1>11. CASE p >= SegBlocks
  <2>1. v = SegBlocks /\ Contiguous /\ p - SegBlocks < w
    BY <1>2, <1>4, <1>6, <1>7, <1>9, <1>11
  <2>2. w > 0
    BY <2>1, <1>2, <1>4, <1>11
  <2>3. scan[NextSeg] = scan[at]
    BY <2>1, <2>2, <1>4 DEF NextOfScan
  <2>4. PICK z \in Nat : z = Scans[scan[at]].start
    BY <1>1, ScanTypes
  <2>5. (b - z) - (a - z) = SegBlocks
    BY <2>1, <2>3, <2>4, <1>4 DEF Contiguous, InScan
  <2>6. b = a + SegBlocks
    BY <2>5, <1>2
  <2>7. data[NextSeg][p - SegBlocks] = b + (p - SegBlocks)
    <3>1. p - SegBlocks \in 0 .. valid[NextSeg] - 1
      BY <2>1, <1>2, <1>4, <1>11
    <3> QED
      BY <3>1, <1>1, <1>4 DEF RecordedInv
  <2>8. b + (p - SegBlocks) = T + i
    BY <2>6, <1>2, <1>9
  <2> QED
    BY <2>1, <2>7, <2>8, <1>2, <1>4, <1>5, <1>8, <1>9, <1>11 DEF FlaggedRight
<1> QED
  BY <1>2, <1>10, <1>11

(* The reader reads neither of the two segments main looks at.             *)
LEMMA NotBeingRead ==
  ASSUME DInv, TypeInv, ~MainOver, mpc # "init"
  PROVE  ~BeingRead(at) /\ ~BeingRead(NextSeg)
<1>1. CASE Over
  BY <1>1 DEF Over, MainOver, BeingRead
<1>2. CASE InnerInv
  <2>1. lock[at] = Main /\ lock[NextSeg] = Main
    BY <1>2 DEF InnerInv, MainInv, NextSeg
  <2>2. rpc = "read" => lock[last] = Reader
    BY <1>2 DEF InnerInv, ReaderInv
  <2>3. rpc = "fillread" => lock[numread] = Reader
    BY <1>2 DEF InnerInv, StartInv, ReaderInv, Early, ThirdHeld
  <2> QED
    BY <2>1, <2>2, <2>3 DEF BeingRead, Main, Reader
<1> QED
  BY <1>1, <1>2 DEF DInv

LEMMA PostStore ==
  ASSUME TypeInv, DInv, StoreInv, NextOfScan, Post \/ PostInvalid
  PROVE  StoreInv'
<1>1. /\ UNCHANGED <<source, infoVars, segmentVars, readerVars, at>>
      /\ mpc \in {"post", "invalid"}
      /\ at \in Segments
  BY DEF Post, PostInvalid, Send, TypeInv, TypeOK
<1>2. /\ UNCHANGED <<start, valid, data, rpc, last, numread>>
      /\ Inputs' = Inputs /\ \A s : BeingRead(s)' = BeingRead(s)
  BY <1>1 DEF infoVars, segmentVars, readerVars, fileVars, Inputs, BeingRead
<1>3. RecordedInv'
  BY <1>2 DEF StoreInv, RecordedInv
<1>4. AlignedInv'
  BY <1>2 DEF StoreInv, AlignedInv
<1>5. HeldInv'
  <2>1. CASE PostInvalid
    <3>1. /\ overflow' = overflow
          /\ \A m \in sends' : m \in sends \/ m.flags = {}
      BY <2>1 DEF PostInvalid, Send
    <3>2. \A m, i : Holds(m, i)' = Holds(m, i)
      BY <3>1, <1>2 DEF Holds, Wrap
    <3> QED
      BY <3>1, <3>2 DEF StoreInv, HeldInv
  <2>2. CASE Post
    <3>1. /\ ~BeingRead(at) /\ ~BeingRead(NextSeg) /\ mpc = "post"
      BY <2>2, <1>1, NotBeingRead DEF Post, MainOver
    <3>2. /\ overflow \in Blocks /\ data \in [Segments -> Blocks]
          /\ valid \in [Segments -> 0 .. SegBlocks] /\ SegBlocks \in Nat
          /\ sends \subseteq Sends
      BY BlockFacts DEF TypeInv, TypeOK
    <3>3. overflow' = IF at = NumSegments - 1 /\ Position + SendBlocks > SegBlocks
                      THEN [j \in DOMAIN overflow |->
                              IF j < Position + SendBlocks - SegBlocks
                              THEN data[0][j] ELSE overflow[j]]
                      ELSE overflow
      BY <2>2 DEF Post
    <3>4. DOMAIN overflow = 0 .. SegBlocks - 1
      BY <3>2 DEF Blocks
    <3>5. ASSUME NEW m \in sends', NEW i \in m.flags PROVE Holds(m, i)'
      <4>1. CASE m \in sends
        <5>1. Holds(m, i)
          BY <4>1, <3>5 DEF StoreInv, HeldInv
        <5>2. /\ m.seg \in Segments /\ m.pos \in Int /\ i \in Int
          <6>1. m \in Sends
            BY <4>1, <3>2
          <6>2. m.flags \subseteq 0 .. SendBlocks - 1
            BY <6>1 DEF Sends
          <6> QED
            BY <6>1, <6>2, <3>5, BlockFacts DEF Sends
        <5>3. PICK p \in Int : p = m.pos + i
          BY <5>2
        <5>4. CASE m.seg = NumSegments - 1 /\ p >= SegBlocks
          <6>1. Wrap(m.seg + 1) = 0 /\ 0 \in Segments
            BY <5>4, <5>2, WrapNext, FirstSegments
          <6>2. PICK q \in Int : q = p - SegBlocks
            BY <3>2
          <6>3. /\ q < valid[0] /\ data[0][q] = SubintTime(m.subint) + i
                /\ overflow[q] = SubintTime(m.subint) + i
            BY <5>1, <5>3, <5>4, <6>1, <6>2 DEF Holds
          <6>4. q \in 0 .. SegBlocks - 1
            BY <6>1, <6>2, <6>3, <5>4, <3>2
          <6>5. overflow'[q] = SubintTime(m.subint) + i
            BY <6>3, <6>4, <3>3, <3>4
          <6> QED
            BY <5>1, <5>3, <5>4, <6>2, <6>5, <1>2 DEF Holds, Wrap
        <5>5. CASE ~(m.seg = NumSegments - 1 /\ p >= SegBlocks)
          BY <5>1, <5>3, <5>5, <1>2 DEF Holds, Wrap
        <5> QED
          BY <5>4, <5>5
      <4>2. CASE m \notin sends
        <5>1. /\ m.subint = asked /\ m.seg = at /\ m.pos = Offset /\ m.flags = Flags
          BY <2>2, <4>2, <3>5 DEF Post, Send
        <5>2. FlaggedRight(i)
          BY <5>1, <3>1, <3>5, FlagsRight DEF StoreInv
        <5>3. Offset \in Int /\ Position \in Int /\ i \in Int /\ SendBlocks \in Nat
          <6>1. asked \in 0 .. NumSubints - 1
            BY <3>1, SubintFacts DEF TypeInv, TypeOK, StageInv
          <6>2. Time \in Nat /\ start[at] \in Nat
            BY <6>1, <1>1, SubintFacts DEF Time, TypeInv, TypeOK
          <6>3. Offset \in Int
            BY <6>2 DEF Offset
          <6>4. Skipped \in Int /\ Position \in Int
            BY <6>3 DEF Skipped, Position
          <6> QED
            BY <6>3, <6>4, <5>1, <3>5, BlockFacts DEF Flags
        <5>4. PICK p \in Int : p = Offset + i
          BY <5>3
        <5>5. CASE at = NumSegments - 1 /\ p >= SegBlocks
          <6>1. NextSeg = 0 /\ 0 \in Segments
            BY <5>5, <1>1, WrapNext, FirstSegments DEF NextSeg
          <6>2. PICK q \in Int : q = p - SegBlocks
            BY <3>2
          <6>3. /\ q < valid[0] /\ data[0][q] = SubintTime(asked) + i
                /\ p < Position + SendBlocks
            BY <5>2, <5>4, <5>5, <6>1, <6>2 DEF FlaggedRight
          <6>4. /\ q \in 0 .. SegBlocks - 1 /\ q < Position + SendBlocks - SegBlocks
                /\ Position + SendBlocks > SegBlocks
            BY <6>1, <6>2, <6>3, <5>3, <5>5, <3>2
          <6>5. overflow'[q] = SubintTime(asked) + i
            BY <6>3, <6>4, <5>5, <3>3, <3>4
          <6> QED
            BY <5>1, <5>2, <5>4, <5>5, <6>2, <6>5, <1>2 DEF Holds, Wrap, FlaggedRight, NextSeg
        <5>6. CASE ~(at = NumSegments - 1 /\ p >= SegBlocks)
          BY <5>1, <5>2, <5>4, <5>6, <1>2 DEF Holds, Wrap, FlaggedRight, NextSeg
        <5> QED
          BY <5>5, <5>6
      <4> QED
        BY <4>1, <4>2
    <3> QED
      BY <3>5 DEF HeldInv
  <2> QED
    BY <2>1, <2>2
<1> QED
  BY <1>3, <1>4, <1>5 DEF StoreInv

(***************************************************************************)
(* The steps of the reader.                                                *)
(***************************************************************************)
(* Steps that read nothing and leave the newest segment the newest.        *)
LEMMA StoreMoves ==
  ASSUME StoreInv, UNCHANGED <<source, sends, overflow, start, valid, data>>,
         rpc \notin {"read", "fillread"}
  PROVE  StoreInv'
<1>1. Inputs' = Inputs /\ \A s : ~BeingRead(s)
  BY DEF Inputs, BeingRead
<1>2. RecordedInv'
  BY <1>1 DEF StoreInv, RecordedInv
<1>3. AlignedInv'
  BY <1>1 DEF StoreInv, AlignedInv
<1>4. \A m, i : Holds(m, i)' = Holds(m, i)
  BY <1>1 DEF Holds, Wrap
<1>5. HeldInv'
  BY <1>4 DEF StoreInv, HeldInv
<1> QED
  BY <1>2, <1>3, <1>5 DEF StoreInv

LEMMA WayMoves ==
  ASSUME WayInv,
         UNCHANGED <<source, sends, start, valid, readto, numread, readtime,
                     filesread, filepos, hungup>>,
         Newest' = Newest, rpc' \notin {"read", "fillread"},
         Filling' => Filling, Moving' \/ Settled' => Moving \/ Settled
  PROVE  WayInv'
<1>1. Inputs' = Inputs /\ Left' = Left
  BY DEF Inputs, Left
<1>2. GoneInv'
  BY DEF WayInv, GoneInv, AllSent
<1>3. NextTimeInv'
  BY <1>1 DEF WayInv, NextTimeInv
<1>4. EndInv'
  BY <1>1 DEF WayInv, EndInv
<1> QED
  BY <1>2, <1>3, <1>4 DEF WayInv

(* A file or a frame that has been opened is read from its start.          *)
LEMMA OpenedTime ==
  ASSUME TypeInv, UNCHANGED source,
         (source = "file" /\ OpenFile) \/ (source = "network" /\ OpenFrame)
  PROVE  /\ hungup' = hungup
         /\ Left' > 0 => readtime' = Inputs'[filesread'].start /\ filepos' = 0
<1>1. /\ Inputs' = Inputs
      /\ source = "file" => Inputs = Files
      /\ source = "network" => Inputs = Frames
      /\ filesread \in Nat /\ Len(Inputs) \in Nat
  <2>1. Inputs' = Inputs
    BY DEF Inputs
  <2>2. source = "network" => Inputs = Frames
    BY DEF Inputs
  <2>3. source = "file" => Inputs = Files
    BY DEF Inputs
  <2>4. filesread \in Nat
    BY DEF TypeInv, TypeOK
  <2> QED
    BY <2>1, <2>2, <2>3, <2>4, InputTypes
<1>2. /\ hungup' = hungup /\ filesread' = filesread + 1
      /\ (filesread < Len(Inputs) /\ Inputs[filesread + 1].opens)
           => readtime' = Inputs[filesread + 1].start /\ filepos' = 0
  BY <1>1 DEF OpenFile, OpenFrame, Opened
<1>3. ASSUME Left' > 0
      PROVE  filesread < Len(Inputs) /\ Inputs[filesread + 1].opens
  <2>1. (filesread \in 1 .. Len(Inputs) /\ Inputs[filesread].opens)'
    BY <1>3 DEF Left
  <2>2. filesread + 1 \in 1 .. Len(Inputs) /\ Inputs[filesread + 1].opens
    BY <2>1, <1>1, <1>2
  <2> QED
    BY <2>2, <1>1
<1> QED
  BY <1>1, <1>2, <1>3

LEMMA OpenFirstWay ==
  ASSUME TypeInv, InnerInv, WayInv, source # "fake",
         (source = "file" /\ OpenFirst) \/ (source = "network" /\ FirstFrame)
  PROVE  WayInv'
<1>1. /\ UNCHANGED <<source, sends, infoVars, segmentVars, last, numread>>
      /\ numread = 0
      /\ rpc' \in {"fill", "openfirst", "start"}
      /\ (source = "file" /\ OpenFile) \/ (source = "network" /\ OpenFrame)
  BY DEF OpenFirst, FirstFrame, RGo, mainVars, InnerInv, StartInv
<1>2. /\ hungup' = hungup
      /\ Left' > 0 => readtime' = Inputs'[filesread'].start /\ filepos' = 0
  BY <1>1, OpenedTime
<1>3. GoneInv'
  BY <1>1 DEF GoneInv, Filling, Moving, Settled
<1>4. NextTimeInv'
  <2>1. 0 % SegBlocks = 0
    <3>1. 0 = 0 * SegBlocks
      BY BlockFacts
    <3> QED
      BY <3>1, Multiple
  <2>2. Left' > 0 => /\ readtime' = Inputs'[filesread'].start + filepos'
                     /\ filepos' % SegBlocks = 0 /\ ~(filepos' > 0)
    <3>1. SUFFICES ASSUME Left' > 0
                   PROVE  readtime' = Inputs'[filesread'].start + filepos'
      BY <1>2, <2>1
    <3>2. (filesread \in 1 .. Len(Inputs))'
      BY <3>1 DEF Left
    <3>3. Inputs' = Inputs
      BY <1>1 DEF Inputs
    <3>4. Inputs'[filesread'].start \in Nat
      BY <3>2, <3>3, InputTypes
    <3> QED
      BY <3>1, <3>4, <1>2
  <2> QED
    BY <2>2, <1>1, <1>2 DEF WayInv, NextTimeInv
<1>5. EndInv'
  BY <1>1 DEF WayInv, EndInv, Filling, Moving, Settled, segmentVars
<1> QED
  BY <1>3, <1>4, <1>5 DEF WayInv

LEMMA NextWay ==
  ASSUME TypeInv, WayInv,
         (source = "file" /\ NextFile) \/ (source = "network" /\ NextFrame)
  PROVE  WayInv'
<1>1. /\ UNCHANGED <<source, sends, scan, start, segmentVars, last, numread>>
      /\ rpc = "nextfile" /\ rpc' = "outer"
      /\ (source = "file" /\ OpenFile) \/ (source = "network" /\ OpenFrame)
  BY DEF NextFile, NextFrame, RGo, mainVars
<1>2. /\ hungup' = hungup
      /\ Left' > 0 => readtime' = Inputs'[filesread'].start /\ filepos' = 0
  BY <1>1, OpenedTime
<1>3. Newest = last /\ Newest' = last /\ ~Filling' /\ ~Moving' /\ Settled
  BY <1>1 DEF Newest, Filling, Moving, Settled
<1>4. GoneInv'
  BY <1>1, <1>3 DEF WayInv, GoneInv, AllSent
<1>5. NextTimeInv'
  <2>1. 0 % SegBlocks = 0
    <3>1. 0 = 0 * SegBlocks
      BY BlockFacts
    <3> QED
      BY <3>1, Multiple
  <2>2. Left' > 0 => /\ readtime' = Inputs'[filesread'].start + filepos'
                     /\ filepos' % SegBlocks = 0 /\ ~(filepos' > 0)
    <3>1. SUFFICES ASSUME Left' > 0
                   PROVE  readtime' = Inputs'[filesread'].start + filepos'
      BY <1>2, <2>1
    <3>2. (filesread \in 1 .. Len(Inputs))'
      BY <3>1 DEF Left
    <3>3. Inputs' = Inputs
      BY <1>1 DEF Inputs
    <3>4. Inputs'[filesread'].start \in Nat
      BY <3>2, <3>3, InputTypes
    <3> QED
      BY <3>1, <3>4, <1>2
  <2> QED
    BY <2>2, <1>1, <1>2 DEF WayInv, NextTimeInv
<1>6. EndInv'
  <2>1. Inputs' = Inputs
    BY <1>1 DEF Inputs
  <2> QED
    BY <2>1, <1>1, <1>3 DEF WayInv, EndInv, segmentVars
<1> QED
  BY <1>4, <1>5, <1>6 DEF WayInv

(* A segment that is going to be read is given its time.                   *)
LEMMA PrepareStore ==
  ASSUME TypeInv, StoreInv, Fill \/ PrepareLast
  PROVE  StoreInv'
<1> PICK z : z = IF rpc = "fill" THEN numread ELSE last
  OBVIOUS
<1>1. /\ start' = [start EXCEPT ![z] = readtime]
      /\ UNCHANGED <<mainVars, segmentVars, numread>>
      /\ rpc = "fill" => rpc' = "fillread"
      /\ rpc # "fill" => rpc' = "read" /\ last' = last
      /\ rpc \in {"fill", "prepare"}
  <2>1. CASE Fill
    BY <2>1 DEF Fill, Prepare, RGo
  <2>2. CASE PrepareLast
    BY <2>2 DEF PrepareLast, Prepare, RGo
  <2> QED
    BY <2>1, <2>2
<1>2. BeingRead(z)' /\ \A s : ~BeingRead(s)
  BY <1>1 DEF BeingRead
<1>3. /\ UNCHANGED <<valid, data, source, sends, overflow>> /\ Inputs' = Inputs
      /\ start \in [Segments -> Nat]
  BY <1>1 DEF mainVars, segmentVars, Inputs, TypeInv, TypeOK
<1>4. \A s \in Segments : ~BeingRead(s)' => start'[s] = start[s]
  <2>1. \A s \in Segments : s # z => start'[s] = start[s]
    BY <1>1, <1>3
  <2>2. ASSUME NEW s \in Segments, ~BeingRead(s)' PROVE s # z
    BY <1>2, <2>2
  <2> QED
    BY <2>1, <2>2
<1>5. RecordedInv'
  BY <1>2, <1>3, <1>4 DEF StoreInv, RecordedInv
<1>6. AlignedInv'
  BY <1>2, <1>3, <1>4 DEF StoreInv, AlignedInv
<1>7. \A m, i : Holds(m, i)' = Holds(m, i)
  BY <1>3 DEF Holds, Wrap
<1>8. HeldInv'
  BY <1>3, <1>7 DEF StoreInv, HeldInv
<1> QED
  BY <1>5, <1>6, <1>8 DEF StoreInv

LEMMA PrepareWay ==
  ASSUME TypeInv, WayInv, Fill \/ PrepareLast
  PROVE  WayInv'
<1> DEFINE z == IF rpc = "fill" THEN numread ELSE last
<1>1. /\ start' = [start EXCEPT ![z] = readtime]
      /\ UNCHANGED <<mainVars, segmentVars, numread, fileVars, keepreading>>
      /\ rpc = "fill" => rpc' = "fillread"
      /\ rpc # "fill" => rpc' = "read" /\ last' = last
      /\ rpc \in {"fill", "prepare"}
  <2>1. CASE Fill
    BY <2>1 DEF Fill, Prepare, RGo
  <2>2. CASE PrepareLast
    BY <2>2 DEF PrepareLast, Prepare, RGo
  <2> QED
    BY <2>1, <2>2
<1>2. z \in Segments /\ start \in [Segments -> Nat]
  BY <1>1, FirstSegments DEF TypeInv, TypeOK, StageInv
<1>3. Newest = Before(z) /\ Newest' = Newest
  BY <1>1 DEF Newest, Filling, Moving, Before, Wrap
<1>4. /\ Filling' = Filling /\ Moving' = Moving /\ ~Settled /\ ~Settled'
      /\ rpc' = "read" => last' = z
      /\ rpc' = "fillread" => numread' = z
  BY <1>1 DEF Filling, Moving, Settled
<1> HIDE DEF z
<1>5. Newest \in Segments /\ Newest # z
  BY <1>2, <1>3, Neighbours
<1>6. start'[z] = readtime /\ start'[Newest] = start[Newest]
  BY <1>1, <1>2, <1>5
<1>7. /\ UNCHANGED <<source, sends, valid, readto, readtime, filesread, filepos, hungup>>
      /\ Inputs' = Inputs /\ Left' = Left
  BY <1>1 DEF mainVars, segmentVars, fileVars, Inputs, Left
<1>8. GoneInv'
  BY <1>1, <1>3, <1>4, <1>7 DEF WayInv, GoneInv, AllSent
<1>9. NextTimeInv'
  BY <1>3, <1>4, <1>6, <1>7 DEF WayInv, NextTimeInv
<1>10. EndInv'
  BY <1>1, <1>3, <1>4, <1>6, <1>7 DEF WayInv, EndInv
<1> QED
  BY <1>8, <1>9, <1>10 DEF WayInv

(* The steps between.                                                      *)
WalkStep ==
  (source = "network" /\ OpenStream) \/ LockLast \/ Start \/ Outer \/ Inner \/ Lock
    \/ UnlockPrev \/ UnlockLate \/ Exit

LEMMA WalkStore ==
  ASSUME StoreInv, WalkStep \/ OpenFirst \/ FirstFrame \/ NextFile \/ NextFrame
  PROVE  StoreInv'
<1>1. /\ UNCHANGED <<source, sends, overflow, start, valid, data>>
      /\ rpc \notin {"read", "fillread"}
  BY DEF WalkStep, OpenStream, LockLast, Start, Outer, Inner, Lock, UnlockPrev,
    UnlockLate, Exit, OpenFirst, FirstFrame, NextFile, NextFrame, RGo, mainVars,
    infoVars, segmentVars
<1> QED
  BY <1>1, StoreMoves

LEMMA WalkWay ==
  ASSUME TypeInv, InnerInv, WayInv, WalkStep, ~Over'
  PROVE  WayInv'
<1>1. /\ UNCHANGED <<source, sends, start, valid, readto, numread, readtime,
                     filesread, filepos, hungup>>
      /\ rpc' \notin {"read", "fillread"}
  BY DEF WalkStep, OpenStream, LockLast, Start, Outer, Inner, Lock, UnlockPrev,
    UnlockLate, Exit, RGo, mainVars, infoVars, segmentVars, fileVars
<1>2. last \in Segments
  BY DEF TypeInv, TypeOK
<1>3. CASE Inner /\ rpc' = "lock"
  <2>1. last' = Wrap(last + 1) /\ rpc = "inner" /\ rpc' = "lock"
    BY <1>3 DEF Inner
  <2>2. Newest = last /\ Newest' = Before(last)'
    BY <2>1 DEF Newest, Filling, Moving
  <2>3. Before(last)' = last
    BY <2>1, <1>2, Neighbours DEF Before, Wrap
  <2>4. ~Filling' /\ Settled
    BY <2>1 DEF Filling, Settled
  <2> QED
    BY <2>2, <2>3, <2>4, <1>1, WayMoves
<1>4. CASE Inner /\ rpc' # "lock"
  <2>1. /\ last' = last /\ rpc = "inner" /\ rpc' \in {"nextfile", "outer"}
    BY <1>4 DEF Inner
  <2>2. Newest' = Newest /\ ~Filling' /\ Settled
    BY <2>1 DEF Newest, Filling, Moving, Settled
  <2> QED
    BY <2>2, <1>1, WayMoves
<1>5. CASE LockLast
  <2>1. /\ rpc = "locklast" /\ rpc' = "start"
    BY <1>5 DEF LockLast, RGo
  <2>2. Newest' = Newest /\ Filling /\ ~(Moving \/ Settled)'
    BY <2>1, <1>1 DEF Newest, Filling, Moving, Settled, Before, Wrap
  <2> QED
    BY <2>2, <1>1, WayMoves
<1>6. CASE Start
  <2>1. rpc = "start" /\ rpc' = "fill"
    BY <1>6 DEF Start, RGo, Over
  <2>2. Newest' = Newest /\ Filling /\ ~(Moving \/ Settled)'
    BY <2>1, <1>1 DEF Newest, Filling, Moving, Settled, Before, Wrap
  <2> QED
    BY <2>2, <1>1, WayMoves
<1>7. CASE OpenStream
  <2>1. rpc = "openfirst" /\ rpc' = "firstframe" /\ last' = last
    BY <1>7 DEF OpenStream, RGo
  <2>2. Newest' = Newest /\ ~Filling' /\ ~(Moving \/ Settled)'
    BY <2>1 DEF Newest, Filling, Moving, Settled
  <2> QED
    BY <2>2, <1>1, WayMoves
<1>8. CASE Outer \/ Exit
  <2>1. rpc = "outer" /\ rpc' = "inner" /\ keepreading /\ last' = last
    BY <1>8 DEF Outer, Exit, RGo, Over
  <2>2. Newest' = Newest /\ ~Filling' /\ Settled
    BY <2>1 DEF Newest, Filling, Moving, Settled
  <2> QED
    BY <2>2, <1>1, WayMoves
<1>9. CASE Lock \/ UnlockPrev
  <2>1. /\ rpc \in {"lock", "unlockprev"} /\ rpc' \in {"prepare", "unlockprev"}
        /\ last' = last
    BY <1>9 DEF Lock, UnlockPrev, RGo
  <2>2. Newest' = Newest /\ ~Filling' /\ Moving
    BY <2>1 DEF Newest, Filling, Moving, Before, Wrap
  <2> QED
    BY <2>2, <1>1, WayMoves
<1>10. CASE UnlockLate
  <2>1. rpc = "unlocklate" /\ rpc' = "inner" /\ last' = last
    BY <1>10 DEF UnlockLate, RGo
  <2>2. Newest' = Newest /\ ~Filling' /\ Settled
    BY <2>1 DEF Newest, Filling, Moving, Settled
  <2> QED
    BY <2>2, <1>1, WayMoves
<1> QED
  BY <1>3, <1>4, <1>5, <1>6, <1>7, <1>8, <1>9, <1>10 DEF WalkStep

(***************************************************************************)
(* A segment is read.                                                      *)
(***************************************************************************)
LEMMA ReadKnown ==
  ASSUME TypeInv, WayInv, NEW s, BeingRead(s)
  PROVE  /\ s \in Segments /\ Newest = Before(s) /\ start[s] = readtime
         /\ \A t : BeingRead(t) => t = s
         /\ Moving \/ (Filling /\ numread = s)
<1>1. rpc = "fillread" => numread \in {0, 1, 2}
  BY DEF TypeInv, StageInv
<1> QED
  BY <1>1, FirstSegments DEF BeingRead, TypeInv, TypeOK, WayInv, NextTimeInv,
    Newest, Filling, Moving

(* Nothing is copied over data that is in the segment before.              *)
LEMMA NothingCopied ==
  ASSUME TypeInv, WayInv, NoShortEnd, NEW s, BeingRead(s), ~hungup, Left > 0,
         ShortBefore(s)
  PROVE  valid[Before(s)] = 0
<1>1. /\ s \in Segments /\ Newest = Before(s) /\ start[s] = readtime
      /\ Moving \/ (Filling /\ numread = s)
  BY ReadKnown
<1>2. Before(s) \in Segments
  BY <1>1, Neighbours
<1>3. PICK v \in Nat, a \in Nat : v = valid[Before(s)] /\ a = start[Before(s)]
  <2>1. valid \in [Segments -> 0 .. SegBlocks] /\ start \in [Segments -> Nat]
    BY DEF TypeInv, TypeOK
  <2>2. valid[Before(s)] \in Nat /\ start[Before(s)] \in Nat
    BY <1>2, <2>1, BlockFacts
  <2> QED
    BY <2>2
<1>4. /\ SegBlocks \in Nat /\ SendBlocks \in Nat /\ SendBlocks <= SegBlocks
      /\ v < SendBlocks /\ readtime = a + v
  BY <1>1, <1>3, BlockFacts DEF ShortBefore
<1>5. /\ readtime = Inputs[filesread].start + filepos
      /\ filepos > 0 => a + SegBlocks = readtime
      /\ filesread \in 1 .. Len(Inputs) /\ Inputs[filesread].opens
      /\ filepos \in Nat /\ Inputs[filesread].start \in Nat
  BY <1>1, <1>3, LeftType, InputTypes DEF WayInv, NextTimeInv, TypeInv, TypeOK
<1>6. filepos = 0 /\ readtime = Inputs[filesread].start
  <2>1. a + SegBlocks # readtime
    BY <1>3, <1>4
  <2>2. filepos = 0
    BY <2>1, <1>5
  <2> QED
    BY <2>2, <1>5
<1>7. readto[Before(s)]
  BY DEF ShortBefore
<1>8. numread > 0
  <2>1. numread # 0
    BY <1>2, <1>7 DEF WayInv, EndInv
  <2>2. numread \in 0 .. 3
    BY DEF TypeInv, TypeOK
  <2> QED
    BY <2>1, <2>2
<1>9. v \in {0, SegBlocks} \/ \E f \in 1 .. Len(Inputs) :
        /\ Inputs[f].opens /\ a + v = Inputs[f].start + Inputs[f].length
        /\ Inputs[f].length % SegBlocks = v
  BY <1>1, <1>3, <1>8 DEF WayInv, EndInv
<1>10. SUFFICES ASSUME v # 0 PROVE FALSE
  BY <1>3
<1>11. PICK f \in 1 .. Len(Inputs) :
         /\ Inputs[f].opens /\ a + v = Inputs[f].start + Inputs[f].length
         /\ Inputs[f].length % SegBlocks = v
  BY <1>4, <1>9, <1>10
<1>12. v \in 1 .. SendBlocks - 1
  BY <1>3, <1>4, <1>10
<1> QED
  BY <1>4, <1>5, <1>6, <1>11, <1>12, InputTypes DEF NoShortEnd

LEMMA FilledLeaves ==
  ASSUME TypeInv, NEW s \in Segments, NEW n \in 0 .. SegBlocks, NEW new, NEW ends,
         Filled(s, n, new, ends),
         n > 0 /\ ShortBefore(s) => valid[Before(s)] = 0
  PROVE  /\ valid' = [valid EXCEPT ![s] = n] /\ readtime' = readtime + SegBlocks
         /\ UNCHANGED <<mainVars, numsent, infoVars, filesread>>
         /\ data'[s] = new
         /\ \A t \in Segments : t \notin {s, Before(s)} => data'[t] = data[t]
         /\ valid[Before(s)] > 0 => data'[Before(s)] = data[Before(s)]
<1> DEFINE old == data[Before(s)]
           back == Min({SegBlocks - valid[Before(s)], SendBlocks, n})
           mixed == [j \in DOMAIN old |-> IF ShortBefore(s) /\ j < back
                                          THEN new[j + valid[Before(s)]] ELSE old[j]]
<1>1. /\ valid \in [Segments -> 0 .. SegBlocks] /\ data \in [Segments -> Blocks]
      /\ SegBlocks \in Nat /\ SendBlocks \in Nat
      /\ Before(s) \in Segments /\ Before(s) # s
  BY BlockFacts, Neighbours DEF TypeInv, TypeOK
<1>2. /\ valid' = [valid EXCEPT ![s] = n] /\ readtime' = readtime + SegBlocks
      /\ UNCHANGED <<mainVars, numsent, infoVars, filesread>>
      /\ data' = [data EXCEPT ![s] = new, ![Before(s)] = mixed]
  BY DEF Filled
<1>3. ASSUME valid[Before(s)] > 0 PROVE mixed = old
  <2>1. old = [j \in 0 .. SegBlocks - 1 |-> old[j]]
    BY <1>1 DEF Blocks
  <2>2. CASE ~ShortBefore(s)
    BY <2>1, <2>2
  <2>3. CASE ShortBefore(s)
    <3>1. n = 0
      BY <2>3, <1>3
    <3>2. PICK a \in Nat : a = SegBlocks - valid[Before(s)]
      BY <1>1
    <3>3. Min({a, SendBlocks, n}) <= n
      BY <1>1, <3>2, LeastOfThree
    <3>4. back <= 0 /\ back \in Int
      BY <3>1, <3>2, <3>3, <1>1, LeastOfThree
    <3>5. \A j \in 0 .. SegBlocks - 1 : ~(j < back)
      BY <3>4
    <3> HIDE DEF back
    <3> QED
      BY <2>1, <3>5
  <2> QED
    BY <2>2, <2>3
<1> HIDE DEF old, back, mixed
<1>4. /\ data'[s] = new
      /\ \A t \in Segments : t \notin {s, Before(s)} => data'[t] = data[t]
      /\ data'[Before(s)] = mixed
  BY <1>1, <1>2
<1> QED
  BY <1>2, <1>3, <1>4 DEF old

LEMMA ReadInto ==
  ASSUME TypeInv, WayInv, NoShortEnd, source # "fake", NEW s, BeingRead(s), Reading(s)
  PROVE  \E n \in 0 .. SegBlocks :
           /\ valid' = [valid EXCEPT ![s] = n] /\ readtime' = readtime + SegBlocks
           /\ UNCHANGED <<mainVars, numsent, infoVars, filesread>>
           /\ \A j \in 0 .. n - 1 : data'[s][j] = start[s] + j
           /\ \A t \in Segments : t \notin {s, Before(s)} => data'[t] = data[t]
           /\ valid[Before(s)] > 0 => data'[Before(s)] = data[Before(s)]
           /\ n > 0 => Left > 0 /\ ~hungup
           /\ hungup' \/ (n = Portion /\ filepos' = filepos + n /\ ~hungup)
                      \/ (n = 0 /\ filepos' = filepos /\ Left = 0)
           /\ n > 0 => n = Portion /\ filepos' = filepos + n
           /\ source = "file" => hungup' = hungup
<1>1. s \in Segments /\ start[s] = readtime
  BY ReadKnown
<1>2. /\ Left \in Nat /\ Portion \in 0 .. SegBlocks /\ filepos \in Nat
      /\ SegBlocks \in Nat /\ SegBlocks >= 1
      /\ Portion = IF SegBlocks <= Left THEN SegBlocks ELSE Left
  <2>1. filepos \in Nat
    BY DEF TypeInv, TypeOK
  <2>2. SegBlocks \in Nat /\ SegBlocks >= 1
    BY BlockFacts
  <2> QED
    BY <2>1, <2>2, PortionIs
<1>3. \A n \in 0 .. SegBlocks :
        (n > 0 => Left > 0 /\ ~hungup)
          => (n > 0 /\ ShortBefore(s) => valid[Before(s)] = 0)
  BY NothingCopied
<1>4. ASSUME Filled(s, Portion, Contents(s, Portion), FALSE)
               \/ Filled(s, Portion, Contents(s, Portion), readtime + SegBlocks >= JobEnd),
             ~hungup \/ Portion = 0
      PROVE  /\ valid' = [valid EXCEPT ![s] = Portion]
             /\ readtime' = readtime + SegBlocks
             /\ UNCHANGED <<mainVars, numsent, infoVars, filesread>>
             /\ \A j \in 0 .. Portion - 1 : data'[s][j] = start[s] + j
             /\ \A t \in Segments : t \notin {s, Before(s)} => data'[t] = data[t]
             /\ valid[Before(s)] > 0 => data'[Before(s)] = data[Before(s)]
             /\ Portion > 0 => Left > 0 /\ ~hungup
  <2>1. PICK new, ends : new = Contents(s, Portion) /\ Filled(s, Portion, new, ends)
    BY <1>4
  <2>2. Portion > 0 => Left > 0 /\ ~hungup
    BY <1>2, <1>4
  <2>3. Portion > 0 /\ ShortBefore(s) => valid[Before(s)] = 0
    BY <2>2, <1>2, <1>3
  <2>4. /\ valid' = [valid EXCEPT ![s] = Portion]
        /\ readtime' = readtime + SegBlocks
        /\ UNCHANGED <<mainVars, numsent, infoVars, filesread>>
        /\ data'[s] = new
        /\ \A t \in Segments : t \notin {s, Before(s)} => data'[t] = data[t]
        /\ valid[Before(s)] > 0 => data'[Before(s)] = data[Before(s)]
    BY <2>1, <2>3, <1>1, <1>2, FilledLeaves
  <2>5. ASSUME NEW j \in 0 .. Portion - 1 PROVE new[j] = start[s] + j
    <3>1. Left > 0 /\ ~hungup /\ j \in 0 .. SegBlocks - 1 /\ j < Portion
      BY <2>2, <2>5, <1>2
    <3>2. new[j] = Inputs[filesread].start + filepos + j
      BY <2>1, <3>1 DEF Contents
    <3>3. readtime = Inputs[filesread].start + filepos
      BY <3>1 DEF WayInv, NextTimeInv
    <3> QED
      BY <3>2, <3>3, <1>1
  <2> QED
    BY <2>2, <2>4, <2>5
<1>5. CASE source = "file" /\ DiskToMemory(s)
  <2>1. ~hungup
    BY <1>5 DEF WayInv, NextTimeInv
  <2>2. /\ Filled(s, Portion, Contents(s, Portion), FALSE)
        /\ filepos' = filepos + Portion /\ hungup' = hungup
    BY <1>5 DEF DiskToMemory, Portion
  <2> QED
    BY <1>2, <1>4, <2>1, <2>2
<1>6. CASE source = "network" /\ ReadNetwork(s)
  <2>1. /\ Filled(s, Portion, Contents(s, Portion), readtime + SegBlocks >= JobEnd)
        /\ filepos' = filepos + Portion /\ hungup' = hungup
        /\ ~hungup \/ Portion = 0
    BY <1>6 DEF ReadNetwork, Portion
  <2>2. Portion = 0 => filepos' = filepos /\ Left = 0
    BY <1>2, <2>1
  <2> QED
    BY <1>2, <1>4, <1>6, <2>1, <2>2
<1>7. CASE source = "network" /\ HangUp(s)
  <2>1. PICK new : Filled(s, 0, new, TRUE) /\ hungup'
    BY <1>7 DEF HangUp
  <2>2. 0 \in 0 .. SegBlocks /\ ~(0 > 0) /\ 0 .. 0 - 1 = {}
    BY <1>2
  <2>3. /\ valid' = [valid EXCEPT ![s] = 0]
        /\ readtime' = readtime + SegBlocks
        /\ UNCHANGED <<mainVars, numsent, infoVars, filesread>>
        /\ \A t \in Segments : t \notin {s, Before(s)} => data'[t] = data[t]
        /\ valid[Before(s)] > 0 => data'[Before(s)] = data[Before(s)]
    BY <2>1, <2>2, <1>1, FilledLeaves
  <2>4. \A j \in 0 .. 0 - 1 : data'[s][j] = start[s] + j
    BY <2>2
  <2> QED
    BY <2>1, <2>2, <2>3, <2>4, <1>7
<1> QED
  BY <1>5, <1>6, <1>7 DEF Reading

(* Nothing is outstanding from the segment that is read, or the one before *)
(* it.                                                                     *)
LEMMA NoneOutstanding ==
  ASSUME TypeInv, InnerInv, SentInv, WayInv, NEW s, BeingRead(s), numsent[s] = 0
  PROVE  \A m \in sends : m.seg \notin {s, Before(s)}
<1>1. /\ s \in Segments /\ Newest = Before(s)
      /\ Moving \/ (Filling /\ numread = s)
  BY ReadKnown
<1>2. AllSent(s)
  BY <1>1 DEF SentInv, CountInv
<1>3. CASE Moving \/ (Filling /\ numread = 2)
  BY <1>1, <1>2, <1>3 DEF WayInv, GoneInv, AllSent
<1>4. CASE ~(Moving \/ (Filling /\ numread = 2))
  <2>1. Early
    <3>1. rpc = "fillread"
      BY <1>4 DEF BeingRead, Moving
    <3> QED
      BY <3>1, <1>4 DEF Early, TypeInv, StageInv, Filling
  <2>2. sends = {}
    BY <2>1 DEF InnerInv, StartInv, SentInv, QuietInv
  <2> QED
    BY <2>2
<1> QED
  BY <1>3, <1>4

LEMMA ReadStore ==
  ASSUME TypeInv, InnerInv, SentInv, StoreInv, WayInv, NoShortEnd, source # "fake",
         FillRead \/ ReadLast
  PROVE  StoreInv'
<1>1. PICK s : BeingRead(s) /\ numsent[s] = 0 /\ Reading(s)
  BY DEF FillRead, ReadLast, RGo, BeingRead
<1>2. rpc' \notin {"read", "fillread"}
  BY DEF FillRead, ReadLast, RGo
<1>3. /\ s \in Segments /\ start[s] = readtime
      /\ \A t : BeingRead(t) => t = s
  BY <1>1, ReadKnown
<1>4. PICK n \in 0 .. SegBlocks :
        /\ valid' = [valid EXCEPT ![s] = n]
        /\ UNCHANGED <<mainVars, numsent, infoVars, filesread>>
        /\ \A j \in 0 .. n - 1 : data'[s][j] = start[s] + j
        /\ \A t \in Segments : t \notin {s, Before(s)} => data'[t] = data[t]
        /\ valid[Before(s)] > 0 => data'[Before(s)] = data[Before(s)]
        /\ n > 0 => Left > 0 /\ ~hungup
  BY <1>1, ReadInto
<1>5. /\ valid \in [Segments -> 0 .. SegBlocks] /\ SegBlocks \in Nat
      /\ sends \subseteq Sends
  BY BlockFacts DEF TypeInv, TypeOK
<1>6. /\ valid'[s] = n
      /\ \A t \in Segments : t # s => valid'[t] = valid[t] /\ ~BeingRead(t)
      /\ \A t \in Segments : ~BeingRead(t)'
      /\ UNCHANGED <<source, sends, overflow, start>> /\ Inputs' = Inputs
  BY <1>2, <1>3, <1>4, <1>5 DEF mainVars, infoVars, Inputs, BeingRead
<1>7. \A t \in Segments : t # s /\ valid[t] > 0 => data'[t] = data[t]
  BY <1>4
<1>8. RecordedInv'
  <2>1. ASSUME NEW t \in Segments, NEW j \in 0 .. valid'[t] - 1
        PROVE  data'[t][j] = start[t] + j
    <3>1. CASE t = s
      BY <3>1, <2>1, <1>4, <1>6
    <3>2. CASE t # s
      <4>1. valid'[t] = valid[t] /\ ~BeingRead(t)
        BY <3>2, <1>6
      <4>2. valid[t] > 0
        BY <4>1, <2>1, <1>5
      <4> QED
        BY <4>1, <4>2, <3>2, <2>1, <1>7 DEF StoreInv, RecordedInv
    <3> QED
      BY <3>1, <3>2
  <2> QED
    BY <2>1, <1>6 DEF RecordedInv
<1>9. AlignedInv'
  <2>1. ASSUME n > 0
        PROVE  \E f \in 1 .. Len(Inputs) :
                 Inputs[f].opens /\ (start[s] - Inputs[f].start) % SegBlocks = 0
    <3>1. Left > 0 /\ ~hungup
      BY <1>4, <2>1
    <3>2. filesread \in 1 .. Len(Inputs) /\ Inputs[filesread].opens
      BY <3>1, LeftType DEF TypeInv
    <3>3. readtime = Inputs[filesread].start + filepos /\ filepos % SegBlocks = 0
      BY <3>1 DEF WayInv, NextTimeInv
    <3>4. Inputs[filesread].start \in Nat /\ filepos \in Nat
      BY <3>2, InputTypes DEF TypeInv, TypeOK
    <3>5. start[s] - Inputs[filesread].start = filepos
      BY <3>3, <3>4, <1>3
    <3> QED
      BY <3>2, <3>3, <3>5
  <2> QED
    BY <2>1, <1>6 DEF StoreInv, AlignedInv
<1>10. HeldInv'
  <2>1. \A m \in sends : m.seg \notin {s, Before(s)}
    BY <1>1, NoneOutstanding
  <2> SUFFICES ASSUME NEW m \in sends, NEW i \in m.flags PROVE Holds(m, i)'
    BY <1>6 DEF HeldInv
  <2>2. Holds(m, i) /\ m.seg \notin {s, Before(s)}
    BY <2>1 DEF StoreInv, HeldInv
  <2>3. m \in Sends
    BY <1>5
  <2>4. m.seg \in Segments /\ m.pos \in Int /\ i \in Int
    <3>1. m.seg \in Segments /\ m.pos \in Int /\ m.flags \subseteq 0 .. SendBlocks - 1
      BY <2>3 DEF Sends
    <3> QED
      BY <3>1, BlockFacts
  <2>5. data'[m.seg] = data[m.seg] /\ valid'[m.seg] = valid[m.seg]
    BY <2>2, <2>4, <1>4, <1>6
  <2>6. PICK q \in Segments : q = Wrap(m.seg + 1) /\ q # s
    <3>1. Wrap(m.seg + 1) \in Segments /\ Before(Wrap(m.seg + 1)) = m.seg
      BY <2>4, Neighbours
    <3> QED
      BY <3>1, <2>2
  <2>7. valid'[q] = valid[q] /\ (valid[q] > 0 => data'[q] = data[q])
    BY <2>6, <1>6, <1>7
  <2>8. PICK p \in Int : p = m.pos + i
    BY <2>4
  <2>9. CASE p < SegBlocks
    BY <2>2, <2>5, <2>8, <2>9, <1>5 DEF Holds
  <2>10. CASE p >= SegBlocks
    <3>1. PICK e \in Int : e = p - SegBlocks
      BY <1>5
    <3>2. /\ e < valid[q] /\ data[q][e] = SubintTime(m.subint) + i
          /\ m.seg = NumSegments - 1 => overflow[e] = SubintTime(m.subint) + i
      BY <2>2, <2>6, <2>8, <2>10, <3>1 DEF Holds
    <3>3. valid[q] > 0
      BY <3>1, <3>2, <2>10, <1>5
    <3>4. data'[q] = data[q] /\ valid'[q] = valid[q] /\ overflow' = overflow
      BY <3>3, <2>7, <1>6
    <3>5. p >= 0 /\ ~(p < SegBlocks)
      BY <2>10, <1>5
    <3> QED
      BY <3>1, <3>2, <3>4, <3>5, <2>6, <2>8 DEF Holds, Wrap
  <2> QED
    BY <2>9, <2>10, <1>5
<1> QED
  BY <1>8, <1>9, <1>10 DEF StoreInv

LEMMA ReadWay ==
  ASSUME TypeInv, InnerInv, SentInv, WayInv, NoShortEnd, source # "fake",
         FillRead \/ ReadLast, ~Over'
  PROVE  WayInv'
<1>1. PICK s : BeingRead(s) /\ numsent[s] = 0 /\ Reading(s)
  BY DEF FillRead, ReadLast, RGo, BeingRead
<1>2. /\ s \in Segments /\ start[s] = readtime
      /\ Moving \/ (Filling /\ numread = s)
  BY <1>1, ReadKnown
<1>3. PICK n \in 0 .. SegBlocks :
        /\ valid' = [valid EXCEPT ![s] = n] /\ readtime' = readtime + SegBlocks
        /\ UNCHANGED <<mainVars, numsent, infoVars, filesread>>
        /\ n > 0 => Left > 0 /\ ~hungup
        /\ hungup' \/ (n = Portion /\ filepos' = filepos + n /\ ~hungup)
                   \/ (n = 0 /\ filepos' = filepos /\ Left = 0)
        /\ n > 0 => n = Portion /\ filepos' = filepos + n
        /\ source = "file" => hungup' = hungup
  BY <1>1, ReadInto
<1>4. /\ valid \in [Segments -> 0 .. SegBlocks] /\ SegBlocks \in Nat
      /\ SegBlocks >= 1 /\ filepos \in Nat /\ readtime \in Nat
  BY BlockFacts DEF TypeInv, TypeOK
<1>5. /\ valid'[s] = n /\ UNCHANGED <<source, sends, start>> /\ Inputs' = Inputs
  BY <1>2, <1>3, <1>4 DEF mainVars, infoVars, Inputs
<1>6. /\ rpc' \notin {"read", "fillread"}
      /\ Newest' = s /\ numread' > 0
  <2>1. CASE FillRead
    <3>1. /\ rpc = "fillread" /\ s = numread /\ numread \in {0, 1, 2}
          /\ numread' = numread + 1
          /\ rpc' = CASE numread = 0 -> "fill" [] numread = 1 -> "locklast"
                      [] OTHER -> "outer"
          /\ last' = IF source = "fake" /\ numread = 2 THEN numread ELSE last
          /\ numread = 2 => last = 2 \/ source = "fake"
      BY <2>1, <1>2 DEF FillRead, BeingRead, Moving, InnerInv, StartInv, ReaderInv,
        Early, ThirdHeld
    <3>2. Before(1) = 0 /\ Before(2) = 1
      <4>1. Wrap(0 + 1) = 1 /\ Wrap(1 + 1) = 2
        BY FirstSegments, WrapNext, SegmentsAssumption
      <4>2. Before(Wrap(0 + 1)) = 0 /\ Before(Wrap(1 + 1)) = 1
        BY FirstSegments, Neighbours
      <4> QED
        BY <4>1, <4>2
    <3>3. CASE numread = 0
      <4>1. rpc' = "fill" /\ numread' = 1
        BY <3>1, <3>3
      <4> QED
        BY <4>1, <3>1, <3>2, <3>3 DEF Newest, Filling, Before, Wrap
    <3>4. CASE numread = 1
      <4>1. rpc' = "locklast" /\ numread' = 2
        BY <3>1, <3>4
      <4> QED
        BY <4>1, <3>1, <3>2, <3>4 DEF Newest, Filling, Before, Wrap
    <3>5. CASE numread = 2
      <4>1. rpc' = "outer" /\ numread' = 3 /\ last' = 2
        BY <3>1, <3>5
      <4> QED
        BY <4>1, <3>1, <3>5 DEF Newest, Filling, Moving
    <3> QED
      BY <3>1, <3>3, <3>4, <3>5
  <2>2. CASE ReadLast
    <3>1. /\ rpc = "read" /\ s = last /\ rpc' \in {"unlocklate", "inner"}
          /\ last' = last /\ numread' = numread
      BY <2>2, <1>1 DEF ReadLast, RGo, BeingRead
    <3>2. numread > 0
      BY <3>1 DEF WayInv, EndInv, Moving
    <3> QED
      BY <3>1, <3>2 DEF Newest, Filling, Moving
  <2> QED
    BY <2>1, <2>2
<1>7. GoneInv'
  <2>1. AllSent(s)
    BY <1>1, <1>2 DEF SentInv, CountInv
  <2> QED
    BY <2>1, <1>5, <1>6 DEF GoneInv, AllSent
<1>8. ASSUME n > 0
      PROVE  /\ filesread \in 1 .. Len(Inputs) /\ Inputs[filesread].opens
             /\ Left = Inputs[filesread].length - filepos
             /\ readtime = Inputs[filesread].start + filepos
             /\ filepos % SegBlocks = 0
             /\ Inputs[filesread].start \in Nat /\ Inputs[filesread].length \in Nat
             /\ n = (IF SegBlocks <= Left THEN SegBlocks ELSE Left)
  <2>1. Left > 0 /\ ~hungup
    BY <1>3, <1>8
  <2>2. /\ filesread \in 1 .. Len(Inputs) /\ Inputs[filesread].opens
        /\ Left = Inputs[filesread].length - filepos
    BY <2>1, LeftType DEF TypeInv
  <2>3. readtime = Inputs[filesread].start + filepos /\ filepos % SegBlocks = 0
    BY <2>1 DEF WayInv, NextTimeInv
  <2> QED
    BY <2>2, <2>3, <1>3, <1>8, InputTypes, PortionIs
<1>9. NextTimeInv'
  <2>1. source = "file" => ~hungup'
    BY <1>3 DEF WayInv, NextTimeInv
  <2>2. ASSUME Left' > 0, ~hungup'
        PROVE  /\ readtime' = Inputs[filesread].start + filepos'
               /\ filepos' % SegBlocks = 0
               /\ start[s] + SegBlocks = readtime'
    <3>1. Left' = IF filesread \in 1 .. Len(Inputs) /\ Inputs[filesread].opens
                  THEN Inputs[filesread].length - filepos' ELSE 0
      BY <1>3, <1>5 DEF Left
    <3>2. /\ filesread \in 1 .. Len(Inputs) /\ Inputs[filesread].opens
          /\ Inputs[filesread].length - filepos' > 0
      BY <3>1, <2>2
    <3>3. Left = Inputs[filesread].length - filepos /\ Inputs[filesread].length \in Nat
      BY <3>2, InputTypes DEF Left
    <3>4. Left > 0
      BY <1>3, <1>4, <2>2, <3>2, <3>3
    <3>5. n = Portion /\ filepos' = filepos + n
      BY <1>3, <2>2, <3>4
    <3>6. n > 0
      BY <3>4, <3>5, <1>4, PortionIs
    <3>7. n = SegBlocks
      BY <3>2, <3>3, <3>5, <3>6, <1>4, <1>8
    <3>8. (filepos + SegBlocks) % SegBlocks = 0
      <4>1. filepos % SegBlocks = 0
        BY <3>6, <1>8
      <4>2. filepos \in Int
        BY <1>4
      <4> QED
        BY <4>1, <4>2, NextMultiple
    <3>9. PICK b \in Nat : b = Inputs[filesread].start /\ readtime = b + filepos
      BY <3>6, <1>8
    <3>10. filepos' = filepos + SegBlocks /\ readtime' = b + (filepos + SegBlocks)
      BY <3>5, <3>7, <3>9, <1>3, <1>4
    <3>11. start[s] + SegBlocks = readtime'
      BY <1>2, <1>3
    <3> QED
      BY <3>8, <3>9, <3>10, <3>11
  <2> QED
    BY <2>1, <2>2, <1>3, <1>5, <1>6 DEF NextTimeInv
<1>10. EndInv'
  <2>1. n \in {0, SegBlocks} \/ \E f \in 1 .. Len(Inputs) :
          /\ Inputs[f].opens
          /\ start[s] + n = Inputs[f].start + Inputs[f].length
          /\ Inputs[f].length % SegBlocks = n
    <3>1. SUFFICES ASSUME n > 0, n < SegBlocks
                   PROVE  /\ start[s] + n = Inputs[filesread].start + Inputs[filesread].length
                          /\ Inputs[filesread].length % SegBlocks = n
      <4>1. CASE n > 0
        <5>1. filesread \in 1 .. Len(Inputs) /\ Inputs[filesread].opens
          BY <4>1, <1>8
        <5>2. n = SegBlocks \/ n < SegBlocks
          BY <1>4
        <5> QED
          BY <4>1, <5>1, <5>2
      <4>2. CASE ~(n > 0)
        BY <4>2, <1>4
      <4> QED
        BY <4>1, <4>2
    <3>2. PICK b \in Nat, c \in Nat :
            /\ b = Inputs[filesread].start /\ c = Inputs[filesread].length
            /\ readtime = b + filepos /\ Left = c - filepos
      BY <3>1, <1>8
    <3>3. n = c - filepos /\ filepos % SegBlocks = 0 /\ filepos \in Int /\ n \in Int
      BY <3>1, <3>2, <1>4, <1>8
    <3>4. PICK q \in Int : filepos = q * SegBlocks
      BY <3>3, Multiple
    <3>5. c = q * SegBlocks + n
      BY <3>2, <3>3, <3>4
    <3>6. c % SegBlocks = n
      BY <3>1, <3>3, <3>5, Remainder
    <3>7. start[s] + n = b + c
      BY <3>2, <3>3, <1>2
    <3> QED
      BY <3>2, <3>6, <3>7
  <2> QED
    BY <2>1, <1>5, <1>6 DEF EndInv
<1> QED
  BY <1>7, <1>9, <1>10 DEF WayInv

(***************************************************************************)
(* All steps.                                                              *)
(***************************************************************************)
LEMMA StoreSteps ==
  ASSUME TypeInv, DInv, DataInv, NoShortEnd, source # "fake", ~MainOver, NextOfScan,
         [Next]_vars
  PROVE  StoreInv'
<1>1. SentInv /\ StoreInv
  BY DEF DataInv
<1>2. CASE UNCHANGED vars
  BY <1>1, <1>2, MainLeavesStore DEF vars, mainVars
<1>3. CASE Post \/ PostInvalid
  BY <1>1, <1>3, PostStore
<1>4. CASE /\ MainStep \/ ReceiveRequest \/ ReceiveTerminate \/ \E m \in sends : Taken(m)
           /\ ~(Post \/ PostInvalid)
  <2>1. UNCHANGED <<source, infoVars, segmentVars, readerVars>>
    BY <1>4 DEF MainStep, ReceiveRequest, ReceiveTerminate, Taken, SeeStarted, Check,
      Seek, LockAhead, UnlockBehind, Found, WaitMax, Drain, Drained, UnlockAt,
      UnlockAhead, Join, mainVars
  <2>2. sends' \subseteq sends /\ overflow' = overflow
    BY <1>1, <1>4, QuietSteps
  <2> QED
    BY <1>1, <2>1, <2>2, MainLeavesStore
<1>5. CASE FillRead \/ ReadLast
  <2>1. ~Over
    BY <1>5 DEF Over, MainOver, FillRead, ReadLast, RGo
  <2> QED
    BY <1>1, <1>5, <2>1, ReadStore DEF DataInv, DInv
<1>6. CASE ReaderStep /\ ~(FillRead \/ ReadLast)
  BY <1>1, <1>6, PrepareStore, WalkStore
  DEF ReaderStep, loopfileread, loopnetworkread, loopfakeread, Loop, WalkStep
<1> QED
  BY <1>2, <1>3, <1>4, <1>5, <1>6 DEF Next, Finished

LEMMA WaySteps ==
  ASSUME TypeInv, DInv, DataInv, NoShortEnd, source # "fake", ~Over, ~Over',
         [Next]_vars
  PROVE  WayInv'
<1>1. SentInv /\ WayInv /\ InnerInv
  BY DEF DataInv, DInv
<1>2. CASE \/ UNCHANGED vars \/ MainStep \/ ReceiveRequest \/ ReceiveTerminate
           \/ \E m \in sends : Taken(m)
  <2>1. /\ UNCHANGED <<source, infoVars, segmentVars, readerVars>>
        /\ keepreading' = keepreading \/ ~keepreading'
    BY <1>2 DEF MainStep, ReceiveRequest, ReceiveTerminate, Taken, SeeStarted, Check,
      Seek, LockAhead, UnlockBehind, Found, PostInvalid, Post, Send, WaitMax, Drain,
      Drained, UnlockAt, UnlockAhead, Join, vars, mainVars
  <2>2. \A m \in sends' : m \in sends \/ (m.seg = at /\ mpc \in {"post", "invalid"})
    <3>1. CASE Post \/ PostInvalid
      BY <3>1 DEF Post, PostInvalid, Send
    <3>2. CASE ~(Post \/ PostInvalid)
      BY <1>1, <3>2, QuietSteps
    <3> QED
      BY <3>1, <3>2
  <2> QED
    BY <1>1, <2>1, <2>2, MainLeavesWay
<1>3. CASE FillRead \/ ReadLast
  BY <1>1, <1>3, ReadWay
<1>4. CASE ReaderStep /\ ~(FillRead \/ ReadLast)
  BY <1>1, <1>4, PrepareWay, WalkWay, OpenFirstWay, NextWay
  DEF ReaderStep, loopfileread, loopnetworkread, loopfakeread, Loop, WalkStep
<1> QED
  BY <1>2, <1>3, <1>4 DEF Next, Finished

LEMMA DataStep ==
  ASSUME NoShortEnd
  PROVE  TypeInv /\ DInv /\ DataInv /\ (source # "fake" => NextOfScan) /\ [Next]_vars
           => DataInv'
<1> SUFFICES ASSUME TypeInv, DInv, DataInv, source # "fake" => NextOfScan, [Next]_vars
             PROVE  DataInv'
  OBVIOUS
<1>1. source' = source
  BY ReaderKeepsMain DEF Next, MainStep, ReceiveRequest, ReceiveTerminate, Taken,
    SeeStarted, Check, Seek, LockAhead, UnlockBehind, Found, PostInvalid, Post, Send,
    WaitMax, Drain, Drained, UnlockAt, UnlockAhead, Join, Finished, vars, mainVars
<1>2. CASE source = "fake"
  BY <1>1, <1>2 DEF DataInv
<1>3. CASE source # "fake"
  <2>1. SentInv'
    BY <1>3, SentStep DEF DataInv
  <2>2. MainOver' \/ StoreInv'
    <3>1. CASE MainOver
      <4>1. MainOver'
        <5>1. CASE ReaderStep
          BY <3>1, <5>1, ReaderKeepsMain DEF MainOver, mainVars
        <5>2. CASE ~ReaderStep
          BY <3>1, <5>2 DEF MainOver, Next, MainStep, ReceiveRequest,
            ReceiveTerminate, Taken, SeeStarted, Check, Seek, LockAhead,
            UnlockBehind, Found, PostInvalid, Post, WaitMax, Drain, Drained,
            UnlockAt, UnlockAhead, Join, Finished, MGo, vars, mainVars
        <5> QED
          BY <5>1, <5>2
      <4> QED
        BY <4>1
    <3>2. CASE ~MainOver
      BY <1>3, <3>2, StoreSteps
    <3> QED
      BY <3>1, <3>2
  <2>3. Over' \/ WayInv'
    <3>1. CASE Over
      BY <3>1, OverStays
    <3>2. CASE ~Over
      BY <1>3, <3>2, WaySteps
    <3> QED
      BY <3>1, <3>2
  <2> QED
    BY <2>1, <2>2, <2>3 DEF DataInv
<1> QED
  BY <1>2, <1>3

(* With the files apart the next segment is of the same scan.              *)
LEMMA ApartOfScan ==
  ASSUME ScansApart
  PROVE  TypeInv /\ DInv /\ DataInv => (source # "fake" => NextOfScan)
<1> SUFFICES ASSUME TypeInv, DInv, DataInv, source # "fake", mpc = "post",
                    valid[at] = SegBlocks, valid[NextSeg] > 0, Contiguous
             PROVE  scan[NextSeg] = scan[at]
  BY DEF NextOfScan
<1>1. ~MainOver /\ mpc # "init"
  BY DEF MainOver
<1>2. /\ AlignedInv /\ ~BeingRead(at) /\ ~BeingRead(NextSeg)
  BY <1>1, NotBeingRead DEF DataInv, StoreInv
<1>3. /\ at \in Segments /\ NextSeg \in Segments
      /\ SegBlocks \in Nat /\ SegBlocks > 0
  BY Neighbours, BlockFacts DEF TypeInv, TypeOK, NextSeg
<1>4. PICK f \in 1 .. Len(Inputs) :
        Inputs[f].opens /\ (start[at] - Inputs[f].start) % SegBlocks = 0
  BY <1>2, <1>3 DEF AlignedInv
<1>5. PICK g \in 1 .. Len(Inputs) :
        Inputs[g].opens /\ (start[NextSeg] - Inputs[g].start) % SegBlocks = 0
  BY <1>2, <1>3 DEF AlignedInv
<1>6. PICK k \in 1 .. NumScans, l \in 1 .. NumScans :
        k = scan[at] /\ l = scan[NextSeg]
  BY <1>3 DEF TypeInv, TypeOK
<1>7. PICK a \in Nat, b \in Nat, c \in Nat, d \in Nat, x \in Nat, y \in Nat :
        /\ a = start[at] /\ b = start[NextSeg]
        /\ c = Inputs[f].start /\ d = Inputs[g].start
        /\ x = Scans[k].start /\ y = Scans[l].start
  <2>1. start[at] \in Nat /\ start[NextSeg] \in Nat
    BY <1>3 DEF TypeInv, TypeOK
  <2>2. Inputs[f].start \in Nat /\ Inputs[g].start \in Nat
    BY InputTypes
  <2>3. Scans[k].start \in Nat /\ Scans[l].start \in Nat
    BY ScanTypes
  <2> QED
    BY <2>1, <2>2, <2>3
<1>8. (b - y) - (a - x) = SegBlocks
  BY <1>6, <1>7 DEF Contiguous, InScan
<1>9. PICK p \in Int, q \in Int : a - c = p * SegBlocks /\ b - d = q * SegBlocks
  <2>1. (a - c) % SegBlocks = 0 /\ (b - d) % SegBlocks = 0
    BY <1>4, <1>5, <1>7
  <2>2. a - c \in Int /\ b - d \in Int
    OBVIOUS
  <2> QED
    BY <2>1, <2>2, Multiple
<1>10. (c - x) - (d - y) = (q - p - 1) * SegBlocks
  <2>1. p * SegBlocks \in Int /\ q * SegBlocks \in Int
    BY <1>3
  <2>2. (q - p - 1) * SegBlocks = q * SegBlocks - p * SegBlocks - SegBlocks
    BY <1>3
  <2> QED
    BY <2>1, <2>2, <1>3, <1>8, <1>9
<1>11. ((c - x) - (d - y)) % SegBlocks = 0
  <2>1. (c - x) - (d - y) \in Int /\ q - p - 1 \in Int
    OBVIOUS
  <2> QED
    BY <2>1, <1>10, Multiple
<1>12. k = l
  BY <1>4, <1>5, <1>7, <1>11, InputTypes DEF ScansApart
<1> QED
  BY <1>6, <1>12

(* What a Core gets is what the invariant says is there.                   *)
LEMMA GotIt == TypeInv /\ DataInv => SentDataIntact
<1> SUFFICES ASSUME TypeInv, DataInv, source # "fake", NEW m \in sends, NEW i \in m.flags
             PROVE  Got(m, i) = SubintTime(m.subint) + i
  BY DEF SentDataIntact
<1>1. ~MainOver
  BY DEF DataInv, SentInv, QuietInv
<1>2. Holds(m, i)
  BY <1>1 DEF DataInv, StoreInv, HeldInv
<1>3. m \in Sends
  BY DEF TypeInv, TypeOK
<1>4. m.seg \in Segments /\ m.pos \in Int /\ i \in Int /\ SegBlocks \in Int
  <2>1. m.seg \in Segments /\ m.pos \in Int /\ m.flags \subseteq 0 .. SendBlocks - 1
    BY <1>3 DEF Sends
  <2> QED
    BY <2>1, BlockFacts
<1>5. PICK p \in Int : p = m.pos + i
  BY <1>4
<1>6. CASE p < SegBlocks
  BY <1>2, <1>5, <1>6 DEF Got, Holds
<1>7. CASE p >= SegBlocks
  <2>1. ~(p < SegBlocks)
    BY <1>4, <1>7
  <2>2. m.seg # NumSegments - 1 => Wrap(m.seg + 1) = m.seg + 1
    BY <1>4, WrapNext
  <2> QED
    BY <1>2, <1>5, <1>7, <2>1, <2>2 DEF Got, Holds
<1> QED
  BY <1>4, <1>6, <1>7

(* Every block sent as valid is the data recorded at that block's time for *)
(* as long as the Core has not taken it: calculateControlParams finds the  *)
(* place, in one segment or in two, and waitForBuffer keeps the read       *)
(* thread away.  As long as no segment is taken for the next one that      *)
(* follows on it in another scan only.                                     *)
THEOREM SentInOneScan ==
  ASSUME NoShortEnd
  PROVE  Spec /\ []NextOfScan => []SentDataIntact
<1>1. TypeInv /\ DInv /\ DataInv /\ NextOfScan /\ [Next]_vars => DataInv'
  BY DataStep
<1>2. Init => TypeInv /\ DInv /\ DataInv
  BY TypeInit, InitInv, DataInit DEF DInv
<1> QED
  BY <1>1, <1>2, TypeStep, StepInv, GotIt, PTL DEF Spec

(* The same of every run of the two threads, when the starts of the files  *)
(* and of the scans are such that this cannot happen; a job of one scan is *)
(* one of these.                                                           *)
THEOREM SentIsRecorded ==
  ASSUME NoShortEnd, ScansApart
  PROVE  Spec => []SentDataIntact
<1>1. TypeInv /\ DInv /\ DataInv /\ [Next]_vars => DataInv'
  BY DataStep, ApartOfScan
<1>2. Init => TypeInv /\ DInv /\ DataInv
  BY TypeInit, InitInv, DataInit DEF DInv
<1> QED
  BY <1>1, <1>2, TypeStep, StepInv, GotIt, PTL DEF Spec
=============================================================================
