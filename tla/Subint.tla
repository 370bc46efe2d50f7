-------------------------------- MODULE Subint --------------------------------
(***************************************************************************)
(* The data of one subintegration of one datastream, sample by sample:     *)
(* which bytes of the databuffer calculateControlParams sends and which    *)
(* blocks it flags, and which samples Mode::process then takes for each    *)
(* block.  The two sides agree only through the time the data is said to   *)
(* start at and the flags.                                                 *)
(*                                                                         *)
(* Times are in ns, and a sample of SampleNum/SampleDen ns is one byte.    *)
(* The databuffer is what the datastream holds locks on: the segment it is *)
(* at, which is not the last of the ring, and the next.                    *)
(***************************************************************************)
EXTENDS Integers, Sequences, FiniteSets

CONSTANTS
  SampleNum, SampleDen,   \* sampletimens
  Fft,                    \* the samples of a block
  Blocks,                 \* blockspersend
  FlagsPerInt,            \* FLAGS_PER_INT
  ReadBytes,              \* readbytes, the length of a segment
  GuardNS                 \* guardns

Min2(a, b) == IF a < b THEN a ELSE b
(* C's division and conversion to int: towards zero.                       *)
Quot(a, b) == IF a >= 0 THEN a \div b ELSE -((-a) \div b)
(* int(num/den + 0.5).                                                     *)
Rounded(num, den) == Quot(2 * num + den, 2 * den)

BlockNS == (Fft * SampleNum) \div SampleDen
SubintNS == Blocks * BlockNS
ASSUME ConfigurationChecked ==  \* consistencyCheck
  /\ {SampleNum, SampleDen, Fft, Blocks, FlagsPerInt, ReadBytes} \subseteq Nat \ {0}
  /\ (Fft * SampleNum) % SampleDen = 0
  /\ (ReadBytes * SampleNum) % SampleDen = 0
  /\ GuardNS >= SampleNum

SendBytes == (Blocks * Fft * (SubintNS + GuardNS)) \div SubintNS
NsInc == Rounded(ReadBytes * SampleNum, SampleDen)
(* The fewest bytes that last a whole number of ns.                        *)
BytesBetweenIntegerNS ==
  CHOOSE k \in 1 .. SampleDen :
    /\ (k * SampleNum) % SampleDen = 0
    /\ \A l \in 1 .. k - 1 : (l * SampleNum) % SampleDen # 0

(* What is asked for and what there is: valid bytes of the segment and of  *)
(* the next, the time from the start of the one to that of the other, the  *)
(* time of the subintegration from the start of the segment, and the delay *)
(* at the start and at the end of the subintegration.                      *)
First(q) == q.ask - q.delay1
Contiguous(q) == q.valid = ReadBytes /\ q.next = NsInc
Past(q) == q.next < 0

(* Bytes from the start of the segment to ns.                              *)
ToBytes(ns) == Rounded(ns * SampleDen, SampleNum)
Even(n) == n - (IF n % 2 = 0 THEN 0 ELSE 1)

(* The place calculateControlParams looks at first, the blocks it has to   *)
(* skip because they are before the segment, and whether the delay changes *)
(* so much in those that it has to skip another.                           *)
Wanted(q) == Even(ToBytes(First(q)))
Before(p) == IF p >= 0 THEN 0 ELSE Min2(Blocks, (-p + Fft - 1) \div Fft)
Change(q, n) == Rounded(n * (q.delay2 - q.delay1) * SampleDen, SampleNum * Blocks)
OneMore(q, p, n) == n > 0 /\ p + n * Fft - Change(q, n) < 0
Skip(q, p, n, more) ==
  LET skipped == IF more THEN n + 1 ELSE n
      at == p + skipped * Fft - (IF more THEN Change(q, skipped) ELSE 0)
  IN  [skipped |-> skipped, more |-> more, before |-> p + n * Fft < 0,
       at |-> IF n > 0 THEN at - (at % 2) ELSE at]
Seek(q, p, n) == Skip(q, p, n, OneMore(q, p, n))
Position(q) == Seek(q, Wanted(q), Before(Wanted(q)))

(* The byte sent first is one that is at a whole ns.                       *)
Start(position) == position.at - (position.at % BytesBetweenIntegerNS)
StartNS(start) == Rounded(start * SampleNum, SampleDen)

(* The exits taken before any block is looked at.                          *)
Hopeless(q, position) ==
  \/ First(q) < -NsInc
  \/ /\ q.valid < ReadBytes \/ Past(q)
     /\ \/ Past(q) /\ Quot(First(q) * SampleDen, SampleNum) > q.valid
        \/ First(q) * SampleDen < -Blocks * Fft * SampleNum
  \/ position.before
  \/ position.more /\ position.skipped = Blocks

AllOk(q, start) ==
  \/ q.valid - start >= SendBytes
  \/ Contiguous(q) /\ q.valid - start + q.nextvalid > SendBytes
FlagsAnyNext(q, start, skipped) ==       \* mutant: the next segment need not follow this one
  {i \in skipped .. Blocks - 1 :
     \/ AllOk(q, start)
     \/ start + i * Fft < q.valid
     \/ q.valid = ReadBytes /\ q.valid - start + q.nextvalid > i * Fft}
Flags(q, start, skipped) ==
  {i \in skipped .. Blocks - 1 :
     \/ AllOk(q, start)
     \/ start + i * Fft < q.valid
     \/ Contiguous(q) /\ q.valid - start + q.nextvalid > i * Fft}
(* Only the words of flags that are full are looked at.                    *)
SomeGoodData(q, start, flags) ==
  AllOk(q, start) \/ \E i \in flags : i < (Blocks \div FlagsPerInt) * FlagsPerInt

(* The control information a core gets with the data, and where that data  *)
(* begins.                                                                 *)
Invalid == [valid |-> FALSE, start |-> 0, flags |-> {}, time |-> 0, length |-> 1]
SendFrom(q, start, flags) ==
  IF SomeGoodData(q, start, flags)
  THEN [valid |-> TRUE, start |-> start, flags |-> flags, time |-> StartNS(start),
        length |-> SendBytes]
  ELSE Invalid
ControlAt(q, position) ==
  IF Hopeless(q, position) THEN Invalid
  ELSE SendFrom(q, Start(position), Flags(q, Start(position), position.skipped))
Control(q) == ControlAt(q, Position(q))
-----------------------------------------------------------------------------
(* Mode::process: the sample of the data sent at which block i starts.     *)
(* Times here are times 2*Blocks, for the delay at the centre of a block.  *)
Scaled == 2 * Blocks
Delay(q, i) == Scaled * q.delay1 + (q.delay2 - q.delay1) * (2 * i + 1)
StartTime(q, c, i) == Scaled * (q.ask - c.time + i * BlockNS) - Delay(q, i)
NearestSample(q, c, i) == Rounded(StartTime(q, c, i) * SampleDen, Scaled * SampleNum)
OutOfRange(q, c, i) ==
  NearestSample(q, c, i) < -1 \/ NearestSample(q, c, i) + Fft > c.length
Sample(q, c, i) == IF NearestSample(q, c, i) = -1 THEN 0 ELSE NearestSample(q, c, i)

(* The sample k of the data sent is sample start + k of the databuffer.    *)
(* Is it there, and when was it taken, in samples?                         *)
There(q, p) ==
  \/ p \in 0 .. q.valid - 1
  \/ p - ReadBytes \in 0 .. q.nextvalid - 1
TakenAt(q, p) ==
  IF p < ReadBytes THEN p * SampleNum
                   ELSE q.next * SampleDen + (p - ReadBytes) * SampleNum
(* Every sample of the block was read, and was taken when the Mode assumes *)
(* it was.                                                                 *)
Right(q, c, i) ==
  \A k \in Sample(q, c, i) .. Sample(q, c, i) + Fft - 1 :
    /\ There(q, c.start + k)
    /\ TakenAt(q, c.start + k) = c.time * SampleDen + k * SampleNum
=============================================================================
