--------------------------- MODULE FxManager_proof ---------------------------
(***************************************************************************)
(* Proofs about the ring of Visibilities of the FxManager, for every       *)
(* number of Cores, every ring of at least 4 Visibilities and every list   *)
(* of scans, with or without the race at start-up.                         *)
(***************************************************************************)
EXTENDS FxManager, Sums

(***************************************************************************)
(* Going round the ring.                                                   *)
(***************************************************************************)
(* Steps from slot a forward to slot b.                                    *)
Dist(a, b) == Wrap(b - a + VisLength)

LEMMA WrapOnce ==
  ASSUME NEW k \in Int, 0 <= k, k < 2 * VisLength
  PROVE  /\ Wrap(k) = IF k < VisLength THEN k ELSE k - VisLength
         /\ Wrap(k) \in VisSlots
<1> DEFINE q == k \div VisLength
<1>1. /\ k = VisLength * q + (k % VisLength)
      /\ q \in Int /\ k % VisLength \in 0 .. VisLength - 1
  BY VisAssumption
<1> HIDE DEF q
<1>2. CASE q <= -1
  BY <1>1, <1>2, VisAssumption
<1>3. CASE q >= 2
  BY <1>1, <1>3, VisAssumption
<1>4. CASE q = 0
  BY <1>1, <1>4, VisAssumption DEF Wrap, VisSlots
<1>5. CASE q = 1
  BY <1>1, <1>5, VisAssumption DEF Wrap, VisSlots
<1> QED
  BY <1>1, <1>2, <1>3, <1>4, <1>5

LEMMA SlotNumber ==
  ASSUME NEW s \in VisSlots
  PROVE  /\ s \in Int /\ 0 <= s /\ s < VisLength
         /\ VisLength \in Int /\ VisLength >= 4
BY VisAssumption DEF VisSlots

LEMMA DistCases ==
  ASSUME NEW a \in VisSlots, NEW b \in VisSlots
  PROVE  /\ a <= b => Dist(a, b) = b - a
         /\ b < a => Dist(a, b) = b - a + VisLength
         /\ Dist(a, b) \in VisSlots
<1>1. /\ a \in Int /\ 0 <= a /\ a < VisLength /\ VisLength \in Int
      /\ b \in Int /\ 0 <= b /\ b < VisLength
  BY SlotNumber
<1>2. /\ b - a + VisLength \in Int
      /\ 0 <= b - a + VisLength /\ b - a + VisLength < 2 * VisLength
  BY <1>1
<1>3. PICK k \in Int : k = b - a + VisLength
  BY <1>2
<1>4. /\ Dist(a, b) = IF k < VisLength THEN k ELSE k - VisLength
      /\ Dist(a, b) \in VisSlots
  <2>1. Dist(a, b) = Wrap(k)
    BY <1>3 DEF Dist
  <2>2. 0 <= k /\ k < 2 * VisLength
    BY <1>2, <1>3
  <2> QED
    BY <2>1, <2>2, WrapOnce
<1> QED
  BY <1>1, <1>3, <1>4

LEMMA WrapCases ==
  ASSUME NEW a \in VisSlots, NEW k \in Int, 0 <= k, k <= VisLength
  PROVE  /\ a + k < VisLength => Wrap(a + k) = a + k
         /\ VisLength <= a + k => Wrap(a + k) = a + k - VisLength
         /\ Wrap(a + k) \in VisSlots
<1>1. a \in Int /\ 0 <= a /\ a < VisLength /\ VisLength \in Int
  BY SlotNumber
<1>2. PICK n \in Int : n = a + k
  BY <1>1
<1>3. 0 <= n /\ n < 2 * VisLength
  BY <1>1, <1>2
<1>4. /\ Wrap(n) = IF n < VisLength THEN n ELSE n - VisLength
      /\ Wrap(n) \in VisSlots
  BY <1>3, WrapOnce
<1>5. Wrap(a + k) = Wrap(n)
  BY <1>2
<1> QED
  BY <1>1, <1>2, <1>4, <1>5

(***************************************************************************)
(* The loop that looks for the next locked Visibility.                     *)
(***************************************************************************)
(* With a locked slot n steps on, the loop stops at the first locked one.  *)
LEMMA StepsFound ==
  ASSUME NEW s \in VisSlots, NEW locked \in [VisSlots -> BOOLEAN],
         NEW n \in VisSlots, locked[Wrap(s + n)]
  PROVE  /\ Steps(s, locked) \in 0 .. n
         /\ locked[Wrap(s + Steps(s, locked))]
         /\ \A j \in 0 .. Steps(s, locked) - 1 : ~locked[Wrap(s + j)]
<1> DEFINE K == {k \in 0 .. VisLength - 1 : locked[Wrap(s + k)]}
<1>1. K \in SUBSET Nat /\ n \in K
  BY VisAssumption DEF VisSlots
<1>2. PICK m \in K : \A k \in K : m <= k
  <2> HIDE DEF K
  <2> QED
    BY <1>1, LeastOf
<1>3. \A j \in 0 .. m - 1 : ~locked[Wrap(s + j)]
  BY <1>1, <1>2, VisAssumption
<1>4. \E k \in 0 .. VisLength - 1 :
        locked[Wrap(s + k)] /\ \A j \in 0 .. k - 1 : ~locked[Wrap(s + j)]
  BY <1>2, <1>3
<1>5. /\ Steps(s, locked) \in 0 .. VisLength - 1
      /\ locked[Wrap(s + Steps(s, locked))]
      /\ \A j \in 0 .. Steps(s, locked) - 1 : ~locked[Wrap(s + j)]
  BY <1>4 DEF Steps
<1>6. Steps(s, locked) <= n
  BY <1>5, VisAssumption DEF VisSlots
<1> QED
  BY <1>5, <1>6, VisAssumption
(***************************************************************************)
(* The inductive invariant.  It says nothing of the time after             *)
(* StopWriting, when neither property has anything to say.                 *)
(***************************************************************************)
Ended == mpc \in {"unlockall", "join", "done"}

RingInv ==
  /\ oldest \in VisSlots /\ newest \in VisSlots /\ ws \in VisSlots
  /\ islocked \in [VisSlots -> BOOLEAN]
  /\ lock \in [VisSlots -> {Free, Main, Writer}]
  /\ keepwriting

(* The mutexes the write thread holds, by where it is.                     *)
WriterHolds(s) ==
  \/ wpc \in {"init", "signal", "check", "lock", "unlockprev"} /\ s = Previous
  \/ wpc \in {"unlockprev", "write", "increment"} /\ s = ws

WriterInv ==
  /\ wpc \in {"lockend", "init", "signal", "check", "lock", "unlockprev",
              "write", "increment"}
  /\ \A s \in VisSlots : WriterHolds(s) => lock[s] = Writer
  /\ initialised => wpc \notin {"lockend", "init"}

StartInv ==
  ~Started =>
    /\ oldest = 0 /\ newest = 1 /\ ws = 0
    /\ wpc \in {"lockend", "init", "signal", "check", "lock"}
    /\ \A s \in VisSlots : /\ islocked[s] <=> s \in {0, 1}
                           /\ lock[s] = Main => s \in {0, 1}
    /\ lock[0] = Main
    /\ mpc # "waiting" => lock[1] = Main

(* The Visibilities main has locked, and the one the write thread is at,   *)
(* relative to oldestlockedvis.                                            *)
WindowInv ==
  Started =>
    /\ initialised
    /\ \A s \in VisSlots : /\ islocked[s] <=> lock[s] = Main
                           /\ islocked[s] => Dist(oldest, s) <= Span
    /\ islocked[oldest] /\ islocked[newest]
    /\ ws = oldest \/ Dist(oldest, ws) > Span

(* There is room for the next Visibility wherever main locks one.          *)
RoomInv ==
  /\ Span <= VisLength - 2
  /\ mpc \in {"search", "extend", "catchup", "resend", "add", "locknext"} =>
       Span <= VisLength - 3
  /\ mpc = "catchup" => Span >= 1
  /\ mpc = "relock" => /\ count \in Nat /\ count >= 1
                       /\ Span + count <= VisLength - 3

(* What visindex is when it is used.                                       *)
InWindow(s) == s \in VisSlots /\ Dist(oldest, s) <= Span
PlaceInv ==
  /\ mpc = "resend" => visindex = -1 \/ InWindow(visindex)
  /\ mpc \in {"add", "locknext", "release"} => InWindow(visindex)
  /\ mpc = "locknext" => visindex = newest
  /\ mpc = "release" => visindex # newest

Inner ==
  RingInv /\ WriterInv /\ StartInv /\ WindowInv /\ RoomInv /\ PlaceInv
IInv == Ended \/ Inner

(***************************************************************************)
(* Moving round the ring.                                                  *)
(***************************************************************************)
LEMMA DistInverse ==
  ASSUME NEW a \in VisSlots, NEW b \in VisSlots
  PROVE  /\ Wrap(a + Dist(a, b)) = b
         /\ Dist(a, b) = 0 <=> a = b
<1> DEFINE d == Dist(a, b)
<1>1. /\ a \in Int /\ 0 <= a /\ a < VisLength /\ VisLength \in Int
      /\ b \in Int /\ 0 <= b /\ b < VisLength
      /\ d \in Int /\ 0 <= d /\ d < VisLength /\ d <= VisLength
  BY SlotNumber, DistCases
<1>2. /\ a <= b => d = b - a
      /\ b < a => d = b - a + VisLength
  BY DistCases
<1> HIDE DEF d
<1>3. /\ a + d < VisLength => Wrap(a + d) = a + d
      /\ VisLength <= a + d => Wrap(a + d) = a + d - VisLength
  BY <1>1, WrapCases
<1>4. Wrap(a + d) = b /\ (d = 0 <=> a = b)
  BY <1>1, <1>2, <1>3
<1> QED
  BY <1>4 DEF d

LEMMA DistAdvance ==
  ASSUME NEW a \in VisSlots, NEW b \in VisSlots, NEW k \in VisSlots
  PROVE  /\ k <= Dist(a, b) => Dist(Wrap(a + k), b) = Dist(a, b) - k
         /\ Dist(a, b) < k =>
              Dist(Wrap(a + k), b) = Dist(a, b) - k + VisLength
<1> DEFINE d == Dist(a, b)   c == Wrap(a + k)   e == Dist(c, b)
<1>1. /\ a \in Int /\ 0 <= a /\ a < VisLength /\ VisLength \in Int
      /\ b \in Int /\ 0 <= b /\ b < VisLength
      /\ k \in Int /\ 0 <= k /\ k < VisLength /\ k <= VisLength
  BY SlotNumber
<1>2. /\ a <= b => d = b - a
      /\ b < a => d = b - a + VisLength
  BY DistCases
<1>3. /\ a + k < VisLength => c = a + k
      /\ VisLength <= a + k => c = a + k - VisLength
      /\ c \in VisSlots
  BY <1>1, WrapCases
<1> HIDE DEF c
<1>4. /\ c <= b => e = b - c
      /\ b < c => e = b - c + VisLength
  BY <1>3, DistCases
<1> HIDE DEF d, e
<1>5. /\ k <= d => e = d - k
      /\ d < k => e = d - k + VisLength
  BY <1>1, <1>2, <1>3, <1>4
<1> QED
  BY <1>5 DEF c, d, e

LEMMA DistNext ==
  ASSUME NEW a \in VisSlots, NEW b \in VisSlots
  PROVE  /\ Wrap(b + 1) \in VisSlots
         /\ Dist(a, b) = VisLength - 1 => Wrap(b + 1) = a
         /\ Dist(a, b) < VisLength - 1 =>
              Dist(a, Wrap(b + 1)) = Dist(a, b) + 1
<1> DEFINE d == Dist(a, b)   c == Wrap(b + 1)   e == Dist(a, c)
<1>1. /\ a \in Int /\ 0 <= a /\ a < VisLength
      /\ VisLength \in Int /\ VisLength >= 4
      /\ b \in Int /\ 0 <= b /\ b < VisLength
  BY SlotNumber
<1>2. /\ a <= b => d = b - a
      /\ b < a => d = b - a + VisLength
  BY DistCases
<1>3. /\ b + 1 < VisLength => c = b + 1
      /\ VisLength <= b + 1 => c = b + 1 - VisLength
      /\ c \in VisSlots
  BY <1>1, WrapCases
<1> HIDE DEF c
<1>4. /\ a <= c => e = c - a
      /\ c < a => e = c - a + VisLength
  BY <1>3, DistCases
<1> HIDE DEF d, e
<1>5. /\ d = VisLength - 1 => c = a
      /\ d < VisLength - 1 => e = d + 1
  <2>1. c \in Int
    BY <1>3, SlotNumber
  <2> QED
    BY <2>1, <1>1, <1>2, <1>3, <1>4
<1> QED
  BY <1>3, <1>5 DEF c, d, e

LEMMA PreviousSlot ==
  ASSUME ws \in VisSlots
  PROVE  Previous \in VisSlots /\ Wrap(Previous + 1) = ws
<1>1. /\ ws \in Int /\ 0 <= ws /\ ws < VisLength
      /\ VisLength \in Int /\ VisLength >= 4
  BY SlotNumber
<1> DEFINE n == ws + VisLength - 1
<1>2. n \in Int /\ 0 <= n /\ n < 2 * VisLength
  BY <1>1
<1>3. Previous = Wrap(n)
  BY DEF Previous
<1> HIDE DEF n
<1>4. /\ Previous = IF n < VisLength THEN n ELSE n - VisLength
      /\ Previous \in VisSlots
  BY <1>2, <1>3, WrapOnce
<1>5. /\ Previous + 1 < VisLength => Wrap(Previous + 1) = Previous + 1
      /\ VisLength <= Previous + 1 =>
           Wrap(Previous + 1) = Previous + 1 - VisLength
  <2>1. 1 \in Int /\ 0 <= 1 /\ 1 <= VisLength
    BY <1>1
  <2> QED
    BY <1>4, <2>1, WrapCases
<1>6. Previous \in Int
  BY <1>4, SlotNumber
<1> QED
  BY <1>1, <1>4, <1>5, <1>6 DEF n

LEMMA SpanType ==
  ASSUME oldest \in VisSlots, newest \in VisSlots
  PROVE  Span = Dist(oldest, newest) /\ Span \in VisSlots
BY DistCases DEF Span, Dist

(* The write thread holds no mutex of a Visibility main may use.           *)
LEMMA NotTheWriters ==
  ASSUME Inner, Started, NEW s \in VisSlots, Dist(oldest, s) <= Span
  PROVE  ~WriterHolds(s)
<1>1. /\ oldest \in VisSlots /\ newest \in VisSlots /\ ws \in VisSlots
      /\ Previous \in VisSlots
      /\ Span = Dist(oldest, newest) /\ Span \in VisSlots
      /\ Dist(oldest, s) \in VisSlots /\ Dist(oldest, ws) \in VisSlots
      /\ Dist(oldest, Previous) \in VisSlots
  BY SpanType, PreviousSlot, DistCases DEF Inner, RingInv
<1>2. /\ lock[oldest] = Main /\ lock[newest] = Main
      /\ ws = oldest \/ Dist(oldest, ws) > Span
  BY <1>1 DEF Inner, WindowInv
<1>3. ASSUME s = ws, WriterHolds(s) PROVE FALSE
  <2>1. ws = oldest
    BY <1>1, <1>2, <1>3, VisAssumption DEF VisSlots
  <2> QED
    BY <2>1, <1>2, <1>3 DEF Inner, WriterInv, Main, Writer
<1>4. ASSUME s = Previous, WriterHolds(s) PROVE FALSE
  <2>1. lock[Previous] = Writer
    BY <1>1, <1>4 DEF Inner, WriterInv
  <2>2. Previous # newest /\ Previous # oldest
    BY <2>1, <1>2 DEF Main, Writer
  <2>3. /\ Dist(oldest, Previous) = VisLength - 1 => ws = oldest
        /\ Dist(oldest, Previous) < VisLength - 1 =>
             Dist(oldest, ws) = Dist(oldest, Previous) + 1
    BY <1>1, DistNext, PreviousSlot
  <2>a. /\ Span \in Int /\ Span <= VisLength - 2 /\ VisLength \in Int
        /\ Dist(oldest, s) <= Span
        /\ Dist(oldest, Previous) \in Int
        /\ 0 <= Dist(oldest, Previous) /\ Dist(oldest, Previous) < VisLength
    BY <1>1, SlotNumber DEF Inner, RoomInv
  <2>4. CASE ws = oldest
    <3>1. Dist(oldest, ws) = 0
      BY <1>1, <2>4, DistInverse
    <3>2. Dist(oldest, Previous) = VisLength - 1
      BY <2>3, <2>a, <3>1
    <3> QED
      BY <3>2, <2>a, <1>4
  <2>5. CASE ws # oldest
    <3>1. Dist(oldest, Previous) = Span
      <4>1. Dist(oldest, ws) = Dist(oldest, Previous) + 1
        BY <2>3, <2>5, <2>a
      <4> QED
        BY <4>1, <2>5, <2>a, <1>2, <1>4
    <3>2. Previous = newest
      BY <3>1, <1>1, DistInverse
    <3> QED
      BY <3>2, <2>2
  <2> QED
    BY <2>4, <2>5
<1> QED
  BY <1>3, <1>4 DEF WriterHolds

(***************************************************************************)
(* The operations on the ring.                                             *)
(***************************************************************************)
(* LockNewest makes the window one Visibility longer.                      *)
LEMMA NewestAdvances ==
  ASSUME Inner, Started, Started', Span <= VisLength - 3, LockNewest,
         UNCHANGED <<oldest, keepwriting, initialised, wpc, ws>>
  PROVE  /\ RingInv' /\ WriterInv' /\ StartInv' /\ WindowInv'
         /\ newest' # newest
         /\ Span' = Span + 1
         /\ \A s \in VisSlots :
              Dist(oldest, s) <= Span => Dist(oldest, s)' <= Span'
         /\ Dist(oldest, newest)' <= Span'
<1>1. /\ oldest \in VisSlots /\ newest \in VisSlots /\ ws \in VisSlots
      /\ Previous \in VisSlots
      /\ Span = Dist(oldest, newest) /\ Span \in VisSlots
  BY SpanType, PreviousSlot DEF Inner, RingInv
<1>2. /\ newest' \in VisSlots /\ newest' = Wrap(newest + 1)
      /\ Dist(oldest, newest') = Span + 1
      /\ lock[newest'] = Free
      /\ lock' = [lock EXCEPT ![newest'] = Main]
      /\ islocked' = [islocked EXCEPT ![newest'] = TRUE]
  BY <1>1, DistNext, VisAssumption DEF LockNewest, Acquire, VisSlots
<1>3. Span' = Dist(oldest, newest')
  BY <1>1, <1>2 DEF Span, Dist, Wrap
<1>4. RingInv'
  BY <1>1, <1>2 DEF Inner, RingInv
<1>5. WriterInv'
  <2>1. ASSUME NEW s \in VisSlots, WriterHolds(s) PROVE lock'[s] = Writer
    BY <2>1, <1>2 DEF Inner, RingInv, WriterInv, Free, Writer
  <2> QED
    BY <2>1 DEF Inner, WriterInv, WriterHolds, Previous, Wrap
<1>6. lock[newest] = Main /\ lock[oldest] = Main
  BY <1>1 DEF Inner, WindowInv
<1>7. ws # newest'
  <2> SUFFICES ASSUME ws = newest' PROVE FALSE
    OBVIOUS
  <2>1. Previous = newest
    BY <1>1, <1>2, PreviousSlot, WrapCases, VisAssumption DEF VisSlots
  <2>2. ~WriterHolds(newest) /\ ~WriterHolds(ws)
    BY <1>1, <1>2, <1>6 DEF Inner, WriterInv, Main, Writer, Free
  <2>3. wpc = "lockend"
    BY <2>1, <2>2 DEF Inner, WriterInv, WriterHolds
  <2> QED
    BY <2>3 DEF Inner, WriterInv, WindowInv
<1>8. /\ Dist(oldest, ws) \in VisSlots
      /\ ws = oldest \/ Dist(oldest, ws) > Span + 1
  <2>1. Dist(oldest, ws) \in VisSlots
    BY <1>1, DistCases
  <2>2. Dist(oldest, ws) # Span + 1
    BY <1>1, <1>2, <1>7, DistInverse
  <2> QED
    BY <2>1, <2>2, <1>1, VisAssumption DEF VisSlots, Inner, WindowInv
<1>9. \A s \in VisSlots : /\ Dist(oldest, s) \in VisSlots
                          /\ Dist(oldest, s)' = Dist(oldest, s)
  BY <1>1, DistCases DEF Dist, Wrap
<1>10. WindowInv'
  <2>1. initialised'
    BY DEF Inner, WindowInv
  <2>2. ASSUME NEW s \in VisSlots
        PROVE  /\ islocked'[s] <=> lock'[s] = Main
               /\ islocked'[s] => Dist(oldest, s) <= Span + 1
    <3>1. CASE s = newest'
      BY <3>1, <1>1, <1>2, VisAssumption DEF Inner, RingInv, VisSlots
    <3>2. CASE s # newest'
      <4>1. islocked'[s] = islocked[s] /\ lock'[s] = lock[s]
        BY <3>2, <1>2 DEF Inner, RingInv
      <4> QED
        BY <4>1, <1>1, <1>9, VisAssumption DEF Inner, WindowInv, VisSlots
    <3> QED
      BY <3>1, <3>2
  <2>3. islocked'[oldest] /\ islocked'[newest']
    BY <1>1, <1>2 DEF Inner, RingInv, WindowInv
  <2> QED
    BY <2>1, <2>2, <2>3, <1>2, <1>3, <1>8, <1>9, <1>1 DEF WindowInv
<1>11. newest' # newest
  BY <1>1, <1>2, VisAssumption DEF VisSlots
<1>12. StartInv'
  BY DEF StartInv
<1> QED
  BY <1>1, <1>2, <1>3, <1>4, <1>5, <1>9, <1>10, <1>11, <1>12, VisAssumption
  DEF VisSlots

(* The first conjuncts of GiveUpOldest and of ReleaseVis with oldest =     *)
(* visindex: the window starts at the next locked Visibility.              *)
LEMMA OldestAdvances ==
  ASSUME Inner, Started, Started', Span >= 1, Release(oldest),
         islocked' = [islocked EXCEPT ![oldest] = FALSE],
         oldest' = Wrap(oldest + Steps(oldest, islocked')),
         UNCHANGED <<newest, keepwriting, initialised, wpc, ws>>
  PROVE  /\ RingInv' /\ WriterInv' /\ StartInv' /\ WindowInv'
         /\ Steps(oldest, islocked') \in 1 .. Span
         /\ Span' = Span - Steps(oldest, islocked')
<1> DEFINE k == Steps(oldest, islocked')
<1>1. /\ oldest \in VisSlots /\ newest \in VisSlots /\ ws \in VisSlots
      /\ Span = Dist(oldest, newest) /\ Span \in VisSlots
      /\ islocked \in [VisSlots -> BOOLEAN]
      /\ islocked' \in [VisSlots -> BOOLEAN]
      /\ lock' = [lock EXCEPT ![oldest] = Free]
  BY SpanType DEF Inner, RingInv, Release
<1>2. newest # oldest
  BY <1>1, DistInverse, VisAssumption DEF VisSlots
<1>3. islocked'[newest] /\ ~islocked'[oldest]
  BY <1>1, <1>2 DEF Inner, WindowInv
<1>4. Wrap(oldest + Span) = newest
  BY <1>1, DistInverse
<1>5. /\ k \in 0 .. Span /\ islocked'[Wrap(oldest + k)]
      /\ \A j \in 0 .. k - 1 : ~islocked'[Wrap(oldest + j)]
  <2>1. oldest \in VisSlots /\ Span \in VisSlots
    BY <1>1
  <2>2. islocked' \in [VisSlots -> BOOLEAN] /\ islocked'[Wrap(oldest + Span)]
    BY <1>1, <1>3, <1>4
  <2> HIDE DEF k
  <2>3. /\ Steps(oldest, islocked') \in 0 .. Span
        /\ islocked'[Wrap(oldest + Steps(oldest, islocked'))]
        /\ \A j \in 0 .. Steps(oldest, islocked') - 1 :
             ~islocked'[Wrap(oldest + j)]
    BY <2>1, <2>2, StepsFound
  <2> QED
    BY <2>3 DEF k
<1> HIDE DEF k
<1>6. k # 0
  <2>1. Wrap(oldest + 0) = oldest
    <3>1. /\ oldest \in Int /\ 0 <= oldest /\ oldest < VisLength
          /\ oldest + 0 = oldest /\ VisLength \in Int
      BY <1>1, VisAssumption DEF VisSlots
    <3>2. oldest < 2 * VisLength
      BY <3>1
    <3> QED
      BY <3>1, <3>2, WrapOnce
  <2> QED
    BY <2>1, <1>3, <1>5
<1>7. k \in 1 .. Span /\ k \in VisSlots
  BY <1>1, <1>5, <1>6, VisAssumption DEF VisSlots
<1>n. /\ k \in Int /\ 1 <= k /\ k <= Span
      /\ Span \in Int /\ VisLength \in Int /\ Span < VisLength
  BY <1>1, <1>7, VisAssumption DEF VisSlots
<1>8. /\ oldest' = Wrap(oldest + k)
      /\ oldest' \in VisSlots
  BY <1>1, <1>7, WrapCases, VisAssumption DEF k, VisSlots
<1>9. ASSUME NEW s \in VisSlots
      PROVE  /\ Dist(oldest, s) \in Int /\ 0 <= Dist(oldest, s)
             /\ k <= Dist(oldest, s) => Dist(oldest', s) = Dist(oldest, s) - k
             /\ Dist(oldest, s) < k =>
                  Dist(oldest', s) = Dist(oldest, s) - k + VisLength
  <2>1. Dist(oldest, s) \in Int /\ 0 <= Dist(oldest, s)
    <3>1. Dist(oldest, s) \in VisSlots
      BY <1>1, DistCases
    <3> QED
      BY <3>1, VisAssumption DEF VisSlots
  <2>2. /\ k <= Dist(oldest, s) =>
             Dist(Wrap(oldest + k), s) = Dist(oldest, s) - k
        /\ Dist(oldest, s) < k =>
             Dist(Wrap(oldest + k), s) = Dist(oldest, s) - k + VisLength
    BY <1>1, <1>7, DistAdvance
  <2> QED
    BY <2>1, <2>2, <1>8, Zenon
<1>10. Span' = Dist(oldest', newest) /\ Span' = Span - k
  <2>1. Span' = Dist(oldest', newest)
    BY DEF Span, Dist, Wrap
  <2> QED
    BY <2>1, <1>1, <1>n, <1>9
<1>11. RingInv'
  BY <1>1, <1>8 DEF Inner, RingInv
<1>12. WriterInv'
  <2>1. lock[oldest] = Main
    BY <1>1 DEF Inner, WindowInv
  <2>2. ASSUME NEW s \in VisSlots, WriterHolds(s) PROVE lock'[s] = Writer
    BY <2>1, <2>2, <1>1 DEF Inner, RingInv, WriterInv, Main, Writer
  <2> QED
    BY <2>2 DEF Inner, WriterInv, WriterHolds, Previous, Wrap
<1>13. ASSUME NEW s \in VisSlots
       PROVE  /\ islocked'[s] <=> lock'[s] = Main
              /\ islocked'[s] => Dist(oldest', s) <= Span - k
  <2>1. islocked'[s] <=> lock'[s] = Main
    <3>1. CASE s = oldest
      BY <3>1, <1>1, <1>3 DEF Inner, RingInv, Main, Free
    <3>2. CASE s # oldest
      BY <3>2, <1>1 DEF Inner, RingInv, WindowInv
    <3> QED
      BY <3>1, <3>2
  <2>2. ASSUME islocked'[s] PROVE Dist(oldest', s) <= Span - k
    <3>1. islocked[s] /\ Dist(oldest, s) <= Span
      BY <2>2, <1>1 DEF Inner, WindowInv
    <3>2. k <= Dist(oldest, s)
      <4>1. Wrap(oldest + Dist(oldest, s)) = s
        BY <1>1, DistInverse
      <4>2. Dist(oldest, s) \notin 0 .. k - 1
        BY <4>1, <2>2, <1>5
      <4> QED
        BY <4>2, <1>n, <1>9
    <3>3. Dist(oldest', s) = Dist(oldest, s) - k /\ Dist(oldest, s) \in Int
      BY <3>2, <1>9
    <3> QED
      BY <3>1, <3>3, <1>n
  <2> QED
    BY <2>1, <2>2
<1>14. ws = oldest' \/ Dist(oldest', ws) > Span - k
  <2> DEFINE d == Dist(oldest, ws)   e == Dist(oldest', ws)
  <2>1. /\ d \in Int /\ 0 <= d
        /\ k <= d => e = d - k
        /\ d < k => e = d - k + VisLength
    BY <1>1, <1>9
  <2>2. d = 0 \/ d > Span
    BY <1>1, DistInverse DEF Inner, WindowInv
  <2> HIDE DEF d, e
  <2>3. e > Span - k
    BY <2>1, <2>2, <1>n
  <2> QED
    BY <2>3 DEF e
<1>15. WindowInv'
  <2>1. \A s \in VisSlots : Dist(oldest, s)' = Dist(oldest', s)
    BY DEF Dist, Wrap
  <2>2. initialised'
    BY DEF Inner, WindowInv
  <2>3. Dist(oldest, ws)' = Dist(oldest', ws)
    BY DEF Dist, Wrap
  <2> QED
    BY <2>1, <2>2, <2>3, <1>3, <1>5, <1>8, <1>10, <1>13, <1>14 DEF WindowInv
<1>16. StartInv'
  BY DEF StartInv
<1> QED
  BY <1>7, <1>10, <1>11, <1>12, <1>15, <1>16 DEF k
(* A step that touches neither mutexes nor indices.                        *)
LEMMA RingStays ==
  ASSUME Inner, Started, Started',
         UNCHANGED <<ringVars, keepwriting, initialised, wpc, ws>>
  PROVE  /\ RingInv' /\ WriterInv' /\ StartInv' /\ WindowInv'
         /\ Span' = Span
         /\ \A s \in VisSlots : Dist(oldest, s)' = Dist(oldest, s)
<1>1. /\ Span' = Span
      /\ \A s \in VisSlots : Dist(oldest, s)' = Dist(oldest, s)
      /\ Dist(oldest, ws)' = Dist(oldest, ws)
  BY DEF ringVars, Span, Dist, Wrap
<1>2. RingInv' /\ StartInv'
  BY DEF ringVars, Inner, RingInv, StartInv
<1>3. WriterInv'
  BY DEF ringVars, Inner, WriterInv, WriterHolds, Previous, Wrap
<1>4. WindowInv'
  BY <1>1 DEF ringVars, Inner, WindowInv
<1> QED
  BY <1>1, <1>2, <1>3, <1>4

LEMMA SpanNumber ==
  ASSUME Inner
  PROVE  /\ Span \in Int /\ 0 <= Span /\ Span <= VisLength - 2
         /\ VisLength \in Int /\ VisLength >= 4
BY SpanType, SlotNumber DEF Inner, RingInv, RoomInv

(***************************************************************************)
(* The steps of the main thread.                                           *)
(***************************************************************************)
LEMMA InitInv == Init => IInv
<1> SUFFICES ASSUME Init PROVE Inner
  BY DEF IInv
<1>1. 0 \in VisSlots /\ 1 \in VisSlots /\ VisLength \in Int /\ VisLength >= 4
  BY VisAssumption DEF VisSlots
<1>2. RingInv
  BY <1>1 DEF Init, RingInv, Free, Main, Writer
<1>3. WriterInv
  BY DEF Init, WriterInv, WriterHolds
<1>4. ~Started /\ StartInv
  BY <1>1 DEF Init, Started, StartInv, Free, Main
<1>5. Span = 1
  <2>1. Dist(0, 1) = 1 - 0
    BY <1>1, DistCases
  <2> QED
    BY <2>1, <1>1, SpanType DEF Init
<1>6. RoomInv /\ PlaceInv
  BY <1>1, <1>5 DEF Init, RoomInv, PlaceInv
<1> QED
  BY <1>2, <1>3, <1>4, <1>6 DEF Inner, WindowInv

(* The constructor, until the write thread is there.                       *)
LEMMA StartUp ==
  ASSUME Inner, TestInitialised \/ CondWait \/ CondWake
  PROVE  Inner'
<1>1. /\ mpc \in {"testinit", "condwait", "waiting"} /\ ~Started
      /\ UNCHANGED <<oldest, newest, islocked, wpc, ws, initialised,
                     keepwriting>>
  BY DEF TestInitialised, CondWait, CondWake, Started, ringVars, writerVars
<1>2. 0 \in VisSlots /\ 1 \in VisSlots /\ VisLength \in Int /\ VisLength >= 4
  BY VisAssumption DEF VisSlots
<1>3. /\ oldest = 0 /\ newest = 1 /\ ws = 0
      /\ \A s \in VisSlots : /\ islocked[s] <=> s \in {0, 1}
                             /\ lock[s] = Main => s \in {0, 1}
      /\ lock[0] = Main
      /\ lock \in [VisSlots -> {Free, Main, Writer}]
      /\ wpc \in {"lockend", "init", "signal", "check", "lock"}
  BY <1>1 DEF Inner, StartInv, RingInv
<1>4. /\ lock' \in [VisSlots -> {Free, Main, Writer}]
      /\ \A s \in VisSlots : s # 1 => lock'[s] = lock[s]
      /\ mpc' # "waiting" => lock'[1] = Main
      /\ mpc' \in {"testinit", "condwait", "waiting", "loop"}
      /\ mpc' = "loop" => initialised
  <2>1. CASE TestInitialised
    BY <2>1, <1>1, <1>3 DEF TestInitialised, ringVars, Inner, StartInv
  <2>2. CASE CondWait
    BY <2>2, <1>2, <1>3 DEF CondWait, Release, Free
  <2>3. CASE CondWake
    BY <2>3, <1>2, <1>3 DEF CondWake, Acquire, Main
  <2> QED
    BY <2>1, <2>2, <2>3
<1>5. RingInv'
  BY <1>1, <1>4 DEF Inner, RingInv
<1>6. WriterInv'
  <2>1. WriterHolds(1) => FALSE
    <3>1. Wrap(Previous + 1) = 0 /\ Previous \in VisSlots
      BY <1>2, <1>3, PreviousSlot
    <3>2. Wrap(1 + 1) = 2
      <4>1. 1 + 1 < VisLength /\ 0 <= 1 /\ 1 <= VisLength /\ 1 \in Int
        BY <1>2
      <4> QED
        BY <4>1, <1>2, WrapCases
    <3> QED
      BY <3>1, <3>2, <1>3 DEF WriterHolds
  <2>2. \A s \in VisSlots : WriterHolds(s) => lock'[s] = Writer
    BY <2>1, <1>4 DEF Inner, WriterInv
  <2> QED
    BY <2>2, <1>1 DEF Inner, WriterInv, WriterHolds, Previous, Wrap
<1>7. Span = 1 /\ Dist(0, 0) = 0 /\ Dist(0, 1) = 1
  <2>1. Dist(0, 1) = 1 - 0 /\ Dist(0, 0) = 0 - 0
    BY <1>2, DistCases
  <2> QED
    BY <2>1, <1>2, <1>3, SpanType
<1>8. Span' = 1
  BY <1>1, <1>7 DEF Span, Wrap
<1>9. CASE mpc' = "loop"
  <2>1. Started' /\ StartInv'
    BY <1>9 DEF Started, StartInv
  <2>2. \A s \in VisSlots : /\ islocked'[s] <=> lock'[s] = Main
                            /\ islocked'[s] => Dist(0, s) <= 1
    BY <1>1, <1>2, <1>3, <1>4, <1>7, <1>9
  <2>3. \A s \in VisSlots : Dist(oldest, s)' = Dist(0, s)
    BY <1>1, <1>3 DEF Dist, Wrap
  <2>4. WindowInv'
    BY <2>2, <2>3, <1>1, <1>2, <1>3, <1>4, <1>8, <1>9 DEF WindowInv
  <2> QED
    BY <2>1, <2>4, <1>2, <1>5, <1>6, <1>8, <1>9 DEF Inner, RoomInv, PlaceInv
<1>10. CASE mpc' # "loop"
  <2>1. ~Started' /\ WindowInv'
    BY <1>4, <1>10 DEF Started, WindowInv
  <2>2. StartInv'
    BY <1>1, <1>2, <1>3, <1>4 DEF StartInv
  <2> QED
    BY <2>1, <2>2, <1>2, <1>4, <1>5, <1>6, <1>8, <1>10
    DEF Inner, RoomInv, PlaceInv
<1> QED
  BY <1>9, <1>10

(* The loops of execute, and adding a result.                              *)
LEMMA LoopSteps ==
  ASSUME Inner,
         SendFill \/ StopSending \/ (\E c \in Cores : Receive(c))
  PROVE  Inner'
<1>1. /\ mpc = "loop" /\ mpc' \in {"loop", "locate"}
      /\ UNCHANGED <<ringVars, keepwriting, initialised, wpc, ws>>
  BY DEF SendFill, StopSending, Receive, writerVars
<1>2. Started /\ Started'
  BY <1>1 DEF Started
<1> QED
  BY <1>1, <1>2, RingStays DEF Inner, RoomInv, PlaceInv

LEMMA LocateStep == ASSUME Inner, Locate PROVE Inner'
<1>1. /\ mpc = "locate" /\ mpc' = "search" /\ Started /\ Started'
      /\ UNCHANGED <<newest, keepwriting, initialised, wpc, ws>>
  BY DEF Locate, Started, writerVars
<1>2. /\ Span \in Int /\ 0 <= Span /\ Span <= VisLength - 2
      /\ VisLength \in Int /\ VisLength >= 4
  BY SpanNumber
<1>3. CASE Span >= VisLength - 3
  <2>1. GiveUpOldest /\ Span >= 1
    BY <1>2, <1>3 DEF Locate
  <2>2. /\ RingInv' /\ WriterInv' /\ StartInv' /\ WindowInv'
        /\ Steps(oldest, islocked') \in 1 .. Span
        /\ Span' = Span - Steps(oldest, islocked')
    BY <2>1, <1>1, OldestAdvances DEF GiveUpOldest
  <2>3. Span' <= VisLength - 3
    BY <2>2, <1>2
  <2> QED
    BY <2>2, <2>3, <1>1, <1>2 DEF Inner, RoomInv, PlaceInv
<1>4. CASE ~(Span >= VisLength - 3)
  <2>1. UNCHANGED ringVars
    BY <1>1, <1>4 DEF Locate, ringVars
  <2>2. Span' = Span /\ Span' <= VisLength - 3
    BY <2>1, <1>1, <1>2, <1>4, RingStays
  <2> QED
    BY <2>1, <2>2, <1>1, <1>2, RingStays DEF Inner, RoomInv, PlaceInv
<1> QED
  BY <1>3, <1>4

LEMMA SearchSteps ==
  ASSUME Inner, SearchFound \/ SearchStale \/ SearchNewer
  PROVE  Inner'
<1>1. /\ mpc = "search" /\ mpc' \in {"resend", "extend"} /\ Started /\ Started'
      /\ UNCHANGED <<ringVars, keepwriting, initialised, wpc, ws>>
  BY DEF SearchFound, SearchStale, SearchNewer, Started, writerVars
<1>2. /\ Span \in Int /\ 0 <= Span /\ Span <= VisLength - 2
      /\ VisLength \in Int /\ VisLength >= 4
      /\ Span <= VisLength - 3
  BY <1>1, SpanNumber DEF Inner, RoomInv
<1>3. mpc' = "resend" => visindex' = -1 \/ InWindow(visindex')
  <2>1. CASE SearchFound
    <3>1. PICK k \in 0 .. Span : visindex' = Wrap(oldest + k)
      BY <2>1 DEF SearchFound, Matches
    <3>2. k \in VisSlots /\ k \in Int /\ 0 <= k /\ k <= VisLength /\ k <= Span
      BY <1>2 DEF VisSlots
    <3>3. oldest \in VisSlots
      BY DEF Inner, RingInv
    <3>4. visindex' \in VisSlots
      BY <3>1, <3>2, <3>3, WrapCases
    <3>5. Dist(oldest, visindex') = k
      <4> DEFINE b == Wrap(oldest + k)
      <4>1. /\ oldest \in Int /\ 0 <= oldest /\ oldest < VisLength
            /\ k < VisLength
        BY <3>2, <3>3, SlotNumber
      <4>2. /\ oldest + k < VisLength => b = oldest + k
            /\ VisLength <= oldest + k => b = oldest + k - VisLength
            /\ b \in VisSlots
        BY <3>2, <3>3, WrapCases
      <4>3. /\ oldest <= b => Dist(oldest, b) = b - oldest
            /\ b < oldest => Dist(oldest, b) = b - oldest + VisLength
        BY <3>3, <4>2, DistCases
      <4> HIDE DEF b
      <4>4. Dist(oldest, b) = k
        BY <4>1, <4>2, <4>3, <3>2, <1>2
      <4> QED
        BY <4>4, <3>1 DEF b
    <3> QED
      BY <3>2, <3>4, <3>5 DEF InWindow
  <2>2. CASE SearchStale
    BY <2>2 DEF SearchStale
  <2>3. CASE SearchNewer
    BY <2>3 DEF SearchNewer
  <2> QED
    BY <2>1, <2>2, <2>3
<1>4. InWindow(visindex') => InWindow(visindex)'
  BY <1>1 DEF InWindow, Dist, Span, Wrap, ringVars
<1> QED
  BY <1>1, <1>2, <1>3, <1>4, RingStays DEF Inner, RoomInv, PlaceInv

LEMMA ExtendStep == ASSUME Inner, Extend PROVE Inner'
<1>1. /\ mpc = "extend" /\ Started
      /\ LockNewest
      /\ UNCHANGED <<oldest, keepwriting, initialised, wpc, ws>>
      /\ Span < VisLength - 3
      /\ \/ mpc' = "resend" /\ visindex' = newest'
         \/ mpc' = "extend"
  BY DEF Extend, Started, writerVars
<1>2. Started'
  BY <1>1 DEF Started
<1>3. /\ Span \in Int /\ 0 <= Span /\ Span <= VisLength - 2
      /\ VisLength \in Int /\ VisLength >= 4
  BY SpanNumber
<1>4. /\ RingInv' /\ WriterInv' /\ StartInv' /\ WindowInv'
      /\ Span' = Span + 1 /\ Dist(oldest, newest)' <= Span'
  <2>1. Span <= VisLength - 3
    BY <1>1, <1>3
  <2> QED
    BY <2>1, <1>1, <1>2, NewestAdvances
<1>5. RoomInv'
  BY <1>1, <1>3, <1>4 DEF RoomInv
<1>6. PlaceInv'
  BY <1>1, <1>4 DEF PlaceInv, InWindow, RingInv
<1> QED
  BY <1>4, <1>5, <1>6 DEF Inner

LEMMA CatchUpSteps ==
  ASSUME Inner, ExtendFull \/ CatchUp \/ CaughtUp
  PROVE  Inner'
<1>1. /\ Span \in Int /\ 0 <= Span /\ Span <= VisLength - 2
      /\ VisLength \in Int /\ VisLength >= 4
  BY SpanNumber
<1>2. CASE ExtendFull
  <2>1. /\ mpc = "extend" /\ mpc' = "catchup" /\ Started /\ Started'
        /\ UNCHANGED <<ringVars, keepwriting, initialised, wpc, ws>>
        /\ Span >= VisLength - 3
    BY <1>2 DEF ExtendFull, Started, writerVars
  <2>2. Span' = Span /\ Span' <= VisLength - 3 /\ Span' >= 1
    BY <2>1, <1>1, RingStays DEF Inner, RoomInv
  <2> QED
    BY <2>1, <2>2, <1>1, RingStays DEF Inner, RoomInv, PlaceInv
<1>3. CASE CatchUp
  <2>1. /\ mpc = "catchup" /\ mpc' = "relock" /\ Started /\ Started'
        /\ GiveUpOldest /\ count' = Steps(oldest, islocked')
        /\ UNCHANGED <<newest, keepwriting, initialised, wpc, ws>>
    BY <1>3 DEF CatchUp, Started, writerVars
  <2>2. Span >= 1 /\ Span <= VisLength - 3
    BY <2>1 DEF Inner, RoomInv
  <2>3. /\ RingInv' /\ WriterInv' /\ StartInv' /\ WindowInv'
        /\ count' \in 1 .. Span /\ Span' = Span - count'
    BY <2>1, <2>2, OldestAdvances DEF GiveUpOldest
  <2>4. RoomInv'
    BY <2>1, <2>2, <2>3, <1>1 DEF RoomInv
  <2> QED
    BY <2>1, <2>3, <2>4 DEF Inner, PlaceInv
<1>4. CASE CaughtUp
  <2>1. /\ mpc = "catchup" /\ mpc' = "resend" /\ Started /\ Started'
        /\ UNCHANGED <<ringVars, keepwriting, initialised, wpc, ws>>
        /\ visindex' = newest
    BY <1>4 DEF CaughtUp, Started, writerVars
  <2>2. /\ newest \in VisSlots /\ oldest \in VisSlots
        /\ Dist(oldest, newest) = Span /\ newest' = newest
    BY <2>1, SpanType DEF Inner, RingInv, ringVars
  <2>3. InWindow(visindex)'
    <3>1. Dist(oldest, visindex)' = Dist(oldest, newest)
      BY <2>1 DEF Dist, Wrap, ringVars
    <3> QED
      BY <3>1, <2>1, <2>2, <1>1, RingStays DEF InWindow
  <2>4. Span' = Span /\ Span <= VisLength - 3
    BY <2>1, RingStays DEF Inner, RoomInv
  <2> QED
    BY <2>1, <2>3, <2>4, <1>1, RingStays DEF Inner, RoomInv, PlaceInv
<1> QED
  BY <1>2, <1>3, <1>4

LEMMA RelockStep == ASSUME Inner, Relock PROVE Inner'
<1>1. /\ mpc = "relock" /\ Started
      /\ LockNewest
      /\ UNCHANGED <<oldest, keepwriting, initialised, wpc, ws>>
      /\ count' = 0 \/ count' = count - 1
      /\ mpc' = IF count' = 0 THEN "catchup" ELSE "relock"
  BY DEF Relock, Started, writerVars
<1>2. Started'
  BY <1>1 DEF Started
<1>3. /\ Span \in Int /\ 0 <= Span /\ VisLength \in Int
      /\ count \in Nat /\ count >= 1 /\ Span + count <= VisLength - 3
  BY <1>1, SpanNumber DEF Inner, RoomInv
<1>4. /\ RingInv' /\ WriterInv' /\ StartInv' /\ WindowInv'
      /\ Span' = Span + 1
  <2>1. Span <= VisLength - 3
    BY <1>3
  <2> QED
    BY <2>1, <1>1, <1>2, NewestAdvances
<1>5. RoomInv'
  BY <1>1, <1>3, <1>4 DEF RoomInv
<1> QED
  BY <1>1, <1>4, <1>5 DEF Inner, PlaceInv

LEMMA StoreSteps ==
  ASSUME Inner, Resend \/ AddData
  PROVE  Inner'
<1>1. /\ mpc \in {"resend", "add"}
      /\ mpc' \in {"loop", "add", "locknext", "release"}
      /\ Started /\ Started'
      /\ UNCHANGED <<ringVars, keepwriting, initialised, wpc, ws, visindex>>
      /\ mpc = "resend" => mpc' \in {"loop", "add"}
      /\ mpc = "resend" /\ mpc' = "add" => visindex # -1
      /\ mpc = "add" => mpc' # "add"
      /\ mpc' = "locknext" => visindex = newest
      /\ mpc' = "release" => visindex # newest
  BY DEF Resend, AddData, Started, writerVars
<1>2. Span' = Span /\ Span <= VisLength - 3
  BY <1>1, RingStays DEF Inner, RoomInv
<1>3. mpc' # "loop" => InWindow(visindex)
  BY <1>1 DEF Inner, PlaceInv
<1>4. InWindow(visindex) => InWindow(visindex)'
  BY <1>1 DEF InWindow, Dist, Span, Wrap, ringVars
<1>5. newest' = newest
  BY <1>1 DEF ringVars
<1> QED
  BY <1>1, <1>2, <1>3, <1>4, <1>5, SpanNumber, RingStays
  DEF Inner, RoomInv, PlaceInv

LEMMA LockNextStep == ASSUME Inner, LockNext PROVE Inner'
<1>1. /\ mpc = "locknext" /\ mpc' = "release" /\ Started /\ Started'
      /\ LockNewest
      /\ UNCHANGED <<oldest, keepwriting, initialised, wpc, ws, visindex>>
      /\ InWindow(visindex) /\ visindex = newest
      /\ Span <= VisLength - 3
  BY DEF LockNext, Started, writerVars, Inner, PlaceInv, RoomInv
<1>2. /\ RingInv' /\ WriterInv' /\ StartInv' /\ WindowInv'
      /\ newest' # newest
      /\ Span' = Span + 1
      /\ Dist(oldest, visindex)' <= Span'
  <2>1. /\ RingInv' /\ WriterInv' /\ StartInv' /\ WindowInv'
        /\ newest' # newest /\ Span' = Span + 1
        /\ \A s \in VisSlots :
             Dist(oldest, s) <= Span => Dist(oldest, s)' <= Span'
    BY <1>1, NewestAdvances
  <2>2. Dist(oldest, visindex)' = Dist(oldest, newest)
    BY <1>1 DEF Dist, Wrap
  <2>3. newest \in VisSlots /\ Dist(oldest, newest) <= Span
    BY <1>1 DEF InWindow
  <2>4. Dist(oldest, newest) \in Int /\ Span \in Int
    BY <2>3, SpanNumber, SpanType DEF Inner, RingInv
  <2> QED
    BY <2>1, <2>2, <2>3, <2>4
<1>3. RoomInv' /\ PlaceInv'
  BY <1>1, <1>2, SpanNumber DEF RoomInv, PlaceInv, InWindow
<1> QED
  BY <1>2, <1>3 DEF Inner

LEMMA ReleaseStep == ASSUME Inner, ReleaseVis PROVE Inner'
<1>1. /\ mpc = "release" /\ mpc' = "loop" /\ Started /\ Started'
      /\ Release(visindex)
      /\ islocked' = [islocked EXCEPT ![visindex] = FALSE]
      /\ UNCHANGED <<newest, keepwriting, initialised, wpc, ws>>
      /\ visindex \in VisSlots /\ Dist(oldest, visindex) <= Span
      /\ visindex # newest
  BY DEF ReleaseVis, Started, writerVars, Inner, PlaceInv, InWindow
<1>2. /\ Span \in Int /\ 0 <= Span /\ Span <= VisLength - 2
      /\ VisLength \in Int /\ VisLength >= 4
  BY SpanNumber
<1>3. /\ oldest \in VisSlots /\ newest \in VisSlots
      /\ Span = Dist(oldest, newest)
  BY SpanType DEF Inner, RingInv
<1>4. CASE oldest = visindex
  <2>1. Span >= 1
    BY <1>1, <1>2, <1>3, <1>4, DistInverse
  <2>2. /\ Release(oldest)
        /\ islocked' = [islocked EXCEPT ![oldest] = FALSE]
        /\ oldest' = Wrap(oldest + Steps(oldest, islocked'))
    BY <1>1, <1>4 DEF ReleaseVis
  <2>3. /\ RingInv' /\ WriterInv' /\ StartInv' /\ WindowInv'
        /\ Steps(oldest, islocked') \in 1 .. Span
        /\ Span' = Span - Steps(oldest, islocked')
    BY <2>1, <2>2, <1>1, OldestAdvances
  <2>4. Span' <= VisLength - 2
    BY <2>3, <1>2
  <2> QED
    BY <2>3, <2>4, <1>1 DEF Inner, RoomInv, PlaceInv
<1>5. CASE oldest # visindex
  <2>1. /\ oldest' = oldest /\ lock' = [lock EXCEPT ![visindex] = Free]
    BY <1>5 DEF ReleaseVis, Release
  <2>2. ~WriterHolds(visindex)
    BY <1>1, NotTheWriters
  <2>3. /\ Span' = Span
        /\ \A s \in VisSlots : Dist(oldest, s)' = Dist(oldest, s)
        /\ Dist(oldest, ws)' = Dist(oldest, ws)
    BY <1>1, <2>1 DEF Span, Dist, Wrap
  <2>4. RingInv'
    BY <1>1, <2>1 DEF Inner, RingInv
  <2>5. WriterInv'
    <3>1. \A s \in VisSlots : WriterHolds(s) => lock'[s] = Writer
      BY <2>1, <2>2 DEF Inner, RingInv, WriterInv
    <3> QED
      BY <3>1, <1>1 DEF Inner, WriterInv, WriterHolds, Previous, Wrap
  <2>6. WindowInv'
    <3>1. \A s \in VisSlots : /\ islocked'[s] <=> lock'[s] = Main
                              /\ islocked'[s] => Dist(oldest, s) <= Span
      BY <1>1, <2>1 DEF Inner, RingInv, WindowInv, Free, Main
    <3>2. islocked'[oldest] /\ islocked'[newest]
      BY <1>1, <1>3, <1>5 DEF Inner, RingInv, WindowInv
    <3> QED
      BY <3>1, <3>2, <1>1, <2>1, <2>3 DEF Inner, WindowInv
  <2> QED
    BY <1>1, <1>2, <2>3, <2>4, <2>5, <2>6
    DEF Inner, StartInv, RoomInv, PlaceInv
<1> QED
  BY <1>4, <1>5

(* The end, about which the invariant says nothing.                        *)
LEMMA EndSteps ==
  ASSUME IInv, StopWriting \/ UnlockAll \/ Join \/ Finished
  PROVE  Ended'
BY DEF StopWriting, UnlockAll, Join, Finished, vars, Ended

LEMMA MainKeepsEnd == ASSUME Ended, Next PROVE Ended'
<1>1. ASSUME WriterStep \/ SpuriousWakeup PROVE mpc' = mpc
  BY <1>1 DEF WriterStep, SpuriousWakeup, LockEnd, SetInitialised, Signal,
    CheckKeepWriting, LockSegment, UnlockPrevious, WriteSegment, Increment,
    LastUnlock, FinalWrite, mainVars
<1>2. ASSUME MainStep PROVE Ended'
  BY <1>2 DEF Ended, MainStep, TestInitialised, CondWait, CondWake, SendFill,
    Locate, SearchFound, SearchStale, SearchNewer, Extend, ExtendFull, CatchUp,
    CaughtUp, Relock, Resend, AddData, LockNext, ReleaseVis, StopWriting,
    UnlockAll, Join
<1> QED
  BY <1>1, <1>2 DEF Ended, Next, StopSending, Receive, Finished, vars

(***************************************************************************)
(* The steps of the write thread.                                          *)
(***************************************************************************)
(* What a step of the write thread may change.                             *)
LEMMA WriterLeaves ==
  ASSUME Inner, UNCHANGED mainVars
  PROVE  /\ Started' <=> Started
         /\ UNCHANGED <<mpc, oldest, newest, islocked, keepwriting, visindex,
                        count>>
         /\ Span' = Span
         /\ \A s \in VisSlots : Dist(oldest, s)' = Dist(oldest, s)
         /\ RoomInv' /\ PlaceInv'
<1>1. /\ UNCHANGED <<mpc, oldest, newest, islocked, keepwriting, visindex,
                     count>>
      /\ Started' <=> Started
  BY DEF mainVars, Started
<1>2. /\ Span' = Span
      /\ \A s \in VisSlots : Dist(oldest, s)' = Dist(oldest, s)
  BY <1>1 DEF Span, Dist, Wrap
<1>3. RoomInv'
  BY <1>1, <1>2 DEF Inner, RoomInv
<1>4. PlaceInv'
  BY <1>1, <1>2 DEF Inner, PlaceInv, InWindow
<1> QED
  BY <1>1, <1>2, <1>3, <1>4

(* Steps that move the write thread on without a mutex.                    *)
LEMMA WriterMoves ==
  ASSUME Inner,
         SpuriousWakeup \/ SetInitialised \/ Signal \/ CheckKeepWriting
           \/ WriteSegment
  PROVE  Inner'
<1>1. UNCHANGED mainVars /\ lock' = lock /\ ws' = ws
  BY DEF SpuriousWakeup, SetInitialised, Signal, CheckKeepWriting,
    WriteSegment, writerVars
<1>2. /\ Started' <=> Started
      /\ UNCHANGED <<mpc, oldest, newest, islocked, keepwriting>>
      /\ Span' = Span
      /\ \A s \in VisSlots : Dist(oldest, s)' = Dist(oldest, s)
      /\ RoomInv' /\ PlaceInv'
  BY <1>1, WriterLeaves
<1>3. RingInv'
  BY <1>1, <1>2 DEF Inner, RingInv
<1>4. /\ initialised => initialised'
      /\ wpc' \in {"lockend", "init", "signal", "check", "lock", "unlockprev",
                   "write", "increment"}
      /\ \A s \in VisSlots : WriterHolds(s)' => WriterHolds(s)
      /\ initialised' => wpc' \notin {"lockend", "init"}
      /\ ~Started => wpc' \in {"lockend", "init", "signal", "check", "lock"}
  <2>1. CASE SpuriousWakeup
    BY <2>1, <1>1 DEF SpuriousWakeup, writerVars, Inner, WriterInv, StartInv,
      WriterHolds, Previous, Wrap
  <2>2. CASE SetInitialised
    BY <2>2, <1>1 DEF SetInitialised, WGo, WriterHolds, Previous, Wrap
  <2>3. CASE Signal
    BY <2>3, <1>1 DEF Signal, WGo, WriterHolds, Previous, Wrap
  <2>4. CASE CheckKeepWriting
    BY <2>4, <1>1 DEF CheckKeepWriting, WGo, WriterHolds, Previous, Wrap,
      Inner, RingInv
  <2>5. CASE WriteSegment
    BY <2>5, <1>1 DEF WriteSegment, WGo, WriterHolds, Previous, Wrap, Inner,
      WriterInv, StartInv
  <2> QED
    BY <2>1, <2>2, <2>3, <2>4, <2>5
<1>5. WriterInv'
  BY <1>1, <1>4 DEF Inner, WriterInv
<1>6. StartInv'
  BY <1>1, <1>2, <1>4 DEF Inner, StartInv
<1>7. WindowInv'
  <2>1. Dist(oldest, ws)' = Dist(oldest, ws)
    BY <1>1, <1>2 DEF Dist, Wrap
  <2> QED
    BY <2>1, <1>1, <1>2, <1>4 DEF Inner, WindowInv
<1> QED
  BY <1>2, <1>3, <1>5, <1>6, <1>7 DEF Inner

(* Steps that take or give up mutexes: main's are left alone.              *)
LEMMA WriterMutex ==
  ASSUME Inner, UNCHANGED <<mainVars, initialised, ws>>,
         NEW s \in VisSlots, lock[s] # Main, NEW h \in {Free, Writer},
         lock' = [lock EXCEPT ![s] = h], WriterInv',
         Started \/ wpc' \in {"lockend", "init", "signal", "check", "lock"}
  PROVE  Inner'
<1>1. /\ Started' <=> Started
      /\ UNCHANGED <<mpc, oldest, newest, islocked, keepwriting>>
      /\ Span' = Span
      /\ \A r \in VisSlots : Dist(oldest, r)' = Dist(oldest, r)
      /\ RoomInv' /\ PlaceInv'
  BY WriterLeaves
<1>2. RingInv'
  BY <1>1 DEF Inner, RingInv
<1>3. /\ \A r \in VisSlots : lock'[r] = Main <=> lock[r] = Main
  BY DEF Inner, RingInv, Free, Main, Writer
<1>4. StartInv'
  <2>1. 0 \in VisSlots /\ 1 \in VisSlots
    BY VisAssumption DEF VisSlots
  <2> QED
    BY <2>1, <1>1, <1>3 DEF Inner, StartInv
<1>5. WindowInv'
  <2>1. Dist(oldest, ws)' = Dist(oldest, ws)
    BY <1>1 DEF Dist, Wrap
  <2> QED
    BY <2>1, <1>1, <1>3 DEF Inner, WindowInv
<1> QED
  BY <1>1, <1>2, <1>4, <1>5 DEF Inner

LEMMA LockEndStep == ASSUME Inner, LockEnd PROVE Inner'
<1>1. /\ wpc = "lockend" /\ wpc' = "init"
      /\ lock[VisLength - 1] = Free
      /\ lock' = [lock EXCEPT ![VisLength - 1] = Writer]
      /\ UNCHANGED <<mainVars, initialised, ws>>
  BY DEF LockEnd, WGo, Acquire
<1>2. ~Started /\ ~initialised /\ ws = 0
  BY <1>1 DEF Inner, WriterInv, StartInv, WindowInv
<1>3. VisLength - 1 \in VisSlots /\ Previous = VisLength - 1
  <2>1. /\ VisLength \in Int /\ VisLength >= 4 /\ 0 \in VisSlots
        /\ VisLength - 1 \in VisSlots
    BY VisAssumption DEF VisSlots
  <2>2. PICK p \in Int : p = VisLength - 1
    BY <2>1
  <2>3. /\ 0 <= p /\ p <= VisLength /\ 0 + p < VisLength
    BY <2>1, <2>2
  <2>4. Wrap(0 + p) = 0 + p
    BY <2>1, <2>3, WrapCases
  <2>5. Wrap(p) = p
    BY <2>4
  <2>6. Previous = Wrap(p)
    BY <1>2, <2>1, <2>2 DEF Previous
  <2> QED
    BY <2>1, <2>2, <2>5, <2>6
<1>4. WriterInv'
  BY <1>1, <1>2, <1>3 DEF Inner, RingInv, WriterInv, WriterHolds, Previous,
    Wrap
<1> QED
  BY <1>1, <1>3, <1>4, WriterMutex DEF Free, Main

LEMMA LockSegmentStep == ASSUME Inner, LockSegment PROVE Inner'
<1>1. /\ wpc = "lock" /\ wpc' = "unlockprev"
      /\ lock[ws] = Free
      /\ lock' = [lock EXCEPT ![ws] = Writer]
      /\ UNCHANGED <<mainVars, initialised, ws>>
  BY DEF LockSegment, WGo, Acquire
<1>2. ws \in VisSlots
  BY DEF Inner, RingInv
<1>3. Started
  BY <1>1 DEF Inner, StartInv, Free, Main
<1>4. WriterInv'
  BY <1>1, <1>2 DEF Inner, RingInv, WriterInv, WriterHolds, Previous, Wrap
<1> QED
  BY <1>1, <1>2, <1>3, <1>4, WriterMutex DEF Free, Main

LEMMA UnlockPreviousStep == ASSUME Inner, UnlockPrevious PROVE Inner'
<1>1. /\ wpc = "unlockprev" /\ wpc' = "write"
      /\ lock' = [lock EXCEPT ![Previous] = Free]
      /\ UNCHANGED <<mainVars, initialised, ws>>
  BY DEF UnlockPrevious, WGo, Release
<1>2. /\ ws \in VisSlots /\ Previous \in VisSlots
      /\ Wrap(Previous + 1) = ws
  BY PreviousSlot DEF Inner, RingInv
<1>3. Started
  BY <1>1 DEF Inner, StartInv
<1>4. lock[Previous] = Writer /\ lock[ws] = Writer
  BY <1>1, <1>2 DEF Inner, WriterInv, WriterHolds
<1>5. Previous # ws
  <2> SUFFICES ASSUME Wrap(ws + 1) = ws PROVE FALSE
    BY <1>2
  <2>1. /\ ws \in Int /\ 0 <= ws /\ ws < VisLength
        /\ VisLength \in Int /\ VisLength >= 4 /\ 0 <= 1 /\ 1 <= VisLength
    BY <1>2, SlotNumber
  <2>2. /\ ws + 1 < VisLength => ws = ws + 1
        /\ VisLength <= ws + 1 => ws = ws + 1 - VisLength
    BY <1>2, <2>1, WrapCases
  <2> QED
    BY <2>1, <2>2
<1>6. WriterInv'
  BY <1>1, <1>2, <1>4, <1>5 DEF Inner, RingInv, WriterInv, WriterHolds
<1> QED
  BY <1>1, <1>2, <1>3, <1>4, <1>6, WriterMutex DEF Main, Writer

LEMMA IncrementStep == ASSUME Inner, Increment PROVE Inner'
<1>1. /\ wpc = "increment" /\ wpc' = "check"
      /\ ws' = Wrap(ws + 1)
      /\ UNCHANGED <<mainVars, initialised, lock>>
  BY DEF Increment, WGo
<1>2. /\ Started' <=> Started
      /\ UNCHANGED <<mpc, oldest, newest, islocked, keepwriting>>
      /\ Span' = Span
      /\ \A r \in VisSlots : Dist(oldest, r)' = Dist(oldest, r)
      /\ RoomInv' /\ PlaceInv'
  BY <1>1, WriterLeaves
<1>3. Started
  BY <1>1 DEF Inner, StartInv
<1>4. ws \in VisSlots /\ oldest \in VisSlots /\ newest \in VisSlots
  BY DEF Inner, RingInv
<1>5. ws' \in VisSlots
  BY <1>1, <1>4, DistNext
<1>6. lock[ws] = Writer
  BY <1>1, <1>4 DEF Inner, WriterInv, WriterHolds
<1>7. RingInv'
  BY <1>1, <1>2, <1>5 DEF Inner, RingInv
<1>8. Previous' = ws
  <2>1. Previous' = Wrap(ws' + VisLength - 1)
    BY DEF Previous, Wrap
  <2>2. /\ ws \in Int /\ 0 <= ws /\ ws < VisLength
        /\ VisLength \in Int /\ VisLength >= 4
    BY <1>4, SlotNumber
  <2>3. /\ ws + 1 < VisLength => ws' = ws + 1
        /\ VisLength <= ws + 1 => ws' = ws + 1 - VisLength
    <3>1. 0 <= 1 /\ 1 <= VisLength
      BY <2>2
    <3> QED
      BY <3>1, <1>1, <1>4, WrapCases
  <2>4. PICK n \in Int : n = ws' + VisLength - 1
    BY <1>5, <2>2, SlotNumber
  <2>5. /\ 0 <= n /\ n < 2 * VisLength
        /\ n < VisLength => n = ws
        /\ VisLength <= n => n - VisLength = ws
    BY <2>2, <2>3, <2>4
  <2>6. Wrap(n) = IF n < VisLength THEN n ELSE n - VisLength
    BY <2>5, WrapOnce
  <2> QED
    BY <2>1, <2>2, <2>4, <2>5, <2>6
<1>9. WriterInv'
  <2>1. ASSUME NEW s \in VisSlots, WriterHolds(s)' PROVE lock'[s] = Writer
    BY <2>1, <1>1, <1>6, <1>8 DEF WriterHolds
  <2> QED
    BY <2>1, <1>1 DEF Inner, WriterInv
<1>10. WindowInv'
  <2>1. Dist(oldest, ws) > Span
    BY <1>3, <1>4, <1>6 DEF Inner, WindowInv, Main, Writer
  <2>2. /\ Dist(oldest, ws) = VisLength - 1 => ws' = oldest
        /\ Dist(oldest, ws) < VisLength - 1 =>
             Dist(oldest, ws') = Dist(oldest, ws) + 1
    BY <1>1, <1>4, DistNext
  <2>3. /\ Dist(oldest, ws) \in Int /\ Dist(oldest, ws) < VisLength
        /\ Span \in Int /\ VisLength \in Int
    BY <1>4, DistCases, SlotNumber, SpanNumber
  <2>4. ws' = oldest \/ Dist(oldest, ws') > Span
    BY <2>1, <2>2, <2>3
  <2>5. Dist(oldest, ws)' = Dist(oldest, ws')
    BY <1>2 DEF Dist, Wrap
  <2> QED
    BY <2>4, <2>5, <1>1, <1>2 DEF Inner, WindowInv
<1> QED
  BY <1>2, <1>3, <1>7, <1>9, <1>10 DEF Inner, StartInv

(* Before StopWriting the write thread does not see the end.               *)
LEMMA NotYet == ASSUME Inner PROVE ~LastUnlock /\ ~FinalWrite
BY DEF Inner, WriterInv, LastUnlock, FinalWrite, WGo

(***************************************************************************)
(* The theorems.                                                           *)
(***************************************************************************)
LEMMA StepInv == IInv /\ [Next]_vars => IInv'
<1> SUFFICES ASSUME IInv, [Next]_vars PROVE IInv'
  OBVIOUS
<1>1. CASE UNCHANGED vars
  <2>1. /\ mpc' = mpc /\ visindex' = visindex /\ count' = count
        /\ UNCHANGED <<ringVars, keepwriting, initialised, wpc, ws>>
    BY <1>1 DEF vars, ringVars, writerVars
  <2>2. Ended => Ended'
    BY <2>1 DEF Ended
  <2>3. ASSUME Inner PROVE Inner'
    BY <2>1, <2>3 DEF Inner, RingInv, WriterInv, WriterHolds, Previous,
      StartInv, Started, WindowInv, RoomInv, PlaceInv, InWindow, Dist, Span,
      Wrap, ringVars
  <2> QED
    BY <2>2, <2>3 DEF IInv
<1>2. CASE Ended /\ Next
  BY <1>2, MainKeepsEnd DEF IInv
<1>3. CASE Inner /\ Next
  <2>1. CASE MainStep
    BY <2>1, <1>3, StartUp, LoopSteps, LocateStep, SearchSteps, ExtendStep,
      CatchUpSteps, RelockStep, StoreSteps, LockNextStep, ReleaseStep, EndSteps
    DEF MainStep, IInv
  <2>2. CASE WriterStep
    BY <2>2, <1>3, WriterMoves, LockEndStep, LockSegmentStep,
      UnlockPreviousStep, IncrementStep, NotYet
    DEF WriterStep, IInv
  <2>3. CASE StopSending \/ \E c \in Cores : Receive(c)
    BY <2>3, <1>3, LoopSteps DEF IInv
  <2>4. CASE SpuriousWakeup
    BY <2>4, <1>3, WriterMoves DEF IInv
  <2>5. CASE Finished
    BY <2>5, EndSteps DEF IInv
  <2> QED
    BY <2>1, <2>2, <2>3, <2>4, <2>5, <1>3 DEF Next
<1> QED
  BY <1>1, <1>2, <1>3 DEF IInv

LEMMA Invariance == Spec => []IInv
BY InitInv, StepInv, PTL DEF Spec

(* While results are added, islocked, oldestlockedvis and newestlockedvis  *)
(* of fxmanager.cpp describe the mutexes the main thread really holds, and *)
(* all of them are between oldest and newest.                              *)
THEOREM LocksMatch == Spec => []RingMatchesLocks
<1>1. ASSUME IInv PROVE RingMatchesLocks
  BY <1>1 DEF IInv, Ended, Inner, WindowInv, RingMatchesLocks, Accumulating,
    Dist
<1>2. IInv => RingMatchesLocks
  BY <1>1
<1> QED
  BY <1>2, Invariance, PTL

(* The main thread never adds to, or compares the time of, the Visibility  *)
(* that the write thread is writing out or moving on to its next           *)
(* integration.                                                            *)
THEOREM VisibilitiesExclusive == Spec => []VisExclusion
<1>1. ASSUME IInv PROVE VisExclusion
  <2> SUFFICES ASSUME wpc \in {"write", "increment"},
                      mpc \in {"add", "search"}
               PROVE  /\ mpc = "add" => visindex # ws
                      /\ mpc = "search" =>
                           \A k \in 0 .. Span : ws # Wrap(oldest + k)
    BY DEF VisExclusion
  <2>1. Inner /\ Started /\ oldest \in VisSlots /\ ws \in VisSlots
    BY <1>1 DEF IInv, Ended, Started, Inner, RingInv
  <2>2. WriterHolds(ws)
    BY DEF WriterHolds
  <2>3. ASSUME mpc = "add" PROVE visindex # ws
    BY <2>1, <2>2, <2>3, NotTheWriters DEF Inner, PlaceInv, InWindow
  <2>4. ASSUME NEW k \in 0 .. Span, ws = Wrap(oldest + k) PROVE FALSE
    <3>1. /\ Span \in Int /\ Span <= VisLength - 2 /\ VisLength \in Int
          /\ Dist(oldest, ws) \in VisSlots
      BY <2>1, SpanNumber, DistCases
    <3>2. k \in VisSlots /\ k \in Int /\ 0 <= k /\ k <= Span
      BY <3>1, VisAssumption DEF VisSlots
    <3>3. /\ k <= Dist(oldest, ws) => Dist(ws, ws) = Dist(oldest, ws) - k
          /\ Dist(oldest, ws) < k =>
               Dist(ws, ws) = Dist(oldest, ws) - k + VisLength
      BY <2>1, <2>4, <3>2, DistAdvance
    <3>4. Dist(ws, ws) = 0
      BY <2>1, DistInverse
    <3>5. Dist(oldest, ws) \in Int /\ 0 <= Dist(oldest, ws)
      BY <3>1, SlotNumber
    <3>6. Dist(oldest, ws) <= Span
      BY <3>1, <3>2, <3>3, <3>4, <3>5
    <3> QED
      BY <3>6, <2>1, <2>2, NotTheWriters
  <2> QED
    BY <2>3, <2>4
<1>2. IInv => VisExclusion
  BY <1>1
<1> QED
  BY <1>2, Invariance, PTL

(***************************************************************************)
(* Proofs about the times of the results in the FxManager: coretimes,      *)
(* numsent and extrareceived, for every number of Cores, every length of   *)
(* their receive ring and every list of scans.                             *)
(***************************************************************************)

(***************************************************************************)
(* Places in the ring of times.                                            *)
(***************************************************************************)
LEMMA Rings == /\ RING \in Int /\ RING >= 1
               /\ NumCores \in Int /\ NumCores >= 1
               /\ RING * NumCores \in Int
BY CoresAssumption

LEMMA PlaceInRing ==
  ASSUME NEW k \in Int
  PROVE  k % RING \in 0 .. RING - 1
BY CoresAssumption

LEMMA SmallPlace ==
  ASSUME NEW k \in Int, 0 <= k, k < RING
  PROVE  k % RING = k
BY CoresAssumption

LEMMA SamePlace ==
  ASSUME NEW k \in Int
  PROVE  (k + RING) % RING = k % RING
<1> DEFINE qa == k \div RING   qb == (k + RING) \div RING
<1>1. /\ k = RING * qa + (k % RING)
      /\ qa \in Int /\ k % RING \in 0 .. RING - 1
  BY CoresAssumption
<1>2. /\ k + RING = RING * qb + ((k + RING) % RING)
      /\ qb \in Int /\ (k + RING) % RING \in 0 .. RING - 1
  BY CoresAssumption
<1>3. (k % RING) - ((k + RING) % RING) = RING * (qb - qa - 1)
  BY <1>1, <1>2, CoresAssumption
<1> HIDE DEF qa, qb
<1>4. CASE qb - qa - 1 >= 1
  BY <1>1, <1>2, <1>3, <1>4, CoresAssumption
<1>5. CASE qb - qa - 1 <= -1
  BY <1>1, <1>2, <1>3, <1>5, CoresAssumption
<1>6. CASE qb - qa - 1 = 0
  BY <1>1, <1>2, <1>3, <1>6, CoresAssumption
<1> QED
  BY <1>1, <1>2, <1>4, <1>5, <1>6

(* Times noted less than a ring apart are in different places.             *)
LEMMA OtherPlace ==
  ASSUME NEW a \in Int, NEW b \in Int, a < b, b < a + RING
  PROVE  a % RING # b % RING
<1> DEFINE qa == a \div RING   qb == b \div RING
<1>1. /\ a = RING * qa + (a % RING)
      /\ qa \in Int /\ a % RING \in 0 .. RING - 1
  BY CoresAssumption
<1>2. /\ b = RING * qb + (b % RING)
      /\ qb \in Int /\ b % RING \in 0 .. RING - 1
  BY CoresAssumption
<1>3. SUFFICES ASSUME a % RING = b % RING PROVE FALSE
  OBVIOUS
<1>4. b - a = RING * (qb - qa)
  BY <1>1, <1>2, <1>3, CoresAssumption
<1> HIDE DEF qa, qb
<1>5. CASE qb - qa >= 1
  BY <1>1, <1>2, <1>4, <1>5, CoresAssumption
<1>6. CASE qb - qa <= 0
  BY <1>1, <1>2, <1>4, <1>6, CoresAssumption
<1> QED
  BY <1>1, <1>2, <1>5, <1>6

(***************************************************************************)
(* The inductive invariant.                                                *)
(***************************************************************************)
(* The result in resultbuffer has not yet been answered with new work.     *)
Pending == mpc \in Locating \cup {"resend"}
Held(c) == IF Pending /\ from = c THEN 1 ELSE 0

(* Subintegrations Core c was given, at most a ring of which it still has. *)
Given(c) == IF numsent[c] <= RING THEN numsent[c] ELSE RING

(* Where the time of the i-th subintegration in Core c was noted; of the   *)
(* one whose result is being handled for i = 0.                            *)
NotedAt(c, i) == (numsent[c] - Len(queue[c]) + i - 1) % RING

TimesType ==
  /\ next \in Nat
  /\ numsent \in [Cores -> Nat]
  /\ extrareceived \in [Cores -> Nat]
  /\ queue \in [Cores -> Seq(Int)]
  /\ coretimes \in [0 .. RING - 1 -> [Cores -> Int]]
  /\ from \in Cores
  /\ result \in Int
  /\ sending \in BOOLEAN

(* The Cores are filled in turn.                                           *)
FillInv ==
  /\ next <= RING * NumCores =>
       \A c \in Cores :
         numsent[c] = (next \div NumCores)
                        + (IF c < next % NumCores THEN 1 ELSE 0)
  /\ next >= RING * NumCores => \A c \in Cores : numsent[c] >= RING
  /\ sending => \A c \in Cores : extrareceived[c] = 0
  /\ sending /\ Pending => ~Filling

(* Nothing a Core was given is forgotten, and every time is still noted.   *)
NotedInv ==
  \A c \in Cores :
    /\ Len(queue[c]) + Held(c) = Given(c) - extrareceived[c]
    /\ \A i \in 1 .. Len(queue[c]) :
         coretimes[NotedAt(c, i)][c] = queue[c][i]
    /\ Held(c) = 1 => coretimes[NotedAt(c, 0)][c] = result

TInv == TimesType /\ FillInv /\ NotedInv
LEMMA InitTimes == Init => TInv
<1> SUFFICES ASSUME Init PROVE TInv
  OBVIOUS
<1>1. TimesType
  BY CoresAssumption DEF Init, TimesType, NoResult, Cores
<1>2. ~Pending /\ \A c \in Cores : Held(c) = 0
  BY DEF Init, Pending, Locating, Held
<1>3. FillInv
  <2>1. 0 \div NumCores = 0 /\ 0 % NumCores = 0
    BY CoresAssumption
  <2>2. RING * NumCores >= 1
    BY CoresAssumption
  <2> QED
    BY <2>1, <2>2, <1>2, Rings DEF Init, FillInv, Cores
<1>4. NotedInv
  BY <1>2, Rings DEF Init, NotedInv, Given
<1> QED
  BY <1>1, <1>3, <1>4 DEF TInv

(* Steps that neither send nor receive.                                    *)
LEMMA QuietKeeps ==
  ASSUME TInv, UNCHANGED <<coreVars, from, result>>,
         Pending' <=> Pending,
         sending' = sending \/ sending' = FALSE
  PROVE  TInv'
<1>1. TimesType'
  BY DEF TInv, TimesType, coreVars
<1>2. FillInv'
  BY DEF TInv, FillInv, Filling, coreVars
<1>3. NotedInv'
  BY DEF TInv, NotedInv, Held, Given, NotedAt, coreVars
<1> QED
  BY <1>1, <1>2, <1>3 DEF TInv

(* A time is noted in a place no time that is still wanted is in.          *)
LEMMA SendKeeps ==
  ASSUME TInv, NEW c \in Cores, SendData(c), Len(queue[c]) < RING,
         UNCHANGED <<from, result, sending>>, ~Pending'
  PROVE  /\ TimesType'
         /\ \A d \in Cores :
              /\ d = c => Len(queue'[d]) = Len(queue[d]) + 1
              /\ d # c => Len(queue'[d]) = Len(queue[d])
              /\ \A i \in 1 .. Len(queue'[d]) :
                   coretimes'[NotedAt(d, i)'][d] = queue'[d][i]
              /\ Held(d)' = 0
<1> DEFINE n == numsent[c]   q == queue[c]   l == Len(q)
           T == [0 .. RING - 1 -> [Cores -> Int]]
<1>1. /\ queue \in [Cores -> Seq(Int)] /\ numsent \in [Cores -> Nat]
      /\ coretimes \in T
      /\ next \in Nat /\ q \in Seq(Int) /\ n \in Nat /\ l \in Nat /\ l < RING
  BY DEF TInv, TimesType
<1>2. /\ queue' = [queue EXCEPT ![c] = Append(q, next)]
      /\ coretimes' = [coretimes EXCEPT ![n % RING][c] = next]
      /\ numsent' = [numsent EXCEPT ![c] = n + 1]
      /\ next' = next + 1
      /\ UNCHANGED extrareceived
  BY DEF SendData
<1>3. n % RING \in 0 .. RING - 1
  BY <1>1, PlaceInRing
<1>4. /\ queue' \in [Cores -> Seq(Int)] /\ numsent' \in [Cores -> Nat]
      /\ next' \in Nat /\ coretimes' \in T
  <2>1. Append(q, next) \in Seq(Int)
    BY <1>1
  <2> QED
    BY <2>1, <1>1, <1>2, <1>3
<1>5. \A p \in 0 .. RING - 1, d \in Cores :
        coretimes'[p][d] = IF p = n % RING /\ d = c THEN next
                           ELSE coretimes[p][d]
  BY <1>1, <1>2, <1>3
<1>6. TimesType'
  BY <1>2, <1>4 DEF TInv, TimesType
<1>7. \A d \in Cores : Held(d)' = 0
  BY DEF Held
<1>8. ASSUME NEW d \in Cores, d # c
      PROVE  /\ Len(queue'[d]) = Len(queue[d])
             /\ \A i \in 1 .. Len(queue'[d]) :
                  coretimes'[NotedAt(d, i)'][d] = queue'[d][i]
  <2>1. queue'[d] = queue[d] /\ numsent'[d] = numsent[d]
    BY <1>1, <1>2, <1>8
  <2>2. ASSUME NEW i \in 1 .. Len(queue[d])
        PROVE  coretimes'[NotedAt(d, i)'][d] = queue[d][i]
    <3>1. NotedAt(d, i)' = NotedAt(d, i)
      BY <2>1 DEF NotedAt
    <3>2. NotedAt(d, i) \in 0 .. RING - 1
      <4>1. numsent[d] - Len(queue[d]) + i - 1 \in Int
        BY <1>1
      <4> QED
        BY <4>1, PlaceInRing DEF NotedAt
    <3>3. coretimes[NotedAt(d, i)][d] = queue[d][i]
      BY DEF TInv, NotedInv
    <3> QED
      BY <3>1, <3>2, <3>3, <1>5, <1>8
  <2> QED
    BY <2>1, <2>2
<1>9. /\ Len(queue'[c]) = l + 1
      /\ \A i \in 1 .. l + 1 : coretimes'[NotedAt(c, i)'][c] = queue'[c][i]
  <2>1. /\ queue'[c] = Append(q, next) /\ numsent'[c] = n + 1
        /\ Len(queue'[c]) = l + 1
    BY <1>1, <1>2
  <2>2. ASSUME NEW i \in 1 .. l + 1
        PROVE  coretimes'[NotedAt(c, i)'][c] = queue'[c][i]
    <3> HIDE DEF n, l
    <3>0. PICK p \in Int : p = n - l + i - 1
      BY <1>1
    <3>1. NotedAt(c, i)' = p % RING
      <4>1. NotedAt(c, i)' = (n + 1 - (l + 1) + i - 1) % RING
        <5>1. numsent'[c] = n + 1 /\ Len(queue'[c]) = l + 1
          BY <2>1
        <5>2. NotedAt(c, i)' = (numsent'[c] - Len(queue'[c]) + i - 1) % RING
          BY DEF NotedAt
        <5> QED
          BY <5>1, <5>2, <1>1
      <4>2. n + 1 - (l + 1) + i - 1 = p
        BY <3>0, <1>1
      <4> QED
        BY <4>1, <4>2
    <3>2. CASE i = l + 1
      <4>1. p = n
        BY <3>0, <3>2, <1>1
      <4> QED
        BY <4>1, <3>1, <3>2, <2>1, <1>1, <1>3, <1>5
    <3>3. CASE i # l + 1
      <4>1. i \in 1 .. l /\ p < n /\ n < p + RING
        BY <3>0, <3>3, <1>1, Rings
      <4>2. p % RING # n % RING
        BY <4>1, <1>1, OtherPlace
      <4>3. p % RING \in 0 .. RING - 1
        BY PlaceInRing
      <4>4. coretimes[p % RING][c] = q[i]
        <5>1. coretimes[NotedAt(c, i)][c] = q[i]
          BY <4>1 DEF TInv, NotedInv, l
        <5>2. NotedAt(c, i) = p % RING
          BY <3>0 DEF NotedAt, n, l
        <5> QED
          BY <5>1, <5>2
      <4>5. queue'[c][i] = q[i]
        BY <4>1, <2>1, <1>1
      <4> QED
        BY <4>2, <4>3, <4>4, <4>5, <3>1, <1>5
    <3> QED
      BY <3>2, <3>3
  <2> QED
    BY <2>1, <2>2
<1>10. ASSUME NEW d \in Cores
       PROVE  /\ d = c => Len(queue'[d]) = Len(queue[d]) + 1
              /\ d # c => Len(queue'[d]) = Len(queue[d])
              /\ \A i \in 1 .. Len(queue'[d]) :
                   coretimes'[NotedAt(d, i)'][d] = queue'[d][i]
  <2>1. CASE d = c
    BY <2>1, <1>9
  <2>2. CASE d # c
    BY <2>2, <1>1, <1>8
  <2> QED
    BY <2>1, <2>2
<1> QED
  BY <1>6, <1>7, <1>10

(* Filling the Cores in turn: the next one has room.                       *)
LEMMA FillTurn ==
  ASSUME NEW n \in Nat, n < RING * NumCores
  PROVE  /\ n % NumCores \in Cores /\ n \div NumCores \in Nat
         /\ n \div NumCores < RING
         /\ \/ /\ (n + 1) \div NumCores = n \div NumCores
               /\ (n + 1) % NumCores = (n % NumCores) + 1
               /\ (n % NumCores) + 1 < NumCores
            \/ /\ (n + 1) \div NumCores = n \div NumCores + 1
               /\ (n + 1) % NumCores = 0
               /\ (n % NumCores) + 1 = NumCores
         /\ n + 1 = RING * NumCores =>
              n \div NumCores + 1 = RING /\ (n % NumCores) + 1 = NumCores
<1> DEFINE q == n \div NumCores      m == n % NumCores
           r == (n + 1) \div NumCores   k == (n + 1) % NumCores
<1>1. /\ n = NumCores * q + m /\ q \in Int /\ m \in 0 .. NumCores - 1
      /\ n + 1 = NumCores * r + k /\ r \in Int /\ k \in 0 .. NumCores - 1
  BY CoresAssumption
<1>2. NumCores \in Int /\ NumCores >= 1 /\ RING \in Int /\ RING >= 1
  BY Rings
<1> HIDE DEF q, m, r, k
<1>3. q >= 0
  <2> SUFFICES ASSUME q <= -1 PROVE FALSE
    BY <1>1
  <2>1. NumCores * q <= -NumCores
    BY <1>1, <1>2
  <2> QED
    BY <2>1, <1>1, <1>2
<1>4. q < RING
  <2> SUFFICES ASSUME q >= RING PROVE FALSE
    BY <1>1, <1>2
  <2>1. NumCores * q >= NumCores * RING
    BY <1>1, <1>2
  <2> QED
    BY <2>1, <1>1, <1>2
<1>5. \/ r = q /\ k = m + 1 /\ m + 1 < NumCores
      \/ r = q + 1 /\ k = 0 /\ m + 1 = NumCores
  <2>1. NumCores * (r - q) = m + 1 - k
    BY <1>1, <1>2
  <2>2. CASE r - q >= 2
    <3>1. NumCores * (r - q) >= 2 * NumCores
      BY <2>2, <1>1, <1>2
    <3> QED
      BY <3>1, <2>1, <1>1, <1>2
  <2>3. CASE r - q <= -1
    <3>1. NumCores * (r - q) <= -NumCores
      BY <2>3, <1>1, <1>2
    <3> QED
      BY <3>1, <2>1, <1>1, <1>2
  <2>4. CASE r - q = 0
    BY <2>1, <2>4, <1>1, <1>2
  <2>5. CASE r - q = 1
    BY <2>1, <2>5, <1>1, <1>2
  <2> QED
    BY <2>2, <2>3, <2>4, <2>5, <1>1
<1>6. ASSUME n + 1 = RING * NumCores PROVE q + 1 = RING /\ m + 1 = NumCores
  <2>1. NumCores * (RING - q) = m + 1
    BY <1>1, <1>2, <1>6
  <2>2. RING - q = 1
    <3> SUFFICES ASSUME RING - q >= 2 PROVE FALSE
      BY <1>1, <1>2, <1>4
    <3>1. NumCores * (RING - q) >= 2 * NumCores
      BY <1>1, <1>2
    <3> QED
      BY <3>1, <2>1, <1>1, <1>2
  <2> QED
    BY <2>1, <2>2, <1>1, <1>2
<1> QED
  BY <1>1, <1>3, <1>4, <1>5, <1>6 DEF q, m, r, k, Cores

LEMMA SendFillStep == ASSUME TInv, SendFill PROVE TInv'
<1> DEFINE c == next % NumCores   q == next \div NumCores
<1>1. /\ mpc = "loop" /\ mpc' = "loop" /\ sending /\ Filling
      /\ SendData(c) /\ UNCHANGED <<from, result, sending>>
  BY DEF SendFill
<1>2. /\ next \in Nat /\ next < RING * NumCores
      /\ numsent \in [Cores -> Nat] /\ extrareceived \in [Cores -> Nat]
      /\ queue \in [Cores -> Seq(Int)]
  BY <1>1 DEF TInv, TimesType, Filling
<1>3. c \in Cores /\ q \in Nat /\ q < RING
  BY <1>2, FillTurn
<1>4. \A d \in Cores : numsent[d] = q + (IF d < c THEN 1 ELSE 0)
  BY <1>2, Rings DEF TInv, FillInv
<1>5. ~Pending /\ ~Pending' /\ \A d \in Cores : Held(d) = 0
  BY <1>1 DEF Pending, Held, Locating
<1>6. \A d \in Cores : /\ extrareceived[d] = 0
                      /\ Len(queue[d]) = Given(d)
                      /\ numsent[d] \in Nat /\ Len(queue[d]) \in Nat
  BY <1>1, <1>2, <1>5, Rings DEF TInv, FillInv, NotedInv, Given
<1>7. numsent[c] = q /\ c \in Nat
  BY <1>3, <1>4 DEF Cores
<1>8. Len(queue[c]) = q /\ Len(queue[c]) < RING
  BY <1>3, <1>6, <1>7, Rings DEF Given
<1>9. /\ TimesType'
      /\ \A d \in Cores :
              /\ d = c => Len(queue'[d]) = Len(queue[d]) + 1
              /\ d # c => Len(queue'[d]) = Len(queue[d])
              /\ \A i \in 1 .. Len(queue'[d]) :
                   coretimes'[NotedAt(d, i)'][d] = queue'[d][i]
              /\ Held(d)' = 0
  <2> HIDE DEF c, q
  <2> QED
    BY <1>1, <1>3, <1>5, <1>8, SendKeeps
<1> HIDE DEF c, q
<1>10. /\ numsent' = [numsent EXCEPT ![c] = q + 1]
       /\ next' = next + 1 /\ extrareceived' = extrareceived
  BY <1>1, <1>7 DEF SendData
<1>11. \A d \in Cores : numsent'[d] = IF d = c THEN q + 1 ELSE numsent[d]
  BY <1>2, <1>10
<1>12. NotedInv'
  <2>1. ASSUME NEW d \in Cores
        PROVE  Len(queue'[d]) + Held(d)' = Given(d)' - extrareceived'[d]
    <3>0. Held(d)' = 0 /\ extrareceived'[d] = 0
      BY <1>6, <1>9, <1>10
    <3>1. CASE d = c
      <4>1. Given(d)' = q + 1
        BY <3>1, <1>3, <1>11, Rings DEF Given
      <4>2. Len(queue'[d]) = q + 1
        BY <3>1, <1>8, <1>9
      <4> QED
        BY <4>1, <4>2, <3>0, <1>3
    <3>2. CASE d # c
      <4>1. Given(d)' = Given(d)
        BY <3>2, <1>11 DEF Given
      <4>2. Len(queue'[d]) = Len(queue[d])
        BY <3>2, <1>6, <1>9
      <4> QED
        BY <4>1, <4>2, <3>0, <1>6
    <3> QED
      BY <3>1, <3>2
  <2> QED
    <3>1. ASSUME NEW d \in Cores
          PROVE  /\ Len(queue'[d]) + Held(d)' = Given(d)' - extrareceived'[d]
                 /\ \A i \in 1 .. Len(queue'[d]) :
                      coretimes'[NotedAt(d, i)'][d] = queue'[d][i]
                 /\ Held(d)' = 1 => coretimes'[NotedAt(d, 0)'][d] = result'
      BY <2>1, <1>9
    <3> QED
      BY <3>1 DEF NotedInv
<1>13. FillInv'
  <2>1. ASSUME NEW d \in Cores
        PROVE  numsent'[d] = ((next + 1) \div NumCores)
                             + (IF d < (next + 1) % NumCores THEN 1 ELSE 0)
    <3>1. d \in Int /\ 0 <= d /\ d < NumCores
      BY CoresAssumption DEF Cores
    <3>2. \/ /\ (next + 1) \div NumCores = q
             /\ (next + 1) % NumCores = c + 1
          \/ /\ (next + 1) \div NumCores = q + 1
             /\ (next + 1) % NumCores = 0
             /\ c + 1 = NumCores
      BY <1>2, FillTurn DEF c, q
    <3>3. numsent'[d] = q + (IF d <= c THEN 1 ELSE 0)
      BY <3>1, <1>3, <1>4, <1>7, <1>11
    <3> QED
      BY <3>1, <3>2, <3>3, <1>3, <1>7
  <2>2. ASSUME next + 1 >= RING * NumCores, NEW d \in Cores
        PROVE  numsent'[d] >= RING
    <3>1. next + 1 = RING * NumCores
      BY <2>2, <1>2, Rings
    <3>2. q + 1 = RING /\ c + 1 = NumCores
      BY <3>1, <1>2, FillTurn DEF c, q
    <3>3. d \in Int /\ 0 <= d /\ d < NumCores
      BY CoresAssumption DEF Cores
    <3> QED
      BY <3>2, <3>3, <1>3, <1>4, <1>7, <1>11
  <2> QED
    BY <2>1, <2>2, <1>1, <1>5, <1>6, <1>10 DEF FillInv
<1> QED
  BY <1>9, <1>12, <1>13 DEF TInv

LEMMA ReceiveStep ==
  ASSUME TInv, NEW c \in Cores, Receive(c) PROVE TInv'
<1>1. /\ mpc = "loop" /\ mpc' = "locate"
      /\ sending => ~Filling
      /\ queue[c] # << >>
      /\ from' = c /\ result' = Head(queue[c])
      /\ queue' = [queue EXCEPT ![c] = Tail(queue[c])]
      /\ UNCHANGED <<sending, next, numsent, extrareceived, coretimes>>
  BY DEF Receive
<1>2. /\ queue \in [Cores -> Seq(Int)] /\ numsent \in [Cores -> Nat]
      /\ queue[c] \in Seq(Int) /\ extrareceived \in [Cores -> Nat]
      /\ Len(queue[c]) \in Nat /\ Len(queue[c]) >= 1
  BY <1>1 DEF TInv, TimesType
<1>3. /\ Tail(queue[c]) \in Seq(Int) /\ Head(queue[c]) = queue[c][1]
      /\ Len(Tail(queue[c])) = Len(queue[c]) - 1
      /\ \A i \in 1 .. Len(queue[c]) - 1 : Tail(queue[c])[i] = queue[c][i + 1]
  BY <1>1, <1>2
<1>4. TimesType'
  BY <1>1, <1>2, <1>3 DEF TInv, TimesType
<1>5. ~Pending /\ Pending' /\ \A d \in Cores : Held(d) = 0
  BY <1>1 DEF Pending, Locating, Held
<1>6. FillInv'
  BY <1>1, <1>5 DEF TInv, FillInv, Filling
<1>7. ASSUME NEW d \in Cores
      PROVE  /\ Len(queue'[d]) + Held(d)' = Given(d)' - extrareceived'[d]
             /\ \A i \in 1 .. Len(queue'[d]) :
                  coretimes'[NotedAt(d, i)'][d] = queue'[d][i]
             /\ Held(d)' = 1 => coretimes'[NotedAt(d, 0)'][d] = result'
  <2>1. /\ Given(d)' = Given(d) /\ Given(d) \in Int
        /\ extrareceived'[d] = extrareceived[d] /\ extrareceived[d] \in Int
        /\ Len(queue[d]) + 0 = Given(d) - extrareceived[d]
        /\ Len(queue[d]) \in Nat
    BY <1>1, <1>2, <1>5, Rings DEF Given, TInv, NotedInv
  <2>2. CASE d # c
    <3>1. queue'[d] = queue[d] /\ Held(d)' = 0
      BY <2>2, <1>1, <1>2 DEF Held
    <3>2. \A i \in 1 .. Len(queue[d]) :
            coretimes[NotedAt(d, i)][d] = queue[d][i]
      BY DEF TInv, NotedInv
    <3>3. \A i \in Int : NotedAt(d, i)' = NotedAt(d, i)
      BY <3>1, <1>1 DEF NotedAt
    <3> QED
      BY <3>1, <3>2, <3>3, <2>1, <1>1
  <2>3. CASE d = c
    <3>1. queue'[d] = Tail(queue[c]) /\ Held(d)' = 1
      BY <2>3, <1>1, <1>2, <1>5 DEF Held
    <3>2. \A i \in 1 .. Len(queue[c]) :
            coretimes[NotedAt(c, i)][c] = queue[c][i]
      BY DEF TInv, NotedInv
    <3>3. ASSUME NEW i \in 0 .. Len(queue[c]) - 1
          PROVE  coretimes'[NotedAt(d, i)'][d] = queue[c][i + 1]
      <4> DEFINE n == numsent[c]   l == Len(queue[c])
      <4>n. n \in Nat /\ l \in Nat /\ i \in 0 .. l - 1
        BY <1>2
      <4>m. /\ NotedAt(d, i)' = (n - (l - 1) + i - 1) % RING
            /\ NotedAt(c, i + 1) = (n - l + (i + 1) - 1) % RING
        BY <3>1, <2>3, <1>1, <1>3 DEF NotedAt
      <4> HIDE DEF n, l
      <4>1. /\ n - (l - 1) + i - 1 = n - l + (i + 1) - 1
            /\ i + 1 \in 1 .. l
        BY <4>n
      <4>2. NotedAt(d, i)' = NotedAt(c, i + 1)
        BY <4>1, <4>m
      <4> QED
        BY <4>1, <4>2, <3>2, <2>3, <1>1 DEF l
    <3>4. coretimes'[NotedAt(d, 0)'][d] = result'
      <4>1. 0 \in 0 .. Len(queue[c]) - 1 /\ 0 + 1 = 1
        BY <1>2
      <4>2. coretimes'[NotedAt(d, 0)'][d] = queue[c][0 + 1]
        BY <4>1, <3>3
      <4> QED
        BY <4>1, <4>2, <1>1, <1>3
    <3>5. \A i \in 1 .. Len(queue'[d]) :
            coretimes'[NotedAt(d, i)'][d] = queue'[d][i]
      BY <3>1, <3>3, <1>2, <1>3
    <3> QED
      BY <3>1, <3>4, <3>5, <2>1, <2>3, <1>2, <1>3
  <2> QED
    BY <2>2, <2>3
<1>8. NotedInv'
  BY <1>7 DEF NotedInv
<1> QED
  BY <1>4, <1>6, <1>8 DEF TInv

LEMMA ResendStep == ASSUME TInv, Resend PROVE TInv'
<1>1. /\ mpc = "resend" /\ mpc' \in {"loop", "add"}
      /\ UNCHANGED <<from, result, sending>>
      /\ Pending /\ ~Pending' /\ \A c \in Cores : Held(c)' = 0
      /\ from \in Cores /\ Held(from) = 1
  BY DEF Resend, Pending, Locating, TInv, TimesType, Held
<1>2. /\ queue \in [Cores -> Seq(Int)] /\ numsent \in [Cores -> Nat]
      /\ extrareceived \in [Cores -> Nat] /\ next \in Nat
      /\ \A c \in Cores : Len(queue[c]) \in Nat /\ Given(c) \in Nat
      /\ \A c \in Cores : c # from => Held(c) = 0
  BY Rings DEF TInv, TimesType, Given, Held
<1>3. \A c \in Cores : Len(queue[c]) + Held(c) = Given(c) - extrareceived[c]
  BY DEF TInv, NotedInv
<1>4. CASE sending
  <2>1. /\ SendData(from) /\ ~Filling
        /\ next >= RING * NumCores
        /\ \A c \in Cores : numsent[c] >= RING /\ extrareceived[c] = 0
    BY <1>1, <1>2, <1>4, Rings DEF Resend, TInv, FillInv, Filling
  <2>2. \A c \in Cores : Given(c) = RING
    BY <2>1, <1>2, Rings DEF Given
  <2>3. Len(queue[from]) < RING
    BY <2>1, <2>2, <1>1, <1>2, <1>3, Rings
  <2>4. /\ TimesType'
        /\ \A d \in Cores :
             /\ d = from => Len(queue'[d]) = Len(queue[d]) + 1
             /\ d # from => Len(queue'[d]) = Len(queue[d])
             /\ \A i \in 1 .. Len(queue'[d]) :
                  coretimes'[NotedAt(d, i)'][d] = queue'[d][i]
    BY <2>1, <2>3, <1>1, SendKeeps
  <2>5. /\ numsent' = [numsent EXCEPT ![from] = @ + 1]
        /\ extrareceived' = extrareceived /\ next' = next + 1
    BY <2>1 DEF SendData
  <2>6. \A c \in Cores : numsent'[c] >= RING /\ Given(c)' = RING
    BY <2>1, <2>5, <1>1, <1>2, Rings DEF Given
  <2>7. NotedInv'
    <3>1. ASSUME NEW c \in Cores
          PROVE  Len(queue'[c]) + Held(c)' = Given(c)' - extrareceived'[c]
      <4>1. Held(c)' = 0 /\ extrareceived'[c] = 0 /\ Given(c)' = RING
        BY <2>1, <2>5, <2>6, <1>1
      <4>2. Len(queue'[c]) = RING
        <5>1. Len(queue[c]) + Held(c) = RING
          BY <2>1, <2>2, <1>3, Rings
        <5>2. CASE c = from
          BY <5>1, <5>2, <2>4, <1>1, <1>2, Rings
        <5>3. CASE c # from
          <6>1. Len(queue'[c]) = Len(queue[c])
            BY <5>3, <2>4, <1>2
          <6> QED
            BY <6>1, <5>1, <5>3, <1>2, Rings
        <5> QED
          BY <5>2, <5>3
      <4> QED
        BY <4>1, <4>2, Rings
    <3>2. ASSUME NEW d \in Cores
          PROVE  /\ Len(queue'[d]) + Held(d)' = Given(d)' - extrareceived'[d]
                 /\ \A i \in 1 .. Len(queue'[d]) :
                      coretimes'[NotedAt(d, i)'][d] = queue'[d][i]
                 /\ Held(d)' = 1 => coretimes'[NotedAt(d, 0)'][d] = result'
      BY <3>1, <2>4, <1>1
    <3> QED
      BY <3>2 DEF NotedInv
  <2>8. FillInv'
    <3>1. next' > RING * NumCores
      BY <2>1, <2>5, <1>2, Rings
    <3> QED
      BY <3>1, <2>1, <2>5, <2>6, <1>1, <1>2, Rings DEF FillInv
  <2> QED
    BY <2>4, <2>7, <2>8 DEF TInv
<1>5. CASE ~sending
  <2>1. /\ extrareceived' = [extrareceived EXCEPT ![from] = @ + 1]
        /\ UNCHANGED <<next, numsent, coretimes, queue>>
    BY <1>5 DEF Resend
  <2>2. TimesType'
    BY <2>1, <1>1, <1>2 DEF TInv, TimesType
  <2>3. FillInv'
    BY <2>1, <1>1, <1>5 DEF TInv, FillInv
  <2>4. NotedInv'
    <3>1. ASSUME NEW c \in Cores
          PROVE  Len(queue'[c]) + Held(c)' = Given(c)' - extrareceived'[c]
      <4>1. Given(c)' = Given(c)
        BY <2>1 DEF Given
      <4>2. CASE c = from
        BY <4>1, <4>2, <2>1, <1>1, <1>2, <1>3
      <4>3. CASE c # from
        <5>1. extrareceived'[c] = extrareceived[c] /\ queue'[c] = queue[c]
          BY <4>3, <2>1, <1>2
        <5> QED
          BY <5>1, <4>1, <4>3, <1>1, <1>2, <1>3
      <4> QED
        BY <4>2, <4>3
    <3>2. \A c \in Cores : \A i \in 1 .. Len(queue'[c]) :
            coretimes'[NotedAt(c, i)'][c] = queue'[c][i]
      BY <2>1 DEF TInv, NotedInv, NotedAt
    <3> QED
      BY <3>1, <3>2, <1>1 DEF NotedInv
  <2> QED
    BY <2>2, <2>3, <2>4 DEF TInv
<1> QED
  BY <1>4, <1>5

LEMMA StepTimes == TInv /\ [Next]_vars => TInv'
<1> SUFFICES ASSUME TInv, [Next]_vars PROVE TInv'
  OBVIOUS
<1>1. ASSUME TestInitialised \/ CondWait \/ CondWake \/ Locate \/ SearchFound
               \/ SearchStale \/ SearchNewer \/ Extend \/ ExtendFull \/ CatchUp
               \/ CaughtUp \/ Relock \/ AddData \/ LockNext \/ ReleaseVis
               \/ StopWriting \/ UnlockAll \/ Join \/ StopSending
      PROVE  TInv'
  <2>1. UNCHANGED <<coreVars, from, result>>
    BY <1>1 DEF TestInitialised, CondWait, CondWake, Locate, SearchFound,
      SearchStale, SearchNewer, Extend, ExtendFull, CatchUp, CaughtUp, Relock,
      AddData, LockNext, ReleaseVis, StopWriting, UnlockAll, Join, StopSending
  <2>2. sending' = sending \/ sending' = FALSE
    BY <1>1 DEF TestInitialised, CondWait, CondWake, Locate, SearchFound,
      SearchStale, SearchNewer, Extend, ExtendFull, CatchUp, CaughtUp, Relock,
      AddData, LockNext, ReleaseVis, StopWriting, UnlockAll, Join, StopSending
  <2>3. Pending' <=> Pending
    BY <1>1 DEF Pending, Locating, TestInitialised, CondWait, CondWake, Locate,
      SearchFound, SearchStale, SearchNewer, Extend, ExtendFull, CatchUp,
      CaughtUp, Relock, AddData, LockNext, ReleaseVis, StopWriting, UnlockAll,
      Join, StopSending
  <2> QED
    BY <2>1, <2>2, <2>3, QuietKeeps
<1>2. ASSUME WriterStep \/ SpuriousWakeup \/ Finished \/ UNCHANGED vars
      PROVE  TInv'
  <2>1. UNCHANGED <<coreVars, from, result, sending, mpc>>
    BY <1>2 DEF WriterStep, SpuriousWakeup, Finished, vars, mainVars, LockEnd,
      SetInitialised, Signal, CheckKeepWriting, LockSegment, UnlockPrevious,
      WriteSegment, Increment, LastUnlock, FinalWrite
  <2> QED
    BY <2>1, QuietKeeps DEF Pending
<1> QED
  BY <1>1, <1>2, SendFillStep, ReceiveStep, ResendStep DEF Next, MainStep

LEMMA TimesInvariance == Spec => []TInv
BY InitTimes, StepTimes, PTL DEF Spec

(* The time receiveData takes out of coretimes for a result is the time    *)
(* that was sent to the Core with that very subintegration.                *)
THEOREM TimesAreOwn == Spec => []OwnTime
<1>1. ASSUME TInv PROVE OwnTime
  <2> SUFFICES ASSUME mpc \in Locating PROVE CoreTime = result
    BY DEF OwnTime
  <2> DEFINE n == numsent[from]   e == extrareceived[from]
             l == Len(queue[from])
  <2>1. /\ from \in Cores /\ n \in Nat /\ e \in Nat /\ l \in Nat
        /\ Held(from) = 1
    BY <1>1 DEF TInv, TimesType, Held, Pending
  <2>2. /\ l + 1 = Given(from) - e
        /\ coretimes[(n - l + 0 - 1) % RING][from] = result
    BY <1>1, <2>1 DEF TInv, NotedInv, NotedAt
  <2>3. /\ Given(from) = IF n <= RING THEN n ELSE RING
        /\ InfoIndex(from) = IF n < RING THEN e ELSE (n + e) % RING
    BY DEF Given, InfoIndex
  <2> HIDE DEF n, e, l
  <2>4. PICK k \in Int : k = n - l + 0 - 1
    BY <2>1
  <2>5. k % RING = InfoIndex(from)
    <3>1. CASE n < RING
      <4>1. k = e /\ 0 <= k /\ k < RING
        BY <2>1, <2>2, <2>3, <2>4, <3>1, Rings
      <4>2. k % RING = k
        BY <4>1, SmallPlace
      <4> QED
        BY <4>1, <4>2, <3>1, <2>3
    <3>2. CASE ~(n < RING)
      <4>1. k + RING = n + e
        BY <2>1, <2>2, <2>3, <2>4, <3>2, Rings
      <4>2. (k + RING) % RING = k % RING
        BY SamePlace
      <4> QED
        BY <4>1, <4>2, <3>2, <2>3
    <3> QED
      BY <3>1, <3>2
  <2> QED
    BY <2>2, <2>4, <2>5 DEF CoreTime
<1>2. TInv => OwnTime
  BY <1>1
<1> QED
  BY <1>2, TimesInvariance, PTL

=============================================================================
