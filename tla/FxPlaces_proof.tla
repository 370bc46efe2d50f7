--------------------------- MODULE FxPlaces_proof ---------------------------
(***************************************************************************)
(* Which Visibility a result goes to.  First the times: what ScanEnd and   *)
(* VisEnd sum, and from it where an integration lies in relation to a      *)
(* subintegration (Compare).  Then the types, the order of the             *)
(* integrations round the ring, and that locateVisIndex finds the          *)
(* integration a result belongs to.                                        *)
(***************************************************************************)
EXTENDS FxManager_proof

LEMMA ScanTypes ==
  /\ NumScans \in Nat /\ NumScans >= 1
  /\ \A k \in 1 .. NumScans :
       /\ Scans[k].subints \in Nat /\ Scans[k].subints >= 1
       /\ Scans[k].intTime \in Nat /\ Scans[k].intTime >= 1
<1>1. Scans \in Seq([subints : Nat \ {0}, intTime : Nat \ {0}]) /\ Scans # << >>
  BY ScansAssumption
<1>2. \A k \in 1 .. NumScans :
        Scans[k] \in [subints : Nat \ {0}, intTime : Nat \ {0}]
  <2> TAKE k \in 1 .. NumScans
  <2> DEFINE S == [subints : Nat \ {0}, intTime : Nat \ {0}]
  <2>1. k \in 1 .. Len(Scans) /\ Scans \in Seq(S)
    BY <1>1 DEF NumScans
  <2> HIDE DEF S
  <2>2. Scans[k] \in S
    BY <2>1
  <2> QED
    BY <2>2 DEF S
<1> QED
  BY <1>1, <1>2 DEF NumScans


(* Subintegrations and integrations of the k-th scan.                      *)
SubintsOf == [k \in 1 .. NumScans |-> Scans[k].subints]
IntsOf == [k \in 1 .. NumScans |->
             (Scans[k].subints + Scans[k].intTime - 1) \div Scans[k].intTime]

LEMMA SumTypes ==
  /\ SubintsOf \in [1 .. NumScans -> Nat]
  /\ IntsOf \in [1 .. NumScans -> Nat]
<1>1. ASSUME NEW k \in 1 .. NumScans
      PROVE  (Scans[k].subints + Scans[k].intTime - 1) \div Scans[k].intTime \in Nat
  <2>1. PICK a \in Int, t \in Int :
          a = Scans[k].subints + Scans[k].intTime - 1 /\ t = Scans[k].intTime
    BY ScanTypes
  <2>2. a >= 0 /\ t >= 1
    BY <2>1, ScanTypes
  <2>3. a \div t \in Int /\ a \div t >= 0
    BY <2>2, Division
  <2> QED
    BY <2>1, <2>3
<1> QED
  BY <1>1, ScanTypes DEF SubintsOf, IntsOf

LEMMA ScanEnds == IsSum(ScanEnd, SubintsOf, NumScans)
<1>1. \A k \in 0 .. NumScans : k # 0 => SubintsOf[k] = Scans[k].subints
  BY ScanTypes DEF SubintsOf
<1>2. \A g : [k \in 0 .. NumScans |-> IF k = 0 THEN 0 ELSE g[k - 1] + SubintsOf[k]]
             = [k \in 0 .. NumScans |-> IF k = 0 THEN 0 ELSE g[k - 1] + Scans[k].subints]
  BY <1>1
<1>3. ScanEnd = CHOOSE g : g = [k \in 0 .. NumScans |->
                                  IF k = 0 THEN 0 ELSE g[k - 1] + SubintsOf[k]]
  BY <1>2, Zenon DEF ScanEnd
<1> QED
  BY <1>3, ScanTypes, SumTypes, SumDefined

LEMMA VisEnds == IsSum(VisEnd, IntsOf, NumScans)
<1> DEFINE i(k) == (Scans[k].subints + Scans[k].intTime - 1) \div Scans[k].intTime
<1>1. \A k \in 0 .. NumScans : k # 0 => IntsOf[k] = i(k)
  BY ScanTypes DEF IntsOf
<1>2. VisEnd = CHOOSE g : g = [k \in 0 .. NumScans |->
                                 IF k = 0 THEN 0 ELSE g[k - 1] + i(k)]
  BY DEF VisEnd
<1> HIDE DEF i
<1>3. \A g : [k \in 0 .. NumScans |-> IF k = 0 THEN 0 ELSE g[k - 1] + IntsOf[k]]
             = [k \in 0 .. NumScans |-> IF k = 0 THEN 0 ELSE g[k - 1] + i(k)]
  BY <1>1
<1>4. VisEnd = CHOOSE g : g = [k \in 0 .. NumScans |->
                                  IF k = 0 THEN 0 ELSE g[k - 1] + IntsOf[k]]
  BY <1>2, <1>3, Zenon
<1> QED
  BY <1>4, ScanTypes, SumTypes, SumDefined

(* The ends of a scan, in subintegrations and in integrations.             *)
LEMMA ScanFacts ==
  /\ MaxSubints \in Nat /\ VisEnd[NumScans] \in Nat
  /\ \A k \in 1 .. NumScans :
       /\ k \in Int /\ k - 1 \in 0 .. NumScans
       /\ ScanEnd[k - 1] \in Nat /\ ScanEnd[k] \in Nat
       /\ VisEnd[k - 1] \in Nat /\ VisEnd[k] \in Nat
       /\ ScanEnd[k] = ScanEnd[k - 1] + Scans[k].subints
       /\ VisEnd[k] = VisEnd[k - 1] + IntsOf[k]
  /\ \A j, k \in 0 .. NumScans :
       j <= k => ScanEnd[j] <= ScanEnd[k] /\ VisEnd[j] <= VisEnd[k]
<1>1. NumScans \in Nat /\ NumScans \in 0 .. NumScans
  BY ScanTypes
<1>2. MaxSubints \in Nat /\ VisEnd[NumScans] \in Nat
  BY <1>1, ScanEnds, VisEnds DEF IsSum, MaxSubints
<1>3. \A k \in 1 .. NumScans : SubintsOf[k] = Scans[k].subints
  BY DEF SubintsOf
<1>4. \A k \in 1 .. NumScans :
       /\ k \in Int /\ k - 1 \in 0 .. NumScans
       /\ ScanEnd[k - 1] \in Nat /\ ScanEnd[k] \in Nat
       /\ VisEnd[k - 1] \in Nat /\ VisEnd[k] \in Nat
       /\ ScanEnd[k] = ScanEnd[k - 1] + Scans[k].subints
       /\ VisEnd[k] = VisEnd[k - 1] + IntsOf[k]
  <2> TAKE k \in 1 .. NumScans
  <2>1. k \in Int /\ k - 1 \in 0 .. NumScans /\ k \in 0 .. NumScans
    BY <1>1
  <2> QED
    BY <2>1, <1>3, ScanEnds, VisEnds DEF IsSum
<1>5. ASSUME NEW j \in 0 .. NumScans, NEW k \in 0 .. NumScans, j <= k
      PROVE  ScanEnd[j] <= ScanEnd[k] /\ VisEnd[j] <= VisEnd[k]
  BY <1>1, <1>5, ScanEnds, VisEnds, SumTypes, SumGrows
<1> QED
  BY <1>2, <1>4, <1>5

LEMMA ScanOfFacts ==
  ASSUME NEW n \in Subints
  PROVE  /\ n \in Nat /\ ScanOf(n) \in 1 .. NumScans
         /\ ScanEnd[ScanOf(n) - 1] <= n /\ n < ScanEnd[ScanOf(n)]
<1>1. n \in Nat /\ n < ScanEnd[NumScans]
  BY ScanFacts DEF Subints, MaxSubints
<1>2. \E k \in 1 .. NumScans : ScanEnd[k - 1] <= n /\ n < ScanEnd[k]
  BY <1>1, ScanTypes, SumTypes, ScanEnds, SumParts
<1> QED
  BY <1>1, <1>2 DEF ScanOf

LEMMA VisScanFacts ==
  ASSUME NEW v \in Nat, ~PastEnd(v)
  PROVE  /\ VisScan(v) \in 1 .. NumScans
         /\ VisEnd[VisScan(v) - 1] <= v /\ v < VisEnd[VisScan(v)]
         /\ \A k \in 1 .. NumScans :
              VisEnd[k - 1] <= v /\ v < VisEnd[k] => k = VisScan(v)
<1>1. v < VisEnd[NumScans]
  BY ScanFacts DEF PastEnd
<1>2. /\ \E k \in 1 .. NumScans : VisEnd[k - 1] <= v /\ v < VisEnd[k]
      /\ \A j, k \in 1 .. NumScans :
           VisEnd[j - 1] <= v /\ v < VisEnd[j]
             /\ VisEnd[k - 1] <= v /\ v < VisEnd[k] => j = k
  BY <1>1, ScanTypes, SumTypes, VisEnds, SumParts
<1>3. /\ VisScan(v) \in 1 .. NumScans
      /\ VisEnd[VisScan(v) - 1] <= v /\ v < VisEnd[VisScan(v)]
  BY <1>2 DEF VisScan
<1> QED
  BY <1>2, <1>3

(* Subintegration n lies within integration IntegrationOf(n).              *)
LEMMA IntegrationFacts ==
  ASSUME NEW n \in Subints
  PROVE  /\ IntegrationOf(n) \in Nat /\ ~PastEnd(IntegrationOf(n))
         /\ VisEnd[ScanOf(n) - 1] <= IntegrationOf(n)
         /\ IntegrationOf(n) < VisEnd[ScanOf(n)]
<1> DEFINE k == ScanOf(n)
           a == n - ScanEnd[k - 1]
           t == Scans[k].intTime
           s == Scans[k].subints
<1>1. k \in 1 .. NumScans /\ ScanEnd[k - 1] <= n /\ n < ScanEnd[k] /\ n \in Nat
  BY ScanOfFacts
<1>2. /\ ScanEnd[k - 1] \in Nat /\ VisEnd[k - 1] \in Nat /\ VisEnd[k] \in Nat
      /\ ScanEnd[k] = ScanEnd[k - 1] + s
      /\ VisEnd[k] = VisEnd[k - 1] + IntsOf[k]
      /\ VisEnd[k] <= VisEnd[NumScans] /\ VisEnd[NumScans] \in Nat
  <2>1. k \in 0 .. NumScans /\ NumScans \in 0 .. NumScans /\ k <= NumScans
    BY <1>1, ScanTypes
  <2> QED
    BY <1>1, <2>1, ScanFacts
<1>3. t \in Int /\ t >= 1 /\ s \in Int /\ s >= 1
  BY <1>1, ScanTypes
<1>4. IntegrationOf(n) = VisEnd[k - 1] + (a \div t)
  BY DEF IntegrationOf
<1>5. IntsOf[k] = (s + t - 1) \div t
  BY <1>1 DEF IntsOf
<1> HIDE DEF k, s, t
<1>6. a \in Int /\ a >= 0 /\ a < s
  BY <1>1, <1>2, <1>3
<1> HIDE DEF a
<1>7. /\ a \div t \in Int /\ a \div t >= 0
      /\ \A b \in Int : b * t <= a <=> b <= a \div t
  BY <1>3, <1>6, Division
<1>8. PICK e \in Int : e = s + t - 1
  BY <1>3
<1>9. /\ e \div t \in Int
      /\ \A b \in Int : b * t <= e <=> b <= e \div t
  BY <1>3, <1>8, Division
<1>10. a \div t < e \div t
  <2> DEFINE q == a \div t
  <2>1. q * t <= a /\ q + 1 \in Int /\ q \in Int
    BY <1>7
  <2>2. (q + 1) * t = q * t + t /\ q * t \in Int
    BY <1>3, <2>1
  <2>3. (q + 1) * t <= e
    BY <1>3, <1>6, <1>8, <2>1, <2>2
  <2>4. q + 1 <= e \div t
    BY <1>9, <2>1, <2>3
  <2> QED
    BY <1>9, <2>1, <2>4
<1>11. /\ IntegrationOf(n) \in Nat
       /\ VisEnd[k - 1] <= IntegrationOf(n) /\ IntegrationOf(n) < VisEnd[k]
  BY <1>2, <1>4, <1>5, <1>7, <1>8, <1>9, <1>10
<1>12. ~PastEnd(IntegrationOf(n))
  BY <1>2, <1>11 DEF PastEnd
<1> QED
  BY <1>11, <1>12 DEF k

(* Where integration v lies in relation to that of subintegration n, told  *)
(* from their scans and, within a scan, from the times.                    *)
LEMMA Compare ==
  ASSUME NEW n \in Subints, NEW v \in Nat
  PROVE  /\ PastEnd(v) => IntegrationOf(n) < v
         /\ ~PastEnd(v) /\ VisScan(v) < ScanOf(n) => v < IntegrationOf(n)
         /\ ~PastEnd(v) /\ VisScan(v) > ScanOf(n) => IntegrationOf(n) < v
         /\ ~PastEnd(v) /\ VisScan(v) = ScanOf(n) =>
              /\ VisStart(v) \in Int
              /\ VisStart(v) <= n <=> v <= IntegrationOf(n)
              /\ n < VisStart(v) + Scans[ScanOf(n)].intTime
                   <=> IntegrationOf(n) <= v
<1> DEFINE k == ScanOf(n)   j == VisScan(v)   i == IntegrationOf(n)
<1>1. k \in 1 .. NumScans /\ ScanEnd[k - 1] <= n /\ n \in Nat
  BY ScanOfFacts
<1>2. i \in Nat /\ ~PastEnd(i) /\ VisEnd[k - 1] <= i /\ i < VisEnd[k]
  BY IntegrationFacts
<1>3. /\ VisEnd[k] \in Nat /\ VisEnd[k - 1] \in Nat /\ ScanEnd[k - 1] \in Nat
      /\ VisEnd[NumScans] \in Nat
  BY <1>1, ScanFacts
<1>4. ~PastEnd(v) => /\ j \in 1 .. NumScans
                     /\ VisEnd[j - 1] <= v /\ v < VisEnd[j]
                     /\ VisEnd[j - 1] \in Nat /\ VisEnd[j] \in Nat
  BY VisScanFacts, ScanFacts
<1>5. PastEnd(v) => i < v
  BY <1>2, <1>3 DEF PastEnd
<1>6. ASSUME ~PastEnd(v), j < k PROVE v < i
  <2>1. j \in 0 .. NumScans /\ k - 1 \in 0 .. NumScans /\ j <= k - 1
    BY <1>1, <1>4, <1>6, ScanTypes
  <2>2. VisEnd[j] <= VisEnd[k - 1]
    BY <2>1, ScanFacts
  <2> QED
    BY <2>2, <1>2, <1>3, <1>4, <1>6
<1>7. ASSUME ~PastEnd(v), j > k PROVE i < v
  <2>1. k \in 0 .. NumScans /\ j - 1 \in 0 .. NumScans /\ k <= j - 1
    BY <1>1, <1>4, <1>7, ScanTypes
  <2>2. VisEnd[k] <= VisEnd[j - 1]
    BY <2>1, ScanFacts
  <2> QED
    BY <2>2, <1>2, <1>3, <1>4, <1>7
<1>8. ASSUME ~PastEnd(v), j = k
      PROVE  /\ VisStart(v) \in Int
             /\ VisStart(v) <= n <=> v <= i
             /\ n < VisStart(v) + Scans[k].intTime <=> i <= v
  <2> DEFINE a == n - ScanEnd[k - 1]
             t == Scans[k].intTime
             b == v - VisEnd[k - 1]
  <2>1. t \in Int /\ t >= 1 /\ a \in Int /\ b \in Int
    BY <1>1, <1>3, ScanTypes
  <2>2. i = VisEnd[k - 1] + (a \div t)
    BY DEF IntegrationOf
  <2>3. VisStart(v) = ScanEnd[k - 1] + b * t
    BY <1>8 DEF VisStart
  <2> HIDE DEF a, b, t
  <2>4. /\ a \div t \in Int
        /\ b * t <= a <=> b <= a \div t
        /\ (b + 1) * t <= a <=> b + 1 <= a \div t
    <3>1. b + 1 \in Int
      BY <2>1
    <3> QED
      BY <2>1, <3>1, Division
  <2> USE DEF a, b
  <2>5. (b + 1) * t = b * t + t /\ b * t \in Int
    BY <2>1
  <2>6. /\ VisStart(v) \in Int
        /\ VisStart(v) <= n <=> b * t <= a
        /\ n < VisStart(v) + t <=> ~((b + 1) * t <= a)
    BY <1>1, <1>3, <2>1, <2>3, <2>5
  <2>7. /\ v <= i <=> b <= a \div t
        /\ i <= v <=> ~(b + 1 <= a \div t)
    BY <1>3, <2>2, <2>4
  <2> QED
    BY <2>4, <2>6, <2>7 DEF t
<1> QED
  BY <1>5, <1>6, <1>7, <1>8

(***************************************************************************)
(* What every state has: the types, what is known of the result in hand,   *)
(* and which end of the job comes first.                                   *)
(***************************************************************************)
InHand == Pending \/ mpc = "add"

HandInv ==
  /\ InHand => result \in Subints
  /\ Pending => IF sending THEN next < MaxSubints ELSE drain > 0

EndInv ==
  /\ Ended <=> ~keepwriting
  /\ Ended => ~sending /\ drain = 0
  /\ wpc \in {"lastunlock", "final", "exit"} => Ended
  /\ mpc = "unlockall" => count <= Span
  /\ wpc = "final" => wi < VisLength
  /\ wpc = "exit" => wi = VisLength
  /\ wpc \notin {"final", "exit"} => wi = 0
  /\ mpc = "done" => wpc = "exit"

BaseInv == TypeOK /\ HandInv /\ EndInv

LEMMA BaseFacts ==
  /\ NumCores \in Nat /\ NumCores >= 1 /\ RING \in Nat /\ RING >= 1
  /\ RING * NumCores \in Nat /\ RING * NumCores >= 1
  /\ MaxSubints \in Nat /\ Subints \subseteq Nat
  /\ VisLength \in Nat /\ VisLength >= 4
  /\ 0 \in VisSlots /\ 1 \in VisSlots /\ VisSlots \subseteq Nat
  /\ 0 \in Cores /\ Cores \subseteq Nat
  /\ \A n \in Nat : n % RING \in 0 .. RING - 1 /\ n % NumCores \in Cores
<1>1. NumCores \in Nat /\ NumCores >= 1 /\ RING \in Nat /\ RING >= 1
  BY CoresAssumption
<1>2. RING * NumCores \in Nat /\ RING * NumCores >= 1
  <2>1. PICK r \in Nat : RING = r + 1
    BY <1>1
  <2>2. RING * NumCores = r * NumCores + NumCores /\ r * NumCores >= 0
    BY <1>1, <2>1
  <2> QED
    BY <1>1, <2>1, <2>2
<1>3. \A n \in Nat : n % RING \in 0 .. RING - 1 /\ n % NumCores \in Cores
  BY <1>1 DEF Cores
<1> QED
  BY <1>1, <1>2, <1>3, ScanFacts, VisAssumption DEF Subints, VisSlots, Cores

SpanFits == Span \in Int /\ 0 <= Span /\ Span <= VisLength - 2

LEMMA SpanNumberNext == Inner' => SpanFits'
<1>1. Inner => SpanFits
  BY SpanNumber DEF SpanFits
<1> QED
  BY <1>1, PTL

LEMMA BaseInit == Init => BaseInv
<1> SUFFICES ASSUME Init PROVE BaseInv
  OBVIOUS
<1>1. TypeOK
  <2>1. /\ coretimes \in [0 .. RING - 1 -> [Cores -> Subints \cup {NoResult}]]
        /\ queue \in [Cores -> Seq(Subints)]
        /\ numsent \in [Cores -> Nat] /\ extrareceived \in [Cores -> Nat]
    BY DEF Init
  <2>2. /\ islocked \in [VisSlots -> BOOLEAN]
        /\ lock \in [VisSlots -> {Free, Main, Writer}]
        /\ vis \in [VisSlots -> Nat]
        /\ acc \in [VisSlots -> SUBSET Subints]
        /\ written \in Seq(Integrations)
    BY BaseFacts DEF Init
  <2>3. /\ next \in 0 .. MaxSubints /\ drain \in 0 .. RING * NumCores
        /\ from \in Cores /\ result \in Subints \cup {NoResult}
        /\ visindex \in VisSlots \cup {-1} /\ count \in 0 .. VisLength
        /\ wi \in 0 .. VisLength
    BY BaseFacts DEF Init
  <2> QED
    BY <2>1, <2>2, <2>3, BaseFacts DEF Init, TypeOK, MainSteps, WriterSteps
<1>2. HandInv
  BY DEF Init, HandInv, InHand, Pending, Locating
<1>3. EndInv
  BY BaseFacts DEF Init, EndInv, Ended
<1> QED
  BY <1>1, <1>2, <1>3 DEF BaseInv

(* The steps that only move on, or only change locks.                      *)
LEMMA BaseMoves ==
  ASSUME BaseInv, IInv, IInv',
         TestInitialised \/ CondWait \/ CondWake \/ SpuriousWakeup
           \/ Locate \/ SearchFound \/ SearchStale \/ SearchNewer
           \/ Extend \/ ExtendFull \/ CatchUp \/ CaughtUp \/ Relock
           \/ LockNext \/ ReleaseVis
  PROVE  BaseInv'
<1>1. ~Ended /\ ~Ended' /\ Inner /\ Inner'
  BY DEF IInv, Ended, TestInitialised, CondWait, CondWake, SpuriousWakeup,
    Locate, SearchFound, SearchStale, SearchNewer, Extend, ExtendFull, CatchUp,
    CaughtUp, Relock, LockNext, ReleaseVis, mainVars
<1>2. /\ oldest' \in VisSlots /\ newest' \in VisSlots
      /\ islocked' \in [VisSlots -> BOOLEAN]
      /\ lock' \in [VisSlots -> {Free, Main, Writer}]
      /\ keepwriting'
  BY <1>1 DEF Inner, RingInv
<1>3. /\ UNCHANGED <<sending, coreVars, drain, from, result, visVars, writerVars>>
      /\ Pending' <=> Pending
      /\ mpc' # "add"
  BY DEF TestInitialised, CondWait, CondWake, SpuriousWakeup, Locate,
    SearchFound, SearchStale, SearchNewer, Extend, ExtendFull, CatchUp,
    CaughtUp, Relock, LockNext, ReleaseVis, mainVars, Pending, Locating
<1>4. mpc' \in MainSteps /\ woken' \in BOOLEAN
  BY DEF BaseInv, TypeOK, TestInitialised, CondWait, CondWake, SpuriousWakeup,
    Locate, SearchFound, SearchStale, SearchNewer, Extend, ExtendFull, CatchUp,
    CaughtUp, Relock, LockNext, ReleaseVis, mainVars, MainSteps, Locating
<1>5. visindex' \in VisSlots \cup {-1}
  <2>1. mpc' = "resend" \/ UNCHANGED visindex
    BY DEF TestInitialised, CondWait, CondWake, SpuriousWakeup, Locate,
      SearchFound, SearchStale, SearchNewer, Extend, ExtendFull, CatchUp,
      CaughtUp, Relock, LockNext, ReleaseVis, mainVars
  <2> QED
    BY <2>1, <1>1 DEF BaseInv, TypeOK, Inner, PlaceInv, InWindow
<1>6. count' \in 0 .. VisLength
  <2>1. CASE CatchUp
    <3>1. mpc' = "relock"
      BY <2>1 DEF CatchUp
    <3>2. count' \in Nat /\ (Span + count)' <= VisLength - 3 /\ Span' >= 0
      BY <3>1, <1>1, SpanNumberNext DEF Inner, RoomInv, SpanFits
    <3> QED
      BY <3>2, <1>1, SpanNumberNext, BaseFacts DEF SpanFits
  <2>2. CASE Relock
    BY <2>2, <1>1, BaseFacts DEF BaseInv, TypeOK, Relock, Inner, RoomInv
  <2> QED
    BY <2>1, <2>2 DEF BaseInv, TypeOK, TestInitialised, CondWait, CondWake,
      SpuriousWakeup, Locate, SearchFound, SearchStale, SearchNewer, Extend,
      ExtendFull, CaughtUp, LockNext, ReleaseVis, mainVars
<1>7. /\ stale' \subseteq Subints /\ forced' \subseteq Subints
      /\ abandoned' \subseteq Nat
  BY DEF BaseInv, TypeOK, HandInv, InHand, Pending, Locating, GiveUpOldest,
    TestInitialised, CondWait, CondWake, SpuriousWakeup, Locate, SearchFound,
    SearchStale, SearchNewer, Extend, ExtendFull, CatchUp, CaughtUp, Relock,
    LockNext, ReleaseVis, mainVars, logVars
<1>8. TypeOK'
  BY <1>2, <1>3, <1>4, <1>5, <1>6, <1>7 DEF BaseInv, TypeOK, coreVars, visVars,
    writerVars
<1>9. HandInv'
  BY <1>3 DEF BaseInv, HandInv, InHand, coreVars
<1>10. EndInv'
  BY <1>1, <1>2, <1>3 DEF BaseInv, EndInv, Ended, writerVars
<1> QED
  BY <1>8, <1>9, <1>10 DEF BaseInv

LEMMA SendTypes ==
  ASSUME TypeOK, NEW c \in Cores, SendData(c), next < MaxSubints
  PROVE  /\ next' \in 0 .. MaxSubints
         /\ numsent' \in [Cores -> Nat]
         /\ extrareceived' \in [Cores -> Nat]
         /\ coretimes' \in [0 .. RING - 1 -> [Cores -> Subints \cup {NoResult}]]
         /\ queue' \in [Cores -> Seq(Subints)]
<1>1. next \in Subints /\ next \in Nat
  BY BaseFacts DEF TypeOK, Subints
<1>2. next' \in 0 .. MaxSubints
  BY <1>1, BaseFacts DEF TypeOK, SendData
<1>3. numsent' \in [Cores -> Nat] /\ extrareceived' \in [Cores -> Nat]
  <2>1. numsent \in [Cores -> Nat] /\ extrareceived \in [Cores -> Nat]
    BY DEF TypeOK
  <2>2. numsent' = [numsent EXCEPT ![c] = numsent[c] + 1]
        /\ extrareceived' = extrareceived
    BY DEF SendData
  <2>3. numsent[c] + 1 \in Nat
    BY <2>1
  <2> QED
    BY <2>1, <2>2, <2>3
<1>4. coretimes' \in [0 .. RING - 1 -> [Cores -> Subints \cup {NoResult}]]
  <2> DEFINE T == [Cores -> Subints \cup {NoResult}]
             k == numsent[c] % RING
  <2>1. k \in 0 .. RING - 1
    BY BaseFacts DEF TypeOK
  <2>2. coretimes \in [0 .. RING - 1 -> T]
    BY DEF TypeOK
  <2>3. coretimes' = [coretimes EXCEPT ![k] = [coretimes[k] EXCEPT ![c] = next]]
    BY DEF SendData
  <2> HIDE DEF k
  <2>4. [coretimes[k] EXCEPT ![c] = next] \in T
    BY <1>1, <2>1, <2>2
  <2> HIDE DEF T
  <2> QED
    BY <2>1, <2>2, <2>3, <2>4 DEF T
<1>5. queue' \in [Cores -> Seq(Subints)]
  <2>1. queue[c] \in Seq(Subints)
    BY DEF TypeOK
  <2>2. Append(queue[c], next) \in Seq(Subints)
    BY <1>1, <2>1
  <2>3. queue' = [queue EXCEPT ![c] = Append(queue[c], next)]
    BY DEF SendData
  <2> QED
    BY <2>2, <2>3 DEF TypeOK
<1> QED
  BY <1>2, <1>3, <1>4, <1>5

LEMMA BaseSends ==
  ASSUME BaseInv, SendFill \/ StopSending \/ Resend
  PROVE  BaseInv'
<1> USE DEF BaseInv
<1>1. CASE SendFill
  <2>1. next % NumCores \in Cores /\ next < MaxSubints
    <3>1. next \in Nat
      BY BaseFacts DEF TypeOK
    <3> QED
      BY <1>1, <3>1, BaseFacts DEF SendFill
  <2>2. TypeOK'
    BY <1>1, <2>1, SendTypes DEF SendFill, TypeOK, ringVars, visVars,
      writerVars, logVars
  <2>3. HandInv'
    BY <1>1 DEF SendFill, HandInv, InHand, Pending, Locating
  <2>4. EndInv'
    BY <1>1 DEF SendFill, EndInv, Ended, writerVars
  <2> QED
    BY <2>2, <2>3, <2>4
<1>2. CASE StopSending
  <2>1. drain' \in 0 .. RING * NumCores
    BY <1>2, BaseFacts DEF StopSending, TypeOK, Filling
  <2>2. TypeOK'
    BY <1>2, <2>1 DEF StopSending, TypeOK, ringVars, visVars, writerVars,
      logVars, coreVars
  <2>3. HandInv'
    BY <1>2 DEF StopSending, HandInv, InHand, Pending, Locating
  <2>4. EndInv'
    BY <1>2 DEF StopSending, EndInv, Ended, writerVars
  <2> QED
    BY <2>2, <2>3, <2>4
<1>3. CASE Resend
  <2>1. from \in Cores /\ Pending /\ result \in Subints
    BY <1>3 DEF TypeOK, Resend, HandInv, InHand, Pending, Locating
  <2>2. /\ next' \in 0 .. MaxSubints
        /\ numsent' \in [Cores -> Nat]
        /\ extrareceived' \in [Cores -> Nat]
        /\ coretimes' \in [0 .. RING - 1 -> [Cores -> Subints \cup {NoResult}]]
        /\ queue' \in [Cores -> Seq(Subints)]
        /\ drain' \in 0 .. RING * NumCores
    <3>1. CASE sending
      BY <1>3, <2>1, <3>1, SendTypes DEF Resend, HandInv, TypeOK
    <3>2. CASE ~sending
      <4>1. /\ extrareceived \in [Cores -> Nat]
            /\ extrareceived' = [extrareceived EXCEPT
                                   ![from] = extrareceived[from] + 1]
            /\ drain' = drain - 1 /\ drain > 0 /\ drain \in 0 .. RING * NumCores
            /\ UNCHANGED <<next, numsent, coretimes, queue>>
        BY <1>3, <2>1, <3>2 DEF Resend, HandInv, TypeOK
      <4>2. extrareceived[from] + 1 \in Nat
        BY <2>1, <4>1
      <4>3. extrareceived' \in [Cores -> Nat]
        BY <4>1, <4>2
      <4>4. drain' \in 0 .. RING * NumCores
        BY <4>1, BaseFacts
      <4> QED
        BY <4>1, <4>3, <4>4 DEF TypeOK
    <3> QED
      BY <3>1, <3>2
  <2>3. TypeOK'
    BY <1>3, <2>1, <2>2 DEF Resend, TypeOK, MainSteps, ringVars, visVars,
      writerVars
  <2>4. HandInv'
    BY <1>3, <2>1 DEF Resend, HandInv, InHand, Pending, Locating
  <2>5. EndInv'
    BY <1>3 DEF Resend, EndInv, Ended, writerVars
  <2> QED
    BY <2>3, <2>4, <2>5
<1> QED
  BY <1>1, <1>2, <1>3

LEMMA BaseReceive ==
  ASSUME BaseInv, NEW c \in Cores, Receive(c)
  PROVE  BaseInv'
<1>1. /\ queue[c] \in Seq(Subints) /\ queue[c] # << >>
      /\ queue' = [queue EXCEPT ![c] = Tail(queue[c])]
  BY DEF BaseInv, TypeOK, Receive
<1>2. Head(queue[c]) \in Subints /\ Tail(queue[c]) \in Seq(Subints)
  BY <1>1
<1>3. queue' \in [Cores -> Seq(Subints)]
  BY <1>1, <1>2 DEF BaseInv, TypeOK
<1>4. TypeOK'
  BY <1>2, <1>3 DEF Receive, BaseInv, TypeOK, MainSteps, Locating, ringVars,
    visVars, writerVars, logVars
<1>5. HandInv'
  BY <1>2, BaseFacts DEF Receive, BaseInv, TypeOK, HandInv, InHand, Pending
<1>6. EndInv'
  BY DEF Receive, BaseInv, EndInv, Ended, writerVars
<1> QED
  BY <1>4, <1>5, <1>6 DEF BaseInv

LEMMA BaseAdd == ASSUME BaseInv, IInv, AddData PROVE BaseInv'
<1>1. visindex \in VisSlots /\ result \in Subints
  BY DEF AddData, IInv, Ended, Inner, PlaceInv, InWindow, BaseInv, HandInv,
    InHand
<1>2. acc' \in [VisSlots -> SUBSET Subints]
  BY <1>1 DEF AddData, BaseInv, TypeOK
<1>3. TypeOK'
  BY <1>2 DEF AddData, BaseInv, TypeOK, MainSteps, coreVars, ringVars,
    writerVars, logVars
<1>4. HandInv'
  BY DEF AddData, BaseInv, HandInv, InHand, Pending, Locating
<1>5. EndInv'
  BY DEF AddData, BaseInv, EndInv, Ended, writerVars
<1> QED
  BY <1>3, <1>4, <1>5 DEF BaseInv

LEMMA BaseEnds ==
  ASSUME BaseInv, StopWriting \/ UnlockAll \/ Join
  PROVE  BaseInv'
<1>1. Span \in VisSlots /\ UNCHANGED <<oldest, newest>> /\ Span' = Span
  BY SpanType DEF BaseInv, TypeOK, StopWriting, UnlockAll, Join, ringVars, Span
<1>2. lock' \in [VisSlots -> {Free, Main, Writer}]
  BY DEF BaseInv, TypeOK, StopWriting, UnlockAll, Join, ringVars, Release
<1>3. count' \in 0 .. VisLength
  <2>1. CASE StopWriting
    BY <2>1, BaseFacts DEF StopWriting
  <2>2. CASE UnlockAll
    <3>1. count' = count + 1 /\ count <= Span /\ count \in 0 .. VisLength
      BY <2>2 DEF UnlockAll, BaseInv, EndInv, TypeOK
    <3>2. Span \in Int /\ Span < VisLength /\ VisLength \in Int
      BY <1>1, SlotNumber
    <3> QED
      BY <3>1, <3>2
  <2>3. CASE Join
    BY <2>3 DEF Join, BaseInv, TypeOK
  <2> QED
    BY <2>1, <2>2, <2>3
<1>4. mpc' \in MainSteps /\ keepwriting' \in BOOLEAN
  BY DEF BaseInv, TypeOK, StopWriting, UnlockAll, Join, MainSteps
<1>5. UNCHANGED <<sending, coreVars, drain, from, result, visindex, islocked,
                  visVars, woken, writerVars, logVars>>
  BY DEF StopWriting, UnlockAll, Join, ringVars
<1>6. TypeOK'
  BY <1>1, <1>2, <1>3, <1>4, <1>5 DEF BaseInv, TypeOK, coreVars, visVars,
    writerVars, logVars
<1>7. HandInv'
  BY DEF BaseInv, HandInv, InHand, Pending, Locating, StopWriting, UnlockAll,
    Join
<1>8. EndInv'
  <2>1. CASE StopWriting
    BY <2>1, <1>1, BaseFacts DEF BaseInv, EndInv, Ended, StopWriting,
      writerVars, VisSlots
  <2>2. CASE UnlockAll
    BY <2>2, <1>1, BaseFacts DEF BaseInv, EndInv, Ended, UnlockAll,
      writerVars, VisSlots, TypeOK
  <2>3. CASE Join
    BY <2>3 DEF BaseInv, EndInv, Ended, Join, writerVars
  <2> QED
    BY <2>1, <2>2, <2>3
<1> QED
  BY <1>6, <1>7, <1>8 DEF BaseInv

(* What written gets: nothing, or one integration.                         *)
LEMMA OutputTypes ==
  ASSUME TypeOK, NEW s \in VisSlots
  PROVE  /\ Output(s) \in Seq(Integrations)
         /\ written \o Output(s) \in Seq(Integrations)
<1>1. [vis |-> vis[s], subints |-> acc[s]] \in Integrations
  BY DEF TypeOK, Integrations
<1>2. Output(s) \in Seq(Integrations) /\ written \in Seq(Integrations)
  BY <1>1 DEF Output, TypeOK
<1> QED
  BY <1>2

LEMMA NextSlot ==
  ASSUME NEW s \in VisSlots, NEW k \in 0 .. VisLength
  PROVE  Wrap(s + k) \in VisSlots
<1>1. k \in Int /\ 0 <= k /\ k <= VisLength
  BY BaseFacts
<1> QED
  BY <1>1, WrapCases

LEMMA BaseWriter == ASSUME BaseInv, WriterStep PROVE BaseInv'
<1>1. UNCHANGED mainVars
  BY DEF WriterStep, LockEnd, SetInitialised, Signal, CheckKeepWriting,
    LockSegment, UnlockPrevious, WriteSegment, Increment, LastUnlock, FinalWrite
<1>2. ws' \in VisSlots
  <2>1. Wrap(ws + 1) \in VisSlots
    <3>1. 1 \in 0 .. VisLength
      BY BaseFacts
    <3> QED
      BY <3>1, NextSlot DEF BaseInv, TypeOK
  <2>2. ws' = ws \/ ws' = Wrap(ws + 1)
    BY DEF WriterStep, LockEnd, SetInitialised, Signal, CheckKeepWriting,
      LockSegment, UnlockPrevious, WriteSegment, Increment, LastUnlock,
      FinalWrite
  <2> QED
    BY <2>1, <2>2 DEF BaseInv, TypeOK
<1>3. written' \in Seq(Integrations)
  <2>1. ws \in VisSlots /\ Wrap(ws + wi) \in VisSlots
    BY NextSlot DEF BaseInv, TypeOK
  <2> QED
    BY <2>1, OutputTypes DEF BaseInv, TypeOK, WriterStep, LockEnd,
      SetInitialised, Signal, CheckKeepWriting, LockSegment, UnlockPrevious,
      WriteSegment, Increment, LastUnlock, FinalWrite
<1>4. vis' \in [VisSlots -> Nat] /\ acc' \in [VisSlots -> SUBSET Subints]
  <2>1. vis \in [VisSlots -> Nat] /\ acc \in [VisSlots -> SUBSET Subints]
    BY DEF BaseInv, TypeOK
  <2>2. ws \in VisSlots /\ vis[ws] + VisLength \in Nat
    <3>1. ws \in VisSlots
      BY DEF BaseInv, TypeOK
    <3>2. vis[ws] \in Nat /\ VisLength \in Nat
      BY <2>1, <3>1, BaseFacts
    <3> QED
      BY <3>1, <3>2
  <2>3. \/ UNCHANGED visVars
        \/ /\ vis' = [vis EXCEPT ![ws] = vis[ws] + VisLength]
           /\ acc' = [acc EXCEPT ![ws] = {}]
    BY DEF WriterStep, LockEnd, SetInitialised, Signal, CheckKeepWriting,
      LockSegment, UnlockPrevious, WriteSegment, Increment, LastUnlock,
      FinalWrite
  <2> QED
    BY <2>1, <2>2, <2>3 DEF visVars
<1>5. /\ lock' \in [VisSlots -> {Free, Main, Writer}]
      /\ woken' \in BOOLEAN /\ initialised' \in BOOLEAN
      /\ wpc' \in WriterSteps
  BY DEF BaseInv, TypeOK, WriterStep, LockEnd, SetInitialised, Signal,
    CheckKeepWriting, LockSegment, UnlockPrevious, WriteSegment, Increment,
    LastUnlock, FinalWrite, Acquire, Release, WGo, WriterSteps
<1>6. /\ wi' \in 0 .. VisLength
      /\ wpc' = "final" => wi' < VisLength
      /\ wpc' = "exit" => wi' = VisLength
      /\ mpc # "done"
      /\ wpc' \notin {"final", "exit"} => wi' = 0
      /\ wpc' \in {"lastunlock", "final", "exit"} => Ended
  <2>1. CASE FinalWrite
    <3>1. /\ wi \in 0 .. VisLength /\ wi < VisLength /\ Ended
          /\ wi' = wi + 1
          /\ wpc' = IF wi' = VisLength THEN "exit" ELSE "final"
          /\ mpc # "done"
      BY <2>1 DEF BaseInv, EndInv, TypeOK, FinalWrite
    <3> QED
      BY <3>1, BaseFacts
  <2>2. CASE LastUnlock \/ CheckKeepWriting
    <3>1. wi' = 0 /\ (wpc' = "lock" \/ Ended) /\ wpc' # "exit" /\ mpc # "done"
      BY <2>2 DEF BaseInv, EndInv, LastUnlock, CheckKeepWriting, WGo
    <3> QED
      BY <3>1, <2>2, BaseFacts DEF LastUnlock, CheckKeepWriting, WGo
  <2>3. CASE \/ LockEnd \/ SetInitialised \/ Signal \/ LockSegment
             \/ UnlockPrevious \/ WriteSegment \/ Increment
    <3>1. /\ wi' = 0 /\ wpc' \notin {"lastunlock", "final", "exit"}
          /\ mpc # "done"
      BY <2>3 DEF BaseInv, EndInv, LockEnd, SetInitialised, Signal, LockSegment,
        UnlockPrevious, WriteSegment, Increment, WGo
    <3> QED
      BY <3>1, BaseFacts
  <2> QED
    BY <2>1, <2>2, <2>3 DEF WriterStep
<1>7. TypeOK'
  BY <1>1, <1>2, <1>3, <1>4, <1>5, <1>6 DEF BaseInv, TypeOK, mainVars,
    coreVars, logVars
<1>8. HandInv'
  BY <1>1 DEF BaseInv, HandInv, InHand, Pending, mainVars, coreVars
<1>9. EndInv'
  BY <1>1, <1>6 DEF BaseInv, EndInv, Ended, mainVars, Span
<1> QED
  BY <1>7, <1>8, <1>9 DEF BaseInv

LEMMA BaseStep == BaseInv /\ IInv /\ IInv' /\ [Next]_vars => BaseInv'
<1> SUFFICES ASSUME BaseInv, IInv, IInv', [Next]_vars PROVE BaseInv'
  OBVIOUS
<1>1. ASSUME UNCHANGED vars PROVE BaseInv'
  BY <1>1 DEF vars, BaseInv, TypeOK, HandInv, InHand, Pending, EndInv, Ended,
    Span, coreVars, ringVars, visVars, writerVars, logVars
<1> QED
  BY <1>1, BaseMoves, BaseSends, BaseReceive, BaseAdd, BaseEnds, BaseWriter
  DEF Next, MainStep, Finished

LEMMA BaseInvariance == Spec => []BaseInv
BY BaseInit, BaseStep, Invariance, PTL DEF Spec

(* All indices, counters and records of the FxManager keep their range.    *)
THEOREM TypeCorrect == Spec => []TypeOK
<1>1. BaseInv => TypeOK
  BY DEF BaseInv
<1> QED
  BY <1>1, BaseInvariance, PTL

(***************************************************************************)
(* The order of the integrations round the ring.                           *)
(***************************************************************************)
(* Every Visibility is that many integrations ahead of the one the write   *)
(* thread is at as it is places ahead of it; once the end of the job is    *)
(* reached the Visibilities no longer move on.                             *)
OrderInv ==
  IF PastEnd(vis[ws]) THEN \A s \in VisSlots : PastEnd(vis[s])
  ELSE \A s \in VisSlots : vis[s] = vis[ws] + Dist(ws, s)

LEMMA OrderInit == Init => OrderInv
<1> SUFFICES ASSUME Init PROVE OrderInv
  OBVIOUS
<1>1. ws = 0 /\ 0 \in VisSlots /\ \A s \in VisSlots : vis[s] = s
  BY BaseFacts DEF Init
<1>2. \A s \in VisSlots : s \in Int /\ 0 <= s /\ Dist(ws, s) = s - 0
  BY <1>1, DistCases, SlotNumber
<1>3. CASE PastEnd(vis[ws])
  BY <1>1, <1>2, <1>3, ScanFacts DEF PastEnd, OrderInv
<1>4. CASE ~PastEnd(vis[ws])
  BY <1>1, <1>2, <1>4 DEF OrderInv
<1> QED
  BY <1>3, <1>4

LEMMA OrderStep == BaseInv /\ OrderInv /\ [Next]_vars => OrderInv'
<1> SUFFICES ASSUME BaseInv, OrderInv, [Next]_vars PROVE OrderInv'
  OBVIOUS
<1>1. ASSUME UNCHANGED <<vis, ws>> PROVE OrderInv'
  BY <1>1 DEF OrderInv, Dist, Wrap
<1>2. CASE Increment
  <2>1. /\ ws \in VisSlots /\ vis \in [VisSlots -> Nat]
        /\ ws' = Wrap(ws + 1) /\ ws' \in VisSlots
        /\ 1 \in VisSlots /\ VisLength \in Int /\ VisLength >= 4
        /\ VisEnd[NumScans] \in Nat
    <3>1. ws \in VisSlots /\ vis \in [VisSlots -> Nat] /\ ws' = Wrap(ws + 1)
      BY <1>2 DEF BaseInv, TypeOK, Increment
    <3>2. ws' \in VisSlots
      BY <3>1, DistNext
    <3> QED
      BY <3>1, <3>2, BaseFacts, ScanFacts
  <2>2. CASE PastEnd(vis[ws])
    <3>1. UNCHANGED vis /\ \A s \in VisSlots : PastEnd(vis[s])
      BY <1>2, <2>2 DEF Increment, visVars, OrderInv
    <3> QED
      BY <3>1, <2>1 DEF OrderInv
  <2>3. CASE ~PastEnd(vis[ws])
    <3>1. /\ vis' = [vis EXCEPT ![ws] = vis[ws] + VisLength]
          /\ \A s \in VisSlots : vis[s] = vis[ws] + Dist(ws, s)
      BY <1>2, <2>3 DEF Increment, OrderInv
    <3>2. \A s \in VisSlots : Dist(ws, s) \in Int /\ Dist(ws, s) >= 0
      BY <2>1, DistCases, SlotNumber
    <3>3. Dist(ws, ws) = 0 /\ Dist(ws, ws') = 1 /\ ws' # ws
      BY <2>1, DistInverse, DistNext
    <3>4. \A s \in VisSlots :
            /\ Dist(ws, s) >= 1 => Dist(ws', s) = Dist(ws, s) - 1
            /\ Dist(ws, s) < 1 => Dist(ws', s) = Dist(ws, s) - 1 + VisLength
      BY <2>1, DistAdvance
    <3>5. vis[ws] \in Nat /\ vis'[ws'] = vis[ws] + 1
      BY <2>1, <3>1, <3>3
    <3>6. \A s \in VisSlots : vis'[s] = vis'[ws'] + Dist(ws', s)
      <4> TAKE s \in VisSlots
      <4>1. CASE s = ws
        BY <2>1, <3>1, <3>3, <3>4, <3>5, <4>1
      <4>2. CASE s # ws
        <5>1. Dist(ws, s) # 0
          BY <2>1, <4>2, DistInverse
        <5> QED
          BY <2>1, <3>1, <3>2, <3>4, <3>5, <4>2, <5>1
      <4> QED
        BY <4>1, <4>2
    <3>7. \A s \in VisSlots : Dist(ws', s) \in Int /\ Dist(ws', s) >= 0
      BY <2>1, DistCases, SlotNumber
    <3>8. \A s \in VisSlots : vis'[s] \in Int /\ vis'[s] >= vis'[ws']
      BY <3>5, <3>6, <3>7
    <3>9. (\A s \in VisSlots : vis[s] = vis[ws] + Dist(ws, s))'
      BY <3>6 DEF Dist, Wrap
    <3>10. PastEnd(vis[ws])' => (\A s \in VisSlots : PastEnd(vis[s]))'
      BY <2>1, <3>5, <3>8 DEF PastEnd
    <3> QED
      BY <3>9, <3>10 DEF OrderInv
  <2> QED
    BY <2>2, <2>3
<1>3. ASSUME ~Increment PROVE UNCHANGED <<vis, ws>>
  BY <1>3 DEF Next, vars, MainStep, WriterStep, TestInitialised, CondWait,
    CondWake, SendFill, Locate, SearchFound, SearchStale, SearchNewer, Extend,
    ExtendFull, CatchUp, CaughtUp, Relock, Resend, AddData, LockNext,
    ReleaseVis, StopWriting, UnlockAll, Join, StopSending, SpuriousWakeup,
    Receive, LockEnd, SetInitialised, Signal, CheckKeepWriting, LockSegment,
    UnlockPrevious, WriteSegment, LastUnlock, FinalWrite, Finished, visVars,
    writerVars
<1> QED
  BY <1>1, <1>2, <1>3

(* k steps on from slot b, if that does not lead back to a.                *)
LEMMA DistAdd ==
  ASSUME NEW a \in VisSlots, NEW b \in VisSlots, NEW k \in VisSlots,
         Dist(a, b) + k < VisLength
  PROVE  Wrap(b + k) \in VisSlots /\ Dist(a, Wrap(b + k)) = Dist(a, b) + k
<1> DEFINE d == Dist(a, b)   c == Wrap(b + k)   e == Dist(a, c)
<1>1. /\ a \in Int /\ 0 <= a /\ a < VisLength /\ VisLength \in Int
      /\ b \in Int /\ 0 <= b /\ b < VisLength
      /\ k \in Int /\ 0 <= k /\ k < VisLength /\ k <= VisLength
  BY SlotNumber
<1>2. /\ a <= b => d = b - a
      /\ b < a => d = b - a + VisLength
  BY DistCases
<1>3. /\ b + k < VisLength => c = b + k
      /\ VisLength <= b + k => c = b + k - VisLength
      /\ c \in VisSlots
  BY <1>1, WrapCases
<1> HIDE DEF c
<1>4. /\ a <= c => e = c - a
      /\ c < a => e = c - a + VisLength
  BY <1>3, DistCases
<1>5. d + k < VisLength
  OBVIOUS
<1> HIDE DEF d, e
<1>6. e = d + k
  BY <1>1, <1>2, <1>3, <1>4, <1>5
<1> QED
  BY <1>3, <1>6 DEF c, d, e

LEMMA DistBack ==
  ASSUME NEW a \in VisSlots, NEW b \in VisSlots, a # b
  PROVE  Dist(a, b) + Dist(b, a) = VisLength
<1>1. /\ a \in Int /\ 0 <= a /\ a < VisLength /\ VisLength \in Int
      /\ b \in Int /\ 0 <= b /\ b < VisLength
  BY SlotNumber
<1> QED
  BY <1>1, DistCases

(* The Visibilities main has locked are consecutive integrations.          *)
LEMMA WindowOrder ==
  ASSUME BaseInv, Inner, Started, OrderInv, ~PastEnd(vis[ws]),
         NEW k \in 0 .. Span
  PROVE  /\ Wrap(oldest + k) \in VisSlots
         /\ vis[Wrap(oldest + k)] = vis[oldest] + k
<1> DEFINE s == Wrap(oldest + k)
<1>1. /\ ws \in VisSlots /\ oldest \in VisSlots
      /\ ws = oldest \/ Dist(oldest, ws) > Span
      /\ \A r \in VisSlots : vis[r] = vis[ws] + Dist(ws, r)
      /\ \A r \in VisSlots : vis[r] \in Nat
  BY DEF Inner, RingInv, WindowInv, OrderInv, BaseInv, TypeOK
<1>2. /\ Span \in Int /\ 0 <= Span /\ Span <= VisLength - 2
      /\ VisLength \in Int /\ VisLength >= 4
  BY SpanNumber
<1>3. k \in VisSlots /\ k \in Int /\ 0 <= k /\ k <= Span
  BY <1>2 DEF VisSlots
<1>4. Dist(ws, oldest) \in Int /\ Dist(oldest, ws) \in Int /\ 0 <= Dist(ws, oldest)
  BY <1>1, DistCases, SlotNumber
<1>5. Dist(ws, oldest) + k < VisLength
  <2>1. CASE ws = oldest
    BY <1>1, <1>2, <1>3, <2>1, DistInverse
  <2>2. CASE ws # oldest
    <3>1. Dist(oldest, ws) + Dist(ws, oldest) = VisLength
      BY <1>1, <2>2, DistBack
    <3> QED
      BY <3>1, <2>2, <1>1, <1>2, <1>3, <1>4
  <2> QED
    BY <2>1, <2>2
<1>6. s \in VisSlots /\ Dist(ws, s) = Dist(ws, oldest) + k
  BY <1>1, <1>3, <1>5, DistAdd
<1>7. /\ vis[s] = vis[ws] + Dist(ws, s)
      /\ vis[oldest] = vis[ws] + Dist(ws, oldest)
      /\ vis[ws] \in Nat
  BY <1>1, <1>6
<1> HIDE DEF s
<1> QED
  BY <1>3, <1>4, <1>6, <1>7 DEF s

(* The next Visibility that main locks is the next integration.            *)
LEMMA NextOrder ==
  ASSUME BaseInv, Inner, Started, OrderInv, ~PastEnd(vis[ws]), LockNewest
  PROVE  newest' \in VisSlots /\ vis[newest'] = vis[newest] + 1
<1>1. /\ ws \in VisSlots /\ oldest \in VisSlots /\ newest \in VisSlots
      /\ \A r \in VisSlots : vis[r] = vis[ws] + Dist(ws, r)
      /\ vis[ws] \in Nat
      /\ lock[newest] = Main
      /\ newest' = Wrap(newest + 1) /\ lock[newest'] = Free
  BY DEF Inner, RingInv, WindowInv, OrderInv, BaseInv, TypeOK, LockNewest,
    Acquire
<1>2. newest' # ws
  <2> SUFFICES ASSUME newest' = ws PROVE FALSE
    OBVIOUS
  <2>1. Previous = newest
    <3>1. /\ newest \in Int /\ 0 <= newest /\ newest < VisLength
          /\ ws \in Int /\ 0 <= ws /\ ws < VisLength
          /\ VisLength \in Int /\ VisLength >= 4
      BY <1>1, SlotNumber
    <3>2. Previous \in VisSlots /\ Wrap(Previous + 1) = ws
      BY <1>1, PreviousSlot
    <3>3. 1 \in Int /\ 0 <= 1 /\ 1 <= VisLength
      BY <3>1
    <3>4. /\ newest + 1 < VisLength => ws = newest + 1
          /\ VisLength <= newest + 1 => ws = newest + 1 - VisLength
          /\ Previous + 1 < VisLength => ws = Previous + 1
          /\ VisLength <= Previous + 1 => ws = Previous + 1 - VisLength
      BY <1>1, <3>2, <3>3, WrapCases
    <3>5. Previous \in Int /\ 0 <= Previous /\ Previous < VisLength
      BY <3>2, SlotNumber
    <3> QED
      BY <3>1, <3>4, <3>5
  <2>2. /\ \A s \in VisSlots : WriterHolds(s) => lock[s] = Writer
        /\ wpc \notin {"lockend", "init"}
        /\ wpc \in {"signal", "check", "lock", "unlockprev", "write",
                    "increment"}
    BY DEF Inner, WriterInv, WindowInv
  <2>3. WriterHolds(newest) \/ WriterHolds(ws)
    BY <2>1, <2>2 DEF WriterHolds
  <2> QED
    BY <1>1, <2>2, <2>3 DEF Free, Main, Writer
<1>3. /\ newest' \in VisSlots
      /\ Dist(ws, newest) = VisLength - 1 => newest' = ws
      /\ Dist(ws, newest) < VisLength - 1 =>
           Dist(ws, newest') = Dist(ws, newest) + 1
  BY <1>1, DistNext
<1>4. /\ Dist(ws, newest) \in Int /\ Dist(ws, newest) < VisLength
      /\ VisLength \in Int
  BY <1>1, DistCases, SlotNumber
<1>5. Dist(ws, newest') = Dist(ws, newest) + 1
  BY <1>2, <1>3, <1>4
<1> QED
  BY <1>1, <1>3, <1>4, <1>5

(***************************************************************************)
(* Where locateVisIndex puts a result.                                     *)
(***************************************************************************)
(* The scans never go back to a shorter integration time, or have only one *)
(* between them.                                                           *)
NeverShorter ==
  \A j, k \in 1 .. NumScans : j <= k => Scans[j].intTime <= Scans[k].intTime
EvenScans == \A j, k \in 1 .. NumScans : Scans[j].intTime = Scans[k].intTime

(* Whatever is in a Core or in hand has been sent.                         *)
SentInv ==
  /\ \A c \in Cores : \A i \in 1 .. Len(queue[c]) : queue[c][i] < next
  /\ InHand => result < next

PlacedInv ==
  LET i == IntegrationOf(result) IN
  /\ mpc = "extend" => vis[newest] < i
  /\ mpc \in {"catchup", "relock"} => result \in forced
  /\ mpc \in {"resend", "add"} /\ visindex # -1 /\ result \notin forced =>
       /\ vis[visindex] <= i
       /\ EvenScans => vis[visindex] = i
  /\ mpc = "resend" /\ visindex = -1 => i < vis[oldest]

LEMMA ScanOrder ==
  ASSUME NEW m \in Subints, NEW n \in Subints, m <= n
  PROVE  ScanOf(m) <= ScanOf(n)
<1>1. /\ ScanOf(m) \in 1 .. NumScans /\ ScanEnd[ScanOf(m) - 1] <= m /\ m \in Nat
      /\ ScanOf(n) \in 1 .. NumScans /\ n < ScanEnd[ScanOf(n)] /\ n \in Nat
  BY ScanOfFacts
<1>2. SUFFICES ASSUME ScanOf(n) < ScanOf(m) PROVE FALSE
  BY <1>1, ScanTypes
<1>3. /\ ScanOf(n) \in 0 .. NumScans /\ ScanOf(m) - 1 \in 0 .. NumScans
      /\ ScanOf(n) <= ScanOf(m) - 1
  BY <1>1, <1>2, ScanTypes
<1>4. ScanEnd[ScanOf(n)] <= ScanEnd[ScanOf(m) - 1]
  BY <1>3, ScanFacts
<1>5. ScanEnd[ScanOf(n)] \in Nat /\ ScanEnd[ScanOf(m) - 1] \in Nat
  BY <1>1, ScanFacts
<1> QED
  BY <1>1, <1>4, <1>5

(* The two tests of locateVisIndex, told in integrations.                  *)
LEMMA Tests ==
  ASSUME BaseInv, SentInv, OwnTime, mpc \in Locating, NEW s \in VisSlots
  PROVE  /\ vis[s] \in Nat /\ IntegrationOf(result) \in Nat
         /\ NotBefore(s) <=> vis[s] <= IntegrationOf(result)
         /\ NeverShorter /\ IntegrationOf(result) <= vis[s] => NotAfter(s)
         /\ EvenScans /\ NotAfter(s) => IntegrationOf(result) <= vis[s]
<1> DEFINE v == vis[s]   n == result   i == IntegrationOf(n)
           t == Scans[ScanOf(n)].intTime
<1>1. /\ n \in Subints /\ n \in Nat /\ n < next /\ CoreTime = n
      /\ v \in Nat /\ Pending
  BY BaseFacts DEF BaseInv, TypeOK, HandInv, InHand, Pending, SentInv, OwnTime
<1>2. i \in Nat /\ ScanOf(n) \in 1 .. NumScans
  BY <1>1, IntegrationFacts, ScanOfFacts
<1>3. /\ PastEnd(v) => i < v
      /\ ~PastEnd(v) /\ VisScan(v) < ScanOf(n) => v < i
      /\ ~PastEnd(v) /\ VisScan(v) > ScanOf(n) => i < v
      /\ ~PastEnd(v) /\ VisScan(v) = ScanOf(n) =>
           /\ VisStart(v) \in Int
           /\ VisStart(v) <= n <=> v <= i
           /\ n < VisStart(v) + t <=> i <= v
  BY <1>1, Compare
<1>4. ~PastEnd(v) => VisScan(v) \in 1 .. NumScans
  BY <1>1, VisScanFacts
<1>5. t \in Int /\ IntTime \in Int
      /\ (NeverShorter => t <= IntTime) /\ (EvenScans => t = IntTime)
  <2>1. PICK k \in 1 .. NumScans : /\ IntTime = Scans[k].intTime
                                   /\ ScanOf(n) <= k
    <3>1. CASE sending
      <4>1. next \in Subints /\ n <= next
        BY <1>1, <3>1, BaseFacts DEF BaseInv, HandInv, TypeOK, Subints
      <4> QED
        BY <3>1, <4>1, <1>1, ScanOfFacts, ScanOrder DEF IntTime
    <3>2. CASE ~sending
      BY <1>2, <3>2, ScanTypes DEF IntTime
    <3> QED
      BY <3>1, <3>2
  <2> QED
    BY <2>1, <1>2, ScanTypes DEF NeverShorter, EvenScans
<1>6. /\ LaterScan(s) <=> ~PastEnd(v) /\ ScanOf(n) > VisScan(v)
      /\ SameScan(s) <=> ~PastEnd(v) /\ ScanOf(n) = VisScan(v)
      /\ NotBefore(s) <=> LaterScan(s) \/ (SameScan(s) /\ VisStart(v) <= n)
      /\ NotAfter(s) <=> /\ ~LaterScan(s)
                         /\ SameScan(s) => n < VisStart(v) + IntTime
  BY <1>1 DEF LaterScan, SameScan, NotBefore, NotAfter
<1> HIDE DEF v, i, t, n
<1>7. NotBefore(s) <=> v <= i
  BY <1>1, <1>2, <1>3, <1>4, <1>6
<1>8. ASSUME NeverShorter, i <= v PROVE NotAfter(s)
  BY <1>1, <1>2, <1>3, <1>4, <1>5, <1>6, <1>8
<1>9. ASSUME EvenScans, NotAfter(s) PROVE i <= v
  BY <1>1, <1>2, <1>3, <1>4, <1>5, <1>6, <1>9
<1> QED
  BY <1>1, <1>2, <1>7, <1>8, <1>9 DEF v, i, n

LEMMA EvenNeverShorter == EvenScans => NeverShorter
BY ScanTypes DEF EvenScans, NeverShorter

LEMMA SentInit == Init => SentInv
BY DEF Init, SentInv, InHand, Pending, Locating

LEMMA SentSend ==
  ASSUME BaseInv, SentInv, NEW c \in Cores, SendData(c)
  PROVE  /\ next' = next + 1 /\ next \in Nat
         /\ \A d \in Cores : \A i \in 1 .. Len(queue'[d]) : queue'[d][i] < next'
<1>1. /\ queue \in [Cores -> Seq(Subints)] /\ next \in Nat /\ next' = next + 1
      /\ queue' = [queue EXCEPT ![c] = Append(queue[c], next)]
      /\ \A d \in Cores : \A i \in 1 .. Len(queue[d]) : queue[d][i] < next
  <2>1. next \in Nat
    BY BaseFacts DEF BaseInv, TypeOK
  <2> QED
    BY <2>1 DEF BaseInv, TypeOK, SentInv, SendData
<1>2. ASSUME NEW d \in Cores, NEW i \in 1 .. Len(queue'[d])
      PROVE  queue'[d][i] < next'
  <2>1. queue[d] \in Seq(Subints)
    BY <1>1
  <2>2. \A j \in 1 .. Len(queue[d]) : queue[d][j] \in Nat /\ queue[d][j] < next
    <3>1. \A j \in 1 .. Len(queue[d]) : queue[d][j] \in Subints
      BY <2>1
    <3> QED
      BY <1>1, <3>1, BaseFacts
  <2>3. CASE d = c
    <3>1. queue'[d] = Append(queue[d], next)
      BY <1>1, <2>3
    <3>2. i \in 1 .. Len(queue[d]) + 1
      BY <2>1, <3>1
    <3>3. CASE i = Len(queue[d]) + 1
      BY <3>1, <3>3, <2>1, <1>1
    <3>4. CASE i # Len(queue[d]) + 1
      <4>1. i \in 1 .. Len(queue[d])
        BY <3>2, <3>4, <2>1
      <4>2. queue'[d][i] = queue[d][i]
        BY <2>1, <3>1, <4>1
      <4> QED
        BY <4>1, <4>2, <2>2, <1>1
    <3> QED
      BY <3>3, <3>4
  <2>4. CASE d # c
    <3>1. queue'[d] = queue[d]
      BY <1>1, <2>4
    <3> QED
      BY <3>1, <2>2, <1>1, <1>2
  <2> QED
    BY <2>3, <2>4
<1> QED
  BY <1>1, <1>2

(* The steps that leave what is in the Cores and in hand alone.            *)
LEMMA QuietSteps ==
  ASSUME [Next]_vars, ~SendFill, ~(\E c \in Cores : Receive(c)), ~Resend
  PROVE  /\ UNCHANGED <<coreVars, from, result, stale>>
         /\ Pending' <=> Pending
         /\ mpc' = "add" => mpc = "add"
         /\ ~AddData => (mpc' = "add" <=> mpc = "add")
         /\ ~StopSending => UNCHANGED <<sending, drain>>
<1>1. CASE UNCHANGED vars \/ Finished
  BY <1>1 DEF vars, Finished, coreVars, logVars, Pending
<1>2. CASE MainStep
  BY <1>2 DEF MainStep, coreVars, logVars, TestInitialised, CondWait, CondWake, Locate,
    SearchFound, SearchStale, SearchNewer, Extend, ExtendFull, CatchUp,
    CaughtUp, Relock, AddData, LockNext, ReleaseVis, StopWriting, UnlockAll,
    Join, Pending, Locating
<1>3. CASE StopSending \/ SpuriousWakeup \/ WriterStep
  BY <1>3 DEF StopSending, SpuriousWakeup, WriterStep, LockEnd, SetInitialised,
    Signal, CheckKeepWriting, LockSegment, UnlockPrevious, WriteSegment,
    Increment, LastUnlock, FinalWrite, mainVars, coreVars, logVars, Pending
<1> QED
  BY <1>1, <1>2, <1>3 DEF Next

LEMMA SentStep == BaseInv /\ SentInv /\ [Next]_vars => SentInv'
<1> SUFFICES ASSUME BaseInv, SentInv, [Next]_vars PROVE SentInv'
  OBVIOUS
<1>1. CASE SendFill
  <2>1. PICK c \in Cores : SendData(c)
    <3>1. next \in Nat
      BY BaseFacts DEF BaseInv, TypeOK
    <3> QED
      BY <1>1, <3>1, BaseFacts DEF SendFill
  <2>2. ~InHand'
    BY <1>1 DEF SendFill, InHand, Pending, Locating
  <2> QED
    BY <2>1, <2>2, SentSend DEF SentInv
<1>2. CASE Resend
  <2>1. result \in Nat /\ result < next /\ result' = result
    BY <1>2, BaseFacts DEF Resend, BaseInv, HandInv, SentInv, InHand, Pending
  <2>2. CASE sending
    <3>1. from \in Cores /\ SendData(from)
      BY <1>2, <2>2 DEF Resend, BaseInv, TypeOK
    <3>2. /\ next' = next + 1 /\ next \in Nat
          /\ \A d \in Cores : \A i \in 1 .. Len(queue'[d]) :
               queue'[d][i] < next'
      BY <3>1, SentSend
    <3> QED
      BY <2>1, <3>2 DEF SentInv
  <2>3. CASE ~sending
    BY <1>2, <2>1, <2>3 DEF Resend, SentInv
  <2> QED
    BY <2>2, <2>3
<1>3. ASSUME NEW c \in Cores, Receive(c) PROVE SentInv'
  <2>1. /\ queue[c] \in Seq(Subints) /\ queue[c] # << >>
        /\ queue \in [Cores -> Seq(Subints)]
        /\ queue' = [queue EXCEPT ![c] = Tail(queue[c])]
        /\ result' = Head(queue[c]) /\ next' = next
    BY <1>3 DEF BaseInv, TypeOK, Receive
  <2>2. result' < next'
    BY <2>1 DEF SentInv
  <2>3. ASSUME NEW d \in Cores, NEW i \in 1 .. Len(queue'[d])
        PROVE  queue'[d][i] < next'
    <3>1. CASE d = c
      <4>1. queue'[d] = Tail(queue[d]) /\ Len(queue[d]) \in Nat
        BY <2>1, <3>1
      <4>2. i + 1 \in 1 .. Len(queue[d]) /\ queue'[d][i] = queue[d][i + 1]
        BY <2>1, <2>3, <3>1, <4>1
      <4> QED
        BY <4>2, <2>1 DEF SentInv
    <3>2. CASE d # c
      BY <2>1, <2>3, <3>2 DEF SentInv
    <3> QED
      BY <3>1, <3>2
  <2> QED
    BY <2>2, <2>3 DEF SentInv
<1>4. CASE ~SendFill /\ ~(\E c \in Cores : Receive(c)) /\ ~Resend
  BY <1>4, QuietSteps DEF SentInv, InHand, coreVars
<1> QED
  BY <1>1, <1>2, <1>3, <1>4

(* The write thread moves on no Visibility that main has locked.           *)
LEMMA WindowStays ==
  ASSUME BaseInv, Inner, Started, NEW s \in VisSlots, Dist(oldest, s) <= Span,
         WriterStep
  PROVE  vis'[s] = vis[s] /\ acc'[s] = acc[s]
<1>1. CASE Increment
  <2>1. s # ws
    BY <1>1, NotTheWriters DEF WriterHolds, Increment, WGo
  <2> QED
    BY <1>1, <2>1 DEF Increment, visVars, BaseInv, TypeOK
<1>2. CASE ~Increment
  BY <1>2 DEF WriterStep, LockEnd, SetInitialised, Signal, CheckKeepWriting,
    LockSegment, UnlockPrevious, WriteSegment, LastUnlock, FinalWrite, visVars
<1> QED
  BY <1>1, <1>2

LEMMA WindowEnds ==
  ASSUME Inner
  PROVE  /\ oldest \in VisSlots /\ Dist(oldest, oldest) <= Span
         /\ newest \in VisSlots /\ Dist(oldest, newest) <= Span
<1>1. oldest \in VisSlots /\ newest \in VisSlots
  BY DEF Inner, RingInv
<1>2. Dist(oldest, oldest) = 0 /\ Span = Dist(oldest, newest)
  BY <1>1, DistInverse, SpanType
<1> QED
  BY <1>1, <1>2, SpanNumber

(* locateVisIndex has searched all the Visibilities main holds.            *)
LEMMA SearchPlaces ==
  ASSUME BaseInv, SentInv, OwnTime, Inner, OrderInv, NeverShorter,
         SearchFound \/ SearchStale \/ SearchNewer
  PROVE  PlacedInv'
<1> DEFINE i == IntegrationOf(result)
<1>1. /\ mpc = "search" /\ mpc \in Locating /\ Started
      /\ UNCHANGED <<result, vis, oldest, newest, forced>>
  BY DEF SearchFound, SearchStale, SearchNewer, Locating, Started, visVars,
    ringVars, logVars
<1>2. /\ Span \in Int /\ 0 <= Span /\ Span <= VisLength - 2
      /\ VisLength \in Int
  BY SpanNumber
<1>3. /\ i \in Nat
      /\ \A s \in VisSlots :
           /\ vis[s] \in Nat
           /\ NotBefore(s) <=> vis[s] <= i
           /\ i <= vis[s] => NotAfter(s)
           /\ EvenScans /\ NotAfter(s) => i <= vis[s]
  <2>1. oldest \in VisSlots
    BY WindowEnds
  <2> QED
    BY <1>1, <2>1, Tests
<1>4. \A k \in 0 .. Span : Wrap(oldest + k) \in VisSlots
  <2>1. oldest \in VisSlots
    BY WindowEnds
  <2>2. \A k \in 0 .. Span : k \in 0 .. VisLength
    BY <1>2
  <2> QED
    BY <2>1, <2>2, NextSlot
<1> HIDE DEF i
<1>5. CASE SearchFound
  <2>1. PICK k \in Matches : visindex' = Wrap(oldest + k)
    BY <1>5 DEF SearchFound
  <2>2. k \in 0 .. Span /\ NotBefore(Wrap(oldest + k)) /\ NotAfter(Wrap(oldest + k))
    BY <2>1 DEF Matches
  <2>3. /\ visindex' \in VisSlots /\ vis[visindex'] \in Nat
        /\ vis[visindex'] <= i /\ (EvenScans => vis[visindex'] = i)
    BY <1>3, <1>4, <2>1, <2>2
  <2>4. mpc' = "resend" /\ visindex' # -1
    BY <1>5, <2>3, SlotNumber DEF SearchFound
  <2> QED
    BY <1>1, <2>3, <2>4 DEF PlacedInv, i
<1>6. CASE SearchStale
  <2>1. 0 \in 0 .. Span /\ Wrap(oldest + 0) = oldest /\ oldest \in VisSlots
    <3>1. oldest \in VisSlots
      BY WindowEnds
    <3>2. Dist(oldest, oldest) = 0 /\ Wrap(oldest + Dist(oldest, oldest)) = oldest
      BY <3>1, DistInverse
    <3> QED
      BY <1>2, <3>1, <3>2
  <2>2. ~NotBefore(oldest)
    BY <1>6, <2>1 DEF SearchStale
  <2>3. i < vis[oldest]
    BY <1>3, <2>1, <2>2
  <2>4. mpc' = "resend" /\ visindex' = -1
    BY <1>6 DEF SearchStale
  <2> QED
    BY <1>1, <2>3, <2>4 DEF PlacedInv, i
<1>7. CASE SearchNewer
  <2>1. PICK k \in 0 .. Span : NotBefore(Wrap(oldest + k))
    BY <1>7 DEF SearchNewer
  <2>2. vis[Wrap(oldest + k)] <= i
    BY <1>3, <1>4, <2>1
  <2>3. ~PastEnd(vis[ws])
    <3>1. ~PastEnd(i) /\ VisEnd[NumScans] \in Nat
      BY <1>1, IntegrationFacts, ScanFacts
      DEF BaseInv, HandInv, InHand, Pending, i
    <3>2. ~PastEnd(vis[Wrap(oldest + k)])
      BY <3>1, <2>2, <1>3, <1>4 DEF PastEnd
    <3> QED
      BY <3>2, <1>4 DEF OrderInv
  <2>4. vis[newest] < i
    <3> SUFFICES ASSUME i <= vis[newest] PROVE FALSE
      BY <1>3, WindowEnds
    <3>1. /\ vis[Wrap(oldest + k)] = vis[oldest] + k /\ k \in Int /\ 0 <= k
          /\ oldest \in VisSlots /\ vis[oldest] \in Nat
      BY <1>1, <1>2, <1>3, <2>3, WindowOrder, WindowEnds
    <3>2. vis[newest] = vis[oldest] + Span
      <4>1. Wrap(oldest + Span) = newest /\ Span \in 0 .. Span
        BY <1>2, WindowEnds, SpanType, DistInverse
      <4> QED
        BY <1>1, <2>3, <4>1, WindowOrder
    <3> DEFINE j == i - vis[oldest]
    <3>3. j \in 0 .. Span /\ vis[oldest] + j = i
      BY <1>2, <1>3, <2>2, <3>1, <3>2
    <3> HIDE DEF j
    <3>4. Wrap(oldest + j) \in VisSlots /\ vis[Wrap(oldest + j)] = i
      BY <1>1, <2>3, <3>3, WindowOrder
    <3>5. j \in Matches
      BY <1>3, <3>3, <3>4 DEF Matches
    <3> QED
      BY <1>7, <3>5 DEF SearchNewer
  <2>5. mpc' = "extend"
    BY <1>7 DEF SearchNewer
  <2> QED
    BY <1>1, <2>4, <2>5 DEF PlacedInv, i
<1> QED
  BY <1>5, <1>6, <1>7

LEMMA ExtendPlaces ==
  ASSUME BaseInv, SentInv, OwnTime, Inner, OrderInv, NeverShorter, PlacedInv,
         Extend
  PROVE  PlacedInv'
<1> DEFINE i == IntegrationOf(result)
<1>1. /\ mpc = "extend" /\ mpc \in Locating /\ Started /\ vis[newest] < i
      /\ LockNewest
      /\ UNCHANGED <<result, vis, oldest, forced>>
      /\ \/ NotAfter(newest') /\ mpc' = "resend" /\ visindex' = newest'
         \/ ~NotAfter(newest') /\ mpc' = mpc
  BY DEF Extend, PlacedInv, Locating, Started, visVars, logVars
<1>2. newest \in VisSlots
  BY WindowEnds
<1>3. /\ i \in Nat
      /\ \A s \in VisSlots :
           /\ vis[s] \in Nat
           /\ NotBefore(s) <=> vis[s] <= i
           /\ i <= vis[s] => NotAfter(s)
           /\ EvenScans /\ NotAfter(s) => i <= vis[s]
  BY <1>1, <1>2, Tests
<1> HIDE DEF i
<1>4. ~PastEnd(vis[ws])
  <2>1. ~PastEnd(i) /\ VisEnd[NumScans] \in Nat
    BY <1>1, IntegrationFacts, ScanFacts
    DEF BaseInv, HandInv, InHand, Pending, i
  <2>2. ~PastEnd(vis[newest])
    BY <2>1, <1>1, <1>2, <1>3 DEF PastEnd
  <2> QED
    BY <2>2, <1>2 DEF OrderInv
<1>5. newest' \in VisSlots /\ vis[newest'] = vis[newest] + 1
  BY <1>1, <1>4, NextOrder
<1>6. vis[newest'] \in Nat /\ vis[newest'] <= i
  BY <1>1, <1>2, <1>3, <1>5
<1>7. CASE NotAfter(newest') /\ mpc' = "resend" /\ visindex' = newest'
  <2>1. EvenScans => vis[newest'] = i
    BY <1>3, <1>5, <1>6, <1>7
  <2>2. visindex' # -1
    BY <1>5, <1>7, SlotNumber
  <2> QED
    BY <1>1, <1>6, <1>7, <2>1, <2>2 DEF PlacedInv, i
<1>8. CASE ~NotAfter(newest') /\ mpc' = mpc
  <2>1. vis[newest'] < i
    BY <1>3, <1>5, <1>6, <1>8
  <2> QED
    BY <1>1, <1>8, <2>1 DEF PlacedInv, i
<1> QED
  BY <1>1, <1>7, <1>8

LEMMA PlacedInit == Init => PlacedInv
BY DEF Init, PlacedInv

LEMMA PlacedStep ==
  ASSUME BaseInv, SentInv, OwnTime, IInv, OrderInv, NeverShorter, PlacedInv,
         [Next]_vars
  PROVE  PlacedInv'
<1>1. CASE SearchFound \/ SearchStale \/ SearchNewer \/ Extend
  <2>1. Inner
    BY <1>1 DEF IInv, Ended, SearchFound, SearchStale, SearchNewer, Extend
  <2> QED
    BY <1>1, <2>1, SearchPlaces, ExtendPlaces
<1>2. CASE ExtendFull \/ CatchUp \/ CaughtUp \/ Relock \/ Resend
  <2>1. UNCHANGED <<result, vis>>
    BY <1>2 DEF ExtendFull, CatchUp, CaughtUp, Relock, Resend, visVars
  <2>2. CASE ExtendFull
    BY <2>1, <2>2 DEF ExtendFull, PlacedInv
  <2>3. CASE CatchUp \/ Relock
    <3>1. /\ mpc \in {"catchup", "relock"} /\ mpc' \in {"catchup", "relock"}
          /\ UNCHANGED <<result, forced>>
      BY <2>3 DEF CatchUp, Relock, logVars
    <3> QED
      BY <3>1 DEF PlacedInv
  <2>4. CASE CaughtUp
    <3>1. newest # -1
      BY <2>4, SlotNumber DEF BaseInv, TypeOK
    <3> QED
      BY <2>1, <2>4, <3>1 DEF CaughtUp, PlacedInv, logVars
  <2>5. CASE Resend
    BY <2>1, <2>5 DEF Resend, PlacedInv
  <2> QED
    BY <1>2, <2>2, <2>3, <2>4, <2>5
<1>3. CASE WriterStep /\ mpc \in {"extend", "resend", "add"}
  <2>1. Inner /\ Started
    BY <1>3 DEF IInv, Ended, Started
  <2>2. UNCHANGED <<mpc, result, visindex, forced, oldest, newest>>
    BY <1>3 DEF WriterStep, LockEnd, SetInitialised, Signal, CheckKeepWriting,
      LockSegment, UnlockPrevious, WriteSegment, Increment, LastUnlock,
      FinalWrite, mainVars, logVars
  <2>3. vis'[oldest] = vis[oldest] /\ vis'[newest] = vis[newest]
    BY <1>3, <2>1, WindowEnds, WindowStays
  <2>4. mpc \in {"resend", "add"} /\ visindex # -1 =>
          vis'[visindex] = vis[visindex]
    BY <1>3, <2>1, WindowStays DEF Inner, PlaceInv, InWindow
  <2> QED
    BY <2>2, <2>3, <2>4 DEF PlacedInv
<1>4. CASE WriterStep /\ mpc \notin {"extend", "resend", "add"}
  <2>1. UNCHANGED <<mpc, result, forced>>
    BY <1>4 DEF WriterStep, LockEnd, SetInitialised, Signal, CheckKeepWriting,
      LockSegment, UnlockPrevious, WriteSegment, Increment, LastUnlock,
      FinalWrite, mainVars, logVars
  <2> QED
    BY <1>4, <2>1 DEF PlacedInv
<1>5. CASE UNCHANGED vars \/ Finished \/ SpuriousWakeup
  BY <1>5 DEF Finished, SpuriousWakeup, vars, mainVars, visVars, ringVars,
    logVars, PlacedInv
<1>6. CASE \/ TestInitialised \/ CondWait \/ CondWake \/ SendFill \/ Locate
           \/ AddData \/ LockNext \/ ReleaseVis \/ StopWriting \/ UnlockAll
           \/ Join \/ StopSending \/ \E c \in Cores : Receive(c)
  <2>1. mpc' \notin {"extend", "catchup", "relock", "resend", "add"}
    BY <1>6 DEF TestInitialised, CondWait, CondWake, SendFill, Locate, AddData,
      LockNext, ReleaseVis, StopWriting, UnlockAll, Join, StopSending, Receive
  <2> QED
    BY <2>1 DEF PlacedInv
<1> QED
  BY <1>1, <1>2, <1>3, <1>4, <1>5, <1>6 DEF Next, MainStep

LEMMA PlaceInvariance == Spec => [](BaseInv /\ SentInv /\ OrderInv)
BY BaseInit, BaseStep, SentInit, SentStep, OrderInit, OrderStep, Invariance, PTL
DEF Spec

LEMMA PlacedInvariance ==
  ASSUME NeverShorter
  PROVE  Spec => []PlacedInv
<1>1. BaseInv /\ SentInv /\ OrderInv /\ OwnTime /\ IInv /\ PlacedInv /\ [Next]_vars
        => PlacedInv'
  BY PlacedStep
<1> QED
  BY <1>1, PlacedInit, PlaceInvariance, TimesAreOwn, Invariance, PTL DEF Spec

(* locateVisIndex, in all its ways through the ring, finds the Visibility  *)
(* of a result's own integration, unless data had to be dropped: for scans *)
(* of one integration time.                                                *)
THEOREM OwnPlaces ==
  ASSUME EvenScans
  PROVE  Spec => []OwnIntegration
<1>1. NeverShorter
  BY EvenNeverShorter
<1>2. BaseInv /\ IInv /\ PlacedInv => OwnIntegration
  <2> SUFFICES ASSUME BaseInv, IInv, PlacedInv, mpc = "add", result \notin forced
               PROVE  vis[visindex] = IntegrationOf(result)
    BY DEF OwnIntegration
  <2>1. visindex \in VisSlots
    BY DEF IInv, Ended, Inner, PlaceInv, InWindow
  <2> QED
    BY <2>1, SlotNumber DEF PlacedInv
<1> QED
  BY <1>1, <1>2, PlacedInvariance, PlaceInvariance, Invariance, PTL

(***************************************************************************)
(* Every subintegration sent out is in one place: in a Core, in hand, in   *)
(* a Visibility, written, or ignored with a warning; and the integrations  *)
(* are written in order.  Away(s) tells the Visibilities whose results are *)
(* written but not yet cleared, Front is the integration written next.     *)
(* WrittenInOrder holds for all scans; NothingIsLost is for integration    *)
(* times that never become shorter from a scan to the next: the FxManager  *)
(* places a result by that of the scan being sent out, and when it is the  *)
(* shorter one the result may go to a Visibility past the end of the job.  *)
(* The last part is about what is complete when it is written.             *)
(***************************************************************************)

(***************************************************************************)
(* Where a subintegration that has been sent is: in a Core, in hand, or    *)
(* ignored with a warning, or added to a Visibility and perhaps written.   *)
(***************************************************************************)
Queued ==
  {k \in Subints : \E c \in Cores : \E i \in 1 .. Len(queue[c]) : queue[c][i] = k}
Owed == IF Pending THEN Queued \cup {result} ELSE Queued
Unsettled == IF InHand THEN Queued \cup {result} ELSE Queued
Added ==
  {k \in Subints : \/ \E s \in VisSlots : k \in acc[s]
                   \/ \E n \in 1 .. Len(written) : k \in written[n].subints}

(* Results still to come, which the counts of execute have to agree with.  *)
Outstanding ==
  IF sending THEN (IF Filling THEN next ELSE RING * NumCores) ELSE drain

OwedInv ==
  /\ \A c, d \in Cores : \A i \in 1 .. Len(queue[c]), j \in 1 .. Len(queue[d]) :
       queue[c][i] = queue[d][j] => c = d /\ i = j
  /\ InHand => result \notin Queued
  /\ IsFiniteSet(Owed) /\ Cardinality(Owed) = Outstanding

CoverInv ==
  /\ \A k \in Unsettled : k \notin stale /\ k \notin Added
  /\ \A k \in Added \cup stale : k < next
  /\ \A k \in 0 .. next - 1 : k \in Unsettled \/ k \in stale \/ k \in Added

(* Written, but not yet cleared for the integration VisLength on.          *)
Away(s) ==
  /\ ~PastEnd(vis[s])
  /\ \/ wpc = "increment" /\ s = ws
     \/ wpc \in {"final", "exit"} /\ Dist(ws, s) < wi

AccInv ==
  /\ \A s, t \in VisSlots : s # t => acc[s] \cap acc[t] = {}
  /\ \A m, n \in 1 .. Len(written) :
       m # n => written[m].subints \cap written[n].subints = {}
  /\ \A s \in VisSlots : \A n \in 1 .. Len(written) :
       ~Away(s) => acc[s] \cap written[n].subints = {}
  /\ \A s \in VisSlots : Away(s) =>
       \A k \in acc[s] : \E n \in 1 .. Len(written) : k \in written[n].subints

(* The integration that is written next.                                   *)
Front == vis[ws] + (IF wpc = "increment" THEN 1 ELSE wi)

OutInv ==
  /\ \A n \in 1 .. Len(written) :
       ~PastEnd(written[n].vis) /\ written[n].vis < Front
  /\ \A m, n \in 1 .. Len(written) : m < n => written[m].vis < written[n].vis

HomeInv ==
  /\ \A s \in VisSlots : \A k \in acc[s] \ forced :
       /\ vis[s] <= IntegrationOf(k)
       /\ EvenScans => vis[s] = IntegrationOf(k)
  /\ \A n \in 1 .. Len(written) : \A k \in written[n].subints \ forced :
       /\ written[n].vis <= IntegrationOf(k)
       /\ EvenScans => written[n].vis = IntegrationOf(k)

(***************************************************************************)
(* What is in the Cores.                                                   *)
(***************************************************************************)
LEMMA SendQueues ==
  ASSUME BaseInv, SentInv, OwedInv, NEW c \in Cores, SendData(c),
         next < MaxSubints
  PROVE  /\ next \in Subints /\ next \notin Queued
         /\ Queued' = Queued \cup {next}
         /\ \A a, b \in Cores :
              \A i \in 1 .. Len(queue'[a]), j \in 1 .. Len(queue'[b]) :
                queue'[a][i] = queue'[b][j] => a = b /\ i = j
<1>1. /\ queue \in [Cores -> Seq(Subints)] /\ next \in Subints /\ next \in Nat
      /\ queue' = [queue EXCEPT ![c] = Append(queue[c], next)]
  <2>1. next \in Nat /\ next \in Subints
    BY BaseFacts DEF BaseInv, TypeOK, Subints
  <2> QED
    BY <2>1 DEF BaseInv, TypeOK, SendData
<1>2. ASSUME NEW a \in Cores
      PROVE  /\ queue[a] \in Seq(Subints) /\ Len(queue[a]) \in Nat
             /\ \A i \in 1 .. Len(queue[a]) :
                  queue[a][i] \in Subints /\ queue[a][i] \in Nat
                    /\ queue[a][i] < next /\ queue[a][i] \in Queued
  <2>1. queue[a] \in Seq(Subints)
    BY <1>1
  <2>2. \A i \in 1 .. Len(queue[a]) : queue[a][i] \in Subints
    BY <2>1
  <2>3. \A i \in 1 .. Len(queue[a]) : queue[a][i] \in Nat
    BY <2>2, BaseFacts
  <2>4. \A i \in 1 .. Len(queue[a]) : queue[a][i] \in Queued
    BY <2>2 DEF Queued
  <2> QED
    BY <2>1, <2>2, <2>3, <2>4 DEF SentInv
<1>3. next \notin Queued
  <2> SUFFICES ASSUME next \in Queued PROVE FALSE
    OBVIOUS
  <2>1a. PICK a \in Cores : \E i \in 1 .. Len(queue[a]) : queue[a][i] = next
    BY DEF Queued
  <2>1. PICK i \in 1 .. Len(queue[a]) : queue[a][i] = next
    BY <2>1a
  <2> QED
    BY <1>1, <1>2, <2>1
<1>4. /\ queue'[c] = Append(queue[c], next)
      /\ Len(queue'[c]) = Len(queue[c]) + 1
      /\ queue'[c][Len(queue[c]) + 1] = next
      /\ \A i \in 1 .. Len(queue[c]) : queue'[c][i] = queue[c][i]
  BY <1>1, <1>2
<1>5. \A a \in Cores : a # c => queue'[a] = queue[a]
  BY <1>1
(* An entry is an old one or the new one.                                  *)
<1>6. ASSUME NEW a \in Cores, NEW i \in 1 .. Len(queue'[a])
      PROVE  \/ i \in 1 .. Len(queue[a]) /\ queue'[a][i] = queue[a][i]
             \/ a = c /\ i = Len(queue[c]) + 1 /\ queue'[a][i] = next
  BY <1>2, <1>4, <1>5
<1>7. Queued' = Queued \cup {next}
  <2>1. ASSUME NEW k \in Queued' PROVE k \in Queued \cup {next}
    <3>1a. PICK a \in Cores : \E i \in 1 .. Len(queue'[a]) : queue'[a][i] = k
      BY DEF Queued
    <3>1. PICK i \in 1 .. Len(queue'[a]) : queue'[a][i] = k
      BY <3>1a
    <3> QED
      BY <1>2, <1>6, <3>1
  <2>2. ASSUME NEW k \in Queued PROVE k \in Queued'
    <3>1. k \in Subints
      BY DEF Queued
    <3>2a. PICK a \in Cores : \E i \in 1 .. Len(queue[a]) : queue[a][i] = k
      BY DEF Queued
    <3>2. PICK i \in 1 .. Len(queue[a]) : queue[a][i] = k
      BY <3>2a
    <3>3. i \in 1 .. Len(queue'[a]) /\ queue'[a][i] = k
      <4>1. CASE a = c
        BY <1>2, <1>4, <3>2, <4>1, SMTT(30)
      <4>2. CASE a # c
        BY <1>5, <3>2, <4>2
      <4> QED
        BY <4>1, <4>2
    <3> QED
      BY <3>1, <3>3 DEF Queued
  <2>3. next \in Queued'
    <3>1. Len(queue[c]) + 1 \in 1 .. Len(queue'[c])
      BY <1>2, <1>4
    <3> QED
      BY <1>1, <1>4, <3>1 DEF Queued
  <2> QED
    BY <2>1, <2>2, <2>3
<1>8. ASSUME NEW a \in Cores, NEW b \in Cores,
             NEW i \in 1 .. Len(queue'[a]), NEW j \in 1 .. Len(queue'[b]),
             queue'[a][i] = queue'[b][j]
      PROVE  a = b /\ i = j
  BY <1>1, <1>2, <1>3, <1>6, <1>8 DEF OwedInv
<1> QED
  BY <1>1, <1>3, <1>7, <1>8

LEMMA ReceiveQueues ==
  ASSUME BaseInv, OwedInv, NEW c \in Cores, Receive(c)
  PROVE  /\ result' \in Queued /\ result' \notin Queued'
         /\ Queued = Queued' \cup {result'}
         /\ \A a, b \in Cores :
              \A i \in 1 .. Len(queue'[a]), j \in 1 .. Len(queue'[b]) :
                queue'[a][i] = queue'[b][j] => a = b /\ i = j
<1>1. /\ queue \in [Cores -> Seq(Subints)]
      /\ queue[c] \in Seq(Subints) /\ queue[c] # << >>
      /\ queue' = [queue EXCEPT ![c] = Tail(queue[c])]
      /\ result' = Head(queue[c])
  BY DEF BaseInv, TypeOK, Receive
<1>2. /\ Len(queue[c]) \in Nat /\ 1 \in 1 .. Len(queue[c])
      /\ result' = queue[c][1] /\ result' \in Subints
      /\ queue'[c] = Tail(queue[c]) /\ Len(queue'[c]) = Len(queue[c]) - 1
      /\ \A i \in 1 .. Len(queue'[c]) : /\ i + 1 \in 1 .. Len(queue[c])
                                        /\ queue'[c][i] = queue[c][i + 1]
  BY <1>1
<1>3. \A a \in Cores : a # c => queue'[a] = queue[a]
  BY <1>1
<1>4. \A a, b \in Cores :
        \A i \in 1 .. Len(queue[a]), j \in 1 .. Len(queue[b]) :
          queue[a][i] = queue[b][j] => a = b /\ i = j
  BY DEF OwedInv
<1>5. ASSUME NEW a \in Cores, NEW i \in 1 .. Len(queue'[a])
      PROVE  LET h == IF a = c THEN i + 1 ELSE i
             IN h \in 1 .. Len(queue[a]) /\ queue'[a][i] = queue[a][h]
  BY <1>2, <1>3, <1>5
<1>6. result' \in Queued
  BY <1>2 DEF Queued
<1>7. result' \notin Queued'
  <2> SUFFICES ASSUME result' \in Queued' PROVE FALSE
    OBVIOUS
  <2>1a. PICK a \in Cores : \E i \in 1 .. Len(queue'[a]) : queue'[a][i] = result'
    BY DEF Queued
  <2>1. PICK i \in 1 .. Len(queue'[a]) : queue'[a][i] = result'
    BY <2>1a
  <2> DEFINE h == IF a = c THEN i + 1 ELSE i
  <2>2. h \in 1 .. Len(queue[a]) /\ queue[a][h] = queue[c][1]
    BY <1>2, <1>5, <2>1
  <2>3. a = c /\ h = 1
    BY <1>2, <1>4, <2>2
  <2> QED
    BY <2>1, <2>3
<1>8. Queued = Queued' \cup {result'}
  <2>1. ASSUME NEW k \in Queued' PROVE k \in Queued
    <3>1a. PICK a \in Cores : \E i \in 1 .. Len(queue'[a]) : queue'[a][i] = k
      BY DEF Queued
    <3>1. PICK i \in 1 .. Len(queue'[a]) : queue'[a][i] = k
      BY <3>1a
    <3>2. PICK h \in 1 .. Len(queue[a]) : queue[a][h] = k
      BY <1>5, <3>1
    <3>3. k \in Subints
      BY DEF Queued
    <3> QED
      BY <3>2, <3>3 DEF Queued
  <2>2. ASSUME NEW k \in Queued, k # result' PROVE k \in Queued'
    <3>1. k \in Subints
      BY DEF Queued
    <3>2a. PICK a \in Cores : \E i \in 1 .. Len(queue[a]) : queue[a][i] = k
      BY DEF Queued
    <3>2. PICK i \in 1 .. Len(queue[a]) : queue[a][i] = k
      BY <3>2a
    <3>3. PICK h \in 1 .. Len(queue'[a]) : queue'[a][h] = k
      <4>1. CASE a # c
        BY <1>3, <3>2, <4>1
      <4>2. CASE a = c
        <5>1. i # 1
          BY <1>2, <2>2, <3>2, <4>2
        <5>2. i - 1 \in 1 .. Len(queue'[c]) /\ (i - 1) + 1 = i
          BY <1>2, <3>2, <4>2, <5>1
        <5> QED
          BY <1>2, <3>2, <4>2, <5>2
      <4> QED
        BY <4>1, <4>2
    <3> QED
      BY <3>1, <3>3 DEF Queued
  <2> QED
    BY <1>6, <2>1, <2>2
<1>9. ASSUME NEW a \in Cores, NEW b \in Cores,
             NEW i \in 1 .. Len(queue'[a]), NEW j \in 1 .. Len(queue'[b]),
             queue'[a][i] = queue'[b][j]
      PROVE  a = b /\ i = j
  <2> DEFINE g == IF a = c THEN i + 1 ELSE i
             h == IF b = c THEN j + 1 ELSE j
  <2>1. /\ g \in 1 .. Len(queue[a]) /\ queue'[a][i] = queue[a][g]
        /\ h \in 1 .. Len(queue[b]) /\ queue'[b][j] = queue[b][h]
    BY <1>5
  <2> HIDE DEF g, h
  <2>a. queue[a][g] = queue[b][h]
    BY <1>9, <2>1
  <2>2. a = b /\ g = h
    <3>1. a \in Cores /\ b \in Cores
      BY <1>9
    <3> QED
      BY <1>4, <3>1, <2>1, <2>a
  <2>3. i \in Int /\ j \in Int
    OBVIOUS
  <2> QED
    BY <2>2, <2>3 DEF g, h
<1> QED
  BY <1>6, <1>7, <1>8, <1>9

LEMMA OwedInit == Init => OwedInv
<1> SUFFICES ASSUME Init PROVE OwedInv
  OBVIOUS
<1>1. \A c \in Cores : queue[c] = << >> /\ Len(queue[c]) = 0
  BY DEF Init
<1>2. \A c \in Cores : 1 .. Len(queue[c]) = {}
  BY <1>1
<1>3. Queued = {}
  BY <1>2 DEF Queued
<1>4. ~Pending /\ ~InHand
  BY DEF Init, Pending, InHand, Locating
<1>5. Owed = {} /\ Outstanding = 0
  BY <1>3, <1>4, BaseFacts DEF Init, Owed, Outstanding, Filling
<1> QED
  BY <1>2, <1>4, <1>5, FS_EmptySet DEF OwedInv

LEMMA OwedStep ==
  ASSUME BaseInv, SentInv, TInv, OwedInv, [Next]_vars
  PROVE  OwedInv'
<1>0. /\ IsFiniteSet(Owed) /\ Cardinality(Owed) = Outstanding
      /\ InHand => result \notin Queued
      /\ RING * NumCores \in Nat /\ next \in Nat
  BY BaseFacts DEF OwedInv, BaseInv, TypeOK
<1>1. CASE SendFill
  <2>1. PICK c \in Cores : SendData(c)
    BY <1>1, <1>0, BaseFacts DEF SendFill
  <2>2. next < MaxSubints /\ ~InHand' /\ ~Pending' /\ ~Pending
    BY <1>1 DEF SendFill, InHand, Pending, Locating
  <2>3. /\ next \notin Queued /\ Queued' = Queued \cup {next}
        /\ \A a, b \in Cores :
              \A i \in 1 .. Len(queue'[a]), j \in 1 .. Len(queue'[b]) :
                queue'[a][i] = queue'[b][j] => a = b /\ i = j
    BY <2>1, <2>2, SendQueues
  <2>4. Owed = Queued /\ Owed' = Queued'
    BY <2>2 DEF Owed
  <2>5. /\ IsFiniteSet(Owed') /\ Cardinality(Owed') = Cardinality(Owed) + 1
    BY <1>0, <2>3, <2>4, FS_AddElement
  <2>6. Outstanding' = Outstanding + 1
    <3>1. sending /\ sending' /\ next' = next + 1 /\ Filling
      BY <1>1, <2>1 DEF SendFill, SendData
    <3> QED
      BY <1>0, <3>1 DEF Outstanding, Filling
  <2>7. (\A a, b \in Cores :
           \A i \in 1 .. Len(queue[a]), j \in 1 .. Len(queue[b]) :
             queue[a][i] = queue[b][j] => a = b /\ i = j)'
    BY <2>3
  <2> QED
    BY <1>0, <2>2, <2>5, <2>6, <2>7 DEF OwedInv
<1>2. CASE StopSending
  <2>1. /\ UNCHANGED <<queue, result, mpc, next>> /\ sending /\ ~sending'
        /\ drain' = IF Filling THEN next ELSE RING * NumCores
    BY <1>2 DEF StopSending, coreVars
  <2>2. /\ Queued' = Queued /\ Owed' = Owed /\ (InHand' <=> InHand)
        /\ Outstanding' = Outstanding
    BY <2>1 DEF Queued, Owed, Pending, InHand, Outstanding
  <2> QED
    BY <2>1, <2>2 DEF OwedInv
<1>3. ASSUME NEW c \in Cores, Receive(c) PROVE OwedInv'
  <2>1. /\ result' \in Queued /\ result' \notin Queued'
        /\ Queued = Queued' \cup {result'}
        /\ \A a, b \in Cores :
              \A i \in 1 .. Len(queue'[a]), j \in 1 .. Len(queue'[b]) :
                queue'[a][i] = queue'[b][j] => a = b /\ i = j
    BY <1>3, ReceiveQueues
  <2>2. /\ ~Pending /\ Pending' /\ UNCHANGED <<sending, drain, next>>
    BY <1>3 DEF Receive, Pending, Locating
  <2>3. Owed' = Owed
    BY <2>1, <2>2 DEF Owed
  <2>4. Outstanding' = Outstanding
    BY <2>2 DEF Outstanding, Filling
  <2>5. (\A a, b \in Cores :
           \A i \in 1 .. Len(queue[a]), j \in 1 .. Len(queue[b]) :
             queue[a][i] = queue[b][j] => a = b /\ i = j)'
    BY <2>1
  <2> QED
    BY <1>0, <2>1, <2>3, <2>4, <2>5 DEF OwedInv
<1>4. CASE Resend
  <2>1. /\ Pending /\ ~Pending' /\ InHand /\ result' = result
        /\ Owed = Queued \cup {result} /\ Owed' = Queued'
        /\ sending' = sending
    BY <1>4 DEF Resend, Pending, Locating, InHand, Owed
  <2>2. IsFiniteSet(Queued) /\ Cardinality(Queued) = Outstanding - 1
    <3>1. Owed \ {result} = Queued /\ result \in Owed
      BY <1>0, <2>1
    <3> QED
      BY <1>0, <3>1, FS_RemoveElement
  <2>3. CASE sending
    <3>1. /\ from \in Cores /\ SendData(from) /\ next < MaxSubints
          /\ ~Filling /\ result < next /\ result \in Nat
      BY <1>4, <2>1, <2>3, BaseFacts DEF Resend, BaseInv, TypeOK, HandInv, TInv,
        FillInv, SentInv
    <3>2. /\ next \notin Queued /\ Queued' = Queued \cup {next}
          /\ \A a, b \in Cores :
                \A i \in 1 .. Len(queue'[a]), j \in 1 .. Len(queue'[b]) :
                  queue'[a][i] = queue'[b][j] => a = b /\ i = j
      BY <3>1, SendQueues
    <3>3. IsFiniteSet(Owed') /\ Cardinality(Owed') = Outstanding - 1 + 1
      BY <2>1, <2>2, <3>2, FS_AddElement
    <3>4. Outstanding = RING * NumCores /\ Outstanding' = RING * NumCores
      BY <1>0, <2>1, <2>3, <3>1 DEF Outstanding, Filling, SendData
    <3>5. result' \notin Queued'
      BY <1>0, <2>1, <3>1, <3>2
    <3>6. (\A a, b \in Cores :
             \A i \in 1 .. Len(queue[a]), j \in 1 .. Len(queue[b]) :
               queue[a][i] = queue[b][j] => a = b /\ i = j)'
      BY <3>2
    <3> QED
      BY <1>0, <3>3, <3>4, <3>5, <3>6 DEF OwedInv
  <2>4. CASE ~sending
    <3>1. UNCHANGED queue /\ drain' = drain - 1
      BY <1>4, <2>4 DEF Resend
    <3>2. Queued' = Queued /\ Outstanding' = Outstanding - 1
      BY <2>1, <2>4, <3>1 DEF Queued, Outstanding
    <3>3. result' \notin Queued'
      BY <1>0, <2>1, <3>2
    <3> QED
      BY <2>1, <2>2, <3>1, <3>2, <3>3 DEF OwedInv
  <2> QED
    BY <2>3, <2>4
<1>5. CASE /\ ~SendFill /\ ~(\E c \in Cores : Receive(c)) /\ ~Resend
           /\ ~StopSending
  <2>1. /\ UNCHANGED <<queue, result, sending, next, drain>>
        /\ Pending' <=> Pending
        /\ InHand' => InHand
    BY <1>5, QuietSteps DEF coreVars, InHand
  <2>2. Queued' = Queued
    BY <2>1 DEF Queued
  <2>3. Owed' = Owed
    <3>1. CASE Pending
      BY <2>1, <2>2, <3>1 DEF Owed
    <3>2. CASE ~Pending
      BY <2>1, <2>2, <3>2 DEF Owed
    <3> QED
      BY <3>1, <3>2
  <2>6. InHand' => result' \notin Queued'
    BY <1>0, <2>1, <2>2
  <2>4. Outstanding' = Outstanding
    BY <2>1 DEF Outstanding, Filling
  <2>5. (\A a, b \in Cores :
           \A i \in 1 .. Len(queue[a]), j \in 1 .. Len(queue[b]) :
             queue[a][i] = queue[b][j] => a = b /\ i = j)'
    BY <2>1 DEF OwedInv
  <2> QED
    BY <1>0, <2>6, <2>3, <2>4, <2>5 DEF OwedInv
<1> QED
  BY <1>1, <1>2, <1>3, <1>4, <1>5

(***************************************************************************)
(* What the write thread does to the results that were added.              *)
(***************************************************************************)
LEMMA WrittenTypes ==
  ASSUME BaseInv
  PROVE  /\ Len(written) \in Nat
         /\ \A n \in 1 .. Len(written) :
              /\ written[n].vis \in Nat /\ written[n].subints \subseteq Subints
         /\ acc \in [VisSlots -> SUBSET Subints] /\ vis \in [VisSlots -> Nat]
         /\ ws \in VisSlots /\ wi \in 0 .. VisLength
<1>1. written \in Seq(Integrations)
  BY DEF BaseInv, TypeOK
<1>2. \A n \in 1 .. Len(written) : written[n] \in Integrations
  BY <1>1
<1>3. \A e \in Integrations : e.vis \in Nat /\ e.subints \subseteq Subints
  BY DEF Integrations
<1> QED
  BY <1>1, <1>2, <1>3 DEF BaseInv, TypeOK

(* The sequence written after Visibility s.                                *)
LEMMA WriteOut ==
  ASSUME BaseInv, NEW s \in VisSlots, written' = written \o Output(s)
  PROVE  /\ \A n \in 1 .. Len(written) :
              n \in 1 .. Len(written') /\ written'[n] = written[n]
         /\ \A n \in 1 .. Len(written') : n \notin 1 .. Len(written) =>
              /\ n = Len(written) + 1 /\ ~PastEnd(vis[s])
              /\ written'[n].vis = vis[s] /\ written'[n].subints = acc[s]
         /\ ~PastEnd(vis[s]) /\ acc[s] # {} => Len(written) + 1 \in 1 .. Len(written')
<1> DEFINE e == [vis |-> vis[s], subints |-> acc[s]]
<1>1. written \in Seq(Integrations) /\ e \in Integrations /\ Len(written) \in Nat
  BY DEF BaseInv, TypeOK, Integrations
<1>2. e.vis = vis[s] /\ e.subints = acc[s]
  OBVIOUS
<1>3. CASE acc[s] = {} \/ PastEnd(vis[s])
  <2>1. written' = written
    BY <1>1, <1>3 DEF Output
  <2> QED
    BY <1>1, <1>3, <2>1
<1>4. CASE ~(acc[s] = {} \/ PastEnd(vis[s]))
  <2>1. written' = written \o <<e>>
    BY <1>4 DEF Output
  <2> HIDE DEF e
  <2>2. written' = Append(written, e)
    BY <1>1, <2>1
  <2>3. /\ Len(written') = Len(written) + 1
        /\ written'[Len(written) + 1] = e
        /\ \A n \in 1 .. Len(written) : written'[n] = written[n]
    BY <1>1, <2>2
  <2> QED
    BY <1>1, <1>2, <1>4, <2>3
<1> QED
  BY <1>3, <1>4

(* A step that writes: of one Visibility, and the next one is in front.    *)
LEMMA WriteStep ==
  ASSUME BaseInv, OrderInv, WriteSegment \/ FinalWrite
  PROVE  /\ UNCHANGED <<mainVars, vis, acc, ws>>
         /\ Front \in Nat /\ Front' = Front + 1
         /\ \E s \in VisSlots :
              /\ written' = written \o Output(s)
              /\ ~Away(s)
              /\ \A t \in VisSlots :
                   Away(t)' <=> (Away(t) \/ (t = s /\ ~PastEnd(vis[t])))
              /\ PastEnd(vis[s]) \/ vis[s] = Front
<1>0. /\ ws \in VisSlots /\ vis \in [VisSlots -> Nat] /\ wi \in 0 .. VisLength
      /\ VisLength \in Nat /\ VisLength >= 4 /\ vis[ws] \in Nat
  BY BaseFacts DEF BaseInv, TypeOK
<1>1. UNCHANGED <<mainVars, vis, acc, ws>>
  BY DEF WriteSegment, FinalWrite, visVars
<1>2. \A t \in VisSlots : /\ Dist(ws, t)' = Dist(ws, t)
                          /\ Dist(ws, t) \in Int /\ Dist(ws, t) >= 0
  BY <1>0, <1>1, DistCases, SlotNumber DEF Dist, Wrap
<1>3. CASE WriteSegment
  <2>1. /\ wpc = "write" /\ wpc' = "increment" /\ wi = 0 /\ wi' = wi
        /\ written' = written \o Output(ws)
    BY <1>3 DEF WriteSegment, WGo, BaseInv, EndInv
  <2>2. Front \in Nat /\ Front' = Front + 1 /\ vis[ws] = Front
    BY <1>0, <1>1, <2>1 DEF Front
  <2>3. ~Away(ws) /\ \A t \in VisSlots :
          Away(t)' <=> (Away(t) \/ (t = ws /\ ~PastEnd(vis[t])))
    BY <1>1, <2>1 DEF Away, PastEnd
  <2> QED
    BY <1>0, <1>1, <2>1, <2>2, <2>3
<1>4. CASE FinalWrite
  <2> DEFINE s == Wrap(ws + wi)
  <2>1. /\ wpc = "final" /\ wpc' \in {"final", "exit"} /\ wi < VisLength
        /\ wi' = wi + 1 /\ written' = written \o Output(s)
    BY <1>4 DEF FinalWrite, BaseInv, EndInv
  <2>2. s \in VisSlots /\ Dist(ws, s) = wi
    <3>1. wi \in VisSlots /\ wi \in Int /\ Dist(ws, ws) = 0
      BY <1>0, <2>1, DistInverse DEF VisSlots
    <3> QED
      BY <1>0, <2>1, <3>1, DistAdd
  <2>3. \A t \in VisSlots : Dist(ws, t) = wi => t = s
    <3>1. \A t \in VisSlots : Wrap(ws + Dist(ws, t)) = t
      BY <1>0, DistInverse
    <3> QED
      BY <3>1
  <2> HIDE DEF s
  <2>4. Front \in Nat /\ Front' = Front + 1
    BY <1>0, <1>1, <2>1 DEF Front
  <2>5. PastEnd(vis[s]) \/ vis[s] = Front
    BY <2>1, <2>2 DEF OrderInv, Front
  <2>6. ~Away(s)
    BY <1>0, <2>1, <2>2 DEF Away
  <2>7. ASSUME NEW t \in VisSlots
        PROVE  Away(t)' <=> (Away(t) \/ (t = s /\ ~PastEnd(vis[t])))
    <3>1. Dist(ws, t) < wi' <=> (Dist(ws, t) < wi \/ t = s)
      BY <1>0, <1>2, <2>1, <2>2, <2>3
    <3>2. Away(t)' <=> ~PastEnd(vis[t]) /\ Dist(ws, t) < wi'
      BY <1>1, <1>2, <2>1 DEF Away, PastEnd
    <3>3. Away(t) <=> ~PastEnd(vis[t]) /\ Dist(ws, t) < wi
      BY <2>1 DEF Away
    <3> QED
      BY <3>1, <3>2, <3>3
  <2> QED
    BY <1>1, <2>1, <2>2, <2>4, <2>5, <2>6, <2>7
<1> QED
  BY <1>3, <1>4

(* The steps that neither add, nor write, nor zero results.                *)
LEMMA RestStep ==
  ASSUME BaseInv, [Next]_vars, ~AddData, ~WriteSegment, ~FinalWrite, ~Increment
  PROVE  /\ UNCHANGED <<acc, vis, ws, written>>
         /\ Front' = Front
         /\ \A t \in VisSlots : Away(t)' <=> Away(t)
<1>1. UNCHANGED <<acc, vis, ws, written, wi>>
  BY DEF Next, vars, MainStep, WriterStep, TestInitialised, CondWait,
    CondWake, SendFill, Locate, SearchFound, SearchStale, SearchNewer, Extend,
    ExtendFull, CatchUp, CaughtUp, Relock, Resend, LockNext,
    ReleaseVis, StopWriting, UnlockAll, Join, StopSending, SpuriousWakeup,
    Receive, LockEnd, SetInitialised, Signal, CheckKeepWriting, LockSegment,
    UnlockPrevious, LastUnlock, Finished, visVars, writerVars
<1>2. \/ wpc' = wpc
      \/ /\ wpc \notin {"increment", "final", "exit"} /\ wi = 0
         /\ wpc' \notin {"increment", "exit"}
  <2>1. \/ wpc' = wpc
        \/ /\ wpc \notin {"increment", "final", "exit"}
           /\ wpc' \notin {"increment", "exit"}
    BY DEF Next, vars, MainStep, WriterStep, TestInitialised, CondWait,
      CondWake, SendFill, Locate, SearchFound, SearchStale, SearchNewer, Extend,
      ExtendFull, CatchUp, CaughtUp, Relock, Resend, LockNext,
      ReleaseVis, StopWriting, UnlockAll, Join, StopSending, SpuriousWakeup,
      Receive, LockEnd, SetInitialised, Signal, CheckKeepWriting, LockSegment,
      UnlockPrevious, LastUnlock, Finished, writerVars, WGo
  <2> QED
    BY <2>1 DEF BaseInv, EndInv
<1>3. ws \in VisSlots /\ VisLength \in Nat
  BY BaseFacts DEF BaseInv, TypeOK
<1>4. \A t \in VisSlots : /\ Dist(ws, t)' = Dist(ws, t)
                          /\ Dist(ws, t) \in Int /\ Dist(ws, t) >= 0
  BY <1>1, <1>3, DistCases, SlotNumber DEF Dist, Wrap
<1>5. CASE wpc' = wpc
  BY <1>1, <1>4, <1>5 DEF Front, Away, PastEnd
<1>6. CASE /\ wpc \notin {"increment", "final", "exit"} /\ wi = 0
           /\ wpc' \notin {"increment", "exit"}
  BY <1>1, <1>4, <1>6 DEF Front, Away, PastEnd
<1> QED
  BY <1>1, <1>2, <1>5, <1>6

LEMMA IncrementFacts ==
  ASSUME BaseInv, OrderInv, Increment
  PROVE  /\ UNCHANGED <<mainVars, written>>
         /\ \A t \in VisSlots : Away(t) => t = ws
         /\ \A t \in VisSlots : ~Away(t)'
         /\ ~PastEnd(vis[ws]) =>
              /\ acc' = [acc EXCEPT ![ws] = {}]
              /\ Away(ws) /\ Front' = Front
         /\ PastEnd(vis[ws]) => acc' = acc /\ vis' = vis /\ PastEnd(Front')
<1>1. /\ ws \in VisSlots /\ vis \in [VisSlots -> Nat] /\ wi = 0 /\ wi' = 0
      /\ wpc = "increment" /\ wpc' = "check"
      /\ ws' = Wrap(ws + 1) /\ ws' \in VisSlots /\ vis[ws] \in Nat
  <2>1. /\ ws \in VisSlots /\ vis \in [VisSlots -> Nat] /\ wi = 0 /\ wi' = 0
        /\ wpc = "increment" /\ wpc' = "check" /\ ws' = Wrap(ws + 1)
    BY DEF BaseInv, TypeOK, EndInv, Increment, WGo
  <2> QED
    BY <2>1, DistNext
<1>2. /\ \A t \in VisSlots : Away(t) => t = ws
      /\ \A t \in VisSlots : ~Away(t)'
  BY <1>1 DEF Away
<1>3. ASSUME ~PastEnd(vis[ws])
      PROVE  /\ acc' = [acc EXCEPT ![ws] = {}]
             /\ Away(ws) /\ Front' = Front
  <2>1. /\ acc' = [acc EXCEPT ![ws] = {}]
        /\ vis' = [vis EXCEPT ![ws] = vis[ws] + VisLength]
        /\ \A s \in VisSlots : vis[s] = vis[ws] + Dist(ws, s)
    BY <1>3 DEF Increment, OrderInv
  <2>2. Dist(ws, ws) = 0 /\ Dist(ws, ws') = 1
    <3>1. Dist(ws, ws) = 0 /\ 0 < VisLength - 1
      BY <1>1, DistInverse, SlotNumber
    <3> QED
      BY <1>1, <3>1, DistNext
  <2>3. ws' # ws /\ vis'[ws'] = vis[ws] + 1
    BY <1>1, <2>1, <2>2
  <2> QED
    BY <1>1, <1>3, <2>1, <2>3 DEF Front, Away
<1>4. ASSUME PastEnd(vis[ws])
      PROVE  acc' = acc /\ vis' = vis /\ PastEnd(Front')
  <2>1. acc' = acc /\ vis' = vis /\ PastEnd(vis[ws'])
    BY <1>1, <1>4 DEF Increment, visVars, OrderInv
  <2>2. Front' = vis'[ws'] + 0
    BY <1>1 DEF Front
  <2>3. vis[ws'] \in Nat
    BY <1>1
  <2> QED
    BY <2>1, <2>2, <2>3
<1> QED
  BY <1>2, <1>3, <1>4 DEF Increment

(* A Visibility that a result is about to be added to has not been written *)
(* since it was last zeroed.                                               *)
LEMMA AddFacts ==
  ASSUME BaseInv, IInv, CoverInv, AddData
  PROVE  /\ visindex \in VisSlots /\ ~Away(visindex)
         /\ result \in Subints /\ result \in Unsettled /\ result \notin Added
         /\ acc' = [acc EXCEPT ![visindex] = acc[visindex] \cup {result}]
         /\ UNCHANGED <<vis, ws, written, wpc, wi>>
         /\ Front' = Front
         /\ \A t \in VisSlots : Away(t)' <=> Away(t)
<1>1. Inner /\ Started /\ InWindow(visindex)
  BY DEF AddData, IInv, Ended, Inner, PlaceInv, Started
<1>2. visindex \in VisSlots /\ Dist(oldest, visindex) <= Span
  BY <1>1 DEF InWindow
<1>3. ~WriterHolds(visindex) /\ wpc \notin {"final", "exit"}
  BY <1>1, <1>2, NotTheWriters DEF Inner, WriterInv
<1>4. ~Away(visindex)
  BY <1>3 DEF Away, WriterHolds
<1>5. result \in Subints /\ result \in Unsettled
  BY DEF AddData, BaseInv, HandInv, InHand, Unsettled
<1>6. result \notin Added
  BY <1>5 DEF CoverInv
<1>7. /\ acc' = [acc EXCEPT ![visindex] = acc[visindex] \cup {result}]
      /\ UNCHANGED <<vis, ws, written, wpc, wi>>
  BY DEF AddData, writerVars
<1>8. Front' = Front /\ \A t \in VisSlots : Away(t)' <=> Away(t)
  BY <1>7 DEF Front, Away, Dist, Wrap, PastEnd
<1> QED
  BY <1>2, <1>4, <1>5, <1>6, <1>7, <1>8

LEMMA AccInit == Init => AccInv /\ OutInv
<1> SUFFICES ASSUME Init PROVE AccInv /\ OutInv
  OBVIOUS
<1>1. /\ written = << >> /\ Len(written) = 0
      /\ \A s \in VisSlots : acc[s] = {}
  BY DEF Init
<1>2. 1 .. Len(written) = {}
  BY <1>1
<1> QED
  BY <1>1, <1>2 DEF AccInv, OutInv

LEMMA AccStep ==
  ASSUME BaseInv, IInv, OrderInv, CoverInv, AccInv, [Next]_vars
  PROVE  AccInv'
<1>0. /\ \A s, t \in VisSlots : s # t => acc[s] \cap acc[t] = {}
      /\ \A m, n \in 1 .. Len(written) :
           m # n => written[m].subints \cap written[n].subints = {}
      /\ \A s \in VisSlots : \A n \in 1 .. Len(written) :
           ~Away(s) => acc[s] \cap written[n].subints = {}
      /\ \A s \in VisSlots : Away(s) =>
           \A k \in acc[s] : \E n \in 1 .. Len(written) : k \in written[n].subints
  BY DEF AccInv
<1> DEFINE w == written'   a == acc'
<1>1. SUFFICES
        /\ \A s, t \in VisSlots : s # t => a[s] \cap a[t] = {}
        /\ \A m, n \in 1 .. Len(w) : m # n => w[m].subints \cap w[n].subints = {}
        /\ \A s \in VisSlots : \A n \in 1 .. Len(w) :
             ~Away(s)' => a[s] \cap w[n].subints = {}
        /\ \A s \in VisSlots : Away(s)' =>
             \A k \in a[s] : \E n \in 1 .. Len(w) : k \in w[n].subints
  BY DEF AccInv
<1>2. CASE WriteSegment \/ FinalWrite
  <2>1. /\ a = acc
        /\ \E s \in VisSlots :
              /\ written' = written \o Output(s) /\ ~Away(s)
              /\ \A t \in VisSlots :
                   Away(t)' <=> (Away(t) \/ (t = s /\ ~PastEnd(vis[t])))
    BY <1>2, WriteStep
  <2>2. PICK s \in VisSlots :
          /\ written' = written \o Output(s) /\ ~Away(s)
          /\ \A t \in VisSlots :
               Away(t)' <=> (Away(t) \/ (t = s /\ ~PastEnd(vis[t])))
    BY <2>1
  <2>3. /\ \A n \in 1 .. Len(written) : n \in 1 .. Len(w) /\ w[n] = written[n]
        /\ \A n \in 1 .. Len(w) : n \notin 1 .. Len(written) =>
              /\ n = Len(written) + 1 /\ ~PastEnd(vis[s])
              /\ w[n].subints = acc[s]
        /\ ~PastEnd(vis[s]) /\ acc[s] # {} => Len(written) + 1 \in 1 .. Len(w)
    BY <2>2, WriteOut
  <2>4. Len(written) \in Nat /\ Len(written) + 1 \notin 1 .. Len(written)
    BY WrittenTypes
  <2> HIDE DEF w, a
  <2>5. \A m, n \in 1 .. Len(w) : m # n => w[m].subints \cap w[n].subints = {}
    <3> SUFFICES ASSUME NEW m \in 1 .. Len(w), NEW n \in 1 .. Len(w), m # n
                 PROVE  w[m].subints \cap w[n].subints = {}
      OBVIOUS
    <3>1. CASE m \in 1 .. Len(written) /\ n \in 1 .. Len(written)
      BY <1>0, <2>3, <3>1
    <3>2. CASE m \in 1 .. Len(written) /\ n \notin 1 .. Len(written)
      BY <1>0, <2>2, <2>3, <3>2
    <3>3. CASE m \notin 1 .. Len(written) /\ n \in 1 .. Len(written)
      <4>1. w[m].subints = acc[s] /\ w[n].subints = written[n].subints
        BY <2>3, <3>3
      <4> QED
        BY <1>0, <2>2, <3>3, <4>1
    <3>4. CASE m \notin 1 .. Len(written) /\ n \notin 1 .. Len(written)
      BY <2>3, <3>4
    <3> QED
      BY <3>1, <3>2, <3>3, <3>4
  <2>6. ASSUME NEW t \in VisSlots, NEW n \in 1 .. Len(w), ~Away(t)'
        PROVE  a[t] \cap w[n].subints = {}
    <3>1. CASE n \in 1 .. Len(written)
      BY <1>0, <2>1, <2>2, <2>3, <2>6, <3>1
    <3>2. CASE n \notin 1 .. Len(written)
      <4>1. w[n].subints = acc[s] /\ t # s
        BY <2>2, <2>3, <2>6, <3>2
      <4> QED
        BY <1>0, <2>1, <4>1
    <3> QED
      BY <3>1, <3>2
  <2>7. ASSUME NEW t \in VisSlots, Away(t)', NEW k \in a[t]
        PROVE  \E n \in 1 .. Len(w) : k \in w[n].subints
    <3>1. CASE Away(t)
      <4>1. PICK n \in 1 .. Len(written) : k \in written[n].subints
        BY <1>0, <2>1, <2>7, <3>1
      <4> QED
        BY <2>3, <4>1
    <3>2. CASE ~Away(t)
      <4>1. t = s /\ ~PastEnd(vis[s])
        BY <2>2, <2>7, <3>2
      <4>2. k \in acc[s] /\ Len(written) + 1 \in 1 .. Len(w)
        BY <2>1, <2>3, <2>7, <4>1
      <4> QED
        BY <2>3, <2>4, <4>2
    <3> QED
      BY <3>1, <3>2
  <2> QED
    BY <1>0, <2>1, <2>5, <2>6, <2>7
<1>3. CASE Increment
  <2>1. /\ w = written /\ ws \in VisSlots /\ acc \in [VisSlots -> SUBSET Subints]
        /\ \A t \in VisSlots : Away(t) => t = ws
        /\ \A t \in VisSlots : ~Away(t)'
        /\ ~PastEnd(vis[ws]) => a = [acc EXCEPT ![ws] = {}]
        /\ PastEnd(vis[ws]) => a = acc /\ ~Away(ws)
    BY <1>3, IncrementFacts, WrittenTypes DEF Away
  <2> HIDE DEF w, a
  <2>2. \A t \in VisSlots : a[t] = {} \/ (a[t] = acc[t] /\ ~Away(t))
    <3>1. CASE PastEnd(vis[ws])
      BY <2>1, <3>1
    <3>2. CASE ~PastEnd(vis[ws])
      BY <2>1, <3>2
    <3> QED
      BY <3>1, <3>2
  <2> QED
    BY <1>0, <2>1, <2>2
<1>4. CASE AddData
  <2>1. /\ visindex \in VisSlots /\ ~Away(visindex)
        /\ result \in Subints /\ result \notin Added
        /\ a = [acc EXCEPT ![visindex] = acc[visindex] \cup {result}]
        /\ w = written /\ \A t \in VisSlots : Away(t)' <=> Away(t)
        /\ acc \in [VisSlots -> SUBSET Subints]
    BY <1>4, AddFacts, WrittenTypes
  <2>2. /\ \A s \in VisSlots : result \notin acc[s]
        /\ \A n \in 1 .. Len(written) : result \notin written[n].subints
    BY <2>1 DEF Added
  <2> HIDE DEF w, a
  <2>3. \A s \in VisSlots : a[s] = IF s = visindex THEN acc[s] \cup {result}
                                   ELSE acc[s]
    BY <2>1
  <2>4. \A s, t \in VisSlots : s # t => a[s] \cap a[t] = {}
    <3> SUFFICES ASSUME NEW s \in VisSlots, NEW t \in VisSlots, s # t
                 PROVE  a[s] \cap a[t] = {}
      OBVIOUS
    <3>1. acc[s] \cap acc[t] = {} /\ result \notin acc[s] /\ result \notin acc[t]
      BY <1>0, <2>2
    <3>2. a[s] = acc[s] \/ a[t] = acc[t]
      BY <2>3
    <3> QED
      BY <2>3, <3>1, <3>2
  <2>5. \A s \in VisSlots : \A n \in 1 .. Len(w) :
             ~Away(s)' => a[s] \cap w[n].subints = {}
    BY <1>0, <2>1, <2>2, <2>3
  <2>6. \A s \in VisSlots : Away(s)' =>
             \A k \in a[s] : \E n \in 1 .. Len(w) : k \in w[n].subints
    BY <1>0, <2>1, <2>3
  <2> QED
    BY <1>0, <2>1, <2>4, <2>5, <2>6
<1>5. CASE ~AddData /\ ~WriteSegment /\ ~FinalWrite /\ ~Increment
  BY <1>0, <1>5, RestStep
<1> QED
  BY <1>2, <1>3, <1>4, <1>5

LEMMA OutStep ==
  ASSUME BaseInv, IInv, OrderInv, CoverInv, OutInv, [Next]_vars
  PROVE  OutInv'
<1> DEFINE w == written'
<1>0. /\ \A n \in 1 .. Len(written) :
           ~PastEnd(written[n].vis) /\ written[n].vis < Front
      /\ \A m, n \in 1 .. Len(written) : m < n => written[m].vis < written[n].vis
      /\ \A n \in 1 .. Len(written) : written[n].vis \in Nat
      /\ Len(written) \in Nat /\ VisEnd[NumScans] \in Nat
  BY WrittenTypes, ScanFacts DEF OutInv
<1>1. SUFFICES
        /\ \A n \in 1 .. Len(w) : ~PastEnd(w[n].vis) /\ w[n].vis < Front'
        /\ \A m, n \in 1 .. Len(w) : m < n => w[m].vis < w[n].vis
  BY DEF OutInv, PastEnd
<1>2. CASE WriteSegment \/ FinalWrite
  <2>1. /\ Front \in Nat /\ Front' = Front + 1
        /\ \E s \in VisSlots : /\ written' = written \o Output(s)
                               /\ PastEnd(vis[s]) \/ vis[s] = Front
    BY <1>2, WriteStep
  <2>2. PICK s \in VisSlots : /\ written' = written \o Output(s)
                              /\ PastEnd(vis[s]) \/ vis[s] = Front
    BY <2>1
  <2>3. /\ \A n \in 1 .. Len(written) : n \in 1 .. Len(w) /\ w[n] = written[n]
        /\ \A n \in 1 .. Len(w) : n \notin 1 .. Len(written) =>
              /\ n = Len(written) + 1 /\ ~PastEnd(vis[s])
              /\ w[n].vis = vis[s]
    BY <2>2, WriteOut
  <2> HIDE DEF w
  <2>4. ASSUME NEW n \in 1 .. Len(w)
        PROVE  ~PastEnd(w[n].vis) /\ w[n].vis < Front'
    <3>1. CASE n \in 1 .. Len(written)
      BY <1>0, <2>1, <2>3, <3>1
    <3>2. CASE n \notin 1 .. Len(written)
      BY <2>1, <2>2, <2>3, <3>2
    <3> QED
      BY <3>1, <3>2
  <2>5. ASSUME NEW m \in 1 .. Len(w), NEW n \in 1 .. Len(w), m < n
        PROVE  w[m].vis < w[n].vis
    <3>1. CASE m \in 1 .. Len(written) /\ n \in 1 .. Len(written)
      BY <1>0, <2>3, <2>5, <3>1
    <3>2. CASE m \in 1 .. Len(written) /\ n \notin 1 .. Len(written)
      BY <1>0, <2>2, <2>3, <3>2
    <3>3. CASE m \notin 1 .. Len(written)
      <4>1. m = Len(written) + 1 /\ (n \in 1 .. Len(written) \/ n = m)
        BY <2>3, <3>3
      <4> QED
        BY <1>0, <2>5, <4>1
    <3> QED
      BY <3>1, <3>2, <3>3
  <2> QED
    BY <2>4, <2>5
<1>3. CASE Increment
  <2>1. w = written /\ (Front' = Front \/ PastEnd(Front'))
    BY <1>3, IncrementFacts
  <2>2. Front' \in Int
    <3>1. BaseInv'
      BY <1>3, BaseWriter DEF WriterStep
    <3>2. vis'[ws'] \in Nat /\ wi' \in Nat
      BY <3>1, BaseFacts DEF BaseInv, TypeOK
    <3> QED
      BY <3>2 DEF Front
  <2> HIDE DEF w
  <2> QED
    BY <1>0, <2>1, <2>2 DEF PastEnd
<1>4. CASE AddData
  <2>1. w = written /\ Front' = Front
    BY <1>4, AddFacts
  <2> QED
    BY <1>0, <2>1
<1>5. CASE ~AddData /\ ~WriteSegment /\ ~FinalWrite /\ ~Increment
  BY <1>0, <1>5, RestStep
<1> QED
  BY <1>2, <1>3, <1>4, <1>5

(* Nothing that was added disappears.                                      *)
LEMMA AddedStep ==
  ASSUME BaseInv, IInv, OrderInv, CoverInv, AccInv, [Next]_vars
  PROVE  /\ AddData => Added' = Added \cup {result}
         /\ ~AddData => Added' = Added
<1> DEFINE w == written'   a == acc'
<1>1. ASSUME NEW k, a = acc, w = written PROVE k \in Added' <=> k \in Added
  BY <1>1 DEF Added
<1>2. CASE WriteSegment \/ FinalWrite
  <2>1. /\ a = acc
        /\ \E s \in VisSlots : written' = written \o Output(s)
    BY <1>2, WriteStep
  <2>2. PICK s \in VisSlots : written' = written \o Output(s)
    BY <2>1
  <2>3. /\ \A n \in 1 .. Len(written) : n \in 1 .. Len(w) /\ w[n] = written[n]
        /\ \A n \in 1 .. Len(w) : n \notin 1 .. Len(written) =>
              w[n].subints = acc[s]
    BY <2>2, WriteOut
  <2> HIDE DEF w, a
  <2>4. ASSUME NEW k \in Subints
        PROVE  (\/ \E t \in VisSlots : k \in acc[t]
                \/ \E n \in 1 .. Len(w) : k \in w[n].subints)
               <=> (\/ \E t \in VisSlots : k \in acc[t]
                    \/ \E n \in 1 .. Len(written) : k \in written[n].subints)
    <3>1. ASSUME NEW n \in 1 .. Len(w), k \in w[n].subints
          PROVE  \/ \E t \in VisSlots : k \in acc[t]
                 \/ \E m \in 1 .. Len(written) : k \in written[m].subints
      <4>1. CASE n \in 1 .. Len(written)
        BY <2>3, <3>1, <4>1
      <4>2. CASE n \notin 1 .. Len(written)
        BY <2>3, <3>1, <4>2
      <4> QED
        BY <4>1, <4>2
    <3>2. ASSUME NEW n \in 1 .. Len(written), k \in written[n].subints
          PROVE  \E m \in 1 .. Len(w) : k \in w[m].subints
      BY <2>3, <3>2
    <3> QED
      BY <3>1, <3>2
  <2>5. Added' = Added
    BY <2>1, <2>4 DEF Added, w, a
  <2>6. ~AddData
    BY <1>2, WriteStep DEF AddData, mainVars
  <2> QED
    BY <2>5, <2>6
<1>3. CASE Increment
  <2>1. /\ w = written /\ ws \in VisSlots /\ acc \in [VisSlots -> SUBSET Subints]
        /\ \A t \in VisSlots : Away(t) => t = ws
        /\ ~PastEnd(vis[ws]) => a = [acc EXCEPT ![ws] = {}] /\ Away(ws)
        /\ PastEnd(vis[ws]) => a = acc
    BY <1>3, IncrementFacts, WrittenTypes DEF Away
  <2>2. ~AddData
    BY <1>3 DEF AddData, Increment, WGo, writerVars
  <2>3. CASE PastEnd(vis[ws])
    BY <2>1, <2>2, <2>3 DEF Added
  <2>4. CASE ~PastEnd(vis[ws])
    <3>1. a = [acc EXCEPT ![ws] = {}]
      BY <2>1, <2>4
    <3>2. \A k \in acc[ws] : \E n \in 1 .. Len(written) : k \in written[n].subints
      BY <2>1, <2>4 DEF AccInv
    <3> HIDE DEF w, a
    <3>3. \A t \in VisSlots : t # ws => a[t] = acc[t]
      BY <2>1, <3>1
    <3>4. a[ws] = {}
      BY <2>1, <3>1
    <3>5. \A k \in Subints :
            (\/ \E t \in VisSlots : k \in a[t]
             \/ \E n \in 1 .. Len(written) : k \in written[n].subints)
            <=> (\/ \E t \in VisSlots : k \in acc[t]
                 \/ \E n \in 1 .. Len(written) : k \in written[n].subints)
      BY <2>1, <3>2, <3>3, <3>4
    <3> QED
      BY <2>1, <2>2, <3>5 DEF Added, w, a
  <2> QED
    BY <2>3, <2>4
<1>4. CASE AddData
  <2>1. /\ visindex \in VisSlots /\ result \in Subints
        /\ a = [acc EXCEPT ![visindex] = acc[visindex] \cup {result}]
        /\ w = written /\ acc \in [VisSlots -> SUBSET Subints]
    BY <1>4, AddFacts, WrittenTypes
  <2> HIDE DEF w, a
  <2>2. \A s \in VisSlots : a[s] = IF s = visindex THEN acc[s] \cup {result}
                                   ELSE acc[s]
    BY <2>1
  <2>3. \A k \in Subints :
          (\E s \in VisSlots : k \in a[s])
            <=> (\E s \in VisSlots : k \in acc[s]) \/ k = result
    BY <2>1, <2>2
  <2> QED
    BY <1>4, <2>1, <2>3 DEF Added, w, a
<1>5. CASE ~AddData /\ ~WriteSegment /\ ~FinalWrite /\ ~Increment
  BY <1>5, RestStep DEF Added
<1> QED
  BY <1>2, <1>3, <1>4, <1>5

LEMMA CoverInit == Init => CoverInv
<1> SUFFICES ASSUME Init PROVE CoverInv
  OBVIOUS
<1>1. /\ \A c \in Cores : queue[c] = << >> /\ Len(queue[c]) = 0
      /\ written = << >> /\ Len(written) = 0
      /\ \A s \in VisSlots : acc[s] = {}
      /\ stale = {} /\ next = 0
  BY DEF Init
<1>2. (\A c \in Cores : 1 .. Len(queue[c]) = {}) /\ 1 .. Len(written) = {}
  BY <1>1
<1>3. Queued = {} /\ Added = {}
  BY <1>1, <1>2 DEF Queued, Added
<1>4. ~InHand
  BY DEF Init, Pending, InHand, Locating
<1>5. Unsettled = {} /\ 0 .. next - 1 = {}
  BY <1>1, <1>3, <1>4 DEF Unsettled
<1> QED
  BY <1>1, <1>3, <1>5 DEF CoverInv

LEMMA CoverStep ==
  ASSUME BaseInv, SentInv, IInv, OrderInv, OwedInv, CoverInv, AccInv,
         [Next]_vars
  PROVE  CoverInv'
<1>0. /\ \A k \in Unsettled : k \notin stale /\ k \notin Added
      /\ \A k \in Added \cup stale : k < next
      /\ \A k \in 0 .. next - 1 : k \in Unsettled \/ k \in stale \/ k \in Added
      /\ next \in Nat /\ stale \subseteq Nat /\ Added \subseteq Nat
      /\ InHand => result \notin Queued
  <2>1. stale \subseteq Subints /\ Added \subseteq Subints
    BY DEF BaseInv, TypeOK, Added
  <2>2. next \in Nat
    BY BaseFacts DEF BaseInv, TypeOK
  <2> QED
    BY <2>1, <2>2, BaseFacts DEF CoverInv, OwedInv
(* What is sent becomes unsettled, what is settled is stale or added.      *)
<1>1. ASSUME next' = next \/ (next' = next + 1 /\ next \in Unsettled'),
             \A k \in Unsettled' :
               k \in Unsettled \/ (k = next /\ next' = next + 1),
             \A k \in Unsettled :
               k \in Unsettled' \/ k \in Added' \/ k \in stale',
             \A k \in Added' \cup stale' :
               k \in Added \cup stale \/ (k \in Unsettled /\ k \notin Unsettled'),
             Added \subseteq Added', stale \subseteq stale'
      PROVE  CoverInv'
  <2>1. \A k \in Unsettled : k \in Nat /\ k < next
    <3>1. \A k \in Queued : k \in Nat /\ k < next
      BY BaseFacts DEF Queued, SentInv
    <3>2. InHand => result \in Nat /\ result < next
      BY BaseFacts DEF SentInv, BaseInv, HandInv
    <3> QED
      BY <3>1, <3>2 DEF Unsettled
  <2>2. \A k \in Unsettled' : k \notin stale' /\ k \notin Added'
    BY <1>0, <1>1, <2>1
  <2>3. \A k \in Added' \cup stale' : k < next'
    <3>1. \A k \in Added' \cup stale' : k \in Nat /\ k < next
      BY <1>0, <1>1, <2>1
    <3>2. next' \in Nat /\ next <= next'
      BY <1>0, <1>1
    <3> QED
      BY <1>0, <3>1, <3>2
  <2>4. \A k \in 0 .. next' - 1 : k \in Unsettled' \/ k \in stale' \/ k \in Added'
    BY <1>0, <1>1
  <2> QED
    BY <2>2, <2>3, <2>4 DEF CoverInv
<1>2. CASE SendFill
  <2>1. PICK c \in Cores : SendData(c)
    BY <1>2, <1>0, BaseFacts DEF SendFill
  <2>2. next < MaxSubints /\ ~InHand' /\ ~InHand /\ ~AddData /\ stale' = stale
    BY <1>2 DEF SendFill, InHand, Pending, Locating, AddData, logVars
  <2>3. Queued' = Queued \cup {next} /\ next' = next + 1
    BY <2>1, <2>2, SendQueues DEF SendData
  <2>4. Added' = Added
    BY <2>2, AddedStep
  <2>5. Unsettled = Queued /\ Unsettled' = Queued \cup {next}
    BY <2>2, <2>3 DEF Unsettled
  <2> QED
    BY <1>0, <1>1, <2>2, <2>3, <2>4, <2>5
<1>3. ASSUME NEW c \in Cores, Receive(c) PROVE CoverInv'
  <2>1. Queued = Queued' \cup {result'}
    BY <1>3, ReceiveQueues
  <2>2. /\ InHand' /\ ~InHand /\ ~AddData /\ stale' = stale /\ next' = next
    BY <1>3 DEF Receive, InHand, Pending, Locating, AddData, logVars
  <2>3. Added' = Added /\ Unsettled' = Unsettled
    BY <2>1, <2>2, AddedStep DEF Unsettled
  <2> QED
    BY <1>0, <1>1, <2>2, <2>3
<1>4. CASE Resend
  <2>1. /\ Pending /\ InHand /\ result' = result /\ ~AddData
        /\ Unsettled = Queued \cup {result} /\ result \notin Queued
        /\ \/ mpc' = "loop" /\ ~InHand' /\ stale' = stale \cup {result}
           \/ mpc' = "add" /\ InHand' /\ stale' = stale
    BY <1>0, <1>4 DEF Resend, Pending, Locating, InHand, Unsettled, AddData
  <2>2. Added' = Added
    BY <2>1, AddedStep
  <2>3. \/ next' = next /\ Queued' = Queued
        \/ next' = next + 1 /\ Queued' = Queued \cup {next}
    <3>1. CASE sending
      <4>1. /\ from \in Cores /\ SendData(from) /\ next < MaxSubints
        BY <1>4, <2>1, <3>1 DEF Resend, BaseInv, TypeOK, HandInv
      <4>2. Queued' = Queued \cup {next} /\ next' = next + 1
        BY <4>1, SendQueues DEF SendData
      <4> QED
        BY <1>0, <4>2
    <3>2. CASE ~sending
      <4>1. UNCHANGED <<queue, next>>
        BY <1>4, <3>2 DEF Resend
      <4> QED
        BY <4>1 DEF Queued
    <3> QED
      BY <3>1, <3>2
  <2>4. CASE ~InHand' /\ stale' = stale \cup {result}
    <3>1. Unsettled' = Queued'
      BY <2>4 DEF Unsettled
    <3>2. result # next /\ result \notin Unsettled'
      BY <1>0, <2>1, <2>3, <3>1, BaseFacts DEF SentInv, BaseInv, HandInv
    <3> QED
      BY <1>1, <2>1, <2>2, <2>3, <2>4, <3>1, <3>2
  <2>5. CASE InHand' /\ stale' = stale
    <3>1. Unsettled' = Queued' \cup {result}
      BY <2>1, <2>5 DEF Unsettled
    <3> QED
      BY <1>1, <2>1, <2>2, <2>3, <2>5, <3>1
  <2> QED
    BY <2>1, <2>4, <2>5
<1>5. CASE AddData
  <2>1. /\ InHand /\ ~InHand' /\ UNCHANGED <<queue, next, stale>>
    BY <1>5 DEF AddData, InHand, Pending, Locating, coreVars, logVars
  <2>2. Added' = Added \cup {result} /\ Queued' = Queued
    BY <1>5, <2>1, AddedStep DEF Queued
  <2>3. /\ Unsettled = Queued \cup {result} /\ Unsettled' = Queued
        /\ result \notin Queued
    BY <1>0, <2>1, <2>2 DEF Unsettled
  <2> QED
    BY <1>0, <1>1, <2>1, <2>2, <2>3
<1>6. CASE /\ ~SendFill /\ ~(\E c \in Cores : Receive(c)) /\ ~Resend
           /\ ~AddData
  <2>1. /\ UNCHANGED <<queue, result, next, stale>>
        /\ InHand' <=> InHand
    BY <1>6, QuietSteps DEF coreVars, InHand
  <2>2. Queued' = Queued
    BY <2>1 DEF Queued
  <2>3. Unsettled' = Unsettled
    BY <2>1, <2>2 DEF Unsettled
  <2>4. Added' = Added
    BY <1>6, AddedStep
  <2> QED
    BY <1>0, <1>1, <2>1, <2>3, <2>4
<1> QED
  BY <1>2, <1>3, <1>4, <1>5, <1>6

OutputInv == OwedInv /\ CoverInv /\ AccInv /\ OutInv

LEMMA OutputInvariance == Spec => []OutputInv
<1>1. Init => OutputInv
  BY OwedInit, CoverInit, AccInit DEF OutputInv
<1>2. BaseInv /\ SentInv /\ OrderInv /\ TInv /\ IInv /\ OutputInv /\ [Next]_vars
        => OutputInv'
  BY OwedStep, CoverStep, AccStep, OutStep DEF OutputInv
<1> QED
  BY <1>1, <1>2, PlaceInvariance, TimesInvariance, Invariance, PTL DEF Spec

(* writedata puts the integrations out in the order of their times and     *)
(* each of them once, for scans of any integration times, and none of the  *)
(* results that were added is in two of them.                              *)
THEOREM WrittenInOrder == Spec => []WrittenOnceInOrder
<1>1. OutputInv => WrittenOnceInOrder
  <2> SUFFICES ASSUME OutputInv, NEW m \in 1 .. Len(written),
                      NEW n \in 1 .. Len(written), m < n
               PROVE  /\ written[m].vis < written[n].vis
                      /\ written[m].subints \cap written[n].subints = {}
    BY DEF WrittenOnceInOrder
  <2>1. m # n
    OBVIOUS
  <2> QED
    BY <2>1 DEF OutputInv, OutInv, AccInv
<1> QED
  BY <1>1, OutputInvariance, PTL

LEMMA AllSettled ==
  ASSUME BaseInv, OutputInv, Ended
  PROVE  Unsettled = {}
<1>1. ~Pending /\ ~InHand /\ ~sending /\ drain = 0
  BY DEF BaseInv, EndInv, Ended, Pending, InHand, Locating
<1>2. IsFiniteSet(Owed) /\ Cardinality(Owed) = 0
  BY <1>1 DEF OutputInv, OwedInv, Outstanding
<1>3. Owed = {}
  BY <1>2, FS_EmptySet
<1> QED
  BY <1>1, <1>3 DEF Owed, Unsettled

(***************************************************************************)
(* Which integration a result that was added belongs to.                   *)
(***************************************************************************)
LEMMA ForcedGrows == ASSUME [Next]_vars PROVE forced \subseteq forced'
BY DEF Next, vars, MainStep, WriterStep, TestInitialised, CondWait,
  CondWake, SendFill, Locate, SearchFound, SearchStale, SearchNewer, Extend,
  ExtendFull, CatchUp, CaughtUp, Relock, Resend, AddData, LockNext, ReleaseVis,
  StopWriting, UnlockAll, Join, StopSending, SpuriousWakeup, Receive, LockEnd,
  SetInitialised, Signal, CheckKeepWriting, LockSegment, UnlockPrevious,
  WriteSegment, Increment, LastUnlock, FinalWrite, Finished, mainVars, logVars

LEMMA HomeInit == Init => HomeInv
<1> SUFFICES ASSUME Init PROVE HomeInv
  OBVIOUS
<1>1. /\ written = << >> /\ Len(written) = 0
      /\ \A s \in VisSlots : acc[s] = {}
  BY DEF Init
<1>2. 1 .. Len(written) = {}
  BY <1>1
<1> QED
  BY <1>1, <1>2 DEF HomeInv

LEMMA HomeStep ==
  ASSUME BaseInv, IInv, OrderInv, PlacedInv, CoverInv, HomeInv, [Next]_vars
  PROVE  HomeInv'
<1> DEFINE w == written'   a == acc'
           Home(v, k) == /\ v <= IntegrationOf(k)
                         /\ EvenScans => v = IntegrationOf(k)
<1>0. /\ \A s \in VisSlots : \A k \in acc[s] : k \notin forced => Home(vis[s], k)
      /\ \A n \in 1 .. Len(written) : \A k \in written[n].subints :
           k \notin forced => Home(written[n].vis, k)
      /\ \A k : k \notin forced' => k \notin forced
  BY ForcedGrows DEF HomeInv
<1>1. SUFFICES
      /\ \A s \in VisSlots : \A k \in a[s] : k \notin forced' => Home(vis'[s], k)
      /\ \A n \in 1 .. Len(w) : \A k \in w[n].subints :
           k \notin forced' => Home(w[n].vis, k)
  BY DEF HomeInv
<1> HIDE DEF Home
<1>2. CASE WriteSegment \/ FinalWrite
  <2>1. /\ a = acc /\ vis' = vis
        /\ \E s \in VisSlots : written' = written \o Output(s)
    BY <1>2, WriteStep
  <2>2. PICK s \in VisSlots : written' = written \o Output(s)
    BY <2>1
  <2>3. /\ \A n \in 1 .. Len(written) : n \in 1 .. Len(w) /\ w[n] = written[n]
        /\ \A n \in 1 .. Len(w) : n \notin 1 .. Len(written) =>
              w[n].vis = vis[s] /\ w[n].subints = acc[s]
    BY <2>2, WriteOut
  <2> HIDE DEF w, a
  <2>4. ASSUME NEW n \in 1 .. Len(w), NEW k \in w[n].subints, k \notin forced'
        PROVE  Home(w[n].vis, k)
    <3>1. CASE n \in 1 .. Len(written)
      BY <1>0, <2>3, <2>4, <3>1
    <3>2. CASE n \notin 1 .. Len(written)
      <4>1. w[n].vis = vis[s] /\ k \in acc[s]
        BY <2>3, <2>4, <3>2
      <4> QED
        BY <1>0, <2>4, <4>1
    <3> QED
      BY <3>1, <3>2
  <2> QED
    BY <1>0, <2>1, <2>4
<1>3. CASE Increment
  <2>1. /\ w = written /\ ws \in VisSlots /\ acc \in [VisSlots -> SUBSET Subints]
        /\ vis \in [VisSlots -> Nat]
        /\ ~PastEnd(vis[ws]) => a = [acc EXCEPT ![ws] = {}]
        /\ PastEnd(vis[ws]) => a = acc /\ vis' = vis
        /\ ~PastEnd(vis[ws]) => vis' = [vis EXCEPT ![ws] = vis[ws] + VisLength]
    BY <1>3, IncrementFacts, WrittenTypes DEF Increment
  <2> HIDE DEF w, a
  <2>2. \A t \in VisSlots : a[t] = {} \/ (a[t] = acc[t] /\ vis'[t] = vis[t])
    <3>1. CASE PastEnd(vis[ws])
      BY <2>1, <3>1
    <3>2. CASE ~PastEnd(vis[ws])
      BY <2>1, <3>2
    <3> QED
      BY <3>1, <3>2
  <2> QED
    BY <1>0, <2>1, <2>2
<1>4. CASE AddData
  <2>1. /\ visindex \in VisSlots /\ acc \in [VisSlots -> SUBSET Subints]
        /\ a = [acc EXCEPT ![visindex] = acc[visindex] \cup {result}]
        /\ w = written /\ vis' = vis /\ forced' = forced
    BY <1>4, AddFacts, WrittenTypes DEF AddData, logVars
  <2>2. result \notin forced => Home(vis[visindex], result)
    BY <1>4, <2>1, SlotNumber DEF PlacedInv, AddData, Home
  <2> HIDE DEF w, a
  <2>3. \A s \in VisSlots : a[s] = IF s = visindex THEN acc[s] \cup {result}
                                   ELSE acc[s]
    BY <2>1
  <2> QED
    BY <1>0, <2>1, <2>2, <2>3
<1>5. CASE ~AddData /\ ~WriteSegment /\ ~FinalWrite /\ ~Increment
  BY <1>0, <1>5, RestStep
<1> QED
  BY <1>2, <1>3, <1>4, <1>5

LEMMA HomeInvariance ==
  ASSUME NeverShorter
  PROVE  Spec => []HomeInv
<1>1. BaseInv /\ OrderInv /\ IInv /\ PlacedInv /\ OutputInv /\ HomeInv
        /\ [Next]_vars => HomeInv'
  BY HomeStep DEF OutputInv
<1> QED
  BY <1>1, HomeInit, PlacedInvariance, PlaceInvariance, OutputInvariance,
    Invariance, PTL DEF Spec

(* At the end of a job every subintegration that was sent has been written *)
(* or reported, however the write thread and the main thread interleave    *)
(* and wherever SIGINT stops the sending: for scans whose integration time *)
(* never becomes shorter.                                                  *)
THEOREM NothingIsLost ==
  ASSUME NeverShorter
  PROVE  Spec => []NothingLost
<1>1. BaseInv /\ OutputInv /\ HomeInv => NothingLost
  <2> SUFFICES ASSUME BaseInv, OutputInv, HomeInv, mpc = "done",
                      NEW k \in 0 .. next - 1
               PROVE  \/ k \in stale \/ k \in forced
                      \/ \E n \in 1 .. Len(written) : k \in written[n].subints
    BY DEF NothingLost
  <2>1. /\ ~Pending /\ ~InHand /\ ~sending /\ drain = 0
        /\ wpc = "exit" /\ wi = VisLength
    BY DEF BaseInv, EndInv, Ended, Pending, InHand, Locating
  <2>2. Unsettled = {}
    BY <2>1, AllSettled DEF EndInv, BaseInv, Ended
  <2>3. k \in stale \/ k \in Added
    BY <2>2 DEF OutputInv, CoverInv
  <2>4. ASSUME NEW s \in VisSlots, k \in acc[s]
        PROVE  k \in forced \/ \E n \in 1 .. Len(written) : k \in written[n].subints
    <3>1. CASE PastEnd(vis[s])
      <4> SUFFICES ASSUME k \notin forced PROVE FALSE
        OBVIOUS
      <4>1. k \in Subints /\ vis[s] \in Nat
        BY <2>4 DEF BaseInv, TypeOK
      <4>2. vis[s] <= IntegrationOf(k)
        BY <2>4 DEF HomeInv
      <4> QED
        BY <3>1, <4>1, <4>2, IntegrationFacts, ScanFacts DEF PastEnd
    <3>2. CASE ~PastEnd(vis[s])
      <4>1. Dist(ws, s) < wi
        BY <2>1, DistCases, SlotNumber DEF BaseInv, TypeOK
      <4>2. Away(s)
        BY <2>1, <3>2, <4>1 DEF Away
      <4> QED
        BY <2>4, <4>2 DEF OutputInv, AccInv
    <3> QED
      BY <3>1, <3>2
  <2> QED
    BY <2>3, <2>4 DEF Added
<1> QED
  BY <1>1, PlaceInvariance, OutputInvariance, HomeInvariance, PTL

(***************************************************************************)
(* What is written is complete.  The main thread lets go of a Visibility   *)
(* when it has counted as many results as a full integration has, or when  *)
(* it gives the oldest one up: then all of the integration's results have  *)
(* been added, or it is noted in abandoned.  What the write thread writes  *)
(* is behind everything main still holds, so it is settled.  For scans of  *)
(* one integration time: results are counted, not looked at, and a result  *)
(* is placed by the integration time of the scan being sent out.           *)
(***************************************************************************)

(* Main has let go of integration v, and nothing is missing in it.         *)
LetGo(v) ==
  v < vis[oldest] \/ \E s \in VisSlots : /\ Dist(oldest, s) <= Span
                                         /\ vis[s] = v /\ ~islocked[s]
Settled(v) == \A k \in Subints : IntegrationOf(k) = v => k \in Added

LetGoInv ==
  ~Ended => \A v \in Nat : LetGo(v) /\ ~PastEnd(v) => v \in abandoned \/ Settled(v)
FullInv == mpc \in {"locknext", "release"} => Settled(vis[visindex])
StaleInv == \A k \in stale : IntegrationOf(k) \in abandoned
CompleteInv == forced = {} => LetGoInv /\ FullInv /\ StaleInv

(***************************************************************************)
(* What Expected counts.                                                   *)
(***************************************************************************)
Members(v) == {k \in Subints : IntegrationOf(k) = v}

(* No integration has more subintegrations than make it complete.          *)
LEMMA MembersBound ==
  ASSUME NEW v \in Nat
  PROVE  /\ IsFiniteSet(Members(v))
         /\ Members(v) # {} => Cardinality(Members(v)) <= Expected(v)
<1> DEFINE j == VisScan(v)   b == VisStart(v)
<1>1. ASSUME NEW k \in Members(v)
      PROVE  /\ k \in Int /\ ~PastEnd(v) /\ j \in 1 .. NumScans /\ j = ScanOf(k)
             /\ b \in Int /\ ScanEnd[j] \in Int /\ Scans[j].intTime \in Int
             /\ b <= k /\ k < b + Scans[j].intTime /\ k < ScanEnd[j]
  <2>1. /\ k \in Subints /\ IntegrationOf(k) = v /\ k \in Nat
        /\ ScanOf(k) \in 1 .. NumScans /\ k < ScanEnd[ScanOf(k)]
    BY ScanOfFacts DEF Members
  <2>2. ~PastEnd(v)
    BY <2>1, IntegrationFacts
  <2>3. j \in 1 .. NumScans
    BY <2>2, VisScanFacts
  <2>4. j \in Int /\ ScanOf(k) \in Int
    BY <2>1, <2>3, ScanTypes
  <2>5. j = ScanOf(k)
    BY <2>1, <2>2, <2>4, Compare
  <2>6. /\ b \in Int
        /\ b <= k <=> v <= IntegrationOf(k)
        /\ k < b + Scans[ScanOf(k)].intTime <=> IntegrationOf(k) <= v
    BY <2>1, <2>2, <2>5, Compare
  <2>7. ScanEnd[j] \in Int /\ Scans[j].intTime \in Int
    BY <2>3, ScanFacts, ScanTypes
  <2> QED
    BY <2>1, <2>2, <2>3, <2>5, <2>6, <2>7
<1>2. CASE Members(v) = {}
  BY <1>2, FS_EmptySet
<1>3. CASE Members(v) # {}
  <2>1. /\ ~PastEnd(v) /\ j \in 1 .. NumScans
        /\ b \in Int /\ ScanEnd[j] \in Int /\ Scans[j].intTime \in Int
    BY <1>1, <1>3
  <2>2. \/ Expected(v) = Scans[j].intTime
        \/ Expected(v) = ScanEnd[j] - b
    BY <2>1 DEF Expected, FullCount
  <2> HIDE DEF j, b
  <2>3. Expected(v) \in Int
    BY <2>1, <2>2
  <2>4. Members(v) \subseteq b .. b + Expected(v) - 1
    BY <1>1, <2>1, <2>2, <2>3
  <2>5. b + Expected(v) - 1 \in Int
    BY <2>1, <2>3
  <2>6. ~(b > b + Expected(v) - 1)
    BY <1>3, <2>1, <2>3, <2>4
  <2>7. /\ IsFiniteSet(b .. b + Expected(v) - 1)
        /\ Cardinality(b .. b + Expected(v) - 1) = Expected(v)
    BY <2>1, <2>3, <2>5, <2>6, FS_Interval
  <2> QED
    BY <2>4, <2>7, FS_Subset
<1> QED
  BY <1>2, <1>3

(***************************************************************************)
(* How main lets go of a Visibility.                                       *)
(***************************************************************************)
LEMMA AddedGrows ==
  ASSUME BaseInv, IInv, OrderInv, CoverInv, AccInv, [Next]_vars
  PROVE  /\ Added \subseteq Added'
         /\ \A v : Settled(v) => Settled(v)'
<1>1. Added \subseteq Added'
  BY AddedStep
<1> QED
  BY <1>1 DEF Settled

(* Slot r is unlocked and oldestlockedvis moves k Visibilities on, past    *)
(* what was unlocked before.                                               *)
LEMMA UnlockLets ==
  ASSUME BaseInv, Inner, Started, OrderInv, vis' = vis,
         NEW r \in VisSlots, NEW k \in 0 .. Span,
         islocked' = [islocked EXCEPT ![r] = FALSE],
         oldest' = Wrap(oldest + k), newest' = newest, Span' = Span - k,
         \A i \in 0 .. k - 1 : ~islocked'[Wrap(oldest + i)],
         NEW v \in Nat, LetGo(v)', ~PastEnd(v)
  PROVE  LetGo(v) \/ v = vis[r]
<1>1. /\ oldest \in VisSlots /\ islocked \in [VisSlots -> BOOLEAN]
      /\ vis \in [VisSlots -> Nat] /\ vis[oldest] \in Nat
      /\ Span \in Int /\ 0 <= Span /\ Span <= VisLength - 2
      /\ VisLength \in Int
  BY SpanNumber DEF Inner, RingInv, BaseInv, TypeOK
<1>2. k \in VisSlots /\ k \in Int /\ 0 <= k /\ k <= Span
  BY <1>1 DEF VisSlots
<1>3. /\ oldest' \in VisSlots
      /\ \A s \in VisSlots : /\ Dist(oldest, s) \in Int /\ 0 <= Dist(oldest, s)
                             /\ Dist(oldest, s) < VisLength
                             /\ Dist(oldest', s) \in Int
                             /\ Dist(oldest', s) >= 0
  <2>1. oldest' \in VisSlots
    BY <1>1, <1>2, WrapCases
  <2> QED
    BY <1>1, <2>1, DistCases, SlotNumber
<1>4. CASE v < vis[oldest']
  <2>1. CASE PastEnd(vis[ws])
    <3>1. PastEnd(vis[oldest])
      BY <1>1, <2>1 DEF OrderInv
    <3>2. v < vis[oldest]
      BY <1>1, <3>1, ScanFacts DEF PastEnd
    <3> QED
      BY <3>2 DEF LetGo
  <2>2. CASE ~PastEnd(vis[ws])
    <3>1. \A i \in 0 .. Span : /\ Wrap(oldest + i) \in VisSlots
                               /\ vis[Wrap(oldest + i)] = vis[oldest] + i
      BY <2>2, WindowOrder
    <3>2. v < vis[oldest] + k
      BY <1>4, <3>1
    <3>3. CASE v < vis[oldest]
      BY <3>3 DEF LetGo
    <3>4. CASE ~(v < vis[oldest])
      <4> DEFINE i == v - vis[oldest]
                 s == Wrap(oldest + i)
      <4>1. i \in 0 .. k - 1 /\ i \in 0 .. Span /\ v = vis[oldest] + i
        BY <1>1, <1>2, <3>2, <3>4
      <4> HIDE DEF i
      <4>2. s \in VisSlots /\ vis[s] = v /\ ~islocked'[s]
        BY <3>1, <4>1
      <4>3. Dist(oldest, s) <= Span
        <5>1. i \in VisSlots /\ i \in Int /\ i <= Span
          BY <1>1, <4>1 DEF VisSlots
        <5>2. Dist(oldest, oldest) = 0
          BY <1>1, DistInverse
        <5>3. Dist(oldest, s) = 0 + i
          BY <1>1, <5>1, <5>2, DistAdd
        <5> QED
          BY <5>1, <5>3
      <4>4. s = r \/ ~islocked[s]
        BY <1>1, <4>2
      <4> HIDE DEF s
      <4> QED
        BY <4>2, <4>3, <4>4 DEF LetGo
    <3> QED
      BY <3>3, <3>4
  <2> QED
    BY <2>1, <2>2
<1>5. ASSUME NEW s \in VisSlots, Dist(oldest', s) <= Span', vis[s] = v,
             ~islocked'[s]
      PROVE  LetGo(v) \/ v = vis[r]
  <2>1. Dist(oldest, s) <= Span
    <3>1. CASE k <= Dist(oldest, s)
      <4>1. Dist(oldest', s) = Dist(oldest, s) - k
        BY <1>1, <1>2, <3>1, DistAdvance
      <4> QED
        BY <1>1, <1>2, <1>3, <1>5, <4>1
    <3>2. CASE Dist(oldest, s) < k
      BY <1>1, <1>2, <1>3, <3>2
    <3> QED
      BY <1>2, <1>3, <3>1, <3>2
  <2>2. s = r \/ ~islocked[s]
    BY <1>1, <1>5
  <2> QED
    BY <1>5, <2>1, <2>2 DEF LetGo
<1>6. \/ v < vis[oldest']
      \/ \E s \in VisSlots : /\ Dist(oldest', s) <= Span'
                             /\ vis[s] = v /\ ~islocked'[s]
  <2>1. /\ LetGo(v)' <=> \/ v < vis'[oldest']
                         \/ \E s \in VisSlots : /\ Dist(oldest, s)' <= Span'
                                                /\ vis'[s] = v /\ ~islocked'[s]
    BY DEF LetGo
  <2>2. \A s : Dist(oldest, s)' = Dist(oldest', s)
    BY DEF Dist, Wrap
  <2> QED
    BY <2>1, <2>2
<1> QED
  BY <1>4, <1>5, <1>6

(* A Visibility that main locks lets go of nothing.                        *)
LEMMA LockLets ==
  ASSUME BaseInv, Inner, Started, Started', Span <= VisLength - 3, LockNewest,
         UNCHANGED <<oldest, vis, keepwriting, initialised, wpc, ws>>,
         NEW v \in Nat, LetGo(v)'
  PROVE  LetGo(v)
<1>1. /\ oldest \in VisSlots /\ newest \in VisSlots
      /\ islocked \in [VisSlots -> BOOLEAN]
      /\ Span \in Int /\ 0 <= Span /\ VisLength \in Int
      /\ Span = Dist(oldest, newest)
  BY SpanNumber, SpanType DEF Inner, RingInv
<1>2. Span' = Span + 1
  BY NewestAdvances
<1>3. /\ newest' = Wrap(newest + 1) /\ newest' \in VisSlots
      /\ islocked' = [islocked EXCEPT ![newest'] = TRUE]
      /\ Dist(oldest, newest') = Span + 1
  BY <1>1, DistNext DEF LockNewest
<1>4. \A s : Dist(oldest, s)' = Dist(oldest, s)
  BY DEF Dist, Wrap
<1>5. \/ v < vis[oldest]
      \/ \E s \in VisSlots : /\ Dist(oldest, s) <= Span + 1
                             /\ vis[s] = v /\ ~islocked'[s]
  BY <1>2, <1>4 DEF LetGo
<1>6. ASSUME NEW s \in VisSlots, Dist(oldest, s) <= Span + 1, vis[s] = v,
             ~islocked'[s]
      PROVE  LetGo(v)
  <2>1. s # newest' /\ ~islocked[s]
    BY <1>1, <1>3, <1>6
  <2>2. Dist(oldest, s) # Span + 1
    <3>1. Wrap(oldest + Dist(oldest, s)) = s
      BY <1>1, DistInverse
    <3>2. Wrap(oldest + Dist(oldest, newest')) = newest'
      BY <1>1, <1>3, DistInverse
    <3> QED
      BY <1>3, <2>1, <3>1, <3>2
  <2>3. Dist(oldest, s) \in Int
    BY <1>1, DistCases, SlotNumber
  <2>4. Dist(oldest, s) <= Span
    BY <1>1, <1>6, <2>2, <2>3
  <2> QED
    BY <1>6, <2>1, <2>4 DEF LetGo
<1> QED
  BY <1>5, <1>6 DEF LetGo

(* Neither does a step that changes nothing in the window.                 *)
LEMMA StillLets ==
  ASSUME Inner, UNCHANGED <<oldest, newest, islocked>>,
         \A s \in VisSlots : Dist(oldest, s) <= Span => vis'[s] = vis[s],
         NEW v \in Nat, LetGo(v)'
  PROVE  LetGo(v)
<1>1. /\ \A s : Dist(oldest, s)' = Dist(oldest, s)
      /\ Span' = Span
  BY DEF Dist, Wrap, Span
<1>2. vis'[oldest] = vis[oldest]
  BY WindowEnds
<1> QED
  BY <1>1, <1>2 DEF LetGo

(***************************************************************************)
(* The invariant, step by step.                                            *)
(***************************************************************************)
LEMMA CompleteInit == Init => CompleteInv
<1> SUFFICES ASSUME Init PROVE LetGoInv /\ FullInv /\ StaleInv
  BY DEF CompleteInv
<1>1. /\ oldest = 0 /\ newest = 1 /\ stale = {} /\ mpc = "testinit"
      /\ vis = [s \in VisSlots |-> s] /\ islocked = [s \in VisSlots |-> s \in {0, 1}]
  BY DEF Init
<1>2. ASSUME NEW v \in Nat, LetGo(v) PROVE FALSE
  <2>1. vis[oldest] = 0
    BY <1>1, BaseFacts
  <2>2. PICK s \in VisSlots : Dist(oldest, s) <= Span /\ ~islocked[s]
    BY <1>2, <2>1 DEF LetGo
  <2>3. Span = Dist(0, 1) /\ Dist(0, 1) = 1 /\ Dist(0, s) = s /\ s \in Int /\ 0 <= s
    <3>1. Dist(0, 1) = 1 - 0
      BY DistCases, BaseFacts
    <3>2. s \in Int /\ 0 <= s
      BY SlotNumber
    <3>3. Dist(0, s) = s - 0
      BY <3>2, DistCases, BaseFacts
    <3> QED
      BY <1>1, <3>1, <3>2, <3>3 DEF Span, Dist
  <2>4. s \in {0, 1}
    BY <1>1, <2>2, <2>3
  <2> QED
    BY <1>1, <2>2, <2>4
<1> QED
  BY <1>1, <1>2 DEF LetGoInv, FullInv, StaleInv

(* Locate gives up an incomplete integration, ReleaseVis a full one.       *)
LEMMA UnlockStep ==
  ASSUME BaseInv, Inner, OrderInv, LetGoInv, FullInv,
         \A v : Settled(v) => Settled(v)',
         Locate \/ ReleaseVis
  PROVE  LetGoInv'
<1>1. /\ Started /\ Started' /\ ~Ended
      /\ UNCHANGED <<vis, newest, keepwriting, initialised, wpc, ws>>
      /\ abandoned \subseteq abandoned'
  BY DEF Locate, ReleaseVis, Started, Ended, visVars, writerVars, GiveUpOldest,
    logVars
<1>2. /\ oldest \in VisSlots /\ newest \in VisSlots
      /\ islocked \in [VisSlots -> BOOLEAN]
      /\ Span \in Int /\ 0 <= Span /\ Span <= VisLength - 2
      /\ VisLength \in Int /\ VisLength >= 4
      /\ Span = Dist(oldest, newest) /\ Span \in VisSlots
      /\ Wrap(oldest + Span) = newest /\ islocked[newest]
      /\ Wrap(oldest + 0) = oldest
  <2>1. oldest \in VisSlots /\ newest \in VisSlots /\ islocked[newest]
    BY <1>1 DEF Inner, RingInv, WindowInv
  <2>2. Wrap(oldest + Dist(oldest, newest)) = newest /\ Dist(oldest, oldest) = 0
    BY <2>1, DistInverse
  <2>3. Wrap(oldest + Dist(oldest, oldest)) = oldest
    BY <2>1, DistInverse
  <2> QED
    BY <2>1, <2>2, <2>3, SpanNumber, SpanType DEF Inner, RingInv
(* It is enough to follow the one that is unlocked.                        *)
<1>3. ASSUME NEW r \in VisSlots, NEW k \in 0 .. Span,
             islocked' = [islocked EXCEPT ![r] = FALSE],
             oldest' = Wrap(oldest + k), Span' = Span - k,
             \A i \in 0 .. k - 1 : ~islocked'[Wrap(oldest + i)],
             vis[r] \in abandoned' \/ Settled(vis[r])
      PROVE  LetGoInv'
  <2> SUFFICES ASSUME NEW v \in Nat, LetGo(v)', ~PastEnd(v)
               PROVE  v \in abandoned' \/ Settled(v)'
    BY <1>1 DEF LetGoInv
  <2>1. LetGo(v) \/ v = vis[r]
    BY <1>1, <1>3, UnlockLets
  <2>2. LetGo(v) => v \in abandoned \/ Settled(v)
    BY <1>1 DEF LetGoInv
  <2> QED
    BY <1>1, <1>3, <2>1, <2>2
(* The ones passed over were unlocked before.                              *)
<1>4. ASSUME NEW r \in VisSlots, r # newest,
             islocked' = [islocked EXCEPT ![r] = FALSE]
      PROVE  \A i \in 0 .. Steps(oldest, islocked') - 1 :
               ~islocked'[Wrap(oldest + i)]
  <2>1. islocked' \in [VisSlots -> BOOLEAN] /\ islocked'[newest]
    BY <1>2, <1>4
  <2>2. islocked'[Wrap(oldest + Span)]
    BY <1>2, <2>1
  <2> QED
    BY <1>2, <2>1, <2>2, StepsFound
<1>5. CASE (Locate /\ Span >= VisLength - 3) \/ (ReleaseVis /\ oldest = visindex)
  <2>1. /\ Release(oldest)
        /\ islocked' = [islocked EXCEPT ![oldest] = FALSE]
        /\ oldest' = Wrap(oldest + Steps(oldest, islocked'))
    BY <1>5 DEF Locate, GiveUpOldest, ReleaseVis
  <2>2. Span >= 1
    <3>1. CASE Locate
      BY <1>2, <1>5, <3>1 DEF ReleaseVis, Locate
    <3>2. CASE ReleaseVis
      <4>1. oldest # newest
        BY <1>5, <3>2 DEF ReleaseVis, Locate, Inner, PlaceInv
      <4>2. Dist(oldest, newest) # 0
        BY <1>2, <4>1, DistInverse
      <4> QED
        BY <1>2, <4>2
    <3> QED
      BY <1>5, <3>1, <3>2
  <2>3. /\ Steps(oldest, islocked') \in 1 .. Span
        /\ Span' = Span - Steps(oldest, islocked')
    BY <1>1, <2>1, <2>2, OldestAdvances
  <2>4. Steps(oldest, islocked') \in 0 .. Span
    BY <1>2, <2>3
  <2>5. oldest # newest
    <3>1. Dist(oldest, newest) # 0
      BY <1>2, <2>2
    <3> QED
      BY <1>2, <3>1, DistInverse
  <2>6. vis[oldest] \in abandoned' \/ Settled(vis[oldest])
    BY <1>5 DEF Locate, GiveUpOldest, ReleaseVis, FullInv
  <2> QED
    BY <1>2, <1>3, <1>4, <2>1, <2>3, <2>4, <2>5, <2>6
<1>6. CASE Locate /\ ~(Span >= VisLength - 3)
  <2>1. UNCHANGED <<oldest, newest, islocked, vis>>
    BY <1>1, <1>6 DEF Locate
  <2> SUFFICES ASSUME NEW v \in Nat, LetGo(v)', ~PastEnd(v)
               PROVE  v \in abandoned' \/ Settled(v)'
    BY DEF LetGoInv
  <2>2. LetGo(v)
    BY <2>1, StillLets
  <2> QED
    BY <1>1, <2>2 DEF LetGoInv
<1>7. CASE ReleaseVis /\ oldest # visindex
  <2>1. /\ islocked' = [islocked EXCEPT ![visindex] = FALSE] /\ oldest' = oldest
        /\ visindex \in VisSlots /\ Settled(vis[visindex])
    BY <1>7 DEF ReleaseVis, FullInv, Inner, PlaceInv, InWindow
  <2>2. Span' = Span - 0 /\ oldest' = Wrap(oldest + 0) /\ 0 \in 0 .. Span
    BY <1>1, <1>2, <2>1 DEF Span
  <2>3. \A i \in 0 .. 0 - 1 : ~islocked'[Wrap(oldest + i)]
    OBVIOUS
  <2> QED
    BY <1>3, <2>1, <2>2, <2>3
<1> QED
  BY <1>5, <1>6, <1>7

(* A Visibility that is full has all of its integration.                   *)
LEMMA FullStep ==
  ASSUME BaseInv, IInv, OrderInv, CoverInv, AccInv, HomeInv', EvenScans,
         forced' = {}, [Next]_vars, AddData
  PROVE  FullInv'
<1>1. /\ visindex \in VisSlots /\ result \in Subints
      /\ acc' = [acc EXCEPT ![visindex] = acc[visindex] \cup {result}]
      /\ UNCHANGED <<vis, visindex>> /\ vis[visindex] \in Nat
      /\ acc \in [VisSlots -> SUBSET Subints]
  BY AddFacts, WrittenTypes DEF AddData
<1> DEFINE v == vis[visindex]   a == acc'[visindex]
<1>2. a = acc[visindex] \cup {result} /\ a \subseteq Subints /\ a # {}
  BY <1>1
<1>3. \A k \in a : IntegrationOf(k) = v
  BY <1>1 DEF HomeInv
<1>4. a \subseteq Members(v) /\ Members(v) # {}
  BY <1>2, <1>3 DEF Members
<1>5. a \subseteq Added'
  <2>1. \A k \in a : k \in Subints /\ k \in acc'[visindex]
    BY <1>2
  <2> QED
    BY <1>1, <2>1 DEF Added
<1> SUFFICES ASSUME mpc' \in {"locknext", "release"} PROVE Settled(v)'
  BY <1>1 DEF FullInv
<1>6. ~(Cardinality(a) < Expected(v))
  BY DEF AddData
<1> HIDE DEF v, a
<1>7. v \in Nat
  BY <1>1 DEF v
<1>8. /\ IsFiniteSet(Members(v)) /\ Cardinality(Members(v)) <= Expected(v)
  BY <1>4, <1>7, MembersBound
<1>9. a = Members(v)
  <2>1. /\ Cardinality(a) <= Cardinality(Members(v)) /\ IsFiniteSet(a)
        /\ Cardinality(Members(v)) = Cardinality(a) => Members(v) = a
    BY <1>4, <1>8, FS_Subset
  <2>2. Cardinality(a) \in Nat /\ Cardinality(Members(v)) \in Nat
    BY <1>8, <2>1, FS_CardinalityType
  <2>3. Expected(v) \in Int
    <3>1. ~PastEnd(v) => /\ VisScan(v) \in 1 .. NumScans
                         /\ VisStart(v) \in Int
      <4> SUFFICES ASSUME ~PastEnd(v)
                   PROVE  VisScan(v) \in 1 .. NumScans /\ VisStart(v) \in Int
        OBVIOUS
      <4>1. VisScan(v) \in 1 .. NumScans
        BY <1>7, VisScanFacts
      <4>2. /\ ScanEnd[VisScan(v) - 1] \in Int /\ VisEnd[VisScan(v) - 1] \in Int
            /\ Scans[VisScan(v)].intTime \in Int
        BY <4>1, ScanFacts, ScanTypes
      <4> QED
        BY <1>7, <4>1, <4>2 DEF VisStart
    <3>2. NumScans \in 1 .. NumScans
      BY ScanTypes
    <3>3. FullCount(v) \in Int
      BY <3>1, <3>2, ScanTypes DEF FullCount
    <3>4. ~PastEnd(v) => ScanEnd[VisScan(v)] \in Int
      BY <3>1, ScanFacts
    <3> QED
      BY <3>1, <3>3, <3>4 DEF Expected
  <2> QED
    BY <1>6, <1>8, <2>1, <2>2, <2>3
<1>10. \A k \in Subints : IntegrationOf(k) = v => k \in Added'
  BY <1>5, <1>9 DEF Members
<1> QED
  BY <1>1, <1>10 DEF Settled, v

(* A stale result is of an integration that was given up.                  *)
LEMMA StaleStep ==
  ASSUME BaseInv, IInv, CoverInv, PlacedInv, LetGoInv, StaleInv, Resend
  PROVE  StaleInv'
<1>1. abandoned' = abandoned
  BY DEF Resend
<1>2. CASE visindex # -1
  BY <1>1, <1>2 DEF Resend, StaleInv
<1>3. CASE visindex = -1
  <2>1. /\ stale' = stale \cup {result} /\ ~Ended /\ InHand
        /\ result \in Subints
    BY <1>3 DEF Resend, Ended, InHand, Pending, Locating, BaseInv, HandInv
  <2>2. LetGo(IntegrationOf(result))
    BY <1>3 DEF PlacedInv, Resend, LetGo
  <2>3. /\ IntegrationOf(result) \in Nat /\ ~PastEnd(IntegrationOf(result))
    BY <2>1, IntegrationFacts
  <2>4. IntegrationOf(result) \in abandoned \/ Settled(IntegrationOf(result))
    BY <2>1, <2>2, <2>3 DEF LetGoInv
  <2>5. result \notin Added
    BY <2>1 DEF CoverInv, Unsettled
  <2> QED
    BY <1>1, <2>1, <2>4, <2>5 DEF Settled, StaleInv
<1> QED
  BY <1>2, <1>3

LEMMA CompleteStep ==
  ASSUME BaseInv, IInv, OrderInv, PlacedInv, CoverInv, AccInv, HomeInv', EvenScans,
         CompleteInv, [Next]_vars
  PROVE  CompleteInv'
<1> SUFFICES ASSUME forced' = {} PROVE LetGoInv' /\ FullInv' /\ StaleInv'
  BY DEF CompleteInv
<1>0. /\ forced = {} /\ LetGoInv /\ FullInv /\ StaleInv
      /\ \A v : Settled(v) => Settled(v)'
  BY ForcedGrows, AddedGrows DEF CompleteInv
(* Most steps change nothing in what main holds.                           *)
<1>1. ASSUME Inner \/ Ended',
             UNCHANGED <<oldest, newest, islocked, visindex, abandoned, stale>>,
             Ended => Ended',
             Inner => \A s \in VisSlots : Dist(oldest, s) <= Span => vis'[s] = vis[s],
             mpc' \in {"locknext", "release"} => mpc' = mpc \/ FullInv'
      PROVE  LetGoInv' /\ FullInv' /\ StaleInv'
  <2>1. LetGoInv'
    <3> SUFFICES ASSUME ~Ended', NEW v \in Nat, LetGo(v)', ~PastEnd(v)
                 PROVE  v \in abandoned' \/ Settled(v)'
      BY DEF LetGoInv
    <3>1. Inner /\ ~Ended /\ LetGo(v)
      BY <1>1, StillLets
    <3> QED
      BY <1>0, <1>1, <3>1 DEF LetGoInv
  <2>2. FullInv'
    <3> SUFFICES ASSUME mpc' \in {"locknext", "release"}, mpc' = mpc
                 PROVE  FullInv'
      BY <1>1 DEF FullInv
    <3>1. Inner /\ visindex \in VisSlots /\ Dist(oldest, visindex) <= Span
      BY <1>1 DEF Ended, Inner, PlaceInv, InWindow
    <3>2. vis'[visindex'] = vis[visindex]
      BY <1>1, <3>1
    <3> QED
      BY <1>0, <3>2 DEF FullInv
  <2>3. StaleInv'
    BY <1>0, <1>1 DEF StaleInv
  <2> QED
    BY <2>1, <2>2, <2>3
<1>2. CASE UNCHANGED vars
  <2>1. UNCHANGED <<mpc, oldest, newest, islocked, visindex, abandoned, stale, vis>>
    BY <1>2 DEF vars, ringVars, visVars, logVars
  <2> QED
    BY <1>1, <2>1 DEF IInv, Ended
<1>3. CASE \/ TestInitialised \/ CondWait \/ CondWake \/ SendFill \/ StopSending
           \/ (\E c \in Cores : Receive(c)) \/ SearchFound \/ SearchStale
           \/ SearchNewer
  <2>1. /\ UNCHANGED <<oldest, newest, islocked, abandoned, stale, vis>>
        /\ ~Ended /\ mpc' \notin {"locknext", "release"}
    BY <1>3 DEF TestInitialised, CondWait, CondWake, SendFill, StopSending,
      Receive, SearchFound, SearchStale, SearchNewer, ringVars, visVars, logVars,
      Ended
  <2>2. Inner
    BY <2>1 DEF IInv
  <2>3. LetGoInv'
    <3> SUFFICES ASSUME NEW v \in Nat, LetGo(v)', ~PastEnd(v)
                 PROVE  v \in abandoned' \/ Settled(v)'
      BY DEF LetGoInv
    <3>1. LetGo(v)
      BY <2>1, <2>2, StillLets
    <3> QED
      BY <1>0, <2>1, <3>1 DEF LetGoInv
  <2> QED
    BY <1>0, <2>1, <2>3 DEF FullInv, StaleInv
<1>4. CASE Locate \/ ReleaseVis
  <2>1. Inner /\ stale' = stale /\ abandoned \subseteq abandoned'
        /\ mpc' \notin {"locknext", "release"}
    BY <1>4 DEF IInv, Ended, Locate, ReleaseVis, GiveUpOldest, logVars
  <2>2. LetGoInv'
    BY <1>0, <1>4, <2>1, UnlockStep
  <2> QED
    BY <1>0, <2>1, <2>2 DEF FullInv, StaleInv
<1>5. CASE Extend \/ LockNext
  <2>1. /\ Inner /\ Started /\ Started' /\ LockNewest
        /\ UNCHANGED <<oldest, vis, keepwriting, initialised, wpc, ws, stale,
                       abandoned>>
        /\ ~Ended
    BY <1>5 DEF IInv, Ended, Started, Extend, LockNext, visVars, writerVars, logVars
  <2>2. Span <= VisLength - 3
    BY <1>5, <2>1, SpanNumber DEF Inner, RoomInv, Extend, LockNext
  <2>3. LetGoInv'
    <3> SUFFICES ASSUME NEW v \in Nat, LetGo(v)', ~PastEnd(v)
                 PROVE  v \in abandoned' \/ Settled(v)'
      BY DEF LetGoInv
    <3>1. LetGo(v)
      BY <2>1, <2>2, LockLets
    <3> QED
      BY <1>0, <2>1, <3>1 DEF LetGoInv
  <2>4. FullInv'
    <3>1. CASE Extend
      BY <3>1 DEF Extend, FullInv
    <3>2. CASE LockNext
      BY <1>0, <2>1, <3>2 DEF LockNext, FullInv
    <3> QED
      BY <1>5, <3>1, <3>2
  <2> QED
    BY <1>0, <2>1, <2>3, <2>4 DEF StaleInv
(* Data was dropped for the result these steps are about.                  *)
<1>6. CASE ExtendFull \/ CatchUp \/ CaughtUp \/ Relock
  <2>1. result \in forced'
    BY <1>6 DEF ExtendFull, CatchUp, CaughtUp, Relock, PlacedInv, logVars
  <2> QED
    BY <2>1
<1>7. CASE Resend
  <2>1. /\ Inner /\ UNCHANGED <<oldest, newest, islocked, vis, abandoned>>
        /\ ~Ended /\ mpc' \notin {"locknext", "release"}
    BY <1>7 DEF IInv, Ended, Resend, ringVars, visVars
  <2>2. LetGoInv'
    <3> SUFFICES ASSUME NEW v \in Nat, LetGo(v)', ~PastEnd(v)
                 PROVE  v \in abandoned' \/ Settled(v)'
      BY DEF LetGoInv
    <3>1. LetGo(v)
      BY <2>1, StillLets
    <3> QED
      BY <1>0, <2>1, <3>1 DEF LetGoInv
  <2>3. StaleInv'
    BY <1>0, <1>7, StaleStep
  <2> QED
    BY <2>1, <2>2, <2>3 DEF FullInv
<1>8. CASE AddData
  <2>1. /\ UNCHANGED <<oldest, newest, islocked, visindex, abandoned, stale, vis>>
        /\ ~Ended
    BY <1>8 DEF AddData, ringVars, logVars, Ended
  <2>2. FullInv'
    BY <1>8, FullStep
  <2> QED
    BY <1>1, <2>1, <2>2 DEF IInv
<1>9. CASE StopWriting \/ UnlockAll \/ Join \/ Finished
  <2>1. /\ UNCHANGED <<stale, abandoned>> /\ Ended'
    BY <1>9 DEF StopWriting, UnlockAll, Join, Finished, vars, logVars, Ended
  <2> QED
    BY <1>0, <2>1 DEF LetGoInv, FullInv, StaleInv, Ended
<1>10. CASE SpuriousWakeup \/ WriterStep
  <2>1. /\ UNCHANGED <<mpc, oldest, newest, islocked, visindex, abandoned, stale>>
        /\ SpuriousWakeup => vis' = vis
    BY <1>10 DEF SpuriousWakeup, WriterStep, LockEnd, SetInitialised, Signal,
      CheckKeepWriting, LockSegment, UnlockPrevious, WriteSegment, Increment,
      LastUnlock, FinalWrite, mainVars, visVars, logVars
  <2>2. ASSUME Inner, NEW s \in VisSlots, Dist(oldest, s) <= Span
        PROVE  vis'[s] = vis[s]
    <3>1. CASE Started
      BY <1>10, <2>1, <2>2, <3>1, WindowStays
    <3>2. CASE ~Started
      BY <1>10, <2>1, <2>2, <3>2 DEF Inner, StartInv, WriterStep, LockEnd,
        SetInitialised, Signal, CheckKeepWriting, LockSegment, UnlockPrevious,
        WriteSegment, Increment, LastUnlock, FinalWrite, WGo, visVars
    <3> QED
      BY <3>1, <3>2
  <2> QED
    BY <1>1, <2>1, <2>2 DEF IInv, Ended
<1> QED
  BY <1>2, <1>3, <1>4, <1>5, <1>6, <1>7, <1>8, <1>9, <1>10 DEF Next, MainStep

LEMMA CompleteInvariance ==
  ASSUME EvenScans
  PROVE  Spec => []CompleteInv
<1>1. NeverShorter
  BY EvenNeverShorter
<1>2. BaseInv /\ OrderInv /\ IInv /\ PlacedInv /\ OutputInv /\ HomeInv'
        /\ CompleteInv /\ [Next]_vars => CompleteInv'
  BY CompleteStep DEF OutputInv
<1> QED
  BY <1>1, <1>2, CompleteInit, HomeInvariance, PlacedInvariance, PlaceInvariance,
    OutputInvariance, Invariance, PTL DEF Spec

(***************************************************************************)
(* What has been written when.                                             *)
(***************************************************************************)
(* Main has let go of every integration that has been written.             *)
LEMMA WrittenLetGo ==
  ASSUME BaseInv, Inner, OrderInv, NEW v \in Nat, ~PastEnd(v), v < Front
  PROVE  LetGo(v)
<1>1. /\ ws \in VisSlots /\ oldest \in VisSlots /\ vis \in [VisSlots -> Nat]
      /\ vis[ws] \in Nat /\ vis[oldest] \in Nat /\ VisEnd[NumScans] \in Nat
      /\ wi = 0
      /\ Span \in Int /\ 0 <= Span
  BY ScanFacts, SpanNumber DEF Inner, RingInv, WriterInv, BaseInv, TypeOK, EndInv
<1>2. Front = IF wpc = "increment" THEN vis[ws] + 1 ELSE vis[ws]
  BY <1>1 DEF Front
<1>3. CASE ws = oldest
  <2>1. wpc # "increment"
    <3>1. CASE Started
      <4>1. Dist(oldest, oldest) <= Span
        BY WindowEnds
      <4> QED
        BY <1>1, <1>3, <3>1, <4>1, NotTheWriters DEF WriterHolds
    <3>2. CASE ~Started
      BY <3>2 DEF Inner, StartInv
    <3> QED
      BY <3>1, <3>2
  <2> QED
    BY <1>2, <1>3, <2>1 DEF LetGo
<1>4. CASE ws # oldest
  <2>1. CASE PastEnd(vis[ws])
    <3>1. PastEnd(vis[oldest])
      BY <1>1, <2>1 DEF OrderInv
    <3>2. v < vis[oldest]
      BY <1>1, <3>1 DEF PastEnd
    <3> QED
      BY <3>2 DEF LetGo
  <2>2. CASE ~PastEnd(vis[ws])
    <3>1. /\ vis[oldest] = vis[ws] + Dist(ws, oldest)
          /\ Dist(ws, oldest) \in Int /\ Dist(ws, oldest) >= 0
          /\ Dist(ws, oldest) # 0
      BY <1>1, <1>4, <2>2, DistCases, DistInverse, SlotNumber DEF OrderInv
    <3> QED
      BY <1>1, <1>2, <3>1 DEF LetGo
  <2> QED
    BY <2>1, <2>2
<1> QED
  BY <1>3, <1>4

(* What has not been written is in front.                                  *)
LEMMA NotWritten ==
  ASSUME BaseInv, OrderInv, NEW s \in VisSlots, ~PastEnd(vis[s]), ~Away(s)
  PROVE  ~(vis[s] < Front)
<1>1. /\ ws \in VisSlots /\ vis[ws] \in Nat /\ vis[s] = vis[ws] + Dist(ws, s)
      /\ Dist(ws, s) \in Int /\ Dist(ws, s) >= 0 /\ wi \in Int
  <2>1. /\ ws \in VisSlots /\ vis \in [VisSlots -> Nat] /\ wi \in Int
    BY BaseFacts DEF BaseInv, TypeOK
  <2> QED
    BY <2>1, DistCases, SlotNumber DEF OrderInv
<1>2. CASE wpc = "increment"
  <2>1. s # ws
    BY <1>2 DEF Away
  <2>2. Dist(ws, s) # 0
    BY <1>1, <2>1, DistInverse
  <2> QED
    BY <1>1, <1>2, <2>2 DEF Front
<1>3. CASE wpc \in {"final", "exit"}
  BY <1>1, <1>3 DEF Away, Front
<1>4. CASE wpc \notin {"increment", "final", "exit"}
  BY <1>1, <1>4 DEF Front, BaseInv, EndInv
<1> QED
  BY <1>2, <1>3, <1>4

(* An integration that was not given up under pressure has in the output   *)
(* every one of its subintegrations that was ever sent, and no others: for *)
(* scans of one integration time.                                          *)
THEOREM CompleteWhenWritten ==
  ASSUME EvenScans
  PROVE  Spec => []WrittenWhenComplete
<1>1. NeverShorter
  BY EvenNeverShorter
<1>2. BaseInv /\ IInv /\ OrderInv /\ OutputInv /\ HomeInv /\ CompleteInv
        => WrittenWhenComplete
  <2> SUFFICES ASSUME BaseInv, IInv, OrderInv, OutputInv, HomeInv, CompleteInv,
                      forced = {}, NEW n \in 1 .. Len(written),
                      written[n].vis \notin abandoned
               PROVE  written[n].subints
                        = {k \in 0 .. next - 1 : IntegrationOf(k) = written[n].vis}
    BY DEF WrittenWhenComplete
  <2> DEFINE v == written[n].vis
  <2>1. /\ v \in Nat /\ ~PastEnd(v) /\ v < Front
        /\ written[n].subints \subseteq Subints
        /\ LetGoInv /\ StaleInv /\ OwedInv /\ CoverInv /\ AccInv /\ OutInv
    BY WrittenTypes DEF OutputInv, OutInv, CompleteInv
  <2>2. next \in Nat /\ 0 .. next - 1 \subseteq Subints /\ Subints \subseteq Nat
    BY BaseFacts DEF BaseInv, TypeOK, Subints
  <2>3. ASSUME NEW k \in written[n].subints
        PROVE  k \in 0 .. next - 1 /\ IntegrationOf(k) = v
    <3>1. k \in Subints /\ k \in Added /\ k \in Nat
      BY <2>1, <2>2 DEF Added
    <3>2. k < next
      BY <2>1, <3>1 DEF CoverInv
    <3>3. IntegrationOf(k) = v
      BY DEF HomeInv
    <3> QED
      BY <2>2, <3>1, <3>2, <3>3
  <2>4. ASSUME NEW k \in 0 .. next - 1, IntegrationOf(k) = v
        PROVE  k \in Added
    <3>1. k \in Subints
      BY <2>2
    <3>2. CASE Ended
      <4>1. k \in stale \/ k \in Added
        BY <2>1, <3>2, AllSettled DEF CoverInv
      <4> QED
        BY <2>1, <2>4, <4>1 DEF StaleInv
    <3>3. CASE ~Ended
      <4>1. LetGo(v)
        BY <2>1, <3>3, WrittenLetGo DEF IInv
      <4> QED
        BY <2>1, <2>4, <3>1, <3>3, <4>1 DEF LetGoInv, Settled
    <3> QED
      BY <3>2, <3>3
  <2>5. ASSUME NEW k \in Added, IntegrationOf(k) = v
        PROVE  k \in written[n].subints
    <3>1. ASSUME NEW m \in 1 .. Len(written), k \in written[m].subints
          PROVE  k \in written[n].subints
      <4>1. written[m].vis = v
        BY <2>5, <3>1 DEF HomeInv
      <4>2. m \in Int /\ n \in Int
        OBVIOUS
      <4>3. ~(m < n) /\ ~(n < m)
        BY <2>1, <4>1 DEF OutInv
      <4> QED
        BY <3>1, <4>2, <4>3
    <3>2. ASSUME NEW s \in VisSlots, k \in acc[s]
          PROVE  k \in written[n].subints
      <4>1. vis[s] = v
        BY <2>5, <3>2 DEF HomeInv
      <4>2. Away(s)
        BY <2>1, <4>1, NotWritten
      <4>3. \E m \in 1 .. Len(written) : k \in written[m].subints
        BY <2>1, <3>2, <4>2 DEF AccInv
      <4> QED
        BY <3>1, <4>3
    <3> QED
      BY <3>1, <3>2 DEF Added
  <2> QED
    BY <2>3, <2>4, <2>5
<1> QED
  BY <1>1, <1>2, CompleteInvariance, HomeInvariance, PlaceInvariance,
    OutputInvariance, Invariance, PTL

=============================================================================
