--------------------------------- MODULE PCal ---------------------------------
(***************************************************************************)
(* The extraction of pulse-cal tones from the samples of one band: which   *)
(* tones Configuration says there are, which extractor PCal::getNew picks  *)
(* for them, into which bin each sample is added, turned by what, and      *)
(* which output of the Fourier transform of the bins is taken for each     *)
(* tone.  The transform itself is left out.                                *)
(*                                                                         *)
(* Frequencies are whole multiples of one unit.  A band is                 *)
(* [lo, bandwidth, lower, complex, single, interval, base]: its edge and   *)
(* width, whether it is a lower sideband, whether samples are complex and  *)
(* then of a single sideband, and the spacing and the base of the tones.   *)
(***************************************************************************)
EXTENDS Integers, FiniteSets

CONSTANT MinFreqResolution   \* PCal::setMinFrequencyResolution
ASSUME ResolutionAssumption == MinFreqResolution \in Nat \ {0}

(* Configuration::processDatastreamTable: how far the first tone is from   *)
(* the band's edge, and how many there are.  The tones are counted before  *)
(* the base is added; -1 says that there are none.                         *)
FirstTone(f) ==
  LET below == (f.lo \div f.interval) * f.interval
  IN  IF ~f.lower THEN below + f.interval
      ELSE IF below = f.lo THEN below - f.interval ELSE below
Away(f) == IF f.lower THEN f.lo - FirstTone(f) ELSE FirstTone(f) - f.lo
Fitting(f) == Cardinality({k \in 0 .. f.bandwidth : Away(f) + k * f.interval <= f.bandwidth})
Recorded(f) == IF Fitting(f) = 0 THEN [tones |-> 1, offset |-> -1]
                                 ELSE [tones |-> Fitting(f), offset |-> Away(f) + f.base]

Gcd(a, b) ==
  IF a = 0 \/ b = 0 THEN a + b
  ELSE CHOOSE d \in 1 .. b :
         /\ a % d = 0 /\ b % d = 0
         /\ \A e \in d + 1 .. b : ~(a % e = 0 /\ b % e = 0)

(* calcNumTones: a tone at the bottom and one at the top count as one.     *)
CalcNumTones(bw, offset, step) ==
  Cardinality({k \in 0 .. bw + 1 : offset + k * step <= bw})
    - (IF offset = 0 /\ bw % step = 0 THEN 1 ELSE 0)

(* Bins are doubled until they are as narrow as is asked for.              *)
Doubled(fs, n) ==
  CHOOSE m \in {n * 2^j : j \in 0 .. 10} :
    fs <= 2 * m * MinFreqResolution /\ (m = n \/ fs > m * MinFreqResolution)
Sampling(f) == IF f.complex THEN f.bandwidth ELSE 2 * f.bandwidth
Lcm(a, b) == (a * b) \div Gcd(a, b)
-----------------------------------------------------------------------------
(* The constructors.  rotator is the length of the table that moves the    *)
(* first tone to 0, or 0 if there is none.                                 *)
Dummy(f, offset) ==
  [kind |-> "dummy", tones |-> CalcNumTones(f.bandwidth, offset, f.interval),
   bins |-> 2 * CalcNumTones(f.bandwidth, offset, f.interval), rotator |-> 0]
Trivial(f) ==
  [kind |-> "trivial", tones |-> CalcNumTones(f.bandwidth, 0, f.interval) - 1,
   bins |-> Sampling(f) \div Gcd(Sampling(f), f.interval), rotator |-> 0]
Shifting(f, offset) ==
  LET fs == Sampling(f)
      n == fs \div Gcd(fs, f.interval)
  IN  [kind |-> "shifting", tones |-> CalcNumTones(f.bandwidth, offset, f.interval),
       bins |-> n, rotator |-> Lcm(n, fs \div Gcd(fs, offset))]
Complex(f, offset) ==
  LET fs == Sampling(f)
      n == Doubled(fs, fs \div Gcd(fs, f.interval))
  IN  [kind |-> "complex", tones |-> CalcNumTones(f.bandwidth, offset, f.interval),
       bins |-> n, rotator |-> Lcm(n, fs \div Gcd(fs, offset))]
ImplicitShift(f, offset) ==
  LET fs == Sampling(f)
  IN  [kind |-> "implicit", tones |-> CalcNumTones(f.bandwidth, offset, f.interval),
       bins |-> Doubled(fs, fs \div Gcd(fs, offset)), rotator |-> 0]
ComplexImplicitShift(f, offset) ==
  [ImplicitShift(f, offset) EXCEPT !.kind = "complex implicit"]

(* PCal::getNew: one period of the offset must be a whole number of        *)
(* periods of the tones for the tones to fall on bins unmoved.             *)
GetNew(f) ==
  LET fs == Sampling(f)
      offset == Recorded(f).offset
      aligned == Doubled(fs, fs \div Gcd(fs, offset)) % (fs \div Gcd(fs, f.interval)) = 0
  IN  IF offset = -1 \/ CalcNumTones(f.bandwidth, offset, f.interval) = 0 THEN Dummy(f, offset)
      ELSE IF f.complex /\ aligned THEN ComplexImplicitShift(f, offset)
      ELSE IF f.complex THEN Complex(f, offset)
      ELSE IF offset = 0 THEN Trivial(f)
      ELSE IF aligned THEN ImplicitShift(f, offset)
      ELSE Shifting(f, offset)
-----------------------------------------------------------------------------
(* adjustSampleOffset: where the next sample goes.                         *)
AdjustSampleOffset(x, sample) ==
  [pcal |-> sample % x.bins,
   rotator |-> IF x.rotator = 0 THEN 0 ELSE sample % x.rotator]

(* extractAndIntegrate: the bin, of twice as many as are needed, that      *)
(* sample m of a chunk is added to, and the entry of the table that it is  *)
(* multiplied by.  Complex samples go the way of real ones.                *)
ExtractTrivial(x, index, m) == [bin |-> index.pcal + (m % x.bins), turned |-> 0]
ExtractImplicit(x, index, m) == ExtractTrivial(x, index, m)
ExtractComplexImplicit(x, index, m) == ExtractImplicit(x, index, m)
ExtractShifting(x, index, m) ==
  [bin |-> index.pcal + ((m % x.rotator) % x.bins),
   turned |-> index.rotator + (m % x.rotator)]
ExtractComplex(x, index, m) == ExtractShifting(x, index, m)
ExtractAndIntegrate(x, index, m) ==
  CASE x.kind = "trivial" -> ExtractTrivial(x, index, m)
    [] x.kind = "shifting" -> ExtractShifting(x, index, m)
    [] x.kind = "complex" -> ExtractComplex(x, index, m)
    [] x.kind = "implicit" -> ExtractImplicit(x, index, m)
    [] x.kind = "complex implicit" -> ExtractComplexImplicit(x, index, m)

(* getFinalPCal: the upper half of the bins is added to the lower, and     *)
(* tone n is read from an output of their transform; -1 stands for a tone  *)
(* that is not written.                                                    *)
Fold(x, bin) == IF bin >= x.bins THEN bin - x.bins ELSE bin
Spread(x, f, freq) == (x.bins * freq) \div Sampling(f)
FinalTrivial(x, f, n) == (n + 1) * (f.interval \div Gcd(Sampling(f), f.interval))
FinalShifting(x, f, n) ==
  LET at == n * Spread(x, f, f.interval) IN IF at >= x.bins THEN -1 ELSE at
FinalComplex(x, f, n) ==
  LET at == n * Spread(x, f, f.interval)
  IN  IF at >= x.bins THEN -1 ELSE IF f.single THEN at ELSE x.bins - at - 1
FinalImplicit(x, f, n) == Spread(x, f, Recorded(f).offset) + n * Spread(x, f, f.interval)
FinalComplexImplicit(x, f, n) ==
  LET at == FinalImplicit(x, f, n)
  IN  IF at >= x.bins THEN -1 ELSE IF f.single THEN at ELSE x.bins - at - 1
GetFinalPCal(x, f, n) ==
  CASE x.kind = "trivial" -> FinalTrivial(x, f, n)
    [] x.kind = "shifting" -> FinalShifting(x, f, n)
    [] x.kind = "complex" -> FinalComplex(x, f, n)
    [] x.kind = "implicit" -> FinalImplicit(x, f, n)
    [] x.kind = "complex implicit" -> FinalComplexImplicit(x, f, n)
-----------------------------------------------------------------------------
(* Sample p, counted from the second it is in, is added to the bin of its  *)
(* phase, and turned by as much as the first tone has turned since.        *)
InPhase(x, f, put, p) ==
  /\ Fold(x, put.bin) = p % x.bins
  /\ x.rotator > 0 =>
       (put.turned - p) % (Sampling(f) \div Gcd(Sampling(f), Recorded(f).offset)) = 0

(* Each tone that Configuration makes room for is read where the transform *)
(* has its frequency.                                                      *)
TonesInPlace(x, f) ==
  /\ x.tones = Recorded(f).tones
  /\ x.kind # "dummy" => \A n \in 0 .. x.tones - 1 :
       LET moved == IF x.rotator = 0 THEN 0 ELSE Recorded(f).offset
       IN  GetFinalPCal(x, f, n) * Sampling(f)
             = (Recorded(f).offset + n * f.interval - moved) * x.bins
=============================================================================
