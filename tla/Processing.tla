------------------------------ MODULE Processing ------------------------------
(***************************************************************************)
(* The correlation of subintegrations in one Core: each process thread     *)
(* takes its share of the blocks through Mode::process and processdata, a  *)
(* few blocks (numBufferedFFTs) at a time, and adds cross-correlations,    *)
(* autocorrelations, weights, pulse-cal tones and kurtosis to the results. *)
(*                                                                         *)
(* Arithmetic is left out.  A spectrum is the block it was made for and    *)
(* whether there was data, and an accumulator is the bag of what was added *)
(* to it, so that what is in it twice, or was left from before, shows.     *)
(***************************************************************************)
EXTENDS Subint, PCal, BagsExt, SequencesExt

CONSTANTS
  Threads,      \* numprocessthreads
  Buffered,     \* numBufferedFFTs
  Datastreams,  \* numdatastreams
  Baselines,    \* the baselines: a sequence of pairs of datastreams
  Jobs          \* the jobs there may be

ASSUME ProcessingAssumption ==
  /\ {Threads, Buffered, Datastreams} \subseteq Nat \ {0}
  /\ Baselines \in Seq((1 .. Datastreams) \X (1 .. Datastreams))

VARIABLES
  job,        \* averaging times, pulsar bins, kurtosis, and the subintegrations
  subint,     \* subint[t]: the subintegration of thread t
  pc,         \* pc[t]: "begin", "loop", "add" or "done"
  loop,       \* fftloop
  modes,      \* modes[t][d]: the Mode objects of thread t
  cross,      \* threadcrosscorrs
  weight,     \* baselineweight
  xc, ac,     \* xcblockcount and xcshiftcount, acblockcount and acshiftcount
  results     \* results[n]: of the slot of subintegration n

counters == <<loop, xc, ac>>
vars == <<job, subint, pc, counters, modes, cross, weight, results>>

Thread == 0 .. Threads - 1
Datastream == 1 .. Datastreams
Baseline == DOMAIN Baselines
Bins == IF job.pulsar THEN 0 .. 1 ELSE {0}
Query(t, d) == job.subints[subint[t]][d]
(* What a core is sent, for every state of the data a job meets.           *)
Controls ==
  [q \in UNION {UNION {ToSet(n) : n \in ToSet(j.subints)} : j \in Jobs} |-> Control(q)]

(* updateconfig: the blocks of a thread.                                   *)
NumBlocks(t) == Blocks \div Threads + (IF t < Blocks % Threads THEN 1 ELSE 0)
StartBlock(t) == FoldSet(LAMBDA u, n : n + NumBlocks(u), 0, 0 .. t - 1)
NumLoops(t) == (NumBlocks(t) + Buffered - 1) \div Buffered

(* The most blocks averaged together: as many as the model allows, in      *)
(* whole loops, but at least one loop.                                     *)
MaxBlocks(asked) == IF asked < Buffered THEN Buffered ELSE asked - (asked % Buffered)

NewMode == [sent |-> Invalid,
            spectra |-> [s \in 0 .. Buffered - 1 |-> [block |-> 0, data |-> FALSE]],
            auto |-> EmptyBag, tones |-> EmptyBag, final |-> FALSE, kurtosis |-> EmptyBag]
NoResults == [xc |-> {}, ac |-> {}, kurtosis |-> {}, tones |-> EmptyBag,
              weight |-> [b \in Baseline |-> [n \in 0 .. 1 |-> 0]]]

Init ==
  /\ job \in Jobs
  /\ subint = [t \in Thread |-> 1]
  /\ pc = [t \in Thread |-> "begin"]
  /\ loop = [t \in Thread |-> 0]
  /\ modes = [t \in Thread |-> [d \in Datastream |-> NewMode]]
  /\ cross = [t \in Thread |-> EmptyBag]
  /\ weight = [t \in Thread |-> NoResults.weight]
  /\ xc = [t \in Thread |-> [count |-> 0, shifts |-> 0]]
  /\ ac = [t \in Thread |-> [count |-> 0, shifts |-> 0]]
  /\ results = [n \in DOMAIN job.subints |-> NoResults]
-----------------------------------------------------------------------------
One(x) == SetToBag({x})
Go(t, there) == pc' = [pc EXCEPT ![t] = there]

(* The start of processdata: everything that is added to is zeroed, and    *)
(* the buffered spectra are left as they are.                              *)
BeginKept(t) ==       \* mutant: weights are not zeroed
  /\ pc[t] = "begin"
  /\ Go(t, "loop")
  /\ modes' = [modes EXCEPT ![t] = [d \in Datastream |->
       [@[d] EXCEPT !.sent = Controls[Query(t, d)], !.auto = EmptyBag,
                    !.tones = EmptyBag, !.final = FALSE, !.kurtosis = EmptyBag]]]
  /\ cross' = [cross EXCEPT ![t] = EmptyBag]
  /\ loop' = [loop EXCEPT ![t] = 0]
  /\ xc' = [xc EXCEPT ![t] = [count |-> 0, shifts |-> 0]]
  /\ ac' = [ac EXCEPT ![t] = [count |-> 0, shifts |-> 0]]
  /\ UNCHANGED <<job, subint, results, weight>>
Begin(t) ==
  /\ pc[t] = "begin"
  /\ Go(t, "loop")
  /\ modes' = [modes EXCEPT ![t] = [d \in Datastream |->
       [@[d] EXCEPT !.sent = Controls[Query(t, d)],
                    !.auto = EmptyBag, !.tones = EmptyBag, !.final = FALSE,
                    !.kurtosis = IF job.kurtosis THEN EmptyBag ELSE @]]]
  /\ cross' = [cross EXCEPT ![t] = EmptyBag]
  /\ weight' = [weight EXCEPT ![t] = NoResults.weight]
  /\ loop' = [loop EXCEPT ![t] = 0]
  /\ xc' = [xc EXCEPT ![t] = [count |-> 0, shifts |-> 0]]
  /\ ac' = [ac EXCEPT ![t] = [count |-> 0, shifts |-> 0]]
  /\ UNCHANGED <<job, subint, results>>

(* The blocks of the current loop, by their place among those buffered:    *)
(* the last loop may have fewer.                                           *)
InLoop(t) ==
  [s \in 0 .. Min2(Buffered, NumBlocks(t) - loop[t] * Buffered) - 1 |->
     StartBlock(t) + loop[t] * Buffered + s]

(* Mode::process for block i, the s'th of those buffered.  Data that is    *)
(* invalid, or that is not in what was sent, makes a zero spectrum of no   *)
(* weight; all else is unpacked, transformed and added to the pulse cal,   *)
(* the autocorrelation and, if asked for, the kurtosis.  (What was         *)
(* unpacked for one block is never enough for another.)                    *)
Bad(q, sent, i) == ~sent.valid \/ i \notin sent.flags \/ OutOfRange(q, sent, i)
Blank(mode, s, i) == [mode EXCEPT !.spectra[s] = [block |-> i, data |-> FALSE]]
Transform(mode, s, i) == [mode EXCEPT !.spectra[s] = [block |-> i, data |-> TRUE]]
ExtractTones(mode, i) == [mode EXCEPT !.tones = IF mode.final THEN @ ELSE @ (+) One(i)]
AddKurtosis(mode, i) ==
  [mode EXCEPT !.kurtosis = IF job.kurtosis THEN @ (+) One(i) ELSE @]
AddAutocorr(mode, i) == [mode EXCEPT !.auto = @ (+) One(i)]
Process(q, mode, s, i) ==
  IF Bad(q, mode.sent, i)
  THEN Blank(mode, s, i)
  ELSE AddAutocorr(AddKurtosis(Transform(ExtractTones(mode, i), s, i), i), i)

(* The station-based processing of a loop.                                 *)
Station(t) ==
  [d \in Datastream |->
     FoldSet(LAMBDA s, mode : Process(Query(t, d), mode, s, InLoop(t)[s]), modes[t][d],
             DOMAIN InLoop(t))]

(* The pulsar bin of a block: two bins, and one channel.                   *)
Bin(i) == IF job.pulsar THEN i % 2 ELSE 0

(* What the baselines add in a loop, given the modes: the products of the  *)
(* buffered spectra, and where both have data their weight.                *)
Products(t, ms) ==
  LET Product(b, s) == <<b, Bin(InLoop(t)[s]), ms[Baselines[b][1]].spectra[s],
                                               ms[Baselines[b][2]].spectra[s]>>
  IN  FoldSet(LAMBDA x, bag : bag (+) One(Product(x[1], x[2])), EmptyBag,
              Baseline \X DOMAIN InLoop(t))
Weights(t, ms) ==
  LET Both(b, s) == ms[Baselines[b][1]].spectra[s].data /\ ms[Baselines[b][2]].spectra[s].data
  IN  [b \in Baseline |-> [n \in 0 .. 1 |->
         weight[t][b][n] +
           Cardinality({s \in DOMAIN InLoop(t) : Bin(InLoop(t)[s]) = n /\ Both(b, s)})]]

(* A window of results: what is in it, and the centre and the width, in    *)
(* half blocks and blocks, that the model is asked for.                    *)
WindowUncounted(t, c, max, n, sum) ==       \* mutant: windows are not counted
  [sum |-> sum, centre |-> 2 * StartBlock(t) + n, width |-> n]
Window(t, c, max, n, sum) ==
  [sum |-> sum, centre |-> 2 * (StartBlock(t) + c.shifts * max) + n, width |-> n]

(* uvshiftAndAverage, averageAndSendAutocorrs.                             *)
UVShiftAndAverage(t, rs, c, n, sum) ==
  [rs EXCEPT ![subint[t]].xc = @ \cup {Window(t, c, MaxBlocks(job.maxxc), n, sum)}]
AverageAndSendAutocorrs(t, rs, c, n, ms) ==
  [rs EXCEPT ![subint[t]].ac =
     @ \cup {Window(t, c, MaxBlocks(job.maxac), n, [d \in Datastream |-> ms[d].auto])}]

(* One turn of the loop of processdata.                                    *)
ProcessLoop(t) ==
  LET ms == Station(t)
      n == Cardinality(DOMAIN InLoop(t))
      sum == cross[t] (+) Products(t, ms)
      xcfull == xc[t].count + n = MaxBlocks(job.maxxc)
      acfull == ac[t].count + n = MaxBlocks(job.maxac)
      Counted(c, full) == IF full THEN [count |-> 0, shifts |-> c.shifts + 1]
                                  ELSE [c EXCEPT !.count = @ + n]
      sent == IF xcfull THEN UVShiftAndAverage(t, results, xc[t], xc[t].count + n, sum)
                        ELSE results
  IN  /\ pc[t] = "loop" /\ loop[t] < NumLoops(t)
      /\ loop' = [loop EXCEPT ![t] = @ + 1]
      /\ cross' = [cross EXCEPT ![t] = IF xcfull THEN EmptyBag ELSE sum]
      /\ xc' = [xc EXCEPT ![t] = Counted(@, xcfull)]
      /\ ac' = [ac EXCEPT ![t] = Counted(@, acfull)]
      /\ results' = IF acfull THEN AverageAndSendAutocorrs(t, sent, ac[t], ac[t].count + n, ms)
                              ELSE sent
      /\ modes' = [modes EXCEPT ![t] =
           IF acfull THEN [d \in Datastream |-> [ms[d] EXCEPT !.auto = EmptyBag]] ELSE ms]
      /\ weight' = [weight EXCEPT ![t] = Weights(t, ms)]
      /\ UNCHANGED <<job, subint, pc>>

(* After the loop, what has not made a full window, and the kurtosis.      *)
Kurtosis(t, rs) ==
  IF job.kurtosis
  THEN [rs EXCEPT ![subint[t]].kurtosis = @ \cup
         {[sum |-> [d \in Datastream |-> modes[t][d].kurtosis],
           centre |-> 2 * StartBlock(t) + NumBlocks(t), width |-> NumBlocks(t)]}]
  ELSE rs
Finish(t) ==
  LET sent == IF xc[t].count = 0 THEN results
              ELSE UVShiftAndAverage(t, results, xc[t], xc[t].count, cross[t])
      both == IF ac[t].count = 0 THEN sent
              ELSE AverageAndSendAutocorrs(t, sent, ac[t], ac[t].count, modes[t])
  IN  /\ pc[t] = "loop" /\ loop[t] = NumLoops(t)
      /\ Go(t, "add")
      /\ results' = Kurtosis(t, both)
      /\ cross' = [cross EXCEPT ![t] = EmptyBag]
      /\ UNCHANGED <<job, subint, loop, xc, ac, modes, weight>>

Tones(t) ==
  FoldSet(LAMBDA d, bag : bag (+) BagOfAll(LAMBDA i : <<d, i>>, modes[t][d].tones),
          EmptyBag, Datastream)

(* Weights and tones are added to the slot; the thread goes on to the next *)
(* subintegration.                                                         *)
AddWeights(t) ==
  /\ pc[t] = "add"
  /\ results' = [results EXCEPT
       ![subint[t]].weight = [b \in Baseline |-> [n \in 0 .. 1 |-> @[b][n] + weight[t][b][n]]],
       ![subint[t]].tones = @ (+) Tones(t)]
  /\ subint' = [subint EXCEPT ![t] = @ + 1]
  /\ modes' = [modes EXCEPT ![t] = [d \in Datastream |-> [@[d] EXCEPT !.final = TRUE]]]
  /\ Go(t, IF subint[t] = Len(job.subints) THEN "done" ELSE "begin")
  /\ UNCHANGED <<job, counters, cross, weight>>

Step(t) == Begin(t) \/ ProcessLoop(t) \/ Finish(t) \/ AddWeights(t)
Done == (\A t \in Thread : pc[t] = "done") /\ UNCHANGED vars
Next == Done \/ \E t \in Thread : Step(t)
Spec == Init /\ [][Next]_vars
-----------------------------------------------------------------------------
(* The blocks around the centre of a window, as wide as it is.             *)
Span(w) == {i \in 0 .. Blocks - 1 : w.centre - w.width <= 2 * i /\ 2 * i < w.centre + w.width}
Tile(ws) ==
  /\ \A i \in 0 .. Blocks - 1 : Cardinality({w \in ws : i \in Span(w)}) = 1
  /\ \A w \in ws : Cardinality(Span(w)) = w.width
(* The blocks of each datastream that have data.                           *)
Good == [q \in DOMAIN Controls |-> {i \in 0 .. Blocks - 1 : ~Bad(q, Controls[q], i)}]
GoodBlocks(n) == [d \in Datastream |-> Good[job.subints[n][d]]]
Ready(n) == \A t \in Thread : subint[t] > n

(* When a subintegration is ready, every block is in exactly one of the    *)
(* windows of cross-correlations and in exactly one of autocorrelations,   *)
(* whatever the averaging times and wherever a thread's blocks end; the    *)
(* delays are taken for the centre of the blocks that really are in it;    *)
(* and no product has blocks of different times, or of another bin.        *)
WindowsTile ==
  \A n \in DOMAIN job.subints : Ready(n) =>
    LET data == GoodBlocks(n)
        Spectrum(d, i) == [block |-> i, data |-> i \in data[d]]
        Of(w) == {<<b, Bin(i), Spectrum(Baselines[b][1], i), Spectrum(Baselines[b][2], i)>> :
                    b \in Baseline, i \in Span(w)}
    IN  /\ Tile(results[n].xc) /\ Tile(results[n].ac)
        /\ \A w \in results[n].xc : w.sum = SetToBag(Of(w))
        /\ \A w \in results[n].ac : \A d \in Datastream :
             w.sum[d] = SetToBag(Span(w) \cap data[d])

(* The weight of a baseline says how many blocks of data are in its        *)
(* visibilities, bin by bin, and tones and kurtosis are of the same blocks *)
(* as the autocorrelations.                                                *)
WeightsAreData ==
  \A n \in DOMAIN job.subints : Ready(n) =>
    LET data == GoodBlocks(n)
        Of(b, bin) == {i \in data[Baselines[b][1]] \cap data[Baselines[b][2]] : Bin(i) = bin}
    IN  /\ \A b \in Baseline : \A bin \in Bins :
             results[n].weight[b][bin] = Cardinality(Of(b, bin))
        /\ results[n].tones = SetToBag(UNION {{d} \X data[d] : d \in Datastream})
        /\ \A w \in results[n].kurtosis : \A d \in Datastream :
             w.sum[d] = SetToBag(Span(w) \cap data[d])

(* For pulse cal, setOffsets and process tell the extractor which sample   *)
(* of the second a block begins with.  (A segment begins with a second.)   *)
DataSamples(c) == ToBytes(c.time)
Extractor == [j \in Jobs |-> GetNew(j.pcal)]
TonesRight(j, q, i) ==
  LET x == Extractor[j]
      first == Sample(q, Controls[q], i)
      index == AdjustSampleOffset(x, DataSamples(Controls[q]) + first)
  IN  x.kind # "dummy" => \A m \in 0 .. Fft - 1 :
        InPhase(x, j.pcal, ExtractAndIntegrate(x, index, m), Controls[q].start + first + m)

(* A block with data was made from samples that were there, and that were  *)
(* taken when its delay was computed for, unless it is the last before     *)
(* invalid data: that one may run past the end of the valid data.  Each of *)
(* its samples went to where the tones have the phase of its time, and     *)
(* each tone is read at its own frequency.                                 *)
RightBlocks ==
  [j \in Jobs |-> [q \in UNION {ToSet(n) : n \in ToSet(j.subints)} |->
     {i \in Good[q] : Right(q, Controls[q], i) /\ TonesRight(j, q, i)}]]
SamplesRight ==
  /\ TonesInPlace(Extractor[job], job.pcal)
  /\ \A t \in Thread : \A d \in Datastream : \A s \in 0 .. Buffered - 1 :
       LET x == modes[t][d].spectra[s]
           c == modes[t][d].sent
       IN  pc[t] = "loop" /\ loop[t] > 0 /\ x.data /\ x.block + 1 \in c.flags
             => x.block \in RightBlocks[job][Query(t, d)]
=============================================================================
