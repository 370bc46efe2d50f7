----------------------------- MODULE ResultPath -----------------------------
(***************************************************************************)
(* The way of the results: the manager and the cores lay out the results   *)
(* of each configuration, the threads of a core add what they computed for *)
(* a subintegration to the results of a slot, and the Visibility takes it  *)
(* from there.  Nothing but the layout says what is where: the threads,    *)
(* writedata, writedifx and writeascii each count the places anew.         *)
(*                                                                         *)
(* Results are complex numbers; weights and decorrelations are floats, two *)
(* to a complex number.  Places in the results are counted in floats here, *)
(* offsets in the layout in complex numbers, as in the code.               *)
(***************************************************************************)
EXTENDS Configuration, BagsExt

CONSTANTS
  Jobs,       \* the jobs there may be
  Orders,     \* the orders the sections of the input file may be in
  Threads,    \* numprocessthreads
  Target      \* the stride calcgoodxmacstridelength looks for

ASSUME ThreadsAssumption == Threads \in Nat \ {0} /\ Target \in Nat \ {0}

VARIABLES
  job,        \* the contents of the files, then the tables made of them
  layout,     \* layout[c]: where the results of configuration c are
  sections,   \* the sections of the input file still to be read
  read,       \* those read: commonread, configread ...
  phase,      \* "parse", "fatal", "idle", "core", "written" or "done"
  scan,       \* the scan the current subintegration is from
  todo,       \* todo[t]: the baselines and frequencies thread t has to add
  step,       \* step[t]: what thread t adds next
  results     \* the results of the slot: a bag of what was added

inputVars == <<job, layout, sections, read>>
threadVars == <<todo, step, results>>
vars == <<inputVars, phase, scan, threadVars>>

Thread == 0 .. Threads - 1
-----------------------------------------------------------------------------
(* The layout.  A region of the results has a name and a length; regions   *)
(* follow each other, and Place says where each begins.                    *)
Place(regions) ==
  FoldLeft(LAMBDA acc, r : [at |-> (r.name :> acc.length) @@ acc.at,
                            length |-> acc.length + r.length],
           [at |-> << >>, length |-> 0], regions)
HalfDown(n) == n \div 2  \* mutant
Half(n) == (n + 1) \div 2

BinLoop(j, c) == IF j.configs[c].scrunch THEN 1 ELSE j.configs[c].bins
MaxCentres(j, c) ==
  Greatest({1} \cup {NumCentres(j.scans[s]) : s \in {i \in DOMAIN j.scans : j.scans[i].config = c}})
OutChannels(j, f) == j.freqs[f].channels \div j.freqs[f].average

(* The frequencies and baselines that are correlated, in order.            *)
Cells(j, c) ==
  SelectSeq(FlattenSeq([f \in DOMAIN j.freqs |-> [b \in 1 .. NumBaselines(j, c) |-> <<f, b>>]]),
            LAMBDA x : LocalFreq(j, c, x[2], x[1]) # 0)
CellProducts(j, c, x) == NumProducts(j, c, x[2], LocalFreq(j, c, x[2], x[1]))
ForCells(j, c, name, Length(_)) ==
  LET cells == Cells(j, c)
  IN  [i \in DOMAIN cells |-> [name |-> <<name, cells[i][1], cells[i][2]>>, length |-> Length(cells[i])]]
ForDatastreams(j, name, Length(_)) ==
  [d \in DOMAIN j.ds |-> [name |-> <<name, d>>, length |-> Length(d)]]

CrossCorrs(j, c) ==
  ForCells(j, c, "vis", LAMBDA x : (MaxCentres(j, c) * BinLoop(j, c) * CellProducts(j, c, x)
                                     * j.freqs[x[1]].channels) \div j.freqs[x[1]].average)
BaselineWeights(j, c) ==
  ForCells(j, c, "weight", LAMBDA x : Half(BinLoop(j, c) * CellProducts(j, c, x)))
ShiftDecorrs(j, c) ==
  IF MaxCentres(j, c) > 1 THEN ForCells(j, c, "shift", LAMBDA x : Half(MaxCentres(j, c))) ELSE << >>

BandsPerAutocorr(j, c) == IF MaxProductsOf(j, c) > 2 THEN 2 ELSE 1
UsedBands(j, c, d) ==
  SelectSeq([k \in 1 .. NumTotalBands(j.ds[d]) |-> k],
            LAMBDA k : Correlated(j, c, TotalFreq(j.ds[d], k)))
Autocorrs(j, c) ==
  LET Bands(d) == UsedBands(j, c, d)
  IN  ForDatastreams(j, "auto", LAMBDA d : BandsPerAutocorr(j, c) *
        Total(LAMBDA i : OutChannels(j, TotalFreq(j.ds[d], Bands(d)[i])), Len(Bands(d))))
AutocorrWeights(j, c) ==
  ForDatastreams(j, "acweight", LAMBDA d :
    Greatest({1, Half(BandsPerAutocorr(j, c) * Len(UsedBands(j, c, d)))}))
(* The room for the tones is counted by frequency, what is copied and      *)
(* taken by band (TonesBefore, TakePCal).                                  *)
PCals(j) ==
  ForDatastreams(j, "pcal", LAMBDA d :
    IF j.ds[d].pcal = 0 THEN 0
    ELSE Total(LAMBDA r : j.ds[d].pols[r] * NumTones(j, j.ds[d], r), Len(j.ds[d].rfreqs)))
CoreLayout(j, c) ==
  Place(CrossCorrs(j, c) \o BaselineWeights(j, c) \o ShiftDecorrs(j, c)
          \o Autocorrs(j, c) \o AutocorrWeights(j, c) \o PCals(j))

(* The space a thread correlates into: for each frequency the strides, and *)
(* in each stride the baselines.                                           *)
ThreadOffset(j, c, x, stride) ==
  LET size(y) == BinLoop(j, c) * CellProducts(j, c, y) * j.configs[c].xmac
      cells == Cells(j, c)
      sizes(S) == Total(LAMBDA i : IF cells[i] \in S THEN size(cells[i]) ELSE 0, Len(cells))
      strides(f) == j.freqs[f].channels \div j.configs[c].xmac
      all(f) == sizes({y \in ToSet(cells) : y[1] = f})
  IN  Total(LAMBDA f : IF f < x[1] THEN strides(f) * all(f) ELSE 0, Len(j.freqs))
        + stride * all(x[1])
        + sizes({y \in ToSet(cells) : y[1] = x[1] /\ y[2] < x[2]})

(* What processdata correlates into it, stride by stride: a product of a   *)
(* baseline at a frequency, a pulsar bin and channels.                     *)
ThreadSpace(j, c) ==
  LET xmac == j.configs[c].xmac
      Strip(x, s) ==
        LET n == CellProducts(j, c, x)
        IN  [i \in 1 .. BinLoop(j, c) * n * xmac |->
               [cell |-> x, bin |-> (i - 1) \div (n * xmac), prod |-> ((i - 1) \div xmac) % n,
                chan |-> s * xmac + ((i - 1) % xmac)]]
      At(f, s) == FlattenSeq([b \in 1 .. NumBaselines(j, c) |->
        IF LocalFreq(j, c, b, f) # 0 THEN Strip(<<f, b>>, s) ELSE << >>])
  IN  FlattenSeq([f \in DOMAIN j.freqs |->
        IF FreqUsed(j, c, f)
          THEN FlattenSeq([s \in 1 .. j.freqs[f].channels \div xmac |-> At(f, s - 1)]) ELSE << >>])

-----------------------------------------------------------------------------
(* Start-up.                                                               *)
Tables == {"common", "config", "rule", "freq", "telescope", "datastream", "baseline", "data"}
Needs(s) == CASE s = "config" -> {"common"}
              [] s = "rule" -> {"config"}
              [] s = "datastream" -> {"config", "freq"}
              [] s = "data" -> {"datastream"}
              [] s = "baseline" -> {"config", "freq", "datastream"}
              [] OTHER -> {}

Init ==
  /\ job \in Jobs /\ layout = << >>
  /\ sections \in Orders
  /\ read = {} /\ phase = "parse" /\ scan = 0
  /\ todo = [t \in Thread |-> << >>]
  /\ step = [t \in Thread |-> "done"]
  /\ results = EmptyBag

(* A section of the input file, "fatal" when it comes too early.  For the  *)
(* baseline table only config and freq are asked for, and the error is     *)
(* overwritten, but the table then looks into datastreams that are not     *)
(* there: the process dies all the same.                                   *)
ReadSection ==
  /\ phase = "parse" /\ sections # << >>
  /\ LET s == Head(sections)
         ok == Needs(s) \subseteq read
     IN  /\ read' = IF ok THEN read \cup {s} ELSE read
         /\ phase' = IF ok THEN "parse" ELSE "fatal"
         /\ job' = IF s # "baseline" THEN job
                   ELSE [job EXCEPT !.baselines = BaselineTable(job), !.upper = UpperTable(job)]
  /\ sections' = Tail(sections)
  /\ UNCHANGED <<layout, scan, threadVars>>

(* All sections are read: the strides, the configurations of the scans and *)
(* the layouts.                                                            *)
Populate ==
  /\ phase = "parse" /\ sections = << >>
  /\ LET strided == SetStrides(job, Target)
         j == [strided EXCEPT !.scans =
                 [s \in DOMAIN @ |-> [@[s] EXCEPT !.config = ScanConfig(job, job.scans[s])]]]
         ok == /\ {"common", "config", "rule", "freq", "datastream"} \subseteq read
               /\ \A s \in DOMAIN j.scans : j.scans[s].config # Conflict
               /\ Consistent(j)
     IN  /\ job' = IF ok THEN j ELSE job
         /\ phase' = IF ok THEN "idle" ELSE "fatal"
         /\ layout' = IF ~ok THEN layout
                      ELSE [c \in DOMAIN j.configs |->
                              [core |-> CoreLayout(j, c), thread |-> ThreadSpace(j, c),
                               cells |-> Cells(j, c),
                               used |-> [d \in DOMAIN j.ds |-> UsedBands(j, c, d)]]]
  /\ UNCHANGED <<sections, read, scan, threadVars>>

-----------------------------------------------------------------------------
(* A subintegration.                                                       *)
Config == job.scans[scan].config
Conf == job.configs[Config]
Layout == layout[Config]
Offset(name) == Layout.core.at[name]
Centres == NumCentres(job.scans[scan])
WriteCross == Conf.autos /\ MaxProducts(job) > 2

CellOrderOnce(c, t) ==  \* mutant: the baselines before the first at its frequency left out
  LET cells == layout[c].cells
      all == Total(LAMBDA b : Len(Baseline(job, c, b).freqs), NumBaselines(job, c))
      first == (t * all) \div Threads + 1
      start == cells[first]
  IN  SubSeq(cells, first, Len(cells)) \o SelectSeq(cells, LAMBDA x : x[1] < start[1])

(* Each thread begins at another baseline and frequency, and goes round.   *)
CellOrder(c, t) ==
  LET cells == layout[c].cells
      all == Total(LAMBDA b : Len(Baseline(job, c, b).freqs), NumBaselines(job, c))
      first == (t * all) \div Threads + 1
      start == cells[first]
  IN  SubSeq(cells, first, Len(cells))
        \o SelectSeq(cells, LAMBDA x : x[1] < start[1])
        \o SelectSeq(cells, LAMBDA x : x[1] = start[1] /\ x[2] < start[2])

NextScan ==
  /\ phase \in {"idle", "written"}
  /\ LET later == {s \in scan + 1 .. Len(job.scans) : job.scans[s].config # 0}
     IN  IF later = {}
         THEN phase' = "done" /\ UNCHANGED <<scan, todo, step>>
         ELSE /\ phase' = "core" /\ scan' = Least(later)
              /\ todo' = [t \in Thread |-> CellOrder(job.scans[Least(later)].config, t)]
              /\ step' = [t \in Thread |-> "vis"]
  /\ results' = EmptyBag
  /\ UNCHANGED inputVars

(* What is added: at a place, something, of something, by someone.  A      *)
(* complex number takes two places.                                        *)
AddFloat(at, what, of, t) == [at |-> at, what |-> what, of |-> of, by |-> t]
AddComplex(at, what, of, t) ==
  {AddFloat(2 * at + part, Append(what, part), of, t) : part \in {0, 1}}
Add(S) == results' = results (+) SetToBag(S)

(* One baseline and frequency, under its mutex: all phase centres, strides,*)
(* bins and products, rotated, averaged and added.                         *)
VisAdded(t, x) ==
  LET n == CellProducts(job, Config, x)
      fr == job.freqs[x[1]]
      xmac == Conf.xmac
      perstride == Greatest({1, xmac \div fr.average})
      length == xmac \div perstride
      corebins == BinLoop(job, Config)
      Source(stride, bin, prod, r) ==
        IF Conf.scrunch
          THEN [cell |-> x, bin |-> bin, prod |-> prod, chan |-> stride * xmac + r]
          ELSE Layout.thread[ThreadOffset(job, Config, x, stride) + (bin * n + prod) * xmac + r + 1]
      CoreOffset(s, stride, bin, prod) ==
        (s - 1) * ((corebins * n * fr.channels) \div fr.average)
          + ((IF corebins > 1 THEN bin * n + prod ELSE prod) * fr.channels + stride * xmac)
              \div fr.average
      One(s, stride, bin, prod, r) ==
        LET src == Source(stride, bin, prod, r)
        IN  AddComplex(Offset(<<"vis", x[1], x[2]>>) + CoreOffset(s, stride, bin, prod)
                         + r \div length,
                       <<"vis", src.cell, s, IF corebins > 1 THEN src.bin ELSE 0, src.prod,
                         src.chan \div fr.average>>,
                       <<src.bin, src.chan>>, t)
  IN  UNION {One(s, stride, bin, prod, r) :
               s \in 1 .. Centres, stride \in 0 .. fr.channels \div xmac - 1,
               bin \in 0 .. Conf.bins - 1, prod \in 0 .. n - 1, r \in 0 .. xmac - 1}
AverageBaselineFreq(t) ==
  /\ phase = "core" /\ step[t] = "vis"
  /\ IF todo[t] = << >>
       THEN step' = [step EXCEPT ![t] = "auto"] /\ UNCHANGED <<todo, results>>
       ELSE /\ Add(VisAdded(t, Head(todo[t])))
            /\ todo' = [todo EXCEPT ![t] = Tail(@)]
            /\ UNCHANGED step
  /\ UNCHANGED <<inputVars, phase, scan>>

(* The autocorrelations and their weights: the parallel ones, then the     *)
(* cross polarised ones, of the bands whose frequency is used.             *)
Passes == IF WriteCross THEN {0, 1} ELSE {0}
AutoPlace(d, cross, i) ==
  LET bands == Layout.used[d]
      n(k) == OutChannels(job, TotalFreq(job.ds[d], bands[k]))
  IN  Offset(<<"auto", d>>) + cross * Total(n, Len(bands)) + Total(n, i - 1)
AutosUsed ==
  UNION {{<<d, w, i>> : w \in Passes, i \in DOMAIN Layout.used[d]} : d \in DOMAIN job.ds}
AutosAdded(t) ==
  UNION {LET i == y[3]
             band == Layout.used[y[1]][i]
         IN  UNION {AddComplex(AutoPlace(y[1], y[2], i) + ch, <<"auto", y[1], y[2], band, ch>>, << >>, t) :
                      ch \in 0 .. OutChannels(job, TotalFreq(job.ds[y[1]], band)) - 1} :
         y \in AutosUsed}
AutoWeightsAdded(t) ==
  {LET band == Layout.used[y[1]][y[3]]
   IN  AddFloat(2 * Offset(<<"acweight", y[1]>>) + y[2] * Len(Layout.used[y[1]]) + y[3] - 1,
                <<"acweight", y[1], y[2], band>>, RecordBand(job, job.ds[y[1]], band), t) :
     y \in AutosUsed}
CopyAutocorrs(t) ==
  /\ phase = "core" /\ step[t] = "auto"
  /\ Add(AutosAdded(t) \cup AutoWeightsAdded(t))
  /\ step' = [step EXCEPT ![t] = "weight"]
  /\ UNCHANGED <<inputVars, phase, scan, todo>>

WeightsAdded(t) ==
  UNION {LET x == Layout.cells[i]
             n == CellProducts(job, Config, x)
         IN  {AddFloat(2 * Offset(<<"weight", x[1], x[2]>>) + bin * n + p, <<"weight", x, bin, p>>, << >>, t) :
                bin \in 0 .. BinLoop(job, Config) - 1, p \in 0 .. n - 1}
             \cup
             (IF Centres = 1 THEN {}
              ELSE {AddFloat(2 * Offset(<<"shift", x[1], x[2]>>) + s - 1, <<"shift", x, s>>, << >>, t) :
                      s \in 1 .. Centres}) :
         i \in DOMAIN Layout.cells}
CopyWeights(t) ==
  /\ phase = "core" /\ step[t] = "weight"
  /\ Add(WeightsAdded(t))
  /\ step' = [step EXCEPT ![t] = "pcal"]
  /\ UNCHANGED <<inputVars, phase, scan, todo>>

PCalBands ==
  UNION {{<<d, b>> : b \in DOMAIN job.ds[d].bands} : d \in {e \in DOMAIN job.ds : job.ds[e].pcal # 0}}
TonesBefore(d, b) ==
  Total(LAMBDA k : NumTones(job, job.ds[d], job.ds[d].bands[k].f), b - 1)
PCalAdded(t) ==
  UNION {UNION {AddComplex(Offset(<<"pcal", d>>) + TonesBefore(d, b) + tone, <<"pcal", d, b, tone>>, << >>, t) :
                  tone \in 0 .. NumTones(job, job.ds[d], job.ds[d].bands[b].f) - 1} :
         <<d, b>> \in PCalBands}
CopyPCalTones(t) ==
  /\ phase = "core" /\ step[t] = "pcal"
  /\ Add(PCalAdded(t))
  /\ step' = [step EXCEPT ![t] = "done"]
  /\ UNCHANGED <<inputVars, phase, scan, todo>>

(* The slot goes to the manager, whose Visibility writes it.               *)
Write ==
  /\ phase = "core" /\ \A t \in Thread : step[t] = "done"
  /\ phase' = "written"
  /\ UNCHANGED <<inputVars, scan, threadVars>>

Finished == phase \in {"fatal", "done"} /\ UNCHANGED vars

Next == \/ ReadSection \/ Populate \/ NextScan \/ Write \/ Finished
        \/ \E t \in Thread : \/ AverageBaselineFreq(t) \/ CopyAutocorrs(t)
                             \/ CopyWeights(t) \/ CopyPCalTones(t)
Spec == Init /\ [][Next]_vars

-----------------------------------------------------------------------------
(* What the Visibility takes: from where, as what, made of what.           *)
TakeFloat(at, what, of) == [at |-> at, what |-> what, of |-> of]
TakeComplex(at, what, of) == {TakeFloat(2 * at + part, Append(what, part), of) : part \in {0, 1}}

BaselineFreqs ==
  UNION {{<<b, k>> : k \in DOMAIN Baseline(job, Config, b).freqs} : b \in 1 .. NumBaselines(job, Config)}
TakeVis ==
  UNION {LET b == y[1]
             f == Baseline(job, Config, b).freqs[y[2]]
             n == NumProducts(job, Config, b, y[2])
             out == OutChannels(job, f)
             avg == job.freqs[f].average
             bins == BinLoop(job, Config)
             Of(bin, ch) == (IF bins > 1 THEN {bin} ELSE 0 .. Conf.bins - 1)
                              \X (ch * avg .. ch * avg + avg - 1)
         IN  UNION {TakeComplex(Offset(<<"vis", f, b>>) + (((s - 1) * bins + bin) * n + p) * out + ch,
                                <<"vis", <<f, b>>, s, bin, p, ch>>, Of(bin, ch)) :
                      s \in 1 .. Centres, bin \in 0 .. bins - 1, p \in 0 .. n - 1, ch \in 0 .. out - 1} :
         y \in BaselineFreqs}
TakeWeights ==
  UNION {LET b == y[1]
             f == Baseline(job, Config, b).freqs[y[2]]
             n == NumProducts(job, Config, b, y[2])
         IN  {TakeFloat(2 * Offset(<<"weight", f, b>>) + bin * n + p, <<"weight", <<f, b>>, bin, p>>, {<< >>}) :
                bin \in 0 .. BinLoop(job, Config) - 1, p \in 0 .. n - 1}
             \cup
             (IF Centres = 1 THEN {}
              ELSE {TakeFloat(2 * Offset(<<"shift", f, b>>) + s - 1, <<"shift", <<f, b>>, s>>, {<< >>}) :
                      s \in 1 .. Centres}) :
         y \in BaselineFreqs}

(* autocorrwidth is about the configuration and all products of the job.   *)
Widths == IF Conf.autos /\ MaxProducts(job) > 2 THEN {0, 1} ELSE {0}
TotalBands(d) == 1 .. NumTotalBands(job.ds[d])
AllAutos == UNION {{<<d, w, k>> : w \in Widths, k \in TotalBands(d)} : d \in DOMAIN job.ds}
TakeAutoWeights ==
  {LET d == y[1]
       before == {k \in TotalBands(d) : k < y[3] /\ Correlated(job, Config, TotalFreq(job.ds[d], k))}
       all == {k \in TotalBands(d) : Correlated(job, Config, TotalFreq(job.ds[d], k))}
   IN  TakeFloat(2 * Offset(<<"acweight", d>>) + y[2] * Cardinality(all) + Cardinality(before),
                 <<"acweight", d, y[2], y[3]>>, {RecordBand(job, job.ds[d], y[3])}) :
     y \in {z \in AllAutos : Correlated(job, Config, TotalFreq(job.ds[z[1]], z[3]))}}
(* writedifx names an autocorrelation by the upper sideband its lower      *)
(* sideband was correlated against, and looks whether that one is used.    *)
WrittenFreq(f) ==
  LET fr == job.freqs[f]
      up == {g \in DOMAIN job.freqs : LET o == job.freqs[g] IN
               /\ ~o.lower /\ o.width = fr.width /\ o.channels = fr.channels
               /\ o.average = fr.average /\ o.edge + o.width = fr.edge}
  IN  IF fr.lower /\ f \in job.upper /\ up # {} THEN Greatest(up) ELSE f
TakeAutos ==
  LET Taken(d, k) == Correlated(job, Config, WrittenFreq(TotalFreq(job.ds[d], k)))
      Size(d, k) == IF Taken(d, k) THEN OutChannels(job, WrittenFreq(TotalFreq(job.ds[d], k))) ELSE 0
      Start(d, w, k) == w * Total(LAMBDA i : Size(d, i), NumTotalBands(job.ds[d]))
                          + Total(LAMBDA i : Size(d, i), k - 1)
  IN  IF ~Conf.autos THEN {}
      ELSE UNION {UNION {TakeComplex(Offset(<<"auto", y[1]>>) + Start(y[1], y[2], y[3]) + ch,
                                     <<"auto", y[1], y[2], y[3], ch>>, {<< >>}) :
                           ch \in 0 .. Size(y[1], y[3]) - 1} :
                  y \in {z \in AllAutos : Taken(z[1], z[3])}}
(* Of the phase calibration, the tones of each band up to the most any     *)
(* frequency has.                                                          *)
TakePCal ==
  UNION {UNION {TakeComplex(Offset(<<"pcal", d>>)
                              + Total(LAMBDA k : NumTones(job, job.ds[d], job.ds[d].bands[k].f), b - 1) + tone,
                            <<"pcal", d, b, tone>>, {<< >>}) :
                  tone \in 0 .. NumTones(job, job.ds[d], job.ds[d].bands[b].f) - 1} :
         <<d, b>> \in PCalBands}
Taken == TakeVis \cup TakeWeights \cup TakeAutoWeights \cup TakeAutos \cup TakePCal

-----------------------------------------------------------------------------
(* However the threads interleave, no place of a core's results is used    *)
(* for two things and none is past the length the manager is sent: the     *)
(* offsets of populateResultLengths keep apart what averageAndSendAutos,   *)
(* averageAndSendKurtosis, the baseline loop and the tones add.            *)
Exclusive ==
  \A r \in DOMAIN results :
    /\ r.at < 2 * Layout.core.length
    /\ \A q \in DOMAIN results : q.at = r.at => q.what = r.what

(* What the Visibility reads at each place is what it takes it for, with   *)
(* the contribution of every thread, bin and channel it stands for, once.  *)
ReadBack ==
  phase = "written" =>
    \A r \in Taken :
      LET here == {q \in DOMAIN results : q.at = r.at}
      IN  /\ here = {[at |-> r.at, what |-> r.what, of |-> o, by |-> t] : o \in r.of, t \in Thread}
          /\ \A q \in here : results[q] = 1
=============================================================================
