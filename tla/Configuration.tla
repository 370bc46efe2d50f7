--------------------------- MODULE Configuration ---------------------------
(***************************************************************************)
(* What Configuration makes of an input file: the tables of frequencies,   *)
(* datastreams and baselines, the configuration of every scan, and where   *)
(* in the results of a Core each result is.                                *)
(*                                                                         *)
(* j is a job, the contents of its files: the frequency table j.freqs, the *)
(* datastreams j.ds, the baseline table j.baselines, the configurations    *)
(* j.configs, the rules j.rules and the scans j.scans of the model.  A     *)
(* datastream has recorded and zoom frequencies and bands; a band names    *)
(* its frequency by its index in the datastream's list, and d.pols says    *)
(* how many bands each recorded frequency has.  A baseline has, for each   *)
(* of its frequencies, the pairs of bands to correlate.  Tables are        *)
(* counted from 1 (0 is "none"), offsets in the results from 0.            *)
(***************************************************************************)
EXTENDS Integers, Sequences, FiniteSets, SequencesExt

Total(f(_), n) == FoldLeft(LAMBDA x, i : x + f(i), 0, [i \in 1 .. n |-> i])
Least(S) == CHOOSE i \in S : \A k \in S : i <= k
Greatest(S) == CHOOSE i \in S : \A k \in S : i >= k

-----------------------------------------------------------------------------
(* Datastreams.  The bands of a datastream are the recorded ones, then the *)
(* zoom bands.                                                             *)
IsZoom(d, band) == band > Len(d.bands)
ZoomBand(d, band) == d.zbands[band - Len(d.bands)]
NumTotalBands(d) == Len(d.bands) + Len(d.zbands)
TotalFreq(d, band) ==
  IF IsZoom(d, band) THEN d.zfreqs[ZoomBand(d, band).f]
                     ELSE d.rfreqs[d.bands[band].f]
BandPol(d, band) ==
  IF IsZoom(d, band) THEN ZoomBand(d, band).pol ELSE d.bands[band].pol

(* The recorded frequency a zoom frequency lies in, the last if there are  *)
(* several; 0 when there is none.                                          *)
LowEdge(fr) == IF fr.lower THEN fr.edge - fr.width ELSE fr.edge
ParentFreq(j, d, z) ==
  LET zf == j.freqs[d.zfreqs[z]]
      around == {r \in DOMAIN d.rfreqs :
                   LET rf == j.freqs[d.rfreqs[r]]
                   IN  /\ LowEdge(zf) >= LowEdge(rf)
                       /\ LowEdge(zf) + zf.width <= LowEdge(rf) + rf.width}
  IN  IF around = {} THEN 0 ELSE Greatest(around)

(* The recorded band a band is part of, 0 when there is none.              *)
RecordBand(j, d, band) ==
  LET parents == {k \in 1 .. Len(d.bands) :
                    /\ d.bands[k].f = ParentFreq(j, d, ZoomBand(d, band).f)
                    /\ d.bands[k].pol = ZoomBand(d, band).pol}
  IN  IF ~IsZoom(d, band) THEN band
      ELSE IF parents = {} THEN 0 ELSE Least(parents)

(* The phase calibration tones of a recorded frequency: the multiples of   *)
(* the interval in it, the edge it is mixed at left out; one that is not   *)
(* real when there are none.                                               *)
NumTones(j, d, r) ==
  LET fr == j.freqs[d.rfreqs[r]]
      tones == {k \in LowEdge(fr) .. LowEdge(fr) + fr.width : k % d.pcal = 0 /\ k # fr.edge}
  IN  IF tones = {} THEN 1 ELSE Cardinality(tones)

-----------------------------------------------------------------------------
(* The baseline table.                                                     *)

(* An entry as it is read: its frequencies and polarisation pairs are      *)
(* those of the bands it lists.                                            *)
ReadBaseline(j, e) ==
  LET n == Len(e.products)
  IN  [ds1 |-> e.ds1, ds2 |-> e.ds2,
       bands1 |-> [k \in 1 .. n |-> [p \in DOMAIN e.products[k] |-> e.products[k][p][1]]],
       bands2 |-> [k \in 1 .. n |-> [p \in DOMAIN e.products[k] |-> e.products[k][p][2]]],
       freqs |-> [k \in 1 .. n |-> TotalFreq(j.ds[e.ds1], e.products[k][1][1])],
       pols |-> [k \in 1 .. n |-> [p \in DOMAIN e.products[k] |->
                   <<BandPol(j.ds[e.ds1], e.products[k][p][1]),
                     BandPol(j.ds[e.ds2], e.products[k][p][2])>>]]]

(* A baseline whose first telescope comes after its second is reversed:    *)
(* the datastreams and their bands, not the polarisation pairs.            *)
Ordered(j, bl) ==
  IF j.ds[bl.ds1].telescope > j.ds[bl.ds2].telescope
    THEN [bl EXCEPT !.ds1 = bl.ds2, !.ds2 = bl.ds1,
                    !.bands1 = bl.bands2, !.bands2 = bl.bands1]
    ELSE bl

(* A lower sideband that is correlated against an upper one is replaced,   *)
(* in every baseline, by the upper sideband of the same band.              *)
CorrelatedAgainstUpper(j, bls, f) ==
  /\ j.freqs[f].lower
  /\ \E i \in DOMAIN bls : \E k \in DOMAIN bls[i].freqs :
       /\ bls[i].freqs[k] = f
       /\ ~j.freqs[TotalFreq(j.ds[bls[i].ds2], bls[i].bands2[k][1])].lower
MatchingUpper(j, f) ==
  LET match == {i \in DOMAIN j.freqs :
                  /\ ~j.freqs[i].lower /\ j.freqs[i].width = j.freqs[f].width
                  /\ j.freqs[f].edge - j.freqs[f].width = j.freqs[i].edge}
  IN  IF match = {} THEN 1 ELSE Greatest(match)
UseUpper(j, bls, f) ==
  IF CorrelatedAgainstUpper(j, bls, f)
    THEN [i \in DOMAIN bls |-> [bls[i] EXCEPT !.freqs =
            [k \in DOMAIN @ |-> IF @[k] = f THEN MatchingUpper(j, f) ELSE @[k]]]]
    ELSE bls
OrderedTable(j) == [i \in DOMAIN j.baselines |-> Ordered(j, ReadBaseline(j, j.baselines[i]))]
UpperTable(j) == {f \in DOMAIN j.freqs : CorrelatedAgainstUpper(j, OrderedTable(j), f)}
BaselineTable(j) ==
  FoldLeft(LAMBDA bls, f : UseUpper(j, bls, f), OrderedTable(j), [f \in DOMAIN j.freqs |-> f])

-----------------------------------------------------------------------------
(* From here on the baselines of j are those of BaselineTable, and c is    *)
(* the index of a configuration.                                           *)
NumBaselines(j, c) == Len(j.configs[c].baselines)
Baseline(j, c, b) == j.baselines[j.configs[c].baselines[b]]
NumProducts(j, c, b, k) == Len(Baseline(j, c, b).bands1[k])
LocalFreq(j, c, b, f) ==
  LET at == {k \in DOMAIN Baseline(j, c, b).freqs : Baseline(j, c, b).freqs[k] = f}
  IN  IF at = {} THEN 0 ELSE Greatest(at)

FreqUsed(j, c, f) == \E b \in 1 .. NumBaselines(j, c) : f \in ToSet(Baseline(j, c, b).freqs)
(* A frequency that no baseline uses counts as equivalent to a used one    *)
(* that is as wide, or wider, and as high, or higher: the differences are  *)
(* compared with a small number, not their sizes.                          *)
EquivUsed(j, c, f) ==
  /\ ~FreqUsed(j, c, f)
  /\ \E g \in DOMAIN j.freqs :
       /\ FreqUsed(j, c, g)
       /\ j.freqs[f].width <= j.freqs[g].width
       /\ LowEdge(j.freqs[f]) <= LowEdge(j.freqs[g])
       /\ j.freqs[f].channels = j.freqs[g].channels
       /\ j.freqs[f].average = j.freqs[g].average
Correlated(j, c, f) == FreqUsed(j, c, f) \/ EquivUsed(j, c, f)

MaxProductsOf(j, c) ==
  Greatest(UNION {{NumProducts(j, c, b, k) : k \in DOMAIN Baseline(j, c, b).freqs} :
                    b \in 1 .. NumBaselines(j, c)})
MaxProducts(j) == Greatest({MaxProductsOf(j, c) : c \in DOMAIN j.configs})

-----------------------------------------------------------------------------
(* The configuration of a scan: the one of the rules that apply to it.  A  *)
(* rule that skips the scan ends the search; two that disagree are fatal.  *)
Conflict == -1
RuleApplies(r, s) ==
  LET Sources == {s.pointing} \cup ToSet(s.centres)
  IN  /\ r.scans = {} \/ s.id \in r.scans
      /\ r.start = 0 \/ r.start <= s.start
      /\ r.stop = 0 \/ r.stop <= s.stop
      /\ r.sources = {} \/ \E src \in Sources : src.name \in r.sources
      /\ r.calcode = "" \/ \E src \in Sources : src.calcode = r.calcode \/ src.qual = r.qual
      /\ r.qual < 0
ScanConfig(j, s) ==
  FoldLeft(LAMBDA found, r :
             IF found.end \/ ~RuleApplies(r, s) THEN found
             ELSE IF r.config = 0 THEN [config |-> 0, end |-> TRUE]
             ELSE IF found.config \in {0, r.config} THEN [config |-> r.config, end |-> FALSE]
             ELSE [config |-> Conflict, end |-> TRUE],
           [config |-> 0, end |-> FALSE], j.rules).config
NumCentres(s) == Len(s.centres)

-----------------------------------------------------------------------------
(* What consistencyCheck asks of the tables.                               *)
DatastreamOK(j, d) ==
  /\ \A b \in DOMAIN d.bands : d.bands[b].f \in DOMAIN d.rfreqs
  /\ \A z \in DOMAIN d.zbands : d.zbands[z].f \in DOMAIN d.zfreqs
  /\ \A r \in DOMAIN d.rfreqs : \A z \in DOMAIN d.zfreqs :
       d.zfreqs[z] >= d.rfreqs[r]
  /\ \A r \in DOMAIN d.rfreqs :
       /\ j.freqs[d.rfreqs[r]].width = j.freqs[d.rfreqs[1]].width
       /\ j.freqs[d.rfreqs[r]].average = j.freqs[d.rfreqs[1]].average
  /\ \A z \in DOMAIN d.zfreqs :
       /\ ParentFreq(j, d, z) # 0
       /\ LET zf == j.freqs[d.zfreqs[z]]
              pf == j.freqs[d.rfreqs[ParentFreq(j, d, z)]]
          IN  zf.width * pf.channels = pf.width * zf.channels
  /\ \A z \in DOMAIN d.zbands : RecordBand(j, d, Len(d.bands) + z) # 0
ConfigOK(j, c) ==
  /\ \A b \in 1 .. NumBaselines(j, c) : j.configs[c].baselines[b] \in DOMAIN j.baselines
  /\ \A b \in 2 .. NumBaselines(j, c) :
       LET Tel(bb, n) == j.ds[IF n = 1 THEN Baseline(j, c, bb).ds1
                                       ELSE Baseline(j, c, bb).ds2].telescope
       IN  ~ (Tel(b, 2) < Tel(b - 1, 2) /\ Tel(b, 1) <= Tel(b - 1, 1))
  /\ \A b \in 1 .. NumBaselines(j, c) : \A k \in DOMAIN Baseline(j, c, b).freqs :
       LET fr == j.freqs[Baseline(j, c, b).freqs[k]]
           xmac == j.configs[c].xmac
       IN  /\ xmac % fr.average = 0 \/ fr.average % xmac = 0
           /\ fr.channels % xmac = 0
(* The bands of the second datastream are compared by the first of them if *)
(* they are zoom bands; bands of two datastreams that do not match are only *)
(* warned about.                                                           *)
BaselineOK(j, bl) ==
  \A k \in DOMAIN bl.freqs : \A p \in DOMAIN bl.bands1[k] :
    /\ bl.bands1[k][p] \in 1 .. NumTotalBands(j.ds[bl.ds1])
    /\ bl.bands2[k][p] \in 1 .. NumTotalBands(j.ds[bl.ds2])
    /\ TotalFreq(j.ds[bl.ds1], bl.bands1[k][p]) = TotalFreq(j.ds[bl.ds1], bl.bands1[k][1])
    /\ TotalFreq(j.ds[bl.ds2],
                 IF IsZoom(j.ds[bl.ds2], bl.bands2[k][p]) THEN bl.bands2[k][1] ELSE bl.bands2[k][p])
         = TotalFreq(j.ds[bl.ds2], bl.bands2[k][1])
Consistent(j) ==
  /\ \A d \in DOMAIN j.ds : DatastreamOK(j, j.ds[d])
  /\ \A c \in DOMAIN j.configs : ConfigOK(j, c)
  /\ \A i \in DOMAIN j.baselines : BaselineOK(j, j.baselines[i])

(* The stride of the cross multiplication, when the file leaves it open:   *)
(* the divisor of the numbers of channels that is nearest to Target.       *)
GoodXmacStride(j, c, target) ==
  LET nchans == {j.freqs[f].channels : f \in {g \in DOMAIN j.freqs : FreqUsed(j, c, g)}}
      divisors == {i \in 1 .. Greatest({0} \cup nchans) : \A n \in nchans : n % i = 0}
      Far(i) == IF i > target THEN i - target ELSE target - i
  IN  Greatest({i \in divisors : \A k \in divisors : Far(i) <= Far(k)})
SetStrides(j, target) ==
  [j EXCEPT !.configs = [c \in DOMAIN @ |->
     IF @[c].xmac = 0 THEN [@[c] EXCEPT !.xmac = GoodXmacStride(j, c, target)] ELSE @[c]]]
=============================================================================
