----------------------------- MODULE MCProcessing -----------------------------
(* One baseline of two datastreams, and the data there may be.             *)
EXTENDS Processing, TLC

TwoDatastreams == <<<<1, 2>>>>

Query0(valid, nextvalid, next, ask, delay1, delay2) ==
  [valid |-> valid, nextvalid |-> nextvalid, next |-> next, ask |-> ask,
   delay1 |-> delay1, delay2 |-> delay2]
(* Anywhere in or before a full or a short segment, with the next one      *)
(* following at once, after a gap, full, short or still of an earlier turn *)
(* of the ring, and a delay that grows or shrinks.  (The datastream stays  *)
(* at a segment it has passed only when there will be no more.)            *)
Anywhere ==
  {q \in {Query0(v, nv, n, a, d[1], d[2]) :
            v \in {56, 112}, nv \in {20, 112}, n \in {-700, 140, 147},
            a \in {-33, 1, 40, 95, 139}, d \in {<<0, 0>>, <<3, -2>>, <<-1, 4>>}} :
     q.ask - q.delay1 < Rounded(q.valid * SampleNum, SampleDen) \/ q.next < 0}
Other == Query0(112, 112, 140, 40, 0, 2)
After == <<Query0(112, 40, 140, 110, 1, 0), Query0(112, 112, 147, -14, 0, 0)>>

(* Bands of which the tones fall on bins, or have to be moved there, or of *)
(* which none is in the band.                                              *)
Band(lo, bandwidth, interval, lower, complex) ==
  [lo |-> lo, bandwidth |-> bandwidth, interval |-> interval, lower |-> lower,
   complex |-> complex, single |-> TRUE, base |-> 0]
Moved == Band(13, 15, 5, TRUE, FALSE)
OnBins == Band(10, 15, 6, FALSE, FALSE)
OtherBands == {Band(2, 15, 5, FALSE, TRUE), Band(17, 15, 3, TRUE, TRUE), Band(1, 4, 10, FALSE, FALSE)}

MCJobs ==
  LET Job(x, band, q) ==
        [maxxc |-> x[1], maxac |-> x[2], pulsar |-> x[3], kurtosis |-> ~x[3], pcal |-> band,
         subints |-> <<<<q, Other>>, After>>]
  IN  {Job(<<1, 5, FALSE>>, Moved, q) : q \in Anywhere}
        \cup {Job(<<3, 2, TRUE>>, OnBins, q) : q \in Anywhere}
        \cup {Job(<<4, 3, FALSE>>, band, Query0(112, 112, 140, 95, 3, -2)) : band \in OtherBands}
=============================================================================
