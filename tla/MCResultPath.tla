---- MODULE MCResultPath ----
(* Jobs that differ in one or two respects from a plain one, each small    *)
(* enough to be correlated whole.                                          *)
EXTENDS ResultPath

\* edges and widths in MHz
F(edge, width, lower, channels, average) ==
  [edge |-> edge, width |-> width, lower |-> lower, channels |-> channels, average |-> average]
U1 == F(100, 16, FALSE, 4, 1)
U2 == F(116, 16, FALSE, 4, 2)
U3 == F(116, 16, FALSE, 4, 1)
L1 == F(116, 16, TRUE, 4, 1)
Z1 == F(104, 4, FALSE, 1, 1)
Z2 == F(108, 4, FALSE, 1, 1)

D(tel, rfreqs, bands, zfreqs, zbands, pcal) ==
  [telescope |-> tel, rfreqs |-> rfreqs, bands |-> bands, zfreqs |-> zfreqs, zbands |-> zbands, pcal |-> pcal,
   pols |-> [r \in DOMAIN rfreqs |-> Cardinality({b \in DOMAIN bands : bands[b].f = r})]]
R(f) == [f |-> f, pol |-> "R"]
L(f) == [f |-> f, pol |-> "L"]

\* a telescope with one polarisation of frequency f, and one with both
One(tel, f, pcal) == D(tel, <<f>>, <<R(1)>>, << >>, << >>, pcal)
Two(tel, f, pcal) == D(tel, <<f>>, <<R(1), L(1)>>, << >>, << >>, pcal)
RR == << <<1, 1>> >>
RRLL == << <<1, 1>>, <<2, 2>> >>
Full == << <<1, 1>>, <<1, 2>>, <<2, 1>>, <<2, 2>> >>
B(d1, d2, products) == [ds1 |-> d1, ds2 |-> d2, products |-> products]

C(bls, bins, scrunch, xmac) ==
  [baselines |-> bls, bins |-> bins, scrunch |-> scrunch, autos |-> TRUE, xmac |-> xmac]
Rule(config) == [config |-> config, scans |-> {}, start |-> 0, stop |-> 0,
                 sources |-> {}, calcode |-> "", qual |-> -1]
Src(n) == [name |-> n, calcode |-> "", qual |-> 0]
S(id, name, n) == [id |-> id, start |-> id * 10, stop |-> id * 10 + 10, pointing |-> Src(name),
                   centres |-> [i \in 1 .. n |-> Src(name)], config |-> 0]
J(freqs, ds, bls, configs, rules, scans) ==
  [freqs |-> freqs, ds |-> ds, baselines |-> bls, configs |-> configs, rules |-> rules,
   scans |-> scans, upper |-> {}]
Scan1 == << S(1, "a", 1) >>
All1 == << Rule(1) >>

Plain == J(<<U1>>, <<One(1, 1, 0), One(2, 1, 0)>>, <<B(1, 2, <<RR>>)>>, <<C(<<1>>, 1, FALSE, 2)>>, All1, Scan1)
\* three telescopes, two polarisations, tones, averaging
Triangle == J(<<U2>>, <<Two(1, 1, 5), Two(2, 1, 0), Two(3, 1, 3)>>,
  <<B(1, 2, <<RRLL>>), B(1, 3, <<RRLL>>), B(2, 3, <<RRLL>>)>>,
  <<C(<<1, 2, 3>>, 1, FALSE, 4)>>, All1, Scan1)
\* all polarisation products, two phase centres, then one
Phases == J(<<U1>>, <<Two(1, 1, 0), Two(2, 1, 0)>>, <<B(1, 2, <<Full>>)>>, <<C(<<1>>, 1, FALSE, 0)>>,
  All1, << S(1, "a", 2), S(2, "b", 1) >>)
\* a pulsar in three bins, a baseline in the wrong order
Pulsar == J(<<U1>>, <<One(2, 1, 0), One(1, 1, 0)>>, <<B(1, 2, <<RR>>)>>, <<C(<<1>>, 3, FALSE, 4)>>, All1, Scan1)
\* the same, added up
Scrunched == J(<<U2>>, <<One(1, 1, 0), One(2, 1, 0)>>, <<B(1, 2, <<RR>>)>>, <<C(<<1>>, 3, TRUE, 1)>>, All1, Scan1)
\* two frequencies of which one baseline has both, with 5 and 6 tones, the bands
\* of the first apart
Bands2 == J(<<U1, U3>>,
  <<D(1, <<1, 2>>, <<R(1), R(2), L(1)>>, << >>, << >>, 3), D(2, <<1, 2>>, <<R(1), R(2)>>, << >>, << >>, 0), One(3, 2, 0)>>,
  <<B(1, 2, << << <<1, 1>> >>, << <<2, 2>> >> >>), B(1, 3, << << <<2, 1>> >> >>)>>,
  <<C(<<1, 2>>, 1, FALSE, 2)>>, All1, Scan1)
\* lower against upper sideband
Sidebands == J(<<U1, L1>>,
  <<One(1, 2, 0), One(2, 1, 0), One(3, 1, 0)>>,
  <<B(1, 2, <<RR>>), B(2, 3, <<RR>>)>>, <<C(<<1, 2>>, 1, FALSE, 4)>>, All1, Scan1)
\* a zoom band, in a band that is not correlated
Zoom == J(<<U1, Z1>>,
  <<D(1, <<1>>, <<R(1)>>, <<2>>, <<R(1)>>, 0), D(2, <<1>>, <<R(1)>>, <<2>>, <<R(1)>>, 0)>>,
  <<B(1, 2, << << <<2, 2>> >> >>)>>, <<C(<<1>>, 1, FALSE, 1)>>, All1, Scan1)
\* a zoom band of the polarisation that was not recorded, and one outside its band
ZoomPol == [Zoom EXCEPT !.ds = <<D(1, <<1>>, <<R(1)>>, <<2>>, <<L(1)>>, 0), @[2]>>]
ZoomOut == [Zoom EXCEPT !.freqs = <<U1, F(114, 4, FALSE, 1, 1)>>]
\* two polarisations of two zoom bands, of which the second product of a baseline
\* has one from each: accepted, since the first is looked up for both
ZoomPair(tel) == D(tel, <<1>>, <<R(1), L(1)>>, <<2, 3>>, <<R(1), L(1), R(2), L(2)>>, 0)
ZoomMixed == J(<<U1, Z1, Z2>>, <<ZoomPair(1), ZoomPair(2)>>,
  <<B(1, 2, << << <<3, 3>>, <<4, 6>> >>, << <<5, 5>>, <<6, 6>> >> >>)>>,
  <<C(<<1>>, 1, FALSE, 1)>>, All1, Scan1)
\* telescopes that recorded different frequencies, correlated all the same
Apart == J(<<U1, U3>>, <<One(1, 1, 0), One(2, 2, 0)>>, <<B(1, 2, <<RR>>)>>, <<C(<<1>>, 1, FALSE, 2)>>, All1, Scan1)
\* a configuration for each of two sources, a scan skipped
Rules == J(<<F(100, 16, FALSE, 4, 2), U2>>,
  <<D(1, <<1, 2>>, <<R(1), R(2)>>, << >>, << >>, 0), D(2, <<1, 2>>, <<R(1), R(2)>>, << >>, << >>, 0)>>,
  <<B(1, 2, << << <<1, 1>> >> >>), B(1, 2, << << <<2, 2>> >> >>)>>,
  <<C(<<1>>, 1, FALSE, 4), C(<<2>>, 2, FALSE, 2)>>,
  << [Rule(0) EXCEPT !.scans = {2}], [Rule(1) EXCEPT !.sources = {"a"}], [Rule(2) EXCEPT !.start = 25] >>,
  << S(1, "a", 1), S(2, "a", 2), S(3, "b", 2) >>)
\* rules that disagree
Conflicting == [Rules EXCEPT !.rules = <<Rule(1), Rule(2)>>]

MCJobs == {Plain, Triangle, Phases, Pulsar, Scrunched, Bands2, Sidebands, Zoom, ZoomPol, ZoomOut,
           ZoomMixed, Apart, Rules, Conflicting}
InOrder == <<"common", "config", "rule", "freq", "telescope", "datastream", "baseline", "data">>
MCOrders == {InOrder, <<"common", "config", "rule", "datastream", "freq">>,
             <<"common", "config", "rule", "freq", "baseline", "datastream">>}
=============================================================================
