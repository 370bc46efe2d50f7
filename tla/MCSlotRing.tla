---------------------------- MODULE MCSlotRing ----------------------------
(* Slots of five frames and reads of two: the ring wraps several times in a *)
(* file, at its exact end and elsewhere, and the files end at every phase.  *)
EXTENDS SlotRing
F(s, n) == [start |-> s, length |-> n]
S(e, c) == [end |-> e, config |-> c]
SomeExtras == {-1, 0, 8}
SomeFiles ==
  {<<F(40, 45)>>, <<F(0, 38), F(60, 7)>>, <<F(0, 38), F(60, 3)>>, <<F(40, 4)>>}
SomeScans == <<S(20, 0), S(600, 0)>>
=============================================================================
