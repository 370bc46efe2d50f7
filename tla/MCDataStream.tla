---------------------------- MODULE MCDataStream ----------------------------
(* DataStream on short rings and jobs, for TLC.                            *)
EXTENDS DataStream

Scn(s, d, c) == [start |-> s, duration |-> d, config |-> c]
File(s, n) == [start |-> s, length |-> n, opens |-> TRUE]
BadFile(s, n) == [start |-> s, length |-> n, opens |-> FALSE]

(* Two scans with a gap between; a file that is missing, one that starts   *)
(* late and one that outlasts the job, with a gap between.  The ring is    *)
(* gone round one and a half times.                                        *)
LongScans == <<Scn(0, 23, 0), Scn(26, 9, 0)>>
LongFiles == <<BadFile(0, 4), File(11, 7), File(21, 24)>>

(* The same sent as frames, the first of them filling three segments.      *)
LongFrames == <<File(0, 13), File(14, 6), File(21, 9)>>

(* One scan recorded as two files with a gap between.                      *)
OneScan == <<Scn(0, 32, 0)>>
TwoFiles == <<File(0, 19), File(20, 12)>>

=============================================================================
