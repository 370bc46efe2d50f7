---------------------------- MODULE MCFxManager -----------------------------
(* FxManager on short rings and jobs, for TLC.                             *)
EXTENDS FxManager

Scan(n, t) == [subints |-> n, intTime |-> t]

(* Integrations of two; one is cut short by the end of its scan, and one   *)
(* scan is shorter than an integration.                                    *)
SlowScans == <<Scan(5, 2), Scan(1, 2), Scan(3, 2)>>

=============================================================================
