---------------------------- MODULE CorePipeline ----------------------------
(***************************************************************************)
(* What a Core promises to the FxManager: it accepts subintegrations one   *)
(* at a time, gives back one result per subintegration in the order it     *)
(* accepted them, never holds more than RING of them, and once told to     *)
(* terminate gives back what it still holds and stops.  How the receive    *)
(* ring and the process threads do this is in CoreRing.                    *)
(***************************************************************************)
EXTENDS Integers, Sequences

CONSTANT RING            \* Core::RECEIVE_RING_LENGTH

VARIABLES accepted,      \* number of subintegrations received
          returned,      \* their numbers, in the order the results left
          closed,        \* CR_TERMINATE has been received
          stopped        \* Core::execute has returned

pipelineVars == <<accepted, returned, closed, stopped>>

Init ==
  /\ accepted = 0
  /\ returned = << >>
  /\ closed = FALSE
  /\ stopped = FALSE

Accept ==
  /\ ~closed
  /\ accepted - Len(returned) < RING
  /\ accepted' = accepted + 1
  /\ UNCHANGED <<returned, closed, stopped>>

Return ==
  /\ Len(returned) < accepted
  /\ returned' = Append(returned, Len(returned))
  /\ UNCHANGED <<accepted, closed, stopped>>

Close ==
  /\ ~closed
  /\ closed' = TRUE
  /\ UNCHANGED <<accepted, returned, stopped>>

Stop ==
  /\ closed
  /\ ~stopped
  /\ Len(returned) = accepted
  /\ stopped' = TRUE
  /\ UNCHANGED <<accepted, returned, closed>>

Next == Accept \/ Return \/ Close \/ Stop

Spec == Init /\ [][Next]_pipelineVars /\ WF_pipelineVars(closed /\ (Return \/ Stop))
=============================================================================
