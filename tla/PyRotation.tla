------------------------------ MODULE PyRotation ------------------------------
(***************************************************************************)
(* PyCoordinator with a history variable: who was run ahead of whom.  The  *)
(* history of selections exists so that people take turns when a window    *)
(* holds more of them than max_active_filters.                             *)
(***************************************************************************)
EXTENDS PyCoordinator

VARIABLE overtook  \* pairs <<q, p>>: q was run, p was in the window and was
                   \* not; p has not run since, q's selection is remembered

Ran == {t.person : t \in tickets' \ tickets}

Passed == IF currentWindow = None THEN {}
                                  ELSE DOMAIN currentWindow.pending \ Ran

IsSubmission == tickets = {} /\ tickets' # {}

InitRotation == Init /\ overtook = {}

Record ==
  overtook' =
    {qp \in overtook \cup (IF IsSubmission THEN Ran \X Passed ELSE {}) :
       /\ qp[1] \in DOMAIN personLastSelected'
       /\ ~(IsSubmission /\ qp[2] \in Ran)}

SpecRotation ==
  InitRotation /\ [][Next /\ Record]_<<vars, overtook>>

\* People take turns: nobody overtakes the same person twice while both the
\* selection is remembered and the person has not run, whatever the mixture of
\* repeated messages, dropped windows, failures and expired history.
NoSecondOvertake ==
  [][\A qp \in overtook :
       ~(IsSubmission /\ qp[1] \in Ran /\ qp[2] \in Passed)]_<<vars, overtook>>
=============================================================================
