-------------------------- MODULE RequestOutcome ---------------------------
(***************************************************************************)
(* What an interceptor promises for one intercepted request, whatever its   *)
(* listeners do.  The request gets at most one outcome, which never changes.*)
(* The outcome is announced (the controller's `handled` promise) at most    *)
(* once and only when there is one, a performed request only some time      *)
(* after the decision.  The client may withdraw (abort) the request while   *)
(* it is handled; the handling ends once, and a withdrawn request is never  *)
(* left without an outcome.                                                 *)
(***************************************************************************)
VARIABLES
  outcome,    \* the verdict, or "open"
  announced,  \* whether `handled` has resolved
  withdrawn,  \* whether the client aborted the request while it was handled
  ended       \* whether the handling has ended

vars == <<outcome, announced, withdrawn, ended>>

Outcomes == {"PASSTHROUGH", "RESPONSE", "ERROR"}

Init ==
  /\ outcome = "open"
  /\ announced = FALSE
  /\ withdrawn = FALSE
  /\ ended = FALSE

\* The handling may end in the step that decides or announces the outcome.
Decide ==
  /\ outcome = "open"
  /\ outcome' \in Outcomes
  /\ announced' \in BOOLEAN
  /\ outcome' = "PASSTHROUGH" => ~announced'
  /\ ended => ended'
  /\ UNCHANGED withdrawn

Announce ==
  /\ outcome # "open" /\ ~announced
  /\ announced'
  /\ ended => ended'
  /\ UNCHANGED <<outcome, withdrawn>>

Withdraw ==
  /\ ~withdrawn /\ ~ended
  /\ withdrawn' = TRUE
  /\ UNCHANGED <<outcome, announced, ended>>

Finish ==
  /\ ~ended
  /\ withdrawn => outcome # "open"
  /\ ended'
  /\ UNCHANGED <<outcome, announced, withdrawn>>

Next == Decide \/ Announce \/ Withdraw \/ Finish

Spec == Init /\ [][Next]_vars

=============================================================================
