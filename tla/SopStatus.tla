------------------------------ MODULE SopStatus ------------------------------
(***************************************************************************)
(* The status column of a row of sop_executions: its values, which of them *)
(* end an execution, and the map VALID_TRANSITIONS that every change of    *)
(* status is checked against (apps/crewmeld/lib/sop/engine.ts).            *)
(***************************************************************************)

Status == { "pending", "running", "paused_for_human", "paused_for_tool",
            "completed", "timed_out", "error", "failed", "cancelled" }

\* The statuses the schema calls terminal.  "error" is among them although
\* ValidTransitions gives it successors.
SopTerminalStatuses == { "completed", "timed_out", "error", "failed", "cancelled" }

\* The statuses with no successor at all.
Absorbing == { "completed", "timed_out", "failed", "cancelled" }

Paused == { "paused_for_human", "paused_for_tool" }

ValidTransitions ==
  [ s \in Status |->
      CASE s = "pending"          -> { "running", "cancelled" }
        [] s = "running"          -> { "paused_for_human", "paused_for_tool",
                                       "completed", "error", "cancelled" }
        [] s = "paused_for_human" -> { "running", "failed", "timed_out", "cancelled" }
        [] s = "paused_for_tool"  -> { "running", "failed", "timed_out", "error",
                                       "cancelled" }
        [] s = "error"            -> { "running", "failed", "cancelled", "timed_out" }
        [] OTHER                  -> {} ]

\* Mutant: UPDATE by id, whatever the status is by then.
TransitsById(current, from, to) == to \in ValidTransitions[from]

\* transitionStatus(from, to) changes the row exactly when the map has the
\* edge and the UPDATE ... WHERE status = from finds the row in that status.
Transits(current, from, to) == to \in ValidTransitions[from] /\ current = from

\* Mutant: the map is not consulted.
AfterAnyTransition(current, from, to) == IF current = from THEN to ELSE current

AfterTransition(current, from, to) == IF Transits(current, from, to) THEN to ELSE current
===============================================================================
