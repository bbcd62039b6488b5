----------------------------- MODULE PlanStatus -----------------------------
(***************************************************************************)
(* What Voice Service promises about the question plan of an interview: a  *)
(* failed plan may be started over, a ready one never changes, and a       *)
(* session is only begun on a ready one.                                   *)
(***************************************************************************)
CONSTANT Interviews

VARIABLES
  plan,   \* the status of each plan, and whether retrying a failed one can help
  begun   \* interviews whose session was begun

vars == <<plan, begun>>

Fresh(status) == [status |-> status, retryable |-> FALSE]

Init ==
  /\ plan = [i \in Interviews |-> Fresh("none")]
  /\ begun = {}

Begin(i) ==
  /\ plan[i].status \in {"none", "failed"}
  /\ plan' = [plan EXCEPT ![i] = Fresh("generating")]

Finish(i) ==
  /\ plan[i].status = "generating"
  /\ \/ plan' = [plan EXCEPT ![i] = Fresh("ready")]
     \/ \E retryable \in BOOLEAN :
          plan' = [plan EXCEPT ![i] = [status |-> "failed", retryable |-> retryable]]

Use(i) ==
  /\ plan[i].status = "ready"
  /\ begun' = begun \cup {i}

Next ==
  \E i \in Interviews :
    \/ (Begin(i) \/ Finish(i)) /\ begun' = begun
    \/ Use(i) /\ plan' = plan

Spec == Init /\ [][Next]_vars
=============================================================================
