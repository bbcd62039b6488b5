---------------------------- MODULE ReportStatus ----------------------------
(***************************************************************************)
(* What Evaluation Service promises about the report of an interview: it   *)
(* is written once the interview's session can add no more to it, a failed *)
(* one may be started over, and a ready one never changes.                 *)
(***************************************************************************)
CONSTANT Interviews

VARIABLES
  report,  \* the row of each report: its status, and whether it is partial
  over     \* interviews whose session is over

vars == <<report, over>>

Init ==
  /\ report = [i \in Interviews |-> [status |-> "none", partial |-> FALSE]]
  /\ over = {}

Begin(i) ==
  /\ i \in over
  /\ report[i].status \in {"none", "failed"}
  /\ \E partial \in BOOLEAN :
       report' = [report EXCEPT ![i] = [status |-> "generating", partial |-> partial]]

Finish(i) ==
  /\ report[i].status = "generating"
  /\ \E outcome \in {"ready", "failed"} : report' = [report EXCEPT ![i].status = outcome]

Next ==
  \/ \E i \in Interviews : (Begin(i) \/ Finish(i)) /\ over' = over
  \/ over \subseteq over' /\ over' \subseteq Interviews /\ report' = report

Spec == Init /\ [][Next]_vars
=============================================================================
