-------------------------- MODULE InterviewStatus --------------------------
(***************************************************************************)
(* What Core API promises about an interview, set against the session that *)
(* was really held.  An interview is `active' as long as its session may   *)
(* still be going on, `completed' only if its session was completed, and   *)
(* ends once.                                                              *)
(***************************************************************************)
CONSTANT Interviews

VARIABLES
  status,   \* what Core API shows for each interview
  session   \* what became of each interview's session at Voice Service

vars == <<status, session>>

Init ==
  /\ status = [i \in Interviews |-> "none"]
  /\ session = [i \in Interviews |-> "none"]

Becomes(i, s) == status'[i] = s /\ session'[i] = session[i]

Comes(i, s) == session'[i] = s /\ status'[i] = status[i]

Stays(i) == status'[i] = status[i] /\ session'[i] = session[i]

Create(i) == status[i] = "none" /\ Becomes(i, "created")

Begin(i) == status[i] = "created" /\ session[i] = "none" /\ Becomes(i, "active")

Play(i) == status[i] = "active" /\ session[i] = "none" /\ Comes(i, "live")

Finish(i) ==
  /\ status[i] = "active" /\ session[i] \in {"none", "live"}
  /\ \E outcome \in {"completed", "interrupted"} :
       /\ outcome = "completed" => session[i] = "live"
       /\ Comes(i, outcome)

Complete(i) == status[i] = "active" /\ session[i] = "completed" /\ Becomes(i, "completed")

\* Reported by Voice Service, or given up on.
Interrupt(i) == status[i] = "active" /\ session[i] # "live" /\ Becomes(i, "interrupted")

\* Several interviews may move at once: a crash ends every session.
Next ==
  /\ \A i \in Interviews :
       \/ Stays(i)
       \/ Create(i)
       \/ Begin(i)
       \/ Play(i)
       \/ Finish(i)
       \/ Complete(i)
       \/ Interrupt(i)
  /\ DOMAIN status' = Interviews
  /\ DOMAIN session' = Interviews

Spec == Init /\ [][Next]_vars
=============================================================================
