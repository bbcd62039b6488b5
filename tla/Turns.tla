------------------------------- MODULE Turns -------------------------------
(***************************************************************************)
(* What the record of one interview promises: its questions are asked in   *)
(* order, the next only once the last is answered; a question is answered  *)
(* once; nothing changes when the session is over; and a session counts as *)
(* completed only when every question is answered or the user stopped it.  *)
(***************************************************************************)
EXTENDS Naturals

CONSTANT Length   \* questions in the plan

VARIABLES
  status,    \* of each question, in the order of the plan
  stopped,   \* the user has asked to stop
  outcome    \* what the session reported when it ended

vars == <<status, stopped, outcome>>

Questions == 1..Length
AllAnswered == \A k \in Questions : status[k] = "answered"

Init ==
  /\ status = [k \in Questions |-> "planned"]
  /\ stopped = FALSE
  /\ outcome = "none"

Ask(k) ==
  /\ outcome = "none"
  /\ status[k] = "planned"
  /\ \A j \in 1..(k - 1) : status[j] = "answered"
  /\ status' = [status EXCEPT ![k] = "asked"]
  /\ UNCHANGED <<stopped, outcome>>

Answer(k) ==
  /\ outcome = "none"
  /\ status[k] = "asked"
  /\ status' = [status EXCEPT ![k] = "answered"]
  /\ UNCHANGED <<stopped, outcome>>

Stop ==
  /\ stopped' = TRUE
  /\ UNCHANGED <<status, outcome>>

Complete ==
  /\ outcome = "none"
  /\ stopped \/ AllAnswered
  /\ outcome' = "completed"
  /\ UNCHANGED <<status, stopped>>

\* Interrupted, or refused before anything was asked.
BreakOff ==
  /\ outcome = "none"
  /\ \/ outcome' = "interrupted"
     \/ outcome' = "refused" /\ \A k \in Questions : status[k] = "planned"
  /\ UNCHANGED <<status, stopped>>

Next ==
  \/ \E k \in Questions : Ask(k) \/ Answer(k)
  \/ Stop
  \/ Complete
  \/ BreakOff

Spec == Init /\ [][Next]_vars
=============================================================================
