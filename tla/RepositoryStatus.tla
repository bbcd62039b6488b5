-------------------------- MODULE RepositoryStatus --------------------------
(***************************************************************************)
(* What a user may see happen to a repository: the promise Core API makes  *)
(* with its status column, whatever queues and workers lie behind it.      *)
(* A repository is shown `ready' only once its code is indexed.  Only the  *)
(* user's retry takes it out of `failed', and only a request of theirs     *)
(* whose send was refused takes it out of `ready', once.                   *)
(***************************************************************************)
CONSTANTS Repos, Requests

VARIABLES
  status,   \* what Core API shows for each repository
  indexed,  \* the repositories whose code Repository Service has indexed
  owed,     \* the jobs that requests owe: each with its repository
  refused   \* those whose send was refused, and that Core has yet to answer for

vars == <<status, indexed, owed, refused>>

Init ==
  /\ status = [r \in Repos |-> "none"]
  /\ indexed = {}
  /\ owed = {}
  /\ refused = {}

Unfinished(r) == status[r] \in {"queued", "in_progress"}

Shown(r, s) == status' = [status EXCEPT ![r] = s]
Show(r, s) == Shown(r, s) /\ UNCHANGED <<indexed, owed, refused>>

-----------------------------------------------------------------------------
(* The user's requests *)

Owe(q, r) ==
  /\ Shown(r, "queued")
  /\ owed' = owed \cup {<<q, r>>}
  /\ UNCHANGED <<indexed, refused>>

Register(q, r) == status[r] = "none" /\ Owe(q, r)

Retry(q, r) == status[r] = "failed" /\ Owe(q, r)

\* Sent, or the request is gone and will not be.
Discharge(q, r) ==
  /\ <<q, r>> \in owed \cup refused
  /\ owed' = owed \ {<<q, r>>}
  /\ refused' = refused \ {<<q, r>>}
  /\ UNCHANGED <<status, indexed>>

Refuse(q, r) ==
  /\ <<q, r>> \in owed
  /\ owed' = owed \ {<<q, r>>}
  /\ refused' = refused \cup {<<q, r>>}
  /\ UNCHANGED <<status, indexed>>

\* Core API could not send the job that this request owed.
Reject(q, r) ==
  /\ <<q, r>> \in refused
  /\ Shown(r, "failed")
  /\ refused' = refused \ {<<q, r>>}
  /\ UNCHANGED <<indexed, owed>>

-----------------------------------------------------------------------------
(* The ingestion *)

Start(r) == Unfinished(r) /\ Show(r, "in_progress")

Index(r) == indexed' = indexed \cup {r} /\ UNCHANGED <<status, owed, refused>>

Succeed(r) == Unfinished(r) /\ r \in indexed /\ Show(r, "ready")

Fail(r) == Unfinished(r) /\ Show(r, "failed")

Next ==
  \/ \E q \in Requests, r \in Repos :
       Register(q, r) \/ Retry(q, r) \/ Discharge(q, r) \/ Refuse(q, r) \/ Reject(q, r)
  \/ \E r \in Repos : Start(r) \/ Index(r) \/ Succeed(r) \/ Fail(r)

Spec == Init /\ [][Next]_vars
=============================================================================
