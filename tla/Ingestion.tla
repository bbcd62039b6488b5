----------------------------- MODULE Ingestion -----------------------------
(***************************************************************************)
(* How a repository gets ingested.  Core API registers it and sends an     *)
(* ingestion.requested job; the one Repository Service worker claims the   *)
(* job row, runs the pipeline, stores the outcome and publishes it; Core's *)
(* worker applies the event to the row the user sees.                      *)
(*                                                                         *)
(* The three stores are Core's `repositories' table, Repository Service's  *)
(* `ingestion_jobs' table, and the two queues between them.  Nothing spans *)
(* two of them atomically, so any step may be the last one before a crash. *)
(***************************************************************************)
EXTENDS SqsQueue, FiniteSets

CONSTANTS
  Repos,        \* repositories users register
  Requests,     \* HTTP requests in flight at Core API
  JobSlots,     \* bound on the messages in ingestion-jobs
  EventSlots,   \* bound on the messages in core-ingestion-events
  MaxAttempts,  \* jobs.MAX_ATTEMPTS
  MaxCopies,    \* bound on the copies one publish may leave on the queue
  Faults,       \* the kinds of fault this instance may meet
  MaxFaults     \* bound on their number

FaultKinds == {"send", "request", "worker", "publish", "event"}

ASSUME IngestionAssumption ==
  /\ MaxAttempts \in Nat \ {0}
  /\ MaxCopies \in Nat \ {0}
  /\ MaxFaults \in Nat
  /\ Faults \subseteq FaultKinds
  /\ NoBody \notin Repos

VARIABLES
  repo,    \* Core: the status column of each repository, "none" without a row
  api,     \* Core: what each request is doing
  jobs,    \* the ingestion-jobs queue
  job,     \* Repository Service: the ingestion_jobs row of each repository
  worker,  \* Repository Service: the message its worker is handling
  events,  \* the core-ingestion-events queue
  faults   \* faults met so far

vars == <<repo, api, jobs, job, worker, events, faults>>

-----------------------------------------------------------------------------
(* Types *)

RepositoryStatuses == {"none", "queued", "in_progress", "ready", "failed"}
EventTypes == {"started", "completed", "failed"}
Event == [repo : Repos, type : EventTypes]
JobRow == [status : {"none", "in_progress", "ready", "failed"}, attempts : Nat]
Idle == [pc |-> "idle", msg |-> NoBody]

TypeOK ==
  /\ repo \in [Repos -> RepositoryStatuses]
  /\ api \in [Requests -> [pc   : {"idle", "send", "reject", "dead"},
                           repo : Repos \cup {NoBody}]]
  /\ jobs \in [JobSlots -> Message(Repos)]
  /\ job \in [Repos -> JobRow]
  /\ worker \in [pc  : {"idle", "claim", "load", "ingest", "publish", "delete"},
                 msg : JobSlots \cup {NoBody}]
  /\ events \in [EventSlots -> Message(Event)]
  /\ faults \in 0..MaxFaults

Init ==
  /\ repo = [r \in Repos |-> "none"]
  /\ api = [q \in Requests |-> [pc |-> "idle", repo |-> NoBody]]
  /\ jobs = EmptyQueue(JobSlots)
  /\ job = [r \in Repos |-> [status |-> "none", attempts |-> 0]]
  /\ worker = Idle
  /\ events = EmptyQueue(EventSlots)
  /\ faults = 0

Fault(kind) ==
  /\ kind \in Faults
  /\ faults < MaxFaults
  /\ faults' = faults + 1

-----------------------------------------------------------------------------
(* Core API: POST /v1/repositories and POST /v1/repositories/{id}/retry *)

\* The row and the job are two writes: the request holds the promise to send.
Promise(q, r) ==
  /\ api[q].pc = "idle"
  /\ repo' = [repo EXCEPT ![r] = "queued"]
  /\ api' = [api EXCEPT ![q] = [pc |-> "send", repo |-> r]]
  /\ UNCHANGED <<jobs, job, worker, events, faults>>

CreateRepository(q, r) == repo[r] = "none" /\ Promise(q, r)

RetryRepository(q, r) == repo[r] = "failed" /\ Promise(q, r)

SendJob(q) ==
  /\ api[q].pc = "send"
  /\ \E m \in FreeSlots(jobs) : jobs' = Put(jobs, {m}, api[q].repo)
  /\ api' = [api EXCEPT ![q] = [pc |-> "idle", repo |-> NoBody]]
  /\ UNCHANGED <<repo, job, worker, events, faults>>

\* send_message raised: SQS may still have accepted the message.
SendJobFails(q) ==
  /\ Fault("send")
  /\ api[q].pc = "send"
  /\ \/ UNCHANGED jobs
     \/ \E m \in FreeSlots(jobs) : jobs' = Put(jobs, {m}, api[q].repo)
  /\ api' = [api EXCEPT ![q].pc = "reject"]
  /\ UNCHANGED <<repo, job, worker, events>>

\* The ORM writes `failed' over whatever the row holds by now.
MarkSendFailed(q) ==
  /\ api[q].pc = "reject"
  /\ repo' = [repo EXCEPT ![api[q].repo] = "failed"]
  /\ api' = [api EXCEPT ![q] = [pc |-> "idle", repo |-> NoBody]]
  /\ UNCHANGED <<jobs, job, worker, events, faults>>

\* Core API stops between its commit and the end of the request.
RequestDies(q) ==
  /\ Fault("request")
  /\ api[q].pc \in {"send", "reject"}
  /\ api' = [api EXCEPT ![q].pc = "dead"]
  /\ UNCHANGED <<repo, jobs, job, worker, events>>

-----------------------------------------------------------------------------
(* Repository Service's worker: handle_ingestion_job, run_ingestion *)

InHand == jobs[worker.msg].body

At(pc) == worker.pc = pc

Goto(pc) == worker' = [worker EXCEPT !.pc = pc]

ReceiveJob(m) ==
  /\ At("idle")
  /\ jobs[m].st = "visible"
  /\ jobs' = Receive(jobs, m)
  /\ worker' = [pc |-> "claim", msg |-> m]
  /\ UNCHANGED <<repo, api, job, events, faults>>

\* Mutant of Claimed: the claim restarts any job that is not running.
ClaimedRestartsReady(row) ==
  IF row.status = "in_progress"
  THEN [row EXCEPT !.attempts = @ + 1]
  ELSE [status |-> "in_progress", attempts |-> 1]

\* The job row after one more claim: a `failed' job starts over (decision
\* 061), a `ready' one is left alone.
Claimed(row) ==
  CASE row.status \in {"none", "failed"} -> [status |-> "in_progress", attempts |-> 1]
    [] row.status = "in_progress"        -> [row EXCEPT !.attempts = @ + 1]
    [] row.status = "ready"              -> row

ClaimJob ==
  /\ At("claim")
  /\ job' = [job EXCEPT ![InHand] = Claimed(@)]
  /\ Goto("load")
  /\ UNCHANGED <<repo, api, jobs, events, faults>>

\* Mutant of RepublishOutcome: a finished job is skipped (before decision 058).
FinishedJobSkipped ==
  /\ At("load")
  /\ job[InHand].status \in {"ready", "failed"}
  /\ Goto("delete")
  /\ UNCHANGED <<repo, api, jobs, job, events, faults>>

\* A redelivered `ready' job only publishes its outcome again.
RepublishOutcome ==
  /\ At("load")
  /\ job[InHand].status \in {"ready", "failed"}
  /\ Goto("publish")
  /\ UNCHANGED <<repo, api, jobs, job, events, faults>>

GiveUp ==
  /\ At("load")
  /\ job[InHand].status = "in_progress"
  /\ job[InHand].attempts > MaxAttempts
  /\ job' = [job EXCEPT ![InHand].status = "failed"]
  /\ Goto("publish")
  /\ UNCHANGED <<repo, api, jobs, events, faults>>

\* Copies of an event that its publish left on the queue.
Published(type, S) == events' = Put(events, S, [repo |-> InHand, type |-> type])

Copies == {S \in SUBSET FreeSlots(events) : Cardinality(S) <= MaxCopies}

\* The started event is best effort: losing it is no fault (decision 029).
StartIngestion ==
  /\ At("load")
  /\ job[InHand].status = "in_progress"
  /\ job[InHand].attempts <= MaxAttempts
  /\ \E S \in Copies : Published("started", S)
  /\ Goto("ingest")
  /\ UNCHANGED <<repo, api, jobs, job, faults>>

\* Fetching and indexing end with an outcome, which is stored first.
Ingest(outcome) ==
  /\ At("ingest")
  /\ job' = [job EXCEPT ![InHand].status = outcome]
  /\ Goto("publish")
  /\ UNCHANGED <<repo, api, jobs, events, faults>>

OutcomeEvent(status) == IF status = "ready" THEN "completed" ELSE "failed"

PublishOutcome ==
  /\ At("publish")
  /\ \E S \in Copies \ {{}} : Published(OutcomeEvent(job[InHand].status), S)
  /\ Goto("delete")
  /\ UNCHANGED <<repo, api, jobs, job, faults>>

\* Mutant of PublishOutcomeFails: a lost final event does not raise.
PublishOutcomeLostSilently ==
  /\ Fault("publish")
  /\ At("publish")
  /\ \E S \in Copies : Published(OutcomeEvent(job[InHand].status), S)
  /\ Goto("delete")
  /\ UNCHANGED <<repo, api, jobs, job>>

\* Every attempt reported an error, though some may have been accepted:
\* OutcomeNotPublishedError leaves the job on the queue.
PublishOutcomeFails ==
  /\ Fault("publish")
  /\ At("publish")
  /\ \E S \in Copies : Published(OutcomeEvent(job[InHand].status), S)
  /\ jobs' = Return(jobs, worker.msg)
  /\ worker' = Idle
  /\ UNCHANGED <<repo, api, job>>

DeleteJob ==
  /\ At("delete")
  /\ jobs' = Delete(jobs, worker.msg)
  /\ worker' = Idle
  /\ UNCHANGED <<repo, api, job, events, faults>>

\* The handler raises, or the process dies, at any point before the delete.
WorkerFails ==
  /\ Fault("worker")
  /\ ~At("idle")
  /\ jobs' = Return(jobs, worker.msg)
  /\ worker' = Idle
  /\ UNCHANGED <<repo, api, job, events>>

-----------------------------------------------------------------------------
(* Core's worker: handle_ingestion_event, one transaction under a row lock *)

\* Mutant of Unfinished: only a `queued' row accepts events.
UnfinishedIfQueued == {"queued"}

Unfinished == {"queued", "in_progress"}
Terminal == {"ready", "failed"}

\* Mutant of TargetOf: the event's type is taken for the status.
TypeAsStatus(type) == type

TargetOf(type) ==
  CASE type = "started"   -> "in_progress"
    [] type = "completed" -> "ready"
    [] type = "failed"    -> "failed"

\* Mutant of ApplyIngestionEvent: a failure is written whatever the row says.
ApplyAnyFailure(ev) ==
  repo' = [repo EXCEPT ![ev.repo] = IF @ \in Unfinished \/ ev.type = "failed" THEN TargetOf(ev.type) ELSE @]

\* A terminal row rejects the event, which counts as handled.
ApplyIngestionEvent(ev) ==
  repo' = [repo EXCEPT ![ev.repo] = IF @ \in Unfinished THEN TargetOf(ev.type) ELSE @]

HandleEvent(e) ==
  /\ events[e].st = "visible"
  /\ ApplyIngestionEvent(events[e].body)
  /\ events' = Delete(events, e)
  /\ UNCHANGED <<api, jobs, job, worker, faults>>

\* The handler raises before its commit, or the worker dies after it.
HandleEventFails(e) ==
  /\ Fault("event")
  /\ events[e].st = "visible"
  /\ \/ ApplyIngestionEvent(events[e].body)
     \/ UNCHANGED repo
  /\ events' = Return(Receive(events, e), e)
  /\ UNCHANGED <<api, jobs, job, worker>>

-----------------------------------------------------------------------------
ApiStep(q) == SendJob(q) \/ SendJobFails(q) \/ MarkSendFailed(q)

UserStep ==
  \E q \in Requests, r \in Repos : CreateRepository(q, r) \/ RetryRepository(q, r)

WorkerStep ==
  \/ \E m \in JobSlots : ReceiveJob(m)
  \/ ClaimJob
  \/ RepublishOutcome
  \/ GiveUp
  \/ StartIngestion
  \/ \E outcome \in Terminal : Ingest(outcome)
  \/ PublishOutcome
  \/ PublishOutcomeFails
  \/ DeleteJob

CoreStep == \E e \in EventSlots : HandleEvent(e) \/ HandleEventFails(e)

Next ==
  \/ UserStep
  \/ \E q \in Requests : ApiStep(q) \/ RequestDies(q)
  \/ WorkerStep
  \/ WorkerFails
  \/ CoreStep

Spec == Init /\ [][Next]_vars

(***************************************************************************)
(* Processes that are running keep running: each worker polls as long as   *)
(* it is up, compose restarts it when it dies, and a request that began    *)
(* ends.  Faults are never obliged to happen.  The user keeps retrying a   *)
(* repository that stays `failed'.                                         *)
(***************************************************************************)
KeepsRetrying(r) == \E q \in Requests : RetryRepository(q, r)

Fairness ==
  /\ \A q \in Requests : WF_vars(SendJob(q)) /\ WF_vars(MarkSendFailed(q))
  /\ WF_vars(WorkerStep)
  /\ \A m \in JobSlots : SF_vars(ReceiveJob(m))
  /\ \A e \in EventSlots : WF_vars(HandleEvent(e))
  /\ \A r \in Repos : WF_vars(KeepsRetrying(r))

FairSpec == Spec /\ Fairness

-----------------------------------------------------------------------------
(* Properties *)

\* A repository shown `ready' has a `ready' ingestion job behind it, so its
\* code is indexed: interviews are planned from it without asking again.
ReadyMeansIndexed == \A r \in Repos : repo[r] = "ready" => job[r].status = "ready"

OutcomeEvents == {"completed", "failed"}

\* Something is still on its way that can settle r.
Sending(r) == \E q \in Requests : api[q].pc \in {"send", "reject"} /\ api[q].repo = r
JobComing(r) == \E m \in Live(jobs) : jobs[m].body = r
OutcomeComing(r) ==
  \E e \in Live(events) : events[e].body.repo = r /\ events[e].body.type \in OutcomeEvents

InFlight(r) == Sending(r) \/ JobComing(r) \/ OutcomeComing(r)

\* Something that could have settled r died on the way.
RequestDied(r) == \E q \in Requests : api[q].pc = "dead" /\ api[q].repo = r
JobDead(r) == \E m \in Dead(jobs) : jobs[m].body = r
OutcomeDead(r) ==
  \E e \in Dead(events) : events[e].body.repo = r /\ events[e].body.type \in OutcomeEvents

Lost(r) == RequestDied(r) \/ JobDead(r) \/ OutcomeDead(r)

\* A repository is never left `queued' or `in_progress' with nothing coming
\* for it, unless a request died half way or a message was dead-lettered:
\* the job is only deleted once its outcome is on Core's queue.
NeverStranded == \A r \in Repos : repo[r] \in Unfinished => InFlight(r) \/ Lost(r)

\* Every ingestion ends `ready' or `failed' (decision 058).
EveryIngestionEnds ==
  \A r \in Repos : repo[r] \in Unfinished ~> repo[r] \in Terminal \/ Lost(r)

\* A user who keeps retrying ends up with what Repository Service holds: an
\* event of an earlier attempt may fail the retried row (decision 061), but
\* the next retry republishes the stored outcome.
IndexedIsShownReady ==
  \A r \in Repos : job[r].status = "ready" ~> repo[r] = "ready" \/ Lost(r)

\* The requests at a pc, each with its repository.
RequestsAt(pc) == {x \in Requests \X Repos : api[x[1]].pc = pc /\ api[x[1]].repo = x[2]}

Promises ==
  INSTANCE RepositoryStatus
    WITH status <- repo, indexed <- {r \in Repos : job[r].status = "ready"},
         owed <- RequestsAt("send"), refused <- RequestsAt("reject")

\* What the user sees is the machine of RepositoryStatus: an event, however
\* late, moves only a row that is unfinished, and each refused send fails
\* only the row of its own request.
KeepsPromises == Promises!Spec

\* service.py: `Terminal states reject everything, so a completed or failed
\* ingestion can't be retroactively re-transitioned.'
ReadyIsFinal == [][\A r \in Repos : repo[r] = "ready" => repo'[r] = "ready"]_vars

\* architecture.md: `Only Core API's own handler failing three times leaves a
\* row stuck, in its DLQ.'
OnlyCoreHandlerStrands ==
  \A r \in Repos :
    repo[r] \in Unfinished => InFlight(r) \/ \E e \in Dead(events) : events[e].body.repo = r
=============================================================================
