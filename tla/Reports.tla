------------------------------ MODULE Reports ------------------------------
(***************************************************************************)
(* How an interview gets its report.  Voice Service's end event and Core   *)
(* API's report.requested jobs, the user's way to recover a lost event or  *)
(* a failed report, reach Evaluation Service over two queues.  Its worker  *)
(* polls both at once; the two pollers meet only in the report's row.      *)
(*                                                                         *)
(* Interviews move as InterviewStatus lets them, which is what the         *)
(* protocol of module Interviews is proved to keep to.                     *)
(***************************************************************************)
EXTENDS SqsQueue, FiniteSets

CONSTANTS
  Interviews,  \* interviews whose reports are wanted
  Requests,    \* HTTP requests in flight at Core API
  Slots,       \* bound on the messages in each of the two queues
  MaxCopies,   \* bound on the copies one publish may leave on a queue
  Faults,      \* the kinds of fault this instance may meet
  MaxFaults    \* bound on their number

FaultKinds == {"send", "generate", "store", "worker"}

ASSUME ReportsAssumption ==
  /\ MaxCopies \in Nat /\ MaxFaults \in Nat
  /\ Faults \subseteq FaultKinds
  /\ NoBody \notin Interviews /\ NoBody \notin Slots

VARIABLES
  status,   \* Core: the status of each interview
  session,  \* Voice: what became of each interview's session
  told,     \* Voice: interviews whose end event was published, or lost
  api,      \* Core: what each request is doing
  queue,    \* the queue of each poller
  report,   \* Evaluation: the reports row of each interview
  worker,   \* Evaluation: the message each poller is handling
  faults    \* faults met so far

vars == <<status, session, told, api, queue, report, worker, faults>>

Interview == INSTANCE InterviewStatus

-----------------------------------------------------------------------------
Pollers == {"ended", "jobs"}
InterviewStatuses == {"none", "created", "active", "completed", "interrupted"}
Sessions == {"none", "live", "completed", "interrupted"}
Outcomes == {"completed", "interrupted"}
ReportRequest == [interview : Interviews, outcome : Outcomes]
ReportRow == [status : {"none", "generating", "ready", "failed"}, partial : BOOLEAN]
PcValues == {"idle", "claim", "check", "generate", "markReady", "markFailed", "delete"}
Idle == [pc |-> "idle", msg |-> NoBody]

TypeOK ==
  /\ status \in [Interviews -> InterviewStatuses]
  /\ session \in [Interviews -> Sessions]
  /\ told \subseteq Interviews
  /\ api \in [Requests -> Interviews \cup {NoBody}]
  /\ queue \in [Pollers -> [Slots -> Message(ReportRequest)]]
  /\ report \in [Interviews -> ReportRow]
  /\ worker \in [Pollers -> [pc : PcValues, msg : Slots \cup {NoBody}]]
  /\ faults \in 0..MaxFaults

Init ==
  /\ Interview!Init
  /\ told = {}
  /\ api = [q \in Requests |-> NoBody]
  /\ queue = [p \in Pollers |-> EmptyQueue(Slots)]
  /\ report = [i \in Interviews |-> [status |-> "none", partial |-> FALSE]]
  /\ worker = [p \in Pollers |-> Idle]
  /\ faults = 0

Fault(kind) ==
  /\ kind \in Faults
  /\ faults < MaxFaults
  /\ faults' = faults + 1

-----------------------------------------------------------------------------
(* The interview: its status at Core API and its session at Voice Service *)

InterviewStep ==
  /\ \E shown \in [Interviews -> InterviewStatuses], held \in [Interviews -> Sessions] :
       status' = shown /\ session' = held
  /\ Interview!Next
  /\ UNCHANGED <<told, api, queue, report, worker, faults>>

Copies(p) == {S \in SUBSET FreeSlots(queue[p]) : Cardinality(S) <= MaxCopies}

\* EventBridge delivers to each consumer's queue by itself, so this one may
\* come before or after Core's, several times, or never.
PublishEnded(i) ==
  /\ session[i] \in Outcomes /\ i \notin told
  /\ told' = told \cup {i}
  /\ \E S \in Copies("ended") :
       queue' = [queue EXCEPT !["ended"] = Put(@, S, [interview |-> i, outcome |-> session[i]])]
  /\ UNCHANGED <<status, session, api, report, worker, faults>>

-----------------------------------------------------------------------------
(* Core API: GET and POST .../report, of an interview that has ended *)

Ask(q, i) ==
  /\ status[i] \in Outcomes
  /\ api[q] = NoBody
  /\ api' = [api EXCEPT ![q] = i]
  /\ UNCHANGED <<status, session, told, queue, report, worker, faults>>

ReadReport(q, i) == report[i].status = "none" /\ Ask(q, i)

RetryReport(q, i) == report[i].status \in {"none", "failed"} /\ Ask(q, i)

\* Mutant of RequestOf: the job does not say how the interview ended.
RequestOfWhole(i) == [interview |-> i, outcome |-> "completed"]

RequestOf(i) == [interview |-> i, outcome |-> status[i]]

Sent(q) ==
  \E m \in FreeSlots(queue["jobs"]) :
    queue' = [queue EXCEPT !["jobs"] = Put(@, {m}, RequestOf(api[q]))]

SendReportJob(q) ==
  /\ api[q] # NoBody
  /\ Sent(q)
  /\ api' = [api EXCEPT ![q] = NoBody]
  /\ UNCHANGED <<status, session, told, report, worker, faults>>

\* send_message raises, or the API stops: SQS may have accepted the job.
SendReportJobFails(q) ==
  /\ Fault("send")
  /\ api[q] # NoBody
  /\ Sent(q) \/ UNCHANGED queue
  /\ api' = [api EXCEPT ![q] = NoBody]
  /\ UNCHANGED <<status, session, told, report, worker>>

-----------------------------------------------------------------------------
(* Evaluation Service's worker: request_report and run_generation, in each *)
(* poller; a statement on the row is one step                              *)

InHand(p) == queue[p][worker[p].msg].body

At(p, pc) == worker[p].pc = pc

Goto(p, pc) == worker' = [worker EXCEPT ![p].pc = pc]

ReceiveRequest(p, m) ==
  /\ At(p, "idle")
  /\ queue[p][m].st = "visible"
  /\ queue' = [queue EXCEPT ![p] = Receive(@, m)]
  /\ worker' = [worker EXCEPT ![p] = [pc |-> "claim", msg |-> m]]
  /\ UNCHANGED <<status, session, told, api, report, faults>>

\* Mutant of Claimable: a failed report is not started over.
ClaimableOnce(i) == report[i].status = "none"

Claimable(i) == report[i].status \in {"none", "failed"}

\* The row as the claim leaves it.
Claimed(ask) ==
  report' = [report EXCEPT ![ask.interview] =
    IF Claimable(ask.interview)
    THEN [status |-> "generating", partial |-> ask.outcome = "interrupted"]
    ELSE @]

ClaimReport(p) ==
  /\ At(p, "claim")
  /\ Claimed(InHand(p))
  /\ Goto(p, IF Claimable(InHand(p).interview) THEN "generate" ELSE "check")
  /\ UNCHANGED <<status, session, told, api, queue, faults>>

\* The status is read again, after the claim: the other poller may have
\* settled the row in between.
CheckStatus(p) ==
  /\ At(p, "check")
  /\ Goto(p, IF report[InHand(p).interview].status = "ready" THEN "delete" ELSE "generate")
  /\ UNCHANGED <<status, session, told, api, queue, report, faults>>

\* Turns, chunks and the model's grades are read; nothing is stored yet.
GenerateReport(p) ==
  /\ At(p, "generate")
  /\ Goto(p, "markReady")
  /\ UNCHANGED <<status, session, told, api, queue, report, faults>>

GenerateReportFails(p) ==
  /\ Fault("generate")
  /\ At(p, "generate")
  /\ Goto(p, "markFailed")
  /\ UNCHANGED <<status, session, told, api, queue, report>>

\* Mutant of Marked: no guard on the status.
MarkedAnyway(i, outcome) == report' = [report EXCEPT ![i].status = outcome]

\* Only a `generating' row takes an outcome.
Marked(i, outcome) ==
  report' = [report EXCEPT ![i].status = IF @ = "generating" THEN outcome ELSE @]

MarkReady(p) ==
  /\ At(p, "markReady")
  /\ Marked(InHand(p).interview, "ready")
  /\ Goto(p, "delete")
  /\ UNCHANGED <<status, session, told, api, queue, faults>>

\* An error, before or after the commit, counts as a failed generation.
MarkReadyFails(p) ==
  /\ Fault("store")
  /\ At(p, "markReady")
  /\ Marked(InHand(p).interview, "ready") \/ UNCHANGED report
  /\ Goto(p, "markFailed")
  /\ UNCHANGED <<status, session, told, api, queue>>

MarkFailed(p) ==
  /\ At(p, "markFailed")
  /\ Marked(InHand(p).interview, "failed")
  /\ Goto(p, "delete")
  /\ UNCHANGED <<status, session, told, api, queue, faults>>

\* Mutant of StatementFails: run_generation does not raise.
StatementFailsSilently(p) ==
  /\ Fault("store")
  /\ worker[p].pc \in {"claim", "check", "markFailed"}
  /\ UNCHANGED report
  /\ Goto(p, "delete")
  /\ UNCHANGED <<status, session, told, api, queue>>

\* Any other statement that raises, before or after its commit, leaves the
\* message on the queue.
StatementFails(p) ==
  /\ Fault("store")
  /\ worker[p].pc \in {"claim", "check", "markFailed"}
  /\ \/ At(p, "claim") /\ Claimed(InHand(p))
     \/ At(p, "markFailed") /\ Marked(InHand(p).interview, "failed")
     \/ UNCHANGED report
  /\ queue' = [queue EXCEPT ![p] = Return(@, worker[p].msg)]
  /\ worker' = [worker EXCEPT ![p] = Idle]
  /\ UNCHANGED <<status, session, told, api>>

DeleteRequest(p) ==
  /\ At(p, "delete")
  /\ queue' = [queue EXCEPT ![p] = Delete(@, worker[p].msg)]
  /\ worker' = [worker EXCEPT ![p] = Idle]
  /\ UNCHANGED <<status, session, told, api, report, faults>>

\* The process stops, and both pollers with it; an error of delete_message
\* stops it too.
WorkerDies ==
  /\ Fault("worker")
  /\ \E p \in Pollers : ~At(p, "idle")
  /\ queue' = [p \in Pollers |-> IF At(p, "idle") THEN queue[p] ELSE Return(queue[p], worker[p].msg)]
  /\ worker' = [p \in Pollers |-> Idle]
  /\ UNCHANGED <<status, session, told, api, report>>

-----------------------------------------------------------------------------
ApiStep(q) ==
  \/ \E i \in Interviews : ReadReport(q, i) \/ RetryReport(q, i)
  \/ SendReportJob(q)
  \/ SendReportJobFails(q)

WorkerStep(p) ==
  \/ \E m \in Slots : ReceiveRequest(p, m)
  \/ ClaimReport(p)
  \/ CheckStatus(p)
  \/ GenerateReport(p)
  \/ MarkReady(p)
  \/ MarkFailed(p)
  \/ DeleteRequest(p)

WorkerFails(p) == GenerateReportFails(p) \/ MarkReadyFails(p) \/ StatementFails(p)

Next ==
  \/ InterviewStep
  \/ \E i \in Interviews : PublishEnded(i)
  \/ \E q \in Requests : ApiStep(q)
  \/ \E p \in Pollers : WorkerStep(p) \/ WorkerFails(p)
  \/ WorkerDies

Spec == Init /\ [][Next]_vars

(***************************************************************************)
(* The worker polls as long as it is up and compose restarts it; every     *)
(* visible message is received in the end.  The user of an ended interview *)
(* keeps asking for a report that is missing or failed.  No event need     *)
(* arrive, and no interview need end.                                      *)
(***************************************************************************)
KeepsAsking(i) == \E q \in Requests : RetryReport(q, i)

Fairness ==
  /\ \A i \in Interviews : WF_vars(KeepsAsking(i))
  /\ \A q \in Requests : WF_vars(SendReportJob(q))
  /\ \A p \in Pollers : WF_vars(WorkerStep(p))
  /\ \A p \in Pollers, m \in Slots : SF_vars(ReceiveRequest(p, m))

FairSpec == Spec /\ Fairness

-----------------------------------------------------------------------------
(* Properties *)

\* A report that does not call itself partial is of a session that was
\* completed, whichever of the two queues it was asked for over, however late.
WholeMeansCompleted ==
  \A i \in Interviews :
    report[i].status # "none" /\ ~report[i].partial => session[i] = "completed"

Asks(i, p, m) == queue[p][m].body.interview = i
Pending(i) == \E p \in Pollers : \E m \in Live(queue[p]) : Asks(i, p, m)
Lost(i) == \E p \in Pollers : \E m \in Dead(queue[p]) : Asks(i, p, m)

\* A row is never left `generating' with no message that would run it again:
\* the user cannot restart such a row, as the retry endpoint refuses it.
NeverStranded ==
  \A i \in Interviews : report[i].status = "generating" => Pending(i) \/ Lost(i)

\* The reports table is the machine of ReportStatus: nothing is generated
\* before the session is over, and a ready report never changes.
Promises ==
  INSTANCE ReportStatus
    WITH over <- {i \in Interviews : session[i] \in Outcomes \/ status[i] \in Outcomes}

KeepsPromises == Promises!Spec

\* Every interview that has ended gets its report, though the end event was
\* lost and generations fail, unless a message was dead-lettered.
EveryReportIsReady ==
  \A i \in Interviews : status[i] \in Outcomes ~> report[i].status = "ready" \/ Lost(i)

\* generation.py: `A row still `generating` means the attempt holding the
\* message died, so it reruns.'  So no two runs of one report are under way.
Running(p, i) ==
  worker[p].pc \in {"generate", "markReady", "markFailed"} /\ InHand(p).interview = i

OneRunPerReport ==
  \A i \in Interviews, p, r \in Pollers : Running(p, i) /\ Running(r, i) => p = r
=============================================================================
