------------------------------ MODULE Planning ------------------------------
(***************************************************************************)
(* How an interview gets its questions.  Core API asks for the plan when   *)
(* it creates the interview, again whenever the live page's poll finds no  *)
(* plan, and again on "Try again"; Voice Service's worker writes it; the   *)
(* live page begins the session once it has seen the plan ready.           *)
(*                                                                         *)
(* An interview that has begun may have ended since: Interviews follows it *)
(* from there.                                                             *)
(***************************************************************************)
EXTENDS SqsQueue, FiniteSets

CONSTANTS
  Interviews,  \* interviews being prepared
  Requests,    \* HTTP requests in flight at Core API
  Slots,       \* bound on the messages in planning-jobs
  Faults,      \* the kinds of fault this instance may meet
  MaxFaults    \* bound on their number

FaultKinds == {"slow", "call", "plan", "store", "worker"}

ASSUME PlanningAssumption ==
  /\ MaxFaults \in Nat
  /\ Faults \subseteq FaultKinds
  /\ NoBody \notin Interviews \cup Requests \cup Slots

VARIABLES
  status,   \* Core: the status of each interview
  api,      \* Core: what each request is doing
  page,     \* the live page of each interview
  queue,    \* the planning-jobs queue
  plan,     \* Voice: the plan in each interview's document
  worker,   \* Voice: the job the worker is handling
  session,  \* Voice: how far each interview's session got
  faults    \* faults met so far

vars == <<status, api, page, queue, plan, worker, session, faults>>

-----------------------------------------------------------------------------
PlanRow == [status : {"none", "generating", "ready", "failed"}, retryable : BOOLEAN]
Fresh(s) == [status |-> s, retryable |-> FALSE]
Failed(retryable) == [status |-> "failed", retryable |-> retryable]

\* What a page can show; an answer to the page is what it makes it show.
\* preparing: the plan is generating; hopeless: failed, and not retryable.
Answers == {"preparing", "ready", "retryable", "hopeless", "unreachable"}
Screens == Answers \cup {"away", "live"}
Page == [shows : Screens, awaits : Requests \cup {NoBody}]
Away == [shows |-> "away", awaits |-> NoBody]

Request ==
  [pc : {"idle", "read", "send", "answer"}, kind : {"none", "create", "poll", "retry"},
   interview : Interviews \cup {NoBody}, created : BOOLEAN, answer : Answers \cup {"none"}]

Done == [pc |-> "idle", kind |-> "none", interview |-> NoBody, created |-> FALSE, answer |-> "none"]

PcValues == {"idle", "claim", "check", "attempt", "save", "fail", "delete"}
Worker == [pc : PcValues, msg : Slots \cup {NoBody}, attempt : 0..2, retryable : BOOLEAN]
Idle == [pc |-> "idle", msg |-> NoBody, attempt |-> 0, retryable |-> FALSE]

TypeOK ==
  /\ status \in [Interviews -> {"none", "created", "active"}]
  /\ api \in [Requests -> Request]
  /\ page \in [Interviews -> Page]
  /\ queue \in [Slots -> Message(Interviews)]
  /\ plan \in [Interviews -> PlanRow]
  /\ worker \in Worker
  /\ session \in [Interviews -> {"none", "admitted", "asking", "notReady"}]
  /\ faults \in 0..MaxFaults

Init ==
  /\ status = [i \in Interviews |-> "none"]
  /\ api = [q \in Requests |-> Done]
  /\ page = [i \in Interviews |-> Away]
  /\ queue = EmptyQueue(Slots)
  /\ plan = [i \in Interviews |-> Fresh("none")]
  /\ worker = Idle
  /\ session = [i \in Interviews |-> "none"]
  /\ faults = 0

Fault(kind) ==
  /\ kind \in Faults
  /\ faults < MaxFaults
  /\ faults' = faults + 1

-----------------------------------------------------------------------------
(* The live page: PlanGate and PlanFailed *)

Call(q, i, kind, pc) ==
  /\ api[q].pc = "idle"
  /\ api' = [api EXCEPT ![q] = [pc |-> pc, kind |-> kind, interview |-> i,
                                created |-> status[i] = "created", answer |-> "none"]]
  /\ page' = [page EXCEPT ![i].awaits = q]
  /\ UNCHANGED <<queue, plan, worker, session>>

\* Its repository is ready: Ingestion.
CreateInterview(q, i) ==
  /\ status[i] = "none"
  /\ status' = [status EXCEPT ![i] = "created"]
  /\ Call(q, i, "create", "send")
  /\ UNCHANGED faults

\* Every two seconds while the plan is generating, and when the user asks
\* again after an error.
PollPlan(q, i) ==
  /\ page[i].shows \in {"preparing", "unreachable"}
  /\ page[i].awaits = NoBody
  /\ Call(q, i, "poll", "read")
  /\ UNCHANGED <<status, faults>>

\* An answer that takes longer than that is dropped for the next poll's (the
\* first answer of all is in fact waited for).
PollOvertakes(q, i) ==
  /\ Fault("slow")
  /\ page[i].shows = "preparing"
  /\ page[i].awaits # NoBody
  /\ Call(q, i, "poll", "read")
  /\ UNCHANGED status

\* Core refuses a retry once the interview has started.
RetryPlan(q, i) ==
  /\ page[i].shows = "retryable"
  /\ page[i].awaits = NoBody
  /\ status[i] = "created"
  /\ Call(q, i, "retry", "read")
  /\ UNCHANGED <<status, faults>>

\* An error of a retry leaves the button where it is.
Show(i, kind, answer) ==
  page' = [page EXCEPT ![i] =
    [shows |-> IF kind = "retry" /\ answer = "unreachable" THEN "retryable" ELSE answer,
     awaits |-> NoBody]]

TakeAnswer(q) ==
  /\ api[q].pc = "answer"
  /\ IF page[api[q].interview].awaits = q
     THEN Show(api[q].interview, api[q].kind, api[q].answer)
     ELSE UNCHANGED page
  /\ api' = [api EXCEPT ![q] = Done]
  /\ UNCHANGED <<status, queue, plan, worker, session, faults>>

LeavePage(i) ==
  /\ page[i] # Away
  /\ page' = [page EXCEPT ![i] = Away]
  /\ UNCHANGED <<status, api, queue, plan, worker, session, faults>>

\* Mutant of Opens: the page does not wait for the plan.
OpensAtOnce(i) == page[i].shows \in {"preparing", "ready"}

Opens(i) == page[i].shows = "ready"

\* The live page connects and sends session.start; the token may be refused.
StartSession(i) ==
  /\ Opens(i)
  /\ page' = [page EXCEPT ![i] = [shows |-> "live", awaits |-> NoBody]]
  /\ \/ /\ status[i] = "created"
        /\ status' = [status EXCEPT ![i] = "active"]
        /\ session' = [session EXCEPT ![i] = "admitted"]
     \/ UNCHANGED <<status, session>>
  /\ UNCHANGED <<api, queue, plan, worker, faults>>

-----------------------------------------------------------------------------
(* Core API: the plan's endpoints, from the interview's row on *)

Answer(q, answer) ==
  api' = [api EXCEPT ![q] = [@ EXCEPT !.pc = "answer", !.answer = answer]]

\* Mutant of SendsAgain: a poll that finds no plan only reports one under way.
SendsOnRetry(q) ==
  LET row == plan[api[q].interview] IN
  api[q].kind = "retry" /\ (row.status = "none" \/ (row.status = "failed" /\ row.retryable))

\* A lost job is sent again, and a plan that may be retried is when asked.
SendsAgain(q) ==
  LET row == plan[api[q].interview] IN
  \/ row.status = "none" /\ api[q].created
  \/ api[q].kind = "retry" /\ row.status = "failed" /\ row.retryable

\* What the page shows of a plan.
Shown(row) ==
  CASE row.status = "none" -> "unreachable"
    [] row.status = "generating" -> "preparing"
    [] row.status = "ready" -> "ready"
    [] row.status = "failed" -> IF row.retryable THEN "retryable" ELSE "hopeless"

ReadPlan(q) ==
  /\ api[q].pc = "read"
  /\ IF SendsAgain(q)
     THEN api' = [api EXCEPT ![q].pc = "send"]
     ELSE Answer(q, Shown(plan[api[q].interview]))
  /\ UNCHANGED <<status, page, queue, plan, worker, session, faults>>

ReadPlanFails(q) ==
  /\ Fault("call")
  /\ api[q].pc = "read"
  /\ Answer(q, "unreachable")
  /\ UNCHANGED <<status, page, queue, plan, worker, session>>

Sent(q) == \E m \in FreeSlots(queue) : queue' = Put(queue, {m}, api[q].interview)

SendPlanJob(q) ==
  /\ api[q].pc = "send"
  /\ Sent(q)
  /\ Answer(q, "preparing")
  /\ UNCHANGED <<status, page, plan, worker, session, faults>>

\* SQS may have accepted the job all the same.  An interview is created
\* without its job.
SendPlanJobFails(q) ==
  /\ Fault("call")
  /\ api[q].pc = "send"
  /\ Sent(q) \/ UNCHANGED queue
  /\ Answer(q, IF api[q].kind = "create" THEN "preparing" ELSE "unreachable")
  /\ UNCHANGED <<status, page, plan, worker, session>>

-----------------------------------------------------------------------------
(* Voice Service's worker: handle_plan_requested; an update of the         *)
(* interview's document is one step                                        *)

InHand == queue[worker.msg].body

At(pc) == worker.pc = pc

Goto(pc) == worker' = [worker EXCEPT !.pc = pc]

GiveUp(retryable) == worker' = [worker EXCEPT !.pc = "fail", !.retryable = retryable]

ReceiveJob(m) ==
  /\ At("idle")
  /\ queue[m].st = "visible"
  /\ queue' = Receive(queue, m)
  /\ worker' = [Idle EXCEPT !.pc = "claim", !.msg = m]
  /\ UNCHANGED <<status, api, page, plan, session, faults>>

Claimable(i) == plan[i].status \in {"none", "failed"}

Claimed(i) == plan' = [plan EXCEPT ![i] = IF Claimable(i) THEN Fresh("generating") ELSE @]

ClaimPlan ==
  /\ At("claim")
  /\ Claimed(InHand)
  /\ Goto("check")
  /\ UNCHANGED <<status, api, page, queue, session, faults>>

\* A plan left generating by a crash is written again.
CheckPlan ==
  /\ At("check")
  /\ worker' = IF plan[InHand].status = "generating"
               THEN [worker EXCEPT !.pc = "attempt", !.attempt = 1]
               ELSE [worker EXCEPT !.pc = "delete"]
  /\ UNCHANGED <<status, api, page, queue, plan, session, faults>>

\* The attempt is counted, code retrieved and the model asked.
WritePlan ==
  /\ At("attempt")
  /\ Goto("save")
  /\ UNCHANGED <<status, api, page, queue, plan, session, faults>>

\* A transient failure of the first attempt is retried.
WritePlanFails ==
  /\ Fault("plan")
  /\ At("attempt")
  /\ \/ worker.attempt < 2 /\ worker' = [worker EXCEPT !.attempt = @ + 1]
     \/ worker.attempt = 2 /\ GiveUp(TRUE)
  /\ UNCHANGED <<status, api, page, queue, plan, session>>

\* The repository has no code to ask about.
NothingToAsk ==
  /\ At("attempt")
  /\ GiveUp(FALSE)
  /\ UNCHANGED <<status, api, page, queue, plan, session, faults>>

\* Mutant of Settled: no guard on the status.
SettledAnyway(i, row) == plan' = [plan EXCEPT ![i] = row]

\* Only a `generating' plan takes an outcome.
Settled(i, row) ==
  plan' = [plan EXCEPT ![i] = IF @.status = "generating" THEN row ELSE @]

SavePlan ==
  /\ At("save")
  /\ Settled(InHand, Fresh("ready"))
  /\ Goto("delete")
  /\ UNCHANGED <<status, api, page, queue, session, faults>>

FailPlan ==
  /\ At("fail")
  /\ Settled(InHand, Failed(worker.retryable))
  /\ Goto("delete")
  /\ UNCHANGED <<status, api, page, queue, session, faults>>

\* A statement inside run_planning raises, before or after its commit: that is
\* a failure of the planning.
PlanningStatementFails ==
  /\ Fault("store")
  /\ \/ worker.pc \in {"check", "attempt"} /\ UNCHANGED plan
     \/ At("save") /\ (Settled(InHand, Fresh("ready")) \/ UNCHANGED plan)
  /\ GiveUp(TRUE)
  /\ UNCHANGED <<status, api, page, queue, session>>

\* Mutant of HandlerRaises: the failure that could not be stored is only logged.
HandlerOnlyLogs ==
  /\ Fault("store")
  /\ worker.pc \in {"claim", "fail"}
  /\ Goto("delete")
  /\ UNCHANGED <<status, api, page, queue, plan, session>>

\* The claim, or storing the failure, raises: the job goes back to the queue.
HandlerRaises ==
  /\ Fault("store")
  /\ \/ At("claim") /\ (Claimed(InHand) \/ UNCHANGED plan)
     \/ At("fail") /\ (Settled(InHand, Failed(worker.retryable)) \/ UNCHANGED plan)
  /\ queue' = Return(queue, worker.msg)
  /\ worker' = Idle
  /\ UNCHANGED <<status, api, page, session>>

DeleteJob ==
  /\ At("delete")
  /\ queue' = Delete(queue, worker.msg)
  /\ worker' = Idle
  /\ UNCHANGED <<status, api, page, plan, session, faults>>

\* The process stops; an error of delete_message stops it too.
WorkerDies ==
  /\ Fault("worker")
  /\ ~At("idle")
  /\ queue' = Return(queue, worker.msg)
  /\ worker' = Idle
  /\ UNCHANGED <<status, api, page, plan, session>>

-----------------------------------------------------------------------------
(* Voice Service's session, once the token was consumed *)

LoadPlan(i) ==
  /\ session[i] = "admitted"
  /\ session' = [session EXCEPT ![i] = IF plan[i].status = "ready" THEN "asking" ELSE "notReady"]
  /\ UNCHANGED <<status, api, page, queue, plan, worker, faults>>

-----------------------------------------------------------------------------
PageStep(i) ==
  \/ \E q \in Requests :
       CreateInterview(q, i) \/ PollPlan(q, i) \/ PollOvertakes(q, i) \/ RetryPlan(q, i)
  \/ StartSession(i)
  \/ LeavePage(i)

ApiStep(q) == ReadPlan(q) \/ SendPlanJob(q) \/ TakeAnswer(q)

ApiFails(q) == ReadPlanFails(q) \/ SendPlanJobFails(q)

HandleJob == ClaimPlan \/ CheckPlan \/ WritePlan \/ NothingToAsk \/ SavePlan \/ FailPlan \/ DeleteJob

WorkerFails == WritePlanFails \/ PlanningStatementFails \/ HandlerRaises \/ WorkerDies

Next ==
  \/ \E i \in Interviews : PageStep(i) \/ LoadPlan(i)
  \/ \E q \in Requests : ApiStep(q) \/ ApiFails(q)
  \/ \E m \in Slots : ReceiveJob(m)
  \/ HandleJob
  \/ WorkerFails

Spec == Init /\ [][Next]_vars

(***************************************************************************)
(* The page polls, requests are answered, the worker polls as long as it   *)
(* is up, and every visible message is received in the end.  The user who  *)
(* stays on the page keeps pressing the button it offers.                  *)
(***************************************************************************)
Presses(i) == \E q \in Requests : PollPlan(q, i) \/ RetryPlan(q, i)

Fairness ==
  /\ \A i \in Interviews : WF_vars(Presses(i)) /\ WF_vars(StartSession(i))
  /\ \A q \in Requests : WF_vars(ApiStep(q))
  /\ WF_vars(HandleJob)
  /\ \A m \in Slots : SF_vars(ReceiveJob(m))

FairSpec == Spec /\ Fairness

-----------------------------------------------------------------------------
(* Properties *)

Pending(i) == \E m \in Live(queue) : queue[m].body = i
Lost(i) == \E m \in Dead(queue) : queue[m].body = i

\* A plan is never left `generating' with no job that would write it: neither
\* a poll nor a retry sends another for such a plan.
NeverStranded ==
  \A i \in Interviews : plan[i].status = "generating" => Pending(i) \/ Lost(i)

\* The live page opens a session only on a plan that is ready, and no job that
\* comes late or twice takes the plan back before it is loaded (runner.py,
\* _PlanNotReadyError: the token would be spent for nothing).
SessionHasPlan == \A i \in Interviews : session[i] # "notReady"

\* The documents are the machine of PlanStatus: a ready plan, which a session
\* may be asking from, never changes.
Promises ==
  INSTANCE PlanStatus WITH begun <- {i \in Interviews : session[i] = "asking"}

KeepsPromises == Promises!Spec

\* Whoever waits on the page gets to the session, or is told that there is
\* nothing to ask, though jobs are lost and plans fail, unless a job was
\* dead-lettered.
EveryPageGetsOn ==
  \A i \in Interviews :
    page[i].shows = "preparing" ~> page[i].shows \in {"live", "hopeless", "away"} \/ Lost(i)
=============================================================================
