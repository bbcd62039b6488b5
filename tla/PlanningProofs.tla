--------------------------- MODULE PlanningProofs ---------------------------
(***************************************************************************)
(* A session always finds its plan, a plan is never left generating with   *)
(* nobody to write it, and the documents keep to PlanStatus, for any       *)
(* number of interviews, requests, jobs and faults.                        *)
(***************************************************************************)
EXTENDS Planning, SqsQueueProofs

IsReady(i) == plan[i].status = "ready"

QueueOK == WellFormed(queue, Slots, Interviews)

\* The worker keeps the job it handles in flight.
WorkerOK == ~At("idle") => worker.msg \in Slots /\ queue[worker.msg].st = "inflight"

\* An answer that says ready says it of a plan that is.
RequestOK(q) ==
  api[q].pc # "idle" =>
    /\ api[q].interview \in Interviews
    /\ api[q].pc = "answer" => api[q].answer \in Answers
    /\ api[q].answer = "ready" => IsReady(api[q].interview)

RequestsOK == \A q \in Requests : RequestOK(q)

\* So does a page, and a session.
PageOK(i) == page[i].shows \in {"ready", "live"} => IsReady(i)

SessionOK(i) ==
  session[i] # "none" => session[i] # "notReady" /\ IsReady(i) /\ status[i] = "active"

InterviewsOK == \A i \in Interviews : PageOK(i) /\ SessionOK(i)

Waits(i) == \E m \in Slots : queue[m].st \in {"visible", "dead"} /\ queue[m].body = i

Serves(i) == worker.pc \notin {"idle", "delete"} /\ InHand = i

\* The worker will settle a generating plan, or its job waits or is dead.
Attended == \A i \in Interviews : plan[i].status = "generating" => Waits(i) \/ Serves(i)

IInv ==
  /\ TypeOK
  /\ QueueOK
  /\ WorkerOK
  /\ RequestsOK
  /\ InterviewsOK
  /\ Attended

-----------------------------------------------------------------------------
LEMMA InitIInv == Init => IInv
<1> SUFFICES ASSUME Init PROVE IInv
  OBVIOUS
<1>1. QueueOK
  BY EmptyQueueWellFormed DEF Init, QueueOK
<1>2. TypeOK
  BY <1>1, PlanningAssumption
  DEF Init, TypeOK, QueueOK, WellFormed, Fresh, PlanRow, Done, Request, Away, Page, Screens,
      Idle, Worker, PcValues
<1>3. WorkerOK /\ RequestsOK /\ InterviewsOK /\ Attended
  BY DEF Init, WorkerOK, At, Idle, RequestsOK, RequestOK, Done, InterviewsOK, PageOK, Away,
     SessionOK, Attended, Fresh
<1> QED
  BY <1>1, <1>2, <1>3 DEF IInv

\* The job the worker handles is of an interview.
LEMMA InHandFacts ==
  ASSUME IInv, ~At("idle")
  PROVE  /\ worker.msg \in Slots
         /\ queue[worker.msg].st = "inflight"
         /\ InHand \in Interviews
<1>1. worker.msg \in Slots /\ queue[worker.msg].st = "inflight"
  BY DEF IInv, WorkerOK
<1> QED
  BY <1>1 DEF IInv, QueueOK, WellFormed, InHand

\* Faults are counted up to their bound.
LEMMA FaultCounts ==
  ASSUME IInv, NEW kind, Fault(kind)
  PROVE  faults' \in 0..MaxFaults
BY PlanningAssumption DEF IInv, TypeOK, Fault

-----------------------------------------------------------------------------
(* The page's and Core API's steps: the worker, and the plans, are left alone *)

FrontStep == UNCHANGED <<plan, worker>> /\ faults' \in 0..MaxFaults

\* A step in front of the worker that sends no job.
LEMMA FrontInv ==
  ASSUME IInv, FrontStep, UNCHANGED queue,
         status' \in [Interviews -> {"none", "created", "active"}],
         api' \in [Requests -> Request], page' \in [Interviews -> Page],
         session' \in [Interviews -> {"none", "admitted", "asking", "notReady"}],
         RequestsOK', InterviewsOK'
  PROVE  IInv'
BY DEF IInv, FrontStep, TypeOK, QueueOK, WorkerOK, At, Attended, Waits, Serves, InHand

\* A page calls Core API.
LEMMA CallInv ==
  ASSUME IInv, NEW q \in Requests, NEW i \in Interviews, NEW kind \in {"create", "poll", "retry"},
         NEW pc \in {"read", "send"}, Call(q, i, kind, pc), faults' \in 0..MaxFaults,
         status' \in [Interviews -> {"none", "created", "active"}],
         \A j \in Interviews : status[j] = "active" => status'[j] = "active"
  PROVE  IInv'
<1>1. PICK r : /\ r = [pc |-> pc, kind |-> kind, interview |-> i,
                       created |-> status[i] = "created", answer |-> "none"]
               /\ api' = [api EXCEPT ![q] = r]
  BY DEF Call
<1>2. /\ FrontStep /\ UNCHANGED <<queue, session>>
      /\ page' = [page EXCEPT ![i].awaits = q]
  BY DEF Call, FrontStep
<1>3. r \in Request
  BY <1>1 DEF Request
<1>4. /\ api' \in [Requests -> Request] /\ page' \in [Interviews -> Page]
      /\ \A j \in Interviews : page'[j].shows = page[j].shows
  BY <1>2, <1>1, <1>3 DEF IInv, TypeOK, Page
<1>5. RequestsOK'
  BY <1>1, <1>2 DEF IInv, TypeOK, RequestsOK, RequestOK, IsReady, FrontStep
<1>6. InterviewsOK'
  BY <1>2, <1>4 DEF IInv, InterviewsOK, PageOK, SessionOK, IsReady, FrontStep
<1> QED
  BY <1>2, <1>4, <1>5, <1>6, FrontInv DEF IInv, TypeOK

\* A page shows an answer, or drops it.
LEMMA TakeAnswerInv ==
  ASSUME IInv, NEW q \in Requests, TakeAnswer(q)
  PROVE  IInv'
<1>1. PICK i \in Interviews : i = api[q].interview
  BY DEF TakeAnswer, IInv, RequestsOK, RequestOK
<1>2. /\ FrontStep /\ UNCHANGED <<queue, status, session>>
      /\ api' = [api EXCEPT ![q] = Done]
      /\ api[q].pc = "answer" /\ api[q].answer \in Answers
      /\ api[q].answer = "ready" => IsReady(i)
  BY <1>1 DEF TakeAnswer, FrontStep, IInv, RequestsOK, RequestOK, TypeOK
<1>3. PICK shows \in Answers :
        /\ shows = "ready" => IsReady(i)
        /\ \/ page' = [page EXCEPT ![i] = [shows |-> shows, awaits |-> NoBody]]
           \/ UNCHANGED page
  <2>1. PICK s : s = IF api[q].kind = "retry" /\ api[q].answer = "unreachable"
                     THEN "retryable" ELSE api[q].answer
    OBVIOUS
  <2>2. s \in Answers /\ (s = "ready" => IsReady(i))
    BY <1>2, <2>1 DEF Answers
  <2>3. \/ page' = [page EXCEPT ![i] = [shows |-> s, awaits |-> NoBody]]
        \/ UNCHANGED page
    BY <1>1, <2>1 DEF TakeAnswer, Show
  <2> QED
    BY <2>2, <2>3
<1>4. Done \in Request /\ [shows |-> shows, awaits |-> NoBody] \in Page
  BY DEF Done, Request, Page, Screens
<1>5. api' \in [Requests -> Request] /\ page' \in [Interviews -> Page]
  BY <1>2, <1>3, <1>4 DEF IInv, TypeOK
<1>6. RequestsOK'
  BY <1>2 DEF IInv, TypeOK, RequestsOK, RequestOK, IsReady, FrontStep, Done
<1>7. \A j \in Interviews :
        \/ page'[j].shows = page[j].shows
        \/ j = i /\ page'[j].shows = shows
  BY <1>3 DEF IInv, TypeOK
<1>8. InterviewsOK'
  BY <1>2, <1>3, <1>7 DEF IInv, InterviewsOK, PageOK, SessionOK, IsReady, FrontStep, Answers
<1> QED
  BY <1>2, <1>5, <1>6, <1>8, FrontInv DEF IInv, TypeOK

\* A session is started from a page that has seen the plan ready.
LEMMA StartSessionInv ==
  ASSUME IInv, NEW i \in Interviews, StartSession(i) \/ LeavePage(i) \/ LoadPlan(i)
  PROVE  IInv'
<1>1. FrontStep /\ UNCHANGED <<api, queue>>
  BY DEF StartSession, LeavePage, LoadPlan, FrontStep, IInv, TypeOK
<1>2. RequestsOK' /\ api' \in [Requests -> Request]
  BY <1>1 DEF IInv, TypeOK, RequestsOK, RequestOK, IsReady, FrontStep
<1>3. \A j \in Interviews : IsReady(j)' = IsReady(j)
  BY <1>1 DEF IsReady, FrontStep
<1>4. CASE StartSession(i)
  <2>1. page[i].shows = "ready" /\ IsReady(i)
    BY <1>4 DEF StartSession, Opens, IInv, InterviewsOK, PageOK
  <2>2. [shows |-> "live", awaits |-> NoBody] \in Page
    BY DEF Page, Screens
  <2>3. /\ page' \in [Interviews -> Page]
        /\ status' \in [Interviews -> {"none", "created", "active"}]
        /\ session' \in [Interviews -> {"none", "admitted", "asking", "notReady"}]
    BY <1>4, <2>2 DEF StartSession, IInv, TypeOK
  <2>4. \A j \in Interviews \ {i} : page'[j] = page[j] /\ session'[j] = session[j]
    BY <1>4 DEF StartSession, IInv, TypeOK
  <2>5. /\ \/ UNCHANGED <<status, session>>
           \/ session'[i] = "admitted" /\ status'[i] = "active"
        /\ \A j \in Interviews \ {i} : status'[j] = status[j]
    BY <1>4 DEF StartSession, IInv, TypeOK
  <2>6. InterviewsOK'
    BY <1>3, <2>1, <2>4, <2>5 DEF IInv, InterviewsOK, PageOK, SessionOK
  <2> QED
    BY <1>1, <1>2, <2>3, <2>6, FrontInv
<1>5. CASE LeavePage(i)
  <2>1. UNCHANGED <<status, session>> /\ page' = [page EXCEPT ![i] = Away]
    BY <1>5 DEF LeavePage
  <2>2. page' \in [Interviews -> Page]
    BY <2>1 DEF IInv, TypeOK, Away, Page, Screens
  <2>3. \A j \in Interviews : page'[j].shows = page[j].shows \/ page'[j].shows = "away"
    BY <2>1 DEF IInv, TypeOK, Away
  <2>4. InterviewsOK'
    BY <1>3, <2>1, <2>3 DEF IInv, InterviewsOK, PageOK, SessionOK
  <2> QED
    BY <1>1, <1>2, <2>1, <2>2, <2>4, FrontInv DEF IInv, TypeOK
<1>6. CASE LoadPlan(i)
  <2>1. IsReady(i) /\ status[i] = "active" /\ UNCHANGED <<status, page>>
    BY <1>6 DEF LoadPlan, IInv, InterviewsOK, SessionOK
  <2>2. session' = [session EXCEPT ![i] = "asking"]
    BY <1>6, <2>1 DEF LoadPlan, IsReady
  <2>3. session'[i] = "asking" /\ \A j \in Interviews \ {i} : session'[j] = session[j]
    BY <2>2 DEF IInv, TypeOK
  <2>4. InterviewsOK'
    BY <1>3, <2>1, <2>3 DEF IInv, InterviewsOK, PageOK, SessionOK
  <2> QED
    BY <1>1, <1>2, <2>1, <2>2, <2>4, FrontInv DEF IInv, TypeOK
<1> QED
  BY <1>4, <1>5, <1>6

\* Core API answers a page.
LEMMA AnswerFacts ==
  ASSUME IInv, NEW q \in Requests, NEW answer \in Answers, Answer(q, answer),
         api[q].pc # "idle", answer = "ready" => IsReady(api[q].interview), UNCHANGED plan
  PROVE  api' \in [Requests -> Request] /\ RequestsOK'
<1>1. api[q] \in Request
  BY DEF IInv, TypeOK
<1>2. PICK r : r = [api[q] EXCEPT !.pc = "answer", !.answer = answer]
  OBVIOUS
<1>3. /\ r \in Request /\ r.interview = api[q].interview
      /\ r.pc = "answer" /\ r.answer = answer
  BY <1>1, <1>2 DEF Request
<1>4. api' = [api EXCEPT ![q] = r]
  BY <1>2 DEF Answer
<1>5. api' \in [Requests -> Request]
  BY <1>3, <1>4 DEF IInv, TypeOK
<1>6. RequestsOK'
  BY <1>3, <1>4 DEF IInv, TypeOK, RequestsOK, RequestOK, IsReady
<1> QED
  BY <1>5, <1>6

\* Core API reads the plan.
LEMMA ReadPlanInv ==
  ASSUME IInv, NEW q \in Requests, ReadPlan(q) \/ ReadPlanFails(q)
  PROVE  IInv'
<1>1. /\ UNCHANGED <<status, page, queue, plan, worker, session>>
      /\ api[q].pc = "read" /\ api[q] \in Request /\ api[q].interview \in Interviews
  BY DEF ReadPlan, ReadPlanFails, IInv, TypeOK, RequestsOK, RequestOK
<1>2. FrontStep
  BY <1>1, FaultCounts DEF FrontStep, ReadPlan, ReadPlanFails, IInv, TypeOK
<1>3. api' \in [Requests -> Request] /\ RequestsOK'
  <2>1. CASE api' = [api EXCEPT ![q].pc = "send"]
    <3>1. PICK r : r = [api[q] EXCEPT !.pc = "send"] /\ api' = [api EXCEPT ![q] = r]
      BY <2>1
    <3>2. /\ r \in Request /\ r.interview = api[q].interview
          /\ r.pc = "send" /\ r.answer = api[q].answer
      BY <1>1, <3>1 DEF Request
    <3> QED
      BY <1>1, <3>1, <3>2 DEF IInv, TypeOK, RequestsOK, RequestOK, IsReady
  <2>2. CASE Answer(q, "unreachable")
    BY <1>1, <2>2, AnswerFacts DEF Answers
  <2>3. CASE Answer(q, Shown(plan[api[q].interview]))
    <3>1. PICK row \in PlanRow : row = plan[api[q].interview]
      BY <1>1 DEF IInv, TypeOK
    <3>2. PICK answer : answer = Shown(row)
      OBVIOUS
    <3>3. answer \in Answers /\ (answer = "ready" => row.status = "ready")
      BY <3>1, <3>2 DEF Shown, PlanRow, Answers
    <3> QED
      BY <1>1, <2>3, <3>1, <3>2, <3>3, AnswerFacts DEF IsReady
  <2> QED
    BY <2>1, <2>2, <2>3 DEF ReadPlan, ReadPlanFails
<1>4. InterviewsOK'
  BY <1>1 DEF IInv, InterviewsOK, PageOK, SessionOK, IsReady
<1> QED
  BY <1>1, <1>2, <1>3, <1>4, FrontInv DEF IInv, TypeOK

\* A job fills one slot.
LEMMA JobArrives ==
  ASSUME NEW q, WellFormed(q, Slots, Interviews), NEW m \in Slots, NEW i \in Interviews
  PROVE  /\ WellFormed(Put(q, {m}, i), Slots, Interviews)
         /\ \A n \in Slots \ {m} : Put(q, {m}, i)[n] = q[n]
<1>1. PICK S \in SUBSET Slots : S = {m}
  OBVIOUS
<1>2. /\ WellFormed(Put(q, S, i), Slots, Interviews)
      /\ \A n \in Slots \ S : Put(q, S, i)[n] = q[n]
  BY PutFacts
<1> QED
  BY <1>1, <1>2

\* A job arrives, or gets lost.
LEMMA SendPlanJobInv ==
  ASSUME IInv, NEW q \in Requests, SendPlanJob(q) \/ SendPlanJobFails(q)
  PROVE  IInv'
<1>1. /\ UNCHANGED <<status, page, plan, worker, session>>
      /\ api[q].pc = "send" /\ api[q].interview \in Interviews
  BY DEF SendPlanJob, SendPlanJobFails, IInv, RequestsOK, RequestOK
<1>2. faults' \in 0..MaxFaults
  BY FaultCounts DEF SendPlanJob, SendPlanJobFails, IInv, TypeOK
<1>3. api' \in [Requests -> Request] /\ RequestsOK'
  <2>1. PICK answer \in {"preparing", "unreachable"} : Answer(q, answer)
    BY DEF SendPlanJob, SendPlanJobFails
  <2> QED
    BY <1>1, <2>1, AnswerFacts DEF Answers
<1>4. InterviewsOK'
  BY <1>1 DEF IInv, InterviewsOK, PageOK, SessionOK, IsReady
<1>5. CASE UNCHANGED queue
  BY <1>1, <1>2, <1>3, <1>4, <1>5, FrontInv DEF IInv, TypeOK, FrontStep
<1>6. CASE Sent(q)
  <2>1. PICK i \in Interviews : i = api[q].interview
    BY <1>1
  <2>2. PICK m \in FreeSlots(queue) : queue' = Put(queue, {m}, i)
    BY <1>6, <2>1 DEF Sent
  <2>3. m \in Slots /\ queue[m].st = "free"
    BY <2>2 DEF FreeSlots, IInv, QueueOK, WellFormed
  <2>4. QueueOK' /\ \A n \in Slots \ {m} : queue'[n] = queue[n]
    <3>1. PICK old : old = queue /\ WellFormed(old, Slots, Interviews)
      BY DEF IInv, QueueOK
    <3>2. PICK new : new = Put(old, {m}, i)
      OBVIOUS
    <3>3. WellFormed(new, Slots, Interviews) /\ \A n \in Slots \ {m} : new[n] = old[n]
      <4>1. i \in Interviews /\ m \in Slots
        BY <2>1, <2>3
      <4>2. /\ WellFormed(Put(old, {m}, i), Slots, Interviews)
            /\ \A n \in Slots \ {m} : Put(old, {m}, i)[n] = old[n]
        BY <3>1, <4>1, JobArrives
      <4> QED
        BY <3>2, <4>2
    <3>4. queue' = new
      BY <2>2, <3>1, <3>2
    <3> QED
      BY <3>1, <3>3, <3>4 DEF QueueOK
  <2>5. TypeOK'
    BY <1>1, <1>2, <1>3, <2>4 DEF IInv, TypeOK, QueueOK, WellFormed
  <2>6. WorkerOK' /\ (~At("idle") => InHand' = InHand)
    BY <1>1, <2>3, <2>4 DEF IInv, WorkerOK, At, InHand
  <2>7. Attended'
    <3>1. \A j \in Interviews : Waits(j) => Waits(j)'
      BY <2>3, <2>4 DEF Waits
    <3>2. \A j \in Interviews : Serves(j) => Serves(j)'
      BY <1>1, <2>6 DEF Serves, At
    <3> QED
      BY <1>1, <3>1, <3>2 DEF IInv, Attended
  <2> QED
    BY <1>3, <1>4, <2>4, <2>5, <2>6, <2>7 DEF IInv
<1> QED
  BY <1>5, <1>6 DEF SendPlanJob, SendPlanJobFails

-----------------------------------------------------------------------------
(* The worker's steps *)

\* A ready plan stays as it is.
PlansKept ==
  /\ plan' \in [Interviews -> PlanRow]
  /\ \A i \in Interviews : IsReady(i) => plan'[i] = plan[i]

\* Only the interview of the job in hand may begin to be planned.
BegunInHand ==
  \A i \in Interviews :
    plan'[i].status = "generating" => plan[i].status = "generating" \/ i = InHand

\* A claim restarts a plan that is new or failed.
LEMMA ClaimedFacts ==
  ASSUME IInv, ~At("idle"), Claimed(InHand)
  PROVE  PlansKept /\ BegunInHand
<1>1. PICK i \in Interviews : i = InHand /\ Claimed(i)
  BY InHandFacts
<1>2. Fresh("generating") \in PlanRow
  BY DEF Fresh, PlanRow
<1>3. plan' \in [Interviews -> PlanRow]
  BY <1>1, <1>2 DEF Claimed, IInv, TypeOK
<1>4. \A j \in Interviews : plan'[j] = plan[j] \/ (j = i /\ Claimable(i))
  BY <1>1 DEF Claimed, IInv, TypeOK
<1> QED
  BY <1>1, <1>3, <1>4 DEF PlansKept, BegunInHand, IsReady, Claimable

\* An outcome settles a generating plan, and changes no other.
LEMMA SettledFacts ==
  ASSUME IInv, ~At("idle"), NEW row \in PlanRow, row.status # "generating",
         Settled(InHand, row)
  PROVE  PlansKept /\ BegunInHand /\ plan'[InHand].status # "generating"
<1>1. PICK i \in Interviews : i = InHand /\ Settled(i, row)
  BY InHandFacts
<1>2. plan' \in [Interviews -> PlanRow]
  BY <1>1 DEF Settled, IInv, TypeOK
<1>3. /\ \A j \in Interviews \ {i} : plan'[j] = plan[j]
      /\ plan'[i] = IF plan[i].status = "generating" THEN row ELSE plan[i]
  BY <1>1 DEF Settled, IInv, TypeOK
<1> QED
  BY <1>1, <1>2, <1>3 DEF PlansKept, BegunInHand, IsReady

\* What the front and the sessions know of ready plans stays true.
LEMMA KnownStaysTrue ==
  ASSUME IInv, PlansKept, UNCHANGED <<status, api, page, session>>
  PROVE  RequestsOK' /\ InterviewsOK'
<1>1. \A i \in Interviews : IsReady(i) => IsReady(i)'
  BY DEF PlansKept, IsReady
<1> QED
  BY <1>1 DEF IInv, RequestsOK, RequestOK, InterviewsOK, PageOK, SessionOK

\* The worker goes on with the job in hand.
LEMMA HandlingInv ==
  ASSUME IInv, UNCHANGED <<status, api, page, queue, session>>,
         ~At("idle"), worker' \in Worker, worker'.pc # "idle", worker'.msg = worker.msg,
         faults' \in 0..MaxFaults, PlansKept, BegunInHand,
         worker.pc = "delete" => plan' = plan /\ worker'.pc = "delete",
         worker'.pc = "delete" => plan'[InHand].status # "generating"
  PROVE  IInv'
<1>1. TypeOK' /\ QueueOK' /\ WorkerOK'
  BY DEF IInv, TypeOK, PlansKept, QueueOK, WorkerOK, At
<1>2. InHand' = InHand
  BY DEF InHand
<1>3. Attended'
  <2> SUFFICES ASSUME NEW i \in Interviews, plan'[i].status = "generating", i # InHand
               PROVE  Waits(i)'
    BY <1>2 DEF Attended, Serves
  <2>1. Waits(i)
    BY DEF BegunInHand, IInv, Attended, Serves
  <2> QED
    BY <2>1 DEF Waits
<1> QED
  BY <1>1, <1>3, KnownStaysTrue DEF IInv

\* The job goes back to the queue.
LEMMA ReturnInv ==
  ASSUME IInv, UNCHANGED <<status, api, page, session>>, ~At("idle"),
         queue' = Return(queue, worker.msg), worker' = Idle,
         faults' \in 0..MaxFaults, PlansKept, BegunInHand
  PROVE  IInv'
<1>1. PICK m \in Slots : m = worker.msg /\ queue[m].st = "inflight" /\ InHand = queue[m].body
  BY InHandFacts DEF InHand
<1>2. /\ QueueOK' /\ queue'[m].st \in {"visible", "dead"} /\ queue'[m].body = InHand
      /\ \A n \in Slots \ {m} : queue'[n] = queue[n]
  <2>1. PICK old : old = queue /\ WellFormed(old, Slots, Interviews)
    BY DEF IInv, QueueOK
  <2>2. PICK new : new = Return(old, m)
    OBVIOUS
  <2>3. /\ WellFormed(new, Slots, Interviews)
        /\ new[m].st \in {"visible", "dead"} /\ new[m].body = old[m].body
        /\ \A n \in Slots \ {m} : new[n] = old[n]
    BY <1>1, <2>1, <2>2, ReturnFacts
  <2>4. queue' = new
    BY <1>1, <2>1, <2>2
  <2> QED
    BY <1>1, <2>1, <2>3, <2>4 DEF QueueOK
<1>3. Idle \in Worker
  BY DEF Idle, Worker, PcValues
<1>4. TypeOK' /\ WorkerOK'
  BY <1>2, <1>3 DEF IInv, TypeOK, QueueOK, WellFormed, PlansKept, WorkerOK, At, Idle
<1>5. Attended'
  <2> SUFFICES ASSUME NEW i \in Interviews, plan'[i].status = "generating"
               PROVE  Waits(i)'
    BY DEF Attended
  <2>1. Waits(i) \/ i = InHand
    BY DEF BegunInHand, IInv, Attended, Serves
  <2> QED
    BY <1>1, <1>2, <2>1 DEF Waits
<1> QED
  BY <1>2, <1>4, <1>5, KnownStaysTrue DEF IInv

\* A job is taken.
LEMMA ReceiveInv ==
  ASSUME IInv, NEW m \in Slots, ReceiveJob(m)
  PROVE  IInv'
<1>1. /\ UNCHANGED <<status, api, page, plan, session, faults>>
      /\ worker.pc = "idle" /\ queue[m].st = "visible"
  BY DEF ReceiveJob, At
<1>2. /\ QueueOK' /\ queue'[m].st = "inflight" /\ queue'[m].body = queue[m].body
      /\ \A n \in Slots \ {m} : queue'[n] = queue[n]
  <2>1. PICK old : old = queue /\ WellFormed(old, Slots, Interviews)
    BY DEF IInv, QueueOK
  <2>2. PICK new : new = Receive(old, m)
    OBVIOUS
  <2>3. /\ WellFormed(new, Slots, Interviews)
        /\ new[m].st = "inflight" /\ new[m].body = old[m].body
        /\ \A n \in Slots \ {m} : new[n] = old[n]
    BY <1>1, <2>1, <2>2, ReceiveFacts
  <2>4. queue' = new
    BY <2>1, <2>2 DEF ReceiveJob
  <2> QED
    BY <2>1, <2>3, <2>4 DEF QueueOK
<1>3. worker' \in Worker /\ worker'.pc = "claim" /\ worker'.msg = m
  <2>1. worker' = [pc |-> "claim", msg |-> m, attempt |-> 0, retryable |-> FALSE]
    BY DEF ReceiveJob, Idle
  <2> QED
    BY <2>1 DEF Worker, PcValues
<1>4. PlansKept
  BY <1>1 DEF PlansKept, IInv, TypeOK
<1>5. TypeOK' /\ WorkerOK'
  BY <1>1, <1>2, <1>3 DEF IInv, TypeOK, QueueOK, WellFormed, WorkerOK, At
<1>6. Attended'
  <2>1. InHand' = queue[m].body
    BY <1>2, <1>3 DEF InHand
  <2>2. \A i \in Interviews : Waits(i) => Waits(i)' \/ i = InHand'
    BY <1>2, <2>1 DEF Waits
  <2> QED
    BY <1>1, <1>3, <2>2 DEF IInv, Attended, Serves
<1> QED
  BY <1>1, <1>2, <1>4, <1>5, <1>6, KnownStaysTrue DEF IInv

\* A job is deleted only once its plan is settled.
LEMMA DeleteInv ==
  ASSUME IInv, DeleteJob
  PROVE  IInv'
<1>1. /\ UNCHANGED <<status, api, page, plan, session, faults>>
      /\ worker.pc = "delete" /\ ~At("idle") /\ worker' = Idle
  BY DEF DeleteJob, At
<1>2. PICK m \in Slots : m = worker.msg /\ queue[m].st = "inflight"
  BY <1>1, InHandFacts
<1>3. QueueOK' /\ \A n \in Slots \ {m} : queue'[n] = queue[n]
  <2>1. PICK old : old = queue /\ WellFormed(old, Slots, Interviews)
    BY DEF IInv, QueueOK
  <2>2. PICK new : new = Delete(old, m)
    OBVIOUS
  <2>3. WellFormed(new, Slots, Interviews) /\ \A n \in Slots \ {m} : new[n] = old[n]
    BY <2>1, <2>2, DeleteFacts
  <2>4. queue' = new
    BY <1>2, <2>1, <2>2 DEF DeleteJob
  <2> QED
    BY <2>1, <2>3, <2>4 DEF QueueOK
<1>4. Idle \in Worker /\ PlansKept
  BY <1>1 DEF Idle, Worker, PcValues, PlansKept, IInv, TypeOK
<1>5. TypeOK' /\ WorkerOK'
  BY <1>1, <1>3, <1>4 DEF IInv, TypeOK, QueueOK, WellFormed, WorkerOK, At, Idle
<1>6. Attended'
  <2>1. \A i \in Interviews : Waits(i) => Waits(i)'
    BY <1>2, <1>3 DEF Waits
  <2> QED
    BY <1>1, <2>1 DEF IInv, Attended, Serves
<1> QED
  BY <1>1, <1>3, <1>4, <1>5, <1>6, KnownStaysTrue DEF IInv

\* What the two ways to fail a plan store.
LEMMA OutcomeRows ==
  ASSUME NEW r \in BOOLEAN
  PROVE  /\ Fresh("ready") \in PlanRow /\ Fresh("ready").status = "ready"
         /\ Failed(r) \in PlanRow /\ Failed(r).status = "failed"
BY DEF Fresh, Failed, PlanRow

\* Plans that do not change.
LEMMA SamePlans ==
  ASSUME IInv, UNCHANGED plan
  PROVE  PlansKept /\ BegunInHand
BY DEF PlansKept, BegunInHand, IInv, TypeOK

\* The steps that handle a job, but for its deletion.
LEMMA HandleInv ==
  ASSUME IInv,
         \/ ClaimPlan \/ CheckPlan \/ WritePlan \/ NothingToAsk \/ SavePlan \/ FailPlan
         \/ WritePlanFails \/ PlanningStatementFails
  PROVE  IInv'
<1>1. /\ UNCHANGED <<status, api, page, queue, session>>
      /\ worker.pc \notin {"idle", "delete"} /\ ~At("idle") /\ worker \in Worker
  BY DEF ClaimPlan, CheckPlan, WritePlan, NothingToAsk, SavePlan, FailPlan, WritePlanFails,
         PlanningStatementFails, At, IInv, TypeOK
<1>2. faults' \in 0..MaxFaults
  <2>1. CASE WritePlanFails \/ PlanningStatementFails
    BY <2>1, FaultCounts DEF WritePlanFails, PlanningStatementFails
  <2> QED
    BY <2>1
    DEF ClaimPlan, CheckPlan, WritePlan, NothingToAsk, SavePlan, FailPlan, IInv, TypeOK
<1>3. worker' \in Worker /\ worker'.pc # "idle" /\ worker'.msg = worker.msg
  <2>1. /\ worker.attempt \in 0..2 /\ worker.retryable \in BOOLEAN
        /\ (worker.attempt < 2 => worker.attempt + 1 \in 0..2)
    BY <1>1 DEF Worker
  <2>2. CASE ClaimPlan
    BY <1>1, <2>2 DEF ClaimPlan, Goto, PcValues, Worker
  <2>3. CASE CheckPlan
    <3>1. \/ worker' = [worker EXCEPT !.pc = "attempt", !.attempt = 1]
          \/ worker' = [worker EXCEPT !.pc = "delete"]
      BY <2>3 DEF CheckPlan
    <3>2. 1 \in 0..2 /\ {"attempt", "delete"} \subseteq PcValues
      BY DEF PcValues
    <3> QED
      BY <1>1, <3>1, <3>2 DEF Worker
  <2>4. CASE WritePlan \/ SavePlan \/ FailPlan
    BY <1>1, <2>4 DEF WritePlan, SavePlan, FailPlan, Goto, PcValues, Worker
  <2>5. CASE NothingToAsk \/ PlanningStatementFails
    <3>1. PICK r \in BOOLEAN : GiveUp(r)
      BY <2>5 DEF NothingToAsk, PlanningStatementFails
    <3> QED
      BY <1>1, <3>1 DEF GiveUp, PcValues, Worker
  <2>6. CASE WritePlanFails
    BY <1>1, <2>1, <2>6 DEF WritePlanFails, GiveUp, PcValues, Worker, At
  <2> QED
    BY <2>2, <2>3, <2>4, <2>5, <2>6
<1>4. /\ PlansKept /\ BegunInHand
      /\ worker'.pc = "delete" => plan'[InHand].status # "generating"
  <2>1. CASE ClaimPlan
    BY <1>1, <2>1, ClaimedFacts DEF ClaimPlan, Goto, Worker
  <2>2. CASE CheckPlan
    BY <1>1, <2>2, SamePlans DEF CheckPlan, Worker
  <2>3. CASE UNCHANGED plan /\ worker'.pc # "delete"
    BY <2>3, SamePlans
  <2>4. CASE SavePlan
    BY <1>1, <2>4, SettledFacts, OutcomeRows DEF SavePlan
  <2>5. CASE FailPlan
    BY <1>1, <2>5, SettledFacts, OutcomeRows DEF FailPlan, Worker
  <2>6. CASE PlanningStatementFails
    <3>1. worker'.pc = "fail"
      BY <1>1, <2>6 DEF PlanningStatementFails, GiveUp, Worker
    <3>2. UNCHANGED plan \/ Settled(InHand, Fresh("ready"))
      BY <2>6 DEF PlanningStatementFails
    <3> QED
      BY <1>1, <3>1, <3>2, SamePlans, SettledFacts, OutcomeRows
  <2>7. CASE WritePlan \/ NothingToAsk \/ WritePlanFails
    BY <1>1, <2>3, <2>7
    DEF WritePlan, NothingToAsk, WritePlanFails, Goto, GiveUp, Worker, At
  <2> QED
    BY <2>1, <2>2, <2>4, <2>5, <2>6, <2>7
<1> QED
  BY <1>1, <1>2, <1>3, <1>4, HandlingInv

\* The handler raises, or the process stops.
LEMMA StopInv ==
  ASSUME IInv, HandlerRaises \/ WorkerDies
  PROVE  IInv'
<1>1. /\ UNCHANGED <<status, api, page, session>> /\ ~At("idle")
      /\ queue' = Return(queue, worker.msg) /\ worker' = Idle
  BY DEF HandlerRaises, WorkerDies, At
<1>2. faults' \in 0..MaxFaults
  BY FaultCounts DEF HandlerRaises, WorkerDies
<1>3. PlansKept /\ BegunInHand
  <2>1. worker.retryable \in BOOLEAN
    BY DEF IInv, TypeOK, Worker
  <2>2. UNCHANGED plan \/ Claimed(InHand) \/ Settled(InHand, Failed(worker.retryable))
    BY DEF HandlerRaises, WorkerDies
  <2> QED
    BY <1>1, <2>1, <2>2, SamePlans, ClaimedFacts, SettledFacts, OutcomeRows
<1> QED
  BY <1>1, <1>2, <1>3, ReturnInv

\* Every step keeps the invariant.
LEMMA NextInv == IInv /\ [Next]_vars => IInv'
<1> SUFFICES ASSUME IInv, [Next]_vars PROVE IInv'
  OBVIOUS
<1>1. CASE UNCHANGED vars
  BY <1>1
  DEF vars, IInv, TypeOK, QueueOK, WorkerOK, At, RequestsOK, RequestOK, InterviewsOK, PageOK,
      SessionOK, IsReady, Attended, Waits, Serves, InHand
<1>2. ASSUME NEW i \in Interviews, PageStep(i) \/ LoadPlan(i) PROVE IInv'
  <2>1. CASE StartSession(i) \/ LeavePage(i) \/ LoadPlan(i)
    BY <2>1, StartSessionInv
  <2>2. ASSUME NEW q \in Requests, CreateInterview(q, i) PROVE IInv'
    <3>1. /\ status' \in [Interviews -> {"none", "created", "active"}]
          /\ \A j \in Interviews : status[j] = "active" => status'[j] = "active"
      BY <2>2 DEF CreateInterview, IInv, TypeOK
    <3> QED
      BY <2>2, <3>1, CallInv DEF CreateInterview, IInv, TypeOK
  <2>3. ASSUME NEW q \in Requests, PollPlan(q, i) \/ RetryPlan(q, i) PROVE IInv'
    BY <2>3, CallInv DEF PollPlan, RetryPlan, IInv, TypeOK
  <2>4. ASSUME NEW q \in Requests, PollOvertakes(q, i) PROVE IInv'
    BY <2>4, CallInv, FaultCounts DEF PollOvertakes, IInv, TypeOK
  <2> QED
    BY <1>2, <2>1, <2>2, <2>3, <2>4 DEF PageStep
<1>3. CASE \E q \in Requests : ApiStep(q) \/ ApiFails(q)
  BY <1>3, ReadPlanInv, SendPlanJobInv, TakeAnswerInv DEF ApiStep, ApiFails
<1>4. CASE \E m \in Slots : ReceiveJob(m)
  BY <1>4, ReceiveInv
<1>5. CASE HandleJob \/ WorkerFails
  BY <1>5, HandleInv, DeleteInv, StopInv DEF HandleJob, WorkerFails
<1> QED
  BY <1>1, <1>2, <1>3, <1>4, <1>5 DEF Next

-----------------------------------------------------------------------------
\* The invariant holds in every state a run can reach.
THEOREM Invariance == Spec => []IInv
BY InitIInv, NextInv, PTL DEF Spec

\* Every state is one the documents, the queue and the page can hold.
THEOREM TypeCorrect == Spec => []TypeOK
<1>1. IInv => TypeOK
  BY DEF IInv
<1> QED
  BY <1>1, Invariance, PTL

\* No session of the live page finds its plan missing, so no token is spent
\* on one.
THEOREM PlanFound == Spec => []SessionHasPlan
<1>1. IInv => SessionHasPlan
  BY DEF IInv, InterviewsOK, SessionOK, SessionHasPlan
<1> QED
  BY <1>1, Invariance, PTL

\* A plan left `generating' has a job that will write it, or that the redrive
\* policy gave up on.
THEOREM NothingStranded == Spec => []NeverStranded
<1>1. IInv => NeverStranded
  <2> SUFFICES ASSUME IInv, NEW i \in Interviews, plan[i].status = "generating"
               PROVE  Pending(i) \/ Lost(i)
    BY DEF NeverStranded
  <2>1. DOMAIN queue = Slots
    BY DEF IInv, TypeOK
  <2>2. CASE Waits(i)
    BY <2>1, <2>2 DEF Waits, Pending, Lost, Live, Dead
  <2>3. CASE Serves(i)
    <3>1. ~At("idle")
      BY <2>3 DEF Serves, At
    <3>2. worker.msg \in Slots /\ queue[worker.msg].st = "inflight"
      BY <3>1, InHandFacts
    <3> QED
      BY <2>1, <2>3, <3>2 DEF Serves, InHand, Pending, Live
  <2> QED
    BY <2>2, <2>3 DEF IInv, Attended
<1> QED
  BY <1>1, Invariance, PTL

-----------------------------------------------------------------------------
(* The documents are the machine of PlanStatus *)

Begun == {i \in Interviews : session[i] = "asking"}

PlanSteps == \E i \in Interviews : Promises!Begin(i) \/ Promises!Finish(i)

\* A claim begins a plan.
LEMMA ClaimRefines ==
  ASSUME IInv, ~At("idle"), Claimed(InHand)
  PROVE  UNCHANGED plan \/ PlanSteps
<1>1. PICK i \in Interviews : i = InHand /\ Claimed(i)
  BY InHandFacts
<1>2. CASE Claimable(i)
  <2>1. plan' = [plan EXCEPT ![i] = Fresh("generating")]
    BY <1>1, <1>2 DEF Claimed
  <2> QED
    BY <1>2, <2>1 DEF PlanSteps, Promises!Begin, Promises!Fresh, Fresh, Claimable
<1>3. CASE ~Claimable(i)
  BY <1>1, <1>3 DEF Claimed, IInv, TypeOK
<1> QED
  BY <1>2, <1>3

\* An outcome settles a generating plan, and changes no other.
LEMMA SettleRefines ==
  ASSUME IInv, ~At("idle"), NEW r \in BOOLEAN, NEW row \in {Fresh("ready"), Failed(r)},
         Settled(InHand, row)
  PROVE  UNCHANGED plan \/ PlanSteps
<1>1. PICK i \in Interviews : i = InHand /\ Settled(i, row)
  BY InHandFacts
<1>2. CASE plan[i].status = "generating"
  <2>1. plan' = [plan EXCEPT ![i] = row]
    BY <1>1, <1>2 DEF Settled
  <2>2. \/ plan' = [plan EXCEPT ![i] = Promises!Fresh("ready")]
        \/ plan' = [plan EXCEPT ![i] = [status |-> "failed", retryable |-> r]]
    BY <2>1 DEF Promises!Fresh, Fresh, Failed
  <2> QED
    BY <1>2, <2>2 DEF PlanSteps, Promises!Finish
<1>3. CASE plan[i].status # "generating"
  BY <1>1, <1>3 DEF Settled, IInv, TypeOK
<1> QED
  BY <1>2, <1>3

\* A ready plan never changes, whatever comes late, twice or half done, and a
\* session asks from no other.
THEOREM Refinement == Spec => KeepsPromises
<1>1. Init => Promises!Init
  BY DEF Init, Promises!Init, Promises!Fresh, Fresh
<1>2. IInv /\ [Next]_vars => [Promises!Next]_(Promises!vars)
  <2> SUFFICES ASSUME IInv, [Next]_vars
               PROVE  \/ UNCHANGED <<plan, Begun>>
                      \/ UNCHANGED Begun /\ PlanSteps
                      \/ UNCHANGED plan /\ \E i \in Interviews : Promises!Use(i)
    BY DEF Promises!Next, Promises!vars, Begun, PlanSteps
  <2>1. CASE UNCHANGED <<plan, session>>
    BY <2>1 DEF Begun
  <2>2. ASSUME NEW i \in Interviews, LoadPlan(i)
        PROVE  UNCHANGED plan /\ Promises!Use(i)
    <3>1. IsReady(i) /\ session' = [session EXCEPT ![i] = "asking"] /\ UNCHANGED plan
      BY <2>2 DEF LoadPlan, IInv, InterviewsOK, SessionOK, IsReady
    <3>2. Begun' = Begun \cup {i}
      BY <3>1 DEF Begun, IInv, TypeOK
    <3> QED
      BY <3>1, <3>2 DEF Promises!Use, IsReady, Begun
  <2>3. ASSUME NEW i \in Interviews, StartSession(i)
        PROVE  UNCHANGED <<plan, Begun>>
    <3>1. /\ UNCHANGED plan
          /\ UNCHANGED session \/ session' = [session EXCEPT ![i] = "admitted"]
          /\ session[i] = "none" \/ UNCHANGED session
      BY <2>3 DEF StartSession, IInv, InterviewsOK, SessionOK
    <3> QED
      BY <3>1 DEF Begun, IInv, TypeOK
  <2>4. ASSUME HandleJob \/ WorkerFails, ~UNCHANGED plan
        PROVE  UNCHANGED Begun /\ PlanSteps
    <3>1. /\ UNCHANGED session /\ ~At("idle")
          /\ \/ Claimed(InHand)
             \/ Settled(InHand, Fresh("ready"))
             \/ Settled(InHand, Failed(worker.retryable))
      BY <2>4
      DEF HandleJob, WorkerFails, ClaimPlan, CheckPlan, WritePlan, NothingToAsk, SavePlan,
          FailPlan, DeleteJob, WritePlanFails, PlanningStatementFails, HandlerRaises, WorkerDies,
          At
    <3>2. worker.retryable \in BOOLEAN
      BY DEF IInv, TypeOK, Worker
    <3>3. UNCHANGED Begun
      BY <3>1 DEF Begun
    <3> QED
      BY <2>4, <3>1, <3>2, <3>3, ClaimRefines, SettleRefines
  <2>5. ASSUME HandleJob \/ WorkerFails PROVE UNCHANGED session
    BY <2>5
    DEF HandleJob, WorkerFails, ClaimPlan, CheckPlan, WritePlan, NothingToAsk, SavePlan,
        FailPlan, DeleteJob, WritePlanFails, PlanningStatementFails, HandlerRaises, WorkerDies
  <2>6. ASSUME NEW i \in Interviews, PageStep(i)
        PROVE  UNCHANGED <<plan, session>> \/ StartSession(i)
    BY <2>6
    DEF PageStep, CreateInterview, PollPlan, PollOvertakes, RetryPlan, LeavePage, Call
  <2>7. ASSUME NEW q \in Requests, ApiStep(q) \/ ApiFails(q)
        PROVE  UNCHANGED <<plan, session>>
    BY <2>7
    DEF ApiStep, ApiFails, ReadPlan, SendPlanJob, TakeAnswer, ReadPlanFails, SendPlanJobFails
  <2> QED
    BY <2>1, <2>2, <2>3, <2>4, <2>5, <2>6, <2>7 DEF Next, vars, ReceiveJob
<1> QED
  BY <1>1, <1>2, Invariance, PTL DEF Spec, KeepsPromises, Promises!Spec
=============================================================================
