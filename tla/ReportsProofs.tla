--------------------------- MODULE ReportsProofs ---------------------------
(***************************************************************************)
(* A report tells the truth about its session, is never left generating    *)
(* with nobody to finish it, and keeps to ReportStatus, for any number of  *)
(* interviews, requests and messages and any number of faults.             *)
(***************************************************************************)
EXTENDS Reports, SqsQueueProofs

Over == {i \in Interviews : session[i] \in Outcomes \/ status[i] \in Outcomes}

\* What a message says of an interview is so.
Honest(ask) ==
  /\ ask.interview \in Over
  /\ ask.outcome = "completed" => session[ask.interview] = "completed"

QueuesOK == \A p \in Pollers : WellFormed(queue[p], Slots, ReportRequest)

AsksHonest ==
  \A p \in Pollers, m \in Slots : queue[p][m].st # "free" => Honest(queue[p][m].body)

\* A poller keeps the message it handles in flight.
WorkersOK ==
  \A p \in Pollers :
    ~At(p, "idle") => worker[p].msg \in Slots /\ queue[p][worker[p].msg].st = "inflight"

StatusTrue == \A i \in Interviews : status[i] = "completed" => session[i] = "completed"

RequestsOK == \A q \in Requests : api[q] # NoBody => status[api[q]] \in Outcomes

RowTrue(i) ==
  report[i].status # "none" =>
    i \in Over /\ (~report[i].partial => session[i] = "completed")

RowsTrue == \A i \in Interviews : RowTrue(i)

Waits(p, i) ==
  \E m \in Slots : queue[p][m].st \in {"visible", "dead"} /\ queue[p][m].body.interview = i

Serves(p, i) == worker[p].pc \notin {"idle", "delete"} /\ InHand(p).interview = i

\* Somebody will settle a generating row, or its message is dead.
Attended ==
  \A i \in Interviews :
    report[i].status = "generating" => \E p \in Pollers : Waits(p, i) \/ Serves(p, i)

IInv ==
  /\ TypeOK
  /\ QueuesOK
  /\ AsksHonest
  /\ WorkersOK
  /\ StatusTrue
  /\ RequestsOK
  /\ RowsTrue
  /\ Attended

-----------------------------------------------------------------------------
LEMMA InitIInv == Init => IInv
<1> SUFFICES ASSUME Init PROVE IInv
  OBVIOUS
<1>1. QueuesOK /\ \A p \in Pollers : queue[p] = EmptyQueue(Slots)
  BY EmptyQueueWellFormed DEF Init, QueuesOK
<1>2. queue \in [Pollers -> [Slots -> Message(ReportRequest)]]
  BY <1>1 DEF Init, QueuesOK, WellFormed
<1>3. /\ status = [i \in Interviews |-> "none"]
      /\ session = [i \in Interviews |-> "none"]
  BY DEF Init, Interview!Init
<1>4. TypeOK
  BY <1>2, <1>3, ReportsAssumption
  DEF Init, TypeOK, InterviewStatuses, Sessions, ReportRow, PcValues, Idle
<1>5. AsksHonest
  BY <1>1 DEF AsksHonest, EmptyQueue, Free
<1>6. WorkersOK /\ StatusTrue /\ RequestsOK /\ RowsTrue /\ Attended
  BY <1>3 DEF Init, WorkersOK, At, Idle, StatusTrue, RequestsOK, RowsTrue, RowTrue, Attended
<1> QED
  BY <1>1, <1>4, <1>5, <1>6 DEF IInv

\* The message a poller handles is a request, and an honest one.
LEMMA InHandFacts ==
  ASSUME IInv, NEW p \in Pollers, ~At(p, "idle")
  PROVE  /\ worker[p].msg \in Slots
         /\ queue[p][worker[p].msg].st = "inflight"
         /\ InHand(p) \in ReportRequest
         /\ Honest(InHand(p))
<1>1. worker[p].msg \in Slots /\ queue[p][worker[p].msg].st = "inflight"
  BY DEF IInv, WorkersOK
<1>2. queue[p][worker[p].msg].body \in ReportRequest
  BY <1>1 DEF IInv, QueuesOK, WellFormed
<1>3. Honest(queue[p][worker[p].msg].body)
  BY <1>1 DEF IInv, AsksHonest
<1> QED
  BY <1>1, <1>2, <1>3 DEF InHand

-----------------------------------------------------------------------------
(* The interview's own steps *)

\* A session that is over stays as it is, and so does an ended interview.
LEMMA InterviewFacts ==
  ASSUME IInv, InterviewStep
  PROVE  /\ Over \subseteq Over'
         /\ \A i \in Interviews : session[i] = "completed" => session'[i] = "completed"
         /\ \A i \in Interviews : status[i] \in Outcomes => status'[i] = status[i]
         /\ StatusTrue'
<1> SUFFICES ASSUME NEW i \in Interviews
             PROVE  /\ i \in Over => i \in Over'
                    /\ session[i] = "completed" => session'[i] = "completed"
                    /\ status[i] \in Outcomes => status'[i] = status[i]
                    /\ status'[i] = "completed" => session'[i] = "completed"
  BY DEF StatusTrue, Over
<1>1. \/ Interview!Stays(i)
      \/ Interview!Create(i)
      \/ Interview!Begin(i)
      \/ Interview!Play(i)
      \/ Interview!Finish(i)
      \/ Interview!Complete(i)
      \/ Interview!Interrupt(i)
  BY DEF InterviewStep, Interview!Next
<1>2. status[i] = "completed" => session[i] = "completed"
  BY DEF IInv, StatusTrue
<1>3. \/ status'[i] = status[i] /\ session'[i] = session[i]
      \/ status[i] \notin Outcomes /\ session[i] \notin Outcomes /\ status'[i] # "completed"
      \/ status[i] = "active" /\ session'[i] = session[i]
           /\ (status'[i] = "completed" => session[i] = "completed")
           /\ status'[i] \in Outcomes
      \/ status[i] = "created" /\ status'[i] = "active" /\ session'[i] = session[i]
      \/ status[i] = "none" /\ status'[i] = "created" /\ session'[i] = session[i]
  BY <1>1
  DEF Interview!Stays, Interview!Create, Interview!Begin, Interview!Play, Interview!Finish,
      Interview!Complete, Interview!Interrupt, Interview!Becomes, Interview!Comes, Outcomes
<1> QED
  BY <1>2, <1>3 DEF Over, Outcomes

\* What is said of a session that is over stays true.
LEMMA InterviewStepInv ==
  ASSUME IInv, InterviewStep
  PROVE  IInv'
<1>1. UNCHANGED <<told, api, queue, report, worker, faults>>
  BY DEF InterviewStep
<1>2. status' \in [Interviews -> InterviewStatuses] /\ session' \in [Interviews -> Sessions]
  BY DEF InterviewStep
<1>3. TypeOK' /\ QueuesOK' /\ WorkersOK' /\ Attended'
  BY <1>1, <1>2
  DEF IInv, TypeOK, QueuesOK, WorkersOK, At, Attended, Waits, Serves, InHand
<1>4. \A ask \in ReportRequest : Honest(ask) => Honest(ask)'
  BY InterviewFacts DEF Honest, ReportRequest
<1>5. AsksHonest'
  BY <1>1, <1>4 DEF IInv, AsksHonest, QueuesOK, WellFormed
<1>6. RowsTrue' /\ RequestsOK'
  BY <1>1, InterviewFacts DEF IInv, RowsTrue, RowTrue, RequestsOK, TypeOK
<1> QED
  BY <1>3, <1>5, <1>6, InterviewFacts DEF IInv

-----------------------------------------------------------------------------
(* Messages arrive *)

\* Copies of a request fill free slots and no other.
LEMMA ArrivalFacts ==
  ASSUME NEW q, WellFormed(q, Slots, ReportRequest),
         NEW S \in SUBSET FreeSlots(q), NEW ask \in ReportRequest
  PROVE  /\ WellFormed(Put(q, S, ask), Slots, ReportRequest)
         /\ \A m \in Slots :
              \/ Put(q, S, ask)[m] = q[m]
              \/ q[m].st = "free" /\ Put(q, S, ask)[m].body = ask
<1>1. S \in SUBSET Slots /\ \A m \in S : q[m].st = "free"
  BY DEF FreeSlots, WellFormed
<1> QED
  BY <1>1, PutFacts

Arrives(p, ask) ==
  \E new :
    /\ queue' = [queue EXCEPT ![p] = new]
    /\ WellFormed(new, Slots, ReportRequest)
    /\ \A m \in Slots :
         new[m] = queue[p][m] \/ (queue[p][m].st = "free" /\ new[m].body = ask)

\* A send is an arrival.
LEMMA PutArrives ==
  ASSUME IInv, NEW p \in Pollers, NEW S \in SUBSET FreeSlots(queue[p]),
         NEW ask \in ReportRequest, queue' = [queue EXCEPT ![p] = Put(queue[p], S, ask)]
  PROVE  Arrives(p, ask)
<1>1. PICK q : q = queue[p] /\ WellFormed(q, Slots, ReportRequest) /\ S \in SUBSET FreeSlots(q)
  BY DEF IInv, QueuesOK
<1>2. PICK new : new = Put(queue[p], S, ask)
  OBVIOUS
<1>3. /\ WellFormed(new, Slots, ReportRequest)
      /\ \A m \in Slots : new[m] = q[m] \/ (q[m].st = "free" /\ new[m].body = ask)
  <2>1. new = Put(q, S, ask)
    BY <1>1, <1>2
  <2>2. /\ WellFormed(Put(q, S, ask), Slots, ReportRequest)
        /\ \A m \in Slots :
             \/ Put(q, S, ask)[m] = q[m]
             \/ q[m].st = "free" /\ Put(q, S, ask)[m].body = ask
    BY <1>1, ArrivalFacts
  <2> QED
    BY <2>1, <2>2
<1> QED
  BY <1>1, <1>2, <1>3 DEF Arrives

\* An honest request reaches the queue of one poller.
LEMMA ArrivalInv ==
  ASSUME IInv, NEW p \in Pollers, NEW ask \in ReportRequest, Honest(ask), Arrives(p, ask),
         UNCHANGED <<status, session, report, worker>>,
         told' \subseteq Interviews, api' \in [Requests -> Interviews \cup {NoBody}],
         RequestsOK', faults' \in 0..MaxFaults
  PROVE  IInv'
<1> PICK new :
      /\ queue' = [queue EXCEPT ![p] = new]
      /\ WellFormed(new, Slots, ReportRequest)
      /\ \A m \in Slots :
           new[m] = queue[p][m] \/ (queue[p][m].st = "free" /\ new[m].body = ask)
  BY DEF Arrives
<1>1. /\ queue'[p] = new
      /\ \A r \in Pollers \ {p} : queue'[r] = queue[r]
      /\ queue' \in [Pollers -> [Slots -> Message(ReportRequest)]]
  BY DEF IInv, TypeOK, WellFormed
<1>2. \A r \in Pollers, m \in Slots :
        \/ queue'[r][m] = queue[r][m]
        \/ queue[r][m].st = "free" /\ queue'[r][m].body = ask
  BY <1>1
<1>3. TypeOK' /\ QueuesOK' /\ StatusTrue' /\ RowsTrue'
  BY <1>1 DEF IInv, TypeOK, QueuesOK, StatusTrue, RowsTrue, RowTrue, Over
<1>4. AsksHonest'
  BY <1>2 DEF IInv, AsksHonest, Honest, Over
<1>5. WorkersOK' /\ \A r \in Pollers : ~At(r, "idle") => InHand(r)' = InHand(r)
  BY <1>2 DEF IInv, WorkersOK, At, InHand
<1>6. Attended'
  <2>1. \A r \in Pollers, i \in Interviews : Waits(r, i) => Waits(r, i)'
    BY <1>2 DEF Waits
  <2>2. \A r \in Pollers, i \in Interviews : Serves(r, i) => Serves(r, i)'
    BY <1>5 DEF Serves, At
  <2> QED
    BY <2>1, <2>2 DEF IInv, Attended
<1> QED
  BY <1>3, <1>4, <1>5, <1>6 DEF IInv

\* Voice Service publishes what became of a session.
LEMMA PublishEndedInv ==
  ASSUME IInv, NEW i \in Interviews, PublishEnded(i)
  PROVE  IInv'
<1>1. PICK S, ask :
        /\ S \in Copies("ended")
        /\ ask = [interview |-> i, outcome |-> session[i]]
        /\ queue' = [queue EXCEPT !["ended"] = Put(queue["ended"], S, ask)]
  BY DEF PublishEnded
<1>2. ask \in ReportRequest /\ Honest(ask)
  BY <1>1 DEF PublishEnded, ReportRequest, Honest, Over
<1>3. PICK p \in Pollers : p = "ended"
  BY DEF Pollers
<1>4. /\ UNCHANGED <<status, session, api, report, worker, faults>>
      /\ told' \subseteq Interviews
  BY DEF PublishEnded, IInv, TypeOK
<1>5. RequestsOK' /\ api' \in [Requests -> Interviews \cup {NoBody}] /\ faults' \in 0..MaxFaults
  BY <1>4 DEF IInv, RequestsOK, TypeOK
<1>6. Arrives(p, ask)
  <2>1. S \in SUBSET FreeSlots(queue[p]) /\ queue' = [queue EXCEPT ![p] = Put(queue[p], S, ask)]
    BY <1>1, <1>3 DEF Copies
  <2> QED
    BY <1>2, <2>1, PutArrives
<1> QED
  BY <1>2, <1>4, <1>5, <1>6, ArrivalInv

\* A change of the requests in flight that leaves every other thing alone.
LEMMA RequestsChangeInv ==
  ASSUME IInv, UNCHANGED <<status, session, told, queue, report, worker>>,
         api' \in [Requests -> Interviews \cup {NoBody}],
         RequestsOK', faults' \in 0..MaxFaults
  PROVE  IInv'
BY DEF IInv, TypeOK, QueuesOK, AsksHonest, Honest, Over, WorkersOK, At, StatusTrue, RowsTrue,
   RowTrue, Attended, Waits, Serves, InHand

\* Core API asks for the report of an interview that has ended.
LEMMA ApiStepInv ==
  ASSUME IInv, NEW q \in Requests, ApiStep(q)
  PROVE  IInv'
<1>1. CASE \E i \in Interviews : ReadReport(q, i) \/ RetryReport(q, i)
  <2>1. PICK i \in Interviews : Ask(q, i)
    BY <1>1 DEF ReadReport, RetryReport
  <2>2. /\ UNCHANGED <<status, session, told, queue, report, worker, faults>>
        /\ api' = [api EXCEPT ![q] = i]
        /\ status[i] \in Outcomes
    BY <2>1 DEF Ask
  <2>3. api' \in [Requests -> Interviews \cup {NoBody}] /\ RequestsOK' /\ faults' \in 0..MaxFaults
    BY <2>2 DEF IInv, TypeOK, RequestsOK
  <2> QED
    BY <2>2, <2>3, RequestsChangeInv
<1>2. CASE SendReportJob(q) \/ SendReportJobFails(q)
  <2>1. /\ UNCHANGED <<status, session, told, report, worker>>
        /\ api' = [api EXCEPT ![q] = NoBody]
        /\ api[q] # NoBody
        /\ Sent(q) \/ UNCHANGED queue
        /\ faults' \in {faults, faults + 1} /\ faults' \in 0..MaxFaults
    BY <1>2, ReportsAssumption DEF SendReportJob, SendReportJobFails, Fault, IInv, TypeOK
  <2>2. api' \in [Requests -> Interviews \cup {NoBody}] /\ RequestsOK'
    BY <2>1 DEF IInv, TypeOK, RequestsOK
  <2>3. CASE UNCHANGED queue
    BY <2>1, <2>2, <2>3, RequestsChangeInv
  <2>4. CASE Sent(q)
    <3>1. PICK i \in Interviews : i = api[q] /\ status[i] \in Outcomes
      BY <2>1 DEF IInv, TypeOK, RequestsOK
    <3>2. PICK ask, S :
            /\ ask = [interview |-> i, outcome |-> status[i]]
            /\ S \in SUBSET FreeSlots(queue["jobs"])
            /\ queue' = [queue EXCEPT !["jobs"] = Put(queue["jobs"], S, ask)]
      BY <2>4, <3>1 DEF Sent, RequestOf
    <3>3. ask \in ReportRequest /\ Honest(ask)
      BY <3>1, <3>2 DEF ReportRequest, Honest, Over, IInv, StatusTrue
    <3>4. PICK p \in Pollers : p = "jobs"
      BY DEF Pollers
    <3>5. Arrives(p, ask)
      <4>1. /\ S \in SUBSET FreeSlots(queue[p])
            /\ queue' = [queue EXCEPT ![p] = Put(queue[p], S, ask)]
        BY <3>2, <3>4
      <4> QED
        BY <3>3, <4>1, PutArrives
    <3>6. told' \subseteq Interviews
      BY <2>1 DEF IInv, TypeOK
    <3> QED
      BY <2>1, <2>2, <3>3, <3>5, <3>6, ArrivalInv
  <2> QED
    BY <2>1, <2>3, <2>4
<1> QED
  BY <1>1, <1>2 DEF ApiStep

-----------------------------------------------------------------------------
(* The pollers' steps *)

\* A received message stays visible to somebody: the poller that took it.
LEMMA ReceiveInv ==
  ASSUME IInv, NEW p \in Pollers, NEW m \in Slots, ReceiveRequest(p, m)
  PROVE  IInv'
<1>1. /\ UNCHANGED <<status, session, told, api, report, faults>>
      /\ worker' = [worker EXCEPT ![p] = [pc |-> "claim", msg |-> m]]
      /\ At(p, "idle") /\ queue[p][m].st = "visible"
  BY DEF ReceiveRequest
<1>2. PICK new :
        /\ queue' = [queue EXCEPT ![p] = new]
        /\ WellFormed(new, Slots, ReportRequest)
        /\ new[m].st = "inflight" /\ new[m].body = queue[p][m].body
        /\ \A n \in Slots \ {m} : new[n] = queue[p][n]
  <2>1. PICK q : q = queue[p] /\ WellFormed(q, Slots, ReportRequest) /\ q[m].st = "visible"
    BY <1>1 DEF IInv, QueuesOK
  <2>2. /\ WellFormed(Receive(q, m), Slots, ReportRequest)
        /\ Receive(q, m)[m].st = "inflight" /\ Receive(q, m)[m].body = q[m].body
        /\ \A n \in Slots \ {m} : Receive(q, m)[n] = q[n]
    BY <2>1, ReceiveFacts
  <2> QED
    BY <2>1, <2>2 DEF ReceiveRequest
<1>3. /\ queue'[p] = new
      /\ \A r \in Pollers \ {p} : queue'[r] = queue[r]
      /\ queue' \in [Pollers -> [Slots -> Message(ReportRequest)]]
  BY <1>2 DEF IInv, TypeOK, WellFormed
<1>4. /\ worker'[p] = [pc |-> "claim", msg |-> m]
      /\ \A r \in Pollers \ {p} : worker'[r] = worker[r]
      /\ worker' \in [Pollers -> [pc : PcValues, msg : Slots \cup {NoBody}]]
  BY <1>1 DEF IInv, TypeOK, PcValues
<1>5. TypeOK' /\ QueuesOK' /\ StatusTrue' /\ RequestsOK' /\ RowsTrue'
  BY <1>1, <1>2, <1>3, <1>4
  DEF IInv, TypeOK, QueuesOK, StatusTrue, RequestsOK, RowsTrue, RowTrue, Over
<1>6. AsksHonest'
  BY <1>1, <1>2, <1>3 DEF IInv, AsksHonest, Honest, Over
<1>7. WorkersOK'
  BY <1>2, <1>3, <1>4 DEF IInv, WorkersOK, At
<1>8. Attended'
  <2>1. \A i \in Interviews : Waits(p, i) => Waits(p, i)' \/ Serves(p, i)'
    BY <1>2, <1>3, <1>4 DEF Waits, Serves, InHand
  <2>2. \A i \in Interviews : ~Serves(p, i)
    BY <1>1 DEF Serves, At
  <2>3. \A i \in Interviews, r \in Pollers \ {p} :
          (Waits(r, i) => Waits(r, i)') /\ (Serves(r, i) => Serves(r, i)')
    BY <1>3, <1>4 DEF Waits, Serves, InHand
  <2> QED
    BY <1>1, <2>1, <2>2, <2>3 DEF IInv, Attended
<1> QED
  BY <1>5, <1>6, <1>7, <1>8 DEF IInv

\* A step on one row by the poller that handles a message about it.
LEMMA RowStepInv ==
  ASSUME IInv, NEW p \in Pollers, NEW i \in Interviews, i = InHand(p).interview,
         worker[p].pc \notin {"idle", "delete"},
         NEW pc \in PcValues \ {"idle"}, Goto(p, pc),
         UNCHANGED <<status, session, told, api, queue>>, faults' \in 0..MaxFaults,
         NEW row \in ReportRow, report' = [report EXCEPT ![i] = row],
         RowTrue(i)',
         pc = "delete" => row.status # "generating"
  PROVE  IInv'
<1>1. /\ report' \in [Interviews -> ReportRow]
      /\ report'[i] = row /\ \A j \in Interviews \ {i} : report'[j] = report[j]
  BY DEF IInv, TypeOK
<1>2. /\ worker' \in [Pollers -> [pc : PcValues, msg : Slots \cup {NoBody}]]
      /\ worker'[p].pc = pc /\ worker'[p].msg = worker[p].msg
      /\ \A r \in Pollers \ {p} : worker'[r] = worker[r]
  BY DEF IInv, TypeOK, Goto
<1>3. TypeOK' /\ QueuesOK' /\ AsksHonest' /\ StatusTrue' /\ RequestsOK'
  BY <1>1, <1>2
  DEF IInv, TypeOK, QueuesOK, AsksHonest, Honest, Over, StatusTrue, RequestsOK
<1>4. WorkersOK'
  BY <1>2 DEF IInv, WorkersOK, At
<1>5. RowsTrue'
  BY <1>1 DEF IInv, RowsTrue, RowTrue, Over
<1>6. Attended'
  <2>1. \A j \in Interviews, r \in Pollers : Waits(r, j) => Waits(r, j)'
    BY DEF Waits
  <2>2. \A j \in Interviews, r \in Pollers \ {p} : Serves(r, j) => Serves(r, j)'
    BY <1>2 DEF Serves, InHand
  <2>3. \A j \in Interviews : Serves(p, j) => j = i
    BY DEF Serves
  <2>4. pc # "delete" => Serves(p, i)'
    BY <1>2 DEF Serves, InHand
  <2>5. ASSUME NEW j \in Interviews, report'[j].status = "generating"
        PROVE  \E r \in Pollers : Waits(r, j)' \/ Serves(r, j)'
    <3>1. CASE j = i
      BY <1>1, <2>4, <2>5, <3>1
    <3>2. CASE j # i
      BY <1>1, <2>1, <2>2, <2>3, <2>5, <3>2 DEF IInv, Attended
    <3> QED
      BY <3>1, <3>2
  <2> QED
    BY <2>5 DEF Attended
<1> QED
  BY <1>3, <1>4, <1>5, <1>6 DEF IInv

\* What a claim writes.
LEMMA ClaimedRow ==
  ASSUME IInv, NEW p \in Pollers, ~At(p, "idle"), Claimed(InHand(p)),
         UNCHANGED <<status, session>>
  PROVE  \E i \in Interviews, row \in ReportRow :
           /\ i = InHand(p).interview
           /\ report' = [report EXCEPT ![i] = row]
           /\ RowTrue(i)'
           /\ row = report[i] \/ (row.status = "generating" /\ Claimable(i) /\ i \in Over)
<1>1. PICK ask \in ReportRequest : ask = InHand(p) /\ Honest(ask)
  BY InHandFacts
<1>2. PICK i, row :
        /\ i \in Interviews /\ i = ask.interview
        /\ row = IF Claimable(i)
                 THEN [status |-> "generating", partial |-> ask.outcome = "interrupted"]
                 ELSE report[i]
        /\ report' = [report EXCEPT ![i] = row]
  BY <1>1 DEF Claimed, ReportRequest, IInv, TypeOK
<1>3. row \in ReportRow
  <2>1. (ask.outcome = "interrupted") \in BOOLEAN
    OBVIOUS
  <2> QED
    BY <1>2, <2>1 DEF ReportRow, IInv, TypeOK
<1>4. report'[i] = row
  BY <1>2 DEF IInv, TypeOK
<1>5. RowTrue(i)'
  <2>1. CASE Claimable(i)
    <3>1. i \in Over /\ (ask.outcome # "interrupted" => session[i] = "completed")
      BY <1>1, <1>2 DEF Honest, ReportRequest, Outcomes
    <3>2. ~row.partial => ask.outcome # "interrupted"
      BY <1>2, <2>1
    <3> QED
      BY <1>4, <3>1, <3>2 DEF RowTrue, Over
  <2>2. CASE ~Claimable(i)
    BY <1>2, <1>4, <2>2 DEF RowTrue, Over, IInv, RowsTrue
  <2> QED
    BY <2>1, <2>2
<1> QED
  BY <1>1, <1>2, <1>3, <1>5 DEF Honest

\* What a finished run writes.
LEMMA MarkedRow ==
  ASSUME IInv, NEW p \in Pollers, ~At(p, "idle"), NEW outcome \in {"ready", "failed"},
         Marked(InHand(p).interview, outcome), UNCHANGED <<status, session>>
  PROVE  \E i \in Interviews, row \in ReportRow :
           /\ i = InHand(p).interview
           /\ report' = [report EXCEPT ![i] = row]
           /\ RowTrue(i)'
           /\ row.status # "generating"
           /\ \/ row = report[i]
              \/ report[i].status = "generating" /\ row = [report[i] EXCEPT !.status = outcome]
<1>1. PICK i \in Interviews : i = InHand(p).interview
  BY InHandFacts DEF ReportRequest
<1>2. report[i] \in ReportRow /\ DOMAIN report = Interviews
  BY DEF IInv, TypeOK
<1>3. PICK row :
        row = [report[i] EXCEPT
                !.status = IF report[i].status = "generating" THEN outcome ELSE report[i].status]
  OBVIOUS
<1>4. report' = [report EXCEPT ![i] = row]
  BY <1>1, <1>2, <1>3 DEF Marked
<1>5. /\ row \in ReportRow /\ row.partial = report[i].partial
      /\ row.status = IF report[i].status = "generating" THEN outcome ELSE report[i].status
  BY <1>2, <1>3 DEF ReportRow
<1>6. report'[i] = row
  BY <1>2, <1>4
<1>7. RowTrue(i)'
  BY <1>5, <1>6 DEF RowTrue, Over, IInv, RowsTrue
<1>8. row = report[i] \/ report[i].status = "generating"
  BY <1>2, <1>3 DEF ReportRow
<1>9. report[i].status = "generating" => row = [report[i] EXCEPT !.status = outcome]
  BY <1>3
<1> QED
  BY <1>1, <1>4, <1>5, <1>7, <1>8, <1>9

\* The steps of a poller that leave the queues alone.
LEMMA HandlingInv ==
  ASSUME IInv, NEW p \in Pollers,
         \/ ClaimReport(p) \/ CheckStatus(p)
         \/ GenerateReport(p) \/ GenerateReportFails(p)
         \/ MarkReady(p) \/ MarkReadyFails(p) \/ MarkFailed(p)
  PROVE  IInv'
<1>1. /\ UNCHANGED <<status, session, told, api, queue>>
      /\ worker[p].pc \in PcValues \ {"idle", "delete"} /\ ~At(p, "idle")
  BY DEF ClaimReport, CheckStatus, GenerateReport, GenerateReportFails, MarkReady, MarkReadyFails,
     MarkFailed, At, PcValues
<1>2. faults' \in 0..MaxFaults
  BY ReportsAssumption
  DEF ClaimReport, CheckStatus, GenerateReport, GenerateReportFails, MarkReady, MarkReadyFails,
      MarkFailed, Fault, IInv, TypeOK
<1>3. PICK k \in Interviews : k = InHand(p).interview
  BY <1>1, InHandFacts DEF ReportRequest
<1>4. CASE ClaimReport(p)
  <2>1. PICK i \in Interviews, row \in ReportRow :
          /\ i = InHand(p).interview
          /\ report' = [report EXCEPT ![i] = row]
          /\ RowTrue(i)'
    BY <1>1, <1>4, ClaimedRow DEF ClaimReport
  <2>2. PICK pc \in PcValues \ {"idle", "delete"} : Goto(p, pc)
    BY <1>4 DEF ClaimReport, PcValues
  <2> QED
    BY <1>1, <1>2, <2>1, <2>2, RowStepInv
<1>5. ASSUME UNCHANGED report, NEW pc \in PcValues \ {"idle"}, Goto(p, pc),
             pc = "delete" => report[k].status # "generating"
      PROVE  IInv'
  <2>1. PICK row \in ReportRow : row = report[k] /\ report' = [report EXCEPT ![k] = row]
    BY <1>5 DEF IInv, TypeOK
  <2>2. RowTrue(k)'
    BY <1>1, <1>5 DEF RowTrue, Over, IInv, RowsTrue
  <2> QED
    BY <1>1, <1>2, <1>3, <1>5, <2>1, <2>2, RowStepInv
<1>6. CASE CheckStatus(p)
  <2>1. PICK pc \in {"delete", "generate"} :
          /\ Goto(p, pc) /\ UNCHANGED report
          /\ pc = "delete" => report[k].status = "ready"
    BY <1>3, <1>6 DEF CheckStatus
  <2> QED
    BY <1>5, <2>1 DEF PcValues
<1>7. CASE GenerateReport(p) \/ GenerateReportFails(p)
  <2>1. PICK pc \in {"markReady", "markFailed"} : Goto(p, pc) /\ UNCHANGED report
    BY <1>7 DEF GenerateReport, GenerateReportFails
  <2> QED
    BY <1>5, <2>1 DEF PcValues
<1>8. CASE MarkReadyFails(p) /\ UNCHANGED report
  <2>1. Goto(p, "markFailed")
    BY <1>8 DEF MarkReadyFails
  <2> QED
    BY <1>5, <1>8, <2>1 DEF PcValues
<1>9. ASSUME NEW outcome \in {"ready", "failed"}, Marked(InHand(p).interview, outcome),
             NEW pc \in {"markFailed", "delete"}, Goto(p, pc)
      PROVE  IInv'
  <2>1. PICK i \in Interviews, row \in ReportRow :
          /\ i = InHand(p).interview
          /\ report' = [report EXCEPT ![i] = row]
          /\ RowTrue(i)'
          /\ row.status # "generating"
    BY <1>1, <1>9, MarkedRow
  <2>2. pc \in PcValues \ {"idle"}
    BY DEF PcValues
  <2> QED
    BY <1>1, <1>2, <1>9, <2>1, <2>2, RowStepInv
<1> QED
  BY <1>4, <1>6, <1>7, <1>8, <1>9 DEF MarkReady, MarkReadyFails, MarkFailed

\* The message a poller handled is visible again, or dead.
Returned(p) ==
  \E new :
    /\ queue'[p] = new
    /\ WellFormed(new, Slots, ReportRequest)
    /\ new[worker[p].msg].st \in {"visible", "dead"}
    /\ new[worker[p].msg].body = InHand(p)
    /\ \A n \in Slots \ {worker[p].msg} : new[n] = queue[p][n]

LEMMA ReturnReturns ==
  ASSUME IInv, NEW p \in Pollers, ~At(p, "idle"), queue'[p] = Return(queue[p], worker[p].msg)
  PROVE  Returned(p)
<1>1. PICK m \in Slots : m = worker[p].msg /\ queue[p][m].st = "inflight"
  BY InHandFacts
<1>2. PICK q : q = queue[p] /\ WellFormed(q, Slots, ReportRequest) /\ q[m].st = "inflight"
  BY <1>1 DEF IInv, QueuesOK
<1>3. /\ WellFormed(Return(q, m), Slots, ReportRequest)
      /\ Return(q, m)[m].st \in {"visible", "dead"}
      /\ Return(q, m)[m].body = q[m].body
      /\ \A n \in Slots \ {m} : Return(q, m)[n] = q[n]
  BY <1>2, ReturnFacts
<1> QED
  BY <1>1, <1>2, <1>3 DEF Returned, InHand

FunctionOfPollers(f) == f = [p \in Pollers |-> f[p]]

Stop(D) ==
  /\ \A p \in D : ~At(p, "idle") /\ Returned(p) /\ worker'[p] = Idle
  /\ \A p \in Pollers \ D :
       /\ queue'[p] = queue[p]
       /\ worker'[p] = worker[p] \/ (At(p, "idle") /\ worker'[p] = Idle)
  /\ FunctionOfPollers(queue') /\ FunctionOfPollers(worker')

\* What a poller that stops was doing waits on its queue.
LEMMA StopFacts ==
  ASSUME IInv, NEW D \in SUBSET Pollers, Stop(D), NEW p \in D
  PROVE  /\ worker[p].msg \in Slots /\ worker'[p] = Idle
         /\ WellFormed(queue'[p], Slots, ReportRequest)
         /\ queue'[p][worker[p].msg].st \in {"visible", "dead"}
         /\ queue'[p][worker[p].msg].body = InHand(p)
         /\ queue[p][worker[p].msg].st = "inflight"
         /\ Honest(InHand(p))
         /\ \A n \in Slots \ {worker[p].msg} : queue'[p][n] = queue[p][n]
<1>1. ~At(p, "idle") /\ Returned(p) /\ worker'[p] = Idle
  BY DEF Stop
<1> QED
  BY <1>1, InHandFacts DEF Returned

\* Some pollers stop half way, perhaps with a row written.
LEMMA ReturnInv ==
  ASSUME IInv, NEW D \in SUBSET Pollers, Stop(D),
         UNCHANGED <<status, session, told, api>>, faults' \in 0..MaxFaults,
         report' \in [Interviews -> ReportRow], RowsTrue',
         \A i \in Interviews : report'[i].status = "generating" =>
           report[i].status = "generating" \/ \E p \in D : InHand(p).interview = i
  PROVE  IInv'
<1>1. \A p \in Pollers \ D :
        /\ queue'[p] = queue[p]
        /\ worker'[p] = worker[p] \/ (worker[p].pc = "idle" /\ worker'[p] = Idle)
  BY DEF Stop, At
<1>2. QueuesOK'
  BY <1>1, StopFacts DEF IInv, QueuesOK
<1>3. queue' \in [Pollers -> [Slots -> Message(ReportRequest)]]
  <2>1. \A p \in Pollers : queue'[p] \in [Slots -> Message(ReportRequest)]
    BY <1>2 DEF QueuesOK, WellFormed
  <2> QED
    BY <2>1 DEF Stop, FunctionOfPollers
<1>4. worker' \in [Pollers -> [pc : PcValues, msg : Slots \cup {NoBody}]]
  <2>1. \A p \in Pollers : worker'[p] \in [pc : PcValues, msg : Slots \cup {NoBody}]
    BY <1>1, StopFacts DEF Idle, PcValues, IInv, TypeOK
  <2> QED
    BY <2>1 DEF Stop, FunctionOfPollers
<1>5. TypeOK' /\ StatusTrue' /\ RequestsOK'
  BY <1>3, <1>4 DEF IInv, TypeOK, StatusTrue, RequestsOK
<1>6. AsksHonest'
  <2>1. ASSUME NEW p \in D, NEW m \in Slots, queue'[p][m].st # "free"
        PROVE  Honest(queue[p][m].body)'
    <3>1. Honest(queue'[p][m].body)
      BY <2>1, StopFacts DEF IInv, AsksHonest
    <3> QED
      BY <3>1 DEF Honest, Over
  <2>2. ASSUME NEW p \in Pollers \ D, NEW m \in Slots, queue'[p][m].st # "free"
        PROVE  Honest(queue[p][m].body)'
    <3>1. Honest(queue'[p][m].body)
      BY <1>1, <2>2 DEF IInv, AsksHonest
    <3> QED
      BY <3>1 DEF Honest, Over
  <2> QED
    BY <2>1, <2>2 DEF AsksHonest
<1>7. WorkersOK'
  BY <1>1, StopFacts DEF IInv, WorkersOK, At, Idle
<1>8. Attended'
  <2>1. \A p \in D, i \in Interviews : InHand(p).interview = i => Waits(p, i)'
    BY StopFacts DEF Waits
  <2>2. ASSUME NEW p \in D, NEW i \in Interviews, Waits(p, i) PROVE Waits(p, i)'
    <3>1. PICK m \in Slots : queue[p][m].st \in {"visible", "dead"} /\ queue[p][m].body.interview = i
      BY <2>2 DEF Waits
    <3>2. queue'[p][m] = queue[p][m]
      BY <3>1, StopFacts
    <3> QED
      BY <3>1, <3>2 DEF Waits
  <2>3. \A p \in D, i \in Interviews : Serves(p, i) => Waits(p, i)'
    BY <2>1 DEF Serves
  <2>4. \A p \in Pollers \ D, i \in Interviews :
          (Waits(p, i) => Waits(p, i)') /\ (Serves(p, i) => Serves(p, i)')
    BY <1>1 DEF Waits, Serves, InHand
  <2> QED
    BY <2>1, <2>2, <2>3, <2>4 DEF IInv, Attended
<1> QED
  BY <1>2, <1>5, <1>6, <1>7, <1>8 DEF IInv

\* A statement that raises.
LEMMA StatementFailsInv ==
  ASSUME IInv, NEW p \in Pollers, StatementFails(p)
  PROVE  IInv'
<1>1. /\ UNCHANGED <<status, session, told, api>> /\ ~At(p, "idle")
      /\ queue' = [queue EXCEPT ![p] = Return(queue[p], worker[p].msg)]
      /\ worker' = [worker EXCEPT ![p] = Idle]
  BY DEF StatementFails, At
<1>2. faults' \in 0..MaxFaults
  BY ReportsAssumption DEF StatementFails, Fault, IInv, TypeOK
<1>3. \/ UNCHANGED report
      \/ \E i \in Interviews, row \in ReportRow :
           /\ i = InHand(p).interview
           /\ report' = [report EXCEPT ![i] = row]
           /\ RowTrue(i)'
  BY <1>1, ClaimedRow, MarkedRow DEF StatementFails
<1>4. /\ report' \in [Interviews -> ReportRow] /\ RowsTrue'
      /\ \A i \in Interviews : report'[i] = report[i] \/ InHand(p).interview = i
  <2>1. CASE UNCHANGED report
    BY <1>1, <2>1 DEF IInv, TypeOK, RowsTrue, RowTrue, Over
  <2>2. CASE \E i \in Interviews, row \in ReportRow :
               /\ i = InHand(p).interview
               /\ report' = [report EXCEPT ![i] = row]
               /\ RowTrue(i)'
    <3>1. PICK i \in Interviews, row \in ReportRow :
            /\ i = InHand(p).interview
            /\ report' = [report EXCEPT ![i] = row]
            /\ RowTrue(i)'
      BY <2>2
    <3>2. /\ report' \in [Interviews -> ReportRow]
          /\ \A j \in Interviews \ {i} : report'[j] = report[j]
      BY <3>1 DEF IInv, TypeOK
    <3>3. RowsTrue'
      BY <1>1, <3>1, <3>2 DEF IInv, RowsTrue, RowTrue, Over
    <3> QED
      BY <3>1, <3>2, <3>3
  <2> QED
    BY <1>3, <2>1, <2>2
<1>5. /\ queue'[p] = Return(queue[p], worker[p].msg) /\ worker'[p] = Idle
      /\ \A r \in Pollers \ {p} : queue'[r] = queue[r] /\ worker'[r] = worker[r]
      /\ FunctionOfPollers(queue') /\ FunctionOfPollers(worker')
  BY <1>1 DEF IInv, TypeOK, FunctionOfPollers
<1>6. Returned(p)
  BY <1>1, <1>5, ReturnReturns
<1>7. PICK D \in SUBSET Pollers : D = {p}
  OBVIOUS
<1>8. Stop(D)
  BY <1>1, <1>5, <1>6, <1>7 DEF Stop
<1> QED
  BY <1>1, <1>2, <1>4, <1>7, <1>8, ReturnInv

\* The process stops: both queues get back what was in hand.
LEMMA WorkerDiesInv ==
  ASSUME IInv, WorkerDies
  PROVE  IInv'
<1>1. UNCHANGED <<status, session, told, api, report>>
  BY DEF WorkerDies
<1>2. faults' \in 0..MaxFaults
  BY ReportsAssumption DEF WorkerDies, Fault, IInv, TypeOK
<1>3. PICK D \in SUBSET Pollers : D = {p \in Pollers : ~At(p, "idle")}
  OBVIOUS
<1>4. /\ \A p \in D : queue'[p] = Return(queue[p], worker[p].msg) /\ worker'[p] = Idle
      /\ \A p \in Pollers \ D : queue'[p] = queue[p] /\ worker'[p] = Idle
      /\ \A p \in Pollers \ D : worker[p].pc = "idle"
      /\ FunctionOfPollers(queue') /\ FunctionOfPollers(worker')
  BY <1>3 DEF WorkerDies, FunctionOfPollers, At
<1>5. \A p \in D : ~At(p, "idle") /\ Returned(p)
  BY <1>3, <1>4, ReturnReturns
<1>6. report' \in [Interviews -> ReportRow] /\ RowsTrue'
  BY <1>1 DEF IInv, TypeOK, RowsTrue, RowTrue, Over
<1>7. Stop(D)
  BY <1>3, <1>4, <1>5 DEF Stop
<1> QED
  BY <1>1, <1>2, <1>6, <1>7, ReturnInv

\* A message is deleted only once its row is settled, or is somebody else's.
LEMMA DeleteInv ==
  ASSUME IInv, NEW p \in Pollers, DeleteRequest(p)
  PROVE  IInv'
<1>1. /\ UNCHANGED <<status, session, told, api, report, faults>>
      /\ worker[p].pc = "delete" /\ ~At(p, "idle")
      /\ worker' = [worker EXCEPT ![p] = Idle]
  BY DEF DeleteRequest, At
<1>2. PICK m \in Slots : m = worker[p].msg /\ queue[p][m].st = "inflight"
  BY <1>1, InHandFacts
<1>3. PICK new :
        /\ queue' = [queue EXCEPT ![p] = new]
        /\ WellFormed(new, Slots, ReportRequest)
        /\ new[m].st = "free"
        /\ \A n \in Slots \ {m} : new[n] = queue[p][n]
  <2>1. PICK q : q = queue[p] /\ WellFormed(q, Slots, ReportRequest)
    BY DEF IInv, QueuesOK
  <2>2. /\ WellFormed(Delete(q, m), Slots, ReportRequest)
        /\ Delete(q, m)[m].st = "free"
        /\ \A n \in Slots \ {m} : Delete(q, m)[n] = q[n]
    BY <2>1, DeleteFacts
  <2>3. queue' = [queue EXCEPT ![p] = Delete(q, m)]
    BY <1>2, <2>1 DEF DeleteRequest
  <2> QED
    BY <2>1, <2>2, <2>3
<1>4. /\ queue'[p] = new
      /\ \A r \in Pollers \ {p} : queue'[r] = queue[r]
      /\ queue' \in [Pollers -> [Slots -> Message(ReportRequest)]]
  BY <1>3 DEF IInv, TypeOK, WellFormed
<1>5. /\ worker'[p] = Idle
      /\ \A r \in Pollers \ {p} : worker'[r] = worker[r]
      /\ worker' \in [Pollers -> [pc : PcValues, msg : Slots \cup {NoBody}]]
  BY <1>1 DEF IInv, TypeOK, PcValues, Idle
<1>6. TypeOK' /\ QueuesOK' /\ StatusTrue' /\ RequestsOK' /\ RowsTrue'
  BY <1>1, <1>3, <1>4, <1>5
  DEF IInv, TypeOK, QueuesOK, StatusTrue, RequestsOK, RowsTrue, RowTrue, Over
<1>7. AsksHonest'
  BY <1>1, <1>3, <1>4 DEF IInv, AsksHonest, Honest, Over
<1>8. WorkersOK'
  BY <1>4, <1>5 DEF IInv, WorkersOK, At, Idle
<1>9. Attended'
  <2>1. \A i \in Interviews : Waits(p, i) => Waits(p, i)'
    BY <1>2, <1>3, <1>4 DEF Waits
  <2>2. \A i \in Interviews : ~Serves(p, i)
    BY <1>1 DEF Serves
  <2>3. \A i \in Interviews, r \in Pollers \ {p} :
          (Waits(r, i) => Waits(r, i)') /\ (Serves(r, i) => Serves(r, i)')
    BY <1>4, <1>5 DEF Waits, Serves, InHand
  <2> QED
    BY <1>1, <2>1, <2>2, <2>3 DEF IInv, Attended
<1> QED
  BY <1>6, <1>7, <1>8, <1>9 DEF IInv

\* Every step keeps the invariant.
LEMMA NextInv == IInv /\ [Next]_vars => IInv'
<1> SUFFICES ASSUME IInv, [Next]_vars PROVE IInv'
  OBVIOUS
<1>1. CASE UNCHANGED vars
  BY <1>1
  DEF vars, IInv, TypeOK, QueuesOK, AsksHonest, Honest, Over, WorkersOK, At, StatusTrue,
      RequestsOK, RowsTrue, RowTrue, Attended, Waits, Serves, InHand
<1>2. CASE InterviewStep
  BY <1>2, InterviewStepInv
<1>3. CASE \E i \in Interviews : PublishEnded(i)
  BY <1>3, PublishEndedInv
<1>4. CASE \E q \in Requests : ApiStep(q)
  BY <1>4, ApiStepInv
<1>5. CASE \E p \in Pollers : WorkerStep(p) \/ WorkerFails(p)
  BY <1>5, ReceiveInv, HandlingInv, DeleteInv, StatementFailsInv DEF WorkerStep, WorkerFails
<1>6. CASE WorkerDies
  BY <1>6, WorkerDiesInv
<1> QED
  BY <1>1, <1>2, <1>3, <1>4, <1>5, <1>6 DEF Next

-----------------------------------------------------------------------------
\* The invariant holds in every state a run can reach.
THEOREM Invariance == Spec => []IInv
BY InitIInv, NextInv, PTL DEF Spec

\* Every state is one the tables, the queues and the pollers can hold.
THEOREM TypeCorrect == Spec => []TypeOK
<1>1. IInv => TypeOK
  BY DEF IInv
<1> QED
  BY <1>1, Invariance, PTL

\* A report is whole only if its session was completed, whichever message
\* asked for it.
THEOREM WholeTold == Spec => []WholeMeansCompleted
<1>1. IInv => WholeMeansCompleted
  BY DEF IInv, RowsTrue, RowTrue, WholeMeansCompleted
<1> QED
  BY <1>1, Invariance, PTL

\* A row left `generating' has a message that will run it again, or that the
\* redrive policy gave up on.
THEOREM NothingStranded == Spec => []NeverStranded
<1>1. IInv => NeverStranded
  <2> SUFFICES ASSUME IInv, NEW i \in Interviews, report[i].status = "generating"
               PROVE  Pending(i) \/ Lost(i)
    BY DEF NeverStranded
  <2>1. \A p \in Pollers : DOMAIN queue[p] = Slots
    BY DEF IInv, TypeOK
  <2>2. PICK p \in Pollers : Waits(p, i) \/ Serves(p, i)
    BY DEF IInv, Attended
  <2>3. CASE Waits(p, i)
    BY <2>1, <2>3 DEF Waits, Pending, Lost, Live, Dead, Asks
  <2>4. CASE Serves(p, i)
    <3>1. ~At(p, "idle")
      BY <2>4 DEF Serves, At
    <3>2. worker[p].msg \in Slots /\ queue[p][worker[p].msg].st = "inflight"
      BY <3>1, InHandFacts
    <3> QED
      BY <2>1, <2>4, <3>2 DEF Serves, InHand, Pending, Live, Asks
  <2> QED
    BY <2>2, <2>3, <2>4
<1> QED
  BY <1>1, Invariance, PTL

-----------------------------------------------------------------------------
(* The reports table is the machine of ReportStatus *)

\* A claim begins a report, of a session that is over.
LEMMA ClaimRefines ==
  ASSUME IInv, NEW p \in Pollers, ~At(p, "idle"), Claimed(InHand(p)),
         UNCHANGED <<status, session>>
  PROVE  UNCHANGED report \/ \E i \in Interviews : Promises!Begin(i)
<1>1. PICK i \in Interviews, row \in ReportRow :
        /\ report' = [report EXCEPT ![i] = row]
        /\ row = report[i] \/ (row.status = "generating" /\ Claimable(i) /\ i \in Over)
  BY ClaimedRow
<1>2. CASE row = report[i]
  BY <1>1, <1>2 DEF IInv, TypeOK
<1>3. CASE row.status = "generating" /\ Claimable(i) /\ i \in Over
  <2>1. row = [status |-> "generating", partial |-> row.partial] /\ row.partial \in BOOLEAN
    BY <1>3 DEF ReportRow
  <2> QED
    BY <1>1, <1>3, <2>1 DEF Promises!Begin, Claimable, Over
<1> QED
  BY <1>1, <1>2, <1>3

\* A mark settles a generating report, and changes no other.
LEMMA MarkRefines ==
  ASSUME IInv, NEW p \in Pollers, ~At(p, "idle"), NEW outcome \in {"ready", "failed"},
         Marked(InHand(p).interview, outcome), UNCHANGED <<status, session>>
  PROVE  UNCHANGED report \/ \E i \in Interviews : Promises!Finish(i)
<1>1. PICK i \in Interviews, row \in ReportRow :
        /\ report' = [report EXCEPT ![i] = row]
        /\ \/ row = report[i]
           \/ report[i].status = "generating" /\ row = [report[i] EXCEPT !.status = outcome]
  BY MarkedRow
<1>2. CASE row = report[i]
  BY <1>1, <1>2 DEF IInv, TypeOK
<1>3. CASE report[i].status = "generating" /\ row = [report[i] EXCEPT !.status = outcome]
  <2>1. report' = [report EXCEPT ![i].status = outcome]
    BY <1>1, <1>3
  <2> QED
    BY <1>3, <2>1 DEF Promises!Finish
<1> QED
  BY <1>1, <1>2, <1>3

\* Nothing is generated before the session is over, and a ready report never
\* changes, whatever comes late, twice or half done.
THEOREM Refinement == Spec => KeepsPromises
<1>1. Init => Promises!Init
  BY DEF Init, Interview!Init, Promises!Init, Outcomes
<1>2. IInv /\ [Next]_vars => [Promises!Next]_(Promises!vars)
  <2> SUFFICES ASSUME IInv, [Next]_vars
               PROVE  \/ UNCHANGED <<report, Over>>
                      \/ UNCHANGED Over
                           /\ \E i \in Interviews : Promises!Begin(i) \/ Promises!Finish(i)
                      \/ Over \subseteq Over' /\ UNCHANGED report
    BY DEF Promises!Next, Promises!vars, Over
  <2>1. CASE InterviewStep
    BY <2>1, InterviewFacts DEF InterviewStep
  <2>2. CASE UNCHANGED <<status, session, report>>
    BY <2>2 DEF Over
  <2>3. ASSUME NEW p \in Pollers, WorkerStep(p) \/ WorkerFails(p),
               ~UNCHANGED <<status, session, report>>
        PROVE  UNCHANGED Over
                 /\ \E i \in Interviews : Promises!Begin(i) \/ Promises!Finish(i)
    <3>1. UNCHANGED <<status, session>> /\ ~UNCHANGED report
      BY <2>3
      DEF WorkerStep, WorkerFails, ReceiveRequest, ClaimReport, CheckStatus, GenerateReport,
          GenerateReportFails, MarkReady, MarkReadyFails, MarkFailed, StatementFails, DeleteRequest
    <3>2. /\ ~At(p, "idle")
          /\ \/ Claimed(InHand(p))
             \/ Marked(InHand(p).interview, "ready")
             \/ Marked(InHand(p).interview, "failed")
      BY <2>3, <3>1
      DEF WorkerStep, WorkerFails, ReceiveRequest, ClaimReport, CheckStatus, GenerateReport,
          GenerateReportFails, MarkReady, MarkReadyFails, MarkFailed, StatementFails,
          DeleteRequest, At
    <3>3. UNCHANGED Over
      BY <3>1 DEF Over
    <3> QED
      BY <3>1, <3>2, <3>3, ClaimRefines, MarkRefines
  <2>4. CASE \E q \in Requests : ApiStep(q)
    BY <2>2, <2>4 DEF ApiStep, ReadReport, RetryReport, Ask, SendReportJob, SendReportJobFails
  <2> QED
    BY <2>1, <2>2, <2>3, <2>4 DEF Next, vars, PublishEnded, WorkerDies
<1> QED
  BY <1>1, <1>2, Invariance, PTL DEF Spec, KeepsPromises, Promises!Spec
=============================================================================
