--------------------------- MODULE IngestionProofs ---------------------------
(***************************************************************************)
(* Type correctness, agreement between the two services, the absence of    *)
(* stranded repositories, and the refinement of RepositoryStatus, for any  *)
(* number of repositories, requests, queue slots, attempts, receives and   *)
(* faults.                                                                 *)
(***************************************************************************)
EXTENDS Ingestion, SqsQueueProofs

USE DEF At, Live, Dead

QueuesOK == WellFormed(jobs, JobSlots, Repos) /\ WellFormed(events, EventSlots, Event)

\* The worker holds the one message it received and has not deleted.
HandOK == ~At("idle") => worker.msg \in JobSlots /\ jobs[worker.msg].st = "inflight"

\* A request that registered or restarted a repository knows its row.
PromisesOK ==
  \A q \in Requests :
    api[q].pc # "idle" => api[q].repo \in Repos /\ repo[api[q].repo] # "none"

\* What the claim, the pipeline and the store have done to the row in hand.
RowOK ==
  /\ At("load") => job[InHand].status \in {"in_progress", "ready"}
  /\ At("ingest") => job[InHand].status = "in_progress"
  /\ At("publish") \/ At("delete") => job[InHand].status \in {"ready", "failed"}

\* A completed event was published from a ready row, which stays ready.
CompletedIsTrue ==
  \A e \in EventSlots :
    events[e].st # "free" /\ events[e].body.type = "completed"
      => job[events[e].body.repo].status = "ready"

\* A job that no delete is about to remove.
JobKept(r) == \E m \in Live(jobs) : jobs[m].body = r /\ ~(At("delete") /\ worker.msg = m)

\* NeverStranded, without counting the message about to be deleted.
Supported ==
  \A r \in Repos :
    repo[r] \in Unfinished => Sending(r) \/ JobKept(r) \/ OutcomeComing(r) \/ Lost(r)

IInv ==
  /\ TypeOK
  /\ QueuesOK
  /\ HandOK
  /\ PromisesOK
  /\ RowOK
  /\ CompletedIsTrue
  /\ ReadyMeansIndexed
  /\ Supported

-----------------------------------------------------------------------------
(* The initial state *)

LEMMA InitIInv == Init => IInv
<1> SUFFICES ASSUME Init PROVE IInv
  OBVIOUS
<1> USE IngestionAssumption
<1>1. QueuesOK
  BY EmptyQueueWellFormed DEF Init, QueuesOK
<1>2. TypeOK
  BY <1>1 DEF Init, TypeOK, QueuesOK, WellFormed, RepositoryStatuses, JobRow, Idle
<1>3. HandOK /\ RowOK /\ PromisesOK /\ ReadyMeansIndexed
  BY DEF Init, HandOK, RowOK, PromisesOK, ReadyMeansIndexed, Idle
<1>4. CompletedIsTrue
  BY DEF Init, CompletedIsTrue, EmptyQueue, Free
<1>5. Supported
  BY DEF Init, Supported, Unfinished
<1> QED
  BY <1>1, <1>2, <1>3, <1>4, <1>5 DEF IInv

-----------------------------------------------------------------------------
(* Core API's steps *)

\* Registering or retrying keeps the invariant: the request will send.
LEMMA PromiseInv ==
  ASSUME IInv, NEW q \in Requests, NEW r \in Repos,
         repo[r] \in {"none", "failed"}, Promise(q, r)
  PROVE  IInv'
<1> USE DEF IInv, TypeOK
<1>1. /\ repo' \in [Repos -> RepositoryStatuses]
      /\ repo'[r] = "queued"
      /\ \A s \in Repos \ {r} : repo'[s] = repo[s]
  BY DEF Promise, RepositoryStatuses
<1>2. /\ api'[q] = [pc |-> "send", repo |-> r]
      /\ \A p \in Requests \ {q} : api'[p] = api[p]
      /\ api' \in [Requests -> [pc   : {"idle", "send", "reject", "dead"},
                                repo : Repos \cup {NoBody}]]
  BY DEF Promise
<1>3. UNCHANGED <<jobs, job, worker, events, faults>>
  BY DEF Promise
<1>4. TypeOK' /\ QueuesOK' /\ HandOK' /\ RowOK' /\ CompletedIsTrue'
  BY <1>1, <1>2, <1>3 DEF QueuesOK, HandOK, RowOK, CompletedIsTrue, InHand
<1>5. PromisesOK'
  BY <1>1, <1>2 DEF PromisesOK
<1>6. ReadyMeansIndexed'
  BY <1>1, <1>3 DEF ReadyMeansIndexed
<1>7. Supported'
  <2> SUFFICES ASSUME NEW s \in Repos, repo'[s] \in Unfinished
               PROVE  Sending(s)' \/ JobKept(s)' \/ OutcomeComing(s)' \/ Lost(s)'
    BY DEF Supported
  <2>1. CASE s = r
    BY <2>1, <1>2 DEF Sending
  <2>2. CASE s # r
    <3>1. Sending(s) \/ JobKept(s) \/ OutcomeComing(s) \/ Lost(s)
      BY <2>2, <1>1 DEF Supported
    <3>2. (Sending(s) => Sending(s)') /\ (Lost(s) => Lost(s)')
      BY <1>2, <1>3 DEF Sending, Lost, RequestDied, JobDead, OutcomeDead, Promise
    <3>3. (JobKept(s) => JobKept(s)') /\ (OutcomeComing(s) => OutcomeComing(s)')
      BY <1>3 DEF JobKept, OutcomeComing
    <3> QED
      BY <3>1, <3>2, <3>3
  <2> QED
    BY <2>1, <2>2
<1> QED
  BY <1>4, <1>5, <1>6, <1>7

\* Sending a job keeps every other message, and what the worker holds.
LEMMA JobSent ==
  ASSUME IInv, NEW m \in FreeSlots(jobs), NEW r \in Repos,
         jobs' = Put(jobs, {m}, r), UNCHANGED <<job, worker>>
  PROVE  /\ WellFormed(jobs', JobSlots, Repos)
         /\ HandOK' /\ RowOK'
         /\ JobKept(r)'
         /\ \A s \in Repos : (JobKept(s) => JobKept(s)') /\ (JobDead(s) => JobDead(s)')
<1> USE DEF IInv
<1>1. m \in JobSlots /\ jobs[m].st = "free"
  BY DEF FreeSlots, TypeOK
<1>2. /\ WellFormed(jobs', JobSlots, Repos)
      /\ jobs'[m].st = "visible" /\ jobs'[m].body = r
      /\ \A n \in JobSlots \ {m} : jobs'[n] = jobs[n]
  BY <1>1, PutOneFacts DEF QueuesOK
<1>3. ~At("idle") => worker.msg # m /\ jobs'[worker.msg] = jobs[worker.msg]
  BY <1>1, <1>2 DEF HandOK
<1>4. HandOK'
  BY <1>3 DEF HandOK
<1>5. RowOK'
  BY <1>3 DEF RowOK, InHand
<1>6. DOMAIN jobs = JobSlots /\ DOMAIN jobs' = JobSlots
  BY <1>2 DEF TypeOK, WellFormed
<1>7. JobKept(r)'
  BY <1>1, <1>2, <1>3, <1>6 DEF JobKept
<1>8. ASSUME NEW s \in Repos PROVE (JobKept(s) => JobKept(s)') /\ (JobDead(s) => JobDead(s)')
  BY <1>1, <1>2, <1>6 DEF JobKept, JobDead
<1> QED
  BY <1>2, <1>4, <1>5, <1>7, <1>8

\* A request that sent its job leaves the job to settle the repository.
LEMMA SendJobInv ==
  ASSUME IInv, NEW q \in Requests, SendJob(q)
  PROVE  IInv'
<1> USE DEF IInv, TypeOK
<1>1. PICK r \in Repos : r = api[q].repo
  BY DEF SendJob, PromisesOK
<1>2. PICK m \in FreeSlots(jobs) : jobs' = Put(jobs, {m}, r)
  BY <1>1 DEF SendJob
<1>3. UNCHANGED <<repo, job, worker, events, faults>>
  BY DEF SendJob
<1>4. /\ WellFormed(jobs', JobSlots, Repos)
      /\ HandOK' /\ RowOK'
      /\ JobKept(r)'
      /\ \A s \in Repos : (JobKept(s) => JobKept(s)') /\ (JobDead(s) => JobDead(s)')
  BY <1>1, <1>2, <1>3, JobSent
<1>5. /\ api'[q] = [pc |-> "idle", repo |-> NoBody]
      /\ \A p \in Requests \ {q} : api'[p] = api[p]
      /\ api' \in [Requests -> [pc   : {"idle", "send", "reject", "dead"},
                                repo : Repos \cup {NoBody}]]
  BY DEF SendJob
<1>6. TypeOK' /\ QueuesOK'
  BY <1>3, <1>4, <1>5 DEF QueuesOK, WellFormed
<1>7. CompletedIsTrue' /\ ReadyMeansIndexed' /\ PromisesOK'
  BY <1>3, <1>5 DEF CompletedIsTrue, ReadyMeansIndexed, PromisesOK
<1>8. Supported'
  <2> SUFFICES ASSUME NEW s \in Repos, repo'[s] \in Unfinished
               PROVE  Sending(s)' \/ JobKept(s)' \/ OutcomeComing(s)' \/ Lost(s)'
    BY DEF Supported
  <2>1. Sending(s) \/ JobKept(s) \/ OutcomeComing(s) \/ Lost(s)
    BY <1>3 DEF Supported
  <2>2. CASE Sending(s) /\ s # r
    BY <2>2, <1>1, <1>5 DEF Sending
  <2>3. CASE s = r
    BY <2>3, <1>4
  <2>4. Lost(s) => Lost(s)'
    BY <1>3, <1>4, <1>5 DEF Lost, RequestDied, JobDead, OutcomeDead, SendJob
  <2>5. OutcomeComing(s) => OutcomeComing(s)'
    BY <1>3 DEF OutcomeComing
  <2> QED
    BY <2>1, <2>2, <2>3, <2>4, <2>5, <1>4
<1> QED
  BY <1>4, <1>6, <1>7, <1>8

\* A failed send leaves the request to mark the repository failed.
LEMMA SendJobFailsInv ==
  ASSUME IInv, NEW q \in Requests, SendJobFails(q)
  PROVE  IInv'
<1> USE DEF IInv, TypeOK
<1>1. PICK r \in Repos : r = api[q].repo
  BY DEF SendJobFails, PromisesOK
<1>2. /\ UNCHANGED <<repo, job, worker, events>>
      /\ faults' \in 0..MaxFaults
  BY IngestionAssumption DEF SendJobFails, Fault
<1>3. /\ WellFormed(jobs', JobSlots, Repos)
      /\ HandOK' /\ RowOK'
      /\ \A s \in Repos : (JobKept(s) => JobKept(s)') /\ (JobDead(s) => JobDead(s)')
  <2>1. CASE UNCHANGED jobs
    BY <2>1, <1>2 DEF QueuesOK, HandOK, RowOK, InHand, JobKept, JobDead
  <2>2. CASE \E m \in FreeSlots(jobs) : jobs' = Put(jobs, {m}, r)
    BY <2>2, <1>1, <1>2, JobSent
  <2> QED
    BY <1>1, <2>1, <2>2 DEF SendJobFails
<1>4. /\ api'[q] = [pc |-> "reject", repo |-> r]
      /\ \A p \in Requests \ {q} : api'[p] = api[p]
      /\ api' \in [Requests -> [pc   : {"idle", "send", "reject", "dead"},
                                repo : Repos \cup {NoBody}]]
  BY <1>1 DEF SendJobFails
<1>5. TypeOK' /\ QueuesOK'
  BY <1>2, <1>3, <1>4 DEF QueuesOK, WellFormed
<1>6. PromisesOK'
  BY <1>1, <1>2, <1>4 DEF PromisesOK, SendJobFails
<1>7. CompletedIsTrue' /\ ReadyMeansIndexed'
  BY <1>2 DEF CompletedIsTrue, ReadyMeansIndexed
<1>8. Supported'
  <2> SUFFICES ASSUME NEW s \in Repos, repo'[s] \in Unfinished
               PROVE  Sending(s)' \/ JobKept(s)' \/ OutcomeComing(s)' \/ Lost(s)'
    BY DEF Supported
  <2>1. Sending(s) \/ JobKept(s) \/ OutcomeComing(s) \/ Lost(s)
    BY <1>2 DEF Supported
  <2>2. Sending(s) => Sending(s)'
    BY <1>1, <1>4 DEF Sending, SendJobFails
  <2>3. Lost(s) => Lost(s)'
    BY <1>2, <1>3, <1>4 DEF Lost, RequestDied, JobDead, OutcomeDead, SendJobFails
  <2>4. OutcomeComing(s) => OutcomeComing(s)'
    BY <1>2 DEF OutcomeComing
  <2> QED
    BY <2>1, <2>2, <2>3, <2>4, <1>3
<1> QED
  BY <1>3, <1>5, <1>6, <1>7, <1>8

\* Marking the send failed settles the repository.
LEMMA MarkSendFailedInv ==
  ASSUME IInv, NEW q \in Requests, MarkSendFailed(q)
  PROVE  IInv'
<1> USE DEF IInv, TypeOK
<1>1. PICK r \in Repos : r = api[q].repo
  BY DEF MarkSendFailed, PromisesOK
<1>2. UNCHANGED <<jobs, job, worker, events, faults>>
  BY DEF MarkSendFailed
<1>3. /\ repo' \in [Repos -> RepositoryStatuses]
      /\ repo'[r] = "failed"
      /\ \A s \in Repos \ {r} : repo'[s] = repo[s]
  BY <1>1 DEF MarkSendFailed, RepositoryStatuses
<1>4. /\ api'[q] = [pc |-> "idle", repo |-> NoBody]
      /\ \A p \in Requests \ {q} : api'[p] = api[p]
      /\ api' \in [Requests -> [pc   : {"idle", "send", "reject", "dead"},
                                repo : Repos \cup {NoBody}]]
  BY DEF MarkSendFailed
<1>5. TypeOK' /\ QueuesOK' /\ HandOK' /\ RowOK' /\ CompletedIsTrue'
  BY <1>2, <1>3, <1>4 DEF QueuesOK, HandOK, RowOK, CompletedIsTrue, InHand
<1>6. PromisesOK' /\ ReadyMeansIndexed'
  BY <1>1, <1>2, <1>3, <1>4 DEF PromisesOK, ReadyMeansIndexed
<1>7. Supported'
  <2> SUFFICES ASSUME NEW s \in Repos, repo'[s] \in Unfinished
               PROVE  Sending(s)' \/ JobKept(s)' \/ OutcomeComing(s)' \/ Lost(s)'
    BY DEF Supported
  <2>1. s # r /\ repo'[s] = repo[s]
    BY <1>1, <1>3 DEF Unfinished
  <2>2. Sending(s) \/ JobKept(s) \/ OutcomeComing(s) \/ Lost(s)
    BY <2>1 DEF Supported
  <2>3. Sending(s) => Sending(s)'
    BY <2>1, <1>1, <1>4 DEF Sending
  <2>4. Lost(s) => Lost(s)'
    BY <1>2, <1>4 DEF Lost, RequestDied, JobDead, OutcomeDead, MarkSendFailed
  <2>5. (JobKept(s) => JobKept(s)') /\ (OutcomeComing(s) => OutcomeComing(s)')
    BY <1>2 DEF JobKept, OutcomeComing
  <2> QED
    BY <2>2, <2>3, <2>4, <2>5
<1> QED
  BY <1>5, <1>6, <1>7

\* A request that dies is remembered as lost.
LEMMA RequestDiesInv ==
  ASSUME IInv, NEW q \in Requests, RequestDies(q)
  PROVE  IInv'
<1> USE DEF IInv, TypeOK
<1>1. /\ UNCHANGED <<repo, jobs, job, worker, events>>
      /\ faults' \in 0..MaxFaults
  BY IngestionAssumption DEF RequestDies, Fault
<1>2. /\ api'[q] = [pc |-> "dead", repo |-> api[q].repo]
      /\ \A p \in Requests \ {q} : api'[p] = api[p]
      /\ api' \in [Requests -> [pc   : {"idle", "send", "reject", "dead"},
                                repo : Repos \cup {NoBody}]]
  BY DEF RequestDies
<1>3. TypeOK' /\ QueuesOK' /\ HandOK' /\ RowOK' /\ CompletedIsTrue' /\ ReadyMeansIndexed'
  BY <1>1, <1>2 DEF QueuesOK, HandOK, RowOK, CompletedIsTrue, InHand, ReadyMeansIndexed
<1>4. PromisesOK'
  BY <1>1, <1>2 DEF PromisesOK, RequestDies
<1>5. Supported'
  <2> SUFFICES ASSUME NEW s \in Repos, repo'[s] \in Unfinished
               PROVE  Sending(s)' \/ JobKept(s)' \/ OutcomeComing(s)' \/ Lost(s)'
    BY DEF Supported
  <2>1. Sending(s) \/ JobKept(s) \/ OutcomeComing(s) \/ Lost(s)
    BY <1>1 DEF Supported
  <2>2. Sending(s) => Sending(s)' \/ Lost(s)'
    BY <1>2 DEF Sending, Lost, RequestDied
  <2>3. Lost(s) => Lost(s)'
    BY <1>1, <1>2 DEF Lost, RequestDied, JobDead, OutcomeDead
  <2>4. (JobKept(s) => JobKept(s)') /\ (OutcomeComing(s) => OutcomeComing(s)')
    BY <1>1 DEF JobKept, OutcomeComing
  <2> QED
    BY <2>1, <2>2, <2>3, <2>4
<1> QED
  BY <1>3, <1>4, <1>5

-----------------------------------------------------------------------------
(* Repository Service's worker *)

\* Receiving a job: it is live as long as it is in the worker's hand.
LEMMA ReceiveJobInv ==
  ASSUME IInv, NEW m \in JobSlots, ReceiveJob(m)
  PROVE  IInv'
<1> USE DEF IInv, TypeOK
<1>1. UNCHANGED <<repo, api, job, events, faults>> /\ worker' = [pc |-> "claim", msg |-> m]
  BY DEF ReceiveJob
<1>2. /\ WellFormed(jobs', JobSlots, Repos)
      /\ jobs'[m].st = "inflight" /\ jobs'[m].body = jobs[m].body
      /\ \A n \in JobSlots \ {m} : jobs'[n] = jobs[n]
  BY ReceiveFacts DEF ReceiveJob, QueuesOK
<1>3. TypeOK' /\ QueuesOK' /\ HandOK' /\ RowOK'
  BY <1>1, <1>2 DEF QueuesOK, HandOK, RowOK, WellFormed
<1>4. PromisesOK' /\ CompletedIsTrue' /\ ReadyMeansIndexed'
  BY <1>1 DEF PromisesOK, CompletedIsTrue, ReadyMeansIndexed
<1>5. Supported'
  <2> SUFFICES ASSUME NEW s \in Repos, repo'[s] \in Unfinished
               PROVE  Sending(s)' \/ JobKept(s)' \/ OutcomeComing(s)' \/ Lost(s)'
    BY DEF Supported
  <2>1. Sending(s) \/ JobKept(s) \/ OutcomeComing(s) \/ Lost(s)
    BY <1>1 DEF Supported
  <2>2. (Sending(s) => Sending(s)') /\ (OutcomeComing(s) => OutcomeComing(s)')
    BY <1>1 DEF Sending, OutcomeComing
  <2>3. DOMAIN jobs = JobSlots /\ DOMAIN jobs' = JobSlots /\ jobs[m].st = "visible"
    BY <1>2 DEF WellFormed, ReceiveJob
  <2>4. JobKept(s) => JobKept(s)'
    BY <1>1, <1>2, <2>3 DEF JobKept
  <2>5. Lost(s) => Lost(s)'
    BY <1>1, <1>2, <2>3 DEF Lost, RequestDied, JobDead, OutcomeDead
  <2> QED
    BY <2>1, <2>2, <2>4, <2>5
<1> QED
  BY <1>3, <1>4, <1>5

\* A step of the worker on the row in its hand, which never leaves `ready'.
LEMMA JobRowInv ==
  ASSUME IInv, ~At("idle"), UNCHANGED <<repo, api, jobs, events, faults>>,
         NEW row \in JobRow, job' = [job EXCEPT ![InHand] = row],
         job[InHand].status = "ready" => row.status = "ready",
         NEW pc \in {"load", "publish"}, Goto(pc),
         pc = "load" => row.status \in {"in_progress", "ready"},
         pc = "publish" => row.status \in {"ready", "failed"}
  PROVE  IInv'
<1> USE DEF IInv, TypeOK
<1>1. worker.msg \in JobSlots /\ jobs[worker.msg].st = "inflight" /\ InHand \in Repos
  BY DEF HandOK, QueuesOK, WellFormed, InHand
<1>2. worker' = [pc |-> pc, msg |-> worker.msg] /\ InHand' = InHand
  BY DEF Goto, InHand
<1>3. /\ job' \in [Repos -> JobRow]
      /\ job'[InHand] = row
      /\ \A r \in Repos \ {InHand} : job'[r] = job[r]
  BY <1>1
<1>4. \A r \in Repos : job[r].status = "ready" => job'[r].status = "ready"
  BY <1>3
<1>5. TypeOK' /\ QueuesOK' /\ HandOK'
  BY <1>1, <1>2, <1>3 DEF QueuesOK, HandOK
<1>6. RowOK'
  BY <1>2, <1>3 DEF RowOK
<1>7. PromisesOK' /\ ReadyMeansIndexed'
  BY <1>4 DEF PromisesOK, ReadyMeansIndexed
<1>8. CompletedIsTrue'
  BY <1>4 DEF CompletedIsTrue, QueuesOK, WellFormed, Event
<1>9. Supported'
  <2> SUFFICES ASSUME NEW s \in Repos, repo'[s] \in Unfinished
               PROVE  Sending(s)' \/ JobKept(s)' \/ OutcomeComing(s)' \/ Lost(s)'
    BY DEF Supported
  <2>1. Sending(s) \/ JobKept(s) \/ OutcomeComing(s) \/ Lost(s)
    BY DEF Supported
  <2>2. (Sending(s) => Sending(s)') /\ (OutcomeComing(s) => OutcomeComing(s)')
    BY DEF Sending, OutcomeComing
  <2>3. (JobKept(s) => JobKept(s)') /\ (Lost(s) => Lost(s)')
    BY <1>2 DEF JobKept, Lost, RequestDied, JobDead, OutcomeDead
  <2> QED
    BY <2>1, <2>2, <2>3
<1> QED
  BY <1>5, <1>6, <1>7, <1>8, <1>9

\* The repository in the worker's hand is one.
LEMMA InHandFacts ==
  ASSUME IInv, ~At("idle")
  PROVE  InHand \in Repos /\ job[InHand] \in JobRow
BY DEF IInv, TypeOK, HandOK, QueuesOK, WellFormed, InHand

\* Claiming, republishing, giving up and ingesting keep the invariant.
LEMMA RowStepInv ==
  ASSUME IInv, ClaimJob \/ RepublishOutcome \/ GiveUp \/ \E o \in Terminal : Ingest(o)
  PROVE  IInv'
<1>1. ~At("idle") /\ UNCHANGED <<repo, api, jobs, events, faults>>
  BY DEF ClaimJob, RepublishOutcome, GiveUp, Ingest
<1>2. PICK row : row = job[InHand]
  OBVIOUS
<1>3. InHand \in Repos /\ row \in JobRow
  BY <1>1, <1>2, InHandFacts
<1>4. job \in [Repos -> JobRow]
  BY DEF IInv, TypeOK
<1>5. CASE ClaimJob
  <2>1. job' = [job EXCEPT ![InHand] = Claimed(row)] /\ Goto("load")
    BY <1>2, <1>5 DEF ClaimJob
  <2>2. /\ Claimed(row) \in JobRow
        /\ Claimed(row).status \in {"in_progress", "ready"}
        /\ row.status = "ready" => Claimed(row).status = "ready"
    BY <1>3 DEF Claimed, JobRow
  <2> QED
    BY <1>1, <1>2, <2>1, <2>2, JobRowInv
<1>6. CASE RepublishOutcome
  <2>1. job' = [job EXCEPT ![InHand] = row] /\ Goto("publish")
    BY <1>2, <1>4, <1>6 DEF RepublishOutcome
  <2>2. row.status \in {"ready", "failed"}
    BY <1>2, <1>6 DEF RepublishOutcome
  <2> QED
    BY <1>1, <1>2, <1>3, <2>1, <2>2, JobRowInv
<1>7. CASE GiveUp \/ \E o \in Terminal : Ingest(o)
  <2>1. PICK o \in Terminal : job' = [job EXCEPT ![InHand].status = o]
    BY <1>7 DEF GiveUp, Ingest, Terminal
  <2>2. row.status = "in_progress" /\ Goto("publish")
    BY <1>2, <1>7 DEF GiveUp, Ingest, IInv, RowOK
  <2>3. PICK new : new = [row EXCEPT !.status = o]
    OBVIOUS
  <2>4. new \in JobRow /\ new.status \in {"ready", "failed"}
    BY <1>3, <2>3 DEF JobRow, Terminal
  <2>5. job' = [job EXCEPT ![InHand] = new]
    BY <1>2, <1>4, <2>1, <2>3
  <2> QED
    BY <1>1, <1>2, <2>2, <2>4, <2>5, JobRowInv
<1> QED
  BY <1>5, <1>6, <1>7

\* No outcome is taken off Core's queue.
OutcomesKept ==
  \A s \in Repos : (OutcomeComing(s) => OutcomeComing(s)') /\ (OutcomeDead(s) => OutcomeDead(s)')

\* Publishing an event that is true keeps every event already on the queue.
LEMMA EventPublished ==
  ASSUME IInv, UNCHANGED job, NEW S \in SUBSET FreeSlots(events), NEW ev \in Event,
         events' = Put(events, S, ev),
         ev.type = "completed" => job[ev.repo].status = "ready"
  PROVE  /\ WellFormed(events', EventSlots, Event)
         /\ CompletedIsTrue'
         /\ OutcomesKept
         /\ S # {} /\ ev.type \in OutcomeEvents => OutcomeComing(ev.repo)'
<1>1. /\ S \in SUBSET EventSlots
      /\ \A e \in S : events[e].st = "free"
      /\ WellFormed(events, EventSlots, Event)
  BY DEF IInv, QueuesOK, WellFormed, FreeSlots
<1>2. /\ WellFormed(events', EventSlots, Event)
      /\ \A e \in S : events'[e].st = "visible" /\ events'[e].body = ev
      /\ \A e \in EventSlots \ S : events'[e] = events[e]
  <2>1. /\ WellFormed(Put(events, S, ev), EventSlots, Event)
        /\ \A e \in S : Put(events, S, ev)[e].st = "visible" /\ Put(events, S, ev)[e].body = ev
        /\ \A e \in EventSlots \ S : Put(events, S, ev)[e] = events[e]
    <3>1. PICK q : q = events
      OBVIOUS
    <3>2. /\ WellFormed(Put(q, S, ev), EventSlots, Event)
          /\ \A e \in S : Put(q, S, ev)[e].st = "visible" /\ Put(q, S, ev)[e].body = ev
          /\ \A e \in EventSlots \ S : Put(q, S, ev)[e] = q[e]
      BY <1>1, <3>1, PutFacts
    <3> QED
      BY <3>1, <3>2
  <2> QED
    BY <2>1
<1>3. DOMAIN events = EventSlots /\ DOMAIN events' = EventSlots
  BY <1>1, <1>2 DEF WellFormed
<1>4. CompletedIsTrue'
  BY <1>1, <1>2 DEF CompletedIsTrue, IInv
<1>5. ASSUME NEW s \in Repos
      PROVE  (OutcomeComing(s) => OutcomeComing(s)') /\ (OutcomeDead(s) => OutcomeDead(s)')
  <2>1. \A e \in EventSlots : events[e].st # "free" => events'[e] = events[e]
    BY <1>1, <1>2
  <2> QED
    BY <1>3, <2>1 DEF OutcomeComing, OutcomeDead
<1>6. S # {} /\ ev.type \in OutcomeEvents => OutcomeComing(ev.repo)'
  BY <1>1, <1>2, <1>3 DEF OutcomeComing
<1> QED
  BY <1>2, <1>4, <1>5, <1>6 DEF OutcomesKept

\* A job that goes back to the queue is still coming, or dead.
LEMMA JobReturned ==
  ASSUME IInv, ~At("idle"), jobs' = Return(jobs, worker.msg), worker' = Idle
  PROVE  /\ WellFormed(jobs', JobSlots, Repos)
         /\ HandOK' /\ RowOK'
         /\ \A s \in Repos : (JobKept(s) => JobKept(s)' \/ JobDead(s)') /\ (JobDead(s) => JobDead(s)')
<1>1. PICK m \in JobSlots : m = worker.msg /\ jobs[m].st = "inflight"
  BY DEF IInv, HandOK
<1>2. /\ WellFormed(jobs', JobSlots, Repos)
      /\ jobs'[m].st \in {"visible", "dead"} /\ jobs'[m].body = jobs[m].body
      /\ \A n \in JobSlots \ {m} : jobs'[n] = jobs[n]
  BY <1>1, ReturnFacts DEF IInv, QueuesOK
<1>3. HandOK' /\ RowOK' /\ ~At("delete")'
  BY DEF HandOK, RowOK, Idle
<1>4. DOMAIN jobs = JobSlots /\ DOMAIN jobs' = JobSlots
  BY <1>2 DEF IInv, TypeOK, WellFormed
<1>5. ASSUME NEW s \in Repos
      PROVE  /\ JobKept(s) => JobKept(s)' \/ JobDead(s)'
             /\ JobDead(s) => JobDead(s)'
  BY <1>1, <1>2, <1>3, <1>4 DEF JobKept, JobDead
<1> QED
  BY <1>2, <1>3, <1>5

\* The event a worker publishes for the row in its hand.
LEMMA PublishedFacts ==
  ASSUME IInv, ~At("idle"), NEW type \in EventTypes, NEW S \in Copies, Published(type, S),
         UNCHANGED job, type = "completed" => job[InHand].status = "ready",
         NEW h \in Repos, h = InHand
  PROVE  /\ WellFormed(events', EventSlots, Event)
         /\ CompletedIsTrue'
         /\ OutcomesKept
         /\ S # {} /\ type \in OutcomeEvents => OutcomeComing(h)'
<1>1. PICK ev \in Event : ev = [repo |-> h, type |-> type]
  BY DEF Event
<1>2. events' = Put(events, S, ev) /\ S \in SUBSET FreeSlots(events)
  BY <1>1 DEF Published, Copies
<1>3. ev.repo = h /\ ev.type = type
  BY <1>1
<1>4. ev.type = "completed" => job[ev.repo].status = "ready"
  BY <1>3
<1>5. /\ WellFormed(events', EventSlots, Event)
      /\ CompletedIsTrue'
      /\ OutcomesKept
      /\ S # {} /\ ev.type \in OutcomeEvents => OutcomeComing(ev.repo)'
  BY <1>2, <1>4, EventPublished
<1> QED
  BY <1>3, <1>5

\* Publishing the started event and going on to ingest.
LEMMA StartIngestionInv ==
  ASSUME IInv, StartIngestion
  PROVE  IInv'
<1> USE DEF IInv, TypeOK
<1>1. /\ UNCHANGED <<repo, api, jobs, job, faults>>
      /\ ~At("idle") /\ job[InHand].status = "in_progress"
      /\ worker' = [pc |-> "ingest", msg |-> worker.msg]
  BY DEF StartIngestion, Goto
<1>2. PICK S \in Copies : Published("started", S)
  BY DEF StartIngestion
<1>3. /\ WellFormed(events', EventSlots, Event)
      /\ CompletedIsTrue'
      /\ OutcomesKept
  <2>1. "started" \in EventTypes /\ "started" # "completed"
    BY DEF EventTypes
  <2>2. PICK h \in Repos : h = InHand
    BY <1>1, InHandFacts
  <2> HIDE DEF IInv, TypeOK
  <2> QED
    BY <1>1, <1>2, <2>1, <2>2, PublishedFacts
<1>4. worker.msg \in JobSlots /\ InHand' = InHand
  BY <1>1 DEF HandOK, InHand
<1>5. TypeOK' /\ QueuesOK' /\ HandOK'
  BY <1>1, <1>3, <1>4 DEF QueuesOK, HandOK, WellFormed
<1>6. RowOK' /\ PromisesOK' /\ ReadyMeansIndexed'
  BY <1>1, <1>4 DEF RowOK, PromisesOK, ReadyMeansIndexed
<1>7. Supported'
  <2> SUFFICES ASSUME NEW s \in Repos, repo'[s] \in Unfinished
               PROVE  Sending(s)' \/ JobKept(s)' \/ OutcomeComing(s)' \/ Lost(s)'
    BY DEF Supported
  <2>1. Sending(s) \/ JobKept(s) \/ OutcomeComing(s) \/ Lost(s)
    BY <1>1 DEF Supported
  <2>2. (Sending(s) => Sending(s)') /\ (JobKept(s) => JobKept(s)')
    BY <1>1 DEF Sending, JobKept
  <2>3. Lost(s) => Lost(s)'
    BY <1>1, <1>3 DEF Lost, RequestDied, JobDead, OutcomesKept
  <2> QED
    BY <1>3, <2>1, <2>2, <2>3 DEF OutcomesKept
<1> QED
  BY <1>3, <1>5, <1>6, <1>7

\* The outcome published for the row in hand is the one it holds.
LEMMA OutcomePublished ==
  ASSUME IInv, At("publish"), UNCHANGED job, NEW h \in Repos, h = InHand,
         NEW S \in Copies, Published(OutcomeEvent(job[InHand].status), S)
  PROVE  /\ WellFormed(events', EventSlots, Event)
         /\ CompletedIsTrue'
         /\ OutcomesKept
         /\ S # {} => OutcomeComing(h)'
<1>1. PICK type : type = OutcomeEvent(job[InHand].status)
  OBVIOUS
<1>2. /\ type \in EventTypes /\ type \in OutcomeEvents
      /\ type = "completed" => job[InHand].status = "ready"
  BY <1>1 DEF OutcomeEvent, EventTypes, OutcomeEvents
<1>3. Published(type, S) /\ ~At("idle")
  BY <1>1
<1> QED
  BY <1>2, <1>3, PublishedFacts

\* A published outcome settles the repository, whose job may then go.
LEMMA PublishOutcomeInv ==
  ASSUME IInv, PublishOutcome
  PROVE  IInv'
<1> USE DEF IInv, TypeOK
<1>1. /\ UNCHANGED <<repo, api, jobs, job, faults>>
      /\ At("publish")
      /\ worker' = [pc |-> "delete", msg |-> worker.msg]
  BY DEF PublishOutcome, Goto
<1>2. PICK h \in Repos : h = InHand
  BY <1>1, InHandFacts
<1>3. PICK S \in Copies \ {{}} : Published(OutcomeEvent(job[InHand].status), S)
  BY DEF PublishOutcome
<1>4. /\ WellFormed(events', EventSlots, Event)
      /\ CompletedIsTrue'
      /\ OutcomesKept
      /\ OutcomeComing(h)'
  <2> HIDE DEF IInv, TypeOK
  <2> QED
    BY <1>1, <1>2, <1>3, OutcomePublished
<1>5. worker.msg \in JobSlots /\ InHand' = InHand
  BY <1>1 DEF HandOK, InHand
<1>6. TypeOK' /\ QueuesOK' /\ HandOK'
  BY <1>1, <1>4, <1>5 DEF QueuesOK, HandOK, WellFormed
<1>7. RowOK' /\ PromisesOK' /\ ReadyMeansIndexed'
  BY <1>1, <1>5 DEF RowOK, PromisesOK, ReadyMeansIndexed
<1>8. Supported'
  <2> SUFFICES ASSUME NEW s \in Repos, repo'[s] \in Unfinished
               PROVE  Sending(s)' \/ JobKept(s)' \/ OutcomeComing(s)' \/ Lost(s)'
    BY DEF Supported
  <2>1. Sending(s) \/ JobKept(s) \/ OutcomeComing(s) \/ Lost(s)
    BY <1>1 DEF Supported
  <2>2. Sending(s) => Sending(s)'
    BY <1>1 DEF Sending
  <2>3. JobKept(s) => JobKept(s)' \/ s = h
    BY <1>1, <1>2 DEF JobKept, InHand
  <2>4. Lost(s) => Lost(s)'
    BY <1>1, <1>4 DEF Lost, RequestDied, JobDead, OutcomesKept
  <2> QED
    BY <1>4, <2>1, <2>2, <2>3, <2>4 DEF OutcomesKept
<1> QED
  BY <1>4, <1>6, <1>7, <1>8

\* Whatever the worker published, a job it returns is coming again or dead.
LEMMA WorkerReturnsInv ==
  ASSUME IInv, ~At("idle"), UNCHANGED <<repo, api, job>>, faults' \in 0..MaxFaults,
         jobs' = Return(jobs, worker.msg), worker' = Idle,
         WellFormed(events', EventSlots, Event), CompletedIsTrue', OutcomesKept
  PROVE  IInv'
<1> USE DEF IInv, TypeOK
<1>1. /\ WellFormed(jobs', JobSlots, Repos)
      /\ HandOK' /\ RowOK'
      /\ \A s \in Repos : (JobKept(s) => JobKept(s)' \/ JobDead(s)') /\ (JobDead(s) => JobDead(s)')
  <2> HIDE DEF IInv, TypeOK
  <2> QED
    BY JobReturned
<1>2. TypeOK' /\ QueuesOK'
  BY <1>1 DEF QueuesOK, WellFormed, Idle
<1>3. PromisesOK' /\ ReadyMeansIndexed'
  BY DEF PromisesOK, ReadyMeansIndexed
<1>4. Supported'
  <2> SUFFICES ASSUME NEW s \in Repos, repo'[s] \in Unfinished
               PROVE  Sending(s)' \/ JobKept(s)' \/ OutcomeComing(s)' \/ Lost(s)'
    BY DEF Supported
  <2>1. Sending(s) \/ JobKept(s) \/ OutcomeComing(s) \/ Lost(s)
    BY DEF Supported
  <2>2. Sending(s) => Sending(s)'
    BY DEF Sending
  <2>3. JobKept(s) => JobKept(s)' \/ Lost(s)'
    BY <1>1 DEF Lost
  <2>4. Lost(s) => Lost(s)'
    BY <1>1 DEF Lost, RequestDied, OutcomesKept
  <2> QED
    BY <2>1, <2>2, <2>3, <2>4 DEF OutcomesKept
<1> QED
  BY <1>1, <1>2, <1>3, <1>4

\* A failing publish, and any other failure of the worker, returns the job.
LEMMA WorkerFailsInv ==
  ASSUME IInv, PublishOutcomeFails \/ WorkerFails
  PROVE  IInv'
<1>1. /\ ~At("idle") /\ UNCHANGED <<repo, api, job>>
      /\ jobs' = Return(jobs, worker.msg) /\ worker' = Idle
  BY DEF PublishOutcomeFails, WorkerFails
<1>2. faults' \in 0..MaxFaults
  BY IngestionAssumption DEF IInv, TypeOK, PublishOutcomeFails, WorkerFails, Fault
<1>3. WellFormed(events', EventSlots, Event) /\ CompletedIsTrue' /\ OutcomesKept
  <2>1. CASE PublishOutcomeFails
    <3>1. At("publish")
      BY <2>1 DEF PublishOutcomeFails
    <3>2. PICK h \in Repos : h = InHand
      BY <1>1, InHandFacts
    <3>3. PICK S \in Copies : Published(OutcomeEvent(job[InHand].status), S)
      BY <2>1 DEF PublishOutcomeFails
    <3> QED
      BY <1>1, <3>1, <3>2, <3>3, OutcomePublished
  <2>2. CASE WorkerFails
    <3>1. UNCHANGED events
      BY <2>2 DEF WorkerFails
    <3> QED
      BY <1>1, <3>1
      DEF IInv, QueuesOK, CompletedIsTrue, OutcomesKept, OutcomeComing, OutcomeDead
  <2> QED
    BY <2>1, <2>2
<1> QED
  BY <1>1, <1>2, <1>3, WorkerReturnsInv

\* Deleting the handled job: nothing was counting on it any more.
LEMMA DeleteJobInv ==
  ASSUME IInv, DeleteJob
  PROVE  IInv'
<1> USE DEF IInv, TypeOK
<1>1. /\ UNCHANGED <<repo, api, job, events, faults>>
      /\ At("delete") /\ worker' = Idle /\ jobs' = Delete(jobs, worker.msg)
  BY DEF DeleteJob
<1>2. PICK m \in JobSlots : m = worker.msg /\ jobs[m].st = "inflight"
  BY <1>1 DEF HandOK
<1>3. /\ WellFormed(jobs', JobSlots, Repos)
      /\ jobs'[m].st = "free"
      /\ \A n \in JobSlots \ {m} : jobs'[n] = jobs[n]
  BY <1>1, <1>2, DeleteFacts DEF QueuesOK
<1>4. TypeOK' /\ QueuesOK' /\ HandOK' /\ RowOK'
  BY <1>1, <1>3 DEF QueuesOK, HandOK, RowOK, WellFormed, Idle
<1>5. CompletedIsTrue' /\ PromisesOK' /\ ReadyMeansIndexed'
  BY <1>1 DEF CompletedIsTrue, PromisesOK, ReadyMeansIndexed
<1>6. Supported'
  <2> SUFFICES ASSUME NEW s \in Repos, repo'[s] \in Unfinished
               PROVE  Sending(s)' \/ JobKept(s)' \/ OutcomeComing(s)' \/ Lost(s)'
    BY DEF Supported
  <2>1. Sending(s) \/ JobKept(s) \/ OutcomeComing(s) \/ Lost(s)
    BY <1>1 DEF Supported
  <2>2. (Sending(s) => Sending(s)') /\ (OutcomeComing(s) => OutcomeComing(s)')
    BY <1>1 DEF Sending, OutcomeComing
  <2>3. DOMAIN jobs = JobSlots /\ DOMAIN jobs' = JobSlots
    BY <1>3 DEF WellFormed
  <2>4. JobKept(s) => JobKept(s)'
    BY <1>1, <1>2, <1>3, <2>3 DEF JobKept, Idle
  <2>5. Lost(s) => Lost(s)'
    BY <1>1, <1>2, <1>3, <2>3 DEF Lost, RequestDied, JobDead, OutcomeDead
  <2> QED
    BY <2>1, <2>2, <2>4, <2>5
<1> QED
  BY <1>4, <1>5, <1>6

-----------------------------------------------------------------------------
(* Core's worker *)

\* What an event does to the rows the users see.
LEMMA EventApplied ==
  ASSUME IInv, NEW ev \in Event, ApplyIngestionEvent(ev),
         ev.type = "completed" => job[ev.repo].status = "ready"
  PROVE  /\ repo' \in [Repos -> RepositoryStatuses]
         /\ \A r \in Repos :
              /\ repo'[r] = "none" => repo[r] = "none"
              /\ repo'[r] \in Unfinished => repo[r] \in Unfinished
              /\ repo'[r] = "ready" => repo[r] = "ready" \/ job[r].status = "ready"
         /\ ev.type \in OutcomeEvents => repo'[ev.repo] \notin Unfinished
<1>1. ev.repo \in Repos /\ ev.type \in EventTypes
  BY DEF Event
<1>2. /\ TargetOf(ev.type) \in {"in_progress", "ready", "failed"}
      /\ TargetOf(ev.type) = "ready" => ev.type = "completed"
      /\ ev.type \in OutcomeEvents => TargetOf(ev.type) \notin Unfinished
  BY <1>1 DEF TargetOf, EventTypes, OutcomeEvents, Unfinished
<1>3. repo \in [Repos -> RepositoryStatuses]
  BY DEF IInv, TypeOK
<1>4. /\ repo'[ev.repo] = IF repo[ev.repo] \in Unfinished THEN TargetOf(ev.type) ELSE repo[ev.repo]
      /\ \A r \in Repos \ {ev.repo} : repo'[r] = repo[r]
      /\ DOMAIN repo' = Repos
  BY <1>1, <1>3 DEF ApplyIngestionEvent
<1>5. repo' \in [Repos -> RepositoryStatuses]
  BY <1>1, <1>2, <1>3 DEF ApplyIngestionEvent, RepositoryStatuses
<1> QED
  BY <1>1, <1>2, <1>4, <1>5

\* An event leaves Core's queue only after it was applied.
LEMMA CoreStepInv ==
  ASSUME IInv, CoreStep
  PROVE  IInv'
<1> USE DEF IInv, TypeOK
<1>1. PICK e \in EventSlots : HandleEvent(e) \/ HandleEventFails(e)
  BY DEF CoreStep
<1>2. /\ events[e].st = "visible" /\ UNCHANGED <<api, jobs, job, worker>>
      /\ faults' \in 0..MaxFaults
  BY <1>1, IngestionAssumption DEF HandleEvent, HandleEventFails, Fault
<1>3. PICK ev \in Event : ev = events[e].body
  BY <1>2 DEF QueuesOK, WellFormed
<1>4. /\ WellFormed(events', EventSlots, Event)
      /\ events'[e].st \in {"free", "visible", "dead"}
      /\ events'[e].st # "free" => events'[e].body = ev
      /\ events'[e].st = "free" => ApplyIngestionEvent(ev)
      /\ \A n \in EventSlots \ {e} : events'[n] = events[n]
  <2>1. CASE HandleEvent(e)
    BY <1>3, <2>1, DeleteFacts DEF HandleEvent, QueuesOK
  <2>2. CASE HandleEventFails(e)
    <3>1. events' = Return(Receive(events, e), e) /\ WellFormed(events, EventSlots, Event)
      BY <2>2 DEF HandleEventFails, QueuesOK
    <3> HIDE DEF IInv, TypeOK
    <3> QED
      BY <1>2, <1>3, <3>1, RedeliverFacts
  <2> QED
    BY <1>1, <2>1, <2>2
<1>5. /\ repo' \in [Repos -> RepositoryStatuses]
      /\ \A r \in Repos :
           /\ repo'[r] = "none" => repo[r] = "none"
           /\ repo'[r] \in Unfinished => repo[r] \in Unfinished
           /\ repo'[r] = "ready" => repo[r] = "ready" \/ job[r].status = "ready"
      /\ events'[e].st = "free" /\ ev.type \in OutcomeEvents => repo'[ev.repo] \notin Unfinished
  <2>1. ev.type = "completed" => job[ev.repo].status = "ready"
    BY <1>2, <1>3 DEF CompletedIsTrue
  <2>2. CASE ApplyIngestionEvent(ev)
    <3> HIDE DEF IInv, TypeOK
    <3> QED
      BY <2>1, <2>2, EventApplied
  <2>3. CASE UNCHANGED repo /\ events'[e].st # "free"
    BY <2>3
  <2> QED
    BY <1>1, <1>3, <1>4, <2>2, <2>3 DEF HandleEvent, HandleEventFails
<1>6. TypeOK' /\ QueuesOK'
  BY <1>2, <1>4, <1>5 DEF QueuesOK, WellFormed
<1>7. HandOK' /\ RowOK' /\ PromisesOK' /\ ReadyMeansIndexed'
  BY <1>2, <1>5 DEF HandOK, RowOK, InHand, PromisesOK, ReadyMeansIndexed
<1>8. CompletedIsTrue'
  BY <1>2, <1>3, <1>4 DEF CompletedIsTrue
<1>9. Supported'
  <2> SUFFICES ASSUME NEW s \in Repos, repo'[s] \in Unfinished
               PROVE  Sending(s)' \/ JobKept(s)' \/ OutcomeComing(s)' \/ Lost(s)'
    BY DEF Supported
  <2>1. Sending(s) \/ JobKept(s) \/ OutcomeComing(s) \/ Lost(s)
    BY <1>5 DEF Supported
  <2>2. (Sending(s) => Sending(s)') /\ (JobKept(s) => JobKept(s)')
    BY <1>2 DEF Sending, JobKept
  <2>3. DOMAIN events = EventSlots /\ DOMAIN events' = EventSlots
    BY <1>4 DEF WellFormed
  <2>4. OutcomeComing(s) => OutcomeComing(s)' \/ OutcomeDead(s)'
    BY <1>3, <1>4, <1>5, <2>3 DEF OutcomeComing, OutcomeDead
  <2>5. Lost(s) => Lost(s)'
    BY <1>2, <1>4, <2>3 DEF Lost, RequestDied, JobDead, OutcomeDead
  <2> QED
    BY <2>1, <2>2, <2>4, <2>5 DEF Lost
<1> QED
  BY <1>6, <1>7, <1>8, <1>9

-----------------------------------------------------------------------------
(* The invariant and what follows from it *)

\* No step leaves the invariant.
LEMMA NextInv == IInv /\ [Next]_vars => IInv'
<1> SUFFICES ASSUME IInv, [Next]_vars PROVE IInv'
  OBVIOUS
<1>1. CASE UserStep
  <2>1. PICK q \in Requests, r \in Repos : CreateRepository(q, r) \/ RetryRepository(q, r)
    BY <1>1 DEF UserStep
  <2> QED
    BY <2>1, PromiseInv DEF CreateRepository, RetryRepository
<1>2. CASE \E q \in Requests : ApiStep(q) \/ RequestDies(q)
  BY <1>2, SendJobInv, SendJobFailsInv, MarkSendFailedInv, RequestDiesInv DEF ApiStep
<1>3. CASE WorkerStep
  BY <1>3, ReceiveJobInv, RowStepInv, StartIngestionInv, PublishOutcomeInv,
     WorkerFailsInv, DeleteJobInv DEF WorkerStep
<1>4. CASE WorkerFails
  BY <1>4, WorkerFailsInv
<1>5. CASE CoreStep
  BY <1>5, CoreStepInv
<1>6. CASE UNCHANGED vars
  BY <1>6 DEF vars, IInv, TypeOK, QueuesOK, HandOK, PromisesOK, RowOK, InHand, CompletedIsTrue,
     ReadyMeansIndexed, Supported, Sending, JobKept, OutcomeComing, Lost, RequestDied,
     JobDead, OutcomeDead
<1> QED
  BY <1>1, <1>2, <1>3, <1>4, <1>5, <1>6 DEF Next

\* The invariant holds in every state a run can reach.
THEOREM Invariance == Spec => []IInv
BY InitIInv, NextInv, PTL DEF Spec

\* Every state is one the two databases, the queues and the worker can hold.
THEOREM TypeCorrect == Spec => []TypeOK
<1>1. IInv => TypeOK
  BY DEF IInv
<1> QED
  BY <1>1, Invariance, PTL

\* The user is never shown `ready' for a repository that is not indexed.
THEOREM Agreement == Spec => []ReadyMeansIndexed
<1>1. IInv => ReadyMeansIndexed
  BY DEF IInv
<1> QED
  BY <1>1, Invariance, PTL

\* A repository is never left unfinished with nothing in flight and nothing
\* lost on the way.
THEOREM NothingStranded == Spec => []NeverStranded
<1>1. IInv => NeverStranded
  <2> SUFFICES ASSUME IInv, NEW r \in Repos, repo[r] \in Unfinished
               PROVE  InFlight(r) \/ Lost(r)
    BY DEF NeverStranded
  <2>1. JobKept(r) => JobComing(r)
    BY DEF JobKept, JobComing
  <2> QED
    BY <2>1 DEF IInv, Supported, InFlight
<1> QED
  BY <1>1, Invariance, PTL

-----------------------------------------------------------------------------
(* The ingestion protocol, with its queues and its faults, implements the
   machine of RepositoryStatus.  Each step of the protocol is one step of
   that machine or leaves it alone: a started event may be a Start, a
   completed event a Succeed (its row is in `indexed'), an ingestion that
   ends `ready' is an Index, and only a request's own step moves what it
   owes.                                                                  *)

Indexed == {r \in Repos : job[r].status = "ready"}

\* What requests owe, or are refused, is theirs to change.
LEMMA SameRequests ==
  ASSUME UNCHANGED api
  PROVE  \A pc : RequestsAt(pc)' = RequestsAt(pc)
BY DEF RequestsAt

\* A step that changes neither status, nor indexed, nor what requests owe.
LEMMA Stutters ==
  ASSUME UNCHANGED repo, Indexed' = Indexed, UNCHANGED api
  PROVE  UNCHANGED Promises!vars
BY SameRequests DEF Promises!vars, Indexed

LEMMA InitRefines == Init => Promises!Init
BY DEF Init, Promises!Init, RequestsAt

\* A request that goes to a pc takes its pair there.
LEMMA RequestGoes ==
  ASSUME NEW q \in Requests, \A p \in Requests \ {q} : api'[p] = api[p]
  PROVE  \A pc :
           /\ api'[q].pc # pc => RequestsAt(pc)' = {x \in RequestsAt(pc) : x[1] # q}
           /\ \A r \in Repos : api'[q].pc = pc /\ api'[q].repo = r
                => RequestsAt(pc)' = {x \in RequestsAt(pc) : x[1] # q} \cup {<<q, r>>}
<1> SUFFICES ASSUME NEW pc
             PROVE  /\ api'[q].pc # pc => RequestsAt(pc)' = {x \in RequestsAt(pc) : x[1] # q}
                    /\ \A r \in Repos : api'[q].pc = pc /\ api'[q].repo = r
                         => RequestsAt(pc)' = {x \in RequestsAt(pc) : x[1] # q} \cup {<<q, r>>}
  OBVIOUS
<1>1. \A p \in Requests, y \in Repos :
        <<p, y>> \in RequestsAt(pc)' <=>
          IF p = q THEN api'[q].pc = pc /\ api'[q].repo = y ELSE <<p, y>> \in RequestsAt(pc)
  BY DEF RequestsAt
<1>2. RequestsAt(pc)' \subseteq Requests \X Repos /\ RequestsAt(pc) \subseteq Requests \X Repos
  BY DEF RequestsAt
<1> QED
  BY <1>1, <1>2

\* A request that owes or is refused for r, as RepositoryStatus has it.
LEMMA PairAt ==
  ASSUME IInv, NEW q \in Requests, api[q].pc \in {"send", "reject"}
  PROVE  \E r \in Repos : /\ api[q].repo = r /\ repo[r] # "none"
                          /\ \A pc : {x \in RequestsAt(pc) : x[1] # q} = RequestsAt(pc) \ {<<q, r>>}
                          /\ <<q, r>> \in RequestsAt(api[q].pc)
                          /\ \A pc : pc # api[q].pc => <<q, r>> \notin RequestsAt(pc)
<1>1. PICK r \in Repos : r = api[q].repo /\ repo[r] # "none"
  BY DEF IInv, PromisesOK
<1>2. \A pc : {x \in RequestsAt(pc) : x[1] # q} = RequestsAt(pc) \ {<<q, r>>}
  BY <1>1 DEF RequestsAt
<1>3. <<q, r>> \in RequestsAt(api[q].pc) /\ \A pc : pc # api[q].pc => <<q, r>> \notin RequestsAt(pc)
  BY <1>1 DEF RequestsAt
<1> QED
  BY <1>1, <1>2, <1>3

\* Core API's requests are Register, Retry, Discharge, Refuse and Reject.
LEMMA ApiRefines ==
  ASSUME IInv, UserStep \/ \E q \in Requests : ApiStep(q) \/ RequestDies(q)
  PROVE  [Promises!Next]_(Promises!vars)
<1>1. job' = job /\ Indexed' = Indexed
  BY DEF UserStep, ApiStep, CreateRepository, RetryRepository, Promise, SendJob,
     SendJobFails, MarkSendFailed, RequestDies, Indexed
<1>2. api \in [Requests -> [pc : {"idle", "send", "reject", "dead"}, repo : Repos \cup {NoBody}]]
  BY DEF IInv, TypeOK
<1>3. CASE UserStep
  <2>1. PICK q \in Requests, r \in Repos : CreateRepository(q, r) \/ RetryRepository(q, r)
    BY <1>3 DEF UserStep
  <2>2. /\ repo' = [repo EXCEPT ![r] = "queued"] /\ repo[r] \in {"none", "failed"}
        /\ api[q].pc = "idle" /\ api' = [api EXCEPT ![q] = [pc |-> "send", repo |-> r]]
    BY <2>1 DEF CreateRepository, RetryRepository, Promise
  <2>3. \A pc : pc # "idle" => {x \in RequestsAt(pc) : x[1] # q} = RequestsAt(pc)
    BY <2>2 DEF RequestsAt
  <2>4. (\A p \in Requests \ {q} : api'[p] = api[p]) /\ api'[q].pc = "send" /\ api'[q].repo = r
    BY <1>2, <2>2
  <2>5. RequestsAt("send")' = RequestsAt("send") \cup {<<q, r>>} /\ RequestsAt("reject")' = RequestsAt("reject")
    BY <2>3, <2>4, RequestGoes
  <2>6. Promises!Register(q, r) \/ Promises!Retry(q, r)
    BY <1>1, <2>2, <2>5 DEF Promises!Register, Promises!Retry, Promises!Owe, Promises!Shown, Indexed
  <2> QED
    BY <2>6 DEF Promises!Next
<1>4. ASSUME NEW q \in Requests, SendJob(q) \/ SendJobFails(q) \/ MarkSendFailed(q) \/ RequestDies(q)
      PROVE  Promises!Next
  <2>1. api[q].pc \in {"send", "reject"}
    BY <1>4 DEF SendJob, SendJobFails, MarkSendFailed, RequestDies
  <2>2. PICK r \in Repos :
          /\ api[q].repo = r /\ repo[r] # "none"
          /\ \A pc : {x \in RequestsAt(pc) : x[1] # q} = RequestsAt(pc) \ {<<q, r>>}
          /\ <<q, r>> \in RequestsAt(api[q].pc)
          /\ \A pc : pc # api[q].pc => <<q, r>> \notin RequestsAt(pc)
    BY <2>1, PairAt
  <2>3. \A p \in Requests \ {q} : api'[p] = api[p]
    BY <1>2, <1>4 DEF SendJob, SendJobFails, MarkSendFailed, RequestDies
  <2>4. CASE SendJob(q) \/ RequestDies(q)
    <3>1. api'[q].pc \in {"idle", "dead"} /\ UNCHANGED repo
      BY <1>2, <2>4 DEF SendJob, RequestDies
    <3>2. /\ RequestsAt("send")' = RequestsAt("send") \ {<<q, r>>}
          /\ RequestsAt("reject")' = RequestsAt("reject") \ {<<q, r>>}
      BY <2>2, <2>3, <3>1, RequestGoes
    <3>3. Promises!Discharge(q, r)
      BY <1>1, <2>1, <2>2, <3>1, <3>2 DEF Promises!Discharge, Indexed
    <3> QED
      BY <3>3 DEF Promises!Next
  <2>5. CASE SendJobFails(q)
    <3>1. api[q].pc = "send" /\ api'[q].pc = "reject" /\ api'[q].repo = r /\ UNCHANGED repo
      BY <1>2, <2>2, <2>5 DEF SendJobFails
    <3>2. /\ RequestsAt("send")' = RequestsAt("send") \ {<<q, r>>}
          /\ RequestsAt("reject")' = RequestsAt("reject") \cup {<<q, r>>}
      BY <2>2, <2>3, <3>1, RequestGoes
    <3>3. Promises!Refuse(q, r)
      BY <1>1, <2>2, <3>1, <3>2 DEF Promises!Refuse, Indexed
    <3> QED
      BY <3>3 DEF Promises!Next
  <2>6. CASE MarkSendFailed(q)
    <3>1. api[q].pc = "reject" /\ api'[q].pc = "idle" /\ repo' = [repo EXCEPT ![r] = "failed"]
      BY <1>2, <2>2, <2>6 DEF MarkSendFailed
    <3>2. RequestsAt("send")' = RequestsAt("send") /\ RequestsAt("reject")' = RequestsAt("reject") \ {<<q, r>>}
      <4>1. \A pc \in {"send", "reject"} : RequestsAt(pc)' = RequestsAt(pc) \ {<<q, r>>}
        BY <2>2, <2>3, <3>1, RequestGoes
      <4>2. <<q, r>> \notin RequestsAt("send")
        BY <2>2, <3>1
      <4> QED
        BY <4>1, <4>2
    <3>3. Promises!Reject(q, r)
      BY <1>1, <2>2, <3>1, <3>2 DEF Promises!Reject, Promises!Shown, Indexed
    <3> QED
      BY <3>3 DEF Promises!Next
  <2> QED
    BY <1>4, <2>4, <2>5, <2>6
<1> QED
  BY <1>3, <1>4 DEF ApiStep

\* Repository Service's steps are Index, or invisible.
LEMMA WorkerRefines ==
  ASSUME IInv, WorkerStep \/ WorkerFails
  PROVE  [Promises!Next]_(Promises!vars)
<1>1. UNCHANGED <<repo, api>>
  BY DEF WorkerStep, ReceiveJob, ClaimJob, RepublishOutcome, GiveUp, StartIngestion, Ingest,
     PublishOutcome, PublishOutcomeFails, DeleteJob, WorkerFails
<1>2. CASE UNCHANGED job
  BY <1>1, <1>2, Stutters DEF Indexed
<1>3. CASE ClaimJob \/ GiveUp \/ \E outcome \in Terminal : Ingest(outcome)
  <2>1. ~At("idle")
    BY <1>3 DEF At, ClaimJob, GiveUp, Ingest
  <2>2. PICK h \in Repos : h = InHand /\ job[h] \in JobRow
    BY <2>1, InHandFacts
  <2>3. job \in [Repos -> JobRow]
    BY DEF IInv, TypeOK
  <2>4. PICK row : job' = [job EXCEPT ![h] = row] /\ (job[h].status = "ready" => row.status = "ready")
    <3>1. CASE ClaimJob
      BY <2>2, <3>1 DEF ClaimJob, Claimed, JobRow
    <3>2. CASE GiveUp
      BY <2>2, <2>3, <3>2 DEF GiveUp
    <3>3. ASSUME NEW outcome \in Terminal, Ingest(outcome)
          PROVE  \E row : /\ job' = [job EXCEPT ![h] = row]
                          /\ job[h].status = "ready" => row.status = "ready"
      <4>1. job[h].status = "in_progress"
        BY <2>2, <3>3 DEF Ingest, IInv, RowOK
      <4>2. job' = [job EXCEPT ![h] = [job[h] EXCEPT !.status = outcome]]
        BY <2>2, <2>3, <3>3 DEF Ingest
      <4> QED
        BY <4>1, <4>2
    <3> QED
      BY <1>3, <3>1, <3>2, <3>3
  <2>5. Indexed' = Indexed \/ Indexed' = Indexed \cup {h}
    BY <2>2, <2>3, <2>4 DEF Indexed
  <2>6. CASE Indexed' = Indexed \cup {h}
    <3>1. Promises!Index(h)
      BY <1>1, <2>6, SameRequests DEF Promises!Index, Indexed
    <3> QED
      BY <2>2, <3>1 DEF Promises!Next
  <2> QED
    BY <1>1, <2>5, <2>6, Stutters
<1> QED
  BY <1>2, <1>3 DEF WorkerStep, ReceiveJob, RepublishOutcome, StartIngestion, PublishOutcome,
     PublishOutcomeFails, DeleteJob, WorkerFails

\* An event that applies is a Start, a Succeed or a Fail.
LEMMA CoreRefines ==
  ASSUME IInv, CoreStep
  PROVE  [Promises!Next]_(Promises!vars)
<1>1. PICK e \in EventSlots : HandleEvent(e) \/ HandleEventFails(e)
  BY DEF CoreStep
<1>2. UNCHANGED <<job, api>> /\ Indexed' = Indexed /\ events[e].st = "visible"
  BY <1>1 DEF HandleEvent, HandleEventFails, Indexed
<1>3. PICK ev \in Event : ev = events[e].body
  BY <1>2 DEF IInv, QueuesOK, WellFormed
<1>4. ev.repo \in Repos /\ ev.type \in EventTypes
  BY DEF Event
<1>5. repo \in [Repos -> RepositoryStatuses]
  BY DEF IInv, TypeOK
<1>6. CASE UNCHANGED repo
  BY <1>2, <1>6, Stutters
<1>7. CASE ApplyIngestionEvent(ev) /\ repo[ev.repo] \in Unfinished
  <2>1. repo' = [repo EXCEPT ![ev.repo] = TargetOf(ev.type)]
    BY <1>7 DEF ApplyIngestionEvent
  <2>2. CASE ev.type = "started"
    <3>1. Promises!Start(ev.repo)
      BY <1>2, <1>7, <2>1, <2>2, SameRequests
      DEF TargetOf, Unfinished, Promises!Start, Promises!Unfinished, Promises!Show, Promises!Shown, Indexed
    <3> QED
      BY <1>4, <3>1 DEF Promises!Next
  <2>3. CASE ev.type = "completed"
    <3>1. ev.repo \in Indexed
      BY <1>2, <1>3, <1>4, <2>3 DEF IInv, CompletedIsTrue, Indexed
    <3>2. Promises!Succeed(ev.repo)
      BY <1>2, <1>7, <2>1, <2>3, <3>1, SameRequests
      DEF TargetOf, Unfinished, Promises!Succeed, Promises!Unfinished, Promises!Show, Promises!Shown, Indexed
    <3> QED
      BY <1>4, <3>2 DEF Promises!Next
  <2>4. CASE ev.type = "failed"
    <3>1. Promises!Fail(ev.repo)
      BY <1>2, <1>7, <2>1, <2>4, SameRequests
      DEF TargetOf, Unfinished, Promises!Fail, Promises!Unfinished, Promises!Show, Promises!Shown, Indexed
    <3> QED
      BY <1>4, <3>1 DEF Promises!Next
  <2> QED
    BY <1>4, <2>2, <2>3, <2>4 DEF EventTypes
<1>8. CASE ApplyIngestionEvent(ev) /\ repo[ev.repo] \notin Unfinished
  <2>1. repo' = repo
    BY <1>4, <1>5, <1>8 DEF ApplyIngestionEvent
  <2> QED
    BY <1>2, <2>1, Stutters
<1> QED
  BY <1>1, <1>3, <1>6, <1>7, <1>8 DEF HandleEvent, HandleEventFails

\* What users see of an ingestion is what RepositoryStatus allows: the row is
\* `ready' only once the code is indexed, an event moves only an unfinished
\* row, and a row leaves `ready' or `failed' only by the user's retry of it or
\* by a request for it whose send was refused, at most once for each request.
THEOREM Refinement == Spec => KeepsPromises
<1>1. IInv /\ [Next]_vars => [Promises!Next]_(Promises!vars)
  <2> SUFFICES ASSUME IInv, [Next]_vars PROVE [Promises!Next]_(Promises!vars)
    OBVIOUS
  <2>1. CASE UNCHANGED vars
    BY <2>1, Stutters DEF vars, Indexed
  <2> QED
    BY <2>1, ApiRefines, WorkerRefines, CoreRefines DEF Next
<1> QED
  BY <1>1, InitRefines, Invariance, PTL DEF Spec, KeepsPromises, Promises!Spec
=============================================================================
