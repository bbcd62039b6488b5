# RepoViva: specifications, model checks and proofs

RepoViva interviews a developer, aloud, about their own repository. Four
services share one deployment: **Core API** (users, repositories, interviews),
**Repository Service** (ingestion, retrieval), **Voice Service** (planning, the
live session) and **Evaluation Service** (reports). They call each other over
HTTP and exchange jobs (SQS) and events (EventBridge to SQS). Each keeps its own
store and no transaction spans two of them, so every promise made to the user is
kept by handlers that must stand being run twice, late, half way or never.

This directory holds TLA+ specifications of that coordination, the TLC
configurations that check them on small instances, and TLAPS proofs of what
holds for every instance. `PROJECT.json` lists all of it: which definition
models which lines, what each run checks, a mutant of the code that each
property catches, and the hazards the properties are for.

## 1. The system

### Components

| Component | State it keeps | Operations | Modelled by |
|---|---|---|---|
| Messaging (`repoviva_common/messaging.py`, `infra/localstack/init-queues.sh`) | queues, receive counts, dead letters | send, publish, receive, delete, give back, dead-letter | `SqsQueue` |
| Repositories (Core API) | `repositories.status` | create, retry, fail a send, apply an ingestion event | `RepositoryStatus`, `Ingestion` |
| Ingestion worker (Repository Service) | `ingestion_jobs` (status, attempts) | claim, run, give up, store, publish, publish again | `Ingestion` |
| Interviews (Core API) | `interviews.status`, token hash, expiry, consumption time | create, consume token, apply end event, end overdue | `InterviewStatus`, `Interviews` |
| Session admission and end (Voice Service) | one coroutine per socket | admit, run, time out, report the end, crash | `Interviews` |
| Reports (Evaluation Service) | `reports` (status, partial) | claim, check, generate, mark ready, mark failed | `ReportStatus`, `Reports` |
| Report recovery (Core API) | none | read, retry: each may queue a job | `Reports` |
| Planning (Voice worker, Core API endpoints, live page) | `interview_sessions.plan_status`, what the page shows | request, claim, plan twice, save, fail, poll, retry, open the session | `PlanStatus`, `Planning` |
| Live session (runner, turn store, the page's reducer and hook) | `questions[].status` and answers, the audio at hand, the page's phase | ask, speak, hear, transcribe, store, stop, leave, lose the connection | `Turns`, `LiveReducer`, `LiveSession` |
| Fetching, indexing and retrieval (Repository Service) | the clone, `code_chunks` | clone, count, index file by file, fail, index again, list files, search, look up | `Sources`, `Indexing`, `Contents`; one step of `Ingestion` |
| Areas, plan writing, grading, scores | the plan's chunks, the report | `pick_areas`, retrieve, order, fetch again, grade, ground, average | `Areas`, `Grading`, `Contents` |
| Language models, speech | none | provider calls | replies in `Contents`; failures wherever they are called |
| Sign-in, cookies, users; signatures; HTTP clients | request-local | | not modelled |
| Frontend pages | request-local | poll, retry | the user of the fairness assumptions |

### How they interact

    user ── HTTP ──▶ Core API ── ingestion.requested ──▶ Repository worker
                        ▲  ▲                                   │
                        │  └────────── ingestion.* ────────────┘
     page ── WebSocket ─┼─▶ Voice Service ── HTTP consume ──▶ Core API
                        │        │
                        └────────┴── interview.ended ──▶ Evaluation worker
                     Core API ────── report.requested ──▶ (same worker, second queue)
     page ─ polls ─▶ Core API ────── plan.requested ────▶ Voice worker

`interview.ended` fans out to two queues that know nothing of each other: Core's,
which ends the interview, and Evaluation's, which starts the report.

### What is hard about it

* **Two writes, one crash between them.** A row is committed and then a job is
  sent (`repositories/router.py:64`); an outcome is stored and then published
  (`orchestrator.py:68`); a report is marked and then its message deleted.
* **At-least-once, unordered delivery.** Every handler meets duplicates, stale
  messages of an earlier attempt, and the redrive policy that gives up on the
  third receive.
* **Lost answers.** A call or a send may take effect and be reported as failed:
  the consume call (`runner.py:228`), `send_message` (`router.py:114`), a
  statement whose connection breaks after its commit.
* **Races on one row.** Two sockets with one token; a retry and a late event of
  the run before; two pollers of one worker on one report.
* **Two ends of a socket.** Frames, an error about them and the press of a button
  cross; the runner reads only between turns; the page reads its phase through a ref
  that is one render behind (`useLiveInterview.ts:42`).
* **Half a pass.** Indexing writes file by file to a table that all repositories
  share (`flow.py:116`). It may fail between any two files, and the pass after it
  starts from the rows it left, with a clone that may be of a later commit, while
  interviews planned on the old rows are held and graded.
* **Time.** A token lives five minutes, a session thirty, and a read ends an
  interview that has been active for thirty-five.
* **Recovery that must not need an operator.** What is lost must come back by a
  redelivery or by something the user does anyway.

### What makes each component correct

* *Ingestion*: `ready` means indexed; nothing is left unfinished with nothing in
  flight; each status change is one the machine allows; every ingestion ends.
* *Interviews*: one session per token; the cutoff never ends a session under way;
  `completed` means the session was; every active interview ends.
* *Reports*: a whole report is of a completed session; a ready report is final; no
  row stays `generating` unattended; the user who keeps asking gets a report.
* *Planning*: a ready plan is never rewritten; no plan stays `generating`
  unattended; a session never starts without its plan; who waits is served.
* *Live session*: questions are asked in order and answered once; an answer is the
  whole of one recording made for its question; the page counts only what is
  stored; page and server never wait for each other.
* *Indexing*: an index that is ready is its source, whatever was left by passes that
  failed; code that did not change never leaves the table.
* *Contents*: the areas cover the code and do not overlap; a question is about its
  area; what a report cites is code the model was shown and that was still there when it was fetched; its
  numbers are those of the turns that were graded.

## 2. The modules

### `SqsQueue` — a queue and its redrive policy

A queue is a function from slots to messages `[st, receives, body]`. `Put` is an
accepted send, `Receive` takes a visible message out of sight and counts it,
`Return` makes it visible again or dead after `MaxReceiveCount` receives, `Delete`
frees the slot. Any visible message may be received next, so order is free.
EventBridge's at-least-once delivery is `Put` into a set of slots: none (lost),
one, or several (duplicates). The slots bound the messages that exist at once,
never the number sent over time.

### `Ingestion` over `RepositoryStatus`

`RepositoryStatus` is what the user is promised: a status machine in which
`ready` needs an indexed repository, retry is from `failed` only, and nothing takes a
repository out of `ready` but a request whose send was refused, once. So that this can
be said, the machine follows the requests too: `owed` are those that have registered or
restarted a row and have yet to send its job, `refused` those whose send failed and
that have yet to mark the row. `Ingestion` maps them to the requests whose `pc` is at
`send` and at `reject`. `Ingestion` is what the services do.
A request registers or restarts a row (`CreateRepository`, `RetryRepository`: the
committed half) and then sends (`SendJob`), fails to (`SendJobFails`, with or
without SQS having accepted it, then `MarkSendFailed`), or dies. The worker's
`pc` follows `run_ingestion`: claim the row, load it, and then either republish a
finished outcome, give up on the attempt past `MAX_ATTEMPTS`, or start, ingest and
publish. `PublishOutcome` may duplicate; `PublishOutcomeFails` returns the
message. `HandleEvent` is Core's handler, one transaction under a row lock.
`WorkerFails` is any exception or crash, at any `pc`.

### `Interviews` over `InterviewStatus`

`InterviewStatus` relates the status Core shows to the session Voice held.
`Interviews` has Core's row (status, ticks left on the token, ticks since it was
consumed), the end events' queue, and one record per connection. The consume
call is three steps, since it crosses a network: asked, answered by Core in one
UPDATE (`ConsumeToken`), acted on by Voice; `ConsumeCallFails` loses either half,
and an abandoned request may still reach Core. `EndOverdueSessions` is the update
that runs in front of the user's reads. `VoiceDies` ends every session with no
event. `session` is a history variable: what became of each session.
`Tick` passes time for tokens, activity and sessions at once; each age saturates
at the value past which no comparison in the code tells it apart, so time is
unbounded and the state space is not.

### `Reports` over `ReportStatus`

`ReportStatus` is the promised life of a report: begun when its session is over,
finished once, started over only when failed, final when ready. `Reports` has the
two queues of Evaluation's worker and a poller for each. A poller's `pc` follows
`request_report` and `run_generation`, one step per SQL statement: claim, read the
status (a second statement: the other poller may act in between), generate, mark
ready, mark failed, delete. `MarkReadyFails` covers an error before or after the
commit, which the code treats as a failed generation. `StatementFails` is any
other error, after which the message comes back; `WorkerDies` returns what both
pollers had in hand. Core's endpoints are two steps, read and send.

The interviews of `Reports` move as `InterviewStatus` allows
(`Interview == INSTANCE InterviewStatus`), the specification `Interviews` is proved
to implement: this is how the two are composed without multiplying their states.

### `Planning` over `PlanStatus`

`PlanStatus` is the promised life of a plan: begun, failed (retryably or not),
begun anew only when failed, final when ready, and a session only on a ready one.
`Planning` has four actors. The *page* of an interview is what it shows and which
request it awaits: `PollPlan` while it shows "Preparing", `RetryPlan` for "Try
again", `StartSession` when it has seen `ready`. `useResource` drops an answer
that a later poll has overtaken (`PollOvertakes`, a fault of kind `slow`), and
`TakeAnswer` does so. *Core's requests* take two steps, the plan's status read and
the job sent, with the interview's row read as the request starts; a poll sends a
job when it finds no plan, a retry when the plan is gone or failed retryably.
The *worker's* `pc` follows `handle_plan_requested` and `run_planning`: claim,
check, attempt (twice at most), save, or fail. Errors inside `run_planning` become
a failed plan (`PlanningStatementFails`, with the write committed or not); errors
of the claim, or of storing the failure, give the message back (`HandlerRaises`).
The *session* loads the plan some time after its token was consumed.

### `LiveSession`, over `LiveReducer` and `Turns`

`Turns` is what the stored interview promises, whatever happens to the socket:
questions are asked in order, each is answered once, and the session is completed
only if all are answered or the user stopped. `LiveReducer` is the page's reducer,
one operator per action of `liveReducer.ts`. `LiveSession` puts the page, with the
hook around the reducer, at one end of two FIFO channels and the runner at the
other. The runner's `pc` follows `InterviewSession.run` from admission to close; one
step per store statement and per message sent or taken, so the session limit, a
failing store or provider, and a write to a closed socket can fall between any two.

Audio is what can be told apart of it: a recording between two presses of the mic
button is a *take*, cut into frames; a frame is tagged with its take and the
question the page showed, and `audio.end` with the number of frames of its take. The
tags are history: the code sends raw bytes and never reads them. They are what lets
a property say that the answer stored is the whole of one recording for its
question. The page keeps the phase twice, in the reducer (`page.phase`) and as last
rendered (`hook.seen`, which is also what the ref its handlers read holds):
`Happened` lets one more event be handled in between, a fault of kind `lag`, except
after a click, which React renders synchronously. `waits` holds the callbacks that
wait for a playback to end, which skipping a question does not cancel.

### `Sources` and `Indexing`

A path is a sequence in which only the slash is told apart, and an id is what the
code makes it from: the file, the text, and how many chunks of the file with that
text there are so far. `Indexing` follows one repository's `stage` from queued
through a clone, the count against `MAX_REPO_CHUNKS`, and the pass to ready or
failed. A pass is not one write: `toDo` holds the files it has yet to come to, those
of the clone that are included and those the table still has rows of, and
`IndexFile` makes one file's rows what is declared for it, under a key of repository
and id. A file of a clone is given twice, by the texts it comes to when it is counted
and when it is read to be indexed, since the code walks and decodes it twice
(`os.walk` and UTF-8 with replacement characters in `runner.py`, CocoIndex's walk and
`read_text` in `flow.py`); a file that only one walk comes to has no texts in the other.
`PATH_MATCHER` (`Matched`) and `split_source` (`Split`) are shared, in the code too.
`PassFails` may come before any file, `Again` is the user's retry or the job delivered again, and the clone is then whatever the repository has become.
What is external is named so in `PROJECT.json`: git, and CocoIndex's reconciling of
declared rows with stored ones, which it does file by file.

### `Contents`, over `Indexing`, `Areas` and `Grading`

`Areas` is `pick_areas` and what it calls: split the largest area that splits until
there are enough, then trim. Of a path's characters only the slash is told apart, and
it sorts first; in the code `-` and `.` sort before it, which changes the order of areas
that tie and nothing that a property says. `Covered` is a reference that speaks of the files
alone. `Grading` is what becomes of a model's reply: trimmed, its citations held
against what the model was shown, ids in its prose replaced by files; and the average,
rounded half to even. `Contents` runs them in order: wait for the index
(`BecomesReady`), list the areas of its rows, retrieve the chunks of each, let the
model order the questions, hold the interview (any prefix of the questions asked, the
last perhaps unanswered), fetch the chunks again, grade each answer, pick the files
to revisit. The areas are retrieved concurrently, so `contexts` is a function that
fills up in any order. Meanwhile the repository may be ingested again (`IngestAgain`,
then `IndexRepository` one step at a time), so that rows come and go between any two
of these steps, and an area may have no code left by the time it is retrieved: the areas
with code are numbered for the model (`NumberOf`), and its numbers are looked up in that
list (`Numbered`); a call is refused for its rate (`RateLimited`), gives nothing usable
(`AskedAgain`, `Unusable`) or fails. A reply is anything its schema admits, ids that
do not exist included (`Invented`). Of an answer's two scores one is followed: both
are averaged alike.

### Proof modules

`SqsQueueProofs` has the lemmas on queues. `IngestionProofs`, `InterviewsProofs`,
`ReportsProofs`, `PlanningProofs` and `LiveSessionProofs` hold each component's
inductive invariant and the theorems it gives, and end with the proof that the
component implements its abstract machine. `LiveAnswersProofs` builds on
`LiveSessionProofs`: it follows the messages in flight. `ContentsProofs` is about
`Contents` and the modules it extends.

## 3. What the runs check

| Run | Instance | What it shows |
|---|---|---|
| `ingestion` | 1 repository, 2 requests, 2+2 slots, 3 receives, 2 faults of any kind | status and index agree (`ReadyMeansIndexed`), nothing stranded (`NeverStranded`), the status machine (`KeepsPromises`), `EveryIngestionEnds`, `IndexedIsShownReady` |
| `ingestion_ready_is_final` | sends that fail | **violated**: see findings |
| `ingestion_stranded` | events that are lost | **violated**: see findings |
| `interviews` | 1 interview, 3 connections, 2 slots, 3 receives, cutoff as tight as allowed, any crash | `OneSessionPerToken`, `SessionIsActive`, `KeepsPromises`, `EveryInterviewEnds` |
| `interviews_never_active` | 1 interview, no crash | **violated**: see findings |
| `reports` | 1 interview, 1 request, 2+2 slots, 2 faults of any kind | `WholeMeansCompleted`, `NeverStranded`, `KeepsPromises`, `EveryReportIsReady` |
| `reports_parallel` | the same, no fault at all | **violated**: see findings |
| `planning` | 1 interview, 2 requests, 2 slots, 3 receives, 3 faults of any kind | `SessionHasPlan`, `NeverStranded`, `KeepsPromises`, `EveryPageGetsOn` |
| `live_session` | 2 questions, 2 takes of up to 3 frames, 2 faults of any of 8 kinds | `AnswersItsQuestion`, `NoStandoff`, `ErrorIsAboutThisAnswer`, `PageTellsTheTruth`, `KeepsPromises`, `EverySessionSettles` |
| `live_mic` | the same, no fault at all | **violated**: see findings |
| `contents` | 653 clones, limits 1 and 4, two passes that may fail anywhere; those of one or two chunks followed to the report, one of two areas while it is ingested again at any time | `IndexIsTheSource`, `KeepsUnchanged`, `FillsTheLimit`, `CoversTheCode`, `QuestionsAreApart`, `CitesWhatItShows`, `RevisitsGradedCode`, `ScoresAreOfGraded` |
| `contents_cap` | 3 clones with a file that is not UTF-8 | **violated**: see findings |

Every property of a passing run is refuted by a mutant of the code listed in
`PROJECT.json`: a dropped guard, a missing reset, a write in the wrong order.

Deadlock is checked in the runs of `Interviews`: time must always be able to pass,
so a session that nothing could end would show. In the other runs the system may
rest, and their `.cfg` says so: a ready repository or report needs nothing,
`Planning` follows a session no further than its first question, and a live session
or a report ends.

### Bounds, and why they are enough

* *Slots*. Two per queue let a duplicate or a stale message overtake a fresh one,
  which every ordering hazard needs. A full queue delays a send, and loses none.
* *Faults*. `MaxFaults` bounds their total. With three receives, three faults
  dead-letter a message, as in `planning` and `ingestion_stranded`; in `reports` the
  redrive limit is lowered to two so that two faults do. `ingestion` has two, with which
  no message is dead-lettered and its properties hold without that excuse; beyond, its
  safety is proved and its liveness unchecked. `Faults` names the kinds an instance may meet, so the
  runs that expect a violation show what alone suffices for it.
* *Copies*. `MaxCopies = 2`: an event may be lost, arrive, or arrive twice.
* *One repository, one interview*. Handlers touch one row each, and the proofs are
  for any number, two interviews whose clients swap tokens among them.
* *Requests of `Planning`*. Two are what it takes for a late answer to meet a
  fresh one, and for a second job to be sent while the first is handled.
* *Ticks*. The limits are 1 to 3 ticks, in the proportion the assumption of
  `Interviews` fixes: a session and the time to start it fit inside the cutoff
  (1800 s and 2100 s in the two `config.py`).

* *The live session*. With two questions there is a "next" one for what is left of
  an answer to be taken for. `MaxFrames` is 1 and a take has up to 3 frames: one too
  long, one that still is after the error, and one more. Two takes let a second
  recording follow a refused one; `AutoStop` ends the first at the limit, as the
  page's timer does. Three frames in flight let the error and the frames it refuses
  cross. Two faults let one meet the recovery from another.
* *Contents*. Six files, up to 3 chunks each, make every case of the splitting: a
  file beside directories, a chain of directories, areas that tie, one that
  overshoots the limit, names that begin alike. One more clone has a file that is
  excluded and one past the largest file (`MaxFile`), and is also what a later pass may
  find: rows to be kept, changed and removed at once. Three clones have a file in another
  encoding: one that is counted as none, one that is counted for more than it is read as
  and so refused, and one counted for more that is small enough to be followed. `MaxRepoChunks = 11` is met by some clones and passed by the one that has 12 chunks. Texts repeat, so that ids need
  their count, and another repository has a row of the same file and text. What
  happens beyond the areas is followed for repositories of up to two chunks, or one
  chunk and a second pass (`MaxFollowed`), enough for a citation of another
  question's code, and `TopK = 1` for one that is not retrieved. One repository of two areas
  (`AlsoFollowed`) is followed through both passes, and loses the first area in the
  second, so that an area can be empty beside one that is not. `MaxPasses = 2`: a
  pass is wrong because of the rows one before it left; `MaxRows` keeps a second
  pass to small repositories.

### Fairness, and what in the code justifies it

* *Workers* (`WF` on a worker's steps). `run_worker` polls for ever and compose
  restarts a worker that dies (`restart: unless-stopped`). Faults are never
  obliged to happen and their number is bounded, so a fault that repeats for ever
  is not assumed away: it dead-letters the message, which the liveness properties
  name (`Lost`).
* *Receives* (`SF` per message). SQS gives out every visible message in the end,
  however many others come and go.
* *Time* (`WF_vars(Tick)`) and a session's own timers (`Hold`).
* *The page* (`WF` on `Presses` and on `StartSession`). `setInterval` polls while the
  plan is generating; nothing obliges a user to stay (`LeavePage` is always possible).
* *The live session* (`WF` on `RunnerStep`, `SocketOpens`, `ReceiveMessage`, `Render`,
  `QuestionHeard`, `EndTimeout`). The runner is a coroutine that awaits nothing but the
  socket, the store and the providers, whose failures are faults; the others are
  events the browser delivers. `MaxTakes` bounds the recordings, after which the user
  types: `WF` on `Answers` and `StopRecording` says the user answers and stops in the
  end. Nothing obliges the user to speak, to skip, to press End or to stay.
* *The user* (`KeepsRetrying`, `KeepsAsking`, `EndOverdueSessions`, the buttons in
  `Presses`). Promises of the documentation that depend on somebody coming back are
  stated under exactly that assumption and no more. No event is assumed to arrive.

### Findings

Six sentences of the repository are stronger than the code. Each has a run.

1. *`ReadyIsFinal`*. `repositories/service.py:115` says terminal states reject
   everything. `_send_ingestion` (`router.py:115`) writes `failed` without looking:
   when SQS accepted a job but the answer was lost, a repository that has become
   ready in the meantime becomes failed, until the user retries.
2. *`OnlyCoreHandlerStrands`*. `architecture.md:492` says only Core's own handler
   can leave a row stuck. An outcome event lost on each of the job's three
   deliveries does too: the job is dead and the row stays `in_progress`.
3. *`ActiveHasSession`*. `runner.py:143` says an admission that failed never made
   the interview active. If the answer to the consume call is lost, it did; the
   cutoff ends it 35 minutes later (`EveryInterviewEnds` still holds).
4. *`OneRunPerReport`*. `generation.py:78` takes a `generating` row for that of a
   dead attempt. With two queues polled in parallel it may be that of a live one:
   a user who opens the report before the end event arrives has it generated
   twice at once. Nothing is corrupted (`KeepsPromises` holds): it costs a run.
5. *`MicAfterAudioEnd`*. `decisions.md:1749` says the microphone opens only after
   `question.audio_end`. Skipping a question leaves its `drained()` waiting
   (`useLiveInterview.ts:60`), and whichever question the page shows when it
   resolves counts as heard: if that one's audio is still coming, the page lets the
   user record. The answer is still stored for the right question
   (`AnswersItsQuestion` holds).
6. *`CapIsKept`*. `runner.py:62` says a repository that would exceed the limit is
   refused before anything is embedded, and `flow.py:55` that the cap counts exactly
   what gets embedded. The count decodes each file by itself: one in UTF-16 has twice
   its characters when counted, and may pass the 500 KB past which a file counts as
   none, though the pass, which detects the encoding, indexes it. `decisions.md:1033`
   concedes a slight difference; a file near the size limit makes it hundreds of
   chunks. Where both readings agree the limit holds (`IndexIsTheSource`).

Two more show in the properties as their exceptions, and have no run. A render that
is late by one event (`lag`) can make the page end one recording twice or keep the
mic open, after which the two ends may wait for each other until the session limit:
`AnswersItsQuestion`, `NoStandoff`, `ErrorIsAboutThisAnswer` and `EverySessionSettles` say
`~hook.lagged`. And an area that is a file is found again by prefix, so `index.ts`
also retrieves the chunks of `index.tsx`: `QuestionsAreApart` says of directories only
that they share no code.

## 4. What is proved

For every value of the constants (within the named assumptions: the bounds are
naturals, the limits of `Interviews` leave the margin its configuration comments
ask for, `NoBody` is none of the bodies it stands beside, a clone has finitely many
files with filenames for names, and scores are 1 to 5, as the reply's schema demands):

| Theorem | Says |
|---|---|
| `IngestionProofs!TypeCorrect`, `Agreement`, `NothingStranded` | `[]TypeOK`, `[]ReadyMeansIndexed`, `[]NeverStranded` |
| `IngestionProofs!Refinement` | `Ingestion` implements `RepositoryStatus` |
| `InterviewsProofs!TypeCorrect`, `TokenOnce`, `HeldIsActive` | `[]TypeOK`, `[]OneSessionPerToken`, `[]SessionIsActive` |
| `InterviewsProofs!Refinement` | `Interviews` implements `InterviewStatus` |
| `ReportsProofs!TypeCorrect`, `WholeTold`, `NothingStranded` | `[]TypeOK`, `[]WholeMeansCompleted`, `[]NeverStranded` |
| `ReportsProofs!Refinement` | `Reports` implements `ReportStatus` |
| `PlanningProofs!TypeCorrect`, `PlanFound`, `NothingStranded` | `[]TypeOK`, `[]SessionHasPlan`, `[]NeverStranded` |
| `PlanningProofs!Refinement` | `Planning` implements `PlanStatus` |
| `LiveSessionProofs!TypeCorrect`, `TruthTold` | `[]TypeOK`, `[]PageTellsTheTruth` |
| `LiveSessionProofs!Refinement` | `LiveSession` implements `Turns` |
| `LiveAnswersProofs!AnswersWhole`, `ErrorsInTime`, `NobodyWaits` | `[]AnswersItsQuestion`, `[]ErrorIsAboutThisAnswer`, `[]NoStandoff` |
| `ContentsProofs!TypeCorrect`, `IndexIsRight`, `UnchangedIsKept` | `[]TypeOK`, `[]IndexIsTheSource`, `KeepsUnchanged` |
| `ContentsProofs!AreasFillTheLimit`, `AreasCoverTheCode` | `[]FillsTheLimit`, `[]CoversTheCode` |
| `ContentsProofs!QuestionsApart`, `Citations`, `FilesToRevisit`, `ScoresRight` | `[]QuestionsAreApart`, `[]CitesWhatItShows`, `[]RevisitsGradedCode`, `[]ScoresAreOfGraded` |

Each rests on an `Invariance` theorem, `Spec => []IInv`; those of `LiveAnswersProofs`
also on `ChainInvariance`, `Spec => []ChainInv`. Why these are needed:

* *Ingestion*. `ReadyMeansIndexed` alone is not inductive: an event on its way
  could make a row ready whose job is not. `CompletedIsTrue` says every
  `completed` event that exists comes of a ready job, and a ready job stays so;
  `RowOK` ties the worker's `pc` to its job row, which is why what it publishes is
  so. `NeverStranded` fails at the step that deletes a message, so `Supported`
  counts only jobs that no delete is about to remove, and the step to `delete`
  must then leave an outcome on Core's queue. The refinement goes by what each handler
  does to the row: a late or repeated event changes an unfinished row or none, so only
  `MarkSendFailed`, whose request is among those `refused`, may write over `ready`.
* *Interviews*. `OneSessionPerToken` needs that a connection granted or live holds
  an interview that is active, and is the only one. `SessionIsActive` needs the
  clocks: a connection's `elapsed` is never behind the interview's `activeFor` by
  more than the slack, so by the assumption on the cutoff `Overdue` is false while
  it is held. `KeepsPromises` needs that each end event on the queue tells the
  truth of a session that is over.
* *Reports*. `AsksHonest` says each message tells the truth about a session that is
  over, whichever queue it is in; `StatusTrue` and `RequestsOK` make Core's job
  honest, `InterviewStep` cannot falsify it, and `RowsTrue` follows at the claim.
  `Attended` is `NeverStranded` without the message a delete is about to remove: a
  generating row has a waiting message or a poller that will still mark it.
* *Planning*. `SessionHasPlan` is about a read that comes several messages after the
  write. It needs that every answer on its way, every page and every session that
  says `ready` says so of a plan that is, and that a ready plan stays ready; the
  last holds because the claim and both outcomes are guarded, so the invariant
  need say nothing of how many jobs there are. `Attended` is again
  `NeverStranded` without the message a delete is about to remove.

* *Live session*. The runner's guarded writes are right only because the turns are:
  `TurnsInOrder` says all before the runner's question are answered and all after it
  planned, and `PcOK` ties the status of the question itself to the `pc`, the steps at
  which a statement may have taken effect unseen being the ones where it leaves.
  `ExitOK`, `StopsAreTrue` and `EndsAreTrue` say that a session that ends as completed,
  a `session.end` in flight to the server and one in flight to the page tell the
  truth. `PageTellsTheTruth` needs the channel: `Counted` says that every turn that is
  over is counted or its `turn.complete` is on its way, in order and ahead of the
  `session.end`, which is why adding one at each is counting.

* *Answers*. `ChainInv` reads the two channels as one conversation. `Frames(e, c)`
  cuts what is on its way to the server in three: the first `e` messages are the rest
  of an answer the server has refused and is discarding, those up to `c` are the answer
  being given, each one frame on from the one before it and from what the runner holds,
  and the others are no part of an answer. `Place` says which cut each phase of the
  page allows, `NewsOK` in which order news for the page may come, `NothingHeard` that
  there is no answer while the page has yet to be told of the question or of its
  error, `AudioOK` that what the runner holds is of one take. It is then a walk along
  the channels: each send extends a cut at its end, each receipt shortens it at its
  front, a refusal moves the whole answer before `e`. All of it holds while no render
  was late and the runner has not left (`Calm`): after a late render the page may end
  a take twice, and there is no such cut.

* *Index*. `IndexIsTheSource` speaks of the end of a pass only. `PassOK` says what is
  true all through it: the rows of each file the pass has come to are those declared
  for it, and every other file that has rows, or should have, is still in `toDo`. When
  `toDo` is empty the rows are the source. That there is a row for every chunk that was
  read is a bijection of places and ids: two places of a file with the same text differ
  in how many there are before them. If no file was counted otherwise than it was read
  (`ReadAlike`), they are then as many as were counted, so within the limit.
* *Areas*. `CandidatesOK` says the candidates are nodes of the tree of paths, pairwise
  `Apart` (no path of one is under another), and that every counted file is under one
  of them; `LookingOK` that stepping down a chain of directories loses no file;
  `TriedOK` that an area that did not split holds no two counted files; `SettledOK` that
  picking stops at the limit or with nothing left to try. `FillsTheLimit` then compares
  two sets by injections both ways. The greatest and least of a finite set, which picking the largest area
  and every average need, come from the well-foundedness of inclusion on finite sets,
  so that no induction over an operator is needed.
* *Report*. `PlanOK` says the plan is the contexts that have code, by their numbers, in
  some order; `NumberedIs` that each number from 1 is one such context's and no
  other's (an injection into as many numbers is onto them), so the questions are of
  areas that are apart; `EvaluationOK` what one turn's evaluation may cite,
  which stays true because nothing that it speaks of changes once the chunks are
  fetched, whatever becomes of the table. The average is bounded by bounding the sum:
  `n` scores from `lo` to `hi` come to `n * lo .. n * hi`, and rounding half to even
  keeps a quotient between two whole bounds.

Each step of a temporal theorem is discharged by the non-temporal lemmas (one per
action or group of like actions) and `PTL`.

### What is only model-checked

* Liveness (`EveryIngestionEnds`, `IndexedIsShownReady`, `EveryInterviewEnds`,
  `EveryReportIsReady`, `EveryPageGetsOn`, `EverySessionSettles`), since it rests on
  fairness and `ENABLED`, which the prover does not handle.
* The six violated properties are counterexamples, and stay with TLC by nature.

## 5. What is not modelled, and why

* Wording: questions, transcripts, the text of grades and errors, notices. Prompts are
  modelled by which code they show.
* Git, embeddings, and CocoIndex's reconciling, which are external. Of the last it is
  assumed that it goes file by file and that its record of what it wrote, and the
  counter behind its ids, survive on the worker's volume with the table
  (`docker-compose.prod.yml`). Of a row only its id is followed, not its commit, its
  line numbers or its vector; the nearest chunks are any that qualify.
* What sends a ready repository to be ingested again: by the code's own status machine
  only a job that is redelivered, or the retry that finding 1 makes possible. `Again`
  allows it at any time.
* In `Contents`, the planner's second attempt and a report that is generated again:
  `Planning` and `Reports` have them.
* On the live socket, messages this page never sends (a second `session.start`, a
  malformed one) and speech timings; and the page's check of a message's `turn_id`, which
  every message passes: the server has one turn at a time.
* Overlapping deliveries of one message: each queue has one consumer that takes
  one message at a time, so a lapsed visibility timeout cannot give the message
  out again before its handler is done. A second worker process would change this.
* Sign-in, cookies, token cryptography and request signatures: request-local.
* Rendering. The user behind the pages is in the fairness assumptions.

## 6. Order of the work

`SqsQueue`; `Ingestion`; `Interviews`; `Reports`; `Planning`; `LiveSession`, each with its
abstract machine, its runs and its proofs; then `Areas`, `Grading` and `Contents`; then
`LiveAnswersProofs`; then `Sources` and `Indexing`, and `ContentsProofs` over all five.
What would come next is a second worker process on one queue, whose
overlapping deliveries the code does not face today.
