---------------------------- MODULE LiveSession ----------------------------
(***************************************************************************)
(* One interview under way: the live page, Voice Service's runner and the  *)
(* record of the turns, with a socket between the first two.               *)
(*                                                                         *)
(* The socket is two FIFO channels.  An answer is what was recorded        *)
(* between two presses of the mic button (a take), cut into frames; one is *)
(* tagged with the question the page showed and the take it belongs to,    *)
(* and audio.end with the frames of its take, so that what is stored can   *)
(* be compared with what was said.  The question's own audio is abstracted *)
(* to the audio_end that follows it.                                       *)
(*                                                                         *)
(* Interviews follows the token and the end event, Planning the plan.      *)
(***************************************************************************)
EXTENDS LiveReducer, Sequences, FiniteSets

CONSTANTS
  Length,       \* questions in the plan
  MaxFrames,    \* the server's limit on an answer (max_answer_seconds)
  AutoStop,     \* frames after which the page stops recording by itself
  MaxSpoken,    \* bound on the frames of a take
  MaxTakes,     \* bound on the takes
  MaxInFlight,  \* bound on the frames on their way
  Faults,       \* the kinds of fault this instance may meet
  MaxFaults     \* bound on their number

\* lag: a message, the timer or playback's end is handled before React has
\* rendered what the one before it did.
FaultKinds == {"lag", "silence", "autoplay", "provider", "store", "limit", "network", "refused"}

ASSUME LiveAssumption ==
  /\ Length \in Nat \ {0}
  /\ {MaxFrames, AutoStop, MaxSpoken, MaxTakes, MaxInFlight, MaxFaults} \subseteq Nat
  /\ Faults \subseteq FaultKinds

VARIABLES
  page,      \* the reducer's state
  hook,      \* what the hook around it keeps in refs, and the devices
  toPage,    \* messages on their way to the page
  toServer,  \* messages on their way to the server
  server,    \* the runner's coroutine
  turns,     \* the questions of the interview's document
  outcome,   \* what the session reported to Core API
  faults     \* faults met so far

vars == <<page, hook, toPage, toServer, server, turns, outcome, faults>>

Questions == 1..Length

-----------------------------------------------------------------------------
(* The state *)

Message(type, seq, code) == [type |-> type, seq |-> seq, code |-> code]
Error(code) == Message("error", 0, code)
ToPage ==
  [type : {"session.ready", "question.text", "question.audio_end", "turn.complete", "session.end", "error", "close"},
   seq : 0..Length,
   code : {"", "completed", "ended_by_client", "no_speech", "answer_too_long"} \cup Fatal]

\* size: the frames of the take so far; with audio.end, all of them.
Frame(type, seq, take, size) == [type |-> type, seq |-> seq, take |-> take, size |-> size]
Control(type) == Frame(type, 0, 0, 0)
ToServer ==
  [type : {"session.start", "audio", "audio.end", "answer.text", "session.end", "disconnect"},
   seq : 0..Length, take : 0..MaxTakes, size : 0..MaxSpoken]

\* seen: the phase as last rendered, which is also what the ref holds.
\* waits: the questions whose end of playback a callback is waiting for.
\* sent: frames of this take so far.  History: stopped, End was pressed;
\* lagged, a render was late.
Hook ==
  [seen : Phases, sock : {"opening", "open", "closed", "left"}, mic : BOOLEAN, take : 0..MaxTakes,
   sent : 0..MaxSpoken, waits : SUBSET (0..Length), blocked : BOOLEAN, stopped : BOOLEAN, lagged : BOOLEAN]

\* Of a recording: whose frames it is made of, how many, and how many were said.
Audio == [from : SUBSET ((0..Length) \X (0..MaxTakes)), heard : 0..MaxFrames, said : 0..MaxSpoken]
Silence == [from |-> {}, heard |-> 0, said |-> 0]

Turn == [status : {"planned", "asked", "answered"}, answer : Audio]

Exits == {"none", "completed", "ended_by_client", "limit", "gone", "error", "refused"}
PcValues == {"admit", "load", "mark", "text", "speak", "listen", "transcribe", "record", "turn", "close", "over"}
Runner ==
  [pc : PcValues, q : 0..(Length + 1), audio : Audio, discarding : BOOLEAN, exit : Exits]

TypeOK ==
  /\ page \in Shown(0..Length)
  /\ hook \in Hook
  /\ toPage \in Seq(ToPage)
  /\ toServer \in Seq(ToServer)
  /\ server \in Runner
  /\ turns \in [Questions -> Turn]
  /\ outcome \in {"none", "completed", "interrupted", "refused"}
  /\ faults \in 0..MaxFaults

Init ==
  /\ page = InitialLiveState
  /\ hook = [seen |-> "connecting", sock |-> "opening", mic |-> FALSE, take |-> 0, sent |-> 0,
             waits |-> {}, blocked |-> FALSE, stopped |-> FALSE, lagged |-> FALSE]
  /\ toPage = <<>>
  /\ toServer = <<>>
  /\ server = [pc |-> "admit", q |-> 1, audio |-> Silence, discarding |-> FALSE, exit |-> "none"]
  /\ turns = [k \in Questions |-> [status |-> "planned", answer |-> Silence]]
  /\ outcome = "none"
  /\ faults = 0

Fault(kind) ==
  /\ kind \in Faults
  /\ faults < MaxFaults
  /\ faults' = faults + 1

-----------------------------------------------------------------------------
(* The page: useLiveInterview *)

\* send: nothing unless the socket is open.
Send(m) == toServer' = IF hook.sock = "open" THEN Append(toServer, m) ELSE toServer

\* A click is rendered before anything else is handled.
Clicked(p, h) ==
  /\ page' = p
  /\ hook' = [h EXCEPT !.seen = page'.phase]
  /\ UNCHANGED <<toPage, server, turns, outcome, faults>>

\* Anything else may be followed by another event before React renders.
Happened(p, h) ==
  /\ page' = p
  /\ \/ hook' = [h EXCEPT !.seen = p.phase] /\ UNCHANGED faults
     \/ hook' = [h EXCEPT !.lagged = TRUE] /\ p.phase # h.seen /\ Fault("lag")

Render ==
  /\ hook.seen # page.phase
  /\ hook.sock # "left"
  /\ hook' = [hook EXCEPT !.seen = page.phase]
  /\ UNCHANGED <<page, toPage, toServer, server, turns, outcome, faults>>

SocketOpens ==
  /\ hook.sock = "opening"
  /\ hook' = [hook EXCEPT !.sock = "open"]
  /\ toServer' = <<Control("session.start")>>
  /\ UNCHANGED <<page, toPage, server, turns, outcome, faults>>

\* A mistake: the error is only shown.
ClosesNothing(m) == FALSE
\* Too long while recording: this answer is closed, so that the next starts afresh.
Closes(m) == m.type = "error" /\ m.code = "answer_too_long" /\ hook.seen = "recording"

AfterMessage(m) ==
  [hook EXCEPT !.sock = IF m.type = "close" THEN "closed" ELSE @,
               !.mic = @ /\ ~Closes(m),
               !.waits = IF m.type = "question.audio_end" /\ ~hook.blocked THEN @ \cup {page.seq} ELSE @]

ReceiveMessage ==
  /\ hook.sock = "open"
  /\ toPage # <<>>
  /\ LET m == Head(toPage) IN
       /\ Happened(IF m.type = "close" THEN Closed(page) ELSE Server(page, m), AfterMessage(m))
       /\ IF Closes(m) THEN Send(Frame("audio.end", page.seq, hook.take, hook.sent)) ELSE UNCHANGED toServer
  /\ toPage' = Tail(toPage)
  /\ UNCHANGED <<server, turns, outcome>>

\* The browser holds the question's audio back until the user taps.
AutoplayBlocked ==
  /\ hook.sock = "open"
  /\ toPage # <<>>
  /\ Head(toPage).type = "question.audio_end"
  /\ Fault("autoplay")
  /\ page' = Server(page, Head(toPage))
  /\ hook' = [hook EXCEPT !.seen = page'.phase, !.blocked = TRUE]
  /\ toPage' = Tail(toPage)
  /\ UNCHANGED <<toServer, server, turns, outcome>>

\* "Play the question"
UnblockAudio ==
  /\ hook.blocked
  /\ hook.seen \notin Finished
  /\ hook.sock # "left"
  /\ hook' = [hook EXCEPT !.blocked = FALSE, !.waits = @ \cup {page.seq}]
  /\ UNCHANGED <<page, toPage, toServer, server, turns, outcome, faults>>

\* The playback of question k has ended, whatever the page shows by now.
QuestionHeard(k) ==
  /\ k \in hook.waits
  /\ hook.sock # "left"
  /\ Happened(Heard(page), [hook EXCEPT !.waits = @ \ {k}])
  /\ UNCHANGED <<toPage, toServer, server, turns, outcome>>

\* "Skip to answer": the question is silenced, the callback keeps waiting.
SkipAudio ==
  /\ hook.seen = "asking"
  /\ page.audioComplete
  /\ ~hook.blocked
  /\ hook.sock # "left"
  /\ Clicked(Heard(page), hook)
  /\ UNCHANGED toServer

StartRecording ==
  /\ hook.seen = "answering"
  /\ hook.sock # "left"
  /\ hook.take < MaxTakes
  /\ Clicked(RecordStarted(page), [hook EXCEPT !.mic = TRUE, !.take = @ + 1, !.sent = 0])
  /\ UNCHANGED toServer

\* The mic delivers whatever the page shows.
Speak ==
  /\ hook.mic
  /\ hook.sock = "open"
  /\ hook.sent < MaxSpoken
  /\ Len(toServer) < MaxInFlight
  /\ hook' = [hook EXCEPT !.sent = @ + 1]
  /\ Send(Frame("audio", page.seq, hook.take, hook.sent + 1))
  /\ UNCHANGED <<page, toPage, server, turns, outcome, faults>>

\* A mistake: the mic keeps delivering.
StoppedLater == hook
Stopped == [hook EXCEPT !.mic = FALSE]
EndOfTake == Send(Frame("audio.end", page.seq, hook.take, hook.sent))

StopRecording ==
  /\ hook.seen = "recording"
  /\ hook.sock # "left"
  /\ EndOfTake
  /\ Clicked(AnswerSent(page), Stopped)

TimerStopsRecording ==
  /\ hook.seen = "recording"
  /\ hook.sock # "left"
  /\ hook.sent >= AutoStop
  /\ EndOfTake
  /\ Happened(AnswerSent(page), Stopped)
  /\ UNCHANGED <<toPage, server, turns, outcome>>

SendText ==
  /\ hook.seen = "answering"
  /\ hook.sock # "left"
  /\ Send(Frame("answer.text", page.seq, 0, 0))
  /\ Clicked(AnswerSent(page), hook)

End ==
  /\ hook.seen \notin Finished \cup {"ending"}
  /\ hook.sock # "left"
  /\ Send(Control("session.end"))
  /\ Clicked(EndRequested(page), [hook EXCEPT !.mic = @ /\ hook.seen # "recording", !.stopped = TRUE])

\* The page closes the socket: what was sent before it arrives before it.
Hangs(h) ==
  /\ hook' = [h EXCEPT !.seen = page'.phase]
  /\ Send(Control("disconnect"))
  /\ toPage' = <<>>
  /\ UNCHANGED <<server, turns, outcome, faults>>

\* END_TIMEOUT_MS after the request to end.
EndTimeout ==
  /\ hook.seen = "ending"
  /\ hook.sock \in {"opening", "open"}
  /\ page' = Closed(page)
  /\ Hangs([hook EXCEPT !.sock = "closed"])

LeavePage ==
  /\ hook.sock # "left"
  /\ UNCHANGED page
  /\ Hangs([hook EXCEPT !.sock = "left", !.mic = FALSE])

\* What was on its way may be lost, from some message on.
ConnectionLost ==
  /\ hook.sock \in {"opening", "open"}
  /\ Fault("network")
  /\ page' = Closed(page)
  /\ hook' = [hook EXCEPT !.sock = "closed", !.seen = page'.phase]
  /\ toPage' = <<>>
  /\ \E n \in 0..Len(toServer) :
       toServer' = IF hook.sock = "open" THEN Append(SubSeq(toServer, 1, n), Control("disconnect")) ELSE <<>>
  /\ UNCHANGED <<server, turns, outcome>>

-----------------------------------------------------------------------------
(* The runner: InterviewSession, and the store it writes to *)

Says(m) == toPage' = IF hook.sock = "open" THEN Append(toPage, m) ELSE toPage
To(pc) == server' = [server EXCEPT !.pc = pc]
Exit(why) == server' = [server EXCEPT !.pc = "close", !.exit = why]

Admit ==
  /\ server.pc = "admit"
  /\ toServer # <<>>
  /\ toServer' = Tail(toServer)
  /\ \/ Head(toServer).type = "session.start" /\ To("load") /\ UNCHANGED faults
     \/ Head(toServer).type = "session.start" /\ Fault("refused") /\ Exit("refused")
     \/ Head(toServer).type # "session.start" /\ Exit("refused") /\ UNCHANGED faults
  /\ UNCHANGED <<page, hook, toPage, turns, outcome>>

\* No session.start in time.
AdmitTimesOut ==
  /\ server.pc = "admit"
  /\ toServer = <<>>
  /\ hook.sock \in {"closed", "left"}
  /\ Exit("refused")
  /\ UNCHANGED <<page, hook, toPage, toServer, turns, outcome, faults>>

LoadPlan ==
  /\ server.pc = "load"
  /\ Says(Message("session.ready", 0, ""))
  /\ To("mark")
  /\ UNCHANGED <<page, hook, toServer, turns, outcome, faults>>

Asked == [turns[server.q] EXCEPT !.status = "asked"]
Answered == [status |-> "answered", answer |-> server.audio]
Write(row) == turns' = [turns EXCEPT ![server.q] = row]

\* Guarded by the status: a second write raises.
Update(expected, row, next) ==
  IF turns[server.q].status = expected THEN Write(row) /\ To(next)
  ELSE Exit("error") /\ UNCHANGED turns

Ask ==
  /\ server.pc = "mark"
  /\ server.q <= Length
  /\ Update("planned", Asked, "text")
  /\ UNCHANGED <<page, hook, toPage, toServer, outcome, faults>>

PlanDone ==
  /\ server.pc = "mark"
  /\ server.q > Length
  /\ Exit("completed")
  /\ UNCHANGED <<page, hook, toPage, toServer, turns, outcome, faults>>

ShowQuestion ==
  /\ server.pc = "text"
  /\ Says(Message("question.text", server.q, ""))
  /\ To("speak")
  /\ UNCHANGED <<page, hook, toServer, turns, outcome, faults>>

AudioEnd == Message("question.audio_end", server.q, "")

\* The timings are stored once all is sent.  What the last turn left of an answer is not this turn's.
SpeakQuestion ==
  /\ server.pc = "speak"
  /\ Says(AudioEnd)
  /\ server' = [server EXCEPT !.pc = "listen", !.audio = Silence, !.discarding = FALSE]
  /\ UNCHANGED <<page, hook, toServer, turns, outcome, faults>>

Listen(type) ==
  /\ server.pc = "listen"
  /\ toServer # <<>>
  /\ Head(toServer).type = type
  /\ toServer' = Tail(toServer)
  /\ UNCHANGED <<page, hook, turns, outcome, faults>>

Joined(f) == [server.audio EXCEPT !.from = @ \cup {<<f.seq, f.take>>}, !.heard = @ + 1]

\* A mistake: the frame that makes it too long is kept.
OverflowsLate == server.audio.heard > MaxFrames
Overflows == server.audio.heard >= MaxFrames

\* A mistake: what follows of the same answer is taken for the next.
DroppedOnce == [server EXCEPT !.audio = Silence]
Dropped == [server EXCEPT !.audio = Silence, !.discarding = TRUE]

HearAudio ==
  /\ Listen("audio")
  /\ IF server.discarding THEN UNCHANGED <<server, toPage>>
     ELSE IF Overflows THEN server' = Dropped /\ Says(Error("answer_too_long"))
     ELSE server' = [server EXCEPT !.audio = Joined(Head(toServer))] /\ UNCHANGED toPage

HearAudioEnd ==
  /\ Listen("audio.end")
  /\ IF server.discarding THEN server' = [server EXCEPT !.discarding = FALSE] /\ UNCHANGED toPage
     ELSE IF server.audio.heard = 0 THEN UNCHANGED server /\ Says(Error("no_speech"))
     ELSE /\ server' = [server EXCEPT !.pc = "transcribe", !.audio.said = Head(toServer).size]
          /\ UNCHANGED toPage

HearText ==
  /\ Listen("answer.text")
  /\ server' = [server EXCEPT !.pc = "record",
                              !.audio = [Silence EXCEPT !.from = {<<Head(toServer).seq, 0>>}]]
  /\ UNCHANGED toPage

\* A mistake: an early end is told as a full interview.
HearEndAsDone ==
  /\ Listen("session.end")
  /\ Exit("completed")
  /\ UNCHANGED toPage

HearEnd ==
  /\ Listen("session.end")
  /\ Exit("ended_by_client")
  /\ UNCHANGED toPage

\* A mistake: leaving counts as stopping.
HearDisconnectAsEnd ==
  /\ Listen("disconnect")
  /\ Exit("ended_by_client")
  /\ UNCHANGED toPage

HearDisconnect ==
  /\ Listen("disconnect")
  /\ Exit("gone")
  /\ UNCHANGED toPage

Transcribe ==
  /\ server.pc = "transcribe"
  /\ To("record")
  /\ UNCHANGED <<page, hook, toPage, toServer, turns, outcome, faults>>

\* A blank transcript.
HearNothing ==
  /\ server.pc = "transcribe"
  /\ Fault("silence")
  /\ server' = [server EXCEPT !.pc = "listen", !.audio = Silence]
  /\ Says(Error("no_speech"))
  /\ UNCHANGED <<page, hook, toServer, turns, outcome>>

StoreAnswer ==
  /\ server.pc = "record"
  /\ Update("asked", Answered, "turn")
  /\ UNCHANGED <<page, hook, toPage, toServer, outcome, faults>>

CompleteTurn ==
  /\ server.pc = "turn"
  /\ Says(Message("turn.complete", server.q, ""))
  /\ server' = [server EXCEPT !.pc = "mark", !.q = @ + 1]
  /\ UNCHANGED <<page, hook, toServer, turns, outcome, faults>>

\* A statement that fails, or is cut off, may have taken effect.
WritesOrNot ==
  \/ UNCHANGED turns
  \/ server.pc = "mark" /\ server.q <= Length /\ turns[server.q].status = "planned" /\ Write(Asked)
  \/ server.pc = "record" /\ turns[server.q].status = "asked" /\ Write(Answered)

InInterview == {"mark", "text", "speak", "listen", "transcribe", "record", "turn"}

TimeLimit ==
  /\ server.pc \in InInterview
  /\ Fault("limit")
  /\ WritesOrNot
  /\ Exit("limit")
  /\ UNCHANGED <<page, hook, toPage, toServer, outcome>>

StoreFails ==
  /\ server.pc \in {"load", "mark", "speak", "record"}
  /\ Fault("store")
  /\ WritesOrNot
  /\ Exit("error")
  /\ IF server.pc = "speak" THEN Says(AudioEnd) ELSE UNCHANGED toPage
  /\ UNCHANGED <<page, hook, toServer, outcome>>

ProviderFails ==
  /\ server.pc \in {"speak", "transcribe"}
  /\ Fault("provider")
  /\ Exit("error")
  /\ UNCHANGED <<page, hook, toPage, toServer, turns, outcome>>

\* Writing to a socket whose other end has gone raises, or does nothing; a
\* spoken answer is shown to the user before it is stored.
SendRaises ==
  /\ \/ server.pc \in {"load", "text", "speak", "turn"}
     \/ server.pc = "record" /\ server.audio.heard > 0
  /\ hook.sock \in {"closed", "left"}
  /\ Exit("gone")
  /\ UNCHANGED <<page, hook, toPage, toServer, turns, outcome, faults>>

Reported ==
  CASE server.exit \in {"completed", "ended_by_client"} -> "completed"
    [] server.exit = "refused" -> "refused"
    [] OTHER -> "interrupted"

LastWords ==
  CASE server.exit \in {"completed", "ended_by_client"} -> <<Message("session.end", 0, server.exit)>>
    [] server.exit = "limit" -> <<Error("session_time_limit")>>
    [] server.exit = "error" -> <<Error("internal_error")>>
    [] OTHER -> <<>>

Close ==
  /\ server.pc = "close"
  /\ outcome' = Reported
  /\ To("over")
  /\ toPage' = IF hook.sock = "open" THEN toPage \o LastWords \o <<Message("close", 0, "")>> ELSE toPage
  /\ UNCHANGED <<page, hook, toServer, turns, faults>>

-----------------------------------------------------------------------------
Answers == StartRecording \/ SendText
Clicks == UnblockAudio \/ SkipAudio \/ Answers \/ StopRecording \/ End \/ LeavePage

PageStep ==
  \/ SocketOpens
  \/ ReceiveMessage
  \/ \E k \in Questions : QuestionHeard(k)
  \/ Speak
  \/ TimerStopsRecording
  \/ EndTimeout
  \/ Render

Hear == HearAudio \/ HearAudioEnd \/ HearText \/ HearEnd \/ HearDisconnect

RunnerStep ==
  \/ Admit \/ AdmitTimesOut \/ LoadPlan \/ Ask \/ PlanDone \/ ShowQuestion \/ SpeakQuestion
  \/ Hear \/ Transcribe \/ StoreAnswer \/ CompleteTurn \/ Close

Breaks ==
  \/ AutoplayBlocked \/ ConnectionLost
  \/ HearNothing \/ TimeLimit \/ StoreFails \/ ProviderFails \/ SendRaises

Next == Clicks \/ PageStep \/ RunnerStep \/ Breaks

Spec == Init /\ [][Next]_vars

\* The coroutine runs, the browser handles its events, and the user answers.
Fairness ==
  /\ WF_vars(RunnerStep)
  /\ WF_vars(SocketOpens)
  /\ WF_vars(ReceiveMessage)
  /\ WF_vars(Render)
  /\ WF_vars(EndTimeout)
  /\ \A k \in Questions : WF_vars(QuestionHeard(k))
  /\ WF_vars(UnblockAudio)
  /\ WF_vars(Answers)
  /\ WF_vars(StopRecording)

FairSpec == Spec /\ Fairness

-----------------------------------------------------------------------------
(* Properties *)

\* The record keeps its promises (Turns), whatever breaks: asked in order,
\* answered once, and completed only if all are or the user stopped.
Record == INSTANCE Turns WITH
  status <- [k \in Questions |-> turns[k].status], stopped <- hook.stopped
KeepsPromises == Record!Spec

\* A stored answer is the whole of one recording, or one text, made while the
\* page showed the question it is stored with (unless a render was late, after
\* which the page may end a take twice, and keep the mic open).
AnswersItsQuestion ==
  ~hook.lagged =>
    \A k \in Questions : turns[k].status = "answered" =>
      LET a == turns[k].answer IN
        /\ a.heard = a.said
        /\ \E t \in 0..MaxTakes : a.from = {<<k, t>>}

\* While the server waits for an answer and nothing is on its way, the page
\* leaves it to the user to answer, to play the question, or to end.
Standoff ==
  /\ server.pc = "listen"
  /\ hook.sock = "open"
  /\ toServer = <<>>
  /\ toPage = <<>>
  /\ hook.waits = {}
  /\ page.phase \notin {"answering", "recording", "ending"}
  /\ ~(page.phase = "asking" /\ hook.blocked)
NoStandoff == ~hook.lagged => ~Standoff

\* An error the user can mend reaches the page while it is still about the
\* answer it refuses (unless a render was late).
ErrorIsAboutThisAnswer ==
  \A i \in DOMAIN toPage :
    (toPage[i].type = "error" /\ toPage[i].code \notin Fatal /\ ~hook.lagged)
    => /\ page.phase \in {"recording", "sending", "ending"} \cup Finished
       /\ page.phase \in {"recording", "sending"} => page.seq = server.q

\* What the page tells the user is true: it counts no answer that is not
\* stored, and says completed only of an interview answered to the end.
PageTellsTheTruth ==
  /\ page.answered <= Cardinality({k \in Questions : turns[k].status = "answered"})
  /\ page.outcome = "completed" => page.answered = Length /\ outcome = "completed"

\* The microphone is opened only after the question's audio has all arrived.
MicAfterAudioEnd == page.phase = "recording" => page.audioComplete

\* With a user who answers in the end, every session ends, and the page with
\* it: neither waits for the other for ever (unless a render was late).
Settled == outcome # "none" /\ (page.phase \in Finished \/ hook.sock = "left")
EverySessionSettles == <>(Settled \/ hook.lagged)
=============================================================================
