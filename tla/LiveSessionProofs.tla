------------------------- MODULE LiveSessionProofs -------------------------
(***************************************************************************)
(* The record of an interview keeps to Turns, whatever breaks, for any     *)
(* number of questions, frames, takes and faults.                          *)
(***************************************************************************)
EXTENDS LiveSession, FiniteSetTheorems, TLAPS

Idle == {"admit", "load", "mark"}
Busy == {"text", "speak", "listen", "transcribe", "record"}

\* Before the question in hand all are answered, after it all are planned.
TurnsInOrder ==
  /\ \A k \in Questions : k < server.q => turns[k].status = "answered"
  /\ \A k \in Questions : k > server.q => turns[k].status = "planned"
  /\ server.q \in Questions =>
       /\ server.pc \in Idle => turns[server.q].status = "planned"
       /\ server.pc \in Busy => turns[server.q].status = "asked"
       /\ server.pc = "turn" => turns[server.q].status = "answered"

PcOK ==
  /\ server.q >= 1
  /\ server.pc \in {"admit", "load"} => server.q = 1
  /\ server.pc \in Busy \cup {"turn"} => server.q \in Questions
  /\ server.exit = "none" <=> server.pc \notin {"close", "over"}
  /\ outcome = IF server.pc = "over" THEN Reported ELSE "none"

\* The runner says why it leaves, and it is so.
ExitOK ==
  /\ server.exit = "completed" => server.q = Length + 1
  /\ server.exit = "ended_by_client" => hook.stopped
  /\ server.exit = "refused" => \A k \in Questions : turns[k].status = "planned"

StopsAreTrue == \A i \in DOMAIN toServer : toServer[i].type = "session.end" => hook.stopped

EndsAreTrue ==
  \A i \in DOMAIN toPage : toPage[i].type = "session.end" =>
    /\ toPage[i].code = server.exit
    /\ toPage[i].code \in {"completed", "ended_by_client"}
    /\ server.pc = "over"

IInv == TypeOK /\ TurnsInOrder /\ PcOK /\ ExitOK /\ StopsAreTrue /\ EndsAreTrue

-----------------------------------------------------------------------------
LEMMA InitIInv == Init => IInv
<1> SUFFICES ASSUME Init PROVE IInv
  OBVIOUS
<1>1. TypeOK
  BY LiveAssumption
  DEF Init, TypeOK, InitialLiveState, Shown, Phases, Finished, Hook, Runner, PcValues, Exits, Audio,
      Silence, Turn, Questions
<1>2. TurnsInOrder /\ PcOK /\ ExitOK /\ StopsAreTrue /\ EndsAreTrue
  BY LiveAssumption DEF Init, TurnsInOrder, PcOK, ExitOK, StopsAreTrue, EndsAreTrue, Questions, Idle, Busy
<1> QED
  BY <1>1, <1>2 DEF IInv

\* What the reducer makes of a state and a message is a state.
LEMMA ReducerTypes ==
  ASSUME NEW p \in Shown(0..Length), NEW m \in ToPage,
         m.type = "session.end" => m.code \in {"completed", "ended_by_client"}
  PROVE  Server(p, m) \in Shown(0..Length)
<1>1. AfterError(p, m.code) \in Shown(0..Length)
  <2>1. PICK x : x = IF m.code \in Fatal THEN "failed" ELSE IF p.phase = "ending" THEN p.phase ELSE "answering"
    OBVIOUS
  <2>2. AfterError(p, m.code) = [p EXCEPT !.phase = x] /\ x \in Phases
    BY <2>1 DEF AfterError, Phases, Finished
  <2> QED
    BY <2>2 DEF Shown
<1>2. /\ [p EXCEPT !.phase = "preparing"] \in Shown(0..Length)
      /\ \A k \in 0..Length : [p EXCEPT !.seq = k] \in Shown(0..Length)
      /\ \A k \in 0..Length : [p EXCEPT !.phase = "asking", !.seq = k, !.audioComplete = FALSE] \in Shown(0..Length)
      /\ [p EXCEPT !.audioComplete = TRUE] \in Shown(0..Length)
  BY DEF Shown, Phases, Finished
<1>3. /\ [p EXCEPT !.answered = @ + 1, !.phase = IF @ = "ending" THEN @ ELSE "preparing"] \in Shown(0..Length)
      /\ \A o \in {"completed", "ended_by_client"} : [p EXCEPT !.phase = "done", !.outcome = o] \in Shown(0..Length)
  <2>1. PICK x : x = IF p.phase = "ending" THEN p.phase ELSE "preparing"
    OBVIOUS
  <2>2. x \in Phases /\ p.answered + 1 \in Nat
    BY <2>1 DEF Shown, Phases, Finished
  <2>3. [p EXCEPT !.answered = @ + 1, !.phase = x] \in Shown(0..Length)
    BY <2>2 DEF Shown
  <2>4. \A o \in {"completed", "ended_by_client"} : [p EXCEPT !.phase = "done", !.outcome = o] \in Shown(0..Length)
    BY DEF Shown, Phases, Finished
  <2> QED
    BY <2>1, <2>3, <2>4
<1>4. m.seq \in 0..Length
  BY DEF ToPage
<1>5. OnMessage(p, m) \in Shown(0..Length)
  BY <1>1, <1>2, <1>3, <1>4 DEF OnMessage
<1> QED
  BY <1>5 DEF Server

LEMMA MoveTypes ==
  ASSUME NEW p \in Shown(0..Length)
  PROVE  /\ Closed(p) \in Shown(0..Length)
         /\ Heard(p) \in Shown(0..Length)
         /\ RecordStarted(p) \in Shown(0..Length)
         /\ AnswerSent(p) \in Shown(0..Length)
         /\ EndRequested(p) \in Shown(0..Length)
BY DEF Shown, Closed, OnClosed, Heard, RecordStarted, AnswerSent, EndRequested, Move, Phases, Finished

\* Of the two ends of a channel.
LEMMA AppendFacts ==
  ASSUME NEW S, NEW s \in Seq(S), NEW m \in S
  PROVE  /\ Append(s, m) \in Seq(S)
         /\ Len(Append(s, m)) = Len(s) + 1
         /\ Len(s) \in Nat
         /\ DOMAIN s = 1..Len(s) /\ DOMAIN Append(s, m) = 1..(Len(s) + 1)
         /\ Append(s, m)[Len(s) + 1] = m
         /\ \A i \in 1..Len(s) : Append(s, m)[i] = s[i]
OBVIOUS

LEMMA TailFacts ==
  ASSUME NEW S, NEW s \in Seq(S), s # <<>>
  PROVE  /\ Tail(s) \in Seq(S)
         /\ Len(s) \in Nat \ {0}
         /\ DOMAIN s = 1..Len(s) /\ DOMAIN Tail(s) = 1..(Len(s) - 1)
         /\ Head(s) = s[1] /\ s[1] \in S
         /\ \A i \in 1..(Len(s) - 1) : Tail(s)[i] = s[i + 1]
OBVIOUS

\* What a send puts on the socket, if anything, comes last.
LEMMA SendFacts ==
  ASSUME toServer \in Seq(ToServer), NEW m \in ToServer, Send(m)
  PROVE  /\ toServer' \in Seq(ToServer)
         /\ \A i \in DOMAIN toServer' :
              toServer'[i] = m \/ (i \in DOMAIN toServer /\ toServer'[i] = toServer[i])
<1>1. CASE hook.sock = "open"
  BY <1>1, AppendFacts DEF Send
<1>2. CASE hook.sock # "open"
  BY <1>2 DEF Send
<1> QED
  BY <1>1, <1>2

LEMMA SaysFacts ==
  ASSUME toPage \in Seq(ToPage), NEW m \in ToPage, Says(m)
  PROVE  /\ toPage' \in Seq(ToPage)
         /\ \A i \in DOMAIN toPage' :
              toPage'[i] = m \/ (i \in DOMAIN toPage /\ toPage'[i] = toPage[i])
<1>1. CASE hook.sock = "open"
  BY <1>1, AppendFacts DEF Says
<1>2. CASE hook.sock # "open"
  BY <1>2 DEF Says
<1> QED
  BY <1>1, <1>2

\* Faults are counted up to their bound.
LEMMA FaultCounts ==
  ASSUME TypeOK, NEW kind, Fault(kind)
  PROVE  faults' \in 0..MaxFaults
BY LiveAssumption DEF TypeOK, Fault

LEMMA HappenedFacts ==
  ASSUME TypeOK, NEW p \in Shown(0..Length), NEW h \in Hook, Happened(p, h)
  PROVE  /\ page' = p
         /\ page' \in Shown(0..Length)
         /\ hook' \in Hook
         /\ hook'.stopped = h.stopped
         /\ faults' \in 0..MaxFaults
<1>1. CASE hook' = [h EXCEPT !.seen = p.phase] /\ UNCHANGED faults
  BY <1>1 DEF Happened, Shown, Hook, TypeOK
<1>2. CASE hook' = [h EXCEPT !.lagged = TRUE] /\ Fault("lag")
  BY <1>2, FaultCounts DEF Happened, Hook
<1> QED
  BY <1>1, <1>2 DEF Happened

LEMMA ClickedFacts ==
  ASSUME TypeOK, NEW p \in Shown(0..Length), NEW h \in Hook, Clicked(p, h)
  PROVE  /\ page' = p
         /\ page' \in Shown(0..Length)
         /\ hook' \in Hook
         /\ hook'.stopped = h.stopped
         /\ UNCHANGED <<toPage, server, turns, outcome, faults>>
BY DEF Clicked, Shown, Hook, TypeOK

-----------------------------------------------------------------------------
(* The page's steps leave the runner and the turns alone *)

PageAct == Clicks \/ PageStep \/ AutoplayBlocked \/ ConnectionLost

PageFrame ==
  /\ UNCHANGED <<server, turns, outcome>>
  /\ hook.stopped => hook'.stopped

LEMMA PageInv ==
  ASSUME IInv, PageFrame, page' \in Shown(0..Length), hook' \in Hook, faults' \in 0..MaxFaults,
         toServer' \in Seq(ToServer), StopsAreTrue',
         \/ UNCHANGED toPage
         \/ toPage' = <<>>
         \/ toPage # <<>> /\ toPage' = Tail(toPage)
  PROVE  IInv'
<1>1. toPage' \in Seq(ToPage) /\ \A i \in DOMAIN toPage' : \E j \in DOMAIN toPage : toPage'[i] = toPage[j]
  <2>1. CASE toPage # <<>> /\ toPage' = Tail(toPage)
    <3>1. \A i \in DOMAIN toPage' : i + 1 \in DOMAIN toPage /\ toPage'[i] = toPage[i + 1]
      BY <2>1, TailFacts DEF IInv, TypeOK
    <3> QED
      BY <2>1, <3>1, TailFacts DEF IInv, TypeOK
  <2>2. CASE UNCHANGED toPage
    BY <2>2 DEF IInv, TypeOK
  <2>3. CASE toPage' = <<>>
    BY <2>3
  <2> QED
    BY <2>1, <2>2, <2>3
<1>2. TypeOK'
  BY <1>1 DEF IInv, TypeOK, PageFrame
<1>3. EndsAreTrue'
  BY <1>1 DEF IInv, EndsAreTrue, PageFrame
<1>4. TurnsInOrder' /\ PcOK' /\ ExitOK'
  BY DEF IInv, TurnsInOrder, PcOK, ExitOK, PageFrame, Reported
<1> QED
  BY <1>2, <1>3, <1>4 DEF IInv

LEMMA FrameTypes ==
  ASSUME NEW type \in {"session.start", "audio", "audio.end", "answer.text", "session.end", "disconnect"},
         NEW seq \in 0..Length, NEW take \in 0..MaxTakes, NEW size \in 0..MaxSpoken
  PROVE  /\ Frame(type, seq, take, size) \in ToServer
         /\ Frame(type, seq, take, size).type = type
         /\ Control(type) \in ToServer
         /\ Control(type).type = type
BY LiveAssumption DEF Frame, Control, ToServer

LEMMA PageStepInv ==
  ASSUME IInv, PageAct
  PROVE  IInv' /\ PageFrame
<1> USE DEF PageFrame
<1>a. TypeOK /\ StopsAreTrue /\ EndsAreTrue
  BY DEF IInv
<1>b. /\ page \in Shown(0..Length) /\ hook \in Hook /\ faults \in 0..MaxFaults
      /\ toServer \in Seq(ToServer) /\ toPage \in Seq(ToPage)
      /\ page.seq \in 0..Length /\ hook.take \in 0..MaxTakes /\ hook.sent \in 0..MaxSpoken
      /\ 0 \in 0..Length /\ 0 \in 0..MaxTakes /\ 0 \in 0..MaxSpoken
  BY <1>a, LiveAssumption DEF TypeOK, Shown, Hook
<1>c. hook.waits \subseteq 0..Length
  BY <1>b DEF Hook
<1>1. CASE UnblockAudio
  <2>1. hook' \in Hook /\ hook'.stopped = hook.stopped
    BY <1>1, <1>b, <1>c DEF UnblockAudio, Hook
  <2>2. UNCHANGED <<page, toPage, toServer, server, turns, outcome, faults>>
    BY <1>1 DEF UnblockAudio
  <2> QED
    BY <2>1, <2>2, <1>a, <1>b, PageInv DEF StopsAreTrue
<1>2. CASE SkipAudio
  <2>1. Clicked(Heard(page), hook) /\ UNCHANGED toServer
    BY <1>2 DEF SkipAudio
  <2>2. /\ page' \in Shown(0..Length) /\ hook' \in Hook /\ hook'.stopped = hook.stopped
        /\ UNCHANGED <<toPage, server, turns, outcome, faults>>
    BY <2>1, <1>a, <1>b, MoveTypes, ClickedFacts
  <2> QED
    BY <2>1, <2>2, <1>a, <1>b, PageInv DEF StopsAreTrue
<1>3. CASE StartRecording
  <2>1. PICK h : h = [hook EXCEPT !.mic = TRUE, !.take = @ + 1, !.sent = 0]
    OBVIOUS
  <2>2. h \in Hook /\ h.stopped = hook.stopped
    <3>1. hook.take + 1 \in 0..MaxTakes
      <4>1. hook.take < MaxTakes /\ hook.take \in 0..MaxTakes /\ MaxTakes \in Nat
        BY <1>3, <1>b, LiveAssumption DEF StartRecording
      <4> QED
        BY <4>1
    <3> QED
      BY <2>1, <3>1, <1>b DEF Hook
  <2>3. Clicked(RecordStarted(page), h) /\ UNCHANGED toServer
    BY <2>1, <1>3 DEF StartRecording
  <2>4. /\ page' \in Shown(0..Length) /\ hook' \in Hook /\ hook'.stopped = hook.stopped
        /\ UNCHANGED <<toPage, server, turns, outcome, faults>>
    BY <2>2, <2>3, <1>a, <1>b, MoveTypes, ClickedFacts
  <2> QED
    BY <2>3, <2>4, <1>a, <1>b, PageInv DEF StopsAreTrue
<1>4. CASE SendText
  <2>1. PICK m \in ToServer : m.type # "session.end" /\ Send(m)
    BY <1>4, <1>b, FrameTypes DEF SendText
  <2>2. Clicked(AnswerSent(page), hook)
    BY <1>4 DEF SendText
  <2>3. /\ page' \in Shown(0..Length) /\ hook' \in Hook /\ hook'.stopped = hook.stopped
        /\ UNCHANGED <<toPage, server, turns, outcome, faults>>
    BY <2>2, <1>a, <1>b, MoveTypes, ClickedFacts
  <2>4. toServer' \in Seq(ToServer) /\ StopsAreTrue'
    BY <2>1, <2>3, <1>a, <1>b, SendFacts DEF StopsAreTrue
  <2> QED
    BY <2>3, <2>4, <1>b, PageInv
<1>5. CASE StopRecording
  <2>1. PICK m \in ToServer : m.type # "session.end" /\ Send(m)
    BY <1>5, <1>b, FrameTypes DEF StopRecording, EndOfTake
  <2>2. Stopped \in Hook /\ Stopped.stopped = hook.stopped
    BY <1>b DEF Stopped, Hook
  <2>3. Clicked(AnswerSent(page), Stopped)
    BY <1>5 DEF StopRecording
  <2>4. /\ page' \in Shown(0..Length) /\ hook' \in Hook /\ hook'.stopped = hook.stopped
        /\ UNCHANGED <<toPage, server, turns, outcome, faults>>
    BY <2>2, <2>3, <1>a, <1>b, MoveTypes, ClickedFacts
  <2>5. toServer' \in Seq(ToServer) /\ StopsAreTrue'
    BY <2>1, <2>4, <1>a, <1>b, SendFacts DEF StopsAreTrue
  <2> QED
    BY <2>4, <2>5, <1>b, PageInv
<1>6. CASE End
  <2>1. PICK m \in ToServer : Send(m)
    BY <1>6, <1>b, FrameTypes DEF End
  <2>2. PICK h : h = [hook EXCEPT !.mic = @ /\ hook.seen # "recording", !.stopped = TRUE]
    OBVIOUS
  <2>3. h \in Hook /\ h.stopped
    BY <2>2, <1>b DEF Hook
  <2>4. Clicked(EndRequested(page), h)
    BY <2>2, <1>6 DEF End
  <2>5. /\ page' \in Shown(0..Length) /\ hook' \in Hook /\ hook'.stopped
        /\ UNCHANGED <<toPage, server, turns, outcome, faults>>
    BY <2>3, <2>4, <1>a, <1>b, MoveTypes, ClickedFacts
  <2>6. toServer' \in Seq(ToServer) /\ StopsAreTrue'
    BY <2>1, <2>5, <1>b, SendFacts DEF StopsAreTrue
  <2> QED
    BY <2>5, <2>6, <1>b, PageInv
<1>7. ASSUME NEW h \in Hook, h.stopped = hook.stopped, page' \in Shown(0..Length), Hangs(h)
      PROVE  IInv' /\ PageFrame
  <2>1. /\ hook' \in Hook /\ hook'.stopped = hook.stopped /\ toPage' = <<>>
        /\ UNCHANGED <<server, turns, outcome, faults>>
    BY <1>7 DEF Hangs, Hook, Shown
  <2>2. PICK m \in ToServer : m.type # "session.end" /\ Send(m)
    BY <1>7, <1>b, FrameTypes DEF Hangs
  <2>3. toServer' \in Seq(ToServer) /\ StopsAreTrue'
    BY <2>1, <2>2, <1>a, <1>b, SendFacts DEF StopsAreTrue
  <2> QED
    BY <2>1, <2>3, <1>7, <1>b, PageInv
<1>8. CASE LeavePage
  <2>1. PICK h : h = [hook EXCEPT !.sock = "left", !.mic = FALSE]
    OBVIOUS
  <2> QED
    BY <2>1, <1>7, <1>8, <1>b DEF LeavePage, Hook
<1>9. CASE EndTimeout
  <2>1. PICK h : h = [hook EXCEPT !.sock = "closed"]
    OBVIOUS
  <2>2. page' \in Shown(0..Length)
    BY <1>9, <1>b, MoveTypes DEF EndTimeout
  <2> QED
    BY <2>1, <2>2, <1>7, <1>9, <1>b DEF EndTimeout, Hook
<1>10. CASE SocketOpens
  <2>1. hook' \in Hook /\ hook'.stopped = hook.stopped
    BY <1>10, <1>b DEF SocketOpens, Hook
  <2>2. UNCHANGED <<page, toPage, server, turns, outcome, faults>>
    BY <1>10 DEF SocketOpens
  <2>3. toServer' \in Seq(ToServer) /\ StopsAreTrue'
    BY <1>10, <1>b, FrameTypes DEF SocketOpens, StopsAreTrue
  <2> QED
    BY <2>1, <2>2, <2>3, <1>b, PageInv
<1>11. CASE ReceiveMessage
  <2>1. PICK m \in ToPage : m = Head(toPage) /\ (m.type = "session.end" => m.code \in {"completed", "ended_by_client"})
    BY <1>11, <1>a, <1>b DEF ReceiveMessage, EndsAreTrue
  <2>2. PICK p : p = IF m.type = "close" THEN Closed(page) ELSE Server(page, m)
    OBVIOUS
  <2>3. PICK h : h = AfterMessage(m)
    OBVIOUS
  <2>4. p \in Shown(0..Length)
    BY <2>1, <2>2, <1>b, ReducerTypes, MoveTypes
  <2>5. h \in Hook /\ h.stopped = hook.stopped
    BY <2>1, <2>3, <1>b, <1>c DEF AfterMessage, Hook, Closes
  <2>6. /\ Happened(p, h) /\ toPage # <<>> /\ toPage' = Tail(toPage) /\ UNCHANGED <<server, turns, outcome>>
        /\ Send(Frame("audio.end", page.seq, hook.take, hook.sent)) \/ UNCHANGED toServer
    BY <2>1, <2>2, <2>3, <1>11 DEF ReceiveMessage
  <2>7. page' \in Shown(0..Length) /\ hook' \in Hook /\ hook'.stopped = hook.stopped /\ faults' \in 0..MaxFaults
    BY <2>4, <2>5, <2>6, <1>a, HappenedFacts
  <2>8. toServer' \in Seq(ToServer) /\ StopsAreTrue'
    <3>1. PICK f \in ToServer : f.type # "session.end" /\ (Send(f) \/ UNCHANGED toServer)
      BY <2>6, <1>b, FrameTypes
    <3>2. CASE Send(f)
      BY <3>1, <3>2, <2>7, <1>a, <1>b, SendFacts DEF StopsAreTrue
    <3> QED
      BY <3>1, <3>2, <2>7, <1>a, <1>b DEF StopsAreTrue
  <2> QED
    BY <2>6, <2>7, <2>8, PageInv
<1>12. CASE AutoplayBlocked
  <2>1. PICK m \in ToPage : m = Head(toPage) /\ m.type = "question.audio_end"
    BY <1>12, <1>b DEF AutoplayBlocked
  <2>2. page' \in Shown(0..Length)
    BY <2>1, <1>12, <1>b, ReducerTypes DEF AutoplayBlocked
  <2>3. hook' \in Hook /\ hook'.stopped = hook.stopped
    BY <2>2, <1>12, <1>b DEF AutoplayBlocked, Hook, Shown
  <2>4. faults' \in 0..MaxFaults
    BY <1>12, <1>a, FaultCounts DEF AutoplayBlocked
  <2>5. toPage # <<>> /\ toPage' = Tail(toPage) /\ UNCHANGED <<toServer, server, turns, outcome>>
    BY <1>12 DEF AutoplayBlocked
  <2> QED
    BY <2>2, <2>3, <2>4, <2>5, <1>a, <1>b, PageInv DEF StopsAreTrue
<1>13. ASSUME NEW k \in Questions, QuestionHeard(k)
       PROVE  IInv' /\ PageFrame
  <2>1. PICK h : h = [hook EXCEPT !.waits = @ \ {k}]
    OBVIOUS
  <2>2. h \in Hook /\ h.stopped = hook.stopped
    BY <2>1, <1>b, <1>c DEF Hook
  <2>3. Happened(Heard(page), h) /\ UNCHANGED <<toPage, toServer, server, turns, outcome>>
    BY <2>1, <1>13 DEF QuestionHeard
  <2>4. page' \in Shown(0..Length) /\ hook' \in Hook /\ hook'.stopped = hook.stopped /\ faults' \in 0..MaxFaults
    BY <2>2, <2>3, <1>a, <1>b, MoveTypes, HappenedFacts
  <2> QED
    BY <2>3, <2>4, <1>a, <1>b, PageInv DEF StopsAreTrue
<1>14. CASE Speak
  <2>1. hook.sent + 1 \in 0..MaxSpoken
    BY <1>14, <1>b, LiveAssumption DEF Speak
  <2>2. hook' \in Hook /\ hook'.stopped = hook.stopped
    BY <2>1, <1>14, <1>b DEF Speak, Hook
  <2>3. UNCHANGED <<page, toPage, server, turns, outcome, faults>>
    BY <1>14 DEF Speak
  <2>4. PICK m \in ToServer : m.type # "session.end" /\ Send(m)
    BY <2>1, <1>14, <1>b, FrameTypes DEF Speak
  <2>5. toServer' \in Seq(ToServer) /\ StopsAreTrue'
    BY <2>2, <2>4, <1>a, <1>b, SendFacts DEF StopsAreTrue
  <2> QED
    BY <2>2, <2>3, <2>5, <1>b, PageInv
<1>15. CASE TimerStopsRecording
  <2>1. PICK m \in ToServer : m.type # "session.end" /\ Send(m)
    BY <1>15, <1>b, FrameTypes DEF TimerStopsRecording, EndOfTake
  <2>2. Stopped \in Hook /\ Stopped.stopped = hook.stopped
    BY <1>b DEF Stopped, Hook
  <2>3. Happened(AnswerSent(page), Stopped) /\ UNCHANGED <<toPage, server, turns, outcome>>
    BY <1>15 DEF TimerStopsRecording
  <2>4. page' \in Shown(0..Length) /\ hook' \in Hook /\ hook'.stopped = hook.stopped /\ faults' \in 0..MaxFaults
    BY <2>2, <2>3, <1>a, <1>b, MoveTypes, HappenedFacts
  <2>5. toServer' \in Seq(ToServer) /\ StopsAreTrue'
    BY <2>1, <2>4, <1>a, <1>b, SendFacts DEF StopsAreTrue
  <2> QED
    BY <2>3, <2>4, <2>5, <1>b, PageInv
<1>16. CASE Render
  <2>1. hook' \in Hook /\ hook'.stopped = hook.stopped
    BY <1>16, <1>b DEF Render, Hook, Shown
  <2>2. UNCHANGED <<page, toPage, toServer, server, turns, outcome, faults>>
    BY <1>16 DEF Render
  <2> QED
    BY <2>1, <2>2, <1>a, <1>b, PageInv DEF StopsAreTrue
<1>17. CASE ConnectionLost
  <2>1. page' \in Shown(0..Length)
    BY <1>17, <1>b, MoveTypes DEF ConnectionLost
  <2>2. hook' \in Hook /\ hook'.stopped = hook.stopped
    BY <2>1, <1>17, <1>b DEF ConnectionLost, Hook, Shown
  <2>3. faults' \in 0..MaxFaults
    BY <1>17, <1>a, FaultCounts DEF ConnectionLost
  <2>4. toPage' = <<>> /\ UNCHANGED <<server, turns, outcome>>
    BY <1>17 DEF ConnectionLost
  <2>5. PICK n \in 0..Len(toServer) :
          toServer' = IF hook.sock = "open" THEN Append(SubSeq(toServer, 1, n), Control("disconnect")) ELSE <<>>
    BY <1>17 DEF ConnectionLost
  <2>6. /\ SubSeq(toServer, 1, n) \in Seq(ToServer)
        /\ DOMAIN SubSeq(toServer, 1, n) = 1..n
        /\ \A i \in 1..n : i \in DOMAIN toServer /\ SubSeq(toServer, 1, n)[i] = toServer[i]
    BY <1>b
  <2>7. PICK s : s = SubSeq(toServer, 1, n)
    OBVIOUS
  <2>8. Control("disconnect") \in ToServer /\ Control("disconnect").type # "session.end"
    BY <1>b, FrameTypes
  <2>9. toServer' \in Seq(ToServer) /\ StopsAreTrue'
    BY <2>2, <2>5, <2>6, <2>7, <2>8, <1>a, <1>b DEF StopsAreTrue
  <2> QED
    BY <2>1, <2>2, <2>3, <2>4, <2>9, PageInv
<1> QED
  BY <1>1, <1>2, <1>3, <1>4, <1>5, <1>6, <1>8, <1>9, <1>10, <1>11, <1>12, <1>13, <1>14, <1>15, <1>16, <1>17
  DEF PageAct, Clicks, Answers, PageStep
-----------------------------------------------------------------------------
(* The runner's steps *)

RunnerAct == RunnerStep \/ HearNothing \/ TimeLimit \/ StoreFails \/ ProviderFails \/ SendRaises

LEMMA ToFacts ==
  ASSUME server \in Runner, NEW pc \in PcValues, To(pc)
  PROVE  /\ server' \in Runner /\ server'.pc = pc /\ server'.q = server.q
         /\ server'.exit = server.exit /\ server'.audio = server.audio
         /\ server'.discarding = server.discarding
BY DEF To, Runner

LEMMA ExitFacts ==
  ASSUME server \in Runner, NEW why \in Exits, Exit(why)
  PROVE  /\ server' \in Runner /\ server'.pc = "close" /\ server'.q = server.q
         /\ server'.exit = why /\ server'.audio = server.audio
         /\ server'.discarding = server.discarding
BY DEF Exit, Runner, PcValues

LEMMA WriteFacts ==
  ASSUME TypeOK, server.q \in Questions, NEW row \in Turn, Write(row)
  PROVE  /\ turns' \in [Questions -> Turn]
         /\ turns'[server.q] = row
         /\ \A k \in Questions \ {server.q} : turns'[k] = turns[k]
BY DEF TypeOK, Write

LEMMA MessageTypes ==
  /\ Message("session.ready", 0, "") \in ToPage /\ Message("session.ready", 0, "").type = "session.ready"
  /\ Message("close", 0, "") \in ToPage /\ Message("close", 0, "").type = "close"
  /\ \A type \in {"question.text", "question.audio_end", "turn.complete"}, seq \in 0..Length :
       Message(type, seq, "") \in ToPage /\ Message(type, seq, "").type = type /\ Message(type, seq, "").seq = seq
  /\ \A code \in {"completed", "ended_by_client"} :
       /\ Message("session.end", 0, code) \in ToPage
       /\ Message("session.end", 0, code).type = "session.end"
       /\ Message("session.end", 0, code).code = code
  /\ \A code \in {"no_speech", "answer_too_long"} \cup Fatal :
       Error(code) \in ToPage /\ Error(code).type = "error" /\ Error(code).code = code
BY LiveAssumption DEF Message, Error, ToPage, Fatal

\* What a session says last.
LEMMA LastWordsFacts ==
  /\ LastWords \in Seq(ToPage)
  /\ \A i \in DOMAIN LastWords :
       /\ LastWords[i].type # "turn.complete"
       /\ LastWords[i].type = "session.end" =>
            LastWords[i].code = server.exit /\ server.exit \in {"completed", "ended_by_client"}
<1>1. CASE server.exit \in {"completed", "ended_by_client"}
  <2>1. PICK m \in ToPage : m = Message("session.end", 0, server.exit) /\ m.type = "session.end" /\ m.code = server.exit
    BY <1>1, MessageTypes
  <2>2. LastWords = <<m>>
    BY <1>1, <2>1 DEF LastWords
  <2> QED
    BY <1>1, <2>1, <2>2
<1>2. CASE server.exit \in {"limit", "error"}
  <2>1. LastWords = <<Error("session_time_limit")>> \/ LastWords = <<Error("internal_error")>>
    BY <1>2 DEF LastWords
  <2>2. \A code \in Fatal : Error(code) \in ToPage /\ Error(code).type = "error"
    BY MessageTypes
  <2>3. \E m \in ToPage : m.type = "error" /\ LastWords = <<m>>
    BY <2>1, <2>2 DEF Fatal
  <2> QED
    BY <2>3
<1>3. CASE server.exit \notin {"completed", "ended_by_client", "limit", "error"}
  BY <1>3 DEF LastWords
<1> QED
  BY <1>1, <1>2, <1>3

LEMMA RowTypes == TypeOK /\ server.q \in Questions => Asked \in Turn /\ Answered \in Turn
BY DEF TypeOK, Asked, Answered, Turn, Runner

\* What a step that is not the last leaves on the two channels.
Channels ==
  /\ toPage' \in Seq(ToPage)
  /\ \A i \in DOMAIN toPage' : toPage'[i].type = "session.end" => i \in DOMAIN toPage /\ toPage'[i] = toPage[i]
  /\ UNCHANGED toServer \/ (toServer # <<>> /\ toServer' = Tail(toServer))

LEMMA SaysChannels ==
  ASSUME TypeOK, NEW m \in ToPage, m.type # "session.end", Says(m),
         UNCHANGED toServer \/ (toServer # <<>> /\ toServer' = Tail(toServer))
  PROVE  Channels
BY SaysFacts DEF Channels, TypeOK

LEMMA SilentChannels ==
  ASSUME TypeOK, UNCHANGED toPage,
         UNCHANGED toServer \/ (toServer # <<>> /\ toServer' = Tail(toServer))
  PROVE  Channels
BY DEF Channels, TypeOK

LEMMA RunnerInv ==
  ASSUME IInv, UNCHANGED <<page, hook, outcome>>, Channels, server.pc # "over",
         server' \in Runner, turns' \in [Questions -> Turn], faults' \in 0..MaxFaults,
         TurnsInOrder', PcOK', ExitOK'
  PROVE  IInv'
<1>1. toServer' \in Seq(ToServer) /\ StopsAreTrue'
  <2>1. CASE UNCHANGED toServer
    BY <2>1 DEF IInv, TypeOK, StopsAreTrue
  <2>2. CASE toServer # <<>> /\ toServer' = Tail(toServer)
    <3>1. \A i \in DOMAIN toServer' : i + 1 \in DOMAIN toServer /\ toServer'[i] = toServer[i + 1]
      BY <2>2, TailFacts DEF IInv, TypeOK
    <3> QED
      BY <2>2, <3>1, TailFacts DEF IInv, TypeOK, StopsAreTrue
  <2> QED
    BY <2>1, <2>2 DEF Channels
<1>2. EndsAreTrue'
  BY DEF IInv, EndsAreTrue, Channels
<1>3. TypeOK'
  BY <1>1 DEF IInv, TypeOK, Channels
<1> QED
  BY <1>1, <1>2, <1>3 DEF IInv

\* A step on, which leaves the turns alone.
LEMMA OnInv ==
  ASSUME IInv, UNCHANGED <<page, hook, outcome, turns>>, Channels, faults' \in 0..MaxFaults,
         server' \in Runner, server'.q = server.q, server'.exit = server.exit,
         \/ server.pc = "admit" /\ server'.pc = "load"
         \/ server.pc = "load" /\ server'.pc = "mark"
         \/ server.pc \in Busy /\ server'.pc \in Busy
  PROVE  IInv'
<1>1. TurnsInOrder' /\ PcOK' /\ ExitOK'
  BY DEF IInv, TurnsInOrder, PcOK, ExitOK, Idle, Busy
<1> QED
  BY <1>1, RunnerInv DEF IInv, TypeOK, Busy

\* A step to the end: the runner says why, and what is so.
LEMMA LeaveInv ==
  ASSUME IInv, UNCHANGED <<page, hook, outcome>>, Channels, faults' \in 0..MaxFaults,
         server.pc \notin {"close", "over"}, NEW why \in Exits \ {"none"}, Exit(why),
         UNCHANGED turns \/ (why # "refused" /\ WritesOrNot),
         why = "completed" => server.q = Length + 1,
         why = "ended_by_client" => hook.stopped,
         why = "refused" => server.pc = "admit"
  PROVE  IInv'
<1>1. /\ server' \in Runner /\ server'.pc = "close" /\ server'.q = server.q
      /\ server'.exit = why
  BY ExitFacts DEF IInv, TypeOK
<1>2. PcOK'
  BY <1>1 DEF IInv, PcOK, Busy
<1>3. /\ turns' \in [Questions -> Turn]
      /\ \A k \in Questions : k # server.q => turns'[k] = turns[k]
      /\ why = "refused" => UNCHANGED turns
  <2>1. CASE UNCHANGED turns
    BY <2>1 DEF IInv, TypeOK
  <2>2. CASE why # "refused" /\ server.q \in Questions /\ (Write(Asked) \/ Write(Answered))
    BY <2>2, WriteFacts, RowTypes DEF IInv
  <2> QED
    BY <2>1, <2>2 DEF WritesOrNot, IInv, PcOK, Busy, Questions, TypeOK, Runner
<1>4. TurnsInOrder'
  BY <1>1, <1>3 DEF IInv, TurnsInOrder, Idle, Busy
<1>5. ExitOK'
  <2>1. why = "refused" => \A k \in Questions : turns[k].status = "planned"
    BY DEF IInv, PcOK, TurnsInOrder, Questions, Idle, TypeOK, Runner
  <2> QED
    BY <1>1, <1>3, <2>1 DEF ExitOK
<1> QED
  BY <1>1, <1>2, <1>3, <1>4, <1>5, RunnerInv

LEMMA RunnerStepInv ==
  ASSUME IInv, RunnerAct
  PROVE  IInv'
<1>a. TypeOK /\ server \in Runner /\ server.q \in 0..(Length + 1) /\ server.pc \in PcValues
  BY DEF IInv, TypeOK, Runner
<1>b. faults \in 0..MaxFaults /\ Length \in Nat \ {0} /\ 0 \in 0..Length
  BY LiveAssumption DEF IInv, TypeOK
<1>c. server.q \in Questions => server.q \in 0..Length
  BY <1>b DEF Questions
<1> USE DEF PcValues
<1>1. CASE Admit
  <2>1. Channels /\ server.pc = "admit" /\ UNCHANGED <<page, hook, outcome, turns>>
    BY <1>1, <1>a, SilentChannels DEF Admit
  <2>2. CASE To("load") /\ UNCHANGED faults
    BY <2>1, <2>2, <1>a, <1>b, ToFacts, OnInv
  <2>3. CASE Exit("refused")
    <3>1. faults' \in 0..MaxFaults
      BY <1>1, <1>a, <1>b, FaultCounts DEF Admit
    <3> QED
      BY <2>1, <2>3, <3>1, LeaveInv DEF Exits
  <2> QED
    BY <2>2, <2>3, <1>1 DEF Admit
<1>2. CASE AdmitTimesOut
  BY <1>2, <1>a, <1>b, SilentChannels, LeaveInv DEF AdmitTimesOut, Exits
<1>3. CASE LoadPlan
  <2>1. Channels
    <3>1. Says(Message("session.ready", 0, "")) /\ UNCHANGED toServer
      BY <1>3 DEF LoadPlan
    <3> QED
      BY <3>1, <1>a, MessageTypes, SaysChannels
  <2> QED
    BY <2>1, <1>3, <1>a, <1>b, ToFacts, OnInv DEF LoadPlan
<1>4. CASE Ask
  <2>1. /\ server.q \in Questions /\ turns[server.q].status = "planned" /\ server.pc = "mark"
        /\ UNCHANGED <<page, hook, toPage, toServer, outcome, faults>>
        /\ Update("planned", Asked, "text")
    BY <1>4, <1>b DEF Ask, IInv, TurnsInOrder, PcOK, Idle, Questions, TypeOK, Runner
  <2>2. Write(Asked) /\ To("text")
    BY <2>1 DEF Update
  <2>3. server' \in Runner /\ server'.pc = "text" /\ server'.q = server.q /\ server'.exit = server.exit
    BY <2>2, <1>a, ToFacts
  <2>4. /\ turns' \in [Questions -> Turn] /\ turns'[server.q].status = "asked"
        /\ \A k \in Questions \ {server.q} : turns'[k] = turns[k]
    <3>1. Asked \in Turn /\ Asked.status = "asked"
      BY <2>1, <1>a, RowTypes DEF Asked, TypeOK, Turn
    <3> QED
      BY <2>1, <2>2, <3>1, <1>a, WriteFacts
  <2>5. TurnsInOrder' /\ PcOK' /\ ExitOK'
    BY <2>1, <2>3, <2>4 DEF IInv, TurnsInOrder, PcOK, ExitOK, Idle, Busy, Questions
  <2> QED
    BY <2>1, <2>3, <2>4, <2>5, <1>a, <1>b, SilentChannels, RunnerInv
<1>5. CASE PlanDone
  <2>1. server.q = Length + 1
    BY <1>5, <1>a, <1>b DEF PlanDone
  <2> QED
    BY <2>1, <1>5, <1>a, <1>b, SilentChannels, LeaveInv DEF PlanDone, Exits
<1>6. CASE ShowQuestion
  <2>1. Channels
    <3>1. Says(Message("question.text", server.q, "")) /\ UNCHANGED toServer
      BY <1>6 DEF ShowQuestion
    <3>2. server.q \in 0..Length
      BY <1>6, <1>c DEF ShowQuestion, IInv, PcOK, Busy
    <3> QED
      BY <3>1, <3>2, <1>a, MessageTypes, SaysChannels
  <2> QED
    BY <2>1, <1>6, <1>a, <1>b, ToFacts, OnInv DEF ShowQuestion, Busy
<1>7. CASE SpeakQuestion
  <2>1. Channels
    <3>1. Says(AudioEnd) /\ UNCHANGED toServer
      BY <1>7 DEF SpeakQuestion
    <3>2. server.q \in 0..Length
      BY <1>7, <1>c DEF SpeakQuestion, IInv, PcOK, Busy
    <3> QED
      BY <3>1, <3>2, <1>a, MessageTypes, SaysChannels DEF AudioEnd
  <2>2. Silence \in Audio
    BY LiveAssumption DEF Silence, Audio
  <2>3. /\ server' \in Runner /\ server'.pc = "listen" /\ server'.q = server.q
        /\ server'.exit = server.exit
    BY <1>7, <2>2, <1>a DEF SpeakQuestion, Runner
  <2> QED
    BY <2>1, <2>3, <1>7, <1>a, <1>b, OnInv DEF SpeakQuestion, Busy
<1>8. CASE Hear \/ HearNothing
  <2>1. /\ server.pc \in {"listen", "transcribe"} /\ UNCHANGED <<page, hook, turns, outcome>>
        /\ faults' \in 0..MaxFaults
        /\ UNCHANGED toServer \/ (toServer # <<>> /\ toServer' = Tail(toServer))
    BY <1>8, <1>a, <1>b, FaultCounts DEF Hear, Listen, HearAudio, HearAudioEnd, HearText, HearEnd, HearDisconnect, HearNothing
  <2>2. server.q \in Questions
    BY <2>1 DEF IInv, PcOK, Busy
  <2>3. UNCHANGED toPage \/ \E m \in ToPage : m.type # "session.end" /\ Says(m)
    <3>1. UNCHANGED toPage \/ Says(Error("answer_too_long")) \/ Says(Error("no_speech"))
      BY <1>8 DEF Hear, HearAudio, HearAudioEnd, HearText, HearEnd, HearDisconnect, HearNothing
    <3> QED
      BY <3>1, MessageTypes
  <2>4. Channels
    BY <2>1, <2>3, <1>a, SaysChannels, SilentChannels
  <2>5. Silence \in Audio
    BY LiveAssumption DEF Silence, Audio
  <2>6. ASSUME toServer # <<>>
        PROVE  /\ Head(toServer) \in ToServer
               /\ Head(toServer).size \in 0..MaxSpoken
               /\ <<Head(toServer).seq, Head(toServer).take>> \in (0..Length) \X (0..MaxTakes)
               /\ 0 \in 0..MaxTakes /\ <<Head(toServer).seq, 0>> \in (0..Length) \X (0..MaxTakes)
               /\ Head(toServer).type = "session.end" => hook.stopped
    <3>1. Head(toServer) \in ToServer /\ (Head(toServer).type = "session.end" => hook.stopped)
      BY <2>6, <1>a, TailFacts DEF IInv, TypeOK, StopsAreTrue
    <3> QED
      BY <3>1, LiveAssumption DEF ToServer
  <2>7. CASE HearAudio
    <3>1. server' \in Runner /\ server'.q = server.q /\ server'.exit = server.exit /\ server'.pc = server.pc
      <4>1. CASE UNCHANGED server
        BY <4>1, <1>a
      <4>2. CASE server' = Dropped
        BY <4>2, <2>5, <1>a DEF Dropped, Runner
      <4>3. CASE server' = [server EXCEPT !.audio = Joined(Head(toServer))] /\ ~Overflows
        <5>1. PICK a : a = Joined(Head(toServer))
          OBVIOUS
        <5>2. server.audio \in Audio /\ server.audio.heard + 1 \in 0..MaxFrames
          BY <4>3, <1>a, LiveAssumption DEF Overflows, Runner, Audio
        <5>3. a \in Audio
          BY <5>1, <5>2, <2>6, <2>7 DEF Joined, Audio, HearAudio, Listen
        <5> QED
          BY <4>3, <5>1, <5>3, <1>a DEF Runner
      <4> QED
        BY <2>7, <4>1, <4>2, <4>3 DEF HearAudio
    <3> QED
      BY <3>1, <2>1, <2>4, <2>7, OnInv DEF HearAudio, Listen, Busy
  <2>8. CASE HearAudioEnd
    <3>1. /\ server' \in Runner /\ server'.q = server.q /\ server'.exit = server.exit
          /\ server'.pc \in {"listen", "transcribe"}
      <4>1. CASE UNCHANGED server
        BY <4>1, <2>1, <1>a
      <4>2. CASE server' = [server EXCEPT !.discarding = FALSE]
        BY <4>2, <2>1, <1>a DEF Runner
      <4>3. CASE server' = [server EXCEPT !.pc = "transcribe", !.audio.said = Head(toServer).size]
        <5>1. PICK a : a = [server.audio EXCEPT !.said = Head(toServer).size]
          OBVIOUS
        <5>2. a \in Audio
          BY <5>1, <2>6, <2>8, <1>a DEF Audio, Runner, HearAudioEnd, Listen
        <5>3. server' = [server EXCEPT !.pc = "transcribe", !.audio = a]
          BY <4>3, <5>1
        <5> QED
          BY <5>2, <5>3, <1>a DEF Runner
      <4> QED
        BY <2>8, <4>1, <4>2, <4>3 DEF HearAudioEnd
    <3> QED
      BY <3>1, <2>1, <2>4, OnInv DEF Busy
  <2>9. CASE HearText
    <3>1. PICK a : a = [Silence EXCEPT !.from = {<<Head(toServer).seq, 0>>}]
      OBVIOUS
    <3>2. a \in Audio
      BY <3>1, <2>5, <2>6, <2>9 DEF HearText, Listen, Audio
    <3>3. server' = [server EXCEPT !.pc = "record", !.audio = a]
      BY <3>1, <2>9 DEF HearText
    <3>4. server' \in Runner /\ server'.q = server.q /\ server'.exit = server.exit /\ server'.pc = "record"
      BY <3>2, <3>3, <1>a DEF Runner
    <3> QED
      BY <3>4, <2>1, <2>4, OnInv DEF Busy
  <2>10. CASE HearEnd
    BY <2>10, <2>1, <2>4, <2>6, LeaveInv DEF HearEnd, Listen, Exits
  <2>11. CASE HearDisconnect
    BY <2>11, <2>1, <2>4, LeaveInv DEF HearDisconnect, Listen, Exits
  <2>12. CASE HearNothing
    <3>1. server' \in Runner /\ server'.q = server.q /\ server'.exit = server.exit /\ server'.pc = "listen"
      BY <2>12, <2>5, <1>a DEF HearNothing, Runner
    <3> QED
      BY <3>1, <2>1, <2>4, OnInv DEF Busy
  <2> QED
    BY <1>8, <2>7, <2>8, <2>9, <2>10, <2>11, <2>12 DEF Hear
<1>9. CASE Transcribe
  BY <1>9, <1>a, <1>b, SilentChannels, ToFacts, OnInv DEF Transcribe, Busy
<1>10. CASE StoreAnswer
  <2>1. /\ server.q \in Questions /\ turns[server.q].status = "asked" /\ server.pc = "record"
        /\ UNCHANGED <<page, hook, toPage, toServer, outcome, faults>>
        /\ Update("asked", Answered, "turn")
    BY <1>10 DEF StoreAnswer, IInv, TurnsInOrder, PcOK, Busy
  <2>2. Write(Answered) /\ To("turn")
    BY <2>1 DEF Update
  <2>3. server' \in Runner /\ server'.pc = "turn" /\ server'.q = server.q /\ server'.exit = server.exit
    BY <2>2, <1>a, ToFacts
  <2>4. /\ turns' \in [Questions -> Turn] /\ turns'[server.q].status = "answered"
        /\ \A k \in Questions \ {server.q} : turns'[k] = turns[k]
    <3>1. Answered \in Turn /\ Answered.status = "answered"
      BY <2>1, <1>a, RowTypes DEF Answered
    <3> QED
      BY <2>1, <2>2, <3>1, <1>a, WriteFacts
  <2>5. TurnsInOrder' /\ PcOK' /\ ExitOK'
    BY <2>1, <2>3, <2>4 DEF IInv, TurnsInOrder, PcOK, ExitOK, Idle, Busy, Questions
  <2> QED
    BY <2>1, <2>3, <2>4, <2>5, <1>a, <1>b, SilentChannels, RunnerInv
<1>11. CASE CompleteTurn
  <2>1. server.q \in Questions /\ server.pc = "turn" /\ turns[server.q].status = "answered"
    BY <1>11 DEF CompleteTurn, IInv, TurnsInOrder, PcOK
  <2>2. Channels
    <3>1. Says(Message("turn.complete", server.q, "")) /\ UNCHANGED toServer
      BY <1>11 DEF CompleteTurn
    <3> QED
      BY <3>1, <2>1, <1>a, <1>c, MessageTypes, SaysChannels
  <2>3. /\ server' \in Runner /\ server'.pc = "mark" /\ server'.q = server.q + 1
        /\ server'.exit = server.exit
    <3>1. server.q + 1 \in 0..(Length + 1)
      BY <2>1, <1>b DEF Questions
    <3>2. server' = [server EXCEPT !.pc = "mark", !.q = @ + 1]
      BY <1>11 DEF CompleteTurn
    <3> QED
      BY <3>1, <3>2, <1>a DEF Runner
  <2>4. TurnsInOrder' /\ PcOK' /\ ExitOK'
    <3>1. UNCHANGED <<hook, turns, outcome>> /\ server.exit = "none"
      BY <1>11, <2>1 DEF CompleteTurn, IInv, PcOK
    <3>2. TurnsInOrder'
      BY <2>1, <2>3, <3>1, <1>a, <1>b DEF IInv, TurnsInOrder, Idle, Busy, Questions
    <3>3. PcOK' /\ ExitOK'
      BY <2>1, <2>3, <3>1, <1>a, <1>b DEF IInv, PcOK, ExitOK, Busy, Questions
    <3> QED
      BY <3>2, <3>3
  <2> QED
    BY <2>1, <2>2, <2>3, <2>4, <1>11, <1>a, <1>b, RunnerInv DEF CompleteTurn, TypeOK
<1>12. CASE TimeLimit
  <2>1. /\ server.pc \notin {"admit", "close", "over"} /\ WritesOrNot /\ Exit("limit")
        /\ UNCHANGED <<page, hook, toPage, toServer, outcome>> /\ faults' \in 0..MaxFaults
    BY <1>12, <1>a, FaultCounts DEF TimeLimit, InInterview
  <2> QED
    BY <2>1, <1>a, SilentChannels, LeaveInv DEF Exits
<1>13. CASE StoreFails
  <2>1. /\ server.pc \in {"load", "mark", "speak", "record"} /\ WritesOrNot /\ Exit("error")
        /\ UNCHANGED <<page, hook, toServer, outcome>> /\ faults' \in 0..MaxFaults
        /\ IF server.pc = "speak" THEN Says(AudioEnd) ELSE UNCHANGED toPage
    BY <1>13, <1>a, FaultCounts DEF StoreFails
  <2>2. Channels
    <3>1. CASE server.pc = "speak"
      <4>1. server.q \in 0..Length
        BY <3>1, <1>c DEF IInv, PcOK, Busy
      <4> QED
        BY <2>1, <3>1, <4>1, <1>a, MessageTypes, SaysChannels DEF AudioEnd
    <3> QED
      BY <2>1, <3>1, <1>a, SilentChannels
  <2> QED
    BY <2>1, <2>2, LeaveInv DEF Exits
<1>14. CASE ProviderFails
  <2>1. faults' \in 0..MaxFaults
    BY <1>14, <1>a, FaultCounts DEF ProviderFails
  <2> QED
    BY <2>1, <1>14, <1>a, SilentChannels, LeaveInv DEF ProviderFails, Exits
<1>15. CASE SendRaises
  BY <1>15, <1>a, <1>b, SilentChannels, LeaveInv DEF SendRaises, Exits
<1>16. CASE Close
  <2>1. /\ server.pc = "close" /\ UNCHANGED <<page, hook, toServer, turns, faults>>
        /\ outcome' = Reported
        /\ toPage' = IF hook.sock = "open" THEN toPage \o LastWords \o <<Message("close", 0, "")>> ELSE toPage
    BY <1>16 DEF Close
  <2>2. server' \in Runner /\ server'.pc = "over" /\ server'.q = server.q /\ server'.exit = server.exit
    BY <1>16, <1>a, ToFacts DEF Close
  <2>3. server.exit \in Exits /\ Reported' = Reported /\ Reported \in {"completed", "interrupted", "refused"}
    BY <2>2, <1>a DEF Runner, Reported
  <2>4. /\ LastWords \in Seq(ToPage)
        /\ \A i \in DOMAIN LastWords : LastWords[i].type = "session.end" =>
             LastWords[i].code = server.exit /\ server.exit \in {"completed", "ended_by_client"}
    BY LastWordsFacts
  <2>5. /\ toPage' \in Seq(ToPage)
        /\ \A i \in DOMAIN toPage' : toPage'[i].type = "session.end" =>
             toPage'[i].code = server.exit /\ server.exit \in {"completed", "ended_by_client"}
    <3>1. PICK w : w = LastWords
      OBVIOUS
    <3>2. PICK m \in ToPage : m = Message("close", 0, "") /\ m.type = "close"
      BY <1>b, MessageTypes
    <3>3. \A i \in DOMAIN toPage : toPage[i].type # "session.end"
      BY <2>1 DEF IInv, EndsAreTrue
    <3>4. PICK s : s = toPage \o w
      OBVIOUS
    <3>5. /\ s \in Seq(ToPage)
          /\ \A i \in DOMAIN s : s[i].type = "session.end" =>
               s[i].code = server.exit /\ server.exit \in {"completed", "ended_by_client"}
      BY <3>1, <3>3, <3>4, <2>4, <1>a DEF TypeOK
    <3>6. CASE hook.sock = "open"
      <4>1. toPage' = s \o <<m>>
        BY <2>1, <3>1, <3>2, <3>4, <3>6
      <4>2. PICK t : t = Append(s, m)
        OBVIOUS
      <4>3. toPage' = t
        BY <4>1, <4>2, <3>5
      <4> QED
        <5>1. /\ t \in Seq(ToPage) /\ DOMAIN t = 1..(Len(s) + 1) /\ DOMAIN s = 1..Len(s)
              /\ t[Len(s) + 1] = m /\ Len(s) \in Nat
              /\ \A i \in 1..Len(s) : t[i] = s[i]
          <6>1. s \in Seq(ToPage) /\ m \in ToPage
            BY <3>2, <3>5
          <6> QED
            BY <4>2, <6>1, AppendFacts
        <5>2. \A i \in DOMAIN t : t[i] = m \/ (i \in DOMAIN s /\ t[i] = s[i])
          BY <5>1
        <5> QED
          BY <5>1, <5>2, <4>3, <3>2, <3>5
    <3> QED
      BY <2>1, <3>3, <3>6, <1>a DEF TypeOK
  <2>6. TypeOK' /\ EndsAreTrue' /\ StopsAreTrue'
    BY <2>1, <2>2, <2>3, <2>5, <1>a DEF TypeOK, EndsAreTrue, StopsAreTrue, IInv
  <2>7. TurnsInOrder' /\ PcOK' /\ ExitOK'
    BY <2>1, <2>2, <2>3 DEF IInv, TurnsInOrder, PcOK, ExitOK, Idle, Busy
  <2> QED
    BY <2>6, <2>7 DEF IInv
<1> QED
  BY <1>1, <1>2, <1>3, <1>4, <1>5, <1>6, <1>7, <1>8, <1>9, <1>10, <1>11, <1>12, <1>13, <1>14, <1>15, <1>16
  DEF RunnerAct, RunnerStep

\* Every step of the session keeps the invariant.
LEMMA NextIInv == IInv /\ [Next]_vars => IInv'
<1> SUFFICES ASSUME IInv, [Next]_vars PROVE IInv'
  OBVIOUS
<1>1. CASE PageAct
  BY <1>1, PageStepInv
<1>2. CASE RunnerAct
  BY <1>2, RunnerStepInv
<1>3. CASE UNCHANGED vars
  BY <1>3 DEF vars, IInv, TypeOK, TurnsInOrder, PcOK, ExitOK, StopsAreTrue, EndsAreTrue, Reported
<1> QED
  BY <1>1, <1>2, <1>3 DEF Next, Breaks, PageAct, RunnerAct

\* The inductive invariant.
THEOREM Invariance == Spec => []IInv
BY InitIInv, NextIInv, PTL DEF Spec

\* Every reachable state is one the page, the socket, the runner and the store can hold.
THEOREM TypeCorrect == Spec => []TypeOK
<1>1. IInv => TypeOK
  BY DEF IInv
<1> QED
  BY <1>1, Invariance, PTL

-----------------------------------------------------------------------------
(* The record of the turns implements Turns *)

LEMMA InitRecord == Init => Record!Init
BY DEF Init, Record!Init, Questions, Record!Questions

LEMMA PageStepRecord ==
  ASSUME IInv, PageAct
  PROVE  [Record!Next]_Record!vars
<1>1. PageFrame /\ hook \in Hook /\ hook' \in Hook
  BY PageStepInv DEF IInv, TypeOK
<1>2. hook.stopped \in BOOLEAN /\ hook'.stopped \in BOOLEAN
  BY <1>1 DEF Hook
<1>3. CASE hook'.stopped = hook.stopped
  BY <1>1, <1>3 DEF PageFrame, Record!vars
<1>4. CASE hook'.stopped = TRUE
  BY <1>1, <1>4 DEF PageFrame, Record!Next, Record!Stop
<1> QED
  BY <1>1, <1>2, <1>3, <1>4 DEF PageFrame

\* A write of the runner is a question asked or answered.
LEMMA WriteRecord ==
  ASSUME IInv, UNCHANGED <<hook, outcome>>, server.q \in Questions, server.pc # "over",
         \/ server.pc = "mark" /\ Write(Asked)
         \/ server.pc = "record" /\ Write(Answered)
  PROVE  [Record!Next]_Record!vars
<1>1. outcome = "none"
  BY DEF IInv, PcOK
<1>2. PICK st : st = [k \in Questions |-> turns[k].status]
  OBVIOUS
<1>3. PICK st2 : st2 = [k \in Questions |-> turns'[k].status]
  OBVIOUS
<1>4. Record!Questions = Questions
  BY DEF Questions, Record!Questions
<1>5. PICK q \in Questions : q = server.q /\ \A j \in 1..(q - 1) : st[j] = "answered"
  BY <1>2, LiveAssumption DEF IInv, TurnsInOrder, Questions
<1>6. CASE server.pc = "mark" /\ Write(Asked)
  <2>1. Asked \in Turn /\ Asked.status = "asked" /\ st[server.q] = "planned"
    BY <1>2, <1>6, RowTypes DEF IInv, TypeOK, TurnsInOrder, Idle, Asked, Turn
  <2>2. st2 = [st EXCEPT ![server.q] = "asked"]
    BY <1>2, <1>3, <1>6, <2>1, WriteFacts DEF IInv
  <2>3. Record!Ask(q)
    BY <1>1, <1>2, <1>3, <1>5, <2>1, <2>2 DEF Record!Ask
  <2>4. Record!Next
    BY <2>3, <1>4, <1>5 DEF Record!Next
  <2> QED
    BY <2>4
<1>7. CASE server.pc = "record" /\ Write(Answered)
  <2>1. Answered \in Turn /\ Answered.status = "answered" /\ st[server.q] = "asked"
    BY <1>2, <1>7, RowTypes DEF IInv, TypeOK, TurnsInOrder, Busy, Answered
  <2>2. st2 = [st EXCEPT ![server.q] = "answered"]
    BY <1>2, <1>3, <1>7, <2>1, WriteFacts DEF IInv
  <2>3. Record!Answer(q)
    BY <1>1, <1>2, <1>3, <1>5, <2>1, <2>2 DEF Record!Answer
  <2>4. Record!Next
    BY <2>3, <1>4, <1>5 DEF Record!Next
  <2> QED
    BY <2>4
<1> QED
  BY <1>6, <1>7

LEMMA CloseRecord ==
  ASSUME IInv, Close
  PROVE  [Record!Next]_Record!vars
<1>1. /\ server.pc = "close" /\ UNCHANGED <<hook, turns>>
      /\ outcome = "none" /\ outcome' = Reported
  BY DEF Close, IInv, PcOK
<1>2. CASE server.exit = "completed"
  <2>1. Record!AllAnswered
    BY <1>2, LiveAssumption DEF IInv, ExitOK, TurnsInOrder, Questions, Record!AllAnswered, Record!Questions
  <2> QED
    BY <1>1, <1>2, <2>1 DEF Reported, Record!Next, Record!Complete
<1>3. CASE server.exit = "ended_by_client"
  BY <1>1, <1>3 DEF IInv, ExitOK, Reported, Record!Next, Record!Complete
<1>4. CASE server.exit = "refused"
  <2>1. \A k \in Record!Questions : [j \in Questions |-> turns[j].status][k] = "planned"
    BY <1>4 DEF IInv, ExitOK, Questions, Record!Questions
  <2> QED
    BY <1>1, <1>4, <2>1 DEF Reported, Record!Next, Record!BreakOff
<1>5. CASE server.exit \notin {"completed", "ended_by_client", "refused"}
  BY <1>1, <1>5 DEF Reported, Record!Next, Record!BreakOff
<1> QED
  BY <1>2, <1>3, <1>4, <1>5

LEMMA NextRecord ==
  ASSUME IInv, [Next]_vars
  PROVE  [Record!Next]_Record!vars
<1>1. CASE UNCHANGED <<hook, turns, outcome>>
  BY <1>1 DEF Record!vars
<1>2. CASE PageAct
  BY <1>2, PageStepRecord
<1>3. CASE Close
  BY <1>3, CloseRecord
<1>4. CASE Ask
  <2>1. server.q \in Questions /\ turns[server.q].status = "planned" /\ server.pc = "mark"
    BY <1>4, LiveAssumption DEF Ask, IInv, TurnsInOrder, PcOK, Idle, Questions, TypeOK, Runner
  <2> QED
    BY <1>4, <2>1, WriteRecord DEF Ask, Update
<1>5. CASE StoreAnswer
  <2>1. server.q \in Questions /\ turns[server.q].status = "asked" /\ server.pc = "record"
    BY <1>5 DEF StoreAnswer, IInv, TurnsInOrder, PcOK, Busy
  <2> QED
    BY <1>5, <2>1, WriteRecord DEF StoreAnswer, Update
<1>6. CASE TimeLimit \/ StoreFails
  <2>1. UNCHANGED <<hook, outcome>> /\ WritesOrNot
    BY <1>6 DEF TimeLimit, StoreFails
  <2>2. CASE UNCHANGED turns
    BY <2>1, <2>2, <1>1
  <2>3. CASE server.pc = "mark" /\ server.q <= Length /\ Write(Asked)
    <3>1. server.q \in Questions
      BY <2>3, LiveAssumption DEF IInv, PcOK, Questions, TypeOK, Runner
    <3> QED
      BY <2>1, <2>3, <3>1, WriteRecord
  <2>4. CASE server.pc = "record" /\ Write(Answered)
    <3>1. server.q \in Questions
      BY <2>4 DEF IInv, PcOK, Busy
    <3> QED
      BY <2>1, <2>4, <3>1, WriteRecord
  <2> QED
    BY <2>1, <2>2, <2>3, <2>4 DEF WritesOrNot
<1>7. CASE RunnerAct /\ ~Close /\ ~Ask /\ ~StoreAnswer /\ ~TimeLimit /\ ~StoreFails
  BY <1>7, <1>1 DEF RunnerAct, RunnerStep, Admit, AdmitTimesOut, LoadPlan, PlanDone, ShowQuestion,
     SpeakQuestion, Hear, Listen, HearAudio, HearAudioEnd, HearText, HearEnd, HearDisconnect,
     HearNothing, Transcribe, CompleteTurn, ProviderFails, SendRaises
<1>8. CASE UNCHANGED vars
  BY <1>8, <1>1 DEF vars
<1> QED
  BY <1>2, <1>3, <1>4, <1>5, <1>6, <1>7, <1>8 DEF Next, Breaks, PageAct, RunnerAct

\* Whatever breaks, questions are asked in order and answered once, and a
\* session is completed only when all are or the user stopped.
THEOREM Refinement == Spec => KeepsPromises
<1>1. IInv /\ [Next]_vars => [Record!Next]_Record!vars
  BY NextRecord
<1> QED
  BY InitRecord, <1>1, Invariance, PTL DEF Spec, KeepsPromises, Record!Spec
-----------------------------------------------------------------------------
(* What the page counts *)

Completes == {i \in DOMAIN toPage : toPage[i].type = "turn.complete"}

\* Every turn that is over is counted or its turn.complete is on its way, in
\* order and before the end of the session.
Counted ==
  /\ page.answered < server.q
  /\ \A i \in Completes : page.answered < toPage[i].seq /\ toPage[i].seq < server.q
  /\ \A i, j \in Completes : i < j => toPage[i].seq < toPage[j].seq
  /\ hook.sock = "open" /\ page.phase \notin Finished =>
       \A k \in Questions : page.answered < k /\ k < server.q => \E i \in Completes : toPage[i].seq = k
  /\ \A i \in DOMAIN toPage : toPage[i].type = "session.end" => \A j \in Completes : j < i
  /\ page.outcome = "completed" => page.answered = Length /\ outcome = "completed"

\* Nothing is said before the socket opens.
Opening == hook.sock = "opening" => server.pc = "admit" /\ toServer = <<>>

\* What the reducer does to the count and the outcome.
LEMMA ServerCounts ==
  ASSUME NEW p \in Shown(0..Length), NEW m \in ToPage
  PROVE  /\ p.phase \in Finished => Server(p, m) = p
         /\ m.type # "turn.complete" => Server(p, m).answered = p.answered
         /\ m.type # "session.end" => Server(p, m).outcome = p.outcome
         /\ p.phase \notin Finished /\ m.type = "turn.complete" => Server(p, m).answered = p.answered + 1
         /\ p.phase \notin Finished /\ m.type = "session.end" => Server(p, m).outcome = m.code
<1>1. CASE p.phase \in Finished
  BY <1>1 DEF Server
<1>2. CASE p.phase \notin Finished
  <2>1. Server(p, m) = OnMessage(p, m)
    BY <1>2 DEF Server
  <2>2. /\ AfterError(p, m.code).answered = p.answered
        /\ AfterError(p, m.code).outcome = p.outcome
    BY DEF AfterError, Shown
  <2>3. CASE m.type = "turn.complete"
    BY <2>1, <2>3, <1>2 DEF OnMessage, Shown
  <2>4. CASE m.type = "session.end"
    BY <2>1, <2>4, <1>2 DEF OnMessage, Shown
  <2>5. CASE m.type = "error"
    BY <2>1, <2>2, <2>5, <1>2 DEF OnMessage
  <2>6. CASE m.type \notin {"turn.complete", "session.end", "error"}
    BY <2>1, <2>6, <1>2 DEF OnMessage, Shown
  <2> QED
    BY <2>3, <2>4, <2>5, <2>6
<1> QED
  BY <1>1, <1>2

SameCount(p) ==
  /\ p.answered = page.answered
  /\ p.outcome = "completed" => page.outcome = "completed"
  /\ page.phase \in Finished => p.phase \in Finished

LEMMA MoveCounts ==
  ASSUME page \in Shown(0..Length)
  PROVE  /\ SameCount(page) /\ SameCount(Closed(page)) /\ Closed(page).phase \in Finished
         /\ SameCount(Heard(page)) /\ SameCount(RecordStarted(page))
         /\ SameCount(AnswerSent(page)) /\ SameCount(EndRequested(page))
<1>1. SameCount(Closed(page)) /\ Closed(page).phase \in Finished
  BY DEF SameCount, Closed, OnClosed, Shown, Finished
<1>2. \A from, to : page.phase \in Finished /\ from \cap Finished = {} => Move(page, from, to) = page
  BY DEF Move
<1>3. \A from, to : /\ Move(page, from, to).answered = page.answered
                    /\ Move(page, from, to).outcome = page.outcome
  BY DEF Move, Shown
<1> QED
  BY <1>1, <1>2, <1>3 DEF SameCount, Heard, RecordStarted, AnswerSent, EndRequested, Finished

\* A step of the page that takes nothing off the channel, unless it hangs up.
LEMMA MoveCounted ==
  ASSUME IInv, Counted, Opening, PageFrame, SameCount(page'),
         \/ UNCHANGED toPage
         \/ toPage' = <<>> /\ hook'.sock # "open",
         hook'.sock = "open" => hook.sock = "open" \/ server.pc = "admit",
         hook'.sock = "opening" => hook.sock = "opening" /\ toServer' = toServer
  PROVE  Counted' /\ Opening'
<1>1. Opening'
  BY DEF Opening, PageFrame
<1>2. server'.q = server.q /\ server.q \in Nat /\ (server.pc = "admit" => server.q = 1)
  BY DEF PageFrame, IInv, TypeOK, Runner, PcOK
<1>3. page.answered \in Nat /\ page'.answered = page.answered
  BY DEF IInv, TypeOK, Shown, SameCount
<1>4. CASE UNCHANGED toPage
  <2>1. Completes' = Completes
    BY <1>4 DEF Completes
  <2>2. hook'.sock = "open" /\ page'.phase \notin Finished =>
          \A k \in Questions : page'.answered < k /\ k < server'.q => \E i \in Completes : toPage[i].seq = k
    BY <1>2, <1>3 DEF Counted, SameCount, Questions
  <2> QED
    BY <1>1, <1>2, <1>3, <1>4, <2>1, <2>2 DEF Counted, SameCount, PageFrame
<1>5. CASE toPage' = <<>> /\ hook'.sock # "open"
  <2>1. Completes' = {} /\ DOMAIN toPage' = {}
    BY <1>5 DEF Completes
  <2> QED
    BY <1>1, <1>2, <1>3, <1>5, <2>1 DEF Counted, SameCount, PageFrame
<1> QED
  BY <1>4, <1>5

\* The page takes a message: the next turn.complete is of the next question.
LEMMA TakeCounted ==
  ASSUME IInv, Counted, Opening, PageFrame, hook.sock = "open", toPage # <<>>, toPage' = Tail(toPage),
         NEW m, m = Head(toPage), hook'.sock \in {"open", "closed"},
         \/ m.type = "close" /\ page' = Closed(page)
         \/ m.type # "close" /\ page' = Server(page, m)
  PROVE  Counted' /\ Opening'
<1>1. SUFFICES Counted'
  BY DEF Opening
<1>2. /\ server'.q = server.q /\ server.q \in Nat /\ outcome' = outcome
      /\ page \in Shown(0..Length) /\ page.answered \in Nat
  BY DEF PageFrame, IInv, TypeOK, Runner, Shown
<1>3. PICK n \in Nat \ {0} :
        /\ DOMAIN toPage = 1..n /\ DOMAIN toPage' = 1..(n - 1)
        /\ m = toPage[1] /\ m \in ToPage
        /\ \A i \in 1..(n - 1) : toPage'[i] = toPage[i + 1]
  BY TailFacts DEF IInv, TypeOK
<1>4. \A i \in Completes' : i + 1 \in Completes /\ toPage'[i] = toPage[i + 1] /\ i \in Nat
  BY <1>3 DEF Completes
<1>5. \A j \in Completes : j = 1 \/ (j - 1 \in Completes' /\ toPage'[j - 1] = toPage[j])
  BY <1>3 DEF Completes
<1>6. \A i \in ToPage : i.seq \in 0..Length
  BY DEF ToPage
<1>7. \A i \in Completes : toPage[i].seq \in Nat /\ i \in Nat
  BY <1>3, <1>6, LiveAssumption DEF Completes, IInv, TypeOK
<1>8. \A i, j \in Completes' : i < j => toPage'[i].seq < toPage'[j].seq
  <2> SUFFICES ASSUME NEW i \in Completes', NEW j \in Completes', i < j
               PROVE  toPage'[i].seq < toPage'[j].seq
    OBVIOUS
  <2>1. i + 1 \in Completes /\ j + 1 \in Completes /\ i + 1 < j + 1
    BY <1>4
  <2>2. toPage[i + 1].seq < toPage[j + 1].seq
    BY <2>1 DEF Counted
  <2> QED
    BY <2>2, <1>4
<1>9. \A i \in DOMAIN toPage' : toPage'[i].type = "session.end" => \A j \in Completes' : j < i
  <2> SUFFICES ASSUME NEW i \in DOMAIN toPage', toPage'[i].type = "session.end", NEW j \in Completes'
               PROVE  j < i
    OBVIOUS
  <2>1. i \in Nat /\ i + 1 \in DOMAIN toPage /\ toPage[i + 1].type = "session.end"
    BY <1>3
  <2>2. j + 1 < i + 1
    BY <2>1, <1>4 DEF Counted
  <2> QED
    BY <2>1, <2>2, <1>4
<1>10. ASSUME page'.answered = page.answered, page'.outcome = "completed" => page.outcome = "completed",
              page'.phase \notin Finished => page.phase \notin Finished /\ m.type # "turn.complete"
       PROVE  Counted'
  <2>1. \A i \in Completes' : page'.answered < toPage'[i].seq /\ toPage'[i].seq < server'.q
    BY <1>2, <1>4, <1>10 DEF Counted
  <2>2. ASSUME page'.phase \notin Finished, NEW k \in Questions, page'.answered < k, k < server'.q
        PROVE  \E i \in Completes' : toPage'[i].seq = k
    <3>1. PICK j \in Completes : toPage[j].seq = k
      BY <1>2, <1>10, <2>2 DEF Counted
    <3>2. j # 1
      BY <1>3, <1>10, <2>2 DEF Completes
    <3> QED
      BY <1>5, <3>1, <3>2
  <2> QED
    BY <1>2, <1>8, <1>9, <1>10, <2>1, <2>2 DEF Counted
<1>11. CASE m.type = "close" \/ page.phase \in Finished
  BY <1>2, <1>3, <1>10, <1>11, MoveCounts, ServerCounts DEF SameCount
<1>12. CASE m.type \notin {"close", "turn.complete", "session.end"} /\ page.phase \notin Finished
  BY <1>2, <1>3, <1>10, <1>12, ServerCounts
<1>13. CASE m.type = "session.end" /\ page.phase \notin Finished
  <2>1. /\ page'.answered = page.answered /\ page'.outcome = m.code
    BY <1>2, <1>3, <1>13, ServerCounts
  <2>2. \A j \in Completes : j # 1 /\ j < 1 /\ j \in 1..n
    BY <1>3, <1>13 DEF Counted, Completes
  <2>3. Completes = {}
    BY <2>2, <1>3
  <2>4. \A k \in Questions : ~(page.answered < k /\ k < server.q)
    BY <2>3, <1>13 DEF Counted
  <2>5. m.code = server.exit /\ server.pc = "over"
    BY <1>3, <1>13 DEF IInv, EndsAreTrue
  <2>6. CASE m.code = "completed"
    <3>1. server.q = Length + 1 /\ outcome = "completed"
      BY <2>5, <2>6 DEF IInv, ExitOK, PcOK, Reported
    <3>2. Length \in Questions /\ Length \in Nat /\ Length < server.q
      BY <3>1, LiveAssumption DEF Questions
    <3>3. page.answered = Length
      BY <2>4, <3>1, <3>2, <1>2 DEF Counted
    <3>4. Completes' = {}
      BY <2>3, <1>4
    <3>5. page'.phase \notin Finished => \A k \in Questions : ~(page'.answered < k /\ k < server'.q)
      BY <2>1, <2>4, <1>2
    <3> QED
      BY <1>2, <1>8, <1>9, <2>1, <3>1, <3>3, <3>4, <3>5 DEF Counted
  <2>7. CASE m.code # "completed"
    BY <1>10, <2>1, <2>7, <1>13
  <2> QED
    BY <2>6, <2>7
<1>14. CASE m.type = "turn.complete" /\ page.phase \notin Finished
  <2>1. page'.answered = page.answered + 1 /\ page'.outcome = page.outcome
    BY <1>2, <1>3, <1>14, ServerCounts
  <2>2. 1 \in Completes /\ page.answered < m.seq /\ m.seq < server.q /\ m.seq \in Questions
    <3>1. 1 \in Completes /\ m = toPage[1]
      BY <1>3, <1>14 DEF Completes
    <3>2. page.answered < m.seq /\ m.seq < server.q /\ m.seq \in Nat
      BY <3>1, <1>7 DEF Counted
    <3>3. m.seq \in 0..Length
      BY <1>3, <1>6
    <3> QED
      BY <3>1, <3>2, <3>3, <1>2, LiveAssumption DEF Questions
  <2>3. \A i \in Completes' : m.seq < toPage'[i].seq /\ toPage'[i].seq < server.q
    <3> SUFFICES ASSUME NEW i \in Completes' PROVE m.seq < toPage'[i].seq /\ toPage'[i].seq < server.q
      OBVIOUS
    <3>1. i + 1 \in Completes /\ toPage'[i] = toPage[i + 1] /\ i \in 1..(n - 1)
      BY <1>3, <1>4 DEF Completes
    <3>2. 1 < i + 1
      BY <3>1, <1>3
    <3>3. 1 \in Completes /\ m = toPage[1]
      BY <2>2, <1>3
    <3>4. toPage[1].seq < toPage[i + 1].seq /\ toPage[i + 1].seq < server.q
      BY <3>1, <3>2, <3>3 DEF Counted
    <3> QED
      BY <3>1, <3>3, <3>4
  <2>4. m.seq = page.answered + 1
    <3> SUFFICES ASSUME page.answered + 1 # m.seq PROVE FALSE
      OBVIOUS
    <3>1. /\ page.answered + 1 \in Questions /\ page.answered + 1 < m.seq /\ page.answered + 1 < server.q
          /\ page.answered < page.answered + 1
      <4>1. page.answered \in Nat /\ server.q \in Nat /\ Length \in Nat /\ m.seq \in 1..Length
        BY <1>2, <2>2, LiveAssumption DEF Questions
      <4>2. page.answered + 1 < m.seq
        BY <4>1, <2>2
      <4> QED
        BY <4>1, <4>2, <2>2 DEF Questions
    <3>2. PICK j \in Completes : toPage[j].seq = page.answered + 1
      BY <3>1, <1>14 DEF Counted
    <3>3. j \in 1..n /\ toPage[j].seq < m.seq /\ m = toPage[1]
      BY <1>3, <3>1, <3>2 DEF Completes
    <3>4. j # 1 => toPage[1].seq < toPage[j].seq
      BY <2>2, <3>2, <3>3 DEF Counted
    <3>5. toPage[j].seq \in Nat /\ m.seq \in Nat
      BY <1>7, <2>2, <3>2, <1>3
    <3> QED
      BY <3>3, <3>4, <3>5
  <2>5. ASSUME NEW k \in Questions, page'.answered < k, k < server'.q
        PROVE  \E i \in Completes' : toPage'[i].seq = k
    <3>1. page.answered < k /\ k # m.seq
      BY <1>2, <2>1, <2>4, <2>5 DEF Questions
    <3>2. PICK j \in Completes : toPage[j].seq = k
      BY <1>2, <1>14, <2>5, <3>1 DEF Counted
    <3> QED
      BY <1>3, <1>5, <3>1, <3>2
  <2>6. page'.answered < server'.q /\ \A i \in Completes' : page'.answered < toPage'[i].seq /\ toPage'[i].seq < server'.q
    BY <1>2, <2>1, <2>2, <2>3, <2>4
  <2>7. page.outcome # "completed"
    <3>1. page.outcome = "completed" => page.answered = Length /\ m.seq <= Length
      BY <2>2, LiveAssumption DEF Counted, Questions
    <3> QED
      BY <3>1, <2>2, <1>2, LiveAssumption DEF Questions
  <2> QED
    BY <1>8, <1>9, <2>1, <2>5, <2>6, <2>7 DEF Counted
<1> QED
  BY <1>11, <1>12, <1>13, <1>14

LEMMA PageStepCounted ==
  ASSUME IInv, Counted, Opening, PageAct
  PROVE  Counted' /\ Opening'
<1>a. PageFrame /\ page \in Shown(0..Length)
  BY PageStepInv DEF IInv, TypeOK
<1>b. hook \in Hook
  BY DEF IInv, TypeOK
<1>1. CASE UnblockAudio \/ Render
  BY <1>1, <1>a, <1>b, MoveCounts, MoveCounted DEF UnblockAudio, Render, Hook
<1>2. CASE SkipAudio \/ SendText \/ StopRecording \/ StartRecording \/ End
  <2>1. UNCHANGED toPage /\ SameCount(page')
    BY <1>2, <1>a, MoveCounts DEF SkipAudio, SendText, StopRecording, StartRecording, End, Clicked
  <2>2. hook'.sock = hook.sock
    BY <1>2, <1>b DEF SkipAudio, SendText, StopRecording, StartRecording, End, Clicked, Stopped, Hook
  <2>3. hook.sock = "opening" => toServer' = toServer
    BY <1>2 DEF SkipAudio, SendText, StopRecording, StartRecording, End, EndOfTake, Send
  <2> QED
    BY <2>1, <2>2, <2>3, <1>a, MoveCounted
<1>3. CASE EndTimeout \/ LeavePage
  <2>1. SameCount(page')
    BY <1>3, <1>a, MoveCounts DEF EndTimeout, LeavePage
  <2>2. toPage' = <<>> /\ hook'.sock \in {"closed", "left"}
    BY <1>3, <1>b DEF EndTimeout, LeavePage, Hangs, Hook
  <2> QED
    BY <2>1, <2>2, <1>a, MoveCounted
<1>4. CASE SocketOpens
  <2>1. UNCHANGED <<page, toPage>> /\ hook'.sock = "open" /\ hook.sock = "opening"
    BY <1>4, <1>b DEF SocketOpens, Hook
  <2> QED
    BY <2>1, <1>a, MoveCounts, MoveCounted DEF Opening
<1>5. CASE ReceiveMessage
  <2>1. PICK m : m = Head(toPage)
    OBVIOUS
  <2>2. PICK h : h = AfterMessage(m)
    OBVIOUS
  <2>3. h.sock = IF m.type = "close" THEN "closed" ELSE hook.sock
    BY <2>2, <1>b DEF AfterMessage, Hook
  <2>4. hook'.sock = h.sock
    BY <1>5, <2>1, <2>2, <1>b DEF ReceiveMessage, Happened, AfterMessage, Hook
  <2>5. page' = IF m.type = "close" THEN Closed(page) ELSE Server(page, m)
    BY <1>5, <2>1 DEF ReceiveMessage, Happened
  <2>6. hook.sock = "open" /\ toPage # <<>> /\ toPage' = Tail(toPage)
    BY <1>5 DEF ReceiveMessage
  <2> QED
    BY <2>1, <2>3, <2>4, <2>5, <2>6, <1>a, TakeCounted
<1>6. CASE AutoplayBlocked
  <2>1. PICK m : m = Head(toPage)
    OBVIOUS
  <2>2. /\ m.type = "question.audio_end" /\ page' = Server(page, m) /\ hook'.sock = "open"
        /\ hook.sock = "open" /\ toPage # <<>> /\ toPage' = Tail(toPage)
    BY <1>6, <2>1, <1>b DEF AutoplayBlocked, Hook
  <2> QED
    BY <2>1, <2>2, <1>a, TakeCounted
<1>7. ASSUME NEW k \in Questions, QuestionHeard(k)
      PROVE  Counted' /\ Opening'
  <2>1. UNCHANGED <<toPage, toServer>> /\ SameCount(page') /\ hook'.sock = hook.sock
    BY <1>7, <1>a, <1>b, MoveCounts DEF QuestionHeard, Happened, Hook
  <2> QED
    BY <2>1, <1>a, MoveCounted
<1>8. CASE Speak
  <2>1. UNCHANGED <<page, toPage>> /\ hook'.sock = hook.sock /\ hook.sock = "open"
    BY <1>8, <1>b DEF Speak, Hook
  <2> QED
    BY <2>1, <1>a, MoveCounts, MoveCounted
<1>9. CASE TimerStopsRecording
  <2>1. UNCHANGED toPage /\ SameCount(page') /\ hook'.sock = hook.sock
    BY <1>9, <1>a, <1>b, MoveCounts DEF TimerStopsRecording, Happened, Stopped, Hook
  <2>2. hook.sock = "opening" => toServer' = toServer
    BY <1>9 DEF TimerStopsRecording, EndOfTake, Send
  <2> QED
    BY <2>1, <2>2, <1>a, MoveCounted
<1>10. CASE ConnectionLost
  <2>1. SameCount(page') /\ toPage' = <<>> /\ hook'.sock = "closed"
    BY <1>10, <1>a, <1>b, MoveCounts DEF ConnectionLost, Hook
  <2> QED
    BY <2>1, <1>a, MoveCounted
<1> QED
  BY <1>1, <1>2, <1>3, <1>4, <1>5, <1>6, <1>7, <1>8, <1>9, <1>10
  DEF PageAct, Clicks, Answers, PageStep

\* A step of the runner that completes no turn.
LEMMA SayCounted ==
  ASSUME IInv, IInv', Counted, Opening, UNCHANGED <<page, hook>>, server'.q = server.q,
         outcome = "completed" => outcome' = "completed",
         hook.sock = "opening" => server'.pc = "admit" /\ UNCHANGED toServer,
         NEW n \in Nat, NEW n2 \in Nat, n <= n2, DOMAIN toPage = 1..n, DOMAIN toPage' = 1..n2,
         \A i \in 1..n : toPage'[i] = toPage[i],
         \A i \in (n + 1)..n2 : toPage'[i].type # "turn.complete"
  PROVE  Counted' /\ Opening'
<1>1. Completes' = Completes /\ \A i \in Completes : toPage'[i] = toPage[i] /\ i \in 1..n
  BY DEF Completes
<1>2. \A i \in DOMAIN toPage' : toPage'[i].type = "session.end" => \A j \in Completes : j < i
  BY <1>1 DEF Counted
<1> QED
  BY <1>1, <1>2 DEF Counted, Opening

LEMMA RunnerStepCounted ==
  ASSUME IInv, IInv', Counted, Opening, RunnerAct
  PROVE  Counted' /\ Opening'
<1>a. toPage \in Seq(ToPage) /\ server \in Runner
  BY DEF IInv, TypeOK
<1>b. PICK n \in Nat : n = Len(toPage) /\ DOMAIN toPage = 1..n
  BY <1>a
<1>c. UNCHANGED <<page, hook>> /\ (outcome = "completed" => outcome' = "completed")
  <2>1. outcome = "completed" => server.pc = "over"
    BY DEF IInv, PcOK
  <2> QED
    BY <2>1 DEF RunnerAct, RunnerStep, Admit, AdmitTimesOut, LoadPlan, Ask, PlanDone, ShowQuestion, SpeakQuestion,
     Hear, Listen, HearAudio, HearAudioEnd, HearText, HearEnd, HearDisconnect, HearNothing, Transcribe,
     StoreAnswer, CompleteTurn, TimeLimit, StoreFails, ProviderFails, SendRaises, Close
<1>d. hook.sock = "opening" => FALSE
  <2>1. hook.sock = "opening" => server.pc = "admit" /\ toServer = <<>>
    BY DEF Opening
  <2> QED
    BY <2>1 DEF RunnerAct, RunnerStep, Admit, AdmitTimesOut, LoadPlan, Ask, PlanDone, ShowQuestion, SpeakQuestion,
     Hear, Listen, HearAudio, HearAudioEnd, HearText, HearEnd, HearDisconnect, HearNothing, Transcribe,
     StoreAnswer, CompleteTurn, TimeLimit, StoreFails, ProviderFails, SendRaises, Close, InInterview
<1>1. ASSUME UNCHANGED toPage, server'.q = server.q
      PROVE  Counted' /\ Opening'
  <2>1. /\ n <= n /\ DOMAIN toPage' = 1..n /\ \A i \in 1..n : toPage'[i] = toPage[i]
        /\ \A i \in (n + 1)..n : toPage'[i].type # "turn.complete"
    BY <1>1, <1>b
  <2> QED
    BY <2>1, <1>1, <1>b, <1>c, <1>d, SayCounted
<1>2. ASSUME NEW m \in ToPage, m.type # "turn.complete", Says(m), server'.q = server.q
      PROVE  Counted' /\ Opening'
  <2>1. CASE toPage' = Append(toPage, m)
    <3>1. /\ DOMAIN toPage' = 1..(n + 1) /\ toPage'[n + 1] = m
          /\ \A i \in 1..n : toPage'[i] = toPage[i]
      BY <2>1, <1>a, <1>b, AppendFacts
    <3> QED
      BY <3>1, <1>2, <1>b, <1>c, <1>d, SayCounted
  <2> QED
    BY <2>1, <1>1, <1>2 DEF Says
<1>3. server.q \in Questions => server.q \in 0..Length
  BY LiveAssumption DEF Questions
<1>4. CASE CompleteTurn
  <2>1. /\ server.q \in Questions /\ server.q \in Nat /\ server'.q = server.q + 1
        /\ Says(Message("turn.complete", server.q, ""))
        /\ UNCHANGED <<page, hook, outcome, toServer>>
    <3>1. server.q \in Questions
      BY <1>4 DEF CompleteTurn, IInv, PcOK, Busy
    <3>2. server.q \in Nat
      BY <3>1, LiveAssumption DEF Questions
    <3>3. server'.q = server.q + 1
      BY <1>4, <1>a DEF CompleteTurn, Runner
    <3> QED
      BY <1>4, <3>1, <3>2, <3>3 DEF CompleteTurn
  <2>2. PICK m \in ToPage : Says(m) /\ m.type = "turn.complete" /\ m.seq = server.q
    BY <2>1, <1>3, MessageTypes
  <2>3. server.exit = "none" /\ \A i \in DOMAIN toPage : toPage[i].type # "session.end"
    BY <1>4 DEF CompleteTurn, IInv, PcOK, EndsAreTrue
  <2>4. page.answered \in Nat
    BY DEF IInv, TypeOK, Shown
  <2>5. \A i \in Completes : toPage[i].seq \in Nat
    <3>1. \A w \in ToPage : w.seq \in 0..Length
      BY DEF ToPage
    <3>2. \A i \in Completes : i \in 1..n /\ toPage[i] \in ToPage
      BY <1>a, <1>b DEF Completes
    <3> QED
      BY <3>1, <3>2, LiveAssumption
  <2>a. \A a, b \in Nat : a < b => a < b + 1
    OBVIOUS
  <2>b. page'.answered = page.answered /\ server.q \in Nat
    BY <2>1
  <2>c. page.answered < server.q /\ \A i \in Completes : page.answered < toPage[i].seq /\ toPage[i].seq < server.q
    BY DEF Counted
  <2>d. page.answered < server.q + 1 /\ \A i \in Completes : toPage[i].seq < server.q + 1
    BY <2>a, <2>b, <2>c, <2>4, <2>5
  <2>6. CASE hook.sock = "open"
    <3>1. /\ DOMAIN toPage' = 1..(n + 1) /\ toPage'[n + 1] = m
          /\ \A i \in 1..n : toPage'[i] = toPage[i]
      BY <2>2, <2>6, <1>a, <1>b, AppendFacts DEF Says
    <3>2. /\ Completes' = Completes \cup {n + 1}
          /\ \A i \in Completes : i \in 1..n /\ toPage'[i] = toPage[i]
      BY <3>1, <2>2, <1>b DEF Completes
    <3>3. \A i \in DOMAIN toPage' : toPage'[i].type # "session.end"
      BY <3>1, <2>2, <2>3, <1>b
    <3>4. \A i \in Completes' : page'.answered < toPage'[i].seq /\ toPage'[i].seq < server'.q
      <4> SUFFICES ASSUME NEW i \in Completes'
                   PROVE  page.answered < toPage'[i].seq /\ toPage'[i].seq < server.q + 1
        BY <2>1
      <4>1. CASE i \in Completes
        BY <4>1, <3>2, <2>c, <2>d
      <4>2. CASE i = n + 1
        <5>1. toPage'[i].seq = server.q
          BY <4>2, <3>1, <2>2
        <5>2. server.q < server.q + 1
          BY <2>b
        <5> QED
          BY <5>1, <5>2, <2>c
      <4> QED
        BY <4>1, <4>2, <3>2
    <3>5. \A i, j \in Completes' : i < j => toPage'[i].seq < toPage'[j].seq
      <4> SUFFICES ASSUME NEW i \in Completes', NEW j \in Completes', i < j
                   PROVE  toPage'[i].seq < toPage'[j].seq
        OBVIOUS
      <4>1. i \in Completes
        BY <3>2, <1>b
      <4>2. CASE j \in Completes
        BY <4>1, <4>2, <3>2 DEF Counted
      <4>3. CASE j = n + 1
        BY <4>1, <4>3, <3>1, <3>2, <2>2 DEF Counted
      <4> QED
        BY <4>2, <4>3, <3>2
    <3>6. ASSUME page.phase \notin Finished, NEW k \in Questions, page.answered < k, k < server.q + 1
          PROVE  \E i \in Completes' : toPage'[i].seq = k
      <4>1. CASE k = server.q
        BY <3>1, <3>2, <2>2, <4>1
      <4>2. CASE k # server.q
        <5>1. k < server.q
          <6>1. k \in Nat /\ k < server.q + 1
            BY <3>6, LiveAssumption DEF Questions
          <6>2. server.q \in Nat
            BY <2>1
          <6> QED
            BY <6>1, <6>2, <4>2
        <5>2. PICK i \in Completes : toPage[i].seq = k
          BY <5>1, <3>6, <2>6 DEF Counted
        <5> QED
          BY <5>2, <3>2
      <4> QED
        BY <4>1, <4>2
    <3>7. page'.answered < server'.q
      BY <2>1, <2>d
    <3>8. Counted'
      BY <3>3, <3>4, <3>5, <3>6, <3>7, <2>1 DEF Counted
    <3> QED
      BY <3>8, <2>1, <1>d DEF Opening
  <2>7. CASE hook.sock # "open"
    <3>1. Completes' = Completes /\ UNCHANGED toPage
      BY <2>2, <2>7 DEF Says, Completes
    <3>2. /\ page'.answered < server'.q
          /\ \A i \in Completes' : page'.answered < toPage'[i].seq /\ toPage'[i].seq < server'.q
      BY <3>1, <2>1, <2>c, <2>d
    <3> QED
      BY <3>1, <3>2, <2>1, <2>7, <1>d DEF Counted, Opening
  <2> QED
    BY <2>6, <2>7
<1>5. CASE LoadPlan \/ ShowQuestion \/ SpeakQuestion
  <2>1. server'.q = server.q
    BY <1>5, <1>a DEF LoadPlan, ShowQuestion, SpeakQuestion, To, Runner
  <2>2. server.pc \in Busy => server.q \in 0..Length
    BY <1>3 DEF IInv, PcOK
  <2>3. PICK m \in ToPage : Says(m) /\ m.type # "turn.complete"
    BY <1>5, <2>2, MessageTypes DEF LoadPlan, ShowQuestion, SpeakQuestion, AudioEnd, Busy
  <2> QED
    BY <2>1, <2>3, <1>2
<1>6. CASE Hear \/ HearNothing
  <2>1. server'.q = server.q
    BY <1>6, <1>a DEF Hear, HearAudio, HearAudioEnd, HearText, HearEnd, HearDisconnect, HearNothing, Dropped, Exit, Runner
  <2>2. UNCHANGED toPage \/ Says(Error("answer_too_long")) \/ Says(Error("no_speech"))
    BY <1>6 DEF Hear, HearAudio, HearAudioEnd, HearText, HearEnd, HearDisconnect, HearNothing
  <2> QED
    BY <2>1, <2>2, <1>1, <1>2, MessageTypes
<1>7. CASE StoreFails
  <2>1. server'.q = server.q
    BY <1>7, <1>a DEF StoreFails, Exit, Runner
  <2>2. server.pc \in Busy => server.q \in 0..Length
    BY <1>3 DEF IInv, PcOK
  <2>3. UNCHANGED toPage \/ \E m \in ToPage : Says(m) /\ m.type # "turn.complete"
    BY <1>7, <2>2, MessageTypes DEF StoreFails, AudioEnd, Busy
  <2> QED
    BY <2>1, <2>3, <1>1, <1>2
<1>8. CASE Close
  <2>1. /\ server'.q = server.q /\ UNCHANGED toServer
        /\ toPage' = IF hook.sock = "open" THEN toPage \o LastWords \o <<Message("close", 0, "")>> ELSE toPage
    BY <1>8, <1>a DEF Close, To, Runner
  <2>2. CASE hook.sock # "open"
    BY <2>1, <2>2, <1>1
  <2>3. CASE hook.sock = "open"
    <3>1. PICK l : l = LastWords /\ l \in Seq(ToPage) /\ \A i \in DOMAIN l : l[i].type # "turn.complete"
      BY LastWordsFacts
    <3>2. PICK m \in ToPage : m = Message("close", 0, "") /\ m.type = "close"
      BY MessageTypes
    <3>3. PICK s : s = toPage \o l
      OBVIOUS
    <3>4. /\ s \in Seq(ToPage) /\ Len(s) \in Nat /\ n <= Len(s) /\ DOMAIN s = 1..Len(s)
          /\ \A i \in 1..n : s[i] = toPage[i]
          /\ \A i \in (n + 1)..Len(s) : s[i].type # "turn.complete"
      BY <3>1, <3>3, <1>a, <1>b
    <3>5. PICK t : t = Append(s, m)
      OBVIOUS
    <3>a. s \in Seq(ToPage) /\ m \in ToPage
      BY <3>2, <3>4
    <3>b. s \o <<m>> = t
      BY <3>a, <3>5
    <3>6. toPage' = t
      BY <2>1, <2>3, <3>1, <3>2, <3>3, <3>b
    <3>7. /\ DOMAIN t = 1..(Len(s) + 1) /\ t[Len(s) + 1] = m
          /\ \A i \in 1..Len(s) : t[i] = s[i]
      <4>1. s \in Seq(ToPage) /\ m \in ToPage
        BY <3>2, <3>4
      <4> QED
        BY <4>1, <3>5, AppendFacts
    <3>8. PICK n2 \in Nat : n2 = Len(s) + 1
      BY <3>4
    <3>9. /\ n <= n2 /\ DOMAIN toPage' = 1..n2
          /\ \A i \in 1..n : toPage'[i] = toPage[i]
          /\ \A i \in (n + 1)..n2 : toPage'[i].type # "turn.complete"
      <4>1. \A i \in 1..n : i \in 1..Len(s)
        BY <3>4, <1>b
      <4>2. \A i \in (n + 1)..n2 : i = Len(s) + 1 \/ i \in (n + 1)..Len(s)
        BY <3>4, <3>8, <1>b
      <4>3. \A i \in (n + 1)..Len(s) : i \in 1..Len(s)
        BY <3>4, <1>b
      <4>4. n <= n2 /\ DOMAIN t = 1..n2
        BY <3>4, <3>7, <3>8, <1>b
      <4> QED
        BY <3>2, <3>4, <3>6, <3>7, <4>1, <4>2, <4>3, <4>4
    <3> QED
      BY <2>1, <3>8, <3>9, <1>b, <1>c, <1>d, SayCounted
  <2> QED
    BY <2>2, <2>3
<1>9. CASE Admit \/ AdmitTimesOut \/ Ask \/ PlanDone \/ Transcribe \/ StoreAnswer \/ TimeLimit
           \/ ProviderFails \/ SendRaises
  <2>1. server'.q = server.q /\ UNCHANGED toPage
    BY <1>9, <1>a DEF Admit, AdmitTimesOut, Ask, PlanDone, Transcribe, StoreAnswer, TimeLimit,
       ProviderFails, SendRaises, Update, To, Exit, Runner
  <2> QED
    BY <2>1, <1>1
<1> QED
  BY <1>4, <1>5, <1>6, <1>7, <1>8, <1>9 DEF RunnerAct, RunnerStep

\* Every step keeps the count.
THEOREM CountInvariance == Spec => [](Counted /\ Opening)
<1>1. Init => Counted /\ Opening
  BY LiveAssumption DEF Init, InitialLiveState, Counted, Completes, Opening, Questions, Finished
<1>2. IInv /\ IInv' /\ Counted /\ Opening /\ [Next]_vars => (Counted /\ Opening)'
  <2> SUFFICES ASSUME IInv, IInv', Counted, Opening, [Next]_vars PROVE (Counted /\ Opening)'
    OBVIOUS
  <2>1. CASE PageAct
    BY <2>1, PageStepCounted
  <2>2. CASE RunnerAct
    BY <2>2, RunnerStepCounted
  <2>3. CASE UNCHANGED vars
    BY <2>3 DEF vars, Counted, Completes, Opening
  <2> QED
    BY <2>1, <2>2, <2>3 DEF Next, Breaks, PageAct, RunnerAct
<1> QED
  BY <1>1, <1>2, Invariance, PTL DEF Spec

\* The page counts no answer that is not stored, and says completed only of
\* an interview answered to the end.
THEOREM TruthTold == Spec => []PageTellsTheTruth
<1>1. IInv /\ Counted => PageTellsTheTruth
  <2> SUFFICES ASSUME IInv, Counted PROVE PageTellsTheTruth
    OBVIOUS
  <2>1. page.answered \in Nat /\ server.q \in Nat /\ page.answered <= server.q - 1
        /\ server.q - 1 \in 0..Length
    BY LiveAssumption DEF IInv, TypeOK, Shown, Runner, PcOK, Counted
  <2>2. PICK S : S = {k \in Questions : turns[k].status = "answered"}
    OBVIOUS
  <2>3. IsFiniteSet(Questions)
    BY FS_Interval, LiveAssumption DEF Questions
  <2>4. IsFiniteSet(S) /\ 1..page.answered \subseteq S
    <3>1. \A k \in 1..page.answered : k \in Questions /\ k < server.q
      BY <2>1, LiveAssumption DEF Questions
    <3> QED
      BY <2>2, <2>3, <3>1, FS_Subset DEF IInv, TurnsInOrder
  <2>5. Cardinality(1..page.answered) = page.answered
    <3>1. 1 \in Int /\ page.answered \in Int
      BY <2>1
    <3>2. Cardinality(1..page.answered) = IF 1 > page.answered THEN 0 ELSE page.answered - 1 + 1
      BY <3>1, FS_Interval
    <3> QED
      BY <3>2, <2>1
  <2>6. Cardinality(1..page.answered) <= Cardinality(S)
    BY <2>4, FS_Subset
  <2> QED
    BY <2>2, <2>5, <2>6 DEF PageTellsTheTruth, Counted
<1> QED
  BY <1>1, Invariance, CountInvariance, PTL
=============================================================================
