---------------------------- MODULE LiveReducer ----------------------------
(***************************************************************************)
(* The live page's reducer: what each event makes of the state the page    *)
(* shows.  Of that state, what a property is about: the phase, the         *)
(* question it shows, whether that question's audio has all arrived, how   *)
(* many answers it counts and how it says the interview ended.  Texts,     *)
(* notices and the kind of failure are left out.                           *)
(***************************************************************************)
EXTENDS Naturals

Finished == {"done", "failed"}
Phases == {"connecting", "preparing", "asking", "answering", "recording", "sending", "ending"} \cup Finished

Shown(seqs) ==
  [phase : Phases, seq : seqs, audioComplete : BOOLEAN, answered : Nat,
   outcome : {"none", "completed", "ended_by_client"}]

InitialLiveState ==
  [phase |-> "connecting", seq |-> 0, audioComplete |-> FALSE, answered |-> 0, outcome |-> "none"]

\* Errors that end the interview; after any other the user tries again.
Fatal == {"internal_error", "session_time_limit"}

\* A mistake: only what the user was doing is undone.
AfterErrorWhileRecording(s, code) ==
  [s EXCEPT !.phase = IF code \in Fatal THEN "failed" ELSE IF @ = "recording" THEN "answering" ELSE @]

AfterError(s, code) ==
  [s EXCEPT !.phase = IF code \in Fatal THEN "failed" ELSE IF @ = "ending" THEN @ ELSE "answering"]

OnMessage(s, m) ==
  CASE m.type = "session.ready" ->
         IF s.phase = "connecting" THEN [s EXCEPT !.phase = "preparing"] ELSE s
    [] m.type = "question.text" ->
         IF s.phase = "ending" THEN [s EXCEPT !.seq = m.seq]
         ELSE [s EXCEPT !.phase = "asking", !.seq = m.seq, !.audioComplete = FALSE]
    [] m.type = "question.audio_end" -> [s EXCEPT !.audioComplete = TRUE]
    [] m.type = "turn.complete" ->
         [s EXCEPT !.answered = @ + 1, !.phase = IF @ = "ending" THEN @ ELSE "preparing"]
    [] m.type = "session.end" -> [s EXCEPT !.phase = "done", !.outcome = m.code]
    [] m.type = "error" -> AfterError(s, m.code)
    [] OTHER -> s

OnClosed(s) ==
  IF s.phase = "ending" THEN [s EXCEPT !.phase = "done", !.outcome = "ended_by_client"]
  ELSE [s EXCEPT !.phase = "failed"]

\* What happens on the page itself, each from the phases it expects.
Move(s, from, to) == IF s.phase \in from THEN [s EXCEPT !.phase = to] ELSE s
Heard(s) == Move(s, {"asking"}, "answering")
RecordStarted(s) == Move(s, {"answering"}, "recording")
AnswerSent(s) == Move(s, {"answering", "recording"}, "sending")
EndRequested(s) == Move(s, Phases \ Finished, "ending")

\* A page that is done or has failed takes no more notice.
Server(s, m) == IF s.phase \in Finished THEN s ELSE OnMessage(s, m)
Closed(s) == IF s.phase \in Finished THEN s ELSE OnClosed(s)
=============================================================================
