---------------------------- MODULE Interviews ----------------------------
(***************************************************************************)
(* The life of an interview.  Core API creates it with a one-time session  *)
(* token; a client presents the token to Voice Service, which exchanges it *)
(* at Core, holds the session and reports how it ended; Core's worker      *)
(* applies the report, and a read ends what was never reported.            *)
(*                                                                         *)
(* Time passes in ticks.  Every age stops at the value past which the code *)
(* tells no two ages apart, so no clock needs a bound.                     *)
(***************************************************************************)
EXTENDS SqsQueue, FiniteSets

CONSTANTS
  Interviews,    \* interviews of one user, whose reads end the overdue ones
  Connections,   \* sockets at Voice Service; a closed one stands for the next
  EventSlots,    \* bound on the messages in core-interview-events
  MaxCopies,     \* bound on the copies one publish may leave on the queue
  TokenTtl,      \* session_token_ttl_minutes, in ticks
  SessionLimit,  \* max_session_seconds, in ticks
  StartSlack,    \* ticks from a token's consumption to its session's first question
  Cutoff,        \* active_session_cutoff_seconds, in ticks
  VoiceMayDie    \* whether this instance meets crashes of Voice Service

\* The config comments: the cutoff must exceed a session, and how long it
\* takes to get one going.
ASSUME InterviewsAssumption ==
  /\ TokenTtl \in Nat /\ SessionLimit \in Nat /\ StartSlack \in Nat /\ Cutoff \in Nat
  /\ StartSlack + SessionLimit <= Cutoff
  /\ MaxCopies \in Nat /\ VoiceMayDie \in BOOLEAN
  /\ NoBody \notin Interviews

VARIABLES
  status,     \* Core: the status column of each interview, "none" without a row
  tokenLeft,  \* Core: ticks until each interview's token expires
  activeFor,  \* Core: ticks since each interview's token was consumed
  conn,       \* Voice: what each connection is doing
  events,     \* the core-interview-events queue
  session     \* history: what became of each interview's session

vars == <<status, tokenLeft, activeFor, conn, events, session>>

-----------------------------------------------------------------------------
Statuses == {"none", "created", "active", "completed", "interrupted"}
Outcomes == {"completed", "interrupted"}
Ended == [interview : Interviews, outcome : Outcomes]

\* asking: the consume request is on its way; abandoned: still so, but Voice
\* gave up on it; granted, refused: Core's answer is on its way back.
PcValues ==
  {"closed", "asking", "abandoned", "granted", "refused", "live", "completed", "interrupted"}

Connection ==
  [pc : PcValues, interview : Interviews \cup {NoBody}, elapsed : 0..Cutoff]

Closed == [pc |-> "closed", interview |-> NoBody, elapsed |-> 0]

TypeOK ==
  /\ status \in [Interviews -> Statuses]
  /\ tokenLeft \in [Interviews -> 0..TokenTtl]
  /\ activeFor \in [Interviews -> 0..(Cutoff + 1)]
  /\ conn \in [Connections -> Connection]
  /\ events \in [EventSlots -> Message(Ended)]
  /\ session \in [Interviews -> {"none", "live"} \cup Outcomes]

Init ==
  /\ status = [i \in Interviews |-> "none"]
  /\ tokenLeft = [i \in Interviews |-> 0]
  /\ activeFor = [i \in Interviews |-> 0]
  /\ conn = [c \in Connections |-> Closed]
  /\ events = EmptyQueue(EventSlots)
  /\ session = [i \in Interviews |-> "none"]

-----------------------------------------------------------------------------
(* Core API *)

\* Its repository is ready: Ingestion.  Its plan is asked for: not modelled here.
CreateInterview(i) ==
  /\ status[i] = "none"
  /\ status' = [status EXCEPT ![i] = "created"]
  /\ tokenLeft' = [tokenLeft EXCEPT ![i] = TokenTtl]
  /\ UNCHANGED <<activeFor, conn, events, session>>

\* Mutant of Consumable: the token's first use is not recorded.
UnexpiredToken(i) == tokenLeft[i] > 0

\* consumed_at is set with `active', so the status tells both.
Consumable(i) == tokenLeft[i] > 0 /\ status[i] = "created"

\* One UPDATE checks and burns the token.  An answer nobody waits for is lost.
ConsumeToken(c) ==
  LET i == conn[c].interview IN
  /\ conn[c].pc \in {"asking", "abandoned"}
  /\ IF Consumable(i)
     THEN /\ status' = [status EXCEPT ![i] = "active"]
          /\ activeFor' = [activeFor EXCEPT ![i] = 0]
     ELSE UNCHANGED <<status, activeFor>>
  /\ conn' = [conn EXCEPT ![c] =
       IF @.pc = "abandoned" THEN Closed
       ELSE [pc |-> IF Consumable(i) THEN "granted" ELSE "refused", interview |-> i, elapsed |-> 0]]
  /\ UNCHANGED <<tokenLeft, events, session>>

\* Mutant of Overdue: a cutoff shorter than a session.
OverdueTooSoon(i) == status[i] = "active" /\ activeFor[i] > SessionLimit

Overdue(i) == status[i] = "active" /\ activeFor[i] > Cutoff

\* Mutant of EndOverdueSessions: the UPDATE is not committed.
EndOverdueUncommitted ==
  /\ \E i \in Interviews : Overdue(i)
  /\ UNCHANGED vars

\* Every read of a user's interviews first ends the overdue ones.
EndOverdueSessions ==
  /\ \E i \in Interviews : Overdue(i)
  /\ status' = [i \in Interviews |-> IF Overdue(i) THEN "interrupted" ELSE status[i]]
  /\ UNCHANGED <<tokenLeft, activeFor, conn, events, session>>

\* Mutant of EndInterview: an end event may overwrite an earlier end.
EndAnyInterview(ev) == status' = [status EXCEPT ![ev.interview] = ev.outcome]

\* Only an `active' interview may end; any other event counts as handled.
EndInterview(ev) ==
  status' = [status EXCEPT ![ev.interview] = IF @ = "active" THEN ev.outcome ELSE @]

HandleEnded(e) ==
  /\ events[e].st = "visible"
  /\ EndInterview(events[e].body)
  /\ events' = Delete(events, e)
  /\ UNCHANGED <<tokenLeft, activeFor, conn, session>>

\* The handler raises before its commit, or the worker dies after it.
HandleEndedFails(e) ==
  /\ events[e].st = "visible"
  /\ EndInterview(events[e].body) \/ UNCHANGED status
  /\ events' = Return(Receive(events, e), e)
  /\ UNCHANGED <<tokenLeft, activeFor, conn, session>>

-----------------------------------------------------------------------------
(* Voice Service: InterviewSession.run on each connection *)

\* A client sends session.start, with a token used before or not.
StartSession(c, i) ==
  /\ conn[c].pc = "closed"
  /\ status[i] # "none"
  /\ conn' = [conn EXCEPT ![c] = [pc |-> "asking", interview |-> i, elapsed |-> 0]]
  /\ UNCHANGED <<status, tokenLeft, activeFor, events, session>>

\* The consume call fails at Voice: the request may still reach Core, and an
\* answer that said yes is gone.
ConsumeCallFails(c) ==
  /\ conn[c].pc \in {"asking", "granted"}
  /\ conn' = [conn EXCEPT ![c] = IF @.pc = "asking" THEN [@ EXCEPT !.pc = "abandoned"] ELSE Closed]
  /\ UNCHANGED <<status, tokenLeft, activeFor, events, session>>

\* The socket is closed without a session; a request still out is lost.
CloseUnadmitted(c) ==
  /\ conn[c].pc \in {"refused", "abandoned"}
  /\ conn' = [conn EXCEPT ![c] = Closed]
  /\ UNCHANGED <<status, tokenLeft, activeFor, events, session>>

\* The plan is loaded and the session's time starts to run.
BeginQuestions(c) ==
  /\ conn[c].pc = "granted"
  /\ conn' = [conn EXCEPT ![c] = [pc |-> "live", interview |-> @.interview, elapsed |-> 0]]
  /\ session' = [session EXCEPT ![conn[c].interview] = "live"]
  /\ UNCHANGED <<status, tokenLeft, activeFor, events>>

EndSession(c, outcome) ==
  /\ conn' = [conn EXCEPT ![c].pc = outcome]
  /\ session' = [session EXCEPT ![conn[c].interview] = outcome]
  /\ UNCHANGED <<status, tokenLeft, activeFor, events>>

\* The last question is answered, or the client ends the session.
Complete(c) == conn[c].pc = "live" /\ EndSession(c, "completed")

\* No plan yet, a disconnect, an error, or the time limit.
Interrupt(c) == conn[c].pc \in {"granted", "live"} /\ EndSession(c, "interrupted")

Copies == {S \in SUBSET FreeSlots(events) : Cardinality(S) <= MaxCopies}

\* Best effort: with every attempt lost, no copy is left (decision 036).
PublishEnded(c) ==
  /\ conn[c].pc \in Outcomes
  /\ \E S \in Copies :
       events' = Put(events, S, [interview |-> conn[c].interview, outcome |-> conn[c].pc])
  /\ conn' = [conn EXCEPT ![c] = Closed]
  /\ UNCHANGED <<status, tokenLeft, activeFor, session>>

\* The process dies with every connection; what is on its way to Core arrives
\* or not.
VoiceDies ==
  /\ VoiceMayDie
  /\ \E c \in Connections : conn[c].pc \notin {"closed", "abandoned"}
  /\ conn' = [c \in Connections |->
       IF conn[c].pc \in {"asking", "abandoned"} THEN [conn[c] EXCEPT !.pc = "abandoned"] ELSE Closed]
  /\ session' = [i \in Interviews |-> IF session[i] = "live" THEN "interrupted" ELSE session[i]]
  /\ UNCHANGED <<status, tokenLeft, activeFor, events>>

-----------------------------------------------------------------------------
(* Time *)

\* asyncio.timeout ends a session at its limit, and a session gets going
\* within StartSlack.
OnTime(c) ==
  /\ conn[c].pc = "live" => conn[c].elapsed < SessionLimit
  /\ conn[c].pc = "granted" => conn[c].elapsed < StartSlack

Tick ==
  /\ \A c \in Connections : OnTime(c)
  /\ tokenLeft' = [i \in Interviews |-> IF tokenLeft[i] > 0 THEN tokenLeft[i] - 1 ELSE 0]
  /\ activeFor' = [i \in Interviews |->
       IF status[i] = "active" /\ activeFor[i] <= Cutoff THEN activeFor[i] + 1 ELSE activeFor[i]]
  /\ conn' = [c \in Connections |->
       IF conn[c].pc \in {"granted", "live"} THEN [conn[c] EXCEPT !.elapsed = @ + 1] ELSE conn[c]]
  /\ UNCHANGED <<status, events, session>>

-----------------------------------------------------------------------------
Answer(c) == ConsumeToken(c) \/ CloseUnadmitted(c)

Hold(c) == BeginQuestions(c) \/ Complete(c) \/ Interrupt(c) \/ PublishEnded(c)

Next ==
  \/ \E i \in Interviews : CreateInterview(i)
  \/ \E c \in Connections, i \in Interviews : StartSession(c, i)
  \/ \E c \in Connections : Answer(c) \/ ConsumeCallFails(c) \/ Hold(c)
  \/ VoiceDies
  \/ EndOverdueSessions
  \/ \E e \in EventSlots : HandleEnded(e) \/ HandleEndedFails(e)
  \/ Tick

Spec == Init /\ [][Next]_vars

(***************************************************************************)
(* Time passes, a session's own timeouts fire, and the user comes back to  *)
(* the list of interviews.  Nothing else is owed: no event need arrive.    *)
(***************************************************************************)
Fairness ==
  /\ WF_vars(Tick)
  /\ \A c \in Connections : WF_vars(Hold(c))
  /\ WF_vars(EndOverdueSessions)

FairSpec == Spec /\ Fairness

-----------------------------------------------------------------------------
(* Properties *)

Holding(c, i) == conn[c].interview = i /\ conn[c].pc \in {"granted", "live"}

\* Two connections that present the same token never both get a session.
OneSessionPerToken ==
  \A i \in Interviews, c, d \in Connections : Holding(c, i) /\ Holding(d, i) => c = d

\* While a session is held Core shows the interview as `active': the cutoff
\* never ends one under way, whose answers would be graded half given
\* (decision 059).
SessionIsActive ==
  \A i \in Interviews, c \in Connections : Holding(c, i) => status[i] = "active"

\* An interview is shown `completed' only if its session was, whatever events
\* come late, twice or never, and once ended it stays as it ended.
Promise == INSTANCE InterviewStatus
KeepsPromises == Promise!Spec

\* An interview does not stay `active' once its user comes back, even if
\* Voice Service died or its report was lost (decision 059).
EveryInterviewEnds ==
  \A i \in Interviews : status[i] = "active" ~> status[i] \in Outcomes

\* runner.py, when admission gives no session: `never became active: no end
\* event to send'.  So an `active' interview has a session, had one, or Voice
\* still waits for the answer that gives it one.
ActiveHasSession ==
  \A i \in Interviews :
    status[i] = "active" => session[i] # "none" \/ \E c \in Connections : conn[c].interview = i
=============================================================================
