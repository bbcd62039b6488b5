-------------------------- MODULE InterviewsProofs --------------------------
(***************************************************************************)
(* A token gives one session, a session under way is never ended by the    *)
(* cutoff, and what Core API shows agrees with the session that was held,  *)
(* for any number of interviews, connections and messages, and any times   *)
(* that satisfy InterviewsAssumption.  Core API's rows implement the       *)
(* machine of InterviewStatus.                                             *)
(***************************************************************************)
EXTENDS Interviews, SqsQueueProofs

ConnOK == \A c \in Connections : conn[c].pc # "closed" => conn[c].interview \in Interviews

\* Between the consumption of a token and the first question.
GrantedOK ==
  \A c \in Connections :
    conn[c].pc = "granted" =>
      /\ status[conn[c].interview] = "active"
      /\ session[conn[c].interview] = "none"
      /\ activeFor[conn[c].interview] <= conn[c].elapsed
      /\ conn[c].elapsed <= StartSlack

LiveOK ==
  \A c \in Connections :
    conn[c].pc = "live" =>
      /\ status[conn[c].interview] = "active"
      /\ session[conn[c].interview] = "live"
      /\ activeFor[conn[c].interview] <= StartSlack + conn[c].elapsed
      /\ conn[c].elapsed <= SessionLimit

EndingOK ==
  \A c \in Connections : conn[c].pc \in Outcomes => session[conn[c].interview] = conn[c].pc

LiveHeld ==
  \A i \in Interviews :
    session[i] = "live" => \E c \in Connections : conn[c].pc = "live" /\ conn[c].interview = i

NotBegun == \A i \in Interviews : status[i] \in {"none", "created"} => session[i] = "none"

\* An end event tells what became of the session, which no longer changes.
EventsTrue ==
  \A e \in EventSlots :
    events[e].st # "free" => session[events[e].body.interview] = events[e].body.outcome

QueueOK == WellFormed(events, EventSlots, Ended)

IInv ==
  /\ TypeOK
  /\ QueueOK
  /\ ConnOK
  /\ GrantedOK
  /\ LiveOK
  /\ EndingOK
  /\ LiveHeld
  /\ NotBegun
  /\ EventsTrue
  /\ OneSessionPerToken

-----------------------------------------------------------------------------
LEMMA InitIInv == Init => IInv
<1> SUFFICES ASSUME Init PROVE IInv
  OBVIOUS
<1>1. QueueOK
  BY EmptyQueueWellFormed DEF Init, QueueOK
<1>2. TypeOK
  BY <1>1, InterviewsAssumption
  DEF Init, TypeOK, QueueOK, WellFormed, Statuses, Connection, PcValues, Closed
<1>3. ConnOK /\ GrantedOK /\ LiveOK /\ EndingOK /\ OneSessionPerToken
  BY DEF Init, ConnOK, GrantedOK, LiveOK, EndingOK, OneSessionPerToken, Holding, Closed, Outcomes
<1>4. LiveHeld /\ NotBegun /\ EventsTrue
  BY DEF Init, LiveHeld, NotBegun, EventsTrue, EmptyQueue, Free
<1> QED
  BY <1>1, <1>2, <1>3, <1>4 DEF IInv

\* An interview under way is not overdue.
LEMMA HeldNotOverdue ==
  ASSUME IInv, NEW c \in Connections, conn[c].pc \in {"granted", "live"}
  PROVE  ~Overdue(conn[c].interview)
BY InterviewsAssumption
DEF IInv, TypeOK, Connection, ConnOK, GrantedOK, LiveOK, Overdue

-----------------------------------------------------------------------------
(* Core API's steps *)

\* Creating an interview: no session can be held for it yet.
LEMMA CreateInterviewInv ==
  ASSUME IInv, NEW i \in Interviews, CreateInterview(i)
  PROVE  IInv'
<1> USE DEF IInv
<1>1. UNCHANGED <<activeFor, conn, events, session>> /\ status[i] = "none"
  BY DEF CreateInterview
<1>2. status' \in [Interviews -> Statuses] /\ tokenLeft' \in [Interviews -> 0..TokenTtl]
  BY InterviewsAssumption DEF CreateInterview, TypeOK, Statuses
<1>3. \A j \in Interviews : status'[j] = IF j = i THEN "created" ELSE status[j]
  BY DEF CreateInterview, TypeOK
<1>4. TypeOK' /\ QueueOK' /\ ConnOK' /\ EndingOK' /\ LiveHeld' /\ EventsTrue' /\ OneSessionPerToken'
  BY <1>1, <1>2
  DEF TypeOK, QueueOK, ConnOK, EndingOK, LiveHeld, EventsTrue, OneSessionPerToken, Holding
<1>5. GrantedOK' /\ LiveOK' /\ NotBegun'
  BY <1>1, <1>3 DEF ConnOK, GrantedOK, LiveOK, NotBegun
<1> QED
  BY <1>4, <1>5

\* A token that is consumed had never given a session.
LEMMA ConsumeTokenInv ==
  ASSUME IInv, NEW c \in Connections, ConsumeToken(c)
  PROVE  IInv'
<1> USE DEF IInv
<1>1. PICK i \in Interviews : i = conn[c].interview
  BY DEF ConsumeToken, ConnOK
<1>2. UNCHANGED <<tokenLeft, events, session>> /\ conn[c].pc \in {"asking", "abandoned"}
  BY DEF ConsumeToken
<1>3. PICK new : /\ conn' = [conn EXCEPT ![c] = new]
                 /\ \/ new = Closed
                    \/ Consumable(i) /\ new = [pc |-> "granted", interview |-> i, elapsed |-> 0]
                    \/ new = [pc |-> "refused", interview |-> i, elapsed |-> 0]
  BY <1>1, <1>2 DEF ConsumeToken
<1>4. /\ new \in Connection
      /\ conn' \in [Connections -> Connection]
      /\ conn'[c] = new
      /\ \A d \in Connections \ {c} : conn'[d] = conn[d]
  BY <1>3, InterviewsAssumption DEF TypeOK, Connection, Closed, PcValues
<1>5. CASE ~Consumable(i)
  <2>1. UNCHANGED <<status, activeFor>>
    BY <1>1, <1>5 DEF ConsumeToken
  <2>2. TypeOK' /\ QueueOK' /\ EventsTrue' /\ NotBegun'
    BY <1>2, <1>4, <2>1 DEF TypeOK, QueueOK, EventsTrue, NotBegun
  <2>3. ConnOK' /\ GrantedOK' /\ LiveOK' /\ EndingOK'
    BY <1>2, <1>3, <1>4, <1>5, <2>1 DEF ConnOK, GrantedOK, LiveOK, EndingOK, Closed, Outcomes
  <2>4. LiveHeld' /\ OneSessionPerToken'
    BY <1>2, <1>3, <1>4, <1>5, <2>1 DEF LiveHeld, OneSessionPerToken, Holding, Closed
  <2> QED
    BY <2>2, <2>3, <2>4
<1>6. CASE Consumable(i)
  <2>1. /\ status[i] = "created"
        /\ status' = [status EXCEPT ![i] = "active"]
        /\ activeFor' = [activeFor EXCEPT ![i] = 0]
    BY <1>1, <1>6 DEF ConsumeToken, Consumable
  <2>2. TypeOK' /\ QueueOK' /\ EventsTrue' /\ NotBegun'
    BY <1>2, <1>4, <2>1, InterviewsAssumption
    DEF TypeOK, QueueOK, EventsTrue, NotBegun, Statuses
  <2>3. \A d \in Connections : conn[d].pc \in {"granted", "live"} => conn[d].interview # i
    BY <2>1 DEF GrantedOK, LiveOK
  <2>4. ConnOK' /\ EndingOK' /\ LiveHeld'
    BY <1>2, <1>3, <1>4 DEF ConnOK, EndingOK, LiveHeld, Closed, Outcomes
  <2>5. GrantedOK'
    BY <1>2, <1>3, <1>4, <2>1, <2>3, InterviewsAssumption
    DEF ConnOK, GrantedOK, NotBegun, Closed, TypeOK
  <2>6. LiveOK'
    BY <1>2, <1>3, <1>4, <2>1, <2>3 DEF ConnOK, LiveOK, Closed, TypeOK
  <2>7. OneSessionPerToken'
    BY <1>3, <1>4, <2>3 DEF OneSessionPerToken, Holding, Closed
  <2> QED
    BY <2>2, <2>4, <2>5, <2>6, <2>7
<1> QED
  BY <1>5, <1>6

\* A change of status that leaves alone the interviews with a session under way.
LEMMA StatusChangeInv ==
  ASSUME IInv, status' \in [Interviews -> Statuses],
         UNCHANGED <<tokenLeft, activeFor, conn, session>>,
         WellFormed(events', EventSlots, Ended), EventsTrue',
         \A c \in Connections : conn[c].pc \in {"granted", "live"} =>
           status'[conn[c].interview] = status[conn[c].interview],
         \A i \in Interviews : status'[i] \in {"none", "created"} => status'[i] = status[i]
  PROVE  IInv'
<1> USE DEF IInv
<1>1. TypeOK' /\ QueueOK'
  BY DEF TypeOK, QueueOK, WellFormed
<1>2. ConnOK' /\ EndingOK' /\ LiveHeld' /\ OneSessionPerToken'
  BY DEF ConnOK, EndingOK, LiveHeld, OneSessionPerToken, Holding
<1>3. GrantedOK' /\ LiveOK' /\ NotBegun'
  BY DEF GrantedOK, LiveOK, NotBegun
<1> QED
  BY <1>1, <1>2, <1>3

\* The overdue interviews have no session under way.
LEMMA EndOverdueSessionsInv ==
  ASSUME IInv, EndOverdueSessions
  PROVE  IInv'
<1>1. UNCHANGED <<tokenLeft, activeFor, conn, events, session>>
  BY DEF EndOverdueSessions
<1>2. /\ status' \in [Interviews -> Statuses]
      /\ \A i \in Interviews : status'[i] = IF Overdue(i) THEN "interrupted" ELSE status[i]
  BY DEF EndOverdueSessions, IInv, TypeOK, Statuses
<1>3. WellFormed(events', EventSlots, Ended) /\ EventsTrue'
  BY <1>1 DEF IInv, QueueOK, EventsTrue
<1>4. ASSUME NEW c \in Connections, conn[c].pc \in {"granted", "live"}
      PROVE  status'[conn[c].interview] = status[conn[c].interview]
  BY <1>2, <1>4, HeldNotOverdue DEF IInv, ConnOK
<1> QED
  BY <1>1, <1>2, <1>3, <1>4, StatusChangeInv

\* What an end event does: nothing to an interview whose session is under way.
LEMMA EventHandledInv ==
  ASSUME IInv, NEW e \in EventSlots, HandleEnded(e) \/ HandleEndedFails(e)
  PROVE  IInv'
<1>1. UNCHANGED <<tokenLeft, activeFor, conn, session>> /\ events[e].st = "visible"
  BY DEF HandleEnded, HandleEndedFails
<1>2. PICK ev \in Ended : ev = events[e].body
  BY <1>1 DEF IInv, QueueOK, WellFormed
<1>3. EndInterview(ev) \/ UNCHANGED status
  BY <1>2 DEF HandleEnded, HandleEndedFails
<1>4. /\ WellFormed(events', EventSlots, Ended)
      /\ \A n \in EventSlots \ {e} : events'[n] = events[n]
      /\ events'[e].st = "free" \/ events'[e].body = ev
  <2>1. WellFormed(events, EventSlots, Ended)
    BY DEF IInv, QueueOK
  <2>2. CASE events' = Delete(events, e)
    BY <2>1, <2>2, DeleteFacts
  <2>3. CASE events' = Return(Receive(events, e), e)
    BY <1>1, <1>2, <2>1, <2>3, RedeliverFacts
  <2> QED
    BY <2>2, <2>3 DEF HandleEnded, HandleEndedFails
<1>5. EventsTrue'
  BY <1>1, <1>2, <1>4 DEF IInv, EventsTrue
<1>6. session[ev.interview] = ev.outcome /\ ev.interview \in Interviews /\ ev.outcome \in Outcomes
  BY <1>1, <1>2 DEF IInv, EventsTrue, Ended
<1>7. /\ status' \in [Interviews -> Statuses]
      /\ \A i \in Interviews : status'[i] = status[i] \/ (i = ev.interview /\ status'[i] \in Outcomes)
  BY <1>3, <1>6 DEF EndInterview, IInv, TypeOK, Statuses, Outcomes
<1>8. ASSUME NEW c \in Connections, conn[c].pc \in {"granted", "live"}
      PROVE  status'[conn[c].interview] = status[conn[c].interview]
  <2>1. conn[c].interview \in Interviews /\ session[conn[c].interview] \notin Outcomes
    BY <1>8 DEF IInv, ConnOK, GrantedOK, LiveOK, Outcomes
  <2> QED
    BY <1>6, <1>7, <2>1
<1>9. \A i \in Interviews : status'[i] \in {"none", "created"} => status'[i] = status[i]
  BY <1>7 DEF Outcomes
<1> QED
  BY <1>1, <1>4, <1>5, <1>7, <1>8, <1>9, StatusChangeInv

-----------------------------------------------------------------------------
(* Voice Service's steps *)

\* A connection that holds no session and comes to hold none.
LEMMA IdleConnectionInv ==
  ASSUME IInv, UNCHANGED <<status, tokenLeft, activeFor, session>>,
         WellFormed(events', EventSlots, Ended), EventsTrue',
         NEW c \in Connections, conn[c].pc # "live",
         NEW new \in Connection, conn' = [conn EXCEPT ![c] = new],
         new.pc \in {"closed", "asking", "abandoned"},
         new.pc # "closed" => new.interview \in Interviews
  PROVE  IInv'
<1> USE DEF IInv
<1>1. /\ conn' \in [Connections -> Connection]
      /\ conn'[c] = new
      /\ \A d \in Connections \ {c} : conn'[d] = conn[d]
  BY DEF TypeOK
<1>2. TypeOK' /\ QueueOK' /\ NotBegun'
  BY <1>1 DEF TypeOK, QueueOK, WellFormed, NotBegun
<1>3. ConnOK' /\ GrantedOK' /\ LiveOK' /\ EndingOK'
  BY <1>1 DEF ConnOK, GrantedOK, LiveOK, EndingOK, Outcomes
<1>4. LiveHeld' /\ OneSessionPerToken'
  BY <1>1 DEF LiveHeld, OneSessionPerToken, Holding
<1> QED
  BY <1>2, <1>3, <1>4

\* Connections come and go without a session.
LEMMA ConnectionInv ==
  ASSUME IInv, NEW c \in Connections,
         \/ \E i \in Interviews : StartSession(c, i)
         \/ ConsumeCallFails(c)
         \/ CloseUnadmitted(c)
  PROVE  IInv'
<1>1. UNCHANGED <<status, tokenLeft, activeFor, events, session>> /\ conn[c].pc # "live"
  BY DEF StartSession, ConsumeCallFails, CloseUnadmitted
<1>2. WellFormed(events', EventSlots, Ended) /\ EventsTrue'
  BY <1>1 DEF IInv, QueueOK, EventsTrue
<1>3. PICK new \in Connection :
        /\ conn' = [conn EXCEPT ![c] = new]
        /\ new.pc \in {"closed", "asking", "abandoned"}
        /\ new.pc # "closed" => new.interview \in Interviews
  <2>1. Closed \in Connection /\ Closed.pc = "closed"
    BY InterviewsAssumption DEF Closed, Connection, PcValues
  <2>2. CASE \E i \in Interviews : StartSession(c, i)
    <3>1. PICK i, new :
            /\ i \in Interviews
            /\ new = [pc |-> "asking", interview |-> i, elapsed |-> 0]
            /\ conn' = [conn EXCEPT ![c] = new]
      BY <2>2 DEF StartSession
    <3>2. new \in Connection /\ new.pc = "asking" /\ new.interview = i
      BY <3>1, InterviewsAssumption DEF Connection, PcValues
    <3> QED
      BY <3>1, <3>2
  <2>3. CASE conn' = [conn EXCEPT ![c] = Closed]
    BY <2>1, <2>3
  <2>4. CASE ConsumeCallFails(c) /\ conn[c].pc = "asking"
    <3>1. conn' = [conn EXCEPT ![c] = [conn[c] EXCEPT !.pc = "abandoned"]]
      BY <2>4 DEF ConsumeCallFails, IInv, TypeOK
    <3>2. conn[c] \in Connection /\ conn[c].interview \in Interviews
      BY <2>4 DEF IInv, TypeOK, ConnOK
    <3>3. PICK new : new = [conn[c] EXCEPT !.pc = "abandoned"]
      OBVIOUS
    <3>4. new \in Connection /\ new.pc = "abandoned" /\ new.interview \in Interviews
      BY <3>2, <3>3 DEF Connection, PcValues
    <3> QED
      BY <3>1, <3>3, <3>4
  <2>5. CASE ConsumeCallFails(c) /\ conn[c].pc = "granted"
    BY <2>1, <2>5 DEF ConsumeCallFails
  <2> QED
    BY <2>2, <2>3, <2>4, <2>5 DEF ConsumeCallFails, CloseUnadmitted
<1> QED
  BY <1>1, <1>2, <1>3, IdleConnectionInv

\* A session that begins has the interview for itself.
LEMMA BeginQuestionsInv ==
  ASSUME IInv, NEW c \in Connections, BeginQuestions(c)
  PROVE  IInv'
<1> USE DEF IInv
<1>1. PICK i \in Interviews : i = conn[c].interview
  BY DEF BeginQuestions, ConnOK
<1>2. UNCHANGED <<status, tokenLeft, activeFor, events>> /\ conn[c].pc = "granted"
  BY DEF BeginQuestions
<1>3. /\ conn' \in [Connections -> Connection]
      /\ conn'[c].pc = "live" /\ conn'[c].interview = i /\ conn'[c].elapsed = 0
      /\ \A d \in Connections \ {c} : conn'[d] = conn[d]
  <2>1. PICK new : /\ new = [pc |-> "live", interview |-> i, elapsed |-> 0]
                   /\ conn' = [conn EXCEPT ![c] = new]
    BY <1>1 DEF BeginQuestions
  <2>2. new \in Connection
    BY <2>1, InterviewsAssumption DEF Connection, PcValues
  <2> QED
    BY <2>1, <2>2 DEF TypeOK
<1>4. session' \in [Interviews -> {"none", "live"} \cup Outcomes]
  BY <1>1 DEF BeginQuestions, TypeOK
<1>5. session'[i] = "live" /\ \A j \in Interviews \ {i} : session'[j] = session[j]
  BY <1>1 DEF BeginQuestions, TypeOK
<1>6. /\ status[i] = "active" /\ session[i] = "none"
      /\ activeFor[i] <= StartSlack /\ activeFor[i] \in Nat
  BY <1>1, <1>2, InterviewsAssumption DEF GrantedOK, TypeOK, Connection
<1>7. \A d \in Connections \ {c} : conn[d].pc \in {"granted", "live"} => conn[d].interview # i
  BY <1>1, <1>2 DEF OneSessionPerToken, Holding
<1>8. TypeOK' /\ QueueOK' /\ NotBegun'
  BY <1>2, <1>3, <1>4, <1>5, <1>6 DEF TypeOK, QueueOK, NotBegun
<1>9. ConnOK' /\ GrantedOK' /\ LiveOK'
  BY <1>2, <1>3, <1>5, <1>6, <1>7, InterviewsAssumption DEF ConnOK, GrantedOK, LiveOK
<1>10. EndingOK'
  BY <1>2, <1>3, <1>5, <1>6 DEF ConnOK, EndingOK, Outcomes
<1>11. LiveHeld' /\ OneSessionPerToken'
  BY <1>2, <1>3, <1>5, <1>7 DEF LiveHeld, OneSessionPerToken, Holding
<1>12. EventsTrue'
  BY <1>2, <1>5, <1>6 DEF EventsTrue, QueueOK, WellFormed, Ended, Outcomes
<1> QED
  BY <1>8, <1>9, <1>10, <1>11, <1>12

\* A session that ends was held by this connection alone.
LEMMA EndSessionInv ==
  ASSUME IInv, NEW c \in Connections, Complete(c) \/ Interrupt(c)
  PROVE  IInv'
<1> USE DEF IInv
<1>1. PICK i \in Interviews : i = conn[c].interview
  BY DEF Complete, Interrupt, ConnOK
<1>2. PICK o \in Outcomes : EndSession(c, o)
  BY DEF Complete, Interrupt, Outcomes
<1>3. UNCHANGED <<status, tokenLeft, activeFor, events>> /\ conn[c].pc \in {"granted", "live"}
  BY <1>2 DEF EndSession, Complete, Interrupt
<1>4. /\ conn' \in [Connections -> Connection]
      /\ conn'[c].pc = o /\ conn'[c].interview = i
      /\ \A d \in Connections \ {c} : conn'[d] = conn[d]
  BY <1>1, <1>2 DEF EndSession, TypeOK, Connection, PcValues, Outcomes
<1>5. /\ session' \in [Interviews -> {"none", "live"} \cup Outcomes]
      /\ session'[i] = o
      /\ \A j \in Interviews \ {i} : session'[j] = session[j]
  BY <1>1, <1>2 DEF EndSession, TypeOK
<1>6. status[i] = "active" /\ session[i] \in {"none", "live"}
  BY <1>1, <1>3 DEF GrantedOK, LiveOK
<1>7. \A d \in Connections \ {c} : conn[d].pc \in {"granted", "live"} => conn[d].interview # i
  BY <1>1, <1>3 DEF OneSessionPerToken, Holding
<1>8. TypeOK' /\ QueueOK' /\ NotBegun'
  BY <1>3, <1>4, <1>5, <1>6 DEF TypeOK, QueueOK, NotBegun
<1>9. ConnOK' /\ GrantedOK' /\ LiveOK'
  BY <1>3, <1>4, <1>5, <1>7 DEF ConnOK, GrantedOK, LiveOK, Outcomes
<1>10. EndingOK'
  BY <1>3, <1>4, <1>5, <1>6 DEF ConnOK, EndingOK, Outcomes
<1>11. LiveHeld' /\ OneSessionPerToken'
  BY <1>1, <1>3, <1>4, <1>5, <1>7 DEF LiveHeld, OneSessionPerToken, Holding, Outcomes
<1>12. EventsTrue'
  BY <1>3, <1>5, <1>6 DEF EventsTrue, QueueOK, WellFormed, Ended, Outcomes
<1> QED
  BY <1>8, <1>9, <1>10, <1>11, <1>12

\* What is published tells how the session ended.
LEMMA PublishEndedInv ==
  ASSUME IInv, NEW c \in Connections, PublishEnded(c)
  PROVE  IInv'
<1>1. /\ UNCHANGED <<status, tokenLeft, activeFor, session>>
      /\ conn[c].pc \in Outcomes /\ conn' = [conn EXCEPT ![c] = Closed]
  BY DEF PublishEnded
<1>2. PICK ev \in Ended : ev = [interview |-> conn[c].interview, outcome |-> conn[c].pc]
  BY <1>1 DEF IInv, ConnOK, Ended, Outcomes
<1>3. PICK S \in SUBSET FreeSlots(events) : events' = Put(events, S, ev)
  BY <1>2 DEF PublishEnded, Copies
<1>4. WellFormed(events, EventSlots, Ended) /\ S \in SUBSET EventSlots
  BY DEF IInv, QueueOK, WellFormed, FreeSlots
<1>5. /\ WellFormed(events', EventSlots, Ended)
      /\ \A m \in S : events'[m].body = ev
      /\ \A m \in EventSlots \ S : events'[m] = events[m]
  <2>1. PICK q : q = events
    OBVIOUS
  <2>2. /\ WellFormed(Put(q, S, ev), EventSlots, Ended)
        /\ \A m \in S : Put(q, S, ev)[m].body = ev
        /\ \A m \in EventSlots \ S : Put(q, S, ev)[m] = q[m]
    BY <1>4, <2>1, PutFacts
  <2> QED
    BY <1>3, <2>1, <2>2
<1>6. session[ev.interview] = ev.outcome
  BY <1>1, <1>2 DEF IInv, EndingOK
<1>7. EventsTrue'
  BY <1>1, <1>5, <1>6 DEF IInv, EventsTrue
<1>8. Closed \in Connection /\ Closed.pc = "closed"
  BY InterviewsAssumption DEF Closed, Connection, PcValues
<1>9. conn[c].pc # "live"
  BY <1>1 DEF Outcomes
<1> QED
  BY <1>1, <1>5, <1>7, <1>8, <1>9, IdleConnectionInv

\* A crash ends every session, none of which had ended before.
LEMMA VoiceDiesInv ==
  ASSUME IInv, VoiceDies
  PROVE  IInv'
<1> USE DEF IInv
<1>1. UNCHANGED <<status, tokenLeft, activeFor, events>>
  BY DEF VoiceDies
<1>2. \A c \in Connections :
        /\ conn'[c] \in Connection
        /\ conn'[c].pc \in {"closed", "abandoned"}
        /\ conn'[c].pc = "abandoned" => conn'[c].interview \in Interviews
  BY InterviewsAssumption DEF VoiceDies, TypeOK, ConnOK, Connection, Closed, PcValues
<1>3. /\ session' \in [Interviews -> {"none", "live"} \cup Outcomes]
      /\ \A i \in Interviews : session'[i] = IF session[i] = "live" THEN "interrupted" ELSE session[i]
  BY DEF VoiceDies, TypeOK, Outcomes
<1>4. conn' \in [Connections -> Connection]
  BY <1>2 DEF VoiceDies
<1>5. TypeOK' /\ QueueOK'
  BY <1>1, <1>3, <1>4 DEF TypeOK, QueueOK
<1>6. ConnOK' /\ GrantedOK' /\ LiveOK' /\ EndingOK' /\ OneSessionPerToken'
  BY <1>2 DEF ConnOK, GrantedOK, LiveOK, EndingOK, OneSessionPerToken, Holding, Outcomes
<1>7. LiveHeld' /\ NotBegun'
  BY <1>1, <1>3 DEF LiveHeld, NotBegun
<1>8. EventsTrue'
  BY <1>1, <1>3 DEF EventsTrue, QueueOK, WellFormed, Ended, Outcomes
<1> QED
  BY <1>5, <1>6, <1>7, <1>8

-----------------------------------------------------------------------------
(* Time *)

\* A tick ages an interview no more than the session it is held in.
LEMMA TickInv ==
  ASSUME IInv, Tick
  PROVE  IInv'
<1> USE DEF IInv
<1>1. UNCHANGED <<status, events, session>>
  BY DEF Tick
<1>2. /\ tokenLeft' \in [Interviews -> 0..TokenTtl]
      /\ activeFor' \in [Interviews -> 0..(Cutoff + 1)]
      /\ \A i \in Interviews : activeFor'[i] <= activeFor[i] + 1
  BY InterviewsAssumption DEF Tick, TypeOK
<1>3. \A c \in Connections :
        /\ conn'[c].pc = conn[c].pc /\ conn'[c].interview = conn[c].interview
        /\ conn[c].pc \in {"granted", "live"} => conn'[c].elapsed = conn[c].elapsed + 1
        /\ conn[c].pc \notin {"granted", "live"} => conn'[c] = conn[c]
  BY DEF Tick, TypeOK, Connection
<1>4. \A c \in Connections :
        conn[c].pc \in {"granted", "live"} =>
          /\ conn[c].elapsed \in Nat
          /\ conn[c].interview \in Interviews
          /\ activeFor[conn[c].interview] \in Nat /\ activeFor'[conn[c].interview] \in Nat
          /\ conn[c].pc = "granted" => conn'[c].elapsed <= StartSlack
          /\ conn[c].pc = "live" => conn'[c].elapsed <= SessionLimit
  BY <1>2, <1>3, InterviewsAssumption DEF Tick, OnTime, TypeOK, Connection, ConnOK
<1>5. conn' \in [Connections -> Connection]
  <2>1. ASSUME NEW c \in Connections PROVE conn'[c] \in Connection
    <3>1. CASE conn[c].pc \in {"granted", "live"}
      <4>1. conn'[c] = [conn[c] EXCEPT !.elapsed = conn[c].elapsed + 1]
        BY <3>1 DEF Tick
      <4>2. conn[c].elapsed + 1 \in 0..Cutoff
        BY <1>3, <1>4, <3>1, InterviewsAssumption
      <4> QED
        BY <4>1, <4>2 DEF TypeOK, Connection
    <3> QED
      BY <1>3, <3>1 DEF TypeOK
  <2> QED
    BY <2>1 DEF Tick
<1>6. TypeOK' /\ QueueOK' /\ NotBegun' /\ EventsTrue'
  BY <1>1, <1>2, <1>5 DEF TypeOK, QueueOK, NotBegun, EventsTrue
<1>7. ConnOK' /\ EndingOK' /\ LiveHeld' /\ OneSessionPerToken'
  BY <1>1, <1>3 DEF ConnOK, EndingOK, LiveHeld, OneSessionPerToken, Holding
<1>8. GrantedOK'
  BY <1>1, <1>2, <1>3, <1>4, InterviewsAssumption DEF GrantedOK
<1>9. LiveOK'
  BY <1>1, <1>2, <1>3, <1>4, InterviewsAssumption DEF LiveOK
<1> QED
  BY <1>6, <1>7, <1>8, <1>9

-----------------------------------------------------------------------------
(* The invariant and what follows from it *)

\* No step leaves the invariant.
LEMMA NextInv == IInv /\ [Next]_vars => IInv'
<1> SUFFICES ASSUME IInv, [Next]_vars PROVE IInv'
  OBVIOUS
<1>1. CASE \E i \in Interviews : CreateInterview(i)
  BY <1>1, CreateInterviewInv
<1>2. CASE \E c \in Connections, i \in Interviews : StartSession(c, i)
  BY <1>2, ConnectionInv
<1>3. CASE \E c \in Connections : Answer(c) \/ ConsumeCallFails(c) \/ Hold(c)
  BY <1>3, ConsumeTokenInv, ConnectionInv, BeginQuestionsInv, EndSessionInv, PublishEndedInv
  DEF Answer, Hold
<1>4. CASE VoiceDies
  BY <1>4, VoiceDiesInv
<1>5. CASE EndOverdueSessions
  BY <1>5, EndOverdueSessionsInv
<1>6. CASE \E e \in EventSlots : HandleEnded(e) \/ HandleEndedFails(e)
  BY <1>6, EventHandledInv
<1>7. CASE Tick
  BY <1>7, TickInv
<1>8. CASE UNCHANGED vars
  BY <1>8 DEF vars, IInv, TypeOK, QueueOK, ConnOK, GrantedOK, LiveOK, EndingOK, LiveHeld,
     NotBegun, EventsTrue, OneSessionPerToken, Holding
<1> QED
  BY <1>1, <1>2, <1>3, <1>4, <1>5, <1>6, <1>7, <1>8 DEF Next

\* The invariant holds in every state a run can reach.
THEOREM Invariance == Spec => []IInv
BY InitIInv, NextInv, PTL DEF Spec

\* Every state is one the tables, the queue and the connections can hold.
THEOREM TypeCorrect == Spec => []TypeOK
<1>1. IInv => TypeOK
  BY DEF IInv
<1> QED
  BY <1>1, Invariance, PTL

\* A session token, however often it is presented, gives one session.
THEOREM TokenOnce == Spec => []OneSessionPerToken
<1>1. IInv => OneSessionPerToken
  BY DEF IInv
<1> QED
  BY <1>1, Invariance, PTL

\* No session under way belongs to an interview Core has ended, provided the
\* cutoff is no shorter than a session and its start.
THEOREM HeldIsActive == Spec => []SessionIsActive
<1>1. IInv => SessionIsActive
  BY DEF IInv, SessionIsActive, Holding, GrantedOK, LiveOK
<1> QED
  BY <1>1, Invariance, PTL
-----------------------------------------------------------------------------
(* The protocol implements InterviewStatus: a token that is consumed is a  *)
(* Begin, the first question a Play, the end of a session a Finish, and an *)
(* end event that is applied a Complete or an Interrupt; the cutoff is an  *)
(* Interrupt of interviews whose session is over.                          *)

Moves(i) ==
  \/ Promise!Stays(i)
  \/ Promise!Create(i)
  \/ Promise!Begin(i)
  \/ Promise!Play(i)
  \/ Promise!Finish(i)
  \/ Promise!Complete(i)
  \/ Promise!Interrupt(i)

LEMMA StepOfMoves ==
  ASSUME IInv, IInv', \A i \in Interviews : Moves(i)
  PROVE  Promise!Next
<1>1. DOMAIN status' = Interviews /\ DOMAIN session' = Interviews
  BY DEF IInv, TypeOK
<1> QED
  BY <1>1 DEF Moves, Promise!Next

LEMMA InitRefines == Init => Promise!Init
BY DEF Init, Promise!Init

\* Core API's steps but the reading of an end event.
LEMMA CoreRefines ==
  ASSUME IInv, NEW k \in Interviews,
         \/ CreateInterview(k)
         \/ EndOverdueSessions
         \/ \E c \in Connections : ConsumeToken(c)
  PROVE  \A i \in Interviews : Moves(i)
<1> SUFFICES ASSUME NEW i \in Interviews PROVE Moves(i)
  OBVIOUS
<1>1. session' = session /\ status \in [Interviews -> Statuses]
  BY DEF CreateInterview, EndOverdueSessions, ConsumeToken, IInv, TypeOK
<1>2. CASE CreateInterview(k)
  BY <1>1, <1>2
  DEF CreateInterview, Moves, Promise!Create, Promise!Becomes, Promise!Stays
<1>3. CASE EndOverdueSessions
  <2>1. CASE Overdue(i)
    <3>1. session[i] # "live"
      BY <2>1, HeldNotOverdue DEF IInv, LiveHeld
    <3> QED
      BY <1>1, <1>3, <2>1, <3>1
      DEF EndOverdueSessions, Overdue, Moves, Promise!Interrupt, Promise!Becomes
  <2>2. CASE ~Overdue(i)
    BY <1>1, <1>3, <2>2 DEF EndOverdueSessions, Moves, Promise!Stays
  <2> QED
    BY <2>1, <2>2
<1>4. ASSUME NEW c \in Connections, ConsumeToken(c) PROVE Moves(i)
  <2>1. CASE i = conn[c].interview /\ Consumable(i)
    <3>1. status[i] = "created" /\ status'[i] = "active" /\ session[i] = "none"
      BY <1>1, <1>4, <2>1 DEF ConsumeToken, Consumable, IInv, NotBegun
    <3> QED
      BY <1>1, <3>1 DEF Moves, Promise!Begin, Promise!Becomes
  <2>2. CASE ~(i = conn[c].interview /\ Consumable(i))
    <3>1. status'[i] = status[i]
      BY <1>1, <1>4, <2>2 DEF ConsumeToken
    <3> QED
      BY <1>1, <3>1 DEF Moves, Promise!Stays
  <2> QED
    BY <2>1, <2>2
<1> QED
  BY <1>2, <1>3, <1>4

\* An end event tells the truth, so what it makes of an `active' row is what
\* the session came to.
LEMMA EventRefines ==
  ASSUME IInv, NEW e \in EventSlots, HandleEnded(e) \/ HandleEndedFails(e)
  PROVE  \A i \in Interviews : Moves(i)
<1> SUFFICES ASSUME NEW i \in Interviews PROVE Moves(i)
  OBVIOUS
<1>1. session' = session /\ status \in [Interviews -> Statuses]
  BY DEF HandleEnded, HandleEndedFails, IInv, TypeOK
<1>2. PICK ev : ev = events[e].body
  OBVIOUS
<1>3. session[ev.interview] = ev.outcome /\ ev \in Ended
  BY <1>2 DEF HandleEnded, HandleEndedFails, IInv, QueueOK, WellFormed, EventsTrue
<1>4. EndInterview(ev) \/ UNCHANGED status
  BY <1>2 DEF HandleEnded, HandleEndedFails
<1>5. CASE status'[i] = status[i]
  BY <1>1, <1>5 DEF Moves, Promise!Stays
<1>6. CASE status'[i] # status[i]
  <2>1. ev.interview = i /\ status[i] = "active" /\ status'[i] = session[i]
    BY <1>1, <1>3, <1>4, <1>6 DEF EndInterview
  <2>2. session[i] \in Outcomes
    BY <1>3, <2>1 DEF Ended
  <2> QED
    BY <1>1, <2>1, <2>2
    DEF Moves, Outcomes, Promise!Complete, Promise!Interrupt, Promise!Becomes
<1> QED
  BY <1>5, <1>6

\* Voice Service's steps move sessions only, and only `active' interviews
\* have one to move.
LEMMA VoiceRefines ==
  ASSUME IInv, NEW c \in Connections,
         Hold(c) \/ ConsumeCallFails(c) \/ CloseUnadmitted(c) \/ VoiceDies
  PROVE  \A i \in Interviews : Moves(i)
<1> SUFFICES ASSUME NEW i \in Interviews PROVE Moves(i)
  OBVIOUS
<1>1. status' = status /\ session \in [Interviews -> {"none", "live"} \cup Outcomes]
  BY DEF Hold, BeginQuestions, Complete, Interrupt, EndSession, PublishEnded, ConsumeCallFails,
     CloseUnadmitted, VoiceDies, IInv, TypeOK
<1>2. CASE session'[i] = session[i]
  BY <1>1, <1>2 DEF Moves, Promise!Stays
<1>3. CASE BeginQuestions(c) /\ session'[i] # session[i]
  <2>1. conn[c].pc = "granted" /\ i = conn[c].interview /\ session'[i] = "live"
    BY <1>1, <1>3 DEF BeginQuestions
  <2>2. status[i] = "active" /\ session[i] = "none"
    BY <2>1 DEF IInv, GrantedOK
  <2> QED
    BY <1>1, <2>1, <2>2 DEF Moves, Promise!Play, Promise!Comes
<1>4. CASE (Complete(c) \/ Interrupt(c)) /\ session'[i] # session[i]
  <2>1. PICK outcome \in Outcomes :
          /\ session' = [session EXCEPT ![conn[c].interview] = outcome]
          /\ conn[c].pc \in {"granted", "live"}
          /\ outcome = "completed" => conn[c].pc = "live"
    BY <1>4 DEF Complete, Interrupt, EndSession, Outcomes
  <2>2. i = conn[c].interview /\ session'[i] = outcome
    BY <1>1, <1>4, <2>1
  <2>3. /\ status[i] = "active" /\ session[i] \in {"none", "live"}
        /\ outcome = "completed" => session[i] = "live"
    BY <2>1, <2>2 DEF IInv, GrantedOK, LiveOK
  <2>4. Promise!Finish(i)
    BY <1>1, <2>2, <2>3 DEF Promise!Finish, Promise!Comes, Outcomes
  <2> QED
    BY <2>4 DEF Moves
<1>5. CASE VoiceDies /\ session'[i] # session[i]
  <2>1. session[i] = "live" /\ session'[i] = "interrupted"
    BY <1>1, <1>5 DEF VoiceDies
  <2>2. status[i] = "active"
    BY <2>1 DEF IInv, LiveHeld, LiveOK
  <2>3. Promise!Finish(i)
    BY <1>1, <2>1, <2>2 DEF Promise!Finish, Promise!Comes
  <2> QED
    BY <2>3 DEF Moves
<1> QED
  BY <1>2, <1>3, <1>4, <1>5 DEF Hold, PublishEnded, ConsumeCallFails, CloseUnadmitted

\* What Core API shows of an interview is what InterviewStatus allows: it is
\* `completed' only if its session was, and ends once, whichever reports come
\* late, twice or never.
THEOREM Refinement == Spec => KeepsPromises
<1>1. IInv /\ IInv' /\ [Next]_vars => [Promise!Next]_(Promise!vars)
  <2> SUFFICES ASSUME IInv, IInv', [Next]_vars, ~UNCHANGED <<status, session>>
               PROVE  \A i \in Interviews : Moves(i)
    BY StepOfMoves DEF Promise!vars
  <2>1. CASE \E i \in Interviews : CreateInterview(i)
    BY <2>1, CoreRefines
  <2>2. CASE \E c \in Connections : Answer(c) \/ ConsumeCallFails(c) \/ Hold(c)
    <3>1. PICK c \in Connections : Answer(c) \/ ConsumeCallFails(c) \/ Hold(c)
      BY <2>2
    <3>2. CASE ConsumeToken(c)
      BY <3>2, CoreRefines
    <3> QED
      BY <3>1, <3>2, VoiceRefines DEF Answer
  <2>3. CASE VoiceDies
    BY <2>3, VoiceRefines DEF VoiceDies
  <2>4. CASE EndOverdueSessions
    BY <2>4, CoreRefines DEF EndOverdueSessions
  <2>5. CASE \E e \in EventSlots : HandleEnded(e) \/ HandleEndedFails(e)
    BY <2>5, EventRefines
  <2>6. ~\E c \in Connections, i \in Interviews : StartSession(c, i)
    BY DEF StartSession
  <2> QED
    BY <2>1, <2>2, <2>3, <2>4, <2>5, <2>6 DEF Next, Tick, vars
<1> QED
  BY <1>1, InitRefines, Invariance, PTL DEF Spec, KeepsPromises, Promise!Spec
=============================================================================
