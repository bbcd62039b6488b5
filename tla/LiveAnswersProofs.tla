------------------------- MODULE LiveAnswersProofs -------------------------
(***************************************************************************)
(* While no render is late, the answer stored for a question is one whole  *)
(* recording made for it, an error reaches the page while it is about the  *)
(* answer it refuses, and neither end waits for the other: what the two    *)
(* channels may hold, position by position.                                *)
(***************************************************************************)
EXTENDS LiveSessionProofs

Content == {"audio", "audio.end", "answer.text"}
InTurn == {"speak", "listen"}
Over == {"ending"} \cup Finished

\* The session is under way and the page is what the user sees.
Calm == ~hook.lagged /\ server.exit = "none"
Rendered == ~hook.lagged => hook.seen = page.phase

Open == hook.sock = "open"
Mendable(m) == m.type = "error" /\ m.code \notin Fatal
Refused == \E i \in DOMAIN toPage : Mendable(toPage[i])
TextComes == \E i \in DOMAIN toPage : toPage[i].type = "question.text"
AudioEndComes == \E i \in DOMAIN toPage : toPage[i].type = "question.audio_end"
CompleteComes == \E i \in DOMAIN toPage : toPage[i].type = "turn.complete"
Behind == TextComes \/ CompleteComes
HeardSoFar == IF server.pc = "listen" THEN server.audio.heard ELSE 0

\* An error is the only one, and of the answer the page is giving.
OneError ==
  ~hook.lagged /\ Refused =>
    /\ \A i, j \in DOMAIN toPage : Mendable(toPage[i]) /\ Mendable(toPage[j]) => i = j
    /\ page.phase \in {"recording", "sending"} \cup Over
    /\ page.phase \in {"recording", "sending"} => page.seq = server.q
    /\ ~Behind

\* To the page: an answered turn, then the question in hand, then its end.
NewsOK ==
  \A i \in DOMAIN toPage :
    /\ toPage[i].type \notin {"session.end", "close"}
    /\ toPage[i].type = "error" => Mendable(toPage[i])
    /\ Mendable(toPage[i]) /\ page.phase = "recording" => toPage[i].code = "answer_too_long"
    /\ toPage[i].type = "question.text" =>
         /\ server.pc \in InTurn
         /\ toPage[i].seq = server.q
         /\ \A j \in DOMAIN toPage : i < j => toPage[j].type \notin {"question.text", "turn.complete"}
         /\ server.pc = "listen" => \E j \in DOMAIN toPage : i < j /\ toPage[j].type = "question.audio_end"
    /\ toPage[i].type = "turn.complete" =>
         /\ server.pc \in InTurn => \E j \in DOMAIN toPage : i < j /\ toPage[j].type = "question.text"
         /\ \A j \in DOMAIN toPage : toPage[j].type = "turn.complete" => i = j

\* What the socket and the runner's place say of the page.
SocketOK ==
  /\ hook.sock \in {"opening", "open"} => page.phase \notin Finished
  /\ ~Open => toPage = <<>>
  /\ hook.sock = "closed" => page.phase \in Finished
  /\ hook.sock = "opening" => ~hook.mic
  /\ server.pc = "admit" => toPage = <<>> /\ page.phase \in {"connecting"} \cup Over
  /\ server.pc = "admit" /\ Open /\ page.phase = "connecting" => Len(toServer) = 1
  /\ server.pc \in {"transcribe", "record", "turn"} /\ Open => page.phase \in {"sending", "ending"}

\* While the page has yet to be told of the question, or of its error, there is
\* no answer.
NothingHeard ==
  /\ Behind => /\ page.phase \in {"connecting", "preparing", "sending"} \cup Over
               /\ server.pc \in {"mark", "text"} \cup InTurn
               /\ ~server.discarding /\ HeardSoFar = 0
  /\ Refused => server.pc = "listen" /\ HeardSoFar = 0
  /\ server.discarding => server.pc = "listen" /\ HeardSoFar = 0

\* What the runner holds is of one recording.
AudioOK ==
  /\ HeardSoFar > 0 => server.audio.from = {<<server.q, hook.take>>}
  /\ server.pc = "listen" /\ server.audio.heard = 0 => server.audio.from = {}
  /\ server.pc \in {"transcribe", "record"} =>
       /\ server.audio.heard = server.audio.said
       /\ \E t \in 0..MaxTakes : server.audio.from = {<<server.q, t>>}

\* To the server: the first e messages are the rest of a refused answer, those
\* up to c of the one being given.
Unended(e) == server.discarding /\ (e = 0 \/ toServer[e].type = "audio")

Frames(e, c) ==
  /\ e <= c /\ c <= Len(toServer)
  /\ \A i \in DOMAIN toServer : toServer[i].type \in Content <=> i <= c
  /\ \A i \in 1..c : toServer[i].seq = server.q
  /\ c > 0 => server.pc \in InTurn /\ ~Behind
  /\ \A i \in 1..e : toServer[i].type = "audio" \/ (toServer[i].type = "audio.end" /\ i = e)
  /\ \A i \in (e + 1)..c :
       \/ /\ toServer[i].type = "audio"
          /\ toServer[i].take = hook.take /\ toServer[i].size = HeardSoFar + i - e
       \/ /\ toServer[i].type = "audio.end" /\ i = c
          /\ toServer[i].take = hook.take /\ toServer[i].size = HeardSoFar + i - e - 1
       \/ toServer[i].type = "answer.text" /\ i = c /\ i = e + 1 /\ HeardSoFar = 0
  /\ ~server.discarding => e = 0
  /\ Unended(e) => e = c
  /\ Refused => e = c

\* Where the page is in it: what it shows, and while it waits, records and has sent.
Lead(e, c) ==
  /\ hook.mic => page.phase = "recording"
  /\ page.phase # "ending" /\ server.pc # "admit" => c = Len(toServer)
  /\ Unended(e) => (Refused /\ page.phase = "recording") \/ page.phase = "ending"
  /\ page.phase \in {"asking", "answering", "recording"} => server.pc \in InTurn /\ page.seq = server.q

Waiting(e, c) ==
  /\ page.phase \in {"connecting", "preparing"} =>
       c = 0 /\ ~server.discarding /\ HeardSoFar = 0 /\ (server.pc \in InTurn => TextComes)
  /\ page.phase = "asking" =>
       /\ c = 0 /\ ~server.discarding /\ HeardSoFar = 0
       /\ server.pc = "listen" => hook.waits # {} \/ hook.blocked \/ AudioEndComes
  /\ page.phase = "answering" => e = c /\ HeardSoFar = 0

Recording(e, c) ==
  page.phase = "recording" =>
    /\ Refused => Unended(e)
    /\ \A i \in (e + 1)..c : toServer[i].type = "audio"
    /\ ~Unended(e) => HeardSoFar + c - e = hook.sent

Sending(e, c) ==
  page.phase = "sending" =>
    /\ \/ Refused
       \/ server.pc \in {"transcribe", "record", "turn"}
       \/ CompleteComes
       \/ e < c /\ toServer[c].type \in {"audio.end", "answer.text"}
    /\ \/ CompleteComes
       \/ server.pc \in InTurn \cup {"transcribe", "record", "turn"} /\ page.seq = server.q

Place(e, c) == Lead(e, c) /\ Waiting(e, c) /\ Recording(e, c) /\ Sending(e, c)

Script == NewsOK /\ SocketOK /\ NothingHeard /\ AudioOK
Linked == \E e, c \in 0..Len(toServer) : Frames(e, c) /\ (Open => Place(e, c))
Chain == Calm => Script /\ Linked

ChainInv == Rendered /\ OneError /\ Chain /\ AnswersItsQuestion
-----------------------------------------------------------------------------

LEMMA ChainTypes ==
  ASSUME IInv
  PROVE  /\ toServer \in Seq(ToServer) /\ toPage \in Seq(ToPage) /\ server \in Runner /\ hook \in Hook
         /\ page \in Shown(0..Length)
         /\ Len(toServer) \in Nat /\ DOMAIN toServer = 1..Len(toServer)
         /\ Len(toPage) \in Nat /\ DOMAIN toPage = 1..Len(toPage)
         /\ HeardSoFar \in Nat /\ hook.sent \in Nat /\ hook.take \in 0..MaxTakes /\ hook.sent \in 0..MaxSpoken
         /\ page.seq \in 0..Length /\ page.phase \in Phases
         /\ server.q \in Nat /\ server.audio.heard \in Nat
BY SMTT(40), LiveAssumption DEF IInv, TypeOK, Runner, Audio, Hook, Shown, HeardSoFar

\* What the reducer's own moves do.
LEMMA Moves ==
  ASSUME NEW p \in Shown(0..Length)
  PROVE  /\ Heard(p).phase = (IF p.phase = "asking" THEN "answering" ELSE p.phase) /\ Heard(p).seq = p.seq
         /\ RecordStarted(p).phase = (IF p.phase = "answering" THEN "recording" ELSE p.phase)
         /\ RecordStarted(p).seq = p.seq
         /\ AnswerSent(p).phase = (IF p.phase \in {"answering", "recording"} THEN "sending" ELSE p.phase)
         /\ AnswerSent(p).seq = p.seq
         /\ EndRequested(p).phase = (IF p.phase \in Finished THEN p.phase ELSE "ending") /\ EndRequested(p).seq = p.seq
         /\ Closed(p).phase \in Finished
BY DEF Heard, RecordStarted, AnswerSent, EndRequested, Closed, OnClosed, Move, Shown, Phases, Finished

\* The parts that speak of one channel only are not disturbed by the other.
LEMMA SameToPage ==
  ASSUME UNCHANGED toPage
  PROVE  /\ Refused' = Refused /\ TextComes' = TextComes /\ AudioEndComes' = AudioEndComes
         /\ CompleteComes' = CompleteComes /\ Behind' = Behind
BY DEF Refused, TextComes, AudioEndComes, CompleteComes, Behind, Mendable

LEMMA SameAudio ==
  ASSUME UNCHANGED server
  PROVE  HeardSoFar' = HeardSoFar
BY DEF HeardSoFar

\* A page step that leaves both channels alone and only goes on to answer.
LEMMA QuietStep ==
  ASSUME IInv, OneError, Chain, ~hook.lagged, UNCHANGED <<toPage, toServer, server>>,
         hook'.sock = hook.sock, hook'.mic = hook.mic, hook'.take = hook.take, hook'.sent = hook.sent,
         page'.seq = page.seq,
         \/ /\ page'.phase = page.phase
            /\ page.phase = "asking" /\ (hook.waits # {} \/ hook.blocked) => hook'.waits # {} \/ hook'.blocked
         \/ page.phase = "asking" /\ page'.phase = "answering"
  PROVE  OneError' /\ Chain'
<1>1. /\ Refused' = Refused /\ TextComes' = TextComes /\ AudioEndComes' = AudioEndComes
      /\ CompleteComes' = CompleteComes /\ Behind' = Behind /\ HeardSoFar' = HeardSoFar
  BY SameToPage, SameAudio
<1>2. OneError'
  BY <1>1 DEF OneError, Mendable, Over, Finished
<1>3. ASSUME Calm
      PROVE  Script' /\ Linked'
  <2>1. Script /\ Linked
    BY <1>3 DEF Chain
  <2>2. Script'
    <3>1. NewsOK'
      BY <2>1 DEF Script, NewsOK, Mendable
    <3>2. SocketOK'
      BY <2>1 DEF Script, SocketOK, Open, Finished, Over
    <3>3. NothingHeard'
      <4>1. Behind => page.phase # "asking"
        BY <2>1 DEF Script, NothingHeard, Over, Finished
      <4> QED
        BY <1>1, <2>1, <4>1 DEF Script, NothingHeard
    <3>4. AudioOK'
      BY <1>1, <2>1 DEF Script, AudioOK
    <3> QED
      BY <3>1, <3>2, <3>3, <3>4 DEF Script
  <2>3. PICK e \in 0..Len(toServer), c \in 0..Len(toServer) : Frames(e, c) /\ (Open => Place(e, c))
    BY <2>1 DEF Linked
  <2>4. Frames(e, c)'
    BY <1>1, <2>3 DEF Frames, Unended
  <2>5. Open' => Place(e, c)'
    <3>1. Unended(e)' = Unended(e) /\ Open' = Open
      BY DEF Unended, Open
    <3>2. CASE page'.phase = page.phase
      BY <1>1, <2>3, <3>1, <3>2 DEF Place, Lead, Waiting, Recording, Sending
    <3>3. CASE page.phase = "asking" /\ page'.phase = "answering"
      BY <1>1, <2>3, <3>1, <3>3 DEF Place, Frames, Lead, Waiting, Recording, Sending
    <3> QED
      BY <3>2, <3>3
  <2> QED
    BY <2>2, <2>3, <2>4, <2>5 DEF Linked
<1>4. Calm' => Calm
  BY DEF Calm
<1> QED
  BY <1>2, <1>3, <1>4 DEF Chain

\* What a send puts last on the open socket.
LEMMA Sent ==
  ASSUME toServer \in Seq(ToServer), NEW m \in ToServer, Send(m), Open
  PROVE  /\ Len(toServer') = Len(toServer) + 1 /\ DOMAIN toServer' = 1..(Len(toServer) + 1)
         /\ \A i \in 1..Len(toServer) : toServer'[i] = toServer[i]
         /\ toServer'[Len(toServer) + 1] = m
BY AppendFacts DEF Send, Open

\* A page that is live, and past its start, has the socket open.
LEMMA LiveIsOpen ==
  ASSUME IInv, Opening, Chain, Calm, hook.sock # "left", page.phase \notin {"connecting"} \cup Over
  PROVE  Open /\ server.pc # "admit"
<1>1. hook.sock \in {"opening", "open", "closed", "left"}
  BY ChainTypes DEF Hook
<1>2. SocketOK
  BY DEF Chain, Script
<1> QED
  BY <1>1, <1>2 DEF SocketOK, Opening, Open, Over

\* What the user does on the page leaves the script as it is.
LEMMA ScriptMove ==
  ASSUME IInv, Calm, Script, UNCHANGED <<toPage, server>>, hook'.sock = hook.sock,
         HeardSoFar = 0 \/ hook'.take = hook.take, hook'.mic => hook.mic \/ Open,
         UNCHANGED toServer \/ page'.phase # "connecting",
         \/ page'.phase = page.phase
         \/ page.phase = "answering" /\ page'.phase = "recording" /\ ~Refused /\ Open /\ server.pc # "admit"
         \/ page.phase \in {"answering", "recording"} /\ page'.phase = "sending" /\ Open /\ server.pc # "admit"
         \/ page.phase \notin Finished /\ page'.phase = "ending"
  PROVE  Script'
<1>1. /\ Refused' = Refused /\ TextComes' = TextComes /\ AudioEndComes' = AudioEndComes
      /\ CompleteComes' = CompleteComes /\ Behind' = Behind /\ HeardSoFar' = HeardSoFar
  BY SameToPage, SameAudio
<1>2. NewsOK'
  <2>1. NewsOK /\ (page'.phase = "recording" => page.phase = "recording" \/ ~Refused)
    BY DEF Script
  <2>2. \A i \in DOMAIN toPage : Mendable(toPage[i]) => Refused
    BY DEF Refused
  <2> QED
    BY <2>1, <2>2 DEF NewsOK, Mendable
<1>3. SocketOK'
  BY DEF Script, SocketOK, Open, Finished, Over
<1>4. NothingHeard'
  BY <1>1 DEF Script, NothingHeard, Over, Finished
<1>5. AudioOK'
  BY <1>1 DEF Script, AudioOK
<1> QED
  BY <1>2, <1>3, <1>4, <1>5 DEF Script

LEMMA StartRecordingChain ==
  ASSUME IInv, Opening, Rendered, OneError, Chain, StartRecording
  PROVE  OneError' /\ Chain'
<1>a. page \in Shown(0..Length) /\ hook \in Hook
  BY ChainTypes
<1>1. /\ page'.phase = RecordStarted(page).phase /\ page'.seq = page.seq /\ hook'.lagged = hook.lagged
      /\ hook'.take = hook.take + 1 /\ hook'.sent = 0 /\ hook'.mic = TRUE /\ hook'.sock = hook.sock
      /\ UNCHANGED <<toPage, toServer, server>>
      /\ hook.sock # "left" /\ hook.seen = "answering"
  BY <1>a, Moves DEF StartRecording, Clicked, Hook
<1>2. /\ Refused' = Refused /\ TextComes' = TextComes /\ AudioEndComes' = AudioEndComes
      /\ CompleteComes' = CompleteComes /\ Behind' = Behind /\ HeardSoFar' = HeardSoFar
  BY <1>1, SameToPage, SameAudio
<1>3. ~hook.lagged => page.phase = "answering" /\ page'.phase = "recording" /\ ~Refused
  <2>1. ~hook.lagged => page.phase = "answering"
    BY <1>1 DEF Rendered
  <2> QED
    BY <1>a, <1>1, <2>1, Moves DEF OneError, Over, Finished
<1>4. OneError'
  BY <1>1, <1>2, <1>3 DEF OneError
<1>5. ASSUME Calm
      PROVE  Script' /\ Linked'
  <2>1. Script /\ Linked /\ page.phase = "answering" /\ page'.phase = "recording" /\ ~Refused
    BY <1>3, <1>5 DEF Chain, Calm
  <2>2. Open /\ server.pc # "admit"
    BY <1>1, <1>5, <2>1, LiveIsOpen DEF Over, Finished
  <2>3. PICK e \in 0..Len(toServer), c \in 0..Len(toServer) : Frames(e, c) /\ Place(e, c)
    BY <2>1, <2>2 DEF Linked
  <2>4. e = c /\ HeardSoFar = 0 /\ ~Unended(e)
    BY <2>1, <2>3 DEF Place, Waiting, Lead
  <2>5. Script'
    BY <1>1, <1>5, <2>1, <2>2, <2>4, ScriptMove
  <2>6. Unended(e)' = Unended(e)
    BY <1>1 DEF Unended
  <2>7. Frames(e, c)'
    BY <1>1, <1>2, <2>3, <2>4, <2>6 DEF Frames
  <2>8. Place(e, c)'
    <3>1. Lead(e, c)'
      BY <1>1, <1>2, <2>1, <2>3, <2>4, <2>6 DEF Place, Lead
    <3>2. Recording(e, c)'
      <4>1. (e + 1)..c = {} /\ HeardSoFar + c - e = 0
        BY <2>4
      <4> QED
        BY <1>1, <1>2, <2>1, <4>1 DEF Recording
    <3>3. Waiting(e, c)' /\ Sending(e, c)'
      BY <2>1 DEF Waiting, Sending
    <3> QED
      BY <3>1, <3>2, <3>3 DEF Place
  <2> QED
    BY <1>1, <2>5, <2>7, <2>8 DEF Linked
<1>6. Calm' => Calm
  BY <1>1 DEF Calm
<1> QED
  BY <1>4, <1>5, <1>6 DEF Chain

\* What the page adds to the rest of a refused answer.
LEMMA SendRest ==
  ASSUME toServer \in Seq(ToServer), NEW m \in ToServer, Send(m), Open, UNCHANGED server,
         NEW e \in 0..Len(toServer), NEW c \in 0..Len(toServer), Frames(e, c), c = Len(toServer), Unended(e),
         m.type \in {"audio", "audio.end"}, m.seq = server.q, server.pc \in InTurn, ~Behind, ~Behind'
  PROVE  /\ Frames(c + 1, c + 1)'
         /\ Unended(c + 1)' => m.type = "audio"
         /\ m.type = "audio" => Unended(c + 1)'
         /\ c + 1 \in 0..Len(toServer')
<1>1. /\ Len(toServer') = c + 1 /\ DOMAIN toServer' = 1..(c + 1) /\ DOMAIN toServer = 1..c
      /\ \A i \in 1..c : toServer'[i] = toServer[i]
      /\ toServer'[c + 1] = m /\ c \in Nat
  BY Sent
<1>2. e = c /\ server.discarding
  BY DEF Frames, Unended
<1>3. \A i \in 1..c : toServer[i].type = "audio"
  BY <1>2 DEF Frames, Unended
<1>4. \A i \in 1..c : toServer[i].type \in Content /\ toServer[i].seq = server.q
  BY <1>1, <1>3 DEF Frames, Content
<1>5. \A i \in 1..(c + 1) : i \in 1..c \/ i = c + 1
  BY <1>1
<1>6. \A i \in DOMAIN toServer' : toServer'[i].type \in Content /\ i <= c + 1 /\ toServer'[i].seq = server'.q
  BY <1>1, <1>4, <1>5 DEF Content
<1>7. \A i \in 1..(c + 1) : toServer'[i].type = "audio" \/ (toServer'[i].type = "audio.end" /\ i = c + 1)
  BY <1>1, <1>3, <1>5
<1>8. ((c + 1) + 1)..(c + 1) = {} /\ c + 1 <= c + 1 /\ c + 1 # 0
  BY <1>1
<1>9. Unended(c + 1)' <=> m.type = "audio"
  BY <1>1, <1>2, <1>8 DEF Unended
<1>10. server'.pc \in InTurn /\ server'.discarding /\ c + 1 <= Len(toServer')
  BY <1>1, <1>2
<1>11. \A i \in 1..(c + 1) : toServer'[i].seq = server'.q
  BY <1>1, <1>6
<1>12. Frames(c + 1, c + 1)'
  BY <1>6, <1>7, <1>8, <1>10, <1>11 DEF Frames
<1> QED
  BY <1>1, <1>9, <1>12

\* What the page adds to the answer it is giving.
LEMMA SendMore ==
  ASSUME toServer \in Seq(ToServer), NEW m \in ToServer, Send(m), Open, UNCHANGED server, HeardSoFar \in Nat,
         NEW e \in 0..Len(toServer), NEW c \in 0..Len(toServer), Frames(e, c), c = Len(toServer), ~Unended(e),
         ~Refused', m.seq = server.q, server.pc \in InTurn, ~Behind, ~Behind', hook'.take = hook.take,
         \A i \in (e + 1)..c : toServer[i].type = "audio",
         \/ m.type = "audio" /\ m.take = hook.take /\ m.size = HeardSoFar + c - e + 1
         \/ m.type = "audio.end" /\ m.take = hook.take /\ m.size = HeardSoFar + c - e
         \/ m.type = "answer.text" /\ e = c /\ HeardSoFar = 0
  PROVE  /\ Frames(e, c + 1)' /\ ~Unended(e)'
         /\ toServer'[c + 1] = m /\ \A i \in (e + 1)..c : toServer'[i].type = "audio"
         /\ c + 1 \in 0..Len(toServer') /\ e \in 0..Len(toServer')
<1>1. /\ Len(toServer') = c + 1 /\ DOMAIN toServer' = 1..(c + 1) /\ DOMAIN toServer = 1..c
      /\ \A i \in 1..c : toServer'[i] = toServer[i]
      /\ toServer'[c + 1] = m /\ c \in Nat /\ e \in Nat /\ e <= c
  BY Sent DEF Frames
<1>2. HeardSoFar' = HeardSoFar
  BY SameAudio
<1>3. ~Unended(e)' /\ (~server.discarding => e = 0)
  BY <1>1 DEF Unended, Frames
<1>4. \A i \in 1..(c + 1) : i \in 1..c \/ i = c + 1
  BY <1>1
<1>5. \A i \in DOMAIN toServer' : (toServer'[i].type \in Content <=> i <= c + 1)
  <2>1. m.type \in Content
    BY DEF Content
  <2>2. \A i \in 1..c : toServer[i].type \in Content
    BY <1>1 DEF Frames
  <2> QED
    BY <1>1, <1>4, <2>1, <2>2
<1>6. \A i \in 1..(c + 1) : toServer'[i].seq = server'.q
  <2>1. \A i \in 1..c : toServer[i].seq = server.q
    BY DEF Frames
  <2> QED
    BY <1>1, <1>4, <2>1
<1>7. \A i \in 1..e : toServer'[i].type = "audio" \/ (toServer'[i].type = "audio.end" /\ i = e)
  BY SMTT(40), <1>1 DEF Frames
<1>8. \A i \in (e + 1)..c :
        /\ toServer'[i].type = "audio"
        /\ toServer'[i].take = hook'.take /\ toServer'[i].size = HeardSoFar' + i - e
  BY SMTT(40), <1>1, <1>2 DEF Frames
<1>9. \A i \in (e + 1)..(c + 1) :
        \/ /\ toServer'[i].type = "audio"
           /\ toServer'[i].take = hook'.take /\ toServer'[i].size = HeardSoFar' + i - e
        \/ /\ toServer'[i].type = "audio.end" /\ i = c + 1
           /\ toServer'[i].take = hook'.take /\ toServer'[i].size = HeardSoFar' + i - e - 1
        \/ toServer'[i].type = "answer.text" /\ i = c + 1 /\ i = e + 1 /\ HeardSoFar' = 0
  <2>1. \A i \in (e + 1)..(c + 1) : i \in (e + 1)..c \/ i = c + 1
    BY <1>1
  <2>2. HeardSoFar + c - e + 1 = HeardSoFar + (c + 1) - e /\ HeardSoFar + c - e = HeardSoFar + (c + 1) - e - 1
    BY <1>1
  <2>3. /\ \/ m.type = "audio" /\ m.take = hook'.take /\ m.size = HeardSoFar' + (c + 1) - e
           \/ m.type = "audio.end" /\ m.take = hook'.take /\ m.size = HeardSoFar' + (c + 1) - e - 1
           \/ m.type = "answer.text" /\ c + 1 = e + 1 /\ HeardSoFar' = 0
        /\ toServer'[c + 1] = m
    BY <1>1, <1>2, <2>2
  <2>4. \A i \in (e + 1)..(c + 1) : i \in (e + 1)..c =>
          /\ toServer'[i].type = "audio"
          /\ toServer'[i].take = hook'.take /\ toServer'[i].size = HeardSoFar' + i - e
    BY <1>8
  <2> QED
    BY Zenon, <2>1, <2>3, <2>4
<1>10. e <= c + 1 /\ c + 1 <= Len(toServer') /\ c + 1 > 0
  BY <1>1
<1>11. server'.pc \in InTurn /\ ~Behind' /\ (~server'.discarding => e = 0)
  BY <1>3
<1>12. Frames(e, c + 1)'
  BY <1>3, <1>5, <1>6, <1>7, <1>9, <1>10, <1>11 DEF Frames
<1> QED
  BY <1>1, <1>3, <1>8, <1>12

\* What a message that is no part of an answer leaves as it is.
LEMMA SendControl ==
  ASSUME toServer \in Seq(ToServer), UNCHANGED server, hook'.take = hook.take,
         Refused' => Refused, Behind' => Behind,
         NEW m \in ToServer, m.type \notin Content,
         UNCHANGED toServer \/ (Open /\ Send(m)),
         NEW e \in 0..Len(toServer), NEW c \in 0..Len(toServer), Frames(e, c)
  PROVE  /\ Frames(e, c)' /\ (Unended(e)' <=> Unended(e))
         /\ e \in 0..Len(toServer') /\ c \in 0..Len(toServer')
<1>1. /\ Len(toServer) \in Nat /\ Len(toServer') \in Nat /\ DOMAIN toServer' = 1..Len(toServer')
      /\ DOMAIN toServer = 1..Len(toServer)
      /\ Len(toServer) <= Len(toServer') /\ e \in Nat /\ c \in Nat /\ e <= c /\ c <= Len(toServer)
      /\ \A i \in 1..Len(toServer) : toServer'[i] = toServer[i]
      /\ \A i \in 1..Len(toServer') : i \in 1..Len(toServer) \/ (toServer'[i] = m /\ i > Len(toServer))
  <2>1. CASE UNCHANGED toServer
    BY <2>1 DEF Frames
  <2>2. CASE Open /\ Send(m)
    <3>1. /\ Len(toServer') = Len(toServer) + 1 /\ DOMAIN toServer' = 1..(Len(toServer) + 1)
          /\ \A i \in 1..Len(toServer) : toServer'[i] = toServer[i]
          /\ toServer'[Len(toServer) + 1] = m
      BY <2>2, Sent
    <3>2. \A i \in 1..(Len(toServer) + 1) : i \in 1..Len(toServer) \/ i = Len(toServer) + 1
      OBVIOUS
    <3> QED
      BY <3>1, <3>2 DEF Frames
  <2> QED
    BY <2>1, <2>2
<1>2. HeardSoFar' = HeardSoFar /\ (Unended(e)' <=> Unended(e))
  BY <1>1, SameAudio DEF Unended
<1>3. \A i \in 1..c : toServer'[i] = toServer[i] /\ i \in DOMAIN toServer
  BY <1>1
<1>4. \A i \in DOMAIN toServer' : (toServer'[i].type \in Content <=> i <= c)
  BY <1>1 DEF Frames
<1>5. /\ \A i \in 1..c : toServer'[i].seq = server'.q
      /\ \A i \in 1..e : toServer'[i].type = "audio" \/ (toServer'[i].type = "audio.end" /\ i = e)
  BY <1>1, <1>3 DEF Frames
<1>6. \A i \in (e + 1)..c :
       \/ /\ toServer'[i].type = "audio"
          /\ toServer'[i].take = hook'.take /\ toServer'[i].size = HeardSoFar' + i - e
       \/ /\ toServer'[i].type = "audio.end" /\ i = c
          /\ toServer'[i].take = hook'.take /\ toServer'[i].size = HeardSoFar' + i - e - 1
       \/ toServer'[i].type = "answer.text" /\ i = c /\ i = e + 1 /\ HeardSoFar' = 0
  <2>1. \A i \in (e + 1)..c : toServer'[i] = toServer[i]
    BY <1>1
  <2> QED
    BY <1>2, <2>1 DEF Frames
<1>7. c > 0 => server'.pc \in InTurn /\ ~Behind'
  BY DEF Frames
<1>8. /\ ~server'.discarding => e = 0
      /\ Unended(e)' => e = c
      /\ Refused' => e = c
      /\ e <= c /\ c <= Len(toServer')
  BY <1>1, <1>2 DEF Frames
<1>9. Frames(e, c)'
  BY <1>4, <1>5, <1>6, <1>7, <1>8 DEF Frames
<1> QED
  BY <1>1, <1>2, <1>9

\* A frame of the answer, from an open mic.
LEMMA SpeakChain ==
  ASSUME IInv, Opening, Rendered, OneError, Chain, Speak
  PROVE  OneError' /\ Chain'
<1>a. page \in Shown(0..Length) /\ hook \in Hook /\ hook.sent + 1 \in 0..MaxSpoken
  BY SMTT(40), ChainTypes, LiveAssumption DEF Speak
<1>1. /\ UNCHANGED <<page, toPage, server>> /\ hook'.lagged = hook.lagged
      /\ hook'.take = hook.take /\ hook'.sent = hook.sent + 1 /\ hook'.mic = hook.mic /\ hook'.sock = hook.sock
      /\ hook'.waits = hook.waits /\ hook'.blocked = hook.blocked
      /\ hook.mic /\ Open
  BY <1>a DEF Speak, Hook, Open
<1>2. /\ Refused' = Refused /\ TextComes' = TextComes /\ AudioEndComes' = AudioEndComes
      /\ CompleteComes' = CompleteComes /\ Behind' = Behind /\ HeardSoFar' = HeardSoFar
  BY <1>1, SameToPage, SameAudio
<1>3. OneError'
  BY <1>1, <1>2 DEF OneError
<1>4. ASSUME Calm
      PROVE  Script' /\ Linked'
  <2>1. Script /\ Linked
    BY <1>4 DEF Chain
  <2>2. PICK e \in 0..Len(toServer), c \in 0..Len(toServer) : Frames(e, c) /\ Place(e, c)
    BY <1>1, <2>1 DEF Linked
  <2>3. page.phase = "recording" /\ server.pc \in InTurn /\ page.seq = server.q /\ c = Len(toServer)
    BY <1>1, <2>2 DEF Place, Lead, InTurn
  <2>4. ~Behind /\ (Refused => Unended(e)) /\ (Unended(e) => Refused)
    BY <2>1, <2>2, <2>3 DEF Script, NothingHeard, Place, Recording, Lead, Over, Finished
  <2>5. Script'
    <3>1. HeardSoFar = 0 \/ hook'.take = hook.take
      BY <1>1
    <3> QED
      BY <1>1, <1>4, <2>1, <2>3, <3>1, ScriptMove
  <2>6. PICK m \in ToServer : /\ Send(m) /\ m.type = "audio" /\ m.seq = page.seq /\ m.take = hook.take
                              /\ m.size = hook.sent + 1
    <3>1. Frame("audio", page.seq, hook.take, hook.sent + 1) \in ToServer
      BY <1>a, ChainTypes, FrameTypes
    <3> QED
      BY <3>1 DEF Speak, Frame
  <2>7. toServer \in Seq(ToServer) /\ HeardSoFar \in Nat /\ hook.sent \in Nat /\ c \in Nat /\ e \in Nat
    BY <2>3, ChainTypes
  <2>8. Waiting(e, c)' /\ Sending(e, c)' /\ Waiting(c + 1, c + 1)' /\ Sending(c + 1, c + 1)'
        /\ Waiting(e, c + 1)' /\ Sending(e, c + 1)'
    BY <1>1, <2>3 DEF Waiting, Sending
  <2>9. CASE Unended(e)
    <3>1. Frames(c + 1, c + 1)' /\ Unended(c + 1)' /\ c + 1 \in 0..Len(toServer')
      BY <1>1, <1>2, <2>2, <2>3, <2>4, <2>6, <2>7, <2>9, SendRest
    <3>2. c + 1 = Len(toServer')
      BY <1>1, <2>3, <2>6, <2>7, Sent
    <3>3. Lead(c + 1, c + 1)'
      BY <1>1, <1>2, <2>3, <2>4, <2>9, <3>2 DEF Lead
    <3>4. Recording(c + 1, c + 1)'
      <4>1. ((c + 1) + 1)..(c + 1) = {}
        BY <2>7
      <4> QED
        BY <3>1, <4>1 DEF Recording
    <3> QED
      BY <2>5, <2>8, <3>1, <3>3, <3>4 DEF Linked, Place
  <2>10. CASE ~Unended(e)
    <3>1. /\ \A i \in (e + 1)..c : toServer[i].type = "audio"
          /\ HeardSoFar + c - e = hook.sent /\ ~Refused /\ ~Refused'
      BY <1>2, <2>2, <2>3, <2>4, <2>10 DEF Place, Recording
    <3>2. /\ Frames(e, c + 1)' /\ ~Unended(e)'
          /\ toServer'[c + 1] = m /\ \A i \in (e + 1)..c : toServer'[i].type = "audio"
          /\ c + 1 \in 0..Len(toServer') /\ e \in 0..Len(toServer')
      <4>1. m.size = HeardSoFar + c - e + 1
        BY <2>6, <3>1
      <4> QED
        BY ZenonT(40), <1>1, <1>2, <2>2, <2>3, <2>4, <2>6, <2>7, <2>10, <3>1, <4>1, SendMore
    <3>3. c + 1 = Len(toServer')
      BY <1>1, <2>3, <2>6, <2>7, Sent
    <3>4. Lead(e, c + 1)'
      BY <1>1, <1>2, <2>3, <3>2, <3>3 DEF Lead
    <3>5. Recording(e, c + 1)'
      <4>1. \A i \in (e + 1)..(c + 1) : i \in (e + 1)..c \/ i = c + 1
        BY <2>7
      <4>2. HeardSoFar + (c + 1) - e = hook.sent + 1
        BY <2>7, <3>1
      <4> QED
        BY <1>1, <1>2, <2>6, <3>1, <3>2, <4>1, <4>2 DEF Recording
    <3> QED
      BY <2>5, <2>8, <3>2, <3>4, <3>5 DEF Linked, Place
  <2> QED
    BY <2>9, <2>10
<1>5. Calm' => Calm
  BY <1>1 DEF Calm
<1> QED
  BY <1>3, <1>4, <1>5 DEF Chain

\* The take is over: its frames are counted.
LEMMA StopChain ==
  ASSUME IInv, Opening, Rendered, OneError, Chain, ~hook'.lagged, StopRecording \/ TimerStopsRecording
  PROVE  OneError' /\ Chain'
<1>a. page \in Shown(0..Length) /\ hook \in Hook
  BY ChainTypes
<1>1. /\ page'.phase = AnswerSent(page).phase /\ page'.seq = page.seq /\ hook'.lagged = hook.lagged
      /\ hook'.take = hook.take /\ hook'.mic = FALSE /\ hook'.sock = hook.sock
      /\ UNCHANGED <<toPage, server>>
      /\ hook.sock # "left" /\ hook.seen = "recording" /\ EndOfTake
  <2>1. Stopped \in Hook /\ Stopped.take = hook.take /\ Stopped.mic = FALSE /\ Stopped.sock = hook.sock
        /\ Stopped.lagged = hook.lagged
    BY <1>a DEF Stopped, Hook
  <2>2. CASE StopRecording
    BY <1>a, <2>1, <2>2, Moves DEF StopRecording, Clicked, Hook
  <2>3. CASE TimerStopsRecording
    BY <1>a, <2>1, <2>3, Moves DEF TimerStopsRecording, Happened, Hook
  <2> QED
    BY <2>2, <2>3
<1>2. /\ Refused' = Refused /\ TextComes' = TextComes /\ AudioEndComes' = AudioEndComes
      /\ CompleteComes' = CompleteComes /\ Behind' = Behind /\ HeardSoFar' = HeardSoFar
  BY <1>1, SameToPage, SameAudio
<1>3. ~hook.lagged /\ page.phase = "recording" /\ page'.phase = "sending"
  BY <1>a, <1>1, Moves DEF Rendered
<1>4. OneError'
  BY <1>1, <1>2, <1>3 DEF OneError, Mendable
<1>5. ASSUME Calm
      PROVE  Script' /\ Linked'
  <2>1. Script /\ Linked
    BY <1>5 DEF Chain
  <2>2. Open /\ server.pc # "admit"
    BY <1>1, <1>3, <1>5, LiveIsOpen DEF Over, Finished
  <2>3. PICK e \in 0..Len(toServer), c \in 0..Len(toServer) : Frames(e, c) /\ Place(e, c)
    BY <2>1, <2>2 DEF Linked
  <2>4. server.pc \in InTurn /\ page.seq = server.q /\ c = Len(toServer)
    BY <1>3, <2>2, <2>3 DEF Place, Lead
  <2>5. ~Behind /\ (Refused => Unended(e)) /\ (Unended(e) => Refused)
    BY <1>3, <2>1, <2>3 DEF Script, NothingHeard, Place, Recording, Lead, Over, Finished
  <2>6. Script'
    BY <1>1, <1>3, <1>5, <2>1, <2>2, ScriptMove
  <2>7. PICK m \in ToServer : /\ Send(m) /\ m.type = "audio.end" /\ m.seq = page.seq /\ m.take = hook.take
                              /\ m.size = hook.sent
    <3>1. Frame("audio.end", page.seq, hook.take, hook.sent) \in ToServer
      BY ChainTypes, FrameTypes
    <3> QED
      BY <1>1, <3>1 DEF EndOfTake, Frame
  <2>8. toServer \in Seq(ToServer) /\ HeardSoFar \in Nat /\ hook.sent \in Nat /\ c \in Nat /\ e \in Nat
    BY <2>4, ChainTypes
  <2>9. Len(toServer') = c + 1 /\ toServer'[c + 1] = m
    BY <2>2, <2>4, <2>7, <2>8, Sent
  <2>10. /\ Waiting(c + 1, c + 1)' /\ Recording(c + 1, c + 1)'
         /\ Waiting(e, c + 1)' /\ Recording(e, c + 1)'
    BY <1>3 DEF Waiting, Recording
  <2>11. CASE Unended(e)
    <3>1. Frames(c + 1, c + 1)' /\ ~Unended(c + 1)' /\ c + 1 \in 0..Len(toServer')
      BY <1>1, <1>2, <2>2, <2>3, <2>4, <2>5, <2>7, <2>8, <2>11, SendRest
    <3>2. Lead(c + 1, c + 1)' /\ Sending(c + 1, c + 1)'
      BY <1>1, <1>2, <1>3, <2>4, <2>5, <2>9, <2>11, <3>1 DEF Lead, Sending
    <3> QED
      BY <2>6, <2>10, <3>1, <3>2 DEF Linked, Place
  <2>12. CASE ~Unended(e)
    <3>1. /\ \A i \in (e + 1)..c : toServer[i].type = "audio"
          /\ HeardSoFar + c - e = hook.sent /\ ~Refused /\ ~Refused'
      BY <1>2, <1>3, <2>3, <2>5, <2>12 DEF Place, Recording
    <3>2. Frames(e, c + 1)' /\ ~Unended(e)' /\ c + 1 \in 0..Len(toServer') /\ e \in 0..Len(toServer')
      <4>1. m.size = HeardSoFar + c - e
        BY <2>7, <3>1
      <4> QED
        BY <1>1, <1>2, <2>2, <2>3, <2>4, <2>5, <2>7, <2>8, <2>12, <3>1, <4>1, SendMore
    <3>3. e < c + 1
      BY <2>3, <2>8 DEF Frames
    <3>4. Lead(e, c + 1)' /\ Sending(e, c + 1)'
      BY <1>1, <1>2, <1>3, <2>4, <2>7, <2>9, <3>2, <3>3 DEF Lead, Sending
    <3> QED
      BY <2>6, <2>10, <3>2, <3>4 DEF Linked, Place
  <2> QED
    BY <2>11, <2>12
<1>6. Calm' => Calm
  BY <1>1 DEF Calm
<1> QED
  BY <1>4, <1>5, <1>6 DEF Chain

\* A text is an answer of one message.
LEMMA SendTextChain ==
  ASSUME IInv, Opening, Rendered, OneError, Chain, SendText
  PROVE  OneError' /\ Chain'
<1>a. page \in Shown(0..Length) /\ hook \in Hook
  BY ChainTypes
<1>1. /\ page'.phase = AnswerSent(page).phase /\ page'.seq = page.seq /\ hook'.lagged = hook.lagged
      /\ hook'.take = hook.take /\ hook'.mic = hook.mic /\ hook'.sock = hook.sock
      /\ UNCHANGED <<toPage, server>>
      /\ hook.sock # "left" /\ hook.seen = "answering"
  BY <1>a, Moves DEF SendText, Clicked, Hook
<1>2. /\ Refused' = Refused /\ TextComes' = TextComes /\ AudioEndComes' = AudioEndComes
      /\ CompleteComes' = CompleteComes /\ Behind' = Behind /\ HeardSoFar' = HeardSoFar
  BY <1>1, SameToPage, SameAudio
<1>3. ~hook.lagged => page.phase = "answering" /\ page'.phase = "sending" /\ ~Refused
  <2>1. ~hook.lagged => page.phase = "answering"
    BY <1>1 DEF Rendered
  <2> QED
    BY <1>a, <1>1, <2>1, Moves DEF OneError, Over, Finished
<1>4. OneError'
  BY <1>1, <1>2, <1>3 DEF OneError
<1>5. ASSUME Calm
      PROVE  Script' /\ Linked'
  <2>1. Script /\ Linked /\ page.phase = "answering" /\ page'.phase = "sending" /\ ~Refused /\ ~Refused'
    BY <1>2, <1>3, <1>5 DEF Chain, Calm
  <2>2. Open /\ server.pc # "admit"
    BY <1>1, <1>5, <2>1, LiveIsOpen DEF Over, Finished
  <2>3. PICK e \in 0..Len(toServer), c \in 0..Len(toServer) : Frames(e, c) /\ Place(e, c)
    BY <2>1, <2>2 DEF Linked
  <2>4. /\ server.pc \in InTurn /\ page.seq = server.q /\ c = Len(toServer)
        /\ e = c /\ HeardSoFar = 0 /\ ~Unended(e) /\ ~hook.mic
    BY <2>1, <2>2, <2>3 DEF Place, Lead, Waiting
  <2>5. ~Behind
    BY <2>1 DEF Script, NothingHeard, Over, Finished
  <2>6. Script'
    BY <1>1, <1>5, <2>1, <2>2, ScriptMove
  <2>7. PICK m \in ToServer : Send(m) /\ m.type = "answer.text" /\ m.seq = page.seq
    <3>1. 0 \in 0..MaxTakes /\ 0 \in 0..MaxSpoken
      BY LiveAssumption
    <3>2. Frame("answer.text", page.seq, 0, 0) \in ToServer
      BY <3>1, ChainTypes, FrameTypes
    <3> QED
      BY <3>2 DEF SendText, Frame
  <2>8. toServer \in Seq(ToServer) /\ HeardSoFar \in Nat /\ c \in Nat /\ e \in Nat
    BY <2>4, ChainTypes
  <2>9. Len(toServer') = c + 1 /\ toServer'[c + 1] = m
    BY <2>2, <2>4, <2>7, <2>8, Sent
  <2>10. (e + 1)..c = {} /\ e < c + 1
    BY <2>4, <2>8
  <2>11. Frames(e, c + 1)' /\ ~Unended(e)' /\ c + 1 \in 0..Len(toServer') /\ e \in 0..Len(toServer')
    <3>1. \A i \in (e + 1)..c : toServer[i].type = "audio"
      BY <2>10
    <3> QED
      BY <1>1, <1>2, <2>1, <2>2, <2>3, <2>4, <2>5, <2>7, <2>8, <3>1, SendMore
  <2>12. Place(e, c + 1)'
    BY <1>1, <1>2, <2>1, <2>4, <2>7, <2>9, <2>10, <2>11 DEF Place, Lead, Waiting, Recording, Sending
  <2> QED
    BY <2>6, <2>11, <2>12 DEF Linked
<1>6. Calm' => Calm
  BY <1>1 DEF Calm
<1> QED
  BY <1>4, <1>5, <1>6 DEF Chain

\* The request to end follows whatever was sent.
LEMMA EndChain ==
  ASSUME IInv, Opening, Rendered, OneError, Chain, End
  PROVE  OneError' /\ Chain'
<1>a. page \in Shown(0..Length) /\ hook \in Hook
  BY ChainTypes
<1>1. /\ page'.phase = EndRequested(page).phase /\ page'.seq = page.seq /\ hook'.lagged = hook.lagged
      /\ hook'.take = hook.take /\ hook'.mic = (hook.mic /\ hook.seen # "recording") /\ hook'.sock = hook.sock
      /\ UNCHANGED <<toPage, server>>
      /\ hook.sock # "left" /\ hook.seen \notin Finished \cup {"ending"}
  BY <1>a, Moves DEF End, Clicked, Hook
<1>2. /\ Refused' = Refused /\ TextComes' = TextComes /\ AudioEndComes' = AudioEndComes
      /\ CompleteComes' = CompleteComes /\ Behind' = Behind /\ HeardSoFar' = HeardSoFar
  BY <1>1, SameToPage, SameAudio
<1>3. ~hook.lagged => page.phase \notin Finished /\ page'.phase = "ending" /\ hook.seen = page.phase
  BY <1>a, <1>1, Moves DEF Rendered
<1>4. OneError'
  BY <1>1, <1>2, <1>3 DEF OneError, Over, Mendable
<1>5. ASSUME Calm
      PROVE  Script' /\ Linked'
  <2>1. Script /\ Linked /\ page.phase \notin Finished /\ page'.phase = "ending" /\ hook.seen = page.phase
    BY <1>3, <1>5 DEF Chain, Calm
  <2>2. PICK e \in 0..Len(toServer), c \in 0..Len(toServer) : Frames(e, c) /\ (Open => Place(e, c))
    BY <2>1 DEF Linked
  <2>3. Script'
    BY <1>1, <1>5, <2>1, ScriptMove
  <2>4. /\ Control("session.end") \in ToServer /\ Control("session.end").type \notin Content
        /\ UNCHANGED toServer \/ (Open /\ Send(Control("session.end")))
    <3>1. /\ Control("session.end").type = "session.end"
          /\ Control("session.end") \in ToServer
      BY LiveAssumption DEF Control, Frame, ToServer
    <3> QED
      BY <3>1 DEF End, Send, Open, Content
  <2>5. /\ Frames(e, c)' /\ e \in 0..Len(toServer') /\ c \in 0..Len(toServer')
    BY <1>1, <1>2, <2>2, <2>4, SendControl, ChainTypes
  <2>6. Open' => Place(e, c)'
    <3>1. Open' => (hook.mic => page.phase = "recording")
      BY <1>1, <2>2 DEF Place, Lead, Open
    <3>2. Open' => ~hook'.mic
      BY <1>1, <2>1, <3>1, ChainTypes DEF Hook
    <3> QED
      BY <2>1, <3>2 DEF Place, Lead, Waiting, Recording, Sending
  <2> QED
    BY <2>3, <2>5, <2>6 DEF Linked
<1>6. Calm' => Calm
  BY <1>1 DEF Calm
<1> QED
  BY <1>4, <1>5, <1>6 DEF Chain

\* When the page hangs up, the first n messages of what it sent arrive, and
\* nothing that was on its way to the page.
LEMMA HangChain ==
  ASSUME IInv, Calm, Script, Linked, UNCHANGED server, toPage' = <<>>, hook'.take = hook.take,
         hook'.sock \in {"closed", "left"}, hook'.sock = "closed" => page'.phase \in Finished,
         page'.phase = page.phase \/ page'.phase \in Finished,
         toServer' \in Seq(ToServer), NEW n \in 0..Len(toServer), Len(toServer') \in {n, n + 1},
         \A i \in 1..n : toServer'[i] = toServer[i],
         Len(toServer') = n + 1 => toServer'[n + 1].type \notin Content
  PROVE  Script' /\ Linked'
<1>1. ~Refused' /\ ~Behind' /\ ~Open' /\ HeardSoFar' = HeardSoFar
  BY SameAudio DEF Refused, Behind, TextComes, CompleteComes, Open
<1>2. Script'
  <2>1. NewsOK'
    BY DEF NewsOK
  <2>2. SocketOK'
    BY DEF Script, SocketOK, Open, Over, Finished
  <2>3. NothingHeard'
    BY <1>1 DEF Script, NothingHeard
  <2>4. AudioOK'
    BY <1>1 DEF Script, AudioOK
  <2> QED
    BY <2>1, <2>2, <2>3, <2>4 DEF Script
<1>3. PICK e \in 0..Len(toServer), c \in 0..Len(toServer) : Frames(e, c)
  BY DEF Linked
<1>4. PICK c2 : c2 = IF c <= n THEN c ELSE n
  OBVIOUS
<1>5. PICK e2 : e2 = IF e <= n THEN e ELSE n
  OBVIOUS
<1>d. DOMAIN toServer = 1..Len(toServer) /\ DOMAIN toServer' = 1..Len(toServer')
  BY ChainTypes
<1>n. n \in Nat /\ e \in Nat /\ c \in Nat /\ Len(toServer) \in Nat /\ e <= c /\ n <= Len(toServer)
  BY <1>3, ChainTypes DEF Frames
<1>l. PICK l : l = Len(toServer')
  OBVIOUS
<1>6. /\ e2 \in Nat /\ c2 \in Nat /\ e2 <= c2 /\ c2 <= c /\ c2 <= n /\ e2 <= e
      /\ l \in Nat /\ n <= l /\ (l = n \/ l = n + 1)
  BY <1>n, <1>l, <1>4, <1>5
<1>7. \A i \in DOMAIN toServer' : (toServer'[i].type \in Content <=> i <= c2)
  <2>1. \A i \in 1..n : (toServer'[i].type \in Content <=> i <= c2)
    <3>1. \A i \in 1..n : (toServer[i].type \in Content <=> i <= c)
      <4>1. \A i \in DOMAIN toServer : (toServer[i].type \in Content <=> i <= c)
        BY <1>3 DEF Frames
      <4>2. \A i \in 1..n : i \in DOMAIN toServer
        BY <1>n, <1>d
      <4> QED
        BY <4>1, <4>2
    <3>2. \A i \in 1..n : i <= c2 <=> i <= c
      BY <1>4, <1>6, <1>n
    <3> QED
      BY <3>1, <3>2
  <2>2. \A i \in 1..l : i \in 1..n \/ (i = n + 1 /\ l = n + 1)
    BY <1>6, <1>n
  <2>3. ~(n + 1 <= c2)
    BY <1>6, <1>n
  <2> QED
    BY <1>d, <1>l, <2>1, <2>2, <2>3
<1>8. \A i \in 1..c2 : toServer'[i] = toServer[i] /\ i \in 1..c
  BY <1>6, <1>n, <1>l
<1>9. /\ \A i \in 1..c2 : toServer'[i].seq = server'.q
      /\ c2 > 0 => server'.pc \in InTurn /\ ~Behind'
  <2>1. \A i \in 1..c : toServer[i].seq = server.q
    BY <1>3 DEF Frames
  <2>2. c > 0 => server.pc \in InTurn
    BY <1>3 DEF Frames
  <2> QED
    BY <1>1, <1>6, <1>n, <1>l, <1>8, <2>1, <2>2
<1>10. \A i \in 1..e2 : toServer'[i].type = "audio" \/ (toServer'[i].type = "audio.end" /\ i = e2)
  <2>1. \A i \in 1..e2 : i \in 1..e /\ i \in 1..c2 /\ (i = e => i = e2)
    BY <1>5, <1>6, <1>n, <1>n
  <2> QED
    BY <1>3, <1>8, <2>1 DEF Frames
<1>11. \A i \in (e2 + 1)..c2 :
       \/ /\ toServer'[i].type = "audio"
          /\ toServer'[i].take = hook'.take /\ toServer'[i].size = HeardSoFar' + i - e2
       \/ /\ toServer'[i].type = "audio.end" /\ i = c2
          /\ toServer'[i].take = hook'.take /\ toServer'[i].size = HeardSoFar' + i - e2 - 1
       \/ toServer'[i].type = "answer.text" /\ i = c2 /\ i = e2 + 1 /\ HeardSoFar' = 0
  <2>1. \A i \in (e2 + 1)..c2 : e2 = e /\ i \in (e + 1)..c /\ i \in 1..c2 /\ (i = c => i = c2)
    BY <1>4, <1>5, <1>6, <1>n, <1>n
  <2>2. \A i \in (e + 1)..c :
       \/ /\ toServer[i].type = "audio"
          /\ toServer[i].take = hook.take /\ toServer[i].size = HeardSoFar + i - e
       \/ /\ toServer[i].type = "audio.end" /\ i = c
          /\ toServer[i].take = hook.take /\ toServer[i].size = HeardSoFar + i - e - 1
       \/ toServer[i].type = "answer.text" /\ i = c /\ i = e + 1 /\ HeardSoFar = 0
    BY <1>3 DEF Frames
  <2>3. \A i \in (e2 + 1)..c2 : toServer'[i] = toServer[i]
    BY <1>8, <2>1
  <2> QED
    BY <1>1, <2>1, <2>2, <2>3
<1>12. Unended(e2)' => e2 = c2
  <2>1. CASE e <= n
    <3>1. e2 = e
      BY <1>5, <2>1
    <3>2. Unended(e)' => Unended(e)
      BY <1>6, <2>1 DEF Unended
    <3>3. Unended(e) => e = c
      BY <1>3 DEF Frames
    <3> QED
      BY <1>4, <2>1, <3>1, <3>2, <3>3
  <2>2. CASE ~(e <= n)
    BY <1>4, <1>5, <1>6, <1>n, <2>2
  <2> QED
    BY <2>1, <2>2
<1>13. ~server'.discarding => e2 = 0
  BY <1>3, <1>5, <1>6 DEF Frames
<1>14. Frames(e2, c2)'
  <2>1. c2 <= Len(toServer')
    BY <1>6, <1>n, <1>l
  <2> QED
    BY <1>1, <1>6, <1>n, <1>l, <1>7, <1>9, <1>10, <1>11, <1>12, <1>13, <2>1 DEF Frames
<1>15. e2 \in 0..Len(toServer') /\ c2 \in 0..Len(toServer')
  BY <1>6, <1>n, <1>l
<1> QED
  BY <1>1, <1>2, <1>14, <1>15 DEF Linked

\* What the other end is left with.
LEMMA HangsUp ==
  ASSUME IInv, Opening, Rendered, OneError, Chain, EndTimeout \/ LeavePage \/ ConnectionLost
  PROVE  OneError' /\ Chain'
<1>a. page \in Shown(0..Length) /\ hook \in Hook /\ toServer \in Seq(ToServer)
  BY ChainTypes
<1>b. /\ Control("disconnect") \in ToServer /\ Control("disconnect").type = "disconnect"
  BY LiveAssumption DEF Control, Frame, ToServer
<1>1. /\ UNCHANGED server /\ toPage' = <<>> /\ hook'.take = hook.take /\ hook'.lagged = hook.lagged
      /\ hook'.sock \in {"closed", "left"} /\ (hook'.sock = "closed" => page'.phase \in Finished)
      /\ page'.phase = page.phase \/ page'.phase \in Finished
  <2>1. CASE EndTimeout
    BY <1>a, <2>1, Moves DEF EndTimeout, Hangs, Hook
  <2>2. CASE LeavePage
    BY <1>a, <2>2 DEF LeavePage, Hangs, Hook
  <2>3. CASE ConnectionLost
    BY <1>a, <2>3, Moves DEF ConnectionLost, Hook
  <2> QED
    BY <2>1, <2>2, <2>3
<1>2. \E n \in 0..Len(toServer) :
        /\ toServer' \in Seq(ToServer) /\ Len(toServer') \in {n, n + 1}
        /\ \A i \in 1..n : toServer'[i] = toServer[i]
        /\ Len(toServer') = n + 1 => toServer'[n + 1].type = "disconnect"
  <2>1. ASSUME NEW n \in 0..Len(toServer), toServer' = Append(SubSeq(toServer, 1, n), Control("disconnect"))
        PROVE  /\ toServer' \in Seq(ToServer) /\ Len(toServer') = n + 1
               /\ \A i \in 1..n : toServer'[i] = toServer[i]
               /\ toServer'[n + 1].type = "disconnect"
    <3>1. PICK s : s = SubSeq(toServer, 1, n)
      OBVIOUS
    <3>2. s \in Seq(ToServer) /\ Len(s) = n /\ \A i \in 1..n : s[i] = toServer[i]
      BY <1>a, <3>1
    <3> QED
      BY <1>b, <2>1, <3>1, <3>2, AppendFacts
  <2>2. CASE UNCHANGED toServer
    <3>1. Len(toServer) \in 0..Len(toServer)
      BY <1>a
    <3>2. Len(toServer) # Len(toServer) + 1
      BY <1>a
    <3> QED
      BY <1>a, <2>2, <3>1, <3>2
  <2>3. CASE toServer' = <<>>
    <3>1. 0 \in 0..Len(toServer) /\ Len(toServer') = 0 /\ toServer' \in Seq(ToServer)
      BY <1>a, <2>3
    <3>2. \A i \in 1..0 : toServer'[i] = toServer[i]
      OBVIOUS
    <3> QED
      BY <3>1, <3>2
  <2>4. CASE toServer' = Append(toServer, Control("disconnect"))
    <3>1. PICK n : n = Len(toServer)
      OBVIOUS
    <3>2. n \in 0..Len(toServer) /\ toServer = SubSeq(toServer, 1, n)
      BY <1>a, <3>1
    <3>3. toServer' = Append(SubSeq(toServer, 1, n), Control("disconnect"))
      BY <2>4, <3>2
    <3> QED
      BY <2>1, <3>2, <3>3
  <2>5. CASE EndTimeout \/ LeavePage
    BY <2>2, <2>4, <2>5 DEF EndTimeout, LeavePage, Hangs, Send
  <2>6. CASE ConnectionLost
    <3>1. toServer' = <<>> \/ \E n \in 0..Len(toServer) :
            toServer' = Append(SubSeq(toServer, 1, n), Control("disconnect"))
      BY <2>6 DEF ConnectionLost
    <3> QED
      BY <2>1, <2>3, <3>1
  <2> QED
    BY <2>5, <2>6
<1>3. OneError'
  BY <1>1 DEF OneError, Refused
<1>4. Calm => Script' /\ Linked'
  <2> SUFFICES ASSUME Calm PROVE Script' /\ Linked'
    OBVIOUS
  <2>1. Script /\ Linked
    BY DEF Chain
  <2>2. PICK n \in 0..Len(toServer) :
        /\ toServer' \in Seq(ToServer) /\ Len(toServer') \in {n, n + 1}
        /\ \A i \in 1..n : toServer'[i] = toServer[i]
        /\ Len(toServer') = n + 1 => toServer'[n + 1].type = "disconnect"
    BY <1>2
  <2>3. Len(toServer') = n + 1 => toServer'[n + 1].type \notin Content
    BY <2>2 DEF Content
  <2> QED
    BY <1>1, <2>1, <2>2, <2>3, HangChain
<1>5. Calm' => Calm
  BY <1>1 DEF Calm
<1> QED
  BY <1>3, <1>4, <1>5 DEF Chain

LEMMA SocketOpensChain ==
  ASSUME IInv, Opening, OneError, Chain, SocketOpens
  PROVE  OneError' /\ Chain'
<1>1. /\ UNCHANGED <<page, toPage, server>> /\ hook'.lagged = hook.lagged /\ hook'.sock = "open"
      /\ hook'.mic = hook.mic /\ hook.sock = "opening"
      /\ server.pc = "admit" /\ toServer = <<>> /\ toServer' = <<Control("session.start")>>
  BY ChainTypes DEF SocketOpens, Hook, Opening
<1>2. /\ Refused' = Refused /\ TextComes' = TextComes /\ AudioEndComes' = AudioEndComes
      /\ CompleteComes' = CompleteComes /\ Behind' = Behind /\ HeardSoFar' = HeardSoFar
  BY <1>1, SameToPage, SameAudio
<1>3. OneError'
  BY <1>1, <1>2 DEF OneError, Mendable
<1>4. ASSUME Calm
      PROVE  Script' /\ Linked'
  <2>1. /\ Script /\ ~hook.mic /\ page.phase \in {"connecting", "ending"}
        /\ toPage = <<>> /\ ~server.discarding /\ HeardSoFar = 0
    BY <1>1, <1>4 DEF Chain, Script, SocketOK, NothingHeard, HeardSoFar, Over, Open
  <2>2. Len(toServer') = 1 /\ toServer'[1].type = "session.start" /\ DOMAIN toServer' = 1..1
    <3>1. Control("session.start").type = "session.start"
      BY DEF Control, Frame
    <3> QED
      BY <1>1, <3>1
  <2>3. Script'
    <3>1. NewsOK' /\ NothingHeard' /\ AudioOK'
      BY <1>1, <1>2, <2>1 DEF Script, NewsOK, NothingHeard, AudioOK
    <3>2. SocketOK'
      BY <1>1, <2>1, <2>2 DEF SocketOK, Open, Over, Finished
    <3> QED
      BY <3>1, <3>2 DEF Script
  <2>4. /\ ~Refused' /\ ~Unended(0)'
    BY <1>1, <2>1 DEF Refused, Unended
  <2>5. Frames(0, 0)'
    <3>1. \A i \in DOMAIN toServer' : toServer'[i].type \notin Content /\ ~(i <= 0)
      BY <2>2 DEF Content
    <3> QED
      BY <1>1, <2>1, <2>2, <2>4, <3>1 DEF Frames
  <2>6. Place(0, 0)'
    BY <1>1, <1>2, <2>1, <2>4 DEF Place, Lead, Waiting, Recording, Sending, InTurn
  <2> QED
    BY <2>2, <2>3, <2>5, <2>6 DEF Linked
<1>5. Calm' => Calm
  BY <1>1 DEF Calm
<1> QED
  BY <1>3, <1>4, <1>5 DEF Chain

\* What the user and the player do without a message.
LEMMA QuietChain ==
  ASSUME IInv, Opening, Rendered, OneError, Chain, ~hook'.lagged,
         UnblockAudio \/ SkipAudio \/ Render \/ \E k \in Questions : QuestionHeard(k)
  PROVE  OneError' /\ Chain'
<1>a. page \in Shown(0..Length) /\ hook \in Hook
  BY ChainTypes
<1>1. CASE UnblockAudio
  <2>1. /\ UNCHANGED <<page, toPage, toServer, server>> /\ hook'.lagged = hook.lagged
        /\ hook'.sock = hook.sock /\ hook'.mic = hook.mic /\ hook'.take = hook.take /\ hook'.sent = hook.sent
        /\ hook'.waits # {}
    BY <1>a, <1>1 DEF UnblockAudio, Hook
  <2> QED
    BY <2>1, QuietStep
<1>2. CASE Render
  <2>1. /\ UNCHANGED <<page, toPage, toServer, server>> /\ hook'.lagged = hook.lagged
        /\ hook'.sock = hook.sock /\ hook'.mic = hook.mic /\ hook'.take = hook.take /\ hook'.sent = hook.sent
        /\ hook'.waits = hook.waits /\ hook'.blocked = hook.blocked
    BY <1>a, <1>2 DEF Render, Hook
  <2> QED
    BY <2>1, QuietStep
<1>3. CASE SkipAudio
  <2>1. /\ UNCHANGED <<toPage, toServer, server>> /\ hook'.lagged = hook.lagged
        /\ hook'.sock = hook.sock /\ hook'.mic = hook.mic /\ hook'.take = hook.take /\ hook'.sent = hook.sent
        /\ hook'.waits = hook.waits /\ hook'.blocked = hook.blocked /\ page' = Heard(page)
    BY <1>a, <1>3 DEF SkipAudio, Clicked, Hook
  <2> QED
    BY <1>a, <2>1, Moves, QuietStep
<1>4. ASSUME NEW k \in Questions, QuestionHeard(k)
      PROVE  OneError' /\ Chain'
  <2>1. /\ UNCHANGED <<toPage, toServer, server>> /\ ~hook.lagged
        /\ hook'.sock = hook.sock /\ hook'.mic = hook.mic /\ hook'.take = hook.take /\ hook'.sent = hook.sent
        /\ page' = Heard(page)
    BY <1>a, <1>4 DEF QuestionHeard, Happened, Hook
  <2> QED
    BY <1>a, <2>1, Moves, QuietStep
<1> QED
  BY <1>1, <1>2, <1>3, <1>4

\* What a message makes of a page that is live.
LEMMA Told ==
  ASSUME NEW p \in Shown(0..Length), NEW m \in ToPage, p.phase \notin Finished
  PROVE  LET r == Server(p, m) IN
         /\ m.type = "session.ready" =>
              r.seq = p.seq /\ r.phase = IF p.phase = "connecting" THEN "preparing" ELSE p.phase
         /\ m.type = "question.text" =>
              r.seq = m.seq /\ r.phase = IF p.phase = "ending" THEN "ending" ELSE "asking"
         /\ m.type = "question.audio_end" => r.seq = p.seq /\ r.phase = p.phase
         /\ m.type = "turn.complete" =>
              r.seq = p.seq /\ r.phase = IF p.phase = "ending" THEN "ending" ELSE "preparing"
         /\ Mendable(m) => r.seq = p.seq /\ r.phase = IF p.phase = "ending" THEN "ending" ELSE "answering"
         /\ m.type \in {"session.end", "close"} \/ (m.type = "error" /\ ~Mendable(m)) =>
              r.seq = p.seq /\ (r.phase \in Finished \/ r.phase = p.phase)
<1>1. Server(p, m) = OnMessage(p, m)
  BY DEF Server
<1>2. /\ AfterError(p, m.code).seq = p.seq
      /\ m.code \in Fatal => AfterError(p, m.code).phase = "failed"
      /\ m.code \notin Fatal => AfterError(p, m.code).phase = IF p.phase = "ending" THEN "ending" ELSE "answering"
  BY DEF AfterError, Shown
<1>3. CASE m.type = "session.ready"
  BY <1>1, <1>3 DEF OnMessage, Shown, Mendable
<1>4. CASE m.type = "question.text"
  BY <1>1, <1>4 DEF OnMessage, Shown, Mendable
<1>5. CASE m.type = "question.audio_end"
  BY <1>1, <1>5 DEF OnMessage, Shown, Mendable
<1>6. CASE m.type = "turn.complete"
  BY <1>1, <1>6 DEF OnMessage, Shown, Mendable
<1>7. CASE m.type = "session.end"
  BY <1>1, <1>7 DEF OnMessage, Shown, Mendable, Finished
<1>8. CASE m.type = "error"
  BY <1>1, <1>2, <1>8 DEF OnMessage, Mendable, Finished
<1>9. CASE m.type = "close"
  BY <1>1, <1>9 DEF OnMessage, Mendable
<1> QED
  BY <1>3, <1>4, <1>5, <1>6, <1>7, <1>8, <1>9 DEF ToPage

\* What is left on the channel once a message is read.
LEMMA Read ==
  ASSUME toPage \in Seq(ToPage), toPage # <<>>, toPage' = Tail(toPage), NEW m, m = toPage[1]
  PROVE  /\ m \in ToPage /\ 1 \in DOMAIN toPage /\ Head(toPage) = m
         /\ \A i \in DOMAIN toPage' : i + 1 \in DOMAIN toPage /\ toPage'[i] = toPage[i + 1] /\ i \in Nat
         /\ \A j \in DOMAIN toPage : j = 1 \/ (j - 1 \in DOMAIN toPage' /\ toPage'[j - 1] = toPage[j] /\ 1 < j)
         /\ Refused' => Refused
         /\ ~Mendable(m) => (Refused <=> Refused')
         /\ TextComes' => TextComes
         /\ m.type # "question.text" => (TextComes <=> TextComes')
         /\ m.type # "question.audio_end" => (AudioEndComes <=> AudioEndComes')
         /\ CompleteComes' => CompleteComes
         /\ m.type # "turn.complete" => (CompleteComes <=> CompleteComes')
         /\ Behind' => Behind
<1>1. /\ DOMAIN toPage = 1..Len(toPage) /\ DOMAIN toPage' = 1..(Len(toPage) - 1) /\ Len(toPage) \in Nat \ {0}
      /\ Head(toPage) = toPage[1] /\ toPage[1] \in ToPage
      /\ \A i \in 1..(Len(toPage) - 1) : toPage'[i] = toPage[i + 1]
  BY TailFacts
<1>2. \A i \in DOMAIN toPage' : i + 1 \in DOMAIN toPage /\ toPage'[i] = toPage[i + 1] /\ i \in Nat
  BY <1>1
<1>3. \A j \in DOMAIN toPage : j = 1 \/ (j - 1 \in DOMAIN toPage' /\ toPage'[j - 1] = toPage[j] /\ 1 < j)
  <2>1. \A j \in 1..Len(toPage) : j = 1 \/ (j - 1 \in 1..(Len(toPage) - 1) /\ (j - 1) + 1 = j /\ 1 < j)
    BY <1>1
  <2> QED
    BY <1>1, <2>1
<1>4. 1 \in DOMAIN toPage
  BY <1>1
<1>5. (Refused' => Refused) /\ (~Mendable(m) => (Refused <=> Refused'))
  BY <1>2, <1>3 DEF Refused, Mendable
<1>6. (TextComes' => TextComes) /\ (m.type # "question.text" => (TextComes <=> TextComes'))
  BY <1>2, <1>3 DEF TextComes
<1>7. m.type # "question.audio_end" => (AudioEndComes <=> AudioEndComes')
  BY ZenonT(40), <1>2, <1>3 DEF AudioEndComes
<1>8. (CompleteComes' => CompleteComes) /\ (m.type # "turn.complete" => (CompleteComes <=> CompleteComes'))
  BY <1>2, <1>3 DEF CompleteComes
<1> QED
  BY <1>1, <1>2, <1>3, <1>4, <1>5, <1>6, <1>7, <1>8 DEF Behind

\* An error is read before another is sent.
LEMMA ReadOneError ==
  ASSUME IInv, OneError, ~hook.lagged, toPage # <<>>, toPage' = Tail(toPage), UNCHANGED server,
         NEW m, m = toPage[1],
         (page.phase \notin Finished /\ page' = Server(page, m)) \/ page'.phase \in Finished
  PROVE  OneError' /\ (Mendable(m) => ~Refused')
<1>a. toPage \in Seq(ToPage) /\ page \in Shown(0..Length)
  BY ChainTypes
<1>1. Mendable(m) => ~Refused'
  <2> SUFFICES ASSUME Mendable(m), NEW i \in DOMAIN toPage', Mendable(toPage'[i]) PROVE FALSE
    BY DEF Refused, Mendable
  <2>1. i + 1 \in DOMAIN toPage /\ Mendable(toPage[i + 1]) /\ 1 \in DOMAIN toPage /\ Mendable(toPage[1]) /\ i \in Nat
    BY <1>a, Read DEF Mendable
  <2>2. DOMAIN toPage' = 1..(Len(toPage) - 1)
    BY <1>a, TailFacts
  <2>3. i + 1 = 1
    BY <2>1 DEF OneError, Refused
  <2> QED
    BY <2>2, <2>3
<1>2. ASSUME Refused'
      PROVE  /\ \A i, j \in DOMAIN toPage' : Mendable(toPage'[i]) /\ Mendable(toPage'[j]) => i = j
             /\ page'.phase \in {"recording", "sending"} \cup Over
             /\ page'.phase \in {"recording", "sending"} => page'.seq = server'.q
             /\ ~Behind'
  <2>1. Refused /\ ~Mendable(m) /\ ~Behind /\ ~Behind'
    BY <1>a, <1>1, <1>2, Read DEF OneError
  <2>2. \A i, j \in DOMAIN toPage' : Mendable(toPage'[i]) /\ Mendable(toPage'[j]) => i = j
    <3>1. \A i \in DOMAIN toPage' : i + 1 \in DOMAIN toPage /\ toPage'[i] = toPage[i + 1] /\ i \in Nat
      BY <1>a, Read
    <3>2. \A i, j \in DOMAIN toPage : Mendable(toPage[i]) /\ Mendable(toPage[j]) => i = j
      BY <2>1 DEF OneError
    <3>3. \A i, j \in DOMAIN toPage' : Mendable(toPage'[i]) /\ Mendable(toPage'[j]) => i + 1 = j + 1
      BY <3>1, <3>2
    <3> QED
      BY <3>1, <3>3
  <2>3. m.type \notin {"question.text", "turn.complete"} /\ m \in ToPage
    BY <1>a, <2>1, Read DEF Behind, TextComes, CompleteComes
  <2>4. page.phase \in {"recording", "sending"} \cup Over
        /\ (page.phase \in {"recording", "sending"} => page.seq = server.q)
    BY <2>1 DEF OneError
  <2>5. CASE page.phase \notin Finished /\ page' = Server(page, m)
    <3>1. page'.seq = page.seq /\ (page'.phase = page.phase \/ page'.phase \in Finished)
      <4>1. \/ m.type = "session.ready" \/ m.type = "question.audio_end"
            \/ m.type \in {"session.end", "close"} \/ (m.type = "error" /\ ~Mendable(m))
        BY <2>1, <2>3 DEF ToPage
      <4>2. page.phase # "connecting"
        BY <2>4 DEF Over, Finished
      <4> QED
        BY <1>a, <2>3, <2>5, <4>1, <4>2, Told
    <3> QED
      BY <2>1, <2>2, <2>4, <3>1 DEF Over, Finished
  <2>6. CASE page'.phase \in Finished
    BY <2>1, <2>2, <2>6 DEF Over, Finished
  <2> QED
    BY <2>5, <2>6
<1>3. OneError'
  BY <1>2 DEF OneError, Mendable
<1> QED
  BY <1>1, <1>3

\* The script is one message further.
LEMMA ReadScript ==
  ASSUME IInv, OneError, Calm, Script, Open, toPage # <<>>, toPage' = Tail(toPage), UNCHANGED server,
         NEW m, m = toPage[1], page' = Server(page, m), hook'.sock = hook.sock, hook'.take = hook.take
  PROVE  /\ Script' /\ page.phase \notin Finished /\ page'.phase \notin Finished /\ server.pc # "admit"
         /\ m.type \in {"session.ready", "question.text", "question.audio_end", "turn.complete", "error"}
         /\ m.type = "error" => Mendable(m)
         /\ m \in ToPage
<1>a. toPage \in Seq(ToPage) /\ page \in Shown(0..Length)
  BY ChainTypes
<1>1. /\ page.phase \notin Finished /\ server.pc # "admit"
      /\ server.pc \in {"transcribe", "record", "turn"} => page.phase \in {"sending", "ending"}
  BY DEF Script, SocketOK, Open
<1>2. /\ m.type \in {"session.ready", "question.text", "question.audio_end", "turn.complete", "error"}
      /\ m.type = "error" => Mendable(m)
      /\ m \in ToPage
  <2>1. m \in ToPage /\ 1 \in DOMAIN toPage
    BY <1>a, Read
  <2>2. m.type \notin {"session.end", "close"} /\ (m.type = "error" => Mendable(m))
    BY <2>1 DEF Script, NewsOK
  <2> QED
    BY <2>1, <2>2 DEF ToPage
<1>3. /\ page'.phase = page.phase \/ page'.phase \in {"preparing", "asking", "answering"}
      /\ page.phase = "ending" => page'.phase = "ending"
  BY <1>a, <1>1, <1>2, Told
<1>4. /\ (m.type = "question.text" => TextComes) /\ (m.type = "turn.complete" => CompleteComes)
      /\ (Mendable(m) => Refused)
  BY <1>a, Read DEF TextComes, CompleteComes, Refused
<1>5. HeardSoFar' = HeardSoFar /\ (Behind' => Behind) /\ (Refused' => Refused)
  BY <1>a, SameAudio, Read
<1>6. NewsOK'
  <2>1. \A i \in DOMAIN toPage' : i + 1 \in DOMAIN toPage /\ toPage'[i] = toPage[i + 1] /\ i \in Nat
    BY <1>a, Read
  <2>2. \A j \in DOMAIN toPage : j = 1 \/ (j - 1 \in DOMAIN toPage' /\ toPage'[j - 1] = toPage[j] /\ 1 < j /\ j \in Nat)
    BY <1>a, Read, ChainTypes
  <2>3. page'.phase = "recording" => page.phase = "recording"
    BY <1>3
  <2> SUFFICES ASSUME NEW i \in DOMAIN toPage'
               PROVE  /\ toPage'[i].type \notin {"session.end", "close"}
                      /\ toPage'[i].type = "error" => Mendable(toPage'[i])
                      /\ Mendable(toPage'[i]) /\ page'.phase = "recording" => toPage'[i].code = "answer_too_long"
                      /\ toPage'[i].type = "question.text" =>
                           /\ server.pc \in InTurn
                           /\ toPage'[i].seq = server.q
                           /\ \A j \in DOMAIN toPage' : i < j => toPage'[j].type \notin {"question.text", "turn.complete"}
                           /\ server.pc = "listen" => \E j \in DOMAIN toPage' : i < j /\ toPage'[j].type = "question.audio_end"
                      /\ toPage'[i].type = "turn.complete" =>
                           /\ server.pc \in InTurn => \E j \in DOMAIN toPage' : i < j /\ toPage'[j].type = "question.text"
                           /\ \A j \in DOMAIN toPage' : toPage'[j].type = "turn.complete" => i = j
    BY DEF NewsOK, Mendable
  <2>4. PICK k \in DOMAIN toPage : k = i + 1 /\ toPage'[i] = toPage[k] /\ i \in Nat
    BY <2>1
  <2>5. /\ toPage[k].type \notin {"session.end", "close"}
        /\ toPage[k].type = "error" => Mendable(toPage[k])
        /\ Mendable(toPage[k]) /\ page'.phase = "recording" => toPage[k].code = "answer_too_long"
    BY <2>3 DEF Script, NewsOK
  <2>6. ASSUME toPage[k].type = "question.text"
        PROVE  /\ server.pc \in InTurn
               /\ toPage[k].seq = server.q
               /\ \A j \in DOMAIN toPage' : i < j => toPage'[j].type \notin {"question.text", "turn.complete"}
               /\ server.pc = "listen" => \E j \in DOMAIN toPage' : i < j /\ toPage'[j].type = "question.audio_end"
    <3>1. /\ server.pc \in InTurn
          /\ toPage[k].seq = server.q
          /\ \A j \in DOMAIN toPage : k < j => toPage[j].type \notin {"question.text", "turn.complete"}
          /\ server.pc = "listen" => \E j \in DOMAIN toPage : k < j /\ toPage[j].type = "question.audio_end"
      BY <2>6 DEF Script, NewsOK
    <3>2. \A j \in DOMAIN toPage' : i < j => k < j + 1
      BY <2>1, <2>4
    <3>3. \A j \in DOMAIN toPage : k < j => j - 1 \in DOMAIN toPage' /\ toPage'[j - 1] = toPage[j] /\ i < j - 1
      BY <2>2, <2>4
    <3> QED
      BY <2>1, <3>1, <3>2, <3>3
  <2>7. ASSUME toPage[k].type = "turn.complete"
        PROVE  /\ server.pc \in InTurn => \E j \in DOMAIN toPage' : i < j /\ toPage'[j].type = "question.text"
               /\ \A j \in DOMAIN toPage' : toPage'[j].type = "turn.complete" => i = j
    <3>1. /\ server.pc \in InTurn => \E j \in DOMAIN toPage : k < j /\ toPage[j].type = "question.text"
          /\ \A j \in DOMAIN toPage : toPage[j].type = "turn.complete" => k = j
      BY <2>7 DEF Script, NewsOK
    <3>2. \A j \in DOMAIN toPage' : k = j + 1 => i = j
      BY <2>1, <2>4
    <3>3. \A j \in DOMAIN toPage : k < j => j - 1 \in DOMAIN toPage' /\ toPage'[j - 1] = toPage[j] /\ i < j - 1
      BY <2>2, <2>4
    <3> QED
      BY <2>1, <3>1, <3>2, <3>3
  <2> QED
    BY <2>4, <2>5, <2>6, <2>7
<1>7. SocketOK'
  <2>1. server.pc \in {"transcribe", "record", "turn"} => page'.phase = page.phase
    <3>1. server.pc \in {"transcribe", "record", "turn"} => ~Behind /\ ~Refused
      BY DEF Script, NothingHeard, InTurn
    <3>2. server.pc \in {"transcribe", "record", "turn"} =>
            m.type \in {"session.ready", "question.audio_end"} /\ page.phase # "connecting"
      BY <1>1, <1>2, <1>4, <3>1 DEF Behind
    <3> QED
      BY <1>a, <1>1, <1>2, <3>2, Told
  <2> QED
    BY <1>1, <1>3, <2>1 DEF SocketOK, Open, Finished
<1>8. NothingHeard'
  <2>1. Behind' => page'.phase \in {"connecting", "preparing", "sending"} \cup Over
    <3>1. Behind' => m.type # "question.text"
      <4>1. ASSUME m.type = "question.text" PROVE ~Behind'
        <5>1. \A j \in DOMAIN toPage : 1 < j => toPage[j].type \notin {"question.text", "turn.complete"}
          BY <1>a, <4>1, Read DEF Script, NewsOK
        <5>2. \A i \in DOMAIN toPage' : i + 1 \in DOMAIN toPage /\ toPage'[i] = toPage[i + 1] /\ 1 < i + 1
          <6>1. DOMAIN toPage' = 1..(Len(toPage) - 1)
            BY <1>a, TailFacts
          <6> QED
            BY <1>a, <6>1, Read, ChainTypes
        <5> QED
          BY <5>1, <5>2 DEF Behind, TextComes, CompleteComes
      <4> QED
        BY <4>1
    <3>2. Behind' => ~Mendable(m)
      BY <1>4, <1>5 DEF OneError, Calm
    <3>3. Behind' => page.phase \in {"connecting", "preparing", "sending"} \cup Over
      BY <1>5 DEF Script, NothingHeard
    <3> QED
      BY <1>a, <1>1, <1>2, <3>1, <3>2, <3>3, Told DEF Over, Finished
  <2> QED
    BY <1>5, <2>1 DEF Script, NothingHeard
<1>9. AudioOK'
  BY <1>5 DEF Script, AudioOK
<1>10. page'.phase \notin Finished
  BY <1>1, <1>3 DEF Finished
<1> QED
  BY <1>1, <1>2, <1>6, <1>7, <1>8, <1>9, <1>10 DEF Script

\* A message is read, and the page sends nothing.
LEMMA ReadChain ==
  ASSUME IInv, OneError, Calm, Script, Linked, Open, toPage # <<>>, toPage' = Tail(toPage),
         UNCHANGED <<server, toServer>>,
         NEW m, m = toPage[1], page' = Server(page, m), hook'.sock = hook.sock, hook'.take = hook.take,
         hook'.mic = hook.mic, hook'.sent = hook.sent,
         m.type = "error" => page.phase # "recording",
         m.type = "question.audio_end" \/ hook.waits # {} \/ hook.blocked => hook'.waits # {} \/ hook'.blocked
  PROVE  Script' /\ Linked'
<1>a. toPage \in Seq(ToPage) /\ page \in Shown(0..Length) /\ toServer \in Seq(ToServer)
  BY ChainTypes
<1>1. /\ Script' /\ page.phase \notin Finished /\ page'.phase \notin Finished /\ server.pc # "admit"
      /\ m.type \in {"session.ready", "question.text", "question.audio_end", "turn.complete", "error"}
      /\ m.type = "error" => Mendable(m)
      /\ m \in ToPage
  BY ReadScript
<1>2. PICK e \in 0..Len(toServer), c \in 0..Len(toServer) : Frames(e, c) /\ Place(e, c)
  BY DEF Linked
<1>3. /\ (Behind' => Behind) /\ (Refused' => Refused) /\ HeardSoFar' = HeardSoFar
      /\ (m.type # "question.text" => (TextComes <=> TextComes'))
      /\ (m.type # "question.audio_end" => (AudioEndComes <=> AudioEndComes'))
      /\ (m.type # "turn.complete" => (CompleteComes <=> CompleteComes'))
      /\ (~Mendable(m) => (Refused <=> Refused'))
  BY <1>a, SameAudio, Read
<1>4. /\ (m.type = "question.text" => TextComes /\ Behind) /\ (m.type = "turn.complete" => CompleteComes /\ Behind)
      /\ (Mendable(m) => Refused)
  BY <1>a, Read DEF TextComes, CompleteComes, Refused, Behind
<1>5. Frames(e, c)' /\ (Unended(e)' <=> Unended(e)) /\ e \in 0..Len(toServer') /\ c \in 0..Len(toServer')
  <2>1. Control("disconnect") \in ToServer /\ Control("disconnect").type \notin Content
    BY LiveAssumption DEF Control, Frame, ToServer, Content
  <2> QED
    BY <1>a, <1>2, <1>3, <2>1, SendControl
<1>6. CASE m.type = "session.ready"
  <2>1. /\ page'.seq = page.seq
        /\ page'.phase = page.phase \/ (page.phase = "connecting" /\ page'.phase = "preparing")
        /\ ~Mendable(m)
    BY <1>a, <1>1, <1>6, Told DEF Mendable
  <2>2. Lead(e, c)' /\ Waiting(e, c)'
    BY <1>1, <1>2, <1>3, <1>5, <1>6, <2>1 DEF Place, Lead, Waiting
  <2>3. Recording(e, c)' /\ Sending(e, c)'
    BY <1>1, <1>2, <1>3, <1>5, <1>6, <2>1 DEF Place, Recording, Sending
  <2> QED
    BY <1>1, <1>5, <2>2, <2>3 DEF Linked, Place
<1>7. CASE m.type = "question.audio_end"
  <2>1. page'.seq = page.seq /\ page'.phase = page.phase /\ ~Mendable(m)
    BY <1>a, <1>1, <1>7, Told DEF Mendable
  <2>2. Lead(e, c)' /\ Waiting(e, c)'
    BY <1>1, <1>2, <1>3, <1>5, <1>7, <2>1 DEF Place, Lead, Waiting
  <2>3. Recording(e, c)' /\ Sending(e, c)'
    BY <1>1, <1>2, <1>3, <1>5, <1>7, <2>1 DEF Place, Recording, Sending
  <2> QED
    BY <1>1, <1>5, <2>2, <2>3 DEF Linked, Place
<1>8. CASE m.type = "question.text"
  <2>1. /\ server.pc \in InTurn /\ m.seq = server.q
        /\ server.pc = "listen" => \E j \in DOMAIN toPage : 1 < j /\ toPage[j].type = "question.audio_end"
    BY <1>a, <1>8, Read DEF Script, NewsOK
  <2>2. page'.seq = server.q /\ page'.phase = IF page.phase = "ending" THEN "ending" ELSE "asking"
    BY <1>a, <1>1, <1>8, <2>1, Told
  <2>3. server.pc = "listen" => AudioEndComes'
    BY <1>a, <2>1, Read DEF AudioEndComes
  <2>4. /\ ~server.discarding /\ HeardSoFar = 0 /\ c = 0 /\ ~hook.mic
    <3>1. ~server.discarding /\ HeardSoFar = 0 /\ page.phase # "recording"
      BY <1>4, <1>8 DEF Script, NothingHeard, Over, Finished
    <3>2. c = 0
      BY <1>2, <1>4, <1>8 DEF Frames
    <3> QED
      BY <1>2, <3>1, <3>2, ChainTypes DEF Place, Lead, Hook
  <2>5. ~Unended(e)
    BY <2>4 DEF Unended
  <2>6. page.phase # "ending" => c = Len(toServer)
    BY <1>1, <1>2 DEF Place, Lead
  <2>7. Lead(e, c)' /\ Waiting(e, c)'
    BY <1>1, <1>3, <1>5, <2>1, <2>2, <2>3, <2>4, <2>5, <2>6 DEF Lead, Waiting
  <2>8. Recording(e, c)' /\ Sending(e, c)'
    BY <2>2 DEF Recording, Sending
  <2> QED
    BY <1>1, <1>5, <2>7, <2>8 DEF Linked, Place
<1>9. CASE m.type = "turn.complete"
  <2>1. page'.seq = page.seq /\ page'.phase = IF page.phase = "ending" THEN "ending" ELSE "preparing"
    BY <1>a, <1>1, <1>9, Told
  <2>2. server.pc \in InTurn => TextComes'
    <3>1. server.pc \in InTurn => \E j \in DOMAIN toPage : 1 < j /\ toPage[j].type = "question.text"
      BY <1>a, <1>9, Read DEF Script, NewsOK
    <3> QED
      BY <1>a, <3>1, Read DEF TextComes
  <2>3. /\ ~server.discarding /\ HeardSoFar = 0 /\ c = 0 /\ ~hook.mic
    <3>1. ~server.discarding /\ HeardSoFar = 0 /\ page.phase # "recording"
      BY <1>4, <1>9 DEF Script, NothingHeard, Over, Finished
    <3>2. c = 0
      BY <1>2, <1>4, <1>9 DEF Frames
    <3> QED
      BY <1>2, <3>1, <3>2, ChainTypes DEF Place, Lead, Hook
  <2>4. ~Unended(e)
    BY <2>3 DEF Unended
  <2>5. page.phase # "ending" => c = Len(toServer)
    BY <1>1, <1>2 DEF Place, Lead
  <2>6. Lead(e, c)' /\ Waiting(e, c)'
    BY <1>1, <1>3, <1>5, <2>1, <2>2, <2>3, <2>4, <2>5 DEF Lead, Waiting
  <2>7. Recording(e, c)' /\ Sending(e, c)'
    BY <2>1 DEF Recording, Sending
  <2> QED
    BY <1>1, <1>5, <2>6, <2>7 DEF Linked, Place
<1>10. CASE m.type = "error"
  <2>1. /\ Mendable(m) /\ Refused /\ page.phase \in {"sending", "ending"}
        /\ page.phase = "sending" => page.seq = server.q
    BY <1>1, <1>4, <1>10 DEF OneError, Calm, Over
  <2>2. page'.seq = page.seq /\ page'.phase = IF page.phase = "ending" THEN "ending" ELSE "answering"
    BY <1>a, <1>1, <2>1, Told
  <2>3. server.pc = "listen" /\ HeardSoFar = 0 /\ e = c /\ ~hook.mic
    <3>1. server.pc = "listen" /\ HeardSoFar = 0
      BY <2>1 DEF Script, NothingHeard
    <3>2. e = c
      BY <1>2, <2>1 DEF Frames
    <3> QED
      BY <1>2, <2>1, <3>1, <3>2, ChainTypes DEF Place, Lead, Hook
  <2>4. page.phase # "ending" => c = Len(toServer) /\ ~Unended(e)
    BY <1>1, <1>2, <2>1 DEF Place, Lead
  <2>5. Lead(e, c)' /\ Waiting(e, c)'
    BY <1>1, <1>3, <1>5, <2>1, <2>2, <2>3, <2>4 DEF Lead, Waiting, InTurn
  <2>6. Recording(e, c)' /\ Sending(e, c)'
    BY <2>2 DEF Recording, Sending
  <2> QED
    BY <1>1, <1>5, <2>5, <2>6 DEF Linked, Place
<1> QED
  BY <1>1, <1>6, <1>7, <1>8, <1>9, <1>10

\* An answer too long: the page ends it, and the user may start again.
LEMMA CloseChain ==
  ASSUME IInv, OneError, Calm, Script, Linked, Open, toPage # <<>>, toPage' = Tail(toPage),
         UNCHANGED server,
         NEW m, m = toPage[1], page' = Server(page, m), hook'.sock = hook.sock, hook'.take = hook.take,
         hook'.mic = FALSE, m.type = "error", page.phase = "recording",
         Send(Frame("audio.end", page.seq, hook.take, hook.sent))
  PROVE  Script' /\ Linked'
<1>a. toPage \in Seq(ToPage) /\ page \in Shown(0..Length) /\ toServer \in Seq(ToServer)
  BY ChainTypes
<1>1. /\ Script' /\ page.phase \notin Finished /\ server.pc # "admit" /\ Mendable(m) /\ m \in ToPage
  BY ReadScript
<1>2. PICK e \in 0..Len(toServer), c \in 0..Len(toServer) : Frames(e, c) /\ Place(e, c)
  BY DEF Linked
<1>3. /\ Refused /\ ~Behind /\ page.seq = server.q
  <2>1. Refused
    BY <1>a, <1>1, Read DEF Refused
  <2> QED
    BY <2>1 DEF OneError, Calm
<1>4. ~Behind' /\ ~Refused' /\ HeardSoFar' = HeardSoFar
  <2>1. ~Refused'
    BY <1>1, ReadOneError DEF Calm
  <2> QED
    BY <1>a, <1>3, <2>1, SameAudio, Read
<1>5. server.pc = "listen" /\ HeardSoFar = 0 /\ c = Len(toServer) /\ Unended(e)
  <2>1. server.pc = "listen" /\ HeardSoFar = 0
    BY <1>3 DEF Script, NothingHeard
  <2> QED
    BY <1>2, <1>3, <2>1 DEF Place, Lead, Recording
<1>6. PICK f \in ToServer : Send(f) /\ f.type = "audio.end" /\ f.seq = page.seq
  <2>1. Frame("audio.end", page.seq, hook.take, hook.sent) \in ToServer
    BY ChainTypes, FrameTypes
  <2> QED
    BY <2>1 DEF Frame
<1>7. Frames(c + 1, c + 1)' /\ ~Unended(c + 1)' /\ c + 1 \in 0..Len(toServer')
  BY <1>a, <1>2, <1>3, <1>4, <1>5, <1>6, SendRest DEF InTurn
<1>8. Len(toServer') = c + 1
  BY <1>a, <1>5, <1>6, Sent
<1>9. page'.seq = page.seq /\ page'.phase = "answering"
  BY <1>a, <1>1, Told
<1>10. Lead(c + 1, c + 1)' /\ Waiting(c + 1, c + 1)'
  BY <1>3, <1>4, <1>5, <1>7, <1>8, <1>9 DEF Lead, Waiting, InTurn
<1>11. Recording(c + 1, c + 1)' /\ Sending(c + 1, c + 1)'
  BY <1>9 DEF Recording, Sending
<1> QED
  BY <1>1, <1>7, <1>10, <1>11 DEF Linked, Place

\* Whatever message the page reads.
LEMMA ReceiveChain ==
  ASSUME IInv, Opening, Rendered, OneError, Chain, ~hook'.lagged, ReceiveMessage \/ AutoplayBlocked
  PROVE  OneError' /\ Chain'
<1>a. page \in Shown(0..Length) /\ hook \in Hook /\ toPage \in Seq(ToPage)
  BY ChainTypes
<1>1. PICK m : m = toPage[1]
  OBVIOUS
<1>2. /\ toPage # <<>> /\ toPage' = Tail(toPage) /\ m = Head(toPage) /\ m \in ToPage
      /\ UNCHANGED server /\ Open
  BY <1>a, <1>1, TailFacts DEF ReceiveMessage, AutoplayBlocked, Open
<1>3. CASE ReceiveMessage
  <2>1. /\ page' = IF m.type = "close" THEN Closed(page) ELSE Server(page, m)
        /\ hook' = [AfterMessage(m) EXCEPT !.seen = page'.phase]
        /\ IF Closes(m) THEN Send(Frame("audio.end", page.seq, hook.take, hook.sent)) ELSE UNCHANGED toServer
    <3>1. AfterMessage(m) \in Hook
      BY <1>a DEF AfterMessage, Hook, Shown
    <3> QED
      BY <1>2, <1>3, <3>1 DEF ReceiveMessage, Happened, Hook
  <2>2. /\ hook'.take = hook.take /\ hook'.sent = hook.sent /\ hook'.blocked = hook.blocked
        /\ hook'.lagged = hook.lagged
        /\ m.type # "close" => hook'.sock = hook.sock
        /\ hook'.mic = (hook.mic /\ ~Closes(m))
        /\ hook'.waits = IF m.type = "question.audio_end" /\ ~hook.blocked THEN hook.waits \cup {page.seq} ELSE hook.waits
    BY <1>a, <2>1 DEF AfterMessage, Hook
  <2>3. hook.seen = page.phase /\ ~hook.lagged
    BY <2>2 DEF Rendered
  <2>4. OneError'
    <3>1. (page.phase \notin Finished /\ page' = Server(page, m)) \/ page'.phase \in Finished
      BY <1>a, <2>1, Moves DEF Server
    <3> QED
      BY <1>1, <1>2, <2>3, <3>1, ReadOneError
  <2>5. ASSUME Calm
        PROVE  Script' /\ Linked'
    <3>1. Script /\ Linked
      BY <2>5 DEF Chain
    <3>2. /\ m.type \notin {"close", "session.end"}
          /\ m.type = "error" => Mendable(m)
          /\ m.type = "error" /\ page.phase = "recording" => m.code = "answer_too_long"
      BY <1>a, <1>1, <1>2, <3>1, Read DEF Script, NewsOK
    <3>3. page' = Server(page, m) /\ hook'.sock = hook.sock
      BY <2>1, <2>2, <3>2
    <3>4. CASE m.type = "error" /\ page.phase = "recording"
      <4>1. Closes(m)
        BY <2>3, <3>2, <3>4 DEF Closes
      <4> QED
        BY <1>1, <1>2, <2>1, <2>2, <2>5, <3>1, <3>3, <3>4, <4>1, CloseChain
    <3>5. CASE ~(m.type = "error" /\ page.phase = "recording")
      <4>1. ~Closes(m)
        BY <2>3, <3>5 DEF Closes
      <4>2. hook'.mic = hook.mic /\ UNCHANGED toServer
        BY <1>a, <2>1, <2>2, <4>1 DEF Hook
      <4>3. m.type = "question.audio_end" \/ hook.waits # {} \/ hook.blocked => hook'.waits # {} \/ hook'.blocked
        BY <2>2
      <4> QED
        BY <1>1, <1>2, <2>2, <2>5, <3>1, <3>3, <3>5, <4>2, <4>3, ReadChain
    <3> QED
      BY <3>4, <3>5
  <2> QED
    BY <1>2, <2>2, <2>4, <2>5 DEF Chain, Calm
<1>4. CASE AutoplayBlocked
  <2>1. /\ page' = Server(page, m) /\ m.type = "question.audio_end" /\ UNCHANGED toServer
        /\ hook'.take = hook.take /\ hook'.sent = hook.sent /\ hook'.blocked = TRUE
        /\ hook'.lagged = hook.lagged /\ hook'.sock = hook.sock /\ hook'.mic = hook.mic
    BY <1>a, <1>2, <1>4 DEF AutoplayBlocked, Hook
  <2>2. OneError'
    <3>1. (page.phase \notin Finished /\ page' = Server(page, m)) \/ page'.phase \in Finished
      BY <2>1 DEF Server
    <3> QED
      BY <1>1, <1>2, <2>1, <3>1, ReadOneError
  <2>3. ASSUME Calm
        PROVE  Script' /\ Linked'
    BY <1>1, <1>2, <2>1, <2>3, ReadChain DEF Chain
  <2> QED
    BY <1>2, <2>1, <2>2, <2>3 DEF Chain, Calm
<1> QED
  BY <1>3, <1>4

-----------------------------------------------------------------------------
(* The runner's steps *)

\* What the runner says comes last, if the page is there to hear it.
LEMMA Said ==
  ASSUME toPage \in Seq(ToPage), NEW m \in ToPage, Open, Says(m)
  PROVE  /\ \A i \in DOMAIN toPage : i \in DOMAIN toPage' /\ toPage'[i] = toPage[i] /\ i < Len(toPage) + 1
         /\ \A i \in DOMAIN toPage' : i \in DOMAIN toPage \/ i = Len(toPage) + 1
         /\ Len(toPage) + 1 \in DOMAIN toPage' /\ toPage'[Len(toPage) + 1] = m
         /\ Refused' <=> (Refused \/ Mendable(m))
         /\ TextComes' <=> (TextComes \/ m.type = "question.text")
         /\ AudioEndComes' <=> (AudioEndComes \/ m.type = "question.audio_end")
         /\ CompleteComes' <=> (CompleteComes \/ m.type = "turn.complete")
         /\ Behind' <=> (Behind \/ m.type \in {"question.text", "turn.complete"})
<1>1. /\ DOMAIN toPage = 1..Len(toPage) /\ DOMAIN toPage' = 1..(Len(toPage) + 1) /\ Len(toPage) \in Nat
      /\ toPage'[Len(toPage) + 1] = m
      /\ \A i \in 1..Len(toPage) : toPage'[i] = toPage[i]
  BY AppendFacts DEF Says, Open
<1>2. \A i \in DOMAIN toPage : i \in DOMAIN toPage' /\ toPage'[i] = toPage[i] /\ i < Len(toPage) + 1
  BY <1>1
<1>3. \A i \in DOMAIN toPage' : i \in DOMAIN toPage \/ i = Len(toPage) + 1
  BY <1>1
<1>4. Len(toPage) + 1 \in DOMAIN toPage'
  BY <1>1
<1>5. Refused' <=> (Refused \/ Mendable(m))
  BY <1>1, <1>2, <1>3, <1>4 DEF Refused, Mendable
<1>6. TextComes' <=> (TextComes \/ m.type = "question.text")
  BY <1>1, <1>2, <1>3, <1>4 DEF TextComes
<1>7. AudioEndComes' <=> (AudioEndComes \/ m.type = "question.audio_end")
  BY <1>1, <1>2, <1>3, <1>4 DEF AudioEndComes
<1>8. CompleteComes' <=> (CompleteComes \/ m.type = "turn.complete")
  BY <1>1, <1>2, <1>3, <1>4 DEF CompleteComes
<1> QED
  BY <1>1, <1>2, <1>3, <1>4, <1>5, <1>6, <1>7, <1>8 DEF Behind

\* Nothing is on its way to a page that is not there.
LEMMA NoneSaid ==
  ASSUME Calm, Script, ~Open, NEW m, Says(m)
  PROVE  toPage = <<>> /\ UNCHANGED toPage
BY DEF Script, SocketOK, Says, Open

\* The news goes on: what is said next, if anything, keeps its order.
NextNews(m) ==
  /\ m \in ToPage /\ m.type \notin {"session.end", "close"}
  /\ m.type = "error" => Mendable(m)
  /\ Open /\ Mendable(m) /\ page.phase = "recording" => m.code = "answer_too_long"
  /\ TextComes => /\ server'.pc \in InTurn /\ server'.q = server.q
                  /\ m.type \notin {"question.text", "turn.complete"}
                  /\ server'.pc = "listen" => server.pc = "listen" \/ m.type = "question.audio_end"
  /\ m.type = "question.text" => server'.pc = "speak" /\ m.seq = server'.q
  /\ CompleteComes => /\ server'.pc \in InTurn => server.pc \in InTurn \/ m.type = "question.text"
                      /\ m.type # "turn.complete"
  /\ m.type = "turn.complete" => server'.pc \notin InTurn

LEMMA NewsSaid ==
  ASSUME IInv, Calm, Script, UNCHANGED page, NEW m, NextNews(m), Says(m)
  PROVE  NewsOK'
<1>1. CASE ~Open
  BY <1>1, NoneSaid DEF NewsOK
<1>2. CASE Open
  <2>a. toPage \in Seq(ToPage) /\ m \in ToPage /\ Len(toPage) \in Nat
    BY ChainTypes DEF NextNews
  <2>1. PICK n : n = Len(toPage) + 1
    OBVIOUS
  <2>2. /\ \A i \in DOMAIN toPage : i \in DOMAIN toPage' /\ toPage'[i] = toPage[i] /\ i < n
        /\ \A i \in DOMAIN toPage' : i \in DOMAIN toPage \/ i = n
        /\ n \in DOMAIN toPage' /\ toPage'[n] = m
    BY <1>2, <2>a, <2>1, Said
  <2>3. \A i \in DOMAIN toPage' : ~(n < i) /\ i \in Nat
    <3>1. n \in Nat /\ \A i \in DOMAIN toPage : i \in Nat
      BY <2>a, <2>1, ChainTypes
    <3> QED
      BY <2>2, <3>1
  <2> SUFFICES ASSUME NEW i \in DOMAIN toPage'
               PROVE  /\ toPage'[i].type \notin {"session.end", "close"}
                      /\ toPage'[i].type = "error" => Mendable(toPage'[i])
                      /\ Mendable(toPage'[i]) /\ page'.phase = "recording" => toPage'[i].code = "answer_too_long"
                      /\ toPage'[i].type = "question.text" =>
                           /\ server'.pc \in InTurn
                           /\ toPage'[i].seq = server'.q
                           /\ \A j \in DOMAIN toPage' : i < j => toPage'[j].type \notin {"question.text", "turn.complete"}
                           /\ server'.pc = "listen" => \E j \in DOMAIN toPage' : i < j /\ toPage'[j].type = "question.audio_end"
                      /\ toPage'[i].type = "turn.complete" =>
                           /\ server'.pc \in InTurn => \E j \in DOMAIN toPage' : i < j /\ toPage'[j].type = "question.text"
                           /\ \A j \in DOMAIN toPage' : toPage'[j].type = "turn.complete" => i = j
    BY DEF NewsOK, Mendable
  <2>4. CASE i = n
    <3>1. toPage'[i] = m
      BY <2>2, <2>4
    <3>2. m.type = "turn.complete" => \A j \in DOMAIN toPage : toPage[j].type # "turn.complete"
      BY DEF NextNews, CompleteComes
    <3>3. m.type = "question.text" => server'.pc = "speak" /\ m.seq = server'.q
      BY DEF NextNews
    <3>4. /\ m.type \notin {"session.end", "close"}
          /\ m.type = "error" => Mendable(m)
          /\ Mendable(m) /\ page.phase = "recording" => m.code = "answer_too_long"
          /\ m.type = "turn.complete" => server'.pc \notin InTurn
      BY <1>2 DEF NextNews
    <3>5. m.type = "turn.complete" => \A j \in DOMAIN toPage' : toPage'[j].type = "turn.complete" => i = j
      BY <2>2, <2>4, <3>2
    <3>6. \A j \in DOMAIN toPage' : ~(i < j)
      BY <2>3, <2>4
    <3> QED
      BY <3>1, <3>3, <3>4, <3>5, <3>6 DEF InTurn
  <2>5. CASE i \in DOMAIN toPage
    <3>1. toPage'[i] = toPage[i] /\ i < n
      BY <2>2, <2>5
    <3>2. /\ toPage[i].type \notin {"session.end", "close"}
          /\ toPage[i].type = "error" => Mendable(toPage[i])
          /\ Mendable(toPage[i]) /\ page.phase = "recording" => toPage[i].code = "answer_too_long"
      BY <2>5 DEF Script, NewsOK
    <3>3. ASSUME toPage[i].type = "question.text"
          PROVE  /\ server'.pc \in InTurn
                 /\ toPage[i].seq = server'.q
                 /\ \A j \in DOMAIN toPage' : i < j => toPage'[j].type \notin {"question.text", "turn.complete"}
                 /\ server'.pc = "listen" => \E j \in DOMAIN toPage' : i < j /\ toPage'[j].type = "question.audio_end"
      <4>1. /\ toPage[i].seq = server.q
            /\ \A j \in DOMAIN toPage : i < j => toPage[j].type \notin {"question.text", "turn.complete"}
            /\ server.pc = "listen" => \E j \in DOMAIN toPage : i < j /\ toPage[j].type = "question.audio_end"
        BY <2>5, <3>3 DEF Script, NewsOK
      <4>2. TextComes
        BY <2>5, <3>3 DEF TextComes
      <4>3. /\ server'.pc \in InTurn /\ server'.q = server.q
            /\ m.type \notin {"question.text", "turn.complete"}
            /\ server'.pc = "listen" => server.pc = "listen" \/ m.type = "question.audio_end"
        BY <4>2 DEF NextNews
      <4> QED
        BY <2>2, <3>1, <4>1, <4>3
    <3>4. ASSUME toPage[i].type = "turn.complete"
          PROVE  /\ server'.pc \in InTurn => \E j \in DOMAIN toPage' : i < j /\ toPage'[j].type = "question.text"
                 /\ \A j \in DOMAIN toPage' : toPage'[j].type = "turn.complete" => i = j
      <4>1. /\ server.pc \in InTurn => \E j \in DOMAIN toPage : i < j /\ toPage[j].type = "question.text"
            /\ \A j \in DOMAIN toPage : toPage[j].type = "turn.complete" => i = j
        BY <2>5, <3>4 DEF Script, NewsOK
      <4>2. CompleteComes
        BY <2>5, <3>4 DEF CompleteComes
      <4>3. /\ server'.pc \in InTurn => server.pc \in InTurn \/ m.type = "question.text"
            /\ m.type # "turn.complete"
        BY <4>2 DEF NextNews
      <4> QED
        BY <2>2, <3>1, <4>1, <4>3
    <3> QED
      BY <3>1, <3>2, <3>3, <3>4
  <2> QED
    BY <2>2, <2>4, <2>5
<1> QED
  BY <1>1, <1>2

LEMMA NewsSilent ==
  ASSUME Script, UNCHANGED <<page, toPage>>,
         TextComes => /\ server'.pc \in InTurn /\ server'.q = server.q
                      /\ server'.pc = "listen" => server.pc = "listen",
         CompleteComes /\ server'.pc \in InTurn => server.pc \in InTurn
  PROVE  NewsOK'
BY DEF Script, NewsOK, TextComes, CompleteComes, Mendable

\* There is one error at a time, of this answer.
LEMMA OneErrorSaid ==
  ASSUME IInv, OneError, UNCHANGED <<page, hook>>, Open, NEW m \in ToPage, Says(m),
         \/ ~Mendable(m) /\ m.type \notin {"question.text", "turn.complete"} /\ server'.q = server.q
         \/ ~Mendable(m) /\ ~Refused
         \/ /\ Mendable(m) /\ ~Refused /\ ~Behind
            /\ page.phase \in {"recording", "sending"} \cup Over
            /\ page.phase \in {"recording", "sending"} => page.seq = server'.q
  PROVE  OneError'
<1> SUFFICES ASSUME ~hook.lagged, Refused'
             PROVE  /\ \A i, j \in DOMAIN toPage' : Mendable(toPage'[i]) /\ Mendable(toPage'[j]) => i = j
                    /\ page.phase \in {"recording", "sending"} \cup Over
                    /\ page.phase \in {"recording", "sending"} => page.seq = server'.q
                    /\ ~Behind'
  BY DEF OneError, Mendable
<1>1. toPage \in Seq(ToPage)
  BY ChainTypes
<1>2. /\ \A i \in DOMAIN toPage : i \in DOMAIN toPage' /\ toPage'[i] = toPage[i]
      /\ \A i \in DOMAIN toPage' : i \in DOMAIN toPage \/ i = Len(toPage) + 1
      /\ toPage'[Len(toPage) + 1] = m
      /\ Refused' <=> (Refused \/ Mendable(m))
      /\ Behind' <=> (Behind \/ m.type \in {"question.text", "turn.complete"})
  BY <1>1, Said
<1>3. CASE Mendable(m)
  <2>1. \A i \in DOMAIN toPage : ~Mendable(toPage[i])
    BY <1>3 DEF Refused
  <2>2. \A i \in DOMAIN toPage' : Mendable(toPage'[i]) => i = Len(toPage) + 1
    BY <1>2, <2>1
  <2>3. m.type = "error"
    BY <1>3 DEF Mendable
  <2> QED
    BY <1>2, <1>3, <2>2, <2>3
<1>4. CASE ~Mendable(m)
  <2>1. Refused /\ server'.q = server.q /\ m.type \notin {"question.text", "turn.complete"}
    BY <1>2, <1>4
  <2>2. /\ \A i, j \in DOMAIN toPage : Mendable(toPage[i]) /\ Mendable(toPage[j]) => i = j
        /\ page.phase \in {"recording", "sending"} \cup Over
        /\ page.phase \in {"recording", "sending"} => page.seq = server.q
        /\ ~Behind
    BY <2>1 DEF OneError
  <2>3. \A i \in DOMAIN toPage' : Mendable(toPage'[i]) => i \in DOMAIN toPage /\ Mendable(toPage[i])
    BY <1>2, <1>4
  <2> QED
    BY <1>2, <2>1, <2>2, <2>3
<1> QED
  BY <1>3, <1>4

\* Between two questions nothing is being answered.
LEMMA IdleFacts ==
  ASSUME IInv, Calm, Script, Linked, server.pc \notin InTurn
  PROVE  /\ ~server.discarding /\ HeardSoFar = 0 /\ ~Refused
         /\ server.pc \notin {"mark", "text"} => ~Behind
         /\ Open /\ page.phase = "sending" =>
              CompleteComes \/ (server.pc \in {"transcribe", "record", "turn"} /\ page.seq = server.q)
<1>1. ~server.discarding /\ HeardSoFar = 0 /\ ~Refused
  BY DEF Script, NothingHeard, InTurn, HeardSoFar
<1>2. server.pc \notin {"mark", "text"} => ~Behind
  BY DEF Script, NothingHeard, InTurn
<1>3. PICK e \in 0..Len(toServer), c \in 0..Len(toServer) : Frames(e, c) /\ (Open => Place(e, c))
  BY DEF Linked
<1>4. Open /\ page.phase = "sending" =>
        CompleteComes \/ (server.pc \in {"transcribe", "record", "turn"} /\ page.seq = server.q)
  BY <1>3 DEF Place, Sending
<1> QED
  BY <1>1, <1>2, <1>4

LEMMA IdleLinked ==
  ASSUME IInv, Calm, Script, Linked, UNCHANGED <<page, hook, toServer>>,
         server.pc \notin InTurn \cup {"admit"}, server'.pc # "admit", ~server'.discarding, HeardSoFar' = 0,
         Open /\ page.phase \in {"connecting", "preparing"} /\ server'.pc \in InTurn => TextComes',
         Open /\ page.phase = "sending" =>
           /\ Refused' \/ server'.pc \in {"transcribe", "record", "turn"} \/ CompleteComes'
           /\ \/ CompleteComes'
              \/ server'.pc \in InTurn \cup {"transcribe", "record", "turn"} /\ page.seq = server'.q
  PROVE  Linked'
<1>1. PICK e \in 0..Len(toServer), c \in 0..Len(toServer) : Frames(e, c) /\ (Open => Place(e, c))
  BY DEF Linked
<1>2. c = 0 /\ Len(toServer) \in Nat /\ DOMAIN toServer = 1..Len(toServer)
  BY <1>1, ChainTypes DEF Frames
<1>3. ~Unended(0)'
  BY DEF Unended
<1>4. Frames(0, 0)'
  <2>1. \A i \in DOMAIN toServer' : (toServer'[i].type \in Content <=> i <= 0)
    BY <1>1, <1>2 DEF Frames
  <2>2. 1..0 = {} /\ (0 + 1)..0 = {}
    OBVIOUS
  <2> QED
    BY <1>2, <1>3, <2>1, <2>2 DEF Frames
<1>5. Open' => Place(0, 0)'
  <2> SUFFICES ASSUME Open PROVE Place(0, 0)'
    BY DEF Open
  <2>1. Place(e, c)
    BY <1>1
  <2>2. page.phase \notin {"asking", "answering", "recording"}
    BY <2>1 DEF Place, Lead
  <2>3. Lead(0, 0)'
    BY <1>2, <1>3, <2>1, <2>2 DEF Place, Lead
  <2>4. Waiting(0, 0)' /\ Recording(0, 0)'
    BY <2>2 DEF Waiting, Recording
  <2>5. Sending(0, 0)'
    BY DEF Sending
  <2> QED
    BY <2>3, <2>4, <2>5 DEF Place
<1>6. 0 \in 0..Len(toServer')
  BY <1>2
<1> QED
  BY <1>4, <1>5, <1>6 DEF Linked

\* From the plan to the question.
LEMMA AskChain ==
  ASSUME IInv, OneError, Chain, ~hook.lagged, LoadPlan \/ Ask \/ ShowQuestion
  PROVE  OneError' /\ Chain'
<1>a. server \in Runner /\ toPage \in Seq(ToPage) /\ server.q \in 0..(Length + 1)
  BY ChainTypes DEF Runner
<1>b. Calm /\ Script /\ Linked
  BY DEF Chain, Calm, IInv, PcOK, LoadPlan, Ask, ShowQuestion
<1>c. server.pc \notin InTurn \cup {"admit"}
  BY DEF LoadPlan, Ask, ShowQuestion, InTurn
<1>d. ~server.discarding /\ HeardSoFar = 0 /\ ~Refused
      /\ (Open /\ page.phase = "sending" =>
            CompleteComes \/ (server.pc \in {"transcribe", "record", "turn"} /\ page.seq = server.q))
  BY <1>b, <1>c, IdleFacts
<1>e. UNCHANGED <<page, hook, toServer>>
  BY DEF LoadPlan, Ask, ShowQuestion
<1>f. server.pc = "load" => ~Behind
  BY <1>b, <1>c, IdleFacts
<1>1. CASE LoadPlan
  <2>1. PICK m \in ToPage : Says(m) /\ m.type = "session.ready"
    BY <1>1, MessageTypes DEF LoadPlan
  <2>2. server'.pc = "mark" /\ server'.discarding = server.discarding /\ server'.q = server.q /\ server.pc = "load"
    BY <1>1, <1>a, ToFacts DEF LoadPlan, PcValues
  <2>3. HeardSoFar' = 0 /\ ~Behind /\ ~Mendable(m)
    BY <1>f, <2>1, <2>2 DEF HeardSoFar, Mendable
  <2>4. Open => (Refused' <=> Refused) /\ (Behind' <=> Behind) /\ (CompleteComes' <=> CompleteComes)
    BY <1>a, <2>1, <2>3, Said
  <2>5. ~Open => UNCHANGED toPage
    BY <1>b, <2>1, NoneSaid
  <2>6. ~Refused' /\ ~Behind'
    BY <1>d, <2>3, <2>4, <2>5, SameToPage
  <2>7. OneError'
    BY <2>6 DEF OneError, Mendable
  <2>8. NewsOK'
    <3>1. NextNews(m)
      BY <2>1, <2>2, <2>3 DEF NextNews, Behind, InTurn
    <3> QED
      BY <1>b, <1>e, <2>1, <3>1, NewsSaid
  <2>9. Script'
    <3>1. SocketOK'
      <4>1. ~Open' => toPage' = <<>>
        BY <1>b, <1>e, <2>1, NoneSaid DEF Open
      <4> QED
        BY <1>b, <1>e, <2>2, <4>1 DEF Script, SocketOK, Open
    <3>2. NothingHeard' /\ AudioOK'
      BY <1>d, <2>2, <2>3, <2>6 DEF NothingHeard, AudioOK
    <3> QED
      BY <2>8, <3>1, <3>2 DEF Script
  <2>10. Linked'
    <3>1. Open /\ page.phase = "sending" => CompleteComes'
      BY <1>d, <2>2, <2>4
    <3> QED
      BY <1>b, <1>c, <1>d, <1>e, <2>2, <2>3, <3>1, IdleLinked DEF InTurn
  <2> QED
    BY <2>7, <2>9, <2>10 DEF Chain
<1>2. CASE Ask
  <2>1. /\ server'.pc = "text" /\ server'.discarding = server.discarding /\ server'.q = server.q
        /\ server.pc = "mark" /\ UNCHANGED toPage
    <3>1. server.pc = "mark" /\ server.q \in Questions /\ UNCHANGED toPage
      BY <1>2, <1>a, LiveAssumption DEF Ask, Questions, IInv, PcOK
    <3>2. turns[server.q].status = "planned"
      BY <3>1 DEF IInv, TurnsInOrder, Idle
    <3>3. To("text")
      BY <1>2, <3>2 DEF Ask, Update
    <3> QED
      BY <1>a, <3>1, <3>3, ToFacts DEF PcValues
  <2>2. HeardSoFar' = 0
    BY <2>1 DEF HeardSoFar
  <2>3. /\ Refused' = Refused /\ TextComes' = TextComes /\ AudioEndComes' = AudioEndComes
        /\ CompleteComes' = CompleteComes /\ Behind' = Behind
    BY <2>1, SameToPage
  <2>4. OneError'
    BY <1>d, <2>3 DEF OneError, Mendable
  <2>5. ~TextComes
    BY <1>b, <2>1 DEF Script, NewsOK, TextComes, InTurn
  <2>6. NewsOK'
    BY <1>b, <1>e, <2>1, <2>5, NewsSilent DEF InTurn
  <2>7. Script'
    <3>1. SocketOK'
      BY <1>b, <1>e, <2>1 DEF Script, SocketOK, Open
    <3>2. NothingHeard' /\ AudioOK'
      BY <1>b, <1>d, <1>e, <2>1, <2>2, <2>3 DEF Script, NothingHeard, AudioOK
    <3> QED
      BY <2>6, <3>1, <3>2 DEF Script
  <2>8. Linked'
    <3>1. Open /\ page.phase = "sending" => CompleteComes'
      BY <1>d, <2>1, <2>3
    <3> QED
      BY <1>b, <1>c, <1>d, <1>e, <2>1, <2>2, <3>1, IdleLinked DEF InTurn
  <2> QED
    BY <2>4, <2>7, <2>8 DEF Chain
<1>3. CASE ShowQuestion
  <2>1. PICK m \in ToPage : Says(m) /\ m.type = "question.text" /\ m.seq = server.q
    <3>1. server.q \in 0..Length
      <4>1. server.pc \in Busy
        BY <1>3 DEF ShowQuestion, Busy
      <4>2. server.q \in 1..Length
        BY <4>1 DEF IInv, PcOK, Questions
      <4> QED
        BY <4>2, LiveAssumption
    <3> QED
      BY <1>3, <3>1, MessageTypes DEF ShowQuestion
  <2>2. server'.pc = "speak" /\ server'.discarding = server.discarding /\ server'.q = server.q /\ server.pc = "text"
    BY <1>3, <1>a, ToFacts DEF ShowQuestion, PcValues
  <2>3. HeardSoFar' = 0 /\ ~Mendable(m)
    BY <2>1, <2>2 DEF HeardSoFar, Mendable
  <2>4. Open => (Refused' <=> Refused) /\ Behind' /\ TextComes' /\ (CompleteComes' <=> CompleteComes)
    BY <1>a, <2>1, <2>3, Said
  <2>5. ~Open => UNCHANGED toPage
    BY <1>b, <2>1, NoneSaid
  <2>6. ~Refused' /\ ~TextComes
    <3>1. ~TextComes
      BY <1>b, <2>2 DEF Script, NewsOK, TextComes, InTurn
    <3> QED
      BY <1>d, <2>4, <2>5, <3>1, SameToPage
  <2>7. OneError'
    BY <2>6 DEF OneError, Mendable
  <2>8. NewsOK'
    <3>1. NextNews(m)
      BY <2>1, <2>2, <2>3, <2>6 DEF NextNews, InTurn
    <3> QED
      BY <1>b, <1>e, <2>1, <3>1, NewsSaid
  <2>9. Script'
    <3>1. SocketOK'
      <4>1. ~Open' => toPage' = <<>>
        BY <1>b, <1>e, <2>1, NoneSaid DEF Open
      <4> QED
        BY <1>b, <1>e, <2>2, <4>1 DEF Script, SocketOK, Open
    <3>2. Behind' => page.phase \in {"connecting", "preparing", "sending"} \cup Over
      <4>1. CASE ~Open
        BY <1>b, <2>5, <4>1, SameToPage DEF Script, NothingHeard
      <4>2. CASE Open
        <5>1. PICK e \in 0..Len(toServer), c \in 0..Len(toServer) : Place(e, c)
          BY <1>b, <4>2 DEF Linked
        <5>2. page.phase \notin {"asking", "answering", "recording"}
          BY <1>c, <5>1 DEF Place, Lead
        <5> QED
          BY <5>2, ChainTypes DEF Phases, Over
      <4> QED
        BY <4>1, <4>2
    <3>3. NothingHeard' /\ AudioOK'
      BY <1>d, <1>e, <2>2, <2>3, <2>6, <3>2 DEF NothingHeard, AudioOK, InTurn
    <3> QED
      BY <2>8, <3>1, <3>3 DEF Script
  <2>10. Linked'
    <3>1. Open /\ page.phase = "sending" => CompleteComes'
      BY <1>d, <2>2, <2>4
    <3> QED
      BY <1>b, <1>c, <1>d, <1>e, <2>2, <2>3, <2>4, <3>1, IdleLinked DEF InTurn
  <2> QED
    BY <2>7, <2>9, <2>10 DEF Chain
<1> QED
  BY <1>1, <1>2, <1>3

\* The question is asked, and the runner listens.
LEMMA SpeakQuestionChain ==
  ASSUME IInv, OneError, Chain, ~hook.lagged, SpeakQuestion
  PROVE  OneError' /\ Chain'
<1>a. server \in Runner /\ toPage \in Seq(ToPage) /\ server.pc = "speak"
  BY ChainTypes DEF SpeakQuestion
<1>b. Calm /\ Script /\ Linked
  BY <1>a DEF Chain, Calm, IInv, PcOK
<1>e. UNCHANGED <<page, hook, toServer>>
  BY DEF SpeakQuestion
<1>1. PICK m \in ToPage : Says(m) /\ m.type = "question.audio_end"
  <2>1. server.pc \in Busy
    BY <1>a DEF Busy
  <2>2. server.q \in 1..Length
    BY <2>1 DEF IInv, PcOK, Questions
  <2>3. server.q \in 0..Length
    BY <2>2, LiveAssumption
  <2> QED
    BY <2>3, MessageTypes DEF SpeakQuestion, AudioEnd
<1>2. server'.pc = "listen" /\ server'.discarding = FALSE /\ server'.q = server.q /\ server'.exit = server.exit
      /\ server'.audio = Silence
  BY <1>a DEF SpeakQuestion, Runner
<1>3. HeardSoFar' = 0 /\ HeardSoFar = 0 /\ ~server.discarding /\ ~Refused /\ ~Mendable(m)
  BY <1>a, <1>b, <1>1, <1>2 DEF HeardSoFar, Mendable, Silence, Script, NothingHeard
<1>4. Open => /\ (Refused' <=> Refused) /\ (Behind' <=> Behind) /\ AudioEndComes'
              /\ (TextComes' <=> TextComes) /\ (CompleteComes' <=> CompleteComes)
  BY <1>a, <1>1, <1>3, Said
<1>5. ~Open => UNCHANGED toPage
  BY <1>b, <1>1, NoneSaid
<1>6. ~Refused' /\ (Behind' <=> Behind)
  BY <1>3, <1>4, <1>5, SameToPage
<1>7. OneError'
  BY <1>6 DEF OneError, Mendable
<1>8. NewsOK'
  <2>1. NextNews(m)
    BY <1>a, <1>1, <1>2, <1>3 DEF NextNews, InTurn
  <2> QED
    BY <1>b, <1>e, <1>1, <2>1, NewsSaid
<1>9. Script'
  <2>1. SocketOK'
    <3>1. ~Open' => toPage' = <<>>
      BY <1>b, <1>e, <1>1, NoneSaid DEF Open
    <3> QED
      BY <1>b, <1>e, <1>2, <3>1 DEF Script, SocketOK, Open
  <2>2. NothingHeard' /\ AudioOK'
    BY <1>b, <1>e, <1>2, <1>3, <1>6 DEF Script, NothingHeard, AudioOK, InTurn, Silence
  <2> QED
    BY <1>8, <2>1, <2>2 DEF Script
<1>10. PICK e \in 0..Len(toServer), c \in 0..Len(toServer) : Frames(e, c) /\ (Open => Place(e, c))
  BY <1>b DEF Linked
<1>11. e = 0 /\ ~Unended(e) /\ ~Unended(e)'
  BY <1>2, <1>3, <1>10 DEF Frames, Unended
<1>12. Frames(e, c)'
  BY <1>2, <1>3, <1>e, <1>6, <1>10, <1>11 DEF Frames, InTurn
<1>13. Open' => Place(e, c)'
  <2> SUFFICES ASSUME Open PROVE Place(e, c)'
    BY <1>e DEF Open
  <2>1. Lead(e, c)' /\ Waiting(e, c)'
    BY <1>a, <1>2, <1>3, <1>4, <1>e, <1>10, <1>11 DEF Place, Lead, Waiting, InTurn
  <2>2. Recording(e, c)'
    BY <1>3, <1>6, <1>e, <1>10, <1>11 DEF Place, Recording
  <2>3. Sending(e, c)'
    BY <1>a, <1>2, <1>3, <1>4, <1>e, <1>10 DEF Place, Sending, InTurn
  <2> QED
    BY <2>1, <2>2, <2>3 DEF Place
<1> QED
  BY <1>7, <1>9, <1>10, <1>12, <1>13, <1>e DEF Chain, Linked

\* From the answer to the end of the turn.
LEMMA StoreChain ==
  ASSUME IInv, OneError, Chain, ~hook.lagged, Transcribe \/ StoreAnswer \/ HearNothing \/ CompleteTurn
  PROVE  OneError' /\ Chain'
<1>a. server \in Runner /\ toPage \in Seq(ToPage) /\ server.pc \in {"transcribe", "record", "turn"}
  BY ChainTypes DEF Transcribe, StoreAnswer, HearNothing, CompleteTurn
<1>b. Calm /\ Script /\ Linked
  BY <1>a DEF Chain, Calm, IInv, PcOK
<1>c. server.pc \notin InTurn \cup {"admit"}
  BY <1>a DEF InTurn
<1>d. ~server.discarding /\ HeardSoFar = 0 /\ ~Refused /\ ~Behind
      /\ (Open /\ page.phase = "sending" => CompleteComes \/ page.seq = server.q)
  BY <1>a, <1>b, <1>c, IdleFacts
<1>e. UNCHANGED <<page, hook, toServer>>
  BY DEF Transcribe, StoreAnswer, HearNothing, CompleteTurn
<1>f. (Open => page.phase \in {"sending", "ending"}) /\ ~TextComes /\ ~CompleteComes
  BY <1>a, <1>b, <1>d DEF Script, SocketOK, Behind
<1>g. server.q \in 1..Length /\ server.q \in 0..Length
  <2>1. server.q \in 1..Length
    BY <1>a DEF IInv, PcOK, Questions, Busy
  <2> QED
    BY <2>1, LiveAssumption
<1>1. CASE Transcribe \/ StoreAnswer
  <2>1. /\ \/ server.pc = "transcribe" /\ server'.pc = "record"
           \/ server.pc = "record" /\ server'.pc = "turn"
        /\ server'.discarding = server.discarding /\ server'.q = server.q
        /\ UNCHANGED toPage /\ server'.audio = server.audio
    <3>1. CASE Transcribe
      BY <1>a, <3>1, ToFacts DEF Transcribe, PcValues
    <3>2. CASE StoreAnswer
      <4>1. server.pc = "record" /\ turns[server.q].status = "asked"
        BY <1>g, <3>2 DEF StoreAnswer, IInv, TurnsInOrder, Busy, Questions
      <4> QED
        BY <1>a, <3>2, <4>1, ToFacts DEF StoreAnswer, Update, PcValues
    <3> QED
      BY <1>1, <3>1, <3>2
  <2>2. /\ Refused' = Refused /\ TextComes' = TextComes /\ AudioEndComes' = AudioEndComes
        /\ CompleteComes' = CompleteComes /\ Behind' = Behind /\ HeardSoFar' = 0
    BY <2>1, SameToPage DEF HeardSoFar
  <2>3. OneError'
    BY <1>d, <2>2 DEF OneError, Mendable
  <2>4. NewsOK'
    BY <1>b, <1>e, <1>f, <2>1, NewsSilent
  <2>5. SocketOK'
    BY <1>b, <1>e, <2>1 DEF Script, SocketOK, Open
  <2>6. NothingHeard' /\ AudioOK'
    BY <1>b, <1>d, <1>e, <2>1, <2>2 DEF Script, NothingHeard, AudioOK
  <2>7. Linked'
    BY <1>b, <1>c, <1>d, <1>e, <1>f, <2>1, <2>2, IdleLinked DEF InTurn
  <2> QED
    BY <2>3, <2>4, <2>5, <2>6, <2>7 DEF Chain, Script
<1>2. CASE HearNothing
  <2>1. PICK m \in ToPage : Says(m) /\ m.type = "error" /\ m.code = "no_speech"
    BY <1>2, MessageTypes DEF HearNothing
  <2>2. /\ server'.pc = "listen" /\ server'.discarding = server.discarding /\ server'.q = server.q
        /\ server'.audio = Silence
    BY <1>2, <1>a DEF HearNothing, Runner
  <2>3. HeardSoFar' = 0 /\ Mendable(m)
    BY <2>1, <2>2 DEF HeardSoFar, Mendable, Silence, Fatal
  <2>4. Open => Refused' /\ ~Behind' /\ ~TextComes' /\ ~CompleteComes'
    BY <1>a, <1>d, <1>f, <2>1, <2>3, Said DEF Behind
  <2>5. ~Open => UNCHANGED toPage
    BY <1>b, <2>1, NoneSaid
  <2>6. ~Behind'
    BY <1>d, <2>4, <2>5, SameToPage
  <2>7. OneError'
    <3>1. CASE Open
      BY <1>d, <1>e, <1>f, <2>1, <2>2, <2>3, <3>1, OneErrorSaid DEF Over
    <3>2. CASE ~Open
      BY <1>d, <2>5, <3>2, SameToPage DEF OneError, Mendable
    <3> QED
      BY <3>1, <3>2
  <2>8. NewsOK'
    <3>1. NextNews(m)
      BY <1>f, <2>1, <2>2, <2>3 DEF NextNews, InTurn
    <3> QED
      BY <1>b, <1>e, <2>1, <3>1, NewsSaid
  <2>9. SocketOK'
    <3>1. ~Open' => toPage' = <<>>
      BY <1>b, <1>e, <2>1, NoneSaid DEF Open
    <3> QED
      BY <1>b, <1>e, <2>2, <3>1 DEF Script, SocketOK, Open
  <2>10. NothingHeard' /\ AudioOK'
    BY <1>d, <2>2, <2>3, <2>6 DEF NothingHeard, AudioOK, Silence
  <2>11. Linked'
    BY <1>b, <1>c, <1>d, <1>e, <1>f, <2>2, <2>3, <2>4, IdleLinked DEF InTurn
  <2> QED
    BY <2>7, <2>8, <2>9, <2>10, <2>11 DEF Chain, Script
<1>3. CASE CompleteTurn
  <2>1. PICK m \in ToPage : Says(m) /\ m.type = "turn.complete"
    BY <1>3, <1>g, MessageTypes DEF CompleteTurn
  <2>2. server'.pc = "mark" /\ server'.discarding = server.discarding
    BY <1>3, <1>a DEF CompleteTurn, Runner
  <2>3. HeardSoFar' = 0 /\ ~Mendable(m)
    BY <2>1, <2>2 DEF HeardSoFar, Mendable
  <2>4. Open => ~Refused' /\ CompleteComes'
    BY <1>a, <1>d, <2>1, <2>3, Said
  <2>5. ~Open => UNCHANGED toPage
    BY <1>b, <2>1, NoneSaid
  <2>6. ~Refused' /\ (~Open => ~Behind')
    BY <1>d, <2>4, <2>5, SameToPage
  <2>7. OneError'
    BY <2>6 DEF OneError, Mendable
  <2>8. NewsOK'
    <3>1. NextNews(m)
      BY <1>f, <2>1, <2>2, <2>3 DEF NextNews, InTurn
    <3> QED
      BY <1>b, <1>e, <2>1, <3>1, NewsSaid
  <2>9. SocketOK'
    <3>1. ~Open' => toPage' = <<>>
      BY <1>b, <1>e, <2>1, NoneSaid DEF Open
    <3> QED
      BY <1>b, <1>e, <2>2, <3>1 DEF Script, SocketOK, Open
  <2>10. NothingHeard' /\ AudioOK'
    BY <1>d, <1>e, <1>f, <2>2, <2>3, <2>6 DEF NothingHeard, AudioOK, Over
  <2>11. Linked'
    BY <1>b, <1>c, <1>d, <1>e, <1>f, <2>2, <2>3, <2>4, IdleLinked DEF InTurn
  <2> QED
    BY <2>7, <2>8, <2>9, <2>10, <2>11 DEF Chain, Script
<1> QED
  BY <1>1, <1>2, <1>3

\* One message less of the answers.
LEMMA Taken ==
  ASSUME toServer \in Seq(ToServer), toServer # <<>>, toServer' = Tail(toServer), NEW f, f = Head(toServer),
         NEW e \in 0..Len(toServer), NEW c \in 0..Len(toServer), Frames(e, c), f.type \in Content
  PROVE  /\ c >= 1 /\ c \in Nat /\ e \in Nat /\ e <= c /\ c - 1 \in Nat /\ c - 1 <= Len(toServer')
         /\ f = toServer[1] /\ f \in ToServer /\ f.seq = server.q
         /\ Len(toServer') = Len(toServer) - 1 /\ c - 1 \in 0..Len(toServer')
         /\ \A i \in DOMAIN toServer' : (toServer'[i].type \in Content <=> i <= c - 1)
         /\ \A i \in 1..(c - 1) : toServer'[i] = toServer[i + 1] /\ i + 1 \in 1..c /\ toServer'[i].seq = server.q
         /\ server.pc \in InTurn /\ ~Behind
<1>1. /\ Len(toServer) \in Nat \ {0} /\ DOMAIN toServer = 1..Len(toServer)
      /\ DOMAIN toServer' = 1..(Len(toServer) - 1) /\ Len(toServer') = Len(toServer) - 1
      /\ f = toServer[1] /\ f \in ToServer
      /\ \A i \in 1..(Len(toServer) - 1) : toServer'[i] = toServer[i + 1]
  BY TailFacts
<1>2. e \in Nat /\ c \in Nat /\ e <= c /\ c <= Len(toServer)
  BY DEF Frames
<1>3. c >= 1
  <2>1. 1 \in DOMAIN toServer
    BY <1>1
  <2> QED
    BY <1>1, <2>1 DEF Frames
<1>4. \A i \in DOMAIN toServer' : (toServer'[i].type \in Content <=> i <= c - 1)
  <2>1. \A i \in 1..(Len(toServer) - 1) : i + 1 \in DOMAIN toServer /\ (i + 1 <= c <=> i <= c - 1)
    BY <1>1, <1>2
  <2>2. \A i \in DOMAIN toServer : (toServer[i].type \in Content <=> i <= c)
    BY DEF Frames
  <2> QED
    BY <1>1, <2>1, <2>2
<1>5. \A i \in 1..(c - 1) : toServer'[i] = toServer[i + 1] /\ i + 1 \in 1..c /\ toServer'[i].seq = server.q
  <2>1. \A i \in 1..(c - 1) : i \in 1..(Len(toServer) - 1) /\ i + 1 \in 1..c
    BY <1>1, <1>2
  <2>2. \A i \in 1..c : toServer[i].seq = server.q
    BY DEF Frames
  <2> QED
    BY <1>1, <2>1, <2>2
<1>6. f.seq = server.q /\ server.pc \in InTurn /\ ~Behind
  <2>1. 1 \in 1..c /\ c > 0
    BY <1>2, <1>3
  <2>2. \A i \in 1..c : toServer[i].seq = server.q
    BY DEF Frames
  <2>3. c > 0 => server.pc \in InTurn /\ ~Behind
    BY DEF Frames
  <2> QED
    BY <1>1, <2>1, <2>2, <2>3
<1>7. c - 1 \in Nat /\ c - 1 <= Len(toServer') /\ c - 1 \in 0..Len(toServer')
  BY <1>1, <1>2, <1>3
<1> QED
  BY <1>1, <1>2, <1>3, <1>4, <1>5, <1>6, <1>7

\* The rest of a refused answer is passed over, message by message.
LEMMA PassedOver ==
  ASSUME IInv, toServer # <<>>, toServer' = Tail(toServer), NEW f, f = Head(toServer), f.type \in Content,
         NEW e \in 0..Len(toServer), NEW c \in 0..Len(toServer), Frames(e, c),
         server.discarding, f.type # "answer.text",
         UNCHANGED <<hook, toPage>>, HeardSoFar = 0, HeardSoFar' = 0,
         server'.pc = server.pc, server'.q = server.q,
         server'.discarding <=> f.type = "audio"
  PROVE  /\ Frames(e - 1, c - 1)' /\ e >= 1 /\ e \in Nat /\ c \in Nat
         /\ e - 1 \in 0..Len(toServer') /\ c - 1 \in 0..Len(toServer') /\ Len(toServer') = Len(toServer) - 1
         /\ Unended(e - 1)' <=> Unended(e)
         /\ f.type = "audio.end" => e = 1
<1>a. toServer \in Seq(ToServer)
  BY ChainTypes
<1>1. /\ c >= 1 /\ c \in Nat /\ e \in Nat /\ e <= c /\ c - 1 \in Nat /\ c - 1 <= Len(toServer')
      /\ f = toServer[1] /\ f \in ToServer
      /\ Len(toServer') = Len(toServer) - 1 /\ c - 1 \in 0..Len(toServer')
      /\ \A i \in DOMAIN toServer' : (toServer'[i].type \in Content <=> i <= c - 1)
      /\ \A i \in 1..(c - 1) : toServer'[i] = toServer[i + 1] /\ i + 1 \in 1..c /\ toServer'[i].seq = server.q
      /\ server.pc \in InTurn /\ ~Behind
  BY <1>a, Taken
<1>2. e >= 1
  <2>1. e = 0 => Unended(e)
    BY DEF Unended
  <2>2. e = 0 => e = c
    BY <2>1 DEF Frames
  <2> QED
    BY <1>1, <2>2
<1>3. /\ \A i \in 1..e : toServer[i].type = "audio" \/ (toServer[i].type = "audio.end" /\ i = e)
      /\ Unended(e) => e = c
      /\ Refused => e = c
  BY DEF Frames
<1>4. 1 \in 1..e /\ (f.type = "audio.end" => e = 1)
  BY <1>1, <1>2, <1>3
<1>5. \A i \in 1..(e - 1) : i \in 1..(c - 1) /\ i + 1 \in 1..e /\ (i + 1 = e => i = e - 1)
  BY <1>1, <1>2
<1>6. \A i \in 1..(e - 1) : toServer'[i].type = "audio" \/ (toServer'[i].type = "audio.end" /\ i = e - 1)
  BY <1>1, <1>3, <1>5
<1>7. Unended(e - 1)' <=> Unended(e)
  <2>1. CASE e = 1
    BY <1>1, <2>1 DEF Unended
  <2>2. CASE e > 1
    <3>1. toServer'[e - 1] = toServer[e] /\ f.type = "audio" /\ e - 1 # 0 /\ e # 0
      <4>1. e - 1 \in 1..(c - 1) /\ (e - 1) + 1 = e
        BY <1>1, <2>2
      <4>2. f.type = "audio"
        BY <1>1, <1>3, <1>4, <2>2
      <4> QED
        BY <1>1, <2>2, <4>1, <4>2
    <3> QED
      BY <3>1 DEF Unended
  <2> QED
    BY <1>1, <1>2, <2>1, <2>2
<1>8. \A i \in ((e - 1) + 1)..(c - 1) :
       \/ /\ toServer'[i].type = "audio"
          /\ toServer'[i].take = hook'.take /\ toServer'[i].size = HeardSoFar' + i - (e - 1)
       \/ /\ toServer'[i].type = "audio.end" /\ i = c - 1
          /\ toServer'[i].take = hook'.take /\ toServer'[i].size = HeardSoFar' + i - (e - 1) - 1
       \/ toServer'[i].type = "answer.text" /\ i = c - 1 /\ i = (e - 1) + 1 /\ HeardSoFar' = 0
  <2>1. \A i \in (e + 1)..c :
       \/ /\ toServer[i].type = "audio"
          /\ toServer[i].take = hook.take /\ toServer[i].size = HeardSoFar + i - e
       \/ /\ toServer[i].type = "audio.end" /\ i = c
          /\ toServer[i].take = hook.take /\ toServer[i].size = HeardSoFar + i - e - 1
       \/ toServer[i].type = "answer.text" /\ i = c /\ i = e + 1 /\ HeardSoFar = 0
    BY DEF Frames
  <2>2. \A i \in ((e - 1) + 1)..(c - 1) :
          /\ i \in 1..(c - 1) /\ i + 1 \in (e + 1)..c /\ (i + 1 = c => i = c - 1)
          /\ HeardSoFar + (i + 1) - e = HeardSoFar' + i - (e - 1)
          /\ HeardSoFar + (i + 1) - e - 1 = HeardSoFar' + i - (e - 1) - 1
          /\ (i + 1 = e + 1 => i = (e - 1) + 1)
    BY <1>1, <1>2
  <2>3. \A i \in ((e - 1) + 1)..(c - 1) : toServer'[i] = toServer[i + 1] /\ UNCHANGED hook
    BY <1>1, <2>2
  <2> QED
    BY <2>1, <2>2, <2>3
<1>9. Refused' = Refused /\ Behind' = Behind
  BY SameToPage
<1>10. /\ e - 1 <= c - 1 /\ (Refused' => e - 1 = c - 1) /\ (Unended(e - 1)' => e - 1 = c - 1)
       /\ ~server'.discarding => e - 1 = 0
       /\ e - 1 \in 0..Len(toServer')
  BY <1>1, <1>2, <1>3, <1>4, <1>7, <1>9 DEF Content
<1>11. Frames(e - 1, c - 1)'
  BY <1>1, <1>6, <1>8, <1>9, <1>10 DEF Frames
<1> QED
  BY <1>1, <1>2, <1>4, <1>7, <1>10, <1>11

LEMMA PassedChain ==
  ASSUME IInv, OneError, Chain, ~hook.lagged, HearAudio \/ HearAudioEnd, server.discarding
  PROVE  OneError' /\ Chain'
<1>a. /\ server \in Runner /\ toServer \in Seq(ToServer) /\ server.pc = "listen" /\ toServer # <<>>
      /\ toServer' = Tail(toServer) /\ UNCHANGED <<page, hook, toPage>>
  BY ChainTypes DEF HearAudio, HearAudioEnd, Listen
<1>b. Calm /\ Script /\ Linked
  BY <1>a DEF Chain, Calm, IInv, PcOK
<1>1. PICK f : f = Head(toServer)
  OBVIOUS
<1>2. /\ f.type \in {"audio", "audio.end"} /\ (server'.discarding <=> f.type = "audio")
      /\ server'.pc = server.pc /\ server'.q = server.q /\ server'.audio = server.audio
  <2>1. CASE HearAudio
    BY <1>1, <2>1 DEF HearAudio, Listen
  <2>2. CASE HearAudioEnd
    BY <1>a, <1>1, <2>2 DEF HearAudioEnd, Listen, Runner
  <2> QED
    BY <2>1, <2>2
<1>3. HeardSoFar = 0 /\ HeardSoFar' = 0
  BY <1>b, <1>2 DEF Script, NothingHeard, HeardSoFar
<1>4. /\ Refused' = Refused /\ TextComes' = TextComes /\ AudioEndComes' = AudioEndComes
      /\ CompleteComes' = CompleteComes /\ Behind' = Behind
  BY <1>a, SameToPage
<1>5. OneError'
  BY <1>a, <1>2, <1>4 DEF OneError
<1>6. Script'
  <2>1. NewsOK'
    BY <1>a, <1>b, <1>2, NewsSilent DEF InTurn, Script, NewsOK, TextComes
  <2>2. SocketOK'
    BY <1>a, <1>b, <1>2 DEF Script, SocketOK, Open
  <2>3. AudioOK'
    BY <1>a, <1>b, <1>2, <1>3 DEF Script, AudioOK
  <2>4. PICK e \in 0..Len(toServer), c \in 0..Len(toServer) : Frames(e, c)
    BY <1>b DEF Linked
  <2>5. ~Behind
    BY <1>a, <1>1, <1>2, <2>4, Taken DEF Content
  <2>6. NothingHeard'
    BY <1>a, <1>b, <1>2, <1>3, <1>4, <2>5 DEF Script, NothingHeard
  <2> QED
    BY <2>1, <2>2, <2>3, <2>6 DEF Script
<1>7. PICK e \in 0..Len(toServer), c \in 0..Len(toServer) : Frames(e, c) /\ (Open => Place(e, c))
  BY <1>b DEF Linked
<1>8. /\ Frames(e - 1, c - 1)' /\ e >= 1 /\ e \in Nat /\ c \in Nat
      /\ e - 1 \in 0..Len(toServer') /\ c - 1 \in 0..Len(toServer') /\ Len(toServer') = Len(toServer) - 1
      /\ Unended(e - 1)' <=> Unended(e)
  BY <1>a, <1>1, <1>2, <1>3, <1>7, PassedOver DEF Content
<1>9. c >= 1 /\ Len(toServer) \in Nat /\ \A i \in 1..(c - 1) : toServer'[i] = toServer[i + 1]
  BY <1>a, <1>1, <1>2, <1>7, Taken DEF Content
<1>10. Open' => Place(e - 1, c - 1)'
  <2> SUFFICES ASSUME Open PROVE Place(e - 1, c - 1)'
    BY <1>a DEF Open
  <2>1. Place(e, c)
    BY <1>7
  <2>2. c - 1 = Len(toServer') <=> c = Len(toServer)
    BY <1>8, <1>9
  <2>3. Lead(e - 1, c - 1)'
    BY <1>a, <1>2, <1>4, <1>8, <2>1, <2>2 DEF Place, Lead
  <2>4. Waiting(e - 1, c - 1)'
    <3>1. c # 0 /\ (e = c => e - 1 = c - 1)
      BY <1>8, <1>9
    <3> QED
      BY <1>a, <1>3, <2>1, <3>1 DEF Place, Waiting
  <2>5. Recording(e - 1, c - 1)'
    <3>1. \A i \in ((e - 1) + 1)..(c - 1) : i \in 1..(c - 1) /\ i + 1 \in (e + 1)..c
      BY <1>8, <1>9
    <3>2. HeardSoFar' + (c - 1) - (e - 1) = HeardSoFar + c - e
      BY <1>3, <1>8, <1>9
    <3>3. page.phase = "recording" => \A i \in (e + 1)..c : toServer[i].type = "audio"
      BY <2>1 DEF Place, Recording
    <3>4. page.phase = "recording" => \A i \in ((e - 1) + 1)..(c - 1) : toServer'[i].type = "audio"
      BY <1>9, <3>1, <3>3
    <3>5. page.phase = "recording" => (Refused => Unended(e)) /\ (~Unended(e) => HeardSoFar + c - e = hook.sent)
      BY <2>1 DEF Place, Recording
    <3> QED
      BY <1>a, <1>4, <1>8, <3>2, <3>4, <3>5 DEF Recording
  <2>6. Sending(e - 1, c - 1)'
    <3>1. e < c => e - 1 < c - 1 /\ toServer'[c - 1] = toServer[c]
      <4>1. e < c => e - 1 < c - 1 /\ c - 1 \in 1..(c - 1) /\ (c - 1) + 1 = c
        BY <1>8, <1>9
      <4> QED
        BY <1>9, <4>1
    <3> QED
      BY <1>a, <1>2, <1>4, <2>1, <3>1 DEF Place, Sending
  <2> QED
    BY <2>3, <2>4, <2>5, <2>6 DEF Place
<1> QED
  BY <1>5, <1>6, <1>8, <1>10 DEF Chain, Linked

\* The answer the runner is hearing, and where the page is in it.
LEMMA Hearing ==
  ASSUME IInv, Calm, Script, server.pc = "listen", toServer # <<>>, toServer' = Tail(toServer),
         NEW f, f = Head(toServer), f.type \in Content,
         NEW e \in 0..Len(toServer), NEW c \in 0..Len(toServer), Frames(e, c), Open => Place(e, c),
         ~server.discarding \/ f.type = "answer.text"
  PROVE  /\ ~server.discarding /\ e = 0 /\ c >= 1 /\ c \in Nat /\ ~Refused /\ ~Behind /\ f.seq = server.q
         /\ f.type = "audio" => f.take = hook.take /\ f.size = HeardSoFar + 1
         /\ f.type = "audio.end" => f.take = hook.take /\ f.size = HeardSoFar /\ c = 1
         /\ f.type = "answer.text" => HeardSoFar = 0 /\ c = 1
         /\ Open => page.phase \in {"recording", "sending", "ending"}
         /\ Open /\ page.phase = "recording" =>
              HeardSoFar + c = hook.sent /\ \A i \in 1..c : toServer[i].type = "audio"
         /\ Open /\ page.phase = "sending" => toServer[c].type \in {"audio.end", "answer.text"}
         /\ Open /\ page.phase \in {"recording", "sending"} => page.seq = server.q
<1>1. /\ c >= 1 /\ c \in Nat /\ e \in Nat /\ e <= c /\ f = toServer[1] /\ f.seq = server.q /\ ~Behind
      /\ toServer \in Seq(ToServer) /\ HeardSoFar \in Nat
  BY Taken, ChainTypes
<1>2. ~server.discarding
  <2> SUFFICES ASSUME server.discarding, f.type = "answer.text" PROVE FALSE
    OBVIOUS
  <2>1. e = 0 => Unended(e)
    BY DEF Unended
  <2>2. e = 0 => e = c
    BY <2>1 DEF Frames
  <2>3. 1 \in 1..e
    BY <1>1, <2>2
  <2> QED
    BY <1>1, <2>3 DEF Frames
<1>3. e = 0
  BY <1>2 DEF Frames
<1>4. ~Refused /\ ~Unended(e)
  BY <1>1, <1>2, <1>3 DEF Frames, Unended
<1>5. /\ f.type = "audio" => f.take = hook.take /\ f.size = HeardSoFar + 1
      /\ f.type = "audio.end" => f.take = hook.take /\ f.size = HeardSoFar /\ c = 1
      /\ f.type = "answer.text" => HeardSoFar = 0 /\ c = 1
  <2>1. 1 \in (e + 1)..c
    BY <1>1, <1>3
  <2>2. \/ /\ f.type = "audio"
           /\ f.take = hook.take /\ f.size = HeardSoFar + 1 - e
        \/ /\ f.type = "audio.end" /\ 1 = c
           /\ f.take = hook.take /\ f.size = HeardSoFar + 1 - e - 1
        \/ f.type = "answer.text" /\ 1 = c /\ HeardSoFar = 0
    BY <1>1, <2>1 DEF Frames
  <2>3. HeardSoFar + 1 - e = HeardSoFar + 1 /\ HeardSoFar + 1 - e - 1 = HeardSoFar
    BY <1>1, <1>3
  <2> QED
    BY <2>2, <2>3
<1>6. ASSUME Open
      PROVE  /\ page.phase \in {"recording", "sending", "ending"}
             /\ page.phase = "recording" =>
                  HeardSoFar + c = hook.sent /\ \A i \in 1..c : toServer[i].type = "audio"
             /\ page.phase = "sending" => toServer[c].type \in {"audio.end", "answer.text"}
             /\ page.phase \in {"recording", "sending"} => page.seq = server.q
  <2>1. Place(e, c)
    BY <1>6
  <2>2. page.phase \notin {"connecting", "preparing", "asking", "answering"} \cup Finished
    <3>1. c # 0 /\ e # c
      BY <1>1, <1>3
    <3> QED
      BY <1>6, <2>1, <3>1 DEF Place, Waiting, Script, SocketOK, Open
  <2>3. page.phase \in {"recording", "sending", "ending"}
    BY <2>2, ChainTypes DEF Phases, Finished
  <2>4. page.phase = "recording" =>
          HeardSoFar + c = hook.sent /\ \A i \in 1..c : toServer[i].type = "audio"
    <3>1. page.phase = "recording" =>
            HeardSoFar + c - e = hook.sent /\ \A i \in (e + 1)..c : toServer[i].type = "audio"
      BY <1>4, <2>1 DEF Place, Recording
    <3>2. HeardSoFar + c - e = HeardSoFar + c /\ e + 1 = 1
      BY <1>1, <1>3
    <3> QED
      BY <3>1, <3>2
  <2>5. ~CompleteComes
    BY <1>1 DEF Behind
  <2>6. page.phase = "sending" => toServer[c].type \in {"audio.end", "answer.text"} /\ page.seq = server.q
    BY <1>4, <2>1, <2>5 DEF Place, Sending
  <2>7. page.phase = "recording" => page.seq = server.q
    BY <2>1 DEF Place, Lead
  <2> QED
    BY <2>3, <2>4, <2>6, <2>7
<1> QED
  BY <1>1, <1>2, <1>3, <1>4, <1>5, <1>6

\* One more frame is heard.
LEMMA JoinChain ==
  ASSUME IInv, OneError, Chain, ~hook.lagged, HearAudio, ~server.discarding, ~Overflows
  PROVE  OneError' /\ Chain'
<1>a. /\ server \in Runner /\ toServer \in Seq(ToServer) /\ server.pc = "listen" /\ toServer # <<>>
      /\ toServer' = Tail(toServer) /\ UNCHANGED <<page, hook, toPage>> /\ server.audio.heard \in Nat
  BY ChainTypes DEF HearAudio, Listen
<1>b. Calm /\ Script /\ Linked
  BY <1>a DEF Chain, Calm, IInv, PcOK
<1>1. PICK f : f = Head(toServer) /\ f.type = "audio"
  BY DEF HearAudio, Listen
<1>2. /\ server'.pc = "listen" /\ server'.q = server.q /\ server'.discarding = server.discarding
      /\ server'.exit = server.exit
      /\ server'.audio.from = server.audio.from \cup {<<f.seq, f.take>>}
      /\ server'.audio.heard = server.audio.heard + 1
  <2>1. server' = [server EXCEPT !.audio = Joined(f)]
    BY <1>1 DEF HearAudio
  <2>2. /\ Joined(f).from = server.audio.from \cup {<<f.seq, f.take>>}
        /\ Joined(f).heard = server.audio.heard + 1
    BY <1>a DEF Joined, Runner, Audio
  <2> QED
    BY <1>a, <2>1, <2>2 DEF Runner
<1>3. /\ Refused' = Refused /\ TextComes' = TextComes /\ AudioEndComes' = AudioEndComes
      /\ CompleteComes' = CompleteComes /\ Behind' = Behind
      /\ HeardSoFar = server.audio.heard /\ HeardSoFar' = HeardSoFar + 1 /\ HeardSoFar \in Nat
  BY <1>a, <1>2, SameToPage DEF HeardSoFar
<1>4. OneError'
  BY <1>a, <1>2, <1>3 DEF OneError
<1>5. PICK e \in 0..Len(toServer), c \in 0..Len(toServer) : Frames(e, c) /\ (Open => Place(e, c))
  BY <1>b DEF Linked
<1>6. /\ e = 0 /\ c >= 1 /\ c \in Nat /\ ~Refused /\ ~Behind /\ f.seq = server.q
      /\ f.take = hook.take
      /\ Open => page.phase \in {"recording", "sending", "ending"}
      /\ Open /\ page.phase = "recording" =>
           HeardSoFar + c = hook.sent /\ \A i \in 1..c : toServer[i].type = "audio"
      /\ Open /\ page.phase = "sending" => toServer[c].type \in {"audio.end", "answer.text"}
      /\ Open /\ page.phase \in {"recording", "sending"} => page.seq = server.q
  BY <1>a, <1>b, <1>1, <1>5, Hearing DEF Content
<1>7. /\ c - 1 \in 0..Len(toServer') /\ c - 1 <= Len(toServer') /\ f = toServer[1]
      /\ Len(toServer') = Len(toServer) - 1 /\ Len(toServer) \in Nat
      /\ \A i \in DOMAIN toServer' : (toServer'[i].type \in Content <=> i <= c - 1)
      /\ \A i \in 1..(c - 1) : toServer'[i] = toServer[i + 1] /\ i + 1 \in 1..c /\ toServer'[i].seq = server.q
  BY <1>a, <1>1, <1>5, Taken DEF Content
<1>8. Script'
  <2>1. NewsOK'
    BY <1>a, <1>b, <1>2, <1>6, NewsSilent DEF Behind
  <2>2. SocketOK'
    BY <1>a, <1>b, <1>2 DEF Script, SocketOK, Open
  <2>3. NothingHeard'
    BY <1>2, <1>3, <1>6, <1>b DEF NothingHeard, Script
  <2>4. AudioOK'
    <3>1. server.audio.from \subseteq {<<server.q, hook.take>>}
      BY <1>a, <1>b, <1>3 DEF Script, AudioOK
    <3>2. server'.audio.from = {<<server.q, hook.take>>} /\ server'.audio.heard # 0
      BY <1>2, <1>3, <1>6, <3>1
    <3> QED
      BY <1>a, <1>2, <3>2 DEF AudioOK
  <2> QED
    BY <2>1, <2>2, <2>3, <2>4 DEF Script
<1>9. ~Unended(0)'
  BY <1>2, <1>6, <1>5 DEF Unended, Frames
<1>n. ~server.discarding
  OBVIOUS
<1>10. Frames(0, c - 1)'
  <2>1. \A i \in (0 + 1)..(c - 1) :
          \/ /\ toServer'[i].type = "audio"
             /\ toServer'[i].take = hook'.take /\ toServer'[i].size = HeardSoFar' + i - 0
          \/ /\ toServer'[i].type = "audio.end" /\ i = c - 1
             /\ toServer'[i].take = hook'.take /\ toServer'[i].size = HeardSoFar' + i - 0 - 1
          \/ toServer'[i].type = "answer.text" /\ i = c - 1 /\ i = 0 + 1 /\ HeardSoFar' = 0
    <3>1. \A i \in 1..c :
            \/ /\ toServer[i].type = "audio"
               /\ toServer[i].take = hook.take /\ toServer[i].size = HeardSoFar + i
            \/ /\ toServer[i].type = "audio.end" /\ i = c
               /\ toServer[i].take = hook.take /\ toServer[i].size = HeardSoFar + i - 1
            \/ toServer[i].type = "answer.text" /\ i = c /\ i = 1
      <4>1. \A i \in (e + 1)..c :
              \/ /\ toServer[i].type = "audio"
                 /\ toServer[i].take = hook.take /\ toServer[i].size = HeardSoFar + i - e
              \/ /\ toServer[i].type = "audio.end" /\ i = c
                 /\ toServer[i].take = hook.take /\ toServer[i].size = HeardSoFar + i - e - 1
              \/ toServer[i].type = "answer.text" /\ i = c /\ i = e + 1
        BY <1>5 DEF Frames
      <4>2. \A i \in 1..c : i \in (e + 1)..c /\ HeardSoFar + i - e = HeardSoFar + i /\ e + 1 = 1
        <5>1. PICK h \in Nat : h = HeardSoFar
          BY <1>3
        <5>2. \A i \in 1..c : h + i - 0 = h + i /\ 0 + 1 = 1 /\ i \in (0 + 1)..c
          BY <1>6, <5>1
        <5>3. e = 0
          BY <1>6
        <5>4. e + 1 = 1
          BY <5>3
        <5>5. \A i \in 1..c : HeardSoFar + i - e = HeardSoFar + i
          BY <5>1, <5>2, <5>3
        <5>6. \A i \in 1..c : i \in (e + 1)..c
          BY <5>2, <5>3
        <5> QED
          BY <5>4, <5>5, <5>6
      <4> TAKE i \in 1..c
      <4>3. i \in (e + 1)..c /\ HeardSoFar + i - e = HeardSoFar + i /\ e + 1 = 1
        BY <4>2
      <4>4. HeardSoFar + i - e - 1 = HeardSoFar + i - 1
        BY <4>3
      <4>5. \/ /\ toServer[i].type = "audio"
               /\ toServer[i].take = hook.take /\ toServer[i].size = HeardSoFar + i - e
            \/ /\ toServer[i].type = "audio.end" /\ i = c
               /\ toServer[i].take = hook.take /\ toServer[i].size = HeardSoFar + i - e - 1
            \/ toServer[i].type = "answer.text" /\ i = c /\ i = e + 1
        BY <4>1, <4>3
      <4> QED
        BY <4>3, <4>4, <4>5
    <3>2. \A i \in 1..(c - 1) : /\ i + 1 \in 1..c /\ i + 1 # 1 /\ (i + 1 = c => i = c - 1)
                                /\ HeardSoFar + (i + 1) = HeardSoFar' + i - 0
                                /\ HeardSoFar + (i + 1) - 1 = HeardSoFar' + i - 0 - 1
      <4>1. PICK h \in Nat : h = HeardSoFar
        BY <1>3
      <4>2. \A i \in 1..(c - 1) : /\ i + 1 \in 1..c /\ i + 1 # 1 /\ (i + 1 = c => i = c - 1)
                                  /\ h + (i + 1) = (h + 1) + i - 0
                                  /\ h + (i + 1) - 1 = (h + 1) + i - 0 - 1
        BY <1>6
      <4> QED
        BY <1>3, <4>1, <4>2
    <3>3. \A i \in 1..(c - 1) : toServer'[i] = toServer[i + 1] /\ hook' = hook
      BY <1>a, <1>7
    <3>4. 0 + 1 = 1
      OBVIOUS
    <3> QED
      BY ZenonT(40), <3>1, <3>2, <3>3, <3>4
  <2>2. 0 <= c - 1 /\ 1..0 = {}
    BY <1>6
  <2>3. \A i \in 1..(c - 1) : toServer'[i].seq = server'.q
    BY <1>2, <1>7
  <2> QED
    BY <1>2, <1>3, <1>6, <1>7, <1>9, <1>n, <2>1, <2>2, <2>3 DEF Frames, InTurn
<1>11. Open' => Place(0, c - 1)'
  <2> SUFFICES ASSUME Open PROVE Place(0, c - 1)'
    BY <1>a DEF Open
  <2>1. Lead(0, c - 1)'
    <3>1. c - 1 = Len(toServer') <=> c = Len(toServer)
      BY <1>6, <1>7
    <3> QED
      BY <1>5, <1>6, <1>a, <1>2, <1>9, <3>1 DEF Place, Lead, InTurn
  <2>2. Waiting(0, c - 1)'
    BY <1>6, <1>a DEF Waiting
  <2>3. Recording(0, c - 1)'
    <3>1. \A i \in (0 + 1)..(c - 1) : i \in 1..(c - 1) /\ i + 1 \in 1..c
      BY <1>6
    <3>2. HeardSoFar' + (c - 1) - 0 = HeardSoFar + c
      BY <1>3, <1>6
    <3>3. page.phase = "recording" => \A i \in (0 + 1)..(c - 1) : toServer'[i].type = "audio"
      BY <1>6, <1>7, <3>1
    <3> QED
      BY <1>a, <1>3, <1>6, <3>2, <3>3 DEF Recording
  <2>4. Sending(0, c - 1)'
    <3>1. page.phase = "sending" => 0 < c - 1 /\ toServer'[c - 1] = toServer[c]
      <4>1. page.phase = "sending" => c # 1
        BY <1>1, <1>6, <1>7
      <4>2. c # 1 => 0 < c - 1 /\ c - 1 \in 1..(c - 1) /\ (c - 1) + 1 = c
        BY <1>6
      <4> QED
        BY <1>7, <4>1, <4>2
    <3> QED
      BY <1>a, <1>2, <1>6, <3>1 DEF Sending, InTurn
  <2> QED
    BY <2>1, <2>2, <2>3, <2>4 DEF Place
<1>12. 0 \in 0..Len(toServer')
  BY <1>7, <1>6
<1> QED
  BY <1>4, <1>7, <1>8, <1>10, <1>11, <1>12 DEF Chain, Linked

\* The answer is too long: what follows of it is passed over.
LEMMA OverflowChain ==
  ASSUME IInv, OneError, Chain, ~hook.lagged, HearAudio, ~server.discarding, Overflows
  PROVE  OneError' /\ Chain'
<1>a. /\ server \in Runner /\ toServer \in Seq(ToServer) /\ server.pc = "listen" /\ toServer # <<>>
      /\ toServer' = Tail(toServer) /\ UNCHANGED <<page, hook>> /\ toPage \in Seq(ToPage)
  BY ChainTypes DEF HearAudio, Listen
<1>b. Calm /\ Script /\ Linked
  BY <1>a DEF Chain, Calm, IInv, PcOK
<1>1. PICK f : f = Head(toServer) /\ f.type = "audio"
  BY DEF HearAudio, Listen
<1>m. PICK m \in ToPage : Says(m) /\ m.type = "error" /\ m.code = "answer_too_long"
  BY MessageTypes DEF HearAudio
<1>2. /\ server'.pc = "listen" /\ server'.q = server.q /\ server'.discarding = TRUE
      /\ server'.audio = Silence /\ HeardSoFar' = 0 /\ Mendable(m)
  <2>1. server' = Dropped
    BY DEF HearAudio
  <2>2. server'.pc = "listen" /\ server'.q = server.q /\ server'.discarding = TRUE /\ server'.audio = Silence
    BY <1>a, <2>1 DEF Dropped, Runner
  <2> QED
    BY <1>m, <2>2 DEF HeardSoFar, Silence, Mendable, Fatal
<1>5. PICK e \in 0..Len(toServer), c \in 0..Len(toServer) : Frames(e, c) /\ (Open => Place(e, c))
  BY <1>b DEF Linked
<1>6. /\ e = 0 /\ c >= 1 /\ c \in Nat /\ ~Refused /\ ~Behind
      /\ Open => page.phase \in {"recording", "sending", "ending"}
      /\ Open /\ page.phase = "recording" => \A i \in 1..c : toServer[i].type = "audio"
      /\ Open /\ page.phase = "sending" => toServer[c].type \in {"audio.end", "answer.text"}
      /\ Open /\ page.phase \in {"recording", "sending"} => page.seq = server.q
  BY <1>a, <1>b, <1>1, <1>5, Hearing DEF Content
<1>7. /\ c - 1 \in 0..Len(toServer') /\ c - 1 <= Len(toServer') /\ f = toServer[1]
      /\ Len(toServer') = Len(toServer) - 1 /\ Len(toServer) \in Nat
      /\ \A i \in DOMAIN toServer' : (toServer'[i].type \in Content <=> i <= c - 1)
      /\ \A i \in 1..(c - 1) : toServer'[i] = toServer[i + 1] /\ i + 1 \in 1..c /\ toServer'[i].seq = server.q
  BY <1>a, <1>1, <1>5, Taken DEF Content
<1>3. Open => Refused' /\ ~Behind' /\ (TextComes' <=> TextComes) /\ (CompleteComes' <=> CompleteComes)
  BY <1>a, <1>m, <1>2, <1>6, Said
<1>4. ~Open => UNCHANGED toPage
  BY <1>b, <1>m, NoneSaid
<1>8. ~Behind' /\ (~Open => ~Refused')
  BY <1>3, <1>4, <1>6, SameToPage
<1>9. OneError'
  <2>1. CASE Open
    BY <1>a, <1>m, <1>2, <1>6, <2>1, OneErrorSaid DEF Over
  <2>2. CASE ~Open
    BY <1>8, <2>2 DEF OneError, Mendable
  <2> QED
    BY <2>1, <2>2
<1>10. Script'
  <2>1. NewsOK'
    <3>1. NextNews(m)
      BY <1>m, <1>2, <1>6 DEF NextNews, Behind
    <3> QED
      BY <1>a, <1>b, <1>m, <3>1, NewsSaid
  <2>2. SocketOK'
    <3>1. ~Open' => toPage' = <<>>
      BY <1>a, <1>b, <1>m, NoneSaid DEF Open
    <3> QED
      BY <1>a, <1>b, <1>2, <3>1 DEF Script, SocketOK, Open
  <2>3. NothingHeard' /\ AudioOK'
    BY <1>2, <1>8 DEF NothingHeard, AudioOK, Silence
  <2> QED
    BY <2>1, <2>2, <2>3 DEF Script
<1>11. \A i \in 1..(c - 1) : toServer'[i].type = "audio" \/ (toServer'[i].type = "audio.end" /\ i = c - 1)
  <2>1. \A i \in (e + 1)..c : \/ toServer[i].type = "audio"
                              \/ toServer[i].type = "audio.end" /\ i = c
                              \/ toServer[i].type = "answer.text" /\ i = e + 1
    BY <1>5 DEF Frames
  <2>2. \A i \in 1..(c - 1) : i + 1 \in (e + 1)..c /\ i + 1 # e + 1 /\ (i + 1 = c => i = c - 1)
    BY <1>6
  <2> QED
    BY <1>7, <2>1, <2>2
<1>12. Frames(c - 1, c - 1)'
  <2>1. \A i \in 1..(c - 1) : toServer'[i].seq = server'.q
    BY <1>2, <1>7
  <2>2. ((c - 1) + 1)..(c - 1) = {} /\ c - 1 <= c - 1
    BY <1>6
  <2> QED
    BY <1>2, <1>7, <1>8, <1>11, <2>1, <2>2 DEF Frames, InTurn
<1>13. Open' => Place(c - 1, c - 1)'
  <2> SUFFICES ASSUME Open PROVE Place(c - 1, c - 1)'
    BY <1>a DEF Open
  <2>1. c # 1 => toServer'[c - 1] = toServer[c]
    <3>1. c # 1 => c - 1 \in 1..(c - 1) /\ (c - 1) + 1 = c
      BY <1>6
    <3> QED
      BY <1>7, <3>1
  <2>2. page.phase = "sending" => ~Unended(c - 1)'
    <3>1. page.phase = "sending" => c # 1 /\ c - 1 # 0
      BY <1>1, <1>6, <1>7
    <3> QED
      BY <1>6, <2>1, <3>1 DEF Unended
  <2>3. page.phase = "recording" => Unended(c - 1)'
    <3>1. c - 1 = 0 \/ (c # 1 /\ c \in 1..c)
      BY <1>6
    <3> QED
      BY <1>2, <1>6, <2>1, <3>1 DEF Unended
  <2>4. Lead(c - 1, c - 1)'
    <3>1. c - 1 = Len(toServer') <=> c = Len(toServer)
      BY <1>6, <1>7
    <3> QED
      BY <1>3, <1>5, <1>6, <1>a, <1>2, <2>2, <3>1 DEF Place, Lead, InTurn
  <2>5. Waiting(c - 1, c - 1)'
    BY <1>6, <1>a DEF Waiting
  <2>6. Recording(c - 1, c - 1)'
    <3>1. ((c - 1) + 1)..(c - 1) = {}
      BY <1>6
    <3> QED
      BY <1>a, <2>3, <3>1 DEF Recording
  <2>7. Sending(c - 1, c - 1)'
    BY <1>a, <1>2, <1>3, <1>6 DEF Sending, InTurn
  <2> QED
    BY <2>4, <2>5, <2>6, <2>7 DEF Place
<1> QED
  BY <1>7, <1>9, <1>10, <1>12, <1>13 DEF Chain, Linked

\* The last message of an answer.
LEMMA LastTaken ==
  ASSUME IInv, Calm, Script, Linked, server.pc = "listen", toServer # <<>>, toServer' = Tail(toServer),
         UNCHANGED <<page, hook>>, NEW f, f = Head(toServer), f.type \in {"audio.end", "answer.text"},
         ~server.discarding \/ f.type = "answer.text",
         server'.pc # "admit", ~server'.discarding, HeardSoFar' = 0, ~Behind', server'.q = server.q,
         Open => Refused' \/ server'.pc \in {"transcribe", "record", "turn"},
         server'.pc \in InTurn \cup {"transcribe", "record", "turn"}
  PROVE  /\ Linked' /\ ~server.discarding /\ ~Refused /\ ~Behind
         /\ f.seq = server.q
         /\ f.type = "audio.end" => f.take = hook.take /\ f.size = HeardSoFar
         /\ Open => page.phase \in {"sending", "ending"} /\ (page.phase = "sending" => page.seq = server.q)
<1>a. toServer \in Seq(ToServer) /\ f.type \in Content
  BY ChainTypes DEF Content
<1>1. PICK e \in 0..Len(toServer), c \in 0..Len(toServer) : Frames(e, c) /\ (Open => Place(e, c))
  BY DEF Linked
<1>2. /\ ~server.discarding /\ e = 0 /\ c \in Nat /\ ~Refused /\ ~Behind /\ f.seq = server.q
      /\ f.type = "audio.end" => f.take = hook.take /\ f.size = HeardSoFar
      /\ c = 1
      /\ Open => page.phase \in {"recording", "sending", "ending"}
      /\ Open /\ page.phase = "recording" => \A i \in 1..c : toServer[i].type = "audio"
      /\ Open /\ page.phase \in {"recording", "sending"} => page.seq = server.q
  BY <1>a, <1>1, Hearing
<1>3. /\ f = toServer[1] /\ Len(toServer') = Len(toServer) - 1 /\ Len(toServer) \in Nat /\ 0 \in 0..Len(toServer')
      /\ \A i \in DOMAIN toServer' : (toServer'[i].type \in Content <=> i <= 0)
  <2>1. /\ c - 1 = 0 /\ c - 1 \in 0..Len(toServer')
        /\ f = toServer[1] /\ Len(toServer') = Len(toServer) - 1
        /\ \A i \in DOMAIN toServer' : (toServer'[i].type \in Content <=> i <= c - 1)
    BY <1>a, <1>1, <1>2, Taken
  <2> QED
    BY <2>1, ChainTypes
<1>4. Open => page.phase \in {"sending", "ending"}
  BY <1>2, <1>3
<1>5. ~Unended(0)'
  BY DEF Unended
<1>6. Frames(0, 0)'
  <2>1. 1..0 = {} /\ (0 + 1)..0 = {} /\ 0 <= Len(toServer')
    BY <1>3
  <2> QED
    BY <1>3, <1>5, <2>1 DEF Frames
<1>7. Open' => Place(0, 0)'
  <2> SUFFICES ASSUME Open PROVE Place(0, 0)'
    BY DEF Open
  <2>1. Lead(0, 0)'
    <3>1. page.phase # "ending" => c = Len(toServer)
      BY <1>1 DEF Place, Lead
    <3>2. ~hook.mic
      BY <1>1, <1>4, ChainTypes DEF Place, Lead, Hook
    <3>3. page.phase # "ending" => Len(toServer') = 0
      BY <1>2, <1>3, <3>1
    <3> QED
      BY <1>4, <1>5, <3>2, <3>3 DEF Lead
  <2>2. Waiting(0, 0)' /\ Recording(0, 0)'
    BY <1>4 DEF Waiting, Recording
  <2>3. Sending(0, 0)'
    BY <1>2 DEF Sending
  <2> QED
    BY <2>1, <2>2, <2>3 DEF Place
<1> QED
  BY <1>2, <1>3, <1>4, <1>6, <1>7 DEF Linked

LEMMA AnswerEndChain ==
  ASSUME IInv, OneError, Chain, ~hook.lagged, (HearAudioEnd /\ ~server.discarding) \/ HearText
  PROVE  OneError' /\ Chain'
<1>a. /\ server \in Runner /\ toServer \in Seq(ToServer) /\ server.pc = "listen" /\ toServer # <<>>
      /\ toServer' = Tail(toServer) /\ UNCHANGED <<page, hook>> /\ toPage \in Seq(ToPage)
      /\ server.audio.heard \in Nat /\ HeardSoFar = server.audio.heard
  BY ChainTypes DEF HearAudioEnd, HearText, Listen, HeardSoFar
<1>b. Calm /\ Script /\ Linked
  BY <1>a DEF Chain, Calm, IInv, PcOK
<1>1. PICK f : f = Head(toServer) /\ f.type \in {"audio.end", "answer.text"}
               /\ (~server.discarding \/ f.type = "answer.text")
  BY DEF HearAudioEnd, HearText, Listen
<1>2. ~Behind /\ f \in ToServer
  <2>1. PICK e \in 0..Len(toServer), c \in 0..Len(toServer) : Frames(e, c)
    BY <1>b DEF Linked
  <2> QED
    BY <1>a, <1>1, <2>1, Taken DEF Content
<1>3. CASE HearAudioEnd /\ ~server.discarding /\ server.audio.heard = 0
  <2>1. PICK m \in ToPage : Says(m) /\ m.type = "error" /\ m.code = "no_speech"
    BY <1>3, MessageTypes DEF HearAudioEnd
  <2>2. UNCHANGED server /\ ~server.discarding /\ HeardSoFar' = 0 /\ Mendable(m) /\ f.type = "audio.end"
    <3>1. UNCHANGED server /\ f.type = "audio.end"
      BY <1>1, <1>3 DEF HearAudioEnd, Listen
    <3>2. HeardSoFar' = 0
      BY <1>a, <1>3, <3>1, SameAudio
    <3> QED
      BY <1>3, <2>1, <3>1, <3>2 DEF Mendable, Fatal
  <2>3. Open => Refused' /\ ~Behind'
    BY <1>a, <1>2, <2>1, <2>2, Said
  <2>4. ~Open => UNCHANGED toPage
    BY <1>b, <2>1, NoneSaid
  <2>5. ~Behind'
    BY <1>2, <2>3, <2>4, SameToPage
  <2>6. /\ Linked' /\ ~Refused
        /\ Open => page.phase \in {"sending", "ending"} /\ (page.phase = "sending" => page.seq = server.q)
    BY <1>a, <1>b, <1>1, <2>2, <2>3, <2>5, LastTaken DEF InTurn
  <2>7. OneError'
    <3>1. CASE Open
      BY <1>a, <1>2, <2>1, <2>2, <2>6, <3>1, OneErrorSaid DEF Over
    <3>2. CASE ~Open
      BY <2>4, <2>6, <3>2, SameToPage DEF OneError, Mendable
    <3> QED
      BY <3>1, <3>2
  <2>8. Script'
    <3>1. NewsOK'
      <4>1. NextNews(m)
        BY <1>2, <2>1, <2>2, <2>6 DEF NextNews, Behind
      <4> QED
        BY <1>a, <1>b, <2>1, <4>1, NewsSaid
    <3>2. SocketOK'
      <4>1. ~Open' => toPage' = <<>>
        BY <1>a, <1>b, <2>1, NoneSaid DEF Open
      <4> QED
        BY <1>a, <1>b, <2>2, <4>1 DEF Script, SocketOK, Open
    <3>3. NothingHeard'
      BY <1>a, <2>2, <2>5 DEF NothingHeard
    <3>4. AudioOK'
      BY <1>a, <1>b, <2>2 DEF Script, AudioOK
    <3> QED
      BY <3>1, <3>2, <3>3, <3>4 DEF Script
  <2> QED
    BY <2>6, <2>7, <2>8 DEF Chain
<1>4. CASE (HearAudioEnd /\ ~server.discarding /\ server.audio.heard # 0) \/ HearText
  <2>1. /\ UNCHANGED toPage /\ server'.pc \in {"transcribe", "record"} /\ server'.q = server.q
        /\ server'.discarding = server.discarding
        /\ server'.pc = "transcribe" =>
             /\ f.type = "audio.end" /\ server.audio.heard # 0
             /\ server'.audio.from = server.audio.from /\ server'.audio.heard = server.audio.heard
             /\ server'.audio.said = f.size
        /\ server'.pc = "record" =>
             /\ server'.audio.from = {<<f.seq, 0>>} /\ server'.audio.heard = 0 /\ server'.audio.said = 0
    <3>1. CASE HearAudioEnd /\ ~server.discarding /\ server.audio.heard # 0
      <4>1. server' = [server EXCEPT !.pc = "transcribe", !.audio.said = f.size] /\ UNCHANGED toPage
            /\ f.type = "audio.end"
        BY <1>1, <3>1 DEF HearAudioEnd, Listen
      <4>2. server'.pc = "transcribe" /\ server'.q = server.q /\ server'.discarding = server.discarding
            /\ server'.audio = [server.audio EXCEPT !.said = f.size]
        BY <1>a, <4>1 DEF Runner
      <4>3. server.audio \in Audio
        BY <1>a DEF Runner
      <4>4. /\ server'.audio.from = server.audio.from /\ server'.audio.heard = server.audio.heard
            /\ server'.audio.said = f.size
        BY <4>2, <4>3 DEF Audio
      <4> QED
        BY <3>1, <4>1, <4>2, <4>4
    <3>2. CASE HearText
      <4>1. server' = [server EXCEPT !.pc = "record", !.audio = [Silence EXCEPT !.from = {<<f.seq, 0>>}]]
        BY <1>1, <3>2 DEF HearText
      <4>2. server'.audio = [Silence EXCEPT !.from = {<<f.seq, 0>>}] /\ server'.pc = "record"
            /\ server'.q = server.q /\ server'.discarding = server.discarding
        BY <1>a, <4>1 DEF Runner
      <4> QED
        BY <3>2, <4>2 DEF HearText, Silence
    <3> QED
      BY <1>4, <3>1, <3>2
  <2>2. /\ Refused' = Refused /\ TextComes' = TextComes /\ AudioEndComes' = AudioEndComes
        /\ CompleteComes' = CompleteComes /\ Behind' = Behind /\ HeardSoFar' = 0
    BY <2>1, SameToPage DEF HeardSoFar
  <2>3. ~server.discarding
    <3>1. PICK e \in 0..Len(toServer), c \in 0..Len(toServer) : Frames(e, c) /\ (Open => Place(e, c))
      BY <1>b DEF Linked
    <3> QED
      BY <1>a, <1>b, <1>1, <3>1, Hearing DEF Content
  <2>4. /\ Linked' /\ ~Refused /\ f.seq = server.q
        /\ f.type = "audio.end" => f.take = hook.take /\ f.size = HeardSoFar
        /\ Open => page.phase \in {"sending", "ending"}
    BY <1>a, <1>b, <1>1, <1>2, <2>1, <2>2, <2>3, LastTaken
  <2>5. OneError'
    BY <2>2, <2>4 DEF OneError, Mendable
  <2>6. Script'
    <3>1. NewsOK'
      BY <1>a, <1>b, <1>2, <2>1, NewsSilent DEF Behind, InTurn
    <3>2. SocketOK'
      BY <1>a, <1>b, <2>1, <2>4 DEF Script, SocketOK, Open
    <3>3. NothingHeard'
      BY <1>2, <2>1, <2>2, <2>3, <2>4 DEF NothingHeard
    <3>4. AudioOK'
      <4>1. CASE server'.pc = "transcribe"
        <5>1. server'.audio.heard = server'.audio.said
          BY <1>a, <2>1, <2>4, <4>1
        <5>2. server.audio.heard > 0
          BY <1>a, <2>1, <4>1
        <5>3. server'.audio.from = {<<server'.q, hook.take>>}
          BY <1>a, <1>b, <2>1, <4>1, <5>2 DEF Script, AudioOK
        <5> QED
          BY <2>2, <4>1, <5>1, <5>3, ChainTypes DEF AudioOK
      <4>2. CASE server'.pc = "record"
        <5>1. 0 \in 0..MaxTakes
          BY LiveAssumption
        <5>2. server'.audio.from = {<<server'.q, 0>>} /\ server'.audio.heard = server'.audio.said
          BY <2>1, <2>4, <4>2
        <5> QED
          BY <2>2, <4>2, <5>1, <5>2 DEF AudioOK
      <4> QED
        BY <2>1, <4>1, <4>2
    <3> QED
      BY <3>1, <3>2, <3>3, <3>4 DEF Script
  <2> QED
    BY <2>4, <2>5, <2>6 DEF Chain
<1> QED
  BY <1>3, <1>4

\* The session is let in.
LEMMA AdmitChain ==
  ASSUME IInv, OneError, Chain, ~hook.lagged, Admit
  PROVE  OneError' /\ Chain'
<1>a. /\ server \in Runner /\ toServer \in Seq(ToServer) /\ server.pc = "admit" /\ toServer # <<>>
      /\ toServer' = Tail(toServer) /\ UNCHANGED <<page, hook, toPage>>
  BY ChainTypes DEF Admit
<1>b. Calm /\ Script /\ Linked
  BY <1>a DEF Chain, Calm, IInv, PcOK
<1>1. /\ Refused' = Refused /\ TextComes' = TextComes /\ AudioEndComes' = AudioEndComes
      /\ CompleteComes' = CompleteComes /\ Behind' = Behind
  BY <1>a, SameToPage
<1>2. ~Refused /\ ~Behind /\ ~server.discarding /\ HeardSoFar = 0 /\ toPage = <<>>
  BY <1>a, <1>b DEF Script, SocketOK, NothingHeard, Refused, Behind, TextComes, CompleteComes, HeardSoFar
<1>3. OneError'
  BY <1>1, <1>2 DEF OneError, Mendable
<1>4. ASSUME To("load")
      PROVE  Chain'
  <2>1. server'.pc = "load" /\ server'.q = server.q /\ server'.discarding = server.discarding
        /\ server'.audio = server.audio /\ HeardSoFar' = 0
    BY <1>a, <1>4, ToFacts DEF PcValues, HeardSoFar
  <2>2. Script'
    <3>1. NewsOK'
      BY <1>a, <1>2 DEF NewsOK
    <3>2. SocketOK'
      BY <1>a, <1>b, <2>1 DEF Script, SocketOK, Open
    <3>3. NothingHeard' /\ AudioOK'
      BY <1>1, <1>2, <2>1 DEF NothingHeard, AudioOK
    <3> QED
      BY <3>1, <3>2, <3>3 DEF Script
  <2>3. PICK e \in 0..Len(toServer), c \in 0..Len(toServer) : Frames(e, c) /\ (Open => Place(e, c))
    BY <1>b DEF Linked
  <2>4. c = 0 /\ e = 0
    BY <1>a, <2>3 DEF Frames, InTurn
  <2>5. /\ Len(toServer) \in Nat \ {0} /\ Len(toServer') = Len(toServer) - 1 /\ 0 \in 0..Len(toServer')
        /\ \A i \in DOMAIN toServer' : toServer'[i].type \notin Content /\ ~(i <= 0)
    <3>1. /\ Len(toServer) \in Nat \ {0} /\ DOMAIN toServer = 1..Len(toServer)
          /\ DOMAIN toServer' = 1..(Len(toServer) - 1) /\ Len(toServer') = Len(toServer) - 1
          /\ \A i \in 1..(Len(toServer) - 1) : toServer'[i] = toServer[i + 1]
      BY <1>a, TailFacts
    <3>2. \A i \in 1..(Len(toServer) - 1) : i + 1 \in DOMAIN toServer /\ ~(i + 1 <= 0) /\ ~(i <= 0)
      BY <3>1
    <3>3. \A i \in DOMAIN toServer : (toServer[i].type \in Content <=> i <= 0)
      BY <2>3, <2>4 DEF Frames
    <3>4. \A i \in 1..(Len(toServer) - 1) : toServer'[i].type \notin Content /\ ~(i <= 0)
      BY <3>1, <3>2, <3>3
    <3>5. Len(toServer) - 1 \in Nat
      BY <3>1
    <3> QED
      BY <3>1, <3>4, <3>5
  <2>6. ~Unended(0)'
    BY <1>2, <2>1 DEF Unended
  <2>7. Frames(0, 0)'
    <3>1. 1..0 = {} /\ (0 + 1)..0 = {} /\ 0 <= Len(toServer')
      BY <2>5
    <3> QED
      BY <1>1, <1>2, <2>5, <2>6, <3>1 DEF Frames
  <2>8. Open' => Place(0, 0)'
    <3> SUFFICES ASSUME Open PROVE Place(0, 0)'
      BY <1>a DEF Open
    <3>1. page.phase \in {"connecting", "ending"} /\ (page.phase = "connecting" => Len(toServer) = 1)
      <4>1. SocketOK /\ hook.sock = "open"
        BY <1>b DEF Script, Open
      <4>2. page.phase \in {"connecting"} \cup Over /\ page.phase \notin Finished
        BY <1>a, <4>1 DEF SocketOK
      <4>3. server.pc = "admit" /\ Open
        BY <1>a
      <4>4. page.phase = "connecting" => Len(toServer) = 1
        BY <4>1, <4>3 DEF SocketOK
      <4> QED
        BY <4>2, <4>4 DEF Over
    <3>2. page.phase = "connecting" => Len(toServer') = 0
      <4> SUFFICES ASSUME page.phase = "connecting" PROVE Len(toServer') = 0
        OBVIOUS
      <4>1. Len(toServer) = 1
        BY <3>1
      <4>2. Len(toServer') = 1 - 1
        BY <2>5, <4>1
      <4> QED
        BY <4>2
    <3>3. ~hook.mic
      BY <2>3, <3>1, ChainTypes DEF Place, Lead, Hook
    <3>4. Lead(0, 0)'
      BY <1>a, <2>6, <3>1, <3>2, <3>3 DEF Lead
    <3>5. Waiting(0, 0)' /\ Recording(0, 0)' /\ Sending(0, 0)'
      BY <1>a, <1>2, <2>1, <3>1 DEF Waiting, Recording, Sending, InTurn
    <3> QED
      BY <3>4, <3>5 DEF Place
  <2> QED
    BY <2>2, <2>5, <2>7, <2>8 DEF Chain, Linked
<1>5. ASSUME Exit("refused")
      PROVE  ~Calm'
  BY <1>a, <1>5, ExitFacts DEF Exits, Calm
<1> QED
  BY <1>3, <1>4, <1>5 DEF Admit, Chain


\* The runner leaves: there is no more to keep but the error on its way.
LEMMA ExitChain ==
  ASSUME IInv, OneError, ~hook.lagged,
         \/ AdmitTimesOut \/ PlanDone \/ HearEnd \/ HearDisconnect
         \/ TimeLimit \/ StoreFails \/ ProviderFails \/ SendRaises
  PROVE  OneError' /\ Chain'
<1>a. server \in Runner /\ toPage \in Seq(ToPage) /\ UNCHANGED <<page, hook>>
  BY ChainTypes
  DEF AdmitTimesOut, PlanDone, HearEnd, HearDisconnect, Listen, TimeLimit, StoreFails, ProviderFails, SendRaises
<1>1. \E why \in Exits \ {"none"} : Exit(why)
  BY DEF AdmitTimesOut, PlanDone, HearEnd, HearDisconnect, TimeLimit, StoreFails, ProviderFails, SendRaises, Exits
<1>2. ~Calm' /\ server'.q = server.q
  BY <1>a, <1>1, ExitFacts DEF Calm
<1>3. CASE UNCHANGED toPage
  BY <1>a, <1>2, <1>3, SameToPage DEF OneError, Mendable, Chain
<1>4. CASE StoreFails /\ server.pc = "speak"
  <2>1. server.q \in 0..Length
    BY <1>4, LiveAssumption DEF IInv, PcOK, Busy, Questions
  <2>2. PICK m \in ToPage : m.type = "question.audio_end" /\ Says(m)
    BY <1>4, <2>1, MessageTypes DEF StoreFails, AudioEnd
  <2>3. CASE Open
    <3>1. ~Mendable(m)
      BY <2>2 DEF Mendable
    <3> QED
      BY <1>a, <1>2, <2>2, <2>3, <3>1, OneErrorSaid DEF Chain
  <2>4. CASE ~Open
    <3>1. UNCHANGED toPage
      BY <2>2, <2>4 DEF Says, Open
    <3> QED
      BY <1>3, <3>1
  <2> QED
    BY <2>3, <2>4
<1> QED
  BY <1>3, <1>4
  DEF AdmitTimesOut, PlanDone, HearEnd, HearDisconnect, TimeLimit, StoreFails, ProviderFails, SendRaises

\* The last words ask nothing of the user.
LEMMA LastWordsFatal ==
  \A i \in DOMAIN LastWords : ~Mendable(LastWords[i]) /\ LastWords[i].type \notin {"question.text", "turn.complete"}
<1>1. CASE server.exit \in {"completed", "ended_by_client"}
  <2>1. PICK m \in ToPage : m = Message("session.end", 0, server.exit) /\ m.type = "session.end"
    BY <1>1, MessageTypes
  <2>2. LastWords = <<m>>
    BY <1>1, <2>1 DEF LastWords
  <2> QED
    BY <2>1, <2>2 DEF Mendable
<1>2. CASE server.exit \in {"limit", "error"}
  <2>1. PICK code \in Fatal : LastWords = <<Error(code)>>
    BY <1>2 DEF LastWords, Fatal
  <2>2. PICK m : m = Error(code) /\ m.type = "error" /\ m.code \in Fatal
    <3>1. Error(code).type = "error" /\ Error(code).code = code
      BY <2>1 DEF Error, Message
    <3> QED
      BY <2>1, <3>1
  <2>3. LastWords = <<m>>
    BY <2>1, <2>2
  <2> QED
    BY <2>2, <2>3 DEF Mendable
<1>3. CASE server.exit \notin {"completed", "ended_by_client", "limit", "error"}
  <2>1. LastWords = <<>>
    BY <1>3 DEF LastWords
  <2> QED
    BY <2>1
<1> QED
  BY <1>1, <1>2, <1>3

LEMMA CloseStepChain ==
  ASSUME IInv, OneError, ~hook.lagged, Close
  PROVE  OneError' /\ Chain'
<1>a. server \in Runner /\ toPage \in Seq(ToPage) /\ UNCHANGED <<page, hook>>
  BY ChainTypes DEF Close
<1>1. server.exit # "none" /\ server'.exit = server.exit /\ server'.q = server.q
  BY <1>a, ToFacts DEF Close, PcValues, IInv, PcOK
<1>2. Chain'
  BY <1>1 DEF Chain, Calm
<1>3. PICK n \in Nat : n = Len(toPage) /\ DOMAIN toPage = 1..n
  BY <1>a
<1>4. /\ \A i \in 1..n : i \in DOMAIN toPage' /\ toPage'[i] = toPage[i]
      /\ \A i \in DOMAIN toPage' \ (1..n) :
           ~Mendable(toPage'[i]) /\ toPage'[i].type \notin {"question.text", "turn.complete"}
  <2>1. CASE hook.sock = "open"
    <3>1. PICK w \in Seq(ToPage) : w = LastWords
      BY LastWordsFacts
    <3>2. PICK m \in ToPage : m = Message("close", 0, "") /\ m.type = "close"
      BY MessageTypes
    <3>3. toPage' = toPage \o w \o <<m>>
      BY <2>1, <3>1, <3>2 DEF Close
    <3>4. PICK k \in Nat : k = Len(w) /\ DOMAIN w = 1..k
      BY <3>1
    <3>5. /\ DOMAIN toPage' = 1..(n + k + 1)
          /\ \A i \in 1..n : toPage'[i] = toPage[i]
          /\ \A i \in (n + 1)..(n + k) : toPage'[i] = w[i - n] /\ i - n \in 1..k
          /\ toPage'[n + k + 1] = m
      <4>1. PICK t \in Seq(ToPage) : t = toPage \o w
        <5>1. toPage \o w \in Seq(ToPage)
          BY <1>a, <3>1
        <5> QED
          BY <5>1
      <4>2. /\ Len(t) = n + k /\ DOMAIN t = 1..(n + k)
            /\ \A i \in 1..n : t[i] = toPage[i]
            /\ \A i \in (n + 1)..(n + k) : t[i] = w[i - n]
        BY <1>a, <1>3, <3>4, <4>1
      <4>3. toPage' = Append(t, m)
        BY <3>3, <4>1
      <4>4. /\ DOMAIN toPage' = 1..(n + k + 1) /\ toPage'[n + k + 1] = m
            /\ \A i \in 1..(n + k) : toPage'[i] = t[i]
        BY <4>2, <4>3, AppendFacts
      <4>5. /\ \A i \in 1..n : i \in 1..(n + k)
            /\ \A i \in (n + 1)..(n + k) : i \in 1..(n + k) /\ i - n \in 1..k
        OBVIOUS
      <4> QED
        BY <4>2, <4>4, <4>5
    <3>6. \A i \in 1..k : ~Mendable(w[i]) /\ w[i].type \notin {"question.text", "turn.complete"}
      BY <3>1, <3>4, LastWordsFatal
    <3>7. ~Mendable(m)
      BY <3>2 DEF Mendable
    <3>8. \A i \in (1..(n + k + 1)) \ (1..n) : i \in (n + 1)..(n + k) \/ i = n + k + 1
      OBVIOUS
    <3>9. \A i \in 1..n : i \in 1..(n + k + 1)
      OBVIOUS
    <3>10. \A i \in (n + 1)..(n + k) :
             ~Mendable(toPage'[i]) /\ toPage'[i].type \notin {"question.text", "turn.complete"}
      BY <3>5, <3>6
    <3>11. \A i \in DOMAIN toPage' \ (1..n) :
             ~Mendable(toPage'[i]) /\ toPage'[i].type \notin {"question.text", "turn.complete"}
      BY <3>2, <3>5, <3>7, <3>8, <3>10
    <3> QED
      BY <3>5, <3>9, <3>11
  <2>2. CASE hook.sock # "open"
    BY <1>3, <2>2 DEF Close
  <2> QED
    BY <2>1, <2>2
<1>5. (Refused' => Refused) /\ (Behind' => Behind)
  BY <1>3, <1>4 DEF Refused, Behind, TextComes, CompleteComes, Mendable
<1>6. \A i \in DOMAIN toPage' : Mendable(toPage'[i]) => i \in DOMAIN toPage /\ Mendable(toPage[i])
  BY <1>3, <1>4
<1>7. OneError'
  <2> SUFFICES ASSUME Refused' PROVE OneError'
    BY DEF OneError
  <2>1. /\ \A i, j \in DOMAIN toPage : Mendable(toPage[i]) /\ Mendable(toPage[j]) => i = j
        /\ page.phase \in {"recording", "sending"} \cup Over
        /\ page.phase \in {"recording", "sending"} => page.seq = server.q
        /\ ~Behind
    BY <1>5 DEF OneError
  <2>2. \A i, j \in DOMAIN toPage' : Mendable(toPage'[i]) /\ Mendable(toPage'[j]) => i = j
    BY <1>6, <2>1
  <2> QED
    BY <1>a, <1>1, <1>5, <2>1, <2>2 DEF OneError, Mendable
<1> QED
  BY <1>2, <1>7
-----------------------------------------------------------------------------
(* Every step *)

LEMMA InitChain == Init => ChainInv
<1> SUFFICES ASSUME Init PROVE ChainInv
  OBVIOUS
<1>1. /\ toPage = <<>> /\ toServer = <<>> /\ hook.seen = "connecting" /\ hook.sock = "opening" /\ ~hook.mic
      /\ page.phase = "connecting" /\ server.pc = "admit" /\ ~server.discarding
      /\ \A k \in Questions : turns[k].status = "planned"
  BY DEF Init, InitialLiveState
<1>2. ~Refused /\ ~Behind /\ HeardSoFar = 0 /\ ~Open
  BY <1>1 DEF Refused, Behind, TextComes, CompleteComes, HeardSoFar, Open
<1>3. Rendered /\ OneError /\ AnswersItsQuestion
  BY <1>1, <1>2 DEF Rendered, OneError, AnswersItsQuestion
<1>4. Script
  <2>1. NewsOK
    BY <1>1 DEF NewsOK
  <2>2. SocketOK
    BY <1>1, <1>2 DEF SocketOK, Open, Finished
  <2>3. NothingHeard /\ AudioOK
    BY <1>1, <1>2 DEF NothingHeard, AudioOK
  <2> QED
    BY <2>1, <2>2, <2>3 DEF Script
<1>5. Linked
  <2>1. Len(toServer) = 0 /\ 0 \in 0..0 /\ DOMAIN toServer = {}
    BY <1>1
  <2>2. 1..0 = {} /\ (0 + 1)..0 = {} /\ 0 <= 0 /\ ~(0 > 0) /\ ~Unended(0)
    BY <1>1 DEF Unended
  <2>3. Frames(0, 0)
    BY <1>1, <1>2, <2>1, <2>2 DEF Frames
  <2> QED
    BY <1>2, <2>1, <2>3 DEF Linked
<1> QED
  BY <1>3, <1>4, <1>5 DEF ChainInv, Chain

\* A render that was late stays late; otherwise what is shown is what is.
LEMMA EventRendered ==
  ASSUME Rendered, NEW p, NEW h \in Hook, h.lagged = hook.lagged, Clicked(p, h) \/ Happened(p, h)
  PROVE  Rendered' /\ (hook.lagged => hook'.lagged)
<1>1. CASE hook' = [h EXCEPT !.seen = page'.phase]
  BY <1>1 DEF Rendered, Hook
<1>2. CASE hook' = [h EXCEPT !.lagged = TRUE]
  BY <1>2 DEF Rendered, Hook
<1> QED
  BY <1>1, <1>2 DEF Clicked, Happened

LEMMA PageRendered ==
  ASSUME IInv, Rendered, PageAct
  PROVE  Rendered' /\ (hook.lagged => hook'.lagged)
<1>a. hook \in Hook /\ toPage \in Seq(ToPage) /\ page.seq \in 0..Length
  BY ChainTypes
<1>1. CASE Render \/ UnblockAudio \/ SocketOpens \/ Speak
  BY <1>a, <1>1 DEF Render, UnblockAudio, SocketOpens, Speak, Rendered, Hook
<1>2. CASE AutoplayBlocked
  <2>1. PICK b : hook' = [hook EXCEPT !.seen = page'.phase, !.blocked = b]
    BY <1>2 DEF AutoplayBlocked
  <2> QED
    BY <1>a, <2>1 DEF Rendered, Hook
<1>3. CASE ConnectionLost
  <2>1. hook' = [hook EXCEPT !.sock = "closed", !.seen = page'.phase]
    BY <1>3 DEF ConnectionLost
  <2> QED
    BY <1>a, <2>1 DEF Rendered, Hook
<1>4. CASE EndTimeout
  <2>1. PICK h \in Hook : h = [hook EXCEPT !.sock = "closed"] /\ h.lagged = hook.lagged
    <3>1. [hook EXCEPT !.sock = "closed"] \in Hook /\ [hook EXCEPT !.sock = "closed"].lagged = hook.lagged
      BY <1>a DEF Hook
    <3> QED
      BY <3>1
  <2>2. hook' = [h EXCEPT !.seen = page'.phase]
    BY <1>4, <2>1 DEF EndTimeout, Hangs
  <2> QED
    BY <2>1, <2>2 DEF Rendered, Hook
<1>5. CASE LeavePage
  <2>1. PICK h \in Hook : h = [hook EXCEPT !.sock = "left", !.mic = FALSE] /\ h.lagged = hook.lagged
    <3>1. /\ [hook EXCEPT !.sock = "left", !.mic = FALSE] \in Hook
          /\ [hook EXCEPT !.sock = "left", !.mic = FALSE].lagged = hook.lagged
      BY <1>a DEF Hook
    <3> QED
      BY <3>1
  <2>2. hook' = [h EXCEPT !.seen = page'.phase]
    BY <1>5, <2>1 DEF LeavePage, Hangs
  <2> QED
    BY <2>1, <2>2 DEF Rendered, Hook
<1>6. CASE ReceiveMessage
  <2>1. PICK m \in ToPage : m = Head(toPage)
    BY <1>6, <1>a DEF ReceiveMessage
  <2>2. AfterMessage(m) \in Hook /\ AfterMessage(m).lagged = hook.lagged
    BY <1>a DEF AfterMessage, Hook
  <2>3. PICK p : Happened(p, AfterMessage(m))
    BY <1>6, <2>1 DEF ReceiveMessage
  <2> QED
    BY <2>2, <2>3, EventRendered
<1>7. CASE \E k \in Questions : QuestionHeard(k)
  <2>1. PICK k \in Questions : QuestionHeard(k)
    BY <1>7
  <2>2. PICK h : h = [hook EXCEPT !.waits = @ \ {k}]
    OBVIOUS
  <2>3. h \in Hook /\ h.lagged = hook.lagged
    BY <1>a, <2>2 DEF Hook
  <2>4. Happened(Heard(page), h)
    BY <2>1, <2>2 DEF QuestionHeard
  <2> QED
    BY <2>3, <2>4, EventRendered
<1>8. CASE SkipAudio \/ SendText
  BY <1>8, <1>a, EventRendered DEF SkipAudio, SendText
<1>9. CASE StartRecording
  <2>1. PICK h : h = [hook EXCEPT !.mic = TRUE, !.take = @ + 1, !.sent = 0]
    OBVIOUS
  <2>2. hook.take + 1 \in 0..MaxTakes /\ 0 \in 0..MaxSpoken
    <3>1. hook.take \in 0..MaxTakes /\ hook.take < MaxTakes /\ MaxTakes \in Nat /\ MaxSpoken \in Nat
      BY <1>9, LiveAssumption, ChainTypes DEF StartRecording
    <3> QED
      BY <3>1
  <2>3. h \in Hook /\ h.lagged = hook.lagged
    BY <1>a, <2>1, <2>2 DEF Hook
  <2>4. Clicked(RecordStarted(page), h)
    BY <1>9, <2>1 DEF StartRecording
  <2> QED
    BY <2>3, <2>4, EventRendered
<1>10. CASE StopRecording \/ TimerStopsRecording
  <2>1. Stopped \in Hook /\ Stopped.lagged = hook.lagged
    BY <1>a DEF Stopped, Hook
  <2> QED
    BY <1>10, <2>1, EventRendered DEF StopRecording, TimerStopsRecording
<1>11. CASE End
  <2>1. PICK b \in BOOLEAN : b <=> (hook.mic /\ hook.seen # "recording")
    OBVIOUS
  <2>2. PICK h : h = [hook EXCEPT !.mic = @ /\ hook.seen # "recording", !.stopped = TRUE]
    OBVIOUS
  <2>3. h \in Hook /\ h.lagged = hook.lagged
    BY <1>a, <2>2 DEF Hook
  <2>4. Clicked(EndRequested(page), h)
    BY <1>11, <2>2 DEF End
  <2> QED
    BY <2>3, <2>4, EventRendered
<1> QED
  BY <1>1, <1>2, <1>3, <1>4, <1>5, <1>6, <1>7, <1>8, <1>9, <1>10, <1>11 DEF PageAct, Clicks, Answers, PageStep

LEMMA PageChain ==
  ASSUME IInv, Opening, ChainInv, PageAct
  PROVE  ChainInv'
<1>1. Rendered' /\ (hook.lagged => hook'.lagged) /\ UNCHANGED turns
  BY PageRendered, PageStepInv DEF ChainInv, PageFrame
<1>2. AnswersItsQuestion'
  BY <1>1 DEF ChainInv, AnswersItsQuestion
<1>3. CASE hook'.lagged
  BY <1>1, <1>2, <1>3 DEF ChainInv, OneError, Chain, Calm
<1>4. CASE ~hook'.lagged
  <2>1. Rendered /\ OneError /\ Chain /\ ~hook.lagged
    BY <1>1, <1>4 DEF ChainInv
  <2>2. OneError' /\ Chain'
    BY <1>4, <2>1, StartRecordingChain, SpeakChain, StopChain, SendTextChain, EndChain, HangsUp,
       SocketOpensChain, QuietChain, ReceiveChain
    DEF PageAct, Clicks, Answers, PageStep
  <2> QED
    BY <1>1, <1>2, <2>2 DEF ChainInv
<1> QED
  BY <1>3, <1>4

\* A write keeps the answers stored before it.
LEMMA RunnerAnswers ==
  ASSUME IInv, ChainInv, RunnerAct
  PROVE  AnswersItsQuestion' /\ UNCHANGED <<page, hook>>
<1>a. UNCHANGED <<page, hook>>
  BY DEF RunnerAct, RunnerStep, Hear, Admit, AdmitTimesOut, LoadPlan, Ask, PlanDone, ShowQuestion, SpeakQuestion,
         Listen, HearAudio, HearAudioEnd, HearText, HearEnd, HearDisconnect, Transcribe, StoreAnswer, CompleteTurn,
         Close, HearNothing, TimeLimit, StoreFails, ProviderFails, SendRaises
<1>1. \/ UNCHANGED turns
      \/ server.q \in Questions /\ server.pc = "mark" /\ Write(Asked)
      \/ server.q \in Questions /\ server.pc = "record" /\ Write(Answered)
  <2>1. server.q \in Nat /\ server.q >= 1 /\ (server.pc = "record" => server.q \in Questions)
    BY ChainTypes DEF IInv, PcOK, Busy
  <2>2. server.q <= Length => server.q \in Questions
    BY <2>1, LiveAssumption DEF Questions
  <2>3. CASE Ask
    BY <2>2, <2>3 DEF Ask, Update
  <2>4. CASE StoreAnswer
    BY <2>1, <2>4 DEF StoreAnswer, Update
  <2>5. CASE TimeLimit \/ StoreFails
    BY <2>1, <2>2, <2>5 DEF TimeLimit, StoreFails, WritesOrNot
  <2> QED
    BY <2>3, <2>4, <2>5
    DEF RunnerAct, RunnerStep, Hear, Admit, AdmitTimesOut, LoadPlan, PlanDone, ShowQuestion, SpeakQuestion,
        Listen, HearAudio, HearAudioEnd, HearText, HearEnd, HearDisconnect, Transcribe, CompleteTurn,
        Close, HearNothing, ProviderFails, SendRaises
<1>2. CASE UNCHANGED turns
  BY <1>a, <1>2 DEF ChainInv, AnswersItsQuestion
<1>3. CASE server.q \in Questions /\ server.pc = "mark" /\ Write(Asked)
  <2>1. turns \in [Questions -> Turn] /\ Asked \in Turn /\ Asked.status = "asked"
    BY <1>3, RowTypes DEF IInv, TypeOK, Asked, Turn
  <2>2. turns'[server.q].status = "asked" /\ \A k \in Questions \ {server.q} : turns'[k] = turns[k]
    BY <1>3, <2>1, WriteFacts DEF IInv
  <2> QED
    BY <1>a, <2>2 DEF ChainInv, AnswersItsQuestion
<1>4. CASE server.q \in Questions /\ server.pc = "record" /\ Write(Answered)
  <2>1. Answered \in Turn /\ Answered.answer = server.audio
    BY <1>4, RowTypes DEF IInv, Answered
  <2>2. turns'[server.q].answer = server.audio /\ \A k \in Questions \ {server.q} : turns'[k] = turns[k]
    BY <1>4, <2>1, WriteFacts DEF IInv
  <2>3. ~hook.lagged => /\ server.audio.heard = server.audio.said
                        /\ \E t \in 0..MaxTakes : server.audio.from = {<<server.q, t>>}
    BY <1>4 DEF IInv, PcOK, ChainInv, Chain, Calm, Script, AudioOK
  <2>4. SUFFICES ASSUME ~hook.lagged, NEW k \in Questions, turns'[k].status = "answered"
                 PROVE  turns'[k].answer.heard = turns'[k].answer.said
                        /\ \E t \in 0..MaxTakes : turns'[k].answer.from = {<<k, t>>}
    BY <1>a DEF AnswersItsQuestion
  <2>5. CASE k = server.q
    BY <2>2, <2>3, <2>4, <2>5
  <2>6. CASE k # server.q
    BY <2>2, <2>4, <2>6 DEF ChainInv, AnswersItsQuestion
  <2> QED
    BY <2>5, <2>6
<1> QED
  BY <1>a, <1>1, <1>2, <1>3, <1>4

LEMMA RunnerChain ==
  ASSUME IInv, ChainInv, RunnerAct
  PROVE  ChainInv'
<1>1. AnswersItsQuestion' /\ UNCHANGED <<page, hook>>
  BY RunnerAnswers
<1>2. Rendered'
  BY <1>1 DEF ChainInv, Rendered
<1>3. CASE hook.lagged
  BY <1>1, <1>2, <1>3 DEF ChainInv, OneError, Chain, Calm
<1>4. CASE ~hook.lagged
  <2>1. OneError /\ Chain
    BY DEF ChainInv
  <2>2. OneError' /\ Chain'
    <3>1. CASE Admit \/ LoadPlan \/ Ask \/ ShowQuestion \/ SpeakQuestion
      BY <1>4, <2>1, <3>1, AdmitChain, AskChain, SpeakQuestionChain
    <3>2. CASE Transcribe \/ StoreAnswer \/ HearNothing \/ CompleteTurn
      BY <1>4, <2>1, <3>2, StoreChain
    <3>3. CASE HearAudio \/ HearAudioEnd \/ HearText
      BY <1>4, <2>1, <3>3, PassedChain, JoinChain, OverflowChain, AnswerEndChain
    <3>4. CASE \/ AdmitTimesOut \/ PlanDone \/ HearEnd \/ HearDisconnect
               \/ TimeLimit \/ StoreFails \/ ProviderFails \/ SendRaises
      BY <1>4, <2>1, <3>4, ExitChain
    <3>5. CASE Close
      BY <1>4, <2>1, <3>5, CloseStepChain
    <3> QED
      BY <3>1, <3>2, <3>3, <3>4, <3>5 DEF RunnerAct, RunnerStep, Hear
  <2> QED
    BY <1>1, <1>2, <2>2 DEF ChainInv
<1> QED
  BY <1>3, <1>4

LEMMA StutterChain == ChainInv /\ UNCHANGED vars => ChainInv'
<1> SUFFICES ASSUME ChainInv, UNCHANGED vars PROVE ChainInv'
  OBVIOUS
<1>1. UNCHANGED <<page, hook, toPage, toServer, server, turns>>
  BY DEF vars
<1>2. /\ Refused' = Refused /\ TextComes' = TextComes /\ AudioEndComes' = AudioEndComes
      /\ CompleteComes' = CompleteComes /\ Behind' = Behind /\ HeardSoFar' = HeardSoFar
  BY <1>1, SameToPage, SameAudio
<1>3. Rendered' /\ OneError' /\ AnswersItsQuestion'
  BY <1>1, <1>2 DEF ChainInv, Rendered, OneError, Mendable, AnswersItsQuestion
<1>4. Script => Script'
  BY <1>1, <1>2 DEF Script, NewsOK, SocketOK, NothingHeard, AudioOK, Open, Mendable
<1>5. Linked => Linked'
  <2> SUFFICES ASSUME Linked PROVE Linked'
    OBVIOUS
  <2>1. PICK e \in 0..Len(toServer), c \in 0..Len(toServer) : Frames(e, c) /\ (Open => Place(e, c))
    BY DEF Linked
  <2>2. (Open' <=> Open) /\ (Unended(e)' <=> Unended(e))
    BY <1>1 DEF Open, Unended
  <2>3. Frames(e, c)'
    BY <1>1, <1>2, <2>1, <2>2 DEF Frames
  <2>4. Open' => Place(e, c)'
    BY <1>1, <1>2, <2>1, <2>2 DEF Place, Lead, Waiting, Recording, Sending
  <2> QED
    BY <1>1, <2>3, <2>4 DEF Linked
<1> QED
  BY <1>1, <1>3, <1>4, <1>5 DEF ChainInv, Chain, Calm

\* The chain holds at every step: what either end may find on its channel.
THEOREM ChainInvariance == Spec => []ChainInv
<1>1. IInv /\ Opening /\ ChainInv /\ [Next]_vars => ChainInv'
  <2> SUFFICES ASSUME IInv, Opening, ChainInv, [Next]_vars PROVE ChainInv'
    OBVIOUS
  <2>1. CASE PageAct
    BY <2>1, PageChain
  <2>2. CASE RunnerAct
    BY <2>2, RunnerChain
  <2>3. CASE UNCHANGED vars
    BY <2>3, StutterChain
  <2> QED
    BY <2>1, <2>2, <2>3 DEF Next, Breaks, PageAct, RunnerAct
<1> QED
  BY InitChain, <1>1, Invariance, CountInvariance, PTL DEF Spec

\* While no render is late, the answer stored with a question is one whole
\* recording, or one text, made while the page showed that question.
THEOREM AnswersWhole == Spec => []AnswersItsQuestion
<1>1. ChainInv => AnswersItsQuestion
  BY DEF ChainInv
<1> QED
  BY <1>1, ChainInvariance, PTL

\* While no render is late, an error the user can mend reaches the page while
\* it is still about the answer it refuses.
THEOREM ErrorsInTime == Spec => []ErrorIsAboutThisAnswer
<1>1. ChainInv => ErrorIsAboutThisAnswer
  <2> SUFFICES ASSUME OneError, ~hook.lagged, NEW i \in DOMAIN toPage, Mendable(toPage[i])
               PROVE  /\ page.phase \in {"recording", "sending", "ending"} \cup Finished
                      /\ page.phase \in {"recording", "sending"} => page.seq = server.q
    BY DEF ChainInv, ErrorIsAboutThisAnswer, Mendable
  <2>1. Refused
    BY DEF Refused
  <2> QED
    BY <2>1 DEF OneError, Over
<1> QED
  BY <1>1, ChainInvariance, PTL

\* While no render is late, the runner and the page never wait for each other:
\* with nothing on its way and an answer awaited, the page leaves it to the user.
THEOREM NobodyWaits == Spec => []NoStandoff
<1>1. IInv /\ ChainInv => NoStandoff
  <2> SUFFICES ASSUME IInv, ChainInv, ~hook.lagged, Standoff PROVE FALSE
    BY DEF NoStandoff
  <2>1. /\ server.pc = "listen" /\ Open /\ toServer = <<>> /\ toPage = <<>> /\ hook.waits = {}
        /\ page.phase \notin {"answering", "recording", "ending"}
        /\ ~(page.phase = "asking" /\ hook.blocked)
    BY DEF Standoff, Open
  <2>2. Calm /\ Script /\ Linked
    BY <2>1 DEF ChainInv, Chain, Calm, IInv, PcOK
  <2>3. ~Refused /\ ~TextComes /\ ~AudioEndComes /\ ~CompleteComes
    BY <2>1 DEF Refused, TextComes, AudioEndComes, CompleteComes
  <2>4. PICK e \in 0..Len(toServer), c \in 0..Len(toServer) : Frames(e, c) /\ (Open => Place(e, c))
    BY <2>2 DEF Linked
  <2>5. e = 0 /\ c = 0 /\ ~(e < c)
    <3>1. Len(toServer) = 0
      BY <2>1
    <3> QED
      BY <2>4, <3>1
  <2>6. page.phase \in {"connecting", "preparing", "asking", "sending"}
    BY <2>1, <2>2, ChainTypes DEF Script, SocketOK, Open, Phases
  <2>7. Waiting(e, c) /\ Sending(e, c)
    BY <2>1, <2>4 DEF Place
  <2>8. page.phase \notin {"connecting", "preparing", "asking"}
    BY <2>1, <2>3, <2>7 DEF Waiting, InTurn
  <2>9. page.phase # "sending"
    BY <2>1, <2>3, <2>5, <2>7 DEF Sending
  <2> QED
    BY <2>6, <2>8, <2>9
<1> QED
  BY <1>1, Invariance, ChainInvariance, PTL
=============================================================================
