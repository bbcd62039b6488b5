------------------------------ MODULE Contents ------------------------------
(***************************************************************************)
(* What an interview's questions and its report are about: the repository  *)
(* is indexed, its areas are picked, the chunks of each are retrieved, the *)
(* plan is written, some of its questions are asked and answered, and the  *)
(* report is graded from them, while the repository is ingested again,     *)
(* providers fail and the model answers what it likes.                     *)
(*                                                                         *)
(* Ingestion, Planning and Reports follow the jobs that run this and their *)
(* retries, LiveSession the interview in between; here each is run once,   *)
(* but for the pass over the repository.                                   *)
(***************************************************************************)
EXTENDS Indexing, Areas, Grading

CONSTANTS
  TopK,           \* chunks retrieved for an area
  MaxFollowed,    \* bound on the chunks and passes of what is followed beyond its areas
  AlsoFollowed,   \* repositories that are followed for all their passes
  Scores,         \* scores the model may give
  MaxPoints,      \* key points kept of a reply
  MaxWaits        \* waits for the rate limit in one call

ASSUME ContentsAssumption ==
  /\ Scores \subseteq 1..5
  /\ {TopK, MaxFollowed, MaxPoints, MaxWaits} \subseteq Nat

VARIABLES
  pc,           \* where planning, the interview and the report have got to
  contexts,     \* each area with the chunks retrieved for it
  plan,         \* the questions: for each its area and chunks
  turns,        \* how many were asked, and how many of these answered
  found,        \* the chunks the report could still fetch
  evaluations,  \* of the turns, so far
  attempt,      \* of the two at the piece of the report at hand
  waits,        \* in the call at hand
  summary       \* the report's

planVars == <<contexts, plan>>
reportVars == <<found, evaluations, attempt, waits, summary>>
interviewVars == <<pc, planVars, turns, reportVars>>
vars == <<indexingVars, areasVars, interviewVars>>

-----------------------------------------------------------------------------
Invented == <<TheCode, 0, 0>>   \* an id the model made up

NotGraded == [score |-> 0, points |-> <<>>, evidence |-> {}, names |-> {}]
NoSummary == [asked |-> 0, answered |-> 0, graded |-> 0, average |-> -1, files |-> {}]

TypeOK ==
  /\ IndexingTypeOK /\ AreasTypeOK
  /\ pc \in {"index", "list", "retrieve", "write", "interview", "fetch", "grade", "done", "failed"}
  /\ DOMAIN contexts \subseteq DOMAIN areas
  /\ \A i \in DOMAIN contexts : contexts[i].area = areas[i].path
  /\ \A k \in DOMAIN plan : \E i \in DOMAIN contexts : plan[k] = contexts[i]
  /\ turns.answered \in {turns.asked, turns.asked - 1} \cap Nat /\ turns.asked \in 0..Len(plan)
  /\ found \subseteq UNION {plan[k].chunks : k \in DOMAIN plan}
  /\ Len(evaluations) <= turns.asked
  /\ \A k \in DOMAIN evaluations :
       /\ evaluations[k].status \in {"graded", "not_graded", "not_answered"}
       /\ evaluations[k].grade.score \in Scores \cup {0}
       /\ DOMAIN evaluations[k].grade.points \subseteq 1..MaxPoints
  /\ attempt \in 1..2
  /\ waits \in 0..MaxWaits
  /\ summary.average \in {-1} \cup 10..50

Init ==
  /\ IndexingInit /\ AreasInit
  /\ pc = "index"
  /\ contexts = <<>>
  /\ plan = <<>>
  /\ turns = [asked |-> 0, answered |-> 0]
  /\ found = {}
  /\ evaluations = <<>>
  /\ attempt = 1
  /\ waits = 0
  /\ summary = NoSummary

\* Bounds on what is followed, and of that on what is ingested again meanwhile.
Followed == Cardinality(index) + passes <= MaxFollowed \/ index \in AlsoFollowed
FollowedAgain == Cardinality(index) + passes < MaxFollowed \/ index \in AlsoFollowed

-----------------------------------------------------------------------------
(* The repository *)

\* An interview is created, and planned, once the repository is ready.
BecomesReady ==
  /\ pc = "index"
  /\ stage = "ready"
  /\ pc' = "list"
  /\ UNCHANGED <<indexingVars, areasVars, planVars, turns, reportVars>>

IndexRepository == Pass /\ UNCHANGED <<areasVars, interviewVars>>

\* Bound: only where something of the table is still to be read.
IngestAgain ==
  /\ pc = "index" \/ (pc \in {"retrieve", "interview", "fetch"} /\ FollowedAgain)
  /\ Again
  /\ UNCHANGED <<areasVars, interviewVars>>

(* Planning *)

ListAreas ==
  /\ pc = "list"
  /\ StartPicking(Rows)
  /\ UNCHANGED <<indexingVars, interviewVars>>

PickArea == pc = "list" /\ PickAreas /\ UNCHANGED <<indexingVars, interviewVars>>

AreasListed ==
  /\ pc = "list"
  /\ Picked
  /\ pc' = IF areas = <<>> THEN "failed" ELSE "retrieve"
  /\ picking' = "idle"
  /\ UNCHANGED <<indexingVars, index, limit, candidates, area, prefix, tried, areas, planVars, turns, reportVars>>

RowsUnder(path) == {id \in Rows : IsPrefix(path, File(id))}

\* The chunks nearest to the query, whichever they are; for all areas at once,
\* in the order the table happens to answer.
Retrieve ==
  /\ pc = "retrieve"
  /\ Followed
  /\ \E i \in DOMAIN areas \ DOMAIN contexts :
       LET rows == RowsUnder(areas[i].path) IN
       \E chunks \in kSubset(Min({TopK, Cardinality(rows)}), rows) :
         contexts' = [j \in DOMAIN contexts \cup {i} |->
                        IF j = i THEN [area |-> areas[i].path, chunks |-> chunks] ELSE contexts[j]]
  /\ pc' = IF DOMAIN contexts' = DOMAIN areas THEN "write" ELSE pc
  /\ UNCHANGED <<indexingVars, areasVars, plan, turns, reportVars>>

WithCode == {i \in DOMAIN contexts : contexts[i].chunks # {}}
NumberOf(i) == Cardinality({j \in WithCode : j <= i})
Numbered(n) == CHOOSE i \in WithCode : NumberOf(i) = n
Orders ==
  LET numbers == 1..Cardinality(WithCode)
  IN  {o \in [numbers -> numbers] : \A j, k \in numbers : o[j] = o[k] => j = k}

\* A mistake: the number is looked up among all areas, those without code included.
PlannedOfAll(order) == [k \in DOMAIN order |-> contexts[order[k]]]
\* A mistake: the area is that of the question's place, not of its number.
PlannedByPlace(order) ==
  [k \in DOMAIN order |-> [area |-> contexts[Numbered(k)].area, chunks |-> contexts[Numbered(order[k])].chunks]]
Planned(order) == [k \in DOMAIN order |-> contexts[Numbered(order[k])]]

\* One question per area that has code, numbered in the prompt, in the order
\* the model gives their numbers.
WritePlan ==
  /\ pc = "write"
  /\ WithCode # {}
  /\ \E order \in Orders : plan' = Planned(order)
  /\ pc' = "interview"
  /\ UNCHANGED <<indexingVars, areasVars, contexts, turns, reportVars>>

NothingToAsk ==
  /\ pc = "write"
  /\ WithCode = {}
  /\ pc' = "failed"
  /\ UNCHANGED <<indexingVars, areasVars, planVars, turns, reportVars>>

-----------------------------------------------------------------------------
(* The interview: the last question asked may be unanswered. *)

HoldInterview ==
  /\ pc = "interview"
  /\ \E n \in 0..Len(plan) : \E m \in {n, n - 1} \cap Nat : turns' = [asked |-> n, answered |-> m]
  /\ pc' = "fetch"
  /\ UNCHANGED <<indexingVars, areasVars, planVars, reportVars>>

-----------------------------------------------------------------------------
(* The report *)

FetchChunks ==
  /\ pc = "fetch"
  /\ found' = UNION {plan[k].chunks : k \in 1..turns.answered} \cap Rows
  /\ pc' = "grade"
  /\ UNCHANGED <<indexingVars, areasVars, planVars, turns, evaluations, attempt, waits, summary>>

Turn == Len(evaluations) + 1

\* A mistake: the chunks of the plan, those that are gone included.
SourcesOfPlan(k) == plan[k].chunks
Sources(k) == plan[k].chunks \cap found

\* A mistake: anything fetched for the interview may be cited.
ShownOfAll(k) == found
Shown(k) == Sources(k)

NextPiece == attempt' = 1 /\ waits' = 0
Evaluate(status, grade, sources) ==
  /\ evaluations' = Append(evaluations, [status |-> status, grade |-> grade, sources |-> sources])
  /\ NextPiece
  /\ UNCHANGED <<indexingVars, areasVars, pc, planVars, turns, found, summary>>

NotAnswered ==
  /\ pc = "grade"
  /\ turns.answered < Turn
  /\ Turn <= turns.asked
  /\ Evaluate("not_answered", NotGraded, {})

AtAnswer == pc = "grade" /\ Turn <= turns.answered

Asked == UNION {plan[k].chunks : k \in DOMAIN plan}
Cites == SUBSET (Asked \cup {Invented})
Replies == [score : Scores, points : UNION {[1..n -> Cites] : n \in 0..(MaxPoints + 1)}, evidence : Cites]

\* What a reply has too much of is trimmed first.
GradeTurn ==
  /\ AtAnswer
  /\ \E reply \in Replies :
       LET trimmed == [reply EXCEPT !.points = Trim(@, MaxPoints)]
       IN  Evaluate("graded", Grounded(trimmed, Shown(Turn)), Sources(Turn))

Summarising == pc = "grade" /\ Len(evaluations) = turns.asked
Graded == {k \in DOMAIN evaluations : evaluations[k].status = "graded"}
Answered == {k \in DOMAIN evaluations : evaluations[k].status # "not_answered"}

\* A mistake: code of turns whose grade failed is offered too.
KnownOfAll == FilesOf(UNION {evaluations[k].sources : k \in DOMAIN evaluations})
Known == FilesOf(UNION {evaluations[k].sources : k \in Graded})

AverageOf(some) == Average([k \in some |-> evaluations[k].grade.score])

\* A mistake: an answer whose grade failed counts as nought.
AverageOfAnswered == AverageOf(Answered)
AverageOfGraded == AverageOf(Graded)

Summary(files) ==
  [asked |-> Len(evaluations), answered |-> Cardinality(Answered), graded |-> Cardinality(Graded),
   average |-> AverageOfGraded, files |-> files]

Summarise(files) ==
  /\ summary' = Summary(files)
  /\ pc' = "done"
  /\ NextPiece
  /\ UNCHANGED <<indexingVars, areasVars, planVars, turns, found, evaluations>>

WriteNotes ==
  /\ Summarising
  /\ Graded # {}
  /\ \E files \in SUBSET FilesOf(Asked) : Summarise(files \cap Known)

NothingGraded ==
  /\ Summarising
  /\ Graded = {}
  /\ Summarise({})

-----------------------------------------------------------------------------
(* The calls to the model *)

Calling == AtAnswer \/ (Summarising /\ Graded # {})

AskedAgain ==
  /\ Calling
  /\ attempt = 1
  /\ attempt' = 2
  /\ waits' = 0
  /\ UNCHANGED <<indexingVars, areasVars, pc, planVars, turns, found, evaluations, summary>>

\* Two replies that cannot be used: this piece of the report is left out.
Unusable ==
  /\ Calling
  /\ attempt = 2
  /\ IF Summarising THEN Summarise({}) ELSE Evaluate("not_graded", NotGraded, Sources(Turn))

RateLimited ==
  /\ Calling
  /\ waits < MaxWaits
  /\ waits' = waits + 1
  /\ UNCHANGED <<indexingVars, areasVars, pc, planVars, turns, found, evaluations, attempt, summary>>

\* Any other error, or a wait too many or too long, of any call propagates.
CallFails ==
  /\ pc \in {"list", "retrieve", "write", "fetch"} \/ Calling
  /\ pc' = "failed"
  /\ UNCHANGED <<indexingVars, areasVars, planVars, turns, reportVars>>

-----------------------------------------------------------------------------
Next ==
  \/ IndexRepository \/ IngestAgain \/ BecomesReady
  \/ ListAreas \/ PickArea \/ AreasListed \/ Retrieve \/ WritePlan \/ NothingToAsk
  \/ HoldInterview
  \/ FetchChunks \/ NotAnswered \/ GradeTurn \/ WriteNotes \/ NothingGraded
  \/ AskedAgain \/ Unusable \/ RateLimited \/ CallFails

Spec == Init /\ [][Next]_vars

-----------------------------------------------------------------------------
(* Properties *)

\* A question is about the area it names, and shares no code with another,
\* unless one area is a file whose name begins another's.
QuestionsAreApart ==
  \A k \in DOMAIN plan :
    /\ plan[k].chunks # {} /\ \A id \in plan[k].chunks : IsPrefix(plan[k].area, File(id))
    /\ IsDirectory(plan[k].area) => \A j \in DOMAIN plan \ {k} : plan[j].chunks \cap plan[k].chunks = {}

\* What the grade of a turn cites, or names in its prose, is code its
\* question was written from and that still existed when the report fetched it
\* (decision 050).
CitesWhatItShows ==
  \A k \in DOMAIN evaluations :
    LET grade == evaluations[k].grade
        still == plan[k].chunks \cap found
    IN  /\ \A p \in DOMAIN grade.points : grade.points[p] # {} /\ grade.points[p] \subseteq still
        /\ grade.evidence \subseteq still
        /\ grade.names \subseteq FilesOf(still) \cup {TheCode}

\* The files to revisit are files behind a question that was answered and graded.
RevisitsGradedCode ==
  \A f \in summary.files :
    \E k \in 1..turns.answered : evaluations[k].status = "graded" /\ f \in FilesOf(plan[k].chunks)

\* The report's numbers are those of the turns: an average lies between the
\* scores it is of, and there is none without a graded turn.
ScoresAreOfGraded ==
  pc = "done" =>
    LET scores == {evaluations[k].grade.score : k \in {j \in 1..turns.answered : evaluations[j].status = "graded"}}
    IN  /\ summary.asked = turns.asked /\ summary.answered = turns.answered
        /\ summary.graded <= summary.answered
        /\ IF scores = {} THEN summary.average = -1
           ELSE 10 * Min(scores) <= summary.average /\ summary.average <= 10 * Max(scores)

=============================================================================
