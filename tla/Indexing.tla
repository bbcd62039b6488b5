------------------------------ MODULE Indexing ------------------------------
(***************************************************************************)
(* Fetching and indexing one repository: clone it, count what it would     *)
(* come to, then write the chunks of each file to a table that all         *)
(* repositories share.  A pass may fail half way, and the next one starts  *)
(* from the rows it left, with a clone that may be of a later commit.      *)
(*                                                                         *)
(* Each file is read twice: once to be counted, once to be indexed.  The   *)
(* count walks and decodes by itself (os.walk, UTF-8 with replacement      *)
(* characters), the pass has CocoIndex do both, and what either makes of a *)
(* file is given with the clone.  Which names are included and how a text  *)
(* is split is shared.                                                     *)
(*                                                                         *)
(* Ingestion has the job and its status around a pass; here is what a pass *)
(* does to the rows.                                                       *)
(***************************************************************************)
EXTENDS Sources

CONSTANTS
  Clones,         \* what may be cloned: for each file the texts it splits into,
                  \* as it is counted and as it is read to be indexed
  LaterClones,    \* what may be cloned when it is cloned again
  Matched,        \* the files whose names are included and not excluded
  MaxFile,        \* texts of the largest file that is indexed
  MaxRepoChunks,  \* the largest repository
  Neighbour,      \* the chunks another repository has in the table
  MaxPasses,      \* bound on the passes
  MaxRows         \* bound on a repository that is ingested again

ASSUME IndexingAssumption ==
  /\ \A c \in Clones \cup LaterClones :
       IsFiniteSet(DOMAIN c) /\ \A f \in DOMAIN c : f \in Filenames /\ \A texts \in {c[f].counted, c[f].read} :
         Len(texts) \in Nat /\ DOMAIN texts = 1..Len(texts)
  /\ {MaxFile, MaxRepoChunks, MaxRows} \subseteq Nat /\ MaxPasses \in Nat \ {0}

VARIABLES
  stage,   \* how far the ingestion is
  clone,   \* what was cloned last
  toDo,    \* the files a pass has yet to come to
  table,   \* code_chunks
  passes

indexingVars == <<stage, clone, toDo, table, passes>>

-----------------------------------------------------------------------------
(* What a clone comes to *)

Nothing == <<>>   \* no file

Walked == {f \in DOMAIN clone : f \in Matched}
Split(texts) == IF Len(texts) > MaxFile THEN <<>> ELSE texts
Counted(f) == Split(clone[f].counted)
Read(f) == Split(clone[f].read)

\* A mistake: chunks of a file that are alike count as one.
CountedTexts == Cardinality(UNION {{f} \X {Counted(f)[i] : i \in DOMAIN Counted(f)} : f \in Walked})
CountedChunks == Cardinality(UNION {{f} \X DOMAIN Counted(f) : f \in Walked})
ReadChunks == Cardinality(UNION {{f} \X DOMAIN Read(f) : f \in Walked})
ReadAlike == \A f \in Walked : clone[f].counted = clone[f].read

\* A mistake: texts that are alike get one id.
OnePerText(texts, i) == 1
Occurrence(texts, i) == Cardinality({j \in 1..i : texts[j] = texts[i]})

Declared(f) ==
  IF f \in Walked THEN {<<f, Read(f)[i], Occurrence(Read(f), i)>> : i \in DOMAIN Read(f)} ELSE {}
Source == UNION {Declared(f) : f \in Walked}

(* The table *)

Ours == "this repository"
Others == "another"
Row(repository, id) == [repository |-> repository, id |-> id]

\* A mistake: the counter behind an id starts at 1 in every repository.
IdAlone(row) == row.id
Key(row) == <<row.repository, row.id>>

IdsOf(repository) == {row.id : row \in {r \in table : r.repository = repository}}
Rows == IdsOf(Ours)

Upserted(rows, into) == {row \in into : \A new \in rows : Key(new) # Key(row)} \cup rows

-----------------------------------------------------------------------------
IndexingTypeOK ==
  /\ stage \in {"queued", "fetched", "indexing", "ready", "failed"}
  /\ DOMAIN clone \subseteq Filenames
  /\ toDo \subseteq DOMAIN clone \cup FilesOf(Rows)
  /\ \A row \in table : row.repository \in {Ours, Others}
  /\ passes \in 1..MaxPasses

IndexingInit ==
  /\ stage = "queued"
  /\ clone = Nothing
  /\ toDo = {}
  /\ table = {Row(Others, id) : id \in Neighbour}
  /\ passes = 1

\* Into an empty workspace, whatever a pass before has left there.
Fetch ==
  /\ stage = "queued"
  /\ clone' \in IF passes = 1 THEN Clones ELSE LaterClones \cup {clone}
  /\ stage' = "fetched"
  /\ UNCHANGED <<toDo, table, passes>>

\* No git, a timeout, an exit code, a commit that cannot be read.
FetchFails ==
  /\ stage = "queued"
  /\ stage' = "failed"
  /\ UNCHANGED <<clone, toDo, table, passes>>

\* Counted before anything is embedded.
TooLarge ==
  /\ stage = "fetched"
  /\ CountedChunks > MaxRepoChunks
  /\ stage' = "failed"
  /\ UNCHANGED <<clone, toDo, table, passes>>

\* A mistake: the rows are cleared to be written again.
StartAfresh ==
  /\ stage = "fetched"
  /\ CountedChunks <= MaxRepoChunks
  /\ stage' = "indexing"
  /\ toDo' = Walked
  /\ table' = {row \in table : row.repository # Ours}
  /\ UNCHANGED <<clone, passes>>
StartPass ==
  /\ stage = "fetched"
  /\ CountedChunks <= MaxRepoChunks
  /\ stage' = "indexing"
  /\ toDo' = Walked \cup FilesOf(Rows)
  /\ UNCHANGED <<clone, table, passes>>

\* The rows of a file become those declared for it: none if it is gone.
IndexFile ==
  /\ stage = "indexing"
  /\ \E f \in toDo :
       LET stale == {row \in table : row.repository = Ours /\ File(row.id) = f /\ row.id \notin Declared(f)}
       IN  /\ table' = Upserted({Row(Ours, id) : id \in Declared(f)}, table \ stale)
           /\ toDo' = toDo \ {f}
  /\ UNCHANGED <<stage, clone, passes>>

\* A call to the embedding provider, a statement or the worker fails.
PassFails ==
  /\ stage \in {"fetched", "indexing"}
  /\ stage' = "failed"
  /\ toDo' = {}
  /\ UNCHANGED <<clone, table, passes>>

PassEnds ==
  /\ stage = "indexing"
  /\ toDo = {}
  /\ stage' = "ready"
  /\ UNCHANGED <<clone, toDo, table, passes>>

\* The user's retry, or the job delivered again.
Again ==
  /\ stage \in {"ready", "failed"}
  /\ passes < MaxPasses
  /\ Cardinality(Rows \cup Source) <= MaxRows
  /\ stage' = "queued"
  /\ passes' = passes + 1
  /\ UNCHANGED <<clone, toDo, table>>

Pass == Fetch \/ FetchFails \/ TooLarge \/ StartPass \/ IndexFile \/ PassFails \/ PassEnds

-----------------------------------------------------------------------------
(* Properties *)

\* An ingestion that is ready has a row for every chunk of every file it
\* should index, those with the same text included, and none that a pass before
\* left behind.  They are within the limit if no file was counted otherwise than
\* it was read.  No repository that shares the table has lost a row.
IndexIsTheSource ==
  /\ IdsOf(Others) = Neighbour
  /\ stage = "ready" =>
       /\ Rows = Source
       /\ Cardinality(Rows) = ReadChunks
       /\ ReadAlike => Cardinality(Rows) <= MaxRepoChunks

\* A repository past the limit is never indexed (runner.py: `Raises
\* RepositoryTooLargeError -- before any embedding call -- if the repository
\* would exceed MAX_REPO_CHUNKS').
CapIsKept == stage = "ready" => Cardinality(Rows) <= MaxRepoChunks

\* Code that is the same in the clone being indexed never leaves the table
\* (flow.py: `re-indexing an unchanged file remains a no-op'), so a question
\* keeps its code while its repository is ingested again.
KeepsUnchanged == [][Rows \cap Source' \subseteq Rows']_indexingVars
=============================================================================
