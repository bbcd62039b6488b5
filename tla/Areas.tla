------------------------------- MODULE Areas -------------------------------
(***************************************************************************)
(* The areas of a repository: the directories, or files, that stand for    *)
(* its major parts, one question each.  pick_areas starts from the root's  *)
(* areas and replaces the largest one that has areas of its own by these,  *)
(* until there are enough; a step here is a turn of one of its loops.      *)
(***************************************************************************)
EXTENDS Sources

CONSTANT Limits   \* numbers of areas that may be asked for

ASSUME AreasAssumption == Limits \subseteq Nat \ {0}

VARIABLES
  picking,     \* which of the loops it is in
  index,       \* the chunks counted
  limit,       \* the most areas wanted
  candidates,  \* the areas so far
  area,        \* the one whose own areas are sought, at first the whole
  prefix,      \* the directory got to in looking for them
  tried,       \* candidates found to have no two of their own
  areas        \* those kept, largest first

areasVars == <<picking, index, limit, candidates, area, prefix, tried, areas>>

-----------------------------------------------------------------------------
Files == FilesOf(index)
Under(p) == {f \in Files : IsPrefix(p, f)}

\* What holds file f directly under p: a directory with its slash, or f.
Entry(p, f) ==
  LET slashes == {i \in (Len(p) + 1)..Len(f) : f[i] = Slash}
  IN  IF slashes = {} THEN f ELSE SubSeq(f, 1, Min(slashes))

Entries(p) == {Entry(p, f) : f \in Under(p)}
Directories(p) == {e \in Entries(p) : IsDirectory(e)}

Area(p, e) ==
  [path |-> e, count |-> Cardinality({id \in index : File(id) \in Under(p) /\ Entry(p, File(id)) = e})]

\* The directories; without one, the files.
OwnAreas(p) == {Area(p, e) : e \in IF Directories(p) = {} THEN Entries(p) ELSE Directories(p)}

SortsBefore(p, q) ==
  \/ IsStrictPrefix(p, q)
  \/ \E i \in 1..Min({Len(p), Len(q)}) :
       /\ p[i] < q[i]
       /\ SubSeq(p, 1, i - 1) = SubSeq(q, 1, i - 1)

Larger(a, b) ==
  \/ a.count > b.count
  \/ a.count = b.count /\ SortsBefore(a.path, b.path)
Largest(some) == {a \in some : \A b \in some \ {a} : Larger(a, b)}

\* A mistake: only the largest of all is tried.
UntriedLargest == {a \in Largest(candidates) : IsDirectory(a.path)} \ tried
Untried == {a \in candidates \ tried : IsDirectory(a.path)}

\* A mistake: areas of its size go with it.
WithoutItsSize(some, a) == {b \in some : b.count # a.count}
Without(some, a) == some \ {a}

\* A mistake: what the last split has too many of is kept.
KeptAll == Cardinality(candidates)
Kept == Min({limit, Cardinality(candidates)})

Whole == [path |-> Root, count |-> 0]

-----------------------------------------------------------------------------
AreasTypeOK ==
  /\ picking \in {"idle", "under", "choose", "keep"}
  /\ limit \in Limits \cup {0}
  /\ \A a \in candidates : a.count \in Nat /\ Under(a.path) # {}
  /\ tried \subseteq candidates
  /\ area \in candidates \cup {Whole}
  /\ prefix = Root \/ IsDirectory(prefix)
  /\ Len(areas) <= limit
  /\ \A i \in DOMAIN areas : areas[i] \in candidates

AreasInit ==
  /\ picking = "idle"
  /\ index = {}
  /\ limit = 0
  /\ candidates = {}
  /\ area = Whole
  /\ prefix = Root
  /\ tried = {}
  /\ areas = <<>>

StartPicking(rows) ==
  /\ picking = "idle"
  /\ picking' = "under"
  /\ index' = rows
  /\ limit' \in Limits
  /\ UNCHANGED <<candidates, area, prefix, tried, areas>>

\* A directory that is all there is at its level is not an area: step into it.
StepInto ==
  /\ picking = "under"
  /\ Cardinality(Directories(prefix)) = 1
  /\ prefix' \in Directories(prefix)
  /\ UNCHANGED <<picking, index, limit, candidates, area, tried, areas>>

Arrived == picking = "under" /\ Cardinality(Directories(prefix)) # 1

RootAreas ==
  /\ Arrived
  /\ area = Whole
  /\ candidates' = OwnAreas(prefix)
  /\ picking' = "choose"
  /\ UNCHANGED <<index, limit, area, prefix, tried, areas>>

SplitArea ==
  /\ Arrived
  /\ area # Whole
  /\ Cardinality(OwnAreas(prefix)) >= 2
  /\ candidates' = Without(candidates, area) \cup OwnAreas(prefix)
  /\ tried' = {}
  /\ picking' = "choose"
  /\ area' = Whole
  /\ UNCHANGED <<index, limit, prefix, areas>>

DoesNotSplit ==
  /\ Arrived
  /\ area # Whole
  /\ Cardinality(OwnAreas(prefix)) < 2
  /\ tried' = tried \cup {area}
  /\ picking' = "choose"
  /\ UNCHANGED <<index, limit, candidates, area, prefix, areas>>

TryLargest ==
  /\ picking = "choose"
  /\ Cardinality(candidates) < limit
  /\ \E a \in Largest(Untried) : area' = a /\ prefix' = a.path
  /\ picking' = "under"
  /\ UNCHANGED <<index, limit, candidates, tried, areas>>

Settled ==
  /\ picking = "choose"
  /\ Cardinality(candidates) >= limit \/ Untried = {}
  /\ picking' = "keep"
  /\ UNCHANGED <<index, limit, candidates, area, prefix, tried, areas>>

KeepLargest ==
  /\ picking = "keep"
  /\ Len(areas) < Kept
  /\ \E a \in Largest(candidates \ {areas[i] : i \in DOMAIN areas}) : areas' = Append(areas, a)
  /\ UNCHANGED <<picking, index, limit, candidates, area, prefix, tried>>

Picked == picking = "keep" /\ Len(areas) = Kept

PickAreas ==
  StepInto \/ RootAreas \/ SplitArea \/ DoesNotSplit \/ TryLargest \/ Settled \/ KeepLargest

-----------------------------------------------------------------------------
(* A reference: what the areas stand for, said of the files alone *)

Folder(f) ==
  LET slashes == {i \in DOMAIN f : f[i] = Slash}
  IN  IF slashes = {} THEN Root ELSE SubSeq(f, 1, Max(slashes))

\* Files next to directories are ignored (decision 060); the others count.
BesideDirectory(f) == \E g \in Under(Folder(f)) : IsDirectory(Entry(Folder(f), g))
Covered == {f \in Files : ~BesideDirectory(f)}

InArea(f, path) == IF IsDirectory(path) THEN IsPrefix(path, f) ELSE f = path

(* Properties *)

\* There are as many areas as were asked for, unless every file that counts
\* has one to itself (decision 060: `Stop at limit or when nothing can be
\* split').
FillsTheLimit == Picked => Len(areas) = Min({limit, Cardinality(Covered)})

\* Areas do not overlap, and until there are too many of them no file that
\* counts is outside them.
CoversTheCode ==
  Picked =>
    \A f \in Covered :
      LET in == {i \in DOMAIN areas : InArea(f, areas[i].path)}
      IN  Cardinality(in) <= 1 /\ (Len(areas) < limit => in # {})
=============================================================================
