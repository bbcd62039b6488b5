------------------------------ MODULE Sources ------------------------------
(***************************************************************************)
(* Paths and chunks.  A path is a sequence of characters of which only the *)
(* slash is told apart, since an area is found again, when its code is     *)
(* retrieved, by the prefix its path is.                                   *)
(***************************************************************************)
EXTENDS Integers, Sequences, FiniteSets, SequencesExt, FiniteSetsExt

Slash == 0   \* sorts before letters and digits
Root == <<>>
IsDirectory(path) == path # Root /\ Last(path) = Slash
Filenames == {path \in Seq(Nat) : path # Root /\ ~IsDirectory(path)}

\* An id stands for what it is made from: the file, the text, and how many
\* chunks of the file with that text there are so far.
File(id) == id[1]
FilesOf(ids) == {File(id) : id \in ids}
=============================================================================
