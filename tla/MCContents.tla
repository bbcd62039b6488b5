----------------------------- MODULE MCContents -----------------------------
(***************************************************************************)
(* Small clones: a file at the root, two directories whose names begin     *)
(* alike, one of them with three files of which two begin alike, and a     *)
(* directory whose code is one file, but may be the largest.  The texts of *)
(* a file are the first of two that are alike and one that is not; one     *)
(* clone has a file too large and one that is excluded.  A few have a file *)
(* that is not UTF-8, and so comes to other texts when it is counted.      *)
(***************************************************************************)
EXTENDS Contents

Names == {<<1>>, <<1, 1, 0, 2>>, <<1, 0, 2>>, <<1, 0, 2, 2>>, <<1, 0, 3>>, <<3, 0, 1, 0, 2>>}
MostChunks(f) == CASE f = <<1>> -> 1 [] f = <<3, 0, 1, 0, 2>> -> 3 [] OTHER -> 2
Texts(n) == SubSeq(<<"a", "a", "b">>, 1, n)

Alike(texts) == [counted |-> texts, read |-> texts]

Unwanted ==
  [f \in {<<1, 0, 3>>, <<2>>, <<1, 0, 2>>} |->
     Alike(CASE f = <<1, 0, 3>> -> <<"b">> [] f = <<2>> -> <<"a">> [] OTHER -> <<"a", "a", "a", "a">>)]

\* Two areas, of which the first is gone in the clone above.
TwoAreas == [f \in {<<1, 0, 2>>, <<1, 0, 3>>} |-> Alike(IF f = <<1, 0, 2>> THEN <<"a">> ELSE <<"b">>)]

\* Decoded as UTF-8, a file in UTF-16 has twice its characters: it may count for
\* more than it is read as, or for nothing, as one that is too large.
OtherEncodings ==
  {[f \in Names |-> IF f = <<3, 0, 1, 0, 2>> THEN [counted |-> <<"a", "a", "b", "c">>, read |-> Texts(3)]
                    ELSE Alike(Texts(MostChunks(f)))],
   [f \in Names |-> IF f = <<1, 0, 2>> THEN [counted |-> <<"c", "c">>, read |-> Texts(1)]
                    ELSE Alike(Texts(MostChunks(f)))],
   [f \in {<<1>>, <<1, 0, 2>>} |-> [counted |-> <<"c", "c">>, read |-> Texts(1)]]}
SmallClones ==
  {[f \in {g \in Names : count[g] > 0} |-> Alike(Texts(count[f]))] :
     count \in {c \in [Names -> 0..3] : \A f \in Names : c[f] <= MostChunks(f)}} \cup {Unwanted, TwoAreas} \cup OtherEncodings
ChangedClones == {Unwanted}
RowsOfTwoAreas == {{<<<<1, 0, 2>>, "a", 1>>, <<<<1, 0, 3>>, "b", 1>>}}
OneNeighbour == {<<<<1>>, "a", 1>>}
=============================================================================
