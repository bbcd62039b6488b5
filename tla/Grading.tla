------------------------------ MODULE Grading ------------------------------
(***************************************************************************)
(* What becomes of a model's reply about one answer, and of the scores:    *)
(* citations are held against the code the model was shown, and numbers    *)
(* are computed.  Of a reply's text, only the chunks it names.             *)
(***************************************************************************)
EXTENDS Sources

TheCode == <<>>   \* no file

Trim(points, limit) == [p \in DOMAIN points \cap 1..limit |-> points[p]]

\* Chunk ids in prose become files, those not shown "the code".
Named(ids, shown) == {IF i \in shown THEN File(i) ELSE TheCode : i \in ids}

\* Citations of what was shown; a point left with none is dropped.
Grounded(reply, shown) ==
  [score |-> reply.score,
   points |-> [p \in {q \in DOMAIN reply.points : reply.points[q] \cap shown # {}} |-> reply.points[p] \cap shown],
   evidence |-> reply.evidence \cap shown,
   names |-> Named(reply.evidence, shown)]

\* One decimal, ties to even: tenths.
Rounded(sum, n) ==
  LET q == (10 * sum) \div n
      r == (10 * sum) % n
  IN  IF 2 * r < n \/ (2 * r = n /\ q % 2 = 0) THEN q ELSE q + 1

Total(scores) == Cardinality(UNION {{k} \X (1..scores[k]) : k \in DOMAIN scores})
Average(scores) ==
  IF DOMAIN scores = {} THEN -1 ELSE Rounded(Total(scores), Cardinality(DOMAIN scores))
=============================================================================
