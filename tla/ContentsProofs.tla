--------------------------- MODULE ContentsProofs ---------------------------
(***************************************************************************)
(* For any repositories, limits and number of passes: the index becomes    *)
(* its source, areas fill the limit and cover the code without overlap,    *)
(* questions keep to their areas, and the report to the code and the       *)
(* scores of the turns that were graded.                                   *)
(***************************************************************************)
EXTENDS Contents, FiniteSetTheorems, SequenceTheorems, WellFoundedInduction, TLAPS

Path == Seq(Nat)

-----------------------------------------------------------------------------
(* Sets and numbers *)

\* A finite set of numbers has a largest one: the set of the numbers above
\* it is minimal among the sets of numbers above one of them.
LEMMA MaxExists ==
  ASSUME NEW S \in SUBSET Nat, IsFiniteSet(S), S # {}
  PROVE  \E m \in S : \A x \in S : x <= m
<1> DEFINE Above(m) == {x \in S : x > m}
           T == {Above(m) : m \in S}
<1>1. T \subseteq FiniteSubsetsOf(S)
  BY FS_Subset DEF FiniteSubsetsOf
<1>2. IsWellFoundedOn(StrictSubsetOrdering(S), FiniteSubsetsOf(S))
  BY FS_StrictSubsetOrderingWellFounded
<1>3. PICK A \in T : \A B \in T : <<B, A>> \notin StrictSubsetOrdering(S)
  <2> HIDE DEF T
  <2> T # {}
    BY DEF T
  <2> QED
    BY <1>1, <1>2, WFMin
<1>4. PICK m \in S : A = Above(m)
  BY <1>3
<1>5. ASSUME NEW x \in S, ~(x <= m)
      PROVE  FALSE
  <2>0. x \in Nat /\ m \in Nat /\ m < x /\ \A y \in S : y \in Nat
    BY <1>5
  <2>a. \A y \in S : y > x => y > m
    BY <2>0
  <2>b. ~(x > x) /\ x > m
    BY <2>0
  <2>1. Above(x) \subseteq Above(m) /\ x \in Above(m) /\ x \notin Above(x)
    BY <2>a, <2>b, Zenon
  <2>2. <<Above(x), Above(m)>> \in StrictSubsetOrdering(S)
    BY <2>1 DEF StrictSubsetOrdering
  <2> QED
    BY <1>3, <1>4, <2>2
<1> QED
  BY <1>5

\* ... and a least one.
LEMMA MinExists ==
  ASSUME NEW S \in SUBSET Nat, IsFiniteSet(S), S # {}
  PROVE  \E m \in S : \A x \in S : m <= x
<1> DEFINE Below(m) == {x \in S : x < m}
           T == {Below(m) : m \in S}
<1>1. T \subseteq FiniteSubsetsOf(S)
  BY FS_Subset DEF FiniteSubsetsOf
<1>2. IsWellFoundedOn(StrictSubsetOrdering(S), FiniteSubsetsOf(S))
  BY FS_StrictSubsetOrderingWellFounded
<1>3. PICK A \in T : \A B \in T : <<B, A>> \notin StrictSubsetOrdering(S)
  <2> HIDE DEF T
  <2> T # {}
    BY DEF T
  <2> QED
    BY <1>1, <1>2, WFMin
<1>4. PICK m \in S : A = Below(m)
  BY <1>3
<1>5. ASSUME NEW x \in S, ~(m <= x)
      PROVE  FALSE
  <2>0. x \in Nat /\ m \in Nat /\ x < m /\ \A y \in S : y \in Nat
    BY <1>5
  <2>a. \A y \in S : y < x => y < m
    BY <2>0
  <2>b. ~(x < x) /\ x < m
    BY <2>0
  <2>1. Below(x) \subseteq Below(m) /\ x \in Below(m) /\ x \notin Below(x)
    BY <2>a, <2>b, Zenon
  <2>2. <<Below(x), Below(m)>> \in StrictSubsetOrdering(S)
    BY <2>1 DEF StrictSubsetOrdering
  <2> QED
    BY <1>3, <1>4, <2>2
<1> QED
  BY <1>5

\* Min is what it says.
LEMMA MinIs ==
  ASSUME NEW S \in SUBSET Nat, IsFiniteSet(S), S # {}
  PROVE  Min(S) \in S /\ \A x \in S : Min(S) <= x
BY MinExists DEF Min

\* So is Max.
LEMMA MaxIs ==
  ASSUME NEW S \in SUBSET Nat, IsFiniteSet(S), S # {}
  PROVE  Max(S) \in S /\ \A x \in S : x <= Max(S)
BY MaxExists DEF Max

\* The least of two.
LEMMA MinOfTwo ==
  ASSUME NEW a \in Nat, NEW b \in Nat
  PROVE  Min({a, b}) = IF a <= b THEN a ELSE b
<1>1. PICK m \in {a, b} : \A x \in {a, b} : m <= x
  OBVIOUS
<1>2. Min({a, b}) \in {a, b} /\ \A x \in {a, b} : Min({a, b}) <= x
  BY <1>1 DEF Min
<1> QED
  BY <1>2

-----------------------------------------------------------------------------
(* Paths *)

\* A prefix, index by index.
LEMMA Prefix ==
  ASSUME NEW p \in Path, NEW q \in Path
  PROVE  IsPrefix(p, q) <=> Len(p) <= Len(q) /\ \A i \in 1..Len(p) : p[i] = q[i]
<1>1. SubSeq(p, 1, Len(p)) = p
  BY DEF Path
<1>2. CASE Len(p) <= Len(q)
  <2>1. SubSeq(q, 1, Len(p)) \in Path /\ Len(SubSeq(q, 1, Len(p))) = Len(p)
        /\ \A i \in 1..Len(p) : SubSeq(q, 1, Len(p))[i] = q[i]
    BY <1>2 DEF Path
  <2> QED
    BY <1>1, <1>2, <2>1 DEF IsPrefix, Path
<1> QED
  BY <1>2 DEF IsPrefix

\* Prefixes are ordered.
LEMMA PrefixReflexive ==
  ASSUME NEW p \in Path
  PROVE  IsPrefix(p, p)
BY Prefix DEF Path

\* A prefix of a prefix is one.
LEMMA PrefixTransitive ==
  ASSUME NEW p \in Path, NEW q \in Path, NEW r \in Path, IsPrefix(p, q), IsPrefix(q, r)
  PROVE  IsPrefix(p, r)
BY Prefix DEF Path

\* Of two prefixes of a path one begins the other.
LEMMA PrefixesCompare ==
  ASSUME NEW p \in Path, NEW q \in Path, NEW r \in Path, IsPrefix(p, r), IsPrefix(q, r)
  PROVE  IsPrefix(p, q) \/ IsPrefix(q, p)
<1>1. Len(p) \in Nat /\ Len(q) \in Nat
  BY DEF Path
<1>2. /\ Len(p) <= Len(r) /\ \A i \in 1..Len(p) : p[i] = r[i]
      /\ Len(q) <= Len(r) /\ \A i \in 1..Len(q) : q[i] = r[i]
  BY Prefix
<1>3. CASE Len(p) <= Len(q)
  BY <1>1, <1>2, <1>3, Prefix
<1>4. CASE Len(q) <= Len(p)
  BY <1>1, <1>2, <1>4, Prefix
<1> QED
  BY <1>1, <1>3, <1>4

\* Every path begins at the root.
LEMMA RootIsPrefix ==
  ASSUME NEW p \in Path
  PROVE  IsPrefix(Root, p) /\ Root \in Path
<1>1. Root \in Path /\ Len(Root) = 0 /\ Len(p) \in Nat
  BY DEF Path, Root
<1> QED
  BY <1>1, Prefix

\* What a path is cut to is a prefix of it.
LEMMA Start ==
  ASSUME NEW f \in Path, NEW n \in 0..Len(f)
  PROVE  LET s == SubSeq(f, 1, n)
         IN  s \in Path /\ Len(s) = n /\ IsPrefix(s, f) /\ \A i \in 1..n : s[i] = f[i]
<1> DEFINE s == SubSeq(f, 1, n)
<1>1. Len(f) \in Nat /\ n \in Nat /\ \A i \in 1..n : f[i] \in Nat
  BY DEF Path
<1>2. s \in Path /\ Len(s) = n /\ \A i \in 1..n : s[i] = f[i]
  <2>1. /\ s \in Seq(Nat)
        /\ Len(s) = IF 1 <= n THEN n - 1 + 1 ELSE 0
        /\ \A i \in 1..(n - 1 + 1) : s[i] = f[1 + i - 1]
    BY <1>1, SubSeqProperties
  <2> HIDE DEF s
  <2> QED
    BY <1>1, <2>1 DEF Path
<1>3. IsPrefix(s, f)
  <2> HIDE DEF s
  <2>1. n <= Len(f)
    BY <1>1
  <2> QED
    BY <1>2, <2>1, Prefix
<1> QED
  BY <1>2, <1>3

\* Paths are equal that are so at every index.
LEMMA SamePath ==
  ASSUME NEW p \in Path, NEW q \in Path, Len(p) = Len(q), \A i \in 1..Len(p) : p[i] = q[i]
  PROVE  p = q
BY DEF Path

\* A place to look for areas in: the root, or a directory.
Place(p) == p \in Path /\ (p = Root \/ IsDirectory(p))

\* A filename does not end with a slash, a directory does.
LEMMA FilenameIs ==
  ASSUME NEW f \in Filenames
  PROVE  f \in Path /\ f # Root /\ ~IsDirectory(f) /\ Len(f) \in Nat \ {0} /\ f[Len(f)] # Slash
<1>1. f \in Path /\ f # Root /\ ~IsDirectory(f)
  BY DEF Filenames, Path
<1>2. Len(f) \in Nat \ {0}
  BY <1>1 DEF Path, Root
<1> QED
  BY <1>1, <1>2 DEF IsDirectory, Last

\* A directory ends with a slash.
LEMMA DirectoryIs ==
  ASSUME NEW p \in Path, IsDirectory(p)
  PROVE  Len(p) \in Nat \ {0} /\ p[Len(p)] = Slash
BY DEF Path, IsDirectory, Last, Root

\* No slash of f comes after p.
Direct(p, f) == \A i \in (Len(p) + 1)..Len(f) : f[i] # Slash

\* What holds a file under a directory: the file, or a longer directory.
LEMMA EntryIs ==
  ASSUME NEW p, Place(p), NEW f \in Filenames, IsPrefix(p, f)
  PROVE  LET e == Entry(p, f)
         IN  /\ e \in Path /\ IsPrefix(p, e) /\ IsPrefix(e, f)
             /\ Len(p) < Len(e) /\ Len(e) <= Len(f)
             /\ \A i \in (Len(p) + 1)..(Len(e) - 1) : e[i] # Slash
             /\ IF Direct(p, f) THEN e = f ELSE IsDirectory(e)
<1> DEFINE e == Entry(p, f)
           slashes == {i \in (Len(p) + 1)..Len(f) : f[i] = Slash}
<1>1. /\ p \in Path /\ f \in Path /\ Len(p) \in Nat /\ Len(f) \in Nat \ {0} /\ f[Len(f)] # Slash
      /\ Len(p) <= Len(f) /\ \A i \in 1..Len(p) : p[i] = f[i]
  BY FilenameIs, Prefix DEF Place, Path
<1>2. Len(p) < Len(f)
  <2>1. CASE p = Root
    BY <1>1, <2>1 DEF Root
  <2>2. CASE IsDirectory(p)
    BY <1>1, <2>2, DirectoryIs
  <2> QED
    BY <2>1, <2>2 DEF Place
<1>3. CASE Direct(p, f)
  <2>1. slashes = {}
    BY <1>3 DEF Direct
  <2>2. e = f
    BY <2>1 DEF Entry
  <2>3. \A i \in (Len(p) + 1)..(Len(f) - 1) : f[i] # Slash
    BY <1>1, <1>3 DEF Direct
  <2> HIDE DEF e
  <2> QED
    BY <1>1, <1>2, <1>3, <2>2, <2>3, PrefixReflexive DEF e
<1>4. CASE ~Direct(p, f)
  <2>1. slashes # {}
    BY <1>4 DEF Direct
  <2>2. slashes \in SUBSET Nat /\ IsFiniteSet(slashes)
    <3>1. slashes \in SUBSET Nat
      BY <1>1
    <3>2. IsFiniteSet((Len(p) + 1)..Len(f))
      BY <1>1, FS_Interval
    <3>3. IsFiniteSet(slashes)
      BY <3>2, FS_Subset
    <3> QED
      BY <3>1, <3>3
  <2>3. PICK n \in slashes : n = Min(slashes) /\ \A i \in slashes : n <= i
    <3> HIDE DEF slashes
    <3> QED
      BY <2>1, <2>2, MinIs
  <2>4. e = SubSeq(f, 1, n)
    BY <2>1, <2>3 DEF Entry
  <2>5. n \in (Len(p) + 1)..Len(f) /\ n \in 0..Len(f) /\ f[n] = Slash /\ n \in Nat
    BY <1>1, <2>3
  <2>6. e \in Path /\ Len(e) = n /\ IsPrefix(e, f) /\ \A i \in 1..n : e[i] = f[i]
    BY <1>1, <2>4, <2>5, Start
  <2> HIDE DEF e
  <2>7. IsPrefix(p, e)
    <3>1. Len(p) <= Len(e) /\ \A i \in 1..Len(p) : p[i] = e[i]
      BY <1>1, <2>5, <2>6
    <3> QED
      BY <1>1, <2>6, <3>1, Prefix
  <2>8. \A i \in (Len(p) + 1)..(n - 1) : e[i] # Slash
    <3> SUFFICES ASSUME NEW i \in (Len(p) + 1)..(n - 1), e[i] = Slash
                 PROVE  FALSE
      OBVIOUS
    <3>1. i \in 1..n /\ i \in (Len(p) + 1)..Len(f) /\ i < n
      BY <1>1, <2>5
    <3>2. i \in slashes
      BY <2>6, <3>1
    <3> QED
      BY <2>3, <2>5, <3>1, <3>2
  <2>9. IsDirectory(e)
    <3>1. e[Len(e)] = Slash /\ Len(e) # 0
      BY <1>1, <2>5, <2>6
    <3> QED
      BY <3>1 DEF IsDirectory, Last, Root
  <2> QED
    BY <1>1, <1>4, <2>5, <2>6, <2>7, <2>8, <2>9 DEF e
<1> QED
  BY <1>3, <1>4

\* A file below a directory directly under p has that directory as its entry.
LEMMA EntryShared ==
  ASSUME NEW p, Place(p), NEW f \in Filenames, IsPrefix(p, f), IsDirectory(Entry(p, f)),
         NEW g \in Filenames, IsPrefix(Entry(p, f), g)
  PROVE  IsPrefix(p, g) /\ Entry(p, g) = Entry(p, f)
<1>1. PICK e \in Path : e = Entry(p, f)
  BY EntryIs
<1>2. PICK d : d = Entry(p, g)
  OBVIOUS
<1>3. p \in Path /\ g \in Path /\ Len(p) \in Nat /\ Len(e) \in Nat
  BY FilenameIs DEF Place, Path
<1>4. /\ IsPrefix(p, e) /\ IsDirectory(e) /\ IsPrefix(e, g)
      /\ Len(p) < Len(e) /\ \A i \in (Len(p) + 1)..(Len(e) - 1) : e[i] # Slash
  BY <1>1, EntryIs
<1>5. IsPrefix(p, g)
  BY <1>3, <1>4, PrefixTransitive
<1>6. /\ d \in Path /\ IsPrefix(d, g) /\ Len(d) \in Nat
      /\ Len(p) < Len(d) /\ \A i \in (Len(p) + 1)..(Len(d) - 1) : d[i] # Slash
      /\ IF Direct(p, g) THEN d = g ELSE IsDirectory(d)
  BY <1>2, <1>5, EntryIs DEF Path
<1>7. /\ Len(e) <= Len(g) /\ \A i \in 1..Len(e) : e[i] = g[i]
      /\ Len(d) <= Len(g) /\ \A i \in 1..Len(d) : d[i] = g[i]
      /\ Len(g) \in Nat
  BY <1>3, <1>4, <1>6, Prefix DEF Path
<1>8. e[Len(e)] = Slash
  BY <1>4, DirectoryIs
<1>9. ~Direct(p, g)
  <2>1. Len(e) \in (Len(p) + 1)..Len(g) /\ g[Len(e)] = Slash
    BY <1>3, <1>4, <1>7, <1>8
  <2> QED
    BY <2>1 DEF Direct
<1>10. d[Len(d)] = Slash
  BY <1>6, <1>9, DirectoryIs
<1>11. Len(d) = Len(e)
  <2>1. ~(Len(d) < Len(e))
    <3> SUFFICES ASSUME Len(d) < Len(e)
                 PROVE  FALSE
      OBVIOUS
    <3>1. Len(d) \in (Len(p) + 1)..(Len(e) - 1) /\ Len(d) \in 1..Len(e) /\ Len(d) \in 1..Len(d)
      BY <1>3, <1>6
    <3>2. e[Len(d)] = Slash
      BY <1>7, <1>10, <3>1
    <3> QED
      BY <1>4, <3>1, <3>2
  <2>2. ~(Len(e) < Len(d))
    <3> SUFFICES ASSUME Len(e) < Len(d)
                 PROVE  FALSE
      OBVIOUS
    <3>1. Len(e) \in (Len(p) + 1)..(Len(d) - 1) /\ Len(e) \in 1..Len(d) /\ Len(e) \in 1..Len(e)
      BY <1>3, <1>4, <1>6
    <3>2. d[Len(e)] = Slash
      BY <1>7, <1>8, <3>1
    <3> QED
      BY <1>6, <3>1, <3>2
  <2> QED
    BY <1>3, <1>6, <2>1, <2>2
<1>12. \A i \in 1..Len(d) : d[i] = e[i]
  BY <1>7, <1>11
<1>13. d = e
  BY <1>1, <1>6, <1>11, <1>12, SamePath
<1> QED
  BY <1>1, <1>2, <1>5, <1>13
\* The folder of a file holds it directly.
LEMMA FolderIs ==
  ASSUME NEW f \in Filenames
  PROVE  Place(Folder(f)) /\ IsPrefix(Folder(f), f) /\ Direct(Folder(f), f)
<1> DEFINE p == Folder(f)
           slashes == {i \in DOMAIN f : f[i] = Slash}
<1>1. f \in Path /\ Len(f) \in Nat \ {0} /\ DOMAIN f = 1..Len(f)
  BY FilenameIs DEF Path
<1>2. CASE slashes = {}
  <2>1. p = Root
    BY <1>2 DEF Folder
  <2>2. Direct(Root, f)
    BY <1>1, <1>2 DEF Direct, Root
  <2> HIDE DEF p
  <2> QED
    BY <1>1, <2>1, <2>2, RootIsPrefix DEF Place, p
<1>3. CASE slashes # {}
  <2>1. slashes \in SUBSET Nat /\ IsFiniteSet(slashes)
    <3>1. slashes \in SUBSET Nat
      BY <1>1
    <3>2. IsFiniteSet(1..Len(f))
      BY <1>1, FS_Interval
    <3>3. IsFiniteSet(slashes)
      BY <1>1, <3>2, FS_Subset
    <3> QED
      BY <3>1, <3>3
  <2>2. PICK n \in slashes : n = Max(slashes) /\ \A i \in slashes : i <= n
    <3> HIDE DEF slashes
    <3> QED
      BY <1>3, <2>1, MaxIs
  <2>3. p = SubSeq(f, 1, n)
    BY <1>3, <2>2 DEF Folder
  <2>4. n \in 1..Len(f) /\ n \in 0..Len(f) /\ f[n] = Slash /\ n \in Nat /\ n # 0
    BY <1>1, <2>2
  <2>5. p \in Path /\ Len(p) = n /\ IsPrefix(p, f) /\ \A i \in 1..n : p[i] = f[i]
    BY <1>1, <2>3, <2>4, Start
  <2> HIDE DEF p
  <2>6. IsDirectory(p)
    <3>1. p[Len(p)] = Slash /\ Len(p) # 0
      BY <1>1, <2>4, <2>5
    <3> QED
      BY <3>1 DEF IsDirectory, Last, Root
  <2>7. ASSUME NEW i \in (Len(p) + 1)..Len(f), f[i] = Slash
        PROVE  FALSE
    <3>1. i \in 1..Len(f) /\ i > n /\ i \in Nat
      BY <1>1, <2>4, <2>5, <2>7
    <3>2. i \in slashes
      BY <1>1, <2>7, <3>1
    <3>3. i <= n
      BY <2>2, <3>2
    <3> QED
      BY <2>4, <3>1, <3>3
  <2> QED
    BY <2>5, <2>6, <2>7 DEF Place, Direct, p
<1> QED
  BY <1>2, <1>3

\* The folder of a file below p is p, or below p.
LEMMA FolderUnder ==
  ASSUME NEW p, Place(p), NEW f \in Filenames, IsPrefix(p, f)
  PROVE  IsPrefix(p, Folder(f)) /\ (Direct(p, f) => Folder(f) = p)
<1>1. PICK d : d = Folder(f)
  OBVIOUS
<1>2. /\ p \in Path /\ d \in Path /\ f \in Path /\ IsPrefix(d, f) /\ Direct(d, f)
      /\ Len(p) \in Nat /\ Len(d) \in Nat /\ Len(f) \in Nat
  BY <1>1, FolderIs, FilenameIs DEF Place, Path
<1>3. /\ Len(p) <= Len(f) /\ \A i \in 1..Len(p) : p[i] = f[i]
      /\ Len(d) <= Len(f) /\ \A i \in 1..Len(d) : d[i] = f[i]
  BY <1>2, Prefix
<1>4. Len(p) <= Len(d)
  <2>1. CASE p = Root
    BY <1>2, <2>1 DEF Root
  <2>2. CASE IsDirectory(p) /\ Len(d) < Len(p)
    <3>1. Len(p) \in (Len(d) + 1)..Len(f) /\ Len(p) \in 1..Len(p) /\ p[Len(p)] = Slash
      BY <1>2, <1>3, <2>2, DirectoryIs
    <3>2. f[Len(p)] = Slash
      BY <1>3, <3>1
    <3> QED
      BY <1>2, <3>1, <3>2 DEF Direct
  <2> QED
    BY <1>2, <2>1, <2>2 DEF Place
<1>5. IsPrefix(p, d)
  BY <1>2, <1>3, <1>4, Prefix
<1>6. ASSUME Direct(p, f)
      PROVE  d = p
  <2>1. CASE Len(p) < Len(d)
    <3>1. d # Root
      BY <1>2, <2>1 DEF Root
    <3>2. IsDirectory(d)
      BY <1>1, <3>1, FolderIs DEF Place
    <3>3. Len(d) \in (Len(p) + 1)..Len(f) /\ Len(d) \in 1..Len(d) /\ d[Len(d)] = Slash
      BY <1>2, <1>3, <2>1, <3>2, DirectoryIs
    <3>4. f[Len(d)] = Slash
      BY <1>3, <3>3
    <3> QED
      BY <1>6, <3>3, <3>4 DEF Direct
  <2>2. CASE Len(p) = Len(d)
    BY <1>2, <1>3, <2>2, SamePath
  <2> QED
    BY <1>2, <1>4, <2>1, <2>2
<1> QED
  BY <1>1, <1>5, <1>6

-----------------------------------------------------------------------------
(* The areas of one place *)

FilesOK == IsFiniteSet(index) /\ Files \subseteq Filenames

\* A set with fewer than two members has not two.
LEMMA AtMostOne ==
  ASSUME NEW S, IsFiniteSet(S), Cardinality(S) < 2, NEW x \in S, NEW y \in S
  PROVE  x = y
<1> SUFFICES ASSUME x # y
             PROVE  FALSE
  OBVIOUS
<1>1. IsFiniteSet({x}) /\ Cardinality({x}) = 1
  BY FS_Singleton
<1>2. IsFiniteSet({x} \cup {y}) /\ Cardinality({x} \cup {y}) = 2
  BY <1>1, FS_AddElement
<1>3. {x} \cup {y} \in SUBSET S
  OBVIOUS
<1>4. Cardinality({x} \cup {y}) <= Cardinality(S) /\ Cardinality(S) \in Nat
  BY <1>3, FS_Subset, FS_CardinalityType
<1> QED
  BY <1>2, <1>4

\* Whatever maps a finite set onto another makes that finite.
LEMMA FilesFinite == ASSUME FilesOK PROVE IsFiniteSet(Files)
<1> DEFINE g == [id \in index |-> File(id)]
<1>1. g \in Surjection(index, Files)
  BY DEF Surjection, Files, FilesOf
<1> QED
  BY <1>1, FS_Surjection DEF FilesOK

\* What is under a path is a file of the index.
LEMMA UnderIs ==
  ASSUME FilesOK, NEW p, NEW f \in Under(p)
  PROVE  f \in Files /\ f \in Filenames /\ f \in Path /\ IsPrefix(p, f)
BY FilenameIs DEF FilesOK, Under

\* A directory under a path is a place of its own and holds what it is the entry of.
LEMMA DirectoriesAre ==
  ASSUME FilesOK, NEW p, Place(p), NEW e \in Directories(p)
  PROVE  /\ Place(e) /\ IsDirectory(e) /\ IsPrefix(p, e) /\ Len(p) < Len(e) /\ p # e
         /\ \A f \in Under(e) : f \in Under(p) /\ Entry(p, f) = e
         /\ Under(e) # {}
<1>1. PICK f \in Under(p) : e = Entry(p, f) /\ IsDirectory(e)
  BY DEF Directories, Entries
<1>2. f \in Files /\ f \in Filenames /\ IsPrefix(p, f)
  BY UnderIs
<1>3. e \in Path /\ IsPrefix(p, e) /\ IsPrefix(e, f) /\ Len(p) < Len(e) /\ Len(p) \in Nat
  BY <1>1, <1>2, EntryIs DEF Place, Path
<1>4. f \in Under(e)
  BY <1>2, <1>3 DEF Under
<1>5. ASSUME NEW g \in Under(e)
      PROVE  g \in Under(p) /\ Entry(p, g) = e
  <2>1. g \in Files /\ g \in Filenames /\ IsPrefix(e, g)
    BY UnderIs
  <2>2. IsPrefix(p, g) /\ Entry(p, g) = e
    BY <1>1, <1>2, <2>1, EntryShared
  <2> QED
    BY <2>1, <2>2 DEF Under
<1> QED
  BY <1>1, <1>3, <1>4, <1>5 DEF Place

\* A file that is not directly in p is in one of its directories.
LEMMA InDirectory ==
  ASSUME FilesOK, NEW p, Place(p), NEW f \in Under(p), ~Direct(p, f)
  PROVE  Entry(p, f) \in Directories(p) /\ IsPrefix(Entry(p, f), f)
BY UnderIs, EntryIs DEF Directories, Entries

\* A file counts if and only if its folder has no directories.
LEMMA CoveredNotBeside ==
  ASSUME FilesOK, NEW p, Place(p), NEW f \in Under(p), Direct(p, f)
  PROVE  f \in Covered <=> Directories(p) = {}
<1>1. f \in Files /\ Folder(f) = p
  BY UnderIs, FolderUnder
<1>2. BesideDirectory(f) <=> \E g \in Under(p) : IsDirectory(Entry(p, g))
  BY <1>1 DEF BesideDirectory
<1>3. Directories(p) = {} <=> ~\E g \in Under(p) : IsDirectory(Entry(p, g))
  BY DEF Directories, Entries
<1> QED
  BY <1>1, <1>2, <1>3 DEF Covered

\* What counts is a file.
LEMMA CoveredIs == ASSUME FilesOK, NEW f \in Covered PROVE f \in Files /\ f \in Filenames /\ f \in Path
BY FilenameIs DEF FilesOK, Covered

\* Every place with code has a file that counts: one in a deepest folder.
LEMMA SomethingCovered ==
  ASSUME FilesOK, NEW p, Place(p), Under(p) # {}
  PROVE  \E f \in Covered : f \in Under(p)
<1> DEFINE depth == [f \in Under(p) |-> Len(Folder(f))]
           depths == {depth[f] : f \in Under(p)}
<1>1. \A f \in Under(p) : Place(Folder(f)) /\ Len(Folder(f)) \in Nat
  BY UnderIs, FolderIs DEF Place, Path
<1>2. IsFiniteSet(Under(p))
  BY FilesFinite, FS_Subset DEF Under
<1>3. depth \in Surjection(Under(p), depths)
  BY DEF Surjection
<1>4. IsFiniteSet(depths)
  BY <1>2, <1>3, FS_Surjection
<1>5. depths \in SUBSET Nat /\ depths # {}
  BY <1>1
<1>6. PICK n \in depths : \A m \in depths : m <= n
  <2> HIDE DEF depths
  <2> QED
    BY <1>4, <1>5, MaxExists
<1>7. PICK f \in Under(p) : n = Len(Folder(f))
  BY <1>6
<1>8. PICK d : d = Folder(f)
  OBVIOUS
<1>9. Place(d) /\ f \in Files /\ IsPrefix(d, f) /\ Direct(d, f) /\ IsPrefix(p, d) /\ p \in Path /\ d \in Path
  BY <1>8, UnderIs, FolderIs, FolderUnder DEF Place
<1>10. f \in Under(d)
  BY <1>9 DEF Under
<1>11. Directories(d) = {}
  <2> SUFFICES ASSUME NEW e \in Directories(d)
               PROVE  FALSE
    OBVIOUS
  <2>1. Place(e) /\ Len(d) < Len(e) /\ Under(e) # {} /\ IsPrefix(d, e) /\ e \in Path
    BY <1>9, DirectoriesAre DEF Place
  <2>2. PICK g \in Under(e) : TRUE
    BY <2>1
  <2>3. g \in Filenames /\ g \in Path /\ g \in Files /\ IsPrefix(e, g)
    BY UnderIs
  <2>4. IsPrefix(p, g)
    BY <1>9, <2>1, <2>3, PrefixTransitive
  <2>5. g \in Under(p)
    BY <2>3, <2>4 DEF Under
  <2>6. IsPrefix(e, Folder(g)) /\ Folder(g) \in Path
    BY <2>1, <2>3, FolderUnder, FolderIs DEF Place
  <2>7. Len(e) <= Len(Folder(g))
    BY <2>1, <2>6, Prefix
  <2>8. Len(Folder(g)) \in depths
    BY <2>5
  <2>9. Len(Folder(g)) <= Len(d)
    BY <1>6, <1>7, <1>8, <2>8
  <2>10. Len(d) \in Nat /\ Len(e) \in Nat /\ Len(Folder(g)) \in Nat
    BY <1>9, <2>1, <2>6 DEF Path
  <2> QED
    BY <2>1, <2>7, <2>9, <2>10
<1> QED
  BY <1>9, <1>10, <1>11, CoveredNotBeside

-----------------------------------------------------------------------------

\* What an area must be: a directory with something that counts, or a file that counts.
Node(a) ==
  /\ a.path \in Path /\ a.count \in Nat
  /\ IF IsDirectory(a.path) THEN \E f \in Covered : IsPrefix(a.path, f) ELSE a.path \in Covered

Apart(a, b) ==
  /\ a.path # b.path
  /\ IsDirectory(a.path) \/ IsDirectory(b.path) => ~IsPrefix(a.path, b.path) /\ ~IsPrefix(b.path, a.path)

Chosen(p) == IF Directories(p) = {} THEN Entries(p) ELSE Directories(p)

\* The areas of a path are those of what is chosen, each once.
LEMMA OwnIs ==
  ASSUME FilesOK, NEW p
  PROVE  /\ OwnAreas(p) = {Area(p, e) : e \in Chosen(p)}
         /\ \A e : Area(p, e).path = e /\ Area(p, e).count \in Nat
<1>1. OwnAreas(p) = {Area(p, e) : e \in Chosen(p)}
  BY DEF OwnAreas, Chosen
<1>2. ASSUME NEW e
      PROVE  Area(p, e).path = e /\ Area(p, e).count \in Nat
  <2> DEFINE ids == {id \in index : File(id) \in Under(p) /\ Entry(p, File(id)) = e}
  <2>1. IsFiniteSet(ids)
    BY FS_Subset DEF FilesOK
  <2>2. Cardinality(ids) \in Nat
    BY <2>1, FS_CardinalityType
  <2> QED
    BY <2>2 DEF Area
<1> QED
  BY <1>1, <1>2

\* A path has finitely many areas.
LEMMA OwnFinite == ASSUME FilesOK, NEW p PROVE IsFiniteSet(OwnAreas(p))
<1> DEFINE entry == [f \in Under(p) |-> Entry(p, f)]
           area0 == [e \in Chosen(p) |-> Area(p, e)]
<1>1. IsFiniteSet(Under(p))
  BY FilesFinite, FS_Subset DEF Under
<1>2. entry \in Surjection(Under(p), Entries(p))
  BY DEF Surjection, Entries
<1>3. IsFiniteSet(Entries(p))
  BY <1>1, <1>2, FS_Surjection
<1>4. Chosen(p) \in SUBSET Entries(p)
  BY DEF Chosen, Directories
<1>5. IsFiniteSet(Chosen(p))
  BY <1>3, <1>4, FS_Subset
<1>6. area0 \in Surjection(Chosen(p), OwnAreas(p))
  BY OwnIs DEF Surjection
<1> QED
  BY <1>5, <1>6, FS_Surjection

\* Without a directory the areas are files, and all of them count.
LEMMA OwnFiles ==
  ASSUME FilesOK, NEW p, Place(p), Directories(p) = {}
  PROVE  /\ \A f \in Under(p) : Direct(p, f) /\ Entry(p, f) = f /\ f \in Covered
         /\ Entries(p) = Under(p)
<1>1. ASSUME NEW f \in Under(p)
      PROVE  Direct(p, f) /\ Entry(p, f) = f /\ f \in Covered
  <2>1. Direct(p, f)
    BY InDirectory
  <2>2. f \in Covered
    BY <2>1, CoveredNotBeside
  <2> QED
    BY <2>1, <2>2, EntryIs, UnderIs
<1> QED
  BY <1>1 DEF Entries

\* The areas of a place are what areas must be, and below it.
LEMMA OwnNodes ==
  ASSUME FilesOK, NEW p, Place(p), NEW a \in OwnAreas(p)
  PROVE  Node(a) /\ IsPrefix(p, a.path)
<1>1. PICK e \in Chosen(p) : a.path = e /\ a.count \in Nat
  BY OwnIs
<1>2. CASE Directories(p) = {}
  <2>1. e \in Under(p) /\ e \in Covered
    BY <1>1, <1>2, OwnFiles DEF Chosen
  <2>2. e \in Path /\ IsPrefix(p, e) /\ ~IsDirectory(e)
    BY <2>1, UnderIs, FilenameIs
  <2> QED
    BY <1>1, <2>1, <2>2 DEF Node
<1>3. CASE Directories(p) # {}
  <2>1. e \in Directories(p)
    BY <1>1, <1>3 DEF Chosen
  <2>2. Place(e) /\ IsDirectory(e) /\ IsPrefix(p, e) /\ Under(e) # {}
    BY <2>1, DirectoriesAre
  <2>3. \E f \in Covered : IsPrefix(e, f)
    BY <2>2, SomethingCovered DEF Under
  <2> QED
    BY <1>1, <2>2, <2>3 DEF Node, Place
<1> QED
  BY <1>2, <1>3

\* They do not overlap.
LEMMA OwnApart ==
  ASSUME FilesOK, NEW p, Place(p), NEW a \in OwnAreas(p), NEW b \in OwnAreas(p), a # b
  PROVE  Apart(a, b)
<1>1. PICK d \in Chosen(p) : a = Area(p, d) /\ a.path = d
  BY OwnIs
<1>2. PICK e \in Chosen(p) : b = Area(p, e) /\ b.path = e
  BY OwnIs
<1>3. d # e
  BY <1>1, <1>2
<1>4. CASE Directories(p) = {}
  <2>1. d \in Under(p) /\ e \in Under(p)
    BY <1>1, <1>2, <1>4, OwnFiles DEF Chosen
  <2>2. ~IsDirectory(d) /\ ~IsDirectory(e)
    BY <2>1, UnderIs, FilenameIs
  <2> QED
    BY <1>1, <1>2, <1>3, <2>2 DEF Apart
<1>5. CASE Directories(p) # {}
  <2>1. d \in Directories(p) /\ e \in Directories(p)
    BY <1>1, <1>2, <1>5 DEF Chosen
  <2>2. ASSUME NEW x \in Directories(p), NEW y \in Directories(p), IsPrefix(x, y)
        PROVE  x = y
    <3>1. Place(x) /\ Place(y) /\ Under(y) # {}
      BY DirectoriesAre
    <3>2. PICK f \in Under(y) : TRUE
      BY <3>1
    <3>3. f \in Files /\ f \in Path /\ IsPrefix(y, f)
      BY UnderIs
    <3>4. IsPrefix(x, f)
      BY <2>2, <3>1, <3>3, PrefixTransitive DEF Place
    <3>5. f \in Under(x)
      BY <3>3, <3>4 DEF Under
    <3> QED
      BY <3>5, DirectoriesAre
  <2> QED
    BY <1>1, <1>2, <1>3, <2>1, <2>2 DEF Apart
<1> QED
  BY <1>4, <1>5

\* A file that counts is in a directory, if there is one.
LEMMA CoveredEntry ==
  ASSUME FilesOK, NEW p, Place(p), Directories(p) # {}, NEW f \in Covered, IsPrefix(p, f)
  PROVE  Entry(p, f) \in Directories(p) /\ IsPrefix(Entry(p, f), f)
<1>1. f \in Under(p)
  BY CoveredIs DEF Under
<1>2. ~Direct(p, f)
  BY <1>1, CoveredNotBeside
<1> QED
  BY <1>1, <1>2, InDirectory

\* Every file that counts is in one of the areas.
LEMMA OwnCovers ==
  ASSUME FilesOK, NEW p, Place(p), NEW f \in Covered, IsPrefix(p, f)
  PROVE  \E a \in OwnAreas(p) : InArea(f, a.path)
<1>1. f \in Under(p) /\ ~IsDirectory(f)
  BY CoveredIs, FilenameIs DEF Under
<1>2. CASE Directories(p) = {}
  <2>1. f \in Chosen(p)
    BY <1>1, <1>2, OwnFiles DEF Chosen
  <2>2. Area(p, f) \in OwnAreas(p) /\ Area(p, f).path = f
    BY <2>1, OwnIs
  <2> QED
    BY <1>1, <2>2 DEF InArea
<1>3. CASE Directories(p) # {}
  <2>1. PICK e \in Directories(p) : IsPrefix(e, f)
    BY <1>3, CoveredEntry
  <2>2. Area(p, e) \in OwnAreas(p) /\ Area(p, e).path = e
    BY <1>3, OwnIs DEF Chosen
  <2>3. IsDirectory(e)
    BY DEF Directories
  <2> QED
    BY <2>1, <2>2, <2>3 DEF InArea
<1> QED
  BY <1>2, <1>3

\* Where there are not two areas, not two files count.
LEMMA OneFile ==
  ASSUME FilesOK, NEW p, Place(p), Cardinality(Directories(p)) # 1, Cardinality(OwnAreas(p)) < 2,
         NEW f \in Covered, NEW g \in Covered, IsPrefix(p, f), IsPrefix(p, g)
  PROVE  f = g
<1>1. PICK a \in OwnAreas(p) : InArea(f, a.path)
  BY OwnCovers
<1>2. PICK b \in OwnAreas(p) : InArea(g, b.path)
  BY OwnCovers
<1>3. \A x, y \in OwnAreas(p) : x = y
  BY OwnFinite, AtMostOne
<1>4. Directories(p) = {}
  <2> SUFFICES ASSUME NEW e \in Directories(p)
               PROVE  FALSE
    OBVIOUS
  <2>1. ASSUME NEW d \in Directories(p)
        PROVE  d = e
    <3>1. Area(p, d) \in OwnAreas(p) /\ Area(p, e) \in OwnAreas(p)
      BY OwnIs DEF Chosen
    <3>2. Area(p, d).path = d /\ Area(p, e).path = e
      BY OwnIs
    <3> QED
      BY <1>3, <3>1, <3>2
  <2>2. Directories(p) = {e}
    BY <2>1
  <2> QED
    BY <2>2, FS_Singleton
<1>5. a.path \in Under(p) /\ b.path \in Under(p)
  BY <1>4, OwnIs, OwnFiles DEF Chosen
<1>6. ~IsDirectory(a.path) /\ ~IsDirectory(b.path)
  BY <1>5, UnderIs, FilenameIs
<1> QED
  BY <1>1, <1>2, <1>3, <1>6 DEF InArea

-----------------------------------------------------------------------------
(* Picking the areas *)

PickingOK ==
  /\ picking \in {"idle", "under", "choose", "keep"}
  /\ limit \in Limits \cup {0}
  /\ Place(prefix)
  /\ area \in candidates \cup {Whole}

CandidatesOK ==
  /\ IsFiniteSet(candidates)
  /\ \A a \in candidates : Node(a)
  /\ \A a, b \in candidates : a # b => Apart(a, b)

Covers == \A f \in Covered : \E a \in candidates : InArea(f, a.path)

\* What is looked for below area is below prefix too.
LookingOK ==
  picking = "under" =>
    /\ IF area = Whole THEN candidates = {} ELSE area \in candidates /\ IsDirectory(area.path) /\ Covers
    /\ IsPrefix(area.path, prefix)
    /\ \A f \in Covered : IsPrefix(area.path, f) => IsPrefix(prefix, f)

TriedOK ==
  /\ tried \subseteq candidates
  /\ \A a \in tried : \A f, g \in Covered : IsPrefix(a.path, f) /\ IsPrefix(a.path, g) => f = g

KeptOK ==
  /\ areas \in Seq(candidates) /\ Len(areas) <= limit
  /\ \A i, j \in DOMAIN areas : areas[i] = areas[j] => i = j
  /\ picking \in {"under", "choose"} => areas = <<>>

SettledOK == picking = "keep" => Cardinality(candidates) >= limit \/ Untried = {}

AreasOK ==
  /\ FilesOK /\ PickingOK /\ CandidatesOK /\ LookingOK /\ TriedOK /\ KeptOK /\ SettledOK
  /\ picking \in {"choose", "keep"} => Covers

\* Before the areas are listed.
Fresh ==
  /\ picking = "idle" /\ index = {} /\ candidates = {} /\ area = Whole /\ prefix = Root /\ tried = {}
  /\ areas = <<>>

\* The whole repository and its root.
LEMMA WholeIs == Whole.path = Root /\ ~IsDirectory(Whole.path) /\ Whole.path \in Path
BY RootIsPrefix DEF Whole, IsDirectory, Path, Root

\* The root is a place.
LEMMA RootIsPlace == Place(Root)
BY DEF Place, Path, Root

\* The limit is a number.
LEMMA LimitIsNat == ASSUME PickingOK PROVE limit \in Nat
BY AreasAssumption DEF PickingOK

\* What is said of the index stays true while it does.
LEMMA SameFiles ==
  ASSUME index' = index
  PROVE  /\ Covered' = Covered /\ (FilesOK => FilesOK')
         /\ \A a : Node(a) => Node(a)'
<1>1. Files' = Files
  BY DEF Files
<1>2. Covered' = Covered
  BY <1>1 DEF Covered, BesideDirectory, Under
<1> QED
  BY <1>1, <1>2 DEF FilesOK, Node

\* Before and at the start of picking.
LEMMA FreshAreas ==
  ASSUME Fresh, limit \in Limits \cup {0}
  PROVE  AreasOK
<1>1. FilesOK
  BY FS_EmptySet DEF Fresh, FilesOK, Files, FilesOf
<1>2. CandidatesOK /\ TriedOK /\ LookingOK /\ SettledOK /\ (picking \in {"choose", "keep"} => Covers)
  BY FS_EmptySet DEF Fresh, CandidatesOK, TriedOK, LookingOK, SettledOK
<1>3. PickingOK
  BY RootIsPlace DEF Fresh, PickingOK
<1>4. KeptOK
  BY <1>3, LimitIsNat DEF Fresh, KeptOK
<1> QED
  BY <1>1, <1>2, <1>3, <1>4 DEF AreasOK

\* Picking starts with the whole repository.
LEMMA StartsPicking ==
  ASSUME Fresh, NEW rows, StartPicking(rows), IsFiniteSet(rows), FilesOf(rows) \subseteq Filenames
  PROVE  AreasOK'
<1>1. /\ index' = rows /\ picking' = "under" /\ limit' \in Limits /\ candidates' = {}
      /\ area' = Whole /\ prefix' = Root /\ tried' = {} /\ areas' = <<>>
  BY DEF Fresh, StartPicking
<1>2. FilesOK'
  BY <1>1 DEF FilesOK, Files
<1>3. CandidatesOK' /\ TriedOK' /\ SettledOK' /\ (picking' \in {"choose", "keep"} => Covers')
  BY <1>1, FS_EmptySet DEF CandidatesOK, TriedOK, SettledOK
<1>4. PickingOK'
  BY <1>1, RootIsPlace DEF PickingOK
<1>5. KeptOK'
  BY <1>1, AreasAssumption DEF KeptOK
<1>6. LookingOK'
  BY <1>1, WholeIs, PrefixReflexive DEF LookingOK
<1> QED
  BY <1>2, <1>3, <1>4, <1>5, <1>6 DEF AreasOK

\* Stepping into the only directory loses no file that counts.
LEMMA StepsInto ==
  ASSUME AreasOK, StepInto
  PROVE  AreasOK'
<1>1. /\ picking = "under" /\ Cardinality(Directories(prefix)) = 1 /\ prefix' \in Directories(prefix)
      /\ UNCHANGED <<picking, index, limit, candidates, area, tried, areas>>
  BY DEF StepInto
<1>2. Place(prefix) /\ FilesOK
  BY DEF AreasOK, PickingOK
<1>3. Covered' = Covered /\ FilesOK' /\ \A a : Node(a) => Node(a)'
  BY <1>1, <1>2, SameFiles
<1>4. PICK d : d = prefix' /\ d \in Directories(prefix)
  BY <1>1
<1>5. Place(d) /\ IsPrefix(prefix, d)
  BY <1>2, <1>4, DirectoriesAre
<1>6. PickingOK'
  BY <1>1, <1>4, <1>5 DEF AreasOK, PickingOK
<1>7. Covers <=> Covers'
  BY <1>1, <1>3 DEF Covers
<1>8. CandidatesOK' /\ TriedOK' /\ KeptOK' /\ SettledOK'
  BY <1>1, <1>3 DEF AreasOK, CandidatesOK, TriedOK, KeptOK, SettledOK, Untried
<1>9. IsPrefix(area.path, d)
  <2>1. area.path \in Path /\ IsPrefix(area.path, prefix)
    BY <1>1, WholeIs DEF AreasOK, PickingOK, LookingOK, CandidatesOK, Node
  <2> QED
    BY <1>2, <1>5, <2>1, PrefixTransitive DEF Place
<1>10. ASSUME NEW f \in Covered, IsPrefix(area.path, f)
       PROVE  IsPrefix(d, f)
  <2>1. IsPrefix(prefix, f)
    BY <1>1, <1>10 DEF AreasOK, LookingOK
  <2>2. Entry(prefix, f) \in Directories(prefix) /\ IsPrefix(Entry(prefix, f), f)
    BY <1>2, <1>4, <2>1, CoveredEntry
  <2>3. IsFiniteSet(Directories(prefix))
    <3>1. Directories(prefix) # {}
      BY <1>4
    <3>2. OwnAreas(prefix) = {Area(prefix, e) : e \in Directories(prefix)}
      BY <3>1 DEF OwnAreas
    <3>3. [a \in OwnAreas(prefix) |-> a.path] \in Surjection(OwnAreas(prefix), Directories(prefix))
      BY <1>2, <3>2, OwnIs DEF Surjection
    <3> QED
      BY <1>2, <3>3, OwnFinite, FS_Surjection
  <2>4. Entry(prefix, f) = d
    BY <1>1, <1>4, <2>2, <2>3, AtMostOne
  <2> QED
    BY <2>2, <2>4
<1>11. LookingOK'
  BY <1>1, <1>3, <1>4, <1>7, <1>9, <1>10 DEF AreasOK, LookingOK
<1> QED
  BY <1>1, <1>3, <1>6, <1>7, <1>8, <1>11 DEF AreasOK

\* The root's areas are the first candidates.
LEMMA PicksRoot ==
  ASSUME AreasOK, RootAreas
  PROVE  AreasOK'
<1>1. /\ picking = "under" /\ area = Whole /\ candidates' = OwnAreas(prefix) /\ picking' = "choose"
      /\ UNCHANGED <<index, limit, area, prefix, tried, areas>>
  BY DEF RootAreas, Arrived
<1>2. Place(prefix) /\ FilesOK
  BY DEF AreasOK, PickingOK
<1>3. Covered' = Covered /\ FilesOK' /\ \A a : Node(a) => Node(a)'
  BY <1>1, <1>2, SameFiles
<1>4. CandidatesOK'
  BY <1>1, <1>2, <1>3, OwnFinite, OwnNodes, OwnApart DEF CandidatesOK
<1>5. Covers'
  <2> SUFFICES ASSUME NEW f \in Covered
               PROVE  \E a \in OwnAreas(prefix) : InArea(f, a.path)
    BY <1>1, <1>3 DEF Covers
  <2>1. IsPrefix(Root, f)
    BY <1>2, CoveredIs, RootIsPrefix
  <2>2. IsPrefix(prefix, f)
    BY <1>1, <2>1, WholeIs DEF AreasOK, LookingOK
  <2> QED
    BY <1>2, <2>2, OwnCovers
<1>6. candidates = {} /\ tried = {} /\ areas = <<>>
  BY <1>1 DEF AreasOK, LookingOK, TriedOK, KeptOK
<1>7. PickingOK' /\ LookingOK' /\ TriedOK' /\ SettledOK'
  BY <1>1, <1>6 DEF AreasOK, PickingOK, LookingOK, TriedOK, SettledOK
<1>8. KeptOK'
  BY <1>1, <1>6, LimitIsNat DEF AreasOK, KeptOK
<1> QED
  BY <1>1, <1>3, <1>4, <1>5, <1>7, <1>8 DEF AreasOK

\* An area is replaced by what it is made of.
LEMMA Splits ==
  ASSUME AreasOK, SplitArea
  PROVE  AreasOK'
<1>1. /\ picking = "under" /\ area # Whole /\ candidates' = (candidates \ {area}) \cup OwnAreas(prefix)
      /\ tried' = {} /\ picking' = "choose" /\ area' = Whole
      /\ UNCHANGED <<index, limit, prefix, areas>>
  BY DEF SplitArea, Arrived, Without
<1>2. Place(prefix) /\ FilesOK
  BY DEF AreasOK, PickingOK
<1>3. Covered' = Covered /\ FilesOK' /\ \A a : Node(a) => Node(a)'
  BY <1>1, <1>2, SameFiles
<1>4. /\ area \in candidates /\ IsDirectory(area.path) /\ Covers /\ IsPrefix(area.path, prefix)
      /\ \A f \in Covered : IsPrefix(area.path, f) => IsPrefix(prefix, f)
  BY <1>1 DEF AreasOK, LookingOK
<1>5. area.path \in Path /\ \A a \in candidates : Node(a) /\ a.path \in Path
  BY <1>4 DEF AreasOK, CandidatesOK, Node
<1>6. ASSUME NEW a \in OwnAreas(prefix)
      PROVE  Node(a) /\ a.path \in Path /\ IsPrefix(area.path, a.path)
  <2>1. Node(a) /\ IsPrefix(prefix, a.path)
    BY <1>2, OwnNodes
  <2>2. a.path \in Path
    BY <2>1 DEF Node
  <2> QED
    BY <1>2, <1>4, <1>5, <2>1, <2>2, PrefixTransitive DEF Place
<1>7. ASSUME NEW a \in OwnAreas(prefix), NEW b \in candidates \ {area}
      PROVE  Apart(a, b) /\ Apart(b, a)
  <2>1. ~IsPrefix(area.path, b.path) /\ ~IsPrefix(b.path, area.path)
    BY <1>4 DEF AreasOK, CandidatesOK, Apart
  <2>2. ~IsPrefix(a.path, b.path)
    BY <1>5, <1>6, <2>1, PrefixTransitive
  <2>3. ~IsPrefix(b.path, a.path)
    BY <1>5, <1>6, <2>1, PrefixesCompare
  <2>4. a.path # b.path
    BY <1>6, <2>2, PrefixReflexive
  <2> QED
    BY <2>2, <2>3, <2>4 DEF Apart
<1>8. CandidatesOK'
  <2>1. IsFiniteSet(candidates')
    <3>1. IsFiniteSet(candidates \ {area})
      BY FS_RemoveElement DEF AreasOK, CandidatesOK
    <3> QED
      BY <1>1, <1>2, <3>1, OwnFinite, FS_Union
  <2>2. \A a \in candidates' : Node(a)'
    BY <1>1, <1>3, <1>5, <1>6
  <2>3. \A a, b \in candidates' : a # b => Apart(a, b)
    <3> SUFFICES ASSUME NEW a \in candidates', NEW b \in candidates', a # b
                 PROVE  Apart(a, b)
      OBVIOUS
    <3>1. CASE a \in OwnAreas(prefix) /\ b \in OwnAreas(prefix)
      BY <1>2, <3>1, OwnApart
    <3>2. CASE a \in candidates \ {area} /\ b \in candidates \ {area}
      BY <3>2 DEF AreasOK, CandidatesOK
    <3> QED
      BY <1>1, <1>7, <3>1, <3>2
  <2> QED
    BY <2>1, <2>2, <2>3 DEF CandidatesOK
<1>9. Covers'
  <2> SUFFICES ASSUME NEW f \in Covered
               PROVE  \E a \in candidates' : InArea(f, a.path)
    BY <1>1, <1>3 DEF Covers
  <2>1. PICK a \in candidates : InArea(f, a.path)
    BY <1>4 DEF Covers
  <2>2. CASE a = area
    <3>1. IsPrefix(prefix, f)
      BY <1>4, <2>1, <2>2 DEF InArea
    <3> QED
      BY <1>1, <1>2, <3>1, OwnCovers
  <2>3. CASE a # area
    BY <1>1, <2>1, <2>3
  <2> QED
    BY <2>2, <2>3
<1>10. PickingOK' /\ LookingOK' /\ TriedOK' /\ SettledOK'
  BY <1>1 DEF AreasOK, PickingOK, LookingOK, TriedOK, SettledOK
<1>11. KeptOK'
  <2>1. areas = <<>>
    BY <1>1 DEF AreasOK, KeptOK
  <2> QED
    BY <1>1, <2>1, LimitIsNat DEF AreasOK, KeptOK
<1> QED
  BY <1>1, <1>3, <1>8, <1>9, <1>10, <1>11 DEF AreasOK

\* An area with fewer than two of its own has one file that counts.
LEMMA DoesNot ==
  ASSUME AreasOK, DoesNotSplit
  PROVE  AreasOK'
<1>1. /\ picking = "under" /\ area # Whole /\ Cardinality(Directories(prefix)) # 1
      /\ Cardinality(OwnAreas(prefix)) < 2 /\ tried' = tried \cup {area} /\ picking' = "choose"
      /\ UNCHANGED <<index, limit, candidates, area, prefix, areas>>
  BY DEF DoesNotSplit, Arrived
<1>2. Place(prefix) /\ FilesOK
  BY DEF AreasOK, PickingOK
<1>3. Covered' = Covered /\ FilesOK' /\ \A a : Node(a) => Node(a)'
  BY <1>1, <1>2, SameFiles
<1>4. /\ area \in candidates /\ Covers
      /\ \A f \in Covered : IsPrefix(area.path, f) => IsPrefix(prefix, f)
  BY <1>1 DEF AreasOK, LookingOK
<1>5. ASSUME NEW f \in Covered, NEW g \in Covered, IsPrefix(area.path, f), IsPrefix(area.path, g)
      PROVE  f = g
  BY <1>1, <1>2, <1>4, <1>5, OneFile
<1>6. TriedOK'
  BY <1>1, <1>3, <1>4, <1>5 DEF AreasOK, TriedOK
<1>7. CandidatesOK' /\ PickingOK' /\ LookingOK' /\ SettledOK' /\ KeptOK' /\ Covers'
  BY <1>1, <1>3, <1>4 DEF AreasOK, CandidatesOK, PickingOK, LookingOK, SettledOK, KeptOK, Covers
<1> QED
  BY <1>3, <1>6, <1>7 DEF AreasOK

\* The largest is tried next.
LEMMA Tries ==
  ASSUME AreasOK, TryLargest
  PROVE  AreasOK'
<1>1. PICK a \in Untried : area' = a /\ prefix' = a.path
  BY DEF TryLargest, Largest
<1>2. /\ picking = "choose" /\ picking' = "under"
      /\ UNCHANGED <<index, limit, candidates, tried, areas>>
  BY DEF TryLargest
<1>3. Covered' = Covered /\ FilesOK' /\ \A b : Node(b) => Node(b)'
  BY <1>2, SameFiles DEF AreasOK
<1>4. a \in candidates /\ IsDirectory(a.path) /\ a.path \in Path /\ a # Whole
  BY <1>1, WholeIs DEF Untried, AreasOK, CandidatesOK, Node
<1>5. PickingOK'
  BY <1>1, <1>2, <1>4 DEF AreasOK, PickingOK, Place
<1>6. LookingOK'
  <2>1. IsPrefix(a.path, a.path)
    BY <1>4, PrefixReflexive
  <2>2. Covers'
    BY <1>2, <1>3 DEF AreasOK, Covers
  <2> QED
    BY <1>1, <1>2, <1>4, <2>1, <2>2 DEF LookingOK
<1>7. CandidatesOK' /\ TriedOK' /\ KeptOK' /\ SettledOK'
  BY <1>2, <1>3 DEF AreasOK, CandidatesOK, TriedOK, KeptOK, SettledOK
<1> QED
  BY <1>2, <1>3, <1>5, <1>6, <1>7 DEF AreasOK

\* Enough of them, or none left to try.
LEMMA Settles ==
  ASSUME AreasOK, Settled
  PROVE  AreasOK'
<1>1. /\ picking = "choose" /\ (Cardinality(candidates) >= limit \/ Untried = {}) /\ picking' = "keep"
      /\ UNCHANGED <<index, limit, candidates, area, prefix, tried, areas>>
  BY DEF Settled
<1>2. Covered' = Covered /\ FilesOK' /\ \A b : Node(b) => Node(b)'
  BY <1>1, SameFiles DEF AreasOK
<1>3. SettledOK' /\ Covers'
  BY <1>1, <1>2 DEF AreasOK, SettledOK, Covers, Untried
<1>4. PickingOK' /\ CandidatesOK' /\ LookingOK' /\ TriedOK' /\ KeptOK'
  BY <1>1, <1>2 DEF AreasOK, PickingOK, CandidatesOK, LookingOK, TriedOK, KeptOK
<1> QED
  BY <1>2, <1>3, <1>4 DEF AreasOK

\* The largest are kept, each once.
LEMMA Keeps ==
  ASSUME AreasOK, KeepLargest
  PROVE  AreasOK'
<1>1. /\ picking = "keep" /\ Len(areas) < Kept
      /\ UNCHANGED <<picking, index, limit, candidates, area, prefix, tried>>
  BY DEF KeepLargest
<1>2. PICK a \in candidates \ {areas[i] : i \in DOMAIN areas} : areas' = Append(areas, a)
  BY DEF KeepLargest, Largest
<1>3. Covered' = Covered /\ FilesOK' /\ \A b : Node(b) => Node(b)'
  BY <1>1, SameFiles DEF AreasOK
<1>4. areas \in Seq(candidates) /\ Len(areas) \in Nat /\ DOMAIN areas = 1..Len(areas)
  BY DEF AreasOK, KeptOK
<1>5. limit \in Nat /\ Cardinality(candidates) \in Nat
  BY LimitIsNat, FS_CardinalityType DEF AreasOK, CandidatesOK
<1>6. Len(areas) + 1 <= limit
  <2>1. Kept = IF limit <= Cardinality(candidates) THEN limit ELSE Cardinality(candidates)
    BY <1>5, MinOfTwo DEF Kept
  <2> QED
    BY <1>1, <1>4, <1>5, <2>1
<1>7. KeptOK'
  <2>1. /\ areas' \in Seq(candidates) /\ Len(areas') = Len(areas) + 1 /\ DOMAIN areas' = 1..(Len(areas) + 1)
        /\ areas'[Len(areas) + 1] = a /\ \A i \in 1..Len(areas) : areas'[i] = areas[i]
    BY <1>2, <1>4
  <2>2. \A i, j \in DOMAIN areas' : areas'[i] = areas'[j] => i = j
    <3> SUFFICES ASSUME NEW i \in 1..(Len(areas) + 1), NEW j \in 1..(Len(areas) + 1), areas'[i] = areas'[j]
                 PROVE  i = j
      BY <2>1
    <3>1. \A k \in 1..Len(areas) : areas[k] # a
      BY <1>2, <1>4
    <3>2. \A k, l \in 1..Len(areas) : areas[k] = areas[l] => k = l
      BY <1>4 DEF AreasOK, KeptOK
    <3> QED
      BY <1>4, <2>1, <3>1, <3>2
  <2> QED
    BY <1>1, <1>6, <2>1, <2>2 DEF KeptOK
<1>8. PickingOK' /\ CandidatesOK' /\ LookingOK' /\ TriedOK' /\ SettledOK' /\ Covers'
  BY <1>1, <1>3 DEF AreasOK, PickingOK, CandidatesOK, LookingOK, TriedOK, SettledOK, Covers, Untried
<1> QED
  BY <1>3, <1>7, <1>8 DEF AreasOK

\* A turn of a loop keeps the invariant.
LEMMA AreasPicked ==
  ASSUME AreasOK, PickAreas
  PROVE  AreasOK'
BY StepsInto, PicksRoot, Splits, DoesNot, Tries, Settles, Keeps DEF PickAreas

\* The type invariant follows.
LEMMA AreasTyped == AreasOK => AreasTypeOK
<1> SUFFICES ASSUME AreasOK
             PROVE  AreasTypeOK
  OBVIOUS
<1>1. \A a \in candidates : a.count \in Nat /\ Under(a.path) # {}
  <2> SUFFICES ASSUME NEW a \in candidates
               PROVE  a.count \in Nat /\ Under(a.path) # {}
    OBVIOUS
  <2>1. Node(a)
    BY DEF AreasOK, CandidatesOK
  <2>2. CASE IsDirectory(a.path)
    <3>1. PICK f \in Covered : IsPrefix(a.path, f)
      BY <2>1, <2>2 DEF Node
    <3>2. f \in Under(a.path)
      BY <3>1, CoveredIs DEF AreasOK, Under
    <3> QED
      BY <2>1, <3>2 DEF Node
  <2>3. CASE ~IsDirectory(a.path)
    <3>1. a.path \in Files /\ a.path \in Path
      BY <2>1, <2>3, CoveredIs DEF AreasOK, Node
    <3>2. a.path \in Under(a.path)
      BY <3>1, PrefixReflexive DEF Under
    <3> QED
      BY <2>1, <3>2 DEF Node
  <2> QED
    BY <2>2, <2>3
<1>2. \A i \in DOMAIN areas : areas[i] \in candidates
  BY DEF AreasOK, KeptOK
<1> QED
  BY <1>1, <1>2 DEF AreasTypeOK, AreasOK, PickingOK, TriedOK, KeptOK, Place

\* A file is in one area at most.
LEMMA InOneArea ==
  ASSUME AreasOK, NEW f \in Covered, NEW a \in candidates, NEW b \in candidates,
         InArea(f, a.path), InArea(f, b.path)
  PROVE  a = b
<1> SUFFICES ASSUME a # b
             PROVE  FALSE
  OBVIOUS
<1>1. Apart(a, b) /\ a.path \in Path /\ b.path \in Path /\ f \in Path
  BY CoveredIs DEF AreasOK, CandidatesOK, Node
<1>2. IsPrefix(a.path, f) /\ IsPrefix(b.path, f)
  BY <1>1, PrefixReflexive DEF InArea
<1>3. ~IsDirectory(a.path) /\ ~IsDirectory(b.path)
  BY <1>1, <1>2, PrefixesCompare DEF Apart
<1> QED
  BY <1>1, <1>3 DEF Apart, InArea

\* Every candidate has a file that counts.
LEMMA SomethingInArea ==
  ASSUME AreasOK, NEW a \in candidates
  PROVE  \E f \in Covered : InArea(f, a.path)
BY DEF AreasOK, CandidatesOK, Node, InArea

\* No more areas than files that count.
LEMMA AreasAreFew == ASSUME AreasOK PROVE IsFiniteSet(Covered) /\ Cardinality(candidates) <= Cardinality(Covered)
<1> DEFINE file == [a \in candidates |-> CHOOSE f \in Covered : InArea(f, a.path)]
<1>1. IsFiniteSet(Covered)
  BY FilesFinite, FS_Subset DEF AreasOK, Covered
<1>2. \A a \in candidates : file[a] \in Covered /\ InArea(file[a], a.path)
  BY SomethingInArea
<1>3. \A a, b \in candidates : file[a] = file[b] => a = b
  <2> SUFFICES ASSUME NEW a \in candidates, NEW b \in candidates, file[a] = file[b]
               PROVE  a = b
    OBVIOUS
  <2>1. PICK f \in Covered : f = file[a] /\ f = file[b]
    BY <1>2
  <2>2. InArea(f, a.path) /\ InArea(f, b.path)
    BY <1>2, <2>1
  <2> QED
    BY <2>2, InOneArea
<1>4. file \in Injection(candidates, Covered)
  BY <1>2, <1>3 DEF Injection, IsInjective
<1> QED
  BY <1>1, <1>4, FS_Injection

\* Where nothing is left to split, as many.
LEMMA AreasAreAll ==
  ASSUME AreasOK, picking = "keep", Untried = {}
  PROVE  Cardinality(Covered) <= Cardinality(candidates)
<1> DEFINE home == [f \in Covered |-> CHOOSE a \in candidates : InArea(f, a.path)]
<1>1. \A f \in Covered : home[f] \in candidates /\ InArea(f, home[f].path)
  BY DEF AreasOK, Covers
<1>2. \A f, g \in Covered : home[f] = home[g] => f = g
  <2> SUFFICES ASSUME NEW f \in Covered, NEW g \in Covered, home[f] = home[g]
               PROVE  f = g
    OBVIOUS
  <2>1. PICK a \in candidates : a = home[f] /\ a = home[g]
    BY <1>1
  <2>2. InArea(f, a.path) /\ InArea(g, a.path)
    BY <1>1, <2>1
  <2>3. CASE IsDirectory(a.path)
    <3>1. a \in tried
      BY <2>3 DEF Untried
    <3> QED
      BY <2>2, <2>3, <3>1 DEF AreasOK, TriedOK, InArea
  <2> QED
    BY <2>2, <2>3 DEF InArea
<1>3. home \in Injection(Covered, candidates)
  BY <1>1, <1>2 DEF Injection, IsInjective
<1> QED
  BY <1>3, FS_Injection DEF AreasOK, CandidatesOK

\* There are as many areas as were asked for, or as files that count.
LEMMA AreasFill == AreasOK => FillsTheLimit
<1> SUFFICES ASSUME AreasOK, Picked
             PROVE  Len(areas) = Min({limit, Cardinality(Covered)})
  BY DEF FillsTheLimit
<1>1. picking = "keep" /\ Len(areas) = Kept
  BY DEF Picked
<1>2. limit \in Nat /\ Cardinality(candidates) \in Nat /\ Cardinality(Covered) \in Nat
  BY LimitIsNat, AreasAreFew, FS_CardinalityType DEF AreasOK, CandidatesOK
<1>3. Cardinality(candidates) <= Cardinality(Covered)
  BY AreasAreFew
<1>4. Cardinality(candidates) >= limit \/ Cardinality(candidates) = Cardinality(Covered)
  BY <1>1, <1>2, <1>3, AreasAreAll DEF AreasOK, SettledOK
<1>5. Len(areas) = IF limit <= Cardinality(candidates) THEN limit ELSE Cardinality(candidates)
  BY <1>1, <1>2, MinOfTwo DEF Kept
<1>6. Min({limit, Cardinality(Covered)}) = IF limit <= Cardinality(Covered) THEN limit ELSE Cardinality(Covered)
  BY <1>2, MinOfTwo
<1> QED
  BY <1>2, <1>3, <1>4, <1>5, <1>6

\* A set without two different members.
LEMMA SmallSet ==
  ASSUME NEW S, IsFiniteSet(S), \A x, y \in S : x = y
  PROVE  Cardinality(S) <= 1
<1>1. CASE S = {}
  BY <1>1, FS_EmptySet
<1>2. CASE S # {}
  <2>1. PICK x \in S : TRUE
    BY <1>2
  <2>2. S = {x}
    BY <2>1
  <2> QED
    BY <2>2, FS_Singleton
<1> QED
  BY <1>1, <1>2

\* Areas do not overlap and, below the limit, leave no file out.
LEMMA AreasCover == AreasOK => CoversTheCode
<1> SUFFICES ASSUME AreasOK, Picked, NEW f \in Covered
             PROVE  LET in == {i \in DOMAIN areas : InArea(f, areas[i].path)}
                    IN  Cardinality(in) <= 1 /\ (Len(areas) < limit => in # {})
  BY DEF CoversTheCode
<1> DEFINE in == {i \in DOMAIN areas : InArea(f, areas[i].path)}
<1>1. /\ picking = "keep" /\ Len(areas) = Kept /\ Covers
      /\ areas \in Seq(candidates) /\ DOMAIN areas = 1..Len(areas) /\ Len(areas) \in Nat
      /\ \A i, j \in DOMAIN areas : areas[i] = areas[j] => i = j
  BY DEF AreasOK, KeptOK, Picked
<1>2. limit \in Nat /\ IsFiniteSet(candidates) /\ Cardinality(candidates) \in Nat
  BY LimitIsNat, FS_CardinalityType DEF AreasOK, CandidatesOK
<1>3. Cardinality(in) <= 1
  <2>1. IsFiniteSet(1..Len(areas))
    BY <1>1, FS_Interval
  <2>2. IsFiniteSet(in)
    BY <1>1, <2>1, FS_Subset
  <2>3. ASSUME NEW i \in in, NEW j \in in
        PROVE  i = j
    <3>1. areas[i] \in candidates /\ areas[j] \in candidates
      BY <1>1
    <3>2. areas[i] = areas[j]
      BY <3>1, InOneArea
    <3> QED
      BY <1>1, <3>2
  <2> QED
    BY <2>2, <2>3, SmallSet
<1>4. ASSUME Len(areas) < limit
      PROVE  in # {}
  <2>1. Len(areas) = Cardinality(candidates)
    <3>1. Kept = IF limit <= Cardinality(candidates) THEN limit ELSE Cardinality(candidates)
      BY <1>2, MinOfTwo DEF Kept
    <3> QED
      BY <1>1, <1>2, <1>4, <3>1
  <2>2. areas \in Injection(1..Len(areas), candidates)
    BY <1>1 DEF Injection, IsInjective
  <2>3. Cardinality(1..Len(areas)) = Cardinality(candidates)
    <3>1. \A a, b \in Int : Cardinality(a..b) = IF a > b THEN 0 ELSE b - a + 1
      BY FS_Interval
    <3> QED
      BY <1>1, <2>1, <3>1
  <2>4. areas \in Surjection(1..Len(areas), candidates)
    BY <1>2, <2>2, <2>3, FS_Injection
  <2>5. PICK a \in candidates : InArea(f, a.path)
    BY <1>1 DEF Covers
  <2>6. PICK i \in 1..Len(areas) : areas[i] = a
    BY <2>4 DEF Surjection
  <2> QED
    BY <1>1, <2>5, <2>6
<1> QED
  BY <1>3, <1>4

-----------------------------------------------------------------------------
(* What a clone comes to *)

CloneOK ==
  /\ IsFiniteSet(DOMAIN clone)
  /\ \A f \in DOMAIN clone : f \in Filenames /\ \A texts \in {clone[f].counted, clone[f].read} :
       Len(texts) \in Nat /\ DOMAIN texts = 1..Len(texts)

\* Whatever was cloned last is finite.
LEMMA CloneIs == ASSUME clone \in Clones \cup LaterClones \cup {Nothing} PROVE CloneOK
<1>1. CASE clone = Nothing
  <2>1. DOMAIN clone = {}
    BY <1>1 DEF Nothing
  <2> QED
    BY <2>1, FS_EmptySet DEF CloneOK
<1> QED
  BY <1>1, IndexingAssumption DEF CloneOK

\* A file that is walked is read as finitely many texts.
LEMMA SplitIs ==
  ASSUME CloneOK, NEW f \in Walked
  PROVE  f \in Filenames /\ \E n \in Nat : DOMAIN Read(f) = 1..n
<1> DEFINE texts == clone[f].read
<1>1. f \in Filenames /\ Len(texts) \in Nat /\ DOMAIN texts = 1..Len(texts)
  BY DEF CloneOK, Walked
<1>4. Read(f) = Split(texts)
  BY DEF Read
<1> HIDE DEF texts
<1>2. CASE Len(texts) > MaxFile
  <2>1. Split(texts) = <<>>
    BY <1>2 DEF Split
  <2>2. DOMAIN Split(texts) = 1..0
    BY <2>1
  <2> QED
    BY <1>1, <1>4, <2>2
<1>3. CASE ~(Len(texts) > MaxFile)
  BY <1>1, <1>3, <1>4 DEF Split
<1> QED
  BY <1>2, <1>3

\* The chunks of a file are its own.
LEMMA DeclaredIs ==
  ASSUME CloneOK, NEW f
  PROVE  IsFiniteSet(Declared(f)) /\ \A id \in Declared(f) : File(id) = f /\ f \in Walked /\ f \in Filenames
<1>1. CASE f \in Walked
  <2> DEFINE texts == Read(f)
             chunk == [i \in DOMAIN texts |-> <<f, texts[i], Occurrence(texts, i)>>]
  <2>1. Declared(f) = {<<f, texts[i], Occurrence(texts, i)>> : i \in DOMAIN texts}
    BY <1>1 DEF Declared
  <2>2. IsFiniteSet(DOMAIN texts)
    <3>1. PICK n \in Nat : DOMAIN texts = 1..n
      BY <1>1, SplitIs
    <3> QED
      BY <3>1, FS_Interval
  <2>3. chunk \in Surjection(DOMAIN texts, Declared(f))
    BY <2>1 DEF Surjection
  <2>4. \A id \in Declared(f) : File(id) = f
    BY <2>1 DEF File
  <2> QED
    BY <1>1, <2>2, <2>3, <2>4, FS_Surjection, SplitIs
<1>2. CASE f \notin Walked
  <2>1. Declared(f) = {}
    BY <1>2 DEF Declared
  <2> QED
    BY <2>1, FS_EmptySet
<1> QED
  BY <1>1, <1>2

\* A chunk of the source is declared for its file.
LEMMA InSource ==
  ASSUME CloneOK, NEW id
  PROVE  id \in Source <=> id \in Declared(File(id))
BY DeclaredIs DEF Source

\* Chunks of a file that are alike are told apart.
LEMMA OccurrencesDiffer ==
  ASSUME NEW texts, NEW n \in Nat, NEW i \in 1..n, NEW j \in 1..n, i # j, texts[i] = texts[j]
  PROVE  Occurrence(texts, i) # Occurrence(texts, j)
<1> DEFINE Alike(k) == {l \in 1..k : texts[l] = texts[k]}
<1>1. ASSUME NEW k \in 1..n, NEW l \in 1..n, k < l, texts[k] = texts[l]
      PROVE  Cardinality(Alike(k)) # Cardinality(Alike(l))
  <2>1. k \in Nat /\ l \in Nat /\ IsFiniteSet(1..l)
    BY FS_Interval
  <2>2. IsFiniteSet(Alike(l))
    BY <2>1, FS_Subset
  <2>3. Alike(k) \in SUBSET Alike(l)
    BY <1>1, <2>1
  <2>4. l \in Alike(l) /\ l \notin Alike(k)
    BY <1>1, <2>1
  <2> HIDE DEF Alike
  <2> QED
    BY <2>2, <2>3, <2>4, FS_Subset
<1>2. i \in Nat /\ j \in Nat /\ (i < j \/ j < i)
  OBVIOUS
<1>3. Cardinality(Alike(i)) # Cardinality(Alike(j))
  BY <1>1, <1>2
<1> QED
  BY <1>3 DEF Occurrence

\* The source has an id for every chunk, those that are alike included.
LEMMA SourceIsRead == ASSUME CloneOK PROVE IsFiniteSet(Source) /\ Cardinality(Source) = ReadChunks
<1> DEFINE Texts(f) == Read(f)
           Places(f) == {f} \X DOMAIN Texts(f)
           All == UNION {Places(f) : f \in Walked}
           places == [f \in Walked |-> Places(f)]
           chunk == [p \in All |-> <<p[1], Texts(p[1])[p[2]], Occurrence(Texts(p[1]), p[2])>>]
<1>1. \A p \in All : p[1] \in Walked /\ p[2] \in DOMAIN Texts(p[1]) /\ p = <<p[1], p[2]>>
  OBVIOUS
<1>2. \A f \in Walked : \A i \in DOMAIN Texts(f) : <<f, i>> \in All
  OBVIOUS
<1>3. IsFiniteSet(All)
  <2>1. IsFiniteSet(Walked)
    BY FS_Subset DEF CloneOK, Walked
  <2>2. places \in Surjection(Walked, {Places(f) : f \in Walked})
    BY DEF Surjection
  <2>3. IsFiniteSet({Places(f) : f \in Walked})
    BY <2>1, <2>2, FS_Surjection
  <2>4. ASSUME NEW f \in Walked
        PROVE  IsFiniteSet(Places(f))
    <3>1. PICK n \in Nat : DOMAIN Texts(f) = 1..n
      BY SplitIs
    <3>2. IsFiniteSet(1..n)
      BY FS_Interval
    <3>4. IsFiniteSet({f})
      BY FS_Singleton
    <3>3. IsFiniteSet({f} \X (1..n))
      BY <3>2, <3>4, FS_Product
    <3> QED
      BY <3>1, <3>3
  <2>5. \A P \in {Places(f) : f \in Walked} : IsFiniteSet(P)
    BY <2>4
  <2> QED
    BY <2>3, <2>5, FS_UNION
<1>4. ASSUME NEW f \in Walked
      PROVE  Declared(f) = {<<f, Texts(f)[i], Occurrence(Texts(f), i)>> : i \in DOMAIN Texts(f)}
  BY DEF Declared
<1>5. \A p \in All : chunk[p] \in Source
  <2> SUFFICES ASSUME NEW p \in All
               PROVE  chunk[p] \in Source
    OBVIOUS
  <2>1. PICK f \in Walked : \E i \in DOMAIN Texts(f) : p = <<f, i>>
    BY <1>1
  <2> PICK i \in DOMAIN Texts(f) : p = <<f, i>>
    BY <2>1
  <2>2. chunk[p] = <<f, Texts(f)[i], Occurrence(Texts(f), i)>>
    OBVIOUS
  <2>3. <<f, Texts(f)[i], Occurrence(Texts(f), i)>> \in Declared(f)
    <3> HIDE DEF Texts
    <3> QED
      BY <1>4
  <2> QED
    BY <2>2, <2>3 DEF Source
<1>6. \A id \in Source : \E p \in All : chunk[p] = id
  <2> SUFFICES ASSUME NEW id \in Source
               PROVE  \E p \in All : chunk[p] = id
    OBVIOUS
  <2>1. PICK f \in Walked : id \in Declared(f)
    BY DEF Source
  <2>2. PICK i \in DOMAIN Texts(f) : id = <<f, Texts(f)[i], Occurrence(Texts(f), i)>>
    BY <1>4, <2>1
  <2>3. <<f, i>> \in All
    BY <1>2
  <2>4. chunk[<<f, i>>] = id
    BY <2>2, <2>3
  <2> QED
    BY <2>3, <2>4
<1>7. \A p, q \in All : chunk[p] = chunk[q] => p = q
  <2> SUFFICES ASSUME NEW p \in All, NEW q \in All, chunk[p] = chunk[q]
               PROVE  p = q
    OBVIOUS
  <2>8. PICK f \in Walked : \E i \in DOMAIN Texts(f) : p = <<f, i>>
    BY <1>1
  <2>9. PICK g \in Walked : \E j \in DOMAIN Texts(g) : q = <<g, j>>
    BY <1>1
  <2>1. PICK i \in DOMAIN Texts(f) : p = <<f, i>>
    BY <2>8
  <2>2. PICK j \in DOMAIN Texts(g) : q = <<g, j>>
    BY <2>9
  <2>3. <<f, Texts(f)[i], Occurrence(Texts(f), i)>> = <<g, Texts(g)[j], Occurrence(Texts(g), j)>>
    BY <2>1, <2>2
  <2>4. f = g /\ Texts(f)[i] = Texts(f)[j] /\ Occurrence(Texts(f), i) = Occurrence(Texts(f), j)
    BY <2>3
  <2>5. PICK n \in Nat : DOMAIN Texts(f) = 1..n
    BY SplitIs
  <2>6. i \in 1..n /\ j \in 1..n
    BY <2>1, <2>2, <2>4, <2>5
  <2>7. i = j
    <3> HIDE DEF Texts
    <3> QED
      BY <2>4, <2>6, OccurrencesDiffer
  <2> QED
    BY <2>1, <2>2, <2>4, <2>7
<1>8. DOMAIN chunk = All
  OBVIOUS
<1> HIDE DEF chunk
<1>9. chunk \in Surjection(All, Source) /\ chunk \in Injection(All, Source)
  <2>1. chunk \in [All -> Source]
    BY <1>5, <1>8 DEF chunk
  <2> QED
    BY <1>6, <1>7, <2>1 DEF Surjection, Injection, IsInjective
<1>10. IsFiniteSet(Source) /\ Cardinality(Source) = Cardinality(All)
  BY <1>3, <1>9, FS_Surjection
<1> QED
  BY <1>10 DEF ReadChunks

\* Files that are counted as they are read come to the chunks that were counted.
LEMMA AlikeIsCounted == ASSUME ReadAlike PROVE ReadChunks = CountedChunks
<1>1. \A f \in Walked : Counted(f) = Read(f)
  BY DEF ReadAlike, Counted, Read
<1>2. {{f} \X DOMAIN Read(f) : f \in Walked} = {{f} \X DOMAIN Counted(f) : f \in Walked}
  BY <1>1
<1> QED
  BY <1>2 DEF ReadChunks, CountedChunks

-----------------------------------------------------------------------------
(* The table *)

IsRow(row) == row = Row(row.repository, row.id)

\* An id is in the table under a repository if its row is.
LEMMA RowIs ==
  ASSUME NEW some, \A row \in some : IsRow(row), NEW repository, NEW id
  PROVE  id \in {row.id : row \in {r \in some : r.repository = repository}} <=> Row(repository, id) \in some
<1>1. ASSUME id \in {row.id : row \in {r \in some : r.repository = repository}}
      PROVE  Row(repository, id) \in some
  <2>1. PICK row \in some : row.repository = repository /\ row.id = id
    BY <1>1
  <2> QED
    BY <2>1 DEF IsRow
<1>2. ASSUME Row(repository, id) \in some
      PROVE  id \in {row.id : row \in {r \in some : r.repository = repository}}
  <2>1. Row(repository, id).repository = repository /\ Row(repository, id).id = id
    BY DEF Row
  <2> QED
    BY <1>2, <2>1
<1> QED
  BY <1>1, <1>2

\* Rows are told apart by their keys.
LEMMA UpsertedIs ==
  ASSUME NEW some, NEW into, \A row \in some \cup into : IsRow(row)
  PROVE  Upserted(some, into) = into \cup some
<1>1. ASSUME NEW row \in into, NEW new \in some, Key(new) = Key(row)
      PROVE  row = new
  <2>1. row.repository = new.repository /\ row.id = new.id
    BY <1>1 DEF Key
  <2> QED
    BY <2>1 DEF IsRow
<1> QED
  BY <1>1 DEF Upserted

TableOK ==
  /\ \A row \in table : IsRow(row) /\ row.repository \in {Ours, Others}
  /\ IdsOf(Others) = Neighbour
  /\ IsFiniteSet(Rows) /\ FilesOf(Rows) \subseteq Filenames

\* Half way through a pass the files that it has come to are as they should be.
PassOK ==
  /\ toDo \subseteq DOMAIN clone \cup FilesOf(Rows)
  /\ stage # "indexing" => toDo = {}
  /\ stage = "indexing" => \A id \in Rows \cup Source : File(id) \notin toDo => (id \in Rows <=> id \in Source)
  /\ stage \in {"indexing", "ready"} => CountedChunks <= MaxRepoChunks
  /\ stage = "ready" => Rows = Source

IndexingOK ==
  /\ stage \in {"queued", "fetched", "indexing", "ready", "failed"}
  /\ passes \in 1..MaxPasses
  /\ clone \in Clones \cup LaterClones \cup {Nothing}
  /\ TableOK
  /\ PassOK

\* What the clone comes to stays while it does.
LEMMA SameClone ==
  ASSUME clone' = clone
  PROVE  /\ Walked' = Walked /\ Source' = Source /\ CountedChunks' = CountedChunks
         /\ \A f : Declared(f)' = Declared(f)
BY DEF Walked, Source, CountedChunks, Declared, Counted, Read, Split, Occurrence

\* So do the rows.
LEMMA SameTable == ASSUME table' = table, TableOK PROVE TableOK' /\ Rows' = Rows
BY DEF TableOK, Rows, IdsOf, IsRow, Row

\* What indexing a file does to the rows.
LEMMA FileIndexed ==
  ASSUME IndexingOK, IndexFile
  PROVE  /\ TableOK'
         /\ \E f \in toDo :
              /\ toDo' = toDo \ {f}
              /\ \A id : id \in Rows' <=> IF File(id) = f THEN id \in Declared(f) ELSE id \in Rows
<1>1. PICK f \in toDo :
        LET stale == {row \in table : row.repository = Ours /\ File(row.id) = f /\ row.id \notin Declared(f)}
        IN  /\ table' = Upserted({Row(Ours, id) : id \in Declared(f)}, table \ stale)
            /\ toDo' = toDo \ {f}
  BY DEF IndexFile
<1> DEFINE stale == {row \in table : row.repository = Ours /\ File(row.id) = f /\ row.id \notin Declared(f)}
           new == {Row(Ours, id) : id \in Declared(f)}
<1>2. CloneOK /\ TableOK
  BY CloneIs DEF IndexingOK
<1>3. \A row \in new : IsRow(row) /\ row.repository = Ours
  BY DEF IsRow, Row
<1>4. \A row \in table \ stale : IsRow(row) /\ row.repository \in {Ours, Others}
  BY <1>2 DEF TableOK
<1>5. table' = (table \ stale) \cup new
  <2>1. \A row \in new \cup (table \ stale) : IsRow(row)
    BY <1>3, <1>4
  <2>2. table' = Upserted(new, table \ stale)
    BY <1>1
  <2> HIDE DEF new, stale
  <2> QED
    BY <2>1, <2>2, UpsertedIs
<1>6. (\A row \in table : IsRow(row)) /\ (\A row \in table' : IsRow(row))
  BY <1>2, <1>3, <1>4, <1>5 DEF TableOK
<1>7. \A id : id \in Rows <=> Row(Ours, id) \in table
  BY <1>6, RowIs DEF Rows, IdsOf
<1>8. \A id : id \in Rows' <=> Row(Ours, id) \in table'
  BY <1>6, RowIs DEF Rows, IdsOf
<1>9. \A id : Row(Ours, id) \in new <=> id \in Declared(f)
  BY DEF Row
<1>10. \A id : Row(Ours, id) \in stale <=> id \in Rows /\ File(id) = f /\ id \notin Declared(f)
  <2>1. \A id : Row(Ours, id).repository = Ours /\ Row(Ours, id).id = id
    BY DEF Row
  <2> QED
    BY <1>7, <2>1
<1>11. \A id \in Declared(f) : File(id) = f /\ f \in Filenames
  BY <1>2, DeclaredIs
<1>12. \A id : id \in Rows' <=> IF File(id) = f THEN id \in Declared(f) ELSE id \in Rows
  <2> HIDE DEF new, stale
  <2> QED
    BY <1>5, <1>7, <1>8, <1>9, <1>10, <1>11
<1>13. TableOK'
  <2>1. \A row \in table' : IsRow(row)' /\ row.repository \in {Ours, Others}
    BY <1>3, <1>4, <1>5 DEF IsRow, Row
  <2>2. IdsOf(Others)' = Neighbour
    <3>1. \A id : id \in IdsOf(Others) <=> Row(Others, id) \in table
      BY <1>6, RowIs DEF IdsOf
    <3>2. \A id : id \in IdsOf(Others)' <=> Row(Others, id) \in table'
      BY <1>6, RowIs DEF IdsOf
    <3>3. \A id : Row(Others, id) \notin new /\ Row(Others, id) \notin stale
      BY DEF Row, Ours, Others
    <3>4. \A id : id \in IdsOf(Others)' <=> id \in IdsOf(Others)
      <4> HIDE DEF new, stale
      <4> QED
        BY <1>5, <3>1, <3>2, <3>3
    <3> QED
      BY <1>2, <3>4 DEF TableOK
  <2>3. Rows' \in SUBSET (Rows \cup Declared(f))
    BY <1>12
  <2>4. IsFiniteSet(Rows')
    <3>1. IsFiniteSet(Rows \cup Declared(f))
      BY <1>2, DeclaredIs, FS_Union DEF TableOK
    <3> QED
      BY <2>3, <3>1, FS_Subset
  <2>5. FilesOf(Rows') \subseteq Filenames
    BY <1>2, <1>11, <2>3 DEF TableOK, FilesOf
  <2> QED
    BY <2>1, <2>2, <2>4, <2>5 DEF TableOK, FilesOf, IsRow, Row
<1> QED
  BY <1>1, <1>12, <1>13

\* Steps that neither clone nor write.
LEMMA PassFrame ==
  ASSUME IndexingOK, table' = table, clone' = clone
  PROVE  /\ TableOK' /\ Rows' = Rows /\ Source' = Source /\ CountedChunks' = CountedChunks
         /\ FilesOf(Rows') = FilesOf(Rows)
BY SameClone, SameTable DEF IndexingOK

\* Nothing is indexed at first.
LEMMA IndexingStarts == ASSUME IndexingInit PROVE IndexingOK
<1>1. \A row \in table : IsRow(row) /\ row.repository = Others /\ row.id \in Neighbour
  BY DEF IndexingInit, IsRow, Row
<1>2. Rows = {}
  BY <1>1 DEF Rows, IdsOf, Ours, Others
<1>3. IdsOf(Others) = Neighbour
  <2>1. \A id \in Neighbour : Row(Others, id) \in table /\ Row(Others, id).repository = Others /\ Row(Others, id).id = id
    BY DEF IndexingInit, Row
  <2> QED
    BY <1>1, <2>1 DEF IdsOf
<1>4. IsFiniteSet(Rows) /\ FilesOf(Rows) \subseteq Filenames
  BY <1>2, FS_EmptySet DEF FilesOf
<1>5. TableOK
  BY <1>1, <1>3, <1>4 DEF TableOK
<1>6. passes \in 1..MaxPasses
  BY IndexingAssumption DEF IndexingInit
<1> QED
  BY <1>5, <1>6 DEF IndexingInit, IndexingOK, PassOK

\* A clone may be of another commit: nothing is said of the rows yet.
LEMMA FetchOK == ASSUME IndexingOK, Fetch PROVE IndexingOK'
<1>1. TableOK'
  BY SameTable DEF Fetch, IndexingOK
<1>2. clone' \in Clones \cup LaterClones \cup {Nothing}
  BY DEF Fetch, IndexingOK
<1>3. toDo' = {} /\ stage' = "fetched" /\ passes' = passes
  BY DEF Fetch, IndexingOK, PassOK
<1> QED
  BY <1>1, <1>2, <1>3 DEF IndexingOK, PassOK

\* The steps that neither clone nor write.
LEMMA StageOK ==
  ASSUME IndexingOK, FetchFails \/ TooLarge \/ PassFails \/ PassEnds \/ Again
  PROVE  IndexingOK'
<1>1. table' = table /\ clone' = clone
  BY DEF FetchFails, TooLarge, PassFails, PassEnds, Again
<1>2. TableOK' /\ Rows' = Rows /\ Source' = Source /\ CountedChunks' = CountedChunks
  BY <1>1, PassFrame
<1>3. toDo' = {}
  BY DEF FetchFails, TooLarge, PassFails, PassEnds, Again, IndexingOK, PassOK
<1>4. /\ stage' \in {"queued", "fetched", "indexing", "ready", "failed"} /\ stage' # "indexing"
      /\ passes' \in 1..MaxPasses
  <2>1. CASE Again
    BY <2>1, IndexingAssumption DEF Again, IndexingOK
  <2> QED
    BY <2>1 DEF FetchFails, TooLarge, PassFails, PassEnds, IndexingOK
<1>5. CASE PassEnds
  <2>1. \A id : id \in Rows <=> id \in Source
    BY <1>5 DEF PassEnds, IndexingOK, PassOK
  <2>2. Rows' = Source' /\ CountedChunks' <= MaxRepoChunks
    BY <1>2, <1>5, <2>1 DEF PassEnds, IndexingOK, PassOK
  <2> QED
    BY <1>1, <1>2, <1>3, <1>4, <2>2 DEF IndexingOK, PassOK
<1>6. CASE ~PassEnds
  <2>1. stage' \in {"queued", "failed"}
    BY <1>6 DEF FetchFails, TooLarge, PassFails, Again
  <2> QED
    BY <1>1, <1>2, <1>3, <1>4, <2>1 DEF IndexingOK, PassOK
<1> QED
  BY <1>5, <1>6

\* When a pass starts it has everything to do.
LEMMA StartPassOK == ASSUME IndexingOK, StartPass PROVE IndexingOK'
<1>1. /\ TableOK' /\ Rows' = Rows /\ Source' = Source /\ CountedChunks' = CountedChunks
      /\ FilesOf(Rows') = FilesOf(Rows)
  BY PassFrame DEF StartPass
<1>2. CloneOK
  BY CloneIs DEF IndexingOK
<1>3. \A id \in Source : File(id) \in Walked
  BY <1>2, InSource, DeclaredIs
<1>4. \A id \in Rows' \cup Source' : File(id) \in toDo'
  BY <1>1, <1>3 DEF StartPass, FilesOf
<1>5. toDo' \subseteq DOMAIN clone' \cup FilesOf(Rows')
  BY <1>1 DEF StartPass, Walked
<1>6. stage' = "indexing" /\ CountedChunks' <= MaxRepoChunks /\ clone' = clone /\ passes' = passes
  BY <1>1 DEF StartPass
<1>7. PassOK'
  BY <1>4, <1>5, <1>6 DEF PassOK
<1> QED
  BY <1>1, <1>6, <1>7 DEF IndexingOK

\* A file is brought up to date.
LEMMA IndexFileOK == ASSUME IndexingOK, IndexFile PROVE IndexingOK'
<1>1. TableOK'
  BY FileIndexed
<1>2. PICK f \in toDo :
        /\ toDo' = toDo \ {f}
        /\ \A id : id \in Rows' <=> IF File(id) = f THEN id \in Declared(f) ELSE id \in Rows
  BY FileIndexed
<1>3. CloneOK
  BY CloneIs DEF IndexingOK
<1>4. stage = "indexing" /\ stage' = stage /\ clone' = clone /\ passes' = passes
  BY DEF IndexFile
<1>5. Source' = Source /\ CountedChunks' = CountedChunks
  BY <1>4, SameClone
<1>6. \A id : id \in Source <=> id \in Declared(File(id))
  BY <1>3, InSource
<1>7. ASSUME NEW id \in Rows' \cup Source', File(id) \notin toDo'
      PROVE  id \in Rows' <=> id \in Source'
  <2>1. CASE File(id) = f
    BY <1>2, <1>5, <1>6, <2>1
  <2>2. CASE File(id) # f
    <3>1. File(id) \notin toDo
      BY <1>2, <1>7, <2>2
    <3>2. id \in Rows' <=> id \in Rows
      BY <1>2, <2>2
    <3> QED
      BY <1>4, <1>5, <3>1, <3>2 DEF IndexingOK, PassOK
  <2> QED
    BY <2>1, <2>2
<1>8. toDo' \subseteq DOMAIN clone' \cup FilesOf(Rows')
  <2>1. ASSUME NEW g \in toDo'
        PROVE  g \in DOMAIN clone' \cup FilesOf(Rows')
    <3>1. g \in toDo /\ g # f
      BY <1>2, <2>1
    <3>2. CASE g \in DOMAIN clone
      BY <1>4, <3>2
    <3>3. CASE g \notin DOMAIN clone
      <4>1. PICK id \in Rows : File(id) = g
        BY <3>1, <3>3 DEF IndexingOK, PassOK, FilesOf
      <4>2. id \in Rows'
        BY <1>2, <3>1, <4>1
      <4> QED
        BY <4>1, <4>2 DEF FilesOf
    <3> QED
      BY <3>2, <3>3
  <2> QED
    BY <2>1
<1>9. CountedChunks' <= MaxRepoChunks
  BY <1>4, <1>5 DEF IndexingOK, PassOK
<1>10. PassOK'
  BY <1>4, <1>7, <1>8, <1>9 DEF PassOK
<1> QED
  BY <1>1, <1>4, <1>10 DEF IndexingOK

\* Elsewhere the repository is left alone.
LEMMA IndexingRests == ASSUME IndexingOK, UNCHANGED indexingVars PROVE IndexingOK'
<1>1. /\ TableOK' /\ Rows' = Rows /\ Source' = Source /\ CountedChunks' = CountedChunks
      /\ FilesOf(Rows') = FilesOf(Rows)
  BY PassFrame DEF indexingVars
<1>2. stage' = stage /\ clone' = clone /\ toDo' = toDo /\ passes' = passes
  BY DEF indexingVars
<1>3. PassOK'
  BY <1>1, <1>2 DEF PassOK, IndexingOK
<1> QED
  BY <1>1, <1>2, <1>3 DEF IndexingOK

\* An ingestion keeps the invariant.
LEMMA IndexingStep ==
  ASSUME IndexingOK, Pass \/ Again \/ UNCHANGED indexingVars
  PROVE  IndexingOK'
BY FetchOK, StageOK, StartPassOK, IndexFileOK, IndexingRests DEF Pass

\* The type invariant follows.
LEMMA IndexingTyped == ASSUME IndexingOK PROVE IndexingTypeOK
BY CloneIs DEF IndexingOK, IndexingTypeOK, CloneOK, TableOK, PassOK

\* A ready index is the source, and within the limit if the count was of what is read.
LEMMA IndexIs == ASSUME IndexingOK PROVE IndexIsTheSource
<1>1. CloneOK
  BY CloneIs DEF IndexingOK
<1>2. Cardinality(Source) = ReadChunks
  BY <1>1, SourceIsRead
<1>3. ReadAlike => ReadChunks = CountedChunks
  BY AlikeIsCounted
<1> QED
  BY <1>2, <1>3 DEF IndexingOK, TableOK, PassOK, IndexIsTheSource

\* No step takes out a row that is of the source.
LEMMA KeepsRows ==
  ASSUME IndexingOK, Pass \/ Again \/ UNCHANGED indexingVars
  PROVE  Rows \cap Source' \subseteq Rows'
<1>1. CASE IndexFile
  <2>1. PICK f \in toDo :
          \A id : id \in Rows' <=> IF File(id) = f THEN id \in Declared(f) ELSE id \in Rows
    BY <1>1, FileIndexed
  <2>2. Source' = Source
    BY <1>1, SameClone DEF IndexFile
  <2>3. \A id \in Source : id \in Declared(File(id))
    BY CloneIs, InSource DEF IndexingOK
  <2> QED
    BY <2>1, <2>2, <2>3
<1>2. CASE ~IndexFile
  <2>1. table' = table
    BY <1>2 DEF Pass, Again, indexingVars, Fetch, FetchFails, TooLarge, StartPass, PassFails, PassEnds
  <2> QED
    BY <2>1, SameTable DEF IndexingOK
<1> QED
  BY <1>1, <1>2

-----------------------------------------------------------------------------
(* The inductive invariant *)

IsSequence(s) == s \in Seq({s[k] : k \in DOMAIN s})

\* The areas are of the files that were listed, and what was retrieved for one lies in it.
ListedOK ==
  /\ pc = "index" => picking = "idle"
  /\ pc \in {"index", "list"} /\ picking = "idle" => Fresh

ContextsOK ==
  /\ pc \in {"index", "list"} => DOMAIN contexts = {}
  /\ DOMAIN contexts \subseteq DOMAIN areas
  /\ \A i \in DOMAIN contexts :
       /\ contexts[i].area = areas[i].path
       /\ \A id \in contexts[i].chunks : IsPrefix(areas[i].path, File(id)) /\ File(id) \in Filenames

PlanOK ==
  /\ pc \in {"index", "list", "retrieve", "write"} => plan = <<>>
  /\ plan = <<>> \/ \E order \in Orders : plan = Planned(order)

TurnsOK ==
  /\ turns.asked \in 0..Len(plan)
  /\ turns.answered \in {turns.asked, turns.asked - 1} \cap Nat

\* What a turn was graded from, and what of it the grade may name.
EvaluationOK(e, k) ==
  /\ e.status = IF k > turns.answered THEN "not_answered" ELSE IF e.grade.score = 0 THEN "not_graded" ELSE "graded"
  /\ e.grade.score \in Scores \cup {0}
  /\ DOMAIN e.grade.points \subseteq 1..MaxPoints
  /\ \A p \in DOMAIN e.grade.points : e.grade.points[p] # {} /\ e.grade.points[p] \subseteq Shown(k)
  /\ e.grade.evidence \subseteq Shown(k)
  /\ e.grade.names \subseteq FilesOf(Shown(k)) \cup {TheCode}
  /\ e.sources \subseteq Shown(k)

EvaluationsOK ==
  /\ IsSequence(evaluations) /\ Len(evaluations) <= turns.asked
  /\ \A k \in DOMAIN evaluations : EvaluationOK(evaluations[k], k)
  /\ pc \in {"index", "list", "retrieve", "write", "interview", "fetch"} => evaluations = <<>>

SummaryOK ==
  IF pc = "done"
  THEN Len(evaluations) = turns.asked /\ \E files \in SUBSET Known : summary = Summary(files)
  ELSE summary = NoSummary

InterviewOK ==
  /\ pc \in {"index", "list", "retrieve", "write", "interview", "fetch", "grade", "done", "failed"}
  /\ ListedOK /\ ContextsOK /\ PlanOK /\ TurnsOK

ReportOK ==
  /\ found \subseteq Asked
  /\ EvaluationsOK
  /\ attempt \in 1..2 /\ waits \in 0..MaxWaits
  /\ SummaryOK

IInv == IndexingOK /\ AreasOK /\ InterviewOK /\ ReportOK

-----------------------------------------------------------------------------
(* What stays *)

\* The areas stay as they should be while they stay.
LEMMA AreasRest == ASSUME AreasOK, UNCHANGED areasVars PROVE AreasOK'
<1>1. /\ picking' = picking /\ index' = index /\ limit' = limit /\ candidates' = candidates
      /\ area' = area /\ prefix' = prefix /\ tried' = tried /\ areas' = areas
  BY DEF areasVars
<1>2. Covered' = Covered /\ FilesOK' /\ \A a : Node(a) => Node(a)'
  BY <1>1, SameFiles DEF AreasOK
<1>3. FilesOK' /\ PickingOK' /\ CandidatesOK' /\ TriedOK' /\ KeptOK'
  BY <1>1, <1>2 DEF AreasOK, PickingOK, CandidatesOK, TriedOK, KeptOK
<1>4. LookingOK'
  BY <1>1, <1>2 DEF AreasOK, LookingOK, Covers
<1>5. SettledOK' /\ (picking' \in {"choose", "keep"} => Covers')
  BY <1>1, <1>2 DEF AreasOK, SettledOK, Covers, Untried
<1> QED
  BY <1>3, <1>4, <1>5 DEF AreasOK

\* So do the plan ...
LEMMA SamePlan ==
  ASSUME contexts' = contexts
  PROVE  Orders' = Orders /\ \A order : Planned(order)' = Planned(order)
BY DEF Orders, WithCode, Planned, Numbered, NumberOf

\* ... and the evaluations.
LEMMA SameEvaluations ==
  ASSUME plan' = plan, turns' = turns, found' = found, evaluations' = evaluations
  PROVE  /\ \A e, k : EvaluationOK(e, k) => EvaluationOK(e, k)'
         /\ Known' = Known /\ \A files : Summary(files)' = Summary(files)
<1>1. Graded' = Graded /\ Answered' = Answered
  BY DEF Graded, Answered
<1>2. Known' = Known
  BY <1>1 DEF Known
<1>3. AverageOfGraded' = AverageOfGraded
  BY <1>1 DEF AverageOfGraded, AverageOf
<1>4. \A e, k : EvaluationOK(e, k) => EvaluationOK(e, k)'
  BY DEF EvaluationOK, Shown, Sources
<1> QED
  BY <1>1, <1>2, <1>3, <1>4 DEF Summary

\* Until the report is graded, a phase ends without it.
LEMMA ReportRests ==
  ASSUME ReportOK, UNCHANGED <<plan, turns, reportVars>>,
         pc' = pc \/ (pc # "done" /\ pc' # "done" /\ (evaluations = <<>> \/ pc' \in {"grade", "failed"}))
  PROVE  ReportOK'
<1>1. /\ plan' = plan /\ turns' = turns /\ found' = found
      /\ evaluations' = evaluations /\ attempt' = attempt /\ waits' = waits /\ summary' = summary
  BY DEF reportVars
<1>2. Asked' = Asked
  BY <1>1 DEF Asked
<1>3. EvaluationsOK'
  <2>1. \A e, k : EvaluationOK(e, k) => EvaluationOK(e, k)'
    BY <1>1, SameEvaluations
  <2> QED
    BY <1>1, <2>1 DEF EvaluationsOK, IsSequence, ReportOK
<1>4. SummaryOK'
  <2>1. Known' = Known /\ \A files : Summary(files)' = Summary(files)
    BY <1>1, SameEvaluations
  <2> QED
    BY <1>1, <2>1 DEF SummaryOK, ReportOK
<1> QED
  BY <1>1, <1>2, <1>3, <1>4 DEF ReportOK

\* While the repository is ingested nothing else changes.
LEMMA InterviewRests ==
  ASSUME InterviewOK, ReportOK, UNCHANGED <<areasVars, interviewVars>>
  PROVE  InterviewOK' /\ ReportOK'
<1>1. /\ pc' = pc /\ contexts' = contexts /\ plan' = plan /\ turns' = turns
      /\ picking' = picking /\ index' = index /\ candidates' = candidates /\ area' = area /\ prefix' = prefix
      /\ tried' = tried /\ areas' = areas /\ UNCHANGED <<plan, turns, reportVars>>
  BY DEF areasVars, interviewVars, planVars
<1>2. ReportOK'
  BY <1>1, ReportRests
<1>3. Orders' = Orders /\ \A order : Planned(order)' = Planned(order)
  BY <1>1, SamePlan
<1>4. PlanOK'
  BY <1>1, <1>3 DEF PlanOK, InterviewOK
<1>5. ListedOK' /\ ContextsOK' /\ TurnsOK'
  BY <1>1 DEF ListedOK, Fresh, ContextsOK, TurnsOK, InterviewOK
<1> QED
  BY <1>1, <1>2, <1>4, <1>5 DEF InterviewOK

\* The invariant holds at first.
LEMMA Starts == Init => IInv
<1> SUFFICES ASSUME Init
             PROVE  IInv
  OBVIOUS
<1>1. IndexingOK
  BY IndexingStarts DEF Init
<1>2. Fresh /\ limit = 0
  BY DEF Init, AreasInit, Fresh
<1>3. AreasOK
  BY <1>2, FreshAreas
<1>4. InterviewOK
  <2>1. ListedOK /\ PlanOK
    BY <1>2 DEF Init, ListedOK, Fresh, PlanOK
  <2>3. ContextsOK
    BY DEF Init, ContextsOK
  <2>2. TurnsOK
    BY DEF Init, TurnsOK
  <2> QED
    BY <2>1, <2>2, <2>3 DEF Init, InterviewOK
<1>5. ReportOK
  <2>1. EvaluationsOK
    BY DEF Init, EvaluationsOK, IsSequence
  <2>2. found \subseteq Asked /\ SummaryOK
    BY DEF Init, SummaryOK
  <2>3. attempt \in 1..2 /\ waits \in 0..MaxWaits
    BY ContentsAssumption DEF Init
  <2> QED
    BY <2>1, <2>2, <2>3 DEF ReportOK
<1> QED
  BY <1>1, <1>3, <1>4, <1>5 DEF IInv

-----------------------------------------------------------------------------
(* The plan *)

\* Sequences have a length.
LEMMA SequenceIs ==
  ASSUME NEW s, IsSequence(s)
  PROVE  Len(s) \in Nat /\ DOMAIN s = 1..Len(s)
<1> DEFINE S == {s[k] : k \in DOMAIN s}
<1>1. s \in Seq(S)
  BY DEF IsSequence
<1> HIDE DEF S
<1> QED
  BY <1>1, LenProperties

\* Finitely many areas have code.
LEMMA WithCodeFinite ==
  ASSUME AreasOK, ContextsOK
  PROVE  IsFiniteSet(WithCode) /\ Cardinality(WithCode) \in Nat
<1>1. areas \in Seq(candidates)
  BY DEF AreasOK, KeptOK
<1>2. Len(areas) \in Nat /\ DOMAIN areas = 1..Len(areas)
  BY <1>1, LenProperties
<1>3. IsFiniteSet(1..Len(areas))
  BY <1>2, FS_Interval
<1>4. WithCode \in SUBSET (1..Len(areas))
  BY <1>2 DEF WithCode, ContextsOK
<1>5. IsFiniteSet(WithCode)
  BY <1>3, <1>4, FS_Subset
<1> QED
  BY <1>5, FS_CardinalityType

\* The areas with code are numbered from 1, each by another number.
LEMMA NumberedIs ==
  ASSUME AreasOK, ContextsOK, NEW m \in 1..Cardinality(WithCode)
  PROVE  Numbered(m) \in WithCode /\ NumberOf(Numbered(m)) = m
<1> DEFINE n == Cardinality(WithCode)
           UpTo(i) == {j \in WithCode : j <= i}
           number == [i \in WithCode |-> NumberOf(i)]
<1>1. IsFiniteSet(WithCode) /\ n \in Nat /\ WithCode \subseteq Nat
  <2>1. areas \in Seq(candidates)
    BY DEF AreasOK, KeptOK
  <2>2. Len(areas) \in Nat /\ DOMAIN areas = 1..Len(areas)
    BY <2>1, LenProperties
  <2> QED
    BY <2>2, WithCodeFinite DEF WithCode, ContextsOK
<1>2. ASSUME NEW i \in WithCode
      PROVE  IsFiniteSet(UpTo(i)) /\ NumberOf(i) \in 1..n
  <2>1. UpTo(i) \in SUBSET WithCode
    OBVIOUS
  <2>2. IsFiniteSet(UpTo(i)) /\ Cardinality(UpTo(i)) <= n
    BY <1>1, <2>1, FS_Subset
  <2>3. i \in UpTo(i)
    BY <1>1
  <2>4. Cardinality(UpTo(i)) \in Nat
    BY <2>2, FS_CardinalityType
  <2>5. Cardinality(UpTo(i)) # 0
    BY <2>2, <2>3, FS_EmptySet
  <2>6. NumberOf(i) = Cardinality(UpTo(i))
    BY DEF NumberOf
  <2> HIDE DEF UpTo, n
  <2> QED
    BY <1>1, <2>2, <2>4, <2>5, <2>6
<1>3. ASSUME NEW i \in WithCode, NEW j \in WithCode, i < j
      PROVE  NumberOf(i) # NumberOf(j)
  <2>1. i \in Nat /\ j \in Nat
    BY <1>1
  <2>6. ASSUME NEW l \in WithCode, l <= i
        PROVE  l <= j
    <3>1. l \in Nat
      BY <1>1
    <3> QED
      BY <1>3, <2>1, <2>6, <3>1
  <2>2. UpTo(i) \in SUBSET UpTo(j)
    BY <2>6
  <2>3. j \in UpTo(j) /\ j \notin UpTo(i)
    BY <1>3, <2>1
  <2>4. NumberOf(i) = Cardinality(UpTo(i)) /\ NumberOf(j) = Cardinality(UpTo(j))
    BY DEF NumberOf
  <2>5. IsFiniteSet(UpTo(j))
    BY <1>2
  <2> HIDE DEF UpTo
  <2> QED
    BY <2>2, <2>3, <2>4, <2>5, FS_Subset
<1>4. number \in Injection(WithCode, 1..n)
  <2>1. number \in [WithCode -> 1..n]
    BY <1>2
  <2>2. \A i, j \in WithCode : number[i] = number[j] => i = j
    <3>1. \A i, j \in WithCode : i = j \/ i < j \/ j < i
      BY <1>1
    <3> QED
      BY <1>3, <3>1
  <2> QED
    BY <2>1, <2>2 DEF Injection, IsInjective
<1>5. IsFiniteSet(1..n) /\ Cardinality(1..n) = n
  BY <1>1, FS_Interval
<1>6. number \in Surjection(WithCode, 1..n)
  <2> HIDE DEF number
  <2> QED
    BY <1>4, <1>5, FS_Injection
<1>7. PICK i \in WithCode : NumberOf(i) = m
  BY <1>6 DEF Surjection
<1> QED
  BY <1>7 DEF Numbered

\* A plan is a sequence of different contexts.
LEMMA PlannedIs ==
  ASSUME AreasOK, ContextsOK, NEW order \in Orders
  PROVE  LET p == Planned(order)
         IN  /\ Len(p) \in Nat /\ DOMAIN p = 1..Len(p)
             /\ \A k \in DOMAIN p : Numbered(order[k]) \in WithCode /\ p[k] = contexts[Numbered(order[k])]
             /\ \A j, k \in DOMAIN p : Numbered(order[j]) = Numbered(order[k]) => j = k
<1> DEFINE p == Planned(order)
           n == Cardinality(WithCode)
           S == {contexts[i] : i \in WithCode}
<1>1. n \in Nat
  BY WithCodeFinite
<1>2. order \in [1..n -> 1..n] /\ \A j, k \in 1..n : order[j] = order[k] => j = k
  BY DEF Orders
<1>7. \A k \in 1..n : Numbered(order[k]) \in WithCode /\ NumberOf(Numbered(order[k])) = order[k]
  BY <1>2, NumberedIs
<1>3. p \in [1..n -> S] /\ \A k \in 1..n : p[k] = contexts[Numbered(order[k])]
  BY <1>2, <1>7 DEF Planned
<1>4. DOMAIN p = 1..n
  BY <1>3
<1>8. \A j, k \in 1..n : Numbered(order[j]) = Numbered(order[k]) => j = k
  BY <1>2, <1>7
<1> HIDE DEF p, n, S
<1>5. p \in Seq(S)
  BY <1>1, <1>3, SeqDef
<1>6. Len(p) \in Nat /\ DOMAIN p = 1..Len(p)
  BY <1>5, LenProperties
<1> QED
  BY <1>3, <1>4, <1>6, <1>7, <1>8 DEF p

\* A question is one of the contexts.
LEMMA PlanIs ==
  ASSUME AreasOK, InterviewOK
  PROVE  /\ Len(plan) \in Nat /\ DOMAIN plan = 1..Len(plan)
         /\ \A k \in DOMAIN plan : \E i \in WithCode : plan[k] = contexts[i]
<1>1. CASE plan = <<>>
  <2>1. Len(plan) = 0 /\ DOMAIN plan = {}
    BY <1>1
  <2> QED
    BY <2>1
<1>2. CASE plan # <<>>
  <2>1. PICK order \in Orders : plan = Planned(order)
    BY <1>2 DEF InterviewOK, PlanOK
  <2>2. ContextsOK
    BY DEF InterviewOK
  <2> QED
    BY <2>1, <2>2, PlannedIs
<1> QED
  BY <1>1, <1>2

-----------------------------------------------------------------------------
(* The steps of planning *)

\* An interview is created.
LEMMA BecomesReadyOK == ASSUME IInv, BecomesReady PROVE IInv'
<1>1. /\ pc = "index" /\ pc' = "list"
      /\ UNCHANGED indexingVars /\ UNCHANGED areasVars /\ UNCHANGED <<plan, turns, reportVars>>
      /\ contexts' = contexts /\ plan' = plan /\ turns' = turns
  BY DEF BecomesReady, planVars
<1>2. Fresh' /\ areas' = areas
  BY <1>1 DEF IInv, InterviewOK, ListedOK, Fresh, areasVars
<1>3. IndexingOK' /\ AreasOK'
  BY <1>1, IndexingRests, AreasRest DEF IInv
<1>4. ReportOK'
  <2>1. evaluations = <<>>
    BY <1>1 DEF IInv, ReportOK, EvaluationsOK
  <2> QED
    BY <1>1, <2>1, ReportRests DEF IInv
<1>5. InterviewOK'
  <2>1. ListedOK' /\ PlanOK' /\ TurnsOK'
    BY <1>1, <1>2 DEF IInv, InterviewOK, ListedOK, PlanOK, TurnsOK
  <2>2. ContextsOK'
    BY <1>1, <1>2 DEF IInv, InterviewOK, ContextsOK
  <2> QED
    BY <1>1, <2>1, <2>2 DEF InterviewOK
<1> QED
  BY <1>3, <1>4, <1>5 DEF IInv

\* Listing the areas and a turn of a loop.
LEMMA PickingStep ==
  ASSUME IInv, pc = "list", AreasOK', picking' # "idle", UNCHANGED <<indexingVars, interviewVars>>
  PROVE  IInv'
<1>1. /\ pc' = pc /\ contexts' = contexts /\ plan' = plan /\ turns' = turns
      /\ UNCHANGED <<plan, turns, reportVars>> /\ UNCHANGED indexingVars
  BY DEF interviewVars, planVars
<1>2. IndexingOK' /\ ReportOK'
  BY <1>1, IndexingRests, ReportRests DEF IInv
<1>3. ListedOK' /\ PlanOK' /\ TurnsOK'
  BY <1>1 DEF IInv, InterviewOK, ListedOK, PlanOK, TurnsOK
<1>4. DOMAIN contexts = {}
  BY DEF IInv, InterviewOK, ContextsOK
<1>5. ContextsOK'
  BY <1>1, <1>4 DEF ContextsOK
<1> QED
  BY <1>1, <1>2, <1>3, <1>5 DEF IInv, InterviewOK

\* Listing starts with the rows there are.
LEMMA ListAreasOK == ASSUME IInv, ListAreas PROVE IInv'
<1>1. pc = "list" /\ StartPicking(Rows) /\ UNCHANGED <<indexingVars, interviewVars>>
  BY DEF ListAreas
<1>2. picking = "idle" /\ picking' = "under"
  BY <1>1 DEF StartPicking
<1>3. Fresh
  BY <1>1, <1>2 DEF IInv, InterviewOK, ListedOK
<1>4. IsFiniteSet(Rows) /\ FilesOf(Rows) \subseteq Filenames
  BY DEF IInv, IndexingOK, TableOK
<1>5. AreasOK'
  BY <1>1, <1>3, <1>4, StartsPicking
<1> QED
  BY <1>1, <1>2, <1>5, PickingStep

\* A turn of a loop.
LEMMA PickAreaOK == ASSUME IInv, PickArea PROVE IInv'
<1>1. pc = "list" /\ PickAreas /\ UNCHANGED <<indexingVars, interviewVars>>
  BY DEF PickArea
<1>2. AreasOK'
  BY <1>1, AreasPicked DEF IInv
<1>3. picking' # "idle"
  BY <1>1 DEF PickAreas, StepInto, RootAreas, SplitArea, DoesNotSplit, Arrived, TryLargest, Settled, KeepLargest
<1> QED
  BY <1>1, <1>2, <1>3, PickingStep

\* The areas are listed.
LEMMA AreasListedOK == ASSUME IInv, AreasListed PROVE IInv'
<1>1. /\ pc = "list" /\ pc' \in {"failed", "retrieve"} /\ picking' = "idle"
      /\ index' = index /\ limit' = limit /\ candidates' = candidates
      /\ area' = area /\ prefix' = prefix /\ tried' = tried /\ areas' = areas
      /\ UNCHANGED indexingVars /\ UNCHANGED <<plan, turns, reportVars>>
      /\ contexts' = contexts /\ plan' = plan /\ turns' = turns
  BY DEF AreasListed, planVars
<1>2. IndexingOK' /\ ReportOK'
  <2>1. evaluations = <<>>
    BY <1>1 DEF IInv, ReportOK, EvaluationsOK
  <2> QED
    BY <1>1, <2>1, IndexingRests, ReportRests DEF IInv
<1>3. AreasOK'
  <2>1. FilesOK' /\ \A a : Node(a) => Node(a)'
    BY <1>1, SameFiles DEF IInv, AreasOK
  <2>2. PickingOK' /\ CandidatesOK' /\ TriedOK' /\ KeptOK'
    <3>1. Covered' = Covered
      BY <1>1, SameFiles
    <3> QED
      BY <1>1, <2>1, <3>1 DEF IInv, AreasOK, PickingOK, CandidatesOK, TriedOK, KeptOK
  <2> QED
    BY <1>1, <2>1, <2>2 DEF AreasOK, LookingOK, SettledOK
<1>4. ListedOK' /\ ContextsOK' /\ PlanOK' /\ TurnsOK'
  <2>1. DOMAIN contexts = {} /\ plan = <<>>
    BY <1>1 DEF IInv, InterviewOK, ContextsOK, PlanOK
  <2>2. ContextsOK'
    BY <1>1, <2>1 DEF ContextsOK
  <2> QED
    BY <1>1, <2>1, <2>2 DEF IInv, InterviewOK, ListedOK, PlanOK, TurnsOK
<1> QED
  BY <1>1, <1>2, <1>3, <1>4 DEF IInv, InterviewOK

\* What follows the listing of the areas leaves them alone.
LEMMA AfterListing ==
  ASSUME IInv, UNCHANGED <<indexingVars, areasVars>>, pc' \notin {"index", "list"}
  PROVE  IndexingOK' /\ AreasOK' /\ ListedOK' /\ areas' = areas
<1>1. UNCHANGED indexingVars /\ UNCHANGED areasVars
  OBVIOUS
<1> QED
  BY <1>1, IndexingRests, AreasRest DEF IInv, ListedOK, areasVars

\* The contexts stay with the areas.
LEMMA SameContexts ==
  ASSUME ContextsOK, contexts' = contexts, areas' = areas, pc' \notin {"index", "list"}
  PROVE  ContextsOK'
BY DEF ContextsOK

\* What is retrieved for an area begins with its path.
LEMMA RetrieveOK == ASSUME IInv, Retrieve PROVE IInv'
<1>1. /\ pc = "retrieve" /\ pc' \in {"retrieve", "write"}
      /\ UNCHANGED <<indexingVars, areasVars>> /\ UNCHANGED <<plan, turns, reportVars>>
      /\ plan' = plan /\ turns' = turns
  BY DEF Retrieve
<1>2. IndexingOK' /\ AreasOK' /\ ListedOK' /\ areas' = areas
  BY <1>1, AfterListing
<1>3. ReportOK'
  <2>1. evaluations = <<>>
    BY <1>1 DEF IInv, ReportOK, EvaluationsOK
  <2> QED
    BY <1>1, <2>1, ReportRests DEF IInv
<1>4. PlanOK' /\ TurnsOK'
  BY <1>1 DEF IInv, InterviewOK, PlanOK, TurnsOK
<1>5. PICK i \in DOMAIN areas \ DOMAIN contexts :
        LET rows == RowsUnder(areas[i].path)
        IN  \E chunks \in kSubset(Min({TopK, Cardinality(rows)}), rows) :
              contexts' = [j \in DOMAIN contexts \cup {i} |->
                             IF j = i THEN [area |-> areas[i].path, chunks |-> chunks] ELSE contexts[j]]
  BY DEF Retrieve
<1>6. PICK chunks \in SUBSET RowsUnder(areas[i].path) :
        contexts' = [j \in DOMAIN contexts \cup {i} |->
                       IF j = i THEN [area |-> areas[i].path, chunks |-> chunks] ELSE contexts[j]]
  BY <1>5 DEF kSubset
<1>7. /\ DOMAIN contexts' = {i} \cup DOMAIN contexts
      /\ contexts'[i] = [area |-> areas[i].path, chunks |-> chunks]
      /\ \A j \in DOMAIN contexts : contexts'[j] = contexts[j]
  BY <1>5, <1>6
<1>8. \A id \in chunks : IsPrefix(areas[i].path, File(id)) /\ File(id) \in Filenames
  <2>1. \A id \in Rows : File(id) \in Filenames
    BY DEF IInv, IndexingOK, TableOK, FilesOf
  <2> QED
    BY <2>1 DEF RowsUnder
<1>9. ContextsOK'
  <2>1. DOMAIN contexts' \subseteq DOMAIN areas'
    BY <1>2, <1>5, <1>7 DEF IInv, InterviewOK, ContextsOK
  <2>2. ASSUME NEW j \in DOMAIN contexts'
        PROVE  /\ contexts'[j].area = areas'[j].path
               /\ \A id \in contexts'[j].chunks : IsPrefix(areas'[j].path, File(id)) /\ File(id) \in Filenames
    <3>1. CASE j = i
      BY <1>2, <1>7, <1>8, <3>1
    <3>2. CASE j \in DOMAIN contexts
      BY <1>2, <1>7, <3>2 DEF IInv, InterviewOK, ContextsOK
    <3> QED
      BY <1>7, <3>1, <3>2
  <2> QED
    BY <1>1, <2>1, <2>2 DEF ContextsOK
<1> QED
  BY <1>1, <1>2, <1>3, <1>4, <1>9 DEF IInv, InterviewOK

\* The model orders the areas with code.
LEMMA WritePlanOK == ASSUME IInv, WritePlan PROVE IInv'
<1>1. /\ pc = "write" /\ pc' = "interview"
      /\ UNCHANGED <<indexingVars, areasVars>>
      /\ contexts' = contexts /\ turns' = turns /\ found' = found /\ evaluations' = evaluations
      /\ attempt' = attempt /\ waits' = waits /\ summary' = summary
  BY DEF WritePlan, reportVars
<1>2. IndexingOK' /\ AreasOK' /\ ListedOK' /\ areas' = areas
  BY <1>1, AfterListing
<1>3. PICK order \in Orders : plan' = Planned(order)
  BY DEF WritePlan
<1>4. ContextsOK /\ ContextsOK'
  BY <1>1, <1>2, SameContexts DEF IInv, InterviewOK
<1>5. PlanOK'
  <2>1. order \in Orders' /\ Planned(order)' = Planned(order)
    BY <1>1, SamePlan
  <2> QED
    BY <1>1, <1>3, <2>1 DEF PlanOK
<1>6. plan = <<>> /\ evaluations = <<>>
  BY <1>1 DEF IInv, InterviewOK, PlanOK, ReportOK, EvaluationsOK
<1>7. turns.asked = 0
  <2>1. Len(plan) = 0
    BY <1>6
  <2> QED
    BY <2>1 DEF IInv, InterviewOK, TurnsOK
<1>8. TurnsOK'
  <2>1. Len(plan') \in Nat
    BY <1>3, <1>4, PlannedIs DEF IInv
  <2> QED
    BY <1>1, <1>7, <2>1 DEF IInv, InterviewOK, TurnsOK
<1>9. ReportOK'
  <2>1. found' = {}
    BY <1>1, <1>6 DEF IInv, ReportOK, Asked
  <2>2. EvaluationsOK'
    BY <1>1, <1>6 DEF IInv, ReportOK, EvaluationsOK, IsSequence
  <2>3. SummaryOK'
    BY <1>1 DEF IInv, ReportOK, SummaryOK
  <2> QED
    BY <1>1, <2>1, <2>2, <2>3 DEF IInv, ReportOK
<1> QED
  BY <1>1, <1>2, <1>4, <1>5, <1>8, <1>9 DEF IInv, InterviewOK

\* A step from which only the phase differs.
LEMMA PhaseStep ==
  ASSUME IInv, UNCHANGED <<indexingVars, areasVars, planVars, turns, reportVars>>,
         pc # "done", pc' = "failed"
  PROVE  IInv'
<1>1. /\ UNCHANGED <<indexingVars, areasVars>> /\ UNCHANGED <<plan, turns, reportVars>>
      /\ contexts' = contexts /\ plan' = plan /\ turns' = turns
  BY DEF planVars
<1>2. IndexingOK' /\ AreasOK' /\ ListedOK' /\ areas' = areas
  BY <1>1, AfterListing
<1>3. ReportOK'
  BY <1>1, ReportRests DEF IInv
<1>4. ContextsOK'
  BY <1>1, <1>2, SameContexts DEF IInv, InterviewOK
<1>5. Orders' = Orders /\ \A order : Planned(order)' = Planned(order)
  BY <1>1, SamePlan
<1>6. PlanOK' /\ TurnsOK'
  BY <1>1, <1>5 DEF IInv, InterviewOK, PlanOK, TurnsOK
<1> QED
  BY <1>2, <1>3, <1>4, <1>6 DEF IInv, InterviewOK

\* Planning or the report fails.
LEMMA FailsOK == ASSUME IInv, NothingToAsk \/ CallFails PROVE IInv'
<1>1. UNCHANGED <<indexingVars, areasVars, planVars, turns, reportVars>> /\ pc # "done" /\ pc' = "failed"
  BY DEF NothingToAsk, CallFails, Calling, AtAnswer, Summarising
<1> QED
  BY <1>1, PhaseStep

\* Some questions are asked, and all but the last one answered.
LEMMA HoldInterviewOK == ASSUME IInv, HoldInterview PROVE IInv'
<1>1. /\ pc = "interview" /\ pc' = "fetch"
      /\ UNCHANGED <<indexingVars, areasVars>>
      /\ contexts' = contexts /\ plan' = plan /\ found' = found /\ evaluations' = evaluations
      /\ attempt' = attempt /\ waits' = waits /\ summary' = summary
  BY DEF HoldInterview, planVars, reportVars
<1>2. IndexingOK' /\ AreasOK' /\ ListedOK' /\ areas' = areas
  BY <1>1, AfterListing
<1>3. PICK n \in 0..Len(plan) : \E m \in {n, n - 1} \cap Nat : turns' = [asked |-> n, answered |-> m]
  BY DEF HoldInterview
<1>4. TurnsOK' /\ turns'.asked \in Nat
  <2>1. Len(plan) \in Nat
    BY PlanIs DEF IInv
  <2> QED
    BY <1>1, <1>3, <2>1 DEF TurnsOK
<1>5. ContextsOK'
  BY <1>1, <1>2, SameContexts DEF IInv, InterviewOK
<1>6. PlanOK'
  BY <1>1, SamePlan DEF IInv, InterviewOK, PlanOK
<1>7. evaluations = <<>>
  BY <1>1 DEF IInv, ReportOK, EvaluationsOK
<1>8. ReportOK'
  <2>1. found' \subseteq Asked'
    BY <1>1 DEF IInv, ReportOK, Asked
  <2>2. EvaluationsOK'
    BY <1>1, <1>4, <1>7 DEF IInv, ReportOK, EvaluationsOK, IsSequence
  <2>3. SummaryOK'
    BY <1>1 DEF IInv, ReportOK, SummaryOK
  <2> QED
    BY <1>1, <2>1, <2>2, <2>3 DEF IInv, ReportOK
<1> QED
  BY <1>1, <1>2, <1>4, <1>5, <1>6, <1>8 DEF IInv, InterviewOK

-----------------------------------------------------------------------------
(* The steps of the report *)

\* A sequence with one more.
LEMMA Appended ==
  ASSUME NEW s, IsSequence(s), NEW e
  PROVE  LET t == Append(s, e)
         IN  /\ IsSequence(t) /\ Len(t) = Len(s) + 1
             /\ \A k \in DOMAIN t : IF k = Len(s) + 1 THEN t[k] = e ELSE k \in DOMAIN s /\ t[k] = s[k]
<1> DEFINE t == Append(s, e)
           S == {s[k] : k \in DOMAIN s}
<1>1. Len(s) \in Nat /\ DOMAIN s = 1..Len(s) /\ s \in Seq(S)
  BY SequenceIs DEF IsSequence
<1>2. \A k \in DOMAIN s : s[k] \in S
  OBVIOUS
<1> HIDE DEF S
<1>3. s \in Seq(S \cup {e})
  BY <1>1, <1>2, SeqDef
<1>4. /\ t \in Seq(S \cup {e}) /\ Len(t) = Len(s) + 1 /\ t[Len(s) + 1] = e
      /\ \A k \in 1..Len(s) : t[k] = s[k]
  BY <1>3, AppendProperties
<1>5. DOMAIN t = 1..(Len(s) + 1)
  BY <1>1, <1>4, LenProperties
<1> HIDE DEF t
<1>6. IsSequence(t)
  <2> DEFINE T == {t[k] : k \in DOMAIN t}
  <2>1. t \in [1..(Len(s) + 1) -> T] /\ Len(s) + 1 \in Nat
    <3>1. t \in [1..Len(t) -> S \cup {e}]
      BY <1>4, LenProperties
    <3> QED
      BY <1>1, <1>4, <1>5, <3>1
  <2> HIDE DEF T
  <2>2. t \in Seq(T)
    BY <2>1, SeqDef
  <2> QED
    BY <2>2 DEF IsSequence, T
<1>7. ASSUME NEW k \in DOMAIN t
      PROVE  IF k = Len(s) + 1 THEN t[k] = e ELSE k \in DOMAIN s /\ t[k] = s[k]
  BY <1>1, <1>4, <1>5
<1> QED
  BY <1>4, <1>6, <1>7 DEF t

\* Every answered turn has its question.
LEMMA TurnsAre ==
  ASSUME AreasOK, InterviewOK
  PROVE  /\ turns.asked \in Nat /\ turns.answered \in Nat
         /\ turns.answered <= turns.asked /\ turns.asked <= Len(plan)
         /\ 1..turns.answered \subseteq DOMAIN plan
<1>1. Len(plan) \in Nat /\ DOMAIN plan = 1..Len(plan)
  BY PlanIs
<1> QED
  BY <1>1 DEF InterviewOK, TurnsOK

\* The turn at hand comes next.
LEMMA TurnIs ==
  ASSUME ReportOK
  PROVE  Len(evaluations) \in Nat /\ DOMAIN evaluations = 1..Len(evaluations) /\ Turn = Len(evaluations) + 1
BY SequenceIs DEF ReportOK, EvaluationsOK, Turn

\* What the report leaves alone.
LEMMA ReportFrame ==
  ASSUME IInv, UNCHANGED <<indexingVars, areasVars, planVars, turns>>, pc' \in {"grade", "done"}
  PROVE  /\ IndexingOK' /\ AreasOK' /\ InterviewOK' /\ Asked' = Asked
<1>1. UNCHANGED <<indexingVars, areasVars>> /\ contexts' = contexts /\ plan' = plan /\ turns' = turns
  BY DEF planVars
<1>2. IndexingOK' /\ AreasOK' /\ ListedOK' /\ areas' = areas
  BY <1>1, AfterListing
<1>3. ContextsOK'
  BY <1>1, <1>2, SameContexts DEF IInv, InterviewOK
<1>4. Orders' = Orders /\ \A order : Planned(order)' = Planned(order)
  BY <1>1, SamePlan
<1>5. PlanOK' /\ TurnsOK'
  BY <1>1, <1>4 DEF IInv, InterviewOK, PlanOK, TurnsOK
<1> QED
  BY <1>1, <1>2, <1>3, <1>5 DEF InterviewOK, Asked

\* Chunks are fetched that the plan names.
LEMMA FetchChunksOK == ASSUME IInv, FetchChunks PROVE IInv'
<1>1. /\ pc = "fetch" /\ pc' = "grade" /\ UNCHANGED <<indexingVars, areasVars, planVars, turns>>
      /\ found' = UNION {plan[k].chunks : k \in 1..turns.answered} \cap Rows
      /\ evaluations' = evaluations /\ attempt' = attempt /\ waits' = waits /\ summary' = summary
      /\ turns' = turns
  BY DEF FetchChunks
<1>2. IndexingOK' /\ AreasOK' /\ InterviewOK' /\ Asked' = Asked
  BY <1>1, ReportFrame
<1>3. found' \subseteq Asked
  <2>1. 1..turns.answered \subseteq DOMAIN plan
    BY TurnsAre DEF IInv
  <2> QED
    BY <1>1, <2>1 DEF Asked
<1>4. evaluations = <<>>
  BY <1>1 DEF IInv, ReportOK, EvaluationsOK
<1>5. EvaluationsOK' /\ SummaryOK'
  BY <1>1, <1>4 DEF IInv, ReportOK, EvaluationsOK, IsSequence, SummaryOK
<1> QED
  BY <1>1, <1>2, <1>3, <1>5 DEF IInv, ReportOK

\* An evaluation is as it should be and is of a turn that was asked.
LEMMA Evaluates ==
  ASSUME IInv, pc = "grade", Turn <= turns.asked,
         NEW status, NEW grade, NEW sources, Evaluate(status, grade, sources),
         EvaluationOK([status |-> status, grade |-> grade, sources |-> sources], Turn)
  PROVE  IInv'
<1> DEFINE e == [status |-> status, grade |-> grade, sources |-> sources]
<1>1. /\ evaluations' = Append(evaluations, e) /\ attempt' = 1 /\ waits' = 0
      /\ UNCHANGED <<indexingVars, areasVars, planVars, turns>> /\ pc' = "grade"
      /\ plan' = plan /\ turns' = turns /\ found' = found /\ summary' = summary
  BY DEF Evaluate, NextPiece, planVars
<1>2. IndexingOK' /\ AreasOK' /\ InterviewOK' /\ Asked' = Asked
  BY <1>1, ReportFrame
<1>3. IsSequence(evaluations) /\ Len(evaluations) \in Nat /\ Turn = Len(evaluations) + 1
  BY TurnIs DEF IInv, ReportOK, EvaluationsOK
<1>4. \A x, k : EvaluationOK(x, k) => EvaluationOK(x, k)'
  BY <1>1 DEF EvaluationOK, Shown, Sources
<1>5. EvaluationOK(e, Turn)
  OBVIOUS
<1> HIDE DEF e
<1>6. /\ IsSequence(evaluations') /\ Len(evaluations') = Len(evaluations) + 1
      /\ \A k \in DOMAIN evaluations' :
           IF k = Len(evaluations) + 1 THEN evaluations'[k] = e
           ELSE k \in DOMAIN evaluations /\ evaluations'[k] = evaluations[k]
  BY <1>1, <1>3, Appended
<1>7. ASSUME NEW k \in DOMAIN evaluations'
      PROVE  EvaluationOK(evaluations[k], k)'
  <2>1. EvaluationOK(evaluations'[k], k)
    BY <1>3, <1>5, <1>6 DEF IInv, ReportOK, EvaluationsOK
  <2>2. \A x : EvaluationOK(x, k) => EvaluationOK(x, k)'
    BY <1>4
  <2> QED
    BY <1>1, <2>1 DEF EvaluationOK, Shown, Sources
<1>8. EvaluationsOK'
  <2>1. Len(evaluations') <= turns.asked
    BY <1>3, <1>6
  <2>2. IsSequence(evaluations)'
    BY <1>6 DEF IsSequence
  <2> QED
    BY <1>1, <1>7, <2>1, <2>2 DEF EvaluationsOK
<1>9. SummaryOK' /\ found' \subseteq Asked'
  BY <1>1, <1>2 DEF IInv, ReportOK, SummaryOK
<1>10. attempt' \in 1..2 /\ waits' \in 0..MaxWaits
  BY <1>1, ContentsAssumption
<1> QED
  BY <1>2, <1>8, <1>9, <1>10 DEF IInv, ReportOK

\* A turn without an answer is not graded.
LEMMA NotAnsweredOK == ASSUME IInv, NotAnswered PROVE IInv'
<1>1. pc = "grade" /\ turns.answered < Turn /\ Turn <= turns.asked /\ Evaluate("not_answered", NotGraded, {})
  BY DEF NotAnswered
<1>2. turns.answered \in Nat /\ Turn \in Nat
  BY TurnsAre, TurnIs DEF IInv
<1>3. EvaluationOK([status |-> "not_answered", grade |-> NotGraded, sources |-> {}], Turn)
  <2>1. Turn > turns.answered
    BY <1>1, <1>2
  <2>2. DOMAIN NotGraded.points = {}
    BY DEF NotGraded
  <2> QED
    BY <2>1, <2>2 DEF EvaluationOK, NotGraded
<1> QED
  BY <1>1, <1>3, Evaluates

\* Neither is one whose two replies cannot be used.
LEMMA NotGradedOK ==
  ASSUME IInv, AtAnswer, Evaluate("not_graded", NotGraded, Sources(Turn))
  PROVE  IInv'
<1>1. pc = "grade" /\ Turn <= turns.answered
  BY DEF AtAnswer
<1>2. turns.answered \in Nat /\ turns.asked \in Nat /\ turns.answered <= turns.asked /\ Turn \in Nat
  BY TurnsAre, TurnIs DEF IInv
<1>3. EvaluationOK([status |-> "not_graded", grade |-> NotGraded, sources |-> Sources(Turn)], Turn)
  <2>1. ~(Turn > turns.answered)
    BY <1>1, <1>2
  <2>2. DOMAIN NotGraded.points = {}
    BY DEF NotGraded
  <2> QED
    BY <2>1, <2>2 DEF EvaluationOK, NotGraded, Shown
<1> QED
  BY <1>1, <1>2, <1>3, Evaluates

\* A grade cites what was shown.
LEMMA GradeTurnOK == ASSUME IInv, GradeTurn PROVE IInv'
<1>1. pc = "grade" /\ Turn <= turns.answered
  BY DEF GradeTurn, AtAnswer
<1>2. turns.answered \in Nat /\ turns.asked \in Nat /\ turns.answered <= turns.asked /\ Turn \in Nat
  BY TurnsAre, TurnIs DEF IInv
<1>3. PICK reply \in Replies :
        Evaluate("graded", Grounded([reply EXCEPT !.points = Trim(@, MaxPoints)], Shown(Turn)), Sources(Turn))
  BY DEF GradeTurn
<1>4. PICK shown : shown = Shown(Turn)
  OBVIOUS
<1>5. PICK points : points = Trim(reply.points, MaxPoints)
  OBVIOUS
<1>6. PICK grade : grade = Grounded([reply EXCEPT !.points = points], shown)
  OBVIOUS
<1>7. reply.score \in Scores /\ reply.score # 0
  BY ContentsAssumption DEF Replies
<1>8. /\ grade.score = reply.score /\ grade.evidence = reply.evidence \cap shown
      /\ grade.names = Named(reply.evidence, shown)
      /\ grade.points = [p \in {q \in DOMAIN points : points[q] \cap shown # {}} |-> points[p] \cap shown]
  BY <1>6 DEF Grounded, Replies
<1>9. DOMAIN points \subseteq 1..MaxPoints
  BY <1>5 DEF Trim
<1>10. grade.names \subseteq FilesOf(shown) \cup {TheCode}
  BY <1>8 DEF Named, FilesOf
<1>11. /\ DOMAIN grade.points \subseteq 1..MaxPoints
       /\ \A p \in DOMAIN grade.points : grade.points[p] # {} /\ grade.points[p] \subseteq shown
  BY <1>8, <1>9
<1>12. EvaluationOK([status |-> "graded", grade |-> grade, sources |-> Sources(Turn)], Turn)
  <2>1. ~(Turn > turns.answered)
    BY <1>1, <1>2
  <2>2. grade.evidence \subseteq shown
    BY <1>8
  <2> QED
    BY <1>4, <1>7, <1>8, <1>10, <1>11, <2>1, <2>2 DEF EvaluationOK, Shown
<1>13. Evaluate("graded", grade, Sources(Turn))
  BY <1>3, <1>4, <1>5, <1>6
<1> QED
  BY <1>1, <1>2, <1>12, <1>13, Evaluates

\* The report ends with its summary.
LEMMA SummariseOK ==
  ASSUME IInv, Summarising, NEW files \in SUBSET Known, Summarise(files)
  PROVE  IInv'
<1>1. /\ pc = "grade" /\ pc' = "done" /\ UNCHANGED <<indexingVars, areasVars, planVars, turns>>
      /\ plan' = plan /\ turns' = turns /\ found' = found /\ evaluations' = evaluations
      /\ attempt' = 1 /\ waits' = 0 /\ summary' = Summary(files) /\ Len(evaluations) = turns.asked
  BY DEF Summarising, Summarise, NextPiece, planVars
<1>2. IndexingOK' /\ AreasOK' /\ InterviewOK' /\ Asked' = Asked
  BY <1>1, ReportFrame
<1>3. /\ \A x, k : EvaluationOK(x, k) => EvaluationOK(x, k)'
      /\ Known' = Known /\ Summary(files)' = Summary(files)
  BY <1>1, SameEvaluations
<1>4. EvaluationsOK'
  BY <1>1, <1>3 DEF IInv, ReportOK, EvaluationsOK, IsSequence
<1>5. SummaryOK'
  BY <1>1, <1>3 DEF SummaryOK
<1>6. attempt' \in 1..2 /\ waits' \in 0..MaxWaits
  BY <1>1, ContentsAssumption
<1> QED
  BY <1>1, <1>2, <1>4, <1>5, <1>6 DEF IInv, ReportOK

\* With notes, or with nothing graded.
LEMMA EndsOK == ASSUME IInv, WriteNotes \/ NothingGraded PROVE IInv'
<1>1. CASE WriteNotes
  <2>1. PICK files \in SUBSET FilesOf(Asked) : Summarise(files \cap Known)
    BY <1>1 DEF WriteNotes
  <2>2. Summarising /\ files \cap Known \in SUBSET Known
    BY <1>1 DEF WriteNotes
  <2> QED
    BY <2>1, <2>2, SummariseOK
<1>2. CASE NothingGraded
  <2>1. Summarising /\ {} \in SUBSET Known /\ Summarise({})
    BY <1>2 DEF NothingGraded
  <2> QED
    BY <2>1, SummariseOK
<1> QED
  BY <1>1, <1>2

\* Two replies that cannot be used.
LEMMA UnusableOK == ASSUME IInv, Unusable PROVE IInv'
<1>1. CASE Summarising
  <2>1. {} \in SUBSET Known /\ Summarise({})
    BY <1>1 DEF Unusable
  <2> QED
    BY <1>1, <2>1, SummariseOK
<1>2. CASE ~Summarising
  BY <1>2, NotGradedOK DEF Unusable, Calling
<1> QED
  BY <1>1, <1>2

\* The model is asked again, or a wait is spent.
LEMMA CallsOK == ASSUME IInv, AskedAgain \/ RateLimited PROVE IInv'
<1>1. /\ pc = "grade" /\ pc' = pc /\ UNCHANGED <<indexingVars, areasVars, planVars, turns>>
      /\ plan' = plan /\ turns' = turns /\ found' = found /\ evaluations' = evaluations /\ summary' = summary
      /\ attempt' \in {attempt, 2} /\ (waits' = 0 \/ (waits' = waits + 1 /\ waits < MaxWaits))
  BY DEF AskedAgain, RateLimited, Calling, AtAnswer, Summarising, planVars
<1>2. IndexingOK' /\ AreasOK' /\ InterviewOK' /\ Asked' = Asked
  BY <1>1, ReportFrame
<1>3. \A x, k : EvaluationOK(x, k) => EvaluationOK(x, k)'
  BY <1>1, SameEvaluations
<1>4. EvaluationsOK'
  BY <1>1, <1>3 DEF IInv, ReportOK, EvaluationsOK, IsSequence
<1>5. SummaryOK'
  BY <1>1 DEF IInv, ReportOK, SummaryOK
<1>6. attempt' \in 1..2 /\ waits' \in 0..MaxWaits
  BY <1>1, ContentsAssumption DEF IInv, ReportOK
<1> QED
  BY <1>1, <1>2, <1>4, <1>5, <1>6 DEF IInv, ReportOK

-----------------------------------------------------------------------------

\* The repository is ingested again.
LEMMA Ingests ==
  ASSUME IInv, Pass \/ Again \/ UNCHANGED indexingVars, UNCHANGED <<areasVars, interviewVars>>
  PROVE  IInv'
<1>1. IndexingOK'
  BY IndexingStep DEF IInv
<1>2. AreasOK'
  BY AreasRest DEF IInv
<1>3. InterviewOK' /\ ReportOK'
  BY InterviewRests DEF IInv
<1> QED
  BY <1>1, <1>2, <1>3 DEF IInv

\* Every step keeps the invariant.
LEMMA Step == IInv /\ [Next]_vars => IInv'
<1> SUFFICES ASSUME IInv, [Next]_vars
             PROVE  IInv'
  OBVIOUS
<1>1. CASE IndexRepository
  BY <1>1, Ingests DEF IndexRepository
<1>2. CASE IngestAgain
  BY <1>2, Ingests DEF IngestAgain
<1>3. CASE UNCHANGED vars
  BY <1>3, Ingests DEF vars
<1>4. CASE BecomesReady \/ ListAreas \/ PickArea \/ AreasListed \/ Retrieve \/ WritePlan \/ HoldInterview
  BY <1>4, BecomesReadyOK, ListAreasOK, PickAreaOK, AreasListedOK, RetrieveOK, WritePlanOK, HoldInterviewOK
<1>5. CASE FetchChunks \/ NotAnswered \/ GradeTurn \/ WriteNotes \/ NothingGraded \/ AskedAgain \/ Unusable \/ RateLimited
  BY <1>5, FetchChunksOK, NotAnsweredOK, GradeTurnOK, EndsOK, UnusableOK, CallsOK
<1>6. CASE NothingToAsk \/ CallFails
  BY <1>6, FailsOK
<1> QED
  BY <1>1, <1>2, <1>3, <1>4, <1>5, <1>6 DEF Next

\* In every reachable state the index is as far as its pass is, the areas are
\* apart and leave nothing out, and plan, evaluations and summary are about them.
THEOREM Invariance == Spec => []IInv
BY Starts, Step, PTL DEF Spec

-----------------------------------------------------------------------------
(* Averages *)

\* A common factor can be taken out.
LEMMA Times ==
  ASSUME NEW n \in Nat \ {0}, NEW a \in Int, NEW b \in Int, n * a <= n * b
  PROVE  a <= b
<1> SUFFICES ASSUME b + 1 <= a
             PROVE  FALSE
  OBVIOUS
<1>1. PICK d \in Nat : a = b + 1 + d
  <2>1. a - b - 1 \in Nat /\ a = b + 1 + (a - b - 1)
    OBVIOUS
  <2> QED
    BY <2>1
<1>2. n * a = n * b + n + n * d
  BY <1>1
<1>3. n * d \in Nat /\ n * b \in Int /\ n > 0
  OBVIOUS
<1> QED
  BY <1>2, <1>3

\* A quotient and its remainder.
LEMMA Quotient ==
  ASSUME NEW a \in Nat, NEW n \in Nat \ {0}
  PROVE  \E q \in Nat, r \in 0..(n - 1) : q = a \div n /\ r = a % n /\ a = n * q + r
<1>1. a \div n \in Nat /\ a % n \in 0..(n - 1)
  OBVIOUS
<1>2. PICK q \in Int : q = a \div n
  BY <1>1
<1>3. PICK r \in Int : r = a % n
  BY <1>1
<1>4. a = n * q + r
  BY <1>2, <1>3
<1> QED
  BY <1>1, <1>2, <1>3, <1>4

\* An average that is rounded stays between two scores.
LEMMA RoundedIs ==
  ASSUME NEW n \in Nat \ {0}, NEW sum \in Nat, NEW lo \in 1..5, NEW hi \in 1..5, n * lo <= sum, sum <= n * hi
  PROVE  Rounded(sum, n) \in (10 * lo)..(10 * hi)
<1>9. 10 * sum \in Nat
  OBVIOUS
<1>1. PICK q \in Nat, r \in 0..(n - 1) : q = (10 * sum) \div n /\ r = (10 * sum) % n /\ 10 * sum = n * q + r
  BY <1>9, Quotient
<1>2. Rounded(sum, n) = IF 2 * r < n \/ (2 * r = n /\ q % 2 = 0) THEN q ELSE q + 1
  BY <1>1 DEF Rounded
<1>3. n * (10 * lo) <= 10 * sum /\ 10 * sum <= n * (10 * hi)
  <2>1. n * (10 * lo) = 10 * (n * lo) /\ n * (10 * hi) = 10 * (n * hi) /\ n * lo \in Nat /\ n * hi \in Nat
    OBVIOUS
  <2> QED
    BY <2>1
<1>4. 10 * lo <= q
  <2>1. n * q \in Nat /\ n * (q + 1) = n * q + n /\ n * (10 * lo) \in Nat
    BY <1>1
  <2>2. ASSUME ~(10 * lo <= q)
        PROVE  FALSE
    <3>1. q + 1 <= 10 * lo
      BY <1>1, <2>2
    <3>2. PICK d \in Nat : 10 * lo = q + 1 + d
      <4>1. 10 * lo - q - 1 \in Nat /\ 10 * lo = q + 1 + (10 * lo - q - 1)
        BY <1>1, <3>1
      <4> QED
        BY <4>1
    <3>3. n * (10 * lo) = n * (q + 1) + n * d /\ n * d \in Nat
      BY <1>1, <3>2
    <3> QED
      BY <1>1, <1>3, <2>1, <3>3
  <2> QED
    BY <2>2
<1>5. q <= 10 * hi
  <2>1. n * q <= n * (10 * hi)
    <3>1. n * q \in Nat /\ n * (10 * hi) \in Nat
      BY <1>1
    <3> QED
      BY <1>1, <1>3, <3>1
  <2> QED
    BY <1>1, <2>1, Times
<1>6. q = 10 * hi => r = 0
  <2>1. n * q \in Nat
    BY <1>1
  <2> QED
    BY <1>1, <1>3, <2>1
<1>7. CASE r = 0
  BY <1>1, <1>2, <1>4, <1>5, <1>7
<1>8. CASE r # 0
  BY <1>1, <1>2, <1>4, <1>5, <1>6, <1>8
<1> QED
  BY <1>7, <1>8

\* A total lies between the number of scores times the least and the greatest.
LEMMA TotalIs ==
  ASSUME NEW some, IsFiniteSet(some), NEW scores, DOMAIN scores = some, NEW lo \in Nat, NEW hi \in Nat,
         \A k \in some : scores[k] \in lo..hi
  PROVE  Cardinality(some) * lo <= Total(scores) /\ Total(scores) <= Cardinality(some) * hi /\ Total(scores) \in Nat
<1> DEFINE All == UNION {{k} \X (1..scores[k]) : k \in some}
<1>1. IsFiniteSet(1..lo) /\ Cardinality(1..lo) = lo
  BY FS_Interval
<1>2. IsFiniteSet(1..hi) /\ Cardinality(1..hi) = hi
  BY FS_Interval
<1>3. IsFiniteSet(some \X (1..lo)) /\ Cardinality(some \X (1..lo)) = Cardinality(some) * lo
  BY <1>1, FS_Product
<1>4. IsFiniteSet(some \X (1..hi)) /\ Cardinality(some \X (1..hi)) = Cardinality(some) * hi
  BY <1>2, FS_Product
<1>5. \A k \in some : 1..lo \subseteq 1..scores[k] /\ 1..scores[k] \subseteq 1..hi
  OBVIOUS
<1>6. some \X (1..lo) \in SUBSET All
  BY <1>5
<1>7. All \in SUBSET (some \X (1..hi))
  BY <1>5
<1>8. Total(scores) = Cardinality(All)
  BY DEF Total
<1> HIDE DEF All
<1>9. IsFiniteSet(All) /\ Cardinality(All) <= Cardinality(some \X (1..hi))
  BY <1>4, <1>7, FS_Subset
<1>10. Cardinality(some \X (1..lo)) <= Cardinality(All)
  BY <1>6, <1>9, FS_Subset
<1>11. Cardinality(All) \in Nat
  BY <1>9, FS_CardinalityType
<1> QED
  BY <1>3, <1>4, <1>8, <1>9, <1>10, <1>11

\* So an average lies between these.
LEMMA AverageIs ==
  ASSUME NEW some, IsFiniteSet(some), some # {}, NEW scores, DOMAIN scores = some,
         NEW lo \in 1..5, NEW hi \in 1..5, \A k \in some : scores[k] \in lo..hi
  PROVE  Average(scores) \in (10 * lo)..(10 * hi)
<1>1. Cardinality(some) \in Nat \ {0}
  BY FS_CardinalityType, FS_EmptySet
<1>2. Cardinality(some) * lo <= Total(scores) /\ Total(scores) <= Cardinality(some) * hi /\ Total(scores) \in Nat
  BY TotalIs
<1>3. Average(scores) = Rounded(Total(scores), Cardinality(some))
  BY DEF Average
<1> QED
  BY <1>1, <1>2, <1>3, RoundedIs

-----------------------------------------------------------------------------
(* The report's numbers *)

ScoreOf(k) == evaluations[k].grade.score

\* Graded turns were answered and have a score.
LEMMA GradedIs ==
  ASSUME IInv
  PROVE  /\ IsFiniteSet(Graded) /\ Graded \subseteq 1..turns.answered
         /\ \A k \in Graded : ScoreOf(k) \in 1..5 /\ evaluations[k].sources \subseteq Shown(k)
<1>1. Len(evaluations) \in Nat /\ DOMAIN evaluations = 1..Len(evaluations) /\ turns.answered \in Nat
  BY TurnIs, TurnsAre DEF IInv
<1>2. IsFiniteSet(1..Len(evaluations))
  BY <1>1, FS_Interval
<1>3. Graded \in SUBSET (1..Len(evaluations))
  BY <1>1 DEF Graded
<1>4. ASSUME NEW k \in Graded
      PROVE  k \in 1..turns.answered /\ ScoreOf(k) \in 1..5 /\ evaluations[k].sources \subseteq Shown(k)
  <2>1. EvaluationOK(evaluations[k], k) /\ evaluations[k].status = "graded" /\ k \in 1..Len(evaluations)
    BY <1>1 DEF IInv, ReportOK, EvaluationsOK, Graded
  <2>2. ~(k > turns.answered) /\ ScoreOf(k) \in Scores /\ evaluations[k].sources \subseteq Shown(k)
    BY <2>1 DEF EvaluationOK, ScoreOf
  <2>3. k \in 1..turns.answered
    BY <1>1, <2>1, <2>2
  <2> QED
    BY <2>2, <2>3, ContentsAssumption
<1>5. IsFiniteSet(Graded)
  BY <1>2, <1>3, FS_Subset
<1> QED
  BY <1>4, <1>5

\* The average of the graded turns.
LEMMA NumbersAre ==
  ASSUME IInv
  PROVE  LET scores == {ScoreOf(k) : k \in Graded}
         IN  IF Graded = {} THEN AverageOfGraded = -1
             ELSE /\ Min(scores) \in 1..5 /\ Max(scores) \in 1..5
                  /\ AverageOfGraded \in (10 * Min(scores))..(10 * Max(scores))
<1> DEFINE scores == {ScoreOf(k) : k \in Graded}
           score == [k \in Graded |-> ScoreOf(k)]
<1>1. AverageOfGraded = Average(score) /\ DOMAIN score = Graded
  BY DEF AverageOfGraded, AverageOf, ScoreOf
<1>2. CASE Graded = {}
  <2>1. Average(score) = -1
    BY <1>2 DEF Average
  <2> QED
    BY <1>1, <1>2, <2>1
<1>3. CASE Graded # {}
  <2>1. score \in Surjection(Graded, scores)
    BY DEF Surjection
  <2>2. IsFiniteSet(scores)
    BY <2>1, GradedIs, FS_Surjection
  <2>3. scores \in SUBSET (1..5) /\ scores # {}
    BY <1>3, GradedIs
  <2>4. scores \in SUBSET Nat
    BY <2>3
  <2>5. \A k \in Graded : score[k] \in scores
    OBVIOUS
  <2> HIDE DEF scores, score
  <2>6. Min(scores) \in scores /\ \A x \in scores : Min(scores) <= x
    BY <2>2, <2>3, <2>4, MinIs
  <2>7. Max(scores) \in scores /\ \A x \in scores : x <= Max(scores)
    BY <2>2, <2>3, <2>4, MaxIs
  <2>8. Min(scores) \in 1..5 /\ Max(scores) \in 1..5
    BY <2>3, <2>6, <2>7
  <2>9. \A k \in Graded : score[k] \in Min(scores)..Max(scores)
    <3>1. PICK lo \in 1..5, hi \in 1..5 : lo = Min(scores) /\ hi = Max(scores)
      BY <2>8
    <3>2. \A k \in Graded : score[k] \in 1..5 /\ lo <= score[k] /\ score[k] <= hi
      BY <2>3, <2>5, <2>6, <2>7, <3>1
    <3>3. \A k \in Graded : score[k] \in lo..hi
      BY <3>2
    <3> QED
      BY <3>1, <3>3
  <2>10. Average(score) \in (10 * Min(scores))..(10 * Max(scores))
    BY <1>1, <1>3, <2>8, <2>9, GradedIs, AverageIs
  <2> QED
    BY <1>1, <1>3, <2>8, <2>10 DEF scores
<1> QED
  BY <1>2, <1>3

\* An average, or none.
LEMMA AverageTyped == ASSUME IInv PROVE summary.average \in {-1} \cup 10..50
<1>1. CASE pc = "done"
  <2>1. summary.average = AverageOfGraded
    BY <1>1 DEF IInv, ReportOK, SummaryOK, Summary
  <2>2. CASE Graded = {}
    BY <2>1, <2>2, NumbersAre
  <2>3. CASE Graded # {}
    <3>1. PICK lo \in 1..5, hi \in 1..5 : AverageOfGraded \in (10 * lo)..(10 * hi)
      BY <2>3, NumbersAre
    <3> QED
      BY <2>1, <3>1
  <2> QED
    BY <2>2, <2>3
<1>2. CASE pc # "done"
  BY <1>2 DEF IInv, ReportOK, SummaryOK, NoSummary
<1> QED
  BY <1>1, <1>2

\* The type invariant follows.
LEMMA Typed == IInv => TypeOK
<1> SUFFICES ASSUME IInv
             PROVE  TypeOK
  OBVIOUS
<1>1. IndexingTypeOK /\ AreasTypeOK
  BY IndexingTyped, AreasTyped DEF IInv
<1>2. \A k \in DOMAIN plan : \E i \in DOMAIN contexts : plan[k] = contexts[i]
  BY PlanIs DEF IInv, WithCode
<1>3. /\ DOMAIN contexts \subseteq DOMAIN areas
      /\ \A i \in DOMAIN contexts : contexts[i].area = areas[i].path
  BY DEF IInv, InterviewOK, ContextsOK
<1>4. turns.answered \in {turns.asked, turns.asked - 1} \cap Nat /\ turns.asked \in 0..Len(plan)
  BY DEF IInv, InterviewOK, TurnsOK
<1>5. /\ found \subseteq UNION {plan[k].chunks : k \in DOMAIN plan} /\ Len(evaluations) <= turns.asked
      /\ attempt \in 1..2 /\ waits \in 0..MaxWaits
  BY DEF IInv, ReportOK, EvaluationsOK, Asked
<1>6. ASSUME NEW k \in DOMAIN evaluations
      PROVE  /\ evaluations[k].status \in {"graded", "not_graded", "not_answered"}
             /\ evaluations[k].grade.score \in Scores \cup {0}
             /\ DOMAIN evaluations[k].grade.points \subseteq 1..MaxPoints
  <2>1. EvaluationOK(evaluations[k], k)
    BY DEF IInv, ReportOK, EvaluationsOK
  <2> QED
    BY <2>1 DEF EvaluationOK
<1>7. pc \in {"index", "list", "retrieve", "write", "interview", "fetch", "grade", "done", "failed"}
  BY DEF IInv, InterviewOK
<1> QED
  BY <1>1, <1>2, <1>3, <1>4, <1>5, <1>6, <1>7, AverageTyped DEF TypeOK

-----------------------------------------------------------------------------
(* Questions *)

\* A chunk that two areas have in common makes one path begin with the other.
LEMMA ContextsApart ==
  ASSUME IInv, NEW i \in DOMAIN contexts, NEW j \in DOMAIN contexts, i # j, IsDirectory(contexts[i].area)
  PROVE  contexts[i].chunks \cap contexts[j].chunks = {}
<1>1. /\ i \in DOMAIN areas /\ j \in DOMAIN areas
      /\ contexts[i].area = areas[i].path /\ contexts[j].area = areas[j].path
      /\ \A id \in contexts[i].chunks : IsPrefix(areas[i].path, File(id)) /\ File(id) \in Filenames
      /\ \A id \in contexts[j].chunks : IsPrefix(areas[j].path, File(id))
  BY DEF IInv, InterviewOK, ContextsOK
<1>2. areas \in Seq(candidates) /\ areas[i] # areas[j]
  BY <1>1 DEF IInv, AreasOK, KeptOK
<1>3. areas[i] \in candidates /\ areas[j] \in candidates
  <2>1. areas \in [1..Len(areas) -> candidates]
    BY <1>2, LenProperties
  <2> QED
    BY <1>1, <2>1
<1>4. Apart(areas[i], areas[j]) /\ areas[i].path \in Path /\ areas[j].path \in Path
  BY <1>2, <1>3 DEF IInv, AreasOK, CandidatesOK, Node
<1>5. ~IsPrefix(areas[i].path, areas[j].path) /\ ~IsPrefix(areas[j].path, areas[i].path)
  BY <1>1, <1>4 DEF Apart
<1>6. ASSUME NEW id \in contexts[i].chunks \cap contexts[j].chunks
      PROVE  FALSE
  <2>1. IsPrefix(areas[i].path, File(id)) /\ IsPrefix(areas[j].path, File(id)) /\ File(id) \in Path
    BY <1>1 DEF Filenames, Path
  <2> QED
    BY <1>4, <1>5, <2>1, PrefixesCompare
<1> QED
  BY <1>6

\* What the plan asks about.
LEMMA Questions == IInv => QuestionsAreApart
<1> SUFFICES ASSUME IInv, NEW k \in DOMAIN plan
             PROVE  /\ plan[k].chunks # {} /\ \A id \in plan[k].chunks : IsPrefix(plan[k].area, File(id))
                    /\ IsDirectory(plan[k].area) =>
                         \A j \in DOMAIN plan \ {k} : plan[j].chunks \cap plan[k].chunks = {}
  BY DEF QuestionsAreApart
<1>1. PICK order \in Orders : plan = Planned(order)
  <2>1. plan # <<>>
    OBVIOUS
  <2> QED
    BY <2>1 DEF IInv, InterviewOK, PlanOK
<1> DEFINE at(j) == Numbered(order[j])
<1>2. /\ \A j \in DOMAIN plan : at(j) \in WithCode /\ plan[j] = contexts[at(j)]
      /\ \A j, l \in DOMAIN plan : at(j) = at(l) => j = l
  <2>1. AreasOK /\ ContextsOK
    BY DEF IInv, InterviewOK
  <2> QED
    BY <1>1, <2>1, PlannedIs
<1> HIDE DEF at
<1>3. at(k) \in DOMAIN contexts /\ contexts[at(k)].chunks # {} /\ plan[k] = contexts[at(k)]
  BY <1>2 DEF WithCode
<1>4. \A id \in plan[k].chunks : IsPrefix(plan[k].area, File(id))
  BY <1>3 DEF IInv, InterviewOK, ContextsOK
<1>5. ASSUME IsDirectory(plan[k].area), NEW j \in DOMAIN plan \ {k}
      PROVE  plan[j].chunks \cap plan[k].chunks = {}
  <2>1. at(j) \in DOMAIN contexts /\ plan[j] = contexts[at(j)] /\ at(k) # at(j)
    BY <1>2 DEF WithCode
  <2>2. contexts[at(k)].chunks \cap contexts[at(j)].chunks = {}
    BY <1>3, <1>5, <2>1, ContextsApart
  <2> QED
    BY <1>3, <2>1, <2>2
<1> QED
  BY <1>3, <1>4, <1>5

-----------------------------------------------------------------------------
(* The report *)

\* What a grade cites.
LEMMA Cited == IInv => CitesWhatItShows
<1> SUFFICES ASSUME IInv, NEW k \in DOMAIN evaluations
             PROVE  LET grade == evaluations[k].grade
                        still == plan[k].chunks \cap found
                    IN  /\ \A p \in DOMAIN grade.points : grade.points[p] # {} /\ grade.points[p] \subseteq still
                        /\ grade.evidence \subseteq still
                        /\ grade.names \subseteq FilesOf(still) \cup {TheCode}
  BY DEF CitesWhatItShows
<1>1. EvaluationOK(evaluations[k], k)
  BY DEF IInv, ReportOK, EvaluationsOK
<1> QED
  BY <1>1 DEF EvaluationOK, Shown, Sources

\* What the notes say to revisit.
LEMMA Revisited == IInv => RevisitsGradedCode
<1> SUFFICES ASSUME IInv, NEW f \in summary.files
             PROVE  \E k \in 1..turns.answered : evaluations[k].status = "graded" /\ f \in FilesOf(plan[k].chunks)
  BY DEF RevisitsGradedCode
<1>1. f \in Known
  <2>1. pc = "done"
    BY DEF IInv, ReportOK, SummaryOK, NoSummary
  <2>2. PICK files \in SUBSET Known : summary = Summary(files)
    BY <2>1 DEF IInv, ReportOK, SummaryOK
  <2>3. summary.files = files
    BY <2>2 DEF Summary
  <2> QED
    BY <2>2, <2>3
<1>2. PICK k \in Graded : f \in FilesOf(evaluations[k].sources)
  BY <1>1 DEF Known, FilesOf
<1>3. k \in 1..turns.answered /\ evaluations[k].sources \subseteq plan[k].chunks
  BY GradedIs DEF Shown, Sources
<1>4. f \in FilesOf(plan[k].chunks)
  BY <1>2, <1>3 DEF FilesOf
<1> QED
  BY <1>3, <1>4 DEF Graded

\* What the numbers are.
LEMMA Scored == IInv => ScoresAreOfGraded
<1> SUFFICES ASSUME IInv, pc = "done"
             PROVE  LET scores == {evaluations[k].grade.score : k \in {j \in 1..turns.answered : evaluations[j].status = "graded"}}
                    IN  /\ summary.asked = turns.asked /\ summary.answered = turns.answered
                        /\ summary.graded <= summary.answered
                        /\ IF scores = {} THEN summary.average = -1
                           ELSE 10 * Min(scores) <= summary.average /\ summary.average <= 10 * Max(scores)
  BY DEF ScoresAreOfGraded
<1>1. Len(evaluations) = turns.asked /\ \E files : summary = Summary(files)
  BY DEF IInv, ReportOK, SummaryOK
<1>2. /\ summary.asked = Len(evaluations) /\ summary.answered = Cardinality(Answered)
      /\ summary.graded = Cardinality(Graded) /\ summary.average = AverageOfGraded
  BY <1>1 DEF Summary
<1>3. /\ DOMAIN evaluations = 1..turns.asked /\ turns.asked \in Nat /\ turns.answered \in Nat
      /\ turns.answered <= turns.asked
  BY <1>1, TurnIs, TurnsAre DEF IInv
<1>4. 1..turns.answered \subseteq DOMAIN evaluations
  BY <1>3
<1>5. Graded = {j \in 1..turns.answered : evaluations[j].status = "graded"}
  BY <1>4, GradedIs DEF Graded
<1>6. Answered = 1..turns.answered
  <2>1. ASSUME NEW k \in DOMAIN evaluations
        PROVE  evaluations[k].status # "not_answered" <=> k \in 1..turns.answered
    <3>1. EvaluationOK(evaluations[k], k) /\ k \in 1..turns.asked
      BY <1>3 DEF IInv, ReportOK, EvaluationsOK
    <3>2. evaluations[k].status = "not_answered" <=> k > turns.answered
      BY <3>1 DEF EvaluationOK
    <3> QED
      BY <1>3, <3>1, <3>2
  <2> QED
    BY <1>4, <2>1 DEF Answered
<1>7. Cardinality(1..turns.answered) = turns.answered /\ IsFiniteSet(1..turns.answered)
  <2>1. PICK n \in Nat : n = turns.answered
    BY <1>3
  <2>2. IsFiniteSet(1..n) /\ Cardinality(1..n) = n
    BY FS_Interval
  <2> QED
    BY <2>1, <2>2
<1>8. Cardinality(Graded) <= Cardinality(1..turns.answered)
  BY <1>7, GradedIs, FS_Subset
<1> DEFINE scores == {ScoreOf(k) : k \in Graded}
<1>9. IF scores = {} THEN AverageOfGraded = -1
      ELSE 10 * Min(scores) <= AverageOfGraded /\ AverageOfGraded <= 10 * Max(scores)
  <2>1. CASE Graded = {}
    BY <2>1, NumbersAre
  <2>2. CASE Graded # {}
    <3>1. scores # {}
      BY <2>2
    <3>2. /\ Min(scores) \in 1..5 /\ Max(scores) \in 1..5
          /\ AverageOfGraded \in (10 * Min(scores))..(10 * Max(scores))
      BY <2>2, NumbersAre
    <3> HIDE DEF scores
    <3> QED
      BY <3>1, <3>2
  <2> QED
    BY <2>1, <2>2
<1>10. scores = {evaluations[k].grade.score : k \in {j \in 1..turns.answered : evaluations[j].status = "graded"}}
  BY <1>5 DEF ScoreOf
<1> HIDE DEF scores
<1>11. summary.asked = turns.asked /\ summary.answered = turns.answered /\ summary.graded <= summary.answered
  BY <1>1, <1>2, <1>6, <1>7, <1>8
<1> QED
  BY <1>2, <1>9, <1>10, <1>11

-----------------------------------------------------------------------------
(* The theorems *)

\* Every variable keeps its type; the areas of contexts and plan are those picked.
THEOREM TypeCorrect == Spec => []TypeOK
BY Invariance, Typed, PTL

\* A ready repository has exactly the rows of its source, one for each chunk,
\* however many passes failed half way and whatever commits they were of; they
\* are within the limit if no file was counted otherwise than it was read; a
\* neighbour loses none (flow.py, runner.py).
THEOREM IndexIsRight == Spec => []IndexIsTheSource
<1>1. IInv => IndexIsTheSource
  BY IndexIs DEF IInv
<1> QED
  BY <1>1, Invariance, PTL

\* No step of an ingestion takes out a chunk that the source still has.
THEOREM UnchangedIsKept == Spec => KeepsUnchanged
<1>1. IInv /\ [Next]_vars => [Rows \cap Source' \subseteq Rows']_indexingVars
  <2> SUFFICES ASSUME IInv, [Next]_vars, ~ UNCHANGED indexingVars
               PROVE  Rows \cap Source' \subseteq Rows'
    OBVIOUS
  <2>1. Pass \/ Again \/ UNCHANGED indexingVars
    BY DEF Next, vars, IndexRepository, IngestAgain, BecomesReady, ListAreas, PickArea, AreasListed, Retrieve,
           WritePlan, NothingToAsk, HoldInterview, FetchChunks, NotAnswered, GradeTurn, Evaluate, WriteNotes,
           NothingGraded, Summarise, AskedAgain, Unusable, RateLimited, CallFails
  <2> QED
    BY <2>1, KeepsRows DEF IInv
<1> QED
  BY <1>1, Invariance, PTL DEF Spec, KeepsUnchanged

\* pick_areas stops at the limit, or when every file that counts is an area's own.
THEOREM AreasFillTheLimit == Spec => []FillsTheLimit
<1>1. IInv => FillsTheLimit
  BY AreasFill DEF IInv
<1> QED
  BY <1>1, Invariance, PTL

\* The areas picked do not overlap, and below the limit every file that counts
\* is in one.
THEOREM AreasCoverTheCode == Spec => []CoversTheCode
<1>1. IInv => CoversTheCode
  BY AreasCover DEF IInv
<1> QED
  BY <1>1, Invariance, PTL

\* A question is about its area, and a directory's shares no chunk with another.
THEOREM QuestionsApart == Spec => []QuestionsAreApart
BY Invariance, Questions, PTL

\* A grade cites chunks of its own question that the report could still fetch
\* (grading/grader.py).
THEOREM Citations == Spec => []CitesWhatItShows
BY Invariance, Cited, PTL

\* The files to revisit are of questions that were answered and graded (report.py).
THEOREM FilesToRevisit == Spec => []RevisitsGradedCode
BY Invariance, Revisited, PTL

\* The average lies between the least and the greatest score of the graded turns,
\* for any scores and any number of turns.
THEOREM ScoresRight == Spec => []ScoresAreOfGraded
BY Invariance, Scored, PTL
=============================================================================
