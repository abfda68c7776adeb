---------------------- MODULE RequirementsBindingProofs ----------------------
(***************************************************************************)
(* What holds of the approval of requirements for any Issues, revisions,   *)
(* limits and budget, whoever edits what.  An inductive invariant says     *)
(* what the Runner knows after each of its checks; that the fingerprint    *)
(* depends on nothing people did not ask for, and that a budget costs as   *)
(* little as it can, follows from lemmas about the projection.             *)
(***************************************************************************)
EXTENDS RequirementsBinding, FiniteSetTheorems, SequenceTheorems, WellFoundedInduction, TLAPS

-----------------------------------------------------------------------------
(***************************************************************************)
(* Sorted, First and Newest.                                               *)
(***************************************************************************)

\* A set of naturals has a least element,
LEMMA LeastExists ==
    ASSUME NEW T \in SUBSET Nat, T # {}
    PROVE  \E x \in T : \A y \in T : x <= y
<1> DEFINE Less == OpToRel(<, Nat)
<1>1. \A x, y \in Nat : <<x, y>> \in Less <=> x < y
  BY DEF OpToRel
<1> HIDE DEF Less
<1>2. IsWellFoundedOn(Less, Nat)
  BY NatLessThanWellFounded DEF Less
<1>3. PICK x \in T : \A y \in T : <<y, x>> \notin Less
  BY <1>2, WFMin
<1>4. \A y \in T : ~(y < x)
  BY <1>1, <1>3, Zenon
<1> QED
  BY <1>4

\* so a set that holds zero and every successor of its elements is all of them.
LEMMA NatInductionOnSets ==
    ASSUME NEW S, 0 \in S, \A n \in Nat : n \in S => n + 1 \in S
    PROVE  \A n \in Nat : n \in S
<1> SUFFICES ASSUME Nat \ S # {} PROVE FALSE
  OBVIOUS
<1>1. PICK x \in Nat \ S : \A y \in Nat \ S : x <= y
  BY LeastExists
<1>2. x - 1 \in Nat /\ (x - 1) + 1 = x
  BY <1>1
<1>3. x - 1 \in S
  BY <1>1, <1>2
<1> QED
  BY <1>1, <1>2, <1>3

\* A finite set of naturals has an element with n - 1 before it, for n up to its size.
LEMMA Ranks ==
    ASSUME NEW S \in SUBSET Nat, IsFiniteSet(S)
    PROVE  \A n \in 1..Cardinality(S) : \E x \in S : Cardinality({y \in S : y < x}) = n - 1
<1> DEFINE Below(x) == {y \in S : y < x}
           Ranked == {n \in Nat : n + 1 <= Cardinality(S) => \E x \in S : Cardinality(Below(x)) = n}
<1>1. Cardinality(S) \in Nat
  BY FS_CardinalityType
<1>2. 0 \in Ranked
  <2> SUFFICES ASSUME 1 <= Cardinality(S) PROVE \E x \in S : Cardinality(Below(x)) = 0
    OBVIOUS
  <2>1. S # {}
    BY FS_EmptySet, <1>1
  <2>2. PICK x \in S : \A y \in S : x <= y
    BY <2>1, LeastExists
  <2>3. Below(x) = {}
    <3>1. \A y \in S : ~(y < x)
      BY <2>2
    <3> QED  BY <3>1
  <2> QED
    BY <2>3, FS_EmptySet
<1>3. ASSUME NEW n \in Nat, n \in Ranked PROVE n + 1 \in Ranked
  <2> SUFFICES ASSUME n + 2 <= Cardinality(S)
               PROVE  \E x \in S : Cardinality(Below(x)) = n + 1
    OBVIOUS
  <2>1. PICK x \in S : Cardinality(Below(x)) = n
    BY <1>1, <1>3
  <2> DEFINE upto == Below(x) \cup {x}
             rest == S \ upto
  <2>2. IsFiniteSet(Below(x)) /\ x \notin Below(x)
    BY FS_Subset
  <2>3. IsFiniteSet(upto) /\ Cardinality(upto) = n + 1
    BY <2>1, <2>2, FS_AddElement
  <2>4. rest # {}
    <3>1. upto # S
      BY <1>1, <2>3
    <3> QED  BY <3>1
  <2>5. PICK z \in rest : \A y \in rest : z <= y
    BY <2>4, LeastExists
  <2>6. Below(z) = upto
    <3>1. ASSUME NEW y \in S PROVE y < z <=> y \in upto
      <4>1. z \in Nat /\ ~(z < x) /\ z # x
        BY <2>5
      <4>2. y \in upto <=> y <= x
        OBVIOUS
      <4>3. y \notin upto => z <= y
        BY <2>5
      <4> HIDE DEF upto
      <4> QED  BY <4>1, <4>2, <4>3
    <3>2. upto \subseteq S
      OBVIOUS
    <3> HIDE DEF upto
    <3> QED  BY <3>1, <3>2
  <2> QED
    BY <2>3, <2>5, <2>6
<1> HIDE DEF Ranked
<1>4. \A n \in Nat : n \in Ranked
  BY <1>2, <1>3, NatInductionOnSets
<1>5. ASSUME NEW n \in 1..Cardinality(S) PROVE \E x \in S : Cardinality({y \in S : y < x}) = n - 1
  <2>1. n - 1 \in Nat /\ (n - 1) + 1 <= Cardinality(S)
    BY <1>1
  <2>2. n - 1 \in Ranked
    BY <1>4, <2>1
  <2> QED
    BY <2>1, <2>2 DEF Ranked
<1> QED
  BY <1>5

\* Sorting a finite set of naturals lists its elements.
LEMMA SortedLists ==
    ASSUME NEW S \in SUBSET Nat, IsFiniteSet(S)
    PROVE  /\ Cardinality(S) \in Nat
           /\ Sorted(S) \in [1..Cardinality(S) -> S]
           /\ Sorted(S) \in Seq(S) /\ Len(Sorted(S)) = Cardinality(S)
<1>1. Cardinality(S) \in Nat
  BY FS_CardinalityType
<1>2. ASSUME NEW n \in 1..Cardinality(S)
      PROVE  (CHOOSE x \in S : Cardinality({y \in S : y < x}) = n - 1) \in S
  BY Ranks
<1>3. Sorted(S) \in [1..Cardinality(S) -> S]
  BY <1>2 DEF Sorted
<1> QED
  BY <1>1, <1>3

\* The larger and the smaller of two numbers.
LEMMA OfTwo ==
    ASSUME NEW a \in Int, NEW b \in Int
    PROVE  /\ Max({a, b}) = IF a >= b THEN a ELSE b
           /\ Min({a, b}) = IF a <= b THEN a ELSE b
<1>1. Max({a, b}) \in {a, b} /\ \A y \in {a, b} : Max({a, b}) >= y
  <2>1. \E x \in {a, b} : \A y \in {a, b} : x >= y
    OBVIOUS
  <2> QED  BY <2>1 DEF Max
<1>2. Min({a, b}) \in {a, b} /\ \A y \in {a, b} : Min({a, b}) <= y
  <2>1. \E x \in {a, b} : \A y \in {a, b} : x <= y
    OBVIOUS
  <2> QED  BY <2>1 DEF Min
<1> QED
  BY <1>1, <1>2

\* The first and the newest are sequences.
LEMMA FirstAndNewest ==
    ASSUME NEW X, NEW s \in Seq(X), NEW n \in Nat
    PROVE  /\ First(s, n) \in Seq(X)
           /\ Newest(s, n) \in Seq(X)
           /\ Newest(s, n) = SubSeq(s, (IF Len(s) >= n THEN Len(s) - n ELSE 0) + 1, Len(s))
<1>1. Len(s) \in Nat /\ Len(s) - n \in Int
  OBVIOUS
<1>2. Max({0, Len(s) - n}) = IF Len(s) >= n THEN Len(s) - n ELSE 0
  BY <1>1, OfTwo
<1>3. Min({n, Len(s)}) \in 0..Len(s)
  <2> DEFINE l == Len(s)
  <2>1. l \in Int /\ n \in Int
    BY <1>1
  <2> HIDE DEF l
  <2>2. Min({n, l}) = IF n <= l THEN n ELSE l
    BY <2>1, OfTwo
  <2>3. Min({n, Len(s)}) = IF n <= Len(s) THEN n ELSE Len(s)
    BY <2>2 DEF l
  <2> QED  BY <1>1, <2>3
<1>4. First(s, n) \in Seq(X)
  <2>1. \A k \in 0..Len(s) : SubSeq(s, 1, k) \in Seq(X)
    OBVIOUS
  <2> QED  BY <1>3, <2>1 DEF First
<1>5. Newest(s, n) \in Seq(X)
  <2>1. \A k \in 1..Len(s) + 1 : SubSeq(s, k, Len(s)) \in Seq(X)
    OBVIOUS
  <2>2. Max({0, Len(s) - n}) + 1 \in 1..Len(s) + 1
    BY <1>1, <1>2
  <2> QED  BY <2>1, <2>2 DEF Newest
<1> QED
  BY <1>2, <1>4, <1>5 DEF Newest

\* A function on 1..n is a sequence.
LEMMA IsSequence ==
    ASSUME NEW n \in Nat, NEW f, f = [k \in 1..n |-> f[k]]
    PROVE  f \in Seq({f[k] : k \in 1..n}) /\ Len(f) = n /\ DOMAIN f = 1..n
<1> DEFINE R == {f[k] : k \in 1..n}
<1>1. \A k \in 1..n : f[k] \in R
  OBVIOUS
<1> HIDE DEF R
<1>2. f \in [1..n -> R]
  BY <1>1
<1> QED  BY <1>2 DEF R

-----------------------------------------------------------------------------
(***************************************************************************)
(* Issues that ask for the same have the same projection.                  *)
(***************************************************************************)

\* What is read of a text is read of it without the space around it.
LEMMA SameText ==
    ASSUME NEW t, NEW u, Normalized(t) = Normalized(u)
    PROVE  /\ Sanitized(t) = Sanitized(u) /\ Bounded(t) = Bounded(u)
           /\ \A path : Marks(path, t) = Marks(path, u)
<1>1. Sanitized(t) = Sanitized(u)
  BY DEF Sanitized
<1>2. Bounded(t) = Bounded(u)
  BY <1>1 DEF Bounded
<1> QED
  BY <1>1, <1>2, Zenon DEF Marks

\* The journals that have notes are a sequence of texts.
LEMMA NotesAreText ==
    ASSUME NEW journals \in Seq(Text)
    PROVE  /\ Notes(journals) \in Seq(Text)
           /\ SelectedNotes(journals) \in Seq(Text)
<1> DEFINE noted == {k \in DOMAIN journals : Normalized(journals[k]) # <<>>}
<1>1. noted \subseteq 1..Len(journals) /\ Len(journals) \in Nat
  OBVIOUS
<1>2. IsFiniteSet(noted) /\ noted \in SUBSET Nat
  <2>1. IsFiniteSet(1..Len(journals))
    BY <1>1, FS_Interval
  <2> HIDE DEF noted
  <2>2. noted \in SUBSET (1..Len(journals)) /\ noted \in SUBSET Nat
    BY <1>1
  <2> QED  BY <2>1, <2>2, FS_Subset
<1> HIDE DEF noted
<1>3. Cardinality(noted) \in Nat /\ Sorted(noted) \in [1..Cardinality(noted) -> noted]
  BY <1>2, SortedLists
<1>4. \A n \in 1..Cardinality(noted) : journals[Sorted(noted)[n]] \in Text
  <2> SUFFICES ASSUME NEW n \in 1..Cardinality(noted) PROVE journals[Sorted(noted)[n]] \in Text
    OBVIOUS
  <2>1. Sorted(noted)[n] \in 1..Len(journals)
    BY <1>1, <1>3
  <2> QED  BY <2>1
<1>5. Notes(journals) = [n \in 1..Cardinality(noted) |-> journals[Sorted(noted)[n]]]
  BY DEF Notes, noted
<1>6. Notes(journals) \in Seq(Text)
  BY <1>3, <1>4, <1>5
<1>7. MaxJournals \in Nat
  BY LimitsAreNatural
<1> QED
  BY <1>6, <1>7, FirstAndNewest DEF SelectedNotes

\* What the projection selects.
FieldsOf(i)   == Sorted({f \in Fields : Bounded(i.fields[f]) # <<>>})
ChildrenOf(i) ==
    First(Sorted({c \in Children : Normalized(i.children[c]) # <<>>}), MaxChildren)

\* They are sequences of the ids and texts they are selected from.
LEMMA SelectedAre ==
    ASSUME NEW i \in Issues
    PROVE  /\ FieldsOf(i) \in Seq(Fields) /\ ChildrenOf(i) \in Seq(Children)
           /\ SelectedNotes(i.journals) \in Seq(Text)
           /\ First(Sorted(i.relations), MaxRelations) \in Seq(Related)
<1>1. ASSUME NEW S, S \in {Fields, Related, Children}, NEW T \in SUBSET S
      PROVE  Sorted(T) \in Seq(S)
  <2>1. T \in SUBSET Nat /\ IsFiniteSet(T)
    BY <1>1, IdsAreFinite, FS_Subset
  <2>2. Sorted(T) \in Seq(T)
    BY <2>1, SortedLists
  <2> QED  BY <2>2
<1>2. FieldsOf(i) \in Seq(Fields)
  <2>1. {f \in Fields : Bounded(i.fields[f]) # <<>>} \in SUBSET Fields
    OBVIOUS
  <2> QED  BY <1>1, <2>1 DEF FieldsOf
<1>3. ChildrenOf(i) \in Seq(Children)
  <2> DEFINE T == {c \in Children : Normalized(i.children[c]) # <<>>}
  <2>1. T \in SUBSET Children
    OBVIOUS
  <2> HIDE DEF T
  <2>2. Sorted(T) \in Seq(Children) /\ MaxChildren \in Nat
    BY <1>1, <2>1, LimitsAreNatural
  <2> QED  BY <2>2, FirstAndNewest DEF ChildrenOf, T
<1>4. SelectedNotes(i.journals) \in Seq(Text)
  <2>1. i.journals \in Seq(Text)
    BY DEF Issues
  <2> QED  BY <2>1, NotesAreText
<1>5. First(Sorted(i.relations), MaxRelations) \in Seq(Related)
  <2>1. i.relations \in SUBSET Related
    BY DEF Issues
  <2>2. Sorted(i.relations) \in Seq(Related) /\ MaxRelations \in Nat
    BY <1>1, <2>1, LimitsAreNatural
  <2> QED  BY <2>2, FirstAndNewest
<1> QED
  BY <1>2, <1>3, <1>4, <1>5

\* What of it is marked as shortened.
FieldMarks(i) == {Marks(<<"field", k>>, i.fields[FieldsOf(i)[k]]) : k \in DOMAIN FieldsOf(i)}
NoteMarks(i)  ==
    {Marks(<<"note", k>>, SelectedNotes(i.journals)[k]) : k \in DOMAIN SelectedNotes(i.journals)}
ChildMarks(i) == {Marks(<<"child", k>>, i.children[ChildrenOf(i)[k]]) : k \in DOMAIN ChildrenOf(i)}
PartMarks(i)  == {Marks(<<part, 0>>, i[part]) : part \in {"name", "subject", "description"}}

\* The projection, part by part.
LEMMA ProjectIs ==
    ASSUME NEW i
    PROVE  Project(i) =
      [scope |-> i.scope, name |-> Bounded(i.name), subject |-> Bounded(i.subject),
       description |-> Bounded(i.description),
       fields |-> [k \in DOMAIN FieldsOf(i) |->
                     <<FieldsOf(i)[k], Bounded(i.fields[FieldsOf(i)[k]])>>],
       notes |-> [k \in DOMAIN SelectedNotes(i.journals) |-> Bounded(SelectedNotes(i.journals)[k])],
       relations |-> First(Sorted(i.relations), MaxRelations),
       children |-> [k \in DOMAIN ChildrenOf(i) |->
                       <<ChildrenOf(i)[k], Bounded(i.children[ChildrenOf(i)[k]])>>],
       marks |-> UNION (PartMarks(i) \cup FieldMarks(i) \cup NoteMarks(i) \cup ChildMarks(i))]
  BY Zenon DEF Project, FieldsOf, ChildrenOf, FieldMarks, NoteMarks, ChildMarks, PartMarks

\* Issues that ask for the same ask for the same texts.
LEMMA SameSubstance ==
    ASSUME NEW a \in Issues, NEW b \in Issues, Substance(a) = Substance(b)
    PROVE  /\ a.scope = b.scope /\ a.relations = b.relations
           /\ \A part \in {"name", "subject", "description"} :
                Normalized(a[part]) = Normalized(b[part])
           /\ \A f \in Fields : Normalized(a.fields[f]) = Normalized(b.fields[f])
           /\ \A c \in Children : Normalized(a.children[c]) = Normalized(b.children[c])
           /\ [k \in DOMAIN Notes(a.journals) |-> Normalized(Notes(a.journals)[k])]
              = [k \in DOMAIN Notes(b.journals) |-> Normalized(Notes(b.journals)[k])]
<1> DEFINE P(i) == [part \in {"name", "subject", "description"} |-> Normalized(i[part])]
           F(i) == [f \in Fields |-> Normalized(i.fields[f])]
           C(i) == [c \in Children |-> Normalized(i.children[c])]
           N(i) == [k \in DOMAIN Notes(i.journals) |-> Normalized(Notes(i.journals)[k])]
           S(i) == [parts |-> P(i), scope |-> i.scope, fields |-> F(i), notes |-> N(i),
                    relations |-> i.relations, children |-> C(i)]
<1>1. S(a) = S(b)
  BY Zenon DEF Substance
<1>2. \A part \in {"name", "subject", "description"} :
        P(a)[part] = Normalized(a[part]) /\ P(b)[part] = Normalized(b[part])
  OBVIOUS
<1>3. \A f \in Fields : F(a)[f] = Normalized(a.fields[f]) /\ F(b)[f] = Normalized(b.fields[f])
  OBVIOUS
<1>4. \A c \in Children : C(a)[c] = Normalized(a.children[c]) /\ C(b)[c] = Normalized(b.children[c])
  OBVIOUS
<1> HIDE DEF P, F, C, N
<1>5. /\ S(a).parts = S(b).parts /\ S(a).scope = S(b).scope /\ S(a).fields = S(b).fields
      /\ S(a).notes = S(b).notes /\ S(a).relations = S(b).relations
      /\ S(a).children = S(b).children
  BY <1>1, Zenon
<1>6. /\ P(a) = P(b) /\ a.scope = b.scope /\ F(a) = F(b) /\ N(a) = N(b)
      /\ a.relations = b.relations /\ C(a) = C(b)
  BY <1>5
<1> QED
  BY <1>2, <1>3, <1>4, <1>6, Zenon DEF N

\* An interval from 1 has one end.
LEMMA SameUpTo ==
    ASSUME NEW m \in Nat, NEW n \in Nat, 1..m = 1..n
    PROVE  m = n
<1>1. m # 0 => m \in 1..n
  <2>1. m # 0 => m \in 1..m
    OBVIOUS
  <2> QED  BY <2>1, Zenon
<1>2. n # 0 => n \in 1..m
  <2>1. n # 0 => n \in 1..n
    OBVIOUS
  <2> QED  BY <2>1, Zenon
<1> QED
  BY <1>1, <1>2

\* The newest of two sequences of texts that differ in the space around them.
LEMMA SameNewest ==
    ASSUME NEW s \in Seq(Text), NEW t \in Seq(Text), NEW n \in Nat,
           [k \in DOMAIN s |-> Normalized(s[k])] = [k \in DOMAIN t |-> Normalized(t[k])]
    PROVE  /\ DOMAIN Newest(s, n) = DOMAIN Newest(t, n)
           /\ \A k \in DOMAIN Newest(s, n) :
                Normalized(Newest(s, n)[k]) = Normalized(Newest(t, n)[k])
<1> DEFINE f == [k \in DOMAIN s |-> Normalized(s[k])]
           g == [k \in DOMAIN t |-> Normalized(t[k])]
           N == Len(s)
           off == IF N >= n THEN N - n ELSE 0
<1>1. DOMAIN f = DOMAIN g
  BY Zenon
<1>2. DOMAIN s = 1..N /\ DOMAIN t = 1..Len(t) /\ N \in Nat /\ Len(t) \in Nat
  OBVIOUS
<1>3. 1..N = 1..Len(t)
  BY <1>1, <1>2
<1>4. Len(t) = N
  BY <1>2, <1>3, SameUpTo, Zenon
<1>5. \A k \in 1..N : Normalized(s[k]) = Normalized(t[k])
  <2> SUFFICES ASSUME NEW k \in 1..N PROVE Normalized(s[k]) = Normalized(t[k])
    OBVIOUS
  <2>1. f[k] = Normalized(s[k]) /\ g[k] = Normalized(t[k])
    BY <1>2, <1>3
  <2> HIDE DEF f, g
  <2>2. f = g
    BY DEF f, g
  <2> QED  BY <2>1, <2>2
<1>6. N \in Nat /\ off \in 0..N
  <2>1. N \in Nat
    OBVIOUS
  <2> HIDE DEF N
  <2> QED  BY <2>1
<1>7. Newest(s, n) = SubSeq(s, off + 1, N) /\ Newest(t, n) = SubSeq(t, off + 1, N)
  BY <1>4, FirstAndNewest
<1> HIDE DEF off
<1> HIDE DEF N
<1>8. ASSUME NEW r \in Seq(Text), Len(r) = N
      PROVE  /\ DOMAIN SubSeq(r, off + 1, N) = 1..(N - off)
             /\ \A k \in 1..(N - off) : SubSeq(r, off + 1, N)[k] = r[off + k]
  <2>1. N \in Nat /\ off \in 0..N
    BY <1>6
  <2> DEFINE q == SubSeq(r, off + 1, N)
  <2>2. \A i \in (off + 1)..N : r[i] \in Text
    BY <1>8, <2>1
  <2>3. /\ q \in Seq(Text) /\ Len(q) = IF off + 1 <= N THEN N - (off + 1) + 1 ELSE 0
        /\ \A i \in 1..N - (off + 1) + 1 : q[i] = r[off + 1 + i - 1]
    BY <2>1, <2>2, SubSeqProperties
  <2> HIDE DEF q
  <2>4. DOMAIN q = 1..(N - off)
    BY <2>1, <2>3
  <2>5. \A i \in 1..(N - off) : q[i] = r[off + i]
    <3> SUFFICES ASSUME NEW i \in 1..(N - off) PROVE q[i] = r[off + i]
      OBVIOUS
    <3>1. i \in 1..N - (off + 1) + 1 /\ off + 1 + i - 1 = off + i
      BY <2>1
    <3> QED  BY <2>3, <3>1
  <2> QED  BY <2>4, <2>5 DEF q
<1>9. \A k \in 1..(N - off) : off + k \in 1..N
  BY <1>6
<1> QED
  BY <1>4, <1>5, <1>7, <1>8, <1>9, Zenon DEF N

\* The projection reads no more of an Issue than what people ask for.
LEMMA SameProject ==
    ASSUME NEW a \in Issues, NEW b \in Issues, Substance(a) = Substance(b)
    PROVE  Project(a) = Project(b) /\ Bounded(a.subject) = Bounded(b.subject)
<1>1. /\ a.scope = b.scope /\ a.relations = b.relations
      /\ \A part \in {"name", "subject", "description"} : Normalized(a[part]) = Normalized(b[part])
      /\ \A f \in Fields : Normalized(a.fields[f]) = Normalized(b.fields[f])
      /\ \A c \in Children : Normalized(a.children[c]) = Normalized(b.children[c])
  BY SameSubstance
<1>2. Bounded(a.name) = Bounded(b.name) /\ Bounded(a.subject) = Bounded(b.subject)
      /\ Bounded(a.description) = Bounded(b.description)
  <2>1. /\ Normalized(a["name"]) = Normalized(b["name"])
        /\ Normalized(a["subject"]) = Normalized(b["subject"])
        /\ Normalized(a["description"]) = Normalized(b["description"])
    BY <1>1
  <2> QED  BY <2>1, SameText
<1>3. PartMarks(a) = PartMarks(b)
  <2>1. \A part \in {"name", "subject", "description"} :
          Marks(<<part, 0>>, a[part]) = Marks(<<part, 0>>, b[part])
    BY <1>1, SameText, Zenon
  <2> QED  BY <2>1 DEF PartMarks
<1>4. FieldsOf(a) = FieldsOf(b)
  <2>1. \A f \in Fields : Bounded(a.fields[f]) = Bounded(b.fields[f])
    BY <1>1, SameText, Zenon
  <2>2. {f \in Fields : Bounded(a.fields[f]) # <<>>} = {f \in Fields : Bounded(b.fields[f]) # <<>>}
    BY <2>1
  <2> QED  BY <2>2 DEF FieldsOf
<1>5. ASSUME NEW k \in DOMAIN FieldsOf(a)
      PROVE  /\ Bounded(a.fields[FieldsOf(a)[k]]) = Bounded(b.fields[FieldsOf(a)[k]])
             /\ Marks(<<"field", k>>, a.fields[FieldsOf(a)[k]])
                = Marks(<<"field", k>>, b.fields[FieldsOf(a)[k]])
  <2>1. FieldsOf(a)[k] \in Fields
    BY SelectedAre
  <2> QED  BY <1>1, <2>1, SameText, Zenon
<1>6. FieldMarks(a) = FieldMarks(b)
  BY <1>4, <1>5 DEF FieldMarks
<1>7. ChildrenOf(a) = ChildrenOf(b)
  <2>1. {c \in Children : Normalized(a.children[c]) # <<>>}
        = {c \in Children : Normalized(b.children[c]) # <<>>}
    BY <1>1
  <2> QED  BY <2>1 DEF ChildrenOf
<1>8. ASSUME NEW k \in DOMAIN ChildrenOf(a)
      PROVE  /\ Bounded(a.children[ChildrenOf(a)[k]]) = Bounded(b.children[ChildrenOf(a)[k]])
             /\ Marks(<<"child", k>>, a.children[ChildrenOf(a)[k]])
                = Marks(<<"child", k>>, b.children[ChildrenOf(a)[k]])
  <2>1. ChildrenOf(a)[k] \in Children
    BY SelectedAre
  <2> QED  BY <1>1, <2>1, SameText, Zenon
<1>9. ChildMarks(a) = ChildMarks(b)
  BY <1>7, <1>8 DEF ChildMarks
<1> DEFINE m == SelectedNotes(a.journals)
           n == SelectedNotes(b.journals)
<1>10. DOMAIN m = DOMAIN n /\ \A k \in DOMAIN m : Normalized(m[k]) = Normalized(n[k])
  <2>1. Notes(a.journals) \in Seq(Text) /\ Notes(b.journals) \in Seq(Text) /\ MaxJournals \in Nat
    BY NotesAreText, LimitsAreNatural DEF Issues
  <2>2. [k \in DOMAIN Notes(a.journals) |-> Normalized(Notes(a.journals)[k])]
        = [k \in DOMAIN Notes(b.journals) |-> Normalized(Notes(b.journals)[k])]
    BY SameSubstance
  <2> QED  BY <2>1, <2>2, SameNewest DEF SelectedNotes
<1> HIDE DEF m, n
<1>11. \A k \in DOMAIN m : /\ Bounded(m[k]) = Bounded(n[k])
                           /\ Marks(<<"note", k>>, m[k]) = Marks(<<"note", k>>, n[k])
  BY <1>10, SameText, Zenon
<1>12. NoteMarks(a) = NoteMarks(b)
  <2>1. {Marks(<<"note", k>>, m[k]) : k \in DOMAIN m}
        = {Marks(<<"note", k>>, n[k]) : k \in DOMAIN n}
    BY <1>10, <1>11
  <2> QED  BY <2>1 DEF NoteMarks, m, n
<1>13. [k \in DOMAIN m |-> Bounded(m[k])] = [k \in DOMAIN n |-> Bounded(n[k])]
  BY <1>10, <1>11
<1>14. [k \in DOMAIN FieldsOf(a) |-> <<FieldsOf(a)[k], Bounded(a.fields[FieldsOf(a)[k]])>>]
       = [k \in DOMAIN FieldsOf(b) |-> <<FieldsOf(b)[k], Bounded(b.fields[FieldsOf(b)[k]])>>]
  BY <1>4, <1>5
<1>15. [k \in DOMAIN ChildrenOf(a) |->
            <<ChildrenOf(a)[k], Bounded(a.children[ChildrenOf(a)[k]])>>]
       = [k \in DOMAIN ChildrenOf(b) |->
            <<ChildrenOf(b)[k], Bounded(b.children[ChildrenOf(b)[k]])>>]
  BY <1>7, <1>8
<1>16. Project(a) = Project(b)
  BY <1>1, <1>2, <1>3, <1>6, <1>9, <1>12, <1>13, <1>14, <1>15, ProjectIs, Zenon DEF m, n
<1> QED
  BY <1>2, <1>16

-----------------------------------------------------------------------------
(***************************************************************************)
(* The loop of enforceFinalBudget.                                         *)
(***************************************************************************)

\* One turn of the loop of enforceFinalBudget.
Turn(v, step) == IF Size(v) > Budget THEN GiveUp(v, step) ELSE v

\* f records what is left after every turn.
Runs(f, in, steps, n) == f = [k \in 0..n |-> IF k = 0 THEN in ELSE Turn(f[k - 1], steps[k])]

\* There is such a record, of any number of turns.
LEMMA RunExists ==
    ASSUME NEW in, NEW steps
    PROVE  \A n \in Nat : \E f : Runs(f, in, steps, n)
<1> DEFINE S == {n \in Nat : \E f : Runs(f, in, steps, n)}
<1>1. 0 \in S
  <2> DEFINE f == [k \in 0..0 |-> in]
  <2>1. f = [k \in 0..0 |-> IF k = 0 THEN in ELSE Turn(f[k - 1], steps[k])]
    OBVIOUS
  <2> HIDE DEF f
  <2>2. Runs(f, in, steps, 0)
    BY <2>1 DEF Runs
  <2> QED  BY <2>2
<1>2. ASSUME NEW n \in Nat, n \in S PROVE n + 1 \in S
  <2>1. PICK f : Runs(f, in, steps, n)
    BY <1>2
  <2> DEFINE g == [k \in 0..n + 1 |-> IF k = n + 1 THEN Turn(f[n], steps[n + 1]) ELSE f[k]]
             h == [k \in 0..n + 1 |-> IF k = 0 THEN in ELSE Turn(g[k - 1], steps[k])]
  <2>2. f = [k \in 0..n |-> IF k = 0 THEN in ELSE Turn(f[k - 1], steps[k])]
    BY <2>1 DEF Runs
  <2>3. ASSUME NEW k \in 0..n + 1 PROVE g[k] = h[k]
    <3>1. CASE k = n + 1
      <4>1. k # 0 /\ k - 1 = n /\ n \in 0..n + 1 /\ n # n + 1
        BY <3>1
      <4>2. g[k - 1] = f[n]
        BY <4>1
      <4>3. g[k] = Turn(f[n], steps[n + 1])
        BY <3>1
      <4>4. h[k] = Turn(g[k - 1], steps[k])
        BY <4>1
      <4> HIDE DEF g, h
      <4> QED  BY <3>1, <4>2, <4>3, <4>4, Zenon
    <3>2. CASE k # n + 1 /\ k # 0
      <4>1. k \in 0..n /\ k - 1 \in 0..n + 1 /\ k - 1 # n + 1
        BY <3>2
      <4>2. g[k] = f[k] /\ g[k - 1] = f[k - 1]
        BY <3>2, <4>1
      <4>3. f[k] = Turn(f[k - 1], steps[k])
        BY <2>2, <3>2, <4>1, Zenon
      <4>4. h[k] = Turn(g[k - 1], steps[k])
        BY <3>2
      <4> HIDE DEF g, h
      <4> QED  BY <4>2, <4>3, <4>4, Zenon
    <3>3. CASE k = 0
      <4>1. 0 \in 0..n /\ 0 # n + 1
        OBVIOUS
      <4>2. f[0] = in
        BY <2>2, <4>1, Zenon
      <4> QED  BY <3>3, <4>1, <4>2
    <3> QED  BY <3>1, <3>2, <3>3
  <2>4. g = h
    BY <2>3
  <2> HIDE DEF g
  <2>5. Runs(g, in, steps, n + 1)
    BY <2>4 DEF Runs
  <2> QED  BY <2>5
<1> HIDE DEF S
<1>3. \A n \in Nat : n \in S
  BY <1>1, <1>2, NatInductionOnSets
<1> QED
  BY <1>3 DEF S

\* The loop ends with its last turn.
LEMMA EnforcedBy ==
    ASSUME NEW in, Len(Sacrifices(in)) \in Nat
    PROVE  \E kept : /\ EnforceFinalBudget(in) = kept[Len(Sacrifices(in))]
                     /\ kept[0] = in
                     /\ \A k \in 1..Len(Sacrifices(in)) :
                          kept[k] = Turn(kept[k - 1], Sacrifices(in)[k])
<1> DEFINE steps == Sacrifices(in)
           L == Len(steps)
           kept == CHOOSE f : f = [k \in 0..L |->
                                     IF k = 0 THEN in
                                     ELSE IF Size(f[k - 1]) > Budget
                                          THEN GiveUp(f[k - 1], steps[k]) ELSE f[k - 1]]
<1>1. EnforceFinalBudget(in) = kept[L]
  BY DEF EnforceFinalBudget
<1>2. Runs(kept, in, steps, L)
  <2>1. \E f : Runs(f, in, steps, L)
    BY RunExists
  <2> QED  BY <2>1 DEF Runs, Turn
<1> HIDE DEF kept, L
<1>3. kept = [k \in 0..L |-> IF k = 0 THEN in ELSE Turn(kept[k - 1], steps[k])]
  BY <1>2 DEF Runs
<1>4. L \in Nat
  BY DEF L
<1>5. kept[0] = in
  <2>1. 0 \in 0..L
    BY <1>4
  <2> QED  BY <1>3, <2>1, Zenon
<1>6. ASSUME NEW k \in 1..L PROVE kept[k] = Turn(kept[k - 1], steps[k])
  <2>1. k \in 0..L /\ k # 0
    BY <1>4
  <2> QED  BY <1>3, <2>1, Zenon
<1> QED
  BY <1>1, <1>5, <1>6 DEF L

\* What is kept after k turns of the loop, and after j of them that gave up a part each.
Turns(kept, steps, L) == \A k \in 1..L : kept[k] = Turn(kept[k - 1], steps[k])
GivenUp(kept, steps, j) ==
    \A i \in 1..j : Size(kept[i - 1]) > Budget /\ kept[i] = GiveUp(kept[i - 1], steps[i])

\* Up to some turn everything was too large, and after it nothing changes.
LEMMA Stops ==
    ASSUME NEW kept, NEW steps, NEW L \in Nat, Turns(kept, steps, L)
    PROVE  \E j \in 0..L : kept[L] = kept[j] /\ GivenUp(kept, steps, j)
<1> USE DEF Turns, GivenUp
<1> DEFINE Until(j) == \A i \in 1..j : /\ Size(kept[i - 1]) > Budget
                                       /\ kept[i] = GiveUp(kept[i - 1], steps[i])
           Stopped(m, j) == /\ kept[m] = kept[j] /\ Until(j)
                            /\ j = m \/ ~(Size(kept[j]) > Budget)
           S == {m \in Nat : m <= L => \E j \in 0..m : Stopped(m, j)}
<1>1. 0 \in S
  <2>1. Stopped(0, 0)
    OBVIOUS
  <2> QED  BY <2>1
<1>2. ASSUME NEW m \in Nat, m \in S PROVE m + 1 \in S
  <2> SUFFICES ASSUME m + 1 <= L PROVE \E j \in 0..m + 1 : Stopped(m + 1, j)
    OBVIOUS
  <2>1. PICK j \in 0..m : Stopped(m, j)
    BY <1>2
  <2>2. kept[m + 1] = Turn(kept[m], steps[m + 1])
    <3>1. m + 1 \in 1..L /\ (m + 1) - 1 = m
      OBVIOUS
    <3> DEFINE n == m + 1
    <3>2. n \in 1..L /\ n - 1 = m
      BY <3>1
    <3> HIDE DEF n
    <3>3. kept[n] = Turn(kept[m], steps[n])
      BY <3>2
    <3> QED  BY <3>3 DEF n
  <2>3. CASE Size(kept[m]) > Budget
    <3>1. kept[m + 1] = GiveUp(kept[m], steps[m + 1])
      BY <2>2, <2>3 DEF Turn
    <3>2. j = m
      BY <2>1, <2>3
    <3>3. ASSUME NEW i \in 1..m + 1
          PROVE  Size(kept[i - 1]) > Budget /\ kept[i] = GiveUp(kept[i - 1], steps[i])
      <4>1. CASE i \in 1..m
        BY <2>1, <3>2, <4>1
      <4>2. CASE i = m + 1
        <5>1. i - 1 = m
          BY <4>2
        <5> QED  BY <2>3, <3>1, <4>2, <5>1, Zenon
      <4> QED  BY <4>1, <4>2
    <3>4. Stopped(m + 1, m + 1)
      BY <3>3
    <3> HIDE DEF Stopped
    <3> QED  BY <3>4
  <2>4. CASE ~(Size(kept[m]) > Budget)
    <3>1. kept[m + 1] = kept[m]
      BY <2>2, <2>4 DEF Turn
    <3>2. Stopped(m + 1, j)
      BY <2>1, <2>4, <3>1, Zenon
    <3>3. j \in 0..m + 1
      OBVIOUS
    <3> HIDE DEF Stopped
    <3> QED  BY <3>2, <3>3
  <2> QED  BY <2>3, <2>4
<1> HIDE DEF S
<1>3. L \in S
  BY <1>1, <1>2, NatInductionOnSets
<1>4. PICK j \in 0..L : Stopped(L, j)
  BY <1>3 DEF S
<1> QED
  BY <1>4

\* What is dropped.
LEMMA GivesUp ==
    ASSUME NEW v, NEW k
    PROVE  /\ GiveUp(v, <<"note", k>>) = [v EXCEPT !.notes = Tail(v.notes)]
           /\ GiveUp(v, <<"child", k>>) = [v EXCEPT !.children = Front(v.children)]
           /\ GiveUp(v, <<"relation", k>>) = [v EXCEPT !.relations = Front(v.relations)]
<1>1. GiveUp(v, <<"note", k>>) = [v EXCEPT !.notes = Tail(v.notes)]
  BY DEF GiveUp, DropNote
<1>2. GiveUp(v, <<"child", k>>) = [v EXCEPT !.children = Front(v.children)]
  BY DEF GiveUp
<1>3. GiveUp(v, <<"relation", k>>) = [v EXCEPT !.relations = Front(v.relations)]
  BY DEF GiveUp
<1> QED
  BY <1>1, <1>2, <1>3

\* Where the elements of joined sequences are.
LEMMA Joined ==
    ASSUME NEW X, NEW s \in Seq(X), NEW t \in Seq(X)
    PROVE  /\ s \o t \in Seq(X) /\ Len(s \o t) = Len(s) + Len(t)
           /\ \A k \in 1..Len(s) : (s \o t)[k] = s[k]
           /\ \A k \in 1..Len(t) : (s \o t)[Len(s) + k] = t[k]
  OBVIOUS

\* Five of them.
Join(a, b, c, d, e) == a \o b \o c \o d \o e

\* The same of five.
LEMMA JoinedFive ==
    ASSUME NEW X, NEW a \in Seq(X), NEW b \in Seq(X), NEW c \in Seq(X), NEW d \in Seq(X),
           NEW e \in Seq(X), NEW k
    PROVE  LET all == Join(a, b, c, d, e)
               N == Len(a)
               C == Len(b)
               R == Len(c)
               F == Len(d) IN
           /\ Len(all) = N + C + R + F + Len(e)
           /\ k \in 1..N => all[k] = a[k]
           /\ k \in 1..C => all[N + k] = b[k]
           /\ k \in 1..R => all[N + C + k] = c[k]
           /\ k \in 1..F => all[N + C + R + k] = d[k]
           /\ k \in 1..Len(e) => all[N + C + R + F + k] = e[k]
<1> DEFINE ab == a \o b
           abc == ab \o c
           abcd == abc \o d
           all == abcd \o e
<1>1. ab \in Seq(X) /\ Len(ab) = Len(a) + Len(b)
  OBVIOUS
<1>2. \A l \in 1..Len(a) : ab[l] = a[l]
  OBVIOUS
<1>3. \A l \in 1..Len(b) : ab[Len(a) + l] = b[l]
  OBVIOUS
<1> HIDE DEF ab
<1>5. abc \in Seq(X) /\ Len(abc) = Len(ab) + Len(c)
  BY <1>1, Joined, Zenon
<1>6. \A l \in 1..Len(ab) : abc[l] = ab[l]
  BY <1>1
<1>7. \A l \in 1..Len(c) : abc[Len(ab) + l] = c[l]
  BY <1>1
<1> HIDE DEF abc
<1>9. abcd \in Seq(X) /\ Len(abcd) = Len(abc) + Len(d)
  BY <1>5, Joined, Zenon
<1>10. \A l \in 1..Len(abc) : abcd[l] = abc[l]
  BY <1>5
<1>11. \A l \in 1..Len(d) : abcd[Len(abc) + l] = d[l]
  BY <1>5
<1> HIDE DEF abcd
<1>13. Len(all) = Len(abcd) + Len(e)
  BY <1>9, Joined, Zenon
<1>14. \A l \in 1..Len(abcd) : all[l] = abcd[l]
  BY <1>9
<1>15. \A l \in 1..Len(e) : all[Len(abcd) + l] = e[l]
  BY <1>9
<1> HIDE DEF all
<1> DEFINE N == Len(a)
           C == Len(b)
           R == Len(c)
           F == Len(d)
           P == Len(ab)
           Q == Len(abc)
           T == Len(abcd)
<1>16. /\ N \in Nat /\ C \in Nat /\ R \in Nat /\ F \in Nat /\ Len(e) \in Nat
       /\ P = N + C /\ Q = P + R /\ T = Q + F
  BY <1>1, <1>5, <1>9
<1> HIDE DEF N, C, R, F, P, Q, T
<1>17. ASSUME k \in 1..N PROVE all[k] = a[k]
  <2>1. k \in 1..P /\ k \in 1..Q /\ k \in 1..T
    BY <1>16, <1>17
  <2> QED  BY <1>2, <1>6, <1>10, <1>14, <1>17, <2>1, Zenon DEF N, P, Q, T
<1>18. ASSUME k \in 1..C PROVE all[N + k] = b[k]
  <2>1. PICK m \in 1..P : m = N + k /\ m \in 1..Q /\ m \in 1..T
    BY <1>16, <1>18
  <2>2. ab[m] = b[k]
    BY <1>3, <1>18, <2>1 DEF N, C
  <2> QED  BY <1>6, <1>10, <1>14, <2>1, <2>2, Zenon DEF N, P, Q, T
<1>19. ASSUME k \in 1..R PROVE all[P + k] = c[k]
  <2>1. PICK m \in 1..Q : m = P + k /\ m \in 1..T
    BY <1>16, <1>19
  <2>2. abc[m] = c[k]
    BY <1>7, <1>19, <2>1 DEF P, R
  <2> QED  BY <1>10, <1>14, <2>1, <2>2, Zenon DEF Q, T
<1>20. ASSUME k \in 1..F PROVE all[Q + k] = d[k]
  <2>1. PICK m \in 1..T : m = Q + k
    BY <1>16, <1>20
  <2>2. abcd[m] = d[k]
    BY <1>11, <1>20, <2>1 DEF Q, F
  <2> QED  BY <1>14, <2>1, <2>2, Zenon DEF T
<1>21. \A l \in 1..Len(e) : all[T + l] = e[l]
  BY <1>15 DEF T
<1>22. Len(all) = T + Len(e)
  BY <1>13 DEF T
<1>23. /\ Len(all) = N + C + R + F + Len(e)
       /\ k \in 1..N => all[k] = a[k]
       /\ k \in 1..C => all[N + k] = b[k]
       /\ k \in 1..R => all[N + C + k] = c[k]
       /\ k \in 1..F => all[N + C + R + k] = d[k]
       /\ k \in 1..Len(e) => all[N + C + R + F + k] = e[k]
  <2>1. P = N + C /\ Q = N + C + R /\ T = N + C + R + F
    BY <1>16
  <2> QED  BY <1>17, <1>18, <1>19, <1>20, <1>21, <1>22, <2>1, Zenon
<1> QED
  BY <1>23, Zenon DEF Join, all, abcd, abc, ab, N, C, R, F

\* The order in which things are given up.
Steps(N, C, R, F) ==
    Join([k \in 1..N |-> <<"note", k>>], [k \in 1..C |-> <<"child", k>>],
         [k \in 1..R |-> <<"relation", k>>], [k \in 1..F |-> <<"field", F + 1 - k>>],
         << <<"description", 0>> >>)

\* A step gives up the k-th of a kind.
Step(kind, k) == <<kind, k>>

\* After the first a of them come b of one kind.
StepsAt(steps, kind, a, b) == \A k \in 1..b : steps[a + k] = Step(kind, k)

\* The fields go from the last.
FieldsAt(steps, a, F) == \A k \in 1..F : steps[a + k] = Step("field", F + 1 - k)

\* Each kind has its turns.
LEMMA StepsAre ==
    ASSUME NEW N \in Nat, NEW C \in Nat, NEW R \in Nat, NEW F \in Nat
    PROVE  /\ Len(Steps(N, C, R, F)) = N + C + R + F + 1
           /\ StepsAt(Steps(N, C, R, F), "note", 0, N)
           /\ StepsAt(Steps(N, C, R, F), "child", N, C)
           /\ StepsAt(Steps(N, C, R, F), "relation", N + C, R)
           /\ FieldsAt(Steps(N, C, R, F), N + C + R, F)
           /\ Steps(N, C, R, F)[N + C + R + F + 1] = Step("description", 0)
<1> DEFINE note(k) == <<"note", k>>
           child(k) == <<"child", k>>
           relation(k) == <<"relation", k>>
           field(k) == <<"field", k>>
           description == <<"description", 0>>
           a == [k \in 1..N |-> note(k)]
           b == [k \in 1..C |-> child(k)]
           c == [k \in 1..R |-> relation(k)]
           d == [k \in 1..F |-> field(F + 1 - k)]
           e == << description >>
           X == {note(k) : k \in Nat} \cup {child(k) : k \in Nat}
                \cup {relation(k) : k \in Nat} \cup {field(k) : k \in Nat} \cup {description}
<1>1. Steps(N, C, R, F) = Join(a, b, c, d, e)
  BY Zenon DEF Steps
<1> HIDE DEF note, child, relation, field, description
<1>2. /\ \A k \in Nat : note(k) \in X /\ child(k) \in X /\ relation(k) \in X /\ field(k) \in X
      /\ description \in X
  BY Zenon
<1> HIDE DEF X
<1>3. a \in Seq(X) /\ Len(a) = N /\ \A k \in 1..N : a[k] = note(k)
  <2>1. \A k \in 1..N : note(k) \in X
    BY <1>2
  <2> QED  BY <2>1
<1>4. b \in Seq(X) /\ Len(b) = C /\ \A k \in 1..C : b[k] = child(k)
  <2>1. \A k \in 1..C : child(k) \in X
    BY <1>2
  <2> QED  BY <2>1
<1>5. c \in Seq(X) /\ Len(c) = R /\ \A k \in 1..R : c[k] = relation(k)
  <2>1. \A k \in 1..R : relation(k) \in X
    BY <1>2
  <2> QED  BY <2>1
<1>6. d \in Seq(X) /\ Len(d) = F /\ \A k \in 1..F : d[k] = field(F + 1 - k)
  <2>1. \A k \in 1..F : F + 1 - k \in Nat
    OBVIOUS
  <2>2. \A k \in 1..F : field(F + 1 - k) \in X
    BY <1>2, <2>1
  <2> QED  BY <2>2
<1>7. e \in Seq(X) /\ Len(e) = 1 /\ e[1] = description
  BY <1>2
<1> HIDE DEF a, b, c, d, e
<1> DEFINE all == Join(a, b, c, d, e)
<1>8. /\ Len(all) = N + C + R + F + 1
      /\ \A k \in 1..N : all[k] = a[k]
      /\ \A k \in 1..C : all[N + k] = b[k]
      /\ \A k \in 1..R : all[N + C + k] = c[k]
      /\ \A k \in 1..F : all[N + C + R + k] = d[k]
      /\ all[N + C + R + F + 1] = e[1]
  <2>1. a \in Seq(X) /\ b \in Seq(X) /\ c \in Seq(X) /\ d \in Seq(X) /\ e \in Seq(X)
    BY <1>3, <1>4, <1>5, <1>6, <1>7
  <2> HIDE DEF all
  <2>2. ASSUME NEW k
        PROVE  /\ Len(all) = Len(a) + Len(b) + Len(c) + Len(d) + Len(e)
               /\ k \in 1..Len(a) => all[k] = a[k]
               /\ k \in 1..Len(b) => all[Len(a) + k] = b[k]
               /\ k \in 1..Len(c) => all[Len(a) + Len(b) + k] = c[k]
               /\ k \in 1..Len(d) => all[Len(a) + Len(b) + Len(c) + k] = d[k]
               /\ k \in 1..Len(e) => all[Len(a) + Len(b) + Len(c) + Len(d) + k] = e[k]
    BY <2>1, JoinedFive DEF all
  <2>3. /\ Len(a) = N /\ Len(b) = C /\ Len(c) = R /\ Len(d) = F /\ Len(e) = 1
    BY <1>3, <1>4, <1>5, <1>6, <1>7
  <2>4. Len(all) = N + C + R + F + 1
    BY <2>2, <2>3
  <2>5. ASSUME NEW k \in 1..N PROVE all[k] = a[k]
    BY <2>2, <2>3
  <2>6. ASSUME NEW k \in 1..C PROVE all[N + k] = b[k]
    BY <2>2, <2>3
  <2>7. ASSUME NEW k \in 1..R PROVE all[N + C + k] = c[k]
    BY <2>2, <2>3
  <2>8. ASSUME NEW k \in 1..F PROVE all[N + C + R + k] = d[k]
    BY <2>2, <2>3
  <2>9. all[N + C + R + F + 1] = e[1]
    BY <2>2, <2>3
  <2> QED  BY <2>4, <2>5, <2>6, <2>7, <2>8, <2>9
<1> HIDE DEF all
<1>9. Steps(N, C, R, F) = all
  BY <1>1, Zenon DEF all
<1>10. \A k \in 1..N : all[0 + k] = note(k)
  BY <1>3, <1>8
<1>11. \A k \in 1..C : all[N + k] = child(k)
  BY <1>4, <1>8
<1>12. \A k \in 1..R : all[N + C + k] = relation(k)
  BY <1>5, <1>8
<1>13. \A k \in 1..F : all[N + C + R + k] = field(F + 1 - k)
  BY <1>6, <1>8
<1>14. all[N + C + R + F + 1] = description
  BY <1>7, <1>8
<1> QED
  BY <1>8, <1>9, <1>10, <1>11, <1>12, <1>13, <1>14, Zenon
     DEF note, child, relation, field, description, Step, StepsAt, FieldsAt

-----------------------------------------------------------------------------
(***************************************************************************)
(* What the loop leaves of a projection, turn by turn.                     *)
(***************************************************************************)

\* What is left of a projection.
View(w, description, fields, n, c, r, marks) ==
    [scope |-> w.scope, name |-> w.name, subject |-> w.subject, description |-> description,
     fields |-> fields, notes |-> n, relations |-> r, children |-> c, marks |-> marks]

\* What is left when only items were dropped.
Left(w, n, c, r) == View(w, w.description, w.fields, n, c, r, w.marks)

\* Its parts.
LEMMA ViewParts ==
    ASSUME NEW w, NEW d, NEW f, NEW n, NEW c, NEW r, NEW m, NEW v, v = View(w, d, f, n, c, r, m)
    PROVE  /\ v.scope = w.scope /\ v.name = w.name /\ v.subject = w.subject
           /\ v.description = d /\ v.fields = f /\ v.notes = n /\ v.children = c
           /\ v.relations = r /\ v.marks = m
  BY DEF View

\* Another text in a field.
Cut(f, k, s) == [f EXCEPT ![k][2] = s]

\* What each step leaves of it.
LEMMA GiveUpLeaves ==
    ASSUME NEW w, NEW d, NEW f, NEW n, NEW c, NEW r, NEW m, NEW k
    PROVE  /\ GiveUp(View(w, d, f, n, c, r, m), Step("note", k))
                = View(w, d, f, Tail(n), c, r, m)
           /\ GiveUp(View(w, d, f, n, c, r, m), Step("child", k))
                = View(w, d, f, n, Front(c), r, m)
           /\ GiveUp(View(w, d, f, n, c, r, m), Step("relation", k))
                = View(w, d, f, n, c, Front(r), m)
           /\ \E s, t : /\ GiveUp(View(w, d, f, n, c, r, m), Step("description", k))
                             = View(w, s, f, n, c, r, t)
                        /\ s = d => t = m
           /\ \E s, t : /\ GiveUp(View(w, d, f, n, c, r, m), Step("field", k))
                             = View(w, d, Cut(f, k, s), n, c, r, t)
                        /\ s = f[k][2] => t = m
<1> DEFINE v == View(w, d, f, n, c, r, m)
<1>1. GiveUp(v, <<"note", k>>) = View(w, d, f, Tail(n), c, r, m)
  <2>1. GiveUp(v, <<"note", k>>) = [v EXCEPT !.notes = Tail(v.notes)]
    BY GivesUp, Zenon
  <2>2. v.notes = n
    BY DEF View
  <2>3. ASSUME NEW s
        PROVE  [View(w, d, f, n, c, r, m) EXCEPT !.notes = s] = View(w, d, f, s, c, r, m)
    BY DEF View
  <2> HIDE DEF v
  <2>4. [v EXCEPT !.notes = Tail(n)] = View(w, d, f, Tail(n), c, r, m)
    BY <2>3, Zenon DEF v
  <2> QED  BY <2>1, <2>2, <2>4, Zenon
<1>2. GiveUp(v, <<"child", k>>) = View(w, d, f, n, Front(c), r, m)
  <2>1. GiveUp(v, <<"child", k>>) = [v EXCEPT !.children = Front(v.children)]
    BY GivesUp, Zenon
  <2>2. v.children = c
    BY DEF View
  <2>3. ASSUME NEW s
        PROVE  [View(w, d, f, n, c, r, m) EXCEPT !.children = s] = View(w, d, f, n, s, r, m)
    BY DEF View
  <2> HIDE DEF v
  <2>4. [v EXCEPT !.children = Front(c)] = View(w, d, f, n, Front(c), r, m)
    BY <2>3, Zenon DEF v
  <2> QED  BY <2>1, <2>2, <2>4, Zenon
<1>3. GiveUp(v, <<"relation", k>>) = View(w, d, f, n, c, Front(r), m)
  <2>1. GiveUp(v, <<"relation", k>>) = [v EXCEPT !.relations = Front(v.relations)]
    BY GivesUp, Zenon
  <2>2. v.relations = r
    BY DEF View
  <2>3. ASSUME NEW s
        PROVE  [View(w, d, f, n, c, r, m) EXCEPT !.relations = s] = View(w, d, f, n, c, s, m)
    BY DEF View
  <2> HIDE DEF v
  <2>4. [v EXCEPT !.relations = Front(r)] = View(w, d, f, n, c, Front(r), m)
    BY <2>3, Zenon DEF v
  <2> QED  BY <2>1, <2>2, <2>4, Zenon
<1>4. v.description = d /\ v.fields = f /\ v.marks = m
  BY DEF View
<1>5. \E s, t : /\ GiveUp(v, <<"description", k>>) = View(w, s, f, n, c, r, t)
                /\ s = d => t = m
  <2> DEFINE text == Shorten(v, <<"description", k>>, v.description, ShortLimit)
  <2>1. GiveUp(v, <<"description", k>>)
        = [v EXCEPT !.description = text.text, !.marks = text.marks]
    BY DEF GiveUp
  <2> HIDE DEF v
  <2>2. text.text = TruncateUtf8(d, ShortLimit)
        /\ (TruncateUtf8(d, ShortLimit) = d => text.marks = m)
    BY <1>4 DEF Shorten
  <2> HIDE DEF text
  <2>3. ASSUME NEW s, NEW t
        PROVE  [View(w, d, f, n, c, r, m) EXCEPT !.description = s, !.marks = t]
               = View(w, s, f, n, c, r, t)
    <3>1. [View(w, d, f, n, c, r, m) EXCEPT !.description = s] = View(w, s, f, n, c, r, m)
      BY DEF View
    <3>2. [View(w, s, f, n, c, r, m) EXCEPT !.marks = t] = View(w, s, f, n, c, r, t)
      BY DEF View
    <3> QED  BY <3>1, <3>2
  <2>4. GiveUp(v, <<"description", k>>) = View(w, text.text, f, n, c, r, text.marks)
    BY <2>1, <2>3, Zenon DEF v
  <2> QED  BY <2>2, <2>4, Zenon
<1>6. \E s, t : /\ GiveUp(v, <<"field", k>>) = View(w, d, Cut(f, k, s), n, c, r, t)
                /\ s = f[k][2] => t = m
  <2> DEFINE value == Shorten(v, <<"field", k>>, v.fields[k][2], EllipsisBytes)
  <2>1. GiveUp(v, <<"field", k>>)
        = [v EXCEPT !.fields[k][2] = value.text, !.marks = value.marks]
    BY DEF GiveUp
  <2> HIDE DEF v
  <2>2. value.text = TruncateUtf8(f[k][2], EllipsisBytes)
        /\ (TruncateUtf8(f[k][2], EllipsisBytes) = f[k][2] => value.marks = m)
    BY <1>4 DEF Shorten
  <2> HIDE DEF value
  <2> DEFINE g == [f EXCEPT ![k][2] = value.text]
  <2>3. [v EXCEPT !.fields[k][2] = value.text, !.marks = value.marks]
        = [v EXCEPT !.fields = g, !.marks = value.marks]
    BY <1>4
  <2> HIDE DEF g
  <2>4. ASSUME NEW s, NEW t
        PROVE  [View(w, d, f, n, c, r, m) EXCEPT !.fields = s, !.marks = t]
               = View(w, d, s, n, c, r, t)
    <3>1. [View(w, d, f, n, c, r, m) EXCEPT !.fields = s] = View(w, d, s, n, c, r, m)
      BY DEF View
    <3>2. [View(w, d, s, n, c, r, m) EXCEPT !.marks = t] = View(w, d, s, n, c, r, t)
      BY DEF View
    <3> QED  BY <3>1, <3>2
  <2>5. GiveUp(v, <<"field", k>>) = View(w, d, g, n, c, r, value.marks)
    BY <2>1, <2>3, <2>4, Zenon DEF v
  <2> QED  BY <2>2, <2>5, Zenon DEF g, Cut
<1> QED
  BY <1>1, <1>2, <1>3, <1>5, <1>6, Zenon DEF Step

\* Dropping the first or the last of what is left.
LEMMA Drops ==
    ASSUME NEW X, NEW s \in Seq(X), NEW k \in 1..Len(s)
    PROVE  /\ Tail(SubSeq(s, k, Len(s))) = SubSeq(s, k + 1, Len(s))
           /\ Front(SubSeq(s, 1, k)) = SubSeq(s, 1, k - 1)
<1>1. Tail(SubSeq(s, k, Len(s))) = SubSeq(s, k + 1, Len(s))
  OBVIOUS
<1>2. Front(SubSeq(s, 1, k)) = SubSeq(s, 1, k - 1)
  BY DEF Front
<1> QED
  BY <1>1, <1>2

\* When m - 1 are gone, dropping the first leaves what is left of m.
LEMMA DropsFirst ==
    ASSUME NEW X, NEW s \in Seq(X), NEW C, C = Len(s), NEW m \in 1..C
    PROVE  Tail(SubSeq(s, (m - 1) + 1, C)) = SubSeq(s, m + 1, C)
<1>1. Tail(SubSeq(s, m, C)) = SubSeq(s, m + 1, C)
  BY Drops
<1>2. C \in Nat
  OBVIOUS
<1>3. (m - 1) + 1 = m
  BY <1>2
<1> QED
  BY <1>1, <1>3

\* Counting from the end.
LEMMA FromTheEnd ==
    ASSUME NEW C \in Nat, NEW m \in 1..C
    PROVE  \E k \in 1..C : k = C - (m - 1) /\ k - 1 = C - m
<1>1. C - (m - 1) \in 1..C /\ (C - (m - 1)) - 1 = C - m
  OBVIOUS
<1> QED
  BY <1>1

\* Dropping the last leaves the others.
LEMMA DropsLast ==
    ASSUME NEW X, NEW s \in Seq(X), NEW C, C = Len(s), NEW m \in 1..C
    PROVE  Front(SubSeq(s, 1, C - (m - 1))) = SubSeq(s, 1, C - m)
<1>1. C \in Nat
  OBVIOUS
<1>2. PICK k \in 1..C : k = C - (m - 1) /\ k - 1 = C - m
  BY <1>1, FromTheEnd, Zenon
<1>3. Front(SubSeq(s, 1, k)) = SubSeq(s, 1, k - 1)
  BY Drops
<1> QED
  BY <1>2, <1>3

\* After the a-th turn, b things of one kind are given up.
Gone(kept, kind, a, b) ==
    \A m \in 1..b : kept[a + m] = GiveUp(kept[a + m - 1], Step(kind, m))

\* g gives up b things of one kind.
Goes(g, kind, b) == \A m \in 1..b : GiveUp(g[m - 1], Step(kind, m)) = g[m]

\* It goes as g does.
Went(kept, g, a, b) == \A m \in 0..b : kept[a + m] = g[m]

\* A phase of the loop, in which things of one kind are given up, goes as g does.
LEMMA PhaseGoes ==
    ASSUME NEW kept, NEW g, NEW kind, NEW a \in Nat, NEW b \in Nat, kept[a] = g[0],
           Goes(g, kind, b),
           Gone(kept, kind, a, b)
    PROVE  Went(kept, g, a, b)
<1> DEFINE S == {m \in Nat : m <= b => kept[a + m] = g[m]}
<1>1. 0 \in S
  OBVIOUS
<1>2. ASSUME NEW m \in Nat, m \in S PROVE m + 1 \in S
  <2> SUFFICES ASSUME m + 1 <= b PROVE kept[a + (m + 1)] = g[m + 1]
    OBVIOUS
  <2>1. PICK l \in 1..b : l = m + 1
    OBVIOUS
  <2>2. a + l - 1 = a + m /\ l - 1 = m
    BY <2>1
  <2>3. kept[a + m] = g[m]
    BY <1>2
  <2>4. GiveUp(g[l - 1], Step(kind, l)) = g[l]
    BY DEF Goes
  <2>5. kept[a + l] = GiveUp(kept[a + l - 1], Step(kind, l))
    BY DEF Gone
  <2>6. kept[a + l] = g[l]
    BY <2>2, <2>3, <2>4, <2>5
  <2> QED  BY <2>1, <2>6
<1> HIDE DEF S
<1>3. \A m \in Nat : m \in S
  BY <1>1, <1>2, NatInductionOnSets
<1> QED
  BY <1>3 DEF S, Went

\* Giving up an item of what is left.
LEMMA LeftLeaves ==
    ASSUME NEW w, NEW n, NEW c, NEW r, NEW k
    PROVE  /\ GiveUp(Left(w, n, c, r), Step("note", k)) = Left(w, Tail(n), c, r)
           /\ GiveUp(Left(w, n, c, r), Step("child", k)) = Left(w, n, Front(c), r)
           /\ GiveUp(Left(w, n, c, r), Step("relation", k)) = Left(w, n, c, Front(r))
  BY GiveUpLeaves DEF Left

\* The notes go first, from the oldest;
LEMMA NotesGo ==
    ASSUME NEW w, NEW X, w.notes \in Seq(X), NEW L \in Nat, L = Len(w.notes),
           NEW kept, NEW a \in Nat, NEW b \in 0..L,
           kept[a] = Left(w, w.notes, w.children, w.relations),
           Gone(kept, "note", a, b)
    PROVE  \A m \in 0..b : kept[a + m] = Left(w, SubSeq(w.notes, m + 1, L), w.children, w.relations)
<1> DEFINE rest(m) == SubSeq(w.notes, m + 1, L)
           g == [m \in Nat |-> Left(w, rest(m), w.children, w.relations)]
<1>1. kept[a] = g[0]
  <2>1. rest(0) = w.notes
    OBVIOUS
  <2> HIDE DEF rest
  <2> QED  BY <2>1
<1>2. ASSUME NEW m \in 1..b PROVE GiveUp(g[m - 1], Step("note", m)) = g[m]
  <2>1. m \in 1..L /\ m - 1 \in Nat /\ m \in Nat
    OBVIOUS
  <2>2. Tail(rest(m - 1)) = rest(m)
    BY <2>1, DropsFirst
  <2> HIDE DEF rest
  <2>3. g[m - 1] = Left(w, rest(m - 1), w.children, w.relations)
    BY <2>1
  <2>4. g[m] = Left(w, rest(m), w.children, w.relations)
    BY <2>1
  <2> HIDE DEF g
  <2>5. GiveUp(Left(w, rest(m - 1), w.children, w.relations), Step("note", m))
        = Left(w, Tail(rest(m - 1)), w.children, w.relations)
    BY LeftLeaves
  <2> QED  BY <2>2, <2>3, <2>4, <2>5, Zenon
<1> HIDE DEF g
<1>3. \A m \in 0..b : kept[a + m] = g[m]
  <2>1. b \in Nat
    OBVIOUS
  <2>2. Goes(g, "note", b)
    BY <1>2 DEF Goes
  <2>3. Went(kept, g, a, b)
    BY <1>1, <2>1, <2>2, PhaseGoes, Zenon
  <2> QED  BY <2>3, Zenon DEF Went
<1>4. ASSUME NEW m \in 0..b PROVE kept[a + m] = Left(w, rest(m), w.children, w.relations)
  <2>1. m \in Nat /\ kept[a + m] = g[m]
    BY <1>3
  <2> HIDE DEF rest
  <2> QED  BY <2>1 DEF g
<1> QED
  BY <1>4

\* then the children, from the last;
LEMMA ChildrenGo ==
    ASSUME NEW w, NEW X, w.children \in Seq(X), NEW L \in Nat, L = Len(w.children),
           NEW kept, NEW a \in Nat, NEW b \in 0..L,
           kept[a] = Left(w, <<>>, w.children, w.relations),
           Gone(kept, "child", a, b)
    PROVE  \A m \in 0..b : kept[a + m] = Left(w, <<>>, SubSeq(w.children, 1, L - m), w.relations)
<1> DEFINE rest(m) == SubSeq(w.children, 1, L - m)
           g == [m \in Nat |-> Left(w, <<>>, rest(m), w.relations)]
<1>1. kept[a] = g[0]
  <2>1. rest(0) = w.children
    OBVIOUS
  <2> HIDE DEF rest
  <2> QED  BY <2>1
<1>2. ASSUME NEW m \in 1..b PROVE GiveUp(g[m - 1], Step("child", m)) = g[m]
  <2>1. m \in 1..L /\ m - 1 \in Nat /\ m \in Nat
    OBVIOUS
  <2>2. Front(rest(m - 1)) = rest(m)
    BY <2>1, DropsLast
  <2> HIDE DEF rest
  <2>3. g[m - 1] = Left(w, <<>>, rest(m - 1), w.relations)
    BY <2>1
  <2>4. g[m] = Left(w, <<>>, rest(m), w.relations)
    BY <2>1
  <2> HIDE DEF g
  <2>5. GiveUp(Left(w, <<>>, rest(m - 1), w.relations), Step("child", m))
        = Left(w, <<>>, Front(rest(m - 1)), w.relations)
    BY LeftLeaves
  <2> QED  BY <2>2, <2>3, <2>4, <2>5, Zenon
<1> HIDE DEF g
<1>3. \A m \in 0..b : kept[a + m] = g[m]
  <2>1. b \in Nat
    OBVIOUS
  <2>2. Goes(g, "child", b)
    BY <1>2 DEF Goes
  <2>3. Went(kept, g, a, b)
    BY <1>1, <2>1, <2>2, PhaseGoes, Zenon
  <2> QED  BY <2>3, Zenon DEF Went
<1>4. ASSUME NEW m \in 0..b PROVE kept[a + m] = Left(w, <<>>, rest(m), w.relations)
  <2>1. m \in Nat /\ kept[a + m] = g[m]
    BY <1>3
  <2> HIDE DEF rest
  <2> QED  BY <2>1 DEF g
<1> QED
  BY <1>4

\* What dropping relations leaves.
RelationsLeft(kept, w, a, b, L) ==
    \A m \in 0..b : kept[a + m] = Left(w, <<>>, <<>>, SubSeq(w.relations, 1, L - m))

\* then the relations, from the last;
LEMMA RelationsGo ==
    ASSUME NEW w, NEW X, w.relations \in Seq(X), NEW L \in Nat, L = Len(w.relations),
           NEW kept, NEW a \in Nat, NEW b \in 0..L,
           kept[a] = Left(w, <<>>, <<>>, w.relations),
           Gone(kept, "relation", a, b)
    PROVE  RelationsLeft(kept, w, a, b, L)
<1> DEFINE rest(m) == SubSeq(w.relations, 1, L - m)
           g == [m \in Nat |-> Left(w, <<>>, <<>>, rest(m))]
<1>1. kept[a] = g[0]
  <2>1. rest(0) = w.relations
    OBVIOUS
  <2> HIDE DEF rest
  <2> QED  BY <2>1
<1>2. ASSUME NEW m \in 1..b PROVE GiveUp(g[m - 1], Step("relation", m)) = g[m]
  <2>1. m \in 1..L /\ m - 1 \in Nat /\ m \in Nat
    OBVIOUS
  <2>2. Front(rest(m - 1)) = rest(m)
    BY <2>1, DropsLast
  <2> HIDE DEF rest
  <2>3. g[m - 1] = Left(w, <<>>, <<>>, rest(m - 1))
    BY <2>1
  <2>4. g[m] = Left(w, <<>>, <<>>, rest(m))
    BY <2>1
  <2> HIDE DEF g
  <2>5. GiveUp(Left(w, <<>>, <<>>, rest(m - 1)), Step("relation", m))
        = Left(w, <<>>, <<>>, Front(rest(m - 1)))
    BY LeftLeaves
  <2> QED  BY <2>2, <2>3, <2>4, <2>5, Zenon
<1> HIDE DEF g
<1>3. \A m \in 0..b : kept[a + m] = g[m]
  <2>1. b \in Nat
    OBVIOUS
  <2>2. Goes(g, "relation", b)
    BY <1>2 DEF Goes
  <2>3. Went(kept, g, a, b)
    BY <1>1, <2>1, <2>2, PhaseGoes, Zenon
  <2> QED  BY <2>3, Zenon DEF Went
<1>4. ASSUME NEW m \in 0..b PROVE kept[a + m] = Left(w, <<>>, <<>>, rest(m))
  <2>1. m \in Nat /\ kept[a + m] = g[m]
    BY <1>3
  <2> HIDE DEF rest
  <2> QED  BY <2>1 DEF g
<1> QED
  BY <1>4 DEF RelationsLeft

\* f is what m shortened fields leave of those of w, and t its marks.
Shortened(w, f, t, F, m) ==
    /\ f = [k \in 1..F |-> f[k]]
    /\ \A k \in 1..F - m : f[k] = w.fields[k]
    /\ f = w.fields => t = w.marks

\* Shortening one more leaves one more.
LEMMA Shortens ==
    ASSUME NEW w, NEW F \in Nat, NEW m \in 1..F, NEW i, i = F + 1 - m,
           NEW f, NEW t, NEW s, NEW u,
           w.fields = [k \in 1..F |-> w.fields[k]], \A k \in 1..F : 2 \in DOMAIN w.fields[k],
           Shortened(w, f, t, F, m - 1), s = f[i][2] => u = t
    PROVE  Shortened(w, [f EXCEPT ![i][2] = s], u, F, m)
<1> DEFINE fields == w.fields
           value(k) == f[k]
           changed == [f[i] EXCEPT ![2] = s]
           g == [f EXCEPT ![i][2] = s]
<1>1. PICK l \in 1..F : l = i /\ F - (m - 1) = l /\ F - m = l - 1
  OBVIOUS
<1>2. /\ f = [k \in 1..F |-> f[k]] /\ \A k \in 1..l : f[k] = w.fields[k]
      /\ f = w.fields => t = w.marks
  BY <1>1 DEF Shortened
<1>3. g = [k \in 1..F |-> IF k = l THEN changed ELSE f[k]]
  BY <1>1, <1>2
<1>4. f[l] = w.fields[l]
  <2>1. l \in 1..l
    BY <1>1
  <2> QED  BY <1>2, <2>1, Zenon
<1>5. changed[2] = s
  <2>1. 2 \in DOMAIN f[l]
    BY <1>1, <1>4
  <2> QED  BY <1>1, <2>1
<1> HIDE DEF changed, g
<1>6. g[l] = changed /\ \A k \in 1..F : k # l => g[k] = f[k]
  BY <1>3
<1>7. g = [k \in 1..F |-> g[k]]
  BY <1>3
<1>8. \A k \in 1..F - m : g[k] = w.fields[k]
  <2>1. \A k \in 1..F - m : k \in 1..l /\ k \in 1..F /\ k # l
    BY <1>1
  <2> QED  BY <1>2, <1>6, <2>1, Zenon
<1>9. ASSUME g = w.fields PROVE u = w.marks
  <2>1. s = f[l][2]
    BY <1>4, <1>5, <1>6, <1>9
  <2>2. u = t
    BY <1>1, <2>1
  <2>3. \A k \in 1..F : f[k] = w.fields[k]
    BY <1>4, <1>6, <1>9
  <2>4. f = w.fields
    BY <1>2, <2>3
  <2> QED  BY <1>2, <2>2, <2>4
<1> QED
  BY <1>7, <1>8, <1>9 DEF Shortened, g

\* What the loop does to a field.
LEMMA FieldLeaves ==
    ASSUME NEW w, NEW d, NEW f, NEW n, NEW c, NEW r, NEW m, NEW k
    PROVE  \E s, t : /\ GiveUp(View(w, d, f, n, c, r, m), Step("field", k))
                         = View(w, d, Cut(f, k, s), n, c, r, t)
                     /\ s = f[k][2] => t = m
  BY GiveUpLeaves

\* x is what m shortened fields leave of what is left of w.
ShortenedIs(x, w, n, c, r, F, m) ==
    \E f, t : x = View(w, w.description, f, n, c, r, t) /\ Shortened(w, f, t, F, m)

\* So a turn of the loop shortens one more.
LEMMA FieldGoes ==
    ASSUME NEW w, NEW n, NEW c, NEW r, NEW F \in Nat, NEW m \in 1..F, NEW x, NEW y,
           w.fields = [k \in 1..F |-> w.fields[k]], \A k \in 1..F : 2 \in DOMAIN w.fields[k],
           ShortenedIs(x, w, n, c, r, F, m - 1), y = GiveUp(x, Step("field", F + 1 - m))
    PROVE  ShortenedIs(y, w, n, c, r, F, m)
<1>1. PICK i : i = F + 1 - m
  OBVIOUS
<1>2. PICK f, t : x = View(w, w.description, f, n, c, r, t) /\ Shortened(w, f, t, F, m - 1)
  BY Zenon DEF ShortenedIs
<1>3. PICK s, u : y = View(w, w.description, Cut(f, i, s), n, c, r, u) /\ (s = f[i][2] => u = t)
  <2>1. y = GiveUp(View(w, w.description, f, n, c, r, t), Step("field", i))
    BY <1>1, <1>2, Zenon
  <2> QED  BY <2>1, FieldLeaves
<1>4. Shortened(w, Cut(f, i, s), u, F, m)
  BY <1>1, <1>2, <1>3, Shortens, Zenon DEF Cut
<1> QED
  BY <1>3, <1>4, Zenon DEF ShortenedIs

\* then the texts of the fields, from the last.
LEMMA FieldsGo ==
    ASSUME NEW w, NEW n, NEW c, NEW r, NEW F \in Nat,
           w.fields = [k \in 1..F |-> w.fields[k]], \A k \in 1..F : 2 \in DOMAIN w.fields[k],
           NEW kept, NEW a \in Nat, NEW b \in 0..F, kept[a] = Left(w, n, c, r),
           \A m \in 1..b : kept[a + m] = GiveUp(kept[a + m - 1], Step("field", F + 1 - m))
    PROVE  ShortenedIs(kept[a + b], w, n, c, r, F, b)
<1> DEFINE S == {m \in Nat : m <= b => ShortenedIs(kept[a + m], w, n, c, r, F, m)}
<1>1. 0 \in S
  <2>1. Shortened(w, w.fields, w.marks, F, 0)
    BY DEF Shortened
  <2>2. a + 0 = a
    OBVIOUS
  <2>3. kept[a + 0] = View(w, w.description, w.fields, n, c, r, w.marks)
    BY <2>2 DEF Left
  <2>4. ShortenedIs(kept[a + 0], w, n, c, r, F, 0)
    BY <2>1, <2>3, Zenon DEF ShortenedIs
  <2> QED  BY <2>4
<1>2. ASSUME NEW m \in Nat, m \in S PROVE m + 1 \in S
  <2> SUFFICES ASSUME m + 1 <= b PROVE ShortenedIs(kept[a + (m + 1)], w, n, c, r, F, m + 1)
    OBVIOUS
  <2>1. PICK l \in 1..b : l = m + 1 /\ l \in 1..F /\ a + l - 1 = a + m /\ l - 1 = m
    <3>1. m + 1 \in 1..b /\ m + 1 \in 1..F /\ a + (m + 1) - 1 = a + m /\ (m + 1) - 1 = m
      OBVIOUS
    <3> QED  BY <3>1
  <2>2. ShortenedIs(kept[a + m], w, n, c, r, F, l - 1)
    BY <1>2, <2>1
  <2>3. kept[a + l] = GiveUp(kept[a + m], Step("field", F + 1 - l))
    BY <2>1
  <2>4. ShortenedIs(kept[a + l], w, n, c, r, F, l)
    BY <2>1, <2>2, <2>3, FieldGoes, Zenon
  <2> QED  BY <2>1, <2>4
<1> HIDE DEF S
<1>3. b \in S
  BY <1>1, <1>2, NatInductionOnSets
<1> QED
  BY <1>3 DEF S

\* What the loop gives up, in its order.
LEMMA SacrificesAre ==
    ASSUME NEW w, NEW N, NEW C, NEW R, NEW F, DOMAIN w.notes = 1..N, DOMAIN w.children = 1..C,
           DOMAIN w.relations = 1..R, DOMAIN w.fields = 1..F, Len(w.fields) = F
    PROVE  Sacrifices(w) = Steps(N, C, R, F)
  BY Zenon DEF Sacrifices, Steps, Join

\* Turns of the loop that give things of one kind up.
LEMMA TurnsGo ==
    ASSUME NEW kept, NEW steps, NEW j \in Nat,
           \A i \in 1..j : kept[i] = GiveUp(kept[i - 1], steps[i]),
           NEW kind, NEW a \in Nat, NEW n \in Nat, StepsAt(steps, kind, a, n),
           NEW b \in 0..n, a + b <= j
    PROVE  Gone(kept, kind, a, b)
<1> SUFFICES ASSUME NEW m \in 1..b PROVE kept[a + m] = GiveUp(kept[a + m - 1], Step(kind, m))
  BY DEF Gone
<1>1. PICK i \in 1..j : i = a + m
  OBVIOUS
<1>2. m \in 1..n
  OBVIOUS
<1>3. steps[a + m] = Step(kind, m)
  BY <1>2 DEF StepsAt
<1>4. kept[i] = GiveUp(kept[i - 1], steps[i])
  OBVIOUS
<1> QED
  BY <1>1, <1>3, <1>4

\* A projection: sequences, and texts under the ids of fields.
Projected(w, N, C, R, F) ==
    /\ w = Left(w, w.notes, w.children, w.relations)
    /\ \E X : w.notes \in Seq(X) /\ Len(w.notes) = N
    /\ \E X : w.children \in Seq(X) /\ Len(w.children) = C
    /\ \E X : w.relations \in Seq(X) /\ Len(w.relations) = R
    /\ w.fields = [k \in 1..F |-> w.fields[k]] /\ Len(w.fields) = F
    /\ \A k \in 1..F : 2 \in DOMAIN w.fields[k]

\* The first j turns of the loop of enforceFinalBudget, for a projection.
InLoop(w, N, C, R, F, kept, j) ==
    /\ {N, C, R, F, j} \subseteq Nat
    /\ Projected(w, N, C, R, F)
    /\ kept[0] = w
    /\ \A i \in 1..j : /\ Size(kept[i - 1]) > Budget
                       /\ kept[i] = GiveUp(kept[i - 1], Steps(N, C, R, F)[i])

\* What the loop leaves while it drops notes,
LEMMA AfterNotes ==
    ASSUME NEW w, NEW N, NEW C, NEW R, NEW F, NEW kept, NEW j,
           InLoop(w, N, C, R, F, kept, j), NEW b \in 0..N, b <= j
    PROVE  kept[b] = Left(w, SubSeq(w.notes, b + 1, N), w.children, w.relations)
<1> N \in Nat /\ C \in Nat /\ R \in Nat /\ F \in Nat /\ j \in Nat
  BY DEF InLoop
<1> DEFINE steps == Steps(N, C, R, F)
<1>1. StepsAt(steps, "note", 0, N)
  BY StepsAre
<1> HIDE DEF steps
<1>2. Gone(kept, "note", 0, b)
  <2>1. 0 + b <= j /\ 0 \in Nat
    OBVIOUS
  <2>2. \A k \in 1..j : kept[k] = GiveUp(kept[k - 1], steps[k])
    BY Zenon DEF InLoop, steps
  <2> QED  BY <1>1, <2>1, <2>2, TurnsGo
<1>3. PICK X : w.notes \in Seq(X) /\ Len(w.notes) = N
  BY Zenon DEF Projected, InLoop
<1>4. kept[0] = Left(w, w.notes, w.children, w.relations)
  BY Zenon DEF Projected, InLoop
<1>5. \A m \in 0..b : kept[0 + m] = Left(w, SubSeq(w.notes, m + 1, N), w.children, w.relations)
  BY <1>2, <1>3, <1>4, NotesGo
<1>6. b \in 0..b /\ 0 + b = b
  OBVIOUS
<1> QED
  BY <1>5, <1>6

\* children,
LEMMA AfterChildren ==
    ASSUME NEW w, NEW N, NEW C, NEW R, NEW F, NEW kept, NEW j,
           InLoop(w, N, C, R, F, kept, j), NEW b \in 0..C, NEW i \in 0..j, i = N + b
    PROVE  kept[i] = Left(w, <<>>, SubSeq(w.children, 1, C - b), w.relations)
<1> N \in Nat /\ C \in Nat /\ R \in Nat /\ F \in Nat /\ j \in Nat
  BY DEF InLoop
<1> DEFINE steps == Steps(N, C, R, F)
<1>1. StepsAt(steps, "child", N, C)
  BY StepsAre
<1> HIDE DEF steps
<1>2. Gone(kept, "child", N, b)
  <2>1. \A k \in 1..j : kept[k] = GiveUp(kept[k - 1], steps[k])
    BY Zenon DEF InLoop, steps
  <2>2. N + b <= j
    OBVIOUS
  <2> QED  BY <1>1, <2>1, <2>2, TurnsGo
<1>3. PICK X : w.children \in Seq(X) /\ Len(w.children) = C
  BY Zenon DEF Projected, InLoop
<1>4. kept[N] = Left(w, <<>>, w.children, w.relations)
  <2>1. N \in 0..N /\ N <= j
    OBVIOUS
  <2>2. kept[N] = Left(w, SubSeq(w.notes, N + 1, N), w.children, w.relations)
    BY <2>1, AfterNotes
  <2>3. SubSeq(w.notes, N + 1, N) = <<>>
    OBVIOUS
  <2> QED  BY <2>2, <2>3, Zenon
<1>5. \A m \in 0..b : kept[N + m] = Left(w, <<>>, SubSeq(w.children, 1, C - m), w.relations)
  BY <1>2, <1>3, <1>4, ChildrenGo
<1> QED
  BY <1>5

\* relations,
LEMMA AfterRelations ==
    ASSUME NEW w, NEW N, NEW C, NEW R, NEW F, NEW kept, NEW j, InLoop(w, N, C, R, F, kept, j),
           NEW a \in Nat, a = N + C, NEW b \in 0..R, NEW i \in 0..j, i = a + b
    PROVE  kept[i] = Left(w, <<>>, <<>>, SubSeq(w.relations, 1, R - b))
<1> N \in Nat /\ C \in Nat /\ R \in Nat /\ F \in Nat /\ j \in Nat
  BY DEF InLoop
<1> DEFINE steps == Steps(N, C, R, F)
<1>1. StepsAt(steps, "relation", a, R)
  BY StepsAre
<1> HIDE DEF steps
<1>2. Gone(kept, "relation", a, b)
  <2>1. a + b <= j
    OBVIOUS
  <2>2. \A k \in 1..j : kept[k] = GiveUp(kept[k - 1], steps[k])
    BY Zenon DEF InLoop, steps
  <2> QED  BY <1>1, <2>1, <2>2, TurnsGo
<1>3. PICK X : w.relations \in Seq(X) /\ Len(w.relations) = R
  BY Zenon DEF Projected, InLoop
<1>4. kept[a] = Left(w, <<>>, <<>>, w.relations)
  <2>1. PICK m \in 0..C : m = C /\ a = N + m /\ a \in 0..j
    OBVIOUS
  <2>2. kept[a] = Left(w, <<>>, SubSeq(w.children, 1, C - m), w.relations)
    BY <2>1, AfterChildren
  <2>3. SubSeq(w.children, 1, C - m) = <<>>
    BY <2>1
  <2> QED  BY <2>1, <2>2, <2>3, Zenon
<1>5. RelationsLeft(kept, w, a, b, R)
  BY <1>2, <1>3, <1>4, RelationsGo, Zenon
<1> QED
  BY <1>5 DEF RelationsLeft

\* until none is left,
LEMMA RelationsGone ==
    ASSUME NEW w, NEW N, NEW C, NEW R, NEW F, NEW kept, NEW j, InLoop(w, N, C, R, F, kept, j),
           NEW a \in 0..j, a = N + C + R
    PROVE  kept[a] = Left(w, <<>>, <<>>, <<>>)
<1>0. N \in Nat /\ C \in Nat /\ R \in Nat
  BY DEF InLoop
<1>1. PICK p \in Nat : p = N + C
  BY <1>0
<1>2. PICK m \in 0..R : m = R
  BY <1>0
<1>3. a = p + m
  BY <1>0, <1>1, <1>2
<1>4. kept[a] = Left(w, <<>>, <<>>, SubSeq(w.relations, 1, R - m))
  BY <1>1, <1>3, AfterRelations
<1>5. SubSeq(w.relations, 1, R - m) = <<>>
  BY <1>0, <1>2
<1> QED
  BY <1>4, <1>5, Zenon

\* and the texts of fields.
LEMMA AfterFields ==
    ASSUME NEW w, NEW N, NEW C, NEW R, NEW F, NEW kept, NEW j, InLoop(w, N, C, R, F, kept, j),
           NEW b \in 0..F, NEW i \in 0..j, i = N + C + R + b
    PROVE  ShortenedIs(kept[i], w, <<>>, <<>>, <<>>, F, b)
<1> N \in Nat /\ C \in Nat /\ R \in Nat /\ F \in Nat /\ j \in Nat
  BY DEF InLoop
<1> DEFINE steps == Steps(N, C, R, F)
<1>0. PICK a \in Nat : a = N + C + R
  OBVIOUS
<1>1. FieldsAt(steps, a, F)
  BY <1>0, StepsAre
<1> HIDE DEF steps
<1>2. ASSUME NEW m \in 1..b PROVE kept[a + m] = GiveUp(kept[a + m - 1], Step("field", F + 1 - m))
  <2>1. PICK k \in 1..j : k = a + m
    BY <1>0
  <2>2. kept[k] = GiveUp(kept[k - 1], steps[k])
    BY Zenon DEF InLoop, steps
  <2>3. m \in 1..F
    OBVIOUS
  <2>4. steps[a + m] = Step("field", F + 1 - m)
    BY <1>1, <2>3, Zenon DEF FieldsAt
  <2> QED  BY <2>1, <2>2, <2>4
<1>3. /\ w.fields = [k \in 1..F |-> w.fields[k]]
      /\ \A k \in 1..F : 2 \in DOMAIN w.fields[k]
  BY Zenon DEF Projected, InLoop
<1>4. kept[a] = Left(w, <<>>, <<>>, <<>>)
  <2>1. a \in 0..j /\ a = N + C + R
    BY <1>0
  <2> QED  BY <2>1, RelationsGone
<1>5. ShortenedIs(kept[a + b], w, <<>>, <<>>, <<>>, F, b)
  BY <1>2, <1>3, <1>4, FieldsGo
<1> QED
  BY <1>0, <1>5

-----------------------------------------------------------------------------
(***************************************************************************)
(* What a budget costs.                                                    *)
(***************************************************************************)

\* The k oldest notes are gone, the last of them because it had to.
Cost(w, n, N) ==
    \E k \in 0..N :
        /\ n = SubSeq(w.notes, k + 1, N)
        /\ k > 0 => Size(Left(w, SubSeq(w.notes, k, N), w.children, w.relations)) > Budget

\* How a budget is kept.
Outcome(w, v, N) ==
    \E d, f, n, c, r, t :
        /\ v = View(w, d, f, n, c, r, t)
        /\ Cost(w, n, N)
        /\ n # <<>> => c = w.children /\ r = w.relations /\ d = w.description /\ f = w.fields
        /\ c # <<>> => r = w.relations /\ d = w.description /\ f = w.fields
        /\ r # <<>> => d = w.description /\ f = w.fields
        /\ d = w.description /\ f = w.fields => t = w.marks

\* Notes are dropped because they have to be,
LEMMA CostOfNotes ==
    ASSUME NEW w, NEW N, NEW C, NEW R, NEW F, NEW kept, NEW j, InLoop(w, N, C, R, F, kept, j),
           NEW k \in 0..N, k <= j
    PROVE  Cost(w, SubSeq(w.notes, k + 1, N), N)
<1>0. N \in Nat /\ j \in Nat
  BY DEF InLoop
<1>1. ASSUME k > 0
      PROVE  Size(Left(w, SubSeq(w.notes, k, N), w.children, w.relations)) > Budget
  <2>1. PICK m \in 0..N : m = k - 1 /\ m <= j /\ m + 1 = k /\ k \in 1..j
    BY <1>0, <1>1
  <2>2. kept[m] = Left(w, SubSeq(w.notes, m + 1, N), w.children, w.relations)
    BY <2>1, AfterNotes
  <2>3. Size(kept[k - 1]) > Budget
    BY <2>1, Zenon DEF InLoop
  <2> QED  BY <2>1, <2>2, <2>3
<1> QED
  BY <1>1 DEF Cost

\* and nothing else goes before all of them are.
LEMMA CostOfAll ==
    ASSUME NEW w, NEW N, NEW C, NEW R, NEW F, NEW kept, NEW j,
           InLoop(w, N, C, R, F, kept, j), N <= j
    PROVE  Cost(w, <<>>, N)
<1>0. N \in Nat
  BY DEF InLoop
<1>1. PICK k \in 0..N : k = N
  BY <1>0
<1>2. Cost(w, SubSeq(w.notes, k + 1, N), N)
  BY <1>1, CostOfNotes
<1>3. SubSeq(w.notes, k + 1, N) = <<>>
  BY <1>0, <1>1
<1> QED
  BY <1>2, <1>3, Zenon

\* An outcome in which nothing is shortened.
LEMMA OutcomeIs ==
    ASSUME NEW w, NEW N, NEW n, NEW c, NEW r, Cost(w, n, N),
           n # <<>> => c = w.children /\ r = w.relations, c # <<>> => r = w.relations
    PROVE  Outcome(w, Left(w, n, c, r), N)
  BY Zenon DEF Outcome, Left

\* The outcome when the loop stops in each of its phases.
LEMMA Outcomes ==
    ASSUME NEW w, NEW N, NEW C, NEW R, NEW F, NEW kept, NEW j, InLoop(w, N, C, R, F, kept, j),
           j <= N + C + R + F + 1
    PROVE  Outcome(w, kept[j], N)
<1>0. N \in Nat /\ C \in Nat /\ R \in Nat /\ F \in Nat /\ j \in Nat
  BY DEF InLoop
<1>1. CASE j <= N
  <2>1. PICK k \in 0..N : k = j /\ k <= j
    BY <1>0, <1>1
  <2>2. kept[k] = Left(w, SubSeq(w.notes, k + 1, N), w.children, w.relations)
    BY <2>1, AfterNotes
  <2>3. Cost(w, SubSeq(w.notes, k + 1, N), N)
    BY <2>1, CostOfNotes
  <2> QED  BY <2>1, <2>2, <2>3, OutcomeIs, Zenon
<1>2. CASE N < j /\ j <= N + C
  <2>1. PICK b \in 0..C : j = N + b /\ j \in 0..j
    BY <1>0, <1>2
  <2>2. kept[j] = Left(w, <<>>, SubSeq(w.children, 1, C - b), w.relations)
    BY <2>1, AfterChildren
  <2>3. Cost(w, <<>>, N)
    BY <1>0, <1>2, CostOfAll
  <2> QED  BY <2>2, <2>3, OutcomeIs, Zenon
<1>3. CASE N + C < j /\ j <= N + C + R
  <2>1. PICK a \in Nat, b \in 0..R : a = N + C /\ j = a + b /\ j \in 0..j /\ N <= j
    <3>1. j - (N + C) \in 0..R /\ N + C \in Nat
      BY <1>0, <1>3
    <3>2. j = (N + C) + (j - (N + C)) /\ j \in 0..j /\ N <= j
      BY <1>0, <1>3
    <3> QED  BY <3>1, <3>2
  <2>2. kept[j] = Left(w, <<>>, <<>>, SubSeq(w.relations, 1, R - b))
    BY <2>1, AfterRelations
  <2>3. Cost(w, <<>>, N)
    BY <2>1, CostOfAll
  <2> QED  BY <2>2, <2>3, OutcomeIs, Zenon
<1>4. ASSUME NEW i \in 0..j, NEW b \in 0..F, i = N + C + R + b
      PROVE  \E f, t : /\ kept[i] = View(w, w.description, f, <<>>, <<>>, <<>>, t)
                       /\ f = w.fields => t = w.marks
  <2>1. ShortenedIs(kept[i], w, <<>>, <<>>, <<>>, F, b)
    BY <1>4, AfterFields
  <2> QED  BY <2>1, Zenon DEF ShortenedIs, Shortened
<1>5. CASE N + C + R < j /\ j <= N + C + R + F
  <2>1. PICK b \in 0..F : j = N + C + R + b /\ j \in 0..j /\ N <= j
    <3>1. j - (N + C + R) \in 0..F
      BY <1>0, <1>5
    <3>2. j = N + C + R + (j - (N + C + R)) /\ j \in 0..j /\ N <= j
      BY <1>0, <1>5
    <3> QED  BY <3>1, <3>2
  <2>2. PICK f, t : /\ kept[j] = View(w, w.description, f, <<>>, <<>>, <<>>, t)
                    /\ f = w.fields => t = w.marks
    BY <1>4, <2>1
  <2>3. Cost(w, <<>>, N)
    BY <2>1, CostOfAll
  <2> QED  BY <2>2, <2>3, Zenon DEF Outcome
<1>6. CASE j = N + C + R + F + 1
  <2>1. PICK i \in 0..j : i = j - 1 /\ i = N + C + R + F /\ N <= j /\ j \in 1..j
    <3>1. N + C + R + F \in 0..j /\ N + C + R + F = j - 1 /\ N <= j /\ j \in 1..j
      BY <1>0, <1>6
    <3> QED  BY <3>1
  <2>2. PICK f, t : /\ kept[i] = View(w, w.description, f, <<>>, <<>>, <<>>, t)
                    /\ f = w.fields => t = w.marks
    <3>1. F \in 0..F
      BY <1>0
    <3> QED  BY <1>4, <2>1, <3>1
  <2>3. kept[j] = GiveUp(kept[i], Steps(N, C, R, F)[j])
    <3>1. kept[j] = GiveUp(kept[j - 1], Steps(N, C, R, F)[j])
      BY <2>1, Zenon DEF InLoop
    <3> QED  BY <2>1, <3>1, Zenon
  <2>4. Steps(N, C, R, F)[j] = Step("description", 0)
    BY <1>0, <1>6, StepsAre
  <2>5. kept[j] = GiveUp(View(w, w.description, f, <<>>, <<>>, <<>>, t), Step("description", 0))
    BY <2>2, <2>3, <2>4, Zenon
  <2>6. PICK s, u : /\ kept[j] = View(w, s, f, <<>>, <<>>, <<>>, u)
                    /\ s = w.description => u = t
    BY <2>5, GiveUpLeaves
  <2>7. Cost(w, <<>>, N)
    BY <2>1, CostOfAll
  <2> QED  BY <2>2, <2>6, <2>7, Zenon DEF Outcome
<1> QED
  BY <1>0, <1>1, <1>2, <1>3, <1>5, <1>6

\* What the budget may cost a projection.
Least(whole, kept) ==
    LET Kept(n) == [kept EXCEPT !.notes = Newest(whole.notes, n)]
        rest    == Payload \ {"notes"}
    IN /\ kept = Kept(Len(kept.notes))
       /\ kept.notes # <<>> => \A part \in rest : kept[part] = whole[part]
       /\ kept.children # <<>> =>
            \A part \in rest \ {"children"} : kept[part] = whole[part]
       /\ kept.relations # <<>> =>
            kept.fields = whole.fields /\ kept.description = whole.description
       /\ (\A part \in rest : kept[part] = whole[part]) /\ Len(kept.notes) < Len(whole.notes)
            => Size(Kept(Len(kept.notes) + 1)) > Budget

\* What is left of a list whose k oldest of N are gone.
NewestOf(s, N, k, n) ==
    /\ Len(n) = N - k
    /\ Newest(s, Len(n)) = n
    /\ k > 0 => Newest(s, Len(n) + 1) = SubSeq(s, k, N)

\* When the k-th of N is not gone, one more is left.
LEMMA OneMore ==
    ASSUME NEW N \in Nat, NEW k \in 0..N, k > 0
    PROVE  \E l \in Nat : l = N - k /\ l + 1 \in Nat /\ N >= l + 1 /\ (N - (l + 1)) + 1 = k
<1>1. N - k \in Nat /\ (N - k) + 1 \in Nat /\ N >= (N - k) + 1 /\ (N - ((N - k) + 1)) + 1 = k
  OBVIOUS
<1> QED
  BY <1>1

\* The newest notes that are left when the k oldest are gone.
LEMMA NewestLeft ==
    ASSUME NEW X, NEW s \in Seq(X), NEW N, N = Len(s), NEW k \in 0..N,
           NEW n, n = SubSeq(s, k + 1, N)
    PROVE  NewestOf(s, N, k, n)
<1>1. N \in Nat
  OBVIOUS
<1>2. Len(n) = N - k
  OBVIOUS
<1>3. Newest(s, Len(n)) = n
  <2>1. PICK m \in Nat : m = Len(n) /\ (IF N >= m THEN N - m ELSE 0) = k
    BY <1>1, <1>2
  <2>2. Newest(s, m) = SubSeq(s, (IF Len(s) >= m THEN Len(s) - m ELSE 0) + 1, Len(s))
    BY FirstAndNewest
  <2> QED  BY <2>1, <2>2, Zenon
<1>4. ASSUME k > 0 PROVE Newest(s, Len(n) + 1) = SubSeq(s, k, N)
  <2>1. PICK m \in Nat : m = Len(n) + 1 /\ (IF N >= m THEN N - m ELSE 0) + 1 = k
    <3>1. PICK l \in Nat : l = N - k /\ l + 1 \in Nat /\ N >= l + 1 /\ (N - (l + 1)) + 1 = k
      BY <1>1, <1>4, OneMore, Zenon
    <3> QED  BY <1>2, <3>1, Zenon
  <2>2. Newest(s, m) = SubSeq(s, (IF Len(s) >= m THEN Len(s) - m ELSE 0) + 1, Len(s))
    BY FirstAndNewest
  <2> QED  BY <2>1, <2>2, Zenon
<1> QED
  BY <1>2, <1>3, <1>4 DEF NewestOf

\* Every outcome is the least of a loss.
LEMMA OutcomeIsLeast ==
    ASSUME NEW w, NEW X, w.notes \in Seq(X), NEW N, N = Len(w.notes), NEW v, Outcome(w, v, N)
    PROVE  Least(w, v)
<1>1. PICK d, f, n, c, r, t :
        /\ v = View(w, d, f, n, c, r, t)
        /\ Cost(w, n, N)
        /\ n # <<>> => c = w.children /\ r = w.relations /\ d = w.description /\ f = w.fields
        /\ c # <<>> => r = w.relations /\ d = w.description /\ f = w.fields
        /\ r # <<>> => d = w.description /\ f = w.fields
        /\ d = w.description /\ f = w.fields => t = w.marks
  BY Zenon DEF Outcome
<1>2. /\ v.scope = w.scope /\ v.name = w.name /\ v.subject = w.subject
      /\ v.description = d /\ v.fields = f /\ v.notes = n /\ v.children = c
      /\ v.relations = r /\ v.marks = t
  BY <1>1, ViewParts
<1>3. ASSUME NEW s PROVE [v EXCEPT !.notes = s] = View(w, d, f, s, c, r, t)
  BY <1>1 DEF View
<1>4. PICK k \in 0..N :
        /\ n = SubSeq(w.notes, k + 1, N)
        /\ k > 0 => Size(Left(w, SubSeq(w.notes, k, N), w.children, w.relations)) > Budget
  BY <1>1, Zenon DEF Cost
<1>5. /\ Len(n) = N - k
      /\ Newest(w.notes, Len(n)) = n
      /\ k > 0 => Newest(w.notes, Len(n) + 1) = SubSeq(w.notes, k, N)
  <2>1. PICK s \in Seq(X) : s = w.notes
    OBVIOUS
  <2>2. N = Len(s) /\ k \in 0..N /\ n = SubSeq(s, k + 1, N)
    BY <1>4, <2>1, Zenon
  <2>3. NewestOf(s, N, k, n)
    BY <2>2, NewestLeft, Zenon
  <2> QED  BY <2>1, <2>3, Zenon DEF NewestOf
<1> DEFINE Kept(m) == [v EXCEPT !.notes = Newest(w.notes, m)]
           rest == Payload \ {"notes"}
           Same(part) == v[part] = w[part]
<1>6. v = Kept(Len(v.notes))
  BY <1>1, <1>2, <1>3, <1>5, Zenon
<1>7. v.notes # <<>> => \A part \in rest : Same(part)
  BY <1>1, <1>2 DEF Payload
<1>8. v.children # <<>> => \A part \in rest \ {"children"} : Same(part)
  BY <1>1, <1>2 DEF Payload
<1>9. v.relations # <<>> => v.fields = w.fields /\ v.description = w.description
  BY <1>1, <1>2
<1>10. ASSUME \A part \in rest : Same(part), Len(v.notes) < Len(w.notes)
       PROVE  Size(Kept(Len(v.notes) + 1)) > Budget
  <2>1. v.description = w.description /\ v.fields = w.fields /\ v.children = w.children
        /\ v.relations = w.relations
    BY <1>10 DEF Payload
  <2>2. d = w.description /\ f = w.fields /\ c = w.children /\ r = w.relations /\ t = w.marks
    BY <1>1, <1>2, <2>1, Zenon
  <2>3. k > 0
    <3>1. Len(n) < N
      BY <1>2, <1>10
    <3>2. N \in Nat
      OBVIOUS
    <3> QED  BY <1>5, <3>1, <3>2
  <2>4. Kept(Len(v.notes) + 1) = View(w, d, f, SubSeq(w.notes, k, N), c, r, t)
    BY <1>2, <1>3, <1>5, <2>3, Zenon
  <2>5. Kept(Len(v.notes) + 1) = Left(w, SubSeq(w.notes, k, N), w.children, w.relations)
    BY <2>2, <2>4, Zenon DEF Left
  <2> QED  BY <1>4, <2>3, <2>5
<1> QED
  BY <1>6, <1>7, <1>8, <1>9, <1>10, Zenon DEF Least

\* A projection is one.
LEMMA ProjectIsProjected ==
    ASSUME NEW i \in Issues
    PROVE  \E N, C, R, F \in Nat : Projected(Project(i), N, C, R, F)
<1> DEFINE w == Project(i)
           ids == FieldsOf(i)
           notes == SelectedNotes(i.journals)
           children == ChildrenOf(i)
           relations == First(Sorted(i.relations), MaxRelations)
           field(k) == <<ids[k], Bounded(i.fields[ids[k]])>>
           child(k) == <<children[k], Bounded(i.children[children[k]])>>
<1>1. /\ w = Left(w, w.notes, w.children, w.relations)
      /\ w.notes = [k \in DOMAIN notes |-> Bounded(notes[k])]
      /\ w.children = [k \in DOMAIN children |-> child(k)]
      /\ w.relations = relations
      /\ w.fields = [k \in DOMAIN ids |-> field(k)]
  <2> DEFINE no == [k \in DOMAIN notes |-> Bounded(notes[k])]
             ch == [k \in DOMAIN children |-> child(k)]
             fi == [k \in DOMAIN ids |-> field(k)]
             ma == UNION (PartMarks(i) \cup FieldMarks(i) \cup NoteMarks(i) \cup ChildMarks(i))
  <2>1. w = [scope |-> i.scope, name |-> Bounded(i.name), subject |-> Bounded(i.subject),
             description |-> Bounded(i.description), fields |-> fi, notes |-> no,
             relations |-> relations, children |-> ch, marks |-> ma]
    BY ProjectIs, Zenon
  <2> HIDE DEF w, no, ch, fi, ma, relations
  <2>2. /\ w.scope = i.scope /\ w.name = Bounded(i.name) /\ w.subject = Bounded(i.subject)
        /\ w.description = Bounded(i.description) /\ w.fields = fi /\ w.notes = no
        /\ w.relations = relations /\ w.children = ch /\ w.marks = ma
    BY <2>1
  <2>3. w = Left(w, w.notes, w.children, w.relations)
    BY <2>1, <2>2, Zenon DEF Left, View
  <2> QED  BY <2>2, <2>3, Zenon DEF no, ch, fi
<1>2. /\ ids \in Seq(Fields) /\ children \in Seq(Children) /\ notes \in Seq(Text)
      /\ relations \in Seq(Related)
  BY SelectedAre
<1> HIDE DEF w, ids, notes, children, relations
<1>3. \A k : 2 \in DOMAIN field(k)
  OBVIOUS
<1> HIDE DEF field, child
<1>4. /\ Len(notes) \in Nat /\ DOMAIN notes = 1..Len(notes)
      /\ Len(children) \in Nat /\ DOMAIN children = 1..Len(children)
      /\ Len(ids) \in Nat /\ DOMAIN ids = 1..Len(ids) /\ Len(relations) \in Nat
  BY <1>2
<1>5. \E X : w.notes \in Seq(X) /\ Len(w.notes) = Len(notes)
  <2>1. w.notes = [k \in 1..Len(notes) |-> w.notes[k]]
    BY <1>1, <1>4
  <2> QED  BY <1>4, <2>1, IsSequence
<1>6. \E X : w.children \in Seq(X) /\ Len(w.children) = Len(children)
  <2>1. w.children = [k \in 1..Len(children) |-> w.children[k]]
    BY <1>1, <1>4
  <2> QED  BY <1>4, <2>1, IsSequence
<1>7. w.fields = [k \in 1..Len(ids) |-> w.fields[k]] /\ Len(w.fields) = Len(ids)
  <2>1. w.fields = [k \in 1..Len(ids) |-> w.fields[k]]
    BY <1>1, <1>4
  <2> QED  BY <1>4, <2>1, IsSequence
<1>8. \A k \in 1..Len(ids) : 2 \in DOMAIN w.fields[k]
  <2>1. \A k \in 1..Len(ids) : w.fields[k] = field(k)
    BY <1>1, <1>4
  <2> QED  BY <1>3, <2>1
<1>9. \E X : w.relations \in Seq(X) /\ Len(w.relations) = Len(relations)
  BY <1>1, <1>2
<1>10. Projected(w, Len(notes), Len(children), Len(relations), Len(ids))
  BY <1>1, <1>5, <1>6, <1>7, <1>8, <1>9, Zenon DEF Projected
<1> QED
  BY <1>4, <1>10, Zenon DEF w

\* The loop is run on it.
LEMMA EnforcedIs ==
    ASSUME NEW w, NEW N \in Nat, NEW C \in Nat, NEW R \in Nat, NEW F \in Nat,
           Projected(w, N, C, R, F)
    PROVE  Outcome(w, EnforceFinalBudget(w), N)
<1> DEFINE steps == Steps(N, C, R, F)
           L == Len(steps)
<1>1. DOMAIN w.notes = 1..N /\ DOMAIN w.children = 1..C /\ DOMAIN w.relations = 1..R
      /\ DOMAIN w.fields = 1..F /\ Len(w.fields) = F
  <2>1. DOMAIN w.notes = 1..N
    <3>1. PICK X : w.notes \in Seq(X) /\ Len(w.notes) = N
      BY Zenon DEF Projected
    <3> QED  BY <3>1
  <2>2. DOMAIN w.children = 1..C
    <3>1. PICK X : w.children \in Seq(X) /\ Len(w.children) = C
      BY Zenon DEF Projected
    <3> QED  BY <3>1
  <2>3. DOMAIN w.relations = 1..R
    <3>1. PICK X : w.relations \in Seq(X) /\ Len(w.relations) = R
      BY Zenon DEF Projected
    <3> QED  BY <3>1
  <2>4. w.fields = [k \in 1..F |-> w.fields[k]] /\ Len(w.fields) = F
    BY Zenon DEF Projected
  <2>5. DOMAIN w.fields = 1..F
    BY <2>4
  <2> QED  BY <2>1, <2>2, <2>3, <2>4, <2>5
<1>2. Sacrifices(w) = steps
  BY <1>1, SacrificesAre, Zenon
<1>3. L = N + C + R + F + 1 /\ L \in Nat
  BY StepsAre
<1> HIDE DEF steps, L
<1>4. PICK kept : /\ EnforceFinalBudget(w) = kept[L] /\ kept[0] = w
                  /\ \A k \in 1..L : kept[k] = Turn(kept[k - 1], steps[k])
  <2>1. Len(Sacrifices(w)) = L
    BY <1>2 DEF L
  <2>2. \E kept : /\ EnforceFinalBudget(w) = kept[Len(Sacrifices(w))]
                  /\ kept[0] = w
                  /\ \A k \in 1..Len(Sacrifices(w)) :
                       kept[k] = Turn(kept[k - 1], Sacrifices(w)[k])
    BY <1>3, <2>1, EnforcedBy, Zenon
  <2> QED  BY <1>2, <2>1, <2>2, Zenon
<1>5. PICK j \in 0..L : /\ kept[L] = kept[j]
                        /\ \A i \in 1..j : /\ Size(kept[i - 1]) > Budget
                                           /\ kept[i] = GiveUp(kept[i - 1], steps[i])
  <2>1. L \in Nat /\ Turns(kept, steps, L)
    BY <1>3, <1>4, Zenon DEF Turns
  <2>2. PICK j \in 0..L : kept[L] = kept[j] /\ GivenUp(kept, steps, j)
    BY <2>1, Stops, Zenon
  <2> QED  BY <2>2, Zenon DEF GivenUp
<1>6. {N, C, R, F, j} \subseteq Nat
  BY <1>3
<1>7. InLoop(w, N, C, R, F, kept, j)
  BY <1>4, <1>5, <1>6, Zenon DEF InLoop, steps
<1>8. j <= N + C + R + F + 1
  BY <1>3
<1>9. Outcome(w, kept[j], N)
  BY <1>7, <1>8, Outcomes
<1> QED
  BY <1>4, <1>5, <1>9, Zenon

\* Keeping the budget costs an Issue's projection no more than it must.
LEMMA ProjectKeepsMost ==
    ASSUME NEW i \in Issues
    PROVE  Least(Project(i), EnforceFinalBudget(Project(i)))
<1> DEFINE w == Project(i)
<1>1. PICK N, C, R, F \in Nat : Projected(w, N, C, R, F)
  BY ProjectIsProjected
<1> HIDE DEF w
<1>2. Outcome(w, EnforceFinalBudget(w), N)
  BY <1>1, EnforcedIs
<1>3. PICK X : w.notes \in Seq(X) /\ N = Len(w.notes)
  BY <1>1, Zenon DEF Projected
<1>4. Least(w, EnforceFinalBudget(w))
  BY <1>2, <1>3, OutcomeIsLeast
<1> QED
  BY <1>4 DEF w

-----------------------------------------------------------------------------
(***************************************************************************)
(* The inductive invariant.                                                *)
(***************************************************************************)

Awaited == {"idle", "lstree", "show", "revalidate"}

\* The branch is a function, revisions are revisions, and Issues are Issues.
Shapes ==
    /\ edits \in 0..MaxEdits
    /\ meddles \in 0..MaxMeddles
    /\ pc \in Awaited \cup Verdicts
    /\ branch = [r \in Revisions |-> branch[r]]
    /\ "revision" \in DOMAIN evidence
    /\ evidence.revision \in Revisions \cup {0}
    /\ fetched.evidence.revision \in Revisions \cup {0}
    /\ issue \in Issues /\ fetched.issue \in Issues
    /\ \A g \in generated : g.of \in Issues

\* A Brief of this Issue was generated from it.
Known(b) == b.owner = "ours" => \E g \in generated : g.brief = b

BranchIsKnown == \A r \in Revisions : Known(branch[r])

\* It was generated from an Issue for which that is possible.
Truthful ==
    \A g \in generated : g.brief = Brief("ours", g.brief.revision, g.of) /\ ~Fails(g.of)

Past == {"show", "revalidate", "stale", "failed", "current"}

\* What the Runner knows after each of its checks.
Checked ==
    LET e == fetched.evidence IN
    /\ pc \in Past => /\ Known(e.persisted)
                      /\ e.persisted # NoBlob
                      /\ e.fingerprint # Malformed
    /\ pc \in {"revalidate", "stale", "failed", "current"} => FrontmatterMatches(e.persisted, e)
    /\ pc = "current" => Fingerprint(fetched.issue) = e.fingerprint
    /\ pc = "stale" => Fingerprint(fetched.issue) # e.fingerprint
    /\ pc = "failed" => Fails(fetched.issue)

Inv == Shapes /\ BranchIsKnown /\ Truthful /\ Checked

USE DEF Verdicts, Awaited, Past


\* Nothing was generated, approved or fetched yet.
LEMMA InitEstablishes == Init => Inv
<1> SUFFICES ASSUME Init PROVE Inv
  OBVIOUS
<1>1. Shapes
  BY Bounds, IssuesHaveText DEF Init, Shapes, Unapproved
<1>2. BranchIsKnown
  BY DEF Init, BranchIsKnown, Known, NoBlob
<1>3. Truthful /\ Checked
  BY DEF Init, Truthful, Checked
<1>4. QED
  BY <1>1, <1>2, <1>3 DEF Inv

\* Steps that leave the Runner, the branch and the Briefs alone.
LEMMA EvidenceOnly ==
    ASSUME Inv, UNCHANGED <<branch, pc, fetched, generated>>,
           edits' \in 0..MaxEdits, meddles' \in 0..MaxMeddles, issue' \in Issues,
           evidence'.revision \in Revisions \cup {0}, "revision" \in DOMAIN evidence'
    PROVE  Inv'
  BY DEF Inv, Shapes, BranchIsKnown, Known, Truthful, Checked

\* People edit the Issue,
LEMMA EditKeeps == ASSUME Inv, NEW changed \in Issues, Edit(changed) PROVE Inv'
<1>1. UNCHANGED <<evidence, branch, meddles, pc, fetched, generated>>
  BY DEF Edit, runner
<1>2. edits' \in 0..MaxEdits
  BY Bounds DEF Edit, Inv, Shapes
<1>3. issue' \in Issues
  BY DEF Edit
<1>4. QED
  BY <1>1, <1>2, <1>3, EvidenceOnly DEF Inv, Shapes

\* People leave an Issue behind that is one.
LEMMA PeopleEdit == ASSUME Inv, People PROVE \E changed \in Issues : Edit(changed)
<1>1. issue \in Issues /\ Texts \subseteq Text
  BY IssuesHaveText DEF Inv, Shapes
<1>2. ASSUME NEW t \in Texts PROVE t \in Text
  BY <1>1, <1>2
<1>3. ASSUME NEW t \in Text
      PROVE  /\ [issue EXCEPT !["name"] = t] \in Issues
             /\ [issue EXCEPT !["subject"] = t] \in Issues
             /\ [issue EXCEPT !.description = t] \in Issues
             /\ \A f \in Fields : [issue EXCEPT !.fields[f] = t] \in Issues
             /\ \A c \in Children : [issue EXCEPT !.children[c] = t] \in Issues
             /\ \A k \in DOMAIN issue.journals : [issue EXCEPT !.journals[k] = t] \in Issues
             /\ [issue EXCEPT !.journals = Append(@, t)] \in Issues
  <2> HIDE DEF Text
  <2>1. /\ [issue EXCEPT !["name"] = t] \in Issues
        /\ [issue EXCEPT !["subject"] = t] \in Issues
        /\ [issue EXCEPT !.description = t] \in Issues
    BY <1>1, <1>3 DEF Issues
  <2>2. \A f \in Fields : [issue EXCEPT !.fields[f] = t] \in Issues
    BY <1>1, <1>3 DEF Issues
  <2>3. \A c \in Children : [issue EXCEPT !.children[c] = t] \in Issues
    BY <1>1, <1>3 DEF Issues
  <2>4. issue.journals \in Seq(Text)
    BY <1>1 DEF Issues
  <2>5. ASSUME NEW journals \in Seq(Text) PROVE [issue EXCEPT !.journals = journals] \in Issues
    BY <1>1, <2>5 DEF Issues
  <2>6. \A k \in DOMAIN issue.journals : [issue.journals EXCEPT ![k] = t] \in Seq(Text)
    BY <1>3, <2>4
  <2>7. Append(issue.journals, t) \in Seq(Text)
    BY <1>3, <2>4
  <2>8. \A k \in DOMAIN issue.journals : [issue EXCEPT !.journals[k] = t] \in Issues
    BY <2>5, <2>6
  <2>9. [issue EXCEPT !.journals = Append(@, t)] \in Issues
    BY <2>5, <2>7
  <2> QED  BY <2>1, <2>2, <2>3, <2>8, <2>9
<1>4. \A r \in Related :
        [issue EXCEPT !.relations = IF r \in @ THEN @ \ {r} ELSE @ \cup {r}] \in Issues
  BY <1>1 DEF Issues
<1>5. [issue EXCEPT !.scope = IF @ = "here" THEN "there" ELSE "here"] \in Issues
  BY <1>1 DEF Issues
<1> QED
  BY <1>1, <1>3, <1>4, <1>5 DEF People

\* a Brief is generated,
LEMMA GenerateKeeps == ASSUME Inv, NEW r \in Revisions, Generate(r) PROVE Inv'
<1> DEFINE g == [brief |-> Brief("ours", r, issue), of |-> issue]
<1>1. UNCHANGED <<issue, evidence, edits, meddles, pc, fetched>>
  BY DEF Generate, runner
<1>2. branch' = [branch EXCEPT ![r] = g.brief]
  BY DEF Generate
<1>3. branch'[r] = g.brief /\ \A q \in Revisions \ {r} : branch'[q] = branch[q]
  BY <1>2 DEF Inv, Shapes
<1>4. generated' = generated \cup {g}
  BY <1>3 DEF Generate
<1>5. Shapes'
  <2>1. branch' = [q \in Revisions |-> branch'[q]]
    BY <1>2 DEF Inv, Shapes
  <2>2. g.of \in Issues
    BY DEF Inv, Shapes
  <2>3. \A h \in generated' : h.of \in Issues
    BY <1>4, <2>2 DEF Inv, Shapes
  <2>4. QED
    BY <1>1, <2>1, <2>3 DEF Inv, Shapes
<1>6. BranchIsKnown'
  BY <1>3, <1>4 DEF Inv, BranchIsKnown, Known
<1>7. /\ g.brief.revision = r /\ g.brief = Brief("ours", g.brief.revision, g.of)
      /\ ~Fails(g.of)
  BY DEF Brief, Generate
<1>8. Truthful'
  <2>1. \A h \in generated' : /\ h.brief = Brief("ours", h.brief.revision, h.of)
                              /\ ~Fails(h.of)
    BY <1>4, <1>7 DEF Inv, Truthful
  <2>2. ASSUME NEW h \in generated'
        PROVE  Brief("ours", h.brief.revision, h.of)' = Brief("ours", h.brief.revision, h.of)
    BY DEF Brief
  <2>3. QED
    BY <2>1 DEF Truthful
<1>9. Checked'
  BY <1>1, <1>4 DEF Inv, Checked, Known
<1>10. QED
  BY <1>5, <1>6, <1>8, <1>9 DEF Inv

\* the branch is rewritten,
LEMMA RewriteKeeps == ASSUME Inv, NEW r \in Revisions, RewriteBranch(r) PROVE Inv'
<1>1. UNCHANGED <<issue, evidence, edits, pc, fetched, generated>>
  BY DEF RewriteBranch, runner
<1>2. meddles' \in 0..MaxMeddles
  BY Bounds DEF RewriteBranch, Meddle, Inv, Shapes
<1>3. PICK b \in {branch[q] : q \in Revisions} \cup {NoBlob, Brief("other", r, issue)} :
        branch' = [branch EXCEPT ![r] = b]
  BY DEF RewriteBranch
<1>4. Known(b)
  <2>1. CASE b = NoBlob
    BY <2>1 DEF Known, NoBlob
  <2>2. CASE b = Brief("other", r, issue)
    BY <2>2 DEF Known, Brief
  <2>3. CASE \E q \in Revisions : b = branch[q]
    BY <2>3 DEF Inv, BranchIsKnown
  <2>4. QED
    BY <2>1, <2>2, <2>3
<1>5. branch' = [q \in Revisions |-> branch'[q]]
  BY <1>3 DEF Inv, Shapes
<1>6. branch'[r] = b /\ \A q \in Revisions \ {r} : branch'[q] = branch[q]
  BY <1>3 DEF Inv, Shapes
<1>7. Shapes'
  BY <1>1, <1>2, <1>5 DEF Inv, Shapes
<1>8. BranchIsKnown'
  BY <1>1, <1>4, <1>6 DEF Inv, BranchIsKnown, Known
<1>9. Truthful' /\ Checked'
  BY <1>1 DEF Inv, Truthful, Checked, Known
<1>10. QED
  BY <1>7, <1>8, <1>9 DEF Inv

\* the Runner takes a step,
LEMMA RunnerKeeps ==
    ASSUME Inv, Refetch \/ ReadTree \/ ShowBlob \/ GitFails \/ Revalidate
    PROVE  Inv'
<1> DEFINE e == fetched.evidence
<1>1. UNCHANGED <<issue, evidence, branch, edits, meddles, generated>>
  BY DEF Refetch, ReadTree, ShowBlob, GitFails, Revalidate, world
<1>2. BranchIsKnown' /\ Truthful'
  BY <1>1 DEF Inv, BranchIsKnown, Known, Truthful
<1>3. CASE Refetch
  <2>1. pc' = "lstree" /\ fetched'.evidence = evidence /\ fetched'.issue = issue
    BY <1>3 DEF Refetch
  <2>2. Shapes' /\ Checked'
    BY <1>1, <2>1 DEF Inv, Shapes, Checked
  <2>3. QED
    BY <1>2, <2>2 DEF Inv
<1>4. CASE ReadTree
  <2>1. pc' \in {"show", "invalid"} /\ fetched' = fetched
    BY <1>4 DEF ReadTree
  <2>2. ASSUME pc' = "show"
        PROVE  Known(e.persisted) /\ e.persisted # NoBlob /\ e.fingerprint # Malformed
    <3>1. Parses(e) /\ branch[e.revision] = e.persisted
      BY <1>4, <2>2 DEF ReadTree
    <3>2. e.revision \in Revisions
      BY <3>1 DEF Parses, Inv, Shapes
    <3>3. QED
      BY <3>1, <3>2 DEF Parses, Inv, BranchIsKnown
  <2>3. Shapes' /\ Checked'
    BY <1>1, <2>1, <2>2 DEF Inv, Shapes, Checked, Known
  <2>4. QED
    BY <1>2, <2>3 DEF Inv
<1>5. CASE ShowBlob
  <2>1. pc = "show" /\ pc' \in {"revalidate", "invalid"} /\ fetched' = fetched
    BY <1>5 DEF ShowBlob
  <2>2. pc' = "revalidate" => FrontmatterMatches(e.persisted, e)
    BY <1>5 DEF ShowBlob
  <2>3. Shapes' /\ Checked'
    BY <1>1, <2>1, <2>2 DEF Inv, Shapes, Checked, Known, FrontmatterMatches
  <2>4. QED
    BY <1>2, <2>3 DEF Inv
<1>6. CASE GitFails
  <2>1. pc' = "invalid" /\ fetched' = fetched
    BY <1>6 DEF GitFails
  <2>2. Shapes' /\ Checked'
    BY <1>1, <2>1 DEF Inv, Shapes, Checked
  <2>3. QED
    BY <1>2, <2>2 DEF Inv
<1>7. CASE Revalidate
  <2>1. pc = "revalidate" /\ pc' \in {"failed", "current", "stale"} /\ fetched' = fetched
    BY <1>7 DEF Revalidate
  <2>2. /\ pc' = "current" => Fingerprint(fetched.issue) = e.fingerprint
        /\ pc' = "stale" => Fingerprint(fetched.issue) # e.fingerprint
        /\ pc' = "failed" => Fails(fetched.issue)
    BY <1>7 DEF Revalidate
  <2>3. Shapes'
    BY <1>1, <2>1 DEF Inv, Shapes
  <2>4. Checked'
    BY <1>1, <2>1, <2>2 DEF Inv, Checked, Known, FrontmatterMatches
  <2>5. QED
    BY <1>2, <2>3, <2>4 DEF Inv
<1>8. QED
  BY <1>3, <1>4, <1>5, <1>6, <1>7

\* and whoever takes it, a step keeps what is known.
LEMMA StepKeeps == Inv /\ [Next]_vars => Inv'
<1> SUFFICES ASSUME Inv, [Next]_vars PROVE Inv'
  OBVIOUS
<1>1. CASE People
  BY <1>1, EditKeeps, PeopleEdit
<1>2. ASSUME NEW r \in Revisions, Approve(r) PROVE Inv'
  <2>1. /\ evidence'.revision = r /\ "revision" \in DOMAIN evidence'
        /\ UNCHANGED <<issue, branch, edits, meddles, pc, fetched, generated>>
    BY <1>2 DEF Approve, runner
  <2>2. QED
    BY <2>1, EvidenceOnly DEF Inv, Shapes
<1>3. CASE EditApproval
  <2>1. UNCHANGED <<issue, branch, edits, pc, fetched, generated>>
    BY <1>3 DEF EditApproval, runner
  <2>2. meddles' \in 0..MaxMeddles
    BY <1>3, Bounds DEF EditApproval, Meddle, Inv, Shapes
  <2>3. evidence'.revision \in Revisions \cup {0} /\ "revision" \in DOMAIN evidence'
    BY <1>3 DEF EditApproval, Inv, Shapes
  <2>4. QED
    BY <2>1, <2>2, <2>3, EvidenceOnly DEF Inv, Shapes
<1>4. CASE UNCHANGED vars
  BY <1>4 DEF vars, Inv, Shapes, BranchIsKnown, Known, Truthful, Checked
<1>5. QED
  BY <1>1, <1>2, <1>3, <1>4, GenerateKeeps, RewriteKeeps, RunnerKeeps DEF Next

\* What is known is always known.
THEOREM Invariant == Spec => []Inv
  BY InitEstablishes, StepKeeps, PTL DEF Spec

(***************************************************************************)
(* The state keeps its types, and no verdict about the requirements is     *)
(* reached for an approval that cannot be read.                            *)
(***************************************************************************)
THEOREM TypeOKHolds == Spec => []TypeOK
<1>1. Inv => TypeOK
  BY DEF Inv, Shapes, Checked, TypeOK
<1>2. QED
  BY <1>1, Invariant, PTL

(***************************************************************************)
(* What is accepted has a Brief of this Issue and of the approved          *)
(* revision, generated from an Issue with the same fingerprint: for any    *)
(* Issues, limits and number of edits, by whomever                         *)
(* (agent-brief/handoff-binding.ts, requirements-binding.ts).              *)
(***************************************************************************)
THEOREM Grounded == Spec => []AcceptedIsGrounded
<1>1. ASSUME Inv PROVE AcceptedIsGrounded
  <2> DEFINE e == fetched.evidence
  <2> SUFFICES ASSUME pc = "current"
               PROVE  \E g \in generated : /\ g.brief = e.persisted
                                           /\ g.brief.revision = e.revision
                                           /\ Fingerprint(g.of) = Fingerprint(fetched.issue)
    BY DEF AcceptedIsGrounded
  <2>1. FrontmatterMatches(e.persisted, e) /\ Known(e.persisted)
    BY <1>1 DEF Inv, Checked
  <2>2. PICK g \in generated : g.brief = e.persisted
    BY <2>1 DEF FrontmatterMatches, Known
  <2>3. g.brief.fingerprint = Fingerprint(g.of)
    <3>1. g.brief = Brief("ours", g.brief.revision, g.of)
      BY <1>1 DEF Inv, Truthful
    <3>2. Brief("ours", g.brief.revision, g.of).fingerprint = Fingerprint(g.of)
      BY DEF Brief
    <3>3. QED
      BY <3>1, <3>2
  <2>4. e.fingerprint = Fingerprint(fetched.issue)
    BY <1>1 DEF Inv, Checked
  <2>5. QED
    BY <2>1, <2>2, <2>3, <2>4 DEF FrontmatterMatches
<1>2. QED
  BY <1>1, Invariant, PTL

\* Issues that ask for the same have one fingerprint, and fail together.
LEMMA SameVerdict ==
    ASSUME NEW a \in Issues, NEW b \in Issues, Substance(a) = Substance(b)
    PROVE  Fingerprint(a) = Fingerprint(b) /\ (Fails(a) <=> Fails(b))
<1>1. Project(a) = Project(b) /\ Bounded(a.subject) = Bounded(b.subject)
  BY SameProject
<1> QED
  BY <1>1, Zenon DEF Fingerprint, Fails

(***************************************************************************)
(* An approval is turned down as stale, or as impossible to check, only    *)
(* when people changed what the Issue asks for: for any Issues, limits and *)
(* edits (agent-brief/requirements-fingerprint-compat.ts).                 *)
(***************************************************************************)
THEOREM StaleHolds == Spec => []StaleMeansEdited
<1>1. ASSUME Inv PROVE StaleMeansEdited
  <2> DEFINE e == fetched.evidence
  <2> SUFFICES ASSUME pc \in {"stale", "failed"}, NEW g \in generated, g.brief = e.persisted,
                      Substance(g.of) = Substance(fetched.issue)
               PROVE  FALSE
    BY DEF StaleMeansEdited
  <2>1. g.of \in Issues /\ fetched.issue \in Issues
    BY <1>1 DEF Inv, Shapes
  <2>2. /\ Fingerprint(g.of) = Fingerprint(fetched.issue)
        /\ Fails(g.of) <=> Fails(fetched.issue)
    BY <2>1, SameVerdict
  <2>3. g.brief = Brief("ours", g.brief.revision, g.of) /\ ~Fails(g.of)
    BY <1>1 DEF Inv, Truthful
  <2>4. g.brief.fingerprint = Fingerprint(g.of)
    <3>1. Brief("ours", g.brief.revision, g.of).fingerprint = Fingerprint(g.of)
      BY DEF Brief
    <3> QED  BY <2>3, <3>1
  <2>5. e.persisted.fingerprint = e.fingerprint
    BY <1>1 DEF Inv, Checked, FrontmatterMatches
  <2>6. CASE pc = "stale"
    <3>1. Fingerprint(fetched.issue) # e.fingerprint
      BY <1>1, <2>6 DEF Inv, Checked
    <3> QED  BY <2>2, <2>4, <2>5, <3>1
  <2>7. CASE pc = "failed"
    BY <1>1, <2>2, <2>3, <2>7 DEF Inv, Checked
  <2> QED  BY <2>6, <2>7
<1>2. QED
  BY <1>1, Invariant, PTL

(***************************************************************************)
(* What is checked against an approval keeps the newest notes, drops older *)
(* ones only when they do not fit, and touches nothing else while a note   *)
(* is left: for any Issues, limits and budget                              *)
(* (agent-brief/requirements-projection.ts, enforceFinalBudget).           *)
(***************************************************************************)
THEOREM LeastHolds == Spec => []LeastIsDropped
<1>1. ASSUME Inv PROVE LeastIsDropped
  <2>1. fetched.issue \in Issues
    BY <1>1 DEF Inv, Shapes
  <2>2. Least(Project(fetched.issue), EnforceFinalBudget(Project(fetched.issue)))
    BY <2>1, ProjectKeepsMost
  <2> QED  BY <2>2, Zenon DEF Least, LeastIsDropped
<1>2. QED
  BY <1>1, Invariant, PTL
=============================================================================
