------------------------ MODULE ArtifactPipelineProofs ------------------------
(* Theorems about ArtifactPipeline.                                         *)
EXTENDS ArtifactPipeline, SequenceTheorems, WellFoundedInduction, TLAPS

-----------------------------------------------------------------------------
(* Induction, and what a flattened sequence is.                             *)

\* Induction over the naturals, stated for a set: a least number outside it would be the
\* successor of one inside.
LEMMA NatInductionOnSets ==
  ASSUME NEW S, 0 \in S, \A n \in Nat : n \in S => n + 1 \in S
  PROVE  \A n \in Nat : n \in S
<1> DEFINE Less == OpToRel(<, Nat)
           T == Nat \ S
<1> SUFFICES ASSUME T # {} PROVE FALSE
  OBVIOUS
<1>1. \A x, y \in Nat : <<x, y>> \in Less <=> x < y
  BY DEF OpToRel
<1> HIDE DEF Less
<1>2. IsWellFoundedOn(Less, Nat)
  BY NatLessThanWellFounded DEF Less
<1>3. PICK x \in T : \A y \in T : <<y, x>> \notin Less
  BY <1>2, WFMin
<1>4. x # 0 /\ x \in Nat /\ x \notin S
  OBVIOUS
<1>5. x - 1 \in Nat /\ x - 1 < x /\ (x - 1) + 1 = x
  BY <1>4
<1>6. x - 1 \in S
  BY <1>1, <1>3, <1>4, <1>5
<1> QED
  BY <1>4, <1>5, <1>6

\* f is the function by which FlattenSeq is defined.
Flattens(f, ss) ==
    f = [i \in 1..Len(ss) |-> IF i = 1 THEN ss[i] ELSE f[i - 1] \o ss[i]]

\* Such a function appends one sequence at a time,
LEMMA FlattensRuns ==
  ASSUME NEW f, NEW ss, Len(ss) \in Nat, Flattens(f, ss)
  PROVE  /\ 1 \in 1..Len(ss) => f[1] = ss[1]
         /\ \A n \in Nat : n # 0 /\ n + 1 \in 1..Len(ss) => f[n + 1] = f[n] \o ss[n + 1]
<1>1. \A i \in 1..Len(ss) : f[i] = IF i = 1 THEN ss[i] ELSE f[i - 1] \o ss[i]
  BY Zenon DEF Flattens
<1>2. 1 \in 1..Len(ss) => f[1] = ss[1]
  BY <1>1
<1>3. ASSUME NEW n \in Nat, n # 0, n + 1 \in 1..Len(ss)
      PROVE  f[n + 1] = f[n] \o ss[n + 1]
  <2>1. n + 1 # 1 /\ (n + 1) - 1 = n
    BY <1>3
  <2> QED  BY <1>1, <1>3, <2>1, Zenon
<1> QED  BY <1>1, <1>2, <1>3

\* there is at most one,
LEMMA FlattensOnce ==
  ASSUME NEW f, NEW g, NEW ss, Len(ss) \in Nat, Flattens(f, ss), Flattens(g, ss)
  PROVE  f = g
<1> DEFINE S == {n \in Nat : n \in 1..Len(ss) => f[n] = g[n]}
<1>1. 0 \in S
  OBVIOUS
<1>2. ASSUME NEW n \in Nat, n \in S PROVE n + 1 \in S
  <2> SUFFICES ASSUME n + 1 \in 1..Len(ss) PROVE f[n + 1] = g[n + 1]
    OBVIOUS
  <2>1. CASE n = 0
    <3>1. n + 1 = 1
      BY <2>1
    <3>2. f[1] = ss[1] /\ g[1] = ss[1]
      BY <3>1, FlattensRuns
    <3> QED  BY <3>1, <3>2
  <2>2. CASE n # 0
    <3>1. f[n + 1] = f[n] \o ss[n + 1]
      BY <2>2, FlattensRuns
    <3>3. g[n + 1] = g[n] \o ss[n + 1]
      BY <2>2, FlattensRuns
    <3>2. f[n] = g[n]
      BY <1>2, <2>2
    <3> QED BY <3>1, <3>2, <3>3, Zenon
  <2> QED BY <2>1, <2>2
<1> HIDE DEF S
<1>3. \A n \in Nat : n \in S
  BY <1>1, <1>2, NatInductionOnSets
<1>4. \A i \in 1..Len(ss) : f[i] = g[i]
  BY <1>3 DEF S
<1>5. f = [i \in 1..Len(ss) |-> f[i]] /\ g = [i \in 1..Len(ss) |-> g[i]]
  BY DEF Flattens
<1> QED
  BY <1>4, <1>5

\* and FlattenSeq is its last value.
LEMMA FlattenedBy ==
  ASSUME NEW f, NEW ss, Len(ss) \in Nat \ {0}, Flattens(f, ss)
  PROVE  FlattenSeq(ss) = f[Len(ss)]
<1> DEFINE g == CHOOSE h : h = [i \in 1..Len(ss) |-> IF i = 1 THEN ss[i] ELSE h[i - 1] \o ss[i]]
<1>1. Flattens(g, ss)
  BY DEF Flattens
<1>2. FlattenSeq(ss) = g[Len(ss)]
  BY DEF FlattenSeq
<1> HIDE DEF g
<1>3. g = f
  BY <1>1, FlattensOnce
<1> QED  BY <1>2, <1>3

\* It is extended by a sequence more,
LEMMA FlattensOneMore ==
  ASSUME NEW B, NEW ss \in Seq(Seq(B)), NEW s \in Seq(B),
         NEW f \in [1..Len(ss) -> Seq(B)], Flattens(f, ss)
  PROVE  \E g \in [1..Len(ss) + 1 -> Seq(B)] :
           /\ Flattens(g, Append(ss, s))
           /\ g[Len(ss) + 1] = IF ss = <<>> THEN s ELSE f[Len(ss)] \o s
<1> DEFINE N == Len(ss)
           last == IF N = 0 THEN s ELSE f[N] \o s
           tt == Append(ss, s)
           g == [i \in 1..N + 1 |-> IF i = N + 1 THEN last ELSE f[i]]
<1>1. /\ N \in Nat /\ Len(tt) = N + 1 /\ tt[N + 1] = s
      /\ \A i \in 1..N : tt[i] = ss[i]
  OBVIOUS
<1>2. last \in Seq(B)
  <2>1. CASE N = 0  BY <2>1
  <2>2. CASE N # 0
    <3>1. N \in 1..Len(ss)  BY <1>1, <2>2
    <3>2. f[N] \in Seq(B)  BY <3>1
    <3>3. f[N] \o s \in Seq(B)  BY <3>2
    <3> QED  BY <2>2, <3>3
  <2> QED BY <2>1, <2>2
<1>3. g \in [1..N + 1 -> Seq(B)]
  BY <1>2
<1>4. \A i \in 1..N + 1 : g[i] = IF i = 1 THEN tt[i] ELSE g[i - 1] \o tt[i]
  <2> SUFFICES ASSUME NEW i \in 1..N + 1
               PROVE  g[i] = IF i = 1 THEN tt[i] ELSE g[i - 1] \o tt[i]
    OBVIOUS
  <2> HIDE DEF tt
  <2>1. CASE i = N + 1 /\ N = 0
    BY <1>1, <2>1
  <2>2. CASE i = N + 1 /\ N # 0
    <3>1. i - 1 = N /\ N \in 1..N+1 /\ i # 1 /\ i \in 1..N+1 /\ N # N + 1
      BY <1>1, <2>2
    <3>2. g[N] = f[N] /\ g[i] = f[N] \o s
      BY <2>2, <3>1, Zenon
    <3> HIDE DEF g
    <3> QED  BY <1>1, <2>2, <3>1, <3>2, Zenon
  <2>3. CASE i = 1 /\ N # 0
    <3>1. 1 \in 1..N /\ i # N + 1
      BY <1>1, <2>3
    <3>2. f[1] = ss[1]
      BY <1>1, <3>1, FlattensRuns
    <3> QED  BY <1>1, <2>3, <3>1, <3>2
  <2>4. CASE i # N + 1 /\ i # 1
    <3>1. /\ i \in 1..N /\ i - 1 \in Nat /\ i - 1 # 0 /\ (i - 1) + 1 = i
          /\ i - 1 \in 1..N /\ i - 1 # N + 1 /\ i - 1 \in 1..N + 1
      BY <1>1, <2>4
    <3>2. f[i] = f[i - 1] \o ss[i]
      <4>1. (i - 1) + 1 \in 1..Len(ss)
        BY <3>1
      <4>2. f[(i - 1) + 1] = f[i - 1] \o ss[(i - 1) + 1]
        <5> DEFINE m == i - 1
        <5>1. m \in Nat /\ m # 0 /\ m + 1 \in 1..Len(ss)
          BY <3>1, <4>1
        <5> HIDE DEF m
        <5>2. f[m + 1] = f[m] \o ss[m + 1]
          BY <1>1, <5>1, FlattensRuns
        <5> QED  BY <5>2 DEF m
      <4> QED BY <3>1, <4>2
    <3>3. g[i] = f[i] /\ g[i - 1] = f[i - 1]
      BY <2>4, <3>1
    <3> HIDE DEF g
    <3> QED  BY <1>1, <2>4, <3>1, <3>2, <3>3, Zenon
  <2> QED  BY <2>1, <2>2, <2>3, <2>4
<1>5. g = [i \in 1..N + 1 |-> g[i]]
  OBVIOUS
<1> HIDE DEF g, tt
<1>6. Flattens(g, tt)
  BY <1>1, <1>4, <1>5, Zenon DEF Flattens
<1>7. g[N + 1] = IF ss = <<>> THEN s ELSE f[N] \o s
  BY <1>1 DEF g
<1> QED  BY <1>3, <1>6, <1>7 DEF tt

\* so there is one for every sequence of sequences.
LEMMA FlattensExists ==
  ASSUME NEW B, NEW ss \in Seq(Seq(B))
  PROVE  \E f \in [1..Len(ss) -> Seq(B)] : Flattens(f, ss)
<1> DEFINE Runs(n) == \E f \in [1..n -> Seq(B)] : Flattens(f, SubSeq(ss, 1, n))
           S == {n \in Nat : n <= Len(ss) => Runs(n)}
<1>1. 0 \in S
  <2> DEFINE f == [i \in 1..0 |-> <<>>]
  <2>1. f \in [1..0 -> Seq(B)] /\ Len(SubSeq(ss, 1, 0)) = 0
    OBVIOUS
  <2>2. Flattens(f, SubSeq(ss, 1, 0))
    BY <2>1 DEF Flattens
  <2> QED  BY <2>1, <2>2
<1>2. ASSUME NEW n \in Nat, n \in S PROVE n + 1 \in S
  <2> SUFFICES ASSUME n + 1 <= Len(ss) PROVE Runs(n + 1)
    OBVIOUS
  <2> DEFINE tt == SubSeq(ss, 1, n)
  <2>1. PICK f \in [1..n -> Seq(B)] : Flattens(f, tt)
    BY <1>2
  <2>2. /\ tt \in Seq(Seq(B)) /\ Len(tt) = n /\ ss[n + 1] \in Seq(B)
        /\ Append(tt, ss[n + 1]) = SubSeq(ss, 1, n + 1)
    OBVIOUS
  <2> HIDE DEF tt
  <2>3. PICK g \in [1..Len(tt) + 1 -> Seq(B)] : Flattens(g, Append(tt, ss[n + 1]))
    BY <2>1, <2>2, FlattensOneMore
  <2> QED  BY <2>2, <2>3
<1> HIDE DEF S
<1>3. \A n \in Nat : n \in S
  BY <1>1, <1>2, NatInductionOnSets
<1>4. Runs(Len(ss))
  BY <1>3 DEF S
<1>5. SubSeq(ss, 1, Len(ss)) = ss
  OBVIOUS
<1> QED  BY <1>4, <1>5

\* Flattening keeps the set the elements are of,
LEMMA FlattenType ==
  ASSUME NEW B, NEW ss \in Seq(Seq(B))
  PROVE  FlattenSeq(ss) \in Seq(B)
<1>1. CASE ss = <<>>
  BY <1>1 DEF FlattenSeq
<1>2. CASE ss # <<>>
  <2>1. PICK f \in [1..Len(ss) -> Seq(B)] : Flattens(f, ss)
    BY FlattensExists
  <2> QED  BY <1>2, <2>1, FlattenedBy
<1> QED  BY <1>1, <1>2

\* and a sequence more is appended to the result.
LEMMA FlattenAppend ==
  ASSUME NEW B, NEW ss \in Seq(Seq(B)), NEW s \in Seq(B)
  PROVE  FlattenSeq(Append(ss, s)) = FlattenSeq(ss) \o s
<1>1. PICK f \in [1..Len(ss) -> Seq(B)] : Flattens(f, ss)
  BY FlattensExists
<1>2. PICK g \in [1..Len(ss) + 1 -> Seq(B)] :
           /\ Flattens(g, Append(ss, s))
           /\ g[Len(ss) + 1] = IF ss = <<>> THEN s ELSE f[Len(ss)] \o s
  BY <1>1, FlattensOneMore
<1>3. Len(Append(ss, s)) = Len(ss) + 1 /\ Len(ss) + 1 \in Nat \ {0}
  OBVIOUS
<1>4. FlattenSeq(Append(ss, s)) = g[Len(ss) + 1]
  BY <1>2, <1>3, FlattenedBy
<1>5. CASE ss = <<>>
  <2>1. FlattenSeq(ss) = <<>>
    BY <1>5 DEF FlattenSeq
  <2>2. <<>> \o s = s
    OBVIOUS
  <2> QED BY <1>2, <1>4, <1>5, <2>1, <2>2
<1>6. CASE ss # <<>>
  <2>1. FlattenSeq(ss) = f[Len(ss)]
    <3>1. Len(ss) \in Nat \ {0}
      BY <1>6
    <3> QED  BY <1>1, <3>1, FlattenedBy
  <2> QED BY <1>2, <1>4, <1>6, <2>1
<1> QED  BY <1>5, <1>6

(***************************************************************************)
(* A capture keeps its limit, and what it lost it says: as long as it is   *)
(* not truncated it holds everything that was appended                     *)
(* (sandbox/resource-policy.ts).                                           *)
(***************************************************************************)
THEOREM CaptureKeepsOrTells ==
    ASSUME NEW B, NEW c \in [bytes : Seq(B), truncated : BOOLEAN], NEW chunk \in Seq(B),
           Len(c.bytes) <= PatchLimit
    PROVE  LET a == Captured(c, chunk) IN
           /\ a \in [bytes : Seq(B), truncated : BOOLEAN]
           /\ Len(a.bytes) <= PatchLimit
           /\ ~a.truncated => ~c.truncated /\ a.bytes = c.bytes \o chunk
<1> DEFINE bytes == c.bytes
           room == PatchLimit - Len(bytes)
           kept == IF Len(chunk) <= room THEN Len(chunk) ELSE room
           head == SubSeq(chunk, 1, kept)
<1>1. /\ bytes \in Seq(B) /\ c.truncated \in BOOLEAN
      /\ PatchLimit \in Nat /\ Len(bytes) \in Nat /\ Len(chunk) \in Nat
  BY LimitsArePositive
<1>2. kept \in 0..Len(chunk) /\ kept <= room /\ room \in Nat
  BY <1>1
<1>3. head \in Seq(B) /\ Len(head) = kept
  BY <1>1, <1>2
<1>4. bytes \o head \in Seq(B) /\ Len(bytes \o head) = Len(bytes) + kept
  BY <1>3
<1>5. Len(bytes) + kept <= PatchLimit
  BY <1>1, <1>2
<1>6. ASSUME ~(Len(chunk) > room) PROVE head = chunk
  BY <1>1, <1>2, <1>6
<1>7. QED
  BY <1>4, <1>5, <1>6 DEF Captured

-----------------------------------------------------------------------------
(* Decoding, and what a capture that is appended to the patch leaves there. *)

\* A piece of a text is a byte of it, or what replaces one.
Pieces(s) ==
    [k \in 1..Len(s) |->
        IF \/ s[k] \in {"a", "u", "f", "d"}
           \/ s[k] = "h" /\ k < Len(s) /\ s[k + 1] = "t"
           \/ s[k] = "t" /\ k > 1 /\ s[k - 1] = "h"
        THEN <<s[k]>>
        ELSE Replacement]

\* Decoding replaces byte by byte.
LEMMA PiecesAre ==
    ASSUME NEW s \in Seq(Bytes)
    PROVE  /\ Decoded(s) = FlattenSeq(Pieces(s))
           /\ Pieces(s) \in Seq(Seq(Bytes))
           /\ Len(Pieces(s)) = Len(s)
           /\ \A k \in 1..Len(s) : Pieces(s)[k] \in {<<s[k]>>, Replacement}
<1>1. Decoded(s) = FlattenSeq(Pieces(s))
  BY DEF Decoded, Pieces
<1>2. Replacement \in Seq(Bytes) /\ \A k \in 1..Len(s) : <<s[k]>> \in Seq(Bytes)
  BY DEF Replacement, Bytes
<1>3. \A k \in 1..Len(s) : Pieces(s)[k] \in {<<s[k]>>, Replacement}
  BY DEF Pieces
<1>4. Pieces(s) = [k \in 1..Len(s) |-> Pieces(s)[k]]
  BY DEF Pieces
<1>5. Pieces(s) \in [1..Len(s) -> Seq(Bytes)]
  BY <1>2, <1>3, <1>4
<1> QED
  BY <1>1, <1>3, <1>5

\* What is decoded is text.
LEMMA DecodedType == ASSUME NEW s \in Seq(Bytes) PROVE Decoded(s) \in Seq(Bytes)
  BY PiecesAre, FlattenType

\* The length of a concatenation.
LEMMA Concatenated ==
    ASSUME NEW B, NEW s \in Seq(B), NEW t \in Seq(B)
    PROVE  s \o t \in Seq(B) /\ Len(s \o t) = Len(s) + Len(t)
  OBVIOUS

\* Decoding never makes a text shorter, and one that does not grow is all characters.
LEMMA DecodedKeeps ==
    ASSUME NEW s \in Seq(Bytes)
    PROVE  /\ Len(Decoded(s)) >= Len(s)
           /\ Len(Decoded(s)) = Len(s) => Decoded(s) = s
<1> DEFINE N == Len(s)
           ps == Pieces(s)
<1>1. /\ N \in Nat /\ ps \in Seq(Seq(Bytes)) /\ Len(ps) = N
      /\ Decoded(s) = FlattenSeq(ps)
      /\ \A k \in 1..N : ps[k] \in {<<s[k]>>, Replacement}
  BY PiecesAre
<1> HIDE DEF ps
<1>2. CASE N = 0
  BY <1>1, <1>2 DEF FlattenSeq
<1>3. CASE N # 0
  <2>1. PICK f \in [1..N -> Seq(Bytes)] : Flattens(f, ps)
    BY <1>1, FlattensExists
  <2> DEFINE Holds(n) == Len(f[n]) >= n /\ (Len(f[n]) = n => f[n] = SubSeq(s, 1, n))
             S == {n \in Nat : n \in 1..N => Holds(n)}
  <2>2. 0 \in S
    OBVIOUS
  <2>3. ASSUME NEW n \in Nat, n \in S PROVE n + 1 \in S
    <3> SUFFICES ASSUME n + 1 \in 1..N PROVE Holds(n + 1)
      OBVIOUS
    <3> DEFINE m == n + 1
    <3>0. m \in 1..N /\ m \in Nat
      OBVIOUS
    <3>1. /\ ps[m] \in {<<s[m]>>, Replacement} /\ s[m] \in Bytes
          /\ f[m] \in Seq(Bytes)
      <4> HIDE DEF m, S
      <4>1. s[m] \in Bytes
        BY <3>0
      <4>2. f[m] \in Seq(Bytes)
        BY <3>0, <2>1
      <4> QED  BY <1>1, <3>0, <4>1, <4>2
    <3>2. CASE n = 0
      <4>1. f[1] = ps[1]
        <5>1. Len(ps) \in Nat /\ 1 \in 1..Len(ps)
          BY <1>1, <3>0, <3>2
        <5> QED  BY <2>1, <5>1, FlattensRuns
      <4>2. m = 1 /\ SubSeq(s, 1, 1) = <<s[1]>>
        <5>1. m = 1 /\ s \in Seq(Bytes) /\ 1 <= Len(s)
          BY <3>0, <3>2
        <5> HIDE DEF m, S, N
        <5>2. SubSeq(s, 1, 1) = <<s[1]>> \o SubSeq(s, 2, 1)
          BY <5>1, SubSeqRecursiveFirst
        <5>3. SubSeq(s, 2, 1) = <<>>
          BY <5>1, SubSeqEmpty
        <5>4. <<s[1]>> \o <<>> = <<s[1]>>
          OBVIOUS
        <5> QED  BY <5>1, <5>2, <5>3, <5>4
      <4>3. Len(Replacement) = 3
        BY DEF Replacement
      <4>4. Len(<<s[1]>>) = 1
        OBVIOUS
      <4> HIDE DEF m
      <4>5. f[1] \in {<<s[1]>>, Replacement}
        BY <3>1, <4>1, <4>2
      <4>6. Holds(1)
        <5> DEFINE one == SubSeq(s, 1, 1)
        <5>1. one = <<s[1]>> /\ Len(one) = 1 /\ Len(Replacement) = 3
          BY <4>2, <4>3, <4>4
        <5>2. f[1] = one \/ f[1] = Replacement
          BY <4>2, <4>5
        <5> HIDE DEF one, S, N, m
        <5>3. Len(f[1]) >= 1 /\ (Len(f[1]) = 1 => f[1] = one)
          <6>1. CASE f[1] = one
            <7>1. Len(f[1]) = 1
              BY <5>1, <6>1, Zenon
            <7> QED  BY <6>1, <7>1, 1 >= 1, Zenon
          <6>2. CASE f[1] = Replacement
            <7>1. Len(f[1]) = 3
              BY <5>1, <6>2, Zenon
            <7> QED  BY <7>1
          <6> QED  BY <5>2, <6>1, <6>2, Zenon
        <5> QED  BY <5>3 DEF one
      <4> QED  BY <4>2, <4>6 DEF m
    <3>3. CASE n # 0
      <4>1. n \in 1..N /\ Holds(n) /\ f[n] \in Seq(Bytes)
        <5>1. n \in 1..N
          BY <1>1, <3>0, <3>3
        <5>2. Holds(n)
          BY <2>3, <5>1
        <5>3. f[n] \in Seq(Bytes)
          BY <2>1, <5>1
        <5> QED  BY <5>1, <5>2, <5>3
      <4>2. f[n + 1] = f[n] \o ps[n + 1]
        BY <1>1, <2>1, <3>3, FlattensRuns
      <4>3. CASE ps[n + 1] = Replacement
        <5>1. Replacement \in Seq(Bytes) /\ Len(Replacement) = 3
          BY DEF Replacement, Bytes
        <5>2. Len(f[n + 1]) = Len(f[n]) + 3
          <6>1. Len(f[n] \o Replacement) = Len(f[n]) + 3
            BY <4>1, <5>1, Concatenated
          <6> QED  BY <4>2, <4>3, <6>1
        <5> QED  BY <4>1, <5>2
      <4>4. CASE ps[n + 1] = <<s[n + 1]>>
        <5>1. Len(f[n + 1]) = Len(f[n]) + 1
          BY <3>1, <4>1, <4>2, <4>4
        <5>2. ASSUME Len(f[n]) = n PROVE f[n + 1] = SubSeq(s, 1, n + 1)
          <6>1. f[n + 1] = SubSeq(s, 1, n) \o <<s[n + 1]>>
            BY <4>1, <4>2, <4>4, <5>2
          <6> QED  BY <6>1
        <5> QED  BY <4>1, <5>1, <5>2
      <4> QED  BY <3>1, <4>3, <4>4
    <3> QED  BY <3>2, <3>3
  <2> HIDE DEF S
  <2>4. \A n \in Nat : n \in S
    BY <2>2, <2>3, NatInductionOnSets
  <2>5. Holds(N)
    BY <1>1, <1>3, <2>4 DEF S
  <2>6. Decoded(s) = f[N]
    BY <1>1, <1>3, <2>1, FlattenedBy
  <2>7. SubSeq(s, 1, N) = s
    OBVIOUS
  <2> QED  BY <2>5, <2>6, <2>7
<1> QED
  BY <1>2, <1>3

\* A call's capture is appended to the patch whole, or the patch is truncated.
LEMMA AppendKeepsOrTells ==
    ASSUME NEW c \in [bytes : Seq(Bytes), truncated : BOOLEAN], Len(c.bytes) <= PatchLimit,
           NEW output \in Seq(Bytes)
    PROVE  LET a == AppendPatchCapture(c, output) IN
           /\ a \in [bytes : Seq(Bytes), truncated : BOOLEAN]
           /\ Len(a.bytes) <= PatchLimit
           /\ ~a.truncated => ~c.truncated /\ a.bytes = c.bytes \o Decoded(output)
<1> DEFINE Captures == [bytes : Seq(Bytes), truncated : BOOLEAN]
           source == Captured(Empty, output)
           text   == Decoded(source.bytes)
           target == Captured(c, text)
           marked == Captured(target, <<"a">>)
<1>2. \A b \in Captures, chunk \in Seq(Bytes) : Len(b.bytes) <= PatchLimit =>
        /\ Captured(b, chunk) \in Captures
        /\ Len(Captured(b, chunk).bytes) <= PatchLimit
        /\ ~Captured(b, chunk).truncated =>
             ~b.truncated /\ Captured(b, chunk).bytes = b.bytes \o chunk
  BY CaptureKeepsOrTells, Zenon
<1>3. Empty \in Captures /\ Len(Empty.bytes) <= PatchLimit /\ Empty.bytes = <<>>
  BY LimitsArePositive DEF Empty
<1>4. /\ source \in Captures
      /\ ~source.truncated => source.bytes = output
  <2>1. /\ source \in Captures
        /\ ~source.truncated => source.bytes = <<>> \o output
    BY <1>2, <1>3, Zenon
  <2>2. <<>> \o output = output
    OBVIOUS
  <2> QED  BY <2>1, <2>2, Zenon
<1>5. text \in Seq(Bytes)
  BY <1>4, DecodedType
<1> HIDE DEF source
<1>6. /\ target \in Captures /\ Len(target.bytes) <= PatchLimit
      /\ ~target.truncated => ~c.truncated /\ target.bytes = c.bytes \o text
  BY <1>2, <1>5
<1>7. <<"a">> \in Seq(Bytes) /\ Len(<<"a">>) = 1
  BY DEF Bytes
<1> HIDE DEF text, target
<1>8. marked \in Captures /\ Len(marked.bytes) <= PatchLimit
  BY <1>2, <1>6, <1>7
<1>9. AppendPatchCapture(c, output) = IF source.truncated THEN marked ELSE target
  BY DEF AppendPatchCapture, source, text, target
<1>10. ~source.truncated => text = Decoded(output)
  BY <1>4 DEF text
<1> HIDE DEF marked
<1>11. ASSUME source.truncated, ~target.truncated PROVE marked.truncated
  <2>1. Len(source.bytes) = PatchLimit
    <3>1. /\ Captured(Empty, output).truncated = (Len(output) > PatchLimit)
          /\ Len(output) > PatchLimit =>
               Captured(Empty, output).bytes = <<>> \o SubSeq(output, 1, PatchLimit)
      BY LimitsArePositive DEF Captured, Empty
    <3>2. Len(output) > PatchLimit /\ source.bytes = <<>> \o SubSeq(output, 1, PatchLimit)
      BY <1>11, <3>1 DEF source
    <3>3. /\ PatchLimit \in Nat /\ PatchLimit <= Len(output)
          /\ SubSeq(output, 1, PatchLimit) \in Seq(Bytes)
          /\ Len(SubSeq(output, 1, PatchLimit)) = PatchLimit
      BY <3>2, LimitsArePositive
    <3>4. <<>> \o SubSeq(output, 1, PatchLimit) = SubSeq(output, 1, PatchLimit)
      BY <3>3
    <3> QED  BY <3>2, <3>3, <3>4
  <2>2. Len(text) >= PatchLimit
    BY <1>4, <2>1, DecodedKeeps DEF text
  <2>3. Len(target.bytes) = PatchLimit
    BY <1>5, <1>6, <1>11, <2>2, LimitsArePositive
  <2>4. marked.truncated = (target.truncated \/ Len(<<"a">>) > PatchLimit - Len(target.bytes))
    BY DEF marked, Captured
  <2>5. Len(<<"a">>) > PatchLimit - Len(target.bytes)
    BY <1>7, <2>3, LimitsArePositive
  <2> QED  BY <2>4, <2>5
<1>12. target.truncated => marked.truncated
  BY DEF marked, Captured
<1> QED
  BY <1>6, <1>8, <1>9, <1>10, <1>11, <1>12

-----------------------------------------------------------------------------
(* The invariant behind VerdictsAreTrue.                                    *)

Local == {"detect", "names", "others", "diff", "untracked", "build"}

Kinds ==
    /\ pc \in Awaits \cup Verdicts \cup {"down"}
    /\ tampered \in BOOLEAN
    /\ confirmed \in BOOLEAN
    /\ made # Nothing => made.identity = "ours" /\ made.checksum = made.patch

\* Before it is built there is nothing to store, confirm or change.
NothingYet ==
    pc \in Local => /\ made = Nothing /\ request = Nothing /\ object = Nothing
                    /\ ~confirmed /\ ~tampered

\* Nobody else stores under the key.
StoredIsMade ==
    /\ request \in {Nothing, made}
    /\ \/ object \in {Nothing, made}
       \/ object.identity # "ours"
       \/ object.checksum # object.patch
       \/ ~OutcomeMatchesChangeSet(object)
    /\ ~tampered => object \in {Nothing, made}

\* What the process holds.
InHand ==
    /\ pc \in {"put", "answer", "confirm"} => artifact = made /\ made # Nothing
    /\ pc \in {"success", "recovered"} =>
         /\ artifact = made /\ made # Nothing
         /\ ~tampered => object = made

\* What was confirmed stays.
Stays == confirmed /\ ~tampered => object = made /\ made # Nothing

Inv ==
    /\ Kinds
    /\ NothingYet
    /\ StoredIsMade
    /\ InHand
    /\ Stays
    /\ pc = "absent" /\ ~tampered => ~confirmed

USE DEF Document, Nothing, Awaits, Verdicts, Local

\* What an action outside the bucket leaves alone.
Untouched == UNCHANGED <<artifact, request, object, bucket, tampered, made, confirmed>>

\* The invariant is kept by whatever leaves the bucket and the artifact alone.
LEMMA StaysOutside ==
    ASSUME Inv, Untouched, pc \in Local, pc' \in Local \cup {"down", "failure"}
    PROVE  Inv'
  BY DEF Inv, Kinds, NothingYet, StoredIsMade, InHand, Stays, Untouched

\* Inv holds at the start and is kept by every action.
LEMMA InitEstablishes == Init => Inv
<1> SUFFICES ASSUME Init PROVE Inv
  OBVIOUS
<1>2. /\ pc = "detect" /\ tampered = FALSE /\ confirmed = FALSE
      /\ made = Nothing /\ request = Nothing /\ object = Nothing
  BY DEF Init
<1>3. Kinds /\ NothingYet /\ InHand /\ Stays
  BY <1>2 DEF Kinds, NothingYet, InHand, Stays
<1>4. StoredIsMade
  BY <1>2 DEF StoredIsMade
<1>5. QED
  BY <1>2, <1>3, <1>4 DEF Inv

LEMMA CollectingKeeps == ASSUME Inv, Collecting PROVE Inv'
<1>1. CASE DetectChanges \/ ListTracked \/ DiffTracked \/ Collected
  <2>1. pc \in Local /\ pc' \in Local /\ Untouched
    BY <1>1 DEF DetectChanges, ListTracked, DiffTracked, Collected, outside, storage, Untouched
  <2>2. QED
    BY <2>1, StaysOutside
<1>2. CASE ListUntracked
  <2>1. pc \in Local /\ pc' \in Local \cup {"down"} /\ Untouched
    BY <1>2 DEF ListUntracked, Throw, outside, storage, Untouched
  <2>2. QED
    BY <2>1, StaysOutside
<1>3. ASSUME NEW p \in PathSet, DiffUntracked(p) PROVE Inv'
  <2>1. pc \in Local /\ pc' \in Local \cup {"down"} /\ Untouched
    BY <1>3 DEF DiffUntracked, Throw, outside, storage, Untouched
  <2>2. QED
    BY <2>1, StaysOutside
<1>4. CASE GitFails
  <2>1. pc \in Local /\ pc' \in {"down", "failure"} /\ Untouched
    BY <1>4 DEF GitFails, Throw, outside, storage, Untouched
  <2>2. QED
    BY <2>1, StaysOutside
<1>5. QED
  BY <1>1, <1>2, <1>3, <1>4 DEF Collecting

LEMMA StoringKeeps == ASSUME Inv, Storing PROVE Inv'
<1> USE DEF Inv, Kinds, NothingYet, StoredIsMade, InHand, Stays
<1>1. CASE BuildArtifact
  <2> DEFINE built == Artifact(ChangedFiles, Decoded(patch.bytes))
  <2>1. built.identity = "ours" /\ built.checksum = built.patch
    BY DEF Artifact
  <2>2. UNCHANGED <<request, object, tampered, confirmed>>
    BY <1>1 DEF BuildArtifact, storage
  <2>3. pc = "build" /\ pc' \in {"put", "failure"} /\ made = Nothing
    BY <1>1 DEF BuildArtifact
  <2>4. \/ artifact' = made' /\ made'.identity = "ours" /\ made'.checksum = made'.patch
        \/ pc' = "failure" /\ made' = Nothing
    BY <1>1, <2>1, <2>3 DEF BuildArtifact
  <2>5. made' # Nothing \/ pc' = "failure"
    BY <2>4
  <2>6. QED
    BY <2>2, <2>3, <2>4, <2>5
<1>2. CASE PutObject
  BY <1>2 DEF PutObject, local
<1>3. CASE PutLands
  BY <1>3 DEF PutLands, local
<1>4. CASE Tamper
  <2>1. /\ ~tampered /\ tampered' = TRUE /\ object # Nothing
        /\ UNCHANGED <<pc, made, artifact, request, confirmed>>
    BY <1>4 DEF Tamper, local
  <2>2. object = made /\ made.checksum = made.patch
    BY <2>1
  <2>3. \/ object' = Nothing
        \/ object'.identity # "ours"
        \/ object'.checksum # object'.patch
        \/ ~OutcomeMatchesChangeSet(object)'
    <3>1. CASE object' \in {Nothing, Foreign, Garbage}
      BY <3>1 DEF Foreign, Garbage
    <3>2. ASSUME NEW text \in {<<>>, <<"u">>} \ {object.patch},
                 object' = Document(object.identity, object.outcome, object.changed,
                                    object.checksum, text)
          PROVE  object'.checksum # object'.patch
      BY <2>2, <3>2
    <3>3. CASE object' = Document(object.identity, "changes_ready", {}, object.checksum, object.patch)
      <4>1. object'.outcome = "changes_ready" /\ object'.changed = {}
        BY <3>3
      <4>2. QED
        BY <4>1 DEF OutcomeMatchesChangeSet
    <3>4. QED
      BY <1>4, <3>1, <3>2, <3>3 DEF Tamper, Damaged
  <2>4. pc \notin Local
    BY <2>1
  <2>5. QED
    BY <2>1, <2>3, <2>4
<1>5. ASSUME NEW status \in Statuses, PutAnswered(status) PROVE Inv'
  <2>1. pc = "answer" /\ pc' \in {"confirm", "failure"}
    BY <1>5 DEF PutAnswered
  <2>2. UNCHANGED <<made, artifact, object, tampered, confirmed>>
    BY <1>5 DEF PutAnswered, local
  <2>3. request' \in {request, Nothing}
    BY <1>5 DEF PutAnswered
  <2>4. QED
    BY <2>1, <2>2, <2>3
<1>6. ASSUME NEW status \in Statuses, ConfirmByHead(status) PROVE Inv'
  <2>1. pc = "confirm" /\ UNCHANGED <<made, artifact, request, object, tampered>>
    BY <1>6 DEF ConfirmByHead, local, storage
  <2>2. CASE pc' = "success" /\ confirmed' = TRUE /\ object = artifact
    BY <2>1, <2>2
  <2>3. CASE pc' = "failure" /\ confirmed' = confirmed
    BY <2>1, <2>3
  <2>4. QED
    BY <1>6, <2>2, <2>3 DEF ConfirmByHead, StorageConfirms, HeadMatches
<1>7. QED
  BY <1>1, <1>2, <1>3, <1>4, <1>5, <1>6 DEF Storing

LEMMA RecoveringKeeps == ASSUME Inv, Recovering PROVE Inv'
<1> USE DEF Inv, Kinds, NothingYet, StoredIsMade, InHand, Stays
<1>1. CASE Crash \/ StopUnresolved \/ Start
  <2>1. pc' \in {"down", "head"} /\ UNCHANGED <<made, request, object, tampered, confirmed>>
    BY <1>1 DEF Crash, StopUnresolved, Start, storage
  <2>2. QED
    BY <2>1
<1>2. ASSUME NEW status \in Statuses, Answers(status), Absent(status) PROVE object = Nothing
  <2>1. status = 404
    BY <1>2 DEF Absent, MapAwsS3Error
  <2>2. QED
    BY <1>2, <2>1 DEF Answers, Failures, NoStatus, RequestTimeout
<1>3. ASSUME NEW status \in Statuses, RecoverHead(status) PROVE Inv'
  <2>1. UNCHANGED <<made, request, object, tampered, confirmed>>
    BY <1>3 DEF RecoverHead, local, storage
  <2>2. \/ pc' \in {"get", "unknown"}
        \/ pc' = "absent" /\ object = Nothing
    BY <1>2, <1>3 DEF RecoverHead
  <2>3. QED
    BY <2>1, <2>2
<1>4. ASSUME NEW status \in Statuses, RecoverGet(status) PROVE Inv'
  <2>1. UNCHANGED <<made, artifact, request, object, tampered, confirmed>>
    BY <1>4 DEF RecoverGet, local, storage
  <2>2. \/ pc' = "unknown"
        \/ pc' = "absent" /\ object = Nothing
        \/ pc' = "recovered" /\ Recovers
    BY <1>2, <1>4 DEF RecoverGet
  <2>3. ASSUME Recovers PROVE object = artifact /\ object = made /\ made # Nothing
    <3>1. /\ object = artifact /\ object.identity = "ours"
          /\ object.checksum = object.patch /\ OutcomeMatchesChangeSet(object)
      BY <2>3 DEF Recovers, HeadMatches, IsOfThisExecution, BodyVerifies, Builds
    <3>2. object # Nothing
      BY <3>1
    <3>3. QED
      BY <3>1, <3>2
  <2>4. QED
    BY <2>1, <2>2, <2>3
<1>5. QED
  BY <1>1, <1>3, <1>4 DEF Recovering

LEMMA StepKeeps == Inv /\ [Next]_vars => Inv'
<1> SUFFICES ASSUME Inv, [Next]_vars PROVE Inv'
  OBVIOUS
<1>1. ASSUME NEW p \in PathSet, Scribble(p) PROVE Inv'
  <2>1. pc \in Local /\ pc' \in Local /\ Untouched
    BY <1>1 DEF Scribble, storage, Untouched
  <2>2. QED
    BY <2>1, StaysOutside
<1>2. CASE UNCHANGED vars
  BY <1>2 DEF vars, storage, Inv, Kinds, NothingYet, StoredIsMade, InHand, Stays
<1>3. QED
  BY <1>1, <1>2, CollectingKeeps, StoringKeeps, RecoveringKeeps DEF Next

\* What the verdicts rely on holds in every reachable state.
THEOREM Invariant == Spec => []Inv
  BY InitEstablishes, StepKeeps, PTL DEF Spec

(***************************************************************************)
(* What the success finalizer is given is the artifact of the attempt,     *)
(* stored and whole, and a confirmed artifact is never taken for absent,   *)
(* for any files, limits, failures of S3 and restarts                      *)
(* (artifact/s3-persistence.ts, phase49-artifact-reconciler.ts).           *)
(***************************************************************************)
THEOREM VerdictsHold == Spec => []VerdictsAreTrue
<1>1. Inv => VerdictsAreTrue
  BY DEF Inv, InHand, VerdictsAreTrue
<1>2. QED
  BY <1>1, Invariant, PTL
-----------------------------------------------------------------------------
(* The invariant behind ArtifactIsWhatGitSaid and TypeOK.                   *)

\* What was said, in the characters a patch is made of.
Heard(spoken) == [k \in 1..Len(spoken) |-> Decoded(spoken[k])]

\* What the collection knows at each of its steps: a patch that is not truncated is
\* all that was said, and the lists are those of the files as long as nobody writes.
Gathered ==
    /\ pc \in {"detect", "names", "others"} => others = {} /\ undiffed = {}
    /\ pc \in {"detect", "names", "others", "diff"} => patch = Empty /\ said = <<>>
    /\ pc \in Local \ {"detect"} => outcome # "none"
    /\ pc \in Local /\ ~patch.truncated => patch.bytes = FlattenSeq(Heard(said))
    /\ scribbles = 0 /\ pc \in {"others", "diff", "untracked", "build"} =>
         tracked = OfKind("tracked")
    /\ scribbles = 0 /\ pc \in {"diff", "untracked", "build"} =>
         others = OfKind("untracked")

Whole == TypeOK /\ Gathered /\ ArtifactIsWhatGitSaid

\* One output more is heard as one text more.
LEMMA HeardMore ==
    ASSUME NEW spoken \in Seq(Seq(Bytes)), NEW output \in Seq(Bytes)
    PROVE  /\ Heard(spoken) \in Seq(Seq(Bytes))
           /\ Heard(Append(spoken, output)) = Append(Heard(spoken), Decoded(output))
<1> DEFINE N == Len(spoken)
           more == Append(spoken, output)
<1>1. N \in Nat /\ Len(more) = N + 1 /\ more[N + 1] = output
  OBVIOUS
<1>2. \A k \in 1..N : more[k] = spoken[k] /\ spoken[k] \in Seq(Bytes)
  OBVIOUS
<1> HIDE DEF more
<1>3. \A k \in 1..N : Decoded(spoken[k]) \in Seq(Bytes)
  BY <1>2, DecodedType
<1>4. Heard(spoken) = [k \in 1..N |-> Decoded(spoken[k])]
  BY DEF Heard
<1>5. Heard(spoken) \in Seq(Seq(Bytes)) /\ Len(Heard(spoken)) = N
  BY <1>1, <1>3, <1>4
<1>6. Heard(more) = [k \in 1..N + 1 |-> Decoded(more[k])]
  BY <1>1 DEF Heard
<1>7. /\ Append(Heard(spoken), Decoded(output)) \in Seq(Seq(Bytes))
      /\ Len(Append(Heard(spoken), Decoded(output))) = N + 1
      /\ Append(Heard(spoken), Decoded(output))[N + 1] = Decoded(output)
      /\ \A k \in 1..N : Append(Heard(spoken), Decoded(output))[k] = Heard(spoken)[k]
  BY <1>5, DecodedType, AppendProperties
<1>8. \A k \in 1..N + 1 : Append(Heard(spoken), Decoded(output))[k] = Decoded(more[k])
  <2>1. \A k \in 1..N : Append(Heard(spoken), Decoded(output))[k] = Decoded(more[k])
    BY <1>2, <1>4, <1>7
  <2>2. \A k \in 1..N + 1 : k \in 1..N \/ k = N + 1
    BY <1>1
  <2> QED  BY <1>1, <1>7, <2>1, <2>2
<1>9. Append(Heard(spoken), Decoded(output))
        = [k \in 1..N + 1 |-> Append(Heard(spoken), Decoded(output))[k]]
  BY <1>7, LenProperties
<1> QED
  BY <1>5, <1>6, <1>8, <1>9 DEF more

\* What git prints is text.
LEMMA GitPrintsText ==
    ASSUME files \in [PathSet -> Changes \cup {Unchanged}]
    PROVE  /\ \A p \in PathSet : files[p].diff \in Seq(Bytes)
           /\ \A S \in SUBSET PathSet : DiffsOf(S) \in Seq(Bytes)
<1>1. Diffs \subseteq Seq(Bytes) /\ <<>> \in Seq(Bytes)
  BY GitPrintsBytes DEF Bytes
<1>2. ASSUME NEW p \in PathSet PROVE files[p].diff \in Seq(Bytes)
  <2>1. CASE files[p] \in Changes
    <3>1. files[p].diff \in Diffs
      BY <2>1 DEF Changes
    <3> QED  BY <1>1, <3>1
  <2>2. CASE files[p] = Unchanged
    <3>1. files[p].diff = <<>>
      BY <2>2 DEF Unchanged
    <3> QED  BY <1>1, <3>1
  <2> QED  BY <2>1, <2>2
<1>3. ASSUME NEW S \in SUBSET PathSet PROVE DiffsOf(S) \in Seq(Bytes)
  <2> DEFINE Part(k) == IF Paths[k] \in S THEN files[Paths[k]].diff ELSE <<>>
             parts   == [k \in 1..Len(Paths) |-> Part(k)]
  <2>1. Len(Paths) \in Nat
    BY PathsAreListed
  <2>2. \A k \in 1..Len(Paths) : Part(k) \in Seq(Bytes)
    BY <1>1, <1>2
  <2> HIDE DEF Part
  <2>3. parts \in Seq(Seq(Bytes))
    BY <2>1, <2>2
  <2>4. FlattenSeq(parts) \in Seq(Bytes)
    BY <2>3, FlattenType
  <2> QED  BY <2>4 DEF DiffsOf, Part
<1> QED
  BY <1>2, <1>3

\* Whole holds at the start,
LEMMA InitIsWhole == Init => Whole
<1> SUFFICES ASSUME Init PROVE Whole
  OBVIOUS
<1>1. Empty \in [bytes : Seq(Bytes), truncated : BOOLEAN] /\ Len(Empty.bytes) <= PatchLimit
  BY LimitsArePositive DEF Empty
<1>2. TypeOK
  <2>1. patch \in [bytes : Seq(Bytes), truncated : BOOLEAN] /\ Len(patch.bytes) <= PatchLimit
    BY <1>1 DEF Init
  <2>2. said \in Seq(Seq(Bytes))
    BY DEF Init
  <2>3. scribbles \in 0..MaxScribbles /\ faults \in 0..MaxFaults
    BY Bounds DEF Init
  <2> QED  BY <2>1, <2>2, <2>3 DEF Init, TypeOK
<1>3. Heard(<<>>) = <<>> /\ FlattenSeq(<<>>) = <<>>
  BY DEF Heard, FlattenSeq
<1>4. Gathered
  BY <1>3 DEF Init, Gathered, Empty
<1>5. ArtifactIsWhatGitSaid
  BY DEF Init, ArtifactIsWhatGitSaid
<1> QED
  BY <1>2, <1>4, <1>5 DEF Whole

\* Once the artifact is built, or the process is down, nothing is gathered any more.
LEMMA GatheredStays ==
    ASSUME Gathered, ArtifactIsWhatGitSaid, UNCHANGED <<files, scribbles, said, made>>,
           pc' \notin Local
    PROVE  Gathered' /\ ArtifactIsWhatGitSaid'
<1>1. Gathered'
  BY DEF Gathered
<1>2. ArtifactIsWhatGitSaid'
  BY DEF ArtifactIsWhatGitSaid, OfKind
<1> QED
  BY <1>1, <1>2

\* Before, there is no artifact.
LEMMA NoArtifactYet ==
    ASSUME Inv, pc \in Local, made' = made
    PROVE  ArtifactIsWhatGitSaid'
  BY DEF Inv, NothingYet, ArtifactIsWhatGitSaid

\* What a git call printed is appended to the patch and to what was said.
LEMMA PatchGrows ==
    ASSUME TypeOK, NEW output \in Seq(Bytes), patch' = AppendPatchCapture(patch, output),
           said' = Append(said, output),
           ~patch.truncated => patch.bytes = FlattenSeq(Heard(said))
    PROVE  /\ patch' \in [bytes : Seq(Bytes), truncated : BOOLEAN]
           /\ Len(patch'.bytes) <= PatchLimit
           /\ said' \in Seq(Seq(Bytes))
           /\ ~patch'.truncated => patch'.bytes = FlattenSeq(Heard(said'))
<1>1. /\ patch \in [bytes : Seq(Bytes), truncated : BOOLEAN] /\ Len(patch.bytes) <= PatchLimit
      /\ said \in Seq(Seq(Bytes))
  BY DEF TypeOK
<1>2. /\ patch' \in [bytes : Seq(Bytes), truncated : BOOLEAN]
      /\ Len(patch'.bytes) <= PatchLimit
      /\ ~patch'.truncated => ~patch.truncated /\ patch'.bytes = patch.bytes \o Decoded(output)
  BY <1>1, AppendKeepsOrTells, Zenon
<1>3. FlattenSeq(Heard(Append(said, output))) = FlattenSeq(Heard(said)) \o Decoded(output)
  BY <1>1, HeardMore, DecodedType, FlattenAppend
<1> QED
  BY <1>1, <1>2, <1>3

\* is kept by the collection,
LEMMA CollectingIsWhole == ASSUME Inv, Whole, Collecting PROVE Whole'
<1> USE DEF Whole
<1>0. pc \in Local
  BY DEF Collecting, DetectChanges, ListTracked, ListUntracked, DiffTracked, DiffUntracked,
         Collected, GitFails
<1>1. UNCHANGED <<files, scribbles, artifact, request, object, bucket, tampered, made, confirmed>>
  BY DEF Collecting, DetectChanges, ListTracked, ListUntracked, DiffTracked, DiffUntracked,
         Collected, GitFails, Throw, outside, storage
<1>2. ArtifactIsWhatGitSaid'
  BY <1>0, <1>1, NoArtifactYet
<1>3. ASSUME pc' \in {"down", "failure"}, UNCHANGED collected, faults' \in 0..MaxFaults
      PROVE  Whole'
  <2>1. Gathered'
    BY <1>1, <1>3, GatheredStays DEF collected
  <2>2. TypeOK'
    BY <1>1, <1>3 DEF TypeOK, collected
  <2> QED  BY <1>2, <2>1, <2>2
<1>4. CASE DetectChanges
  <2>1. /\ pc = "detect" /\ pc' = "names" /\ outcome' \in {"changes_ready", "no_changes"}
        /\ UNCHANGED <<tracked, others, undiffed, patch, said, faults>>
    BY <1>4 DEF DetectChanges
  <2>2. TypeOK'
    BY <1>1, <2>1 DEF TypeOK
  <2>3. Gathered'
    BY <2>1 DEF Gathered
  <2> QED  BY <1>2, <2>2, <2>3
<1>5. CASE ListTracked
  <2>1. /\ pc = "names" /\ pc' = "others" /\ tracked' = OfKind("tracked")
        /\ UNCHANGED <<outcome, others, undiffed, patch, said, faults>>
    BY <1>5 DEF ListTracked
  <2>2. TypeOK'
    BY <1>1, <2>1 DEF TypeOK, Gathered, OfKind
  <2>3. OfKind("tracked")' = OfKind("tracked")
    BY <1>1 DEF OfKind
  <2>4. Gathered'
    BY <2>1, <2>3 DEF Gathered
  <2> QED  BY <1>2, <2>2, <2>4
<1>6. CASE ListUntracked
  <2>1. pc = "others" /\ faults' = faults
    BY <1>6 DEF ListUntracked
  <2>2. CASE Throw
    BY <1>3, <2>1, <2>2 DEF Throw, TypeOK
  <2>3. CASE ~Throw
    <3>1. /\ OfKind("untracked") \cap tracked = {} /\ others' = OfKind("untracked")
          /\ undiffed' = others' /\ pc' = "diff"
          /\ UNCHANGED <<outcome, tracked, patch, said>>
      BY <1>6, <2>3 DEF ListUntracked
    <3>2. TypeOK'
      BY <1>1, <2>1, <3>1 DEF TypeOK, OfKind
    <3>3. UNCHANGED <<OfKind("tracked"), OfKind("untracked")>>
      BY <1>1 DEF OfKind
    <3>4. Gathered'
      BY <1>1, <2>1, <3>1, <3>3 DEF Gathered
    <3> QED  BY <1>2, <3>2, <3>4
  <2> QED  BY <2>2, <2>3
<1>7. CASE DiffTracked
  <2> DEFINE output == DiffsOf(OfKind("tracked"))
  <2>1. /\ pc = "diff" /\ pc' = "untracked" /\ UNCHANGED <<outcome, tracked, others, undiffed, faults>>
        /\ patch' = AppendPatchCapture(patch, output) /\ said' = <<output>>
    BY <1>7 DEF DiffTracked
  <2>2. output \in Seq(Bytes)
    BY GitPrintsText DEF TypeOK, OfKind
  <2> HIDE DEF output
  <2>3. said = <<>> /\ said' = Append(said, output)
    BY <2>1, <2>2 DEF Gathered
  <2>4. ~patch.truncated => patch.bytes = FlattenSeq(Heard(said))
    BY <1>0 DEF Gathered
  <2>5. /\ patch' \in [bytes : Seq(Bytes), truncated : BOOLEAN]
        /\ Len(patch'.bytes) <= PatchLimit
        /\ said' \in Seq(Seq(Bytes))
        /\ ~patch'.truncated => patch'.bytes = FlattenSeq(Heard(said'))
    BY <2>1, <2>2, <2>3, <2>4, PatchGrows, Zenon
  <2>6. TypeOK'
    BY <1>1, <2>1, <2>5 DEF TypeOK
  <2>7. UNCHANGED <<OfKind("tracked"), OfKind("untracked")>>
    BY <1>1 DEF OfKind
  <2>8. Gathered'
    BY <1>1, <2>1, <2>5, <2>7 DEF Gathered
  <2> QED  BY <1>2, <2>6, <2>8
<1>8. ASSUME NEW p \in PathSet, DiffUntracked(p) PROVE Whole'
  <2>1. pc = "untracked" /\ faults' = faults /\ p \in undiffed
    BY <1>8 DEF DiffUntracked, NextUndiffed
  <2>2. CASE Throw
    BY <1>3, <2>1, <2>2 DEF Throw, TypeOK
  <2>3. CASE ~Throw
    <3> DEFINE output == files[p].diff
    <3>1. /\ patch' = AppendPatchCapture(patch, output) /\ said' = Append(said, output)
          /\ undiffed' = undiffed \ {p} /\ UNCHANGED <<pc, outcome, tracked, others>>
      BY <1>8, <2>3 DEF DiffUntracked
    <3>2. output \in Seq(Bytes)
      BY GitPrintsText DEF TypeOK
    <3> HIDE DEF output
    <3>3. ~patch.truncated => patch.bytes = FlattenSeq(Heard(said))
      BY <1>0 DEF Gathered
    <3>4. /\ patch' \in [bytes : Seq(Bytes), truncated : BOOLEAN]
          /\ Len(patch'.bytes) <= PatchLimit
          /\ said' \in Seq(Seq(Bytes))
          /\ ~patch'.truncated => patch'.bytes = FlattenSeq(Heard(said'))
      BY <3>1, <3>2, <3>3, PatchGrows, Zenon
    <3>5. TypeOK'
      BY <1>1, <2>1, <3>1, <3>4 DEF TypeOK
    <3>6. UNCHANGED <<OfKind("tracked"), OfKind("untracked")>>
      BY <1>1 DEF OfKind
    <3>7. Gathered'
      BY <1>1, <2>1, <3>1, <3>4, <3>6 DEF Gathered
    <3> QED  BY <1>2, <3>5, <3>7
  <2> QED  BY <2>2, <2>3
<1>9. CASE Collected
  <2>1. pc = "untracked" /\ pc' = "build" /\ UNCHANGED <<collected, faults>>
    BY <1>9 DEF Collected
  <2>2. TypeOK'
    BY <1>1, <2>1 DEF TypeOK, collected
  <2>3. UNCHANGED <<OfKind("tracked"), OfKind("untracked")>>
    BY <1>1 DEF OfKind
  <2>4. Gathered'
    BY <1>1, <2>1, <2>3 DEF Gathered, collected
  <2> QED  BY <1>2, <2>2, <2>4
<1>10. CASE GitFails
  <2>1. faults' \in 0..MaxFaults
    BY <1>10, Bounds DEF GitFails, Fault, TypeOK
  <2>2. pc' \in {"down", "failure"} /\ UNCHANGED collected
    BY <1>10 DEF GitFails, Throw
  <2> QED  BY <1>3, <2>1, <2>2
<1> QED
  BY <1>4, <1>5, <1>6, <1>7, <1>8, <1>9, <1>10 DEF Collecting

\* and by the build, where the artifact takes what was gathered.
LEMMA BuildIsWhole == ASSUME Inv, Whole, BuildArtifact PROVE Whole'
<1> USE DEF Whole
<1> DEFINE built == Artifact(ChangedFiles, Decoded(patch.bytes))
<1>1. /\ pc = "build" /\ pc' \in {"put", "failure"}
      /\ UNCHANGED <<files, scribbles, outcome, tracked, others, undiffed, patch, said,
                     request, object, bucket, tampered, faults, confirmed>>
  BY DEF BuildArtifact, collected, storage
<1>2. Gathered'
  BY <1>1 DEF Gathered
<1>3. CASE UNCHANGED <<artifact, made>>
  <2>1. TypeOK'
    BY <1>1, <1>3 DEF TypeOK
  <2>2. ArtifactIsWhatGitSaid'
    BY <1>1, <1>3, NoArtifactYet
  <2> QED  BY <1>2, <2>1, <2>2
<1>4. CASE ~UNCHANGED <<artifact, made>>
  <2>1. AssertBuildInput /\ Builds(built) /\ artifact' = built /\ made' = built
    BY <1>4 DEF BuildArtifact
  <2>2. /\ built.identity = "ours" /\ built.outcome = outcome
        /\ built.changed = ChangedFiles
        /\ built.checksum = Decoded(patch.bytes) /\ built.patch = Decoded(patch.bytes)
        /\ built = [identity |-> "ours", outcome |-> outcome, changed |-> ChangedFiles,
                    checksum |-> Decoded(patch.bytes), patch |-> Decoded(patch.bytes)]
    BY DEF Artifact
  <2>3. patch.bytes \in Seq(Bytes) /\ Decoded(patch.bytes) = patch.bytes
    BY <2>1, DecodedKeeps DEF TypeOK, AssertBuildInput
  <2>4. outcome \in {"changes_ready", "no_changes"}
    BY <1>1 DEF TypeOK, Gathered
  <2>5. ChangedFiles \subseteq PathSet \X {"tracked", "untracked"}
    BY DEF ChangedFiles, TypeOK
  <2>6. built \in Artifacts
    BY <2>2, <2>3, <2>4, <2>5 DEF Artifacts
  <2> HIDE DEF built
  <2>7. TypeOK'
    BY <1>1, <2>1, <2>6 DEF TypeOK
  <2>8. built.patch = FlattenSeq(Heard(said))
    BY <1>1, <2>1, <2>2, <2>3 DEF Gathered, AssertBuildInput
  <2>9. built.outcome = "no_changes" <=> built.changed = {}
    BY <2>1, <2>2, <2>4 DEF Builds, OutcomeMatchesChangeSet, NoChangesIsEmpty
  <2>10. ASSUME scribbles = 0
         PROVE  built.changed = {<<p, files[p].kind>> : p \in PathSet \ OfKind("same")}
    <3>1. tracked = OfKind("tracked") /\ others = OfKind("untracked")
      BY <1>1, <2>10 DEF Gathered
    <3>2. \A p \in PathSet : files[p].kind \in {"tracked", "untracked", "same"}
      BY DEF TypeOK, Changes, Unchanged
    <3>3. built.changed = (tracked \X {"tracked"}) \cup (others \X {"untracked"})
      BY <2>2 DEF ChangedFiles
    <3>4. tracked \X {"tracked"} = {<<p, files[p].kind>> : p \in OfKind("tracked")}
      BY <3>1 DEF OfKind
    <3>5. others \X {"untracked"} = {<<p, files[p].kind>> : p \in OfKind("untracked")}
      BY <3>1 DEF OfKind
    <3>6. PathSet \ OfKind("same") = OfKind("tracked") \cup OfKind("untracked")
      BY <3>2 DEF OfKind
    <3> QED  BY <3>3, <3>4, <3>5, <3>6
  <2>11. ArtifactIsWhatGitSaid'
    BY <1>1, <2>1, <2>8, <2>9, <2>10 DEF ArtifactIsWhatGitSaid, Heard, OfKind
  <2> QED  BY <1>2, <2>7, <2>11
<1> QED
  BY <1>3, <1>4

\* Beside the build, nothing in the bucket concerns what was gathered.
LEMMA StoringIsWhole == ASSUME Inv, Whole, Storing, ~BuildArtifact PROVE Whole'
<1> USE DEF Whole
<1>1. /\ UNCHANGED <<files, scribbles, outcome, tracked, others, undiffed, patch, said, made, bucket>>
      /\ pc \notin Local /\ pc' \notin Local
  <2>1. CASE PutLands \/ Tamper
    BY <2>1 DEF PutLands, Tamper, local, collected, Inv, NothingYet
  <2>2. CASE PutObject \/ \E status \in Statuses : PutAnswered(status) \/ ConfirmByHead(status)
    BY <2>2 DEF PutObject, PutAnswered, ConfirmByHead, local, collected, storage
  <2> QED  BY <2>1, <2>2 DEF Storing
<1>2. Gathered' /\ ArtifactIsWhatGitSaid'
  BY <1>1, GatheredStays
<1> DEFINE StorageTyped ==
             /\ pc' \in Awaits \cup Verdicts \cup {"down"}
             /\ {artifact', request', object'} \subseteq Artifacts \cup {Nothing, Garbage}
             /\ {tampered', confirmed'} \subseteq BOOLEAN
             /\ faults' \in 0..MaxFaults
<1>3. StorageTyped
  <2> USE DEF TypeOK
  <2>1. CASE PutObject
    BY <2>1 DEF PutObject
  <2>2. CASE PutLands
    BY <2>2 DEF PutLands
  <2>3. CASE Tamper
    <3>1. /\ UNCHANGED <<pc, artifact, request, confirmed, faults>> /\ tampered' = TRUE
          /\ object = made /\ made # Nothing /\ made.identity = "ours"
          /\ object' \in {Nothing, Foreign, Garbage} \cup Damaged(object)
      BY <2>3 DEF Tamper, Inv, Kinds, StoredIsMade
    <3>2. object \in Artifacts
      BY <3>1 DEF Garbage
    <3>3. Foreign \in Artifacts
      BY DEF Foreign, Artifacts
    <3>4. Damaged(object) \subseteq Artifacts
      <4>1. <<>> \in Seq(Bytes) /\ <<"u">> \in Seq(Bytes)
        BY DEF Bytes
      <4>2. /\ object.identity \in {"ours", "other"}
            /\ object.outcome \in {"changes_ready", "no_changes"}
            /\ object.changed \in SUBSET (PathSet \X {"tracked", "untracked"})
            /\ object.checksum \in Seq(Bytes) /\ object.patch \in Seq(Bytes)
        BY <3>2 DEF Artifacts
      <4>3. ASSUME NEW result \in {"changes_ready", "no_changes"},
                   NEW changed \in SUBSET (PathSet \X {"tracked", "untracked"}),
                   NEW text \in Seq(Bytes)
            PROVE  Document(object.identity, result, changed, object.checksum, text) \in Artifacts
        BY <4>2 DEF Artifacts
      <4>4. {} \in SUBSET (PathSet \X {"tracked", "untracked"})
        OBVIOUS
      <4> HIDE DEF Document
      <4>5. ASSUME NEW text \in {<<>>, <<"u">>} \ {object.patch}
            PROVE  Document(object.identity, object.outcome, object.changed, object.checksum, text)
                     \in Artifacts
        BY <4>1, <4>2, <4>3
      <4>6. Document(object.identity, "changes_ready", {}, object.checksum, object.patch) \in Artifacts
        BY <4>2, <4>3, <4>4
      <4> DEFINE Cut  == {Document(object.identity, object.outcome, object.changed,
                                   object.checksum, text) : text \in {<<>>, <<"u">>} \ {object.patch}}
                 Bare == Document(object.identity, "changes_ready", {}, object.checksum,
                                  object.patch)
      <4>7. Damaged(object) = Cut \cup {Bare}
        BY DEF Damaged
      <4>8. Cut \subseteq Artifacts
        BY <4>5
      <4> HIDE DEF Cut, Bare
      <4>9. Bare \in Artifacts
        BY <4>6 DEF Bare
      <4> QED  BY <4>7, <4>8, <4>9
    <3> QED  BY <3>1, <3>3, <3>4
  <2>4. ASSUME NEW status \in Statuses, PutAnswered(status) PROVE StorageTyped
    BY <2>4, Bounds DEF PutAnswered, Fault
  <2>5. ASSUME NEW status \in Statuses, ConfirmByHead(status) PROVE StorageTyped
    <3>1. UNCHANGED <<artifact, request, object, tampered>>
      BY <2>5 DEF ConfirmByHead, storage
    <3>2. pc' \in Verdicts /\ confirmed' \in BOOLEAN
      BY <2>5 DEF ConfirmByHead
    <3>3. faults' \in 0..MaxFaults
      BY <2>5, Bounds DEF ConfirmByHead, Answers, Fault
    <3> QED  BY <3>1, <3>2, <3>3
  <2> QED  BY <2>1, <2>2, <2>3, <2>4, <2>5 DEF Storing
<1>4. TypeOK'
  BY <1>1, <1>3 DEF TypeOK
<1> QED
  BY <1>2, <1>4

\* A crash forgets what was gathered; a start fetches only what is stored.
LEMMA RecoveringIsWhole == ASSUME Inv, Whole, Recovering PROVE Whole'
<1> USE DEF Whole
<1>1. /\ UNCHANGED <<files, scribbles, said, made, request, object, bucket, tampered, confirmed>>
      /\ pc' \notin Local
  BY DEF Recovering, Crash, StopUnresolved, Start, RecoverHead, RecoverGet, local, storage, collected
<1>2. Gathered' /\ ArtifactIsWhatGitSaid'
  BY <1>1, GatheredStays
<1>3. pc' \in Awaits \cup Verdicts \cup {"down"} /\ faults' \in 0..MaxFaults
  BY Bounds DEF Recovering, Crash, StopUnresolved, Start, RecoverHead, RecoverGet, Answers, Fault,
                TypeOK
<1>4. \/ /\ outcome' = "none" /\ tracked' = {} /\ others' = {} /\ undiffed' = {}
         /\ patch' = Empty /\ artifact' = Nothing
      \/ /\ UNCHANGED <<outcome, tracked, others, undiffed, patch>>
         /\ artifact' \in {artifact, object}
  BY DEF Recovering, Crash, StopUnresolved, Start, RecoverHead, RecoverGet, local, collected, Forget
<1>5. Empty \in [bytes : Seq(Bytes), truncated : BOOLEAN] /\ Len(Empty.bytes) <= PatchLimit
  BY LimitsArePositive DEF Empty
<1>6. TypeOK'
  BY <1>1, <1>3, <1>4, <1>5 DEF TypeOK
<1> QED
  BY <1>2, <1>6

\* A process that goes on writing spoils what the lists say, and no more than that.
LEMMA StepIsWhole == Inv /\ Whole /\ [Next]_vars => Whole'
<1> SUFFICES ASSUME Inv, Whole, [Next]_vars PROVE Whole'
  OBVIOUS
<1>1. ASSUME NEW p \in PathSet, Scribble(p) PROVE Whole'
  <2>1. /\ pc \in Local /\ pc' = pc /\ scribbles' = scribbles + 1 /\ scribbles < MaxScribbles
        /\ UNCHANGED <<outcome, tracked, others, undiffed, patch, said, artifact, request, object,
                       bucket, tampered, faults, made, confirmed>>
    BY <1>1 DEF Scribble, collected, storage
  <2>2. files' \in [PathSet -> Changes \cup {Unchanged}]
    BY <1>1 DEF Scribble, Whole, TypeOK
  <2>3. TypeOK'
    BY <2>1, <2>2, Bounds DEF Whole, TypeOK
  <2>4. scribbles' # 0
    BY <2>1 DEF Whole, TypeOK
  <2>5. Gathered'
    BY <2>1, <2>4 DEF Whole, Gathered
  <2>6. ArtifactIsWhatGitSaid'
    BY <2>1, NoArtifactYet
  <2> QED  BY <2>3, <2>5, <2>6 DEF Whole
<1>2. CASE UNCHANGED vars
  <2>1. TypeOK' /\ Gathered' /\ ArtifactIsWhatGitSaid'
    BY <1>2 DEF vars, collected, storage, Whole, TypeOK, Gathered, ArtifactIsWhatGitSaid, OfKind
  <2> QED  BY <2>1 DEF Whole
<1> QED
  BY <1>1, <1>2, CollectingIsWhole, BuildIsWhole, StoringIsWhole, RecoveringIsWhole DEF Next

\* The types, the gathering and the artifact hold together in every reachable state.
THEOREM WholeHolds == Spec => []Whole
  BY InitIsWhole, StepIsWhole, Invariant, PTL DEF Spec

(***************************************************************************)
(* The state keeps its types, and a capture its limit, whatever git prints *)
(* and S3 answers (sandbox/resource-policy.ts).                            *)
(***************************************************************************)
THEOREM TypeOKHolds == Spec => []TypeOK
<1>1. Whole => TypeOK
  BY DEF Whole
<1> QED
  BY <1>1, WholeHolds, PTL

(***************************************************************************)
(* An artifact holds every byte git printed, as the characters they are,   *)
(* and as long as nobody writes meanwhile its list is that of the files:   *)
(* for any files, diffs and limits (development/change-set.ts,             *)
(* artifact/artifact-contract.ts).                                         *)
(***************************************************************************)
THEOREM WhatGitSaidHolds == Spec => []ArtifactIsWhatGitSaid
<1>1. Whole => ArtifactIsWhatGitSaid
  BY DEF Whole
<1> QED
  BY <1>1, WholeHolds, PTL
===============================================================================
