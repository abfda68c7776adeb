------------------------- MODULE CandidateScanProofs -------------------------
(***************************************************************************)
(* Theorems about CandidateScan, for any Issues, any sequence of allowed   *)
(* projects, any scan limit and any number of edits.  That an idle cycle   *)
(* overlooked nobody is not inductive: the invariant also says that what   *)
(* was asked for was listed unless the list is full, and that whoever was  *)
(* taken up and passed over was not ready then.                            *)
(***************************************************************************)
EXTENDS CandidateScan, FiniteSetTheorems, TLAPS

USE IssuesAreNumbered, ProjectsAreListed, LimitIsPositive, EditBound

Untouched(i) == Ready(i) /\ i \notin edited

\* A candidate carries the place of a project that was queried.
ListedByQueries ==
    /\ IsFiniteSet(listed)
    /\ \A c \in listed : c[1] <= asked

\* What the queries so far asked for, they returned, or the list is full.
QueriesList ==
    \A i \in Issues : \A n \in 1..asked :
        Untouched(i) /\ project[i] = Projects[n] /\ Room > 0 => <<n, i>> \in listed

\* A candidate that was passed over was not ready, or not in the project listed.
PassedOver ==
    pc # "stopped" =>
        \A c \in visited :
            Untouched(c[2]) /\ project[c[2]] = Projects[c[1]]
                => pc \in {"refetch", "process"} /\ current = c

\* Where a candidate is in hand, and where the listing and the scan are complete.
Stages ==
    /\ pc \in {"refetch", "process"} => current \in visited
    /\ pc \notin {"refetch", "process"} => current = NoCandidate
    /\ pc \in {"scan", "refetch", "process"} => asked = Len(Projects) \/ Room = 0
    /\ pc = "asleep" /\ served = NoIssue =>
           visited = listed /\ Room > 0 /\ asked = Len(Projects)

\* The lock is held for the candidate in hand and for no other.
OnlyTheCurrentIsLocked ==
    held = IF pc \in {"refetch", "process"} THEN {current[2]} ELSE {}

Inv == /\ TypeOK /\ ListedByQueries /\ QueriesList /\ PassedOver /\ Stages
       /\ OnlyTheCurrentIsLocked

-----------------------------------------------------------------------------
\* The parts of a candidate.
LEMMA CandidateParts ==
    ASSUME NEW c \in Candidates
    PROVE  /\ c = <<c[1], c[2]>>
           /\ c[1] \in 1..Len(Projects)
           /\ c[2] \in Issues
           /\ Projects[c[1]] \in Allowed
BY DEF Candidates, Allowed

\* Room is a natural number.
LEMMA RoomIsNat == ASSUME TypeOK, ListedByQueries PROVE Room \in Nat /\ Cardinality(listed) \in Nat
<1>1. Cardinality(listed) \in Nat
  BY FS_CardinalityType DEF ListedByQueries
<1> QED
  BY <1>1 DEF TypeOK, Room

\* An answered query adds one project's page, which is all of it unless it fills
\* the list.
LEMMA PageListed ==
    ASSUME Inv, asked < Len(Projects), Room > 0,
           NEW S \in Pages(Projects[asked + 1]),
           listed' = listed \cup ({asked + 1} \X S)
    PROVE  /\ S \subseteq Issues
           /\ listed' \subseteq Candidates
           /\ IsFiniteSet(listed')
           /\ Cardinality(listed') <= ScanLimit
           /\ Room' > 0 => S = Matches(Projects[asked + 1])
<1> DEFINE n == asked + 1
           M == Matches(Projects[n])
           New == {n} \X S
<1>1. n \in 1..Len(Projects) /\ asked \in Nat
  BY DEF Inv, TypeOK
<1>2. M \subseteq Issues /\ IsFiniteSet(M)
  <2>1. M \subseteq Issues
    BY DEF Matches, Inv, TypeOK
  <2> QED
    BY <2>1, FS_Subset
<1>3. S \subseteq M
  BY DEF Pages
<1>4. IsFiniteSet(S) /\ Cardinality(S) \in Nat /\ Cardinality(M) \in Nat
  BY <1>2, <1>3, FS_Subset, FS_CardinalityType
<1>5. Room \in Nat /\ Cardinality(listed) \in Nat
  BY RoomIsNat DEF Inv
<1>6. \/ S = M /\ Cardinality(S) <= Room
      \/ Cardinality(S) = Room
  BY DEF Pages
<1>7. IsFiniteSet(New) /\ Cardinality(New) = Cardinality(S)
  <2>1. IsFiniteSet({n}) /\ Cardinality({n}) = 1
    BY FS_Singleton
  <2>2. IsFiniteSet(New) /\ Cardinality(New) = Cardinality({n}) * Cardinality(S)
    BY <2>1, <1>4, FS_Product
  <2> QED
    BY <1>4, <2>1, <2>2
<1>8. listed \cap New = {}
  <2>1. \A c \in listed : c[1] <= asked /\ c \in Candidates
    BY DEF Inv, ListedByQueries, TypeOK
  <2>2. \A c \in New : c[1] = n
    OBVIOUS
  <2>3. \A c \in listed : c[1] \in Nat
    BY <2>1, CandidateParts
  <2> QED
    BY <1>1, <2>1, <2>2, <2>3
<1>9. IsFiniteSet(listed') /\ Cardinality(listed') = Cardinality(listed) + Cardinality(S)
  <2>1. IsFiniteSet(listed)
    BY DEF Inv, ListedByQueries
  <2>2. /\ IsFiniteSet(listed \cup New)
        /\ Cardinality(listed \cup New)
               = Cardinality(listed) + Cardinality(New) - Cardinality(listed \cap New)
    BY <1>7, <2>1, FS_Union
  <2>3. Cardinality(listed \cap New) = 0
    BY <1>8, FS_EmptySet
  <2> QED
    BY <1>4, <1>5, <1>7, <2>2, <2>3
<1>10. listed' \subseteq Candidates
  BY <1>1, <1>2, <1>3 DEF Inv, TypeOK, Candidates
<1>11. Cardinality(listed') <= ScanLimit
  BY <1>4, <1>5, <1>6, <1>9 DEF Room
<1>12. Room' > 0 => S = M
  BY <1>4, <1>5, <1>6, <1>9 DEF Room
<1> QED
  BY <1>2, <1>3, <1>9, <1>10, <1>11, <1>12

\* The first state satisfies the invariant.
LEMMA InvInit == Init => Inv
<1> SUFFICES ASSUME Init PROVE Inv
  OBVIOUS
<1>1. IsFiniteSet(listed) /\ Cardinality(listed) = 0
  BY FS_EmptySet DEF Init
<1>2. aborted \in BOOLEAN
  BY DEF Init
<1>3. asked \in 0..Len(Projects) /\ edits \in 0..MaxEdits
  BY DEF Init
<1>4. TypeOK
  BY <1>1, <1>2, <1>3 DEF Init, TypeOK
<1> QED
  BY <1>1, <1>4 DEF Init, Inv, ListedByQueries, QueriesList, PassedOver, Stages,
     OnlyTheCurrentIsLocked

-----------------------------------------------------------------------------
\* A step after which nobody is ready who was not before, whoever it uses.
LEMMA NobodyReadier ==
    ASSUME Inv, UNCHANGED <<project, approved, edited>>,
           UNCHANGED record \/ \E j \in Issues : Use(j)
    PROVE  /\ record' \in [Issues -> {"pristine", "stuck", "used"}]
           /\ \A i \in Issues : Untouched(i)' => Untouched(i)
<1>1. record \in [Issues -> {"pristine", "stuck", "used"}]
  BY DEF Inv, TypeOK
<1> QED
  BY <1>1 DEF Use, Untouched, Ready

\* Steps that leave the listing alone keep what it says.
LEMMA ListingKept ==
    ASSUME Inv, UNCHANGED <<project, asked, listed>>,
           \A i \in Issues : Untouched(i)' => Untouched(i)
    PROVE  ListedByQueries' /\ QueriesList'
<1>1. ListedByQueries'
  BY DEF Inv, ListedByQueries
<1>2. Room' = Room
  BY DEF Room
<1>3. QueriesList'
  BY <1>2 DEF Inv, QueriesList
<1> QED
  BY <1>1, <1>3

\* run() rejects: nothing is in hand and no lock is held.
LEMMA StopKeeps ==
    ASSUME Inv, Stop, UNCHANGED <<project, approved>>,
           UNCHANGED record \/ \E j \in Issues : Use(j)
    PROVE  Inv'
<1>1. UNCHANGED <<edits, edited, asked, listed, visited, served, aborted>>
  BY DEF Stop, people, cycle
<1>2. /\ record' \in [Issues -> {"pristine", "stuck", "used"}]
      /\ \A i \in Issues : Untouched(i)' => Untouched(i)
  BY <1>1, NobodyReadier
<1>3. TypeOK'
  <2>1. aborted' \in BOOLEAN
    BY <1>1 DEF Inv, TypeOK
  <2> QED
    BY <1>1, <1>2, <2>1 DEF Inv, TypeOK, Stop, Candidates
<1>4. ListedByQueries' /\ QueriesList'
  BY <1>1, <1>2, ListingKept
<1>5. PassedOver' /\ Stages' /\ OnlyTheCurrentIsLocked'
  BY DEF Stop, PassedOver, Stages, OnlyTheCurrentIsLocked
<1> QED
  BY <1>3, <1>4, <1>5 DEF Inv

\* A cycle begins with an empty list.
LEMMA BeginCycleKeeps == ASSUME Inv, BeginCycle PROVE Inv'
<1>1. IsFiniteSet(listed') /\ Cardinality(listed') = 0
  BY FS_EmptySet DEF BeginCycle
<1>2. UNCHANGED <<project, approved, record, current, held, aborted, edits>>
  BY DEF BeginCycle, redmine
<1>3. TypeOK'
  <2>1. aborted' \in BOOLEAN
    BY <1>2 DEF Inv, TypeOK
  <2> QED
    BY <1>1, <1>2, <2>1 DEF Inv, TypeOK, BeginCycle, Candidates
<1>4. ListedByQueries' /\ QueriesList' /\ PassedOver'
  BY <1>1 DEF BeginCycle, ListedByQueries, QueriesList, PassedOver
<1>5. Stages' /\ OnlyTheCurrentIsLocked'
  BY <1>2 DEF Inv, BeginCycle, Stages, OnlyTheCurrentIsLocked
<1> QED
  BY <1>3, <1>4, <1>5 DEF Inv

\* A query that is answered lists its project's page.
LEMMA QueryKeeps == ASSUME Inv, QueryProject PROVE Inv'
<1>1. CASE Stop
  <2>1. UNCHANGED <<project, approved, record>>
    BY DEF QueryProject, redmine
  <2> QED
    BY <1>1, <2>1, StopKeeps
<1>2. CASE ~Stop
  <2>1. PICK S \in Pages(Projects[asked + 1]) : listed' = listed \cup ({asked + 1} \X S)
    BY <1>2 DEF QueryProject
  <2>2. /\ asked' = asked + 1
        /\ asked < Len(Projects) /\ Room > 0 /\ pc = "query"
        /\ UNCHANGED <<project, approved, record, edits, edited, pc, visited, current,
                       held, served, aborted>>
    BY <1>2 DEF QueryProject, redmine, people
  <2>3. /\ S \subseteq Issues
        /\ listed' \subseteq Candidates
        /\ IsFiniteSet(listed')
        /\ Cardinality(listed') <= ScanLimit
        /\ Room' > 0 => S = Matches(Projects[asked + 1])
    BY <2>1, <2>2, PageListed
  <2>4. asked \in Nat /\ Len(Projects) \in Nat
    BY DEF Inv, TypeOK
  <2>5. TypeOK'
    <3>1. aborted' \in BOOLEAN
      BY <2>2 DEF Inv, TypeOK
    <3>2. asked' \in 0..Len(Projects) /\ visited' \subseteq listed'
      BY <2>1, <2>2, <2>4 DEF Inv, TypeOK
    <3> QED
      BY <2>2, <2>3, <3>1, <3>2 DEF Inv, TypeOK, Candidates
  <2>6. ListedByQueries'
    <3>1. \A c \in listed : c[1] <= asked /\ c[1] \in Nat
      BY CandidateParts DEF Inv, ListedByQueries, TypeOK
    <3>2. \A c \in {asked + 1} \X S : c[1] = asked + 1
      OBVIOUS
    <3> QED
      BY <2>1, <2>2, <2>3, <2>4, <3>1, <3>2 DEF ListedByQueries
  <2>7. QueriesList'
    <3> SUFFICES ASSUME NEW i \in Issues, NEW n \in 1..asked',
                        Untouched(i)', project'[i] = Projects[n], Room' > 0
                 PROVE  <<n, i>> \in listed'
      BY DEF QueriesList
    <3>1. Untouched(i)
      BY <2>2 DEF Untouched, Ready
    <3>2. CASE n = asked + 1
      <4>1. i \in Matches(Projects[n])
        BY <2>2, <3>1, <3>2 DEF Matches, Untouched, Ready
      <4> QED
        BY <2>1, <2>3, <3>2, <4>1
    <3>3. CASE n # asked + 1
      <4>1. n \in 1..asked
        BY <2>2, <2>4, <3>3
      <4> QED
        BY <2>1, <2>2, <3>1, <4>1 DEF Inv, QueriesList
    <3> QED
      BY <3>2, <3>3
  <2>8. PassedOver'
    BY <2>2 DEF Inv, PassedOver, Untouched, Ready
  <2>9. Stages' /\ OnlyTheCurrentIsLocked'
    BY <2>2 DEF Inv, Stages, OnlyTheCurrentIsLocked
  <2> QED
    BY <2>5, <2>6, <2>7, <2>8, <2>9 DEF Inv
<1> QED
  BY <1>1, <1>2

\* Steps that only move on: an abort heeded, a listing that is complete.
LEMMA ReturnKeeps == ASSUME Inv, Return PROVE Inv'
<1>1. UNCHANGED <<project, approved, record, edits, edited, asked, listed, visited,
                  current, held, served, aborted>>
  BY DEF Return, redmine, people, cycle
<1>2. \A i \in Issues : Untouched(i)' => Untouched(i)
  BY <1>1 DEF Untouched, Ready
<1>3. TypeOK'
  <2>1. aborted' \in BOOLEAN
    BY <1>1 DEF Inv, TypeOK
  <2> QED
    BY <1>1, <2>1 DEF Inv, TypeOK, Return, Candidates
<1>4. ListedByQueries' /\ QueriesList'
  BY <1>1, <1>2, ListingKept
<1>5. PassedOver' /\ Stages' /\ OnlyTheCurrentIsLocked'
  BY <1>1, <1>2 DEF Inv, Return, PassedOver, Stages, OnlyTheCurrentIsLocked, Untouched, Ready
<1> QED
  BY <1>3, <1>4, <1>5 DEF Inv

LEMMA ListingDoneKeeps == ASSUME Inv, ListingDone PROVE Inv'
<1>1. UNCHANGED <<project, approved, record, edits, edited, asked, listed, visited,
                  current, held, served, aborted>>
  BY DEF ListingDone, redmine, people, cycle
<1>2. \A i \in Issues : Untouched(i)' => Untouched(i)
  BY <1>1 DEF Untouched, Ready
<1>3. TypeOK'
  <2>1. aborted' \in BOOLEAN
    BY <1>1 DEF Inv, TypeOK
  <2> QED
    BY <1>1, <2>1 DEF Inv, TypeOK, ListingDone, Candidates
<1>4. ListedByQueries' /\ QueriesList'
  BY <1>1, <1>2, ListingKept
<1>5. PassedOver' /\ OnlyTheCurrentIsLocked'
  BY <1>1, <1>2 DEF Inv, ListingDone, PassedOver, OnlyTheCurrentIsLocked, Untouched, Ready
<1>6. Stages'
  BY <1>1 DEF Inv, ListingDone, Stages, Room
<1> QED
  BY <1>3, <1>4, <1>5, <1>6 DEF Inv

\* No lock is held when a candidate is taken up, so it is not passed over.
LEMMA TakeKeeps == ASSUME Inv, TakeCandidate PROVE Inv'
<1>1. /\ pc = "scan" /\ held = {}
      /\ UNCHANGED <<project, approved, record, edits, edited, asked, listed, served, aborted>>
  BY DEF TakeCandidate, redmine, people, Inv, OnlyTheCurrentIsLocked
<1>2. PICK c \in listed \ visited :
         /\ visited' = visited \cup {c}
         /\ pc' = "refetch"
         /\ current' = c
         /\ held' = held \cup {c[2]}
  BY <1>1 DEF TakeCandidate
<1>3. c \in Candidates /\ c[2] \in Issues
  BY CandidateParts DEF Inv, TypeOK
<1>4. \A i \in Issues : Untouched(i)' => Untouched(i)
  BY <1>1 DEF Untouched, Ready
<1>5. TypeOK'
  <2>1. aborted' \in BOOLEAN
    BY <1>1 DEF Inv, TypeOK
  <2> QED
    BY <1>1, <1>2, <1>3, <2>1 DEF Inv, TypeOK, Candidates
<1>6. ListedByQueries' /\ QueriesList'
  BY <1>1, <1>4, ListingKept
<1>7. PassedOver'
  BY <1>1, <1>2 DEF Inv, PassedOver, Untouched, Ready
<1>8. Stages' /\ OnlyTheCurrentIsLocked'
  BY <1>1, <1>2 DEF Inv, Stages, OnlyTheCurrentIsLocked, Room
<1> QED
  BY <1>5, <1>6, <1>7, <1>8 DEF Inv

\* A candidate that is passed over is not ready, or not in its project.
LEMMA RefetchKeeps == ASSUME Inv, RefetchIssue PROVE Inv'
<1>1. UNCHANGED <<project, approved, record>> /\ pc = "refetch"
  BY DEF RefetchIssue, redmine
<1>2. current \in visited /\ current \in Candidates /\ current[2] \in Issues
  BY <1>1, CandidateParts DEF Inv, TypeOK, Stages
<1>3. CASE Stop
  BY <1>1, <1>3, StopKeeps
<1>4. CASE ~Stop
  <2>1. UNCHANGED <<edits, edited, asked, listed, visited, served, aborted>>
    BY <1>4 DEF RefetchIssue, people, cycle
  <2>2. \A i \in Issues : Untouched(i)' => Untouched(i)
    BY <1>1, <2>1 DEF Untouched, Ready
  <2>3. \/ Executable(current) /\ pc' = "process" /\ UNCHANGED <<current, held>>
        \/ ~Executable(current) /\ pc' = "scan" /\ current' = NoCandidate
             /\ held' = held \ {current[2]}
    BY <1>4 DEF RefetchIssue, GoOn, Release
  <2>4. TypeOK'
    <3>1. aborted' \in BOOLEAN
      BY <2>1 DEF Inv, TypeOK
    <3> QED
      BY <1>1, <2>1, <2>3, <3>1 DEF Inv, TypeOK, Candidates
  <2>5. ListedByQueries' /\ QueriesList'
    BY <1>1, <2>1, <2>2, ListingKept
  <2>6. PassedOver'
    BY <1>1, <2>1, <2>3 DEF Inv, PassedOver, Untouched, Ready, Executable
  <2>7. Stages' /\ OnlyTheCurrentIsLocked'
    BY <1>1, <2>1, <2>3 DEF Inv, Stages, OnlyTheCurrentIsLocked, Room
  <2> QED
    BY <2>4, <2>5, <2>6, <2>7 DEF Inv
<1> QED
  BY <1>3, <1>4

\* A consumed Issue is not ready any more.
LEMMA ProcessKeeps == ASSUME Inv, Process PROVE Inv'
<1>1. UNCHANGED <<project, approved>> /\ pc = "process"
  BY DEF Process
<1>2. current \in visited /\ current \in Candidates /\ current[2] \in Issues
  BY <1>1, CandidateParts DEF Inv, TypeOK, Stages
<1>3. UNCHANGED record \/ \E j \in Issues : Use(j)
  BY <1>2 DEF Process
<1>4. CASE Stop
  BY <1>1, <1>3, <1>4, StopKeeps
<1>5. CASE ~Stop
  <2>1. /\ Use(current[2]) /\ EndOfCycle
        /\ current' = NoCandidate /\ held' = held \ {current[2]}
        /\ served' = current[2]
        /\ UNCHANGED <<edits, edited, asked, listed, visited, aborted>>
    BY <1>5 DEF Process, Release, people, cycle
  <2>2. /\ record' \in [Issues -> {"pristine", "stuck", "used"}]
        /\ \A i \in Issues : Untouched(i)' => Untouched(i)
    BY <1>1, <1>3, <2>1, NobodyReadier
  <2>3. pc' \in {"asleep", "ended"} /\ \A i \in Issues : i = current[2] => ~Untouched(i)'
    <3>1. record'[current[2]] = "used"
      BY <1>2, <2>1 DEF Use, Inv, TypeOK
    <3> QED
      BY <2>1, <3>1 DEF EndOfCycle, Untouched, Ready
  <2>4. TypeOK'
    <3>1. aborted' \in BOOLEAN
      BY <2>1 DEF Inv, TypeOK
    <3> QED
      BY <1>1, <1>2, <2>1, <2>2, <2>3, <3>1 DEF Inv, TypeOK, Candidates
  <2>5. ListedByQueries' /\ QueriesList'
    BY <1>1, <2>1, <2>2, ListingKept
  <2>6. PassedOver'
    <3>1. \A c \in visited : c[2] \in Issues
      BY CandidateParts DEF Inv, TypeOK
    <3> QED
      BY <1>1, <2>1, <2>2, <2>3, <3>1 DEF Inv, PassedOver
  <2>7. Stages' /\ OnlyTheCurrentIsLocked'
    BY <1>1, <1>2, <2>1, <2>3 DEF Inv, Stages, OnlyTheCurrentIsLocked, Room
  <2> QED
    BY <2>4, <2>5, <2>6, <2>7 DEF Inv
<1> QED
  BY <1>4, <1>5

\* A cycle ends by itself only over a list that is not full.
LEMMA ScanEndsKeeps == ASSUME Inv, ScanEnds PROVE Inv'
<1>1. UNCHANGED <<project, approved, record>> /\ pc = "scan" /\ visited = listed
  BY DEF ScanEnds, redmine
<1>2. CASE Stop
  BY <1>1, <1>2, StopKeeps
<1>3. CASE ~Stop
  <2>1. /\ Room # 0 /\ EndOfCycle
        /\ UNCHANGED <<edits, edited, asked, listed, visited, current, held, served, aborted>>
    BY <1>3 DEF ScanEnds, Exhausted, people, cycle
  <2>2. pc' \in {"asleep", "ended"}
    BY <2>1 DEF EndOfCycle
  <2>3. \A i \in Issues : Untouched(i)' => Untouched(i)
    BY <1>1, <2>1 DEF Untouched, Ready
  <2>4. TypeOK'
    <3>1. aborted' \in BOOLEAN
      BY <2>1 DEF Inv, TypeOK
    <3> QED
      BY <1>1, <2>1, <2>2, <3>1 DEF Inv, TypeOK, Candidates
  <2>5. ListedByQueries' /\ QueriesList'
    BY <1>1, <2>1, <2>3, ListingKept
  <2>6. PassedOver' /\ OnlyTheCurrentIsLocked'
    BY <1>1, <2>1, <2>2 DEF Inv, PassedOver, OnlyTheCurrentIsLocked, Untouched, Ready
  <2>7. Stages'
    <3>1. Room \in Nat
      BY RoomIsNat DEF Inv
    <3>2. Room' = Room
      BY <2>1 DEF Room
    <3> QED
      BY <1>1, <2>1, <2>2, <3>1, <3>2 DEF Inv, Stages
  <2> QED
    BY <2>4, <2>5, <2>6, <2>7 DEF Inv
<1> QED
  BY <1>2, <1>3

\* An edited Issue is not untouched; the others are as ready as before.
LEMMA EditKeeps == ASSUME Inv, NEW i \in Issues, Edit(i) PROVE Inv'
<1>1. /\ edits' = edits + 1 /\ edits < MaxEdits
      /\ edited' = edited \cup {i}
      /\ UNCHANGED <<pc, asked, listed, visited, current, held, served, aborted>>
  BY DEF Edit, cycle
<1>2. /\ project' \in [Issues -> Allowed \cup {Elsewhere}]
      /\ approved' \subseteq Issues
      /\ record' \in [Issues -> {"pristine", "stuck", "used"}]
      /\ \A j \in Issues \ {i} : /\ project'[j] = project[j]
                                 /\ record'[j] = record[j]
                                 /\ j \in approved' <=> j \in approved
  BY DEF Edit, Inv, TypeOK
<1>3. \A j \in Issues : Untouched(j)' => Untouched(j) /\ project'[j] = project[j]
  BY <1>1, <1>2 DEF Untouched, Ready
<1>4. TypeOK'
  <2>1. aborted' \in BOOLEAN
    BY <1>1 DEF Inv, TypeOK
  <2> QED
    BY <1>1, <1>2, <2>1 DEF Inv, TypeOK, Candidates
<1>5. ListedByQueries'
  BY <1>1 DEF Inv, ListedByQueries
<1>6. QueriesList'
  <2>1. Room' = Room
    BY <1>1 DEF Room
  <2> QED
    BY <1>1, <1>3, <2>1 DEF Inv, QueriesList
<1>7. PassedOver'
  <2>1. \A c \in visited : c[2] \in Issues
    BY CandidateParts DEF Inv, TypeOK
  <2> QED
    BY <1>1, <1>3, <2>1 DEF Inv, PassedOver
<1>8. Stages' /\ OnlyTheCurrentIsLocked'
  BY <1>1 DEF Inv, Stages, OnlyTheCurrentIsLocked, Room
<1> QED
  BY <1>4, <1>5, <1>6, <1>7, <1>8 DEF Inv

\* The signal changes nothing else; nor does a stutter.
LEMMA AbortKeeps == ASSUME Inv, Abort \/ UNCHANGED vars PROVE Inv'
<1>1. /\ aborted' = TRUE \/ aborted' = aborted
      /\ UNCHANGED <<project, approved, record, pc, edits, edited, asked, listed, visited,
                     current, held, served>>
  BY DEF Abort, vars, redmine, people, cycle
<1>2. \A i \in Issues : Untouched(i)' => Untouched(i)
  BY <1>1 DEF Untouched, Ready
<1>3. TypeOK'
  <2>1. aborted' \in BOOLEAN
    BY <1>1 DEF Inv, TypeOK
  <2> QED
    BY <1>1, <2>1 DEF Inv, TypeOK, Candidates
<1>4. ListedByQueries' /\ QueriesList'
  BY <1>1, <1>2, ListingKept
<1>5. PassedOver' /\ Stages' /\ OnlyTheCurrentIsLocked'
  BY <1>1 DEF Inv, PassedOver, Stages, OnlyTheCurrentIsLocked, Untouched, Ready, Room
<1> QED
  BY <1>3, <1>4, <1>5 DEF Inv

\* Every step preserves the invariant.
LEMMA InvNext == Inv /\ [Next]_vars => Inv'
<1> SUFFICES ASSUME Inv, [Next]_vars PROVE Inv'
  OBVIOUS
<1>1. CASE BeginCycle
  BY <1>1, BeginCycleKeeps
<1>2. CASE Return
  BY <1>2, ReturnKeeps
<1>3. CASE QueryProject
  BY <1>3, QueryKeeps
<1>4. CASE ListingDone
  BY <1>4, ListingDoneKeeps
<1>5. CASE TakeCandidate
  BY <1>5, TakeKeeps
<1>6. CASE RefetchIssue
  BY <1>6, RefetchKeeps
<1>7. CASE Process
  BY <1>7, ProcessKeeps
<1>8. CASE ScanEnds
  BY <1>8, ScanEndsKeeps
<1>9. ASSUME NEW i \in Issues, Edit(i) PROVE Inv'
  BY <1>9, EditKeeps
<1>10. CASE Abort \/ UNCHANGED vars
  BY <1>10, AbortKeeps
<1> QED
  BY <1>1, <1>2, <1>3, <1>4, <1>5, <1>6, <1>7, <1>8, <1>9, <1>10 DEF Next, Controller

-----------------------------------------------------------------------------
\* The invariant holds of every cycle.
THEOREM Invariant == Spec => []Inv
<1>1. Init => Inv
  BY InvInit
<1>2. Inv /\ [Next]_vars => Inv'
  BY InvNext
<1> QED
  BY <1>1, <1>2, PTL DEF Spec

\* The state keeps its types, and the listing its limit
\* (redmine/adapters.ts 85-117).
THEOREM TypeOKHolds == Spec => []TypeOK
<1>1. Inv => TypeOK
  BY DEF Inv
<1> QED
  BY <1>1, Invariant, PTL

\* A cycle that ends without consuming anything overlooked nobody
\* (controller/controller.ts 82-122, redmine/adapters.ts 85-117).
THEOREM IdleOverlooksNobody == Spec => []IdleSawEverything
<1>1. Inv => IdleSawEverything
  <2> SUFFICES ASSUME Inv, pc = "asleep", served = NoIssue,
                      NEW i \in Issues, Ready(i), i \notin edited
               PROVE  FALSE
    BY DEF IdleSawEverything
  <2>1. PICK n \in DOMAIN Projects : Projects[n] = project[i]
    BY DEF Ready, Allowed
  <2>2. n \in 1..asked /\ Room > 0 /\ visited = listed
    BY <2>1 DEF Inv, Stages
  <2>3. <<n, i>> \in visited
    BY <2>1, <2>2 DEF Inv, QueriesList, Untouched
  <2> QED
    BY <2>1, <2>3 DEF Inv, PassedOver, Untouched
<1> QED
  BY <1>1, Invariant, PTL
=============================================================================
