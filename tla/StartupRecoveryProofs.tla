------------------------ MODULE StartupRecoveryProofs ------------------------
(***************************************************************************)
(* Theorems about StartupRecovery, for any Issues, any sequence of allowed *)
(* projects, any query limit and any number of moves.  That polling finds  *)
(* nothing running is not inductive: the invariant also says that a query  *)
(* listed whatever has stayed in its project, that the loop tried whatever *)
(* it visited, and that what it tried is final unless a failure was noted. *)
(***************************************************************************)
EXTENDS StartupRecovery, TLAPS

USE ProjectsAreListed, NobodyIsNoIssue, LimitIsPositive, MoveBound

\* What the queries so far asked for, they returned.
QueriesList ==
    \A i \in Issues : \A n \in 1..asked :
        lifecycle[i] = "running" /\ project[i] = Projects[n] /\ i \notin moved
            => listed[i] > 0

\* What the loop visited, it tried.
VisitsTry == \A i \in Issues : visited[i] > 0 => i \in seen

\* As long as nothing failed, what was tried is final and all reports are good.
CleanSoFar ==
    pc # "stopped" /\ ~failed =>
        /\ ~sinkFailed
        /\ \A d \in reported : d.kind \in {"orphan_resource", "interruption"}
        /\ \A i \in seen : lifecycle[i] # "running"

\* The queries begin after the cleanup, the loop after the last query, and
\* polling after the last visit.
Stages ==
    /\ pc = "cleanup" => asked = 0
    /\ pc \in {"visit", "polling"} => asked = Len(Projects)
    /\ pc = "polling" => visited = listed /\ ~failed

\* One query lists an Issue at most once.
ListedByQueries == \A i \in Issues : listed[i] <= asked

\* A failure was noted only of what was reported.
FailuresReported == failed => \E d \in reported : d.kind \notin {"orphan_resource", "interruption"}

\* A loop that its own end stopped had visited everything.
StopsAtTheEnd ==
    pc = "stopped" /\ asked = Len(Projects) /\ ~sinkFailed =>
        \A i \in Issues : listed[i] > 0 => visited[i] > 0

\* A start that stops says why, unless the sink itself failed.
StoppedSaysWhy ==
    pc = "stopped" /\ ~sinkFailed =>
        \E d \in reported : d.kind \notin {"orphan_resource", "interruption"}

Inv == /\ TypeOK /\ QueriesList /\ VisitsTry /\ CleanSoFar /\ Stages
       /\ ListedByQueries /\ FailuresReported /\ StopsAtTheEnd /\ StoppedSaysWhy

-----------------------------------------------------------------------------
\* What a step reports is a diagnostic.
LEMMA AboutTyped ==
    ASSUME NEW kind \in Kinds, NEW i \in Issues \cup {Nobody}
    PROVE  About(kind, i) \in Diagnostic
BY DEF About, Diagnostic

\* The start's first state satisfies the invariant.
LEMMA InvInit == Init => Inv
<1> SUFFICES ASSUME Init PROVE Inv
  OBVIOUS
<1>1. asked \in 0..Len(Projects) /\ moves \in 0..MaxMoves
  BY DEF Init
<1>2. listed \in [Issues -> 0..Len(Projects)] /\ visited \in [Issues -> 0..Len(Projects)]
  BY DEF Init
<1>3. lifecycle \in [Issues -> {"running", "interrupted", "ready", "other"}]
  BY DEF Init
<1>4. TypeOK
  BY <1>1, <1>2, <1>3 DEF Init, TypeOK, Pcs
<1>5. /\ QueriesList /\ VisitsTry /\ CleanSoFar /\ Stages
      /\ ListedByQueries /\ FailuresReported /\ StopsAtTheEnd /\ StoppedSaysWhy
  BY DEF Init, QueriesList, VisitsTry, CleanSoFar, Stages, ListedByQueries, FailuresReported,
     StopsAtTheEnd, StoppedSaysWhy
<1> QED
  BY <1>4, <1>5 DEF Inv

\* A visited Issue: what became of its record, of the reports and of failed.
LEMMA VisitEffect ==
    ASSUME Inv, NEW i \in Issues, VisitNext(i)
    PROVE  /\ lifecycle' \in [Issues -> {"running", "interrupted", "ready", "other"}]
           /\ \A j \in Issues : lifecycle'[j] = "running" => lifecycle[j] = "running"
           /\ reported' \subseteq Diagnostic
           /\ sinkFailed' \in BOOLEAN
           /\ failed' \in BOOLEAN
           /\ pc' \in {"visit", "stopped"}
           /\ seen' = seen \cup {i}
           /\ visited' = [visited EXCEPT ![i] = @ + 1]
           /\ UNCHANGED <<people, artifact, asked, listed>>
           /\ pc' # "stopped" /\ ~failed' =>
                  /\ ~failed
                  /\ sinkFailed' = sinkFailed
                  /\ reported' = reported \cup {About("interruption", i)}
                  /\ lifecycle'[i] # "running"
           /\ reported \subseteq reported'
           /\ sinkFailed => sinkFailed'
           /\ pc' = "stopped" => sinkFailed'
           /\ failed' => failed \/ About("reconciliation_failure", i) \in reported'
<1>1. TypeOK
  BY DEF Inv
<1>2. seen' = seen \cup {i} /\ pc = "visit"
  BY DEF VisitNext
<1>3. \A l \in Verdict(i) : l \in {"ready", "interrupted"}
  BY DEF Verdict
<1>4. /\ About("reconciliation_failure", i) \in Diagnostic
      /\ About("interruption", i) \in Diagnostic
  <2>1. "reconciliation_failure" \in Kinds /\ "interruption" \in Kinds
    BY DEF Kinds
  <2> QED
    BY <2>1, AboutTyped
<1>5. ASSUME PushFailure(i)
      PROVE  /\ reported' \subseteq Diagnostic
             /\ sinkFailed' \in BOOLEAN
             /\ failed' \in BOOLEAN
             /\ pc' \in {"visit", "stopped"}
             /\ pc' # "stopped" => failed'
             /\ reported \subseteq reported'
             /\ sinkFailed => sinkFailed'
             /\ pc' = "stopped" => sinkFailed'
             /\ failed' => failed \/ About("reconciliation_failure", i) \in reported'
  <2>1. reported \subseteq Diagnostic /\ sinkFailed \in BOOLEAN /\ failed \in BOOLEAN
    BY <1>1 DEF TypeOK
  <2>2. CASE Recorded({About("reconciliation_failure", i)}) /\ failed' = TRUE /\ UNCHANGED pc
    BY <1>2, <1>4, <2>1, <2>2 DEF Recorded
  <2>3. CASE SinkFails({}) /\ pc' = "stopped" /\ UNCHANGED failed
    BY <2>1, <2>3 DEF SinkFails
  <2> QED
    BY <1>5, <2>2, <2>3 DEF PushFailure
<1>6. CASE i \in seen
  <2>1. PushFailure(i) /\ UNCHANGED lifecycle
    BY <1>6 DEF VisitNext
  <2> QED
    BY <1>1, <1>2, <1>6, <1>5, <2>1 DEF VisitNext, TypeOK
<1>7. CASE i \notin seen /\ FinalizedAndReported(i)
  <2>1. PICK l \in {"ready", "interrupted"} : lifecycle' = [lifecycle EXCEPT ![i] = l]
    BY <1>3, <1>7 DEF FinalizedAndReported
  <2>2. /\ reported' \subseteq Diagnostic
        /\ sinkFailed' \in BOOLEAN
        /\ failed' \in BOOLEAN
        /\ pc' \in {"visit", "stopped"}
        /\ reported \subseteq reported'
        /\ sinkFailed => sinkFailed'
        /\ pc' = "stopped" => sinkFailed'
        /\ failed' => failed \/ About("reconciliation_failure", i) \in reported'
    <3>1. reported \subseteq Diagnostic /\ sinkFailed \in BOOLEAN /\ failed \in BOOLEAN
      BY <1>1 DEF TypeOK
    <3>2. CASE Recorded({About("interruption", i)}) /\ UNCHANGED <<pc, failed>>
      BY <1>2, <1>4, <3>1, <3>2 DEF Recorded
    <3>3. CASE /\ SinkFails({About("reconciliation_failure", i)})
               /\ failed' = TRUE
               /\ UNCHANGED pc
      BY <1>2, <1>4, <3>1, <3>3 DEF SinkFails
    <3>4. CASE SinkFails({}) /\ pc' = "stopped" /\ UNCHANGED failed
      BY <3>1, <3>4 DEF SinkFails
    <3> QED
      BY <1>7, <3>2, <3>3, <3>4 DEF FinalizedAndReported
  <2>3. pc' # "stopped" /\ ~failed' =>
            /\ ~failed
            /\ sinkFailed' = sinkFailed
            /\ reported' = reported \cup {About("interruption", i)}
    BY <1>7 DEF FinalizedAndReported, Recorded, SinkFails
  <2> QED
    BY <1>1, <1>2, <2>1, <2>2, <2>3 DEF VisitNext, TypeOK
<1>8. CASE i \notin seen /\ NotFinalized(i)
  <2>1. PushFailure(i)
    BY <1>8 DEF NotFinalized
  <2>2. /\ lifecycle' \in [Issues -> {"running", "interrupted", "ready", "other"}]
        /\ \A j \in Issues : lifecycle'[j] = "running" => lifecycle[j] = "running"
    BY <1>1, <1>3, <1>8 DEF NotFinalized, TypeOK
  <2> QED
    BY <1>2, <1>5, <2>1, <2>2 DEF VisitNext
<1> QED
  BY <1>6, <1>7, <1>8 DEF VisitNext

-----------------------------------------------------------------------------
(* One lemma per action.                                                   *)

\* The cleanup, whatever comes of it.
LEMMA CleanupKeeps == ASSUME Inv, Cleanup PROVE Inv'
<1>1. /\ TypeOK /\ pc = "cleanup" /\ sinkFailed \in BOOLEAN /\ reported \subseteq Diagnostic
      /\ UNCHANGED <<people, lifecycle, artifact, progress, failed>>
  BY DEF Inv, TypeOK, Cleanup
<1>2. /\ About("orphan_resource", Nobody) \in Diagnostic
      /\ About("cleanup_failure", Nobody) \in Diagnostic
  <2>1. "orphan_resource" \in Kinds /\ "cleanup_failure" \in Kinds
    BY DEF Kinds
  <2> QED
    BY <2>1, AboutTyped
<1>3. /\ reported \subseteq reported' /\ reported' \subseteq Diagnostic
      /\ sinkFailed' \in BOOLEAN
      /\ pc' \in {"query", "stopped"}
      /\ pc' = "query" =>
             /\ sinkFailed' = sinkFailed
             /\ reported' \subseteq reported \cup {About("orphan_resource", Nobody)}
      /\ pc' = "stopped" /\ ~sinkFailed' => About("cleanup_failure", Nobody) \in reported'
  BY <1>1, <1>2 DEF Cleanup, Stop, Recorded, SinkFails
<1>4. TypeOK'
  BY <1>1, <1>3 DEF TypeOK, people, progress, Pcs
<1>5. QueriesList' /\ VisitsTry' /\ Stages' /\ ListedByQueries'
  BY <1>1, <1>3 DEF Inv, QueriesList, VisitsTry, Stages, ListedByQueries, people, progress
<1>6. CleanSoFar'
  BY <1>1, <1>3 DEF Inv, CleanSoFar, About, progress
<1>7. FailuresReported'
  BY <1>1, <1>3 DEF Inv, FailuresReported
<1>8. StoppedSaysWhy'
  BY <1>1, <1>3 DEF StoppedSaysWhy, About
<1>9. StopsAtTheEnd'
  <2>1. \A i \in Issues : listed[i] \in Nat /\ listed[i] <= 0
    BY <1>1 DEF Inv, TypeOK, Stages, ListedByQueries
  <2>2. \A i \in Issues : listed'[i] <= 0 /\ listed'[i] \in Nat
    BY <1>1, <2>1 DEF progress
  <2> QED
    BY <2>2 DEF StopsAtTheEnd
<1> QED
  BY <1>4, <1>5, <1>6, <1>7, <1>8, <1>9 DEF Inv

\* One query, answered or not.
LEMMA QueryKeeps == ASSUME Inv, QueryProject PROVE Inv'
<1>1. /\ TypeOK /\ pc = "query" /\ asked < Len(Projects) /\ Len(Projects) \in Nat
      /\ UNCHANGED <<people, lifecycle, artifact, visited, seen, failed>>
  BY DEF Inv, QueryProject
<1>2. CASE /\ \E S \in Answers(Projects[asked + 1]) :
                 listed' = [i \in Issues |-> IF i \in S THEN listed[i] + 1 ELSE listed[i]]
           /\ asked' = asked + 1
           /\ UNCHANGED <<pc, reported, sinkFailed>>
  <2>1. /\ \A i \in Issues : /\ listed'[i] \in Nat
                             /\ listed[i] \in Nat
                             /\ listed[i] <= listed'[i]
                             /\ listed'[i] <= listed[i] + 1
                             /\ i \in Matches(Projects[asked + 1]) => listed'[i] > 0
        /\ listed' = [i \in Issues |-> listed'[i]]
    BY <1>1, <1>2 DEF Answers, TypeOK
  <2>2. \A i \in Issues : listed'[i] <= asked'
    BY <1>1, <1>2, <2>1 DEF Inv, ListedByQueries, TypeOK
  <2>3. TypeOK'
    <3>1. asked' \in 0..Len(Projects)
      BY <1>1, <1>2 DEF TypeOK
    <3>2. listed' \in [Issues -> 0..Len(Projects)]
      <4>1. \A i \in Issues : listed'[i] \in 0..Len(Projects)
        <5> TAKE i \in Issues
        <5>1. listed'[i] \in Nat /\ listed'[i] <= asked'
          BY <2>1, <2>2
        <5>2. Len(Projects) \in Nat
          BY <1>1
        <5> QED
          BY <3>1, <5>1, <5>2
      <4> QED
        BY <2>1, <4>1
    <3> QED
      BY <1>1, <1>2, <3>1, <3>2 DEF TypeOK, people
  <2>4. QueriesList'
    <3> SUFFICES ASSUME NEW i \in Issues, NEW n \in 1..asked',
                        lifecycle[i] = "running", project[i] = Projects[n], i \notin moved
                 PROVE  listed'[i] > 0
      BY <1>1 DEF QueriesList, people
    <3>1. CASE n \in 1..asked
      <4>1. listed[i] > 0
        BY <3>1 DEF Inv, QueriesList
      <4>2. listed[i] \in Nat /\ listed'[i] \in Nat /\ listed[i] <= listed'[i]
        BY <2>1
      <4> QED
        BY <4>1, <4>2
    <3>2. CASE n = asked + 1
      <4>1. i \in Matches(Projects[asked + 1])
        BY <3>2 DEF Matches
      <4> QED
        BY <2>1, <4>1
    <3> QED
      BY <1>1, <1>2, <3>1, <3>2 DEF TypeOK
  <2>5. VisitsTry' /\ CleanSoFar' /\ FailuresReported'
    BY <1>1, <1>2 DEF Inv, VisitsTry, CleanSoFar, FailuresReported
  <2>6. Stages' /\ StopsAtTheEnd' /\ StoppedSaysWhy' /\ ListedByQueries'
    BY <1>1, <1>2, <2>2 DEF Stages, StopsAtTheEnd, StoppedSaysWhy, ListedByQueries
  <2> QED
    BY <2>3, <2>4, <2>5, <2>6 DEF Inv
<1>3. CASE /\ \/ Stop("reconciliation_failure", Nobody)
              \/ \E i \in Issues : Stop("query_predicate_mismatch", i)
           /\ UNCHANGED <<asked, listed>>
  <2>1. PICK kind \in {"reconciliation_failure", "query_predicate_mismatch"},
             i \in Issues \cup {Nobody} : Stop(kind, i)
    BY <1>3
  <2>2. About(kind, i) \in Diagnostic /\ About(kind, i).kind = kind
    BY AboutTyped DEF Kinds, About
  <2>3. /\ pc' = "stopped"
        /\ reported' \subseteq Diagnostic /\ sinkFailed' \in BOOLEAN
        /\ reported \subseteq reported'
        /\ ~sinkFailed' => About(kind, i) \in reported'
    <3>1. reported \subseteq Diagnostic /\ sinkFailed \in BOOLEAN
      BY <1>1 DEF TypeOK
    <3> QED
      BY <2>1, <2>2, <3>1 DEF Stop, Recorded, SinkFails
  <2>4. TypeOK'
    BY <1>1, <1>3, <2>3 DEF TypeOK, people, Pcs
  <2>5. /\ QueriesList' /\ VisitsTry' /\ CleanSoFar' /\ FailuresReported'
        /\ Stages' /\ ListedByQueries'
    BY <1>1, <1>3, <2>3 DEF Inv, QueriesList, VisitsTry, CleanSoFar, FailuresReported,
       Stages, ListedByQueries, people
  <2>6. StoppedSaysWhy'
    BY <2>2, <2>3 DEF StoppedSaysWhy
  <2>7. StopsAtTheEnd'
    BY <1>1, <1>3 DEF StopsAtTheEnd, TypeOK
  <2> QED
    BY <2>4, <2>5, <2>6, <2>7 DEF Inv
<1> QED
  BY <1>2, <1>3 DEF QueryProject

\* The end of the queries, and of the loop.
LEMMA EndsKeep == ASSUME Inv, QueriesDone \/ LoopEnds PROVE Inv'
<1>1. /\ TypeOK /\ pc \in {"query", "visit"}
      /\ UNCHANGED <<people, lifecycle, artifact, progress, failed, reported, sinkFailed>>
  BY DEF Inv, QueriesDone, LoopEnds
<1>2. TypeOK'
  BY <1>1 DEF TypeOK, QueriesDone, LoopEnds, people, progress, Pcs
<1>3. QueriesList' /\ VisitsTry' /\ CleanSoFar' /\ ListedByQueries' /\ FailuresReported'
  BY <1>1 DEF Inv, QueriesList, VisitsTry, CleanSoFar, ListedByQueries, FailuresReported,
     people, progress
<1>4. Stages'
  BY <1>1 DEF Inv, Stages, QueriesDone, LoopEnds, Confirmed, progress
<1>5. StoppedSaysWhy'
  BY <1>1 DEF Inv, StoppedSaysWhy, FailuresReported, QueriesDone, LoopEnds, Confirmed
<1>6. StopsAtTheEnd'
  BY <1>1 DEF Inv, StopsAtTheEnd, QueriesDone, LoopEnds, Confirmed, progress
<1> QED
  BY <1>2, <1>3, <1>4, <1>5, <1>6 DEF Inv

\* One turn of the loop.
LEMMA VisitKeeps == ASSUME Inv, NEW i \in Issues, VisitNext(i) PROVE Inv'
<1>1. /\ TypeOK /\ pc = "visit" /\ visited[i] < listed[i]
      /\ visited' = [visited EXCEPT ![i] = @ + 1]
      /\ seen' = seen \cup {i}
      /\ UNCHANGED <<people, artifact, asked, listed>>
  BY VisitEffect DEF Inv, VisitNext
<1>2. /\ lifecycle' \in [Issues -> {"running", "interrupted", "ready", "other"}]
      /\ \A j \in Issues : lifecycle'[j] = "running" => lifecycle[j] = "running"
      /\ reported' \subseteq Diagnostic /\ sinkFailed' \in BOOLEAN /\ failed' \in BOOLEAN
      /\ pc' \in {"visit", "stopped"}
      /\ reported \subseteq reported'
      /\ pc' = "stopped" => sinkFailed'
      /\ failed' => failed \/ About("reconciliation_failure", i) \in reported'
  BY VisitEffect
<1>3. TypeOK'
  <2>1. visited' \in [Issues -> 0..Len(Projects)]
    <3>1. /\ visited \in [Issues -> 0..Len(Projects)] /\ Len(Projects) \in Nat
          /\ listed[i] \in 0..Len(Projects)
      BY <1>1 DEF TypeOK
    <3>2. visited[i] + 1 \in 0..Len(Projects)
      BY <1>1, <3>1
    <3> QED
      BY <1>1, <3>1, <3>2
  <2>2. pc' \in Pcs
    BY <1>2 DEF Pcs
  <2> QED
    BY <1>1, <1>2, <2>1, <2>2 DEF TypeOK, people
<1>4. QueriesList' /\ ListedByQueries'
  BY <1>1, <1>2 DEF Inv, QueriesList, ListedByQueries, people
<1>5. VisitsTry'
  BY <1>1 DEF Inv, VisitsTry, TypeOK
<1>6. CleanSoFar'
  <2> SUFFICES ASSUME pc' # "stopped", ~failed'
               PROVE  /\ ~sinkFailed'
                      /\ \A d \in reported' : d.kind \in {"orphan_resource", "interruption"}
                      /\ \A j \in seen' : lifecycle'[j] # "running"
    BY DEF CleanSoFar
  <2>1. /\ ~failed /\ sinkFailed' = sinkFailed
        /\ reported' = reported \cup {About("interruption", i)}
        /\ lifecycle'[i] # "running"
    BY VisitEffect
  <2>2. /\ ~sinkFailed
        /\ \A d \in reported : d.kind \in {"orphan_resource", "interruption"}
        /\ \A j \in seen : lifecycle[j] # "running"
    BY <1>1, <2>1 DEF Inv, CleanSoFar
  <2>3. About("interruption", i).kind = "interruption"
    BY DEF About
  <2>4. \A j \in seen' : lifecycle'[j] # "running"
    BY <1>1, <1>2, <2>1, <2>2 DEF TypeOK
  <2> QED
    BY <2>1, <2>2, <2>3, <2>4
<1>7. Stages' /\ StoppedSaysWhy' /\ StopsAtTheEnd'
  BY <1>1, <1>2 DEF Inv, Stages, StoppedSaysWhy, StopsAtTheEnd
<1>8. FailuresReported'
  <2>1. About("reconciliation_failure", i).kind = "reconciliation_failure"
    BY DEF About
  <2> QED
    BY <1>2, <2>1 DEF Inv, FailuresReported
<1> QED
  BY <1>3, <1>4, <1>5, <1>6, <1>7, <1>8 DEF Inv

\* A person's move: the Issue is one that moved from then on.
LEMMA MoveKeeps == ASSUME Inv, NEW i \in Issues, Move(i) PROVE Inv'
<1>1. /\ TypeOK /\ moves < MaxMoves /\ moves' = moves + 1 /\ moved' = moved \cup {i}
      /\ UNCHANGED <<lifecycle, artifact, pc, progress, failed, reported, sinkFailed>>
  BY DEF Inv, Move
<1>2. PICK p \in Allowed \cup {Elsewhere} : project' = [project EXCEPT ![i] = p]
  BY DEF Move
<1>3. TypeOK'
  <2>1. moves' \in 0..MaxMoves
    BY <1>1 DEF TypeOK
  <2> QED
    BY <1>1, <1>2, <2>1 DEF TypeOK, progress
<1>4. QueriesList'
  BY <1>1, <1>2 DEF Inv, QueriesList, TypeOK, progress
<1>5. /\ VisitsTry' /\ CleanSoFar' /\ Stages' /\ ListedByQueries' /\ FailuresReported'
      /\ StopsAtTheEnd' /\ StoppedSaysWhy'
  BY <1>1 DEF Inv, VisitsTry, CleanSoFar, Stages, ListedByQueries, FailuresReported,
     StopsAtTheEnd, StoppedSaysWhy, progress
<1> QED
  BY <1>3, <1>4, <1>5 DEF Inv

\* Every step keeps the invariant.
LEMMA InvStep == Inv /\ [Next]_vars => Inv'
<1> SUFFICES ASSUME Inv, [Next]_vars PROVE Inv'
  OBVIOUS
<1>1. CASE Cleanup
  BY <1>1, CleanupKeeps
<1>2. CASE QueryProject
  BY <1>2, QueryKeeps
<1>3. CASE QueriesDone \/ LoopEnds
  BY <1>3, EndsKeep
<1>4. CASE \E i \in Issues : VisitNext(i)
  BY <1>4, VisitKeeps
<1>5. CASE \E i \in Issues : Move(i)
  BY <1>5, MoveKeeps
<1>6. CASE UNCHANGED vars
  <2>1. UNCHANGED <<people, lifecycle, artifact, pc, progress, failed, reported, sinkFailed>>
    BY <1>6 DEF vars
  <2>2. TypeOK'
    BY <2>1 DEF Inv, TypeOK, people, progress
  <2>3. QueriesList' /\ VisitsTry' /\ CleanSoFar' /\ Stages' /\ ListedByQueries'
    BY <2>1 DEF Inv, QueriesList, VisitsTry, CleanSoFar, Stages, ListedByQueries, people,
       progress
  <2>4. FailuresReported' /\ StopsAtTheEnd' /\ StoppedSaysWhy'
    BY <2>1 DEF Inv, FailuresReported, StopsAtTheEnd, StoppedSaysWhy, progress
  <2> QED
    BY <2>2, <2>3, <2>4 DEF Inv
<1> QED
  BY <1>1, <1>2, <1>3, <1>4, <1>5, <1>6 DEF Next

-----------------------------------------------------------------------------
(* The theorems.                                                           *)

\* The invariant holds of every start.
THEOREM Invariant == Spec => []Inv
<1>1. Inv /\ [Next]_vars => Inv'
  BY InvStep
<1> QED
  BY <1>1, InvInit, PTL DEF Spec

\* Every start keeps its types (TypeOK).
THEOREM TypeOKHolds == Spec => []TypeOK
<1>1. Inv => TypeOK
  BY DEF Inv
<1> QED
  BY <1>1, Invariant, PTL

\* Polling begins over no record that is still running, moved Issues apart
\* (recovery/startup-reconciler.ts).
THEOREM PollingFindsNone == Spec => []PollingFindsNothingRunning
<1>1. Inv => PollingFindsNothingRunning
  <2> SUFFICES ASSUME Inv, pc = "polling", NEW i \in Issues, lifecycle[i] = "running",
                      project[i] \in Allowed, i \notin moved
               PROVE  FALSE
    BY DEF PollingFindsNothingRunning
  <2>1. /\ TypeOK /\ asked = Len(Projects) /\ visited = listed /\ ~failed
        /\ Len(Projects) \in Nat
    BY DEF Inv, Stages
  <2>2. PICK n \in 1..asked : project[i] = Projects[n]
    BY <2>1 DEF Allowed
  <2>3. visited[i] > 0
    BY <2>1, <2>2 DEF Inv, QueriesList
  <2>4. i \in seen
    BY <2>3 DEF Inv, VisitsTry
  <2> QED
    BY <2>1, <2>4 DEF Inv, CleanSoFar
<1> QED
  BY <1>1, Invariant, PTL

\* A failure to finalize one Issue keeps no other from being tried.
THEOREM FailureStopsNobody == Spec => []FailureStopsNobodyElse
<1>1. Inv => FailureStopsNobodyElse
  BY DEF Inv, FailureStopsNobodyElse, StopsAtTheEnd, VisitsTry
<1> QED
  BY <1>1, Invariant, PTL

\* Polling begins over no reported failure.
THEOREM PollingIsClean == Spec => []PollingHidesNoFailure
<1>1. Inv => PollingHidesNoFailure
  BY DEF Inv, PollingHidesNoFailure, CleanSoFar, Stages
<1> QED
  BY <1>1, Invariant, PTL
=============================================================================
