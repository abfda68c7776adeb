--------------------------- MODULE StartupRecovery ---------------------------
(***************************************************************************)
(* reconcile() of one start of the Controller: the cleanup, one query per  *)
(* allowed project, the loop over what they returned, and the diagnostics  *)
(* reported on the way.  ExecutionLifecycle takes the queries in one step  *)
(* and leaves the diagnostics out; here the durable record of an Issue is  *)
(* only where it stands.                                                   *)
(*                                                                         *)
(* While this runs, people work in Redmine: they move Issues from project  *)
(* to project between two of the queries.                                  *)
(***************************************************************************)
EXTENDS Naturals, Sequences, FiniteSets

CONSTANTS
    Issues,         \* Issues of all projects
    Projects,       \* the allowed projects, in the order they are queried
    Elsewhere,      \* any project that is not allowed
    Nobody,         \* a diagnostic that is about no Issue
    QueryLimit,     \* most records a query may match (100 in the code)
    MaxMoves        \* bound on the moves during one start

Allowed == {Projects[n] : n \in DOMAIN Projects}

ASSUME ProjectsAreListed  == Projects \in Seq(Allowed) /\ Elsewhere \notin Allowed
ASSUME NobodyIsNoIssue    == Nobody \notin Issues
ASSUME LimitIsPositive    == QueryLimit \in Nat \ {0}
ASSUME MoveBound          == MaxMoves \in Nat

VARIABLES
    project,        \* Issue -> project it is in
    lifecycle,      \* Issue -> where its durable record stands
    artifact,       \* Issue -> what S3 says of its execution's artifact
    pc,             \* what reconcile() is at
    asked,          \* number of projects queried so far
    listed,         \* Issue -> times the queries returned it
    visited,        \* Issue -> times the loop took it up
    seen,           \* Issues the loop tried to finalize (seen)
    failed,         \* an error was pushed to failures
    reported,       \* diagnostics the sink has recorded
    sinkFailed,     \* the sink has failed
    moves,          \* moves so far
    moved           \* Issues that changed project during this start

people   == <<project, moves, moved>>
progress == <<asked, listed, visited, seen>>
vars     == <<people, lifecycle, artifact, pc, progress, failed, reported, sinkFailed>>

Kinds == {"cleanup_failure", "orphan_resource", "query_predicate_mismatch",
          "reconciliation_failure", "interruption"}

Diagnostic == [kind : Kinds, issue : Issues \cup {Nobody}]

Pcs == {"cleanup", "query", "visit", "polling", "stopped"}

TypeOK ==
    /\ project \in [Issues -> Allowed \cup {Elsewhere}]
    /\ lifecycle \in [Issues -> {"running", "interrupted", "ready", "other"}]
    /\ artifact \in [Issues -> {"valid", "absent", "unverifiable"}]
    /\ pc \in Pcs
    /\ asked \in 0..Len(Projects)
    /\ listed \in [Issues -> 0..Len(Projects)]
    /\ visited \in [Issues -> 0..Len(Projects)]
    /\ seen \subseteq Issues
    /\ failed \in BOOLEAN
    /\ reported \subseteq Diagnostic
    /\ sinkFailed \in BOOLEAN
    /\ moves \in 0..MaxMoves
    /\ moved \subseteq Issues

Init ==
    /\ project \in [Issues -> Allowed \cup {Elsewhere}]
    /\ lifecycle \in [Issues -> {"running", "other"}]
    /\ artifact \in [Issues -> {"valid", "absent", "unverifiable"}]
    /\ pc = "cleanup"
    /\ asked = 0
    /\ listed = [i \in Issues |-> 0]
    /\ visited = [i \in Issues |-> 0]
    /\ seen = {}
    /\ failed = FALSE
    /\ reported = {}
    /\ sinkFailed = FALSE
    /\ moves = 0
    /\ moved = {}

-----------------------------------------------------------------------------
(* Diagnostics.  The sink may fail at any of them.                         *)

About(kind, i) == [kind |-> kind, issue |-> i]

Recorded(ds) == reported' = reported \cup ds /\ UNCHANGED sinkFailed

SinkFails(ds) == reported' = reported \cup ds /\ sinkFailed' = TRUE

\* reconcile() throws, reporting why if the sink lets it.
Stop(kind, i) ==
    /\ pc' = "stopped"
    /\ Recorded({About(kind, i)}) \/ SinkFails({})

-----------------------------------------------------------------------------
(* The steps of reconcile().                                               *)

\* A sink that fails on the report of a successful cleanup makes it a failure.
Cleanup ==
    /\ pc = "cleanup"
    /\ \/ pc' = "query" /\ Recorded({})
       \/ pc' = "query" /\ Recorded({About("orphan_resource", Nobody)})
       \/ pc' = "stopped" /\ SinkFails({})
       \/ pc' = "stopped" /\ SinkFails({About("cleanup_failure", Nobody)})
       \/ Stop("cleanup_failure", Nobody)
    /\ UNCHANGED <<people, lifecycle, artifact, progress, failed>>

Matches(p) == {i \in Issues : lifecycle[i] = "running" /\ project[i] = p}

\* Slip: the first page is taken for the whole answer.
FirstPage(p) ==
    IF Cardinality(Matches(p)) <= QueryLimit THEN {Matches(p)}
    ELSE {S \in SUBSET Matches(p) : Cardinality(S) = QueryLimit}

\* The answer to a query: all matches, or none when they exceed the limit.
Answers(p) == IF Cardinality(Matches(p)) <= QueryLimit THEN {Matches(p)} ELSE {}

QueryProject ==
    /\ pc = "query"
    /\ asked < Len(Projects)
    /\ \/ /\ \E S \in Answers(Projects[asked + 1]) :
                listed' = [i \in Issues |-> IF i \in S THEN listed[i] + 1 ELSE listed[i]]
          /\ asked' = asked + 1
          /\ UNCHANGED <<pc, reported, sinkFailed>>
       \/ /\ \/ Stop("reconciliation_failure", Nobody)
             \/ \E i \in Issues : Stop("query_predicate_mismatch", i)
          /\ UNCHANGED <<asked, listed>>
    /\ UNCHANGED <<people, lifecycle, artifact, visited, seen, failed>>

QueriesDone ==
    /\ pc = "query"
    /\ asked = Len(Projects)
    /\ pc' = "visit"
    /\ UNCHANGED <<people, lifecycle, artifact, progress, failed, reported, sinkFailed>>

\* Slip: the record is set to what S3 says.
ArtifactState(i) ==
    IF lifecycle[i] # "running" \/ project[i] \notin Allowed THEN {}
    ELSE {artifact[i]} \ {"unverifiable"}

\* What the artifact-aware reconciler makes of a running record: recovered,
\* interrupted, or left as it is because S3 gives no clear answer.
Verdict(i) ==
    IF lifecycle[i] # "running" \/ project[i] \notin Allowed THEN {}
    ELSE {l \in {"ready", "interrupted"} :
             \/ l = "ready" /\ artifact[i] = "valid"
             \/ l = "interrupted" /\ artifact[i] = "absent"}

\* It confirmed a verdict.  If the sink then fails, the catch block reports a
\* failure for a record that is final.
FinalizedAndReported(i) ==
    /\ \E l \in Verdict(i) : lifecycle' = [lifecycle EXCEPT ![i] = l]
    /\ \/ Recorded({About("interruption", i)}) /\ UNCHANGED <<pc, failed>>
       \/ SinkFails({About("reconciliation_failure", i)}) /\ failed' = TRUE /\ UNCHANGED pc
       \/ SinkFails({}) /\ pc' = "stopped" /\ UNCHANGED failed

\* Slip: the first error ends the loop.
StopAtFirstError(i) ==
    /\ pc' = "stopped"
    /\ failed' = TRUE
    /\ Recorded({About("reconciliation_failure", i)})

\* An error is reported and pushed to failures, and the loop goes on; only a
\* failing sink ends it.
PushFailure(i) ==
    \/ Recorded({About("reconciliation_failure", i)}) /\ failed' = TRUE /\ UNCHANGED pc
    \/ SinkFails({}) /\ pc' = "stopped" /\ UNCHANGED failed

\* It threw: before it wrote, or because a write that may have been applied was
\* not confirmed.
NotFinalized(i) ==
    /\ \/ UNCHANGED lifecycle
       \/ \E l \in Verdict(i) : lifecycle' = [lifecycle EXCEPT ![i] = l]
    /\ PushFailure(i)

VisitNext(i) ==
    /\ pc = "visit"
    /\ visited[i] < listed[i]
    /\ visited' = [visited EXCEPT ![i] = @ + 1]
    /\ IF i \in seen THEN PushFailure(i) /\ UNCHANGED <<seen, lifecycle>>
       ELSE /\ seen' = seen \cup {i}
            /\ FinalizedAndReported(i) \/ NotFinalized(i)
    /\ UNCHANGED <<people, artifact, asked, listed>>

\* Slip: the failures collected are not looked at.
NothingFailed == TRUE

Confirmed == ~failed

LoopEnds ==
    /\ pc = "visit"
    /\ visited = listed
    /\ pc' = IF Confirmed THEN "polling" ELSE "stopped"
    /\ UNCHANGED <<people, lifecycle, artifact, progress, failed, reported, sinkFailed>>

\* A person moves an Issue to another project.
Move(i) ==
    /\ moves < MaxMoves
    /\ pc \in {"cleanup", "query", "visit"}
    /\ \E p \in (Allowed \cup {Elsewhere}) \ {project[i]} : project' = [project EXCEPT ![i] = p]
    /\ moves' = moves + 1
    /\ moved' = moved \cup {i}
    /\ UNCHANGED <<lifecycle, artifact, pc, progress, failed, reported, sinkFailed>>

Next ==
    \/ Cleanup \/ QueryProject \/ QueriesDone \/ LoopEnds
    \/ \E i \in Issues : VisitNext(i) \/ Move(i)

Spec == Init /\ [][Next]_vars

-----------------------------------------------------------------------------
(* Properties.                                                             *)

\* When polling begins, no record of an allowed project is Agent Running, except
\* of an Issue that was moved while the projects were queried: such an Issue can
\* be in neither answer (recovery/redmine-source.ts).
PollingFindsNothingRunning ==
    pc = "polling" =>
        \A i \in Issues : lifecycle[i] = "running" /\ project[i] \in Allowed => i \in moved

\* A record that cannot be finalized does not keep the others from being tried:
\* only a failing sink ends the loop early (recovery/startup-reconciler.ts).
FailureStopsNobodyElse ==
    pc = "stopped" /\ asked = Len(Projects) /\ ~sinkFailed =>
        \A i \in Issues : listed[i] > 0 => i \in seen

\* Polling never begins over a failure: every diagnostic recorded by then is
\* good news ("fails closed and polling does not begin").
PollingHidesNoFailure ==
    pc = "polling" =>
        /\ ~sinkFailed
        /\ \A d \in reported : d.kind \in {"orphan_resource", "interruption"}
        /\ \A i \in seen : lifecycle[i] # "running"

\* "Agent Running execution finalized as interrupted for issue" is reported of
\* Issues that were (the message of recovery/startup-reconciler.ts).
InterruptionReportIsTrue ==
    \A i \in Issues : About("interruption", i) \in reported => lifecycle[i] = "interrupted"
=============================================================================
