---------------------------- MODULE CandidateScan ----------------------------
(***************************************************************************)
(* run() of the Controller after startup: poll cycles over the allowed     *)
(* projects.  A cycle lists at most ScanLimit candidates, looks at them in *)
(* order, passes over those that are no longer executable, and ends with   *)
(* the first it consumes.  ExecutionLifecycle takes the listing in one     *)
(* step; there a candidate's way to a rejection or an execution is in      *)
(* full, here it is one step.                                              *)
(*                                                                         *)
(* While a cycle runs, people approve, withdraw, move and edit Issues.     *)
(***************************************************************************)
EXTENDS Naturals, Sequences, FiniteSets

CONSTANTS
    Issues,         \* Issue IDs of all projects
    NoIssue,        \* no Issue was consumed
    Projects,       \* the allowed projects, in the order they are queried
    Elsewhere,      \* any project that is not allowed
    ScanLimit,      \* most candidates of a cycle (100 in the code)
    MaxEdits        \* bound on what people change

Allowed == {Projects[n] : n \in DOMAIN Projects}

ASSUME IssuesAreNumbered == Issues \subseteq Nat /\ IsFiniteSet(Issues) /\ NoIssue \notin Issues
ASSUME ProjectsAreListed == Projects \in Seq(Allowed) /\ Elsewhere \notin Allowed
ASSUME LimitIsPositive   == ScanLimit \in Nat \ {0}
ASSUME EditBound         == MaxEdits \in Nat

VARIABLES
    \* Redmine
    project,        \* Issue -> project it is in
    approved,       \* Issues whose Agent Brief Lifecycle is Ready for Agent
    record,         \* Issue -> its execution record
    \* the process
    pc,             \* what run() is at
    asked,          \* projects queried in this cycle
    listed,         \* candidates: pairs of a project's place and an Issue
    visited,        \* candidates taken up
    current,        \* the candidate in hand
    held,           \* Issues locked in the InMemoryIssueLock
    served,         \* the Issue this cycle consumed
    aborted,        \* the abort signal of run()
    \* what people did
    edits,          \* changes so far
    edited          \* Issues changed since the cycle began

people  == <<edits, edited>>
redmine == <<project, approved, record>>
cycle   == <<asked, listed, visited>>
vars    == <<redmine, people, pc, cycle, current, held, served, aborted>>

Candidates == (DOMAIN Projects) \X Issues

NoCandidate == <<0, NoIssue>>

\* pristine: every field is empty; stuck: the lifecycle is empty, another field
\* is not; used: the lifecycle says something.
TypeOK ==
    /\ project \in [Issues -> Allowed \cup {Elsewhere}]
    /\ approved \subseteq Issues
    /\ record \in [Issues -> {"pristine", "stuck", "used"}]
    /\ pc \in {"begin", "query", "scan", "refetch", "process", "asleep", "ended", "stopped"}
    /\ asked \in 0..Len(Projects)
    /\ listed \subseteq Candidates
    /\ Cardinality(listed) <= ScanLimit
    /\ visited \subseteq listed
    /\ current \in Candidates \cup {NoCandidate}
    /\ held \subseteq Issues
    /\ served \in Issues \cup {NoIssue}
    /\ aborted \in BOOLEAN
    /\ edits \in 0..MaxEdits
    /\ edited \subseteq Issues

Init ==
    /\ project \in [Issues -> Allowed \cup {Elsewhere}]
    /\ approved \in SUBSET Issues
    /\ record \in [Issues -> {"pristine", "stuck", "used"}]
    /\ pc = "begin"
    /\ asked = 0
    /\ listed = {}
    /\ visited = {}
    /\ current = NoCandidate
    /\ held = {}
    /\ served = NoIssue
    /\ aborted = FALSE
    /\ edits = 0
    /\ edited = {}

-----------------------------------------------------------------------------
(* run().                                                                  *)

\* run() rejects; every finally block on the way out has run.
Stop ==
    /\ pc' = "stopped"
    /\ held' = {}
    /\ current' = NoCandidate
    /\ UNCHANGED <<people, cycle, served, aborted>>

\* Slip: the signal only cuts the sleep short.
KeepPolling == TRUE

MayPoll == ~aborted

\* An abort ends the sleep; the loop condition is evaluated at once.
BeginCycle ==
    /\ pc \in {"begin", "asleep"}
    /\ MayPoll
    /\ pc' = "query"
    /\ asked' = 0
    /\ listed' = {}
    /\ visited' = {}
    /\ served' = NoIssue
    /\ edited' = {}
    /\ UNCHANGED <<redmine, current, held, aborted, edits>>

Return ==
    /\ pc \in {"begin", "asleep"}
    /\ ~MayPoll
    /\ pc' = "ended"
    /\ UNCHANGED <<redmine, people, cycle, current, held, served, aborted>>

EndOfCycle == pc' = IF MayPoll THEN "asleep" ELSE "ended"

-----------------------------------------------------------------------------
(* runOnce(): the listing.                                                 *)

Matches(p) ==
    {i \in approved : project[i] = p /\ record[i] \in {"pristine", "stuck"}}

Room == ScanLimit - Cardinality(listed)

\* Slip: the limit of the query is that of the cycle, whatever was listed before.
FullPages(p) ==
    IF Cardinality(Matches(p)) <= ScanLimit THEN {Matches(p)}
    ELSE {S \in SUBSET Matches(p) : Cardinality(S) = ScanLimit}

\* The answer: all matches, or as many as there is room for, the lowest IDs first.
Pages(p) ==
    IF Cardinality(Matches(p)) <= Room THEN {Matches(p)}
    ELSE {S \in SUBSET Matches(p) :
             /\ Cardinality(S) = Room
             /\ \A i \in S, j \in Matches(p) \ S : i < j}

\* An answer that does not satisfy the query, or none, ends run().
QueryProject ==
    /\ pc = "query"
    /\ asked < Len(Projects)
    /\ Room > 0
    /\ \/ /\ \E S \in Pages(Projects[asked + 1]) : listed' = listed \cup ({asked + 1} \X S)
          /\ asked' = asked + 1
          /\ UNCHANGED <<people, pc, visited, current, held, served, aborted>>
       \/ Stop
    /\ UNCHANGED redmine

ListingDone ==
    /\ pc = "query"
    /\ asked = Len(Projects) \/ Room = 0
    /\ pc' = "scan"
    /\ UNCHANGED <<redmine, people, cycle, current, held, served, aborted>>

-----------------------------------------------------------------------------
(* runOnce(): the scan.                                                    *)

Before(c, d) == c[1] < d[1] \/ (c[1] = d[1] /\ c[2] < d[2])

\* The lock is taken in the same turn; a candidate whose lock is held is passed
\* over.
TakeCandidate ==
    /\ pc = "scan"
    /\ \E c \in listed \ visited :
          /\ \A d \in listed \ visited : ~Before(d, c)
          /\ visited' = visited \cup {c}
          /\ IF c[2] \in held THEN UNCHANGED <<pc, current, held>>
             ELSE /\ pc' = "refetch"
                  /\ current' = c
                  /\ held' = held \cup {c[2]}
    /\ UNCHANGED <<redmine, people, asked, listed, served, aborted>>

Release == current' = NoCandidate /\ held' = held \ {current[2]}

Executable(c) ==
    /\ project[c[2]] = Projects[c[1]]
    /\ c[2] \in approved
    /\ record[c[2]] = "pristine"

\* Slip: a candidate that is passed over ends the cycle.
EndWithIt == EndOfCycle

GoOn == pc' = "scan"

\* A failed request, or a diagnostic the sink does not take, ends run().
RefetchIssue ==
    /\ pc = "refetch"
    /\ \/ /\ Executable(current)
          /\ pc' = "process"
          /\ UNCHANGED <<people, cycle, current, held, served, aborted>>
       \/ /\ ~Executable(current)
          /\ GoOn
          /\ Release
          /\ UNCHANGED <<people, cycle, served, aborted>>
       \/ Stop
    /\ UNCHANGED redmine

Use(i) == record' = [record EXCEPT ![i] = "used"]

\* Rejected or executed, with the record confirmed; the writer insists on a
\* pristine record.  Or something on the way throws, before or after the write.
Process ==
    /\ pc = "process"
    /\ \/ /\ record[current[2]] = "pristine"
          /\ Use(current[2])
          /\ EndOfCycle
          /\ Release
          /\ served' = current[2]
          /\ UNCHANGED <<people, cycle, aborted>>
       \/ record[current[2]] = "pristine" /\ Use(current[2]) /\ Stop
       \/ UNCHANGED record /\ Stop
    /\ UNCHANGED <<project, approved>>

\* Slip: a scan over a full list ends like any other.
NeverExhausted == FALSE

Exhausted == Room = 0

\* All candidates were passed over.
ScanEnds ==
    /\ pc = "scan"
    /\ visited = listed
    /\ \/ Exhausted /\ Stop
       \/ ~Exhausted /\ EndOfCycle /\ UNCHANGED <<people, cycle, current, held, served, aborted>>
    /\ UNCHANGED redmine

-----------------------------------------------------------------------------
(* People and the operator.                                                *)

Edit(i) ==
    /\ edits < MaxEdits
    /\ edits' = edits + 1
    /\ edited' = edited \cup {i}
    /\ \/ approved' = (approved \ {i}) \cup ({i} \ approved) /\ UNCHANGED <<project, record>>
       \/ /\ \E p \in (Allowed \cup {Elsewhere}) \ {project[i]} :
                project' = [project EXCEPT ![i] = p]
          /\ UNCHANGED <<approved, record>>
       \/ /\ \E r \in {"pristine", "stuck", "used"} \ {record[i]} :
                record' = [record EXCEPT ![i] = r]
          /\ UNCHANGED <<project, approved>>
    /\ UNCHANGED <<pc, cycle, current, held, served, aborted>>

Abort ==
    /\ ~aborted
    /\ aborted' = TRUE
    /\ UNCHANGED <<redmine, people, pc, cycle, current, held, served>>

Controller == BeginCycle \/ Return \/ QueryProject \/ ListingDone \/ TakeCandidate
                \/ RefetchIssue \/ Process \/ ScanEnds

Next == Controller \/ Abort \/ \E i \in Issues : Edit(i)

Spec == Init /\ [][Next]_vars

\* The process runs while it is up, and every call it makes is assumed to settle.
FairSpec == Spec /\ WF_vars(Controller)

-----------------------------------------------------------------------------
(* Properties.                                                             *)

Ready(i) == i \in approved /\ project[i] \in Allowed /\ record[i] = "pristine"

\* A cycle that ends without consuming anything overlooked nobody: no Issue that
\* stayed as it was is ready, neither behind candidates that were passed over nor
\* behind the scan limit (controller/controller.ts, redmine/adapters.ts).
IdleSawEverything ==
    pc = "asleep" /\ served = NoIssue => \A i \in Issues : Ready(i) => i \in edited

\* Whatever people do to other Issues, one that stays approved is rejected or
\* executed, unless run() ends; it never just waits.
ReadyIsServed ==
    \A i \in Issues :
        <>[](i \in approved /\ project[i] \in Allowed /\ record[i] # "stuck")
            => <>(record[i] = "used" \/ pc \in {"ended", "stopped"})

\* run() ends after an abort, once the cycle under way is done: its scan goes on and
\* may still consume a candidate (controller/controller.ts).
AbortIsHeeded == aborted ~> pc \in {"ended", "stopped"}
=============================================================================
