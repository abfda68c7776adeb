-------------------------- MODULE ExecutionLifecycle --------------------------
(***************************************************************************)
(* One Agent Controller process, the Redmine records it moves through      *)
(* their lifecycle, and the S3 bucket it stores result artifacts in.       *)
(*                                                                         *)
(* The process starts, cleans up what an earlier process left on the host, *)
(* reconciles every record still in Agent Running, and only then polls.    *)
(* A poll cycle carries at most one candidate across the line: to a        *)
(* rejection, or to an execution (allocate an ID, write Agent Running,     *)
(* prepare a sandbox, run the Agent once, store the artifact, write the    *)
(* result).  Any error of an I/O call propagates out of run() and ends the *)
(* process; nothing is retried in it.                                      *)
(*                                                                         *)
(* Every writer reads the record, checks it, sends one PUT and reads back. *)
(* A PUT whose response is lost may or may not have been applied; with     *)
(* DelayedWrites it may also be applied later, after the process that sent *)
(* it is gone: the client gives up after its timeout, the server does not. *)
(* Redmine may also leave Droppable fields out of a PUT it answers as      *)
(* done: a field the API user may not set is no error to it.               *)
(***************************************************************************)
EXTENDS RedmineRecord, Naturals, FiniteSets

CONSTANTS
    NoIssue,        \* no Issue is being processed
    MaxFaults,      \* bound on failed I/O calls and crashes in a behaviour
    DelayedWrites,  \* may a request outlive the client that gave up on it
    Droppable       \* fields Redmine may leave out of a PUT it answers 2xx

ASSUME NoIssueIsNone     == NoIssue \notin Issues
ASSUME FaultBound        == MaxFaults \in Nat
ASSUME DelayIsBoolean    == DelayedWrites \in BOOLEAN
ASSUME DroppableAreFields == Droppable \subseteq Fields

VARIABLES
    \* Redmine and the people who use it
    approved,       \* Issues whose Agent Brief Lifecycle is Ready for Agent
    record,         \* Issue -> durable execution record
    lateWrites,     \* PUTs given up by the client that may still be applied
    \* S3
    stored,         \* executions whose artifact object is in the bucket
    lateObjects,    \* executions whose PutObject may still be applied
    \* the host
    resources,      \* transient resources of attempts that exist on it
    \* the Controller process
    pc,             \* what it does next
    serving,        \* has startup reconciliation completed
    todo,           \* Issues the current list or query returned, not yet visited
    issue,          \* Issue being processed
    exec,           \* execution being processed
    op,             \* the durable write being made
    failing,        \* an exception is on its way out (or was collected)
    \* what has happened
    owner,          \* execution -> Issue it was allocated for
    result,         \* execution -> result of its Agent
    started,        \* executions whose Agent was invoked
    verified,       \* executions whose artifact was confirmed after its PutObject
    faults          \* failed calls and crashes so far

redmine == <<approved, record, lateWrites>>
bucket  == <<stored, lateObjects>>
history == <<owner, result, started, verified>>
control == <<pc, serving, todo, issue, exec, op, failing>>
vars    == <<redmine, bucket, resources, control, history, faults>>

Pcs == {"down", "cleanup", "list_running", "reconcile", "identify", "recover",
        "poll", "scan", "refetch", "validate", "revalidate", "resolve", "authorize",
        "read", "put", "confirm",
        "workspace", "checkout", "sandbox", "agent", "running",
        "collect", "build", "put_object", "head_object", "dispose"}

NoWrite == [kind |-> "none", issue |-> NoIssue, execution |-> NoExecution,
            outcome |-> Blank]

\* The attempt's workspace, the container of its sandbox, and what a failed
\* creation of either left behind, which no handle owns.
Resources == {"workspace", "container", "orphan"}

AgentResults == ArtifactOutcomes \cup StartedFailures

TypeOK ==
    /\ approved \subseteq Issues
    /\ record \in [Issues -> Record]
    /\ lateWrites \subseteq Write
    /\ stored \subseteq Executions
    /\ lateObjects \subseteq Executions
    /\ resources \subseteq Resources
    /\ pc \in Pcs
    /\ serving \in BOOLEAN
    /\ todo \subseteq Issues
    /\ issue \in Issues \cup {NoIssue}
    /\ exec \in Executions \cup {NoExecution}
    /\ op \in Write \cup {NoWrite}
    /\ failing \in BOOLEAN
    /\ owner \in [Executions -> Issues \cup {NoIssue}]
    /\ result \in [Executions -> AgentResults \cup {Blank}]
    /\ started \subseteq Executions
    /\ verified \subseteq Executions
    /\ faults \in 0..MaxFaults

Init ==
    /\ approved \in SUBSET Issues
    /\ record = [i \in Issues |-> Pristine]
    /\ lateWrites = {}
    /\ stored = {}
    /\ lateObjects = {}
    /\ resources = {}
    /\ pc = "down"
    /\ serving = FALSE
    /\ todo = {}
    /\ issue = NoIssue
    /\ exec = NoExecution
    /\ op = NoWrite
    /\ failing = FALSE
    /\ owner = [e \in Executions |-> NoIssue]
    /\ result = [e \in Executions |-> Blank]
    /\ started = {}
    /\ verified = {}
    /\ faults = 0

-----------------------------------------------------------------------------
(* Control flow shared by the steps.                                       *)

Goto(label) == pc' = label /\ UNCHANGED <<serving, todo, issue, exec, op, failing>>

\* run() rejects, or the process dies: everything in memory is gone.
Exit ==
    /\ pc' = "down"
    /\ serving' = FALSE
    /\ todo' = {}
    /\ issue' = NoIssue
    /\ exec' = NoExecution
    /\ op' = NoWrite
    /\ failing' = FALSE

\* The candidate is done; the cycle ends ("consumed") or goes on ("skipped").
Leave(label) ==
    /\ pc' = label
    /\ issue' = NoIssue
    /\ exec' = NoExecution
    /\ op' = NoWrite
    /\ failing' = FALSE
    /\ todo' = IF label = "poll" THEN {} ELSE todo
    /\ UNCHANGED serving

\* An error collected by the reconciliation loop, which goes on to the next.
Collect ==
    /\ pc' = "reconcile"
    /\ failing' = TRUE
    /\ issue' = NoIssue
    /\ exec' = NoExecution
    /\ op' = NoWrite
    /\ UNCHANGED <<serving, todo>>

\* An exception on its way out: through the finally block that disposes of the
\* attempt's resources, if it has any.
Held == resources \cap {"workspace", "container"}

Throw ==
    IF ~serving THEN Collect
    ELSE IF Held = {} THEN Exit
    ELSE /\ pc' = "dispose"
         /\ failing' = TRUE
         /\ UNCHANGED <<serving, todo, issue, exec, op>>

Fault == faults < MaxFaults /\ faults' = faults + 1

\* Begin a durable write of execution e: its writer reads the record first.
Begin(kind, e, outcome) ==
    /\ pc' = "read"
    /\ exec' = e
    /\ op' = [kind |-> kind, issue |-> issue, execution |-> e, outcome |-> outcome]
    /\ UNCHANGED <<serving, todo, issue>>

Reject(outcome) == Begin("reject", NoExecution, outcome) /\ UNCHANGED failing

-----------------------------------------------------------------------------
(* Startup: clean up, reconcile, then serve.                               *)

Start ==
    /\ pc = "down"
    /\ Goto("cleanup")
    /\ UNCHANGED <<redmine, bucket, resources, history, faults>>

\* Slip: cleanup removes the containers and leaves the workspaces.
ContainersOnly == resources \cap {"workspace"}

\* What a completed cleanup leaves: it removes every container with the sandbox
\* label and every attempt workspace, owned by a handle or not.
AfterCleanup == {}

CleanupOrphans ==
    /\ pc = "cleanup"
    /\ \/ resources' = AfterCleanup /\ Goto("list_running") /\ UNCHANGED faults
       \/ resources' \in SUBSET resources /\ Fault /\ Exit
    /\ UNCHANGED <<redmine, bucket, history>>

Running(i) == record[i].lifecycle = AgentRunning

\* Slip: the startup query asks for approved Issues, as the candidate query does.
ApprovedRunningIssues == {i \in approved : Running(i)}

AgentRunningIssues == {i \in Issues : Running(i)}

ListAgentRunning ==
    /\ pc = "list_running"
    /\ \/ /\ pc' = "reconcile"
          /\ todo' = AgentRunningIssues
          /\ UNCHANGED <<serving, issue, exec, op, failing, faults>>
       \/ Fault /\ Exit
    /\ UNCHANGED <<redmine, bucket, resources, history>>

ReconcileNext ==
    /\ pc = "reconcile"
    /\ \E i \in todo : issue' = i /\ todo' = todo \ {i}
    /\ pc' = "identify"
    /\ UNCHANGED <<serving, exec, op, failing>>
    /\ UNCHANGED <<redmine, bucket, resources, history, faults>>

ReconcileDone ==
    /\ pc = "reconcile"
    /\ todo = {}
    /\ \/ failing /\ Exit
       \/ /\ ~failing
          /\ pc' = "poll"
          /\ serving' = TRUE
          /\ UNCHANGED <<todo, issue, exec, op, failing>>
    /\ UNCHANGED <<redmine, bucket, resources, history, faults>>

IdentifyExecution ==
    /\ pc = "identify"
    /\ \/ /\ RecoveryGuard(record[issue])
          /\ exec' = record[issue].execution
          /\ pc' = "recover"
          /\ UNCHANGED <<serving, todo, issue, op, failing, faults>>
       \/ ~RecoveryGuard(record[issue]) /\ Collect /\ UNCHANGED faults
       \/ Fault /\ Collect
    /\ UNCHANGED <<redmine, bucket, resources, history>>

\* Slip: recovery never looks in the bucket (the fallback before Phase 49.4).
NeverFound == FALSE

Found == exec \in stored

\* Only an explicit not_found selects the interrupted fallback; whatever else
\* S3 or the verification of the object says leaves the record as it is.
RecoverArtifact ==
    /\ pc = "recover"
    /\ \/ /\ Found /\ owner[exec] = issue
          /\ Begin("succeed", exec, result[exec])
          /\ UNCHANGED <<failing, faults>>
       \/ /\ ~Found
          /\ Begin("interrupt", exec, "interrupted")
          /\ UNCHANGED <<failing, faults>>
       \/ Found /\ owner[exec] # issue /\ Collect /\ UNCHANGED faults
       \/ Fault /\ Collect
    /\ UNCHANGED <<redmine, bucket, resources, history>>

-----------------------------------------------------------------------------
(* A poll cycle up to the handover of one eligible candidate.              *)

ListCandidates ==
    /\ pc = "poll"
    /\ \/ /\ pc' = "scan"
          /\ todo' = {i \in approved : record[i].lifecycle = Blank}
          /\ UNCHANGED <<serving, issue, exec, op, failing, faults>>
       \/ Fault /\ Exit
    /\ UNCHANGED <<redmine, bucket, resources, history>>

NextCandidate ==
    /\ pc = "scan"
    /\ \/ /\ \E i \in todo : issue' = i /\ todo' = todo \ {i}
          /\ pc' = "refetch"
          /\ UNCHANGED <<serving, exec, op, failing>>
       \/ todo = {} /\ Leave("poll")
    /\ UNCHANGED <<redmine, bucket, resources, history, faults>>

\* Slip: a skipped candidate ends the cycle.
SkipEndsCycle == Leave("poll")

\* A skipped candidate does not end the cycle.
Skip == Leave("scan")

RefetchIssue ==
    /\ pc = "refetch"
    /\ \/ /\ issue \in approved /\ IsPristine(record[issue])
          /\ Goto("validate") /\ UNCHANGED faults
       \/ /\ ~(issue \in approved /\ IsPristine(record[issue]))
          /\ Skip /\ UNCHANGED faults
       \/ Fault /\ Throw
    /\ UNCHANGED <<redmine, bucket, resources, history>>

\* Phase 46 evidence and the approved Brief against the canonical branch.
ValidateHandoff ==
    /\ pc = "validate"
    /\ Goto("revalidate") \/ Reject("eligibility_failed")
    /\ UNCHANGED <<redmine, bucket, resources, history, faults>>

RevalidateRequirements ==
    /\ pc = "revalidate"
    /\ \/ Goto("resolve")
       \/ Reject("stale_requirements")
       \/ Reject("eligibility_failed")
    /\ UNCHANGED <<redmine, bucket, resources, history, faults>>

ResolveSource ==
    /\ pc = "resolve"
    /\ Goto("authorize") \/ Reject("eligibility_failed")
    /\ UNCHANGED <<redmine, bucket, resources, history, faults>>

\* Slip: an execution ID may be handed out again.
AnyId(e) == TRUE

Unallocated(e) == owner[e] = NoIssue

\* The formal gate; past it an execution ID is allocated and its Agent Running
\* write begins.
AuthorizeAndAllocate ==
    /\ pc = "authorize"
    /\ \/ Reject("eligibility_failed") /\ UNCHANGED owner
       \/ \E e \in Executions :
             /\ Unallocated(e)
             /\ owner' = [owner EXCEPT ![e] = issue]
             /\ Begin("start", e, Blank)
             /\ UNCHANGED failing
    /\ UNCHANGED <<redmine, bucket, resources, result, started, verified, faults>>

-----------------------------------------------------------------------------
(* A durable write: read and check, one PUT, read back and compare.        *)

\* The interrupted finalizer takes the identity from the record it reads.
Target == IF op.kind = "interrupt"
          THEN [op EXCEPT !.execution = record[issue].execution] ELSE op

\* Slip: an unconfirmed start write is taken for an applied one.
AssumeStarted == IF op.kind = "start" THEN Goto("workspace") ELSE Throw

\* Slip: an unconfirmed success is rewritten as an artifact failure.
RewriteAsFailure ==
    IF op.kind = "succeed"
    THEN /\ pc' = "put"
         /\ op' = [op EXCEPT !.kind = "artifact_fail",
                            !.outcome = "artifact_persistence_failed"]
         /\ UNCHANGED <<serving, todo, issue, exec, failing>>
    ELSE Throw

\* An unconfirmed write is neither retried nor followed by another write: the
\* error propagates, and a later start reconciles what Redmine then says.
Unconfirmed == Throw

WriterRead ==
    /\ pc = "read"
    /\ \/ /\ Allowed(record[issue], Target)
          /\ op' = Target
          /\ pc' = "put"
          /\ UNCHANGED <<serving, todo, issue, exec, failing, faults>>
       \/ ~Allowed(record[issue], Target) /\ Throw /\ UNCHANGED faults
       \/ Fault /\ Throw
    /\ UNCHANGED <<redmine, bucket, resources, history>>

\* The fields of a PUT that Redmine may keep.
Keeps == {Fields \ dropped : dropped \in SUBSET Droppable}

WriterPut ==
    /\ pc = "put"
    /\ \/ /\ \E kept \in Keeps :
                /\ record' = [record EXCEPT ![issue] = ApplySome(@, op, kept)]
                /\ \/ kept = Fields /\ Goto("confirm") /\ UNCHANGED faults
                   \/ kept # Fields /\ Goto("confirm") /\ Fault
                   \/ Fault /\ Unconfirmed
          /\ UNCHANGED lateWrites
       \/ Fault /\ Unconfirmed /\ UNCHANGED <<record, lateWrites>>
       \/ /\ DelayedWrites
          /\ lateWrites' = lateWrites \cup {op}
          /\ Fault /\ Unconfirmed
          /\ UNCHANGED record
    /\ UNCHANGED <<approved, bucket, resources, history>>

\* Where the handler goes once its write is confirmed.
Proceed ==
    IF ~serving
    THEN /\ pc' = "reconcile" /\ issue' = NoIssue
         /\ exec' = NoExecution /\ op' = NoWrite
         /\ UNCHANGED <<serving, todo, failing>>
    ELSE CASE op.kind = "start"                       -> Goto("workspace")
           [] op.kind # "start" /\ Held # {}            -> Goto("dispose")
           [] op.kind # "start" /\ Held = {} /\ failing  -> Exit
           [] op.kind # "start" /\ Held = {} /\ ~failing -> Leave("poll")

WriterConfirm ==
    /\ pc = "confirm"
    /\ \/ Confirmed(record[issue], op) /\ Proceed /\ UNCHANGED faults
       \/ ~Confirmed(record[issue], op) /\ Unconfirmed /\ UNCHANGED faults
       \/ Fault /\ Unconfirmed
    /\ UNCHANGED <<redmine, bucket, resources, history>>

-----------------------------------------------------------------------------
(* The attempt: workspace, checkout, sandbox, one Agent run, disposal.     *)

Fail(outcome) == Begin("fail", exec, outcome)

CreateWorkspace ==
    /\ pc = "workspace"
    /\ \/ resources' = resources \cup {"workspace"} /\ Goto("checkout")
       \/ /\ resources' \in {resources, resources \cup {"orphan"}}
          /\ Fail("agent_start_failed") /\ failing' = TRUE
    /\ UNCHANGED <<redmine, bucket, history, faults>>

CheckoutSource ==
    /\ pc = "checkout"
    /\ \/ Goto("sandbox")
       \/ Fail("agent_start_failed") /\ failing' = TRUE
    /\ UNCHANGED <<redmine, bucket, resources, history, faults>>

CreateSandbox ==
    /\ pc = "sandbox"
    /\ \/ resources' = resources \cup {"container"} /\ Goto("agent")
       \/ /\ resources' \in {resources, resources \cup {"orphan"}}
          /\ Fail("agent_start_failed") /\ failing' = TRUE
    /\ UNCHANGED <<redmine, bucket, history, faults>>

InvokeAgent ==
    /\ pc = "agent"
    /\ started' = started \cup {exec}
    /\ Goto("running")
    /\ UNCHANGED <<redmine, bucket, resources, owner, result, verified, faults>>

AgentEnds ==
    /\ pc = "running"
    /\ \E r \in AgentResults :
          /\ result' = [result EXCEPT ![exec] = r]
          /\ \/ r \in ArtifactOutcomes /\ Goto("collect")
             \/ r \in StartedFailures /\ Fail(r) /\ UNCHANGED failing
    /\ UNCHANGED <<redmine, bucket, resources, owner, started, verified, faults>>

Dispose ==
    /\ pc = "dispose"
    /\ \/ /\ resources' = resources \ {"workspace", "container"}
          /\ IF failing THEN Exit ELSE Leave("poll")
          /\ UNCHANGED faults
       \/ resources' \in SUBSET resources /\ Fault /\ Exit
    /\ UNCHANGED <<redmine, bucket, history>>

-----------------------------------------------------------------------------
(* From a provisional result to a durable artifact.                        *)

ArtifactFailure == Begin("artifact_fail", exec, "artifact_persistence_failed")
                     /\ UNCHANGED failing

CollectChanges ==
    /\ pc = "collect"
    /\ \/ Goto("build") /\ UNCHANGED faults
       \/ Fault /\ Throw
    /\ UNCHANGED <<redmine, bucket, resources, history>>

BuildArtifact ==
    /\ pc = "build"
    /\ Goto("put_object") \/ ArtifactFailure
    /\ UNCHANGED <<redmine, bucket, resources, history, faults>>

\* Slip: the answer to PutObject is trusted, HeadObject is not asked.
TrustPut == TRUE

HeadConfirms == exec \in stored

\* If-None-Match: "*" stores at most once.  A conflict or an ambiguous answer
\* goes on to the HeadObject; a definitive error means nothing was stored.
PutObject ==
    /\ pc = "put_object"
    /\ \/ /\ stored' = stored \cup {exec}
          /\ Goto("head_object")
          /\ UNCHANGED <<lateObjects, faults>>
       \/ Fault /\ Goto("head_object") /\ UNCHANGED bucket
       \/ /\ DelayedWrites
          /\ lateObjects' = lateObjects \cup {exec}
          /\ Fault /\ Goto("head_object")
          /\ UNCHANGED stored
       \/ Fault /\ ArtifactFailure /\ UNCHANGED bucket
    /\ UNCHANGED <<redmine, resources, history>>

HeadObject ==
    /\ pc = "head_object"
    /\ \/ /\ HeadConfirms
          /\ verified' = verified \cup {exec}
          /\ Begin("succeed", exec, result[exec])
          /\ UNCHANGED <<failing, faults>>
       \/ ~HeadConfirms /\ ArtifactFailure /\ UNCHANGED <<verified, faults>>
       \/ Fault /\ ArtifactFailure /\ UNCHANGED verified
    /\ UNCHANGED <<redmine, bucket, resources, owner, result, started>>

-----------------------------------------------------------------------------
(* What the Controller does not control.                                   *)

\* A human approves an Issue's Brief, or withdraws the approval.
ChangeApproval ==
    /\ \E i \in Issues : approved' = (approved \ {i}) \cup ({i} \ approved)
    /\ UNCHANGED <<record, lateWrites, bucket, resources, control, history, faults>>

Crash ==
    /\ pc # "down"
    /\ Fault
    /\ Exit
    /\ UNCHANGED <<redmine, bucket, resources, history>>

LateWriteApplied ==
    /\ \E w \in lateWrites, kept \in Keeps :
          /\ record' = [record EXCEPT ![w.issue] = ApplySome(@, w, kept)]
          /\ lateWrites' = lateWrites \ {w}
    /\ UNCHANGED <<approved, bucket, resources, control, history, faults>>

LateWriteDropped ==
    /\ \E w \in lateWrites : lateWrites' = lateWrites \ {w}
    /\ UNCHANGED <<approved, record, bucket, resources, control, history, faults>>

LateObjectApplied ==
    /\ \E e \in lateObjects : /\ stored' = stored \cup {e}
                              /\ lateObjects' = lateObjects \ {e}
    /\ UNCHANGED <<redmine, resources, control, history, faults>>

LateObjectDropped ==
    /\ \E e \in lateObjects : lateObjects' = lateObjects \ {e}
    /\ UNCHANGED <<redmine, stored, resources, control, history, faults>>

-----------------------------------------------------------------------------
Startup == CleanupOrphans \/ ListAgentRunning \/ ReconcileNext \/ ReconcileDone
             \/ IdentifyExecution \/ RecoverArtifact

Polling == ListCandidates \/ NextCandidate \/ RefetchIssue \/ ValidateHandoff
             \/ RevalidateRequirements \/ ResolveSource \/ AuthorizeAndAllocate

Writing == WriterRead \/ WriterPut \/ WriterConfirm

Attempt == CreateWorkspace \/ CheckoutSource \/ CreateSandbox \/ InvokeAgent
             \/ AgentEnds \/ Dispose

Finishing == CollectChanges \/ BuildArtifact \/ PutObject \/ HeadObject

Controller == Startup \/ Polling \/ Writing \/ Attempt \/ Finishing

Environment == ChangeApproval \/ Crash \/ LateWriteApplied \/ LateWriteDropped
                 \/ LateObjectApplied \/ LateObjectDropped

Next == Start \/ Controller \/ Environment

\* Where the process awaits git, docker or S3.  The code gives none of these calls
\* a timeout; Redmine's have one, and what is left is work of the process itself.
\* The Agent's run has its execution timeout, the docker commands around it not.
Unbounded == {"cleanup", "recover", "validate", "resolve", "checkout", "sandbox",
              "running", "dispose", "collect", "put_object", "head_object"}

\* The process takes the steps that are in its own hands while it is up, and its
\* operator starts it again when it is down.  A call in Unbounded may hang: nothing
\* makes it settle, and only a Crash (somebody ends the process) gets past it.
\* Nothing makes the environment act.
Fairness == WF_vars(pc \notin Unbounded /\ Controller) /\ WF_vars(Start)

Spec == Init /\ [][Next]_vars

FairSpec == Spec /\ Fairness

-----------------------------------------------------------------------------
(* Safety, whatever becomes of requests the client gave up on and of the   *)
(* fields of a PUT.                                                        *)

\* One shot per Issue: however often the process crashes and is started again,
\* and whichever writes are lost, duplicated by a later attempt or late, no two
\* executions of one Issue ever had their Agent invoked ("no automatic Agent
\* retry"; redmine/execution-writer.ts, execution/preparation.ts).
OneAgentPerIssue ==
    \A e, f \in started : owner[e] = owner[f] => e = f

\* An Issue whose Agent was invoked has a record that names an execution, also
\* when Redmine kept only some fields of a write, the start's or a later one's:
\* no recovery meets a run it cannot name, no scan takes the Issue for a fresh
\* one (redmine/execution-writer.ts compares every field it reads back).
RanIsNamed ==
    \A e \in started : record[owner[e]].execution # NoExecution

\* An artifact reference in Redmine names an object that is in the bucket and
\* was built for this very Issue (artifact/phase49-finalization.ts).
ReferenceIsDurable ==
    \A i \in Issues : record[i].artifact # NoExecution =>
        /\ record[i].artifact \in stored
        /\ owner[record[i].artifact] = i

\* Startup enumerates Agent Running, and the process serves candidates, only
\* when no attempt of an earlier process still has a container or a workspace
\* on the host (recovery/startup-reconciler.ts: cleanup comes first).
NoAttemptOutlivesCleanup ==
    pc \in {"list_running", "reconcile", "identify", "recover", "poll", "scan",
            "refetch", "validate", "revalidate", "resolve", "authorize"}
        => resources = {}

-----------------------------------------------------------------------------
(* Safety when a request does not outlive the client that sent it and is   *)
(* applied whole or not at all.                                            *)

\* Ready for Independent Verification is a promise: the record's own execution
\* ran for this Issue, its artifact is in the bucket under its ID, and the
\* outcome is the one that artifact carries.
ReadyIsGrounded ==
    \A i \in Issues : record[i].lifecycle = ReadyForVerifying =>
        LET e == record[i].execution
        IN  /\ record[i].artifact = e
            /\ e \in started /\ e \in stored
            /\ owner[e] = i
            /\ record[i].outcome = result[e]

\* A rejection and an execution never share a record: the two writers start
\* from the same pristine record and only one of them can have been applied.
RejectedNeverStarted ==
    \A i \in Issues : record[i].rejection # Blank =>
        record[i] = RejectionWrite(Pristine, record[i].rejection)

\* Once HeadObject confirmed the artifact, a Redmine write that failed, and any
\* number of crashes and restarts, end in success or leave Agent Running; never
\* in interrupted or artifact_persistence_failed.
VerifiedIsNeverDiscarded ==
    \A e \in verified :
        LET r == record[owner[e]]
        IN  r.execution = e /\ r.lifecycle \in {AgentRunning, ReadyForVerifying}

\* The process polls only when no record is Agent Running: every handler that
\* returns normally, and a completed reconciliation, left a terminal record.
IdleMeansNothingRunning ==
    pc \in {"poll", "scan", "refetch"} => \A i \in Issues : ~Running(i)

\* A terminal record is final: no step of this or a later process changes it.
TerminalIsFinal ==
    [][\A i \in Issues :
          record[i].lifecycle \in Terminal => record'[i] = record[i]]_vars

-----------------------------------------------------------------------------
(* Liveness, when faults are finite and the operator restarts the process. *)

\* One call never settles and nobody ends the process that waits for it.
HangsForEver == \E p \in Unbounded : <>[](pc = p)

\* Every Agent Running record is eventually finalized: by the handler that
\* started it or by the reconciliation of a later start, also of the start that
\* follows a hung process.  Only a hang that nobody ends leaves one as it is
\* (sandbox/docker-runtime.ts, recovery/startup-reconciler.ts).
RunningIsFinalized ==
    HangsForEver
        \/ \A i \in Issues : Running(i) ~> record[i].lifecycle \in Terminal

\* An Issue whose approval stands is eventually rejected or executed, whatever
\* happens to the others, unless a hang that nobody ends holds the one worker
\* (controller/controller.ts).
ApprovedIsConsumed ==
    HangsForEver
        \/ \A i \in Issues :
               <>[](i \in approved) => <>(record[i].lifecycle \in Terminal)

-----------------------------------------------------------------------------
(* Refinement.                                                             *)

\* Where an Issue stands, read off its record.
Phase(r) ==
    CASE r.lifecycle = Blank             -> "open"
      [] r.lifecycle = AgentRunning      -> "running"
      [] r.lifecycle = ReadyForVerifying -> "ready"
      [] r.lifecycle = NeedsHuman        ->
             IF r.rejection # Blank THEN "rejected" ELSE "needs_human"

Promise == INSTANCE DurableOutcome WITH
    phase     <- [i \in Issues |-> Phase(record[i])],
    named     <- [i \in Issues |-> record[i].execution],
    ran       <- started,
    artifacts <- stored,
    confirmed <- verified

\* Through failed calls, crashes and restarts the Controller, Redmine and the
\* bucket keep the promise of DurableOutcome, as long as no request outlives
\* the client that sent it.
KeepsThePromise == Promise!Spec
=============================================================================
