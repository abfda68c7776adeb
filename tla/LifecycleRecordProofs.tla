----------------------- MODULE LifecycleRecordProofs -----------------------
(***************************************************************************)
(* What TLAPS proves of ExecutionLifecycle beyond one Agent per Issue. For *)
(* every value of the constants: the host is clean before the process      *)
(* serves, and an artifact reference is about an object in the bucket.     *)
(* When no request outlives its client: a terminal record is final, the    *)
(* process polls only while nothing is Agent Running, and a verified       *)
(* artifact is never discarded.  When a PUT is also applied whole or not   *)
(* at all: an Issue is rejected or executed, Ready is a promise kept, and  *)
(* the whole implements DurableOutcome.                                    *)
(***************************************************************************)
EXTENDS ExecutionLifecycleProofs

USE NoExecutionIsEmpty, NoIssueIsNone, FaultBound, DelayIsBoolean, DroppableAreFields

-----------------------------------------------------------------------------
(* The host.  What is on it belongs to the attempt in hand, or an error is *)
(* on its way out and will end the process.                                *)

\* Where nothing may be on the host.
Clear == {"list_running", "reconcile", "identify", "recover", "poll", "scan",
          "refetch", "validate", "revalidate", "resolve", "authorize", "workspace"}

\* Where an attempt has a workspace, and perhaps a container.
Equipped == {"checkout", "sandbox", "agent", "running", "collect", "build",
             "put_object", "head_object"}

Owned == "orphan" \notin resources

HostInv ==
    /\ pc \in Clear => resources = {}
    /\ pc \in Equipped \cup {"workspace", "dispose"} => serving
    /\ pc \in Equipped => Owned
    /\ pc \in Writers \cup {"dispose"} => Owned \/ failing
    /\ pc \in Writers /\ (~serving \/ op.kind = "start") => resources = {}

\* An error leaves the host alone, and leads to the reconciliation, to the
\* disposal or out of the process.
LEMMA ThrowHost ==
  ASSUME TypeInv, HostInv, Throw, UNCHANGED resources,
         ~serving => resources = {}
  PROVE  HostInv'
  BY DEF HostInv, Throw, Collect, Exit, Held, Clear, Equipped, Owned, Writers

\* An attempt goes on to the write of a result.
LEMMA BeginHost ==
  ASSUME HostInv, serving, NEW kind, NEW e, NEW o, kind # "start", Begin(kind, e, o),
         Owned' \/ failing'
  PROVE  HostInv'
<1>1. pc' = "read" /\ op'.kind = kind /\ serving' = serving
  BY DEF Begin
<1> QED
  BY <1>1 DEF HostInv, Clear, Equipped, Owned, Writers

\* Cleanup leaves nothing, and reconciliation brings nothing.
LEMMA StartupHost == TypeInv /\ HostInv /\ Startup => HostInv'
<1> SUFFICES ASSUME TypeInv, HostInv, Startup  PROVE HostInv'
  OBVIOUS
<1> USE DEF HostInv, Clear, Equipped, Owned, Writers
<1>1. CASE CleanupOrphans
  BY <1>1 DEF CleanupOrphans, AfterCleanup, Goto, Exit
<1>2. CASE ListAgentRunning \/ ReconcileNext \/ ReconcileDone
  BY <1>2 DEF ListAgentRunning, ReconcileNext, ReconcileDone, Exit
<1>3. CASE IdentifyExecution
  BY <1>3 DEF IdentifyExecution, Collect
<1>4. CASE RecoverArtifact
  BY <1>4 DEF RecoverArtifact, Begin, Collect
<1> QED
  BY <1>1, <1>2, <1>3, <1>4 DEF Startup

\* A poll cycle brings nothing.
LEMMA PollingHost == TypeInv /\ HostInv /\ Polling => HostInv'
<1> SUFFICES ASSUME TypeInv, HostInv, Polling  PROVE HostInv'
  OBVIOUS
<1>1. resources = {} /\ UNCHANGED resources
  BY DEF Polling, ListCandidates, NextCandidate, RefetchIssue, ValidateHandoff,
         RevalidateRequirements, ResolveSource, AuthorizeAndAllocate, HostInv, Clear
<1>2. pc' \notin Equipped \cup {"workspace", "dispose"}
  BY <1>1
  DEF Polling, ListCandidates, NextCandidate, RefetchIssue, ValidateHandoff,
      RevalidateRequirements, ResolveSource, AuthorizeAndAllocate, Goto, Leave, Skip,
      Reject, Begin, Throw, Collect, Exit, Held, Equipped
<1> QED
  BY <1>1, <1>2 DEF HostInv, Clear, Equipped, Owned, Writers

\* A write that is not confirmed while something nobody owns is on the host, and
\* one that is, end the process; the others leave the disposal its work.
LEMMA WritingHost == TypeInv /\ HostInv /\ Writing => HostInv'
<1> SUFFICES ASSUME TypeInv, HostInv, Writing  PROVE HostInv'
  OBVIOUS
<1>1. /\ pc \in Writers /\ op \in Write /\ UNCHANGED resources
      /\ resources \subseteq Resources
  BY Split, HandsFull
  DEF Writing, WriterRead, WriterPut, WriterConfirm, Writers, DataOK
<1>2. CASE Throw
  BY <1>1, <1>2, ThrowHost DEF HostInv
<1>3. CASE WriterRead /\ ~Throw
  <2>1. pc' = "put" /\ UNCHANGED <<serving, failing>> /\ op' = Target
    BY <1>3 DEF WriterRead
  <2>2. op'.kind = op.kind
    BY <1>1, <2>1 DEF Target, Write
  <2> QED
    BY <1>1, <2>1, <2>2 DEF HostInv, Clear, Equipped, Owned, Writers
<1>4. CASE WriterPut /\ ~Throw
  BY <1>1, <1>4 DEF WriterPut, Unconfirmed, Goto, HostInv, Clear, Equipped, Owned, Writers
<1>5. CASE WriterConfirm /\ ~Throw
  <2>1. Proceed
    BY <1>5 DEF WriterConfirm, Unconfirmed
  <2>2. CASE ~serving
    BY <1>1, <2>1, <2>2 DEF Proceed, HostInv, Clear, Equipped, Owned, Writers
  <2>3. CASE serving /\ op.kind = "start"
    BY <1>1, <2>1, <2>3 DEF Proceed, Goto, HostInv, Clear, Equipped, Owned, Writers
  <2>4. CASE serving /\ op.kind # "start"
    <3>1. CASE Held # {}
      BY <1>1, <2>1, <2>4, <3>1
      DEF Proceed, Goto, HostInv, Clear, Equipped, Owned, Writers
    <3>2. CASE Held = {} /\ failing
      BY <1>1, <2>1, <2>4, <3>2
      DEF Proceed, Exit, HostInv, Clear, Equipped, Owned, Writers
    <3>3. CASE Held = {} /\ ~failing
      <4>1. resources = {}
        BY <1>1, <3>3 DEF HostInv, Owned, Held, Resources
      <4>2. Leave("poll")
        BY <2>1, <2>4, <3>3 DEF Proceed
      <4> QED
        BY <1>1, <4>1, <4>2 DEF Leave, HostInv, Clear, Equipped, Owned, Writers
    <3> QED  BY <3>1, <3>2, <3>3
  <2> QED  BY <2>2, <2>3, <2>4
<1> QED
  BY <1>2, <1>3, <1>4, <1>5 DEF Writing

\* An attempt that leaves something no handle owns is failing.
LEMMA AttemptHost == TypeInv /\ HostInv /\ Attempt => HostInv'
<1> SUFFICES ASSUME TypeInv, HostInv, Attempt  PROVE HostInv'
  OBVIOUS
<1>0. resources \subseteq Resources
  BY Split DEF DataOK
<1> USE DEF HostInv, Clear, Equipped, Owned, Writers, Resources
<1>1. ASSUME serving, Fail("agent_start_failed"), failing' = TRUE  PROVE HostInv'
  BY <1>1, BeginHost DEF Fail
<1>2. CASE CreateWorkspace
  BY <1>0, <1>1, <1>2 DEF CreateWorkspace, Goto
<1>3. CASE CheckoutSource \/ CreateSandbox
  BY <1>0, <1>1, <1>3 DEF CheckoutSource, CreateSandbox, Goto
<1>4. CASE InvokeAgent
  BY <1>0, <1>4 DEF InvokeAgent, Goto
<1>5. CASE AgentEnds
  <2>1. serving /\ Owned /\ UNCHANGED resources
    BY <1>5 DEF AgentEnds
  <2>2. CASE Goto("collect")
    BY <2>1, <2>2 DEF Goto
  <2>3. ASSUME NEW r, Fail(r)  PROVE HostInv'
    BY <2>1, <2>3, BeginHost DEF Fail
  <2> QED  BY <1>5, <2>2, <2>3 DEF AgentEnds
<1>6. CASE Dispose
  <2>1. CASE ~failing /\ resources' = resources \ {"workspace", "container"} /\ Leave("poll")
    BY <1>0, <1>6, <2>1 DEF Dispose, Leave
  <2>2. CASE Exit
    BY <2>2 DEF Exit
  <2> QED  BY <1>6, <2>1, <2>2 DEF Dispose
<1> QED
  BY <1>2, <1>3, <1>4, <1>5, <1>6 DEF Attempt

\* The artifact pipeline works beside the attempt's own resources.
LEMMA FinishingHost == TypeInv /\ HostInv /\ Finishing => HostInv'
<1> SUFFICES ASSUME TypeInv, HostInv, Finishing  PROVE HostInv'
  OBVIOUS
<1>1. serving /\ Owned /\ UNCHANGED resources
  BY DEF Finishing, CollectChanges, BuildArtifact, PutObject, HeadObject, HostInv,
         Equipped
<1>2. CASE Throw
  BY <1>1, <1>2, ThrowHost
<1>3. ASSUME NEW label \in Equipped, Goto(label)  PROVE HostInv'
  BY <1>1, <1>3 DEF Goto, HostInv, Clear, Equipped, Owned, Writers
<1>4. ASSUME NEW kind, NEW e, NEW o, Begin(kind, e, o), kind # "start"
      PROVE  HostInv'
  BY <1>1, <1>4, BeginHost DEF Owned
<1>5. ASSUME ArtifactFailure  PROVE HostInv'
  BY <1>4, <1>5 DEF ArtifactFailure
<1> QED
  BY <1>2, <1>3, <1>4, <1>5
  DEF Finishing, CollectChanges, BuildArtifact, PutObject, HeadObject, Equipped

\* Nobody else touches the host while the process is up.
LEMMA EnvironmentHost == TypeInv /\ HostInv /\ Environment => HostInv'
<1> SUFFICES ASSUME TypeInv, HostInv, Environment  PROVE HostInv'
  OBVIOUS
<1> USE DEF HostInv, Clear, Equipped, Owned, Writers
<1>1. CASE Crash
  BY <1>1 DEF Crash, Exit
<1>2. CASE ~Crash
  BY <1>2 DEF Environment, ChangeApproval, LateWriteApplied, LateWriteDropped,
              LateObjectApplied, LateObjectDropped, control
<1> QED
  BY <1>1, <1>2

\* Whatever fails, and wherever the process dies, a later process reconciles and
\* serves only when no attempt of an earlier one is left on the host.
THEOREM CleanHost == Spec => []NoAttemptOutlivesCleanup
<1>1. Init => HostInv
  BY DEF Init, HostInv, Clear, Equipped, Writers
<1>2. TypeInv /\ HostInv /\ [Next]_vars => HostInv'
  <2> SUFFICES ASSUME TypeInv, HostInv, [Next]_vars  PROVE HostInv'
    OBVIOUS
  <2>1. CASE Start
    BY <2>1 DEF Start, Goto, HostInv, Clear, Equipped, Owned, Writers
  <2>2. CASE Controller
    BY <2>2, StartupHost, PollingHost, WritingHost, AttemptHost, FinishingHost
    DEF Controller
  <2>3. CASE Environment
    BY <2>3, EnvironmentHost
  <2>4. CASE UNCHANGED vars
    BY <2>4 DEF vars, control, HostInv, Clear, Equipped, Owned, Writers
  <2> QED  BY <2>1, <2>2, <2>3, <2>4 DEF Next
<1>3. HostInv => NoAttemptOutlivesCleanup
  BY DEF HostInv, Clear, NoAttemptOutlivesCleanup
<1> QED
  BY <1>1, <1>2, <1>3, TypeCorrect, PTL DEF Spec

-----------------------------------------------------------------------------
(* References.  A success write is sent, on time or late, only for an      *)
(* artifact that is in the bucket and was made for the Issue; the bucket   *)
(* forgets nothing and an execution keeps its Issue.                       *)

\* Where the execution in hand was allocated for the Issue in hand.
Working == {"workspace", "checkout", "sandbox", "agent", "running", "collect", "build",
            "put_object", "head_object"}

Sound(w) == w.kind = "succeed" => w.execution \in stored /\ owner[w.execution] = w.issue

RefInv ==
    /\ pc \in Working => owner[exec] = issue
    /\ pc \in Writers => Sound(op) /\ (op.kind = "start" => owner[exec] = issue)
    /\ \A w \in lateWrites : Sound(w)
    /\ ReferenceIsDurable

\* A PUT, or a part of it, leaves the reference, empties it, or is a success.
LEMMA ApplyArtifact ==
  ASSUME NEW r \in Record, NEW w \in Write, NEW kept,
         ApplySome(r, w, kept).artifact \notin {r.artifact, NoExecution}
  PROVE  w.kind = "succeed" /\ ApplySome(r, w, kept).artifact = w.execution
<1>1. Apply(r, w).artifact \notin {r.artifact, NoExecution}
      /\ ApplySome(r, w, kept).artifact = Apply(r, w).artifact
  BY DEF ApplySome
<1>2. w.kind \in WriteKinds
  BY DEF Write, WriteKinds
<1>3. ASSUME NEW o  PROVE FailureWrite(r, o).artifact = NoExecution
  BY DEF FailureWrite, Record
<1>4. w.kind \notin {"fail", "artifact_fail", "interrupt"}
  BY <1>1, <1>3 DEF Apply, ArtifactFailureWrite, InterruptedWrite
<1>5. w.kind # "start"
  BY <1>1 DEF Apply, StartWrite
<1>6. w.kind # "reject"
  BY <1>1 DEF Apply, RejectionWrite, Record
<1>7. w.kind = "succeed"
  BY <1>2, <1>4, <1>5, <1>6 DEF WriteKinds
<1>8. Apply(r, w) = SuccessWrite(r, w.execution, w.outcome)
  BY <1>7 DEF Apply
<1>9. SuccessWrite(r, w.execution, w.outcome).artifact = w.execution
  BY DEF SuccessWrite, Record
<1> QED
  BY <1>1, <1>7, <1>8, <1>9

\* The bucket only grows, and an execution keeps the Issue it was allocated for.
LEMMA OwnersStay ==
  TypeInv /\ [Next]_vars =>
    /\ stored \subseteq stored'
    /\ \A e \in Executions : owner[e] \in Issues => owner'[e] = owner[e]
<1> SUFFICES ASSUME TypeInv, [Next]_vars
             PROVE  /\ stored \subseteq stored'
                    /\ \A e \in Executions : owner[e] \in Issues => owner'[e] = owner[e]
  OBVIOUS
<1>1. CASE AuthorizeAndAllocate
  <2>1. owner' = owner \/ \E e \in Executions : /\ Unallocated(e)
                                                /\ owner' = [owner EXCEPT ![e] = issue]
    BY <1>1 DEF AuthorizeAndAllocate
  <2>2. stored' = stored
    BY <1>1 DEF AuthorizeAndAllocate, bucket
  <2> QED  BY <2>1, <2>2, Split DEF Unallocated, DataOK
<1>2. CASE PutObject \/ LateObjectApplied
  BY <1>2 DEF PutObject, LateObjectApplied, bucket, history
<1>3. CASE ~AuthorizeAndAllocate /\ ~PutObject /\ ~LateObjectApplied
  <2>1. UNCHANGED <<stored, owner>>
    BY <1>3
    DEF Next, Controller, Environment, Startup, Polling, Writing, Attempt, Finishing,
        Start, CleanupOrphans, ListAgentRunning, ReconcileNext, ReconcileDone,
        IdentifyExecution, RecoverArtifact, ListCandidates, NextCandidate,
        RefetchIssue, ValidateHandoff, RevalidateRequirements, ResolveSource,
        WriterRead, WriterPut, WriterConfirm, CreateWorkspace, CheckoutSource,
        CreateSandbox, InvokeAgent, AgentEnds, Dispose, CollectChanges, BuildArtifact,
        HeadObject, ChangeApproval, Crash, LateWriteApplied, LateWriteDropped,
        LateObjectDropped, vars, bucket, history
  <2> QED  BY <2>1
<1> QED
  BY <1>1, <1>2, <1>3

\* What was sound stays sound, and so does a reference that was there.
LEMMA SoundStays ==
  ASSUME TypeInv, [Next]_vars, NEW w, w \in Write, Sound(w)
  PROVE  (Sound(w))'
<1>1. w.issue \in Issues
  BY DEF Write
<1>2. stored \subseteq Executions
  BY Split DEF DataOK
<1> QED
  BY <1>1, <1>2, OwnersStay DEF Sound

\* A record that gains no reference keeps a durable one.
LEMMA ReferenceStays ==
  ASSUME TypeInv, [Next]_vars, ReferenceIsDurable,
         \A i \in Issues : record'[i].artifact \in {record[i].artifact, NoExecution}
  PROVE  ReferenceIsDurable'
<1>1. stored \subseteq Executions
  BY Split DEF DataOK
<1> QED
  BY <1>1, OwnersStay DEF ReferenceIsDurable

\* A step that writes no record keeps what writes and references say.
LEMMA Carried ==
  ASSUME TypeInv, [Next]_vars, RefInv, UNCHANGED <<record, lateWrites>>
  PROVE  (\A w \in lateWrites : Sound(w))' /\ ReferenceIsDurable'
<1>1. ReferenceIsDurable'
  BY ReferenceStays DEF RefInv
<1>2. \A w \in lateWrites : w \in Write /\ Sound(w)
  BY Split DEF RefInv, DataOK
<1>3. \A w \in lateWrites : (Sound(w))'
  BY <1>2, SoundStays
<1> QED
  BY <1>1, <1>3

\* A step that drops the work in hand and writes no record.
LEMMA RefLeaves ==
  ASSUME TypeInv, [Next]_vars, RefInv, UNCHANGED <<record, lateWrites>>,
         pc' \notin Working \cup Writers
  PROVE  RefInv'
  BY Carried DEF RefInv

\* A step that goes on with the work in hand and writes no record.
LEMMA RefGoesOn ==
  ASSUME TypeInv, [Next]_vars, RefInv, UNCHANGED <<record, lateWrites, issue, exec>>,
         pc \in Working, pc' \in Working
  PROVE  RefInv'
<1>1. exec \in Executions /\ issue \in Issues
  BY Split, HandsFull DEF Working, WithExecution, WithIssue
<1>2. owner'[exec] = owner[exec]
  BY <1>1, OwnersStay DEF RefInv
<1> QED
  BY <1>2, Carried DEF RefInv, Working, Writers

\* A step that begins a durable write, which is sound.
LEMMA RefBegins ==
  ASSUME TypeInv, [Next]_vars, RefInv, UNCHANGED <<record, lateWrites>>,
         NEW kind, NEW e, NEW o, Begin(kind, e, o),
         kind = "start" => owner'[e] = issue,
         kind = "succeed" => e \in stored' /\ owner'[e] = issue
  PROVE  RefInv'
<1>1. /\ pc' = "read" /\ exec' = e /\ issue' = issue
      /\ op' = [kind |-> kind, issue |-> issue, execution |-> e, outcome |-> o]
  BY DEF Begin
<1>2. (Sound(op))' /\ (op'.kind = "start" => owner'[exec'] = issue')
  BY <1>1 DEF Sound
<1> QED
  BY <1>1, <1>2, Carried DEF RefInv, Working

\* An exception has no work in hand any more.
LEMMA ThrowEmpties ==
  ASSUME Throw \/ Collect \/ Exit
  PROVE  pc' \notin Working \cup Writers
  BY DEF Throw, Collect, Exit, Working, Writers

\* Recovery writes a success only for an artifact it found, of this Issue.
LEMMA StartupRef == TypeInv /\ RefInv /\ Startup => RefInv'
<1> SUFFICES ASSUME TypeInv, RefInv, Startup  PROVE RefInv'
  OBVIOUS
<1>1. [Next]_vars
  BY DEF Next, Controller
<1>2. UNCHANGED <<record, lateWrites, owner, stored>>
  BY DEF Startup, CleanupOrphans, ListAgentRunning, ReconcileNext, ReconcileDone,
         IdentifyExecution, RecoverArtifact, redmine, bucket, history
<1>3. CASE RecoverArtifact
  <2>1. CASE Found /\ owner[exec] = issue /\ Begin("succeed", exec, result[exec])
    BY <1>1, <1>2, <2>1, RefBegins DEF Found
  <2>2. CASE Begin("interrupt", exec, "interrupted")
    BY <1>1, <1>2, <2>2, RefBegins
  <2>3. CASE Collect
    BY <1>1, <1>2, <2>3, ThrowEmpties, RefLeaves
  <2> QED  BY <1>3, <2>1, <2>2, <2>3 DEF RecoverArtifact
<1>4. CASE ~RecoverArtifact
  <2>1. pc' \notin Working \cup Writers
    BY <1>4
    DEF Startup, CleanupOrphans, ListAgentRunning, ReconcileNext, ReconcileDone,
        IdentifyExecution, Goto, Collect, Exit, Working, Writers
  <2> QED  BY <1>1, <1>2, <2>1, RefLeaves
<1> QED
  BY <1>3, <1>4

\* The preparation allocates the execution it begins for the Issue in hand.
LEMMA PollingRef == TypeInv /\ RefInv /\ Polling => RefInv'
<1> SUFFICES ASSUME TypeInv, RefInv, Polling  PROVE RefInv'
  OBVIOUS
<1>1. [Next]_vars
  BY DEF Next, Controller
<1>2. UNCHANGED <<record, lateWrites>>
  BY DEF Polling, ListCandidates, NextCandidate, RefetchIssue, ValidateHandoff,
         RevalidateRequirements, ResolveSource, AuthorizeAndAllocate, redmine
<1>3. ASSUME NEW o, Reject(o)  PROVE RefInv'
  BY <1>1, <1>2, <1>3, RefBegins DEF Reject
<1>4. CASE AuthorizeAndAllocate
  <2>1. ASSUME NEW e \in Executions, owner' = [owner EXCEPT ![e] = issue],
               Begin("start", e, Blank)
        PROVE  RefInv'
    <3>1. owner'[e] = issue
      BY <2>1, Split DEF DataOK
    <3> QED  BY <1>1, <1>2, <2>1, <3>1, RefBegins
  <2> QED  BY <1>3, <1>4, <2>1 DEF AuthorizeAndAllocate
<1>5. CASE ~AuthorizeAndAllocate /\ pc' \in Working \cup Writers
  <2>1. \E o \in {"eligibility_failed", "stale_requirements"} : Reject(o)
    BY <1>5, ThrowEmpties
    DEF Polling, ListCandidates, NextCandidate, RefetchIssue, ValidateHandoff,
        RevalidateRequirements, ResolveSource, Goto, Leave, Skip, Working, Writers
  <2> QED  BY <1>3, <2>1
<1>6. CASE pc' \notin Working \cup Writers
  BY <1>1, <1>2, <1>6, RefLeaves
<1> QED
  BY <1>4, <1>5, <1>6

\* A PUT that is applied, whole or in part, on time or late, leaves a reference
\* as it was or brings one that is sound.
LEMMA AppliedRef ==
  ASSUME TypeInv, [Next]_vars, ReferenceIsDurable, NEW w \in Write, Sound(w),
         NEW kept, record' = [record EXCEPT ![w.issue] = ApplySome(@, w, kept)]
  PROVE  ReferenceIsDurable'
<1>1. record \in [Issues -> Record] /\ stored \subseteq Executions
  BY Split DEF DataOK
<1>2. w.issue \in Issues
  BY DEF Write
<1>3. SUFFICES ASSUME NEW i \in Issues, record'[i].artifact # NoExecution
               PROVE  record'[i].artifact \in stored' /\ owner'[record'[i].artifact] = i
  BY DEF ReferenceIsDurable
<1>4. CASE record'[i].artifact = record[i].artifact
  <2>1. record[i].artifact \in stored /\ owner[record[i].artifact] = i
    BY <1>3, <1>4 DEF ReferenceIsDurable
  <2> QED  BY <1>1, <1>4, <2>1, OwnersStay
<1>5. CASE record'[i].artifact # record[i].artifact
  <2>1. i = w.issue /\ record'[i] = ApplySome(record[i], w, kept)
    BY <1>1, <1>2, <1>5
  <2>2. w.kind = "succeed" /\ record'[i].artifact = w.execution
    BY <1>1, <1>3, <1>5, <2>1, ApplyArtifact
  <2>3. w.execution \in stored /\ owner[w.execution] = i
    BY <2>1, <2>2 DEF Sound
  <2> QED  BY <1>1, <2>2, <2>3, OwnersStay
<1> QED
  BY <1>4, <1>5

\* A writer sends what it holds, and a confirmed start leads to the attempt.
LEMMA WritingRef == TypeInv /\ RefInv /\ Writing => RefInv'
<1> SUFFICES ASSUME TypeInv, RefInv, Writing  PROVE RefInv'
  OBVIOUS
<1>1. [Next]_vars
  BY DEF Next, Controller
<1>2. /\ pc \in Writers /\ op \in Write /\ op.issue = issue /\ issue \in Issues
      /\ op.kind = "start" => exec \in Executions
      /\ UNCHANGED <<owner, stored>>
  BY Split, HandsFull
  DEF Writing, WriterRead, WriterPut, WriterConfirm, Writers, WithIssue, bucket, history
<1>3. Sound(op) /\ (op.kind = "start" => owner[exec] = issue)
  BY <1>2 DEF RefInv
<1>4. CASE WriterRead
  <2>1. UNCHANGED <<record, lateWrites>>
    BY <1>4 DEF WriterRead, redmine
  <2>2. CASE Throw
    BY <1>1, <2>1, <2>2, ThrowEmpties, RefLeaves
  <2>3. CASE ~Throw
    <3>1. pc' = "put" /\ op' = Target /\ UNCHANGED <<issue, exec>>
      BY <1>4, <2>3 DEF WriterRead
    <3>2. op'.kind = op.kind /\ (op.kind # "interrupt" => op' = op)
      BY <1>2, <3>1 DEF Target, Write
    <3>3. (Sound(op))'
      BY <1>2, <1>3, <3>2 DEF Sound
    <3> QED
      BY <1>1, <1>2, <1>3, <2>1, <3>1, <3>2, <3>3, Carried DEF RefInv, Working, Writers
  <2> QED  BY <2>2, <2>3
<1>5. CASE WriterPut
  <2>1. ReferenceIsDurable'
    <3>1. CASE record' = record
      BY <1>1, <3>1, ReferenceStays DEF RefInv
    <3>2. CASE \E kept \in Keeps :
                 record' = [record EXCEPT ![issue] = ApplySome(@, op, kept)]
      BY <1>1, <1>2, <1>3, <3>2, AppliedRef DEF RefInv
    <3> QED  BY <1>5, <3>1, <3>2 DEF WriterPut
  <2>2. lateWrites' \subseteq lateWrites \cup {op}
    BY <1>5 DEF WriterPut
  <2>3. \A w \in lateWrites' : (Sound(w))'
    BY <1>2, <1>3, <2>2 DEF RefInv, Sound
  <2>4. CASE Throw
    BY <2>1, <2>3, <2>4, ThrowEmpties DEF RefInv
  <2>5. CASE Goto("confirm")
    BY <1>2, <1>3, <2>1, <2>3, <2>5 DEF Goto, RefInv, Sound, Working, Writers
  <2> QED  BY <1>5, <2>4, <2>5 DEF WriterPut, Unconfirmed
<1>6. CASE WriterConfirm
  <2>1. UNCHANGED <<record, lateWrites>>
    BY <1>6 DEF WriterConfirm, redmine
  <2>2. CASE pc' \notin Working \cup Writers
    BY <1>1, <2>1, <2>2, RefLeaves
  <2>3. CASE pc' \in Working \cup Writers
    <3>1. op.kind = "start" /\ pc' = "workspace" /\ UNCHANGED <<issue, exec>>
      BY <1>6, <2>3, ThrowEmpties
      DEF WriterConfirm, Unconfirmed, Proceed, Goto, Leave, Working, Writers
    <3> QED
      BY <1>1, <1>2, <1>3, <2>1, <3>1, Carried DEF RefInv, Writers
  <2> QED  BY <2>2, <2>3
<1> QED
  BY <1>4, <1>5, <1>6 DEF Writing

\* An attempt goes on with its execution or asks for a failure.
LEMMA AttemptRef == TypeInv /\ RefInv /\ Attempt => RefInv'
<1> SUFFICES ASSUME TypeInv, RefInv, Attempt  PROVE RefInv'
  OBVIOUS
<1>1. [Next]_vars
  BY DEF Next, Controller
<1>2. UNCHANGED <<record, lateWrites>>
  BY DEF Attempt, CreateWorkspace, CheckoutSource, CreateSandbox, InvokeAgent, AgentEnds,
         Dispose, redmine
<1>3. ASSUME NEW o, Fail(o)  PROVE RefInv'
  BY <1>1, <1>2, <1>3, RefBegins DEF Fail
<1>4. ASSUME NEW label \in Working, pc \in Working, Goto(label)  PROVE RefInv'
  BY <1>1, <1>2, <1>4, RefGoesOn DEF Goto
<1>5. CASE Dispose
  <2>1. pc' \notin Working \cup Writers
    BY <1>5, ThrowEmpties DEF Dispose, Leave, Working, Writers
  <2> QED  BY <1>1, <1>2, <2>1, RefLeaves
<1>6. CASE ~Dispose
  BY <1>3, <1>4, <1>6
  DEF Attempt, CreateWorkspace, CheckoutSource, CreateSandbox, InvokeAgent, AgentEnds,
      Working
<1> QED
  BY <1>5, <1>6

\* A success is asked for once the artifact is in the bucket.
LEMMA FinishingRef == TypeInv /\ RefInv /\ Finishing => RefInv'
<1> SUFFICES ASSUME TypeInv, RefInv, Finishing  PROVE RefInv'
  OBVIOUS
<1>1. [Next]_vars
  BY DEF Next, Controller
<1>2. UNCHANGED <<record, lateWrites, owner>>
  BY DEF Finishing, CollectChanges, BuildArtifact, PutObject, HeadObject, redmine, history
<1>3. ASSUME ArtifactFailure  PROVE RefInv'
  BY <1>1, <1>2, <1>3, RefBegins DEF ArtifactFailure
<1>4. ASSUME NEW label \in Working, pc \in Working, Goto(label)  PROVE RefInv'
  BY <1>1, <1>2, <1>4, RefGoesOn DEF Goto
<1>5. CASE Throw
  BY <1>1, <1>2, <1>5, ThrowEmpties, RefLeaves
<1>6. CASE HeadObject /\ HeadConfirms /\ Begin("succeed", exec, result[exec])
  <2>1. exec \in stored' /\ owner'[exec] = issue
    BY <1>2, <1>6 DEF HeadObject, HeadConfirms, RefInv, Working, bucket
  <2> QED  BY <1>1, <1>2, <1>6, <2>1, RefBegins
<1> QED
  BY <1>3, <1>4, <1>5, <1>6
  DEF Finishing, CollectChanges, BuildArtifact, PutObject, HeadObject, Working

\* A late write is as sound as when it was sent.
LEMMA EnvironmentRef == TypeInv /\ RefInv /\ Environment => RefInv'
<1> SUFFICES ASSUME TypeInv, RefInv, Environment  PROVE RefInv'
  OBVIOUS
<1>1. [Next]_vars
  BY DEF Next
<1>2. UNCHANGED owner /\ stored \subseteq stored'
  BY <1>1, OwnersStay
  DEF Environment, ChangeApproval, Crash, LateWriteApplied, LateWriteDropped,
      LateObjectApplied, LateObjectDropped, history
<1>3. lateWrites' \subseteq lateWrites
  BY DEF Environment, ChangeApproval, Crash, LateWriteApplied, LateWriteDropped,
         LateObjectApplied, LateObjectDropped, redmine
<1>4. \A w \in lateWrites' : (Sound(w))'
  BY <1>2, <1>3 DEF RefInv, Sound
<1>5. ReferenceIsDurable'
  <2>1. CASE record' = record
    BY <1>1, <2>1, ReferenceStays DEF RefInv
  <2>2. CASE LateWriteApplied
    <3>1. PICK w \in lateWrites, kept \in Keeps :
              record' = [record EXCEPT ![w.issue] = ApplySome(@, w, kept)]
      BY <2>2 DEF LateWriteApplied
    <3>2. w \in Write /\ Sound(w)
      BY Split DEF DataOK, RefInv
    <3> QED  BY <1>1, <3>1, <3>2, AppliedRef DEF RefInv
  <2> QED
    BY <2>1, <2>2
    DEF Environment, ChangeApproval, Crash, LateWriteDropped, LateObjectApplied,
        LateObjectDropped, redmine
<1>6. CASE Crash
  BY <1>4, <1>5, <1>6, ThrowEmpties DEF Crash, RefInv
<1>7. CASE ~Crash
  <2>1. UNCHANGED control
    BY <1>7 DEF Environment, ChangeApproval, LateWriteApplied, LateWriteDropped,
                LateObjectApplied, LateObjectDropped
  <2> QED  BY <1>2, <1>4, <1>5, <2>1 DEF control, RefInv, Sound
<1> QED
  BY <1>6, <1>7

\* Every success write, sent, late or to be sent, is for an artifact in the bucket.
LEMMA RefInvHolds == Spec => []RefInv
<1>1. Init => RefInv
  BY DEF Init, RefInv, ReferenceIsDurable, Pristine, Working, Writers
<1>2. TypeInv /\ RefInv /\ [Next]_vars => RefInv'
  <2> SUFFICES ASSUME TypeInv, RefInv, [Next]_vars  PROVE RefInv'
    OBVIOUS
  <2>1. CASE Start
    <3>1. UNCHANGED <<record, lateWrites>> /\ pc' \notin Working \cup Writers
      BY <2>1 DEF Start, Goto, Working, Writers, redmine
    <3> QED  BY <3>1, RefLeaves
  <2>2. CASE Controller
    BY <2>2, StartupRef, PollingRef, WritingRef, AttemptRef, FinishingRef DEF Controller
  <2>3. CASE Environment
    BY <2>3, EnvironmentRef
  <2>4. CASE UNCHANGED vars
    BY <2>4 DEF vars, control, redmine, bucket, history, RefInv, Sound,
                ReferenceIsDurable
  <2> QED  BY <2>1, <2>2, <2>3, <2>4 DEF Next
<1> QED
  BY <1>1, <1>2, TypeCorrect, PTL DEF Spec

\* Whatever is lost, late or dropped by Redmine or S3, a reference in a record
\* names an object in the bucket that was built for this Issue.
THEOREM ReferenceHolds == Spec => []ReferenceIsDurable
<1>1. RefInv => ReferenceIsDurable
  BY DEF RefInv
<1> QED
  BY <1>1, RefInvHolds, PTL

-----------------------------------------------------------------------------
(* Prompt writes.  When no request outlives its client, nothing comes      *)
(* between the read that allows a PUT and the PUT: the Controller is the   *)
(* only writer.  What follows assumes that and nothing of what Redmine     *)
(* keeps of a PUT, unless it says so.                                      *)

PromptInv ==
    /\ lateWrites = {} /\ lateObjects = {}
    /\ pc = "put" => Allowed(record[issue], op)

\* What the guard of each writer says of the record it read.
LEMMA AllowedMeans ==
  ASSUME NEW r \in Record, NEW w \in Write, Allowed(r, w)
  PROVE  /\ r.lifecycle \notin Terminal
         /\ w.kind \in {"start", "reject"} => r = Pristine
         /\ w.kind \notin {"start", "reject"} => Active(r)
<1> USE DEF Terminal, AgentRunning, NeedsHuman, ReadyForVerifying, Blank
<1>1. CASE w.kind \in {"start", "reject"}
  <2>1. r = Pristine
    BY <1>1 DEF Allowed, IsPristine
  <2> QED  BY <1>1, <2>1 DEF Pristine
<1>2. CASE w.kind = "fail"
  BY <1>2 DEF Allowed, FailureGuard, Active
<1>3. CASE w.kind \in {"artifact_fail", "succeed"}
  BY <1>3 DEF Allowed, ArtifactGuard, Active
<1>4. CASE w.kind = "interrupt"
  BY <1>4 DEF Allowed, InterruptedGuard, Active
<1>5. w.kind \in WriteKinds
  BY DEF Write, WriteKinds
<1> QED
  BY <1>1, <1>2, <1>3, <1>4, <1>5 DEF WriteKinds

\* With prompt writes the only step that changes a record is a PUT behind its
\* guard.
LEMMA OnlyPuts ==
  ASSUME TypeInv, PromptInv, [Next]_vars
  PROVE  \/ record' = record
         \/ /\ WriterPut /\ issue \in Issues /\ op \in Write /\ op.issue = issue
            /\ Allowed(record[issue], op)
            /\ \E kept \in Keeps :
                  record' = [record EXCEPT ![issue] = ApplySome(@, op, kept)]
<1>1. CASE WriterPut
  <2>1. issue \in Issues /\ op \in Write /\ op.issue = issue
    BY <1>1, Split, HandsFull DEF WriterPut, Writers, WithIssue
  <2>2. Allowed(record[issue], op)
    BY <1>1 DEF PromptInv, WriterPut
  <2> QED  BY <1>1, <2>1, <2>2 DEF WriterPut
<1>2. CASE LateWriteApplied
  BY <1>2 DEF LateWriteApplied, PromptInv
<1>3. CASE ~WriterPut /\ ~LateWriteApplied
  <2>1. UNCHANGED record
    BY <1>3
    DEF Next, Controller, Environment, Startup, Polling, Writing, Attempt, Finishing,
        Start, CleanupOrphans, ListAgentRunning, ReconcileNext, ReconcileDone,
        IdentifyExecution, RecoverArtifact, ListCandidates, NextCandidate,
        RefetchIssue, ValidateHandoff, RevalidateRequirements, ResolveSource,
        AuthorizeAndAllocate, WriterRead, WriterConfirm, CreateWorkspace,
        CheckoutSource, CreateSandbox, InvokeAgent, AgentEnds, Dispose,
        CollectChanges, BuildArtifact, PutObject, HeadObject, ChangeApproval, Crash,
        LateWriteDropped, LateObjectApplied, LateObjectDropped, vars, redmine
  <2> QED  BY <2>1
<1> QED
  BY <1>1, <1>2, <1>3

\* Nothing comes between a guard and its PUT.
LEMMA PromptStep ==
  ASSUME DelayedWrites = FALSE, TypeInv, PromptInv, [Next]_vars
  PROVE  PromptInv'
<1>1. lateWrites' = {} /\ lateObjects' = {}
  BY DEF PromptInv, Next, Controller, Environment, Startup, Polling, Writing, Attempt,
         Finishing, Start, CleanupOrphans, ListAgentRunning, ReconcileNext,
         ReconcileDone, IdentifyExecution, RecoverArtifact, ListCandidates,
         NextCandidate, RefetchIssue, ValidateHandoff, RevalidateRequirements,
         ResolveSource, AuthorizeAndAllocate, WriterRead, WriterPut, WriterConfirm,
         CreateWorkspace, CheckoutSource, CreateSandbox, InvokeAgent, AgentEnds,
         Dispose, CollectChanges, BuildArtifact, PutObject, HeadObject, ChangeApproval,
         Crash, LateWriteApplied, LateWriteDropped, LateObjectApplied,
         LateObjectDropped, vars, redmine, bucket
<1>2. pc' = "put" => Allowed(record'[issue'], op')
  <2>1. CASE WriterRead
    BY <2>1, ThrowEmpties DEF WriterRead, redmine, Writers
  <2>2. CASE WriterPut
    BY <2>2, ThrowEmpties DEF WriterPut, Unconfirmed, Goto, Writers
  <2>3. CASE Environment /\ ~Crash
    <3>1. UNCHANGED control
      BY <2>3 DEF Environment, ChangeApproval, LateWriteApplied, LateWriteDropped,
                  LateObjectApplied, LateObjectDropped
    <3>2. record' = record
      BY <2>3, OnlyPuts
      DEF PromptInv, Environment, ChangeApproval, LateWriteApplied, LateWriteDropped,
          LateObjectApplied, LateObjectDropped, redmine
    <3> QED  BY <3>1, <3>2 DEF PromptInv, control
  <2>4. CASE UNCHANGED vars
    BY <2>4 DEF vars, control, redmine, PromptInv
  <2>5. CASE ~WriterRead /\ ~WriterPut /\ (Start \/ Controller \/ Crash)
    <3>1. pc' # "put"
      BY <2>5, ThrowEmpties
      DEF Controller, Startup, Polling, Writing, Attempt, Finishing, Start, Crash,
          CleanupOrphans, ListAgentRunning, ReconcileNext, ReconcileDone,
          IdentifyExecution, RecoverArtifact, ListCandidates, NextCandidate,
          RefetchIssue, ValidateHandoff, RevalidateRequirements, ResolveSource,
          AuthorizeAndAllocate, WriterConfirm, CreateWorkspace, CheckoutSource,
          CreateSandbox, InvokeAgent, AgentEnds, Dispose, CollectChanges,
          BuildArtifact, PutObject, HeadObject, Goto, Leave, Skip, Begin, Reject, Fail,
          ArtifactFailure, Unconfirmed, Proceed, Writers
    <3> QED  BY <3>1
  <2> QED  BY <2>1, <2>2, <2>3, <2>4, <2>5 DEF Next
<1> QED
  BY <1>1, <1>2 DEF PromptInv

\* When no request outlives its client, every reachable state is prompt.
LEMMA PromptHolds == DelayedWrites = FALSE => (Spec => []PromptInv)
<1> SUFFICES ASSUME DelayedWrites = FALSE  PROVE Spec => []PromptInv
  OBVIOUS
<1>1. Init => PromptInv
  BY DEF Init, PromptInv
<1>2. TypeInv /\ PromptInv /\ [Next]_vars => PromptInv'
  BY PromptStep
<1> QED
  BY <1>1, <1>2, TypeCorrect, PTL DEF Spec

\* When no request outlives its client, a terminal record is final: no writer,
\* recovery or restart changes it, whatever fields Redmine leaves out.
THEOREM TerminalHolds == DelayedWrites = FALSE => (Spec => TerminalIsFinal)
<1> SUFFICES ASSUME DelayedWrites = FALSE  PROVE Spec => TerminalIsFinal
  OBVIOUS
<1>1. TypeInv /\ PromptInv /\ [Next]_vars =>
        [\A i \in Issues : record[i].lifecycle \in Terminal =>
                              record'[i] = record[i]]_vars
  <2> SUFFICES ASSUME TypeInv, PromptInv, [Next]_vars, NEW i \in Issues,
                      record[i].lifecycle \in Terminal
               PROVE  record'[i] = record[i]
    OBVIOUS
  <2>1. record \in [Issues -> Record]
    BY Split DEF DataOK
  <2>2. CASE Allowed(record[issue], op) /\ issue \in Issues /\ op \in Write
             /\ \E kept \in Keeps :
                   record' = [record EXCEPT ![issue] = ApplySome(@, op, kept)]
    <3>1. i # issue
      BY <2>1, <2>2, AllowedMeans
    <3> QED  BY <2>1, <2>2, <3>1
  <2> QED  BY <2>2, OnlyPuts
<1> QED
  BY <1>1, TypeCorrect, PromptHolds, PTL DEF Spec, TerminalIsFinal

\* A PUT whose guard holds keeps rejections and executions apart.
LEMMA RejectedApart ==
  ASSUME NEW r \in Record, NEW w \in Write, Allowed(r, w),
         r.rejection # Blank => r = RejectionWrite(Pristine, r.rejection),
         Apply(r, w).rejection # Blank
  PROVE  Apply(r, w) = RejectionWrite(Pristine, Apply(r, w).rejection)
<1>1. CASE w.kind = "start"
  <2>1. Apply(r, w) = StartWrite(w.execution)
    BY <1>1 DEF Apply
  <2>2. StartWrite(w.execution).rejection = Blank
    BY DEF StartWrite
  <2> QED  BY <2>1, <2>2
<1>2. CASE w.kind = "reject"
  <2>1. Apply(r, w) = RejectionWrite(r, w.outcome) /\ r = Pristine
    BY <1>2, AllowedMeans DEF Apply
  <2>2. RejectionWrite(Pristine, w.outcome).rejection = w.outcome
    BY DEF RejectionWrite, Pristine
  <2> QED  BY <2>1, <2>2
<1>3. CASE w.kind \notin {"start", "reject"}
  <2>1. Active(r)
    BY <1>3, AllowedMeans
  <2>2. r.rejection = Blank
    <3>1. RejectionWrite(Pristine, r.rejection).lifecycle = NeedsHuman
      BY DEF RejectionWrite, Pristine
    <3> QED  BY <2>1, <3>1 DEF Active, AgentRunning, NeedsHuman
  <2>3. ASSUME NEW o  PROVE FailureWrite(r, o).rejection = Blank
    BY <2>2 DEF FailureWrite, Record
  <2>4. ASSUME NEW e, NEW o  PROVE SuccessWrite(r, e, o).rejection = Blank
    BY <2>2 DEF SuccessWrite, Record
  <2>5. w.kind \in {"fail", "artifact_fail", "interrupt", "succeed"}
    BY <1>3 DEF Write, WriteKinds
  <2>6. CASE w.kind = "fail"
    BY <2>3, <2>6 DEF Apply
  <2>7. CASE w.kind = "artifact_fail"
    BY <2>3, <2>7 DEF Apply, ArtifactFailureWrite
  <2>8. CASE w.kind = "interrupt"
    BY <2>3, <2>8 DEF Apply, InterruptedWrite
  <2>9. CASE w.kind = "succeed"
    BY <2>4, <2>9 DEF Apply
  <2> QED  BY <2>5, <2>6, <2>7, <2>8, <2>9
<1> QED
  BY <1>1, <1>2, <1>3

\* When no request outlives its client and a PUT is applied whole or not at all,
\* an Issue is rejected or executed, never both.
THEOREM RejectedHolds ==
  DelayedWrites = FALSE /\ Droppable = {} => (Spec => []RejectedNeverStarted)
<1> SUFFICES ASSUME DelayedWrites = FALSE, Droppable = {}
             PROVE  Spec => []RejectedNeverStarted
  OBVIOUS
<1>1. Init => RejectedNeverStarted
  BY DEF Init, RejectedNeverStarted, Pristine
<1>2. TypeInv /\ PromptInv /\ RejectedNeverStarted /\ [Next]_vars
        => RejectedNeverStarted'
  <2> SUFFICES ASSUME TypeInv, PromptInv, RejectedNeverStarted, [Next]_vars
               PROVE  RejectedNeverStarted'
    OBVIOUS
  <2>1. record \in [Issues -> Record]
    BY Split DEF DataOK
  <2>2. CASE UNCHANGED record
    BY <2>2 DEF RejectedNeverStarted
  <2>3. CASE Allowed(record[issue], op) /\ issue \in Issues /\ op \in Write
             /\ \E kept \in Keeps :
                   record' = [record EXCEPT ![issue] = ApplySome(@, op, kept)]
    <3>1. \A kept \in Keeps : kept = Fields
      BY DEF Keeps
    <3>2. ApplySome(record[issue], op, Fields) = Apply(record[issue], op)
      <4>1. Apply(record[issue], op) \in Record
        BY <2>1, <2>3, ApplyOK
      <4> QED  BY <4>1 DEF ApplySome, Fields, Record
    <3>3. record' = [record EXCEPT ![issue] = Apply(record[issue], op)]
      BY <2>3, <3>1, <3>2
    <3>4. record'[issue].rejection # Blank =>
            record'[issue] = RejectionWrite(Pristine, record'[issue].rejection)
      BY <2>1, <2>3, <3>3, RejectedApart DEF RejectedNeverStarted
    <3> QED  BY <2>1, <3>3, <3>4 DEF RejectedNeverStarted
  <2> QED  BY <2>2, <2>3, OnlyPuts
<1> QED
  BY <1>1, <1>2, TypeCorrect, PromptHolds, PTL DEF Spec

-----------------------------------------------------------------------------
(* Idle.  With prompt writes the Controller always knows which record may  *)
(* be Agent Running: the one in hand, the ones still to be reconciled, or  *)
(* any once an error is on its way out.                                    *)

RunningOnly(S) == \A i \in Issues : Running(i) => i \in S

Before == {"down", "cleanup", "list_running", "reconcile", "identify", "recover"}

Cycle == {"poll", "scan", "refetch", "validate", "revalidate", "resolve", "authorize"}

IdleInv ==
    /\ pc \in Before => ~serving
    /\ pc \in Cycle => serving /\ RunningOnly({})
    /\ pc \in Working => serving /\ RunningOnly({issue})
    /\ pc \in Writers /\ serving => RunningOnly({issue})
    /\ pc = "dispose" => serving /\ (failing \/ RunningOnly({}))
    /\ pc = "reconcile" => failing \/ RunningOnly(todo)
    /\ pc \in {"identify", "recover"} => failing \/ RunningOnly(todo \cup {issue})
    /\ pc \in Writers /\ ~serving =>
          op.kind # "start" /\ (failing \/ RunningOnly(todo \cup {issue}))

\* An error leads to a disposal or a reconciliation that fails, or out.
LEMMA ThrowIdle ==
  ASSUME IdleInv, Throw
  PROVE  IdleInv'
  BY DEF IdleInv, Throw, Collect, Exit, Before, Cycle, Working, Writers

\* Leaving the process leaves nothing to know.
LEMMA ExitIdle ==
  ASSUME Exit
  PROVE  IdleInv'
  BY DEF IdleInv, Exit, Before, Cycle, Working, Writers

\* A serving process begins a write for the only record that may be running.
LEMMA BeginIdle ==
  ASSUME IdleInv, serving, NEW kind, NEW e, NEW o, Begin(kind, e, o),
         RunningOnly({issue}), UNCHANGED record
  PROVE  IdleInv'
<1>1. pc' = "read" /\ UNCHANGED <<serving, issue>>
  BY DEF Begin
<1>2. (RunningOnly({issue}))'
  BY <1>1 DEF RunningOnly, Running
<1> QED
  BY <1>1, <1>2 DEF IdleInv, Before, Cycle, Working, Writers

\* The reconciliation has every Agent Running record before it, or in hand.
LEMMA StartupIdle == IdleInv /\ Startup => IdleInv'
<1> SUFFICES ASSUME IdleInv, Startup  PROVE IdleInv'
  OBVIOUS
<1>1. UNCHANGED record
  BY DEF Startup, CleanupOrphans, ListAgentRunning, ReconcileNext, ReconcileDone,
         IdentifyExecution, RecoverArtifact, redmine
<1>2. ~serving
  BY DEF IdleInv, Before, Startup, CleanupOrphans, ListAgentRunning, ReconcileNext,
         ReconcileDone, IdentifyExecution, RecoverArtifact
<1> USE DEF Before, Cycle, Working, Writers, RunningOnly, Running
<1>3. CASE Exit
  BY <1>3, ExitIdle
<1>4. CASE Collect
  BY <1>1, <1>2, <1>4 DEF Collect, IdleInv
<1>5. CASE CleanupOrphans /\ ~Exit
  BY <1>1, <1>2, <1>5 DEF CleanupOrphans, Goto, IdleInv
<1>6. CASE ListAgentRunning /\ ~Exit
  BY <1>1, <1>2, <1>6 DEF ListAgentRunning, AgentRunningIssues, IdleInv
<1>7. CASE ReconcileNext
  BY <1>1, <1>2, <1>7 DEF ReconcileNext, IdleInv
<1>8. CASE ReconcileDone /\ ~Exit
  <2>1. pc' = "poll" /\ serving' /\ RunningOnly({})
    BY <1>8 DEF ReconcileDone, IdleInv
  <2> QED  BY <1>1, <2>1 DEF IdleInv
<1>9. CASE IdentifyExecution /\ ~Collect
  BY <1>1, <1>2, <1>9 DEF IdentifyExecution, IdleInv
<1>10. CASE RecoverArtifact /\ ~Collect
  <2>1. /\ pc = "recover" /\ pc' = "read" /\ op'.kind # "start"
        /\ UNCHANGED <<serving, todo, issue, failing>>
    BY <1>10 DEF RecoverArtifact, Begin
  <2> QED  BY <1>1, <1>2, <2>1 DEF IdleInv
<1> QED
  BY <1>3, <1>4, <1>5, <1>6, <1>7, <1>8, <1>9, <1>10
  DEF Startup, CleanupOrphans, ListAgentRunning, ReconcileDone, IdentifyExecution,
      RecoverArtifact

\* A poll cycle goes on while nothing runs.
LEMMA PollingIdle == IdleInv /\ Polling => IdleInv'
<1> SUFFICES ASSUME IdleInv, Polling  PROVE IdleInv'
  OBVIOUS
<1>1. UNCHANGED record
  BY DEF Polling, ListCandidates, NextCandidate, RefetchIssue, ValidateHandoff,
         RevalidateRequirements, ResolveSource, AuthorizeAndAllocate, redmine
<1>2. pc \in Cycle
  BY DEF Cycle, Polling, ListCandidates, NextCandidate, RefetchIssue, ValidateHandoff,
         RevalidateRequirements, ResolveSource, AuthorizeAndAllocate
<1>3. serving /\ RunningOnly({}) /\ RunningOnly({issue})
  BY <1>2 DEF IdleInv, RunningOnly
<1>4. CASE Throw \/ Exit
  BY <1>4, ThrowIdle, ExitIdle
<1>5. CASE pc' \in Cycle /\ UNCHANGED serving
  BY <1>1, <1>3, <1>5
  DEF IdleInv, RunningOnly, Running, Before, Cycle, Working, Writers
<1>6. CASE \E kind, e, o : Begin(kind, e, o)
  BY <1>1, <1>3, <1>6, BeginIdle
<1> QED
  BY <1>4, <1>5, <1>6
  DEF Polling, ListCandidates, NextCandidate, RefetchIssue, ValidateHandoff,
      RevalidateRequirements, ResolveSource, AuthorizeAndAllocate, Goto, Leave, Skip,
      Reject, Cycle

\* What a confirmed write leaves is terminal, unless it is a start.
LEMMA ConfirmedEnds ==
  ASSUME NEW r, NEW w \in Write, Confirmed(r, w), w.kind # "start"
  PROVE  r.lifecycle # AgentRunning
<1> USE DEF AgentRunning, NeedsHuman, ReadyForVerifying
<1>1. CASE w.kind = "reject"
  BY <1>1 DEF Confirmed, RejectionReadBack
<1>2. CASE w.kind = "fail"
  BY <1>2 DEF Confirmed, FailureReadBack
<1>3. CASE w.kind = "artifact_fail"
  BY <1>3 DEF Confirmed, ArtifactFailureReadBack, FailureReadBack
<1>4. CASE w.kind = "interrupt"
  BY <1>4 DEF Confirmed, InterruptedReadBack, FailureReadBack
<1>5. CASE w.kind = "succeed"
  BY <1>5 DEF Confirmed, SuccessReadBack
<1> QED
  BY <1>1, <1>2, <1>3, <1>4, <1>5 DEF Write, WriteKinds

\* A write touches the record in hand, and a confirmed one ends its run.
LEMMA WritingIdle == TypeInv /\ PromptInv /\ IdleInv /\ Writing => IdleInv'
<1> SUFFICES ASSUME TypeInv, PromptInv, IdleInv, Writing  PROVE IdleInv'
  OBVIOUS
<1>1. pc \in Writers /\ op \in Write /\ issue \in Issues
  BY Split, HandsFull
  DEF Writing, WriterRead, WriterPut, WriterConfirm, Writers, WithIssue
<1>2. CASE Throw
  BY <1>2, ThrowIdle
<1> USE DEF Before, Cycle, Working, Writers, RunningOnly, Running
<1>3. CASE WriterRead /\ ~Throw
  <2>1. /\ pc' = "put" /\ UNCHANGED <<serving, todo, issue, failing, record>>
        /\ op' = Target
    BY <1>3 DEF WriterRead, redmine
  <2>2. op'.kind = op.kind
    BY <1>1, <2>1 DEF Target, Write
  <2> QED  BY <1>1, <2>1, <2>2 DEF IdleInv
<1>4. CASE WriterPut /\ ~Throw
  <2>1. pc' = "confirm" /\ UNCHANGED <<serving, todo, issue, failing, op>>
    BY <1>4 DEF WriterPut, Goto, Unconfirmed
  <2>2. \A i \in Issues \ {issue} : record'[i] = record[i]
    BY <1>4, Split DEF WriterPut, DataOK
  <2> QED  BY <1>1, <2>1, <2>2 DEF IdleInv
<1>5. CASE WriterConfirm /\ ~Throw
  <2>1. Proceed /\ Confirmed(record[issue], op) /\ UNCHANGED record
    BY <1>5 DEF WriterConfirm, Unconfirmed, redmine
  <2>2. op.kind # "start" => ~Running(issue)
    BY <1>1, <2>1, ConfirmedEnds
  <2>3. CASE ~serving
    <3>1. pc' = "reconcile" /\ UNCHANGED <<serving, todo, failing>>
      BY <2>1, <2>3 DEF Proceed
    <3>2. ~Running(issue) /\ (failing \/ RunningOnly(todo \cup {issue}))
      BY <1>1, <2>2, <2>3 DEF IdleInv
    <3> QED  BY <2>1, <2>3, <3>1, <3>2 DEF IdleInv
  <2>4. CASE serving /\ op.kind = "start"
    <3>1. Goto("workspace")
      BY <2>1, <2>4 DEF Proceed
    <3> QED  BY <1>1, <2>1, <2>4, <3>1 DEF Goto, IdleInv
  <2>5. CASE serving /\ op.kind # "start"
    <3>1. RunningOnly({})
      BY <1>1, <2>2, <2>5 DEF IdleInv
    <3>2. CASE Exit
      BY <3>2, ExitIdle
    <3>3. CASE pc' \in {"dispose", "poll"} /\ UNCHANGED serving
      BY <2>1, <2>5, <3>1, <3>3 DEF IdleInv
    <3>4. Goto("dispose") \/ Exit \/ Leave("poll")
      BY <2>1, <2>5 DEF Proceed
    <3> QED  BY <3>2, <3>3, <3>4 DEF Goto, Leave
  <2> QED  BY <2>3, <2>4, <2>5
<1> QED
  BY <1>2, <1>3, <1>4, <1>5 DEF Writing

\* An attempt and its artifact concern the record in hand alone.
LEMMA WorkIdle == IdleInv /\ (Attempt \/ Finishing) => IdleInv'
<1> SUFFICES ASSUME IdleInv, Attempt \/ Finishing  PROVE IdleInv'
  OBVIOUS
<1>1. UNCHANGED record
  BY DEF Attempt, CreateWorkspace, CheckoutSource, CreateSandbox, InvokeAgent, AgentEnds,
         Dispose, Finishing, CollectChanges, BuildArtifact, PutObject, HeadObject,
         redmine
<1>2. CASE Dispose
  <2>1. CASE Exit
    BY <2>1, ExitIdle
  <2>2. CASE ~failing /\ Leave("poll")
    BY <1>1, <1>2, <2>2
    DEF Dispose, Leave, IdleInv, Before, Cycle, Working, Writers, RunningOnly, Running
  <2> QED  BY <1>2, <2>1, <2>2 DEF Dispose
<1>3. CASE ~Dispose
  <2>1. pc \in Working
    BY <1>3
    DEF Attempt, CreateWorkspace, CheckoutSource, CreateSandbox, InvokeAgent, AgentEnds,
        Finishing, CollectChanges, BuildArtifact, PutObject, HeadObject, Working
  <2>2. serving /\ RunningOnly({issue})
    BY <2>1 DEF IdleInv
  <2>3. CASE Throw
    BY <2>3, ThrowIdle
  <2>4. CASE \E kind, e, o : Begin(kind, e, o)
    BY <1>1, <2>2, <2>4, BeginIdle
  <2>5. CASE pc' \in Working /\ UNCHANGED <<serving, issue>>
    BY <1>1, <2>2, <2>5
    DEF IdleInv, Before, Cycle, Working, Writers, RunningOnly, Running
  <2> QED
    BY <1>3, <2>3, <2>4, <2>5
    DEF Attempt, CreateWorkspace, CheckoutSource, CreateSandbox, InvokeAgent, AgentEnds,
        Finishing, CollectChanges, BuildArtifact, PutObject, HeadObject, Goto, Fail,
        ArtifactFailure, Working
<1> QED
  BY <1>2, <1>3

\* When no request outlives its client, the process polls only while no record
\* is Agent Running, whatever fields Redmine leaves out.
THEOREM IdleHolds == DelayedWrites = FALSE => (Spec => []IdleMeansNothingRunning)
<1> SUFFICES ASSUME DelayedWrites = FALSE  PROVE Spec => []IdleMeansNothingRunning
  OBVIOUS
<1>1. Init => IdleInv
  BY DEF Init, IdleInv, Before, Cycle, Working, Writers
<1>2. TypeInv /\ PromptInv /\ IdleInv /\ [Next]_vars => IdleInv'
  <2> SUFFICES ASSUME TypeInv, PromptInv, IdleInv, [Next]_vars  PROVE IdleInv'
    OBVIOUS
  <2>1. CASE Start
    BY <2>1 DEF Start, Goto, IdleInv, Before, Cycle, Working, Writers
  <2>2. CASE Controller
    BY <2>2, StartupIdle, PollingIdle, WritingIdle, WorkIdle DEF Controller
  <2>3. CASE Crash
    BY <2>3, ExitIdle DEF Crash
  <2>4. CASE (Environment /\ ~Crash) \/ UNCHANGED vars
    <3>1. UNCHANGED <<control, record>>
      BY <2>4 DEF Environment, ChangeApproval, LateWriteApplied, LateWriteDropped,
                  LateObjectApplied, LateObjectDropped, PromptInv, redmine, vars
    <3> QED
      BY <3>1 DEF control, IdleInv, RunningOnly, Running
  <2> QED  BY <2>1, <2>2, <2>3, <2>4 DEF Next
<1>3. IdleInv => IdleMeansNothingRunning
  BY DEF IdleInv, Cycle, RunningOnly, IdleMeansNothingRunning
<1> QED
  BY <1>1, <1>2, <1>3, TypeCorrect, PromptHolds, PTL DEF Spec

-----------------------------------------------------------------------------
(* Verified artifacts.  With prompt writes an execution whose artifact was *)
(* verified is the one its record names until the success is written: the  *)
(* recovery finds the artifact, and no other writer's guard holds.         *)

Discarding == {"fail", "artifact_fail", "interrupt"}

Kept(e) == /\ record[owner[e]].execution = e
           /\ record[owner[e]].lifecycle \in {AgentRunning, ReadyForVerifying}

VerifiedBase ==
    /\ verified \subseteq stored
    /\ \A e \in verified : owner[e] \in Issues /\ Kept(e)

Unverified(i) == \A e \in verified : owner[e] # i

VerifiedInv ==
    /\ VerifiedBase
    /\ pc \in Working => /\ record[issue].execution = exec
                         /\ record[issue].lifecycle = AgentRunning
                         /\ exec \notin verified
    /\ pc = "recover" => record[issue].execution = exec
    /\ pc \in Writers => /\ op.kind \in Discarding => Unverified(issue)
                         /\ op.kind = "start" => exec \notin verified
                                                 /\ op.execution = exec

\* What is verified stays in the bucket, for the same Issue.
LEMMA BaseStays ==
  ASSUME TypeInv, [Next]_vars, VerifiedBase, UNCHANGED <<record, verified>>
  PROVE  VerifiedBase'
<1>1. verified \subseteq Executions
  BY Split DEF DataOK
<1>2. \A e \in verified : owner'[e] = owner[e]
  BY <1>1, OwnersStay DEF VerifiedBase
<1> QED
  BY <1>2, OwnersStay DEF VerifiedBase, Kept

\* A step that drops the work in hand.
LEMMA VerifiedLeaves ==
  ASSUME TypeInv, [Next]_vars, VerifiedInv, UNCHANGED <<record, verified>>,
         pc' \notin Working \cup Writers \cup {"recover"}
  PROVE  VerifiedInv'
  BY BaseStays DEF VerifiedInv

\* A step that goes on with the execution in hand.
LEMMA VerifiedGoesOn ==
  ASSUME TypeInv, [Next]_vars, VerifiedInv,
         UNCHANGED <<record, verified, issue, exec>>, pc \in Working, pc' \in Working
  PROVE  VerifiedInv'
  BY BaseStays DEF VerifiedInv, Working, Writers

\* A step that begins a durable write.
LEMMA VerifiedBegins ==
  ASSUME TypeInv, [Next]_vars, VerifiedInv, UNCHANGED <<record, verified, owner>>,
         NEW kind, NEW e, NEW o, Begin(kind, e, o),
         kind \in Discarding => Unverified(issue), kind # "start"
  PROVE  VerifiedInv'
<1>1. pc' = "read" /\ op'.kind = kind /\ issue' = issue
  BY DEF Begin
<1>2. VerifiedBase'
  BY BaseStays DEF VerifiedInv
<1> QED
  BY <1>1, <1>2 DEF VerifiedInv, Unverified, Working, Writers

\* The execution in hand is the only one of its Issue that could be verified.
LEMMA WorkUnverified ==
  ASSUME VerifiedInv, pc \in Working
  PROVE  Unverified(issue)
  BY DEF VerifiedInv, VerifiedBase, Kept, Unverified

\* The reconciliation asks for an interruption only of what is not in the bucket.
LEMMA StartupVerified == TypeInv /\ VerifiedInv /\ Startup => VerifiedInv'
<1> SUFFICES ASSUME TypeInv, VerifiedInv, Startup  PROVE VerifiedInv'
  OBVIOUS
<1>1. [Next]_vars
  BY DEF Next, Controller
<1>2. UNCHANGED <<record, verified, owner>>
  BY DEF Startup, CleanupOrphans, ListAgentRunning, ReconcileNext, ReconcileDone,
         IdentifyExecution, RecoverArtifact, redmine, history
<1>3. CASE RecoverArtifact
  <2>1. CASE Collect
    BY <1>1, <1>2, <2>1, VerifiedLeaves DEF Collect, Working, Writers
  <2>2. CASE Begin("succeed", exec, result[exec])
    BY <1>1, <1>2, <2>2, VerifiedBegins DEF Discarding
  <2>3. CASE ~Found /\ Begin("interrupt", exec, "interrupted")
    <3>1. Unverified(issue)
      BY <1>3, <2>3
      DEF RecoverArtifact, Found, VerifiedInv, VerifiedBase, Kept, Unverified
    <3> QED  BY <1>1, <1>2, <2>3, <3>1, VerifiedBegins
  <2> QED  BY <1>3, <2>1, <2>2, <2>3 DEF RecoverArtifact
<1>4. CASE IdentifyExecution /\ ~Collect
  <2>1. pc' = "recover" /\ exec' = record[issue].execution /\ issue' = issue
    BY <1>4 DEF IdentifyExecution
  <2>2. VerifiedBase'
    BY <1>1, <1>2, BaseStays DEF VerifiedInv
  <2> QED  BY <1>2, <2>1, <2>2 DEF VerifiedInv, Working, Writers
<1>5. CASE ~RecoverArtifact /\ ~(IdentifyExecution /\ ~Collect)
  <2>1. pc' \notin Working \cup Writers \cup {"recover"}
    BY <1>5
    DEF Startup, CleanupOrphans, ListAgentRunning, ReconcileNext, ReconcileDone,
        Goto, Collect, Exit, Working, Writers
  <2> QED  BY <1>1, <1>2, <2>1, VerifiedLeaves
<1> QED
  BY <1>3, <1>4, <1>5

\* An execution that is allocated now has nothing verified.
LEMMA PollingVerified == TypeInv /\ VerifiedInv /\ Polling => VerifiedInv'
<1> SUFFICES ASSUME TypeInv, VerifiedInv, Polling  PROVE VerifiedInv'
  OBVIOUS
<1>1. [Next]_vars
  BY DEF Next, Controller
<1>2. UNCHANGED <<record, verified>>
  BY DEF Polling, ListCandidates, NextCandidate, RefetchIssue, ValidateHandoff,
         RevalidateRequirements, ResolveSource, AuthorizeAndAllocate, redmine, history
<1>3. CASE \E o : Reject(o) /\ UNCHANGED owner
  BY <1>1, <1>2, <1>3, VerifiedBegins DEF Reject, Discarding
<1>4. CASE AuthorizeAndAllocate /\ ~(\E o : Reject(o) /\ UNCHANGED owner)
  <2>1. PICK e \in Executions : Unallocated(e) /\ Begin("start", e, Blank)
    BY <1>4 DEF AuthorizeAndAllocate
  <2>2. e \notin verified
    BY <2>1, NoIssueIsNone DEF Unallocated, VerifiedInv, VerifiedBase
  <2>3. pc' = "read" /\ exec' = e /\ op'.kind = "start" /\ op'.execution = e
    BY <2>1 DEF Begin
  <2>4. VerifiedBase'
    BY <1>1, <1>2, BaseStays DEF VerifiedInv
  <2> QED  BY <1>2, <2>2, <2>3, <2>4 DEF VerifiedInv, Working, Writers, Discarding
<1>5. CASE ~AuthorizeAndAllocate /\ ~(\E o : Reject(o) /\ UNCHANGED owner)
  <2>1. UNCHANGED owner
    BY <1>5 DEF Polling, ListCandidates, NextCandidate, RefetchIssue, ValidateHandoff,
                RevalidateRequirements, ResolveSource, history
  <2>2. pc' \notin Working \cup Writers \cup {"recover"}
    BY <1>5, <2>1, ThrowEmpties
    DEF Polling, ListCandidates, NextCandidate, RefetchIssue, ValidateHandoff,
        RevalidateRequirements, ResolveSource, Goto, Leave, Skip, Throw, Collect, Exit,
        Held, Working, Writers
  <2> QED  BY <1>1, <1>2, <2>2, VerifiedLeaves
<1> QED
  BY <1>3, <1>4, <1>5

\* A success, whole or in part, leaves the execution and ends or leaves the run.
LEMMA SuccessKeeps ==
  ASSUME NEW r \in Record, NEW w \in Write, w.kind = "succeed", NEW kept
  PROVE  /\ ApplySome(r, w, kept).execution = r.execution
         /\ ApplySome(r, w, kept).lifecycle \in {r.lifecycle, ReadyForVerifying}
<1> DEFINE all == SuccessWrite(r, w.execution, w.outcome)
<1>1. Apply(r, w) = all
  BY DEF Apply
<1>2. all.execution = r.execution /\ all.lifecycle = ReadyForVerifying
  BY DEF SuccessWrite, Record
<1> HIDE DEF all
<1>3. /\ ApplySome(r, w, kept).execution \in {r.execution, all.execution}
      /\ ApplySome(r, w, kept).lifecycle \in {r.lifecycle, all.lifecycle}
  BY <1>1 DEF ApplySome
<1> QED
  BY <1>2, <1>3

\* A PUT behind its guard leaves the record of a verified execution Agent Running
\* or makes it ready.
LEMMA PutKeeps ==
  ASSUME TypeInv, PromptInv, VerifiedInv, WriterPut
  PROVE  VerifiedBase'
<1>1. /\ issue \in Issues /\ op \in Write /\ Allowed(record[issue], op)
      /\ pc \in Writers /\ UNCHANGED <<stored, verified, owner>>
      /\ record \in [Issues -> Record]
  BY Split, HandsFull
  DEF WriterPut, Writers, WithIssue, PromptInv, bucket, history, DataOK
<1>2. SUFFICES ASSUME NEW e \in verified  PROVE (Kept(e))'
  BY <1>1 DEF VerifiedInv, VerifiedBase
<1>3. owner[e] \in Issues /\ Kept(e) /\ owner' = owner /\ e \in Executions
  BY <1>1, Split DEF VerifiedInv, VerifiedBase, DataOK
<1>4. CASE record'[owner[e]] = record[owner[e]]
  BY <1>3, <1>4 DEF Kept
<1>5. CASE record'[owner[e]] # record[owner[e]]
  <2>1. /\ owner[e] = issue
        /\ \E kept \in Keeps : record'[issue] = ApplySome(record[issue], op, kept)
    BY <1>1, <1>3, <1>5 DEF WriterPut
  <2>2. op.kind \notin {"start", "reject"}
    <3>1. record[issue] # Pristine
      BY <1>3, <2>1, NoExecutionIsEmpty DEF Kept, Pristine
    <3> QED  BY <1>1, <3>1, AllowedMeans
  <2>3. op.kind \notin Discarding
    BY <1>1, <2>1 DEF VerifiedInv, Unverified
  <2>4. op.kind = "succeed"
    BY <1>1, <2>2, <2>3 DEF Write, WriteKinds, Discarding
  <2>5. /\ record'[issue].execution = record[issue].execution
        /\ record'[issue].lifecycle \in {record[issue].lifecycle, ReadyForVerifying}
    BY <1>1, <2>1, <2>4, SuccessKeeps
  <2> QED  BY <1>3, <2>1, <2>5 DEF Kept
<1> QED
  BY <1>4, <1>5

\* A durable write keeps what is verified, and a confirmed start names the
\* execution in hand.
LEMMA WritingVerified ==
  TypeInv /\ PromptInv /\ VerifiedInv /\ Writing => VerifiedInv'
<1> SUFFICES ASSUME TypeInv, PromptInv, VerifiedInv, Writing  PROVE VerifiedInv'
  OBVIOUS
<1>1. [Next]_vars
  BY DEF Next, Controller
<1>2. pc \in Writers /\ op \in Write /\ UNCHANGED <<verified, owner>>
  BY Split, HandsFull
  DEF Writing, WriterRead, WriterPut, WriterConfirm, Writers, history
<1>3. CASE WriterPut
  <2>1. VerifiedBase'
    BY <1>3, PutKeeps
  <2>2. CASE Throw
    <3>1. pc' \notin Working \cup Writers \cup {"recover"}
      BY <2>2, ThrowEmpties DEF Throw, Collect, Exit
    <3> QED  BY <2>1, <3>1 DEF VerifiedInv
  <2>3. CASE Goto("confirm")
    BY <1>2, <2>1, <2>3 DEF Goto, VerifiedInv, Unverified, Working, Writers
  <2> QED  BY <1>3, <2>2, <2>3 DEF WriterPut, Unconfirmed
<1>4. CASE ~WriterPut
  <2>1. UNCHANGED record /\ VerifiedBase'
    BY <1>1, <1>2, <1>4, BaseStays
    DEF Writing, WriterRead, WriterConfirm, redmine, VerifiedInv
  <2>2. CASE pc' \notin Working \cup Writers \cup {"recover"}
    BY <1>1, <1>2, <2>1, <2>2, VerifiedLeaves
  <2>3. CASE WriterRead /\ pc' \in Working \cup Writers \cup {"recover"}
    <3>1. pc' = "put" /\ op' = Target /\ UNCHANGED <<issue, exec>>
      BY <2>3, ThrowEmpties DEF WriterRead, Throw, Collect, Exit
    <3>2. op'.kind = op.kind /\ (op.kind = "start" => op' = op)
      BY <1>2, <3>1 DEF Target, Write
    <3> QED
      BY <1>2, <2>1, <3>1, <3>2 DEF VerifiedInv, Unverified, Working, Writers
  <2>4. CASE WriterConfirm /\ pc' \in Working \cup Writers \cup {"recover"}
    <3>1. /\ op.kind = "start" /\ pc' = "workspace" /\ UNCHANGED <<issue, exec>>
          /\ Confirmed(record[issue], op)
      BY <2>4, ThrowEmpties
      DEF WriterConfirm, Unconfirmed, Proceed, Goto, Leave, Throw, Collect, Exit,
          Working, Writers
    <3>2. record[issue] = StartWrite(op.execution)
      BY <3>1 DEF Confirmed, StartReadBack
    <3>3. /\ record[issue].execution = op.execution
          /\ record[issue].lifecycle = AgentRunning
      BY <3>2 DEF StartWrite
    <3> QED
      BY <1>2, <2>1, <3>1, <3>3 DEF VerifiedInv, Working, Writers
  <2> QED  BY <1>4, <2>2, <2>3, <2>4 DEF Writing
<1> QED
  BY <1>3, <1>4

\* An attempt asks for a failure only of what is not verified.
LEMMA AttemptVerified == TypeInv /\ VerifiedInv /\ Attempt => VerifiedInv'
<1> SUFFICES ASSUME TypeInv, VerifiedInv, Attempt  PROVE VerifiedInv'
  OBVIOUS
<1>1. [Next]_vars
  BY DEF Next, Controller
<1>2. UNCHANGED <<record, verified, owner>>
  BY DEF Attempt, CreateWorkspace, CheckoutSource, CreateSandbox, InvokeAgent, AgentEnds,
         Dispose, redmine, history
<1>3. ASSUME NEW o, Fail(o), pc \in Working  PROVE VerifiedInv'
  BY <1>1, <1>2, <1>3, VerifiedBegins, WorkUnverified DEF Fail
<1>4. ASSUME NEW label \in Working, pc \in Working, Goto(label)  PROVE VerifiedInv'
  BY <1>1, <1>2, <1>4, VerifiedGoesOn DEF Goto
<1>5. CASE Dispose
  <2>1. pc' \notin Working \cup Writers \cup {"recover"}
    BY <1>5 DEF Dispose, Leave, Exit, Working, Writers
  <2> QED  BY <1>1, <1>2, <2>1, VerifiedLeaves
<1>6. CASE ~Dispose
  BY <1>3, <1>4, <1>6
  DEF Attempt, CreateWorkspace, CheckoutSource, CreateSandbox, InvokeAgent, AgentEnds,
      Working
<1> QED
  BY <1>5, <1>6

\* Verification is of the execution the record names, and asks for a success.
LEMMA FinishingVerified == TypeInv /\ RefInv /\ VerifiedInv /\ Finishing => VerifiedInv'
<1> SUFFICES ASSUME TypeInv, RefInv, VerifiedInv, Finishing  PROVE VerifiedInv'
  OBVIOUS
<1>1. [Next]_vars
  BY DEF Next, Controller
<1>2. UNCHANGED <<record, owner>> /\ pc \in Working
  BY DEF Finishing, CollectChanges, BuildArtifact, PutObject, HeadObject, redmine,
         history, Working
<1>3. CASE UNCHANGED verified
  <2>1. ASSUME ArtifactFailure  PROVE VerifiedInv'
    BY <1>1, <1>2, <1>3, <2>1, VerifiedBegins, WorkUnverified DEF ArtifactFailure
  <2>2. ASSUME NEW label \in Working, Goto(label)  PROVE VerifiedInv'
    BY <1>1, <1>2, <1>3, <2>2, VerifiedGoesOn DEF Goto
  <2>3. CASE Throw
    <3>1. pc' \notin Working \cup Writers \cup {"recover"}
      BY <2>3, ThrowEmpties DEF Throw, Collect, Exit
    <3> QED  BY <1>1, <1>2, <1>3, <3>1, VerifiedLeaves
  <2>4. CASE \E e, o : Begin("succeed", e, o)
    BY <1>1, <1>2, <1>3, <2>4, VerifiedBegins DEF Discarding
  <2> QED
    BY <2>1, <2>2, <2>3, <2>4
    DEF Finishing, CollectChanges, BuildArtifact, PutObject, HeadObject, Working
<1>4. CASE HeadObject /\ HeadConfirms /\ verified' = verified \cup {exec}
           /\ Begin("succeed", exec, result[exec])
  <2>1. exec \in stored /\ owner[exec] = issue /\ stored' = stored /\ issue \in Issues
    BY <1>2, <1>4, Split, HandsFull
    DEF HeadObject, HeadConfirms, RefInv, bucket, WithIssue
  <2>2. record[issue].execution = exec /\ record[issue].lifecycle = AgentRunning
    BY <1>2 DEF VerifiedInv
  <2>3. VerifiedBase'
    BY <1>2, <1>4, <2>1, <2>2 DEF VerifiedInv, VerifiedBase, Kept
  <2>4. pc' = "read" /\ op'.kind = "succeed"
    BY <1>4 DEF Begin
  <2> QED
    BY <2>3, <2>4 DEF VerifiedInv, Working, Writers, Discarding
<1> QED
  BY <1>3, <1>4
  DEF Finishing, CollectChanges, BuildArtifact, PutObject, HeadObject, history

\* When no request outlives its client, what is known of verified executions holds.
LEMMA VerifiedInvHolds == DelayedWrites = FALSE => (Spec => []VerifiedInv)
<1> SUFFICES ASSUME DelayedWrites = FALSE  PROVE Spec => []VerifiedInv
  OBVIOUS
<1>1. Init => VerifiedInv
  BY DEF Init, VerifiedInv, VerifiedBase, Working, Writers
<1>2. TypeInv /\ PromptInv /\ RefInv /\ VerifiedInv /\ [Next]_vars => VerifiedInv'
  <2> SUFFICES ASSUME TypeInv, PromptInv, RefInv, VerifiedInv, [Next]_vars
               PROVE  VerifiedInv'
    OBVIOUS
  <2>1. CASE Start \/ Crash
    <3>1. pc' \notin Working \cup Writers \cup {"recover"}
      BY <2>1 DEF Start, Crash, Goto, Exit, Working, Writers
    <3>2. UNCHANGED <<record, verified>>
      BY <2>1 DEF Start, Crash, redmine, history
    <3> QED  BY <3>1, <3>2, VerifiedLeaves
  <2>2. CASE Controller
    BY <2>2, StartupVerified, PollingVerified, WritingVerified, AttemptVerified,
       FinishingVerified
    DEF Controller
  <2>3. CASE (Environment /\ ~Crash) \/ UNCHANGED vars
    <3>1. UNCHANGED <<control, record, history>>
      BY <2>3 DEF Environment, ChangeApproval, LateWriteApplied, LateWriteDropped,
                  LateObjectApplied, LateObjectDropped, PromptInv, redmine, vars
    <3>2. VerifiedBase'
      BY <3>1, BaseStays DEF VerifiedInv, history
    <3> QED
      BY <3>1, <3>2 DEF control, history, VerifiedInv, Unverified
  <2> QED  BY <2>1, <2>2, <2>3 DEF Next
<1> QED
  BY <1>1, <1>2, TypeCorrect, PromptHolds, RefInvHolds, PTL DEF Spec

\* When no request outlives its client, an execution whose artifact was verified
\* is never discarded: not by a failed write, a crash, a restart or a recovery.
THEOREM VerifiedHolds == DelayedWrites = FALSE => (Spec => []VerifiedIsNeverDiscarded)
<1> SUFFICES ASSUME DelayedWrites = FALSE  PROVE Spec => []VerifiedIsNeverDiscarded
  OBVIOUS
<1>1. VerifiedInv => VerifiedIsNeverDiscarded
  BY DEF VerifiedInv, VerifiedBase, Kept, VerifiedIsNeverDiscarded
<1> QED
  BY <1>1, VerifiedInvHolds, PTL

-----------------------------------------------------------------------------
(* Ready.  A success carries the result its execution ended with, what is  *)
(* in the bucket was made by an Agent, and the result of an execution is   *)
(* not written again once its record says Ready.                           *)

Ran == {"running", "collect", "build", "put_object", "head_object"}

GroundInv ==
    /\ stored \cup lateObjects \subseteq started
    /\ pc \in Ran => exec \in started
    /\ pc \in Writers /\ op.kind = "succeed" => op.outcome = result[op.execution]
    /\ ReadyIsGrounded

\* Only an Agent that ends gives its execution a result, and no ready record is
\* about the execution in hand.
LEMMA ResultStays ==
  ASSUME TypeInv, RefInv, VerifiedInv, GroundInv, [Next]_vars,
         NEW i \in Issues, record[i].lifecycle = ReadyForVerifying
  PROVE  result'[record[i].execution] = result[record[i].execution]
<1> DEFINE e == record[i].execution
<1>1. owner[e] = i
  BY DEF GroundInv, ReadyIsGrounded
<1>2. CASE AgentEnds
  <2>1. owner[exec] = issue /\ record[issue].lifecycle = AgentRunning
    BY <1>2 DEF AgentEnds, RefInv, VerifiedInv, Working
  <2>2. e # exec
    BY <1>1, <2>1 DEF AgentRunning, ReadyForVerifying
  <2>3. \E r : result' = [result EXCEPT ![exec] = r]
    BY <1>2 DEF AgentEnds
  <2>4. DOMAIN result = Executions /\ e \in Executions
    <3>1. e \in started /\ started \subseteq Executions
      BY Split DEF DataOK, GroundInv, ReadyIsGrounded
    <3> QED  BY <3>1, Split DEF DataOK
  <2> QED  BY <2>2, <2>3, <2>4
<1>3. CASE ~AgentEnds
  <2>1. result' = result
    BY <1>3
    DEF Next, Controller, Environment, Startup, Polling, Writing, Attempt, Finishing,
        Start, CleanupOrphans, ListAgentRunning, ReconcileNext, ReconcileDone,
        IdentifyExecution, RecoverArtifact, ListCandidates, NextCandidate,
        RefetchIssue, ValidateHandoff, RevalidateRequirements, ResolveSource,
        AuthorizeAndAllocate, WriterRead, WriterPut, WriterConfirm, CreateWorkspace,
        CheckoutSource, CreateSandbox, InvokeAgent, Dispose, CollectChanges,
        BuildArtifact, PutObject, HeadObject, ChangeApproval, Crash, LateWriteApplied,
        LateWriteDropped, LateObjectApplied, LateObjectDropped, vars, history
  <2> QED  BY <2>1
<1> QED
  BY <1>2, <1>3

\* A run that started stays started.
LEMMA StartedStays == [Next]_vars => started \subseteq started'
  BY DEF Next, Controller, Environment, Startup, Polling, Writing, Attempt, Finishing,
         Start, CleanupOrphans, ListAgentRunning, ReconcileNext, ReconcileDone,
         IdentifyExecution, RecoverArtifact, ListCandidates, NextCandidate,
         RefetchIssue, ValidateHandoff, RevalidateRequirements, ResolveSource,
         AuthorizeAndAllocate, WriterRead, WriterPut, WriterConfirm, CreateWorkspace,
         CheckoutSource, CreateSandbox, InvokeAgent, AgentEnds, Dispose, CollectChanges,
         BuildArtifact, PutObject, HeadObject, ChangeApproval, Crash, LateWriteApplied,
         LateWriteDropped, LateObjectApplied, LateObjectDropped, vars, history

\* A record that was ready and is not written stays grounded.
LEMMA GroundStays ==
  ASSUME TypeInv, RefInv, VerifiedInv, GroundInv, [Next]_vars,
         NEW i \in Issues, record'[i] = record[i]
  PROVE  record'[i].lifecycle = ReadyForVerifying =>
            /\ record'[i].artifact = record'[i].execution
            /\ record'[i].execution \in started' /\ record'[i].execution \in stored'
            /\ owner'[record'[i].execution] = i
            /\ record'[i].outcome = result'[record'[i].execution]
<1> SUFFICES ASSUME record[i].lifecycle = ReadyForVerifying
             PROVE  /\ record[i].artifact = record[i].execution
                    /\ record[i].execution \in started'
                    /\ record[i].execution \in stored'
                    /\ owner'[record[i].execution] = i
                    /\ record[i].outcome = result'[record[i].execution]
  OBVIOUS
<1> DEFINE e == record[i].execution
<1>1. /\ record[i].artifact = e /\ e \in started /\ e \in stored
      /\ owner[e] = i /\ record[i].outcome = result[e]
  BY DEF GroundInv, ReadyIsGrounded
<1>2. e \in Executions
  BY <1>1, Split DEF DataOK
<1>3. owner'[e] = i /\ e \in stored' /\ e \in started'
  BY <1>1, <1>2, OwnersStay, StartedStays
<1> QED
  BY <1>1, <1>3, ResultStays

\* A success that is applied whole makes a grounded record.
LEMMA SuccessGrounds ==
  ASSUME NEW r \in Record, NEW w \in Write, Allowed(r, w),
         Apply(r, w).lifecycle = ReadyForVerifying
  PROVE  /\ w.kind = "succeed"
         /\ Apply(r, w).execution = w.execution
         /\ Apply(r, w).artifact = w.execution
         /\ Apply(r, w).outcome = w.outcome
<1> USE DEF AgentRunning, NeedsHuman, ReadyForVerifying
<1>1. w.kind # "start"
  <2>1. StartWrite(w.execution).lifecycle = AgentRunning
    BY DEF StartWrite
  <2> QED  BY <2>1 DEF Apply
<1>2. w.kind # "reject"
  <2>1. RejectionWrite(r, w.outcome).lifecycle = NeedsHuman
    BY DEF RejectionWrite, Record
  <2> QED  BY <2>1 DEF Apply
<1>3. ASSUME NEW o  PROVE FailureWrite(r, o).lifecycle = NeedsHuman
  BY DEF FailureWrite, Record
<1>4. w.kind # "fail"
  BY <1>3 DEF Apply
<1>5. w.kind # "artifact_fail"
  BY <1>3 DEF Apply, ArtifactFailureWrite
<1>6. w.kind # "interrupt"
  BY <1>3 DEF Apply, InterruptedWrite
<1>7. w.kind = "succeed"
  BY <1>1, <1>2, <1>4, <1>5, <1>6 DEF Write, WriteKinds
<1>8. Apply(r, w) = SuccessWrite(r, w.execution, w.outcome) /\ r.execution = w.execution
  BY <1>7 DEF Apply, Allowed, ArtifactGuard
<1>9. LET s == SuccessWrite(r, w.execution, w.outcome)
      IN  s.execution = r.execution /\ s.artifact = w.execution /\ s.outcome = w.outcome
  BY DEF SuccessWrite, Record
<1> QED
  BY <1>7, <1>8, <1>9

\* What is in hand and in the bucket, whatever the step.
LEMMA GroundHand ==
  ASSUME TypeInv, RefInv, VerifiedInv, GroundInv, [Next]_vars
  PROVE  /\ (stored \cup lateObjects)' \subseteq started'
         /\ pc' \in Ran => exec' \in started'
         /\ pc' \in Writers /\ op'.kind = "succeed" => op'.outcome = result'[op'.execution]
<1> USE DEF Ran, Writers
<1>1. CASE InvokeAgent
  BY <1>1 DEF InvokeAgent, Goto, GroundInv, bucket
<1>2. CASE AgentEnds
  BY <1>2 DEF AgentEnds, Goto, Fail, Begin, GroundInv, bucket
<1>3. CASE PutObject \/ HeadObject
  BY <1>3 DEF PutObject, HeadObject, ArtifactFailure, Goto, Begin, GroundInv, bucket,
              history
<1>4. CASE CollectChanges \/ BuildArtifact
  BY <1>4, ThrowEmpties
  DEF CollectChanges, BuildArtifact, ArtifactFailure, Goto, Begin, GroundInv, bucket,
      history, Working
<1>5. CASE Writing
  <2>1. UNCHANGED <<stored, lateObjects, started, result>> /\ pc' \notin Ran
    BY <1>5, ThrowEmpties
    DEF Writing, WriterRead, WriterPut, WriterConfirm, Unconfirmed, Proceed, Goto, Leave,
        bucket, history, Working
  <2>2. CASE WriterRead /\ pc' = "put"
    <3>1. op' = Target /\ op \in Write /\ pc \in Writers
      BY <2>2, ThrowEmpties, Split, HandsFull DEF WriterRead
    <3>2. op'.kind = "succeed" => op' = op
      BY <3>1 DEF Target, Write
    <3> QED  BY <2>1, <2>2, <3>1, <3>2 DEF GroundInv
  <2>3. CASE WriterPut /\ Goto("confirm")
    BY <2>1, <2>3 DEF WriterPut, Goto, GroundInv
  <2>4. CASE pc' \notin Writers
    BY <2>1, <2>4 DEF GroundInv
  <2> QED
    BY <1>5, <2>2, <2>3, <2>4, ThrowEmpties
    DEF Writing, WriterRead, WriterPut, WriterConfirm, Unconfirmed, Proceed, Goto, Leave
<1>6. CASE Start \/ Startup \/ Polling \/ Crash
  <2>1. UNCHANGED <<stored, lateObjects, started, result>>
    BY <1>6
    DEF Start, Startup, Polling, Crash, CleanupOrphans, ListAgentRunning, ReconcileNext,
        ReconcileDone, IdentifyExecution, RecoverArtifact, ListCandidates, NextCandidate,
        RefetchIssue, ValidateHandoff, RevalidateRequirements, ResolveSource,
        AuthorizeAndAllocate, bucket, history
  <2>2. pc' \notin Ran /\ (pc' \in Writers /\ op'.kind = "succeed" =>
                             op'.outcome = result[op'.execution])
    BY <1>6, ThrowEmpties
    DEF Start, Startup, Polling, Crash, CleanupOrphans, ListAgentRunning, ReconcileNext,
        ReconcileDone, IdentifyExecution, RecoverArtifact, ListCandidates, NextCandidate,
        RefetchIssue, ValidateHandoff, RevalidateRequirements, ResolveSource,
        AuthorizeAndAllocate, Goto, Leave, Skip, Reject, Begin, Working
  <2> QED  BY <2>1, <2>2 DEF GroundInv
<1>7. CASE CreateWorkspace \/ CheckoutSource \/ CreateSandbox \/ Dispose
  BY <1>7, ThrowEmpties
  DEF CreateWorkspace, CheckoutSource, CreateSandbox, Dispose, Goto, Leave, Fail, Begin,
      GroundInv, bucket, history, Working
<1>8. CASE (Environment /\ ~Crash) \/ UNCHANGED vars
  <2>1. /\ UNCHANGED <<control, history>>
        /\ stored' \cup lateObjects' \subseteq stored \cup lateObjects
    BY <1>8
    DEF Environment, ChangeApproval, LateWriteApplied, LateWriteDropped,
        LateObjectApplied, LateObjectDropped, bucket, vars
  <2> QED  BY <2>1 DEF GroundInv, control, history
<1> QED
  BY <1>1, <1>2, <1>3, <1>4, <1>5, <1>6, <1>7, <1>8
  DEF Next, Controller, Attempt, Finishing

\* Under the same conditions as below, what is known of results and artifacts holds.
LEMMA GroundInvHolds ==
  DelayedWrites = FALSE /\ Droppable = {} => (Spec => []GroundInv)
<1> SUFFICES ASSUME DelayedWrites = FALSE, Droppable = {}
             PROVE  Spec => []GroundInv
  OBVIOUS
<1>1. Init => GroundInv
  <2> SUFFICES ASSUME Init  PROVE GroundInv
    OBVIOUS
  <2>1. Pristine.lifecycle # ReadyForVerifying
    BY DEF Pristine, Blank, ReadyForVerifying
  <2>2. ReadyIsGrounded
    BY <2>1 DEF Init, ReadyIsGrounded
  <2> QED  BY <2>2 DEF Init, GroundInv, Ran, Writers
<1>2. TypeInv /\ PromptInv /\ RefInv /\ VerifiedInv /\ GroundInv /\ [Next]_vars
        => GroundInv'
  <2> SUFFICES ASSUME TypeInv, PromptInv, RefInv, VerifiedInv, GroundInv, [Next]_vars
               PROVE  GroundInv'
    OBVIOUS
  <2>1. SUFFICES ASSUME NEW i \in Issues, record'[i] # record[i],
                        record'[i].lifecycle = ReadyForVerifying
                 PROVE  /\ record'[i].artifact = record'[i].execution
                        /\ record'[i].execution \in started'
                        /\ record'[i].execution \in stored'
                        /\ owner'[record'[i].execution] = i
                        /\ record'[i].outcome = result'[record'[i].execution]
    BY GroundHand, GroundStays DEF GroundInv, ReadyIsGrounded
  <2>2. /\ WriterPut /\ issue \in Issues /\ op \in Write /\ op.issue = issue
        /\ Allowed(record[issue], op) /\ record \in [Issues -> Record]
        /\ \E kept \in Keeps :
              record' = [record EXCEPT ![issue] = ApplySome(@, op, kept)]
    BY <2>1, OnlyPuts, Split DEF DataOK
  <2>3. record' = [record EXCEPT ![issue] = Apply(record[issue], op)]
    <3>1. \A kept \in Keeps : kept = Fields
      BY DEF Keeps
    <3>2. Apply(record[issue], op) \in Record
      BY <2>2, ApplyOK
    <3>3. ApplySome(record[issue], op, Fields) = Apply(record[issue], op)
      BY <3>2 DEF ApplySome, Fields, Record
    <3> QED  BY <2>2, <3>1, <3>3
  <2>4. i = issue /\ record'[i] = Apply(record[issue], op)
    BY <2>1, <2>2, <2>3
  <2>5. /\ op.kind = "succeed"
        /\ record'[i].execution = op.execution /\ record'[i].artifact = op.execution
        /\ record'[i].outcome = op.outcome
    BY <2>1, <2>2, <2>4, SuccessGrounds
  <2>6. /\ pc \in Writers /\ UNCHANGED <<stored, started, owner, result>>
    BY <2>2 DEF WriterPut, Writers, bucket, history
  <2>7. op.execution \in stored /\ owner[op.execution] = op.issue
        /\ op.outcome = result[op.execution]
    BY <2>5, <2>6 DEF RefInv, Sound, GroundInv
  <2>8. op.execution \in started
    BY <2>7 DEF GroundInv
  <2> QED  BY <2>2, <2>4, <2>5, <2>6, <2>7, <2>8
<1> QED
  BY <1>1, <1>2, TypeCorrect, PromptHolds, RefInvHolds, VerifiedInvHolds, PTL
  DEF Spec

\* When no request outlives its client and a PUT is applied whole or not at all,
\* Ready for Independent Verification is a promise kept: the record's execution
\* ran for its Issue, its artifact is in the bucket and the outcome is its own.
THEOREM ReadyHolds ==
  DelayedWrites = FALSE /\ Droppable = {} => (Spec => []ReadyIsGrounded)
<1>1. GroundInv => ReadyIsGrounded
  BY DEF GroundInv
<1> QED
  BY <1>1, GroundInvHolds, PTL

-----------------------------------------------------------------------------
(* The refinement.  From outside a PUT is one of the four decisions about  *)
(* an Issue; the Agent's run, the PUT of the artifact and the check of it  *)
(* are steps of their own; and the rest is not seen.                       *)

\* A record names an execution that was allocated for its Issue.
NamesOwn ==
    \A i \in Issues : record[i].execution # NoExecution => owner[record[i].execution] = i

\* Everything the refinement needs to know of a state.
Known ==
    /\ TypeInv /\ PromptInv /\ RefInv /\ VerifiedInv /\ GroundInv
    /\ AgentInv /\ RejectedNeverStarted /\ NamesOwn

\* A PUT that is applied whole.
LEMMA WholePut ==
  ASSUME Droppable = {}, TypeInv, PromptInv, [Next]_vars, record' # record
  PROVE  /\ WriterPut /\ pc \in Writers /\ issue \in Issues /\ op \in Write
         /\ op.issue = issue /\ Allowed(record[issue], op)
         /\ record \in [Issues -> Record] /\ record[issue] \in Record
         /\ record' = [record EXCEPT ![issue] = Apply(record[issue], op)]
         /\ UNCHANGED <<owner, stored, started, verified>>
<1>1. /\ WriterPut /\ issue \in Issues /\ op \in Write /\ op.issue = issue
      /\ Allowed(record[issue], op) /\ record \in [Issues -> Record]
      /\ \E kept \in Keeps :
            record' = [record EXCEPT ![issue] = ApplySome(@, op, kept)]
  BY OnlyPuts, Split DEF DataOK
<1>2. \A kept \in Keeps : kept = Fields
  BY DEF Keeps
<1>3. Apply(record[issue], op) \in Record
  BY <1>1, ApplyOK
<1>4. ApplySome(record[issue], op, Fields) = Apply(record[issue], op)
  BY <1>3 DEF ApplySome, Fields, Record
<1> QED
  BY <1>1, <1>2, <1>4 DEF WriterPut, Writers, bucket, history

\* What each PUT leaves, by the writer it comes from.
LEMMA PutResult ==
  ASSUME NEW r \in Record, NEW w \in Write
  PROVE  /\ w.kind = "start" => Apply(r, w) = StartWrite(w.execution)
         /\ w.kind = "reject" => Apply(r, w) = RejectionWrite(r, w.outcome)
         /\ w.kind \in Discarding => \E o : Apply(r, w) = FailureWrite(r, o)
         /\ w.kind = "succeed" => Apply(r, w) = SuccessWrite(r, w.execution, w.outcome)
<1>1. w.kind = "start" => Apply(r, w) = StartWrite(w.execution)
  BY DEF Apply
<1>2. w.kind = "reject" => Apply(r, w) = RejectionWrite(r, w.outcome)
  BY DEF Apply
<1>3. w.kind = "fail" => Apply(r, w) = FailureWrite(r, w.outcome)
  BY DEF Apply
<1>4. w.kind = "artifact_fail" =>
        Apply(r, w) = FailureWrite(r, "artifact_persistence_failed")
  BY DEF Apply, ArtifactFailureWrite
<1>5. w.kind = "interrupt" => Apply(r, w) = FailureWrite(r, "interrupted")
  BY DEF Apply, InterruptedWrite
<1>6. w.kind = "succeed" => Apply(r, w) = SuccessWrite(r, w.execution, w.outcome)
  BY DEF Apply
<1> QED
  BY <1>1, <1>2, <1>3, <1>4, <1>5, <1>6 DEF Discarding

\* Only a start write changes the execution a record names, to the one it was
\* allocated for.
LEMMA NamesOwnStep ==
  ASSUME Droppable = {}, TypeInv, PromptInv, RefInv, VerifiedInv, NamesOwn, [Next]_vars
  PROVE  NamesOwn'
<1>1. record \in [Issues -> Record]
  BY Split DEF DataOK
<1>2. ASSUME NEW i \in Issues, record'[i].execution = record[i].execution,
             record[i].execution # NoExecution
      PROVE  owner'[record'[i].execution] = i
  <2>1. record[i].execution \in Executions /\ owner[record[i].execution] = i
    BY <1>1, <1>2 DEF Record, NamesOwn
  <2> QED  BY <1>2, <2>1, OwnersStay
<1>3. CASE record' = record
  BY <1>2, <1>3 DEF NamesOwn
<1>4. CASE record' # record
  <2>1. /\ issue \in Issues /\ op \in Write /\ record[issue] \in Record
        /\ pc \in Writers /\ owner' = owner
        /\ record' = [record EXCEPT ![issue] = Apply(record[issue], op)]
    BY <1>4, WholePut
  <2>2. CASE op.kind = "start"
    <3>1. record'[issue].execution = exec /\ owner[exec] = issue
      <4>1. StartWrite(op.execution).execution = op.execution
        BY DEF StartWrite
      <4> QED
        BY <1>1, <2>1, <2>2, <4>1, PutResult DEF RefInv, VerifiedInv
    <3>2. \A i \in Issues \ {issue} : record'[i] = record[i]
      BY <1>1, <2>1
    <3> QED  BY <1>2, <2>1, <3>1, <3>2 DEF NamesOwn
  <2>3. CASE op.kind # "start"
    <3>1. op.kind = "reject" \/ op.kind \in Discarding \/ op.kind = "succeed"
      BY <2>1, <2>3 DEF Write, WriteKinds, Discarding
    <3>2. ASSUME NEW e, NEW o
          PROVE  /\ RejectionWrite(record[issue], o).execution = record[issue].execution
                 /\ FailureWrite(record[issue], o).execution = record[issue].execution
                 /\ SuccessWrite(record[issue], e, o).execution = record[issue].execution
      BY <2>1 DEF RejectionWrite, FailureWrite, SuccessWrite, Record
    <3>3. Apply(record[issue], op).execution = record[issue].execution
      BY <2>1, <3>1, <3>2, PutResult
    <3>4. \A i \in Issues : record'[i].execution = record[i].execution
      BY <1>1, <2>1, <3>3
    <3> QED  BY <1>2, <3>4 DEF NamesOwn
  <2> QED  BY <2>2, <2>3
<1> QED
  BY <1>3, <1>4

\* Where each write leaves an Issue.
LEMMA PhaseOf ==
  ASSUME NEW r \in Record
  PROVE  /\ r.lifecycle = Blank => Phase(r) = "open"
         /\ r.lifecycle = AgentRunning => Phase(r) = "running"
         /\ r.lifecycle = ReadyForVerifying => Phase(r) = "ready"
         /\ r.lifecycle = NeedsHuman =>
              Phase(r) = IF r.rejection # Blank THEN "rejected" ELSE "needs_human"
<1> USE DEF Blank, AgentRunning, ReadyForVerifying, NeedsHuman
<1>1. r.lifecycle = Blank => Phase(r) = "open"
  BY DEF Phase
<1>2. r.lifecycle = AgentRunning => Phase(r) = "running"
  BY DEF Phase
<1>3. r.lifecycle = ReadyForVerifying => Phase(r) = "ready"
  BY DEF Phase
<1>4. r.lifecycle = NeedsHuman =>
        Phase(r) = IF r.rejection # Blank THEN "rejected" ELSE "needs_human"
  BY DEF Phase
<1> QED
  BY <1>1, <1>2, <1>3, <1>4

\* A PUT looks like the rejection, the start, the success or the end of the Issue
\* in hand.
LEMMA PutKeepsThePromise ==
  ASSUME Droppable = {}, Known, [Next]_vars, record' # record
  PROVE  Promise!Next
<1> DEFINE r == record[issue]
           q == Apply(r, op)
<1>1. /\ pc \in Writers /\ issue \in Issues /\ op \in Write
      /\ op.issue = issue /\ Allowed(r, op)
      /\ record \in [Issues -> Record] /\ r \in Record
      /\ record' = [record EXCEPT ![issue] = q]
      /\ UNCHANGED <<owner, stored, started, verified>>
  BY WholePut DEF Known
<1>2. q \in Record
  BY <1>1, ApplyOK
<1> HIDE DEF r, q
<1>3. [i \in Issues |-> Phase(record'[i])] =
        [[i \in Issues |-> Phase(record[i])] EXCEPT ![issue] = Phase(q)]
  BY <1>1, Zenon
<1>4. ASSUME q.execution = r.execution
      PROVE  [i \in Issues |-> record'[i].execution] =
                [i \in Issues |-> record[i].execution]
  BY <1>1, <1>4 DEF r
<1>5. Active(r) => /\ Phase(r) = "running" /\ r.rejection = Blank
                   /\ r.execution # NoExecution => owner[r.execution] = issue
  <2>1. Active(r) => r.rejection = Blank
    <3>1. \A o : RejectionWrite(Pristine, o).lifecycle = NeedsHuman
      BY DEF RejectionWrite, Pristine
    <3> QED
      BY <1>1, <3>1 DEF Active, Known, RejectedNeverStarted, AgentRunning, NeedsHuman, r
  <2> QED  BY <1>1, <2>1, PhaseOf DEF Active, Known, NamesOwn, r
<1>6. CASE op.kind = "start"
  <2>1. q = StartWrite(op.execution) /\ r = Pristine
    BY <1>1, <1>6, PutResult, AllowedMeans DEF q
  <2>2. Phase(r) = "open" /\ Phase(q) = "running" /\ q.execution = op.execution
    BY <1>1, <1>2, <2>1, PhaseOf DEF StartWrite, Pristine
  <2>3. op.execution \in Executions /\ owner[op.execution] = issue
    BY <1>1, <1>6 DEF Known, RefInv, VerifiedInv, Write
  <2>4. \A j \in Issues : record[j].execution # op.execution
    BY <1>1, <2>1, <2>3, NoExecutionIsEmpty DEF Known, NamesOwn, Pristine, r
  <2>5. [i \in Issues |-> record'[i].execution] =
          [[i \in Issues |-> record[i].execution] EXCEPT ![issue] = op.execution]
    BY <1>1, <2>2
  <2>6. PICK e \in Executions : e = op.execution
    BY <2>3
  <2>7. Promise!StartExecution(issue, e)
    BY <1>1, <1>3, <2>2, <2>4, <2>5, <2>6 DEF Promise!StartExecution, r
  <2> QED  BY <1>1, <2>7 DEF Promise!Next
<1>7. CASE op.kind = "reject"
  <2>1. q = RejectionWrite(r, op.outcome) /\ r = Pristine
    BY <1>1, <1>7, PutResult, AllowedMeans DEF q
  <2>2. op.outcome # Blank
    BY <1>1, <1>7 DEF Write, RejectionOutcomes, Blank
  <2>3. /\ q.lifecycle = NeedsHuman /\ q.rejection = op.outcome
        /\ q.execution = r.execution
    BY <2>1 DEF RejectionWrite, Pristine
  <2>4. Phase(r) = "open"
    BY <1>1, <2>1, PhaseOf DEF Pristine
  <2>5. Phase(q) = "rejected"
    BY <1>2, <2>2, <2>3, PhaseOf
  <2>6. Promise!Reject(issue)
    BY <1>1, <1>3, <1>4, <2>3, <2>4, <2>5 DEF Promise!Reject, r
  <2> QED  BY <1>1, <2>6 DEF Promise!Next
<1>8. CASE op.kind \in Discarding
  <2>1. Active(r)
    BY <1>1, <1>8, AllowedMeans DEF Discarding
  <2>2. PICK o : q = FailureWrite(r, o)
    BY <1>1, <1>8, PutResult DEF q
  <2>3. /\ q.lifecycle = NeedsHuman /\ q.rejection = r.rejection
        /\ q.execution = r.execution
    BY <1>1, <2>2 DEF FailureWrite, Record
  <2>4. Phase(q) = "needs_human"
    BY <1>2, <1>5, <2>1, <2>3, PhaseOf
  <2>5. r.execution \notin verified
    <3>1. NoExecution \notin verified
      BY Split, NoExecutionIsEmpty DEF Known, DataOK
    <3> QED
      BY <1>1, <1>5, <1>8, <2>1, <3>1 DEF Known, VerifiedInv, Unverified
  <2>6. Promise!GiveUp(issue)
    BY <1>1, <1>3, <1>4, <1>5, <2>1, <2>3, <2>4, <2>5 DEF Promise!GiveUp, r
  <2> QED  BY <1>1, <2>6 DEF Promise!Next
<1>9. CASE op.kind = "succeed"
  <2>1. Active(r) /\ r.execution = op.execution
    BY <1>1, <1>9 DEF Allowed, ArtifactGuard
  <2>2. q = SuccessWrite(r, op.execution, op.outcome)
    BY <1>1, <1>9, PutResult DEF q
  <2>3. q.lifecycle = ReadyForVerifying /\ q.execution = r.execution
    BY <1>1, <2>2 DEF SuccessWrite, Record
  <2>4. Phase(q) = "ready"
    BY <1>2, <2>3, PhaseOf
  <2>5. r.execution \in stored
    BY <1>1, <1>9, <2>1 DEF Known, RefInv, Sound
  <2>6. Promise!Succeed(issue)
    BY <1>1, <1>3, <1>4, <1>5, <2>1, <2>3, <2>4, <2>5 DEF Promise!Succeed, r
  <2> QED  BY <1>1, <2>6 DEF Promise!Next
<1> QED
  BY <1>1, <1>6, <1>7, <1>8, <1>9 DEF Write, WriteKinds, Discarding

\* The attempt's own steps look like the run, the storing and the confirmation of
\* the execution in hand; every other step looks like nothing.
LEMMA QuietKeepsThePromise ==
  ASSUME Known, [Next]_vars, record' = record
  PROVE  [Promise!Next]_Promise!vars
<1>1. /\ [i \in Issues |-> Phase(record'[i])] = [i \in Issues |-> Phase(record[i])]
      /\ [i \in Issues |-> record'[i].execution] = [i \in Issues |-> record[i].execution]
  OBVIOUS
<1>2. ASSUME pc \in Working
      PROVE  Promise!IsRunning(exec) /\ exec \in Executions
  <2>1. issue \in Issues /\ exec \in Executions /\ record[issue] \in Record
    BY <1>2, Split, HandsFull DEF Known, Working, WithIssue, WithExecution, DataOK
  <2>2. record[issue].execution = exec /\ Phase(record[issue]) = "running"
    BY <1>2, <2>1, PhaseOf DEF Known, VerifiedInv
  <2> QED  BY <2>1, <2>2 DEF Promise!IsRunning
<1>3. CASE InvokeAgent
  <2>1. pc \in Working /\ exec \notin started
    BY <1>3 DEF InvokeAgent, Working, Known, AgentInv, Ahead, Attempting, Fresh
  <2>2. started' = started \cup {exec} /\ UNCHANGED <<stored, verified>>
    BY <1>3 DEF InvokeAgent, bucket
  <2>3. Promise!RunAgent(exec)
    BY <1>1, <1>2, <2>1, <2>2 DEF Promise!RunAgent
  <2> QED  BY <1>2, <2>1, <2>3 DEF Promise!Next
<1>4. CASE PutObject /\ stored' # stored
  <2>1. /\ pc \in Working /\ exec \in started
        /\ stored' = stored \cup {exec} /\ UNCHANGED <<started, verified>>
    BY <1>4 DEF PutObject, Working, Known, GroundInv, Ran, bucket, history
  <2>2. Promise!StoreArtifact(exec)
    BY <1>1, <1>2, <2>1 DEF Promise!StoreArtifact
  <2> QED  BY <1>2, <2>1, <2>2 DEF Promise!Next
<1>5. CASE HeadObject /\ verified' # verified
  <2>1. /\ pc \in Working /\ exec \in stored
        /\ verified' = verified \cup {exec} /\ UNCHANGED <<started, stored>>
    BY <1>5 DEF HeadObject, HeadConfirms, Working, bucket
  <2>2. Promise!ConfirmArtifact(exec)
    BY <1>1, <1>2, <2>1 DEF Promise!ConfirmArtifact
  <2> QED  BY <1>2, <2>1, <2>2 DEF Promise!Next
<1>6. CASE ~InvokeAgent /\ ~(PutObject /\ stored' # stored)
           /\ ~(HeadObject /\ verified' # verified)
  <2>1. UNCHANGED <<started, stored, verified>>
    BY <1>6
    DEF Known, PromptInv, Next, Controller, Environment, Startup, Polling, Writing,
        Attempt, Finishing, Start, CleanupOrphans, ListAgentRunning, ReconcileNext,
        ReconcileDone, IdentifyExecution, RecoverArtifact, ListCandidates, NextCandidate,
        RefetchIssue, ValidateHandoff, RevalidateRequirements, ResolveSource,
        AuthorizeAndAllocate, WriterRead, WriterPut, WriterConfirm, CreateWorkspace,
        CheckoutSource, CreateSandbox, AgentEnds, Dispose, CollectChanges, BuildArtifact,
        PutObject, HeadObject, ChangeApproval, Crash, LateWriteApplied, LateWriteDropped,
        LateObjectApplied, LateObjectDropped, vars, bucket, history
  <2> QED  BY <1>1, <2>1 DEF Promise!vars
<1> QED
  BY <1>3, <1>4, <1>5, <1>6

\* Before anything happened, every Issue is open.
LEMMA PromiseBegins == Init => Promise!Init
<1> SUFFICES ASSUME Init  PROVE Promise!Init
  OBVIOUS
<1>1. \A i \in Issues : Phase(record[i]) = "open" /\ record[i].execution = NoExecution
  <2>1. Pristine \in Record
    BY DEF Pristine, Record
  <2>2. Pristine.lifecycle = Blank /\ Pristine.execution = NoExecution
    BY DEF Pristine
  <2> QED  BY <2>1, <2>2, PhaseOf DEF Init
<1> QED
  BY <1>1 DEF Init, Promise!Init

\* When no request outlives its client and a PUT is applied whole or not at all,
\* the Controller, Redmine, the bucket and the host, with every failed call, crash
\* and restart, implement the promise of DurableOutcome: started once, run once,
\* ready only with a stored artifact, never given up once it was confirmed.
THEOREM PromiseKept ==
  DelayedWrites = FALSE /\ Droppable = {} => (Spec => KeepsThePromise)
<1> SUFFICES ASSUME DelayedWrites = FALSE, Droppable = {}
             PROVE  Spec => KeepsThePromise
  OBVIOUS
<1>1. Init => NamesOwn
  BY DEF Init, NamesOwn, Pristine
<1>2. TypeInv /\ PromptInv /\ RefInv /\ VerifiedInv /\ NamesOwn /\ [Next]_vars => NamesOwn'
  BY NamesOwnStep
<1>3. Known /\ [Next]_vars => [Promise!Next]_Promise!vars
  BY PutKeepsThePromise, QuietKeepsThePromise
<1>4. TypeInv /\ PromptInv /\ RefInv /\ VerifiedInv /\ GroundInv /\ AgentInv
        /\ RejectedNeverStarted /\ NamesOwn => Known
  BY DEF Known
<1> QED
  BY <1>1, <1>2, <1>3, <1>4, PromiseBegins, TypeCorrect, PromptHolds, RefInvHolds,
     VerifiedInvHolds, GroundInvHolds, AgentInvHolds, RejectedHolds, PTL
  DEF Spec, KeepsThePromise, Promise!Spec
=============================================================================
