---------------------- MODULE ExecutionLifecycleProofs ----------------------
(***************************************************************************)
(* What TLAPS proves of ExecutionLifecycle, for any Issues, execution IDs, *)
(* number of faults, fields Redmine may leave out of a PUT, and whether or  *)
(* not requests outlive their client.                                      *)
(***************************************************************************)
EXTENDS ExecutionLifecycle, TLAPS

USE NoExecutionIsEmpty, NoIssueIsNone, FaultBound, DelayIsBoolean, DroppableAreFields

-----------------------------------------------------------------------------
(* Type correctness.  It is inductive together with what each control      *)
(* point knows of the Issue, the execution and the write in hand.          *)

WithIssue == {"identify", "recover", "refetch", "validate", "revalidate", "resolve",
              "authorize", "read", "put", "confirm", "workspace", "checkout",
              "sandbox", "agent", "running", "collect", "build", "put_object",
              "head_object"}

WithExecution == {"recover", "workspace", "checkout", "sandbox", "agent", "running",
                  "collect", "build", "put_object", "head_object"}

Writers == {"read", "put", "confirm"}

InHand ==
    /\ pc \in WithIssue => issue \in Issues
    /\ pc \in WithExecution => exec \in Executions
    /\ pc \in Writers => /\ op \in Write
                         /\ op.issue = issue
                         /\ op.kind = "start" => exec \in Executions

TypeInv == TypeOK /\ InHand

ControlOK ==
    /\ pc \in Pcs
    /\ serving \in BOOLEAN
    /\ todo \subseteq Issues
    /\ issue \in Issues \cup {NoIssue}
    /\ exec \in Executions \cup {NoExecution}
    /\ op \in Write \cup {NoWrite}
    /\ failing \in BOOLEAN
    /\ InHand

\* Wherever an exception leads, the process is in a well-formed state.
LEMMA ThrowOK == ControlOK /\ Throw => ControlOK'
  BY DEF ControlOK, Throw, Exit, Collect, Held, InHand, Pcs, WithIssue,
         WithExecution, Writers

\* An error collected by the reconciliation loop leaves it well formed.
LEMMA CollectOK == ControlOK /\ Collect => ControlOK'
  BY DEF ControlOK, Collect, InHand, Pcs, WithIssue, WithExecution, Writers

\* A process that is down is well formed.
LEMMA ExitOK == ControlOK /\ Exit => ControlOK'
  BY DEF ControlOK, Exit, InHand, Pcs, WithIssue, WithExecution, Writers

\* Beginning a write with an Issue in hand makes a well-formed write in hand.
LEMMA BeginOK ==
  ASSUME ControlOK, NEW kind \in WriteKinds, NEW e \in Executions \cup {NoExecution},
         NEW o, IF kind = "reject" THEN o \in RejectionOutcomes
                                   ELSE o \in Outcomes \cup {Blank},
         kind = "start" => e \in Executions,
         issue \in Issues, Begin(kind, e, o), failing' \in BOOLEAN
  PROVE  ControlOK'
<1>1. op' \in Write /\ op'.issue = issue /\ (op'.kind = "start" => exec' \in Executions)
  BY DEF Begin, Write
<1> QED
  BY <1>1 DEF ControlOK, Begin, InHand, Pcs, WithIssue, WithExecution, Writers

\* A PUT leaves a typed record, and only a start write changes the execution
\* the record names, to one.
LEMMA ApplyOK ==
  ASSUME NEW r \in Record, NEW w \in Write
  PROVE  /\ Apply(r, w) \in Record
         /\ Apply(r, w).execution \in Executions \cup {r.execution}
<1> USE DEF Record, Terminal, Blank, AgentRunning, NeedsHuman, ReadyForVerifying
<1> DEFINE Ids == Executions \cup {NoExecution}
           Fine(q) == q \in Record /\ q.execution \in Executions \cup {r.execution}
<1>1. /\ w.execution \in Ids
      /\ w.kind \in WriteKinds
      /\ w.kind = "start" => w.execution \in Executions
      /\ w.kind = "reject" => w.outcome \in RejectionOutcomes
      /\ w.kind # "reject" => w.outcome \in Outcomes \cup {Blank}
  BY DEF Write, WriteKinds
<1>2. \A o \in Outcomes \cup {Blank} : Fine(FailureWrite(r, o))
  BY DEF FailureWrite
<1>3. CASE w.kind = "start"
  <2>1. Apply(r, w) = StartWrite(w.execution)  BY <1>3 DEF Apply
  <2>2. Fine(StartWrite(w.execution))
    BY <1>1, <1>3 DEF StartWrite
  <2> QED  BY <2>1, <2>2
<1>4. CASE w.kind = "reject"
  <2>1. Apply(r, w) = RejectionWrite(r, w.outcome)  BY <1>4 DEF Apply
  <2>2. Fine(RejectionWrite(r, w.outcome))
    BY <1>1, <1>4 DEF RejectionWrite
  <2> QED  BY <2>1, <2>2
<1>5. CASE w.kind = "fail"
  <2>1. Apply(r, w) = FailureWrite(r, w.outcome)  BY <1>5 DEF Apply
  <2> QED  BY <1>1, <1>2, <1>5, <2>1
<1>6. CASE w.kind = "artifact_fail"
  <2>1. Apply(r, w) = FailureWrite(r, "artifact_persistence_failed")
    BY <1>6 DEF Apply, ArtifactFailureWrite
  <2>2. Fine(FailureWrite(r, "artifact_persistence_failed"))
    BY DEF FailureWrite, Outcomes
  <2> QED  BY <2>1, <2>2
<1>7. CASE w.kind = "interrupt"
  <2>1. Apply(r, w) = FailureWrite(r, "interrupted")
    BY <1>7 DEF Apply, InterruptedWrite
  <2>2. Fine(FailureWrite(r, "interrupted"))
    BY DEF FailureWrite, Outcomes
  <2> QED  BY <2>1, <2>2
<1>8. CASE w.kind = "succeed"
  <2>1. Apply(r, w) = SuccessWrite(r, w.execution, w.outcome)  BY <1>8 DEF Apply
  <2>2. Fine(SuccessWrite(r, w.execution, w.outcome))
    BY <1>1, <1>8 DEF SuccessWrite
  <2> QED  BY <2>1, <2>2
<1> QED
  BY <1>1, <1>3, <1>4, <1>5, <1>6, <1>7, <1>8 DEF WriteKinds

\* Whatever Redmine keeps of a PUT, the record is typed and goes on naming an
\* execution once it named one.
LEMMA ApplySomeOK ==
  ASSUME NEW r \in Record, NEW w \in Write, NEW kept
  PROVE  /\ ApplySome(r, w, kept) \in Record
         /\ r.execution # NoExecution =>
              ApplySome(r, w, kept).execution # NoExecution
<1> DEFINE all == Apply(r, w)
<1>1. all \in Record /\ all.execution \in Executions \cup {r.execution}
  BY ApplyOK
<1> HIDE DEF all
<1>2. ApplySome(r, w, kept) =
        [lifecycle |-> IF "lifecycle" \in kept THEN all.lifecycle ELSE r.lifecycle,
         execution |-> IF "execution" \in kept THEN all.execution ELSE r.execution,
         outcome   |-> IF "outcome" \in kept THEN all.outcome ELSE r.outcome,
         artifact  |-> IF "artifact" \in kept THEN all.artifact ELSE r.artifact,
         rejection |-> IF "rejection" \in kept THEN all.rejection ELSE r.rejection]
  BY DEF ApplySome, all
<1> QED
  BY <1>1, <1>2 DEF Record

DataOK ==
    /\ approved \subseteq Issues
    /\ record \in [Issues -> Record]
    /\ lateWrites \subseteq Write
    /\ stored \subseteq Executions
    /\ lateObjects \subseteq Executions
    /\ resources \subseteq Resources
    /\ owner \in [Executions -> Issues \cup {NoIssue}]
    /\ result \in [Executions -> AgentResults \cup {Blank}]
    /\ started \subseteq Executions
    /\ verified \subseteq Executions
    /\ faults \in 0..MaxFaults

\* Types and what is in hand, split into the process and the rest.
LEMMA Split == TypeInv <=> ControlOK /\ DataOK
  BY DEF TypeInv, TypeOK, ControlOK, DataOK

\* The same split of the next state.
LEMMA SplitNext == TypeInv' <=> ControlOK' /\ DataOK'
  BY DEF TypeInv, TypeOK, ControlOK, DataOK

\* A fault stays within the bound.
LEMMA FaultOK == DataOK /\ Fault => faults' \in 0..MaxFaults
  BY DEF DataOK, Fault

\* What a control point knows of what it has in hand.
LEMMA HandsFull ==
  ASSUME ControlOK
  PROVE  /\ pc \in WithIssue => issue \in Issues
         /\ pc \in WithExecution => exec \in Executions
         /\ pc \in Writers => /\ op \in Write
                              /\ op.issue = issue
                              /\ op.kind = "start" => exec \in Executions
  BY DEF ControlOK, InHand

\* A step that only moves the program counter needs at most what it already has.
LEMMA GotoOK ==
  ASSUME ControlOK, NEW label \in Pcs, Goto(label),
         label \in WithIssue => pc \in WithIssue,
         label \in WithExecution => pc \in WithExecution \/ exec \in Executions,
         label \in Writers => pc \in Writers
  PROVE  ControlOK'
  BY DEF ControlOK, InHand, Goto

\* Leaving a candidate leaves nothing in hand.
LEMMA LeaveOK ==
  ASSUME ControlOK, NEW label \in {"poll", "scan"}, Leave(label)
  PROVE  ControlOK'
  BY DEF ControlOK, InHand, Leave, Pcs, WithIssue, WithExecution, Writers

-----------------------------------------------------------------------------
\* Cleanup and reconciliation keep the types.
LEMMA StartupType == TypeInv /\ Startup => TypeInv'
<1> SUFFICES ASSUME ControlOK, DataOK, Startup  PROVE ControlOK' /\ DataOK'
  BY Split, SplitNext
<1> USE DEF Pcs, WithIssue, WithExecution, Writers
<1>1. CASE CleanupOrphans
  <2>1. ControlOK'
    BY <1>1, GotoOK, ExitOK DEF CleanupOrphans
  <2>2. DataOK'
    BY <1>1, FaultOK DEF CleanupOrphans, DataOK, AfterCleanup, redmine, bucket, history
  <2> QED  BY <2>1, <2>2
<1>2. CASE ListAgentRunning
  <2>1. ControlOK'
    BY <1>2, ExitOK DEF ListAgentRunning, AgentRunningIssues, ControlOK, InHand
  <2>2. DataOK'
    BY <1>2, FaultOK DEF ListAgentRunning, DataOK, redmine, bucket, history
  <2> QED  BY <2>1, <2>2
<1>3. CASE ReconcileNext
  <2>1. ControlOK'
    BY <1>3 DEF ReconcileNext, ControlOK, InHand
  <2>2. DataOK'
    BY <1>3 DEF ReconcileNext, DataOK, redmine, bucket, history
  <2> QED  BY <2>1, <2>2
<1>4. CASE ReconcileDone
  <2>1. ControlOK'
    BY <1>4, ExitOK DEF ReconcileDone, ControlOK, InHand
  <2>2. DataOK'
    BY <1>4 DEF ReconcileDone, DataOK, redmine, bucket, history
  <2> QED  BY <2>1, <2>2
<1>5. CASE IdentifyExecution
  <2>1. record[issue].execution \in Executions \cup {NoExecution}
    BY <1>5, HandsFull DEF IdentifyExecution, DataOK, Record
  <2>2. ControlOK'
    BY <1>5, <2>1, CollectOK
    DEF IdentifyExecution, RecoveryGuard, ControlOK, InHand
  <2>3. DataOK'
    BY <1>5, FaultOK DEF IdentifyExecution, DataOK, redmine, bucket, history
  <2> QED  BY <2>2, <2>3
<1>6. CASE RecoverArtifact
  <2>1. issue \in Issues /\ exec \in Executions
    BY <1>6, HandsFull DEF RecoverArtifact
  <2>2. result[exec] \in Outcomes \cup {Blank}
    BY <2>1 DEF DataOK, AgentResults, Outcomes
  <2>3. failing' \in BOOLEAN
    BY <1>6 DEF RecoverArtifact, ControlOK, Collect
  <2>4. ASSUME Begin("succeed", exec, result[exec])  PROVE ControlOK'
    BY <2>1, <2>2, <2>3, <2>4, BeginOK DEF WriteKinds
  <2>5. ASSUME Begin("interrupt", exec, "interrupted")  PROVE ControlOK'
    BY <2>1, <2>3, <2>5, BeginOK DEF WriteKinds, Outcomes
  <2>6. ControlOK'
    BY <1>6, <2>4, <2>5, CollectOK DEF RecoverArtifact
  <2>7. DataOK'
    BY <1>6, FaultOK DEF RecoverArtifact, DataOK, redmine, bucket, history
  <2> QED  BY <2>6, <2>7
<1> QED
  BY <1>1, <1>2, <1>3, <1>4, <1>5, <1>6 DEF Startup

\* Beginning a rejection needs only an Issue.
LEMMA RejectOK ==
  ASSUME ControlOK, issue \in Issues, NEW o \in RejectionOutcomes, Reject(o)
  PROVE  ControlOK'
<1>1. failing' \in BOOLEAN
  BY DEF Reject, ControlOK
<1> QED
  BY <1>1, BeginOK DEF Reject, WriteKinds

\* A poll cycle up to the start write keeps the types.
LEMMA PollingType == TypeInv /\ Polling => TypeInv'
<1> SUFFICES ASSUME ControlOK, DataOK, Polling  PROVE ControlOK' /\ DataOK'
  BY Split, SplitNext
<1> USE DEF Pcs, WithIssue, WithExecution, Writers
<1>1. CASE ListCandidates
  <2>1. ControlOK'
    BY <1>1, ExitOK DEF ListCandidates, DataOK, ControlOK, InHand
  <2>2. DataOK'
    BY <1>1, FaultOK DEF ListCandidates, DataOK, redmine, bucket, history
  <2> QED  BY <2>1, <2>2
<1>2. CASE NextCandidate
  <2>1. ControlOK'
    BY <1>2, LeaveOK DEF NextCandidate, ControlOK, InHand
  <2>2. DataOK'
    BY <1>2 DEF NextCandidate, DataOK, redmine, bucket, history
  <2> QED  BY <2>1, <2>2
<1>3. CASE RefetchIssue
  <2>1. ControlOK'
    BY <1>3, GotoOK, LeaveOK, ThrowOK DEF RefetchIssue, Skip
  <2>2. DataOK'
    BY <1>3, FaultOK DEF RefetchIssue, DataOK, redmine, bucket, history
  <2> QED  BY <2>1, <2>2
<1>4. CASE ValidateHandoff
  <2>1. ControlOK'
    BY <1>4, HandsFull, GotoOK, RejectOK DEF ValidateHandoff, RejectionOutcomes
  <2>2. DataOK'
    BY <1>4 DEF ValidateHandoff, DataOK, redmine, bucket, history
  <2> QED  BY <2>1, <2>2
<1>5. CASE RevalidateRequirements
  <2>1. ControlOK'
    BY <1>5, HandsFull, GotoOK, RejectOK
    DEF RevalidateRequirements, RejectionOutcomes
  <2>2. DataOK'
    BY <1>5 DEF RevalidateRequirements, DataOK, redmine, bucket, history
  <2> QED  BY <2>1, <2>2
<1>6. CASE ResolveSource
  <2>1. ControlOK'
    BY <1>6, HandsFull, GotoOK, RejectOK DEF ResolveSource, RejectionOutcomes
  <2>2. DataOK'
    BY <1>6 DEF ResolveSource, DataOK, redmine, bucket, history
  <2> QED  BY <2>1, <2>2
<1>7. CASE AuthorizeAndAllocate
  <2>1. issue \in Issues
    BY <1>7, HandsFull DEF AuthorizeAndAllocate
  <2>2. failing' \in BOOLEAN
    BY <1>7 DEF AuthorizeAndAllocate, Reject, ControlOK
  <2>3. ASSUME NEW e \in Executions, Begin("start", e, Blank)  PROVE ControlOK'
    BY <2>1, <2>2, <2>3, BeginOK DEF WriteKinds
  <2>4. ControlOK'
    BY <1>7, <2>1, <2>3, RejectOK DEF AuthorizeAndAllocate, RejectionOutcomes
  <2>5. DataOK'
    BY <1>7, <2>1 DEF AuthorizeAndAllocate, DataOK, redmine, bucket
  <2> QED  BY <2>4, <2>5
<1> QED
  BY <1>1, <1>2, <1>3, <1>4, <1>5, <1>6, <1>7 DEF Polling

\* Reading, sending and confirming a durable write keep the types.
LEMMA WritingType == TypeInv /\ Writing => TypeInv'
<1> SUFFICES ASSUME ControlOK, DataOK, Writing  PROVE ControlOK' /\ DataOK'
  BY Split, SplitNext
<1> USE DEF Pcs, WithIssue, WithExecution, Writers
<1>1. /\ issue \in Issues /\ op \in Write /\ op.issue = issue
      /\ op.kind = "start" => exec \in Executions
  BY HandsFull DEF Writing, WriterRead, WriterPut, WriterConfirm
<1>2. CASE WriterRead
  <2>1. /\ Target \in Write /\ Target.issue = issue
        /\ Target.kind = op.kind
    BY <1>1 DEF Target, Write, DataOK, Record, WriteKinds
  <2>2. ControlOK'
    BY <1>1, <1>2, <2>1, ThrowOK DEF WriterRead, ControlOK, InHand
  <2>3. DataOK'
    BY <1>2, FaultOK DEF WriterRead, DataOK, redmine, bucket, history
  <2> QED  BY <2>2, <2>3
<1>3. CASE WriterPut
  <2>1. \A kept \in Keeps : ApplySome(record[issue], op, kept) \in Record
    BY <1>1, ApplySomeOK DEF DataOK
  <2>2. ControlOK'
    BY <1>3, GotoOK, ThrowOK DEF WriterPut, Unconfirmed
  <2>3. record' \in [Issues -> Record]
    BY <1>1, <1>3, <2>1 DEF WriterPut, DataOK
  <2>4. lateWrites' \subseteq Write
    BY <1>1, <1>3 DEF WriterPut, DataOK
  <2>5. faults' \in 0..MaxFaults
    BY <1>3, FaultOK DEF WriterPut, DataOK
  <2>6. DataOK'
    BY <1>3, <2>3, <2>4, <2>5 DEF WriterPut, DataOK, bucket, history
  <2> QED  BY <2>2, <2>6
<1>4. CASE WriterConfirm
  <2>1. ASSUME Proceed  PROVE ControlOK'
    <3>1. CASE ~serving
      BY <2>1, <3>1 DEF Proceed, ControlOK, InHand
    <3>2. CASE serving /\ op.kind = "start"
      BY <1>1, <2>1, <3>2, GotoOK, <1>4 DEF Proceed, WriterConfirm
    <3>3. CASE serving /\ op.kind # "start"
      BY <1>1, <2>1, <3>3, GotoOK, ExitOK, LeaveOK DEF Proceed
    <3> QED  BY <3>1, <3>2, <3>3 DEF ControlOK
  <2>2. ControlOK'
    BY <1>4, <2>1, ThrowOK DEF WriterConfirm, Unconfirmed
  <2>3. DataOK'
    BY <1>4, FaultOK DEF WriterConfirm, DataOK, redmine, bucket, history
  <2> QED  BY <2>2, <2>3
<1> QED
  BY <1>2, <1>3, <1>4 DEF Writing

\* Preparing, running and disposing of an attempt keep the types.
LEMMA AttemptType == TypeInv /\ Attempt => TypeInv'
<1> SUFFICES ASSUME ControlOK, DataOK, Attempt  PROVE ControlOK' /\ DataOK'
  BY Split, SplitNext
<1> USE DEF Pcs, WithIssue, WithExecution, Writers
<1>1. ASSUME NEW o \in StartedFailures, issue \in Issues, exec \in Executions,
             Fail(o), failing' \in BOOLEAN
      PROVE  ControlOK'
  BY <1>1, BeginOK DEF Fail, WriteKinds, Outcomes
<1>2. CASE CreateWorkspace
  <2>1. ControlOK'
    BY <1>1, <1>2, HandsFull, GotoOK DEF CreateWorkspace, StartedFailures
  <2>2. DataOK'
    BY <1>2 DEF CreateWorkspace, DataOK, Resources, redmine, bucket, history
  <2> QED  BY <2>1, <2>2
<1>3. CASE CheckoutSource
  <2>1. ControlOK'
    BY <1>1, <1>3, HandsFull, GotoOK DEF CheckoutSource, StartedFailures
  <2>2. DataOK'
    BY <1>3 DEF CheckoutSource, DataOK, redmine, bucket, history
  <2> QED  BY <2>1, <2>2
<1>4. CASE CreateSandbox
  <2>1. ControlOK'
    BY <1>1, <1>4, HandsFull, GotoOK DEF CreateSandbox, StartedFailures
  <2>2. DataOK'
    BY <1>4 DEF CreateSandbox, DataOK, Resources, redmine, bucket, history
  <2> QED  BY <2>1, <2>2
<1>5. CASE InvokeAgent
  <2>1. ControlOK'
    BY <1>5, HandsFull, GotoOK DEF InvokeAgent
  <2>2. DataOK'
    BY <1>5, HandsFull DEF InvokeAgent, DataOK, redmine, bucket
  <2> QED  BY <2>1, <2>2
<1>6. CASE AgentEnds
  <2>1. issue \in Issues /\ exec \in Executions /\ failing \in BOOLEAN
    BY <1>6, HandsFull DEF AgentEnds, ControlOK
  <2>2. ControlOK'
    BY <1>1, <1>6, <2>1, GotoOK DEF AgentEnds
  <2>3. DataOK'
    BY <1>6, <2>1 DEF AgentEnds, DataOK, redmine, bucket
  <2> QED  BY <2>2, <2>3
<1>7. CASE Dispose
  <2>1. ControlOK'
    BY <1>7, ExitOK, LeaveOK DEF Dispose
  <2>2. DataOK'
    BY <1>7, FaultOK DEF Dispose, DataOK, redmine, bucket, history
  <2> QED  BY <2>1, <2>2
<1> QED
  BY <1>2, <1>3, <1>4, <1>5, <1>6, <1>7 DEF Attempt

\* The artifact pipeline keeps the types.
LEMMA FinishingType == TypeInv /\ Finishing => TypeInv'
<1> SUFFICES ASSUME ControlOK, DataOK, Finishing  PROVE ControlOK' /\ DataOK'
  BY Split, SplitNext
<1> USE DEF Pcs, WithIssue, WithExecution, Writers
<1>1. issue \in Issues /\ exec \in Executions /\ failing \in BOOLEAN
  BY HandsFull DEF Finishing, CollectChanges, BuildArtifact, PutObject, HeadObject,
                   ControlOK
<1>2. ASSUME ArtifactFailure  PROVE ControlOK'
  BY <1>1, <1>2, BeginOK DEF ArtifactFailure, WriteKinds, Outcomes
<1>3. CASE CollectChanges
  <2>1. ControlOK'
    BY <1>3, GotoOK, ThrowOK DEF CollectChanges
  <2>2. DataOK'
    BY <1>3, FaultOK DEF CollectChanges, DataOK, redmine, bucket, history
  <2> QED  BY <2>1, <2>2
<1>4. CASE BuildArtifact
  <2>1. ControlOK'
    BY <1>2, <1>4, GotoOK DEF BuildArtifact
  <2>2. DataOK'
    BY <1>4 DEF BuildArtifact, DataOK, redmine, bucket, history
  <2> QED  BY <2>1, <2>2
<1>5. CASE PutObject
  <2>1. ControlOK'
    BY <1>2, <1>5, GotoOK DEF PutObject
  <2>2. DataOK'
    BY <1>1, <1>5, FaultOK DEF PutObject, DataOK, redmine, bucket, history
  <2> QED  BY <2>1, <2>2
<1>6. CASE HeadObject
  <2>1. result[exec] \in Outcomes \cup {Blank}
    BY <1>1 DEF DataOK, AgentResults, Outcomes
  <2>2. ASSUME Begin("succeed", exec, result[exec]), failing' \in BOOLEAN
        PROVE  ControlOK'
    BY <1>1, <2>1, <2>2, BeginOK DEF WriteKinds
  <2>3. ControlOK'
    BY <1>1, <1>2, <1>6, <2>2 DEF HeadObject
  <2>4. DataOK'
    BY <1>1, <1>6, FaultOK DEF HeadObject, DataOK, redmine, bucket
  <2> QED  BY <2>3, <2>4
<1> QED
  BY <1>3, <1>4, <1>5, <1>6 DEF Finishing

\* People, crashes and late requests keep the types.
LEMMA EnvironmentType == TypeInv /\ Environment => TypeInv'
<1> SUFFICES ASSUME ControlOK, DataOK, Environment  PROVE ControlOK' /\ DataOK'
  BY Split, SplitNext
<1>1. ASSUME UNCHANGED control  PROVE ControlOK'
  BY <1>1 DEF control, ControlOK, InHand
<1>2. CASE ChangeApproval
  BY <1>1, <1>2 DEF ChangeApproval, DataOK, bucket, history
<1>3. CASE Crash
  BY <1>3, ExitOK, FaultOK DEF Crash, DataOK, redmine, bucket, history
<1>4. CASE LateWriteApplied
  <2>1. PICK w \in lateWrites, kept \in Keeps :
            /\ record' = [record EXCEPT ![w.issue] = ApplySome(@, w, kept)]
            /\ lateWrites' = lateWrites \ {w}
    BY <1>4 DEF LateWriteApplied
  <2>2. w \in Write /\ w.issue \in Issues
    BY DEF DataOK, Write
  <2>3. ApplySome(record[w.issue], w, kept) \in Record
    BY <2>2, ApplySomeOK DEF DataOK
  <2>4. record' \in [Issues -> Record]
    BY <2>1, <2>2, <2>3 DEF DataOK
  <2>5. DataOK'
    BY <1>4, <2>1, <2>4 DEF LateWriteApplied, DataOK, bucket, history
  <2> QED  BY <1>1, <1>4, <2>5 DEF LateWriteApplied
<1>5. CASE LateWriteDropped
  BY <1>1, <1>5 DEF LateWriteDropped, DataOK, bucket, history
<1>6. CASE LateObjectApplied
  BY <1>1, <1>6 DEF LateObjectApplied, DataOK, redmine, history
<1>7. CASE LateObjectDropped
  BY <1>1, <1>7 DEF LateObjectDropped, DataOK, redmine, history
<1> QED
  BY <1>2, <1>3, <1>4, <1>5, <1>6, <1>7 DEF Environment

\* The initial states are well formed.
LEMMA InitType == Init => TypeInv
<1> SUFFICES ASSUME Init  PROVE TypeInv
  OBVIOUS
<1>1. Pristine \in Record
  BY DEF Pristine, Record, Blank
<1>2. 0 \in 0..MaxFaults
  OBVIOUS
<1>3. TypeOK
  BY <1>1, <1>2 DEF Init, TypeOK, Pcs
<1> QED
  BY <1>3 DEF Init, TypeInv, InHand, WithIssue, WithExecution, Writers

\* Every step keeps the types.
LEMMA NextType == TypeInv /\ [Next]_vars => TypeInv'
<1> SUFFICES ASSUME TypeInv, [Next]_vars  PROVE TypeInv'
  OBVIOUS
<1>1. CASE Start
  <2>1. ControlOK'
    BY <1>1, Split, GotoOK DEF Start, Pcs, WithIssue, WithExecution, Writers
  <2>2. DataOK'
    BY <1>1, Split DEF Start, DataOK, redmine, bucket, history
  <2> QED  BY <2>1, <2>2, SplitNext
<1>2. CASE Controller
  BY <1>2, StartupType, PollingType, WritingType, AttemptType, FinishingType
  DEF Controller
<1>3. CASE Environment
  BY <1>3, EnvironmentType
<1>4. CASE UNCHANGED vars
  <2>1. ControlOK'
    BY <1>4, Split DEF vars, control, ControlOK, InHand
  <2>2. DataOK'
    BY <1>4, Split DEF vars, redmine, bucket, history, DataOK
  <2> QED  BY <2>1, <2>2, SplitNext
<1> QED
  BY <1>1, <1>2, <1>3, <1>4 DEF Next

\* Every reachable state is well formed; in particular the process never starts
\* a durable write without an Issue, or runs an Agent without an execution ID.
THEOREM TypeCorrect == Spec => []TypeInv
<1>1. Init => TypeInv
  BY InitType
<1>2. TypeInv /\ [Next]_vars => TypeInv'
  BY NextType
<1> QED
  BY <1>1, <1>2, PTL DEF Spec

\* The form the runs check.
THEOREM TypeOKHolds == Spec => []TypeOK
<1>1. TypeInv => TypeOK
  BY DEF TypeInv
<1> QED
  BY <1>1, TypeCorrect, PTL

-----------------------------------------------------------------------------
(* One Agent per Issue.  The argument: only a pristine record lets a start *)
(* write be sent, an Agent is invoked only behind a confirmed start write, *)
(* and no write, late or partial, makes a record name no execution again.  *)

\* A record that names an execution.
Named(i) == record[i].execution # NoExecution

\* No step takes the execution out of a record: the two that write one apply a
\* PUT, or a part of it.
LEMMA NamedStep ==
  TypeInv /\ [Next]_vars => \A i \in Issues : Named(i) => (Named(i))'
<1> SUFFICES ASSUME TypeInv, [Next]_vars, NEW i \in Issues, Named(i)
             PROVE  (Named(i))'
  OBVIOUS
<1> USE Split DEF DataOK, Named
<1>1. CASE WriterPut
  <2>1. op \in Write /\ issue \in Issues
    BY <1>1, HandsFull DEF WriterPut, WithIssue, Writers
  <2>2. record' = record \/ \E kept \in Keeps :
            record' = [record EXCEPT ![issue] = ApplySome(@, op, kept)]
    BY <1>1 DEF WriterPut
  <2>3. \A kept \in Keeps : record[issue].execution # NoExecution =>
            ApplySome(record[issue], op, kept).execution # NoExecution
    BY <2>1, ApplySomeOK
  <2> QED  BY <2>1, <2>2, <2>3
<1>2. CASE LateWriteApplied
  <2>1. PICK w \in lateWrites, kept \in Keeps :
            record' = [record EXCEPT ![w.issue] = ApplySome(@, w, kept)]
    BY <1>2 DEF LateWriteApplied
  <2>2. w \in Write /\ w.issue \in Issues
    BY DEF Write
  <2>3. record[w.issue].execution # NoExecution =>
            ApplySome(record[w.issue], w, kept).execution # NoExecution
    BY <2>2, ApplySomeOK
  <2> QED  BY <2>1, <2>2, <2>3
<1>3. CASE UNCHANGED record
  BY <1>3
<1>4. CASE ~WriterPut /\ ~LateWriteApplied
  <2>1. UNCHANGED record
    BY <1>4
    DEF Next, Controller, Environment, Startup, Polling, Writing, Attempt, Finishing,
        Start, CleanupOrphans, ListAgentRunning, ReconcileNext, ReconcileDone,
        IdentifyExecution, RecoverArtifact, ListCandidates, NextCandidate,
        RefetchIssue, ValidateHandoff, RevalidateRequirements, ResolveSource,
        AuthorizeAndAllocate, WriterRead, WriterConfirm, CreateWorkspace,
        CheckoutSource, CreateSandbox, InvokeAgent, AgentEnds, Dispose,
        CollectChanges, BuildArtifact, PutObject, HeadObject, ChangeApproval, Crash,
        LateWriteDropped, LateObjectApplied, LateObjectDropped, vars, redmine
  <2> QED  BY <2>1
<1> QED
  BY <1>1, <1>2, <1>4

Attempting == {"workspace", "checkout", "sandbox", "agent"}

Fresh(i) == \A f \in started : owner[f] # i

\* An Issue whose Agent was invoked has a record that shows it.
Marked == \A e \in started : owner[e] \in Issues /\ Named(owner[e])

\* Between a start write and the Agent's invocation, the Issue has had no Agent.
Ahead ==
    /\ pc \in Attempting => /\ owner[exec] = issue
                            /\ Named(issue)
                            /\ Fresh(issue)
    /\ pc \in Writers /\ op.kind = "start" =>
          /\ owner[exec] = issue
          /\ pc # "read" => Fresh(issue)

AgentInv == Marked /\ Ahead /\ OneAgentPerIssue

\* A step that writes no record, starts no Agent, allocates nothing and leaves
\* the attempt keeps AgentInv.
LEMMA Quiet ==
  ASSUME AgentInv, UNCHANGED <<record, owner, started>>,
         \/ UNCHANGED control
         \/ pc' \notin Attempting /\ (pc' \in Writers => op'.kind # "start")
  PROVE  AgentInv'
<1>1. Marked' /\ OneAgentPerIssue'
  BY DEF AgentInv, Marked, Named, OneAgentPerIssue
<1>2. Ahead'
  BY DEF AgentInv, Ahead, Named, Fresh, control
<1> QED
  BY <1>1, <1>2 DEF AgentInv

\* An exception leads out of the attempt and out of every writer.
LEMMA ThrowLeaves ==
  ASSUME Throw \/ Collect \/ Exit
  PROVE  pc' \notin Attempting /\ pc' \notin Writers
  BY DEF Throw, Collect, Exit, Attempting, Writers

\* Without a new Agent run or owner, the marks of earlier runs stay.
LEMMA MarkedStep ==
  ASSUME TypeInv, [Next]_vars, AgentInv, UNCHANGED <<owner, started>>
  PROVE  Marked' /\ OneAgentPerIssue'
  BY NamedStep DEF AgentInv, Marked, Named, OneAgentPerIssue

\* A durable write reaches the attempt only behind a confirmed start write.
LEMMA WritingAgent ==
  ASSUME TypeInv, AgentInv, Writing
  PROVE  AgentInv'
<1> USE DEF Attempting, Writers
<1>1. /\ issue \in Issues /\ op \in Write /\ op.issue = issue
      /\ op.kind = "start" => exec \in Executions
  BY Split, HandsFull DEF Writing, WriterRead, WriterPut, WriterConfirm, WithIssue
<1>2. UNCHANGED <<owner, started>>
  BY DEF Writing, WriterRead, WriterPut, WriterConfirm, history
<1>3. Marked' /\ OneAgentPerIssue'
  BY <1>2, MarkedStep DEF Next, Controller
<1>4. record[issue] = Pristine => Fresh(issue)
  BY DEF AgentInv, Marked, Named, Fresh, Pristine
<1>5. Fresh(issue) => (Fresh(issue))' \/ issue' # issue
  BY <1>2 DEF Fresh
<1>6. CASE WriterRead
  <2>1. CASE pc' = "put" /\ op' = Target /\ Allowed(record[issue], Target)
    <3>1. op'.kind = op.kind
      BY <1>1, <2>1 DEF Target, Write
    <3>2. op.kind = "start" => Fresh(issue)
      BY <1>4, <2>1, <3>1 DEF Allowed, IsPristine
    <3>3. UNCHANGED <<issue, exec>>
      BY <1>6, <2>1, ThrowLeaves DEF WriterRead
    <3>4. Ahead'
      BY <1>2, <1>6, <2>1, <3>1, <3>2, <3>3 DEF AgentInv, Ahead, Fresh, WriterRead
    <3> QED  BY <1>3, <3>4 DEF AgentInv
  <2>2. CASE Throw
    BY <1>3, <2>2, ThrowLeaves DEF AgentInv, Ahead
  <2> QED  BY <1>6, <2>1, <2>2 DEF WriterRead
<1>7. CASE WriterPut
  <2>1. CASE Goto("confirm")
    BY <1>2, <1>3, <1>7, <2>1 DEF WriterPut, Goto, AgentInv, Ahead, Fresh
  <2>2. CASE Throw
    BY <1>3, <2>2, ThrowLeaves DEF AgentInv, Ahead
  <2> QED  BY <1>7, <2>1, <2>2 DEF WriterPut, Unconfirmed
<1>8. CASE WriterConfirm
  <2>1. CASE Proceed /\ Confirmed(record[issue], op)
    <3>1. CASE serving /\ op.kind = "start"
      <4>1. op.execution \in Executions
        BY <1>1, <3>1 DEF Write
      <4>2. Named(issue)
        <5>1. StartReadBack(record[issue], op.execution)
          BY <2>1, <3>1 DEF Confirmed
        <5>2. StartWrite(op.execution).execution = op.execution
          BY DEF StartWrite
        <5> QED  BY <4>1, <5>1, <5>2 DEF StartReadBack, Named
      <4>3. Goto("workspace")
        BY <2>1, <3>1 DEF Proceed
      <4>4. UNCHANGED record
        BY <1>8 DEF WriterConfirm, redmine
      <4> QED
        BY <1>2, <1>3, <1>8, <3>1, <4>2, <4>3, <4>4
        DEF Goto, AgentInv, Ahead, Named, Fresh, WriterConfirm
    <3>2. CASE ~(serving /\ op.kind = "start")
      <4>1. pc' \notin Attempting /\ pc' \notin Writers
        BY <2>1, <3>2, ThrowLeaves DEF Proceed, Goto, Leave
      <4> QED  BY <1>3, <4>1 DEF AgentInv, Ahead
    <3> QED  BY <3>1, <3>2
  <2>2. CASE Throw
    BY <1>3, <2>2, ThrowLeaves DEF AgentInv, Ahead
  <2> QED  BY <1>8, <2>1, <2>2 DEF WriterConfirm, Unconfirmed
<1> QED
  BY <1>6, <1>7, <1>8 DEF Writing

\* Cleanup and reconciliation never lead into an attempt.
LEMMA StartupAgent == TypeInv /\ AgentInv /\ Startup => AgentInv'
<1> SUFFICES ASSUME TypeInv, AgentInv, Startup  PROVE AgentInv'
  OBVIOUS
<1>1. UNCHANGED <<record, owner, started>>
  BY DEF Startup, CleanupOrphans, ListAgentRunning, ReconcileNext, ReconcileDone,
         IdentifyExecution, RecoverArtifact, redmine, history
<1>2. pc' \notin Attempting /\ (pc' \in Writers => op'.kind # "start")
  BY ThrowLeaves
  DEF Startup, CleanupOrphans, ListAgentRunning, ReconcileNext, ReconcileDone,
      IdentifyExecution, RecoverArtifact, Goto, Begin, Attempting, Writers
<1> QED
  BY <1>1, <1>2, Quiet

\* A poll cycle allocates a fresh ID and leads to the start write only.
LEMMA PollingAgent == TypeInv /\ AgentInv /\ Polling => AgentInv'
<1> SUFFICES ASSUME TypeInv, AgentInv, Polling  PROVE AgentInv'
  OBVIOUS
<1>1. CASE AuthorizeAndAllocate
  <2>1. CASE UNCHANGED owner /\ Reject("eligibility_failed")
    BY <1>1, <2>1, Quiet
    DEF AuthorizeAndAllocate, Reject, Begin, Attempting, Writers, redmine
  <2>2. CASE \E e \in Executions : /\ Unallocated(e)
                                   /\ owner' = [owner EXCEPT ![e] = issue]
                                   /\ Begin("start", e, Blank)
    <3>1. PICK e \in Executions : /\ Unallocated(e)
                                  /\ owner' = [owner EXCEPT ![e] = issue]
                                  /\ Begin("start", e, Blank)
      BY <2>2
    <3>2. e \notin started /\ started' = started /\ record' = record
      BY <1>1, <3>1 DEF AgentInv, Marked, Unallocated, AuthorizeAndAllocate, redmine
    <3>3. \A f \in started : owner'[f] = owner[f]
      BY <3>1, <3>2, Split DEF DataOK
    <3>4. Marked' /\ OneAgentPerIssue'
      BY <3>2, <3>3 DEF AgentInv, Marked, Named, OneAgentPerIssue
    <3>5. owner'[e] = issue
      BY <3>1, Split DEF DataOK
    <3>6. Ahead'
      BY <3>1, <3>5 DEF Ahead, Begin, Attempting, Writers
    <3> QED  BY <3>4, <3>6 DEF AgentInv
  <2> QED  BY <1>1, <2>1, <2>2 DEF AuthorizeAndAllocate
<1>2. CASE ~AuthorizeAndAllocate
  <2>1. UNCHANGED <<record, owner, started>>
    BY <1>2 DEF Polling, ListCandidates, NextCandidate, RefetchIssue, ValidateHandoff,
                RevalidateRequirements, ResolveSource, redmine, history
  <2>2. pc' \notin Attempting /\ (pc' \in Writers => op'.kind # "start")
    BY <1>2, ThrowLeaves
    DEF Polling, ListCandidates, NextCandidate, RefetchIssue, ValidateHandoff,
        RevalidateRequirements, ResolveSource, Goto, Leave, Skip, Reject, Begin,
        Attempting, Writers
  <2> QED  BY <2>1, <2>2, Quiet
<1> QED
  BY <1>1, <1>2

\* An attempt invokes the Agent once, for the execution its record was marked for.
LEMMA AttemptAgent == TypeInv /\ AgentInv /\ Attempt => AgentInv'
<1> SUFFICES ASSUME TypeInv, AgentInv, Attempt  PROVE AgentInv'
  OBVIOUS
<1> USE DEF Attempting, Writers
<1>1. UNCHANGED <<record, owner>>
  BY DEF Attempt, CreateWorkspace, CheckoutSource, CreateSandbox, InvokeAgent,
         AgentEnds, Dispose, redmine, history
<1>2. CASE InvokeAgent
  <2>1. /\ exec \in Executions /\ issue \in Issues
        /\ owner[exec] = issue /\ Named(issue) /\ Fresh(issue)
    BY <1>2, Split, HandsFull
    DEF InvokeAgent, AgentInv, Ahead, WithIssue, WithExecution
  <2>2. started' = started \cup {exec} /\ pc' = "running"
    BY <1>2 DEF InvokeAgent, Goto
  <2>3. Marked' /\ OneAgentPerIssue'
    BY <1>1, <2>1, <2>2 DEF AgentInv, Marked, Named, OneAgentPerIssue, Fresh
  <2> QED  BY <2>2, <2>3 DEF AgentInv, Ahead
<1>3. CASE CreateWorkspace \/ CheckoutSource \/ CreateSandbox
  <2>1. UNCHANGED started
    BY <1>3 DEF CreateWorkspace, CheckoutSource, CreateSandbox, history
  <2>2. CASE pc' \in Attempting /\ UNCHANGED <<issue, exec, op>> /\ pc \in Attempting
    BY <1>1, <2>1, <2>2
    DEF AgentInv, Marked, Named, OneAgentPerIssue, Ahead, Fresh
  <2>3. CASE pc' = "read" /\ op'.kind = "fail"
    BY <1>1, <2>1, <2>3, Quiet
  <2> QED
    BY <1>3, <2>2, <2>3
    DEF CreateWorkspace, CheckoutSource, CreateSandbox, Goto, Fail, Begin
<1>4. CASE AgentEnds \/ Dispose
  <2>1. UNCHANGED started
    BY <1>4 DEF AgentEnds, Dispose, history
  <2>2. pc' \notin Attempting /\ (pc' \in Writers => op'.kind # "start")
    BY <1>4, ThrowLeaves DEF AgentEnds, Dispose, Goto, Fail, Begin, Leave
  <2> QED  BY <1>1, <2>1, <2>2, Quiet
<1> QED
  BY <1>2, <1>3, <1>4 DEF Attempt

\* The artifact pipeline invokes no Agent.
LEMMA FinishingAgent == TypeInv /\ AgentInv /\ Finishing => AgentInv'
<1> SUFFICES ASSUME TypeInv, AgentInv, Finishing  PROVE AgentInv'
  OBVIOUS
<1>1. UNCHANGED <<record, owner, started>>
  BY DEF Finishing, CollectChanges, BuildArtifact, PutObject, HeadObject, redmine,
         history
<1>2. pc' \notin Attempting /\ (pc' \in Writers => op'.kind # "start")
  BY ThrowLeaves
  DEF Finishing, CollectChanges, BuildArtifact, PutObject, HeadObject, Goto,
      ArtifactFailure, Begin, Attempting, Writers
<1> QED
  BY <1>1, <1>2, Quiet

\* Late writes and crashes invoke no Agent and unmark no record.
LEMMA EnvironmentAgent == TypeInv /\ AgentInv /\ Environment => AgentInv'
<1> SUFFICES ASSUME TypeInv, AgentInv, Environment  PROVE AgentInv'
  OBVIOUS
<1>1. UNCHANGED <<owner, started>>
  BY DEF Environment, ChangeApproval, Crash, LateWriteApplied, LateWriteDropped,
         LateObjectApplied, LateObjectDropped, history
<1>2. CASE LateWriteApplied
  <2>1. Marked' /\ OneAgentPerIssue'
    BY <1>1, <1>2, MarkedStep DEF Next, Environment
  <2>2. UNCHANGED control
    BY <1>2 DEF LateWriteApplied
  <2>3. pc \in Attempting => issue \in Issues
    BY Split, HandsFull DEF Attempting, WithIssue
  <2>4. pc \in Attempting => (Named(issue))'
    BY <1>2, <2>2, <2>3, NamedStep DEF Named, control, AgentInv, Ahead, Next, Environment
  <2>5. Ahead'
    BY <1>1, <2>2, <2>4 DEF AgentInv, Ahead, Named, Fresh, control
  <2> QED  BY <2>1, <2>5 DEF AgentInv
<1>3. CASE Crash
  BY <1>1, <1>3, ThrowLeaves, Quiet DEF Crash, redmine
<1>4. CASE ~LateWriteApplied /\ ~Crash
  <2>1. UNCHANGED <<record, control>>
    BY <1>4 DEF Environment, ChangeApproval, LateWriteDropped, LateObjectApplied,
                LateObjectDropped, redmine
  <2> QED  BY <1>1, <2>1, Quiet
<1> QED
  BY <1>2, <1>3, <1>4

\* The strengthening: an Agent runs behind a confirmed start write, for an Issue
\* that had none, and its record shows it ever after.
THEOREM AgentInvHolds == Spec => []AgentInv
<1>1. Init => AgentInv
  BY DEF Init, AgentInv, Marked, Ahead, OneAgentPerIssue, Attempting, Writers
<1>2. TypeInv /\ AgentInv /\ [Next]_vars => AgentInv'
  <2> SUFFICES ASSUME TypeInv, AgentInv, [Next]_vars  PROVE AgentInv'
    OBVIOUS
  <2>1. CASE Start
    BY <2>1, Quiet DEF Start, Goto, Attempting, Writers, redmine, history
  <2>2. CASE Controller
    BY <2>2, StartupAgent, PollingAgent, WritingAgent, AttemptAgent, FinishingAgent
    DEF Controller
  <2>3. CASE Environment
    BY <2>3, EnvironmentAgent
  <2>4. CASE UNCHANGED vars
    BY <2>4, Quiet DEF vars, redmine, history
  <2> QED  BY <2>1, <2>2, <2>3, <2>4 DEF Next
<1> QED
  BY <1>1, <1>2, TypeCorrect, PTL DEF Spec

\* However often the process crashes and restarts, and whatever Redmine does
\* with the writes it was sent, an Issue has its Agent invoked for at most one
\* execution.
THEOREM OneAgent == Spec => []OneAgentPerIssue
<1>1. AgentInv => OneAgentPerIssue
  BY DEF AgentInv
<1> QED
  BY <1>1, AgentInvHolds, PTL

\* Whatever Redmine keeps of the writes it is sent, an Issue whose Agent was
\* invoked has a record that names an execution.
THEOREM RanIsNamedHolds == Spec => []RanIsNamed
<1>1. AgentInv => RanIsNamed
  BY DEF AgentInv, Marked, Named, RanIsNamed
<1> QED
  BY <1>1, AgentInvHolds, PTL
=============================================================================
