---------------------------- MODULE RedmineRecord ----------------------------
(***************************************************************************)
(* The durable execution record of one Redmine Issue, and the writes the   *)
(* Controller sends to it.                                                 *)
(*                                                                         *)
(* Redmine keeps fourteen custom fields per Issue                          *)
(* (redmine/durable-state-guard.ts).  Fields that are always written       *)
(* together by every writer are one field here:                            *)
(*   execution  execution ID, brief revision, persisted revision,          *)
(*              requirements fingerprint, repository, source revision,     *)
(*              started at: the immutable snapshot the ID stands for       *)
(*   outcome    outcome and finished at                                    *)
(*   rejection  rejection outcome, rejected at, diagnostic                 *)
(* The record has no version: a write replaces the fields it names,        *)
(* whatever they hold when it arrives.                                     *)
(***************************************************************************)
CONSTANTS
    Issues,         \* Issues of the allowed projects
    Executions,     \* execution IDs (UUIDv4) the allocator can hand out
    NoExecution     \* an empty execution ID or artifact reference

ASSUME NoExecutionIsEmpty == NoExecution \notin Executions

Blank             == "blank"
AgentRunning      == "Agent Running"
NeedsHuman        == "Needs Human"
ReadyForVerifying == "Ready for Independent Verification"

RejectionOutcomes == {"eligibility_failed", "stale_requirements"}
ArtifactOutcomes  == {"changes_ready", "no_changes"}
StartedFailures   == {"timeout", "agent_start_failed", "agent_failed"}
Outcomes == ArtifactOutcomes \cup StartedFailures
              \cup {"artifact_persistence_failed", "interrupted"}

Terminal == {NeedsHuman, ReadyForVerifying}

Record == [lifecycle : {Blank, AgentRunning} \cup Terminal,
           execution : Executions \cup {NoExecution},
           outcome   : Outcomes \cup {Blank},
           artifact  : Executions \cup {NoExecution},
           rejection : RejectionOutcomes \cup {Blank}]

Pristine == [lifecycle |-> Blank, execution |-> NoExecution, outcome |-> Blank,
             artifact |-> NoExecution, rejection |-> Blank]

WriteKinds == {"start", "reject", "fail", "artifact_fail", "succeed", "interrupt"}

\* A PUT in flight: the writer it comes from and the values it carries.
Write ==
    [kind : {"reject"}, issue : Issues, execution : Executions \cup {NoExecution},
     outcome : RejectionOutcomes]
      \cup
    [kind : {"start"}, issue : Issues, execution : Executions,
     outcome : Outcomes \cup {Blank}]
      \cup
    [kind : WriteKinds \ {"reject", "start"}, issue : Issues,
     execution : Executions \cup {NoExecution}, outcome : Outcomes \cup {Blank}]

-----------------------------------------------------------------------------
(* What each PUT does to the fields it names.                              *)

StartWrite(e) ==
    [lifecycle |-> AgentRunning, execution |-> e, outcome |-> Blank,
     artifact |-> NoExecution, rejection |-> Blank]

\* Slip: the rejection goes to the outcome field.
RejectionAsOutcome(r, o) == [r EXCEPT !.lifecycle = NeedsHuman, !.outcome = o]

RejectionWrite(r, o) == [r EXCEPT !.lifecycle = NeedsHuman, !.rejection = o]

\* Slip: a failure also fills the rejection fields.
FailureAsRejection(r, o) ==
    [r EXCEPT !.lifecycle = NeedsHuman, !.outcome = o, !.artifact = NoExecution,
              !.rejection = "eligibility_failed"]

FailureWrite(r, o) ==
    [r EXCEPT !.lifecycle = NeedsHuman, !.outcome = o, !.artifact = NoExecution]

ArtifactFailureWrite(r) == FailureWrite(r, "artifact_persistence_failed")

InterruptedWrite(r) == FailureWrite(r, "interrupted")

\* Slip: every success reports changes.
SuccessAlwaysChanged(r, e, o) ==
    [r EXCEPT !.lifecycle = ReadyForVerifying, !.outcome = "changes_ready",
              !.artifact = e]

SuccessWrite(r, e, o) ==
    [r EXCEPT !.lifecycle = ReadyForVerifying, !.outcome = o, !.artifact = e]

Apply(r, w) ==
    CASE w.kind = "start"         -> StartWrite(w.execution)
      [] w.kind = "reject"        -> RejectionWrite(r, w.outcome)
      [] w.kind = "fail"          -> FailureWrite(r, w.outcome)
      [] w.kind = "artifact_fail" -> ArtifactFailureWrite(r)
      [] w.kind = "interrupt"     -> InterruptedWrite(r)
      [] w.kind = "succeed"       -> SuccessWrite(r, w.execution, w.outcome)

Fields == {"lifecycle", "execution", "outcome", "artifact", "rejection"}

\* Redmine answers 2xx and leaves out, without a word, the fields the API user
\* may not set; a PUT then has its effect on the fields that are kept.
ApplySome(r, w, kept) ==
    LET all == Apply(r, w)
    IN  [lifecycle |-> IF "lifecycle" \in kept THEN all.lifecycle ELSE r.lifecycle,
         execution |-> IF "execution" \in kept THEN all.execution ELSE r.execution,
         outcome   |-> IF "outcome" \in kept THEN all.outcome ELSE r.outcome,
         artifact  |-> IF "artifact" \in kept THEN all.artifact ELSE r.artifact,
         rejection |-> IF "rejection" \in kept THEN all.rejection ELSE r.rejection]

-----------------------------------------------------------------------------
(* What each writer requires of the record it reads before its PUT.  None  *)
(* of the finalizers looks at the rejection fields.                        *)

IsPristine(r) == r = Pristine

Active(r) == /\ r.lifecycle = AgentRunning
             /\ r.outcome = Blank
             /\ r.artifact = NoExecution

FailureGuard(r, e)  == Active(r) /\ r.execution = e
ArtifactGuard(r, e) == Active(r) /\ r.execution = e
InterruptedGuard(r) == Active(r) /\ r.execution # NoExecution
RecoveryGuard(r)    == Active(r) /\ r.execution # NoExecution

Allowed(r, w) ==
    CASE w.kind \in {"start", "reject"}          -> IsPristine(r)
      [] w.kind = "fail"                         -> FailureGuard(r, w.execution)
      [] w.kind \in {"artifact_fail", "succeed"} -> ArtifactGuard(r, w.execution)
      [] w.kind = "interrupt"                    -> InterruptedGuard(r)

-----------------------------------------------------------------------------
(* What each writer requires of the record it reads back after its PUT.    *)

\* Slip: the read-back of a start looks at the lifecycle only.
LifecycleReadBack(r, e) == r.lifecycle = AgentRunning

StartReadBack(r, e) == r = StartWrite(e)

RejectionReadBack(r, o) == r.lifecycle = NeedsHuman /\ r.rejection = o

FailureReadBack(r, e, o) ==
    /\ r.execution = e
    /\ r.lifecycle = NeedsHuman
    /\ r.outcome = o
    /\ r.artifact = NoExecution

ArtifactFailureReadBack(r, e) ==
    FailureReadBack(r, e, "artifact_persistence_failed")

InterruptedReadBack(r, e) == FailureReadBack(r, e, "interrupted")

SuccessReadBack(r, e, o) ==
    /\ r.execution = e
    /\ r.lifecycle = ReadyForVerifying
    /\ r.outcome = o
    /\ r.artifact = e

Confirmed(r, w) ==
    CASE w.kind = "start"         -> StartReadBack(r, w.execution)
      [] w.kind = "reject"        -> RejectionReadBack(r, w.outcome)
      [] w.kind = "fail"          -> FailureReadBack(r, w.execution, w.outcome)
      [] w.kind = "artifact_fail" -> ArtifactFailureReadBack(r, w.execution)
      [] w.kind = "interrupt"     -> InterruptedReadBack(r, w.execution)
      [] w.kind = "succeed"       -> SuccessReadBack(r, w.execution, w.outcome)
=============================================================================
