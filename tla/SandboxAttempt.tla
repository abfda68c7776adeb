---------------------------- MODULE SandboxAttempt ----------------------------
(***************************************************************************)
(* One attempt from the resolution of its source until its handler         *)
(* returns.  AttemptSetup has the way to the sandbox handle; here are the  *)
(* handle with its two timers, the one-shot runner that starts the         *)
(* container and spawns the Agent in it, the adapter that classifies how   *)
(* the Agent ended, and the disposal in the handler's finally block.       *)
(* ExecutionLifecycle takes all of this in few steps (ResolveSource,       *)
(* CreateWorkspace, CheckoutSource, CreateSandbox, InvokeAgent, AgentEnds, *)
(* Dispose).                                                               *)
(*                                                                         *)
(* The Controller is one JavaScript thread: an action is one turn of its   *)
(* event loop, up to the next await.  What runs beside it are the Docker   *)
(* daemon, the docker CLI child and the Agent's own processes.             *)
(***************************************************************************)
EXTENDS AttemptSetup

CONSTANT MaxPolls   \* bound on disk measurements in flight at once

ASSUME PollBound == MaxPolls \in Nat

VARIABLES
    \* the host
    agent,          \* processes of the Agent in the container
    daemons,        \* does this Agent leave processes behind when it exits
    \* DockerSandboxHandle
    disposed,       \* #disposed
    signal,         \* why enforcementSignal was aborted
    armed,          \* timers that are set
    polls,          \* disk measurements in flight
    removal,        \* #removalPromise, and #containerRemoved once it is done
    \* DockerCodexOneShotRunner.run
    child,          \* the docker exec child process
    exit,           \* exit status of the Agent's main process
    abortReason,    \* abortReason
    kill,           \* timeoutKillPromise
    \* CodexCliAgentAdapter.runAgent
    outcome         \* the classified result

host    == <<container, agent, daemons, overLimit, workspace>>
handle  == <<disposed, signal, armed, polls, removal>>
runner  == <<child, exit, abortReason, kill>>
handler == <<pc, outcome, threw>>
vars    == <<prepared, host, handle, runner, handler, results>>

None == "none"

Succeeded == {"changes_ready", "no_changes"}
Failed    == {"timeout", "agent_start_failed", "agent_failed"}

\* start: docker start; mkdir: docker exec mkdir; exec: the promise around the
\* child; limit, changes: the checks after exit 0; finalize: the durable result;
\* remove, remove_workspace: the two awaits of dispose().
\* rejected: ended before Agent Running was confirmed.
Pcs == Setup \cup {"start", "mkdir", "exec", "limit", "changes", "finalize", "remove",
                   "remove_workspace", "returned", "thrown", "rejected"}

TypeOK ==
    /\ SetupTypeOK
    /\ container \in {"none", "created", "running", "stopped", "gone"}
    /\ agent \in {None, "alive", "background", "dead"}
    /\ daemons \in BOOLEAN
    /\ overLimit \in BOOLEAN
    /\ workspace \in {"absent", "stray", "present", "removed"}
    /\ disposed \in BOOLEAN
    /\ signal \in {None, "lifecycle_limit", "workspace_disk_limit", "disposed"}
    /\ armed \subseteq {"lifecycle", "disk"}
    /\ polls \in 0..MaxPolls
    /\ removal \in {None, "pending", "done", "failed"}
    /\ child \in {None, "alive", "killed", "erred", "closed"}
    /\ exit \in {None, "zero", "nonzero"}
    /\ abortReason \in {None, "execution_timeout", "sandbox_enforcement"}
    /\ kill \in {None, "pending", "confirmed", "unconfirmed"}
    /\ pc \in Pcs
    /\ outcome \in Succeeded \cup Failed \cup {None}
    /\ threw \in BOOLEAN

Init ==
    /\ SetupInit
    /\ agent = None
    /\ daemons \in BOOLEAN
    /\ disposed = FALSE
    /\ signal = None
    /\ armed = {}
    /\ polls = 0
    /\ removal = None
    /\ child = None
    /\ exit = None
    /\ abortReason = None
    /\ kill = None
    /\ outcome = None

-----------------------------------------------------------------------------
(* Pieces of a turn.                                                       *)

\* runAgent ends in one outcome; its caller goes on to the durable result.
Report(o) == outcome' = o /\ pc' = "finalize" /\ UNCHANGED threw

\* Slip: the runner's word for what it observed is reported as the outcome.
RawObservation(observation) == {observation}

\* How an observation of the runner is classified.  Redaction of the captures
\* may throw, which is agent_failed whatever was observed.
Classified(observation) ==
    {o \in Failed : \/ o = "agent_failed"
                    \/ o = "timeout" /\ observation = "execution_timeout"
                    \/ o = "agent_start_failed" /\ observation \in {"start_failed", "nonzero"}}

Observe(observation) ==
    \/ \E o \in Classified(observation) : Report(o)
    \/ observation = "zero" /\ pc' = "limit" /\ UNCHANGED <<outcome, threw>>

\* The runner's promise is settled once; later events find it settled.
Settled == pc # "exec"

Finish(observation) ==
    IF Settled THEN UNCHANGED handler ELSE Observe(observation)

\* Slip: an exit status that arrives wins over the abort.
StatusWins == IF exit # None THEN exit ELSE abortReason

\* What the child's close event reports.
Observed == IF abortReason # None THEN abortReason
            ELSE IF exit = "zero" THEN "zero" ELSE "nonzero"

\* Slip: enforcement leaves the child to the removal of its container.
LeaveChild(reason) ==
    /\ abortReason' = reason
    /\ IF reason = "execution_timeout"
       THEN kill' = "pending" /\ child' = IF child = "alive" THEN "killed" ELSE child
       ELSE UNCHANGED <<child, kill>>

\* The first abort decides the reason.  It kills the docker CLI, not the Agent;
\* a timeout also asks Docker to kill the container.
KillChild(reason) ==
    /\ abortReason' = reason
    /\ child' = IF child = "alive" THEN "killed" ELSE child
    /\ kill' = IF reason = "execution_timeout" THEN "pending" ELSE kill

Abort(reason) ==
    IF Settled \/ abortReason # None
    THEN UNCHANGED <<child, abortReason, kill>>
    ELSE KillChild(reason)

\* #removeContainer: one docker rm -f for all callers.  A removal that failed is
\* remembered as failed.
RequestRemoval == removal' = IF removal = None THEN "pending" ELSE removal

\* Slip: a caller that finds a removal under way does not wait for it.
FoundIsEnough == removal # None

RemovalAwaited == removal \in {"done", "failed"}

\* #abortAndRemove up to its await.  Aborting the signal runs the runner's
\* listener in the same turn, if it listens by now.
Enforce(reason) ==
    IF disposed THEN UNCHANGED <<disposed, signal, armed, removal, runner>>
    ELSE /\ signal' = IF signal = None THEN reason ELSE signal
         /\ IF signal = None THEN Abort("sandbox_enforcement")
                             ELSE UNCHANGED <<child, abortReason, kill>>
         /\ armed' = {}
         /\ RequestRemoval
         /\ UNCHANGED <<disposed, exit>>

-----------------------------------------------------------------------------
(* The handler: start, run, classify, finalize, dispose.                   *)

\* The handle of the container that passed its inspection sets both timers.
ReachSandbox ==
    /\ Prepare
    /\ armed' = IF pc' = "start" THEN {"lifecycle", "disk"} ELSE {}
    /\ UNCHANGED <<agent, daemons, disposed, signal, polls, removal, runner, outcome>>

\* The credential is missing, or docker start ends.  An error of it may hide a
\* container that started.
StartContainer ==
    /\ pc = "start"
    /\ \/ Report("agent_failed") /\ UNCHANGED container
       \/ container = "created" /\ container' = "running" /\ pc' = "mkdir"
          /\ UNCHANGED <<outcome, threw>>
       \/ /\ container' \in {container, IF container = "created" THEN "running" ELSE container}
          /\ Observe("start_failed")
    /\ UNCHANGED <<agent, daemons, overLimit, workspace, handle, runner>>

\* mkdir ends and, in the same turn, the child is spawned and the runner begins
\* to listen.  A signal aborted before that turn is not noticed.
SpawnAgent ==
    /\ pc = "mkdir"
    /\ \/ /\ container # "created"
          /\ child' = "alive"
          /\ agent' = IF container = "running" THEN "alive" ELSE agent
          /\ pc' = "exec"
          /\ UNCHANGED <<outcome, threw>>
       \/ child' = "erred" /\ Observe("start_failed") /\ UNCHANGED agent
       \/ Observe("start_failed") /\ UNCHANGED <<child, agent>>
    /\ UNCHANGED <<container, daemons, overLimit, workspace, handle, exit, abortReason, kill>>

ExecutionTimesOut ==
    /\ pc = "exec"
    /\ Abort("execution_timeout")
    /\ UNCHANGED <<host, handle, exit, handler>>

\* The docker CLI ends by itself only when the Agent's main process did, or when
\* there was no container to run it in.
Ended == \/ child \in {"killed", "erred"}
         \/ child = "alive" /\ (exit # None \/ agent \in {None, "dead"})

\* Slip: nobody waits for docker kill.
NobodyWaits == FALSE

AwaitsKill == kill = "pending"

ChildCloses ==
    /\ Ended
    /\ child' = "closed"
    /\ IF AwaitsKill THEN UNCHANGED handler ELSE Finish(Observed)
    /\ UNCHANGED <<host, handle, exit, abortReason, kill>>

\* docker kill ends; docker answers a kill of a running container when it is
\* dead.  If the child closed before, this settles the run.
KillSettles ==
    /\ kill = "pending"
    /\ kill' \in IF container = "running" THEN {"unconfirmed"}
                                          ELSE {"confirmed", "unconfirmed"}
    /\ IF child = "closed" THEN Finish("execution_timeout") ELSE UNCHANGED handler
    /\ UNCHANGED <<host, handle, child, exit, abortReason>>

\* A measurement that ends while processes still write may miss what they add.
Writing == agent \in {"alive", "background"}

WithinLimit == ~overLimit \/ Writing

\* Slip: the workspace is not measured again after the run.
SkipLastCheck ==
    /\ pc = "limit"
    /\ pc' = "changes"
    /\ UNCHANGED <<host, handle, runner, outcome, threw>>

CheckLimit ==
    /\ pc = "limit"
    /\ \/ WithinLimit /\ pc' = "changes" /\ UNCHANGED <<outcome, threw>>
       \/ Report("agent_failed")
    /\ UNCHANGED <<host, handle, runner>>

DetectChanges ==
    /\ pc = "changes"
    /\ \E o \in Succeeded \cup {"agent_failed"} : Report(o)
    /\ UNCHANGED <<host, handle, runner>>

\* The result is finalized, or that throws, or the changes of a provisional
\* success cannot be collected and nothing is asked for; either way the finally
\* block starts dispose(), which runs up to the await of the removal.
FinalizeAndDispose ==
    /\ pc = "finalize"
    /\ pc' = "remove"
    /\ \/ threw' \in BOOLEAN /\ results' = results + 1 + FailureResults(threw', TRUE)
       \/ /\ outcome \in Succeeded
          /\ threw' = TRUE
          /\ results' = results + FailureResults(TRUE, TRUE)
    /\ disposed' = TRUE
    /\ armed' = {}
    /\ signal' = IF signal = None THEN "disposed" ELSE signal
    /\ RequestRemoval
    /\ UNCHANGED <<prepared, host, polls, runner, outcome>>

AwaitRemoval ==
    /\ pc = "remove"
    /\ RemovalAwaited
    /\ threw' = (threw \/ removal = "failed")
    /\ pc' = "remove_workspace"
    /\ UNCHANGED <<host, handle, runner, outcome>>

RemoveWorkspace ==
    /\ pc = "remove_workspace"
    /\ \/ /\ workspace' = "removed"
          /\ pc' = (IF threw THEN "thrown" ELSE "returned")
          /\ UNCHANGED threw
       \/ workspace' \in {workspace, "removed"} /\ threw' = TRUE /\ pc' = "thrown"
    /\ UNCHANGED <<container, agent, daemons, overLimit, handle, runner, outcome>>

-----------------------------------------------------------------------------
(* The timers of the sandbox handle.                                       *)

LifecycleExpires ==
    /\ "lifecycle" \in armed
    /\ Enforce("lifecycle_limit")
    /\ UNCHANGED <<host, polls, handler>>

DiskTick ==
    /\ "disk" \in armed
    /\ polls < MaxPolls
    /\ polls' = polls + 1
    /\ UNCHANGED <<host, disposed, signal, armed, removal, runner, handler>>

PollPasses ==
    /\ polls > 0
    /\ WithinLimit
    /\ polls' = polls - 1
    /\ UNCHANGED <<host, disposed, signal, armed, removal, runner, handler>>

\* Over the limit, or an entry vanished while the tree was walked.
PollFails ==
    /\ polls > 0
    /\ polls' = polls - 1
    /\ Enforce("workspace_disk_limit")
    /\ UNCHANGED <<host, handler>>

RemovalSettles ==
    /\ removal = "pending"
    /\ \/ container = "gone" /\ removal' = "done"
       \/ removal' = "failed"
    /\ UNCHANGED <<host, disposed, signal, armed, polls, runner, handler>>

-----------------------------------------------------------------------------
(* Docker and the Agent.                                                   *)

Reap == agent' = IF Writing THEN "dead" ELSE agent

KillLands ==
    /\ kill = "pending"
    /\ container = "running"
    /\ container' = "stopped"
    /\ Reap
    /\ UNCHANGED <<daemons, overLimit, workspace, handle, runner, handler>>

\* docker rm -f kills and then removes; it may get no further than the kill.
RemovalLands ==
    /\ removal = "pending"
    /\ container # "gone"
    /\ \/ container' = "gone"
       \/ container = "running" /\ container' = "stopped"
    /\ Reap
    /\ UNCHANGED <<daemons, overLimit, workspace, handle, runner, handler>>

AgentExits ==
    /\ agent = "alive"
    /\ agent' = IF daemons THEN "background" ELSE "dead"
    /\ exit' \in {"zero", "nonzero"}
    /\ UNCHANGED <<container, daemons, overLimit, workspace, handle, child,
                   abortReason, kill, handler>>

AgentWrites ==
    /\ Writing
    /\ overLimit' = ~overLimit
    /\ UNCHANGED <<container, agent, daemons, workspace, handle, runner, handler>>

-----------------------------------------------------------------------------
Turn == StartContainer \/ SpawnAgent \/ ExecutionTimesOut \/ ChildCloses
          \/ KillSettles \/ CheckLimit \/ DetectChanges \/ AwaitRemoval \/ RemoveWorkspace

Timers == LifecycleExpires \/ DiskTick \/ PollPasses \/ PollFails

Outside == RemovalSettles \/ KillLands \/ RemovalLands \/ AgentExits \/ AgentWrites

Operator ==
    /\ Elsewhere
    /\ UNCHANGED <<agent, daemons, handle, runner, outcome>>

Handler == \/ ReachSandbox
           \/ FinalizeAndDispose
           \/ Turn /\ UNCHANGED <<prepared, results>>

Next == \/ Handler
        \/ (Timers \/ Outside) /\ UNCHANGED <<prepared, results>>
        \/ Operator

\* The event loop runs every callback that is due and the execution timer fires.
\* Every git and docker command is assumed to end: the code gives it no timeout.
\* The Agent need not end.
Fairness == WF_vars(Handler) /\ WF_vars(RemovalSettles /\ UNCHANGED <<prepared, results>>)

Spec == Init /\ [][Next]_vars

FairSpec == Spec /\ Fairness

-----------------------------------------------------------------------------
(* Properties.                                                             *)

\* A handler that returns without an error left nothing on the host, whichever
\* of the lifecycle timer, a disk measurement and dispose() asked for the
\* removal, and however many of them did (sandbox/docker-runtime.ts).
ReturnedMeansGone ==
    pc = "returned" => /\ container = "gone"
                       /\ ~Writing
                       /\ workspace = "removed"

\* Exactly one result classification: the outcome, the reason the runner was
\* aborted for and the reason the signal was aborted for are decided once, in
\* whatever order timers, close, error and docker kill come
\* (agent/codex-cli-adapter.ts).
DecidedOnce ==
    [][/\ outcome # None => outcome' = outcome
       /\ abortReason # None => abortReason' = abortReason
       /\ signal # None => signal' = signal]_vars

\* An abort the runner heard decides the outcome even when the Agent exited
\* first: timeout for the execution timeout, agent_failed for enforcement (or
\* for a failing redaction), never a success; and nothing else is a timeout.
AbortDecides ==
    outcome # None =>
        /\ abortReason = "execution_timeout" => outcome \in {"timeout", "agent_failed"}
        /\ abortReason = "sandbox_enforcement" => outcome = "agent_failed"
        /\ outcome = "timeout" => abortReason = "execution_timeout"

\* A timeout is reported only after docker kill was answered, and when it was
\* confirmed no process of the Agent runs while the result is made durable.
TimeoutStopsAgent ==
    outcome = "timeout" => /\ kill # "pending"
                           /\ kill = "confirmed" => ~Writing

\* When no process outlives the Agent's main one, a run whose workspace is over
\* its limit is never a success, even if it grew between two measurements and
\* the Agent exited before the next one.
OverLimitNeverSucceeds ==
    ~daemons /\ outcome \in Succeeded => ~overLimit

\* What the Agent finds is the commit the durable record names, however often
\* the ref moved between the resolution, the record and the checkout, and it
\* comes from the only remote configured for the repository
\* (repository/git-repository.ts, repository/policy.ts).
AgentWorksOnTheRecorded ==
    agent # None =>
        /\ head = recorded /\ head # NoCommit
        /\ \E i \in DOMAIN access.entries :
              /\ remote = access.entries[i].remote
              /\ \A j \in DOMAIN access.entries :
                    access.entries[j].repository = Repository <=> j = i

\* An Agent runs behind a network and a proxy made for the very policy of the
\* configuration, in a container nothing was added to, and cannot reach a source
\* repository; save what was deployed again once it had been inspected, which
\* nothing looks at a second time (sandbox/docker-runtime.ts).
ConfinedAsConfigured ==
    agent # None =>
        /\ "network" \notin redeployed => network = Digest(policy)
        /\ "proxy" \notin redeployed => proxy = Digest(policy)
        /\ policy["source-repository"].endpoints = <<>>
        /\ imageFit

\* An attempt asks for one durable result and never for a second, wherever it
\* failed: the catch block of the handler knows whether somebody else asked, what
\* was not confirmed as Agent Running gets none, and only a success whose changes
\* could not be collected is left to the next start (sandbox/phase48-4-handler.ts).
OneResultPerAttempt ==
    /\ results <= 1
    /\ pc = "returned" => results = 1
    /\ pc = "thrown" /\ outcome \notin Succeeded => results = 1
    /\ pc = "rejected" \/ recorded = NoCommit => results = 0

\* The handler ends whatever the Agent does, wherever its preparation failed,
\* whichever abort came first and whether or not Docker could remove the
\* container, as long as every git and docker command ends.
AttemptEnds == <>(pc \in {"returned", "thrown", "rejected"})

\* "The workspace is [...] monitored while the sandbox exists" (README.md).
MonitoredWhileItExists ==
    container = "running" /\ ~disposed => "disk" \in armed \/ removal = "pending"
=============================================================================
