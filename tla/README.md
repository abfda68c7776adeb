# The Agent Runner in TLA+

TLA+ models of the Agent Runner (`src/src/`): a single controller process that
takes Issues a human approved in Redmine, runs a coding Agent once for each in a
throw-away container, stores the result in S3 and writes the outcome back to
Redmine. TLC checks the models on small instances; TLAPS proves the theorems for
every value of the constants.

Contents: [the system](#1-the-system) ·
[the modules](#2-the-modules-and-the-code-they-model) ·
[the runs](#3-the-runs) · [the proofs](#4-the-proofs) ·
[what the models say about the code](#5-what-the-models-say-about-the-code) ·
[what is not modelled](#6-what-is-not-modelled) · [the plan](#7-the-plan)

## 1. The system

One process, by design (`controller/runtime.ts:15-20`), one worker, nothing in it
is concurrent except the timers of the sandbox. Redmine is the only durable
authority: the process keeps no state of its own between runs.

```
  people ── approve / withdraw ──▶ Redmine ◀── GET, one PUT, GET ── Controller
                                                                     │   │   │
                       S3 bucket ◀── PutObject (If-None-Match), Head ┘   │   │
                       git repository ◀── resolve, checkout ─────────────┘   │
                       Docker: container, Agent ◀── create/start/exec/kill/rm┘
```

### Components, their state and operations

| Component (source) | State | Operations | What makes it correct |
|---|---|---|---|
| Durable execution record (`redmine/*writer*.ts`, `*finalizer*.ts`, `durable-state-guard.ts`) | fourteen custom fields of an Issue, no version | six writers, each: read, check, one PUT, exact read-back | terminal records are final; one execution per Issue; a rejection and an execution never mix |
| Poll cycle (`controller/controller.ts`, `redmine/adapters.ts`) | the list of candidates, an in-memory lock | list, re-fetch, skip, reject, hand over | at most one candidate crosses the line per cycle; a skipped one does not block the others |
| Preparation (`execution/preparation.ts`, `repository/phase48-2-handler.ts`) | execution ID | resolve source, formal gate, allocate, start write | an ID only after every gate; an ID names one Issue |
| Attempt (`sandbox/phase48-4-handler.ts`, `workspace.ts`, `docker-runtime.ts`, `repository/git-repository.ts`) | source revision, workspace, container, two timers, abort signal | resolve, check out, inspect, isolate, monitor, dispose | the Agent works on the recorded commit, confined as configured; one durable result; nothing outlives a handler that returned |
| Repository and network policy (`repository/policy.ts`, `sandbox/network-policy.ts`) | the parsed configuration | parse, authorize, digest, compare | an ambiguous configuration authorizes nothing; a network made for another policy is refused |
| Agent adapter (`agent/codex-cli-adapter.ts`) | child process, abort reason, kill promise | start, spawn, time out, abort, classify | exactly one result, decided by the first abort |
| Artifact pipeline (`artifact/*.ts`, `development/change-set.ts`) | captures, object in the bucket | collect, build, PutObject, HeadObject, recover | what is stored is all that git said; Ready means the artifact is there; a confirmed artifact is never discarded |
| Startup recovery (`recovery/*.ts`) | candidates, seen, failures | clean up, query, finalize each, report | nothing is running when polling begins; one failure does not hide the others |
| Redmine REST client (`redmine/rest-client.ts`) | none | bounded queries, timed requests | an answer over its limit is an error, never a truncated answer |
| Handoff and fingerprint (`agent-brief/*.ts`) | none; reads the approval fields, the Issue and the canonical branch | parse, bind, project, hash, compare | what is accepted was approved for the same requirements; only an edit makes an approval stale |
| Limits, redaction, other configuration, harness | none | pure functions and wiring | see section 6 |

### What is hard here

* **Writes without versions.** Every writer checks the record and then sends one
  PUT. The response may be lost, the PUT may be applied after its client timed out,
  or after the process died. There is no retry in the process: the next start
  reconciles what Redmine says.
* **Two durable stores.** The artifact is confirmed in S3 before the success is
  written to Redmine; a crash in between must end as a success.
* **Crashes at any await.** A container with a running Agent, a workspace, and a
  record in Agent Running survive the process.
* **One attempt, many clocks.** Execution timeout, lifecycle timer, disk
  measurements, `docker kill`, `docker rm -f` and the Agent's own exit race.
* **Partial writes.** Redmine answers 2xx and silently leaves out the fields the API
  user may not set.
* **Calls without a timeout.** git, docker and S3 may keep the one worker waiting for
  ever; only Redmine's requests and the Agent's run are bounded by a timer.
* **People.** Approvals are withdrawn and Issues are moved while they are read, a
  source ref moves between its resolution and the checkout, the network or the proxy
  is deployed again after its inspection.

`PROJECT.json` lists each hazard at its line with the properties that cover it.

## 2. The modules and the code they model

| Module | Models | Extends |
|---|---|---|
| `RedmineRecord` | the record; guard, PUT (whole or in part) and read-back of the six writers | – |
| `ExecutionLifecycle` | controller, Redmine, S3, host: from start to terminal record, with crashes | `RedmineRecord` |
| `DurableOutcome` | abstract: what an Issue's life looks like from outside | – |
| `AttemptSetup` | the two policies; one attempt from the resolution of its source to its sandbox handle | – |
| `SandboxAttempt` | the rest of the attempt: handle, runner, adapter, disposal, Docker, Agent | `AttemptSetup` |
| `StartupRecovery` | one start: queries, loop, diagnostics, moved Issues | – |
| `OrphanCleanup` | the host across restarts: the cleanup's loops against late docker commands | – |
| `CandidateScan` | the poll cycles of `run()`: listing, scan limit, lock, abort, people's edits | – |
| `ArtifactPipeline` | one artifact: git's output, captures, document, S3 by status, recovery | – |
| `RequirementsBinding` | one Issue: edits, Briefs, approval, gates, fingerprint, byte budget | – |
| `ExecutionLifecycleProofs`, `SandboxAttemptProofs`, `StartupRecoveryProofs`, `OrphanCleanupProofs`, `CandidateScanProofs`, `ArtifactPipelineProofs`, `RequirementsBindingProofs` | theorems | their module and `TLAPS` |
| `LifecycleRecordProofs` | more theorems about `ExecutionLifecycle` | `ExecutionLifecycleProofs` |
| `MCExecutionLifecycle`, `MCSandboxAttempt`, `MCStartupRecovery`, `MCCandidateScan`, `MCArtifactPipeline`, `MCRequirementsBinding` | instances for TLC (symmetry, sequences, configurations, texts) | their module |

`ExecutionLifecycle` is the whole with every part in a few steps; the other
modules each open some of those steps up: `StartupRecovery` its listing and loop of a
start, `OrphanCleanup` its cleanup and what its attempts leave on the host,
`CandidateScan` its listing and skipping, `RequirementsBinding` its formal gate,
`AttemptSetup` its resolution, workspace, checkout and sandbox, `SandboxAttempt` its
Agent run, `ArtifactPipeline` its storing and recovering.

A definition whose comment begins with "Slip:" is not part of a specification: it
is the form the definition below it would have with a plausible mistake in the
code, kept to see that a property notices it.

### RedmineRecord and ExecutionLifecycle

The fourteen fields are five: fields that every writer writes together are one
(`execution` stands for the ID and the seven fields fixed with it, `outcome` for
outcome and finish time, `rejection` for its three fields). `Allowed` is what a
writer requires of the record it reads, `Apply` what its PUT does, `Confirmed`
what it requires of the read-back; each is the code of one writer. The finalizers
do not look at the rejection fields, and the model does not either. `ApplySome` is a
PUT of which Redmine keeps some fields and answers 2xx all the same; fields of one
group are kept or dropped together.

`pc` is where the one process is: each label is an await. An action goes from one
await to the next, with every local change on the way. `serving` tells startup
from polling, because the same writers serve both: during startup an error is
collected (`Collect`), while polling it propagates through the handler's `finally`
(`Throw`, `Dispose`) and ends the process (`Exit`). What the code wraps in a
`finally` is a transition to `dispose`; what it does not wrap is a transition to
`down`.

A failed call costs one of `MaxFaults`. `WriterPut` has the outcomes of a
PUT: applied and answered; applied and the answer lost; not applied; and, with
`DelayedWrites`, neither yet (`lateWrites`). Whatever is applied, at once or late, may
lack any of the `Droppable` fields (`Keeps`); a PUT of which a field was dropped and
which is answered costs a fault as well. `PutObject` has the same outcomes;
`If-None-Match: *` makes it idempotent, and a conflict or an ambiguous answer goes
on to HeadObject as in `isRecoverablePersistenceError`. SIGTERM only ends the loop
between cycles: it is a `Crash` taken at `poll`. A diagnostic sink that fails
during startup is in `StartupRecovery`.

`DurableOutcome` says what is promised: an Issue is open, then rejected or
running, then ready or with a human; its Agent runs at most once; a confirmed
artifact is never thrown away. `KeepsThePromise` is the refinement: `phase` is read
off the record, `named` is its execution, and `ran`, `artifacts`, `confirmed` are
`started`, `stored`, `verified`.

### AttemptSetup

The way to the sandbox is sequential; what makes it hard is outside. A push moves
the ref (`Push`) between `resolveExactSource`, the start write and the checkout, and
an operator deploys the network or the proxy again (`RedeployNetwork`,
`RedeployProxy`) between their inspections, `docker create` and `docker start`. Pushes
after the checkout and deployments outside that window are left out: nobody reads the
ref any more, and a deployment before the inspection is one of the initial states.

`ParseRepositories` is the whole of a configuration's validation: identities are
trimmed there and nowhere else, a repeated identity makes the configuration invalid,
and an invalid one is not an error of the start. `Authorized` is asked again before
each access with the credential. `Accepted` is what a network policy has to be for the
process to start, `Digest` what the labels of the network and the proxy are compared
with: categories and sets of endpoints, so that the order does not count. The shape of
a URL, a ref or a variable's name is one flag (`wellFormed`) or the set `Unbounded`.

Each step may fail, with what its failure leaves on the host: a directory whose mode
could not be set (`"stray"`), a container that an error of `docker create` hides, one
whose inspection failed and whose removal may have failed too. Every failure goes
through the catch block of `sandbox/phase48-4-handler.ts` (`FailPreparation`,
`FailureResults`), which asks for a durable result only if no sandbox was created.

### SandboxAttempt

Node runs one callback at a time: an action is one callback or the code between
two awaits. `pc` is what the handler awaits, `signal` the enforcement signal,
`armed` the two timers, `removal` the shared promise of `docker rm -f`
(a failed one is remembered, as in `#removalPromise`), `kill` the promise of
`docker kill`, `child` the docker CLI. Docker and the Agent are separate actors:
a command lands at some point and is answered at another, and killing the CLI
does not kill the Agent. `SpawnAgent` begins to listen to a signal that may have
been aborted before; that abort is not heard, as `addEventListener` on an aborted
signal is not. `daemons` says whether this Agent leaves processes behind.
A disk measurement that runs while the Agent writes may pass or fail whatever the
limit says; one that ends when nothing writes tells the truth.

### StartupRecovery

`ExecutionLifecycle` lists the Agent Running records in one step; here each
project is one bounded query and people move Issues in between. A record is only
where it stands (`lifecycle`), and finalizing it succeeds, fails before the write,
or fails after it. Diagnostics are in a set: what the properties ask is which were
recorded. The sink may fail at any of them, and each place has the code's own
consequence: inside the cleanup's `try` it becomes a cleanup failure, inside the
loop's `try` a reconciliation failure, in a `catch` it ends `reconcile()`.
`total_count` is taken to be in every answer, as it is in Redmine's; the code also
accepts an answer without it.

### OrphanCleanup

`docker` and `git` are child processes: they outlive the process that spawned them,
and a command may land when its client is gone. `late` holds such commands;
`Lands` and `Refuses` are what the daemon does with them. `Errs` is a client that
exits with an error: the command was refused, or carried out, or not, or is late.
`pc` goes through `cleanup()` container by container and workspace by workspace,
then through attempts, of which only the commands they send and their error paths
are here. A handler that throws ends the process (`HandlerThrows`), as in
`ExecutionLifecycle`; `Start` brings it back. `docker create` may succeed late, after
its workspace was removed; the daemon refuses that today, the model does not rely on
it. An entry with a workspace's name that is no directory (`Lookalikes`) stops every
start, as in the code.

### CandidateScan

A candidate is a pair of a project's place in the list and an Issue, because an
Issue that moves can be listed twice. A query answers with all matches or with the
lowest IDs that fit in what is left of the limit, as `sort=id:asc` and `limit` ask;
an answer that does not satisfy the query, a failed request and a diagnostic sink
that fails all end `run()` (`Stop`), with the locks released by `finally`. The check
for more candidates than the limit never fires on such answers. `record` is
`pristine`, `stuck` (the lifecycle is empty, another field is not: listed, and passed
over in every cycle) or `used`. An approved Issue's way to a rejection or an
execution is one step (`Process`), which may throw before or after its write.

### ArtifactPipeline

Text is a sequence of bytes, because the limits are in bytes and cut where they
fall: "h" "t" are the two bytes of one character, "x" belongs to no UTF-8 text, and
`Decoded` is `toString("utf8")` and back, with U+FFFD for what is no character.
`Captured` is `appendToCapture`; `AppendPatchCapture` is the chain a git call's output
goes through: its own capture, decoded, appended to the capture of the patch, with
the marker byte that keeps a truncation known. The workspace is a map from paths to
what became of them; `Scribble` is a process the Agent left behind, between any two
git calls. git itself is outside the code: it prints the diffs of a list of paths, or
fails, or refuses a file that is gone.

A document is a manifest and a patch, and a checksum is what it is computed from, so
that two bodies have the same checksum if they are the same. S3 answers by status
(`MapAwsS3Error` is the client's mapping), with every status it may answer while the
request did, did not or does not yet land (`request` outlives its client). `bucket` is
how the bucket is set up: with encryption and without versions or not (`baseline`),
and whether an absent key answers 404 or, without permission to list, 403. `Recovers`
is the whole verification of the recovery: what HeadObject said, the parsed body, its
patch against the manifest, the identity of the record, and an artifact built anew.
`Tamper` is someone with more rights than the Controller: it leaves nothing, the
artifact of another execution, a damaged one, or no artifact at all. That
verification means that after any of these nothing false is recovered; a forger who
writes a consistent document of this execution is not distinguished by the code, and
not in the model.

### RequirementsBinding

The fingerprint is a hash of a bounded projection of the Issue, and the model's is
what the hash is computed from. The projection is the code's: trim, redact, cut at a
byte limit with an ellipsis of three bytes, the newest journals with notes, the
lowest relations and children, the marks of what was redacted and truncated, then the
byte budget, which gives up notes, children, relations, field values and the
description in that order (`Sacrifices`). The limits are scaled down; an ellipsis and
a character of two bytes keep their width. Left out of the projection: `updated_on`,
which the hash excludes, and the digits of the counters. The name of project, tracker
and category are one `name` that counts for the room it takes and is not hashed; an
empty subject stands for a child that does not exist. An approval field that does not
parse is `Malformed`, whatever is wrong with it.

People edit the Issue, the approval fields (`EditApproval`) and the canonical branch
(`RewriteBranch`) between any two awaits of the Runner; `git ls-tree` names the blob at
a path at one moment, `git show` reads the blob it was given later.

## 3. The runs

| Run | Instance | Checks |
|---|---|---|
| `lifecycle` | 2 Issues, 5 IDs, 3 faults, no late or partial writes | `TypeOK`, `NoAttemptOutlivesCleanup`, `ReadyIsGrounded`, `RejectedNeverStarted`, `VerifiedIsNeverDiscarded`, `IdleMeansNothingRunning`, `TerminalIsFinal`, `KeepsThePromise` |
| `late_writes` | 2 Issues, 3 IDs, 2 faults, late writes, droppable lifecycle, execution and artifact | `OneAgentPerIssue`, `RanIsNamed`, `ReferenceIsDurable` |
| `lifecycle_live` | 2 Issues, 3 IDs, 1 fault, fair, calls without a timeout may hang | `RunningIsFinalized`, `ApprovedIsConsumed` |
| `sandbox` | 6 repository configurations, 5 policies, 2 deployments, 1 push, 2 measurements at once, fair | `TypeOK`, `ReturnedMeansGone`, `AbortDecides`, `TimeoutStopsAgent`, `OverLimitNeverSucceeds`, `AgentWorksOnTheRecorded`, `ConfinedAsConfigured`, `OneResultPerAttempt`, `AttemptEnds` |
| `sandbox_monitor` | 1 measurement | finds `MonitoredWhileItExists` violated (section 5) |
| `startup` | 3 Issues, 2 projects, limit 2, 2 moves | `TypeOK`, `PollingFindsNothingRunning`, `FailureStopsNobodyElse`, `PollingHidesNoFailure` |
| `startup_report` | 1 Issue | finds `InterruptionReportIsTrue` violated (section 5) |
| `cleanup` | 3 attempts, 1 stranger, 1 lookalike, 3 faults or crashes | `TypeOK`, `OnlyTheCurrentLives`, `CleanupSparesTheUsed` |
| `scan` | 2 Issues, 2 projects, limit 2, 3 edits, fair | `TypeOK`, `IdleSawEverything`, `ReadyIsServed`, `AbortIsHeeded` |
| `artifact` | 2 paths, limits of 3 and 4 bytes, 1 scribble, 2 faults | `TypeOK`, `ArtifactIsWhatGitSaid`, `VerdictsAreTrue` |
| `artifact_bytes` | 2 paths, bytes that are no UTF-8 | finds `PatchIsExact` violated (section 5) |
| `requirements` | 2 Issues to begin with, 2 revisions, 1 edit, 1 edit of approval or branch | `TypeOK`, `AcceptedIsGrounded`, `StaleMeansEdited`, `LeastIsDropped` |

What each run's verdict means is in `PROJECT.json`, under "about".

**Bounds.** Two Issues are enough for one to be skipped, stuck or recovered while
the other is served, and for an ID or an artifact to reach the wrong one; every
property is about one Issue or a pair. Each crash or failed start write can use up
an ID, so with *n* faults *n* + 2 IDs never run out (`late_writes` has
one fewer: there an Issue whose start was lost twice may find none left, and is then
only rejected). Three faults allow a lost answer,
then a crash, then a failure in the recovery; the deepest scenario we know of (a
success PUT lost, a restart whose recovery fails, a second restart) needs two. In
`late_writes` two faults give one late request and a crash, or two late requests
that race. The droppable fields of `late_writes` are the
three its properties read; dropping the outcome or the rejection changes no field they
look at and only multiplies the states. In `sandbox` two measurements can both fail
while `dispose` waits; a third would find the same promise. One push separates the tip
from the resolved commit, and a second would do nothing else. The six configurations
are the ways to be wrong (missing, empty, another repository, malformed, twice the same
but for blanks) and one that is right; one written policy of five is acceptable, and of
the two deployments one has its digest, with the endpoints in another order.
In `startup` three Issues exceed the limit of two, one Issue can be listed twice, and
two moves take an Issue away and back. In `cleanup` three faults allow an attempt
that crashes with a late command, a cleanup that fails half-way, and a failure of
the attempt after it; three attempts are the one that left something, the one whose
start cleans it up, and one more. In `scan` two Issues reach the
limit of two, in one project or across both; an Issue that moves between the queries is
listed twice and leaves no room for the other, and the third edit can make it ready
again. A third Issue multiplies the states, and the liveness check with them, many times over;
the two safety properties are proved for any number.
In `artifact` two paths give an empty, a single and a joined patch, and one that is in
both of git's lists when a scribble falls between them; with a limit of three bytes the
diffs of one, two and four bytes end within a character, between two, at the limit and
one beyond it, and a body of four is reached by a patch and by a list. Two faults are an
ambiguous answer and a crash, or two of either.
In `requirements` one initial Issue is at the budget, so that an edit takes it over, and
one far over it, so that notes, children, relations, values and the description are
given up one after the other; two revisions are needed to approve one and find the
other at its path.
`lifecycle` and `late_writes` use the symmetry of Issues and of IDs, `startup` that
of Issues; runs with a liveness property use none. Deadlock is checked in the
lifecycle runs; attempts, starts, polling and verdicts end, so elsewhere it is not.

**Late and partial writes.** Three properties hold even when Redmine or S3 apply a
request after its client gave up, and when Redmine keeps only a part of it: one Agent
per Issue, a record that names the execution that ran, and no reference without an
object. The other invariants of `lifecycle` are stated without late writes,
because they are not true with them: a start PUT names all fourteen fields, and one
that is applied after a restart has rejected the Issue sets it back to Agent
Running (`RejectedNeverStarted`, `TerminalIsFinal`); a late failure write can follow
a recovered success (`VerifiedIsNeverDiscarded`). The code cannot exclude this
without a version in the record; the contracts rely on the exact read-back and on
the next start, and so do these runs. With partial writes alone, `TerminalIsFinal`,
`VerifiedIsNeverDiscarded` and `IdleMeansNothingRunning` still hold (section 4); two do
not: a success without its reference is Ready without an artifact
(`ReadyIsGrounded`), and a rejection without its lifecycle is half a rejection
(`RejectedNeverStarted`), passed over by every scan as a start without its lifecycle
is. Each of them ends the process with an error, and no later start repairs it.

**Fairness.** `lifecycle_live` assumes weak fairness of the steps the process has in
its own hands (Node runs it while it is up, and requests to Redmine have a timeout:
`redmine/rest-client.ts:253`) and of `Start` (its operator restarts it). It assumes
nothing of the steps in `Unbounded`: there the process awaits git, docker or S3, and
no such call has a timeout (`sandbox/docker-runtime.ts:38`,
`repository/git-repository.ts:47`, `agent-brief/handoff-binding.ts:285`,
`development/change-set.ts:212`, `artifact/aws-s3-client.ts:31`). The Agent's run is
among them, not for the Agent, which has its execution timeout, but for the docker
commands around it. Such a call may hang: then the one worker waits, and only a
`Crash`, which nothing forces, ends it. `RunningIsFinalized` and `ApprovedIsConsumed`
therefore say that everything is finalized and served, or that one call hangs for ever
(`HangsForEver`); both are false without that exception. What they show is that
nothing else blocks, and that a process ended in the middle of a hang leaves nothing
the next start does not finish.
Faults are finite: without that nothing is ever finalized. Nobody is assumed to approve
anything.

`sandbox` assumes that the handler goes on: due callbacks run and the execution timer
fires, which Node does; and, a plain assumption, that git and the docker commands it
awaits end with or without effect, a `docker rm -f` under way included. The Agent need
not end, no push or deployment need happen. It shows that an enforcement signal that
was not heard still ends the attempt.

`scan` assumes that `run()` goes on while the process is up: that every call it makes
settles is a plain assumption there, whose failure is the subject of `lifecycle_live`.
Nothing is assumed of the people or of the signal.

## 4. The proofs

TLAPS checks every leaf; the only assumptions are the named ones in the modules
(an empty ID is no ID, bounds are natural numbers, the allowed projects are a
sequence, and those named below). The theorems hold for every number of Issues, executions, projects,
measurements, moves and faults.

**ExecutionLifecycleProofs**, with and without late writes, whatever fields Redmine
may drop.
* `TypeOKHolds`. `TypeOK` alone is not inductive: a writer's step needs an Issue in
  hand. `TypeInv` adds `InHand`: which control points hold an Issue, an execution, a
  write.
* `OneAgent` and `RanIsNamedHolds`: `AgentInv` says that a started execution's Issue has
  a record that names an execution (`Marked`), and that between an Issue's start write
  and its Agent's invocation no execution of that Issue has started (`Ahead`). A pristine
  record at the start write gives `Ahead`, the confirmed write gives `Marked`, and no
  PUT, whole or in part, takes the execution out of a record again (`NamedStep`).

**LifecycleRecordProofs**, from `TypeInv` and six more invariants.
* `CleanHost`, without conditions. `HostInv`: what is on the host is the attempt's in
  hand, or an error is on its way out and ends the process, and cleanup leaves nothing.
* `ReferenceHolds`, without conditions. `RefInv`: a success write, in hand or late, is
  about an artifact that is in the bucket and was made for the Issue (`Sound`); the
  bucket forgets nothing and an execution keeps its Issue (`OwnersStay`).
* `TerminalHolds`, `IdleHolds`, `VerifiedHolds` when no request outlives its client.
  `PromptInv`: what a writer read still holds when it sends its PUT, so that a PUT is
  the only step that changes a record and it does so behind its guard (`OnlyPuts`).
  `IdleInv` knows which record may be Agent Running at each control point;
  `VerifiedInv` that a verified execution is the one its record names, so that no
  failure or interruption can be asked for.
* `RejectedHolds` and `ReadyHolds` when also a PUT is applied whole or not at all.
  `GroundInv`: what is in the bucket was made by an Agent, and the result a success
  carries is not written again (`ResultStays`).
* `PromiseKept`, under the same two conditions, is the refinement. The PUT of each writer
  is a decision of `DurableOutcome` (`PutKeepsThePromise`): a rejection `Reject`, a start
  `StartExecution`, a success `Succeed`, a failure or an interruption `GiveUp`. Of the
  other steps, `InvokeAgent`, `PutObject` and `HeadObject` are `RunAgent`,
  `StoreArtifact` and `ConfirmArtifact`, and the rest stutters (`QuietKeepsThePromise`).
  The invariants above say that each decision is open where the code takes it, together
  with `NamesOwn`: a record names an execution that was allocated for its Issue.

**SandboxAttemptProofs**: `TypeOKHolds`, `ReturnedGone`, `AbortsDecide`,
`TimeoutStops`, `OverLimitFails`, `WorksOnTheRecorded`, `ConfinedAsWritten`, `OneResult`
and the action property `DecidedOnceHolds` (which no run repeats), all from
one invariant. It adds what the properties need of the states in between: no
outcome before its classification (`Undecided`), no Agent before the spawn
(`NotYetRun`), no exit 0 observed while an abort or a live Agent is there
(`RanToZero`), a container that was killed has no process (`KilledForTimeout`,
`LivesInContainer`), the limit measured last (`MeasuredLast`), a removal awaited
before the workspace is deleted (`RemovedBefore`); and what each stage of the setup has
established about the record, the checkout and the deployments.

**StartupRecoveryProofs**: `PollingFindsNone`, `FailureStopsNobody`, `PollingIsClean`
and `TypeOKHolds`. The argument for the first: an Issue that
stayed in its project was listed by that project's query (`QueriesList`), what was
listed was visited (`Stages`), what was visited was tried (`VisitsTry`), and what was
tried is final unless a failure was noted, in which case polling does not begin
(`CleanSoFar`).

**OrphanCleanupProofs**: `OnlyCurrentLives`, `OneAgent` (a consequence no run repeats),
`SparesTheUsed` and `TypeOKHolds`. The heart is `Quiet`: an attempt's container does not
run, and no late `docker start` can make it run. At most one attempt is not quiet
(`OneIsLoud`); the cleanup lists it, removes it or fails, and so whoever is served
after a cleanup is alone. A late `docker create` is harmless because a process sends
one command at a time: nobody has sent the `start` (`InOrder`).

**CandidateScanProofs**: `IdleOverlooksNobody` and `TypeOKHolds`,
for every scan limit. What was asked for was listed unless the list is full
(`QueriesList`), whoever was passed over was not ready (`PassedOver`), and a cycle goes
to sleep only over a complete listing that is not full (`Stages`). That the listing
never exceeds the limit uses the library's theorems on cardinality (`PageListed`).

**ArtifactPipelineProofs**: `CaptureKeepsOrTells`, for one `Captured`, any bytes and any
limit; `VerdictsHold`; `TypeOKHolds` and `WhatGitSaidHolds`. The invariant of
`VerdictsHold` says that only the attempt's own artifact is
ever stored or on its way (`StoredIsMade`), that whatever else is under the key is
recognised (another identity, a checksum that is not its patch's, an outcome that is not
its list's), that the process holds what it built (`InHand`), and that what was
confirmed stays unless somebody changes it (`Stays`). `TypeOK` and
`ArtifactIsWhatGitSaid` are proved together, with `Gathered`: between two calls of git,
an untruncated patch is the concatenation of what was heard so far, and what was heard
is of the paths that were listed. That rests on three groups of lemmas: an untruncated
capture holds all of it (`AppendKeepsOrTells`), `FlattenSeq` of one more
sequence is the concatenation with it (`FlattenAppend`), and decoding a text
never makes it shorter, and changes it only when it does not keep its length
(`DecodedKeeps`), by which the build's check of the byte count catches any loss. Git's
diffs are assumed to be bytes of the four kinds the model has, and the paths a sequence.

**RequirementsBindingProofs**: `Grounded`, `TypeOKHolds`, `StaleHolds` and `LeastHolds`.
* The invariant: people move Briefs about on the branch, take them away or put one of
  another Issue there, but write none of this Issue by hand (the Runner would accept it
  if its frontmatter agreed with the approval); so a Brief of this Issue on it was
  generated (`BranchIsKnown`), with the fingerprint of an Issue that could be
  fingerprinted (`Truthful`); `Checked` is what the Runner knows after each of its gates;
  whatever people do, an Issue stays one (`PeopleEdit`).
* `StaleHolds`: Issues with the same `Substance` have the same projection
  (`SameProject`), hence the same fingerprint, and fail together (`SameVerdict`). The
  projection is taken apart into what it selects (`FieldsOf`, `ChildrenOf`,
  `SelectedNotes`) and what it marks as cut; each part reads its texts without the space
  around them (`SameText`), and the newest notes of two Issues are pairwise the same
  (`SameNewest`).
* `LeastHolds` runs the loop of `enforceFinalBudget` for any projection. Up to some turn
  everything was too large, and after it nothing changes (`Stops`); each kind has
  its turns (`StepsAre`); after *b* turns of a phase, *b* items of its kind are gone and
  the rest is as it was (`AfterNotes`, `AfterChildren`, `AfterRelations`,
  `AfterFields`). Wherever it stops is then an `Outcome`, and an outcome is the least
  loss (`OutcomeIsLeast`).

Issues are records of texts over the model's seven characters, of any length and
number of journals (`IssuesHaveText`); the configured ids are finite sets of numbers
(`IdsAreFinite`) and the limits natural numbers (`LimitsAreNatural`). The projection and
its loop were written so that they can be reasoned about: sorting ranks by
`Cardinality`, the loop is a recursive function on the number of turns.

The induction theorems of the library take an operator and cannot be instantiated. Where
a proof needs induction (the loop above, `FlattenSeq`, ranks in a set), it uses
`NatInductionOnSets`: a set of naturals that holds zero and all successors is all
of them, because a least element outside it (`NatLessThanWellFounded`, `WFMin`) would be
the successor of one inside. It is stated in both modules that need it.

Every safety invariant and every action property the runs check is stated by a theorem.
Only model-checked are the liveness properties `AttemptEnds`, `RunningIsFinalized`,
`ApprovedIsConsumed`, `ReadyIsServed` and `AbortIsHeeded`: fairness and ENABLED are out
of the prover's reach. No module has a RECURSIVE operator.

## 5. What the models say about the code

* **An unmonitored sandbox** (`sandbox_monitor`). The first enforcement clears the
  disk interval before `docker rm -f` is confirmed (`sandbox/docker-runtime.ts:263`).
  If the removal fails, the sandbox exists and nothing measures it; the later
  `dispose` awaits the same rejected promise and does not try again. The README says
  the workspace is "monitored while the sandbox exists" (`src/README.md:432-433`).
  The handler still ends with an error (`ReturnedMeansGone` holds), and the next
  start removes the container (`NoAttemptOutlivesCleanup`).
* **A recovered success reported as interrupted** (`startup_report`).
  `reconcile()` reports "finalized as interrupted" for every record its finalizer
  confirmed (`recovery/startup-reconciler.ts:64-66`); since the artifact-aware
  reconciler, that may have been a success. The record is right, the diagnostic is not.
* **A patch that is not UTF-8** (`artifact_bytes`). git prints a text file in another
  encoding as it is; the capture is decoded with `toString("utf8")`
  (`sandbox/resource-policy.ts:43`), so the stored patch has replacement characters, is
  not truncated, and has the byte count it should have. The contract says "The exact
  patch string is preserved." (`src/docs/contracts/phase49-artifact-contract.md:88`). For
  UTF-8 output it is (`ArtifactIsWhatGitSaid`).
* Worth knowing, and stated in the properties: an Issue moved between two project
  queries is missed by that start (`PollingFindsNothingRunning` leaves it out, and
  `IdleMeansNothingRunning` of `lifecycle` assumes nobody moves Issues during a
  start); processes an Agent leaves behind can grow the workspace after its last
  measurement (`OverLimitNeverSucceeds` requires there are none); an approval
  withdrawn after the re-fetch is not noticed; a call to git, docker or S3 that never
  settles blocks the Runner until somebody ends the process (section 3); what is deployed again after its own
  inspection is not looked at a second time (`ConfinedAsConfigured` leaves it out).

## 6. What is not modelled

`PROJECT.json` gives the status of every component. In short:
* Formats: canonical JSON, the digits of checksums, URL building and response
  parsing, git's own formats, prompts, redaction patterns. What they decide is in the
  models as success or failure, or as equality of what they are computed from.
* Formal Issue checks: a choice of their results in `ExecutionLifecycle`. The writers'
  check that an Issue is still in an allowed project: there Issues do not move.
* Error names of the AWS SDK, but for `RequestTimeout`: the others come with a status
  that says the same.
* A second writer of a record between a writer's guard and its PUT. Only one Controller
  runs; whoever else wrote then would be overwritten.
* The text of the rejection diagnostic. The fields are fourteen in the code and five
  groups here, so a PUT of which one field of a group is dropped and another kept is not.
* Time: a timer that is set may expire at any moment. That `setTimeout` turns a delay
  above 2^31-1 ms, which `sandbox/config.ts` accepts, into 1 ms is therefore among the
  behaviours and no property can tell it apart.
* The wording of the candidate diagnostics, and the order of projects beyond their
  place in the list.
* The development walking skeleton and the conformance harness: tools beside the
  running system.

## 7. The plan

Done, in this order, the most important behaviour first: `RedmineRecord`,
`ExecutionLifecycle`, `DurableOutcome` with its refinement, `SandboxAttempt`,
`StartupRecovery`, `CandidateScan`, `OrphanCleanup`, `ArtifactPipeline`,
`RequirementsBinding`, `AttemptSetup`, writes that are applied in part, and proofs about
each of the modules with a specification.

Next modules:
1. An abstract attempt contract that `SandboxAttempt` implements and
   `ExecutionLifecycle` uses in `InvokeAgent`, `AgentEnds` and `Dispose`.
2. The artifact in `ExecutionLifecycle` as an abstraction that `ArtifactPipeline`
   implements.

Next theorems: that each of the modules implements the step of `ExecutionLifecycle` it
opens up; that the projection `enforceFinalBudget` leaves fits its budget whenever
the fixed parts do.
