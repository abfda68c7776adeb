---------------------------- MODULE OrphanCleanup ----------------------------
(***************************************************************************)
(* The host across restarts: the DockerWorkspaceOrphanCleaner of a start,  *)
(* loop by loop, against what earlier processes left there.  A docker      *)
(* client outlives the process that spawned it, and the daemon may carry   *)
(* out a command after its client is gone; such a command is late.         *)
(*                                                                         *)
(* Attempts are here to leave things behind: what they send to Docker, in  *)
(* which order, and what they do when it fails.  SandboxAttempt has their  *)
(* timers, ExecutionLifecycle their records.                               *)
(***************************************************************************)
EXTENDS Naturals, FiniteSets

CONSTANTS
    Attempts,       \* execution IDs, one attempt each
    None,           \* no attempt
    Strangers,      \* containers without the label; entries of the workspace
                    \* root without a workspace's name
    Lookalikes,     \* entries with a workspace's name that are no directories
    MaxFaults       \* bound on failures and crashes

ASSUME NoneIsNoAttempt == None \notin Attempts
ASSUME EntriesDiffer   == /\ Attempts \cap (Strangers \cup Lookalikes) = {}
                          /\ Strangers \cap Lookalikes = {}
ASSUME FaultBound      == MaxFaults \in Nat

VARIABLES
    \* Docker and the file system
    container,      \* attempt -> its container: none yet, created, running, gone
    agent,          \* attempts with a live process of the Agent
    entries,        \* what is in the workspace root
    late,           \* commands whose client is gone
    \* the process
    pc,             \* what it awaits
    listing,        \* what a loop of the cleanup has left to remove
    current,        \* the attempt being made
    failing,        \* its handler will throw
    begun,          \* IDs used up
    faults

docker == <<container, agent, late>>
vars   == <<docker, entries, pc, listing, current, failing, begun, faults>>

Commands == {"create", "start", "exec", "kill", "rm"}

Cleaning == {"ps", "rm", "readdir", "rmdir"}
Serving  == {"poll", "mkdtemp", "checkout", "create", "inspect", "bestrm", "start", "exec",
             "run", "dispose", "rmws"}

TypeOK ==
    /\ container \in [Attempts -> {"none", "created", "running", "gone"}]
    /\ agent \subseteq {i \in Attempts : container[i] = "running"}
    /\ entries \subseteq Attempts \cup Strangers \cup Lookalikes
    /\ late \subseteq Commands \X Attempts
    /\ pc \in {"down"} \cup Cleaning \cup Serving
    /\ listing \subseteq IF pc = "rm" THEN Attempts ELSE Attempts \cup Strangers \cup Lookalikes
    /\ current \in Attempts \cup {None}
    /\ failing \in BOOLEAN
    /\ begun \subseteq Attempts
    /\ faults \in 0..MaxFaults

Init ==
    /\ container = [i \in Attempts |-> "none"]
    /\ agent = {}
    /\ entries \in {Strangers, Strangers \cup Lookalikes}
    /\ late = {}
    /\ pc = "down"
    /\ listing = {}
    /\ current = None
    /\ failing = FALSE
    /\ begun = {}
    /\ faults = 0

Fault == faults < MaxFaults /\ faults' = faults + 1

-----------------------------------------------------------------------------
(* The Docker daemon.                                                      *)

Becomes(i, state) == container' = [container EXCEPT ![i] = state]

Lands(c, i) ==
    \/ c = "create" /\ container[i] = "none" /\ Becomes(i, "created") /\ UNCHANGED agent
    \/ c = "start" /\ container[i] = "created" /\ Becomes(i, "running") /\ UNCHANGED agent
    \/ c = "exec" /\ container[i] = "running" /\ agent' = agent \cup {i} /\ UNCHANGED container
    \/ c = "kill" /\ container[i] = "running" /\ Becomes(i, "created") /\ agent' = agent \ {i}
    \/ /\ c = "rm"
       /\ container[i] \in {"created", "running"}
       /\ Becomes(i, "gone")
       /\ agent' = agent \ {i}

Refuses(c, i) ==
    \/ c = "create" /\ container[i] # "none"
    \/ c = "start" /\ container[i] # "created"
    \/ c \in {"exec", "kill"} /\ container[i] # "running"
    \/ c = "rm" /\ container[i] \notin {"created", "running"}

\* The daemon carries out, or refuses, a command nobody waits for.
LateCommand ==
    \E c \in Commands, i \in Attempts :
        /\ <<c, i>> \in late
        /\ late' = late \ {<<c, i>>}
        /\ \/ Lands(c, i)
           \/ UNCHANGED <<container, agent>>
        /\ UNCHANGED <<entries, pc, listing, current, failing, begun, faults>>

AgentExits(i) ==
    /\ i \in agent
    /\ agent' = agent \ {i}
    /\ UNCHANGED <<container, late, entries, pc, listing, current, failing, begun, faults>>

\* A docker client that exits with 0, and one that does not: the command was
\* refused, or was carried out all the same, or not, or is late.
Succeeds(c, i) == Lands(c, i) /\ UNCHANGED <<late, faults>>

Errs(c, i) ==
    \/ Refuses(c, i) /\ UNCHANGED <<container, agent, late, faults>>
    \/ Fault /\ Lands(c, i) /\ UNCHANGED late
    \/ Fault /\ UNCHANGED <<container, agent>> /\ late' \in {late, late \cup {<<c, i>>}}

-----------------------------------------------------------------------------
(* Start and cleanup().                                                    *)

Start ==
    /\ pc = "down"
    /\ pc' = "ps"
    /\ UNCHANGED <<docker, entries, listing, current, failing, begun, faults>>

\* The process ends: it has thrown, or it was killed.
Down ==
    /\ pc' = "down"
    /\ listing' = {}
    /\ current' = None
    /\ failing' = FALSE

\* Slip: docker ps without the label.
AnyContainer == {i \in Attempts : container[i] \in {"created", "running"}} \cup Strangers

\* Slip: docker ps without -a.
RunningOnly == {i \in Attempts : container[i] = "running"}

OwnedContainers == {i \in Attempts : container[i] \in {"created", "running"}}

ListContainers ==
    /\ pc = "ps"
    /\ \/ listing' = OwnedContainers /\ pc' = "rm" /\ UNCHANGED <<current, failing, faults>>
       \/ Fault /\ Down
    /\ UNCHANGED <<docker, entries, begun>>

\* Slip: a container that could not be removed is left to the next start.
TryTheNext(i) ==
    /\ listing' = listing \ {i}
    /\ UNCHANGED <<pc, current, failing>>

RemovalFailed(i) == Down

\* docker rm -f of a container that is gone by now fails, or not, as it likes.
RemoveContainer(i) ==
    /\ pc = "rm"
    /\ i \in listing
    /\ \/ /\ Succeeds("rm", i) \/ (Refuses("rm", i) /\ UNCHANGED <<container, agent, late, faults>>)
          /\ listing' = listing \ {i}
          /\ UNCHANGED <<pc, current, failing>>
       \/ Errs("rm", i) /\ RemovalFailed(i)
    /\ UNCHANGED <<entries, begun>>

ContainersDone ==
    /\ pc = "rm"
    /\ listing = {}
    /\ pc' = "readdir"
    /\ UNCHANGED <<docker, entries, listing, current, failing, begun, faults>>

OwnedEntries == entries \ Strangers

ListWorkspaces ==
    /\ pc = "readdir"
    /\ \/ listing' = OwnedEntries /\ pc' = "rmdir" /\ UNCHANGED <<current, failing, faults>>
       \/ Fault /\ Down
    /\ UNCHANGED <<docker, entries, begun>>

\* In the order of readdir, which is any.
RemoveWorkspace(e) ==
    /\ pc = "rmdir"
    /\ e \in listing
    /\ \/ /\ e \notin Lookalikes
          /\ entries' = entries \ {e}
          /\ listing' = listing \ {e}
          /\ UNCHANGED <<pc, current, failing, faults>>
       \/ e \in Lookalikes /\ Down /\ UNCHANGED <<entries, faults>>
       \/ Fault /\ Down /\ UNCHANGED entries
    /\ UNCHANGED <<docker, begun>>

\* What follows until polling is in StartupRecovery.
CleanupDone ==
    /\ pc = "rmdir"
    /\ listing = {}
    /\ pc' = "poll"
    /\ UNCHANGED <<docker, entries, listing, current, failing, begun, faults>>

-----------------------------------------------------------------------------
(* An attempt.                                                             *)

Goes(next, fails) ==
    /\ pc' = next
    /\ failing' = fails
    /\ UNCHANGED <<listing, current>>

Begin(i) ==
    /\ pc = "poll"
    /\ i \notin begun
    /\ begun' = begun \cup {i}
    /\ current' = i
    /\ pc' = "mkdtemp"
    /\ UNCHANGED <<docker, entries, listing, failing, faults>>

\* When it fails half-way the handler knows of no workspace.
CreateWorkspace ==
    /\ pc = "mkdtemp"
    /\ \/ entries' = entries \cup {current} /\ Goes("checkout", FALSE) /\ UNCHANGED faults
       \/ Fault /\ entries' \in {entries, entries \cup {current}} /\ Down
    /\ UNCHANGED <<docker, begun>>

\* Checkout, disk limit and egress boundary.
Checkout ==
    /\ pc = "checkout"
    /\ \/ Goes("create", FALSE) /\ UNCHANGED faults
       \/ Fault /\ Goes("rmws", TRUE)
    /\ UNCHANGED <<docker, entries, begun>>

CreateContainer ==
    /\ pc = "create"
    /\ \/ Succeeds("create", current) /\ Goes("inspect", FALSE)
       \/ Errs("create", current) /\ Goes("rmws", TRUE)
    /\ UNCHANGED <<entries, begun>>

\* Without a handle the container is removed here; with one, what throws before
\* the runner begins is disposed of.
VerifyIsolation ==
    /\ pc = "inspect"
    /\ \/ Goes("start", FALSE) /\ UNCHANGED faults
       \/ Fault /\ (Goes("bestrm", TRUE) \/ Goes("dispose", TRUE))
    /\ UNCHANGED <<docker, entries, begun>>

BestEffortRemove ==
    /\ pc = "bestrm"
    /\ Succeeds("rm", current) \/ Errs("rm", current)
    /\ Goes("rmws", TRUE)
    /\ UNCHANGED <<entries, begun>>

\* What is done with a result may throw.
ResultIsIn == \E thrown \in BOOLEAN : Goes("dispose", thrown)

\* An Agent that could not be started is a result, not an error.
StartContainer ==
    /\ pc = "start"
    /\ \/ Succeeds("start", current) /\ Goes("exec", FALSE)
       \/ Errs("start", current) /\ ResultIsIn
    /\ UNCHANGED <<entries, begun>>

SpawnAgent ==
    /\ pc = "exec"
    /\ \/ Succeeds("exec", current) /\ Goes("run", FALSE)
       \/ Errs("exec", current) /\ ResultIsIn
    /\ UNCHANGED <<entries, begun>>

\* The docker client ended, whatever the Agent does; on a timeout docker kill was
\* tried.
RunEnds ==
    /\ pc = "run"
    /\ \/ UNCHANGED <<container, agent, late, faults>>
       \/ Succeeds("kill", current)
       \/ Errs("kill", current)
    /\ ResultIsIn
    /\ UNCHANGED <<entries, begun>>

\* A timer of the handle removes the container under the runner.
Enforce ==
    /\ pc \in {"start", "exec", "run"}
    /\ Lands("rm", current)
    /\ UNCHANGED <<late, entries, pc, listing, current, failing, begun, faults>>

\* A removal that was confirmed before is not repeated; one that fails does not
\* keep the workspace from being removed.
DisposeContainer ==
    /\ pc = "dispose"
    /\ \/ Succeeds("rm", current) /\ Goes("rmws", failing)
       \/ /\ container[current] = "gone"
          /\ Goes("rmws", failing)
          /\ UNCHANGED <<container, agent, late, faults>>
       \/ Errs("rm", current) /\ Goes("rmws", TRUE)
    /\ UNCHANGED <<entries, begun>>

HandlerThrows == Down

DisposeWorkspace ==
    /\ pc = "rmws"
    /\ \/ /\ entries' = entries \ {current}
          /\ IF failing THEN HandlerThrows
             ELSE pc' = "poll" /\ current' = None /\ UNCHANGED <<failing, listing>>
          /\ UNCHANGED faults
       \/ Fault /\ UNCHANGED entries /\ HandlerThrows
    /\ UNCHANGED <<docker, begun>>

\* The command that is awaited, if any, is carried out before, later, or never.
Awaited ==
    IF pc \in {"create", "start", "exec"} THEN {<<pc, current>>}
    ELSE IF pc = "run" THEN {<<"kill", current>>, <<"rm", current>>}
    ELSE IF pc \in {"bestrm", "dispose"} THEN {<<"rm", current>>}
    ELSE IF pc = "rm" THEN {"rm"} \X listing
    ELSE {}

Crash ==
    /\ pc # "down"
    /\ Fault
    /\ Down
    /\ \/ UNCHANGED late
       \/ \E c \in Awaited : late' = late \cup {c}
    /\ UNCHANGED <<container, agent, entries, begun>>

Cleanup == ListContainers \/ ContainersDone \/ ListWorkspaces \/ CleanupDone
             \/ \E i \in Attempts : RemoveContainer(i)
             \/ \E e \in Attempts \cup Strangers \cup Lookalikes : RemoveWorkspace(e)

Attempt == CreateWorkspace \/ Checkout \/ CreateContainer \/ VerifyIsolation \/ BestEffortRemove
             \/ StartContainer \/ SpawnAgent \/ RunEnds \/ DisposeContainer \/ DisposeWorkspace

Next == Start \/ Cleanup \/ Attempt \/ Enforce \/ LateCommand \/ Crash
          \/ \E i \in Attempts : Begin(i) \/ AgentExits(i)

Spec == Init /\ [][Next]_vars

-----------------------------------------------------------------------------
(* Properties.                                                             *)

\* Once a start has cleaned up, only the attempt being made has a running
\* container or a workspace, whatever was sent to Docker before and lands only now
\* (recovery/orphan-cleanup.ts, sandbox/phase48-4-handler.ts).
OnlyTheCurrentLives ==
    pc \in Serving =>
        \A i \in Attempts \ {current} : container[i] # "running" /\ i \notin entries

\* No two Agents run at a time, in one process or across its restarts: the Runner
\* is one worker (controller/runtime.ts).
OneAgentAtATime == \A i, j \in agent : i = j

\* The cleanup takes no workspace from an Agent that still runs in it.
CleanupSparesTheUsed == [][(pc \in Cleaning) => (agent \cap entries) \subseteq entries']_vars
=============================================================================
