------------------------- MODULE SandboxAttemptProofs -------------------------
(***************************************************************************)
(* Theorems about SandboxAttempt, for any configuration of repositories,   *)
(* any policies, any number of pushes and of disk measurements in flight.  *)
(* The inductive invariant has four parts.  RunInv says which pieces of    *)
(* state are untouched before each stage of the attempt and how the        *)
(* container, the Agent's processes and the two docker commands that kill  *)
(* it depend on one another; it needs none of the others.  SourceInv       *)
(* follows the revision, BoundaryInv the inspections and ResultsInv the    *)
(* durable results.                                                        *)
(***************************************************************************)
EXTENDS SandboxAttempt, FiniteSetTheorems, TLAPS

\* Before there is a handle nothing of it or of a run exists.
Untouched ==
    pc \in Setup \cup {"rejected"} =>
        /\ agent = None /\ exit = None /\ child = None
        /\ abortReason = None /\ kill = None
        /\ armed = {} /\ polls = 0 /\ removal = None /\ ~disposed

\* Nothing is decided before the run is classified.
Undecided ==
    pc \in Setup \cup {"start", "mkdir", "exec", "limit", "changes"} => outcome = None

\* Before the child is spawned there is neither an Agent nor an abort.
NotYetRun ==
    pc \in {"start", "mkdir"} =>
        /\ agent = None /\ exit = None
        /\ abortReason = None /\ kill = None

\* Only an unaborted exit 0 leads to the checks, and to a success.
RanToZero ==
    pc \in {"limit", "changes"} \/ outcome \in Succeeded =>
        exit = "zero" /\ abortReason = None

\* docker kill is asked for by a timeout, and no container runs once it was
\* confirmed.
KilledForTimeout ==
    /\ kill # None <=> abortReason = "execution_timeout"
    /\ kill = "confirmed" => container # "running"

\* The Agent's processes live in the running container, and only an Agent that
\* leaves processes behind has some after its exit.
LivesInContainer ==
    /\ Writing => container = "running"
    /\ agent = "background" => daemons
    /\ exit # None => agent # "alive"

\* A measurement that passed after the Agent ended stays true.
MeasuredLast ==
    ~daemons /\ (pc = "changes" \/ outcome \in Succeeded) => ~overLimit

\* A handler without an error waited for a removal that succeeded.
RemovedBefore ==
    /\ removal = "done" => container = "gone"
    /\ pc \in {"remove_workspace", "returned"} /\ ~threw => removal = "done"
    /\ pc = "returned" => ~threw /\ workspace = "removed"

RunInv == /\ TypeOK /\ Untouched /\ Undecided /\ NotYetRun /\ RanToZero
          /\ KilledForTimeout /\ LivesInContainer /\ MeasuredLast /\ RemovedBefore
          /\ AbortDecides /\ TimeoutStopsAgent

\* Stages of the preparation, and the Agent behind the last of them.
HasRun      == agent # None \/ pc \in {"start", "mkdir"}
HasCreated  == HasRun \/ pc \in {"create", "inspect"}
HasNetwork  == HasCreated \/ pc = "proxy"
HasCheckout == HasNetwork \/ pc \in {"measure", "network"}

\* The checkout is of the one remote configured for the repository.
OnlyRemote ==
    \E i \in DOMAIN access.entries :
        /\ remote = access.entries[i].remote
        /\ \A j \in DOMAIN access.entries :
              access.entries[j].repository = Repository <=> j = i

\* The revision is fixed by the resolution, recorded as it is and checked out.
SourceInv ==
    /\ pc \notin {"resolve", "rejected"} => revision \in Commits
    /\ pc \notin {"resolve", "record", "rejected"} => recorded = revision
    /\ HasCheckout => head = revision /\ OnlyRemote

\* What was inspected matched, and still does unless it was deployed again.
BoundaryInv ==
    /\ HasNetwork /\ "network" \notin redeployed => network = Digest(policy)
    /\ HasCreated /\ "proxy" \notin redeployed => proxy = Digest(policy)
    /\ HasRun => imageFit

\* The durable result is asked for on the way to the disposal, unless the changes
\* of a success could not be collected.
Disposing == pc \in {"remove", "remove_workspace", "returned", "thrown"}

ResultsInv ==
    /\ results \in {0, 1}
    /\ ~Disposing => results = 0
    /\ Disposing /\ (outcome \notin Succeeded \/ ~threw) => results = 1

Inv == RunInv /\ SourceInv /\ BoundaryInv /\ ResultsInv

-----------------------------------------------------------------------------
(* The invariant is inductive.                                             *)

\* The state an attempt begins in satisfies the invariant.
LEMMA RunInvInit == Init => RunInv
<1> SUFFICES ASSUME Init PROVE RunInv
  OBVIOUS
<1> USE DEF SetupInit
<1>1. TypeOK
  <2>1. polls \in 0..MaxPolls
    BY PollBound DEF Init
  <2>2. {overLimit, disposed, threw, daemons} \subseteq BOOLEAN
    BY DEF Init
  <2>3. armed \subseteq {"lifecycle", "disk"}
    BY DEF Init
  <2>4. SetupTypeOK
    BY PushBound DEF Init, SetupTypeOK, Commits, NoCommit, Nowhere
  <2> QED
    BY <2>1, <2>2, <2>3, <2>4 DEF Init, TypeOK, None, Pcs, Setup
<1>2. Untouched /\ Undecided /\ NotYetRun /\ RanToZero /\ KilledForTimeout
  BY DEF Init, Untouched, Undecided, NotYetRun, RanToZero, KilledForTimeout, None,
     Succeeded
<1>3. LivesInContainer /\ MeasuredLast /\ RemovedBefore
  BY DEF Init, LivesInContainer, MeasuredLast, RemovedBefore, Writing, None, Succeeded
<1>4. AbortDecides /\ TimeoutStopsAgent
  BY DEF Init, AbortDecides, TimeoutStopsAgent, None
<1> QED
  BY <1>1, <1>2, <1>3, <1>4 DEF RunInv

\* An enforcement, by either timer, keeps the invariant.
LEMMA EnforceKeepsRun ==
    ASSUME RunInv, SetupTypeOK', UNCHANGED <<host, handler>>, polls' \in 0..MaxPolls,
           NEW reason \in {"lifecycle_limit", "workspace_disk_limit"}, Enforce(reason),
           pc \notin Setup \cup {"rejected"}
    PROVE  RunInv'
<1>1. /\ signal' \in {None, "lifecycle_limit", "workspace_disk_limit", "disposed"}
      /\ armed' \subseteq {"lifecycle", "disk"}
      /\ disposed' = disposed
      /\ exit' = exit
  BY DEF Enforce, RunInv, TypeOK, runner
<1>2. /\ removal' \in {None, "pending", "done", "failed"}
      /\ removal' = "done" <=> removal = "done"
  BY DEF Enforce, RequestRemoval, RunInv, TypeOK, None
<1>3. /\ kill' = kill
      /\ child' \in {None, "alive", "killed", "erred", "closed"}
      /\ \/ abortReason' = abortReason
         \/ /\ pc = "exec"
            /\ abortReason = None
            /\ abortReason' = "sandbox_enforcement"
  BY DEF Enforce, Abort, KillChild, Settled, runner, RunInv, TypeOK, None
<1>4. TypeOK'
  BY <1>1, <1>2, <1>3 DEF RunInv, TypeOK, host, handler, None
<1>5. (Untouched /\ Undecided /\ NotYetRun /\ RanToZero /\ KilledForTimeout)'
  BY <1>1, <1>2, <1>3 DEF RunInv, TypeOK, Untouched, Undecided, NotYetRun,
     RanToZero, KilledForTimeout, host, handler, None, Succeeded
<1>6. (LivesInContainer /\ MeasuredLast /\ RemovedBefore)'
  BY <1>1, <1>2, <1>3 DEF RunInv, LivesInContainer, MeasuredLast, RemovedBefore, Writing,
     host, handler, None
<1>7. (AbortDecides /\ TimeoutStopsAgent)'
  BY <1>1, <1>2, <1>3 DEF RunInv, Undecided, AbortDecides, TimeoutStopsAgent, Writing,
     host, handler, None
<1> QED
  BY <1>4, <1>5, <1>6, <1>7 DEF RunInv

\* The variables of the preparation keep their types.
LEMMA SetupTypeStep == TypeOK /\ [Next]_vars => SetupTypeOK'
<1> SUFFICES ASSUME TypeOK, [Next]_vars PROVE SetupTypeOK'
  OBVIOUS
<1> USE PushBound DEF TypeOK, SetupTypeOK, Commits, NoCommit
<1>1. CASE UNCHANGED <<prepared, results>>
  BY <1>1 DEF prepared
<1>2. CASE ReachSandbox
  <2> USE DEF prepared, FailureResults
  <2>1. CASE ResolveSource
    BY <2>1 DEF ResolveSource
  <2>2. CASE RecordExecution
    BY <2>2 DEF RecordExecution
  <2>3. CASE CheckOut
    BY <2>3 DEF CheckOut, Matches
  <2>4. CASE CreateWorkspace \/ MeasureWorkspace \/ InspectNetwork \/ InspectProxy
               \/ CreateContainer \/ InspectContainer
    BY <2>4 DEF CreateWorkspace, MeasureWorkspace, InspectNetwork, InspectProxy,
       CreateContainer, InspectContainer
  <2>5. CASE FailPreparation
    BY <2>5 DEF FailPreparation
  <2> QED
    BY <1>2, <2>1, <2>2, <2>3, <2>4, <2>5 DEF ReachSandbox, Prepare
<1>3. CASE FinalizeAndDispose
  BY <1>3 DEF FinalizeAndDispose, FailureResults, prepared
<1>4. CASE Push
  BY <1>4 DEF Push, attempt
<1>5. CASE RedeployNetwork
  BY <1>5 DEF RedeployNetwork, attempt
<1>6. CASE RedeployProxy
  BY <1>6 DEF RedeployProxy, attempt
<1> QED
  BY <1>1, <1>2, <1>3, <1>4, <1>5, <1>6 DEF Next, Handler, Operator, Elsewhere, vars

\* A step of the preparation keeps the invariant: there is no run yet.
LEMMA PrepareKeepsRun == RunInv /\ SetupTypeOK' /\ ReachSandbox => RunInv'
<1> SUFFICES ASSUME RunInv, SetupTypeOK', ReachSandbox PROVE RunInv'
  OBVIOUS
<1> DEFINE Steps == /\ pc \in Setup
                    /\ pc' \in Setup \cup {"start", "rejected", "remove_workspace", "thrown"}
                    /\ pc' \in {"remove_workspace", "thrown"} => threw'
                    /\ container' \in {"none", "created", "running", "stopped", "gone"}
                    /\ workspace' \in {"absent", "stray", "present", "removed"}
                    /\ overLimit' \in BOOLEAN
                    /\ threw' \in BOOLEAN
<1>1. Steps
  <2> USE DEF RunInv, TypeOK, prepared, Setup, Fails
  <2>1. CASE ResolveSource \/ RecordExecution \/ CheckOut
    BY <2>1 DEF ResolveSource, RecordExecution, CheckOut
  <2>2. CASE CreateWorkspace \/ MeasureWorkspace \/ InspectNetwork \/ InspectProxy
    BY <2>2 DEF CreateWorkspace, MeasureWorkspace, InspectNetwork, InspectProxy
  <2>3. CASE CreateContainer \/ InspectContainer
    BY <2>3 DEF CreateContainer, InspectContainer
  <2>4. CASE FailPreparation
    BY <2>4 DEF FailPreparation
  <2> QED
    BY <2>1, <2>2, <2>3, <2>4 DEF ReachSandbox, Prepare
<1>2. /\ UNCHANGED <<agent, daemons, disposed, signal, polls, removal, runner, outcome>>
      /\ armed' = IF pc' = "start" THEN {"lifecycle", "disk"} ELSE {}
  BY DEF ReachSandbox
<1>3. outcome = None /\ agent = None /\ removal = None /\ kill = None
  BY <1>1 DEF RunInv, Undecided, Untouched
<1> HIDE DEF Steps
<1>4. TypeOK'
  BY <1>1, <1>2 DEF RunInv, TypeOK, runner, Pcs, Steps
<1>5. (Untouched /\ Undecided /\ NotYetRun)'
  BY <1>1, <1>2, <1>3 DEF RunInv, Untouched, Undecided, NotYetRun, runner, Steps, Setup
<1>6. (RanToZero /\ KilledForTimeout /\ LivesInContainer /\ MeasuredLast)'
  BY <1>1, <1>2, <1>3 DEF RunInv, RanToZero, KilledForTimeout, LivesInContainer,
     MeasuredLast, Writing, Untouched, runner, Steps, Setup, Succeeded, None
<1>7. (RemovedBefore /\ AbortDecides /\ TimeoutStopsAgent)'
  BY <1>1, <1>2, <1>3 DEF RunInv, RemovedBefore, AbortDecides, TimeoutStopsAgent,
     Steps, Setup, None
<1> QED
  BY <1>4, <1>5, <1>6, <1>7 DEF RunInv

\* Every step keeps it: the handler's turns, the timers, and what happens outside.
LEMMA RunInvStep == RunInv /\ [Next]_vars => RunInv'
<1> SUFFICES ASSUME RunInv, [Next]_vars PROVE RunInv'
  OBVIOUS
<1>0. SetupTypeOK'
  BY SetupTypeStep DEF RunInv
<1>21. CASE ReachSandbox
  BY <1>0, <1>21, PrepareKeepsRun
<1> USE <1>0, PollBound
    DEF RunInv, TypeOK, Untouched, Undecided, NotYetRun, RanToZero, KilledForTimeout,
        LivesInContainer, MeasuredLast, RemovedBefore, AbortDecides,
        TimeoutStopsAgent, Writing, None, Succeeded, Failed, Pcs, Setup,
        host, handle, runner, handler
<1>1. CASE StartContainer
  BY <1>1 DEF StartContainer, Report, Observe, Classified
<1>2. CASE SpawnAgent
  BY <1>2 DEF SpawnAgent, Report, Observe, Classified
<1>3. CASE ExecutionTimesOut
  BY <1>3 DEF ExecutionTimesOut, Abort, KillChild, Settled
<1>4. CASE ChildCloses
  BY <1>4 DEF ChildCloses, Ended, AwaitsKill, Observed, Finish, Settled, Observe,
              Classified, Report
<1>5. CASE KillSettles
  BY <1>5 DEF KillSettles, Finish, Settled, Observe, Classified, Report
<1>6. CASE CheckLimit
  BY <1>6 DEF CheckLimit, WithinLimit, Report
<1>7. CASE DetectChanges
  BY <1>7 DEF DetectChanges, Report
<1>8. CASE FinalizeAndDispose
  <2>1. threw' \in BOOLEAN
    BY <1>8 DEF FinalizeAndDispose
  <2> QED
    BY <1>8, <2>1 DEF FinalizeAndDispose, RequestRemoval
<1>9. CASE AwaitRemoval
  <2>1. threw' \in BOOLEAN /\ (~threw' => removal = "done")
    BY <1>9 DEF AwaitRemoval, RemovalAwaited
  <2> QED
    BY <1>9, <2>1 DEF AwaitRemoval
<1>10. CASE RemoveWorkspace
  <2>1. CASE ~threw /\ workspace' = "removed" /\ pc' = "returned" /\ ~threw'
    BY <1>10, <2>1 DEF RemoveWorkspace
  <2>2. CASE pc' = "thrown" /\ threw'
    <3>1. threw' \in BOOLEAN /\ workspace' \in {"absent", "stray", "present", "removed"}
      BY <1>10 DEF RemoveWorkspace
    <3>2. UNCHANGED <<container, agent, daemons, overLimit, handle, runner, outcome>>
      BY <1>10 DEF RemoveWorkspace
    <3> QED
      BY <2>2, <3>1, <3>2
  <2> QED
    BY <1>10, <2>1, <2>2 DEF RemoveWorkspace
<1>11. CASE LifecycleExpires
  BY <1>11, EnforceKeepsRun DEF LifecycleExpires
<1>12. CASE DiskTick
  BY <1>12 DEF DiskTick
<1>13. CASE PollPasses
  BY <1>13 DEF PollPasses
<1>14. CASE PollFails
  <2>1. polls' \in 0..MaxPolls
    BY <1>14 DEF PollFails
  <2> QED
    BY <1>14, <2>1, EnforceKeepsRun DEF PollFails
<1>15. CASE RemovalSettles
  BY <1>15 DEF RemovalSettles
<1>16. CASE KillLands
  BY <1>16 DEF KillLands, Reap
<1>17. CASE RemovalLands
  BY <1>17 DEF RemovalLands, Reap
<1>18. CASE AgentExits
  BY <1>18 DEF AgentExits
<1>19. CASE AgentWrites
  BY <1>19 DEF AgentWrites
<1>20. CASE UNCHANGED vars
  BY <1>20 DEF vars
<1>22. CASE Operator
  BY <1>22 DEF Operator, Elsewhere, Push, RedeployNetwork, RedeployProxy, attempt
<1> QED
  BY <1>1, <1>2, <1>3, <1>4, <1>5, <1>6, <1>7, <1>8, <1>9, <1>10, <1>11, <1>12,
     <1>13, <1>14, <1>15, <1>16, <1>17, <1>18, <1>19, <1>20, <1>21, <1>22
     DEF Next, Handler, Turn, Timers, Outside

-----------------------------------------------------------------------------
(* The revision, the inspections and the durable result.                   *)

\* After the preparation no step goes back to it, and only its last stage leads
\* to an Agent.
LEMMA Course ==
    ASSUME RunInv, [Next]_vars, ~ReachSandbox
    PROVE  /\ pc \in Setup \cup {"rejected"} \/ pc' \in Setup \cup {"rejected"} => pc' = pc
           /\ HasRun' => HasRun
<1> USE DEF RunInv, Untouched, Setup, HasRun, handler, host, runner, None
<1>1. CASE Turn
  BY <1>1 DEF Turn, StartContainer, SpawnAgent, ExecutionTimesOut, ChildCloses,
     KillSettles, CheckLimit, DetectChanges, AwaitRemoval, RemoveWorkspace, Finish,
     Settled, Observe, Report
<1>2. CASE FinalizeAndDispose
  BY <1>2 DEF FinalizeAndDispose
<1>3. CASE Timers \/ Outside
  BY <1>3 DEF Timers, Outside, LifecycleExpires, DiskTick, PollPasses, PollFails,
     RemovalSettles, KillLands, RemovalLands, AgentExits, AgentWrites, Reap, Writing
<1>4. CASE Operator
  BY <1>4 DEF Operator, Elsewhere, Push, RedeployNetwork, RedeployProxy, attempt
<1>5. CASE UNCHANGED vars
  BY <1>5 DEF vars
<1> QED
  BY <1>1, <1>2, <1>3, <1>4, <1>5 DEF Next, Handler

\* Only the preparation and the operator touch what the preparation read.
LEMMA Frame == [Next]_vars /\ ~ReachSandbox /\ ~Operator => UNCHANGED prepared
  BY DEF Next, Handler, FinalizeAndDispose, vars

\* An authorized repository is configured once.
LEMMA AuthorizedIsOnly ==
    ASSUME SetupTypeOK, Authorized, NEW i \in Matches
    PROVE  \A j \in DOMAIN access.entries :
              access.entries[j].repository = Repository <=> j = i
<1>1. PICK raw \in Configurations : access = ParseRepositories(raw)
  BY DEF SetupTypeOK
<1>2. access.entries # <<>> => DOMAIN access.entries = 1..Len(raw.records)
  BY <1>1, ConfigurationsAreLists DEF ParseRepositories
<1>3. IsFiniteSet(Matches)
  <2>1. Matches \subseteq 1..Len(raw.records) \/ Matches = {}
    BY <1>2 DEF Matches
  <2>2. IsFiniteSet(1..Len(raw.records))
    BY <1>1, ConfigurationsAreLists, FS_Interval
  <2> QED
    BY <2>1, <2>2, FS_Subset, FS_EmptySet
<1>4. PICK k : Matches = {k}
  BY <1>3, FS_Singleton DEF Authorized
<1> QED
  BY <1>4 DEF Matches

LEMMA SourceStep == RunInv /\ SourceInv /\ [Next]_vars => SourceInv'
<1> SUFFICES ASSUME RunInv, SourceInv, [Next]_vars PROVE SourceInv'
  OBVIOUS
<1> USE DEF SourceInv, HasCheckout, HasNetwork, HasCreated, HasRun
<1>1. CASE ReachSandbox
  <2>1. pc \in Setup => agent = None /\ agent' = None
    BY <1>1 DEF RunInv, Untouched, ReachSandbox
  <2> USE <2>1 DEF Setup, Fails, prepared
  <2>2. CASE ResolveSource
    BY <2>2 DEF ResolveSource, RunInv, TypeOK, SetupTypeOK
  <2>3. CASE RecordExecution
    BY <2>3 DEF RecordExecution
  <2>4. CASE CheckOut
    <3>1. CASE pc' = "unprepared"
      BY <2>4, <3>1 DEF CheckOut
    <3>2. CASE pc' = "measure"
      <4>1. PICK i \in Matches : remote' = access.entries[i].remote
        BY <2>4, <3>2 DEF CheckOut
      <4>2. Authorized /\ head' = revision /\ access' = access
        BY <2>4, <3>2 DEF CheckOut, HasCredential
      <4>3. OnlyRemote'
        BY <4>1, <4>2, AuthorizedIsOnly DEF RunInv, TypeOK, OnlyRemote, Matches
      <4> QED
        BY <2>4, <3>2, <4>2, <4>3 DEF CheckOut
    <3> QED
      BY <2>4, <3>1, <3>2 DEF CheckOut
  <2>5. CASE CreateWorkspace \/ MeasureWorkspace \/ InspectNetwork \/ InspectProxy
    BY <2>5 DEF CreateWorkspace, MeasureWorkspace, InspectNetwork, InspectProxy, OnlyRemote
  <2>6. CASE CreateContainer
    BY <2>6 DEF CreateContainer, OnlyRemote
  <2>7. CASE InspectContainer
    BY <2>7 DEF InspectContainer, OnlyRemote
  <2>8. CASE FailPreparation
    BY <2>8 DEF FailPreparation, OnlyRemote
  <2> QED
    BY <1>1, <2>2, <2>3, <2>4, <2>5, <2>6, <2>7, <2>8 DEF ReachSandbox, Prepare
<1>2. CASE Operator
  BY <1>2 DEF Operator, Elsewhere, Push, RedeployNetwork, RedeployProxy, attempt, OnlyRemote
<1>3. CASE ~ReachSandbox /\ ~Operator
  BY <1>3, Course, Frame DEF prepared, Setup, OnlyRemote
<1> QED
  BY <1>1, <1>2, <1>3

LEMMA BoundaryStep == RunInv /\ BoundaryInv /\ [Next]_vars => BoundaryInv'
<1> SUFFICES ASSUME RunInv, BoundaryInv, [Next]_vars PROVE BoundaryInv'
  OBVIOUS
<1> USE DEF BoundaryInv, HasNetwork, HasCreated, HasRun
<1>1. CASE ReachSandbox
  <2>1. pc \in Setup => agent = None /\ agent' = None
    BY <1>1 DEF RunInv, Untouched, ReachSandbox
  <2> USE <2>1 DEF Setup, Fails, prepared
  <2>2. CASE ResolveSource \/ RecordExecution \/ CreateWorkspace \/ CheckOut
               \/ MeasureWorkspace
    BY <2>2 DEF ResolveSource, RecordExecution, CreateWorkspace, CheckOut, MeasureWorkspace
  <2>3. CASE InspectNetwork \/ InspectProxy
    BY <2>3 DEF InspectNetwork, InspectProxy
  <2>4. CASE CreateContainer \/ InspectContainer \/ FailPreparation
    BY <2>4 DEF CreateContainer, InspectContainer, FailPreparation
  <2> QED
    BY <1>1, <2>2, <2>3, <2>4 DEF ReachSandbox, Prepare
<1>2. CASE Operator
  BY <1>2 DEF Operator, Elsewhere, Push, RedeployNetwork, RedeployProxy, attempt
<1>3. CASE ~ReachSandbox /\ ~Operator
  BY <1>3, Course, Frame DEF prepared, Setup
<1> QED
  BY <1>1, <1>2, <1>3

LEMMA ResultsStep == RunInv /\ ResultsInv /\ [Next]_vars => ResultsInv'
<1> SUFFICES ASSUME RunInv, ResultsInv, [Next]_vars PROVE ResultsInv'
  OBVIOUS
<1> USE DEF ResultsInv, Disposing
<1>1. CASE ReachSandbox
  <2> USE DEF Fails
  <2>1. CASE ResolveSource \/ RecordExecution \/ CreateWorkspace \/ CheckOut
               \/ MeasureWorkspace
    BY <2>1 DEF ResolveSource, RecordExecution, CreateWorkspace, CheckOut, MeasureWorkspace
  <2>2. CASE InspectNetwork \/ InspectProxy \/ CreateContainer \/ InspectContainer
    BY <2>2 DEF InspectNetwork, InspectProxy, CreateContainer, InspectContainer
  <2>3. CASE FailPreparation
    BY <2>3 DEF FailPreparation, FailureResults, RunInv, Undecided, Setup, Succeeded, None
  <2> QED
    BY <1>1, <2>1, <2>2, <2>3 DEF ReachSandbox, Prepare
<1>2. CASE FinalizeAndDispose
  BY <1>2 DEF FinalizeAndDispose, FailureResults
<1>3. CASE Turn /\ UNCHANGED results
  BY <1>3 DEF Turn, StartContainer, SpawnAgent, ExecutionTimesOut, ChildCloses,
     KillSettles, CheckLimit, DetectChanges, AwaitRemoval, RemoveWorkspace, Finish,
     Settled, Observe, Report, handler
<1>4. CASE (Timers \/ Outside) /\ UNCHANGED results
  BY <1>4 DEF Timers, Outside, LifecycleExpires, DiskTick, PollPasses, PollFails,
     RemovalSettles, KillLands, RemovalLands, AgentExits, AgentWrites, handler
<1>5. CASE Operator
  BY <1>5 DEF Operator, Elsewhere, Push, RedeployNetwork, RedeployProxy, attempt
<1>6. CASE UNCHANGED vars
  BY <1>6 DEF vars, handler
<1> QED
  BY <1>1, <1>2, <1>3, <1>4, <1>5, <1>6 DEF Next, Handler

\* An attempt begins with nothing resolved, inspected or asked for.
LEMMA InvInit == Init => Inv
<1> SUFFICES ASSUME Init PROVE Inv
  OBVIOUS
<1>1. SourceInv /\ BoundaryInv /\ ResultsInv
  BY DEF Init, SetupInit, SourceInv, BoundaryInv, ResultsInv, HasCheckout, HasNetwork,
     HasCreated, HasRun, Disposing
<1> QED
  BY <1>1, RunInvInit DEF Inv

-----------------------------------------------------------------------------
(* Theorems.                                                               *)

\* The invariant holds in every reachable state.
THEOREM Invariant == Spec => []Inv
<1>1. Inv /\ [Next]_vars => Inv'
  BY RunInvStep, SourceStep, BoundaryStep, ResultsStep DEF Inv
<1> QED
  BY <1>1, InvInit, PTL DEF Spec

\* Every variable of the attempt keeps its type.
THEOREM TypeOKHolds == Spec => []TypeOK
<1>1. Inv => TypeOK
  BY DEF Inv, RunInv
<1> QED
  BY <1>1, Invariant, PTL

\* A handler that returns without an error left no container, no process of the
\* Agent and no workspace, however many callers asked for the removal.
THEOREM ReturnedGone == Spec => []ReturnedMeansGone
<1>1. Inv => ReturnedMeansGone
  BY DEF Inv, RunInv, TypeOK, RemovedBefore, LivesInContainer, ReturnedMeansGone
<1> QED
  BY <1>1, Invariant, PTL

\* A heard abort decides the outcome.
THEOREM AbortsDecide == Spec => []AbortDecides
<1>1. Inv => AbortDecides
  BY DEF Inv, RunInv
<1> QED
  BY <1>1, Invariant, PTL

\* A timeout is reported after docker kill, and a confirmed kill left no process.
THEOREM TimeoutStops == Spec => []TimeoutStopsAgent
<1>1. Inv => TimeoutStopsAgent
  BY DEF Inv, RunInv
<1> QED
  BY <1>1, Invariant, PTL

\* A run over its disk limit is not a success if the Agent left no processes.
THEOREM OverLimitFails == Spec => []OverLimitNeverSucceeds
<1>1. Inv => OverLimitNeverSucceeds
  BY DEF Inv, RunInv, MeasuredLast, OverLimitNeverSucceeds
<1> QED
  BY <1>1, Invariant, PTL

\* The Agent finds the commit that was recorded, of the only remote there is.
THEOREM WorksOnTheRecorded == Spec => []AgentWorksOnTheRecorded
<1>1. Inv => AgentWorksOnTheRecorded
  <2> SUFFICES ASSUME Inv, agent # None PROVE AgentWorksOnTheRecorded
    BY DEF AgentWorksOnTheRecorded
  <2>1. pc \notin Setup \cup {"rejected"}
    BY DEF Inv, RunInv, Untouched
  <2>2. head = revision /\ recorded = revision /\ revision \in Commits /\ OnlyRemote
    BY <2>1 DEF Inv, SourceInv, HasCheckout, HasNetwork, HasCreated, HasRun, Setup
  <2>3. revision # NoCommit
    BY <2>2, PushBound DEF Commits, NoCommit
  <2> QED
    BY <2>2, <2>3 DEF AgentWorksOnTheRecorded, OnlyRemote
<1> QED
  BY <1>1, Invariant, PTL

\* An Agent runs behind what was made for the configured policy.
THEOREM ConfinedAsWritten == Spec => []ConfinedAsConfigured
<1>1. Inv => ConfinedAsConfigured
  <2> SUFFICES ASSUME Inv, agent # None PROVE ConfinedAsConfigured
    BY DEF ConfinedAsConfigured
  <2>1. policy["source-repository"].endpoints = <<>>
    BY DEF Inv, RunInv, TypeOK, SetupTypeOK, Accepted, EnforceV04CodexPolicy, Bounded,
           Categories
  <2> QED
    BY <2>1 DEF Inv, BoundaryInv, HasNetwork, HasCreated, HasRun, ConfinedAsConfigured
<1> QED
  BY <1>1, Invariant, PTL

\* No second durable result is asked for, and none without a record.
THEOREM OneResult == Spec => []OneResultPerAttempt
<1>1. Inv => OneResultPerAttempt
  <2> SUFFICES ASSUME Inv PROVE OneResultPerAttempt
    OBVIOUS
  <2>1. Disposing => recorded # NoCommit
    BY PushBound DEF Inv, SourceInv, Disposing, Commits, NoCommit
  <2>2. pc = "returned" => ~threw
    BY DEF Inv, RunInv, RemovedBefore
  <2> QED
    BY <2>1, <2>2 DEF Inv, ResultsInv, Disposing, OneResultPerAttempt
<1> QED
  BY <1>1, Invariant, PTL

\* The outcome and both abort reasons are decided once.
LEMMA DecidedOnceStep ==
    ASSUME RunInv, Next
    PROVE  /\ outcome # None => outcome' = outcome
           /\ abortReason # None => abortReason' = abortReason
           /\ signal # None => signal' = signal
<1>1. outcome # None => outcome' = outcome
  <2> SUFFICES ASSUME outcome # None PROVE outcome' = outcome
    OBVIOUS
  <2>1. pc \notin Setup \cup {"start", "mkdir", "exec", "limit", "changes"}
    BY DEF RunInv, Undecided
  <2>2. CASE Handler
    BY <2>1, <2>2 DEF Handler, ReachSandbox, Turn, StartContainer, SpawnAgent, ExecutionTimesOut,
       ChildCloses, KillSettles, CheckLimit, DetectChanges, FinalizeAndDispose,
       AwaitRemoval, RemoveWorkspace, Finish, Settled, handler
  <2>3. CASE Timers \/ Outside
    BY <2>3 DEF Timers, Outside, LifecycleExpires, DiskTick, PollPasses, PollFails,
       RemovalSettles, KillLands, RemovalLands, AgentExits, AgentWrites, handler
  <2>4. CASE Operator
    BY <2>4 DEF Operator
  <2> QED
    BY <2>2, <2>3, <2>4 DEF Next
<1>2. abortReason # None => abortReason' = abortReason
  BY DEF Next, Handler, ReachSandbox, Operator, Turn, Timers, Outside, StartContainer, SpawnAgent,
     ExecutionTimesOut, ChildCloses, KillSettles, CheckLimit, DetectChanges,
     FinalizeAndDispose, AwaitRemoval, RemoveWorkspace, LifecycleExpires, DiskTick,
     PollPasses, PollFails, Enforce, Abort, KillChild, RemovalSettles, KillLands,
     RemovalLands, AgentExits, AgentWrites, runner
<1>3. signal # None => signal' = signal
  BY DEF Next, Handler, ReachSandbox, Operator, Turn, Timers, Outside, StartContainer, SpawnAgent,
     ExecutionTimesOut, ChildCloses, KillSettles, CheckLimit, DetectChanges,
     FinalizeAndDispose, AwaitRemoval, RemoveWorkspace, LifecycleExpires, DiskTick,
     PollPasses, PollFails, Enforce, RemovalSettles, KillLands, RemovalLands,
     AgentExits, AgentWrites, handle
<1> QED
  BY <1>1, <1>2, <1>3

\* Exactly one classification, whatever order the events come in.
THEOREM DecidedOnceHolds == Spec => DecidedOnce
<1>1. Inv /\ [Next]_vars => [/\ outcome # None => outcome' = outcome
                             /\ abortReason # None => abortReason' = abortReason
                             /\ signal # None => signal' = signal]_vars
  BY DecidedOnceStep DEF Inv
<1> QED
  BY <1>1, Invariant, PTL DEF Spec, DecidedOnce
=============================================================================
