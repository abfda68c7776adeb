---------------------------- MODULE AttemptSetup ----------------------------
(***************************************************************************)
(* One attempt up to its sandbox handle: the exact source revision is read *)
(* from the configured repository, recorded, and checked out; then the     *)
(* network and the egress proxy an operator deployed are inspected, the    *)
(* container is created and inspected itself.  What can change on the way  *)
(* is outside the process: the ref moves, the network or the proxy is      *)
(* deployed again.  SandboxAttempt goes on from the handle.                *)
(***************************************************************************)
EXTENDS Naturals, FiniteSets, Sequences, Functions

CONSTANTS
    Repository,      \* the identity in the approved handoff
    Configurations,  \* of repositories, as the environment may hold them
    Written,         \* network policies an operator may write
    Unbounded,       \* endpoints that are no credential-free origin: a wildcard, a path
    Deployable,      \* network policies the network and the proxy may be made for
    MaxPushes        \* bound on pushes to the source ref

ASSUME PushBound == MaxPushes \in Nat
ASSUME ConfigurationsAreLists ==
    \A raw \in Configurations : /\ Len(raw.records) \in Nat
                                /\ DOMAIN raw.records = 1..Len(raw.records)

VARIABLES
    \* the configuration of the process, and the operator's deployment
    access,          \* the parsed repository configuration
    credential,      \* is the read-only credential in the environment
    policy,          \* the network policy of the configuration
    network, proxy,  \* the digest each is labelled with
    redeployed,      \* those deployed again after they were inspected
    imageFit,        \* does the pinned image add no mount and no credential
    \* the repository and the attempt's copy of it
    tip,             \* commit the source ref names
    revision,        \* sourceRevision, fixed by the resolution
    recorded,        \* source_revision of the durable record
    head, remote,    \* what the workspace has checked out, and where from
    \* the handler
    container, workspace, overLimit,
    pc,              \* what it awaits
    threw,           \* an error is on its way out of it
    results          \* durable results it asked for

prepared == <<access, credential, policy, network, proxy, redeployed, imageFit,
              tip, revision, recorded, head, remote>>
attempt  == <<container, workspace, overLimit, pc, threw, results>>

NoCommit == 0
Commits  == 1..(MaxPushes + 1)
Nowhere  == "nowhere"

-----------------------------------------------------------------------------
(* The configuration of repositories.                                      *)

\* An identity loses the blanks around it; the identity of a handoff does not.
Trim(identity) == identity.name

\* Five parts: an identity, an https URL without credentials, a ref that is no
\* option and no pattern, and the names of two environment variables.
WellFormed(record) == record.wellFormed

\* A missing or malformed list, or one that names a repository twice, is invalid
\* as a whole.  The process starts with it all the same.
ParseRepositories(raw) ==
    LET names == [i \in DOMAIN raw.records |-> Trim(raw.records[i].identity)]
    IN  IF /\ raw.given
           /\ \A i \in DOMAIN raw.records : WellFormed(raw.records[i])
           /\ IsInjective(names)
        THEN [kind    |-> "configured",
              entries |-> [i \in DOMAIN raw.records |->
                              [repository |-> names[i], remote |-> raw.records[i].remote]]]
        ELSE [kind |-> "invalid", entries |-> <<>>]

Matches == {i \in DOMAIN access.entries : access.entries[i].repository = Repository}

Authorized == access.kind = "configured" /\ Cardinality(Matches) = 1

\* The credential is read for an authorized repository only.
HasCredential == Authorized /\ credential

-----------------------------------------------------------------------------
(* The network policy.                                                     *)

Categories == {"agent-provider", "package-registry", "required-runtime-dependency",
               "source-repository", "other-external-endpoint"}

ValidEndpoint(endpoint) == endpoint \notin Unbounded

\* What is denied has no endpoints, and anything else has some, each once.
Bounded(entry) ==
    /\ entry.classification \in {"required", "allowed", "denied"}
    /\ entry.classification = "denied" <=> entry.endpoints = <<>>
    /\ IsInjective(entry.endpoints)
    /\ \A endpoint \in Range(entry.endpoints) : ValidEndpoint(endpoint)

\* The Agent has its provider, and neither the sources nor the rest of the world.
EnforceV04CodexPolicy(written) ==
    /\ written["agent-provider"].classification = "required"
    /\ written["source-repository"].classification = "denied"
    /\ written["other-external-endpoint"].classification = "denied"

\* The process does not start with a policy it does not accept.
Accepted(written) ==
    /\ DOMAIN written = Categories
    /\ \A c \in Categories : Bounded(written[c])
    /\ EnforceV04CodexPolicy(written)

\* A digest stands for the classification of every category and its endpoints in
\* any order.
Digest(written) ==
    [c \in DOMAIN written |-> [classification |-> written[c].classification,
                               endpoints      |-> Range(written[c].endpoints)]]

Labels == {Digest(written) : written \in Deployable}

-----------------------------------------------------------------------------
\* Before the container is started.
Setup == {"resolve", "record", "workspace", "checkout", "measure", "network", "proxy",
          "create", "inspect", "unprepared"}

SetupTypeOK ==
    /\ access \in {ParseRepositories(raw) : raw \in Configurations}
    /\ credential \in BOOLEAN
    /\ policy \in {written \in Written : Accepted(written)}
    /\ {network, proxy} \subseteq Labels
    /\ redeployed \subseteq {"network", "proxy"}
    /\ imageFit \in BOOLEAN
    /\ tip \in Commits
    /\ {revision, recorded, head} \subseteq Commits \cup {NoCommit}
    /\ remote \in {Nowhere} \cup {access.entries[i].remote : i \in DOMAIN access.entries}
    /\ results \in Nat

SetupInit ==
    /\ access \in {ParseRepositories(raw) : raw \in Configurations}
    /\ credential \in BOOLEAN
    /\ policy \in {written \in Written : Accepted(written)}
    /\ network \in Labels
    /\ proxy \in Labels
    /\ redeployed = {}
    /\ imageFit \in BOOLEAN
    /\ tip = 1
    /\ revision = NoCommit
    /\ recorded = NoCommit
    /\ head = NoCommit
    /\ remote = Nowhere
    /\ container = "none"
    /\ workspace = "absent"
    /\ overLimit = FALSE
    /\ pc = "resolve"
    /\ threw = FALSE
    /\ results = 0

\* Any call of git, the file system or Docker may fail, and the handler goes on
\* in its catch block.
Fails == pc' = "unprepared"

\* resolveExactSource: authorize, read the credential, fetch the ref into a
\* temporary repository, read FETCH_HEAD and remove the repository again.
ResolveSource ==
    /\ pc = "resolve"
    /\ \/ HasCredential /\ revision' = tip /\ pc' = "record"
       \/ pc' = "rejected" /\ UNCHANGED revision
    /\ UNCHANGED <<access, credential, policy, network, proxy, redeployed, imageFit, tip,
                   recorded, head, remote, container, workspace, overLimit, threw, results>>

\* Slip: the ref is read again for the record.
RecordTheTip ==
    /\ pc = "record"
    /\ recorded' = tip
    /\ pc' = "workspace"
    /\ UNCHANGED <<access, credential, policy, network, proxy, redeployed, imageFit, tip,
                   revision, head, remote, container, workspace, overLimit, threw, results>>

\* The preparation confirms Agent Running, or ends the attempt here, perhaps
\* with a record it could not confirm.
RecordExecution ==
    /\ pc = "record"
    /\ \/ recorded' = revision /\ pc' = "workspace"
       \/ recorded' \in {revision, NoCommit} /\ pc' = "rejected"
    /\ UNCHANGED <<access, credential, policy, network, proxy, redeployed, imageFit, tip,
                   revision, head, remote, container, workspace, overLimit, threw, results>>

\* A directory whose mode or path could not be settled is left behind.
CreateWorkspace ==
    /\ pc = "workspace"
    /\ \/ workspace' = "present" /\ pc' = "checkout"
       \/ workspace' \in {"absent", "stray"} /\ Fails
    /\ UNCHANGED <<prepared, container, overLimit, threw, results>>

\* checkout: authorize again, fetch the revision itself and never the ref, detach
\* at it and compare HEAD with it.
CheckOut ==
    /\ pc = "checkout"
    /\ overLimit' \in BOOLEAN
    /\ \/ /\ HasCredential
          /\ \E i \in Matches : remote' = access.entries[i].remote
          /\ head' = revision
          /\ pc' = "measure"
       \/ Fails /\ UNCHANGED <<head, remote>>
    /\ UNCHANGED <<access, credential, policy, network, proxy, redeployed, imageFit, tip,
                   revision, recorded, container, workspace, threw, results>>

\* By the handler and once more by create(); nothing writes in between.
MeasureWorkspace ==
    /\ pc = "measure"
    /\ \/ ~overLimit /\ pc' = "network"
       \/ Fails
    /\ UNCHANGED <<prepared, container, workspace, overLimit, threw, results>>

InspectNetwork ==
    /\ pc = "network"
    /\ \/ network = Digest(policy) /\ pc' = "proxy"
       \/ Fails
    /\ UNCHANGED <<prepared, container, workspace, overLimit, threw, results>>

\* Slip: the label of the proxy is not compared.
AnyProxy ==
    /\ pc = "proxy"
    /\ \/ pc' = "create"
       \/ Fails
    /\ UNCHANGED <<prepared, container, workspace, overLimit, threw, results>>

InspectProxy ==
    /\ pc = "proxy"
    /\ \/ proxy = Digest(policy) /\ pc' = "create"
       \/ Fails
    /\ UNCHANGED <<prepared, container, workspace, overLimit, threw, results>>

\* An error of docker create may hide a container that nobody will remove.
CreateContainer ==
    /\ pc = "create"
    /\ \/ container' = "created" /\ pc' = "inspect"
       \/ container' \in {"none", "created"} /\ Fails
    /\ UNCHANGED <<prepared, workspace, overLimit, threw, results>>

\* A container that does not pass is removed, if that works.
InspectContainer ==
    /\ pc = "inspect"
    /\ \/ imageFit /\ pc' = "start" /\ UNCHANGED container
       \/ container' \in {"created", "gone"} /\ Fails
    /\ UNCHANGED <<prepared, workspace, overLimit, threw, results>>

\* Slip: the catch block does not ask whether there was a sandbox.
WhateverFailed(failed, sandboxCreated) == IF failed THEN 1 ELSE 0

\* Results the catch block asks for: agent_start_failed, unless there was a
\* sandbox and with it a handler that asked for one before.
FailureResults(failed, sandboxCreated) == IF failed /\ ~sandboxCreated THEN 1 ELSE 0

\* The failure is finalized and, whether or not that worked, thrown again; the
\* finally block has a workspace to remove or nothing.
FailPreparation ==
    /\ pc = "unprepared"
    /\ results' = results + FailureResults(TRUE, FALSE)
    /\ threw' = TRUE
    /\ pc' = IF workspace = "present" THEN "remove_workspace" ELSE "thrown"
    /\ UNCHANGED <<prepared, container, workspace, overLimit>>

Prepare == ResolveSource \/ RecordExecution \/ CreateWorkspace \/ CheckOut
             \/ MeasureWorkspace \/ InspectNetwork \/ InspectProxy \/ CreateContainer
             \/ InspectContainer \/ FailPreparation

-----------------------------------------------------------------------------
(* Outside the process.                                                    *)

\* Nobody reads the ref after the checkout.
Push ==
    /\ pc \in {"resolve", "record", "workspace", "checkout"}
    /\ tip <= MaxPushes
    /\ tip' = tip + 1
    /\ UNCHANGED <<access, credential, policy, network, proxy, redeployed, imageFit,
                   revision, recorded, head, remote, attempt>>

\* A deployment before the inspection is one of the initial states; one after
\* docker start has the effect of one right before it.
RedeployNetwork ==
    /\ pc \in {"proxy", "create", "inspect", "start"}
    /\ network' \in Labels
    /\ redeployed' = redeployed \cup {"network"}
    /\ UNCHANGED <<access, credential, policy, proxy, imageFit, tip, revision, recorded,
                   head, remote, attempt>>

RedeployProxy ==
    /\ pc \in {"create", "inspect", "start"}
    /\ proxy' \in Labels
    /\ redeployed' = redeployed \cup {"proxy"}
    /\ UNCHANGED <<access, credential, policy, network, imageFit, tip, revision, recorded,
                   head, remote, attempt>>

Elsewhere == Push \/ RedeployNetwork \/ RedeployProxy
=============================================================================
