---------------------------- MODULE DurableOutcome ----------------------------
(***************************************************************************)
(* What the Agent Runner promises about an Issue, seen from outside: from  *)
(* Redmine, from the bucket, and from whoever pays for Agent runs.         *)
(*                                                                         *)
(* An Issue is open until it is rejected or one execution is started for   *)
(* it.  That execution's Agent runs at most once, its artifact is stored   *)
(* at most once and only after the run, and the execution ends ready for   *)
(* verification (its artifact is in the bucket) or with a human.  It may   *)
(* not end with a human once its artifact was confirmed.                   *)
(***************************************************************************)
CONSTANTS Issues, Executions, NoExecution

VARIABLES
    phase,      \* Issue -> where it stands
    named,      \* Issue -> the execution its record names
    ran,        \* executions whose Agent was invoked
    artifacts,  \* executions whose artifact is in the bucket
    confirmed   \* executions whose artifact was confirmed

vars == <<phase, named, ran, artifacts, confirmed>>

Phases == {"open", "rejected", "running", "ready", "needs_human"}

Init ==
    /\ phase = [i \in Issues |-> "open"]
    /\ named = [i \in Issues |-> NoExecution]
    /\ ran = {}
    /\ artifacts = {}
    /\ confirmed = {}

IsRunning(e) == \E i \in Issues : phase[i] = "running" /\ named[i] = e

Reject(i) ==
    /\ phase[i] = "open"
    /\ phase' = [phase EXCEPT ![i] = "rejected"]
    /\ UNCHANGED <<named, ran, artifacts, confirmed>>

StartExecution(i, e) ==
    /\ phase[i] = "open"
    /\ \A j \in Issues : named[j] # e
    /\ phase' = [phase EXCEPT ![i] = "running"]
    /\ named' = [named EXCEPT ![i] = e]
    /\ UNCHANGED <<ran, artifacts, confirmed>>

RunAgent(e) ==
    /\ IsRunning(e)
    /\ e \notin ran
    /\ ran' = ran \cup {e}
    /\ UNCHANGED <<phase, named, artifacts, confirmed>>

StoreArtifact(e) ==
    /\ IsRunning(e)
    /\ e \in ran
    /\ artifacts' = artifacts \cup {e}
    /\ UNCHANGED <<phase, named, ran, confirmed>>

ConfirmArtifact(e) ==
    /\ IsRunning(e)
    /\ e \in artifacts
    /\ confirmed' = confirmed \cup {e}
    /\ UNCHANGED <<phase, named, ran, artifacts>>

Succeed(i) ==
    /\ phase[i] = "running"
    /\ named[i] \in artifacts
    /\ phase' = [phase EXCEPT ![i] = "ready"]
    /\ UNCHANGED <<named, ran, artifacts, confirmed>>

GiveUp(i) ==
    /\ phase[i] = "running"
    /\ named[i] \notin confirmed
    /\ phase' = [phase EXCEPT ![i] = "needs_human"]
    /\ UNCHANGED <<named, ran, artifacts, confirmed>>

Next ==
    \/ \E i \in Issues : Reject(i) \/ Succeed(i) \/ GiveUp(i)
    \/ \E i \in Issues, e \in Executions : StartExecution(i, e)
    \/ \E e \in Executions : RunAgent(e) \/ StoreArtifact(e) \/ ConfirmArtifact(e)

Spec == Init /\ [][Next]_vars
=============================================================================
