------------------------- MODULE OrphanCleanupProofs -------------------------
(***************************************************************************)
(* Theorems about OrphanCleanup, for any attempts, strangers, lookalikes   *)
(* and any number of faults.  That only the current attempt lives is not   *)
(* inductive: a late docker start could revive another one.  The invariant *)
(* says of every other attempt that it is quiet: its container does not    *)
(* run and no late command can make it run.                                *)
(***************************************************************************)
EXTENDS OrphanCleanup, TLAPS

USE NoneIsNoAttempt, EntriesDiffer, FaultBound

\* The container does not run, and nothing that is late will start it.
Quiet(i) ==
    /\ container[i] # "running"
    /\ container[i] = "created" => <<"start", i>> \notin late

\* A container is created once, and started after that.
InOrder(i) ==
    /\ <<"create", i>> \in late => container[i] = "none"
    /\ <<"start", i>> \in late => container[i] # "none"

\* Nothing was sent to Docker for this attempt yet.
Fresh(i) == container[i] = "none" /\ <<"create", i>> \notin late

Before == {"mkdtemp", "checkout", "create"}
After  == {"inspect", "bestrm", "start", "exec", "run", "dispose"}

Commanded ==
    \A i \in Attempts :
        /\ InOrder(i)
        /\ i \notin begun => Fresh(i)

\* The attempt in hand.
InHand ==
    /\ pc \in Serving \ {"poll"} => current \in begun
    /\ pc \notin Serving \ {"poll"} => current = None
    /\ pc \in Before => Fresh(current)
    /\ pc \in After => container[current] # "none"
    /\ pc = "rmws" /\ ~failing => container[current] = "gone"

\* At most one attempt is not quiet; after docker ps it is listed, after the
\* removals it can only be the one in hand.
OneIsLoud ==
    /\ \A i, j \in Attempts : Quiet(i) \/ Quiet(j) \/ i = j
    /\ pc = "rm" => \A i \in Attempts : Quiet(i) \/ i \in listing
    /\ pc \in {"readdir", "rmdir"} \cup Serving => \A i \in Attempts : Quiet(i) \/ i = current

\* Workspaces: the last loop has them listed, then only the current one is there.
Workspaces ==
    /\ pc = "rmdir" => entries \ Strangers \subseteq listing /\ listing \cap Strangers = {}
    /\ pc \in Serving => entries \cap Attempts \subseteq {current}

Inv == TypeOK /\ Commanded /\ InHand /\ OneIsLoud /\ Workspaces

\* A step that changes nothing in Docker about other attempts.
Touches(i) ==
    \A j \in Attempts \ {i} :
        /\ container'[j] = container[j]
        /\ \A c \in Commands : <<c, j>> \in late' => <<c, j>> \in late

-----------------------------------------------------------------------------
\* What lands, lands on one attempt.
LEMMA LandsEffect ==
    ASSUME TypeOK, NEW c \in Commands, NEW i \in Attempts, Lands(c, i)
    PROVE  /\ container' \in [Attempts -> {"none", "created", "running", "gone"}]
           /\ agent' \subseteq {j \in Attempts : container'[j] = "running"}
           /\ \A j \in Attempts \ {i} : container'[j] = container[j]
           /\ container'[i] # "none"
           /\ container[i] = "none" => c = "create" /\ container'[i] = "created"
           /\ container[i] = "gone" => container'[i] = "gone"
           /\ container'[i] = "running" => container[i] = "running" \/ c = "start"
           /\ container'[i] = "created" /\ container[i] = "none" => c = "create"
           /\ c = "rm" => container'[i] = "gone"
<1>1. /\ container \in [Attempts -> {"none", "created", "running", "gone"}]
      /\ agent \subseteq {j \in Attempts : container[j] = "running"}
  BY DEF TypeOK
<1>2. CASE c = "create" /\ container[i] = "none" /\ Becomes(i, "created") /\ UNCHANGED agent
  BY <1>1, <1>2 DEF Becomes
<1>3. CASE c = "start" /\ container[i] = "created" /\ Becomes(i, "running") /\ UNCHANGED agent
  BY <1>1, <1>3 DEF Becomes
<1>4. CASE /\ c = "exec" /\ container[i] = "running"
           /\ agent' = agent \cup {i} /\ UNCHANGED container
  BY <1>1, <1>4
<1>5. CASE c = "kill" /\ container[i] = "running" /\ Becomes(i, "created") /\ agent' = agent \ {i}
  BY <1>1, <1>5 DEF Becomes
<1>6. CASE /\ c = "rm" /\ container[i] \in {"created", "running"}
           /\ Becomes(i, "gone") /\ agent' = agent \ {i}
  BY <1>1, <1>6 DEF Becomes
<1> QED
  BY <1>2, <1>3, <1>4, <1>5, <1>6 DEF Lands

\* What a client's command does, whether it is told that it succeeded or not.
LEMMA CommandEffect ==
    ASSUME TypeOK, NEW c \in Commands, NEW i \in Attempts, Succeeds(c, i) \/ Errs(c, i)
    PROVE  /\ container' \in [Attempts -> {"none", "created", "running", "gone"}]
           /\ agent' \subseteq {j \in Attempts : container'[j] = "running"}
           /\ late' \subseteq Commands \X Attempts
           /\ faults' \in 0..MaxFaults
           /\ Touches(i)
           /\ container[i] # "none" => container'[i] # "none"
           /\ Succeeds(c, i) => container'[i] # "none"
           /\ Succeeds(c, i) /\ c = "rm" => container'[i] = "gone"
           /\ \A d \in Commands : <<d, i>> \in late' =>
                  <<d, i>> \in late \/ (d = c /\ container'[i] = container[i])
<1>1. /\ container \in [Attempts -> {"none", "created", "running", "gone"}]
      /\ agent \subseteq {j \in Attempts : container[j] = "running"}
      /\ late \subseteq Commands \X Attempts
      /\ faults \in 0..MaxFaults
  BY DEF TypeOK
<1>2. Fault => faults' \in 0..MaxFaults
  BY <1>1 DEF Fault
<1>3. CASE Lands(c, i) /\ UNCHANGED late /\ faults' \in 0..MaxFaults
  BY <1>1, <1>3, LandsEffect DEF Touches
<1>4. CASE /\ UNCHANGED <<container, agent>> /\ late' \in {late, late \cup {<<c, i>>}}
           /\ faults' \in 0..MaxFaults /\ ~Succeeds(c, i)
  <2>1. late' \subseteq Commands \X Attempts
    BY <1>1, <1>4
  <2>2. \A d \in Commands, j \in Attempts : <<d, j>> \in late' =>
            <<d, j>> \in late \/ (d = c /\ j = i)
    BY <1>4
  <2> QED
    BY <1>1, <1>4, <2>1, <2>2 DEF Touches
<1>5. CASE Succeeds(c, i)
  BY <1>1, <1>3, <1>5 DEF Succeeds
<1>6. CASE ~Succeeds(c, i)
  <2>1. Errs(c, i)
    BY <1>6
  <2> QED
    BY <1>1, <1>2, <1>3, <1>4, <1>6, <2>1 DEF Errs
<1> QED
  BY <1>5, <1>6

\* Attempts that are not touched stay as quiet, as fresh and in the same order.
LEMMA OthersKept ==
    ASSUME NEW i \in Attempts, Touches(i), NEW j \in Attempts \ {i}
    PROVE  /\ Quiet(j) => Quiet(j)'
           /\ InOrder(j) => InOrder(j)'
           /\ Fresh(j) => Fresh(j)'
BY DEF Touches, Quiet, InOrder, Fresh, Commands

\* What a step of the attempt in hand has to leave behind.
LEMMA HandStep ==
    ASSUME Inv, TypeOK', pc \in Serving \ {"poll"},
           NEW i \in Attempts, i = current, Touches(i), UNCHANGED begun,
           entries' \cap Attempts \subseteq (entries \cap Attempts) \cup {i},
           InOrder(i)',
           \/ /\ pc' \in Serving \ {"poll"} /\ current' = i
              /\ pc' \in Before => Fresh(i)'
              /\ pc' \in After => container'[i] # "none"
              /\ pc' = "rmws" /\ ~failing' => container'[i] = "gone"
           \/ pc' = "down" /\ current' = None
           \/ pc' = "poll" /\ current' = None /\ Quiet(i)' /\ i \notin entries'
    PROVE  Inv'
<1>1. i \in begun
  BY DEF Inv, InHand
<1>2. \A j \in Attempts \ {i} : /\ Quiet(j) => Quiet(j)'
                                /\ InOrder(j) => InOrder(j)'
                                /\ Fresh(j) => Fresh(j)'
  BY OthersKept
<1>3. Commanded'
  BY <1>1, <1>2 DEF Inv, Commanded
<1>4. InHand'
  BY <1>1 DEF InHand, Before, After, Serving, Fresh
<1>5. \A j \in Attempts \ {i} : Quiet(j)'
  BY <1>2 DEF Inv, OneIsLoud
<1>6. OneIsLoud'
  BY <1>5 DEF OneIsLoud, Serving, Quiet
<1>7. entries \cap Attempts \subseteq {i}
  BY DEF Inv, Workspaces
<1>8. Workspaces'
  BY <1>7 DEF Workspaces, Serving
<1> QED
  BY <1>3, <1>4, <1>6, <1>8 DEF Inv

-----------------------------------------------------------------------------
(* The steps of an attempt.                                                *)

LEMMA CreateContainerKeeps == ASSUME Inv, CreateContainer PROVE Inv'
<1>1. pc = "create" /\ UNCHANGED <<entries, begun>>
  BY DEF CreateContainer
<1>2. PICK i \in Attempts : i = current
  BY <1>1 DEF Inv, InHand, Serving, TypeOK
<1>3. "create" \in Commands
  BY DEF Commands
<1>4. Succeeds("create", i) \/ Errs("create", i)
  BY <1>2 DEF CreateContainer
<1>5. /\ container' \in [Attempts -> {"none", "created", "running", "gone"}]
      /\ agent' \subseteq {j \in Attempts : container'[j] = "running"}
      /\ late' \subseteq Commands \X Attempts
      /\ faults' \in 0..MaxFaults
      /\ Touches(i)
      /\ container[i] # "none" => container'[i] # "none"
      /\ Succeeds("create", i) => container'[i] # "none"
      /\ \A d \in Commands : <<d, i>> \in late' =>
             <<d, i>> \in late \/ (d = "create" /\ container'[i] = container[i])
  BY <1>3, <1>4, CommandEffect DEF Inv
<1>6. /\ current' = i /\ failing' \in BOOLEAN /\ UNCHANGED listing
      /\ \/ Succeeds("create", i) /\ pc' = "inspect"
         \/ pc' = "rmws" /\ failing' = TRUE
  BY <1>2 DEF CreateContainer, Goes, ResultIsIn
<1>7. TypeOK'
  BY <1>1, <1>2, <1>5, <1>6 DEF Inv, TypeOK, Serving
<1>8. InOrder(i)'
  BY <1>1, <1>2, <1>5 DEF Inv, InHand, Commanded, InOrder, Fresh, Before, Commands
<1>9. /\ pc' \in Serving \ {"poll"}
      /\ pc' \notin Before
      /\ pc' \in After => container'[i] # "none"
      /\ ~(pc' = "rmws" /\ ~failing')
  BY <1>1, <1>2, <1>5, <1>6 DEF Inv, InHand, Before, After, Serving
<1> QED
  BY <1>1, <1>2, <1>5, <1>6, <1>7, <1>8, <1>9, HandStep DEF Serving

LEMMA BestEffortRemoveKeeps == ASSUME Inv, BestEffortRemove PROVE Inv'
<1>1. pc = "bestrm" /\ UNCHANGED <<entries, begun>>
  BY DEF BestEffortRemove
<1>2. PICK i \in Attempts : i = current
  BY <1>1 DEF Inv, InHand, Serving, TypeOK
<1>3. "rm" \in Commands
  BY DEF Commands
<1>4. Succeeds("rm", i) \/ Errs("rm", i)
  BY <1>2 DEF BestEffortRemove
<1>5. /\ container' \in [Attempts -> {"none", "created", "running", "gone"}]
      /\ agent' \subseteq {j \in Attempts : container'[j] = "running"}
      /\ late' \subseteq Commands \X Attempts
      /\ faults' \in 0..MaxFaults
      /\ Touches(i)
      /\ container[i] # "none" => container'[i] # "none"
      /\ Succeeds("rm", i) => container'[i] # "none"
      /\ \A d \in Commands : <<d, i>> \in late' =>
             <<d, i>> \in late \/ (d = "rm" /\ container'[i] = container[i])
  BY <1>3, <1>4, CommandEffect DEF Inv
<1>6. /\ current' = i /\ failing' \in BOOLEAN /\ UNCHANGED listing
      /\ pc' = "rmws" /\ failing' = TRUE
  BY <1>2 DEF BestEffortRemove, Goes, ResultIsIn
<1>7. TypeOK'
  BY <1>1, <1>2, <1>5, <1>6 DEF Inv, TypeOK, Serving
<1>8. InOrder(i)'
  BY <1>1, <1>2, <1>5 DEF Inv, InHand, Commanded, InOrder, Fresh, After, Before, Commands
<1>9. /\ pc' \in Serving \ {"poll"}
      /\ pc' \notin Before
      /\ pc' \in After => container'[i] # "none"
      /\ ~(pc' = "rmws" /\ ~failing')
  BY <1>1, <1>2, <1>5, <1>6 DEF Inv, InHand, Before, After, Serving
<1> QED
  BY <1>1, <1>2, <1>5, <1>6, <1>7, <1>8, <1>9, HandStep DEF Serving

LEMMA StartContainerKeeps == ASSUME Inv, StartContainer PROVE Inv'
<1>1. pc = "start" /\ UNCHANGED <<entries, begun>>
  BY DEF StartContainer
<1>2. PICK i \in Attempts : i = current
  BY <1>1 DEF Inv, InHand, Serving, TypeOK
<1>3. "start" \in Commands
  BY DEF Commands
<1>4. Succeeds("start", i) \/ Errs("start", i)
  BY <1>2 DEF StartContainer
<1>5. /\ container' \in [Attempts -> {"none", "created", "running", "gone"}]
      /\ agent' \subseteq {j \in Attempts : container'[j] = "running"}
      /\ late' \subseteq Commands \X Attempts
      /\ faults' \in 0..MaxFaults
      /\ Touches(i)
      /\ container[i] # "none" => container'[i] # "none"
      /\ Succeeds("start", i) => container'[i] # "none"
      /\ \A d \in Commands : <<d, i>> \in late' =>
             <<d, i>> \in late \/ (d = "start" /\ container'[i] = container[i])
  BY <1>3, <1>4, CommandEffect DEF Inv
<1>6. /\ current' = i /\ failing' \in BOOLEAN /\ UNCHANGED listing
      /\ pc' \in {"exec", "dispose"}
  BY <1>2 DEF StartContainer, Goes, ResultIsIn
<1>7. TypeOK'
  BY <1>1, <1>2, <1>5, <1>6 DEF Inv, TypeOK, Serving
<1>8. InOrder(i)'
  BY <1>1, <1>2, <1>5 DEF Inv, InHand, Commanded, InOrder, Fresh, After, Before, Commands
<1>9. /\ pc' \in Serving \ {"poll"}
      /\ pc' \notin Before
      /\ pc' \in After => container'[i] # "none"
      /\ ~(pc' = "rmws" /\ ~failing')
  BY <1>1, <1>2, <1>5, <1>6 DEF Inv, InHand, Before, After, Serving
<1> QED
  BY <1>1, <1>2, <1>5, <1>6, <1>7, <1>8, <1>9, HandStep DEF Serving

LEMMA SpawnAgentKeeps == ASSUME Inv, SpawnAgent PROVE Inv'
<1>1. pc = "exec" /\ UNCHANGED <<entries, begun>>
  BY DEF SpawnAgent
<1>2. PICK i \in Attempts : i = current
  BY <1>1 DEF Inv, InHand, Serving, TypeOK
<1>3. "exec" \in Commands
  BY DEF Commands
<1>4. Succeeds("exec", i) \/ Errs("exec", i)
  BY <1>2 DEF SpawnAgent
<1>5. /\ container' \in [Attempts -> {"none", "created", "running", "gone"}]
      /\ agent' \subseteq {j \in Attempts : container'[j] = "running"}
      /\ late' \subseteq Commands \X Attempts
      /\ faults' \in 0..MaxFaults
      /\ Touches(i)
      /\ container[i] # "none" => container'[i] # "none"
      /\ Succeeds("exec", i) => container'[i] # "none"
      /\ \A d \in Commands : <<d, i>> \in late' =>
             <<d, i>> \in late \/ (d = "exec" /\ container'[i] = container[i])
  BY <1>3, <1>4, CommandEffect DEF Inv
<1>6. /\ current' = i /\ failing' \in BOOLEAN /\ UNCHANGED listing
      /\ pc' \in {"run", "dispose"}
  BY <1>2 DEF SpawnAgent, Goes, ResultIsIn
<1>7. TypeOK'
  BY <1>1, <1>2, <1>5, <1>6 DEF Inv, TypeOK, Serving
<1>8. InOrder(i)'
  BY <1>1, <1>2, <1>5 DEF Inv, InHand, Commanded, InOrder, Fresh, After, Before, Commands
<1>9. /\ pc' \in Serving \ {"poll"}
      /\ pc' \notin Before
      /\ pc' \in After => container'[i] # "none"
      /\ ~(pc' = "rmws" /\ ~failing')
  BY <1>1, <1>2, <1>5, <1>6 DEF Inv, InHand, Before, After, Serving
<1> QED
  BY <1>1, <1>2, <1>5, <1>6, <1>7, <1>8, <1>9, HandStep DEF Serving

\* Steps of the attempt that Docker takes no part in.
LEMMA QuietHandStep ==
    ASSUME Inv, TypeOK', pc \in Serving \ {"poll"}, UNCHANGED <<docker, begun>>,
           NEW i \in Attempts, i = current,
           entries' \cap Attempts \subseteq (entries \cap Attempts) \cup {i},
           \/ /\ pc' \in Serving \ {"poll"} /\ current' = i
              /\ pc' \in Before => pc \in Before
              /\ pc' \in After => pc \in After
              /\ pc' = "rmws" /\ ~failing' => container[i] = "gone"
           \/ pc' = "down" /\ current' = None
           \/ pc' = "poll" /\ current' = None /\ container[i] = "gone" /\ i \notin entries'
    PROVE  Inv'
<1>1. Touches(i) /\ UNCHANGED <<container, agent, late>>
  BY DEF Touches, docker
<1>2. InOrder(i)'
  BY <1>1 DEF Inv, Commanded, InOrder
<1>3. pc' \in Before => Fresh(i)'
  BY <1>1 DEF Inv, InHand, Fresh, Before, Serving
<1>4. pc' \in After => container'[i] # "none"
  BY <1>1 DEF Inv, InHand, After, Before, Serving
<1>5. container[i] = "gone" => Quiet(i)'
  BY <1>1 DEF Quiet
<1> QED
  BY <1>1, <1>2, <1>3, <1>4, <1>5, HandStep

LEMMA CreateWorkspaceKeeps == ASSUME Inv, CreateWorkspace PROVE Inv'
<1>1. pc = "mkdtemp" /\ UNCHANGED <<docker, begun>>
  BY DEF CreateWorkspace
<1>2. PICK i \in Attempts : i = current
  BY <1>1 DEF Inv, InHand, Serving, TypeOK
<1>3. /\ entries' \in {entries, entries \cup {i}}
      /\ faults' \in 0..MaxFaults
      /\ \/ pc' = "checkout" /\ current' = i /\ failing' = FALSE /\ UNCHANGED listing
         \/ pc' = "down" /\ current' = None /\ failing' = FALSE /\ listing' = {}
  BY <1>2 DEF CreateWorkspace, Goes, Down, Fault, Inv, TypeOK
<1>4. TypeOK'
  BY <1>1, <1>2, <1>3 DEF Inv, TypeOK, docker, Serving
<1> QED
  BY <1>1, <1>2, <1>3, <1>4, QuietHandStep DEF Serving, Before, After

LEMMA CheckoutKeeps == ASSUME Inv, Checkout PROVE Inv'
<1>1. pc = "checkout" /\ UNCHANGED <<docker, entries, begun>>
  BY DEF Checkout
<1>2. PICK i \in Attempts : i = current
  BY <1>1 DEF Inv, InHand, Serving, TypeOK
<1>3. /\ faults' \in 0..MaxFaults /\ current' = i /\ UNCHANGED listing
      /\ \/ pc' = "create" /\ failing' = FALSE
         \/ pc' = "rmws" /\ failing' = TRUE
  BY <1>2 DEF Checkout, Goes, Fault, Inv, TypeOK
<1>4. TypeOK'
  BY <1>1, <1>2, <1>3 DEF Inv, TypeOK, docker, Serving
<1> QED
  BY <1>1, <1>2, <1>3, <1>4, QuietHandStep DEF Serving, Before, After

LEMMA VerifyIsolationKeeps == ASSUME Inv, VerifyIsolation PROVE Inv'
<1>1. pc = "inspect" /\ UNCHANGED <<docker, entries, begun>>
  BY DEF VerifyIsolation
<1>2. PICK i \in Attempts : i = current
  BY <1>1 DEF Inv, InHand, Serving, TypeOK
<1>3. /\ faults' \in 0..MaxFaults /\ current' = i /\ UNCHANGED listing
      /\ \/ pc' = "start" /\ failing' = FALSE
         \/ pc' \in {"bestrm", "dispose"} /\ failing' = TRUE
  BY <1>2 DEF VerifyIsolation, Goes, Fault, Inv, TypeOK
<1>4. TypeOK'
  BY <1>1, <1>2, <1>3 DEF Inv, TypeOK, docker, Serving
<1> QED
  BY <1>1, <1>2, <1>3, <1>4, QuietHandStep DEF Serving, Before, After

LEMMA RunEndsKeeps == ASSUME Inv, RunEnds PROVE Inv'
<1>1. pc = "run" /\ UNCHANGED <<entries, begun>>
  BY DEF RunEnds
<1>2. PICK i \in Attempts : i = current
  BY <1>1 DEF Inv, InHand, Serving, TypeOK
<1>3. pc' = "dispose" /\ current' = i /\ failing' \in BOOLEAN /\ UNCHANGED listing
  BY <1>2 DEF RunEnds, ResultIsIn, Goes
<1>4. CASE UNCHANGED <<container, agent, late, faults>>
  <2>1. TypeOK'
    BY <1>1, <1>2, <1>3, <1>4 DEF Inv, TypeOK, Serving
  <2> QED
    BY <1>1, <1>2, <1>3, <1>4, <2>1, QuietHandStep DEF Serving, Before, After, docker
<1>5. CASE Succeeds("kill", current) \/ Errs("kill", current)
  <2>1. "kill" \in Commands
    BY DEF Commands
  <2>2. /\ container' \in [Attempts -> {"none", "created", "running", "gone"}]
        /\ agent' \subseteq {j \in Attempts : container'[j] = "running"}
        /\ late' \subseteq Commands \X Attempts
        /\ faults' \in 0..MaxFaults
        /\ Touches(i)
        /\ container[i] # "none" => container'[i] # "none"
        /\ \A d \in Commands : <<d, i>> \in late' => <<d, i>> \in late \/ d = "kill"
    BY <1>2, <1>5, <2>1, CommandEffect DEF Inv
  <2>3. TypeOK'
    BY <1>1, <1>2, <1>3, <2>2 DEF Inv, TypeOK, Serving
  <2>4. InOrder(i)' /\ container'[i] # "none"
    BY <1>1, <1>2, <2>2 DEF Inv, InHand, Commanded, InOrder, After, Commands
  <2> QED
    BY <1>1, <1>2, <1>3, <2>2, <2>3, <2>4, HandStep DEF Serving, Before, After
<1> QED
  BY <1>4, <1>5 DEF RunEnds

LEMMA EnforceKeeps == ASSUME Inv, Enforce PROVE Inv'
<1>1. /\ pc \in {"start", "exec", "run"}
      /\ UNCHANGED <<late, entries, pc, listing, current, failing, begun, faults>>
  BY DEF Enforce
<1>2. PICK i \in Attempts : i = current
  BY <1>1 DEF Inv, InHand, Serving, TypeOK
<1>3. "rm" \in Commands /\ Lands("rm", i)
  BY <1>2 DEF Commands, Enforce
<1>4. /\ container' \in [Attempts -> {"none", "created", "running", "gone"}]
      /\ agent' \subseteq {j \in Attempts : container'[j] = "running"}
      /\ \A j \in Attempts \ {i} : container'[j] = container[j]
      /\ container'[i] = "gone"
  BY <1>3, LandsEffect DEF Inv
<1>5. Touches(i)
  BY <1>1, <1>4 DEF Touches
<1>6. TypeOK'
  <2>1. failing' \in BOOLEAN
    BY <1>1 DEF Inv, TypeOK
  <2> QED
    BY <1>1, <1>4, <2>1 DEF Inv, TypeOK
<1>7. InOrder(i)'
  BY <1>1, <1>2, <1>4 DEF Inv, InHand, After, Commanded, InOrder
<1> QED
  BY <1>1, <1>2, <1>4, <1>5, <1>6, <1>7, HandStep DEF Serving, Before

LEMMA DisposeContainerKeeps == ASSUME Inv, DisposeContainer PROVE Inv'
<1>1. pc = "dispose" /\ UNCHANGED <<entries, begun>>
  BY DEF DisposeContainer
<1>2. PICK i \in Attempts : i = current
  BY <1>1 DEF Inv, InHand, Serving, TypeOK
<1>3. pc' = "rmws" /\ current' = i /\ UNCHANGED listing /\ failing' \in {failing, TRUE}
  BY <1>2 DEF DisposeContainer, Goes
<1>4. failing' \in BOOLEAN
  BY <1>3 DEF Inv, TypeOK
<1>5. CASE container[i] = "gone" /\ UNCHANGED <<container, agent, late, faults>>
  <2>1. TypeOK'
    BY <1>1, <1>2, <1>3, <1>4, <1>5 DEF Inv, TypeOK, Serving
  <2> QED
    BY <1>1, <1>2, <1>3, <1>5, <2>1, QuietHandStep DEF Serving, Before, After, docker
<1>6. CASE Succeeds("rm", i) \/ (Errs("rm", i) /\ failing' = TRUE)
  <2>1. "rm" \in Commands
    BY DEF Commands
  <2>2. /\ container' \in [Attempts -> {"none", "created", "running", "gone"}]
        /\ agent' \subseteq {j \in Attempts : container'[j] = "running"}
        /\ late' \subseteq Commands \X Attempts
        /\ faults' \in 0..MaxFaults
        /\ Touches(i)
        /\ container[i] # "none" => container'[i] # "none"
        /\ \A d \in Commands : <<d, i>> \in late' => <<d, i>> \in late \/ d = "rm"
    BY <1>6, <2>1, CommandEffect DEF Inv
  <2>3. Succeeds("rm", i) => container'[i] = "gone"
    BY <2>1, CommandEffect DEF Inv
  <2>4. TypeOK'
    BY <1>1, <1>2, <1>3, <1>4, <2>2 DEF Inv, TypeOK, Serving
  <2>5. InOrder(i)'
    BY <1>1, <1>2, <2>2 DEF Inv, InHand, Commanded, InOrder, After, Commands
  <2> QED
    BY <1>1, <1>2, <1>3, <1>6, <2>2, <2>3, <2>4, <2>5, HandStep DEF Serving, Before, After
<1> QED
  BY <1>2, <1>5, <1>6 DEF DisposeContainer, Goes

LEMMA DisposeWorkspaceKeeps == ASSUME Inv, DisposeWorkspace PROVE Inv'
<1>1. pc = "rmws" /\ UNCHANGED <<docker, begun>>
  BY DEF DisposeWorkspace
<1>2. PICK i \in Attempts : i = current
  BY <1>1 DEF Inv, InHand, Serving, TypeOK
<1>3. /\ faults' \in 0..MaxFaults
      /\ entries' \subseteq entries
      /\ current' = None
      /\ listing' \subseteq listing
      /\ \/ pc' = "poll" /\ ~failing /\ UNCHANGED failing /\ i \notin entries'
         \/ pc' = "down" /\ failing' = FALSE
  BY <1>2 DEF DisposeWorkspace, HandlerThrows, Down, Fault, Inv, TypeOK
<1>4. TypeOK'
  <2>1. failing' \in BOOLEAN
    BY <1>3 DEF Inv, TypeOK
  <2> QED
    BY <1>1, <1>3, <2>1 DEF Inv, TypeOK, docker, Serving
<1>5. ~failing => container[i] = "gone"
  BY <1>1, <1>2 DEF Inv, InHand
<1> QED
  BY <1>1, <1>2, <1>3, <1>4, <1>5, QuietHandStep DEF Serving

-----------------------------------------------------------------------------
(* The steps of a start.                                                   *)

\* What a step of the cleanup has to leave behind.
LEMMA CleanStep ==
    ASSUME Inv, TypeOK', pc \in Cleaning \cup {"down"}, pc' \in Cleaning \cup {"down", "poll"},
           current' = None, UNCHANGED begun,
           \A j \in Attempts : /\ Quiet(j) => Quiet(j)'
                               /\ InOrder(j)'
                               /\ Fresh(j) => Fresh(j)',
           pc' = "rm" => \A j \in Attempts : Quiet(j)' \/ j \in listing',
           pc' \in {"readdir", "rmdir", "poll"} => \A j \in Attempts : Quiet(j)',
           pc' = "rmdir" => entries' \ Strangers \subseteq listing' /\ listing' \cap Strangers = {},
           pc' = "poll" => entries' \cap Attempts = {}
    PROVE  Inv'
<1>1. Commanded'
  BY DEF Inv, Commanded
<1>2. InHand'
  BY DEF InHand, Cleaning, Serving, Before, After
<1>3. OneIsLoud'
  BY DEF Inv, OneIsLoud, Cleaning, Serving
<1>4. Workspaces'
  BY DEF Workspaces, Cleaning, Serving
<1> QED
  BY <1>1, <1>2, <1>3, <1>4 DEF Inv

\* Nothing is sent to Docker.
LEMMA DockerKept ==
    ASSUME Inv, UNCHANGED docker, NEW j \in Attempts
    PROVE  /\ Quiet(j)' <=> Quiet(j)
           /\ InOrder(j)'
           /\ Fresh(j)' <=> Fresh(j)
BY DEF Inv, Commanded, docker, Quiet, InOrder, Fresh

LEMMA StartKeeps == ASSUME Inv, Start PROVE Inv'
<1>1. /\ pc = "down" /\ pc' = "ps"
      /\ UNCHANGED <<docker, entries, listing, current, failing, begun, faults>>
  BY DEF Start
<1>2. current' = None
  BY <1>1 DEF Inv, InHand, Serving
<1>3. TypeOK'
  <2>1. failing' \in BOOLEAN
    BY <1>1 DEF Inv, TypeOK
  <2> QED
    BY <1>1, <2>1 DEF Inv, TypeOK, docker, Cleaning
<1> QED
  BY <1>1, <1>2, <1>3, DockerKept, CleanStep DEF Cleaning

LEMMA ListContainersKeeps == ASSUME Inv, ListContainers PROVE Inv'
<1>1. pc = "ps" /\ UNCHANGED <<docker, entries, begun>> /\ current = None
  BY DEF ListContainers, Inv, InHand, Cleaning, Serving
<1>2. /\ faults' \in 0..MaxFaults /\ current' = None
      /\ \/ pc' = "rm" /\ listing' = OwnedContainers /\ failing' = failing
         \/ pc' = "down" /\ listing' = {} /\ failing' = FALSE
  BY <1>1 DEF ListContainers, Down, Fault, Inv, TypeOK
<1>3. TypeOK'
  <2>1. failing' \in BOOLEAN
    BY <1>2 DEF Inv, TypeOK
  <2> QED
    BY <1>1, <1>2, <2>1 DEF Inv, TypeOK, docker, Cleaning, OwnedContainers
<1>4. \A j \in Attempts : Quiet(j) \/ j \in OwnedContainers
  BY DEF Quiet, OwnedContainers, Inv, TypeOK
<1> QED
  BY <1>1, <1>2, <1>3, <1>4, DockerKept, CleanStep DEF Cleaning

LEMMA RemoveContainerKeeps == ASSUME Inv, NEW i \in Attempts, RemoveContainer(i) PROVE Inv'
<1>1. /\ pc = "rm" /\ i \in listing /\ UNCHANGED <<entries, begun>> /\ current = None
      /\ listing \subseteq Attempts
  BY DEF RemoveContainer, Inv, InHand, Serving, TypeOK
<1>2. "rm" \in Commands
  BY DEF Commands
<1>3. \/ /\ Succeeds("rm", i) \/ (Refuses("rm", i) /\ UNCHANGED <<container, agent, late, faults>>)
         /\ listing' = listing \ {i}
         /\ UNCHANGED <<pc, current, failing>>
      \/ /\ Errs("rm", i)
         /\ pc' = "down" /\ listing' = {} /\ current' = None /\ failing' = FALSE
  BY DEF RemoveContainer, RemovalFailed, Down
<1>4. /\ container' \in [Attempts -> {"none", "created", "running", "gone"}]
      /\ agent' \subseteq {j \in Attempts : container'[j] = "running"}
      /\ late' \subseteq Commands \X Attempts
      /\ faults' \in 0..MaxFaults
      /\ Touches(i)
      /\ container[i] # "none" => container'[i] # "none"
      /\ \A d \in Commands : <<d, i>> \in late' => <<d, i>> \in late \/ d = "rm"
  <2>1. CASE Succeeds("rm", i) \/ Errs("rm", i)
    BY <1>2, <2>1, CommandEffect DEF Inv
  <2>2. CASE UNCHANGED <<container, agent, late, faults>>
    BY <2>2 DEF Inv, TypeOK, Touches
  <2> QED
    BY <1>3, <2>1, <2>2
<1>5. container'[i] = "gone" \/ container'[i] = container[i]
  <2>1. Succeeds("rm", i) \/ Lands("rm", i) => container'[i] = "gone"
    BY <1>2, LandsEffect DEF Inv, Succeeds
  <2> QED
    BY <1>3, <2>1 DEF Errs
<1>6. pc' = "rm" => container'[i] \in {"none", "gone"}
  <2>1. Succeeds("rm", i) => container'[i] = "gone"
    BY <1>2, CommandEffect DEF Inv
  <2>2. Refuses("rm", i) /\ UNCHANGED container => container'[i] \in {"none", "gone"}
    BY DEF Refuses, Inv, TypeOK
  <2> QED
    BY <1>3, <2>1, <2>2
<1>7. TypeOK'
  <2>1. failing' \in BOOLEAN
    BY <1>3 DEF Inv, TypeOK
  <2> QED
    BY <1>1, <1>3, <1>4, <2>1 DEF Inv, TypeOK, Cleaning
<1>8. container[i] = "none" => container'[i] = "none"
  <2>1. container[i] = "none" => ~Lands("rm", i)
    BY DEF Lands
  <2> QED
    BY <1>3, <2>1 DEF Succeeds, Errs
<1>9. /\ Quiet(i) => Quiet(i)'
      /\ InOrder(i)'
      /\ Fresh(i) => Fresh(i)'
  BY <1>4, <1>5, <1>8 DEF Inv, Commanded, Quiet, InOrder, Fresh, Commands
<1>10. \A j \in Attempts : /\ Quiet(j) => Quiet(j)'
                           /\ InOrder(j)'
                           /\ Fresh(j) => Fresh(j)'
  BY <1>4, <1>9, OthersKept DEF Inv, Commanded
<1>11. pc' = "rm" => \A j \in Attempts : Quiet(j)' \/ j \in listing'
  <2>1. pc' = "rm" => Quiet(i)'
    BY <1>6 DEF Quiet
  <2> QED
    BY <1>1, <1>3, <1>10, <2>1 DEF Inv, OneIsLoud
<1>12. pc' \in {"rm", "down"} /\ current' = None
  BY <1>1, <1>3
<1> QED
  BY <1>1, <1>7, <1>10, <1>11, <1>12, CleanStep DEF Cleaning

LEMMA ContainersDoneKeeps == ASSUME Inv, ContainersDone PROVE Inv'
<1>1. /\ pc = "rm" /\ pc' = "readdir" /\ listing = {}
      /\ UNCHANGED <<docker, entries, listing, current, failing, begun, faults>>
  BY DEF ContainersDone
<1>2. current' = None
  BY <1>1 DEF Inv, InHand, Serving
<1>3. TypeOK'
  <2>1. failing' \in BOOLEAN
    BY <1>1 DEF Inv, TypeOK
  <2> QED
    BY <1>1, <2>1 DEF Inv, TypeOK, docker, Cleaning
<1>4. \A j \in Attempts : Quiet(j)
  BY <1>1 DEF Inv, OneIsLoud
<1> QED
  BY <1>1, <1>2, <1>3, <1>4, DockerKept, CleanStep DEF Cleaning

LEMMA ListWorkspacesKeeps == ASSUME Inv, ListWorkspaces PROVE Inv'
<1>1. pc = "readdir" /\ UNCHANGED <<docker, entries, begun>> /\ current = None
  BY DEF ListWorkspaces, Inv, InHand, Cleaning, Serving
<1>2. /\ faults' \in 0..MaxFaults /\ current' = None
      /\ \/ pc' = "rmdir" /\ listing' = entries \ Strangers /\ failing' = failing
         \/ pc' = "down" /\ listing' = {} /\ failing' = FALSE
  BY <1>1 DEF ListWorkspaces, OwnedEntries, Down, Fault, Inv, TypeOK
<1>3. TypeOK'
  <2>1. failing' \in BOOLEAN
    BY <1>2 DEF Inv, TypeOK
  <2> QED
    BY <1>1, <1>2, <2>1 DEF Inv, TypeOK, docker, Cleaning
<1>4. \A j \in Attempts : Quiet(j)
  BY <1>1 DEF Inv, OneIsLoud
<1> QED
  BY <1>1, <1>2, <1>3, <1>4, DockerKept, CleanStep DEF Cleaning

LEMMA RemoveWorkspaceKeeps == ASSUME Inv, NEW e, RemoveWorkspace(e) PROVE Inv'
<1>1. pc = "rmdir" /\ UNCHANGED <<docker, begun>> /\ current = None
  BY DEF RemoveWorkspace, Inv, InHand, Cleaning, Serving
<1>2. /\ faults' \in 0..MaxFaults /\ current' = None
      /\ \/ pc' = "rmdir" /\ listing' = listing \ {e} /\ entries' = entries \ {e} /\ failing' = failing
         \/ pc' = "down" /\ listing' = {} /\ failing' = FALSE /\ entries' = entries
  BY <1>1 DEF RemoveWorkspace, Down, Fault, Inv, TypeOK
<1>3. TypeOK'
  <2>1. failing' \in BOOLEAN
    BY <1>2 DEF Inv, TypeOK
  <2> QED
    BY <1>1, <1>2, <2>1 DEF Inv, TypeOK, docker, Cleaning
<1>4. \A j \in Attempts : Quiet(j)
  BY <1>1 DEF Inv, OneIsLoud
<1>5. pc' = "rmdir" => entries' \ Strangers \subseteq listing' /\ listing' \cap Strangers = {}
  BY <1>1, <1>2 DEF Inv, Workspaces
<1> QED
  BY <1>1, <1>2, <1>3, <1>4, <1>5, DockerKept, CleanStep DEF Cleaning

LEMMA CleanupDoneKeeps == ASSUME Inv, CleanupDone PROVE Inv'
<1>1. /\ pc = "rmdir" /\ pc' = "poll" /\ listing = {}
      /\ UNCHANGED <<docker, entries, listing, current, failing, begun, faults>>
  BY DEF CleanupDone
<1>2. current = None /\ current' = None
  BY <1>1 DEF Inv, InHand, Serving
<1>3. TypeOK'
  <2>1. failing' \in BOOLEAN
    BY <1>1 DEF Inv, TypeOK
  <2> QED
    BY <1>1, <2>1 DEF Inv, TypeOK, docker, Serving
<1>4. \A j \in Attempts : Quiet(j)
  BY <1>1, <1>2 DEF Inv, OneIsLoud
<1>5. \A j \in Attempts : Quiet(j)' /\ InOrder(j)' /\ (Fresh(j) => Fresh(j)')
  BY <1>1, <1>4, DockerKept
<1>6. entries' \cap Attempts = {}
  BY <1>1 DEF Inv, Workspaces
<1> QED
  BY <1>1, <1>2, <1>3, <1>5, <1>6, CleanStep DEF Cleaning

-----------------------------------------------------------------------------
(* The other steps.                                                        *)

LEMMA InvInit == Init => Inv
<1> SUFFICES ASSUME Init PROVE Inv
  OBVIOUS
<1>1. failing \in BOOLEAN
  BY DEF Init
<1>2. container \in [Attempts -> {"none", "created", "running", "gone"}]
  BY DEF Init
<1>3. faults \in 0..MaxFaults
  BY DEF Init
<1>4. TypeOK
  BY <1>1, <1>2, <1>3 DEF Init, TypeOK
<1> QED
  BY <1>4 DEF Init, Inv, Commanded, InOrder, Fresh, InHand, OneIsLoud, Quiet, Workspaces,
     Before, After, Serving

LEMMA BeginKeeps == ASSUME Inv, NEW i \in Attempts, Begin(i) PROVE Inv'
<1>1. /\ pc = "poll" /\ pc' = "mkdtemp" /\ i \notin begun /\ begun' = begun \cup {i}
      /\ current' = i
      /\ UNCHANGED <<container, agent, late, entries, listing, failing, faults>>
  BY DEF Begin, docker
<1>2. current = None
  BY <1>1 DEF Inv, InHand
<1>3. TypeOK'
  <2>1. failing' \in BOOLEAN
    BY <1>1 DEF Inv, TypeOK
  <2> QED
    BY <1>1, <2>1 DEF Inv, TypeOK, Serving
<1>4. \A j \in Attempts : Quiet(j)
  BY <1>1, <1>2 DEF Inv, OneIsLoud, Serving
<1>5. Commanded'
  BY <1>1 DEF Inv, Commanded, InOrder, Fresh
<1>6. InHand'
  BY <1>1 DEF Inv, InHand, Commanded, Fresh, Before, After, Serving
<1>7. OneIsLoud'
  BY <1>1, <1>4 DEF OneIsLoud, Quiet
<1>8. Workspaces'
  BY <1>1, <1>2 DEF Inv, Workspaces, Serving
<1> QED
  BY <1>3, <1>5, <1>6, <1>7, <1>8 DEF Inv

\* A late command makes no quiet attempt loud, and creates no container twice.
LEMMA LateCommandKeeps == ASSUME Inv, LateCommand PROVE Inv'
<1>1. UNCHANGED <<entries, pc, listing, current, failing, begun, faults>>
  BY DEF LateCommand
<1>2. PICK c \in Commands, i \in Attempts :
         /\ <<c, i>> \in late
         /\ late' = late \ {<<c, i>>}
         /\ Lands(c, i) \/ UNCHANGED <<container, agent>>
  BY DEF LateCommand
<1>3. CASE UNCHANGED <<container, agent>>
  <2>1. TypeOK'
    <3>1. failing' \in BOOLEAN
      BY <1>1 DEF Inv, TypeOK
    <3> QED
      BY <1>1, <1>2, <1>3, <3>1 DEF Inv, TypeOK
  <2>2. \A j \in Attempts : /\ Quiet(j) => Quiet(j)'
                            /\ InOrder(j) => InOrder(j)'
                            /\ Fresh(j) => Fresh(j)'
    BY <1>2, <1>3 DEF Quiet, InOrder, Fresh
  <2>3. Commanded'
    BY <1>1, <2>2 DEF Inv, Commanded
  <2>4. InHand'
    BY <1>1, <1>2, <1>3 DEF Inv, InHand, Fresh
  <2>5. OneIsLoud' /\ Workspaces'
    BY <1>1, <2>2 DEF Inv, OneIsLoud, Workspaces
  <2> QED
    BY <2>1, <2>3, <2>4, <2>5 DEF Inv
<1>4. CASE Lands(c, i)
  <2>1. /\ container' \in [Attempts -> {"none", "created", "running", "gone"}]
        /\ agent' \subseteq {j \in Attempts : container'[j] = "running"}
        /\ \A j \in Attempts \ {i} : container'[j] = container[j]
        /\ container'[i] # "none"
        /\ container[i] = "none" => c = "create" /\ container'[i] = "created"
        /\ container[i] = "gone" => container'[i] = "gone"
        /\ container'[i] = "running" => container[i] = "running" \/ c = "start"
    BY <1>4, LandsEffect DEF Inv
  <2>2. TypeOK'
    <3>1. failing' \in BOOLEAN
      BY <1>1 DEF Inv, TypeOK
    <3> QED
      BY <1>1, <1>2, <2>1, <3>1 DEF Inv, TypeOK
  <2>3. InOrder(i) /\ container[i] \in {"none", "created", "running", "gone"}
    BY DEF Inv, Commanded, TypeOK
  <2>4. Quiet(i) => Quiet(i)'
    <3>1. c = "start" => container[i] = "created"
      BY <1>4 DEF Lands
    <3>2. container'[i] = "created" => <<"start", i>> \notin late' \/ container[i] = "running"
            \/ (container[i] = "created" /\ <<"start", i>> \in late)
      BY <1>2, <2>1, <2>3 DEF InOrder
    <3> QED
      BY <1>2, <2>1, <3>1, <3>2 DEF Quiet
  <2>5. InOrder(i)' /\ (c = "create" \/ container[i] # "none")
    BY <1>2, <2>1, <2>3 DEF InOrder
  <2>6. \A j \in Attempts \ {i} : /\ Quiet(j) => Quiet(j)'
                                  /\ InOrder(j) => InOrder(j)'
                                  /\ Fresh(j) => Fresh(j)'
    BY <1>2, <2>1 DEF Quiet, InOrder, Fresh
  <2>7. ~Fresh(i)
    BY <1>2, <2>5 DEF Fresh
  <2>8. Commanded'
    BY <1>1, <2>5, <2>6, <2>7 DEF Inv, Commanded
  <2>9. InHand'
    <3>1. pc' \in Serving \ {"poll"} => current' \in begun'
      BY <1>1 DEF Inv, InHand
    <3>2. pc' \in Before => current \in Attempts \ {i}
      BY <1>1, <2>7 DEF Inv, InHand, TypeOK, Before, Serving
    <3>3. pc' \in Before => Fresh(current)'
      BY <1>1, <1>2, <2>1, <3>2 DEF Inv, InHand, Fresh
    <3>4. pc' \in After => container'[current] # "none"
      BY <1>1, <2>1 DEF Inv, InHand, TypeOK, After, Serving
    <3>5. pc' = "rmws" /\ ~failing' => container'[current] = "gone"
      BY <1>1, <2>1 DEF Inv, InHand, TypeOK, Serving
    <3> QED
      BY <1>1, <3>1, <3>3, <3>4, <3>5 DEF Inv, InHand
  <2>10. OneIsLoud' /\ Workspaces'
    BY <1>1, <2>4, <2>6 DEF Inv, OneIsLoud, Workspaces
  <2> QED
    BY <2>2, <2>8, <2>9, <2>10 DEF Inv
<1> QED
  BY <1>2, <1>3, <1>4

LEMMA AgentExitsKeeps == ASSUME Inv, (\E i \in Attempts : AgentExits(i)) \/ UNCHANGED vars
                         PROVE  Inv'
<1>1. /\ UNCHANGED <<container, late, entries, pc, listing, current, failing, begun, faults>>
      /\ agent' \subseteq agent
  BY DEF AgentExits, vars, docker
<1>2. TypeOK'
  <2>1. failing' \in BOOLEAN
    BY <1>1 DEF Inv, TypeOK
  <2> QED
    BY <1>1, <2>1 DEF Inv, TypeOK
<1>3. Commanded' /\ InHand' /\ OneIsLoud' /\ Workspaces'
  BY <1>1 DEF Inv, Commanded, InHand, OneIsLoud, Workspaces, Quiet, InOrder, Fresh
<1> QED
  BY <1>2, <1>3 DEF Inv

\* What is late after a crash was sent in order, and for the one attempt in hand,
\* or it removes a container.
LEMMA CrashKeeps == ASSUME Inv, Crash PROVE Inv'
<1>1. /\ pc # "down" /\ faults' \in 0..MaxFaults
      /\ pc' = "down" /\ listing' = {} /\ current' = None /\ failing' = FALSE
      /\ UNCHANGED <<container, agent, entries, begun>>
  BY DEF Crash, Down, Fault, Inv, TypeOK
<1>2. late' = late \/ \E a \in Awaited : late' = late \cup {a}
  BY DEF Crash
<1>3. \A a \in Awaited : \E c \in Commands, i \in Attempts :
         /\ a = <<c, i>>
         /\ c = "create" => pc = "create" /\ i = current
         /\ c = "start" => pc = "start" /\ i = current
  BY DEF Awaited, Commands, Inv, TypeOK, InHand, Serving
<1>4. late' = late \/ \E c \in Commands, i \in Attempts :
         /\ late' = late \cup {<<c, i>>}
         /\ c = "create" => pc = "create" /\ i = current
         /\ c = "start" => pc = "start" /\ i = current
  BY <1>2, <1>3
<1>5. TypeOK'
  <2>1. failing' \in BOOLEAN
    BY <1>1
  <2>2. late' \subseteq Commands \X Attempts
    BY <1>4 DEF Inv, TypeOK
  <2> QED
    BY <1>1, <2>1, <2>2 DEF Inv, TypeOK
<1>6. \A j \in Attempts : InOrder(j)'
  <2> SUFFICES ASSUME NEW j \in Attempts PROVE InOrder(j)'
    OBVIOUS
  <2>1. pc = "create" => Fresh(current)
    BY DEF Inv, InHand, Before
  <2>2. pc = "start" => container[current] # "none"
    BY DEF Inv, InHand, After
  <2> QED
    BY <1>1, <1>4, <2>1, <2>2 DEF Inv, Commanded, InOrder, Fresh
<1>7. \A j \in Attempts : j \notin begun' => Fresh(j)'
  <2>1. pc \in {"create", "start"} => current \in begun
    BY DEF Inv, InHand, Serving
  <2> QED
    BY <1>1, <1>4, <2>1 DEF Inv, Commanded, Fresh
<1>8. \A i, j \in Attempts : Quiet(i)' \/ Quiet(j)' \/ i = j
  <2>1. CASE pc = "start"
    <3>1. \A j \in Attempts : Quiet(j) \/ j = current
      BY <2>1 DEF Inv, OneIsLoud, Serving
    <3>2. \A j \in Attempts : <<"start", j>> \in late' => <<"start", j>> \in late \/ j = current
      BY <1>4
    <3>3. \A j \in Attempts : Quiet(j)' \/ j = current
      BY <1>1, <3>1, <3>2 DEF Quiet
    <3> QED
      BY <3>3
  <2>2. CASE pc # "start"
    <3>1. \A j \in Attempts : Quiet(j) => Quiet(j)'
      BY <1>1, <1>4, <2>2 DEF Quiet
    <3> QED
      BY <3>1 DEF Inv, OneIsLoud
  <2> QED
    BY <2>1, <2>2
<1>9. Commanded' /\ InHand' /\ OneIsLoud' /\ Workspaces'
  BY <1>1, <1>6, <1>7, <1>8 DEF Commanded, InHand, OneIsLoud, Workspaces, Before, After, Serving
<1> QED
  BY <1>5, <1>9 DEF Inv

\* Every step preserves the invariant.
LEMMA InvNext == Inv /\ [Next]_vars => Inv'
<1> SUFFICES ASSUME Inv, [Next]_vars PROVE Inv'
  OBVIOUS
<1>1. CASE Start
  BY <1>1, StartKeeps
<1>2. CASE Cleanup
  BY <1>2, ListContainersKeeps, ContainersDoneKeeps, ListWorkspacesKeeps, CleanupDoneKeeps,
     RemoveContainerKeeps, RemoveWorkspaceKeeps DEF Cleanup
<1>3. CASE Attempt
  BY <1>3, CreateWorkspaceKeeps, CheckoutKeeps, CreateContainerKeeps, VerifyIsolationKeeps,
     BestEffortRemoveKeeps, StartContainerKeeps, SpawnAgentKeeps, RunEndsKeeps,
     DisposeContainerKeeps, DisposeWorkspaceKeeps DEF Attempt
<1>4. CASE Enforce
  BY <1>4, EnforceKeeps
<1>5. CASE LateCommand
  BY <1>5, LateCommandKeeps
<1>6. CASE Crash
  BY <1>6, CrashKeeps
<1>7. ASSUME NEW i \in Attempts, Begin(i) PROVE Inv'
  BY <1>7, BeginKeeps
<1>8. CASE (\E i \in Attempts : AgentExits(i)) \/ UNCHANGED vars
  BY <1>8, AgentExitsKeeps
<1> QED
  BY <1>1, <1>2, <1>3, <1>4, <1>5, <1>6, <1>7, <1>8 DEF Next

-----------------------------------------------------------------------------
\* The invariant holds in every reachable state.
THEOREM Invariant == Spec => []Inv
<1>1. Init => Inv
  BY InvInit
<1>2. Inv /\ [Next]_vars => Inv'
  BY InvNext
<1> QED
  BY <1>1, <1>2, PTL DEF Spec

\* The state keeps its types (recovery/orphan-cleanup.ts 31-97).
THEOREM TypeOKHolds == Spec => []TypeOK
<1>1. Inv => TypeOK
  BY DEF Inv
<1> QED
  BY <1>1, Invariant, PTL

\* After a cleanup only the attempt being made has a running container or a
\* workspace (recovery/orphan-cleanup.ts 31-97).
THEOREM OnlyCurrentLives == Spec => []OnlyTheCurrentLives
<1>1. Inv => OnlyTheCurrentLives
  BY DEF Inv, OneIsLoud, Workspaces, Quiet, OnlyTheCurrentLives
<1> QED
  BY <1>1, Invariant, PTL

\* No two Agents run at a time, across any number of restarts
\* (controller/runtime.ts 15-39, recovery/orphan-cleanup.ts 31-61).
THEOREM OneAgent == Spec => []OneAgentAtATime
<1>1. Inv => OneAgentAtATime
  BY DEF Inv, TypeOK, OneIsLoud, Quiet, OneAgentAtATime
<1> QED
  BY <1>1, Invariant, PTL

\* The cleanup takes no workspace from an Agent that runs in it
\* (recovery/orphan-cleanup.ts 31-34).
THEOREM SparesTheUsed == Spec => CleanupSparesTheUsed
<1>1. Inv /\ [Next]_vars => [(pc \in Cleaning) => (agent \cap entries) \subseteq entries']_vars
  <2> SUFFICES ASSUME Inv, [Next]_vars, pc \in Cleaning
               PROVE  (agent \cap entries) \subseteq entries'
    BY DEF vars
  <2>1. pc = "rmdir" => agent = {}
    <3>1. pc = "rmdir" => current = None
      BY DEF Inv, InHand, Serving
    <3> QED
      BY <3>1 DEF Inv, OneIsLoud, Quiet, TypeOK
  <2>2. pc # "rmdir" => entries' = entries
    BY DEF Next, Start, Cleanup, ListContainers, RemoveContainer, ContainersDone, ListWorkspaces,
       RemoveWorkspace, CleanupDone, Attempt, CreateWorkspace, Checkout, CreateContainer,
       VerifyIsolation, BestEffortRemove, StartContainer, SpawnAgent, RunEnds, DisposeContainer,
       DisposeWorkspace, Enforce, LateCommand, Crash, Begin, AgentExits, vars, Cleaning
  <2> QED
    BY <2>1, <2>2
<1>2. []Inv /\ [][Next]_vars => CleanupSparesTheUsed
  BY <1>1, PTL DEF CleanupSparesTheUsed
<1> QED
  BY <1>2, Invariant, PTL DEF Spec
=============================================================================
