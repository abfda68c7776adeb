---------------------------- MODULE ArtifactPipeline ----------------------------
(***************************************************************************)
(* The artifact of one execution: from the workspace its Agent left,       *)
(* through what git says of it and the bounded captures that hold it, to   *)
(* the object in the bucket, and out of the bucket again after a restart.  *)
(*                                                                         *)
(* Text is a sequence of bytes: "a" is ASCII, "h" and "t" are the two      *)
(* bytes of one character, "x" belongs to no UTF-8 text.                   *)
(***************************************************************************)
EXTENDS Naturals, Sequences, SequencesExt, FiniteSets

CONSTANTS
    Paths,          \* the paths of the workspace, in their order
    Diffs,          \* what git may print of one changed file
    PatchLimit,     \* patchCaptureBytes
    BodyLimit,      \* PHASE49_MAX_ARTIFACT_BYTES
    MaxScribbles,   \* bound on writes of processes the Agent left behind
    MaxFaults       \* bound on failed calls and crashes

ASSUME LimitsArePositive == PatchLimit \in Nat \ {0} /\ BodyLimit \in Nat \ {0}
ASSUME PathsAreListed    == Paths \in Seq(Range(Paths))
ASSUME GitPrintsBytes    == Diffs \subseteq Seq({"a", "h", "t", "x"})
ASSUME Bounds            == MaxScribbles \in Nat /\ MaxFaults \in Nat

VARIABLES
    files,          \* path -> what became of it in the workspace
    scribbles,
    \* the process
    pc,             \* what it awaits, or the verdict it reached
    outcome,        \* the provisional outcome
    tracked,        \* paths of git diff --name-status
    others,         \* paths of git ls-files --others
    undiffed,       \* of these, the ones whose diff is not taken yet
    patch,          \* the capture of the whole patch
    artifact,       \* the artifact in hand
    \* the bucket
    request,        \* the PutObject under way, which may outlive its client
    object,         \* what is stored under the execution's key
    bucket,         \* how the bucket is set up
    tampered,       \* did somebody else change the object
    faults,
    \* history
    said,           \* what git printed of each part of the patch
    made,           \* the artifact the attempt built
    confirmed       \* did HeadObject confirm it

collected == <<outcome, tracked, others, undiffed, patch, said>>
storage   == <<request, object, bucket, tampered>>
vars      == <<files, scribbles, pc, collected, artifact, storage, faults, made, confirmed>>

Fault == faults < MaxFaults /\ faults' = faults + 1

-----------------------------------------------------------------------------
(* Bytes and bounded captures.                                             *)

Replacement == <<"u", "f", "d">>    \* U+FFFD takes three bytes

\* Buffer.toString("utf8") and back: what is no character is replaced.
Decoded(s) ==
    FlattenSeq([k \in 1..Len(s) |->
        IF \/ s[k] \in {"a", "u", "f", "d"}
           \/ s[k] = "h" /\ k < Len(s) /\ s[k + 1] = "t"
           \/ s[k] = "t" /\ k > 1 /\ s[k - 1] = "h"
        THEN <<s[k]>>
        ELSE Replacement])

Empty == [bytes |-> <<>>, truncated |-> FALSE]

\* Slip: the chunk that crosses the limit is kept whole.
CapturedWhole(c, chunk) ==
    [bytes     |-> c.bytes \o chunk,
     truncated |-> c.truncated \/ Len(c.bytes) + Len(chunk) > PatchLimit]

Captured(c, chunk) ==
    LET room == PatchLimit - Len(c.bytes) IN
    [bytes     |-> c.bytes \o SubSeq(chunk, 1, IF Len(chunk) <= room THEN Len(chunk) ELSE room),
     truncated |-> c.truncated \/ Len(chunk) > room]

\* Slip: the marker byte is forgotten.
AppendTextOnly(c, output) == Captured(c, Decoded(Captured(Empty, output).bytes))

\* One git call's capture is appended to the patch; a byte more keeps the patch
\* truncated when that capture was, however short its text.
AppendPatchCapture(c, output) ==
    LET source == Captured(Empty, output)
        target == Captured(c, Decoded(source.bytes)) IN
    IF source.truncated THEN Captured(target, <<"a">>) ELSE target

-----------------------------------------------------------------------------
(* The workspace.  An unchanged path has no diff.                          *)

PathSet   == Range(Paths)
Unchanged == [kind |-> "same", diff |-> <<>>]
Changes   == [kind : {"tracked", "untracked"}, diff : Diffs]

OfKind(kind)  == {p \in PathSet : files[p].kind = kind}
DiffsOf(S)    == FlattenSeq([k \in 1..Len(Paths) |->
                                IF Paths[k] \in S THEN files[Paths[k]].diff ELSE <<>>])

Verdicts == {"success", "failure", "recovered", "absent", "unknown"}
Awaits   == {"detect", "names", "others", "diff", "untracked", "build", "put", "answer",
             "confirm", "head", "get"}

\* A document: a manifest, which names its execution, the outcome, the files and the
\* checksum of the patch, and the patch.  A checksum is what it is computed from.
Document(identity, result, changed, checksum, text) ==
    [identity |-> identity, outcome |-> result, changed |-> changed,
     checksum |-> checksum, patch |-> text]

\* No artifact in hand, no object under the key, no request under way.
Nothing == Document("none", "none", {}, <<>>, <<>>)

Init ==
    /\ files \in [PathSet -> Changes \cup {Unchanged}]
    /\ scribbles = 0
    /\ pc = "detect"
    /\ outcome = "none"
    /\ tracked = {} /\ others = {} /\ undiffed = {}
    /\ patch = Empty
    /\ artifact = Nothing
    /\ request = Nothing
    /\ object = Nothing
    /\ bucket \in [baseline : BOOLEAN, listable : BOOLEAN]
    /\ tampered = FALSE
    /\ faults = 0
    /\ said = <<>>
    /\ made = Nothing
    /\ confirmed = FALSE

\* A process the Agent left behind changes a file, while nobody expects it.
Scribble(p) ==
    /\ scribbles < MaxScribbles
    /\ pc \in {"names", "others", "diff", "untracked"}
    /\ scribbles' = scribbles + 1
    /\ \E f \in (Changes \cup {Unchanged}) \ {files[p]} : files' = [files EXCEPT ![p] = f]
    /\ UNCHANGED <<pc, collected, artifact, storage, faults, made, confirmed>>

-----------------------------------------------------------------------------
(* Collecting the change-set.                                              *)

outside == <<files, scribbles, artifact, storage, made, confirmed>>

\* An exception ends the process; the record stays Agent Running.
Throw == pc' = "down" /\ UNCHANGED <<outside, collected>>

\* A git call that fails, is malformed or says more than its capture holds.  One of
\* the detection is a failure of the Agent's run, and finalized as agent_failed.
GitFails ==
    /\ Fault
    /\ \/ pc = "detect" /\ pc' = "failure" /\ UNCHANGED <<outside, collected>>
       \/ pc \in {"names", "others", "diff", "untracked"} /\ Throw

DetectChanges ==
    /\ pc = "detect"
    /\ outcome' = IF \E p \in PathSet : files[p] # Unchanged THEN "changes_ready" ELSE "no_changes"
    /\ pc' = "names"
    /\ UNCHANGED <<outside, tracked, others, undiffed, patch, said, faults>>

ListTracked ==
    /\ pc = "names"
    /\ tracked' = OfKind("tracked")
    /\ pc' = "others"
    /\ UNCHANGED <<outside, outcome, others, undiffed, patch, said, faults>>

\* mergeChangedFiles refuses a path that is in both lists.
ListUntracked ==
    /\ pc = "others"
    /\ \/ /\ OfKind("untracked") \cap tracked = {}
          /\ others' = OfKind("untracked")
          /\ undiffed' = others'
          /\ pc' = "diff"
          /\ UNCHANGED <<outside, outcome, tracked, patch, said>>
       \/ /\ OfKind("untracked") \cap tracked # {}
          /\ Throw
    /\ UNCHANGED faults

DiffTracked ==
    /\ pc = "diff"
    /\ LET output == DiffsOf(OfKind("tracked")) IN
         /\ patch' = AppendPatchCapture(patch, output)
         /\ said' = <<output>>
    /\ pc' = "untracked"
    /\ UNCHANGED <<outside, outcome, tracked, others, undiffed, faults>>

NextUndiffed(p) ==
    /\ p \in undiffed
    /\ \A k, l \in 1..Len(Paths) : Paths[k] = p /\ Paths[l] \in undiffed => k <= l

\* git diff --no-index cannot read a file that is gone.
DiffUntracked(p) ==
    /\ pc = "untracked"
    /\ NextUndiffed(p)
    /\ \/ /\ files[p] # Unchanged
          /\ patch' = AppendPatchCapture(patch, files[p].diff)
          /\ said' = Append(said, files[p].diff)
          /\ undiffed' = undiffed \ {p}
          /\ UNCHANGED <<pc, outside, outcome, tracked, others>>
       \/ files[p] = Unchanged /\ Throw
    /\ UNCHANGED faults

Collected ==
    /\ pc = "untracked"
    /\ undiffed = {}
    /\ pc' = "build"
    /\ UNCHANGED <<outside, collected, faults>>

-----------------------------------------------------------------------------
(* Building and storing the artifact.                                      *)

ChangedFiles == (tracked \X {"tracked"}) \cup (others \X {"untracked"})

\* The manifest's list has no order here; the metadata repeats the manifest.
Artifact(changed, text) == Document("ours", outcome, changed, text, text)

AssertBuildInput == ~patch.truncated /\ Len(Decoded(patch.bytes)) = Len(patch.bytes)

NoChangesIsEmpty(a) == a.changed = {} /\ a.patch = <<>>

OutcomeMatchesChangeSet(a) ==
    /\ a.outcome = "changes_ready" => a.changed # {} /\ a.patch # <<>>
    /\ a.outcome = "no_changes" => NoChangesIsEmpty(a)

\* The canonical document: the manifest grows with the list of files.
BodySize(a) == Len(a.patch) + Cardinality(a.changed)

\* buildPhase49Artifact does not throw.
Builds(a) == OutcomeMatchesChangeSet(a) /\ BodySize(a) <= BodyLimit

BuildArtifact ==
    /\ pc = "build"
    /\ LET built == Artifact(ChangedFiles, Decoded(patch.bytes)) IN
         \/ /\ AssertBuildInput /\ Builds(built)
            /\ artifact' = built
            /\ made' = built
            /\ pc' = "put"
         \/ /\ ~(AssertBuildInput /\ Builds(built))
            /\ pc' = "failure"
            /\ UNCHANGED <<artifact, made>>
    /\ UNCHANGED <<files, scribbles, collected, storage, faults, confirmed>>

NoStatus       == 0     \* no answer at all
RequestTimeout == 460   \* stands for a 400 with this name
Failures == {NoStatus, 400, 403, 408, 429, RequestTimeout, 500}

\* What the S3 client makes of the status of an answer, and of the one name that
\* says more than the status it comes with.
MapAwsS3Error(operation, status) ==
    IF operation = "put" /\ status \in {409, 412} THEN "conflict"
    ELSE IF operation # "put" /\ status = 404 THEN "not_found"
    ELSE IF status = 403 THEN "access_denied"
    ELSE IF status \in {NoStatus, 408, 429, RequestTimeout} \/ status >= 500 THEN "ambiguous"
    ELSE "definitive"

Recoverable(status) == MapAwsS3Error("put", status) \in {"conflict", "ambiguous"}

local == <<files, scribbles, collected, made>>

PutObject ==
    /\ pc = "put"
    /\ request' = artifact
    /\ pc' = "answer"
    /\ UNCHANGED <<local, artifact, object, bucket, tampered, faults, confirmed>>

\* If-None-Match: only a key without an object takes one.
PutLands ==
    /\ request # Nothing
    /\ object' = IF object = Nothing THEN request ELSE object
    /\ request' = Nothing
    /\ UNCHANGED <<local, pc, artifact, bucket, tampered, faults, confirmed>>

\* 412 answers the client's own repetition of a request that had landed; 409 one
\* that meets the first while it is under way.
PutAnswered(status) ==
    /\ pc = "answer"
    /\ \/ status = 200 /\ request = Nothing /\ object # Nothing /\ UNCHANGED <<request, faults>>
       \/ status = 412 /\ object # Nothing /\ UNCHANGED <<request, faults>>
       \/ status = 409 /\ Fault /\ UNCHANGED request
       \/ status \in {400, 403} /\ request # Nothing /\ Fault /\ request' = Nothing
       \/ status \in Failures \ {400, 403} /\ Fault /\ request' \in {request, Nothing}
    /\ pc' = IF status = 200 \/ Recoverable(status) THEN "confirm" ELSE "failure"
    /\ UNCHANGED <<local, artifact, object, bucket, tampered, confirmed>>

\* HeadObject or GetObject: its answers, and what may go wrong with them.
Answers(status) ==
    \/ status = 200 /\ object # Nothing /\ UNCHANGED faults
    \/ status = (IF bucket.listable THEN 404 ELSE 403) /\ object = Nothing /\ UNCHANGED faults
    \/ status \in Failures /\ Fault

Statuses == {200, 404, 409, 412} \cup Failures

\* The checksum and the metadata of the object are those of the artifact.
HeadMatches(expected) == object = expected

\* Encrypted with SSE-S3, without a version ID, and with what HeadMatches needs.
ObservationPresent == bucket.baseline

StorageConfirms(expected) == ObservationPresent /\ HeadMatches(expected)

ConfirmByHead(status) ==
    /\ pc = "confirm"
    /\ Answers(status)
    /\ \/ /\ status = 200 /\ StorageConfirms(artifact)
          /\ pc' = "success"
          /\ confirmed' = TRUE
       \/ /\ ~(status = 200 /\ StorageConfirms(artifact))
          /\ pc' = "failure"
          /\ UNCHANGED confirmed
    /\ UNCHANGED <<local, artifact, storage>>

-----------------------------------------------------------------------------
(* Crashes, and the recovery of a start that finds the record Agent        *)
(* Running.  "unknown" is an exception: the start fails.                   *)

Forget ==
    /\ outcome' = "none"
    /\ tracked' = {} /\ others' = {} /\ undiffed' = {}
    /\ patch' = Empty
    /\ artifact' = Nothing

\* A verdict that was not written to the record is forgotten too.
Crash ==
    /\ pc # "down"
    /\ Fault
    /\ pc' = "down"
    /\ Forget
    /\ UNCHANGED <<files, scribbles, storage, said, made, confirmed>>

StopUnresolved ==
    /\ pc = "unknown"
    /\ pc' = "down"
    /\ Forget
    /\ UNCHANGED <<files, scribbles, storage, faults, said, made, confirmed>>

Start ==
    /\ pc = "down"
    /\ pc' = "head"
    /\ Forget
    /\ UNCHANGED <<files, scribbles, storage, faults, said, made, confirmed>>

\* Slip: without permission to list, an object that is absent answers 403.
DeniedIsAbsent(status) == status \in {403, 404}

Absent(status) == MapAwsS3Error("head", status) = "not_found"

\* The checksum HeadObject answered is kept in the form of the artifact it is of.
RecoverHead(status) ==
    /\ pc = "head"
    /\ Answers(status)
    /\ \/ status = 200 /\ ObservationPresent /\ artifact' = object /\ pc' = "get"
       \/ status = 200 /\ ~ObservationPresent /\ pc' = "unknown" /\ UNCHANGED artifact
       \/ /\ status # 200
          /\ pc' = IF Absent(status) THEN "absent" ELSE "unknown"
          /\ UNCHANGED artifact
    /\ UNCHANGED <<local, storage, confirmed>>

\* verifyPhase49ArtifactBody: the fetched body parses and is canonical, its patch has
\* the manifest's checksum.
ReadsAsDocument(body) == body.identity # "garbage"
BodyVerifies(body)    == ReadsAsDocument(body) /\ body.checksum = body.patch

\* assertRecoveredIdentity
IsOfThisExecution(document) == document.identity = "ours"

\* What was fetched has the checksum HeadObject answered and the identity of the
\* record, and an artifact built from it anew is what is stored.
Recovers ==
    /\ ObservationPresent
    /\ HeadMatches(artifact)
    /\ BodyVerifies(object)
    /\ IsOfThisExecution(object)
    /\ Builds(object)

RecoverGet(status) ==
    /\ pc = "get"
    /\ Answers(status)
    /\ pc' = IF status = 200
             THEN IF Recovers THEN "recovered" ELSE "unknown"
             ELSE IF Absent(status) THEN "absent" ELSE "unknown"
    /\ UNCHANGED <<local, artifact, storage, confirmed>>

Foreign == Document("other", "no_changes", {}, <<>>, <<>>)
Garbage == Document("garbage", "none", {}, <<>>, <<>>)

\* One that keeps its manifest and not its patch, or loses its list of files.
Damaged(a) ==
    {Document(a.identity, a.outcome, a.changed, a.checksum, text) : text \in {<<>>, <<"u">>} \ {a.patch}}
    \cup {Document(a.identity, "changes_ready", {}, a.checksum, a.patch)}

\* Somebody with more rights than the Controller deletes the object, puts that of
\* another execution in its place, or leaves one that is no valid artifact.
Tamper ==
    /\ ~tampered
    /\ object # Nothing
    /\ tampered' = TRUE
    /\ object' \in {Nothing, Foreign, Garbage} \cup Damaged(object)
    /\ UNCHANGED <<local, pc, artifact, request, bucket, faults, confirmed>>

Collecting ==
    \/ DetectChanges \/ ListTracked \/ ListUntracked \/ DiffTracked
    \/ \E p \in PathSet : DiffUntracked(p)
    \/ Collected \/ GitFails

Storing ==
    \/ BuildArtifact \/ PutObject \/ PutLands \/ Tamper
    \/ \E status \in Statuses : PutAnswered(status) \/ ConfirmByHead(status)

Recovering ==
    \/ Crash \/ StopUnresolved \/ Start
    \/ \E status \in Statuses : RecoverHead(status) \/ RecoverGet(status)

Next == Collecting \/ Storing \/ Recovering \/ \E p \in PathSet : Scribble(p)

Spec == Init /\ [][Next]_vars

-----------------------------------------------------------------------------
(* Properties.                                                             *)

Bytes     == {"a", "h", "t", "x"} \cup {"u", "f", "d"}
Artifacts == [identity : {"ours", "other"}, outcome : {"changes_ready", "no_changes"},
              changed : SUBSET (PathSet \X {"tracked", "untracked"}),
              checksum : Seq(Bytes), patch : Seq(Bytes)]

\* The types of the state; a capture never holds more than its limit
\* (sandbox/resource-policy.ts).
TypeOK ==
    /\ files \in [PathSet -> Changes \cup {Unchanged}]
    /\ scribbles \in 0..MaxScribbles
    /\ pc \in Awaits \cup Verdicts \cup {"down"}
    /\ outcome \in {"none", "changes_ready", "no_changes"}
    /\ tracked \subseteq PathSet
    /\ others \subseteq PathSet \ tracked
    /\ undiffed \subseteq others
    /\ patch \in [bytes : Seq(Bytes), truncated : BOOLEAN]
    /\ Len(patch.bytes) <= PatchLimit
    /\ {artifact, request, object, made} \subseteq Artifacts \cup {Nothing, Garbage}
    /\ bucket \in [baseline : BOOLEAN, listable : BOOLEAN]
    /\ {tampered, confirmed} \subseteq BOOLEAN
    /\ faults \in 0..MaxFaults
    /\ said \in Seq(Seq(Bytes))

\* An artifact holds all that git printed, cut nowhere: not by the capture of a git
\* call, not by the capture of the patch.  Without processes that go on writing, its
\* list is that of the files its patch changes (development/change-set.ts).
ArtifactIsWhatGitSaid ==
    made # Nothing =>
        /\ made.patch = FlattenSeq([k \in 1..Len(said) |-> Decoded(said[k])])
        /\ scribbles = 0 =>
             /\ made.changed = {<<p, files[p].kind>> : p \in PathSet \ OfKind("same")}
             /\ made.outcome = "no_changes" <=> made.changed = {}

\* Every verdict about the bucket is true: what the success finalizer is given is the
\* artifact of the attempt, stored and whole; and an execution whose artifact was
\* confirmed is never taken for one without, whatever S3 answers and however often
\* the process restarts (artifact/s3-persistence.ts, phase49-artifact-reconciler.ts).
VerdictsAreTrue ==
    /\ pc \in {"success", "recovered"} =>
         /\ artifact = made /\ made # Nothing
         /\ ~tampered => object = made
    /\ pc = "absent" /\ ~tampered => ~confirmed

\* The contract: "The exact patch string is preserved."
\* (docs/contracts/phase49-artifact-contract.md)
PatchIsExact == made # Nothing => made.patch = FlattenSeq(said)
=============================================================================
