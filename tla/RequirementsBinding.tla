-------------------------- MODULE RequirementsBinding --------------------------
(***************************************************************************)
(* What an approval is bound to.  An Agent Brief is generated from an      *)
(* Issue and committed to the canonical branch; a person approves it; the  *)
(* Runner fetches the Issue and decides whether the approval names a Brief *)
(* that is on that branch and whether the Issue still asks for what that   *)
(* Brief was made from.                                                    *)
(*                                                                         *)
(* The second question is answered by a fingerprint of a bounded           *)
(* projection of the Issue.  A hash is modelled by what it is computed     *)
(* from, and so is the name of a git blob.                                 *)
(***************************************************************************)
EXTENDS Integers, Sequences, SequencesExt, FiniteSets, FiniteSetsExt

CONSTANTS
    InitialIssues,  \* what the Issue may ask for to begin with
    Texts,          \* what people may write
    Fields,         \* the allow-listed custom fields, in their order
    Related,        \* the Issues that may be related to this one
    Children,       \* those that may be its children
    TextLimit,      \* bytes of a projected text (256 to 8,192 in the code)
    ShortLimit,     \* FINAL_BUDGET_DESCRIPTION_BYTES
    MaxJournals, MaxRelations, MaxChildren,
    Budget,         \* MAX_SERIALIZED_BYTES
    Revisions,      \* revisions of the Brief, 1..n
    MaxEdits,       \* bound on edits of the Issue
    MaxMeddles      \* bound on edits of the approval and the branch by hand

\* What the texts of an Issue are made of, and the Issues there can be.
Characters == {"a", "b", "w", "s", " ", "*", "~"}
Text       == Seq(Characters)
Issues     == [scope : {"here", "there"}, name : Text, subject : Text, description : Text,
               fields : [Fields -> Text], journals : Seq(Text), relations : SUBSET Related,
               children : [Children -> Text]]

ASSUME RevisionsArePositive == Revisions \subseteq Nat \ {0}
ASSUME IssuesHaveText == InitialIssues \subseteq Issues /\ Texts \subseteq Text
ASSUME IdsAreFinite ==
    \A S \in {Fields, Related, Children} : S \subseteq Nat /\ IsFiniteSet(S)
ASSUME LimitsAreNatural ==
    {TextLimit, ShortLimit, MaxJournals, MaxRelations, MaxChildren, Budget} \subseteq Nat
ASSUME Bounds == MaxEdits \in Nat /\ MaxMeddles \in Nat

VARIABLES
    issue,          \* what the Issue asks for
    evidence,       \* its approval fields
    branch,         \* revision -> the blob at its path on the canonical branch
    edits,
    meddles,
    \* the Runner
    pc,             \* what it does next, or its verdict
    fetched,        \* the Issue and its approval, as fetched
    \* history
    generated       \* every Brief that was generated, with its Issue

vars == <<issue, evidence, branch, edits, meddles, pc, fetched, generated>>

-----------------------------------------------------------------------------
(* Texts: sequences of characters.  "s" is a configured secret, "*" what   *)
(* replaces it, "~" the ellipsis, "w" a character of two bytes.            *)

EllipsisBytes == 3

ByteLength(t) ==
    LET Places(chars) == {k \in DOMAIN t : t[k] \in chars} IN
    Len(t) + Cardinality(Places({"w", "*", "~"})) + Cardinality(Places({"~"}))

Normalized(t) ==
    LET ink == {k \in 1..Len(t) : t[k] # " "} IN
    IF ink = {} THEN <<>> ELSE SubSeq(t, Min(ink), Max(ink))

Sanitized(t) ==
    LET n == Normalized(t) IN [k \in 1..Len(n) |-> IF n[k] = "s" THEN "*" ELSE n[k]]

TruncateUtf8(t, max) ==
    IF ByteLength(t) <= max THEN t
    ELSE LET fits == {k \in 0..Len(t) : ByteLength(SubSeq(t, 1, k)) + EllipsisBytes <= max} IN
         Append(SubSeq(t, 1, Max(fits \cup {0})), "~")

Bounded(t) == TruncateUtf8(Sanitized(t), TextLimit)

\* What the projection notes about a text: both lists count in its size.
Marks(path, t) ==
    (IF Sanitized(t) = Normalized(t) THEN {} ELSE {<<"redacted", path>>})
    \cup (IF Bounded(t) = Sanitized(t) THEN {} ELSE {<<"truncated", path>>})

-----------------------------------------------------------------------------
(* The projection and its fingerprint.                                     *)

\* In ascending order: the k-th has k - 1 before it.
Sorted(S) ==
    [k \in 1..Cardinality(S) |-> CHOOSE x \in S : Cardinality({y \in S : y < x}) = k - 1]

First(s, n)  == SubSeq(s, 1, Min({n, Len(s)}))
Newest(s, n) == SubSeq(s, Max({0, Len(s) - n}) + 1, Len(s))

\* Journals are in the order in which they were written; one without notes records
\* some other change of the Issue.
Notes(journals) ==
    LET noted == {k \in DOMAIN journals : Normalized(journals[k]) # <<>>} IN
    [n \in 1..Cardinality(noted) |-> journals[Sorted(noted)[n]]]

\* Slip: the newest journals are taken before the ones without notes are left out.
NewestJournals(journals) == Notes(Newest(journals, MaxJournals))

SelectedNotes(journals) == Newest(Notes(journals), MaxJournals)

\* An empty subject stands for no such child.
Project(i) ==
    LET fields   == Sorted({f \in Fields : Bounded(i.fields[f]) # <<>>})
        notes    == SelectedNotes(i.journals)
        children == First(Sorted({c \in Children : Normalized(i.children[c]) # <<>>}), MaxChildren)
    IN [scope       |-> i.scope,
        name        |-> Bounded(i.name),
        subject     |-> Bounded(i.subject),
        description |-> Bounded(i.description),
        fields      |-> [k \in DOMAIN fields |-> <<fields[k], Bounded(i.fields[fields[k]])>>],
        notes       |-> [k \in DOMAIN notes |-> Bounded(notes[k])],
        relations   |-> First(Sorted(i.relations), MaxRelations),
        children    |-> [k \in DOMAIN children |->
                           <<children[k], Bounded(i.children[children[k]])>>],
        marks       |-> UNION ({Marks(<<part, 0>>, i[part]) :
                                  part \in {"name", "subject", "description"}}
                               \cup {Marks(<<"field", k>>, i.fields[fields[k]]) : k \in DOMAIN fields}
                               \cup {Marks(<<"note", k>>, notes[k]) : k \in DOMAIN notes}
                               \cup {Marks(<<"child", k>>, i.children[children[k]]) :
                                       k \in DOMAIN children})]

\* The serialized input: its texts, and a byte for every item and every mark.
Size(in) ==
    LET texts == <<in.name, in.subject, in.description>> \o in.notes
                 \o [k \in DOMAIN in.fields |-> in.fields[k][2]]
                 \o [k \in DOMAIN in.children |-> in.children[k][2]]
    IN ByteLength(FlattenSeq(texts)) + Len(texts) + Len(in.relations) + Cardinality(in.marks)

\* Slip: the newest note goes first.
DropNewestNote(notes) == Front(notes)

DropNote(notes) == Tail(notes)

Shorten(in, path, text, limit) ==
    [text  |-> TruncateUtf8(text, limit),
     marks |-> in.marks \cup (IF TruncateUtf8(text, limit) = text THEN {}
                               ELSE {<<"truncated", path>>})]

GiveUp(in, step) ==
    LET k == step[2]
        value == Shorten(in, step, in.fields[k][2], EllipsisBytes)
        text  == Shorten(in, step, in.description, ShortLimit)
    IN CASE step[1] = "note"        -> [in EXCEPT !.notes = DropNote(@)]
         [] step[1] = "child"       -> [in EXCEPT !.children = Front(@)]
         [] step[1] = "relation"    -> [in EXCEPT !.relations = Front(@)]
         [] step[1] = "field"       ->
              [in EXCEPT !.fields[k][2] = value.text, !.marks = value.marks]
         [] step[1] = "description" ->
              [in EXCEPT !.description = text.text, !.marks = text.marks]

\* What is given up, in this order, as long as the input is too large.
Sacrifices(in) ==
    [k \in DOMAIN in.notes |-> <<"note", k>>]
    \o [k \in DOMAIN in.children |-> <<"child", k>>]
    \o [k \in DOMAIN in.relations |-> <<"relation", k>>]
    \o [k \in DOMAIN in.fields |-> <<"field", Len(in.fields) + 1 - k>>]
    \o <<<<"description", 0>>>>

EnforceFinalBudget(in) ==
    LET steps == Sacrifices(in)
        kept[k \in 0..Len(steps)] ==
            IF k = 0 THEN in
            ELSE LET before == kept[k - 1] IN
                 IF Size(before) > Budget THEN GiveUp(before, steps[k]) ELSE before
    IN kept[Len(steps)]

Payload == {"scope", "subject", "description", "fields", "notes", "relations", "children"}

Fingerprint(i) ==
    LET in == EnforceFinalBudget(Project(i)) IN [part \in Payload |-> in[part]]

\* The projection throws.
Fails(i) == Bounded(i.subject) = <<>> \/ Size(EnforceFinalBudget(Project(i))) > Budget

-----------------------------------------------------------------------------
(* Briefs and approvals.                                                   *)

NoBlob    == [owner |-> "nobody"]
Malformed == [owner |-> "nobody"]   \* an approval field that does not parse
Brief(owner, r, i) == [owner |-> owner, revision |-> r, fingerprint |-> Fingerprint(i)]

Unapproved == [ready |-> FALSE, revision |-> 0, persisted |-> NoBlob, fingerprint |-> Malformed]

Init ==
    /\ issue \in InitialIssues
    /\ evidence = Unapproved
    /\ branch = [r \in Revisions |-> NoBlob]
    /\ edits = 0
    /\ meddles = 0
    /\ pc = "idle"
    /\ fetched = [issue |-> issue, evidence |-> Unapproved]
    /\ generated = {}

runner == <<pc, fetched>>

Verdicts == {"invalid", "stale", "failed", "current"}

\* The verdict is recorded, and the Issue is not looked at again.
Undecided == pc \notin Verdicts

\* People edit the Issue.
Edit(changed) ==
    /\ Undecided
    /\ edits < MaxEdits
    /\ edits' = edits + 1
    /\ issue' = changed
    /\ UNCHANGED <<evidence, branch, meddles, runner, generated>>

People ==
    \/ \E t \in Texts :
         \/ \E part \in {"name", "subject"} :
              Normalized(t) # <<>> /\ Edit([issue EXCEPT ![part] = t])
         \/ Edit([issue EXCEPT !.description = t])
         \/ \E f \in Fields : Edit([issue EXCEPT !.fields[f] = t])
         \/ \E c \in Children : Edit([issue EXCEPT !.children[c] = t])
         \/ \E k \in DOMAIN issue.journals : Edit([issue EXCEPT !.journals[k] = t])
         \/ Edit([issue EXCEPT !.journals = Append(@, t)])
    \/ \E r \in Related :
         Edit([issue EXCEPT !.relations = IF r \in @ THEN @ \ {r} ELSE @ \cup {r}])
    \/ Edit([issue EXCEPT !.scope = IF @ = "here" THEN "there" ELSE "here"])

Generate(r) ==
    /\ Undecided
    /\ branch[r] = NoBlob
    /\ ~Fails(issue)
    /\ branch' = [branch EXCEPT ![r] = Brief("ours", r, issue)]
    /\ generated' = generated \cup {[brief |-> branch'[r], of |-> issue]}
    /\ UNCHANGED <<issue, evidence, edits, meddles, runner>>

Approve(r) ==
    /\ Undecided
    /\ branch[r] # NoBlob
    /\ evidence' = [ready |-> TRUE, revision |-> r, persisted |-> branch[r],
                    fingerprint |-> branch[r].fingerprint]
    /\ UNCHANGED <<issue, branch, edits, meddles, runner, generated>>

Meddle == Undecided /\ meddles < MaxMeddles /\ meddles' = meddles + 1

\* An approval field is edited by hand: the fingerprint may be the one a person
\* computes for the Issue as it is.
EditApproval ==
    /\ Meddle
    /\ \/ evidence' = [evidence EXCEPT !.ready = ~@]
       \/ \E r \in Revisions : \/ evidence' = [evidence EXCEPT !.revision = r]
                              \/ evidence' = [evidence EXCEPT !.persisted = branch[r]]
       \/ \E f \in {Fingerprint(issue), Malformed} : evidence' = [evidence EXCEPT !.fingerprint = f]
    /\ UNCHANGED <<issue, branch, edits, runner, generated>>

\* A Brief is put where it does not belong, or taken away: one of another revision,
\* or one of an Issue that asks for the same.  A Brief of this Issue is the
\* generator's: nobody writes or edits one by hand.
RewriteBranch(r) ==
    /\ Meddle
    /\ \E b \in {branch[q] : q \in Revisions} \cup {NoBlob, Brief("other", r, issue)} :
         branch' = [branch EXCEPT ![r] = b]
    /\ UNCHANGED <<issue, evidence, edits, runner, generated>>

-----------------------------------------------------------------------------
(* The Runner.                                                             *)

world == <<issue, evidence, branch, edits, meddles, generated>>

Refetch ==
    /\ pc = "idle"
    /\ evidence.ready
    /\ fetched' = [issue |-> issue, evidence |-> evidence]
    /\ pc' = "lstree"
    /\ UNCHANGED world

\* Slip: the fingerprint's form is not checked.
ParsesWithout(e) == e.ready /\ e.revision > 0 /\ e.persisted # NoBlob

\* parseApprovalEvidence
Parses(e) ==
    /\ e.ready
    /\ e.revision > 0
    /\ e.persisted # NoBlob
    /\ e.fingerprint # Malformed

\* git ls-tree: the blob at the path of the approved revision is the approved one.
ReadTree ==
    /\ pc = "lstree"
    /\ LET e == fetched.evidence IN
         pc' = IF Parses(e) /\ branch[e.revision] = e.persisted THEN "show" ELSE "invalid"
    /\ UNCHANGED <<world, fetched>>

\* Slip: the Brief's own fingerprint is not compared.
NamesOnly(brief, e) == brief.owner = "ours" /\ brief.revision = e.revision

FrontmatterMatches(brief, e) ==
    /\ brief.owner = "ours"
    /\ brief.revision = e.revision
    /\ brief.fingerprint = e.fingerprint

\* git show names the blob, not the path: the branch may have moved on.
ShowBlob ==
    /\ pc = "show"
    /\ LET e == fetched.evidence IN
         pc' = IF FrontmatterMatches(e.persisted, e) THEN "revalidate" ELSE "invalid"
    /\ UNCHANGED <<world, fetched>>

\* A git call fails, or what it prints is no Brief.
GitFails ==
    /\ pc \in {"lstree", "show"}
    /\ pc' = "invalid"
    /\ UNCHANGED <<world, fetched>>

Revalidate ==
    /\ pc = "revalidate"
    /\ pc' = IF Fails(fetched.issue) THEN "failed"
             ELSE IF Fingerprint(fetched.issue) = fetched.evidence.fingerprint THEN "current"
             ELSE "stale"
    /\ UNCHANGED <<world, fetched>>

Next ==
    \/ People
    \/ \E r \in Revisions : Generate(r) \/ Approve(r) \/ RewriteBranch(r)
    \/ EditApproval
    \/ Refetch \/ ReadTree \/ ShowBlob \/ GitFails \/ Revalidate

Spec == Init /\ [][Next]_vars

-----------------------------------------------------------------------------
(* Properties.                                                             *)

\* The types of the state; what has been decided was decided about an approval that
\* can be read (agent-brief/handoff-binding.ts).
TypeOK ==
    /\ edits \in 0..MaxEdits
    /\ meddles \in 0..MaxMeddles
    /\ pc \in {"idle", "lstree", "show", "revalidate"} \cup Verdicts
    /\ {issue, fetched.issue} \subseteq Issues
    /\ DOMAIN branch = Revisions
    /\ evidence.revision \in Revisions \cup {0}
    /\ fetched.evidence.revision \in Revisions \cup {0}
    /\ pc \in {"show", "revalidate", "stale", "failed", "current"} =>
         fetched.evidence.persisted # NoBlob /\ fetched.evidence.fingerprint # Malformed

\* What is accepted has a Brief of this Issue and of the approved revision, generated
\* from an Issue that asked for the same; whoever wrote the approval fields, and
\* wherever the generated Briefs were moved on the branch.  The Runner takes the
\* frontmatter's word: a Brief of this Issue written by hand would be accepted when it
\* agrees with the approval (agent-brief/handoff-binding.ts, requirements-binding.ts).
AcceptedIsGrounded ==
    pc = "current" =>
        \E g \in generated :
            /\ g.brief = fetched.evidence.persisted
            /\ g.brief.revision = fetched.evidence.revision
            /\ Fingerprint(g.of) = Fingerprint(fetched.issue)

\* What people ask for.  Names count, for the room they take.
Substance(i) ==
    [parts    |-> [part \in {"name", "subject", "description"} |-> Normalized(i[part])],
     scope    |-> i.scope,
     fields   |-> [f \in Fields |-> Normalized(i.fields[f])],
     notes    |-> [k \in DOMAIN Notes(i.journals) |-> Normalized(Notes(i.journals)[k])],
     relations |-> i.relations,
     children |-> [c \in Children |-> Normalized(i.children[c])]]

\* An approval is turned down as stale, or as impossible to check, only when people
\* changed what the Issue asks for: changes of its other attributes, which leave
\* journals without notes, and space around its texts never do it
\* (agent-brief/requirements-fingerprint-compat.ts).
StaleMeansEdited ==
    pc \in {"stale", "failed"} =>
        \A g \in generated :
            g.brief = fetched.evidence.persisted => Substance(g.of) # Substance(fetched.issue)

\* What the budget costs: the oldest notes first, and no more of them than it takes;
\* nothing else before the notes are gone, no relation before the children, no text
\* before the relations (enforceFinalBudget).
LeastIsDropped ==
    pc = "revalidate" =>
    LET whole == Project(fetched.issue)
        kept  == EnforceFinalBudget(whole)
        Kept(n) == [kept EXCEPT !.notes = Newest(whole.notes, n)]
        rest  == Payload \ {"notes"}
    IN /\ kept = Kept(Len(kept.notes))
       /\ kept.notes # <<>> => \A part \in rest : kept[part] = whole[part]
       /\ kept.children # <<>> =>
            \A part \in rest \ {"children"} : kept[part] = whole[part]
       /\ kept.relations # <<>> =>
            kept.fields = whole.fields /\ kept.description = whole.description
       /\ (\A part \in rest : kept[part] = whole[part]) /\ Len(kept.notes) < Len(whole.notes)
            => Size(Kept(Len(kept.notes) + 1)) > Budget
=============================================================================
