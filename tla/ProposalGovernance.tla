-------------------------- MODULE ProposalGovernance --------------------------
(***************************************************************************)
(* The decision on a recognition proposal.  Recognition leaves a pending   *)
(* proposal, a provisional template version and a plan (worker.py,         *)
(* create_provisional_template); a governor accepts it with one decision   *)
(* for each unresolved column (batches.py accept_item_proposal, one        *)
(* transaction over governance.py, accept_recognition_proposal and         *)
(* approve_plan) or rejects it; editors add drafts of field versions and   *)
(* publish them later.                                                     *)
(*                                                                         *)
(* A request may be slow: it reads, statement by statement, others commit  *)
(* in between, and then it writes what it computed.  The row locks of the  *)
(* database do not stop that; only the unique constraints do.              *)
(***************************************************************************)
EXTENDS Integers, Sequences, FiniteSets, SequencesExt

CONSTANTS
  Proposals,         \* one per item
  Anchored,          \* those whose match names the published template "base"
  Variants,          \* names by which columns are recognised
  DraftVariants,     \* the sets of them that editors give their drafts
  MaxFieldVersions   \* bound on the versions of one field

ASSUME GovernanceAssumption ==
  /\ Anchored \subseteq Proposals /\ IsFiniteSet(Proposals)
  /\ DraftVariants \subseteq SUBSET Variants
  /\ MaxFieldVersions \in Nat \ {0} /\ "base" \notin Proposals

VARIABLES
  fields,      \* of each field the number of its published version (0: none)
               \* and its versions, with the variants it is recognised by
  drafts,      \* for each document template its versions
  regions,     \* number of the region versions that governors published
  cases,       \* for each proposal its status, resolution and latest plan
  pending,     \* a decision that has read and not yet written
  publishing,  \* the draft that an editor's request has read and not yet
               \* published (0: none)
  raced        \* proposals that were decided under a slow decision on them

governanceVars == <<fields, drafts, regions, cases, pending, publishing, raced>>
catalogue == [fields |-> fields, drafts |-> drafts, regions |-> regions, cases |-> cases]

-----------------------------------------------------------------------------
Kinds == {"known", "coined"}      \* a published field, and a code not used yet

NoField == [published |-> 0, versions |-> <<>>]
InForce(variants) == [draft |-> FALSE, variants |-> variants]

(* The variants of the published version. *)
Known(row) == IF row.published = 0 THEN {} ELSE row.versions[row.published].variants

FieldDrafts(row) == {n \in DOMAIN row.versions : row.versions[n].draft}

(* The newest version is the published one, and there is no draft. *)
AtNewest(row) == row.published = Len(row.versions) /\ FieldDrafts(row) = {}

NoRequestYet == [kind |-> "none"]
NoCase == [status |-> "none", resolution |-> {}, plan |-> "none"]

TemplateOf(p) == IF p \in Anchored THEN "base" ELSE p

(* One decision of a submission: reuse the field as the governor saw it, with *)
(* at most one alias or path to learn, create a field, or ignore the column.  *)
Decisions ==
  [mode: {"reuse_existing"}, field: {"known"}, expected: 1..MaxFieldVersions,
   learn: {{}} \cup {{v} : v \in Variants}]
    \cup {[mode |-> "create_new", field |-> "coined", expected |-> 0, learn |-> {}],
          [mode |-> "ignore", field |-> "known", expected |-> 0, learn |-> {}]}

(* One decision for each of the two columns whose FieldMatch requires Hermes; *)
(* what the governor saw is the present version or the one before it.         *)
SubmissionsOf(view) ==
  LET shown == {d \in Decisions : d.expected - view.fields["known"].published \in {-1, 0}
                                    \/ d.mode # "reuse_existing"}
  IN  shown \X shown

VersionOfField == [draft: BOOLEAN, variants: SUBSET Variants]
DraftRow == [status: {"published", "user_confirmed", "admin_review", "deprecated"},
             of: Proposals \cup {"base"}]
CaseRow == [status: {"none", "pending", "accepted", "rejected"},
            resolution: SUBSET SUBSET Variants,
            plan: {"none", "hermes_provisional", "hermes"}]

GovernanceTypeOK ==
  /\ DOMAIN fields = Kinds
  /\ \A f \in Kinds : /\ fields[f].versions \in Seq(VersionOfField)
                      /\ fields[f].published \in 0..Len(fields[f].versions)
  /\ drafts \in [Proposals \cup {"base"} -> Seq(DraftRow)]
  /\ regions \in 0..Cardinality(Proposals)
  /\ cases \in [Proposals -> CaseRow]
  /\ pending.kind \in {"none", "accept", "reject"}
  /\ publishing \in {0} \cup DOMAIN fields["known"].versions
  /\ raced \subseteq Proposals

GovernanceInit ==
  /\ fields = [f \in Kinds |->
                 IF f = "known" THEN [published |-> 1, versions |-> <<InForce({})>>]
                 ELSE NoField]
  /\ drafts = [t \in Proposals \cup {"base"} |->
                 IF t = "base" THEN <<[status |-> "published", of |-> "base"]>> ELSE <<>>]
  /\ regions = 0
  /\ cases = [p \in Proposals |-> NoCase]
  /\ pending = NoRequestYet
  /\ publishing = 0
  /\ raced = {}

-----------------------------------------------------------------------------
(* commit_field_governance works through the submission in one session.      *)

WithVersion(row, variants) ==
  [published |-> Len(row.versions) + 1, versions |-> Append(row.versions, InForce(variants))]

(* Mutant: the new version holds the new variants only.                      *)
LearnedAnew(row, learn) ==
  IF learn \subseteq Known(row) THEN row ELSE WithVersion(row, learn)

(* _publish_field_learning: nothing new, or the published version is copied  *)
(* to one with the next number, which is published.                          *)
Learned(row, learn) ==
  IF learn \subseteq Known(row) THEN row ELSE WithVersion(row, Known(row) \cup learn)

CreatedField(learn) == WithVersion(NoField, learn)

(* The first decision on a field is held to its expected version, the later  *)
(* ones to the same expectation.                                             *)
Expected(session, d) ==
  IF session.seen[d.field] = -1
  THEN d.expected \in {0, session.fields[d.field].published}
  ELSE session.seen[d.field] = d.expected

Decide(session, d) ==
  IF d.mode = "ignore" THEN session
  ELSE IF d.mode = "create_new"
  THEN IF session.fields[d.field] # NoField THEN [session EXCEPT !.ok = FALSE]
       ELSE [session EXCEPT !.fields[d.field] = CreatedField(d.learn)]
  ELSE IF session.fields[d.field].published = 0 \/ ~Expected(session, d)
  THEN [session EXCEPT !.ok = FALSE]
  ELSE [session EXCEPT !.fields[d.field] = Learned(@, d.learn),
                       !.seen[d.field] = d.expected]

CommitFieldGovernance(view, submission) ==
  LET begun == [ok |-> TRUE, fields |-> view.fields, seen |-> [f \in Kinds |-> -1]]
  IN  Decide(Decide(begun, submission[1]), submission[2])

Provisional(view, p) ==
  {v \in DOMAIN view.drafts[TemplateOf(p)] :
     /\ view.drafts[TemplateOf(p)][v].status = "admin_review"
     /\ view.drafts[TemplateOf(p)][v].of = p}

(* Mutant: the provisional version stays in review.                          *)
AcceptedDraftsKept(versions, p) == Append(versions, [status |-> "user_confirmed", of |-> p])

AcceptedDrafts(versions, p) ==
  Append([v \in DOMAIN versions |->
            IF versions[v].of = p /\ versions[v].status = "admin_review"
            THEN [versions[v] EXCEPT !.status = "deprecated"] ELSE versions[v]],
         [status |-> "user_confirmed", of |-> p])

StillPending(view, p) ==
  view.cases[p].status = "pending" /\ view.cases[p].resolution = {}

(* accept_recognition_proposal: the base is still published, and no version  *)
(* but the provisional one is being edited.                                  *)
Editable(view, p) ==
  /\ p \in Anchored =>
       LET versions == view.drafts["base"]
       IN  /\ versions[1].status = "published"
           /\ \A v \in DOMAIN versions :
                versions[v].status \in {"published", "deprecated"} \/ v \in Provisional(view, p)
  /\ p \in Anchored \/ Provisional(view, p) # {}

(* learned_variant_keys of the rows: the variants new to field "known".       *)
Taught(view, submission) ==
  (UNION {d.learn : d \in {x \in Range(submission) :
                              x.mode = "reuse_existing" /\ x.field = "known"}})
    \ Known(view.fields["known"])

(* What an acceptance makes of the database it reads.                        *)
Accepted(view, p, submission) ==
  LET session == CommitFieldGovernance(view, submission)
  IN  [fields |-> session.fields,
       drafts |-> [view.drafts EXCEPT ![TemplateOf(p)] = AcceptedDrafts(@, p)],
       regions |-> view.regions + 1,
       cases |-> [view.cases EXCEPT ![p] =
                    [status |-> "accepted", resolution |-> {Taught(view, submission)},
                     plan |-> "hermes"]]]

-----------------------------------------------------------------------------
VersionsBounded(rows) == \A f \in Kinds : Len(rows[f].versions) <= MaxFieldVersions

(* A request may write what it read and computed if no unique constraint is  *)
(* hit: the numbers of the versions it adds, and one resolution a proposal.  *)
Unhit(before, after) ==
  /\ \A f \in Kinds : after.fields[f].versions # before.fields[f].versions =>
                        Len(fields[f].versions) = Len(before.fields[f].versions)
  /\ \A t \in DOMAIN drafts :
       after.drafts[t] # before.drafts[t] => Len(drafts[t]) = Len(before.drafts[t])
  /\ after.regions # before.regions => regions = before.regions
  /\ \A p \in Proposals : after.cases[p].resolution # before.cases[p].resolution =>
                            cases[p].resolution = {}

(* The versions that the request adds to a field, and the last one published. *)
Extended(row, before, after) ==
  IF after.versions = before.versions THEN row
  ELSE [published |-> after.published,
        versions |-> row.versions \o SubSeq(after.versions, Len(before.versions) + 1,
                                            Len(after.versions))]

Write(before, after) ==
  /\ VersionsBounded(after.fields)
  /\ Unhit(before, after)
  /\ fields' = [f \in Kinds |-> Extended(fields[f], before.fields[f], after.fields[f])]
  /\ drafts' = [t \in DOMAIN drafts |->
                  IF after.drafts[t] # before.drafts[t] THEN after.drafts[t] ELSE drafts[t]]
  /\ regions' = IF after.regions # before.regions THEN after.regions ELSE regions
  /\ cases' = [p \in Proposals |->
                 IF after.cases[p] # before.cases[p] THEN after.cases[p] ELSE cases[p]]

(* recognize_template_diff, its last transaction.  A later run of the same   *)
(* job finds the proposal and its provisional version; its plan must be the  *)
(* latest one still, and the proposal pending, or the run fails.             *)
RecognizeTemplateDiff(p) ==
  /\ cases[p] = NoCase
  /\ \E coined \in {f \in BOOLEAN : f => fields["coined"] = NoField} :
       fields' = IF coined THEN [fields EXCEPT !["coined"] = CreatedField({})] ELSE fields
  /\ drafts' = [drafts EXCEPT ![TemplateOf(p)] =
                  Append(@, [status |-> "admin_review", of |-> p])]
  /\ cases' = [cases EXCEPT ![p] =
                 [status |-> "pending", resolution |-> {}, plan |-> "hermes_provisional"]]
  /\ UNCHANGED <<regions, pending, publishing, raced>>

Raced(p) ==
  raced' = IF pending.kind \in {"accept", "reject"} /\ pending.p = p
           THEN raced \cup {p} ELSE raced

AcceptItemProposal(p) ==
  /\ StillPending(catalogue, p) /\ Editable(catalogue, p)
  /\ \E submission \in SubmissionsOf(catalogue) :
       /\ CommitFieldGovernance(catalogue, submission).ok
       /\ Write(catalogue, Accepted(catalogue, p, submission))
  /\ Raced(p)
  /\ UNCHANGED <<pending, publishing>>

RejectItemProposal(p) ==
  /\ cases[p].status = "pending"
  /\ cases' = [cases EXCEPT ![p].status = "rejected"]
  /\ Raced(p)
  /\ UNCHANGED <<fields, drafts, regions, pending, publishing>>

(* The same requests, slow.  An acceptance reads the proposal and the field,  *)
(* then the versions of the field (_load_field is a SELECT for each), then   *)
(* the versions of templates and regions, and writes when all may be old.    *)
(* The decisions came with the request; they matter where it writes.         *)
(* `whole` is no part of the request: LearningIsKept speaks of it.           *)
StartSlowAccept(p) ==
  /\ pending = NoRequestYet
  /\ StillPending(catalogue, p)
  /\ pending' = [kind |-> "accept", step |-> "versions", p |-> p, row |-> cases[p],
                 published |-> fields["known"].published,
                 whole |-> AtNewest(fields["known"]) /\ publishing = 0]
  /\ UNCHANGED <<fields, drafts, regions, cases, publishing, raced>>

LoadFieldVersions ==
  /\ pending.kind = "accept" /\ pending.step = "versions"
  /\ pending' = [kind |-> "accept", step |-> "drafts", p |-> pending.p, row |-> pending.row,
                 whole |-> pending.whole,
                 seen |-> [fields EXCEPT !["known"].published = pending.published]]
  /\ UNCHANGED <<fields, drafts, regions, cases, publishing, raced>>

LoadDrafts ==
  /\ pending.kind = "accept" /\ pending.step = "drafts"
  /\ Editable(catalogue, pending.p)
  /\ pending' = [kind |-> "accept", step |-> "write", p |-> pending.p,
                 whole |-> pending.whole,
                 view |->
                   [fields |-> pending.seen, regions |-> regions,
                    drafts |-> [t \in DOMAIN drafts |->
                                  IF t = TemplateOf(pending.p) THEN drafts[t] ELSE <<>>],
                    cases |-> [q \in Proposals |->
                                 IF q = pending.p THEN pending.row ELSE NoCase]]]
  /\ UNCHANGED <<fields, drafts, regions, cases, publishing, raced>>

FinishSlowAccept ==
  /\ pending.kind = "accept" /\ pending.step = "write"
  /\ \E submission \in SubmissionsOf(pending.view) :
       /\ CommitFieldGovernance(pending.view, submission).ok
       /\ Write(pending.view, Accepted(pending.view, pending.p, submission))
  /\ pending' = NoRequestYet
  /\ UNCHANGED <<publishing, raced>>

StartSlowReject(p) ==
  /\ pending = NoRequestYet
  /\ cases[p].status = "pending"
  /\ pending' = [kind |-> "reject", p |-> p]
  /\ UNCHANGED <<fields, drafts, regions, cases, publishing, raced>>

FinishSlowReject ==
  /\ pending.kind = "reject"
  /\ cases' = [cases EXCEPT ![pending.p].status = "rejected"]
  /\ pending' = NoRequestYet
  /\ UNCHANGED <<fields, drafts, regions, publishing, raced>>

(* An IntegrityError, or a client that went away: nothing is written.        *)
FailSlow ==
  /\ \/ pending # NoRequestYet /\ pending' = NoRequestYet /\ UNCHANGED publishing
     \/ publishing # 0 /\ publishing' = 0 /\ UNCHANGED pending
  /\ UNCHANGED <<fields, drafts, regions, cases, raced>>

(* catalog.py: an editor adds a draft, unless the newest version is one,      *)
(* and publishes it with another request, which may be slow too.             *)
CreateKnownVersion ==
  /\ ~Last(fields["known"].versions).draft
  /\ \E names \in DraftVariants :
       fields' = [fields EXCEPT !["known"].versions =
                    Append(@, [draft |-> TRUE, variants |-> names])]
  /\ VersionsBounded(fields')
  /\ UNCHANGED <<drafts, regions, cases, pending, publishing, raced>>

PublishField(number) ==
  fields' = [fields EXCEPT !["known"].versions[number].draft = FALSE,
                           !["known"].published = number]

PublishKnownVersion ==
  /\ \E number \in FieldDrafts(fields["known"]) : PublishField(number)
  /\ UNCHANGED <<drafts, regions, cases, pending, publishing, raced>>

StartSlowPublish ==
  /\ publishing = 0
  /\ publishing' \in FieldDrafts(fields["known"])
  /\ UNCHANGED <<fields, drafts, regions, cases, pending, raced>>

FinishSlowPublish ==
  /\ publishing # 0
  /\ PublishField(publishing)
  /\ publishing' = 0
  /\ UNCHANGED <<drafts, regions, cases, pending, raced>>

GovernanceNext ==
  \/ \E p \in Proposals :
       \/ RecognizeTemplateDiff(p) \/ AcceptItemProposal(p) \/ RejectItemProposal(p)
       \/ StartSlowAccept(p) \/ StartSlowReject(p)
  \/ LoadFieldVersions \/ LoadDrafts \/ FinishSlowAccept
  \/ FinishSlowReject \/ FailSlow
  \/ CreateKnownVersion \/ PublishKnownVersion \/ StartSlowPublish \/ FinishSlowPublish

GovernanceSpec == GovernanceInit /\ [][GovernanceNext]_governanceVars

-----------------------------------------------------------------------------
(* What a governor teaches is known when the proposal is accepted, and        *)
(* nothing the field knew is unlearned by that, though two of its columns    *)
(* may teach one field and others may publish versions of it meanwhile       *)
(* (_publish_field_learning) - unless the request was overtaken and no       *)
(* number collides.  It collides whenever the request began, and read the    *)
(* versions, with the newest one published, no draft beside it, and no       *)
(* publication under way.                                                    *)
Resolves(p) == cases[p].resolution = {} /\ cases'[p].resolution # {}

OvertakenUnnoticed ==
  /\ pending' # pending
  /\ pending.view.fields["known"].published # fields["known"].published
  /\ ~(pending.whole /\ AtNewest(pending.view.fields["known"]))

LearningIsKept ==
  [][\A p \in Proposals : Resolves(p) =>
       /\ UNION cases'[p].resolution \subseteq Known(fields'["known"])
       /\ \A f \in Kinds : \/ Known(fields[f]) \subseteq Known(fields'[f])
                           \/ f = "known" /\ OvertakenUnnoticed]_governanceVars

(* The parts of a decision stay together: an accepted proposal has its       *)
(* resolution, its plan, one confirmed version, and no version under review; *)
(* one that was rejected with no other decision under way has none of them.  *)
GovernedOnce ==
  \A p \in Proposals :
    LET confirmed == {v \in DOMAIN drafts[TemplateOf(p)] :
                        drafts[TemplateOf(p)][v] = [status |-> "user_confirmed", of |-> p]}
    IN  /\ cases[p].status = "accepted" =>
             /\ cases[p].resolution # {}
             /\ cases[p].plan = "hermes"
             /\ Cardinality(confirmed) = 1
             /\ Provisional(catalogue, p) = {}
        /\ (cases[p].status = "rejected" /\ p \notin raced) =>
             /\ cases[p].resolution = {}
             /\ cases[p].plan = "hermes_provisional"
             /\ confirmed = {}
=============================================================================
