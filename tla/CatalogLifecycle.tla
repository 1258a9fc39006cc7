--------------------------- MODULE CatalogLifecycle ---------------------------
(***************************************************************************)
(* The versioned catalogue: semantic fields, region templates, sheet       *)
(* compositions and workbook routes, each bound to versions of the layer   *)
(* below it, and the legacy document templates with their review.          *)
(*                                                                         *)
(* Each layer has one code with its versions 1, 2, ... and the pointer     *)
(* published_version that readers follow.  Governors create, publish and   *)
(* deprecate through the routes of catalog.py, accepted proposals publish  *)
(* fields and regions (governance.py), and operators install a package     *)
(* (four_layer_publish.py), backfill regions, seed upper layers            *)
(* (four_layer.py) and upgrade fingerprints (maintenance.py).  A route of  *)
(* catalog.py may be slow: it reads, others commit, and then it writes.    *)
(***************************************************************************)
EXTENDS Integers, Sequences, FiniteSets, SequencesExt

CONSTANTS
  MaxVersions,     \* bound: versions of all the layers together
  Generations      \* digests of the packages an operator may install

ASSUME CatalogAssumption == MaxVersions \in Nat /\ 0 \notin Generations

VARIABLES
  artifact,    \* for each layer the row and its versions
  slow,        \* a request that has read and not yet written
  overlapped   \* did another transaction commit under a slow request?

catalogVars == <<artifact, slow, overlapped>>

-----------------------------------------------------------------------------
Chain == <<"field", "region", "sheet", "route">>
Layers == Range(Chain) \cup {"template"}

(* The layer whose versions the bindings and slots of a layer name. *)
Below == [region |-> "field", sheet |-> "region", route |-> "sheet",
          template |-> "field"]

Numbers == 1..MaxVersions

CatalogStatus ==
  {"draft", "user_confirmed", "admin_review", "published", "deprecated"}

(* A version; on is the version below it that it names, 0 for a field. *)
Version == [status: CatalogStatus, on: 0..MaxVersions,
            source: {"manual", "corpus", "migration", "bootstrap"},
            generation: Generations \cup {0}]

Draft(on) == [status |-> "draft", on |-> on, source |-> "manual", generation |-> 0]
Release(on, source, generation) ==
  [status |-> "published", on |-> on, source |-> source, generation |-> generation]

(* What a request will write: the version and its new status, the version   *)
(* it found published before, and the pointer (-1: left alone).             *)
Request == [layer: Layers, version: Numbers, to: CatalogStatus,
            prev: 0..MaxVersions, pointer: -1..MaxVersions]
NoRequest == [layer |-> "none"]

(* The row of a code, with its versions. *)
Artifact == [published: 0..MaxVersions, versions: Seq(Version)]
NoArtifact == [published |-> 0, versions |-> <<>>]

CatalogTypeOK ==
  /\ DOMAIN artifact = Layers /\ \A l \in Layers : artifact[l] \in Artifact
  /\ slow \in Request \cup {NoRequest}
  /\ overlapped \in BOOLEAN

CatalogInit ==
  /\ artifact = [l \in Layers |-> NoArtifact]
  /\ slow = NoRequest
  /\ overlapped = FALSE

-----------------------------------------------------------------------------
Total(cat) == Len(cat["field"].versions) + Len(cat["region"].versions)
                + Len(cat["sheet"].versions) + Len(cat["route"].versions)
                + Len(cat["template"].versions)

StatusOf(a, v) == IF v \in DOMAIN a.versions THEN a.versions[v].status ELSE "none"
PublishedOf(a) == {v \in DOMAIN a.versions : a.versions[v].status = "published"}

(* previous_version: a published version, if there is any. *)
Previous(a) == IF PublishedOf(a) = {} THEN {0} ELSE PublishedOf(a)

Restated(a, v, status) ==
  IF v = 0 THEN a ELSE [a EXCEPT !.versions[v].status = status]

(* A request writes its version, the previous one and the pointer. *)
Written(a, r) ==
  [Restated(Restated(a, r.prev, "deprecated"), r.version, r.to)
     EXCEPT !.published = IF r.pointer = -1 THEN @ ELSE r.pointer]

(* A new version that is published at once. *)
Issued(a, row) ==
  LET new == Len(a.versions) + 1
  IN  [published |-> new,
       versions |-> Append([v \in DOMAIN a.versions |->
                              [a.versions[v] EXCEPT !.status =
                                 IF @ = "published" THEN "deprecated" ELSE @]], row)]

(* Bounds: MaxVersions in all, and legacy templates without upper layers. *)
Bounded(cat) ==
  /\ Total(cat) <= MaxVersions
  /\ cat["template"].versions = <<>> \/ cat["sheet"].versions = <<>>

Commit(cat) ==
  /\ Bounded(cat)
  /\ artifact' = cat
  /\ overlapped' = (overlapped \/ slow # NoRequest)
  /\ UNCHANGED slow

-----------------------------------------------------------------------------
(* lifecycle.py: what a publication checks before it decides. *)

Publication(l, v) ==
  {[layer |-> l, version |-> v, to |-> "published", prev |-> p, pointer |-> v] :
     p \in Previous(artifact[l])}

Drafts(l) == {v \in DOMAIN artifact[l].versions :
                artifact[l].versions[v].status = "draft"}

On(l, v) == artifact[l].versions[v].on

(* validate_template_fields *)
FieldIsPublished(l, v) == artifact["field"].published = On(l, v)

(* publish_field *)
FieldPublications == UNION {Publication("field", v) : v \in Drafts("field")}

(* publish_region_template *)
RegionPublications ==
  UNION {Publication("region", v) :
           v \in {d \in Drafts("region") : FieldIsPublished("region", d)}}

(* Mutant: the slots are not checked. *)
AnySheetPublications == UNION {Publication("sheet", v) : v \in Drafts("sheet")}

(* publish_sheet_composition *)
SheetPublications ==
  UNION {Publication("sheet", v) :
           v \in {d \in Drafts("sheet") :
                    StatusOf(artifact["region"], On("sheet", d)) = "published"}}

(* publish_workbook_route *)
RoutePublications ==
  UNION {Publication("route", v) :
           v \in {d \in Drafts("route") :
                    StatusOf(artifact["sheet"], On("route", d)) = "published"}}

(* _TEMPLATE_TRANSITIONS without approve, which publishes. *)
Transition == [user_confirmed |-> "draft", admin_review |-> "user_confirmed",
               draft |-> "admin_review", deprecated |-> "published"]

(* Mutant: deprecate leaves the pointer. *)
TemplateTransitionsStale ==
  (UNION {Publication("template", v) :
            v \in {d \in DOMAIN artifact["template"].versions :
                     /\ StatusOf(artifact["template"], d) = "admin_review"
                     /\ FieldIsPublished("template", d)}})
  \cup
  {[layer |-> "template", version |-> v, to |-> to, prev |-> 0, pointer |-> -1] :
     v \in DOMAIN artifact["template"].versions, to \in DOMAIN Transition}

(* transition_template *)
TemplateTransitions ==
  (UNION {Publication("template", v) :
            v \in {d \in DOMAIN artifact["template"].versions :
                     /\ StatusOf(artifact["template"], d) = "admin_review"
                     /\ FieldIsPublished("template", d)}})
  \cup
  {r \in [layer: {"template"}, version: DOMAIN artifact["template"].versions,
          to: DOMAIN Transition, prev: {0}, pointer: {-1, 0}] :
     /\ StatusOf(artifact["template"], r.version) = Transition[r.to]
     /\ r.pointer = IF r.to = "deprecated" /\ artifact["template"].published # 0
                      THEN 0 ELSE -1}

(* A route decides on what it read and commits at once, or is slow. *)
Handle(r) ==
  \/ Commit([artifact EXCEPT ![r.layer] = Written(@, r)])
  \/ /\ slow = NoRequest
     /\ ~overlapped  \* bound: one slow request that is overlapped
     /\ slow' = r
     /\ UNCHANGED <<artifact, overlapped>>

PublishFieldVersion == \E r \in FieldPublications : Handle(r)
PublishRegionTemplateVersion == \E r \in RegionPublications : Handle(r)
PublishSheetCompositionVersion == \E r \in SheetPublications : Handle(r)
PublishWorkbookRouteVersion == \E r \in RoutePublications : Handle(r)
RunTemplateCommand == \E r \in TemplateTransitions : Handle(r)

(* The slow request writes what it decided; it changes no row it had not read. *)
SlowCommit ==
  /\ slow # NoRequest
  /\ artifact' = [artifact EXCEPT ![slow.layer] = Written(@, slow)]
  /\ slow' = NoRequest
  /\ UNCHANGED overlapped

-----------------------------------------------------------------------------
(* catalog.py: new codes and new versions.  A second insert of the same code *)
(* or version number is refused by its unique constraint.                    *)

Inserted(l, on) ==
  Commit([artifact EXCEPT ![l].versions = Append(@, Draft(on))])

(* create_*: the code does not exist. *)
Create(l, on) == artifact[l].versions = <<>> /\ Inserted(l, on)

(* create_*_version: no editable version may exist. *)
Renewable(l) ==
  /\ artifact[l].versions # <<>>
  /\ Last(artifact[l].versions).status \in {"published", "deprecated"}

CreateField == Create("field", 0)
CreateFieldVersion == Renewable("field") /\ Inserted("field", 0)

Named(l) == DOMAIN artifact[Below[l]].versions

CreateRegionTemplate == \E on \in Named("region") : Create("region", on)
CreateRegionTemplateVersion ==
  Renewable("region") /\ \E on \in Named("region") : Inserted("region", on)

CreateSheetComposition == \E on \in Named("sheet") : Create("sheet", on)
CreateSheetCompositionVersion ==
  Renewable("sheet") /\ \E on \in Named("sheet") : Inserted("sheet", on)

CreateWorkbookRoute == \E on \in Named("route") : Create("route", on)
CreateWorkbookRouteVersion ==
  Renewable("route") /\ \E on \in Named("route") : Inserted("route", on)

CreateTemplate == \E on \in Named("template") : Create("template", on)
CreateTemplateVersion ==
  Renewable("template") /\ \E on \in Named("template") : Inserted("template", on)

-----------------------------------------------------------------------------
(* governance.py: one transaction publishes what the governor decided. *)

(* _publish_field_learning: a copy with new variants, or the field as it is. *)
LearnedVersion(a) ==
  IF PublishedOf(a) = {} THEN {}
  ELSE LET new == Len(a.versions) + 1
           more == [a EXCEPT !.versions = Append(@, Release(0, "manual", 0))]
       IN  {a} \cup {Written(more, [version |-> new, to |-> "published",
                                     prev |-> p, pointer |-> new]) : p \in PublishedOf(a)}

(* _create_and_publish_field: the code must be new. *)
Coined(a) == IF a.versions = <<>> THEN {Issued(a, Release(0, "manual", 0))} ELSE {}

(* publish_governed_regions: no unfinished version; binds the published field. *)
Governed(a, field) ==
  IF \E v \in DOMAIN a.versions : StatusOf(a, v) \notin {"published", "deprecated"}
    THEN {}
    ELSE {Issued(a, Release(field.published, "manual", 0))}

CommitGovernance ==
  \E field \in {a \in LearnedVersion(artifact["field"]) \cup Coined(artifact["field"]) :
                  a.published # 0} :
    \E region \in Governed(artifact["region"], field) :
      Commit([artifact EXCEPT !["field"] = field, !["region"] = region])

-----------------------------------------------------------------------------
(* four_layer_publish.py *)

(* _deprecate_superseded_validated_corpus: a code the package lacks. *)
Superseded(a) ==
  IF a.published # 0 /\ a.versions[a.published].source = "corpus"
    THEN [Restated(a, a.published, "deprecated") EXCEPT !.published = 0]
    ELSE a

(* A field is reused whenever it has a published version. *)
StagedField(cat, g) ==
  IF cat["field"].published # 0 THEN cat
  ELSE [cat EXCEPT !["field"].versions = Append(@, Release(0, "corpus", g)),
                   !["field"].published = Len(cat["field"].versions) + 1]

(* The layers above: reused when this generation published them. *)
StagedLayer(cat, l, g) ==
  LET a == cat[l]
  IN  IF a.published # 0 /\ a.versions[a.published].generation = g THEN cat
      ELSE [cat EXCEPT ![l] = Issued(a, Release(cat[Below[l]].published, "corpus", g))]

(* stage_published_package: the first n layers are in the package. *)
Staged(cat, n, g) ==
  LET kept == [l \in Layers |->
                 IF \E i \in 2..4 : i > n /\ Chain[i] = l THEN Superseded(cat[l])
                 ELSE cat[l]]
      field == StagedField(kept, g)
      region == IF n >= 2 THEN StagedLayer(field, "region", g) ELSE field
      sheet == IF n >= 3 THEN StagedLayer(region, "sheet", g) ELSE region
  IN  IF n >= 4 THEN StagedLayer(sheet, "route", g) ELSE sheet

(* publish_directory *)
PublishDirectory == \E g \in Generations, n \in 1..4 : Commit(Staged(artifact, n, g))

-----------------------------------------------------------------------------
(* four_layer.py and maintenance.py *)

(* backfill_four_layer_foundation: a published legacy template becomes a     *)
(* region with the field versions that the template names.                   *)
BackfillFourLayerFoundation ==
  LET t == artifact["template"]
  IN  /\ StatusOf(t, t.published) = "published"
      /\ artifact["region"].versions = <<>>
      /\ Commit([artifact EXCEPT !["region"] =
                   Issued(@, Release(t.versions[t.published].on, "migration", 0))])

(* seed_composition_route_from_verified_item: the codes are digests of what  *)
(* the layer binds, so a code that exists was seeded from the same match.    *)
SeedCompositionRoute ==
  LET seeded == artifact["sheet"].versions # <<>>
  IN  \E on \in PublishedOf(artifact["region"]) :
        /\ seeded => /\ artifact["sheet"].versions[1].source = "bootstrap"
                     /\ On("sheet", 1) = on
        /\ artifact["route"].versions = <<>>
        /\ Commit([artifact EXCEPT
             !["sheet"] = IF seeded THEN @ ELSE Issued(@, Release(on, "bootstrap", 0)),
             !["route"] = Issued(@, Release(1, "bootstrap", 0))])

(* upgrade_published_fingerprints: copy, confirm, submit and approve. *)
UpgradePublishedFingerprints ==
  LET t == artifact["template"]
  IN  /\ t.published # 0
      /\ artifact["field"].published = t.versions[t.published].on
      /\ \E p \in Previous(t) :
           LET new == Len(t.versions) + 1
               more == [t EXCEPT !.versions =
                          Append(@, Release(t.versions[t.published].on, "manual", 0))]
           IN  Commit([artifact EXCEPT !["template"] =
                         Written(more, [version |-> new, to |-> "published",
                                        prev |-> p, pointer |-> new])])

CatalogNext ==
  \/ CreateField \/ CreateFieldVersion \/ PublishFieldVersion
  \/ CreateRegionTemplate \/ CreateRegionTemplateVersion \/ PublishRegionTemplateVersion
  \/ CreateSheetComposition \/ CreateSheetCompositionVersion
  \/ PublishSheetCompositionVersion
  \/ CreateWorkbookRoute \/ CreateWorkbookRouteVersion \/ PublishWorkbookRouteVersion
  \/ CreateTemplate \/ CreateTemplateVersion \/ RunTemplateCommand
  \/ SlowCommit \/ CommitGovernance \/ PublishDirectory
  \/ BackfillFourLayerFoundation \/ SeedCompositionRoute
  \/ UpgradePublishedFingerprints

CatalogSpec == CatalogInit /\ [][CatalogNext]_catalogVars

-----------------------------------------------------------------------------
(* The pointer of a code names a version that is published: readers that     *)
(* follow published_version (matching, the import plans, questions) never    *)
(* get a draft or a withdrawn version.  The four layers keep this even when  *)
(* requests overlap; a legacy template keeps it while none does.             *)
PointerIsPublished ==
  \A l \in Layers :
    (l # "template" \/ ~overlapped) /\ artifact[l].published # 0 =>
      StatusOf(artifact[l], artifact[l].published) = "published"

(* While no request overlaps another transaction, the published version of  *)
(* a code is one, and it is the one its pointer names: publications,         *)
(* packages, governance and maintenance all retire what they replace.        *)
PublishedIsPointed ==
  ~overlapped => \A l \in Layers : PublishedOf(artifact[l]) \subseteq {artifact[l].published}

(* A pointer and the published status name the same version, both ways.      *)
PointersArePublished == PointerIsPublished /\ PublishedIsPointed

(* Nothing published rests on a version that was never released: whoever     *)
(* published it, and whatever was republished or withdrawn since, the        *)
(* versions it binds were published before it.                               *)
NeverOnDraft ==
  \A l \in DOMAIN Below : \A v \in PublishedOf(artifact[l]) :
    StatusOf(artifact[Below[l]], On(l, v)) \in {"published", "deprecated"}
=============================================================================
