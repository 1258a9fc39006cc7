----------------------------- MODULE CatalogProofs -----------------------------
(***************************************************************************)
(* Proofs about the template catalogue: its versions and pointers under    *)
(* the requests of governors and operators, for any number of versions and *)
(* package generations, the decision on a proposal, for any proposals and  *)
(* variants, and the bundles it is restored from, for any objects,         *)
(* versions and edits.                                                     *)
(***************************************************************************)
EXTENDS CatalogLifecycle, ProposalGovernance, CatalogRecovery, SequenceTheorems,
        FiniteSetTheorems, TLAPS

-----------------------------------------------------------------------------
(* Versions and pointers *)

Released(a, v) == StatusOf(a, v) \in {"published", "deprecated"}

(* The four layers that packages, bundles and matches read.                   *)
FourLayers == {"field", "region", "sheet", "route"}

(* Pointers name rows, and versions name rows of the layer below.             *)
RowsExist ==
  /\ Total(artifact) <= MaxVersions
  /\ \A l \in Layers : artifact[l].published \in 0..Len(artifact[l].versions)
  /\ \A l \in DOMAIN Below : \A v \in DOMAIN artifact[l].versions :
       On(l, v) \in DOMAIN artifact[Below[l]].versions

(* What was seeded was released with it.                                      *)
SeededIsReleased ==
  \A l \in FourLayers : \A v \in DOMAIN artifact[l].versions :
    artifact[l].versions[v].source = "bootstrap" => Released(artifact[l], v)

(* What a request decides on the row it read: a publication retires the version *)
(* that was published, and a transition of a template withdraws its pointer.  *)
DraftDecided(a, r) ==
  \/ r.to = "published" /\ r.pointer = r.version /\ r.prev \in Previous(a)
  \/ /\ r.prev = 0 /\ r.to \in {"user_confirmed", "admin_review", "draft", "deprecated"}
     /\ StatusOf(a, r.version) = "published" <=> r.to = "deprecated"
     /\ r.pointer = IF r.to = "deprecated" /\ a.published # 0 THEN 0 ELSE -1

(* A request writes rows that exist and, in the four layers, publishes what   *)
(* rests on a released version.                                               *)
RowFits(cat, r) ==
  /\ r \in Request
  /\ r.version \in DOMAIN cat[r.layer].versions
  /\ r.prev \in 0..Len(cat[r.layer].versions)
  /\ r.pointer \in {-1, 0, r.version}
  /\ r.layer # "template" => r.to = "published" /\ r.pointer = r.version
  /\ r.layer \in DOMAIN Below /\ r.to = "published" =>
       Released(cat[Below[r.layer]], cat[r.layer].versions[r.version].on)

(* A slow request still fits, and decides as a quick one would while nobody   *)
(* has overtaken it.                                                          *)
SlowFits ==
  slow # NoRequest =>
    /\ RowFits(artifact, slow)
    /\ ~overlapped => DraftDecided(artifact[slow.layer], slow)

CatalogInv ==
  CatalogTypeOK /\ RowsExist /\ SeededIsReleased /\ SlowFits /\ PointersArePublished
  /\ NeverOnDraft

-----------------------------------------------------------------------------
(* The layers *)

LEMMA CatalogBounds == MaxVersions \in Nat /\ 0 \notin Generations
BY CatalogAssumption

LEMMA LayerNames ==
  /\ Layers = {"field", "region", "sheet", "route", "template"}
  /\ Below["region"] = "field" /\ Below["sheet"] = "region" /\ Below["route"] = "sheet"
  /\ Below["template"] = "field" /\ DOMAIN Below = {"region", "sheet", "route", "template"}
  /\ \A l \in DOMAIN Below : Below[l] \in FourLayers /\ l \in Layers
  /\ FourLayers \subseteq Layers /\ \A l \in Layers : l # "template" => l \in FourLayers
<1>1. Range(Chain) = {"field", "region", "sheet", "route"}
  <2>1. DOMAIN Chain = 1..4 /\ Chain[1] = "field" /\ Chain[2] = "region"
        /\ Chain[3] = "sheet" /\ Chain[4] = "route"
    BY DEF Chain
  <2>. QED
    BY <2>1 DEF Range
<1>. QED
  BY <1>1 DEF Layers, Below, FourLayers

LEMMA VersionFields ==
  /\ \A x \in Version : /\ x.status \in CatalogStatus /\ x.on \in 0..MaxVersions
                        /\ x.source \in {"manual", "corpus", "migration", "bootstrap"}
                        /\ x.generation \in Generations \cup {0}
                        /\ \A status \in CatalogStatus :
                             /\ [x EXCEPT !.status = status] \in Version
                             /\ [x EXCEPT !.status = status].status = status
                             /\ [x EXCEPT !.status = status].on = x.on
                             /\ [x EXCEPT !.status = status].source = x.source
                             /\ [x EXCEPT !.status = status].generation = x.generation
  /\ \A on \in 0..MaxVersions : Draft(on) \in Version
  /\ \A on : Draft(on).status = "draft" /\ Draft(on).on = on /\ Draft(on).source = "manual"
  /\ \A on \in 0..MaxVersions, source \in {"manual", "corpus", "migration", "bootstrap"},
        generation \in Generations \cup {0} : Release(on, source, generation) \in Version
  /\ \A on, source, generation :
       /\ Release(on, source, generation).status = "published"
       /\ Release(on, source, generation).on = on
       /\ Release(on, source, generation).source = source
<1>. DEFINE Ons == 0..MaxVersions
<1>1. \A status \in {"published", "draft", "deprecated"} : status \in CatalogStatus
  BY DEF CatalogStatus
<1>. HIDE DEF Ons
<1>. QED
  BY <1>1 DEF Version, Draft, Release

LEMMA TupleIsSeq ==
  ASSUME NEW S, NEW n \in Nat, NEW f \in [1..n -> S]
  PROVE  f \in Seq(S) /\ Len(f) = n
BY SeqDef

(* A row whose pointer names one of its versions.                             *)
Row(a) == a \in [published: Nat, versions: Seq(Version)] /\ a.published <= Len(a.versions)

LEMMA RowFields ==
  ASSUME NEW a, Row(a)
  PROVE  /\ a.published \in 0..Len(a.versions) /\ a.versions \in Seq(Version)
         /\ Len(a.versions) \in Nat /\ DOMAIN a.versions = 1..Len(a.versions)
         /\ \A v \in DOMAIN a.versions : a.versions[v] \in Version
         /\ \A v \in DOMAIN a.versions : StatusOf(a, v) = a.versions[v].status
         /\ \A v : v \notin DOMAIN a.versions => StatusOf(a, v) = "none"
         /\ a.published # 0 => a.published \in DOMAIN a.versions
         /\ DOMAIN a = {"published", "versions"}
BY DEF Row, StatusOf

(* What the writes make of a row.                                             *)
LEMMA RestatedRow ==
  ASSUME NEW a, Row(a), NEW v \in 0..Len(a.versions), NEW status \in CatalogStatus,
         NEW b, b = Restated(a, v, status)
  PROVE  /\ Row(b) /\ b.published = a.published /\ Len(b.versions) = Len(a.versions)
         /\ \A w \in DOMAIN a.versions :
              /\ b.versions[w].on = a.versions[w].on
              /\ b.versions[w].source = a.versions[w].source
              /\ b.versions[w].status = IF w = v THEN status ELSE a.versions[w].status
<1>1. CASE v = 0
  BY <1>1, RowFields DEF Restated
<1>2. CASE v # 0
  <2>1. v \in DOMAIN a.versions
    BY <1>2, RowFields
  <2>2. PICK row : row = [a.versions[v] EXCEPT !.status = status]
    OBVIOUS
  <2>3. PICK vs : vs = [a.versions EXCEPT ![v] = row]
    OBVIOUS
  <2>4. b = [a EXCEPT !.versions = vs]
    BY <1>2, <2>1, <2>2, <2>3, RowFields DEF Restated
  <2>5. /\ row \in Version /\ row.status = status /\ row.on = a.versions[v].on
        /\ row.source = a.versions[v].source
    BY <2>1, <2>2, RowFields, VersionFields
  <2>6. /\ vs \in Seq(Version) /\ Len(vs) = Len(a.versions)
        /\ \A w \in DOMAIN a.versions : vs[w] = IF w = v THEN row ELSE a.versions[w]
    BY <2>1, <2>3, <2>5, RowFields, ExceptSeq
  <2>7. b.versions = vs /\ b.published = a.published
        /\ b \in [published: Nat, versions: Seq(Version)]
    BY <2>4, <2>6 DEF Row
  <2>. QED
    BY <2>5, <2>6, <2>7, RowFields DEF Row
<1>. QED
  BY <1>1, <1>2

LEMMA WrittenRow ==
  ASSUME NEW a, Row(a), NEW r, r.version \in DOMAIN a.versions,
         r.prev \in 0..Len(a.versions), r.to \in CatalogStatus,
         r.pointer \in {-1, 0, r.version}, NEW b, b = Written(a, r)
  PROVE  /\ Row(b) /\ Len(b.versions) = Len(a.versions)
         /\ b.published = IF r.pointer = -1 THEN a.published ELSE r.pointer
         /\ \A w \in DOMAIN a.versions :
              /\ b.versions[w].on = a.versions[w].on
              /\ b.versions[w].source = a.versions[w].source
              /\ b.versions[w].status = IF w = r.version THEN r.to
                                        ELSE IF w = r.prev THEN "deprecated"
                                        ELSE a.versions[w].status
<1>1. PICK c : c = Restated(a, r.prev, "deprecated")
  OBVIOUS
<1>2. "deprecated" \in CatalogStatus
  BY DEF CatalogStatus
<1>3. /\ Row(c) /\ c.published = a.published /\ Len(c.versions) = Len(a.versions)
      /\ \A w \in DOMAIN a.versions :
              /\ c.versions[w].on = a.versions[w].on
              /\ c.versions[w].source = a.versions[w].source
              /\ c.versions[w].status = IF w = r.prev THEN "deprecated" ELSE a.versions[w].status
  BY <1>1, <1>2, RestatedRow
<1>4. PICK d : d = Restated(c, r.version, r.to)
  OBVIOUS
<1>5. DOMAIN c.versions = DOMAIN a.versions /\ r.version \in 0..Len(c.versions)
  BY <1>3, RowFields
<1>6. /\ Row(d) /\ d.published = a.published /\ Len(d.versions) = Len(a.versions)
      /\ \A w \in DOMAIN a.versions :
              /\ d.versions[w].on = a.versions[w].on
              /\ d.versions[w].source = a.versions[w].source
              /\ d.versions[w].status = IF w = r.version THEN r.to ELSE c.versions[w].status
  BY <1>3, <1>4, <1>5, RestatedRow
<1>7. b = [d EXCEPT !.published = IF r.pointer = -1 THEN @ ELSE r.pointer]
  BY <1>1, <1>4 DEF Written
<1>8. /\ b.versions = d.versions
      /\ b.published = IF r.pointer = -1 THEN a.published ELSE r.pointer
      /\ b \in [published: Nat, versions: Seq(Version)] /\ b.published <= Len(b.versions)
  BY <1>6, <1>7, RowFields DEF Row
<1>. QED
  BY <1>3, <1>6, <1>8 DEF Row

LEMMA IssuedRow ==
  ASSUME NEW a, Row(a), NEW row, NEW b, b = Issued(a, row)
  PROVE  /\ Len(b.versions) = Len(a.versions) + 1 /\ b.published = Len(a.versions) + 1
         /\ DOMAIN b.versions = 1..(Len(a.versions) + 1)
         /\ b.versions[Len(a.versions) + 1] = row
         /\ \A w \in DOMAIN a.versions :
              /\ b.versions[w].on = a.versions[w].on
              /\ b.versions[w].source = a.versions[w].source
              /\ b.versions[w].status = IF a.versions[w].status = "published" THEN "deprecated"
                                        ELSE a.versions[w].status
         /\ row \in Version => Row(b)
<1>1. PICK vs : vs = [v \in DOMAIN a.versions |->
                        [a.versions[v] EXCEPT !.status =
                           IF @ = "published" THEN "deprecated" ELSE @]]
  OBVIOUS
<1>2. \A w \in DOMAIN a.versions :
        /\ vs[w] \in Version /\ vs[w].on = a.versions[w].on
        /\ vs[w].source = a.versions[w].source
        /\ vs[w].status = IF a.versions[w].status = "published" THEN "deprecated"
                          ELSE a.versions[w].status
  <2>. SUFFICES ASSUME NEW w \in DOMAIN a.versions
                PROVE  /\ vs[w] \in Version /\ vs[w].on = a.versions[w].on
                       /\ vs[w].source = a.versions[w].source
                       /\ vs[w].status = IF a.versions[w].status = "published"
                                         THEN "deprecated" ELSE a.versions[w].status
    OBVIOUS
  <2>1. PICK status : status = IF a.versions[w].status = "published" THEN "deprecated"
                               ELSE a.versions[w].status
    OBVIOUS
  <2>2. status \in CatalogStatus /\ a.versions[w] \in Version
    BY <2>1, RowFields, VersionFields DEF CatalogStatus
  <2>3. vs[w] = [a.versions[w] EXCEPT !.status = status]
    BY <1>1, <2>1, <2>2
  <2>. QED
    BY <2>1, <2>2, <2>3, VersionFields
<1>3. vs \in Seq(Version) /\ Len(vs) = Len(a.versions)
  <2>1. vs \in [1..Len(a.versions) -> Version] /\ Len(a.versions) \in Nat
    BY <1>1, <1>2, RowFields
  <2>. QED
    BY <2>1, TupleIsSeq
<1>4. b = [published |-> Len(a.versions) + 1, versions |-> Append(vs, row)]
  BY <1>1 DEF Issued
<1>5. /\ b.published = Len(a.versions) + 1 /\ b.versions = Append(vs, row)
      /\ Len(a.versions) \in Nat /\ DOMAIN a.versions = 1..Len(a.versions)
  BY <1>4, RowFields
<1>6. /\ Len(b.versions) = Len(a.versions) + 1
      /\ DOMAIN b.versions = 1..(Len(a.versions) + 1)
      /\ b.versions[Len(a.versions) + 1] = row
      /\ \A w \in DOMAIN a.versions : b.versions[w] = vs[w]
      /\ row \in Version => b.versions \in Seq(Version)
  BY <1>3, <1>5
<1>. QED
  BY <1>2, <1>4, <1>5, <1>6 DEF Row

-----------------------------------------------------------------------------
(* Steps of a layer *)

Grows(a, b) ==
  /\ Len(a.versions) <= Len(b.versions)
  /\ \A v \in DOMAIN a.versions : /\ b.versions[v].on = a.versions[v].on
                                  /\ b.versions[v].source = a.versions[v].source

KeepsReleases(a, b) == \A v \in DOMAIN a.versions : Released(a, v) => Released(b, v)

PointerSound(a) == a.published # 0 => StatusOf(a, a.published) = "published"

(* The row of a layer, with the layer below it.                               *)
SoundLayer(l, a, low, over) ==
  /\ Row(a)
  /\ l # "template" \/ ~over => PointerSound(a)
  /\ ~over => PublishedOf(a) \subseteq {a.published}
  /\ l \in FourLayers => \A v \in DOMAIN a.versions :
       a.versions[v].source = "bootstrap" => Released(a, v)
  /\ l \in DOMAIN Below =>
       /\ \A v \in DOMAIN a.versions : a.versions[v].on \in DOMAIN low.versions
       /\ \A v \in PublishedOf(a) : Released(low, a.versions[v].on)

(* What a step of any request or operator makes of a layer; low is the layer  *)
(* below after the step.                                                      *)
LayerStep(l, a, b, low, over) ==
  /\ Row(b) /\ Grows(a, b)
  /\ l # "template" => KeepsReleases(a, b)
  /\ l # "template" \/ ~over => PointerSound(b)
  /\ ~over => PublishedOf(b) \subseteq {b.published}
  /\ l \in FourLayers => \A v \in DOMAIN b.versions :
       b.versions[v].source = "bootstrap" => v \in DOMAIN a.versions \/ Released(b, v)
  /\ l \in DOMAIN Below =>
       /\ \A v \in DOMAIN b.versions :
            v \in DOMAIN a.versions \/ b.versions[v].on \in DOMAIN low.versions
       /\ \A v \in PublishedOf(b) : v \in PublishedOf(a) \/ Released(low, b.versions[v].on)

LEMMA PublishedIs ==
  ASSUME NEW a, Row(a)
  PROVE  /\ \A v : v \in PublishedOf(a)
                   <=> v \in DOMAIN a.versions /\ a.versions[v].status = "published"
         /\ \A v \in DOMAIN a.versions :
              Released(a, v) <=> a.versions[v].status \in {"published", "deprecated"}
         /\ \A v : Released(a, v) => v \in DOMAIN a.versions
         /\ 0 \notin DOMAIN a.versions
BY RowFields DEF PublishedOf, Released

LEMMA SmallRows ==
  ASSUME NEW cat, \A l \in Layers : Len(cat[l].versions) \in Nat, Total(cat) <= MaxVersions
  PROVE  \A l \in Layers : Len(cat[l].versions) <= MaxVersions
<1>1. PICK f, r, s, w, t : /\ f = Len(cat["field"].versions) /\ r = Len(cat["region"].versions)
                           /\ s = Len(cat["sheet"].versions) /\ w = Len(cat["route"].versions)
                           /\ t = Len(cat["template"].versions)
  OBVIOUS
<1>2. f \in Nat /\ r \in Nat /\ s \in Nat /\ w \in Nat /\ t \in Nat
  BY <1>1, LayerNames
<1>3. f + r + s + w + t <= MaxVersions
  BY <1>1 DEF Total
<1>4. f <= MaxVersions /\ r <= MaxVersions /\ s <= MaxVersions /\ w <= MaxVersions
      /\ t <= MaxVersions
  BY <1>2, <1>3, CatalogBounds
<1>5. \A l \in Layers : \/ l = "field" \/ l = "region" \/ l = "sheet" \/ l = "route"
                         \/ l = "template"
  BY LayerNames
<1>. QED
  BY <1>1, <1>4, <1>5

LEMMA SoundRows ==
  ASSUME CatalogInv
  PROVE  \A l \in Layers : /\ SoundLayer(l, artifact[l], artifact[Below[l]], overlapped)
                            /\ Row(artifact[l]) /\ Len(artifact[l].versions) <= MaxVersions
<1>1. \A l \in Layers : Row(artifact[l]) /\ Len(artifact[l].versions) \in Nat
  BY CatalogBounds DEF CatalogInv, CatalogTypeOK, RowsExist, Artifact, Row
<1>2. \A l \in Layers : Len(artifact[l].versions) <= MaxVersions
  BY <1>1, SmallRows DEF CatalogInv, RowsExist
<1>3. \A l \in Layers :
        /\ l # "template" \/ ~overlapped => PointerSound(artifact[l])
        /\ ~overlapped => PublishedOf(artifact[l]) \subseteq {artifact[l].published}
  BY DEF CatalogInv, PointersArePublished, PointerIsPublished, PublishedIsPointed, PointerSound
<1>4. \A l \in Layers : l \in FourLayers => \A v \in DOMAIN artifact[l].versions :
        artifact[l].versions[v].source = "bootstrap" => Released(artifact[l], v)
  BY DEF CatalogInv, SeededIsReleased
<1>5. \A l \in Layers : l \in DOMAIN Below =>
        /\ \A v \in DOMAIN artifact[l].versions :
             artifact[l].versions[v].on \in DOMAIN artifact[Below[l]].versions
        /\ \A v \in PublishedOf(artifact[l]) :
             Released(artifact[Below[l]], artifact[l].versions[v].on)
  BY DEF CatalogInv, RowsExist, NeverOnDraft, Released, On
<1>. QED
  BY <1>1, <1>2, <1>3, <1>4, <1>5 DEF SoundLayer

LEMMA LayerStays ==
  ASSUME NEW l, NEW a, NEW low, NEW more, NEW over, NEW over1,
         SoundLayer(l, a, low, over), ~over1 => ~over
  PROVE  LayerStep(l, a, a, more, over1)
<1>1. Row(a)
  BY DEF SoundLayer
<1>2. Grows(a, a) /\ KeepsReleases(a, a)
  BY <1>1, RowFields DEF Grows, KeepsReleases
<1>. QED
  BY <1>1, <1>2 DEF LayerStep, SoundLayer

(* A row with one more version.                                               *)
Extends(a, c, row) ==
  /\ Row(c) /\ c.published = a.published /\ Len(c.versions) = Len(a.versions) + 1
  /\ c.versions[Len(a.versions) + 1] = row
  /\ \A w \in DOMAIN a.versions : c.versions[w] = a.versions[w]

LEMMA AppendedRow ==
  ASSUME NEW a, Row(a), NEW row \in Version, NEW c, c = [a EXCEPT !.versions = Append(@, row)]
  PROVE  Extends(a, c, row)
<1>1. PICK vs : vs = Append(a.versions, row)
  OBVIOUS
<1>2. a \in [published: Nat, versions: Seq(Version)] /\ a.published <= Len(a.versions)
      /\ a.published \in Nat /\ Len(a.versions) \in Nat /\ a.versions \in Seq(Version)
      /\ DOMAIN a.versions = 1..Len(a.versions)
  BY RowFields DEF Row
<1>3. /\ vs \in Seq(Version) /\ Len(vs) = Len(a.versions) + 1
      /\ vs[Len(a.versions) + 1] = row /\ \A w \in DOMAIN a.versions : vs[w] = a.versions[w]
  BY <1>1, <1>2
<1>4. c = [a EXCEPT !.versions = vs]
  BY <1>1
<1>5. c.versions = vs /\ c.published = a.published
  BY <1>2, <1>4
<1>6. c \in [published: Nat, versions: Seq(Version)]
  BY <1>2, <1>3, <1>4
<1>7. Row(c)
  BY <1>2, <1>3, <1>5, <1>6 DEF Row
<1>. QED
  BY <1>3, <1>5, <1>7 DEF Extends

(* A new draft, on a version that there is.                                   *)
LEMMA LayerDrafted ==
  ASSUME NEW l, NEW a, NEW b, NEW low, NEW more, NEW over, NEW over1, NEW row \in Version,
         SoundLayer(l, a, low, over), ~over1 => ~over, Extends(a, b, row),
         row.status = "draft", row.source = "manual",
         l \in DOMAIN Below => row.on \in DOMAIN more.versions
  PROVE  LayerStep(l, a, b, more, over1)
<1>1. Row(a) /\ Row(b) /\ b.published = a.published
  BY DEF SoundLayer, Extends
<1>2. \A w \in DOMAIN a.versions : b.versions[w] = a.versions[w] /\ w \in DOMAIN b.versions
  BY <1>1, RowFields DEF Extends
<1>3. \A w \in DOMAIN b.versions : w \in DOMAIN a.versions \/ b.versions[w] = row
  BY <1>1, RowFields DEF Extends
<1>4. Grows(a, b)
  BY <1>1, <1>2, RowFields DEF Grows, Extends
<1>5. KeepsReleases(a, b)
  BY <1>1, <1>2, PublishedIs DEF KeepsReleases
<1>6. PublishedOf(b) \subseteq PublishedOf(a)
  BY <1>1, <1>2, <1>3, PublishedIs
<1>7. PointerSound(a) => PointerSound(b)
  <2>1. a.published # 0 => /\ a.published \in DOMAIN a.versions
                           /\ StatusOf(a, a.published) = a.versions[a.published].status
                           /\ StatusOf(b, a.published) = b.versions[a.published].status
    BY <1>1, <1>2, RowFields
  <2>. QED
    BY <1>1, <1>2, <2>1 DEF PointerSound
<1>8. /\ l # "template" \/ ~over1 => PointerSound(b)
      /\ ~over1 => PublishedOf(b) \subseteq {b.published}
  BY <1>1, <1>6, <1>7 DEF SoundLayer
<1>. QED
  BY <1>1, <1>3, <1>4, <1>5, <1>6, <1>8 DEF LayerStep

(* A new version that is published at once.                                   *)
LEMMA LayerIssued ==
  ASSUME NEW l, NEW a, NEW b, NEW row \in Version, NEW more, NEW over1,
         Row(a), row.status = "published", b = Issued(a, row),
         l \in DOMAIN Below => Row(more) /\ Released(more, row.on)
  PROVE  LayerStep(l, a, b, more, over1)
<1>3. /\ Len(b.versions) = Len(a.versions) + 1 /\ b.published = Len(a.versions) + 1
      /\ DOMAIN b.versions = 1..(Len(a.versions) + 1)
      /\ b.versions[Len(a.versions) + 1] = row
      /\ \A w \in DOMAIN a.versions :
           /\ b.versions[w].on = a.versions[w].on
           /\ b.versions[w].source = a.versions[w].source
           /\ b.versions[w].status = IF a.versions[w].status = "published" THEN "deprecated"
                                     ELSE a.versions[w].status
      /\ Row(b)
  BY IssuedRow
<1>4. /\ \A v \in DOMAIN b.versions : v \in DOMAIN a.versions \/ v = b.published
      /\ b.published \in DOMAIN b.versions
      /\ \A v \in DOMAIN a.versions : v \in DOMAIN b.versions
      /\ Len(a.versions) <= Len(b.versions)
  BY <1>3, RowFields
<1>5. Grows(a, b) /\ KeepsReleases(a, b)
  BY <1>3, <1>4, PublishedIs DEF Grows, KeepsReleases
<1>6. \A v \in PublishedOf(b) : v = b.published
  BY <1>3, <1>4, PublishedIs
<1>7. PointerSound(b) /\ Released(b, b.published)
  <2>1. b.versions[b.published].status = "published"
    BY <1>3
  <2>. QED
    BY <1>3, <1>4, <2>1, RowFields, PublishedIs DEF PointerSound
<1>8. l \in DOMAIN Below => row.on \in DOMAIN more.versions
  BY PublishedIs
<1>9. \A v \in DOMAIN b.versions : v \in DOMAIN a.versions \/ b.versions[v] = row
  BY <1>3, <1>4
<1>10. l \in FourLayers => \A v \in DOMAIN b.versions :
        b.versions[v].source = "bootstrap" => v \in DOMAIN a.versions \/ Released(b, v)
  BY <1>4, <1>7
<1>11. l \in DOMAIN Below =>
       /\ \A v \in DOMAIN b.versions :
            v \in DOMAIN a.versions \/ b.versions[v].on \in DOMAIN more.versions
       /\ \A v \in PublishedOf(b) : v \in PublishedOf(a) \/ Released(more, b.versions[v].on)
  BY <1>3, <1>6, <1>8, <1>9
<1>. QED
  BY <1>3, <1>5, <1>6, <1>7, <1>10, <1>11 DEF LayerStep

(* A request writes what it decided.                                          *)
LEMMA LayerWritten ==
  ASSUME NEW l \in Layers, NEW a, NEW b, NEW r, NEW low, NEW more, NEW over, NEW over1,
         SoundLayer(l, a, low, over), b = Written(a, r),
         r.version \in DOMAIN a.versions, r.prev \in 0..Len(a.versions),
         r.to \in CatalogStatus, r.pointer \in {-1, 0, r.version},
         l # "template" => r.to = "published" /\ r.pointer = r.version,
         l \in DOMAIN Below /\ r.to = "published" =>
           Released(more, a.versions[r.version].on),
         ~over1 => ~over /\ DraftDecided(a, r)
  PROVE  LayerStep(l, a, b, more, over1)
<1>1. Row(a)
  BY DEF SoundLayer
<1>2. /\ Row(b) /\ Len(b.versions) = Len(a.versions)
      /\ b.published = IF r.pointer = -1 THEN a.published ELSE r.pointer
      /\ \A w \in DOMAIN a.versions :
           /\ b.versions[w].on = a.versions[w].on
           /\ b.versions[w].source = a.versions[w].source
           /\ b.versions[w].status = IF w = r.version THEN r.to
                                     ELSE IF w = r.prev THEN "deprecated"
                                     ELSE a.versions[w].status
  BY <1>1, WrittenRow
<1>3. DOMAIN b.versions = DOMAIN a.versions /\ 0 \notin DOMAIN a.versions
      /\ Len(a.versions) <= Len(b.versions)
  BY <1>1, <1>2, RowFields
<1>4. Grows(a, b)
  BY <1>2, <1>3 DEF Grows
<1>5. l # "template" => KeepsReleases(a, b)
  BY <1>1, <1>2, <1>3, PublishedIs DEF KeepsReleases
<1>6. PublishedOf(b) \subseteq {v \in DOMAIN a.versions :
        (v = r.version /\ r.to = "published") \/ v \in PublishedOf(a) \ {r.prev, r.version}}
  BY <1>1, <1>2, <1>3, PublishedIs
<1>7. b.published # 0 => StatusOf(b, b.published) = b.versions[b.published].status
                         /\ b.published \in DOMAIN a.versions
  BY <1>2, <1>3, RowFields
<1>8. ASSUME l # "template"
      PROVE  PointerSound(b)
  BY <1>2, <1>7, <1>8 DEF PointerSound
<1>9. ASSUME ~over1
      PROVE  PointerSound(b) /\ PublishedOf(b) \subseteq {b.published}
  <2>1. ~over /\ DraftDecided(a, r) /\ PointerSound(a)
        /\ PublishedOf(a) \subseteq {a.published}
    BY <1>9 DEF SoundLayer
  <2>2. CASE r.to = "published" /\ r.pointer = r.version /\ r.prev \in Previous(a)
    <3>1. r.version # -1 /\ b.published = r.version
      BY <1>1, <1>2, <2>2, RowFields
    <3>2. PointerSound(b)
      BY <1>2, <1>7, <2>2, <3>1 DEF PointerSound
    <3>3. PublishedOf(a) \subseteq {r.prev}
      BY <2>1, <2>2 DEF Previous
    <3>. QED
      BY <1>6, <3>1, <3>2, <3>3
  <2>3. CASE /\ r.prev = 0 /\ r.to \in {"user_confirmed", "admin_review", "draft", "deprecated"}
             /\ StatusOf(a, r.version) = "published" <=> r.to = "deprecated"
             /\ r.pointer = IF r.to = "deprecated" /\ a.published # 0 THEN 0 ELSE -1
    <3>1. PublishedOf(b) \subseteq PublishedOf(a) \ {r.version} /\ r.to # "published"
      BY <1>6, <2>3
    <3>2. CASE r.to = "deprecated"
      <4>1. r.version \in PublishedOf(a)
        BY <1>1, <2>3, <3>2, RowFields, PublishedIs
      <4>2. a.published = r.version /\ a.published # 0
        BY <1>3, <2>1, <4>1
      <4>3. b.published = 0 /\ PublishedOf(b) = {}
        BY <1>2, <2>1, <2>3, <3>1, <3>2, <4>2
      <4>. QED
        BY <4>3 DEF PointerSound
    <3>3. CASE r.to # "deprecated"
      <4>1. b.published = a.published
        BY <1>2, <2>3, <3>3
      <4>2. StatusOf(a, r.version) # "published"
        BY <2>3, <3>3
      <4>3. a.published # 0 => a.published # r.version /\ a.published # r.prev
        BY <2>1, <2>3, <4>2 DEF PointerSound
      <4>4. a.published # 0 => a.versions[a.published].status = "published"
        BY <1>1, <2>1, RowFields DEF PointerSound
      <4>5. PointerSound(b)
        BY <1>2, <1>7, <4>1, <4>3, <4>4 DEF PointerSound
      <4>. QED
        BY <2>1, <3>1, <4>1, <4>5
    <3>. QED
      BY <3>2, <3>3
  <2>. QED
    BY <2>1, <2>2, <2>3 DEF DraftDecided
<1>10. l \in FourLayers => \A v \in DOMAIN b.versions :
        b.versions[v].source = "bootstrap" => v \in DOMAIN a.versions \/ Released(b, v)
  BY <1>3
<1>11. l \in DOMAIN Below =>
        /\ \A v \in DOMAIN b.versions :
             v \in DOMAIN a.versions \/ b.versions[v].on \in DOMAIN more.versions
        /\ \A v \in PublishedOf(b) : v \in PublishedOf(a) \/ Released(more, b.versions[v].on)
  BY <1>2, <1>3, <1>6
<1>. QED
  BY <1>2, <1>4, <1>5, <1>8, <1>9, <1>10, <1>11 DEF LayerStep

LEMMA RenewedRow ==
  ASSUME NEW a, Row(a), NEW c, NEW row \in Version, Extends(a, c, row),
         row.status = "published", NEW n, n = Len(a.versions) + 1, NEW p \in 0..Len(a.versions),
         NEW r, r.version = n, r.to = "published", r.prev = p, r.pointer = n,
         NEW b, b = Written(c, r)
  PROVE  /\ Row(b) /\ Len(b.versions) = n /\ b.published = n
         /\ \A w \in DOMAIN a.versions :
              /\ b.versions[w].on = a.versions[w].on
              /\ b.versions[w].source = a.versions[w].source
              /\ b.versions[w].status = IF w = p THEN "deprecated" ELSE a.versions[w].status
         /\ b.versions[n].on = row.on /\ b.versions[n].source = row.source
         /\ b.versions[n].status = "published"
<1>1. /\ Row(c) /\ Len(c.versions) = n /\ c.versions[n] = row /\ n \in Nat \ {0}
      /\ \A w \in DOMAIN a.versions : c.versions[w] = a.versions[w] /\ w # n
      /\ \A w \in DOMAIN a.versions : w \in 1..n
      /\ DOMAIN c.versions = 1..n
  BY RowFields DEF Extends
<1>2. /\ r.version \in DOMAIN c.versions /\ r.prev \in 0..Len(c.versions)
      /\ r.to \in CatalogStatus /\ r.pointer \in {-1, 0, r.version}
  BY <1>1, RowFields DEF CatalogStatus
<1>3. /\ Row(b) /\ Len(b.versions) = Len(c.versions)
      /\ b.published = IF r.pointer = -1 THEN c.published ELSE r.pointer
      /\ \A w \in DOMAIN c.versions :
              /\ b.versions[w].on = c.versions[w].on
              /\ b.versions[w].source = c.versions[w].source
              /\ b.versions[w].status = IF w = r.version THEN r.to
                                        ELSE IF w = r.prev THEN "deprecated"
                                        ELSE c.versions[w].status
  BY SMTT(30), <1>1, <1>2, WrittenRow
<1>4. b.published = n /\ n \in DOMAIN c.versions
  BY <1>1, <1>3
<1>. QED
  BY SMTT(30), <1>1, <1>3, <1>4

(* A copy with new variants or fingerprints takes over from the version it    *)
(* copies.                                                                    *)
LEMMA LayerRenewed ==
  ASSUME NEW l, NEW a, NEW b, NEW more, NEW low, NEW over, NEW over1, NEW p \in Previous(a),
         SoundLayer(l, a, low, over), ~over1 => ~over,
         NEW c, NEW row \in Version, Extends(a, c, row), row.status = "published",
         row.source = "manual",
         NEW n, n = Len(a.versions) + 1,
         NEW r, r.version = n, r.to = "published", r.prev = p, r.pointer = n,
         b = Written(c, r),
         l \in DOMAIN Below => Row(more) /\ Released(more, row.on)
  PROVE  LayerStep(l, a, b, more, over1) /\ b.published = n /\ Len(b.versions) = n
<1>1. Row(a) /\ Len(a.versions) \in Nat /\ DOMAIN a.versions = 1..Len(a.versions)
  BY RowFields DEF SoundLayer
<1>2. /\ p \in 0..Len(a.versions) /\ 0 \notin DOMAIN a.versions
      /\ PublishedOf(a) \subseteq DOMAIN a.versions
  BY <1>1, PublishedIs DEF Previous
<1>3. /\ Row(b) /\ Len(b.versions) = n /\ b.published = n
      /\ \A w \in DOMAIN a.versions :
              /\ b.versions[w].on = a.versions[w].on
              /\ b.versions[w].source = a.versions[w].source
              /\ b.versions[w].status = IF w = p THEN "deprecated" ELSE a.versions[w].status
      /\ b.versions[n].on = row.on /\ b.versions[n].source = row.source
      /\ b.versions[n].status = "published"
  BY <1>1, <1>2, RenewedRow
<1>4. /\ DOMAIN b.versions = 1..n /\ n \in 1..n /\ n # 0
      /\ \A w \in DOMAIN b.versions : w \in DOMAIN a.versions \/ w = n
      /\ \A w \in DOMAIN a.versions : w \in DOMAIN b.versions
  BY <1>1, <1>3, RowFields
<1>5. Grows(a, b)
  BY <1>1, <1>3 DEF Grows
<1>6. KeepsReleases(a, b)
  <2>. SUFFICES ASSUME NEW v \in DOMAIN a.versions, Released(a, v) PROVE Released(b, v)
    BY DEF KeepsReleases
  <2>1. a.versions[v].status \in {"published", "deprecated"}
    BY <1>1, PublishedIs
  <2>2. b.versions[v].status \in {"published", "deprecated"} /\ v \in DOMAIN b.versions
    BY <1>3, <1>4, <2>1
  <2>. QED
    BY <1>3, <2>2, PublishedIs
<1>7. PointerSound(b)
  BY <1>3, <1>4, RowFields DEF PointerSound
<1>8. \A v \in PublishedOf(b) : v = n \/ v \in PublishedOf(a) \ {p}
  <2>. SUFFICES ASSUME NEW v \in PublishedOf(b), v # n PROVE v \in PublishedOf(a) \ {p}
    OBVIOUS
  <2>1. v \in DOMAIN b.versions /\ b.versions[v].status = "published"
    BY <1>3, PublishedIs
  <2>2. v \in DOMAIN a.versions /\ v # p /\ a.versions[v].status = "published"
    BY <1>3, <1>4, <2>1
  <2>. QED
    BY <1>1, <2>2, PublishedIs
<1>9. ~over1 => PublishedOf(b) \subseteq {b.published}
  <2>1. ~over1 => PublishedOf(a) \subseteq {a.published}
    BY DEF SoundLayer
  <2>2. ~over1 => PublishedOf(a) \subseteq {p}
    BY <2>1 DEF Previous
  <2>. QED
    BY <1>3, <1>8, <2>2
<1>10. l \in FourLayers => \A v \in DOMAIN b.versions :
        b.versions[v].source = "bootstrap" => v \in DOMAIN a.versions \/ Released(b, v)
  BY <1>3, <1>4
<1>11. l \in DOMAIN Below => row.on \in DOMAIN more.versions
  BY PublishedIs
<1>12. l \in DOMAIN Below =>
        /\ \A v \in DOMAIN b.versions :
             v \in DOMAIN a.versions \/ b.versions[v].on \in DOMAIN more.versions
        /\ \A v \in PublishedOf(b) : v \in PublishedOf(a) \/ Released(more, b.versions[v].on)
  BY <1>3, <1>4, <1>8, <1>11
<1>13. LayerStep(l, a, b, more, over1)
  BY <1>3, <1>5, <1>6, <1>7, <1>9, <1>10, <1>12 DEF LayerStep
<1>. QED
  BY <1>3, <1>13

(* What a package lacks is withdrawn.                                         *)
LEMMA LayerSuperseded ==
  ASSUME NEW l, NEW a, NEW b, NEW low, NEW more, NEW over, NEW over1,
         SoundLayer(l, a, low, over), ~over1 => ~over, b = Superseded(a)
  PROVE  LayerStep(l, a, b, more, over1) /\ Len(b.versions) = Len(a.versions)
<1>1. Row(a) /\ Len(a.versions) \in Nat
  BY RowFields DEF SoundLayer
<1>2. CASE b = a
  BY <1>1, <1>2, LayerStays
<1>3. CASE a.published # 0 /\ b = [Restated(a, a.published, "deprecated") EXCEPT !.published = 0]
  <2>1. PICK c : c = Restated(a, a.published, "deprecated")
    OBVIOUS
  <2>2. "deprecated" \in CatalogStatus /\ a.published \in 0..Len(a.versions)
        /\ a.published \in DOMAIN a.versions
    BY <1>1, <1>3, RowFields DEF CatalogStatus
  <2>3. /\ Row(c) /\ c.published = a.published /\ Len(c.versions) = Len(a.versions)
        /\ \A w \in DOMAIN a.versions :
              /\ c.versions[w].on = a.versions[w].on
              /\ c.versions[w].source = a.versions[w].source
              /\ c.versions[w].status = IF w = a.published THEN "deprecated"
                                        ELSE a.versions[w].status
    BY <1>1, <2>1, <2>2, RestatedRow
  <2>4. b = [c EXCEPT !.published = 0]
    BY <1>3, <2>1
  <2>5. b.versions = c.versions /\ b.published = 0 /\ Row(b)
    BY <2>3, <2>4, RowFields DEF Row
  <2>6. DOMAIN b.versions = DOMAIN a.versions /\ Len(a.versions) <= Len(b.versions)
    BY <1>1, <2>3, <2>5, RowFields
  <2>7. Grows(a, b)
    BY <2>3, <2>5, <2>6 DEF Grows
  <2>8. KeepsReleases(a, b)
    BY <1>1, <2>3, <2>5, <2>6, PublishedIs DEF KeepsReleases
  <2>9. PublishedOf(b) \subseteq PublishedOf(a) \ {a.published}
    BY <1>1, <2>3, <2>5, <2>6, PublishedIs
  <2>10. PointerSound(b)
    BY <2>5 DEF PointerSound
  <2>11. ~over1 => PublishedOf(b) \subseteq {b.published}
    BY <2>9 DEF SoundLayer
  <2>12. LayerStep(l, a, b, more, over1)
    BY <2>5, <2>6, <2>7, <2>8, <2>9, <2>10, <2>11 DEF LayerStep
  <2>. QED
    BY <2>3, <2>5, <2>12
<1>. QED
  BY <1>2, <1>3 DEF Superseded

-----------------------------------------------------------------------------
(* Steps of the catalogue *)

(* Steps that each layer allows keep the catalogue.                           *)
LEMMA LayersKeep ==
  ASSUME CatalogInv, NEW cat, artifact' = cat, DOMAIN cat = Layers, overlapped' \in BOOLEAN,
         Total(cat) <= MaxVersions,
         \A l \in Layers : LayerStep(l, artifact[l], cat[l], cat[Below[l]], overlapped')
  PROVE  /\ \A l \in Layers : cat[l] \in Artifact
         /\ RowsExist' /\ SeededIsReleased' /\ PointersArePublished' /\ NeverOnDraft'
<1>. PICK over1 : over1 = overlapped'
  OBVIOUS
<1>1. \A l \in Layers : /\ Row(artifact[l])
                         /\ SoundLayer(l, artifact[l], artifact[Below[l]], overlapped)
  BY SoundRows
<1>2. \A l \in Layers : Row(cat[l]) /\ Len(cat[l].versions) \in Nat
  BY RowFields DEF LayerStep
<1>3. \A l \in Layers : Len(cat[l].versions) <= MaxVersions
  BY <1>2, SmallRows
<1>4. \A l \in Layers : cat[l] \in Artifact
  <2>. SUFFICES ASSUME NEW l \in Layers PROVE cat[l] \in Artifact
    OBVIOUS
  <2>1. cat[l] \in [published: Nat, versions: Seq(Version)] /\ cat[l].published \in 0..MaxVersions
    BY <1>2, <1>3, RowFields, CatalogBounds DEF Row
  <2>. QED
    BY <2>1 DEF Artifact
<1>5. \A l \in Layers : \A v \in DOMAIN artifact[l].versions :
        /\ v \in DOMAIN cat[l].versions
        /\ cat[l].versions[v].on = artifact[l].versions[v].on
        /\ cat[l].versions[v].source = artifact[l].versions[v].source
        /\ l # "template" => (Released(artifact[l], v) => Released(cat[l], v))
  BY <1>1, <1>2, RowFields DEF LayerStep, Grows, KeepsReleases
<1>6. \A l \in DOMAIN Below : l \in Layers /\ Below[l] \in Layers /\ Below[l] # "template"
  BY LayerNames DEF FourLayers
<1>7. RowsExist'
  <2>1. \A l \in Layers : cat[l].published \in 0..Len(cat[l].versions)
    BY <1>2, RowFields
  <2>2. ASSUME NEW l \in DOMAIN Below, NEW v \in DOMAIN cat[l].versions
        PROVE  cat[l].versions[v].on \in DOMAIN cat[Below[l]].versions
    <3>1. CASE v \in DOMAIN artifact[l].versions
      <4>1. artifact[l].versions[v].on \in DOMAIN artifact[Below[l]].versions
        BY <1>1, <1>6, <3>1 DEF SoundLayer
      <4>. QED
        BY <1>5, <1>6, <3>1, <4>1
    <3>. QED
      BY <1>6, <2>2, <3>1 DEF LayerStep
  <2>. QED
    BY <2>1, <2>2 DEF RowsExist, On
<1>8. SeededIsReleased'
  <2>. SUFFICES ASSUME NEW l \in FourLayers, NEW v \in DOMAIN cat[l].versions,
                       cat[l].versions[v].source = "bootstrap"
                PROVE  Released(cat[l], v)
    BY DEF SeededIsReleased
  <2>1. l \in Layers /\ l # "template"
    BY LayerNames DEF FourLayers
  <2>2. CASE v \in DOMAIN artifact[l].versions
    BY <1>1, <1>5, <2>1, <2>2 DEF SoundLayer
  <2>. QED
    BY <2>1, <2>2 DEF LayerStep
<1>9. PointersArePublished'
  BY DEF LayerStep, PointersArePublished, PointerIsPublished, PublishedIsPointed, PointerSound
<1>10. NeverOnDraft'
  <2>. SUFFICES ASSUME NEW l \in DOMAIN Below, NEW v \in PublishedOf(cat[l])
                PROVE  Released(cat[Below[l]], cat[l].versions[v].on)
    BY DEF NeverOnDraft, Released, On
  <2>1. CASE v \in PublishedOf(artifact[l])
    <3>1. Released(artifact[Below[l]], artifact[l].versions[v].on)
          /\ v \in DOMAIN artifact[l].versions
      BY <1>1, <1>6, <2>1, PublishedIs DEF SoundLayer
    <3>2. artifact[l].versions[v].on \in DOMAIN artifact[Below[l]].versions
      BY <1>1, <1>6, <3>1, PublishedIs
    <3>. QED
      BY <1>5, <1>6, <3>1, <3>2
  <2>. QED
    BY <1>6, <2>1 DEF LayerStep
<1>. QED
  BY <1>4, <1>7, <1>8, <1>9, <1>10

(* A request that waits still fits what others made of the catalogue.         *)
LEMMA SlowStays ==
  ASSUME CatalogInv, NEW cat, NEW r, RowFits(artifact, r),
         \A l \in Layers : LayerStep(l, artifact[l], cat[l], cat[Below[l]], overlapped')
  PROVE  RowFits(cat, r)
<1>1. r.layer \in Layers /\ (r.layer \in DOMAIN Below => /\ Below[r.layer] \in Layers
                                                       /\ Below[r.layer] # "template")
  BY LayerNames DEF RowFits, Request, FourLayers
<1>2. \A l \in Layers : Row(artifact[l]) /\ Row(cat[l])
  BY SoundRows DEF LayerStep
<1>3. \A l \in Layers : /\ Len(artifact[l].versions) \in Nat /\ Len(cat[l].versions) \in Nat
                        /\ Len(artifact[l].versions) <= Len(cat[l].versions)
  BY <1>2, RowFields DEF LayerStep, Grows
<1>4. \A l \in Layers : \A v \in DOMAIN artifact[l].versions :
        /\ v \in DOMAIN cat[l].versions
        /\ cat[l].versions[v].on = artifact[l].versions[v].on
        /\ l # "template" => (Released(artifact[l], v) => Released(cat[l], v))
  BY <1>2, <1>3, RowFields DEF LayerStep, Grows, KeepsReleases
<1>5. \A l \in Layers : \A v : Released(artifact[l], v) => v \in DOMAIN artifact[l].versions
  BY <1>2, PublishedIs
<1>6. r.prev \in 0..Len(cat[r.layer].versions)
  BY <1>1, <1>3 DEF RowFits
<1>7. r.layer \in DOMAIN Below /\ r.to = "published" =>
       Released(cat[Below[r.layer]], cat[r.layer].versions[r.version].on)
  BY <1>1, <1>4, <1>5 DEF RowFits
<1>. QED
  BY <1>1, <1>4, <1>6, <1>7 DEF RowFits

LEMMA CommitKeeps ==
  ASSUME CatalogInv, NEW cat, Commit(cat), DOMAIN cat = Layers,
         \A l \in Layers : LayerStep(l, artifact[l], cat[l], cat[Below[l]], overlapped')
  PROVE  CatalogInv'
<1>1. artifact' = cat /\ Total(cat) <= MaxVersions /\ slow' = slow /\ overlapped' \in BOOLEAN
      /\ (slow # NoRequest => overlapped')
  BY DEF Commit, Bounded, CatalogInv, CatalogTypeOK
<1>2. /\ \A l \in Layers : cat[l] \in Artifact
      /\ RowsExist' /\ SeededIsReleased' /\ PointersArePublished' /\ NeverOnDraft'
  BY <1>1, LayersKeep
<1>3. SlowFits'
  BY <1>1, SlowStays DEF SlowFits, CatalogInv
<1>4. CatalogTypeOK'
  BY <1>1, <1>2 DEF CatalogTypeOK, CatalogInv
<1>. QED
  BY <1>2, <1>3, <1>4 DEF CatalogInv

-----------------------------------------------------------------------------
(* Requests *)

(* What a request writes keeps the catalogue, at once or late.                *)
LEMMA RequestWrites ==
  ASSUME CatalogInv, NEW r, RowFits(artifact, r), NEW cat,
         cat = [artifact EXCEPT ![r.layer] = Written(artifact[r.layer], r)],
         ~overlapped' => ~overlapped /\ DraftDecided(artifact[r.layer], r)
  PROVE  /\ DOMAIN cat = Layers
         /\ \A l \in Layers : LayerStep(l, artifact[l], cat[l], cat[Below[l]], overlapped')
         /\ \A l \in Layers : Len(cat[l].versions) = Len(artifact[l].versions)
<1>1. DOMAIN artifact = Layers /\ r.layer \in Layers /\ r.to \in CatalogStatus
  BY DEF CatalogInv, CatalogTypeOK, RowFits, Request
<1>2. PICK b : b = Written(artifact[r.layer], r)
  OBVIOUS
<1>3. DOMAIN cat = Layers /\ cat[r.layer] = b
      /\ \A l \in Layers : l # r.layer => cat[l] = artifact[l]
  BY <1>1, <1>2
<1>4. \A l \in Layers : SoundLayer(l, artifact[l], artifact[Below[l]], overlapped)
                        /\ Row(artifact[l])
  BY SoundRows
<1>5. \A l \in DOMAIN Below : Below[l] \in Layers /\ Below[l] # l
  BY LayerNames DEF FourLayers
<1>6. r.layer \in DOMAIN Below /\ r.to = "published" =>
        Released(cat[Below[r.layer]], artifact[r.layer].versions[r.version].on)
  BY <1>3, <1>5 DEF RowFits
<1>. PICK over1, a, m : over1 = overlapped' /\ a = artifact[r.layer] /\ m = r.layer
  OBVIOUS
<1>7. LayerStep(m, a, b, cat[Below[m]], over1)
  <2>1. /\ m \in Layers /\ SoundLayer(m, a, artifact[Below[m]], overlapped) /\ b = Written(a, r)
        /\ r.version \in DOMAIN a.versions /\ r.prev \in 0..Len(a.versions)
        /\ r.to \in CatalogStatus /\ r.pointer \in {-1, 0, r.version}
        /\ (m # "template" => r.to = "published" /\ r.pointer = r.version)
        /\ (m \in DOMAIN Below /\ r.to = "published" =>
              Released(cat[Below[m]], a.versions[r.version].on))
        /\ (~over1 => ~overlapped /\ DraftDecided(a, r))
    BY <1>1, <1>2, <1>4, <1>6 DEF RowFits
  <2>. QED
    BY <2>1, LayerWritten
<1>8. Len(b.versions) = Len(a.versions)
  <2>1. /\ Row(a) /\ r.version \in DOMAIN a.versions /\ r.prev \in 0..Len(a.versions)
        /\ r.to \in CatalogStatus /\ r.pointer \in {-1, 0, r.version} /\ b = Written(a, r)
    BY <1>1, <1>2, <1>4 DEF RowFits
  <2>. QED
    BY <2>1, WrittenRow
<1>9. ASSUME NEW l \in Layers, l # m
      PROVE  LayerStep(l, artifact[l], artifact[l], cat[Below[l]], over1)
  BY <1>4, LayerStays
<1>. QED
  BY <1>3, <1>7, <1>8, <1>9

LEMMA RequestHandled ==
  ASSUME CatalogInv, NEW r, RowFits(artifact, r), DraftDecided(artifact[r.layer], r), Handle(r)
  PROVE  CatalogInv'
<1>1. CASE Commit([artifact EXCEPT ![r.layer] = Written(@, r)])
  <2>1. PICK cat : cat = [artifact EXCEPT ![r.layer] = Written(artifact[r.layer], r)]
    OBVIOUS
  <2>2. Commit(cat)
    BY <1>1, <2>1
  <2>3. ~overlapped' => ~overlapped /\ DraftDecided(artifact[r.layer], r)
    BY <2>2 DEF Commit
  <2>. QED
    BY <2>1, <2>2, <2>3, RequestWrites, CommitKeeps
<1>2. CASE slow = NoRequest /\ ~overlapped /\ slow' = r /\ UNCHANGED <<artifact, overlapped>>
  <2>1. artifact' = artifact /\ overlapped' = overlapped /\ slow' = r /\ r \in Request
    BY <1>2 DEF RowFits
  <2>2. CatalogTypeOK'
    BY <2>1 DEF CatalogTypeOK, CatalogInv
  <2>3. SlowFits'
    BY <2>1 DEF SlowFits
  <2>4. /\ RowsExist' /\ SeededIsReleased' /\ PointersArePublished' /\ NeverOnDraft'
    BY <2>1 DEF CatalogInv, RowsExist, SeededIsReleased, PointersArePublished, NeverOnDraft,
                PointerIsPublished, PublishedIsPointed, On
  <2>. QED
    BY <2>2, <2>3, <2>4 DEF CatalogInv
<1>. QED
  BY <1>1, <1>2 DEF Handle

LEMMA SlowWrites ==
  ASSUME CatalogInv, SlowCommit
  PROVE  CatalogInv'
<1>1. slow # NoRequest /\ slow' = NoRequest /\ overlapped' = overlapped
  BY DEF SlowCommit
<1>2. PICK r : r = slow
  OBVIOUS
<1>3. RowFits(artifact, r) /\ (~overlapped => DraftDecided(artifact[r.layer], r))
  BY <1>1, <1>2 DEF CatalogInv, SlowFits
<1>4. PICK cat : cat = [artifact EXCEPT ![r.layer] = Written(artifact[r.layer], r)]
  OBVIOUS
<1>5. artifact' = cat
  BY <1>2, <1>4 DEF SlowCommit
<1>6. /\ DOMAIN cat = Layers
      /\ \A l \in Layers : LayerStep(l, artifact[l], cat[l], cat[Below[l]], overlapped')
      /\ \A l \in Layers : Len(cat[l].versions) = Len(artifact[l].versions)
  BY <1>1, <1>3, <1>4, RequestWrites
<1>7. Total(cat) = Total(artifact)
  BY <1>6, LayerNames DEF Total
<1>8. Total(cat) <= MaxVersions /\ overlapped' \in BOOLEAN
  BY <1>1, <1>7 DEF CatalogInv, RowsExist, CatalogTypeOK
<1>9. /\ \A l \in Layers : cat[l] \in Artifact
      /\ RowsExist' /\ SeededIsReleased' /\ PointersArePublished' /\ NeverOnDraft'
  BY <1>5, <1>6, <1>8, LayersKeep
<1>10. CatalogTypeOK' /\ SlowFits'
  BY <1>1, <1>5, <1>6, <1>8, <1>9 DEF CatalogTypeOK, SlowFits
<1>. QED
  BY <1>9, <1>10 DEF CatalogInv

(* What a publication of a version that rests on a released one writes.       *)
LEMMA PublicationFits ==
  ASSUME CatalogInv, NEW l \in Layers, NEW v \in DOMAIN artifact[l].versions,
         NEW r \in Publication(l, v),
         l \in DOMAIN Below => Released(artifact[Below[l]], artifact[l].versions[v].on)
  PROVE  RowFits(artifact, r) /\ DraftDecided(artifact[l], r) /\ r.layer = l
<1>1. PICK p \in Previous(artifact[l]) :
        r = [layer |-> l, version |-> v, to |-> "published", prev |-> p, pointer |-> v]
  BY DEF Publication
<1>2. Row(artifact[l]) /\ Len(artifact[l].versions) <= MaxVersions
  BY SoundRows
<1>3. /\ Len(artifact[l].versions) \in Nat
      /\ DOMAIN artifact[l].versions = 1..Len(artifact[l].versions)
      /\ PublishedOf(artifact[l]) \subseteq DOMAIN artifact[l].versions
  BY <1>2, RowFields, PublishedIs
<1>4. p \in 0..Len(artifact[l].versions)
  BY <1>3 DEF Previous
<1>5. p \in 0..MaxVersions /\ v \in Numbers /\ v \in -1..MaxVersions
      /\ "published" \in CatalogStatus
  BY <1>2, <1>3, <1>4, CatalogBounds DEF Numbers, CatalogStatus
<1>6. r \in Request
  BY <1>1, <1>5 DEF Request
<1>7. r.layer = l /\ r.version = v /\ r.to = "published" /\ r.prev = p /\ r.pointer = v
  BY <1>1
<1>8. DraftDecided(artifact[l], r)
  BY <1>7 DEF DraftDecided
<1>. QED
  BY <1>4, <1>6, <1>7, <1>8 DEF RowFits

(* The field that a binding is checked against is released.                   *)
LEMMA CheckedField ==
  ASSUME CatalogInv, NEW l \in {"region", "template"}, NEW v \in DOMAIN artifact[l].versions,
         FieldIsPublished(l, v)
  PROVE  Released(artifact["field"], artifact[l].versions[v].on)
<1>1. "field" \in Layers /\ "field" # "template" /\ l \in DOMAIN Below /\ Below[l] = "field"
      /\ l \in Layers
  BY LayerNames DEF FourLayers
<1>2. artifact[l].versions[v].on \in DOMAIN artifact["field"].versions
      /\ artifact["field"].published = artifact[l].versions[v].on
  BY <1>1, SoundRows DEF SoundLayer, FieldIsPublished, On
<1>3. Row(artifact["field"]) /\ PointerSound(artifact["field"])
  BY <1>1, SoundRows DEF SoundLayer
<1>4. 0 \notin DOMAIN artifact["field"].versions
  BY <1>3, PublishedIs
<1>. QED
  BY <1>2, <1>3, <1>4 DEF PointerSound, Released

LEMMA FieldPublicationFits ==
  ASSUME CatalogInv, NEW r \in FieldPublications
  PROVE  RowFits(artifact, r) /\ DraftDecided(artifact[r.layer], r)
<1>1. "field" \in Layers /\ "field" \notin DOMAIN Below
  BY LayerNames
<1>. QED
  BY <1>1, PublicationFits DEF FieldPublications, Drafts

LEMMA RegionPublicationFits ==
  ASSUME CatalogInv, NEW r \in RegionPublications
  PROVE  RowFits(artifact, r) /\ DraftDecided(artifact[r.layer], r)
<1>1. PICK v \in DOMAIN artifact["region"].versions :
        r \in Publication("region", v) /\ FieldIsPublished("region", v)
  BY DEF RegionPublications, Drafts
<1>2. Released(artifact["field"], artifact["region"].versions[v].on)
  BY <1>1, CheckedField
<1>. QED
  BY <1>1, <1>2, LayerNames, PublicationFits DEF FourLayers

LEMMA SheetPublicationFits ==
  ASSUME CatalogInv, NEW r \in SheetPublications
  PROVE  RowFits(artifact, r) /\ DraftDecided(artifact[r.layer], r)
<1>1. PICK v \in DOMAIN artifact["sheet"].versions :
        r \in Publication("sheet", v)
        /\ StatusOf(artifact["region"], On("sheet", v)) = "published"
  BY DEF SheetPublications, Drafts
<1>2. Released(artifact["region"], artifact["sheet"].versions[v].on)
  BY <1>1 DEF Released, On
<1>. QED
  BY <1>1, <1>2, LayerNames, PublicationFits DEF FourLayers

LEMMA RoutePublicationFits ==
  ASSUME CatalogInv, NEW r \in RoutePublications
  PROVE  RowFits(artifact, r) /\ DraftDecided(artifact[r.layer], r)
<1>1. PICK v \in DOMAIN artifact["route"].versions :
        r \in Publication("route", v)
        /\ StatusOf(artifact["sheet"], On("route", v)) = "published"
  BY DEF RoutePublications, Drafts
<1>2. Released(artifact["sheet"], artifact["route"].versions[v].on)
  BY <1>1 DEF Released, On
<1>. QED
  BY <1>1, <1>2, LayerNames, PublicationFits DEF FourLayers

LEMMA TransitionFits ==
  ASSUME CatalogInv, NEW r \in TemplateTransitions
  PROVE  RowFits(artifact, r) /\ DraftDecided(artifact[r.layer], r)
<1>. PICK t : t = artifact["template"]
  OBVIOUS
<1>1. "template" \in Layers /\ Below["template"] = "field" /\ "template" \in DOMAIN Below
  BY LayerNames
<1>2. CASE \E v \in DOMAIN t.versions :
             r \in Publication("template", v) /\ FieldIsPublished("template", v)
  <2>1. PICK v \in DOMAIN t.versions :
          r \in Publication("template", v) /\ FieldIsPublished("template", v)
    BY <1>2
  <2>2. Released(artifact["field"], artifact["template"].versions[v].on)
    BY <2>1, CheckedField
  <2>. QED
    BY <1>1, <2>1, <2>2, PublicationFits
<1>3. CASE /\ r \in [layer: {"template"}, version: DOMAIN t.versions,
                     to: DOMAIN Transition, prev: {0}, pointer: {-1, 0}]
           /\ StatusOf(t, r.version) = Transition[r.to]
           /\ r.pointer = IF r.to = "deprecated" /\ t.published # 0 THEN 0 ELSE -1
  <2>1. /\ r.layer = "template" /\ r.version \in DOMAIN t.versions /\ r.prev = 0
        /\ r.pointer \in {-1, 0}
        /\ r.to \in {"user_confirmed", "admin_review", "draft", "deprecated"}
        /\ StatusOf(t, r.version) = "published" <=> r.to = "deprecated"
    BY <1>3 DEF Transition
  <2>2. Row(t) /\ Len(t.versions) <= MaxVersions
    BY <1>1, SoundRows
  <2>3. Len(t.versions) \in Nat /\ DOMAIN t.versions = 1..Len(t.versions)
    BY <2>2, RowFields
  <2>4. DraftDecided(t, r)
    BY <1>3, <2>1 DEF DraftDecided
  <2>5. r.version \in Numbers /\ 0 \in 0..MaxVersions /\ r.pointer \in -1..MaxVersions
    BY <2>1, <2>2, <2>3, CatalogBounds DEF Numbers
  <2>6. r \in Request /\ r.to # "published"
    <3>1. r.to \in CatalogStatus /\ r.to # "published"
      BY <2>1 DEF CatalogStatus
    <3>. QED
      BY <1>1, <1>3, <2>1, <2>5, <3>1 DEF Request
  <2>7. r.prev \in 0..Len(t.versions)
    BY <2>1, <2>3
  <2>. QED
    BY <2>1, <2>4, <2>6, <2>7 DEF RowFits
<1>4. \/ r \in UNION {Publication("template", v) :
                     v \in {d \in DOMAIN t.versions :
                              StatusOf(t, d) = "admin_review" /\ FieldIsPublished("template", d)}}
      \/ r \in {q \in [layer: {"template"}, version: DOMAIN t.versions,
                      to: DOMAIN Transition, prev: {0}, pointer: {-1, 0}] :
                 /\ StatusOf(t, q.version) = Transition[q.to]
                 /\ q.pointer = IF q.to = "deprecated" /\ t.published # 0 THEN 0 ELSE -1}
  BY DEF TemplateTransitions
<1>. QED
  <2>. HIDE DEF Transition
  <2>. QED
    BY <1>2, <1>3, <1>4, Zenon

-----------------------------------------------------------------------------
(* New codes, new versions, packages and maintenance *)

LEMMA InsertKeeps ==
  ASSUME CatalogInv, NEW l \in Layers, NEW on, Inserted(l, on),
         l \in DOMAIN Below => on \in DOMAIN artifact[Below[l]].versions,
         l \notin DOMAIN Below => on = 0
  PROVE  CatalogInv'
<1>1. \A m \in Layers : /\ SoundLayer(m, artifact[m], artifact[Below[m]], overlapped)
                        /\ Row(artifact[m]) /\ Len(artifact[m].versions) <= MaxVersions
  BY SoundRows
<1>2. \A m \in DOMAIN Below : Below[m] \in Layers /\ Below[m] # m
  BY LayerNames DEF FourLayers
<1>3. on \in 0..MaxVersions
  <2>1. CASE l \in DOMAIN Below
    BY <1>1, <1>2, <2>1, RowFields, CatalogBounds
  <2>. QED
    BY <2>1, CatalogBounds
<1>4. PICK a, b : a = artifact[l] /\ b = [a EXCEPT !.versions = Append(@, Draft(on))]
  OBVIOUS
<1>5. PICK cat : cat = [artifact EXCEPT ![l] = b]
  OBVIOUS
<1>6. DOMAIN artifact = Layers
  BY DEF CatalogInv, CatalogTypeOK
<1>7. Commit(cat)
  <2>1. cat = [artifact EXCEPT ![l].versions = Append(@, Draft(on))]
    BY <1>4, <1>5, <1>6
  <2>. QED
    BY <2>1 DEF Inserted
<1>8. DOMAIN cat = Layers /\ cat[l] = b /\ \A m \in Layers : m # l => cat[m] = artifact[m]
  BY <1>5, <1>6
<1>. PICK over1 : over1 = overlapped'
  OBVIOUS
<1>9. ~over1 => ~overlapped
  BY <1>7 DEF Commit
<1>10. LayerStep(l, a, b, cat[Below[l]], over1)
  <2>1. PICK row : row = Draft(on)
    OBVIOUS
  <2>2. row \in Version /\ row.status = "draft" /\ row.on = on /\ row.source = "manual"
    BY <1>3, <2>1, VersionFields
  <2>3. Row(a) /\ b = [a EXCEPT !.versions = Append(@, row)]
    BY <1>1, <1>4, <2>1
  <2>4. Extends(a, b, row)
    BY <2>2, <2>3, AppendedRow
  <2>5. l \in DOMAIN Below => on \in DOMAIN cat[Below[l]].versions
    BY <1>2, <1>8
  <2>6. SoundLayer(l, a, artifact[Below[l]], overlapped)
    BY <1>1, <1>4
  <2>. QED
    BY <1>9, <2>5, <2>6, <2>2, <2>4, LayerDrafted
<1>11. ASSUME NEW m \in Layers, m # l
       PROVE  LayerStep(m, artifact[m], artifact[m], cat[Below[m]], over1)
  BY <1>1, <1>9, LayerStays
<1>12. \A m \in Layers : LayerStep(m, artifact[m], cat[m], cat[Below[m]], overlapped')
  BY <1>4, <1>8, <1>10, <1>11
<1>. QED
  BY <1>7, <1>8, <1>12, CommitKeeps

LEMMA CreateKeeps ==
  ASSUME CatalogInv,
         \/ CreateField \/ CreateFieldVersion
         \/ CreateRegionTemplate \/ CreateRegionTemplateVersion
         \/ CreateSheetComposition \/ CreateSheetCompositionVersion
         \/ CreateWorkbookRoute \/ CreateWorkbookRouteVersion
         \/ CreateTemplate \/ CreateTemplateVersion
  PROVE  CatalogInv'
<1>1. CASE CreateField \/ CreateFieldVersion
  <2>1. Inserted("field", 0)
    BY <1>1 DEF CreateField, CreateFieldVersion, Create
  <2>. QED
    BY <2>1, LayerNames, InsertKeeps
<1>2. CASE CreateRegionTemplate \/ CreateRegionTemplateVersion
  <2>1. PICK on \in Named("region") : Inserted("region", on)
    BY <1>2 DEF CreateRegionTemplate, CreateRegionTemplateVersion, Create
  <2>. QED
    BY <2>1, LayerNames, InsertKeeps DEF Named
<1>3. CASE CreateSheetComposition \/ CreateSheetCompositionVersion
  <2>1. PICK on \in Named("sheet") : Inserted("sheet", on)
    BY <1>3 DEF CreateSheetComposition, CreateSheetCompositionVersion, Create
  <2>. QED
    BY <2>1, LayerNames, InsertKeeps DEF Named
<1>4. CASE CreateWorkbookRoute \/ CreateWorkbookRouteVersion
  <2>1. PICK on \in Named("route") : Inserted("route", on)
    BY <1>4 DEF CreateWorkbookRoute, CreateWorkbookRouteVersion, Create
  <2>. QED
    BY <2>1, LayerNames, InsertKeeps DEF Named
<1>5. CASE CreateTemplate \/ CreateTemplateVersion
  <2>1. PICK on \in Named("template") : Inserted("template", on)
    BY <1>5 DEF CreateTemplate, CreateTemplateVersion, Create
  <2>. QED
    BY <2>1, LayerNames, InsertKeeps DEF Named
<1>. QED
  BY <1>1, <1>2, <1>3, <1>4, <1>5

(* A layer publishes what rests on the published version of the layer below.  *)
LEMMA PublishedRow ==
  ASSUME NEW more, Row(more), more.published # 0, Len(more.versions) <= MaxVersions,
         NEW source \in {"manual", "corpus", "migration", "bootstrap"},
         NEW g \in Generations \cup {0}, NEW row, row = Release(more.published, source, g)
  PROVE  row \in Version /\ row.status = "published" /\ row.on = more.published
<1>1. more.published \in 0..MaxVersions
  BY RowFields, CatalogBounds
<1>. QED
  BY <1>1, VersionFields

LEMMA LayerPublishes ==
  ASSUME NEW l \in {"region", "sheet", "route"}, NEW a, NEW b, Row(a), NEW more, Row(more),
         PointerSound(more), more.published # 0, NEW row \in Version,
         row.status = "published", row.on = more.published, b = Issued(a, row), NEW over1
  PROVE  LayerStep(l, a, b, more, over1) /\ b.published # 0
<1>1. Released(more, row.on)
  BY DEF PointerSound, Released
<1>2. LayerStep(l, a, b, more, over1)
  BY <1>1, LayerIssued
<1>3. b.published = Len(a.versions) + 1
  BY DEF Issued
<1>4. Len(a.versions) \in Nat
  BY RowFields
<1>. QED
  BY <1>2, <1>3, <1>4

(* A package publishes a field that has no published version.                 *)
LEMMA LayerFirst ==
  ASSUME NEW l \in Layers, l \notin DOMAIN Below, NEW a, NEW b, NEW low, NEW more,
         NEW over, NEW over1,
         SoundLayer(l, a, low, over), ~over1 => ~over, a.published = 0,
         NEW c, NEW row \in Version, Extends(a, c, row), row.status = "published",
         row.source = "corpus",
         b.versions = c.versions, b.published = Len(a.versions) + 1, Row(b)
  PROVE  LayerStep(l, a, b, more, over1) /\ b.published # 0
<1>1. Row(a) /\ Row(c) /\ Len(a.versions) \in Nat
  BY RowFields DEF SoundLayer, Extends
<1>2. /\ \A w \in DOMAIN a.versions : b.versions[w] = a.versions[w] /\ w \in DOMAIN b.versions
      /\ \A w \in DOMAIN b.versions : w \in DOMAIN a.versions \/ w = b.published
      /\ b.versions[b.published] = row /\ b.published \in DOMAIN b.versions /\ b.published # 0
  BY <1>1, RowFields DEF Extends
<1>3. Grows(a, b)
  BY <1>1, <1>2, RowFields DEF Grows, Extends
<1>4. KeepsReleases(a, b)
  BY <1>1, <1>2, PublishedIs DEF KeepsReleases
<1>5. PointerSound(b)
  BY <1>2, RowFields DEF PointerSound
<1>6. ~over1 => PublishedOf(b) \subseteq {b.published}
  <2>1. ~over1 => PublishedOf(a) = {}
    BY <1>1, PublishedIs DEF SoundLayer
  <2>. QED
    BY <1>1, <1>2, <2>1, PublishedIs
<1>7. \A v \in DOMAIN b.versions :
        b.versions[v].source = "bootstrap" => v \in DOMAIN a.versions
  BY <1>2
<1>. QED
  BY <1>2, <1>3, <1>4, <1>5, <1>6, <1>7 DEF LayerStep

(* What the governor decides on a field.                                      *)
LEMMA FieldLearns ==
  ASSUME CatalogInv, NEW a, a = artifact["field"],
         NEW b \in LearnedVersion(a) \cup Coined(a), NEW more, NEW over1, ~over1 => ~overlapped
  PROVE  LayerStep("field", a, b, more, over1)
<1>1. "field" \in Layers /\ "field" \notin DOMAIN Below
  BY LayerNames
<1>2. SoundLayer("field", a, artifact[Below["field"]], overlapped) /\ Row(a)
  BY <1>1, SoundRows
<1>3. PICK row : row = Release(0, "manual", 0)
  OBVIOUS
<1>4. row \in Version /\ row.status = "published" /\ row.source = "manual" /\ row.on = 0
  BY <1>3, VersionFields, CatalogBounds
<1>5. CASE b = a
  BY <1>2, <1>5, LayerStays
<1>6. ASSUME NEW p \in PublishedOf(a),
             b = Written([a EXCEPT !.versions = Append(@, Release(0, "manual", 0))],
                         [version |-> Len(a.versions) + 1, to |-> "published",
                          prev |-> p, pointer |-> Len(a.versions) + 1])
      PROVE  LayerStep("field", a, b, more, over1)
  <2>1. PICK c, r, n : /\ c = [a EXCEPT !.versions = Append(@, row)]
                       /\ r = [version |-> Len(a.versions) + 1, to |-> "published",
                               prev |-> p, pointer |-> Len(a.versions) + 1]
                       /\ n = Len(a.versions) + 1
    OBVIOUS
  <2>2. b = Written(c, r)
    BY <1>3, <1>6, <2>1
  <2>3. r.version = n /\ r.to = "published" /\ r.prev = p /\ r.pointer = n
    BY <2>1
  <2>4. Extends(a, c, row)
    BY <1>2, <1>4, <2>1, AppendedRow
  <2>5. p \in Previous(a)
    BY <1>6 DEF Previous
  <2>. HIDE <1>6
  <2>. QED
    BY <1>1, <1>2, <1>4, <2>1, <2>2, <2>3, <2>4, <2>5, LayerRenewed
<1>7. CASE b = Issued(a, Release(0, "manual", 0))
  BY <1>1, <1>2, <1>3, <1>4, <1>7, LayerIssued
<1>8. b = a \/ b = Issued(a, Release(0, "manual", 0))
      \/ \E p \in PublishedOf(a) :
           b = Written([a EXCEPT !.versions = Append(@, Release(0, "manual", 0))],
                       [version |-> Len(a.versions) + 1, to |-> "published",
                        prev |-> p, pointer |-> Len(a.versions) + 1])
  BY Zenon DEF LearnedVersion, Coined
<1>. QED
  BY <1>5, <1>6, <1>7, <1>8

LEMMA GovernanceCommits ==
  ASSUME CatalogInv, CommitGovernance
  PROVE  CatalogInv'
<1>1. PICK field, region :
        /\ field \in LearnedVersion(artifact["field"]) \cup Coined(artifact["field"])
        /\ region \in Governed(artifact["region"], field) /\ field.published # 0
        /\ Commit([artifact EXCEPT !["field"] = field, !["region"] = region])
  BY DEF CommitGovernance
<1>2. PICK cat : cat = [artifact EXCEPT !["field"] = field, !["region"] = region]
  OBVIOUS
<1>3. Commit(cat)
  BY <1>1, <1>2
<1>4. DOMAIN artifact = Layers
  BY DEF CatalogInv, CatalogTypeOK
<1>5. /\ DOMAIN cat = Layers /\ cat["field"] = field /\ cat["region"] = region
      /\ cat["sheet"] = artifact["sheet"] /\ cat["route"] = artifact["route"]
      /\ cat["template"] = artifact["template"]
  BY <1>2, <1>4, LayerNames
<1>. PICK over1, f, g : over1 = overlapped' /\ f = artifact["field"] /\ g = artifact["region"]
  OBVIOUS
<1>6. ~over1 => ~overlapped
  BY <1>3 DEF Commit
<1>7. \A more : LayerStep("field", f, field, more, over1)
  BY <1>1, <1>6, FieldLearns
<1>8. Row(field) /\ PointerSound(field)
  BY <1>7 DEF LayerStep
<1>9. region = Issued(g, Release(field.published, "manual", 0))
  BY <1>1 DEF Governed
<1>10. \A l \in Layers : /\ Row(artifact[l])
                          /\ SoundLayer(l, artifact[l], artifact[Below[l]], overlapped)
  BY SoundRows
<1>11. Len(region.versions) \in Nat
  BY <1>9, <1>10, LayerNames, IssuedRow, RowFields
<1>12. \A l \in Layers : Len(cat[l].versions) \in Nat
  BY <1>5, <1>8, <1>10, <1>11, LayerNames, RowFields
<1>13. Len(field.versions) <= MaxVersions
  BY <1>3, <1>5, <1>12, LayerNames, SmallRows DEF Commit, Bounded
<1>14. LayerStep("region", g, region, field, over1)
  <2>1. PICK row : row = Release(field.published, "manual", 0)
    OBVIOUS
  <2>2. row \in Version /\ row.status = "published" /\ row.on = field.published
    BY <1>1, <1>8, <1>13, <2>1, PublishedRow
  <2>3. Row(g) /\ region = Issued(g, row)
    BY <1>9, <1>10, <2>1, LayerNames
  <2>. QED
    BY <1>1, <1>8, <2>2, <2>3, LayerPublishes
<1>15. \A l \in {"sheet", "route", "template"} : \A more :
         LayerStep(l, artifact[l], artifact[l], more, over1)
  BY <1>6, <1>10, LayerNames, LayerStays
<1>16. \A l \in Layers : LayerStep(l, artifact[l], cat[l], cat[Below[l]], overlapped')
  BY <1>5, <1>7, <1>14, <1>15, LayerNames
<1>. QED
  BY <1>3, <1>5, <1>16, CommitKeeps

(* What the stages of a package make of the layers.                           *)
LEMMA StagedRows ==
  ASSUME NEW c, DOMAIN c = Layers, NEW l \in Layers, NEW g, NEW d, d = StagedLayer(c, l, g)
  PROVE  /\ DOMAIN d = Layers /\ \A m \in Layers : m # l => d[m] = c[m]
         /\ \/ d[l] = c[l] /\ c[l].published # 0
            \/ d[l] = Issued(c[l], Release(c[Below[l]].published, "corpus", g))
BY DEF StagedLayer

LEMMA StagedFields ==
  ASSUME CatalogInv, NEW c, DOMAIN c = Layers, c["field"] = artifact["field"],
         NEW g \in Generations,
         NEW d, d = StagedField(c, g), NEW more, NEW over1, ~over1 => ~overlapped
  PROVE  /\ DOMAIN d = Layers /\ \A m \in Layers : m # "field" => d[m] = c[m]
         /\ LayerStep("field", artifact["field"], d["field"], more, over1)
         /\ d["field"].published # 0
<1>1. "field" \in Layers /\ "field" \notin DOMAIN Below
  BY LayerNames
<1>. PICK a : a = c["field"]
  OBVIOUS
<1>2. SoundLayer("field", a, artifact[Below["field"]], overlapped) /\ Row(a)
  BY <1>1, SoundRows
<1>3. CASE a.published # 0
  <2>1. d = c
    BY <1>3 DEF StagedField
  <2>. QED
    BY <1>2, <1>3, <2>1, LayerStays
<1>4. CASE a.published = 0
  <2>1. PICK row, n : row = Release(0, "corpus", g) /\ n = Len(a.versions) + 1
    OBVIOUS
  <2>2. row \in Version /\ row.status = "published" /\ row.source = "corpus"
    BY <2>1, VersionFields, CatalogBounds
  <2>3. PICK w : w = [a EXCEPT !.versions = Append(@, row)]
    OBVIOUS
  <2>4. Extends(a, w, row)
    BY <1>2, <2>2, <2>3, AppendedRow
  <2>5. PICK b : b = [w EXCEPT !.published = n]
    OBVIOUS
  <2>6. DOMAIN a = {"published", "versions"}
    BY <1>2, RowFields
  <2>7. d = [c EXCEPT !["field"] = b]
    <3>1. d = [c EXCEPT !["field"].versions = Append(@, row), !["field"].published = n]
      BY <1>4, <2>1 DEF StagedField
    <3>. QED
      BY <1>1, <2>3, <2>5, <2>6, <3>1
  <2>8. b.versions = w.versions /\ b.published = n /\ Row(b)
    <3>1. Row(w) /\ Len(w.versions) = n /\ n \in Nat
      BY <1>2, <2>1, <2>4, RowFields DEF Extends
    <3>. QED
      BY <2>5, <3>1 DEF Row
  <2>9. LayerStep("field", a, b, more, over1) /\ b.published # 0
    BY <1>1, <1>2, <1>4, <2>1, <2>2, <2>4, <2>8, LayerFirst
  <2>. QED
    BY <1>1, <2>7, <2>9
<1>. QED
  BY <1>3, <1>4

LEMMA PackageKeeps ==
  ASSUME CatalogInv, PublishDirectory
  PROVE  CatalogInv'
<1>1. PICK g \in Generations, n \in 1..4 : Commit(Staged(artifact, n, g))
  BY DEF PublishDirectory
<1>2. PICK kept : kept = [l \in Layers |->
        IF \E i \in 2..4 : i > n /\ Chain[i] = l THEN Superseded(artifact[l]) ELSE artifact[l]]
  OBVIOUS
<1>3. PICK field : field = StagedField(kept, g)
  OBVIOUS
<1>4. PICK region : region = IF n >= 2 THEN StagedLayer(field, "region", g) ELSE field
  OBVIOUS
<1>5. PICK sheet : sheet = IF n >= 3 THEN StagedLayer(region, "sheet", g) ELSE region
  OBVIOUS
<1>6. PICK cat : cat = IF n >= 4 THEN StagedLayer(sheet, "route", g) ELSE sheet
  OBVIOUS
<1>7. Commit(cat)
  BY <1>1, <1>2, <1>3, <1>4, <1>5, <1>6 DEF Staged
<1>8. /\ DOMAIN kept = Layers
      /\ kept["field"] = artifact["field"] /\ kept["template"] = artifact["template"]
      /\ kept["region"] = IF n < 2 THEN Superseded(artifact["region"]) ELSE artifact["region"]
      /\ kept["sheet"] = IF n < 3 THEN Superseded(artifact["sheet"]) ELSE artifact["sheet"]
      /\ kept["route"] = IF n < 4 THEN Superseded(artifact["route"]) ELSE artifact["route"]
  <2>1. Chain[2] = "region" /\ Chain[3] = "sheet" /\ Chain[4] = "route"
    BY DEF Chain
  <2>2. \A l : (\E i \in 2..4 : i > n /\ Chain[i] = l)
               <=> (n < 2 /\ l = "region") \/ (n < 3 /\ l = "sheet") \/ (n < 4 /\ l = "route")
    <3>1. 2..4 = {2, 3, 4}
      OBVIOUS
    <3>. QED
      BY <2>1, <3>1
  <2>. QED
    BY <1>2, <2>2, LayerNames
<1>. PICK over1 : over1 = overlapped'
  OBVIOUS
<1>9. ~over1 => ~overlapped
  BY <1>7 DEF Commit
<1>10. \A l \in Layers : /\ Row(artifact[l])
                          /\ SoundLayer(l, artifact[l], artifact[Below[l]], overlapped)
  BY SoundRows
<1>11. /\ DOMAIN field = Layers /\ \A m \in Layers : m # "field" => field[m] = kept[m]
       /\ \A more : LayerStep("field", artifact["field"], field["field"], more, over1)
       /\ field["field"].published # 0
  BY ZenonT(30), <1>3, <1>8, <1>9, StagedFields
<1>12. /\ DOMAIN region = Layers /\ \A m \in Layers : m # "region" => region[m] = field[m]
       /\ IF n < 2 THEN region["region"] = field["region"]
          ELSE \/ region["region"] = field["region"] /\ field["region"].published # 0
               \/ region["region"]
                    = Issued(field["region"], Release(field["field"].published, "corpus", g))
  BY <1>4, <1>11, LayerNames, StagedRows
<1>13. /\ DOMAIN sheet = Layers /\ \A m \in Layers : m # "sheet" => sheet[m] = region[m]
       /\ IF n < 3 THEN sheet["sheet"] = region["sheet"]
          ELSE \/ sheet["sheet"] = region["sheet"] /\ region["sheet"].published # 0
               \/ sheet["sheet"]
                    = Issued(region["sheet"], Release(region["region"].published, "corpus", g))
  BY <1>5, <1>12, LayerNames, StagedRows
<1>14. /\ DOMAIN cat = Layers /\ \A m \in Layers : m # "route" => cat[m] = sheet[m]
       /\ IF n < 4 THEN cat["route"] = sheet["route"]
          ELSE \/ cat["route"] = sheet["route"] /\ sheet["route"].published # 0
               \/ cat["route"]
                    = Issued(sheet["route"], Release(sheet["sheet"].published, "corpus", g))
  BY <1>6, <1>13, LayerNames, StagedRows
<1>15. /\ cat["field"] = field["field"] /\ cat["template"] = artifact["template"]
       /\ field["region"] = kept["region"] /\ region["sheet"] = kept["sheet"]
       /\ sheet["route"] = kept["route"] /\ cat["region"] = region["region"]
       /\ cat["sheet"] = sheet["sheet"]
  BY <1>8, <1>11, <1>12, <1>13, <1>14, LayerNames
<1>16. /\ \/ n < 2 /\ cat["region"] = Superseded(artifact["region"])
          \/ /\ n >= 2
             /\ \/ cat["region"] = artifact["region"] /\ artifact["region"].published # 0
                \/ cat["region"] = Issued(artifact["region"],
                                          Release(cat["field"].published, "corpus", g))
       /\ \/ n < 3 /\ cat["sheet"] = Superseded(artifact["sheet"])
          \/ /\ n >= 3
             /\ \/ cat["sheet"] = artifact["sheet"] /\ artifact["sheet"].published # 0
                \/ cat["sheet"] = Issued(artifact["sheet"],
                                         Release(cat["region"].published, "corpus", g))
       /\ \/ n < 4 /\ cat["route"] = Superseded(artifact["route"])
          \/ /\ n >= 4
             /\ \/ cat["route"] = artifact["route"] /\ artifact["route"].published # 0
                \/ cat["route"] = Issued(artifact["route"],
                                         Release(cat["sheet"].published, "corpus", g))
  BY <1>8, <1>12, <1>13, <1>14, <1>15
<1>17. \A l \in Layers : Len(cat[l].versions) \in Nat
  <2>1. Len(cat["field"].versions) \in Nat
    BY <1>11, <1>15, RowFields DEF LayerStep
  <2>2. ASSUME NEW l \in Layers,
               \/ cat[l] = Superseded(artifact[l]) \/ cat[l] = artifact[l]
               \/ \E on : cat[l] = Issued(artifact[l], Release(on, "corpus", g))
        PROVE  Len(cat[l].versions) \in Nat
    <3>. PICK a, b : a = artifact[l] /\ b = cat[l]
      OBVIOUS
    <3>1. Row(a) /\ SoundLayer(l, a, artifact[Below[l]], overlapped) /\ Len(a.versions) \in Nat
      BY <1>10, RowFields
    <3>2. CASE b = Superseded(a)
      <4>1. Len(b.versions) = Len(a.versions)
        BY <1>9, <3>1, <3>2, LayerSuperseded
      <4>. QED
        BY <3>1, <4>1
    <3>3. ASSUME NEW on, b = Issued(a, Release(on, "corpus", g)) PROVE Len(b.versions) \in Nat
      <4>1. PICK row : row = Release(on, "corpus", g)
        OBVIOUS
      <4>2. Len(b.versions) = Len(a.versions) + 1
        BY <3>1, <3>3, <4>1, IssuedRow
      <4>. QED
        BY <3>1, <4>2
    <3>. QED
      BY <2>2, <3>1, <3>2, <3>3
  <2>. QED
    BY <1>15, <1>16, <2>1, <2>2, LayerNames
<1>18. \A l \in Layers : Len(cat[l].versions) <= MaxVersions
  BY <1>7, <1>17, SmallRows DEF Commit, Bounded
<1>19. LayerStep("field", artifact["field"], cat["field"], cat[Below["field"]], over1)
       /\ cat["field"].published # 0
  BY <1>11, <1>15
<1>20. ASSUME NEW l \in {"region", "sheet", "route"}
       PROVE  \A b, more : b = Superseded(artifact[l]) => LayerStep(l, artifact[l], b, more, over1)
  <2>. PICK a : a = artifact[l]
    OBVIOUS
  <2>1. SoundLayer(l, a, artifact[Below[l]], overlapped)
    BY <1>10, LayerNames
  <2>. QED
    BY <1>9, <2>1, LayerSuperseded
<1>21. ASSUME NEW l \in {"region", "sheet", "route"}, NEW more, NEW low \in Layers \ {"template"},
              more = cat[low], LayerStep(low, artifact[low], more, cat[Below[low]], over1),
              more.published # 0,
              \/ cat[l] = artifact[l] /\ artifact[l].published # 0
              \/ cat[l] = Issued(artifact[l], Release(more.published, "corpus", g))
       PROVE  LayerStep(l, artifact[l], cat[l], more, over1) /\ cat[l].published # 0
  <2>1. PICK a, b : a = artifact[l] /\ b = cat[l]
    OBVIOUS
  <2>2. /\ Row(more) /\ PointerSound(more) /\ Len(more.versions) <= MaxVersions
        /\ more.published # 0 /\ Row(a) /\ SoundLayer(l, a, artifact[Below[l]], overlapped)
    BY <1>10, <1>18, <1>21, <2>1, LayerNames DEF LayerStep
  <2>3. CASE b = a /\ a.published # 0
    BY <1>9, <2>1, <2>2, <2>3, LayerStays
  <2>4. CASE b = Issued(a, Release(more.published, "corpus", g))
    <3>1. PICK row : row = Release(more.published, "corpus", g)
      OBVIOUS
    <3>2. row \in Version /\ row.status = "published" /\ row.on = more.published
      BY <2>2, <3>1, PublishedRow
    <3>3. LayerStep(l, a, b, more, over1) /\ b.published # 0
      BY <2>2, <2>4, <3>1, <3>2, LayerPublishes
    <3>. QED
      BY <2>1, <3>3
  <2>. QED
    BY <1>21, <2>1, <2>3, <2>4
<1>22. /\ LayerStep("region", artifact["region"], cat["region"], cat["field"], over1)
       /\ n >= 2 => cat["region"].published # 0
  BY <1>16, <1>19, <1>20, <1>21, LayerNames
<1>23. /\ LayerStep("sheet", artifact["sheet"], cat["sheet"], cat["region"], over1)
       /\ n >= 3 => cat["sheet"].published # 0
  BY <1>16, <1>20, <1>21, <1>22, LayerNames
<1>24. LayerStep("route", artifact["route"], cat["route"], cat["sheet"], over1)
  BY <1>16, <1>20, <1>21, <1>23, LayerNames
<1>25. LayerStep("template", artifact["template"], cat["template"], cat["field"], over1)
  BY <1>9, <1>10, <1>15, LayerNames, LayerStays
<1>26. \A l \in Layers : LayerStep(l, artifact[l], cat[l], cat[Below[l]], overlapped')
  BY <1>19, <1>22, <1>23, <1>24, <1>25, LayerNames
<1>. QED
  BY <1>7, <1>14, <1>26, CommitKeeps

LEMMA BackfillKeeps ==
  ASSUME CatalogInv, BackfillFourLayerFoundation
  PROVE  CatalogInv'
<1>. PICK t, g, row : /\ t = artifact["template"] /\ g = artifact["region"]
                      /\ row = Release(t.versions[t.published].on, "migration", 0)
  OBVIOUS
<1>1. PICK b : b = Issued(g, row)
  OBVIOUS
<1>2. PICK cat : cat = [artifact EXCEPT !["region"] = b]
  OBVIOUS
<1>3. Commit(cat) /\ StatusOf(t, t.published) = "published"
  BY <1>1, <1>2 DEF BackfillFourLayerFoundation
<1>4. DOMAIN artifact = Layers
  BY DEF CatalogInv, CatalogTypeOK
<1>5. DOMAIN cat = Layers /\ cat["region"] = b
      /\ \A l \in Layers : l # "region" => cat[l] = artifact[l]
  BY <1>2, <1>4, LayerNames
<1>. PICK over1 : over1 = overlapped'
  OBVIOUS
<1>6. ~over1 => ~overlapped
  BY <1>3 DEF Commit
<1>7. \A l \in Layers : /\ Row(artifact[l]) /\ Len(artifact[l].versions) <= MaxVersions
                        /\ SoundLayer(l, artifact[l], artifact[Below[l]], overlapped)
  BY SoundRows
<1>8. t.published \in PublishedOf(t)
  <2>1. Row(t)
    BY <1>7, LayerNames
  <2>. QED
    BY <1>3, <2>1, RowFields, PublishedIs
<1>9. Released(artifact["field"], t.versions[t.published].on)
  BY <1>7, <1>8, LayerNames DEF SoundLayer
<1>10. t.versions[t.published].on \in 0..MaxVersions
  <2>1. t.versions[t.published] \in Version
    BY <1>7, <1>8, LayerNames, RowFields, PublishedIs
  <2>. QED
    BY <2>1, VersionFields
<1>11. row \in Version /\ row.status = "published" /\ Released(artifact["field"], row.on)
  BY <1>9, <1>10, VersionFields
<1>12. LayerStep("region", g, b, artifact["field"], over1)
  BY <1>1, <1>7, <1>11, LayerNames, LayerIssued
<1>13. ASSUME NEW l \in Layers, l # "region"
       PROVE  LayerStep(l, artifact[l], artifact[l], cat[Below[l]], over1)
  BY <1>6, <1>7, LayerStays
<1>14. \A l \in Layers : LayerStep(l, artifact[l], cat[l], cat[Below[l]], overlapped')
  BY <1>5, <1>12, <1>13, LayerNames
<1>. QED
  BY <1>3, <1>5, <1>14, CommitKeeps

LEMMA SeedKeeps ==
  ASSUME CatalogInv, SeedCompositionRoute
  PROVE  CatalogInv'
<1>. PICK s, w : s = artifact["sheet"] /\ w = artifact["route"]
  OBVIOUS
<1>1. PICK on \in PublishedOf(artifact["region"]) :
        /\ s.versions # <<>> => s.versions[1].source = "bootstrap" /\ s.versions[1].on = on
        /\ Commit([artifact EXCEPT
             !["sheet"] = IF s.versions # <<>> THEN @ ELSE Issued(@, Release(on, "bootstrap", 0)),
             !["route"] = Issued(@, Release(1, "bootstrap", 0))])
  BY DEF SeedCompositionRoute, On
<1>2. PICK row, low : row = Release(on, "bootstrap", 0) /\ low = Release(1, "bootstrap", 0)
  OBVIOUS
<1>3. PICK sheet : sheet = IF s.versions # <<>> THEN s ELSE Issued(s, row)
  OBVIOUS
<1>4. PICK route : route = Issued(w, low)
  OBVIOUS
<1>5. PICK cat : cat = [artifact EXCEPT !["sheet"] = sheet, !["route"] = route]
  OBVIOUS
<1>6. DOMAIN artifact = Layers
  BY DEF CatalogInv, CatalogTypeOK
<1>7. Commit(cat)
  <2>1. cat = [artifact EXCEPT
             !["sheet"] = IF s.versions # <<>> THEN @ ELSE Issued(@, Release(on, "bootstrap", 0)),
             !["route"] = Issued(@, Release(1, "bootstrap", 0))]
    BY <1>2, <1>3, <1>4, <1>5, <1>6, LayerNames
  <2>. QED
    BY <1>1, <2>1
<1>8. DOMAIN cat = Layers /\ cat["sheet"] = sheet /\ cat["route"] = route
      /\ \A l \in Layers : l \notin {"sheet", "route"} => cat[l] = artifact[l]
  BY <1>5, <1>6, LayerNames
<1>. PICK over1 : over1 = overlapped'
  OBVIOUS
<1>9. ~over1 => ~overlapped
  BY <1>7 DEF Commit
<1>10. \A l \in Layers : /\ Row(artifact[l]) /\ Len(artifact[l].versions) <= MaxVersions
                         /\ SoundLayer(l, artifact[l], artifact[Below[l]], overlapped)
  BY SoundRows
<1>11. on \in 0..MaxVersions /\ Released(artifact["region"], on)
  <2>1. /\ Row(artifact["region"]) /\ Len(artifact["region"].versions) <= MaxVersions
    BY <1>10, LayerNames
  <2>2. on \in DOMAIN artifact["region"].versions
        /\ artifact["region"].versions[on].status = "published"
    BY <2>1, PublishedIs
  <2>. QED
    BY <2>1, <2>2, RowFields, PublishedIs, CatalogBounds
<1>12. row \in Version /\ row.status = "published" /\ row.on = on
  BY <1>2, <1>11, VersionFields, CatalogBounds
<1>13. Row(s) /\ Row(w)
  BY <1>10, LayerNames
<1>14. s.versions # <<>> => 1 \in DOMAIN s.versions
  <2>1. s.versions \in Seq(Version)
    BY <1>13, RowFields
  <2>. QED
    BY <2>1
<1>15. LayerStep("sheet", s, sheet, artifact["region"], over1)
  <2>1. CASE s.versions # <<>>
    BY <1>3, <1>9, <1>10, <2>1, LayerNames, LayerStays
  <2>2. CASE s.versions = <<>>
    BY <1>3, <1>10, <1>11, <1>12, <1>13, <2>2, LayerNames, LayerIssued
  <2>. QED
    BY <2>1, <2>2
<1>16. Row(sheet) /\ Released(sheet, 1)
  <2>1. Row(sheet)
    BY <1>15 DEF LayerStep
  <2>2. CASE s.versions # <<>>
    BY <1>1, <1>3, <1>10, <1>14, <2>1, <2>2, LayerNames DEF SoundLayer, FourLayers
  <2>3. CASE s.versions = <<>>
    <3>1. sheet.versions[1] = row /\ DOMAIN sheet.versions = 1..1
      <4>1. Len(s.versions) = 0 /\ sheet = Issued(s, row)
        BY <1>3, <2>3
      <4>. QED
        BY <1>13, <4>1, IssuedRow
    <3>. QED
      BY <1>12, <2>1, <3>1, PublishedIs
  <2>. QED
    BY <2>1, <2>2, <2>3
<1>17. \A l \in Layers : Len(cat[l].versions) \in Nat
  <2>1. Len(route.versions) = Len(w.versions) + 1
    BY <1>4, <1>13, IssuedRow
  <2>2. Len(w.versions) \in Nat
    BY <1>13, RowFields
  <2>. QED
    BY <1>8, <1>10, <1>16, <2>1, <2>2, RowFields
<1>18. 1 \in 0..MaxVersions
  <2>1. Len(sheet.versions) <= MaxVersions
    BY <1>7, <1>8, <1>17, LayerNames, SmallRows DEF Commit, Bounded
  <2>2. 1 \in DOMAIN sheet.versions
    BY <1>16, PublishedIs
  <2>. QED
    BY <1>16, <2>1, <2>2, RowFields, CatalogBounds
<1>19. low \in Version /\ low.status = "published" /\ low.on = 1
  BY <1>2, <1>18, VersionFields, CatalogBounds
<1>20. LayerStep("route", w, route, sheet, over1)
  BY <1>4, <1>13, <1>16, <1>19, LayerIssued
<1>21. ASSUME NEW l \in Layers, l \notin {"sheet", "route"}
       PROVE  LayerStep(l, artifact[l], artifact[l], cat[Below[l]], over1)
  BY <1>9, <1>10, LayerStays
<1>22. \A l \in Layers : LayerStep(l, artifact[l], cat[l], cat[Below[l]], overlapped')
  BY <1>8, <1>15, <1>20, <1>21, LayerNames
<1>. QED
  BY <1>7, <1>8, <1>22, CommitKeeps

LEMMA UpgradeKeeps ==
  ASSUME CatalogInv, UpgradePublishedFingerprints
  PROVE  CatalogInv'
<1>. PICK t, on, row, n : /\ t = artifact["template"] /\ on = t.versions[t.published].on
                          /\ row = Release(on, "manual", 0) /\ n = Len(t.versions) + 1
  OBVIOUS
<1>1. PICK p \in Previous(t) :
        /\ t.published # 0 /\ artifact["field"].published = on
        /\ Commit([artifact EXCEPT !["template"] =
             Written([t EXCEPT !.versions = Append(@, Release(t.versions[t.published].on,
                                                              "manual", 0))],
                     [version |-> Len(t.versions) + 1, to |-> "published",
                      prev |-> p, pointer |-> Len(t.versions) + 1])])
  BY DEF UpgradePublishedFingerprints
<1>2. PICK c, r : /\ c = [t EXCEPT !.versions = Append(@, row)]
                  /\ r = [version |-> n, to |-> "published", prev |-> p, pointer |-> n]
  OBVIOUS
<1>3. PICK b : b = Written(c, r)
  OBVIOUS
<1>4. PICK cat : cat = [artifact EXCEPT !["template"] = b]
  OBVIOUS
<1>5. Commit(cat)
  BY <1>1, <1>2, <1>3, <1>4
<1>6. DOMAIN artifact = Layers
  BY DEF CatalogInv, CatalogTypeOK
<1>7. DOMAIN cat = Layers /\ cat["template"] = b
      /\ \A l \in Layers : l # "template" => cat[l] = artifact[l]
  BY <1>4, <1>6, LayerNames
<1>. PICK over1 : over1 = overlapped'
  OBVIOUS
<1>8. ~over1 => ~overlapped
  BY <1>5 DEF Commit
<1>9. \A l \in Layers : /\ Row(artifact[l]) /\ Len(artifact[l].versions) <= MaxVersions
                        /\ SoundLayer(l, artifact[l], artifact[Below[l]], overlapped)
  BY SoundRows
<1>10. /\ Row(t) /\ SoundLayer("template", t, artifact["field"], overlapped)
       /\ "template" \in DOMAIN Below /\ Below["template"] = "field"
  BY <1>9, LayerNames
<1>11. t.published \in DOMAIN t.versions
  BY <1>1, <1>10, RowFields
<1>12. on \in 0..MaxVersions /\ on \in DOMAIN artifact["field"].versions
  <2>1. t.versions[t.published] \in Version
    BY <1>10, <1>11, RowFields
  <2>. QED
    BY <1>10, <1>11, <2>1, VersionFields DEF SoundLayer
<1>13. Released(artifact["field"], on) /\ Row(artifact["field"])
  <2>1. Row(artifact["field"]) /\ PointerSound(artifact["field"])
    BY <1>9, LayerNames DEF SoundLayer
  <2>2. on # 0
    BY <1>12, <2>1, PublishedIs
  <2>. QED
    BY <1>1, <2>1, <2>2 DEF PointerSound, Released
<1>14. row \in Version /\ row.status = "published" /\ row.on = on /\ row.source = "manual"
  BY <1>12, VersionFields, CatalogBounds
<1>15. r.version = n /\ r.to = "published" /\ r.prev = p /\ r.pointer = n
  BY <1>2
<1>16. Extends(t, c, row)
  BY <1>2, <1>10, <1>14, AppendedRow
<1>17. LayerStep("template", t, b, artifact["field"], over1)
  <2>. HIDE <1>1
  <2>. QED
    BY SMTT(30), <1>3, <1>8, <1>10, <1>13, <1>14, <1>15, <1>16, LayerRenewed
<1>18. ASSUME NEW l \in Layers, l # "template"
       PROVE  LayerStep(l, artifact[l], artifact[l], cat[Below[l]], over1)
  BY <1>8, <1>9, LayerStays
<1>19. \A l \in Layers : LayerStep(l, artifact[l], cat[l], cat[Below[l]], overlapped')
  BY <1>7, <1>10, <1>17, <1>18, LayerNames
<1>. QED
  BY <1>5, <1>7, <1>19, CommitKeeps

-----------------------------------------------------------------------------
LEMMA CatalogStarts ==
  ASSUME CatalogInit
  PROVE  CatalogInv
<1>1. \A l \in Layers : artifact[l] = NoArtifact
  BY DEF CatalogInit
<1>2. NoArtifact.published = 0 /\ NoArtifact.versions = <<>> /\ Len(NoArtifact.versions) = 0
      /\ DOMAIN NoArtifact.versions = {} /\ PublishedOf(NoArtifact) = {}
  BY DEF NoArtifact, PublishedOf
<1>3. NoArtifact \in Artifact
  <2>. DEFINE Ons == 0..MaxVersions
  <2>1. 0 \in Ons
    BY CatalogBounds
  <2>2. <<>> \in Seq(Version)
    OBVIOUS
  <2>. HIDE DEF Ons
  <2>3. [published |-> 0, versions |-> <<>>] \in [published: Ons, versions: Seq(Version)]
    BY <2>1, <2>2
  <2>. QED
    BY <2>3 DEF NoArtifact, Artifact, Ons
<1>4. CatalogTypeOK
  BY <1>1, <1>3 DEF CatalogInit, CatalogTypeOK
<1>5. Total(artifact) = 0
  <2>1. \A l \in Layers : Len(artifact[l].versions) = 0
    BY <1>1, <1>2
  <2>2. /\ Len(artifact["field"].versions) = 0 /\ Len(artifact["region"].versions) = 0
        /\ Len(artifact["sheet"].versions) = 0 /\ Len(artifact["route"].versions) = 0
        /\ Len(artifact["template"].versions) = 0
    BY <2>1, LayerNames
  <2>. QED
    BY <2>2 DEF Total
<1>6. \A l \in Layers : /\ artifact[l].published = 0 /\ Len(artifact[l].versions) = 0
                        /\ DOMAIN artifact[l].versions = {} /\ PublishedOf(artifact[l]) = {}
  BY <1>1, <1>2
<1>7. RowsExist
  BY <1>5, <1>6, LayerNames, CatalogBounds DEF RowsExist
<1>8. SeededIsReleased
  BY <1>6, LayerNames DEF SeededIsReleased
<1>9. SlowFits
  BY DEF CatalogInit, SlowFits
<1>10. PointersArePublished /\ NeverOnDraft
  BY <1>6, LayerNames
     DEF PointersArePublished, PointerIsPublished, PublishedIsPointed, NeverOnDraft
<1>. QED
  BY <1>4, <1>7, <1>8, <1>9, <1>10 DEF CatalogInv

LEMMA CatalogSteps ==
  ASSUME CatalogInv, [CatalogNext]_catalogVars
  PROVE  CatalogInv'
<1>1. CASE CreateField \/ CreateFieldVersion
           \/ CreateRegionTemplate \/ CreateRegionTemplateVersion
           \/ CreateSheetComposition \/ CreateSheetCompositionVersion
           \/ CreateWorkbookRoute \/ CreateWorkbookRouteVersion
           \/ CreateTemplate \/ CreateTemplateVersion
  BY <1>1, CreateKeeps
<1>2. CASE PublishFieldVersion
  BY <1>2, FieldPublicationFits, RequestHandled DEF PublishFieldVersion
<1>3. CASE PublishRegionTemplateVersion
  BY <1>3, RegionPublicationFits, RequestHandled DEF PublishRegionTemplateVersion
<1>4. CASE PublishSheetCompositionVersion
  BY <1>4, SheetPublicationFits, RequestHandled DEF PublishSheetCompositionVersion
<1>5. CASE PublishWorkbookRouteVersion
  BY <1>5, RoutePublicationFits, RequestHandled DEF PublishWorkbookRouteVersion
<1>6. CASE RunTemplateCommand
  BY <1>6, TransitionFits, RequestHandled DEF RunTemplateCommand
<1>7. CASE SlowCommit
  BY <1>7, SlowWrites
<1>8. CASE CommitGovernance
  BY <1>8, GovernanceCommits
<1>9. CASE PublishDirectory
  BY <1>9, PackageKeeps
<1>10. CASE BackfillFourLayerFoundation
  BY <1>10, BackfillKeeps
<1>11. CASE SeedCompositionRoute
  BY <1>11, SeedKeeps
<1>12. CASE UpgradePublishedFingerprints
  BY <1>12, UpgradeKeeps
<1>13. CASE UNCHANGED catalogVars
  <2>1. artifact' = artifact /\ slow' = slow /\ overlapped' = overlapped
    BY <1>13 DEF catalogVars
  <2>. QED
    BY <2>1 DEF CatalogInv, CatalogTypeOK, RowsExist, SeededIsReleased, SlowFits,
       PointersArePublished, NeverOnDraft, PointerIsPublished, PublishedIsPointed, On
<1>. QED
  BY <1>1, <1>2, <1>3, <1>4, <1>5, <1>6, <1>7, <1>8, <1>9, <1>10, <1>11, <1>12, <1>13
     DEF CatalogNext

(* The inductive invariant of the catalogue.                                  *)
LEMMA CatalogStaysSound == CatalogSpec => []CatalogInv
<1>1. CatalogInit => CatalogInv
  BY CatalogStarts
<1>2. CatalogInv /\ [CatalogNext]_catalogVars => CatalogInv'
  BY CatalogSteps
<1>. QED
  BY <1>1, <1>2, PTL DEF CatalogSpec

(* Rows, versions and waiting requests keep their types.                      *)
THEOREM CatalogTypeCorrect == CatalogSpec => []CatalogTypeOK
<1>1. CatalogInv => CatalogTypeOK
  BY DEF CatalogInv
<1>. QED
  BY <1>1, CatalogStaysSound, PTL

(* Whatever governors, operators and accepted proposals do, and in whatever    *)
(* order their transactions commit, the pointer of a layer names a published   *)
(* version; a legacy template, and the uniqueness of the published version,    *)
(* hold as long as no transaction has overtaken a request (lifecycle.py,       *)
(* four_layer_publish.py, governance.py, maintenance.py).                      *)
THEOREM PointersStayPublished == CatalogSpec => []PointersArePublished
<1>1. CatalogInv => PointersArePublished
  BY DEF CatalogInv
<1>. QED
  BY <1>1, CatalogStaysSound, PTL

(* What a published version binds has been published before it, even when     *)
(* requests overtake each other.                                              *)
THEOREM BindingsStayReleased == CatalogSpec => []NeverOnDraft
<1>1. CatalogInv => NeverOnDraft
  BY DEF CatalogInv
<1>. QED
  BY <1>1, CatalogStaysSound, PTL

-----------------------------------------------------------------------------
(* The decision on a proposal *)

Templates == Proposals \cup {"base"}

FieldRow == {row \in [published: Nat, versions: Seq(VersionOfField)] :
               row.published <= Len(row.versions)}

(* What a request may have read.                                              *)
View == [fields: [Kinds -> FieldRow], drafts: [Templates -> Seq(DraftRow)],
         regions: Nat, cases: [Proposals -> CaseRow]]

Confirmed(rows, p) == {v \in DOMAIN rows : rows[v] = [status |-> "user_confirmed", of |-> p]}
Reviewed(rows, p) == {v \in DOMAIN rows : rows[v].status = "admin_review" /\ rows[v].of = p}

(* A proposal and its drafts: until it is resolved it has no confirmed version, *)
(* then it has one and nothing under review.                                  *)
CaseFits(p) ==
  LET case == cases[p]  rows == drafts[TemplateOf(p)] IN
  /\ case.resolution = {} =>
       /\ Confirmed(rows, p) = {} /\ case.status # "accepted"
       /\ case.status # "none" => case.plan = "hermes_provisional"
  /\ case.resolution # {} =>
       /\ \E v : Confirmed(rows, p) = {v}
       /\ Reviewed(rows, p) = {} /\ case.plan = "hermes" /\ case.status # "pending"
       /\ case.status = "rejected" => p \in raced

(* The versions of a field that were read are still there.                    *)
StillThere(old, row) ==
  /\ Len(old.versions) <= Len(row.versions)
  /\ \A n \in 1..Len(old.versions) : old.versions[n].variants = row.versions[n].variants

(* A request that read this published number when it was the newest and        *)
(* nobody had a draft: it still is, unless there are newer versions.           *)
Undisturbed(number) ==
  LET row == fields["known"] IN
  /\ number <= Len(row.versions)
  /\ number = Len(row.versions) => AtNewest(row) /\ publishing = 0

OpenCase(case) == case \in CaseRow /\ case.status = "pending" /\ case.resolution = {}

(* What a slow acceptance has read at each of its steps.                      *)
ReadFits(w) ==
  /\ w.step \in {"versions", "drafts", "write"}
  /\ w.step = "versions" =>
       /\ OpenCase(w.row) /\ w.published \in Nat
       /\ w.published <= Len(fields["known"].versions)
       /\ w.whole => Undisturbed(w.published)
  /\ w.step = "drafts" =>
       /\ OpenCase(w.row) /\ w.seen \in [Kinds -> FieldRow]
       /\ \A f \in Kinds : StillThere(w.seen[f], fields[f])
       /\ w.seen["coined"].published = Len(w.seen["coined"].versions)
       /\ w.whole => Undisturbed(w.seen["known"].published)
  /\ w.step = "write" =>
       /\ w.view \in View /\ OpenCase(w.view.cases[w.p])
       /\ \A f \in Kinds : StillThere(w.view.fields[f], fields[f])
       /\ w.view.fields["coined"].published = Len(w.view.fields["coined"].versions)
       /\ \A t \in Templates :
            /\ Len(w.view.drafts[t]) <= Len(drafts[t])
            /\ Len(w.view.drafts[t]) = Len(drafts[t]) => w.view.drafts[t] = drafts[t]
       /\ w.whole => Undisturbed(w.view.fields["known"].published)

(* A slow request saw a proposal nobody had decided; unless it was raced,      *)
(* nobody has.                                                                *)
PendingFits ==
  pending # NoRequestYet =>
    /\ pending.kind \in {"accept", "reject"} /\ pending.p \in Proposals
    /\ cases[pending.p].status # "none"
    /\ pending.p \notin raced => cases[pending.p].status = "pending"
    /\ pending.kind = "accept" => ReadFits(pending)

Resolved == {p \in Proposals : cases[p].resolution # {}}

GovernanceInv ==
  /\ GovernanceTypeOK /\ fields \in [Kinds -> FieldRow]
  /\ fields["coined"].published = Len(fields["coined"].versions)
  /\ regions = Cardinality(Resolved)
  /\ \A p \in Proposals : CaseFits(p)
  /\ PendingFits

LEMMA GovernanceBounds ==
  /\ Anchored \subseteq Proposals /\ IsFiniteSet(Proposals) /\ MaxFieldVersions \in Nat
  /\ MaxFieldVersions > 0 /\ "base" \notin Proposals
  /\ \A names \in DraftVariants : names \subseteq Variants
BY GovernanceAssumption

(* The rows of a field.                                                       *)
LEMMA FieldFacts ==
  ASSUME NEW row \in FieldRow
  PROVE  /\ row.published \in Nat /\ row.versions \in Seq(VersionOfField)
         /\ Len(row.versions) \in Nat /\ row.published <= Len(row.versions)
         /\ DOMAIN row.versions = 1..Len(row.versions)
         /\ \A n \in 1..Len(row.versions) : /\ row.versions[n] \in VersionOfField
                                            /\ row.versions[n].variants \subseteq Variants
         /\ Known(row) \subseteq Variants
<1>1. /\ row.published \in Nat /\ row.versions \in Seq(VersionOfField)
      /\ row.published <= Len(row.versions)
  BY DEF FieldRow
<1>2. /\ Len(row.versions) \in Nat /\ DOMAIN row.versions = 1..Len(row.versions)
      /\ \A n \in 1..Len(row.versions) : row.versions[n] \in VersionOfField
  BY <1>1
<1>3. \A n \in 1..Len(row.versions) : row.versions[n].variants \subseteq Variants
  BY <1>2 DEF VersionOfField
<1>4. row.published = 0 \/ row.published \in 1..Len(row.versions)
  BY <1>1, <1>2
<1>. QED
  BY <1>1, <1>2, <1>3, <1>4 DEF Known

LEMMA FieldMade ==
  ASSUME NEW versions \in Seq(VersionOfField), NEW published \in Nat,
         published <= Len(versions), NEW row,
         row = [published |-> published, versions |-> versions]
  PROVE  row \in FieldRow /\ row.published = published /\ row.versions = versions
BY DEF FieldRow

LEMMA VersionMade ==
  ASSUME NEW draft \in BOOLEAN, NEW names \in SUBSET Variants, NEW b,
         b = [draft |-> draft, variants |-> names]
  PROVE  b \in VersionOfField /\ b.draft = draft /\ b.variants = names
BY DEF VersionOfField

LEMMA NothingThere == NoField \in FieldRow /\ Known(NoField) = {} /\ NoField.published = 0
                      /\ Len(NoField.versions) = 0
<1>1. NoField = [published |-> 0, versions |-> <<>>] /\ <<>> \in Seq(VersionOfField)
      /\ Len(<<>>) = 0
  BY DEF NoField
<1>2. NoField \in FieldRow /\ NoField.published = 0 /\ NoField.versions = <<>>
  BY <1>1 DEF FieldRow
<1>. QED
  BY <1>1, <1>2 DEF Known

(* A version is added to a field and published.                               *)
LEMMA VersionAdded ==
  ASSUME NEW row \in FieldRow, NEW names \in SUBSET Variants, NEW b,
         b = WithVersion(row, names)
  PROVE  /\ b \in FieldRow /\ b.published = Len(row.versions) + 1
         /\ Len(b.versions) = Len(row.versions) + 1 /\ Known(b) = names
         /\ \A n \in 1..Len(row.versions) : b.versions[n] = row.versions[n]
<1>. PICK a, n : a = row.versions /\ n = Len(row.versions)
  OBVIOUS
<1>1. a \in Seq(VersionOfField) /\ n \in Nat /\ n = Len(a) /\ \A k \in 1..n : k # n + 1
  BY FieldFacts
<1>. PICK version : version = InForce(names)
  OBVIOUS
<1>2. version \in VersionOfField /\ version.variants = names
  BY VersionMade DEF InForce
<1>. PICK c : c = Append(a, version)
  OBVIOUS
<1>3. /\ c \in Seq(VersionOfField) /\ Len(c) = n + 1 /\ c[n + 1] = version
      /\ \A k \in 1..n : c[k] = a[k]
  BY <1>1, <1>2
<1>4. b = [published |-> n + 1, versions |-> c]
  BY DEF WithVersion
<1>5. b \in FieldRow /\ b.published = n + 1 /\ b.versions = c
  <2>1. n + 1 \in Nat /\ n + 1 <= Len(c)
    BY <1>1, <1>3
  <2>. QED
    BY <1>3, <1>4, <2>1 DEF FieldRow
<1>6. Known(b) = names
  BY <1>1, <1>2, <1>3, <1>5 DEF Known
<1>. QED
  BY <1>3, <1>5, <1>6

(* A field after decisions on it: it is as it was, or its newest version is    *)
(* the published one, with all it was known by.                               *)
Learns(a, b) ==
  /\ Known(a) \subseteq Known(b)
  /\ Len(a.versions) <= Len(b.versions)
  /\ \A n \in 1..Len(a.versions) : b.versions[n] = a.versions[n]
  /\ Len(a.versions) = Len(b.versions) => b = a
  /\ Len(a.versions) < Len(b.versions) => b.published = Len(b.versions)

Teaches(before, after) ==
  after \in [Kinds -> FieldRow] /\ \A f \in Kinds : Learns(before[f], after[f])

LEMMA LearnsOn ==
  ASSUME NEW a \in FieldRow, NEW b \in FieldRow, NEW c \in FieldRow, Learns(a, b), Learns(b, c)
  PROVE  Learns(a, c)
<1>1. Len(a.versions) \in Nat /\ Len(b.versions) \in Nat /\ Len(c.versions) \in Nat
  BY FieldFacts
<1>2. Len(a.versions) <= Len(c.versions) /\ Known(a) \subseteq Known(c)
  BY <1>1 DEF Learns
<1>3. \A n \in 1..Len(a.versions) : c.versions[n] = a.versions[n]
  <2>. SUFFICES ASSUME NEW n \in 1..Len(a.versions) PROVE c.versions[n] = a.versions[n]
    OBVIOUS
  <2>1. n \in 1..Len(b.versions)
    BY <1>1 DEF Learns
  <2>. QED
    BY <2>1 DEF Learns
<1>4. CASE Len(b.versions) = Len(c.versions)
  <2>1. c = b
    BY <1>4 DEF Learns
  <2>. QED
    BY <2>1
<1>5. CASE Len(b.versions) < Len(c.versions)
  <2>1. Len(a.versions) < Len(c.versions) /\ c.published = Len(c.versions)
    BY <1>1, <1>5 DEF Learns
  <2>. QED
    BY <1>1, <1>2, <1>3, <2>1 DEF Learns
<1>6. Len(b.versions) <= Len(c.versions)
  BY DEF Learns
<1>. QED
  BY <1>1, <1>4, <1>5, <1>6

LEMMA LearnsNothing ==
  ASSUME NEW a \in FieldRow PROVE Learns(a, a)
BY FieldFacts DEF Learns

LEMMA LearnsVersion ==
  ASSUME NEW a \in FieldRow, NEW names \in SUBSET Variants, Known(a) \subseteq names,
         NEW b, b = WithVersion(a, names)
  PROVE  b \in FieldRow /\ Learns(a, b) /\ Known(b) = names
<1>1. /\ b \in FieldRow /\ b.published = Len(a.versions) + 1
      /\ Len(b.versions) = Len(a.versions) + 1 /\ Known(b) = names
      /\ \A n \in 1..Len(a.versions) : b.versions[n] = a.versions[n]
  BY VersionAdded
<1>2. Len(a.versions) \in Nat
  BY FieldFacts
<1>. QED
  BY <1>1, <1>2 DEF Learns

LEMMA DecisionFields ==
  ASSUME NEW d \in Decisions
  PROVE  /\ d.mode \in {"reuse_existing", "create_new", "ignore"} /\ d.field \in Kinds
         /\ d.learn \subseteq Variants
         /\ d.mode = "reuse_existing" => d.field = "known"
         /\ d.mode = "create_new" => d.learn = {}
BY DEF Decisions, Kinds

LEMMA LearnedFields ==
  ASSUME NEW row \in FieldRow, NEW learn \in SUBSET Variants, NEW b, b = Learned(row, learn)
  PROVE  b \in FieldRow /\ Learns(row, b) /\ learn \subseteq Known(b)
<1>1. CASE learn \subseteq Known(row)
  <2>1. b = row
    BY <1>1 DEF Learned
  <2>. QED
    BY <1>1, <2>1, LearnsNothing
<1>2. CASE ~(learn \subseteq Known(row))
  <2>1. b = WithVersion(row, Known(row) \cup learn)
    BY <1>2 DEF Learned
  <2>2. PICK names : names = Known(row) \cup learn
    OBVIOUS
  <2>3. names \in SUBSET Variants /\ Known(row) \subseteq names /\ b = WithVersion(row, names)
    BY <2>1, <2>2, FieldFacts
  <2>. QED
    BY <2>2, <2>3, LearnsVersion
<1>. QED
  BY <1>1, <1>2

(* A decision that fails leaves the session failed.                           *)
LEMMA DecideShape ==
  ASSUME NEW s, DOMAIN s = {"ok", "fields", "seen"}, NEW d, NEW r, r = Decide(s, d)
  PROVE  DOMAIN r = {"ok", "fields", "seen"} /\ (r.ok => s.ok)
<1>1. CASE r = s
  BY <1>1
<1>2. CASE r = [s EXCEPT !.ok = FALSE]
  BY <1>2
<1>3. ASSUME NEW x, NEW y, r = [s EXCEPT !.fields = x, !.seen = y]
      PROVE  DOMAIN r = {"ok", "fields", "seen"} /\ (r.ok => s.ok)
  BY <1>3
<1>4. ASSUME NEW x, r = [s EXCEPT !.fields = x]
      PROVE  DOMAIN r = {"ok", "fields", "seen"} /\ (r.ok => s.ok)
  BY <1>4
<1>5. \/ r = s \/ r = [s EXCEPT !.ok = FALSE]
      \/ r = [s EXCEPT !.fields = [s.fields EXCEPT ![d.field] = CreatedField(d.learn)]]
      \/ r = [s EXCEPT !.fields = [s.fields EXCEPT ![d.field] =
                                     Learned(s.fields[d.field], d.learn)],
                       !.seen = [s.seen EXCEPT ![d.field] = d.expected]]
  BY DEF Decide
<1>. QED
  BY <1>1, <1>2, <1>3, <1>4, <1>5

LEMMA DecideTeaches ==
  ASSUME NEW s, DOMAIN s = {"ok", "fields", "seen"}, s.fields \in [Kinds -> FieldRow],
         NEW d \in Decisions, NEW r, r = Decide(s, d), r.ok
  PROVE  /\ s.ok /\ DOMAIN r = {"ok", "fields", "seen"} /\ Teaches(s.fields, r.fields)
         /\ d.mode = "reuse_existing" => d.learn \subseteq Known(r.fields["known"])
<1>1. /\ d.mode \in {"reuse_existing", "create_new", "ignore"} /\ d.field \in Kinds
      /\ d.learn \subseteq Variants
      /\ d.mode = "reuse_existing" => d.field = "known"
      /\ d.mode = "create_new" => d.learn = {}
  BY DecisionFields
<1>2. \A f \in Kinds : s.fields[f] \in FieldRow /\ Learns(s.fields[f], s.fields[f])
  BY LearnsNothing
<1>3. CASE d.mode = "ignore"
  <2>1. r = s
    BY <1>3 DEF Decide
  <2>. QED
    BY <1>2, <1>3, <2>1 DEF Teaches
<1>4. ASSUME NEW row \in FieldRow, Learns(s.fields[d.field], row), NEW rows,
             rows = [s.fields EXCEPT ![d.field] = row]
      PROVE  Teaches(s.fields, rows) /\ rows[d.field] = row
  BY <1>1, <1>2, <1>4 DEF Teaches
<1>5. CASE d.mode = "create_new"
  <2>1. s.fields[d.field] = NoField
    BY <1>5 DEF Decide
  <2>2. PICK row : row = CreatedField(d.learn)
    OBVIOUS
  <2>3. PICK rows : rows = [s.fields EXCEPT ![d.field] = row]
    OBVIOUS
  <2>4. r = [s EXCEPT !.fields = rows]
    BY <1>5, <2>1, <2>2, <2>3 DEF Decide
  <2>5. r.fields = rows /\ DOMAIN r = {"ok", "fields", "seen"} /\ r.ok = s.ok
    BY <2>4
  <2>6. row \in FieldRow /\ Learns(NoField, row)
    BY <1>1, <1>5, <2>2, NothingThere, LearnsVersion DEF CreatedField
  <2>. QED
    BY <1>4, <1>5, <2>1, <2>3, <2>5, <2>6
<1>6. CASE d.mode = "reuse_existing"
  <2>1. PICK row : row = Learned(s.fields[d.field], d.learn)
    OBVIOUS
  <2>2. PICK rows : rows = [s.fields EXCEPT ![d.field] = row]
    OBVIOUS
  <2>3. r = [s EXCEPT !.fields = rows, !.seen[d.field] = d.expected]
    BY <1>6, <2>1, <2>2 DEF Decide
  <2>4. r.fields = rows /\ DOMAIN r = {"ok", "fields", "seen"} /\ r.ok = s.ok
    BY <2>3
  <2>5. row \in FieldRow /\ Learns(s.fields[d.field], row) /\ d.learn \subseteq Known(row)
    BY <1>1, <1>2, <2>1, LearnedFields
  <2>. QED
    BY <1>1, <1>4, <1>6, <2>2, <2>4, <2>5
<1>. QED
  BY <1>1, <1>3, <1>5, <1>6

(* What a submission makes of the fields it read, and what it taught.          *)
LEMMA SubmissionTeaches ==
  ASSUME NEW view \in View, NEW submission \in Decisions \X Decisions,
         NEW r, r = CommitFieldGovernance(view, submission), r.ok
  PROVE  /\ Teaches(view.fields, r.fields)
         /\ Taught(view, submission) \subseteq Known(r.fields["known"])
         /\ r.fields["known"] = view.fields["known"] => Taught(view, submission) = {}
<1>1. view.fields \in [Kinds -> FieldRow]
  BY DEF View
<1>2. PICK s : s = [ok |-> TRUE, fields |-> view.fields, seen |-> [f \in Kinds |-> -1]]
  OBVIOUS
<1>3. PICK a, b : a = submission[1] /\ b = submission[2]
  OBVIOUS
<1>4. PICK m : m = Decide(s, a)
  OBVIOUS
<1>5. r = Decide(m, b)
  BY <1>2, <1>3, <1>4 DEF CommitFieldGovernance
<1>6. DOMAIN s = {"ok", "fields", "seen"} /\ s.fields = view.fields
  BY <1>2
<1>7. a \in Decisions /\ b \in Decisions
  BY <1>3
<1>8. DOMAIN m = {"ok", "fields", "seen"} /\ m.ok
  BY <1>4, <1>5, <1>6, DecideShape
<1>9. /\ Teaches(view.fields, m.fields)
      /\ a.mode = "reuse_existing" => a.learn \subseteq Known(m.fields["known"])
  BY <1>1, <1>4, <1>6, <1>7, <1>8, DecideTeaches
<1>10. m.fields \in [Kinds -> FieldRow]
  BY <1>9 DEF Teaches
<1>11. /\ Teaches(m.fields, r.fields)
       /\ b.mode = "reuse_existing" => b.learn \subseteq Known(r.fields["known"])
  BY <1>5, <1>7, <1>8, <1>10, DecideTeaches
<1>12. "known" \in Kinds
  BY DEF Kinds
<1>13. Teaches(view.fields, r.fields)
  <2>. SUFFICES ASSUME NEW f \in Kinds PROVE Learns(view.fields[f], r.fields[f])
    BY <1>11 DEF Teaches
  <2>1. /\ view.fields[f] \in FieldRow /\ m.fields[f] \in FieldRow /\ r.fields[f] \in FieldRow
    BY <1>1, <1>10, <1>11 DEF Teaches
  <2>2. Learns(view.fields[f], m.fields[f]) /\ Learns(m.fields[f], r.fields[f])
    BY <1>9, <1>11 DEF Teaches
  <2>. QED
    BY <2>1, <2>2, LearnsOn
<1>14. UNION {d.learn : d \in {x \in Range(submission) :
                                x.mode = "reuse_existing" /\ x.field = "known"}}
         \subseteq Known(r.fields["known"])
  <2>1. Range(submission) = {a, b}
    BY <1>3 DEF Range
  <2>2. Known(m.fields["known"]) \subseteq Known(r.fields["known"])
    BY <1>11, <1>12 DEF Teaches, Learns
  <2>3. \A d \in {a, b} : d.mode = "reuse_existing" =>
          d.learn \subseteq Known(r.fields["known"])
    BY <1>9, <1>11, <2>2
  <2>. QED
    BY <2>1, <2>3
<1>15. Taught(view, submission) \subseteq Known(r.fields["known"])
       /\ (r.fields["known"] = view.fields["known"] => Taught(view, submission) = {})
  BY <1>14 DEF Taught
<1>. QED
  BY <1>13, <1>15

(* What an acceptance makes of the versions of a template.                    *)
LEMMA DraftRows ==
  ASSUME NEW rows \in Seq(DraftRow)
  PROVE  /\ Len(rows) \in Nat /\ DOMAIN rows = 1..Len(rows)
         /\ \A v \in DOMAIN rows : rows[v] \in DraftRow
         /\ \A p, v : v \in Confirmed(rows, p)
                      <=> v \in DOMAIN rows /\ rows[v].status = "user_confirmed" /\ rows[v].of = p
<1>1. \A v \in DOMAIN rows : rows[v] \in DraftRow
  OBVIOUS
<1>2. \A x \in DraftRow : \A p : x = [status |-> "user_confirmed", of |-> p]
                               <=> x.status = "user_confirmed" /\ x.of = p
  BY DEF DraftRow
<1>3. \A p, v : v \in Confirmed(rows, p)
               <=> v \in DOMAIN rows /\ rows[v].status = "user_confirmed" /\ rows[v].of = p
  <2>. SUFFICES ASSUME NEW p, NEW v
                PROVE  v \in Confirmed(rows, p)
                  <=> v \in DOMAIN rows /\ rows[v].status = "user_confirmed" /\ rows[v].of = p
    OBVIOUS
  <2>1. v \in Confirmed(rows, p)
          <=> v \in DOMAIN rows /\ rows[v] = [status |-> "user_confirmed", of |-> p]
    BY DEF Confirmed
  <2>2. v \in DOMAIN rows => (rows[v] = [status |-> "user_confirmed", of |-> p]
                               <=> rows[v].status = "user_confirmed" /\ rows[v].of = p)
    BY <1>1, <1>2
  <2>. QED
    BY <2>1, <2>2
<1>4. Len(rows) \in Nat /\ DOMAIN rows = 1..Len(rows)
  OBVIOUS
<1>. QED
  BY <1>1, <1>3, <1>4

LEMMA RowAdded ==
  ASSUME NEW rows \in Seq(DraftRow), NEW row \in DraftRow, NEW b, b = Append(rows, row)
  PROVE  /\ b \in Seq(DraftRow) /\ Len(b) = Len(rows) + 1 /\ b[Len(rows) + 1] = row
         /\ \A v \in DOMAIN rows : b[v] = rows[v] /\ v # Len(rows) + 1
         /\ DOMAIN b = DOMAIN rows \cup {Len(rows) + 1}
<1>1. Len(rows) \in Nat /\ DOMAIN rows = 1..Len(rows)
  OBVIOUS
<1>2. /\ b \in Seq(DraftRow) /\ Len(b) = Len(rows) + 1 /\ b[Len(rows) + 1] = row
      /\ \A v \in DOMAIN rows : b[v] = rows[v]
  OBVIOUS
<1>3. DOMAIN b = 1..(Len(rows) + 1)
  BY <1>2
<1>. QED
  BY <1>1, <1>2, <1>3

LEMMA AcceptedRows ==
  ASSUME NEW rows \in Seq(DraftRow), NEW p \in Proposals, NEW b, b = AcceptedDrafts(rows, p)
  PROVE  /\ b \in Seq(DraftRow) /\ Len(b) = Len(rows) + 1 /\ Reviewed(b, p) = {}
         /\ Confirmed(rows, p) = {} => Confirmed(b, p) = {Len(rows) + 1}
         /\ \A q : q # p => /\ Confirmed(b, q) = Confirmed(rows, q)
                            /\ Reviewed(b, q) = Reviewed(rows, q)
<1>1. PICK row : row = [status |-> "user_confirmed", of |-> p]
  OBVIOUS
<1>2. row \in DraftRow /\ row.status = "user_confirmed" /\ row.of = p
  BY <1>1 DEF DraftRow
<1>3. PICK vs : vs = [v \in DOMAIN rows |->
                        IF rows[v].of = p /\ rows[v].status = "admin_review"
                        THEN [rows[v] EXCEPT !.status = "deprecated"] ELSE rows[v]]
  OBVIOUS
<1>4. \A v \in DOMAIN rows :
        /\ vs[v] \in DraftRow /\ vs[v].of = rows[v].of
        /\ vs[v].status = IF rows[v].of = p /\ rows[v].status = "admin_review"
                          THEN "deprecated" ELSE rows[v].status
  <2>. SUFFICES ASSUME NEW v \in DOMAIN rows
                PROVE  /\ vs[v] \in DraftRow /\ vs[v].of = rows[v].of
                       /\ vs[v].status = IF rows[v].of = p /\ rows[v].status = "admin_review"
                                         THEN "deprecated" ELSE rows[v].status
    OBVIOUS
  <2>1. rows[v] \in DraftRow
    OBVIOUS
  <2>. QED
    BY <1>3, <2>1 DEF DraftRow
<1>5. vs \in Seq(DraftRow) /\ Len(vs) = Len(rows) /\ DOMAIN vs = DOMAIN rows
  <2>1. vs \in [1..Len(rows) -> DraftRow] /\ Len(rows) \in Nat
    BY <1>3, <1>4, DraftRows
  <2>. QED
    BY <1>3, <2>1, TupleIsSeq
<1>6. b = Append(vs, row)
  BY <1>1, <1>3 DEF AcceptedDrafts
<1>7. PICK n : n = Len(rows) + 1
  OBVIOUS
<1>8. /\ b \in Seq(DraftRow) /\ Len(b) = n /\ b[n] = row
      /\ \A v \in DOMAIN rows : b[v] = vs[v] /\ v # n
      /\ DOMAIN b = DOMAIN rows \cup {n}
  BY <1>2, <1>5, <1>6, <1>7, RowAdded
<1>9. Reviewed(b, p) = {}
  BY <1>2, <1>4, <1>8 DEF Reviewed
<1>10. \A q, v : v \in Confirmed(rows, q)
                   <=> v \in DOMAIN rows /\ rows[v].status = "user_confirmed" /\ rows[v].of = q
  BY DraftRows
<1>11. \A q, v : v \in Confirmed(b, q)
                   <=> v \in DOMAIN b /\ b[v].status = "user_confirmed" /\ b[v].of = q
  BY <1>8, DraftRows
<1>12. Confirmed(rows, p) = {} => Confirmed(b, p) = {n}
  <2>. SUFFICES ASSUME Confirmed(rows, p) = {} PROVE \A v : v \in Confirmed(b, p) <=> v = n
    OBVIOUS
  <2>1. n \in Confirmed(b, p)
    BY <1>2, <1>8, <1>11
  <2>2. ASSUME NEW v \in DOMAIN rows PROVE v \notin Confirmed(b, p)
    <3>1. ~(rows[v].status = "user_confirmed" /\ rows[v].of = p)
      BY <1>10
    <3>. QED
      BY <1>4, <1>8, <1>11, <3>1
  <2>. QED
    BY <1>8, <1>11, <2>1, <2>2
<1>13. ASSUME NEW q, q # p
       PROVE  Confirmed(b, q) = Confirmed(rows, q) /\ Reviewed(b, q) = Reviewed(rows, q)
  <2>1. Confirmed(b, q) = Confirmed(rows, q)
    <3>1. n \notin Confirmed(b, q)
      BY <1>2, <1>8, <1>11, <1>13
    <3>2. \A v \in DOMAIN rows : v \in Confirmed(b, q) <=> v \in Confirmed(rows, q)
      BY <1>4, <1>8, <1>10, <1>11
    <3>3. \A v : v \in Confirmed(b, q) <=> v \in Confirmed(rows, q)
      BY <1>8, <1>10, <1>11, <3>1, <3>2
    <3>4. /\ Confirmed(b, q) \subseteq Confirmed(rows, q)
          /\ Confirmed(rows, q) \subseteq Confirmed(b, q)
      BY <3>3
    <3>. QED
      BY <3>4
  <2>. QED
    BY <1>2, <1>4, <1>8, <1>13, <2>1 DEF Reviewed
<1>. QED
  BY <1>7, <1>8, <1>9, <1>12, <1>13

(* A version under review is added for a new proposal.                        *)
LEMMA ReviewedRows ==
  ASSUME NEW rows \in Seq(DraftRow), NEW p \in Proposals, NEW b,
         b = Append(rows, [status |-> "admin_review", of |-> p])
  PROVE  /\ b \in Seq(DraftRow) /\ Len(b) = Len(rows) + 1
         /\ \A q : Confirmed(b, q) = Confirmed(rows, q)
         /\ \A q : q # p => Reviewed(b, q) = Reviewed(rows, q)
<1>1. PICK row : row = [status |-> "admin_review", of |-> p]
  OBVIOUS
<1>2. row \in DraftRow /\ row.status = "admin_review" /\ row.of = p
  BY <1>1 DEF DraftRow
<1>3. PICK n : n = Len(rows) + 1
  OBVIOUS
<1>4. /\ b \in Seq(DraftRow) /\ Len(b) = n /\ b[n] = row
      /\ \A v \in DOMAIN rows : b[v] = rows[v] /\ v # n
      /\ DOMAIN b = DOMAIN rows \cup {n}
  BY <1>1, <1>2, <1>3, RowAdded
<1>5. \A q : Confirmed(b, q) = Confirmed(rows, q)
  <2>1. \A q, v : v \in Confirmed(rows, q)
                   <=> v \in DOMAIN rows /\ rows[v].status = "user_confirmed" /\ rows[v].of = q
    BY DraftRows
  <2>2. \A q, v : v \in Confirmed(b, q)
                   <=> v \in DOMAIN b /\ b[v].status = "user_confirmed" /\ b[v].of = q
    BY <1>4, DraftRows
  <2>. SUFFICES ASSUME NEW q PROVE Confirmed(b, q) = Confirmed(rows, q)
    OBVIOUS
  <2>3. n \notin Confirmed(b, q)
    BY <1>2, <1>4, <2>2
  <2>4. \A v : v \in Confirmed(b, q) <=> v \in Confirmed(rows, q)
    BY <1>4, <2>1, <2>2, <2>3
  <2>5. Confirmed(b, q) \subseteq Confirmed(rows, q) /\ Confirmed(rows, q) \subseteq Confirmed(b, q)
    BY <2>4
  <2>. QED
    BY <2>5
<1>6. \A q : q # p => Reviewed(b, q) = Reviewed(rows, q)
  BY <1>2, <1>4 DEF Reviewed
<1>. QED
  BY <1>3, <1>4, <1>5, <1>6

LEMMA CatalogueView ==
  ASSUME GovernanceInv
  PROVE  /\ catalogue \in View /\ regions \in Nat
         /\ catalogue.fields = fields /\ catalogue.drafts = drafts
         /\ catalogue.regions = regions /\ catalogue.cases = cases
<1>1. Cardinality(Proposals) \in Nat
  BY GovernanceBounds, FS_CardinalityType
<1>2. regions \in Nat
  BY <1>1 DEF GovernanceInv, GovernanceTypeOK
<1>3. /\ fields \in [Kinds -> FieldRow] /\ drafts \in [Templates -> Seq(DraftRow)]
      /\ cases \in [Proposals -> CaseRow]
  BY DEF GovernanceInv, GovernanceTypeOK, Templates
<1>. QED
  BY <1>2, <1>3 DEF catalogue, View

LEMMA TemplateNames ==
  ASSUME NEW p \in Proposals
  PROVE  TemplateOf(p) \in Templates /\ TemplateOf(p) \in {"base", p}
BY DEF TemplateOf, Templates

(* The fields of a step: versions are only added, and whoever was not          *)
(* disturbed is not.                                                          *)
FieldsMove ==
  /\ fields' \in [Kinds -> FieldRow]
  /\ \A f \in Kinds : StillThere(fields[f], fields'[f])
  /\ fields'["coined"].published = Len(fields'["coined"].versions)
  /\ publishing' \in {0} \cup DOMAIN fields'["known"].versions
  /\ \A n \in Nat : Undisturbed(n) => Undisturbed(n)'

LEMMA ThereStill ==
  ASSUME NEW a \in FieldRow, NEW b \in FieldRow, NEW c \in FieldRow,
         StillThere(a, b), StillThere(b, c)
  PROVE  StillThere(a, c)
<1>1. Len(a.versions) \in Nat /\ Len(b.versions) \in Nat /\ Len(c.versions) \in Nat
  BY FieldFacts
<1>2. ASSUME NEW n \in 1..Len(a.versions) PROVE a.versions[n].variants = c.versions[n].variants
  <2>1. n \in 1..Len(b.versions)
    BY <1>1, <1>2 DEF StillThere
  <2>. QED
    BY <1>2, <2>1 DEF StillThere
<1>. QED
  BY <1>1, <1>2 DEF StillThere

LEMMA FieldsStay ==
  ASSUME GovernanceInv, fields' = fields, publishing' = publishing
  PROVE  FieldsMove
<1>1. /\ fields \in [Kinds -> FieldRow] /\ publishing \in {0} \cup DOMAIN fields["known"].versions
      /\ fields["coined"].published = Len(fields["coined"].versions)
  BY DEF GovernanceInv, GovernanceTypeOK
<1>2. \A f \in Kinds : StillThere(fields[f], fields[f])
  BY <1>1, FieldFacts DEF StillThere
<1>3. \A n \in Nat : Undisturbed(n) => Undisturbed(n)'
  BY DEF Undisturbed
<1>. QED
  BY <1>1, <1>2, <1>3 DEF FieldsMove

(* A request that waits while others commit.                                   *)
LEMMA StillPendingFits ==
  ASSUME GovernanceInv, FieldsMove, pending' = pending, pending # NoRequestYet,
         drafts' \in [Templates -> Seq(DraftRow)],
         \A t \in Templates : /\ Len(drafts[t]) <= Len(drafts'[t])
                              /\ Len(drafts[t]) = Len(drafts'[t]) => drafts'[t] = drafts[t],
         cases'[pending.p].status # "none",
         pending.p \notin raced' => cases'[pending.p].status = "pending"
  PROVE  PendingFits'
<1>. PICK w : w = pending
  OBVIOUS
<1>1. /\ w.kind \in {"accept", "reject"} /\ w.p \in Proposals
      /\ w.kind = "accept" => ReadFits(w)
  BY DEF GovernanceInv, PendingFits
<1>2. /\ fields \in [Kinds -> FieldRow] /\ fields' \in [Kinds -> FieldRow]
      /\ \A f \in Kinds : StillThere(fields[f], fields'[f])
      /\ "known" \in Kinds
  BY DEF GovernanceInv, FieldsMove, Kinds
<1>3. ASSUME NEW n \in Nat, Undisturbed(n) PROVE Undisturbed(n)'
  BY <1>3 DEF FieldsMove
<1>4. ASSUME w.kind = "accept" PROVE ReadFits(w)'
  <2>1. ReadFits(w)
    BY <1>1, <1>4
  <2>2. ASSUME w.step = "versions"
        PROVE  /\ OpenCase(w.row) /\ w.published \in Nat
               /\ w.published <= Len(fields'["known"].versions)
               /\ w.whole => Undisturbed(w.published)'
    <3>1. /\ OpenCase(w.row) /\ w.published \in Nat
          /\ w.published <= Len(fields["known"].versions)
          /\ w.whole => Undisturbed(w.published)
      BY <2>1, <2>2 DEF ReadFits
    <3>2. Len(fields["known"].versions) <= Len(fields'["known"].versions)
          /\ Len(fields["known"].versions) \in Nat /\ Len(fields'["known"].versions) \in Nat
      BY <1>2, FieldFacts DEF StillThere
    <3>3. w.published <= Len(fields'["known"].versions)
      BY <3>1, <3>2
    <3>4. w.whole => Undisturbed(w.published)'
      BY <1>3, <3>1
    <3>. QED
      BY <3>1, <3>3, <3>4
  <2>3. ASSUME w.step = "drafts"
        PROVE  /\ OpenCase(w.row) /\ w.seen \in [Kinds -> FieldRow]
               /\ \A f \in Kinds : StillThere(w.seen[f], fields'[f])
               /\ w.seen["coined"].published = Len(w.seen["coined"].versions)
               /\ w.whole => Undisturbed(w.seen["known"].published)'
    <3>1. /\ OpenCase(w.row) /\ w.seen \in [Kinds -> FieldRow]
          /\ \A f \in Kinds : StillThere(w.seen[f], fields[f])
          /\ w.seen["coined"].published = Len(w.seen["coined"].versions)
          /\ w.whole => Undisturbed(w.seen["known"].published)
      BY <2>1, <2>3 DEF ReadFits
    <3>2. \A f \in Kinds : StillThere(w.seen[f], fields'[f])
      BY <1>2, <3>1, ThereStill
    <3>3. w.seen["known"].published \in Nat
      BY <1>2, <3>1, FieldFacts
    <3>4. w.whole => Undisturbed(w.seen["known"].published)'
      BY <1>3, <3>1, <3>3
    <3>. QED
      BY <3>1, <3>2, <3>4
  <2>4. ASSUME w.step = "write"
        PROVE  /\ w.view \in View /\ OpenCase(w.view.cases[w.p])
               /\ \A f \in Kinds : StillThere(w.view.fields[f], fields'[f])
               /\ w.view.fields["coined"].published = Len(w.view.fields["coined"].versions)
               /\ \A t \in Templates :
                    /\ Len(w.view.drafts[t]) <= Len(drafts'[t])
                    /\ Len(w.view.drafts[t]) = Len(drafts'[t]) => w.view.drafts[t] = drafts'[t]
               /\ w.whole => Undisturbed(w.view.fields["known"].published)'
    <3>1. /\ w.view \in View /\ OpenCase(w.view.cases[w.p])
          /\ \A f \in Kinds : StillThere(w.view.fields[f], fields[f])
          /\ w.view.fields["coined"].published = Len(w.view.fields["coined"].versions)
          /\ \A t \in Templates :
               /\ Len(w.view.drafts[t]) <= Len(drafts[t])
               /\ Len(w.view.drafts[t]) = Len(drafts[t]) => w.view.drafts[t] = drafts[t]
          /\ w.whole => Undisturbed(w.view.fields["known"].published)
      BY <2>1, <2>4 DEF ReadFits
    <3>2. w.view.fields \in [Kinds -> FieldRow] /\ w.view.drafts \in [Templates -> Seq(DraftRow)]
      BY <3>1 DEF View
    <3>3. \A f \in Kinds : StillThere(w.view.fields[f], fields'[f])
      BY <1>2, <3>1, <3>2, ThereStill
    <3>4. w.view.fields["known"].published \in Nat
      BY <1>2, <3>2, FieldFacts
    <3>5. w.whole => Undisturbed(w.view.fields["known"].published)'
      BY <1>3, <3>1, <3>4
    <3>6. ASSUME NEW t \in Templates
          PROVE  /\ Len(w.view.drafts[t]) <= Len(drafts'[t])
                 /\ Len(w.view.drafts[t]) = Len(drafts'[t]) => w.view.drafts[t] = drafts'[t]
      <4>1. drafts[t] \in Seq(DraftRow) /\ drafts'[t] \in Seq(DraftRow)
            /\ w.view.drafts[t] \in Seq(DraftRow)
        BY <3>2 DEF GovernanceInv, GovernanceTypeOK, Templates
      <4>2. Len(drafts[t]) \in Nat /\ Len(drafts'[t]) \in Nat /\ Len(w.view.drafts[t]) \in Nat
        BY <4>1
      <4>. QED
        BY <3>1, <4>2
    <3>. QED
      BY <3>1, <3>3, <3>5, <3>6
  <2>5. w.step \in {"versions", "drafts", "write"}
    BY <2>1 DEF ReadFits
  <2>. QED
    BY <2>2, <2>3, <2>4, <2>5 DEF ReadFits
<1>5. pending' = w /\ pending = w
  OBVIOUS
<1>6. ASSUME pending.kind = "accept" PROVE ReadFits(pending)'
  BY <1>4, <1>5, <1>6 DEF ReadFits
<1>. QED
  BY <1>1, <1>5, <1>6 DEF PendingFits

Joined(rs, bs) == rs \o SubSeq(bs, Len(rs) + 1, Len(bs))

LEMMA TailJoined ==
  ASSUME NEW S, NEW rs \in Seq(S), NEW bs \in Seq(S), NEW m \in Nat, NEW k \in Nat,
         m = Len(rs), k = Len(bs), m < k, NEW vs, vs = Joined(rs, bs)
  PROVE  /\ vs \in Seq(S) /\ Len(vs) = k /\ vs[k] = bs[k]
         /\ \A n \in 1..m : vs[n] = rs[n]
<1>1. PICK s : s = SubSeq(bs, m + 1, k)
  OBVIOUS
<1>2. m + 1 \in Int /\ k \in Int /\ \A i \in (m + 1)..k : bs[i] \in S
  OBVIOUS
<1>3. /\ s \in Seq(S) /\ Len(s) = (IF m + 1 <= k THEN k - (m + 1) + 1 ELSE 0)
      /\ \A i \in 1..(k - (m + 1) + 1) : s[i] = bs[m + 1 + i - 1]
  BY <1>1, <1>2, SubSeqProperties
<1>4. Len(s) = k - m
  BY <1>3
<1>5. s[k - m] = bs[k]
  <2>1. k - m \in 1..(k - (m + 1) + 1) /\ m + 1 + (k - m) - 1 = k
    OBVIOUS
  <2>. QED
    BY <1>3, <2>1
<1>6. /\ vs \in Seq(S) /\ Len(vs) = Len(rs) + Len(s)
      /\ \A i \in 1..(Len(rs) + Len(s)) : vs[i] = IF i <= Len(rs) THEN rs[i] ELSE s[i - Len(rs)]
  BY <1>1, <1>3, ConcatProperties DEF Joined
<1>7. Len(vs) = k
  BY <1>4, <1>6
<1>8. vs[k] = bs[k]
  BY <1>4, <1>5, <1>6
<1>9. \A n \in 1..m : vs[n] = rs[n]
  BY <1>4, <1>6
<1>. QED
  BY <1>6, <1>7, <1>8, <1>9

(* The newly computed versions of a field, beside those there are.             *)
LEMMA ExtendedField ==
  ASSUME NEW row \in FieldRow, NEW a \in FieldRow, NEW b \in FieldRow, Learns(a, b),
         a.versions # b.versions, Len(row.versions) = Len(a.versions),
         NEW c, c = Extended(row, a, b)
  PROVE  /\ c \in FieldRow /\ Len(row.versions) < Len(c.versions)
         /\ c.published = Len(c.versions) /\ Known(c) = Known(b)
         /\ \A n \in 1..Len(row.versions) : c.versions[n] = row.versions[n]
<1>. PICK m, k : m = Len(a.versions) /\ k = Len(b.versions)
  OBVIOUS
<1>1. /\ m \in Nat /\ k \in Nat /\ b.versions \in Seq(VersionOfField)
      /\ row.versions \in Seq(VersionOfField) /\ Len(row.versions) = m
  BY FieldFacts
<1>2. m < k /\ b.published = k
  <2>1. m # k
    BY DEF Learns
  <2>. QED
    BY <1>1, <2>1 DEF Learns
<1>3. PICK vs : vs = Joined(row.versions, b.versions)
  OBVIOUS
<1>4. /\ vs \in Seq(VersionOfField) /\ Len(vs) = k /\ vs[k] = b.versions[k]
      /\ \A n \in 1..m : vs[n] = row.versions[n]
  <2>. PICK rs, bs : rs = row.versions /\ bs = b.versions
    OBVIOUS
  <2>1. /\ rs \in Seq(VersionOfField) /\ bs \in Seq(VersionOfField) /\ m = Len(rs)
        /\ k = Len(bs) /\ vs = Joined(rs, bs) /\ m \in Nat /\ k \in Nat /\ m < k
    BY <1>1, <1>2, <1>3
  <2>2. /\ vs \in Seq(VersionOfField) /\ Len(vs) = k /\ vs[k] = bs[k]
        /\ \A n \in 1..m : vs[n] = rs[n]
    BY <2>1, TailJoined
  <2>. QED
    BY <2>2
<1>5. c = [published |-> k, versions |-> vs]
  BY <1>1, <1>2, <1>3 DEF Extended, Joined
<1>6. c \in FieldRow /\ c.published = k /\ c.versions = vs
  <2>1. k \in Nat /\ vs \in Seq(VersionOfField) /\ k <= Len(vs)
    BY <1>1, <1>4
  <2>. QED
    BY <1>5, <2>1, FieldMade
<1>7. Known(c) = Known(b)
  BY <1>1, <1>2, <1>4, <1>6 DEF Known
<1>. QED
  BY <1>1, <1>2, <1>4, <1>6, <1>7

(* What an accepted decision makes of the database.                           *)
Accepting(p) ==
  /\ fields' \in [Kinds -> FieldRow]
  /\ \A f \in Kinds :
       \/ fields'[f] = fields[f]
       \/ /\ Len(fields[f].versions) < Len(fields'[f].versions)
          /\ fields'[f].published = Len(fields'[f].versions)
          /\ \A n \in 1..Len(fields[f].versions) : fields'[f].versions[n] = fields[f].versions[n]
  /\ drafts' = [drafts EXCEPT ![TemplateOf(p)] = AcceptedDrafts(drafts[TemplateOf(p)], p)]
  /\ regions' = regions + 1
  /\ cases[p].resolution = {}
  /\ \E taught \in SUBSET Variants :
       /\ taught \subseteq Known(fields'["known"])
       /\ cases' = [cases EXCEPT ![p] =
                      [status |-> "accepted", resolution |-> {taught}, plan |-> "hermes"]]

(* Whoever writes has seen all the versions of the fields that it extends.     *)
LearnsFrom(view) ==
  \A f \in Kinds : \/ fields'[f] = fields[f]
                   \/ /\ Len(view.fields[f].versions) = Len(fields[f].versions)
                      /\ Known(view.fields[f]) \subseteq Known(fields'[f])

LEMMA WriteAccepts ==
  ASSUME GovernanceInv, NEW p \in Proposals, NEW view \in View, OpenCase(view.cases[p]),
         \A t \in Templates : Len(view.drafts[t]) = Len(drafts[t]) => view.drafts[t] = drafts[t],
         NEW submission \in Decisions \X Decisions,
         CommitFieldGovernance(view, submission).ok,
         NEW after, after = Accepted(view, p, submission), Write(view, after)
  PROVE  Accepting(p) /\ LearnsFrom(view)
<1>1. PICK r, taught, m : /\ r = CommitFieldGovernance(view, submission)
                          /\ taught = Taught(view, submission) /\ m = TemplateOf(p)
  OBVIOUS
<1>2. /\ Teaches(view.fields, r.fields) /\ taught \subseteq Known(r.fields["known"])
      /\ (r.fields["known"] = view.fields["known"] => taught = {})
  BY <1>1, SubmissionTeaches
<1>3. /\ after.fields = r.fields /\ after.regions = view.regions + 1
      /\ after.drafts = [view.drafts EXCEPT ![m] = AcceptedDrafts(view.drafts[m], p)]
      /\ after.cases = [view.cases EXCEPT ![p] =
           [status |-> "accepted", resolution |-> {taught}, plan |-> "hermes"]]
  BY <1>1 DEF Accepted
<1>4. /\ view.fields \in [Kinds -> FieldRow] /\ view.drafts \in [Templates -> Seq(DraftRow)]
      /\ view.regions \in Nat /\ view.cases \in [Proposals -> CaseRow]
      /\ view.cases[p].resolution = {}
  BY DEF View, OpenCase
<1>5. /\ fields \in [Kinds -> FieldRow] /\ drafts \in [Templates -> Seq(DraftRow)]
      /\ cases \in [Proposals -> CaseRow]
  BY DEF GovernanceInv, GovernanceTypeOK, Templates
<1>6. "known" \in Kinds
  BY DEF Kinds
<1>7. ASSUME NEW f \in Kinds
      PROVE  /\ fields'[f] \in FieldRow
             /\ \/ fields'[f] = fields[f] /\ r.fields[f] = view.fields[f]
                \/ /\ Len(view.fields[f].versions) = Len(fields[f].versions)
                   /\ Len(fields[f].versions) < Len(fields'[f].versions)
                   /\ fields'[f].published = Len(fields'[f].versions)
                   /\ \A n \in 1..Len(fields[f].versions) :
                        fields'[f].versions[n] = fields[f].versions[n]
                   /\ Known(fields'[f]) = Known(r.fields[f])
  <2>. PICK row, a, b, c : row = fields[f] /\ a = view.fields[f] /\ b = r.fields[f]
                           /\ c = Extended(row, a, b)
    OBVIOUS
  <2>1. /\ row \in FieldRow /\ a \in FieldRow /\ b \in FieldRow /\ Learns(a, b)
    BY <1>2, <1>4, <1>5 DEF Teaches
  <2>2. fields'[f] = c
    BY <1>3 DEF Write
  <2>3. CASE b.versions = a.versions
    <3>1. c = row /\ b = a
      BY <2>3, <2>1 DEF Extended, Learns
    <3>. QED
      BY <2>1, <2>2, <3>1
  <2>4. CASE b.versions # a.versions
    <3>1. Len(row.versions) = Len(a.versions)
      BY <1>3, <2>4 DEF Write, Unhit
    <3>2. /\ c \in FieldRow /\ Len(row.versions) < Len(c.versions)
          /\ c.published = Len(c.versions) /\ Known(c) = Known(b)
          /\ \A n \in 1..Len(row.versions) : c.versions[n] = row.versions[n]
      BY <2>1, <2>4, <3>1, ExtendedField
    <3>. QED
      BY <2>2, <3>1, <3>2
  <2>. QED
    BY <2>3, <2>4
<1>8. fields' \in [Kinds -> FieldRow]
  <2>1. DOMAIN fields' = Kinds /\ fields' = [f \in Kinds |-> fields'[f]]
    BY DEF Write
  <2>. QED
    BY <1>7, <2>1
<1>9. taught \subseteq Known(fields'["known"]) /\ taught \in SUBSET Variants
  <2>1. taught \subseteq Known(fields'["known"])
    BY <1>2, <1>6, <1>7
  <2>2. Known(fields'["known"]) \subseteq Variants
    BY <1>6, <1>7, FieldFacts
  <2>. QED
    BY <2>1, <2>2
<1>10. drafts' = [drafts EXCEPT ![m] = AcceptedDrafts(drafts[m], p)]
  <2>1. m \in Templates
    BY <1>1, TemplateNames
  <2>2. PICK b : b = AcceptedDrafts(view.drafts[m], p)
    OBVIOUS
  <2>3. Len(b) = Len(view.drafts[m]) + 1 /\ Len(view.drafts[m]) \in Nat
    BY <1>4, <2>1, <2>2, AcceptedRows
  <2>4. b # view.drafts[m]
    BY <2>3
  <2>5. \A t \in Templates : after.drafts[t] = IF t = m THEN b ELSE view.drafts[t]
    BY <1>3, <1>4, <2>1, <2>2
  <2>6. view.drafts[m] = drafts[m]
    BY <1>5, <2>1, <2>4, <2>5 DEF Write, Unhit
  <2>7. drafts' = [t \in Templates |-> IF after.drafts[t] # view.drafts[t] THEN after.drafts[t]
                                       ELSE drafts[t]]
    BY <1>5 DEF Write
  <2>. QED
    BY <1>5, <2>1, <2>2, <2>4, <2>5, <2>6, <2>7
<1>11. regions' = regions + 1
  <2>1. after.regions # view.regions
    BY <1>3, <1>4
  <2>. QED
    BY <1>3, <2>1 DEF Write, Unhit
<1>12. cases[p].resolution = {}
       /\ cases' = [cases EXCEPT ![p] =
                      [status |-> "accepted", resolution |-> {taught}, plan |-> "hermes"]]
  <2>1. PICK case : case = [status |-> "accepted", resolution |-> {taught}, plan |-> "hermes"]
    OBVIOUS
  <2>2. case.status = "accepted" /\ case.resolution = {taught}
    BY <2>1
  <2>3. \A q \in Proposals : after.cases[q] = IF q = p THEN case ELSE view.cases[q]
    BY <1>3, <1>4, <2>1
  <2>4. case # view.cases[p] /\ case.resolution # view.cases[p].resolution
    BY <1>4, <2>2
  <2>5. cases[p].resolution = {}
    BY <2>3, <2>4 DEF Write, Unhit
  <2>6. cases' = [q \in Proposals |-> IF after.cases[q] # view.cases[q] THEN after.cases[q]
                                      ELSE cases[q]]
    BY DEF Write
  <2>. QED
    BY <1>5, <2>1, <2>3, <2>4, <2>5, <2>6
<1>13. \A f \in Kinds : Known(view.fields[f]) \subseteq Known(r.fields[f])
  BY <1>2 DEF Teaches, Learns
<1>14. LearnsFrom(view)
  BY <1>7, <1>13 DEF LearnsFrom
<1>15. \A f \in Kinds :
         \/ fields'[f] = fields[f]
         \/ /\ Len(fields[f].versions) < Len(fields'[f].versions)
            /\ fields'[f].published = Len(fields'[f].versions)
            /\ \A n \in 1..Len(fields[f].versions) : fields'[f].versions[n] = fields[f].versions[n]
  BY <1>7
<1>. QED
  BY <1>1, <1>8, <1>9, <1>10, <1>11, <1>12, <1>14, <1>15 DEF Accepting

LEMMA AcceptingMoves ==
  ASSUME GovernanceInv, NEW p \in Proposals, Accepting(p), publishing' = publishing
  PROVE  FieldsMove
<1>1. /\ fields \in [Kinds -> FieldRow] /\ fields' \in [Kinds -> FieldRow]
      /\ publishing \in {0} \cup DOMAIN fields["known"].versions
      /\ fields["coined"].published = Len(fields["coined"].versions)
      /\ "known" \in Kinds /\ "coined" \in Kinds
  BY DEF GovernanceInv, GovernanceTypeOK, Accepting, Kinds
<1>2. \A f \in Kinds : Len(fields[f].versions) \in Nat /\ Len(fields'[f].versions) \in Nat
                        /\ DOMAIN fields[f].versions = 1..Len(fields[f].versions)
                        /\ DOMAIN fields'[f].versions = 1..Len(fields'[f].versions)
  BY <1>1, FieldFacts
<1>3. \A f \in Kinds :
        \/ fields'[f] = fields[f]
        \/ /\ Len(fields[f].versions) < Len(fields'[f].versions)
           /\ fields'[f].published = Len(fields'[f].versions)
           /\ \A n \in 1..Len(fields[f].versions) : fields'[f].versions[n] = fields[f].versions[n]
  BY DEF Accepting
<1>4. \A f \in Kinds : StillThere(fields[f], fields'[f])
  BY <1>2, <1>3 DEF StillThere
<1>5. publishing' \in {0} \cup DOMAIN fields'["known"].versions
  BY <1>1, <1>2, <1>4 DEF StillThere
<1>6. \A n \in Nat : Undisturbed(n) => Undisturbed(n)'
  <2>1. CASE fields'["known"] = fields["known"]
    BY <2>1 DEF Undisturbed
  <2>2. CASE Len(fields["known"].versions) < Len(fields'["known"].versions)
    BY <1>1, <1>2, <2>2 DEF Undisturbed
  <2>. QED
    BY <1>1, <1>3, <2>1, <2>2
<1>7. fields'["coined"].published = Len(fields'["coined"].versions)
  BY <1>1, <1>3
<1>. QED
  BY <1>1, <1>4, <1>5, <1>6, <1>7 DEF FieldsMove

(* The pieces of the invariant that a step establishes.                        *)
LEMMA GovernanceKept ==
  ASSUME GovernanceInv, FieldsMove, drafts' \in [Templates -> Seq(DraftRow)],
         cases' \in [Proposals -> CaseRow], raced' \subseteq Proposals,
         regions' \in 0..Cardinality(Proposals), regions' = Cardinality(Resolved'),
         pending'.kind \in {"none", "accept", "reject"},
         \A q \in Proposals : CaseFits(q)', PendingFits'
  PROVE  GovernanceInv'
<1>1. fields' \in [Kinds -> FieldRow]
  BY DEF FieldsMove
<1>2. /\ DOMAIN fields' = Kinds
      /\ \A f \in Kinds : /\ fields'[f].versions \in Seq(VersionOfField)
                           /\ fields'[f].published \in 0..Len(fields'[f].versions)
  <2>1. \A f \in Kinds : fields'[f] \in FieldRow
    BY <1>1
  <2>2. DOMAIN fields' = Kinds
    BY <1>1
  <2>3. ASSUME NEW f \in Kinds
        PROVE  /\ fields'[f].versions \in Seq(VersionOfField)
               /\ fields'[f].published \in 0..Len(fields'[f].versions)
    <3>1. /\ fields'[f].published \in Nat /\ fields'[f].versions \in Seq(VersionOfField)
          /\ Len(fields'[f].versions) \in Nat /\ fields'[f].published <= Len(fields'[f].versions)
      BY <2>1, FieldFacts
    <3>. QED
      BY <3>1
  <2>. QED
    BY <2>2, <2>3
<1>3. publishing' \in {0} \cup DOMAIN fields'["known"].versions
  BY DEF FieldsMove
<1>4. GovernanceTypeOK'
  BY <1>2, <1>3 DEF GovernanceTypeOK, Templates
<1>. QED
  BY <1>1, <1>4 DEF GovernanceInv, FieldsMove

LEMMA AcceptingKeeps ==
  ASSUME GovernanceInv, NEW p \in Proposals, Accepting(p), raced \subseteq raced',
         raced' \subseteq Proposals, publishing' = publishing,
         \/ pending' = NoRequestYet
         \/ pending' = pending /\ (pending # NoRequestYet /\ pending.p = p => p \in raced')
  PROVE  GovernanceInv'
<1>1. /\ fields \in [Kinds -> FieldRow] /\ drafts \in [Templates -> Seq(DraftRow)]
      /\ cases \in [Proposals -> CaseRow] /\ regions \in Nat
  BY CatalogueView DEF GovernanceInv, GovernanceTypeOK, Templates
<1>2. PICK taught \in SUBSET Variants :
        cases' = [cases EXCEPT ![p] =
                    [status |-> "accepted", resolution |-> {taught}, plan |-> "hermes"]]
  BY DEF Accepting
<1>. PICK case, m, b : /\ case = [status |-> "accepted", resolution |-> {taught}, plan |-> "hermes"]
                       /\ m = TemplateOf(p) /\ b = AcceptedDrafts(drafts[TemplateOf(p)], p)
  OBVIOUS
<1>3. /\ case \in CaseRow /\ case.status = "accepted" /\ case.resolution = {taught}
      /\ case.plan = "hermes" /\ case.resolution # {}
  BY DEF CaseRow
<1>4. /\ cases' \in [Proposals -> CaseRow] /\ cases'[p] = case
      /\ \A q \in Proposals : q # p => cases'[q] = cases[q]
  BY <1>1, <1>2, <1>3
<1>5. m \in Templates /\ drafts' = [drafts EXCEPT ![m] = b]
  BY TemplateNames DEF Accepting
<1>6. /\ b \in Seq(DraftRow) /\ Len(b) = Len(drafts[m]) + 1 /\ Len(drafts[m]) \in Nat
      /\ Reviewed(b, p) = {}
      /\ Confirmed(drafts[m], p) = {} => \E v : Confirmed(b, p) = {v}
      /\ \A q : q # p => /\ Confirmed(b, q) = Confirmed(drafts[m], q)
                         /\ Reviewed(b, q) = Reviewed(drafts[m], q)
  <2>1. PICK rows : rows = drafts[m]
    OBVIOUS
  <2>2. rows \in Seq(DraftRow) /\ b = AcceptedDrafts(rows, p) /\ Len(rows) \in Nat
    BY <1>1, <1>5, <2>1
  <2>3. b \in Seq(DraftRow) /\ Len(b) = Len(rows) + 1 /\ Reviewed(b, p) = {}
    BY <2>2, AcceptedRows
  <2>4. Confirmed(rows, p) = {} => Confirmed(b, p) = {Len(rows) + 1}
    BY <2>2, AcceptedRows
  <2>5. \A q : q # p => /\ Confirmed(b, q) = Confirmed(rows, q)
                       /\ Reviewed(b, q) = Reviewed(rows, q)
    BY <2>2, AcceptedRows
  <2>. QED
    BY <2>1, <2>2, <2>3, <2>4, <2>5
<1>7. /\ drafts' \in [Templates -> Seq(DraftRow)] /\ drafts'[m] = b
      /\ \A t \in Templates : t # m => drafts'[t] = drafts[t]
  BY <1>1, <1>5, <1>6
<1>8. regions' = Cardinality(Resolved') /\ regions' \in 0..Cardinality(Proposals)
  <2>1. cases[p].resolution = {} /\ regions' = regions + 1 /\ regions = Cardinality(Resolved)
    BY DEF Accepting, GovernanceInv
  <2>2. p \notin Resolved /\ Resolved' = Resolved \cup {p}
    BY <1>3, <1>4, <2>1 DEF Resolved
  <2>3. IsFiniteSet(Proposals) /\ Resolved \subseteq Proposals /\ Resolved' \subseteq Proposals
    BY GovernanceBounds DEF Resolved
  <2>4. IsFiniteSet(Resolved) /\ IsFiniteSet(Resolved')
        /\ Cardinality(Resolved') <= Cardinality(Proposals)
    BY <2>3, FS_Subset
  <2>5. Cardinality(Resolved') = Cardinality(Resolved) + 1
    BY <2>2, <2>4, FS_AddElement
  <2>6. Cardinality(Proposals) \in Nat
    BY <2>3, FS_CardinalityType
  <2>. QED
    BY <1>1, <2>1, <2>4, <2>5, <2>6
<1>9. ASSUME NEW q \in Proposals
      PROVE  CaseFits(q)'
  <2>1. TemplateOf(q) \in Templates /\ CaseFits(q)
    BY TemplateNames DEF GovernanceInv
  <2>2. CASE q = p
    <3>1. Confirmed(drafts[m], p) = {}
      BY <2>1, <2>2 DEF CaseFits, Accepting
    <3>. QED
      BY <1>3, <1>4, <1>6, <1>7, <2>2, <3>1 DEF CaseFits
  <2>3. CASE q # p
    <3>1. /\ Confirmed(drafts'[TemplateOf(q)], q) = Confirmed(drafts[TemplateOf(q)], q)
          /\ Reviewed(drafts'[TemplateOf(q)], q) = Reviewed(drafts[TemplateOf(q)], q)
      BY <1>6, <1>7, <2>1, <2>3
    <3>. QED
      BY <1>4, <2>1, <2>3, <3>1 DEF CaseFits
  <2>. QED
    BY <2>2, <2>3
<1>10. FieldsMove
  BY AcceptingMoves
<1>11. PendingFits'
  <2>1. CASE pending' = NoRequestYet
    BY <2>1 DEF PendingFits
  <2>2. CASE pending' = pending /\ pending # NoRequestYet
                                /\ (pending.p = p => p \in raced')
    <3>. PICK w : w = pending
      OBVIOUS
    <3>1. /\ w.kind \in {"accept", "reject"} /\ w.p \in Proposals
          /\ cases[w.p].status # "none" /\ (w.p \notin raced => cases[w.p].status = "pending")
      BY <2>2 DEF GovernanceInv, PendingFits
    <3>2. /\ cases'[w.p].status # "none"
          /\ w.p \notin raced' => cases'[w.p].status = "pending"
      BY <1>3, <1>4, <2>2, <3>1
    <3>3. \A t \in Templates : /\ Len(drafts[t]) <= Len(drafts'[t])
                               /\ Len(drafts[t]) = Len(drafts'[t]) => drafts'[t] = drafts[t]
      <4>1. \A t \in Templates : Len(drafts[t]) \in Nat
        BY <1>1, DraftRows
      <4>. QED
        BY <1>5, <1>6, <1>7, <4>1
    <3>. QED
      BY <1>7, <1>10, <2>2, <3>2, <3>3, StillPendingFits
  <2>. QED
    BY <2>1, <2>2
<1>12. pending'.kind \in {"none", "accept", "reject"}
  BY DEF GovernanceInv, GovernanceTypeOK, NoRequestYet
<1>. QED
  BY <1>4, <1>7, <1>8, <1>9, <1>10, <1>11, <1>12, GovernanceKept

LEMMA RecognizeKeeps ==
  ASSUME GovernanceInv, NEW p \in Proposals, RecognizeTemplateDiff(p)
  PROVE  GovernanceInv'
<1>1. /\ fields \in [Kinds -> FieldRow] /\ drafts \in [Templates -> Seq(DraftRow)]
      /\ cases \in [Proposals -> CaseRow]
  BY DEF GovernanceInv, GovernanceTypeOK, Templates
<1>. PICK case, m, b : /\ case = [status |-> "pending", resolution |-> {},
                                  plan |-> "hermes_provisional"]
                       /\ m = TemplateOf(p)
                       /\ b = Append(drafts[TemplateOf(p)], [status |-> "admin_review", of |-> p])
  OBVIOUS
<1>2. cases[p] = NoCase /\ cases' = [cases EXCEPT ![p] = case] /\ drafts' = [drafts EXCEPT ![m] = b]
      /\ regions' = regions /\ pending' = pending /\ raced' = raced /\ publishing' = publishing
  BY DEF RecognizeTemplateDiff
<1>3. /\ case \in CaseRow /\ case.status = "pending" /\ case.resolution = {}
      /\ case.plan = "hermes_provisional"
  BY DEF CaseRow
<1>4. /\ cases' \in [Proposals -> CaseRow] /\ cases'[p] = case
      /\ \A q \in Proposals : q # p => cases'[q] = cases[q]
  BY <1>1, <1>2, <1>3
<1>5. m \in Templates
  BY TemplateNames
<1>6. /\ b \in Seq(DraftRow) /\ Len(b) = Len(drafts[m]) + 1 /\ Len(drafts[m]) \in Nat
      /\ \A q : Confirmed(b, q) = Confirmed(drafts[m], q)
      /\ \A q : q # p => Reviewed(b, q) = Reviewed(drafts[m], q)
  <2>1. PICK rows : rows = drafts[m]
    OBVIOUS
  <2>2. rows \in Seq(DraftRow) /\ b = Append(rows, [status |-> "admin_review", of |-> p])
        /\ Len(rows) \in Nat
    BY <1>1, <1>5, <2>1
  <2>3. /\ b \in Seq(DraftRow) /\ Len(b) = Len(rows) + 1
        /\ \A q : Confirmed(b, q) = Confirmed(rows, q)
        /\ \A q : q # p => Reviewed(b, q) = Reviewed(rows, q)
    BY ZenonT(30), <2>2, ReviewedRows
  <2>. QED
    BY <2>1, <2>2, <2>3
<1>7. /\ drafts' \in [Templates -> Seq(DraftRow)] /\ drafts'[m] = b
      /\ \A t \in Templates : t # m => drafts'[t] = drafts[t]
  BY <1>1, <1>2, <1>5, <1>6
<1>8. FieldsMove
  <2>1. CASE fields' = fields
    BY <1>2, <2>1, FieldsStay
  <2>2. CASE fields["coined"] = NoField /\ fields' = [fields EXCEPT !["coined"] = CreatedField({})]
    <3>1. PICK row : row = CreatedField({})
      OBVIOUS
    <3>2. row \in FieldRow /\ row.published = 1 /\ Len(row.versions) = 1
      <4>1. PICK empty : empty = NoField /\ Len(empty.versions) = 0
        BY NothingThere
      <4>2. row = WithVersion(empty, {}) /\ empty \in FieldRow /\ {} \in SUBSET Variants
        BY <3>1, <4>1, NothingThere DEF CreatedField
      <4>3. /\ row \in FieldRow /\ row.published = Len(empty.versions) + 1
            /\ Len(row.versions) = Len(empty.versions) + 1
        BY <4>2, VersionAdded
      <4>. QED
        BY <4>1, <4>3
    <3>3. /\ fields'["coined"] = row /\ fields'["known"] = fields["known"]
          /\ fields' \in [Kinds -> FieldRow] /\ Kinds = {"known", "coined"}
      BY <1>1, <2>2, <3>1, <3>2 DEF Kinds
    <3>4. StillThere(fields["known"], fields["known"])
      BY <1>1, <3>3, FieldFacts DEF StillThere
    <3>5. StillThere(NoField, row)
      BY <3>2, NothingThere DEF StillThere
    <3>6. publishing' \in {0} \cup DOMAIN fields'["known"].versions
      BY <1>2, <3>3 DEF GovernanceInv, GovernanceTypeOK
    <3>7. \A n \in Nat : Undisturbed(n) => Undisturbed(n)'
      BY <1>2, <3>3 DEF Undisturbed
    <3>. QED
      BY <2>2, <3>2, <3>3, <3>4, <3>5, <3>6, <3>7 DEF FieldsMove
  <2>3. \/ fields' = fields
        \/ fields["coined"] = NoField /\ fields' = [fields EXCEPT !["coined"] = CreatedField({})]
    BY DEF RecognizeTemplateDiff
  <2>. QED
    BY <2>1, <2>2, <2>3
<1>9. cases[p].resolution = {} /\ cases[p].status = "none"
  BY <1>2 DEF NoCase
<1>10. Resolved' = Resolved
  BY <1>3, <1>4, <1>9 DEF Resolved
<1>11. ASSUME NEW q \in Proposals
       PROVE  CaseFits(q)'
  <2>1. TemplateOf(q) \in Templates /\ CaseFits(q)
    BY TemplateNames DEF GovernanceInv
  <2>2. Confirmed(drafts'[TemplateOf(q)], q) = Confirmed(drafts[TemplateOf(q)], q)
    BY <1>6, <1>7, <2>1
  <2>3. CASE q = p
    <3>1. Confirmed(drafts[TemplateOf(p)], p) = {}
      BY <1>9, <2>1, <2>3 DEF CaseFits
    <3>. QED
      BY <1>3, <1>4, <2>2, <2>3, <3>1 DEF CaseFits
  <2>4. CASE q # p
    <3>1. Reviewed(drafts'[TemplateOf(q)], q) = Reviewed(drafts[TemplateOf(q)], q)
      BY <1>6, <1>7, <2>1, <2>4
    <3>. QED
      BY <1>2, <1>4, <2>1, <2>2, <2>4, <3>1 DEF CaseFits
  <2>. QED
    BY <2>3, <2>4
<1>12. PendingFits'
  <2>. SUFFICES ASSUME pending # NoRequestYet PROVE PendingFits'
    BY <1>2 DEF PendingFits
  <2>. PICK w : w = pending
    OBVIOUS
  <2>1. /\ w.kind \in {"accept", "reject"} /\ w.p \in Proposals
        /\ cases[w.p].status # "none" /\ (w.p \notin raced => cases[w.p].status = "pending")
    BY DEF GovernanceInv, PendingFits
  <2>2. /\ cases'[w.p].status # "none"
        /\ w.p \notin raced' => cases'[w.p].status = "pending"
    BY <1>2, <1>3, <1>4, <2>1
  <2>3. \A t \in Templates : /\ Len(drafts[t]) <= Len(drafts'[t])
                             /\ Len(drafts[t]) = Len(drafts'[t]) => drafts'[t] = drafts[t]
    <3>1. \A t \in Templates : Len(drafts[t]) \in Nat
      BY <1>1, DraftRows
    <3>. QED
      BY <1>5, <1>6, <1>7, <3>1
  <2>. QED
    BY <1>2, <1>7, <1>8, <2>2, <2>3, StillPendingFits
<1>13. regions' \in 0..Cardinality(Proposals) /\ regions' = Cardinality(Resolved')
  BY <1>2, <1>10 DEF GovernanceInv, GovernanceTypeOK
<1>14. raced' \subseteq Proposals /\ pending'.kind \in {"none", "accept", "reject"}
  BY <1>2 DEF GovernanceInv, GovernanceTypeOK
<1>. QED
  BY <1>4, <1>7, <1>8, <1>11, <1>12, <1>13, <1>14, GovernanceKept

(* A rejection of a proposal, at once or late.                                *)
LEMMA RejectKeeps ==
  ASSUME GovernanceInv, NEW p \in Proposals, cases' = [cases EXCEPT ![p].status = "rejected"],
         raced \subseteq raced', raced' \subseteq Proposals,
         cases[p].status # "none", cases[p].status = "pending" \/ p \in raced',
         fields' = fields, drafts' = drafts, regions' = regions, publishing' = publishing,
         \/ pending' = NoRequestYet
         \/ pending' = pending /\ (pending # NoRequestYet /\ pending.p = p => p \in raced')
  PROVE  GovernanceInv'
<1>1. cases \in [Proposals -> CaseRow]
  BY DEF GovernanceInv, GovernanceTypeOK
<1>. PICK case : case = [cases[p] EXCEPT !.status = "rejected"]
  OBVIOUS
<1>2. /\ case \in CaseRow /\ case.status = "rejected" /\ case.resolution = cases[p].resolution
      /\ case.plan = cases[p].plan
  <2>1. cases[p] \in CaseRow
    BY <1>1
  <2>. QED
    BY <2>1 DEF CaseRow
<1>3. /\ cases' \in [Proposals -> CaseRow] /\ cases'[p] = case
      /\ \A q \in Proposals : q # p => cases'[q] = cases[q]
  BY <1>1, <1>2
<1>4. Resolved' = Resolved
  BY <1>2, <1>3 DEF Resolved
<1>5. ASSUME NEW q \in Proposals
      PROVE  CaseFits(q)'
  <2>1. CaseFits(q)
    BY DEF GovernanceInv
  <2>2. CASE q = p
    <3>1. p \notin raced' => cases[p].resolution = {}
      BY <2>1, <2>2 DEF CaseFits
    <3>2. cases'[q] = case
      BY <1>3, <2>2
    <3>3. CASE cases[p].resolution = {}
      BY <1>2, <2>1, <2>2, <3>2, <3>3 DEF CaseFits
    <3>4. CASE cases[p].resolution # {}
      BY <1>2, <2>1, <2>2, <3>1, <3>2, <3>4 DEF CaseFits
    <3>. QED
      BY <3>3, <3>4
  <2>3. CASE q # p
    BY <1>3, <2>1, <2>3 DEF CaseFits
  <2>. QED
    BY <2>2, <2>3
<1>6. FieldsMove
  BY FieldsStay
<1>7. /\ drafts' \in [Templates -> Seq(DraftRow)] /\ regions' \in 0..Cardinality(Proposals)
      /\ \A t \in Templates : drafts'[t] \in Seq(DraftRow) /\ Len(drafts'[t]) \in Nat
  <2>1. drafts' \in [Templates -> Seq(DraftRow)] /\ regions' \in 0..Cardinality(Proposals)
    BY DEF GovernanceInv, GovernanceTypeOK, Templates
  <2>. QED
    BY <2>1, DraftRows
<1>8. PendingFits'
  <2>1. CASE pending' = NoRequestYet
    BY <2>1 DEF PendingFits
  <2>2. CASE pending' = pending /\ pending # NoRequestYet
                                /\ (pending.p = p => p \in raced')
    <3>1. /\ cases'[pending.p].status # "none"
          /\ pending.p \notin raced' => cases'[pending.p].status = "pending"
      BY <1>2, <1>3, <2>2 DEF GovernanceInv, PendingFits
    <3>2. \A t \in Templates : /\ Len(drafts[t]) <= Len(drafts'[t])
                               /\ Len(drafts[t]) = Len(drafts'[t]) => drafts'[t] = drafts[t]
      BY <1>7
    <3>. QED
      BY <1>6, <1>7, <2>2, <3>1, <3>2, StillPendingFits
  <2>. QED
    BY <2>1, <2>2
<1>9. pending'.kind \in {"none", "accept", "reject"} /\ regions' = Cardinality(Resolved')
  BY <1>4 DEF GovernanceInv, GovernanceTypeOK, NoRequestYet
<1>. QED
  BY <1>3, <1>5, <1>6, <1>7, <1>8, <1>9, GovernanceKept

(* A step that leaves the proposals and their drafts alone.                     *)
LEMMA RestKeeps ==
  ASSUME GovernanceInv, FieldsMove, UNCHANGED <<drafts, regions, cases, raced>>,
         pending'.kind \in {"none", "accept", "reject"}, PendingFits'
  PROVE  GovernanceInv'
<1>1. Resolved' = Resolved
  BY DEF Resolved
<1>2. \A q \in Proposals : CaseFits(q)'
  BY DEF CaseFits, GovernanceInv
<1>3. /\ drafts' \in [Templates -> Seq(DraftRow)] /\ cases' \in [Proposals -> CaseRow]
      /\ raced' \subseteq Proposals /\ regions' \in 0..Cardinality(Proposals)
      /\ regions' = Cardinality(Resolved')
  BY <1>1 DEF GovernanceInv, GovernanceTypeOK, Templates
<1>. QED
  BY <1>2, <1>3, GovernanceKept

LEMMA FieldsKeep ==
  ASSUME GovernanceInv, FieldsMove, UNCHANGED <<drafts, regions, cases, pending, raced>>
  PROVE  GovernanceInv'
<1>1. drafts' \in [Templates -> Seq(DraftRow)]
  BY DEF GovernanceInv, GovernanceTypeOK, Templates
<1>2. \A t \in Templates : /\ Len(drafts[t]) <= Len(drafts'[t])
                           /\ Len(drafts[t]) = Len(drafts'[t]) => drafts'[t] = drafts[t]
  <2>1. \A t \in Templates : Len(drafts'[t]) \in Nat
    BY <1>1, DraftRows
  <2>. QED
    BY <2>1
<1>3. PendingFits'
  <2>1. CASE pending = NoRequestYet
    BY <2>1 DEF PendingFits
  <2>2. CASE pending # NoRequestYet
    <3>1. /\ cases'[pending.p].status # "none"
          /\ pending.p \notin raced' => cases'[pending.p].status = "pending"
      BY <2>2 DEF GovernanceInv, PendingFits
    <3>. QED
      BY <1>1, <1>2, <2>2, <3>1, StillPendingFits
  <2>. QED
    BY <2>1, <2>2
<1>4. pending'.kind \in {"none", "accept", "reject"}
  BY DEF GovernanceInv, GovernanceTypeOK
<1>. QED
  BY <1>3, <1>4, RestKeeps

(* A slow request reads, step by step.                                         *)
LEMMA StartAcceptKeeps ==
  ASSUME GovernanceInv, NEW p \in Proposals, StartSlowAccept(p)
  PROVE  GovernanceInv'
<1>1. /\ UNCHANGED <<fields, drafts, regions, cases, publishing, raced>>
      /\ cases[p].status = "pending" /\ cases[p].resolution = {}
  BY CatalogueView DEF StartSlowAccept, StillPending
<1>2. PICK w : w = [kind |-> "accept", step |-> "versions", p |-> p, row |-> cases[p],
                    published |-> fields["known"].published,
                    whole |-> AtNewest(fields["known"]) /\ publishing = 0]
  OBVIOUS
<1>3. /\ pending' = w /\ w.kind = "accept" /\ w.step = "versions" /\ w.p = p /\ w.row = cases[p]
      /\ w.published = fields["known"].published
      /\ w.whole <=> AtNewest(fields["known"]) /\ publishing = 0
  BY <1>2 DEF StartSlowAccept
<1>4. fields["known"] \in FieldRow /\ cases[p] \in CaseRow
  BY DEF GovernanceInv, GovernanceTypeOK, Kinds
<1>5. w.published \in Nat /\ w.published <= Len(fields["known"].versions)
  BY <1>3, <1>4, FieldFacts
<1>6. w.whole => Undisturbed(w.published)
  BY <1>3, <1>5 DEF Undisturbed
<1>7. ReadFits(w)'
  BY <1>1, <1>3, <1>4, <1>5, <1>6 DEF ReadFits, OpenCase, Undisturbed
<1>8. PendingFits'
  BY <1>1, <1>3, <1>7 DEF PendingFits, ReadFits
<1>. QED
  BY <1>1, <1>3, <1>8, FieldsStay, RestKeeps

LEMMA LoadFieldKeeps ==
  ASSUME GovernanceInv, LoadFieldVersions
  PROVE  GovernanceInv'
<1>1. UNCHANGED <<fields, drafts, regions, cases, publishing, raced>>
  BY DEF LoadFieldVersions
<1>2. PICK v : v = pending
  OBVIOUS
<1>3. /\ v.kind = "accept" /\ v.step = "versions" /\ v # NoRequestYet
  BY <1>2 DEF LoadFieldVersions, NoRequestYet
<1>4. /\ v.p \in Proposals /\ cases[v.p].status # "none"
      /\ v.p \notin raced => cases[v.p].status = "pending"
      /\ OpenCase(v.row) /\ v.published \in Nat /\ v.published <= Len(fields["known"].versions)
      /\ v.whole => Undisturbed(v.published)
  BY <1>2, <1>3 DEF GovernanceInv, PendingFits, ReadFits
<1>5. PICK seen : seen = [fields EXCEPT !["known"].published = v.published]
  OBVIOUS
<1>6. PICK w : w = [kind |-> "accept", step |-> "drafts", p |-> v.p, row |-> v.row,
                    whole |-> v.whole, seen |-> seen]
  OBVIOUS
<1>7. /\ pending' = w /\ w.kind = "accept" /\ w.step = "drafts" /\ w.p = v.p /\ w.row = v.row
      /\ w.whole = v.whole /\ w.seen = seen
  BY <1>2, <1>5, <1>6 DEF LoadFieldVersions
<1>8. fields \in [Kinds -> FieldRow] /\ Kinds = {"known", "coined"}
      /\ fields["coined"].published = Len(fields["coined"].versions)
  BY DEF GovernanceInv, Kinds
<1>9. PICK row : row = [fields["known"] EXCEPT !.published = v.published]
  OBVIOUS
<1>10. row \in FieldRow /\ row.published = v.published /\ row.versions = fields["known"].versions
  <2>1. fields["known"] \in FieldRow
    BY <1>8
  <2>. QED
    BY <1>4, <1>9, <2>1 DEF FieldRow
<1>11. /\ seen \in [Kinds -> FieldRow] /\ seen["known"] = row /\ seen["coined"] = fields["coined"]
  BY <1>5, <1>8, <1>9, <1>10
<1>12. \A f \in Kinds : StillThere(seen[f], fields[f])
  <2>1. \A f \in Kinds : seen[f].versions = fields[f].versions /\ Len(fields[f].versions) \in Nat
    BY <1>8, <1>10, <1>11, FieldFacts
  <2>. QED
    BY <2>1 DEF StillThere
<1>13. ReadFits(w)'
  BY <1>1, <1>4, <1>7, <1>8, <1>10, <1>11, <1>12 DEF ReadFits, Undisturbed
<1>14. PendingFits'
  BY <1>1, <1>4, <1>7, <1>13 DEF PendingFits, ReadFits
<1>. QED
  BY <1>1, <1>7, <1>14, FieldsStay, RestKeeps

LEMMA LoadDraftsKeeps ==
  ASSUME GovernanceInv, LoadDrafts
  PROVE  GovernanceInv'
<1>1. UNCHANGED <<fields, drafts, regions, cases, publishing, raced>>
  BY DEF LoadDrafts
<1>2. PICK v : v = pending
  OBVIOUS
<1>3. v.kind = "accept" /\ v.step = "drafts" /\ v # NoRequestYet
  BY <1>2 DEF LoadDrafts, NoRequestYet
<1>4. /\ v.p \in Proposals /\ cases[v.p].status # "none"
      /\ v.p \notin raced => cases[v.p].status = "pending"
      /\ OpenCase(v.row) /\ v.seen \in [Kinds -> FieldRow]
      /\ \A f \in Kinds : StillThere(v.seen[f], fields[f])
      /\ v.seen["coined"].published = Len(v.seen["coined"].versions)
      /\ v.whole => Undisturbed(v.seen["known"].published)
  BY <1>2, <1>3 DEF GovernanceInv, PendingFits, ReadFits
<1>5. PICK rows : rows = [t \in DOMAIN drafts |-> IF t = TemplateOf(v.p) THEN drafts[t] ELSE <<>>]
  OBVIOUS
<1>6. PICK others : others = [q \in Proposals |-> IF q = v.p THEN v.row ELSE NoCase]
  OBVIOUS
<1>7. PICK view : view = [fields |-> v.seen, regions |-> regions, drafts |-> rows, cases |-> others]
  OBVIOUS
<1>8. PICK w : w = [kind |-> "accept", step |-> "write", p |-> v.p, whole |-> v.whole,
                    view |-> view]
  OBVIOUS
<1>9. /\ pending' = w /\ w.kind = "accept" /\ w.step = "write" /\ w.p = v.p
      /\ w.whole = v.whole /\ w.view = view
  BY <1>2, <1>5, <1>6, <1>7, <1>8 DEF LoadDrafts
<1>10. /\ drafts \in [Templates -> Seq(DraftRow)] /\ regions \in Nat
  BY CatalogueView DEF GovernanceInv, GovernanceTypeOK, Templates
<1>11. rows \in [Templates -> Seq(DraftRow)]
  BY <1>5, <1>10
<1>12. others \in [Proposals -> CaseRow] /\ others[v.p] = v.row
  <2>1. NoCase \in CaseRow /\ v.row \in CaseRow
    BY <1>4 DEF NoCase, CaseRow, OpenCase
  <2>. QED
    BY <1>4, <1>6, <2>1
<1>13. view \in View /\ view.fields = v.seen /\ view.drafts = rows /\ view.cases[v.p] = v.row
  BY <1>4, <1>7, <1>10, <1>11, <1>12 DEF View
<1>14. ASSUME NEW t \in Templates
       PROVE  Len(rows[t]) <= Len(drafts[t]) /\ (Len(rows[t]) = Len(drafts[t]) => rows[t] = drafts[t])
  <2>1. drafts[t] \in Seq(DraftRow) /\ Len(drafts[t]) \in Nat
    BY <1>10
  <2>2. rows[t] = drafts[t] \/ rows[t] = <<>>
    BY <1>5, <1>10
  <2>. QED
    BY <2>1, <2>2
<1>15. ReadFits(w)'
  BY <1>1, <1>4, <1>9, <1>13, <1>14 DEF ReadFits, Undisturbed
<1>16. PendingFits'
  BY <1>1, <1>4, <1>9, <1>15 DEF PendingFits, ReadFits
<1>. QED
  BY <1>1, <1>9, <1>16, FieldsStay, RestKeeps

LEMMA StartRejectKeeps ==
  ASSUME GovernanceInv, NEW p \in Proposals, StartSlowReject(p)
  PROVE  GovernanceInv'
<1>1. PICK w : w = [kind |-> "reject", p |-> p]
  OBVIOUS
<1>2. w.kind = "reject" /\ w.p = p /\ pending' = w /\ cases[p].status = "pending"
  BY <1>1 DEF StartSlowReject
<1>3. UNCHANGED <<fields, drafts, regions, cases, publishing, raced>>
  BY DEF StartSlowReject
<1>4. PendingFits'
  BY <1>2, <1>3 DEF PendingFits
<1>. QED
  BY <1>2, <1>3, <1>4, FieldsStay, RestKeeps

(* Editors add and publish versions of the field.                               *)
LEMMA CreateVersionMoves ==
  ASSUME GovernanceInv, CreateKnownVersion
  PROVE  FieldsMove
<1>1. PICK names \in DraftVariants :
        fields' = [fields EXCEPT !["known"].versions = Append(@, [draft |-> TRUE, variants |-> names])]
  BY DEF CreateKnownVersion
<1>2. /\ fields \in [Kinds -> FieldRow] /\ Kinds = {"known", "coined"} /\ publishing' = publishing
      /\ publishing \in {0} \cup DOMAIN fields["known"].versions
      /\ fields["coined"].published = Len(fields["coined"].versions)
  BY DEF GovernanceInv, GovernanceTypeOK, Kinds, CreateKnownVersion
<1>3. PICK old : old = fields["known"]
  OBVIOUS
<1>4. /\ old \in FieldRow /\ old.versions \in Seq(VersionOfField) /\ Len(old.versions) \in Nat
      /\ old.published \in Nat /\ old.published <= Len(old.versions)
      /\ DOMAIN old.versions = 1..Len(old.versions)
  BY <1>2, <1>3, FieldFacts
<1>5. PICK version : version = [draft |-> TRUE, variants |-> names]
  OBVIOUS
<1>6. version \in VersionOfField
  BY <1>5, GovernanceBounds, VersionMade
<1>7. PICK vs : vs = Append(old.versions, version)
  OBVIOUS
<1>8. /\ vs \in Seq(VersionOfField) /\ Len(vs) = Len(old.versions) + 1
      /\ \A n \in 1..Len(old.versions) : vs[n] = old.versions[n]
      /\ DOMAIN vs = 1..(Len(old.versions) + 1)
  BY <1>4, <1>6, <1>7
<1>9. PICK row : row = [old EXCEPT !.versions = vs]
  OBVIOUS
<1>10. row \in FieldRow /\ row.versions = vs
  <2>1. old.published <= Len(vs)
    BY <1>4, <1>8
  <2>2. row = [published |-> old.published, versions |-> vs]
    BY <1>4, <1>9 DEF FieldRow
  <2>. QED
    BY <1>4, <1>8, <2>1, <2>2, FieldMade
<1>11. fields' = [fields EXCEPT !["known"] = row]
  BY <1>1, <1>2, <1>3, <1>5, <1>7, <1>9
<1>12. /\ fields' \in [Kinds -> FieldRow] /\ fields'["known"] = row
       /\ fields'["coined"] = fields["coined"]
  BY <1>2, <1>10, <1>11
<1>13. StillThere(old, row) /\ StillThere(fields["coined"], fields["coined"])
  <2>1. Len(fields["coined"].versions) \in Nat
    BY <1>2, FieldFacts
  <2>. QED
    BY <1>4, <1>8, <1>10, <2>1 DEF StillThere
<1>14. publishing' \in {0} \cup DOMAIN fields'["known"].versions
  BY <1>2, <1>3, <1>4, <1>8, <1>10, <1>12
<1>15. \A n \in Nat : Undisturbed(n) => Undisturbed(n)'
  BY <1>3, <1>4, <1>8, <1>10, <1>12 DEF Undisturbed
<1>. QED
  BY <1>2, <1>3, <1>12, <1>13, <1>14, <1>15 DEF FieldsMove

(* A publication changes no variants; nobody whose claim still holds is        *)
(* disturbed by it, for there was a draft.                                     *)
LEMMA PublishMoves ==
  ASSUME GovernanceInv, NEW number \in DOMAIN fields["known"].versions, PublishField(number),
         publishing' \in {0, publishing},
         number \in FieldDrafts(fields["known"]) \/ publishing # 0
  PROVE  FieldsMove
<1>2. /\ fields \in [Kinds -> FieldRow] /\ Kinds = {"known", "coined"}
      /\ publishing \in {0} \cup DOMAIN fields["known"].versions
      /\ fields["coined"].published = Len(fields["coined"].versions)
  BY DEF GovernanceInv, GovernanceTypeOK, Kinds
<1>3. PICK old : old = fields["known"]
  OBVIOUS
<1>4. /\ old \in FieldRow /\ old.versions \in Seq(VersionOfField) /\ Len(old.versions) \in Nat
      /\ DOMAIN old.versions = 1..Len(old.versions)
      /\ \A n \in 1..Len(old.versions) : old.versions[n] \in VersionOfField
      /\ number \in 1..Len(old.versions)
  BY <1>2, <1>3, FieldFacts
<1>5. PICK version : version = [old.versions[number] EXCEPT !.draft = FALSE]
  OBVIOUS
<1>6. version \in VersionOfField /\ version.variants = old.versions[number].variants
  <2>1. old.versions[number] \in VersionOfField
    BY <1>4
  <2>. QED
    BY <1>5, <2>1 DEF VersionOfField
<1>7. PICK vs : vs = [old.versions EXCEPT ![number] = version]
  OBVIOUS
<1>8. /\ vs \in Seq(VersionOfField) /\ Len(vs) = Len(old.versions)
      /\ DOMAIN vs = DOMAIN old.versions
      /\ \A n \in 1..Len(old.versions) : vs[n].variants = old.versions[n].variants
  BY <1>4, <1>6, <1>7
<1>9. PICK row : row = [published |-> number, versions |-> vs]
  OBVIOUS
<1>10. row \in FieldRow /\ row.versions = vs
  <2>1. number \in Nat /\ number <= Len(vs)
    BY <1>4, <1>8
  <2>. QED
    BY <1>8, <1>9, <2>1, FieldMade
<1>11. fields' = [fields EXCEPT !["known"] = row]
  <2>1. fields' = [fields EXCEPT !["known"] = [[old EXCEPT !.versions = vs] EXCEPT !.published = number]]
    BY <1>2, <1>3, <1>5, <1>7 DEF PublishField
  <2>2. [[old EXCEPT !.versions = vs] EXCEPT !.published = number] = row
    <3>1. PICK n : n = old.published
      OBVIOUS
    <3>2. old = [published |-> n, versions |-> old.versions]
      BY <1>4, <3>1 DEF FieldRow
    <3>3. [old EXCEPT !.versions = vs] = [published |-> n, versions |-> vs]
      BY <3>2
    <3>4. [[published |-> n, versions |-> vs] EXCEPT !.published = number]
            = [published |-> number, versions |-> vs]
      OBVIOUS
    <3>. QED
      BY <1>9, <3>3, <3>4
  <2>. QED
    BY <2>1, <2>2
<1>12. /\ fields' \in [Kinds -> FieldRow] /\ fields'["known"] = row
       /\ fields'["coined"] = fields["coined"]
  BY <1>2, <1>10, <1>11
<1>13. StillThere(old, row) /\ StillThere(fields["coined"], fields["coined"])
  <2>1. Len(fields["coined"].versions) \in Nat
    BY <1>2, FieldFacts
  <2>. QED
    BY <1>4, <1>8, <1>10, <2>1 DEF StillThere
<1>14. publishing' \in {0} \cup DOMAIN fields'["known"].versions
  BY <1>2, <1>3, <1>8, <1>10, <1>12
<1>15. \A n \in Nat : Undisturbed(n) => Undisturbed(n)'
  BY <1>3, <1>4, <1>8, <1>10, <1>12 DEF Undisturbed, AtNewest
<1>. QED
  BY <1>2, <1>3, <1>12, <1>13, <1>14, <1>15 DEF FieldsMove

LEMMA StartPublishMoves ==
  ASSUME GovernanceInv, StartSlowPublish
  PROVE  FieldsMove
<1>1. /\ fields' = fields /\ publishing' \in FieldDrafts(fields["known"])
      /\ fields \in [Kinds -> FieldRow]
      /\ fields["coined"].published = Len(fields["coined"].versions)
  BY DEF StartSlowPublish, GovernanceInv
<1>2. publishing' \in DOMAIN fields'["known"].versions
  BY <1>1 DEF FieldDrafts
<1>3. \A f \in Kinds : StillThere(fields[f], fields'[f])
  BY <1>1, FieldFacts DEF StillThere
<1>4. \A n \in Nat : Undisturbed(n) => Undisturbed(n)'
  BY <1>1 DEF Undisturbed, AtNewest
<1>. QED
  BY <1>1, <1>2, <1>3, <1>4 DEF FieldsMove

LEMMA PublicationDropped ==
  ASSUME GovernanceInv, fields' = fields, publishing' = 0
  PROVE  FieldsMove
<1>1. /\ fields \in [Kinds -> FieldRow]
      /\ fields["coined"].published = Len(fields["coined"].versions)
  BY DEF GovernanceInv
<1>2. \A f \in Kinds : StillThere(fields[f], fields'[f])
  BY <1>1, FieldFacts DEF StillThere
<1>3. \A n \in Nat : Undisturbed(n) => Undisturbed(n)'
  BY DEF Undisturbed
<1>. QED
  BY <1>1, <1>2, <1>3 DEF FieldsMove

(* The decisions, at once or late.                                            *)
LEMMA AcceptAccepts ==
  ASSUME GovernanceInv, NEW p \in Proposals, AcceptItemProposal(p)
  PROVE  Accepting(p) /\ LearnsFrom(catalogue)
<1>. PICK view : view = catalogue
  OBVIOUS
<1>1. /\ view \in View /\ view.fields = fields /\ view.drafts = drafts
      /\ view.regions = regions /\ view.cases = cases
  BY CatalogueView
<1>2. OpenCase(view.cases[p])
  BY <1>1 DEF AcceptItemProposal, StillPending, OpenCase, View
<1>3. PICK submission \in SubmissionsOf(view) :
        /\ CommitFieldGovernance(view, submission).ok
        /\ Write(view, Accepted(view, p, submission))
  BY DEF AcceptItemProposal
<1>4. submission \in Decisions \X Decisions
  BY DEF SubmissionsOf
<1>. PICK after : after = Accepted(view, p, submission)
  OBVIOUS
<1>5. Write(view, after)
  BY <1>3
<1>. QED
  BY <1>1, <1>2, <1>3, <1>4, <1>5, WriteAccepts

LEMMA FinishAccepts ==
  ASSUME GovernanceInv, FinishSlowAccept
  PROVE  /\ pending.p \in Proposals /\ Accepting(pending.p) /\ LearnsFrom(pending.view)
         /\ pending # NoRequestYet /\ pending.kind = "accept" /\ pending.step = "write"
<1>. PICK w : w = pending
  OBVIOUS
<1>1. w.kind = "accept" /\ w.step = "write"
  BY DEF FinishSlowAccept
<1>2. pending # NoRequestYet
  BY <1>1 DEF NoRequestYet
<1>3. /\ w.p \in Proposals /\ w.view \in View /\ OpenCase(w.view.cases[w.p])
      /\ \A t \in Templates : Len(w.view.drafts[t]) = Len(drafts[t]) =>
                                w.view.drafts[t] = drafts[t]
  BY <1>1, <1>2 DEF GovernanceInv, PendingFits, ReadFits
<1>4. PICK submission \in SubmissionsOf(w.view) :
        /\ CommitFieldGovernance(w.view, submission).ok
        /\ Write(w.view, Accepted(w.view, w.p, submission))
  BY DEF FinishSlowAccept
<1>. PICK view, p, after : view = w.view /\ p = w.p /\ after = Accepted(view, p, submission)
  OBVIOUS
<1>5. /\ p \in Proposals /\ view \in View /\ OpenCase(view.cases[p])
      /\ \A t \in Templates : Len(view.drafts[t]) = Len(drafts[t]) => view.drafts[t] = drafts[t]
      /\ submission \in Decisions \X Decisions
      /\ CommitFieldGovernance(view, submission).ok /\ Write(view, after)
  BY <1>3, <1>4 DEF SubmissionsOf
<1>6. Accepting(p) /\ LearnsFrom(view)
  BY <1>5, WriteAccepts
<1>. QED
  BY <1>1, <1>2, <1>5, <1>6

LEMMA RacedWith ==
  ASSUME GovernanceInv, NEW p \in Proposals, Raced(p), UNCHANGED <<pending, publishing>>
  PROVE  /\ raced \subseteq raced' /\ raced' \subseteq Proposals
         /\ pending' = pending /\ (pending # NoRequestYet /\ pending.p = p => p \in raced')
<1>1. pending # NoRequestYet => pending.kind \in {"accept", "reject"}
  BY DEF GovernanceInv, PendingFits
<1>. QED
  BY <1>1 DEF Raced, GovernanceInv, GovernanceTypeOK

LEMMA GovernanceStarts == GovernanceInit => GovernanceInv
<1>. SUFFICES ASSUME GovernanceInit PROVE GovernanceInv
  OBVIOUS
<1>1. PICK known, base : /\ known = [published |-> 1, versions |-> <<InForce({})>>]
                         /\ base = <<[status |-> "published", of |-> "base"]>>
  OBVIOUS
<1>2. known \in FieldRow /\ NoField \in FieldRow /\ NoField.published = Len(NoField.versions)
  <2>1. PICK version : version = InForce({})
    OBVIOUS
  <2>2. version \in VersionOfField
    BY <2>1, VersionMade DEF InForce
  <2>3. <<version>> \in Seq(VersionOfField) /\ Len(<<version>>) = 1
    BY <2>2
  <2>4. PICK vs : vs = <<version>>
    OBVIOUS
  <2>5. vs \in Seq(VersionOfField) /\ 1 <= Len(vs) /\ 1 \in Nat
        /\ known = [published |-> 1, versions |-> vs]
    BY <1>1, <2>1, <2>3, <2>4
  <2>6. known \in FieldRow
    BY <2>5, FieldMade
  <2>. QED
    BY <2>6, NothingThere
<1>3. /\ fields \in [Kinds -> FieldRow] /\ fields["coined"] = NoField
      /\ fields["coined"].published = Len(fields["coined"].versions)
  <2>1. fields = [f \in Kinds |-> IF f = "known" THEN known ELSE NoField]
    BY <1>1 DEF GovernanceInit
  <2>. QED
    BY <1>2, <2>1 DEF Kinds
<1>4. base \in Seq(DraftRow) /\ \A v \in DOMAIN base : base[v].status = "published"
  BY <1>1 DEF DraftRow
<1>5. drafts = [t \in Templates |-> IF t = "base" THEN base ELSE <<>>]
  BY <1>1 DEF GovernanceInit, Templates
<1>6. drafts \in [Templates -> Seq(DraftRow)]
  BY <1>4, <1>5
<1>7. cases \in [Proposals -> CaseRow] /\ \A p \in Proposals : cases[p] = NoCase
  BY DEF GovernanceInit, NoCase, CaseRow
<1>8. /\ regions = 0 /\ pending = NoRequestYet /\ raced = {} /\ pending.kind = "none"
      /\ publishing = 0
  BY DEF GovernanceInit, NoRequestYet
<1>9. Resolved = {} /\ Cardinality(Resolved) = 0
  <2>1. Resolved = {}
    BY <1>7 DEF Resolved, NoCase
  <2>. QED
    BY <2>1, FS_EmptySet
<1>10. ASSUME NEW p \in Proposals
       PROVE  CaseFits(p)
  <2>1. \A v \in DOMAIN drafts[TemplateOf(p)] : drafts[TemplateOf(p)][v].status = "published"
    <3>1. drafts[TemplateOf(p)] = base \/ drafts[TemplateOf(p)] = <<>>
      BY <1>5, TemplateNames
    <3>. QED
      BY <1>4, <3>1
  <2>2. Confirmed(drafts[TemplateOf(p)], p) = {}
    <3>1. \A x : x = [status |-> "user_confirmed", of |-> p] => x.status # "published"
      OBVIOUS
    <3>. QED
      BY <2>1, <3>1 DEF Confirmed
  <2>. QED
    BY <1>7, <2>2 DEF CaseFits, NoCase
<1>11. GovernanceTypeOK
  <2>1. 0 \in 0..Cardinality(Proposals)
    BY GovernanceBounds, FS_CardinalityType
  <2>2. \A f \in Kinds : /\ fields[f].versions \in Seq(VersionOfField)
                          /\ fields[f].published \in 0..Len(fields[f].versions)
    <3>. SUFFICES ASSUME NEW f \in Kinds
                  PROVE  /\ fields[f].versions \in Seq(VersionOfField)
                         /\ fields[f].published \in 0..Len(fields[f].versions)
      OBVIOUS
    <3>1. /\ fields[f].published \in Nat /\ fields[f].versions \in Seq(VersionOfField)
          /\ Len(fields[f].versions) \in Nat /\ fields[f].published <= Len(fields[f].versions)
      BY <1>3, FieldFacts
    <3>. QED
      BY <3>1
  <2>3. DOMAIN fields = Kinds
    BY <1>3
  <2>. QED
    BY <1>6, <1>7, <1>8, <2>1, <2>2, <2>3 DEF GovernanceTypeOK, Templates
<1>. QED
  BY <1>3, <1>8, <1>9, <1>10, <1>11 DEF GovernanceInv, PendingFits

LEMMA GovernanceSteps == GovernanceInv /\ [GovernanceNext]_governanceVars => GovernanceInv'
<1>. SUFFICES ASSUME GovernanceInv, [GovernanceNext]_governanceVars PROVE GovernanceInv'
  OBVIOUS
<1>1. CASE UNCHANGED governanceVars
  <2>1. UNCHANGED <<fields, drafts, regions, cases, pending, publishing, raced>>
    BY <1>1 DEF governanceVars
  <2>. QED
    BY <2>1, FieldsStay, FieldsKeep
<1>2. ASSUME NEW p \in Proposals, AcceptItemProposal(p)
      PROVE  GovernanceInv'
  <2>1. Raced(p) /\ UNCHANGED <<pending, publishing>>
    BY <1>2 DEF AcceptItemProposal
  <2>2. Accepting(p)
    BY <1>2, AcceptAccepts
  <2>3. /\ raced \subseteq raced' /\ raced' \subseteq Proposals /\ pending' = pending
        /\ (pending # NoRequestYet /\ pending.p = p => p \in raced')
    BY <2>1, RacedWith
  <2>. QED
    BY <2>1, <2>2, <2>3, AcceptingKeeps
<1>3. ASSUME NEW p \in Proposals, RejectItemProposal(p)
      PROVE  GovernanceInv'
  <2>1. Raced(p) /\ UNCHANGED <<pending, publishing>>
    BY <1>3 DEF RejectItemProposal
  <2>2. /\ raced \subseteq raced' /\ raced' \subseteq Proposals /\ pending' = pending
        /\ (pending # NoRequestYet /\ pending.p = p => p \in raced')
    BY <2>1, RacedWith
  <2>3. /\ cases' = [cases EXCEPT ![p].status = "rejected"] /\ cases[p].status = "pending"
        /\ cases[p].status # "none" /\ fields' = fields /\ drafts' = drafts
        /\ regions' = regions /\ publishing' = publishing
    BY <1>3 DEF RejectItemProposal
  <2>. QED
    BY <2>2, <2>3, RejectKeeps
<1>4. CASE FinishSlowAccept
  <2>1. /\ pending' = NoRequestYet /\ raced' = raced /\ raced \subseteq Proposals
        /\ publishing' = publishing
    BY <1>4 DEF FinishSlowAccept, GovernanceInv, GovernanceTypeOK
  <2>2. PICK p : p = pending.p
    OBVIOUS
  <2>3. p \in Proposals /\ Accepting(p)
    BY <1>4, <2>2, FinishAccepts
  <2>. QED
    BY <2>1, <2>3, AcceptingKeeps
<1>5. CASE FinishSlowReject
  <2>1. /\ pending' = NoRequestYet /\ raced' = raced /\ raced \subseteq Proposals
        /\ fields' = fields /\ drafts' = drafts /\ regions' = regions
        /\ publishing' = publishing
    BY <1>5 DEF FinishSlowReject, GovernanceInv, GovernanceTypeOK
  <2>2. PICK p : p = pending.p
    OBVIOUS
  <2>3. pending # NoRequestYet
    BY <1>5 DEF FinishSlowReject, NoRequestYet
  <2>4. p \in Proposals /\ cases[p].status # "none" /\ (cases[p].status = "pending" \/ p \in raced')
    BY <2>1, <2>2, <2>3 DEF GovernanceInv, PendingFits
  <2>5. cases' = [cases EXCEPT ![p].status = "rejected"]
    BY <1>5, <2>2 DEF FinishSlowReject
  <2>. QED
    BY <2>1, <2>4, <2>5, RejectKeeps
<1>6. CASE FailSlow
  <2>1. CASE pending' = NoRequestYet /\ UNCHANGED publishing
    <3>1. UNCHANGED <<fields, drafts, regions, cases, publishing, raced>>
      BY <1>6, <2>1 DEF FailSlow
    <3>2. PendingFits' /\ pending'.kind \in {"none", "accept", "reject"}
      BY <2>1 DEF PendingFits, NoRequestYet
    <3>. QED
      BY <3>1, <3>2, FieldsStay, RestKeeps
  <2>2. CASE publishing' = 0 /\ UNCHANGED pending
    <3>1. UNCHANGED <<fields, drafts, regions, cases, pending, raced>>
      BY <1>6, <2>2 DEF FailSlow
    <3>. QED
      BY <2>2, <3>1, PublicationDropped, FieldsKeep
  <2>. QED
    BY <1>6, <2>1, <2>2 DEF FailSlow
<1>7. CASE CreateKnownVersion
  <2>1. UNCHANGED <<drafts, regions, cases, pending, raced>>
    BY <1>7 DEF CreateKnownVersion
  <2>. QED
    BY <1>7, <2>1, CreateVersionMoves, FieldsKeep
<1>8. CASE PublishKnownVersion
  <2>1. UNCHANGED <<drafts, regions, cases, pending, raced>> /\ publishing' = publishing
    BY <1>8 DEF PublishKnownVersion
  <2>2. PICK number \in FieldDrafts(fields["known"]) : PublishField(number)
    BY <1>8 DEF PublishKnownVersion
  <2>3. number \in DOMAIN fields["known"].versions
    BY DEF FieldDrafts
  <2>4. FieldsMove
    BY <2>1, <2>2, <2>3, PublishMoves
  <2>. QED
    BY <2>1, <2>4, FieldsKeep
<1>9. CASE FinishSlowPublish
  <2>1. UNCHANGED <<drafts, regions, cases, pending, raced>>
    BY <1>9 DEF FinishSlowPublish
  <2>2. publishing # 0 /\ publishing' = 0 /\ PublishField(publishing)
    BY <1>9 DEF FinishSlowPublish
  <2>3. PICK number : number = publishing
    OBVIOUS
  <2>4. number \in DOMAIN fields["known"].versions /\ PublishField(number)
    BY <2>2, <2>3 DEF GovernanceInv, GovernanceTypeOK
  <2>5. FieldsMove
    BY <2>2, <2>4, PublishMoves
  <2>. QED
    BY <2>1, <2>5, FieldsKeep
<1>10. CASE StartSlowPublish
  <2>1. UNCHANGED <<drafts, regions, cases, pending, raced>>
    BY <1>10 DEF StartSlowPublish
  <2>. QED
    BY <1>10, <2>1, StartPublishMoves, FieldsKeep
<1>. QED
  BY <1>1, <1>2, <1>3, <1>4, <1>5, <1>6, <1>7, <1>8, <1>9, <1>10, RecognizeKeeps,
     StartAcceptKeeps, LoadFieldKeeps, LoadDraftsKeeps, StartRejectKeeps DEF GovernanceNext

LEMMA GovernanceStaysSound == GovernanceSpec => []GovernanceInv
BY GovernanceStarts, GovernanceSteps, PTL DEF GovernanceSpec

(* Governing keeps its variables in their types: among them, a field is in     *)
(* force with a version it has, what a publication has read is a version that  *)
(* is there, and no more region versions are published than there are          *)
(* proposals (commit_field_governance, accept_item_proposal).                  *)
THEOREM GovernanceTypeCorrect == GovernanceSpec => []GovernanceTypeOK
<1>1. GovernanceInv => GovernanceTypeOK
  BY DEF GovernanceInv
<1>. QED
  BY <1>1, GovernanceStaysSound, PTL

(* Once a proposal is accepted it has one resolution, the plan approved with  *)
(* it, one confirmed version and nothing left under review; one rejected with *)
(* no other decision under way has none of them, whatever other requests      *)
(* read and write between its steps (governance.py, batches.py).              *)
THEOREM ProposalsGovernedOnce == GovernanceSpec => []GovernedOnce
<1>1. GovernanceInv => GovernedOnce
  <2>. SUFFICES ASSUME GovernanceInv, NEW p \in Proposals
                PROVE  /\ cases[p].status = "accepted" =>
                            /\ cases[p].resolution # {} /\ cases[p].plan = "hermes"
                            /\ Cardinality(Confirmed(drafts[TemplateOf(p)], p)) = 1
                            /\ Provisional(catalogue, p) = {}
                       /\ (cases[p].status = "rejected" /\ p \notin raced) =>
                            /\ cases[p].resolution = {}
                            /\ cases[p].plan = "hermes_provisional"
                            /\ Confirmed(drafts[TemplateOf(p)], p) = {}
    BY DEF GovernedOnce, Confirmed
  <2>1. CaseFits(p)
    BY DEF GovernanceInv
  <2>2. Provisional(catalogue, p) = Reviewed(drafts[TemplateOf(p)], p)
    BY CatalogueView DEF Provisional, Reviewed
  <2>3. cases[p].status = "rejected" /\ p \notin raced => cases[p].resolution = {}
    BY <2>1 DEF CaseFits
  <2>4. CASE cases[p].resolution = {}
    BY <2>1, <2>4 DEF CaseFits
  <2>5. CASE cases[p].resolution # {}
    <3>1. PICK v : Confirmed(drafts[TemplateOf(p)], p) = {v}
      BY <2>1, <2>5 DEF CaseFits
    <3>2. Cardinality({v}) = 1
      BY FS_Singleton
    <3>3. Reviewed(drafts[TemplateOf(p)], p) = {} /\ cases[p].plan = "hermes"
      BY <2>1, <2>5 DEF CaseFits
    <3>. QED
      BY <2>2, <2>3, <2>5, <3>1, <3>2, <3>3
  <2>. QED
    BY <2>4, <2>5
<1>. QED
  BY <1>1, GovernanceStaysSound, PTL

(* What an accepted decision teaches, and what it keeps.                      *)
KeepsWhatIsTaught(p) ==
  Resolves(p) => /\ UNION cases'[p].resolution \subseteq Known(fields'["known"])
                 /\ \A f \in Kinds : \/ Known(fields[f]) \subseteq Known(fields'[f])
                                     \/ f = "known" /\ OvertakenUnnoticed

LEMMA AcceptingTeaches ==
  ASSUME GovernanceInv, NEW p \in Proposals, Accepting(p),
         \A f \in Kinds : \/ Known(fields[f]) \subseteq Known(fields'[f])
                          \/ f = "known" /\ OvertakenUnnoticed
  PROVE  \A q \in Proposals : KeepsWhatIsTaught(q)
<1>1. cases \in [Proposals -> CaseRow]
  BY DEF GovernanceInv, GovernanceTypeOK
<1>2. PICK taught \in SUBSET Variants :
        /\ taught \subseteq Known(fields'["known"])
        /\ cases' = [cases EXCEPT ![p] =
                       [status |-> "accepted", resolution |-> {taught}, plan |-> "hermes"]]
  BY DEF Accepting
<1>3. cases'[p].resolution = {taught} /\ \A q \in Proposals : q # p => cases'[q] = cases[q]
  BY <1>1, <1>2
<1>4. UNION {taught} = taught
  OBVIOUS
<1>5. \A q \in Proposals : Resolves(q) => q = p
  BY <1>3 DEF Resolves
<1>. QED
  BY <1>2, <1>3, <1>4, <1>5 DEF KeepsWhatIsTaught

(* The published version of a view and the present one.                       *)
LEMMA SameKnown ==
  ASSUME NEW a \in FieldRow, NEW b \in FieldRow, StillThere(a, b), a.published = b.published
  PROVE  Known(a) = Known(b)
<1>1. /\ a.published \in Nat /\ a.published <= Len(a.versions) /\ Len(a.versions) \in Nat
  BY FieldFacts
<1>2. a.published = 0 \/ a.published \in 1..Len(a.versions)
  BY <1>1
<1>. QED
  BY <1>2 DEF Known, StillThere

(* An acceptance that writes late: where it extends a field it has seen all    *)
(* its versions, and the published one unless it was overtaken unnoticed.      *)
LEMMA FinishLearns ==
  ASSUME GovernanceInv, FinishSlowAccept, NEW f \in Kinds
  PROVE  \/ Known(fields[f]) \subseteq Known(fields'[f])
         \/ f = "known" /\ OvertakenUnnoticed
<1>1. PICK w : w = pending
  OBVIOUS
<1>2. PICK view : view = w.view
  OBVIOUS
<1>3. /\ LearnsFrom(view) /\ w # NoRequestYet /\ w.kind = "accept" /\ w.step = "write"
  BY <1>1, <1>2, FinishAccepts
<1>4. /\ view \in View /\ StillThere(view.fields[f], fields[f])
      /\ view.fields["coined"].published = Len(view.fields["coined"].versions)
      /\ w.whole => Undisturbed(view.fields["known"].published)
  BY <1>1, <1>2, <1>3 DEF GovernanceInv, PendingFits, ReadFits
<1>5. /\ view.fields \in [Kinds -> FieldRow] /\ fields \in [Kinds -> FieldRow]
      /\ fields["coined"].published = Len(fields["coined"].versions)
  BY <1>4 DEF View, GovernanceInv
<1>6. PICK a, b : a = view.fields[f] /\ b = fields[f]
  OBVIOUS
<1>7. a \in FieldRow /\ b \in FieldRow /\ StillThere(a, b)
  BY <1>4, <1>5, <1>6
<1>8. CASE fields'[f] = b
  BY <1>6, <1>8
<1>9. CASE Len(a.versions) = Len(b.versions) /\ Known(a) \subseteq Known(fields'[f])
  <2>1. CASE a.published = b.published
    BY <1>6, <1>7, <1>9, <2>1, SameKnown
  <2>2. CASE a.published # b.published
    <3>1. f = "known"
      BY <1>4, <1>5, <1>6, <1>9, <2>2 DEF Kinds
    <3>2. ~(w.whole /\ AtNewest(a))
      <4>. SUFFICES ASSUME w.whole, AtNewest(a) PROVE FALSE
        OBVIOUS
      <4>1. Undisturbed(a.published) /\ a.published = Len(b.versions)
        BY <1>4, <1>6, <1>9, <3>1 DEF AtNewest
      <4>2. b.published = Len(b.versions)
        BY <1>6, <3>1, <4>1 DEF Undisturbed, AtNewest
      <4>. QED
        BY <2>2, <4>1, <4>2
    <3>3. pending' # pending
      BY <1>1, <1>3 DEF FinishSlowAccept
    <3>. QED
      BY <1>1, <1>2, <1>6, <2>2, <3>1, <3>2, <3>3 DEF OvertakenUnnoticed
  <2>. QED
    BY <2>1, <2>2
<1>. QED
  BY <1>3, <1>6, <1>8, <1>9 DEF LearnsFrom

LEMMA StepTeaches ==
  ASSUME GovernanceInv, [GovernanceNext]_governanceVars
  PROVE  \A q \in Proposals : KeepsWhatIsTaught(q)
<1>1. cases \in [Proposals -> CaseRow]
  BY DEF GovernanceInv, GovernanceTypeOK
<1>2. ASSUME \A q \in Proposals : cases'[q].resolution = cases[q].resolution
      PROVE  \A q \in Proposals : KeepsWhatIsTaught(q)
  BY <1>2 DEF KeepsWhatIsTaught, Resolves
<1>3. ASSUME cases' = cases PROVE \A q \in Proposals : KeepsWhatIsTaught(q)
  BY <1>3 DEF KeepsWhatIsTaught, Resolves
<1>4. ASSUME NEW p \in Proposals, cases' = [cases EXCEPT ![p].status = "rejected"]
      PROVE  \A q \in Proposals : KeepsWhatIsTaught(q)
  <2>1. PICK case : case = [cases[p] EXCEPT !.status = "rejected"]
    OBVIOUS
  <2>2. cases[p] \in CaseRow
    BY <1>1
  <2>3. case.resolution = cases[p].resolution
    BY <2>1, <2>2 DEF CaseRow
  <2>4. \A q \in Proposals : cases'[q] = IF q = p THEN case ELSE cases[q]
    BY <1>1, <1>4, <2>1
  <2>. QED
    BY <1>2, <2>3, <2>4
<1>5. ASSUME NEW p \in Proposals, RecognizeTemplateDiff(p)
      PROVE  \A q \in Proposals : KeepsWhatIsTaught(q)
  <2>1. PICK case : case = [status |-> "pending", resolution |-> {}, plan |-> "hermes_provisional"]
    OBVIOUS
  <2>2. cases[p].resolution = {} /\ cases' = [cases EXCEPT ![p] = case]
    BY <1>5, <2>1 DEF RecognizeTemplateDiff, NoCase
  <2>3. case.resolution = {}
    BY <2>1
  <2>4. \A q \in Proposals : cases'[q] = IF q = p THEN case ELSE cases[q]
    BY <1>1, <2>2
  <2>. QED
    BY <1>2, <2>2, <2>3, <2>4
<1>6. CASE UNCHANGED governanceVars
  BY <1>3, <1>6 DEF governanceVars
<1>7. ASSUME NEW p \in Proposals, AcceptItemProposal(p)
      PROVE  \A q \in Proposals : KeepsWhatIsTaught(q)
  <2>1. Accepting(p) /\ LearnsFrom(catalogue) /\ catalogue.fields = fields
    BY <1>7, AcceptAccepts, CatalogueView
  <2>2. \A f \in Kinds : Known(fields[f]) \subseteq Known(fields'[f])
    BY <2>1 DEF LearnsFrom
  <2>. QED
    BY <2>1, <2>2, AcceptingTeaches
<1>8. CASE FinishSlowAccept
  <2>1. PICK p : p = pending.p
    OBVIOUS
  <2>2. p \in Proposals /\ Accepting(p)
    BY <1>8, <2>1, FinishAccepts
  <2>. QED
    BY <1>8, <2>2, FinishLearns, AcceptingTeaches
<1>9. ASSUME NEW p \in Proposals, RejectItemProposal(p)
      PROVE  \A q \in Proposals : KeepsWhatIsTaught(q)
  BY <1>4, <1>9 DEF RejectItemProposal
<1>10. CASE FinishSlowReject
  <2>1. PICK p : p = pending.p
    OBVIOUS
  <2>2. pending # NoRequestYet
    BY <1>10 DEF FinishSlowReject, NoRequestYet
  <2>3. p \in Proposals /\ cases' = [cases EXCEPT ![p].status = "rejected"]
    BY <1>10, <2>1, <2>2 DEF FinishSlowReject, GovernanceInv, PendingFits
  <2>. QED
    BY <1>4, <2>3
<1>11. ASSUME NEW p \in Proposals, StartSlowAccept(p) \/ StartSlowReject(p)
       PROVE  cases' = cases
  BY <1>11 DEF StartSlowAccept, StartSlowReject
<1>12. LoadFieldVersions \/ LoadDrafts \/ FailSlow => cases' = cases
  BY DEF LoadFieldVersions, LoadDrafts, FailSlow
<1>13. /\ CreateKnownVersion \/ PublishKnownVersion => cases' = cases
       /\ StartSlowPublish \/ FinishSlowPublish => cases' = cases
  BY DEF CreateKnownVersion, PublishKnownVersion, StartSlowPublish, FinishSlowPublish
<1>. QED
  BY <1>3, <1>5, <1>6, <1>7, <1>8, <1>9, <1>10, <1>11, <1>12, <1>13 DEF GovernanceNext

(* What a governor teaches is known when the decision is written, whatever     *)
(* editors and other governors do while it is under way; and every field knows *)
(* what it knew, unless the decision was overtaken by a publication that its   *)
(* version numbers do not collide with - which is impossible when it began     *)
(* with the newest version published, read so, and no draft and no publication *)
(* beside it (_load_field, _publish_field_learning, publish_field_version).    *)
THEOREM LearningStays == GovernanceSpec => LearningIsKept
<1>1. GovernanceInv /\ [GovernanceNext]_governanceVars =>
        [\A p \in Proposals : Resolves(p) =>
           /\ UNION cases'[p].resolution \subseteq Known(fields'["known"])
           /\ \A f \in Kinds : \/ Known(fields[f]) \subseteq Known(fields'[f])
                               \/ f = "known" /\ OvertakenUnnoticed]_governanceVars
  BY StepTeaches DEF KeepsWhatIsTaught
<1>. QED
  BY <1>1, GovernanceStaysSound, PTL DEF GovernanceSpec, LearningIsKept

-----------------------------------------------------------------------------
(* Bundles and restores *)

(* A pointer names a version that is there.                                   *)
PointersHold(cat) == \A c \in Objects : cat.pointer[c] > 0 => Exists(cat, <<c, cat.pointer[c]>>)

(* A file that was written: nothing but what its snapshot names has a hash;   *)
(* if nobody edited under it, its rows are those of one catalog.              *)
BundleHolds(b) ==
  /\ b \in Bundle
  /\ \A c \in Objects : b.snapshot[c].pointer <= 0 => b.snapshot[c].hash = NoHash
  /\ b.whole => /\ Linked(b.tables) /\ PointersHold(b.tables)
                /\ b.snapshot = SnapshotOf(b.tables)

BundlesHold == \A f \in {"baseline", "before"} : bundles[f].written => BundleHolds(bundles[f])

(* What was read while nobody edited is what is there.                        *)
CopyHolds ==
  copying # NotCopying /\ copying.whole =>
    /\ copying.reads > 0 => copying.tables.pointer = catalog.pointer
    /\ copying.reads > 1 => copying.tables.version = catalog.version
    /\ copying.reads > 2 => copying.tables.children = catalog.children
    /\ copying.reads > 3 => copying.seen.pointer = catalog.pointer
    /\ copying.reads > 4 => copying.seen.version = catalog.version
    /\ copying.reads > 5 => copying.seen.children = catalog.children

(* A restore goes from its preview to its copy and on to its commit; nothing  *)
(* that its copy found is gone.                                               *)
RestoreHolds ==
  /\ restore.step = "copying" <=> copying.to = "before"
  /\ restore # NoRestore => copying.to # "baseline" /\ BundleHolds(restore.bundle)
  /\ restore.step \in Applying =>
       /\ bundles["before"].written
       /\ bundles["before"].whole => bundles["before"].snapshot = SnapshotOf(session.found)
       /\ \A k \in VersionKeys : Exists(session.found, k) => Exists(catalog, k)
  /\ restore.step \notin Applying => session = NoSession

(* What others may do to the rows between two statements of a restore.        *)
Grown(a, cat) ==
  /\ \A c \in Objects : a.pointer[c] # Missing => cat.pointer[c] # Missing
  /\ \A k \in VersionKeys : Exists(a, k) => Exists(cat, k)

(* Of the objects that others have not touched since the pointers were read,  *)
(* the restore has read what is there.                                        *)
PointersRead(w, own) ==
  /\ \A c \in Objects : own.seen.pointer[c] # Missing => w.pointer[c] # Missing
  /\ \A c \in Objects : c \notin own.touched \/ c \in own.objects
                          => w.pointer[c] = own.seen.pointer[c]
VersionsRead(w, own) ==
  /\ Linked(own.seen)
  /\ \A k \in VersionKeys : /\ Exists(own.seen, k) => Exists(w, k)
                            /\ k[1] \notin own.touched =>
                                 /\ w.version[k] = own.seen.version[k]
                                 /\ w.children[k] = own.seen.children[k]

SessionHolds ==
  LET t == restore.bundle.tables IN
  /\ restore.step \in Applying =>
       /\ \A c \in session.objects : t.pointer[c] # Missing
       /\ \A k \in session.versions : Exists(t, k)
  /\ restore.step \in {"pointers", "layers", "commit"} => Linked(SessionView)
  /\ restore.step \in {"layers", "commit"} => PointersRead(SessionView, session)
  /\ restore.step = "commit" => /\ VersionsRead(SessionView, session)
                                /\ Accepts(session.seen, restore.bundle.snapshot)

(* What the last restore made, and the copy that it made before.              *)
OutcomeHolds ==
  outcome # NoOutcome =>
    /\ restore = NoRestore /\ BundleHolds(outcome.bundle) /\ RestoredIsTheSnapshot
    /\ bundles["before"].written
    /\ bundles["before"].whole => bundles["before"].snapshot = SnapshotOf(outcome.found)

RecoveryInv ==
  /\ RecoveryTypeOK /\ PointersHold(catalog)
  /\ BundlesHold /\ CopyHolds /\ RestoreHolds /\ SessionHolds /\ OutcomeHolds

LEMMA RecoveryBounds ==
  /\ MaxNumber \in Nat /\ MaxNumber > 0 /\ MaxEdits \in Nat /\ MaxEdits > 0 /\ Objects # {}
  /\ First \in Children
BY RecoveryAssumption DEF First

LEMMA KeyOf ==
  ASSUME NEW k \in VersionKeys
  PROVE  /\ k[1] \in Objects /\ k[2] \in 1 .. MaxNumber /\ k = <<k[1], k[2]>>
         /\ k[2] \in Nat /\ k[2] > 0
BY RecoveryBounds DEF VersionKeys

LEMMA KeyFor ==
  ASSUME NEW c \in Objects, NEW n \in 1 .. MaxNumber, NEW k, k = <<c, n>>
  PROVE  k \in VersionKeys /\ k[1] = c /\ k[2] = n
BY DEF VersionKeys

LEMMA TableRows ==
  ASSUME NEW t \in Tables
  PROVE  /\ \A c \in Objects : /\ t.pointer[c] \in Int /\ Missing <= t.pointer[c]
                               /\ t.pointer[c] <= MaxNumber
         /\ \A k \in VersionKeys : t.version[k] \in VersionRow /\ t.children[k] \in SUBSET Children
         /\ t.pointer \in [Objects -> Missing .. MaxNumber]
         /\ t.version \in [VersionKeys -> VersionRow]
         /\ t.children \in [VersionKeys -> SUBSET Children] /\ Missing = -1
<1>1. /\ t.pointer \in [Objects -> Missing .. MaxNumber]
      /\ t.version \in [VersionKeys -> VersionRow]
      /\ t.children \in [VersionKeys -> SUBSET Children]
  BY DEF Tables
<1>2. \A x \in Missing .. MaxNumber : x \in Int /\ Missing <= x /\ x <= MaxNumber
  BY RecoveryBounds DEF Missing
<1>3. Missing = -1
  BY DEF Missing
<1>. QED
  BY <1>1, <1>2, <1>3

(* apply_catalog_bundle.                                                      *)
LEMMA SyncedRows ==
  ASSUME NEW a \in Tables, NEW t \in Tables, NEW s, s = Synced(a, t)
  PROVE  /\ s \in Tables
         /\ \A c \in Objects : s.pointer[c] = IF t.pointer[c] # Missing THEN t.pointer[c]
                                              ELSE a.pointer[c]
         /\ \A k \in VersionKeys : s.version[k] = IF Exists(t, k) THEN t.version[k]
                                                  ELSE a.version[k]
         /\ \A k \in VersionKeys : s.children[k] = IF t.children[k] # {} THEN t.children[k]
                                                   ELSE a.children[k]
<1>1. PICK pointer, version, children :
        /\ pointer = [c \in Objects |-> IF t.pointer[c] # Missing THEN t.pointer[c]
                                        ELSE a.pointer[c]]
        /\ version = [k \in VersionKeys |-> IF Exists(t, k) THEN t.version[k] ELSE a.version[k]]
        /\ children = [k \in VersionKeys |-> IF t.children[k] # {} THEN t.children[k]
                                             ELSE a.children[k]]
  OBVIOUS
<1>2. s = [pointer |-> pointer, version |-> version, children |-> children]
  BY <1>1 DEF Synced
<1>3. /\ a.pointer \in [Objects -> Missing .. MaxNumber]
      /\ t.pointer \in [Objects -> Missing .. MaxNumber]
      /\ a.version \in [VersionKeys -> VersionRow] /\ t.version \in [VersionKeys -> VersionRow]
      /\ a.children \in [VersionKeys -> SUBSET Children]
      /\ t.children \in [VersionKeys -> SUBSET Children]
  BY DEF Tables
<1>. DEFINE Pointing == Missing .. MaxNumber
<1>. HIDE DEF Pointing
<1>4. pointer \in [Objects -> Pointing]
  <2>1. a.pointer \in [Objects -> Pointing] /\ t.pointer \in [Objects -> Pointing]
    BY <1>3 DEF Pointing
  <2>. QED
    BY <1>1, <2>1
<1>5. version \in [VersionKeys -> VersionRow] /\ children \in [VersionKeys -> SUBSET Children]
  BY <1>1, <1>3
<1>6. s \in Tables
  BY <1>2, <1>4, <1>5 DEF Tables, Pointing
<1>7. s.pointer = pointer /\ s.version = version /\ s.children = children
  BY <1>2
<1>. QED
  BY <1>1, <1>6, <1>7

(* A status never makes a version that is missing.                            *)
LEMMA StatusChanged ==
  ASSUME NEW row \in VersionRow, NEW status \in {"published", "deprecated"},
         NEW new, new = [row EXCEPT !.status = status]
  PROVE  /\ new \in VersionRow /\ new.status = status /\ new.content = row.content
         /\ new # NoVersion
<1>1. new \in VersionRow /\ new.status = status /\ new.content = row.content
  BY DEF VersionRow
<1>2. NoVersion.status = "none"
  BY DEF NoVersion
<1>. QED
  BY <1>1, <1>2

(* _restore_layer.                                                            *)
LEMMA LayerRestored ==
  ASSUME NEW a \in Tables, NEW n \in Snapshots, NEW r, r = RestoreLayer(a, n)
  PROVE  /\ r \in Tables /\ r.children = a.children
         /\ \A c \in Objects : r.pointer[c] = IF a.pointer[c] = Missing THEN Missing
                                              ELSE IF n[c].pointer > 0 THEN n[c].pointer ELSE 0
         /\ \A k \in VersionKeys :
              /\ Exists(r, k) <=> Exists(a, k)
              /\ r.version[k].content = a.version[k].content
              /\ r.version[k].status = "published" <=>
                   Exists(a, k) /\ n[k[1]].pointer = k[2]
              /\ r.version[k] # a.version[k] => r.version[k].status \in {"published", "deprecated"}
<1>1. PICK pointer, version :
        /\ pointer = [c \in Objects |->
             IF a.pointer[c] = Missing THEN Missing
             ELSE IF \E x \in 1 .. MaxNumber : Published(a, n, <<c, x>>)
               THEN CHOOSE x \in 1 .. MaxNumber : Published(a, n, <<c, x>>) ELSE 0]
        /\ version = [k \in VersionKeys |->
             IF ~Exists(a, k) THEN NoVersion
             ELSE IF Published(a, n, k) THEN [a.version[k] EXCEPT !.status = "published"]
             ELSE IF a.version[k].status = "published"
               THEN [a.version[k] EXCEPT !.status = "deprecated"] ELSE a.version[k]]
  OBVIOUS
<1>2. r = [a EXCEPT !.pointer = pointer, !.version = version]
  BY <1>1 DEF RestoreLayer
<1>3. r.pointer = pointer /\ r.version = version /\ r.children = a.children
  BY <1>2 DEF Tables
<1>4. \A c \in Objects : n[c].pointer \in Missing .. MaxNumber
  BY DEF Snapshots
<1>5. ASSUME NEW c \in Objects
      PROVE  /\ pointer[c] = IF a.pointer[c] = Missing THEN Missing
                             ELSE IF n[c].pointer > 0 THEN n[c].pointer ELSE 0
             /\ pointer[c] \in Missing .. MaxNumber
  <2>1. \A x : Published(a, n, <<c, x>>) <=> n[c].pointer = x
    BY DEF Published
  <2>2. n[c].pointer \in Int /\ n[c].pointer <= MaxNumber /\ MaxNumber \in Nat
    BY <1>4, RecoveryBounds DEF Missing
  <2>3. CASE n[c].pointer > 0
    <3>1. n[c].pointer \in 1 .. MaxNumber
      BY <2>2, <2>3
    <3>2. \E x \in 1 .. MaxNumber : Published(a, n, <<c, x>>)
      BY <2>1, <3>1
    <3>3. (CHOOSE x \in 1 .. MaxNumber : Published(a, n, <<c, x>>)) = n[c].pointer
      BY <2>1, <3>2
    <3>4. pointer[c] = IF a.pointer[c] = Missing THEN Missing ELSE n[c].pointer
      BY <1>1, <3>2, <3>3
    <3>. QED
      BY <1>4, <2>2, <2>3, <3>4 DEF Missing
  <2>4. CASE ~(n[c].pointer > 0)
    <3>1. ASSUME NEW x \in 1 .. MaxNumber PROVE ~Published(a, n, <<c, x>>)
      <4>1. x > 0
        BY <2>2
      <4>. QED
        BY <2>1, <2>4, <4>1
    <3>2. pointer[c] = IF a.pointer[c] = Missing THEN Missing ELSE 0
      BY <1>1, <3>1
    <3>. QED
      BY <2>2, <2>4, <3>2 DEF Missing
  <2>. QED
    BY <2>3, <2>4
<1>6. ASSUME NEW k \in VersionKeys
      PROVE  /\ version[k] \in VersionRow /\ (version[k] # NoVersion <=> Exists(a, k))
             /\ version[k].content = a.version[k].content
             /\ version[k].status = "published" <=> Exists(a, k) /\ n[k[1]].pointer = k[2]
             /\ version[k] # a.version[k] => version[k].status \in {"published", "deprecated"}
  <2>. PICK row : row = a.version[k]
    OBVIOUS
  <2>1. row \in VersionRow /\ (Exists(a, k) <=> row # NoVersion)
    BY TableRows DEF Exists
  <2>2. version[k] = IF row = NoVersion THEN NoVersion
                     ELSE IF n[k[1]].pointer = k[2] THEN [row EXCEPT !.status = "published"]
                     ELSE IF row.status = "published" THEN [row EXCEPT !.status = "deprecated"]
                     ELSE row
    BY <1>1, <2>1 DEF Published
  <2>3. NoVersion \in VersionRow /\ NoVersion.status = "none"
    BY DEF VersionRow, NoVersion
  <2>4. PICK live, old : /\ live = [row EXCEPT !.status = "published"]
                         /\ old = [row EXCEPT !.status = "deprecated"]
    OBVIOUS
  <2>5. /\ live \in VersionRow /\ live.status = "published" /\ live.content = row.content
        /\ live # NoVersion
    BY <2>1, <2>4, StatusChanged
  <2>6. /\ old \in VersionRow /\ old.status = "deprecated" /\ old.content = row.content
        /\ old # NoVersion
    BY <2>1, <2>4, StatusChanged
  <2>. QED
    BY <2>1, <2>2, <2>3, <2>4, <2>5, <2>6
<1>7. r \in Tables
  <2>. DEFINE Pointing == Missing .. MaxNumber
  <2>. HIDE DEF Pointing
  <2>1. pointer \in [Objects -> Pointing]
    BY <1>1, <1>5 DEF Pointing
  <2>2. version \in [VersionKeys -> VersionRow]
    BY <1>1, <1>6
  <2>. QED
    BY <1>2, <2>1, <2>2 DEF Tables, Pointing
<1>. QED
  BY <1>3, <1>5, <1>6, <1>7 DEF Exists

(* _snapshot_rows.                                                            *)
LEMMA SnapshotRows ==
  ASSUME NEW a \in Tables, NEW n, n = SnapshotOf(a)
  PROVE  /\ n \in Snapshots
         /\ \A c \in Objects : n[c].pointer = a.pointer[c]
                               /\ (n[c].pointer <= 0 => n[c].hash = NoHash)
<1>1. ASSUME NEW c \in Objects
      PROVE  /\ n[c] \in [pointer: Missing .. MaxNumber, hash: HashRow]
             /\ n[c].pointer = a.pointer[c] /\ (n[c].pointer <= 0 => n[c].hash = NoHash)
  <2>. PICK k, hash : /\ k = <<c, a.pointer[c]>>
                      /\ hash = IF a.pointer[c] > 0 /\ Exists(a, <<c, a.pointer[c]>>)
                                THEN Hash(a, <<c, a.pointer[c]>>) ELSE NoHash
    OBVIOUS
  <2>1. n[c] = [pointer |-> a.pointer[c], hash |-> hash]
    BY DEF SnapshotOf
  <2>2. a.pointer[c] \in Missing .. MaxNumber /\ a.pointer[c] \in Int /\ a.pointer[c] <= MaxNumber
    BY TableRows
  <2>3. NoHash \in HashRow
    BY DEF NoHash, HashRow
  <2>4. a.pointer[c] > 0 => Hash(a, k) \in HashRow
    <3>. SUFFICES ASSUME a.pointer[c] > 0 PROVE Hash(a, k) \in HashRow
      OBVIOUS
    <3>1. k \in VersionKeys
      BY <2>2, RecoveryBounds, KeyFor
    <3>2. a.version[k] \in VersionRow /\ a.children[k] \in SUBSET Children
      BY <3>1, TableRows
    <3>. QED
      BY <3>2 DEF Hash, HashRow, VersionRow
  <2>5. hash \in HashRow /\ (~(a.pointer[c] > 0) => hash = NoHash)
    BY <2>3, <2>4
  <2>6. n[c].pointer = a.pointer[c] /\ n[c].hash = hash
    BY <2>1
  <2>. DEFINE Pointing == Missing .. MaxNumber
  <2>7. a.pointer[c] \in Pointing
    BY <2>2
  <2>. HIDE DEF Pointing
  <2>8. n[c] \in [pointer: Pointing, hash: HashRow]
    BY <2>1, <2>5, <2>7
  <2>. QED
    BY <2>2, <2>5, <2>6, <2>8 DEF Pointing
<1>2. n = [c \in Objects |-> n[c]]
  BY DEF SnapshotOf
<1>. QED
  BY <1>1, <1>2 DEF Snapshots

LEMMA HashSame ==
  ASSUME NEW a, NEW b, NEW k, a.version[k].content = b.version[k].content,
         a.children[k] = b.children[k]
  PROVE  Hash(a, k) = Hash(b, k)
BY DEF Hash

(* What a restore makes of the rows that accept the snapshot.                 *)
LEMMA RestoredIs ==
  ASSUME NEW a \in Tables, Linked(a), NEW n \in Snapshots, Accepts(a, n),
         \A c \in Objects : n[c].pointer <= 0 => n[c].hash = NoHash,
         NEW r, r = RestoreLayer(a, n)
  PROVE  /\ r \in Tables /\ Linked(r) /\ PointersHold(r)
         /\ \A c \in Objects : IF n[c].pointer = Missing THEN r.pointer[c] \in {Missing, 0}
                               ELSE SnapshotOf(r)[c] = n[c]
         /\ \A k \in VersionKeys :
              /\ r.version[k].status = "published" <=> r.pointer[k[1]] = k[2]
              /\ Exists(a, k) => Exists(r, k)
<1>1. /\ r \in Tables /\ r.children = a.children
      /\ \A c \in Objects : r.pointer[c] = IF a.pointer[c] = Missing THEN Missing
                                           ELSE IF n[c].pointer > 0 THEN n[c].pointer ELSE 0
      /\ \A k \in VersionKeys : /\ Exists(r, k) <=> Exists(a, k)
                                /\ r.version[k].content = a.version[k].content
                                /\ r.version[k].status = "published" <=>
                                     Exists(a, k) /\ n[k[1]].pointer = k[2]
  BY LayerRestored
<1>2. \A c \in Objects : /\ n[c] \in [pointer: Missing .. MaxNumber, hash: HashRow]
                         /\ n[c].pointer \in Int /\ Missing <= n[c].pointer
                         /\ n[c].pointer <= MaxNumber
  <2>1. \A c \in Objects : n[c] \in [pointer: Missing .. MaxNumber, hash: HashRow]
    BY DEF Snapshots
  <2>2. \A x \in Missing .. MaxNumber : x \in Int /\ Missing <= x /\ x <= MaxNumber
    BY RecoveryBounds DEF Missing
  <2>. QED
    BY <2>1, <2>2
<1>3. ASSUME NEW c \in Objects, n[c].pointer # Missing
      PROVE  a.pointer[c] # Missing
  BY <1>3 DEF Accepts
<1>4. ASSUME NEW c \in Objects, n[c].pointer > 0, NEW k, k = <<c, n[c].pointer>>
      PROVE  k \in VersionKeys /\ k[1] = c /\ k[2] = n[c].pointer
             /\ Exists(a, k) /\ Hash(a, k) = n[c].hash
  <2>1. n[c].pointer \in 1 .. MaxNumber
    BY <1>2, <1>4, RecoveryBounds
  <2>2. k \in VersionKeys /\ k[1] = c /\ k[2] = n[c].pointer
    BY <1>4, <2>1, KeyFor
  <2>3. n[c].pointer # Missing
    BY <1>2, <1>4 DEF Missing
  <2>4. Exists(a, k) /\ Hash(a, k) = n[c].hash
    BY <1>4, <2>3 DEF Accepts
  <2>. QED
    BY <2>2, <2>4
<1>5. Linked(r)
  <2>. SUFFICES ASSUME NEW k \in VersionKeys
                PROVE  /\ Exists(r, k) => r.pointer[k[1]] # Missing
                       /\ r.children[k] # {} => Exists(r, k)
    BY DEF Linked
  <2>1. k[1] \in Objects /\ n[k[1]].pointer \in Int
    BY <1>2, KeyOf
  <2>2. /\ Exists(a, k) => a.pointer[k[1]] # Missing
        /\ a.children[k] # {} => Exists(a, k)
    BY DEF Linked
  <2>3. a.pointer[k[1]] # Missing => r.pointer[k[1]] # Missing
    BY <1>1, <2>1 DEF Missing
  <2>. QED
    BY <1>1, <2>2, <2>3
<1>6. ASSUME NEW c \in Objects, n[c].pointer # Missing
      PROVE  SnapshotOf(r)[c] = n[c] /\ r.pointer[c] = n[c].pointer
  <2>. PICK k : k = <<c, n[c].pointer>>
    OBVIOUS
  <2>1. r.pointer[c] = n[c].pointer
    BY <1>1, <1>2, <1>3, <1>6 DEF Missing
  <2>2. n[c] = [pointer |-> n[c].pointer, hash |-> n[c].hash]
    BY <1>2
  <2>3. SnapshotOf(r)[c] = [pointer |-> n[c].pointer,
                            hash |-> IF n[c].pointer > 0 /\ Exists(r, k)
                                     THEN Hash(r, k) ELSE NoHash]
    BY <2>1 DEF SnapshotOf
  <2>4. CASE n[c].pointer > 0
    <3>1. k \in VersionKeys /\ Exists(a, k) /\ Hash(a, k) = n[c].hash
      BY <1>4, <2>4
    <3>2. Exists(r, k) /\ Hash(r, k) = Hash(a, k)
      BY <1>1, <3>1, HashSame
    <3>. QED
      BY <2>1, <2>2, <2>3, <2>4, <3>1, <3>2
  <2>5. CASE ~(n[c].pointer > 0)
    <3>1. n[c].hash = NoHash
      BY <1>2, <2>5
    <3>. QED
      BY <2>1, <2>2, <2>3, <2>5, <3>1
  <2>. QED
    BY <2>4, <2>5
<1>7. ASSUME NEW c \in Objects, n[c].pointer = Missing
      PROVE  r.pointer[c] \in {Missing, 0}
  BY <1>1, <1>2, <1>7 DEF Missing
<1>8. ASSUME NEW k \in VersionKeys
      PROVE  r.version[k].status = "published" <=> r.pointer[k[1]] = k[2]
  <2>. PICK c : c = k[1]
    OBVIOUS
  <2>1. c \in Objects /\ k[2] \in Nat /\ k[2] > 0 /\ k = <<c, k[2]>>
    BY KeyOf
  <2>2. CASE n[c].pointer = Missing
    <3>1. r.pointer[c] # k[2] /\ n[c].pointer # k[2]
      BY <1>7, <2>1, <2>2 DEF Missing
    <3>. QED
      BY <1>1, <3>1
  <2>3. CASE n[c].pointer # Missing
    <3>1. r.pointer[c] = n[c].pointer
      BY <1>6, <2>1, <2>3
    <3>2. n[c].pointer = k[2] => Exists(a, k)
      BY <1>4, <2>1
    <3>. QED
      BY <1>1, <3>1, <3>2
  <2>. QED
    BY <2>2, <2>3
<1>9. PointersHold(r)
  <2>. SUFFICES ASSUME NEW c \in Objects, r.pointer[c] > 0
                PROVE  Exists(r, <<c, r.pointer[c]>>)
    BY DEF PointersHold
  <2>. PICK k : k = <<c, n[c].pointer>>
    OBVIOUS
  <2>1. n[c].pointer > 0 /\ r.pointer[c] = n[c].pointer
    BY <1>1, <1>2 DEF Missing
  <2>2. k \in VersionKeys /\ Exists(a, k)
    BY <1>4, <2>1
  <2>. QED
    BY <1>1, <2>1, <2>2
<1>. QED
  BY <1>1, <1>5, <1>6, <1>7, <1>8, <1>9

(* A restore and what it read.                                                *)
LEMMA RestoreIs ==
  ASSUME NEW a \in Tables, NEW b, BundleHolds(b), Restores(a, b), NEW r, r = Restored(a, b)
  PROVE  /\ r \in Tables /\ Linked(r) /\ PointersHold(r)
         /\ \A c \in Objects : IF b.snapshot[c].pointer = Missing
                               THEN r.pointer[c] \in {Missing, 0}
                               ELSE SnapshotOf(r)[c] = b.snapshot[c]
         /\ \A k \in VersionKeys :
              /\ r.version[k].status = "published" <=> r.pointer[k[1]] = k[2]
              /\ Exists(a, k) => Exists(r, k)
<1>. PICK s, t, n : s = Synced(a, b.tables) /\ t = b.tables /\ n = b.snapshot
  OBVIOUS
<1>1. /\ t \in Tables /\ n \in Snapshots
      /\ \A c \in Objects : n[c].pointer <= 0 => n[c].hash = NoHash
  BY DEF BundleHolds, Bundle
<1>2. s \in Tables /\ \A k \in VersionKeys : s.version[k] = IF Exists(t, k) THEN t.version[k]
                                                           ELSE a.version[k]
  BY <1>1, SyncedRows
<1>3. Linked(s) /\ Accepts(s, n)
  BY DEF Restores
<1>4. r = RestoreLayer(s, n)
  BY DEF Restored
<1>5. \A k \in VersionKeys : Exists(a, k) => Exists(s, k)
  BY <1>2 DEF Exists
<1>6. /\ r \in Tables /\ Linked(r) /\ PointersHold(r)
      /\ \A c \in Objects : IF n[c].pointer = Missing THEN r.pointer[c] \in {Missing, 0}
                            ELSE SnapshotOf(r)[c] = n[c]
      /\ \A k \in VersionKeys :
           /\ r.version[k].status = "published" <=> r.pointer[k[1]] = k[2]
           /\ Exists(s, k) => Exists(r, k)
  BY <1>1, <1>2, <1>3, <1>4, RestoredIs
<1>. QED
  BY <1>5, <1>6

(* A bundle that nobody edited under can be restored over rows that gave no   *)
(* children to a version without any in it.                                   *)
LEMMA Restorable ==
  ASSUME NEW a \in Tables, Linked(a), NEW b, BundleHolds(b), b.whole,
         \A k \in VersionKeys : Exists(b.tables, k) /\ b.tables.children[k] = {}
                                  => a.children[k] = {}
  PROVE  Restores(a, b)
<1>. PICK s, t, n : s = Synced(a, b.tables) /\ t = b.tables /\ n = b.snapshot
  OBVIOUS
<1>1. t \in Tables /\ Linked(t) /\ PointersHold(t) /\ n = SnapshotOf(t)
  BY DEF BundleHolds, Bundle
<1>2. /\ s \in Tables
      /\ \A c \in Objects : s.pointer[c] = IF t.pointer[c] # Missing THEN t.pointer[c]
                                           ELSE a.pointer[c]
      /\ \A k \in VersionKeys : s.version[k] = IF Exists(t, k) THEN t.version[k]
                                               ELSE a.version[k]
      /\ \A k \in VersionKeys : s.children[k] = IF t.children[k] # {} THEN t.children[k]
                                                ELSE a.children[k]
  BY <1>1, SyncedRows
<1>3. \A k \in VersionKeys : Exists(s, k) <=> Exists(t, k) \/ Exists(a, k)
  BY <1>2 DEF Exists
<1>4. Linked(s)
  <2>. SUFFICES ASSUME NEW k \in VersionKeys
                PROVE  /\ Exists(s, k) => s.pointer[k[1]] # Missing
                       /\ s.children[k] # {} => Exists(s, k)
    BY DEF Linked
  <2>1. /\ Exists(t, k) => t.pointer[k[1]] # Missing
        /\ t.children[k] # {} => Exists(t, k)
        /\ Exists(a, k) => a.pointer[k[1]] # Missing
        /\ a.children[k] # {} => Exists(a, k)
    BY <1>1 DEF Linked
  <2>2. k[1] \in Objects
    BY KeyOf
  <2>. QED
    BY <1>2, <1>3, <2>1, <2>2
<1>5. ASSUME NEW c \in Objects, n[c].pointer # Missing
      PROVE  /\ s.pointer[c] # Missing
             /\ n[c].pointer > 0 => /\ Exists(s, <<c, n[c].pointer>>)
                                    /\ Hash(s, <<c, n[c].pointer>>) = n[c].hash
  <2>1. n[c].pointer = t.pointer[c]
    BY <1>1, SnapshotRows
  <2>2. s.pointer[c] # Missing
    BY <1>2, <1>5, <2>1
  <2>3. ASSUME n[c].pointer > 0, NEW k, k = <<c, n[c].pointer>>
        PROVE  Exists(s, k) /\ Hash(s, k) = n[c].hash
    <3>1. n[c].pointer \in 1 .. MaxNumber
      BY <1>1, <2>1, <2>3, TableRows, RecoveryBounds
    <3>2. k \in VersionKeys
      BY <2>3, <3>1, KeyFor
    <3>3. Exists(t, k)
      BY <1>1, <2>1, <2>3 DEF PointersHold
    <3>4. n[c].hash = Hash(t, k)
      BY <1>1, <2>1, <2>3, <3>3 DEF SnapshotOf
    <3>5. s.version[k] = t.version[k] /\ s.children[k] = t.children[k]
      BY <1>2, <3>2, <3>3
    <3>. QED
      BY <1>3, <3>2, <3>3, <3>4, <3>5 DEF Hash
  <2>. QED
    BY <2>2, <2>3
<1>6. Accepts(s, n)
  BY <1>5 DEF Accepts
<1>. QED
  BY <1>4, <1>6 DEF Restores

LEMMA TablesWith ==
  ASSUME NEW pointer \in [Objects -> Missing .. MaxNumber],
         NEW version \in [VersionKeys -> VersionRow],
         NEW children \in [VersionKeys -> SUBSET Children], NEW r,
         r = [pointer |-> pointer, version |-> version, children |-> children]
  PROVE  r \in Tables /\ r.pointer = pointer /\ r.version = version /\ r.children = children
<1>. DEFINE Pointing == Missing .. MaxNumber
<1>1. pointer \in [Objects -> Pointing]
  OBVIOUS
<1>. HIDE DEF Pointing
<1>2. r \in [pointer: [Objects -> Pointing], version: [VersionKeys -> VersionRow],
             children: [VersionKeys -> SUBSET Children]]
  BY <1>1
<1>. QED
  BY <1>2 DEF Tables, Pointing

LEMMA EmptyRows == Empty \in Tables /\ Linked(Empty) /\ PointersHold(Empty)
<1>. PICK pointer, version, children :
       /\ pointer = [c \in Objects |-> Missing] /\ version = [k \in VersionKeys |-> NoVersion]
       /\ children = [k \in VersionKeys |-> {}]
  OBVIOUS
<1>1. pointer \in [Objects -> Missing .. MaxNumber]
  BY RecoveryBounds DEF Missing
<1>2. version \in [VersionKeys -> VersionRow] /\ children \in [VersionKeys -> SUBSET Children]
  BY DEF VersionRow, NoVersion
<1>3. Empty = [pointer |-> pointer, version |-> version, children |-> children]
  BY DEF Empty
<1>4. /\ Empty \in Tables /\ Empty.pointer = pointer /\ Empty.version = version
      /\ Empty.children = children
  BY <1>1, <1>2, <1>3, TablesWith
<1>5. Linked(Empty)
  BY <1>4 DEF Linked, Exists
<1>6. PointersHold(Empty)
  BY <1>4 DEF PointersHold, Missing
<1>. QED
  BY <1>4, <1>5, <1>6

LEMMA CopyRows ==
  ASSUME RecoveryInv
  PROVE  /\ copying.to = "none" <=> copying = NotCopying
         /\ copying # NotCopying => copying \in Copy
         /\ restore.step = "idle" <=> restore = NoRestore
         /\ restore # NoRestore => restore.bundle \in Bundle
         /\ NotCopying.to = "none" /\ NoRestore.step = "idle"
BY DEF RecoveryInv, RecoveryTypeOK, Copy, NotCopying, NoRestore, Steps, Applying

(* What the transaction of a restore reads, table by table.                   *)
LEMMA MineObjects ==
  ASSUME NEW a \in Tables, NEW t \in Tables, NEW own \in Session, NEW w,
         w = Mine(a, t, own)
  PROVE  \A c \in Objects : /\ c \in own.objects => w.pointer[c] = t.pointer[c]
                            /\ c \notin own.objects => w.pointer[c] = a.pointer[c]
BY DEF Mine

LEMMA MineVersions ==
  ASSUME NEW a \in Tables, NEW t \in Tables, NEW own \in Session, NEW w,
         w = Mine(a, t, own)
  PROVE  \A k \in VersionKeys : /\ k \in own.versions => w.version[k] = t.version[k]
                                /\ k \notin own.versions => w.version[k] = a.version[k]
BY DEF Mine

LEMMA MineChildren ==
  ASSUME NEW a \in Tables, NEW t \in Tables, NEW own \in Session, NEW w,
         w = Mine(a, t, own)
  PROVE  \A k \in VersionKeys : \A x \in Children :
           /\ <<k, x>> \in own.children => (x \in w.children[k] <=> x \in t.children[k])
           /\ <<k, x>> \notin own.children => (x \in w.children[k] <=> x \in a.children[k])
<1>1. PICK children :
        children = [k \in VersionKeys |->
             {x \in Children : IF <<k, x>> \in own.children THEN x \in t.children[k]
                               ELSE x \in a.children[k]}]
  OBVIOUS
<1>2. w.children = children
  BY <1>1 DEF Mine
<1>. QED
  BY <1>1, <1>2

LEMMA MineTables ==
  ASSUME NEW a \in Tables, NEW t \in Tables, NEW own \in Session, NEW w,
         w = Mine(a, t, own)
  PROVE  w \in Tables
<1>1. PICK pointer, version, children :
        /\ pointer = [c \in Objects |-> IF c \in own.objects THEN t.pointer[c] ELSE a.pointer[c]]
        /\ version = [k \in VersionKeys |-> IF k \in own.versions THEN t.version[k]
                                            ELSE a.version[k]]
        /\ children = [k \in VersionKeys |->
             {x \in Children : IF <<k, x>> \in own.children THEN x \in t.children[k]
                               ELSE x \in a.children[k]}]
  OBVIOUS
<1>2. w = [pointer |-> pointer, version |-> version, children |-> children]
  BY <1>1 DEF Mine
<1>3. pointer \in [Objects -> Missing .. MaxNumber]
  <2>. DEFINE Pointing == Missing .. MaxNumber
  <2>1. a.pointer \in [Objects -> Pointing] /\ t.pointer \in [Objects -> Pointing]
    BY TableRows
  <2>. HIDE DEF Pointing
  <2>2. pointer \in [Objects -> Pointing]
    BY <1>1, <2>1
  <2>. QED
    BY <2>2 DEF Pointing
<1>4. version \in [VersionKeys -> VersionRow]
  BY <1>1, TableRows
<1>5. children \in [VersionKeys -> SUBSET Children]
  BY <1>1
<1>. QED
  BY <1>2, <1>3, <1>4, <1>5, TablesWith

LEMMA SameChildren ==
  ASSUME NEW a \in Tables, NEW b \in Tables, NEW k \in VersionKeys,
         \A x \in Children : x \in a.children[k] <=> x \in b.children[k]
  PROVE  a.children[k] = b.children[k]
BY TableRows

LEMMA NoSessionRows ==
  /\ NoSession \in Session /\ NoSession.objects = {} /\ NoSession.versions = {}
  /\ NoSession.children = {} /\ NoSession.touched = {}
  /\ \A found \in Tables : LET s == [NoSession EXCEPT !.found = found] IN
       s \in Session /\ s.objects = {} /\ s.versions = {} /\ s.touched = {} /\ s.found = found
<1>1. Empty \in Tables
  BY EmptyRows
<1>. QED
  BY <1>1 DEF NoSession, Session

LEMMA RestoreSessions ==
  ASSUME NEW s \in Session
  PROVE  /\ s.objects \subseteq Objects /\ s.versions \subseteq VersionKeys
         /\ s.children \subseteq VersionKeys \X Children /\ s.seen \in Tables
         /\ s.touched \subseteq Objects /\ s.found \in Tables
         /\ s = [objects |-> s.objects, versions |-> s.versions, children |-> s.children,
                 seen |-> s.seen, touched |-> s.touched, found |-> s.found]
BY DEF Session

(* What others edit meanwhile leaves the keys of the restore's rows in place.  *)
LEMMA ViewGrows ==
  ASSUME NEW a \in Tables, NEW cat \in Tables, NEW t \in Tables,
         NEW own \in Session,
         Linked(cat), Grown(a, cat),
         \A c \in own.objects : t.pointer[c] # Missing,
         \A k \in own.versions : Exists(t, k),
         NEW w, w = Mine(a, t, own), NEW v, v = Mine(cat, t, own)
  PROVE  Grown(w, v) /\ (Linked(w) => Linked(v))
<1>1. /\ w \in Tables
      /\ \A c \in Objects : /\ c \in own.objects => w.pointer[c] = t.pointer[c]
                            /\ c \notin own.objects => w.pointer[c] = a.pointer[c]
      /\ \A k \in VersionKeys : /\ k \in own.versions => w.version[k] = t.version[k]
                                /\ k \notin own.versions => w.version[k] = a.version[k]
  <2>1. w \in Tables
    BY MineTables
  <2>2. \A c \in Objects : /\ c \in own.objects => w.pointer[c] = t.pointer[c]
                           /\ c \notin own.objects => w.pointer[c] = a.pointer[c]
    BY MineObjects
  <2>3. \A k \in VersionKeys : /\ k \in own.versions => w.version[k] = t.version[k]
                               /\ k \notin own.versions => w.version[k] = a.version[k]
    BY MineVersions
  <2>. QED
    BY <2>1, <2>2, <2>3
<1>2. /\ v \in Tables
      /\ \A c \in Objects : /\ c \in own.objects => v.pointer[c] = t.pointer[c]
                            /\ c \notin own.objects => v.pointer[c] = cat.pointer[c]
      /\ \A k \in VersionKeys : /\ k \in own.versions => v.version[k] = t.version[k]
                                /\ k \notin own.versions => v.version[k] = cat.version[k]
  <2>1. v \in Tables
    BY MineTables
  <2>2. \A c \in Objects : /\ c \in own.objects => v.pointer[c] = t.pointer[c]
                           /\ c \notin own.objects => v.pointer[c] = cat.pointer[c]
    BY MineObjects
  <2>3. \A k \in VersionKeys : /\ k \in own.versions => v.version[k] = t.version[k]
                               /\ k \notin own.versions => v.version[k] = cat.version[k]
    BY MineVersions
  <2>. QED
    BY <2>1, <2>2, <2>3
<1>3. ASSUME NEW k \in VersionKeys
      PROVE  /\ Exists(v, k) <=> k \in own.versions \/ Exists(cat, k)
             /\ Exists(w, k) => Exists(v, k)
  <2>1. /\ k \in own.versions => Exists(t, k)
        /\ Exists(a, k) => Exists(cat, k)
    BY DEF Grown
  <2>. QED
    BY <1>1, <1>2, <2>1 DEF Exists
<1>4. ASSUME NEW c \in Objects, w.pointer[c] # Missing
      PROVE  v.pointer[c] # Missing
  BY <1>1, <1>2, <1>4 DEF Grown
<1>5. ASSUME Linked(w), NEW k \in VersionKeys
      PROVE  /\ Exists(v, k) => v.pointer[k[1]] # Missing
             /\ v.children[k] # {} => Exists(v, k)
  <2>1. k[1] \in Objects
    BY KeyOf
  <2>2. ASSUME k \in own.versions PROVE v.pointer[k[1]] # Missing
    <3>1. Exists(w, k)
      BY <1>1, <2>2 DEF Exists
    <3>. QED
      BY <1>4, <1>5, <2>1, <3>1 DEF Linked
  <2>3. ASSUME Exists(cat, k) PROVE v.pointer[k[1]] # Missing
    BY <1>2, <2>1, <2>3 DEF Linked
  <2>4. ASSUME v.children[k] # {} PROVE Exists(v, k)
    <3>1. PICK x \in Children : x \in v.children[k]
      BY <1>2, <2>4, TableRows
    <3>2. CASE <<k, x>> \in own.children
      <4>1. x \in w.children[k]
        BY <3>1, <3>2, MineChildren
      <4>2. Exists(w, k)
        BY <1>5, <4>1 DEF Linked
      <4>. QED
        BY <1>3, <4>2
    <3>3. CASE <<k, x>> \notin own.children
      <4>1. x \in cat.children[k]
        BY <3>1, <3>3, MineChildren
      <4>2. Exists(cat, k)
        BY <4>1 DEF Linked
      <4>. QED
        BY <1>3, <4>2
    <3>. QED
      BY <3>2, <3>3
  <2>. QED
    BY <1>3, <2>2, <2>3, <2>4
<1>. QED
  BY <1>3, <1>4, <1>5 DEF Grown, Linked

(* The rows of an object that an edit left alone.                             *)
LEMMA LeftAlone ==
  ASSUME NEW cat, NEW c \in Objects, c \notin Changed(cat)
  PROVE  /\ cat.pointer[c] = catalog.pointer[c]
         /\ \A k \in VersionKeys : k[1] = c => /\ cat.version[k] = catalog.version[k]
                                              /\ cat.children[k] = catalog.children[k]
<1>1. cat.pointer[c] = catalog.pointer[c] /\ VersionsOf(cat, c) = VersionsOf(catalog, c)
  BY DEF Changed
<1>2. ASSUME NEW k \in VersionKeys, k[1] = c
      PROVE  cat.version[k] = catalog.version[k] /\ cat.children[k] = catalog.children[k]
  <2>1. k[2] \in 1 .. MaxNumber /\ k = <<c, k[2]>>
    BY <1>2, KeyOf
  <2>2. VersionsOf(cat, c)[k[2]] = <<cat.version[k], cat.children[k]>>
    BY <2>1 DEF VersionsOf
  <2>3. VersionsOf(catalog, c)[k[2]] = <<catalog.version[k], catalog.children[k]>>
    BY <2>1 DEF VersionsOf
  <2>. QED
    BY <1>1, <2>2, <2>3
<1>. QED
  BY <1>1, <1>2

LEMMA SessionSame ==
  ASSUME SessionHolds, catalog' = catalog, restore' = restore, session' = session
  PROVE  SessionHolds'
BY DEF SessionHolds, SessionView

LEMMA SessionEnds ==
  ASSUME restore'.step \notin Applying
  PROVE  SessionHolds'
BY DEF SessionHolds, Applying

(* The restore under way, when others edit.                                   *)
LEMMA EditKeepsSession ==
  ASSUME RecoveryInv, NEW cat \in Tables, Linked(cat), Edit(cat), Grown(catalog, cat),
         restore.step \in Applying
  PROVE  SessionHolds'
<1>. PICK t, w, v, own, new : /\ t = restore.bundle.tables /\ w = SessionView
                              /\ v = Mine(cat, t, session)
                              /\ own = session /\ new = session'
  OBVIOUS
<1>1. /\ catalog' = cat /\ restore' = restore
      /\ new = IF restore.step \in {"layers", "commit"}
                 THEN [own EXCEPT !.touched = @ \cup Changed(cat)] ELSE own
  BY DEF Edit
<1>2. /\ own \in Session /\ catalog \in Tables /\ t \in Tables
  <2>1. restore # NoRestore
    BY CopyRows DEF Applying
  <2>. QED
    BY <2>1, CopyRows DEF RecoveryInv, RecoveryTypeOK, Bundle
<1>3. /\ new.objects = own.objects /\ new.versions = own.versions
      /\ new.children = own.children /\ new.seen = own.seen /\ own.touched \subseteq new.touched
      /\ restore.step \in {"layers", "commit"} => Changed(cat) \subseteq new.touched
  BY <1>1, <1>2 DEF Session
<1>4. SessionView' = v
  <2>1. SessionView' = Mine(cat, t, new)
    BY <1>1 DEF SessionView
  <2>. QED
    BY <1>3, <2>1 DEF Mine
<1>5. w = Mine(catalog, t, own)
  BY DEF SessionView
<1>6. /\ \A c \in own.objects : t.pointer[c] # Missing
      /\ \A k \in own.versions : Exists(t, k)
  BY DEF RecoveryInv, SessionHolds
<1>7. Grown(w, v) /\ (Linked(w) => Linked(v))
  BY <1>2, <1>5, <1>6, ViewGrows
<1>8. ASSUME NEW c \in Objects, c \notin Changed(cat) \/ c \in own.objects
      PROVE  v.pointer[c] = w.pointer[c]
  <2>1. CASE c \in own.objects
    BY <1>2, <1>5, <2>1, MineObjects
  <2>2. CASE c \notin own.objects
    <3>1. cat.pointer[c] = catalog.pointer[c]
      BY <1>8, <2>2, LeftAlone
    <3>. QED
      BY <1>2, <1>5, <2>2, <3>1, MineObjects
  <2>. QED
    BY <2>1, <2>2
<1>9. ASSUME NEW k \in VersionKeys, k[1] \notin Changed(cat)
      PROVE  v.version[k] = w.version[k] /\ v.children[k] = w.children[k]
  <2>1. k[1] \in Objects
    BY KeyOf
  <2>2. cat.version[k] = catalog.version[k] /\ cat.children[k] = catalog.children[k]
    BY <1>9, <2>1, LeftAlone
  <2>3. v.version[k] = w.version[k]
    BY <1>2, <1>5, <2>2, MineVersions
  <2>5. v \in Tables /\ w \in Tables
    BY <1>2, <1>5, MineTables
  <2>4. ASSUME NEW x \in Children PROVE x \in v.children[k] <=> x \in w.children[k]
    <3>1. /\ <<k, x>> \in own.children => (x \in w.children[k] <=> x \in t.children[k])
          /\ <<k, x>> \notin own.children => (x \in w.children[k] <=> x \in catalog.children[k])
      BY <1>2, <1>5, MineChildren
    <3>2. /\ <<k, x>> \in own.children => (x \in v.children[k] <=> x \in t.children[k])
          /\ <<k, x>> \notin own.children => (x \in v.children[k] <=> x \in cat.children[k])
      BY <1>2, MineChildren
    <3>. QED
      BY <2>2, <3>1, <3>2
  <2>. QED
    BY <2>3, <2>4, <2>5, SameChildren
<1>10. restore.step \in {"layers", "commit"} => PointersRead(v, new)
  <2>. SUFFICES ASSUME restore.step \in {"layers", "commit"} PROVE PointersRead(v, new)
    OBVIOUS
  <2>1. PointersRead(w, own)
    BY DEF RecoveryInv, SessionHolds
  <2>2. ASSUME NEW c \in Objects, own.seen.pointer[c] # Missing PROVE v.pointer[c] # Missing
    BY <1>7, <2>1, <2>2 DEF PointersRead, Grown
  <2>3. ASSUME NEW c \in Objects, c \notin new.touched \/ c \in own.objects
        PROVE  v.pointer[c] = own.seen.pointer[c]
    BY <1>3, <1>8, <2>1, <2>3 DEF PointersRead
  <2>. QED
    BY <1>3, <2>2, <2>3 DEF PointersRead
<1>11. restore.step = "commit" => VersionsRead(v, new)
  <2>. SUFFICES ASSUME restore.step = "commit" PROVE VersionsRead(v, new)
    OBVIOUS
  <2>1. VersionsRead(w, own)
    BY DEF RecoveryInv, SessionHolds
  <2>2. ASSUME NEW k \in VersionKeys
        PROVE  /\ Exists(own.seen, k) => Exists(v, k)
               /\ k[1] \notin new.touched => /\ v.version[k] = own.seen.version[k]
                                             /\ v.children[k] = own.seen.children[k]
    <3>1. Exists(own.seen, k) => Exists(v, k)
      BY <1>7, <2>1 DEF VersionsRead, Grown
    <3>2. k[1] \notin new.touched => k[1] \notin Changed(cat) /\ k[1] \notin own.touched
      BY <1>3
    <3>. QED
      BY <1>9, <2>1, <3>1, <3>2 DEF VersionsRead
  <2>. QED
    BY <1>3, <2>1, <2>2 DEF VersionsRead
<1>12. restore.step \in {"pointers", "layers", "commit"} => Linked(v)
  BY <1>7 DEF RecoveryInv, SessionHolds
<1>13. restore.step = "commit" => Accepts(new.seen, restore.bundle.snapshot)
  BY <1>3 DEF RecoveryInv, SessionHolds
<1>. QED
  BY <1>1, <1>3, <1>4, <1>6, <1>10, <1>11, <1>12, <1>13 DEF SessionHolds

(* An edit of others, of rows whose keys hold before and after it.            *)
LEMMA EditKeeps ==
  ASSUME RecoveryInv, NEW cat \in Tables, Linked(cat), PointersHold(cat), Edit(cat),
         restore.step \in Applying => Grown(catalog, cat)
  PROVE  RecoveryInv'
<1>1. /\ catalog' = cat /\ edits < MaxEdits /\ edits' = edits + 1 /\ outcome' = NoOutcome
      /\ bundles' = bundles /\ restore' = restore
      /\ session' = IF restore.step \in {"layers", "commit"}
                      THEN [session EXCEPT !.touched = @ \cup Changed(cat)] ELSE session
      /\ copying' = IF copying.to = "none" THEN copying ELSE [copying EXCEPT !.whole = FALSE]
  BY DEF Edit
<1>2. /\ copying' \in Copy \cup {NotCopying} /\ copying'.to = copying.to
      /\ copying' # NotCopying => ~copying'.whole
  <2>1. CASE copying = NotCopying
    BY <1>1, <2>1, CopyRows
  <2>2. CASE copying # NotCopying
    <3>1. copying \in Copy /\ copying' = [copying EXCEPT !.whole = FALSE]
      BY <1>1, <2>2, CopyRows
    <3>. DEFINE Reads == 0 .. 6
    <3>. HIDE DEF Reads
    <3>2. copying \in [to: {"baseline", "before"}, reads: Reads, tables: Tables, seen: Tables,
                       whole: BOOLEAN]
      BY <3>1 DEF Copy, Reads
    <3>3. /\ copying' \in [to: {"baseline", "before"}, reads: Reads, tables: Tables, seen: Tables,
                           whole: BOOLEAN]
          /\ copying'.to = copying.to /\ copying'.whole = FALSE
      BY <3>1, <3>2
    <3>. QED
      BY <3>3 DEF Copy, Reads
  <2>. QED
    BY <2>1, <2>2
<1>3. edits' \in 0 .. MaxEdits
  BY <1>1, RecoveryBounds DEF RecoveryInv, RecoveryTypeOK
<1>4. /\ session' \in Session /\ session'.found = session.found
      /\ restore.step \notin Applying => session' = session
  <2>1. session \in Session /\ Changed(cat) \subseteq Objects
    BY DEF RecoveryInv, RecoveryTypeOK, Changed
  <2>. QED
    BY <1>1, <2>1 DEF Session, Applying
<1>5. RecoveryTypeOK'
  BY <1>1, <1>2, <1>3, <1>4 DEF RecoveryInv, RecoveryTypeOK
<1>6. BundlesHold' /\ CopyHolds' /\ OutcomeHolds' /\ PointersHold(catalog)'
  BY <1>1, <1>2 DEF RecoveryInv, BundlesHold, CopyHolds, OutcomeHolds, PointersHold
<1>7. RestoreHolds'
  BY <1>1, <1>2, <1>4 DEF RecoveryInv, RestoreHolds, Grown
<1>8. SessionHolds'
  <2>1. CASE restore.step \in Applying
    BY <2>1, EditKeepsSession
  <2>2. CASE restore.step \notin Applying
    BY <1>1, <2>2, SessionEnds
  <2>. QED
    BY <2>1, <2>2
<1>. QED
  BY <1>5, <1>6, <1>7, <1>8 DEF RecoveryInv

LEMMA CatalogRows ==
  ASSUME RecoveryInv
  PROVE  /\ catalog \in Tables /\ Linked(catalog) /\ PointersHold(catalog)
         /\ catalog = [pointer |-> catalog.pointer, version |-> catalog.version,
                       children |-> catalog.children]
BY DEF RecoveryInv, RecoveryTypeOK, Tables

LEMMA CreateVersionKeeps ==
  ASSUME RecoveryInv, NEW c \in Objects, CreateVersion(c)
  PROVE  RecoveryInv'
<1>. PICK a : a = catalog
  OBVIOUS
<1>1. /\ a \in Tables /\ Linked(a) /\ PointersHold(a)
      /\ a = [pointer |-> a.pointer, version |-> a.version, children |-> a.children]
  BY CatalogRows
<1>. PICK n, k : n = Cardinality(NumbersOf(c)) + 1 /\ k = <<c, Cardinality(NumbersOf(c)) + 1>>
  OBVIOUS
<1>2. k \in VersionKeys /\ k[1] = c
  <2>1. NumbersOf(c) \subseteq 1 .. MaxNumber /\ IsFiniteSet(1 .. MaxNumber)
    BY RecoveryBounds, FS_Interval DEF NumbersOf
  <2>2. Cardinality(NumbersOf(c)) \in Nat
    BY <2>1, FS_Subset, FS_CardinalityType
  <2>3. n \in 1 .. MaxNumber
    BY <2>2, RecoveryBounds DEF CreateVersion
  <2>. QED
    BY <2>3, KeyFor
<1>. PICK row : row = [status |-> "draft", content |-> "written"]
  OBVIOUS
<1>3. row \in VersionRow /\ row # NoVersion
  BY DEF VersionRow, NoVersion
<1>4. PICK children \in {{}, {First}} :
        Edit([a EXCEPT !.pointer[c] = IF @ = Missing THEN 0 ELSE @, !.version[k] = row,
                       !.children[k] = children])
  BY DEF CreateVersion
<1>20. PICK pointer, version, kids, cat :
       /\ pointer = [a.pointer EXCEPT ![c] = IF a.pointer[c] = Missing THEN 0 ELSE a.pointer[c]]
       /\ version = [a.version EXCEPT ![k] = row]
       /\ kids = [a.children EXCEPT ![k] = children]
       /\ cat = [a EXCEPT !.pointer[c] = IF @ = Missing THEN 0 ELSE @, !.version[k] = row,
                          !.children[k] = children]
  OBVIOUS
<1>5. cat = [pointer |-> pointer, version |-> version, children |-> kids]
  BY <1>1, <1>20
<1>6. pointer \in [Objects -> Missing .. MaxNumber]
  <2>1. 0 \in Missing .. MaxNumber /\ a.pointer \in [Objects -> Missing .. MaxNumber]
    BY <1>1, TableRows, RecoveryBounds DEF Missing
  <2>. QED
    BY <1>20, <2>1
<1>7. version \in [VersionKeys -> VersionRow] /\ kids \in [VersionKeys -> SUBSET Children]
  <2>1. children \in SUBSET Children
    BY <1>4, RecoveryBounds
  <2>. QED
    BY <1>1, <1>3, <1>20, <2>1, TableRows
<1>8. cat \in Tables /\ cat.pointer = pointer /\ cat.version = version /\ cat.children = kids
  BY <1>5, <1>6, <1>7, TablesWith
<1>9. \A x \in VersionKeys : /\ Exists(cat, x) <=> Exists(a, x) \/ x = k
                             /\ cat.children[x] = a.children[x] \/ x = k
  BY <1>1, <1>2, <1>3, <1>8, <1>20, TableRows DEF Exists
<1>10. \A o \in Objects : /\ cat.pointer[o] = a.pointer[o]
                             \/ (o = c /\ a.pointer[o] = Missing /\ cat.pointer[o] = 0)
                          /\ o = c => cat.pointer[o] # Missing
  BY <1>1, <1>8, <1>20, TableRows
<1>11. Linked(cat)
  BY <1>1, <1>2, <1>9, <1>10, KeyOf DEF Linked, Missing
<1>12. PointersHold(cat)
  <2>. SUFFICES ASSUME NEW o \in Objects, cat.pointer[o] > 0
                PROVE  Exists(cat, <<o, cat.pointer[o]>>)
    BY DEF PointersHold
  <2>1. cat.pointer[o] = a.pointer[o] /\ Exists(a, <<o, a.pointer[o]>>)
    BY <1>1, <1>10 DEF PointersHold
  <2>2. <<o, a.pointer[o]>> \in VersionKeys
    BY <1>1, <2>1, TableRows, RecoveryBounds, KeyFor
  <2>. QED
    BY <1>9, <2>1, <2>2
<1>13. Edit(cat)
  BY <1>4, <1>20
<1>14. Grown(a, cat)
  BY <1>9, <1>10 DEF Grown
<1>. QED
  BY <1>8, <1>11, <1>12, <1>13, <1>14, EditKeeps

LEMMA PublishVersionKeeps ==
  ASSUME RecoveryInv, NEW c \in Objects, Publish(c)
  PROVE  RecoveryInv'
<1>. PICK a : a = catalog
  OBVIOUS
<1>1. /\ a \in Tables /\ Linked(a) /\ PointersHold(a)
      /\ a = [pointer |-> a.pointer, version |-> a.version, children |-> a.children]
  BY CatalogRows
<1>2. PICK n \in NumbersOf(c) :
        /\ a.version[<<c, n>>].status = "draft"
        /\ LET old == a.pointer[c]
               cat == IF old > 0 THEN [a EXCEPT !.version[<<c, old>>].status = "deprecated"] ELSE a
           IN  Edit([cat EXCEPT !.version[<<c, n>>].status = "published", !.pointer[c] = n])
  BY DEF Publish
<1>. PICK k : k = <<c, n>>
  OBVIOUS
<1>3. n \in 1 .. MaxNumber /\ Exists(a, k) /\ k \in VersionKeys /\ k[1] = c
  BY KeyFor DEF NumbersOf
<1>. PICK v, b : /\ v = IF a.pointer[c] > 0
                        THEN [a.version EXCEPT ![<<c, a.pointer[c]>>].status = "deprecated"]
                        ELSE a.version
                 /\ b = IF a.pointer[c] > 0
                        THEN [a EXCEPT !.version[<<c, a.pointer[c]>>].status = "deprecated"] ELSE a
  OBVIOUS
<1>4. b = [pointer |-> a.pointer, version |-> v, children |-> a.children]
  BY <1>1
<1>5. /\ v \in [VersionKeys -> VersionRow]
      /\ \A x \in VersionKeys : v[x] # NoVersion <=> Exists(a, x)
  <2>1. CASE a.pointer[c] > 0
    <3>. PICK x, row : x = <<c, a.pointer[c]>>
                       /\ row = [a.version[<<c, a.pointer[c]>>] EXCEPT !.status = "deprecated"]
      OBVIOUS
    <3>1. x \in VersionKeys /\ Exists(a, x)
      BY <1>1, <2>1, TableRows, RecoveryBounds, KeyFor DEF PointersHold
    <3>2. row \in VersionRow /\ row # NoVersion
      <4>1. PICK was : was = a.version[x]
        OBVIOUS
      <4>2. was \in VersionRow /\ row = [was EXCEPT !.status = "deprecated"]
        BY <1>1, <3>1, <4>1, TableRows
      <4>. QED
        BY <4>2, StatusChanged
    <3>3. v = [a.version EXCEPT ![x] = row] /\ a.version \in [VersionKeys -> VersionRow]
      BY <1>1, <2>1, TableRows
    <3>. QED
      BY <3>1, <3>2, <3>3 DEF Exists
  <2>2. CASE ~(a.pointer[c] > 0)
    BY <1>1, <2>2, TableRows DEF Exists
  <2>. QED
    BY <2>1, <2>2
<1>20. PICK pointer, row, cat :
       /\ pointer = [a.pointer EXCEPT ![c] = n]
       /\ row = [v[k] EXCEPT !.status = "published"]
       /\ cat = [b EXCEPT !.version[k].status = "published", !.pointer[c] = n]
  OBVIOUS
<1>6. row \in VersionRow /\ row # NoVersion
  <2>1. PICK was : was = v[k]
    OBVIOUS
  <2>2. was \in VersionRow /\ row = [was EXCEPT !.status = "published"]
    BY <1>3, <1>5, <1>20, <2>1
  <2>. QED
    BY <2>2, StatusChanged
<1>21. PICK version : version = [v EXCEPT ![k] = row]
  OBVIOUS
<1>7. cat = [pointer |-> pointer, version |-> version, children |-> a.children]
  BY <1>4, <1>20, <1>21
<1>8. pointer \in [Objects -> Missing .. MaxNumber]
  <2>1. n \in Missing .. MaxNumber /\ a.pointer \in [Objects -> Missing .. MaxNumber]
    BY <1>1, <1>3, TableRows, RecoveryBounds DEF Missing
  <2>. QED
    BY <1>20, <2>1
<1>9. version \in [VersionKeys -> VersionRow]
  BY <1>3, <1>5, <1>6, <1>21
<1>10. cat \in Tables /\ cat.pointer = pointer /\ cat.version = version /\ cat.children = a.children
  <2>1. a.children \in [VersionKeys -> SUBSET Children]
    BY <1>1, TableRows
  <2>. QED
    BY <1>7, <1>8, <1>9, <2>1, TablesWith
<1>11. \A x \in VersionKeys : Exists(cat, x) <=> Exists(a, x)
  <2>1. \A x \in VersionKeys : cat.version[x] = IF x = k THEN row ELSE v[x]
    BY <1>3, <1>5, <1>10, <1>21
  <2>2. \A x \in VersionKeys : cat.version[x] # NoVersion <=> a.version[x] # NoVersion
    BY <1>3, <1>5, <1>6, <2>1 DEF Exists
  <2>. QED
    BY <2>2 DEF Exists
<1>12. \A o \in Objects : cat.pointer[o] = IF o = c THEN n ELSE a.pointer[o]
  BY <1>1, <1>10, <1>20, TableRows
<1>13. n > 0 /\ n # Missing
  BY <1>3 DEF Missing
<1>14. Linked(cat)
  BY <1>1, <1>10, <1>11, <1>12, <1>13, KeyOf DEF Linked
<1>15. PointersHold(cat)
  <2>. SUFFICES ASSUME NEW o \in Objects, cat.pointer[o] > 0
                PROVE  Exists(cat, <<o, cat.pointer[o]>>)
    BY DEF PointersHold
  <2>1. CASE o = c
    BY <1>3, <1>11, <1>12, <2>1
  <2>2. CASE o # c
    <3>1. cat.pointer[o] = a.pointer[o] /\ Exists(a, <<o, a.pointer[o]>>)
      BY <1>1, <1>12, <2>2 DEF PointersHold
    <3>2. <<o, a.pointer[o]>> \in VersionKeys
      BY <1>1, <3>1, TableRows, RecoveryBounds, KeyFor
    <3>. QED
      BY <1>11, <3>1, <3>2
  <2>. QED
    BY <2>1, <2>2
<1>16. Edit(cat)
  BY <1>2, <1>20
<1>17. Grown(a, cat)
  BY <1>11, <1>12, <1>13 DEF Grown
<1>. QED
  BY <1>10, <1>14, <1>15, <1>16, <1>17, EditKeeps

LEMMA BackfillRowsKeep ==
  ASSUME RecoveryInv, NEW c \in Objects, Backfill(c)
  PROVE  RecoveryInv'
<1>. PICK a : a = catalog
  OBVIOUS
<1>1. /\ a \in Tables /\ Linked(a) /\ PointersHold(a)
      /\ a = [pointer |-> a.pointer, version |-> a.version, children |-> a.children]
  BY CatalogRows
<1>2. PICK child \in Children :
        /\ a.pointer[c] > 0
        /\ Edit([a EXCEPT !.children[<<c, a.pointer[c]>>] = @ \cup {child}])
  BY DEF Backfill
<1>. PICK k, kids, cat :
       /\ k = <<c, a.pointer[c]>>
       /\ kids = [a.children EXCEPT ![<<c, a.pointer[c]>>] = a.children[<<c, a.pointer[c]>>]
                                                              \cup {child}]
       /\ cat = [a EXCEPT !.children[<<c, a.pointer[c]>>] = @ \cup {child}]
  OBVIOUS
<1>3. k \in VersionKeys /\ Exists(a, k)
  BY <1>1, <1>2, TableRows, RecoveryBounds, KeyFor DEF PointersHold
<1>4. kids \in [VersionKeys -> SUBSET Children]
  BY <1>1, <1>3, TableRows
<1>5. cat = [pointer |-> a.pointer, version |-> a.version, children |-> kids]
  BY <1>1
<1>6. cat \in Tables /\ cat.pointer = a.pointer /\ cat.version = a.version /\ cat.children = kids
  BY SMTT(30), <1>1, <1>4, <1>5, TableRows, TablesWith
<1>7. \A x \in VersionKeys : (Exists(cat, x) <=> Exists(a, x))
                             /\ (cat.children[x] = a.children[x] \/ x = k)
  BY <1>1, <1>3, <1>6, TableRows DEF Exists
<1>8. Linked(cat)
  BY <1>1, <1>3, <1>6, <1>7 DEF Linked
<1>9. PointersHold(cat)
  BY <1>1, <1>6 DEF PointersHold, Exists
<1>10. Grown(a, cat)
  BY <1>6, <1>7 DEF Grown
<1>. QED
  BY <1>2, <1>6, <1>8, <1>9, <1>10, EditKeeps

LEMMA NormalizeKeeps ==
  ASSUME RecoveryInv, NormalizeSources
  PROVE  RecoveryInv'
<1>. PICK n, r : n = bundles["baseline"].snapshot /\ r = RestoreLayer(catalog, n)
  OBVIOUS
<1>1. /\ n \in Snapshots /\ Accepts(catalog, n)
      /\ \A c \in Objects : n[c].pointer <= 0 => n[c].hash = NoHash
  BY DEF NormalizeSources, RecoveryInv, BundlesHold, BundleHolds, Bundle
<1>2. r \in Tables /\ Linked(r) /\ PointersHold(r)
  BY <1>1, CatalogRows, RestoredIs
<1>. PICK version :
       version = [k \in VersionKeys |-> IF r.version[k] = NoVersion THEN r.version[k]
                                        ELSE [r.version[k] EXCEPT !.content = "baseline"]]
  OBVIOUS
<1>3. Edit([r EXCEPT !.version = version])
  BY DEF NormalizeSources
<1>. PICK cat : cat = [r EXCEPT !.version = version]
  OBVIOUS
<1>4. ASSUME NEW k \in VersionKeys
      PROVE  version[k] \in VersionRow /\ (version[k] # NoVersion <=> r.version[k] # NoVersion)
  <2>. PICK row, new : row = r.version[k] /\ new = [row EXCEPT !.content = "baseline"]
    OBVIOUS
  <2>1. row \in VersionRow
    BY <1>2, TableRows
  <2>2. new \in VersionRow /\ new.content = "baseline"
    BY <2>1 DEF VersionRow
  <2>3. new # NoVersion
    BY <2>2 DEF NoVersion
  <2>. QED
    BY <2>1, <2>2, <2>3
<1>5. version \in [VersionKeys -> VersionRow]
  BY <1>4
<1>6. cat = [pointer |-> r.pointer, version |-> version, children |-> r.children]
  BY <1>2 DEF Tables
<1>7. cat \in Tables /\ cat.pointer = r.pointer /\ cat.version = version
      /\ cat.children = r.children
  BY <1>2, <1>5, <1>6, TableRows, TablesWith
<1>8. \A k \in VersionKeys : Exists(cat, k) <=> Exists(r, k)
  BY <1>4, <1>7 DEF Exists
<1>9. Linked(cat)
  BY <1>2, <1>7, <1>8 DEF Linked
<1>10. PointersHold(cat)
  <2>. SUFFICES ASSUME NEW o \in Objects, cat.pointer[o] > 0
                PROVE  Exists(cat, <<o, cat.pointer[o]>>)
    BY DEF PointersHold
  <2>1. cat.pointer[o] = r.pointer[o] /\ Exists(r, <<o, r.pointer[o]>>)
    BY <1>2, <1>7 DEF PointersHold
  <2>2. <<o, r.pointer[o]>> \in VersionKeys
    BY <1>2, <2>1, TableRows, RecoveryBounds, KeyFor
  <2>. QED
    BY <1>8, <2>1, <2>2
<1>11. restore.step \notin Applying
  BY DEF NormalizeSources, Applying
<1>. QED
  BY <1>3, <1>7, <1>9, <1>10, <1>11, EditKeeps

LEMMA ReinstallKeeps ==
  ASSUME RecoveryInv, Reinstall
  PROVE  RecoveryInv'
<1>1. /\ catalog' = Empty /\ edits' = MaxEdits /\ outcome' = NoOutcome /\ bundles' = bundles
      /\ copying' = copying /\ restore' = restore /\ restore.step = "idle"
      /\ copying = NotCopying /\ session' = session
  BY DEF Reinstall
<1>2. Empty \in Tables /\ Linked(Empty) /\ PointersHold(Empty)
  BY EmptyRows
<1>3. RecoveryTypeOK'
  BY <1>1, <1>2, RecoveryBounds DEF RecoveryInv, RecoveryTypeOK
<1>4. restore.step \notin Applying /\ outcome' = NoOutcome
  BY <1>1 DEF Applying
<1>5. SessionHolds'
  BY <1>1, <1>4, SessionEnds
<1>. QED
  BY <1>1, <1>2, <1>3, <1>4, <1>5
  DEF RecoveryInv, BundlesHold, CopyHolds, RestoreHolds, OutcomeHolds, PointersHold

LEMMA CopyStarts ==
  ASSUME NEW f \in {"baseline", "before"}, StartCopy(f)
  PROVE  /\ copying' \in Copy /\ copying'.to = f /\ copying'.reads = 0
<1>1. Empty \in Tables
  BY EmptyRows
<1>2. copying' = [to |-> f, reads |-> 0, tables |-> Empty, seen |-> Empty, whole |-> TRUE]
  BY DEF StartCopy
<1>. DEFINE Reads == 0 .. 6
<1>3. 0 \in Reads
  OBVIOUS
<1>. HIDE DEF Reads
<1>4. copying' \in [to: {"baseline", "before"}, reads: Reads, tables: Tables, seen: Tables,
                    whole: BOOLEAN]
  BY <1>1, <1>2, <1>3
<1>. QED
  BY <1>2, <1>4 DEF Copy, Reads

LEMMA StartBundleKeeps ==
  ASSUME RecoveryInv, StartBundle
  PROVE  RecoveryInv'
<1>1. /\ catalog' = catalog /\ bundles' = bundles /\ restore' = restore /\ outcome' = outcome
      /\ edits' = edits /\ copying = NotCopying /\ restore.step = "idle" /\ session' = session
  BY DEF StartBundle
<1>2. copying' \in Copy /\ copying'.to = "baseline" /\ copying'.reads = 0
  BY CopyStarts DEF StartBundle
<1>3. RecoveryTypeOK'
  BY <1>1, <1>2 DEF RecoveryInv, RecoveryTypeOK
<1>4. RestoreHolds'
  BY <1>1, <1>2, CopyRows DEF RecoveryInv, RestoreHolds, Applying
<1>5. CopyHolds'
  BY <1>2 DEF CopyHolds
<1>6. OutcomeHolds' /\ SessionHolds'
  BY <1>1, SessionSame DEF RecoveryInv, OutcomeHolds, RestoredIsTheSnapshot
<1>. QED
  BY <1>1, <1>3, <1>4, <1>5, <1>6 DEF RecoveryInv, BundlesHold, PointersHold

LEMMA PreviewKeeps ==
  ASSUME RecoveryInv, NEW f \in {"baseline", "before"}, Preview(f)
  PROVE  RecoveryInv'
<1>1. /\ catalog' = catalog /\ bundles' = bundles /\ outcome' = NoOutcome /\ edits' = edits
      /\ copying' = copying /\ copying = NotCopying /\ bundles[f].written
      /\ session' = session /\ restore.step = "idle"
  BY DEF Preview
<1>. PICK b : b = bundles[f]
  OBVIOUS
<1>2. BundleHolds(b) /\ b \in Bundle /\ restore' = [step |-> "previewed", bundle |-> b]
  BY <1>1 DEF RecoveryInv, BundlesHold, BundleHolds, Preview
<1>3. restore' \in [step: Steps, bundle: Bundle]
      /\ restore'.step = "previewed" /\ restore'.bundle = b
  BY <1>2 DEF Steps
<1>4. RecoveryTypeOK'
  BY <1>1, <1>3 DEF RecoveryInv, RecoveryTypeOK
<1>5. RestoreHolds'
  BY <1>1, <1>2, <1>3, CopyRows DEF RecoveryInv, RestoreHolds, Applying
<1>6. CopyHolds' /\ OutcomeHolds' /\ BundlesHold' /\ PointersHold(catalog)'
  BY <1>1 DEF RecoveryInv, CopyHolds, OutcomeHolds, BundlesHold, PointersHold
<1>7. SessionHolds'
  BY <1>3, SessionEnds DEF Applying
<1>. QED
  BY <1>4, <1>5, <1>6, <1>7 DEF RecoveryInv

LEMMA ConfirmKeeps ==
  ASSUME RecoveryInv, Confirm
  PROVE  RecoveryInv'
<1>1. /\ catalog' = catalog /\ bundles' = bundles /\ outcome' = outcome /\ edits' = edits
      /\ restore.step = "previewed" /\ restore' = [restore EXCEPT !.step = "copying"]
      /\ session' = session
  BY DEF Confirm
<1>2. copying' \in Copy /\ copying'.to = "before" /\ copying'.reads = 0
  BY CopyStarts DEF Confirm
<1>3. restore # NoRestore /\ restore \in [step: Steps, bundle: Bundle]
  BY <1>1, CopyRows DEF RecoveryInv, RecoveryTypeOK, NoRestore
<1>4. /\ restore' \in [step: Steps, bundle: Bundle]
      /\ restore'.step = "copying" /\ restore'.bundle = restore.bundle
  BY <1>1, <1>3 DEF Steps
<1>5. BundleHolds(restore.bundle) /\ outcome = NoOutcome
  BY <1>3 DEF RecoveryInv, RestoreHolds, OutcomeHolds
<1>6. RecoveryTypeOK'
  BY <1>1, <1>2, <1>4 DEF RecoveryInv, RecoveryTypeOK
<1>7. RestoreHolds'
  BY <1>1, <1>2, <1>4, <1>5, CopyRows DEF RecoveryInv, RestoreHolds, Applying
<1>8. CopyHolds' /\ OutcomeHolds' /\ BundlesHold' /\ PointersHold(catalog)'
  BY <1>1, <1>2, <1>5 DEF RecoveryInv, CopyHolds, OutcomeHolds, BundlesHold, PointersHold
<1>9. SessionHolds'
  BY <1>4, SessionEnds DEF Applying
<1>. QED
  BY <1>6, <1>7, <1>8, <1>9 DEF RecoveryInv

LEMMA InterruptedKeeps ==
  ASSUME RecoveryInv, Interrupted
  PROVE  RecoveryInv'
<1>1. /\ catalog' = catalog /\ bundles' = bundles /\ outcome' = outcome /\ edits' = edits
      /\ copying' = NotCopying /\ restore' = NoRestore /\ session' = NoSession
  BY DEF Interrupted, Ended
<1>2. RecoveryTypeOK'
  BY <1>1, NoSessionRows DEF RecoveryInv, RecoveryTypeOK
<1>3. RestoreHolds'
  BY <1>1, CopyRows DEF RestoreHolds, Applying
<1>4. CopyHolds' /\ OutcomeHolds' /\ BundlesHold' /\ PointersHold(catalog)'
  BY <1>1 DEF RecoveryInv, CopyHolds, OutcomeHolds, BundlesHold, PointersHold, RestoredIsTheSnapshot
<1>5. SessionHolds'
  BY <1>1, CopyRows, SessionEnds DEF Applying
<1>. QED
  BY <1>2, <1>3, <1>4, <1>5 DEF RecoveryInv

(* What ends a restore without a commit.                                      *)
LEMMA RolledBackKeeps ==
  ASSUME RecoveryInv, restore.step \in Applying, Ended,
         UNCHANGED <<catalog, bundles, copying, outcome, edits>>
  PROVE  RecoveryInv'
<1>1. restore' = NoRestore /\ session' = NoSession
  BY DEF Ended
<1>2. copying.to # "before" /\ copying.to # "baseline" /\ copying = NotCopying
      /\ outcome = NoOutcome
  <2>1. restore # NoRestore /\ copying.to # "before" /\ copying.to # "baseline"
    BY CopyRows DEF Applying, RecoveryInv, RestoreHolds
  <2>2. copying = NotCopying
    BY <2>1, CopyRows DEF Copy
  <2>. QED
    BY <2>1, <2>2 DEF RecoveryInv, OutcomeHolds
<1>3. RecoveryTypeOK'
  BY <1>1, NoSessionRows DEF RecoveryInv, RecoveryTypeOK
<1>4. RestoreHolds'
  BY <1>1, <1>2, CopyRows DEF RestoreHolds, Applying
<1>5. SessionHolds'
  BY <1>1, CopyRows, SessionEnds DEF Applying
<1>6. CopyHolds' /\ OutcomeHolds' /\ BundlesHold' /\ PointersHold(catalog)'
  BY <1>2 DEF RecoveryInv, CopyHolds, OutcomeHolds, BundlesHold, PointersHold
<1>. QED
  BY <1>3, <1>4, <1>5, <1>6 DEF RecoveryInv

(* A statement of a restore after which its session holds.                    *)
LEMMA StatementKeeps ==
  ASSUME RecoveryInv, restore.step \in Applying, NEW step \in Applying,
         restore' = [restore EXCEPT !.step = step], session' \in Session,
         session'.found = session.found, SessionHolds',
         UNCHANGED <<catalog, bundles, copying, outcome, edits>>
  PROVE  RecoveryInv'
<1>1. restore # NoRestore /\ restore.step # "copying"
  BY CopyRows DEF Applying
<1>2. restore \in [step: Steps, bundle: Bundle] /\ outcome = NoOutcome
  BY <1>1 DEF RecoveryInv, RecoveryTypeOK, OutcomeHolds
<1>3. /\ restore' \in [step: Steps, bundle: Bundle] /\ restore'.step = step
      /\ restore'.bundle = restore.bundle
  BY <1>2 DEF Steps
<1>4. RecoveryTypeOK'
  BY <1>3 DEF RecoveryInv, RecoveryTypeOK
<1>5. RestoreHolds'
  BY <1>1, <1>3 DEF RecoveryInv, RestoreHolds, Applying
<1>6. CopyHolds' /\ OutcomeHolds' /\ BundlesHold' /\ PointersHold(catalog)'
  BY <1>2 DEF RecoveryInv, CopyHolds, OutcomeHolds, BundlesHold, PointersHold
<1>. QED
  BY <1>4, <1>5, <1>6 DEF RecoveryInv

LEMMA ApplyingRows ==
  ASSUME RecoveryInv, restore.step \in Applying
  PROVE  /\ catalog \in Tables /\ session \in Session /\ BundleHolds(restore.bundle)
         /\ restore.bundle.tables \in Tables /\ restore.bundle.snapshot \in Snapshots
         /\ \A c \in Objects : restore.bundle.snapshot[c].pointer <= 0
                                 => restore.bundle.snapshot[c].hash = NoHash
         /\ restore \in [step: Steps, bundle: Bundle] /\ restore # NoRestore
         /\ SessionView \in Tables
<1>1. restore # NoRestore
  BY CopyRows DEF Applying
<1>2. /\ catalog \in Tables /\ session \in Session /\ BundleHolds(restore.bundle)
      /\ restore \in [step: Steps, bundle: Bundle]
  BY <1>1 DEF RecoveryInv, RecoveryTypeOK, RestoreHolds
<1>3. /\ restore.bundle.tables \in Tables /\ restore.bundle.snapshot \in Snapshots
      /\ \A c \in Objects : restore.bundle.snapshot[c].pointer <= 0
                              => restore.bundle.snapshot[c].hash = NoHash
  BY <1>2 DEF BundleHolds, Bundle
<1>4. SessionView \in Tables
  BY <1>2, <1>3, MineTables DEF SessionView
<1>. QED
  BY <1>1, <1>2, <1>3, <1>4

LEMMA SyncObjectsKeeps ==
  ASSUME RecoveryInv, SyncObjects
  PROVE  RecoveryInv'
<1>1. restore.step = "objects" /\ restore.step \in Applying /\ "versions" \in Applying
  BY DEF SyncObjects, Applying
<1>. PICK t, s : t = restore.bundle.tables /\ s = Synced(catalog, restore.bundle.tables)
  OBVIOUS
<1>. PICK written : written = {c \in Objects : s.pointer[c] # catalog.pointer[c]}
  OBVIOUS
<1>2. /\ session' = [session EXCEPT !.objects = written]
      /\ restore' = [restore EXCEPT !.step = "versions"]
      /\ UNCHANGED <<catalog, bundles, copying, outcome, edits>>
  BY DEF SyncObjects
<1>3. /\ session' \in Session /\ session'.objects = written
      /\ session'.versions = session.versions /\ session'.found = session.found
  BY <1>1, <1>2, ApplyingRows DEF Session
<1>4. restore'.step = "versions" /\ restore'.bundle = restore.bundle
  BY <1>1, <1>2, ApplyingRows
<1>5. \A c \in written : t.pointer[c] # Missing
  BY <1>1, ApplyingRows, SyncedRows
<1>6. \A k \in session.versions : Exists(t, k)
  BY <1>1 DEF RecoveryInv, SessionHolds
<1>7. SessionHolds'
  BY <1>3, <1>4, <1>5, <1>6 DEF SessionHolds
<1>. QED
  BY <1>1, <1>2, <1>3, <1>7, StatementKeeps

LEMMA SyncVersionsKeeps ==
  ASSUME RecoveryInv, SyncVersions
  PROVE  RecoveryInv'
<1>1. restore.step = "versions" /\ restore.step \in Applying /\ "pointers" \in Applying
  BY DEF SyncVersions, Applying
<1>. PICK t, s : t = restore.bundle.tables /\ s = Synced(catalog, restore.bundle.tables)
  OBVIOUS
<1>. PICK written, children :
       /\ written = {k \in VersionKeys : s.version[k] # catalog.version[k]}
       /\ children = {x \in VersionKeys \X Children :
                        ~(x[2] \in s.children[x[1]] <=> x[2] \in catalog.children[x[1]])}
  OBVIOUS
<1>. PICK own : own = [session EXCEPT !.versions = written, !.children = children]
  OBVIOUS
<1>2. /\ IF Linked(Mine(catalog, t, own))
           THEN session' = own /\ restore' = [restore EXCEPT !.step = "pointers"]
           ELSE Ended
      /\ UNCHANGED <<catalog, bundles, copying, outcome, edits>>
  BY DEF SyncVersions
<1>3. CASE ~Linked(Mine(catalog, t, own))
  BY <1>1, <1>2, <1>3, RolledBackKeeps
<1>4. CASE Linked(Mine(catalog, t, own))
  <2>1. session' = own /\ restore' = [restore EXCEPT !.step = "pointers"]
    BY <1>2, <1>4
  <2>2. /\ own \in Session /\ own.objects = session.objects /\ own.versions = written
        /\ own.found = session.found
    BY <1>1, ApplyingRows DEF Session
  <2>3. restore'.step = "pointers" /\ restore'.bundle = restore.bundle
    BY <1>1, <2>1, ApplyingRows
  <2>4. \A k \in written : Exists(t, k)
    BY <1>1, ApplyingRows, SyncedRows
  <2>5. \A c \in session.objects : t.pointer[c] # Missing
    BY <1>1 DEF RecoveryInv, SessionHolds
  <2>6. SessionView' = Mine(catalog, t, own)
    BY <1>2, <2>1, <2>3 DEF SessionView
  <2>7. SessionHolds'
    BY <1>4, <2>1, <2>2, <2>3, <2>4, <2>5, <2>6 DEF SessionHolds
  <2>. QED
    BY <1>1, <1>2, <2>1, <2>2, <2>7, StatementKeeps
<1>. QED
  BY <1>3, <1>4

LEMMA ReadPointersKeeps ==
  ASSUME RecoveryInv, ReadPointers
  PROVE  RecoveryInv'
<1>1. restore.step = "pointers" /\ restore.step \in Applying /\ "layers" \in Applying
  BY DEF ReadPointers, Applying
<1>. PICK t, w, own, seen, new :
       /\ t = restore.bundle.tables /\ w = SessionView /\ own = session
       /\ seen = [session.seen EXCEPT !.pointer = SessionView.pointer] /\ new = session'
  OBVIOUS
<1>2. /\ new = [own EXCEPT !.seen.pointer = w.pointer]
      /\ restore' = [restore EXCEPT !.step = "layers"]
      /\ UNCHANGED <<catalog, bundles, copying, outcome, edits>>
  BY DEF ReadPointers
<1>3. w \in Tables /\ own \in Session /\ own.seen \in Tables
  BY <1>1, ApplyingRows, RestoreSessions
<1>4. seen \in Tables /\ seen.pointer = w.pointer
  <2>. PICK pointer, version, children :
         pointer = w.pointer /\ version = own.seen.version /\ children = own.seen.children
    OBVIOUS
  <2>1. seen = [pointer |-> pointer, version |-> version, children |-> children]
    BY <1>3 DEF Tables
  <2>2. /\ pointer \in [Objects -> Missing .. MaxNumber]
        /\ version \in [VersionKeys -> VersionRow]
        /\ children \in [VersionKeys -> SUBSET Children]
    BY <1>3, TableRows
  <2>. QED
    BY <2>1, <2>2, TablesWith
<1>5. /\ new \in Session /\ new.seen = seen /\ new.found = own.found
      /\ new.objects = own.objects /\ new.versions = own.versions
      /\ new.children = own.children
  <2>1. new = [own EXCEPT !.seen = seen]
    BY <1>2, <1>3, RestoreSessions
  <2>. QED
    BY <1>3, <1>4, <2>1 DEF Session
<1>6. restore'.step = "layers" /\ restore'.bundle = restore.bundle
  BY <1>1, <1>2, ApplyingRows
<1>7. SessionView' = w
  <2>1. SessionView' = Mine(catalog, t, new)
    BY <1>2, <1>6 DEF SessionView
  <2>. QED
    BY <1>5, <2>1 DEF Mine, SessionView
<1>8. /\ \A c \in own.objects : t.pointer[c] # Missing
      /\ \A k \in own.versions : Exists(t, k)
      /\ Linked(w)
  BY <1>1 DEF RecoveryInv, SessionHolds
<1>9. PointersRead(w, new)
  BY <1>4, <1>5 DEF PointersRead
<1>10. SessionHolds'
  BY <1>5, <1>6, <1>7, <1>8, <1>9 DEF SessionHolds
<1>. QED
  BY <1>1, <1>2, <1>5, <1>10, StatementKeeps

LEMMA RestoreLayersKeeps ==
  ASSUME RecoveryInv, RestoreLayers
  PROVE  RecoveryInv'
<1>1. restore.step = "layers" /\ restore.step \in Applying /\ "commit" \in Applying
  BY DEF RestoreLayers, Applying
<1>. PICK t, w, own, n, new :
       /\ t = restore.bundle.tables /\ w = SessionView /\ own = session
       /\ n = restore.bundle.snapshot /\ new = session'
  OBVIOUS
<1>2. PICK pointer, version, children :
        /\ pointer = own.seen.pointer
        /\ version = [k \in VersionKeys |-> IF own.seen.pointer[k[1]] # Missing THEN w.version[k]
                                            ELSE NoVersion]
        /\ children = [k \in VersionKeys |-> IF own.seen.pointer[k[1]] # Missing
                                             THEN w.children[k] ELSE {}]
  OBVIOUS
<1>3. PICK seen : seen = [pointer |-> pointer, version |-> version, children |-> children]
  OBVIOUS
<1>4. /\ IF Accepts(seen, n)
           THEN /\ new = [own EXCEPT !.seen = seen]
                /\ restore' = [restore EXCEPT !.step = "commit"]
           ELSE Ended
      /\ UNCHANGED <<catalog, bundles, copying, outcome, edits>>
  BY <1>2, <1>3 DEF RestoreLayers
<1>5. CASE ~Accepts(seen, n)
  BY <1>1, <1>4, <1>5, RolledBackKeeps
<1>6. CASE Accepts(seen, n)
  <2>1. new = [own EXCEPT !.seen = seen] /\ restore' = [restore EXCEPT !.step = "commit"]
    BY <1>4, <1>6
  <2>2. w \in Tables /\ own \in Session /\ own.seen \in Tables
    BY <1>1, ApplyingRows, RestoreSessions
  <2>3. version \in [VersionKeys -> VersionRow] /\ children \in [VersionKeys -> SUBSET Children]
    <3>1. NoVersion \in VersionRow
      BY DEF VersionRow, NoVersion
    <3>. QED
      BY <1>2, <2>2, <3>1, TableRows
  <2>4. /\ seen \in Tables /\ seen.pointer = own.seen.pointer /\ seen.version = version
        /\ seen.children = children
    <3>1. pointer \in [Objects -> Missing .. MaxNumber]
      BY <1>2, <2>2, TableRows
    <3>. QED
      BY <1>2, <1>3, <2>3, <3>1, TablesWith
  <2>5. /\ new \in Session /\ new.seen = seen /\ new.found = own.found
        /\ new.objects = own.objects /\ new.versions = own.versions
        /\ new.children = own.children /\ new.touched = own.touched
    BY <2>1, <2>2, <2>4 DEF Session
  <2>6. restore'.step = "commit" /\ restore'.bundle = restore.bundle
    BY <1>1, <2>1, ApplyingRows
  <2>7. SessionView' = w
    <3>1. SessionView' = Mine(catalog, t, new)
      BY <1>4, <2>6 DEF SessionView
    <3>. QED
      BY <2>5, <3>1 DEF Mine, SessionView
  <2>8. /\ \A c \in own.objects : t.pointer[c] # Missing
        /\ \A k \in own.versions : Exists(t, k)
        /\ Linked(w) /\ PointersRead(w, own)
    BY <1>1 DEF RecoveryInv, SessionHolds
  <2>9. ASSUME NEW k \in VersionKeys
        PROVE  /\ Exists(seen, k) <=> seen.pointer[k[1]] # Missing /\ Exists(w, k)
               /\ seen.children[k] # {} => Exists(seen, k)
               /\ k[1] \notin own.touched => /\ w.version[k] = seen.version[k]
                                             /\ w.children[k] = seen.children[k]
    <3>1. /\ Exists(w, k) => w.pointer[k[1]] # Missing
          /\ w.children[k] # {} => Exists(w, k)
      BY <2>8 DEF Linked
    <3>2. k[1] \in Objects
      BY KeyOf
    <3>3. /\ seen.version[k] = IF seen.pointer[k[1]] # Missing THEN w.version[k] ELSE NoVersion
          /\ seen.children[k] = IF seen.pointer[k[1]] # Missing THEN w.children[k] ELSE {}
      BY <1>2, <2>4
    <3>4. k[1] \notin own.touched => w.pointer[k[1]] = seen.pointer[k[1]]
      BY <2>4, <2>8, <3>2 DEF PointersRead
    <3>. QED
      BY <3>1, <3>3, <3>4 DEF Exists
  <2>10. VersionsRead(w, new)
    BY <2>5, <2>9 DEF VersionsRead, Linked
  <2>11. PointersRead(w, new)
    BY <2>4, <2>5, <2>8 DEF PointersRead
  <2>12. SessionHolds'
    BY <1>6, <2>5, <2>6, <2>7, <2>8, <2>10, <2>11 DEF SessionHolds
  <2>. QED
    BY <1>1, <1>4, <2>1, <2>5, <2>12, StatementKeeps
<1>. QED
  BY <1>5, <1>6

LEMMA ApplyingKeeps ==
  ASSUME RecoveryInv, SyncObjects \/ SyncVersions \/ ReadPointers \/ RestoreLayers
  PROVE  RecoveryInv'
BY SyncObjectsKeeps, SyncVersionsKeeps, ReadPointersKeeps, RestoreLayersKeeps

(* What is committed: the rows of a restored layer, where the transaction read *)
(* what is there, and otherwise rows whose keys still hold.                    *)
LEMMA FlushedRows ==
  ASSUME NEW w \in Tables, Linked(w), NEW s \in Tables, Linked(s), NEW n \in Snapshots,
         Accepts(s, n), \A c \in Objects : n[c].pointer <= 0 => n[c].hash = NoHash,
         \A c \in Objects : s.pointer[c] # Missing => w.pointer[c] # Missing,
         \A k \in VersionKeys : Exists(s, k) => Exists(w, k),
         \A c \in Objects : w.pointer[c] = s.pointer[c]
                            \/ (w.pointer[c] > 0 => Exists(w, <<c, w.pointer[c]>>)),
         NEW r, r = RestoreLayer(s, n), NEW f, f = Flushed(w, s, r)
  PROVE  /\ f \in Tables /\ Linked(f) /\ PointersHold(f)
         /\ \A k \in VersionKeys : Exists(f, k) <=> Exists(w, k)
         /\ \A c \in Objects : w.pointer[c] = s.pointer[c] => f.pointer[c] = r.pointer[c]
         /\ \A k \in VersionKeys :
              /\ w.version[k] = s.version[k] => f.version[k] = r.version[k]
              /\ w.children[k] = s.children[k] => f.children[k] = r.children[k]
<1>1. /\ r \in Tables /\ r.children = s.children
      /\ \A c \in Objects : r.pointer[c] = IF s.pointer[c] = Missing THEN Missing
                                           ELSE IF n[c].pointer > 0 THEN n[c].pointer ELSE 0
      /\ \A k \in VersionKeys :
           /\ Exists(r, k) <=> Exists(s, k)
           /\ r.version[k].content = s.version[k].content
           /\ r.version[k] # s.version[k] => r.version[k].status \in {"published", "deprecated"}
  BY LayerRestored
<1>2. PointersHold(r)
  BY RestoredIs
<1>3. PICK pointer, version :
        /\ pointer = [c \in Objects |-> IF r.pointer[c] # s.pointer[c] THEN r.pointer[c]
                                        ELSE w.pointer[c]]
        /\ version = [k \in VersionKeys |-> IF r.version[k] # s.version[k]
             THEN [w.version[k] EXCEPT !.status = r.version[k].status] ELSE w.version[k]]
  OBVIOUS
<1>4. f = [pointer |-> pointer, version |-> version, children |-> w.children]
  <2>1. f = [w EXCEPT !.pointer = pointer, !.version = version]
    BY <1>3 DEF Flushed
  <2>. QED
    BY <2>1 DEF Tables
<1>5. pointer \in [Objects -> Missing .. MaxNumber]
  <2>. DEFINE Pointing == Missing .. MaxNumber
  <2>1. r.pointer \in [Objects -> Pointing] /\ w.pointer \in [Objects -> Pointing]
    BY <1>1, TableRows
  <2>. HIDE DEF Pointing
  <2>2. pointer \in [Objects -> Pointing]
    BY <1>3, <2>1
  <2>. QED
    BY <2>2 DEF Pointing
<1>6. ASSUME NEW k \in VersionKeys
      PROVE  /\ version[k] \in VersionRow
             /\ version[k] # NoVersion <=> Exists(w, k)
             /\ w.version[k] = s.version[k] => version[k] = r.version[k]
  <2>. PICK row, old, next, new :
         /\ row = w.version[k] /\ old = s.version[k] /\ next = r.version[k]
         /\ new = [w.version[k] EXCEPT !.status = r.version[k].status]
    OBVIOUS
  <2>1. /\ row \in VersionRow /\ old \in VersionRow /\ next \in VersionRow
        /\ Exists(w, k) <=> row # NoVersion
        /\ Exists(s, k) <=> old # NoVersion
    BY <1>1, TableRows DEF Exists
  <2>2. CASE next = old
    BY <1>3, <2>1, <2>2
  <2>3. CASE next # old
    <3>1. version[k] = new /\ next.status \in {"published", "deprecated"}
          /\ next.content = old.content
      BY <1>1, <1>3, <2>3
    <3>2. /\ new \in VersionRow /\ new # NoVersion /\ new.status = next.status
          /\ new.content = row.content
      BY <2>1, <3>1, StatusChanged
    <3>3. Exists(w, k)
      <4>1. old # NoVersion
        <5>1. old = NoVersion => next = NoVersion
          BY <1>1 DEF Exists
        <5>. QED
          BY <2>3, <5>1
      <4>. QED
        BY <2>1, <4>1
    <3>4. row = old => new = next
      BY <2>1, <3>1, <3>2 DEF VersionRow
    <3>. QED
      BY <2>1, <3>1, <3>2, <3>3, <3>4
  <2>. QED
    BY <2>2, <2>3
<1>7. version \in [VersionKeys -> VersionRow]
  BY <1>3, <1>6
<1>8. /\ f \in Tables /\ f.pointer = pointer /\ f.version = version
      /\ f.children = w.children
  BY <1>4, <1>5, <1>7, TableRows, TablesWith
<1>9. \A k \in VersionKeys : Exists(f, k) <=> Exists(w, k)
  BY <1>6, <1>8 DEF Exists
<1>10. ASSUME NEW c \in Objects
       PROVE  /\ f.pointer[c] = IF r.pointer[c] # s.pointer[c] THEN r.pointer[c]
                                ELSE w.pointer[c]
              /\ w.pointer[c] # Missing => f.pointer[c] # Missing
  <2>1. f.pointer[c] = IF r.pointer[c] # s.pointer[c] THEN r.pointer[c] ELSE w.pointer[c]
    BY <1>3, <1>8
  <2>2. r.pointer[c] = Missing => s.pointer[c] = Missing
    BY <1>1 DEF Missing
  <2>3. s.pointer[c] = Missing => r.pointer[c] = Missing
    BY <1>1
  <2>. QED
    BY <2>1, <2>2, <2>3
<1>11. Linked(f)
  <2>. SUFFICES ASSUME NEW k \in VersionKeys
                PROVE  /\ Exists(f, k) => f.pointer[k[1]] # Missing
                       /\ f.children[k] # {} => Exists(f, k)
    BY DEF Linked
  <2>1. k[1] \in Objects
    BY KeyOf
  <2>. QED
    BY <1>8, <1>9, <1>10, <2>1 DEF Linked
<1>12. PointersHold(f)
  <2>. SUFFICES ASSUME NEW c \in Objects, f.pointer[c] > 0
                PROVE  Exists(f, <<c, f.pointer[c]>>)
    BY DEF PointersHold
  <2>. PICK k : k = <<c, f.pointer[c]>>
    OBVIOUS
  <2>1. k \in VersionKeys
    <3>1. f.pointer[c] \in 1 .. MaxNumber
      BY <1>8, TableRows, RecoveryBounds
    <3>. QED
      BY <3>1, KeyFor
  <2>2. CASE f.pointer[c] = r.pointer[c]
    <3>1. Exists(r, k)
      BY <1>2, <2>2 DEF PointersHold
    <3>. QED
      BY <1>1, <1>9, <2>1, <3>1
  <2>3. CASE f.pointer[c] # r.pointer[c]
    <3>1. f.pointer[c] = w.pointer[c] /\ w.pointer[c] # s.pointer[c]
      BY <1>10, <2>3
    <3>2. Exists(w, k)
      BY <3>1
    <3>. QED
      BY <1>9, <2>1, <3>2
  <2>. QED
    BY <2>2, <2>3
<1>13. \A k \in VersionKeys : w.children[k] = s.children[k] => f.children[k] = r.children[k]
  BY <1>1, <1>8
<1>14. \A c \in Objects : w.pointer[c] = s.pointer[c] => f.pointer[c] = r.pointer[c]
  BY <1>10
<1>15. \A k \in VersionKeys : w.version[k] = s.version[k] => f.version[k] = r.version[k]
  BY <1>6, <1>8
<1>. QED
  BY <1>8, <1>9, <1>11, <1>12, <1>13, <1>14, <1>15

LEMMA CommitRestoreKeeps ==
  ASSUME RecoveryInv, CommitRestore
  PROVE  RecoveryInv'
<1>1. restore.step = "commit" /\ restore.step \in Applying
  BY DEF CommitRestore, Applying
<1>. PICK b, t, n, w, own, s : /\ b = restore.bundle /\ t = restore.bundle.tables
                               /\ n = restore.bundle.snapshot /\ w = SessionView /\ own = session
                               /\ s = session.seen
  OBVIOUS
<1>. PICK r, f : r = RestoreLayer(s, n) /\ f = Flushed(w, s, RestoreLayer(s, n))
  OBVIOUS
<1>2. /\ catalog' = f /\ restore' = NoRestore /\ session' = NoSession
      /\ outcome' = [done |-> TRUE, bundle |-> b, found |-> own.found, touched |-> own.touched]
      /\ bundles' = bundles /\ copying' = copying /\ edits' = edits
  BY DEF CommitRestore, Ended
<1>3. /\ catalog \in Tables /\ own \in Session /\ BundleHolds(b) /\ t \in Tables
      /\ n \in Snapshots /\ w \in Tables /\ s \in Tables /\ restore # NoRestore
      /\ own.found \in Tables /\ own.touched \subseteq Objects
      /\ \A c \in Objects : n[c].pointer <= 0 => n[c].hash = NoHash
  BY <1>1, ApplyingRows, RestoreSessions
<1>4. /\ Linked(w) /\ PointersRead(w, own) /\ VersionsRead(w, own) /\ Accepts(s, n)
      /\ \A k \in own.versions : Exists(t, k)
  BY <1>1 DEF RecoveryInv, SessionHolds
<1>5. /\ \A c \in Objects : c \notin own.objects => w.pointer[c] = catalog.pointer[c]
      /\ \A k \in VersionKeys : /\ k \in own.versions => w.version[k] = t.version[k]
                                /\ k \notin own.versions => w.version[k] = catalog.version[k]
  <2>1. w = Mine(catalog, t, own)
    BY DEF SessionView
  <2>2. \A c \in Objects : c \notin own.objects => w.pointer[c] = catalog.pointer[c]
    BY <1>3, <2>1, MineObjects
  <2>3. \A k \in VersionKeys : /\ k \in own.versions => w.version[k] = t.version[k]
                               /\ k \notin own.versions => w.version[k] = catalog.version[k]
    BY <1>3, <2>1, MineVersions
  <2>. QED
    BY <2>2, <2>3
<1>6. \A k \in VersionKeys : Exists(catalog, k) => Exists(w, k)
  BY <1>4, <1>5 DEF Exists
<1>7. ASSUME NEW c \in Objects
      PROVE  w.pointer[c] = s.pointer[c]
             \/ (w.pointer[c] > 0 => Exists(w, <<c, w.pointer[c]>>))
  <2>1. CASE c \in own.objects
    BY <1>4, <2>1 DEF PointersRead
  <2>2. CASE c \notin own.objects
    <3>. SUFFICES ASSUME w.pointer[c] > 0 PROVE Exists(w, <<c, w.pointer[c]>>)
      OBVIOUS
    <3>. PICK k : k = <<c, w.pointer[c]>>
      OBVIOUS
    <3>1. w.pointer[c] = catalog.pointer[c] /\ Exists(catalog, k)
      BY <1>5, <2>2 DEF RecoveryInv, PointersHold
    <3>2. w.pointer[c] \in 1 .. MaxNumber
      BY <1>3, TableRows, RecoveryBounds
    <3>3. k \in VersionKeys
      BY <3>2, KeyFor
    <3>. QED
      BY <1>6, <3>1, <3>3
  <2>. QED
    BY <2>1, <2>2
<1>8. /\ f \in Tables /\ Linked(f) /\ PointersHold(f)
      /\ \A k \in VersionKeys : Exists(f, k) <=> Exists(w, k)
      /\ \A c \in Objects : w.pointer[c] = s.pointer[c] => f.pointer[c] = r.pointer[c]
      /\ \A k \in VersionKeys :
           /\ w.version[k] = s.version[k] => f.version[k] = r.version[k]
           /\ w.children[k] = s.children[k] => f.children[k] = r.children[k]
  <2>1. /\ Linked(s)
        /\ \A c \in Objects : s.pointer[c] # Missing => w.pointer[c] # Missing
        /\ \A k \in VersionKeys : Exists(s, k) => Exists(w, k)
    BY <1>4 DEF PointersRead, VersionsRead
  <2>. QED
    BY <1>3, <1>4, <1>7, <2>1, FlushedRows
<1>9. /\ r \in Tables
      /\ \A c \in Objects : IF n[c].pointer = Missing THEN r.pointer[c] \in {Missing, 0}
                            ELSE SnapshotOf(r)[c] = n[c]
      /\ \A k \in VersionKeys : r.version[k].status = "published" <=> r.pointer[k[1]] = k[2]
  BY <1>3, <1>4, RestoredIs DEF VersionsRead
<1>10. ASSUME NEW c \in Objects, c \notin own.touched
       PROVE  /\ f.pointer[c] = r.pointer[c] /\ SnapshotOf(f)[c] = SnapshotOf(r)[c]
              /\ \A k \in VersionKeys : k[1] = c => f.version[k] = r.version[k]
  <2>1. f.pointer[c] = r.pointer[c]
    BY <1>4, <1>8, <1>10 DEF PointersRead
  <2>2. \A k \in VersionKeys : k[1] = c => /\ f.version[k] = r.version[k]
                                           /\ f.children[k] = r.children[k]
    BY <1>4, <1>8, <1>10 DEF VersionsRead
  <2>. PICK k : k = <<c, r.pointer[c]>>
    OBVIOUS
  <2>3. r.pointer[c] > 0 => k \in VersionKeys /\ k[1] = c
    BY <1>9, TableRows, RecoveryBounds, KeyFor
  <2>4. r.pointer[c] > 0 => (Exists(f, k) <=> Exists(r, k)) /\ Hash(f, k) = Hash(r, k)
    BY <2>2, <2>3 DEF Exists, Hash
  <2>5. /\ SnapshotOf(f)[c] = [pointer |-> r.pointer[c],
                               hash |-> IF r.pointer[c] > 0 /\ Exists(f, k)
                                        THEN Hash(f, k) ELSE NoHash]
        /\ SnapshotOf(r)[c] = [pointer |-> r.pointer[c],
                               hash |-> IF r.pointer[c] > 0 /\ Exists(r, k)
                                        THEN Hash(r, k) ELSE NoHash]
    BY <2>1 DEF SnapshotOf
  <2>. QED
    BY <2>1, <2>2, <2>4, <2>5
<1>11. /\ outcome' \in Outcome /\ outcome'.bundle = b /\ outcome'.found = own.found
       /\ outcome'.touched = own.touched
  <2>1. b \in Bundle
    BY <1>3 DEF BundleHolds
  <2>. QED
    BY <1>2, <1>3, <2>1 DEF Outcome
<1>12. \A k \in VersionKeys : Exists(own.found, k) => Exists(f, k)
  BY <1>1, <1>6, <1>8 DEF RecoveryInv, RestoreHolds
<1>13. RestoredIsTheSnapshot'
  <2>1. \A c \in Objects \ own.touched : IF n[c].pointer = Missing
          THEN f.pointer[c] \in {Missing, 0} ELSE SnapshotOf(f)[c] = n[c]
    BY <1>9, <1>10
  <2>2. \A k \in VersionKeys : k[1] \notin own.touched =>
          (f.version[k].status = "published" <=> f.pointer[k[1]] = k[2])
    BY <1>9, <1>10, KeyOf
  <2>. QED
    BY <1>2, <1>11, <1>12, <2>1, <2>2 DEF RestoredIsTheSnapshot
<1>14. copying = NotCopying
  <2>1. copying.to # "before" /\ copying.to # "baseline"
    BY <1>1, <1>3 DEF RecoveryInv, RestoreHolds
  <2>. QED
    BY <2>1, CopyRows DEF Copy
<1>15. RecoveryTypeOK'
  BY <1>2, <1>8, <1>11, NoSessionRows DEF RecoveryInv, RecoveryTypeOK
<1>16. OutcomeHolds'
  BY <1>1, <1>2, <1>3, <1>11, <1>13 DEF RecoveryInv, RestoreHolds, OutcomeHolds
<1>17. RestoreHolds' /\ CopyHolds' /\ BundlesHold'
  BY <1>2, <1>14, CopyRows DEF RecoveryInv, RestoreHolds, CopyHolds, BundlesHold, Applying
<1>18. SessionHolds'
  BY <1>2, CopyRows, SessionEnds DEF Applying
<1>. QED
  BY <1>2, <1>8, <1>15, <1>16, <1>17, <1>18 DEF RecoveryInv, PointersHold

(* One statement of a copy reads one table.                                   *)
LEMMA TableRead ==
  ASSUME NEW a \in Tables, NEW t \in Tables, NEW table \in {"pointer", "version", "children"},
         NEW r, r = [t EXCEPT ![table] = a[table]]
  PROVE  /\ r \in Tables
         /\ r.pointer = IF table = "pointer" THEN a.pointer ELSE t.pointer
         /\ r.version = IF table = "version" THEN a.version ELSE t.version
         /\ r.children = IF table = "children" THEN a.children ELSE t.children
<1>5. PICK pointer, version, children :
       /\ pointer = IF table = "pointer" THEN a.pointer ELSE t.pointer
       /\ version = IF table = "version" THEN a.version ELSE t.version
       /\ children = IF table = "children" THEN a.children ELSE t.children
  OBVIOUS
<1>1. t = [pointer |-> t.pointer, version |-> t.version, children |-> t.children]
  BY DEF Tables
<1>2. r = [pointer |-> pointer, version |-> version, children |-> children]
  BY <1>1, <1>5
<1>. DEFINE Pointing == Missing .. MaxNumber
<1>3. /\ pointer \in [Objects -> Pointing] /\ version \in [VersionKeys -> VersionRow]
      /\ children \in [VersionKeys -> SUBSET Children]
  BY <1>5 DEF Tables
<1>. HIDE DEF Pointing
<1>4. /\ r \in [pointer: [Objects -> Pointing], version: [VersionKeys -> VersionRow],
                children: [VersionKeys -> SUBSET Children]]
      /\ r.pointer = pointer /\ r.version = version /\ r.children = children
  BY <1>2, <1>3
<1>. QED
  BY <1>4, <1>5 DEF Tables, Pointing

LEMMA CopyGoesOn ==
  ASSUME NEW c \in Copy, c.reads < 6, NEW t \in Tables, NEW s \in Tables, NEW r,
         r = [to |-> c.to, reads |-> c.reads + 1, tables |-> t, seen |-> s, whole |-> c.whole]
  PROVE  /\ r \in Copy /\ r.reads = c.reads + 1 /\ r.tables = t /\ r.seen = s
         /\ r.to = c.to /\ r.whole = c.whole
<1>. DEFINE Reads == 0 .. 6
<1>1. c.reads \in Reads /\ c.reads + 1 \in Reads
  BY DEF Copy
<1>. HIDE DEF Reads
<1>2. c \in [to: {"baseline", "before"}, reads: Reads, tables: Tables, seen: Tables,
             whole: BOOLEAN]
  BY DEF Copy, Reads
<1>3. r \in [to: {"baseline", "before"}, reads: Reads, tables: Tables, seen: Tables,
             whole: BOOLEAN]
  BY <1>1, <1>2
<1>. QED
  BY <1>3 DEF Copy, Reads

LEMMA ReadKeeps ==
  ASSUME RecoveryInv, ReadBundle
  PROVE  RecoveryInv'
<1>1. /\ catalog' = catalog /\ bundles' = bundles /\ restore' = restore /\ outcome' = outcome
      /\ edits' = edits /\ copying.to # "none" /\ session' = session
  BY DEF ReadBundle
<1>. PICK a, c, next : a = catalog /\ c = copying /\ next = copying'
  OBVIOUS
<1>2. a \in Tables /\ c \in Copy /\ c # NotCopying /\ c.tables \in Tables /\ c.seen \in Tables
      /\ c.reads \in 0 .. 6
  BY <1>1, CatalogRows, CopyRows DEF Copy
<1>3. ASSUME NEW table \in {"pointer", "version", "children"}, ReadTables(table),
             c.reads < 6
      PROVE  /\ next \in Copy /\ next.reads = c.reads + 1 /\ next.to = c.to
             /\ next.whole = c.whole /\ next.seen = c.seen
             /\ next.tables.pointer = IF table = "pointer" THEN a.pointer ELSE c.tables.pointer
             /\ next.tables.version = IF table = "version" THEN a.version ELSE c.tables.version
             /\ next.tables.children = IF table = "children" THEN a.children
                                       ELSE c.tables.children
  <2>. PICK t, s : t = [c.tables EXCEPT ![table] = a[table]] /\ s = c.seen
    OBVIOUS
  <2>1. /\ t \in Tables /\ t.pointer = IF table = "pointer" THEN a.pointer ELSE c.tables.pointer
        /\ t.version = IF table = "version" THEN a.version ELSE c.tables.version
        /\ t.children = IF table = "children" THEN a.children ELSE c.tables.children
    BY <1>2, <1>3, TableRead
  <2>2. next = [c EXCEPT !.reads = @ + 1, !.tables = t]
    BY <1>3 DEF ReadTables
  <2>3. next = [to |-> c.to, reads |-> c.reads + 1, tables |-> t, seen |-> s, whole |-> c.whole]
    BY <1>2, <2>2 DEF Copy
  <2>4. s \in Tables /\ s = c.seen
    BY <1>2
  <2>5. /\ next \in Copy /\ next.reads = c.reads + 1 /\ next.tables = t /\ next.seen = s
        /\ next.to = c.to /\ next.whole = c.whole
    BY <1>2, <1>3, <2>1, <2>3, <2>4, CopyGoesOn
  <2>. QED
    BY <2>1, <2>4, <2>5
<1>4. ASSUME NEW table \in {"pointer", "version", "children"}, ReadSnapshot(table),
             c.reads < 6
      PROVE  /\ next \in Copy /\ next.reads = c.reads + 1 /\ next.to = c.to
             /\ next.whole = c.whole /\ next.tables = c.tables
             /\ next.seen.pointer = IF table = "pointer" THEN a.pointer ELSE c.seen.pointer
             /\ next.seen.version = IF table = "version" THEN a.version ELSE c.seen.version
             /\ next.seen.children = IF table = "children" THEN a.children ELSE c.seen.children
  <2>. PICK s, t : s = [c.seen EXCEPT ![table] = a[table]] /\ t = c.tables
    OBVIOUS
  <2>1. /\ s \in Tables /\ s.pointer = IF table = "pointer" THEN a.pointer ELSE c.seen.pointer
        /\ s.version = IF table = "version" THEN a.version ELSE c.seen.version
        /\ s.children = IF table = "children" THEN a.children ELSE c.seen.children
    BY <1>2, <1>4, TableRead
  <2>2. next = [c EXCEPT !.reads = @ + 1, !.seen = s]
    BY <1>4 DEF ReadSnapshot
  <2>3. next = [to |-> c.to, reads |-> c.reads + 1, tables |-> t, seen |-> s, whole |-> c.whole]
    BY <1>2, <2>2 DEF Copy
  <2>4. t \in Tables /\ t = c.tables
    BY <1>2
  <2>5. /\ next \in Copy /\ next.reads = c.reads + 1 /\ next.tables = t /\ next.seen = s
        /\ next.to = c.to /\ next.whole = c.whole
    BY <1>2, <1>4, <2>1, <2>3, <2>4, CopyGoesOn
  <2>. QED
    BY <2>1, <2>4, <2>5
<1>5. CopyHolds
  BY DEF RecoveryInv
<1>6. /\ next \in Copy /\ next.to = c.to /\ CopyHolds'
  <2>1. CASE c.reads = 0 /\ ReadTables("pointer")
    BY <1>1, <1>2, <1>3, <1>5, <2>1 DEF CopyHolds
  <2>2. CASE c.reads = 1 /\ ReadTables("version")
    BY <1>1, <1>2, <1>3, <1>5, <2>2 DEF CopyHolds
  <2>3. CASE c.reads = 2 /\ ReadTables("children")
    BY <1>1, <1>2, <1>3, <1>5, <2>3 DEF CopyHolds
  <2>4. CASE c.reads = 3 /\ ReadSnapshot("pointer")
    BY <1>1, <1>2, <1>4, <1>5, <2>4 DEF CopyHolds
  <2>5. CASE c.reads = 4 /\ ReadSnapshot("version")
    BY <1>1, <1>2, <1>4, <1>5, <2>5 DEF CopyHolds
  <2>6. CASE c.reads = 5 /\ ReadSnapshot("children")
    BY <1>1, <1>2, <1>4, <1>5, <2>6 DEF CopyHolds
  <2>. QED
    BY <2>1, <2>2, <2>3, <2>4, <2>5, <2>6 DEF ReadBundle
<1>7. RecoveryTypeOK'
  BY <1>1, <1>6 DEF RecoveryInv, RecoveryTypeOK
<1>8. RestoreHolds'
  BY <1>1, <1>6 DEF RecoveryInv, RestoreHolds
<1>9. OutcomeHolds' /\ BundlesHold' /\ PointersHold(catalog)'
  BY <1>1 DEF RecoveryInv, OutcomeHolds, BundlesHold, PointersHold, RestoredIsTheSnapshot
<1>10. SessionHolds'
  BY <1>1, SessionSame DEF RecoveryInv
<1>. QED
  BY <1>6, <1>7, <1>8, <1>9, <1>10 DEF RecoveryInv

LEMMA SameTables ==
  ASSUME NEW a \in Tables, NEW t \in Tables, t.pointer = a.pointer, t.version = a.version,
         t.children = a.children
  PROVE  t = a
BY DEF Tables

LEMMA WriteBundleKeeps ==
  ASSUME RecoveryInv, WriteBundle
  PROVE  RecoveryInv'
<1>. PICK a, c, b : /\ a = catalog /\ c = copying
                    /\ b = [written |-> TRUE, whole |-> copying.whole, tables |-> copying.tables,
                            snapshot |-> SnapshotOf(copying.seen)]
  OBVIOUS
<1>1. /\ catalog' = a /\ catalog = a /\ outcome' = outcome /\ edits' = edits
      /\ copying' = NotCopying /\ c.to # "none" /\ c.reads = 6
      /\ bundles' = [bundles EXCEPT ![c.to] = b]
      /\ restore' = IF restore.step = "copying" THEN [restore EXCEPT !.step = "objects"]
                    ELSE restore
      /\ session' = IF restore.step = "copying" THEN [NoSession EXCEPT !.found = a] ELSE session
  BY DEF WriteBundle
<1>2. a \in Tables /\ Linked(a) /\ PointersHold(a) /\ c \in Copy /\ c # NotCopying
      /\ c.tables \in Tables /\ c.seen \in Tables /\ c.whole \in BOOLEAN
      /\ c.to \in {"baseline", "before"}
  BY <1>1, CatalogRows, CopyRows DEF Copy
<1>3. c.whole => c.tables = a /\ c.seen = a
  <2>. SUFFICES ASSUME c.whole PROVE c.tables = a /\ c.seen = a
    OBVIOUS
  <2>1. /\ c.tables.pointer = a.pointer /\ c.tables.version = a.version
        /\ c.tables.children = a.children /\ c.seen.pointer = a.pointer
        /\ c.seen.version = a.version /\ c.seen.children = a.children
    BY <1>1, <1>2 DEF RecoveryInv, CopyHolds
  <2>. QED
    BY <1>2, <2>1, SameTables
<1>. PICK n : n = SnapshotOf(c.seen)
  OBVIOUS
<1>4. n \in Snapshots /\ \A o \in Objects : n[o].pointer <= 0 => n[o].hash = NoHash
  BY <1>2, SnapshotRows
<1>5. /\ b \in Bundle /\ b.written /\ b.whole = c.whole /\ b.tables = c.tables
      /\ b.snapshot = n
  BY <1>2, <1>4 DEF Bundle
<1>6. BundleHolds(b) /\ (b.whole => b.snapshot = SnapshotOf(a))
  BY <1>2, <1>3, <1>4, <1>5 DEF BundleHolds
<1>7. bundles \in [{"baseline", "before"} -> Bundle \cup {NoBundle}]
  BY DEF RecoveryInv, RecoveryTypeOK
<1>8. /\ bundles' \in [{"baseline", "before"} -> Bundle \cup {NoBundle}]
      /\ bundles'[c.to] = b
      /\ \A f \in {"baseline", "before"} : f # c.to => bundles'[f] = bundles[f]
  BY <1>1, <1>2, <1>5, <1>7
<1>9. BundlesHold'
  BY <1>6, <1>8 DEF RecoveryInv, BundlesHold
<1>10. CASE c.to = "before"
  <2>1. restore.step = "copying" /\ restore # NoRestore /\ restore.step # "idle"
    BY <1>10, CopyRows DEF RecoveryInv, RestoreHolds
  <2>2. restore \in [step: Steps, bundle: Bundle]
        /\ BundleHolds(restore.bundle) /\ outcome = NoOutcome
    BY <2>1 DEF RecoveryInv, RecoveryTypeOK, RestoreHolds, OutcomeHolds
  <2>3. /\ restore' \in [step: Steps, bundle: Bundle]
        /\ restore'.step = "objects" /\ restore'.bundle = restore.bundle
    BY <1>1, <2>1, <2>2 DEF Steps, Applying
  <2>4. /\ session' \in Session /\ session'.objects = {} /\ session'.versions = {}
        /\ session'.found = a
    BY <1>1, <1>2, <2>1, NoSessionRows
  <2>5. RecoveryTypeOK'
    BY <1>1, <1>8, <2>3, <2>4 DEF RecoveryInv, RecoveryTypeOK
  <2>6. RestoreHolds'
    BY <1>1, <1>5, <1>6, <1>8, <1>10, <2>2, <2>3, <2>4, CopyRows DEF RestoreHolds, Applying
  <2>7. SessionHolds'
    BY <2>3, <2>4 DEF SessionHolds
  <2>8. OutcomeHolds' /\ CopyHolds' /\ PointersHold(catalog)'
    BY <1>1, <1>2, <2>2 DEF OutcomeHolds, CopyHolds, PointersHold
  <2>. QED
    BY <1>9, <2>5, <2>6, <2>7, <2>8 DEF RecoveryInv
<1>11. CASE c.to = "baseline"
  <2>1. restore = NoRestore /\ restore' = restore /\ session' = session
    BY <1>1, <1>11, CopyRows DEF RecoveryInv, RestoreHolds
  <2>2. bundles'["before"] = bundles["before"]
    BY <1>8, <1>11
  <2>3. RecoveryTypeOK'
    BY <1>1, <1>8, <2>1 DEF RecoveryInv, RecoveryTypeOK
  <2>4. RestoreHolds'
    BY <1>1, <2>1, CopyRows DEF RecoveryInv, RestoreHolds, Applying
  <2>5. OutcomeHolds' /\ CopyHolds' /\ PointersHold(catalog)'
    BY <1>1, <1>2, <2>1, <2>2
    DEF RecoveryInv, OutcomeHolds, CopyHolds, PointersHold, RestoredIsTheSnapshot
  <2>6. SessionHolds'
    BY <1>1, <2>1, SessionSame DEF RecoveryInv
  <2>. QED
    BY <1>9, <2>3, <2>4, <2>5, <2>6 DEF RecoveryInv
<1>. QED
  BY <1>2, <1>10, <1>11

LEMMA RecoveryStarts == RecoveryInit => RecoveryInv
<1>. SUFFICES ASSUME RecoveryInit PROVE RecoveryInv
  OBVIOUS
<1>. PICK c, k, row : /\ c = (CHOOSE o \in Objects : TRUE) /\ k = <<CHOOSE o \in Objects : TRUE, 1>>
                      /\ row = [status |-> "published", content |-> "written"]
  OBVIOUS
<1>1. c \in Objects
  BY RecoveryBounds
<1>2. k \in VersionKeys /\ k[1] = c /\ k = <<c, 1>>
  BY <1>1, RecoveryBounds, KeyFor
<1>3. row \in VersionRow /\ row # NoVersion
  BY DEF VersionRow, NoVersion
<1>4. PICK pointer, version, children :
        /\ pointer = [o \in Objects |-> IF o = c THEN 1 ELSE Missing]
        /\ version = [x \in VersionKeys |-> IF x = k THEN row ELSE NoVersion]
        /\ children = [x \in VersionKeys |-> IF x = k THEN {First} ELSE {}]
  OBVIOUS
<1>. PICK a : a = catalog
  OBVIOUS
<1>5. a = [Empty EXCEPT !.pointer[c] = 1, !.children[k] = {First}, !.version[k] = row]
  BY DEF RecoveryInit
<1>6. a = [pointer |-> pointer, version |-> version, children |-> children]
  <2>1. /\ Empty = [pointer |-> Empty.pointer, version |-> Empty.version,
                    children |-> Empty.children]
        /\ Empty.pointer = [o \in Objects |-> Missing]
        /\ Empty.version = [x \in VersionKeys |-> NoVersion]
        /\ Empty.children = [x \in VersionKeys |-> {}]
    BY DEF Empty
  <2>2. /\ [Empty.pointer EXCEPT ![c] = 1] = pointer
        /\ [Empty.version EXCEPT ![k] = row] = version
        /\ [Empty.children EXCEPT ![k] = {First}] = children
    BY <1>4, <2>1
  <2>3. a = [pointer |-> [Empty.pointer EXCEPT ![c] = 1],
             version |-> [Empty.version EXCEPT ![k] = row],
             children |-> [Empty.children EXCEPT ![k] = {First}]]
    BY <1>5, <2>1
  <2>. QED
    BY <2>2, <2>3
<1>7. pointer \in [Objects -> Missing .. MaxNumber]
  <2>1. 1 \in Missing .. MaxNumber /\ Missing \in Missing .. MaxNumber
    BY RecoveryBounds DEF Missing
  <2>. QED
    BY <1>4, <2>1
<1>8. version \in [VersionKeys -> VersionRow] /\ children \in [VersionKeys -> SUBSET Children]
  <2>1. NoVersion \in VersionRow
    BY DEF VersionRow, NoVersion
  <2>. QED
    BY <1>3, <1>4, <2>1, RecoveryBounds
<1>9. /\ a \in Tables /\ a.pointer = pointer /\ a.version = version /\ a.children = children
  BY <1>6, <1>7, <1>8, TablesWith
<1>10. \A x \in VersionKeys : (Exists(a, x) <=> x = k) /\ (a.children[x] # {} => x = k)
  BY <1>3, <1>4, <1>9 DEF Exists
<1>11. \A o \in Objects : a.pointer[o] = IF o = c THEN 1 ELSE Missing
  BY <1>4, <1>9
<1>12. Linked(a)
  BY <1>1, <1>2, <1>10, <1>11 DEF Linked, Missing
<1>13. PointersHold(a)
  <2>. SUFFICES ASSUME NEW o \in Objects, a.pointer[o] > 0
                PROVE  Exists(a, <<o, a.pointer[o]>>)
    BY DEF PointersHold
  <2>1. o = c /\ a.pointer[o] = 1
    BY <1>11 DEF Missing
  <2>. QED
    BY <1>2, <1>10, <2>1
<1>14. /\ bundles = [f \in {"baseline", "before"} |-> NoBundle] /\ copying = NotCopying
       /\ restore = NoRestore /\ outcome = NoOutcome /\ edits = 0 /\ session = NoSession
  BY DEF RecoveryInit
<1>15. RecoveryTypeOK
  <2>1. 0 \in 0 .. MaxEdits
    BY RecoveryBounds
  <2>2. bundles \in [{"baseline", "before"} -> Bundle \cup {NoBundle}]
    BY <1>14
  <2>. QED
    BY <1>9, <1>12, <1>14, <2>1, <2>2, NoSessionRows DEF RecoveryTypeOK
<1>16. BundlesHold /\ CopyHolds /\ RestoreHolds /\ OutcomeHolds /\ SessionHolds
  BY <1>14 DEF BundlesHold, CopyHolds, RestoreHolds, OutcomeHolds, SessionHolds, NoBundle,
               NotCopying, NoRestore, Applying
<1>. QED
  BY <1>13, <1>15, <1>16 DEF RecoveryInv

LEMMA RecoverySteps == RecoveryInv /\ [RecoveryNext]_recoveryVars => RecoveryInv'
<1>. SUFFICES ASSUME RecoveryInv, [RecoveryNext]_recoveryVars PROVE RecoveryInv'
  OBVIOUS
<1>1. CASE UNCHANGED recoveryVars
  <2>1. /\ catalog' = catalog /\ bundles' = bundles /\ copying' = copying /\ restore' = restore
        /\ outcome' = outcome /\ edits' = edits /\ session' = session
    BY <1>1 DEF recoveryVars
  <2>2. RecoveryTypeOK'
    BY <2>1 DEF RecoveryInv, RecoveryTypeOK
  <2>3. SessionHolds'
    BY <2>1, SessionSame DEF RecoveryInv
  <2>. QED
    BY <2>1, <2>2, <2>3 DEF RecoveryInv, BundlesHold, CopyHolds, RestoreHolds, OutcomeHolds,
                            PointersHold, RestoredIsTheSnapshot
<1>. QED
  BY <1>1, CreateVersionKeeps, PublishVersionKeeps, BackfillRowsKeep, NormalizeKeeps,
     ReinstallKeeps, StartBundleKeeps, ReadKeeps, WriteBundleKeeps, InterruptedKeeps,
     PreviewKeeps, ConfirmKeeps, ApplyingKeeps, CommitRestoreKeeps DEF RecoveryNext

LEMMA RecoveryStaysSound == RecoverySpec => []RecoveryInv
BY RecoveryStarts, RecoverySteps, PTL DEF RecoverySpec

(* The catalog, its files and a restore under way keep their shapes, and the  *)
(* foreign keys of the catalog hold after every edit and every restore        *)
(* (catalog_recovery.py, catalog_bundle.py).                                  *)
THEOREM RecoveryTypeCorrect == RecoverySpec => []RecoveryTypeOK
<1>1. RecoveryInv => RecoveryTypeOK
  BY DEF RecoveryInv
<1>. QED
  BY <1>1, RecoveryStaysSound, PTL

(* Whatever others edit while a restore applies, it publishes exactly what its *)
(* bundle published, but for objects edited after it has read the pointers,    *)
(* and keeps every version that was there; a bundle that nobody edited under   *)
(* stays restorable, unless a version without children was given some; and a   *)
(* restore is taken back with the copy it made (catalog_recovery.py, _restore).*)
THEOREM RestoresAreSound == RecoverySpec => []RecoveryIsSound
<1>1. RecoveryInv => RecoveryIsSound
  <2>. SUFFICES ASSUME RecoveryInv PROVE RecoveryIsSound
    OBVIOUS
  <2>. PICK a, o, b : a = catalog /\ o = outcome /\ b = outcome.bundle
    OBVIOUS
  <2>1. o.done => o # NoOutcome /\ o \in Outcome
    <3>1. ~NoOutcome.done
      BY DEF NoOutcome
    <3>2. o \in Outcome \cup {NoOutcome}
      BY DEF RecoveryInv, RecoveryTypeOK
    <3>. QED
      BY <3>1, <3>2
  <2>2. o.done => /\ BundleHolds(b) /\ o.found \in Tables /\ RestoredIsTheSnapshot
                  /\ bundles["before"].written
                  /\ bundles["before"].whole =>
                       bundles["before"].snapshot = SnapshotOf(o.found)
    BY <2>1 DEF RecoveryInv, OutcomeHolds, Outcome
  <2>3. RestoredIsTheSnapshot
    BY <2>2 DEF RestoredIsTheSnapshot
  <2>4. BundlesStayRestorable
    <3>. SUFFICES ASSUME NEW f \in {"baseline", "before"}, NEW w, w = bundles[f], w.written,
                         w.whole,
                         \A k \in VersionKeys : Exists(w.tables, k) /\ w.tables.children[k] = {}
                                                  => a.children[k] = {}
                  PROVE  Restores(a, w)
      BY DEF BundlesStayRestorable
    <3>1. BundleHolds(w) /\ a \in Tables /\ Linked(a)
      BY CatalogRows DEF RecoveryInv, BundlesHold
    <3>. QED
      BY <3>1, Restorable
  <2>5. RestoresAreUndone
    <3>. SUFFICES ASSUME o.done, NEW copy, copy = bundles["before"], copy.whole,
                         Restores(a, copy), NEW c \in Objects, o.found.pointer[c] # Missing
                  PROVE  SnapshotOf(Restored(a, copy))[c] = SnapshotOf(o.found)[c]
      BY DEF RestoresAreUndone
    <3>. PICK found, n, r : found = o.found /\ n = SnapshotOf(o.found) /\ r = Restored(a, copy)
      OBVIOUS
    <3>1. BundleHolds(copy) /\ copy.snapshot = n /\ found \in Tables /\ a \in Tables
      BY <2>2, CatalogRows DEF RecoveryInv, BundlesHold
    <3>2. n[c].pointer = found.pointer[c]
      BY <3>1, SnapshotRows
    <3>3. \A x \in Objects : IF copy.snapshot[x].pointer = Missing
                             THEN r.pointer[x] \in {Missing, 0}
                             ELSE SnapshotOf(r)[x] = copy.snapshot[x]
      BY <3>1, RestoreIs
    <3>. QED
      BY <3>1, <3>2, <3>3
  <2>. QED
    BY <2>3, <2>4, <2>5 DEF RecoveryIsSound
<1>. QED
  BY <1>1, RecoveryStaysSound, PTL
=============================================================================
