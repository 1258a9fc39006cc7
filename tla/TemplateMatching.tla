--------------------------- MODULE TemplateMatching ---------------------------
(***************************************************************************)
(* match_profile of templates/matching.py: what the matcher makes of one   *)
(* workbook and of the published catalogue, whether Hermes is asked, and   *)
(* the rows it leaves for the import plan.                                 *)
(*                                                                         *)
(* A region is compared with the published region versions, its columns    *)
(* are bound to fields or scored against the field catalogue, the exact    *)
(* regions of a sheet are laid over the slots of the sheet compositions,   *)
(* the exact sheets over those of the workbook routes.  Labels, types and  *)
(* signatures are abstracted to how they compare.  The rows of an earlier  *)
(* match are deleted level by level and the new ones added, the summary    *)
(* last; a failure commits whatever of this was done.                      *)
(***************************************************************************)
EXTENDS Integers, Sequences, FiniteSets, SequencesExt, FiniteSetsExt

CONSTANTS
  Fields,         \* published semantic fields
  Regions,        \* the sheets of the regions of the workbook, in the order of the regions
  Headers,        \* header paths of regions
  RegionVersions, \* published region versions, in the order of their ids
  Compositions,   \* sheet compositions: sequences of region versions (slots)
  Routes,         \* workbook routes: sequences of compositions
  LaterCompositions, \* bound: the compositions that a later match may find,
  LaterRoutes,       \* bound: the routes,
  LaterRows          \* bound: and the matched regions, of a failed one all, it replaces

(* A share of the slots is counted in basis points: from 20000 slots on, one *)
(* that lacks a single source rounds to all of them.                         *)
SlotsTold == 20000

ASSUME MatchingAssumption ==
  /\ IsFiniteSet(Fields) /\ IsFiniteSet(Headers)
  /\ IsFiniteSet(Compositions) /\ IsFiniteSet(Routes)
  /\ Regions \in Seq(Nat \ {0})
  /\ \A c \in Compositions : c \in Seq(Range(c)) /\ Len(c) < SlotsTold
  /\ \A w \in Routes : w \in Seq(Range(w)) /\ Len(w) < SlotsTold

VARIABLES
  column,    \* what the last matched column was made of
  regionRow, \* RegionTemplateMatch rows of the item, by region
  sheetRow,  \* SheetCompositionMatch rows, by sheet
  routeRow,  \* the WorkbookRouteMatch row
  summary,   \* the TemplateMatch row
  matching   \* status of the item: profiled, matching, matched, failed

matchingVars == <<column, regionRow, sheetRow, routeRow, summary, matching>>

-----------------------------------------------------------------------------
(* Columns: _field_match_values. *)

(* How a column compares with a field: by label, type, context and role. *)
Evidence == [label: {"path", "leaf", "base", "overlap", "none"},
             type: BOOLEAN, context: BOOLEAN,
             role: {"unsaid", "agrees", "open", "conflict"}]

LabelScore == [path |-> 7000, leaf |-> 4500, base |-> 4500, overlap |-> 3500,
               none |-> 0]

(* Mutant: a role that the field does not know counts as one it has. *)
ScoreOpenRole(e) ==
  LabelScore[e.label] + (IF e.type THEN 1000 ELSE 0)
    + (IF e.context THEN 2000 ELSE 0)
    + (IF e.role \in {"agrees", "open"} THEN 1000 ELSE 0)

Score(e) ==
  LET known == LabelScore[e.label] + (IF e.type THEN 1000 ELSE 0)
                 + (IF e.context THEN 2000 ELSE 0)
      asRole == CASE e.role = "agrees"   -> known + 1000
                  [] e.role = "open"     -> IF known > 0 THEN known + 500 ELSE 0
                  [] e.role = "conflict" -> Max({known - 1000, 0})
                  [] OTHER               -> known
  IN  Min({asRole, 10000})

Identifies(e) == e.label \in {"path", "leaf", "base"}

Top(evidence) == Max({Score(evidence[f]) : f \in Fields} \cup {0})
Leaders(evidence) ==
  {f \in Fields : Score(evidence[f]) = Top(evidence) /\ Top(evidence) > 0}
Second(evidence, f) ==
  Max({Score(evidence[g]) : g \in Fields \ {f}} \cup {0})

FIELD_DIRECT_REUSE_THRESHOLD == 8500
FIELD_DIRECT_REUSE_MARGIN == 1500

(* observed: does the column hold a value whose type is known? *)
ReuseWithoutHermes(observed, evidence, f) ==
  /\ Leaders(evidence) = {f}
  /\ \/ /\ evidence[f].label = "path"
        /\ ~observed \/ evidence[f].type
     \/ /\ Identifies(evidence[f])
        /\ Top(evidence) >= FIELD_DIRECT_REUSE_THRESHOLD
        /\ Top(evidence) - Second(evidence, f) >= FIELD_DIRECT_REUSE_MARGIN

(* Bindings that claim the column: by column id, by header path, by offset; *)
(* one that is not alone decides nothing and the next kind is tried.  The    *)
(* ordinal counts only when the region is exact and all columns are bound.   *)
Bound(c, kinds) ==
  IF \E i \in DOMAIN kinds : c.claims[kinds[i]] = 1
    THEN kinds[Min({i \in DOMAIN kinds : c.claims[kinds[i]] = 1})]
    ELSE IF c.ordinal /\ "id" \in Range(kinds) THEN "ordinal" ELSE "none"

RegionTemplateBinding(c) == Bound(c, <<"id", "path", "offset">>)
LegacyComponentBinding(c) == Bound(c, <<"path">>)
ExactWorkbookTemplateBinding(c) ==
  IF c.exact THEN Bound(c, <<"id", "path">>) ELSE "none"

Direct(c) ==
  CASE c.holder = "region" -> RegionTemplateBinding(c)
    [] c.holder = "legacy" -> IF LegacyComponentBinding(c) # "none"
                                THEN LegacyComponentBinding(c)
                                ELSE ExactWorkbookTemplateBinding(c)
    [] OTHER -> "none"

(* A column as the matcher sees it, and what its region was matched with. *)
Column == [named: BOOLEAN, ignoredInRegion: BOOLEAN, corpus: BOOLEAN,
           ignoreRule: BOOLEAN, observed: BOOLEAN,
           holder: {"region", "legacy", "none"}, exact: BOOLEAN,
           claims: [{"id", "path", "offset"} -> 0..2], ordinal: BOOLEAN,
           evidence: [Fields -> Evidence]]

(* ordinal says that binding and column counts agree. *)
WellFormed(c) ==
  /\ c.ordinal => c.exact /\ c.holder # "none"
  /\ c.ignoredInRegion \/ c.corpus => c.holder = "region"
  /\ \A f, g \in Fields : (c.evidence[f].role = "unsaid") = (c.evidence[g].role = "unsaid")
  /\ \A f \in Fields : c.evidence[f].type => c.observed

Decided(by) == [by |-> by, field |-> {}, hermes |-> FALSE]
Reused(f) == [by |-> "field", field |-> {f}, hermes |-> FALSE]
Undecided == [by |-> "nothing", field |-> {}, hermes |-> TRUE]

(* The first rule that applies. *)
FieldMatchValues(c) ==
  LET reused == {f \in Fields : ReuseWithoutHermes(c.observed, c.evidence, f)}
  IN  CASE ~c.named -> Decided("unnamed")
        [] c.named /\ c.ignoredInRegion -> Decided("region_ignores")
        [] c.named /\ ~c.ignoredInRegion /\ Direct(c) # "none" -> Decided("binding")
        [] OTHER ->
             IF c.corpus THEN Decided("corpus_projection")
             ELSE IF c.ignoreRule THEN Decided("ignore_rule")
             ELSE IF reused # {} THEN Reused(CHOOSE f \in reused : TRUE)
             ELSE Undecided

-----------------------------------------------------------------------------
(* Regions. *)

(* The signature of a region or of a published version: its header paths,    *)
(* the number of its columns, the depth of its header and its kind.          *)
Signature == [headers: SUBSET Headers, columns: 1..2, depth: 1..2,
              kind: {"table", "form", "unknown"}]

(* round(10_000 * part / total): a half goes to the even number. *)
Share(part, total) ==
  LET down == (10000 * part) \div total
      twice == 2 * (10000 * part - down * total)
  IN  IF twice > total \/ (twice = total /\ down % 2 = 1) THEN down + 1 ELSE down

(* _component_score *)
ComponentScore(actual, expected) ==
  LET union == actual.headers \cup expected.headers
      shared == actual.headers \cap expected.headers
      mismatches == {key \in {"columns", "depth", "kind"} :
                       /\ actual[key] # expected[key]
                       /\ key = "depth" => actual.headers # expected.headers
                       /\ key = "kind" => "unknown" \notin {actual.kind, expected.kind}}
  IN  IF union = {} THEN 0
      ELSE Max({0, Share(Cardinality(shared), Cardinality(union))
                     - 750 * Cardinality(mismatches)})

(* How a region compares with a published version: its verified source or    *)
(* the same fingerprint or form anchors, its score, and whether its columns  *)
(* are bound, without Hermes, to just the fields of the version.             *)
Likeness == [same: {"source", "fingerprint", "none"},
             score: {ComponentScore(a, e) : a, e \in Signature}, fields: BOOLEAN]

Matched(type, version) == [type |-> type, version |-> version]

(* The version a region is matched with. *)
MatchRegion(like) ==
  LET are(Test(_)) == SelectSeq(RegionVersions, Test)
      top == Max({like[v].score : v \in Range(RegionVersions)} \cup {0})
      source == are(LAMBDA v : like[v].same = "source")
      fingerprint == are(LAMBDA v : like[v].same = "fingerprint")
      best == are(LAMBDA v : like[v].score = top /\ top > 0)
      fields == are(LAMBDA v : like[v].fields)
      bestFields == are(LAMBDA v : /\ like[v].fields
                                   /\ \A w \in Range(fields) : like[w].score <= like[v].score)
  IN  IF source # <<>> THEN Matched("exact", Last(source))
      ELSE IF fingerprint # <<>> THEN Matched("exact", Last(fingerprint))
      ELSE IF best = <<>> THEN Matched("none", "none")
      ELSE IF top = 10000 THEN Matched("exact", Head(best))
      ELSE IF fields # <<>> THEN Matched("exact", Last(bestFields))
      ELSE Matched("partial", Head(best))

(* With no region published, the components of legacy templates and a legacy *)
(* template for the whole workbook; neither names a region version.          *)
MatchLegacy(fingerprint, score, workbook) ==
  IF fingerprint \/ score = 10000 THEN Matched("exact", "legacy")
  ELSE IF score > 0 THEN Matched("partial", "legacy")
  ELSE IF workbook THEN Matched("exact", "legacy")
  ELSE Matched("none", "none")

(* Slots: each takes the first source left that has its version.  Sources    *)
(* are a function from their places, which keep their order.                 *)
TakeSlot(found, slot, sources) ==
  LET own == {i \in found.rest : sources[i] = slot}
  IN  IF own = {} THEN found
      ELSE [matched |-> found.matched + 1, rest |-> found.rest \ {Min(own)}]
SlotCoverage(slots, sources) ==
  LET found[k \in 0..Len(slots)] ==
        IF k = 0 THEN [matched |-> 0, rest |-> DOMAIN sources]
        ELSE TakeSlot(found[k - 1], slots[k], sources)
  IN  found[Len(slots)]

(* Mutant: what is left over costs nothing. *)
SlotScoreGenerous(slots, sources) ==
  IF slots = <<>> THEN 0
  ELSE Share(SlotCoverage(slots, sources).matched, Len(slots))

SlotScore(slots, sources) ==
  LET found == SlotCoverage(slots, sources)
  IN  IF slots = <<>> THEN 0
      ELSE Max({0, Share(found.matched, Len(slots)) - 500 * Cardinality(found.rest)})

Complete(slots, sources) ==
  LET found == SlotCoverage(slots, sources)
  IN  found.matched = Len(slots) /\ found.rest = {}

NoCandidate == [type |-> "none", version |-> <<>>]

(* The first candidate with the best score above zero, in any order that the *)
(* query returns.                                                            *)
BestOf(candidates, sources) ==
  LET top == Max({SlotScore(c, sources) : c \in candidates} \cup {0})
  IN  IF top = 0 THEN {NoCandidate}
      ELSE {[type |-> IF Complete(c, sources) THEN "exact" ELSE "partial", version |-> c] :
              c \in {d \in candidates : SlotScore(d, sources) = top}}

Sheets == Range(Regions)

(* The exact regions of a sheet and the exact sheets of the workbook. *)
ExactRegions(rows, s) ==
  [r \in {q \in DOMAIN Regions : /\ Regions[q] = s /\ rows[q].type = "exact"
                                 /\ rows[q].version # "legacy"} |-> rows[r].version]
ExactSheets(rows) ==
  [s \in {t \in Sheets : rows[t].type = "exact"} |-> rows[s].version]

(* _match_sheet_compositions and _match_workbook_routes *)
MatchSheetCompositions(rows, published) ==
  LET best == [s \in Sheets |-> BestOf(published, ExactRegions(rows, s))]
  IN  {m \in [Sheets -> UNION Range(best)] : \A s \in Sheets : m[s] \in best[s]}
MatchWorkbookRoutes(sheets, published) == BestOf(published, ExactSheets(sheets))

(* The summary row: unresolved says that a column of the workbook needs Hermes. *)
Summary(rows, unresolved) ==
  LET exact == Cardinality({r \in DOMAIN rows : rows[r].type = "exact"})
  IN  [total |-> Cardinality(DOMAIN rows), matched |-> exact,
       type |-> IF exact > 0 /\ exact = Cardinality(DOMAIN rows) THEN "exact"
                ELSE IF \E r \in DOMAIN rows : rows[r].type # "none" THEN "partial"
                ELSE "none",
       hermes |-> unresolved \/ exact # Cardinality(DOMAIN rows)]

-----------------------------------------------------------------------------
NoColumn == [of |-> "none"]
NoRows == <<>>
NoRoute == [match |-> NoCandidate, among |-> {}, of |-> <<>>]
NoSummary == [total |-> 0, matched |-> 0, type |-> "none", hermes |-> TRUE]

MatchingInit ==
  /\ column = NoColumn
  /\ regionRow = NoRows /\ sheetRow = NoRows /\ routeRow = NoRoute
  /\ summary = NoSummary
  /\ matching = "profiled"

(* One column: evidence without bindings, or bindings without evidence. *)
MatchColumn ==
  /\ column = NoColumn /\ matching = "profiled"
  /\ \E c \in [named: {TRUE}, ignoredInRegion: {FALSE}, corpus: {FALSE},
               ignoreRule: {FALSE}, observed: BOOLEAN, holder: {"none"},
               exact: {FALSE}, claims: [{"id", "path", "offset"} -> {0}],
               ordinal: {FALSE}, evidence: [Fields -> Evidence]]
          \cup [named: BOOLEAN, ignoredInRegion: BOOLEAN, corpus: BOOLEAN,
                ignoreRule: BOOLEAN, observed: {TRUE}, holder: {"region", "legacy"},
                exact: BOOLEAN, claims: [{"id", "path", "offset"} -> 0..2],
                ordinal: BOOLEAN,
                evidence: [Fields -> {[label |-> "none", type |-> FALSE,
                                       context |-> FALSE, role |-> "unsaid"]}]] :
       /\ WellFormed(c)
       /\ column' = [of |-> "one", seen |-> c, values |-> FieldMatchValues(c)]
  /\ UNCHANGED <<regionRow, sheetRow, routeRow, summary, matching>>

(* match_template: the status is committed first. *)
StartMatching ==
  /\ column = NoColumn
  /\ matching # "matching"
  /\ routeRow.among \subseteq LaterRoutes
  /\ \A s \in DOMAIN sheetRow : sheetRow[s].among \subseteq LaterCompositions
  /\ Cardinality({r \in DOMAIN regionRow :
                     matching = "failed" \/ regionRow[r].type # "none"}) <= LaterRows
  /\ matching' = "matching"
  /\ UNCHANGED <<column, regionRow, sheetRow, routeRow, summary>>

(* What the comparison of a region with every version may come to. *)
Comparisons == {MatchRegion(like) : like \in [Range(RegionVersions) -> Likeness]}
LegacyComparisons == {MatchLegacy(fingerprint, l.score, workbook) :
                        fingerprint, workbook \in BOOLEAN, l \in Likeness}

RegionMatches ==
  [DOMAIN Regions -> Comparisons] \cup [DOMAIN Regions -> LegacyComparisons]
SheetRows(rows, sheets, known) ==
  [s \in Sheets |-> [match |-> sheets[s], among |-> known, of |-> ExactRegions(rows, s)]]
RouteRows(sheets, ways) ==
  {[match |-> route, among |-> ways, of |-> ExactSheets(sheets)] :
     route \in MatchWorkbookRoutes(sheets, ways)}

(* match_profile with the catalogue that is published now. *)
MatchProfile ==
  /\ matching = "matching"
  /\ \E rows \in RegionMatches, unresolved \in BOOLEAN,
        known \in SUBSET Compositions, ways \in SUBSET Routes :
       /\ summary # NoSummary => known \subseteq LaterCompositions /\ ways \subseteq LaterRoutes
       /\ \E sheets \in MatchSheetCompositions(rows, known) :
           /\ regionRow' = rows
           /\ sheetRow' = SheetRows(rows, sheets, known)
           /\ routeRow' \in RouteRows(sheets, ways)
           /\ summary' = Summary(rows, unresolved)
  /\ matching' = "matched"
  /\ UNCHANGED column

(* Mutant: the regions are matched in any order. *)
MatchFailsOutOfOrder ==
  /\ matching = "matching"
  /\ matching' = "failed"
  /\ \E done \in SUBSET DOMAIN Regions : regionRow' \in [done -> Comparisons]
  /\ UNCHANGED <<column, sheetRow, routeRow, summary>>

(* An exception in match_profile: match_template rolls nothing back, and     *)
(* commits with the failed status what the run had done by then.             *)
MatchFails ==
  /\ matching = "matching"
  /\ matching' = "failed"
  /\ \/ UNCHANGED <<regionRow, sheetRow, routeRow>>  \* before the deletes
     \/ \E rows \in RegionMatches, n \in 0..Len(Regions) :
          /\ regionRow' = [r \in 1..n |-> rows[r]]
          /\ UNCHANGED <<sheetRow, routeRow>>
     \/ \E rows \in RegionMatches, known \in SUBSET Compositions :
          /\ summary # NoSummary => known \subseteq LaterCompositions
          /\ regionRow' = rows
          /\ \E sheets \in MatchSheetCompositions(rows, known) :
              \/ \E n \in {0} \cup Sheets :
                   /\ sheetRow' = [s \in {t \in Sheets : t <= n} |->
                                     SheetRows(rows, sheets, known)[s]]
                   /\ UNCHANGED routeRow
              \/ /\ sheetRow' = SheetRows(rows, sheets, known)
                 /\ \E ways \in SUBSET Routes :
                      /\ summary # NoSummary => ways \subseteq LaterRoutes
                      /\ routeRow' \in {NoRoute} \cup RouteRows(sheets, ways)
  /\ UNCHANGED <<column, summary>>

(* The coverage that build_reused_region_fragments asks for, before it makes *)
(* a plan of the rows.                                                       *)
Covered ==
  DOMAIN regionRow # {} /\ Cardinality(DOMAIN regionRow) = summary.total

MatchingNext == MatchColumn \/ StartMatching \/ MatchProfile \/ MatchFails
MatchingSpec == MatchingInit /\ [][MatchingNext]_matchingVars

-----------------------------------------------------------------------------
MatchingTypeOK ==
  /\ \/ column = NoColumn
     \/ column.seen \in Column /\ column.values.hermes \in BOOLEAN
  /\ \E n \in 0..Len(Regions) : DOMAIN regionRow = 1..n
  /\ DOMAIN sheetRow \subseteq Sheets
  /\ \A s \in DOMAIN sheetRow, t \in Sheets : t < s => t \in DOMAIN sheetRow
  /\ matching \in {"profiled", "matching", "matched", "failed"}

(* The threshold and the margin leave no slack: a column whose label fits    *)
(* only by its leaf or by an alias goes to a field without Hermes only when  *)
(* type, context and role all agree, and no other field has the same label.  *)
AliasReuseIsUnanimous ==
  column # NoColumn =>
    LET e == column.seen.evidence
    IN  \A f \in column.values.field :
          e[f].label \in {"leaf", "base"} =>
            /\ e[f].type /\ e[f].context /\ e[f].role = "agrees"
            /\ \A g \in Fields \ {f} : Score(e[g]) <= 7000

(* The greedy, order-dependent slot matching finds an exact composition      *)
(* (or route) precisely when a published one has the slots that the exact    *)
(* regions (or sheets) make up as a bag: no candidate with a better score    *)
(* hides it, and whatever is left over keeps a candidate from being exact.   *)
ExactIsTheSameBag ==
  LET right(row) == (row.match.type = "exact") <=>
                      \E c \in row.among : c # <<>> /\ ToBag(c) = ToBag(row.of)
  IN  right(routeRow) /\ \A s \in DOMAIN sheetRow : right(sheetRow[s])

(* However many runs failed before, and whatever they committed: once the    *)
(* item is matched, the rows of its regions, sheets and route and the        *)
(* summary are all of one run.                                               *)
MatchedIsOneRun ==
  matching = "matched" =>
    /\ DOMAIN regionRow = DOMAIN Regions
    /\ \A s \in Sheets : sheetRow[s].of = ExactRegions(regionRow, s)
    /\ routeRow.of = ExactSheets([s \in Sheets |-> sheetRow[s].match])
    /\ summary.total = Cardinality(DOMAIN regionRow)
    /\ summary.matched = Cardinality({r \in DOMAIN regionRow : regionRow[r].type = "exact"})
    /\ ~summary.hermes => \A r \in DOMAIN regionRow : regionRow[r].type = "exact"

(* The rows that a failed run left, under the summary of an older one, make  *)
(* a plan only when they are rows of every region.                           *)
PartsMakeNoPlan == Covered => DOMAIN regionRow = DOMAIN Regions

(* What the plan and the review read of a match is so: an exact candidate is  *)
(* the same bag of slots, the rows of a matched item are of one run and those *)
(* of a failed one make no plan in part, and a column matched by its leaf or  *)
(* an alias was reused without Hermes only where its evidence agrees.         *)
MatchMeansWhatItSays ==
  /\ ExactIsTheSameBag /\ MatchedIsOneRun /\ PartsMakeNoPlan
  /\ AliasReuseIsUnanimous
=============================================================================
