-------------------------- MODULE ImportPlanContents --------------------------
(***************************************************************************)
(* What an import plan contains (templates/import_plans.py): the rows and  *)
(* columns an approved layout or a region template projects on another     *)
(* workbook, the column a field binding resolves to, and the mappings of a *)
(* plan put together from region templates, field matches and Hermes.      *)
(* Labels are abstracted to header paths of a few parts, a region to its   *)
(* rows and columns.  judgedPlan holds what the last step computed.        *)
(***************************************************************************)
EXTENDS Integers, Sequences, FiniteSets, SequencesExt, FiniteSetsExt

VARIABLE judgedPlan

NoPlan == [of |-> "nothing"]
PlanInit == judgedPlan = NoPlan
JudgePlan(what) == judgedPlan' = what

Refused == [error |-> TRUE]

-----------------------------------------------------------------------------
(* Rows and columns.  header is the last header row of the region.           *)

Region == [min: 1..2, max: 3..4, header: 1..3, left: 1..2, right: 2..3]

Inside(region, d) ==
  /\ d.start >= region.min /\ d.end <= region.max /\ d.start <= d.end
  /\ d.left >= region.left /\ d.right <= region.right /\ d.left <= d.right

Canonical(d) == [d EXCEPT !.excluded = @ \cap d.start..d.end]

BuildLayoutProjectionSnapshot(region, d) ==
  IF ~Inside(region, d) THEN Refused
  ELSE [error |-> FALSE, fromHeader |-> d.start - region.header,
        gap |-> region.max - d.end, fromLeft |-> d.left - region.left,
        rightGap |-> region.right - d.right,
        excluded |-> {row - d.start : row \in d.excluded}]

(* Mutant: the end is counted from the start of the data. *)
ProjectByLength(snapshot, region) ==
  LET start == region.header + snapshot.fromHeader
  IN  [start |-> start, end |-> start + snapshot.gap,
       left |-> region.left + snapshot.fromLeft, right |-> region.right - snapshot.rightGap,
       excluded |-> {start + offset : offset \in snapshot.excluded}]

(* The row range is not compared with the region again. *)
ProjectLayoutPlan(snapshot, region) ==
  LET start == region.header + snapshot.fromHeader
  IN  [start |-> start, end |-> region.max - snapshot.gap,
       left |-> region.left + snapshot.fromLeft, right |-> region.right - snapshot.rightGap,
       excluded |-> {start + offset : offset \in snapshot.excluded}]

(* The layout rules of a region version: where the data start and end, and    *)
(* which rows and outer columns they leave out; "nothing" when they do not    *)
(* say where.  Nothing bounds the numbers: catalog editors type them too.     *)
LayoutRules == [from: {"header", "start", "nothing"}, offset: 0..2,
                ends: BOOLEAN, gap: -1..2, excluded: SUBSET {0, 2},
                fromLeft: -1..1, rightGap: -1..1]

ProjectRegionDataRows(region, rules) ==
  LET start == (IF rules.from = "header" THEN region.header ELSE region.min) + rules.offset
      end == region.max - rules.gap
  IN  IF rules.from = "nothing" \/ ~rules.ends
           \/ start < region.min \/ end > region.max \/ start > end
        THEN Refused
      ELSE [error |-> FALSE, start |-> start, end |-> end]

(* The columns are projected as they come; nothing compares them here. *)
RegionDecision(region, rules) ==
  LET rows == ProjectRegionDataRows(region, rules)
  IN  [start |-> rows.start, end |-> rows.end, left |-> region.left + rules.fromLeft,
       right |-> region.right - rules.rightGap,
       excluded |-> {rows.start + offset : offset \in rules.excluded}]

(* What materialization asks of a decision and of the columns mapped in its   *)
(* region (those without a source selector); otherwise it raises.             *)
Materializes(region, d, mapped) ==
  /\ Inside(region, d) /\ d.excluded \subseteq d.start..d.end
  /\ mapped \subseteq d.left..d.right

-----------------------------------------------------------------------------
(* Columns.  T is a part with the marker of a document title. *)

HeaderPaths == {<<"a">>, <<"T", "a">>, <<"g", "a">>, <<"b">>}

WithoutDocumentTitle(path) ==
  IF Len(path) >= 2 /\ path[1] = "T" THEN Tail(path) ELSE path

HeaderPathsEquivalent(p, q) ==
  LET short == IF Len(p) < Len(q) THEN p ELSE q
      long == IF Len(p) < Len(q) THEN q ELSE p
      before == SubSeq(long, 1, Len(long) - Len(short))
  IN  \/ p = q
      \/ WithoutDocumentTitle(p) = WithoutDocumentTitle(q)
      \/ IsSuffix(short, long) /\ "T" \in Range(before)

SameHeaderLeaf(p, q) == Last(p) = Last(q)

AtOffset(b, columns) ==
  {c \in {b.place} \cap DOMAIN columns : HeaderPathsEquivalent(b.path, columns[c])}

(* A binding has the header path and the place of its column in the region   *)
(* it was learned from.  columns are the header paths of the current region,  *)
(* moved by shift; same: it is the region the binding was learned from.       *)
ResolveReusedRegionColumn(bindings, i, columns, same, projected, shift) ==
  LET b == bindings[i]
      like == {c \in DOMAIN columns : HeaderPathsEquivalent(b.path, columns[c])}
      leaf == {c \in DOMAIN columns : SameHeaderLeaf(b.path, columns[c])}
      physical == {b.place - shift} \cap (like \cup leaf)
  IN  CASE same /\ b.place \in DOMAIN columns -> {b.place}
        [] ~same /\ projected -> AtOffset(b, columns)
        [] ~same /\ ~projected /\ Cardinality(like) = 1 -> like
        [] ~same /\ ~projected /\ Cardinality(like) # 1 /\ physical # {} -> physical
        [] OTHER -> IF Len(bindings) = Len(columns) THEN {i} \cap like ELSE {}

-----------------------------------------------------------------------------
(* Mappings.  A role is a name and a number; the header says what the leaf    *)
(* of its path means: nothing, a comparison, or a role of its own.            *)

NoRole == <<"none", 1>>
Mapping == [field: {"f", "g"}, role: {NoRole, <<"self", 1>>, <<"duplicate", 1>>},
            header: {"plain", "compares", "self"}, hermes: BOOLEAN]

FirstFree(base, used) ==
  <<base, Min({n \in 1..Cardinality(used) + 1 : <<base, n>> \notin used})>>

Conflicting(header) == IF header = "compares" THEN "registry_comparison" ELSE "duplicate"
Unsaid(header) == IF header = "self" THEN "self" ELSE "duplicate"

(* Mutant: a role that was made up is forgotten. *)
AssignForgetful(s, i, role) ==
  [s EXCEPT !.mappings[i].role = role,
            !.used = IF s.mappings[i].role = role THEN @ \cup {role} ELSE @]

Assign(s, i, role) == [s EXCEPT !.mappings[i].role = role, !.used = @ \cup {role}]

(* The mappings in their order: those that were said to have a role keep it,   *)
(* but for one that is in use; the ones without get one of their own.          *)
KeepRoles(mappings, said) ==
  LET keep(s, i) ==
        IF mappings[i].role \notin s.used THEN Assign(s, i, mappings[i].role)
        ELSE Assign(s, i, FirstFree(Conflicting(mappings[i].header), s.used))
      kept[n \in 0..Len(mappings)] ==
        IF n = 0 THEN [mappings |-> mappings, used |-> {}]
        ELSE IF n \in said THEN keep(kept[n - 1], n) ELSE kept[n - 1]
  IN  kept[Len(mappings)]

GiveRoles(kept, mappings, without) ==
  LET give(s, i) == Assign(s, i, FirstFree(Unsaid(mappings[i].header), s.used))
      given[n \in 0..Len(mappings)] ==
        IF n = 0 THEN kept
        ELSE IF n \in without THEN give(given[n - 1], n) ELSE given[n - 1]
  IN  given[Len(mappings)]

(* The mappings of one field in one region; the first without a role that is  *)
(* not of Hermes keeps none.                                                  *)
DisambiguateGroup(mappings, field) ==
  LET group == {i \in DOMAIN mappings : mappings[i].field = field}
      unsaid == {i \in group : mappings[i].role = NoRole}
      own == {i \in unsaid : ~mappings[i].hermes}
      canonical == IF own # {} THEN {Min(own)} ELSE IF unsaid # {} THEN {Min(unsaid)} ELSE {}
  IN  IF Cardinality(group) < 2 THEN mappings
      ELSE GiveRoles(KeepRoles(mappings, group \ unsaid), mappings, unsaid \ canonical).mappings

DisambiguateDuplicateFieldRoles(mappings) ==
  DisambiguateGroup(DisambiguateGroup(mappings, "f"), "g")

(* The columns of the workbook, by region, with what can map them: a binding  *)
(* of an exact region, a field match, a decision of Hermes.                   *)
SourceColumn == [region: {1, 2}, binding: BOOLEAN, matched: BOOLEAN, hermes: BOOLEAN]

(* BuildReusedFieldMatchMappings, given the regions of the decisions. *)
FieldMatchMappings(columns, regions, mapped) ==
  {i \in DOMAIN columns : columns[i].region \in regions /\ columns[i].matched} \ mapped

(* reused: the exact regions; supplied: those of the answer of Hermes, of     *)
(* which some are materialized.  The mappings, as the columns of each source. *)
HybridMappings(columns, reused, supplied, materialized) ==
  LET new == supplied \ reused
      first == {i \in DOMAIN columns : columns[i].region \in reused /\ columns[i].binding}
      second == FieldMatchMappings(columns, reused \cup new, first)
      third == {i \in DOMAIN columns : columns[i].hermes
                 /\ columns[i].region \in reused \cup (new \cap materialized)}
                 \ (first \cup second)
  IN  IF supplied = {} THEN Refused
      ELSE [error |-> FALSE, decisions |-> reused \cup new,
            mappings |-> <<first, second, third>>]

MatchedMappings(columns, reused) ==
  LET first == {i \in DOMAIN columns : columns[i].region \in reused /\ columns[i].binding}
  IN  [error |-> FALSE, decisions |-> reused,
       mappings |-> <<first, FieldMatchMappings(columns, reused, first), {}>>]

-----------------------------------------------------------------------------
JudgeSnapshot ==
  \E source \in Region, start, end \in 0..4, left \in 0..2, right \in 1..3,
     excluded \in SUBSET {2, 3} :
    LET approved == Canonical([start |-> start, end |-> end, left |-> left,
                               right |-> right, excluded |-> excluded])
        snapshot == BuildLayoutProjectionSnapshot(source, approved)
    IN  /\ source.min <= source.header /\ ~snapshot.error
        /\ JudgePlan([of |-> "snapshot", source |-> source, approved |-> approved,
                      again |-> Canonical(ProjectLayoutPlan(snapshot, source))])

JudgeProjection ==
  \E region \in Region, rules \in LayoutRules :
    \E mapped \in SUBSET (region.left..region.right) :
      LET decision == Canonical(RegionDecision(region, rules))
      IN  /\ region.min <= region.header
          /\ ~ProjectRegionDataRows(region, rules).error
          /\ JudgePlan([of |-> "projection", region |-> region, rules |-> rules,
                        decision |-> decision, mapped |-> mapped,
                        materializes |-> Materializes(region, decision, mapped)])

JudgeColumns ==
  \E n, m \in 1..2 : \E paths \in [1..n -> HeaderPaths], columns \in [1..m -> HeaderPaths],
     same, projected \in BOOLEAN, shift \in 0..1 :
    LET bindings == [i \in 1..n |-> [path |-> paths[i], place |-> i]]
    IN  /\ same => columns = paths
        /\ JudgePlan([of |-> "columns", bindings |-> bindings, columns |-> columns,
                      same |-> same, projected |-> projected,
                      resolved |-> [i \in 1..n |->
                        ResolveReusedRegionColumn(bindings, i, columns, same, projected, shift)]])

JudgeRoles ==
  \E mappings \in [1..3 -> Mapping] :
    JudgePlan([of |-> "roles", mappings |-> DisambiguateDuplicateFieldRoles(mappings)])

JudgeMappings ==
  \E columns \in [1..3 -> SourceColumn], reused, supplied, materialized \in SUBSET {1, 2} :
    LET hybrid == HybridMappings(columns, reused, supplied, materialized)
        matched == MatchedMappings(columns, reused)
    IN  /\ \A i \in 1..2 : columns[i].region <= columns[i + 1].region
        /\ materialized \subseteq supplied
        /\ \/ ~hybrid.error /\ JudgePlan([of |-> "mappings", plan |-> hybrid])
           \/ reused # {} /\ JudgePlan([of |-> "mappings", plan |-> matched])

PlanNext ==
  /\ judgedPlan = NoPlan
  /\ \/ JudgeSnapshot \/ JudgeProjection \/ JudgeColumns
     \/ JudgeRoles \/ JudgeMappings
PlanSpec == PlanInit /\ [][PlanNext]_judgedPlan

-----------------------------------------------------------------------------
(* An approved layout projected on its own workbook is the approved layout,  *)
(* so that importing the same file twice reads the same rows (the two halves *)
(* are written apart, at publication and at import).                         *)
SameFileSameRows ==
  judgedPlan.of = "snapshot" => judgedPlan.again = judgedPlan.approved

(* The outer columns that rules leave out are columns of the region. *)
ColumnsFit(region, rules) ==
  /\ rules.fromLeft >= 0 /\ rules.rightGap >= 0
  /\ rules.fromLeft + rules.rightGap <= region.right - region.left

(* What keeps a plan made without a person from being materialized is known:  *)
(* a decision that a region template projects is refused exactly when the     *)
(* region is too narrow for its rules or a column they leave out is mapped,   *)
(* and never for its rows; no two mappings of a region have a field in one    *)
(* role, and every source column is mapped by one source only                 *)
(* (materialization.py raises after the plan is committed, and a retry raises *)
(* again).                                                                    *)
MachinePlanIsMaterializable ==
  /\ judgedPlan.of = "projection" =>
       LET d == judgedPlan.decision
       IN  judgedPlan.materializes <=>
             /\ ColumnsFit(judgedPlan.region, judgedPlan.rules)
             /\ judgedPlan.mapped \subseteq d.left..d.right
  /\ judgedPlan.of = "roles" =>
       \A i, j \in DOMAIN judgedPlan.mappings :
         LET a == judgedPlan.mappings[i]  b == judgedPlan.mappings[j]
         IN  a.field = b.field /\ a.role = b.role => i = j
  /\ judgedPlan.of = "mappings" =>
       \A i, j \in 1..3 :
         i # j => judgedPlan.plan.mappings[i] \cap judgedPlan.plan.mappings[j] = {}

(* A binding learned from one place resolves to a column that says the same: *)
(* an equivalent header path or at least its leaf, and two bindings whose    *)
(* places the template records never fall on one column.                     *)
BindingKeepsItsHeader ==
  judgedPlan.of = "columns" =>
    /\ \A i \in DOMAIN judgedPlan.bindings : \A c \in judgedPlan.resolved[i] :
         \/ HeaderPathsEquivalent(judgedPlan.bindings[i].path, judgedPlan.columns[c])
         \/ SameHeaderLeaf(judgedPlan.bindings[i].path, judgedPlan.columns[c])
    /\ \A i, j \in DOMAIN judgedPlan.bindings :
         (judgedPlan.same \/ judgedPlan.projected) /\ i # j =>
           judgedPlan.resolved[i] \cap judgedPlan.resolved[j] = {}

(* What was approved once is read from the same cells again, rows and columns. *)
ReuseReadsTheSameCells == SameFileSameRows /\ BindingKeepsItsHeader
=============================================================================
