---------------------------- MODULE QueryAnswers ----------------------------
(***************************************************************************)
(* The other answers over the fact sets of QueryPlanning: lists, rankings  *)
(* and summaries of a catalog query (catalog_query.py), the plans a        *)
(* published contract admits and what they compute (safe_query.py), and    *)
(* the evidence of SQL of the model's own (hermes/question_tools.py).      *)
(* An average is the sum over the number of values.                        *)
(***************************************************************************)
EXTENDS QueryPlanning, SourceLookup

AskedFields == {"name", "number"}
Summaries == {"sum", "min", "max"}

-----------------------------------------------------------------------------
(* Catalog queries *)

(* The operations each tool hands on; the others are refused. *)
ToolOperations ==
    [execute_bounded_query |-> {"lookup", "list", "count", "group_count", "aggregate", "rank"},
     lookup_records |-> {"lookup", "list"}, aggregate_records |-> {"count", "group_count"},
     summarize_values |-> {"aggregate"}, rank_records |-> {"rank"}]

Smaller(m, n) == IF m < n THEN m ELSE n
LimitOf(operation, limit) == IF operation = "lookup" THEN 1 ELSE limit

(* LIMIT without ORDER BY: any choice of so many rows. *)
Lists(fact, filters, limit) ==
    LET records == Passing(FactPredicates(fact), filters)
    IN {rows \in SUBSET records : Cardinality(rows) = Smaller(limit, Cardinality(records))}

Valued(records, field) == {r \in records : Has(r, field)}

(* Ranked by value; ties are broken by the record's random id. *)
Ranks(fact, filters, field, direction) ==
    LET valued == Valued(Passing(FactPredicates(fact), filters), field)
        behind(r, s) == IF direction = "desc" THEN r.row[field] < s.row[field]
                        ELSE r.row[field] > s.row[field]
    IN {order \in SetToSeqs(valued) :
           \A i, j \in DOMAIN order : i < j => ~behind(order[i], order[j])}

TopOf(order, limit) == SubSeq(order, 1, Smaller(limit, Len(order)))

(* The aggregate of a field's values, empty when there are none. *)
SummaryOf(records, field, aggregation) ==
    LET valued == Valued(records, field)
        values == {r.row[field] : r \in valued}
    IN IF valued = {} THEN {}
       ELSE CASE aggregation = "sum" -> {SumOf([r \in valued |-> r.row[field]])}
              [] aggregation = "min" -> {Min(values)}
              [] aggregation = "max" -> {Max(values)}

SummaryAnswer(fact, filters, field, aggregation) ==
    SummaryOf(Passing(FactPredicates(fact), filters), field, aggregation)

SummaryBy(fact, filters, field, aggregation, group) ==
    LET records == Valued(Valued(Passing(FactPredicates(fact), filters), field), group)
    IN [value \in {r.row[group] : r \in records} |->
           SummaryOf({r \in records : r.row[group] = value}, field, aggregation)]

(* A table or record about no record at all is marked empty. *)
AcceptanceOf(operation, records) ==
    IF operation # "count" /\ records = {} THEN "empty" ELSE "accepted"

-----------------------------------------------------------------------------
(* Plans over a published contract.  A plan names sets of fields; measure has *)
(* at most one.                                                               *)

SafePlans ==
    [operation : {"count", "lookup", "list"}, select : SUBSET AskedFields,
     filters : SUBSET AskedFields, groupBy : {{}}, measure : {{}}, aggregation : {"none"}]
    \cup [operation : {"aggregate", "group_by"}, select : {{}}, filters : SUBSET AskedFields,
          groupBy : SUBSET AskedFields, measure : {{field} : field \in AskedFields},
          aggregation : Summaries \cup {"count"}]

Referenced(plan, factSet) ==
    plan.select \cup plan.filters \cup plan.groupBy \cup plan.measure \cup factSet.identity

GroupedDistinctCount(plan, factSet, manifest) ==
    /\ plan.aggregation = "count" /\ plan.measure \subseteq manifest.grouped
    /\ plan.measure = factSet.identity

(* compile_safe_query, for a fact set that CompiledFactSets found and the     *)
(* fields the catalog offers of it.                                           *)
Compiles(plan, offered, factSet, manifest) ==
    /\ plan.operation \in {"lookup", "list"} => plan.select # {}
    /\ plan.operation = "group_by" => plan.groupBy # {}
    /\ Referenced(plan, factSet) \subseteq offered
    /\ plan.select \cup plan.filters \subseteq manifest.dimensions \cup factSet.identity
    /\ plan.groupBy \subseteq manifest.dimensions
    /\ plan.measure \subseteq manifest.measures
    /\ plan.measure # {} => plan.aggregation \in manifest.aggregations
    /\ plan.measure \subseteq manifest.additive \/ plan.groupBy = {}
       \/ GroupedDistinctCount(plan, factSet, manifest)

SafeSummary(records, field, aggregation) ==
    IF aggregation = "count" THEN {Cardinality({r.row[field] : r \in Valued(records, field)})}
    ELSE SummaryOf(records, field, aggregation)

(* The records of a lookup or list.  PostgreSQL refuses an order: DISTINCT    *)
(* allows ordering by selected columns only.                                  *)
SafeLists(factSet, filters, limit) ==
    LET records == Passing(Matching(factSet), filters)
    IN {rows \in SUBSET records : Cardinality(rows) = Smaller(limit, Cardinality(records))}

(* Groups are over records that have an index row of every grouping field and *)
(* of the measure, whether or not the rows hold a value.                      *)
SafeGroups(factSet, filters, field, aggregation, groupBy) ==
    LET records == {r \in Passing(Matching(factSet), filters) :
                       groupBy \cup {field} \subseteq DOMAIN r.row}
    IN [key \in {Identified(r, groupBy) : r \in records} |->
           SafeSummary({r \in records : Identified(r, groupBy) = key}, field, aggregation)]

-----------------------------------------------------------------------------
(* SQL over the virtual tables of one fact set *)

(* The counts that the snapshot may hold of a fact set: those of the last of   *)
(* the groups of one provenance and one plan that became this entry.           *)
ListedCounts(fact) ==
    LET listed == {r \in ScopedRecords : FactIdentity(r.origin).code = fact.code}
        group(s) == {r \in ScopedRecords : /\ r.origin.type = s.origin.type
                                    /\ r.origin.rules = s.origin.rules}
    IN {Cardinality(group(s)) : s \in listed}

(* What a query selects: rows with their record_id, one row with a            *)
(* record_count of its own, or rows that name no record.                      *)
Selections == {"records", "own_count", "values"}
SqlRows(fact, limit) ==
    {rows \in SUBSET QuestionRecords(fact) :
        Cardinality(rows) = Smaller(limit, Cardinality(QuestionRecords(fact)))}
Truncated(rows, limit) == Cardinality(rows) >= limit

(* The record counts the evidence of an answer may claim. *)
SqlEvidence(fact, selection, rows) ==
    CASE selection = "own_count" -> {Cardinality(QuestionRecords(fact))}
      [] selection = "records" /\ rows # {} -> {Cardinality(rows)}
      [] OTHER -> ListedCounts(fact)

-----------------------------------------------------------------------------
(* A group of records without a value sums to nothing. *)
TotalOfGroups(groups) == SumOf([g \in DOMAIN groups |-> SumOf([v \in groups[g] |-> v])])

Measure(plan) == CHOOSE field \in plan.measure : TRUE

AggregateAgrees(plan, fact, factSet, filters) ==
    LET records == Passing(Matching(factSet), filters)
        answer == SafeSummary(records, Measure(plan), plan.aggregation)
    IN IF plan.aggregation = "count"
         THEN plan.measure = factSet.identity => answer = {SafeCount(factSet, filters)}
         ELSE answer = SummaryAnswer(fact, filters, Measure(plan), plan.aggregation)

GroupsAgree(plan, factSet, manifest, filters) ==
    LET records == Valued(Passing(Matching(factSet), filters), Measure(plan))
        whole == SafeSummary(records, Measure(plan), plan.aggregation)
        groups == SafeGroups(factSet, filters, Measure(plan), plan.aggregation, plan.groupBy)
        covered == \A r \in records : plan.groupBy \subseteq DOMAIN r.row
    IN /\ plan.aggregation # "count" => plan.measure \subseteq manifest.additive
       /\ covered /\ whole # {} =>
             CASE plan.aggregation = "sum" -> whole = {TotalOfGroups(groups)}
               [] plan.aggregation = "count" -> Max(whole) <= TotalOfGroups(groups)
               [] OTHER -> whole \subseteq UNION Range(groups)

(* A list within its limit shows every record that is counted, and it is      *)
(* marked empty exactly when it shows none (_execute_catalog_plan).           *)
ListsShowWhatIsCounted ==
    \A fact \in FactCatalog, operation \in ToolOperations.lookup_records :
      \A limit \in 1 .. MaxRecords + 1 :
        LET records == FactPredicates(fact) IN
        \A rows \in Lists(fact, {}, LimitOf(operation, limit)) :
            /\ Cardinality(rows) < LimitOf(operation, limit) => Cardinality(rows) = Count(fact, {})
            /\ AcceptanceOf(operation, records) = "empty" <=> rows = {}

(* The first of a ranking is the extreme of the summary, a shorter ranking is *)
(* led by the same value as a longer one, and nobody left out ranks before    *)
(* somebody shown (catalog_query.py, rank and aggregate).                     *)
RankingsAgreeWithSummaries ==
    \A fact \in FactCatalog, field \in AskedFields, direction \in {"asc", "desc"} :
      field \in FieldCodes(fact.code) =>
        LET aggregation == IF direction = "desc" THEN "max" ELSE "min"
            extreme == SummaryAnswer(fact, {}, field, aggregation) IN
        \A limit \in 1 .. MaxRecords, order \in Ranks(fact, {}, field, direction) :
            LET shown == TopOf(order, limit) IN
            /\ extreme = {shown[i].row[field] : i \in DOMAIN shown \cap {1}}
            /\ \A r \in Valued(FactPredicates(fact), field) \ Range(shown) : \A s \in Range(shown) :
                  IF direction = "desc" THEN r.row[field] <= s.row[field]
                  ELSE r.row[field] >= s.row[field]

(* Where every record with a value has a group, the sums of the groups add up *)
(* to the sum and the extremes of the groups hold the extreme.                *)
SummariesAddUp ==
    \A fact \in FactCatalog, field \in AskedFields, group \in AskedFields :
      /\ {field, group} \subseteq FieldCodes(fact.code)
      /\ \A r \in Valued(FactPredicates(fact), field) : Has(r, group)
      => LET groups(aggregation) == SummaryBy(fact, {}, field, aggregation, group)
             whole(aggregation) == SummaryAnswer(fact, {}, field, aggregation)
         IN IF whole("sum") = {} THEN DOMAIN groups("sum") = {}
            ELSE /\ whole("sum") = {TotalOfGroups(groups("sum"))}
                 /\ \A extreme \in {"min", "max"} :
                       whole(extreme) \subseteq UNION Range(groups(extreme))

(* A plan that compiles answers what the catalog query answers; grouped, it   *)
(* adds up when every measured record has a row of the groups, except that an *)
(* identity counted in several groups is counted again: no other measure that *)
(* must not be added is ever grouped (safe_query.py).                         *)
ContractsAgreeWithCatalog ==
    \A fact \in FactCatalog : \A f \in CompiledFactSets(fact) : \A m \in ManifestsOf(f) :
      LET offered == FieldCodes(fact.code) IN
      \A plan \in {p \in SafePlans : Compiles(p, offered, f, m)} :
        LET filters == {[field |-> x, value |-> 1] : x \in plan.filters} IN
        CASE plan.operation = "count" -> SafeCount(f, filters) <= Count(fact, filters)
          [] plan.operation = "lookup" -> SafeLists(f, filters, 1) = Lists(fact, filters, 1)
          [] plan.operation = "list" ->
                SafeLists(f, filters, MaxRecords) = Lists(fact, filters, MaxRecords)
          [] plan.operation = "aggregate" -> AggregateAgrees(plan, fact, f, filters)
          [] plan.operation = "group_by" -> GroupsAgree(plan, f, m, filters)

(* The evidence of an SQL answer claims no more records than the fact set has, *)
(* and rows that are not truncated are all of them (_handle_query_postgres).   *)
SqlEvidenceIsBounded ==
    Orderly =>
      \A fact \in FactCatalog, selection \in Selections, limit \in 1 .. MaxRecords + 1 :
        \A rows \in SqlRows(fact, limit) :
            /\ \A claimed \in SqlEvidence(fact, selection, rows) : claimed <= Count(fact, {})
            /\ ~Truncated(rows, limit) => rows = QuestionRecords(fact)

(* Fact sets part the records of a scope, and all the ways to ask for one     *)
(* number of theirs give one number.                                          *)
AnswersAgree ==
    /\ FactSetsPartitionTheScope /\ GroupsAddUp /\ OfficialNumbersAgree /\ HouseholdsAreWhole
    /\ ListsShowWhatIsCounted /\ RankingsAgreeWithSummaries /\ SummariesAddUp
    /\ ContractsAgreeWithCatalog /\ SqlEvidenceIsBounded
    /\ LookupIsComplete
=============================================================================
