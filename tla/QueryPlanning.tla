--------------------------- MODULE QueryPlanning ---------------------------
(* The governed answers to a question: query contracts and their publication *)
(* (query_governance.py), the catalog of fact sets frozen for a run          *)
(* (question_catalog.py) and the tools that count over it: catalog queries   *)
(* (catalog_query.py), safe queries (safe_query.py), official metrics        *)
(* (questions.py) and the tool handlers of hermes/question_tools.py.         *)
(* An index row holds the typed value of one field of a record; a cell with  *)
(* a spreadsheet error leaves a row whose value is null.                     *)
EXTENDS Naturals, FiniteSets, FiniteSetsExt, SequencesExt

CONSTANTS
    Origins,         \* where records come from: [type, rules, file, late]; rules are
                     \* the record's provenances, the most specific one first
    Names, Figures,  \* values of the two fields, "name" and "number" (0 is null)
    FactSetDrafts,   \* drafts of QueryFactSetDefinition
    ManifestDrafts,  \* drafts of SemanticManifestDefinition
    MetricDrafts,    \* drafts of MetricDefinition
    PublishedFields, \* codes of the fields whose published version exists
    ScopeFiles,      \* files of the frozen scope
    MaxRecords       \* bound: records in the database

VARIABLES
    factSets, manifests, metrics, \* the published contracts
    facts                         \* DatasetRecord rows with their index values

queryVars == <<factSets, manifests, metrics, facts>>

(* A version of a fact set is stored once (QueryFactSetDefinition), and only  *)
(* values of published fields are indexed.                                   *)
ASSUME QueryAssumption ==
    /\ \A o \in Origins : o.rules \in Seq(Range(o.rules)) /\ o.rules # <<>>
    /\ \A f, g \in FactSetDrafts : f.code = g.code /\ f.version = g.version => f = g
    /\ {"name", "number"} \subseteq PublishedFields
    /\ IsFiniteSet(Names) /\ Names \cup Figures \subseteq Nat
    /\ MaxRecords \in Nat

Null == 0
IndexRows == [name : Names] \cup [name : Names, number : Figures]
Has(record, field) == field \in DOMAIN record.row /\ record.row[field] # Null

-----------------------------------------------------------------------------
(* Publication of the contracts *)

PublishableFactSet(draft) ==
    /\ draft.identity # {}
    /\ draft.identity \cup draft.dimensions \cup draft.measures \subseteq PublishedFields

(* The published fact set a contract names, as a set of at most one. *)
FactSetOf(contract) ==
    {f \in factSets : f.code = contract.factSet[1] /\ f.version = contract.factSet[2]}
ManifestsOf(factSet) ==
    {m \in manifests : m.factSet = <<factSet.code, factSet.version>> /\ m.catalog = factSet.catalog}

PublishableManifest(draft) ==
    \E f \in FactSetOf(draft) : draft.catalog = f.catalog

PublishableMetricOfAnyIdentity(draft) ==
    \E f \in FactSetOf(draft) : \E m \in ManifestsOf(f) :
        draft.field \in m.measures /\ draft.type = f.type

PublishableMetric(draft) ==
    \E f \in FactSetOf(draft) : \E m \in ManifestsOf(f) :
        /\ draft.field \in m.measures \cap f.measures
        /\ draft.type = f.type
        /\ draft.identity = f.identity

PublishFactSet(draft) ==
    /\ PublishableFactSet(draft)
    /\ factSets' = factSets \cup {draft}
    /\ UNCHANGED <<manifests, metrics, facts>>

PublishManifest(draft) ==
    /\ PublishableManifest(draft)
    /\ manifests' = manifests \cup {draft}
    /\ UNCHANGED <<factSets, metrics, facts>>

PublishMetric(draft) ==
    /\ PublishableMetric(draft)
    /\ metrics' = metrics \cup {draft}
    /\ UNCHANGED <<factSets, manifests, facts>>

StoreRecord(origin, row) ==
    /\ Cardinality(facts) < MaxRecords
    /\ facts' = facts \cup {[origin |-> origin, row |-> row]}
    /\ UNCHANGED <<factSets, manifests, metrics>>

-----------------------------------------------------------------------------
(* The frozen catalog *)

InScope(record) == record.origin.file \in ScopeFiles /\ ~record.origin.late
ScopedRecords == {record \in facts : InScope(record)}

MatchesFactSet(origin, factSet) ==
    factSet.type = origin.type /\ Contains(origin.rules, factSet.rule)

DerivedFactSet(origin) ==
    [code |-> <<"factset", origin.rules[1], origin.type>>, version |-> 1, type |-> origin.type,
     rule |-> origin.rules[1], identity |-> {}, governance |-> "derived"]

GovernedFactSet(factSet) ==
    [code |-> <<factSet.code>>, version |-> factSet.version, type |-> factSet.type,
     rule |-> factSet.rule, identity |-> factSet.identity, governance |-> "published"]

(* A record belongs to the published fact set it matches when there is exactly *)
(* one, and otherwise to the fact set derived from its closest provenance.     *)
FactIdentity(origin) ==
    LET matches == {f \in factSets : MatchesFactSet(origin, f)}
    IN IF Cardinality(matches) = 1 THEN GovernedFactSet(CHOOSE f \in matches : TRUE)
       ELSE DerivedFactSet(origin)

(* One entry is kept for a code, whichever group of records came last. *)
Entries == {FactIdentity(record.origin) : record \in ScopedRecords}
FactCatalog == {CHOOSE entry \in Entries : entry.code = code : code \in {e.code : e \in Entries}}

FieldCodes(code) ==
    PublishedFields \cap
    UNION {DOMAIN record.row :
             record \in {r \in ScopedRecords : FactIdentity(r.origin).code = code}}

(* describe_query_schema offers the fact sets that hold every asked field. *)
FactSetsWith(fields) == {fact \in FactCatalog : fields \subseteq FieldCodes(fact.code)}

-----------------------------------------------------------------------------
(* Queries over a fact set of the catalog *)

FactPredicates(fact) ==
    {r \in facts : InScope(r) /\ r.origin.type = fact.type /\ Contains(r.origin.rules, fact.rule)}

(* A filter joins the index row of its field and compares the typed value. *)
Passing(records, filters) ==
    {r \in records : \A f \in filters : Has(r, f.field) /\ r.row[f.field] = f.value}

Count(fact, filters) == Cardinality(Passing(FactPredicates(fact), filters))

Covers(records, grouped, unexpected) == grouped = records /\ unexpected = {}

(* group_count: rows for the asked values, or for all; the answer is refused  *)
(* when a record has no value or a value was found that was not asked for.    *)
GroupCount(fact, filters, field, asked) ==
    LET records == Passing(FactPredicates(fact), filters)
        grouped == {r \in records : Has(r, field)}
        values == {r.row[field] : r \in grouped}
        unexpected == IF asked = {} THEN {} ELSE values \ asked
    IN [accepted |-> Covers(records, grouped, unexpected),
        rows |-> [v \in IF asked = {} THEN values ELSE asked |->
                     Cardinality({r \in grouped : r.row[field] = v})]]

(* The rows question_records shows to SQL of the model's own. *)
QuestionRecords(fact) ==
    {r \in ScopedRecords : r.origin.type = fact.type /\ Contains(r.origin.rules, fact.rule)}

(* query_household by a person's name: the numbers of the households of that  *)
(* name, then everybody of those numbers, in every fact set that can tell.    *)
HouseholdNumbers(fact, name) ==
    LET called == Passing(FactPredicates(fact), {[field |-> "name", value |-> name]})
    IN {r.row["number"] : r \in {p \in called : Has(p, "number")}}
Household(name) ==
    UNION {UNION {Passing(FactPredicates(fact), {[field |-> "number", value |-> number]}) :
                     number \in HouseholdNumbers(fact, name)} :
              fact \in FactSetsWith({"name", "number"})}

-----------------------------------------------------------------------------
(* Contracts in use: the live definition of the frozen code and version *)

CompiledFactSets(fact) ==
    {f \in factSets : /\ fact.governance = "published"
                      /\ <<f.code>> = fact.code /\ f.version = fact.version /\ f.type = fact.type
                      /\ ManifestsOf(f) # {}
                      /\ f.identity \subseteq FieldCodes(fact.code)}

Matching(factSet) ==
    {r \in facts : /\ InScope(r) /\ r.origin.type = factSet.type
                  /\ Contains(r.origin.rules, factSet.rule)}

Identified(record, identity) == [field \in identity |-> record.row[field]]

(* A safe count counts identities, and only those without a missing part. *)
SafeCount(factSet, filters) ==
    Cardinality({Identified(r, factSet.identity) :
                    r \in {p \in Passing(Matching(factSet), filters) :
                              \A field \in factSet.identity : Has(p, field)}})

(* An official count reads the records that have a row of its field. *)
MetricCount(metric) ==
    LET records == UNION {{r \in Matching(f) : metric.field \in DOMAIN r.row} :
                             f \in FactSetOf(metric)}
    IN IF metric.identity = {} THEN Cardinality(records)
       ELSE Cardinality({Identified(r, metric.identity) :
                            r \in {p \in records : metric.identity \subseteq DOMAIN p.row}})

-----------------------------------------------------------------------------
QueryInit == factSets = {} /\ manifests = {} /\ metrics = {} /\ facts = {}

QueryNext ==
    \/ \E draft \in FactSetDrafts \ factSets : PublishFactSet(draft)
    \/ \E draft \in ManifestDrafts \ manifests : PublishManifest(draft)
    \/ \E draft \in MetricDrafts \ metrics : PublishMetric(draft)
    \/ \E origin \in Origins, row \in IndexRows : StoreRecord(origin, row)

QuerySpec == QueryInit /\ [][QueryNext]_queryVars

-----------------------------------------------------------------------------
(* Fact sets are told apart when no rule in use, published or derived from    *)
(* other records, is wider than a record's own provenance and one version of  *)
(* a code is in use.                                                          *)
RulesAreSpecific ==
    \A record \in ScopedRecords : \A f \in factSets \cup Entries :
        MatchesFactSet(record.origin, f) => f.rule = record.origin.rules[1]
OneVersionPerCode == \A e, f \in Entries : e.code = f.code => e = f
Orderly == RulesAreSpecific /\ OneVersionPerCode

(* Then every record of the frozen scope is selected by the queries of the     *)
(* one fact set it is listed under, and by no other: what the catalog derives  *)
(* from the records and what catalog_query.py and question_tools.py derive     *)
(* back from the catalog agree, so that sums over fact sets count no record    *)
(* twice (question_catalog.py, _fact_identity and _execution_provenance).      *)
FactSetsPartitionTheScope ==
    Orderly =>
        \A record \in ScopedRecords : \A fact \in FactCatalog :
            LET listed == FactIdentity(record.origin).code = fact.code
            IN listed <=> record \in FactPredicates(fact)

(* The sum of the values of a function. *)
SumOf(value) == MapThenSumSet(LAMBDA x : value[x], DOMAIN value)

(* Two ways to ask for one number give one number.  An accepted grouping adds  *)
(* up to the count of the fact set, each of its rows is the count filtered by  *)
(* that value, and SQL sees the same records (catalog_query.py).               *)
GroupsAddUp ==
    \A field \in {"name", "number"} : \A fact \in FactSetsWith({field}) :
        \A asked \in {{}, Names \ {Null}} :
            LET answer == GroupCount(fact, {}, field, asked)
            IN answer.accepted =>
                  /\ Count(fact, {}) = SumOf(answer.rows)
                  /\ \A v \in DOMAIN answer.rows :
                        answer.rows[v] = Count(fact, {[field |-> field, value |-> v]})
                  /\ Cardinality(QuestionRecords(fact)) = Count(fact, {})

(* An official count and the safe count of the same fact set agree whenever   *)
(* every record that has a row of the metric's field is fully identified.     *)
OfficialNumbersAgree ==
    \A metric \in metrics, fact \in FactCatalog :
      \A f \in CompiledFactSets(fact) \cap FactSetOf(metric) :
        (\A r \in Matching(f) : /\ metric.field \in DOMAIN r.row
                               /\ \A field \in f.identity : Has(r, field))
            => MetricCount(metric) = SafeCount(f, {})

(* A person whose household is known is among the members found by his name. *)
HouseholdsAreWhole ==
    Orderly => \A record \in ScopedRecords :
        Has(record, "name") /\ Has(record, "number") => record \in Household(record.row["name"])
=============================================================================
