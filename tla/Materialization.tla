---------------------------- MODULE Materialization ----------------------------
(***************************************************************************)
(* materialize_plan of materialization.py: the rows of the regions of an   *)
(* approved plan become records with two projections of their values (the  *)
(* semantic data of the record and its index rows, with a lineage row      *)
(* each), quality issues and the counts and status of the execution.  It   *)
(* is one transaction: what raises leaves everything as it was.            *)
(*                                                                         *)
(* A cell is abstracted to how the code reads it.  The rows come one after *)
(* the other, each with any cells.                                         *)
(***************************************************************************)
EXTENDS Integers, Sequences, FiniteSets, SequencesExt, FiniteSetsExt

CONSTANTS
  Plans,   \* plans: [mode, mappings, identity, scope], see PlanShape
  MaxRows  \* bound: rows of the data range

(* mappings: the field, role, data type and column of each; scope: the       *)
(* columns between the approved first and last one.  A mapping without a     *)
(* role has one of its own, $value in the code.                              *)
Columns == 1..3
Roleless == "none"
MappingShape == [column: Columns, field: STRING, role: STRING,
                 type: {"text", "integer"}, required: BOOLEAN]
PlanShape(p) ==
  /\ p.mode \in {"form", "headerless_table", "table"}
  /\ p.mappings \in Seq(MappingShape) /\ p.identity \in Seq(STRING)
  /\ p.scope \subseteq Columns

ASSUME MaterializationAssumption ==
  (\A p \in Plans : PlanShape(p)) /\ MaxRows \in Nat \ {0}

VARIABLES
  execution, \* status of the execution: none, running, partial, completed, raised
  using,     \* the plan, or NoPlanYet
  rowsRead,  \* rows of the region that were read
  records,   \* the records, in order
  seen,      \* seen_identities
  older,     \* are there records of the superseded plan?
  advised,   \* are there HERMES_* issues of the plan?
  decimal    \* the last decimal normalised, and what was stored

materializationVars ==
  <<execution, using, rowsRead, records, seen, older, advised, decimal>>

NoPlanYet == [mode |-> "none"]
NoDecimal == [source |-> 0, accepted |-> FALSE, stored |-> 0]

-----------------------------------------------------------------------------
(* Cells: absent or blank; a word; an integer; #N/A and its like; a printed *)
(* prompt of a form that nobody filled in.                                    *)
Cells == {"blank", "word", "1", "error", "prompt"}

Present(row, m) == row[m.column] # "blank"

(* _normalized_value for the types of the mappings. *)
Normalizes(type, cell) == type = "text" \/ cell = "1"

(* NUMERIC(38, 10) with one digit before the point and one after: decimals    *)
(* are counted in hundredths, what is stored in tenths.                       *)
IntegerDigits == 1
Magnitude(n) == IF n < 0 THEN -n ELSE n
RoundHalfUp(hundredths) ==
  (IF hundredths < 0 THEN -1 ELSE 1) * ((Magnitude(hundredths) + 5) \div 10)
PowersOfTen == <<10, 100, 1000, 10000>>
Digits(tenths) == Cardinality({k \in 1..4 : Magnitude(tenths) >= PowersOfTen[k]})

TooLong(n) == Digits(RoundHalfUp(n)) > IntegerDigits

-----------------------------------------------------------------------------
(* What a row of the region is: nothing, or the input of a record, with the   *)
(* places of its mappings in the plan.                                        *)

Skipped == [skip |-> TRUE]
Input(plan, row, mapped) ==
  [skip |-> FALSE,
   selected |-> {k \in DOMAIN plan.mappings : Present(row, plan.mappings[k])},
   missing |-> {m.field : m \in {n \in Range(plan.mappings) : n.required /\ ~Present(row, n)}},
   complete |-> mapped]

Filled(row) == {c \in Columns : row[c] # "blank"}
RequiredPresent(plan, row) ==
  \A m \in Range(plan.mappings) : m.required => Present(row, m)

(* One record for the whole region, or for every row with a mapped cell. *)
FormInput(plan, row) ==
  IF Filled(row) \cap plan.scope = {} THEN Skipped
  ELSE Input(plan, row, RequiredPresent(plan, row))

HeaderlessInput(plan, row) ==
  IF ~\E m \in Range(plan.mappings) : Present(row, m) THEN Skipped
  ELSE Input(plan, row, RequiredPresent(plan, row))

(* Rows whose sequence number is no number, which have nothing else, or which *)
(* are only printed prompts are not records.                                  *)
TableInput(plan, row) ==
  LET numbered == {k \in DOMAIN plan.mappings :
                     /\ plan.mappings[k].field = "base.sequence_number"
                     /\ Present(row, plan.mappings[k])}
      number == row[plan.mappings[Min(numbered)].column]
  IN  IF \/ Filled(row) = {}
         \/ numbered # {} /\ ~Normalizes("integer", number)
         \/ /\ numbered # {}
            /\ Filled(row) \subseteq {plan.mappings[k].column : k \in numbered}
         \/ \A c \in Filled(row) : row[c] = "prompt"
        THEN Skipped
      ELSE Input(plan, row,
             Filled(row) \cap plan.scope \subseteq {m.column : m \in Range(plan.mappings)})

RecordInput(plan, row) ==
  CASE plan.mode = "form" -> FormInput(plan, row)
    [] plan.mode = "headerless_table" -> HeaderlessInput(plan, row)
    [] OTHER -> TableInput(plan, row)

-----------------------------------------------------------------------------
(* The record of an input. *)

(* values_by_field: mappings without a role, the last one of a field.         *)
ValuesByField(plan, input, field) ==
  {k \in input.selected : plan.mappings[k].role = Roleless /\ plan.mappings[k].field = field}
ValueByField(plan, row, input, field) ==
  LET own == ValuesByField(plan, input, field)
  IN  IF own = {} THEN "blank" ELSE row[plan.mappings[Max(own)].column]
IdentityOf(plan, row, input) ==
  [i \in DOMAIN plan.identity |-> ValueByField(plan, row, input, plan.identity[i])]

(* Mutant: an identity is compared with the last record only. *)
KnowsLast(identity) ==
  records # <<>> /\ identity # <<>> /\ Last(records).identity = identity

Knows(identity) == identity \in seen

Readable(row, m) == Normalizes(m.type, row[m.column]) \/ row[m.column] = "error"
ValuesOf(plan, row, input) == {k \in input.selected : Readable(row, plan.mappings[k])}
Key(m) == <<m.field, m.role>>

(* The second value of a field in one role raises. *)
DuplicateRole(plan, values) ==
  \E i, j \in values : i # j /\ Key(plan.mappings[i]) = Key(plan.mappings[j])

NewRecord(plan, row, input) ==
  LET identity == IdentityOf(plan, row, input)
      incomplete == "blank" \in Range(identity)
      values == ValuesOf(plan, row, input)
      unreadable == input.selected \ values
      issues == Cardinality(input.missing) + Cardinality(unreadable)
                  + (IF incomplete \/ Knows(identity) THEN 1 ELSE 0)
  IN  [identity |-> identity, issues |-> issues,
       complete |-> input.complete /\ unreadable = {},
       counted |-> ~input.complete,
       passed |-> input.missing = {} /\ unreadable = {} /\ ~incomplete /\ ~Knows(identity),
       semantic |-> {Key(plan.mappings[k]) : k \in values},
       index |-> Cardinality(values)]

SeenAfter(plan, record) ==
  IF plan.identity = <<>> \/ "blank" \in Range(record.identity) THEN seen
  ELSE seen \cup {record.identity}

-----------------------------------------------------------------------------
MaterializationInit ==
  /\ execution = "none" /\ using = NoPlanYet /\ rowsRead = 0 /\ records = <<>>
  /\ seen = {} /\ older = FALSE /\ advised = FALSE /\ decimal = NoDecimal

(* A plan is approved; the plan it supersedes may have records. *)
ApprovePlan ==
  /\ execution = "none" /\ using = NoPlanYet /\ decimal = NoDecimal
  /\ \E p \in Plans : using' = p
  /\ older' \in BOOLEAN /\ advised' \in BOOLEAN
  /\ UNCHANGED <<execution, rowsRead, records, seen, decimal>>

StartPlan ==
  /\ execution = "none" /\ using # NoPlanYet
  /\ execution' = "running"
  /\ UNCHANGED <<using, rowsRead, records, seen, older, advised, decimal>>

DataRows == IF using.mode = "form" THEN 1 ELSE MaxRows
ReadingRow(row) ==
  /\ execution = "running" /\ rowsRead < DataRows
  /\ rowsRead' = rowsRead + 1
  /\ UNCHANGED <<execution, using, older, advised, decimal>>

SkipRow ==
  \E row \in [Columns -> Cells] :
    /\ ReadingRow(row)
    /\ RecordInput(using, row).skip
    /\ UNCHANGED <<records, seen>>

AddRecord ==
  \E row \in [Columns -> Cells] :
    LET input == RecordInput(using, row)
        record == NewRecord(using, row, input)
    IN  /\ ReadingRow(row)
        /\ ~input.skip /\ ~DuplicateRole(using, ValuesOf(using, row, input))
        /\ records' = Append(records, record)
        /\ seen' = SeenAfter(using, record)

(* What raises is rolled back: the older records stay. *)
RaiseOnRow ==
  /\ execution = "running" /\ rowsRead < DataRows
  /\ \E row \in [Columns -> Cells] :
       LET input == RecordInput(using, row)
       IN  ~input.skip /\ DuplicateRole(using, ValuesOf(using, row, input))
  /\ execution' = "raised" /\ records' = <<>> /\ seen' = {}
  /\ UNCHANGED <<using, rowsRead, older, advised, decimal>>

(* The commit: the records of the superseded plan are gone with it; a plan    *)
(* without records keeps no advice of Hermes about them.                      *)
FinishPlan ==
  /\ execution = "running"
  /\ rowsRead = DataRows
  /\ execution' = IF \E i \in DOMAIN records : records[i].issues > 0 \/ records[i].counted
                    THEN "partial" ELSE "completed"
  /\ advised' = (advised /\ records # <<>>) /\ older' = FALSE
  /\ UNCHANGED <<using, rowsRead, records, seen, decimal>>

Hundredths == -1100..1100  \* bound: the decimals that are read
NormalizedDecimal(n) ==
  [source |-> n, accepted |-> ~TooLong(n), stored |-> RoundHalfUp(n)]
NormalizeDecimal ==
  /\ using = NoPlanYet /\ decimal = NoDecimal
  /\ \E n \in Hundredths : decimal' = NormalizedDecimal(n)
  /\ UNCHANGED <<execution, using, rowsRead, records, seen, older, advised>>

MaterializationNext ==
  \/ ApprovePlan \/ StartPlan \/ SkipRow \/ AddRecord \/ RaiseOnRow \/ FinishPlan
  \/ NormalizeDecimal
MaterializationSpec == MaterializationInit /\ [][MaterializationNext]_materializationVars

-----------------------------------------------------------------------------
(* The two projections of a record hold the same values: as many index rows  *)
(* as fields and roles in its semantic data; a record passed when it has no  *)
(* issue, no two that passed have the same identity, and an execution is     *)
(* completed only when all of them passed and are complete.                  *)
ProjectionsAgree ==
  /\ \A i \in DOMAIN records :
       LET r == records[i]
       IN  /\ Cardinality(r.semantic) = r.index
           /\ r.passed = (r.issues = 0)
           /\ \A j \in DOMAIN records :
                using.identity # <<>> /\ r.passed /\ records[j].passed
                  /\ r.identity = records[j].identity => i = j
  /\ execution = "completed" =>
       ~older /\ \A i \in DOMAIN records : records[i].passed /\ records[i].complete

(* A decimal that is accepted fits the column after rounding, and rounding   *)
(* it again in the database changes nothing.                                 *)
DecimalFits ==
  decimal.accepted =>
    /\ Magnitude(decimal.stored) < PowersOfTen[IntegerDigits + 1]
    /\ RoundHalfUp(10 * decimal.stored) = decimal.stored

(* What is stored of a row, as a record or as a number, is what was read.    *)
StoredValuesAreFaithful == ProjectionsAgree /\ DecimalFits
=============================================================================
