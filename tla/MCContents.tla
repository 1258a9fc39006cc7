---------------------------- MODULE MCContents -----------------------------
(* What becomes of the contents of a workbook: its regions and headers, the  *)
(* judgement of its layout and columns, what governors decide and teach of   *)
(* them, the rows and mappings of a plan, the records of an execution, and   *)
(* the answers of queries.  Each behaviour is a behaviour of one part alone. *)
EXTENDS RecognitionContract, ProposalGovernance, ImportPlanContents, Materialization,
        QueryAnswers, SheetRegions

CONSTANTS name1, name2

(* The two names of a field, by which it is recognised, play the same part.  *)
MCSymmetry == Permutations({name1, name2})

(* Sheets narrower and wider than the previews (10, 20, 40, 80 and 800). *)
MCWidths == {1, 2, 9, 10, 11, 12, 19, 20, 21, 39, 40, 41, 80, 81, 800, 801}

(* Codes as the model names them for a period: known or new with a date. *)
MCDated == [code \in {"new1", "new2", "known1"} |-> IF code = "known1" THEN "known" ELSE "new"]

Mapped(column, field, role, type, required) ==
  [column |-> column, field |-> field, role |-> role, type |-> type, required |-> required]

(* A table with a sequence number, a table with two columns of one field, a  *)
(* table without headers and without identity, and a form.                   *)
MCPlans == {
  [mode |-> "table", identity |-> <<"name">>, scope |-> 1..3,
   mappings |-> <<Mapped(1, "base.sequence_number", Roleless, "integer", FALSE),
                  Mapped(2, "name", Roleless, "text", TRUE)>>],
  [mode |-> "table", identity |-> <<"name">>, scope |-> 1..2,
   mappings |-> <<Mapped(1, "name", Roleless, "text", FALSE),
                  Mapped(2, "count", Roleless, "integer", FALSE),
                  Mapped(3, "count", Roleless, "integer", FALSE)>>],
  [mode |-> "headerless_table", identity |-> <<>>, scope |-> 1..3,
   mappings |-> <<Mapped(1, "count", Roleless, "integer", TRUE),
                  Mapped(2, "count", "second", "integer", FALSE)>>],
  [mode |-> "form", identity |-> <<"name">>, scope |-> 1..3,
   mappings |-> <<Mapped(1, "name", Roleless, "text", TRUE),
                  Mapped(3, "count", Roleless, "integer", FALSE)>>]}

OfRegion(template, version) == <<"region_template", template, version>>
OfPlan(plan) == <<"approved_plan", plan, 0>>
OfDocument(template) == <<"document_template", template, 1>>

(* Persons and houses of two files of the scope, one of them stored after    *)
(* the question was asked, and one of a file outside of it.                  *)
MCOrigins ==
  LET origin(type, rules, file, late) ==
        [type |-> type, rules |-> rules, file |-> file, late |-> late]
      region == OfRegion("r", 1)
  IN  {origin("person", <<region, OfDocument("d"), OfPlan("p1")>>, "f1", FALSE),
       origin("person", <<region, OfPlan("p2")>>, "f2", FALSE),
       origin("person", <<OfRegion("r", 2), OfPlan("p2")>>, "f2", FALSE),
       origin("house", <<region, OfDocument("d"), OfPlan("p2")>>, "f2", FALSE),
       origin("house", <<OfDocument("d"), OfPlan("p3")>>, "f2", FALSE),
       origin("person", <<region, OfPlan("p4")>>, "f2", TRUE),
       origin("person", <<region, OfPlan("p5")>>, "f3", FALSE)}

(* The last two may not be published: no identity, an unknown field. *)
MCFactSets ==
  LET factSet(code, version, type, rule, identity) ==
        [code |-> code, version |-> version, type |-> type, rule |-> rule,
         identity |-> identity, dimensions |-> {"number"}, measures |-> {"name"},
         catalog |-> "c1"]
  IN  {factSet("people", 1, "person", OfRegion("r", 1), {"name"}),
       factSet("people", 2, "person", OfRegion("r", 2), {"name", "number"}),
       factSet("houses", 1, "house", OfDocument("d"), {"name"}),
       factSet("plan", 1, "person", OfPlan("p2"), {"name"}),
       factSet("none", 1, "person", OfRegion("r", 2), {}),
       factSet("other", 1, "person", OfRegion("r", 2), {"other"})}

(* Persons may be counted by number, though not added up; the manifest of the *)
(* second version is of another catalog, the last of two identity fields.     *)
MCManifests ==
  LET manifest(version, catalog) ==
        [factSet |-> <<"people", version>>, catalog |-> catalog, dimensions |-> {"number"},
         measures |-> {"name", "number"}, additive |-> {"number"}, grouped |-> {"name"},
         aggregations |-> {"sum", "min", "max", "count"}]
  IN  {manifest(1, "c1"), manifest(2, "c2"), manifest(2, "c1")}

MCMetrics ==
  {[factSet |-> <<"people", 1>>, field |-> "name", type |-> "person", identity |-> i] :
     i \in {{"name"}, {}}}

VARIABLE part  \* the part that this behaviour is about

Init ==
  /\ part \in {"contract", "decisions", "plan", "records", "answers", "cells", "sheets"}
  /\ ContractInit /\ GovernanceInit /\ PlanInit /\ MaterializationInit
  /\ QueryInit /\ SourceInit /\ SheetInit

Next ==
  \/ /\ part = "contract" /\ ContractNext
     /\ UNCHANGED <<part, governanceVars, judgedPlan, materializationVars,
                    queryVars, sourceRecord, judgedSheet>>
  \/ /\ part = "decisions" /\ GovernanceNext
     /\ UNCHANGED <<part, judged, judgedPlan, materializationVars,
                    queryVars, sourceRecord, judgedSheet>>
  \/ /\ part = "plan" /\ PlanNext
     /\ UNCHANGED <<part, judged, governanceVars, materializationVars,
                    queryVars, sourceRecord, judgedSheet>>
  \/ /\ part = "records" /\ MaterializationNext
     /\ UNCHANGED <<part, judged, governanceVars, judgedPlan,
                    queryVars, sourceRecord, judgedSheet>>
  \/ /\ part = "answers" /\ QueryNext
     /\ UNCHANGED <<part, judged, governanceVars, judgedPlan,
                    materializationVars, sourceRecord, judgedSheet>>
  \/ /\ part = "cells" /\ SourceNext
     /\ UNCHANGED <<part, judged, governanceVars, judgedPlan,
                    materializationVars, queryVars, judgedSheet>>
  \/ /\ part = "sheets" /\ SheetNext
     /\ UNCHANGED <<part, judged, governanceVars, judgedPlan,
                    materializationVars, queryVars, sourceRecord>>
=============================================================================
