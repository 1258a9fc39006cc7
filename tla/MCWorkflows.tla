---------------------------- MODULE MCWorkflows ----------------------------
(* The workflows that several requests or jobs take part in, one instance    *)
(* beside the other.  They share no state: each behaviour of the model is a  *)
(* behaviour of one part, and the other parts rest in their initial state.   *)
EXTENDS CatalogLifecycle, TemplateMatching, RecognitionPasses, QuestionRuns, AccessControl,
        ModelCalls, ModelSettings, CatalogRecovery

CONSTANTS i1, i2, c1, c2

MCRegions == <<1, 1, 2>>
MCRegionVersions == <<"A", "B">>
MCCompositions == {<<"A", "B">>, <<"B", "A", "A">>, <<"A">>}
MCRoutes == {<< <<"A">>, <<"A", "B">> >>, << <<"A">> >>}
MCStructures == {[parts |-> 1, uncertain |-> TRUE], [parts |-> 2, uncertain |-> FALSE]}
MCHome == [p \in {"town", "v1"} |-> "t1"]

(* Two files of one workbook, and two requests, play the same part. *)
MCSymmetry == Permutations({i1, i2}) \cup Permutations({c1, c2})

VARIABLE part  \* the workflow that this behaviour is about

Init ==
  /\ part \in {"catalog", "matching", "recognition", "questions", "access",
             "calls", "settings", "recovery"}
  /\ CatalogInit /\ MatchingInit /\ RecognitionInit
  /\ QuestionInit /\ AccessInit /\ CallInit
  /\ SettingsInit /\ RecoveryInit

Next ==
  \/ /\ part = "catalog" /\ CatalogNext
     /\ UNCHANGED <<part, matchingVars, passVars, questionVars, accessVars,
                    callVars, settingsVars, recoveryVars>>
  \/ /\ part = "matching" /\ MatchingNext
     /\ UNCHANGED <<part, catalogVars, passVars, questionVars, accessVars,
                    callVars, settingsVars, recoveryVars>>
  \/ /\ part = "recognition" /\ RecognitionNext
     /\ UNCHANGED <<part, catalogVars, matchingVars, questionVars, accessVars,
                    callVars, settingsVars, recoveryVars>>
  \/ /\ part = "questions" /\ QuestionNext
     /\ UNCHANGED <<part, catalogVars, matchingVars, passVars, accessVars,
                    callVars, settingsVars, recoveryVars>>
  \/ /\ part = "access" /\ AccessNext
     /\ UNCHANGED <<part, catalogVars, matchingVars, passVars, questionVars,
                    callVars, settingsVars, recoveryVars>>
  \/ /\ part = "calls" /\ ModelCallNext
     /\ UNCHANGED <<part, catalogVars, matchingVars, passVars, questionVars,
                    accessVars, settingsVars, recoveryVars>>
  \/ /\ part = "settings" /\ SettingsNext
     /\ UNCHANGED <<part, catalogVars, matchingVars, passVars, questionVars,
                    accessVars, callVars, recoveryVars>>
  \/ /\ part = "recovery" /\ RecoveryNext
     /\ UNCHANGED <<part, catalogVars, matchingVars, passVars, questionVars,
                    accessVars, callVars, settingsVars>>

allVars == <<part, catalogVars, matchingVars, passVars, questionVars,
             accessVars, callVars, settingsVars, recoveryVars>>
WorkflowSpec == Init /\ [][Next]_allVars

(* Every part keeps its variables in the shapes of its rows and requests. *)
WorkflowsTypeOK ==
  CASE part = "catalog" -> CatalogTypeOK
    [] part = "matching" -> MatchingTypeOK
    [] part = "recognition" -> RecognitionTypeOK
    [] part = "questions" -> QuestionTypeOK
    [] part = "access" -> AccessTypeOK
    [] part = "calls" -> CallTypeOK
    [] part = "settings" -> SettingsTypeOK
    [] part = "recovery" -> RecoveryTypeOK
=============================================================================
