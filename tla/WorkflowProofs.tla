--------------------------- MODULE WorkflowProofs ---------------------------
(***************************************************************************)
(* The workflows beside one another: every behaviour of their composition  *)
(* is a behaviour of each part, so that what is proved of the parts, for    *)
(* every value of their constants, holds of what the run checks.           *)
(***************************************************************************)
EXTENDS MCWorkflows, CatalogProofs, QuestionProofs, HermesProofs

LEMMA ColumnsAreColumns ==
  ASSUME MatchColumn
  PROVE  column'.seen \in Column /\ column'.values.hermes \in BOOLEAN
<1>1. PICK c : /\ c \in [named: {TRUE}, ignoredInRegion: {FALSE}, corpus: {FALSE},
                         ignoreRule: {FALSE}, observed: BOOLEAN, holder: {"none"},
                         exact: {FALSE}, claims: [{"id", "path", "offset"} -> {0}],
                         ordinal: {FALSE}, evidence: [Fields -> Evidence]]
                       \cup [named: BOOLEAN, ignoredInRegion: BOOLEAN, corpus: BOOLEAN,
                             ignoreRule: BOOLEAN, observed: {TRUE}, holder: {"region", "legacy"},
                             exact: BOOLEAN, claims: [{"id", "path", "offset"} -> 0..2],
                             ordinal: BOOLEAN,
                             evidence: [Fields -> {[label |-> "none", type |-> FALSE,
                                                    context |-> FALSE, role |-> "unsaid"]}]]
               /\ column' = [of |-> "one", seen |-> c, values |-> FieldMatchValues(c)]
  BY DEF MatchColumn
<1>2. c \in Column
  <2>. DEFINE silence == [label |-> "none", type |-> FALSE, context |-> FALSE, role |-> "unsaid"]
  <2>1. silence \in Evidence
    BY DEF Evidence
  <2>2. \A f : f \in [Fields -> {silence}] => f \in [Fields -> Evidence]
    <3>. HIDE DEF silence
    <3>. QED
      BY <2>1
  <2>3. \A f : f \in [{"id", "path", "offset"} -> {0}] => f \in [{"id", "path", "offset"} -> 0..2]
    OBVIOUS
  <2>. DEFINE none == [{"id", "path", "offset"} -> {0}]
              some == [{"id", "path", "offset"} -> 0..2]
              silent == [Fields -> {silence}]
              told == [Fields -> Evidence]
  <2>4. c \in [named: {TRUE}, ignoredInRegion: {FALSE}, corpus: {FALSE},
               ignoreRule: {FALSE}, observed: BOOLEAN, holder: {"none"},
               exact: {FALSE}, claims: none, ordinal: {FALSE}, evidence: told]
        \/ c \in [named: BOOLEAN, ignoredInRegion: BOOLEAN, corpus: BOOLEAN,
                  ignoreRule: BOOLEAN, observed: {TRUE}, holder: {"region", "legacy"},
                  exact: BOOLEAN, claims: some, ordinal: BOOLEAN, evidence: silent]
    BY <1>1, Zenon
  <2>5. (\A f \in none : f \in some) /\ (\A f \in silent : f \in told)
    BY <2>2, <2>3
  <2>6. Column = [named: BOOLEAN, ignoredInRegion: BOOLEAN, corpus: BOOLEAN,
                  ignoreRule: BOOLEAN, observed: BOOLEAN,
                  holder: {"region", "legacy", "none"}, exact: BOOLEAN,
                  claims: some, ordinal: BOOLEAN, evidence: told]
    BY Zenon DEF Column
  <2>. HIDE DEF none, some, silent, told
  <2>. QED
    BY <2>4, <2>5, <2>6
<1>3. FieldMatchValues(c).hermes \in BOOLEAN
  <2>1. /\ \A by : Decided(by).hermes \in BOOLEAN
        /\ \A f : Reused(f).hermes \in BOOLEAN
        /\ Undecided.hermes \in BOOLEAN
    BY DEF Decided, Reused, Undecided
  <2>. HIDE DEF Decided, Reused, Undecided
  <2>2. c.named \in BOOLEAN /\ c.ignoredInRegion \in BOOLEAN
    BY <1>2 DEF Column
  <2>. QED
    BY <2>1, <2>2 DEF FieldMatchValues
<1>. QED
  BY <1>1, <1>2, <1>3

(* The last column, the rows of regions and sheets and the status of the item *)
(* keep their shapes.                                                         *)
THEOREM MatchingTypeCorrect == MatchingSpec => []MatchingTypeOK
<1>0. /\ Len(Regions) \in Nat /\ DOMAIN Regions = 1..Len(Regions)
      /\ Sheets \subseteq Nat
  <2>1. Regions \in Seq(Nat \ {0})
    BY MatchingAssumption
  <2>. QED
    BY <2>1 DEF Sheets, Range
<1>1. MatchingInit => MatchingTypeOK
  BY <1>0 DEF MatchingInit, MatchingTypeOK, NoRows
<1>2. MatchingTypeOK /\ [MatchingNext]_matchingVars => MatchingTypeOK'
  <2>. SUFFICES ASSUME MatchingTypeOK, [MatchingNext]_matchingVars PROVE MatchingTypeOK'
    OBVIOUS
  <2>1. CASE MatchColumn
    <3>1. /\ UNCHANGED <<regionRow, sheetRow, matching>>
      BY <2>1 DEF MatchColumn
    <3>. QED
      BY <2>1, <3>1, ColumnsAreColumns DEF MatchingTypeOK
  <2>2. CASE StartMatching
    BY <2>2 DEF StartMatching, MatchingTypeOK
  <2>3. CASE MatchProfile
    <3>1. /\ DOMAIN regionRow' = DOMAIN Regions /\ DOMAIN sheetRow' = Sheets
          /\ matching' = "matched" /\ UNCHANGED column
      BY <2>3 DEF MatchProfile, RegionMatches, SheetRows
    <3>2. \E n \in 0..Len(Regions) : DOMAIN regionRow' = 1..n
      <4>1. Len(Regions) \in 0..Len(Regions) /\ DOMAIN regionRow' = 1..Len(Regions)
        BY <1>0, <3>1
      <4>. QED
        BY <4>1
    <3>. QED
      BY <3>1, <3>2 DEF MatchingTypeOK
  <2>4. CASE MatchFails
    <3>1. matching' = "failed" /\ UNCHANGED column
      BY <2>4 DEF MatchFails
    <3>2. \E n \in 0..Len(Regions) : DOMAIN regionRow' = 1..n
      <4>1. \/ UNCHANGED regionRow
            \/ \E rows \in RegionMatches, n \in 0..Len(Regions) :
                 regionRow' = [r \in 1..n |-> rows[r]]
            \/ \E rows \in RegionMatches : regionRow' = rows
        BY <2>4 DEF MatchFails
      <4>. QED
        BY <1>0, <4>1 DEF RegionMatches, MatchingTypeOK
    <3>3. /\ DOMAIN sheetRow' \subseteq Sheets
          /\ \A s \in DOMAIN sheetRow', t \in Sheets : t < s => t \in DOMAIN sheetRow'
      <4>1. \/ UNCHANGED sheetRow
            \/ \E n \in {0} \cup Sheets : DOMAIN sheetRow' = {t \in Sheets : t <= n}
            \/ DOMAIN sheetRow' = Sheets
        BY <2>4 DEF MatchFails, SheetRows
      <4>2. CASE UNCHANGED sheetRow
        BY <4>2 DEF MatchingTypeOK
      <4>3. CASE \E n \in {0} \cup Sheets : DOMAIN sheetRow' = {t \in Sheets : t <= n}
        <5>1. PICK n \in {0} \cup Sheets : DOMAIN sheetRow' = {t \in Sheets : t <= n}
          BY <4>3
        <5>2. n \in Nat
          BY <1>0
        <5>3. \A s, t \in Sheets : s <= n /\ t < s => t <= n
          BY <1>0, <5>2
        <5>. QED
          BY <5>1, <5>3
      <4>4. CASE DOMAIN sheetRow' = Sheets
        BY <4>4
      <4>. QED
        BY <4>1, <4>2, <4>3, <4>4
    <3>. QED
      BY <3>1, <3>2, <3>3 DEF MatchingTypeOK
  <2>5. CASE UNCHANGED matchingVars
    BY <2>5 DEF MatchingTypeOK, matchingVars
  <2>. QED
    BY <2>1, <2>2, <2>3, <2>4, <2>5 DEF MatchingNext
<1>. QED
  BY <1>1, <1>2, PTL DEF MatchingSpec

(* A step of the composition is a step of one part; the others rest. *)
LEMMA PartsStep ==
  ASSUME [Next]_allVars
  PROVE  /\ [CatalogNext]_catalogVars
         /\ [MatchingNext]_matchingVars
         /\ [RecognitionNext]_passVars
         /\ [QuestionNext]_questionVars
         /\ [AccessNext]_accessVars
         /\ [ModelCallNext]_callVars
         /\ [SettingsNext]_settingsVars
         /\ [RecoveryNext]_recoveryVars
<1>1. CASE part = "catalog" /\ Next
  <2>1. /\ CatalogNext
        /\ UNCHANGED <<matchingVars, passVars, questionVars, accessVars,
                       callVars, settingsVars, recoveryVars>>
    BY <1>1, Zenon DEF Next
  <2>. QED
    BY <2>1
<1>2. CASE part = "matching" /\ Next
  <2>1. /\ MatchingNext
        /\ UNCHANGED <<catalogVars, passVars, questionVars, accessVars,
                       callVars, settingsVars, recoveryVars>>
    BY <1>2, Zenon DEF Next
  <2>. QED
    BY <2>1
<1>3. CASE part = "recognition" /\ Next
  <2>1. /\ RecognitionNext
        /\ UNCHANGED <<catalogVars, matchingVars, questionVars, accessVars,
                       callVars, settingsVars, recoveryVars>>
    BY <1>3, Zenon DEF Next
  <2>. QED
    BY <2>1
<1>5. CASE part = "questions" /\ Next
  <2>1. /\ QuestionNext
        /\ UNCHANGED <<catalogVars, matchingVars, passVars, accessVars,
                       callVars, settingsVars, recoveryVars>>
    BY <1>5, Zenon DEF Next
  <2>. QED
    BY <2>1
<1>6. CASE part = "access" /\ Next
  <2>1. /\ AccessNext
        /\ UNCHANGED <<catalogVars, matchingVars, passVars, questionVars,
                       callVars, settingsVars, recoveryVars>>
    BY <1>6, Zenon DEF Next
  <2>. QED
    BY <2>1
<1>7. CASE part = "calls" /\ Next
  <2>1. /\ ModelCallNext
        /\ UNCHANGED <<catalogVars, matchingVars, passVars, questionVars,
                       accessVars, settingsVars, recoveryVars>>
    BY <1>7, Zenon DEF Next
  <2>. QED
    BY <2>1
<1>8. CASE part = "settings" /\ Next
  <2>1. /\ SettingsNext
        /\ UNCHANGED <<catalogVars, matchingVars, passVars, questionVars,
                       accessVars, callVars, recoveryVars>>
    BY <1>8, Zenon DEF Next
  <2>. QED
    BY <2>1
<1>9. CASE part = "recovery" /\ Next
  <2>1. /\ RecoveryNext
        /\ UNCHANGED <<catalogVars, matchingVars, passVars, questionVars,
                       accessVars, callVars, settingsVars>>
    BY <1>9, Zenon DEF Next
  <2>. QED
    BY <2>1
<1>10. CASE UNCHANGED allVars
  BY <1>10 DEF allVars
<1>11. Next => part \in {"catalog", "matching", "recognition", "questions",
                        "access", "calls", "settings", "recovery"}
  BY DEF Next
<1>. QED
  BY <1>1, <1>2, <1>3, <1>5, <1>6, <1>7, <1>8, <1>9, <1>10, <1>11

(* The composition implements each of its parts. *)
THEOREM WorkflowsRunTheirParts ==
  WorkflowSpec =>
    /\ CatalogSpec
    /\ MatchingSpec
    /\ RecognitionSpec
    /\ QuestionSpec
    /\ AccessSpec
    /\ ModelCallSpec
    /\ SettingsSpec
    /\ RecoverySpec
<1>1. Init =>
        /\ CatalogInit
        /\ MatchingInit
        /\ RecognitionInit
        /\ QuestionInit
        /\ AccessInit
        /\ CallInit
        /\ SettingsInit
        /\ RecoveryInit
  BY DEF Init
<1>2. [Next]_allVars =>
        /\ [CatalogNext]_catalogVars
        /\ [MatchingNext]_matchingVars
        /\ [RecognitionNext]_passVars
        /\ [QuestionNext]_questionVars
        /\ [AccessNext]_accessVars
        /\ [ModelCallNext]_callVars
        /\ [SettingsNext]_settingsVars
        /\ [RecoveryNext]_recoveryVars
  BY PartsStep
<1>. QED
  BY <1>1, <1>2, PTL
     DEF WorkflowSpec, CatalogSpec, MatchingSpec, RecognitionSpec,
         QuestionSpec, AccessSpec, ModelCallSpec, SettingsSpec, RecoverySpec

(* Every part keeps the shapes of its rows and requests, whichever part the  *)
(* behaviour is about.                                                       *)
THEOREM WorkflowsTypeCorrect == WorkflowSpec => []WorkflowsTypeOK
<1>. DEFINE Within == part \in {"catalog", "matching", "recognition",
                                "questions", "access", "calls", "settings", "recovery"}
<1>1. WorkflowSpec => []Within
  <2>1. Init => Within
    BY DEF Init
  <2>2. Within /\ [Next]_allVars => Within'
    BY DEF Next, allVars
  <2>. HIDE DEF Within
  <2>. QED
    BY <2>1, <2>2, PTL DEF WorkflowSpec
<1>2. /\ Within
      /\ CatalogTypeOK
      /\ MatchingTypeOK
      /\ RecognitionTypeOK
      /\ QuestionTypeOK
      /\ AccessTypeOK
      /\ CallTypeOK
      /\ SettingsTypeOK
      /\ RecoveryTypeOK
      => WorkflowsTypeOK
  BY DEF WorkflowsTypeOK
<1>. HIDE DEF Within
<1>. QED
  BY <1>1, <1>2, WorkflowsRunTheirParts, PTL,
     CatalogTypeCorrect, MatchingTypeCorrect, RecognitionTypeCorrect,
     QuestionsTypeCorrect, AccessTypeCorrect, CallTypeCorrect, SettingsTypeCorrect,
     RecoveryTypeCorrect
=============================================================================
