-------------------------- MODULE RecognitionContract --------------------------
(***************************************************************************)
(* What hermes/recognition.py does with the request it builds and with the *)
(* answers it gets: which columns are asked, in which chunks, how a layout *)
(* and the field decisions of the model are normalised, and what their     *)
(* validation then accepts.  The language model may answer anything of the *)
(* shape of its contract; codes, rows and evidence are small sets.         *)
(*                                                                         *)
(* The definitions are functions of one workbook and one answer; judged    *)
(* holds what the last step computed.                                      *)
(***************************************************************************)
EXTENDS Integers, Sequences, FiniteSets, SequencesExt, FiniteSetsExt

CONSTANTS
  PerCall,      \* MAX_FIELDS_PER_HERMES_CALL
  MaxColumns,   \* bound: columns of a workbook that a request is built for
  Parts,        \* regions of that workbook
  Paths,        \* header paths
  FieldColumns, \* columns that a result decides
  Catalog,      \* codes of the published fields
  Codes,        \* codes that the model may name, those of the catalogue among them
  Dated,        \* the codes that end with a date, with the code without it
  MinRow,       \* first and last row of a region whose layout is decided
  MaxRow,
  Widths        \* columns and rows of the sheets that are previewed

NoCode == "no_code"

ASSUME ContractAssumption ==
  /\ PerCall \in Nat \ {0} /\ MaxColumns \in Nat /\ FieldColumns \in Nat
  /\ Parts \subseteq Nat
  /\ NoCode \notin Codes /\ Catalog \subseteq Codes
  /\ Dated \in [DOMAIN Dated -> Codes] /\ DOMAIN Dated \subseteq Codes
  /\ MinRow \in Nat \ {0} /\ MaxRow \in Nat /\ MinRow <= MaxRow
  /\ Widths \subseteq Nat \ {0}

VARIABLE judged

Nothing == [of |-> "nothing"]
ContractInit == judged = Nothing
Judge(what) == judged' = what

-----------------------------------------------------------------------------
(* Which columns are asked: build_diff_request.  A workbook is a sequence of *)
(* columns with their FieldMatch: it needs Hermes, has a field, or is ignored.*)

WorkbookColumn == [region: Parts, path: Paths, state: {"needs", "field", "ignored"}]

(* unmatched: the regions that are not exact, and the header paths that are   *)
(* new to one of them or, of a legacy match, to the workbook.                 *)
BuildRequest(columns, unmatched, fresh) ==
  LET needing == {i \in DOMAIN columns : columns[i].state = "needs"}
      target == unmatched \cup {columns[i].region : i \in needing}
      new == fresh \cup {columns[i].path : i \in needing}
      headers == {i \in DOMAIN columns : target = {} \/ columns[i].region \in target}
      asked == {i \in headers : columns[i].path \in new /\ columns[i].state # "field"}
  IN  [headers |-> headers, asked |-> asked,
       new |-> {columns[i].path : i \in asked},
       regions |-> {columns[i].region : i \in headers}]

(* apply_structure_decision: the regions that the layout retains. *)
ApplyStructureDecision(columns, request, accepted) ==
  IF accepted = {} THEN [request EXCEPT !.asked = {}, !.new = {}]
  ELSE LET headers == {i \in request.headers : columns[i].region \in accepted}
       IN  [headers |-> headers, asked |-> request.asked \cap headers,
            new |-> request.new \cap {columns[i].path : i \in headers},
            regions |-> request.regions \cap accepted]

(* Columns in groups of PerCall, in their order. *)
Groups(changed) ==
  LET group(i) == Cardinality({j \in changed : j < i}) \div PerCall
  IN  {{j \in changed : group(j) = group(i)} : i \in changed}

(* _chunk_recognition_request: a region without changed columns is asked for  *)
(* its first one, so that the chunk has a header.                             *)
ChunkRecognitionRequest(columns, request) ==
  IF request.asked = {} /\ request.new = {} THEN {}
  ELSE LET of(r) == {i \in request.headers : columns[i].region = r}
           changed(r) ==
             {i \in of(r) : IF request.asked # {} THEN i \in request.asked
                            ELSE columns[i].path \in request.new}
           groups(r) == IF changed(r) # {} THEN Groups(changed(r))
                        ELSE {{i \in of(r) : \A j \in of(r) : i <= j}}
       IN  UNION {groups(r) : r \in request.regions}

(* The columns that are judged, each with its chunk: _merge_chunk_results     *)
(* keeps a decision when its path is a new header.                            *)
MergedColumns(columns, request) ==
  {j \in ChunkRecognitionRequest(columns, request) \X DOMAIN columns :
     j[2] \in j[1] /\ columns[j[2]].path \in request.new}

ChooseColumns ==
  \E size \in 1..MaxColumns : \E columns \in [1..size -> WorkbookColumn],
     unmatched, accepted \in SUBSET Parts, fresh \in SUBSET Paths :
    LET applied == ApplyStructureDecision(
                     columns, BuildRequest(columns, unmatched, fresh), accepted)
    IN  /\ \A i \in 1..size - 1 : columns[i].region <= columns[i + 1].region
        /\ Judge([of |-> "columns", columns |-> columns, request |-> applied,
                  accepted |-> accepted,
                  judges |-> MergedColumns(columns, applied)])

-----------------------------------------------------------------------------
(* Field decisions, by column. *)

Reuses == {"REUSE_FIELD", "ROLE_VARIANT"}   \* ADD_ALIAS is handled as a reuse

(* A decision; sure: a confidence of REVIEW_CONFIDENCE_THRESHOLD or more. *)
Decision ==
  [action: Reuses \cup {"PROPOSE_NEW_FIELD"}, code: Codes \cup {NoCode}, sure: BOOLEAN]
    \cup [action: {"AMBIGUOUS", "IGNORE_COLUMN"}, code: {NoCode}, sure: BOOLEAN]

(* A header: the published fields that are compatible candidates of it, and  *)
(* whether its role is a date.                                               *)
Header == [candidates: SUBSET Catalog, dated: BOOLEAN]

Ambiguous == [action |-> "AMBIGUOUS", code |-> NoCode, sure |-> FALSE]

As(action, d) == [action |-> action, code |-> d.code, sure |-> FALSE]

(* Mutant: a published field is reused that no candidate of the column names. *)
CatalogReferenceLax(catalog, header, d) ==
  IF d.action \in Reuses /\ d.code \notin catalog
    THEN IF d.code = NoCode THEN Ambiguous ELSE As("PROPOSE_NEW_FIELD", d)
  ELSE IF d.action = "PROPOSE_NEW_FIELD" /\ d.code \in catalog
    THEN As("REUSE_FIELD", d)
  ELSE d

(* The first loop: what is reused must be a candidate, what is proposed new. *)
CatalogReference(catalog, header, d) ==
  CASE d.action \in Reuses /\ d.code \notin catalog ->
         IF d.code = NoCode THEN Ambiguous ELSE As("PROPOSE_NEW_FIELD", d)
    [] d.action \in Reuses /\ d.code \in catalog \ header.candidates -> Ambiguous
    [] d.action = "PROPOSE_NEW_FIELD" /\ d.code \in catalog ->
         IF d.code \in header.candidates THEN As("REUSE_FIELD", d) ELSE Ambiguous
    [] OTHER -> d

(* The second loop: a code is proposed once, by the first column that does. *)
ProposedOnce(ds) ==
  [n \in DOMAIN ds |->
     IF ds[n].action # "PROPOSE_NEW_FIELD" THEN ds[n]
     ELSE IF ds[n].code = NoCode THEN Ambiguous
     ELSE IF \E k \in DOMAIN ds : /\ k < n /\ ds[k].action = "PROPOSE_NEW_FIELD"
                                 /\ ds[k].code = ds[n].code
       THEN As("ROLE_VARIANT", ds[n])
     ELSE ds[n]]

(* The last loop: the date of a column is its role and leaves its code. *)
DateScoped(header, d) ==
  d.action = "PROPOSE_NEW_FIELD" /\ header.dated /\ d.code \in DOMAIN Dated
StableDateRoles(headers, ds) ==
  LET scoped(n) == DateScoped(headers[n], ds[n])
      again(n) == \E k \in DOMAIN ds :
                    k < n /\ scoped(k) /\ Dated[ds[k].code] = Dated[ds[n].code]
  IN  [n \in DOMAIN ds |->
         IF ~scoped(n) THEN ds[n]
         ELSE [ds[n] EXCEPT !.code = Dated[@],
                            !.action = IF again(n) THEN "ROLE_VARIANT" ELSE @]]

NormalizeFieldCatalogReferences(catalog, headers, ds) ==
  StableDateRoles(headers, ProposedOnce(
    [n \in DOMAIN ds |-> CatalogReference(catalog, headers[n], ds[n])]))

Proposed(ds) == {n \in DOMAIN ds : ds[n].action = "PROPOSE_NEW_FIELD"}

(* validate_result, as far as it is about the fields. *)
ValidFields(catalog, headers, ds) ==
  /\ \A n, k \in Proposed(ds) : n # k => ds[n].code # ds[k].code
  /\ \A n \in Proposed(ds) : ds[n].code \notin catalog
  /\ \A n \in DOMAIN ds :
       /\ ds[n].action = "REUSE_FIELD" => ds[n].code \in catalog \cap headers[n].candidates
       /\ ds[n].action = "ROLE_VARIANT" =>
            \/ ds[n].code \in catalog \cap headers[n].candidates
            \/ ds[n].code \notin catalog /\ \E k \in Proposed(ds) : ds[k].code = ds[n].code

(* The catalogue of a chunk is what its candidates name. *)
ChunkCatalog(headers) == UNION {headers[n].candidates : n \in DOMAIN headers}

(* A code proposed by an earlier chunk is a variant in a later one. *)
MergeChunkResults(ds) ==
  [n \in DOMAIN ds |->
     IF n \in Proposed(ds) /\ \E k \in Proposed(ds) : k < n /\ ds[k].code = ds[n].code
       THEN [ds[n] EXCEPT !.action = "ROLE_VARIANT"] ELSE ds[n]]

(* governance_reasons: an unsure decision, or a conflict. *)
GovernanceReasons(ds) == \E n \in DOMAIN ds : ~ds[n].sure \/ ds[n].action = "AMBIGUOUS"

(* publish_unambiguous_new_fields: the codes that become published fields. *)
PublishUnambiguousNewFields(ds) ==
  IF GovernanceReasons(ds) THEN {} ELSE {ds[n].code : n \in Proposed(ds)}

(* The columns between two cuts are a chunk; one that is not valid is asked   *)
(* once more and then fails the job, so that only valid ones are merged.       *)
DecideFields ==
  \E headers \in [1..FieldColumns -> Header], said \in [1..FieldColumns -> Decision],
     cuts \in SUBSET (1..FieldColumns - 1) :
    LET chunk(n) == {k \in 1..FieldColumns : \A c \in cuts : k <= c <=> n <= c}
        heads(n) == [k \in chunk(n) |-> headers[k]]
        result(n) == NormalizeFieldCatalogReferences(
                       ChunkCatalog(heads(n)), heads(n), [k \in chunk(n) |-> said[k]])
    IN  /\ \A n \in 1..FieldColumns : ValidFields(ChunkCatalog(heads(n)), heads(n), result(n))
        /\ Judge([of |-> "fields", headers |-> headers, said |-> said,
                  result |-> NormalizeFieldCatalogReferences(Catalog, headers,
                    MergeChunkResults([n \in 1..FieldColumns |-> result(n)[n]]))])

-----------------------------------------------------------------------------
(* The layout of a sheet.  Region 1 has the rows from MinRow to MaxRow, its    *)
(* header ends in row last; region 2 is decided plainly, left out, or not a    *)
(* region at all.                                                              *)

Rows == 1..MaxRow + 1
Clamp(row) == Max({MinRow, Min({row, MaxRow})})

Layout == [region: {1}, start: Rows, end: Rows, noise: BOOLEAN,
           materialize: BOOLEAN, sure: BOOLEAN]
Plain(r) == [region |-> r, start |-> MaxRow, end |-> MaxRow, noise |-> FALSE,
             materialize |-> TRUE, sure |-> TRUE]
Dropped(l, start, end) ==
  [l EXCEPT !.start = start, !.end = end, !.noise = TRUE, !.materialize = FALSE,
            !.sure = FALSE]

Decides(layouts) == {layouts[n].region : n \in DOMAIN layouts}
OncePerRegion(layouts) == IsInjective([n \in DOMAIN layouts |-> layouts[n].region])

(* complete_omitted_structure_regions *)
CompleteOmitted(layouts) ==
  IF ~OncePerRegion(layouts) \/ ~(Decides(layouts) \subseteq {1, 2}) THEN layouts
  ELSE layouts \o SetToSeq({Dropped(Plain(r), MinRow, MaxRow) : r \in {1, 2} \ Decides(layouts)})

(* normalize_structure_data_ranges, with what it changed. *)
DataRange(l) ==
  IF l.end < l.start \/ Clamp(l.start) > Clamp(l.end)
    THEN Dropped(l, MinRow, MaxRow)
    ELSE [l EXCEPT !.start = Clamp(@), !.end = Clamp(@)]

(* normalize_ignored_structure_ranges *)
Ignored(l) ==
  IF l.materialize /\ ~l.noise THEN l
  ELSE [l EXCEPT !.materialize = FALSE, !.noise = TRUE, !.start = Clamp(@),
                 !.end = Max({Clamp(l.start), Clamp(@)})]

(* normalize_structure_header_boundaries *)
HeaderBoundary(last, l) ==
  IF ~l.materialize \/ l.start > last THEN l
  ELSE IF last < l.end THEN [l EXCEPT !.start = last + 1]
  ELSE Dropped(l, l.end, l.end)

NormalizeLayout(last, layouts) ==
  LET complete == CompleteOmitted(layouts)
  IN  [n \in DOMAIN complete |-> HeaderBoundary(last, Ignored(DataRange(complete[n])))]

(* normalize_structure_row_roles: overlapping segments are all left out. *)
RowRoles(segments) ==
  LET start(i) == Max({segments[i].start, MinRow})
      end(i) == Min({segments[i].end, MaxRow})
      kept == {i \in DOMAIN segments : start(i) <= end(i)}
  IN  IF \E i, j \in kept : i # j /\ start(i) <= start(j) /\ start(j) <= end(i)
        THEN {} ELSE {[start |-> start(i), end |-> end(i)] : i \in kept}

(* normalize_structure_merge_references: a merge is named by its id or by a   *)
(* range that is that of one merge, and propagates to known columns.          *)
MergeReference(m) ==
  IF m.names \notin {"id", "range_of_one"} \/ (m.propagates /\ ~m.known)
    THEN {} ELSE {[m EXCEPT !.names = "id"]}

(* validate_structure_decision and the merges of validate_result *)
ValidStructure(last, layouts, roles, merges) ==
  /\ OncePerRegion(layouts) /\ Decides(layouts) = {1, 2}
  /\ \A n \in DOMAIN layouts :
       LET l == layouts[n]
       IN  /\ MinRow <= l.start /\ l.start <= l.end /\ l.end <= MaxRow
           /\ l.materialize => l.start > last
           /\ l.materialize = ~l.noise
  /\ \A s \in roles : MinRow <= s.start /\ s.start <= s.end /\ s.end <= MaxRow
  /\ \A s, t \in roles : s # t => s.end < t.start \/ t.end < s.start
  /\ \A m \in merges : m.names = "id"

DecideStructure ==
  \E last \in MinRow..MaxRow, first \in Layout,
     others \in {<<>>} \cup {<<Plain(r)>> : r \in 1..3} :
    LET said == <<first>> \o others
        result == NormalizeLayout(last, said)
    IN  Judge([of |-> "layout", last |-> last, said |-> said, result |-> result,
               normalized |-> \/ CompleteOmitted(said) # said
                              \/ \E n \in DOMAIN said : DataRange(said[n]) # said[n],
               valid |-> ValidStructure(last, result, {}, {})])

DecideRoles ==
  \E one, two \in [start: Rows, end: Rows], more \in BOOLEAN,
     m \in [names: {"id", "range_of_one", "range_of_two", "nothing"},
            propagates: BOOLEAN, known: BOOLEAN] :
    LET segments == IF more THEN <<one, two>> ELSE <<one>>
        plain == <<Plain(1), Plain(2)>>
    IN  /\ ~more => two = one
        /\ more => m = [names |-> "id", propagates |-> FALSE, known |-> TRUE]
        /\ Judge([of |-> "roles",
                  valid |-> ValidStructure(0, plain, RowRoles(segments), MergeReference(m))])

-----------------------------------------------------------------------------
(* One sheet: _recognize_sheet_structure.  Each call answers with a valid      *)
(* decision, with an invalid one, or not at all; asks counts the ranges that   *)
(* a decision requests, fits says that they are within the limits.             *)

Call == {"valid", "invalid", "none"}

(* A review that is not valid leaves the decision from before it. *)
Review(conservative, review) == IF review = "valid" THEN review ELSE conservative

RecognizeSheet ==
  \E fast, fallback, repair, review \in Call, asks \in 0..4, fits, doubts \in BOOLEAN :
    LET first == IF fast = "none" THEN fallback ELSE fast
        decision == IF first = "invalid" THEN repair ELSE first
        fails == \/ decision # "valid"
                 \/ asks > 3
                 \/ asks > 0 /\ ~fits
        result == IF asks = 0 THEN decision ELSE Review(decision, review)
    IN  Judge([of |-> "sheet", fails |-> fails, result |-> result,
               uncertain |-> doubts \/ (asks > 0 /\ review # "valid")])

-----------------------------------------------------------------------------
(* What a sheet shows the model: _initial_sheet_evidence and the limits of     *)
(* _range_evidence, which raises when a range exceeds them.                    *)

INITIAL_PREVIEW_ROWS == 10
INITIAL_PREVIEW_COLUMNS == 40
MAX_INITIAL_PREVIEW_CELLS == 800
MAX_RANGE_ROWS == 30
MAX_RANGE_COLUMNS == 40

Area(first, last, width) == [first |-> first, last |-> last, width |-> width]

(* Rows of the body, when there are rows below the preview. *)
BodySample(height, shown) ==
  IF height > shown THEN {Max({shown + 1, (1 + height) \div 2}), height} ELSE {}

InitialSheetEvidence(width, height) ==
  LET wide == Min({width, INITIAL_PREVIEW_COLUMNS})
      rows == Min({INITIAL_PREVIEW_ROWS, Max({1, MAX_INITIAL_PREVIEW_CELLS \div wide})})
      shown == Min({height, rows})
  IN  {Area(1, shown, wide)} \cup {Area(r, r, wide) : r \in BodySample(height, shown)}

WithinLimits(a, height) ==
  /\ 1 <= a.first /\ a.first <= a.last /\ a.last <= height
  /\ a.last - a.first + 1 <= MAX_RANGE_ROWS /\ a.width <= MAX_RANGE_COLUMNS

PreviewSheet ==
  \E width, height \in Widths :
    Judge([of |-> "preview", height |-> height,
           areas |-> InitialSheetEvidence(width, height)])

ContractNext ==
  /\ judged = Nothing
  /\ \/ ChooseColumns \/ DecideFields \/ DecideStructure \/ DecideRoles
     \/ RecognizeSheet \/ PreviewSheet
ContractSpec == ContractInit /\ [][ContractNext]_judged

-----------------------------------------------------------------------------
(* From the request to the merged result every column that is asked is       *)
(* judged exactly once, however the columns fall into chunks; the only       *)
(* others have a field already and the header path of a column that needed   *)
(* one (see the README for what becomes of them).                            *)
AskedOnce ==
  judged.of = "columns" =>
    LET asked == judged.request.asked
    IN  /\ \A i \in asked : Cardinality({j \in judged.judges : j[2] = i}) = 1
        /\ \A j \in judged.judges : j[2] \notin asked =>
             /\ judged.columns[j[2]].state = "field"
             /\ \E i \in DOMAIN judged.columns \ {j[2]} :
                  /\ judged.columns[i].state # "field"
                  /\ judged.columns[i].path = judged.columns[j[2]].path
        /\ \A i \in judged.request.headers : judged.columns[i].state = "needs" =>
             i \in asked \/ judged.accepted = {}

(* Normalisation and validation are written apart and agree: chunks that     *)
(* were valid merge into a result that is valid against the whole catalogue, *)
(* so that a retry, which merges the same checkpoints, is not stuck (if no    *)
(* code ends with two dates: one is taken off each time it is normalised).   *)
MergedIsValid ==
  judged.of = "fields" => ValidFields(Catalog, judged.headers, judged.result)

(* What the program changed in a decision is never published without a       *)
(* governor: a result that needs none has only decisions as the model made   *)
(* them, but for the date in a code.                                         *)
RewrittenIsGoverned ==
  judged.of = "fields" =>
    /\ ~GovernanceReasons(judged.result) =>
         \A n \in DOMAIN judged.said :
           LET said == judged.said[n]  kept == judged.result[n]
           IN  \/ kept = said
               \/ /\ kept.action = said.action /\ judged.headers[n].dated
                  /\ said.code \in DOMAIN Dated /\ kept.code = Dated[said.code]
    /\ PublishUnambiguousNewFields(judged.result) \cap Catalog = {}

(* A layout that decides every region once is valid after normalisation, and *)
(* rows of a region the model retained are lost only to the header or with   *)
(* a governor told; what is kept of a sheet is valid; a preview is legal.    *)
LayoutIsAccounted ==
  /\ judged.of = "layout" /\ OncePerRegion(judged.said) /\ Decides(judged.said) \subseteq {1, 2} =>
       /\ judged.valid
       /\ LET said == judged.said[1]  kept == judged.result[1]
          IN  said.materialize /\ ~said.noise =>
                \/ judged.normalized \/ ~kept.sure
                \/ /\ kept.materialize /\ kept.end = said.end
                   /\ kept.start = Max({said.start, judged.last + 1})
  /\ judged.of = "roles" => judged.valid
  /\ judged.of = "sheet" => judged.fails \/ judged.result = "valid"
  /\ judged.of = "preview" =>
       /\ \A a \in judged.areas : WithinLimits(a, judged.height)
       /\ \A a, b \in judged.areas : a # b => a.last < b.first \/ b.last < a.first

(* Every column is asked once; every row of an answered layout is kept, ruled *)
(* out by the model or left to a governor; and what a recognition stores is   *)
(* valid, and published by no one but its model.                              *)
AnswersAreSound == AskedOnce /\ LayoutIsAccounted /\ MergedIsValid /\ RewrittenIsGoverned
=============================================================================
