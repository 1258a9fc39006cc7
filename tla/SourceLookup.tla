---------------------------- MODULE SourceLookup ----------------------------
(***************************************************************************)
(* The tools that read the original spreadsheet beside the typed data      *)
(* (describe_source_fields and lookup_source_records of                    *)
(* hermes/question_tools.py).  A text is a word over a letter, its capital *)
(* and a separator: what the property is about is how a filter's value is  *)
(* normalized, probed for in SQL and compared with the cells.              *)
(* sourceRecord is the record the tools are asked about.                   *)
(***************************************************************************)
EXTENDS Naturals, Sequences, SequencesExt, FiniteSets, FiniteSetsExt

CONSTANTS
    SourceHeaders,      \* header paths of columns
    TextLength,   \* bound: length of a text
    ProbeLength   \* a longer value is probed for by its last characters (6)

ASSUME ProbeBounds == {TextLength, ProbeLength} \subseteq Nat \ {0}

VARIABLE sourceRecord

Texts == SeqOf({"a", "A", "-"}, TextLength)

(* The columns of raw_data with the cell's text; the fields of the columns in *)
(* indexed are of type text, so that their texts are in the index as well.    *)
SourceRecords ==
    UNION {[columns : [1 .. n -> [header : SourceHeaders, text : Texts]],
            indexed : SUBSET (1 .. n)] : n \in 1 .. 2}

Blank == [columns |-> <<>>, indexed |-> {}]
Indexed(record) == {record.columns[i].text : i \in record.indexed}

(* Places in their order. *)
InOrder(places) ==
    [k \in 1 .. Cardinality(places) |->
        CHOOSE i \in places : Cardinality({j \in places : j <= i}) = k]

Fold(letter) == IF letter = "A" THEN "a" ELSE letter
NormalizedText(text) ==
    LET kept == InOrder({i \in DOMAIN text : text[i] # "-"})
    IN [k \in DOMAIN kept |-> Fold(text[kept[k]])]

Occurs(part, text) ==
    \E from \in 0 .. Len(text) - Len(part) : part = SubSeq(text, from + 1, from + Len(part))

(* terms are the headers one of the filter's terms occurs in. *)
SourceFilters ==
    [terms : SUBSET SourceHeaders \ {{}}, operator : {"eq", "contains"}, value : Texts \ {<<>>}]

(* The end of the value, except that a short one and one to be equal are whole. *)
Probe(filter) ==
    LET value == NormalizedText(filter.value)
    IN IF filter.operator = "eq" \/ Len(value) <= ProbeLength THEN value
       ELSE SubSeq(value, Len(value) - ProbeLength + 1, Len(value))

(* What SQL lets through: some indexed text contains the probe as it is. *)
Prefiltered(record, filter) ==
    \E text \in Indexed(record) : Occurs(Probe(filter), text)

(* The places of the cells whose headers a filter names. *)
FilteredCells(record, terms) ==
    InOrder({i \in DOMAIN record.columns :
                record.columns[i].header \in terms /\ record.columns[i].text # <<>>})

(* _record_matches_source_filters *)
MatchesSourceFilter(record, filter) ==
    LET cells == FilteredCells(record, filter.terms)
        values == [k \in DOMAIN cells |-> NormalizedText(record.columns[cells[k]].text)]
        combined == FlattenSeq(values)
        expected == NormalizedText(filter.value)
    IN IF filter.operator = "eq"
         THEN (\E i \in DOMAIN values : values[i] = expected) \/ combined = expected
         ELSE (\E i \in DOMAIN values : Occurs(expected, values[i])) \/ Occurs(expected, combined)

LooksUp(record, filter) == Prefiltered(record, filter) /\ MatchesSourceFilter(record, filter)

(* The answer shows the cells of the headers asked for, empty ones too. *)
ShownCells(record, terms) ==
    {i \in DOMAIN record.columns : record.columns[i].header \in terms}
AvailableHeaders(record) == {record.columns[i].header : i \in DOMAIN record.columns}

-----------------------------------------------------------------------------
SourceInit == sourceRecord = Blank
SourceNext == sourceRecord = Blank /\ sourceRecord' \in SourceRecords
SourceSpec == SourceInit /\ [][SourceNext]_sourceRecord

-----------------------------------------------------------------------------
(* A record is found by what one of its cells says, when that cell's text is  *)
(* kept in the index in normal form: probing for the end of a long value      *)
(* loses no such record (question_tools.py, _handle_lookup_source_records).   *)
PlainTextIsFound ==
    \A filter \in SourceFilters :
        (\E i \in sourceRecord.indexed :
            LET column == sourceRecord.columns[i]
                expected == NormalizedText(filter.value)
            IN /\ column.header \in filter.terms
               /\ column.text # <<>> /\ column.text = NormalizedText(column.text)
               /\ IF filter.operator = "eq" THEN column.text = expected
                  ELSE Occurs(expected, column.text))
        => LooksUp(sourceRecord, filter)

(* What is found by being equal is found by being contained, although the two *)
(* probe for different ends of the value; and unless the value is nothing but *)
(* separators, the answer can show the cells it was found by.                 *)
ContainedIsWider ==
    \A filter \in SourceFilters : LooksUp(sourceRecord, filter) =>
        /\ LooksUp(sourceRecord, [filter EXCEPT !.operator = "contains"])
        /\ NormalizedText(filter.value) # <<>> =>
              /\ ShownCells(sourceRecord, filter.terms) # {}
              /\ filter.terms \cap AvailableHeaders(sourceRecord) # {}

LookupIsComplete == PlainTextIsFound /\ ContainedIsWider
=============================================================================
