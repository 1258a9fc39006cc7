------------------------------ MODULE SheetRegions ------------------------------
(* The regions of a sheet and their header rows (parsing/candidates.py): the   *)
(* connected parts of the occupied cells, what lies within another's bounds    *)
(* counted to it, and of each region the rows that name its columns best.      *)
(* Every judgement of a sheet is one step.                                     *)
EXTENDS Integers, Sequences, SequencesExt, FiniteSets, FiniteSetsExt

CONSTANTS
    GridRows, GridColumns,  \* a grid, any cells of which are occupied
    TableWidths,            \* widths of tables with a title, groups and labels
    BodyRows                \* rows of a table below its labels

ASSUME SheetBounds == {GridRows, GridColumns, BodyRows} \cup TableWidths \subseteq Nat \ {0}

VARIABLE judgedSheet

(* A sheet has the values of its cells, by row and column; merged areas with   *)
(* the value of their anchor; and the style of each row's cells.               *)
AreaOf(rows, columns) == rows \X columns
Occupied(sheet) == DOMAIN sheet.values \cup UNION {merge.area : merge \in sheet.merges}

-----------------------------------------------------------------------------
(* Regions *)

BoundsOf(cells) ==
    LET rows == {c[1] : c \in cells}  columns == {c[2] : c \in cells}
    IN [top |-> Min(rows), left |-> Min(columns), bottom |-> Max(rows), right |-> Max(columns)]

Touch(a, b) == \/ a[1] = b[1] /\ a[2] - b[2] \in {-1, 1}
               \/ a[2] = b[2] /\ a[1] - b[1] \in {-1, 1}

Components(cells) ==
    FoldSet(LAMBDA cell, parts :
              LET near == {part \in parts : \E other \in part : Touch(cell, other)}
              IN (parts \ near) \cup {{cell} \cup UNION near},
            {}, cells)

Within(a, b) == /\ b.top <= a.top /\ a.bottom <= b.bottom
                /\ b.left <= a.left /\ a.right <= b.right
Size(b) == (b.bottom - b.top + 1) * (b.right - b.left + 1)

Before(p, q) == p.top < q.top \/ (p.top = q.top /\ p.left < q.left)

(* Mutant: the smallest are looked at first. *)
SmallestFirst(a, b) ==
    LET p == BoundsOf(a)  q == BoundsOf(b)
    IN Size(p) < Size(q) \/ (Size(p) = Size(q) /\ Before(p, q))

(* By area, the largest first, and then by the upper left corner. *)
LooksFirst(a, b) ==
    LET p == BoundsOf(a)  q == BoundsOf(b)
    IN Size(p) > Size(q) \/ (Size(p) = Size(q) /\ Before(p, q))

(* The components in the order they are looked at. *)
Looked(components) ==
    [k \in 1 .. Cardinality(components) |->
        CHOOSE c \in components : Cardinality({d \in components : LooksFirst(d, c)}) = k - 1]

(* Components inside the bounds of one that is looked at become part of it. *)
Consolidate(components) ==
    FoldLeft(LAMBDA s, component :
        IF component \in s.absorbed THEN s
        ELSE LET inside == {part \in components \ (s.absorbed \cup {component}) :
                              Within(BoundsOf(part), BoundsOf(component))}
             IN [regions |-> s.regions \cup {component \cup UNION inside},
                 absorbed |-> s.absorbed \cup inside],
        [regions |-> {}, absorbed |-> {}], Looked(components)).regions

RegionCandidates(sheet) == Consolidate(Components(Occupied(sheet)))

-----------------------------------------------------------------------------
(* Headers.  Shares are whole numbers of Unit, and confidences of Unit percent *)
(* of a percent, rounded down.                                                 *)

Unit == 5040
ShareOf(n, of) == IF of = 0 THEN 0 ELSE (n * Unit) \div of
Numerals == {"1", "2"}

(* The value of a cell, or of the merged area it is in; nothing. *)
ValueAt(sheet, cell) ==
    IF cell \in DOMAIN sheet.values THEN <<sheet.values[cell]>>
    ELSE LET merges == {merge \in sheet.merges : cell \in merge.area}
         IN IF merges = {} THEN <<>> ELSE <<(CHOOSE merge \in merges : TRUE).value>>

(* The labels over a column, from the first row of the header down; a label   *)
(* that repeats the one above it counts once.                                 *)
HeaderPath(sheet, rows, column) ==
    FoldLeft(LAMBDA path, row :
               LET value == ValueAt(sheet, <<row, column>>)
               IN IF value = <<>> \/ (path # <<>> /\ Last(path) = value[1]) THEN path
                  ELSE path \o value,
             <<>>, SetToSortSeq(rows, <))

PathsOf(sheet, bounds, rows) ==
    [column \in bounds.left .. bounds.right |-> HeaderPath(sheet, rows, column)]

Populated(paths) == {column \in DOMAIN paths : paths[column] # <<>>}
LeavesOf(paths) ==
    [column \in DOMAIN paths |-> IF paths[column] = <<>> THEN "" ELSE Last(paths[column])]

(* How often the most frequent label above the leaves occurs. *)
Dominance(paths) ==
    LET above == {<<column, i>> : column \in DOMAIN paths, i \in 1 .. 3}
        nonleaf == {p \in above : p[2] < Len(paths[p[1]])}
        label(p) == paths[p[1]][p[2]]
    IN IF nonleaf = {} THEN 0
       ELSE Max({Cardinality({q \in nonleaf : label(q) = label(p)}) : p \in nonleaf})

Ancestors(paths) ==
    MapThenSumSet(LAMBDA column : Len(paths[column]) - 1, Populated(paths))

(* The share of cells of a row that have the style of those below them. *)
StyleSimilarity(sheet, bounds, row, below) ==
    LET compared == {p \in AreaOf(below, bounds.left .. bounds.right) :
                        {<<row, p[2]>>, p} \subseteq DOMAIN sheet.values}
    IN [known |-> compared # {},
        share |-> ShareOf(Cardinality({p \in compared : sheet.styles[p[1]] = sheet.styles[row]}),
                        Cardinality(compared))]

(* What speaks for a header: its columns have labels, different ones, of       *)
(* letters, below various groups; the row below has numbers and another style. *)
Confidence(sheet, bounds, rows, paths) ==
    LET depth == Cardinality(rows)
        labelled == Cardinality(Populated(paths))
        leaves == {Last(paths[column]) : column \in Populated(paths)}
        coverage == ShareOf(labelled, Cardinality(DOMAIN paths))
        uniqueness == ShareOf(Cardinality(leaves), labelled)
        texts == ShareOf(Cardinality({column \in Populated(paths) :
                                      Last(paths[column]) \notin Numerals}), labelled)
        dominance == Min({Unit, ShareOf(Dominance(paths), labelled)})
        hierarchy == IF depth = 1 THEN 0 ELSE ShareOf(Ancestors(paths), labelled * (depth - 1))
        next == Max(rows) + 1
        values == {column \in DOMAIN paths : <<next, column>> \in DOMAIN sheet.values}
        numbers == ShareOf(Cardinality({column \in values :
                                        sheet.values[<<next, column>>] \in Numerals}),
                         Cardinality(values))
        body == next .. Min({bounds.bottom, next + 2})
        similarity == StyleSimilarity(sheet, bounds, Max(rows), body)
        contrast == IF similarity.known THEN Unit - similarity.share ELSE 0
        added == IF depth > 1 /\ similarity.known THEN similarity.share ELSE 0
    IN Max({5 * Unit, Min({98 * Unit,
         20 * Unit + 25 * coverage + 35 * uniqueness + 18 * texts
         + (18 * hierarchy * (Unit - dominance)) \div Unit + 14 * numbers + 16 * contrast
         - (35 * (Unit - texts) * (Unit - numbers)) \div Unit
         - 3 * (depth - 1) * Unit - 30 * added})})

(* Up to three rows, from one of the first eight, with a row of data below. *)
HeaderCandidates(sheet, bounds) ==
    LET heads == {head \in (bounds.top .. bounds.top + 7) \X (1 .. 3) :
                     head[1] + head[2] <= bounds.bottom}
        of(head) == LET rows == head[1] .. head[1] + head[2] - 1
                        paths == PathsOf(sheet, bounds, rows)
                    IN [start |-> head[1], depth |-> head[2], paths |-> paths,
                        confidence |-> Confidence(sheet, bounds, rows, paths)]
    IN {of(head) : head \in heads}

RanksBefore(c, d) ==
    \/ c.confidence > d.confidence
    \/ c.confidence = d.confidence
       /\ (c.start < d.start \/ (c.start = d.start /\ c.depth < d.depth))

(* About as confident, with the same leaves below various groups. *)
Richer(top, candidate) ==
    /\ candidate.confidence >= top.confidence - 5 * Unit
    /\ LeavesOf(candidate.paths) = LeavesOf(top.paths)
    /\ 10 * Dominance(candidate.paths) <= 6 * Cardinality(Populated(candidate.paths))

PathLength(candidate) ==
    MapThenSumSet(LAMBDA column : Len(candidate.paths[column]), DOMAIN candidate.paths)

(* The header of a region: of the best and those richer than it, the one with *)
(* the longest paths, then the most confident, then the one that ranks first. *)
SelectHeader(candidates) ==
    LET sure == {c \in candidates : c.confidence >= 70 * Unit}
        top == CHOOSE c \in sure : \A d \in sure \ {c} : RanksBefore(c, d)
        richer == {top} \cup {c \in sure : Richer(top, c)}
        better(c, d) == \/ PathLength(c) > PathLength(d)
                        \/ PathLength(c) = PathLength(d) /\ RanksBefore(c, d)
    IN IF sure = {} THEN {}
       ELSE {CHOOSE c \in richer : \A d \in richer \ {c} : better(c, d)}

-----------------------------------------------------------------------------
(* A table: a title or two groups merged over the labels, or neither; labels; *)
(* rows of numbers or texts, in the style of the head or in another.          *)
Tables ==
    [width : TableWidths, head : {"title", "groups", "none"}, numbers : BOOLEAN,
     kinds : {"all", "last", "first"}, styled : BOOLEAN]

LabelsOf(width) == SubSeq(<<"a", "b", "c", "d">>, 1, width)

SheetOf(table) ==
    LET first == IF table.head = "none" THEN 1 ELSE 2
        last == first + BodyRows
        half == table.width \div 2
        merges == CASE table.head = "title" ->
                         {[area |-> AreaOf({1}, 1 .. table.width), value |-> "t"]}
                    [] table.head = "groups" ->
                         {[area |-> AreaOf({1}, 1 .. half), value |-> "g"],
                          [area |-> AreaOf({1}, half + 1 .. table.width), value |-> "k"]}
                    [] OTHER -> {}
        counted(column) == CASE table.kinds = "all" -> TRUE
                             [] table.kinds = "last" -> column = table.width
                             [] OTHER -> column = 1
        body(row, column) == IF table.numbers /\ counted(column)
                               THEN IF row = last THEN "2" ELSE "1" ELSE "x"
        anchors == {<<1, Min({c[2] : c \in merge.area})>> : merge \in merges}
        cells == anchors \cup AreaOf(first .. last, 1 .. table.width)
        value(cell) ==
          IF cell[1] < first THEN (CHOOSE merge \in merges : cell \in merge.area).value
          ELSE IF cell[1] = first THEN LabelsOf(table.width)[cell[2]]
          ELSE body(cell[1], cell[2])
    IN [values |-> [cell \in cells |-> value(cell)], merges |-> merges,
        styles |-> [row \in 1 .. last |-> IF row <= first /\ table.styled THEN "head" ELSE "body"]]

JudgeShape ==
    \E cells \in SUBSET AreaOf(1 .. GridRows, 1 .. GridColumns) :
      judgedSheet' = [of |-> "shape", components |-> Components(cells),
                      regions |-> Consolidate(Components(cells))]

JudgeTable ==
    \E table \in Tables :
      LET sheet == SheetOf(table)  regions == RegionCandidates(sheet)
      IN /\ table.head # "groups" \/ table.width > 2
         /\ judgedSheet' =
              [of |-> "table", table |-> table, regions |-> regions,
               headers |-> UNION {SelectHeader(HeaderCandidates(sheet, BoundsOf(region))) :
                                    region \in regions}]

SheetInit == judgedSheet = [of |-> "nothing"]
SheetNext == judgedSheet.of = "nothing" /\ (JudgeShape \/ JudgeTable)
SheetSpec == SheetInit /\ [][SheetNext]_judgedSheet

-----------------------------------------------------------------------------
(* Every occupied cell is in one region, no region lies within another, and   *)
(* the order in which regions are looked at and numbered does not depend on   *)
(* the order in which the cells were collected (build_region_candidates).     *)
RegionsPartTheSheet ==
    LET corner(cells) == <<BoundsOf(cells).top, BoundsOf(cells).left>> IN
    judgedSheet.of = "shape" =>
      /\ UNION judgedSheet.regions = UNION judgedSheet.components
      /\ \A r, q \in judgedSheet.regions : r # q =>
           r \cap q = {} /\ ~Within(BoundsOf(r), BoundsOf(q)) /\ corner(r) # corner(q)
      /\ \A c, d \in judgedSheet.components : c # d => BoundsOf(c) # BoundsOf(d)

(* A table with distinct labels is one region, whose header ends with the     *)
(* row of labels: neither a title over it nor its data name a column, and     *)
(* groups over labels of another style than the data are kept                 *)
(* (build_header_candidates and select_header_candidates).                    *)
TablesAreNamedByTheirLabels ==
    judgedSheet.of = "table" =>
      /\ Cardinality(judgedSheet.regions) = 1 /\ Cardinality(judgedSheet.headers) = 1
      /\ \A header \in judgedSheet.headers :
           /\ LeavesOf(header.paths) = LabelsOf(judgedSheet.table.width)
           /\ judgedSheet.table.head = "groups" /\ judgedSheet.table.styled => header.depth = 2

(* What is found of a sheet is what it holds. *)
SheetsAreSound == RegionsPartTheSheet /\ TablesAreNamedByTheirLabels
=============================================================================
