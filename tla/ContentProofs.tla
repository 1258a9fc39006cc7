----------------------------- MODULE ContentProofs -----------------------------
(***************************************************************************)
(* Proofs about what is computed from a workbook: an import plan reuses    *)
(* what was approved and can be materialized, what is stored of a row is   *)
(* what was read, a match means what it says, an answer of the model       *)
(* judges what was asked, and the regions of a sheet part its cells.       *)
(***************************************************************************)
EXTENDS RecognitionContract, ImportPlanContents, Materialization, TemplateMatching,
        SheetRegions, FiniteSetTheorems, SequenceTheorems, WellFoundedInduction, TLAPS

-----------------------------------------------------------------------------
(* Induction, as facts about sets: a set of numbers with the first one and    *)
(* the next of each holds all of them.                                        *)

LEMMA NatLess == \A m, n \in Nat : m < n => <<m, n>> \in OpToRel(<, Nat)
  BY DEF OpToRel

LEMMA CountingUp ==
  ASSUME NEW N \in Nat, NEW P, 0 \in P,
         \A n \in 1..N : n - 1 \in P => n \in P
  PROVE  \A n \in 0..N : n \in P
<1>. DEFINE Bad == {n \in 0..N : n \notin P}
<1>1. Bad \subseteq Nat
  OBVIOUS
<1>2. SUFFICES ASSUME Bad # {} PROVE FALSE
  OBVIOUS
<1>3. IsWellFoundedOn(OpToRel(<, Nat), Nat)
  BY NatLessThanWellFounded
<1>. HIDE DEF Bad
<1>4. PICK first \in Bad : \A n \in Bad : ~ (<<n, first>> \in OpToRel(<, Nat))
  BY <1>1, <1>2, <1>3, WFMin
<1>6. \A n \in Bad : ~(n < first)
  BY <1>1, <1>4, NatLess
<1>7. first \in 0..N /\ first \notin P
  BY DEF Bad
<1>8. first # 0
  BY <1>7
<1>9. first \in 1..N /\ first - 1 \in 0..N /\ first - 1 < first
  BY <1>7, <1>8
<1>10. first - 1 \in P
  BY <1>6, <1>9 DEF Bad
<1>. QED
  BY <1>7, <1>9, <1>10

LEMMA MinIs ==
  ASSUME NEW S, S \subseteq Nat, S # {}
  PROVE  Min(S) \in S /\ \A x \in S : Min(S) <= x
<1>1. IsWellFoundedOn(OpToRel(<, Nat), Nat)
  BY NatLessThanWellFounded
<1>2. PICK least \in S : \A x \in S : ~ (<<x, least>> \in OpToRel(<, Nat))
  BY <1>1, WFMin
<1>4. \A x \in S : ~(x < least)
  BY <1>2, NatLess
<1>5. \E y \in S : \A x \in S : y =< x
  BY <1>4
<1>. QED
  BY <1>5 DEF Min

LEMMA MaxIs ==
  ASSUME NEW S, S \subseteq Nat, S # {}, NEW bound \in Nat, \A x \in S : x <= bound
  PROVE  Max(S) \in S /\ \A x \in S : x <= Max(S)
<1>. DEFINE over == {n \in Nat : \A x \in S : x <= n}
<1>1. over \subseteq Nat /\ over # {}
  OBVIOUS
<1>2. PICK least \in over : \A n \in over : least <= n
  <2>. HIDE DEF over
  <2>. QED
    BY <1>1, MinIs
<1>3. least \in S
  <2>. SUFFICES ASSUME least \notin S PROVE FALSE
    OBVIOUS
  <2>1. PICK some \in S : TRUE
    OBVIOUS
  <2>2. \A x \in S : x <= least - 1
    BY <1>2
  <2>3. least - 1 \in over
    BY <2>1, <2>2, <1>2
  <2>. QED
    BY <1>2, <2>3
<1>4. \E x \in S : \A y \in S : x >= y
  BY <1>2, <1>3
<1>. QED
  BY <1>4 DEF Max

(* What is computed from 0 up to N, a step at a time.                         *)
Computes(h, N, S, first, next) ==
  h \in [0..N -> S] /\ h[0] = first /\ \A n \in 1..N : h[n] = next[n][h[n - 1]]

LEMMA StepByStep ==
  ASSUME NEW N \in Nat, NEW S, NEW first \in S, NEW next \in [1..N -> [S -> S]]
  PROVE  \E h : Computes(h, N, S, first, next)
<1>. DEFINE Reaches(n) ==
       \E h \in [0..n -> S] : h[0] = first /\ \A k \in 1..n : h[k] = next[k][h[k - 1]]
            P == {n \in 0..N : Reaches(n)}
<1>1. Reaches(0)
  <2>1. [k \in 0..0 |-> first] \in [0..0 -> S] /\ [k \in 0..0 |-> first][0] = first
    OBVIOUS
  <2>2. 1..0 = {}
    OBVIOUS
  <2>. QED
    BY <2>1, <2>2
<1>2. ASSUME NEW n \in 1..N, Reaches(n - 1) PROVE Reaches(n)
  <2>1. PICK h \in [0..n - 1 -> S] :
          h[0] = first /\ \A k \in 1..n - 1 : h[k] = next[k][h[k - 1]]
    BY <1>2
  <2>. DEFINE g == [k \in 0..n |-> IF k = n THEN next[n][h[n - 1]] ELSE h[k]]
  <2>2. n - 1 \in 0..n - 1 /\ h[n - 1] \in S
    OBVIOUS
  <2>3. next[n][h[n - 1]] \in S
    BY <2>2
  <2>4. g \in [0..n -> S]
    BY <2>3
  <2>5. g[0] = first
    BY <2>1
  <2>6. \A k \in 1..n : g[k] = next[k][g[k - 1]]
    <3>. TAKE k \in 1..n
    <3>1. g[k - 1] = h[k - 1]
      OBVIOUS
    <3>2. CASE k = n
      BY <3>1, <3>2
    <3>3. CASE k # n
      BY <2>1, <3>1, <3>3
    <3>. QED
      BY <3>2, <3>3
  <2>. HIDE DEF g
  <2>. QED
    BY <2>4, <2>5, <2>6
<1>3. \A n \in 0..N : n \in P
  <2>1. 0 \in P
    BY <1>1
  <2>2. \A n \in 1..N : n - 1 \in P => n \in P
    <3>. TAKE n \in 1..N
    <3>1. n \in 0..N
      OBVIOUS
    <3>2. Reaches(n - 1) => Reaches(n)
      BY <1>2
    <3>. HIDE DEF Reaches
    <3>. QED
      BY <3>1, <3>2
  <2>. HIDE DEF P
  <2>. QED
    BY <2>1, <2>2, CountingUp
<1>4. N \in P
  BY <1>3
<1>. QED
  BY <1>4 DEF Computes

-----------------------------------------------------------------------------
(* What was approved is read from the same cells again.                       *)

LEMMA RegionFields ==
  ASSUME NEW region \in Region
  PROVE  /\ region.min \in Int /\ region.max \in Int /\ region.header \in Int
         /\ region.left \in Int /\ region.right \in Int /\ region.min <= region.max
         /\ region.left <= region.right
  BY DEF Region

(* Rows counted from a start and back again.                                  *)
LEMMA ThereAndBack ==
  ASSUME NEW start \in Int, NEW rows, rows \subseteq Int
  PROVE  {start + offset : offset \in {row - start : row \in rows}} = rows
<1>1. \A row \in rows : start + (row - start) = row
  OBVIOUS
<1>. QED
  BY <1>1

(* The projection of a snapshot on the region it was taken of.                *)
LEMMA SnapshotProjected ==
  ASSUME NEW source \in Region, NEW start \in Int, NEW end \in Int, NEW left \in Int,
         NEW right \in Int, NEW rows, rows \subseteq Int,
         NEW approved, approved = Canonical([start |-> start, end |-> end, left |-> left,
                                             right |-> right, excluded |-> rows]),
         ~BuildLayoutProjectionSnapshot(source, approved).error
  PROVE  Canonical(ProjectLayoutPlan(BuildLayoutProjectionSnapshot(source, approved), source))
           = approved
<1>. DEFINE kept == rows \cap start..end
            snapshot == BuildLayoutProjectionSnapshot(source, approved)
<1>1. approved = [start |-> start, end |-> end, left |-> left, right |-> right,
                  excluded |-> kept]
  BY DEF Canonical
<1>. HIDE DEF kept
<1>2. snapshot = [error |-> FALSE, fromHeader |-> start - source.header,
                  gap |-> source.max - end, fromLeft |-> left - source.left,
                  rightGap |-> source.right - right,
                  excluded |-> {row - start : row \in kept}]
  <2>1. Inside(source, approved)
    BY DEF BuildLayoutProjectionSnapshot, Refused
  <2>2. approved.start = start /\ approved.end = end /\ approved.left = left
        /\ approved.right = right /\ approved.excluded = kept
    BY <1>1
  <2>3. {row - approved.start : row \in approved.excluded} = {row - start : row \in kept}
    BY <2>2
  <2>. QED
    BY <2>1, <2>2, <2>3 DEF BuildLayoutProjectionSnapshot
<1>. HIDE DEF snapshot
<1>3. source.header + (start - source.header) = start /\ source.max - (source.max - end) = end
      /\ source.left + (left - source.left) = left
      /\ source.right - (source.right - right) = right
  BY RegionFields
<1>4. {start + offset : offset \in {row - start : row \in kept}} = kept
  <2>1. kept \subseteq Int
    BY DEF kept
  <2>. QED
    BY <2>1, ThereAndBack
<1>5. ProjectLayoutPlan(snapshot, source)
        = [start |-> start, end |-> end, left |-> left, right |-> right, excluded |-> kept]
  BY <1>2, <1>3, <1>4 DEF ProjectLayoutPlan
<1>6. kept \cap start..end = kept
  BY DEF kept
<1>. QED
  BY <1>1, <1>5, <1>6 DEF Canonical, snapshot

(* A column that a binding resolves to.                                       *)
LEMMA ResolvedColumn ==
  ASSUME NEW bindings, NEW i \in DOMAIN bindings, NEW columns, NEW same \in BOOLEAN,
         NEW projected \in BOOLEAN, NEW shift,
         same => bindings[i].place \in DOMAIN columns
                   /\ bindings[i].path = columns[bindings[i].place],
         NEW c \in ResolveReusedRegionColumn(bindings, i, columns, same, projected, shift)
  PROVE  /\ \/ HeaderPathsEquivalent(bindings[i].path, columns[c])
            \/ SameHeaderLeaf(bindings[i].path, columns[c])
         /\ same \/ projected => c = bindings[i].place
<1>. DEFINE b == bindings[i]
            like == {d \in DOMAIN columns : HeaderPathsEquivalent(b.path, columns[d])}
            leaf == {d \in DOMAIN columns : SameHeaderLeaf(b.path, columns[d])}
            physical == {b.place - shift} \cap (like \cup leaf)
<1>1. CASE same
  <2>1. c = b.place
    BY <1>1 DEF ResolveReusedRegionColumn
  <2>. QED
    BY <1>1, <2>1 DEF SameHeaderLeaf
<1>2. CASE ~same /\ projected
  <2>1. c \in AtOffset(b, columns)
    BY <1>2 DEF ResolveReusedRegionColumn
  <2>. QED
    BY <2>1, <1>2 DEF AtOffset
<1>3. CASE ~same /\ ~projected
  <2>1. c \in like \/ c \in physical \/ c \in {i} \cap like
    BY <1>3 DEF ResolveReusedRegionColumn
  <2>. QED
    BY <2>1, <1>3
<1>. QED
  BY <1>1, <1>2, <1>3

LEMMA SnapshotsAgree ==
  ASSUME JudgeSnapshot PROVE ReuseReadsTheSameCells'
<1>1. PICK source \in Region, start \in 0..4, end \in 0..4, left \in 0..2, right \in 1..3,
           rows \in SUBSET {2, 3} :
        LET approved == Canonical([start |-> start, end |-> end, left |-> left,
                                   right |-> right, excluded |-> rows])
            snapshot == BuildLayoutProjectionSnapshot(source, approved)
        IN  /\ source.min <= source.header /\ ~snapshot.error
            /\ JudgePlan([of |-> "snapshot", source |-> source, approved |-> approved,
                          again |-> Canonical(ProjectLayoutPlan(snapshot, source))])
  BY DEF JudgeSnapshot
<1>2. PICK approved : approved = Canonical([start |-> start, end |-> end, left |-> left,
                                            right |-> right, excluded |-> rows])
  OBVIOUS
<1>. DEFINE again == Canonical(ProjectLayoutPlan(
                       BuildLayoutProjectionSnapshot(source, approved), source))
<1>3. ~BuildLayoutProjectionSnapshot(source, approved).error
  BY <1>1, <1>2
<1>4. start \in Int /\ end \in Int /\ left \in Int /\ right \in Int /\ rows \subseteq Int
  OBVIOUS
<1>5. again = approved
  BY <1>2, <1>3, <1>4, SnapshotProjected
<1>6. judgedPlan' = [of |-> "snapshot", source |-> source, approved |-> approved,
                     again |-> again]
  BY <1>1, <1>2 DEF JudgePlan
<1>. HIDE DEF again
<1>. QED
  BY <1>5, <1>6 DEF ReuseReadsTheSameCells, SameFileSameRows, BindingKeepsItsHeader

LEMMA ColumnsAgree ==
  ASSUME JudgeColumns PROVE ReuseReadsTheSameCells'
<1>. DEFINE Resolves(n, paths, columns, same, projected, shift) ==
        LET bindings == [i \in 1..n |-> [path |-> paths[i], place |-> i]]
        IN  /\ same => columns = paths
            /\ JudgePlan([of |-> "columns", bindings |-> bindings, columns |-> columns,
                          same |-> same, projected |-> projected,
                          resolved |-> [i \in 1..n |-> ResolveReusedRegionColumn(
                                          bindings, i, columns, same, projected, shift)]])
<1>0. PICK n \in 1..2, m \in 1..2 :
        \E paths \in [1..n -> HeaderPaths], columns \in [1..m -> HeaderPaths],
           same, projected \in BOOLEAN, shift \in 0..1 :
          Resolves(n, paths, columns, same, projected, shift)
  BY DEF JudgeColumns
<1>1. PICK paths \in [1..n -> HeaderPaths], columns \in [1..m -> HeaderPaths],
           same \in BOOLEAN, projected \in BOOLEAN, shift \in 0..1 :
        Resolves(n, paths, columns, same, projected, shift)
  BY <1>0
<1>. HIDE DEF Resolves
<1>2. PICK bindings : bindings = [i \in 1..n |-> [path |-> paths[i], place |-> i]]
  OBVIOUS
<1>3. PICK resolved : resolved = [i \in 1..n |-> ResolveReusedRegionColumn(
                                    bindings, i, columns, same, projected, shift)]
  OBVIOUS
<1>4. judgedPlan' = [of |-> "columns", bindings |-> bindings, columns |-> columns,
                     same |-> same, projected |-> projected, resolved |-> resolved]
  BY <1>1, <1>2, <1>3 DEF JudgePlan, Resolves
<1>5. ASSUME NEW i \in DOMAIN bindings, NEW c \in resolved[i]
      PROVE  /\ \/ HeaderPathsEquivalent(bindings[i].path, columns[c])
                \/ SameHeaderLeaf(bindings[i].path, columns[c])
             /\ same \/ projected => c = i
  <2>1. i \in 1..n /\ bindings[i] = [path |-> paths[i], place |-> i]
    BY <1>2
  <2>2. c \in ResolveReusedRegionColumn(bindings, i, columns, same, projected, shift)
    BY <1>3, <2>1
  <2>3. same => bindings[i].place \in DOMAIN columns
                  /\ bindings[i].path = columns[bindings[i].place]
    BY <1>1, <2>1 DEF Resolves
  <2>. QED
    BY <2>1, <2>2, <2>3, ResolvedColumn
<1>6. BindingKeepsItsHeader'
  <2>1. \A i \in DOMAIN bindings : \A c \in resolved[i] :
           \/ HeaderPathsEquivalent(bindings[i].path, columns[c])
           \/ SameHeaderLeaf(bindings[i].path, columns[c])
    BY <1>5
  <2>2. \A i, j \in DOMAIN bindings :
           (same \/ projected) /\ i # j => resolved[i] \cap resolved[j] = {}
    BY <1>5
  <2>. QED
    BY <1>4, <2>1, <2>2 DEF BindingKeepsItsHeader
<1>. QED
  BY <1>4, <1>6 DEF ReuseReadsTheSameCells, SameFileSameRows

(* What no step of theirs computes is neither rows nor columns.               *)
LEMMA OthersAgree ==
  ASSUME JudgeProjection \/ JudgeRoles \/ JudgeMappings PROVE ReuseReadsTheSameCells'
<1>1. judgedPlan'.of \in {"projection", "roles", "mappings"}
  BY DEF JudgeProjection, JudgeRoles, JudgeMappings, JudgePlan
<1>. QED
  BY <1>1 DEF ReuseReadsTheSameCells, SameFileSameRows, BindingKeepsItsHeader

(* An approved layout projected on its own workbook is the approved layout,   *)
(* and a binding resolves to a column of its own that says the same, for any  *)
(* regions, layouts and labels (ensure_layout_projection_snapshot,            *)
(* project_layout_plan, _resolve_reused_region_column).                       *)
THEOREM ReuseIsFaithful == PlanSpec => []ReuseReadsTheSameCells
<1>1. PlanInit => ReuseReadsTheSameCells
  BY DEF PlanInit, NoPlan, ReuseReadsTheSameCells, SameFileSameRows, BindingKeepsItsHeader
<1>2. ReuseReadsTheSameCells /\ [PlanNext]_judgedPlan => ReuseReadsTheSameCells'
  <2>1. CASE PlanNext
    BY <2>1, SnapshotsAgree, ColumnsAgree, OthersAgree DEF PlanNext
  <2>2. CASE UNCHANGED judgedPlan
    BY <2>2 DEF ReuseReadsTheSameCells, SameFileSameRows, BindingKeepsItsHeader
  <2>. QED
    BY <2>1, <2>2
<1>. QED
  BY <1>1, <1>2, PTL DEF PlanSpec

-----------------------------------------------------------------------------
(* Roles: no two mappings of a group get one.                                 *)

RoleNames == {"self", "duplicate", "registry_comparison"}
Roles == (RoleNames \X Nat) \cup {NoRole}
Roled == [field: {"f", "g"}, role: Roles, header: {"plain", "compares", "self"},
          hermes: BOOLEAN]

(* The mappings and the roles in use, while a group is given its roles.       *)
Assigning(N) ==
  {s \in [mappings: [1..N -> Roled], used: SUBSET Roles] : IsFiniteSet(s.used)}

(* A are the mappings of before that have got a role for good.                *)
Distinct(N, before, s, A) ==
  /\ s \in Assigning(N) /\ NoRole \notin s.used
  /\ \A i \in 1..N : s.mappings[i].field = before[i].field
  /\ \A i \in (1..N) \ A : s.mappings[i] = before[i]
  /\ s.used = {s.mappings[i].role : i \in A}
  /\ \A i, j \in A : s.mappings[i].role = s.mappings[j].role => i = j

LEMMA LengthIs ==
  ASSUME NEW N \in Nat, NEW S, NEW s \in [1..N -> S]
  PROVE  Len(s) = N /\ s \in Seq(S) /\ DOMAIN s = 1..N
  OBVIOUS

LEMMA RoledFields ==
  ASSUME NEW m \in Roled, NEW role \in Roles
  PROVE  /\ m.field \in {"f", "g"} /\ m.role \in Roles
         /\ m.header \in {"plain", "compares", "self"} /\ m.hermes \in BOOLEAN
         /\ LET given == [m EXCEPT !.role = role]
            IN  /\ given \in Roled /\ given.role = role /\ given.field = m.field
                /\ given.header = m.header
<1>. DEFINE H == {"plain", "compares", "self"}
            F == {"f", "g"}
<1>1. Roled = [field: F, role: Roles, header: H, hermes: BOOLEAN]
  BY DEF Roled
<1>. HIDE DEF H, F
<1>2. /\ m.field \in F /\ m.role \in Roles /\ m.header \in H /\ m.hermes \in BOOLEAN
      /\ LET given == [m EXCEPT !.role = role]
         IN  /\ given \in Roled /\ given.role = role /\ given.field = m.field
             /\ given.header = m.header
  BY <1>1
<1>. QED
  BY <1>2 DEF H, F

(* There is always a role of a name that nobody has.                          *)
LEMMA FreeRole ==
  ASSUME NEW base \in RoleNames, NEW used, IsFiniteSet(used)
  PROVE  FirstFree(base, used) \in Roles \ (used \cup {NoRole})
<1>. DEFINE c == Cardinality(used)
            free == {n \in 1..c + 1 : <<base, n>> \notin used}
            tried == [n \in 1..c + 1 |-> <<base, n>>]
<1>1. c \in Nat
  BY FS_CardinalityType
<1>2. free # {}
  <2>. SUFFICES ASSUME free = {} PROVE FALSE
    OBVIOUS
  <2>1. tried \in [1..c + 1 -> used]
    OBVIOUS
  <2>2. c + 1 \in Nat /\ 1 <= c + 1
    BY <1>1
  <2>3. IsFiniteSet(1..c + 1) /\ Cardinality(1..c + 1) = c + 1
    BY <2>2, FS_Interval
  <2>4. \A i, j \in 1..c + 1 : tried[i] = tried[j] => i = j
    OBVIOUS
  <2>5. Cardinality(1..c + 1) > Cardinality(used)
    BY <1>1, <2>3
  <2>. HIDE DEF tried, free
  <2>6. \E i, j \in 1..c + 1 : i # j /\ tried[i] = tried[j]
    BY <2>1, <2>3, <2>5, FS_PigeonHole
  <2>. QED
    BY <2>4, <2>6
<1>3. free \subseteq Nat
  BY <1>1
<1>4. Min(free) \in free
  <2>. HIDE DEF free
  <2>. QED
    BY <1>2, <1>3, MinIs
<1>5. FirstFree(base, used) = <<base, Min(free)>>
  BY DEF FirstFree
<1>6. Min(free) \in Nat /\ <<base, Min(free)>> \notin used
  BY <1>3, <1>4
<1>. HIDE DEF free
<1>7. <<base, Min(free)>> # NoRole
  BY DEF NoRole, RoleNames
<1>. QED
  BY <1>5, <1>6, <1>7 DEF Roles

LEMMA Assigned ==
  ASSUME NEW N \in Nat, NEW s \in Assigning(N), NEW i \in 1..N, NEW role \in Roles
  PROVE  LET t == Assign(s, i, role)
         IN  /\ t \in Assigning(N) /\ t.used = s.used \cup {role}
             /\ t.mappings[i].role = role /\ t.mappings[i].field = s.mappings[i].field
             /\ t.mappings[i].header = s.mappings[i].header
             /\ \A j \in 1..N : j # i => t.mappings[j] = s.mappings[j]
<1>1. PICK mappings \in [1..N -> Roled], used \in SUBSET Roles :
        s = [mappings |-> mappings, used |-> used] /\ IsFiniteSet(used)
  <2>1. s \in [mappings: [1..N -> Roled], used: SUBSET Roles] /\ IsFiniteSet(s.used)
    BY DEF Assigning
  <2>. DEFINE M == [1..N -> Roled]
              U == SUBSET Roles
  <2>2. s \in [mappings: M, used: U] /\ IsFiniteSet(s.used)
    BY <2>1
  <2>. HIDE DEF M, U
  <2>3. s = [mappings |-> s.mappings, used |-> s.used] /\ s.mappings \in M /\ s.used \in U
    BY <2>2
  <2>. QED
    BY <2>2, <2>3 DEF M, U
<1>. DEFINE given == [mappings[i] EXCEPT !.role = role]
            after == [mappings EXCEPT ![i] = given]
            both == used \cup {role}
<1>2. given \in Roled /\ given.role = role /\ given.field = mappings[i].field
      /\ given.header = mappings[i].header
  BY RoledFields
<1>3. Assign(s, i, role) = [mappings |-> after, used |-> both]
  <2>1. s.mappings = mappings /\ s.used = used
    BY <1>1
  <2>2. Assign(s, i, role)
          = [s EXCEPT !.mappings = [s.mappings EXCEPT ![i] = [s.mappings[i] EXCEPT !.role = role]],
                      !.used = s.used \cup {role}]
    BY DEF Assign
  <2>. QED
    BY <1>1, <2>1, <2>2
<1>. HIDE DEF given
<1>4. after \in [1..N -> Roled] /\ after[i] = given
      /\ \A j \in 1..N : j # i => after[j] = mappings[j]
  BY <1>2
<1>5. both \in SUBSET Roles /\ IsFiniteSet(both)
  BY <1>1, FS_AddElement
<1>. HIDE DEF after, both
<1>6. [mappings |-> after, used |-> both] \in Assigning(N)
  BY <1>4, <1>5 DEF Assigning
<1>7. both = s.used \cup {role} /\ \A j \in 1..N : s.mappings[j] = mappings[j]
  BY <1>1 DEF both
<1>. QED
  BY <1>2, <1>3, <1>4, <1>6, <1>7

LEMMA AssignedStays ==
  ASSUME NEW N \in Nat, NEW s \in Assigning(N), NEW i \in 1..N, NEW role \in Roles
  PROVE  Assign(s, i, role) \in Assigning(N)
  BY Assigned

LEMMA AssigningIs ==
  ASSUME NEW N \in Nat, NEW s \in Assigning(N)
  PROVE  /\ s.used \subseteq Roles /\ IsFiniteSet(s.used)
         /\ \A i \in 1..N : s.mappings[i] \in Roled
<1>. DEFINE M == [1..N -> Roled]
            U == SUBSET Roles
<1>1. s \in [mappings: M, used: U] /\ IsFiniteSet(s.used)
  BY DEF Assigning
<1>. HIDE DEF M, U
<1>2. s.mappings \in M /\ s.used \in U
  BY <1>1
<1>. QED
  BY <1>1, <1>2 DEF M, U

LEMMA DistinctGrows ==
  ASSUME NEW N \in Nat, NEW before, NEW s, NEW A, A \subseteq 1..N, NEW i \in (1..N) \ A,
         NEW role \in Roles \ (s.used \cup {NoRole}), Distinct(N, before, s, A)
  PROVE  Distinct(N, before, Assign(s, i, role), A \cup {i})
<1>. DEFINE t == Assign(s, i, role)
<1>1. s \in Assigning(N)
  BY DEF Distinct
<1>2. /\ t \in Assigning(N) /\ t.used = s.used \cup {role}
      /\ t.mappings[i].role = role /\ t.mappings[i].field = s.mappings[i].field
      /\ \A j \in 1..N : j # i => t.mappings[j] = s.mappings[j]
  BY <1>1, Assigned
<1>. HIDE DEF t
<1>3. NoRole \notin t.used
  BY <1>2 DEF Distinct
<1>4. \A j \in 1..N : t.mappings[j].field = before[j].field
  BY <1>2 DEF Distinct
<1>5. \A j \in (1..N) \ (A \cup {i}) : t.mappings[j] = before[j]
  BY <1>2 DEF Distinct
<1>6. \A j \in A : t.mappings[j] = s.mappings[j]
  BY <1>2
<1>7. t.used = {t.mappings[j].role : j \in A \cup {i}}
  <2>1. s.used = {s.mappings[j].role : j \in A}
    BY DEF Distinct
  <2>2. {s.mappings[j].role : j \in A} = {t.mappings[j].role : j \in A}
    BY <1>6
  <2>3. {t.mappings[j].role : j \in A \cup {i}}
          = {t.mappings[j].role : j \in A} \cup {t.mappings[i].role}
    OBVIOUS
  <2>. QED
    BY <1>2, <2>1, <2>2, <2>3
<1>8. \A j \in A : t.mappings[j].role \in s.used
  BY <1>6 DEF Distinct
<1>9. \A j, k \in A \cup {i} : t.mappings[j].role = t.mappings[k].role => j = k
  BY <1>2, <1>6, <1>8 DEF Distinct
<1>. QED
  BY <1>2, <1>3, <1>4, <1>5, <1>7, <1>9 DEF Distinct, t

Upto(A, B, n) == A \cup (B \cap 1..n)

(* A group is given roles one by one, each by an assignment of a free role.   *)
LEMMA DistinctAfterAll ==
  ASSUME NEW N \in Nat, NEW before, NEW A, A \subseteq 1..N, NEW B, B \subseteq 1..N,
         A \cap B = {}, NEW h \in [0..N -> Assigning(N)],
         Distinct(N, before, h[0], A),
         \A n \in 1..N : n \notin B => h[n] = h[n - 1],
         \A n \in B : Distinct(N, before, h[n - 1], Upto(A, B, n - 1)) =>
           \E role \in Roles \ (h[n - 1].used \cup {NoRole}) :
             h[n] = Assign(h[n - 1], n, role)
  PROVE  Distinct(N, before, h[N], A \cup B)
<1>. DEFINE C(n) == Upto(A, B, n)
            P == {n \in 0..N : Distinct(N, before, h[n], C(n))}
<1>1. C(0) = A /\ C(N) = A \cup B
  <2>0. 1..0 = {}
    OBVIOUS
  <2>1. B \cap 1..0 = {} /\ B \cap 1..N = B
    BY <2>0
  <2>. QED
    BY <2>1 DEF Upto
<1>2. \A n \in 1..N : C(n) = IF n \in B THEN C(n - 1) \cup {n} ELSE C(n - 1)
  <2>. TAKE n \in 1..N
  <2>1. 1..n = (1..n - 1) \cup {n}
    OBVIOUS
  <2>2. B \cap 1..n = (B \cap 1..n - 1) \cup (B \cap {n})
    BY <2>1
  <2>3. CASE n \in B
    BY <2>2, <2>3 DEF Upto
  <2>4. CASE n \notin B
    BY <2>2, <2>4 DEF Upto
  <2>. QED
    BY <2>3, <2>4
<1>3. \A n \in B : C(n - 1) \subseteq 1..N /\ n \in (1..N) \ C(n - 1)
  BY DEF Upto
<1>4. \A n \in B : Distinct(N, before, h[n - 1], C(n - 1)) =>
        \E role \in Roles \ (h[n - 1].used \cup {NoRole}) :
          h[n] = Assign(h[n - 1], n, role)
  OBVIOUS
<1>. HIDE DEF C
<1>5. 0 \in P
  BY <1>1
<1>6. ASSUME NEW n \in 1..N, n - 1 \in P PROVE n \in P
  <2>1. Distinct(N, before, h[n - 1], C(n - 1)) /\ n \in 0..N
    BY <1>6
  <2>2. CASE n \notin B
    BY <1>2, <2>1, <2>2
  <2>3. CASE n \in B
    <3>1. PICK role \in Roles \ (h[n - 1].used \cup {NoRole}) :
            h[n] = Assign(h[n - 1], n, role)
      BY <1>4, <2>1, <2>3
    <3>2. C(n) = C(n - 1) \cup {n}
      BY <1>2, <2>3
    <3>3. C(n - 1) \subseteq 1..N /\ n \in (1..N) \ C(n - 1)
      BY <1>3, <2>3
    <3>4. Distinct(N, before, h[n], C(n - 1) \cup {n})
      BY <2>1, <3>1, <3>3, DistinctGrows
    <3>. QED
      BY <2>1, <3>2, <3>4
  <2>. QED
    BY <2>2, <2>3
<1>7. N \in P
  <2>. HIDE DEF P
  <2>. QED
    BY <1>5, <1>6, CountingUp
<1>. QED
  BY <1>1, <1>7

LEMMA KeptRoles ==
  ASSUME NEW N \in Nat, NEW mappings \in [1..N -> Roled], NEW said, said \subseteq 1..N,
         \A i \in said : mappings[i].role # NoRole
  PROVE  Distinct(N, mappings, KeepRoles(mappings, said), said)
<1>. DEFINE keep(s, i) ==
       IF mappings[i].role \notin s.used THEN Assign(s, i, mappings[i].role)
       ELSE Assign(s, i, FirstFree(Conflicting(mappings[i].header), s.used))
            first == [mappings |-> mappings, used |-> {}]
            next == [n \in 1..N |-> [s \in Assigning(N) |-> IF n \in said THEN keep(s, n) ELSE s]]
            kept[n \in 0..Len(mappings)] ==
              IF n = 0 THEN first
              ELSE IF n \in said THEN keep(kept[n - 1], n) ELSE kept[n - 1]
<1>1. Len(mappings) = N
  BY LengthIs
<1>2. ASSUME NEW s \in Assigning(N), NEW i \in said
      PROVE  \E role \in Roles \ {NoRole} : /\ keep(s, i) = Assign(s, i, role)
                                            /\ role \notin s.used
  <2>1. mappings[i].role \in Roles \ {NoRole}
    BY RoledFields DEF Roles
  <2>2. Conflicting(mappings[i].header) \in RoleNames
    BY DEF Conflicting, RoleNames
  <2>3. FirstFree(Conflicting(mappings[i].header), s.used) \in Roles \ (s.used \cup {NoRole})
    BY <2>2, AssigningIs, FreeRole
  <2>. QED
    BY <2>1, <2>3
<1>3. ASSUME NEW s \in Assigning(N), NEW n \in said PROVE keep(s, n) \in Assigning(N)
  <2>1. PICK role \in Roles \ {NoRole} : keep(s, n) = Assign(s, n, role)
    BY <1>2
  <2>. HIDE DEF keep
  <2>2. n \in 1..N /\ role \in Roles
    OBVIOUS
  <2>3. Assign(s, n, role) \in Assigning(N)
    BY <2>2, AssignedStays
  <2>. QED
    BY <2>1, <2>3
<1>4. first \in Assigning(N)
  BY FS_EmptySet DEF Assigning
<1>. HIDE DEF keep, first
<1>5. next \in [1..N -> [Assigning(N) -> Assigning(N)]]
  BY <1>3
<1>6. PICK h \in [0..N -> Assigning(N)] :
        h[0] = first /\ \A n \in 1..N : h[n] = next[n][h[n - 1]]
  <2>. HIDE DEF next
  <2>. DEFINE S == Assigning(N)
  <2>. HIDE DEF S
  <2>1. first \in S /\ next \in [1..N -> [S -> S]]
    BY <1>4, <1>5 DEF S
  <2>2. \E h : Computes(h, N, S, first, next)
    BY <2>1, StepByStep
  <2>. QED
    BY <2>2 DEF Computes, S
<1>7. h = [n \in 0..Len(mappings) |->
             IF n = 0 THEN first
             ELSE IF n \in said THEN keep(h[n - 1], n) ELSE h[n - 1]]
  <2>1. ASSUME NEW n \in 0..N, n # 0
        PROVE  h[n] = IF n \in said THEN keep(h[n - 1], n) ELSE h[n - 1]
    <3>1. n \in 1..N /\ n - 1 \in 0..N
      BY <2>1
    <3>. QED
      BY <1>6, <3>1
  <2>. QED
    BY <1>1, <1>6, <2>1
<1>8. kept = [n \in 0..N |->
                IF n = 0 THEN first
                ELSE IF n \in said THEN keep(kept[n - 1], n) ELSE kept[n - 1]]
  BY <1>1, <1>7
<1>. HIDE DEF kept, next
<1>9. \A n \in 0..N : kept[n] \in Assigning(N)
  <2>. DEFINE P == {n \in 0..N : kept[n] \in Assigning(N)}
  <2>1. 0 \in P
    BY <1>4, <1>8
  <2>2. ASSUME NEW n \in 1..N, n - 1 \in P PROVE n \in P
    <3>1. kept[n] = IF n \in said THEN keep(kept[n - 1], n) ELSE kept[n - 1]
      BY <1>8
    <3>. QED
      BY <1>3, <2>2, <3>1
  <2>3. \A n \in 0..N : n \in P
    <3>. HIDE DEF P
    <3>. QED
      BY <2>1, <2>2, CountingUp
  <2>. QED
    BY <2>3
<1>10. kept \in [0..N -> Assigning(N)]
  BY <1>8, <1>9
<1>11. \A n \in 1..N : n \notin said => kept[n] = kept[n - 1]
  BY <1>8
<1>12. \A n \in said : \E role \in Roles \ (kept[n - 1].used \cup {NoRole}) :
         kept[n] = Assign(kept[n - 1], n, role)
  <2>. TAKE n \in said
  <2>1. kept[n] = keep(kept[n - 1], n) /\ kept[n - 1] \in Assigning(N)
    BY <1>8, <1>10
  <2>. QED
    BY <1>2, <2>1
<1>13. Distinct(N, mappings, kept[0], {})
  <2>1. kept[0] = [mappings |-> mappings, used |-> {}]
    BY <1>8 DEF first
  <2>2. kept[0].mappings = mappings /\ kept[0].used = {}
    BY <2>1
  <2>3. kept[0] \in Assigning(N)
    BY <1>4, <1>8
  <2>. QED
    BY <2>2, <2>3 DEF Distinct
<1>14. Distinct(N, mappings, kept[N], {} \cup said)
  BY <1>10, <1>11, <1>12, <1>13, DistinctAfterAll
<1>15. KeepRoles(mappings, said) = kept[N]
  BY <1>1 DEF KeepRoles, kept, keep, first
<1>. QED
  BY <1>14, <1>15

LEMMA GivenRoles ==
  ASSUME NEW N \in Nat, NEW mappings \in [1..N -> Roled], NEW A, A \subseteq 1..N,
         NEW without, without \subseteq (1..N) \ A,
         NEW kept, Distinct(N, mappings, kept, A)
  PROVE  Distinct(N, mappings, GiveRoles(kept, mappings, without), A \cup without)
<1>. DEFINE give(s, i) == Assign(s, i, FirstFree(Unsaid(mappings[i].header), s.used))
            next == [n \in 1..N |->
                       [s \in Assigning(N) |-> IF n \in without THEN give(s, n) ELSE s]]
            given[n \in 0..Len(mappings)] ==
              IF n = 0 THEN kept
              ELSE IF n \in without THEN give(given[n - 1], n) ELSE given[n - 1]
<1>1. Len(mappings) = N
  BY LengthIs
<1>2. ASSUME NEW s \in Assigning(N), NEW i \in without
      PROVE  \E role \in Roles \ {NoRole} : /\ give(s, i) = Assign(s, i, role)
                                            /\ role \notin s.used
  <2>1. Unsaid(mappings[i].header) \in RoleNames
    BY DEF Unsaid, RoleNames
  <2>2. FirstFree(Unsaid(mappings[i].header), s.used) \in Roles \ (s.used \cup {NoRole})
    BY <2>1, AssigningIs, FreeRole
  <2>. QED
    BY <2>2
<1>3. ASSUME NEW s \in Assigning(N), NEW n \in without PROVE give(s, n) \in Assigning(N)
  <2>1. PICK role \in Roles \ {NoRole} : give(s, n) = Assign(s, n, role)
    BY <1>2
  <2>. HIDE DEF give
  <2>. QED
    BY <2>1, Assigned
<1>4. kept \in Assigning(N)
  BY DEF Distinct
<1>. HIDE DEF give
<1>5. next \in [1..N -> [Assigning(N) -> Assigning(N)]]
  BY <1>3
<1>6. PICK h \in [0..N -> Assigning(N)] :
        h[0] = kept /\ \A n \in 1..N : h[n] = next[n][h[n - 1]]
  <2>. HIDE DEF next
  <2>. DEFINE S == Assigning(N)
  <2>. HIDE DEF S
  <2>1. kept \in S /\ next \in [1..N -> [S -> S]]
    BY <1>4, <1>5 DEF S
  <2>2. \E h : Computes(h, N, S, kept, next)
    BY <2>1, StepByStep
  <2>. QED
    BY <2>2 DEF Computes, S
<1>7. h = [n \in 0..Len(mappings) |->
             IF n = 0 THEN kept
             ELSE IF n \in without THEN give(h[n - 1], n) ELSE h[n - 1]]
  <2>1. ASSUME NEW n \in 0..N, n # 0
        PROVE  h[n] = IF n \in without THEN give(h[n - 1], n) ELSE h[n - 1]
    <3>1. n \in 1..N /\ n - 1 \in 0..N
      BY <2>1
    <3>. QED
      BY <1>6, <3>1
  <2>. QED
    BY <1>1, <1>6, <2>1
<1>8. given = [n \in 0..N |->
                IF n = 0 THEN kept
                ELSE IF n \in without THEN give(given[n - 1], n) ELSE given[n - 1]]
  BY <1>1, <1>7
<1>. HIDE DEF given, next
<1>9. \A n \in 0..N : given[n] \in Assigning(N)
  <2>. DEFINE P == {n \in 0..N : given[n] \in Assigning(N)}
  <2>1. 0 \in P
    BY <1>4, <1>8
  <2>2. ASSUME NEW n \in 1..N, n - 1 \in P PROVE n \in P
    <3>1. given[n] = IF n \in without THEN give(given[n - 1], n) ELSE given[n - 1]
      BY <1>8
    <3>. QED
      BY <1>3, <2>2, <3>1
  <2>3. \A n \in 0..N : n \in P
    <3>. HIDE DEF P
    <3>. QED
      BY <2>1, <2>2, CountingUp
  <2>. QED
    BY <2>3
<1>10. given \in [0..N -> Assigning(N)]
  BY <1>8, <1>9
<1>11. \A n \in 1..N : n \notin without => given[n] = given[n - 1]
  BY <1>8
<1>12. \A n \in without : \E role \in Roles \ (given[n - 1].used \cup {NoRole}) :
         given[n] = Assign(given[n - 1], n, role)
  <2>. TAKE n \in without
  <2>1. given[n] = give(given[n - 1], n) /\ given[n - 1] \in Assigning(N)
    BY <1>8, <1>10
  <2>. QED
    BY <1>2, <2>1
<1>13. Distinct(N, mappings, given[0], A)
  BY <1>8
<1>14. Distinct(N, mappings, given[N], A \cup without)
  BY <1>10, <1>11, <1>12, <1>13, DistinctAfterAll
<1>15. GiveRoles(kept, mappings, without) = given[N]
  BY <1>1 DEF GiveRoles, given, give
<1>. QED
  BY <1>14, <1>15

LEMMA OneOfFew ==
  ASSUME NEW S, IsFiniteSet(S), Cardinality(S) < 2, NEW i \in S, NEW j \in S
  PROVE  i = j
<1>. SUFFICES ASSUME i # j PROVE FALSE
  OBVIOUS
<1>1. IsFiniteSet({i}) /\ Cardinality({i}) = 1
  BY FS_Singleton
<1>2. Cardinality({i} \cup {j}) = 2
  BY <1>1, FS_AddElement
<1>3. Cardinality({i} \cup {j}) <= Cardinality(S) /\ Cardinality(S) \in Nat
  BY FS_Subset, FS_CardinalityType
<1>. QED
  BY <1>2, <1>3

LEMMA GroupHasRoles ==
  ASSUME NEW N \in Nat, NEW mappings \in [1..N -> Roled], NEW field
  PROVE  LET after == DisambiguateGroup(mappings, field)
         IN  /\ after \in [1..N -> Roled]
             /\ \A i \in 1..N : after[i].field = mappings[i].field
             /\ \A i \in 1..N : mappings[i].field # field => after[i] = mappings[i]
             /\ \A i, j \in 1..N : /\ mappings[i].field = field /\ mappings[j].field = field
                                  /\ after[i].role = after[j].role
                                  => i = j
<1>. DEFINE group == {i \in 1..N : mappings[i].field = field}
            unsaid == {i \in group : mappings[i].role = NoRole}
            own == {i \in unsaid : ~mappings[i].hermes}
            canonical == IF own # {} THEN {Min(own)}
                         ELSE IF unsaid # {} THEN {Min(unsaid)} ELSE {}
            said == group \ unsaid
            without == unsaid \ canonical
            after == DisambiguateGroup(mappings, field)
            given == GiveRoles(KeepRoles(mappings, said), mappings, without)
<1>1. DOMAIN mappings = 1..N
  OBVIOUS
<1>2. after = IF Cardinality(group) < 2 THEN mappings ELSE given.mappings
  BY <1>1 DEF DisambiguateGroup
<1>3. IsFiniteSet(group)
  <2>1. IsFiniteSet(1..N)
    BY FS_Interval
  <2>. QED
    BY <2>1, FS_Subset
<1>4. \E c : canonical \subseteq {c}
  OBVIOUS
<1>5. unsaid \subseteq group /\ group \subseteq 1..N /\ said \subseteq 1..N
      /\ without \subseteq (1..N) \ said
  OBVIOUS
<1>6. \A i \in said : mappings[i].role # NoRole
  OBVIOUS
<1>7. \A i \in unsaid : mappings[i].role = NoRole
  OBVIOUS
<1>8. \A i \in 1..N : i \in group <=> mappings[i].field = field
  OBVIOUS
<1>9. group = said \cup without \cup (unsaid \cap canonical)
  OBVIOUS
<1>. HIDE DEF group, unsaid, canonical, said, without, after, given
<1>10. CASE Cardinality(group) < 2
  <2>1. after = mappings
    BY <1>2, <1>10
  <2>2. \A i, j \in group : i = j
    BY <1>3, <1>10, OneOfFew
  <2>. QED
    BY <1>8, <2>1, <2>2 DEF after
<1>11. CASE ~(Cardinality(group) < 2)
  <2>1. Distinct(N, mappings, KeepRoles(mappings, said), said)
    BY <1>5, <1>6, KeptRoles
  <2>2. Distinct(N, mappings, given, said \cup without)
    BY <1>5, <2>1, GivenRoles DEF given
  <2>3. after = given.mappings
    BY <1>2, <1>11
  <2>4. given \in Assigning(N)
    BY <2>2 DEF Distinct
  <2>5. after \in [1..N -> Roled]
    <3>. DEFINE M == [1..N -> Roled]
                U == SUBSET Roles
    <3>1. given \in [mappings: M, used: U]
      BY <2>4 DEF Assigning
    <3>. HIDE DEF M, U
    <3>2. given.mappings \in M
      BY <3>1
    <3>. QED
      BY <2>3, <3>2 DEF M
  <2>6. /\ \A i \in 1..N : after[i].field = mappings[i].field
        /\ \A i \in (1..N) \ (said \cup without) : after[i] = mappings[i]
        /\ \A i, j \in said \cup without : after[i].role = after[j].role => i = j
        /\ \A i \in said \cup without : after[i].role # NoRole
    BY <2>2, <2>3 DEF Distinct
  <2>7. \A i \in group : i \notin said \cup without => after[i].role = NoRole /\ i \in canonical
    BY <1>5, <1>7, <1>9, <2>6
  <2>8. \A i, j \in group : after[i].role = after[j].role => i = j
    <3>. SUFFICES ASSUME NEW i \in group, NEW j \in group, after[i].role = after[j].role
                  PROVE  i = j
      OBVIOUS
    <3>1. CASE i \in said \cup without \/ j \in said \cup without
      BY <2>6, <2>7, <3>1
    <3>2. CASE i \notin said \cup without /\ j \notin said \cup without
      BY <1>4, <2>7, <3>2
    <3>. QED
      BY <3>1, <3>2
  <2>9. \A i \in 1..N : mappings[i].field # field => after[i] = mappings[i]
    BY <1>5, <1>8, <1>9, <2>6
  <2>. QED
    BY <1>8, <2>5, <2>6, <2>8, <2>9 DEF after
<1>. QED
  BY <1>10, <1>11

LEMMA RolesAreDistinct ==
  ASSUME NEW N \in Nat, NEW mappings \in [1..N -> Roled]
  PROVE  LET after == DisambiguateDuplicateFieldRoles(mappings)
         IN  /\ DOMAIN after = 1..N
             /\ \A i, j \in 1..N : after[i].field = after[j].field
                                   /\ after[i].role = after[j].role => i = j
<1>. DEFINE first == DisambiguateGroup(mappings, "f")
            after == DisambiguateGroup(first, "g")
<1>1. /\ first \in [1..N -> Roled]
      /\ \A i \in 1..N : first[i].field = mappings[i].field
      /\ \A i, j \in 1..N : /\ mappings[i].field = "f" /\ mappings[j].field = "f"
                            /\ first[i].role = first[j].role
                            => i = j
  BY GroupHasRoles
<1>. HIDE DEF first
<1>2. /\ after \in [1..N -> Roled]
      /\ \A i \in 1..N : after[i].field = first[i].field
      /\ \A i \in 1..N : first[i].field # "g" => after[i] = first[i]
      /\ \A i, j \in 1..N : /\ first[i].field = "g" /\ first[j].field = "g"
                            /\ after[i].role = after[j].role
                            => i = j
  BY <1>1, GroupHasRoles
<1>. HIDE DEF after
<1>3. ASSUME NEW i \in 1..N, NEW j \in 1..N, after[i].field = after[j].field,
             after[i].role = after[j].role
      PROVE  i = j
  <2>1. mappings[i].field \in {"f", "g"} /\ mappings[i].field = mappings[j].field
    <3>1. mappings[i] \in Roled
      OBVIOUS
    <3>2. mappings[i].field \in {"f", "g"}
      BY <3>1 DEF Roled
    <3>. QED
      BY <1>1, <1>2, <1>3, <3>2
  <2>2. CASE mappings[i].field = "f"
    BY <1>1, <1>2, <1>3, <2>1, <2>2
  <2>3. CASE mappings[i].field = "g"
    BY <1>1, <1>2, <1>3, <2>1, <2>3
  <2>. QED
    BY <2>1, <2>2, <2>3
<1>4. DOMAIN after = 1..N
  BY <1>2
<1>. QED
  BY <1>3, <1>4 DEF DisambiguateDuplicateFieldRoles, after, first

LEMMA RolesMaterialize ==
  ASSUME JudgeRoles PROVE MachinePlanIsMaterializable'
<1>1. PICK mappings \in [1..3 -> Mapping] :
        JudgePlan([of |-> "roles", mappings |-> DisambiguateDuplicateFieldRoles(mappings)])
  BY DEF JudgeRoles
<1>2. Mapping \subseteq Roled
  <2>1. {NoRole, <<"self", 1>>, <<"duplicate", 1>>} \subseteq Roles
    BY DEF Roles, RoleNames
  <2>. QED
    BY <2>1 DEF Mapping, Roled
<1>3. mappings \in [1..3 -> Roled]
  BY <1>2
<1>4. PICK after : after = DisambiguateDuplicateFieldRoles(mappings)
  OBVIOUS
<1>5. /\ DOMAIN after = 1..3
      /\ \A i, j \in 1..3 : after[i].field = after[j].field /\ after[i].role = after[j].role
                            => i = j
  <2>1. 3 \in Nat
    OBVIOUS
  <2>. DEFINE N == 3
  <2>. HIDE DEF N
  <2>2. N \in Nat /\ mappings \in [1..N -> Roled]
    BY <1>3, <2>1 DEF N
  <2>3. /\ DOMAIN after = 1..N
        /\ \A i, j \in 1..N : after[i].field = after[j].field
                              /\ after[i].role = after[j].role => i = j
    BY <1>4, <2>2, RolesAreDistinct
  <2>. QED
    BY <2>3 DEF N
<1>6. judgedPlan' = [of |-> "roles", mappings |-> after]
  BY <1>1, <1>4 DEF JudgePlan
<1>. QED
  BY <1>5, <1>6 DEF MachinePlanIsMaterializable

LEMMA ProjectionsMaterialize ==
  ASSUME JudgeProjection PROVE MachinePlanIsMaterializable'
<1>1. PICK region \in Region, rules \in LayoutRules :
        \E mapped \in SUBSET (region.left..region.right) :
          /\ ~ProjectRegionDataRows(region, rules).error
          /\ JudgePlan([of |-> "projection", region |-> region, rules |-> rules,
                        decision |-> Canonical(RegionDecision(region, rules)),
                        mapped |-> mapped,
                        materializes |->
                          Materializes(region, Canonical(RegionDecision(region, rules)),
                                       mapped)])
  BY DEF JudgeProjection
<1>m. PICK mapped :
        /\ ~ProjectRegionDataRows(region, rules).error
        /\ JudgePlan([of |-> "projection", region |-> region, rules |-> rules,
                      decision |-> Canonical(RegionDecision(region, rules)),
                      mapped |-> mapped,
                      materializes |->
                        Materializes(region, Canonical(RegionDecision(region, rules)),
                                     mapped)])
  BY <1>1
<1>2. PICK rows : rows = ProjectRegionDataRows(region, rules)
  OBVIOUS
<1>3. /\ rows.start >= region.min /\ rows.end <= region.max /\ rows.start <= rows.end
      /\ rows.start \in Int /\ rows.end \in Int
  <2>1. rules.offset \in Int /\ rules.gap \in Int
    BY DEF LayoutRules
  <2>2. PICK start \in Int, end \in Int :
          rows = IF rules.from = "nothing" \/ ~rules.ends
                      \/ start < region.min \/ end > region.max \/ start > end
                 THEN Refused ELSE [error |-> FALSE, start |-> start, end |-> end]
    <3>. DEFINE start == (IF rules.from = "header" THEN region.header ELSE region.min)
                           + rules.offset
                end == region.max - rules.gap
    <3>1. start \in Int /\ end \in Int
      BY <2>1, RegionFields
    <3>2. rows = IF rules.from = "nothing" \/ ~rules.ends
                      \/ start < region.min \/ end > region.max \/ start > end
                 THEN Refused ELSE [error |-> FALSE, start |-> start, end |-> end]
      BY <1>2 DEF ProjectRegionDataRows
    <3>. HIDE DEF start, end
    <3>. QED
      BY <3>1, <3>2
  <2>3. rows # Refused
    BY <1>m, <1>2 DEF Refused
  <2>4. ~(start < region.min \/ end > region.max \/ start > end)
        /\ rows = [error |-> FALSE, start |-> start, end |-> end]
    BY <2>2, <2>3
  <2>. QED
    BY <2>4, RegionFields
<1>. DEFINE excluded == {rows.start + offset : offset \in rules.excluded}
            kept == excluded \cap rows.start..rows.end
            decision == Canonical(RegionDecision(region, rules))
<1>4. decision = [start |-> rows.start, end |-> rows.end,
                  left |-> region.left + rules.fromLeft,
                  right |-> region.right - rules.rightGap, excluded |-> kept]
  <2>1. RegionDecision(region, rules)
          = [start |-> rows.start, end |-> rows.end,
             left |-> region.left + rules.fromLeft,
             right |-> region.right - rules.rightGap, excluded |-> excluded]
    BY <1>2 DEF RegionDecision
  <2>2. ASSUME NEW start, NEW end, NEW left, NEW right, NEW out
        PROVE  Canonical([start |-> start, end |-> end, left |-> left, right |-> right,
                          excluded |-> out])
                 = [start |-> start, end |-> end, left |-> left, right |-> right,
                    excluded |-> out \cap start..end]
    BY DEF Canonical
  <2>. HIDE DEF excluded
  <2>. QED
    BY <2>1, <2>2
<1>5. kept \subseteq rows.start..rows.end
  OBVIOUS
<1>. HIDE DEF kept, excluded
<1>6. decision.excluded \subseteq decision.start..decision.end
  BY <1>4, <1>5
<1>7. Inside(region, decision) <=> ColumnsFit(region, rules)
  <2>1. rules.fromLeft \in Int /\ rules.rightGap \in Int
    BY DEF LayoutRules
  <2>2. Inside(region, decision) <=>
          /\ region.left + rules.fromLeft >= region.left
          /\ region.right - rules.rightGap <= region.right
          /\ region.left + rules.fromLeft <= region.right - rules.rightGap
    <3>. HIDE DEF decision
    <3>. QED
      BY <1>3, <1>4 DEF Inside
  <2>. QED
    BY <2>1, <2>2, RegionFields DEF ColumnsFit
<1>8. judgedPlan' = [of |-> "projection", region |-> region, rules |-> rules,
                     decision |-> decision, mapped |-> mapped,
                     materializes |-> Materializes(region, decision, mapped)]
  BY <1>m DEF JudgePlan
<1>. HIDE DEF decision
<1>9. Materializes(region, decision, mapped) <=>
        ColumnsFit(region, rules) /\ mapped \subseteq decision.left..decision.right
  BY <1>6, <1>7 DEF Materializes
<1>. QED
  BY <1>8, <1>9 DEF MachinePlanIsMaterializable

LEMMA MappingsMaterialize ==
  ASSUME JudgeMappings PROVE MachinePlanIsMaterializable'
<1>1. PICK columns \in [1..3 -> SourceColumn], reused \in SUBSET {1, 2},
           supplied \in SUBSET {1, 2}, materialized \in SUBSET {1, 2} :
        LET hybrid == HybridMappings(columns, reused, supplied, materialized)
            matched == MatchedMappings(columns, reused)
        IN  \/ ~hybrid.error /\ JudgePlan([of |-> "mappings", plan |-> hybrid])
            \/ reused # {} /\ JudgePlan([of |-> "mappings", plan |-> matched])
  BY DEF JudgeMappings
<1>. DEFINE Apart(plan) ==
       \E first, second, third :
         /\ plan.mappings = <<first, second \ first, third \ (first \cup (second \ first))>>
<1>2. ~HybridMappings(columns, reused, supplied, materialized).error =>
        Apart(HybridMappings(columns, reused, supplied, materialized))
  BY DEF HybridMappings, FieldMatchMappings, Refused
<1>3. Apart(MatchedMappings(columns, reused))
  <2>. DEFINE first == {i \in DOMAIN columns : columns[i].region \in reused /\ columns[i].binding}
              second == {i \in DOMAIN columns : columns[i].region \in reused /\ columns[i].matched}
  <2>1. MatchedMappings(columns, reused).mappings = <<first, second \ first, {}>>
    BY DEF MatchedMappings, FieldMatchMappings
  <2>2. {} \ (first \cup (second \ first)) = {}
    OBVIOUS
  <2>. HIDE DEF first, second
  <2>. QED
    BY <2>1, <2>2
<1>4. ASSUME NEW plan, Apart(plan)
      PROVE  \A i, j \in 1..3 : i # j => plan.mappings[i] \cap plan.mappings[j] = {}
  <2>1. PICK first, second, third :
          plan.mappings = <<first, second \ first, third \ (first \cup (second \ first))>>
    BY <1>4
  <2>2. /\ plan.mappings[1] = first /\ plan.mappings[2] = second \ first
        /\ plan.mappings[3] = third \ (first \cup (second \ first))
    BY <2>1
  <2>. QED
    BY <2>2
<1>5. \E plan : Apart(plan) /\ judgedPlan' = [of |-> "mappings", plan |-> plan]
  BY <1>1, <1>2, <1>3 DEF JudgePlan
<1>. HIDE DEF Apart
<1>. QED
  BY <1>4, <1>5 DEF MachinePlanIsMaterializable

(* What keeps a plan that a machine made from being materialized is known:    *)
(* a projected decision is refused exactly when its region is too narrow for  *)
(* the rules or a column they leave out is mapped, never for its rows; no two *)
(* mappings of a group have one role, however many roles are made up, and no  *)
(* column is mapped by two sources (build_reused_region_fragments,            *)
(* _disambiguate_duplicate_field_roles, approve_hybrid_region_plan and        *)
(* approve_matched_region_plan against materialize_plan's checks).           *)
THEOREM MachinePlansMaterialize == PlanSpec => []MachinePlanIsMaterializable
<1>1. PlanInit => MachinePlanIsMaterializable
  BY DEF PlanInit, NoPlan, MachinePlanIsMaterializable
<1>2. MachinePlanIsMaterializable /\ [PlanNext]_judgedPlan => MachinePlanIsMaterializable'
  <2>1. ASSUME JudgeSnapshot \/ JudgeColumns PROVE MachinePlanIsMaterializable'
    <3>1. JudgeSnapshot => judgedPlan'.of = "snapshot"
      BY DEF JudgeSnapshot, JudgePlan
    <3>2. JudgeColumns => judgedPlan'.of = "columns"
      BY DEF JudgeColumns, JudgePlan
    <3>. QED
      BY <2>1, <3>1, <3>2 DEF MachinePlanIsMaterializable
  <2>2. CASE PlanNext
    BY <2>1, <2>2, ProjectionsMaterialize, RolesMaterialize, MappingsMaterialize DEF PlanNext
  <2>3. CASE UNCHANGED judgedPlan
    BY <2>3 DEF MachinePlanIsMaterializable
  <2>. QED
    BY <2>2, <2>3
<1>. QED
  BY <1>1, <1>2, PTL DEF PlanSpec

-----------------------------------------------------------------------------
(* Materialization: what is stored of a row.                                  *)

StoredRecord == [identity : Seq(Cells), issues : Nat, complete : BOOLEAN, counted : BOOLEAN,
                 passed : BOOLEAN, semantic : SUBSET (STRING \X STRING), index : Nat]

(* What a record says of itself, and that its identity is remembered.        *)
RecordHolds(r) ==
  /\ Cardinality(r.semantic) = r.index
  /\ r.passed = (r.issues = 0)
  /\ r.passed /\ ~r.counted => r.complete
  /\ r.passed /\ using.identity # <<>> => r.identity \in seen

PassedOnce ==
  \A i, j \in DOMAIN records :
    /\ using.identity # <<>> /\ records[i].passed /\ records[j].passed
    /\ records[i].identity = records[j].identity
    => i = j

CompletedIsComplete ==
  execution = "completed" =>
    ~older /\ \A i \in DOMAIN records : records[i].passed /\ records[i].complete

(* The strengthening: there are no records before there is a plan.           *)
StoringInv ==
  /\ execution = "none" => records = <<>>
  /\ execution # "none" => using \in Plans
  /\ using \in Plans \cup {NoPlanYet}
  /\ records \in Seq(StoredRecord)
  /\ \A i \in DOMAIN records : RecordHolds(records[i])
  /\ PassedOnce
  /\ CompletedIsComplete

(* As many keys as values when no two values have the same key.              *)
LEMMA KeysCounted ==
  ASSUME NEW K, NEW V, IsFiniteSet(V), NEW key \in [V -> K],
         \A i, j \in V : key[i] = key[j] => i = j
  PROVE  Cardinality({key[i] : i \in V}) = Cardinality(V)
<1>. DEFINE T == {key[i] : i \in V}
<1>1. key \in Surjection(V, T)
  BY DEF Surjection
<1>2. key \in Injection(V, T)
  BY DEF Injection, IsInjective
<1>. HIDE DEF T
<1>. QED
  BY <1>1, <1>2, FS_Surjection DEF T

LEMMA PlanFields ==
  ASSUME NEW plan \in Plans
  PROVE  /\ plan.mappings \in Seq(MappingShape) /\ plan.identity \in Seq(STRING)
         /\ \A k \in DOMAIN plan.mappings :
              plan.mappings[k].field \in STRING /\ plan.mappings[k].role \in STRING
                /\ plan.mappings[k].column \in Columns
         /\ IsFiniteSet(DOMAIN plan.mappings) /\ DOMAIN plan.mappings \subseteq Nat
         /\ IsFiniteSet(Range(plan.mappings))
<1>1. PlanShape(plan)
  BY MaterializationAssumption
<1>2. plan.mappings \in Seq(MappingShape) /\ plan.identity \in Seq(STRING)
  BY <1>1 DEF PlanShape
<1>3. DOMAIN plan.mappings = 1..Len(plan.mappings) /\ Len(plan.mappings) \in Nat
  BY <1>2
<1>4. IsFiniteSet(DOMAIN plan.mappings)
  BY <1>3, FS_Interval
<1>5. plan.mappings \in Surjection(DOMAIN plan.mappings, Range(plan.mappings))
  <2>1. plan.mappings \in [DOMAIN plan.mappings -> Range(plan.mappings)]
    BY <1>2, <1>3 DEF Range
  <2>2. \A m \in Range(plan.mappings) :
          \E k \in DOMAIN plan.mappings : plan.mappings[k] = m
    BY DEF Range
  <2>. QED
    BY <2>1, <2>2 DEF Surjection
<1>6. IsFiniteSet(Range(plan.mappings))
  BY <1>4, <1>5, FS_Surjection
<1>7. \A k \in DOMAIN plan.mappings : plan.mappings[k] \in MappingShape
  BY <1>2, <1>3
<1>8. \A k \in DOMAIN plan.mappings :
        plan.mappings[k].field \in STRING /\ plan.mappings[k].role \in STRING
          /\ plan.mappings[k].column \in Columns
  BY <1>7 DEF MappingShape
<1>. QED
  BY <1>2, <1>3, <1>4, <1>6, <1>8

(* The input of a record.                                                     *)
LEMMA InputIs ==
  ASSUME NEW plan \in Plans, NEW row \in [Columns -> Cells], ~RecordInput(plan, row).skip
  PROVE  \E mapped \in BOOLEAN : RecordInput(plan, row) = Input(plan, row, mapped)
<1>1. Skipped.skip
  BY DEF Skipped
<1>2. RecordInput(plan, row) = FormInput(plan, row)
        \/ RecordInput(plan, row) = HeaderlessInput(plan, row)
        \/ RecordInput(plan, row) = TableInput(plan, row)
  BY DEF RecordInput
<1>3. RequiredPresent(plan, row) \in BOOLEAN
  BY DEF RequiredPresent
<1>4. (Filled(row) \cap plan.scope \subseteq {m.column : m \in Range(plan.mappings)})
        \in BOOLEAN
  OBVIOUS
<1>5. CASE RecordInput(plan, row) = FormInput(plan, row)
  <2>1. RecordInput(plan, row) = Input(plan, row, RequiredPresent(plan, row))
    BY <1>1, <1>5 DEF FormInput
  <2>. QED
    BY <2>1, <1>3
<1>6. CASE RecordInput(plan, row) = HeaderlessInput(plan, row)
  <2>1. RecordInput(plan, row) = Input(plan, row, RequiredPresent(plan, row))
    BY <1>1, <1>6 DEF HeaderlessInput
  <2>. QED
    BY <2>1, <1>3
<1>7. CASE RecordInput(plan, row) = TableInput(plan, row)
  <2>1. RecordInput(plan, row)
          = Input(plan, row, Filled(row) \cap plan.scope
                               \subseteq {m.column : m \in Range(plan.mappings)})
    BY <1>1, <1>7 DEF TableInput
  <2>. QED
    BY <2>1, <1>4
<1>. QED
  BY <1>2, <1>5, <1>6, <1>7

(* The value of a field in an identity is read from the row.                  *)
LEMMA ValueIsCell ==
  ASSUME NEW plan \in Plans, NEW row \in [Columns -> Cells], NEW input, NEW field,
         input.selected \subseteq DOMAIN plan.mappings
  PROVE  ValueByField(plan, row, input, field) \in Cells
<1>. DEFINE own == ValuesByField(plan, input, field)
<1>1. own \subseteq DOMAIN plan.mappings
  BY DEF ValuesByField
<1>. HIDE DEF own
<1>2. CASE own = {}
  BY <1>2 DEF ValueByField, own, Cells
<1>3. CASE own # {}
  <2>1. DOMAIN plan.mappings = 1..Len(plan.mappings) /\ Len(plan.mappings) \in Nat
    <3>1. plan.mappings \in Seq(MappingShape)
      BY PlanFields
    <3>. QED
      BY <3>1
  <2>2. own \subseteq Nat /\ \A k \in own : k <= Len(plan.mappings)
    BY <1>1, <2>1
  <2>3. Max(own) \in own
    BY <1>3, <2>1, <2>2, MaxIs
  <2>4. plan.mappings[Max(own)].column \in Columns
    BY <1>1, <2>3, PlanFields
  <2>5. row[plan.mappings[Max(own)].column] \in Cells
    BY <2>4
  <2>. QED
    BY <1>3, <2>5 DEF ValueByField, own
<1>. QED
  BY <1>2, <1>3

(* The record of an input: it passed when it has no issue, and then its      *)
(* identity is whole and new.                                                 *)
LEMMA RecordIs ==
  ASSUME NEW plan \in Plans, NEW row \in [Columns -> Cells], NEW mapped \in BOOLEAN,
         NEW input, input = Input(plan, row, mapped),
         ~DuplicateRole(plan, ValuesOf(plan, row, input)),
         NEW record, record = NewRecord(plan, row, input)
  PROVE  /\ record \in StoredRecord
         /\ Cardinality(record.semantic) = record.index
         /\ record.passed = (record.issues = 0)
         /\ record.passed /\ ~record.counted => record.complete
         /\ record.passed => record.identity \notin seen
                               /\ "blank" \notin Range(record.identity)
<1>. DEFINE identity == IdentityOf(plan, row, input)
            incomplete == "blank" \in Range(identity)
            values == ValuesOf(plan, row, input)
            unreadable == input.selected \ values
            missing == input.missing
            bad == incomplete \/ Knows(identity)
            issues == Cardinality(missing) + Cardinality(unreadable) + (IF bad THEN 1 ELSE 0)
            semantic == {Key(plan.mappings[k]) : k \in values}
<1>1. /\ record.identity = identity /\ record.issues = issues
      /\ record.complete = (input.complete /\ unreadable = {})
      /\ record.counted = ~input.complete
      /\ record.passed = (missing = {} /\ unreadable = {} /\ ~incomplete /\ ~Knows(identity))
      /\ record.semantic = semantic /\ record.index = Cardinality(values)
      /\ record = [identity |-> record.identity, issues |-> record.issues,
                   complete |-> record.complete, counted |-> record.counted,
                   passed |-> record.passed, semantic |-> record.semantic,
                   index |-> record.index]
  BY DEF NewRecord
<1>2. /\ input.selected = {k \in DOMAIN plan.mappings : Present(row, plan.mappings[k])}
      /\ input.complete = mapped
      /\ missing = {m.field : m \in {n \in Range(plan.mappings) :
                                       n.required /\ ~Present(row, n)}}
  BY DEF Input
<1>3. values \subseteq input.selected /\ input.selected \subseteq DOMAIN plan.mappings
  BY <1>2 DEF ValuesOf
<1>4. /\ IsFiniteSet(values) /\ IsFiniteSet(unreadable)
      /\ Cardinality(values) \in Nat /\ Cardinality(unreadable) \in Nat
  <2>1. IsFiniteSet(DOMAIN plan.mappings)
    BY PlanFields
  <2>2. values \in SUBSET (DOMAIN plan.mappings) /\ unreadable \in SUBSET (DOMAIN plan.mappings)
    BY <1>3
  <2>. HIDE DEF values, unreadable
  <2>3. IsFiniteSet(values) /\ IsFiniteSet(unreadable)
    BY <2>1, <2>2, FS_Subset
  <2>. QED
    BY <2>3, FS_CardinalityType
<1>5. IsFiniteSet(missing) /\ Cardinality(missing) \in Nat
  <2>. DEFINE wanted == {n \in Range(plan.mappings) : n.required /\ ~Present(row, n)}
              fieldOf == [m \in wanted |-> m.field]
  <2>1. IsFiniteSet(Range(plan.mappings)) /\ wanted \in SUBSET Range(plan.mappings)
    BY PlanFields
  <2>2. missing = {m.field : m \in wanted}
    BY <1>2
  <2>. HIDE DEF wanted, missing
  <2>3. IsFiniteSet(wanted)
    BY <2>1, FS_Subset
  <2>4. fieldOf \in Surjection(wanted, missing)
    BY <2>2 DEF Surjection
  <2>5. IsFiniteSet(missing)
    BY <2>3, <2>4, FS_Surjection
  <2>. QED
    BY <2>5, FS_CardinalityType
<1>6. issues \in Nat /\ (issues = 0 <=> Cardinality(missing) = 0
                                          /\ Cardinality(unreadable) = 0 /\ ~bad)
  <2>. HIDE DEF missing, unreadable, bad
  <2>. QED
    BY <1>4, <1>5
<1>7. issues = 0 <=> missing = {} /\ unreadable = {} /\ ~bad
  <2>. HIDE DEF missing, unreadable, bad, issues
  <2>1. (Cardinality(missing) = 0 <=> missing = {})
          /\ (Cardinality(unreadable) = 0 <=> unreadable = {})
    BY <1>4, <1>5, FS_EmptySet
  <2>. QED
    BY <1>6, <2>1
<1>8. Cardinality(semantic) = Cardinality(values)
  <2>. DEFINE key == [k \in values |-> Key(plan.mappings[k])]
  <2>1. \A i, j \in values : key[i] = key[j] => i = j
    BY DEF DuplicateRole
  <2>2. key \in [values -> semantic]
    OBVIOUS
  <2>3. semantic = {key[k] : k \in values}
    OBVIOUS
  <2>. HIDE DEF key, semantic, values
  <2>4. Cardinality({key[k] : k \in values}) = Cardinality(values)
    BY <1>4, <2>1, <2>2, KeysCounted
  <2>. QED
    BY <2>3, <2>4
<1>9. semantic \subseteq STRING \X STRING
  <2>1. \A k \in values : Key(plan.mappings[k]) \in STRING \X STRING
    <3>. TAKE k \in values
    <3>1. plan.mappings[k].field \in STRING /\ plan.mappings[k].role \in STRING
      BY <1>3, PlanFields
    <3>. QED
      BY <3>1 DEF Key
  <2>. QED
    BY <2>1
<1>10. identity \in Seq(Cells)
  <2>1. plan.identity \in Seq(STRING)
    BY PlanFields
  <2>2. DOMAIN plan.identity = 1..Len(plan.identity) /\ Len(plan.identity) \in Nat
    BY <2>1
  <2>3. \A i \in DOMAIN plan.identity : identity[i] \in Cells
    BY <1>3, ValueIsCell DEF IdentityOf
  <2>4. identity = [i \in 1..Len(plan.identity) |-> identity[i]]
    BY <2>2 DEF IdentityOf
  <2>. HIDE DEF identity
  <2>. QED
    BY <2>2, <2>3, <2>4
<1>11. /\ record.passed = (record.issues = 0)
       /\ record.passed /\ ~record.counted => record.complete
       /\ record.passed => record.identity \notin seen
                             /\ "blank" \notin Range(record.identity)
  <2>. HIDE DEF missing, unreadable, issues, identity
  <2>1. record.passed <=> record.issues = 0
    BY <1>1, <1>7
  <2>2. record.passed \in BOOLEAN
    BY <1>1
  <2>3. record.passed = (record.issues = 0)
    BY <2>1, <2>2
  <2>. QED
    BY <1>1, <2>3 DEF Knows
<1>12. record \in StoredRecord
  <2>1. record.complete \in BOOLEAN /\ record.counted \in BOOLEAN /\ record.passed \in BOOLEAN
    BY <1>1
  <2>2. record.semantic \in SUBSET (STRING \X STRING)
    BY <1>1, <1>9
  <2>3. record.identity \in Seq(Cells) /\ record.issues \in Nat /\ record.index \in Nat
    BY <1>1, <1>4, <1>6, <1>10
  <2>. QED
    BY <1>1, <2>1, <2>2, <2>3 DEF StoredRecord
<1>. QED
  BY <1>1, <1>8, <1>11, <1>12

LEMMA StoringStarts == MaterializationInit => StoringInv
  BY DEF MaterializationInit, StoringInv, PassedOnce, CompletedIsComplete, NoPlanYet

LEMMA StoringStays ==
  ASSUME StoringInv, UNCHANGED <<using, records, seen>>,
         execution' \in {execution, "running"} \/ execution' = execution,
         execution' # "none" => using \in Plans, execution' = "none" => execution = "none",
         older' = older
  PROVE  StoringInv'
  BY DEF StoringInv, PassedOnce, CompletedIsComplete, RecordHolds

LEMMA PlanApproved ==
  ASSUME StoringInv, ApprovePlan PROVE StoringInv'
<1>1. records' = <<>> /\ execution' = "none" /\ using' \in Plans
  BY DEF ApprovePlan, StoringInv
<1>. QED
  BY <1>1 DEF StoringInv, PassedOnce, CompletedIsComplete

LEMMA RecordAdded ==
  ASSUME StoringInv, AddRecord PROVE StoringInv'
<1>1. PICK row \in [Columns -> Cells] :
        LET input == RecordInput(using, row)
            record == NewRecord(using, row, input)
        IN  /\ ReadingRow(row)
            /\ ~input.skip /\ ~DuplicateRole(using, ValuesOf(using, row, input))
            /\ records' = Append(records, record)
            /\ seen' = SeenAfter(using, record)
  BY DEF AddRecord
<1>2. PICK input : input = RecordInput(using, row)
  OBVIOUS
<1>3. PICK record : record = NewRecord(using, row, input)
  OBVIOUS
<1>4. /\ execution = "running" /\ execution' = execution /\ using' = using
      /\ ~input.skip /\ ~DuplicateRole(using, ValuesOf(using, row, input))
      /\ records' = Append(records, record) /\ seen' = SeenAfter(using, record)
  BY <1>1, <1>2, <1>3 DEF ReadingRow
<1>5. using \in Plans
  BY <1>4 DEF StoringInv
<1>6. PICK mapped \in BOOLEAN : input = Input(using, row, mapped)
  BY <1>2, <1>4, <1>5, InputIs
<1>7. /\ record \in StoredRecord
      /\ Cardinality(record.semantic) = record.index
      /\ record.passed = (record.issues = 0)
      /\ record.passed /\ ~record.counted => record.complete
      /\ record.passed => record.identity \notin seen
                            /\ "blank" \notin Range(record.identity)
  BY <1>3, <1>4, <1>5, <1>6, RecordIs
<1>8. /\ records \in Seq(StoredRecord) /\ records' \in Seq(StoredRecord)
      /\ Len(records) \in Nat /\ Len(records') = Len(records) + 1
      /\ records'[Len(records) + 1] = record
      /\ \A i \in 1..Len(records) : records'[i] = records[i]
  BY <1>4, <1>7 DEF StoringInv
<1>9. DOMAIN records = 1..Len(records) /\ DOMAIN records' = 1..Len(records) + 1
  BY <1>8
<1>10. seen \subseteq seen' /\ (record.passed /\ using.identity # <<>> => record.identity \in seen')
  BY <1>4, <1>7 DEF SeenAfter
<1>11. ASSUME NEW i \in DOMAIN records' PROVE RecordHolds(records[i])'
  <2>1. CASE i = Len(records) + 1
    BY <1>4, <1>7, <1>8, <1>10, <2>1 DEF RecordHolds
  <2>2. CASE i \in DOMAIN records
    <3>1. RecordHolds(records[i]) /\ records'[i] = records[i]
      BY <1>8, <1>9, <2>2 DEF StoringInv
    <3>. QED
      BY <1>4, <1>10, <3>1 DEF RecordHolds
  <2>. QED
    BY <1>8, <1>9, <2>1, <2>2
<1>12. PassedOnce'
  <2>1. \A i \in DOMAIN records : records[i].passed /\ using.identity # <<>> =>
                                    records[i].identity \in seen
    BY DEF StoringInv, RecordHolds
  <2>2. \A i \in DOMAIN records :
          ~(/\ using.identity # <<>> /\ records[i].passed /\ record.passed
            /\ records[i].identity = record.identity)
    BY <1>7, <2>1
  <2>. SUFFICES ASSUME NEW i \in DOMAIN records', NEW j \in DOMAIN records',
                       using.identity # <<>>, records'[i].passed, records'[j].passed,
                       records'[i].identity = records'[j].identity
                PROVE  i = j
    BY <1>4 DEF PassedOnce
  <2>3. CASE i \in DOMAIN records /\ j \in DOMAIN records
    BY <1>8, <1>9, <2>3 DEF StoringInv, PassedOnce
  <2>4. CASE i \in DOMAIN records /\ j = Len(records) + 1
    BY <1>8, <1>9, <2>2, <2>4
  <2>5. CASE i = Len(records) + 1 /\ j \in DOMAIN records
    BY <1>8, <1>9, <2>2, <2>5
  <2>6. CASE i = Len(records) + 1 /\ j = Len(records) + 1
    BY <2>6
  <2>. QED
    BY <1>8, <1>9, <2>3, <2>4, <2>5, <2>6
<1>. QED
  BY <1>4, <1>5, <1>8, <1>11, <1>12 DEF StoringInv, CompletedIsComplete

LEMMA PlanFinished ==
  ASSUME StoringInv, FinishPlan PROVE StoringInv'
<1>1. UNCHANGED <<using, records, seen>> /\ older' = FALSE /\ using \in Plans
      /\ execution' \in {"partial", "completed"}
      /\ (execution' = "completed" =>
            \A i \in DOMAIN records : ~(records[i].issues > 0) /\ ~records[i].counted)
  BY DEF FinishPlan, StoringInv
<1>2. CompletedIsComplete'
  <2>. SUFFICES ASSUME execution' = "completed", NEW i \in DOMAIN records
                PROVE  records[i].passed /\ records[i].complete
    BY <1>1 DEF CompletedIsComplete
  <2>1. records[i] \in StoredRecord /\ RecordHolds(records[i])
    BY DEF StoringInv
  <2>2. records[i].issues \in Nat /\ ~(records[i].issues > 0) /\ ~records[i].counted
    BY <1>1, <2>1 DEF StoredRecord
  <2>3. records[i].issues = 0
    BY <2>2
  <2>. QED
    BY <2>1, <2>2, <2>3 DEF RecordHolds
<1>. QED
  BY <1>1, <1>2 DEF StoringInv, PassedOnce, RecordHolds

LEMMA StoringStep ==
  ASSUME StoringInv, [MaterializationNext]_materializationVars PROVE StoringInv'
<1>1. CASE ApprovePlan
  BY <1>1, PlanApproved
<1>2. CASE StartPlan
  BY <1>2, StoringStays DEF StartPlan, StoringInv
<1>3. CASE SkipRow
  BY <1>3, StoringStays DEF SkipRow, ReadingRow, StoringInv
<1>4. CASE AddRecord
  BY <1>4, RecordAdded
<1>5. CASE RaiseOnRow
  BY <1>5 DEF RaiseOnRow, StoringInv, PassedOnce, CompletedIsComplete
<1>6. CASE FinishPlan
  BY <1>6, PlanFinished
<1>7. CASE NormalizeDecimal
  BY <1>7, StoringStays DEF NormalizeDecimal, StoringInv
<1>8. CASE UNCHANGED materializationVars
  BY <1>8, StoringStays DEF materializationVars, StoringInv
<1>. QED
  BY <1>1, <1>2, <1>3, <1>4, <1>5, <1>6, <1>7, <1>8 DEF MaterializationNext

(* Rounding a decimal of hundredths: a stored tenth is rounded to itself.     *)
LEMMA RoundedStays ==
  ASSUME NEW n \in Int
  PROVE  RoundHalfUp(n) \in Int /\ RoundHalfUp(10 * RoundHalfUp(n)) = RoundHalfUp(n)
<1>1. ASSUME NEW s \in Int PROVE RoundHalfUp(10 * s) = s
  BY DEF RoundHalfUp, Magnitude
<1>2. RoundHalfUp(n) \in Int
  BY DEF RoundHalfUp, Magnitude
<1>. QED
  BY <1>1, <1>2

LEMMA FirstNumbers ==
  ASSUME NEW n \in Nat PROVE IsFiniteSet(1..n) /\ Cardinality(1..n) = n
<1>1. 1 \in Int /\ n \in Int
  OBVIOUS
<1>2. IsFiniteSet(1..n) /\ Cardinality(1..n) = IF 1 > n THEN 0 ELSE n - 1 + 1
  BY <1>1, FS_Interval
<1>. QED
  BY <1>2

LEMMA AcceptedFits ==
  ASSUME NEW n \in Int, ~TooLong(n)
  PROVE  Magnitude(RoundHalfUp(n)) < PowersOfTen[IntegerDigits + 1]
<1>. DEFINE stored == Magnitude(RoundHalfUp(n))
            over == {k \in 1..4 : stored >= PowersOfTen[k]}
<1>1. stored \in Nat
  BY DEF RoundHalfUp, Magnitude
<1>2. PowersOfTen[1] = 10 /\ PowersOfTen[2] = 100 /\ PowersOfTen[IntegerDigits + 1] = 100
  BY DEF PowersOfTen, IntegerDigits
<1>3. ~(Cardinality(over) > 1)
  BY DEF TooLong, Digits, IntegerDigits
<1>4. IsFiniteSet(over)
  <2>1. over \in SUBSET (1..4)
    OBVIOUS
  <2>2. IsFiniteSet(1..4)
    <3>. DEFINE four == 4
    <3>1. four \in Nat
      OBVIOUS
    <3>. HIDE DEF four
    <3>2. IsFiniteSet(1..four)
      BY <3>1, FirstNumbers
    <3>. QED
      BY <3>2 DEF four
  <2>. HIDE DEF over
  <2>. QED
    BY <2>1, <2>2, FS_Subset
<1>. SUFFICES ASSUME stored >= 100 PROVE FALSE
  BY <1>1, <1>2
<1>5. 1 \in over /\ 2 \in over
  <2>. HIDE DEF stored
  <2>. QED
    BY <1>1, <1>2
<1>. HIDE DEF over, stored
<1>6. 1..2 \in SUBSET over
  BY <1>5
<1>7. Cardinality(1..2) = 2
  <2>. DEFINE two == 2
  <2>1. two \in Nat
    OBVIOUS
  <2>. HIDE DEF two
  <2>2. Cardinality(1..two) = two
    BY <2>1, FirstNumbers
  <2>. QED
    BY <2>2 DEF two
<1>9. Cardinality(1..2) <= Cardinality(over)
  <2>. DEFINE two == 1..2
  <2>1. two \in SUBSET over
    BY <1>6
  <2>. HIDE DEF two
  <2>2. Cardinality(two) <= Cardinality(over)
    BY <1>4, <2>1, FS_Subset
  <2>. QED
    BY <2>2 DEF two
<1>8. Cardinality(over) \in Nat
  BY <1>4, FS_CardinalityType
<1>. QED
  BY <1>3, <1>7, <1>8, <1>9

DecimalHolds(d) ==
  d.accepted =>
    /\ Magnitude(d.stored) < PowersOfTen[IntegerDigits + 1]
    /\ RoundHalfUp(10 * d.stored) = d.stored

LEMMA NormalizedFits == ASSUME NEW n \in Hundredths PROVE DecimalHolds(NormalizedDecimal(n))
<1>1. n \in Int
  BY DEF Hundredths
<1>2. NormalizedDecimal(n).accepted = ~TooLong(n)
        /\ NormalizedDecimal(n).stored = RoundHalfUp(n)
  BY DEF NormalizedDecimal
<1>3. RoundHalfUp(10 * RoundHalfUp(n)) = RoundHalfUp(n)
  BY <1>1, RoundedStays
<1>4. ~TooLong(n) => Magnitude(RoundHalfUp(n)) < PowersOfTen[IntegerDigits + 1]
  BY <1>1, AcceptedFits
<1>. QED
  BY <1>2, <1>3, <1>4, Zenon DEF DecimalHolds

LEMMA DecimalsFit ==
  ASSUME DecimalFits, [MaterializationNext]_materializationVars PROVE DecimalFits'
<1>1. CASE NormalizeDecimal
  <2>1. DecimalHolds(decimal')
    BY <1>1, NormalizedFits DEF NormalizeDecimal
  <2>. QED
    BY <2>1, Zenon DEF DecimalHolds, DecimalFits
<1>2. CASE UNCHANGED decimal
  BY <1>2 DEF DecimalFits
<1>. QED
  BY <1>1, <1>2 DEF MaterializationNext, materializationVars, ApprovePlan, StartPlan, SkipRow,
     AddRecord, ReadingRow, RaiseOnRow, FinishPlan

LEMMA StoringIsFaithful == StoringInv /\ DecimalFits => StoredValuesAreFaithful
<1>. SUFFICES ASSUME StoringInv PROVE ProjectionsAgree
  BY DEF StoredValuesAreFaithful
<1>. QED
  BY DEF StoringInv, ProjectionsAgree, RecordHolds, PassedOnce, CompletedIsComplete

(* The two projections of every record agree, a record passed when it has no *)
(* issue, no two that passed have the same identity, a completed execution   *)
(* has only such records, and a decimal that is accepted fits, for any plans *)
(* and any number of rows (materialize_plan, _normalized_value).             *)
THEOREM StoringIsSafe == MaterializationSpec => []StoredValuesAreFaithful
<1>1. MaterializationInit => StoringInv /\ DecimalFits
  <2>1. MaterializationInit => DecimalFits
    BY DEF MaterializationInit, DecimalFits, NoDecimal
  <2>. QED
    BY <2>1, StoringStarts
<1>2. StoringInv /\ DecimalFits /\ [MaterializationNext]_materializationVars
        => StoringInv' /\ DecimalFits'
  BY StoringStep, DecimalsFit
<1>. QED
  BY <1>1, <1>2, StoringIsFaithful, PTL DEF MaterializationSpec

-----------------------------------------------------------------------------
(* Matching: the greatest of two, and the score of a column.                  *)

LEMMA OfTwo ==
  ASSUME NEW a \in Int, NEW b \in Int
  PROVE  /\ Max({a, b}) = IF a >= b THEN a ELSE b
         /\ Min({a, b}) = IF a <= b THEN a ELSE b
<1>1. \E x \in {a, b} : \A y \in {a, b} : x >= y
  OBVIOUS
<1>2. Max({a, b}) \in {a, b} /\ \A y \in {a, b} : Max({a, b}) >= y
  BY <1>1 DEF Max
<1>3. \E x \in {a, b} : \A y \in {a, b} : x =< y
  OBVIOUS
<1>4. Min({a, b}) \in {a, b} /\ \A y \in {a, b} : Min({a, b}) =< y
  BY <1>3 DEF Min
<1>. HIDE DEF Max, Min
<1>. QED
  BY <1>2, <1>4

FullShare == 10000  \* all of the basis points

(* The threshold of a label that is not the whole path leaves no slack.      *)
LEMMA ScoreIs ==
  ASSUME NEW e \in Evidence
  PROVE  /\ Score(e) \in Nat /\ Score(e) <= FullShare
         /\ e.label \in {"leaf", "base"} /\ Score(e) >= FIELD_DIRECT_REUSE_THRESHOLD =>
              e.type /\ e.context /\ e.role = "agrees" /\ Score(e) = 8500
<1>. DEFINE known == LabelScore[e.label] + (IF e.type THEN 1000 ELSE 0)
                       + (IF e.context THEN 2000 ELSE 0)
            asRole == CASE e.role = "agrees"   -> known + 1000
                        [] e.role = "open"     -> IF known > 0 THEN known + 500 ELSE 0
                        [] e.role = "conflict" -> Max({known - 1000, 0})
                        [] OTHER               -> known
<1>1. e.label \in {"path", "leaf", "base", "overlap", "none"}
        /\ e.role \in {"unsaid", "agrees", "open", "conflict"}
        /\ e.type \in BOOLEAN /\ e.context \in BOOLEAN
  BY DEF Evidence
<1>2. LabelScore["path"] = 7000 /\ LabelScore["leaf"] = 4500 /\ LabelScore["base"] = 4500
        /\ LabelScore["overlap"] = 3500 /\ LabelScore["none"] = 0
  BY DEF LabelScore
<1>13. LabelScore[e.label] \in Int
        /\ 0 <= LabelScore[e.label] /\ LabelScore[e.label] <= 7000
        /\ (e.label \in {"leaf", "base"} => LabelScore[e.label] = 4500)
  BY <1>1, <1>2
<1>3. known \in Int /\ 0 <= known /\ known <= 10000
  <2>. DEFINE l == LabelScore[e.label]
  <2>1. l \in Int /\ 0 <= l /\ l <= 7000
    BY <1>13
  <2>. HIDE DEF l
  <2>2. known = l + (IF e.type THEN 1000 ELSE 0) + (IF e.context THEN 2000 ELSE 0)
    BY DEF l
  <2>. HIDE DEF known
  <2>. QED
    BY <2>1, <2>2
<1>4. e.label \in {"leaf", "base"} =>
        known <= 7500 /\ (known >= 7500 => e.type /\ e.context)
  BY <1>1, <1>13
<1>. HIDE DEF known
<1>5. Max({known - 1000, 0}) = IF known - 1000 >= 0 THEN known - 1000 ELSE 0
  <2>1. known - 1000 \in Int /\ 0 \in Int
    BY <1>3
  <2>. QED
    BY <2>1, OfTwo
<1>6. /\ e.role = "agrees" => asRole = known + 1000
      /\ e.role = "open" /\ known > 0 => asRole = known + 500
      /\ e.role = "open" /\ ~(known > 0) => asRole = 0
      /\ e.role = "conflict" /\ known - 1000 >= 0 => asRole = known - 1000
      /\ e.role = "conflict" /\ ~(known - 1000 >= 0) => asRole = 0
      /\ e.role = "unsaid" => asRole = known
  BY <1>5
<1>. HIDE DEF asRole
<1>7. asRole \in Int /\ 0 <= asRole /\ asRole <= 11000
  <2>1. CASE e.role = "agrees"
    BY <1>3, <1>6, <2>1
  <2>2. CASE e.role = "open"
    BY <1>3, <1>6, <2>2
  <2>3. CASE e.role = "conflict"
    BY <1>3, <1>6, <2>3
  <2>4. CASE e.role = "unsaid"
    BY <1>3, <1>6, <2>4
  <2>. QED
    BY <1>1, <2>1, <2>2, <2>3, <2>4
<1>8. Score(e) = IF asRole <= 10000 THEN asRole ELSE 10000
  <2>1. Score(e) = Min({asRole, 10000})
    BY DEF Score, asRole, known
  <2>2. asRole \in Int /\ 10000 \in Int
    BY <1>7
  <2>3. Min({asRole, 10000}) = IF asRole <= 10000 THEN asRole ELSE 10000
    BY <2>2, OfTwo
  <2>. QED
    BY <2>1, <2>3
<1>9. Score(e) \in Nat /\ Score(e) <= FullShare
  BY <1>7, <1>8 DEF FullShare
<1>10. ASSUME e.label \in {"leaf", "base"}, Score(e) >= 8500
       PROVE  e.type /\ e.context /\ e.role = "agrees" /\ Score(e) = 8500
  <2>1. known <= 7500 /\ asRole >= 8500
    BY <1>4, <1>7, <1>8, <1>10
  <2>2. e.role = "agrees"
    BY <1>1, <1>3, <1>6, <2>1
  <2>3. asRole = known + 1000
    BY <1>6, <2>2
  <2>4. known = 7500 /\ asRole = 8500
    BY <1>3, <2>1, <2>3
  <2>. QED
    BY <1>4, <1>8, <1>10, <2>2, <2>4
<1>. QED
  BY <1>9, <1>10 DEF FIELD_DIRECT_REUSE_THRESHOLD

(* A share of slots says that all of them are matched just when they are.     *)
LEMMA Shares ==
  ASSUME NEW part \in Nat, NEW total \in Nat \ {0}, part <= total
  PROVE  /\ Share(part, total) \in Nat /\ Share(part, total) <= FullShare
         /\ part = total => Share(part, total) = FullShare
         /\ part < total /\ total < SlotsTold => Share(part, total) < FullShare
<1>. DEFINE down == (10000 * part) \div total
            twice == 2 * (10000 * part - down * total)
<1>1. /\ down \in Nat /\ down * total \in Nat
      /\ down * total <= 10000 * part /\ 10000 * part < down * total + total
  OBVIOUS
<1>2. Share(part, total) = IF twice > total \/ (twice = total /\ down % 2 = 1)
                             THEN down + 1 ELSE down
  BY DEF Share
<1>. HIDE DEF down
<1>3. twice \in Int /\ twice = 2 * (10000 * part) - 2 * (down * total)
  BY <1>1
<1>4. down <= 10000
  BY <1>1
<1>5. part = total => down = 10000
  BY <1>1
<1>6. part < total => down <= 9999
  BY <1>1
<1>7. down = 9999 /\ part < total => twice <= 2 * total - 20000
  BY <1>1, <1>3
<1>8. part = total => twice = 0
  BY <1>3, <1>5
<1>. HIDE DEF twice
<1>. QED
  BY <1>1, <1>2, <1>3, <1>4, <1>5, <1>6, <1>7, <1>8 DEF SlotsTold, FullShare

(* The other fields of a column: none scores more than the second.            *)
LEMMA SecondIs ==
  ASSUME NEW evidence \in [Fields -> Evidence], NEW f \in Fields
  PROVE  /\ Second(evidence, f) \in Nat
         /\ \A g \in Fields \ {f} : Score(evidence[g]) \in Nat
                                   /\ Score(evidence[g]) <= Second(evidence, f)
<1>. DEFINE scores == {Score(evidence[g]) : g \in Fields \ {f}} \cup {0}
<1>1. \A g \in Fields : Score(evidence[g]) \in Nat /\ Score(evidence[g]) <= FullShare
  BY ScoreIs
<1>2. FullShare \in Nat
  BY DEF FullShare
<1>3. scores \subseteq Nat /\ scores # {} /\ \A x \in scores : x <= FullShare
  BY <1>1, <1>2
<1>4. \A g \in Fields \ {f} : Score(evidence[g]) \in scores
  OBVIOUS
<1>. HIDE DEF scores
<1>5. Max(scores) \in scores /\ \A x \in scores : x <= Max(scores)
  BY <1>2, <1>3, MaxIs
<1>6. Second(evidence, f) = Max(scores)
  BY DEF Second, scores
<1>. QED
  BY <1>1, <1>3, <1>4, <1>5, <1>6

LEMMA ReuseIsUnanimous ==
  ASSUME NEW evidence \in [Fields -> Evidence], NEW observed \in BOOLEAN, NEW f \in Fields,
         ReuseWithoutHermes(observed, evidence, f), evidence[f].label \in {"leaf", "base"}
  PROVE  /\ evidence[f].type /\ evidence[f].context /\ evidence[f].role = "agrees"
         /\ \A g \in Fields \ {f} : Score(evidence[g]) <= 7000
<1>1. /\ Leaders(evidence) = {f}
      /\ Top(evidence) >= FIELD_DIRECT_REUSE_THRESHOLD
      /\ Top(evidence) - Second(evidence, f) >= FIELD_DIRECT_REUSE_MARGIN
  BY DEF ReuseWithoutHermes
<1>2. Score(evidence[f]) = Top(evidence)
  BY <1>1 DEF Leaders
<1>3. evidence[f] \in Evidence
  OBVIOUS
<1>4. /\ evidence[f].type /\ evidence[f].context /\ evidence[f].role = "agrees"
      /\ Score(evidence[f]) = 8500
  BY <1>1, <1>2, <1>3, ScoreIs
<1>5. Second(evidence, f) \in Nat
      /\ \A g \in Fields \ {f} : Score(evidence[g]) \in Nat
                                /\ Score(evidence[g]) <= Second(evidence, f)
  BY SecondIs
<1>6. Second(evidence, f) <= 7000
  BY <1>1, <1>2, <1>4, <1>5 DEF FIELD_DIRECT_REUSE_MARGIN
<1>. QED
  BY <1>4, <1>5, <1>6

Unanimous(e, reused) ==
  \A f \in reused :
    e[f].label \in {"leaf", "base"} =>
      /\ e[f].type /\ e[f].context /\ e[f].role = "agrees"
      /\ \A g \in Fields \ {f} : Score(e[g]) <= 7000

LEMMA ColumnReuse ==
  ASSUME MatchColumn PROVE AliasReuseIsUnanimous'
<1>1. PICK c : /\ c.evidence \in [Fields -> Evidence] /\ c.observed \in BOOLEAN
               /\ column' = [of |-> "one", seen |-> c, values |-> FieldMatchValues(c)]
  <2>. DEFINE Exactly == [named: {TRUE}, ignoredInRegion: {FALSE}, corpus: {FALSE},
               ignoreRule: {FALSE}, observed: BOOLEAN, holder: {"none"},
               exact: {FALSE}, claims: [{"id", "path", "offset"} -> {0}],
               ordinal: {FALSE}, evidence: [Fields -> Evidence]]
              Held == [named: BOOLEAN, ignoredInRegion: BOOLEAN, corpus: BOOLEAN,
                ignoreRule: BOOLEAN, observed: {TRUE}, holder: {"region", "legacy"},
                exact: BOOLEAN, claims: [{"id", "path", "offset"} -> 0..2],
                ordinal: BOOLEAN,
                evidence: [Fields -> {[label |-> "none", type |-> FALSE,
                                       context |-> FALSE, role |-> "unsaid"]}]]
  <2>1. PICK c \in Exactly \cup Held :
          column' = [of |-> "one", seen |-> c, values |-> FieldMatchValues(c)]
    BY Zenon DEF MatchColumn
  <2>2. [label |-> "none", type |-> FALSE, context |-> FALSE, role |-> "unsaid"] \in Evidence
    BY DEF Evidence
  <2>3. c \in Exactly => c.evidence \in [Fields -> Evidence] /\ c.observed \in BOOLEAN
    OBVIOUS
  <2>4. c \in Held => c.evidence \in [Fields -> Evidence] /\ c.observed \in BOOLEAN
    BY <2>2
  <2>. HIDE DEF Exactly, Held
  <2>. QED
    BY <2>1, <2>3, <2>4
<1>. DEFINE reused == {f \in Fields : ReuseWithoutHermes(c.observed, c.evidence, f)}
<1>. DEFINE v == FieldMatchValues(c)
<1>2. v.field = {} \/ (reused # {} /\ v.field = {CHOOSE f \in reused : TRUE})
  <2>1. \A by : Decided(by).field = {}
    BY DEF Decided
  <2>2. Undecided.field = {} /\ \A f : Reused(f).field = {f}
    BY DEF Undecided, Reused
  <2>3. CASE ~c.named
    <3>1. v = Decided("unnamed")
      BY <2>3 DEF FieldMatchValues
    <3>. QED
      BY <2>1, <3>1
  <2>4. CASE c.named /\ c.ignoredInRegion
    <3>1. v = Decided("region_ignores")
      BY <2>4 DEF FieldMatchValues
    <3>. QED
      BY <2>1, <3>1
  <2>5. CASE c.named /\ ~c.ignoredInRegion /\ Direct(c) # "none"
    BY <2>1, <2>5 DEF FieldMatchValues
  <2>6. CASE c.named /\ ~c.ignoredInRegion /\ Direct(c) = "none"
    <3>1. v = IF c.corpus THEN Decided("corpus_projection")
              ELSE IF c.ignoreRule THEN Decided("ignore_rule")
              ELSE IF reused # {} THEN Reused(CHOOSE f \in reused : TRUE)
              ELSE Undecided
      BY <2>6 DEF FieldMatchValues
    <3>. HIDE DEF reused, v
    <3>2. CASE c.corpus
      BY <2>1, <3>1, <3>2
    <3>3. CASE ~c.corpus /\ c.ignoreRule
      BY <2>1, <3>1, <3>3
    <3>4. CASE ~c.corpus /\ ~c.ignoreRule /\ reused # {}
      BY <2>2, <3>1, <3>4
    <3>5. CASE ~c.corpus /\ ~c.ignoreRule /\ reused = {}
      BY <2>2, <3>1, <3>5
    <3>. QED
      BY <3>2, <3>3, <3>4, <3>5
  <2>. QED
    BY <2>3, <2>4, <2>5, <2>6
<1>. HIDE DEF reused
<1>3. \A f \in v.field : f \in reused
  BY <1>2
<1>4. column'.seen.evidence = c.evidence /\ column'.values.field = v.field
  BY <1>1
<1>. HIDE DEF v
<1>5. ASSUME NEW f \in v.field, c.evidence[f].label \in {"leaf", "base"}
      PROVE  /\ c.evidence[f].type /\ c.evidence[f].context /\ c.evidence[f].role = "agrees"
             /\ \A g \in Fields \ {f} : Score(c.evidence[g]) <= 7000
  <2>1. f \in Fields /\ ReuseWithoutHermes(c.observed, c.evidence, f)
    BY <1>3 DEF reused
  <2>. QED
    BY <1>1, <1>5, <2>1, ReuseIsUnanimous
<1>6. \A f \in v.field : c.evidence[f].label \in {"leaf", "base"} =>
        /\ c.evidence[f].type /\ c.evidence[f].context /\ c.evidence[f].role = "agrees"
        /\ \A g \in Fields \ {f} : Score(c.evidence[g]) <= 7000
  BY <1>5
<1>7. Unanimous(c.evidence, v.field)
  BY <1>6 DEF Unanimous
<1>8. Unanimous(column'.seen.evidence, column'.values.field)
  BY <1>4, <1>7
<1>. QED
  BY <1>8, ZenonT(60) DEF AliasReuseIsUnanimous, Unanimous

-----------------------------------------------------------------------------
(* Slots and sources: how often a version is among the places of a sequence.  *)

Among(places, f, v) == Cardinality({i \in places : f[i] = v})

LEMMA AmongIs ==
  ASSUME NEW places, IsFiniteSet(places), NEW f, NEW v
  PROVE  /\ Among(places, f, v) \in Nat
         /\ (\E i \in places : f[i] = v) <=> Among(places, f, v) > 0
         /\ \A i \in places :
              IsFiniteSet(places \ {i})
                /\ Among(places \ {i}, f, v) = Among(places, f, v) - (IF f[i] = v THEN 1 ELSE 0)
<1>. DEFINE those == {i \in places : f[i] = v}
<1>1. those \in SUBSET places
  OBVIOUS
<1>2. IsFiniteSet(those) /\ Among(places, f, v) = Cardinality(those)
  <2>. HIDE DEF those
  <2>1. IsFiniteSet(those)
    BY <1>1, FS_Subset
  <2>. QED
    BY <2>1 DEF Among, those
<1>3. Cardinality(those) \in Nat /\ (Cardinality(those) = 0 <=> those = {})
  BY <1>2, FS_CardinalityType, FS_EmptySet
<1>4. ASSUME NEW i \in places
      PROVE  /\ IsFiniteSet(places \ {i})
             /\ Among(places \ {i}, f, v) = Among(places, f, v) - (IF f[i] = v THEN 1 ELSE 0)
  <2>1. IsFiniteSet(places \ {i})
    BY FS_RemoveElement
  <2>2. Among(places \ {i}, f, v) = Cardinality(those \ {i})
    <3>1. {j \in places \ {i} : f[j] = v} = those \ {i}
      OBVIOUS
    <3>. QED
      BY <3>1 DEF Among
  <2>3. Cardinality(those \ {i})
          = IF i \in those THEN Cardinality(those) - 1 ELSE Cardinality(those)
    <3>. HIDE DEF those
    <3>. QED
      BY <1>2, FS_RemoveElement
  <2>4. i \in those <=> f[i] = v
    OBVIOUS
  <2>. HIDE DEF those
  <2>. QED
    BY <1>2, <1>3, <2>1, <2>2, <2>3, <2>4
<1>. QED
  BY <1>2, <1>3, <1>4

LEMMA AmongLess ==
  ASSUME NEW places, IsFiniteSet(places), NEW f, NEW v, NEW i \in places
  PROVE  Among(places \ {i}, f, v) = Among(places, f, v) - (IF f[i] = v THEN 1 ELSE 0)
  BY AmongIs

(* The first n places of a sequence, one after the other.                     *)
LEMMA AmongFirst ==
  ASSUME NEW N \in Nat, NEW f, NEW v
  PROVE  /\ Among(1..0, f, v) = 0
         /\ \A n \in 1..N :
              Among(1..n, f, v) = Among(1..n - 1, f, v) + (IF f[n] = v THEN 1 ELSE 0)
         /\ \A n \in 0..N : Among(1..n, f, v) \in Nat
                              /\ Among(1..n, f, v) <= Among(1..N, f, v)
<1>1. ASSUME NEW n \in 0..N
      PROVE  /\ IsFiniteSet(1..n) /\ Among(1..n, f, v) \in Nat
             /\ Among(1..n, f, v) <= Among(1..N, f, v)
  <2>1. IsFiniteSet(1..n) /\ IsFiniteSet(1..N)
    BY FirstNumbers
  <2>. DEFINE some == {i \in 1..n : f[i] = v}
              all == {i \in 1..N : f[i] = v}
  <2>2. some \in SUBSET all /\ all \in SUBSET (1..N)
    OBVIOUS
  <2>. HIDE DEF some, all
  <2>3. IsFiniteSet(all)
    BY <2>1, <2>2, FS_Subset
  <2>4. Cardinality(some) <= Cardinality(all)
    BY <2>2, <2>3, FS_Subset
  <2>5. Among(1..n, f, v) = Cardinality(some) /\ Among(1..N, f, v) = Cardinality(all)
    BY DEF Among, some, all
  <2>6. IsFiniteSet(some) /\ Cardinality(some) \in Nat
    BY <2>2, <2>3, FS_Subset, FS_CardinalityType
  <2>. QED
    BY <2>1, <2>4, <2>5, <2>6
<1>2. ASSUME NEW n \in 1..N
      PROVE  Among(1..n, f, v) = Among(1..n - 1, f, v) + (IF f[n] = v THEN 1 ELSE 0)
  <2>1. n \in 0..N /\ n - 1 \in 0..N /\ n \in 1..n /\ (1..n) \ {n} = 1..n - 1
    OBVIOUS
  <2>2. IsFiniteSet(1..n) /\ Among(1..n, f, v) \in Nat /\ Among(1..n - 1, f, v) \in Nat
    BY <1>1, <2>1
  <2>3. Among((1..n) \ {n}, f, v) = Among(1..n, f, v) - (IF f[n] = v THEN 1 ELSE 0)
    <3>. DEFINE first == 1..n
    <3>1. IsFiniteSet(first) /\ n \in first
      BY <2>1, <2>2
    <3>. HIDE DEF first
    <3>2. Among(first \ {n}, f, v) = Among(first, f, v) - (IF f[n] = v THEN 1 ELSE 0)
      BY <3>1, AmongIs
    <3>. QED
      BY <3>2 DEF first
  <2>4. Among(1..n - 1, f, v) = Among(1..n, f, v) - (IF f[n] = v THEN 1 ELSE 0)
    BY <2>1, <2>3
  <2>. QED
    BY <2>2, <2>4
<1>3. Among(1..0, f, v) = 0
  <2>1. {i \in 1..0 : f[i] = v} = {}
    OBVIOUS
  <2>. QED
    BY <2>1, FS_EmptySet DEF Among
<1>. QED
  BY <1>1, <1>2, <1>3

CoverState(D) == [matched : Nat, rest : SUBSET D]

(* A slot takes a source of its version, if one is left.                      *)
NoneLeft(found, slot, sources) == \A i \in found.rest : sources[i] # slot
Takes(found, slot, sources, after) ==
  \E i \in found.rest :
    /\ sources[i] = slot
    /\ after = [matched |-> found.matched + 1, rest |-> found.rest \ {i}]

LEMMA SlotTaken ==
  ASSUME NEW D, D \subseteq Nat, NEW sources, NEW slot, NEW found \in CoverState(D)
  PROVE  /\ TakeSlot(found, slot, sources) \in CoverState(D)
         /\ \/ /\ NoneLeft(found, slot, sources)
               /\ TakeSlot(found, slot, sources) = found
            \/ Takes(found, slot, sources, TakeSlot(found, slot, sources))
<1>. DEFINE own == {i \in found.rest : sources[i] = slot}
<1>1. found.matched \in Nat /\ found.rest \subseteq D
  BY DEF CoverState
<1>2. CASE own = {}
  BY <1>2 DEF TakeSlot, NoneLeft
<1>3. CASE own # {}
  <2>1. own \subseteq Nat
    BY <1>1
  <2>2. Min(own) \in own
    <3>. HIDE DEF own
    <3>. QED
      BY <1>3, <2>1, MinIs
  <2>3. TakeSlot(found, slot, sources)
          = [matched |-> found.matched + 1, rest |-> found.rest \ {Min(own)}]
    BY <1>3 DEF TakeSlot
  <2>4. Min(own) \in found.rest /\ sources[Min(own)] = slot
    BY <2>2
  <2>5. [matched |-> found.matched + 1, rest |-> found.rest \ {Min(own)}] \in CoverState(D)
    BY <1>1 DEF CoverState
  <2>. HIDE DEF own
  <2>6. Takes(found, slot, sources, TakeSlot(found, slot, sources))
    BY <2>3, <2>4 DEF Takes
  <2>. QED
    BY <2>3, <2>5, <2>6
<1>. QED
  BY <1>2, <1>3

(* The slots taken one after the other.                                       *)
Covers(h, slots, sources) ==
  /\ h \in [0..Len(slots) -> CoverState(DOMAIN sources)]
  /\ h[0] = [matched |-> 0, rest |-> DOMAIN sources]
  /\ \A n \in 1..Len(slots) : h[n] = TakeSlot(h[n - 1], slots[n], sources)
  /\ SlotCoverage(slots, sources) = h[Len(slots)]

LEMMA CoverageIs ==
  ASSUME NEW slots, Len(slots) \in Nat, NEW sources, DOMAIN sources \subseteq Nat
  PROVE  \E h : Covers(h, slots, sources)
<1>. DEFINE N == Len(slots)
            S == CoverState(DOMAIN sources)
            first == [matched |-> 0, rest |-> DOMAIN sources]
            next == [n \in 1..N |-> [s \in S |-> TakeSlot(s, slots[n], sources)]]
            found[n \in 0..Len(slots)] ==
              IF n = 0 THEN first ELSE TakeSlot(found[n - 1], slots[n], sources)
<1>1. first \in S
  BY DEF CoverState
<1>2. next \in [1..N -> [S -> S]]
  <2>1. \A n \in 1..N, s \in S : TakeSlot(s, slots[n], sources) \in S
    BY SlotTaken
  <2>. HIDE DEF S
  <2>. QED
    BY <2>1
<1>3. PICK h : Computes(h, N, S, first, next)
  <2>. HIDE DEF S, first, next
  <2>. QED
    BY <1>1, <1>2, StepByStep
<1>4. h \in [0..N -> S] /\ h[0] = first
        /\ \A n \in 1..N : h[n] = TakeSlot(h[n - 1], slots[n], sources)
  <2>1. h \in [0..N -> S] /\ h[0] = first /\ \A n \in 1..N : h[n] = next[n][h[n - 1]]
    BY <1>3 DEF Computes
  <2>. HIDE DEF S
  <2>2. \A n \in 1..N : h[n - 1] \in S
    BY <2>1
  <2>. QED
    BY <2>1, <2>2
<1>. HIDE DEF first, next, S
<1>5. h = [n \in 0..N |-> IF n = 0 THEN first ELSE TakeSlot(h[n - 1], slots[n], sources)]
  <2>1. ASSUME NEW n \in 0..N, n # 0
        PROVE  h[n] = TakeSlot(h[n - 1], slots[n], sources)
    <3>1. n \in 1..N
      BY <2>1
    <3>. QED
      BY <1>4, <3>1
  <2>. QED
    BY <1>4, <2>1
<1>6. found = [n \in 0..N |->
                 IF n = 0 THEN first ELSE TakeSlot(found[n - 1], slots[n], sources)]
  BY <1>5
<1>. HIDE DEF found
<1>7. found \in [0..N -> S] /\ found[0] = first
        /\ \A n \in 1..N : found[n] = TakeSlot(found[n - 1], slots[n], sources)
  <2>1. found[0] = first /\ \A n \in 1..N : found[n] = TakeSlot(found[n - 1], slots[n], sources)
    BY <1>6
  <2>. DEFINE P == {n \in 0..N : found[n] \in S}
  <2>2. 0 \in P
    BY <1>1, <2>1
  <2>3. \A n \in 1..N : n - 1 \in P => n \in P
    <3>. TAKE n \in 1..N
    <3>1. found[n - 1] \in S => found[n] \in S
      BY <2>1, SlotTaken DEF S
    <3>. QED
      BY <3>1
  <2>4. \A n \in 0..N : n \in P
    <3>. HIDE DEF P
    <3>. QED
      BY <2>2, <2>3, CountingUp
  <2>. QED
    BY <1>6, <2>1, <2>4
<1>8. SlotCoverage(slots, sources) = found[N]
  BY DEF SlotCoverage, found, first
<1>9. Covers(found, slots, sources)
  BY <1>7, <1>8 DEF Covers, S, first
<1>. QED
  BY <1>9

(* The slots n - 1 and n, and what is left of the sources.                    *)
LeftAfter(before, after, slot, sources) ==
  \A v : Among(after.rest, sources, v)
          = Among(before.rest, sources, v) - (IF slot = v THEN 1 ELSE 0)

LEMMA CoverStep ==
  ASSUME NEW slots, Len(slots) \in Nat, NEW sources, IsFiniteSet(DOMAIN sources),
         DOMAIN sources \subseteq Nat, NEW h, Covers(h, slots, sources),
         NEW n \in 1..Len(slots)
  PROVE  /\ h[n - 1] \in CoverState(DOMAIN sources) /\ h[n] \in CoverState(DOMAIN sources)
         /\ IsFiniteSet(h[n - 1].rest)
         /\ \/ h[n] = h[n - 1] /\ Among(h[n - 1].rest, sources, slots[n]) = 0
            \/ /\ h[n].matched = h[n - 1].matched + 1
               /\ LeftAfter(h[n - 1], h[n], slots[n], sources)
<1>1. /\ h[n - 1] \in CoverState(DOMAIN sources) /\ h[n] \in CoverState(DOMAIN sources)
      /\ h[n] = TakeSlot(h[n - 1], slots[n], sources)
  BY DEF Covers
<1>2. h[n - 1].rest \in SUBSET DOMAIN sources
  BY <1>1 DEF CoverState
<1>3. IsFiniteSet(h[n - 1].rest)
  BY <1>2, FS_Subset
<1>4. CASE NoneLeft(h[n - 1], slots[n], sources) /\ h[n] = h[n - 1]
  <2>1. Among(h[n - 1].rest, sources, slots[n]) \in Nat
          /\ ~(Among(h[n - 1].rest, sources, slots[n]) > 0)
    BY <1>3, <1>4, AmongIs DEF NoneLeft
  <2>. QED
    BY <1>1, <1>3, <1>4, <2>1
<1>5. CASE Takes(h[n - 1], slots[n], sources, h[n])
  <2>1. PICK i \in h[n - 1].rest :
          /\ sources[i] = slots[n]
          /\ h[n] = [matched |-> h[n - 1].matched + 1, rest |-> h[n - 1].rest \ {i}]
    BY <1>5 DEF Takes
  <2>2. h[n].matched = h[n - 1].matched + 1 /\ h[n].rest = h[n - 1].rest \ {i}
    BY <2>1
  <2>3. ASSUME NEW v
        PROVE  Among(h[n].rest, sources, v)
                 = Among(h[n - 1].rest, sources, v) - (IF slots[n] = v THEN 1 ELSE 0)
    <3>. DEFINE left == h[n - 1].rest
    <3>1. IsFiniteSet(left) /\ i \in left
      BY <1>3
    <3>. HIDE DEF left
    <3>2. Among(left \ {i}, sources, v)
            = Among(left, sources, v) - (IF sources[i] = v THEN 1 ELSE 0)
      BY <3>1, AmongLess
    <3>3. h[n].rest = left \ {i} /\ left = h[n - 1].rest
      BY <2>2 DEF left
    <3>. QED
      BY <2>1, <3>2, <3>3, Zenon
  <2>4. LeftAfter(h[n - 1], h[n], slots[n], sources)
    BY <2>3 DEF LeftAfter
  <2>. QED
    BY <1>1, <1>3, <2>2, <2>4
<1>. QED
  BY <1>1, <1>4, <1>5, SlotTaken

(* As long as every slot is matched, what was taken of a version is what the *)
(* slots so far have of it.                                                   *)
TakenAt(before, n, slots, sources, v) ==
  /\ before.matched \in Nat /\ before.matched <= n
  /\ before.matched = n =>
       Among(before.rest, sources, v)
         = Among(DOMAIN sources, sources, v) - Among(1..n, slots, v)

LEMMA TakenNext ==
  ASSUME NEW slots, Len(slots) \in Nat, NEW sources, IsFiniteSet(DOMAIN sources),
         DOMAIN sources \subseteq Nat, NEW h, Covers(h, slots, sources), NEW v,
         NEW n \in 1..Len(slots), TakenAt(h[n - 1], n - 1, slots, sources, v)
  PROVE  TakenAt(h[n], n, slots, sources, v)
<1>1. /\ h[n - 1].matched \in Nat /\ h[n - 1].matched <= n - 1
      /\ h[n - 1].matched = n - 1 =>
           Among(h[n - 1].rest, sources, v)
             = Among(DOMAIN sources, sources, v) - Among(1..n - 1, slots, v)
  BY DEF TakenAt
<1>2. h[n] = h[n - 1] \/ (/\ h[n].matched = h[n - 1].matched + 1
                         /\ LeftAfter(h[n - 1], h[n], slots[n], sources))
  BY CoverStep
<1>3. Among(1..n, slots, v) = Among(1..n - 1, slots, v) + (IF slots[n] = v THEN 1 ELSE 0)
  BY AmongFirst
<1>4. Among(1..n - 1, slots, v) \in Nat
  <2>1. n - 1 \in 0..Len(slots)
    OBVIOUS
  <2>. QED
    BY <2>1, AmongFirst
<1>5. Among(DOMAIN sources, sources, v) \in Nat
  BY AmongIs
<1>6. CASE h[n] = h[n - 1]
  BY <1>1, <1>6 DEF TakenAt
<1>7. CASE h[n].matched = h[n - 1].matched + 1 /\ LeftAfter(h[n - 1], h[n], slots[n], sources)
  <2>1. Among(h[n].rest, sources, v)
          = Among(h[n - 1].rest, sources, v) - (IF slots[n] = v THEN 1 ELSE 0)
    BY <1>7 DEF LeftAfter
  <2>2. h[n].matched = n => h[n - 1].matched = n - 1
    BY <1>1, <1>7
  <2>3. h[n].matched \in Nat /\ h[n].matched <= n
    BY <1>1, <1>7
  <2>4. ASSUME h[n].matched = n
        PROVE  Among(h[n].rest, sources, v)
                 = Among(DOMAIN sources, sources, v) - Among(1..n, slots, v)
    <3>1. Among(h[n - 1].rest, sources, v)
            = Among(DOMAIN sources, sources, v) - Among(1..n - 1, slots, v)
      BY <1>1, <2>2, <2>4
    <3>. DEFINE a == Among(h[n].rest, sources, v)
                b == Among(h[n - 1].rest, sources, v)
                c == Among(DOMAIN sources, sources, v)
                d == Among(1..n - 1, slots, v)
                e == Among(1..n, slots, v)
                x == IF slots[n] = v THEN 1 ELSE 0
    <3>2. b = c - d /\ e = d + x /\ a = b - x /\ c \in Nat /\ d \in Nat /\ x \in Nat
      BY <1>3, <1>4, <1>5, <2>1, <3>1
    <3>. HIDE DEF a, b, c, d, e, x
    <3>3. a = c - e
      BY <3>2
    <3>. QED
      BY <3>3 DEF a, c, e
  <2>. QED
    BY <2>3, <2>4 DEF TakenAt
<1>. QED
  BY <1>2, <1>6, <1>7

LEMMA TakenSoFar ==
  ASSUME NEW slots, Len(slots) \in Nat, NEW sources, IsFiniteSet(DOMAIN sources),
         DOMAIN sources \subseteq Nat, NEW h, Covers(h, slots, sources), NEW v
  PROVE  \A n \in 0..Len(slots) : TakenAt(h[n], n, slots, sources, v)
<1>. DEFINE N == Len(slots)
            P == {n \in 0..N : TakenAt(h[n], n, slots, sources, v)}
<1>1. 0 \in P
  <2>1. h[0].matched = 0 /\ h[0].rest = DOMAIN sources
    BY DEF Covers
  <2>2. Among(1..0, slots, v) = 0
    BY AmongFirst
  <2>3. Among(DOMAIN sources, sources, v) \in Nat
    BY AmongIs
  <2>. QED
    BY <2>1, <2>2, <2>3 DEF TakenAt
<1>2. \A n \in 1..N : n - 1 \in P => n \in P
  BY TakenNext
<1>3. \A n \in 0..N : n \in P
  <2>. HIDE DEF P
  <2>. QED
    BY <1>1, <1>2, CountingUp
<1>. QED
  BY <1>3

SameCounts(slots, sources) ==
  \A v : Among(1..Len(slots), slots, v) = Among(DOMAIN sources, sources, v)

(* The greedy matching is complete just when slots and sources have as many  *)
(* of every version.                                                          *)
LEMMA CompleteIsSameCounts ==
  ASSUME NEW slots, Len(slots) \in Nat, NEW sources, IsFiniteSet(DOMAIN sources),
         DOMAIN sources \subseteq Nat
  PROVE  Complete(slots, sources) <=> SameCounts(slots, sources)
<1>. DEFINE N == Len(slots)
<1>1. PICK h : Covers(h, slots, sources)
  BY CoverageIs
<1>2. /\ SlotCoverage(slots, sources) = h[N] /\ N \in 0..N
      /\ h[N] \in CoverState(DOMAIN sources)
  BY <1>1 DEF Covers
<1>3. Complete(slots, sources) <=> h[N].matched = N /\ h[N].rest = {}
  BY <1>2 DEF Complete
<1>4. ASSUME h[N].matched = N, h[N].rest = {} PROVE SameCounts(slots, sources)
  <2>. SUFFICES ASSUME NEW v
                PROVE  Among(1..N, slots, v) = Among(DOMAIN sources, sources, v)
    BY DEF SameCounts
  <2>1. Among(h[N].rest, sources, v)
          = Among(DOMAIN sources, sources, v) - Among(1..N, slots, v)
    <3>1. TakenAt(h[N], N, slots, sources, v)
      BY <1>1, <1>2, TakenSoFar
    <3>. QED
      BY <1>4, <3>1 DEF TakenAt
  <2>2. Among(h[N].rest, sources, v) = 0
    <3>1. {i \in h[N].rest : sources[i] = v} = {}
      BY <1>4
    <3>. QED
      BY <3>1, FS_EmptySet DEF Among
  <2>3. Among(DOMAIN sources, sources, v) \in Nat /\ Among(1..N, slots, v) \in Nat
    BY <1>2, AmongIs, AmongFirst
  <2>. QED
    BY <2>1, <2>2, <2>3
<1>5. ASSUME SameCounts(slots, sources) PROVE h[N].matched = N /\ h[N].rest = {}
  <2>. DEFINE P == {n \in 0..N : h[n].matched = n}
  <2>1. 0 \in P
    BY <1>1 DEF Covers
  <2>2. ASSUME NEW n \in 1..N, n - 1 \in P PROVE n \in P
    <3>. DEFINE v == slots[n]
    <3>1. n - 1 \in 0..N /\ n \in 0..N /\ h[n - 1].matched = n - 1
      BY <2>2
    <3>2. Among(h[n - 1].rest, sources, v)
            = Among(DOMAIN sources, sources, v) - Among(1..n - 1, slots, v)
      BY <1>1, <3>1, TakenSoFar DEF TakenAt
    <3>3. Among(1..n, slots, v) = Among(1..n - 1, slots, v) + 1
      BY AmongFirst
    <3>4. /\ Among(1..n, slots, v) <= Among(1..N, slots, v)
          /\ Among(1..n, slots, v) \in Nat /\ Among(1..n - 1, slots, v) \in Nat
          /\ Among(1..N, slots, v) \in Nat
      BY <1>2, <3>1, AmongFirst
    <3>5. Among(1..N, slots, v) = Among(DOMAIN sources, sources, v)
      BY <1>5 DEF SameCounts
    <3>6. Among(h[n - 1].rest, sources, v) > 0
      BY <3>2, <3>3, <3>4, <3>5
    <3>7. h[n].matched = h[n - 1].matched + 1
      BY <1>1, <3>6, CoverStep
    <3>. QED
      BY <3>1, <3>7
  <2>3. \A n \in 0..N : n \in P
    <3>. HIDE DEF P
    <3>. QED
      BY <2>1, <2>2, CountingUp
  <2>4. h[N].matched = N
    BY <1>2, <2>3
  <2>5. h[N].rest = {}
    <3>. SUFFICES ASSUME NEW i \in h[N].rest PROVE FALSE
      OBVIOUS
    <3>. DEFINE v == sources[i]
    <3>1. Among(h[N].rest, sources, v)
            = Among(DOMAIN sources, sources, v) - Among(1..N, slots, v)
      BY <1>1, <1>2, <2>4, TakenSoFar DEF TakenAt
    <3>2. h[N].rest \in SUBSET DOMAIN sources
      BY <1>2 DEF CoverState
    <3>3. IsFiniteSet(h[N].rest)
      BY <3>2, FS_Subset
    <3>4. Among(h[N].rest, sources, v) > 0
      BY <3>3, AmongIs
    <3>5. Among(1..N, slots, v) = Among(DOMAIN sources, sources, v)
      BY <1>5 DEF SameCounts
    <3>6. Among(DOMAIN sources, sources, v) \in Nat
      BY AmongIs
    <3>. QED
      BY <3>1, <3>4, <3>5, <3>6
  <2>. QED
    BY <2>4, <2>5
<1>. QED
  BY <1>3, <1>4, <1>5

(* A bag is what a sequence has of every version.                             *)
LEMMA BagIsCounts ==
  ASSUME NEW slots, Len(slots) \in Nat, DOMAIN slots = 1..Len(slots), NEW sources,
         IsFiniteSet(DOMAIN sources)
  PROVE  ToBag(slots) = ToBag(sources) <=> SameCounts(slots, sources)
<1>. DEFINE N == Len(slots)
<1>1. ASSUME NEW f, IsFiniteSet(DOMAIN f)
      PROVE  /\ ToBag(f) = [v \in Range(f) |-> Among(DOMAIN f, f, v)]
             /\ \A v : Among(DOMAIN f, f, v) \in Nat
                         /\ (v \in Range(f) <=> Among(DOMAIN f, f, v) > 0)
  <2>1. ToBag(f) = [v \in Range(f) |-> Among(DOMAIN f, f, v)]
    BY DEF ToBag, Among
  <2>2. \A v : v \in Range(f) <=> \E i \in DOMAIN f : f[i] = v
    BY DEF Range
  <2>. QED
    BY <1>1, <2>1, <2>2, AmongIs
<1>2. IsFiniteSet(DOMAIN slots)
  BY FirstNumbers
<1>3. /\ ToBag(slots) = [v \in Range(slots) |-> Among(1..N, slots, v)]
      /\ \A v : Among(1..N, slots, v) \in Nat
                  /\ (v \in Range(slots) <=> Among(1..N, slots, v) > 0)
  BY <1>1, <1>2
<1>4. /\ ToBag(sources) = [v \in Range(sources) |-> Among(DOMAIN sources, sources, v)]
      /\ \A v : Among(DOMAIN sources, sources, v) \in Nat
                  /\ (v \in Range(sources) <=> Among(DOMAIN sources, sources, v) > 0)
  BY <1>1
<1>5. ASSUME ToBag(slots) = ToBag(sources) PROVE SameCounts(slots, sources)
  <2>. SUFFICES ASSUME NEW v
                PROVE  Among(1..N, slots, v) = Among(DOMAIN sources, sources, v)
    BY DEF SameCounts
  <2>1. Range(slots) = Range(sources)
    BY <1>3, <1>4, <1>5
  <2>2. CASE v \in Range(slots)
    <3>1. ToBag(slots)[v] = Among(1..N, slots, v)
      BY <1>3, <2>2
    <3>2. ToBag(sources)[v] = Among(DOMAIN sources, sources, v)
      BY <1>4, <2>1, <2>2
    <3>. QED
      BY <1>5, <3>1, <3>2
  <2>3. CASE v \notin Range(slots)
    BY <1>3, <1>4, <2>1, <2>3
  <2>. QED
    BY <2>2, <2>3
<1>6. ASSUME SameCounts(slots, sources) PROVE ToBag(slots) = ToBag(sources)
  <2>1. \A v : Among(1..N, slots, v) = Among(DOMAIN sources, sources, v)
    BY <1>6 DEF SameCounts
  <2>2. Range(slots) = Range(sources)
    BY <1>3, <1>4, <2>1
  <2>. QED
    BY <1>3, <1>4, <2>1, <2>2
<1>. QED
  BY <1>5, <1>6

(* A score is the whole just when the matching is complete.                   *)
LEMMA SlotScores ==
  ASSUME NEW slots, slots \in Seq(Range(slots)), Len(slots) < SlotsTold, NEW sources,
         IsFiniteSet(DOMAIN sources), DOMAIN sources \subseteq Nat
  PROVE  /\ SlotScore(slots, sources) \in Nat /\ SlotScore(slots, sources) <= FullShare
         /\ SlotScore(slots, sources) = FullShare
              <=> slots # <<>> /\ Complete(slots, sources)
<1>. DEFINE N == Len(slots)
            found == SlotCoverage(slots, sources)
            share == Share(found.matched, N)
            left == Cardinality(found.rest)
<1>1. N \in Nat /\ (slots # <<>> => N \in Nat \ {0})
  OBVIOUS
<1>2. PICK h : Covers(h, slots, sources)
  BY <1>1, CoverageIs
<1>3. found = h[N] /\ N \in 0..N /\ found \in CoverState(DOMAIN sources)
  BY <1>1, <1>2 DEF Covers
<1>4. found.matched \in Nat /\ found.matched <= N
  <2>1. TakenAt(h[N], N, slots, sources, N)
    BY <1>1, <1>2, <1>3, TakenSoFar
  <2>. QED
    BY <1>3, <2>1 DEF TakenAt
<1>5. left \in Nat /\ (left = 0 <=> found.rest = {})
  <2>1. found.rest \in SUBSET DOMAIN sources
    BY <1>3 DEF CoverState
  <2>2. IsFiniteSet(found.rest)
    BY <2>1, FS_Subset
  <2>. QED
    BY <2>2, FS_CardinalityType, FS_EmptySet
<1>6. Complete(slots, sources) <=> found.matched = N /\ left = 0
  BY <1>5 DEF Complete
<1>7. FullShare \in Nat /\ FullShare > 0
  BY DEF FullShare
<1>8. CASE slots = <<>>
  BY <1>7, <1>8 DEF SlotScore
<1>9. CASE slots # <<>>
  <2>1. /\ share \in Nat /\ share <= FullShare
        /\ found.matched = N => share = FullShare
        /\ found.matched < N => share < FullShare
    <3>. HIDE DEF found, N
    <3>. QED
      BY <1>1, <1>4, <1>9, Shares DEF N
  <2>2. SlotScore(slots, sources) = Max({0, share - 500 * left})
    BY <1>9 DEF SlotScore
  <2>. HIDE DEF share, left, found, N
  <2>3. Max({0, share - 500 * left}) = IF 0 >= share - 500 * left THEN 0 ELSE share - 500 * left
    <3>1. share - 500 * left \in Int /\ 0 \in Int
      BY <1>5, <2>1
    <3>. QED
      BY <3>1, OfTwo
  <2>4. share = FullShare <=> found.matched = N
    BY <1>1, <1>4, <2>1
  <2>5. share - 500 * left = FullShare <=> share = FullShare /\ left = 0
    BY <1>5, <1>7, <2>1
  <2>. QED
    BY <1>5, <1>6, <1>7, <1>9, <2>1, <2>2, <2>3, <2>4, <2>5
<1>. QED
  BY <1>8, <1>9

Candidates(C) ==
  IsFiniteSet(C) /\ \A c \in C : c \in Seq(Range(c)) /\ Len(c) < SlotsTold

RightRow(match, among, of) ==
  (match.type = "exact") <=> \E c \in among : c # <<>> /\ ToBag(c) = ToBag(of)

(* The best candidate is exact just when one of them is the same bag.        *)
LEMMA BestIsRight ==
  ASSUME NEW candidates, Candidates(candidates), NEW sources,
         IsFiniteSet(DOMAIN sources), DOMAIN sources \subseteq Nat,
         NEW m \in BestOf(candidates, sources)
  PROVE  RightRow(m, candidates, sources)
<1>. DEFINE scores == {SlotScore(c, sources) : c \in candidates} \cup {0}
            top == Max(scores)
<1>1. ASSUME NEW c \in candidates
      PROVE  /\ SlotScore(c, sources) \in Nat /\ SlotScore(c, sources) <= FullShare
             /\ SlotScore(c, sources) = FullShare <=> c # <<>> /\ Complete(c, sources)
  BY SlotScores DEF Candidates
<1>2. FullShare \in Nat /\ FullShare > 0
  BY DEF FullShare
<1>3. scores \subseteq Nat /\ scores # {} /\ (\A x \in scores : x <= FullShare)
        /\ \A c \in candidates : SlotScore(c, sources) \in scores
  BY <1>1, <1>2
<1>4. top \in Nat /\ top <= FullShare /\ \A c \in candidates : SlotScore(c, sources) <= top
  <2>. HIDE DEF scores
  <2>1. Max(scores) \in scores /\ \A x \in scores : x <= Max(scores)
    BY <1>2, <1>3, MaxIs
  <2>. QED
    BY <1>3, <2>1
<1>5. BestOf(candidates, sources)
        = IF top = 0 THEN {NoCandidate}
          ELSE {[type |-> IF Complete(c, sources) THEN "exact" ELSE "partial", version |-> c] :
                  c \in {d \in candidates : SlotScore(d, sources) = top}}
  BY DEF BestOf
<1>. HIDE DEF top, scores
<1>6. \A c \in candidates : c # <<>> /\ ToBag(c) = ToBag(sources)
                              <=> c # <<>> /\ Complete(c, sources)
  <2>. TAKE c \in candidates
  <2>1. c \in Seq(Range(c))
    BY DEF Candidates
  <2>2. Len(c) \in Nat /\ DOMAIN c = 1..Len(c)
    BY <2>1
  <2>3. ToBag(c) = ToBag(sources) <=> SameCounts(c, sources)
    BY <2>2, BagIsCounts
  <2>4. Complete(c, sources) <=> SameCounts(c, sources)
    BY <2>2, CompleteIsSameCounts
  <2>. QED
    BY <2>3, <2>4
<1>7. CASE top = 0
  <2>1. m = NoCandidate
    BY <1>5, <1>7
  <2>2. m.type # "exact"
    BY <2>1 DEF NoCandidate
  <2>3. \A c \in candidates : ~(c # <<>> /\ Complete(c, sources))
    BY <1>1, <1>2, <1>4, <1>7
  <2>. QED
    BY <1>6, <2>2, <2>3 DEF RightRow
<1>8. CASE top # 0
  <2>1. PICK c \in candidates :
          /\ SlotScore(c, sources) = top
          /\ m = [type |-> IF Complete(c, sources) THEN "exact" ELSE "partial", version |-> c]
    BY <1>5, <1>8
  <2>2. m.type = "exact" <=> Complete(c, sources)
    BY <2>1
  <2>3. c # <<>>
    <3>1. SlotScore(<<>>, sources) = 0
      BY DEF SlotScore
    <3>. QED
      BY <1>8, <2>1, <3>1
  <2>4. ASSUME NEW d \in candidates, d # <<>>, Complete(d, sources)
        PROVE  Complete(c, sources)
    <3>1. SlotScore(d, sources) = FullShare /\ SlotScore(d, sources) <= top
      BY <1>1, <1>4, <2>4
    <3>2. SlotScore(c, sources) = FullShare
      BY <1>2, <1>4, <2>1, <3>1
    <3>. QED
      BY <1>1, <3>2
  <2>. QED
    BY <1>6, <2>2, <2>3, <2>4 DEF RightRow
<1>. QED
  BY <1>7, <1>8

-----------------------------------------------------------------------------
(* The rows of a match.                                                       *)

LEMMA PublishedAreCandidates ==
  /\ \A known \in SUBSET Compositions : Candidates(known)
  /\ \A ways \in SUBSET Routes : Candidates(ways)
  BY MatchingAssumption, FS_Subset DEF Candidates

(* Sources: the places of regions and of sheets are numbers, and few.        *)
LEMMA SourcesAreFew ==
  ASSUME NEW rows, NEW s
  PROVE  /\ IsFiniteSet(DOMAIN ExactRegions(rows, s)) /\ DOMAIN ExactRegions(rows, s) \subseteq Nat
         /\ IsFiniteSet(DOMAIN ExactSheets(rows)) /\ DOMAIN ExactSheets(rows) \subseteq Nat
         /\ IsFiniteSet(DOMAIN Regions)
<1>1. Regions \in Seq(Nat \ {0})
  BY MatchingAssumption
<1>2. DOMAIN Regions = 1..Len(Regions) /\ Len(Regions) \in Nat
  BY <1>1
<1>3. IsFiniteSet(DOMAIN Regions) /\ DOMAIN Regions \subseteq Nat
  BY <1>2, FirstNumbers
<1>4. IsFiniteSet(Sheets) /\ Sheets \subseteq Nat
  <2>1. Regions \in Surjection(DOMAIN Regions, Range(Regions))
    BY <1>1, <1>2 DEF Surjection, Range
  <2>2. Range(Regions) \subseteq Nat
    BY <1>1, <1>2 DEF Range
  <2>. QED
    BY <1>3, <2>1, <2>2, FS_Surjection DEF Sheets
<1>5. DOMAIN ExactRegions(rows, s) \in SUBSET DOMAIN Regions
  BY DEF ExactRegions
<1>6. DOMAIN ExactSheets(rows) \in SUBSET Sheets
  BY DEF ExactSheets
<1>. QED
  BY <1>3, <1>4, <1>5, <1>6, FS_Subset

LEMMA RowsOfSheets ==
  ASSUME NEW rows, NEW known \in SUBSET Compositions,
         NEW sheets \in MatchSheetCompositions(rows, known), NEW s \in Sheets
  PROVE  RightRow(sheets[s], known, ExactRegions(rows, s))
<1>. DEFINE sources == ExactRegions(rows, s)
<1>1. IsFiniteSet(DOMAIN sources) /\ DOMAIN sources \subseteq Nat
  BY SourcesAreFew
<1>2. sheets[s] \in BestOf(known, sources)
  BY DEF MatchSheetCompositions
<1>3. Candidates(known)
  BY PublishedAreCandidates
<1>. HIDE DEF sources
<1>4. RightRow(sheets[s], known, sources)
  BY <1>1, <1>2, <1>3, BestIsRight
<1>. QED
  BY <1>4 DEF sources

LEMMA RowOfRoute ==
  ASSUME NEW sheets, NEW ways \in SUBSET Routes, NEW row \in RouteRows(sheets, ways)
  PROVE  /\ RightRow(row.match, row.among, row.of)
         /\ row.of = ExactSheets(sheets)
<1>. DEFINE sources == ExactSheets(sheets)
<1>1. PICK route \in MatchWorkbookRoutes(sheets, ways) :
        row = [match |-> route, among |-> ways, of |-> ExactSheets(sheets)]
  BY DEF RouteRows
<1>2. IsFiniteSet(DOMAIN sources) /\ DOMAIN sources \subseteq Nat
  BY SourcesAreFew
<1>3. route \in BestOf(ways, sources)
  BY DEF MatchWorkbookRoutes
<1>4. Candidates(ways)
  BY PublishedAreCandidates
<1>. HIDE DEF sources
<1>5. RightRow(route, ways, sources)
  BY <1>2, <1>3, <1>4, BestIsRight
<1>6. row.match = route /\ row.among = ways /\ row.of = sources
  BY <1>1 DEF sources
<1>. QED
  BY <1>5, <1>6 DEF sources

(* What a run leaves on file, even in part: the rows of the first regions,   *)
(* and a summary, if any, of all of them.                                    *)
OnFile ==
  /\ \E n \in 0..Len(Regions) : DOMAIN regionRow = 1..n
  /\ summary.total \in {0, Cardinality(DOMAIN Regions)}

LEMMA RegionsCounted ==
  /\ Len(Regions) \in Nat /\ DOMAIN Regions = 1..Len(Regions)
  /\ \A n \in Nat : Cardinality(1..n) = n
<1>1. Regions \in Seq(Nat \ {0})
  BY MatchingAssumption
<1>2. ASSUME NEW n \in Nat PROVE Cardinality(1..n) = n
  BY FS_Interval
<1>. QED
  BY <1>1, <1>2

LEMMA CoverageTells == ASSUME OnFile PROVE PartsMakeNoPlan
<1>1. PICK n \in 0..Len(Regions) : DOMAIN regionRow = 1..n
  BY DEF OnFile
<1>2. Cardinality(DOMAIN regionRow) = n /\ Cardinality(DOMAIN Regions) = Len(Regions) /\ n \in Nat
  BY <1>1, RegionsCounted
<1>3. CASE n = 0
  BY <1>1, <1>3 DEF PartsMakeNoPlan, Covered
<1>4. CASE n # 0
  BY <1>1, <1>2, <1>4, RegionsCounted DEF PartsMakeNoPlan, Covered, OnFile
<1>. QED
  BY <1>3, <1>4

LEMMA ProfileMatched ==
  ASSUME MatchProfile PROVE ExactIsTheSameBag' /\ MatchedIsOneRun' /\ OnFile'
<1>1. PICK rows \in RegionMatches, unresolved \in BOOLEAN,
           known \in SUBSET Compositions, ways \in SUBSET Routes :
        \E sheets \in MatchSheetCompositions(rows, known) :
          /\ regionRow' = rows
          /\ sheetRow' = SheetRows(rows, sheets, known)
          /\ routeRow' \in RouteRows(sheets, ways)
          /\ summary' = Summary(rows, unresolved)
  BY DEF MatchProfile
<1>2. PICK sheets \in MatchSheetCompositions(rows, known) :
        /\ regionRow' = rows
        /\ sheetRow' = SheetRows(rows, sheets, known)
        /\ routeRow' \in RouteRows(sheets, ways)
        /\ summary' = Summary(rows, unresolved)
  BY <1>1
<1>3. /\ RightRow(routeRow'.match, routeRow'.among, routeRow'.of)
      /\ routeRow'.of = ExactSheets(sheets)
  BY <1>2, RowOfRoute
<1>4. /\ DOMAIN sheetRow' = Sheets
      /\ \A s \in Sheets : /\ sheetRow'[s].match = sheets[s] /\ sheetRow'[s].among = known
                           /\ sheetRow'[s].of = ExactRegions(rows, s)
  BY <1>2 DEF SheetRows
<1>5. ExactIsTheSameBag'
  <2>1. \A s \in DOMAIN sheetRow' :
          RightRow(sheetRow'[s].match, sheetRow'[s].among, sheetRow'[s].of)
    BY <1>4, RowsOfSheets
  <2>. QED
    BY <1>3, <2>1 DEF ExactIsTheSameBag, RightRow
<1>6. DOMAIN rows = DOMAIN Regions
  BY DEF RegionMatches
<1>7. MatchedIsOneRun'
  <2>. DEFINE exact == {r \in DOMAIN rows : rows[r].type = "exact"}
  <2>1. /\ summary'.total = Cardinality(DOMAIN rows)
        /\ summary'.matched = Cardinality(exact)
        /\ ~summary'.hermes => Cardinality(exact) = Cardinality(DOMAIN rows)
    BY <1>2 DEF Summary
  <2>2. IsFiniteSet(DOMAIN rows) /\ exact \in SUBSET DOMAIN rows
    BY <1>6, SourcesAreFew
  <2>3. Cardinality(exact) = Cardinality(DOMAIN rows) => exact = DOMAIN rows
    <3>. HIDE DEF exact
    <3>. QED
      BY <2>2, FS_Subset
  <2>4. ~summary'.hermes => \A r \in DOMAIN rows : rows[r].type = "exact"
    BY <2>1, <2>3
  <2>5. ExactSheets([s \in Sheets |-> sheetRow'[s].match]) = ExactSheets(sheets)
    BY <1>4 DEF ExactSheets
  <2>. QED
    BY <1>2, <1>3, <1>4, <1>6, <2>1, <2>4, <2>5 DEF MatchedIsOneRun
<1>8. OnFile'
  <2>1. summary'.total = Cardinality(DOMAIN Regions)
    BY <1>2, <1>6 DEF Summary
  <2>2. DOMAIN regionRow' = 1..Len(Regions) /\ Len(Regions) \in 0..Len(Regions)
    BY <1>2, <1>6, RegionsCounted
  <2>. QED
    BY <2>1, <2>2 DEF OnFile
<1>. QED
  BY <1>5, <1>7, <1>8

(* Whatever a failed run committed, its rows of sheets and routes are right.  *)
LEMMA FailureCommitted ==
  ASSUME MatchFails, ExactIsTheSameBag, OnFile
  PROVE  ExactIsTheSameBag' /\ MatchedIsOneRun' /\ OnFile'
<1>1. MatchedIsOneRun'
  BY DEF MatchFails, MatchedIsOneRun
<1>2. summary' = summary
  BY DEF MatchFails
<1>3. CASE UNCHANGED <<regionRow, sheetRow, routeRow>>
  BY <1>1, <1>2, <1>3 DEF ExactIsTheSameBag, OnFile
<1>4. CASE \E rows \in RegionMatches, n \in 0..Len(Regions) :
             /\ regionRow' = [r \in 1..n |-> rows[r]]
             /\ UNCHANGED <<sheetRow, routeRow>>
  <2>1. PICK rows \in RegionMatches, n \in 0..Len(Regions) :
          /\ regionRow' = [r \in 1..n |-> rows[r]]
          /\ UNCHANGED <<sheetRow, routeRow>>
    BY <1>4
  <2>2. DOMAIN regionRow' = 1..n
    BY <2>1
  <2>3. OnFile'
    BY <1>2, <2>2 DEF OnFile
  <2>. QED
    BY <1>1, <2>1, <2>3 DEF ExactIsTheSameBag
<1>5. ASSUME NEW rows \in RegionMatches, NEW known \in SUBSET Compositions,
             regionRow' = rows, NEW sheets \in MatchSheetCompositions(rows, known),
             NEW n, sheetRow' = [s \in {t \in Sheets : t <= n} |->
                                   SheetRows(rows, sheets, known)[s]]
                    \/ sheetRow' = SheetRows(rows, sheets, known),
             NEW ways \in SUBSET Routes,
             \/ UNCHANGED routeRow
             \/ routeRow' \in {NoRoute} \cup RouteRows(sheets, ways)
      PROVE  ExactIsTheSameBag' /\ OnFile'
  <2>1. OnFile'
    <3>1. DOMAIN regionRow' = 1..Len(Regions) /\ Len(Regions) \in 0..Len(Regions)
      BY <1>5, RegionsCounted DEF RegionMatches
    <3>. QED
      BY <1>2, <3>1 DEF OnFile
  <2>2. /\ DOMAIN sheetRow' \subseteq Sheets
        /\ \A s \in DOMAIN sheetRow' :
             /\ sheetRow'[s].match = sheets[s] /\ sheetRow'[s].among = known
             /\ sheetRow'[s].of = ExactRegions(rows, s)
    BY <1>5 DEF SheetRows
  <2>3. \A s \in DOMAIN sheetRow' :
          RightRow(sheetRow'[s].match, sheetRow'[s].among, sheetRow'[s].of)
    BY <1>5, <2>2, RowsOfSheets
  <2>4. RightRow(routeRow'.match, routeRow'.among, routeRow'.of)
    <3>1. CASE UNCHANGED routeRow
      BY <3>1 DEF ExactIsTheSameBag, RightRow
    <3>2. CASE routeRow' = NoRoute
      BY <3>2 DEF NoRoute, NoCandidate, RightRow
    <3>3. CASE routeRow' \in RouteRows(sheets, ways)
      BY <3>3, RowOfRoute
    <3>. QED
      BY <1>5, <3>1, <3>2, <3>3
  <2>. QED
    BY <2>1, <2>3, <2>4 DEF ExactIsTheSameBag, RightRow
<1>6. CASE \E rows \in RegionMatches, known \in SUBSET Compositions :
             /\ summary # NoSummary => known \subseteq LaterCompositions
             /\ regionRow' = rows
             /\ \E sheets \in MatchSheetCompositions(rows, known) :
                  \/ \E n \in {0} \cup Sheets :
                       /\ sheetRow' = [s \in {t \in Sheets : t <= n} |->
                                         SheetRows(rows, sheets, known)[s]]
                       /\ UNCHANGED routeRow
                  \/ /\ sheetRow' = SheetRows(rows, sheets, known)
                     /\ \E ways \in SUBSET Routes :
                          /\ summary # NoSummary => ways \subseteq LaterRoutes
                          /\ routeRow' \in {NoRoute} \cup RouteRows(sheets, ways)
  <2>1. PICK rows \in RegionMatches, known \in SUBSET Compositions :
          /\ regionRow' = rows
          /\ \E sheets \in MatchSheetCompositions(rows, known) :
               \/ \E n \in {0} \cup Sheets :
                    /\ sheetRow' = [s \in {t \in Sheets : t <= n} |->
                                      SheetRows(rows, sheets, known)[s]]
                    /\ UNCHANGED routeRow
               \/ /\ sheetRow' = SheetRows(rows, sheets, known)
                  /\ \E ways \in SUBSET Routes :
                       routeRow' \in {NoRoute} \cup RouteRows(sheets, ways)
    BY <1>6
  <2>2. PICK sheets \in MatchSheetCompositions(rows, known) :
          \/ \E n \in {0} \cup Sheets :
               /\ sheetRow' = [s \in {t \in Sheets : t <= n} |->
                                 SheetRows(rows, sheets, known)[s]]
               /\ UNCHANGED routeRow
          \/ /\ sheetRow' = SheetRows(rows, sheets, known)
             /\ \E ways \in SUBSET Routes :
                  routeRow' \in {NoRoute} \cup RouteRows(sheets, ways)
    BY <2>1
  <2>3. {} \in SUBSET Routes
    OBVIOUS
  <2>4. CASE \E n \in {0} \cup Sheets :
               /\ sheetRow' = [s \in {t \in Sheets : t <= n} |->
                                 SheetRows(rows, sheets, known)[s]]
               /\ UNCHANGED routeRow
    BY <1>1, <1>5, <2>1, <2>3, <2>4
  <2>5. CASE /\ sheetRow' = SheetRows(rows, sheets, known)
             /\ \E ways \in SUBSET Routes :
                  routeRow' \in {NoRoute} \cup RouteRows(sheets, ways)
    BY <1>1, <1>5, <2>1, <2>5
  <2>. QED
    BY <2>2, <2>4, <2>5
<1>. QED
  BY <1>3, <1>4, <1>6 DEF MatchFails

LEMMA MatchRowsStay ==
  ASSUME ExactIsTheSameBag, MatchedIsOneRun, OnFile,
         UNCHANGED <<regionRow, sheetRow, routeRow, summary>>,
         matching' = "matched" => matching = "matched"
  PROVE  ExactIsTheSameBag' /\ MatchedIsOneRun' /\ OnFile'
<1>1. ExactIsTheSameBag'
  BY DEF ExactIsTheSameBag
<1>2. MatchedIsOneRun'
  BY DEF MatchedIsOneRun
<1>3. OnFile'
  BY DEF OnFile
<1>. QED
  BY <1>1, <1>2, <1>3

LEMMA MatchingStep ==
  ASSUME MatchMeansWhatItSays, OnFile, [MatchingNext]_matchingVars
  PROVE  MatchMeansWhatItSays' /\ OnFile'
<1>1. ExactIsTheSameBag /\ MatchedIsOneRun /\ AliasReuseIsUnanimous
  BY DEF MatchMeansWhatItSays
<1>2. UNCHANGED column => AliasReuseIsUnanimous'
  BY <1>1 DEF AliasReuseIsUnanimous
<1>3. OnFile' => PartsMakeNoPlan'
  BY CoverageTells, PTL
<1>4. CASE MatchColumn
  <2>1. UNCHANGED <<regionRow, sheetRow, routeRow, summary, matching>>
    BY <1>4 DEF MatchColumn
  <2>2. ExactIsTheSameBag' /\ MatchedIsOneRun' /\ OnFile'
    BY <1>1, <2>1, MatchRowsStay
  <2>. QED
    BY <1>3, <1>4, <2>2, ColumnReuse DEF MatchMeansWhatItSays
<1>5. CASE StartMatching
  <2>1. /\ UNCHANGED <<regionRow, sheetRow, routeRow, summary, column>>
        /\ matching' # "matched"
    BY <1>5 DEF StartMatching
  <2>2. ExactIsTheSameBag' /\ MatchedIsOneRun' /\ OnFile'
    BY <1>1, <2>1, MatchRowsStay
  <2>. QED
    BY <1>2, <1>3, <2>1, <2>2 DEF MatchMeansWhatItSays
<1>6. CASE MatchProfile
  <2>1. UNCHANGED column
    BY <1>6 DEF MatchProfile
  <2>. QED
    BY <1>2, <1>3, <1>6, <2>1, ProfileMatched DEF MatchMeansWhatItSays
<1>7. CASE MatchFails
  <2>1. UNCHANGED column
    BY <1>7 DEF MatchFails
  <2>. QED
    BY <1>1, <1>2, <1>3, <1>7, <2>1, FailureCommitted DEF MatchMeansWhatItSays
<1>8. CASE UNCHANGED matchingVars
  <2>1. UNCHANGED <<regionRow, sheetRow, routeRow, summary, column, matching>>
    BY <1>8 DEF matchingVars
  <2>2. ExactIsTheSameBag' /\ MatchedIsOneRun' /\ OnFile'
    BY <1>1, <2>1, MatchRowsStay
  <2>. QED
    BY <1>2, <1>3, <2>1, <2>2 DEF MatchMeansWhatItSays
<1>. QED
  BY <1>4, <1>5, <1>6, <1>7, <1>8 DEF MatchingNext

(* Whatever is published, whatever the workbook holds and wherever runs of   *)
(* the matcher fail: a sheet or route is exact just when a published one has *)
(* the same slots as a bag, the rows and the summary of a matched item are   *)
(* of one run, those that a failed run left of a part of the regions make no *)
(* plan, and a column goes to a field by its leaf or an alias only when its  *)
(* type, context and role agree (_slot_coverage, match_profile,              *)
(* match_template, build_reused_region_fragments, _field_match_values).      *)
THEOREM MatchingIsSound == MatchingSpec => []MatchMeansWhatItSays
<1>1. MatchingInit => MatchMeansWhatItSays /\ OnFile
  <2>. SUFFICES ASSUME MatchingInit PROVE MatchMeansWhatItSays /\ OnFile
    OBVIOUS
  <2>1. ExactIsTheSameBag
    <3>1. routeRow = NoRoute /\ DOMAIN sheetRow = {}
      BY DEF MatchingInit, NoRows
    <3>2. routeRow.match.type = "none" /\ routeRow.among = {}
      BY <3>1 DEF NoRoute, NoCandidate
    <3>. QED
      BY <3>1, <3>2 DEF ExactIsTheSameBag
  <2>2. MatchedIsOneRun /\ AliasReuseIsUnanimous
    BY DEF MatchingInit, MatchedIsOneRun, AliasReuseIsUnanimous
  <2>3. OnFile
    <3>1. DOMAIN regionRow = 1..0 /\ 0 \in 0..Len(Regions)
      BY RegionsCounted DEF MatchingInit, NoRows
    <3>2. summary.total = 0
      BY DEF MatchingInit, NoSummary
    <3>. QED
      BY <3>1, <3>2 DEF OnFile
  <2>. QED
    BY <2>1, <2>2, <2>3, CoverageTells DEF MatchMeansWhatItSays
<1>2. /\ MatchMeansWhatItSays /\ OnFile /\ [MatchingNext]_matchingVars
      => MatchMeansWhatItSays' /\ OnFile'
  BY MatchingStep
<1>. QED
  BY <1>1, <1>2, PTL DEF MatchingSpec

-----------------------------------------------------------------------------
(* What Hermes is asked and what becomes of its answers. *)

(* A partition into groups has one group of each member. *)
LEMMA GroupsPart ==
  ASSUME NEW changed
  PROVE  /\ \A i \in changed : \E group \in Groups(changed) : i \in group
         /\ \A i : \A g, h \in Groups(changed) : i \in g /\ i \in h => g = h
         /\ \A group \in Groups(changed) : group \subseteq changed
<1>. DEFINE place(i) == Cardinality({j \in changed : j < i}) \div PerCall
            own(i) == {j \in changed : place(j) = place(i)}
<1>1. Groups(changed) = {own(i) : i \in changed}
  BY DEF Groups
<1>2. \A i : own(i) \subseteq changed /\ (i \in changed => i \in own(i))
  OBVIOUS
<1>3. \A i, j : j \in own(i) => own(j) = own(i)
  OBVIOUS
<1>. HIDE DEF own
<1>4. \A i \in changed : \E group \in Groups(changed) : i \in group
  BY <1>1, <1>2
<1>5. \A i : \A g, h \in Groups(changed) : i \in g /\ i \in h => g = h
  <2>. SUFFICES ASSUME NEW m \in changed, NEW n \in changed, NEW i, i \in own(m), i \in own(n)
                PROVE  own(m) = own(n)
    BY <1>1
  <2>. QED
    BY <1>3
<1>. QED
  BY <1>1, <1>2, <1>4, <1>5

(* The chunk of a column that is asked, and what is in chunks. *)
LEMMA ChunksPart ==
  ASSUME NEW columns, NEW request, request.asked \subseteq request.headers,
         \A i \in request.headers : columns[i].region \in request.regions
  PROVE  LET chunks == ChunkRecognitionRequest(columns, request)
         IN  /\ \A i \in request.asked : \E chunk \in chunks : i \in chunk
             /\ \A i \in request.asked : \A c, d \in chunks : i \in c /\ i \in d => c = d
             /\ \A chunk \in chunks : chunk \subseteq request.headers
<1>. DEFINE of(r) == {i \in request.headers : columns[i].region = r}
            changed(r) == {i \in of(r) : IF request.asked # {} THEN i \in request.asked
                                         ELSE columns[i].path \in request.new}
            first(r) == {{i \in of(r) : \A j \in of(r) : i <= j}}
            groups(r) == IF changed(r) # {} THEN Groups(changed(r)) ELSE first(r)
            chunks == ChunkRecognitionRequest(columns, request)
<1>1. chunks = IF request.asked = {} /\ request.new = {} THEN {}
               ELSE UNION {groups(r) : r \in request.regions}
  BY DEF ChunkRecognitionRequest
<1>2. \A r : /\ changed(r) # {} => groups(r) = Groups(changed(r))
             /\ changed(r) = {} => \A chunk \in groups(r) : chunk \subseteq of(r)
  OBVIOUS
<1>3. ASSUME NEW r, NEW chunk \in groups(r)
      PROVE  chunk \subseteq of(r)
  <2>. SUFFICES ASSUME changed(r) # {}
                PROVE  chunk \subseteq of(r)
    <3>. HIDE DEF groups, changed, of
    <3>. QED
      BY <1>2, <1>3
  <2>1. chunk \in Groups(changed(r))
    <3>. HIDE DEF groups, changed, of
    <3>. QED
      BY <1>2, <1>3
  <2>2. chunk \subseteq changed(r)
    <3>. HIDE DEF changed, groups
    <3>. QED
      BY <2>1, GroupsPart
  <2>3. changed(r) \subseteq of(r)
    OBVIOUS
  <2>. QED
    BY <2>2, <2>3
<1>4. ASSUME NEW i \in request.asked
      PROVE  /\ \E chunk \in chunks : i \in chunk
             /\ \A c, d \in chunks : i \in c /\ i \in d => c = d
  <2>. DEFINE r == columns[i].region
  <2>1. chunks = UNION {groups(q) : q \in request.regions} /\ r \in request.regions
    BY <1>1
  <2>2. i \in changed(r)
    OBVIOUS
  <2>3. groups(r) = Groups(changed(r))
    BY <1>2, <2>2
  <2>4. \A c \in chunks : i \in c => c \in groups(r)
    <3>. SUFFICES ASSUME NEW c \in chunks, i \in c PROVE c \in groups(r)
      OBVIOUS
    <3>1. PICK q \in request.regions : c \in groups(q)
      <4>. HIDE DEF groups, chunks
      <4>. QED
        BY <2>1
    <3>2. i \in of(q)
      BY <1>3, <3>1
    <3>3. q = r
      BY <3>2
    <3>. QED
      BY <3>1, <3>3
  <2>. HIDE DEF groups, changed, r, chunks
  <2>5. PICK chunk \in groups(r) : i \in chunk
    BY <2>2, <2>3, GroupsPart
  <2>6. chunk \in chunks
    BY <2>1, <2>5
  <2>. QED
    BY <2>3, <2>4, <2>5, <2>6, GroupsPart
<1>5. \A chunk \in chunks : chunk \subseteq request.headers
  <2>1. \A r : of(r) \subseteq request.headers
    OBVIOUS
  <2>. HIDE DEF groups, chunks, of
  <2>. QED
    BY <1>1, <1>3, <2>1
<1>. QED
  BY <1>4, <1>5

(* A request as the structure decision leaves it. *)
RequestOf(columns, unmatched, fresh, accepted) ==
  ApplyStructureDecision(columns, BuildRequest(columns, unmatched, fresh), accepted)

LEMMA RequestIs ==
  ASSUME NEW columns, NEW unmatched, NEW fresh, NEW accepted
  PROVE  LET built == BuildRequest(columns, unmatched, fresh)
             request == RequestOf(columns, unmatched, fresh, accepted)
         IN  /\ request.asked \subseteq request.headers
             /\ request.headers \subseteq DOMAIN columns
             /\ \A i \in request.headers : columns[i].region \in request.regions
             /\ request.asked # {} \/ request.new # {} => accepted # {}
             /\ \A path \in request.new :
                  \E i \in DOMAIN columns : columns[i].state # "field" /\ columns[i].path = path
             /\ \A i \in request.asked : columns[i].path \in request.new
             /\ \A i \in request.headers :
                  columns[i].path \in request.new /\ columns[i].state # "field" =>
                    i \in request.asked
             /\ \A i \in request.headers :
                  columns[i].state = "needs" => i \in request.asked \/ accepted = {}
<1>. DEFINE needing == {i \in DOMAIN columns : columns[i].state = "needs"}
            target == unmatched \cup {columns[i].region : i \in needing}
            new == fresh \cup {columns[i].path : i \in needing}
            headers == {i \in DOMAIN columns : target = {} \/ columns[i].region \in target}
            asked == {i \in headers : columns[i].path \in new /\ columns[i].state # "field"}
            built == BuildRequest(columns, unmatched, fresh)
            request == RequestOf(columns, unmatched, fresh, accepted)
            kept == {i \in headers : columns[i].region \in accepted}
<1>1. /\ built.headers = headers /\ built.asked = asked
      /\ built.new = {columns[i].path : i \in asked}
      /\ built.regions = {columns[i].region : i \in headers}
  BY DEF BuildRequest
<1>2. accepted = {} => /\ request.headers = headers /\ request.asked = {} /\ request.new = {}
                       /\ request.regions = built.regions
  BY <1>1 DEF RequestOf, ApplyStructureDecision, BuildRequest
<1>3. accepted # {} => /\ request.headers = kept /\ request.asked = asked \cap kept
                       /\ request.new = built.new \cap {columns[i].path : i \in kept}
                       /\ request.regions = built.regions \cap accepted
  BY <1>1 DEF RequestOf, ApplyStructureDecision
<1>. HIDE DEF built, request
<1>4. CASE accepted = {}
  <2>1. \A i \in headers : columns[i].region \in request.regions
    BY <1>1, <1>2, <1>4
  <2>. QED
    BY <1>2, <1>4, <2>1 DEF request
<1>5. CASE accepted # {}
  <2>1. needing \subseteq DOMAIN columns /\ \A i \in needing : columns[i].path \in new
    OBVIOUS
  <2>2. \A i \in kept : columns[i].region \in request.regions
    BY <1>1, <1>3, <1>5
  <2>3. \A path \in request.new :
          \E i \in DOMAIN columns : columns[i].state # "field" /\ columns[i].path = path
    BY <1>1, <1>3, <1>5
  <2>4. \A i \in kept : columns[i].path \in request.new /\ columns[i].state # "field" =>
          i \in request.asked
    <3>1. request.new \subseteq new
      BY <1>1, <1>3, <1>5
    <3>. QED
      BY <3>1, <1>3, <1>5
  <2>5. \A i \in kept : columns[i].state = "needs" => i \in request.asked
    BY <2>1, <1>3, <1>5
  <2>6. \A i \in request.asked : columns[i].path \in request.new
    BY <1>1, <1>3, <1>5
  <2>. QED
    BY <1>3, <1>5, <2>2, <2>3, <2>4, <2>5, <2>6 DEF request
<1>. QED
  BY <1>4, <1>5

(* Every column that is asked is in one chunk, and its path is new. *)
LEMMA ColumnsAskedOnce ==
  ASSUME ChooseColumns
  PROVE  AskedOnce' /\ judged'.of = "columns"
<1>1. PICK size \in 1..MaxColumns : \E columns \in [1..size -> WorkbookColumn],
        unmatched, accepted \in SUBSET Parts, fresh \in SUBSET Paths :
          judged' = [of |-> "columns", columns |-> columns,
                     request |-> RequestOf(columns, unmatched, fresh, accepted),
                     accepted |-> accepted,
                     judges |-> MergedColumns(columns,
                                  RequestOf(columns, unmatched, fresh, accepted))]
  BY Zenon DEF ChooseColumns, Judge, RequestOf
<1>2. PICK columns \in [1..size -> WorkbookColumn], unmatched \in SUBSET Parts,
           accepted \in SUBSET Parts, fresh \in SUBSET Paths :
          judged' = [of |-> "columns", columns |-> columns,
                     request |-> RequestOf(columns, unmatched, fresh, accepted),
                     accepted |-> accepted,
                     judges |-> MergedColumns(columns,
                                  RequestOf(columns, unmatched, fresh, accepted))]
  BY <1>1
<1>. DEFINE request == RequestOf(columns, unmatched, fresh, accepted)
            chunks == ChunkRecognitionRequest(columns, request)
            judges == MergedColumns(columns, request)
<1>3. /\ judged'.of = "columns" /\ judged'.columns = columns /\ judged'.request = request
      /\ judged'.accepted = accepted /\ judged'.judges = judges
  BY <1>2
<1>4. judges = {j \in chunks \X DOMAIN columns :
                  j[2] \in j[1] /\ columns[j[2]].path \in request.new}
  BY DEF MergedColumns
<1>5. /\ request.asked \subseteq request.headers
      /\ request.headers \subseteq DOMAIN columns
      /\ \A path \in request.new :
           \E i \in DOMAIN columns : columns[i].state # "field" /\ columns[i].path = path
      /\ \A i \in request.asked : columns[i].path \in request.new
      /\ \A i \in request.headers :
           columns[i].path \in request.new /\ columns[i].state # "field" => i \in request.asked
      /\ \A i \in request.headers :
           columns[i].state = "needs" => i \in request.asked \/ accepted = {}
  BY RequestIs
<1>6. /\ \A i \in request.asked : \E chunk \in chunks : i \in chunk
      /\ \A i \in request.asked : \A c, d \in chunks : i \in c /\ i \in d => c = d
      /\ \A chunk \in chunks : chunk \subseteq request.headers
  BY <1>5, RequestIs, ChunksPart
<1>. HIDE DEF request, chunks, judges
<1>7. \A i \in request.asked : Cardinality({j \in judges : j[2] = i}) = 1
  <2>. SUFFICES ASSUME NEW i \in request.asked PROVE Cardinality({j \in judges : j[2] = i}) = 1
    OBVIOUS
  <2>1. PICK chunk \in chunks : i \in chunk
    BY <1>6
  <2>2. <<chunk, i>> \in judges
    BY <1>4, <1>5, <2>1
  <2>3. \A j \in judges : j[2] = i => j = <<chunk, i>>
    BY <1>4, <1>6, <2>1
  <2>4. {j \in judges : j[2] = i} = {<<chunk, i>>}
    BY <2>2, <2>3
  <2>. QED
    BY <2>4, FS_Singleton
<1>8. \A j \in judges : j[2] \notin request.asked =>
        /\ columns[j[2]].state = "field"
        /\ \E i \in DOMAIN columns \ {j[2]} :
             columns[i].state # "field" /\ columns[i].path = columns[j[2]].path
  <2>. SUFFICES ASSUME NEW j \in judges, j[2] \notin request.asked
                PROVE  /\ columns[j[2]].state = "field"
                       /\ \E i \in DOMAIN columns \ {j[2]} :
                            columns[i].state # "field" /\ columns[i].path = columns[j[2]].path
    OBVIOUS
  <2>1. j[2] \in request.headers /\ columns[j[2]].path \in request.new
    BY <1>4, <1>6
  <2>2. columns[j[2]].state = "field"
    BY <1>5, <2>1
  <2>3. PICK i \in DOMAIN columns :
          columns[i].state # "field" /\ columns[i].path = columns[j[2]].path
    BY <1>5, <2>1
  <2>. QED
    BY <2>2, <2>3
<1>. QED
  BY <1>3, <1>5, <1>7, <1>8 DEF AskedOnce

(* Field decisions: what each of the three loops of the normalisation makes   *)
(* of a list of decisions, numbered by column.                                 *)
Actions == Reuses \cup {"PROPOSE_NEW_FIELD", "AMBIGUOUS", "IGNORE_COLUMN"}
Judgement == [action : Actions, code : Codes \cup {NoCode}, sure : BOOLEAN]
Proposes(d, code) == d.action = "PROPOSE_NEW_FIELD" /\ d.code = code

LEMMA AsIs ==
  ASSUME NEW action \in Actions, NEW d \in Judgement
  PROVE  /\ As(action, d) \in Judgement /\ As(action, d).action = action
         /\ As(action, d).code = d.code /\ ~As(action, d).sure
  BY DEF As, Judgement

LEMMA AmbiguousIs ==
  /\ Ambiguous \in Judgement /\ Ambiguous.action = "AMBIGUOUS"
  /\ Ambiguous.code = NoCode /\ ~Ambiguous.sure
  BY DEF Ambiguous, Judgement, Actions

(* CatalogReference. *)
LEMMA ReferenceIs ==
  ASSUME NEW catalog, catalog \subseteq Codes, NEW header,
         header.candidates \subseteq catalog, NEW d \in Judgement
  PROVE  LET ref == CatalogReference(catalog, header, d)
         IN  /\ ref \in Judgement
             /\ ref = d \/ ~ref.sure
             /\ ref.action \in Reuses => ref.code \in catalog \cap header.candidates
             /\ ref.action = "PROPOSE_NEW_FIELD" =>
                  /\ d.action \in Reuses \cup {"PROPOSE_NEW_FIELD"}
                  /\ ref.code = d.code /\ d.code \notin catalog
             /\ d.action \in Reuses \cup {"PROPOSE_NEW_FIELD"} /\ d.code \notin catalog
                  /\ d.code # NoCode => Proposes(ref, d.code)
<1>. DEFINE ref == CatalogReference(catalog, header, d)
<1>1. "PROPOSE_NEW_FIELD" \in Actions /\ "REUSE_FIELD" \in Actions
  BY DEF Actions, Reuses
<1>2. "PROPOSE_NEW_FIELD" \notin Reuses /\ "AMBIGUOUS" \notin Reuses /\ "REUSE_FIELD" \in Reuses
  BY DEF Reuses
<1>3. CASE d.action \in Reuses /\ d.code \notin catalog
  <2>1. ref = IF d.code = NoCode THEN Ambiguous ELSE As("PROPOSE_NEW_FIELD", d)
    BY <1>2, <1>3 DEF CatalogReference
  <2>. HIDE DEF ref
  <2>. QED
    BY <1>1, <1>2, <1>3, <2>1, AsIs, AmbiguousIs DEF Proposes, ref
<1>4. CASE d.action \in Reuses /\ d.code \in catalog \ header.candidates
  <2>1. ref = Ambiguous
    BY <1>2, <1>4 DEF CatalogReference
  <2>. HIDE DEF ref
  <2>. QED
    BY <1>1, <1>2, <1>4, <2>1, AmbiguousIs DEF Proposes, ref
<1>5. CASE d.action = "PROPOSE_NEW_FIELD" /\ d.code \in catalog
  <2>1. ref = IF d.code \in header.candidates THEN As("REUSE_FIELD", d) ELSE Ambiguous
    BY <1>2, <1>5 DEF CatalogReference
  <2>. HIDE DEF ref
  <2>. QED
    BY <1>1, <1>2, <1>5, <2>1, AsIs, AmbiguousIs DEF Proposes, ref
<1>6. CASE /\ ~(d.action \in Reuses /\ d.code \notin catalog)
           /\ ~(d.action \in Reuses /\ d.code \in catalog \ header.candidates)
           /\ ~(d.action = "PROPOSE_NEW_FIELD" /\ d.code \in catalog)
  <2>1. ref = d
    BY <1>6 DEF CatalogReference
  <2>. HIDE DEF ref
  <2>. QED
    BY <1>1, <1>2, <1>6, <2>1 DEF Proposes, ref
<1>. QED
  BY <1>3, <1>4, <1>5, <1>6

(* ProposedOnce. *)
OnceFits(D, ds, n) ==
  LET once == ProposedOnce(ds)[n]
  IN  /\ once \in Judgement
      /\ once = ds[n] \/ ~once.sure
      /\ ds[n].action # "PROPOSE_NEW_FIELD" => once = ds[n]
      /\ ds[n].action = "PROPOSE_NEW_FIELD" /\ ds[n].code # NoCode =>
           /\ once.code = ds[n].code
           /\ once.action \in {"PROPOSE_NEW_FIELD", "ROLE_VARIANT"}
      /\ once.action = "PROPOSE_NEW_FIELD" <=>
           /\ ds[n].action = "PROPOSE_NEW_FIELD" /\ ds[n].code # NoCode
           /\ \A k \in D : k < n => ~Proposes(ds[k], ds[n].code)
      /\ once.action = "ROLE_VARIANT" /\ ds[n].action = "PROPOSE_NEW_FIELD" =>
           /\ once.code = ds[n].code /\ ds[n].code # NoCode
           /\ \E k \in D : k < n /\ Proposes(ds[k], ds[n].code)
      /\ once.action = "REUSE_FIELD" => once = ds[n]
      /\ once.action = "PROPOSE_NEW_FIELD" => once = ds[n]

LEMMA OnceIs ==
  ASSUME NEW D, NEW ds \in [D -> Judgement]
  PROVE  \A n \in D : OnceFits(D, ds, n)
<1>. SUFFICES ASSUME NEW n \in D PROVE OnceFits(D, ds, n)
  OBVIOUS
<1>. DEFINE once == ProposedOnce(ds)[n]
            before == \E k \in D : k < n /\ Proposes(ds[k], ds[n].code)
<1>1. once = IF ds[n].action # "PROPOSE_NEW_FIELD" THEN ds[n]
             ELSE IF ds[n].code = NoCode THEN Ambiguous
             ELSE IF before THEN As("ROLE_VARIANT", ds[n]) ELSE ds[n]
  BY DEF ProposedOnce, Proposes
<1>2. before <=> ~ \A k \in D : k < n => ~Proposes(ds[k], ds[n].code)
  OBVIOUS
<1>3. ds[n] \in Judgement /\ "ROLE_VARIANT" \in Actions
  BY DEF Actions, Reuses
<1>. HIDE DEF once, before
<1>4. CASE ds[n].action # "PROPOSE_NEW_FIELD"
  BY <1>1, <1>3, <1>4 DEF once, OnceFits
<1>5. CASE ds[n].action = "PROPOSE_NEW_FIELD" /\ ds[n].code = NoCode
  BY <1>1, <1>3, <1>5, AmbiguousIs DEF once, OnceFits
<1>6. CASE ds[n].action = "PROPOSE_NEW_FIELD" /\ ds[n].code # NoCode /\ before
  <2>1. once = As("ROLE_VARIANT", ds[n])
    BY <1>1, <1>6
  <2>2. once \in Judgement /\ once.action = "ROLE_VARIANT" /\ once.code = ds[n].code /\ ~once.sure
    BY <1>3, <2>1, AsIs
  <2>3. \E k \in D : k < n /\ Proposes(ds[k], ds[n].code)
    BY <1>6 DEF before
  <2>. QED
    BY <1>2, <1>6, <2>2, <2>3 DEF once, OnceFits
<1>7. CASE ds[n].action = "PROPOSE_NEW_FIELD" /\ ds[n].code # NoCode /\ ~before
  <2>1. once = ds[n]
    BY <1>1, <1>7
  <2>. QED
    BY <1>2, <1>3, <1>7, <2>1 DEF once, OnceFits
<1>. QED
  BY <1>4, <1>5, <1>6, <1>7

(* Whoever proposes a code first stays to propose it. *)
LEMMA FirstProposes ==
  ASSUME NEW D, D \subseteq Nat, NEW ds \in [D -> Judgement], NEW n \in D,
         ds[n].action = "PROPOSE_NEW_FIELD", ds[n].code # NoCode
  PROVE  \E k \in D : k <= n /\ Proposes(ProposedOnce(ds)[k], ds[n].code)
<1>. DEFINE proposing == {k \in D : Proposes(ds[k], ds[n].code)}
            first == Min(proposing)
<1>1. n \in proposing /\ proposing \subseteq Nat
  BY DEF Proposes
<1>2. first \in proposing /\ \A k \in proposing : first <= k
  <2>. HIDE DEF proposing
  <2>. QED
    BY <1>1, MinIs
<1>. HIDE DEF first
<1>3. first \in D /\ Proposes(ds[first], ds[n].code) /\ first <= n
  BY <1>1, <1>2
<1>4. \A k \in D : k < first => ~Proposes(ds[k], ds[first].code)
  BY <1>1, <1>2, <1>3 DEF Proposes
<1>5. ProposedOnce(ds)[first].action = "PROPOSE_NEW_FIELD" /\ ProposedOnce(ds)[first] = ds[first]
  <2>1. ds[first].action = "PROPOSE_NEW_FIELD" /\ ds[first].code # NoCode
    BY <1>3 DEF Proposes
  <2>. QED
    BY <1>3, <1>4, <2>1, OnceIs DEF OnceFits
<1>. QED
  BY <1>3, <1>5 DEF Proposes

(* StableDateRoles. *)
DatesFit(D, headers, ds, n) ==
  LET stable == StableDateRoles(headers, ds)[n]
  IN  /\ stable \in Judgement /\ stable.sure = ds[n].sure
      /\ ~DateScoped(headers[n], ds[n]) => stable = ds[n]
      /\ DateScoped(headers[n], ds[n]) =>
           /\ stable.code = Dated[ds[n].code]
           /\ stable.action \in {"PROPOSE_NEW_FIELD", "ROLE_VARIANT"}
           /\ stable.action = "PROPOSE_NEW_FIELD" <=>
                \A k \in D : /\ k < n /\ DateScoped(headers[k], ds[k])
                             => Dated[ds[k].code] # Dated[ds[n].code]

LEMMA DatesAre ==
  ASSUME NEW D, NEW headers, NEW ds \in [D -> Judgement]
  PROVE  \A n \in D : DatesFit(D, headers, ds, n)
<1>. SUFFICES ASSUME NEW n \in D PROVE DatesFit(D, headers, ds, n)
  OBVIOUS
<1>. DEFINE stable == StableDateRoles(headers, ds)[n]
            again == \E k \in D : /\ k < n /\ DateScoped(headers[k], ds[k])
                                  /\ Dated[ds[k].code] = Dated[ds[n].code]
<1>1. stable = IF ~DateScoped(headers[n], ds[n]) THEN ds[n]
               ELSE [ds[n] EXCEPT !.code = Dated[ds[n].code],
                                  !.action = IF again THEN "ROLE_VARIANT" ELSE ds[n].action]
  BY DEF StableDateRoles
<1>2. again <=> ~ \A k \in D : /\ k < n /\ DateScoped(headers[k], ds[k])
                               => Dated[ds[k].code] # Dated[ds[n].code]
  OBVIOUS
<1>. HIDE DEF stable, again
<1>3. ds[n] \in Judgement
  OBVIOUS
<1>4. CASE ~DateScoped(headers[n], ds[n])
  BY <1>1, <1>3, <1>4 DEF stable, DatesFit
<1>5. CASE DateScoped(headers[n], ds[n])
  <2>1. Dated[ds[n].code] \in Codes /\ ds[n].action = "PROPOSE_NEW_FIELD"
    BY <1>5, ContractAssumption DEF DateScoped
  <2>2. stable = [ds[n] EXCEPT !.code = Dated[ds[n].code],
                               !.action = IF again THEN "ROLE_VARIANT" ELSE ds[n].action]
    BY <1>1, <1>5
  <2>. DEFINE given == IF again THEN "ROLE_VARIANT" ELSE ds[n].action
  <2>3. given \in Actions /\ given \in {"PROPOSE_NEW_FIELD", "ROLE_VARIANT"}
        /\ (given = "PROPOSE_NEW_FIELD" <=> ~again)
    BY <2>1 DEF Actions, Reuses
  <2>. HIDE DEF given
  <2>4. /\ stable \in Judgement /\ stable.sure = ds[n].sure
        /\ stable.code = Dated[ds[n].code] /\ stable.action = given
    BY <1>3, <2>1, <2>2, <2>3 DEF Judgement, given
  <2>. QED
    BY <1>2, <1>5, <2>3, <2>4 DEF stable, DatesFit
<1>. QED
  BY <1>4, <1>5

(* A code has at most one date at its end: without it, it has none.           *)
DatedOnce == \A code \in DOMAIN Dated : Dated[code] \notin DOMAIN Dated

(* What a valid chunk leaves to the merge: who varies a code that is not      *)
(* published comes after who proposes it, what is proposed has lost its date, *)
(* and what is still sure is what the model said, but for a date.             *)
Undated(header, said, kept) ==
  /\ header.dated /\ said.code \in DOMAIN Dated /\ kept.code = Dated[said.code]
  /\ \/ kept.action = said.action
     \/ kept.action = "ROLE_VARIANT" /\ kept.code \notin header.candidates
VariesProposed(D, ds) ==
  \A n \in D : ds[n].action \in Reuses /\ ds[n].code \notin Catalog =>
    \E k \in D : k < n /\ Proposes(ds[k], ds[n].code)
ProposesUndated(D, headers, ds) ==
  \A n \in D : ds[n].action = "PROPOSE_NEW_FIELD" =>
    /\ ~DateScoped(headers[n], ds[n]) /\ ds[n].code # NoCode
    /\ ds[n].code \notin headers[n].candidates
SureAsSaid(D, headers, said, ds) ==
  \A n \in D : ds[n].sure => ds[n] = said[n] \/ Undated(headers[n], said[n], ds[n])

LEMMA ChunkIs ==
  ASSUME DatedOnce, NEW D, D \subseteq Nat, NEW headers, NEW said \in [D -> Judgement],
         NEW catalog, catalog \subseteq Catalog,
         \A n \in D : headers[n].candidates \subseteq catalog,
         ValidFields(catalog, headers, NormalizeFieldCatalogReferences(catalog, headers, said))
  PROVE  LET result == NormalizeFieldCatalogReferences(catalog, headers, said)
         IN  /\ result \in [D -> Judgement] /\ VariesProposed(D, result)
             /\ ProposesUndated(D, headers, result) /\ SureAsSaid(D, headers, said, result)
<1>. DEFINE ref == [n \in D |-> CatalogReference(catalog, headers[n], said[n])]
            once == ProposedOnce(ref)
            result == NormalizeFieldCatalogReferences(catalog, headers, said)
            scoped(n) == DateScoped(headers[n], once[n])
<1>1. result = StableDateRoles(headers, once) /\ DOMAIN once = D
  BY DEF NormalizeFieldCatalogReferences, ProposedOnce
<1>2. catalog \subseteq Codes /\ "ROLE_VARIANT" \in Reuses /\ "PROPOSE_NEW_FIELD" \notin Reuses
      /\ Reuses = {"REUSE_FIELD", "ROLE_VARIANT"}
  BY ContractAssumption DEF Reuses
<1>3. \A n \in D :
        /\ ref[n] \in Judgement
        /\ ref[n] = said[n] \/ ~ref[n].sure
        /\ ref[n].action \in Reuses => ref[n].code \in catalog
  <2>. SUFFICES ASSUME NEW n \in D
                PROVE  /\ ref[n] \in Judgement
                       /\ ref[n] = said[n] \/ ~ref[n].sure
                       /\ ref[n].action \in Reuses => ref[n].code \in catalog
    OBVIOUS
  <2>1. ref[n] = CatalogReference(catalog, headers[n], said[n])
    OBVIOUS
  <2>2. said[n] \in Judgement /\ headers[n].candidates \subseteq catalog
    OBVIOUS
  <2>. HIDE DEF ref
  <2>. QED
    BY <1>2, <2>1, <2>2, ReferenceIs
<1>. HIDE DEF ref
<1>4. ref \in [D -> Judgement]
  BY <1>3 DEF ref
<1>5. \A n \in D :
        /\ once[n] \in Judgement
        /\ once[n] = ref[n] \/ ~once[n].sure
        /\ ref[n].action # "PROPOSE_NEW_FIELD" => once[n] = ref[n]
        /\ once[n].action = "PROPOSE_NEW_FIELD" =>
             /\ once[n] = ref[n] /\ once[n].code # NoCode
             /\ \A k \in D : k < n => ~Proposes(ref[k], ref[n].code)
        /\ once[n].action = "ROLE_VARIANT" /\ ref[n].action = "PROPOSE_NEW_FIELD" =>
             /\ once[n].code = ref[n].code /\ ref[n].code # NoCode
             /\ \E k \in D : k < n /\ Proposes(ref[k], ref[n].code)
        /\ once[n].action = "REUSE_FIELD" => once[n] = ref[n]
  <2>. SUFFICES ASSUME NEW n \in D
                PROVE  /\ once[n] \in Judgement
                       /\ once[n] = ref[n] \/ ~once[n].sure
                       /\ ref[n].action # "PROPOSE_NEW_FIELD" => once[n] = ref[n]
                       /\ once[n].action = "PROPOSE_NEW_FIELD" =>
                            /\ once[n] = ref[n] /\ once[n].code # NoCode
                            /\ \A k \in D : k < n => ~Proposes(ref[k], ref[n].code)
                       /\ once[n].action = "ROLE_VARIANT" /\ ref[n].action = "PROPOSE_NEW_FIELD" =>
                            /\ once[n].code = ref[n].code /\ ref[n].code # NoCode
                            /\ \E k \in D : k < n /\ Proposes(ref[k], ref[n].code)
                       /\ once[n].action = "REUSE_FIELD" => once[n] = ref[n]
    OBVIOUS
  <2>1. OnceFits(D, ref, n)
    BY <1>4, OnceIs
  <2>. QED
    BY <2>1 DEF OnceFits
<1>6. \A k \in D : ref[k].action = "PROPOSE_NEW_FIELD" /\ ref[k].code # NoCode =>
        \E m \in D : m <= k /\ Proposes(once[m], ref[k].code)
  BY <1>4, FirstProposes, Zenon
<1>. HIDE DEF once
<1>7. once \in [D -> Judgement]
  <2>1. once = [n \in D |-> once[n]]
    BY <1>1 DEF once, ProposedOnce
  <2>. QED
    BY <1>5, <2>1
<1>. HIDE DEF result
<1>8. \A n \in D :
        /\ result[n] \in Judgement /\ result[n].sure = once[n].sure
        /\ ~scoped(n) => result[n] = once[n]
        /\ scoped(n) =>
             /\ result[n].code = Dated[once[n].code]
             /\ result[n].action \in {"PROPOSE_NEW_FIELD", "ROLE_VARIANT"}
             /\ result[n].action = "PROPOSE_NEW_FIELD" <=>
                  \A k \in D : k < n /\ scoped(k) => Dated[once[k].code] # Dated[once[n].code]
  <2>. SUFFICES ASSUME NEW n \in D
                PROVE  /\ result[n] \in Judgement /\ result[n].sure = once[n].sure
                       /\ ~scoped(n) => result[n] = once[n]
                       /\ scoped(n) =>
                            /\ result[n].code = Dated[once[n].code]
                            /\ result[n].action \in {"PROPOSE_NEW_FIELD", "ROLE_VARIANT"}
                            /\ result[n].action = "PROPOSE_NEW_FIELD" <=>
                                 \A k \in D : k < n /\ scoped(k) =>
                                   Dated[once[k].code] # Dated[once[n].code]
    OBVIOUS
  <2>1. DatesFit(D, headers, once, n)
    BY <1>7, DatesAre
  <2>. QED
    BY <1>1, <2>1 DEF DatesFit
<1>9. DOMAIN result = D
  <2>1. DOMAIN once = D
    BY <1>1
  <2>2. DOMAIN StableDateRoles(headers, once) = D
    <3>. HIDE DEF scoped
    <3>. QED
      BY <2>1 DEF StableDateRoles
  <2>. QED
    BY <1>1, <2>2
<1>10. result \in [D -> Judgement]
  <2>1. \E f : result = [n \in D |-> f[n]]
    <3>. HIDE DEF scoped
    <3>1. StableDateRoles(headers, once) = [n \in DOMAIN once |-> StableDateRoles(headers, once)[n]]
      BY DEF StableDateRoles
    <3>. QED
      BY <1>1, <3>1
  <2>2. result = [n \in D |-> result[n]]
    BY <2>1
  <2>. QED
    BY <1>8, <2>2
<1>11. \A n \in D : scoped(n) =>
         /\ once[n].action = "PROPOSE_NEW_FIELD" /\ headers[n].dated
         /\ once[n].code \in DOMAIN Dated /\ Dated[once[n].code] \notin DOMAIN Dated
  BY DEF DateScoped, DatedOnce
<1>12. /\ \A n, k \in D : result[n].action = "PROPOSE_NEW_FIELD" => result[n].code \notin catalog
       /\ \A n \in D : result[n].action = "ROLE_VARIANT" /\ result[n].code \notin catalog =>
            \E k \in D : Proposes(result[k], result[n].code)
  BY <1>9 DEF ValidFields, Proposed, Proposes, result
<1>. HIDE DEF scoped
<1>13. \A n \in D : scoped(n) => \E k \in D : k <= n /\ Proposes(result[k], Dated[once[n].code])
  <2>. SUFFICES ASSUME NEW n \in D, scoped(n)
                PROVE  \E k \in D : k <= n /\ Proposes(result[k], Dated[once[n].code])
    OBVIOUS
  <2>. DEFINE same == {k \in D : scoped(k) /\ Dated[once[k].code] = Dated[once[n].code]}
              first == Min(same)
  <2>1. n \in same /\ same \subseteq Nat
    OBVIOUS
  <2>2. first \in same /\ \A k \in same : first <= k
    <3>. HIDE DEF same
    <3>. QED
      BY <2>1, MinIs
  <2>. HIDE DEF first
  <2>3. first \in D /\ scoped(first) /\ first <= n /\ Dated[once[first].code] = Dated[once[n].code]
    BY <2>1, <2>2
  <2>4. \A k \in D : k < first /\ scoped(k) => Dated[once[k].code] # Dated[once[first].code]
    BY <2>1, <2>2, <2>3
  <2>5. result[first].action = "PROPOSE_NEW_FIELD" /\ result[first].code = Dated[once[n].code]
    BY <1>8, <2>3, <2>4
  <2>. QED
    BY <2>3, <2>5 DEF Proposes
<1>14. ProposesUndated(D, headers, result)
  <2>. SUFFICES ASSUME NEW n \in D, result[n].action = "PROPOSE_NEW_FIELD"
                PROVE  /\ ~DateScoped(headers[n], result[n]) /\ result[n].code # NoCode
                       /\ result[n].code \notin headers[n].candidates
    BY DEF ProposesUndated
  <2>1. result[n].code \notin headers[n].candidates
    BY <1>12
  <2>2. CASE scoped(n)
    <3>1. result[n].code \notin DOMAIN Dated
      BY <1>8, <1>11, <2>2
    <3>2. Dated[once[n].code] \in Codes
      BY <1>11, <2>2, ContractAssumption
    <3>. QED
      BY <1>8, <2>1, <2>2, <3>1, <3>2, ContractAssumption DEF DateScoped
  <2>3. CASE ~scoped(n)
    BY <1>5, <1>8, <2>1, <2>3 DEF scoped
  <2>. QED
    BY <2>2, <2>3
<1>15. SureAsSaid(D, headers, said, result)
  <2>. SUFFICES ASSUME NEW n \in D, result[n].sure
                PROVE  result[n] = said[n] \/ Undated(headers[n], said[n], result[n])
    BY DEF SureAsSaid
  <2>1. once[n] = said[n]
    BY <1>3, <1>5, <1>8
  <2>2. CASE ~scoped(n)
    BY <1>8, <2>1, <2>2
  <2>3. CASE scoped(n)
    <3>1. result[n].code \notin headers[n].candidates
      <4>1. PICK k \in D : Proposes(result[k], Dated[once[n].code])
        BY <1>13, <2>3
      <4>2. result[k].action = "PROPOSE_NEW_FIELD" /\ result[k].code = result[n].code
        BY <1>8, <2>3, <4>1 DEF Proposes
      <4>. QED
        BY <1>12, <4>2
    <3>. QED
      BY <1>8, <1>11, <2>1, <2>3, <3>1 DEF Undated
  <2>. QED
    BY <2>2, <2>3
<1>16. VariesProposed(D, result)
  <2>. SUFFICES ASSUME NEW n \in D, result[n].action \in Reuses, result[n].code \notin Catalog
                PROVE  \E k \in D : k < n /\ Proposes(result[k], result[n].code)
    BY DEF VariesProposed
  <2>1. CASE scoped(n)
    <3>1. PICK k \in D : k <= n /\ Proposes(result[k], Dated[once[n].code])
      BY <1>13, <2>1
    <3>2. k # n
      BY <1>2, <3>1 DEF Proposes
    <3>3. k < n
      <4>1. k \in Nat /\ n \in Nat
        OBVIOUS
      <4>. QED
        BY <3>1, <3>2, <4>1
    <3>. QED
      BY <1>8, <2>1, <3>1, <3>3
  <2>2. CASE ~scoped(n)
    <3>1. result[n] = once[n]
      BY <1>8, <2>2
    <3>2. ref[n].action = "PROPOSE_NEW_FIELD"
      BY <1>2, <1>3, <1>5, <3>1
    <3>3. once[n].action = "ROLE_VARIANT"
      BY <1>2, <1>5, <3>1, <3>2
    <3>4. PICK j \in D : j < n /\ Proposes(ref[j], ref[n].code)
      BY <1>5, <3>2, <3>3
    <3>5. once[n].code = ref[n].code /\ ref[n].code # NoCode
      BY <1>5, <3>2, <3>3
    <3>6. PICK k \in D : k <= j /\ Proposes(once[k], ref[n].code)
      <4>1. ref[j].action = "PROPOSE_NEW_FIELD" /\ ref[j].code = ref[n].code
        BY <3>4 DEF Proposes
      <4>. QED
        BY <1>6, <3>5, <4>1
    <3>7. k < n
      BY <3>4, <3>6
    <3>8. PICK m \in D : Proposes(result[m], result[n].code)
      BY <1>12, <3>1, <3>3
    <3>9. ~scoped(k)
      <4>. SUFFICES ASSUME scoped(k) PROVE FALSE
        OBVIOUS
      <4>1. result[n].code \in DOMAIN Dated
        BY <1>11, <3>1, <3>5, <3>6 DEF Proposes
      <4>2. ~scoped(m)
        BY <1>8, <1>11, <3>8, <4>1 DEF Proposes
      <4>3. Proposes(once[m], ref[n].code)
        BY <1>8, <3>1, <3>5, <3>8, <4>2
      <4>4. Proposes(ref[m], ref[n].code) /\ Proposes(ref[k], ref[n].code)
        BY <1>5, <3>6, <4>3 DEF Proposes
      <4>5. ref[m].code = ref[n].code /\ ref[k].code = ref[n].code
        BY <4>4 DEF Proposes
      <4>6. ~(m < k) /\ ~(k < m)
        BY <1>5, <3>6, <4>3, <4>4, <4>5 DEF Proposes
      <4>7. m = k
        BY <4>6
      <4>. QED
        BY <4>2, <4>7
    <3>. QED
      BY <1>8, <3>1, <3>5, <3>6, <3>7, <3>9
  <2>. QED
    BY <2>1, <2>2
<1>. QED
  BY <1>10, <1>14, <1>15, <1>16 DEF result

(* What the merge of chunks makes of their decisions. *)
MergedFits(D, headers, said, result) ==
  /\ DOMAIN result = D /\ ValidFields(Catalog, headers, result)
  /\ ~GovernanceReasons(result) =>
       \A n \in D :
         \/ result[n] = said[n]
         \/ /\ result[n].action = said[n].action /\ headers[n].dated
            /\ said[n].code \in DOMAIN Dated /\ result[n].code = Dated[said[n].code]

LEMMA MergeIs ==
  ASSUME NEW D, D \subseteq Nat, NEW headers \in [D -> Header], NEW said,
         NEW ds \in [D -> Judgement], VariesProposed(D, ds), ProposesUndated(D, headers, ds),
         SureAsSaid(D, headers, said, ds)
  PROVE  MergedFits(D, headers, said,
           NormalizeFieldCatalogReferences(Catalog, headers, MergeChunkResults(ds)))
<1>. DEFINE merged == MergeChunkResults(ds)
            ref == [n \in D |-> CatalogReference(Catalog, headers[n], merged[n])]
            once == ProposedOnce(ref)
            result == NormalizeFieldCatalogReferences(Catalog, headers, MergeChunkResults(ds))
<1>1. Reuses = {"REUSE_FIELD", "ROLE_VARIANT"} /\ Catalog \subseteq Codes
  BY ContractAssumption DEF Reuses
<1>2. \A n \in D : headers[n].candidates \subseteq Catalog
  BY DEF Header
<1>3. \A n \in D : merged[n] = ds[n] \/ /\ ds[n].action = "PROPOSE_NEW_FIELD"
                                        /\ merged[n] = [ds[n] EXCEPT !.action = "ROLE_VARIANT"]
  BY DEF MergeChunkResults, Proposed
<1>4. DOMAIN merged = D
  BY DEF MergeChunkResults
<1>5. result = StableDateRoles(headers, once)
  BY <1>4 DEF NormalizeFieldCatalogReferences
<1>. HIDE DEF merged
<1>6. \A n \in D : /\ merged[n] \in Judgement /\ merged[n].code = ds[n].code
                   /\ merged[n] = ds[n] \/ /\ ds[n].action = "PROPOSE_NEW_FIELD"
                                           /\ merged[n].action = "ROLE_VARIANT"
  <2>. SUFFICES ASSUME NEW n \in D
                PROVE  /\ merged[n] \in Judgement /\ merged[n].code = ds[n].code
                       /\ merged[n] = ds[n] \/ /\ ds[n].action = "PROPOSE_NEW_FIELD"
                                               /\ merged[n].action = "ROLE_VARIANT"
    OBVIOUS
  <2>1. ds[n] \in Judgement /\ "ROLE_VARIANT" \in Actions
    BY DEF Actions, Reuses
  <2>2. CASE merged[n] = ds[n]
    BY <2>1, <2>2
  <2>3. CASE merged[n] = [ds[n] EXCEPT !.action = "ROLE_VARIANT"] /\ merged[n] # ds[n]
    BY <1>3, <2>1, <2>3 DEF Judgement
  <2>. QED
    BY <1>3, <2>2, <2>3
<1>7. \A n \in D :
        /\ ref[n] \in Judgement
        /\ ref[n] = merged[n] \/ ~ref[n].sure
        /\ ref[n].action \in Reuses => ref[n].code \in Catalog \cap headers[n].candidates
        /\ ref[n].action = "PROPOSE_NEW_FIELD" =>
             /\ merged[n].action \in Reuses \cup {"PROPOSE_NEW_FIELD"}
             /\ ref[n].code = merged[n].code /\ merged[n].code \notin Catalog
        /\ merged[n].action \in Reuses \cup {"PROPOSE_NEW_FIELD"} /\ merged[n].code \notin Catalog
             /\ merged[n].code # NoCode => Proposes(ref[n], merged[n].code)
  <2>. SUFFICES ASSUME NEW n \in D
                PROVE  /\ ref[n] \in Judgement
                       /\ ref[n] = merged[n] \/ ~ref[n].sure
                       /\ ref[n].action \in Reuses =>
                            ref[n].code \in Catalog \cap headers[n].candidates
                       /\ ref[n].action = "PROPOSE_NEW_FIELD" =>
                            /\ merged[n].action \in Reuses \cup {"PROPOSE_NEW_FIELD"}
                            /\ ref[n].code = merged[n].code /\ merged[n].code \notin Catalog
                       /\ merged[n].action \in Reuses \cup {"PROPOSE_NEW_FIELD"}
                            /\ merged[n].code \notin Catalog /\ merged[n].code # NoCode =>
                            Proposes(ref[n], merged[n].code)
    OBVIOUS
  <2>1. ref[n] = CatalogReference(Catalog, headers[n], merged[n])
    OBVIOUS
  <2>2. merged[n] \in Judgement /\ headers[n].candidates \subseteq Catalog
    BY <1>2, <1>6
  <2>. HIDE DEF ref
  <2>. QED
    BY <1>1, <2>1, <2>2, ReferenceIs
<1>. HIDE DEF ref
<1>8. ref \in [D -> Judgement]
  BY <1>7 DEF ref
<1>9. DOMAIN once = D
  BY <1>8 DEF ProposedOnce
<1>10. \A n \in D :
         /\ once[n] \in Judgement
         /\ once[n] = ref[n] \/ ~once[n].sure
         /\ ref[n].action # "PROPOSE_NEW_FIELD" => once[n] = ref[n]
         /\ once[n].action = "PROPOSE_NEW_FIELD" =>
              /\ once[n] = ref[n] /\ once[n].code # NoCode
              /\ \A k \in D : k < n => ~Proposes(ref[k], ref[n].code)
         /\ once[n].action = "ROLE_VARIANT" /\ ref[n].action = "PROPOSE_NEW_FIELD" =>
              once[n].code = ref[n].code /\ ref[n].code # NoCode
         /\ once[n].action = "REUSE_FIELD" => once[n] = ref[n]
  <2>. SUFFICES ASSUME NEW n \in D
                PROVE  /\ once[n] \in Judgement
                       /\ once[n] = ref[n] \/ ~once[n].sure
                       /\ ref[n].action # "PROPOSE_NEW_FIELD" => once[n] = ref[n]
                       /\ once[n].action = "PROPOSE_NEW_FIELD" =>
                            /\ once[n] = ref[n] /\ once[n].code # NoCode
                            /\ \A k \in D : k < n => ~Proposes(ref[k], ref[n].code)
                       /\ once[n].action = "ROLE_VARIANT" /\ ref[n].action = "PROPOSE_NEW_FIELD" =>
                            once[n].code = ref[n].code /\ ref[n].code # NoCode
                       /\ once[n].action = "REUSE_FIELD" => once[n] = ref[n]
    OBVIOUS
  <2>1. OnceFits(D, ref, n)
    BY <1>8, OnceIs
  <2>. QED
    BY <2>1 DEF OnceFits
<1>11. \A k \in D : ref[k].action = "PROPOSE_NEW_FIELD" /\ ref[k].code # NoCode =>
         \E m \in D : m <= k /\ Proposes(once[m], ref[k].code)
  BY <1>8, FirstProposes, Zenon
<1>12. \E f : once = [n \in D |-> f[n]]
  <2>1. once = [n \in DOMAIN ref |-> once[n]]
    BY DEF ProposedOnce
  <2>. QED
    BY <1>8, <2>1
<1>. HIDE DEF once
<1>13. once \in [D -> Judgement]
  BY <1>10, <1>12
<1>14. \A n \in D : once[n].action = "PROPOSE_NEW_FIELD" =>
         once[n].code = ds[n].code /\ once[n].code \notin Catalog
  BY <1>6, <1>7, <1>10
<1>15. \A n \in D : ~DateScoped(headers[n], once[n])
  <2>. SUFFICES ASSUME NEW n \in D, once[n].action = "PROPOSE_NEW_FIELD"
                PROVE  ~DateScoped(headers[n], once[n])
    BY DEF DateScoped
  <2>1. CASE ds[n].action = "PROPOSE_NEW_FIELD"
    BY <1>14, <2>1 DEF ProposesUndated, DateScoped
  <2>2. CASE ds[n].action # "PROPOSE_NEW_FIELD"
    <3>1. ds[n].action \in Reuses /\ ds[n].code \notin Catalog
      BY <1>6, <1>7, <1>10, <2>2
    <3>2. PICK k \in D : k < n /\ Proposes(ds[k], ds[n].code)
      BY <3>1 DEF VariesProposed
    <3>3. merged[k].action \in Reuses \cup {"PROPOSE_NEW_FIELD"} /\ merged[k].code = ds[n].code
      BY <1>1, <1>6, <3>2 DEF Proposes
    <3>4. ds[n].code # NoCode /\ ref[n].code = ds[n].code
      BY <1>10, <1>14
    <3>5. Proposes(ref[k], ref[n].code)
      BY <1>7, <3>1, <3>3, <3>4
    <3>. QED
      BY <1>10, <3>2, <3>5
  <2>. QED
    BY <2>1, <2>2
<1>16. result = once
  <2>1. \A n \in D : StableDateRoles(headers, once)[n] = once[n]
    <3>. SUFFICES ASSUME NEW n \in D PROVE StableDateRoles(headers, once)[n] = once[n]
      OBVIOUS
    <3>1. DatesFit(D, headers, once, n)
      BY <1>13, DatesAre
    <3>. QED
      BY <1>15, <3>1 DEF DatesFit
  <2>2. StableDateRoles(headers, once) =
          [n \in DOMAIN once |-> StableDateRoles(headers, once)[n]]
    BY DEF StableDateRoles
  <2>. QED
    BY <1>5, <1>9, <1>12, <2>1, <2>2
<1>17. ValidFields(Catalog, headers, once)
  <2>1. \A n, k \in Proposed(once) : n # k => once[n].code # once[k].code
    <3>. SUFFICES ASSUME NEW n \in D, NEW k \in D, k < n, once[n].action = "PROPOSE_NEW_FIELD",
                         once[k].action = "PROPOSE_NEW_FIELD", once[n].code = once[k].code
                  PROVE  FALSE
      <4>1. Proposed(once) = {n \in D : once[n].action = "PROPOSE_NEW_FIELD"}
        BY <1>9 DEF Proposed
      <4>2. \A n, k \in D : n # k => n < k \/ k < n
        OBVIOUS
      <4>. QED
        BY <4>1, <4>2
    <3>. QED
      BY <1>10 DEF Proposes
  <2>2. \A n \in Proposed(once) : once[n].code \notin Catalog
    BY <1>9, <1>14 DEF Proposed
  <2>3. \A n \in D : once[n].action = "REUSE_FIELD" =>
          once[n].code \in Catalog \cap headers[n].candidates
    BY <1>1, <1>7, <1>10
  <2>4. \A n \in D : once[n].action = "ROLE_VARIANT" =>
          \/ once[n].code \in Catalog \cap headers[n].candidates
          \/ once[n].code \notin Catalog /\ \E k \in Proposed(once) : once[k].code = once[n].code
    <3>. SUFFICES ASSUME NEW n \in D, once[n].action = "ROLE_VARIANT"
                  PROVE  \/ once[n].code \in Catalog \cap headers[n].candidates
                         \/ /\ once[n].code \notin Catalog
                            /\ \E k \in Proposed(once) : once[k].code = once[n].code
      OBVIOUS
    <3>1. CASE ref[n].action # "PROPOSE_NEW_FIELD"
      BY <1>1, <1>7, <1>10, <3>1
    <3>2. CASE ref[n].action = "PROPOSE_NEW_FIELD"
      <4>1. once[n].code = ref[n].code /\ ref[n].code # NoCode /\ ref[n].code \notin Catalog
        BY <1>7, <1>10, <3>2
      <4>2. PICK k \in D : Proposes(once[k], ref[n].code)
        BY <1>11, <3>2, <4>1
      <4>3. k \in Proposed(once) /\ once[k].code = once[n].code
        BY <1>9, <4>1, <4>2 DEF Proposed, Proposes
      <4>. QED
        BY <4>1, <4>3
    <3>. QED
      BY <3>1, <3>2
  <2>. QED
    BY <1>9, <2>1, <2>2, <2>3, <2>4 DEF ValidFields
<1>18. ASSUME ~GovernanceReasons(once), NEW n \in D
       PROVE  \/ once[n] = said[n]
              \/ /\ once[n].action = said[n].action /\ headers[n].dated
                 /\ said[n].code \in DOMAIN Dated /\ once[n].code = Dated[said[n].code]
  <2>1. once[n].sure
    BY <1>9, <1>18 DEF GovernanceReasons
  <2>2. once[n] = ref[n] /\ ref[n] = merged[n]
    BY <1>7, <1>10, <2>1
  <2>3. once[n].action \in Reuses => once[n].code \in headers[n].candidates
    BY <1>7, <2>2
  <2>4. merged[n] = ds[n]
    <3>. SUFFICES ASSUME ds[n].action = "PROPOSE_NEW_FIELD", merged[n].action = "ROLE_VARIANT"
                  PROVE  FALSE
      BY <1>6
    <3>1. merged[n].code \in headers[n].candidates
      BY <1>1, <2>2, <2>3
    <3>. QED
      BY <1>6, <3>1 DEF ProposesUndated
  <2>5. once[n] = said[n] \/ Undated(headers[n], said[n], once[n])
    BY <2>1, <2>2, <2>4 DEF SureAsSaid
  <2>. QED
    BY <1>1, <2>3, <2>5 DEF Undated
<1>. QED
  BY <1>9, <1>16, <1>17, <1>18 DEF result, MergedFits

(* Chunks, each of them valid, merge into a result that is valid and, where no *)
(* governor is asked, as the model said it.                                    *)
LEMMA FieldsAreSound ==
  ASSUME DatedOnce, DecideFields
  PROVE  MergedIsValid' /\ RewrittenIsGoverned' /\ judged'.of = "fields"
<1>. DEFINE D == 1..FieldColumns
<1>1. PICK headers \in [D -> Header], said \in [D -> Decision],
           cuts \in SUBSET (1..FieldColumns - 1) :
        LET chunk(n) == {k \in D : \A c \in cuts : k <= c <=> n <= c}
            heads(n) == [k \in chunk(n) |-> headers[k]]
            result(n) == NormalizeFieldCatalogReferences(
                           ChunkCatalog(heads(n)), heads(n), [k \in chunk(n) |-> said[k]])
        IN  /\ \A n \in D : ValidFields(ChunkCatalog(heads(n)), heads(n), result(n))
            /\ judged' = [of |-> "fields", headers |-> headers, said |-> said,
                          result |-> NormalizeFieldCatalogReferences(Catalog, headers,
                            MergeChunkResults([n \in D |-> result(n)[n]]))]
  BY Zenon DEF DecideFields, Judge
<1>. DEFINE chunk(n) == {k \in D : \A c \in cuts : k <= c <=> n <= c}
            heads(n) == [k \in chunk(n) |-> headers[k]]
            told(n) == [k \in chunk(n) |-> said[k]]
            result(n) == NormalizeFieldCatalogReferences(ChunkCatalog(heads(n)), heads(n), told(n))
            ds == [n \in D |-> result(n)[n]]
            whole == NormalizeFieldCatalogReferences(Catalog, headers, MergeChunkResults(ds))
<1>2. \A n \in D : ValidFields(ChunkCatalog(heads(n)), heads(n), result(n))
  BY <1>1, Zenon
<1>3. judged' = [of |-> "fields", headers |-> headers, said |-> said, result |-> whole]
  BY <1>1, Zenon
<1>4. \A n \in D : n \in chunk(n) /\ chunk(n) \subseteq D
  OBVIOUS
<1>5. \A n \in D : \A k \in chunk(n) : chunk(k) = chunk(n)
  OBVIOUS
<1>6. Decision \subseteq Judgement
  BY DEF Decision, Judgement, Actions
<1>7. D \subseteq Nat
  OBVIOUS
<1>. HIDE DEF D, chunk
<1>8. \A n \in D : heads(n) \in [chunk(n) -> Header] /\ told(n) \in [chunk(n) -> Judgement]
  BY <1>4, <1>6
<1>9. ASSUME NEW n \in D
      PROVE  /\ result(n) \in [chunk(n) -> Judgement] /\ VariesProposed(chunk(n), result(n))
             /\ ProposesUndated(chunk(n), heads(n), result(n))
             /\ SureAsSaid(chunk(n), heads(n), told(n), result(n))
  <2>. DEFINE C == chunk(n)  H == heads(n)  T == told(n)  catalog == ChunkCatalog(H)
  <2>1. C \subseteq Nat /\ H \in [C -> Header] /\ T \in [C -> Judgement]
    BY <1>4, <1>7, <1>8
  <2>2. ValidFields(catalog, H, NormalizeFieldCatalogReferences(catalog, H, T))
    BY <1>2
  <2>. HIDE DEF C, H, T
  <2>3. catalog \subseteq Catalog /\ \A k \in C : H[k].candidates \subseteq catalog
    BY <2>1 DEF ChunkCatalog, Header
  <2>. HIDE DEF catalog
  <2>4. LET r == NormalizeFieldCatalogReferences(catalog, H, T)
        IN  /\ r \in [C -> Judgement] /\ VariesProposed(C, r)
            /\ ProposesUndated(C, H, r) /\ SureAsSaid(C, H, T, r)
    BY <2>1, <2>2, <2>3, ChunkIs
  <2>. QED
    BY <2>4 DEF C, H, T, catalog
<1>10. \A n \in D : \A k \in chunk(n) :
         /\ k \in D /\ ds[k] = result(n)[k] /\ heads(n)[k] = headers[k] /\ told(n)[k] = said[k]
  <2>. SUFFICES ASSUME NEW n \in D, NEW k \in chunk(n)
                PROVE  k \in D /\ ds[k] = result(n)[k] /\ heads(n)[k] = headers[k]
                       /\ told(n)[k] = said[k]
    OBVIOUS
  <2>1. k \in D /\ chunk(k) = chunk(n)
    BY <1>4, <1>5
  <2>2. result(k) = result(n)
    BY <2>1
  <2>. HIDE DEF result
  <2>. QED
    BY <2>1, <2>2
<1>. HIDE DEF result, heads, told
<1>11. ds \in [D -> Judgement]
  BY <1>4, <1>9
<1>12. VariesProposed(D, ds)
  <2>. SUFFICES ASSUME NEW n \in D, ds[n].action \in Reuses, ds[n].code \notin Catalog
                PROVE  \E k \in D : k < n /\ Proposes(ds[k], ds[n].code)
    BY DEF VariesProposed
  <2>1. n \in chunk(n) /\ ds[n] = result(n)[n]
    BY <1>4, <1>10
  <2>2. PICK k \in chunk(n) : k < n /\ Proposes(result(n)[k], ds[n].code)
    <3>1. VariesProposed(chunk(n), result(n))
      BY <1>9
    <3>. QED
      BY <2>1, <3>1 DEF VariesProposed
  <2>. HIDE DEF ds
  <2>. QED
    BY <1>10, <2>2
<1>13. ProposesUndated(D, headers, ds)
  <2>. SUFFICES ASSUME NEW n \in D, ds[n].action = "PROPOSE_NEW_FIELD"
                PROVE  /\ ~DateScoped(headers[n], ds[n]) /\ ds[n].code # NoCode
                       /\ ds[n].code \notin headers[n].candidates
    BY DEF ProposesUndated
  <2>1. n \in chunk(n) /\ ds[n] = result(n)[n] /\ heads(n)[n] = headers[n]
    BY <1>4, <1>10
  <2>2. ProposesUndated(chunk(n), heads(n), result(n))
    BY <1>9
  <2>. HIDE DEF ds
  <2>. QED
    BY <2>1, <2>2 DEF ProposesUndated
<1>14. SureAsSaid(D, headers, said, ds)
  <2>. SUFFICES ASSUME NEW n \in D, ds[n].sure
                PROVE  ds[n] = said[n] \/ Undated(headers[n], said[n], ds[n])
    BY DEF SureAsSaid
  <2>1. /\ n \in chunk(n) /\ ds[n] = result(n)[n] /\ heads(n)[n] = headers[n]
        /\ told(n)[n] = said[n]
    BY <1>4, <1>10
  <2>2. SureAsSaid(chunk(n), heads(n), told(n), result(n))
    BY <1>9
  <2>. HIDE DEF ds
  <2>. QED
    BY <2>1, <2>2 DEF SureAsSaid
<1>. HIDE DEF ds
<1>15. MergedFits(D, headers, said, whole)
  BY <1>7, <1>11, <1>12, <1>13, <1>14, MergeIs
<1>16. PublishUnambiguousNewFields(whole) \cap Catalog = {}
  BY <1>15 DEF MergedFits, PublishUnambiguousNewFields, ValidFields
<1>. HIDE DEF whole
<1>17. /\ judged'.of = "fields" /\ judged'.headers = headers /\ judged'.said = said
       /\ judged'.result = whole /\ DOMAIN said = D
  BY <1>3
<1>. QED
  BY <1>15, <1>16, <1>17 DEF MergedFits, MergedIsValid, RewrittenIsGoverned

(* One region of a layout: what the three loops of the normalisation leave.   *)
AnyLayout == [region : Nat, start : Nat, end : Nat, noise : BOOLEAN, materialize : BOOLEAN,
              sure : BOOLEAN]
RowsFit(last, l) ==
  /\ MinRow <= l.start /\ l.start <= l.end /\ l.end <= MaxRow
  /\ l.materialize => l.start > last
  /\ l.materialize = ~l.noise

LEMMA ClampIs ==
  ASSUME NEW row \in Nat
  PROVE  /\ Clamp(row) \in Nat /\ MinRow <= Clamp(row) /\ Clamp(row) <= MaxRow
         /\ MinRow <= row /\ row <= MaxRow => Clamp(row) = row
<1>1. MinRow \in Nat /\ MaxRow \in Nat /\ MinRow <= MaxRow
  BY ContractAssumption
<1>. DEFINE upper == Min({row, MaxRow})
<1>2. upper = IF row <= MaxRow THEN row ELSE MaxRow
  <2>1. row \in Int /\ MaxRow \in Int
    BY <1>1
  <2>2. Min({row, MaxRow}) = IF row <= MaxRow THEN row ELSE MaxRow
    BY <2>1, OfTwo
  <2>. QED
    BY <2>2
<1>. HIDE DEF upper
<1>3. Max({MinRow, upper}) = IF MinRow >= upper THEN MinRow ELSE upper
  <2>1. upper \in Int /\ MinRow \in Int
    BY <1>1, <1>2
  <2>. QED
    BY <2>1, OfTwo
<1>4. Clamp(row) = Max({MinRow, upper})
  BY DEF Clamp, upper
<1>. QED
  BY <1>1, <1>2, <1>3, <1>4

LEMMA DroppedIs ==
  ASSUME NEW l \in AnyLayout, NEW start \in Nat, NEW end \in Nat
  PROVE  LET d == Dropped(l, start, end)
         IN  /\ d \in AnyLayout /\ d.region = l.region /\ d.start = start /\ d.end = end
             /\ d.noise = TRUE /\ d.materialize = FALSE /\ d.sure = FALSE
  BY DEF Dropped, AnyLayout

LEMMA DataRangeIs ==
  ASSUME NEW l \in AnyLayout
  PROVE  LET kept == DataRange(l)
         IN  /\ kept \in AnyLayout /\ kept.region = l.region
             /\ MinRow <= kept.start /\ kept.start <= kept.end /\ kept.end <= MaxRow
<1>1. MinRow \in Nat /\ MaxRow \in Nat /\ MinRow <= MaxRow
  BY ContractAssumption
<1>2. l.start \in Nat /\ l.end \in Nat
  BY DEF AnyLayout
<1>3. CASE l.end < l.start \/ Clamp(l.start) > Clamp(l.end)
  <2>1. DataRange(l) = Dropped(l, MinRow, MaxRow)
    BY <1>3 DEF DataRange
  <2>2. LET d == Dropped(l, MinRow, MaxRow)
        IN  d \in AnyLayout /\ d.region = l.region /\ d.start = MinRow /\ d.end = MaxRow
    BY <1>1 DEF Dropped, AnyLayout
  <2>. QED
    BY <1>1, <2>1, <2>2
<1>4. CASE ~(l.end < l.start \/ Clamp(l.start) > Clamp(l.end))
  <2>1. DataRange(l) = [l EXCEPT !.start = Clamp(l.start), !.end = Clamp(l.end)]
    BY <1>4 DEF DataRange, AnyLayout
  <2>2. /\ Clamp(l.start) \in Nat /\ Clamp(l.end) \in Nat /\ MinRow <= Clamp(l.start)
        /\ Clamp(l.start) <= Clamp(l.end) /\ Clamp(l.end) <= MaxRow
    BY <1>1, <1>2, <1>4, ClampIs
  <2>. QED
    BY <2>1, <2>2 DEF AnyLayout
<1>. QED
  BY <1>3, <1>4

LEMMA IgnoredIs ==
  ASSUME NEW l \in AnyLayout, MinRow <= l.start, l.start <= l.end, l.end <= MaxRow
  PROVE  LET kept == Ignored(l)
         IN  /\ kept \in AnyLayout /\ kept.region = l.region
             /\ MinRow <= kept.start /\ kept.start <= kept.end /\ kept.end <= MaxRow
             /\ kept.materialize = ~kept.noise
<1>1. MinRow \in Nat /\ MaxRow \in Nat /\ MinRow <= MaxRow
  BY ContractAssumption
<1>2. l.start \in Nat /\ l.end \in Nat /\ l.noise \in BOOLEAN /\ l.materialize \in BOOLEAN
  BY DEF AnyLayout
<1>3. CASE l.materialize /\ ~l.noise
  <2>1. Ignored(l) = l
    BY <1>3 DEF Ignored
  <2>. QED
    BY <1>2, <1>3, <2>1
<1>4. CASE ~(l.materialize /\ ~l.noise)
  <2>. DEFINE end == Max({Clamp(l.start), Clamp(l.end)})
  <2>1. Clamp(l.start) = l.start /\ Clamp(l.end) = l.end
    BY <1>1, <1>2, ClampIs
  <2>2. end = l.end
    <3>1. Max({l.start, l.end}) = IF l.start >= l.end THEN l.start ELSE l.end
      BY <1>2, OfTwo
    <3>. QED
      BY <1>2, <2>1, <3>1
  <2>. HIDE DEF end
  <2>3. Ignored(l) = [l EXCEPT !.materialize = FALSE, !.noise = TRUE,
                               !.start = Clamp(l.start), !.end = end]
    BY <1>4 DEF Ignored, AnyLayout, end
  <2>4. Ignored(l) = [l EXCEPT !.materialize = FALSE, !.noise = TRUE,
                               !.start = l.start, !.end = l.end]
    BY <2>1, <2>2, <2>3
  <2>. QED
    BY <2>4 DEF AnyLayout
<1>. QED
  BY <1>3, <1>4

LEMMA HeaderBoundaryIs ==
  ASSUME NEW last \in Nat, MinRow <= last, last <= MaxRow, NEW l \in AnyLayout,
         MinRow <= l.start, l.start <= l.end, l.end <= MaxRow, l.materialize = ~l.noise
  PROVE  LET kept == HeaderBoundary(last, l)
         IN  /\ kept.region = l.region /\ RowsFit(last, kept)
             /\ l.materialize =>
                  \/ ~kept.sure
                  \/ /\ kept.materialize /\ kept.end = l.end
                     /\ kept.start = Max({l.start, last + 1})
<1>1. MinRow \in Nat /\ MaxRow \in Nat /\ MinRow <= MaxRow
  BY ContractAssumption
<1>2. l.start \in Nat /\ l.end \in Nat /\ l.noise \in BOOLEAN /\ l.materialize \in BOOLEAN
  BY DEF AnyLayout
<1>3. Max({l.start, last + 1}) = IF l.start >= last + 1 THEN l.start ELSE last + 1
  BY <1>2, OfTwo
<1>4. CASE ~l.materialize \/ l.start > last
  <2>1. HeaderBoundary(last, l) = l
    BY <1>4 DEF HeaderBoundary
  <2>. QED
    BY <1>2, <1>3, <1>4, <2>1 DEF RowsFit
<1>5. CASE l.materialize /\ ~(l.start > last) /\ last < l.end
  <2>1. HeaderBoundary(last, l) = [l EXCEPT !.start = last + 1]
    BY <1>5 DEF HeaderBoundary
  <2>2. LET kept == [l EXCEPT !.start = last + 1]
        IN  /\ kept.region = l.region /\ kept.start = last + 1 /\ kept.end = l.end
            /\ kept.materialize = l.materialize /\ kept.noise = l.noise
    BY DEF AnyLayout
  <2>. QED
    BY <1>1, <1>2, <1>3, <1>5, <2>1, <2>2 DEF RowsFit
<1>6. CASE l.materialize /\ ~(l.start > last) /\ ~(last < l.end)
  <2>. DEFINE kept == HeaderBoundary(last, l)
  <2>1. kept = Dropped(l, l.end, l.end)
    BY <1>6 DEF HeaderBoundary
  <2>2. /\ kept.region = l.region /\ kept.start = l.end /\ kept.end = l.end
        /\ kept.noise = TRUE /\ kept.materialize = FALSE /\ kept.sure = FALSE
    BY <1>2, <2>1 DEF Dropped, AnyLayout
  <2>3. MinRow <= l.end
    BY <1>1, <1>2
  <2>. HIDE DEF kept
  <2>4. RowsFit(last, kept)
    <3>1. MinRow <= kept.start /\ kept.start <= kept.end /\ kept.end <= MaxRow
      BY <1>1, <1>2, <2>2, <2>3
    <3>2. (kept.materialize => kept.start > last) /\ kept.materialize = ~kept.noise
      BY <2>2, Zenon
    <3>. QED
      BY <3>1, <3>2 DEF RowsFit
  <2>. QED
    BY <2>2, <2>4 DEF kept
<1>. QED
  BY <1>4, <1>5, <1>6

(* A region that the normalisation did not change but for its header. *)
LEMMA NormalizedIs ==
  ASSUME NEW last \in Nat, MinRow <= last, last <= MaxRow, NEW l \in AnyLayout
  PROVE  LET kept == HeaderBoundary(last, Ignored(DataRange(l)))
         IN  /\ kept.region = l.region /\ RowsFit(last, kept)
             /\ DataRange(l) = l /\ l.materialize /\ ~l.noise =>
                  \/ ~kept.sure
                  \/ /\ kept.materialize /\ kept.end = l.end
                     /\ kept.start = Max({l.start, last + 1})
<1>. DEFINE ranged == DataRange(l)
            told == Ignored(ranged)
            kept == HeaderBoundary(last, told)
<1>1. /\ ranged \in AnyLayout /\ ranged.region = l.region
      /\ MinRow <= ranged.start /\ ranged.start <= ranged.end /\ ranged.end <= MaxRow
  BY DataRangeIs
<1>. HIDE DEF ranged
<1>2. /\ told \in AnyLayout /\ told.region = ranged.region
      /\ MinRow <= told.start /\ told.start <= told.end /\ told.end <= MaxRow
      /\ told.materialize = ~told.noise
  BY <1>1, IgnoredIs
<1>3. ranged.materialize /\ ~ranged.noise => told = ranged
  BY DEF Ignored
<1>. HIDE DEF told
<1>4. /\ kept.region = told.region /\ RowsFit(last, kept)
      /\ told.materialize =>
           \/ ~kept.sure
           \/ /\ kept.materialize /\ kept.end = told.end
              /\ kept.start = Max({told.start, last + 1})
  BY <1>2, HeaderBoundaryIs
<1>. HIDE DEF kept
<1>. QED
  BY <1>1, <1>2, <1>3, <1>4 DEF kept, told, ranged

(* Short sequences, put together. *)
LEMMA Together ==
  ASSUME NEW a, NEW b
  PROVE  <<a>> \o <<b>> = <<a, b>> /\ <<a, b>> \o <<>> = <<a, b>> /\ <<a>> \o <<>> = <<a>>
<1>. DEFINE S == {a, b}
<1>1. <<a>> \in Seq(S) /\ <<b>> \in Seq(S) /\ <<a, b>> \in Seq(S) /\ <<>> \in Seq(S)
  OBVIOUS
<1>. HIDE DEF S
<1>2. <<a, b>> \o <<>> = <<a, b>> /\ <<a>> \o <<>> = <<a>>
  BY <1>1, ConcatEmptySeq
<1>3. LET c == <<a>> \o <<b>>
      IN  c \in Seq(S) /\ Len(c) = 2 /\ c[1] = a /\ c[2] = b
  BY <1>1, ConcatProperties
<1>4. <<a>> \o <<b>> = <<a, b>>
  <2>. DEFINE c == <<a>> \o <<b>>  d == <<a, b>>
  <2>1. Len(d) = 2 /\ d[1] = a /\ d[2] = b /\ d \in Seq(S)
    BY <1>1
  <2>2. c \in Seq(S) /\ Len(c) = 2 /\ c[1] = a /\ c[2] = b
    BY <1>3
  <2>. HIDE DEF c, d
  <2>3. \A i \in 1..Len(c) : c[i] = d[i]
    BY <2>1, <2>2
  <2>4. c = d
    BY <2>1, <2>2, <2>3, SeqEqual
  <2>. QED
    BY <2>4 DEF c, d
<1>. QED
  BY <1>2, <1>4

(* The sequence of a set of at most one element. *)
LEMMA OneToSeq ==
  /\ SetToSeq({}) = <<>>
  /\ \A x : SetToSeq({x}) = <<x>>
<1>1. SetToSeq({}) = <<>>
  <2>1. Cardinality({}) = 0
    BY FS_EmptySet
  <2>2. \A f \in [1..0 -> {}] : f = <<>> /\ IsInjective(f)
    BY DEF IsInjective
  <2>3. << >> \in [1..0 -> {}]
    OBVIOUS
  <2>. QED
    BY <2>1, <2>2, <2>3 DEF SetToSeq
<1>2. ASSUME NEW x PROVE SetToSeq({x}) = <<x>>
  <2>1. Cardinality({x}) = 1
    BY FS_Singleton
  <2>2. \A f \in [1..1 -> {x}] : f = <<x>> /\ IsInjective(f)
    BY DEF IsInjective
  <2>3. <<x>> \in [1..1 -> {x}]
    OBVIOUS
  <2>. QED
    BY <2>1, <2>2, <2>3 DEF SetToSeq
<1>. QED
  BY <1>1, <1>2

(* A layout that decides each of the two regions at most once decides both    *)
(* when it is complete, and no decision of the model moves.                    *)
LEMMA CompleteIs ==
  ASSUME NEW first \in Layout,
         NEW others \in {<<>>} \cup {<<Plain(r)>> : r \in 1..3},
         OncePerRegion(<<first>> \o others), Decides(<<first>> \o others) \subseteq {1, 2}
  PROVE  \E second \in AnyLayout : /\ second.region = 2
                                   /\ CompleteOmitted(<<first>> \o others) = <<first, second>>
<1>1. first.region = 1 /\ MinRow \in Nat /\ MaxRow \in Nat
  BY ContractAssumption DEF Layout
<1>2. \A r \in Nat : Plain(r) \in AnyLayout /\ Plain(r).region = r
  BY <1>1 DEF Plain, AnyLayout
<1>3. CASE others = <<>>
  <2>. DEFINE said == <<first>> \o others  more == Dropped(Plain(2), MinRow, MaxRow)
  <2>1. said = <<first>>
    BY <1>3, Together
  <2>2. Decides(said) = {1}
    BY <1>1, <2>1 DEF Decides
  <2>3. \A r \in {1, 2} \ Decides(said) : r = 2
    BY <2>2
  <2>4. {Dropped(Plain(r), MinRow, MaxRow) : r \in {1, 2} \ Decides(said)} = {more}
    BY <2>2
  <2>5. SetToSeq({more}) = <<more>>
    BY OneToSeq
  <2>6. CompleteOmitted(said) = said \o <<more>>
    BY <2>4, <2>5 DEF CompleteOmitted
  <2>. HIDE DEF more, said
  <2>7. CompleteOmitted(said) = <<first, more>>
    BY <2>1, <2>6, Together
  <2>8. more \in AnyLayout /\ more.region = 2
    <3>1. Plain(2) \in AnyLayout /\ Plain(2).region = 2
      BY <1>2
    <3>. QED
      BY <1>1, <3>1 DEF Dropped, AnyLayout, more
  <2>. QED
    BY <2>7, <2>8 DEF said
<1>4. ASSUME NEW r \in 1..3, others = <<Plain(r)>>
      PROVE  r = 2
  <2>. DEFINE said == <<first>> \o others
  <2>1. said = <<first, Plain(r)>>
    BY <1>4, Together
  <2>2. said[1].region = 1 /\ said[2].region = r /\ DOMAIN said = {1, 2}
    <3>1. Plain(r).region = r
      BY <1>2
    <3>. HIDE DEF said
    <3>. QED
      BY <1>1, <2>1, <3>1
  <2>3. r \in Decides(said)
    BY <2>2 DEF Decides
  <2>4. r # 1
    BY <2>2 DEF OncePerRegion, IsInjective
  <2>. QED
    BY <2>3, <2>4
<1>5. CASE others = <<Plain(2)>>
  <2>. DEFINE said == <<first>> \o others
  <2>1. said = <<first, Plain(2)>>
    BY <1>5, Together
  <2>2. said[1].region = 1 /\ said[2].region = 2 /\ DOMAIN said = {1, 2}
    <3>1. Plain(2).region = 2
      BY <1>2
    <3>. HIDE DEF said
    <3>. QED
      BY <1>1, <2>1, <3>1
  <2>3. 1 \in Decides(said) /\ 2 \in Decides(said)
    BY <2>2 DEF Decides
  <2>4. {Dropped(Plain(r), MinRow, MaxRow) : r \in {1, 2} \ Decides(said)} = {}
    BY <2>3
  <2>5. CompleteOmitted(said) = said \o <<>>
    BY <2>4, OneToSeq DEF CompleteOmitted
  <2>6. CompleteOmitted(said) = <<first, Plain(2)>>
    <3>. HIDE DEF said
    <3>. QED
      BY <2>1, <2>5, Together
  <2>. QED
    BY <1>2, <2>6
<1>. QED
  BY <1>3, <1>4, <1>5

LEMMA StructureIsSound ==
  ASSUME DecideStructure
  PROVE  LayoutIsAccounted' /\ judged'.of = "layout"
<1>1. PICK last \in MinRow..MaxRow, first \in Layout,
           others \in {<<>>} \cup {<<Plain(r)>> : r \in 1..3} :
        LET said == <<first>> \o others
            result == NormalizeLayout(last, said)
        IN  judged' = [of |-> "layout", last |-> last, said |-> said, result |-> result,
                       normalized |-> \/ CompleteOmitted(said) # said
                                      \/ \E n \in DOMAIN said : DataRange(said[n]) # said[n],
                       valid |-> ValidStructure(last, result, {}, {})]
  BY Zenon DEF DecideStructure, Judge
<1>. DEFINE said == <<first>> \o others
            result == NormalizeLayout(last, said)
            changed == \/ CompleteOmitted(said) # said
                       \/ \E n \in DOMAIN said : DataRange(said[n]) # said[n]
            complete == CompleteOmitted(said)
            kept(n) == HeaderBoundary(last, Ignored(DataRange(complete[n])))
<1>2. /\ judged'.of = "layout" /\ judged'.last = last /\ judged'.said = said
      /\ judged'.result = result /\ judged'.normalized = changed
      /\ judged'.valid = ValidStructure(last, result, {}, {})
  BY <1>1
<1>3. last \in Nat /\ MinRow <= last /\ last <= MaxRow /\ MaxRow \in Nat
  BY ContractAssumption
<1>4. said[1] = first /\ 1 \in DOMAIN said
  OBVIOUS
<1>5. ASSUME OncePerRegion(said), Decides(said) \subseteq {1, 2}
      PROVE  /\ ValidStructure(last, result, {}, {})
             /\ first.materialize /\ ~first.noise =>
                  \/ changed \/ ~result[1].sure
                  \/ /\ result[1].materialize /\ result[1].end = first.end
                     /\ result[1].start = Max({first.start, last + 1})
  <2>1. PICK second \in AnyLayout : second.region = 2 /\ complete = <<first, second>>
    BY <1>5, CompleteIs
  <2>2. first \in AnyLayout /\ first.region = 1
    BY <1>3 DEF Layout, AnyLayout, Rows
  <2>3. result = [n \in DOMAIN complete |-> kept(n)]
    BY DEF NormalizeLayout
  <2>4. changed \/ DataRange(first) = first
    BY <1>4
  <2>. HIDE DEF complete, said, changed, result
  <2>5. DOMAIN complete = {1, 2} /\ complete[1] = first /\ complete[2] = second
    BY <2>1
  <2>6. DOMAIN result = {1, 2} /\ result[1] = kept(1) /\ result[2] = kept(2)
    BY <2>3, <2>5
  <2>7. /\ kept(1).region = 1 /\ RowsFit(last, kept(1))
        /\ DataRange(first) = first /\ first.materialize /\ ~first.noise =>
             \/ ~kept(1).sure
             \/ /\ kept(1).materialize /\ kept(1).end = first.end
                /\ kept(1).start = Max({first.start, last + 1})
    BY <1>3, <2>2, <2>5, NormalizedIs
  <2>8. kept(2).region = 2 /\ RowsFit(last, kept(2))
    BY <1>3, <2>1, <2>5, NormalizedIs
  <2>. HIDE DEF kept
  <2>9. OncePerRegion(result) /\ Decides(result) = {1, 2}
    BY <2>6, <2>7, <2>8 DEF OncePerRegion, Decides, IsInjective
  <2>10. ValidStructure(last, result, {}, {})
    BY <2>6, <2>7, <2>8, <2>9 DEF ValidStructure, RowsFit
  <2>. QED
    BY <2>4, <2>6, <2>7, <2>10
<1>. HIDE DEF said, result, changed
<1>. QED
  BY <1>2, <1>4, <1>5 DEF LayoutIsAccounted

(* What is kept of the segments of rows is within the region, and apart.      *)
LEMMA RowRolesAre ==
  ASSUME NEW segments, NEW n \in Nat, segments \in [1..n -> [start : Nat, end : Nat]]
  PROVE  /\ \A s \in RowRoles(segments) :
              MinRow <= s.start /\ s.start <= s.end /\ s.end <= MaxRow
         /\ \A s, t \in RowRoles(segments) : s # t => s.end < t.start \/ t.end < s.start
<1>. DEFINE D == 1..n
            start(i) == Max({segments[i].start, MinRow})
            end(i) == Min({segments[i].end, MaxRow})
            kept == {i \in D : start(i) <= end(i)}
            role(i) == [start |-> start(i), end |-> end(i)]
            overlap == \E i, j \in kept : i # j /\ start(i) <= start(j) /\ start(j) <= end(i)
<1>1. MinRow \in Nat /\ MaxRow \in Nat
  BY ContractAssumption
<1>2. \A i \in D : segments[i].start \in Nat /\ segments[i].end \in Nat
  OBVIOUS
<1>3. RowRoles(segments) = IF overlap THEN {} ELSE {role(i) : i \in kept}
  BY DEF RowRoles
<1>4. ASSUME NEW i \in D
      PROVE  start(i) \in Nat /\ end(i) \in Nat /\ MinRow <= start(i) /\ end(i) <= MaxRow
  <2>. DEFINE a == segments[i].start  b == segments[i].end
  <2>1. a \in Nat /\ b \in Nat
    BY <1>2
  <2>. HIDE DEF a, b
  <2>2. /\ Max({a, MinRow}) = IF a >= MinRow THEN a ELSE MinRow
        /\ Min({b, MaxRow}) = IF b <= MaxRow THEN b ELSE MaxRow
    <3>1. a \in Int /\ b \in Int /\ MinRow \in Int /\ MaxRow \in Int
      BY <1>1, <2>1
    <3>. QED
      BY <3>1, OfTwo
  <2>3. start(i) = Max({a, MinRow}) /\ end(i) = Min({b, MaxRow})
    BY DEF a, b
  <2>. HIDE DEF start, end
  <2>4. start(i) \in Nat /\ MinRow <= start(i)
    <3>1. start(i) = IF a >= MinRow THEN a ELSE MinRow
      BY <2>2, <2>3
    <3>. QED
      BY <1>1, <2>1, <3>1
  <2>5. end(i) \in Nat /\ end(i) <= MaxRow
    <3>1. end(i) = IF b <= MaxRow THEN b ELSE MaxRow
      BY <2>2, <2>3
    <3>. QED
      BY <1>1, <2>1, <3>1
  <2>. QED
    BY <2>4, <2>5
<1>. HIDE DEF D, start, end
<1>5. \A i \in kept : /\ start(i) \in Nat /\ end(i) \in Nat /\ start(i) <= end(i)
                      /\ MinRow <= start(i) /\ end(i) <= MaxRow
  BY <1>4
<1>6. CASE overlap
  <2>1. RowRoles(segments) = {}
    BY <1>3, <1>6
  <2>. QED
    BY <2>1
<1>7. CASE ~overlap
  <2>1. RowRoles(segments) = {role(i) : i \in kept}
    BY <1>3, <1>7
  <2>2. \A i, j \in kept : i # j => end(i) < start(j) \/ end(j) < start(i)
    <3>. SUFFICES ASSUME NEW i \in kept, NEW j \in kept, i # j
                  PROVE  end(i) < start(j) \/ end(j) < start(i)
      OBVIOUS
    <3>1. ~(start(i) <= start(j) /\ start(j) <= end(i))
      BY <1>7
    <3>2. ~(start(j) <= start(i) /\ start(i) <= end(j))
      BY <1>7
    <3>. HIDE DEF kept
    <3>. QED
      BY <1>5, <3>1, <3>2
  <2>. HIDE DEF kept
  <2>3. \A s \in RowRoles(segments) : \E i \in kept : s = role(i)
    BY <2>1
  <2>4. \A i \in kept : role(i).start = start(i) /\ role(i).end = end(i)
    OBVIOUS
  <2>. HIDE DEF role
  <2>. QED
    BY <1>5, <2>2, <2>3, <2>4
<1>. QED
  BY <1>6, <1>7

LEMMA RolesAreSound ==
  ASSUME DecideRoles
  PROVE  LayoutIsAccounted' /\ judged'.of = "roles"
<1>1. PICK one \in [start : Rows, end : Rows], two \in [start : Rows, end : Rows],
           more \in BOOLEAN, m \in [names : {"id", "range_of_one", "range_of_two", "nothing"},
                                    propagates : BOOLEAN, known : BOOLEAN] :
        judged' = [of |-> "roles",
                   valid |-> ValidStructure(0, <<Plain(1), Plain(2)>>,
                               RowRoles(IF more THEN <<one, two>> ELSE <<one>>),
                               MergeReference(m))]
  BY Zenon DEF DecideRoles, Judge
<1>. DEFINE segments == IF more THEN <<one, two>> ELSE <<one>>
            plain == <<Plain(1), Plain(2)>>
            roles == RowRoles(segments)
            merges == MergeReference(m)
<1>2. judged'.of = "roles" /\ judged'.valid = ValidStructure(0, plain, roles, merges)
  BY <1>1
<1>3. MinRow \in Nat \ {0} /\ MaxRow \in Nat /\ MinRow <= MaxRow
  BY ContractAssumption
<1>4. \E n \in Nat : segments \in [1..n -> [start : Nat, end : Nat]]
  <2>1. one \in [start : Nat, end : Nat] /\ two \in [start : Nat, end : Nat]
    BY <1>3 DEF Rows
  <2>2. <<one, two>> \in [1..2 -> [start : Nat, end : Nat]]
    BY <2>1
  <2>3. <<one>> \in [1..1 -> [start : Nat, end : Nat]]
    BY <2>1
  <2>. QED
    BY <2>2, <2>3
<1>. HIDE DEF segments
<1>5. /\ \A s \in roles : MinRow <= s.start /\ s.start <= s.end /\ s.end <= MaxRow
      /\ \A s, t \in roles : s # t => s.end < t.start \/ t.end < s.start
  BY <1>4, RowRolesAre
<1>6. \A merge \in merges : merge.names = "id"
  BY DEF MergeReference
<1>7. /\ OncePerRegion(plain) /\ Decides(plain) = {1, 2}
      /\ \A n \in DOMAIN plain : RowsFit(0, plain[n])
  <2>1. DOMAIN plain = {1, 2} /\ plain[1] = Plain(1) /\ plain[2] = Plain(2)
    OBVIOUS
  <2>. HIDE DEF plain
  <2>2. \A r : /\ Plain(r).region = r /\ Plain(r).start = MaxRow /\ Plain(r).end = MaxRow
               /\ Plain(r).noise = FALSE /\ Plain(r).materialize = TRUE
    BY DEF Plain
  <2>3. \A r : RowsFit(0, Plain(r))
    <3>. SUFFICES ASSUME NEW r PROVE RowsFit(0, Plain(r))
      OBVIOUS
    <3>1. /\ MinRow <= Plain(r).start /\ Plain(r).start <= Plain(r).end
          /\ Plain(r).end <= MaxRow /\ Plain(r).start > 0
      BY <1>3, <2>2
    <3>2. Plain(r).materialize = ~Plain(r).noise
      BY <2>2, Zenon
    <3>. QED
      BY <3>1, <3>2 DEF RowsFit
  <2>. QED
    BY <2>1, <2>2, <2>3 DEF OncePerRegion, Decides, IsInjective
<1>. HIDE DEF plain, roles, merges
<1>8. ValidStructure(0, plain, roles, merges)
  BY <1>5, <1>6, <1>7 DEF ValidStructure, RowsFit
<1>. QED
  BY <1>2, <1>8 DEF LayoutIsAccounted

LEMMA SheetIsSound ==
  ASSUME RecognizeSheet
  PROVE  LayoutIsAccounted' /\ judged'.of = "sheet"
<1>1. PICK fast \in Call, fallback \in Call, repair \in Call, review \in Call, asks \in 0..4,
           fits \in BOOLEAN, doubts \in BOOLEAN :
        LET first == IF fast = "none" THEN fallback ELSE fast
            decision == IF first = "invalid" THEN repair ELSE first
        IN  judged' = [of |-> "sheet",
                       fails |-> \/ decision # "valid"
                                 \/ asks > 3
                                 \/ asks > 0 /\ ~fits,
                       result |-> IF asks = 0 THEN decision ELSE Review(decision, review),
                       uncertain |-> doubts \/ (asks > 0 /\ review # "valid")]
  BY Zenon DEF RecognizeSheet, Judge
<1>. DEFINE first == IF fast = "none" THEN fallback ELSE fast
            decision == IF first = "invalid" THEN repair ELSE first
<1>2. /\ judged'.of = "sheet"
      /\ judged'.fails = (\/ decision # "valid"
                          \/ asks > 3
                          \/ asks > 0 /\ ~fits)
      /\ judged'.result = IF asks = 0 THEN decision ELSE Review(decision, review)
  BY <1>1
<1>. HIDE DEF decision
<1>3. judged'.fails \/ judged'.result = "valid"
  BY <1>2 DEF Review
<1>. QED
  BY <1>2, <1>3 DEF LayoutIsAccounted

(* A preview never asks for a range that the evidence of a sheet refuses.     *)
LEMMA PreviewIsSound ==
  ASSUME PreviewSheet
  PROVE  LayoutIsAccounted' /\ judged'.of = "preview"
<1>1. PICK width \in Widths, height \in Widths :
        judged' = [of |-> "preview", height |-> height,
                   areas |-> InitialSheetEvidence(width, height)]
  BY Zenon DEF PreviewSheet, Judge
<1>. DEFINE wide == Min({width, 40})
            per == 800 \div wide
            most == Max({1, per})
            rows == Min({10, most})
            shown == Min({height, rows})
            sample == BodySample(height, shown)
            areas == {Area(1, shown, wide)} \cup {Area(r, r, wide) : r \in sample}
<1>2. /\ judged'.of = "preview" /\ judged'.height = height
      /\ judged'.areas = areas
  BY <1>1 DEF InitialSheetEvidence, INITIAL_PREVIEW_ROWS, INITIAL_PREVIEW_COLUMNS,
              MAX_INITIAL_PREVIEW_CELLS
<1>3. width \in Nat \ {0} /\ height \in Nat \ {0}
  BY ContractAssumption
<1>4. wide = IF width <= 40 THEN width ELSE 40
  BY <1>3, OfTwo
<1>. HIDE DEF wide
<1>5. wide \in Nat \ {0} /\ wide <= 40
  BY <1>3, <1>4
<1>6. per \in Nat
  BY <1>5
<1>. HIDE DEF per
<1>7. most = IF 1 >= per THEN 1 ELSE per
  BY <1>6, OfTwo
<1>. HIDE DEF most
<1>8. most \in Nat /\ most >= 1
  BY <1>6, <1>7
<1>9. rows = IF 10 <= most THEN 10 ELSE most
  BY <1>8, OfTwo
<1>. HIDE DEF rows
<1>10. rows \in Nat /\ 1 <= rows /\ rows <= 10
  BY <1>8, <1>9
<1>11. shown = IF height <= rows THEN height ELSE rows
  <2>1. height \in Int /\ rows \in Int
    BY <1>3, <1>10
  <2>. QED
    BY <2>1, OfTwo
<1>. HIDE DEF shown
<1>12. shown \in Nat /\ 1 <= shown /\ shown <= 10 /\ shown <= height
  BY <1>3, <1>10, <1>11
<1>13. \A r \in sample : r \in Nat /\ shown < r /\ r <= height
  <2>. DEFINE half == (1 + height) \div 2
              body == Max({shown + 1, half})
  <2>1. half \in Nat /\ half <= height
    BY <1>3
  <2>. HIDE DEF half
  <2>2. body = IF shown + 1 >= half THEN shown + 1 ELSE half
    BY <1>12, <2>1, OfTwo
  <2>3. sample = IF height > shown THEN {body, height} ELSE {}
    BY DEF BodySample, half
  <2>. HIDE DEF body, sample
  <2>. QED
    BY <1>3, <1>12, <2>1, <2>2, <2>3
<1>. HIDE DEF sample
<1>14. \A a \in areas :
         \/ a.first = 1 /\ a.last = shown /\ a.width = wide
         \/ a.first \in sample /\ a.last = a.first /\ a.width = wide
  BY DEF Area
<1>15. \A a \in areas : WithinLimits(a, height)
  BY <1>3, <1>5, <1>12, <1>13, <1>14 DEF WithinLimits, MAX_RANGE_ROWS, MAX_RANGE_COLUMNS
<1>16. \A a, b \in areas : a # b => a.last < b.first \/ b.last < a.first
  <2>. SUFFICES ASSUME NEW a \in areas, NEW b \in areas, a # b
                PROVE  a.last < b.first \/ b.last < a.first
    OBVIOUS
  <2>1. a = Area(1, shown, wide) \/ \E r \in sample : a = Area(r, r, wide)
    OBVIOUS
  <2>2. b = Area(1, shown, wide) \/ \E r \in sample : b = Area(r, r, wide)
    OBVIOUS
  <2>. HIDE DEF areas
  <2>3. \A f, l : Area(f, l, wide).first = f /\ Area(f, l, wide).last = l
    BY DEF Area
  <2>4. CASE a = Area(1, shown, wide)
    <3>1. PICK r \in sample : b = Area(r, r, wide)
      BY <2>2, <2>4
    <3>. QED
      BY <1>13, <2>3, <2>4, <3>1
  <2>5. CASE b = Area(1, shown, wide)
    <3>1. PICK r \in sample : a = Area(r, r, wide)
      BY <2>1, <2>5
    <3>. QED
      BY <1>13, <2>3, <2>5, <3>1
  <2>6. ASSUME NEW r \in sample, NEW s \in sample, a = Area(r, r, wide), b = Area(s, s, wide)
        PROVE  a.last < b.first \/ b.last < a.first
    <3>1. r # s
      BY <2>6
    <3>. QED
      BY <1>13, <2>3, <2>6, <3>1
  <2>. QED
    BY <2>1, <2>2, <2>4, <2>5, <2>6
<1>. HIDE DEF areas
<1>. QED
  BY <1>2, <1>15, <1>16 DEF LayoutIsAccounted

(* One step judges one thing, and says nothing of the others. *)
LEMMA OneJudgement ==
  ASSUME ContractNext
  PROVE  /\ AskedOnce' /\ LayoutIsAccounted'
         /\ DatedOnce => MergedIsValid' /\ RewrittenIsGoverned'
<1>1. CASE ChooseColumns
  BY <1>1, ColumnsAskedOnce
       DEF LayoutIsAccounted, MergedIsValid, RewrittenIsGoverned
<1>2. CASE DecideFields
  <2>1. \E headers, said, result :
          judged' = [of |-> "fields", headers |-> headers, said |-> said, result |-> result]
    BY <1>2, Zenon DEF DecideFields, Judge
  <2>2. judged'.of = "fields"
    BY <2>1
  <2>. QED
    BY <1>2, <2>2, FieldsAreSound DEF AskedOnce, LayoutIsAccounted
<1>3. CASE DecideStructure
  BY <1>3, StructureIsSound DEF AskedOnce, MergedIsValid, RewrittenIsGoverned
<1>4. CASE DecideRoles
  BY <1>4, RolesAreSound DEF AskedOnce, MergedIsValid, RewrittenIsGoverned
<1>5. CASE RecognizeSheet
  BY <1>5, SheetIsSound DEF AskedOnce, MergedIsValid, RewrittenIsGoverned
<1>6. CASE PreviewSheet
  BY <1>6, PreviewIsSound DEF AskedOnce, MergedIsValid, RewrittenIsGoverned
<1>. QED
  BY <1>1, <1>2, <1>3, <1>4, <1>5, <1>6 DEF ContractNext

LEMMA NothingIsJudged ==
  ASSUME judged = Nothing
  PROVE  AskedOnce /\ LayoutIsAccounted /\ MergedIsValid /\ RewrittenIsGoverned
<1>1. judged.of = "nothing"
  BY DEF Nothing
<1>. QED
  BY <1>1 DEF AskedOnce, LayoutIsAccounted, MergedIsValid, RewrittenIsGoverned

(* However many columns, regions and header paths a workbook has, each column *)
(* that is asked is judged in exactly one chunk; and however many rows, a     *)
(* complete layout is valid and every row of it accounted for.                *)
THEOREM RequestsAreAccounted ==
  ContractSpec => [](AskedOnce /\ LayoutIsAccounted)
<1>1. ContractInit => AskedOnce /\ LayoutIsAccounted
  BY NothingIsJudged DEF ContractInit
<1>2. AskedOnce /\ LayoutIsAccounted /\ [ContractNext]_judged =>
        (AskedOnce /\ LayoutIsAccounted)'
  <2>1. CASE ContractNext
    BY <2>1, OneJudgement
  <2>2. CASE UNCHANGED judged
    BY <2>2 DEF AskedOnce, LayoutIsAccounted
  <2>. QED
    BY <2>1, <2>2
<1>. QED
  BY <1>1, <1>2, PTL DEF ContractSpec

(* For any catalogue, any number of columns and any cut of them into chunks,  *)
(* the merge of valid chunks is valid and what needs no governor is as the    *)
(* model said it, as long as no code ends with two dates.                     *)
THEOREM AnswersSound ==
  ASSUME DatedOnce
  PROVE  ContractSpec => []AnswersAreSound
<1>1. ContractInit => AnswersAreSound
  BY NothingIsJudged DEF ContractInit, AnswersAreSound
<1>2. AnswersAreSound /\ [ContractNext]_judged => AnswersAreSound'
  <2>1. CASE ContractNext
    BY <2>1, OneJudgement DEF AnswersAreSound
  <2>2. CASE UNCHANGED judged
    BY <2>2 DEF AnswersAreSound, AskedOnce, LayoutIsAccounted, MergedIsValid,
                RewrittenIsGoverned
  <2>. QED
    BY <2>1, <2>2
<1>. QED
  BY <1>1, <1>2, PTL DEF ContractSpec

-----------------------------------------------------------------------------
(* The regions of a sheet.  What is folded over a finite set is computed a    *)
(* subset at a time: a family of subsets that holds a set whenever it holds   *)
(* the set without any one of its members holds them all.                     *)

LEMMA SubsetsUp ==
  ASSUME NEW D, IsFiniteSet(D), NEW P,
         \A S \in SUBSET D : (\A x \in S : S \ {x} \in P) => S \in P
  PROVE  \A S \in SUBSET D : S \in P
<1>. DEFINE Bad == {S \in SUBSET D : S \notin P}
            order == StrictSubsetOrdering(D)
<1>. SUFFICES ASSUME Bad # {} PROVE FALSE
  OBVIOUS
<1>1. IsWellFoundedOn(order, FiniteSubsetsOf(D)) /\ FiniteSubsetsOf(D) = SUBSET D
  BY FS_StrictSubsetOrderingWellFounded, FS_FiniteSubsetsOfFinite
<1>2. Bad \subseteq SUBSET D
  OBVIOUS
<1>3. IsWellFoundedOn(order, SUBSET D)
  BY <1>1
<1>. HIDE DEF Bad, order
<1>4. PICK least \in Bad : \A S \in Bad : ~ (<<S, least>> \in order)
  BY <1>2, <1>3, WFMin
<1>5. least \in SUBSET D /\ least \notin P
  BY DEF Bad
<1>6. ASSUME NEW x \in least PROVE least \ {x} \in P
  <2>1. <<least \ {x}, least>> \in order
    BY <1>5, <1>6 DEF order, StrictSubsetOrdering
  <2>. QED
    BY <1>4, <1>5, <2>1 DEF Bad
<1>. QED
  BY <1>5, <1>6

(* A function that computes a value for each subset, from one of its members  *)
(* and the value of the others.                                               *)
FoldsTo(f, D, V, base, next, pick) ==
  /\ f \in [SUBSET D -> V]
  /\ \A S \in SUBSET D :
       f[S] = IF S = {} THEN base ELSE next[pick[S]][f[S \ {pick[S]}]]

LEMMA FoldExists ==
  ASSUME NEW D, IsFiniteSet(D), NEW V, NEW base \in V, NEW next \in [D -> [V -> V]],
         NEW pick, \A S \in SUBSET D : S # {} => pick[S] \in S
  PROVE  \E f : FoldsTo(f, D, V, base, next, pick)
<1>. DEFINE N == Cardinality(D)
            Small(n) == {S \in SUBSET D : Cardinality(S) <= n}
            Fitting(g, n) ==
              /\ g \in [Small(n) -> V]
              /\ \A S \in Small(n) :
                   g[S] = IF S = {} THEN base ELSE next[pick[S]][g[S \ {pick[S]}]]
            P == {n \in 0..N : \E f : Fitting(f, n)}
<1>1. N \in Nat /\ \A S \in SUBSET D : IsFiniteSet(S) /\ Cardinality(S) \in 0..N
  BY FS_CardinalityType, FS_Subset
<1>2. \A S \in SUBSET D : Cardinality(S) = 0 <=> S = {}
  BY <1>1, FS_EmptySet
<1>3. \A S \in SUBSET D : S # {} => Cardinality(S \ {pick[S]}) = Cardinality(S) - 1
  BY <1>1, FS_RemoveElement
<1>. HIDE DEF N
<1>4. 0 \in P
  <2>. DEFINE g == [S \in Small(0) |-> base]
  <2>1. \A S \in Small(0) : S = {}
    BY <1>1, <1>2
  <2>2. Fitting(g, 0)
    <3>1. g \in [Small(0) -> V]
      OBVIOUS
    <3>2. \A S \in Small(0) : S = {} /\ g[S] = base
      BY <2>1
    <3>. QED
      BY <3>1, <3>2
  <2>. HIDE DEF Fitting, g
  <2>3. \E f : Fitting(f, 0)
    BY <2>2
  <2>. QED
    BY <1>1, <2>3
<1>5. ASSUME NEW n \in 1..N, n - 1 \in P PROVE n \in P
  <2>1. PICK g : Fitting(g, n - 1)
    BY <1>5
  <2>. DEFINE h == [S \in Small(n) |->
                      IF S \in Small(n - 1) THEN g[S] ELSE next[pick[S]][g[S \ {pick[S]}]]]
  <2>2. \A S \in Small(n - 1) : g[S] \in V
    BY <2>1
  <2>3. ASSUME NEW S \in Small(n), S # {}
        PROVE  S \ {pick[S]} \in Small(n - 1) /\ pick[S] \in D
    <3>1. Cardinality(S) \in Nat /\ Cardinality(S) <= n
      BY <1>1
    <3>. QED
      BY <1>3, <2>3, <3>1
  <2>4. \A S \in Small(n - 1) : S \in Small(n) /\ h[S] = g[S]
    BY <1>1
  <2>5. {} \in Small(n - 1)
    BY <1>1, <1>2
  <2>6. ASSUME NEW S \in Small(n)
        PROVE  h[S] = IF S = {} THEN base ELSE next[pick[S]][h[S \ {pick[S]}]]
    <3>1. CASE S \in Small(n - 1)
      BY <2>1, <2>3, <2>4, <3>1
    <3>2. CASE S \notin Small(n - 1)
      BY <2>3, <2>4, <2>5, <3>2
    <3>. QED
      BY <3>1, <3>2
  <2>7. ASSUME NEW S \in Small(n) PROVE h[S] \in V
    <3>1. CASE S \in Small(n - 1)
      BY <2>2, <2>4, <3>1
    <3>2. CASE S \notin Small(n - 1)
      <4>1. S # {}
        BY <2>5, <3>2
      <4>2. pick[S] \in D /\ g[S \ {pick[S]}] \in V
        BY <2>2, <2>3, <4>1
      <4>3. h[S] = next[pick[S]][g[S \ {pick[S]}]]
        BY <3>2
      <4>. HIDE DEF h, Small
      <4>4. next[pick[S]] \in [V -> V]
        BY <4>2
      <4>. DEFINE turn == next[pick[S]]
                  rest == g[S \ {pick[S]}]
      <4>. HIDE DEF turn, rest
      <4>5. turn \in [V -> V] /\ rest \in V
        BY <4>2, <4>4 DEF turn, rest
      <4>6. turn[rest] \in V
        BY <4>5
      <4>. QED
        BY <4>3, <4>6 DEF turn, rest
    <3>. QED
      BY <3>1, <3>2
  <2>8. h \in [Small(n) -> V]
    <3>. HIDE DEF Small
    <3>1. h = [S \in Small(n) |-> h[S]]
      OBVIOUS
    <3>. HIDE DEF h
    <3>. QED
      BY <2>7, <3>1
  <2>9. Fitting(h, n)
    <3>. HIDE DEF h, Small
    <3>. QED
      BY <2>6, <2>8
  <2>. HIDE DEF Fitting, h
  <2>10. \E f : Fitting(f, n)
    BY <2>9
  <2>. QED
    BY <2>10
<1>. HIDE DEF P
<1>6. N \in P
  BY <1>1, <1>4, <1>5, CountingUp
<1>7. PICK g : Fitting(g, N)
  BY <1>6 DEF P
<1>8. Small(N) = SUBSET D
  BY <1>1
<1>9. FoldsTo(g, D, V, base, next, pick)
  BY <1>7, <1>8 DEF FoldsTo
<1>. QED
  BY <1>9

-----------------------------------------------------------------------------
(* Connected sets of cells, and how they cross. *)

Connected(cells) ==
  \A S \in SUBSET cells :
    S # {} /\ (\A a \in S : \A b \in cells : Touch(a, b) => b \in S) => S = cells

LEMMA TouchIs ==
  ASSUME NEW a \in Nat \X Nat, NEW b \in Nat \X Nat
  PROVE  Touch(a, b) <=> \/ a[1] = b[1] /\ (b[2] = a[2] + 1 \/ a[2] = b[2] + 1)
                         \/ a[2] = b[2] /\ (b[1] = a[1] + 1 \/ a[1] = b[1] + 1)
  BY DEF Touch

(* The sides of a set of cells that is connected, told from one of its cells: *)
(* side changes to the right of each step down or up that leads there from    *)
(* the top.                                                                   *)
Sides(side, cells, top, left, right, end) ==
  /\ side \in [Nat \X Nat -> BOOLEAN]
  /\ \A r, j \in Nat : <<r, j>> \notin cells => side[<<r, j + 1>>] = side[<<r, j>>]
  /\ \A r, j \in Nat : r >= top /\ <<r + 1, j>> \notin cells =>
        (side[<<r, j>>] # side[<<r + 1, j>>] <=> end[1] = r + 1 /\ end[2] < j)
  /\ \A r \in Nat : ~side[<<r, left>>]
  /\ \A r \in Nat : r >= top => (side[<<r, right + 1>>] <=> end[1] > r)

LEMMA SidesStart ==
  ASSUME NEW cells, cells \subseteq Nat \X Nat,
         NEW top \in Nat, NEW left \in Nat, NEW right \in Nat,
         NEW start \in cells, start[1] = top
  PROVE  \E side : Sides(side, cells, top, left, right, start)
<1>. DEFINE side == [c \in Nat \X Nat |-> FALSE]
<1>1. \A r, j \in Nat : side[<<r, j>>] = FALSE
  OBVIOUS
<1>2. side \in [Nat \X Nat -> BOOLEAN]
  OBVIOUS
<1>3. \A r \in Nat : right + 1 \in Nat /\ r + 1 \in Nat
  OBVIOUS
<1>. HIDE DEF side
<1>4. \A r \in Nat : r >= top => start[1] # r + 1 /\ ~(start[1] > r)
  OBVIOUS
<1>5. \A j \in Nat : j + 1 \in Nat
  OBVIOUS
<1>6. Sides(side, cells, top, left, right, start)
  BY <1>1, <1>2, <1>3, <1>4, <1>5 DEF Sides
<1>. QED
  BY <1>6

LEMMA SidesAlong ==
  ASSUME NEW cells, cells \subseteq Nat \X Nat,
         NEW top \in Nat, NEW left \in Nat, NEW right \in Nat,
         \A c \in cells : top <= c[1] /\ left <= c[2] /\ c[2] <= right,
         NEW a \in cells, NEW b \in cells, a[1] = b[1], b[2] = a[2] + 1 \/ a[2] = b[2] + 1,
         NEW side, Sides(side, cells, top, left, right, a)
  PROVE  Sides(side, cells, top, left, right, b)
<1>1. /\ a[1] \in Nat /\ a[2] \in Nat /\ b[1] \in Nat /\ b[2] \in Nat
      /\ a = <<a[1], a[2]>> /\ b = <<b[1], b[2]>>
  OBVIOUS
<1>2. ASSUME NEW r \in Nat, NEW j \in Nat, <<r + 1, j>> \notin cells
      PROVE  (a[1] = r + 1 /\ a[2] < j) <=> (b[1] = r + 1 /\ b[2] < j)
  <2>1. a[1] = r + 1 => a[2] # j /\ b[2] # j
    BY <1>1, <1>2
  <2>. QED
    BY <1>1, <2>1
<1>3. \A r, j \in Nat : r >= top /\ <<r + 1, j>> \notin cells =>
        (side[<<r, j>>] # side[<<r + 1, j>>] <=> b[1] = r + 1 /\ b[2] < j)
  BY <1>2 DEF Sides
<1>. QED
  BY <1>3 DEF Sides

(* Sides are exchanged in one row, to the right of a cell.                    *)
Turns(turned, side, row, at) ==
  /\ turned \in [Nat \X Nat -> BOOLEAN]
  /\ \A r, j \in Nat :
       turned[<<r, j>>] = IF r = row /\ at < j THEN ~side[<<r, j>>] ELSE side[<<r, j>>]

LEMMA TurnedIs ==
  ASSUME NEW side \in [Nat \X Nat -> BOOLEAN], NEW row \in Nat, NEW at \in Nat
  PROVE  \E turned : Turns(turned, side, row, at)
<1>. DEFINE turned ==
       [c \in Nat \X Nat |-> IF c[1] = row /\ at < c[2] THEN ~side[c] ELSE side[c]]
<1>1. \A c \in Nat \X Nat : side[c] \in BOOLEAN
  OBVIOUS
<1>2. turned \in [Nat \X Nat -> BOOLEAN]
  BY <1>1
<1>3. \A r, j \in Nat : <<r, j>> \in Nat \X Nat /\ <<r, j>>[1] = r /\ <<r, j>>[2] = j
  OBVIOUS
<1>4. ASSUME NEW r \in Nat, NEW j \in Nat
      PROVE  turned[<<r, j>>] = IF r = row /\ at < j THEN ~side[<<r, j>>] ELSE side[<<r, j>>]
  <2>. DEFINE c == <<r, j>>
  <2>1. c \in Nat \X Nat /\ c[1] = r /\ c[2] = j
    BY <1>3
  <2>. HIDE DEF c
  <2>2. turned[c] = IF c[1] = row /\ at < c[2] THEN ~side[c] ELSE side[c]
    BY <2>1
  <2>3. turned[c] = IF r = row /\ at < j THEN ~side[c] ELSE side[c]
    BY <2>1, <2>2
  <2>. QED
    BY <2>3 DEF c
<1>. HIDE DEF turned
<1>5. Turns(turned, side, row, at)
  BY <1>2, <1>4 DEF Turns
<1>. QED
  BY <1>5

LEMMA SidesTurn ==
  ASSUME NEW cells, cells \subseteq Nat \X Nat,
         NEW top \in Nat, NEW left \in Nat, NEW right \in Nat,
         NEW row \in Nat, NEW at \in Nat, left <= at, at <= right, <<row, at>> \in cells,
         NEW m \in Nat, NEW n \in Nat, (m = row /\ n = row + 1) \/ (n = row /\ m = row + 1),
         NEW side, Sides(side, cells, top, left, right, <<m, at>>)
  PROVE  \E turned : Sides(turned, cells, top, left, right, <<n, at>>)
<1>1. side \in [Nat \X Nat -> BOOLEAN]
  BY DEF Sides
<1>2. PICK turned : Turns(turned, side, row, at)
  BY <1>1, TurnedIs
<1>3. /\ turned \in [Nat \X Nat -> BOOLEAN]
      /\ \A r, j \in Nat :
           turned[<<r, j>>] = IF r = row /\ at < j THEN ~side[<<r, j>>] ELSE side[<<r, j>>]
  BY <1>2 DEF Turns
<1>4. \A r, j \in Nat : side[<<r, j>>] \in BOOLEAN
  BY <1>1
<1>5. ASSUME NEW r \in Nat, NEW j \in Nat, <<r, j>> \notin cells
      PROVE  turned[<<r, j + 1>>] = turned[<<r, j>>]
  <2>1. side[<<r, j + 1>>] = side[<<r, j>>] /\ j + 1 \in Nat
    BY <1>5 DEF Sides
  <2>2. r = row => (at < j <=> at < j + 1)
    BY <1>5
  <2>. QED
    BY <1>3, <2>1, <2>2
<1>6. ASSUME NEW r \in Nat, NEW j \in Nat, r >= top, <<r + 1, j>> \notin cells
      PROVE  turned[<<r, j>>] # turned[<<r + 1, j>>] <=> n = r + 1 /\ at < j
  <2>1. side[<<r, j>>] # side[<<r + 1, j>>] <=> m = r + 1 /\ at < j
    BY <1>6 DEF Sides
  <2>2. r + 1 \in Nat
    OBVIOUS
  <2>3. turned[<<r, j>>] = IF r = row /\ at < j THEN ~side[<<r, j>>] ELSE side[<<r, j>>]
    BY <1>3
  <2>4. turned[<<r + 1, j>>] =
          IF r + 1 = row /\ at < j THEN ~side[<<r + 1, j>>] ELSE side[<<r + 1, j>>]
    BY <1>3, <2>2
  <2>5. side[<<r, j>>] \in BOOLEAN /\ side[<<r + 1, j>>] \in BOOLEAN
    BY <1>4, <2>2
  <2>. DEFINE x == side[<<r, j>>]
              y == side[<<r + 1, j>>]
              u == turned[<<r, j>>]
              v == turned[<<r + 1, j>>]
  <2>. HIDE DEF x, y, u, v
  <2>6. ASSUME ~(at < j) PROVE u # v <=> n = r + 1 /\ at < j
    BY <2>1, <2>3, <2>4, <2>6 DEF x, y, u, v
  <2>7. ASSUME at < j, r = row PROVE u # v <=> n = r + 1
    <3>1. u = ~x /\ v = y /\ x \in BOOLEAN /\ y \in BOOLEAN
      BY <2>3, <2>4, <2>5, <2>7 DEF x, y, u, v
    <3>2. x # y <=> m = r + 1
      BY <2>1, <2>7 DEF x, y
    <3>3. m = r + 1 <=> n # r + 1
      BY <2>7
    <3>. QED
      BY <3>1, <3>2, <3>3
  <2>8. ASSUME at < j, r + 1 = row PROVE u # v <=> n = r + 1
    <3>1. u = x /\ v = ~y /\ x \in BOOLEAN /\ y \in BOOLEAN
      BY <2>3, <2>4, <2>5, <2>8 DEF x, y, u, v
    <3>2. x # y <=> m = r + 1
      BY <2>1, <2>8 DEF x, y
    <3>3. m = r + 1 <=> n # r + 1
      BY <2>8
    <3>. QED
      BY <3>1, <3>2, <3>3
  <2>9. ASSUME at < j, r # row, r + 1 # row PROVE u # v <=> n = r + 1
    <3>1. u = x /\ v = y
      BY <2>3, <2>4, <2>9 DEF x, y, u, v
    <3>2. x # y <=> m = r + 1
      BY <2>1, <2>9 DEF x, y
    <3>3. m = r + 1 <=> n = r + 1
      BY <2>9
    <3>. QED
      BY <3>1, <3>2, <3>3
  <2>. QED
    BY <2>6, <2>7, <2>8, <2>9 DEF u, v
<1>7. ASSUME NEW r \in Nat PROVE ~turned[<<r, left>>]
  <2>1. ~side[<<r, left>>]
    BY DEF Sides
  <2>. QED
    BY <1>3, <2>1
<1>8. ASSUME NEW r \in Nat, r >= top PROVE turned[<<r, right + 1>>] <=> n > r
  <2>1. side[<<r, right + 1>>] <=> m > r
    BY <1>8 DEF Sides
  <2>2. right + 1 \in Nat /\ at < right + 1
    OBVIOUS
  <2>3. turned[<<r, right + 1>>] =
          IF r = row THEN ~side[<<r, right + 1>>] ELSE side[<<r, right + 1>>]
    BY <1>3, <2>2
  <2>4. CASE r = row
    <3>1. m > r <=> ~(n > r)
      BY <2>4
    <3>. QED
      BY <2>1, <2>3, <2>4, <3>1
  <2>5. CASE r # row
    <3>1. m > r <=> n > r
      BY <2>5
    <3>. QED
      BY <2>1, <2>3, <2>5, <3>1
  <2>. QED
    BY <2>4, <2>5
<1>9. Sides(turned, cells, top, left, right, <<n, at>>)
  BY <1>3, <1>5, <1>6, <1>7, <1>8 DEF Sides
<1>. QED
  BY <1>9

LEMMA SidesAcross ==
  ASSUME NEW cells, cells \subseteq Nat \X Nat,
         NEW top \in Nat, NEW left \in Nat, NEW right \in Nat,
         \A c \in cells : top <= c[1] /\ left <= c[2] /\ c[2] <= right,
         NEW a \in cells, NEW b \in cells, a[2] = b[2], b[1] = a[1] + 1 \/ a[1] = b[1] + 1,
         NEW side, Sides(side, cells, top, left, right, a)
  PROVE  \E turned : Sides(turned, cells, top, left, right, b)
<1>1. /\ a[1] \in Nat /\ a[2] \in Nat /\ b[1] \in Nat /\ b[2] \in Nat
      /\ a = <<a[1], a[2]>> /\ b = <<b[1], a[2]>>
  OBVIOUS
<1>. DEFINE m == a[1]
            n == b[1]
            at == a[2]
<1>2. left <= at /\ at <= right
  OBVIOUS
<1>3. /\ m \in Nat /\ n \in Nat /\ at \in Nat
      /\ <<m, at>> \in cells /\ <<n, at>> \in cells
      /\ n = m + 1 \/ m = n + 1
      /\ Sides(side, cells, top, left, right, <<m, at>>) /\ b = <<n, at>>
  BY <1>1
<1>. HIDE DEF m, n, at
<1>4. CASE n = m + 1
  BY <1>2, <1>3, <1>4, SidesTurn
<1>5. CASE m = n + 1
  BY <1>2, <1>3, <1>5, SidesTurn
<1>. QED
  BY <1>3, <1>4, <1>5

(* A connected set that leads from the top row has sides, told from any cell. *)
LEMMA SidesEverywhere ==
  ASSUME NEW cells, cells \subseteq Nat \X Nat, Connected(cells),
         NEW top \in Nat, NEW left \in Nat, NEW right \in Nat,
         \A c \in cells : top <= c[1] /\ left <= c[2] /\ c[2] <= right,
         NEW start \in cells, start[1] = top
  PROVE  \A end \in cells : \E side : Sides(side, cells, top, left, right, end)
<1>. DEFINE S == {end \in cells : \E side : Sides(side, cells, top, left, right, end)}
<1>1. start \in S
  BY SidesStart
<1>2. ASSUME NEW a \in S, NEW b \in cells, Touch(a, b) PROVE b \in S
  <2>1. PICK side : Sides(side, cells, top, left, right, a)
    OBVIOUS
  <2>2. a \in cells /\ a \in Nat \X Nat /\ b \in Nat \X Nat
    OBVIOUS
  <2>3. CASE a[1] = b[1] /\ (b[2] = a[2] + 1 \/ a[2] = b[2] + 1)
    BY <2>1, <2>2, <2>3, SidesAlong
  <2>4. CASE a[2] = b[2] /\ (b[1] = a[1] + 1 \/ a[1] = b[1] + 1)
    BY <2>1, <2>2, <2>4, SidesAcross
  <2>. QED
    BY <1>2, <2>2, <2>3, <2>4, TouchIs
<1>3. S \subseteq cells
  OBVIOUS
<1>. HIDE DEF S
<1>4. S = cells
  BY <1>1, <1>2, <1>3 DEF Connected
<1>. QED
  BY <1>4 DEF S

(* Two connected sets in one rectangle meet, when one leads from its left to  *)
(* its right side and the other from its top to its bottom.                   *)
Cross(A, B, top, left, right, start, end, west, east) ==
  /\ A \subseteq Nat \X Nat /\ Connected(A) /\ B \subseteq Nat \X Nat /\ Connected(B)
  /\ top \in Nat /\ left \in Nat /\ right \in Nat
  /\ \A c \in B : top <= c[1] /\ left <= c[2] /\ c[2] <= right
  /\ start \in B /\ start[1] = top /\ end \in B
  /\ \A c \in A : top <= c[1] /\ c[1] <= end[1]
  /\ west \in A /\ west[2] = left /\ east \in A /\ east[2] >= right

LEMMA Crossing ==
  ASSUME NEW A, NEW B, NEW top, NEW left, NEW right, NEW start, NEW end, NEW west, NEW east,
         Cross(A, B, top, left, right, start, end, west, east)
  PROVE  A \cap B # {}
<1>. USE DEF Cross
<1>. SUFFICES ASSUME A \cap B = {} PROVE FALSE
  OBVIOUS
<1>1. PICK side : Sides(side, B, top, left, right, end)
  BY SidesEverywhere
<1>. DEFINE row == end[1]
            at == end[2]
<1>2. row \in Nat /\ at \in Nat /\ left <= at /\ at <= right
  OBVIOUS
<1>3. side \in [Nat \X Nat -> BOOLEAN]
  BY <1>1 DEF Sides
<1>4. end = <<row, at>>
  OBVIOUS
<1>5. \A c \in A : top <= c[1] /\ c[1] <= row
  OBVIOUS
<1>. HIDE DEF row, at
<1>6. PICK told : Turns(told, side, row, at)
  BY <1>2, <1>3, TurnedIs
<1>7. \A r, j \in Nat : side[<<r, j>>] \in BOOLEAN
  BY <1>3
<1>8. /\ told \in [Nat \X Nat -> BOOLEAN]
       /\ \A r, j \in Nat :
            told[<<r, j>>] = IF r = row /\ at < j THEN ~side[<<r, j>>] ELSE side[<<r, j>>]
  BY <1>6 DEF Turns
<1>9. ASSUME NEW r \in Nat, NEW j \in Nat, <<r, j>> \notin B
      PROVE  told[<<r, j + 1>>] = told[<<r, j>>]
  <2>1. side[<<r, j + 1>>] = side[<<r, j>>] /\ j + 1 \in Nat
    BY <1>1, <1>9 DEF Sides
  <2>2. r = row => j # at
    BY <1>4, <1>9
  <2>3. r = row => (at < j <=> at < j + 1)
    BY <1>2, <2>2
  <2>. QED
    BY <1>8, <2>1, <2>3
<1>10. ASSUME NEW r \in Nat, NEW j \in Nat, r >= top, r + 1 <= row, <<r + 1, j>> \notin B
      PROVE  told[<<r, j>>] = told[<<r + 1, j>>]
  <2>1. side[<<r, j>>] # side[<<r + 1, j>>] <=> row = r + 1 /\ at < j
    BY <1>1, <1>4, <1>10 DEF Sides
  <2>2. r + 1 \in Nat /\ r # row
    BY <1>2, <1>10
  <2>3. told[<<r, j>>] = side[<<r, j>>] /\ side[<<r, j>>] \in BOOLEAN
    BY <1>7, <1>8, <2>2
  <2>4. /\ told[<<r + 1, j>>] =
             IF r + 1 = row /\ at < j THEN ~side[<<r + 1, j>>] ELSE side[<<r + 1, j>>]
        /\ side[<<r + 1, j>>] \in BOOLEAN
    BY <1>7, <1>8, <2>2
  <2>. DEFINE x == side[<<r, j>>]
              y == side[<<r + 1, j>>]
              u == told[<<r, j>>]
              v == told[<<r + 1, j>>]
  <2>5. /\ u = x /\ x \in BOOLEAN /\ y \in BOOLEAN
        /\ v = IF r + 1 = row /\ at < j THEN ~y ELSE y
        /\ x # y <=> row = r + 1 /\ at < j
    BY <2>1, <2>3, <2>4
  <2>. HIDE DEF x, y, u, v
  <2>6. u = v
    BY <2>5
  <2>. QED
    BY <2>6 DEF u, v
<1>11. ASSUME NEW r \in Nat PROVE ~told[<<r, left>>]
  <2>1. ~side[<<r, left>>]
    BY <1>1 DEF Sides
  <2>. QED
    BY <1>2, <1>8, <2>1
<1>12. ASSUME NEW r \in Nat, r >= top, r <= row PROVE told[<<r, right + 1>>]
  <2>1. side[<<r, right + 1>>] <=> row > r
    BY <1>1, <1>4, <1>12 DEF Sides
  <2>2. right + 1 \in Nat /\ at < right + 1
    BY <1>2
  <2>3. told[<<r, right + 1>>] =
          IF r = row THEN ~side[<<r, right + 1>>] ELSE side[<<r, right + 1>>]
    BY <1>7, <1>8, <2>2
  <2>4. side[<<r, right + 1>>] \in BOOLEAN
    BY <1>7, <1>8, <2>2
  <2>. DEFINE x == side[<<r, right + 1>>]
              u == told[<<r, right + 1>>]
  <2>5. /\ x \in BOOLEAN /\ u = IF r = row THEN ~x ELSE x
        /\ x <=> row > r
    BY <2>1, <2>3, <2>4
  <2>. HIDE DEF x, u
  <2>6. r = row \/ row > r
    BY <1>2, <1>12
  <2>7. CASE r = row
    <3>1. ~x /\ u = ~x
      BY <1>2, <2>5, <2>7
    <3>. QED
      BY <2>5, <3>1 DEF u
  <2>8. CASE row > r
    <3>1. x /\ u = x
      BY <1>2, <2>5, <2>8
    <3>. QED
      BY <2>5, <3>1 DEF u
  <2>. QED
    BY <2>6, <2>7, <2>8
<1>. DEFINE S == {a \in A : ~told[a] /\ a[2] <= right}
<1>13. \A c \in A : /\ c[1] \in Nat /\ c[2] \in Nat /\ c = <<c[1], c[2]>>
                    /\ <<c[1], c[2]>> \notin B /\ top <= c[1] /\ c[1] <= row
  BY <1>5
<1>14. west \in S
  <2>1. ~told[<<west[1], left>>]
    BY <1>11, <1>13
  <2>2. west = <<west[1], left>>
    BY <1>13
  <2>3. left <= right
    BY <1>2
  <2>. QED
    BY <2>1, <2>2, <2>3
<1>15. ASSUME NEW a \in S, NEW b \in A, Touch(a, b) PROVE b \in S
  <2>. DEFINE m == a[1]
              n == b[1]
              i == a[2]
              j == b[2]
  <2>1. /\ m \in Nat /\ n \in Nat /\ i \in Nat /\ j \in Nat
        /\ <<m, i>> \notin B /\ <<n, j>> \notin B /\ a = <<m, i>> /\ b = <<n, j>>
        /\ top <= m /\ m <= row /\ top <= n /\ n <= row
        /\ ~told[<<m, i>>] /\ i <= right
    BY <1>13
  <2>2. \/ m = n /\ (j = i + 1 \/ i = j + 1)
        \/ i = j /\ (n = m + 1 \/ m = n + 1)
    BY <1>15, TouchIs
  <2>3. ~told[<<n, j>>] /\ j <= right => b \in S
    BY <2>1
  <2>. HIDE DEF m, n, i, j, S
  <2>4. CASE m = n /\ j = i + 1
    <3>1. told[<<n, j>>] = told[<<m, i>>]
      BY <1>9, <2>1, <2>4
    <3>2. told[<<n, right + 1>>]
      BY <1>12, <2>1
    <3>3. j # right + 1
      BY <2>1, <3>1, <3>2
    <3>. QED
      BY <2>1, <2>3, <2>4, <3>1, <3>3
  <2>5. CASE m = n /\ i = j + 1
    <3>1. told[<<n, j>>] = told[<<m, i>>]
      BY <1>9, <2>1, <2>5
    <3>. QED
      BY <2>1, <2>3, <2>5, <3>1
  <2>6. CASE i = j /\ n = m + 1
    BY <1>10, <2>1, <2>3, <2>6
  <2>7. CASE i = j /\ m = n + 1
    BY <1>10, <2>1, <2>3, <2>7
  <2>. QED
    BY <2>2, <2>4, <2>5, <2>6, <2>7
<1>16. S = A
  <2>1. S \subseteq A
    OBVIOUS
  <2>. HIDE DEF S
  <2>. QED
    BY <1>14, <1>15, <2>1 DEF Connected
<1>17. ~told[east] /\ east[2] <= right
  BY <1>16
<1>18. east = <<east[1], right>> /\ east[1] \in Nat /\ top <= east[1] /\ east[1] <= row
  BY <1>13, <1>17
<1>19. told[<<east[1], right + 1>>] = told[<<east[1], right>>]
  BY <1>9, <1>13, <1>18
<1>. QED
  BY <1>12, <1>17, <1>18, <1>19

(* The bounds of a set of cells: it lies within them and reaches each.        *)
Box == [top : Nat, left : Nat, bottom : Nat, right : Nat]

Bounds(b, cells) ==
  /\ b \in Box
  /\ \A c \in cells : b.top <= c[1] /\ c[1] <= b.bottom /\ b.left <= c[2] /\ c[2] <= b.right
  /\ \E c \in cells : c[1] = b.top
  /\ \E c \in cells : c[2] = b.left
  /\ \E c \in cells : c[1] = b.bottom
  /\ \E c \in cells : c[2] = b.right

LEMMA BoundsAre ==
  ASSUME NEW cells, cells \subseteq Nat \X Nat, cells # {},
         NEW bound \in Nat, \A c \in cells : c[1] <= bound /\ c[2] <= bound
  PROVE  Bounds(BoundsOf(cells), cells)
<1>. DEFINE rows == {c[1] : c \in cells}
            columns == {c[2] : c \in cells}
            b == [top |-> Min(rows), left |-> Min(columns),
                  bottom |-> Max(rows), right |-> Max(columns)]
<1>1. BoundsOf(cells) = b
  BY DEF BoundsOf
<1>2. /\ rows \subseteq Nat /\ rows # {} /\ columns \subseteq Nat /\ columns # {}
      /\ \A c \in cells : c[1] \in rows /\ c[2] \in columns
      /\ \A r \in rows : \E c \in cells : c[1] = r
      /\ \A r \in columns : \E c \in cells : c[2] = r
  OBVIOUS
<1>3. (\A r \in rows : r <= bound) /\ \A r \in columns : r <= bound
  OBVIOUS
<1>. HIDE DEF rows, columns
<1>4. /\ Min(rows) \in rows /\ \A r \in rows : Min(rows) <= r
      /\ Min(columns) \in columns /\ \A r \in columns : Min(columns) <= r
  BY <1>2, MinIs
<1>5. /\ Max(rows) \in rows /\ \A r \in rows : r <= Max(rows)
      /\ Max(columns) \in columns /\ \A r \in columns : r <= Max(columns)
  BY <1>2, <1>3, MaxIs
<1>6. b \in Box
  BY <1>2, <1>4, <1>5 DEF Box
<1>7. /\ b.top = Min(rows) /\ b.left = Min(columns)
      /\ b.bottom = Max(rows) /\ b.right = Max(columns)
  OBVIOUS
<1>. HIDE DEF b
<1>8. Bounds(b, cells)
  BY <1>2, <1>4, <1>5, <1>6, <1>7 DEF Bounds
<1>. QED
  BY <1>1, <1>8

LEMMA BoundsAreOne ==
  ASSUME NEW cells, NEW a, NEW b, Bounds(a, cells), Bounds(b, cells),
         cells \subseteq Nat \X Nat
  PROVE  a = b
<1>1. a \in Box /\ b \in Box
  BY DEF Bounds
<1>2. a.top = b.top
  BY <1>1 DEF Bounds, Box
<1>3. a.left = b.left
  BY <1>1 DEF Bounds, Box
<1>4. a.bottom = b.bottom
  BY <1>1 DEF Bounds, Box
<1>5. a.right = b.right
  BY <1>1 DEF Bounds, Box
<1>. QED
  BY <1>1, <1>2, <1>3, <1>4, <1>5 DEF Box

(* Two connected sets that do not meet and have one upper left corner lie one *)
(* in the other's bounds and reach less far down and right.                   *)
LEMMA CornersNest ==
  ASSUME NEW A, A \subseteq Nat \X Nat, Connected(A), NEW B, B \subseteq Nat \X Nat, Connected(B),
         A \cap B = {}, NEW a, Bounds(a, A), NEW b, Bounds(b, B),
         a.top = b.top, a.left = b.left
  PROVE  \/ a.bottom < b.bottom /\ a.right < b.right
         \/ b.bottom < a.bottom /\ b.right < a.right
<1>1. /\ a \in Box /\ b \in Box
      /\ \A c \in A : a.top <= c[1] /\ c[1] <= a.bottom /\ a.left <= c[2] /\ c[2] <= a.right
      /\ \A c \in B : b.top <= c[1] /\ c[1] <= b.bottom /\ b.left <= c[2] /\ c[2] <= b.right
  BY DEF Bounds
<1>2. PICK an \in A, aw \in A, as \in A, ae \in A :
        an[1] = a.top /\ aw[2] = a.left /\ as[1] = a.bottom /\ ae[2] = a.right
  BY DEF Bounds
<1>3. PICK bn \in B, bw \in B, bs \in B, be \in B :
        bn[1] = b.top /\ bw[2] = b.left /\ bs[1] = b.bottom /\ be[2] = b.right
  BY DEF Bounds
<1>4. /\ a.top \in Nat /\ a.left \in Nat /\ a.bottom \in Nat /\ a.right \in Nat
      /\ b.top \in Nat /\ b.left \in Nat /\ b.bottom \in Nat /\ b.right \in Nat
  BY <1>1 DEF Box
<1>. DEFINE top == a.top
            left == a.left
            low == a.bottom
            far == a.right
            deep == b.bottom
            wide == b.right
<1>5. /\ top \in Nat /\ left \in Nat /\ low \in Nat /\ far \in Nat /\ deep \in Nat /\ wide \in Nat
      /\ \A c \in A : top <= c[1] /\ c[1] <= low /\ left <= c[2] /\ c[2] <= far
      /\ \A c \in B : top <= c[1] /\ c[1] <= deep /\ left <= c[2] /\ c[2] <= wide
      /\ an[1] = top /\ aw[2] = left /\ as[1] = low /\ ae[2] = far
      /\ bn[1] = top /\ bw[2] = left /\ bs[1] = deep /\ be[2] = wide
  BY <1>1, <1>2, <1>3, <1>4
<1>. HIDE DEF top, left, low, far, deep, wide
<1>6. ASSUME low <= deep, wide <= far PROVE FALSE
  <2>1. \A c \in A : top <= c[1] /\ c[1] <= bs[1]
    BY <1>5, <1>6
  <2>2. ae[2] >= wide /\ \A c \in B : top <= c[1] /\ left <= c[2] /\ c[2] <= wide
    BY <1>5, <1>6
  <2>3. Cross(A, B, top, left, wide, bn, bs, aw, ae)
    BY <1>5, <2>1, <2>2 DEF Cross
  <2>. QED
    BY <2>3, Crossing
<1>7. ASSUME deep <= low, far <= wide PROVE FALSE
  <2>1. \A c \in B : top <= c[1] /\ c[1] <= as[1]
    BY <1>5, <1>7
  <2>2. be[2] >= far /\ \A c \in A : top <= c[1] /\ left <= c[2] /\ c[2] <= far
    BY <1>5, <1>7
  <2>3. Cross(B, A, top, left, far, an, as, bw, be)
    BY <1>5, <2>1, <2>2 DEF Cross
  <2>. QED
    BY <2>3, Crossing
<1>8. (low < deep /\ far < wide) \/ (deep < low /\ wide < far)
  BY <1>5, <1>6, <1>7
<1>. QED
  BY <1>8 DEF low, far, deep, wide

-----------------------------------------------------------------------------
(* The connected parts of the cells of a sheet. *)

Parting(parts, cells) ==
  /\ UNION parts = cells
  /\ \A p \in parts : p # {} /\ Connected(p)
  /\ \A p, q \in parts : p # q => p \cap q = {}

Near(cell, parts) == {part \in parts : \E other \in part : Touch(cell, other)}
Joined(cell, parts) == (parts \ Near(cell, parts)) \cup {{cell} \cup UNION Near(cell, parts)}

LEMMA WholeIsConnected ==
  ASSUME NEW near, NEW cell, cell \in Nat \X Nat, UNION near \subseteq Nat \X Nat,
         \A p \in near : Connected(p) /\ \E other \in p : Touch(cell, other)
  PROVE  Connected({cell} \cup UNION near)
<1>. DEFINE whole == {cell} \cup UNION near
<1>. SUFFICES ASSUME NEW T \in SUBSET whole, T # {},
                     \A a \in T : \A b \in whole : Touch(a, b) => b \in T
              PROVE  T = whole
  BY DEF Connected
<1>1. ASSUME NEW p \in near, T \cap p # {} PROVE p \subseteq T
  <2>1. T \cap p \in SUBSET p /\ p \subseteq whole
    OBVIOUS
  <2>2. \A a \in T \cap p : \A b \in p : Touch(a, b) => b \in T \cap p
    BY <2>1
  <2>3. T \cap p = p
    BY <1>1, <2>1, <2>2 DEF Connected
  <2>. QED
    BY <2>3
<1>2. cell \in T
  <2>. SUFFICES ASSUME cell \notin T PROVE FALSE
    OBVIOUS
  <2>1. PICK p \in near : T \cap p # {}
    OBVIOUS
  <2>2. PICK other \in p : Touch(cell, other)
    OBVIOUS
  <2>3. other \in Nat \X Nat
    OBVIOUS
  <2>4. Touch(other, cell)
    BY <2>2, <2>3, TouchIs
  <2>5. other \in T /\ cell \in whole
    BY <1>1, <2>1
  <2>. QED
    BY <2>4, <2>5
<1>3. ASSUME NEW p \in near PROVE p \subseteq T
  <2>1. PICK other \in p : Touch(cell, other)
    OBVIOUS
  <2>2. other \in whole
    OBVIOUS
  <2>3. other \in T
    BY <1>2, <2>1, <2>2
  <2>. QED
    BY <1>1, <2>3
<1>. QED
  BY <1>2, <1>3

LEMMA JoinsPart ==
  ASSUME NEW cells, cells \subseteq Nat \X Nat, NEW cell \in cells,
         NEW parts, Parting(parts, cells \ {cell})
  PROVE  Parting(Joined(cell, parts), cells)
<1>. DEFINE near == Near(cell, parts)
            whole == {cell} \cup UNION near
<1>1. near \subseteq parts /\ \A p \in near : \E other \in p : Touch(cell, other)
  BY DEF Near
<1>2. Joined(cell, parts) = (parts \ near) \cup {whole}
  BY DEF Joined
<1>. HIDE DEF near
<1>3. UNION near \subseteq cells \ {cell}
  BY <1>1 DEF Parting
<1>4. Connected(whole)
  BY <1>1, <1>3, WholeIsConnected DEF Parting
<1>5. UNION ((parts \ near) \cup {whole}) = cells
  <2>1. UNION ((parts \ near) \cup {whole}) = {cell} \cup (UNION parts)
    BY <1>1
  <2>. QED
    BY <2>1 DEF Parting
<1>6. whole # {}
  OBVIOUS
<1>7. ASSUME NEW p \in parts \ near PROVE p \cap whole = {}
  <2>1. cell \notin p
    BY DEF Parting
  <2>2. \A q \in near : p \cap q = {}
    BY <1>1 DEF Parting
  <2>. QED
    BY <2>1, <2>2
<1>. HIDE DEF whole
<1>8. Parting((parts \ near) \cup {whole}, cells)
  BY <1>4, <1>5, <1>6, <1>7 DEF Parting
<1>. QED
  BY <1>2, <1>8

LEMMA ComponentsPart ==
  ASSUME NEW cells, IsFiniteSet(cells), cells \subseteq Nat \X Nat
  PROVE  Parting(Components(cells), cells)
<1>. DEFINE V == SUBSET SUBSET cells
            next == [cell \in cells |-> [parts \in V |-> Joined(cell, parts)]]
            pick == [S \in SUBSET cells |-> CHOOSE x \in S : TRUE]
            Joins(f) == f = [S \in SUBSET cells |->
              IF S = {} THEN {}
              ELSE Joined(CHOOSE x \in S : TRUE, f[S \ {CHOOSE x \in S : TRUE}])]
            iter == CHOOSE f : Joins(f)
<1>1. Components(cells) = iter[cells]
  BY DEF Components, FoldSet, MapThenFoldSet, Joined, Near
<1>2. \A cell \in cells : \A parts \in V : Joined(cell, parts) \in V
  BY DEF Joined, Near
<1>3. /\ next \in [cells -> [V -> V]] /\ {} \in V
      /\ \A S \in SUBSET cells : S # {} => pick[S] \in S
  BY <1>2
<1>4. \E f : FoldsTo(f, cells, V, {}, next, pick)
  <2>. HIDE DEF V, next, pick
  <2>. QED
    BY <1>3, FoldExists
<1>5. PICK f : FoldsTo(f, cells, V, {}, next, pick)
  BY <1>4
<1>6. \A S \in SUBSET cells :
        f[S] = IF S = {} THEN {} ELSE Joined(pick[S], f[S \ {pick[S]}])
  <2>1. f \in [SUBSET cells -> V]
    BY <1>5 DEF FoldsTo
  <2>2. ASSUME NEW S \in SUBSET cells, S # {}
        PROVE  next[pick[S]][f[S \ {pick[S]}]] = Joined(pick[S], f[S \ {pick[S]}])
    <3>1. pick[S] \in cells /\ f[S \ {pick[S]}] \in V
      BY <1>3, <2>1, <2>2
    <3>. HIDE DEF pick
    <3>. QED
      BY <3>1
  <2>. HIDE DEF next, pick
  <2>. QED
    BY <1>5, <2>2 DEF FoldsTo
<1>7. Joins(f)
  <2>1. f \in [SUBSET cells -> V]
    BY <1>5 DEF FoldsTo
  <2>. DEFINE Value(S) ==
         IF S = {} THEN {}
         ELSE Joined(CHOOSE x \in S : TRUE, f[S \ {CHOOSE x \in S : TRUE}])
  <2>2. ASSUME NEW S \in SUBSET cells PROVE f[S] = Value(S)
    <3>1. pick[S] = CHOOSE x \in S : TRUE
      OBVIOUS
    <3>. HIDE DEF pick
    <3>. QED
      BY <1>6, <3>1
  <2>3. Joins(f) <=> f = [S \in SUBSET cells |-> Value(S)]
    OBVIOUS
  <2>. HIDE DEF Joins, Value
  <2>. QED
    BY <2>1, <2>2, <2>3
<1>. HIDE DEF Joins
<1>8. Joins(iter)
  BY <1>7
<1>. HIDE DEF iter
<1>9. \A S \in SUBSET cells :
        iter[S] = IF S = {} THEN {} ELSE Joined(pick[S], iter[S \ {pick[S]}])
  BY <1>8 DEF Joins
<1>. DEFINE P == {S \in SUBSET cells : Parting(iter[S], S)}
<1>10. ASSUME NEW S \in SUBSET cells, \A x \in S : S \ {x} \in P PROVE S \in P
  <2>1. CASE S = {}
    <3>1. iter[S] = {}
      BY <1>9, <2>1
    <3>2. Parting({}, {})
      BY DEF Parting
    <3>. QED
      BY <2>1, <3>1, <3>2
  <2>2. CASE S # {}
    <3>1. pick[S] \in S /\ iter[S] = Joined(pick[S], iter[S \ {pick[S]}])
      BY <1>3, <1>9, <2>2
    <3>. HIDE DEF pick
    <3>2. Parting(iter[S \ {pick[S]}], S \ {pick[S]}) /\ S \subseteq Nat \X Nat
      BY <1>10, <3>1
    <3>3. Parting(iter[S], S)
      BY <3>1, <3>2, JoinsPart
    <3>. QED
      BY <3>3
  <2>. QED
    BY <2>1, <2>2
<1>. HIDE DEF P
<1>11. \A S \in SUBSET cells : S \in P
  BY <1>10, SubsetsUp
<1>. QED
  BY <1>1, <1>11 DEF P

-----------------------------------------------------------------------------
(* The order in which components are looked at. *)

LEMMA Products ==
  ASSUME NEW h \in Nat, NEW w \in Nat, NEW k \in Nat, NEW l \in Nat, 1 <= h, 1 <= w, h <= k, w <= l
  PROVE  /\ h * w \in Nat /\ k * l \in Nat /\ h * w <= k * l
         /\ h < k \/ w < l => h * w < k * l
<1>. DEFINE x == k - h
            y == l - w
<1>1. x \in Nat /\ y \in Nat /\ k = h + x /\ l = w + y
  OBVIOUS
<1>. HIDE DEF x, y
<1>2. (h + x) * (w + y) = h * w + h * y + x * w + x * y
  BY <1>1
<1>3. h * y \in Nat /\ x * w \in Nat /\ x * y \in Nat /\ h * w \in Nat
  BY <1>1
<1>4. x > 0 => x * w > 0
  BY <1>1
<1>5. y > 0 => h * y > 0
  BY <1>1
<1>6. k * l = h * w + h * y + x * w + x * y
  BY <1>1, <1>2
<1>7. h < k \/ w < l => x > 0 \/ y > 0
  BY <1>1
<1>. DEFINE a == h * w
            b == h * y
            c == x * w
            d == x * y
            e == k * l
<1>8. a \in Nat /\ b \in Nat /\ c \in Nat /\ d \in Nat /\ e = a + b + c + d
      /\ (x > 0 => c > 0) /\ (y > 0 => b > 0)
  BY <1>3, <1>4, <1>5, <1>6
<1>. HIDE DEF a, b, c, d, e
<1>9. a \in Nat /\ e \in Nat /\ a <= e /\ (x > 0 \/ y > 0 => a < e)
  BY <1>8
<1>. QED
  BY <1>7, <1>9 DEF a, e

Proper(b) == b \in Box /\ b.top <= b.bottom /\ b.left <= b.right

LEMMA BoundsAreProper ==
  ASSUME NEW cells, cells \subseteq Nat \X Nat, NEW b, Bounds(b, cells)
  PROVE  Proper(b)
<1>1. b \in Box
  BY DEF Bounds
<1>2. PICK c \in cells : c[1] = b.top
  BY DEF Bounds
<1>3. c[1] <= b.bottom /\ b.left <= c[2] /\ c[2] <= b.right /\ c[2] \in Nat
  BY <1>2 DEF Bounds
<1>. QED
  BY <1>1, <1>2, <1>3 DEF Proper, Box

LEMMA WithinIsSmaller ==
  ASSUME NEW a, Proper(a), NEW b, Proper(b), Within(a, b)
  PROVE  Size(a) \in Nat /\ Size(b) \in Nat /\ (a # b => Size(a) < Size(b))
<1>1. /\ a \in Box /\ a.top <= a.bottom /\ a.left <= a.right
      /\ b \in Box /\ b.top <= b.bottom /\ b.left <= b.right
  BY DEF Proper
<1>2. /\ a.top \in Nat /\ a.left \in Nat /\ a.bottom \in Nat /\ a.right \in Nat
      /\ b.top \in Nat /\ b.left \in Nat /\ b.bottom \in Nat /\ b.right \in Nat
  BY <1>1 DEF Box
<1>. DEFINE h == a.bottom - a.top + 1
            w == a.right - a.left + 1
            k == b.bottom - b.top + 1
            l == b.right - b.left + 1
<1>3. h \in Nat /\ w \in Nat /\ k \in Nat /\ l \in Nat /\ 1 <= h /\ 1 <= w /\ h <= k /\ w <= l
  BY <1>1, <1>2 DEF Within
<1>4. a # b => h < k \/ w < l
  <2>1. a.top = b.top /\ a.left = b.left /\ a.bottom = b.bottom /\ a.right = b.right => a = b
    BY <1>1 DEF Box
  <2>. QED
    BY <1>1, <1>2, <2>1 DEF Within
<1>5. Size(a) = h * w /\ Size(b) = k * l
  BY DEF Size
<1>. HIDE DEF h, w, k, l
<1>. QED
  BY <1>3, <1>4, <1>5, Products

(* What the components of a sheet are: told apart by their bounds.            *)
Told(parts) ==
  /\ IsFiniteSet(parts)
  /\ \A p \in parts : p \subseteq Nat \X Nat /\ Connected(p) /\ Bounds(BoundsOf(p), p)
  /\ \A p, q \in parts : p # q => p \cap q = {}

LEMMA ToldAreProper ==
  ASSUME NEW parts, Told(parts), NEW p \in parts
  PROVE  Proper(BoundsOf(p)) /\ Size(BoundsOf(p)) \in Nat /\ Within(BoundsOf(p), BoundsOf(p))
<1>1. p \subseteq Nat \X Nat /\ Bounds(BoundsOf(p), p)
  BY DEF Told
<1>. DEFINE b == BoundsOf(p)
<1>. HIDE DEF b
<1>2. Proper(b)
  BY <1>1, BoundsAreProper DEF b
<1>3. Within(b, b)
  BY <1>2 DEF Within, Proper, Box
<1>4. Size(b) \in Nat
  BY <1>2, <1>3, WithinIsSmaller
<1>. QED
  BY <1>2, <1>3, <1>4 DEF b

LEMMA CornersTell ==
  ASSUME NEW parts, Told(parts), NEW p \in parts, NEW q \in parts, p # q,
         BoundsOf(p).top = BoundsOf(q).top, BoundsOf(p).left = BoundsOf(q).left
  PROVE  /\ BoundsOf(p) # BoundsOf(q)
         /\ Within(BoundsOf(p), BoundsOf(q)) \/ Within(BoundsOf(q), BoundsOf(p))
<1>. DEFINE a == BoundsOf(p)
            b == BoundsOf(q)
<1>1. a \in Box /\ b \in Box
  BY ToldAreProper DEF Proper
<1>2. /\ p \subseteq Nat \X Nat /\ Connected(p) /\ Bounds(a, p)
      /\ q \subseteq Nat \X Nat /\ Connected(q) /\ Bounds(b, q) /\ p \cap q = {}
      /\ a.top = b.top /\ a.left = b.left
  BY DEF Told
<1>. HIDE DEF a, b
<1>3. \/ a.bottom < b.bottom /\ a.right < b.right
      \/ b.bottom < a.bottom /\ b.right < a.right
  BY <1>2, CornersNest
<1>4. a # b /\ (Within(a, b) \/ Within(b, a))
  BY <1>1, <1>2, <1>3 DEF Within, Box
<1>. QED
  BY <1>4 DEF a, b

LEMMA BoundsTell ==
  ASSUME NEW parts, Told(parts), NEW p \in parts, NEW q \in parts, p # q
  PROVE  /\ BoundsOf(p) # BoundsOf(q)
         /\ Within(BoundsOf(p), BoundsOf(q)) => LooksFirst(q, p)
<1>1. BoundsOf(p) # BoundsOf(q)
  BY CornersTell
<1>2. Proper(BoundsOf(p)) /\ Proper(BoundsOf(q))
  BY ToldAreProper
<1>3. ASSUME Within(BoundsOf(p), BoundsOf(q)) PROVE LooksFirst(q, p)
  <2>1. Size(BoundsOf(p)) \in Nat /\ Size(BoundsOf(q)) \in Nat
        /\ Size(BoundsOf(p)) < Size(BoundsOf(q))
    BY <1>1, <1>2, <1>3, WithinIsSmaller
  <2>. QED
    BY <2>1 DEF LooksFirst
<1>. QED
  BY <1>1, <1>3

(* The order is total.                                                        *)
Ordered(parts) ==
  /\ \A p, q \in parts : p # q => LooksFirst(p, q) \/ LooksFirst(q, p)
  /\ \A p \in parts : ~LooksFirst(p, p)
  /\ \A p, q, r \in parts : LooksFirst(p, q) /\ LooksFirst(q, r) => LooksFirst(p, r)

LEMMA ToldAreOrdered ==
  ASSUME NEW parts, Told(parts)
  PROVE  Ordered(parts)
<1>1. \A p \in parts : /\ BoundsOf(p) \in Box /\ Size(BoundsOf(p)) \in Nat
                       /\ BoundsOf(p).top \in Nat /\ BoundsOf(p).left \in Nat
  BY ToldAreProper DEF Proper, Box
<1>2. ASSUME NEW p \in parts, NEW q \in parts, p # q PROVE LooksFirst(p, q) \/ LooksFirst(q, p)
  <2>. DEFINE a == BoundsOf(p)
              b == BoundsOf(q)
  <2>1. a.top = b.top /\ a.left = b.left => LooksFirst(p, q) \/ LooksFirst(q, p)
    BY <1>2, CornersTell, BoundsTell
  <2>2. ~(a.top = b.top /\ a.left = b.left) => Before(a, b) \/ Before(b, a)
    <3>1. a.top \in Nat /\ a.left \in Nat /\ b.top \in Nat /\ b.left \in Nat
      BY <1>1
    <3>. HIDE DEF a, b
    <3>. QED
      BY <3>1 DEF Before
  <2>3. Size(a) > Size(b) \/ Size(b) > Size(a) \/ Size(a) = Size(b)
    BY <1>1
  <2>4. /\ LooksFirst(p, q) <=> Size(a) > Size(b) \/ (Size(a) = Size(b) /\ Before(a, b))
        /\ LooksFirst(q, p) <=> Size(b) > Size(a) \/ (Size(b) = Size(a) /\ Before(b, a))
    BY DEF LooksFirst
  <2>. HIDE DEF a, b
  <2>. QED
    BY <2>1, <2>2, <2>3, <2>4
<1>3. ASSUME NEW p \in parts PROVE ~LooksFirst(p, p)
  BY <1>1 DEF LooksFirst, Before
<1>4. ASSUME NEW p \in parts, NEW q \in parts, NEW r \in parts,
             LooksFirst(p, q), LooksFirst(q, r)
      PROVE  LooksFirst(p, r)
  <2>. DEFINE a == BoundsOf(p)
              b == BoundsOf(q)
              c == BoundsOf(r)
  <2>1. /\ Size(a) > Size(b) \/ (Size(a) = Size(b) /\ Before(a, b))
        /\ Size(b) > Size(c) \/ (Size(b) = Size(c) /\ Before(b, c))
    BY <1>4 DEF LooksFirst
  <2>2. /\ a.top \in Nat /\ a.left \in Nat /\ b.top \in Nat /\ b.left \in Nat
        /\ c.top \in Nat /\ c.left \in Nat
        /\ Size(a) \in Nat /\ Size(b) \in Nat /\ Size(c) \in Nat
    BY <1>1
  <2>3. (Size(a) > Size(c) \/ (Size(a) = Size(c) /\ Before(a, c))) => LooksFirst(p, r)
    BY DEF LooksFirst
  <2>. HIDE DEF a, b, c
  <2>4. Before(a, b) /\ Before(b, c) => Before(a, c)
    BY <2>2 DEF Before
  <2>. QED
    BY <2>1, <2>2, <2>3, <2>4
<1>. QED
  BY <1>2, <1>3, <1>4 DEF Ordered

Rank(parts, c) == Cardinality({d \in parts : LooksFirst(d, c)})

LEMMA RanksAre ==
  ASSUME NEW parts, IsFiniteSet(parts), Ordered(parts)
  PROVE  /\ Cardinality(parts) \in Nat
         /\ \A c \in parts : Rank(parts, c) \in 0..Cardinality(parts) - 1
         /\ \A c, d \in parts : LooksFirst(c, d) => Rank(parts, c) < Rank(parts, d)
         /\ \A c, d \in parts : Rank(parts, c) = Rank(parts, d) => c = d
<1>. DEFINE First(c) == {d \in parts : LooksFirst(d, c)}
<1>1. Cardinality(parts) \in Nat
  BY FS_CardinalityType
<1>2. \A c \in parts : IsFiniteSet(First(c)) /\ Cardinality(First(c)) \in Nat
  BY FS_Subset, FS_CardinalityType
<1>3. ASSUME NEW c \in parts PROVE Cardinality(First(c)) < Cardinality(parts)
  <2>1. First(c) \subseteq parts /\ c \notin First(c)
    BY DEF Ordered
  <2>2. First(c) # parts
    BY <2>1
  <2>. HIDE DEF First
  <2>. QED
    BY <2>1, <2>2, <1>1, <1>2, FS_Subset
<1>4. ASSUME NEW c \in parts, NEW d \in parts, LooksFirst(c, d)
      PROVE  Cardinality(First(c)) < Cardinality(First(d))
  <2>1. First(c) \subseteq First(d) /\ c \in First(d) /\ c \notin First(c)
    BY <1>4 DEF Ordered
  <2>2. First(c) # First(d) /\ IsFiniteSet(First(d))
    BY <1>2, <2>1
  <2>. HIDE DEF First
  <2>. QED
    BY <2>1, <2>2, <1>2, FS_Subset
<1>5. \A c \in parts : Rank(parts, c) = Cardinality(First(c))
  BY DEF Rank
<1>. HIDE DEF First
<1>6. \A c \in parts : Rank(parts, c) \in 0..Cardinality(parts) - 1
  BY <1>1, <1>2, <1>3, <1>5
<1>7. \A c, d \in parts : LooksFirst(c, d) => Rank(parts, c) < Rank(parts, d)
  BY <1>4, <1>5
<1>8. \A c, d \in parts : Rank(parts, c) = Rank(parts, d) => c = d
  BY <1>6, <1>7 DEF Ordered
<1>. QED
  BY <1>1, <1>6, <1>7, <1>8

(* The components are looked at one by one, each once, in their order.        *)
Visits(L, parts) ==
  /\ DOMAIN L = 1..Cardinality(parts)
  /\ \A k \in 1..Cardinality(parts) : L[k] \in parts
  /\ \A c \in parts : \E k \in 1..Cardinality(parts) : L[k] = c
  /\ \A i, j \in 1..Cardinality(parts) : LooksFirst(L[i], L[j]) => i < j
  /\ \A i, j \in 1..Cardinality(parts) : L[i] = L[j] => i = j

LEMMA LookedVisits ==
  ASSUME NEW parts, IsFiniteSet(parts), Ordered(parts)
  PROVE  Visits(Looked(parts), parts)
<1>. DEFINE N == Cardinality(parts)
            rank == [c \in parts |-> Rank(parts, c)]
            L == Looked(parts)
<1>1. N \in Nat /\ rank \in [parts -> 0..N - 1]
  BY RanksAre
<1>2. /\ \A c, d \in parts : LooksFirst(c, d) => rank[c] < rank[d]
      /\ \A c, d \in parts : rank[c] = rank[d] => c = d
  BY RanksAre
<1>3. L = [k \in 1..N |-> CHOOSE c \in parts : Rank(parts, c) = k - 1]
  BY DEF Looked, Rank
<1>4. \A k \in 1..N : L[k] = CHOOSE c \in parts : Rank(parts, c) = k - 1
  BY <1>3
<1>5. DOMAIN L = 1..N
  BY <1>3
<1>6. \A c \in parts : rank[c] = Rank(parts, c)
  OBVIOUS
<1>. HIDE DEF N, rank, L
<1>7. rank \in Injection(parts, 0..N - 1)
  BY <1>1, <1>2 DEF Injection, IsInjective
<1>8. IsFiniteSet(0..N - 1) /\ Cardinality(0..N - 1) = N
  <2>1. IsFiniteSet(0..N - 1)
    BY <1>1, FS_Interval
  <2>2. Cardinality(0..N - 1) = IF 0 > N - 1 THEN 0 ELSE N - 1 - 0 + 1
    BY <1>1, FS_Interval
  <2>. QED
    BY <1>1, <2>1, <2>2
<1>9. rank \in Surjection(parts, 0..N - 1)
  BY <1>7, <1>8, FS_Injection DEF N
<1>10. \A k \in 1..N : \E c \in parts : rank[c] = k - 1
  <2>1. \A n \in 0..N - 1 : \E c \in parts : rank[c] = n
    BY <1>9 DEF Surjection
  <2>2. \A k \in 1..N : k - 1 \in 0..N - 1
    BY <1>1
  <2>. QED
    BY <2>1, <2>2
<1>11. \A k \in 1..N : L[k] \in parts /\ rank[L[k]] = k - 1
  BY <1>4, <1>6, <1>10
<1>12. \A c \in parts : \E k \in 1..N : L[k] = c
  <2>. SUFFICES ASSUME NEW c \in parts PROVE \E k \in 1..N : L[k] = c
    OBVIOUS
  <2>. DEFINE k == rank[c] + 1
  <2>1. k \in 1..N /\ rank[c] = k - 1
    BY <1>1
  <2>2. L[k] = c
    BY <1>2, <1>11, <2>1
  <2>. QED
    BY <2>1, <2>2
<1>13. \A i, j \in 1..N : LooksFirst(L[i], L[j]) => i < j
  BY <1>2, <1>11
<1>14. \A i, j \in 1..N : L[i] = L[j] => i = j
  BY <1>11
<1>15. Visits(L, parts)
  BY <1>5, <1>11, <1>12, <1>13, <1>14 DEF Visits, N
<1>. QED
  BY <1>15 DEF L

(* One turn of the loop, and what it has made of the sheet after each.        *)
Absorbs(parts, s, c) ==
  {p \in parts \ (s.absorbed \cup {c}) : Within(BoundsOf(p), BoundsOf(c))}

Turn(parts, s, c) ==
  IF c \in s.absorbed THEN s
  ELSE [regions |-> s.regions \cup {c \cup UNION Absorbs(parts, s, c)},
        absorbed |-> s.absorbed \cup Absorbs(parts, s, c)]

NothingYet == [regions |-> {}, absorbed |-> {}]

Loops(h, L, parts) ==
  /\ h[0] = NothingYet
  /\ \A n \in 1..Cardinality(parts) : h[n] = Turn(parts, h[n - 1], L[n])

LEMMA ConsolidateLoops ==
  ASSUME NEW parts, IsFiniteSet(parts), Visits(Looked(parts), parts)
  PROVE  \E h : Loops(h, Looked(parts), parts)
                /\ Consolidate(parts) = h[Cardinality(parts)].regions
<1>. DEFINE N == Cardinality(parts)
            D == 1..N
            L == Looked(parts)
            V == [regions : SUBSET SUBSET UNION parts, absorbed : SUBSET parts]
            next == [k \in D |-> [s \in V |-> Turn(parts, s, L[k])]]
            pick == [S \in SUBSET D |-> Max(S)]
            Folds(f) == f = [S \in SUBSET D |->
              IF S = {} THEN NothingYet ELSE Turn(parts, f[S \ {Max(S)}], L[Max(S)])]
            iter == CHOOSE f : Folds(f)
<1>1. DOMAIN L = D /\ N \in Nat /\ \A k \in D : L[k] \in parts
  BY FS_CardinalityType DEF Visits
<1>2. Consolidate(parts) = iter[DOMAIN L].regions
  BY <1>1 DEF Consolidate, FoldLeft, MapThenFoldSet, Turn, Absorbs, NothingYet
<1>3. \A k \in D : \A s \in V : Turn(parts, s, L[k]) \in V
  <2>. SUFFICES ASSUME NEW c \in parts, NEW s \in V PROVE Turn(parts, s, c) \in V
    BY <1>1
  <2>1. s.regions \subseteq SUBSET UNION parts /\ s.absorbed \subseteq parts
    OBVIOUS
  <2>2. Absorbs(parts, s, c) \subseteq parts
    BY DEF Absorbs
  <2>3. c \cup UNION Absorbs(parts, s, c) \in SUBSET UNION parts
    BY <2>2
  <2>4. /\ s.regions \cup {c \cup UNION Absorbs(parts, s, c)} \in SUBSET SUBSET UNION parts
        /\ s.absorbed \cup Absorbs(parts, s, c) \in SUBSET parts
    BY <2>1, <2>2, <2>3
  <2>. QED
    BY <2>4 DEF Turn
<1>4. NothingYet \in V
  BY DEF NothingYet
<1>5. next \in [D -> [V -> V]]
  BY <1>3
<1>6. IsFiniteSet(D)
  BY <1>1, FS_Interval
<1>7. \A S \in SUBSET D : S # {} => pick[S] \in S
  <2>. SUFFICES ASSUME NEW S \in SUBSET D, S # {} PROVE Max(S) \in S
    OBVIOUS
  <2>1. S \subseteq Nat /\ \A k \in S : k <= N
    BY <1>1
  <2>. QED
    BY <1>1, <2>1, MaxIs
<1>8. \E f : FoldsTo(f, D, V, NothingYet, next, pick)
  <2>. HIDE DEF V, next, pick, D
  <2>. QED
    BY <1>4, <1>5, <1>6, <1>7, FoldExists
<1>9. PICK f : FoldsTo(f, D, V, NothingYet, next, pick)
  BY <1>8
<1>10. f \in [SUBSET D -> V]
  BY <1>9 DEF FoldsTo
<1>11. \A S \in SUBSET D : S # {} =>
         pick[S] = Max(S) /\ Max(S) \in S /\ Max(S) \in D /\ S \ {Max(S)} \in SUBSET D
  BY <1>7
<1>. DEFINE Value(S) == IF S = {} THEN NothingYet ELSE Turn(parts, f[S \ {Max(S)}], L[Max(S)])
<1>12. ASSUME NEW S \in SUBSET D PROVE f[S] = Value(S)
  <2>1. CASE S = {}
    BY <1>9, <2>1 DEF FoldsTo
  <2>2. CASE S # {}
    <3>1. /\ f[S] = next[pick[S]][f[S \ {pick[S]}]]
          /\ pick[S] = Max(S) /\ Max(S) \in D /\ S \ {Max(S)} \in SUBSET D
      BY <1>9, <1>11, <2>2 DEF FoldsTo
    <3>2. f[S \ {Max(S)}] \in V
      BY <1>10, <3>1
    <3>. DEFINE m == Max(S)
                rest == f[S \ {Max(S)}]
    <3>3. m \in D /\ rest \in V /\ f[S] = next[m][rest]
      BY <3>1, <3>2
    <3>. HIDE DEF m, rest, V, D, pick
    <3>4. next[m][rest] = Turn(parts, rest, L[m])
      BY <3>3
    <3>. QED
      BY <2>2, <3>3, <3>4 DEF m, rest
  <2>. QED
    BY <2>1, <2>2
<1>13. Folds(f) <=> f = [S \in SUBSET D |-> Value(S)]
  OBVIOUS
<1>14. Folds(f)
  <2>. HIDE DEF Folds, Value, D, V
  <2>. QED
    BY <1>10, <1>12, <1>13
<1>. HIDE DEF Folds, Value
<1>15. Folds(iter)
  BY <1>14
<1>. HIDE DEF iter
<1>16. \A S \in SUBSET D :
         iter[S] = IF S = {} THEN NothingYet ELSE Turn(parts, iter[S \ {Max(S)}], L[Max(S)])
  BY <1>15 DEF Folds
<1>. DEFINE h == [n \in 0..N |-> iter[1..n]]
<1>17. ASSUME NEW n \in 1..N PROVE h[n] = Turn(parts, h[n - 1], L[n])
  <2>1. 1..n \in SUBSET D /\ n \in 1..n /\ n - 1 \in 0..N /\ (1..n) \ {n} = 1..n - 1
    BY <1>1
  <2>2. Max(1..n) = n
    <3>1. 1..n \subseteq Nat /\ 1..n # {} /\ n \in Nat /\ \A k \in 1..n : k <= n
      BY <1>1, <2>1
    <3>2. Max(1..n) \in 1..n /\ n <= Max(1..n)
      BY <2>1, <3>1, MaxIs
    <3>. QED
      BY <3>1, <3>2
  <2>3. iter[1..n] = Turn(parts, iter[1..n - 1], L[n])
    <3>. DEFINE S == 1..n
    <3>1. S \in SUBSET D /\ S # {} /\ Max(S) = n /\ S \ {n} = 1..n - 1
      BY <2>1, <2>2
    <3>. HIDE DEF S
    <3>2. iter[S] = Turn(parts, iter[S \ {n}], L[n])
      BY <1>16, <3>1
    <3>. QED
      BY <3>1, <3>2 DEF S
  <2>4. n \in 0..N
    BY <1>1
  <2>. QED
    BY <2>1, <2>3, <2>4
<1>18. h[0] = NothingYet
  <2>1. 1..0 = {} /\ 0 \in 0..N
    BY <1>1
  <2>2. iter[{}] = NothingYet
    BY <1>16
  <2>. QED
    BY <2>1, <2>2
<1>19. h[N] = iter[D]
  BY <1>1
<1>. HIDE DEF h
<1>20. Loops(h, L, parts)
  BY <1>17, <1>18 DEF Loops
<1>. QED
  BY <1>1, <1>2, <1>19, <1>20

(* Each component that was seen is in one of the groups that became regions;  *)
(* a group is in the bounds of its first, which took all that was in them.    *)
Heads(c, G, s, done, parts) ==
  /\ c \in G /\ c \in done /\ c \notin s.absorbed /\ G \ {c} \subseteq s.absorbed
  /\ \A p \in G : Within(BoundsOf(p), BoundsOf(c))
  /\ \A p \in parts : p # c /\ Within(BoundsOf(p), BoundsOf(c)) => p \in s.absorbed

Grouped(groups, s, done, parts) ==
  /\ groups \subseteq SUBSET parts
  /\ s.regions = {UNION G : G \in groups}
  /\ \A G, H \in groups : G # H => G \cap H = {}
  /\ UNION groups = done \cup s.absorbed
  /\ \A G \in groups : \E c \in G : Heads(c, G, s, done, parts)

LEMMA TurnGroups ==
  ASSUME NEW parts, Told(parts), NEW done, NEW x \in parts, x \notin done,
         \A p \in parts : LooksFirst(x, p) => p \notin done,
         NEW s, NEW groups, Grouped(groups, s, done, parts)
  PROVE  \E more : Grouped(more, Turn(parts, s, x), done \cup {x}, parts)
<1>1. CASE x \in s.absorbed
  <2>1. Turn(parts, s, x) = s
    BY <1>1 DEF Turn
  <2>2. \A G \in groups : \E c \in G : Heads(c, G, s, done \cup {x}, parts)
    BY DEF Grouped, Heads
  <2>3. UNION groups = (done \cup {x}) \cup s.absorbed
    <3>1. UNION groups = done \cup s.absorbed
      BY DEF Grouped
    <3>. QED
      BY <1>1, <3>1
  <2>4. Grouped(groups, s, done \cup {x}, parts)
    BY <2>2, <2>3 DEF Grouped
  <2>. QED
    BY <2>1, <2>4
<1>2. CASE x \notin s.absorbed
  <2>. DEFINE inside == Absorbs(parts, s, x)
              new == {x} \cup inside
              more == groups \cup {new}
              t == [regions |-> s.regions \cup {x \cup UNION inside},
                    absorbed |-> s.absorbed \cup inside]
  <2>1. Turn(parts, s, x) = t
    BY <1>2 DEF Turn
  <2>2. /\ inside \subseteq parts /\ x \notin inside /\ inside \cap s.absorbed = {}
        /\ \A p \in inside : Within(BoundsOf(p), BoundsOf(x))
        /\ \A p \in parts : p # x /\ Within(BoundsOf(p), BoundsOf(x)) =>
             p \in s.absorbed \cup inside
    BY DEF Absorbs
  <2>. HIDE DEF inside
  <2>3. inside \cap done = {}
    <3>. SUFFICES ASSUME NEW p \in inside PROVE p \notin done
      OBVIOUS
    <3>1. p \in parts /\ p # x /\ Within(BoundsOf(p), BoundsOf(x))
      BY <2>2
    <3>2. LooksFirst(x, p)
      BY <3>1, BoundsTell
    <3>. QED
      BY <3>1, <3>2
  <2>4. t.regions = {UNION G : G \in more}
    <3>1. UNION new = x \cup UNION inside
      OBVIOUS
    <3>2. s.regions = {UNION G : G \in groups}
      BY DEF Grouped
    <3>. QED
      BY <3>1, <3>2
  <2>5. new \cap UNION groups = {}
    BY <1>2, <2>2, <2>3 DEF Grouped
  <2>6. \A G, H \in more : G # H => G \cap H = {}
    <3>1. \A G \in groups : G \cap new = {}
      BY <2>5
    <3>2. \A G, H \in groups : G # H => G \cap H = {}
      BY DEF Grouped
    <3>. HIDE DEF new
    <3>. QED
      BY <3>1, <3>2
  <2>7. UNION more = (done \cup {x}) \cup t.absorbed
    <3>1. UNION more = (UNION groups) \cup new
      <4>. HIDE DEF new
      <4>. QED
        OBVIOUS
    <3>2. UNION groups = done \cup s.absorbed
      BY DEF Grouped
    <3>. QED
      BY <3>1, <3>2
  <2>8. ASSUME NEW G \in groups
        PROVE  \E c \in G : Heads(c, G, t, done \cup {x}, parts)
    <3>1. PICK c \in G : Heads(c, G, s, done, parts)
      BY DEF Grouped
    <3>2. c \notin inside
      BY <2>3, <3>1 DEF Heads
    <3>3. Heads(c, G, t, done \cup {x}, parts)
      BY <3>1, <3>2 DEF Heads
    <3>. QED
      BY <3>3
  <2>9. Heads(x, new, t, done \cup {x}, parts)
    <3>1. Within(BoundsOf(x), BoundsOf(x))
      BY ToldAreProper
    <3>. QED
      BY <1>2, <2>2, <3>1 DEF Heads
  <2>10. more \subseteq SUBSET parts
    BY <2>2 DEF Grouped
  <2>11. \A G \in more : \E c \in G : Heads(c, G, t, done \cup {x}, parts)
    <3>1. x \in new
      OBVIOUS
    <3>. HIDE DEF new, t
    <3>. QED
      BY <2>8, <2>9, <3>1
  <2>. HIDE DEF t, more
  <2>12. Grouped(more, t, done \cup {x}, parts)
    BY <2>4, <2>6, <2>7, <2>10, <2>11 DEF Grouped
  <2>. QED
    BY <2>1, <2>12
<1>. QED
  BY <1>1, <1>2

LEMMA RegionsAreGroups ==
  ASSUME NEW parts, Told(parts)
  PROVE  \E groups, s : Grouped(groups, s, parts, parts) /\ Consolidate(parts) = s.regions
<1>. DEFINE N == Cardinality(parts)
            L == Looked(parts)
            Seen(n) == {L[k] : k \in 1..n}
<1>1. IsFiniteSet(parts) /\ N \in Nat
  BY FS_CardinalityType DEF Told
<1>2. Visits(L, parts)
  BY <1>1, ToldAreOrdered, LookedVisits
<1>3. PICK h : Loops(h, L, parts) /\ Consolidate(parts) = h[N].regions
  BY <1>1, <1>2, ConsolidateLoops
<1>4. /\ \A k \in 1..N : L[k] \in parts
      /\ \A c \in parts : \E k \in 1..N : L[k] = c
      /\ \A i, j \in 1..N : LooksFirst(L[i], L[j]) => i < j
      /\ \A i, j \in 1..N : L[i] = L[j] => i = j
  BY <1>2 DEF Visits
<1>5. h[0] = NothingYet /\ \A n \in 1..N : h[n] = Turn(parts, h[n - 1], L[n])
  BY <1>3 DEF Loops
<1>. HIDE DEF N, L
<1>. DEFINE P == {n \in 0..N : \E groups : Grouped(groups, h[n], Seen(n), parts)}
<1>6. 0 \in P
  <2>1. Seen(0) = {}
    BY <1>1
  <2>2. Grouped({}, NothingYet, {}, parts)
    BY DEF Grouped, NothingYet
  <2>. QED
    BY <1>1, <1>5, <2>1, <2>2
<1>7. ASSUME NEW n \in 1..N, n - 1 \in P PROVE n \in P
  <2>1. PICK groups : Grouped(groups, h[n - 1], Seen(n - 1), parts)
    BY <1>7
  <2>2. L[n] \in parts /\ n \in 1..N /\ \A k \in 1..n - 1 : k \in 1..N /\ k < n
    BY <1>1, <1>4
  <2>3. L[n] \notin Seen(n - 1)
    BY <1>4, <2>2
  <2>4. \A p \in parts : LooksFirst(L[n], p) => p \notin Seen(n - 1)
    <3>. SUFFICES ASSUME NEW k \in 1..n - 1, LooksFirst(L[n], L[k]) PROVE FALSE
      OBVIOUS
    <3>1. n < k
      BY <1>4, <2>2
    <3>. QED
      BY <1>1, <2>2, <3>1
  <2>5. Seen(n) = Seen(n - 1) \cup {L[n]}
    <3>1. 1..n = (1..n - 1) \cup {n}
      BY <1>1
    <3>. QED
      BY <3>1
  <2>. HIDE DEF Seen
  <2>6. \E more : Grouped(more, Turn(parts, h[n - 1], L[n]), Seen(n - 1) \cup {L[n]}, parts)
    BY <2>1, <2>2, <2>3, <2>4, TurnGroups
  <2>7. \E more : Grouped(more, h[n], Seen(n), parts)
    BY <1>5, <2>5, <2>6
  <2>. QED
    BY <2>7
<1>8. Seen(N) = parts
  BY <1>4
<1>. HIDE DEF P, Seen
<1>9. N \in P
  BY <1>1, <1>6, <1>7, CountingUp
<1>10. PICK groups : Grouped(groups, h[N], parts, parts)
  BY <1>8, <1>9 DEF P
<1>. QED
  BY <1>3, <1>10

(* What a region covers, and the bounds it has: those of its first component. *)
LEMMA GroupHasBounds ==
  ASSUME NEW parts, Told(parts), NEW G \in SUBSET parts, NEW c \in G,
         \A p \in G : Within(BoundsOf(p), BoundsOf(c)), NEW bound \in Nat,
         \A p \in parts : \A x \in p : x[1] <= bound /\ x[2] <= bound
  PROVE  BoundsOf(UNION G) = BoundsOf(c)
<1>. DEFINE cells == UNION G
            b == BoundsOf(c)
<1>1. c \subseteq cells /\ Bounds(b, c) /\ b \in Box
  BY ToldAreProper DEF Told, Proper
<1>2. cells \subseteq Nat \X Nat /\ \A x \in cells : x[1] <= bound /\ x[2] <= bound
  BY DEF Told
<1>3. ASSUME NEW x \in cells
      PROVE  b.top <= x[1] /\ x[1] <= b.bottom /\ b.left <= x[2] /\ x[2] <= b.right
  <2>1. PICK p \in G : x \in p
    OBVIOUS
  <2>. DEFINE a == BoundsOf(p)
  <2>2. a \in Box /\ Bounds(a, p) /\ Within(a, b)
    BY ToldAreProper DEF Told, Proper
  <2>3. x[1] \in Nat /\ x[2] \in Nat
    BY <1>2
  <2>. HIDE DEF a, b
  <2>4. a.top <= x[1] /\ x[1] <= a.bottom /\ a.left <= x[2] /\ x[2] <= a.right
    BY <2>1, <2>2 DEF Bounds
  <2>. QED
    BY <1>1, <2>2, <2>3, <2>4 DEF Within, Box
<1>4. cells # {}
  BY <1>1 DEF Bounds
<1>. HIDE DEF cells, b
<1>5. Bounds(b, cells)
  BY <1>1, <1>3 DEF Bounds
<1>6. Bounds(BoundsOf(cells), cells)
  BY <1>2, <1>4, BoundsAre
<1>7. BoundsOf(cells) = b
  BY <1>2, <1>5, <1>6, BoundsAreOne
<1>. QED
  BY <1>7 DEF cells, b

LEMMA RegionsPart ==
  ASSUME NEW parts, Told(parts), NEW bound \in Nat,
         \A p \in parts : \A x \in p : x[1] <= bound /\ x[2] <= bound
  PROVE  /\ UNION Consolidate(parts) = UNION parts
         /\ \A r, q \in Consolidate(parts) : r # q =>
              /\ r \cap q = {} /\ ~Within(BoundsOf(r), BoundsOf(q))
              /\ <<BoundsOf(r).top, BoundsOf(r).left>> # <<BoundsOf(q).top, BoundsOf(q).left>>
<1>1. PICK groups, s : Grouped(groups, s, parts, parts) /\ Consolidate(parts) = s.regions
  BY RegionsAreGroups
<1>2. Consolidate(parts) = {UNION G : G \in groups}
  BY <1>1 DEF Grouped
<1>3. UNION groups = parts
  <2>1. UNION groups \subseteq parts /\ parts \subseteq UNION groups
    BY <1>1 DEF Grouped
  <2>. QED
    BY <2>1
<1>4. UNION Consolidate(parts) = UNION parts
  BY <1>2, <1>3
<1>5. ASSUME NEW G \in groups, NEW H \in groups, UNION G # UNION H
      PROVE  /\ (UNION G) \cap (UNION H) = {} /\ ~Within(BoundsOf(UNION G), BoundsOf(UNION H))
             /\ ~(/\ BoundsOf(UNION G).top = BoundsOf(UNION H).top
                  /\ BoundsOf(UNION G).left = BoundsOf(UNION H).left)
  <2>1. G \cap H = {} /\ G \subseteq parts /\ H \subseteq parts
    BY <1>1, <1>5 DEF Grouped
  <2>2. PICK c \in G : Heads(c, G, s, parts, parts)
    BY <1>1 DEF Grouped
  <2>3. PICK d \in H : Heads(d, H, s, parts, parts)
    BY <1>1 DEF Grouped
  <2>4. c \in parts /\ d \in parts /\ c # d
    BY <2>1
  <2>5. (UNION G) \cap (UNION H) = {}
    <3>1. \A p \in G, q \in H : p \cap q = {}
      BY <2>1 DEF Told
    <3>2. ASSUME NEW x \in UNION G, x \in UNION H PROVE FALSE
      <4>1. PICK p \in G : x \in p
        OBVIOUS
      <4>2. PICK q \in H : x \in q
        BY <3>2
      <4>. QED
        BY <3>1, <4>1, <4>2
    <3>. QED
      BY <3>2
  <2>6. BoundsOf(UNION G) = BoundsOf(c)
    BY <2>1, <2>2, GroupHasBounds DEF Heads
  <2>7. BoundsOf(UNION H) = BoundsOf(d)
    BY <2>1, <2>3, GroupHasBounds DEF Heads
  <2>8. ~Within(BoundsOf(c), BoundsOf(d)) /\ ~Within(BoundsOf(d), BoundsOf(c))
    BY <2>2, <2>3, <2>4 DEF Heads
  <2>9. ~(BoundsOf(c).top = BoundsOf(d).top /\ BoundsOf(c).left = BoundsOf(d).left)
    BY <2>4, <2>8, CornersTell
  <2>. QED
    BY <2>5, <2>6, <2>7, <2>8, <2>9
<1>6. ASSUME NEW r \in Consolidate(parts), NEW q \in Consolidate(parts), r # q
      PROVE  /\ r \cap q = {} /\ ~Within(BoundsOf(r), BoundsOf(q))
             /\ <<BoundsOf(r).top, BoundsOf(r).left>> # <<BoundsOf(q).top, BoundsOf(q).left>>
  <2>1. PICK G \in groups : r = UNION G
    BY <1>2
  <2>2. PICK H \in groups : q = UNION H
    BY <1>2
  <2>3. /\ r \cap q = {} /\ ~Within(BoundsOf(r), BoundsOf(q))
        /\ ~(BoundsOf(r).top = BoundsOf(q).top /\ BoundsOf(r).left = BoundsOf(q).left)
    BY <1>5, <1>6, <2>1, <2>2
  <2>. QED
    BY <2>3
<1>. QED
  BY <1>4, <1>6

LEMMA ShapesPart ==
  ASSUME JudgeShape
  PROVE  RegionsPartTheSheet'
<1>1. PICK cells \in SUBSET AreaOf(1..GridRows, 1..GridColumns) :
        judgedSheet' = [of |-> "shape", components |-> Components(cells),
                        regions |-> Consolidate(Components(cells))]
  BY DEF JudgeShape
<1>. DEFINE parts == Components(cells)
            bound == GridRows + GridColumns
<1>2. GridRows \in Nat /\ GridColumns \in Nat /\ bound \in Nat
  <2>1. GridRows \in Nat /\ GridColumns \in Nat
    BY SheetBounds
  <2>. QED
    BY <2>1
<1>3. /\ cells \subseteq Nat \X Nat
      /\ \A c \in cells : c[1] <= bound /\ c[2] <= bound
  <2>1. cells \subseteq (1..GridRows) \X (1..GridColumns)
    BY <1>1 DEF AreaOf
  <2>2. \A c \in cells : c[1] \in 1..GridRows /\ c[2] \in 1..GridColumns
                         /\ c = <<c[1], c[2]>>
    BY <2>1
  <2>3. \A c \in cells : c[1] \in Nat /\ c[2] \in Nat /\ c[1] <= bound /\ c[2] <= bound
    BY <1>2, <2>2
  <2>. QED
    BY <2>2, <2>3
<1>4. IsFiniteSet(cells)
  <2>1. IsFiniteSet(1..GridRows) /\ IsFiniteSet(1..GridColumns)
    BY <1>2, FS_Interval
  <2>2. IsFiniteSet((1..GridRows) \X (1..GridColumns))
    BY <2>1, FS_Product
  <2>. QED
    BY <1>1, <2>2, FS_Subset DEF AreaOf
<1>5. Parting(parts, cells)
  BY <1>3, <1>4, ComponentsPart
<1>. HIDE DEF parts, bound
<1>6. \A p \in parts : /\ p \subseteq cells /\ p \subseteq Nat \X Nat /\ p # {} /\ Connected(p)
                       /\ \A x \in p : x[1] <= bound /\ x[2] <= bound
  BY <1>3, <1>5 DEF Parting
<1>7. \A p \in parts : Bounds(BoundsOf(p), p)
  BY <1>2, <1>6, BoundsAre
<1>8. IsFiniteSet(parts)
  <2>1. parts \subseteq SUBSET cells
    BY <1>6
  <2>. QED
    BY <1>4, <2>1, FS_SUBSET, FS_Subset
<1>9. Told(parts)
  BY <1>5, <1>6, <1>7, <1>8 DEF Told, Parting
<1>10. \A c, d \in parts : c # d => BoundsOf(c) # BoundsOf(d)
  BY <1>9, BoundsTell
<1>11. /\ judgedSheet'.components = parts /\ judgedSheet'.regions = Consolidate(parts)
  BY <1>1 DEF parts
<1>12. /\ UNION Consolidate(parts) = UNION parts
       /\ \A r, q \in Consolidate(parts) : r # q =>
            /\ r \cap q = {} /\ ~Within(BoundsOf(r), BoundsOf(q))
            /\ <<BoundsOf(r).top, BoundsOf(r).left>> # <<BoundsOf(q).top, BoundsOf(q).left>>
  BY <1>2, <1>6, <1>9, RegionsPart
<1>. QED
  BY <1>10, <1>11, <1>12 DEF RegionsPartTheSheet

(* On any grid, whatever cells are occupied: the regions part the occupied    *)
(* cells, none lies in the bounds of another or shares its corner, and no two *)
(* components have the same bounds, so that the order in which they are       *)
(* consolidated is the sheet's own (build_region_candidates).                 *)
THEOREM RegionsPartAnySheet == SheetSpec => []RegionsPartTheSheet
<1>1. SheetInit => RegionsPartTheSheet
  BY DEF SheetInit, RegionsPartTheSheet
<1>2. RegionsPartTheSheet /\ [SheetNext]_judgedSheet => RegionsPartTheSheet'
  <2>1. JudgeTable => RegionsPartTheSheet'
    BY DEF JudgeTable, RegionsPartTheSheet
  <2>2. CASE UNCHANGED judgedSheet
    BY <2>2 DEF RegionsPartTheSheet
  <2>. QED
    BY <2>1, <2>2, ShapesPart DEF SheetNext
<1>. QED
  BY <1>1, <1>2, PTL DEF SheetSpec
=============================================================================
