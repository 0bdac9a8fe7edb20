--------------------------- MODULE Serving_proofs ---------------------------
(***************************************************************************)
(* What a pass names, proved for any declarations: a tile is named exactly *)
(* with its members, the bulk surface carries what was named, a pass with  *)
(* nothing to do names nothing, and what is left on a screen is what       *)
(* asking would answer, for any deploys, batches and raises.               *)
(***************************************************************************)
EXTENDS Serving, Counting_proofs

(***************************************************************************)
(* The names a pass reports, member by member.                             *)
(***************************************************************************)

\* A member of a tile is named by its own test, which is the tile's test of it.
LEMMA MemberMoves ==
  ASSUME lib \in Libraries,
         NEW touched \in SUBSET DOMAIN lib.figures, NEW pages \in SUBSET DOMAIN lib.projections,
         NEW n \in Declared(lib) \ DOMAIN lib.bundles
  PROVE  n \in Moved(touched, pages) <=>
           \/ n \in DOMAIN lib.figures /\ FigureMoves(n, touched)
           \/ n \in DOMAIN lib.readings /\ ReadingMoves(n, touched)
           \/ n \in pages
           \/ n \in DOMAIN lib.summaries /\ lib.summaries[n].over \in pages
<1> USE DEF Declared, Stamped, Paged
<1>1. n \notin BundlesImpacted(touched, pages)
  BY DEF BundlesImpacted
<1>2. CASE n \in DOMAIN lib.figures
  BY <1>1, <1>2, LibraryAssumption DEF Moved, FigureMoves
<1>3. CASE n \in DOMAIN lib.readings
  BY <1>1, <1>3, LibraryAssumption DEF Moved, ReadingMoves
<1>4. CASE n \in Paged(lib)
  BY <1>1, <1>4, LibraryAssumption DEF Moved, Refreshed
<1> QED
  BY <1>2, <1>3, <1>4

\* A tile that can be served is named exactly when its prose moved or a member is named.
LEMMA TileMoves ==
  ASSUME lib \in Libraries,
         NEW touched \in SUBSET DOMAIN lib.figures, NEW pages \in SUBSET DOMAIN lib.projections,
         NEW b \in DOMAIN lib.bundles, Servable(b)
  PROVE  b \in Moved(touched, pages) <=>
           b \in Refreshed \/ lib.bundles[b].members \intersect Moved(touched, pages) # {}
<1>1. b \in Moved(touched, pages) <=> b \in Refreshed \union BundlesImpacted(touched, pages)
  BY LibraryAssumption DEF Moved, Paged
<1>2. lib.bundles[b].members \subseteq Declared(lib) \ DOMAIN lib.bundles
  BY LibraryAssumption
<1>3. b \in BundlesImpacted(touched, pages) <=>
        b \in Refreshed \/ \E n \in lib.bundles[b].members : n \in Moved(touched, pages)
  BY <1>2, MemberMoves DEF BundlesImpacted
<1> QED
  BY <1>1, <1>3

\* The bulk surface carries the named that it can, and the figures a record judges.
LEMMA BulkMoves ==
  ASSUME lib \in Libraries,
         NEW touched \in SUBSET DOMAIN lib.figures, NEW pages \in SUBSET DOMAIN lib.projections,
         NEW wrote
  PROVE  ServedInBulk(touched, pages, wrote) =
           (Moved(touched, pages) \union Allowed(wrote)) \ Unlisted
<1> DEFINE bulk == ServedInBulk(touched, pages, wrote)
           named == (Moved(touched, pages) \union Allowed(wrote)) \ Unlisted
<1> USE DEF Declared, Stamped, Paged
<1>1. ASSUME NEW n PROVE n \in bulk <=> n \in named
  <2>1. CASE n \in DOMAIN lib.figures
    <3>1. n \in bulk <=> lib.figures[n].bulk /\ (FigureMoves(n, touched) \/ lib.figures[n].bandField \in wrote)
      BY <2>1, LibraryAssumption DEF ServedInBulk, BundlesImpacted
    <3>2. n \in Unlisted <=> ~lib.figures[n].bulk
      BY <2>1, LibraryAssumption DEF Unlisted
    <3>3. n \in Allowed(wrote) <=> lib.figures[n].bandField \in wrote
      BY <2>1 DEF Allowed
    <3>4. n \in Moved(touched, pages) <=> FigureMoves(n, touched)
      BY <2>1, MemberMoves, LibraryAssumption
    <3> QED
      BY <3>1, <3>2, <3>3, <3>4
  <2>2. CASE n \in DOMAIN lib.readings
    <3>1. n \in bulk <=> lib.readings[n].source # None /\ ReadingMoves(n, touched)
      BY <2>2, LibraryAssumption DEF ServedInBulk, BundlesImpacted
    <3>2. n \in Unlisted <=> lib.readings[n].source = None
      BY <2>2, LibraryAssumption DEF Unlisted
    <3>3. n \notin Allowed(wrote)
      BY <2>2, LibraryAssumption DEF Allowed
    <3>4. n \in Moved(touched, pages) <=> ReadingMoves(n, touched)
      BY <2>2, MemberMoves, LibraryAssumption
    <3> QED
      BY <3>1, <3>2, <3>3, <3>4
  <2>3. CASE n \in Paged(lib)
    <3>1. n \in bulk <=> n \in pages
      BY <2>3, LibraryAssumption DEF ServedInBulk, BundlesImpacted
    <3>2. n \in Unlisted <=> n \in DOMAIN lib.summaries
      BY <2>3, LibraryAssumption DEF Unlisted
    <3>3. n \notin Allowed(wrote)
      BY <2>3, LibraryAssumption DEF Allowed
    <3>4. n \in DOMAIN lib.projections => (n \in Moved(touched, pages) <=> n \in pages)
      BY <2>3, MemberMoves, LibraryAssumption
    <3> QED
      BY <2>3, <3>1, <3>2, <3>3, <3>4, LibraryAssumption
  <2>4. CASE n \in DOMAIN lib.bundles
    <3>1. n \in bulk <=> n \in BundlesImpacted(touched, pages)
      BY <2>4, LibraryAssumption DEF ServedInBulk
    <3>2. n \in Unlisted <=> ~Servable(n)
      BY <2>4, LibraryAssumption DEF Unlisted
    <3>3. n \notin Allowed(wrote)
      BY <2>4, LibraryAssumption DEF Allowed
    <3>4. n \in Moved(touched, pages) <=> n \in Refreshed \union BundlesImpacted(touched, pages)
      BY <2>4, LibraryAssumption DEF Moved
    <3>5. Servable(n) => (n \in Refreshed => n \in BundlesImpacted(touched, pages))
      BY <2>4 DEF BundlesImpacted
    <3>6. n \in BundlesImpacted(touched, pages) => Servable(n)
      BY DEF BundlesImpacted
    <3> QED
      BY <3>1, <3>2, <3>3, <3>4, <3>5, <3>6
  <2>5. CASE n \notin Declared(lib)
    <3>1. n \notin bulk
      BY <2>5 DEF ServedInBulk, BundlesImpacted
    <3>2. n \notin Moved(touched, pages)
      BY <2>5 DEF Moved, Refreshed, BundlesImpacted
    <3>3. n \notin Allowed(wrote)
      BY <2>5 DEF Allowed
    <3> QED
      BY <3>1, <3>2, <3>3
  <2> QED
    BY <2>1, <2>2, <2>3, <2>4, <2>5
<1> QED
  BY <1>1

\* The projections a pass serves are the library's own.
LEMMA PagesDeclared ==
  ASSUME lib \in Libraries, NEW touched, NEW reindexed
  PROVE  Reached(touched, reindexed) \subseteq DOMAIN lib.projections
  BY LibraryAssumption DEF Reached

\* The report a pass makes is of names that moved as the tiles and the bulk say.
LEMMA RunReports ==
  ASSUME lib \in Libraries, lib' = lib, NEW collected, NEW wrote, NEW sync \in BOOLEAN, NEW full,
         Run(collected, wrote, sync, full)
  PROVE  TileFollowsMembers' /\ BulkAgrees'
<1> DEFINE held == MembersAfter(collected, wrote, full)
           rows == RowsAfter(held, Filed(wrote, full), full)
           touched == {f \in DOMAIN lib.figures : rows[f] # Stored(f)}
           pages == IF sync THEN DOMAIN lib.projections ELSE Reached(touched, Reindexed(full))
<1>1. /\ report'.moved = Moved(touched, pages)
      /\ report'.results = ServedInBulk(touched, pages, wrote)
      /\ report'.refreshed = Refreshed
      /\ report'.wrote = wrote
  BY DEF Run
<1>2. touched \in SUBSET DOMAIN lib.figures
  OBVIOUS
<1>3. pages \in SUBSET DOMAIN lib.projections
  BY PagesDeclared
<1> HIDE DEF held, rows, touched, pages
<1>4. TileFollowsMembers'
  <2> SUFFICES ASSUME NEW b \in DOMAIN lib.bundles, Servable(b)
               PROVE  b \in report'.moved <=>
                        b \in report'.refreshed \/ lib.bundles[b].members \intersect report'.moved # {}
    BY DEF TileFollowsMembers, Servable
  <2> QED
    BY <1>1, <1>2, <1>3, TileMoves
<1>5. BulkAgrees'
  <2>1. report'.results = (report'.moved \union Allowed(report'.wrote)) \ Unlisted
    BY <1>1, <1>2, <1>3, BulkMoves
  <2> QED
    BY <2>1 DEF BulkAgrees, Allowed, Unlisted, Servable
<1> QED
  BY <1>4, <1>5

(***************************************************************************)
(* The rows a pass leaves are well defined: a figure's follows from those  *)
(* of figures of an earlier turn.                                          *)
(***************************************************************************)

\* The row of f, given the rows of the figures it reads.
RowAfter(after, f, held, filed, full) ==
  IF \/ full \/ f \in Pending
     \/ ~(full \/ Pending # {}) /\ \/ lib.figures[f].indexes \intersect filed # {}
                                   \/ Stored(f) = None
                                   \/ \E g \in lib.figures[f].reads : after[g] # Stored(g)
  THEN Evaluate(f, held, [g \in lib.figures[f].reads |-> after[g]])
  ELSE Stored(f)

LEMMA RowAfterLocal ==
  ASSUME NEW a, NEW b, NEW f, NEW held, NEW filed, NEW full,
         \A g \in lib.figures[f].reads : a[g] = b[g]
  PROVE  RowAfter(a, f, held, filed, full) = RowAfter(b, f, held, filed, full)
<1>1. [g \in lib.figures[f].reads |-> a[g]] = [g \in lib.figures[f].reads |-> b[g]]
  OBVIOUS
<1> QED
  BY <1>1 DEF RowAfter

LEMMA RowsDefined ==
  ASSUME lib \in Libraries, NEW held, NEW filed, NEW full
  PROVE  RowsAfter(held, filed, full) =
           [f \in DOMAIN lib.figures |-> RowAfter(RowsAfter(held, filed, full), f, held, filed, full)]
<1> DEFINE D == DOMAIN lib.figures
           turn(f) == lib.figures[f].turn
           Row(a, f) == RowAfter(a, f, held, filed, full)
           Upto(a, n) == \A f \in D : turn(f) <= n => a[f] = Row(a, f)
           S == {n \in Nat : \E a : a = [f \in D |-> a[f]] /\ Upto(a, n)}
<1>1. \A f \in D : turn(f) \in Nat /\ turn(f) >= 1 /\ turn(f) <= Cardinality(D)
  <2>1. \A f \in D : turn(f) \in 1..Cardinality(D)
    BY LibraryAssumption
  <2>2. Cardinality(D) \in Nat
    <3>1. D \subseteq Names
      BY LibraryAssumption DEF Declared, Stamped
    <3> QED
      BY <3>1, BoundsAssumption, FS_Subset, FS_CardinalityType
  <2> QED
    BY <2>1, <2>2
<1>2. \A f \in D : lib.figures[f].reads \subseteq D /\ \A g \in lib.figures[f].reads : turn(g) < turn(f)
  BY LibraryAssumption
<1>3. \A a, b : \A f \in D : (\A g \in lib.figures[f].reads : a[g] = b[g]) => Row(a, f) = Row(b, f)
  BY RowAfterLocal
<1>4. Cardinality(D) \in Nat
  <2>1. D \subseteq Names
    BY LibraryAssumption DEF Declared, Stamped
  <2> QED
    BY <2>1, BoundsAssumption, FS_Subset, FS_CardinalityType
<1> HIDE DEF D, turn, Row
<1>5. 0 \in S
  <2> DEFINE z == [f \in D |-> 0]
  <2>1. z = [f \in D |-> z[f]] /\ Upto(z, 0)
    BY <1>1
  <2> QED
    BY <2>1
<1>6. ASSUME NEW n \in S PROVE n + 1 \in S
  <2>1. n \in Nat /\ n + 1 \in Nat
    OBVIOUS
  <2>2. PICK a : a = [f \in D |-> a[f]] /\ Upto(a, n)
    OBVIOUS
  <2> DEFINE b == [f \in D |-> IF turn(f) <= n THEN a[f] ELSE Row(a, f)]
  <2>3. ASSUME NEW f \in D, turn(f) <= n + 1 PROVE b[f] = Row(b, f)
    <3>1. \A g \in lib.figures[f].reads : g \in D /\ turn(g) <= n
      BY <1>1, <1>2, <2>1, <2>3
    <3>2. \A g \in lib.figures[f].reads : b[g] = a[g]
      BY <3>1
    <3>3. Row(b, f) = Row(a, f)
      BY <1>3, <3>2
    <3>4. b[f] = Row(a, f)
      BY <2>2
    <3> QED
      BY <3>3, <3>4
  <2>4. b = [f \in D |-> b[f]]
    OBVIOUS
  <2> HIDE DEF b
  <2> QED
    BY <2>1, <2>3, <2>4
<1>7. PICK a : a = [f \in D |-> a[f]] /\ Upto(a, Cardinality(D))
  <2>1. S \in SUBSET Nat
    OBVIOUS
  <2>2. Cardinality(D) \in S
    <3> HIDE DEF S
    <3> QED
      BY <2>1, <1>4, <1>5, <1>6, CountingUp
  <2> QED
    BY <2>2
<1>8. a = [f \in D |-> Row(a, f)]
  BY <1>1, <1>7
<1>9. RowsAfter(held, filed, full) = CHOOSE c : c = [f \in D |-> Row(c, f)]
  BY DEF RowsAfter, RowAfter, D, Row
<1>10. (CHOOSE c : c = [f \in D |-> Row(c, f)]) = [g \in D |-> Row(CHOOSE c : c = [f \in D |-> Row(c, f)], g)]
  BY <1>8
<1> QED
  BY <1>9, <1>10 DEF D, Row

(***************************************************************************)
(* Every row a pass leaves is a number.                                    *)
(***************************************************************************)

\* A sum over a finite set of names is a number when each term is.
Added(h, R) == MapThenSumSet(LAMBDA g : h[g], R)

LEMMA SumIsNatural ==
  ASSUME NEW R, IsFiniteSet(R), NEW h, \A g \in R : h[g] \in Nat
  PROVE  Added(h, R) \in Nat
<1> DEFINE one(s) == CHOOSE x \in s : TRUE
           Total(a, s) == IF s = {} THEN 0 ELSE h[one(s)] + a[s \ {one(s)}]
           Upto(a, n) == \A s \in SUBSET R : Cardinality(s) <= n => a[s] = Total(a, s)
           S == {n \in Nat : \E a : a = [s \in SUBSET R |-> a[s]] /\ Upto(a, n)}
           c == CHOOSE a : a = [s \in SUBSET R |-> Total(a, s)]
           N == {n \in Nat : \A s \in SUBSET R : Cardinality(s) <= n => c[s] \in Nat}
<1>1. ASSUME NEW s \in SUBSET R
      PROVE  /\ Cardinality(s) \in Nat /\ Cardinality(s) <= Cardinality(R)
             /\ Cardinality(s) = 0 <=> s = {}
  BY FS_Subset, FS_CardinalityType, FS_EmptySet
<1>2. ASSUME NEW s \in SUBSET R, s # {}
      PROVE  /\ one(s) \in R /\ s \ {one(s)} \in SUBSET R
             /\ Cardinality(s \ {one(s)}) = Cardinality(s) - 1
  <2>1. one(s) \in s
    BY <1>2
  <2>2. IsFiniteSet(s)
    BY FS_Subset
  <2> HIDE DEF one
  <2> QED
    BY <2>1, <2>2, FS_RemoveElement
<1>3. Cardinality(R) \in Nat
  BY <1>1
<1> HIDE DEF one
<1>4. 0 \in S
  <2> DEFINE z == [s \in SUBSET R |-> 0]
  <2>1. \A s \in SUBSET R : Cardinality(s) <= 0 => s = {}
    BY <1>1
  <2>2. z = [s \in SUBSET R |-> z[s]] /\ Upto(z, 0)
    BY <2>1
  <2> QED
    BY <2>2
<1>5. ASSUME NEW n \in S PROVE n + 1 \in S
  <2>1. PICK a : a = [s \in SUBSET R |-> a[s]] /\ Upto(a, n)
    OBVIOUS
  <2>2. n \in Nat
    OBVIOUS
  <2> DEFINE b == [s \in SUBSET R |-> IF Cardinality(s) <= n THEN a[s] ELSE Total(a, s)]
  <2>3. ASSUME NEW s \in SUBSET R, Cardinality(s) <= n + 1 PROVE b[s] = Total(b, s)
    <3>1. CASE s = {}
      <4>1. Cardinality(s) <= n
        BY <1>1, <2>2, <3>1
      <4> QED
        BY <2>1, <3>1, <4>1
    <3>2. CASE s # {}
      <4> DEFINE t == s \ {one(s)}
      <4>1. t \in SUBSET R /\ Cardinality(t) <= n
        BY <1>1, <1>2, <2>2, <2>3, <3>2
      <4>2. b[t] = a[t]
        BY <4>1
      <4>3. Total(b, s) = Total(a, s)
        BY <3>2, <4>2
      <4>4. b[s] = Total(a, s)
        BY <2>1
      <4> QED
        BY <4>3, <4>4
    <3> QED
      BY <3>1, <3>2
  <2>4. b = [s \in SUBSET R |-> b[s]]
    OBVIOUS
  <2> HIDE DEF b, Total
  <2>5. Upto(b, n + 1)
    BY <2>3
  <2> HIDE DEF Upto
  <2> QED
    BY <2>2, <2>4, <2>5
<1>6. c = [s \in SUBSET R |-> Total(c, s)]
  <2>1. Cardinality(R) \in S
    <3>1. S \in SUBSET Nat
      OBVIOUS
    <3> HIDE DEF S
    <3> QED
      BY <1>3, <1>4, <1>5, <3>1, CountingUp
  <2>2. PICK a : a = [s \in SUBSET R |-> a[s]] /\ Upto(a, Cardinality(R))
    BY <2>1
  <2> HIDE DEF Total
  <2>3. a = [s \in SUBSET R |-> Total(a, s)]
    BY <1>1, <2>2
  <2> QED
    BY <2>3
<1>7. \A s \in SUBSET R : c[s] = Total(c, s)
  <2> HIDE DEF Total, c
  <2> QED
    BY <1>6
<1> HIDE DEF c
<1>8. 0 \in N
  <2>1. \A s \in SUBSET R : Cardinality(s) <= 0 => s = {}
    BY <1>1
  <2>2. c[{}] = 0
    BY <1>7
  <2> QED
    BY <2>1, <2>2
<1>9. ASSUME NEW n \in N PROVE n + 1 \in N
  <2>1. n \in Nat /\ n + 1 \in Nat
    OBVIOUS
  <2>2. ASSUME NEW s \in SUBSET R, Cardinality(s) <= n + 1 PROVE c[s] \in Nat
    <3>1. CASE s = {}
      BY <1>7, <3>1
    <3>2. CASE s # {}
      <4> DEFINE t == s \ {one(s)}
      <4>1. t \in SUBSET R /\ Cardinality(t) <= n /\ one(s) \in R
        BY <1>1, <1>2, <2>1, <2>2, <3>2
      <4>2. c[t] \in Nat
        BY <4>1
      <4>3. c[s] = h[one(s)] + c[t]
        BY <1>7, <3>2
      <4> HIDE DEF t
      <4> QED
        BY <4>1, <4>2, <4>3
    <3> QED
      BY <3>1, <3>2
  <2> QED
    BY <2>1, <2>2
<1>10. c[R] \in Nat
  <2>1. N \in SUBSET Nat
    OBVIOUS
  <2>2. Cardinality(R) \in N
    <3> HIDE DEF N
    <3> QED
      BY <1>3, <1>8, <1>9, <2>1, CountingUp
  <2> QED
    BY <1>1, <1>3, <2>2
<1> QED
  BY <1>10 DEF Added, MapThenSumSet, MapThenFoldSet, c, one

\* What a figure counts and adds is a number, unless a row it reads is missing.
LEMMA EvaluateNumber ==
  ASSUME lib \in Libraries, NEW f \in DOMAIN lib.figures, NEW held \in [IndexNames -> Nat],
         NEW below, \A g \in lib.figures[f].reads : below[g] \in Nat
  PROVE  Evaluate(f, held, below) \in Nat
<1> DEFINE plan == lib.figures[f]
           counted == IF plan.indexes = {} THEN 0 ELSE Min({held[i] : i \in plan.indexes})
           sum == Added(below, plan.reads)
<1>1. plan.adds \in Nat /\ plan.indexes \subseteq IndexNames /\ plan.reads \subseteq Names
  BY LibraryAssumption DEF Declared, Stamped
<1>2. counted \in Nat
  <2>1. CASE plan.indexes = {}
    BY <2>1
  <2>2. CASE plan.indexes # {}
    <3> DEFINE H == {held[i] : i \in plan.indexes}
    <3>1. H \in SUBSET Nat /\ H # {}
      BY <1>1, <2>2
    <3> HIDE DEF H
    <3>2. Min(H) \in Nat
      BY <3>1, LeastNatural
    <3> QED
      BY <2>2, <3>2 DEF H
  <2> QED
    BY <2>1, <2>2
<1>3. sum \in Nat
  <2>1. IsFiniteSet(plan.reads)
    BY <1>1, BoundsAssumption, FS_Subset
  <2> QED
    BY <2>1, SumIsNatural
<1>4. ~ \E g \in plan.reads : below[g] = None
  BY BoundsAssumption
<1>5. Evaluate(f, held, below) = Min({MaxRow, plan.adds + counted + sum})
  BY <1>4 DEF Evaluate, Added
<1> HIDE DEF plan, counted, sum
<1> DEFINE T == {MaxRow, plan.adds + counted + sum}
<1>6. T \in SUBSET Nat /\ T # {}
  BY <1>1, <1>2, <1>3, BoundsAssumption
<1> HIDE DEF T
<1>7. Min(T) \in Nat
  BY <1>6, LeastNatural
<1> QED
  BY <1>5, <1>7 DEF T

\* What is served was taught.
Taught == lib \in Libraries

\* The tables hold numbers, and a figure's pointer names a version it has a row of.
TablesTyped ==
  /\ fact \in [Kinds -> Nat] /\ members \in [IndexNames -> Nat]
  /\ pointer \in [Names -> Versions \union {None}]
  /\ row \in [Names -> [Versions -> Nat \union {None}]]
Computed == \A f \in Names : pointer[f] # None => row[f][pointer[f]] # None

\* The row a pass leaves a figure, from those it leaves the figures of earlier turns.
LEMMA RowsNumbers ==
  ASSUME Taught, TablesTyped, Computed,
         NEW held \in [IndexNames -> Nat], NEW filed, NEW full
  PROVE  \A f \in DOMAIN lib.figures : RowsAfter(held, filed, full)[f] \in Nat
<1> DEFINE D == DOMAIN lib.figures
           turn(f) == lib.figures[f].turn
           rows == RowsAfter(held, filed, full)
           S == {n \in Nat : \A f \in D : turn(f) <= n => rows[f] \in Nat}
<1>1. lib \in Libraries
  BY DEF Taught
<1>2. Cardinality(D) \in Nat /\ \A f \in D : turn(f) \in 1..Cardinality(D)
  <2>1. D \subseteq Names
    BY <1>1, LibraryAssumption DEF Declared, Stamped
  <2> QED
    BY <1>1, <2>1, BoundsAssumption, LibraryAssumption, FS_Subset, FS_CardinalityType
<1>3. \A f \in D : lib.figures[f].reads \subseteq D /\ \A g \in lib.figures[f].reads : turn(g) < turn(f)
  BY <1>1, LibraryAssumption
<1>4. \A f \in D : rows[f] = RowAfter(rows, f, held, filed, full)
  <2>1. rows = [f \in D |-> RowAfter(rows, f, held, filed, full)]
    BY <1>1, RowsDefined
  <2> HIDE DEF rows, D
  <2> QED
    BY <2>1
<1> HIDE DEF rows
<1>5. ASSUME NEW f \in D, \A g \in lib.figures[f].reads : rows[g] \in Nat
      PROVE  rows[f] \in Nat
  <2> DEFINE below == [g \in lib.figures[f].reads |-> rows[g]]
  <2>1. Evaluate(f, held, below) \in Nat
    BY <1>1, <1>5, EvaluateNumber
  <2>2. CASE f \notin Pending /\ Stored(f) # None
    <3>1. f \in Names /\ lib.figures[f].version \in Versions
      BY <1>1, LibraryAssumption DEF Declared, Stamped
    <3>2. Stored(f) \in Nat
      BY <2>2, <3>1 DEF Stored, TablesTyped
    <3> QED
      BY <1>4, <2>1, <3>2 DEF RowAfter
  <2>3. CASE f \in Pending
    BY <1>4, <2>1, <2>3 DEF RowAfter
  <2>4. f \notin Pending => Stored(f) # None
    <3>1. f \in Names /\ lib.figures[f].version \in Versions
      BY <1>1, LibraryAssumption DEF Declared, Stamped
    <3>2. lib.figures[f].version # None
      BY <3>1, BoundsAssumption
    <3> QED
      BY <3>1, <3>2 DEF Pending, Computed, Stored
  <2> QED
    BY <2>2, <2>3, <2>4
<1>6. 0 \in S
  BY <1>2
<1>7. ASSUME NEW n \in S PROVE n + 1 \in S
  <2>1. ASSUME NEW f \in D, turn(f) <= n + 1 PROVE rows[f] \in Nat
    <3>1. \A g \in lib.figures[f].reads : g \in D /\ turn(g) <= n
      BY <1>2, <1>3, <2>1
    <3> QED
      BY <1>5, <3>1
  <2> QED
    BY <2>1
<1>8. Cardinality(D) \in S
  <2>1. S \in SUBSET Nat
    OBVIOUS
  <2> HIDE DEF S
  <2> QED
    BY <1>2, <1>6, <1>7, <2>1, CountingUp
<1> QED
  BY <1>2, <1>8 DEF rows

\* A pass with nothing filed and nothing pending leaves every row as it was.
LEMMA QuietRows ==
  ASSUME Taught, Computed, TablesTyped, Pending = {},
         NEW held, NEW filed, filed = {}, NEW full, ~full, NEW f \in DOMAIN lib.figures
  PROVE  RowsAfter(held, filed, full)[f] = Stored(f)
<1> DEFINE D == DOMAIN lib.figures
           turn(g) == lib.figures[g].turn
           rows == RowsAfter(held, filed, full)
           S == {n \in Nat : \A g \in D : turn(g) <= n => rows[g] = Stored(g)}
<1>1. lib \in Libraries
  BY DEF Taught
<1>2. Cardinality(D) \in Nat /\ \A g \in D : turn(g) \in 1..Cardinality(D)
  <2>1. D \subseteq Names
    BY <1>1, LibraryAssumption DEF Declared, Stamped
  <2> QED
    BY <1>1, <2>1, BoundsAssumption, LibraryAssumption, FS_Subset, FS_CardinalityType
<1>3. \A g \in D : lib.figures[g].reads \subseteq D /\ \A h \in lib.figures[g].reads : turn(h) < turn(g)
  BY <1>1, LibraryAssumption
<1>4. \A g \in D : rows[g] = RowAfter(rows, g, held, filed, full)
  <2>1. rows = [g \in D |-> RowAfter(rows, g, held, filed, full)]
    BY <1>1, RowsDefined
  <2> HIDE DEF rows, D
  <2> QED
    BY <2>1
<1>5. \A g \in D : Stored(g) # None
  <2>1. \A g \in D : g \in Names /\ lib.figures[g].version \in Versions
    BY <1>1, LibraryAssumption DEF Declared, Stamped
  <2>2. \A g \in D : pointer[g] = lib.figures[g].version
    BY DEF Pending
  <2> QED
    BY <2>1, <2>2, BoundsAssumption DEF Computed, Stored
<1> HIDE DEF rows
<1>6. 0 \in S
  BY <1>2
<1>7. ASSUME NEW n \in S PROVE n + 1 \in S
  <2>1. ASSUME NEW g \in D, turn(g) <= n + 1 PROVE rows[g] = Stored(g)
    <3>1. \A h \in lib.figures[g].reads : h \in D /\ turn(h) <= n
      BY <1>2, <1>3, <2>1
    <3>2. \A h \in lib.figures[g].reads : rows[h] = Stored(h)
      BY <3>1
    <3> QED
      BY <1>4, <1>5, <3>2 DEF RowAfter
  <2> QED
    BY <2>1
<1>8. Cardinality(D) \in S
  <2>1. S \in SUBSET Nat
    OBVIOUS
  <2> HIDE DEF S
  <2> QED
    BY <1>2, <1>6, <1>7, <2>1, CountingUp
<1> QED
  BY <1>2, <1>8 DEF rows

(***************************************************************************)
(* What a pass leaves in the tables, and what a delivered one settles.     *)
(***************************************************************************)

LEMMA MembersNumbers ==
  ASSUME Taught, TablesTyped, NEW collected \in [Kinds -> Nat], NEW wrote, NEW full
  PROVE  MembersAfter(collected, wrote, full) \in [IndexNames -> Nat]
<1> DEFINE filed == Filed(wrote, full)
           value(i) == CASE i \in filed -> IF lib.indexes[i].keeps THEN collected[lib.indexes[i].kind] ELSE 0
                         [] i \in DOMAIN lib.indexes \ filed -> members[i]
                         [] i \notin DOMAIN lib.indexes -> 0
<1>1. filed \subseteq DOMAIN lib.indexes
  BY DEF Filed, Reindexed, Stale
<1> HIDE DEF filed
<1>2. ASSUME NEW i \in IndexNames PROVE value(i) \in Nat
  <2>1. CASE i \in filed
    <3>1. lib.indexes[i].kind \in Kinds
      BY <1>1, <2>1, LibraryAssumption DEF Taught
    <3>2. value(i) = IF lib.indexes[i].keeps THEN collected[lib.indexes[i].kind] ELSE 0
      BY <1>1, <2>1
    <3> QED
      BY <3>1, <3>2
  <2>2. CASE i \in DOMAIN lib.indexes \ filed
    <3>1. value(i) = members[i]
      BY <2>2
    <3> QED
      BY <3>1 DEF TablesTyped
  <2>3. CASE i \notin DOMAIN lib.indexes
    <3>1. value(i) = 0
      BY <1>1, <2>3
    <3> QED
      BY <3>1
  <2> QED
    BY <2>1, <2>2, <2>3
<1> HIDE DEF value
<1>3. [i \in IndexNames |-> value(i)] \in [IndexNames -> Nat]
  BY <1>2
<1> QED
  BY <1>3 DEF MembersAfter, value, filed

\* Rows are saved as numbers, and no pointer moves to a figure not saved.
LEMMA TablesStep ==
  ASSUME Taught, TablesTyped, Computed, fact' \in [Kinds -> Nat],
         NEW held \in [IndexNames -> Nat],
         NEW r, DOMAIN r \subseteq DOMAIN lib.figures, \A f \in DOMAIN r : r[f] \in Nat,
         NEW pointed \in SUBSET DOMAIN r, NEW full, Tables(held, r, pointed, full)
  PROVE  TablesTyped' /\ Computed'
<1> DEFINE ver(f) == lib.figures[f].version
           left(f) == IF f \in DOMAIN r THEN [row[f] EXCEPT ![ver(f)] = r[f]] ELSE row[f]
<1>1. \A f \in DOMAIN r : f \in Names /\ ver(f) \in Versions
  BY LibraryAssumption DEF Taught, Declared, Stamped
<1>2. row' = [f \in Names |-> left(f)]
  BY DEF Tables
<1>3. pointer' = [f \in Names |-> IF f \in pointed THEN ver(f) ELSE pointer[f]]
  BY DEF Tables
<1>4. ASSUME NEW f \in Names
      PROVE  /\ row'[f] \in [Versions -> Nat \union {None}]
             /\ \A v \in Versions : row'[f][v] = IF f \in DOMAIN r /\ v = ver(f) THEN r[f] ELSE row[f][v]
  <2>1. row[f] \in [Versions -> Nat \union {None}]
    BY DEF TablesTyped
  <2>2. row'[f] = left(f)
    BY <1>2
  <2>3. CASE f \in DOMAIN r
    <3>1. r[f] \in Nat /\ ver(f) \in Versions
      BY <1>1, <2>3
    <3> HIDE DEF ver
    <3> QED
      BY <2>1, <2>2, <2>3, <3>1
  <2>4. CASE f \notin DOMAIN r
    BY <2>1, <2>2, <2>4
  <2> QED
    BY <2>3, <2>4
<1>5. row' \in [Names -> [Versions -> Nat \union {None}]]
  <2> HIDE DEF left
  <2>1. row' = [f \in Names |-> row'[f]]
    BY <1>2
  <2> QED
    BY <1>4, <2>1
<1>6. pointer' \in [Names -> Versions \union {None}]
  <2> HIDE DEF ver
  <2> QED
    BY <1>1, <1>3 DEF TablesTyped
<1>7. TablesTyped'
  BY <1>5, <1>6 DEF TablesTyped, Tables
<1>8. ASSUME NEW f \in Names, pointer'[f] # None PROVE row'[f][pointer'[f]] # None
  <2>1. CASE f \in pointed
    <3>1. f \in DOMAIN r /\ pointer'[f] = ver(f) /\ ver(f) \in Versions /\ r[f] \in Nat
      BY <1>1, <1>3, <2>1
    <3>2. row'[f][ver(f)] = r[f]
      BY <1>4, <3>1
    <3> QED
      BY <3>1, <3>2, BoundsAssumption
  <2>2. CASE f \notin pointed
    <3>1. pointer'[f] = pointer[f] /\ pointer[f] \in Versions
      BY <1>3, <1>8, <2>2 DEF TablesTyped
    <3>2. row[f][pointer[f]] # None
      BY <1>8, <3>1 DEF Computed
    <3>3. row'[f][pointer[f]] = IF f \in DOMAIN r /\ pointer[f] = ver(f) THEN r[f] ELSE row[f][pointer[f]]
      BY <1>4, <3>1
    <3> QED
      BY <3>1, <3>2, <3>3, BoundsAssumption
  <2> QED
    BY <2>1, <2>2
<1>9. Computed'
  BY <1>8 DEF Computed
<1> QED
  BY <1>7, <1>9

\* Every declaration is computed, filed and stamped as the library says.
InForce ==
  /\ Pending = {} /\ Stale = {}
  /\ \A n \in Declared(lib) : stamp[n] = Stamp(n)

\* That is so while a report waits, and for as long as the last pass stays settled.
Settled == report # None \/ settled => InForce

LEMMA InForceFrame ==
  ASSUME InForce, UNCHANGED <<lib, tables, stamp>>
  PROVE  InForce'
<1>1. UNCHANGED <<pointer, built>>
  BY DEF tables
<1> QED
  BY <1>1 DEF InForce, Pending, Stale, Declared, Stamped, Paged, Stamp

\* A pass brings everything into force.
LEMMA RunInForce ==
  ASSUME Taught, lib' = lib, NEW held, NEW r, NEW full \in BOOLEAN,
         Tables(held, r, Pending, full), Settle
  PROVE  InForce'
<1> USE DEF Taught
<1>1. Pending' = {}
  <2> SUFFICES ASSUME NEW f \in DOMAIN lib.figures PROVE pointer'[f] = lib.figures[f].version
    BY DEF Pending
  <2>1. f \in Names
    BY LibraryAssumption DEF Declared, Stamped
  <2>2. pointer'[f] = IF f \in Pending THEN lib.figures[f].version ELSE pointer[f]
    BY <2>1 DEF Tables
  <2> QED
    BY <2>2 DEF Pending
<1>2. Stale' = {}
  <2> SUFFICES ASSUME NEW i \in DOMAIN lib.indexes PROVE built'[i] = lib.indexes[i].version
    BY DEF Stale
  <2>1. i \in IndexNames
    BY LibraryAssumption
  <2>2. built'[i] = CASE i \in Reindexed(full) -> lib.indexes[i].version
                      [] i \in DOMAIN lib.indexes \ Reindexed(full) -> built[i]
                      [] i \notin DOMAIN lib.indexes -> None
    BY <2>1 DEF Tables, BuiltAfter
  <2>3. CASE i \in Reindexed(full)
    BY <2>2, <2>3
  <2>4. CASE i \notin Reindexed(full)
    <3>1. built'[i] = built[i]
      BY <2>2, <2>4
    <3>2. i \notin Stale
      BY <2>4 DEF Reindexed, Stale
    <3> QED
      BY <3>1, <3>2 DEF Stale
  <2> QED
    BY <2>3, <2>4
<1>3. ASSUME NEW n \in Declared(lib) PROVE stamp'[n] = Stamp(n)
  BY LibraryAssumption DEF Settle
<1>4. \A n \in Declared(lib)' : stamp'[n] = Stamp(n)'
  BY <1>3 DEF Declared, Stamped, Paged, Stamp
<1> QED
  BY <1>1, <1>2, <1>4 DEF InForce

\* With everything in force and nothing written, a pass has nothing to name.
LEMMA QuietMoves ==
  ASSUME Taught, TablesTyped, Computed, InForce, NEW full, ~full,
         NEW held, NEW touched,
         touched = {f \in DOMAIN lib.figures : RowsAfter(held, Filed({}, full), full)[f] # Stored(f)}
  PROVE  Moved(touched, Reached(touched, Reindexed(full))) = {}
<1>1. Filed({}, full) = {} /\ Reindexed(full) = {}
  BY DEF InForce, Filed, Reindexed
<1>2. touched = {}
  BY <1>1, QuietRows DEF InForce
<1>3. Refreshed = {}
  BY DEF InForce, Refreshed, Declared
<1>4. Reached({}, {}) = {}
  BY DEF InForce, Reached, Declared, Paged
<1>5. \A b \in DOMAIN lib.bundles : b \notin BundlesImpacted({}, {})
  BY <1>3 DEF BundlesImpacted, FigureMoves, ReadingMoves
<1>6. Moved({}, {}) = {}
  BY <1>3, <1>5 DEF Moved, ReadingMoves, BundlesImpacted
<1> QED
  BY <1>1, <1>2, <1>4, <1>6

(***************************************************************************)
(* The theorems.                                                           *)
(***************************************************************************)

\* What every reachable state has of a report that waits.
Reported == Taught /\ TileFollowsMembers /\ BulkAgrees

\* Only a pass makes a report, and until it is delivered nothing is taught.
LEMMA ReportedStep ==
  ASSUME Reported, [Next]_vars
  PROVE  Reported'
<1> USE DEF Reported, Taught
<1>1. ASSUME NEW collected \in [Kinds -> 0..MaxHeld], PostFacts(collected) PROVE Reported'
  <2>1. lib' = lib /\ Run(collected, Wrote(collected), TRUE, Deleted(collected))
    BY <1>1 DEF PostFacts
  <2> QED
    BY <2>1, RunReports
<1>2. ASSUME NEW full \in BOOLEAN, PostRun(full) PROVE Reported'
  <2>1. lib' = lib /\ Run(fact, {}, full, full)
    BY <1>2 DEF PostRun
  <2> QED
    BY <2>1, RunReports
<1>3. ASSUME lib' \in Libraries, report' = None PROVE Reported'
  BY <1>3 DEF TileFollowsMembers, BulkAgrees
<1>4. CASE Deliver
  BY <1>3, <1>4 DEF Deliver
<1>5. CASE \E collected \in [Kinds -> 0..MaxHeld] : EngineRaises(collected)
  BY <1>3, <1>5 DEF EngineRaises, MayRun
<1>6. CASE DeliveryRaises
  BY <1>3, <1>6 DEF DeliveryRaises
<1>7. CASE Connect
  BY <1>3, <1>7 DEF Connect
<1>8. CASE \E L \in Libraries : Teach(L)
  BY <1>3, <1>8 DEF Teach
<1>9. CASE NewDay
  BY <1>3, <1>9 DEF NewDay
<1>10. CASE UNCHANGED vars
  BY <1>10 DEF vars, TileFollowsMembers, BulkAgrees, Servable, Allowed, Unlisted
<1> QED
  BY <1>1, <1>2, <1>4, <1>5, <1>6, <1>7, <1>8, <1>9, <1>10 DEF Next

\* What a waiting report says, in every reachable state.
THEOREM ReportInvariant == Spec => []Reported
<1>1. Init => Reported
  BY DEF Init, Reported, Taught, TileFollowsMembers, BulkAgrees
<1>2. Reported /\ [Next]_vars => Reported'
  BY ReportedStep
<1> QED
  BY <1>1, <1>2, PTL DEF Spec

\* facade.py's tests of a tile are its members' own: whatever moved, a tile that can
\* be served is named by a pass exactly when its prose moved or a member is named.
THEOREM TilesFollowMembers == Spec => []TileFollowsMembers
<1>1. Reported => TileFollowsMembers
  BY DEF Reported
<1> QED
  BY <1>1, ReportInvariant, PTL

\* The answers a pass carries in bulk are those of the names it reports that are on the
\* bulk surface, and the figures a written record judges: none missed, none more.
THEOREM BulkCarriesTheMoved == Spec => []BulkAgrees
<1>1. Reported => BulkAgrees
  BY DEF Reported
<1> QED
  BY <1>1, ReportInvariant, PTL

\* The strengthening a quiet pass needs: rows behind every pointer, and nothing left
\* over by a settled pass.
Quiet == Taught /\ TablesTyped /\ Computed /\ Settled /\ QuietPassIsSilent

\* A pass, by either door.
LEMMA QuietRun ==
  ASSUME Quiet, report = None, lib' = lib, settled' = settled, NEW collected \in [Kinds -> Nat],
         fact' = collected, NEW wrote, NEW sync \in BOOLEAN, NEW full \in BOOLEAN,
         ~sync => wrote = {} /\ ~full,
         Run(collected, wrote, sync, full)
  PROVE  Quiet'
<1> DEFINE held == MembersAfter(collected, wrote, full)
           rows == RowsAfter(held, Filed(wrote, full), full)
           touched == {f \in DOMAIN lib.figures : rows[f] # Stored(f)}
           pages == IF sync THEN DOMAIN lib.projections ELSE Reached(touched, Reindexed(full))
<1> USE DEF Quiet
<1>1. Tables(held, rows, Pending, full) /\ Settle
  BY DEF Run
<1>2. report'.moved = Moved(touched, pages) /\ report'.sync = sync /\ report'.calm = settled
  BY DEF Run
<1>3. held \in [IndexNames -> Nat]
  BY MembersNumbers
<1>4. DOMAIN rows = DOMAIN lib.figures
  <2>1. rows = [f \in DOMAIN lib.figures |-> RowAfter(rows, f, held, Filed(wrote, full), full)]
    BY RowsDefined DEF Taught
  <2> HIDE DEF rows
  <2> QED
    BY <2>1
<1>5. \A f \in DOMAIN lib.figures : rows[f] \in Nat
  BY <1>3, RowsNumbers
<1>6. Pending \in SUBSET DOMAIN rows
  BY <1>4 DEF Pending
<1>7. TablesTyped' /\ Computed'
  <2> HIDE DEF rows, held
  <2> QED
    BY <1>1, <1>3, <1>4, <1>5, <1>6, TablesStep
<1>8. Settled'
  BY <1>1, RunInForce DEF Settled
<1>9. settled /\ ~sync => Moved(touched, pages) = {}
  <2>1. settled => InForce
    BY DEF Settled
  <2>2. ~sync => pages = Reached(touched, Reindexed(full)) /\ wrote = {} /\ ~full
    OBVIOUS
  <2>3. ~sync => touched = {f \in DOMAIN lib.figures : RowsAfter(held, Filed({}, full), full)[f] # Stored(f)}
    BY <2>2
  <2> HIDE DEF touched, pages, held, rows
  <2> QED
    BY <2>1, <2>2, <2>3, QuietMoves
<1>10. QuietPassIsSilent'
  <2> HIDE DEF touched, pages
  <2> QED
    BY <1>2, <1>9 DEF QuietPassIsSilent
<1> QED
  BY <1>7, <1>8, <1>10 DEF Taught

LEMMA QuietStep ==
  ASSUME Quiet, [Next]_vars
  PROVE  Quiet'
<1> USE DEF Quiet
<1>1. ASSUME NEW collected \in [Kinds -> 0..MaxHeld] PROVE collected \in [Kinds -> Nat]
  BY BoundsAssumption
<1>2. ASSUME NEW collected \in [Kinds -> 0..MaxHeld], PostFacts(collected) PROVE Quiet'
  <2>1. /\ report = None /\ fact' = collected /\ lib' = lib /\ settled' = settled
        /\ Run(collected, Wrote(collected), TRUE, Deleted(collected))
    BY <1>2 DEF PostFacts, MayRun
  <2>2. Deleted(collected) \in BOOLEAN
    BY DEF Deleted
  <2> QED
    BY <1>1, <2>1, <2>2, QuietRun
<1>3. ASSUME NEW full \in BOOLEAN, PostRun(full) PROVE Quiet'
  <2>1. report = None /\ fact' = fact /\ lib' = lib /\ settled' = settled /\ Run(fact, {}, full, full)
    BY <1>3 DEF PostRun, MayRun
  <2>2. fact \in [Kinds -> Nat]
    BY DEF TablesTyped
  <2> QED
    BY <2>1, <2>2, QuietRun
<1>4. ASSUME NEW collected \in [Kinds -> 0..MaxHeld], EngineRaises(collected) PROVE Quiet'
  <2> DEFINE full == Deleted(collected)
             held == MembersAfter(collected, Wrote(collected), full)
             rows == RowsAfter(held, Filed(Wrote(collected), full), full)
  <2>1. /\ report = None /\ report' = None /\ settled' = FALSE /\ lib' = lib /\ fact' = collected
    BY <1>4 DEF EngineRaises, MayRun
  <2>2. PICK turns \in 0..Cardinality(DOMAIN rows), pointed \in {{}, Pending} :
          LET saved == {f \in DOMAIN rows : lib.figures[f].turn <= turns} IN
          /\ pointed # {} => saved = DOMAIN rows
          /\ Tables(held, [f \in saved |-> rows[f]], pointed, full)
    BY <1>4 DEF EngineRaises
  <2>3. held \in [IndexNames -> Nat]
    BY <1>1, MembersNumbers
  <2>4. DOMAIN rows = DOMAIN lib.figures
    <3>1. rows = [f \in DOMAIN lib.figures |-> RowAfter(rows, f, held, Filed(Wrote(collected), full), full)]
      BY RowsDefined DEF Taught
    <3> HIDE DEF rows
    <3> QED
      BY <3>1
  <2>5. \A f \in DOMAIN lib.figures : rows[f] \in Nat
    BY <2>3, RowsNumbers
  <2> DEFINE saved == {f \in DOMAIN rows : lib.figures[f].turn <= turns}
             r == [f \in saved |-> rows[f]]
  <2>6. DOMAIN r = saved /\ saved \subseteq DOMAIN lib.figures /\ \A f \in saved : r[f] \in Nat
    BY <2>4, <2>5
  <2>7. pointed \in SUBSET DOMAIN r
    BY <2>2, <2>4, <2>6 DEF Pending
  <2>8. Tables(held, r, pointed, full) /\ fact' \in [Kinds -> Nat]
    BY <1>1, <2>1, <2>2
  <2>9. TablesTyped' /\ Computed'
    <3> HIDE DEF r, saved, rows, held, full
    <3> QED
      BY <2>3, <2>6, <2>7, <2>8, TablesStep
  <2> QED
    BY <2>1, <2>9 DEF Taught, Settled, QuietPassIsSilent
<1>5. ASSUME UNCHANGED <<fact, tables>> PROVE TablesTyped' /\ Computed'
  BY <1>5 DEF tables, TablesTyped, Computed
<1>6. ASSUME UNCHANGED <<fact, lib, tables, stamp>>, report' = None,
             settled' => report # None \/ settled
      PROVE  Quiet'
  BY <1>5, <1>6, InForceFrame DEF Taught, Settled, QuietPassIsSilent
<1>7. CASE Deliver
  BY <1>6, <1>7 DEF Deliver
<1>8. CASE DeliveryRaises
  BY <1>6, <1>8 DEF DeliveryRaises
<1>9. CASE Connect
  BY <1>6, <1>9 DEF Connect
<1>10. ASSUME NEW L \in Libraries, Teach(L) PROVE Quiet'
  <2>1. lib' = L /\ report' = None /\ settled' = FALSE /\ UNCHANGED <<fact, tables>>
    BY <1>10 DEF Teach
  <2> QED
    BY <1>5, <2>1 DEF Taught, Settled, QuietPassIsSilent
<1>11. CASE NewDay
  BY <1>6, <1>11 DEF NewDay
<1>12. CASE UNCHANGED vars
  <2>1. UNCHANGED <<fact, lib, tables, stamp, report, settled>>
    BY <1>12 DEF vars
  <2> QED
    BY <1>5, <2>1, InForceFrame DEF Taught, Settled, QuietPassIsSilent
<1> QED
  BY <1>2, <1>3, <1>4, <1>7, <1>8, <1>9, <1>10, <1>11, <1>12 DEF Next

\* What the tables hold and a settled pass leaves, in every reachable state.
THEOREM QuietInvariant == Spec => []Quiet
<1>1. ASSUME Init PROVE Quiet
  <2>1. TablesTyped /\ Computed
    BY <1>1, BoundsAssumption DEF Init, TablesTyped, Computed
  <2> QED
    BY <1>1, <2>1 DEF Init, Quiet, Taught, Settled, QuietPassIsSilent
<1>2. Quiet /\ [Next]_vars => Quiet'
  BY QuietStep
<1> QED
  BY <1>1, <1>2, PTL DEF Spec

\* The stamps and the pointers remember what was served (facade.py:317): a pass with
\* nothing written, over a library whose last pass was delivered, names nothing.
THEOREM QuietPassesAreSilent == Spec => []QuietPassIsSilent
<1>1. Quiet => QuietPassIsSilent
  BY DEF Quiet
<1> QED
  BY <1>1, QuietInvariant, PTL

(***************************************************************************)
(* What is left on a screen is what asking would answer.  An answer is     *)
(* followed part by part: it stays where every part it is worked out from  *)
(* stays.                                                                  *)
(***************************************************************************)

(***************************************************************************)
(* An answer stays where its parts do.                                     *)
(***************************************************************************)

\* A step that leaves what is read of a figure as it was.
Same(f) ==
  /\ f \in DOMAIN lib.figures /\ f \in DOMAIN lib'.figures
  /\ lib'.figures[f].version = lib.figures[f].version
  /\ lib'.figures[f].bandReads = lib.figures[f].bandReads
  /\ lib'.figures[f].bandField = lib.figures[f].bandField
  /\ Availability(f)' = Availability(f) /\ Served(f)' = Served(f)

\* ... and all that the word it earns is judged by.
SameLevel(f) ==
  /\ Same(f) /\ \A g \in lib.figures[f].bandReads : Same(g)
  /\ lib.figures[f].bandField # None => fact'[lib.figures[f].bandField] = fact[lib.figures[f].bandField]

LEMMA LevelSame ==
  ASSUME NEW f, SameLevel(f)
  PROVE  Level(f)' = Level(f)
<1>1. {Served(g) : g \in lib.figures[f].bandReads}' = {Served(g) : g \in lib.figures[f].bandReads}
  BY DEF SameLevel, Same
<1>2. {IF fact[k] = 0 THEN None ELSE fact[k] : k \in {lib.figures[f].bandField} \ {None}}'
        = {IF fact[k] = 0 THEN None ELSE fact[k] : k \in {lib.figures[f].bandField} \ {None}}
  BY DEF SameLevel, Same
<1>3. BandThresholds(f)' = BandThresholds(f)
  BY <1>1, <1>2 DEF BandThresholds
<1>4. Served(f)' = Served(f)
  BY DEF SameLevel, Same
<1> QED
  BY <1>3, <1>4 DEF Level, Word

LEMMA FigureSame ==
  ASSUME NEW f, SameLevel(f), lib'.figures[f].prose = lib.figures[f].prose
  PROVE  AnswerFigure(f)' = AnswerFigure(f)
<1>1. Level(f)' = Level(f)
  BY LevelSame
<1> QED
  BY <1>1 DEF AnswerFigure, SameLevel, Same

\* What a reading is worked out from, where it is not refused.
SameReading(r) ==
  /\ lib'.readings[r].version = lib.readings[r].version /\ lib'.readings[r].prose = lib.readings[r].prose
  /\ lib'.readings[r].source = lib.readings[r].source
  /\ lib'.readings[r].bandReads = lib.readings[r].bandReads
  /\ lib.readings[r].source # None =>
       day' = day /\ \A g \in {lib.readings[r].source} \union lib.readings[r].bandReads : Same(g)

LEMMA ReadingSame ==
  ASSUME NEW r, SameReading(r)
  PROVE  AnswerReading(r)' = AnswerReading(r)
<1>1. CASE lib.readings[r].source = None
  BY <1>1 DEF SameReading, AnswerReading, Refused
<1>2. CASE lib.readings[r].source # None
  <2>1. {Served(g) : g \in lib.readings[r].bandReads}' = {Served(g) : g \in lib.readings[r].bandReads}
    BY <1>2 DEF SameReading, Same
  <2>2. PICK s : s = lib.readings[r].source
    OBVIOUS
  <2>3. lib'.readings[r].source = s
    BY <2>2 DEF SameReading
  <2>4. Availability(s)' = Availability(s) /\ Served(s)' = Served(s)
    BY <1>2, <2>2 DEF SameReading, Same
  <2>5. AnswerReading(r) =
          [version |-> lib.readings[r].version, prose |-> lib.readings[r].prose, window |-> day,
           state |-> Availability(s), value |-> Served(s),
           level |-> Word(Served(s), {Served(g) : g \in lib.readings[r].bandReads})]
    BY <1>2, <2>2 DEF AnswerReading
  <2>6. AnswerReading(r)' =
          [version |-> lib'.readings[r].version, prose |-> lib'.readings[r].prose, window |-> day',
           state |-> Availability(s)', value |-> Served(s)',
           level |-> Word(Served(s)', {Served(g) : g \in lib.readings[r].bandReads}')]
    BY <1>2, <2>2, <2>3 DEF AnswerReading, Word
  <2> QED
    BY <1>2, <2>1, <2>4, <2>5, <2>6 DEF SameReading
<1> QED
  BY <1>1, <1>2

\* What a page is worked out from, but for its summary.
SamePage(p) ==
  /\ lib'.projections[p].version = lib.projections[p].version
  /\ lib'.projections[p].prose = lib.projections[p].prose
  /\ lib'.projections[p].reads = lib.projections[p].reads
  /\ lib'.projections[p].words = lib.projections[p].words
  /\ day' = day /\ Population(p)' = Population(p) /\ Rowed(p)' = Rowed(p)
  /\ \A f \in lib.projections[p].reads : Same(f)
  /\ \A f \in lib.projections[p].words : SameLevel(f)

LEMMA SummarySame ==
  ASSUME NEW s, NEW p, lib.summaries[s].over = p, lib'.summaries[s].over = p,
         lib'.summaries[s].version = lib.summaries[s].version,
         Population(p)' = Population(p), Rowed(p)' = Rowed(p)
  PROVE  Summary(s)' = Summary(s)
<1>1. Summary(s) = IF Population(p) = "ok" THEN <<s, lib.summaries[s].version, Rowed(p)>> ELSE <<>>
  BY DEF Summary
<1>2. Summary(s)' = IF Population(p)' = "ok" THEN <<s, lib'.summaries[s].version, Rowed(p)'>> ELSE <<>>
  BY DEF Summary, Population, Rowed
<1> QED
  BY <1>1, <1>2

LEMMA PageSame ==
  ASSUME NEW p, SamePage(p), Leading(lib, p)' = Leading(lib, p),
         \A s \in Leading(lib, p) : lib'.summaries[s].version = lib.summaries[s].version
  PROVE  AnswerProjection(p)' = AnswerProjection(p)
<1>1. {<<f, Served(f)>> : f \in lib.projections[p].reads}' = {<<f, Served(f)>> : f \in lib.projections[p].reads}
  BY DEF SamePage, Same
<1>2. \A f \in lib.projections[p].words : Level(f)' = Level(f)
  BY LevelSame DEF SamePage
<1>3. {<<f, Level(f)>> : f \in lib.projections[p].words}' = {<<f, Level(f)>> : f \in lib.projections[p].words}
  BY <1>2 DEF SamePage
<1>4. Columns(p)' = Columns(p)
  BY <1>1, <1>3 DEF Columns
<1>5. ASSUME NEW s \in Leading(lib, p) PROVE Summary(s)' = Summary(s)
  <2>1. lib.summaries[s].over = p
    BY DEF Leading
  <2>2. s \in Leading(lib', p)
    BY DEF Leading
  <2>3. lib'.summaries[s].over = p
    BY <2>2 DEF Leading
  <2> QED
    BY <2>1, <2>3, SummarySame DEF SamePage
<1>6. {Summary(s) : s \in Leading(lib, p)}' = {Summary(s) : s \in Leading(lib, p)}
  BY <1>5
<1> QED
  BY <1>4, <1>6 DEF AnswerProjection, SamePage

\* A summary as a tile's member.
SameHead(s) ==
  /\ lib'.summaries[s].version = lib.summaries[s].version /\ lib'.summaries[s].prose = lib.summaries[s].prose
  /\ lib'.summaries[s].over = lib.summaries[s].over
  /\ \A p \in {lib.summaries[s].over} : SamePage(p)

LEMMA HeadSame ==
  ASSUME NEW s, SameHead(s)
  PROVE  /\ Summary(s)' = Summary(s) /\ Population(lib.summaries[s].over)' = Population(lib.summaries[s].over)
         /\ day' = day
<1>1. PICK p : p = lib.summaries[s].over
  OBVIOUS
<1>2. SamePage(p) /\ lib'.summaries[s].over = p
  BY <1>1 DEF SameHead
<1>3. Population(p)' = Population(p)
  BY <1>2 DEF SamePage
<1>4. Summary(s)' = Summary(s)
  BY <1>1, <1>2, SummarySame DEF SamePage, SameHead
<1>5. Population(lib.summaries[s].over)' = Population(p)'
  BY <1>2 DEF Population
<1> QED
  BY <1>1, <1>2, <1>3, <1>4, <1>5 DEF SamePage

(***************************************************************************)
(* By name: which kind of declaration answers.                             *)
(***************************************************************************)

LEMMA KindsApart ==
  ASSUME NEW L \in Libraries, NEW n
  PROVE  /\ n \in DOMAIN L.figures => n \notin DOMAIN L.readings \union DOMAIN L.bundles \union Paged(L)
         /\ n \in DOMAIN L.readings => n \notin DOMAIN L.figures \union DOMAIN L.bundles \union Paged(L)
         /\ n \in DOMAIN L.bundles => n \notin DOMAIN L.figures \union DOMAIN L.readings \union Paged(L)
         /\ n \in DOMAIN L.projections => n \notin DOMAIN L.summaries
  BY LibraryAssumption

AnswersRight ==
  \A n :
    /\ n \in DOMAIN lib.figures => AnswerMember(n) = AnswerFigure(n) /\ Answer(n) = AnswerMember(n)
    /\ n \in DOMAIN lib.readings => AnswerMember(n) = AnswerReading(n) /\ Answer(n) = AnswerMember(n)
    /\ n \in DOMAIN lib.projections => AnswerMember(n) = AnswerProjection(n) /\ Answer(n) = AnswerMember(n)
    /\ n \in DOMAIN lib.summaries =>
         /\ AnswerMember(n) =
              [prose |-> lib.summaries[n].prose, at |-> day,
               state |-> Population(lib.summaries[n].over), summary |-> Summary(n)]
         /\ \A p : lib.summaries[n].over = p => Answer(n) = AnswerProjection(p)
    /\ n \in DOMAIN lib.bundles => Answer(n) = AnswerBundle(n)

LEMMA AnswersByKind == Taught => AnswersRight
<1> SUFFICES ASSUME Taught, NEW n
             PROVE  /\ n \in DOMAIN lib.figures => AnswerMember(n) = AnswerFigure(n) /\ Answer(n) = AnswerMember(n)
                    /\ n \in DOMAIN lib.readings => AnswerMember(n) = AnswerReading(n) /\ Answer(n) = AnswerMember(n)
                    /\ n \in DOMAIN lib.projections =>
                         AnswerMember(n) = AnswerProjection(n) /\ Answer(n) = AnswerMember(n)
                    /\ n \in DOMAIN lib.summaries =>
                         /\ AnswerMember(n) =
                              [prose |-> lib.summaries[n].prose, at |-> day,
                               state |-> Population(lib.summaries[n].over), summary |-> Summary(n)]
                         /\ \A p : lib.summaries[n].over = p => Answer(n) = AnswerProjection(p)
                    /\ n \in DOMAIN lib.bundles => Answer(n) = AnswerBundle(n)
  BY DEF AnswersRight
<1>1. lib \in Libraries
  BY DEF Taught
<1>2. CASE n \in DOMAIN lib.figures
  BY <1>1, <1>2, KindsApart DEF AnswerMember, Answer, Paged
<1>3. CASE n \in DOMAIN lib.readings
  BY <1>1, <1>3, KindsApart DEF AnswerMember, Answer, Paged
<1>4. CASE n \in DOMAIN lib.projections
  BY <1>1, <1>4, KindsApart DEF AnswerMember, Answer, Paged
<1>5. CASE n \in DOMAIN lib.summaries
  BY <1>1, <1>5, KindsApart DEF AnswerMember, Answer, Paged
<1>6. CASE n \in DOMAIN lib.bundles
  BY <1>1, <1>6, KindsApart DEF AnswerMember, Answer, Paged
<1> QED
  BY <1>2, <1>3, <1>4, <1>5, <1>6

\* The same in the state a step leads to.
LEMMA AnswersAfter == Taught' => AnswersRight'
  BY AnswersByKind, PTL

\* A page is answered with the same summary.
SameLead(p) ==
  /\ Leading(lib, p)' = Leading(lib, p)
  /\ \A s \in Leading(lib, p) : lib'.summaries[s].version = lib.summaries[s].version

\* What a tile's member is worked out from, by its kind.
SameMember(n) ==
  \/ /\ n \in DOMAIN lib.figures /\ n \in DOMAIN lib'.figures
     /\ SameLevel(n) /\ lib'.figures[n].prose = lib.figures[n].prose
  \/ n \in DOMAIN lib.readings /\ n \in DOMAIN lib'.readings /\ SameReading(n)
  \/ n \in DOMAIN lib.projections /\ n \in DOMAIN lib'.projections /\ SamePage(n) /\ SameLead(n)
  \/ n \in DOMAIN lib.summaries /\ n \in DOMAIN lib'.summaries /\ SameHead(n)

LEMMA MemberSame ==
  ASSUME Taught, Taught', NEW n, SameMember(n)
  PROVE  /\ AnswerMember(n)' = AnswerMember(n)
         /\ n \notin DOMAIN lib.summaries => Answer(n)' = Answer(n)
<1>1. AnswersRight /\ AnswersRight'
  BY AnswersByKind, AnswersAfter
<1>2. CASE n \in DOMAIN lib.figures /\ n \in DOMAIN lib'.figures /\ SameLevel(n) /\ lib'.figures[n].prose = lib.figures[n].prose
  BY <1>1, <1>2, FigureSame DEF AnswersRight
<1>3. CASE n \in DOMAIN lib.readings /\ n \in DOMAIN lib'.readings /\ SameReading(n)
  BY <1>1, <1>3, ReadingSame DEF AnswersRight
<1>4. CASE n \in DOMAIN lib.projections /\ n \in DOMAIN lib'.projections /\ SamePage(n) /\ SameLead(n)
  BY <1>1, <1>4, PageSame DEF AnswersRight, SameLead
<1>5. CASE n \in DOMAIN lib.summaries /\ n \in DOMAIN lib'.summaries /\ SameHead(n)
  <2>1. AnswerMember(n) =
          [prose |-> lib.summaries[n].prose, at |-> day,
           state |-> Population(lib.summaries[n].over), summary |-> Summary(n)]
    BY <1>1, <1>5 DEF AnswersRight
  <2>2. AnswerMember(n)' =
          [prose |-> lib'.summaries[n].prose, at |-> day',
           state |-> Population(lib.summaries[n].over)', summary |-> Summary(n)']
    BY <1>1, <1>5 DEF AnswersRight
  <2> QED
    BY <1>5, <2>1, <2>2, HeadSame DEF SameHead
<1> QED
  BY <1>2, <1>3, <1>4, <1>5 DEF SameMember

\* A summary by name is its page.
LEMMA HeadAnswerSame ==
  ASSUME Taught, Taught', NEW n \in DOMAIN lib.summaries, n \in DOMAIN lib'.summaries,
         SameHead(n), \A p \in {lib.summaries[n].over} : SameLead(p)
  PROVE  Answer(n)' = Answer(n)
<1>1. PICK p : p = lib.summaries[n].over
  OBVIOUS
<1>2. lib'.summaries[n].over = p /\ SamePage(p) /\ SameLead(p)
  BY <1>1 DEF SameHead
<1>3. AnswerProjection(p)' = AnswerProjection(p)
  BY <1>2, PageSame DEF SameLead
<1>4. Answer(n) = AnswerProjection(p)
  BY <1>1, AnswersByKind DEF AnswersRight
<1>5. Answer(n)' = AnswerProjection(p)'
  BY <1>2, AnswersAfter DEF AnswersRight
<1> QED
  BY <1>3, <1>4, <1>5

\* A tile, where its members stay or it cannot be served at all.
SameTile(b) ==
  /\ b \in DOMAIN lib.bundles /\ b \in DOMAIN lib'.bundles /\ (Servable(b)' <=> Servable(b))
  /\ Servable(b) =>
       /\ lib'.bundles[b].version = lib.bundles[b].version /\ lib'.bundles[b].prose = lib.bundles[b].prose
       /\ lib'.bundles[b].members = lib.bundles[b].members
       /\ \A n \in lib.bundles[b].members : SameMember(n)

LEMMA TileSame ==
  ASSUME Taught, Taught', NEW b, SameTile(b)
  PROVE  Answer(b)' = Answer(b)
<1>1. Answer(b) = AnswerBundle(b) /\ Answer(b)' = AnswerBundle(b)'
  BY AnswersByKind, AnswersAfter DEF AnswersRight, SameTile
<1>2. CASE ~Servable(b)
  BY <1>1, <1>2 DEF SameTile, AnswerBundle, Refused
<1>3. CASE Servable(b)
  <2>1. \A n \in lib.bundles[b].members : AnswerMember(n)' = AnswerMember(n)
    BY <1>3, MemberSame DEF SameTile
  <2>2. {<<n, AnswerMember(n)>> : n \in lib.bundles[b].members}' = {<<n, AnswerMember(n)>> : n \in lib.bundles[b].members}
    BY <1>3, <2>1 DEF SameTile
  <2> QED
    BY <1>1, <1>3, <2>2 DEF SameTile, AnswerBundle
<1> QED
  BY <1>2, <1>3

(***************************************************************************)
(* Whether anything is collected: defined, and the same under two          *)
(* libraries that declare the figure alike.                                *)
(***************************************************************************)

\* A grouping figure f reads holds a row, or one a figure it reads does, as h says.
Holding(h, L, held, f) ==
  \/ \E i \in L.figures[f].indexes : held[i] > 0
  \/ \E below \in L.figures[f].reads : h[below]

LEMMA HoldsDefined ==
  ASSUME NEW L \in Libraries, NEW held
  PROVE  \A f \in DOMAIN L.figures :
           AnyIndexHolds(L, held, f) <=>
             \/ \E i \in L.figures[f].indexes : held[i] > 0
             \/ \E below \in L.figures[f].reads : AnyIndexHolds(L, held, below)
<1> DEFINE D == DOMAIN L.figures
           turn(f) == L.figures[f].turn
           Row(a, f) == Holding(a, L, held, f)
           Upto(a, n) == \A f \in D : turn(f) <= n => a[f] = Row(a, f)
           S == {n \in Nat : \E a : a = [f \in D |-> a[f]] /\ Upto(a, n)}
           h == CHOOSE a : a = [f \in D |-> Row(a, f)]
<1>1. Cardinality(D) \in Nat
  <2>1. D \subseteq Names
    BY LibraryAssumption DEF Declared, Stamped
  <2> QED
    BY <2>1, BoundsAssumption, FS_Subset, FS_CardinalityType
<1>2. \A f \in D : turn(f) \in Nat /\ turn(f) >= 1 /\ turn(f) <= Cardinality(D)
  <2>1. \A f \in D : turn(f) \in 1..Cardinality(D)
    BY LibraryAssumption
  <2> QED
    BY <1>1, <2>1
<1>3. \A f \in D : L.figures[f].reads \subseteq D /\ \A g \in L.figures[f].reads : turn(g) < turn(f)
  BY LibraryAssumption
<1>4. \A a, b : \A f \in D : (\A g \in L.figures[f].reads : a[g] = b[g]) => Row(a, f) = Row(b, f)
  BY DEF Holding
<1>5. \A f : AnyIndexHolds(L, held, f) = h[f]
  BY DEF AnyIndexHolds, Holding
<1>6. \A a, f : Row(a, f) <=> \/ \E i \in L.figures[f].indexes : held[i] > 0
                             \/ \E below \in L.figures[f].reads : a[below]
  BY DEF Holding
<1> HIDE DEF D, turn, Row
<1>7. 0 \in S
  <2> DEFINE z == [f \in D |-> 0]
  <2>1. z = [f \in D |-> z[f]] /\ Upto(z, 0)
    BY <1>2
  <2> QED
    BY <2>1
<1>8. ASSUME NEW n \in S PROVE n + 1 \in S
  <2>1. n \in Nat /\ n + 1 \in Nat
    OBVIOUS
  <2>2. PICK a : a = [f \in D |-> a[f]] /\ Upto(a, n)
    OBVIOUS
  <2> DEFINE b == [f \in D |-> IF turn(f) <= n THEN a[f] ELSE Row(a, f)]
  <2>3. ASSUME NEW f \in D, turn(f) <= n + 1 PROVE b[f] = Row(b, f)
    <3>1. \A g \in L.figures[f].reads : g \in D /\ turn(g) <= n
      BY <1>2, <1>3, <2>1, <2>3
    <3>2. \A g \in L.figures[f].reads : b[g] = a[g]
      BY <3>1
    <3>3. Row(b, f) = Row(a, f)
      BY <1>4, <3>2
    <3>4. b[f] = Row(a, f)
      BY <2>2
    <3> QED
      BY <3>3, <3>4
  <2>4. b = [f \in D |-> b[f]]
    OBVIOUS
  <2> HIDE DEF b
  <2> QED
    BY <2>1, <2>3, <2>4
<1>9. PICK a : a = [f \in D |-> a[f]] /\ Upto(a, Cardinality(D))
  <2>1. S \in SUBSET Nat
    OBVIOUS
  <2>2. Cardinality(D) \in S
    <3> HIDE DEF S
    <3> QED
      BY <2>1, <1>1, <1>7, <1>8, CountingUp
  <2> QED
    BY <2>2
<1>10. a = [f \in D |-> Row(a, f)]
  BY <1>2, <1>9
<1>11. h = [f \in D |-> Row(h, f)]
  BY <1>10
<1> HIDE DEF h
<1>12. \A f \in D : h[f] = Row(h, f)
  BY <1>11
<1> QED
  BY <1>5, <1>6, <1>12 DEF D

\* The parts of a figure that its version covers.
LEMMA HashedFigure ==
  ASSUME NEW L \in Libraries, NEW M \in Libraries,
         NEW f \in DOMAIN L.figures, f \in DOMAIN M.figures,
         L.figures[f].version = M.figures[f].version
  PROVE  /\ L.figures[f].indexes = M.figures[f].indexes /\ L.figures[f].reads = M.figures[f].reads
         /\ L.figures[f].bandReads = M.figures[f].bandReads /\ L.figures[f].bandField = M.figures[f].bandField
         /\ \A g \in L.figures[f].reads : L.figures[g].version = M.figures[g].version
  BY HashAssumption

LEMMA HoldsAlike ==
  ASSUME NEW L \in Libraries, NEW M \in Libraries, NEW held,
         NEW f \in DOMAIN L.figures, f \in DOMAIN M.figures,
         L.figures[f].version = M.figures[f].version
  PROVE  AnyIndexHolds(L, held, f) <=> AnyIndexHolds(M, held, f)
<1> DEFINE D == DOMAIN L.figures
           turn(g) == L.figures[g].turn
           Alike(g) == g \in DOMAIN M.figures /\ L.figures[g].version = M.figures[g].version
           S == {n \in Nat : \A g \in D : turn(g) <= n /\ Alike(g) =>
                                (AnyIndexHolds(L, held, g) <=> AnyIndexHolds(M, held, g))}
<1>1. Cardinality(D) \in Nat /\ \A g \in D : turn(g) \in 1..Cardinality(D)
  <2>1. D \subseteq Names
    BY LibraryAssumption DEF Declared, Stamped
  <2> QED
    BY <2>1, BoundsAssumption, LibraryAssumption, FS_Subset, FS_CardinalityType
<1>2. \A g \in D : L.figures[g].reads \subseteq D /\ \A b \in L.figures[g].reads : turn(b) < turn(g)
  BY LibraryAssumption
<1>3. 0 \in S
  BY <1>1
<1>4. ASSUME NEW n \in S PROVE n + 1 \in S
  <2>1. ASSUME NEW g \in D, turn(g) <= n + 1, Alike(g)
        PROVE  AnyIndexHolds(L, held, g) <=> AnyIndexHolds(M, held, g)
    <3>1. /\ L.figures[g].indexes = M.figures[g].indexes /\ L.figures[g].reads = M.figures[g].reads
          /\ \A b \in L.figures[g].reads : L.figures[b].version = M.figures[b].version
      BY <2>1, HashedFigure
    <3>2. M.figures[g].reads \subseteq DOMAIN M.figures
      BY <2>1, LibraryAssumption
    <3>3. \A b \in L.figures[g].reads : b \in D /\ turn(b) <= n /\ Alike(b)
      BY <1>1, <1>2, <2>1, <3>1, <3>2
    <3>4. \A b \in L.figures[g].reads : AnyIndexHolds(L, held, b) <=> AnyIndexHolds(M, held, b)
      BY <3>3
    <3>5. AnyIndexHolds(L, held, g) <=> \/ \E i \in L.figures[g].indexes : held[i] > 0
                                       \/ \E b \in L.figures[g].reads : AnyIndexHolds(L, held, b)
      BY HoldsDefined
    <3>6. AnyIndexHolds(M, held, g) <=> \/ \E i \in M.figures[g].indexes : held[i] > 0
                                       \/ \E b \in M.figures[g].reads : AnyIndexHolds(M, held, b)
      BY <2>1, HoldsDefined
    <3> QED
      BY <3>1, <3>4, <3>5, <3>6
  <2> QED
    BY <2>1
<1>5. Cardinality(D) \in S
  <2>1. S \in SUBSET Nat
    OBVIOUS
  <2> HIDE DEF S
  <2> QED
    BY <1>1, <1>3, <1>4, <2>1, CountingUp
<1> QED
  BY <1>1, <1>5

(***************************************************************************)
(* What a pass leaves alone: whatever it does not name, and no note is     *)
(* made of, is answered as before.                                         *)
(***************************************************************************)

\* A definition not recomputed, not taken back and not newly collected, or emptied.
LEMMA PassedOver ==
  ASSUME Taught, lib' = lib, NEW held, NEW rows, DOMAIN rows = DOMAIN lib.figures,
         NEW full, Tables(held, rows, Pending, full),
         NEW touched, touched = {f \in DOMAIN lib.figures : rows[f] # Stored(f)},
         NEW f \in DOMAIN lib.figures, f \notin touched \union Collected(held, touched) \union TakenBack(touched)
  PROVE  Same(f)
<1>1. f \in Names /\ lib.figures[f].version \in Versions
  BY LibraryAssumption DEF Taught, Declared, Stamped
<1>2. f \notin Pending
  BY DEF TakenBack
<1>3. pointer'[f] = pointer[f]
  BY <1>1, <1>2 DEF Tables
<1>4. AnyIndexHolds(lib, members', f) = AnyIndexHolds(lib, members, f)
  BY DEF Collected, Tables
<1>5. Availability(f)' = Availability(f)
  BY <1>3, <1>4 DEF Availability
<1>6. Availability(f) = "ok" => row'[f][lib.figures[f].version] = row[f][lib.figures[f].version]
  <2>1. rows[f] = row[f][lib.figures[f].version]
    BY DEF Stored
  <2>2. row'[f] = [row[f] EXCEPT ![lib.figures[f].version] = rows[f]]
    BY <1>1 DEF Tables
  <2> QED
    BY <2>1, <2>2
<1>7. Served(f)' = Served(f)
  BY <1>5, <1>6 DEF Served, Stored
<1> QED
  BY <1>5, <1>7 DEF Same

\* A page a definition-only pass leaves alone, population and all.
LEMMA PagePassed ==
  ASSUME Taught, Taught', lib' = lib, day' = day, \A k \in Kinds : fact'[k] = fact[k],
         NEW touched \in SUBSET DOMAIN lib.figures, NEW noted \in SUBSET DOMAIN lib.figures,
         \A f \in DOMAIN lib.figures \ (touched \union noted) : Same(f),
         \A i \in DOMAIN lib.indexes \ Stale : members'[i] = members[i] /\ built'[i] = built[i],
         NEW p \in DOMAIN lib.projections, p \notin Reached(touched, Stale), p \notin Downstream(noted)
  PROVE  SamePage(p)
<1> DEFINE plan == lib.projections[p]
<1> USE DEF Taught
<1>1. plan.frm # None => plan.frm \in DOMAIN lib.indexes \ Stale
  BY LibraryAssumption DEF Reached
<1>2. plan.kind \in Kinds /\ plan.reads \union plan.words \subseteq DOMAIN lib.figures
  BY LibraryAssumption
<1>3. \A f \in plan.reads \union plan.words : f \notin touched
  BY DEF Reached
<1>4. \A f \in plan.words : lib.figures[f].bandReads \intersect touched = {}
  BY DEF Reached
<1>5. \A f \in plan.reads : f \notin noted
  BY DEF Downstream
<1>6. \A f \in plan.words : f \notin noted /\ lib.figures[f].bandReads \intersect noted = {}
  BY <1>2 DEF Downstream
<1>7. \A f \in plan.reads \union plan.words : Same(f)
  BY <1>2, <1>3, <1>5, <1>6
<1>8. ASSUME NEW f \in plan.words PROVE SameLevel(f)
  <2>1. f \in DOMAIN lib.figures /\ lib.figures[f].bandReads \subseteq DOMAIN lib.figures
        /\ lib.figures[f].bandField \in Kinds \union {None}
    BY <1>2, LibraryAssumption
  <2> QED
    BY <1>4, <1>6, <1>7, <2>1 DEF SameLevel
<1>9. plan.frm # None => /\ members'[plan.frm] = members[plan.frm]
                         /\ built[plan.frm] = lib.indexes[plan.frm].version
                         /\ built'[plan.frm] = lib.indexes[plan.frm].version
  BY <1>1 DEF Stale
<1>10. fact'[plan.kind] = fact[plan.kind]
  BY <1>2
<1>11. Population(p)' = Population(p)
  BY <1>9, <1>10 DEF Population
<1>12. Rowed(p)' = Rowed(p)
  BY <1>9, <1>10, <1>11 DEF Rowed
<1> QED
  BY <1>7, <1>8, <1>11, <1>12 DEF SamePage

\* A member of a tile that the pass does not name, and no note is made of.
LEMMA MemberPassed ==
  ASSUME Taught, Taught', lib' = lib, day' = day,
         NEW wrote, \A k \in Kinds \ wrote : fact'[k] = fact[k],
         NEW touched \in SUBSET DOMAIN lib.figures, NEW noted \in SUBSET DOMAIN lib.figures,
         \A f \in DOMAIN lib.figures \ (touched \union noted) : Same(f),
         NEW pages \in SUBSET DOMAIN lib.projections,
         \A p \in DOMAIN lib.projections \ (pages \union Downstream(noted)) : SamePage(p),
         NEW n \in Declared(lib) \ DOMAIN lib.bundles,
         n \notin Moved(touched, pages) \union Downstream(noted) \union Allowed(wrote)
  PROVE  SameMember(n) /\ (n \in DOMAIN lib.summaries => \A p \in {lib.summaries[n].over} : SameLead(p))
<1> USE DEF Taught
<1>1. CASE n \in DOMAIN lib.figures
  <2>1. n \notin touched /\ n \notin Refreshed /\ lib.figures[n].bandReads \intersect touched = {}
    BY <1>1, MemberMoves DEF FigureMoves
  <2>2. n \notin noted /\ lib.figures[n].bandReads \intersect noted = {}
    BY <1>1 DEF Downstream
  <2>3. lib.figures[n].bandReads \subseteq DOMAIN lib.figures /\ lib.figures[n].bandField \in Kinds \union {None}
    BY <1>1, LibraryAssumption
  <2>4. lib.figures[n].bandField \notin wrote
    BY <1>1 DEF Allowed
  <2>5. SameLevel(n)
    BY <1>1, <2>1, <2>2, <2>3, <2>4 DEF SameLevel
  <2>6. n \notin DOMAIN lib.summaries
    BY <1>1, KindsApart DEF Paged
  <2> QED
    BY <1>1, <2>5, <2>6 DEF SameMember
<1>2. CASE n \in DOMAIN lib.readings
  <2>1. lib.readings[n].source \notin touched /\ lib.readings[n].bandReads \intersect touched = {}
    BY <1>2, MemberMoves DEF ReadingMoves
  <2>2. lib.readings[n].source \notin noted /\ lib.readings[n].bandReads \intersect noted = {}
    BY <1>2 DEF Downstream
  <2>3. lib.readings[n].source \in DOMAIN lib.figures \union {None} /\ lib.readings[n].bandReads \subseteq DOMAIN lib.figures
    BY <1>2, LibraryAssumption
  <2>4. SameReading(n)
    BY <2>1, <2>2, <2>3 DEF SameReading
  <2>5. n \notin DOMAIN lib.summaries
    BY <1>2, KindsApart DEF Paged
  <2> QED
    BY <1>2, <2>4, <2>5 DEF SameMember
<1>3. \A p : SameLead(p)
  BY DEF SameLead, Leading
<1>4. CASE n \in DOMAIN lib.projections
  <2>1. n \notin pages
    BY MemberMoves
  <2>2. SamePage(n)
    BY <1>4, <2>1
  <2>3. n \notin DOMAIN lib.summaries
    BY <1>4, KindsApart
  <2> QED
    BY <1>3, <1>4, <2>2, <2>3 DEF SameMember
<1>5. CASE n \in DOMAIN lib.summaries
  <2>1. PICK p : p = lib.summaries[n].over
    OBVIOUS
  <2>2. p \notin pages
    BY <1>5, <2>1, MemberMoves
  <2>3. p \in DOMAIN lib.projections
    BY <1>5, <2>1, LibraryAssumption
  <2>4. p \notin Downstream(noted)
    <3>1. p \notin DOMAIN lib.figures \union DOMAIN lib.readings \union DOMAIN lib.bundles \union DOMAIN lib.summaries
      BY <2>3, KindsApart DEF Paged
    <3> QED
      BY <1>5, <2>1, <3>1 DEF Downstream
  <2>5. SameHead(n)
    BY <2>1, <2>2, <2>3, <2>4 DEF SameHead
  <2> QED
    BY <1>3, <1>5, <2>5 DEF SameMember
<1> QED
  BY <1>1, <1>2, <1>4, <1>5 DEF Declared, Stamped, Paged

\* Any name the pass does not name, and no note is made of.
LEMMA NamePassed ==
  ASSUME Taught, Taught', lib' = lib, day' = day,
         NEW wrote, \A k \in Kinds \ wrote : fact'[k] = fact[k],
         NEW touched \in SUBSET DOMAIN lib.figures, NEW noted \in SUBSET DOMAIN lib.figures,
         \A f \in DOMAIN lib.figures \ (touched \union noted) : Same(f),
         NEW pages \in SUBSET DOMAIN lib.projections,
         \A p \in DOMAIN lib.projections \ (pages \union Downstream(noted)) : SamePage(p),
         NEW n \in Declared(lib), n \notin Moved(touched, pages) \union Downstream(noted)
                                       \union Allowed(wrote) \union TilesOver(Allowed(wrote))
  PROVE  Answer(n)' = Answer(n)
<1> USE DEF Taught
<1>1. CASE n \notin DOMAIN lib.bundles
  <2>1. SameMember(n) /\ (n \in DOMAIN lib.summaries => \A p \in {lib.summaries[n].over} : SameLead(p))
    BY <1>1, MemberPassed
  <2>2. CASE n \in DOMAIN lib.summaries
    <3>1. SameHead(n)
      BY <2>1, <2>2, KindsApart DEF SameMember, Paged
    <3> QED
      BY <2>1, <2>2, <3>1, HeadAnswerSame
  <2> QED
    BY <2>1, <2>2, MemberSame
<1>2. CASE n \in DOMAIN lib.bundles
  <2>1. Servable(n)' <=> Servable(n)
    BY DEF Servable
  <2>2. ASSUME Servable(n), NEW m \in lib.bundles[n].members PROVE SameMember(m)
    <3>1. m \in Declared(lib) \ DOMAIN lib.bundles
      BY <1>2, LibraryAssumption
    <3>2. m \notin Moved(touched, pages)
      BY <1>2, <2>2, TileMoves
    <3>3. m \notin Downstream(noted)
      BY <1>2, <3>1 DEF Downstream
    <3>4. m \notin Allowed(wrote)
      BY <1>2 DEF TilesOver
    <3> QED
      BY <3>1, <3>2, <3>3, <3>4, MemberPassed
  <2>3. SameTile(n)
    BY <1>2, <2>1, <2>2 DEF SameTile
  <2> QED
    BY <2>3, TileSame
<1> QED
  BY <1>1, <1>2

\* What a deploy leaves to be named, until the pass after it names it.
Due == Moved(Pending, Reached(Pending, Stale)) \union Closed

\* A pass of those same definitions names it all, or a note is made.
LEMMA DueIsNamed ==
  ASSUME Taught, NEW due \in SUBSET DOMAIN lib.figures, NEW stale,
         NEW touched \in SUBSET DOMAIN lib.figures, NEW noted, due \ touched \subseteq noted,
         NEW pages, Reached(touched, stale) \subseteq pages, pages \subseteq DOMAIN lib.projections,
         NEW n \in Moved(due, Reached(due, stale))
  PROVE  n \in Moved(touched, pages) \union Downstream(noted)
<1> USE DEF Taught
<1>1. ASSUME NEW p \in Reached(due, stale) PROVE p \in pages \/ p \in Downstream(noted)
  <2>1. CASE p \in Reached(touched, stale)
    BY <2>1
  <2>2. CASE p \notin Reached(touched, stale)
    <3>1. p \in DOMAIN lib.projections
      BY PagesDeclared
    <3> DEFINE plan == lib.projections[p]
               read == plan.reads \union plan.words \union UNION {lib.figures[f].bandReads : f \in plan.words}
    <3>2. read \intersect due # {} /\ read \intersect touched = {}
      BY <2>2, <3>1 DEF Reached
    <3>3. PICK g \in read : g \in noted
      BY <3>2
    <3>4. plan.words \subseteq DOMAIN lib.figures
      BY <3>1, LibraryAssumption
    <3>5. CASE g \in plan.reads
      BY <3>1, <3>3, <3>5 DEF Downstream
    <3>6. CASE g \in plan.words
      BY <3>1, <3>3, <3>4, <3>6 DEF Downstream
    <3>7. CASE g \in UNION {lib.figures[f].bandReads : f \in plan.words}
      <4>1. PICK f \in plan.words : g \in lib.figures[f].bandReads
        BY <3>7
      <4>2. f \in {h \in DOMAIN lib.figures : h \in noted \/ lib.figures[h].bandReads \intersect noted # {}}
        BY <3>3, <3>4, <4>1
      <4> QED
        BY <3>1, <4>1, <4>2 DEF Downstream
    <3> QED
      BY <3>3, <3>5, <3>6, <3>7
  <2> QED
    BY <2>1, <2>2
<1>2. ASSUME NEW f \in DOMAIN lib.figures, FigureMoves(f, due) PROVE FigureMoves(f, touched) \/ f \in Downstream(noted)
  BY <1>2 DEF FigureMoves, Downstream
<1>3. ASSUME NEW r \in DOMAIN lib.readings, ReadingMoves(r, due) PROVE ReadingMoves(r, touched) \/ r \in Downstream(noted)
  BY <1>3 DEF ReadingMoves, Downstream
<1>4. ASSUME NEW s \in DOMAIN lib.summaries, lib.summaries[s].over \in Reached(due, stale)
      PROVE  lib.summaries[s].over \in pages \/ s \in Downstream(noted)
  <2>1. PICK p : p = lib.summaries[s].over
    OBVIOUS
  <2>2. p \in DOMAIN lib.projections
    BY <2>1, LibraryAssumption
  <2>3. p \notin DOMAIN lib.figures \union DOMAIN lib.readings \union DOMAIN lib.bundles \union DOMAIN lib.summaries
    BY <2>2, KindsApart DEF Paged
  <2>4. p \in Downstream(noted) => s \in Downstream(noted)
    BY <2>1, <2>2, <2>3 DEF Downstream
  <2> QED
    BY <1>1, <1>4, <2>1, <2>4
<1>5. ASSUME NEW m \in Declared(lib) \ DOMAIN lib.bundles, m \in Moved(due, Reached(due, stale))
      PROVE  m \in Moved(touched, pages) \union Downstream(noted)
  <2>1. Reached(due, stale) \in SUBSET DOMAIN lib.projections /\ pages \in SUBSET DOMAIN lib.projections
    BY PagesDeclared
  <2>2. \/ m \in DOMAIN lib.figures /\ FigureMoves(m, due)
        \/ m \in DOMAIN lib.readings /\ ReadingMoves(m, due)
        \/ m \in Reached(due, stale)
        \/ m \in DOMAIN lib.summaries /\ lib.summaries[m].over \in Reached(due, stale)
    BY <1>5, <2>1, MemberMoves
  <2>3. \/ m \in DOMAIN lib.figures /\ FigureMoves(m, touched)
        \/ m \in DOMAIN lib.readings /\ ReadingMoves(m, touched)
        \/ m \in pages
        \/ m \in DOMAIN lib.summaries /\ lib.summaries[m].over \in pages
        \/ m \in Downstream(noted)
    BY <1>1, <1>2, <1>3, <1>4, <2>2
  <2> QED
    BY <2>1, <2>3, MemberMoves
<1>6. CASE n \in DOMAIN lib.bundles
  <2>1. CASE n \in Refreshed
    BY <2>1 DEF Moved
  <2>2. CASE n \notin Refreshed
    <3>1. n \in BundlesImpacted(due, Reached(due, stale))
      BY <1>6, <2>2, KindsApart, PagesDeclared DEF Moved, Paged
    <3>2. Servable(n)
      BY <3>1 DEF BundlesImpacted
    <3>3. PICK m \in lib.bundles[n].members : m \in Moved(due, Reached(due, stale))
      BY <1>6, <2>2, <3>2, TileMoves, PagesDeclared
    <3>4. m \in Declared(lib) \ DOMAIN lib.bundles
      BY <1>6, LibraryAssumption
    <3>5. m \in Moved(touched, pages) \union Downstream(noted)
      BY <1>5, <3>3, <3>4
    <3>6. m \in Downstream(noted) => n \in Downstream(noted)
      BY <1>6, <3>4 DEF Downstream
    <3>7. m \in Moved(touched, pages) => n \in Moved(touched, pages)
      BY <1>6, <3>2, TileMoves
    <3> QED
      BY <3>5, <3>6, <3>7
  <2> QED
    BY <2>1, <2>2
<1>7. n \in Declared(lib)
  BY PagesDeclared DEF Moved, Refreshed, BundlesImpacted, Declared, Stamped, Paged
<1> QED
  BY <1>5, <1>6, <1>7

\* A pass, by either door: what is not named and not noted is answered as before, and
\* what a deploy left to be named is named or noted.
LEMMA RunLeaves ==
  ASSUME Taught, Taught', lib' = lib, day' = day,
         NEW collected, NEW wrote, \A k \in Kinds \ wrote : fact'[k] = fact[k],
         NEW sync \in BOOLEAN, NEW full \in BOOLEAN, ~sync => wrote = {} /\ ~full,
         Run(collected, wrote, sync, full), NEW n \in Declared(lib), n \notin excused', n \notin report'.moved
  PROVE  /\ n \notin excused /\ n \notin Due
         /\ Answer(n)' = Answer(n)
<1> DEFINE held == MembersAfter(collected, wrote, full)
           rows == RowsAfter(held, Filed(wrote, full), full)
           touched == {f \in DOMAIN lib.figures : rows[f] # Stored(f)}
           noted == Collected(held, touched) \union TakenBack(touched)
           pages == IF sync THEN DOMAIN lib.projections ELSE Reached(touched, Reindexed(full))
<1> USE DEF Taught
<1>1. Tables(held, rows, Pending, full)
  BY DEF Run
<1>2. report'.moved = Moved(touched, pages)
  BY DEF Run
<1>3. excused' = (excused \union Unnamed(held, touched, wrote)) \ Moved(touched, pages)
  BY DEF Run
<1>4. DOMAIN rows = DOMAIN lib.figures
  <2>1. rows = [f \in DOMAIN lib.figures |-> RowAfter(rows, f, held, Filed(wrote, full), full)]
    BY RowsDefined
  <2> HIDE DEF rows
  <2> QED
    BY <2>1
<1>5. members' = held /\ built' = BuiltAfter(full)
  BY <1>1 DEF Tables
<1>6. ASSUME ~sync, NEW i \in DOMAIN lib.indexes \ Stale PROVE members'[i] = members[i] /\ built'[i] = built[i]
  <2>1. i \in IndexNames
    BY LibraryAssumption
  <2>2. i \notin Filed(wrote, full) /\ i \notin Reindexed(full)
    BY <1>6 DEF Filed, Reindexed
  <2>3. held[i] = CASE i \in Filed(wrote, full) -> IF lib.indexes[i].keeps THEN collected[lib.indexes[i].kind] ELSE 0
                    [] i \in DOMAIN lib.indexes \ Filed(wrote, full) -> members[i]
                    [] i \notin DOMAIN lib.indexes -> 0
    BY <2>1 DEF MembersAfter
  <2>4. BuiltAfter(full)[i] = CASE i \in Reindexed(full) -> lib.indexes[i].version
                                [] i \in DOMAIN lib.indexes \ Reindexed(full) -> built[i]
                                [] i \notin DOMAIN lib.indexes -> None
    BY <2>1 DEF BuiltAfter
  <2> HIDE DEF held
  <2>5. held[i] = members[i]
    BY <2>2, <2>3
  <2>6. BuiltAfter(full)[i] = built[i]
    BY <2>2, <2>4
  <2> QED
    BY <1>5, <2>5, <2>6
<1>7. touched \in SUBSET DOMAIN lib.figures
  OBVIOUS
<1>8. noted \in SUBSET DOMAIN lib.figures /\ Pending \in SUBSET DOMAIN lib.figures /\ Pending \ touched \subseteq noted
  BY DEF Collected, TakenBack, Pending
<1>9. Reached(touched, Stale) \subseteq pages /\ pages \in SUBSET DOMAIN lib.projections
  <2>1. Stale \subseteq Reindexed(full)
    BY DEF Reindexed, Stale
  <2> HIDE DEF touched
  <2>2. Reached(touched, Stale) \subseteq Reached(touched, Reindexed(full))
    BY <2>1 DEF Reached
  <2> QED
    BY <2>2, PagesDeclared
<1>10. ~sync => pages = Reached(touched, Stale)
  BY DEF Reindexed
<1>11. \A f \in DOMAIN lib.figures \ (touched \union noted) : Same(f)
  <2> DEFINE T == touched
  <2>1. T = {f \in DOMAIN lib.figures : rows[f] # Stored(f)}
    OBVIOUS
  <2> HIDE DEF T, rows, held
  <2>2. \A f \in DOMAIN lib.figures : f \notin T \union Collected(held, T) \union TakenBack(T) => Same(f)
    BY <1>1, <1>4, <2>1, PassedOver
  <2> QED
    BY <2>2 DEF T
<1>12. Unnamed(held, touched, wrote) = Downstream(noted) \union Allowed(wrote) \union TilesOver(Allowed(wrote)) \union Closed
  BY DEF Unnamed
<1> HIDE DEF touched, noted, pages, held, rows
<1>13. ASSUME NEW p \in DOMAIN lib.projections \ (pages \union Downstream(noted)) PROVE SamePage(p)
  <2>1. ~sync
    BY <1>13 DEF pages
  <2>2. \A k \in Kinds : fact'[k] = fact[k]
    BY <2>1
  <2> QED
    BY <1>6, <1>7, <1>8, <1>10, <1>11, <1>13, <2>1, <2>2, PagePassed
<1>14. n \notin Moved(touched, pages) \union Downstream(noted) \union Allowed(wrote) \union TilesOver(Allowed(wrote))
       /\ n \notin Closed /\ n \notin excused
  BY <1>2, <1>3, <1>12
<1>15. Answer(n)' = Answer(n)
  BY <1>7, <1>8, <1>9, <1>11, <1>13, <1>14, NamePassed
<1>16. n \notin Moved(Pending, Reached(Pending, Stale))
  BY <1>7, <1>8, <1>9, <1>14, DueIsNamed
<1> QED
  BY <1>14, <1>15, <1>16 DEF Due

(***************************************************************************)
(* What a deploy leaves alone: whatever is not left to be named.           *)
(***************************************************************************)

\* A declaration computed, filed and stamped as the library says, with what it reads.
FigureRests(f) ==
  /\ pointer[f] = lib.figures[f].version
  /\ stamp[f] = <<lib.figures[f].version, lib.figures[f].prose>>
  /\ \A g \in lib.figures[f].bandReads : pointer[g] = lib.figures[g].version
ReadingRests(r) ==
  /\ stamp[r] = <<lib.readings[r].version, lib.readings[r].prose>>
  /\ \A g \in {lib.readings[r].source} \ {None} : pointer[g] = lib.figures[g].version
  /\ \A g \in lib.readings[r].bandReads : pointer[g] = lib.figures[g].version
HeadRests(s) == stamp[s] = <<lib.summaries[s].version, lib.summaries[s].prose>>
PageRests(p) ==
  /\ stamp[p] = <<lib.projections[p].version, lib.projections[p].prose>>
  /\ \A i \in {lib.projections[p].frm} \ {None} : built[i] = lib.indexes[i].version
  /\ \A f \in lib.projections[p].reads : pointer[f] = lib.figures[f].version
  /\ \A f \in lib.projections[p].words :
       /\ pointer[f] = lib.figures[f].version
       /\ \A g \in lib.figures[f].bandReads : pointer[g] = lib.figures[g].version
  /\ \A s \in DOMAIN lib.summaries : lib.summaries[s].over = p => HeadRests(s)
MemberRests(n) ==
  /\ n \in DOMAIN lib.figures => FigureRests(n)
  /\ n \in DOMAIN lib.readings => ReadingRests(n)
  /\ n \in DOMAIN lib.projections => PageRests(n)
  /\ n \in DOMAIN lib.summaries =>
       HeadRests(n) /\ \A p \in DOMAIN lib.projections : lib.summaries[n].over = p => PageRests(p)
TileRests(b) ==
  /\ stamp[b] = <<lib.bundles[b].version, lib.bundles[b].prose>>
  /\ Servable(b) => \A n \in lib.bundles[b].members : MemberRests(n)
  /\ ~Servable(b) => \A r \in lib.bundles[b].members \intersect DOMAIN lib.readings :
                       stamp[r] = <<lib.readings[r].version, lib.readings[r].prose>>
Rests(n) == MemberRests(n) /\ (n \in DOMAIN lib.bundles => TileRests(n))

\* Every name not left to be named rests so.
DueRight == \A n \in Declared(lib) \ Due : Rests(n)

LEMMA StampByKind ==
  ASSUME Taught, NEW n
  PROVE  /\ n \in DOMAIN lib.figures => Stamp(n) = <<lib.figures[n].version, lib.figures[n].prose>>
         /\ n \in DOMAIN lib.readings => Stamp(n) = <<lib.readings[n].version, lib.readings[n].prose>>
         /\ n \in DOMAIN lib.projections => Stamp(n) = <<lib.projections[n].version, lib.projections[n].prose>>
         /\ n \in DOMAIN lib.summaries => Stamp(n) = <<lib.summaries[n].version, lib.summaries[n].prose>>
         /\ n \in DOMAIN lib.bundles => Stamp(n) = <<lib.bundles[n].version, lib.bundles[n].prose>>
<1>1. lib \in Libraries
  BY DEF Taught
<1>2. CASE n \in DOMAIN lib.figures
  BY <1>1, <1>2, KindsApart DEF Stamp, Paged
<1>3. CASE n \in DOMAIN lib.readings
  BY <1>1, <1>3, KindsApart DEF Stamp, Paged
<1>4. CASE n \in DOMAIN lib.projections
  BY <1>1, <1>4, KindsApart DEF Stamp, Paged
<1>5. CASE n \in DOMAIN lib.summaries
  BY <1>1, <1>5, KindsApart DEF Stamp, Paged
<1>6. CASE n \in DOMAIN lib.bundles
  BY <1>1, <1>6, KindsApart DEF Stamp, Paged
<1> QED
  BY <1>2, <1>3, <1>4, <1>5, <1>6

LEMMA MembersRest ==
  ASSUME Taught, NEW n \in Declared(lib) \ DOMAIN lib.bundles, n \notin Moved(Pending, Reached(Pending, Stale))
  PROVE  MemberRests(n)
<1> USE DEF Taught
<1>1. Pending \in SUBSET DOMAIN lib.figures /\ Reached(Pending, Stale) \in SUBSET DOMAIN lib.projections
  BY PagesDeclared DEF Pending
<1>2. \A f \in DOMAIN lib.figures \ Pending : pointer[f] = lib.figures[f].version
  BY DEF Pending
<1>3. ASSUME NEW p \in DOMAIN lib.projections \ Reached(Pending, Stale) PROVE PageRests(p)
  <2>1. stamp[p] = <<lib.projections[p].version, lib.projections[p].prose>>
    BY StampByKind DEF Reached
  <2>2. \A i \in {lib.projections[p].frm} \ {None} : built[i] = lib.indexes[i].version
    BY LibraryAssumption DEF Reached, Stale
  <2>3. lib.projections[p].reads \subseteq DOMAIN lib.figures \ Pending
        /\ lib.projections[p].words \subseteq DOMAIN lib.figures \ Pending
    BY LibraryAssumption DEF Reached
  <2>4. \A f \in lib.projections[p].words : lib.figures[f].bandReads \subseteq DOMAIN lib.figures \ Pending
    BY <2>3, LibraryAssumption DEF Reached
  <2>5. \A s \in DOMAIN lib.summaries : lib.summaries[s].over = p => HeadRests(s)
    BY StampByKind DEF Reached, HeadRests
  <2> QED
    BY <1>2, <2>1, <2>2, <2>3, <2>4, <2>5 DEF PageRests
<1>4. CASE n \in DOMAIN lib.figures
  <2>1. n \notin Pending /\ n \notin Refreshed /\ lib.figures[n].bandReads \intersect Pending = {}
    BY <1>1, <1>4, MemberMoves DEF FigureMoves
  <2>2. lib.figures[n].bandReads \subseteq DOMAIN lib.figures
    BY <1>4, LibraryAssumption
  <2>3. FigureRests(n)
    BY <1>2, <1>4, <2>1, <2>2, StampByKind DEF FigureRests, Refreshed, Stamped
  <2> QED
    BY <1>4, <2>3, KindsApart DEF MemberRests, Paged
<1>5. CASE n \in DOMAIN lib.readings
  <2>1. n \notin Refreshed /\ lib.readings[n].source \notin Pending /\ lib.readings[n].bandReads \intersect Pending = {}
    BY <1>1, <1>5, MemberMoves DEF ReadingMoves
  <2>2. lib.readings[n].source \in DOMAIN lib.figures \union {None} /\ lib.readings[n].bandReads \subseteq DOMAIN lib.figures
    BY <1>5, LibraryAssumption
  <2>3. ReadingRests(n)
    BY <1>2, <1>5, <2>1, <2>2, StampByKind DEF ReadingRests, Refreshed, Stamped
  <2> QED
    BY <1>5, <2>3, KindsApart DEF MemberRests, Paged
<1>6. CASE n \in DOMAIN lib.projections
  <2>1. n \notin Reached(Pending, Stale)
    BY <1>1, MemberMoves
  <2> QED
    BY <1>3, <1>6, <2>1, KindsApart DEF MemberRests, Paged
<1>7. CASE n \in DOMAIN lib.summaries
  <2>1. PICK p : p = lib.summaries[n].over
    OBVIOUS
  <2>2. p \in DOMAIN lib.projections /\ p \notin Reached(Pending, Stale)
    BY <1>1, <1>7, <2>1, MemberMoves, LibraryAssumption
  <2>3. PageRests(p)
    BY <1>3, <2>2
  <2>4. HeadRests(n)
    BY <1>7, <2>1, <2>3 DEF PageRests
  <2> QED
    BY <1>7, <2>1, <2>3, <2>4, KindsApart DEF MemberRests, Paged
<1> QED
  BY <1>4, <1>5, <1>6, <1>7 DEF Declared, Stamped, Paged

LEMMA DueIsRight == Taught => DueRight
<1> SUFFICES ASSUME Taught, NEW n \in Declared(lib), n \notin Due
             PROVE  Rests(n)
  BY DEF DueRight
<1> USE DEF Taught
<1>1. n \notin Moved(Pending, Reached(Pending, Stale)) /\ n \notin Closed
  BY DEF Due
<1>2. CASE n \notin DOMAIN lib.bundles
  BY <1>1, <1>2, MembersRest DEF Rests
<1>3. CASE n \in DOMAIN lib.bundles
  <2>1. Pending \in SUBSET DOMAIN lib.figures /\ Reached(Pending, Stale) \in SUBSET DOMAIN lib.projections
    BY PagesDeclared DEF Pending
  <2>2. n \notin Refreshed
    BY <1>1 DEF Moved
  <2>3. stamp[n] = <<lib.bundles[n].version, lib.bundles[n].prose>>
    BY <1>3, <2>2, StampByKind DEF Refreshed, Stamped
  <2>4. ASSUME Servable(n), NEW m \in lib.bundles[n].members PROVE MemberRests(m)
    <3>1. m \in Declared(lib) \ DOMAIN lib.bundles
      BY <1>3, LibraryAssumption
    <3>2. m \notin Moved(Pending, Reached(Pending, Stale))
      BY <1>1, <1>3, <2>1, <2>4, TileMoves
    <3> QED
      BY <3>1, <3>2, MembersRest
  <2>5. ASSUME ~Servable(n), NEW r \in lib.bundles[n].members \intersect DOMAIN lib.readings
        PROVE  stamp[r] = <<lib.readings[r].version, lib.readings[r].prose>>
    <3>1. r \notin Refreshed
      BY <1>1, <1>3, <2>5 DEF Closed
    <3> QED
      BY <3>1, StampByKind DEF Refreshed, Stamped
  <2>6. MemberRests(n)
    BY <1>3, KindsApart DEF MemberRests, Paged
  <2> QED
    BY <2>3, <2>4, <2>5, <2>6 DEF Rests, TileRests
<1> QED
  BY <1>2, <1>3

\* The same of the library a deploy leads to.
LEMMA DueIsRightAfter == Taught' => DueRight'
  BY DueIsRight, PTL

\* A figure two libraries declare alike, over tables that stay.
LEMMA FigureAlike ==
  ASSUME Taught, Taught', UNCHANGED tables,
         NEW f, f \in DOMAIN lib.figures, f \in DOMAIN lib'.figures,
         pointer[f] = lib.figures[f].version, pointer[f] = lib'.figures[f].version
  PROVE  Same(f)
<1>1. lib \in Libraries /\ lib' \in Libraries
  BY DEF Taught
<1>2. /\ lib'.figures[f].bandReads = lib.figures[f].bandReads
      /\ lib'.figures[f].bandField = lib.figures[f].bandField
  <2>1. lib'.figures[f].version = lib.figures[f].version
    OBVIOUS
  <2> QED
    BY <1>1, <2>1, HashedFigure, ZenonT(60)
<1>3. AnyIndexHolds(lib, members, f) <=> AnyIndexHolds(lib', members, f)
  BY <1>1, HoldsAlike
<1>4. members' = members /\ pointer' = pointer /\ row' = row
  BY DEF tables
<1>5. Availability(f)' = Availability(f)
  BY <1>3, <1>4 DEF Availability
<1>6. Served(f)' = Served(f)
  BY <1>4, <1>5 DEF Served, Stored
<1> QED
  BY <1>2, <1>5, <1>6 DEF Same

LEMMA LevelAlike ==
  ASSUME Taught, Taught', UNCHANGED <<fact, tables>>,
         NEW f, f \in DOMAIN lib.figures, f \in DOMAIN lib'.figures,
         pointer[f] = lib.figures[f].version, pointer[f] = lib'.figures[f].version,
         \A g \in DOMAIN lib.figures : pointer[g] = lib.figures[g].version,
         \A g \in lib'.figures[f].bandReads : pointer[g] = lib'.figures[g].version
  PROVE  SameLevel(f)
<1>1. Same(f)
  BY FigureAlike
<1>2. lib \in Libraries /\ lib' \in Libraries
  BY DEF Taught
<1>3. lib.figures[f].bandReads \subseteq DOMAIN lib.figures /\ lib'.figures[f].bandReads \subseteq DOMAIN lib'.figures
  BY <1>2, LibraryAssumption
<1>4. \A g \in lib.figures[f].bandReads : Same(g)
  BY <1>1, <1>3, FigureAlike DEF Same
<1> QED
  BY <1>1, <1>4 DEF SameLevel

\* A deploy over a library whose last pass was delivered.
Deployed ==
  /\ Taught /\ Taught' /\ UNCHANGED <<fact, day, tables, stamp>>
  /\ \A f \in DOMAIN lib.figures : pointer[f] = lib.figures[f].version
  /\ \A i \in DOMAIN lib.indexes : built[i] = lib.indexes[i].version
  /\ \A n \in Declared(lib) : stamp[n] = Stamp(n)

LEMMA ReadingAlike ==
  ASSUME Deployed, NEW r, r \in DOMAIN lib.readings, r \in DOMAIN lib'.readings, ReadingRests(r)'
  PROVE  SameReading(r)
<1>1. lib \in Libraries /\ lib' \in Libraries /\ stamp' = stamp /\ pointer' = pointer
  BY DEF Deployed, Taught, tables
<1>2. stamp[r] = <<lib.readings[r].version, lib.readings[r].prose>>
  BY StampByKind DEF Deployed, Declared, Stamped
<1>3. lib'.readings[r].version = lib.readings[r].version /\ lib'.readings[r].prose = lib.readings[r].prose
  BY <1>1, <1>2 DEF ReadingRests
<1>4. lib'.readings[r].source = lib.readings[r].source /\ lib'.readings[r].bandReads = lib.readings[r].bandReads
  BY <1>1, <1>3, HashAssumption
<1>5. /\ lib.readings[r].source \in DOMAIN lib.figures \union {None} /\ lib.readings[r].bandReads \subseteq DOMAIN lib.figures
      /\ lib'.readings[r].source \in DOMAIN lib'.figures \union {None} /\ lib'.readings[r].bandReads \subseteq DOMAIN lib'.figures
  BY <1>1, LibraryAssumption
<1>6. \A g \in ({lib.readings[r].source} \ {None}) \union lib.readings[r].bandReads :
        /\ g \in DOMAIN lib.figures /\ g \in DOMAIN lib'.figures
        /\ pointer[g] = lib.figures[g].version /\ pointer[g] = lib'.figures[g].version
  BY <1>1, <1>4, <1>5 DEF ReadingRests, Deployed
<1>7. \A g \in ({lib.readings[r].source} \ {None}) \union lib.readings[r].bandReads : Same(g)
  BY <1>6, FigureAlike DEF Deployed
<1> QED
  BY <1>3, <1>4, <1>7 DEF SameReading, Deployed

LEMMA PageAlike ==
  ASSUME Deployed, NEW p, p \in DOMAIN lib.projections, p \in DOMAIN lib'.projections, PageRests(p)'
  PROVE  /\ SamePage(p)
         /\ Leading(lib, p) = Leading(lib', p) => SameLead(p)
<1>1. /\ lib \in Libraries /\ lib' \in Libraries /\ stamp' = stamp /\ pointer' = pointer
      /\ built' = built /\ members' = members /\ fact' = fact /\ day' = day
  BY DEF Deployed, Taught, tables
<1>2. stamp[p] = <<lib.projections[p].version, lib.projections[p].prose>>
  BY StampByKind DEF Deployed, Declared, Paged
<1>3. lib'.projections[p].version = lib.projections[p].version /\ lib'.projections[p].prose = lib.projections[p].prose
  BY <1>1, <1>2 DEF PageRests
<1>4. /\ lib'.projections[p].kind = lib.projections[p].kind /\ lib'.projections[p].frm = lib.projections[p].frm
      /\ lib'.projections[p].reads = lib.projections[p].reads /\ lib'.projections[p].words = lib.projections[p].words
  BY <1>1, <1>3, HashAssumption
<1>5. /\ lib.projections[p].reads \union lib.projections[p].words \subseteq DOMAIN lib.figures
      /\ lib'.projections[p].reads \union lib'.projections[p].words \subseteq DOMAIN lib'.figures
      /\ lib.projections[p].frm \in DOMAIN lib.indexes \union {None}
  BY <1>1, LibraryAssumption
<1>6. \A f \in lib.projections[p].reads : Same(f)
  BY <1>1, <1>4, <1>5, FigureAlike DEF Deployed, PageRests
<1>7. ASSUME NEW f \in lib.projections[p].words PROVE SameLevel(f)
  <2>1. f \in DOMAIN lib.figures /\ f \in DOMAIN lib'.figures
    BY <1>4, <1>5
  <2>2. /\ pointer[f] = lib'.figures[f].version
        /\ \A g \in lib'.figures[f].bandReads : pointer[g] = lib'.figures[g].version
    BY <1>1, <1>4 DEF PageRests
  <2> QED
    BY <2>1, <2>2, LevelAlike DEF Deployed
<1>8. lib.projections[p].frm # None => built[lib.projections[p].frm] = lib.indexes[lib.projections[p].frm].version
  BY <1>5 DEF Deployed
<1>9. lib.projections[p].frm # None => built[lib.projections[p].frm] = lib'.indexes[lib.projections[p].frm].version
  BY <1>1, <1>4 DEF PageRests
<1>10. Population(p)' = Population(p)
  BY <1>1, <1>4, <1>8, <1>9 DEF Population
<1>11. Rowed(p)' = Rowed(p)
  BY <1>1, <1>4, <1>10 DEF Rowed
<1>12. SamePage(p)
  BY <1>1, <1>3, <1>4, <1>6, <1>7, <1>10, <1>11 DEF SamePage
<1>13. ASSUME Leading(lib, p) = Leading(lib', p), NEW s \in Leading(lib, p)
       PROVE  lib'.summaries[s].version = lib.summaries[s].version
  <2>1. s \in DOMAIN lib.summaries /\ s \in DOMAIN lib'.summaries /\ lib'.summaries[s].over = p
    BY <1>13 DEF Leading
  <2>2. stamp[s] = <<lib.summaries[s].version, lib.summaries[s].prose>>
    BY <2>1, StampByKind DEF Deployed, Declared, Paged
  <2>3. stamp[s] = <<lib'.summaries[s].version, lib'.summaries[s].prose>>
    BY <1>1, <2>1 DEF PageRests, HeadRests
  <2> QED
    BY <2>2, <2>3
<1>14. Leading(lib, p) = Leading(lib', p) => SameLead(p)
  BY <1>13 DEF SameLead, Leading
<1> QED
  BY <1>12, <1>14

LEMMA MemberAlike ==
  ASSUME Deployed, NEW n, n \in Declared(lib) \ DOMAIN lib.bundles, n \in Declared(lib'), MemberRests(n)',
         n \in DOMAIN lib'.projections => Leading(lib, n) = Leading(lib', n)
  PROVE  /\ SameMember(n)
         /\ n \in DOMAIN lib.summaries =>
              /\ n \in DOMAIN lib'.summaries
              /\ \A p \in {lib.summaries[n].over} : Leading(lib, p) = Leading(lib', p) => SameLead(p)
<1>1. lib \in Libraries /\ lib' \in Libraries /\ stamp' = stamp /\ pointer' = pointer
  BY DEF Deployed, Taught, tables
<1>2. CASE n \in DOMAIN lib.figures
  <2>1. n \in DOMAIN lib'.figures
    BY <1>1, <1>2, KindAssumption
  <2>2. FigureRests(n)'
    BY <2>1 DEF MemberRests
  <2>3. /\ pointer[n] = lib'.figures[n].version /\ stamp[n] = <<lib'.figures[n].version, lib'.figures[n].prose>>
        /\ \A g \in lib'.figures[n].bandReads : pointer[g] = lib'.figures[g].version
    BY <1>1, <2>2 DEF FigureRests
  <2>4. SameLevel(n)
    BY <1>2, <2>1, <2>3, LevelAlike DEF Deployed
  <2>5. stamp[n] = <<lib.figures[n].version, lib.figures[n].prose>>
    BY <1>2, StampByKind DEF Deployed, Declared, Stamped
  <2>6. lib'.figures[n].prose = lib.figures[n].prose
    BY <2>3, <2>5
  <2>7. n \notin DOMAIN lib.summaries
    BY <1>1, <1>2, KindsApart DEF Paged
  <2> QED
    BY <1>2, <2>1, <2>4, <2>6, <2>7 DEF SameMember
<1>3. CASE n \in DOMAIN lib.readings
  <2>1. n \in DOMAIN lib'.readings
    BY <1>1, <1>3, KindAssumption
  <2>2. ReadingRests(n)'
    BY <2>1 DEF MemberRests
  <2>3. n \notin DOMAIN lib.summaries
    BY <1>1, <1>3, KindsApart DEF Paged
  <2> QED
    BY <1>3, <2>1, <2>2, <2>3, ReadingAlike DEF SameMember
<1>4. CASE n \in DOMAIN lib.projections
  <2>1. n \in DOMAIN lib'.projections
    BY <1>1, <1>4, KindAssumption
  <2>2. PageRests(n)'
    BY <2>1 DEF MemberRests
  <2>3. n \notin DOMAIN lib.summaries
    BY <1>1, <1>4, KindsApart
  <2> QED
    BY <1>4, <2>1, <2>2, <2>3, PageAlike DEF SameMember
<1>5. CASE n \in DOMAIN lib.summaries
  <2>1. n \in DOMAIN lib'.summaries
    BY <1>1, <1>5, KindAssumption
  <2>2. HeadRests(n)' /\ \A p \in DOMAIN lib'.projections : lib'.summaries[n].over = p => PageRests(p)'
    BY <2>1 DEF MemberRests
  <2>3. stamp[n] = <<lib'.summaries[n].version, lib'.summaries[n].prose>>
    BY <1>1, <2>2 DEF HeadRests
  <2>4. stamp[n] = <<lib.summaries[n].version, lib.summaries[n].prose>>
    BY <1>5, StampByKind DEF Deployed, Declared, Paged
  <2>5. lib'.summaries[n].version = lib.summaries[n].version /\ lib'.summaries[n].prose = lib.summaries[n].prose
    BY <2>3, <2>4
  <2>6. lib'.summaries[n].over = lib.summaries[n].over
    BY <1>1, <1>5, <2>1, <2>5, HashAssumption
  <2>7. PICK p : p = lib.summaries[n].over
    OBVIOUS
  <2>8. p \in DOMAIN lib.projections /\ p \in DOMAIN lib'.projections
    BY <1>1, <1>5, <2>1, <2>6, <2>7, LibraryAssumption
  <2>9. PageRests(p)'
    BY <2>2, <2>6, <2>7, <2>8
  <2>10. SamePage(p) /\ (Leading(lib, p) = Leading(lib', p) => SameLead(p))
    BY <2>8, <2>9, PageAlike
  <2>11. SameHead(n)
    BY <2>5, <2>6, <2>7, <2>10 DEF SameHead
  <2> QED
    BY <1>5, <2>1, <2>7, <2>10, <2>11 DEF SameMember
<1> QED
  BY <1>2, <1>3, <1>4, <1>5 DEF Declared, Stamped, Paged

\* A deploy leaves every other name answered as it was.
LEMMA NameAlike ==
  ASSUME Deployed, NEW n, n \in Declared(lib), n \in Declared(lib'), Rests(n)', n \notin Reheaded(lib')
  PROVE  Answer(n)' = Answer(n)
<1>1. lib \in Libraries /\ lib' \in Libraries /\ stamp' = stamp /\ Taught /\ Taught'
  BY DEF Deployed, Taught
<1> DEFINE pages == {p \in DOMAIN lib'.projections : Leading(lib, p) # Leading(lib', p)}
<1>2. Reheaded(lib') = pages \union {s \in DOMAIN lib'.summaries : lib'.summaries[s].over \in pages}
                       \union {b \in DOMAIN lib'.bundles : lib'.bundles[b].members \intersect pages # {}}
  BY DEF Reheaded
<1>3. MemberRests(n)'
  BY DEF Rests
<1>4. CASE n \notin DOMAIN lib.bundles
  <2>1. n \in DOMAIN lib'.projections => Leading(lib, n) = Leading(lib', n)
    BY <1>2
  <2>2. SameMember(n)
    BY <1>3, <1>4, <2>1, MemberAlike
  <2>3. CASE n \in DOMAIN lib.summaries
    <3>1. n \in DOMAIN lib'.summaries /\ \A p \in {lib.summaries[n].over} : Leading(lib, p) = Leading(lib', p) => SameLead(p)
      BY <1>3, <1>4, <2>1, <2>3, MemberAlike
    <3>2. SameHead(n)
      BY <1>1, <2>2, <2>3, KindsApart DEF SameMember, Paged
    <3>3. lib'.summaries[n].over = lib.summaries[n].over
      BY <3>2 DEF SameHead
    <3>4. lib'.summaries[n].over \in DOMAIN lib'.projections
      BY <1>1, <3>1, LibraryAssumption
    <3>5. Leading(lib, lib.summaries[n].over) = Leading(lib', lib.summaries[n].over)
      BY <1>2, <3>1, <3>3, <3>4
    <3>6. \A p \in {lib.summaries[n].over} : SameLead(p)
      BY <3>1, <3>5
    <3> QED
      BY <1>1, <2>3, <3>1, <3>2, <3>6, HeadAnswerSame
  <2> QED
    BY <1>1, <2>2, <2>3, MemberSame
<1>5. CASE n \in DOMAIN lib.bundles
  <2>1. n \in DOMAIN lib'.bundles
    BY <1>1, <1>5, KindAssumption
  <2>2. TileRests(n)'
    BY <2>1 DEF Rests
  <2>3. stamp[n] = <<lib'.bundles[n].version, lib'.bundles[n].prose>>
    BY <1>1, <2>2 DEF TileRests
  <2>4. stamp[n] = <<lib.bundles[n].version, lib.bundles[n].prose>>
    BY <1>1, <1>5, StampByKind DEF Deployed, Declared, Stamped
  <2>5. lib'.bundles[n].version = lib.bundles[n].version /\ lib'.bundles[n].prose = lib.bundles[n].prose
    BY <2>3, <2>4
  <2>6. lib'.bundles[n].members = lib.bundles[n].members
    BY <1>1, <1>5, <2>1, <2>5, HashAssumption
  <2>7. \A m \in lib.bundles[n].members : m \in Declared(lib) \ DOMAIN lib.bundles /\ m \in Declared(lib')
    BY <1>1, <1>5, <2>1, <2>6, LibraryAssumption
  <2>8. lib.bundles[n].members \intersect DOMAIN lib.readings = lib.bundles[n].members \intersect DOMAIN lib'.readings
    BY <1>1, <2>7, KindAssumption
  <2>9. ASSUME NEW r \in lib.bundles[n].members \intersect DOMAIN lib.readings,
               stamp[r] = <<lib'.readings[r].version, lib'.readings[r].prose>>
        PROVE  lib'.readings[r].source = lib.readings[r].source
    <3>1. r \in DOMAIN lib'.readings
      BY <2>8
    <3>2. stamp[r] = <<lib.readings[r].version, lib.readings[r].prose>>
      BY <1>1, <2>9, StampByKind DEF Deployed, Declared, Stamped
    <3>3. lib'.readings[r].version = lib.readings[r].version
      BY <2>9, <3>2
    <3> QED
      BY <1>1, <2>9, <3>1, <3>3, HashAssumption
  <2>10. CASE Servable(n)'
    <3>1. \A m \in lib.bundles[n].members : MemberRests(m)'
      BY <2>2, <2>6, <2>10 DEF TileRests
    <3>2. \A r \in lib.bundles[n].members \intersect DOMAIN lib.readings :
            stamp[r] = <<lib'.readings[r].version, lib'.readings[r].prose>>
      BY <1>1, <2>8, <3>1 DEF MemberRests, ReadingRests
    <3>3. Servable(n)
      BY <2>6, <2>8, <2>9, <2>10, <3>2 DEF Servable
    <3>4. lib'.bundles[n].members \intersect pages = {}
      BY <1>2, <2>1
    <3>5. ASSUME NEW m \in lib.bundles[n].members PROVE SameMember(m)
      <4>1. m \in DOMAIN lib'.projections => Leading(lib, m) = Leading(lib', m)
        BY <2>6, <3>4
      <4> QED
        BY <2>7, <3>1, <4>1, MemberAlike
    <3>6. SameTile(n)
      BY <1>5, <2>1, <2>5, <2>6, <2>10, <3>3, <3>5 DEF SameTile
    <3> QED
      BY <1>1, <3>6, TileSame
  <2>11. CASE ~Servable(n)'
    <3>1. \A r \in lib.bundles[n].members \intersect DOMAIN lib.readings :
            stamp[r] = <<lib'.readings[r].version, lib'.readings[r].prose>>
      BY <1>1, <2>2, <2>6, <2>8, <2>11 DEF TileRests
    <3>2. ~Servable(n)
      BY <2>6, <2>8, <2>9, <2>11, <3>1 DEF Servable
    <3>3. SameTile(n)
      BY <1>5, <2>1, <2>11, <3>2 DEF SameTile
    <3> QED
      BY <1>1, <3>3, TileSame
  <2> QED
    BY <2>10, <2>11
<1> QED
  BY <1>4, <1>5

(***************************************************************************)
(* Where nothing an answer reads has changed, nor the day it is worded by. *)
(***************************************************************************)

Clocked == {r \in DOMAIN lib.readings : lib.readings[r].source # None} \union Paged(lib)

LEMMA Still ==
  ASSUME Taught, Taught', UNCHANGED <<fact, lib, tables>>, NEW n \in Declared(lib),
         day' = day \/ n \notin Clocked \union TilesOver(Clocked)
  PROVE  Answer(n)' = Answer(n)
<1>1. lib \in Libraries /\ members' = members /\ built' = built /\ row' = row /\ pointer' = pointer
  BY DEF Taught, tables
<1>2. ASSUME NEW f \in DOMAIN lib.figures PROVE Same(f)
  <2>1. Availability(f)' = Availability(f)
    BY <1>1 DEF Availability
  <2>2. Served(f)' = Served(f)
    BY <1>1, <2>1 DEF Served, Stored
  <2> QED
    BY <2>1, <2>2 DEF Same
<1>3. ASSUME NEW f \in DOMAIN lib.figures PROVE SameLevel(f)
  BY <1>1, <1>2, LibraryAssumption DEF SameLevel
<1>4. ASSUME NEW p \in DOMAIN lib.projections, day' = day PROVE SamePage(p)
  <2>1. lib.projections[p].reads \union lib.projections[p].words \subseteq DOMAIN lib.figures
    BY <1>1, LibraryAssumption
  <2>2. Population(p)' = Population(p)
    BY <1>1 DEF Population
  <2>3. Rowed(p)' = Rowed(p)
    BY <1>1, <2>2 DEF Rowed
  <2> QED
    BY <1>2, <1>3, <1>4, <2>1, <2>2, <2>3 DEF SamePage
<1>5. \A p : SameLead(p)
  BY DEF SameLead, Leading
<1>6. ASSUME NEW m \in Declared(lib) \ DOMAIN lib.bundles, day' = day \/ m \notin Clocked
      PROVE  SameMember(m)
  <2>1. CASE m \in DOMAIN lib.figures
    BY <1>3, <2>1 DEF SameMember
  <2>2. CASE m \in DOMAIN lib.readings
    <3>1. lib.readings[m].source # None => day' = day
      BY <1>6, <2>2 DEF Clocked
    <3>2. SameReading(m)
      BY <1>1, <1>2, <2>2, <3>1, LibraryAssumption DEF SameReading
    <3> QED
      BY <2>2, <3>2 DEF SameMember
  <2>3. CASE m \in DOMAIN lib.projections
    <3>1. day' = day
      BY <1>6, <2>3 DEF Clocked, Paged
    <3> QED
      BY <1>4, <1>5, <2>3, <3>1 DEF SameMember
  <2>4. CASE m \in DOMAIN lib.summaries
    <3>1. day' = day
      BY <1>6, <2>4 DEF Clocked, Paged
    <3>2. lib.summaries[m].over \in DOMAIN lib.projections
      BY <1>1, <2>4, LibraryAssumption
    <3>3. SameHead(m)
      BY <1>4, <3>1, <3>2 DEF SameHead
    <3> QED
      BY <2>4, <3>3 DEF SameMember
  <2> QED
    BY <2>1, <2>2, <2>3, <2>4 DEF Declared, Stamped, Paged
<1>7. CASE n \notin DOMAIN lib.bundles
  <2>1. SameMember(n)
    BY <1>6, <1>7
  <2>2. CASE n \in DOMAIN lib.summaries
    <3>1. SameHead(n)
      BY <1>1, <2>1, <2>2, KindsApart DEF SameMember, Paged
    <3> QED
      BY <1>5, <2>2, <3>1, HeadAnswerSame
  <2> QED
    BY <2>1, <2>2, MemberSame
<1>8. CASE n \in DOMAIN lib.bundles
  <2>1. \A m \in lib.bundles[n].members : m \in Declared(lib) \ DOMAIN lib.bundles
    BY <1>1, <1>8, LibraryAssumption
  <2>2. \A m \in lib.bundles[n].members : day' = day \/ m \notin Clocked
    BY <1>8 DEF TilesOver
  <2>3. Servable(n)' <=> Servable(n)
    BY DEF Servable
  <2>4. SameTile(n)
    BY <1>6, <1>8, <2>1, <2>2, <2>3 DEF SameTile
  <2> QED
    BY <2>4, TileSame
<1> QED
  BY <1>7, <1>8

\* What is left to be named stays so while the tables and the stamps do.
LEMMA DueStays ==
  ASSUME UNCHANGED <<lib, tables, stamp>>
  PROVE  Due' = Due
<1>1. pointer' = pointer /\ built' = built
  BY DEF tables
<1>2. PICK S : S = Pending
  OBVIOUS
<1>3. PICK I : I = Stale
  OBVIOUS
<1>4. Pending' = S /\ Stale' = I
  BY <1>1, <1>2, <1>3 DEF Pending, Stale
<1>5. \A n : Stamp(n)' = Stamp(n)
  BY DEF Stamp
<1>6. Refreshed' = Refreshed
  BY <1>5 DEF Refreshed, Stamped
<1>7. PICK P : P = Reached(S, I)
  OBVIOUS
<1>8. Reached(S, I)' = P
  BY <1>5, <1>7 DEF Reached
<1>9. \A f : FigureMoves(f, S)' <=> FigureMoves(f, S)
  BY <1>6 DEF FigureMoves
<1>10. \A r : ReadingMoves(r, S)' <=> ReadingMoves(r, S)
  BY <1>6 DEF ReadingMoves
<1>11. BundlesImpacted(S, P)' = BundlesImpacted(S, P)
  BY <1>6, <1>9, <1>10 DEF BundlesImpacted, Servable
<1>12. Moved(S, P)' = Moved(S, P)
  BY <1>6, <1>10, <1>11 DEF Moved
<1>13. Closed' = Closed
  BY <1>6 DEF Closed, Servable
<1>14. Moved(Pending, Reached(Pending, Stale))' = Moved(S, P)'
  BY <1>4, <1>8 DEF Moved, BundlesImpacted, FigureMoves, ReadingMoves
<1> QED
  BY <1>2, <1>3, <1>7, <1>12, <1>13, <1>14 DEF Due

(***************************************************************************)
(* The theorem.                                                            *)
(***************************************************************************)

\* A screen shows declared names; and whatever it shows is what asking would answer,
\* or is named by the report that waits, or is left by a deploy for the next pass to
\* name, or is noted.
Painted == \A n \in Names : screen[n] # None => n \in Declared(lib)
Faithful ==
  \A n \in Declared(lib) : screen[n] # None =>
    \/ n \in excused
    \/ screen[n] = Answer(n)
    \/ report # None /\ n \in report.moved
    \/ report = None /\ ~settled /\ n \in Due
Shown == Painted /\ settled \in BOOLEAN /\ Faithful

\* What a pass reports is a report.
LEMMA RunReported ==
  ASSUME Taught, settled \in BOOLEAN, NEW collected, NEW wrote \in SUBSET Kinds,
         NEW sync \in BOOLEAN, NEW full, Run(collected, wrote, sync, full)
  PROVE  report' # None
<1> DEFINE held == MembersAfter(collected, wrote, full)
           rows == RowsAfter(held, Filed(wrote, full), full)
           touched == {f \in DOMAIN lib.figures : rows[f] # Stored(f)}
           pages == IF sync THEN DOMAIN lib.projections ELSE Reached(touched, Reindexed(full))
<1> USE DEF Taught
<1>1. report' = [moved |-> Moved(touched, pages), results |-> ServedInBulk(touched, pages, wrote),
                 refreshed |-> Refreshed, wrote |-> wrote, sync |-> sync, calm |-> settled]
  BY DEF Run
<1>2. touched \in SUBSET DOMAIN lib.figures
  OBVIOUS
<1>3. pages \in SUBSET DOMAIN lib.projections
  BY PagesDeclared
<1> HIDE DEF touched, pages
<1>4. Declared(lib) \subseteq Names
  BY LibraryAssumption
<1>5. Moved(touched, pages) \in SUBSET Names /\ Refreshed \in SUBSET Names
  BY <1>2, <1>3, <1>4 DEF Moved, Refreshed, BundlesImpacted, Declared, Stamped, Paged
<1>6. ServedInBulk(touched, pages, wrote) \in SUBSET Names
  BY <1>3, <1>4 DEF ServedInBulk, BundlesImpacted, Declared, Stamped, Paged
<1>7. report' \in Reports
  BY <1>1, <1>5, <1>6 DEF Reports
<1> QED
  BY <1>7, BoundsAssumption

\* A pass, by either door.
LEMMA ShownRun ==
  ASSUME Taught, Taught', Shown, report = None, lib' = lib, day' = day, screen' = screen, settled' = settled,
         NEW collected, NEW wrote \in SUBSET Kinds, \A k \in Kinds \ wrote : fact'[k] = fact[k],
         NEW sync \in BOOLEAN, NEW full \in BOOLEAN, ~sync => wrote = {} /\ ~full,
         Run(collected, wrote, sync, full)
  PROVE  Shown'
<1>1. report' # None
  BY RunReported DEF Shown
<1>2. ASSUME NEW n \in Declared(lib), screen[n] # None, n \notin excused', n \notin report'.moved
      PROVE  screen[n] = Answer(n)'
  <2>1. n \notin excused /\ n \notin Due /\ Answer(n)' = Answer(n)
    BY <1>2, RunLeaves
  <2> QED
    BY <1>2, <2>1 DEF Shown, Faithful
<1>3. Faithful'
  BY <1>1, <1>2 DEF Faithful
<1> QED
  BY <1>3 DEF Shown, Painted

\* Every step keeps what is shown.
LEMMA ShownStep ==
  ASSUME Quiet, Quiet', Shown, [Next]_vars
  PROVE  Shown'
<1> USE DEF Quiet, Taught
<1>1. Declared(lib) \subseteq Names
  BY LibraryAssumption
<1>2. ASSUME NEW collected \in [Kinds -> 0..MaxHeld], PostFacts(collected) PROVE Shown'
  <2>1. /\ report = None /\ fact' = collected /\ Run(collected, Wrote(collected), TRUE, Deleted(collected))
        /\ UNCHANGED <<day, lib, screen, settled>>
    BY <1>2 DEF PostFacts, MayRun
  <2>2. Wrote(collected) \in SUBSET Kinds /\ \A k \in Kinds \ Wrote(collected) : fact'[k] = fact[k]
    BY <2>1 DEF Wrote
  <2>3. Deleted(collected) \in BOOLEAN
    BY DEF Deleted
  <2> QED
    BY <2>1, <2>2, <2>3, ShownRun
<1>3. ASSUME NEW full \in BOOLEAN, PostRun(full) PROVE Shown'
  <2>1. /\ report = None /\ fact' = fact /\ Run(fact, {}, full, full)
        /\ UNCHANGED <<day, lib, screen, settled>>
    BY <1>3 DEF PostRun, MayRun
  <2>2. {} \in SUBSET Kinds /\ (~full => {} = {} /\ ~full)
    OBVIOUS
  <2> QED
    BY <2>1, <2>2, ShownRun
<1>4. ASSUME UNCHANGED <<fact, day, lib, tables>>, NEW n \in Declared(lib) PROVE Answer(n)' = Answer(n)
  BY <1>4, Still
<1>5. CASE Deliver
  <2>1. /\ report # None /\ report' = None /\ settled' = TRUE /\ excused' = excused
        /\ UNCHANGED <<fact, day, lib, tables>>
        /\ screen' = [n \in Names |-> IF n \in report.moved /\ screen[n] # None THEN Answer(n) ELSE screen[n]]
    BY <1>5 DEF Deliver
  <2>2. Painted'
    BY <2>1 DEF Painted, Shown
  <2>3. ASSUME NEW n \in Declared(lib), screen'[n] # None, n \notin excused' PROVE screen'[n] = Answer(n)'
    <3>1. Answer(n)' = Answer(n)
      BY <1>4, <2>1
    <3>2. screen'[n] = IF n \in report.moved /\ screen[n] # None THEN Answer(n) ELSE screen[n]
      BY <1>1, <2>1
    <3> QED
      BY <2>1, <2>3, <3>1, <3>2 DEF Shown, Faithful
  <2>4. Faithful'
    BY <2>1, <2>3 DEF Faithful
  <2> QED
    BY <2>1, <2>2, <2>4 DEF Shown
<1>6. ASSUME NEW collected \in [Kinds -> 0..MaxHeld], EngineRaises(collected) PROVE Shown'
  <2>1. /\ settled' = FALSE /\ UNCHANGED <<lib, screen>>
        /\ excused' = excused \union {n \in Declared(lib) : screen[n] # None /\ screen[n] # Answer(n)'}
    BY <1>6 DEF EngineRaises
  <2>2. Faithful'
    BY <2>1 DEF Faithful
  <2> QED
    BY <2>1, <2>2 DEF Shown, Painted
<1>7. CASE DeliveryRaises
  <2>1. /\ report # None /\ settled' = FALSE /\ excused' = excused \union report.moved
        /\ UNCHANGED <<fact, day, lib, tables, screen>>
    BY <1>7 DEF DeliveryRaises
  <2>2. Faithful'
    BY <1>4, <2>1 DEF Faithful, Shown
  <2> QED
    BY <2>1, <2>2 DEF Shown, Painted
<1>8. CASE Connect
  <2>1. /\ settled' = settled /\ UNCHANGED <<fact, day, lib, tables>>
        /\ screen' = [n \in Names |-> IF n \in Declared(lib) THEN Answer(n) ELSE None]
    BY <1>8 DEF Connect
  <2>2. Painted'
    BY <2>1 DEF Painted
  <2>3. \A n \in Declared(lib) : screen'[n] = Answer(n)'
    BY <1>1, <1>4, <2>1
  <2>4. Faithful'
    BY <2>1, <2>3 DEF Faithful
  <2> QED
    BY <2>1, <2>2, <2>4 DEF Shown
<1>9. ASSUME NEW L \in Libraries, Teach(L) PROVE Shown'
  <2>1. /\ report = None /\ report' = None /\ lib' = L /\ settled' = FALSE
        /\ UNCHANGED <<fact, day, tables, stamp>>
        /\ screen' = [n \in Names |-> IF n \in Declared(L) THEN screen[n] ELSE None]
    BY <1>9 DEF Teach
  <2>2. excused' = excused \union Reheaded(L)
          \union IF settled THEN {} ELSE {n \in Declared(L) : screen'[n] # None /\ screen'[n] # Answer(n)'}
    BY <1>9 DEF Teach
  <2>3. Painted'
    BY <2>1 DEF Painted
  <2>4. CASE ~settled
    <3>1. Faithful'
      BY <2>1, <2>2, <2>4 DEF Faithful
    <3> QED
      BY <2>1, <2>3, <3>1 DEF Shown
  <2>5. CASE settled
    <3>1. InForce
      BY <2>5 DEF Settled
    <3>2. Deployed
      BY <2>1, <3>1 DEF Deployed, InForce, Pending, Stale
    <3>3. ASSUME NEW n \in Declared(L), screen'[n] # None, n \notin excused', n \notin Due'
          PROVE  screen'[n] = Answer(n)'
      <4>1. n \in Names
        BY LibraryAssumption
      <4>2. screen'[n] = screen[n] /\ screen[n] # None
        BY <2>1, <3>3, <4>1
      <4>3. n \in Declared(lib)
        BY <4>1, <4>2 DEF Shown, Painted
      <4>4. n \notin excused /\ n \notin Reheaded(L)
        BY <2>2, <3>3
      <4>5. screen[n] = Answer(n)
        BY <2>1, <2>5, <4>2, <4>3, <4>4 DEF Shown, Faithful
      <4>6. Rests(n)'
        BY <2>1, <3>3, DueIsRightAfter DEF DueRight
      <4>7. Answer(n)' = Answer(n)
        BY <2>1, <3>2, <4>3, <4>4, <4>6, NameAlike
      <4> QED
        BY <4>2, <4>5, <4>7
    <3>4. Faithful'
      BY <2>1, <3>3 DEF Faithful
    <3> QED
      BY <2>1, <2>3, <3>4 DEF Shown
  <2> QED
    BY <2>4, <2>5
<1>10. CASE NewDay
  <2>1. /\ UNCHANGED <<fact, lib, tables, stamp, screen, report, settled>>
        /\ excused' = excused \union Clocked \union TilesOver(Clocked)
    BY <1>10 DEF NewDay, Clocked
  <2>2. Due' = Due
    BY <2>1, DueStays
  <2>3. ASSUME NEW n \in Declared(lib), n \notin excused' PROVE Answer(n)' = Answer(n) /\ n \notin excused
    BY <2>1, <2>3, Still
  <2>4. Faithful'
    BY <2>1, <2>2, <2>3 DEF Faithful, Shown
  <2> QED
    BY <2>1, <2>4 DEF Shown, Painted
<1>11. CASE UNCHANGED vars
  <2>1. UNCHANGED <<fact, day, lib, tables, stamp, screen, report, settled, excused>>
    BY <1>11 DEF vars
  <2>2. Due' = Due
    BY <2>1, DueStays
  <2>3. Faithful'
    BY <1>4, <2>1, <2>2 DEF Faithful, Shown
  <2> QED
    BY <2>1, <2>3 DEF Shown, Painted
<1> QED
  BY <1>2, <1>3, <1>5, <1>6, <1>7, <1>8, <1>9, <1>10, <1>11 DEF Next

\* What a screen shows, in every reachable state.
THEOREM ShownInvariant == Spec => []Shown
<1>1. Init => Shown
  <2>1. lib \in Libraries => Declared(lib) \subseteq Names
    BY LibraryAssumption
  <2> QED
    BY <2>1 DEF Init, Shown, Painted, Faithful
<1>2. Quiet /\ Quiet' /\ Shown /\ [Next]_vars => Shown'
  BY ShownStep
<1> QED
  BY <1>1, <1>2, QuietInvariant, PTL DEF Spec

\* The screen-keeps-lying bug the serve stamps and the goals' edges close (facade.py:317,
\* 401, 426, 510): once a pass is delivered, whatever was taught, written or raised
\* before, a watched name shows what asking for it would answer, but for the names whose
\* answer moved in one of the ways no pass names.
THEOREM ScreensAreCurrent == Spec => []ScreensCurrent
<1>1. Shown => ScreensCurrent
  BY DEF Shown, Faithful, ScreensCurrent
<1> QED
  BY <1>1, ShownInvariant, PTL

=============================================================================
