------------------------- MODULE EnginePass_proofs -------------------------
(***************************************************************************)
(* Proofs about EnginePass, for every library, every world of records and  *)
(* every bound.                                                            *)
(***************************************************************************)
EXTENDS EnginePass, TLAPS

-----------------------------------------------------------------------------
(* What the stored tables answer has its type.                             *)

\* A bare key is a coordinate, and so is any pair the tables hold the parts of.
LEMMA BareCoord ==
  /\ \A k \in Keys : Bare(k) \in Coords
  /\ \A c \in Coords : SubjectOf(c) \in Coords
BY DEF Bare, SubjectOf, Coords

\* A grouping's rows file keys of the tenant under coordinates.
LEMMA WantedType ==
  ASSUME NEW i, NEW d
  PROVE  Wanted(i, d) \in SUBSET (Keys \X Coords)
<1>1. Roster(i.kind) \subseteq Keys
  BY DEF Roster
<1>2. \A k \in Roster(i.kind) : {k} \X BucketsOf(i, d, k) \subseteq Keys \X Coords
  BY <1>1 DEF BucketsOf
<1> QED
  BY <1>2 DEF Wanted, Filing

\* Every bucket of a grouping the library declares is a coordinate.
LEMMA BucketsType ==
  ASSUME TypeOK, NEW L \in Libraries, NEW i \in L.indexes
  PROVE  /\ BucketKeys(i) \subseteq Coords
         /\ \A k : BucketsHolding(i, k) \subseteq Coords
<1>1. i.name \in IndexNames
  BY LibraryAssumption
<1>2. \A r \in held[i.name] : r[2] \in Coords
  BY <1>1 DEF TypeOK
<1> QED
  BY <1>2 DEF BucketKeys, BucketsHolding

\* The grouping that fans a figure out is one of the library's.
LEMMA ScopeIndexDeclared ==
  ASSUME NEW L \in Libraries, NEW p \in L.figures, p.scopeIndex # None
  PROVE  p.scopeIndex \in L.indexes
BY LibraryAssumption DEF Indexes

\* A figure reads figures of its own library, whose rows are at coordinates.
LEMMA SourcesDeclared ==
  ASSUME NEW L \in Libraries, NEW p \in L.figures, NEW q \in p.sources
  PROVE  q \in L.figures /\ q \in Plans
<1>1. q \in L.figures
  BY LibraryAssumption
<1> QED
  BY <1>1 DEF Plans

LEMMA SubjectsType ==
  ASSUME TypeOK, NEW p \in Plans
  PROVE  Subjects(p) \subseteq Coords /\ \A c \in Subjects(p) : value[p][c] \in Rows
BY DEF TypeOK, IsTable, Subjects

\* The subjects a figure should have are coordinates.
LEMMA ScopesType ==
  ASSUME TypeOK, NEW L \in Libraries, NEW p \in L.figures
  PROVE  ScopesOf(p) \subseteq Coords
<1>1. \A k \in Roster(p.scope) : Bare(k) \in Coords
  BY BareCoord DEF Roster
<1>2. CASE p.scopeIndex # None
  <2>1. BucketKeys(p.scopeIndex) \subseteq Coords
    BY <1>2, ScopeIndexDeclared, BucketsType
  <2> QED
    BY <1>1, <1>2, <2>1 DEF ScopesOf
<1>3. CASE p.scopeIndex = None
  <2>1. \A q \in p.sources : Subjects(q) \subseteq Coords
    BY SourcesDeclared, SubjectsType
  <2>2. UNION {Subjects(q) : q \in p.sources} \subseteq Coords
    BY <2>1
  <2>3. \A c \in UNION {Subjects(q) : q \in p.sources} : SubjectOf(c) \in Coords
    BY <2>2, BareCoord
  <2> QED
    BY <1>1, <1>3, <2>2, <2>3 DEF ScopesOf
<1> QED
  BY <1>2, <1>3

\* A calculated row is a row.
LEMMA EvaluateType ==
  ASSUME TypeOK, NEW L \in Libraries, NEW p \in L.figures, NEW c
  PROVE  Evaluate(p, c) \in Rows
<1>1. Answer(p, c) \in Numbers
  BY LibraryAssumption DEF Answer
<1>2. \A k \in Members(p, c) : Bare(k) \in Coords
  BY BareCoord DEF Members
<1>3. \A q \in p.sources : \A a : PartsUnder(q, a) \subseteq Coords
  BY SourcesDeclared, SubjectsType DEF PartsUnder
<1>4. \A part \in Parts(p, c) : part[2] \in Coords
  BY <1>3 DEF Parts
<1> QED
  BY <1>1, <1>2, <1>4 DEF Evaluate, Rows

\* Each way the pass rewrites a figure's rows leaves a table.
LEMMA RewriteTypes ==
  ASSUME TypeOK, NEW p \in plib.figures
  PROVE  /\ \A some \in SUBSET Coords : IsTable(Recomputed(p, some))
         /\ \A some : IsTable(Without(p, some))
         /\ \A some \in SUBSET Coords : IsTable(With(p, some))
<1>1. p \in Plans /\ plib \in Libraries
  BY DEF TypeOK, Plans
<1>2. Subjects(p) \subseteq Coords /\ \A c \in Subjects(p) : value[p][c] \in Rows
  BY <1>1, SubjectsType
<1>3. \A c : Evaluate(p, c) \in Rows
  BY <1>1, EvaluateType
<1>4. ASSUME NEW some \in SUBSET Coords
      PROVE  IsTable(Recomputed(p, some))
  BY <1>2, <1>3 DEF Recomputed, IsTable
<1>5. ASSUME NEW some
      PROVE  IsTable(Without(p, some))
  BY <1>2 DEF Without, IsTable
<1>6. ASSUME NEW some \in SUBSET Coords
      PROVE  IsTable(With(p, some))
  BY <1>2, <1>3 DEF With, IsTable
<1> QED
  BY <1>4, <1>5, <1>6

\* The values a written batch touches are values of the library's figures.
LEMMA TouchType ==
  ASSUME NEW p, NEW some \in SUBSET Coords, NEW L, p \in L.figures
  PROVE  Touch(p, some) \subseteq L.figures \X Coords
BY DEF Touch

LEMMA FilterNeedsIndex ==
  ASSUME NEW L \in Libraries, NEW p \in L.figures, NEW i \in Indexes(p)
  PROVE  i \in L.indexes /\ p.scopeIndex \in L.indexes /\ p.scopeIndex.name \in IndexNames
<1>1. p.scopeIndex # None
  BY ShapeAssumption DEF Indexes
<1> QED
  BY <1>1, LibraryAssumption DEF Indexes

LEMMA MarkType ==
  ASSUME TypeOK, NEW i \in plib.indexes,
         NEW filed \in [IndexNames -> SUBSET (Keys \X Coords)]
  PROVE  Mark(i, filed) \subseteq plib.figures \X Coords
<1> DEFINE HeldUnder(p, k) == {r[2] : r \in {x \in filed[p.scopeIndex.name] : x[1] = k}}
           Marked(p, k) == IF p.scopeIndex = i
                           THEN BucketsHolding(i, k) \union BucketsOf(i, now, k)
                           ELSE HeldUnder(p, k)
<1>1. plib \in Libraries
  BY DEF TypeOK
<1>2. ASSUME NEW p \in plib.figures, i \in Indexes(p), NEW k
      PROVE  Marked(p, k) \subseteq Coords
  <2>1. p.scopeIndex.name \in IndexNames
    BY <1>1, <1>2, FilterNeedsIndex
  <2>2. HeldUnder(p, k) \subseteq Coords
    BY <2>1
  <2>3. BucketsHolding(i, k) \union BucketsOf(i, now, k) \subseteq Coords
    BY <1>1, BucketsType DEF BucketsOf
  <2> QED
    BY <2>2, <2>3
<1>3. \A p \in {q \in plib.figures : i \in Indexes(q)} : \A k :
        Touch(p, Marked(p, k)) \subseteq plib.figures \X Coords
  BY <1>2, TouchType
<1>4. Mark(i, filed) =
        UNION {Touch(p, Marked(p, k)) :
                 p \in {q \in plib.figures : i \in Indexes(q)}, k \in Refiled(i)}
  BY DEF Mark
<1> HIDE DEF Marked
<1> QED
  BY <1>3, <1>4

LEMMA FieldMarksType ==
  ASSUME TypeOK
  PROVE  FieldMarks \subseteq plib.figures \X Coords
<1>1. plib \in Libraries /\ written \subseteq Keys
  BY DEF TypeOK
<1>2. ASSUME NEW p \in plib.figures, p.scopeIndex # None, NEW k \in written
      PROVE  FieldSubjects(p, k) \subseteq Coords
  <2>1. p.scopeIndex \in plib.indexes
    BY <1>1, <1>2, ScopeIndexDeclared
  <2>2. BucketKeys(p.scopeIndex) \subseteq Coords /\ BucketsHolding(p.scopeIndex, k) \subseteq Coords
    BY <1>1, <2>1, BucketsType
  <2>3. Bare(k) \in Coords
    BY <1>1, <1>2, BareCoord
  <2> QED
    BY <2>2, <2>3 DEF FieldSubjects
<1>3. ASSUME NEW p \in {q \in plib.figures : q.scopeIndex # None},
             NEW k \in {x \in written : KindOf[x] \in p.fields}
      PROVE  Touch(p, FieldSubjects(p, k)) \subseteq plib.figures \X Coords
  BY <1>2, TouchType
<1> QED
  BY <1>3 DEF FieldMarks

LEMMA ReaderKeysType ==
  ASSUME TypeOK, NEW reader \in plib.figures, NEW writer, NEW c \in Coords
  PROVE  ReaderKeys(reader, writer, c) \subseteq Coords
<1>1. plib \in Libraries
  BY DEF TypeOK
<1>2. SubjectOf(c) \in Coords
  BY BareCoord
<1>3. reader.scopeIndex # None => BucketKeys(reader.scopeIndex) \subseteq Coords
  BY <1>1, ScopeIndexDeclared, BucketsType
<1> QED
  BY <1>2, <1>3 DEF ReaderKeys

-----------------------------------------------------------------------------
(* Type correctness.                                                       *)

LEMMA TypeInit == Init => TypeOK
<1> SUFFICES ASSUME Init
             PROVE  TypeOK
  OBVIOUS
<1>1. \A p \in Plans : IsTable(value[p])
  BY DEF Init, IsTable
<1>2. /\ held \in [IndexNames -> SUBSET (Keys \X Coords)]
      /\ built \in [IndexNames -> Stamps \union {None}]
      /\ pointer \in [FigureNames -> Plans \union {None}]
  BY DEF Init
<1>3. day \in 1..MaxDay /\ now \in 1..MaxDay /\ deaths \in 0..MaxDeaths /\ requests \in 0..MaxRequests
  BY LibraryAssumption DEF Init
<1> QED
  BY <1>1, <1>2, <1>3 DEF Init, TypeOK

\* The actions that begin and end a request.
LEMMA TypeRequest ==
  ASSUME TypeOK,
         \/ \E batch \in Batches, asked \in BOOLEAN : PostFacts(batch, asked)
         \/ \E asked \in BOOLEAN : PostRun(asked)
         \/ Return
         \/ Die
  PROVE  TypeOK'
<1> USE DEF tables, request, progress
<1>1. ASSUME NEW batch \in Batches, NEW asked \in BOOLEAN, PostFacts(batch, asked)
      PROVE  TypeOK'
  <2>1. fact' \in [Keys -> Bodies \union {None}]
    BY <1>1, LibraryAssumption DEF PostFacts, TypeOK
  <2>2. written' \subseteq Keys /\ owed' \subseteq Keys
    BY <1>1, LibraryAssumption DEF PostFacts, Start, TypeOK
  <2>3. full' \in BOOLEAN /\ sound' \in BOOLEAN /\ wrote' \in BOOLEAN /\ cold' \in BOOLEAN
    BY <1>1 DEF PostFacts, Start, Sound
  <2>4. requests' \in 0..MaxRequests
    BY <1>1, LibraryAssumption DEF PostFacts, Start, TypeOK
  <2> QED
    BY <1>1, <2>1, <2>2, <2>3, <2>4 DEF PostFacts, Start, TypeOK
<1>2. ASSUME NEW asked \in BOOLEAN, PostRun(asked)
      PROVE  TypeOK'
  <2>1. full' \in BOOLEAN /\ sound' \in BOOLEAN /\ wrote' \in BOOLEAN /\ cold' \in BOOLEAN
    BY <1>2 DEF PostRun, Start, Sound
  <2>2. requests' \in 0..MaxRequests
    BY <1>2, LibraryAssumption DEF PostRun, Start, TypeOK
  <2> QED
    BY <1>2, <2>1, <2>2 DEF PostRun, Start, TypeOK
<1>3. CASE Return
  BY <1>3 DEF Return, Over, TypeOK
<1>4. CASE Die
  <2>1. deaths' \in 0..MaxDeaths
    BY <1>4, LibraryAssumption DEF Die, Abandon, TypeOK
  <2> QED
    BY <1>4, <2>1 DEF Die, Abandon, Over, TypeOK
<1> QED
  BY <1>1, <1>2, <1>3, <1>4

\* The steps that move the pass on and write no table.
LEMMA TypeControl ==
  ASSUME TypeOK,
         \/ Begin \/ ReturnEarly \/ Applied \/ RecomputeEnds \/ ReindexEnds \/ RemoveDepartedEnds
         \/ BackfillEnds \/ PointersEnd
         \/ \E L \in Libraries : Teach(L)
         \/ NewDay
  PROVE  TypeOK'
<1> USE DEF tables, request, progress, history
<1>1. CASE Begin
  <2>1. rebuild' \subseteq plib.figures /\ todo' \subseteq plib.indexes
    BY <1>1 DEF Begin, Pending, Healed, Stale
  <2>2. cold' \in BOOLEAN
    BY <1>1 DEF Begin
  <2> QED
    BY <1>1, <2>1, <2>2 DEF Begin, TypeOK
<1>2. CASE Applied
  BY <1>2, FieldMarksType DEF Applied, TypeOK
<1>3. CASE RecomputeEnds
  BY <1>3 DEF RecomputeEnds, Stale, TypeOK
<1>4. CASE ReindexEnds
  BY <1>4 DEF ReindexEnds, TypeOK
<1>5. CASE RemoveDepartedEnds
  BY <1>5 DEF RemoveDepartedEnds, TypeOK
<1>6. CASE BackfillEnds
  BY <1>6 DEF BackfillEnds, TypeOK
<1>7. CASE PointersEnd
  BY <1>7 DEF PointersEnd, TypeOK
<1>8. CASE \E L \in Libraries : Teach(L)
  BY <1>8 DEF Teach, TypeOK
<1>9. CASE NewDay
  <2>1. day' \in 1..MaxDay
    BY <1>9, LibraryAssumption DEF NewDay, TypeOK
  <2> QED
    BY <1>9, <2>1 DEF NewDay, TypeOK
<1>10. CASE ReturnEarly
  BY <1>10 DEF ReturnEarly, TypeOK
<1> QED
  BY <1>1, <1>2, <1>3, <1>4, <1>5, <1>6, <1>7, <1>8, <1>9, <1>10

\* The steps that file records and stamp groupings.
LEMMA TypeFiling ==
  ASSUME TypeOK,
         \/ \E n \in IndexNames : DropIndex(n)
         \/ \E i \in plib.indexes :
              ApplyIndex(i) \/ Reindex(i) \/ ApplyDies(i) \/ ReindexDies(i)
  PROVE  TypeOK'
<1> USE DEF tables, request, progress, history
<1>1. ASSUME NEW n \in IndexNames, DropIndex(n)
      PROVE  TypeOK'
  BY <1>1 DEF DropIndex, TypeOK
<1>2. \A i \in plib.indexes :
        /\ i.name \in IndexNames
        /\ Stamp(i, now) \in Stamps
        /\ Wanted(i, now) \in SUBSET (Keys \X Coords)
        /\ SetBuckets(i) \in [IndexNames -> SUBSET (Keys \X Coords)]
  <2> TAKE i \in plib.indexes
  <2>1. i.name \in IndexNames
    BY LibraryAssumption DEF TypeOK
  <2>2. Stamp(i, now) \in Stamps
    BY LibraryAssumption DEF TypeOK, Stamp, Stamps, Groupings
  <2>3. Filing(i, now, Refiled(i)) \in SUBSET (Keys \X Coords)
    <3>1. Refiled(i) \subseteq Keys
      BY DEF Refiled, TypeOK
    <3>2. \A k \in Refiled(i) : {k} \X BucketsOf(i, now, k) \subseteq Keys \X Coords
      BY <3>1 DEF BucketsOf
    <3> QED
      BY <3>2 DEF Filing
  <2>4. SetBuckets(i) \in [IndexNames -> SUBSET (Keys \X Coords)]
    BY <2>1, <2>3 DEF SetBuckets, TypeOK
  <2> QED
    BY <2>1, <2>2, <2>4, WantedType
<1>3. ASSUME NEW i \in plib.indexes, ApplyIndex(i)
      PROVE  TypeOK'
  <2>1. held' \in [IndexNames -> SUBSET (Keys \X Coords)]
    BY <1>2, <1>3 DEF ApplyIndex
  <2>2. Mark(i, held') \subseteq plib.figures \X Coords
    BY <2>1, MarkType
  <2> QED
    BY <1>3, <2>1, <2>2 DEF ApplyIndex, TypeOK
<1>4. ASSUME NEW i \in plib.indexes, Reindex(i)
      PROVE  TypeOK'
  BY <1>2, <1>4 DEF Reindex, TypeOK
<1>5. \A i \in plib.indexes :
        [held EXCEPT ![i.name] = {r \in @ : r \in SetBuckets(i)[i.name]}]
          \in [IndexNames -> SUBSET (Keys \X Coords)]
  BY <1>2 DEF TypeOK
<1>6. Abandon => deaths' \in 0..MaxDeaths
  BY LibraryAssumption DEF Abandon, TypeOK
<1>7. ASSUME NEW i \in plib.indexes, ApplyDies(i)
      PROVE  TypeOK'
  BY <1>5, <1>6, <1>7 DEF ApplyDies, Abandon, Over, TypeOK
<1>8. ASSUME NEW i \in plib.indexes, ReindexDies(i)
      PROVE  TypeOK'
  BY <1>2, <1>6, <1>8 DEF ReindexDies, Abandon, Over, TypeOK
<1> QED
  BY <1>1, <1>3, <1>4, <1>7, <1>8

\* The steps that write a figure's rows, or its pointer.
LEMMA TypeFigures ==
  ASSUME TypeOK,
         \E p \in plib.figures :
           \/ Recompute(p) \/ RemoveDeparted(p) \/ Backfill(p) \/ SetPointer(p)
           \/ RecomputeDies(p) \/ RemoveDepartedDies(p) \/ BackfillDies(p)
  PROVE  TypeOK'
<1> USE DEF tables, request, progress, history
<1> PICK p \in plib.figures :
      \/ Recompute(p) \/ RemoveDeparted(p) \/ Backfill(p) \/ SetPointer(p)
      \/ RecomputeDies(p) \/ RemoveDepartedDies(p) \/ BackfillDies(p)
  OBVIOUS
<1>1. p \in Plans /\ plib \in Libraries
  BY DEF TypeOK, Plans
<1>2. BackfillRows(p) \subseteq Coords /\ TouchedSubjects(p) \subseteq Coords
  <2>1. ScopesOf(p) \subseteq Coords
    BY <1>1, ScopesType
  <2> QED
    BY <2>1 DEF BackfillRows, TouchedSubjects, TypeOK
<1>3. ASSUME NEW rows, IsTable(rows), value' = [value EXCEPT ![p] = rows]
      PROVE  DOMAIN value' = Plans /\ \A q \in Plans : IsTable(value'[q])
  BY <1>1, <1>3 DEF TypeOK
<1>4. left \ {p} \subseteq plib.figures
  BY DEF TypeOK
<1>5. Abandon => deaths' \in 0..MaxDeaths
  BY LibraryAssumption DEF Abandon, TypeOK
<1>6. CASE Recompute(p)
  <2> DEFINE rows == Recomputed(p, TouchedSubjects(p))
             reached == UNION {Touch(q, ReaderKeys(q, p, c)) :
                                 q \in {x \in plib.figures : p \in x.sources},
                                 c \in Moved(value[p], rows)}
  <2>1. IsTable(rows)
    BY <1>2, RewriteTypes
  <2>2. DOMAIN value' = Plans /\ \A q \in Plans : IsTable(value'[q])
    BY <1>3, <1>6, <2>1 DEF Recompute
  <2>3. Moved(value[p], rows) \subseteq Coords
    BY <1>1, <2>1, SubjectsType DEF Moved, IsTable, Subjects
  <2>4. \A q \in plib.figures, c \in Moved(value[p], rows) :
          Touch(q, ReaderKeys(q, p, c)) \subseteq plib.figures \X Coords
    BY <2>3, ReaderKeysType, TouchType
  <2>5. reached \subseteq plib.figures \X Coords
    BY <2>4
  <2>6. touched' \subseteq plib.figures \X Coords
    BY <1>6, <2>5 DEF Recompute, TypeOK
  <2> QED
    BY <1>4, <1>6, <2>2, <2>6 DEF Recompute, IsTable, TypeOK
<1>7. CASE RemoveDeparted(p)
  <2>1. DOMAIN value' = Plans /\ \A q \in Plans : IsTable(value'[q])
    BY <1>3, <1>7, RewriteTypes DEF RemoveDeparted
  <2> QED
    BY <1>4, <1>7, <2>1 DEF RemoveDeparted, IsTable, TypeOK
<1>8. CASE Backfill(p)
  <2>1. DOMAIN value' = Plans /\ \A q \in Plans : IsTable(value'[q])
    BY <1>2, <1>3, <1>8, RewriteTypes DEF Backfill
  <2> QED
    BY <1>4, <1>8, <2>1 DEF Backfill, IsTable, TypeOK
<1>9. CASE SetPointer(p)
  <2>1. pointer' \in [FigureNames -> Plans \union {None}]
    BY <1>1, <1>9 DEF SetPointer, TypeOK
  <2> QED
    BY <1>4, <1>9, <2>1 DEF SetPointer, IsTable, TypeOK
<1>10. CASE RecomputeDies(p)
  <2>1. DOMAIN value' = Plans /\ \A q \in Plans : IsTable(value'[q])
    BY <1>2, <1>3, <1>10, RewriteTypes DEF RecomputeDies
  <2> QED
    BY <1>5, <1>10, <2>1 DEF RecomputeDies, Abandon, Over, IsTable, TypeOK
<1>11. CASE RemoveDepartedDies(p)
  <2>1. DOMAIN value' = Plans /\ \A q \in Plans : IsTable(value'[q])
    BY <1>3, <1>11, RewriteTypes DEF RemoveDepartedDies
  <2> QED
    BY <1>5, <1>11, <2>1 DEF RemoveDepartedDies, Abandon, Over, IsTable, TypeOK
<1>12. CASE BackfillDies(p)
  <2>1. DOMAIN value' = Plans /\ \A q \in Plans : IsTable(value'[q])
    BY <1>2, <1>3, <1>12, RewriteTypes DEF BackfillDies
  <2> QED
    BY <1>5, <1>12, <2>1 DEF BackfillDies, Abandon, Over, IsTable, TypeOK
<1> QED
  BY <1>6, <1>7, <1>8, <1>9, <1>10, <1>11, <1>12

LEMMA TypeStep == TypeOK /\ [Next]_vars => TypeOK'
<1> SUFFICES ASSUME TypeOK, [Next]_vars
             PROVE  TypeOK'
  OBVIOUS
<1>1. CASE UNCHANGED vars
  BY <1>1 DEF vars, tables, request, progress, history, TypeOK, IsTable
<1>2. CASE Next
  BY <1>2, TypeRequest, TypeControl, TypeFiling, TypeFigures DEF Next, PassStep, Death
<1> QED
  BY <1>1, <1>2

\* Every variable keeps its type: in particular a pass only ever files, values
\* and stamps what its own library declares, whatever was deployed meanwhile.
THEOREM TypeCorrect == Spec => []TypeOK
BY TypeInit, TypeStep, PTL DEF Spec

-----------------------------------------------------------------------------
(* The invariant behind a pass's promises.                                 *)

ColdLoops == {"depart", "backfill", "pointers"}
WarmLoops == {"apply", "recompute", "heal", "sweep", "gaps"}

\* Which loops are whose, and that a full pass rebuilds every figure.
Branches ==
  /\ pc \in ColdLoops => cold
  /\ pc \in WarmLoops => ~cold
  /\ full /\ pc \notin {"idle", "begin", "done"} => cold /\ rebuild = plib.figures

\* A cold pass rebuilds every figure whose pointer is behind.
Behind == pc \in {"reindex"} \union ColdLoops /\ cold => Pending \subseteq rebuild

\* A full pass has filed the groupings it has left behind.
Regrouped ==
  /\ full /\ pc = "reindex" => \A i \in plib.indexes \ todo : held[i.name] = Wanted(i, now)
  /\ full /\ pc \in ColdLoops => \A i \in plib.indexes : held[i.name] = Wanted(i, now)

\* The loops that rely on it visit no figure before what it reads.
Visiting == IF pc = "backfill" THEN rebuild ELSE plib.figures
Ordered ==
  /\ pc = "depart" => \A p \in plib.figures \ left, q \in left : p.place <= q.place
  /\ pc \in {"backfill", "gaps"} =>
       /\ left \subseteq Visiting
       /\ \A p \in Visiting \ left, q \in left : p.depth <= q.depth

\* The figures swept so far keep no departed row, and stay so.
Swept ==
  /\ pc = "depart" => \A p \in plib.figures \ left : Living(p)
  /\ pc \in {"backfill", "pointers"} => \A p \in plib.figures : Living(p)

\* The figures rebuilt so far agree with what they read, and stay so.
Recalculated ==
  /\ pc = "backfill" => \A p \in rebuild \ left : Fresh(p)
  /\ pc = "pointers" => \A p \in rebuild : Fresh(p)

\* The figures gone through so far lack no row, and stay so.
Gapless ==
  pc = "gaps" /\ wrote => \A p \in plib.figures \ left : ScopesOf(p) \subseteq Subjects(p)

Exact ==
  /\ TypeOK
  /\ Branches /\ Behind /\ Regrouped /\ Ordered /\ Swept /\ Recalculated /\ Gapless
  /\ FullPassExact /\ GapsFilled

-----------------------------------------------------------------------------
(* What a figure's rows depend on.                                         *)

\* Its subjects: the facts, the groupings and the rows of what it reads.
LEMMA ScopesFrame ==
  ASSUME NEW p, UNCHANGED <<fact, held>>, \A q \in p.sources : value'[q] = value[q]
  PROVE  ScopesOf(p)' = ScopesOf(p)
<1>1. UNION {Subjects(q)' : q \in p.sources} = UNION {Subjects(q) : q \in p.sources}
  BY DEF Subjects
<1>2. \A kind : Roster(kind)' = Roster(kind)
  BY DEF Roster
<1>3. BucketKeys(p.scopeIndex)' = BucketKeys(p.scopeIndex)
  BY DEF BucketKeys
<1> QED
  BY <1>1, <1>2, <1>3 DEF ScopesOf

\* When what it reads only gains rows, it only gains subjects.
LEMMA ScopesGrow ==
  ASSUME NEW p, UNCHANGED <<fact, held>>,
         \A q \in p.sources : DOMAIN value[q] \subseteq DOMAIN value'[q]
  PROVE  ScopesOf(p) \subseteq ScopesOf(p)'
<1>1. UNION {Subjects(q) : q \in p.sources} \subseteq UNION {Subjects(q)' : q \in p.sources}
  BY DEF Subjects
<1>2. \A kind : Roster(kind)' = Roster(kind)
  BY DEF Roster
<1>3. BucketKeys(p.scopeIndex)' = BucketKeys(p.scopeIndex)
  BY DEF BucketKeys
<1> QED
  BY <1>1, <1>2, <1>3 DEF ScopesOf

\* Its row at a subject: the same, and those rows' numbers.
LEMMA EvaluateFrame ==
  ASSUME NEW p, NEW c, UNCHANGED <<fact, held>>, \A q \in p.sources : value'[q] = value[q]
  PROVE  Evaluate(p, c)' = Evaluate(p, c)
<1>1. \A a : Members(p, a)' = Members(p, a)
  BY DEF Members
<1>2. PartAddresses(p, c)' = PartAddresses(p, c)
  BY <1>1 DEF PartAddresses
<1>3. \A q \in p.sources : \A a :
        {<<q.name, r, value[q][r].number>> : r \in PartsUnder(q, a)}'
          = {<<q.name, r, value[q][r].number>> : r \in PartsUnder(q, a)}
  BY DEF PartsUnder, Subjects
<1>4. Parts(p, c)' = Parts(p, c)
  BY <1>2, <1>3 DEF Parts
<1>5. BucketKeys(p.scopeIndex)' = BucketKeys(p.scopeIndex)
  BY DEF BucketKeys
<1>6. Reads(p, c)' = Reads(p, c)
  BY <1>1, <1>4, <1>5 DEF Reads
<1> QED
  BY <1>1, <1>4, <1>6 DEF Evaluate, Answer

\* So a figure stays swept, rebuilt and complete while none of that moves.
LEMMA FigureFrame ==
  ASSUME NEW p, UNCHANGED <<fact, held>>,
         value'[p] = value[p], \A q \in p.sources : value'[q] = value[q]
  PROVE  /\ Living(p)' <=> Living(p)
         /\ Fresh(p)' <=> Fresh(p)
         /\ (ScopesOf(p) \subseteq Subjects(p))' <=> ScopesOf(p) \subseteq Subjects(p)
<1>1. ScopesOf(p)' = ScopesOf(p)
  BY ScopesFrame
<1>2. \A c : Evaluate(p, c)' = Evaluate(p, c)
  BY EvaluateFrame
<1>3. Subjects(p)' = Subjects(p)
  BY DEF Subjects
<1>4. \A kind : Roster(kind)' = Roster(kind)
  BY DEF Roster
<1> QED
  BY <1>1, <1>2, <1>3, <1>4 DEF Living, Fresh

\* What a figure should have rows for is of its kind, when no row it reads has
\* outlived its subject.
LEMMA ScopesLive ==
  ASSUME NEW L \in Libraries, NEW p \in L.figures, \A q \in p.sources : Living(q),
         NEW c \in ScopesOf(p)
  PROVE  /\ c[1] \in Roster(p.scope)
         /\ (p.across # None /\ c[2] # None) => c[2] \in Roster(p.across)
<1>1. CASE p.scopeIndex # None
  BY <1>1 DEF ScopesOf, Bare
<1>2. CASE p.scopeIndex = None
  <2>1. \A q \in p.sources : \A r \in Subjects(q) : r[1] \in Roster(p.scope)
    BY <1>2, ShapeAssumption DEF Living
  <2>2. CASE p.grain
    BY <1>2, <2>2, ShapeAssumption DEF ScopesOf
  <2>3. CASE ~p.grain
    BY <1>2, <2>1, <2>3 DEF ScopesOf, Bare, SubjectOf
  <2> QED
    BY <2>2, <2>3
<1> QED
  BY <1>1, <1>2

-----------------------------------------------------------------------------
(* The invariant holds.                                                    *)

\* No loop is under way.
LEMMA ExactAtRest ==
  ASSUME TypeOK, pc \in {"idle", "begin"}
  PROVE  Exact
BY DEF Exact, Branches, Behind, Regrouped, Ordered, Swept, Recalculated, Gapless, ColdLoops,
       WarmLoops, FullPassExact, GapsFilled

\* A step that writes neither records, groupings nor rows leaves what was
\* swept, rebuilt and complete as it was.
LEMMA ControlFrame ==
  ASSUME UNCHANGED <<fact, held, value>>
  PROVE  \A p : /\ Living(p)' <=> Living(p)
                /\ Fresh(p)' <=> Fresh(p)
                /\ (ScopesOf(p) \subseteq Subjects(p))' <=> ScopesOf(p) \subseteq Subjects(p)
BY FigureFrame

\* Starting the pass, and the warm branch's own loops.
LEMMA ExactWarm ==
  ASSUME Exact, TypeOK',
         \/ Begin \/ ReturnEarly \/ Applied \/ RecomputeEnds
         \/ \E i \in plib.indexes : ApplyIndex(i)
         \/ \E p \in plib.figures : Recompute(p)
  PROVE  Exact'
<1> USE DEF Exact, ColdLoops, WarmLoops, request
<1>1. CASE Begin
  <2>1. Branches' /\ Behind'
    BY <1>1 DEF Begin, Branches, Behind, Pending, tables
  <2>2. Regrouped' /\ Ordered' /\ Swept' /\ Recalculated' /\ Gapless'
    BY <1>1 DEF Begin, Regrouped, Ordered, Swept, Recalculated, Gapless
  <2>3. FullPassExact' /\ GapsFilled'
    BY <1>1 DEF Begin, FullPassExact, GapsFilled
  <2> QED
    BY <2>1, <2>2, <2>3
<1>2. CASE /\ pc \in {"apply", "recompute"} /\ pc' \in {"apply", "recompute", "reindex"}
           /\ UNCHANGED <<full, cold, rebuild>>
  <2>1. ~cold /\ ~full
    BY <1>2 DEF Branches
  <2> QED
    BY <1>2, <2>1 DEF Branches, Behind, Regrouped, Ordered, Swept, Recalculated, Gapless,
                      FullPassExact, GapsFilled
<1>3. CASE ReturnEarly
  <2>1. pc' = "done" /\ plib' = plib /\ plib.figures = {} /\ plib.indexes = {}
    BY <1>3 DEF ReturnEarly, NothingDeclared
  <2> QED
    BY <2>1 DEF Branches, Behind, Regrouped, Ordered, Swept, Recalculated, Gapless,
                FullPassExact, GapsFilled, Agreed
<1> QED
  BY <1>1, <1>2, <1>3 DEF Applied, RecomputeEnds, ApplyIndex, Recompute

\* Rebuilding the groupings.
LEMMA ExactReindex ==
  ASSUME Exact, TypeOK', \E i \in plib.indexes : Reindex(i)
  PROVE  Exact'
<1> USE DEF Exact, ColdLoops, WarmLoops, request
<1> PICK i \in plib.indexes : Reindex(i)
  OBVIOUS
<1>1. pc = "reindex" /\ pc' = "reindex" /\ UNCHANGED <<full, cold, rebuild, plib, now, fact, pointer>>
  BY DEF Reindex
<1>2. Branches' /\ Behind'
  BY <1>1 DEF Branches, Behind, Pending
<1>3. \A j \in plib.indexes \ todo' : full => held'[j.name] = Wanted(j, now)'
  <2> SUFFICES ASSUME NEW j \in plib.indexes \ todo', full
               PROVE  held'[j.name] = Wanted(j, now)'
    OBVIOUS
  <2>1. Wanted(j, now)' = Wanted(j, now)
    BY <1>1 DEF Wanted, Filing, BucketsOf, Roster
  <2>2. CASE j = i
    BY <2>1, <2>2, LibraryAssumption DEF Reindex, TypeOK
  <2>3. CASE j # i
    <3>1. j.name # i.name
      BY <2>3, LibraryAssumption DEF TypeOK
    <3>2. held'[j.name] = held[j.name]
      BY <3>1, LibraryAssumption DEF Reindex, TypeOK
    <3>3. j \in plib.indexes \ todo
      BY <2>3 DEF Reindex
    <3> QED
      BY <1>1, <2>1, <3>2, <3>3 DEF Regrouped
  <2> QED
    BY <2>2, <2>3
<1>4. Regrouped'
  BY <1>1, <1>3 DEF Regrouped
<1>5. Ordered' /\ Swept' /\ Recalculated' /\ Gapless' /\ FullPassExact' /\ GapsFilled'
  BY <1>1 DEF Ordered, Swept, Recalculated, Gapless, FullPassExact, GapsFilled
<1> QED
  BY <1>2, <1>4, <1>5

\* Moving from one loop to the next.
LEMMA ExactControl ==
  ASSUME Exact, TypeOK', ReindexEnds \/ RemoveDepartedEnds \/ BackfillEnds \/ PointersEnd
  PROVE  Exact'
<1> USE DEF Exact, ColdLoops, WarmLoops
<1>1. UNCHANGED <<fact, held, value, pointer, plib, now, full, wrote, cold, rebuild, todo>>
  BY DEF ReindexEnds, RemoveDepartedEnds, BackfillEnds, PointersEnd, tables, request, progress
<1>2. Branches' /\ Behind'
  BY <1>1 DEF ReindexEnds, RemoveDepartedEnds, BackfillEnds, PointersEnd, Branches, Behind, Pending
<1>3. \A i : Wanted(i, now)' = Wanted(i, now)
  BY <1>1 DEF Wanted, Filing, BucketsOf, Roster
<1>4. Regrouped'
  BY <1>1, <1>3 DEF ReindexEnds, RemoveDepartedEnds, BackfillEnds, PointersEnd, Regrouped
<1>5. Ordered'
  BY <1>1 DEF ReindexEnds, RemoveDepartedEnds, BackfillEnds, PointersEnd, Ordered, Visiting, TypeOK
<1>6. /\ \A p : Living(p)' <=> Living(p)
      /\ \A p : Fresh(p)' <=> Fresh(p)
      /\ \A p : (ScopesOf(p) \subseteq Subjects(p))' <=> ScopesOf(p) \subseteq Subjects(p)
  BY <1>1, ControlFrame
<1>7. Swept'
  BY <1>1, <1>6 DEF ReindexEnds, RemoveDepartedEnds, BackfillEnds, PointersEnd, Swept
<1>8. Recalculated'
  BY <1>1, <1>6 DEF ReindexEnds, RemoveDepartedEnds, BackfillEnds, PointersEnd, Recalculated
<1>9. Gapless'
  BY <1>1, <1>6 DEF ReindexEnds, RemoveDepartedEnds, BackfillEnds, PointersEnd, Gapless
<1>10. FullPassExact'
  <2> SUFFICES ASSUME pc' = "done", full
               PROVE  Agreed(plib, now)'
    BY <1>1 DEF FullPassExact
  <2>1. pc = "pointers" /\ rebuild = plib.figures
    BY DEF ReindexEnds, RemoveDepartedEnds, BackfillEnds, PointersEnd, Branches
  <2>2. \A i \in plib.indexes : held'[i.name] = Wanted(i, now)'
    BY <1>1, <1>3, <2>1 DEF Regrouped
  <2>3. \A p \in plib.figures : Current(p)'
    BY <1>6, <2>1 DEF Swept, Recalculated, Current
  <2> QED
    BY <1>1, <2>2, <2>3 DEF Agreed
<1>11. GapsFilled'
  <2>1. \A p : Fresh(p) => ScopesOf(p) \subseteq Subjects(p)
    BY DEF Fresh
  <2>2. CASE pc' = "done" /\ full
    <3>1. pc = "pointers" /\ rebuild = plib.figures
      BY <2>2 DEF ReindexEnds, RemoveDepartedEnds, BackfillEnds, PointersEnd, Branches
    <3> QED
      BY <1>1, <1>6, <2>1, <3>1 DEF Recalculated, GapsFilled
  <2>3. CASE pc' = "done" /\ ~cold /\ wrote
    <3>1. pc = "gaps" /\ left = {}
      BY <2>3 DEF ReindexEnds, RemoveDepartedEnds, BackfillEnds, PointersEnd, Branches
    <3> QED
      BY <1>1, <1>6, <2>3, <3>1 DEF Gapless, GapsFilled
  <2> QED
    BY <1>1, <2>2, <2>3 DEF GapsFilled
<1> QED
  BY <1>2, <1>4, <1>5, <1>7, <1>8, <1>9, <1>10, <1>11

\* A figure is not among what a figure reads that is no deeper, or no later.
LEMMA NotRead ==
  ASSUME NEW L \in Libraries, NEW p \in L.figures, NEW q \in L.figures,
         q.depth <= p.depth \/ q.place <= p.place
  PROVE  p \notin q.sources
<1> SUFFICES ASSUME p \in q.sources
             PROVE  FALSE
  OBVIOUS
<1>1. /\ p.depth < q.depth /\ p.depth \in Nat /\ q.depth \in Nat
      /\ p.place < q.place /\ p.place \in Nat /\ q.place \in Nat
  BY LibraryAssumption
<1> QED
  BY <1>1

\* One figure's rows move: what every other figure keeps.
LEMMA OneFigure ==
  ASSUME Exact, NEW p \in plib.figures, NEW rows,
         value' = [value EXCEPT ![p] = rows], UNCHANGED <<fact, held>>
  PROVE  /\ value'[p] = rows
         /\ ScopesOf(p)' = ScopesOf(p)
         /\ \A c : Evaluate(p, c)' = Evaluate(p, c)
         /\ \A q \in plib.figures : q # p /\ (q.depth <= p.depth \/ q.place <= p.place) =>
              /\ Living(q)' <=> Living(q)
              /\ Fresh(q)' <=> Fresh(q)
              /\ (ScopesOf(q) \subseteq Subjects(q))' <=> ScopesOf(q) \subseteq Subjects(q)
         /\ \A q \in plib.figures : q # p => value'[q] = value[q]
<1>1. plib \in Libraries /\ p \in DOMAIN value
  BY DEF Exact, TypeOK, Plans
<1>2. \A q \in plib.figures : q \in Plans /\ q \in DOMAIN value
  BY <1>1 DEF Exact, TypeOK, Plans
<1>3. \A q \in plib.figures : q # p => value'[q] = value[q]
  BY <1>2
<1>4. \A q \in plib.figures : (q.depth <= p.depth \/ q.place <= p.place) =>
        \A r \in q.sources : value'[r] = value[r]
  BY <1>1, <1>3, NotRead, SourcesDeclared
<1>5. p.depth <= p.depth
  BY <1>1, LibraryAssumption
<1>6. \A r \in p.sources : value'[r] = value[r]
  BY <1>4, <1>5
<1>7. ScopesOf(p)' = ScopesOf(p) /\ \A c : Evaluate(p, c)' = Evaluate(p, c)
  BY <1>6, ScopesFrame, EvaluateFrame
<1>8. ASSUME NEW q \in plib.figures, q # p, q.depth <= p.depth \/ q.place <= p.place
      PROVE  /\ Living(q)' <=> Living(q)
             /\ Fresh(q)' <=> Fresh(q)
             /\ (ScopesOf(q) \subseteq Subjects(q))' <=> ScopesOf(q) \subseteq Subjects(q)
  BY <1>3, <1>4, <1>8, FigureFrame
<1> QED
  BY <1>1, <1>3, <1>7, <1>8

\* The departed rows of one figure go.
LEMMA ExactDepart ==
  ASSUME Exact, TypeOK', \E p \in plib.figures : RemoveDeparted(p)
  PROVE  Exact'
<1> USE DEF Exact, ColdLoops, WarmLoops, request
<1> PICK p \in plib.figures : RemoveDeparted(p)
  OBVIOUS
<1>1. /\ pc \in {"depart", "sweep"} /\ pc' = pc /\ left' = left \ {p}
      /\ p \in left /\ \A q \in left : p.place <= q.place
      /\ UNCHANGED <<full, cold, rebuild, plib, now, fact, pointer, held>>
  BY DEF RemoveDeparted, Foremost
<1>2. Branches' /\ Behind' /\ Recalculated' /\ Gapless' /\ FullPassExact' /\ GapsFilled'
  BY <1>1 DEF Branches, Behind, Pending, Recalculated, Gapless, FullPassExact, GapsFilled
<1>3. Regrouped'
  <2>1. \A i : Wanted(i, now)' = Wanted(i, now)
    BY <1>1 DEF Wanted, Filing, BucketsOf, Roster
  <2> QED
    BY <1>1, <2>1 DEF Regrouped
<1>4. Ordered'
  BY <1>1 DEF Ordered, Visiting, TypeOK
<1>5. ASSUME pc = "depart", NEW q \in plib.figures \ left'
      PROVE  Living(q)'
  <2>1. value' = [value EXCEPT ![p] = Without(p, DepartedRows(p))]
    BY DEF RemoveDeparted
  <2>2. CASE q = p
    <3> DEFINE kept == Without(p, DepartedRows(p))
    <3>0. value'[p] = kept
      <4> HIDE DEF kept
      <4> QED
        BY <1>1, <2>1, OneFigure DEF kept
    <3>1. Subjects(p)' = Subjects(p) \ DepartedRows(p)
      BY <3>0 DEF Subjects, Without
    <3>2. ScopesOf(p)' = ScopesOf(p)
      BY <1>1, <2>1, OneFigure
    <3>3. \A kind : Roster(kind)' = Roster(kind)
      BY <1>1 DEF Roster
    <3> QED
      BY <2>2, <3>1, <3>2, <3>3 DEF Living, DepartedRows
  <2>3. CASE q # p
    <3>1. q \in plib.figures \ left
      BY <1>1, <2>3
    <3>2. q.place <= p.place /\ Living(q)
      BY <1>1, <1>5, <3>1 DEF Ordered, Visiting, Swept
    <3> QED
      BY <1>1, <2>1, <2>3, <3>2, OneFigure
  <2> QED
    BY <2>2, <2>3
<1>6. Swept'
  BY <1>1, <1>5 DEF Swept
<1> QED
  BY <1>2, <1>3, <1>4, <1>6

\* The pointers follow.
LEMMA ExactPointer ==
  ASSUME Exact, TypeOK', \E p \in plib.figures : SetPointer(p)
  PROVE  Exact'
<1> USE DEF Exact, ColdLoops, WarmLoops, request
<1> PICK p \in plib.figures : SetPointer(p)
  OBVIOUS
<1>1. /\ pc = "pointers" /\ pc' = "pointers"
      /\ UNCHANGED <<full, cold, rebuild, plib, now, fact, held, value>>
      /\ pointer' = [pointer EXCEPT ![p.name] = p]
  BY DEF SetPointer
<1>2. Pending' \subseteq Pending
  <2>1. \A q \in plib.figures : q.name \in FigureNames
    BY LibraryAssumption DEF TypeOK
  <2>2. \A q \in plib.figures : q # p => q.name # p.name
    BY LibraryAssumption DEF TypeOK
  <2> QED
    BY <1>1, <2>1, <2>2 DEF Pending, TypeOK
<1>3. Branches' /\ Behind'
  BY <1>1, <1>2 DEF Branches, Behind
<1>4. Regrouped'
  <2>1. \A i : Wanted(i, now)' = Wanted(i, now)
    BY <1>1 DEF Wanted, Filing, BucketsOf, Roster
  <2> QED
    BY <1>1, <2>1 DEF Regrouped
<1>5. Swept' /\ Recalculated'
  BY <1>1, ControlFrame DEF Swept, Recalculated
<1>6. Ordered' /\ Gapless' /\ FullPassExact' /\ GapsFilled'
  BY <1>1 DEF Ordered, Gapless, FullPassExact, GapsFilled
<1> QED
  BY <1>3, <1>4, <1>5, <1>6

\* One figure's rows are recomputed, or its missing ones filled in.
LEMMA ExactBackfill ==
  ASSUME Exact, TypeOK', \E p \in plib.figures : Backfill(p)
  PROVE  Exact'
<1> USE DEF Exact, ColdLoops, WarmLoops, request
<1> PICK p \in plib.figures : Backfill(p)
  OBVIOUS
<1> DEFINE rows == With(p, BackfillRows(p))
<1>1. /\ pc \in {"backfill", "heal", "gaps"} /\ pc' = pc /\ left' = left \ {p}
      /\ p \in left /\ \A q \in left : p.depth <= q.depth
      /\ UNCHANGED <<full, cold, wrote, rebuild, plib, now, fact, pointer, held>>
      /\ value' = [value EXCEPT ![p] = rows]
  BY DEF Backfill, Shallowest
<1>2. Branches' /\ Behind' /\ FullPassExact' /\ GapsFilled'
  BY <1>1 DEF Branches, Behind, Pending, FullPassExact, GapsFilled
<1>3. Regrouped'
  <2>1. \A i : Wanted(i, now)' = Wanted(i, now)
    BY <1>1 DEF Wanted, Filing, BucketsOf, Roster
  <2> QED
    BY <1>1, <2>1 DEF Regrouped
<1>4. Ordered'
  BY <1>1 DEF Ordered, Visiting, TypeOK
<1>5. /\ value'[p] = rows
      /\ ScopesOf(p)' = ScopesOf(p)
      /\ \A c : Evaluate(p, c)' = Evaluate(p, c)
      /\ \A q \in plib.figures : q # p => value'[q] = value[q]
  <2> HIDE DEF rows
  <2> QED
    BY <1>1, OneFigure
<1>6. Subjects(p)' = Subjects(p) \union BackfillRows(p)
  BY <1>5 DEF Subjects, With
<1>7. \A kind : Roster(kind)' = Roster(kind)
  BY <1>1 DEF Roster
<1>8. plib \in Libraries
  BY DEF TypeOK
<1>9. ASSUME pc = "backfill", NEW q \in plib.figures
      PROVE  Living(q)'
  <2>1. \A r \in plib.figures : Living(r)
    BY <1>9 DEF Swept
  <2>2. CASE q = p
    <3>1. \A r \in p.sources : Living(r)
      BY <1>8, <2>1, SourcesDeclared
    <3>2. \A c \in ScopesOf(p) :
            /\ c[1] \in Roster(p.scope)
            /\ (p.across # None /\ c[2] # None) => c[2] \in Roster(p.across)
      BY <1>8, <3>1, ScopesLive
    <3>3. BackfillRows(p) = ScopesOf(p)
      BY <1>9 DEF BackfillRows
    <3> QED
      BY <1>5, <1>6, <1>7, <2>1, <2>2, <3>2, <3>3 DEF Living
  <2>3. CASE q # p
    <3>1. \A r \in q.sources : DOMAIN value[r] \subseteq DOMAIN value'[r]
      BY <1>5, <1>6, <1>8, SourcesDeclared DEF Subjects
    <3>2. ScopesOf(q) \subseteq ScopesOf(q)'
      BY <1>1, <3>1, ScopesGrow
    <3>3. Subjects(q)' = Subjects(q)
      BY <1>5, <2>3 DEF Subjects
    <3> QED
      BY <1>7, <2>1, <3>2, <3>3 DEF Living
  <2> QED
    BY <2>2, <2>3
<1>10. Swept'
  BY <1>1, <1>9 DEF Swept
<1>11. ASSUME pc = "backfill", NEW q \in rebuild \ left'
       PROVE  Fresh(q)'
  <2>1. CASE q = p
    <3>1. BackfillRows(p) = ScopesOf(p)
      BY <1>11 DEF BackfillRows
    <3>2. \A c \in ScopesOf(p) : rows[c] = Evaluate(p, c)
      BY <3>1 DEF With
    <3> QED
      BY <1>5, <1>6, <2>1, <3>1, <3>2 DEF Fresh
  <2>2. CASE q # p
    <3>1. q \in rebuild \ left /\ q \in plib.figures
      BY <1>1, <1>11, <2>2 DEF TypeOK
    <3>2. q.depth <= p.depth /\ Fresh(q)
      BY <1>1, <1>11, <3>1 DEF Ordered, Visiting, Recalculated
    <3> HIDE DEF rows
    <3> QED
      BY <1>1, <2>2, <3>1, <3>2, OneFigure
  <2> QED
    BY <2>1, <2>2
<1>12. Recalculated'
  BY <1>1, <1>11 DEF Recalculated
<1>13. ASSUME pc = "gaps", wrote, NEW q \in plib.figures \ left'
       PROVE  (ScopesOf(q) \subseteq Subjects(q))'
  <2>1. CASE q = p
    <3>1. BackfillRows(p) = ScopesOf(p) \ Subjects(p)
      BY <1>13 DEF BackfillRows
    <3> QED
      BY <1>5, <1>6, <2>1, <3>1
  <2>2. CASE q # p
    <3>1. q \in plib.figures \ left
      BY <1>1, <1>13, <2>2
    <3>2. q.depth <= p.depth /\ ScopesOf(q) \subseteq Subjects(q)
      BY <1>1, <1>13, <3>1 DEF Ordered, Visiting, Gapless
    <3> HIDE DEF rows
    <3> QED
      BY <1>1, <2>2, <3>1, <3>2, OneFigure
  <2> QED
    BY <2>1, <2>2
<1>14. Gapless'
  BY <1>1, <1>13 DEF Gapless
<1> QED
  BY <1>2, <1>3, <1>4, <1>10, <1>12, <1>14

LEMMA ExactInit == Init => Exact
<1> SUFFICES ASSUME Init
             PROVE  Exact
  OBVIOUS
<1>1. pc = "idle"
  BY DEF Init
<1> QED
  BY <1>1, TypeInit, ExactAtRest

LEMMA ExactStep == Exact /\ [Next]_vars => Exact'
<1> SUFFICES ASSUME Exact, [Next]_vars
             PROVE  Exact'
  OBVIOUS
<1>1. TypeOK'
  BY TypeStep DEF Exact
<1>2. CASE UNCHANGED vars
  <2>1. UNCHANGED <<fact, held, value, pointer, plib, now, full, wrote, cold, rebuild, todo, left, pc>>
    BY <1>2 DEF vars, tables, request, progress
  <2>2. \A i : Wanted(i, now)' = Wanted(i, now)
    BY <2>1 DEF Wanted, Filing, BucketsOf, Roster
  <2>3. Branches' /\ Behind' /\ Regrouped' /\ Ordered'
    BY <2>1, <2>2 DEF Exact, Branches, Behind, Pending, Regrouped, Ordered, Visiting
  <2>4. Swept' /\ Recalculated' /\ Gapless' /\ GapsFilled'
    BY <2>1, ControlFrame DEF Exact, Swept, Recalculated, Gapless, GapsFilled
  <2>5. FullPassExact'
    BY <2>1, <2>2, ControlFrame DEF Exact, FullPassExact, Agreed, Current
  <2> QED
    BY <1>1, <2>3, <2>4, <2>5 DEF Exact
<1>3. CASE pc' \in {"idle", "begin"}
  <2>1. Exact'
    BY <1>1, <1>3 DEF Exact, Branches, Behind, Regrouped, Ordered, Swept, Recalculated, Gapless,
                      ColdLoops, WarmLoops, FullPassExact, GapsFilled
  <2> QED
    BY <2>1
<1>4. CASE Next /\ pc' \notin {"idle", "begin"}
  <2>1. \/ Begin \/ ReturnEarly \/ Applied \/ RecomputeEnds
        \/ \E i \in plib.indexes : ApplyIndex(i)
        \/ \E p \in plib.figures : Recompute(p)
        \/ \E i \in plib.indexes : Reindex(i)
        \/ ReindexEnds \/ RemoveDepartedEnds \/ BackfillEnds \/ PointersEnd
        \/ \E p \in plib.figures : RemoveDeparted(p)
        \/ \E p \in plib.figures : Backfill(p)
        \/ \E p \in plib.figures : SetPointer(p)
    BY <1>4 DEF Next, PassStep, Death, PostFacts, PostRun, Start, DropIndex, Return, Die, ApplyDies,
                ReindexDies, RecomputeDies, RemoveDepartedDies, BackfillDies, Abandon, Over, Teach,
                NewDay
  <2> QED
    BY <1>1, <2>1, ExactWarm, ExactReindex, ExactControl, ExactDepart, ExactBackfill, ExactPointer
<1> QED
  BY <1>2, <1>3, <1>4

-----------------------------------------------------------------------------
(* A pass that finds only definitions behind, and starts from sound tables. *)

Defining == cold /\ ~full /\ written = {} /\ sound /\ Unclipped

\* What claimed to be current when the request came still does when it begins.
Grounded ==
  pc = "begin" /\ sound /\ written = {} /\ ~full =>
    /\ \A i \in plib.indexes, d \in 1..MaxDay :
         built[i.name] = Stamp(i, d) => held[i.name] = Wanted(i, d)
    /\ \A p \in plib.figures : Stands(p) =>
         /\ Current(p) /\ \A q \in p.sources : Stands(q)
         /\ Pending # {} => \A i \in Indexes(p) : Stamped(i)

\* The groupings it does not rebuild were right, and those it has rebuilt are.
Settled ==
  /\ Defining /\ pc = "reindex" => \A i \in plib.indexes \ todo : held[i.name] = Wanted(i, now)
  /\ Defining /\ pc \in ColdLoops => \A i \in plib.indexes : held[i.name] = Wanted(i, now)

\* The figures it does not recompute were right, and read nothing it rewrites.
Standing ==
  Defining /\ pc \in {"reindex"} \union ColdLoops =>
    \A p \in plib.figures \ rebuild :
      /\ Current(p) /\ p.sources \intersect rebuild = {}
      /\ pc = "reindex" => Indexes(p) \intersect todo = {}

Defined == Exact /\ Grounded /\ Settled /\ Standing /\ DefinitionPassExact

\* What a figure's rows depend on of the groupings: the ones it is over.
LEMMA FootFrame ==
  ASSUME NEW L \in Libraries, NEW p \in L.figures, UNCHANGED fact,
         \A i \in Indexes(p) : held'[i.name] = held[i.name],
         \A q \in p.sources : value'[q] = value[q]
  PROVE  /\ ScopesOf(p)' = ScopesOf(p)
         /\ \A c : Evaluate(p, c)' = Evaluate(p, c)
<1>1. UNION {Subjects(q)' : q \in p.sources} = UNION {Subjects(q) : q \in p.sources}
  BY DEF Subjects
<1>2. \A kind : Roster(kind)' = Roster(kind)
  BY DEF Roster
<1>3. p.scopeIndex # None =>
        held'[p.scopeIndex.name] = held[p.scopeIndex.name]
          /\ BucketKeys(p.scopeIndex)' = BucketKeys(p.scopeIndex)
  BY DEF BucketKeys, Indexes
<1>4. ScopesOf(p)' = ScopesOf(p)
  BY <1>1, <1>2, <1>3 DEF ScopesOf
<1>5. \A a : Members(p, a)' = Members(p, a)
  <2>1. \A f \in p.filters : held'[f.name] = held[f.name]
    BY DEF Indexes
  <2> QED
    BY <1>3, <2>1 DEF Members
<1>6. \A c : PartAddresses(p, c)' = PartAddresses(p, c)
  BY <1>5 DEF PartAddresses
<1>7. \A q \in p.sources : \A a :
        {<<q.name, r, value[q][r].number>> : r \in PartsUnder(q, a)}'
          = {<<q.name, r, value[q][r].number>> : r \in PartsUnder(q, a)}
  BY DEF PartsUnder, Subjects
<1>8. \A c : Parts(p, c)' = Parts(p, c)
  BY <1>6, <1>7 DEF Parts
<1>9. \A c : Reads(p, c)' = Reads(p, c)
  <2>1. CASE p.scopeIndex # None
    BY <1>3, <1>5, <1>8, <2>1 DEF Reads
  <2>2. CASE p.scopeIndex = None
    <3>1. p.form # "spread"
      BY <2>2, ShapeAssumption
    <3> QED
      BY <1>5, <1>8, <3>1 DEF Reads
  <2> QED
    BY <2>1, <2>2
<1>10. \A c : Evaluate(p, c)' = Evaluate(p, c)
  BY <1>5, <1>8, <1>9 DEF Evaluate, Answer
<1> QED
  BY <1>4, <1>10

\* So a figure whose rows stay is as current as it was.
LEMMA FootCurrent ==
  ASSUME NEW L \in Libraries, NEW p \in L.figures, UNCHANGED fact,
         \A i \in Indexes(p) : held'[i.name] = held[i.name],
         \A q \in p.sources : value'[q] = value[q], value'[p] = value[p]
  PROVE  Current(p)' <=> Current(p)
<1>1. ScopesOf(p)' = ScopesOf(p) /\ \A c : Evaluate(p, c)' = Evaluate(p, c)
  BY FootFrame
<1>2. Subjects(p)' = Subjects(p)
  BY DEF Subjects
<1>3. \A kind : Roster(kind)' = Roster(kind)
  BY DEF Roster
<1> QED
  BY <1>1, <1>2, <1>3 DEF Current, Living, Fresh

\* What a rebuild files follows from the records alone.
LEMMA WantedFrame == UNCHANGED fact => \A i, d : Wanted(i, d)' = Wanted(i, d)
BY DEF Wanted, Filing, BucketsOf, Roster

\* A request that writes nothing finds the tables, and the records, it was sound over.
LEMMA GroundedAtStart ==
  ASSUME Defined, TypeOK',
         \/ \E batch \in Batches, asked \in BOOLEAN : PostFacts(batch, asked)
         \/ \E asked \in BOOLEAN : PostRun(asked)
  PROVE  Grounded'
<1> SUFFICES ASSUME sound', written' = {}, ~full'
             PROVE  /\ \A i \in plib'.indexes, d \in 1..MaxDay :
                         built'[i.name] = Stamp(i, d) => held'[i.name] = Wanted(i, d)'
                    /\ \A p \in plib'.figures : Stands(p)' =>
                         /\ Current(p)' /\ \A q \in p.sources : Stands(q)'
                         /\ Pending' # {} => \A i \in Indexes(p) : Stamped(i)'
  BY DEF Grounded, Stamp
<1>1. plib' = lib /\ lib \in Libraries /\ Sound(lib) /\ UNCHANGED <<held, built, pointer, value>>
  BY DEF PostFacts, PostRun, Start, tables, Defined, Exact, TypeOK
<1>2. fact' = fact
  <2>1. CASE \E asked \in BOOLEAN : PostRun(asked)
    BY <2>1 DEF PostRun
  <2>2. CASE \E batch \in Batches, asked \in BOOLEAN : PostFacts(batch, asked)
    <3> PICK batch \in Batches, asked \in BOOLEAN : PostFacts(batch, asked)
      BY <2>2
    <3> DEFINE deleted == {k \in DOMAIN batch : batch[k] = None}
    <3>1. written' = {k \in DOMAIN batch : batch[k] # None /\ batch[k] # fact[k]}
      BY DEF PostFacts, Start
    <3>2. deleted = {}
      BY DEF PostFacts, Start
    <3>3. fact' = [k \in Keys |-> IF k \in DOMAIN batch THEN batch[k] ELSE fact[k]]
      BY DEF PostFacts
    <3>4. \A k \in DOMAIN batch : batch[k] = fact[k]
      BY <3>1, <3>2
    <3> QED
      BY <3>3, <3>4 DEF Defined, Exact, TypeOK
  <2> QED
    BY <2>1, <2>2
<1>3. \A i \in lib.indexes, d \in 1..MaxDay :
        built'[i.name] = Stamp(i, d) => held'[i.name] = Wanted(i, d)'
  BY <1>1, <1>2, WantedFrame DEF Sound
<1>4. ASSUME NEW p \in lib.figures, Stands(p)'
      PROVE  /\ Current(p)' /\ \A q \in p.sources : Stands(q)'
             /\ Pending' # {} => \A i \in Indexes(p) : Stamped(i)'
  <2>1. Stands(p)
    BY <1>1, <1>4 DEF Stands
  <2>2. Current(p)'
    BY <1>1, <1>2, <2>1, FootCurrent DEF Sound
  <2>3. \A q \in p.sources : Stands(q)'
    BY <1>1, <2>1 DEF Sound, Stands
  <2>4. Pending' # {} => \E q \in lib.figures : ~Stands(q)
    BY <1>1 DEF Pending, Stands
  <2>5. Pending' # {} => \A i \in Indexes(p) : Stamped(i)'
    BY <1>1, <2>1, <2>4 DEF Sound, Stamped
  <2> QED
    BY <2>2, <2>3, <2>5
<1> QED
  BY <1>1, <1>3, <1>4

\* Dropping what the library no longer declares moves nothing it declares.
LEMMA GroundedDrop ==
  ASSUME Defined, TypeOK', NEW n \in IndexNames, DropIndex(n)
  PROVE  Grounded'
<1> SUFFICES ASSUME sound, written = {}, ~full
             PROVE  /\ \A i \in plib.indexes, d \in 1..MaxDay :
                         built'[i.name] = Stamp(i, d) => held'[i.name] = Wanted(i, d)'
                    /\ \A p \in plib.figures : Stands(p)' =>
                         /\ Current(p)' /\ \A q \in p.sources : Stands(q)'
                         /\ Pending' # {} => \A i \in Indexes(p) : Stamped(i)'
  BY DEF Grounded, DropIndex, request, history, Stamp
<1>1. plib \in Libraries /\ UNCHANGED <<fact, pointer, value, plib>> /\ pc = "begin"
  BY DEF Defined, Exact, TypeOK, DropIndex, request
<1>2. \A i \in plib.indexes : i.name # n
  BY DEF DropIndex, Retired
<1>3. \A i \in plib.indexes : i.name \in IndexNames
  BY <1>1, LibraryAssumption
<1>4. \A i \in plib.indexes : held'[i.name] = held[i.name] /\ built'[i.name] = built[i.name]
  BY <1>2, <1>3 DEF DropIndex, Defined, Exact, TypeOK
<1>5. \A i \in plib.indexes, d \in 1..MaxDay :
        built'[i.name] = Stamp(i, d) => held'[i.name] = Wanted(i, d)'
  BY <1>1, <1>4, WantedFrame DEF Defined, Grounded
<1>6. ASSUME NEW p \in plib.figures, Stands(p)'
      PROVE  /\ Current(p)' /\ \A q \in p.sources : Stands(q)'
             /\ Pending' # {} => \A i \in Indexes(p) : Stamped(i)'
  <2>1. Stands(p) /\ Pending' = Pending
    BY <1>1, <1>6 DEF Stands, Pending
  <2>2. \A i \in Indexes(p) : i \in plib.indexes
    BY <1>1, LibraryAssumption
  <2>3. Current(p)'
    BY <1>1, <1>4, <2>1, <2>2, FootCurrent DEF Defined, Grounded
  <2>4. \A q \in p.sources : Stands(q)'
    BY <1>1, <2>1 DEF Defined, Grounded, Stands
  <2>5. Pending # {} => \A i \in Indexes(p) : Stamped(i)'
    BY <1>1, <1>4, <2>1, <2>2 DEF Defined, Grounded, Stamped
  <2> QED
    BY <2>1, <2>3, <2>4, <2>5
<1> QED
  BY <1>5, <1>6

\* The branch is chosen: the pending figures, and the stale groupings.
LEMMA DefinedBegin ==
  ASSUME Defined, Exact', Begin
  PROVE  Defined'
<1>1. /\ pc = "begin" /\ pc' \in {"reindex", "apply"} /\ plib \in Libraries /\ now \in 1..MaxDay
      /\ UNCHANGED <<fact, held, built, pointer, value, plib, now, written, full, sound>>
  BY DEF Defined, Exact, TypeOK, Begin, tables, request, history
<1>2. Grounded' /\ DefinitionPassExact'
  BY <1>1 DEF Grounded, DefinitionPassExact
<1>3. ASSUME Defining'
      PROVE  /\ \A i \in plib.indexes \ todo' : held[i.name] = Wanted(i, now)
             /\ \A p \in plib.figures \ rebuild' :
                  /\ Current(p) /\ p.sources \intersect rebuild' = {}
                  /\ Indexes(p) \intersect todo' = {}
  <2>1. sound /\ written = {} /\ ~full /\ Pending # {} /\ (\A i \in plib.indexes : ~i.clipped)
    BY <1>1, <1>3 DEF Defining, Unclipped, Begin
  <2>2. rebuild' = Pending /\ todo' = Stale
    BY <2>1 DEF Begin
  <2>3. \A i \in plib.indexes \ Stale : held[i.name] = Wanted(i, now)
    BY <1>1, <2>1 DEF Defined, Grounded, Stale
  <2>4. ASSUME NEW p \in plib.figures \ Pending
        PROVE  /\ Current(p) /\ p.sources \intersect Pending = {}
               /\ Indexes(p) \intersect Stale = {}
    <3>1. Stands(p)
      BY DEF Pending, Stands
    <3>2. Current(p) /\ (\A q \in p.sources : Stands(q)) /\ \A i \in Indexes(p) : Stamped(i)
      BY <1>1, <2>1, <3>1 DEF Defined, Grounded
    <3>3. p.sources \intersect Pending = {}
      BY <3>2 DEF Pending, Stands
    <3>4. \A i \in plib.indexes : Stamped(i) => built[i.name] = Stamp(i, now)
      BY <2>1 DEF Stamped, Stamp
    <3> QED
      BY <3>2, <3>3, <3>4 DEF Stale
  <2> QED
    BY <2>2, <2>3, <2>4
<1>4. Settled'
  BY <1>1, <1>3, WantedFrame DEF Settled, ColdLoops
<1>5. Standing'
  <2> SUFFICES ASSUME Defining', NEW p \in plib.figures \ rebuild'
               PROVE  /\ Current(p)' /\ p.sources \intersect rebuild' = {}
                      /\ Indexes(p) \intersect todo' = {}
    BY <1>1 DEF Standing
  <2>1. Current(p)'
    BY <1>1, <1>3, FootCurrent
  <2> QED
    BY <1>3, <2>1
<1> QED
  BY <1>2, <1>4, <1>5 DEF Defined

\* The groupings are rebuilt: none of them is one a standing figure is over.
LEMMA DefinedReindex ==
  ASSUME Defined, Exact', NEW i \in plib.indexes, Reindex(i)
  PROVE  Defined'
<1>1. /\ pc = "reindex" /\ pc' = "reindex" /\ plib \in Libraries /\ i \in todo
      /\ UNCHANGED <<fact, pointer, value, plib, now, written, full, sound, cold, rebuild>>
      /\ held' = [held EXCEPT ![i.name] = Wanted(i, now)] /\ todo' = todo \ {i}
  BY DEF Defined, Exact, TypeOK, Reindex, Foremost, request, history
<1>2. Grounded' /\ DefinitionPassExact' /\ (Defining' <=> Defining)
  BY <1>1 DEF Grounded, DefinitionPassExact, Defining, Unclipped
<1>3. \A j \in plib.indexes : j.name \in IndexNames /\ (j # i => j.name # i.name)
  BY <1>1, LibraryAssumption
<1>4. held'[i.name] = Wanted(i, now) /\ \A j \in plib.indexes : j # i => held'[j.name] = held[j.name]
  BY <1>1, <1>3 DEF Defined, Exact, TypeOK
<1>5. Settled'
  <2>1. ASSUME Defining, NEW j \in plib.indexes \ todo'
        PROVE  held'[j.name] = Wanted(j, now)
    <3>1. CASE j = i
      BY <1>4, <3>1
    <3>2. CASE j # i
      BY <1>1, <1>4, <2>1, <3>2 DEF Defined, Settled
    <3> QED
      BY <3>1, <3>2
  <2> QED
    BY <1>1, <1>2, <2>1, WantedFrame DEF Settled, ColdLoops
<1>6. Standing'
  <2> SUFFICES ASSUME Defining, NEW p \in plib.figures \ rebuild
               PROVE  /\ Current(p)' /\ p.sources \intersect rebuild = {}
                      /\ Indexes(p) \intersect todo' = {}
    BY <1>1, <1>2 DEF Standing
  <2>1. Current(p) /\ p.sources \intersect rebuild = {} /\ Indexes(p) \intersect todo = {}
    BY <1>1 DEF Defined, Standing
  <2>2. \A j \in Indexes(p) : j \in plib.indexes /\ j # i
    BY <1>1, <2>1, LibraryAssumption
  <2>3. Current(p)'
    BY <1>1, <1>4, <2>1, <2>2, FootCurrent
  <2> QED
    BY <1>1, <2>1, <2>3
<1> QED
  BY <1>2, <1>5, <1>6 DEF Defined

\* From loop to loop; and the last leaves what a full pass would.
LEMMA DefinedControl ==
  ASSUME Defined, Exact', ReindexEnds \/ RemoveDepartedEnds \/ BackfillEnds \/ PointersEnd
  PROVE  Defined'
<1>1. /\ pc # "begin" /\ plib \in Libraries
      /\ UNCHANGED <<fact, held, value, pointer, plib, now, written, full, sound, cold, rebuild, todo>>
  BY DEF Defined, Exact, TypeOK, ReindexEnds, RemoveDepartedEnds, BackfillEnds, PointersEnd,
         tables, request, progress, history
<1>2. (Defining' <=> Defining) /\ (Unclipped' <=> Unclipped)
  BY <1>1 DEF Defining, Unclipped
<1>3. \A p \in plib.figures : Current(p)' <=> Current(p)
  BY <1>1, FootCurrent
<1>4. Grounded'
  BY <1>1 DEF Grounded, ReindexEnds, RemoveDepartedEnds, BackfillEnds, PointersEnd
<1>5. Defining /\ pc \in {"reindex"} \union ColdLoops \union WarmLoops =>
        pc \in {"reindex"} \union ColdLoops
  BY DEF Defining, Defined, Exact, Branches
<1>6. Settled'
  BY <1>1, <1>2, <1>5, WantedFrame
     DEF ReindexEnds, RemoveDepartedEnds, BackfillEnds, PointersEnd, Settled, Defined, ColdLoops, WarmLoops
<1>7. Standing'
  <2>1. Defining' /\ pc' \in {"reindex"} \union ColdLoops =>
          pc' # "reindex" /\ pc \in {"reindex"} \union ColdLoops
    BY <1>2, <1>5 DEF ReindexEnds, RemoveDepartedEnds, BackfillEnds, PointersEnd, ColdLoops, WarmLoops
  <2> QED
    BY <1>1, <1>2, <1>3, <2>1 DEF Standing, Defined
<1>8. DefinitionPassExact'
  <2> SUFFICES ASSUME pc' = "done", Defining
               PROVE  Agreed(plib, now)'
    BY <1>1, <1>2 DEF DefinitionPassExact, Defining
  <2>1. pc = "pointers"
    BY <1>5 DEF ReindexEnds, RemoveDepartedEnds, BackfillEnds, PointersEnd, ColdLoops, WarmLoops
  <2>2. \A i \in plib.indexes : held'[i.name] = Wanted(i, now)'
    BY <1>1, <2>1, WantedFrame DEF Defined, Settled, ColdLoops
  <2>3. ASSUME NEW p \in plib.figures
        PROVE  Current(p)
    <3>1. CASE p \in rebuild
      BY <2>1, <3>1 DEF Defined, Exact, Swept, Recalculated, Current
    <3>2. CASE p \notin rebuild
      BY <2>1, <3>2 DEF Defined, Standing, ColdLoops
    <3> QED
      BY <3>1, <3>2
  <2> QED
    BY <1>1, <1>3, <2>2, <2>3 DEF Agreed
<1> QED
  BY <1>4, <1>6, <1>7, <1>8 DEF Defined

\* A loop over the rows of one figure: no standing figure's rows move, and no
\* standing figure reads the ones that do.
LEMMA DefinedRows ==
  ASSUME Defined, Exact', NEW p \in plib.figures, RemoveDeparted(p) \/ Backfill(p)
  PROVE  Defined'
<1>1. /\ pc \in {"depart", "sweep", "backfill", "heal", "gaps"} /\ pc' = pc /\ plib \in Libraries
      /\ UNCHANGED <<fact, held, pointer, plib, now, written, full, sound, cold, rebuild>>
      /\ p \in left
  BY DEF Defined, Exact, TypeOK, RemoveDeparted, Backfill, Foremost, Shallowest, request, history
<1>2. Grounded' /\ DefinitionPassExact' /\ (Defining' <=> Defining)
  BY <1>1 DEF Grounded, DefinitionPassExact, Defining, Unclipped
<1>3. Settled'
  BY <1>1, <1>2, WantedFrame DEF Defined, Settled, ColdLoops
<1>4. \A q \in plib.figures : q \in DOMAIN value
  BY <1>1 DEF Defined, Exact, TypeOK, Plans
<1>5. \A q \in plib.figures : q # p => value'[q] = value[q]
  BY <1>4 DEF RemoveDeparted, Backfill
<1>6. ASSUME Defining, pc \in ColdLoops, p \notin rebuild
      PROVE  value'[p] = value[p]
  <2>1. pc = "depart" /\ value' = [value EXCEPT ![p] = Without(p, DepartedRows(p))]
    <3>1. pc # "backfill"
      BY <1>1, <1>6 DEF Defined, Exact, Ordered, Visiting
    <3> QED
      BY <1>1, <1>6, <3>1 DEF ColdLoops, RemoveDeparted, Backfill
  <2>2. Living(p)
    BY <1>6, <2>1 DEF Defined, Standing, Current
  <2>3. DepartedRows(p) = {}
    BY <2>2 DEF Living, DepartedRows
  <2>4. Without(p, {}) = value[p]
    <3>1. IsTable(value[p])
      BY <1>4 DEF Defined, Exact, TypeOK
    <3> QED
      BY <3>1 DEF IsTable, Without, Subjects
  <2> QED
    BY <1>4, <2>1, <2>3, <2>4
<1>7. Standing'
  <2> SUFFICES ASSUME Defining, pc \in ColdLoops, NEW q \in plib.figures \ rebuild
               PROVE  Current(q)' /\ q.sources \intersect rebuild = {}
    BY <1>1, <1>2 DEF Standing
  <2>1. Current(q) /\ q.sources \intersect rebuild = {}
    BY DEF Defined, Standing
  <2>2. \A r \in q.sources : value'[r] = value[r]
    BY <1>1, <1>5, <1>6, <2>1, SourcesDeclared
  <2>3. value'[q] = value[q]
    BY <1>5, <1>6
  <2> QED
    BY <1>1, <2>1, <2>2, <2>3, FootCurrent
<1> QED
  BY <1>2, <1>3, <1>7 DEF Defined

\* The pointers follow.
LEMMA DefinedPointer ==
  ASSUME Defined, Exact', NEW p \in plib.figures, SetPointer(p)
  PROVE  Defined'
<1>1. /\ pc = "pointers" /\ pc' = "pointers" /\ plib \in Libraries
      /\ UNCHANGED <<fact, held, value, plib, now, written, full, sound, cold, rebuild>>
  BY DEF Defined, Exact, TypeOK, SetPointer, request, history
<1>2. Grounded' /\ DefinitionPassExact' /\ (Defining' <=> Defining)
  BY <1>1 DEF Grounded, DefinitionPassExact, Defining, Unclipped
<1>3. Settled'
  BY <1>1, <1>2, WantedFrame DEF Defined, Settled, ColdLoops
<1>4. \A q \in plib.figures : Current(q)' <=> Current(q)
  BY <1>1, FootCurrent
<1>5. Standing'
  BY <1>1, <1>2, <1>4 DEF Defined, Standing, ColdLoops
<1> QED
  BY <1>2, <1>3, <1>5 DEF Defined

\* Where no cold loop is under way there is nothing to keep.
LEMMA DefinedElsewhere ==
  ASSUME Exact, pc \in {"idle"} \union WarmLoops \/ (pc \in {"reindex", "done"} /\ ~cold)
  PROVE  Defined
BY DEF Defined, Exact, Branches, Grounded, Settled, Standing, DefinitionPassExact, Defining,
       ColdLoops, WarmLoops

LEMMA DefinedStep == Defined /\ [Next]_vars => Defined'
<1> SUFFICES ASSUME Defined, [Next]_vars
             PROVE  Defined'
  OBVIOUS
<1>1. Exact' /\ TypeOK'
  BY ExactStep DEF Defined, Exact
<1>2. CASE UNCHANGED vars
  <2>1. UNCHANGED <<fact, held, built, value, pointer, plib, now, written, full, sound, cold, rebuild, todo, pc>>
    BY <1>2 DEF vars, tables, request, progress, history
  <2>2. \A p \in plib.figures : Current(p)' <=> Current(p)
    BY <2>1, FootCurrent DEF Defined, Exact, TypeOK
  <2>3. Settled' /\ (Unclipped' <=> Unclipped)
    BY <2>1, WantedFrame DEF Settled, Defined, Defining, Unclipped
  <2>4. Grounded'
    BY <2>1, <2>2, WantedFrame DEF Grounded, Defined, Stands, Stamped, Pending
  <2>5. Standing'
    BY <2>1, <2>2 DEF Standing, Defined, Defining, Unclipped
  <2>6. DefinitionPassExact'
    BY <2>1, <2>2, <2>3, WantedFrame DEF DefinitionPassExact, Defined, Agreed
  <2> QED
    BY <1>1, <2>3, <2>4, <2>5, <2>6 DEF Defined
<1>3. CASE \/ \E batch \in Batches, asked \in BOOLEAN : PostFacts(batch, asked)
           \/ \E asked \in BOOLEAN : PostRun(asked)
  <2>1. Grounded'
    BY <1>1, <1>3, GroundedAtStart
  <2>2. pc' = "begin"
    BY <1>3 DEF PostFacts, PostRun, Start
  <2> QED
    BY <1>1, <2>1, <2>2 DEF Defined, Settled, Standing, DefinitionPassExact, ColdLoops
<1>4. CASE \E n \in IndexNames : DropIndex(n)
  <2>1. Grounded'
    BY <1>1, <1>4, GroundedDrop
  <2>2. pc' = "begin"
    BY <1>4 DEF DropIndex
  <2> QED
    BY <1>1, <2>1, <2>2 DEF Defined, Settled, Standing, DefinitionPassExact, ColdLoops
<1>5. CASE ReturnEarly
  <2>1. pc' = "done" /\ plib' = plib /\ plib.figures = {} /\ plib.indexes = {}
    BY <1>5 DEF ReturnEarly, NothingDeclared, request
  <2> QED
    BY <1>1, <2>1 DEF Defined, Grounded, Settled, Standing, DefinitionPassExact, ColdLoops, Agreed
<1>6. CASE Begin \/ \E i \in plib.indexes : Reindex(i)
  BY <1>1, <1>6, DefinedBegin, DefinedReindex
<1>7. CASE ReindexEnds \/ RemoveDepartedEnds \/ BackfillEnds \/ PointersEnd
  BY <1>1, <1>7, DefinedControl
<1>8. CASE \E p \in plib.figures : RemoveDeparted(p) \/ Backfill(p) \/ SetPointer(p)
  BY <1>1, <1>8, DefinedRows, DefinedPointer
<1>9. CASE Applied \/ RecomputeEnds \/ (\E i \in plib.indexes : ApplyIndex(i))
           \/ \E p \in plib.figures : Recompute(p)
  <2>1. pc \in {"apply", "recompute"} /\ cold' = cold /\ pc' \in {"apply", "recompute", "reindex"}
    BY <1>9 DEF Applied, RecomputeEnds, ApplyIndex, Recompute
  <2>2. ~cold'
    BY <2>1 DEF Defined, Exact, Branches, WarmLoops
  <2>3. (pc \in {"idle"} \union WarmLoops \/ (pc \in {"reindex", "done"} /\ ~cold))'
    BY <2>1, <2>2 DEF WarmLoops
  <2> QED
    BY <1>1, <2>3, DefinedElsewhere, PTL
<1>10. CASE Return \/ Death \/ (\E L \in Libraries : Teach(L)) \/ NewDay
  <2>1. pc' = "idle"
    BY <1>10 DEF Return, Death, Die, ApplyDies, ReindexDies, RecomputeDies, RemoveDepartedDies,
                 BackfillDies, Abandon, Over, Teach, NewDay
  <2>2. (pc \in {"idle"} \union WarmLoops \/ (pc \in {"reindex", "done"} /\ ~cold))'
    BY <2>1
  <2> QED
    BY <1>1, <2>2, DefinedElsewhere, PTL
<1> QED
  BY <1>2, <1>3, <1>4, <1>5, <1>6, <1>7, <1>8, <1>9, <1>10 DEF Next, PassStep

-----------------------------------------------------------------------------
(* What a stamp is worth, through deaths, deploys and days.                *)

\* No grouping is an age filter: one's buckets move with the instant, and its
\* stamp does not (engine.py:1405).
Timeless ==
  \A i \in Groupings, k \in Keys, d, e \in 1..MaxDay, f \in [Keys -> Bodies \union {None}] :
    ~i.clipped => Cut(i, d, k, f) = Cut(i, e, k, f)

\* No deploy takes a grouping back: the libraries have an order in which teaches
\* go forward, and a spec that is left does not return.
GoesForward(age) ==
  /\ \A L, M \in Libraries : <<L, M>> \in Deploys => age[L] <= age[M]
  /\ \A L, M, N \in Libraries :
       age[L] <= age[M] /\ age[M] <= age[N] => L.indexes \intersect N.indexes \subseteq M.indexes

\* A record is filed where the grouping's spec cuts it today.
Right(i, k) ==
  BucketsHolding(i, k) = IF fact[k] = None THEN {} ELSE BucketsOf(i, day, k)

\* A pass runs under the library and on the day there are.
Captured == pc # "idle" => plib = lib /\ now = day

\* A record its batch moved is there, is owed until the pass is done, and nothing is
\* resolved through it unless the pass is full.
Batched ==
  /\ pc # "done" => written \subseteq owed
  /\ \A k \in written : fact[k] # None
  /\ pc # "idle" /\ ~full => \A k \in written : KindOf[k] \notin ThroughKinds(plib)

\* A stamp names a grouping some library of today or before declared.
Known(age) ==
  \A n \in IndexNames : built[n] # None =>
    \E L \in Libraries : age[L] <= age[lib] /\ \E i \in L.indexes, d \in 1..day :
      i.name = n /\ built[n] = Stamp(i, d)

\* A warm pass has filed its batch in the groupings it has been through.
Applying == IF pc = "apply" THEN todo ELSE {}
BatchFiled ==
  ~cold /\ pc \in {"reindex"} \union WarmLoops =>
    \A i \in plib.indexes \ Applying : \A k \in written : KindOf[k] = i.kind => Right(i, k)

Honest(age) ==
  Exact /\ Captured /\ Batched /\ Known(age) /\ BatchFiled /\ StampHonest

\* Where a record lands follows from it and from those it is resolved through.
LEMMA CutFrame ==
  ASSUME TypeOK, TypeOK', NEW i \in Groupings, NEW k \in Keys, NEW d \in 1..MaxDay,
         KindOf[k] = i.kind, fact[k] # None, fact'[k] = fact[k],
         \A x \in Keys : KindOf[x] \in i.through => fact'[x] = fact[x]
  PROVE  Cut(i, d, k, fact') = Cut(i, d, k, fact)
<1>1. fact \in [Keys -> Bodies \union {None}] /\ fact' \in [Keys -> Bodies \union {None}]
  BY DEF TypeOK
<1>2. Seen(i, k, fact') = Seen(i, k, fact)
  BY DEF Seen
<1> QED
  BY <1>1, <1>2, CutAssumption

\* A rebuild files every record where its spec cuts it, ...
FiledRight ==
  \A i : \A k \in Keys : held[i.name] = Wanted(i, day) /\ KindOf[k] = i.kind => Right(i, k)

LEMMA WantedRight == FiledRight
<1> SUFFICES ASSUME NEW i, held[i.name] = Wanted(i, day), NEW k \in Keys, KindOf[k] = i.kind
             PROVE  Right(i, k)
  BY DEF FiledRight
<1>1. BucketsHolding(i, k) = {r[2] : r \in {x \in Wanted(i, day) : x[1] = k}}
  BY DEF BucketsHolding
<1>2. CASE fact[k] = None
  <2>1. \A x \in Wanted(i, day) : x[1] # k
    BY <1>2 DEF Wanted, Filing, Roster
  <2> QED
    BY <1>1, <1>2, <2>1 DEF Right
<1>3. CASE fact[k] # None
  <2>1. k \in Roster(i.kind)
    BY <1>3 DEF Roster
  <2>2. \A b \in BucketsOf(i, day, k) : <<k, b>> \in Wanted(i, day)
    BY <2>1 DEF Wanted, Filing
  <2>3. \A x \in Wanted(i, day) : x[1] = k => x[2] \in BucketsOf(i, day, k)
    BY DEF Wanted, Filing
  <2>4. \A b \in BucketsOf(i, day, k) : <<k, b>>[1] = k /\ <<k, b>>[2] = b
    OBVIOUS
  <2> QED
    BY <1>1, <1>3, <2>2, <2>3, <2>4 DEF Right
<1> QED
  BY <1>2, <1>3

\* ... and so does filing the batch, for the records of it.
LEMMA ApplyRight ==
  ASSUME TypeOK, NEW i \in plib.indexes, held'[i.name] = SetBuckets(i)[i.name], now = day,
         UNCHANGED <<fact, day>>, NEW k \in Keys, KindOf[k] = i.kind
  PROVE  /\ k \in written /\ fact[k] # None => Right(i, k)'
         /\ k \notin written => BucketsHolding(i, k)' = BucketsHolding(i, k)
<1>1. i.name \in IndexNames
  BY LibraryAssumption DEF TypeOK
<1> DEFINE kept == {r \in held[i.name] : r[1] \notin Refiled(i)}
<1>2. held'[i.name] = kept \union Filing(i, now, Refiled(i))
  BY <1>1 DEF SetBuckets, TypeOK
<1>3. BucketsHolding(i, k)' = {r[2] : r \in {x \in kept \union Filing(i, now, Refiled(i)) : x[1] = k}}
  BY <1>2 DEF BucketsHolding
<1>4. CASE k \notin Refiled(i)
  <2>1. \A x \in Filing(i, now, Refiled(i)) : x[1] # k
    BY <1>4 DEF Filing
  <2>2. {x \in kept \union Filing(i, now, Refiled(i)) : x[1] = k} = {x \in held[i.name] : x[1] = k}
    BY <1>4, <2>1
  <2>3. BucketsHolding(i, k)' = BucketsHolding(i, k)
    BY <1>3, <2>2 DEF BucketsHolding
  <2>4. k \in written => BucketsHolding(i, k) = BucketsOf(i, now, k)
    BY <1>4 DEF Refiled
  <2> QED
    BY <2>3, <2>4 DEF Right, BucketsOf
<1>5. CASE k \in Refiled(i)
  <2>1. \A x \in kept : x[1] # k
    BY <1>5
  <2>2. \A b \in BucketsOf(i, now, k) : <<k, b>> \in Filing(i, now, Refiled(i))
    BY <1>5 DEF Filing
  <2>3. \A x \in Filing(i, now, Refiled(i)) : x[1] = k => x[2] \in BucketsOf(i, now, k)
    BY DEF Filing
  <2>4. \A b \in BucketsOf(i, now, k) : <<k, b>>[1] = k /\ <<k, b>>[2] = b
    OBVIOUS
  <2>5. BucketsHolding(i, k)' = BucketsOf(i, now, k)
    <3> DEFINE filing == Filing(i, now, Refiled(i))
    <3>1. {x \in kept \union filing : x[1] = k} = {x \in filing : x[1] = k}
      BY <2>1
    <3>2. \A b \in BucketsOf(i, now, k) : b \in {r[2] : r \in {x \in filing : x[1] = k}}
      BY <2>2, <2>4
    <3>3. \A b \in {r[2] : r \in {x \in filing : x[1] = k}} : b \in BucketsOf(i, now, k)
      BY <2>3
    <3> HIDE DEF filing, kept
    <3> QED
      BY <1>3, <3>1, <3>2, <3>3 DEF filing
  <2>6. k \in written
    BY <1>5 DEF Refiled
  <2> QED
    BY <2>5, <2>6 DEF Right, BucketsOf
<1> QED
  BY <1>4, <1>5

\* A library declares one grouping to a name.
LEMMA OneName ==
  ASSUME NEW L \in Libraries
  PROVE  /\ \A i \in L.indexes : i.name \in IndexNames /\ i \in Groupings
         /\ \A i, j \in L.indexes : i.name = j.name => i = j
BY LibraryAssumption DEF Groupings

\* Where a record is, and where it should be, follow from records and groupings.
LEMMA RightFrame ==
  ASSUME UNCHANGED <<fact, day>>
  PROVE  \A i, k : held'[i.name] = held[i.name] =>
           /\ Right(i, k)' <=> Right(i, k)
           /\ BucketsHolding(i, k)' = BucketsHolding(i, k)
BY DEF Right, BucketsHolding, BucketsOf

\* A stamp is something: no grouping's is that of a grouping never built.
LEMMA StampNotNone ==
  ASSUME NEW i \in Groupings, NEW d \in 1..MaxDay
  PROVE  Stamp(i, d) # None
<1>1. (IF i.clipped THEN d ELSE 0) \in 0..MaxDay
  BY LibraryAssumption
<1> QED
  BY <1>1, LibraryAssumption DEF Stamp

\* A step that touches neither records, groupings nor what is owed keeps them honest.
LEMMA HonestFrame ==
  ASSUME NEW age, Honest(age), UNCHANGED <<fact, lib, day, held, built, owed>>
  PROVE  Known(age)' /\ StampHonest' /\ \A i, k : Right(i, k)' <=> Right(i, k)
<1>1. Known(age)'
  BY DEF Honest, Known
<1>2. StampHonest'
  BY DEF Honest, StampHonest, BucketsHolding, BucketsOf
<1> QED
  BY <1>1, <1>2, RightFrame

\* A request: what it moves is owed, and what is not owed has not moved.
LEMMA HonestStart ==
  ASSUME NEW age, Honest(age), Exact',
         \/ \E batch \in Batches, asked \in BOOLEAN : PostFacts(batch, asked)
         \/ \E asked \in BOOLEAN : PostRun(asked)
  PROVE  Honest(age)'
<1>1. /\ UNCHANGED <<lib, day, held, built>> /\ plib' = lib /\ now' = day /\ pc' = "begin"
      /\ full' \/ \A k \in written' : KindOf[k] \notin ThroughKinds(lib)
  BY DEF PostFacts, PostRun, Start, tables
<1>2. TypeOK /\ TypeOK'
  BY DEF Honest, Exact
<1>3. /\ owed \subseteq owed' /\ written' \subseteq owed'
      /\ \A k \in written' : fact'[k] # None
      /\ \A k \in Keys \ owed' : fact'[k] = fact[k]
  <2>1. CASE \E asked \in BOOLEAN : PostRun(asked)
    BY <2>1 DEF PostRun, Start
  <2>2. CASE \E batch \in Batches, asked \in BOOLEAN : PostFacts(batch, asked)
    <3> PICK batch \in Batches, asked \in BOOLEAN : PostFacts(batch, asked)
      BY <2>2
    <3> DEFINE deleted == {k \in DOMAIN batch : batch[k] = None}
    <3>1. DOMAIN batch \subseteq Keys
      BY LibraryAssumption
    <3>2. written' = {k \in DOMAIN batch : batch[k] # None /\ batch[k] # fact[k]}
      BY DEF PostFacts, Start
    <3>3. owed' = owed \union written' \union deleted
      BY <3>2 DEF PostFacts
    <3>4. fact' = [k \in Keys |-> IF k \in DOMAIN batch THEN batch[k] ELSE fact[k]]
      BY DEF PostFacts
    <3> QED
      BY <3>1, <3>2, <3>3, <3>4
  <2> QED
    BY <2>1, <2>2
<1>4. Captured' /\ Batched' /\ Known(age)' /\ BatchFiled'
  BY <1>1, <1>3 DEF Captured, Batched, Known, BatchFiled, WarmLoops, Honest, ThroughKinds
<1>5. StampHonest'
  <2> SUFFICES ASSUME NEW i \in lib.indexes, built[i.name] = Stamp(i, day),
                      \A x \in owed' : KindOf[x] \notin i.through,
                      NEW k \in Keys \ owed', KindOf[k] = i.kind
               PROVE  BucketsHolding(i, k)' = IF fact'[k] = None THEN {} ELSE BucketsOf(i, day, k)'
    BY <1>1 DEF StampHonest, Stamp
  <2>1. BucketsHolding(i, k)' = BucketsHolding(i, k) /\ fact'[k] = fact[k]
    BY <1>1, <1>3 DEF BucketsHolding
  <2>2. BucketsHolding(i, k) = IF fact[k] = None THEN {} ELSE BucketsOf(i, day, k)
    BY <1>3 DEF Honest, StampHonest
  <2>3. fact[k] # None => Cut(i, day, k, fact') = Cut(i, day, k, fact)
    <3>1. i \in Groupings
      BY <1>2 DEF TypeOK, Groupings
    <3>2. \A x \in Keys : KindOf[x] \in i.through => fact'[x] = fact[x]
      BY <1>3
    <3> QED
      BY <1>2, <2>1, <3>1, <3>2, CutFrame DEF TypeOK
  <2> QED
    BY <1>1, <2>1, <2>2, <2>3 DEF BucketsOf
<1> QED
  BY <1>4, <1>5 DEF Honest

\* The steps that choose, count and compute rows, and the deaths among them.
LEMMA HonestQuiet ==
  ASSUME NEW age, Honest(age), Exact',
         \/ Begin \/ ReturnEarly \/ Applied \/ RecomputeEnds \/ ReindexEnds \/ RemoveDepartedEnds
         \/ BackfillEnds /\ pc # "gaps"
         \/ \E p \in plib.figures : Recompute(p) \/ RemoveDeparted(p) \/ Backfill(p) \/ SetPointer(p)
  PROVE  Honest(age)'
<1>1. /\ pc \notin {"idle", "done"} /\ pc' # "idle"
      /\ UNCHANGED <<fact, lib, day, held, built, owed, plib, now, written, full>>
  BY DEF Begin, ReturnEarly, Applied, RecomputeEnds, ReindexEnds, RemoveDepartedEnds, BackfillEnds,
         Recompute, RemoveDeparted, Backfill, SetPointer, tables, request, history
<1>2. Known(age)' /\ StampHonest' /\ \A i, k : Right(i, k)' <=> Right(i, k)
  BY <1>1, HonestFrame
<1>3. Captured' /\ Batched'
  BY <1>1 DEF Honest, Captured, Batched, ThroughKinds
<1>4. CASE Begin
  <2>1. ~cold' /\ pc' \in {"reindex"} \union WarmLoops =>
          pc' = "apply" /\ todo' = {i \in plib.indexes : \E k \in written : KindOf[k] = i.kind}
    BY <1>4 DEF Begin, WarmLoops
  <2>2. BatchFiled'
    BY <1>1, <2>1 DEF BatchFiled, Applying
  <2> QED
    BY <1>2, <1>3, <2>2 DEF Honest
<1>5. CASE ~Begin
  <2>1. /\ cold' = cold
        /\ ~cold /\ pc' \in {"reindex"} \union WarmLoops => pc \in {"reindex"} \union WarmLoops
        /\ Applying = Applying'
    BY <1>5 DEF ReturnEarly, Applied, RecomputeEnds, ReindexEnds, RemoveDepartedEnds, BackfillEnds,
                Recompute, RemoveDeparted, Backfill, SetPointer, WarmLoops, Applying,
                Honest, Exact, Branches, ColdLoops, progress
  <2>2. BatchFiled'
    BY <1>1, <1>2, <2>1 DEF Honest, BatchFiled
  <2> QED
    BY <1>2, <1>3, <2>2 DEF Honest
<1> QED
  BY <1>4, <1>5

\* A pass that is over owes nothing to its batch.
LEMMA HonestOver ==
  ASSUME NEW age, Honest(age), Exact',
         \/ Return \/ Die
         \/ \E p \in plib.figures : RecomputeDies(p) \/ RemoveDepartedDies(p) \/ BackfillDies(p)
  PROVE  Honest(age)'
<1>1. pc' = "idle" /\ written' = {} /\ UNCHANGED <<fact, lib, day, held, built, owed>>
  BY DEF Return, Die, RecomputeDies, RemoveDepartedDies, BackfillDies, Abandon, Over, tables
<1>2. Known(age)' /\ StampHonest'
  BY <1>1, HonestFrame
<1>3. Captured' /\ Batched' /\ BatchFiled'
  BY <1>1 DEF Captured, Batched, BatchFiled, WarmLoops
<1> QED
  BY <1>2, <1>3 DEF Honest

\* What the library no longer declares is dropped, rows and stamp.
LEMMA HonestDrop ==
  ASSUME NEW age, Honest(age), Exact', NEW n \in IndexNames, DropIndex(n)
  PROVE  Honest(age)'
<1>1. /\ pc = "begin" /\ pc' = "begin" /\ n \in Retired /\ plib = lib
      /\ UNCHANGED <<fact, lib, day, owed, plib, now, written, full>>
      /\ held' = [held EXCEPT ![n] = {}] /\ built' = [built EXCEPT ![n] = None]
      /\ TypeOK /\ lib \in Libraries
  BY DEF DropIndex, request, history, Honest, Captured, Exact, TypeOK
<1>2. \A i \in lib.indexes : held'[i.name] = held[i.name] /\ built'[i.name] = built[i.name]
  BY <1>1, OneName DEF Retired, TypeOK
<1>3. Captured' /\ Batched' /\ BatchFiled'
  BY <1>1 DEF Honest, Captured, Batched, BatchFiled, WarmLoops, ThroughKinds
<1>4. Known(age)'
  BY <1>1 DEF Honest, Known, TypeOK
<1>5. StampHonest'
  <2>1. \A i \in lib.indexes : \A k : BucketsHolding(i, k)' = BucketsHolding(i, k)
    BY <1>1, <1>2, RightFrame
  <2> QED
    BY <1>1, <1>2, <2>1 DEF Honest, StampHonest, BucketsOf
<1> QED
  BY <1>3, <1>4, <1>5 DEF Honest

\* A grouping's rows move, and its stamp with them or not at all, so that what
\* is not owed and reads as current is right.
LEMMA HonestFiling ==
  ASSUME NEW age \in [Libraries -> Nat], Honest(age), NEW i \in plib.indexes, pc # "idle",
         UNCHANGED <<fact, lib, day, owed>>,
         \A n \in IndexNames \ {i.name} : held'[n] = held[n],
         built' = [built EXCEPT ![i.name] = Stamp(i, now)] \/ built' = built,
         \A k \in Keys \ owed : KindOf[k] = i.kind =>
           Right(i, k)' \/ (built' = built /\ BucketsHolding(i, k)' = BucketsHolding(i, k))
  PROVE  Known(age)' /\ StampHonest'
<1>1. plib = lib /\ now = day /\ lib \in Libraries /\ day \in 1..MaxDay /\ TypeOK
  BY DEF Honest, Captured, Exact, TypeOK
<1>2. i.name \in IndexNames /\ \A j \in lib.indexes : j.name \in IndexNames /\ (j.name = i.name => i = j)
  BY <1>1, OneName
<1>3. ASSUME NEW n \in IndexNames
      PROVE  built'[n] = built[n] \/ (n = i.name /\ built'[n] = Stamp(i, day))
  BY <1>1 DEF TypeOK
<1>4. Known(age)'
  <2> SUFFICES ASSUME NEW n \in IndexNames, built'[n] # None
               PROVE  \E L \in Libraries : age[L] <= age[lib] /\ \E j \in L.indexes, d \in 1..day :
                        j.name = n /\ built'[n] = Stamp(j, d)
    BY DEF Known, Stamp
  <2>1. CASE built'[n] = built[n]
    BY <2>1 DEF Honest, Known
  <2>2. CASE built'[n] # built[n]
    <3>1. n = i.name /\ built'[n] = Stamp(i, day) /\ day \in 1..day
      BY <1>1, <1>3, <2>2, LibraryAssumption
    <3>2. age[lib] <= age[lib]
      BY <1>1
    <3> QED
      BY <1>1, <3>1, <3>2
  <2> QED
    BY <2>1, <2>2
<1>5. StampHonest'
  <2> SUFFICES ASSUME NEW j \in lib.indexes, built'[j.name] = Stamp(j, day),
                      \A x \in owed : KindOf[x] \notin j.through,
                      NEW k \in Keys \ owed, KindOf[k] = j.kind
               PROVE  Right(j, k)'
    BY DEF StampHonest, Stamp, Right
  <2>1. CASE j # i
    <3>1. held'[j.name] = held[j.name] /\ built'[j.name] = built[j.name]
      BY <1>2, <1>3, <2>1
    <3>2. Right(j, k)
      BY <3>1 DEF Honest, StampHonest, Right
    <3> QED
      BY <3>1, <3>2, RightFrame
  <2>2. CASE j = i /\ ~Right(i, k)'
    <3>1. built'[i.name] = built[i.name] /\ BucketsHolding(i, k)' = BucketsHolding(i, k)
      BY <2>2
    <3>2. Right(i, k)
      BY <2>2, <3>1 DEF Honest, StampHonest, Right
    <3> QED
      BY <2>2, <3>1, <3>2 DEF Right, BucketsOf
  <2> QED
    BY <2>1, <2>2
<1> QED
  BY <1>4, <1>5

\* The batch is filed in one grouping, wholly or in part.
LEMMA HonestApply ==
  ASSUME NEW age \in [Libraries -> Nat], Honest(age), Exact', NEW i \in plib.indexes,
         ApplyIndex(i) \/ ApplyDies(i)
  PROVE  Honest(age)'
<1>1. /\ pc = "apply" /\ UNCHANGED <<fact, lib, day, owed, built>> /\ i \in todo
      /\ TypeOK /\ plib \in Libraries /\ plib = lib /\ now = day /\ written \subseteq owed
  BY DEF ApplyIndex, ApplyDies, Abandon, Over, Foremost, history, Honest, Exact, TypeOK, Captured, Batched
<1>2. \A j \in plib.indexes : j.name \in IndexNames /\ (j.name = i.name => i = j)
  BY <1>1, OneName
<1>3. \A n \in IndexNames \ {i.name} : held'[n] = held[n]
  BY <1>1, <1>2 DEF ApplyIndex, ApplyDies, SetBuckets, TypeOK
<1>4. CASE ApplyIndex(i)
  <2>1. /\ held' = SetBuckets(i) /\ pc' = "apply" /\ todo' = todo \ {i}
        /\ UNCHANGED <<plib, now, written, full, cold>>
    BY <1>4 DEF ApplyIndex, request
  <2>2. \A k \in Keys : KindOf[k] = i.kind =>
          /\ k \in written => Right(i, k)'
          /\ k \notin written => BucketsHolding(i, k)' = BucketsHolding(i, k)
    BY <1>1, <2>1, ApplyRight DEF Honest, Batched
  <2>3. Known(age)' /\ StampHonest'
    <3>1. \A k \in Keys \ owed : KindOf[k] = i.kind => BucketsHolding(i, k)' = BucketsHolding(i, k)
      BY <1>1, <2>2
    <3> QED
      BY <1>1, <1>3, <3>1, HonestFiling
  <2>4. Captured' /\ Batched'
    BY <1>1, <2>1 DEF Honest, Captured, Batched, ThroughKinds
  <2>5. BatchFiled'
    <3> SUFFICES ASSUME ~cold, NEW j \in plib.indexes \ (todo \ {i}), NEW k \in written, KindOf[k] = j.kind
                 PROVE  Right(j, k)'
      BY <2>1 DEF BatchFiled, Applying
    <3>0. k \in Keys
      BY <1>1 DEF TypeOK
    <3>1. CASE j = i
      BY <2>2, <3>0, <3>1
    <3>2. CASE j # i
      <4>1. Right(j, k)
        BY <1>1, <3>2 DEF Honest, BatchFiled, Applying, WarmLoops
      <4>2. held'[j.name] = held[j.name]
        BY <1>2, <1>3, <3>2
      <4> QED
        BY <1>1, <4>1, <4>2, RightFrame
    <3> QED
      BY <3>1, <3>2
  <2> QED
    BY <2>3, <2>4, <2>5 DEF Honest
<1>5. CASE ApplyDies(i)
  <2>1. pc' = "idle" /\ written' = {}
    BY <1>5 DEF ApplyDies, Abandon, Over
  <2>2. held'[i.name] = {r \in held[i.name] : r \in SetBuckets(i)[i.name]}
    BY <1>1, <1>2, <1>5 DEF ApplyDies, TypeOK
  <2>3. \A r \in held[i.name] : r[1] \notin written => r \in SetBuckets(i)[i.name]
    BY <1>1, <1>2 DEF SetBuckets, Refiled, TypeOK
  <2>4. \A k \in Keys \ owed : BucketsHolding(i, k)' = BucketsHolding(i, k)
    <3> SUFFICES ASSUME NEW k \in Keys \ owed
                 PROVE  {x \in held'[i.name] : x[1] = k} = {x \in held[i.name] : x[1] = k}
      BY DEF BucketsHolding
    <3> QED
      BY <1>1, <2>2, <2>3
  <2>5. Known(age)' /\ StampHonest'
    BY <1>1, <1>3, <2>4, HonestFiling
  <2>6. Captured' /\ Batched' /\ BatchFiled'
    BY <2>1 DEF Captured, Batched, BatchFiled, WarmLoops
  <2> QED
    BY <2>5, <2>6 DEF Honest
<1> QED
  BY <1>4, <1>5

\* A grouping is rebuilt, stamped or not.
LEMMA HonestReindex ==
  ASSUME NEW age \in [Libraries -> Nat], Honest(age), Exact', NEW i \in plib.indexes,
         Reindex(i) \/ ReindexDies(i)
  PROVE  Honest(age)'
<1>1. /\ pc = "reindex" /\ UNCHANGED <<fact, lib, day, owed>> /\ held' = [held EXCEPT ![i.name] = Wanted(i, now)]
      /\ built' = [built EXCEPT ![i.name] = Stamp(i, now)] \/ built' = built
      /\ TypeOK /\ plib \in Libraries /\ plib = lib /\ now = day
  BY DEF Reindex, ReindexDies, Abandon, Over, history, Honest, Exact, TypeOK, Captured
<1>2. \A j \in plib.indexes : j.name \in IndexNames /\ (j.name = i.name => i = j)
  BY <1>1, OneName
<1>3. /\ \A n \in IndexNames \ {i.name} : held'[n] = held[n]
      /\ held'[i.name] = Wanted(i, day)
  BY <1>1, <1>2 DEF TypeOK
<1>4. \A k \in Keys : KindOf[k] = i.kind => Right(i, k)'
  <2>1. held'[i.name] = Wanted(i, day)'
    BY <1>1, <1>3, WantedFrame
  <2>2. FiledRight'
    BY WantedRight, PTL
  <2> QED
    BY <2>1, <2>2 DEF FiledRight
<1>5. Known(age)' /\ StampHonest'
  BY <1>1, <1>3, <1>4, HonestFiling
<1>6. CASE Reindex(i)
  <2>1. pc' = "reindex" /\ UNCHANGED <<plib, now, written, full, cold>>
    BY <1>6 DEF Reindex, request
  <2>2. Captured' /\ Batched'
    BY <1>1, <2>1 DEF Honest, Captured, Batched, ThroughKinds
  <2>3. BatchFiled'
    <3> SUFFICES ASSUME ~cold, NEW j \in plib.indexes, NEW k \in written, KindOf[k] = j.kind
                 PROVE  Right(j, k)'
      BY <2>1 DEF BatchFiled
    <3>0. k \in Keys
      BY <1>1 DEF TypeOK
    <3>1. CASE j = i
      BY <1>4, <3>0, <3>1
    <3>2. CASE j # i
      <4>1. Right(j, k)
        BY <1>1, <3>2 DEF Honest, BatchFiled, Applying
      <4>2. held'[j.name] = held[j.name]
        BY <1>2, <1>3, <3>2
      <4> QED
        BY <1>1, <4>1, <4>2, RightFrame
    <3> QED
      BY <3>1, <3>2
  <2> QED
    BY <1>5, <2>2, <2>3 DEF Honest
<1>7. CASE ReindexDies(i)
  <2>1. pc' = "idle" /\ written' = {}
    BY <1>7 DEF ReindexDies, Abandon, Over
  <2>2. Captured' /\ Batched' /\ BatchFiled'
    BY <2>1 DEF Captured, Batched, BatchFiled, WarmLoops
  <2> QED
    BY <1>5, <2>2 DEF Honest
<1> QED
  BY <1>6, <1>7

\* A pass that finishes has filed what it says it has.
LEMMA HonestEnds ==
  ASSUME NEW age, Honest(age), Exact', (BackfillEnds /\ pc = "gaps") \/ PointersEnd
  PROVE  Honest(age)'
<1>1. /\ pc \in {"gaps", "pointers"} /\ pc' = "done" /\ owed' = owed \ Filed /\ TypeOK
      /\ plib = lib /\ now = day /\ lib \in Libraries
      /\ UNCHANGED <<fact, lib, day, held, built, plib, now, written, full, cold>>
  BY DEF BackfillEnds, PointersEnd, tables, request, progress, Honest, Exact, TypeOK, Captured
<1>2. Captured' /\ Known(age)' /\ BatchFiled'
  BY <1>1 DEF Honest, Captured, Known, BatchFiled, WarmLoops
<1>3. pc = "gaps" => ~cold /\ ~full /\ Filed = written
  BY DEF Honest, Exact, Branches, WarmLoops, Filed
<1>4. pc = "pointers" => cold /\ Filed = IF full THEN Keys ELSE {}
  BY DEF Honest, Exact, Branches, ColdLoops, Filed
<1>5. StampHonest'
  <2> SUFFICES ASSUME NEW i \in lib.indexes, built[i.name] = Stamp(i, day),
                      \A x \in owed' : KindOf[x] \notin i.through,
                      NEW k \in Keys \ owed', KindOf[k] = i.kind
               PROVE  Right(i, k)
    BY <1>1 DEF StampHonest, Stamp, Right, BucketsHolding, BucketsOf
  <2>1. CASE pc = "gaps"
    <3>1. \A x \in owed : KindOf[x] \notin i.through
      BY <1>1, <1>3, <2>1 DEF Honest, Batched, ThroughKinds
    <3>2. CASE k \in written
      BY <1>1, <1>3, <2>1, <3>2 DEF Honest, BatchFiled, Applying, WarmLoops
    <3>3. CASE k \notin written
      BY <1>1, <1>3, <2>1, <3>1, <3>3 DEF Honest, StampHonest, Right
    <3> QED
      BY <3>2, <3>3
  <2>2. CASE pc = "pointers" /\ full
    <3>1. held[i.name] = Wanted(i, day)
      BY <1>1, <2>2 DEF Honest, Exact, Regrouped, ColdLoops
    <3> QED
      BY <3>1, WantedRight DEF FiledRight
  <2>3. CASE pc = "pointers" /\ ~full
    BY <1>1, <1>4, <2>3 DEF Honest, StampHonest, Right
  <2> QED
    BY <1>1, <2>1, <2>2, <2>3
<1>6. Batched'
  BY <1>1 DEF Honest, Batched, ThroughKinds
<1> QED
  BY <1>2, <1>5, <1>6 DEF Honest

\* A new library: what it declares and finds stamped, the last one declared.
LEMMA HonestTeach ==
  ASSUME NEW age \in [Libraries -> Nat], GoesForward(age), Honest(age), Exact',
         NEW L \in Libraries, Teach(L)
  PROVE  Honest(age)'
<1>1. /\ pc = "idle" /\ pc' = "idle" /\ <<lib, L>> \in Deploys /\ lib' = L /\ lib \in Libraries
      /\ UNCHANGED <<fact, day, held, built, owed, written>> /\ day \in 1..MaxDay
  BY DEF Teach, tables, request, history, Honest, Exact, TypeOK
<1>2. age[lib] <= age[L]
  BY <1>1 DEF GoesForward
<1>3. Captured' /\ BatchFiled' /\ Batched'
  BY <1>1 DEF Honest, Captured, BatchFiled, Batched, WarmLoops
<1>4. Known(age)'
  <2> SUFFICES ASSUME NEW n \in IndexNames, built[n] # None
               PROVE  \E M \in Libraries : age[M] <= age[L] /\ \E i \in M.indexes, d \in 1..day :
                        i.name = n /\ built[n] = Stamp(i, d)
    BY <1>1 DEF Known, Stamp
  <2>1. PICK M \in Libraries : age[M] <= age[lib] /\ \E i \in M.indexes, d \in 1..day :
                        i.name = n /\ built[n] = Stamp(i, d)
    BY DEF Honest, Known
  <2>2. age[M] <= age[L]
    BY <1>1, <1>2, <2>1
  <2> QED
    BY <2>1, <2>2
<1>5. StampHonest'
  <2> SUFFICES ASSUME NEW i \in L.indexes, built[i.name] = Stamp(i, day),
                      \A x \in owed : KindOf[x] \notin i.through,
                      NEW k \in Keys \ owed, KindOf[k] = i.kind
               PROVE  Right(i, k)
    BY <1>1 DEF StampHonest, Stamp, Right, BucketsHolding, BucketsOf
  <2>1. i.name \in IndexNames /\ i \in Groupings
    BY OneName
  <2>2. built[i.name] # None
    BY <1>1, <2>1, StampNotNone
  <2>3. PICK M \in Libraries :
          age[M] <= age[lib]
            /\ \E j \in M.indexes, d \in 1..day : j.name = i.name /\ built[i.name] = Stamp(j, d)
    BY <2>1, <2>2 DEF Honest, Known
  <2>4. i \in M.indexes
    BY <2>3 DEF Stamp
  <2>5. i \in lib.indexes
    BY <1>1, <1>2, <2>3, <2>4 DEF GoesForward
  <2> QED
    BY <2>5 DEF Honest, StampHonest, Right
<1> QED
  BY <1>3, <1>4, <1>5 DEF Honest

\* A new day: what reads as current on it was cut as it would be now.
LEMMA HonestDay ==
  ASSUME Timeless, NEW age \in [Libraries -> Nat], Honest(age), Exact', NewDay
  PROVE  Honest(age)'
<1>1. /\ pc = "idle" /\ pc' = "idle" /\ day' = day + 1 /\ day \in 1..MaxDay /\ day' \in 1..MaxDay
      /\ UNCHANGED <<fact, lib, held, built, owed, written>> /\ TypeOK /\ lib \in Libraries
  BY LibraryAssumption DEF NewDay, tables, request, history, Honest, Exact, TypeOK
<1>2. Captured' /\ BatchFiled' /\ Batched'
  BY <1>1 DEF Honest, Captured, BatchFiled, Batched, WarmLoops
<1>3. 1..day \subseteq 1..day'
  BY <1>1, LibraryAssumption
<1>4. Known(age)'
  BY <1>1, <1>3 DEF Honest, Known, Stamp
<1>5. StampHonest'
  <2> SUFFICES ASSUME NEW i \in lib.indexes, built[i.name] = Stamp(i, day'),
                      \A x \in owed : KindOf[x] \notin i.through,
                      NEW k \in Keys \ owed, KindOf[k] = i.kind
               PROVE  Right(i, k)'
    BY <1>1 DEF StampHonest, Stamp, Right
  <2>1. i.name \in IndexNames /\ i \in Groupings
    BY <1>1, OneName
  <2>2. ~i.clipped
    <3>0. built[i.name] # None
      BY <1>1, <2>1, StampNotNone
    <3>1. \E j, d : d \in 1..day /\ built[i.name] = Stamp(j, d)
      BY <2>1, <3>0 DEF Honest, Known
    <3>2. i.clipped => day' \in 1..day
      BY <1>1, <3>1, LibraryAssumption DEF Stamp
    <3> QED
      BY <1>1, <3>2, LibraryAssumption
  <2>3. Right(i, k)
    BY <2>2 DEF Honest, StampHonest, Right, Stamp
  <2>4. Cut(i, day', k, fact) = Cut(i, day, k, fact)
    BY <1>1, <2>1, <2>2 DEF Timeless, TypeOK
  <2>5. BucketsHolding(i, k)' = BucketsHolding(i, k)
    BY <1>1 DEF BucketsHolding
  <2> QED
    BY <1>1, <2>3, <2>4, <2>5 DEF Right, BucketsOf
<1> QED
  BY <1>2, <1>4, <1>5 DEF Honest

LEMMA HonestInit == ASSUME NEW age, Init PROVE Honest(age)
<1>1. Exact
  BY ExactInit
<1>2. Captured /\ Batched /\ Known(age) /\ BatchFiled
  BY DEF Init, Captured, Batched, Known, BatchFiled, WarmLoops
<1>3. StampHonest
  <2>1. \A i \in lib.indexes : i.name \in IndexNames /\ Stamp(i, day) # None
    BY <1>1, OneName, StampNotNone DEF Exact, TypeOK
  <2> QED
    BY <2>1 DEF Init, StampHonest
<1> QED
  BY <1>1, <1>2, <1>3 DEF Honest

LEMMA HonestStep ==
  ASSUME Timeless, NEW age \in [Libraries -> Nat], GoesForward(age), Honest(age), [Next]_vars
  PROVE  Honest(age)'
<1>1. Exact'
  BY ExactStep DEF Honest
<1>2. CASE UNCHANGED vars
  <2>1. UNCHANGED <<fact, lib, day, held, built, owed, pc, plib, now, written, full, cold, todo>>
    BY <1>2 DEF vars, tables, request, progress, history
  <2>2. Known(age)' /\ StampHonest' /\ \A i, k : Right(i, k)' <=> Right(i, k)
    BY <2>1, HonestFrame
  <2>3. Captured' /\ Batched' /\ BatchFiled'
    BY <2>1, <2>2 DEF Honest, Captured, Batched, BatchFiled, Applying, ThroughKinds
  <2> QED
    BY <1>1, <2>2, <2>3 DEF Honest
<1>3. CASE \/ \E batch \in Batches, asked \in BOOLEAN : PostFacts(batch, asked)
           \/ \E asked \in BOOLEAN : PostRun(asked)
  BY <1>1, <1>3, HonestStart
<1>4. CASE PassStep
  <2>1. CASE \E n \in IndexNames : DropIndex(n)
    BY <1>1, <2>1, HonestDrop
  <2>2. CASE \E i \in plib.indexes : ApplyIndex(i) \/ Reindex(i)
    BY <1>1, <2>2, HonestApply, HonestReindex
  <2>3. CASE (BackfillEnds /\ pc = "gaps") \/ PointersEnd
    BY <1>1, <2>3, HonestEnds
  <2>4. CASE Return
    BY <1>1, <2>4, HonestOver
  <2>5. CASE \/ Begin \/ ReturnEarly \/ Applied \/ RecomputeEnds \/ ReindexEnds \/ RemoveDepartedEnds
             \/ BackfillEnds /\ pc # "gaps"
             \/ \E p \in plib.figures : Recompute(p) \/ RemoveDeparted(p) \/ Backfill(p) \/ SetPointer(p)
    BY <1>1, <2>5, HonestQuiet
  <2> QED
    BY <1>4, <2>1, <2>2, <2>3, <2>4, <2>5 DEF PassStep
<1>5. CASE Death
  <2>1. CASE \E i \in plib.indexes : ApplyDies(i) \/ ReindexDies(i)
    BY <1>1, <2>1, HonestApply, HonestReindex
  <2>2. CASE Die \/ \E p \in plib.figures : RecomputeDies(p) \/ RemoveDepartedDies(p) \/ BackfillDies(p)
    BY <1>1, <2>2, HonestOver
  <2> QED
    BY <1>5, <2>1, <2>2 DEF Death
<1>6. CASE \E L \in Libraries : Teach(L)
  BY <1>1, <1>6, HonestTeach
<1>7. CASE NewDay
  BY <1>1, <1>7, HonestDay
<1> QED
  BY <1>2, <1>3, <1>4, <1>5, <1>6, <1>7 DEF Next

-----------------------------------------------------------------------------
(* The invariant behind rule 4: what the warm pass follows.                *)

\* A row's subject is there, and so is its dimension.
Alive(p, c) ==
  /\ c \in Coords /\ c[1] \in Roster(p.scope)
  /\ (p.across # None /\ c[2] # None) => c[2] \in Roster(p.across)

\* The passes it speaks of: warm, over tables that were what they claim, ...
Warming ==
  ~cold /\ ~full /\ sound /\ Pending = {} /\ \A p \in plib.figures : Followed(p)

\* ... where every bucket a rebuild would file belongs to a subject there is, ...
Homed ==
  \A p \in plib.figures : p.scopeIndex # None =>
    \A r \in Wanted(p.scopeIndex, now) :
      r[2][1] \in Roster(p.scope) /\ (p.across # None => r[2][2] \in Roster(p.across))

\* ... and, so far, no closing sweep has moved what a computed row reads.
Following == Warming /\ Homed /\ ~late

Underway == pc \notin {"idle", "done"}
Early == {"begin", "apply", "recompute"}
Late == {"heal", "sweep", "gaps"}

\* The figures it follows: the others it recomputes outright.
Quiet == plib.figures \ (IF pc = "begin" THEN Healed(Stale) ELSE rebuild)

\* They read none it recomputes outright, and no grouping it rebuilds.
Apart ==
  \A p \in Quiet :
    /\ p.sources \subseteq Quiet
    /\ pc \in Early => Indexes(p) \intersect Stale = {}
    /\ pc = "reindex" => Indexes(p) \intersect todo = {}

\* The written records are there, and the groupings file every record where it
\* belongs, but for the written ones in a grouping that is still to be filed.
Landed == \A k \in written : fact[k] # None
Unfiled ==
  IF pc = "begin" THEN {i \in plib.indexes : \E k \in written : KindOf[k] = i.kind}
  ELSE IF pc = "apply" THEN todo ELSE {}
Due(i, k) == IF KindOf[k] = i.kind /\ fact[k] # None THEN BucketsOf(i, now, k) ELSE {}
InPlace ==
  /\ pc \in Early => \A i \in plib.indexes \ Stale : \A k \in Keys :
       (i \in Unfiled /\ k \in written /\ KindOf[k] = i.kind) \/ BucketsHolding(i, k) = Due(i, k)
  /\ pc = "reindex" => \A i \in plib.indexes \ todo : held[i.name] = Wanted(i, now)
  /\ pc \in Late => \A i \in plib.indexes : held[i.name] = Wanted(i, now)
Based == Landed /\ Apart /\ InPlace

\* The buckets and the rows are of subjects there are.
Housed ==
  \A p \in plib.figures : p.scopeIndex # None => \A r \in held[p.scopeIndex.name] :
    /\ Alive(p, r[2])
    /\ p \in Quiet => (p.grain => r[2][2] # None) /\ (p.scopeIndex \in Own => r[2][1] = r[1])
Peopled ==
  /\ \A p \in plib.figures : \A c \in Subjects(p) : Alive(p, c)
  /\ \A t \in touched : Alive(t[1], t[2])

\* What is marked and still to be recomputed, and what is still to be marked.
Marked(p, c) == pc \in Early /\ <<p, c>> \in touched /\ (pc = "recompute" => p \in left)
Unmarked(p, c) ==
  /\ pc \in {"begin", "apply"} /\ p.scopeIndex # None
  /\ \E k \in written : KindOf[k] \in p.fields /\ k \in Members(p, c) \union {c[1]}

\* Every row it follows is the one a rebuild would give, or is so accounted for;
\* no followed row outlives its bucket; and none is missing where nothing landed.
Accounted ==
  pc # "gaps" => \A p \in Quiet : \A c \in ScopesOf(p) \intersect Subjects(p) :
    value[p][c] = Evaluate(p, c) \/ Marked(p, c) \/ Unmarked(p, c)
Lasting ==
  pc # "gaps" => \A p \in Quiet : \A c \in Subjects(p) :
    p.grain => c \in BucketKeys(p.scopeIndex) \/ Marked(p, c)
Complete ==
  pc # "gaps" /\ ~wrote =>
    written = {} /\ touched = {} /\ \A p \in Quiet : ScopesOf(p) \subseteq Subjects(p)

\* What the closing loops have been through is right, and they keep it so.
Righted ==
  /\ pc = "heal" => \A p \in rebuild \ left : Fresh(p)
  /\ pc = "sweep" => \A p \in rebuild : Fresh(p) /\ (p \in left \/ Living(p))
  /\ pc = "gaps" => \A p \in plib.figures :
       /\ Living(p)
       /\ \A c \in ScopesOf(p) \intersect Subjects(p) : value[p][c] = Evaluate(p, c)
       /\ ~wrote => ScopesOf(p) \subseteq Subjects(p)
Sorted ==
  /\ pc = "recompute" => \A p \in plib.figures \ left, q \in left : p.depth <= q.depth
  /\ pc = "heal" => \A p \in rebuild \ left, q \in left : p.depth <= q.depth
  /\ pc \in {"heal", "sweep"} => left \subseteq rebuild
Chased == Housed /\ Peopled /\ Accounted /\ Lasting /\ Complete /\ Righted /\ Sorted

Warm ==
  /\ Exact
  /\ Underway /\ ~cold /\ pc # "begin" => Pending = {}
  /\ pc = "begin" => ~cold
  /\ Underway /\ Warming => Based
  /\ Underway /\ Following => Chased
  /\ WarmPassExact

-----------------------------------------------------------------------------
(* What the warm pass leaves alone.                                        *)

\* A figure that is not recomputed outright is over no stale grouping, and reads
\* no figure that is.
HealedApart ==
  TypeOK => \A stale : \A p \in plib.figures \ Healed(stale) :
    Indexes(p) \intersect stale = {} /\ p.sources \subseteq plib.figures \ Healed(stale)

LEMMA HealedReaders == HealedApart
<1> SUFFICES ASSUME TypeOK, NEW stale
             PROVE  \A p \in plib.figures \ Healed(stale) :
                      /\ Indexes(p) \intersect stale = {}
                      /\ p.sources \subseteq plib.figures \ Healed(stale)
  BY DEF HealedApart
<1> DEFINE F == plib.figures
           Hit(f, p) == Indexes(p) \intersect stale # {} \/ \E q \in p.sources : f[q]
           over == CHOOSE f : f = [p \in F |-> Hit(f, p)]
           Closed(S) == \A p \in F : Indexes(p) \intersect stale # {} \/ p.sources \intersect S # {} => p \in S
           least == {p \in F : \A S \in SUBSET F : Closed(S) => p \in S}
           first == [p \in F |-> p \in least]
<1>1. Healed(stale) = {p \in F : over[p]}
  BY DEF Healed
<1>2. \A p \in F : p.sources \subseteq F
  BY LibraryAssumption DEF TypeOK
<1>3. Closed(least)
  OBVIOUS
<1>4. ASSUME NEW p \in F
      PROVE  p \in least <=> Hit(first, p)
  <2>1. ASSUME Hit(first, p)
        PROVE  p \in least
    BY <1>2, <1>3, <2>1
  <2>2. ASSUME p \in least, ~Hit(first, p)
        PROVE  FALSE
    <3>1. p.sources \intersect least = {} /\ Indexes(p) \intersect stale = {}
      BY <1>2, <2>2
    <3>2. Closed(least \ {p})
      BY <1>3, <3>1
    <3> QED
      BY <2>2, <3>2
  <2> HIDE DEF least, Hit
  <2> QED
    BY <2>1, <2>2
<1>5. first = [p \in F |-> Hit(first, p)]
  <2> DEFINE g == [p \in F |-> Hit(first, p)]
  <2>1. \A p \in F : g[p] <=> Hit(first, p)
    <3> HIDE DEF first
    <3> QED
      OBVIOUS
  <2>2. \A p \in F : first[p] <=> p \in least
    <3> HIDE DEF least
    <3> QED
      OBVIOUS
  <2>3. g \in [F -> BOOLEAN] /\ first \in [F -> BOOLEAN]
    <3> HIDE DEF least
    <3> QED
      OBVIOUS
  <2>4. \A p \in F : g[p] <=> first[p]
    <3> HIDE DEF g, first, least, Hit, F
    <3> QED
      BY <1>4, <2>1, <2>2
  <2>5. \A p \in F : g[p] = first[p]
    <3> HIDE DEF g, first, F
    <3> QED
      BY <2>3, <2>4
  <2>6. g = first
    <3> HIDE DEF g, first, F
    <3> QED
      BY <2>3, <2>5
  <2> QED
    BY <2>6
<1>6. over = [p \in F |-> Hit(over, p)]
  <2> HIDE DEF first
  <2> QED
    BY <1>5
<1>7. \A p \in F : over[p] <=> Hit(over, p)
  <2> HIDE DEF over
  <2> QED
    BY <1>6
<1> QED
  <2> HIDE DEF over
  <2> QED
    BY <1>1, <1>2, <1>7

\* What a grouping holds for a record, after a rebuild and after filing the batch.
HoldsWanted ==
  \A i, d : \A k \in Keys : held[i.name] = Wanted(i, d) =>
    BucketsHolding(i, k) = IF KindOf[k] = i.kind /\ fact[k] # None THEN BucketsOf(i, d, k) ELSE {}

LEMMA WantedHolds == HoldsWanted
<1> SUFFICES ASSUME NEW i, NEW d, NEW k \in Keys, held[i.name] = Wanted(i, d)
             PROVE  BucketsHolding(i, k) =
                      IF KindOf[k] = i.kind /\ fact[k] # None THEN BucketsOf(i, d, k) ELSE {}
  BY DEF HoldsWanted
<1>1. BucketsHolding(i, k) = {r[2] : r \in {x \in Wanted(i, d) : x[1] = k}}
  BY DEF BucketsHolding
<1>2. CASE ~(KindOf[k] = i.kind /\ fact[k] # None)
  <2>1. \A x \in Wanted(i, d) : x[1] # k
    BY <1>2 DEF Wanted, Filing, Roster
  <2> QED
    BY <1>1, <1>2, <2>1
<1>3. CASE KindOf[k] = i.kind /\ fact[k] # None
  <2>1. k \in Roster(i.kind)
    BY <1>3 DEF Roster
  <2>2. \A b \in BucketsOf(i, d, k) : <<k, b>> \in Wanted(i, d)
    BY <2>1 DEF Wanted, Filing
  <2>3. \A x \in Wanted(i, d) : x[1] = k => x[2] \in BucketsOf(i, d, k)
    BY DEF Wanted, Filing
  <2>4. \A b \in BucketsOf(i, d, k) : <<k, b>>[1] = k /\ <<k, b>>[2] = b
    OBVIOUS
  <2> QED
    BY <1>1, <1>3, <2>2, <2>3, <2>4
<1> QED
  BY <1>2, <1>3

\* And a grouping that holds every record so is what a rebuild would leave.
LEMMA HeldIsWanted ==
  ASSUME TypeOK, NEW i \in plib.indexes, \A k \in Keys : BucketsHolding(i, k) = Due(i, k)
  PROVE  held[i.name] = Wanted(i, now)
<1>1. held[i.name] \subseteq Keys \X Coords
  BY LibraryAssumption DEF TypeOK
<1>2. \A r \in held[i.name] : r \in Wanted(i, now)
  <2> SUFFICES ASSUME NEW r \in held[i.name]
               PROVE  r \in Wanted(i, now)
    OBVIOUS
  <2>1. r = <<r[1], r[2]>> /\ r[1] \in Keys
    BY <1>1
  <2>2. r[2] \in BucketsHolding(i, r[1])
    BY DEF BucketsHolding
  <2>3. r[2] \in Due(i, r[1])
    BY <2>1, <2>2
  <2>4. r[1] \in Roster(i.kind) /\ r[2] \in BucketsOf(i, now, r[1])
    BY <2>1, <2>3 DEF Due, Roster
  <2> QED
    BY <2>1, <2>4 DEF Wanted, Filing
<1>3. \A r \in Wanted(i, now) : r \in held[i.name]
  <2> SUFFICES ASSUME NEW k \in Roster(i.kind), NEW b \in BucketsOf(i, now, k)
               PROVE  <<k, b>> \in held[i.name]
    BY DEF Wanted, Filing
  <2>1. k \in Keys /\ b \in Due(i, k)
    BY DEF Due, Roster
  <2>2. b \in BucketsHolding(i, k)
    BY <2>1
  <2>3. PICK r \in held[i.name] : r[1] = k /\ r[2] = b
    BY <2>2 DEF BucketsHolding
  <2> QED
    BY <1>1, <2>3
<1> QED
  BY <1>2, <1>3

LEMMA ApplyHolds ==
  ASSUME TypeOK, NEW i \in plib.indexes, held'[i.name] = SetBuckets(i)[i.name], NEW k \in Keys
  PROVE  BucketsHolding(i, k)' =
           IF k \in written /\ KindOf[k] = i.kind THEN BucketsOf(i, now, k) ELSE BucketsHolding(i, k)
<1>1. i.name \in IndexNames
  BY LibraryAssumption DEF TypeOK
<1> DEFINE kept == {r \in held[i.name] : r[1] \notin Refiled(i)}
           filing == Filing(i, now, Refiled(i))
<1>2. held'[i.name] = kept \union filing
  BY <1>1 DEF SetBuckets, TypeOK
<1>3. BucketsHolding(i, k)' = {r[2] : r \in {x \in kept \union filing : x[1] = k}}
  BY <1>2 DEF BucketsHolding
<1>4. CASE k \notin Refiled(i)
  <2>1. \A x \in filing : x[1] # k
    BY <1>4 DEF Filing
  <2>2. {x \in kept \union filing : x[1] = k} = {x \in held[i.name] : x[1] = k}
    BY <1>4, <2>1
  <2>3. BucketsHolding(i, k)' = BucketsHolding(i, k)
    BY <1>3, <2>2 DEF BucketsHolding
  <2>4. k \in written /\ KindOf[k] = i.kind => BucketsHolding(i, k) = BucketsOf(i, now, k)
    BY <1>4 DEF Refiled
  <2> QED
    BY <2>3, <2>4
<1>5. CASE k \in Refiled(i)
  <2>1. \A x \in kept : x[1] # k
    BY <1>5
  <2>2. \A b \in BucketsOf(i, now, k) : <<k, b>> \in filing
    BY <1>5 DEF Filing
  <2>3. \A x \in filing : x[1] = k => x[2] \in BucketsOf(i, now, k)
    BY DEF Filing
  <2>4. \A b \in BucketsOf(i, now, k) : <<k, b>>[1] = k /\ <<k, b>>[2] = b
    OBVIOUS
  <2>5. {x \in kept \union filing : x[1] = k} = {x \in filing : x[1] = k}
    BY <2>1
  <2>6. \A b \in BucketsOf(i, now, k) : b \in {r[2] : r \in {x \in filing : x[1] = k}}
    BY <2>2, <2>4
  <2>7. \A b \in {r[2] : r \in {x \in filing : x[1] = k}} : b \in BucketsOf(i, now, k)
    BY <2>3
  <2>8. BucketsHolding(i, k)' = BucketsOf(i, now, k)
    <3> HIDE DEF filing, kept
    <3> QED
      BY <1>3, <2>5, <2>6, <2>7
  <2> QED
    BY <1>5, <2>8 DEF Refiled
<1> QED
  BY <1>4, <1>5

-----------------------------------------------------------------------------
(* What a followed figure's rows are, and what moves them.                 *)

\* While no row has outlived its subject, the subjects a followed figure should
\* have are its grouping's buckets, or the records of its kind.
Reach(p) ==
  IF p.scopeIndex # None /\ (p.grain \/ p.across # None)
  THEN {c \in BucketKeys(p.scopeIndex) :
          c[1] \in Roster(p.scope) /\ (p.across # None => c[2] \in Roster(p.across))}
  ELSE {Bare(k) : k \in Roster(p.scope)}
ScopesReach ==
  \A L \in Libraries :
    (\A p \in L.figures : \A c \in Subjects(p) : c[1] \in Roster(p.scope)) =>
      \A p \in L.figures : Followed(p) => ScopesOf(p) = Reach(p)

LEMMA ScopesAreReach == ScopesReach
<1> SUFFICES ASSUME NEW L \in Libraries,
                    \A p \in L.figures : \A c \in Subjects(p) : c[1] \in Roster(p.scope),
                    NEW p \in L.figures, Followed(p)
             PROVE  ScopesOf(p) = Reach(p)
  BY DEF ScopesReach
<1>1. CASE p.scopeIndex # None
  BY <1>1 DEF ScopesOf, Reach
<1>2. CASE p.scopeIndex = None
  <2>1. ~p.grain
    BY <1>2 DEF Followed
  <2>2. \A q \in p.sources : q \in L.figures /\ q.scope = p.scope
    BY <1>2, LibraryAssumption, ShapeAssumption
  <2>3. \A c \in UNION {Subjects(q) : q \in p.sources} : c[1] \in Roster(p.scope)
    BY <2>2
  <2>4. {SubjectOf(c) : c \in UNION {Subjects(q) : q \in p.sources}} \subseteq {Bare(k) : k \in Roster(p.scope)}
    BY <2>3 DEF SubjectOf
  <2> QED
    BY <1>2, <2>1, <2>4 DEF ScopesOf, Reach
<1> QED
  BY <1>1, <1>2

\* So they are alive where the buckets are.
LEMMA ReachAlive ==
  ASSUME TypeOK, Housed, NEW p \in plib.figures, NEW c \in Reach(p)
  PROVE  Alive(p, c)
<1>1. CASE p.scopeIndex # None /\ (p.grain \/ p.across # None)
  <2>1. c \in BucketKeys(p.scopeIndex)
    BY <1>1 DEF Reach
  <2> QED
    BY <1>1, <2>1 DEF BucketKeys, Housed
<1>2. CASE ~(p.scopeIndex # None /\ (p.grain \/ p.across # None))
  <2>1. PICK k \in Roster(p.scope) : c = Bare(k)
    BY <1>2 DEF Reach
  <2> QED
    BY <2>1, BareCoord DEF Alive, Roster, Bare
<1> QED
  BY <1>1, <1>2

LEMMA ReachFrame ==
  ASSUME NEW p, \A kind : Roster(kind)' = Roster(kind),
         p.scopeIndex # None => BucketKeys(p.scopeIndex)' = BucketKeys(p.scopeIndex)
  PROVE  Reach(p)' = Reach(p)
BY DEF Reach

\* A row follows from its members, the records it reads, its parts, and the
\* buckets it spreads over.
LEMMA ReadsDecide ==
  ASSUME NEW p, NEW c, Members(p, c)' = Members(p, c), Parts(p, c)' = Parts(p, c),
         \A m \in Members(p, c) \union ({c[1]} \ {None}) :
           KindOf[m] \in p.fields => fact'[m] = fact[m],
         p.form = "spread" =>
           {b \in BucketKeys(p.scopeIndex) : b[1] = c[1]}'
             = {b \in BucketKeys(p.scopeIndex) : b[1] = c[1]}
  PROVE  Evaluate(p, c)' = Evaluate(p, c)
<1> DEFINE of == {m \in Members(p, c) \union ({c[1]} \ {None}) : KindOf[m] \in p.fields}
<1>1. of' = of
  OBVIOUS
<1>2. {<<k, fact[k]>> : k \in of}' = {<<k, fact[k]>> : k \in of}
  BY <1>1
<1>3. Reads(p, c)' = Reads(p, c)
  BY <1>2 DEF Reads
<1> QED
  BY <1>3 DEF Evaluate, Answer

\* The parts are the same when no row at their addresses has moved.
Under(a, r) == IF a[2] = None THEN r[1] = a[1] ELSE r = a

LEMMA PartsStand ==
  ASSUME NEW p, NEW c, Members(p, c)' = Members(p, c),
         \A q \in p.sources : \A a \in PartAddresses(p, c) : \A r :
           Under(a, r) => r \notin Moved(value[q], value'[q])
  PROVE  Parts(p, c)' = Parts(p, c)
<1>1. PartAddresses(p, c)' = PartAddresses(p, c)
  BY DEF PartAddresses
<1> DEFINE At(q, a) == {<<q.name, r, value[q][r].number>> : r \in PartsUnder(q, a)}
<1>2. ASSUME NEW q \in p.sources, NEW a \in PartAddresses(p, c)
      PROVE  At(q, a)' = At(q, a)
  <2>1. \A r : Under(a, r) =>
          /\ r \in DOMAIN value[q] <=> r \in DOMAIN value'[q]
          /\ r \in DOMAIN value[q] => value'[q][r].number = value[q][r].number
    BY <1>2 DEF Moved
  <2>2. PartsUnder(q, a) = {r \in DOMAIN value[q] : value[q][r].number # Null /\ Under(a, r)}
    BY DEF PartsUnder, Subjects, Under
  <2>3. PartsUnder(q, a)' = {r \in DOMAIN value'[q] : value'[q][r].number # Null /\ Under(a, r)}
    BY DEF PartsUnder, Subjects, Under
  <2>4. PartsUnder(q, a)' = PartsUnder(q, a)
    BY <2>1, <2>2, <2>3
  <2>5. \A r \in PartsUnder(q, a) : value'[q][r].number = value[q][r].number
    BY <2>1, <2>2
  <2> QED
    BY <2>4, <2>5
<1>3. Parts(p, c)' = UNION {At(q, a)' : q \in p.sources, a \in PartAddresses(p, c)}
  BY <1>1 DEF Parts
<1>4. Parts(p, c) = UNION {At(q, a) : q \in p.sources, a \in PartAddresses(p, c)}
  BY DEF Parts
<1> HIDE DEF At
<1> QED
  BY <1>2, <1>3, <1>4

\* A followed figure's row is among those its source's moved row marks.
LEMMA ReaderReached ==
  ASSUME NEW p \in plib.figures, plib \in Libraries, Followed(p), NEW q \in p.sources,
         NEW c \in Reach(p), p.grain => c[2] # None,
         NEW a \in PartAddresses(p, c), NEW r, Under(a, r)
  PROVE  c \in ReaderKeys(p, q, r)
<1>1. p.across = None
  BY DEF Followed
<1>2. CASE ~p.grain
  <2>1. p.form \notin {"total", "spread"}
    BY <1>2 DEF Followed
  <2>2. a = c
    BY <2>1 DEF PartAddresses
  <2>3. PICK k : c = Bare(k)
    BY <1>1, <1>2 DEF Reach
  <2>4. r[1] = c[1] /\ c = Bare(c[1])
    BY <2>2, <2>3 DEF Under, Bare
  <2> QED
    BY <1>2, <2>4 DEF ReaderKeys, SubjectOf
<1>3. CASE p.grain
  <2>1. p.scopeIndex # None /\ c[2] # None
    BY <1>3 DEF Followed
  <2>2. c \in BucketKeys(p.scopeIndex)
    BY <1>3, <2>1 DEF Reach
  <2>3. CASE p.form = "total"
    <3>1. q.grain /\ p.scope # q.scope
      BY <2>3 DEF Followed
    <3>2. r[2] = c[2]
      BY <2>1, <2>3 DEF PartAddresses, Under
    <3> QED
      BY <1>3, <2>1, <2>2, <3>1, <3>2 DEF ReaderKeys
  <2>4. CASE p.form = "spread"
    <3>1. ~q.grain
      BY <2>4 DEF Followed
    <3>2. r[1] = c[1]
      BY <2>4 DEF PartAddresses, Under, SubjectOf, Bare
    <3> QED
      BY <1>3, <2>1, <2>2, <3>1, <3>2 DEF ReaderKeys
  <2>5. CASE p.form \notin {"total", "spread"}
    <3>1. r = c /\ p.scope = q.scope
      BY <2>1, <2>5 DEF PartAddresses, Under, Followed
    <3> QED
      BY <1>3, <2>1, <2>2, <3>1 DEF ReaderKeys
  <2> QED
    BY <2>3, <2>4, <2>5
<1> QED
  BY <1>2, <1>3

\* What a moved row marks is alive.
LEMMA ReaderAlive ==
  ASSUME TypeOK, Housed, NEW p \in plib.figures, Followed(p), NEW q \in p.sources,
         NEW r, Alive(q, r), NEW c \in ReaderKeys(p, q, r)
  PROVE  Alive(p, c)
<1>1. p.across = None /\ (p.scopeIndex = None => ~p.grain)
  BY DEF Followed
<1>2. CASE ~p.grain
  <2>1. q.scope = p.scope /\ c = Bare(r[1])
    BY <1>2 DEF Followed, ReaderKeys, SubjectOf
  <2> QED
    BY <1>1, <2>1, BareCoord DEF Alive, Roster, Bare
<1>3. CASE p.grain /\ q.grain /\ p.scope = q.scope
  BY <1>1, <1>3 DEF Alive, ReaderKeys
<1>4. CASE p.grain /\ ~(q.grain /\ p.scope = q.scope)
  <2>1. p.scopeIndex # None /\ c \in BucketKeys(p.scopeIndex)
    BY <1>1, <1>4 DEF ReaderKeys
  <2> QED
    BY <2>1 DEF BucketKeys, Housed
<1> QED
  BY <1>2, <1>3, <1>4

-----------------------------------------------------------------------------
(* The steps of a pass, one kind at a time.                                *)

\* A pass keeps to its request, and the facts stand still.
Steady == UNCHANGED <<fact, plib, now, written, wrote, full, sound>>

LEMMA RosterFrame ==
  ASSUME UNCHANGED fact
  PROVE  \A kind : Roster(kind)' = Roster(kind)
BY DEF Roster

LEMMA HealedFrame ==
  ASSUME UNCHANGED <<plib, now>>, \A i \in plib.indexes : built'[i.name] = built[i.name]
  PROVE  Stale' = Stale /\ Healed(Stale)' = Healed(Stale)
<1>1. Stale' = Stale
  BY DEF Stale
<1> DEFINE over(L, S) == CHOOSE f : f = [p \in L.figures |->
                           Indexes(p) \intersect S # {} \/ \E q \in p.sources : f[q]]
<1>2. Healed(Stale) = {p \in plib.figures : over(plib, Stale)[p]}
  BY DEF Healed
<1>3. Healed(Stale)' = {p \in plib'.figures : over(plib', Stale')[p]}
  BY DEF Healed
<1> HIDE DEF over
<1> QED
  BY <1>1, <1>2, <1>3

\* The passes followed are those that were followed so far.
LEMMA FollowedSoFar ==
  ASSUME Steady, UNCHANGED <<pointer, cold>>
  PROVE  /\ Warming' <=> Warming
         /\ Homed' <=> Homed
         /\ (late => late') => (Following' => Following)
<1>1. Warming' <=> Warming
  BY DEF Warming, Steady, Pending
<1>2. \A i : Wanted(i, now)' = Wanted(i, now)
  BY WantedFrame DEF Steady
<1>3. Homed' <=> Homed
  BY <1>2, RosterFrame DEF Homed, Steady
<1> QED
  BY <1>1, <1>3 DEF Following

\* A step that files nothing, in a loop it does not end.
LEMMA BasedFrame ==
  ASSUME Based, Steady, UNCHANGED <<pc, rebuild, todo>>,
         \A i \in plib.indexes : held'[i.name] = held[i.name] /\ built'[i.name] = built[i.name]
  PROVE  Based' /\ Quiet' = Quiet
<1>1. Stale' = Stale /\ Quiet' = Quiet
  BY HealedFrame DEF Quiet, Steady
<1>2. Apart'
  BY <1>1 DEF Based, Apart
<1>3. \A i : Wanted(i, now)' = Wanted(i, now)
  BY WantedFrame DEF Steady
<1>4. \A i \in plib.indexes : \A k : /\ BucketsHolding(i, k)' = BucketsHolding(i, k)
                                     /\ Due(i, k)' = Due(i, k)
  BY DEF BucketsHolding, Due, BucketsOf, Steady
<1>5. Unfiled' = Unfiled
  BY DEF Unfiled, Steady
<1>6. InPlace'
  <2>1. plib' = plib /\ written' = written
    BY DEF Steady
  <2> QED
    BY <1>1, <1>3, <1>4, <1>5, <2>1 DEF Based, InPlace
<1>7. Landed'
  BY DEF Based, Landed, Steady
<1> QED
  BY <1>1, <1>2, <1>6, <1>7 DEF Based

\* Where a figure's groupings, sources and rows stay, so does all that is said of it.
LEMMA StandFrame ==
  ASSUME TypeOK, Steady, NEW p \in plib.figures,
         \A i \in Indexes(p) : held'[i.name] = held[i.name],
         value'[p] = value[p], \A q \in p.sources : value'[q] = value[q]
  PROVE  /\ ScopesOf(p)' = ScopesOf(p) /\ Subjects(p)' = Subjects(p)
         /\ \A c : Evaluate(p, c)' = Evaluate(p, c) /\ Members(p, c)' = Members(p, c)
         /\ p.scopeIndex # None => BucketKeys(p.scopeIndex)' = BucketKeys(p.scopeIndex)
<1>1. plib \in Libraries /\ UNCHANGED fact
  BY DEF TypeOK, Steady
<1>2. ScopesOf(p)' = ScopesOf(p) /\ \A c : Evaluate(p, c)' = Evaluate(p, c)
  BY <1>1, FootFrame
<1>3. \A c : Members(p, c)' = Members(p, c)
  <2>1. p.scopeIndex # None => held'[p.scopeIndex.name] = held[p.scopeIndex.name]
    BY DEF Indexes
  <2>2. \A f \in p.filters : held'[f.name] = held[f.name]
    BY DEF Indexes
  <2> QED
    BY <2>1, <2>2 DEF Members
<1>4. p.scopeIndex # None => BucketKeys(p.scopeIndex)' = BucketKeys(p.scopeIndex)
  BY DEF BucketKeys, Indexes
<1> QED
  BY <1>2, <1>3, <1>4 DEF Subjects

LEMMA QuietFrame ==
  ASSUME TypeOK, Steady, UNCHANGED touched, Quiet' = Quiet, Accounted, Lasting, Complete,
         pc \notin {"recompute", "gaps"}, pc \in {"begin", "apply"} => pc' \in {"begin", "apply"},
         \A p \in plib.figures : Followed(p),
         \A p \in Quiet : /\ \A i \in Indexes(p) : held'[i.name] = held[i.name]
                          /\ value'[p] = value[p] /\ p.sources \subseteq Quiet
  PROVE  Accounted' /\ Lasting' /\ Complete'
<1>1. \A p \in Quiet : p \in plib.figures
  BY DEF Quiet
<1>2. \A p \in Quiet :
        /\ ScopesOf(p)' = ScopesOf(p) /\ Subjects(p)' = Subjects(p)
        /\ \A c : Evaluate(p, c)' = Evaluate(p, c) /\ Members(p, c)' = Members(p, c)
        /\ p.scopeIndex # None => BucketKeys(p.scopeIndex)' = BucketKeys(p.scopeIndex)
  BY <1>1, StandFrame
<1>3. \A p, c : Marked(p, c) => Marked(p, c)'
  BY DEF Marked, Early
<1>4. \A p \in Quiet : \A c : Unmarked(p, c) => Unmarked(p, c)'
  <2>1. written' = written
    BY DEF Steady
  <2> QED
    BY <1>2, <2>1 DEF Unmarked
<1>5. Accounted'
  BY <1>2, <1>3, <1>4 DEF Accounted
<1>6. Lasting'
  <2>1. \A p \in Quiet : p.grain => p.scopeIndex # None
    BY <1>1 DEF Followed
  <2> QED
    BY <1>2, <1>3, <2>1 DEF Lasting
<1>7. Complete'
  BY <1>2 DEF Complete, Steady
<1> QED
  BY <1>5, <1>6, <1>7

LEMMA HousedFrame ==
  ASSUME TypeOK, Housed, Steady, Quiet' = Quiet, \A i \in plib.indexes : held'[i.name] = held[i.name]
  PROVE  Housed'
<1>1. \A p, c : Alive(p, c)' <=> Alive(p, c)
  BY RosterFrame DEF Alive, Steady
<1>2. \A p \in plib.figures : p.scopeIndex # None => held'[p.scopeIndex.name] = held[p.scopeIndex.name]
  BY ScopeIndexDeclared DEF TypeOK
<1> QED
  BY <1>1, <1>2 DEF Housed, Steady

LEMMA PeopledFrame ==
  ASSUME Peopled, Steady, \A p \in plib.figures : Subjects(p)' \subseteq Subjects(p), touched' \subseteq touched
  PROVE  Peopled'
<1>1. \A p, c : Alive(p, c)' <=> Alive(p, c)
  BY RosterFrame DEF Alive, Steady
<1> QED
  BY <1>1 DEF Peopled, Steady

\* Dropping what the library no longer declares, and choosing the branch.
LEMMA WarmDrop ==
  ASSUME Warm, Exact', NEW n \in IndexNames, DropIndex(n)
  PROVE  Warm'
<1> USE DEF Warm
<1>1. /\ Steady /\ pc = "begin" /\ pc' = "begin"
      /\ UNCHANGED <<value, touched, left, todo, rebuild, cold, pointer, late>>
  BY DEF DropIndex, Steady, request, progress, history
<1>2. \A i \in plib.indexes : held'[i.name] = held[i.name] /\ built'[i.name] = built[i.name]
  <2>1. \A i \in plib.indexes : i.name # n /\ i.name \in IndexNames
    BY LibraryAssumption DEF DropIndex, Retired, Exact, TypeOK
  <2> QED
    BY <2>1 DEF DropIndex, Exact, TypeOK
<1>3. (Warming' <=> Warming) /\ (Following' => Following)
  BY <1>1, FollowedSoFar
<1>4. ASSUME Warming
      PROVE  Based' /\ Quiet' = Quiet
  BY <1>1, <1>2, <1>4, BasedFrame DEF Underway
<1>5. ASSUME Following
      PROVE  Chased'
  <2>1. TypeOK /\ Based /\ Chased /\ Quiet' = Quiet
    BY <1>1, <1>4, <1>5 DEF Underway, Following, Exact
  <2>2. Housed'
    BY <1>1, <1>2, <2>1, HousedFrame DEF Chased
  <2>3. Peopled'
    BY <1>1, <2>1, PeopledFrame DEF Chased, Subjects
  <2>4. \A p \in Quiet : /\ p \in plib.figures /\ p.sources \subseteq Quiet
                         /\ \A i \in Indexes(p) : i \in plib.indexes
    BY <2>1, LibraryAssumption DEF Quiet, Based, Apart, TypeOK
  <2>5. Accounted' /\ Lasting' /\ Complete'
    BY <1>1, <1>2, <1>5, <2>1, <2>4, QuietFrame DEF Chased, Following, Warming
  <2>6. Righted' /\ Sorted'
    BY <1>1 DEF Righted, Sorted
  <2> QED
    BY <2>2, <2>3, <2>5, <2>6 DEF Chased
<1> QED
  BY <1>1, <1>3, <1>4, <1>5 DEF Following, Underway, WarmPassExact

LEMMA WarmBegin ==
  ASSUME Warm, Exact', Begin
  PROVE  Warm'
<1> USE DEF Warm
<1>1. /\ Steady /\ pc = "begin" /\ ~cold
      /\ UNCHANGED <<fact, held, built, pointer, value, touched, left, late>>
      /\ cold' = (full \/ Pending # {})
  BY DEF Begin, Steady, request, tables, history
<1>2. Pending' = Pending
  BY <1>1 DEF Pending, Steady
<1>3. Underway' /\ pc' \notin {"begin", "done"}
  BY DEF Begin, Underway
<1>4. CASE cold'
  BY <1>3, <1>4 DEF Warming, Following, WarmPassExact
<1>5. CASE ~cold'
  <2>1. /\ pc' = "apply" /\ Pending = {} /\ cold' = cold /\ rebuild' = Healed(Stale)
        /\ todo' = {i \in plib.indexes : \E k \in written : KindOf[k] = i.kind}
    <3>1. ~full /\ Pending = {}
      BY <1>1, <1>5
    <3>2. cold' = cold
      BY <1>1, <1>5 DEF Exact, TypeOK
    <3> QED
      BY <3>1, <3>2 DEF Begin
  <2>2. (Warming' <=> Warming) /\ (Following' => Following)
    BY <1>1, <2>1, FollowedSoFar
  <2>3. Stale' = Stale /\ Quiet' = Quiet
    BY <1>1, <2>1, HealedFrame DEF Quiet, Steady
  <2>4. Unfiled' = Unfiled
    BY <1>1, <2>1 DEF Unfiled
  <2>5. ASSUME Warming
        PROVE  Based'
    <3>1. Based
      BY <1>1, <2>5 DEF Underway
    <3>2. \A i, k : BucketsHolding(i, k)' = BucketsHolding(i, k) /\ Due(i, k)' = Due(i, k)
      BY <1>1 DEF BucketsHolding, Due, BucketsOf, Steady
    <3>3. InPlace'
      <4>1. plib' = plib /\ written' = written
        BY <1>1 DEF Steady
      <4> QED
        BY <1>1, <2>1, <2>3, <2>4, <3>1, <3>2, <4>1 DEF Based, InPlace, Early, Late
    <3>4. Apart' /\ Landed'
      BY <1>1, <2>1, <2>3, <3>1 DEF Based, Apart, Landed, Early, Steady
    <3> QED
      BY <3>3, <3>4 DEF Based
  <2>6. ASSUME Following
        PROVE  Chased'
    <3>1. TypeOK /\ Based /\ Chased
      BY <1>1, <2>6 DEF Underway, Following, Exact
    <3>2. Housed'
      BY <1>1, <2>3, <3>1, HousedFrame DEF Chased
    <3>3. Peopled'
      BY <1>1, <3>1, PeopledFrame DEF Chased, Subjects
    <3>4. \A p \in Quiet : p.sources \subseteq Quiet
      BY <3>1 DEF Based, Apart
    <3>5. Accounted' /\ Lasting' /\ Complete'
      BY <1>1, <2>1, <2>3, <2>6, <3>1, <3>4, QuietFrame DEF Chased, Following, Warming
    <3>6. Righted' /\ Sorted'
      BY <2>1 DEF Righted, Sorted
    <3> QED
      BY <3>2, <3>3, <3>5, <3>6 DEF Chased
  <2> QED
    BY <1>2, <1>3, <2>1, <2>2, <2>5, <2>6 DEF Following, WarmPassExact
<1> QED
  BY <1>4, <1>5

\* What filing a grouping's batch does to its rows.
LEMMA ApplyRows ==
  ASSUME TypeOK, TypeOK', NEW i \in plib.indexes, ApplyIndex(i)
  PROVE  /\ \A k, b : <<k, b>> \in held'[i.name] <=>
              IF k \in Refiled(i) THEN b \in BucketsOf(i, now, k) ELSE <<k, b>> \in held[i.name]
         /\ \A j \in plib.indexes : j # i => held'[j.name] = held[j.name]
         /\ held'[i.name] = SetBuckets(i)[i.name]
         /\ held'[i.name] \subseteq Keys \X Coords /\ held[i.name] \subseteq Keys \X Coords
<1>1. i.name \in IndexNames /\ plib \in Libraries
  BY LibraryAssumption DEF TypeOK
<1>2. held' = SetBuckets(i)
  BY DEF ApplyIndex
<1>3. held'[i.name] = {r \in held[i.name] : r[1] \notin Refiled(i)} \union Filing(i, now, Refiled(i))
  BY <1>1, <1>2 DEF SetBuckets, TypeOK
<1>4. \A k, b : <<k, b>> \in Filing(i, now, Refiled(i)) <=> k \in Refiled(i) /\ b \in BucketsOf(i, now, k)
  BY DEF Filing
<1>5. \A k, b : <<k, b>>[1] = k
  OBVIOUS
<1>6. \A k, b : <<k, b>> \in held'[i.name] <=>
        IF k \in Refiled(i) THEN b \in BucketsOf(i, now, k) ELSE <<k, b>> \in held[i.name]
  BY <1>3, <1>4, <1>5
<1>7. \A j \in plib.indexes : j # i => held'[j.name] = held[j.name]
  <2>1. \A j \in plib.indexes : j # i => j.name # i.name /\ j.name \in IndexNames
    BY <1>1, OneName
  <2> QED
    BY <1>2, <2>1 DEF SetBuckets, TypeOK
<1> QED
  BY <1>1, <1>2, <1>6, <1>7 DEF TypeOK

\* The subjects a refiled record marks, of a figure over its grouping.
MarksOf(i, p, k, filed) ==
  IF p.scopeIndex = i THEN BucketsHolding(i, k) \union BucketsOf(i, now, k)
  ELSE {r[2] : r \in {x \in filed[p.scopeIndex.name] : x[1] = k}}

LEMMA MarkIs ==
  ASSUME NEW i, NEW filed
  PROVE  \A t : t \in Mark(i, filed) <=>
           \E p \in plib.figures, k \in Refiled(i) :
             i \in Indexes(p) /\ t \in Touch(p, MarksOf(i, p, k, filed))
<1>1. Mark(i, filed) = UNION {Touch(p, MarksOf(i, p, k, filed)) :
                                p \in {q \in plib.figures : i \in Indexes(q)}, k \in Refiled(i)}
  BY DEF Mark, MarksOf
<1> QED
  BY <1>1

\* A row it does not mark has the members it had.
LEMMA MarkCovers ==
  ASSUME TypeOK, TypeOK', NEW i \in plib.indexes, ApplyIndex(i),
         NEW p \in plib.figures, i \in Indexes(p), NEW c, <<p, c>> \notin Mark(i, held')
  PROVE  /\ Members(p, c)' = Members(p, c)
         /\ p.scopeIndex = i => \A k : /\ <<k, c>> \in held'[i.name] <=> <<k, c>> \in held[i.name]
                                       /\ <<k, c>> \in held[i.name] => k \notin Refiled(i)
         /\ p.scopeIndex # None /\
              (c \in BucketKeys(p.scopeIndex)' <=> c \in BucketKeys(p.scopeIndex))
<1>1. plib \in Libraries /\ p.scopeIndex # None /\ p.scopeIndex \in plib.indexes
      /\ \A f \in p.filters : f \in plib.indexes
  BY ShapeAssumption, LibraryAssumption DEF TypeOK, Indexes
<1>2. \A k \in Refiled(i) : c \notin MarksOf(i, p, k, held')
  BY MarkIs DEF Touch
<1>3. \A k, b : <<k, b>> \in held'[i.name] <=>
        IF k \in Refiled(i) THEN b \in BucketsOf(i, now, k) ELSE <<k, b>> \in held[i.name]
  BY ApplyRows
<1>4. \A j \in plib.indexes : j # i => held'[j.name] = held[j.name]
  BY ApplyRows
<1>5. CASE p.scopeIndex = i
  <2>1. \A k \in Refiled(i) : <<k, c>> \notin held[i.name] /\ <<k, c>> \notin held'[i.name]
    <3> SUFFICES ASSUME NEW k \in Refiled(i)
                 PROVE  <<k, c>> \notin held[i.name] /\ <<k, c>> \notin held'[i.name]
      OBVIOUS
    <3>1. c \notin BucketsHolding(i, k) /\ c \notin BucketsOf(i, now, k)
      BY <1>2, <1>5 DEF MarksOf
    <3>2. <<k, c>>[1] = k /\ <<k, c>>[2] = c
      OBVIOUS
    <3> QED
      BY <1>3, <3>1, <3>2 DEF BucketsHolding
  <2>2. \A k : <<k, c>> \in held'[i.name] <=> <<k, c>> \in held[i.name]
    BY <1>3, <2>1
  <2>3. \A k : <<k, c>> \in held[i.name] => \A f \in p.filters :
          <<k, Whole>> \in held'[f.name] <=> <<k, Whole>> \in held[f.name]
    BY <1>1, <1>3, <1>4, <2>1
  <2>4. Members(p, c)' = Members(p, c)
    BY <1>1, <1>5, <2>2, <2>3 DEF Members
  <2> DEFINE Key(t) == {r[2] : r \in t}
  <2>5. \A t : t \subseteq Keys \X Coords => \A b : b \in Key(t) <=> \E k \in Keys : <<k, b>> \in t
    <3> SUFFICES ASSUME NEW t, t \subseteq Keys \X Coords, NEW b
                 PROVE  b \in Key(t) <=> \E k \in Keys : <<k, b>> \in t
      OBVIOUS
    <3>1. \A r \in t : r = <<r[1], r[2]>> /\ r[1] \in Keys
      OBVIOUS
    <3>2. \A k : <<k, b>>[2] = b
      OBVIOUS
    <3> QED
      BY <3>1, <3>2
  <2>6. BucketKeys(i) = Key(held[i.name]) /\ BucketKeys(i)' = Key(held'[i.name])
    BY DEF BucketKeys
  <2>7. c \in BucketKeys(i)' <=> c \in BucketKeys(i)
    <3>1. held'[i.name] \subseteq Keys \X Coords /\ held[i.name] \subseteq Keys \X Coords
      BY ApplyRows
    <3> HIDE DEF Key
    <3>2. c \in Key(held'[i.name]) <=> \E k \in Keys : <<k, c>> \in held'[i.name]
      BY <2>5, <3>1
    <3>3. c \in Key(held[i.name]) <=> \E k \in Keys : <<k, c>> \in held[i.name]
      BY <2>5, <3>1
    <3> QED
      BY <2>2, <2>6, <3>2, <3>3
  <2> QED
    BY <1>1, <1>5, <2>1, <2>2, <2>4, <2>7
<1>6. CASE p.scopeIndex # i
  <2>1. held'[p.scopeIndex.name] = held[p.scopeIndex.name]
    BY <1>1, <1>4, <1>6
  <2>2. \A k \in Refiled(i) : <<k, c>> \notin held[p.scopeIndex.name]
    <3> SUFFICES ASSUME NEW k \in Refiled(i), <<k, c>> \in held[p.scopeIndex.name]
                 PROVE  FALSE
      OBVIOUS
    <3>1. <<k, c>>[1] = k /\ <<k, c>>[2] = c
      OBVIOUS
    <3>2. c \in MarksOf(i, p, k, held')
      BY <1>6, <2>1, <3>1 DEF MarksOf
    <3> QED
      BY <1>2, <1>6, <3>2
  <2>3. \A k : <<k, c>> \in held[p.scopeIndex.name] => \A f \in p.filters :
          <<k, Whole>> \in held'[f.name] <=> <<k, Whole>> \in held[f.name]
    BY <1>1, <1>3, <1>4, <2>2
  <2>4. Members(p, c)' = Members(p, c)
    BY <1>1, <2>1, <2>3 DEF Members
  <2> QED
    BY <1>1, <1>6, <2>1, <2>4 DEF BucketKeys
<1> QED
  BY <1>5, <1>6

\* A record that is filed is filed where a rebuild files it.
LEMMA FiledWanted ==
  ASSUME TypeOK, Landed, NEW i \in plib.indexes, NEW k \in Refiled(i), NEW b \in BucketsOf(i, now, k)
  PROVE  /\ <<k, b>> \in Wanted(i, now) /\ b \in Coords /\ k \in Keys
         /\ i \in Own => b[1] = k
         /\ \A p \in plib.figures : p.scopeIndex = i /\ p.scopeIndex # None /\ p.grain => b[2] # None
<1>1. /\ k \in Keys /\ KindOf[k] = i.kind /\ fact[k] # None /\ b \in Cut(i, now, k, fact) /\ b \in Coords
      /\ now \in 1..MaxDay /\ fact \in [Keys -> Bodies \union {None}] /\ plib \in Libraries
  BY DEF Refiled, Landed, TypeOK, BucketsOf
<1>2. k \in Roster(i.kind)
  BY <1>1 DEF Roster
<1>3. <<k, b>> \in Wanted(i, now)
  BY <1>2 DEF Wanted, Filing
<1>4. i \in Own => b[1] = k
  BY <1>1 DEF Own
<1>5. \A p \in plib.figures : p.scopeIndex = i /\ p.scopeIndex # None /\ p.grain => b[2] # None
  BY <1>1, BucketAssumption
<1> QED
  BY <1>1, <1>3, <1>4, <1>5

LEMMA ApplyHoused ==
  ASSUME TypeOK, TypeOK', Homed, Landed, Housed, Steady, Quiet' = Quiet,
         NEW i \in plib.indexes, ApplyIndex(i)
  PROVE  Housed'
<1>1. \A p, c : Alive(p, c)' <=> Alive(p, c)
  BY RosterFrame DEF Alive, Steady
<1> SUFFICES ASSUME NEW p \in plib.figures, p.scopeIndex # None, NEW r \in held'[p.scopeIndex.name]
             PROVE  /\ Alive(p, r[2])
                    /\ p \in Quiet => (p.grain => r[2][2] # None)
                                        /\ (p.scopeIndex \in Own => r[2][1] = r[1])
  BY <1>1 DEF Housed, Steady
<1>2. p.scopeIndex \in plib.indexes
  BY ScopeIndexDeclared DEF TypeOK
<1>3. CASE r \in held[p.scopeIndex.name]
  BY <1>3 DEF Housed
<1>4. CASE r \notin held[p.scopeIndex.name]
  <2>1. p.scopeIndex = i
    BY <1>2, <1>4, ApplyRows
  <2>2. r = <<r[1], r[2]>> /\ r[1] \in Refiled(i) /\ r[2] \in BucketsOf(i, now, r[1])
    <3>1. r \in Keys \X Coords
      BY <2>1, ApplyRows
    <3>2. r = <<r[1], r[2]>>
      BY <3>1
    <3> QED
      BY <1>4, <2>1, <3>2, ApplyRows
  <2>3. r \in Wanted(i, now) /\ r[2] \in Coords /\ (i \in Own => r[2][1] = r[1])
        /\ (p.grain => r[2][2] # None)
    BY <2>1, <2>2, FiledWanted
  <2>4. Alive(p, r[2])
    BY <2>1, <2>3 DEF Homed, Alive
  <2> QED
    BY <2>1, <2>3, <2>4
<1> QED
  BY <1>3, <1>4

LEMMA ApplyPeopled ==
  ASSUME TypeOK, TypeOK', Homed, Landed, Housed, Peopled, Steady, NEW i \in plib.indexes, ApplyIndex(i)
  PROVE  Peopled'
<1>1. \A p, c : Alive(p, c)' <=> Alive(p, c)
  BY RosterFrame DEF Alive, Steady
<1>2. ASSUME NEW t \in Mark(i, held')
      PROVE  Alive(t[1], t[2])
  <2>1. PICK p \in plib.figures, k \in Refiled(i) : i \in Indexes(p) /\ t \in Touch(p, MarksOf(i, p, k, held'))
    BY <1>2, MarkIs
  <2>2. t[1] = p /\ t[2] \in MarksOf(i, p, k, held')
    BY <2>1 DEF Touch
  <2>3. p.scopeIndex # None /\ p.scopeIndex \in plib.indexes
    BY <2>1, ShapeAssumption, LibraryAssumption DEF TypeOK, Indexes
  <2>4. CASE p.scopeIndex = i /\ t[2] \in BucketsHolding(i, k)
    BY <2>2, <2>3, <2>4 DEF BucketsHolding, Housed
  <2>5. CASE p.scopeIndex = i /\ t[2] \in BucketsOf(i, now, k)
    <3>1. <<k, t[2]>> \in Wanted(i, now) /\ t[2] \in Coords
      BY <2>5, FiledWanted
    <3>2. <<k, t[2]>>[2] = t[2]
      OBVIOUS
    <3> QED
      BY <2>2, <2>3, <2>5, <3>1, <3>2 DEF Homed, Alive
  <2>6. CASE p.scopeIndex # i
    <3>1. held'[p.scopeIndex.name] = held[p.scopeIndex.name]
      BY <2>3, <2>6, ApplyRows
    <3>2. PICK r \in held[p.scopeIndex.name] : r[2] = t[2]
      BY <2>2, <2>6, <3>1 DEF MarksOf
    <3> QED
      BY <2>2, <2>3, <3>2 DEF Housed
  <2>7. t[2] \in BucketsHolding(i, k) \union BucketsOf(i, now, k) \/ p.scopeIndex # i
    BY <2>2 DEF MarksOf
  <2> QED
    BY <2>2, <2>4, <2>5, <2>6, <2>7
<1>3. touched' = touched \union Mark(i, held') /\ value' = value /\ plib' = plib
  BY DEF ApplyIndex, Steady
<1>4. \A t \in touched' : Alive(t[1], t[2])
  BY <1>2, <1>3 DEF Peopled
<1> QED
  BY <1>1, <1>3, <1>4 DEF Peopled, Subjects

\* The subjects of followed figures are their reach, before and after a step.
LEMMA SubjectsReach ==
  ASSUME TypeOK, Peopled, \A p \in plib.figures : Followed(p)
  PROVE  \A p \in plib.figures : ScopesOf(p) = Reach(p)
<1>1. plib \in Libraries /\ \A p \in plib.figures : \A c \in Subjects(p) : c[1] \in Roster(p.scope)
  BY DEF TypeOK, Peopled, Alive
<1> QED
  BY <1>1, ScopesAreReach DEF ScopesReach

LEMMA SubjectsReachNext ==
  ASSUME TypeOK, UNCHANGED plib, Peopled', \A p \in plib.figures : Followed(p)
  PROVE  \A p \in plib.figures : ScopesOf(p)' = Reach(p)'
<1>1. plib \in Libraries /\ \A p \in plib.figures : \A c \in Subjects(p)' : c[1] \in Roster(p.scope)'
  BY DEF TypeOK, Peopled, Alive
<1>2. ScopesReach'
  BY ScopesAreReach, PTL
<1> QED
  BY <1>1, <1>2 DEF ScopesReach

LEMMA NoneMoved == ASSUME NEW rows PROVE Moved(rows, rows) = {}
BY DEF Moved

\* A row that filing a grouping does not mark is what it was.
LEMMA ApplyUnmarked ==
  ASSUME TypeOK, TypeOK', Housed, Housed', Steady, Quiet' = Quiet, NEW i \in plib.indexes, ApplyIndex(i),
         NEW p \in Quiet, Followed(p), NEW c, <<p, c>> \notin Mark(i, held')
  PROVE  /\ Members(p, c)' = Members(p, c)
         /\ p.scopeIndex # None => (c \in BucketKeys(p.scopeIndex)' <=> c \in BucketKeys(p.scopeIndex))
         /\ c \in Reach(p)' <=> c \in Reach(p)
         /\ c \in Reach(p) => Evaluate(p, c)' = Evaluate(p, c)
<1>1. p \in plib.figures /\ UNCHANGED <<fact, value, plib>>
      /\ (p.scopeIndex # None => p.scopeIndex \in plib.indexes)
  BY ScopeIndexDeclared DEF Quiet, Steady, ApplyIndex, TypeOK
<1>2. /\ Members(p, c)' = Members(p, c)
      /\ p.scopeIndex # None => (c \in BucketKeys(p.scopeIndex)' <=> c \in BucketKeys(p.scopeIndex))
  <2>1. CASE i \in Indexes(p)
    BY <1>1, <2>1, MarkCovers
  <2>2. CASE i \notin Indexes(p)
    <3>1. \A j \in Indexes(p) : held'[j.name] = held[j.name]
      <4>1. \A j \in Indexes(p) : j \in plib.indexes /\ j # i
        BY <1>1, <2>2, LibraryAssumption DEF TypeOK
      <4> QED
        BY <4>1, ApplyRows
    <3> QED
      BY <1>1, <3>1, StandFrame
  <2> QED
    BY <2>1, <2>2
<1>3. c \in Reach(p)' <=> c \in Reach(p)
  BY <1>1, <1>2, RosterFrame DEF Reach
<1>4. ASSUME c \in Reach(p)
      PROVE  Evaluate(p, c)' = Evaluate(p, c)
  <2>1. Parts(p, c)' = Parts(p, c)
    <3>1. \A q : Moved(value[q], value'[q]) = {}
      BY <1>1, NoneMoved
    <3> QED
      BY <1>2, <3>1, PartsStand
  <2>2. ASSUME p.form = "spread"
        PROVE  {b \in BucketKeys(p.scopeIndex) : b[1] = c[1]}'
                 = {b \in BucketKeys(p.scopeIndex) : b[1] = c[1]}
    <3>1. p.grain /\ p.scopeIndex \in Own /\ p.scopeIndex # None
      BY <2>2 DEF Followed
    <3>2. CASE p.scopeIndex # i
      <4>1. held'[p.scopeIndex.name] = held[p.scopeIndex.name]
        BY <1>1, <3>1, <3>2, ApplyRows
      <4> QED
        BY <4>1 DEF BucketKeys
    <3>3. CASE p.scopeIndex = i
      <4>1. c \in BucketKeys(i)
        BY <1>4, <3>1, <3>3 DEF Reach
      <4>2. held'[i.name] \subseteq Keys \X Coords /\ held[i.name] \subseteq Keys \X Coords
        BY ApplyRows
      <4>3. /\ \A r \in held[i.name] : r[2][1] = r[1]
            /\ \A r \in held'[i.name] : r[2][1] = r[1]
        BY <1>1, <3>1, <3>3 DEF Housed
      <4>4. PICK r0 \in held[i.name] : r0[2] = c
        BY <4>1 DEF BucketKeys
      <4>5. r0 = <<c[1], c>>
        BY <4>2, <4>3, <4>4
      <4>6. c[1] \notin Refiled(i)
        <5>1. i \in Indexes(p)
          BY <3>1, <3>3 DEF Indexes
        <5> QED
          BY <1>1, <3>3, <4>4, <4>5, <5>1, MarkCovers
      <4>7. \A b : <<c[1], b>> \in held'[i.name] <=> <<c[1], b>> \in held[i.name]
        BY <4>6, ApplyRows
      <4>8. \A b : b[1] = c[1] => (b \in BucketKeys(i)' <=> <<c[1], b>> \in held'[i.name])
        <5> SUFFICES ASSUME NEW b, b[1] = c[1]
                     PROVE  (\E r \in held'[i.name] : b = r[2]) <=> <<c[1], b>> \in held'[i.name]
          BY DEF BucketKeys
        <5>1. \A r \in held'[i.name] : r = <<r[1], r[2]>>
          BY <4>2
        <5>2. <<c[1], b>>[2] = b
          OBVIOUS
        <5> QED
          BY <4>3, <5>1, <5>2
      <4>9. \A b : b[1] = c[1] => (b \in BucketKeys(i) <=> <<c[1], b>> \in held[i.name])
        <5> SUFFICES ASSUME NEW b, b[1] = c[1]
                     PROVE  (\E r \in held[i.name] : b = r[2]) <=> <<c[1], b>> \in held[i.name]
          BY DEF BucketKeys
        <5>1. \A r \in held[i.name] : r = <<r[1], r[2]>>
          BY <4>2
        <5>2. <<c[1], b>>[2] = b
          OBVIOUS
        <5> QED
          BY <4>3, <5>1, <5>2
      <4> QED
        BY <3>3, <4>7, <4>8, <4>9
    <3> QED
      BY <3>2, <3>3
  <2>3. \A m : fact'[m] = fact[m]
    BY <1>1
  <2> QED
    BY <1>2, <2>1, <2>2, <2>3, ReadsDecide
<1> QED
  BY <1>2, <1>3, <1>4

\* Filing a grouping's batch marks every row it moves.
LEMMA ApplyChased ==
  ASSUME TypeOK, TypeOK', Following, Based, Chased, Steady, Quiet' = Quiet,
         NEW i \in plib.indexes, ApplyIndex(i)
  PROVE  Chased'
<1>1. \A p \in plib.figures : Followed(p)
  BY DEF Following, Warming
<1>2. Housed' /\ Peopled'
  BY ApplyHoused, ApplyPeopled DEF Following, Based, Chased
<1>3. \A p \in plib.figures : ScopesOf(p) = Reach(p) /\ ScopesOf(p)' = Reach(p)'
  BY <1>1, <1>2, SubjectsReach, SubjectsReachNext DEF Chased, Steady
<1>4. /\ pc = "apply" /\ pc' = "apply" /\ UNCHANGED <<value, plib, written, wrote>>
      /\ touched' = touched \union Mark(i, held')
  BY DEF ApplyIndex, Steady
<1>5. \A p \in Quiet : p \in plib.figures /\ Subjects(p)' = Subjects(p)
  BY <1>4 DEF Quiet, Subjects
<1>6. \A p, c : <<p, c>> \in touched' => Marked(p, c)'
  BY <1>4 DEF Marked, Early
<1>7. Accounted'
  <2> SUFFICES ASSUME NEW p \in Quiet, NEW c \in Reach(p)', c \in Subjects(p), <<p, c>> \notin touched'
               PROVE  value[p][c] = Evaluate(p, c)' \/ Unmarked(p, c)'
    BY <1>3, <1>4, <1>5, <1>6 DEF Accounted
  <2>1. <<p, c>> \notin Mark(i, held') /\ <<p, c>> \notin touched
    BY <1>4
  <2>2. /\ Members(p, c)' = Members(p, c)
        /\ c \in Reach(p)' <=> c \in Reach(p)
        /\ c \in Reach(p) => Evaluate(p, c)' = Evaluate(p, c)
    BY <1>1, <1>2, <1>5, <2>1, ApplyUnmarked DEF Chased
  <2>3. value[p][c] = Evaluate(p, c) \/ Marked(p, c) \/ Unmarked(p, c)
    BY <1>3, <1>4, <1>5, <2>2 DEF Chased, Accounted
  <2>4. Unmarked(p, c) => Unmarked(p, c)'
    BY <1>4, <2>2 DEF Unmarked
  <2> QED
    BY <2>1, <2>2, <2>3, <2>4 DEF Marked
<1>8. Lasting'
  <2> SUFFICES ASSUME NEW p \in Quiet, NEW c \in Subjects(p), p.grain, <<p, c>> \notin touched'
               PROVE  c \in BucketKeys(p.scopeIndex)'
    BY <1>4, <1>5, <1>6 DEF Lasting
  <2>1. <<p, c>> \notin Mark(i, held') /\ <<p, c>> \notin touched /\ p.scopeIndex # None
    BY <1>1, <1>4, <1>5 DEF Followed
  <2>2. c \in BucketKeys(p.scopeIndex)' <=> c \in BucketKeys(p.scopeIndex)
    BY <1>1, <1>2, <1>5, <2>1, ApplyUnmarked DEF Chased
  <2> QED
    BY <1>4, <2>1, <2>2 DEF Chased, Lasting, Marked
<1>9. Complete'
  <2> SUFFICES ASSUME ~wrote
               PROVE  written' = {} /\ touched' = {} /\ \A p \in Quiet : ScopesOf(p)' \subseteq Subjects(p)
    BY <1>4, <1>5 DEF Complete
  <2>1. written = {} /\ touched = {} /\ \A p \in Quiet : ScopesOf(p) \subseteq Subjects(p)
    BY <1>4 DEF Chased, Complete
  <2>2. Mark(i, held') = {}
    BY <2>1, MarkIs DEF Refiled
  <2>3. ASSUME NEW p \in Quiet, NEW c \in ScopesOf(p)'
        PROVE  c \in Subjects(p)
    <3>1. c \in Reach(p)' <=> c \in Reach(p)
      BY <1>1, <1>2, <1>5, <2>2, ApplyUnmarked DEF Chased
    <3> QED
      BY <1>3, <1>5, <2>1, <2>3, <3>1
  <2> QED
    BY <1>4, <2>1, <2>2, <2>3
<1>10. Righted' /\ Sorted'
  BY <1>4 DEF Righted, Sorted
<1> QED
  BY <1>2, <1>7, <1>8, <1>9, <1>10 DEF Chased

LEMMA WarmApply ==
  ASSUME Warm, Exact', NEW i \in plib.indexes, ApplyIndex(i)
  PROVE  Warm'
<1> USE DEF Warm
<1>1. /\ Steady /\ pc = "apply" /\ pc' = "apply" /\ i \in todo
      /\ UNCHANGED <<fact, built, pointer, value, rebuild, cold, late>> /\ todo' = todo \ {i}
  BY DEF ApplyIndex, Foremost, Steady, request, history
<1>2. TypeOK /\ TypeOK'
  BY DEF Exact
<1>3. (Warming' <=> Warming) /\ (Following' => Following) /\ Pending' = Pending
  BY <1>1, FollowedSoFar DEF Pending, Steady
<1>4. Stale' = Stale /\ Quiet' = Quiet
  BY <1>1, HealedFrame DEF Quiet, Steady
<1>5. ASSUME Warming
      PROVE  Based'
  <2>1. Landed /\ Apart /\ InPlace
    BY <1>1, <1>5 DEF Underway, Based
  <2>2. \A j, k : Due(j, k)' = Due(j, k)
    BY <1>1 DEF Due, BucketsOf, Steady
  <2>3. Unfiled = todo /\ Unfiled' = todo \ {i}
    BY <1>1 DEF Unfiled
  <2>4. ASSUME NEW j \in plib.indexes \ Stale, NEW k \in Keys,
               ~(j \in todo \ {i} /\ k \in written /\ KindOf[k] = j.kind)
        PROVE  BucketsHolding(j, k)' = Due(j, k)
    <3>1. CASE j = i
      <4>1. BucketsHolding(i, k)' =
              IF k \in written /\ KindOf[k] = i.kind THEN BucketsOf(i, now, k) ELSE BucketsHolding(i, k)
        BY <1>2, ApplyHolds, ApplyRows
      <4>2. CASE k \in written /\ KindOf[k] = i.kind
        BY <2>1, <3>1, <4>1, <4>2 DEF Due, Landed
      <4>3. CASE ~(k \in written /\ KindOf[k] = i.kind)
        BY <1>1, <2>1, <2>3, <3>1, <4>1, <4>3 DEF InPlace, Early
      <4> QED
        BY <4>2, <4>3
    <3>2. CASE j # i
      <4>1. held'[j.name] = held[j.name]
        BY <1>2, <3>2, ApplyRows
      <4> QED
        BY <1>1, <2>1, <2>3, <2>4, <3>2, <4>1 DEF InPlace, Early, BucketsHolding
    <3> QED
      BY <3>1, <3>2
  <2>5. InPlace'
    <3>1. plib' = plib /\ written' = written
      BY <1>1 DEF Steady
    <3> QED
      BY <1>1, <1>4, <2>2, <2>3, <2>4, <3>1 DEF InPlace, Early, Late
  <2>6. Apart' /\ Landed'
    BY <1>1, <1>4, <2>1 DEF Apart, Landed, Early, Steady
  <2> QED
    BY <2>5, <2>6 DEF Based
<1>6. ASSUME Following
      PROVE  Chased'
  BY <1>1, <1>2, <1>4, <1>6, ApplyChased DEF Underway, Following
<1> QED
  BY <1>1, <1>3, <1>5, <1>6 DEF Following, Underway, WarmPassExact

\* The field marks are of subjects there are, and reach every row that reads a
\* written record's field.
LEMMA FieldAlive ==
  ASSUME TypeOK, Landed, Housed, NEW t \in FieldMarks
  PROVE  t[1] \in plib.figures /\ Alive(t[1], t[2])
<1>1. PICK p \in plib.figures : p.scopeIndex # None /\
        \E k \in written : KindOf[k] \in p.fields /\ t \in Touch(p, FieldSubjects(p, k))
  BY DEF FieldMarks
<1>2. PICK k \in written : KindOf[k] \in p.fields /\ t \in Touch(p, FieldSubjects(p, k))
  BY <1>1
<1>3. t[1] = p /\ t[2] \in FieldSubjects(p, k)
  BY <1>2 DEF Touch
<1>4. k \in Keys /\ fact[k] # None
  BY DEF Landed, TypeOK
<1>5. CASE KindOf[k] = p.scope /\ ~p.grain /\ p.across = None
  <2>1. t[2] = Bare(k) /\ k \in Roster(p.scope)
    BY <1>1, <1>3, <1>4, <1>5 DEF FieldSubjects, Roster
  <2> QED
    BY <1>1, <1>3, <1>4, <1>5, <2>1, BareCoord DEF Alive, Bare
<1>6. CASE KindOf[k] = p.scope /\ (p.grain \/ p.across # None)
  <2>1. t[2] \in BucketKeys(p.scopeIndex)
    BY <1>1, <1>3, <1>6 DEF FieldSubjects
  <2> QED
    BY <1>1, <1>3, <2>1 DEF BucketKeys, Housed
<1>7. CASE KindOf[k] # p.scope
  <2>1. t[2] \in BucketsHolding(p.scopeIndex, k)
    BY <1>1, <1>3, <1>7 DEF FieldSubjects
  <2> QED
    BY <1>1, <1>3, <2>1 DEF BucketsHolding, Housed
<1> QED
  BY <1>5, <1>6, <1>7

LEMMA FieldReached ==
  ASSUME TypeOK, Based, Housed, pc = "apply", todo = {}, NEW p \in Quiet, Followed(p),
         NEW c \in Reach(p), Unmarked(p, c)
  PROVE  <<p, c>> \in FieldMarks
<1>1. p \in plib.figures /\ p.scopeIndex # None
  BY DEF Quiet, Unmarked
<1>2. PICK k \in written : KindOf[k] \in p.fields /\ k \in Members(p, c) \union {c[1]}
  BY DEF Unmarked
<1>3. c[1] \in Roster(p.scope)
  BY DEF Reach, Bare
<1>4. k \in Keys /\ <<k, c>>[1] = k /\ <<k, c>>[2] = c
  BY DEF TypeOK
<1>5. k \in Members(p, c) => c \in BucketsHolding(p.scopeIndex, k) /\ c \in BucketKeys(p.scopeIndex)
  BY <1>1, <1>4 DEF Members, BucketsHolding, BucketKeys
<1>6. CASE KindOf[k] = p.scope
  <2>1. c[1] = k
    <3> SUFFICES ASSUME <<k, c>> \in held[p.scopeIndex.name]
                 PROVE  c[1] = k
      BY <1>1, <1>2 DEF Members
    <3>1. p.scopeIndex \in plib.indexes \ Stale /\ BucketsHolding(p.scopeIndex, k) = Due(p.scopeIndex, k)
      <4>1. p.scopeIndex \in plib.indexes /\ p.scopeIndex \in Indexes(p)
        BY <1>1, ScopeIndexDeclared DEF TypeOK, Indexes
      <4> QED
        BY <1>4, <4>1 DEF Based, Apart, InPlace, Early, Unfiled
    <3>2. c \in Due(p.scopeIndex, k)
      BY <1>4, <3>1 DEF BucketsHolding
    <3>3. p.scopeIndex \in Own
      BY <1>2, <1>6, <3>2 DEF Due, Followed
    <3> QED
      BY <1>1, <1>4, <3>3 DEF Housed
  <2>2. CASE ~p.grain /\ p.across = None
    <3>1. c = Bare(k)
      BY <2>1, <2>2 DEF Reach, Bare
    <3> QED
      BY <1>1, <1>2, <1>6, <2>2, <3>1 DEF FieldMarks, FieldSubjects, Touch
  <2>3. CASE p.grain \/ p.across # None
    <3>1. c \in BucketKeys(p.scopeIndex)
      BY <1>1, <2>3 DEF Reach
    <3>2. c \in FieldSubjects(p, k)
      BY <1>6, <2>1, <2>3, <3>1 DEF FieldSubjects
    <3> QED
      BY <1>1, <1>2, <3>2 DEF FieldMarks, Touch
  <2> QED
    BY <2>2, <2>3
<1>7. CASE KindOf[k] # p.scope
  <2>1. k # c[1]
    BY <1>3, <1>7 DEF Roster
  <2>2. c \in FieldSubjects(p, k)
    BY <1>2, <1>5, <1>7, <2>1 DEF FieldSubjects
  <2> QED
    BY <1>1, <1>2, <2>2 DEF FieldMarks, Touch
<1> QED
  BY <1>6, <1>7

LEMMA AppliedChased ==
  ASSUME TypeOK, Following, Based, Chased, Steady, Quiet' = Quiet, Applied
  PROVE  Chased'
<1>1. \A p \in plib.figures : Followed(p) /\ ScopesOf(p) = Reach(p)
  BY SubjectsReach DEF Following, Warming, Chased
<1>2. /\ pc = "apply" /\ pc' = "recompute" /\ todo = {} /\ left' = plib.figures
      /\ UNCHANGED <<fact, held, built, value, rebuild>>
      /\ touched' = touched \union FieldMarks
  BY DEF Applied, tables
<1>3. \A p \in Quiet : p \in plib.figures
  BY DEF Quiet
<1>4. \A p \in plib.figures : /\ ScopesOf(p)' = ScopesOf(p) /\ Subjects(p)' = Subjects(p)
                              /\ \A c : Evaluate(p, c)' = Evaluate(p, c)
                              /\ p.scopeIndex # None => BucketKeys(p.scopeIndex)' = BucketKeys(p.scopeIndex)
  BY <1>2, StandFrame
<1>5. \A p \in plib.figures : \A c : <<p, c>> \in touched' => Marked(p, c)'
  BY <1>2 DEF Marked, Early
<1>6. Housed'
  BY <1>2, HousedFrame DEF Chased
<1>7. Peopled'
  <2>1. \A p, c : Alive(p, c)' <=> Alive(p, c)
    BY RosterFrame DEF Alive, Steady
  <2>2. \A t \in touched' : Alive(t[1], t[2])
    BY <1>2, FieldAlive DEF Based, Chased, Peopled
  <2> QED
    BY <1>4, <2>1, <2>2 DEF Chased, Peopled, Steady
<1>8. Accounted'
  <2> SUFFICES ASSUME NEW p \in Quiet, NEW c \in ScopesOf(p) \intersect Subjects(p), <<p, c>> \notin touched'
               PROVE  value[p][c] = Evaluate(p, c)
    BY <1>2, <1>3, <1>4, <1>5, ZenonT(40) DEF Accounted
  <2>1. <<p, c>> \notin touched /\ <<p, c>> \notin FieldMarks
    BY <1>2
  <2>2. ~Marked(p, c) /\ ~Unmarked(p, c)
    BY <1>1, <1>2, <1>3, <2>1, FieldReached DEF Marked, Chased
  <2> QED
    BY <1>2, <2>2 DEF Chased, Accounted
<1>9. Lasting'
  <2>1. \A p \in Quiet : \A c : Marked(p, c) => Marked(p, c)'
    BY <1>2, <1>3, <1>5 DEF Marked
  <2>2. \A p \in Quiet : p.grain => p.scopeIndex # None
    BY <1>1, <1>3 DEF Followed
  <2> QED
    BY <1>2, <1>3, <1>4, <2>1, <2>2 DEF Lasting, Chased
<1>10. Complete'
  <2>1. written = {} => FieldMarks = {}
    BY DEF FieldMarks
  <2>2. \A p \in Quiet : ScopesOf(p)' = ScopesOf(p) /\ Subjects(p)' = Subjects(p)
    BY <1>3, <1>4
  <2>3. wrote' = wrote /\ written' = written
    BY DEF Steady
  <2> QED
    BY <1>2, <2>1, <2>2, <2>3 DEF Complete, Chased
<1>11. Righted' /\ Sorted'
  BY <1>2 DEF Righted, Sorted, Steady
<1> QED
  BY <1>6, <1>7, <1>8, <1>9, <1>10, <1>11 DEF Chased

LEMMA WarmApplied ==
  ASSUME Warm, Exact', Applied
  PROVE  Warm'
<1> USE DEF Warm
<1>1. /\ Steady /\ pc = "apply" /\ pc' = "recompute" /\ todo = {}
      /\ UNCHANGED <<fact, held, built, pointer, value, rebuild, todo, cold, late>>
  BY DEF Applied, Steady, tables, request, history
<1>2. TypeOK
  BY DEF Exact
<1>3. (Warming' <=> Warming) /\ (Following' => Following) /\ Pending' = Pending
  BY <1>1, FollowedSoFar DEF Pending, Steady
<1>4. Stale' = Stale /\ Quiet' = Quiet
  BY <1>1, HealedFrame DEF Quiet, Steady
<1>5. ASSUME Warming
      PROVE  Based'
  <2>1. Landed /\ Apart /\ InPlace
    BY <1>1, <1>5 DEF Underway, Based
  <2>2. \A j, k : Due(j, k)' = Due(j, k) /\ BucketsHolding(j, k)' = BucketsHolding(j, k)
    BY <1>1 DEF Due, BucketsOf, BucketsHolding, Steady
  <2>3. Unfiled = {} /\ Unfiled' = {} /\ plib' = plib
    BY <1>1 DEF Unfiled, Steady
  <2>4. InPlace'
    BY <1>1, <1>4, <2>1, <2>2, <2>3 DEF InPlace, Early, Late
  <2>5. Apart' /\ Landed'
    BY <1>1, <1>4, <2>1 DEF Apart, Landed, Early, Steady
  <2> QED
    BY <2>4, <2>5 DEF Based
<1>6. ASSUME Following
      PROVE  Chased'
  BY <1>1, <1>2, <1>4, <1>6, AppliedChased DEF Underway, Following
<1> QED
  BY <1>1, <1>3, <1>5, <1>6 DEF Following, Underway, WarmPassExact

\* Recomputing a figure: its marked rows, and what it marks in turn.
LEMMA RecomputeRows ==
  ASSUME Exact, NEW p \in plib.figures, Recompute(p)
  PROVE  /\ value'[p] = Recomputed(p, TouchedSubjects(p))
         /\ \A q \in plib.figures : q # p => value'[q] = value[q]
         /\ \A t : t \in touched' <=>
              \/ t \in touched
              \/ \E q \in plib.figures : p \in q.sources /\
                   \E r \in Moved(value[p], value'[p]) : t \in Touch(q, ReaderKeys(q, p, r))
         /\ \A c : c \in TouchedSubjects(p) <=> <<p, c>> \in touched
         /\ DOMAIN value'[p] = (Subjects(p) \union TouchedSubjects(p)) \ {c \in TouchedSubjects(p) : Emptied(p, c)}
         /\ \A c \in DOMAIN value'[p] :
              value'[p][c] = IF c \in TouchedSubjects(p) THEN Evaluate(p, c) ELSE value[p][c]
<1> DEFINE rows == Recomputed(p, TouchedSubjects(p))
<1>1. value' = [value EXCEPT ![p] = rows] /\ UNCHANGED <<fact, held>>
  BY DEF Recompute
<1>2. value'[p] = rows /\ \A q \in plib.figures : q # p => value'[q] = value[q]
  <2> HIDE DEF rows
  <2> QED
    BY <1>1, OneFigure
<1>3. touched' = touched \union UNION {Touch(q, ReaderKeys(q, p, c)) :
                   q \in {x \in plib.figures : p \in x.sources}, c \in Moved(value[p], rows)}
  BY DEF Recompute
<1>4. \A t : t \in touched' <=>
        \/ t \in touched
        \/ \E q \in plib.figures : p \in q.sources /\
             \E r \in Moved(value[p], value'[p]) : t \in Touch(q, ReaderKeys(q, p, r))
  <2> HIDE DEF rows
  <2> QED
    BY <1>2, <1>3
<1>5. \A c : c \in TouchedSubjects(p) <=> <<p, c>> \in touched
  <2>1. touched \subseteq plib.figures \X Coords
    BY DEF Exact, TypeOK
  <2>2. \A t \in touched : t = <<t[1], t[2]>>
    BY <2>1
  <2> QED
    BY <2>2 DEF TouchedSubjects
<1>6. DOMAIN rows = (Subjects(p) \union TouchedSubjects(p)) \ {c \in TouchedSubjects(p) : Emptied(p, c)}
      /\ \A c \in DOMAIN rows : rows[c] = IF c \in TouchedSubjects(p) THEN Evaluate(p, c) ELSE value[p][c]
  BY DEF Recomputed
<1> QED
  <2> HIDE DEF rows
  <2> QED
    BY <1>2, <1>4, <1>5, <1>6 DEF rows

LEMMA RecomputePeopled ==
  ASSUME Exact, Following, Chased, Steady, UNCHANGED held, NEW p \in plib.figures, Recompute(p)
  PROVE  Peopled'
<1>1. \A q, c : Alive(q, c)' <=> Alive(q, c)
  BY RosterFrame DEF Alive, Steady
<1>2. \A c \in DOMAIN value'[p] \union DOMAIN value[p] : Alive(p, c)
  <2>1. \A c \in TouchedSubjects(p) : <<p, c>> \in touched
    BY RecomputeRows
  <2>2. \A c \in TouchedSubjects(p) : Alive(p, c)
    BY <2>1 DEF Chased, Peopled
  <2>3. \A c \in Subjects(p) : Alive(p, c)
    BY DEF Chased, Peopled
  <2>4. DOMAIN value'[p] \subseteq Subjects(p) \union TouchedSubjects(p)
    BY RecomputeRows
  <2> QED
    BY <2>2, <2>3, <2>4 DEF Subjects
<1>3. \A q \in plib.figures : \A c \in Subjects(q)' : Alive(q, c)
  BY <1>2, RecomputeRows DEF Chased, Peopled, Subjects
<1>4. ASSUME NEW t \in touched', t \notin touched
      PROVE  Alive(t[1], t[2])
  <2>1. PICK q \in plib.figures : p \in q.sources /\
          \E r \in Moved(value[p], value'[p]) : t \in Touch(q, ReaderKeys(q, p, r))
    BY <1>4, RecomputeRows
  <2>2. PICK r \in Moved(value[p], value'[p]) : t \in Touch(q, ReaderKeys(q, p, r))
    BY <2>1
  <2>3. t[1] = q /\ t[2] \in ReaderKeys(q, p, r)
    BY <2>2 DEF Touch
  <2>4. Alive(p, r)
    BY <1>2 DEF Moved
  <2> QED
    BY <2>1, <2>3, <2>4, ReaderAlive DEF Exact, Chased, Following, Warming
<1>5. \A t \in touched' : Alive(t[1], t[2])
  BY <1>4 DEF Chased, Peopled
<1> QED
  BY <1>1, <1>3, <1>5 DEF Peopled, Steady

\* A row of a reader that it does not mark is what it was.
LEMMA RecomputeUnmarked ==
  ASSUME Exact, Following, Chased, Steady, UNCHANGED held, NEW p \in plib.figures, Recompute(p),
         NEW q \in Quiet, q # p, NEW c \in Reach(q), <<q, c>> \notin touched'
  PROVE  Evaluate(q, c)' = Evaluate(q, c)
<1>1. q \in plib.figures /\ plib \in Libraries /\ Followed(q) /\ q.sources \subseteq plib.figures
  BY SourcesDeclared DEF Quiet, Exact, TypeOK, Following, Warming
<1>2. Members(q, c)' = Members(q, c)
  BY DEF Members
<1>3. ASSUME NEW s \in q.sources, NEW a \in PartAddresses(q, c), NEW r, Under(a, r),
             r \in Moved(value[s], value'[s])
      PROVE  FALSE
  <2>1. s = p
    BY <1>1, <1>3, NoneMoved, RecomputeRows
  <2>2. q.grain => c[2] # None
    <3> SUFFICES ASSUME q.grain
                 PROVE  c[2] # None
      OBVIOUS
    <3>1. q.scopeIndex # None /\ c \in BucketKeys(q.scopeIndex)
      BY <1>1 DEF Followed, Reach
    <3> QED
      BY <1>1, <3>1 DEF BucketKeys, Chased, Housed
  <2>3. c \in ReaderKeys(q, p, r)
    BY <1>1, <1>3, <2>1, <2>2, ReaderReached
  <2>4. <<q, c>> \in Touch(q, ReaderKeys(q, p, r))
    BY <2>3 DEF Touch
  <2> QED
    BY <1>1, <1>3, <2>1, <2>4, RecomputeRows
<1>4. Parts(q, c)' = Parts(q, c)
  BY <1>2, <1>3, PartsStand
<1>5. BucketKeys(q.scopeIndex)' = BucketKeys(q.scopeIndex)
  BY DEF BucketKeys
<1>6. \A m : fact'[m] = fact[m]
  BY DEF Steady
<1> QED
  BY <1>2, <1>4, <1>5, <1>6, ReadsDecide

LEMMA RecomputeChased ==
  ASSUME Exact, Following, Chased, Steady, Quiet' = Quiet, NEW p \in plib.figures, Recompute(p)
  PROVE  Chased'
<1>1. /\ pc = "recompute" /\ pc' = "recompute" /\ left' = left \ {p} /\ p \in left
      /\ \A q \in left : p.depth <= q.depth
      /\ UNCHANGED <<fact, held>>
  BY DEF Recompute, Shallowest
<1>2. TypeOK /\ plib \in Libraries /\ \A q \in plib.figures : Followed(q)
  BY DEF Exact, TypeOK, Following, Warming
<1>3. Housed'
  BY <1>1, <1>2, HousedFrame DEF Chased
<1>4. Peopled'
  BY <1>1, RecomputePeopled
<1>5. \A q \in plib.figures : ScopesOf(q) = Reach(q) /\ ScopesOf(q)' = Reach(q)
  <2>1. \A q \in plib.figures : ScopesOf(q) = Reach(q) /\ ScopesOf(q)' = Reach(q)'
    BY <1>2, <1>4, SubjectsReach, SubjectsReachNext DEF Chased, Steady
  <2>2. \A q : Reach(q)' = Reach(q)
    BY <1>1, RosterFrame, ReachFrame DEF BucketKeys
  <2> QED
    BY <2>1, <2>2
<1>6. \A q \in Quiet : q \in plib.figures /\ (q # p => value'[q] = value[q] /\ Subjects(q)' = Subjects(q))
  BY RecomputeRows DEF Quiet, Subjects
<1>7. \A q \in Quiet : \A c : q # p /\ Marked(q, c) => Marked(q, c)'
  BY <1>1, RecomputeRows DEF Marked, Early
<1>8. DOMAIN value'[p] = (Subjects(p) \union TouchedSubjects(p)) \ {c \in TouchedSubjects(p) : Emptied(p, c)}
      /\ \A c \in DOMAIN value'[p] :
           value'[p][c] = IF c \in TouchedSubjects(p) THEN Evaluate(p, c) ELSE value[p][c]
  BY RecomputeRows
<1>9. \A c : Evaluate(p, c)' = Evaluate(p, c)
  <2>1. p \notin p.sources
    <3>1. p.depth <= p.depth
      BY <1>2, LibraryAssumption
    <3> QED
      BY <1>2, <3>1, NotRead
  <2>2. \A q \in p.sources : value'[q] = value[q]
    BY <1>2, <2>1, SourcesDeclared, RecomputeRows
  <2> QED
    BY <1>1, <2>2, EvaluateFrame
<1>10. Accounted'
  <2> SUFFICES ASSUME NEW q \in Quiet, NEW c \in Reach(q), c \in Subjects(q)'
               PROVE  value'[q][c] = Evaluate(q, c)' \/ Marked(q, c)'
    BY <1>1, <1>5, <1>6 DEF Accounted
  <2>1. CASE q = p /\ c \in TouchedSubjects(p)
    BY <1>8, <1>9, <2>1 DEF Subjects
  <2>2. CASE q = p /\ c \notin TouchedSubjects(p)
    <3>1. c \in Subjects(p) /\ ~Marked(p, c) /\ ~Unmarked(p, c)
      BY <1>1, <1>8, <2>2, RecomputeRows DEF Subjects, Marked, Unmarked
    <3>2. value[p][c] = Evaluate(p, c)
      BY <1>1, <1>5, <1>6, <2>2, <3>1 DEF Chased, Accounted
    <3> QED
      BY <1>8, <1>9, <2>2, <3>2 DEF Subjects
  <2>3. CASE q # p
    <3>1. value[q][c] = Evaluate(q, c) \/ Marked(q, c)
      BY <1>1, <1>5, <1>6, <2>3 DEF Chased, Accounted, Unmarked
    <3>2. CASE <<q, c>> \notin touched'
      BY <1>1, <1>6, <1>7, <2>3, <3>1, <3>2, RecomputeUnmarked
    <3>3. CASE <<q, c>> \in touched' /\ <<q, c>> \notin touched
      <4>1. PICK s \in plib.figures : p \in s.sources /\
              \E r \in Moved(value[p], value'[p]) : <<q, c>> \in Touch(s, ReaderKeys(s, p, r))
        BY <3>3, RecomputeRows
      <4>2. s = q
        BY <4>1 DEF Touch
      <4>3. p.depth < q.depth /\ p.depth \in Nat /\ q.depth \in Nat
        BY <1>2, <1>6, <4>1, <4>2, LibraryAssumption
      <4>4. q \in left
        <5> SUFFICES ASSUME q \notin left
                     PROVE  FALSE
          OBVIOUS
        <5>1. q.depth <= p.depth
          BY <1>1, <1>6 DEF Chased, Sorted
        <5> QED
          BY <4>3, <5>1
      <4> QED
        BY <1>1, <2>3, <3>3, <4>4 DEF Marked, Early
    <3>4. CASE <<q, c>> \in touched /\ q \in left
      BY <1>1, <1>6, <1>7, <2>3, <3>4 DEF Marked, Early
    <3>5. CASE <<q, c>> \in touched /\ q \notin left
      <4>1. value[q][c] = Evaluate(q, c)
        BY <1>1, <3>1, <3>5 DEF Marked
      <4>2. p \notin q.sources
        <5>1. q.depth <= p.depth
          BY <1>1, <1>6, <3>5 DEF Chased, Sorted
        <5> QED
          BY <1>2, <1>6, <5>1, NotRead
      <4>3. \A s \in q.sources : value'[s] = value[s]
        BY <1>2, <1>6, <4>2, SourcesDeclared, RecomputeRows
      <4> QED
        BY <1>1, <1>6, <2>3, <4>1, <4>3, EvaluateFrame
    <3> QED
      BY <3>2, <3>3, <3>4, <3>5
  <2> QED
    BY <2>1, <2>2, <2>3
<1>11. Lasting'
  <2> SUFFICES ASSUME NEW q \in Quiet, NEW c \in Subjects(q)', q.grain
               PROVE  c \in BucketKeys(q.scopeIndex) \/ Marked(q, c)'
    BY <1>1 DEF Lasting, BucketKeys
  <2>1. CASE q = p
    <3>1. CASE c \in TouchedSubjects(p)
      BY <1>2, <1>8, <2>1, <3>1 DEF Subjects, Emptied, Followed
    <3>2. CASE c \notin TouchedSubjects(p)
      BY <1>1, <1>8, <2>1, <3>2, RecomputeRows DEF Subjects, Marked, Chased, Lasting
    <3> QED
      BY <3>1, <3>2
  <2>2. CASE q # p
    BY <1>1, <1>6, <1>7, <2>2 DEF Chased, Lasting
  <2> QED
    BY <2>1, <2>2
<1>12. Complete'
  <2> SUFFICES ASSUME ~wrote
               PROVE  written = {} /\ touched' = {} /\ \A q \in Quiet : Reach(q) \subseteq Subjects(q)'
    BY <1>5, <1>6 DEF Complete, Steady
  <2>1. written = {} /\ touched = {} /\ \A q \in Quiet : Reach(q) \subseteq Subjects(q)
    BY <1>1, <1>5, <1>6 DEF Chased, Complete
  <2>2. TouchedSubjects(p) = {}
    BY <2>1 DEF TouchedSubjects
  <2>3. DOMAIN value'[p] = DOMAIN value[p] /\ \A c \in DOMAIN value[p] : value'[p][c] = value[p][c]
    BY <1>8, <2>2 DEF Subjects
  <2>4. Moved(value[p], value'[p]) = {}
    BY <2>3 DEF Moved
  <2> QED
    BY <1>6, <2>1, <2>3, <2>4, RecomputeRows DEF Subjects
<1>13. Righted' /\ Sorted'
  BY <1>1 DEF Righted, Sorted, Chased, Steady
<1> QED
  BY <1>3, <1>4, <1>10, <1>11, <1>12, <1>13 DEF Chased

\* The steps that file nothing, and compute in a loop of the warm branch.
LEMMA WarmRecompute ==
  ASSUME Warm, Exact', NEW p \in plib.figures, Recompute(p)
  PROVE  Warm'
<1> USE DEF Warm
<1>1. /\ Steady /\ pc = "recompute" /\ pc' = "recompute"
      /\ UNCHANGED <<held, built, pointer, rebuild, todo, cold, late>>
  BY DEF Recompute, Steady, request, history
<1>2. (Warming' <=> Warming) /\ (Following' => Following) /\ Pending' = Pending
  BY <1>1, FollowedSoFar DEF Pending, Steady
<1>3. ASSUME Warming
      PROVE  Based'
  BY <1>1, <1>3, BasedFrame DEF Underway
<1>4. Stale' = Stale /\ Quiet' = Quiet
  BY <1>1, HealedFrame DEF Quiet, Steady
<1>5. ASSUME Following
      PROVE  Chased'
  BY <1>1, <1>4, <1>5, RecomputeChased DEF Underway, Following
<1> QED
  BY <1>1, <1>2, <1>3, <1>5 DEF Following, Underway, WarmPassExact

\* What was marked is recomputed, and what was filed is in place.
LEMMA WarmRecomputeEnds ==
  ASSUME Warm, Exact', RecomputeEnds
  PROVE  Warm'
<1> USE DEF Warm
<1>1. /\ Steady /\ pc = "recompute" /\ pc' = "reindex" /\ left = {} /\ todo' = Stale /\ touched' = {}
      /\ UNCHANGED <<fact, held, built, value, pointer, rebuild, left, cold, late>>
  BY DEF RecomputeEnds, Steady, tables, request, history
<1>2. TypeOK
  BY DEF Exact
<1>3. (Warming' <=> Warming) /\ (Following' => Following) /\ Pending' = Pending
  BY <1>1, FollowedSoFar DEF Pending, Steady
<1>4. Quiet' = Quiet /\ plib' = plib
  BY <1>1 DEF Quiet, Steady
<1>5. ASSUME Warming
      PROVE  Based'
  <2>1. Landed /\ Apart /\ InPlace
    BY <1>1, <1>5 DEF Underway, Based
  <2>2. \A i : Wanted(i, now)' = Wanted(i, now)
    BY <1>1, WantedFrame DEF Steady
  <2>3. ASSUME NEW i \in plib.indexes \ Stale
        PROVE  held[i.name] = Wanted(i, now)
    <3>1. \A k \in Keys : BucketsHolding(i, k) = Due(i, k)
      BY <1>1, <2>1 DEF InPlace, Early, Unfiled
    <3> QED
      BY <1>2, <3>1, HeldIsWanted
  <2>4. InPlace'
    BY <1>1, <1>4, <2>2, <2>3 DEF InPlace, Early, Late
  <2>5. Apart' /\ Landed'
    BY <1>1, <1>4, <2>1 DEF Apart, Landed, Early, Steady
  <2> QED
    BY <2>4, <2>5 DEF Based
<1>6. ASSUME Following
      PROVE  Chased'
  <2>1. Chased /\ \A p \in plib.figures : Followed(p)
    BY <1>1, <1>6 DEF Underway, Following, Warming
  <2>2. Housed' /\ Peopled'
    BY <1>1, <1>2, <1>4, <2>1, HousedFrame, PeopledFrame DEF Chased, Subjects
  <2>3. \A p \in Quiet : p \in plib.figures
    BY DEF Quiet
  <2>4. \A p \in plib.figures : /\ ScopesOf(p)' = ScopesOf(p) /\ Subjects(p)' = Subjects(p)
                                /\ \A c : Evaluate(p, c)' = Evaluate(p, c)
    BY <1>1, <1>2, StandFrame
  <2>5. \A p, c : ~Marked(p, c) /\ ~Unmarked(p, c)
    BY <1>1 DEF Marked, Unmarked
  <2>6. Accounted'
    BY <1>1, <1>4, <2>1, <2>3, <2>4, <2>5 DEF Chased, Accounted
  <2>7. Lasting'
    BY <1>1, <1>4, <2>1, <2>3, <2>4, <2>5 DEF Chased, Lasting, BucketKeys
  <2>8. Complete'
    BY <1>1, <1>4, <2>1, <2>3, <2>4 DEF Chased, Complete, Steady
  <2>9. Righted' /\ Sorted'
    BY <1>1 DEF Righted, Sorted
  <2> QED
    BY <2>2, <2>6, <2>7, <2>8, <2>9 DEF Chased
<1> QED
  BY <1>1, <1>3, <1>5, <1>6 DEF Following, Underway, WarmPassExact

\* A rebuilt grouping is in place, and no followed figure is over it.
LEMMA WarmReindex ==
  ASSUME Warm, Exact', NEW i \in plib.indexes, Reindex(i)
  PROVE  Warm'
<1> USE DEF Warm
<1>1. /\ Steady /\ pc = "reindex" /\ pc' = "reindex" /\ i \in todo /\ todo' = todo \ {i}
      /\ held' = [held EXCEPT ![i.name] = Wanted(i, now)]
      /\ UNCHANGED <<fact, value, pointer, rebuild, left, cold, late, touched>>
  BY DEF Reindex, Foremost, Steady, request, history
<1>2. TypeOK /\ plib \in Libraries
  BY DEF Exact, TypeOK
<1>3. (Warming' <=> Warming) /\ (Following' => Following) /\ Pending' = Pending
  BY <1>1, FollowedSoFar DEF Pending, Steady
<1>4. Quiet' = Quiet /\ plib' = plib
  BY <1>1 DEF Quiet, Steady
<1>5. /\ held'[i.name] = Wanted(i, now)
      /\ \A j \in plib.indexes : j # i => held'[j.name] = held[j.name]
  <2>1. \A j \in plib.indexes : j.name \in IndexNames /\ (j # i => j.name # i.name)
    BY <1>2, OneName
  <2> QED
    BY <1>1, <1>2, <2>1 DEF TypeOK
<1>6. ASSUME Warming
      PROVE  Based'
  <2>1. Landed /\ Apart /\ InPlace
    BY <1>1, <1>6 DEF Underway, Based
  <2>2. \A j : Wanted(j, now)' = Wanted(j, now)
    BY <1>1, WantedFrame DEF Steady
  <2>3. \A j \in plib.indexes \ todo' : held'[j.name] = Wanted(j, now)
    BY <1>1, <1>5, <2>1 DEF InPlace
  <2>4. InPlace'
    BY <1>1, <1>4, <2>2, <2>3 DEF InPlace, Early, Late
  <2>5. Apart' /\ Landed'
    BY <1>1, <1>4, <2>1 DEF Apart, Landed, Early, Steady
  <2> QED
    BY <2>4, <2>5 DEF Based
<1>7. ASSUME Following
      PROVE  Chased'
  <2>1. Chased /\ Based /\ Homed /\ \A p \in plib.figures : Followed(p)
    BY <1>1, <1>7 DEF Underway, Following, Warming
  <2>2. \A p \in Quiet : p \in plib.figures /\ p.sources \subseteq Quiet /\ i \notin Indexes(p)
    BY <1>1, <2>1 DEF Quiet, Based, Apart
  <2>3. \A p \in Quiet : \A j \in Indexes(p) : held'[j.name] = held[j.name]
    <3>1. \A p \in Quiet : \A j \in Indexes(p) : j \in plib.indexes /\ j # i
      BY <1>2, <2>2, LibraryAssumption
    <3> QED
      BY <1>5, <3>1
  <2>4. Accounted' /\ Lasting' /\ Complete'
    BY <1>1, <1>2, <1>4, <2>1, <2>2, <2>3, QuietFrame DEF Chased
  <2>5. Peopled'
    BY <1>1, <2>1, PeopledFrame DEF Chased, Subjects
  <2>6. Housed'
    <3>1. \A p, c : Alive(p, c)' <=> Alive(p, c)
      BY <1>1, RosterFrame DEF Alive, Steady
    <3> SUFFICES ASSUME NEW p \in plib.figures, p.scopeIndex # None, NEW r \in held'[p.scopeIndex.name]
                 PROVE  /\ Alive(p, r[2])
                        /\ p \in Quiet => (p.grain => r[2][2] # None)
                                            /\ (p.scopeIndex \in Own => r[2][1] = r[1])
      BY <1>4, <3>1 DEF Housed
    <3>2. p.scopeIndex \in plib.indexes /\ p.scopeIndex \in Indexes(p)
      BY <1>2, ScopeIndexDeclared DEF Indexes
    <3>3. CASE p.scopeIndex # i
      BY <1>5, <2>1, <3>2, <3>3 DEF Chased, Housed
    <3>4. CASE p.scopeIndex = i
      <4>1. r \in Wanted(i, now) /\ p \notin Quiet
        BY <1>5, <2>2, <3>2, <3>4
      <4>2. r[2] \in Coords
        BY <4>1 DEF Wanted, Filing, BucketsOf
      <4> QED
        BY <2>1, <3>4, <4>1, <4>2 DEF Homed, Alive
    <3> QED
      BY <3>3, <3>4
  <2>7. Righted' /\ Sorted'
    BY <1>1 DEF Righted, Sorted
  <2> QED
    BY <2>4, <2>5, <2>6, <2>7 DEF Chased
<1> QED
  BY <1>1, <1>3, <1>6, <1>7 DEF Following, Underway, WarmPassExact


\* A step after the groupings are in place that moves no followed figure's rows.
LEMMA LateFrame ==
  ASSUME Exact, Following, Based, Chased, Steady, UNCHANGED <<held, rebuild, touched>>,
         pc \in {"reindex", "heal", "sweep"}, pc' \in {"heal", "sweep"},
         \A p \in plib.figures \ rebuild : value'[p] = value[p]
  PROVE  Housed' /\ Accounted' /\ Lasting' /\ Complete'
<1>1. Quiet = plib.figures \ rebuild /\ Quiet' = Quiet
  BY DEF Quiet, Steady
<1>2. TypeOK /\ \A p \in plib.figures : Followed(p)
  BY DEF Exact, Following, Warming
<1>3. \A p \in Quiet : p.sources \subseteq Quiet
  BY DEF Based, Apart
<1>4. Accounted' /\ Lasting' /\ Complete'
  BY <1>1, <1>2, <1>3, QuietFrame DEF Chased
<1>5. Housed'
  BY <1>1, <1>2, HousedFrame DEF Chased
<1> QED
  BY <1>4, <1>5

\* And what it keeps of the groupings, with every one of them in place.
LEMMA LateBased ==
  ASSUME Based, Steady, UNCHANGED <<held, rebuild, todo>>, pc' \in Late,
         \/ pc \in Late
         \/ pc = "reindex" /\ todo = {}
  PROVE  Based'
<1>1. Quiet' = Quiet /\ plib' = plib /\ pc \notin {"begin"}
  BY DEF Quiet, Steady, Late
<1>2. \A i : Wanted(i, now)' = Wanted(i, now)
  BY WantedFrame DEF Steady
<1>3. \A i \in plib.indexes : held[i.name] = Wanted(i, now)
  BY DEF Based, InPlace
<1>4. InPlace'
  BY <1>1, <1>2, <1>3 DEF InPlace, Early, Late
<1>5. Apart' /\ Landed'
  BY <1>1 DEF Based, Apart, Landed, Early, Late, Steady
<1> QED
  BY <1>4, <1>5 DEF Based

\* From loop to loop, once the groupings are in place.
LEMMA WarmTurns ==
  ASSUME Warm, Exact', ~cold, ReindexEnds \/ (BackfillEnds /\ pc = "heal")
  PROVE  Warm'
<1> USE DEF Warm
<1>1. /\ Steady /\ pc' \in {"heal", "sweep"} /\ left' = rebuild
      /\ \/ pc = "reindex" /\ todo = {} /\ pc' = "heal"
         \/ pc = "heal" /\ left = {} /\ pc' = "sweep"
      /\ UNCHANGED <<fact, held, built, value, pointer, rebuild, todo, touched, cold, late>>
  BY DEF ReindexEnds, BackfillEnds, Steady, tables, request, history
<1>2. TypeOK /\ Steady
  BY <1>1 DEF Exact
<1>3. (Warming' <=> Warming) /\ (Following' => Following) /\ Pending' = Pending
  BY <1>1, FollowedSoFar DEF Pending, Steady
<1>4. ASSUME Warming
      PROVE  Based'
  <2>1. Based
    BY <1>1, <1>4 DEF Underway
  <2> QED
    BY <1>1, <2>1, LateBased DEF Late
<1>5. ASSUME Following
      PROVE  Chased'
  <2>1. Chased /\ Based
    BY <1>1, <1>5 DEF Underway, Following
  <2>2. Housed' /\ Accounted' /\ Lasting' /\ Complete'
    BY <1>1, <1>5, <2>1, LateFrame
  <2>3. Peopled'
    BY <1>1, <2>1, PeopledFrame DEF Chased, Subjects
  <2>4. \A p : Fresh(p)' <=> Fresh(p)
    BY <1>1, ControlFrame
  <2>5. Righted'
    BY <1>1, <2>1, <2>4 DEF Chased, Righted
  <2>6. Sorted'
    BY <1>1 DEF Sorted
  <2> QED
    BY <2>2, <2>3, <2>5, <2>6 DEF Chased
<1> QED
  BY <1>1, <1>3, <1>4, <1>5 DEF Following, Underway, WarmPassExact

\* A figure recomputed outright is fresh, and moves no followed one.
LEMMA WarmHeal ==
  ASSUME Warm, Exact', NEW p \in plib.figures, Backfill(p), pc = "heal"
  PROVE  Warm'
<1> USE DEF Warm
<1> DEFINE rows == With(p, BackfillRows(p))
<1>1. /\ Steady /\ pc' = "heal" /\ left' = left \ {p} /\ p \in left /\ \A q \in left : p.depth <= q.depth
      /\ value' = [value EXCEPT ![p] = rows]
      /\ UNCHANGED <<fact, held, built, pointer, rebuild, todo, touched, cold>>
      /\ (late => late')
  BY DEF Backfill, Shallowest, Steady, request
<1>2. TypeOK /\ plib \in Libraries
  BY DEF Exact, TypeOK
<1>3. (Warming' <=> Warming) /\ (Following' => Following) /\ Pending' = Pending
  BY <1>1, FollowedSoFar DEF Pending, Steady
<1>4. ASSUME Warming
      PROVE  Based'
  <2>1. Based
    BY <1>4 DEF Underway
  <2> QED
    BY <1>1, <2>1, LateBased DEF Late
<1>5. /\ value'[p] = rows
      /\ ScopesOf(p)' = ScopesOf(p)
      /\ \A c : Evaluate(p, c)' = Evaluate(p, c)
      /\ \A q \in plib.figures : q # p /\ q.depth <= p.depth => (Fresh(q)' <=> Fresh(q))
      /\ \A q \in plib.figures : q # p => value'[q] = value[q]
  <2> HIDE DEF rows
  <2> QED
    BY <1>1, OneFigure
<1>6. Subjects(p)' = Subjects(p) \union ScopesOf(p) /\ BackfillRows(p) = ScopesOf(p)
  BY <1>5 DEF Subjects, With, BackfillRows
<1>7. ASSUME Following
      PROVE  Chased'
  <2>1. Chased /\ Based /\ \A q \in plib.figures : Followed(q)
    BY <1>7 DEF Underway, Following, Warming
  <2>2. left \subseteq rebuild /\ \A q \in rebuild \ left : Fresh(q) /\ q.depth <= p.depth
    BY <1>1, <2>1 DEF Chased, Righted, Sorted
  <2>3. Housed' /\ Accounted' /\ Lasting' /\ Complete'
    BY <1>1, <1>5, <1>7, <2>1, <2>2, LateFrame
  <2>4. Peopled'
    <3>1. \A q, c : Alive(q, c)' <=> Alive(q, c)
      BY <1>1, RosterFrame DEF Alive, Steady
    <3>2. \A c \in ScopesOf(p) : Alive(p, c)
      BY <1>2, <2>1, SubjectsReach, ReachAlive DEF Chased
    <3> QED
      BY <1>1, <1>5, <1>6, <2>1, <3>1, <3>2 DEF Chased, Peopled, Subjects, Steady
  <2>5. Fresh(p)'
    <3>1. \A c \in ScopesOf(p) : rows[c] = Evaluate(p, c)
      BY <1>6 DEF With
    <3> QED
      BY <1>5, <1>6, <3>1 DEF Fresh
  <2>6. Righted'
    <3>1. \A q \in rebuild : q \in plib.figures
      BY <1>2 DEF TypeOK
    <3> QED
      BY <1>1, <1>5, <2>2, <2>5, <3>1 DEF Righted
  <2>7. Sorted'
    BY <1>1, <2>1, <2>2 DEF Chased, Sorted
  <2> QED
    BY <2>3, <2>4, <2>6, <2>7 DEF Chased
<1> QED
  BY <1>1, <1>3, <1>4, <1>7 DEF Following, Underway, WarmPassExact

\* A closing step that moves no part of a row computed before it leaves the row.
LEMMA HeardFrame ==
  ASSUME Exact, NEW p \in plib.figures, UNCHANGED <<fact, held>>, ~Unheard(p),
         \A q \in plib.figures : q # p => value'[q] = value[q],
         NEW q \in plib.figures, NEW c \in ScopesOf(q) \intersect Subjects(q)
  PROVE  Evaluate(q, c)' = Evaluate(q, c)
<1>1. plib \in Libraries
  BY DEF Exact, TypeOK
<1>2. CASE p \notin q.sources
  BY <1>1, <1>2, SourcesDeclared, EvaluateFrame
<1>3. CASE p \in q.sources
  <2>1. Parts(q, c)' = Parts(q, c)
    BY <1>3 DEF Unheard
  <2>2. Members(q, c)' = Members(q, c) /\ BucketKeys(q.scopeIndex)' = BucketKeys(q.scopeIndex)
    BY DEF Members, BucketKeys
  <2>3. \A m : fact'[m] = fact[m]
    OBVIOUS
  <2> QED
    BY <2>1, <2>2, <2>3, ReadsDecide
<1> QED
  BY <1>2, <1>3

\* The sweep of a recomputed figure.
LEMMA WarmSweep ==
  ASSUME Warm, Exact', NEW p \in plib.figures, RemoveDeparted(p), pc = "sweep"
  PROVE  Warm'
<1> USE DEF Warm
<1> DEFINE rows == Without(p, DepartedRows(p))
<1>1. /\ Steady /\ pc' = "sweep" /\ left' = left \ {p} /\ p \in left
      /\ value' = [value EXCEPT ![p] = rows]
      /\ UNCHANGED <<fact, held, built, pointer, rebuild, todo, touched, cold>>
      /\ late' = (late \/ Unheard(p))
  BY DEF RemoveDeparted, Foremost, Steady, request
<1>2. TypeOK /\ plib \in Libraries /\ (late => late')
  BY <1>1 DEF Exact, TypeOK
<1>3. (Warming' <=> Warming) /\ (Following' => Following) /\ Pending' = Pending
  BY <1>1, <1>2, FollowedSoFar DEF Pending, Steady
<1>4. ASSUME Warming
      PROVE  Based'
  <2>1. Based
    BY <1>4 DEF Underway
  <2> QED
    BY <1>1, <2>1, LateBased DEF Late
<1>5. value'[p] = rows /\ \A q \in plib.figures : q # p => value'[q] = value[q]
  <2> HIDE DEF rows
  <2> QED
    BY <1>1, OneFigure
<1>6. /\ Subjects(p)' = Subjects(p) \ DepartedRows(p)
      /\ \A c \in Subjects(p)' : value'[p][c] = value[p][c]
      /\ \A q \in plib.figures : q # p => Subjects(q)' = Subjects(q)
  BY <1>5 DEF Subjects, Without
<1>7. ASSUME Following'
      PROVE  Chased'
  <2>1. Chased /\ Based /\ \A q \in plib.figures : Followed(q)
    BY <1>3, <1>7 DEF Underway, Following, Warming
  <2>2. Following /\ ~Unheard(p)
    BY <1>1, <1>3, <1>7 DEF Following
  <2>3. left \subseteq rebuild /\ rebuild \subseteq plib.figures
        /\ \A q \in rebuild : Fresh(q) /\ (q \in left \/ Living(q))
    BY <1>2, <2>1 DEF Chased, Righted, Sorted, TypeOK
  <2>4. Housed' /\ Accounted' /\ Lasting' /\ Complete'
    BY <1>1, <1>5, <2>1, <2>2, <2>3, LateFrame
  <2>5. Peopled'
    <3>1. \A q \in plib.figures : Subjects(q)' \subseteq Subjects(q)
      BY <1>6
    <3> QED
      BY <1>1, <2>1, <3>1, PeopledFrame DEF Chased
  <2>6. \A q \in plib.figures : ScopesOf(q) = Reach(q) /\ ScopesOf(q)' = ScopesOf(q)
    <3>1. \A q : Reach(q)' = Reach(q)
      BY <1>1, RosterFrame, ReachFrame DEF BucketKeys
    <3> QED
      BY <1>1, <1>2, <2>1, <2>5, <3>1, SubjectsReach, SubjectsReachNext DEF Chased, Steady
  <2>7. ASSUME NEW q \in rebuild
        PROVE  Fresh(q)'
    <3>1. q \in plib.figures /\ Fresh(q)
      BY <2>3
    <3>2. \A c \in ScopesOf(q) : Evaluate(q, c)' = Evaluate(q, c)
      BY <1>1, <1>5, <2>2, <3>1, HeardFrame DEF Fresh
    <3>3. \A c \in ScopesOf(q) : c \in Subjects(q)'
      <4>1. CASE q = p
        <5>1. \A c \in ScopesOf(p) : Alive(p, c)
          BY <1>2, <2>1, <2>6, ReachAlive DEF Chased
        <5>2. \A c \in ScopesOf(p) : c \notin DepartedRows(p)
          BY <5>1 DEF DepartedRows, Alive
        <5> QED
          BY <1>6, <3>1, <4>1, <5>2 DEF Fresh
      <4>2. CASE q # p
        BY <1>6, <3>1, <4>2 DEF Fresh
      <4> QED
        BY <4>1, <4>2
    <3>4. \A c \in Subjects(q)' : value'[q][c] = value[q][c]
      BY <1>5, <1>6, <3>1
    <3> QED
      BY <2>6, <3>1, <3>2, <3>3, <3>4 DEF Fresh
  <2>8. \A kind : Roster(kind)' = Roster(kind)
    BY <1>1, RosterFrame
  <2>9. \A q \in rebuild : q \in left' \/ Living(q)'
    <3>1. Living(p)'
      BY <1>6, <2>6, <2>8 DEF Living, DepartedRows
    <3>2. ASSUME NEW q \in rebuild, q # p, q \notin left'
          PROVE  Living(q)'
      <4>1. Living(q) /\ q \in plib.figures
        BY <1>1, <2>3, <3>2
      <4> QED
        BY <1>6, <2>6, <2>8, <3>2, <4>1 DEF Living
    <3> QED
      BY <3>1, <3>2
  <2>10. Righted'
    BY <1>1, <2>7, <2>9 DEF Righted
  <2>11. Sorted'
    BY <1>1, <2>3 DEF Sorted
  <2> QED
    BY <2>4, <2>5, <2>10, <2>11 DEF Chased
<1> QED
  BY <1>1, <1>3, <1>4, <1>7 DEF Underway, WarmPassExact

\* The sweep over, every figure is right but for the rows it may lack.
LEMMA WarmSwept ==
  ASSUME Warm, Exact', RemoveDepartedEnds, pc = "sweep"
  PROVE  Warm'
<1> USE DEF Warm
<1>1. /\ Steady /\ pc' = "gaps" /\ left = {}
      /\ UNCHANGED <<fact, held, built, value, pointer, rebuild, todo, touched, cold, late>>
  BY DEF RemoveDepartedEnds, Steady, tables, request, history
<1>2. TypeOK /\ plib \in Libraries
  BY DEF Exact, TypeOK
<1>3. (Warming' <=> Warming) /\ (Following' => Following) /\ Pending' = Pending
  BY <1>1, FollowedSoFar DEF Pending, Steady
<1>4. ASSUME Warming
      PROVE  Based'
  <2>1. Based
    BY <1>4 DEF Underway
  <2> QED
    BY <1>1, <2>1, LateBased DEF Late
<1>5. ASSUME Following
      PROVE  Chased'
  <2>1. Chased /\ Based /\ \A q \in plib.figures : Followed(q)
    BY <1>5 DEF Underway, Following, Warming
  <2>2. Housed'
    <3>1. Quiet' = Quiet
      BY <1>1 DEF Quiet, Steady
    <3> QED
      BY <1>1, <1>2, <2>1, <3>1, HousedFrame DEF Chased
  <2>3. Peopled'
    BY <1>1, <2>1, PeopledFrame DEF Chased, Subjects
  <2>4. Quiet = plib.figures \ rebuild /\ \A p, c : ~Marked(p, c) /\ ~Unmarked(p, c)
    BY DEF Quiet, Marked, Unmarked, Early
  <2>5. ASSUME NEW p \in plib.figures
        PROVE  /\ Living(p)
               /\ \A c \in ScopesOf(p) \intersect Subjects(p) : value[p][c] = Evaluate(p, c)
               /\ ~wrote => ScopesOf(p) \subseteq Subjects(p)
    <3>1. CASE p \in rebuild
      BY <1>1, <2>1, <3>1 DEF Chased, Righted, Fresh
    <3>2. CASE p \in Quiet
      <4>1. \A c \in Subjects(p) : Alive(p, c)
        BY <2>1 DEF Chased, Peopled
      <4>2. ASSUME NEW c \in Subjects(p), p.grain
            PROVE  c \in ScopesOf(p)
        <5>1. p.scopeIndex # None /\ c \in BucketKeys(p.scopeIndex)
          BY <2>1, <2>4, <3>2, <4>2 DEF Chased, Lasting, Followed
        <5>2. c[2] # None
          BY <2>1, <3>2, <4>2, <5>1 DEF Chased, Housed, BucketKeys
        <5>3. c \in Reach(p)
          BY <4>1, <4>2, <5>1, <5>2 DEF Reach, Alive
        <5> QED
          BY <1>2, <2>1, <5>3, SubjectsReach DEF Chased
      <4>3. Living(p)
        BY <4>1, <4>2 DEF Living, Alive
      <4> QED
        BY <2>1, <2>4, <3>2, <4>3 DEF Chased, Accounted, Complete
    <3> QED
      BY <2>4, <3>1, <3>2
  <2>6. \A p \in plib.figures : /\ ScopesOf(p)' = ScopesOf(p) /\ Subjects(p)' = Subjects(p)
                                /\ \A c : Evaluate(p, c)' = Evaluate(p, c)
                                /\ Living(p)' <=> Living(p)
    BY <1>1, <1>2, StandFrame, ControlFrame
  <2>7. Righted'
    BY <1>1, <2>5, <2>6 DEF Righted, Steady
  <2>8. Accounted' /\ Lasting' /\ Complete' /\ Sorted'
    BY <1>1 DEF Accounted, Lasting, Complete, Sorted
  <2> QED
    BY <2>2, <2>3, <2>7, <2>8 DEF Chased
<1> QED
  BY <1>1, <1>3, <1>4, <1>5 DEF Following, Underway, WarmPassExact

\* A figure's missing rows filled in.
LEMMA WarmGaps ==
  ASSUME Warm, Exact', NEW p \in plib.figures, Backfill(p), pc = "gaps"
  PROVE  Warm'
<1> USE DEF Warm
<1> DEFINE rows == With(p, BackfillRows(p))
<1>1. /\ Steady /\ pc' = "gaps" /\ left' = left \ {p}
      /\ value' = [value EXCEPT ![p] = rows]
      /\ UNCHANGED <<fact, held, built, pointer, rebuild, todo, touched, cold>>
      /\ late' = (late \/ Unheard(p))
  BY DEF Backfill, Steady, request
<1>2. TypeOK /\ plib \in Libraries /\ (late => late')
  BY <1>1 DEF Exact, TypeOK
<1>3. (Warming' <=> Warming) /\ (Following' => Following) /\ Pending' = Pending
  BY <1>1, <1>2, FollowedSoFar DEF Pending, Steady
<1>4. ASSUME Warming
      PROVE  Based'
  <2>1. Based
    BY <1>4 DEF Underway
  <2> QED
    BY <1>1, <2>1, LateBased DEF Late
<1>5. /\ value'[p] = rows
      /\ \A c : Evaluate(p, c)' = Evaluate(p, c)
      /\ \A q \in plib.figures : q # p => value'[q] = value[q]
  <2> HIDE DEF rows
  <2> QED
    BY <1>1, OneFigure
<1>6. /\ Subjects(p)' = Subjects(p) \union ScopesOf(p)
      /\ \A c \in Subjects(p) : value'[p][c] = value[p][c]
      /\ \A c \in ScopesOf(p) \ Subjects(p) : value'[p][c] = Evaluate(p, c)
      /\ \A q \in plib.figures : q # p => Subjects(q)' = Subjects(q)
  <2>1. BackfillRows(p) = ScopesOf(p) \ Subjects(p)
    BY DEF BackfillRows
  <2> QED
    BY <1>5, <2>1 DEF Subjects, With
<1>7. ASSUME Following'
      PROVE  Chased'
  <2>1. Chased /\ Based /\ \A q \in plib.figures : Followed(q)
    BY <1>3, <1>7 DEF Underway, Following, Warming
  <2>2. Following /\ ~Unheard(p)
    BY <1>1, <1>3, <1>7 DEF Following
  <2>3. Housed'
    <3>1. Quiet' = Quiet
      BY <1>1 DEF Quiet, Steady
    <3> QED
      BY <1>1, <1>2, <2>1, <3>1, HousedFrame DEF Chased
  <2>4. \A c \in ScopesOf(p) : Alive(p, c)
    BY <1>2, <2>1, SubjectsReach, ReachAlive DEF Chased
  <2>5. Peopled'
    <3>1. \A q, c : Alive(q, c)' <=> Alive(q, c)
      BY <1>1, RosterFrame DEF Alive, Steady
    <3>2. \A q \in plib.figures : \A c \in Subjects(q)' : Alive(q, c)
      BY <1>6, <2>1, <2>4 DEF Chased, Peopled
    <3> QED
      BY <1>1, <2>1, <3>1, <3>2 DEF Chased, Peopled, Steady
  <2>6. \A q \in plib.figures : ScopesOf(q)' = ScopesOf(q)
    <3>1. \A q : Reach(q)' = Reach(q)
      BY <1>1, RosterFrame, ReachFrame DEF BucketKeys
    <3> QED
      BY <1>1, <1>2, <2>1, <2>5, <3>1, SubjectsReach, SubjectsReachNext DEF Chased, Steady
  <2>7. \A kind : Roster(kind)' = Roster(kind)
    BY <1>1, RosterFrame
  <2>8. ASSUME NEW q \in plib.figures
        PROVE  /\ Living(q)'
               /\ \A c \in ScopesOf(q) \intersect Subjects(q)' : value'[q][c] = Evaluate(q, c)'
               /\ ~wrote => ScopesOf(q) \subseteq Subjects(q)'
    <3>1. /\ Living(q)
          /\ \A c \in ScopesOf(q) \intersect Subjects(q) : value[q][c] = Evaluate(q, c)
          /\ ~wrote => ScopesOf(q) \subseteq Subjects(q)
      BY <2>1 DEF Chased, Righted
    <3>2. CASE q = p
      BY <1>5, <1>6, <2>4, <2>6, <2>7, <3>1, <3>2 DEF Living, Alive
    <3>3. CASE q # p
      <4>1. \A c \in ScopesOf(q) \intersect Subjects(q) : Evaluate(q, c)' = Evaluate(q, c)
        BY <1>1, <1>5, <2>2, HeardFrame
      <4> QED
        BY <1>5, <1>6, <2>6, <2>7, <3>1, <3>3, <4>1 DEF Living
    <3> QED
      BY <3>2, <3>3
  <2>9. Righted'
    BY <1>1, <2>6, <2>8 DEF Righted, Steady
  <2>10. Accounted' /\ Lasting' /\ Complete' /\ Sorted'
    BY <1>1 DEF Accounted, Lasting, Complete, Sorted
  <2> QED
    BY <2>3, <2>5, <2>9, <2>10 DEF Chased
<1> QED
  BY <1>1, <1>3, <1>4, <1>7 DEF Underway, WarmPassExact

\* The pass over, nothing is missing and everything is right.
LEMMA WarmDone ==
  ASSUME Warm, Exact', BackfillEnds, pc = "gaps"
  PROVE  Warm'
<1> USE DEF Warm
<1>1. /\ Steady /\ pc' = "done" /\ left = {} /\ ~cold
      /\ UNCHANGED <<fact, held, value, cold, late>>
  BY DEF BackfillEnds, Steady, tables, request, Exact, Branches, WarmLoops
<1> SUFFICES ASSUME sound, OwnersPresent(plib)', ~late, \A p \in plib.figures : Followed(p)
             PROVE  Agreed(plib, now)'
  BY <1>1 DEF Underway, WarmPassExact, Steady
<1>2. Warming
  BY <1>1 DEF Warming, Underway, Exact, Branches
<1>3. \A i \in plib.indexes : held[i.name] = Wanted(i, now)
  BY <1>2 DEF Underway, Based, InPlace, Late
<1>4. \A kind : Roster(kind)' = Roster(kind)
  BY <1>1, RosterFrame
<1>5. Homed
  <2> SUFFICES ASSUME NEW p \in plib.figures, p.scopeIndex # None, NEW r \in Wanted(p.scopeIndex, now)
               PROVE  r[2][1] \in Roster(p.scope) /\ (p.across # None => r[2][2] \in Roster(p.across))
    BY DEF Homed
  <2>1. p.scopeIndex \in plib.indexes
    BY ScopeIndexDeclared DEF Exact, TypeOK
  <2>2. r[2] \in BucketKeys(p.scopeIndex)'
    BY <1>1, <1>3, <2>1 DEF BucketKeys
  <2> QED
    BY <1>1, <1>4, <2>2 DEF OwnersPresent, Steady
<1>6. Righted
  BY <1>2, <1>5 DEF Underway, Following, Chased
<1>7. \A p \in plib.figures : Current(p)
  BY <1>1, <1>6 DEF Righted, Current, Fresh, Exact, Gapless
<1>8. \A p : Current(p)' <=> Current(p)
  BY <1>1, ControlFrame DEF Current
<1>9. \A i : Wanted(i, now)' = Wanted(i, now)
  BY <1>1, WantedFrame DEF Steady
<1> QED
  BY <1>1, <1>3, <1>7, <1>8, <1>9 DEF Agreed, Steady

\* A request that is not escalated: what it moves, and what it leaves.
LEMMA StartFacts ==
  ASSUME TypeOK, ~full',
         \/ \E batch \in Batches, asked \in BOOLEAN : PostFacts(batch, asked)
         \/ \E asked \in BOOLEAN : PostRun(asked)
  PROVE  /\ plib' = lib /\ now' = day /\ pc' = "begin" /\ sound' = Sound(lib)
         /\ touched' = {} /\ ~cold'
         /\ UNCHANGED <<held, built, pointer, value>>
         /\ \A k \in written' : k \in Keys /\ fact'[k] # None /\ KindOf[k] \notin ThroughKinds(lib)
         /\ \A k \in Keys \ written' : fact'[k] = fact[k]
         /\ ~wrote' => written' = {}
<1>1. CASE \E asked \in BOOLEAN : PostRun(asked)
  BY <1>1 DEF PostRun, Start, tables
<1>2. CASE \E batch \in Batches, asked \in BOOLEAN : PostFacts(batch, asked)
  <2> PICK batch \in Batches, asked \in BOOLEAN : PostFacts(batch, asked)
    BY <1>2
  <2> DEFINE moved == {k \in DOMAIN batch : batch[k] # None /\ batch[k] # fact[k]}
             deleted == {k \in DOMAIN batch : batch[k] = None}
  <2>1. /\ Start(moved, deleted, TRUE, asked)
        /\ fact' = [k \in Keys |-> IF k \in DOMAIN batch THEN batch[k] ELSE fact[k]]
        /\ UNCHANGED <<lib, day, tables, deaths>>
    BY DEF PostFacts
  <2>2. DOMAIN batch \subseteq Keys
    BY LibraryAssumption
  <2>3. deleted = {} /\ \A k \in moved : KindOf[k] \notin ThroughKinds(lib)
    <3> HIDE DEF moved, deleted
    <3> QED
      BY <2>1 DEF Start
  <2>4. /\ plib' = lib /\ now' = day /\ pc' = "begin" /\ sound' = Sound(lib)
        /\ touched' = {} /\ ~cold' /\ written' = moved /\ wrote'
    <3> HIDE DEF moved, deleted
    <3> QED
      BY <2>1 DEF Start
  <2>5. \A k \in moved : k \in Keys /\ fact'[k] # None
    BY <2>1, <2>2
  <2>6. \A k \in Keys \ moved : fact'[k] = fact[k]
    BY <2>1, <2>3
  <2> HIDE DEF moved, deleted
  <2> QED
    BY <2>1, <2>3, <2>4, <2>5, <2>6 DEF tables
<1> QED
  BY <1>1, <1>2

\* A warm pass begins over groupings that are in place but for its batch.
LEMMA StartBased ==
  ASSUME TypeOK, TypeOK', Warming',
         \/ \E batch \in Batches, asked \in BOOLEAN : PostFacts(batch, asked)
         \/ \E asked \in BOOLEAN : PostRun(asked)
  PROVE  Based'
<1>1. /\ plib' = lib /\ now' = day /\ pc' = "begin" /\ Sound(lib)
      /\ UNCHANGED <<held, built>>
      /\ \A k \in written' : k \in Keys /\ fact'[k] # None /\ KindOf[k] \notin ThroughKinds(lib)
      /\ \A k \in Keys \ written' : fact'[k] = fact[k]
  BY StartFacts DEF Warming
<1>2. lib \in Libraries /\ day \in 1..MaxDay
  BY DEF TypeOK
<1>3. Landed'
  BY <1>1 DEF Landed
<1>4. Quiet' = lib.figures \ Healed(Stale)'
  BY <1>1 DEF Quiet
<1>5. Apart'
  <2>1. HealedApart'
    BY HealedReaders, PTL
  <2>2. \A p \in Quiet' : Indexes(p) \intersect Stale' = {} /\ p.sources \subseteq Quiet'
    BY <1>1, <1>4, <2>1 DEF HealedApart
  <2> QED
    BY <1>1, <2>2 DEF Apart
<1>6. ASSUME NEW i \in lib.indexes \ Stale', NEW k \in Keys
      PROVE  \/ i \in Unfiled' /\ k \in written' /\ KindOf[k] = i.kind
             \/ BucketsHolding(i, k)' = Due(i, k)'
  <2>1. held[i.name] = Wanted(i, day)
    BY <1>1, <1>2, <1>6 DEF Stale, Sound
  <2>2. BucketsHolding(i, k)' = IF KindOf[k] = i.kind /\ fact[k] # None THEN BucketsOf(i, day, k) ELSE {}
    <3>1. BucketsHolding(i, k)' = BucketsHolding(i, k)
      BY <1>1 DEF BucketsHolding
    <3> QED
      BY <2>1, <3>1, WantedHolds DEF HoldsWanted
  <2>3. CASE KindOf[k] # i.kind
    BY <2>2, <2>3 DEF Due
  <2>4. CASE KindOf[k] = i.kind /\ k \in written'
    BY <1>1, <1>6, <2>4 DEF Unfiled
  <2>5. CASE KindOf[k] = i.kind /\ k \notin written'
    <3>1. fact'[k] = fact[k]
      BY <1>1, <2>5
    <3>2. CASE fact[k] = None
      BY <2>2, <3>1, <3>2 DEF Due
    <3>3. CASE fact[k] # None
      <4>1. \A x \in Keys : KindOf[x] \in i.through => fact'[x] = fact[x]
        BY <1>1 DEF ThroughKinds
      <4>2. i \in Groupings
        BY <1>2, OneName
      <4>3. Cut(i, day, k, fact') = Cut(i, day, k, fact)
        BY <1>2, <2>5, <3>1, <3>3, <4>1, <4>2, CutFrame
      <4>4. Due(i, k)' = Cut(i, day, k, fact') \intersect Coords
        BY <1>1, <2>5, <3>1, <3>3 DEF Due, BucketsOf
      <4> QED
        BY <2>2, <2>5, <3>3, <4>3, <4>4 DEF BucketsOf
    <3> QED
      BY <3>2, <3>3
  <2> QED
    BY <2>3, <2>4, <2>5
<1>7. InPlace'
  BY <1>1, <1>6 DEF InPlace, Late
<1> QED
  BY <1>3, <1>5, <1>7 DEF Based

\* And over rows that were right, and are but where the batch moves what they read.
LEMMA StartChased ==
  ASSUME TypeOK, TypeOK', Following', Based',
         \/ \E batch \in Batches, asked \in BOOLEAN : PostFacts(batch, asked)
         \/ \E asked \in BOOLEAN : PostRun(asked)
  PROVE  Chased'
<1>1. /\ plib' = lib /\ now' = day /\ pc' = "begin" /\ Sound(lib) /\ touched' = {}
      /\ UNCHANGED <<held, built, pointer, value>>
      /\ \A k \in written' : k \in Keys /\ fact'[k] # None
      /\ \A k \in Keys \ written' : fact'[k] = fact[k]
      /\ ~wrote' => written' = {}
  BY StartFacts DEF Warming, Following
<1>2. lib \in Libraries /\ day \in 1..MaxDay /\ \A p \in lib.figures : Followed(p)
  BY <1>1 DEF TypeOK, Following, Warming
<1>3. \A p \in lib.figures : Current(p)
  <2>1. \A p \in lib.figures : Stands(p)
    BY <1>1 DEF Following, Warming, Pending, Stands
  <2> QED
    BY <1>1, <2>1 DEF Sound
<1>4. \A kind : Roster(kind) \subseteq Roster(kind)'
  BY <1>1 DEF Roster
<1>5. \A p \in lib.figures : p.scopeIndex # None => \A c \in BucketKeys(p.scopeIndex) :
        c[1] \in Roster(p.scope) /\ (p.across # None => c[2] \in Roster(p.across))
  BY <1>1 DEF Sound, OwnersPresent
<1>6. \A p \in Quiet' : p \in lib.figures /\ \A i \in Indexes(p) : held[i.name] = Wanted(i, day)
  <2>1. \A p \in Quiet' : p \in lib.figures /\ Indexes(p) \intersect Stale' = {}
    BY <1>1 DEF Quiet, Based, Apart, Early
  <2>2. \A p \in Quiet' : \A i \in Indexes(p) : i \in lib.indexes
    BY <1>2, <2>1, LibraryAssumption
  <2>3. \A i \in lib.indexes \ Stale' : held[i.name] = Wanted(i, day)
    BY <1>1, <1>2 DEF Stale, Sound
  <2> QED
    BY <2>1, <2>2, <2>3
<1>7. Peopled'
  <2>1. \A p \in lib.figures : \A c \in Subjects(p) : c \in Coords
    BY <1>2, SubjectsType DEF Plans
  <2> QED
    BY <1>1, <1>3, <1>4, <2>1 DEF Peopled, Alive, Current, Living, Subjects
<1>8. Housed'
  <2> SUFFICES ASSUME NEW p \in lib.figures, p.scopeIndex # None, NEW r \in held[p.scopeIndex.name]
               PROVE  /\ Alive(p, r[2])'
                      /\ p \in Quiet' => (p.grain => r[2][2] # None)
                                           /\ (p.scopeIndex \in Own => r[2][1] = r[1])
    BY <1>1 DEF Housed
  <2>1. r[2] \in Coords
    <3>1. p.scopeIndex \in lib.indexes
      BY <1>2, ScopeIndexDeclared
    <3> QED
      BY <1>2, <3>1, LibraryAssumption DEF TypeOK
  <2>2. Alive(p, r[2])'
    BY <1>4, <1>5, <2>1 DEF Alive, BucketKeys
  <2>3. ASSUME p \in Quiet'
        PROVE  (p.grain => r[2][2] # None) /\ (p.scopeIndex \in Own => r[2][1] = r[1])
    <3>1. r \in Wanted(p.scopeIndex, day)
      BY <1>6, <2>3 DEF Indexes
    <3>2. PICK k \in Roster(p.scopeIndex.kind) : r \in {k} \X BucketsOf(p.scopeIndex, day, k)
      BY <3>1 DEF Wanted, Filing
    <3>3. r[1] = k /\ r[2] \in Cut(p.scopeIndex, day, k, fact)
      BY <3>2 DEF BucketsOf
    <3>4. k \in Keys /\ KindOf[k] = p.scopeIndex.kind /\ fact[k] # None
          /\ fact \in [Keys -> Bodies \union {None}]
      BY DEF Roster, TypeOK
    <3>5. p.grain => r[2][2] # None
      BY <1>2, <3>3, <3>4, BucketAssumption
    <3>6. p.scopeIndex \in Own => r[2][1] = r[1]
      BY <1>2, <3>3, <3>4 DEF Own
    <3> QED
      BY <3>5, <3>6
  <2> QED
    BY <2>2, <2>3
<1>9. \A p \in lib.figures : ScopesOf(p) = Reach(p) /\ ScopesOf(p)' = Reach(p)'
  <2>1. \A p \in lib.figures : \A c \in Subjects(p) : c[1] \in Roster(p.scope)
    BY <1>3 DEF Current, Living
  <2>2. \A p \in lib.figures : ScopesOf(p) = Reach(p)
    BY <1>2, <2>1, ScopesAreReach DEF ScopesReach
  <2>3. ScopesReach'
    BY ScopesAreReach, PTL
  <2>4. \A p \in lib.figures : \A c \in Subjects(p)' : c[1] \in Roster(p.scope)'
    BY <1>1, <1>7 DEF Peopled, Alive
  <2> QED
    BY <1>2, <2>2, <2>3, <2>4 DEF ScopesReach
<1>10. \A p : Subjects(p)' = Subjects(p) /\ BucketKeys(p.scopeIndex)' = BucketKeys(p.scopeIndex)
              /\ \A c : Members(p, c)' = Members(p, c)
  BY <1>1 DEF Subjects, BucketKeys, Members
<1>11. Accounted'
  <2> SUFFICES ASSUME NEW p \in Quiet', NEW c \in Reach(p)', c \in Subjects(p), ~Unmarked(p, c)'
               PROVE  value[p][c] = Evaluate(p, c)'
    BY <1>1, <1>6, <1>9, <1>10 DEF Accounted
  <2>1. p \in lib.figures /\ Fresh(p) /\ Living(p)
    BY <1>3, <1>6 DEF Current
  <2>2. c[1] \in Roster(p.scope)
    BY <2>1 DEF Living
  <2>3. c \in ScopesOf(p)
    <3>1. CASE p.scopeIndex # None /\ (p.grain \/ p.across # None)
      <4>1. c \in BucketKeys(p.scopeIndex)
        BY <1>10, <3>1 DEF Reach
      <4> QED
        BY <1>5, <1>9, <2>1, <3>1, <4>1 DEF Reach
    <3>2. CASE ~(p.scopeIndex # None /\ (p.grain \/ p.across # None))
      <4>1. PICK k : c = Bare(k)
        BY <3>2 DEF Reach
      <4>2. c = Bare(c[1])
        BY <4>1 DEF Bare
      <4> QED
        BY <1>9, <2>1, <2>2, <3>2, <4>2 DEF Reach
    <3> QED
      BY <3>1, <3>2
  <2>4. value[p][c] = Evaluate(p, c)
    BY <2>1, <2>3 DEF Fresh
  <2>5. \A m \in Members(p, c) \union ({c[1]} \ {None}) : KindOf[m] \in p.fields => fact'[m] = fact[m]
    <3> SUFFICES ASSUME NEW m \in Members(p, c) \union {c[1]}, KindOf[m] \in p.fields
                 PROVE  fact'[m] = fact[m]
      OBVIOUS
    <3>1. m \in Keys
      BY <2>2 DEF Members, Roster
    <3>2. p.scopeIndex # None
      BY <1>2, <2>1 DEF Followed
    <3>3. m \notin written'
      BY <1>1, <1>10, <3>2 DEF Unmarked
    <3> QED
      BY <1>1, <3>1, <3>3
  <2>6. Parts(p, c)' = Parts(p, c)
    <3>1. \A q : Moved(value[q], value'[q]) = {}
      BY <1>1, NoneMoved
    <3> QED
      BY <1>10, <3>1, PartsStand
  <2>7. Evaluate(p, c)' = Evaluate(p, c)
    BY <1>10, <2>5, <2>6, ReadsDecide
  <2> QED
    BY <2>4, <2>7
<1>12. Lasting'
  <2> SUFFICES ASSUME NEW p \in Quiet', NEW c \in Subjects(p), p.grain
               PROVE  c \in BucketKeys(p.scopeIndex)
    BY <1>6, <1>10 DEF Lasting
  <2>1. c \in Reach(p) /\ p.scopeIndex # None
    BY <1>2, <1>3, <1>6, <1>9 DEF Current, Living, Followed
  <2> QED
    BY <2>1 DEF Reach
<1>13. Complete'
  <2> SUFFICES ASSUME ~wrote'
               PROVE  \A p \in Quiet' : ScopesOf(p)' \subseteq Subjects(p)
    BY <1>1, <1>6, <1>10 DEF Complete
  <2>1. \A kind : Roster(kind)' = Roster(kind)
    BY <1>1 DEF Roster
  <2>2. \A p : Reach(p)' = Reach(p)
    BY <1>10, <2>1, ReachFrame
  <2> QED
    BY <1>3, <1>6, <1>9, <2>2 DEF Current, Fresh
<1>14. Righted' /\ Sorted'
  BY <1>1 DEF Righted, Sorted
<1> QED
  BY <1>7, <1>8, <1>11, <1>12, <1>13, <1>14 DEF Chased

LEMMA WarmStart ==
  ASSUME Warm, Exact',
         \/ \E batch \in Batches, asked \in BOOLEAN : PostFacts(batch, asked)
         \/ \E asked \in BOOLEAN : PostRun(asked)
  PROVE  Warm'
<1>1. pc' = "begin" /\ ~cold'
  BY DEF PostFacts, PostRun, Start
<1>2. Warming' => Based'
  BY StartBased DEF Warm, Exact
<1>3. Following' => Chased'
  BY <1>2, StartChased DEF Following, Warm, Exact
<1> QED
  BY <1>1, <1>2, <1>3 DEF Warm, Underway, WarmPassExact

\* No warm pass is under way.
LEMMA WarmElsewhere ==
  ASSUME Exact, pc = "idle" \/ (pc # "begin" /\ cold)
  PROVE  Warm
BY DEF Warm, Underway, Warming, Following, WarmPassExact

LEMMA WarmStill ==
  ASSUME Warm, Exact', UNCHANGED vars
  PROVE  Warm'
<1>1. /\ Steady /\ UNCHANGED <<fact, held, built, pointer, value, pc, plib, now, wrote, written>>
      /\ UNCHANGED <<rebuild, todo, left, touched, cold, sound, late>>
  BY DEF vars, tables, request, progress, history, Steady
<1>2. (Warming' <=> Warming) /\ (Following' => Following) /\ Pending' = Pending
  BY <1>1, FollowedSoFar DEF Pending
<1>3. ASSUME Based
      PROVE  Based' /\ Quiet' = Quiet
  BY <1>1, <1>3, BasedFrame
<1>4. Quiet' = Quiet
  BY <1>1, HealedFrame DEF Quiet
<1>5. ASSUME Chased
      PROVE  Chased'
  <2>1. \A p, c : /\ Alive(p, c)' <=> Alive(p, c)
                  /\ Marked(p, c)' <=> Marked(p, c)
                  /\ Evaluate(p, c)' = Evaluate(p, c)
                  /\ Members(p, c)' = Members(p, c)
    BY <1>1, RosterFrame, EvaluateFrame DEF Alive, Marked, Members
  <2>2. \A p, c : Unmarked(p, c)' <=> Unmarked(p, c)
    BY <1>1, <2>1 DEF Unmarked
  <2>3. \A p : ScopesOf(p)' = ScopesOf(p) /\ Subjects(p)' = Subjects(p)
    BY <1>1, ScopesFrame DEF Subjects
  <2>4. \A i : BucketKeys(i)' = BucketKeys(i)
    BY <1>1 DEF BucketKeys
  <2>5. \A p : (Fresh(p)' <=> Fresh(p)) /\ (Living(p)' <=> Living(p))
    BY <1>1, ControlFrame
  <2>6. Housed' /\ Peopled'
    BY <1>1, <1>4, <1>5, <2>1, <2>3 DEF Chased, Housed, Peopled
  <2>7. Accounted' /\ Lasting' /\ Complete'
    BY <1>1, <1>4, <1>5, <2>1, <2>2, <2>3, <2>4 DEF Chased, Accounted, Lasting, Complete
  <2>8. Righted' /\ Sorted'
    BY <1>1, <1>5, <2>1, <2>3, <2>5 DEF Chased, Righted, Sorted
  <2> QED
    BY <2>6, <2>7, <2>8 DEF Chased
<1>6. WarmPassExact'
  <2>1. Agreed(plib, now)' <=> Agreed(plib, now)
    BY <1>1, WantedFrame, ControlFrame DEF Agreed, Current
  <2>2. OwnersPresent(plib)' <=> OwnersPresent(plib)
    BY <1>1, RosterFrame DEF OwnersPresent, BucketKeys
  <2> QED
    BY <1>1, <2>1, <2>2 DEF Warm, WarmPassExact
<1> QED
  BY <1>1, <1>2, <1>3, <1>5, <1>6 DEF Warm, Underway

LEMMA WarmStep == Warm /\ [Next]_vars => Warm'
<1> SUFFICES ASSUME Warm, [Next]_vars
             PROVE  Warm'
  OBVIOUS
<1>1. Exact' /\ (pc \in ColdLoops => cold) /\ (pc = "begin" => ~cold)
  BY ExactStep DEF Warm, Exact, Branches
<1>2. CASE UNCHANGED vars
  BY <1>1, <1>2, WarmStill
<1>3. CASE \/ \E batch \in Batches, asked \in BOOLEAN : PostFacts(batch, asked)
           \/ \E asked \in BOOLEAN : PostRun(asked)
  BY <1>1, <1>3, WarmStart
<1>4. CASE Return \/ Death \/ (\E L \in Libraries : Teach(L)) \/ NewDay
  <2>1. pc' = "idle"
    BY <1>4 DEF Return, Death, Die, ApplyDies, ReindexDies, RecomputeDies, RemoveDepartedDies,
                 BackfillDies, Abandon, Over, Teach, NewDay
  <2>2. (pc = "idle" \/ (pc # "begin" /\ cold))'
    BY <2>1
  <2> QED
    BY <1>1, <2>2, WarmElsewhere, PTL
<1>5. CASE (\E n \in IndexNames : DropIndex(n)) \/ Begin
  BY <1>1, <1>5, WarmDrop, WarmBegin
<1>6. CASE ReturnEarly
  <2>1. pc' = "done" /\ plib' = plib /\ plib.figures = {} /\ plib.indexes = {}
    BY <1>6 DEF ReturnEarly, NothingDeclared, request
  <2> QED
    BY <1>1, <2>1 DEF Warm, Underway, WarmPassExact, Agreed
<1>7. CASE Applied \/ RecomputeEnds \/ (\E i \in plib.indexes : ApplyIndex(i) \/ Reindex(i))
           \/ \E p \in plib.figures : Recompute(p)
  BY <1>1, <1>7, WarmApplied, WarmRecomputeEnds, WarmApply, WarmReindex, WarmRecompute
<1>8. CASE cold /\ (ReindexEnds \/ RemoveDepartedEnds \/ BackfillEnds \/ PointersEnd
                    \/ \E p \in plib.figures : RemoveDeparted(p) \/ Backfill(p) \/ SetPointer(p))
  <2>1. pc # "begin"
    BY <1>1, <1>8
  <2>2. cold' /\ pc' # "begin"
    BY <1>8, <2>1 DEF ReindexEnds, RemoveDepartedEnds, BackfillEnds, PointersEnd, RemoveDeparted, Backfill,
                      SetPointer, progress
  <2>3. (pc = "idle" \/ (pc # "begin" /\ cold))'
    BY <2>2
  <2> QED
    BY <1>1, <2>3, WarmElsewhere, PTL
<1>9. CASE ~cold /\ (ReindexEnds \/ RemoveDepartedEnds \/ BackfillEnds \/ PointersEnd
                     \/ \E p \in plib.figures : RemoveDeparted(p) \/ Backfill(p) \/ SetPointer(p))
  <2>1. pc \notin ColdLoops
    BY <1>1, <1>9
  <2>2. \/ ReindexEnds \/ (BackfillEnds /\ pc = "heal") \/ (RemoveDepartedEnds /\ pc = "sweep")
        \/ (BackfillEnds /\ pc = "gaps")
        \/ \E p \in plib.figures : \/ Backfill(p) /\ pc \in {"heal", "gaps"}
                                   \/ RemoveDeparted(p) /\ pc = "sweep"
    BY <1>9, <2>1 DEF ColdLoops, RemoveDepartedEnds, BackfillEnds, PointersEnd, RemoveDeparted, Backfill, SetPointer
  <2> QED
    BY <1>1, <1>9, <2>2, WarmTurns, WarmSwept, WarmDone, WarmHeal, WarmGaps, WarmSweep
<1> QED
  BY <1>2, <1>3, <1>4, <1>5, <1>6, <1>7, <1>8, <1>9 DEF Next, PassStep

LEMMA WarmAlways == Spec => []Warm
<1>1. Init => Warm
  <2> SUFFICES ASSUME Init
               PROVE  Warm
    OBVIOUS
  <2>1. pc = "idle"
    BY DEF Init
  <2> QED
    BY <2>1, ExactInit, WarmElsewhere
<1> QED
  BY <1>1, WarmStep, PTL DEF Spec

-----------------------------------------------------------------------------
(* The theorems.                                                           *)

LEMMA ExactAlways == Spec => []Exact
BY ExactInit, ExactStep, PTL DEF Spec

LEMMA DefinedAlways == Spec => []Defined
<1>1. Init => Defined
  <2> SUFFICES ASSUME Init
               PROVE  Defined
    OBVIOUS
  <2>1. pc = "idle"
    BY DEF Init
  <2> QED
    BY <2>1, ExactInit, DefinedElsewhere
<1> QED
  BY <1>1, DefinedStep, PTL DEF Spec

\* A full pass that finishes leaves what a rebuild from nothing would, whatever
\* crashed passes, dropped writes, old libraries and old days had left in the
\* tables: nothing a pass leaves half-written outlives the next full one.
THEOREM FullPassIsExact == Spec => []FullPassExact
<1>1. Exact => FullPassExact
  BY DEF Exact
<1> QED
  BY <1>1, ExactAlways, PTL

\* A pass that finds a definition behind, carries no writes and starts from tables
\* that are what they claim leaves what a full pass would: recomputing the pending
\* figures alone, and refiling the stale groupings alone, forgets nothing.
THEOREM DefinitionPassIsExact == Spec => []DefinitionPassExact
<1>1. Defined => DefinitionPassExact
  BY DEF Defined
<1> QED
  BY <1>1, DefinedAlways, PTL

\* Rule 4 of docs/concepts.md: a warm pass, which files the written records, follows
\* what they touched through the figures, recomputes outright what a stale grouping
\* feeds, and sweeps, leaves what a full pass would; where it starts from tables
\* that are what they claim, every record's subject is there, every figure is of a
\* shape the cascade follows, and no closing sweep moves what a row had read.
THEOREM WarmPassIsExact == Spec => []WarmPassExact
<1>1. Warm => WarmPassExact
  BY DEF Warm
<1> QED
  BY <1>1, WarmAlways, PTL

\* After a full pass, or a warm one through the facts door, no figure lacks a
\* row it should have, whatever a pass that died had left out.
THEOREM GapsAreFilled == Spec => []GapsFilled
<1>1. Exact => GapsFilled
  BY DEF Exact
<1> QED
  BY <1>1, ExactAlways, PTL

\* A stamp vouches for the buckets under it, whatever died between the rows and
\* the stamp: while no grouping is an age filter and no deploy takes a grouping
\* back, a stamp a pass will believe is over the rows its spec cuts today, but for
\* the records of batches that no finished pass has filed.
THEOREM StampsAreHonest ==
  ASSUME Timeless, NEW age \in [Libraries -> Nat], GoesForward(age)
  PROVE  Spec => []StampHonest
<1>1. Init => Honest(age)
  BY HonestInit
<1>2. Honest(age) /\ [Next]_vars => Honest(age)'
  BY HonestStep
<1>3. Honest(age) => StampHonest
  BY DEF Honest
<1> QED
  BY <1>1, <1>2, <1>3, PTL DEF Spec

\* The engine's pointer is the claim every reader believes: it moves only to a
\* version whose rows are all there, recomputed over the stored parts, with no
\* row of a departed subject among them.
THEOREM PointersCertify == Spec => PointerCertifies
<1> DEFINE Certified == \A n \in FigureNames : pointer'[n] # pointer[n] => Current(pointer'[n])
<1>1. Exact /\ [Next]_vars => [Certified]_vars
  <2> SUFFICES ASSUME Exact, Next, NEW n \in FigureNames, pointer'[n] # pointer[n]
               PROVE  Current(pointer'[n])
    BY DEF vars, tables
  <2>1. PICK p \in plib.figures : SetPointer(p)
    <3>1. ASSUME \/ \E batch \in Batches, asked \in BOOLEAN : PostFacts(batch, asked)
                 \/ \E asked \in BOOLEAN : PostRun(asked)
                 \/ \E L \in Libraries : Teach(L)
                 \/ NewDay
          PROVE  UNCHANGED pointer
      BY <3>1 DEF PostFacts, PostRun, Teach, NewDay, tables
    <3>2. ASSUME Death
          PROVE  UNCHANGED pointer
      BY <3>2 DEF Death, Die, ApplyDies, ReindexDies, RecomputeDies, RemoveDepartedDies,
                  BackfillDies, tables
    <3>3. ASSUME PassStep
          PROVE  UNCHANGED pointer \/ \E p \in plib.figures : SetPointer(p)
      BY <3>3 DEF PassStep, DropIndex, Begin, ReturnEarly, ApplyIndex, Applied, Recompute, RecomputeEnds, Reindex,
                  ReindexEnds, RemoveDeparted, RemoveDepartedEnds, Backfill, BackfillEnds,
                  PointersEnd, Return, tables
    <3> QED
      BY <3>1, <3>2, <3>3 DEF Next
  <2>2. pc = "pointers" /\ pointer' = [pointer EXCEPT ![p.name] = p]
    BY <2>1 DEF SetPointer
  <2>3. n = p.name /\ pointer'[n] = p /\ pointer[p.name] # p
    BY <2>2 DEF Exact, TypeOK
  <2>4. p \in rebuild
    BY <2>2, <2>3 DEF Exact, Branches, Behind, Pending, ColdLoops
  <2>5. Living(p) /\ Fresh(p)
    BY <2>2, <2>4 DEF Exact, Swept, Recalculated
  <2> QED
    BY <2>3, <2>5 DEF Current
<1> QED
  BY <1>1, ExactAlways, PTL DEF Spec, PointerCertifies

=============================================================================
