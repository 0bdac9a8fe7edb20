--------------------------- MODULE Answers_proofs ---------------------------
(***************************************************************************)
(* What the checker's refusals buy, proved for any source an author may    *)
(* write: every reader of a figure meets what it reads, every answer above *)
(* the figures can be given, and a version tells two meanings apart.       *)
(***************************************************************************)
EXTENDS Answers, FiniteSetTheorems, TLAPS

(***************************************************************************)
(* The order of a source: what is declared when.                           *)
(***************************************************************************)

\* What stands at each stage, and every name once.
Ordered ==
  /\ stage \in 0..7
  /\ facts = {} \/ facts \in FactSources
  /\ indexes = {} \/ indexes \in IndexSources
  /\ \A i, j \in indexes : i.name = j.name => i = j
  /\ \A f, g \in figures : f.name = g.name => f = g
  /\ stage < 3 => figures = {}
  /\ readings # {} => stage >= 4
  /\ projections # {} => stage >= 5
  /\ summaries # {} => stage >= 6
  /\ bundles # {} => stage = 7

\* A figure is found by its name.
LEMMA FigureNamed ==
  ASSUME Ordered, NEW name, IsFigure(name)
  PROVE  Figure(name) \in figures /\ Figure(name).name = name
BY DEF IsFigure, Figure

LEMMA FigureItself ==
  ASSUME Ordered, NEW f \in figures
  PROVE  IsFigure(f.name) /\ Figure(f.name) = f
BY DEF Ordered, IsFigure, Figure

\* A figure added has a name of its own.
LEMMA NewName ==
  ASSUME AddFigure
  PROVE  \E decl \in FigureDecls :
           /\ FigureStands(Resolve(decl))
           /\ figures' = figures \union {FigurePlan(decl)}
           /\ ~IsFigure(FigurePlan(decl).name)
<1>1. PICK decl \in FigureDecls :
        FigureStands(Resolve(decl)) /\ figures' = figures \union {FigurePlan(decl)}
  BY DEF AddFigure, DeclareFigure
<1>2. FigurePlan(decl).name = Resolve(decl).name
  BY DEF FigurePlan
<1>3. Resolve(decl).name \notin Names
  BY <1>1 DEF FigureStands
<1> QED
  BY <1>1, <1>2, <1>3 DEF Names, IsFigure

LEMMA OrderedStep ==
  ASSUME Ordered, Next
  PROVE  Ordered'
<1>1. CASE DeclareFacts /\ UNCHANGED <<answers, published>>
  BY <1>1 DEF Ordered, DeclareFacts, answers
<1>2. CASE DeclareIndexes /\ UNCHANGED <<answers, published>>
  BY <1>2 DEF Ordered, DeclareIndexes, Distinct, answers
<1>3. CASE DeclareMeasures /\ UNCHANGED <<answers, published>>
  BY <1>3 DEF Ordered, DeclareMeasures, answers
<1>4. CASE AddFigure
  <2>1. PICK decl \in FigureDecls :
          figures' = figures \union {FigurePlan(decl)} /\ ~IsFigure(FigurePlan(decl).name)
    BY <1>4, NewName
  <2>2. \A f, g \in figures' : f.name = g.name => f = g
    BY <2>1 DEF Ordered, IsFigure
  <2> QED
    BY <1>4, <2>2 DEF Ordered, AddFigure, DeclareFigure, answers
<1>5. CASE DeclareReading
  BY <1>5 DEF Ordered, DeclareReading
<1>6. CASE DeclareProjection
  BY <1>6 DEF Ordered, DeclareProjection
<1>7. CASE DeclareSummary
  BY <1>7 DEF Ordered, DeclareSummary
<1>8. CASE DeclareBundle
  BY <1>8 DEF Ordered, DeclareBundle
<1>9. CASE Edit
  BY <1>9 DEF Ordered, Edit
<1> QED
  BY <1>1, <1>2, <1>3, <1>4, <1>5, <1>6, <1>7, <1>8, <1>9 DEF Next, DeclareWorld

LEMMA OrderedAlways == Spec => []Ordered
<1>1. Init => Ordered
  BY DEF Init, InitLanguage, Ordered
<1>2. Ordered /\ [Next]_library => Ordered'
  <2>1. Ordered /\ UNCHANGED library => Ordered'
    BY DEF Ordered, library, language, answers
  <2> QED
    BY <2>1, OrderedStep
<1> QED
  BY <1>1, <1>2, PTL DEF Spec

\* A later figure leaves the ones before it under their names.
LEMMA FigureKept ==
  ASSUME Ordered, AddFigure, NEW name, IsFigure(name)
  PROVE  IsFigure(name)' /\ Figure(name)' = Figure(name)
<1>1. PICK decl \in FigureDecls :
        figures' = figures \union {FigurePlan(decl)} /\ ~IsFigure(FigurePlan(decl).name)
  BY NewName
<1>2. Figure(name) \in figures' /\ Figure(name).name = name
  BY <1>1, FigureNamed
<1>3. \A f \in figures' : f.name = name => f = Figure(name)
  BY <1>1, FigureItself
<1> QED
  BY <1>2, <1>3 DEF IsFigure, Figure

\* The kinds a declaration may name have records.
LEMMA KindsHaveRecords ==
  ASSUME Ordered, NEW kind \in Kinds
  PROVE  kind # None /\ Ids(kind) # {} /\ None \notin Ids(kind)
BY SomeRecords DEF Ordered, Kinds

(***************************************************************************)
(* What fans a figure out, of a declaration the checker accepts.           *)
(***************************************************************************)

LEMMA IndexFound ==
  ASSUME Ordered, NEW idx \in indexes
  PROVE  /\ IndexNamed(idx.name) = idx
         /\ idx.name # None
         /\ idx.spec.by = "composite" => Sequence(idx.spec.parts) /\ idx.spec.parts # <<>>
<1>1. PICK ds \in IndexSources : idx \in ds
  BY DEF Ordered
<1>2. IndexNamed(idx.name) = idx
  BY DEF IndexNamed, Ordered
<1> QED
  BY <1>1, <1>2, IndexesWritten

\* A group or filter a set names is declared; its buckets say which of the two it is.
LEMMA NodeStands ==
  ASSUME NEW d, FigureStands(d), NEW n \in AllIndexNodes(d.sets)
  PROVE  \E idx \in indexes : idx.name = n.index /\ (Bucketed(idx) <=> n.bucket = "scope")
<1>1. PICK i \in DOMAIN d.sets : n \in IndexNodes(d.sets[i].expr)
  BY DEF AllIndexNodes
<1>2. CheckSet(d.sets[i].expr, {d.sets[j].name : j \in 1..(i - 1)})
  BY DEF FigureStands, NamedSets
<1>3. n \in Range(d.sets[i].expr) /\ n.set = "index"
  BY <1>1 DEF IndexNodes
<1> QED
  BY <1>2, <1>3 DEF CheckSet, GroupStands

\* A grouped figure has one group, of one part or two.
LEMMA Grouping ==
  ASSUME Ordered, NEW d, FigureStands(d), ~OverFigures(d)
  PROVE  \E idx \in indexes :
           /\ ScopedIndexes(d) = {idx.name} /\ ScopeIndex(d) = idx.name /\ idx.name # None
           /\ IndexNamed(idx.name) = idx
           /\ ScopeParts(d) = IndexFields(idx.spec)
           /\ Sequence(ScopeParts(d)) /\ Len(ScopeParts(d)) \in {1, 2}
           /\ idx.spec.by = "field" => Len(ScopeParts(d)) = 1
           /\ \E n \in AllIndexNodes(d.sets) : n.index = idx.name
<1>1. PICK name \in ScopedIndexes(d) : ScopedIndexes(d) = {name}
  BY DEF FigureStands, FannedOut
<1>2. PICK m \in AllIndexNodes(d.sets) : m.bucket = "scope" /\ m.index = name
  BY <1>1 DEF ScopedIndexes
<1>3. PICK idx \in indexes : idx.name = name /\ Bucketed(idx)
  BY <1>2, NodeStands
<1>4. IndexNamed(idx.name) = idx /\ idx.name # None
  BY IndexFound
<1>5. ScopeIndex(d) = idx.name
  BY <1>1, <1>3 DEF ScopeIndex
<1>6. ScopeParts(d) = IndexFields(idx.spec)
  BY <1>4, <1>5 DEF ScopeParts
<1>7. Len(ScopeParts(d)) <= 2
  BY DEF FigureStands, FannedOut
<1>8. CASE idx.spec.by = "field"
  <2>1. ScopeParts(d) = <<idx.spec.part>>
    BY <1>6, <1>8 DEF IndexFields
  <2>2. Sequence(<<idx.spec.part>>) /\ Len(<<idx.spec.part>>) = 1
    BY DEF Sequence, Range
  <2> QED
    BY <1>1, <1>2, <1>3, <1>4, <1>5, <1>6, <2>1, <2>2
<1>9. CASE idx.spec.by = "composite"
  <2>1. ScopeParts(d) = idx.spec.parts
    BY <1>6, <1>9 DEF IndexFields
  <2>2. Sequence(idx.spec.parts) /\ idx.spec.parts # <<>>
    BY <1>9, IndexFound
  <2>3. Len(idx.spec.parts) \in Nat /\ Len(idx.spec.parts) # 0
    BY <2>2 DEF Sequence
  <2>4. Len(ScopeParts(d)) \in {1, 2}
    <3>1. Len(idx.spec.parts) <= 2
      BY <1>7, <2>1
    <3>2. Len(idx.spec.parts) \in {1, 2}
      <4>1. \A n \in Nat : n # 0 /\ n <= 2 => n \in {1, 2}
        OBVIOUS
      <4> QED
        BY <2>3, <3>1, <4>1, Zenon
    <3> QED
      BY <2>1, <3>2
  <2> QED
    BY <1>1, <1>2, <1>3, <1>4, <1>5, <1>6, <1>9, <2>1, <2>2, <2>4
<1> QED
  BY <1>3, <1>8, <1>9 DEF Bucketed

\* A group cut by time gives its figure a sequence, and that of what it reads.
LEMMA OwnGrainGoverns ==
  ASSUME Ordered, NEW d, FigureStands(d), OwnGrain(d) # None
  PROVE  GrainOf(d) # None
<1>1. ~OverFigures(d)
  <2> SUFFICES ASSUME OverFigures(d) PROVE FALSE
    OBVIOUS
  <2>1. ScopeParts(d) = <<>>
    BY DEF ScopeParts
  <2>2. Len(ScopeParts(d)) # 2
    BY <2>1
  <2> QED
    BY <2>2 DEF OwnGrain
<1>2. PICK idx \in indexes :
        /\ ScopeParts(d) = IndexFields(idx.spec)
        /\ Sequence(ScopeParts(d)) /\ Len(ScopeParts(d)) \in {1, 2}
        /\ idx.spec.by = "field" => Len(ScopeParts(d)) = 1
        /\ \E n \in AllIndexNodes(d.sets) : n.index = idx.name
  BY <1>1, Grouping
<1>3. Len(ScopeParts(d)) = 2 /\ Timed(ScopeParts(d)[2])
  BY DEF OwnGrain
<1>4. idx.spec.by = "composite"
  BY <1>2, <1>3 DEF IndexFields
<1>5. ScopeParts(d)[2] \in Range(idx.spec.parts)
  BY <1>2, <1>3, <1>4 DEF IndexFields, Range, Sequence
<1>6. GroupGrains(d) # {}
  BY <1>2, <1>3, <1>4, <1>5 DEF GroupGrains
<1>7. \A g \in GroupGrains(d) : g # None
  BY DEF GroupGrains, Timed, GrainAt
<1> QED
  BY <1>6, <1>7 DEF GrainOf

(***************************************************************************)
(* What a figure reads, of a declaration the checker accepts.              *)
(***************************************************************************)

LEMMA PlanFields ==
  ASSUME NEW decl, NEW d, d = Resolve(decl), NEW f, f = FigurePlan(decl)
  PROVE  /\ f.decl = decl /\ f.name = d.name /\ f.scope = d.name[1] /\ f.across = d.across
         /\ f.carried = d.carried /\ f.sets = d.sets /\ f.calculate = d.calculate
         /\ f.band = Fold(d.band) /\ f.unit = FigureUnit(d) /\ f.scopeIndex = ScopeIndex(d)
         /\ f.grain = Grain(d) /\ f.reads = Reads(d) /\ f.bandReads = BandReads(d)
         /\ f.overSequence <=> \E g \in Reads(d) : Figure(g).grain # None
         /\ f.version = Version(d) /\ f.stored = Stored(d) /\ f.meaning = Meaning(d)
         /\ Reading(f) = Reading(d) /\ Rolled(f) = Rolled(d)
<1>1. /\ f.decl = decl /\ f.name = d.name /\ f.scope = d.name[1] /\ f.across = d.across
      /\ f.carried = d.carried /\ f.sets = d.sets /\ f.calculate = d.calculate
      /\ f.band = Fold(d.band) /\ f.unit = FigureUnit(d) /\ f.scopeIndex = ScopeIndex(d)
      /\ f.grain = Grain(d) /\ f.reads = Reads(d) /\ f.bandReads = BandReads(d)
      /\ f.version = Version(d) /\ f.stored = Stored(d) /\ f.meaning = Meaning(d)
  BY DEF FigurePlan
<1>2. f.overSequence <=> \E g \in Reads(d) : Figure(g).grain # None
  BY DEF FigurePlan
<1>3. Reading(f) = Reading(d)
  BY <1>1 DEF Reading, Leaves
<1>4. Rolled(f) = Rolled(d)
  BY <1>3 DEF Rolled
<1> QED
  BY <1>1, <1>2, <1>3, <1>4

\* A resolved leaf, by its form.
LEMMA LeafForms ==
  ASSUME NEW raw, raw.op \in Written, NEW e, e = Unscaled(Resolved(raw))
  PROVE  /\ e.op = "total" => IsFigure(e.figure)
         /\ e.op = "subject" => e = Subject(e.kind, e.field, None)
<1>1. CASE raw.op = "setting"
  BY <1>1 DEF Resolved, Unscaled, Subject
<1>2. CASE raw.op = "sum"
  BY <1>2 DEF Resolved, Unscaled
<1>3. CASE raw.op = "extreme"
  BY <1>3 DEF Resolved, Unscaled
<1>4. CASE raw.op \notin {"setting", "sum", "extreme"}
  <2>1. Resolved(raw) = raw
    BY <1>4 DEF Resolved
  <2> QED
    BY <2>1 DEF Unscaled, Written, Constant
<1> QED
  BY <1>1, <1>2, <1>3, <1>4

LEMMA LeafWritten ==
  ASSUME NEW decl \in FigureDecls, NEW d, d = Resolve(decl), NEW e \in Leaves(d)
  PROVE  \E raw : raw.op \in Written /\ e = Unscaled(Resolved(raw))
<1>1. d.calculate = [place \in DOMAIN decl.calculate |-> Unscaled(Resolved(decl.calculate[place]))]
  BY DEF Resolve, FigureDecl
<1>2. PICK place \in DOMAIN decl.calculate : e = Unscaled(Resolved(decl.calculate[place]))
  BY <1>1 DEF Leaves, Range
<1>3. decl.calculate[place] \in Range(decl.calculate)
  BY <1>2 DEF Range
<1> QED
  BY <1>2, <1>3, FiguresWritten

\* Each read is of a figure before, bound and accepted by its own case.
LEMMA ReadStanding ==
  ASSUME NEW decl \in FigureDecls, NEW d, d = Resolve(decl), FigureStands(d), NEW e \in Reading(d)
  PROVE  /\ IsFigure(e.figure)
         /\ e.figure \in Reads(d)
         /\ LeafStands(d, e)
         /\ e.op \in {"part", "coord", "rollup", "spread", "total"}
         /\ e.op \in {"part", "spread"} => Bind(d, e.figure)
         /\ e.op = "rollup" => ResolveRollUp(d, e.figure)
<1>1. e \in Leaves(d) /\ e.op \in {"part", "coord", "rollup", "spread", "total"} /\ e.figure \in Reads(d)
  BY DEF Reading, Reads
<1>2. PICK place \in DOMAIN d.calculate : d.calculate[place] = e
  BY <1>1 DEF Leaves, Range
<1>3. LeafStands(d, e)
  BY <1>1, <1>2 DEF FigureStands, CalcStands
<1>4. CASE e.op = "total"
  BY <1>1, <1>3, <1>4, LeafWritten, LeafForms
<1>5. CASE e.op = "rollup"
  BY <1>1, <1>3, <1>5 DEF FigureStands, ResolveFigureReads, ResolveRollUp
<1>6. CASE e.op = "coord"
  BY <1>1, <1>3, <1>6 DEF FigureStands, ResolveFigureReads
<1>7. CASE e.op \in {"part", "spread"}
  BY <1>1, <1>3, <1>7 DEF FigureStands, ResolveFigureReads, Bind
<1> QED
  BY <1>1, <1>4, <1>5, <1>6, <1>7

\* ... and a threshold is of a figure of the same scope, parts and sequence.
LEMMA BandStanding ==
  ASSUME NEW d, FigureStands(d), NEW g \in BandReads(d)
  PROVE  /\ IsFigure(g)
         /\ Figure(g).scope = d.name[1] /\ Figure(g).across = d.across /\ Figure(g).grain = Grain(d)
<1>1. d.band # None
  BY DEF BandReads, BandNodes
<1>2. PICK e \in BandNodes(d) : e.op \in {"part", "coord"} /\ e.figure = g
  BY DEF BandReads
<1> QED
  BY <1>1, <1>2 DEF FigureStands, BandStands, Threshold

(***************************************************************************)
(* Where a figure is stored: at its subjects, crossed with what it is      *)
(* declared over and with nothing else.                                    *)
(***************************************************************************)

Cells(kind, tails) == {Coordinate(id, tail) : id \in Ids(kind), tail \in tails}

Recorded(kind) == Ids(kind) # {} /\ None \notin Ids(kind)

Shaped(f) ==
  /\ Recorded(f.scope)
  /\ f.across # None => Recorded(f.across) /\ f.grain = None /\ f.stored = Cells(f.scope, Ids(f.across))
  /\ f.grain # None => f.stored = Cells(f.scope, Tails)
  /\ f.across = None /\ f.grain = None => f.stored = Roster(f.scope)

\* A grouped figure that keeps the discipline.
LEMMA GroupedShape ==
  ASSUME Ordered, NEW decl \in FigureDecls, NEW d, d = Resolve(decl), FigureStands(d),
         NEW f, f = FigurePlan(decl), Disciplined(f), ~OverFigures(d)
  PROVE  Shaped(f)
<1>1. PICK idx \in indexes :
        /\ ScopeIndex(d) = idx.name /\ idx.name # None /\ IndexNamed(idx.name) = idx
        /\ ScopeParts(d) = IndexFields(idx.spec) /\ Len(ScopeParts(d)) \in {1, 2}
  BY Grouping
<1> DEFINE parts == ScopeParts(d)
<1>2. /\ f.scope = d.name[1] /\ f.across = d.across /\ f.scopeIndex = idx.name /\ f.grain = Grain(d)
      /\ f.stored = Stored(d) /\ f.reads = Reads(d) /\ Reading(f) = Reading(d)
  BY <1>1, PlanFields
<1>3. /\ f.across # None \/ f.grain # None => Len(parts) = 2
      /\ f.across # None => \A e \in Reading(f) : e.op = "part"
  BY <1>1, <1>2 DEF Disciplined
<1>4. Recorded(f.scope) /\ (f.across # None => Recorded(f.across))
  BY <1>2, KindsHaveRecords DEF FigureStands, Recorded
<1>5. f.across # None \/ f.grain # None => f.stored = Keys(d)
  BY <1>2 DEF Stored
<1>6. f.across = None /\ f.grain = None => f.stored = Roster(f.scope)
  BY <1>2 DEF Stored
<1>7. ASSUME Len(parts) = 2, Timed(parts[2])
      PROVE  f.across = None /\ Keys(d) = Cells(f.scope, Tails)
  <2>1. TailStands(d)
    BY <1>7 DEF FigureStands, FannedOut
  <2>2. d.across = None
    BY <1>7, <2>1 DEF TailStands
  <2>3. Keys(d) = Cells(d.name[1], Tails)
    BY <1>7 DEF Keys, Cells
  <2> QED
    BY <1>2, <2>2, <2>3
<1>8. ASSUME Len(parts) = 2, ~Timed(parts[2])
      PROVE  f.across # None /\ f.grain = None /\ Keys(d) = Cells(f.scope, Ids(f.across))
  <2>1. TailStands(d)
    BY <1>8 DEF FigureStands, FannedOut
  <2>2. d.across \in NameFields
    BY <1>8, <2>1 DEF TailStands
  <2>3. d.across # None
    <3>1. d.across \in Kinds
      BY <2>2, NameFieldsOfKinds DEF NameFields, Kinds
    <3> QED
      BY <3>1, KindsHaveRecords
  <2>4. Keys(d) = Cells(d.name[1], Ids(d.across))
    BY <1>8 DEF Keys, Cells
  <2>5. Grain(d) = None
    <3> SUFFICES ASSUME Grain(d) # None PROVE FALSE
      OBVIOUS
    <3>1. OwnGrain(d) = None
      BY <1>8 DEF OwnGrain
    <3>2. GrainOf(d) # None /\ Reads(d) # {}
      BY <3>1 DEF Grain
    <3>3. PICK e \in Reading(d) : TRUE
      BY <3>2 DEF Reads
    <3>4. e.op = "part"
      BY <1>2, <1>3, <2>3
    <3>5. PartReadStands(d, e.figure)
      BY <3>4, ReadStanding DEF LeafStands
    <3> QED
      BY <3>2, <3>5 DEF PartReadStands
  <2> QED
    BY <1>2, <2>3, <2>4, <2>5
<1> QED
  <2>1. CASE f.across # None
    BY <1>3, <1>4, <1>5, <1>7, <1>8, <2>1 DEF Shaped
  <2>2. CASE f.across = None /\ f.grain # None
    BY <1>3, <1>4, <1>5, <1>7, <1>8, <2>2 DEF Shaped
  <2>3. CASE f.across = None /\ f.grain = None
    BY <1>4, <1>6, <2>3 DEF Shaped
  <2> QED
    BY <2>1, <2>2, <2>3

\* A shaped figure is stored at subjects of its scope.
LEMMA BasesOfScope ==
  ASSUME NEW f, Shaped(f), NEW c \in f.stored
  PROVE  /\ c.base \in Ids(f.scope) /\ c = Coordinate(c.base, c.tail)
         /\ f.grain # None => c.tail \in Tails
         /\ f.across # None => c.tail \in Ids(f.across)
         /\ f.grain = None /\ f.across = None => c.tail = None
BY DEF Shaped, Cells, Roster, Coordinate

\* A figure over figures that keeps the discipline, over figures that do.
LEMMA OverShape ==
  ASSUME Ordered, NEW decl \in FigureDecls, NEW d, d = Resolve(decl), FigureStands(d),
         NEW f, f = FigurePlan(decl), Disciplined(f), OverFigures(d), \A g \in figures : Shaped(g)
  PROVE  Shaped(f)
<1>1. /\ f.scope = d.name[1] /\ f.across = d.across /\ f.scopeIndex = None /\ f.grain = Grain(d)
      /\ f.stored = Stored(d) /\ f.reads = Reads(d) /\ Reading(f) = Reading(d)
  BY PlanFields DEF ScopeIndex
<1>2. f.across = None
  <2>1. Len(<<>>) # 2
    OBVIOUS
  <2> QED
    BY <1>1, <2>1 DEF Disciplined
<1>3. Recorded(f.scope)
  BY <1>1, KindsHaveRecords DEF FigureStands, Recorded
<1>4. OwnGrain(d) = None
  <2>1. Len(<<>>) # 2
    OBVIOUS
  <2> QED
    BY <2>1 DEF OwnGrain, ScopeParts
<1>5. SetNames(d) = {}
  BY DEF SetNames, OverFigures
<1>6. \A e \in Reading(d) :
        /\ e.op \in {"part", "coord", "rollup"}
        /\ Figure(e.figure) \in figures /\ Shaped(Figure(e.figure)) /\ Figure(e.figure).scope = f.scope
  <2> SUFFICES ASSUME NEW e \in Reading(d)
               PROVE  /\ e.op \in {"part", "coord", "rollup"}
                      /\ Figure(e.figure) \in figures /\ Shaped(Figure(e.figure))
                      /\ Figure(e.figure).scope = f.scope
    OBVIOUS
  <2>1. /\ IsFigure(e.figure) /\ LeafStands(d, e) /\ e.op \in {"part", "coord", "rollup", "spread", "total"}
        /\ e.op = "part" => Bind(d, e.figure)
    BY ReadStanding
  <2>2. Figure(e.figure) \in figures /\ Shaped(Figure(e.figure))
    BY <2>1, FigureNamed
  <2>3. e.op # "spread" /\ e.op # "total"
    BY <1>5, <2>1 DEF LeafStands, SpreadStands, TotalStands
  <2>4. CASE e.op = "part"
    BY <1>1, <2>1, <2>2, <2>4 DEF Bind
  <2>5. CASE e.op = "coord"
    BY <1>1, <2>1, <2>2, <2>5 DEF LeafStands, CoordStands
  <2>6. CASE e.op = "rollup"
    BY <1>1, <2>2, <2>6 DEF Disciplined
  <2> QED
    BY <2>1, <2>2, <2>3, <2>4, <2>5, <2>6
<1>7. \A g \in Reads(d) : \E e \in Reading(d) : e.figure = g
  BY DEF Reads
<1>8. CASE f.grain # None
  <2>1. GrainOf(d) # None /\ Reads(d) # {}
    BY <1>1, <1>4, <1>8 DEF Grain
  <2>2. \A e \in Reading(d) : Figure(e.figure).grain # None
    <3> SUFFICES ASSUME NEW e \in Reading(d) PROVE Figure(e.figure).grain # None
      OBVIOUS
    <3>1. LeafStands(d, e) /\ e.op \in {"part", "coord", "rollup"}
      BY <1>6, ReadStanding
    <3>2. e.op # "part"
      BY <2>1, <3>1 DEF LeafStands, PartReadStands
    <3>3. e.op # "rollup"
      BY <1>1, <1>8 DEF Disciplined
    <3>4. e.op = "coord"
      BY <3>1, <3>2, <3>3
    <3> QED
      BY <3>1, <3>4 DEF LeafStands, CoordStands
  <2>3. \A g \in Reads(d) : Figure(g).stored = Cells(f.scope, Tails)
    BY <1>6, <1>7, <2>2 DEF Shaped
  <2>4. UNION {Figure(g).stored : g \in Reads(d)} = Cells(f.scope, Tails)
    BY <2>1, <2>3
  <2>5. \A c \in Cells(f.scope, Tails) : c.tail # None /\ c.base \in Ids(f.scope)
    BY SomeTails DEF Cells, Coordinate
  <2>6. f.stored = Cells(f.scope, Tails)
    BY <1>1, <1>8, <2>4, <2>5 DEF Stored
  <2> QED
    BY <1>2, <1>3, <1>8, <2>6 DEF Shaped
<1>9. CASE f.grain = None
  <2>1. \A c \in UNION {Figure(g).stored : g \in Reads(d)} : c.base \in Ids(f.scope)
    BY <1>6, <1>7, BasesOfScope
  <2>2. {Coordinate(c.base, None) : c \in UNION {Figure(g).stored : g \in Reads(d)}} \subseteq Roster(f.scope)
    BY <2>1 DEF Roster
  <2>3. f.stored = Roster(f.scope)
    BY <1>1, <1>9, <2>2 DEF Stored
  <2> QED
    BY <1>2, <1>3, <1>9, <2>3 DEF Shaped
<1> QED
  BY <1>8, <1>9

(***************************************************************************)
(* Where its readers look.                                                 *)
(***************************************************************************)

\* A coordinate a figure is stored at answers for itself alone.
LEMMA FoundAlone ==
  ASSUME NEW name, Shaped(Figure(name)), NEW key \in Figure(name).stored
  PROVE  Found(name, key) = {key}
<1> DEFINE g == Figure(name)
<1>1. key.base \in Ids(g.scope) /\ key = Coordinate(key.base, key.tail)
  BY BasesOfScope
<1>2. CASE g.grain # None
  <2>1. key.tail # None
    BY <1>2, BasesOfScope, SomeTails
  <2> QED
    BY <2>1, <1>1, BasesOfScope DEF Found
<1>3. CASE g.across # None
  <2>1. key.tail # None
    BY <1>3, BasesOfScope DEF Shaped, Recorded
  <2> QED
    BY <2>1, <1>1, BasesOfScope DEF Found
<1>4. CASE g.across = None /\ g.grain = None
  <2>1. \A c \in g.stored : c.tail = None
    BY <1>4, BasesOfScope
  <2> QED
    BY <2>1, <1>1, BasesOfScope DEF Found
<1> QED
  BY <1>2, <1>3, <1>4

\* A read whose every address holds its own number meets it.
LEMMA SoleAnswers ==
  ASSUME NEW f, NEW at, NEW e, e.op # "rollup", ~StoresList(e.figure), ~StoresWord(e.figure),
         \A key \in LooksUp(f, e, at) : Found(e.figure, key) = {key}
  PROVE  ~Aborts(f, e, at) /\ Answered(f, e, at)
<1>1. \A key \in LooksUp(f, e, at) : Cardinality(PartsAt(e.figure, key)) = 1
  <2> SUFFICES ASSUME NEW key \in LooksUp(f, e, at)
               PROVE  Cardinality(PartsAt(e.figure, key)) = 1
    OBVIOUS
  <2>1. PartsAt(e.figure, key) = {key}
    BY DEF PartsAt
  <2> QED
    BY <2>1, FS_Singleton
<1> QED
  BY <1>1 DEF Aborts, Answered

\* What a shaped figure holds, for its readers.
LEMMA Holds ==
  ASSUME NEW g, Shaped(g), NEW id \in Ids(g.scope)
  PROVE  /\ g.grain # None => \A tail \in Tails : Coordinate(id, tail) \in g.stored
         /\ g.across # None => \A tail \in Ids(g.across) : Coordinate(id, tail) \in g.stored
         /\ g.across = None /\ g.grain = None => Coordinate(id, None) \in g.stored
BY DEF Shaped, Cells, Roster

\* The ids a set may hold are of one kind.
LEMMA MembersOfOneKind ==
  ASSUME NEW d, FigureStands(d), NEW f, f.sets = d.sets, NEW set \in SetNames(d),
         NEW space \in Spaces(d.sets, set)
  PROVE  Members(f, set) = Ids(space)
<1>1. PICK i \in DOMAIN d.sets : d.sets[i].name = set
  BY DEF SetNames
<1>2. OneIdSpace(d.sets, set)
  BY <1>1 DEF FigureStands, NamedSets
<1>3. \A other \in Spaces(d.sets, set) : other = space
  BY <1>2 DEF OneIdSpace
<1> QED
  BY <1>3 DEF Members

LEMMA ReadMeets ==
  ASSUME Ordered, NEW decl \in FigureDecls, NEW d, d = Resolve(decl), FigureStands(d),
         NEW f, f = FigurePlan(decl), Disciplined(f), Shaped(f), \A g \in figures : Shaped(g),
         NEW at \in f.stored, NEW e \in Reading(f)
  PROVE  ~Aborts(f, e, at) /\ Answered(f, e, at)
<1> DEFINE g == Figure(e.figure)
<1>1. /\ f.scope = d.name[1] /\ f.across = d.across /\ f.grain = Grain(d) /\ f.sets = d.sets
      /\ f.reads = Reads(d) /\ Reading(f) = Reading(d)
      /\ f.overSequence <=> \E h \in Reads(d) : Figure(h).grain # None
  BY PlanFields
<1>2. /\ IsFigure(e.figure) /\ LeafStands(d, e) /\ e.figure \in f.reads
      /\ e.op \in {"part", "coord", "rollup", "spread", "total"}
      /\ e.op \in {"part", "spread"} => Bind(d, e.figure)
      /\ e.op = "rollup" => ResolveRollUp(d, e.figure)
  BY <1>1, ReadStanding
<1>3. g \in figures /\ Shaped(g)
  BY <1>2, FigureNamed
<1>4. /\ g.grain # None => f.grain # None
      /\ f.across # None => e.op = "part" /\ g.across # None
      /\ e.op = "rollup" => g.scope = f.scope
      /\ ~StoresList(e.figure) /\ ~StoresWord(e.figure)
  BY <1>1, <1>2 DEF Disciplined
<1>5. at.base \in Ids(f.scope) /\ at = Coordinate(at.base, at.tail)
  BY BasesOfScope
<1>6. ASSUME GrainOf(d) = None PROVE f.grain = None
  BY <1>1, <1>6, OwnGrainGoverns DEF Grain
<1>7. CASE e.op = "part"
  <2>1. /\ g.scope = f.scope /\ g.grain = None /\ f.grain = None
        /\ g.across # None => f.across = g.across
    BY <1>1, <1>2, <1>6, <1>7 DEF Bind, LeafStands, PartReadStands
  <2>2. at \in g.stored
    BY <1>3, <1>4, <1>5, <2>1, Holds, BasesOfScope
  <2>3. LooksUp(f, e, at) = {at}
    BY <1>7 DEF LooksUp
  <2> QED
    BY <1>3, <1>4, <1>7, <2>2, <2>3, FoundAlone, SoleAnswers
<1>8. CASE e.op = "coord"
  <2>1. g.scope = f.scope /\ g.grain # None
    BY <1>1, <1>2, <1>8 DEF LeafStands, CoordStands
  <2>2. at \in g.stored
    BY <1>3, <1>4, <1>5, <2>1, Holds, BasesOfScope
  <2>3. LooksUp(f, e, at) = {at}
    BY <1>8 DEF LooksUp
  <2> QED
    BY <1>3, <1>4, <1>8, <2>2, <2>3, FoundAlone, SoleAnswers
<1>9. CASE e.op = "spread"
  <2>1. /\ g.scope = f.scope /\ g.grain = None /\ f.across = None
        /\ g.across # None => f.across = g.across
    BY <1>1, <1>2, <1>4, <1>9 DEF Bind, LeafStands, SpreadStands
  <2>2. Coordinate(at.base, None) \in g.stored
    BY <1>3, <1>5, <2>1, Holds
  <2>3. LooksUp(f, e, at) = {Coordinate(at.base, None)}
    BY <1>9 DEF LooksUp
  <2> QED
    BY <1>3, <1>4, <1>9, <2>2, <2>3, FoundAlone, SoleAnswers
<1>10. CASE e.op = "total"
  <2>1. /\ e.set \in SetNames(d) /\ g.scope \in Spaces(d.sets, e.set)
        /\ g.grain = GrainOf(d) /\ g.across = None /\ f.across = None
    BY <1>2, <1>4, <1>10 DEF LeafStands, TotalStands
  <2>2. Members(f, e.set) = Ids(g.scope)
    BY <1>1, <2>1, MembersOfOneKind
  <2>3. LooksUp(f, e, at) = {Coordinate(m, at.tail) : m \in Ids(g.scope)}
    BY <1>10, <2>2 DEF LooksUp
  <2>4. \A m \in Ids(g.scope) : Coordinate(m, at.tail) \in g.stored
    <3>1. CASE g.grain # None
      BY <1>3, <1>4, <3>1, Holds, BasesOfScope
    <3>2. CASE g.grain = None
      <4>1. at.tail = None
        BY <1>6, <2>1, <3>2, BasesOfScope
      <4> QED
        BY <1>3, <2>1, <3>2, <4>1, Holds
    <3> QED
      BY <3>1, <3>2
  <2> QED
    BY <1>3, <1>4, <1>10, <2>3, <2>4, FoundAlone, SoleAnswers
<1>11. CASE e.op = "rollup"
  <2>1. d.sets = <<>> /\ g.across # None
    BY <1>2, <1>11 DEF ResolveRollUp
  <2>2. at.base \in Ids(g.scope)
    BY <1>4, <1>5, <1>11
  <2>3. f.grain = None
    BY <1>11 DEF Disciplined
  <2>4. at.tail = None
    BY <1>4, <1>11, <2>3, BasesOfScope
  <2>5. Found(e.figure, at) # {}
    <3>1. PICK tail \in Ids(g.across) : TRUE
      BY <1>3, <2>1 DEF Shaped, Recorded
    <3>2. Coordinate(at.base, tail) \in g.stored
      BY <1>3, <2>1, <2>2, <3>1, Holds
    <3> QED
      BY <2>4, <3>2 DEF Found, Coordinate
  <2>6. LooksUp(f, e, at) = {at}
    BY <1>11 DEF LooksUp
  <2> QED
    BY <1>4, <1>11, <2>5, <2>6 DEF Aborts, Answered, PartsAt
<1> QED
  BY <1>2, <1>7, <1>8, <1>9, <1>10, <1>11

(***************************************************************************)
(* Every reader meets what it reads.                                       *)
(***************************************************************************)

ReadsKept(f) ==
  /\ f.reads = {e.figure : e \in Reading(f)}
  /\ \A g \in f.reads \union f.bandReads : IsFigure(g)

Meets(f) ==
  /\ f.stored # {}
  /\ \A at \in f.stored :
       /\ \A e \in Reading(f) : ~Aborts(f, e, at) /\ Answered(f, e, at)
       /\ \A g \in f.bandReads : at \in Figure(g).stored

\* Every figure is stored in its shape and meets what it reads, where all are disciplined.
FiguresMeet ==
  /\ \A f \in figures : ReadsKept(f)
  /\ (\A f \in figures : Disciplined(f)) => \A f \in figures : Shaped(f) /\ Meets(f)

LEMMA StoredSomewhere ==
  ASSUME NEW f, Shaped(f)
  PROVE  f.stored # {}
<1>1. PICK id \in Ids(f.scope) : TRUE
  BY DEF Shaped, Recorded
<1>2. CASE f.across # None
  BY <1>1, <1>2, Holds DEF Shaped, Recorded
<1>3. CASE f.grain # None
  BY <1>1, <1>3, Holds, SomeTails
<1>4. CASE f.across = None /\ f.grain = None
  BY <1>1, <1>4, Holds
<1> QED
  BY <1>2, <1>3, <1>4

\* The figure that is added.
LEMMA PlanMeets ==
  ASSUME Ordered, NEW decl \in FigureDecls, FigureStands(Resolve(decl)),
         NEW f, f = FigurePlan(decl), Disciplined(f), \A g \in figures : Shaped(g)
  PROVE  Shaped(f) /\ Meets(f)
<1> DEFINE d == Resolve(decl)
<1>1. Shaped(f)
  BY GroupedShape, OverShape
<1>2. ASSUME NEW at \in f.stored, NEW g \in f.bandReads PROVE at \in Figure(g).stored
  <2>1. /\ f.scope = d.name[1] /\ f.across = d.across /\ f.grain = Grain(d) /\ f.bandReads = BandReads(d)
    BY PlanFields
  <2>2. /\ IsFigure(g)
        /\ Figure(g).scope = f.scope /\ Figure(g).across = f.across /\ Figure(g).grain = f.grain
    BY <1>2, <2>1, BandStanding
  <2>3. Shaped(Figure(g))
    BY <2>2, FigureNamed
  <2>4. Figure(g).stored = f.stored
    BY <1>1, <2>2, <2>3 DEF Shaped
  <2> QED
    BY <1>2, <2>4
<1>3. \A at \in f.stored : \A e \in Reading(f) : ~Aborts(f, e, at) /\ Answered(f, e, at)
  BY <1>1, ReadMeets
<1> QED
  BY <1>1, <1>2, <1>3, StoredSomewhere DEF Meets

LEMMA PlanReadsKept ==
  ASSUME NEW decl \in FigureDecls, FigureStands(Resolve(decl)), NEW f, f = FigurePlan(decl)
  PROVE  ReadsKept(f)
<1> DEFINE d == Resolve(decl)
<1>1. f.reads = Reads(d) /\ f.bandReads = BandReads(d) /\ Reading(f) = Reading(d)
  BY PlanFields
<1>2. \A g \in Reads(d) : IsFigure(g)
  BY ReadStanding DEF Reads
<1>3. \A g \in BandReads(d) : IsFigure(g)
  BY BandStanding
<1> QED
  BY <1>1, <1>2, <1>3 DEF ReadsKept, Reads

\* A step that keeps the figures a figure reads changes nothing of it.
LEMMA PlanKept ==
  ASSUME NEW f, ReadsKept(f), indexes' = indexes,
         \A name : IsFigure(name) => IsFigure(name)' /\ Figure(name)' = Figure(name)
  PROVE  /\ ReadsKept(f)' /\ Disciplined(f)' = Disciplined(f) /\ Meets(f)' = Meets(f)
<1>1. indexes' = indexes
  OBVIOUS
<1>2. \A g \in f.reads \union f.bandReads : IsFigure(g)' /\ Figure(g)' = Figure(g)
  BY DEF ReadsKept
<1>3. \A e \in Reading(f) : e.figure \in f.reads
  BY DEF ReadsKept
<1>4. Disciplined(f)' = Disciplined(f)
  <2>1. IndexNamed(f.scopeIndex)' = IndexNamed(f.scopeIndex)
    BY <1>1 DEF IndexNamed
  <2>2. \A g \in f.reads : StoresList(g)' = StoresList(g) /\ StoresWord(g)' = StoresWord(g)
    BY <1>2 DEF StoresList, StoresWord
  <2> QED
    BY <1>2, <1>3, <2>1, <2>2 DEF Disciplined
<1>5. \A e \in Reading(f) : \A at :
        /\ Aborts(f, e, at)' = Aborts(f, e, at) /\ Answered(f, e, at)' = Answered(f, e, at)
  <2> SUFFICES ASSUME NEW e \in Reading(f), NEW at
               PROVE  /\ Aborts(f, e, at)' = Aborts(f, e, at)
                      /\ Answered(f, e, at)' = Answered(f, e, at)
    OBVIOUS
  <2>1. Figure(e.figure)' = Figure(e.figure)
    BY <1>2, <1>3
  <2>2. \A key : PartsAt(e.figure, key)' = PartsAt(e.figure, key)
    BY <2>1 DEF Found, PartsAt, StoresWord
  <2>3. StoresList(e.figure)' = StoresList(e.figure)
    BY <2>1 DEF StoresList
  <2>4. Members(f, e.set)' = Members(f, e.set)
    BY <1>1 DEF Members, Spaces
  <2>5. LooksUp(f, e, at)' = LooksUp(f, e, at)
    BY <2>4 DEF LooksUp
  <2> QED
    BY <2>1, <2>2, <2>3, <2>5 DEF Aborts, Answered
<1>6. Meets(f)' = Meets(f)
  BY <1>2, <1>5 DEF Meets
<1>7. ReadsKept(f)'
  BY <1>2 DEF ReadsKept
<1> QED
  BY <1>4, <1>6, <1>7

LEMMA FiguresMeetStep ==
  ASSUME Ordered, FiguresMeet, [Next]_library
  PROVE  FiguresMeet'
<1>1. CASE figures' = {}
  BY <1>1 DEF FiguresMeet
<1>2. CASE UNCHANGED <<indexes, figures>>
  <2>1. \A name : IsFigure(name) => IsFigure(name)' /\ Figure(name)' = Figure(name)
    BY <1>2 DEF IsFigure, Figure
  <2>2. \A f \in figures :
          ReadsKept(f)' /\ Disciplined(f)' = Disciplined(f) /\ Meets(f)' = Meets(f)
    BY <1>2, <2>1, PlanKept DEF FiguresMeet
  <2>3. \A f : Shaped(f)' <=> Shaped(f)
    BY DEF Shaped, Recorded, Cells, Roster
  <2> QED
    BY <1>2, <2>2, <2>3 DEF FiguresMeet
<1>3. CASE AddFigure
  <2>1. \A name : IsFigure(name) => IsFigure(name)' /\ Figure(name)' = Figure(name)
    BY <1>3, FigureKept
  <2>2. indexes' = indexes
    BY <1>3 DEF AddFigure, DeclareFigure
  <2>3. PICK decl \in FigureDecls :
          /\ FigureStands(Resolve(decl))
          /\ figures' = figures \union {FigurePlan(decl)}
    BY <1>3, NewName
  <2> DEFINE new == FigurePlan(decl)
  <2>4. \A f \in figures' : ReadsKept(f)
    BY <2>3, PlanReadsKept DEF FiguresMeet
  <2>5. \A f \in figures' :
          ReadsKept(f)' /\ Disciplined(f)' = Disciplined(f) /\ Meets(f)' = Meets(f)
    BY <2>1, <2>2, <2>4, PlanKept
  <2>6. ASSUME \A f \in figures' : Disciplined(f)'
        PROVE  \A f \in figures' : Shaped(f)' /\ Meets(f)'
    <3>1. \A f \in figures' : Disciplined(f)
      BY <2>5, <2>6
    <3>2. \A f \in figures : Shaped(f) /\ Meets(f)
      BY <2>3, <3>1 DEF FiguresMeet
    <3>3. Shaped(new) /\ Meets(new)
      BY <2>3, <3>1, <3>2, PlanMeets
    <3>4. \A f : Shaped(f)' <=> Shaped(f)
      BY DEF Shaped, Recorded, Cells, Roster
    <3> QED
      BY <2>3, <2>5, <3>2, <3>3, <3>4
  <2> QED
    BY <2>5, <2>6 DEF FiguresMeet
<1> QED
  <2>1. CASE UNCHANGED library
    BY <1>2, <2>1 DEF library, language
  <2>2. CASE DeclareWorld
    BY <1>1, <1>2, <2>2 DEF DeclareWorld, DeclareFacts, DeclareIndexes, DeclareMeasures, Ordered
  <2>3. CASE DeclareReading \/ DeclareProjection \/ DeclareSummary \/ DeclareBundle
    BY <1>2, <2>3 DEF DeclareReading, DeclareProjection, DeclareSummary, DeclareBundle
  <2>4. CASE Edit
    BY <1>1, <2>4 DEF Edit
  <2> QED
    BY <1>3, <2>1, <2>2, <2>3, <2>4 DEF Next

LEMMA FiguresMeetAlways == Spec => [](Ordered /\ FiguresMeet)
<1>1. Init => FiguresMeet
  BY DEF Init, InitLanguage, FiguresMeet
<1>2. Ordered /\ FiguresMeet /\ [Next]_library => FiguresMeet'
  BY FiguresMeetStep
<1>3. Spec => []Ordered
  BY OrderedAlways
<1> QED
  BY <1>1, <1>2, <1>3, PTL DEF Spec

\* Where every figure keeps the discipline docs/language.md asks for, a pass finds exactly
\* one number at every address it reads, for every source the checker accepts
\* (engine.py's `_readers` and `_scopes_of` against check.py's `_figure`).
THEOREM ReadersAlwaysMeet == Spec => []ReadersMeet
<1>1. FiguresMeet => ReadersMeet
  BY DEF FiguresMeet, ReadersMeet, Meets
<1> QED
  BY <1>1, FiguresMeetAlways, PTL

(***************************************************************************)
(* The answers above the figures.                                          *)
(***************************************************************************)

\* What the checker has made sure of a windowed reading, a row's reads and a tile's member.
WindowStands(r) ==
  LET source == Figure(r.source.figure) IN
  /\ IsFigure(r.source.figure) /\ source.grain # None /\ source.scope = r.scope
  /\ \A g \in r.goals : /\ IsFigure(g) /\ Figure(g).scope = r.scope
                        /\ Figure(g).grain = source.grain /\ Figure(g).unit = source.unit
RowStands(p) ==
  \A name \in p.figures :
    /\ IsFigure(name) /\ Figure(name).scope = p.kind
    /\ Figure(name).grain = None /\ Figure(name).across = None
TileStands(m) ==
  /\ m.kind = "figure" => IsFigure(m.name) /\ Figure(m.name).grain = None /\ Figure(m.name).across = None
  /\ m.kind = "reading" /\ m.windows # None =>
       /\ WindowsStand(m.windows)
       /\ \A w \in Range(ExpandAll(m.windows)) : Reaches(w, Rule(ReadingOf(m.name)))

AnswersStand ==
  /\ \A r \in readings : r.mode = "window" => WindowStands(r)
  /\ \A p \in projections : RowStands(p)
  /\ \A b \in bundles : \A m \in Range(b.members) : TileStands(m)

LEMMA ReadingPlanStands ==
  ASSUME NEW d, ReadingStands(d), ReadingPlan(d).mode = "window"
  PROVE  WindowStands(ReadingPlan(d))
<1> DEFINE r == ReadingPlan(d)
<1>1. r.scope = d.name[1] /\ r.source = d.source /\ d.source.mode = "window" /\ r.goals = GoalReads(d)
  BY DEF ReadingPlan
<1>2. WindowedStands(d)
  BY <1>1 DEF ReadingStands
<1>3. \A g \in GoalReads(d) : ReadingThreshold(d, g)
  <2>1. CASE d.band = None
    BY <2>1 DEF GoalReads, BandNodes
  <2>2. CASE d.band # None
    BY <2>2 DEF ReadingStands, ReadingBandStands
  <2> QED
    BY <2>1, <2>2
<1>4. \A g \in GoalReads(d) :
        /\ IsFigure(g) /\ Figure(g).scope = d.name[1]
        /\ Figure(g).grain = Figure(d.source.figure).grain
        /\ Figure(g).unit = Figure(d.source.figure).unit
  BY <1>1, <1>3 DEF ReadingThreshold
<1> QED
  BY <1>1, <1>2, <1>4 DEF WindowStands, WindowedStands

LEMMA ProjectPlanStands ==
  ASSUME NEW d, ProjectionStands(d)
  PROVE  RowStands(ProjectPlan(d))
<1>1. ProjectPlan(d).figures = {r.figure : r \in d.reads} /\ ProjectPlan(d).kind = d.name[1]
  BY DEF ProjectPlan
<1>2. \A r \in d.reads : ReadStands(d.name[1], r)
  BY DEF ProjectionStands
<1> QED
  BY <1>1, <1>2 DEF RowStands, ReadStands

LEMMA BundlePlanStands ==
  ASSUME NEW d, BundleStands(d), NEW m \in Range(BundlePlan(d).members)
  PROVE  TileStands(m)
<1>1. MemberStands(m)
  BY DEF BundleStands, BundlePlan
<1> QED
  BY <1>1 DEF TileStands, MemberStands, ReadingMember

\* Nothing is taken back from under an answer: its figures are declared before it.
LEMMA AnswersStandStep ==
  ASSUME Ordered, AnswersStand, [Next]_library
  PROVE  AnswersStand'
<1>1. \/ UNCHANGED <<figures, readings, projections, bundles>>
      \/ readings = {} /\ projections = {} /\ bundles = {} /\ UNCHANGED <<readings, projections, bundles>>
      \/ DeclareReading \/ DeclareProjection \/ DeclareBundle \/ Edit
  BY DEF Next, DeclareWorld, DeclareFacts, DeclareIndexes, DeclareMeasures, AddFigure, DeclareFigure,
         DeclareSummary, library, language, answers, Ordered
<1>2. CASE readings = {} /\ projections = {} /\ bundles = {} /\ UNCHANGED <<readings, projections, bundles>>
  BY <1>2 DEF AnswersStand
<1>3. CASE Edit
  BY <1>3 DEF Edit, Ordered, AnswersStand
<1>4. CASE UNCHANGED figures
  <2>1. \A name : IsFigure(name)' = IsFigure(name) /\ Figure(name)' = Figure(name)
    BY <1>4 DEF IsFigure, Figure
  <2>2. \A r : WindowStands(r)' = WindowStands(r)
    BY <2>1 DEF WindowStands
  <2>3. \A p : RowStands(p)' = RowStands(p)
    BY <2>1 DEF RowStands
  <2>4. ASSUME UNCHANGED readings, NEW m PROVE TileStands(m)' = TileStands(m)
    <3>1. ReadingOf(m.name)' = ReadingOf(m.name)
      BY <2>4 DEF ReadingOf
    <3>2. Rule(ReadingOf(m.name))' = Rule(ReadingOf(m.name))
      BY <2>1, <3>1 DEF Rule
    <3> QED
      BY <2>1, <3>2 DEF TileStands
  <2>5. CASE UNCHANGED <<readings, projections, bundles>>
    BY <2>2, <2>3, <2>4, <2>5 DEF AnswersStand
  <2>6. CASE DeclareReading
    <3>1. PICK d \in ReadingDecls : ReadingStands(d) /\ readings' = readings \union {ReadingPlan(d)}
      BY <2>6 DEF DeclareReading
    <3>2. UNCHANGED <<projections, bundles>> /\ bundles = {}
      BY <2>6 DEF DeclareReading, Ordered
    <3>3. \A r \in readings' : r.mode = "window" => WindowStands(r)
      BY <3>1, ReadingPlanStands DEF AnswersStand
    <3> QED
      BY <2>2, <2>3, <3>2, <3>3 DEF AnswersStand
  <2>7. CASE DeclareProjection
    <3>1. PICK d \in ProjectDecls : ProjectionStands(d) /\ projections' = projections \union {ProjectPlan(d)}
      BY <2>7 DEF DeclareProjection
    <3>2. UNCHANGED <<readings, bundles>>
      BY <2>7 DEF DeclareProjection
    <3>3. \A p \in projections' : RowStands(p)
      BY <3>1, ProjectPlanStands DEF AnswersStand
    <3> QED
      BY <2>2, <2>3, <2>4, <3>2, <3>3 DEF AnswersStand
  <2>8. CASE DeclareBundle
    <3>1. PICK d \in BundleDecls : BundleStands(d) /\ bundles' = bundles \union {BundlePlan(d)}
      BY <2>8 DEF DeclareBundle
    <3>2. UNCHANGED <<readings, projections>>
      BY <2>8 DEF DeclareBundle
    <3>3. \A b \in bundles' : \A m \in Range(b.members) : TileStands(m)
      BY <3>1, BundlePlanStands DEF AnswersStand
    <3> QED
      BY <2>2, <2>3, <2>4, <3>2, <3>3 DEF AnswersStand
  <2> QED
    BY <1>1, <1>2, <1>3, <2>5, <2>6, <2>7, <2>8
<1> QED
  BY <1>1, <1>2, <1>3, <1>4 DEF DeclareReading, DeclareProjection, DeclareBundle

LEMMA AnswersStandAlways == Spec => []AnswersStand
<1>1. Init => AnswersStand
  BY DEF Init, AnswersStand
<1>2. Ordered /\ AnswersStand /\ [Next]_library => AnswersStand'
  BY AnswersStandStep
<1> QED
  BY <1>1, <1>2, OrderedAlways, PTL DEF Spec

\* What fits the widest bucket fits any.
LEMMA ReachesAnyRule ==
  ASSUME NEW w, w.last \in Nat, MaxReachDays \in Nat, Reaches(w, "quarter"), NEW rule
  PROVE  Reaches(w, rule)
<1>1. BucketMinutes("quarter") = 132480
  BY DEF BucketMinutes
<1>2. PICK wide \in {1, 15, 60, 1440, 10080, 44640, 132480} : BucketMinutes(rule) = wide
  BY DEF BucketMinutes
<1>3. (w.last * wide + 1439) \div 1440 <= (w.last * 132480 + 1439) \div 1440
  <2>1. wide = 1 \/ wide = 15 \/ wide = 60 \/ wide = 1440 \/ wide = 10080 \/ wide = 44640 \/ wide = 132480
    OBVIOUS
  <2> QED
    BY <2>1
<1>4. ReachDays(w, rule) <= ReachDays(w, "quarter")
  BY <1>1, <1>2, <1>3 DEF ReachDays
<1>5. ReachDays(w, rule) \in Int /\ ReachDays(w, "quarter") \in Int
  BY <1>1, <1>2 DEF ReachDays
<1> QED
  BY <1>4, <1>5 DEF Reaches

LEMMA WindowAlwaysMeets ==
  ASSUME \A f \in figures : Shaped(f), Ordered,
         NEW r, WindowStands(r)
  PROVE  WindowMeets(r)
<1> DEFINE source == Figure(r.source.figure)
<1>1. /\ source \in figures /\ source.grain # None /\ source.scope = r.scope
      /\ source.stored = Cells(r.scope, Tails)
  BY FigureNamed DEF WindowStands, Shaped
<1>2. \A g \in r.goals : Figure(g).stored = Cells(r.scope, Tails) /\ Figure(g).unit = source.unit
  BY <1>1, FigureNamed DEF WindowStands, Shaped
<1>3. \A id \in Ids(r.scope) : {c \in source.stored : c.base = id /\ c.tail \in Tails} # {}
  <2>1. PICK tail \in Tails : TRUE
    BY SomeTails
  <2> SUFFICES ASSUME NEW id \in Ids(r.scope)
               PROVE  {c \in source.stored : c.base = id /\ c.tail \in Tails} # {}
    OBVIOUS
  <2>2. Coordinate(id, tail) \in source.stored
    BY <1>1 DEF Cells
  <2>3. Coordinate(id, tail).base = id /\ Coordinate(id, tail).tail \in Tails
    BY DEF Coordinate
  <2> QED
    BY <2>2, <2>3
<1> QED
  BY <1>1, <1>2, <1>3 DEF WindowMeets

LEMMA RowAlwaysMeets ==
  ASSUME \A f \in figures : Shaped(f), Ordered,
         NEW p, RowStands(p), NEW name \in p.figures, NEW key \in Roster(p.kind)
  PROVE  Found(name, key) = {key}
<1>1. Figure(name) \in figures /\ Figure(name).stored = Roster(p.kind)
  BY FigureNamed DEF RowStands, Shaped
<1> QED
  BY <1>1, FoundAlone

LEMMA TileAlwaysMeets ==
  ASSUME \A f \in figures : Shaped(f), Ordered,
         NEW m, TileStands(m)
  PROVE  TileMeets(m)
<1>1. m.kind = "figure" => Figure(m.name).stored = Roster(Figure(m.name).scope)
  BY FigureNamed DEF TileStands, Shaped
<1>2. \A rule : \A w \in Range(ExpandAll(DefaultTrailing)) : Reaches(w, rule)
  BY TrailingStands, ReachesAnyRule
<1> QED
  BY <1>1, <1>2, TrailingStands DEF TileMeets, TileStands

\* And every answer above the figures meets the figures: a window finds buckets and its
\* goals at each, a row its one number, and no tile asks for a window the serving door
\* refuses (serve.py's readers against check.py's `_reading`, `_projection`, `_bundle`).
THEOREM AnswersAlwaysMeet == Spec => []AnswersMeet
<1>1. Ordered /\ FiguresMeet /\ AnswersStand => AnswersMeet
  BY WindowAlwaysMeets, RowAlwaysMeets, TileAlwaysMeets
     DEF FiguresMeet, AnswersStand, AnswersMeet, WindowMeets
<1> QED
  BY <1>1, FiguresMeetAlways, AnswersStandAlways, PTL

(***************************************************************************)
(* Versions: what a definition means, told from its version alone.         *)
(***************************************************************************)

\* A tree as a function of its places, each value of the record in its own form.
Tree(tree) ==
  /\ tree = [place \in DOMAIN tree |-> tree[place]]
  /\ \A place \in DOMAIN tree :
       LET e == tree[place] IN e.op = "subject" => e = Subject(e.kind, e.field, e.scale)
Bare(tree) == Tree(tree) /\ \A place \in DOMAIN tree : tree[place].op = "subject" => tree[place].scale = None

\* The sequence, from the group that is hashed and the sequences of what is read.
PartsTold(v) ==
  IF v.sets = <<>> /\ v.combines # {} THEN <<>>
  ELSE IndexFields((CHOOSE h \in v.indexes : h.name = CHOOSE n \in ScopedIndexes(v) : TRUE).spec)
OwnGrainTold(v) ==
  IF Len(PartsTold(v)) = 2 /\ Timed(PartsTold(v)[2]) THEN GrainAt(PartsTold(v)[2]) ELSE None
GrainTold(v, grains) ==
  IF OwnGrainTold(v) # None THEN OwnGrainTold(v)
  ELSE IF grains # {} THEN CHOOSE g \in grains : TRUE ELSE None

Sequential(f) == f.overSequence => f.grain # None
Told(f) ==
  LET v == f.version IN
  /\ f.meaning = [scope |-> v.name[1], across |-> v.across, carried |-> v.carried, unit |-> v.unit,
                  grain |-> f.grain, sets |-> v.sets, calculate |-> f.calculate,
                  groups |-> v.indexes, measures |-> v.measures, sources |-> f.meaning.sources]
  /\ v.calculate = CalcHash(f.calculate) /\ Bare(f.calculate)
  /\ v.band = BandHash(f.band) /\ (f.band # None => Tree(f.band))
  /\ Sequential(f) => f.grain = GrainTold(v, {s[2].grain : s \in f.meaning.sources} \ {None})

\* What a figure reads, in the source it is of.
SourcesIn(f, plans) == {g \in plans : g.name \in f.reads}
Cited(f, plans) ==
  /\ f.version.combines = {[figure |-> g.name, rolled |-> g.name \in Rolled(f), version |-> g.version]
                           : g \in SourcesIn(f, plans)}
  /\ f.meaning.sources = {<<g.name, g.meaning>> : g \in SourcesIn(f, plans)}

\* A row means what was written and the groups and filters it names; a summary, its rows too.
RowTold(v) == [decl |-> v.decl, groups |-> v.indexes]
SummaryTold(v) == [decl |-> v.decl, rows |-> RowTold(v.over)]
SourceTold(source) ==
  /\ \A f \in source.figures : Told(f) /\ Cited(f, source.figures)
  /\ \A p \in source.projections : p.meaning = RowTold(p.version)
  /\ \A s \in source.summaries : s.meaning = SummaryTold(s.version)

Current == [figures |-> figures, projections |-> projections, summaries |-> summaries]
MeaningsTold ==
  published # None /\ Sequenced(figures) /\ Sequenced(published.figures) =>
    \A f \in figures, c \in published.figures : c.version = f.version => c.meaning = f.meaning
VersionsStand ==
  /\ SourceTold(Current)
  /\ published # None => SourceTold(published)
  /\ MeaningsTold

\* The hash of a tree tells it, but for the scales of what it reads off the record.
LEMMA HashTells ==
  ASSUME NEW a, NEW b, Tree(a), Tree(b), CalcHash(a) = CalcHash(b),
         \A place \in DOMAIN a : a[place].op = "subject" /\ b[place].op = "subject" => a[place].scale = b[place].scale
  PROVE  a = b
<1>1. DOMAIN a = DOMAIN b
  BY DEF CalcHash
<1>2. ASSUME NEW place \in DOMAIN a PROVE a[place] = b[place]
  <2>1. Hashed(a[place]) = Hashed(b[place])
    <3>1. CalcHash(a)[place] = Hashed(a[place]) /\ CalcHash(b)[place] = Hashed(b[place])
      BY <1>1, <1>2 DEF CalcHash
    <3> QED
      BY <3>1
  <2>2. CASE a[place].op # "subject" /\ b[place].op # "subject"
    BY <2>1, <2>2 DEF Hashed
  <2>3. CASE a[place].op = "subject" /\ b[place].op = "subject"
    <3>1. a[place].kind = b[place].kind /\ a[place].field = b[place].field
      BY <2>1, <2>3 DEF Hashed
    <3>2. a[place].scale = b[place].scale
      BY <1>2, <2>3
    <3>3. /\ a[place] = Subject(a[place].kind, a[place].field, a[place].scale)
          /\ b[place] = Subject(b[place].kind, b[place].field, b[place].scale)
      BY <1>1, <1>2, <2>3 DEF Tree
    <3> QED
      BY <3>1, <3>2, <3>3
  <2>4. (a[place].op = "subject") <=> (b[place].op = "subject")
    BY <2>1 DEF Hashed
  <2> QED
    BY <2>2, <2>3, <2>4
<1>3. a = [place \in DOMAIN a |-> a[place]] /\ b = [place \in DOMAIN b |-> b[place]]
  BY DEF Tree
<1>4. [place \in DOMAIN a |-> a[place]] = [place \in DOMAIN b |-> b[place]]
  BY <1>1, <1>2
<1> QED
  BY <1>3, <1>4

\* A band hashed alike, of thresholds scaled alike, says the same words.
LEMMA BandTells ==
  ASSUME NEW c, NEW f, Told(c), Told(f), c.version = f.version, Scales(c) = Scales(f)
  PROVE  Words(c) = Words(f)
<1>1. BandHash(c.band) = BandHash(f.band)
  BY DEF Told
<1>2. (c.band = None) <=> (f.band = None)
  BY <1>1 DEF BandHash
<1>3. ASSUME c.band # None PROVE c.band = f.band
  <2>1. CalcHash(c.band) = CalcHash(f.band)
    BY <1>1, <1>2, <1>3 DEF BandHash
  <2>2. Tree(c.band) /\ Tree(f.band)
    BY <1>2, <1>3 DEF Told
  <2>3. DOMAIN c.band = DOMAIN f.band
    BY <2>1 DEF CalcHash
  <2>4. ASSUME NEW place \in DOMAIN c.band, c.band[place].op = "subject", f.band[place].op = "subject"
        PROVE  c.band[place].scale = f.band[place].scale
    <3>1. Scales(c)[place] = c.band[place].scale
      BY <1>3, <2>4 DEF Scales
    <3>2. Scales(f)[place] = f.band[place].scale
      BY <1>2, <1>3, <2>3, <2>4 DEF Scales
    <3> QED
      BY <3>1, <3>2
  <2> QED
    BY <2>1, <2>2, <2>4, HashTells
<1>4. c.band = f.band
  BY <1>2, <1>3
<1>5. \A value, held : Word(c, value, held) = Word(f, value, held)
  BY <1>4 DEF Word
<1> QED
  BY <1>5 DEF Words

\* A group that cuts nothing by time leaves no sequence to its figure.
LEMMA NoGroupGrains ==
  ASSUME Ordered, NEW d, FigureStands(d), OwnGrain(d) = None
  PROVE  GroupGrains(d) = {}
<1> SUFFICES ASSUME NEW idx \in indexes, NEW n \in AllIndexNodes(d.sets), n.index = idx.name,
                    idx.spec.by = "composite", NEW p \in Range(idx.spec.parts), Timed(p)
             PROVE  FALSE
  BY DEF GroupGrains
<1>1. idx.name \in ScopedIndexes(d)
  <2>1. PICK other \in indexes : other.name = n.index /\ (Bucketed(other) <=> n.bucket = "scope")
    BY NodeStands
  <2>2. other = idx
    BY <2>1 DEF Ordered
  <2> QED
    BY <2>1, <2>2 DEF Bucketed, ScopedIndexes
<1>2. ~OverFigures(d)
  <2>1. d.sets # <<>>
    BY DEF AllIndexNodes
  <2> QED
    BY <2>1 DEF OverFigures
<1>3. PICK own \in indexes :
        /\ ScopedIndexes(d) = {own.name} /\ ScopeParts(d) = IndexFields(own.spec)
        /\ Sequence(ScopeParts(d)) /\ Len(ScopeParts(d)) \in {1, 2}
  BY <1>2, Grouping
<1>4. ScopeParts(d) = idx.spec.parts
  BY <1>1, <1>3 DEF Ordered, IndexFields
<1>5. ~Timed(ScopeParts(d)[1])
  BY <1>2 DEF FigureStands, FannedOut
<1>6. Len(ScopeParts(d)) = 2 => ~Timed(ScopeParts(d)[2])
  BY DEF OwnGrain, Timed, GrainAt
<1>7. PICK i \in 1..Len(ScopeParts(d)) : p = ScopeParts(d)[i]
  BY <1>3, <1>4 DEF Range, Sequence
<1> QED
  BY <1>3, <1>5, <1>6, <1>7

\* The group a figure is fanned out by is among those it hashes.
LEMMA OwnGrainInHash ==
  ASSUME Ordered, NEW d, FigureStands(d), NEW v, v.sets = d.sets,
         (v.combines = {}) <=> (Reads(d) = {}), v.indexes = IndexHashes(AllIndexNodes(d.sets))
  PROVE  OwnGrainTold(v) = OwnGrain(d)
<1>1. CASE OverFigures(d)
  <2>1. PartsTold(v) = <<>> /\ ScopeParts(d) = <<>>
    BY <1>1 DEF PartsTold, ScopeParts, OverFigures
  <2> QED
    BY <2>1 DEF OwnGrainTold, OwnGrain
<1>2. CASE ~OverFigures(d)
  <2>1. PICK idx \in indexes :
          /\ ScopedIndexes(d) = {idx.name} /\ ScopeParts(d) = IndexFields(idx.spec)
          /\ \E n \in AllIndexNodes(d.sets) : n.index = idx.name
    BY <1>2, Grouping
  <2>2. ScopedIndexes(v) = {idx.name}
    BY <2>1 DEF ScopedIndexes
  <2>3. IndexHash(idx) \in v.indexes /\ \A h \in v.indexes : h.name = idx.name => h = IndexHash(idx)
    BY <2>1 DEF IndexHashes, IndexHash, Ordered
  <2>4. (CHOOSE n \in ScopedIndexes(v) : TRUE) = idx.name
    BY <2>2
  <2>5. (CHOOSE h \in v.indexes : h.name = idx.name) = IndexHash(idx)
    BY <2>3 DEF IndexHash
  <2>6. PartsTold(v) = IndexFields(IndexHash(idx).spec)
    BY <1>2, <2>4, <2>5 DEF PartsTold, OverFigures
  <2>7. PartsTold(v) = ScopeParts(d)
    BY <2>1, <2>6 DEF IndexHash
  <2> QED
    BY <2>7 DEF OwnGrainTold, OwnGrain
<1> QED
  BY <1>1, <1>2

\* So the sequence of a figure is told, where one over a sequence is itself one.
LEMMA GrainIsTold ==
  ASSUME Ordered, NEW d, FigureStands(d), NEW v, v.sets = d.sets,
         (v.combines = {}) <=> (Reads(d) = {}), v.indexes = IndexHashes(AllIndexNodes(d.sets)),
         (\E g \in Reads(d) : Figure(g).grain # None) => Grain(d) # None
  PROVE  Grain(d) = GrainTold(v, ReadGrains(d))
<1>1. OwnGrainTold(v) = OwnGrain(d)
  BY OwnGrainInHash
<1>2. CASE OwnGrain(d) # None
  BY <1>1, <1>2 DEF Grain, GrainTold
<1>3. CASE OwnGrain(d) = None
  <2>1. GroupGrains(d) = {}
    BY <1>3, NoGroupGrains
  <2>2. ReadGrains(d) # {} => Grain(d) # None
    BY DEF ReadGrains
  <2>3. Grain(d) # None => Grain(d) = GrainOf(d)
    BY <1>3 DEF Grain
  <2>4. GrainOf(d) = IF ReadGrains(d) # {} THEN CHOOSE g \in ReadGrains(d) : TRUE ELSE None
    BY <2>1 DEF GrainOf
  <2>5. GrainTold(v, ReadGrains(d)) = GrainOf(d)
    BY <1>1, <1>3, <2>4 DEF GrainTold
  <2> QED
    BY <2>2, <2>3, <2>4, <2>5
<1> QED
  BY <1>2, <1>3

\* A value of the record is resolved to its kind, its field and its scale.
LEMMA ValueForms ==
  ASSUME NEW raw, raw.op \in Written, NEW e, e = Resolved(raw), e.op = "subject"
  PROVE  e = Subject(e.kind, e.field, e.scale)
<1>1. CASE raw.op = "setting"
  BY <1>1 DEF Resolved, Subject
<1>2. CASE raw.op = "sum"
  BY <1>2 DEF Resolved
<1>3. CASE raw.op = "extreme"
  BY <1>3 DEF Resolved
<1>4. CASE raw.op \notin {"setting", "sum", "extreme"}
  <2>1. Resolved(raw) = raw
    BY <1>4 DEF Resolved
  <2> QED
    BY <2>1 DEF Written
<1> QED
  BY <1>1, <1>2, <1>3, <1>4

\* What is compiled of a tree is a tree: a calculation of no scales, a band of folded ones.
LEMMA CompiledTrees ==
  ASSUME NEW decl \in FigureDecls, NEW d, d = Resolve(decl)
  PROVE  /\ Bare(d.calculate)
         /\ Fold(d.band) # None => Tree(Fold(d.band))
<1>1. /\ d.calculate = [place \in DOMAIN decl.calculate |-> Unscaled(Resolved(decl.calculate[place]))]
      /\ d.band = ResolvedBand(decl.band)
  BY DEF Resolve, FigureDecl
<1>2. ASSUME NEW place \in DOMAIN d.calculate, d.calculate[place].op = "subject"
      PROVE  /\ d.calculate[place] = Subject(d.calculate[place].kind, d.calculate[place].field, None)
             /\ d.calculate[place].scale = None
  <2>1. d.calculate[place] \in Leaves(d)
    BY <1>2 DEF Leaves, Range
  <2>2. d.calculate[place] = Subject(d.calculate[place].kind, d.calculate[place].field, None)
    BY <1>2, <2>1, LeafWritten, LeafForms
  <2>3. Subject(d.calculate[place].kind, d.calculate[place].field, None).scale = None
    BY DEF Subject
  <2> QED
    BY <2>2, <2>3
<1>3. Bare(d.calculate)
  BY <1>1, <1>2 DEF Bare, Tree
<1>4. ASSUME Fold(d.band) # None PROVE Tree(Fold(d.band))
  <2>1. d.band # None /\ decl.band # None
    BY <1>1, <1>4 DEF Fold, ResolvedBand
  <2>2. Fold(d.band) = [place \in DOMAIN decl.band |-> Folded(Resolved(decl.band[place]))]
    BY <1>1, <2>1 DEF Fold, ResolvedBand
  <2>3. ASSUME NEW place \in DOMAIN decl.band, NEW e, e = Folded(Resolved(decl.band[place])), e.op = "subject"
        PROVE  e = Subject(e.kind, e.field, e.scale)
    <3>1. decl.band[place].op \in Written
      BY <2>1, <2>3, FiguresWritten DEF Range
    <3>2. e = Resolved(decl.band[place])
      BY <2>3 DEF Folded, Constant
    <3> QED
      BY <2>3, <3>1, <3>2, ValueForms
  <2> QED
    BY <2>2, <2>3 DEF Tree
<1> QED
  BY <1>3, <1>4

\* The figure that is added, told from its version and what it cites.
LEMMA PlanCited ==
  ASSUME Ordered, NEW decl \in FigureDecls, FigureStands(Resolve(decl)), NEW f, f = FigurePlan(decl),
         ~IsFigure(f.name)
  PROVE  Cited(f, figures \union {f})
<1> DEFINE d == Resolve(decl)
<1>1. /\ f.reads = Reads(d) /\ f.version = Version(d) /\ f.meaning = Meaning(d) /\ Rolled(f) = Rolled(d)
  BY PlanFields
<1>2. \A g \in Reads(d) : IsFigure(g) /\ Figure(g) \in figures /\ Figure(g).name = g
  BY ReadStanding, FigureNamed DEF Reads
<1>3. SourcesIn(f, figures \union {f}) = {Figure(g) : g \in Reads(d)}
  <2>1. f.name \notin f.reads
    BY <1>1, <1>2
  <2>2. \A h \in figures : h.name \in f.reads => h \in {Figure(g) : g \in Reads(d)}
    BY <1>1, FigureItself
  <2> QED
    BY <1>1, <1>2, <2>1, <2>2 DEF SourcesIn
<1>4. f.version.combines =
        {[figure |-> g, rolled |-> g \in Rolled(f), version |-> Figure(g).version] : g \in Reads(d)}
  BY <1>1 DEF Version
<1>5. f.meaning.sources = {<<g, Figure(g).meaning>> : g \in Reads(d)}
  BY <1>1 DEF Meaning
<1>6. f.version.combines = {[figure |-> h.name, rolled |-> h.name \in Rolled(f), version |-> h.version]
                            : h \in {Figure(g) : g \in Reads(d)}}
  BY <1>2, <1>4
<1>7. f.meaning.sources = {<<h.name, h.meaning>> : h \in {Figure(g) : g \in Reads(d)}}
  BY <1>2, <1>5
<1> QED
  BY <1>3, <1>6, <1>7 DEF Cited

LEMMA MeaningHasGrain ==
  ASSUME NEW f, Told(f)
  PROVE  f.meaning.grain = f.grain
<1> DEFINE m == [scope |-> f.version.name[1], across |-> f.version.across,
                 carried |-> f.version.carried, unit |-> f.version.unit,
                 grain |-> f.grain, sets |-> f.version.sets, calculate |-> f.calculate,
                 groups |-> f.version.indexes, measures |-> f.version.measures,
                 sources |-> f.meaning.sources]
<1>1. f.meaning = m
  BY DEF Told
<1>2. m.grain = f.grain
  OBVIOUS
<1> QED
  BY <1>1, <1>2

LEMMA PlanTold ==
  ASSUME Ordered, NEW decl \in FigureDecls, FigureStands(Resolve(decl)), NEW f, f = FigurePlan(decl),
         \A g \in figures : Told(g)
  PROVE  Told(f)
<1> DEFINE d == Resolve(decl)
           v == f.version
<1>1. /\ f.name = d.name /\ f.calculate = d.calculate /\ f.band = Fold(d.band) /\ f.grain = Grain(d)
      /\ f.version = Version(d) /\ f.meaning = Meaning(d)
      /\ f.overSequence <=> \E g \in Reads(d) : Figure(g).grain # None
  BY PlanFields
<1>2. /\ v.name = d.name /\ v.across = d.across /\ v.carried = d.carried /\ v.sets = d.sets
      /\ v.unit = FigureUnit(d) /\ v.calculate = CalcHash(d.calculate) /\ v.band = BandHash(Fold(d.band))
      /\ v.indexes = IndexHashes(AllIndexNodes(d.sets)) /\ v.measures = MeasuresRead(d)
      /\ v.combines = {[figure |-> g, rolled |-> g \in Rolled(d), version |-> Figure(g).version] : g \in Reads(d)}
  BY <1>1 DEF Version
<1>3. /\ f.meaning.sources = {<<g, Figure(g).meaning>> : g \in Reads(d)}
      /\ f.meaning = [scope |-> v.name[1], across |-> v.across, carried |-> v.carried, unit |-> v.unit,
                      grain |-> f.grain, sets |-> v.sets, calculate |-> f.calculate,
                      groups |-> v.indexes, measures |-> v.measures, sources |-> f.meaning.sources]
  BY <1>1, <1>2 DEF Meaning
<1>4. ASSUME Sequential(f)
      PROVE  f.grain = GrainTold(v, {s[2].grain : s \in f.meaning.sources} \ {None})
  <2>1. \A g \in Reads(d) : Figure(g) \in figures
    BY ReadStanding, FigureNamed DEF Reads
  <2>2. \A g \in Reads(d) : Figure(g).meaning.grain = Figure(g).grain
    BY <2>1, MeaningHasGrain
  <2>3. {s[2].grain : s \in f.meaning.sources} = {Figure(g).grain : g \in Reads(d)}
    <3>1. ASSUME NEW g \in Reads(d)
          PROVE  \E s \in f.meaning.sources : s[2].grain = Figure(g).grain
      <4>1. <<g, Figure(g).meaning>> \in f.meaning.sources
        BY <1>3
      <4>2. <<g, Figure(g).meaning>>[2].grain = Figure(g).grain
        BY <2>2
      <4> QED
        BY <4>1, <4>2
    <3>2. ASSUME NEW s \in f.meaning.sources
          PROVE  \E g \in Reads(d) : s[2].grain = Figure(g).grain
      <4>1. PICK g \in Reads(d) : s = <<g, Figure(g).meaning>>
        BY <1>3
      <4>2. s[2] = Figure(g).meaning
        BY <4>1
      <4> QED
        BY <2>2, <4>2
    <3> QED
      BY <3>1, <3>2
  <2>4. ReadGrains(d) = {Figure(g).grain : g \in Reads(d)} \ {None}
    BY DEF ReadGrains
  <2>5. (v.combines = {}) <=> (Reads(d) = {})
    BY <1>2
  <2>6. (\E g \in Reads(d) : Figure(g).grain # None) => Grain(d) # None
    BY <1>1, <1>4 DEF Sequential
  <2>7. v.sets = d.sets /\ v.indexes = IndexHashes(AllIndexNodes(d.sets))
    BY <1>2
  <2>8. Grain(d) = GrainTold(v, ReadGrains(d))
    BY <2>5, <2>6, <2>7, GrainIsTold
  <2> QED
    BY <1>1, <2>3, <2>4, <2>8
<1> QED
  BY <1>1, <1>2, <1>3, <1>4, CompiledTrees DEF Told

\* What one figure means by its sources, another that cites them at the same versions means.
LEMMA SourcesAlike ==
  ASSUME NEW f, NEW c, NEW fs, NEW cs, Cited(f, fs), Cited(c, cs), c.version = f.version,
         \A g \in SourcesIn(f, fs), h \in SourcesIn(c, cs) : h.version = g.version => h.meaning = g.meaning
  PROVE  f.meaning.sources \subseteq c.meaning.sources
<1> SUFFICES ASSUME NEW g \in SourcesIn(f, fs)
             PROVE  <<g.name, g.meaning>> \in c.meaning.sources
  BY DEF Cited
<1> DEFINE cite == [figure |-> g.name, rolled |-> g.name \in Rolled(f), version |-> g.version]
<1>1. cite \in f.version.combines
  BY DEF Cited
<1>2. PICK h \in SourcesIn(c, cs) :
        cite = [figure |-> h.name, rolled |-> h.name \in Rolled(c), version |-> h.version]
  <2>1. cite \in c.version.combines
    BY <1>1
  <2> HIDE DEF cite
  <2> QED
    BY <2>1 DEF Cited
<1>3. h.name = g.name /\ h.version = g.version
  BY <1>2
<1>4. h.meaning = g.meaning
  BY <1>3
<1> QED
  BY <1>3, <1>4 DEF Cited

\* Two figures that cite alike mean alike, where what they read does.
LEMMA MeansAlike ==
  ASSUME NEW f, NEW c, NEW fs, NEW cs, Told(f), Told(c), Cited(f, fs), Cited(c, cs),
         Sequential(f), Sequential(c), c.version = f.version,
         \A g \in SourcesIn(f, fs), h \in SourcesIn(c, cs) : h.version = g.version => h.meaning = g.meaning
  PROVE  c.meaning = f.meaning
<1>1. c.meaning.sources = f.meaning.sources
  <2>1. f.meaning.sources \subseteq c.meaning.sources
    BY SourcesAlike
  <2>2. c.meaning.sources \subseteq f.meaning.sources
    BY SourcesAlike
  <2> QED
    BY <2>1, <2>2
<1>2. c.calculate = f.calculate
  <2>1. CalcHash(c.calculate) = CalcHash(f.calculate)
    BY DEF Told
  <2>2. Bare(c.calculate) /\ Bare(f.calculate)
    BY DEF Told
  <2>3. DOMAIN c.calculate = DOMAIN f.calculate
    BY <2>1 DEF CalcHash
  <2> QED
    BY <2>1, <2>2, <2>3, HashTells DEF Bare
<1>3. c.grain = f.grain
  BY <1>1 DEF Told
<1> QED
  BY <1>1, <1>2, <1>3 DEF Told

\* A later figure is read by none before it.
LEMMA CitedKept ==
  ASSUME Ordered, FiguresMeet, NEW f \in figures, Cited(f, figures), NEW new, ~IsFigure(new.name)
  PROVE  Cited(f, figures \union {new})
<1>1. new.name \notin f.reads
  BY DEF FiguresMeet, ReadsKept
<1>2. SourcesIn(f, figures \union {new}) = SourcesIn(f, figures)
  BY <1>1 DEF SourcesIn
<1> QED
  BY <1>2 DEF Cited

\* The figure that is added means what any figure of the published source means that it
\* cites alike.
LEMMA NewMeaningTold ==
  ASSUME Ordered, VersionsStand, published # None, NEW f, Told(f), ~IsFigure(f.name), f.name \notin f.reads,
         Cited(f, figures \union {f}), Sequential(f), Sequenced(figures), Sequenced(published.figures),
         NEW c \in published.figures, c.version = f.version
  PROVE  c.meaning = f.meaning
<1>1. Told(c) /\ Cited(c, published.figures) /\ Sequential(c)
  BY DEF VersionsStand, SourceTold, Sequenced, Sequential
<1>2. ASSUME NEW g \in SourcesIn(f, figures \union {f}), NEW h \in SourcesIn(c, published.figures),
             h.version = g.version
      PROVE  h.meaning = g.meaning
  <2>1. g \in figures /\ h \in published.figures
    BY <1>2 DEF SourcesIn
  <2> QED
    BY <1>2, <2>1 DEF VersionsStand, MeaningsTold
<1> QED
  BY <1>1, <1>2, MeansAlike

LEMMA AddFigureTold ==
  ASSUME Ordered, FiguresMeet, VersionsStand, AddFigure
  PROVE  VersionsStand'
<1>1. PICK decl \in FigureDecls :
        /\ FigureStands(Resolve(decl))
        /\ figures' = figures \union {FigurePlan(decl)}
        /\ ~IsFigure(FigurePlan(decl).name)
  BY NewName
<1>2. UNCHANGED <<projections, summaries, published>>
  BY DEF AddFigure, answers
<1> DEFINE new == FigurePlan(decl)
<1>3. Told(new) /\ Cited(new, figures') /\ new.name \notin new.reads
  <2>1. \A g \in figures : Told(g)
    BY DEF VersionsStand, SourceTold, Current
  <2>2. new.reads = Reads(Resolve(decl))
    BY PlanFields
  <2>3. \A g \in Reads(Resolve(decl)) : IsFigure(g)
    BY <1>1, ReadStanding DEF Reads
  <2> QED
    BY <1>1, <2>1, <2>2, <2>3, PlanTold, PlanCited
<1>4. \A f \in figures : Told(f) /\ Cited(f, figures')
  <2>1. \A f \in figures : Told(f) /\ Cited(f, figures)
    BY DEF VersionsStand, SourceTold, Current
  <2> QED
    BY <1>1, <2>1, CitedKept
<1>5. SourceTold(Current)'
  <2>1. \A f \in figures' : Told(f) /\ Cited(f, figures')
    BY <1>1, <1>3, <1>4
  <2>2. \A p \in projections : p.meaning = RowTold(p.version)
    BY DEF VersionsStand, SourceTold, Current
  <2>3. \A s \in summaries : s.meaning = SummaryTold(s.version)
    BY DEF VersionsStand, SourceTold, Current
  <2> QED
    BY <1>2, <2>1, <2>2, <2>3 DEF SourceTold, Current
<1>6. MeaningsTold'
  <2> SUFFICES ASSUME published # None, Sequenced(figures'), Sequenced(published.figures),
                      NEW f \in figures', NEW c \in published.figures, c.version = f.version
               PROVE  c.meaning = f.meaning
    BY <1>2 DEF MeaningsTold, Sequenced
  <2>1. Sequenced(figures) /\ Sequential(new)
    BY <1>1 DEF Sequenced, Sequential
  <2>2. CASE f \in figures
    BY <2>1, <2>2 DEF VersionsStand, MeaningsTold
  <2>3. CASE f = new
    BY <1>1, <1>3, <2>1, <2>3, NewMeaningTold
  <2> QED
    BY <1>1, <2>2, <2>3
<1>7. published' # None => SourceTold(published)'
  BY <1>2 DEF VersionsStand
<1> QED
  BY <1>5, <1>6, <1>7 DEF VersionsStand

LEMMA VersionsStandStep ==
  ASSUME Ordered, FiguresMeet, VersionsStand, [Next]_library
  PROVE  VersionsStand'
<1>1. CASE UNCHANGED <<figures, projections, summaries, published>>
  <2>1. Current' = Current
    BY <1>1 DEF Current
  <2>2. SourceTold(Current)' /\ (published' # None => SourceTold(published)')
    BY <1>1, <2>1 DEF VersionsStand
  <2>3. MeaningsTold'
    BY <1>1 DEF VersionsStand, MeaningsTold, Sequenced
  <2> QED
    BY <2>2, <2>3 DEF VersionsStand
<1>2. CASE AddFigure
  BY <1>2, AddFigureTold
<1>3. CASE DeclareProjection
  <2>1. PICK d \in ProjectDecls : projections' = projections \union {ProjectPlan(d)}
    BY <1>3 DEF DeclareProjection
  <2>2. UNCHANGED <<figures, summaries, published>>
    BY <1>3 DEF DeclareProjection
  <2>3. ProjectPlan(d).meaning = RowTold(ProjectPlan(d).version)
    BY DEF ProjectPlan, RowsMean, RowTold, ProjectVersion, IndexHash
  <2>4. SourceTold(Current)'
    BY <2>1, <2>2, <2>3 DEF VersionsStand, SourceTold, Current
  <2>5. MeaningsTold' /\ (published' # None => SourceTold(published)')
    BY <2>2 DEF VersionsStand, MeaningsTold, Sequenced
  <2> QED
    BY <2>4, <2>5 DEF VersionsStand
<1>4. CASE DeclareSummary
  <2>1. PICK d \in SummariseDecls : SummaryStands(d) /\ summaries' = summaries \union {SummarisePlan(d)}
    BY <1>4 DEF DeclareSummary
  <2>2. UNCHANGED <<figures, projections, published>>
    BY <1>4 DEF DeclareSummary
  <2>3. Projection(d.over) \in projections
    BY <2>1 DEF SummaryStands, IsProjection, Projection
  <2>4. Projection(d.over).meaning = RowTold(Projection(d.over).version)
    BY <2>3 DEF VersionsStand, SourceTold, Current
  <2>5. SummarisePlan(d).meaning = SummaryTold(SummarisePlan(d).version)
    BY <2>4 DEF SummarisePlan, SummaryMeans, SummaryVersion, SummaryTold
  <2>6. SourceTold(Current)'
    BY <2>1, <2>2, <2>5 DEF VersionsStand, SourceTold, Current
  <2>7. MeaningsTold' /\ (published' # None => SourceTold(published)')
    BY <2>2 DEF VersionsStand, MeaningsTold, Sequenced
  <2> QED
    BY <2>6, <2>7 DEF VersionsStand
<1>5. CASE Edit
  <2>1. published' = Current /\ figures' = {} /\ projections' = {} /\ summaries' = {}
    BY <1>5 DEF Edit, Current
  <2>2. SourceTold(Current)' /\ MeaningsTold'
    BY <2>1 DEF SourceTold, Current, MeaningsTold
  <2>3. SourceTold(published)'
    BY <2>1 DEF VersionsStand
  <2> QED
    BY <2>2, <2>3 DEF VersionsStand
<1>6. CASE DeclareWorld \/ DeclareReading \/ DeclareBundle
  BY <1>1, <1>6 DEF DeclareWorld, DeclareFacts, DeclareIndexes, DeclareMeasures, DeclareReading,
                    DeclareBundle, answers
<1>7. CASE UNCHANGED library
  BY <1>1, <1>7 DEF library, language, answers
<1> QED
  BY <1>2, <1>3, <1>4, <1>5, <1>6, <1>7 DEF Next

LEMMA VersionsStandAlways == Spec => []VersionsStand
<1>1. Init => VersionsStand
  BY DEF Init, InitLanguage, VersionsStand, SourceTold, Current, MeaningsTold
<1>2. Ordered /\ FiguresMeet /\ VersionsStand /\ [Next]_library => VersionsStand'
  BY VersionsStandStep
<1>3. Spec => [](Ordered /\ FiguresMeet)
  BY FiguresMeetAlways
<1> QED
  BY <1>1, <1>2, <1>3, PTL DEF Spec

\* Two definitions of a source and of its edit that are hashed alike mean alike, for every
\* source the checker accepts: what is stored under a version never has to be rebuilt while
\* it stands (check.py's `_versioned_figure`, `_project_hash`, `_calc_hash`).
THEOREM VersionsAlwaysTell == Spec => []VersionsTell
<1>1. VersionsStand => VersionsTell
  <2> SUFFICES ASSUME VersionsStand, published # None, Sequenced(figures), Sequenced(published.figures)
               PROVE  VersionsTell
    BY DEF VersionsTell
  <2>1. ASSUME NEW f \in figures, NEW c \in published.figures, c.version = f.version
        PROVE  c.meaning = f.meaning /\ (Scales(c) = Scales(f) => Words(c) = Words(f))
    <3>1. Told(f) /\ Told(c)
      BY <2>1 DEF VersionsStand, SourceTold, Current
    <3>2. c.meaning = f.meaning
      BY <2>1 DEF VersionsStand, MeaningsTold
    <3> QED
      BY <2>1, <3>1, <3>2, BandTells
  <2>2. \A p \in projections, c \in published.projections : c.version = p.version => c.meaning = p.meaning
    BY DEF VersionsStand, SourceTold, Current
  <2>3. \A s \in summaries, c \in published.summaries : c.version = s.version => c.meaning = s.meaning
    BY DEF VersionsStand, SourceTold, Current
  <2> QED
    BY <2>1, <2>2, <2>3 DEF VersionsTell
<1> QED
  BY <1>1, VersionsStandAlways, PTL

=============================================================================
