------------------------------ MODULE Answers ------------------------------
(***************************************************************************)
(* The rest of a source: what readings, projections, summaries and bundles *)
(* may be declared over its figures, and what the engine then does with    *)
(* the library: the coordinates every reader looks up, the windows a tile  *)
(* asks for, and the versions by which a later library is told from an     *)
(* earlier one.                                                            *)
(***************************************************************************)
EXTENDS Language, Windows

CONSTANTS
  ReadingDecls, ProjectDecls, SummariseDecls, BundleDecls,  \* what an author may write next
  Samples,          \* numbers a value or a record's field may hold
  DefaultTrailing,  \* the windows of a request that names none
  Rewrites          \* bound: the figures, projections and summaries of an edited source

\* The windows of a request that names none fit the widest bucket of any sequence.
ASSUME TrailingStands ==
  /\ MaxReachDays \in Nat
  /\ WindowsStand(DefaultTrailing)
  /\ \A w \in Range(ExpandAll(DefaultTrailing)) : w.last \in Nat /\ Reaches(w, "quarter")

VARIABLES readings, projections, summaries, bundles, published
answers == <<readings, projections, summaries, bundles>>
library == <<language, answers, published>>

AllNames == Names \union {r.name : r \in readings} \union {p.name : p \in projections}
            \union {s.name : s \in summaries} \union {b.name : b \in bundles}
Claimed(name) == name \notin AllNames /\ name[1] \in Kinds /\ ~TakesAField(name)

--------------------------------------------------------------------------
(* Readings: statistics over a window of a figure, or over live records. *)

Statistic(fn, rank) == [fn |-> fn, rank |-> rank]
WindowedSource(figure) == [mode |-> "window", figure |-> figure]
LiveSource(measure, set) == [mode |-> "live", measure |-> measure, set |-> set]
ReadingDecl(name, range, source, calculate, requires, bandOn, band) ==
  [name |-> name, range |-> range, source |-> source, calculate |-> calculate,
   requires |-> requires, bandOn |-> bandOn, band |-> band]

PerRecord == {"mean", "median", "worst", "percentile"}
Fns(d) == {s.fn : s \in d.calculate}
Once(d, fn) == Cardinality({s \in d.calculate : s.fn = fn}) <= 1

\* A sum and a distribution divide into a third number nothing claims.
Statistics(d) ==
  /\ \A fn \in {"percentile", "series", "delta"} : Once(d, fn)
  /\ ~("sum" \in Fns(d) /\ Fns(d) \cap (PerRecord \union {"per_bucket"}) # {})
  /\ IF d.source.mode = "live" THEN Fns(d) \cap {"per_bucket", "delta", "series"} = {}
     ELSE LET source == Figure(d.source.figure) IN
          /\ "count" \notin Fns(d)
          /\ source.unit = "count" => Fns(d) \cap PerRecord = {}
          /\ "delta" \in Fns(d) => source.grain \notin {"minute", "15 minutes"}
          /\ "series" \in Fns(d) => source.grain # "minute"

\* The goal is reduced over the window the number is: the same sequence, the same unit.
ReadingThreshold(d, name) ==
  /\ IsFigure(name) /\ Figure(name).scope = d.name[1] /\ Figure(name).unit # "level"
  /\ IF d.source.mode = "live" THEN Figure(name).grain = None
     ELSE /\ Figure(name).unit = Figure(d.source.figure).unit
          /\ Figure(name).grain = Figure(d.source.figure).grain

Judged(d) == IF d.bandOn = None THEN "mean" ELSE d.bandOn
JudgedUnit(d) == IF Judged(d) = "count" \/ d.source.mode = "live" THEN "count"
                 ELSE Figure(d.source.figure).unit
GoalReads(d) == {e.name : e \in {g \in BandNodes(d) : g.op = "setting"}}
ReadingBandStands(d) ==
  d.band # None =>
    /\ Judged(d) \in Fns(d) \ {"delta", "series"}
    /\ At(d.band, "then").op = "text" /\ At(d.band, "otherwise").op = "text"
    /\ \A e \in BandNodes(d) : e.op # "coord" /\ Scaled(JudgedUnit(d), e)
    /\ \A name \in GoalReads(d) : ReadingThreshold(d, name)

WindowedStands(d) ==
  /\ d.range /\ IsFigure(d.source.figure)
  /\ LET source == Figure(d.source.figure) IN
     source.grain # None /\ source.scope = d.name[1] /\ source.unit \notin {"level", "moment"}

\* Of the live set only the groups and filters are checked.
LiveStands(d) ==
  LET nodes == IndexNodes(d.source.set) IN
  /\ ~d.range /\ IsMeasure(d.source.measure) /\ Measure(d.source.measure).shape # "field"
  /\ \A n \in nodes : GroupStands(n)
  /\ Cardinality({n \in nodes : n.bucket = "scope"}) = 1

ReadingStands(d) ==
  /\ Claimed(d.name)
  /\ IF d.source.mode = "window" THEN WindowedStands(d) ELSE LiveStands(d)
  /\ Statistics(d) /\ ReadingBandStands(d)

\* A distribution over nothing is a claim nobody can make: one, where no floor is written.
Floor(d) ==
  IF d.requires = None /\ d.source.mode = "window"
     /\ Fns(d) \cap (PerRecord \union {"per_bucket"}) # {} THEN 1 ELSE d.requires
ReadingUnit(d) ==
  IF d.source.mode = "live" THEN "duration"
  ELSE LET unit == Figure(d.source.figure).unit IN
       IF unit \in {"amount", "effort", "count"} THEN unit ELSE "duration"

\* A window cites its source's version on the answer; a live reading has only its own.
ReadingVersion(d) ==
  [name |-> d.name, unit |-> ReadingUnit(d), calculate |-> d.calculate, requires |-> Floor(d),
   band |-> IF d.band = None THEN None ELSE <<BandHash(Fold(ResolvedBand(d.band))), Judged(d)>>,
   source |-> IF d.source.mode = "window" THEN d.source
              ELSE [measure |-> Measure(d.source.measure), set |-> d.source.set,
                    indexes |-> IndexHashes(IndexNodes(d.source.set))]]
ReadingPlan(d) ==
  [name |-> d.name, scope |-> d.name[1], mode |-> d.source.mode, source |-> d.source,
   unit |-> ReadingUnit(d), calculate |-> d.calculate, requires |-> Floor(d),
   goals |-> GoalReads(d), version |-> ReadingVersion(d)]

--------------------------------------------------------------------------
(* Projections: one row per record of a kind. *)

Join(field, kind, path) == [field |-> field, kind |-> kind, path |-> path]
FieldDecl(name, path, type, join) == [name |-> name, path |-> path, type |-> type, join |-> join]
ReadDecl(name, figure, band) == [name |-> name, figure |-> figure, band |-> band]
ValueDecl(name, expr, unit) == [name |-> name, expr |-> expr, unit |-> unit]
Condition(left, right) == [left |-> left, right |-> right]
Part(name) == Leaf([op |-> "bound", name |-> name])
ProjectDecl(name, frm, scopedBy, fields, reads, values, flags, omit, sort, limit) ==
  [name |-> name, frm |-> frm, scopedBy |-> scopedBy, fields |-> fields, reads |-> reads,
   values |-> values, flags |-> flags, omit |-> omit, sort |-> sort, limit |-> limit]

Declared(type) == IF type = "date" THEN "moment" ELSE type
RowFieldExists(kind, f) ==
  LET source == IF f.join = None THEN kind ELSE f.join.kind IN
  /\ RecordField(source, f.path, {Declared(f.type)}, TRUE)
  /\ f.join # None => /\ f.join.kind \in Kinds
                      /\ RecordField(kind, f.join.field, Types, TRUE)
                      /\ RecordField(f.join.kind, f.join.path, Types, FALSE)

\* Filters that hold this kind's ids, and not by the clock, which nothing rebuilds.
Population(kind, expr) ==
  \A n \in IndexNodes(expr) :
    \E idx \in indexes : /\ idx.name = n.index /\ n.bucket = "all"
                         /\ idx.spec.by \in {"predicate", "presence"}
                         /\ IdSpace(indexes, idx.name) = KeyedAs(indexes, kind)
NamesNoSet(expr) == \A n \in Range(expr) : n.set # "ref"

\* A subject crossed with a calendar period, cut in one calendar for everybody.
Scoped(kind, name) ==
  \E idx \in indexes :
    /\ idx.name = name /\ idx.spec.by = "composite" /\ Len(idx.spec.parts) = 2
    /\ ~Timed(idx.spec.parts[1])
    /\ idx.spec.parts[2].truncate \in {"week", "month", "quarter"}
    /\ idx.spec.parts[2].zone = None
    /\ IdSpace(indexes, name) = KeyedAs(indexes, kind)

\* A mutant: a split figure has many numbers for one row.
ReadStandsSplit(kind, r) ==
  IsFigure(r.figure) /\ LET source == Figure(r.figure) IN
    /\ r.band => source.band # None
    /\ source.scope = kind /\ source.grain = None

ReadStands(kind, r) ==
  IsFigure(r.figure) /\ LET source == Figure(r.figure) IN
    /\ r.band => source.band # None
    /\ source.scope = kind /\ source.grain = None /\ source.across = None

FieldKind(f) == CASE f.type = "date" -> "date" [] f.type = "text" -> "text" [] OTHER -> "number"
ReadUnit(r) == IF r.band THEN "level" ELSE Figure(r.figure).unit
ReadKind(r) == CASE ReadUnit(r) = "moment" -> "date"
                 [] ReadUnit(r) = "level"  -> "text"
                 [] OTHER                  -> "number"
Bindings(d) == d.fields \union d.reads \union Range(d.values)

\* What an expression over a row holds, given what is bound; "nothing" when refused.
RowKind(expr, bound) ==
  LET kinds[place \in DOMAIN expr] ==
        LET e == expr[place]  kind(side) == kinds[Append(place, side)] IN
        CASE e.op = "number" -> "number"
          [] e.op = "text"   -> "text"
          [] e.op = "bound" /\ e.name \in DOMAIN bound -> bound[e.name]
          [] e.op = "days" /\ \A side \in {e.from, e.to} \ {"now"} :
                                side \in DOMAIN bound /\ bound[side] = "date" -> "number"
          [] e.op = "arith" /\ kind("left") = "number" /\ kind("right") = "number" -> "number"
          [] e.op = "when" /\ "nothing" \notin {kind("left"), kind("right")}
                           /\ kind("then") = kind("otherwise") -> kind("then")
          [] OTHER -> "nothing"
  IN  kinds[<<>>]

ValueStands(v, bound) ==
  /\ RowKind(v.expr, bound) # "nothing"
  /\ (v.unit = None) <=> (Top(v.expr).op = "when" /\ RowKind(v.expr, bound) = "text")
ValueKind(v) == IF v.unit = None THEN "text" ELSE "number"
\* A condition knows no moments: days are counted in a value.
ConditionStands(c, bound) ==
  LET kinds == [x \in DOMAIN bound |-> IF bound[x] = "date" THEN "opaque" ELSE bound[x]] IN
  "nothing" \notin {RowKind(c.left, kinds), RowKind(c.right, kinds)}

\* What the first n values may read: every column, and the values above.
BoundBefore(d, n) ==
  [x \in {f.name : f \in d.fields} \union {r.name : r \in d.reads}
         \union {d.values[i].name : i \in 1..n} |->
    IF \E f \in d.fields : f.name = x THEN FieldKind(CHOOSE f \in d.fields : f.name = x)
    ELSE IF \E r \in d.reads : r.name = x THEN ReadKind(CHOOSE r \in d.reads : r.name = x)
    ELSE ValueKind(d.values[CHOOSE i \in 1..n : d.values[i].name = x])]
RowKinds(d) == BoundBefore(d, Len(d.values))

ProjectionStands(d) ==
  LET kind == d.name[1] IN
  /\ Claimed(d.name)
  /\ d.scopedBy # None => Scoped(kind, d.scopedBy)
  /\ d.frm # None => NamesNoSet(d.frm) /\ Population(kind, d.frm)
  /\ \A x, y \in Bindings(d) : x.name = y.name => x = y
  /\ \A f \in d.fields : RowFieldExists(kind, f)
  /\ \A r \in d.reads : ReadStands(kind, r)
  /\ \A i \in DOMAIN d.values : ValueStands(d.values[i], BoundBefore(d, i - 1))
  /\ \A c \in d.flags \union ({d.omit} \ {None}) : ConditionStands(c, RowKinds(d))
  /\ d.sort # None => d.sort \in DOMAIN RowKinds(d) /\ RowKinds(d)[d.sort] # "date"
  /\ d.limit # None => d.sort # None

\* The specs of the groups and filters beside their names, for either decides who has a row.
RowIndexes(d) ==
  {j \in indexes : \/ j.name = d.scopedBy
                   \/ d.frm # None /\ \E n \in IndexNodes(d.frm) : n.index = j.name}
ProjectVersion(d) == [decl |-> d, indexes |-> {IndexHash(i) : i \in RowIndexes(d)}]
RowsMean(d) ==
  [decl |-> d, groups |-> {[name |-> i.name, kind |-> i.kind, spec |-> i.spec] : i \in RowIndexes(d)}]
ProjectPlan(d) ==
  [name |-> d.name, kind |-> d.name[1], decl |-> d, rows |-> RowKinds(d),
   figures |-> {r.figure : r \in d.reads}, version |-> ProjectVersion(d), meaning |-> RowsMean(d)]

--------------------------------------------------------------------------
(* Summaries: a population row over the rows of one projection. *)

CountDecl(name, when) == [name |-> name, when |-> when]
TotalDecl(name, of, when) == [name |-> name, of |-> of, when |-> when]
SummariseDecl(name, over, counts, totals, values) ==
  [name |-> name, over |-> over, counts |-> counts, totals |-> totals, values |-> values]

IsProjection(name) == \E p \in projections : p.name = name
Projection(name) == CHOOSE p \in projections : p.name = name

SummaryStands(d) ==
  /\ Claimed(d.name) /\ IsProjection(d.over)
  /\ LET rows == Projection(d.over).rows
         bindings == d.counts \union d.totals \union Range(d.values)
         bound(n) == [x \in {c.name : c \in d.counts \union d.totals}
                            \union {d.values[i].name : i \in 1..n} |->
                        IF \E i \in 1..n : d.values[i].name = x
                        THEN ValueKind(d.values[CHOOSE i \in 1..n : d.values[i].name = x])
                        ELSE "number"] IN
     /\ \A x, y \in bindings : x.name = y.name => x = y
     /\ \A c \in d.counts : c.name \notin DOMAIN rows
     /\ \A t \in d.totals : t.of \in DOMAIN rows /\ rows[t.of] = "number"
     /\ \A c \in d.counts \union d.totals : c.when # None => ConditionStands(c.when, rows)
     /\ \A i \in DOMAIN d.values : ValueStands(d.values[i], bound(i - 1))

\* Rename what a row value means and every count moves: the projection's version is inside.
SummaryVersion(d) == [decl |-> d, over |-> Projection(d.over).version]
SummaryMeans(d) == [decl |-> d, rows |-> Projection(d.over).meaning]
SummarisePlan(d) ==
  [decl |-> d, name |-> d.name, over |-> d.over, version |-> SummaryVersion(d), meaning |-> SummaryMeans(d)]

--------------------------------------------------------------------------
(* Bundles: which answers travel together. *)

BundleMember(slot, kind, name, windows) ==
  [slot |-> slot, kind |-> kind, name |-> name, windows |-> windows]
BundleDecl(name, members) == [name |-> name, members |-> members]

ReadingOf(name) == CHOOSE r \in readings : r.name = name
Rule(reading) == IF reading.mode = "live" THEN "day" ELSE Figure(reading.source.figure).grain
ReadingMember(m) ==
  /\ \E r \in readings : r.name = m.name
  /\ m.windows # None => /\ WindowsStand(m.windows)
                         /\ ReadingOf(m.name).mode # "live"
                         /\ \A w \in Range(ExpandAll(m.windows)) : Reaches(w, Rule(ReadingOf(m.name)))
MemberStands(m) ==
  CASE m.kind = "figure" ->
         IsFigure(m.name) /\ Figure(m.name).grain = None /\ Figure(m.name).across = None
    [] m.kind = "reading"    -> ReadingMember(m)
    [] m.kind = "projection" -> IsProjection(m.name)
    [] m.kind = "summary"    -> \E s \in summaries : s.name = m.name

\* One question once: a member may return over other windows, under another slot.
Question(m) == <<m.kind, m.name, IF m.windows = None THEN None ELSE ExpandAll(m.windows)>>
BundleStands(d) ==
  /\ Claimed(d.name)
  /\ \A i, j \in DOMAIN d.members :
       i # j => /\ d.members[i].slot # d.members[j].slot
                /\ Question(d.members[i]) # Question(d.members[j])
  /\ \A m \in Range(d.members) : (m.windows # None => m.kind = "reading") /\ MemberStands(m)

BundleVersion(d) == <<d.name, [i \in DOMAIN d.members |-> <<d.members[i].slot, Question(d.members[i])>>]>>
BundlePlan(d) == [name |-> d.name, members |-> d.members, version |-> BundleVersion(d)]

--------------------------------------------------------------------------
(* Where the readers of a figure look. *)

\* One table for both reads: a bare key answers every value of the subject, a
\* coordinate its own.
Found(name, key) ==
  {c \in Figure(name).stored : c.base = key.base /\ (key.tail = None \/ c.tail = key.tail)}

Members(f, set) == UNION {Ids(space) : space \in Spaces(f.sets, set)}
LooksUp(f, e, at) ==
  CASE e.op = "spread" -> {Coordinate(at.base, None)}
    [] e.op = "total"  -> {Coordinate(m, at.tail) : m \in Members(f, e.set)}
    [] OTHER           -> {at}
StoresList(name) == Top(Figure(name).calculate).op = "list"
StoresWord(name) == Figure(name).unit = "level"

\* The table a pass reads parts from has no words in it.
PartsAt(name, key) == IF StoresWord(name) THEN {} ELSE Found(name, key)

\* What a pass does with one read: a list under it, or two values where one is meant, abort.
Aborts(f, e, at) ==
  \/ StoresList(e.figure) /\ Figure(e.figure).stored # {}
  \/ e.op # "rollup" /\ \E key \in LooksUp(f, e, at) : Cardinality(PartsAt(e.figure, key)) > 1
Answered(f, e, at) ==
  \A key \in LooksUp(f, e, at) :
    IF e.op = "rollup" THEN PartsAt(e.figure, key) # {} ELSE Cardinality(PartsAt(e.figure, key)) = 1

--------------------------------------------------------------------------
(* What a band says. *)

Operand(e, value, held) ==
  CASE e.op = "value"   -> value
    [] e.op = "number"  -> e.value
    [] e.op = "subject" -> held * Seconds(e.scale)
    [] OTHER            -> held
Word(f, value, held) ==
  IF f.band = None THEN None
  ELSE IF Operand(At(f.band, "left"), value, held) >= Operand(At(f.band, "right"), value, held)
       THEN At(f.band, "then").word ELSE At(f.band, "otherwise").word
Words(f) == [pair \in Samples \X Samples |-> Word(f, pair[1], pair[2])]
\* The scales of the thresholds read off the record.
Scales(f) ==
  IF f.band = None THEN None
  ELSE [place \in {p \in DOMAIN f.band : f.band[p].op = "subject"} |-> f.band[place].scale]

--------------------------------------------------------------------------
(* A source, kind of declaration by kind of declaration, then an edit.     *)

\* Bound: what an edited source may say.
Rewritten(d) == published # None => d \in Rewrites

DeclareWorld ==
  /\ DeclareFacts \/ DeclareIndexes \/ DeclareMeasures
  /\ UNCHANGED <<answers, published>>

AddFigure ==
  /\ DeclareFigure
  /\ \A f \in figures' \ figures : Rewritten(f.decl)
  /\ UNCHANGED <<answers, published>>

DeclareReading ==
  /\ stage \in 3..4 /\ stage' = 4 /\ readings = {}
  /\ \E d \in ReadingDecls :
       Rewritten(d) /\ ReadingStands(d) /\ readings' = readings \union {ReadingPlan(d)}
  /\ UNCHANGED <<facts, indexes, measures, figures, projections, summaries, bundles, published>>

DeclareProjection ==
  /\ stage \in 3..5 /\ stage' = 5 /\ projections = {}
  /\ \E d \in ProjectDecls :
       Rewritten(d) /\ ProjectionStands(d) /\ projections' = projections \union {ProjectPlan(d)}
  /\ UNCHANGED <<facts, indexes, measures, figures, readings, summaries, bundles, published>>

DeclareSummary ==
  /\ stage \in 3..6 /\ stage' = 6 /\ summaries = {}
  /\ \E d \in SummariseDecls :
       Rewritten(d) /\ SummaryStands(d) /\ summaries' = summaries \union {SummarisePlan(d)}
  /\ UNCHANGED <<facts, indexes, measures, figures, readings, projections, bundles, published>>

DeclareBundle ==
  /\ stage \in 3..6 /\ stage' = 7
  /\ \E d \in BundleDecls :
       Rewritten(d) /\ BundleStands(d) /\ bundles' = bundles \union {BundlePlan(d)}
  /\ UNCHANGED <<facts, indexes, measures, figures, readings, projections, summaries, published>>

\* Another source is written over this one; what the first one cited is remembered.
Edit ==
  /\ published = None /\ stage \in 3..6 /\ figures # {} /\ readings = {}
  /\ \A p \in figures \union projections \union summaries : p.decl \in Rewrites
  /\ published' = [figures |-> figures, projections |-> projections, summaries |-> summaries]
  /\ facts' = {} /\ indexes' = {} /\ measures' = {} /\ figures' = {} /\ stage' = 0
  /\ projections' = {} /\ summaries' = {} /\ UNCHANGED <<readings, bundles>>

Init ==
  /\ InitLanguage /\ published = None
  /\ readings = {} /\ projections = {} /\ summaries = {} /\ bundles = {}

Next == DeclareWorld \/ AddFigure \/ DeclareReading \/ DeclareProjection \/ DeclareSummary
        \/ DeclareBundle \/ Edit

Spec == Init /\ [][Next]_library

--------------------------------------------------------------------------
(* What the language promises. *)

\* No pass aborts: whatever library the checker accepts, every read of a figure finds at
\* most one number where it means one, and never a list (evaluate's `_scalar` and the
\* readers of the engine say the checker refuses the rest).
NoPassAborts ==
  \A f \in figures : \A at \in f.stored : \A e \in Reading(f) : ~Aborts(f, e, at)

\* What docs/language.md asks of an author beyond what the checker asks: a split figure has
\* a group of two parts, a figure over a sequence is itself one, a split figure reads split
\* figures at its own pair, a roll-up is of this scope and no sequence, and what is read is a number.
Disciplined(f) ==
  LET grouped == f.scopeIndex # None
      parts == IF grouped THEN IndexFields(IndexNamed(f.scopeIndex).spec) ELSE <<>> IN
  /\ f.across # None => Len(parts) = 2
  /\ f.overSequence => f.grain # None
  /\ grouped /\ f.grain # None => Len(parts) = 2
  /\ f.across # None => \A e \in Reading(f) : e.op = "part" /\ Figure(e.figure).across # None
  /\ \A e \in Reading(f) : e.op = "rollup" => Figure(e.figure).scope = f.scope /\ f.grain = None
  /\ \A g \in f.reads : ~StoresList(g) /\ ~StoresWord(g)

\* In a library so written every read meets what it reads: a pass finds exactly one number
\* at every address it reads, and a band finds its threshold there.
ReadersMeet ==
  (\A f \in figures : Disciplined(f)) =>
    \A f \in figures :
      /\ f.stored # {}
      /\ \A at \in f.stored :
           /\ \A e \in Reading(f) : ~Aborts(f, e, at) /\ Answered(f, e, at)
           /\ \A g \in f.bandReads : at \in Figure(g).stored

\* And so does every answer above the figures: a window finds buckets of its subject and a
\* goal of its own unit at each, a row finds the one number it shows, and a tile asks for
\* no window that the serving door refuses.
WindowMeets(r) ==
  r.mode = "window" =>
    \A id \in Ids(r.scope) :
      LET cells == {c \in Figure(r.source.figure).stored : c.base = id /\ c.tail \in Tails} IN
      /\ cells # {}
      /\ \A g \in r.goals : cells \subseteq Figure(g).stored /\ Figure(g).unit = Figure(r.source.figure).unit
TileMeets(m) ==
  /\ m.kind = "figure" => Figure(m.name).stored = Roster(Figure(m.name).scope)
  /\ m.kind = "reading" /\ ReadingOf(m.name).mode = "window" =>
       LET asked == IF m.windows = None THEN DefaultTrailing ELSE m.windows IN
       /\ WindowsStand(asked)
       /\ \A w \in Range(ExpandAll(asked)) : Reaches(w, Rule(ReadingOf(m.name)))
AnswersMeet ==
  (\A f \in figures : Disciplined(f)) =>
    /\ \A r \in readings : WindowMeets(r)
    /\ \A p \in projections : \A name \in p.figures : \A key \in Roster(p.kind) :
         Found(name, key) = {key}
    /\ \A b \in bundles : \A m \in Range(b.members) : TileMeets(m)

Sequenced(plans) == \A f \in plans : f.overSequence => f.grain # None

\* A version is the hash of a definition's semantics: across an edit of the source, two
\* definitions that cite alike mean alike, the figures and groups they are built from
\* included, and a value on the same record is given the same word.  (But for the scale of
\* a threshold on the record, which no hash has: the README says so.)  What is stored
\* under a version is never rebuilt while it stands.
VersionsTell ==
  published # None /\ Sequenced(figures) /\ Sequenced(published.figures) =>
    /\ \A f \in figures, c \in published.figures : c.version = f.version =>
         /\ c.meaning = f.meaning
         /\ Scales(c) = Scales(f) => Words(c) = Words(f)
    /\ \A p \in projections, c \in published.projections :
         c.version = p.version => c.meaning = p.meaning
    /\ \A s \in summaries, c \in published.summaries :
         c.version = s.version => c.meaning = s.meaning
=============================================================================
