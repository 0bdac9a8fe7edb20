------------------------------ MODULE Language ------------------------------
(***************************************************************************)
(* The checker: which declarations of a source compile, and to what.       *)
(*                                                                         *)
(* A source is read kind of declaration by kind of declaration: facts,     *)
(* groups and filters, and measures as sets, then figures one by one, for  *)
(* a figure may only read a figure before it.  A declaration the checker   *)
(* refuses is simply not in any library.  The constants say what an author *)
(* may write; the second half of the module says what the engine does with *)
(* what was accepted: where a figure's values are stored and where its     *)
(* readers look them up.                                                   *)
(*                                                                         *)
(* Abstracted: a name is <<kind, leaf>> and a path a sequence of names;    *)
(* prose and line numbers are left out.  An expression is what stands at   *)
(* each place of its tree, a place being the branches that lead there.  A  *)
(* ladder has one rung, which compares with >=, `larger of` and `smaller   *)
(* of` are kept as arithmetic, and the presence tests of a rung are left   *)
(* out.                                                                    *)
(***************************************************************************)
EXTENDS Integers, Sequences, FiniteSets, Functions

CONSTANTS
  SchemaKinds,       \* the kinds the host's schema declares
  SchemaNameFields,  \* those of them with a name field
  Calendars,         \* the IANA names
  FactSources, IndexSources, MeasureSources,  \* sets of declarations a source may hold
  FigureDecls,       \* the figures an author may write next
  MaxFigures,        \* bound: figures in a source
  Ids(_),            \* the records there are of a kind
  Tails,             \* the buckets of time there are
  None

VARIABLES facts, indexes, measures, figures, stage
language == <<facts, indexes, measures, figures, stage>>

--------------------------------------------------------------------------
(* Declarations, as parsed. *)

Leaf(node) == [place \in {<<>>} |-> node]
Branch(node, sides) ==
  [place \in {<<>>} \union UNION {{<<side>> \o rest : rest \in DOMAIN sides[side]} : side \in DOMAIN sides} |->
     IF place = <<>> THEN node ELSE sides[Head(place)][Tail(place)]]
Top(tree) == tree[<<>>]
At(tree, side) == tree[<<side>>]

\* A field of a record nested in another is declared by the whole path to it.
FactField(path, type, many) == [path |-> path, type |-> type, many |-> many]
FactDecl(name, fields, nameField, urlField) ==
  [name |-> name, fields |-> fields, nameField |-> nameField, urlField |-> urlField]

Through(kind, path) == [kind |-> kind, path |-> path]
Zone(kind, field, named) == [kind |-> kind, field |-> field, named |-> named]
IndexField(field) ==
  [field |-> field, through |-> None, truncate |-> None, select |-> None, zone |-> None,
   until |-> None, aheadOnly |-> FALSE, overdue |-> FALSE]

ByField(part) == [by |-> "field", part |-> part]
ByPredicate(field, value, quoted) ==
  [by |-> "predicate", field |-> field, value |-> value, quoted |-> quoted]
ByPresence(field) == [by |-> "presence", field |-> field]
ByAge(field, read, local, through) ==
  [by |-> "age", field |-> field, read |-> read, local |-> local, through |-> through]
ByComposite(parts) == [by |-> "composite", parts |-> parts]
IndexDecl(name, kind, spec, keyedAs) ==
  [name |-> name, kind |-> kind, spec |-> spec, keyedAs |-> keyedAs]

DurationMeasure(name, kind, later, earlier, clock) ==
  [name |-> name, kind |-> kind, shape |-> "duration", clock |-> clock, unit |-> None,
   paths |-> IF clock THEN {earlier} ELSE {later, earlier}]
FieldMeasure(name, kind, field, unit) ==
  [name |-> name, kind |-> kind, shape |-> "field", clock |-> FALSE, unit |-> unit,
   paths |-> {field}]
MomentMeasure(name, kind, moment) ==
  [name |-> name, kind |-> kind, shape |-> "moment", clock |-> FALSE, unit |-> None,
   paths |-> {moment}]

\* A group is addressed per subject ("scope"), a filter whole ("all").
SetIndex(index, bucket) == Leaf([set |-> "index", index |-> index, bucket |-> bucket])
SetRef(name) == Leaf([set |-> "ref", name |-> name])
SetOp(left, right) == Branch([set |-> "op"], [left |-> left, right |-> right])

Count(set) == Leaf([op |-> "count", set |-> set])
ListOf(measure, set) == Leaf([op |-> "list", measure |-> measure, set |-> set])
Sum(measure, set) == Leaf([op |-> "sum", measure |-> measure, set |-> set])
RollUp(figure) == Leaf([op |-> "rollup", figure |-> figure])
Number(value, scale) == Leaf([op |-> "number", value |-> value, scale |-> scale])
Text(word) == Leaf([op |-> "text", word |-> word])
Value == Leaf([op |-> "value"])
Setting(name, scale) == Leaf([op |-> "setting", name |-> name, scale |-> scale])
Coord(figure) == Leaf([op |-> "coord", figure |-> figure])
Spread(figure, set) == Leaf([op |-> "spread", figure |-> figure, set |-> set])
Extreme(measure, set) == Leaf([op |-> "extreme", measure |-> measure, set |-> set])
BucketStat(measure, set) == Leaf([op |-> "stat", measure |-> measure, set |-> set])
DaysBetween(from, to) == Leaf([op |-> "days", from |-> from, to |-> to])
Arith(left, right) == Branch([op |-> "arith"], [left |-> left, right |-> right])
When(left, right, then, otherwise) ==
  Branch([op |-> "when"], [left |-> left, right |-> right, then |-> then, otherwise |-> otherwise])

FigureDecl(name, across, bucketed, carried, unit, sets, calculate, band) ==
  [name |-> name, across |-> across, bucketed |-> bucketed, carried |-> carried,
   unit |-> unit, sets |-> sets, calculate |-> calculate, band |-> band]

\* What the parser writes: the sets of a figure in order, and at each place of an
\* expression one of its own forms.
Written == {"count", "list", "sum", "rollup", "number", "text", "value", "setting", "coord",
            "spread", "extreme", "stat", "days", "arith", "when"}
Sequence(s) == s \in Seq(Range(s))

ASSUME FiguresWritten ==
  \A d \in FigureDecls :
    /\ Sequence(d.sets)
    /\ \A e \in Range(d.calculate) : e.op \in Written
    /\ d.band # None => \A e \in Range(d.band) : e.op \in Written
ASSUME IndexesWritten ==
  \A ds \in IndexSources : \A d \in ds :
    /\ d.name # None
    /\ d.spec.by = "composite" => Sequence(d.spec.parts) /\ d.spec.parts # <<>>

ASSUME NameFieldsOfKinds == SchemaNameFields \subseteq SchemaKinds

\* A kind of which there is no record, or a calendar of no buckets, asks nothing.
ASSUME SomeRecords ==
  \A kind \in SchemaKinds \union {f.name : f \in UNION FactSources} :
    kind # None /\ Ids(kind) # {} /\ None \notin Ids(kind)
ASSUME SomeTails == Tails # {} /\ None \notin Tails

--------------------------------------------------------------------------
(* The world: kinds and fields. *)

Types == {"text", "number", "moment", "flag"}

Kinds == IF facts # {} THEN {f.name : f \in facts} ELSE SchemaKinds
NameFields == IF facts # {} THEN {f.name : f \in {g \in facts : g.nameField # None}}
              ELSE SchemaNameFields

UniqueFields(fields) == \A f, g \in fields : f.path = g.path => f = g

\* The field a path lands on, and whether it crossed a list; a nested record is no value.
FieldAt(fields, path) ==
  [type |-> IF \E f \in fields : f.path = path THEN (CHOOSE f \in fields : f.path = path).type
            ELSE "missing",
   crossed |-> \E f \in fields : f.many /\ \E n \in 1..Len(path) : f.path = SubSeq(path, 1, n)]

\* A schema-taught world declares no field, so there is nothing to check there.
RecordField(kind, path, types, single) ==
  facts # {} =>
    \E f \in facts : /\ f.name = kind
                     /\ FieldAt(f.fields, path).type \in types
                     /\ single => ~FieldAt(f.fields, path).crossed

TakesAField(name) == \E f \in facts : f.name = name[1] /\ \E g \in f.fields : g.path = <<name[2]>>

Pointed(d, pointer) ==
  pointer # None => \E f \in d.fields : f.path = <<pointer>> /\ f.type = "text"

FactsStand(ds) ==
  /\ \A d, e \in ds : d.name = e.name => d = e
  /\ \A d \in ds : UniqueFields(d.fields) /\ Pointed(d, d.nameField) /\ Pointed(d, d.urlField)
  /\ ds # {} => SchemaKinds = {}

--------------------------------------------------------------------------
(* Groups, filters and measures. *)

IndexFields(spec) ==
  CASE spec.by = "field"     -> <<spec.part>>
    [] spec.by = "composite" -> spec.parts
    [] OTHER                 -> <<IndexField(spec.field)>>
Timed(part) == part.truncate # None \/ part.select # None
GrainAt(part) == IF part.truncate # None THEN part.truncate ELSE part.select
Bucketed(idx) == idx.spec.by \in {"field", "composite"}

Spannable == {"day", "week", "month", "quarter"}

KeyedAs(ds, kind) ==
  IF \E d \in ds : d.kind = kind /\ d.keyedAs # None
  THEN (CHOOSE d \in ds : d.kind = kind /\ d.keyedAs # None).keyedAs ELSE kind
IndexNamed(name) == CHOOSE i \in indexes : i.name = name
IdSpace(ds, name) == KeyedAs(ds, (CHOOSE i \in ds : i.name = name).kind)

IdSpacesAgree(ds) ==
  \A d \in ds : d.keyedAs # None => d.keyedAs \in Kinds /\ d.keyedAs = KeyedAs(ds, d.kind)

\* The calendar is on the subject's record: the first part's, or the record bucketed.
ZoneStands(d, i) ==
  LET parts == IndexFields(d.spec)  zone == parts[i].zone IN
  IF zone.named # None THEN zone.named \in Calendars
  ELSE /\ zone.kind \in Kinds
       /\ RecordField(zone.kind, zone.field, Types, FALSE)
       /\ IF i = 1 THEN zone.kind = d.kind
          ELSE parts[1].through # None => parts[1].through.kind = zone.kind

SpanStands(part) == part.select = None /\ part.truncate \in Spannable /\ part.through = None

PartStands(d, i) ==
  LET part == IndexFields(d.spec)[i] IN
  /\ part.through # None => /\ part.through.kind \in Kinds
                            /\ RecordField(part.through.kind, part.through.path, Types, FALSE)
  /\ part.zone # None => ZoneStands(d, i)
  /\ part.until # None => SpanStands(part) /\ RecordField(d.kind, part.until, {"moment"}, TRUE)
  /\ RecordField(d.kind, part.field, IF Timed(part) THEN {"moment"} ELSE Types, FALSE)

AgeStands(d) ==
  /\ RecordField(d.kind, d.spec.field, {"moment"}, TRUE)
  /\ IF d.spec.through = None
     THEN d.spec.read # None => RecordField(d.kind, d.spec.read, {"number"}, TRUE)
     ELSE /\ d.spec.through.kind \in Kinds
          /\ RecordField(d.spec.through.kind, d.spec.read, Types, FALSE)
          /\ RecordField(d.kind, d.spec.local, Types, FALSE)

\* A bare true or false tests a flag; a number is written bare.
PredicateStands(d) ==
  LET word == d.spec.value \in {"true", "false"} IN
  RecordField(d.kind, d.spec.field,
              {t \in Types : /\ t = "flag" => word
                             /\ word /\ ~d.spec.quoted => t = "flag"
                             /\ t = "number" => ~d.spec.quoted}, FALSE)

IndexStands(d) ==
  LET parts == IndexFields(d.spec) IN
  /\ d.kind \in Kinds
  /\ Cardinality({i \in DOMAIN parts : parts[i].zone # None}) <= 1
  /\ \A i \in DOMAIN parts : PartStands(d, i)
  /\ d.spec.by = "age" => AgeStands(d)
  /\ d.spec.by = "predicate" => PredicateStands(d)

\* One value off one record: the declared type, and no list on the way.
MeasureStands(m) ==
  /\ m.kind \in Kinds
  /\ ~TakesAField(m.name)
  /\ \A p \in m.paths :
       RecordField(m.kind, p, IF m.shape = "field" THEN {"number"} ELSE {"moment"}, TRUE)

\* One namespace for every declaration; a kind has no leaf, so it is in none of these.
Names == {d.name : d \in indexes} \union {m.name : m \in measures} \union {f.name : f \in figures}
Distinct(ds) == /\ \A d, e \in ds : d.name = e.name => d = e
                /\ \A d \in ds : d.name \notin Names

--------------------------------------------------------------------------
(* What a figure names. *)

Below(tree) == {tree[place] : place \in DOMAIN tree \ {<<>>}}
IndexNodes(expr) == {n \in Range(expr) : n.set = "index"}

SetNames(d) == {d.sets[i].name : i \in DOMAIN d.sets}
AllIndexNodes(sets) == UNION {IndexNodes(sets[i].expr) : i \in DOMAIN sets}

Figure(name) == CHOOSE f \in figures : f.name = name
IsFigure(name) == \E f \in figures : f.name = name
IsMeasure(name) == \E m \in measures : m.name = name
Measure(name) == CHOOSE m \in measures : m.name = name

Subject(kind, field, scale) == [op |-> "subject", kind |-> kind, field |-> field, scale |-> scale]
Constant(value, scale) == [op |-> "number", value |-> value, scale |-> scale]

\* A measure, then a figure, then a field of a record: three namespaces, one spelling.
Resolved(e) ==
  CASE e.op = "setting" ->
         IF ~IsFigure(e.name) /\ facts # {} /\ e.name[1] \in Kinds
         THEN Subject(e.name[1], e.name[2], e.scale)
         ELSE [op |-> "part", figure |-> e.name]
    [] e.op = "sum" /\ ~IsMeasure(e.measure) ->
         IF IsFigure(e.measure)
         THEN [op |-> "total", figure |-> e.measure, set |-> e.set]
         ELSE [op |-> "fieldtotal", kind |-> e.measure[1], field |-> e.measure[2], set |-> e.set]
    [] e.op = "extreme" /\ ~IsMeasure(e.measure) /\ e.measure[1] \in Kinds ->
         [op |-> "pick", kind |-> e.measure[1], field |-> e.measure[2], set |-> e.set]
    [] OTHER -> e

\* A calculation has no scales: one that is written says nothing there.
Unscaled(e) ==
  CASE e.op = "subject" -> Subject(e.kind, e.field, None)
    [] e.op = "number"  -> Constant(e.value, None)
    [] OTHER            -> e
ResolvedBand(band) ==
  IF band = None THEN None ELSE [place \in DOMAIN band |-> Resolved(band[place])]
Resolve(d) ==
  FigureDecl(d.name, d.across, d.bucketed, d.carried, d.unit, d.sets,
             [place \in DOMAIN d.calculate |-> Unscaled(Resolved(d.calculate[place]))],
             ResolvedBand(d.band))

\* Of a declaration so resolved:
Leaves(d) == Range(d.calculate)
Reading(d) == {e \in Leaves(d) : e.op \in {"part", "coord", "rollup", "spread", "total"}}
Reads(d) == {e.figure : e \in Reading(d)}

--------------------------------------------------------------------------
(* The populations. *)

\* The spaces of a set's ids: those of the groups it names, and of the sets above it.
SpacesOf(ds, sets) ==
  LET spaces[i \in DOMAIN sets] ==
        {IdSpace(ds, n.index) : n \in IndexNodes(sets[i].expr)}
        \union UNION {spaces[j] : j \in {k \in 1..(i - 1) :
                         \E n \in Range(sets[i].expr) : n.set = "ref" /\ n.name = sets[k].name}}
  IN  spaces
Spaces(sets, name) == SpacesOf(indexes, sets)[CHOOSE i \in DOMAIN sets : sets[i].name = name]

GroupStands(n) == \E idx \in indexes : idx.name = n.index /\ (Bucketed(idx) <=> n.bucket = "scope")
CheckSet(expr, above) ==
  \A n \in Range(expr) : /\ n.set = "index" => GroupStands(n)
                         /\ n.set = "ref" => n.name \in above

\* A set holds the ids of one space: ids of two have nothing in common.
OneIdSpace(sets, name) == \A x, y \in Spaces(sets, name) : x = y

NamedSets(d) ==
  /\ \A i, j \in DOMAIN d.sets : d.sets[i].name = d.sets[j].name => i = j
  /\ \A i \in DOMAIN d.sets :
       /\ CheckSet(d.sets[i].expr, {d.sets[j].name : j \in 1..(i - 1)})
       /\ OneIdSpace(d.sets, d.sets[i].name)

\* What reads records of a kind is given ids of that kind.
MatchesSet(d, kind, set) == set \in SetNames(d) /\ kind \in Spaces(d.sets, set)

--------------------------------------------------------------------------
(* What fans a figure out: its subjects, its sequence, its second part. *)

ScopedIndexes(d) == {n.index : n \in {m \in AllIndexNodes(d.sets) : m.bucket = "scope"}}
OverFigures(d) == d.sets = <<>> /\ Reads(d) # {}
ScopeIndex(d) == IF OverFigures(d) THEN None ELSE CHOOSE n \in ScopedIndexes(d) : TRUE
ScopeParts(d) ==
  IF OverFigures(d) THEN <<>> ELSE IndexFields(IndexNamed(ScopeIndex(d)).spec)
OwnGrain(d) ==
  IF Len(ScopeParts(d)) = 2 /\ Timed(ScopeParts(d)[2]) THEN GrainAt(ScopeParts(d)[2]) ELSE None

\* A bucket of time is not a dimension, and a dimension is not a bucket of time.
TailStands(d) ==
  LET tail == ScopeParts(d)[2] IN
  IF Timed(tail) THEN d.across = None /\ d.bucketed
  ELSE /\ d.across \in NameFields
       /\ tail.through # None => tail.through.kind = d.across

FannedOut(d) ==
  OverFigures(d) \/
    /\ \E name \in ScopedIndexes(d) : ScopedIndexes(d) = {name}
    /\ LET parts == ScopeParts(d)  zoned == {p \in Range(parts) : p.zone # None} IN
       /\ parts[1].through # None => parts[1].through.kind = d.name[1]
       /\ \A p \in zoned : p.zone.kind # None => p.zone.kind = d.name[1]
       /\ ~Timed(parts[1])
       /\ Len(parts) <= 2
       /\ Len(parts) = 2 => TailStands(d)

\* The sequence it is answered over: its group's, or that of a figure it reads.
GroupGrains(d) ==
  LET named == {i \in indexes : \E n \in AllIndexNodes(d.sets) : n.index = i.name}
      timed == {p \in UNION {Range(i.spec.parts) : i \in {j \in named : j.spec.by = "composite"}} : Timed(p)}
  IN  {GrainAt(p) : p \in timed}
ReadGrains(d) == {Figure(f).grain : f \in {g \in Reads(d) : Figure(g).grain # None}}
GrainOf(d) ==
  IF GroupGrains(d) # {} THEN CHOOSE g \in GroupGrains(d) : TRUE
  ELSE IF ReadGrains(d) # {} THEN CHOOSE g \in ReadGrains(d) : TRUE ELSE None
Grain(d) == IF OwnGrain(d) = None /\ d.bucketed /\ Reads(d) # {} THEN GrainOf(d) ELSE OwnGrain(d)

\* Carried across buckets a pass can keep up with: a day's or coarser, or one day a month.
CarryStands(d) ==
  d.carried => ~OverFigures(d) /\ Grain(d) \notin {None, "minute", "15 minutes", "hour"}
SequenceStands(d) == d.bucketed => Grain(d) # None

--------------------------------------------------------------------------
(* What a calculation produces: a number, a word, a list or an instant.    *)

Rolled(d) == {e.figure : e \in {g \in Reading(d) : g.op = "rollup"}}

\* A mutant: bound by its name, whatever its scope.
BindAnywhere(d, name) ==
  /\ IsFigure(name)
  /\ Figure(name).across # None => d.across = Figure(name).across

\* One figure of another is named outright: declared before, this scope, these parts.
Bind(d, name) ==
  /\ IsFigure(name)
  /\ Figure(name).scope = d.name[1]
  /\ Figure(name).across # None => d.across = Figure(name).across

ResolveRollUp(d, name) ==
  IsFigure(name) /\ Figure(name).across # None /\ Rolled(d) = {name} /\ d.sets = <<>>

ResolveFigureReads(d) ==
  \A e \in Reading(d) :
    CASE e.op = "rollup" -> ResolveRollUp(d, e.figure)
      [] e.op = "total"  -> Figure(e.figure).across = None
      [] e.op = "coord"  -> IsFigure(e.figure) /\ (e.figure \in Rolled(d) \/ Bind(d, e.figure))
      [] OTHER           -> Bind(d, e.figure)

\* A figure named bare: the one number its subject has.
PartReadStands(d, name) ==
  /\ name \notin Rolled(d)
  /\ Figure(name).grain = None /\ GrainOf(d) = None
  /\ Figure(name).unit # "level"

CoordStands(d, name) ==
  Figure(name).grain \notin {None} /\ Figure(name).grain = GrainOf(d) /\ Figure(name).scope = d.name[1]

\* Each member is read at the bucket being answered for.
TotalStands(d, e) ==
  /\ e.set \in SetNames(d) /\ Figure(e.figure).scope \in Spaces(d.sets, e.set)
  /\ Figure(e.figure).grain = GrainOf(d)
  /\ Figure(e.figure).across = None

SpreadStands(d, e) ==
  e.set \in SetNames(d) /\ GrainOf(d) # None /\ Figure(e.figure).grain = None

MeasureRead(d, e, shapes) ==
  /\ IsMeasure(e.measure) /\ Measure(e.measure).shape \in shapes /\ ~Measure(e.measure).clock
  /\ MatchesSet(d, Measure(e.measure).kind, e.set)

\* One value off one record: declared a number, no list on the way.
NumberField(kind, field) == kind \in Kinds /\ RecordField(kind, <<field>>, {"number"}, TRUE)

LeafStands(d, e) ==
  CASE e.op = "count"      -> e.set \in SetNames(d)
    [] e.op = "list"       -> MeasureRead(d, e, {"duration"})
    [] e.op = "sum"        -> MeasureRead(d, e, {"field"})
    [] e.op = "stat"       -> d.bucketed /\ MeasureRead(d, e, {"duration", "field"})
    [] e.op = "extreme"    -> MeasureRead(d, e, {"moment"})
    [] e.op = "pick"       -> /\ NumberField(e.kind, e.field) /\ OwnGrain(d) # None
                              /\ MatchesSet(d, e.kind, e.set)
    [] e.op = "fieldtotal" -> NumberField(e.kind, e.field) /\ MatchesSet(d, e.kind, e.set)
    [] e.op = "subject"    -> e.kind = d.name[1] /\ NumberField(e.kind, e.field)
    [] e.op = "part"       -> PartReadStands(d, e.figure)
    [] e.op = "coord"      -> CoordStands(d, e.figure)
    [] e.op = "total"      -> TotalStands(d, e)
    [] e.op = "spread"     -> SpreadStands(d, e)
    [] e.op \in {"rollup", "number", "text"} -> TRUE
    [] OTHER               -> FALSE

\* What each node of the calculation produces, all of them standing.
CalcKinds(d) ==
  LET kinds[place \in DOMAIN d.calculate] ==
        LET e == d.calculate[place] IN
        CASE e.op = "list"    -> "list"
          [] e.op = "extreme" -> "moment"
          [] e.op = "text"    -> "text"
          [] e.op = "part"    -> IF Figure(e.figure).unit = "moment" THEN "moment" ELSE "number"
          [] e.op = "when"    -> kinds[Append(place, "then")]
          [] OTHER            -> "number"
  IN  kinds
CalcKind(d) == CalcKinds(d)[<<>>]

\* A ladder compares like with like, and answers words or instants.
LadderStands(left, right, then, otherwise) ==
  /\ left # "list" /\ ((left = "text") <=> (right = "text"))
  /\ then = otherwise /\ then \in {"text", "moment"}

CalcStands(d) ==
  \A place \in DOMAIN d.calculate :
    LET e == d.calculate[place]  kind(side) == CalcKinds(d)[Append(place, side)] IN
    CASE e.op = "arith" -> kind("left") = "number" /\ kind("right") = "number"
      [] e.op = "when"  -> LadderStands(kind("left"), kind("right"), kind("then"), kind("otherwise"))
      [] OTHER          -> LeafStands(d, e)

\* The unit is derived wherever it can be, and declared only where nothing can tell.
Nameless(d) == Top(d.calculate).op \in {"arith", "pick", "fieldtotal", "subject"}
MeasureUnit(m) == IF m.shape = "duration" THEN "duration"
                  ELSE IF m.unit \in {"effort", "amount"} THEN m.unit ELSE "count"
Inherited == {"effort", "share", "days", "duration", "amount"}
DerivedUnit(d) ==
  LET e == Top(d.calculate)  kind == CalcKind(d) IN
  CASE kind = "text"   -> "level"
    [] kind = "moment" -> "moment"
    [] kind = "list"   -> "duration"
    [] e.op \in {"stat", "sum"} -> MeasureUnit(Measure(e.measure))
    [] e.op \in {"coord", "spread", "total"} -> Figure(e.figure).unit
    [] e.op \in {"part", "rollup"} ->
         IF Figure(e.figure).unit \in Inherited THEN Figure(e.figure).unit ELSE "count"
    [] OTHER -> "count"
FigureUnit(d) == IF Nameless(d) THEN d.unit ELSE DerivedUnit(d)

--------------------------------------------------------------------------
(* The band: the word beside the number. *)

Timings == {"duration", "effort"}  \* stored in seconds, so a threshold says its scale
Seconds(scale) == CASE scale = "minutes" -> 60 [] scale = "hours" -> 3600 [] OTHER -> 1
Scaled(unit, e) ==
  CASE e.op = "subject" -> (e.scale # None) <=> unit \in Timings
    [] e.op = "number"  -> IF unit \in Timings THEN e.scale # None \/ e.value = 0 ELSE e.scale = None
    [] OTHER            -> TRUE

\* One figure a rung compares against: this scope, these parts, this sequence, this unit.
Threshold(d, unit, name, sequenced) ==
  /\ IsFigure(name)
  /\ Figure(name).scope = d.name[1]
  /\ Figure(name).across = d.across
  /\ Figure(name).grain = Grain(d) /\ (sequenced <=> Grain(d) # None)
  /\ Figure(name).unit = unit

BandNodes(d) == IF d.band = None THEN {} ELSE Below(d.band)
BandStands(d, unit, kind) ==
  d.band # None =>
    /\ At(d.band, "then").op = "text" /\ At(d.band, "otherwise").op = "text"
    /\ unit # "level" /\ kind # "list"
    /\ \A e \in BandNodes(d) :
         /\ Scaled(unit, e)
         /\ e.op = "part"    => Threshold(d, unit, e.figure, FALSE)
         /\ e.op = "coord"   => Threshold(d, unit, e.figure, TRUE)
         /\ e.op = "subject" => e.kind = d.name[1] /\ NumberField(e.kind, e.field)
BandReads(d) == {e.figure : e \in {g \in BandNodes(d) : g.op \in {"part", "coord"}}}

\* A number is compared as it is stored: its scale is folded in when the band is read.
Folded(e) == IF e.op = "number" THEN Constant(e.value * Seconds(e.scale), None) ELSE e
Fold(band) == IF band = None THEN None ELSE [place \in DOMAIN band |-> Folded(band[place])]

--------------------------------------------------------------------------
(* Versions: the hash of what was written, as the record that is hashed.   *)
(* `bucketed` is not in it, nor is a group's id space.                     *)

\* The scale of a threshold on the record is in no hash.
Hashed(e) == IF e.op = "subject" THEN [op |-> "subject", kind |-> e.kind, field |-> e.field] ELSE e
CalcHash(tree) == [place \in DOMAIN tree |-> Hashed(tree[place])]
BandHash(band) == IF band = None THEN {} ELSE {CalcHash(band)}

IndexHash(idx) == [name |-> idx.name, kind |-> idx.kind, spec |-> idx.spec]
IndexHashes(nodes) == {IndexHash(i) : i \in {j \in indexes : \E n \in nodes : n.index = j.name}}
MeasuresRead(d) ==
  {m \in measures : \E e \in Leaves(d) :
     e.op \in {"list", "sum", "stat", "extreme"} /\ e.measure = m.name}

\* A mutant: what it reads cited by name and not by version.
VersionShallow(d) ==
  [name |-> d.name, across |-> d.across, carried |-> d.carried, sets |-> d.sets,
   unit |-> FigureUnit(d),
   combines |-> {[figure |-> f, rolled |-> f \in Rolled(d)] : f \in Reads(d)},
   calculate |-> CalcHash(d.calculate), band |-> BandHash(Fold(d.band)),
   indexes |-> IndexHashes(AllIndexNodes(d.sets)), measures |-> MeasuresRead(d)]

Version(d) ==
  [name |-> d.name, across |-> d.across, carried |-> d.carried, sets |-> d.sets,
   unit |-> FigureUnit(d),
   combines |-> {[figure |-> f, rolled |-> f \in Rolled(d), version |-> Figure(f).version]
                 : f \in Reads(d)},
   calculate |-> CalcHash(d.calculate), band |-> BandHash(Fold(d.band)),
   indexes |-> IndexHashes(AllIndexNodes(d.sets)), measures |-> MeasuresRead(d)]

--------------------------------------------------------------------------
(* Where the engine stores a figure, and what the figure means, the names  *)
(* it uses looked through.                                                 *)

Coordinate(base, tail) == [base |-> base, tail |-> tail]
Roster(kind) == {Coordinate(id, None) : id \in Ids(kind)}

\* The keys of a group: its subjects, crossed with its second part where it has one.
Keys(d) ==
  LET parts == ScopeParts(d) IN
  {Coordinate(id, tail) : id \in Ids(d.name[1]),
     tail \in IF Len(parts) = 1 THEN {None} ELSE IF Timed(parts[2]) THEN Tails ELSE Ids(d.across)}

\* A sequence and a pair are stored where the group has a bucket; a figure over
\* figures where they are, and the roster besides unless it is a sequence.
Stored(d) ==
  LET below == UNION {Figure(g).stored : g \in Reads(d)} IN
  IF ~OverFigures(d)
  THEN IF Grain(d) # None \/ d.across # None THEN Keys(d) ELSE Roster(d.name[1])
  ELSE IF Grain(d) # None THEN {c \in below : c.tail # None /\ c.base \in Ids(d.name[1])}
       ELSE Roster(d.name[1]) \union {Coordinate(c.base, None) : c \in below}

Meaning(d) ==
  [scope |-> d.name[1], across |-> d.across, carried |-> d.carried, unit |-> FigureUnit(d),
   grain |-> Grain(d), sets |-> d.sets, calculate |-> d.calculate,
   groups |-> IndexHashes(AllIndexNodes(d.sets)), measures |-> MeasuresRead(d),
   sources |-> {<<g, Figure(g).meaning>> : g \in Reads(d)}]

--------------------------------------------------------------------------
(* Compiling. *)

FigureStands(d) ==
  /\ d.name \notin Names /\ d.name[1] \in Kinds /\ ~TakesAField(d.name)
  /\ d.across # None => d.across \in Kinds \ {d.name[1]}
  /\ NamedSets(d)
  /\ ResolveFigureReads(d)
  /\ FannedOut(d)
  /\ CarryStands(d) /\ SequenceStands(d)
  /\ CalcStands(d)
  /\ (d.unit # None) <=> Nameless(d)
  /\ BandStands(d, FigureUnit(d), CalcKind(d))

FigurePlan(decl) ==
  LET d == Resolve(decl) IN
  [decl |-> decl, name |-> d.name, scope |-> d.name[1], across |-> d.across, carried |-> d.carried,
   sets |-> d.sets, calculate |-> d.calculate, band |-> Fold(d.band),
   unit |-> FigureUnit(d), scopeIndex |-> ScopeIndex(d), grain |-> Grain(d), reads |-> Reads(d),
   bandReads |-> BandReads(d), overSequence |-> \E g \in Reads(d) : Figure(g).grain # None,
   version |-> Version(d), stored |-> Stored(d), meaning |-> Meaning(d)]

\* Facts first, order-free: they are the world every other declaration is checked against.
DeclareFacts ==
  /\ stage = 0 /\ stage' = 1
  /\ \E ds \in FactSources : FactsStand(ds) /\ facts' = ds
  /\ UNCHANGED <<indexes, measures, figures>>

DeclareIndexes ==
  /\ stage = 1 /\ stage' = 2
  /\ \E ds \in IndexSources :
       /\ Distinct(ds) /\ IdSpacesAgree(ds) /\ \A d \in ds : IndexStands(d)
       /\ indexes' = ds
  /\ UNCHANGED <<facts, measures, figures>>

DeclareMeasures ==
  /\ stage = 2 /\ stage' = 3
  /\ \E ds \in MeasureSources :
       /\ Distinct(ds) /\ \A m \in ds : MeasureStands(m)
       /\ measures' = ds
  /\ UNCHANGED <<facts, indexes, figures>>

DeclareFigure ==
  /\ stage = 3 /\ Cardinality(figures) < MaxFigures
  /\ \E d \in FigureDecls : FigureStands(Resolve(d)) /\ figures' = figures \union {FigurePlan(d)}
  /\ UNCHANGED <<facts, indexes, measures, stage>>

InitLanguage ==
  facts = {} /\ indexes = {} /\ measures = {} /\ figures = {} /\ stage = 0
=============================================================================
