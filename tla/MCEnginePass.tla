---------------------------- MODULE MCEnginePass ----------------------------
(***************************************************************************)
(* Instances of EnginePass for TLC: small worlds of people and tasks, with *)
(* groupings and figures of every shape the compiler accepts.              *)
(***************************************************************************)
EXTENDS EnginePass, TLC

CONSTANTS p1, p2, t1, none, null

\* A person's body says nothing but the handle tasks name it by; a task's names
\* its owner, a second person, the last week of its span, and a size.
Person(h) == [handle |-> h, owner |-> none, other |-> none, last |-> 0, size |-> 0]
Task(o, x, w, n) == [handle |-> none, owner |-> o, other |-> x, last |-> w, size |-> n]

KeysOf(people, tasks) ==
  [k \in people \union tasks |-> IF k \in people THEN "person" ELSE "task"]

\* buckets_of, by how the grouping is declared.
MCCut(i, d, k, f) ==
  LET b == f[k]
      weeks == {w \in 1..2 : w <= b.last /\ (i.clipped => w >= d)}
  IN CASE i.by = "owner" -> {Bare(b.owner)} \ {Whole}
       [] i.by = "self" -> {Bare(k)}
       [] i.by = "handle" ->
            {Bare(q) : q \in {x \in DOMAIN f :
                               /\ f[x] # none /\ f[x].handle # none
                               /\ f[x].handle = b.other}}
       [] i.by = "pair" -> IF none \in {b.owner, b.other} THEN {} ELSE {<<b.owner, b.other>>}
       [] i.by = "weeks" -> {<<k, w>> : w \in weeks}
       [] i.by = "ownerweeks" -> {<<b.owner, w>> : w \in weeks} 
       [] i.by = "open" -> IF b.size > 0 THEN {Whole} ELSE {}

Total(numbers) ==
  LET RECURSIVE Add(_)
      Add(S) == IF S = {} THEN 0 ELSE LET x == CHOOSE x \in S : TRUE IN x[3] + Add(S \ {x})
  IN Add(numbers)

MaxNumber == 9
MCNumbers == 0..MaxNumber \union {null}

\* A count; the members' sizes; a sum of the parts; the one part; a share of
\* it; and a total, absent when a member has no part.
MCCalc(p, c, read) ==
  LET unmeasured == {m \in read.members : \A part \in read.parts : part[2][1] # m}
  IN CASE p.does = "count" -> Cardinality(read.members)
       [] p.does = "size" ->
            Total({<<x[1], x[1], x[2].size>> : x \in {y \in read.bodies : y[2] # none}})
       [] p.does = "sum" -> Total(read.parts)
       [] p.does = "part" -> IF read.parts = {} THEN null ELSE Total(read.parts)
       [] p.does = "total" -> IF unmeasured # {} THEN null ELSE Total(read.parts)
       [] p.does = "share" ->
            IF read.parts = {} \/ read.spans = 0 THEN null
            ELSE Total(read.parts) \div read.spans

Grouping(place, name, kind, by, clipped, through) ==
  [place |-> place, name |-> name, kind |-> kind, by |-> by, clipped |-> clipped,
   through |-> through]
Figure(place, name, depth, scope, grain, across, index, filters, sources, form, does, fields) ==
  [place |-> place, name |-> name, depth |-> depth, scope |-> scope, grain |-> grain, across |-> across,
   scopeIndex |-> index, filters |-> filters, sources |-> sources, form |-> form,
   does |-> does, fields |-> fields]

byOwner == Grouping(1, "byOwner", "task", "owner", FALSE, {})
bySelf == Grouping(2, "bySelf", "task", "self", FALSE, {})
byPair == Grouping(3, "byPair", "task", "pair", FALSE, {})
byHandle == Grouping(4, "byHandle", "task", "handle", FALSE, {"person"})
weeks == Grouping(5, "weeks", "task", "weeks", TRUE, {})
ownerWeeks == Grouping(6, "ownerWeeks", "task", "ownerweeks", TRUE, {})
allWeeks == Grouping(8, "allWeeks", "task", "ownerweeks", FALSE, {})
open == Grouping(7, "active", "task", "open", FALSE, {})

\* Roster figures over a filter, and a roll-up of them.
Load(filters) ==
  Figure(1, "load", 0, "person", FALSE, none, byOwner, filters, {}, "members", "size", {"task"})
Rollup(scope, part) ==
  Figure(9, "board", 1, scope, FALSE, none, none, {}, {part}, "parts", "sum", {})
Board(load) == Rollup("person", load)
Roster1 == [indexes |-> {byOwner, open}, figures |-> {Load({open}), Board(Load({open}))}]
Roster3 == [indexes |-> {byOwner}, figures |-> {Load({}), Board(Load({}))}]

\* A deploy that drops the filtered figure with its filter, and redefines the other.
Counted ==
  Figure(9, "board", 0, "person", FALSE, none, byOwner, {}, {}, "members", "count", {})
Roster2 == [indexes |-> {byOwner}, figures |-> {Counted}]

\* Sequenced figures over clipped spans: a share spread over a task's weeks, a
\* figure derived from it, and a person's total over their tasks' shares.
Budget ==
  Figure(1, "budget", 0, "task", FALSE, none, bySelf, {}, {}, "members", "size", {"task"})
Share ==
  Figure(2, "share", 1, "task", TRUE, none, weeks, {}, {Budget}, "spread", "share", {})
DerivedShare ==
  Figure(3, "derived", 2, "task", TRUE, none, none, {}, {Share}, "parts", "part", {})
Planned(spans) ==
  Figure(4, "planned", 2, "person", TRUE, none, spans, {}, {Share}, "total", "total", {})
Weekly == [indexes |-> {bySelf, weeks, ownerWeeks},
           figures |-> {Budget, Share, Planned(ownerWeeks)}]
WeeklyDerived == [Weekly EXCEPT !.figures = @ \union {DerivedShare}]

\* As the first, but the calendar retires none of the person's own weeks.
WeeklyKept == [indexes |-> {bySelf, weeks, allWeeks},
               figures |-> {Budget, Share, Planned(allWeeks)}]

\* A figure split across a second dimension, its roll-up, and a grouping that
\* resolves a task's second name through the people who have it as a handle.
Pairs ==
  Figure(1, "pairs", 0, "person", FALSE, "person", byPair, {}, {}, "members", "count", {})
AllPairs ==
  Figure(2, "all", 1, "person", FALSE, none, none, {}, {Pairs}, "parts", "sum", {})
Handled ==
  Figure(3, "handled", 0, "person", FALSE, none, byHandle, {}, {}, "members", "count", {})
Split == [indexes |-> {byPair, byHandle}, figures |-> {Pairs, AllPairs, Handled}]

MCIndexNames == {i.name : i \in Groupings}
MCFigureNames == {p.name : p \in Plans}

-----------------------------------------------------------------------------
(* The engine's own run: every shape, every kind of deploy.                *)

EngineKeys == {p1, p2, t1}
EngineKindOf == KeysOf({p1, p2}, {t1})
EngineTasks == {Task(p1, p2, 1, 1), Task(p1, p2, 2, 2), Task(p2, p1, 2, 0)}
EnginePeople == {Person(none), Person(p1)}
EngineBodies == EnginePeople \union EngineTasks
EngineKinds == {"person", "task"}
EngineTails == {1, 2, p1, p2}
Empty == [indexes |-> {}, figures |-> {}]
RosterLibraries == {Roster1, Roster2, Roster3, Split, Empty}
RosterDeploys ==
  {<<Roster1, Roster3>>, <<Roster3, Roster1>>, <<Roster1, Roster2>>, <<Roster2, Roster1>>}
WeeklyLibraries == {Weekly, WeeklyDerived, WeeklyKept}
NoDeploys == {}
People == p1 :> Person(none) @@ p2 :> Person(none)
WeeklyBatches ==
  {People @@ t1 :> b : b \in EngineTasks}
    \union {p2 :> b : b \in {Person(none), none}}
    \union {t1 :> b : b \in EngineTasks \union {none}}
RosterBatches ==
  {People @@ t1 :> Task(p1, p2, 1, 1)}
    \union {p2 :> b : b \in EnginePeople \union {none}}
    \union {t1 :> b : b \in EngineTasks \union {none}}

=============================================================================
