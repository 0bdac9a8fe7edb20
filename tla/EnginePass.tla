----------------------------- MODULE EnginePass -----------------------------
(***************************************************************************)
(* One tenant's pass: uratori/engine/engine.py, entered through            *)
(* Uratori.execute (uratori/facade.py) after the facts door committed a    *)
(* batch.  The pass derives four stored tables from the facts: the         *)
(* groupings' buckets, the stamps they were built under, the figures'      *)
(* values, and the pointers naming the version each figure has computed.   *)
(*                                                                         *)
(* The tenant's lock admits one pass at a time, so the facts stand still   *)
(* while a pass runs.  Every statement commits on its own, so a pass that  *)
(* raises or dies leaves whatever it had written: each loop below has an   *)
(* action that finishes it and one that dies inside it.                    *)
(*                                                                         *)
(* A definition's version is the hash of its semantics, so a grouping and  *)
(* a figure ARE their declarations here: two declarations that differ are  *)
(* two versions, and the tables are keyed by the declaration.              *)
(***************************************************************************)
EXTENDS Naturals, FiniteSets

CONSTANTS
  Keys,            \* record keys, of every kind
  Kinds,           \* the kinds of record the world declares
  KindOf,          \* the kind of each key
  Bodies,          \* record bodies
  Tails,           \* bucket labels: days, or keys of a second dimension
  IndexNames,
  FigureNames,
  Libraries,       \* the compiled libraries that may be deployed
  Deploys,         \* <<library, library>>: what a teach may replace by what
  Batches,         \* what a host may post: [keys -> body, or None to delete]
  MaxDay,          \* bound on the calendar
  MaxDeaths,       \* bound on the passes that raise or die
  MaxRequests,     \* bound on the requests
  None,            \* no record, no row, no stamp, no label
  Null,            \* the number of a row whose calculation had no answer
  Numbers,         \* what a calculation answers, Null among them
  Cut(_, _, _, _), \* buckets_of: grouping, day, key, facts |-> bucket labels
  Calc(_, _, _)    \* the calculation: figure, coordinate, what it read

\* A bucket's key, and a value's subject: base and tail.  A plain figure's
\* subject has no tail, and a filter's one bucket has neither.
Coords == (Keys \union {None}) \X (Tails \union {None})
Whole == <<None, None>>
Bare(k) == <<k, None>>
SubjectOf(c) == Bare(c[1])

Plans == UNION {L.figures : L \in Libraries}
Groupings == UNION {L.indexes : L \in Libraries}

\* A grouping carries its name, its place in the source, the kind it buckets, the kinds it resolves
\* through, and whether its buckets move with the calendar (clipped: a span
\* written `excluding weeks gone` or `carrying overdue weeks`).
\*
\* A figure carries its name, its place, its depth, the kind of its subjects (scope),
\* whether it is keyed by time (grain) or by a second dimension (across), the
\* grouping that fans it out (scopeIndex), the filters it intersects, the
\* figures it reads (sources), how its calculation uses them (form: members,
\* parts, total, spread), and the kinds whose fields it reads, off its members
\* or off its subject (fields).
Indexes(p) ==
  p.filters \union (IF p.scopeIndex = None THEN {} ELSE {p.scopeIndex})

\* Every kind a grouping resolves through, rather than buckets.
ThroughKinds(L) == UNION {i.through : i \in L.indexes}

ASSUME LibraryAssumption ==
  /\ KindOf \in [Keys -> Kinds]
  /\ None \notin Keys /\ None \notin Bodies /\ Null \in Numbers
  /\ None \notin Groupings \X (0..MaxDay)
  /\ MaxDay \in Nat /\ MaxDay >= 1 /\ MaxDeaths \in Nat /\ MaxRequests \in Nat
  /\ \A batch \in Batches :
       DOMAIN batch \subseteq Keys /\ \A k \in DOMAIN batch : batch[k] \in Bodies \union {None}
  /\ \A L \in Libraries :
       /\ \A i \in L.indexes : i.name \in IndexNames /\ i.place \in Nat
       /\ \A i, j \in L.indexes : i.name = j.name => i = j
       /\ \A p \in L.figures :
            /\ p.name \in FigureNames /\ p.place \in Nat /\ p.depth \in Nat
            /\ Indexes(p) \subseteq L.indexes
            /\ p.sources \subseteq L.figures
            /\ \A q \in p.sources : q.place < p.place /\ q.depth < p.depth
       /\ \A p, q \in L.figures : p.name = q.name => p = q

\* What docs/language.md says of a figure without a grouping of its own: no
\* filter, sources of its own scope, and no second dimension over a sequence.
\* (The compiler refuses the filters, and lets the other two through.)  A spread
\* divides over the buckets of a grouping it names.
ASSUME ShapeAssumption ==
  \A L \in Libraries : \A p \in L.figures :
    p.scopeIndex = None =>
      /\ p.filters = {} /\ p.form # "spread"
      /\ \A q \in p.sources : q.scope = p.scope
      /\ p.grain => p.across = None

\* A record is bucketed by what it says itself and by what the records it is
\* resolved through say: the facade escalates a pass that moves one of those.
Seen(i, k, f) == [x \in Keys |-> IF x = k \/ KindOf[x] \in i.through THEN f[x] ELSE None]

ASSUME CutAssumption ==
  \A i \in Groupings, k \in Keys, d \in 1..MaxDay, f \in [Keys -> Bodies \union {None}] :
    KindOf[k] = i.kind /\ f[k] # None => Cut(i, d, k, f) = Cut(i, d, k, Seen(i, k, f))

\* A sequenced figure's grouping cuts records into buckets under their subjects.
ASSUME BucketAssumption ==
  \A L \in Libraries : \A p \in L.figures : p.scopeIndex # None /\ p.grain =>
    \A k \in Keys, d \in 1..MaxDay, f \in [Keys -> Bodies \union {None}] :
      KindOf[k] = p.scopeIndex.kind /\ f[k] # None =>
        \A c \in Cut(p.scopeIndex, d, k, f) : c[2] # None

VARIABLES
  fact,      \* fact:           key -> body or None
  lib,       \* the world's library, as a new request would capture it
  day,       \* the calendar
  held,      \* figure_index:   grouping name -> {<<member, bucket>>}
  built,     \* index_built:    grouping name -> stamp or None
  pointer,   \* figure_pointer: figure name -> the figure computed, or None
  value,     \* figure_value:   figure -> the rows stored for it, by subject
  pc,        \* where the pass is: "idle" when none runs, "done" as it returns
  plib,      \* the library the pass captured
  now,       \* the pass's instant
  written,   \* the keys its batch moved
  wrote,     \* whether it came through the facts door (written is not None)
  full,      \* whether it runs full, after escalation
  cold,      \* whether it runs the cold branch
  rebuild,   \* the figures it recomputes outright
  todo,      \* the groupings still to be filed
  left,      \* the figures still to be visited by the current loop
  touched,   \* the values a moved record may have changed
  owed,      \* history: records that landed and no finished pass filed
  sound,     \* history: whether what claimed to be current was, at the start
  late,      \* history: whether a closing sweep moved what a computed row reads
  deaths,    \* history: how many passes have died
  requests   \* history: how many requests have come

tables == <<held, built, pointer, value>>
request == <<plib, now, written, wrote, full>>
progress == <<cold, rebuild, todo, left, touched>>
history == <<owed, sound, late, deaths, requests>>
vars == <<fact, lib, day, tables, pc, request, progress, history>>

\* Mutants of Stamp: tomorrow's, and one the calendar never moves.
StampAhead(i, d) == <<i, d + 1>>
StampUndated(i, d) == <<i, 0>>

\* The stamp a grouping's buckets are built under: its spec, and the day when
\* the calendar moves it.
Stamp(i, d) == <<i, IF i.clipped THEN d ELSE 0>>
Stamps == {<<i, d>> : i \in Groupings, d \in 0..MaxDay}
Rows == [number : Numbers, members : SUBSET Coords]
IsTable(t) == DOMAIN t \subseteq Coords /\ t = [c \in DOMAIN t |-> t[c]] /\ \A c \in DOMAIN t : t[c] \in Rows

TypeOK ==
  /\ fact \in [Keys -> Bodies \union {None}]
  /\ lib \in Libraries /\ plib \in Libraries
  /\ day \in 1..MaxDay /\ now \in 1..MaxDay
  /\ held \in [IndexNames -> SUBSET (Keys \X Coords)]
  /\ built \in [IndexNames -> Stamps \union {None}]
  /\ pointer \in [FigureNames -> Plans \union {None}]
  /\ DOMAIN value = Plans
  /\ \A p \in Plans : IsTable(value[p])
  /\ pc \in {"idle", "begin", "apply", "recompute", "reindex", "depart",
             "backfill", "pointers", "heal", "sweep", "gaps", "done"}
  /\ written \subseteq Keys /\ owed \subseteq Keys
  /\ wrote \in BOOLEAN /\ full \in BOOLEAN /\ cold \in BOOLEAN /\ sound \in BOOLEAN
  /\ late \in BOOLEAN
  /\ deaths \in 0..MaxDeaths /\ requests \in 0..MaxRequests
  /\ rebuild \subseteq plib.figures /\ left \subseteq plib.figures
  /\ todo \subseteq plib.indexes
  /\ touched \subseteq plib.figures \X Coords

-----------------------------------------------------------------------------
(* What the stored tables answer.                                          *)

Roster(kind) == {k \in Keys : KindOf[k] = kind /\ fact[k] # None}

\* The buckets a record is cut into, and the rows that file some records.
BucketsOf(i, d, k) == Cut(i, d, k, fact) \intersect Coords
Filing(i, d, members) == UNION {{k} \X BucketsOf(i, d, k) : k \in members}

\* What a rebuild of the grouping files.
Wanted(i, d) == Filing(i, d, Roster(i.kind))

BucketKeys(i) == {r[2] : r \in held[i.name]}
BucketsHolding(i, k) == {r[2] : r \in {x \in held[i.name] : x[1] = k}}
Subjects(p) == DOMAIN value[p]

\* Every subject the figure should have a value for.
ScopesOf(p) ==
  LET alive == Roster(p.scope)
      stored == UNION {Subjects(q) : q \in p.sources}
  IN CASE p.scopeIndex # None /\ p.across # None ->
            {c \in BucketKeys(p.scopeIndex) :
               c[1] \in alive /\ c[2] \in Roster(p.across)}
       [] p.scopeIndex # None /\ p.across = None /\ p.grain ->
            {c \in BucketKeys(p.scopeIndex) : c[1] \in alive}
       [] p.scopeIndex # None /\ p.across = None /\ ~p.grain ->
            {Bare(k) : k \in alive}
       [] p.scopeIndex = None /\ p.grain ->
            {c \in stored : c[2] # None /\ c[1] \in alive}
       [] p.scopeIndex = None /\ ~p.grain ->
            {Bare(k) : k \in alive} \union {SubjectOf(c) : c \in stored}

\* The records the figure's set expression holds for a subject.
Members(p, c) ==
  IF p.scopeIndex = None THEN {}
  ELSE {k \in Keys :
          /\ <<k, c>> \in held[p.scopeIndex.name]
          /\ \A f \in p.filters : <<k, Whole>> \in held[f.name]}

\* The source values filed under an address: a coordinate's own, or, for a
\* bare subject, every one under that base.  A row with no number is skipped.
PartsUnder(q, c) ==
  {r \in Subjects(q) :
     /\ value[q][r].number # Null
     /\ IF c[2] = None THEN r[1] = c[1] ELSE r = c}

PartAddresses(p, c) ==
  CASE p.form = "total" -> {<<k, c[2]>> : k \in Members(p, c)}
    [] p.form = "spread" -> {SubjectOf(c)}
    [] OTHER -> {c}

Parts(p, c) ==
  UNION {{<<q.name, r, value[q][r].number>> : r \in PartsUnder(q, a)} :
           q \in p.sources, a \in PartAddresses(p, c)}

\* Everything a calculation consults: its members, the records whose fields it
\* reads, the parts, and how many buckets a spread divides over.
Reads(p, c) ==
  [members |-> Members(p, c),
   bodies |-> {<<k, fact[k]>> : k \in {m \in Members(p, c) \union ({c[1]} \ {None}) :
                                        KindOf[m] \in p.fields}},
   parts |-> Parts(p, c),
   spans |-> IF p.form = "spread"
             THEN Cardinality({b \in BucketKeys(p.scopeIndex) : b[1] = c[1]})
             ELSE 0]

\* A calculation answers one of Numbers, or nothing.
Answer(p, c) ==
  IF Calc(p, c, Reads(p, c)) \in Numbers THEN Calc(p, c, Reads(p, c)) ELSE Null

\* One subject's row: the number, and the evidence behind it.
Evaluate(p, c) ==
  [number |-> Answer(p, c),
   members |-> IF p.form \in {"members", "total"}
               THEN {Bare(k) : k \in Members(p, c)}
               ELSE {part[2] : part \in Parts(p, c)}]

\* Every subject the figure should have is there, with the row a rebuild over
\* the stored buckets would give it, ...
Fresh(p) ==
  \A c \in ScopesOf(p) : c \in Subjects(p) /\ value[p][c] = Evaluate(p, c)

\* ... and no row outlives its subject, its dimension, or its bucket.  A pair
\* keeps its row after its bucket empties.
Living(p) ==
  \A c \in Subjects(p) :
    /\ c[1] \in Roster(p.scope)
    /\ (p.across # None /\ c[2] # None) => c[2] \in Roster(p.across)
    /\ p.grain => c \in ScopesOf(p)

Current(p) == Fresh(p) /\ Living(p)

\* The tables a full rebuild from nothing would leave.
Agreed(L, d) ==
  /\ \A i \in L.indexes : held[i.name] = Wanted(i, d)
  /\ \A p \in L.figures : Current(p)

-----------------------------------------------------------------------------
(* The start of a pass.                                                    *)

Pending == {p \in plib.figures : pointer[p.name] # p}
Stale == {i \in plib.indexes : built[i.name] # Stamp(i, now)}
Retired == {n \in IndexNames : built[n] # None /\ \A i \in plib.indexes : i.name # n}

\* The figures over a stale grouping, and those reading one, at any depth.
Healed(stale) ==
  LET over[p \in plib.figures] ==
        Indexes(p) \intersect stale # {} \/ \E q \in p.sources : over[q]
  IN {p \in plib.figures : over[p]}

\* Every bucket that fans a figure out belongs to a subject there is, and to
\* its second dimension.
OwnersPresent(L) ==
  \A p \in L.figures : p.scopeIndex # None =>
    \A c \in BucketKeys(p.scopeIndex) :
      c[1] \in Roster(p.scope) /\ (p.across # None => c[2] \in Roster(p.across))

Stands(p) == pointer[p.name] = p
Stamped(i) == \E d \in 1..MaxDay : built[i.name] = Stamp(i, d)

\* What claims to be current is: a stamped grouping holds what a rebuild on
\* its day would file, and a figure whose pointer stands has its fresh rows,
\* over figures whose pointers stand; and, where another's is behind, so that the
\* pass will be cold, over groupings that are stamped.  (A grouping retired and
\* brought back is not, and a cold pass recomputes no figure that stands over it:
\* the README says what happens then.)
Sound(L) ==
  /\ OwnersPresent(L)
  /\ \A i \in L.indexes, d \in 1..MaxDay :
       built[i.name] = Stamp(i, d) => held[i.name] = Wanted(i, d)
  /\ \A p \in L.figures : Stands(p) =>
       /\ Current(p) /\ \A q \in p.sources : Stands(q)
       /\ (\E q \in L.figures : ~Stands(q)) => \A i \in Indexes(p) : Stamped(i)

\* A request reaching the engine with the lock held: the library it captured,
\* its instant, and the two escalations to a full pass.
Start(moved, deleted, door, asked) ==
  /\ pc = "idle" /\ requests < MaxRequests /\ requests' = requests + 1
  /\ plib' = lib /\ now' = day
  /\ written' = moved /\ wrote' = door
  /\ full' = \/ asked
             \/ deleted # {}
             \/ \E k \in moved : KindOf[k] \in ThroughKinds(lib)
  /\ sound' = Sound(lib) /\ late' = FALSE
  /\ pc' = "begin"
  /\ cold' = FALSE /\ rebuild' = {} /\ todo' = {} /\ left' = {} /\ touched' = {}

\* POST /facts: the batch commits, then the pass starts.  Only the keys whose
\* body moved are written; a named delete escalates whether or not it was held.
PostFacts(batch, asked) ==
  LET moved == {k \in DOMAIN batch : batch[k] # None /\ batch[k] # fact[k]}
      deleted == {k \in DOMAIN batch : batch[k] = None}
  IN /\ Start(moved, deleted, TRUE, asked)
     /\ fact' = [k \in Keys |-> IF k \in DOMAIN batch THEN batch[k] ELSE fact[k]]
     /\ owed' = owed \union moved \union deleted
     /\ UNCHANGED <<lib, day, tables, deaths>>

\* POST /runs: a pass with no new facts.
PostRun(asked) ==
  /\ Start({}, {}, FALSE, asked)
  /\ UNCHANGED <<fact, lib, day, tables, owed, deaths>>

\* A library that declares nothing has no pass to run, and retires nothing.
NothingDeclared == plib.figures = {} /\ plib.indexes = {}

ReturnEarly ==
  /\ pc = "begin" /\ NothingDeclared
  /\ pc' = "done"
  /\ UNCHANGED <<fact, lib, day, tables, request, progress, history>>

\* A grouping the library no longer declares goes, rows and stamp together.
DropIndex(n) ==
  /\ pc = "begin" /\ ~NothingDeclared /\ n \in Retired
  /\ held' = [held EXCEPT ![n] = {}]
  /\ built' = [built EXCEPT ![n] = None]
  /\ UNCHANGED <<fact, lib, day, pointer, value, pc, request, progress, history>>

\* Cold when a figure's pointer is behind, or the pass is full.
Begin ==
  /\ pc = "begin" /\ ~NothingDeclared /\ Retired = {}
  /\ cold' = (full \/ Pending # {})
  /\ \/ /\ full
        /\ rebuild' = plib.figures /\ todo' = plib.indexes /\ pc' = "reindex"
     \/ /\ ~full /\ Pending # {}
        /\ rebuild' = Pending /\ todo' = Stale /\ pc' = "reindex"
     \/ /\ ~full /\ Pending = {}
        /\ rebuild' = Healed(Stale)
        /\ todo' = {i \in plib.indexes : \E k \in written : KindOf[k] = i.kind}
        /\ pc' = "apply"
  /\ UNCHANGED <<fact, lib, day, tables, request, left, touched, history>>

-----------------------------------------------------------------------------
\* The library lists its groupings and its figures as declared; the loops that
\* compute rows sort the figures by depth.
Foremost(x, list) == x \in list /\ \A y \in list : x.place <= y.place

\* A mutant of Shallowest: a figure may come before what it reads.
AnyLeft(p) == p \in left

Shallowest(p) == p \in left /\ \A q \in left : p.depth <= q.depth

-----------------------------------------------------------------------------
(* The warm branch: file the written records, recompute what they touched. *)

\* The members a written batch moves in a grouping, and their buckets before
\* and after.
Refiled(i) ==
  {k \in written : KindOf[k] = i.kind /\ BucketsHolding(i, k) # BucketsOf(i, now, k)}

\* Whose values a refiled record could have changed: the buckets it moved
\* between, or the subjects whose own bucket holds it.
Touch(p, subjects) == {p} \X subjects

\* A mutant of Mark: only where a record arrives, and not where it left.
MarkArrivals(i, filed) ==
  UNION {Touch(p, IF p.scopeIndex = i THEN BucketsOf(i, now, k) ELSE {}) :
           p \in {q \in plib.figures : i \in Indexes(q)}, k \in Refiled(i)}

Mark(i, filed) ==
  LET HeldUnder(p, k) == {r[2] : r \in {x \in filed[p.scopeIndex.name] : x[1] = k}}
  IN UNION {Touch(p, IF p.scopeIndex = i THEN BucketsHolding(i, k) \union BucketsOf(i, now, k)
                     ELSE HeldUnder(p, k)) :
              p \in {q \in plib.figures : i \in Indexes(q)}, k \in Refiled(i)}

SetBuckets(i) ==
  [held EXCEPT ![i.name] =
     {r \in @ : r[1] \notin Refiled(i)} \union Filing(i, now, Refiled(i))]

ApplyIndex(i) ==
  /\ pc = "apply" /\ Foremost(i, todo)
  /\ held' = SetBuckets(i)
  /\ touched' = touched \union Mark(i, held')
  /\ todo' = todo \ {i}
  /\ UNCHANGED <<fact, lib, day, built, pointer, value, pc, request, cold, rebuild, left, history>>

\* A record whose field moved and whose buckets did not: the figures reading
\* that field recompute the subject the record is, or the subjects holding it.
\* (The code does this kind by kind; a bucket another kind's filing moves later
\* is marked by that filing.)
FieldSubjects(p, k) ==
  CASE KindOf[k] = p.scope /\ ~p.grain /\ p.across = None -> {Bare(k)}
    [] KindOf[k] = p.scope /\ (p.grain \/ p.across # None) ->
         {c \in BucketKeys(p.scopeIndex) : c[1] = k}
    [] KindOf[k] # p.scope -> BucketsHolding(p.scopeIndex, k)

FieldMarks ==
  UNION {UNION {Touch(p, FieldSubjects(p, k)) : k \in {x \in written : KindOf[x] \in p.fields}} :
           p \in {q \in plib.figures : q.scopeIndex # None}}

Applied ==
  /\ pc = "apply" /\ todo = {}
  /\ touched' = touched \union FieldMarks
  /\ left' = plib.figures
  /\ pc' = "recompute"
  /\ UNCHANGED <<fact, lib, day, tables, request, cold, rebuild, todo, history>>

\* A mutant of ReaderKeys: the reader's subject is taken to be the writer's.
ReaderKeysAlike(reader, writer, c) == {c}

\* Which of a reader's own subjects a writer's moved subject makes stale.
ReaderKeys(reader, writer, c) ==
  CASE ~reader.grain -> {SubjectOf(c)}
    [] reader.grain /\ writer.grain /\ reader.scope = writer.scope -> {c}
    [] reader.grain /\ ~(writer.grain /\ reader.scope = writer.scope)
         /\ reader.scopeIndex = None -> {c}
    [] reader.grain /\ ~writer.grain /\ reader.scopeIndex # None ->
         {b \in BucketKeys(reader.scopeIndex) : b[1] = c[1]}
    [] reader.grain /\ writer.grain /\ reader.scope # writer.scope
         /\ reader.scopeIndex # None ->
         {b \in BucketKeys(reader.scopeIndex) : b[2] = c[2]}

\* A time-keyed subject whose bucket emptied loses its row.
Emptied(p, c) == p.grain /\ p.scopeIndex # None /\ c \notin BucketKeys(p.scopeIndex)

Recomputed(p, subjects) ==
  LET emptied == {c \in subjects : Emptied(p, c)}
  IN [c \in (Subjects(p) \union subjects) \ emptied |->
        IF c \in subjects THEN Evaluate(p, c) ELSE value[p][c]]

\* The rows that appeared, that went, and that answer another number.
Moved(old, new) ==
  {c \in DOMAIN old \union DOMAIN new :
     ~(c \in DOMAIN old \intersect DOMAIN new /\ old[c].number = new[c].number)}

TouchedSubjects(p) == {t[2] : t \in {x \in touched : x[1] = p}}

\* The figure's touched subjects, and the readers of those that moved.
Recompute(p) ==
  /\ pc = "recompute" /\ Shallowest(p)
  /\ LET rows == Recomputed(p, TouchedSubjects(p))
     IN /\ value' = [value EXCEPT ![p] = rows]
        /\ touched' = touched \union
             UNION {Touch(q, ReaderKeys(q, p, c)) :
                      q \in {x \in plib.figures : p \in x.sources}, c \in Moved(value[p], rows)}
  /\ left' = left \ {p}
  /\ UNCHANGED <<fact, lib, day, held, built, pointer, pc, request, cold, rebuild, todo, history>>

RecomputeEnds ==
  /\ pc = "recompute" /\ left = {}
  /\ todo' = Stale /\ touched' = {}
  /\ pc' = "reindex"
  /\ UNCHANGED <<fact, lib, day, tables, request, cold, rebuild, left, history>>

-----------------------------------------------------------------------------
(* The loops both branches share.                                          *)

\* The grouping's rows are replaced in one transaction, and then stamped.
Reindex(i) ==
  /\ pc = "reindex" /\ Foremost(i, todo)
  /\ held' = [held EXCEPT ![i.name] = Wanted(i, now)]
  /\ built' = [built EXCEPT ![i.name] = Stamp(i, now)]
  /\ todo' = todo \ {i}
  /\ UNCHANGED <<fact, lib, day, pointer, value, pc, request, cold, rebuild, left, touched, history>>

\* Cold: the departed go first.  Warm: what was stale recomputes outright.
ReindexEnds ==
  /\ pc = "reindex" /\ todo = {}
  /\ \/ cold /\ pc' = "depart" /\ left' = plib.figures
     \/ ~cold /\ pc' = "heal" /\ left' = rebuild
  /\ UNCHANGED <<fact, lib, day, tables, request, cold, rebuild, todo, touched, history>>

\* Mutants of DepartedRows: blind to an emptied bucket, or to a departed subject.
DepartedSubjects(p) ==
  {c \in Subjects(p) :
     \/ c[1] \notin Roster(p.scope)
     \/ p.across # None /\ c[2] # None /\ c[2] \notin Roster(p.across)}
DepartedBuckets(p) == {c \in Subjects(p) : p.grain /\ c \notin ScopesOf(p)}

\* The rows whose subject, dimension or bucket is gone.
DepartedRows(p) ==
  {c \in Subjects(p) :
     \/ c[1] \notin Roster(p.scope)
     \/ p.across # None /\ c[2] # None /\ c[2] \notin Roster(p.across)
     \/ p.grain /\ c \notin ScopesOf(p)}

Without(p, gone) == [c \in Subjects(p) \ gone |-> value[p][c]]

\* Whether a step moves what a row already computed for another figure reads:
\* the closing sweeps of a warm pass tell no reader what they remove or fill.
Unheard(p) ==
  \E q \in plib.figures : p \in q.sources /\
    \E c \in ScopesOf(q) \intersect Subjects(q) : Parts(q, c)' # Parts(q, c)

RemoveDeparted(p) ==
  /\ pc \in {"depart", "sweep"} /\ Foremost(p, left)
  /\ value' = [value EXCEPT ![p] = Without(p, DepartedRows(p))]
  /\ left' = left \ {p}
  /\ UNCHANGED <<fact, lib, day, held, built, pointer, pc, request, cold, rebuild, todo, touched>>
  /\ late' = (late \/ (pc = "sweep" /\ Unheard(p))) /\ UNCHANGED <<owed, sound, deaths, requests>>

\* A mutant of RemoveDepartedEnds: no warm pass sweeps for missing rows.
DepartedEndsUnswept ==
  /\ left = {}
  /\ \/ pc = "depart" /\ pc' = "backfill" /\ left' = rebuild
     \/ pc = "sweep" /\ pc' = "gaps" /\ left' = {}
  /\ UNCHANGED <<fact, lib, day, tables, request, cold, rebuild, todo, touched, history>>

\* The warm pass through the facts door ends with a sweep for missing rows.
RemoveDepartedEnds ==
  /\ left = {}
  /\ \/ pc = "depart" /\ pc' = "backfill" /\ left' = rebuild
     \/ pc = "sweep" /\ pc' = "gaps" /\ left' = IF wrote THEN plib.figures ELSE {}
  /\ UNCHANGED <<fact, lib, day, tables, request, cold, rebuild, todo, touched, history>>

\* A mutant of BackfillRows: every backfill fills gaps alone.
BackfillGaps(p) == ScopesOf(p) \ Subjects(p)

BackfillRows(p) ==
  IF pc = "gaps" THEN ScopesOf(p) \ Subjects(p) ELSE ScopesOf(p)

With(p, subjects) ==
  [c \in Subjects(p) \union subjects |->
     IF c \in subjects THEN Evaluate(p, c) ELSE value[p][c]]

Backfill(p) ==
  /\ pc \in {"backfill", "heal", "gaps"} /\ Shallowest(p)
  /\ value' = [value EXCEPT ![p] = With(p, BackfillRows(p))]
  /\ left' = left \ {p}
  /\ UNCHANGED <<fact, lib, day, held, built, pointer, pc, request, cold, rebuild, todo, touched>>
  /\ late' = (late \/ (pc = "gaps" /\ Unheard(p))) /\ UNCHANGED <<owed, sound, deaths, requests>>

\* A finished pass has filed its batch: everything if full, the written keys
\* if warm, and nothing of the batch if it ran the cold branch short of full.
Filed == IF full THEN Keys ELSE IF cold THEN {} ELSE written

BackfillEnds ==
  /\ left = {}
  /\ \/ pc = "backfill" /\ pc' = "pointers" /\ left' = plib.figures /\ owed' = owed
     \/ pc = "heal" /\ pc' = "sweep" /\ left' = rebuild /\ owed' = owed
     \/ pc = "gaps" /\ pc' = "done" /\ left' = left /\ owed' = owed \ Filed
  /\ UNCHANGED <<fact, lib, day, tables, request, cold, rebuild, todo, touched, sound, late, deaths, requests>>

\* Every figure's pointer, last of all.
SetPointer(p) ==
  /\ pc = "pointers" /\ Foremost(p, left)
  /\ pointer' = [pointer EXCEPT ![p.name] = p]
  /\ left' = left \ {p}
  /\ UNCHANGED <<fact, lib, day, held, built, value, pc, request, cold, rebuild, todo, touched, history>>

PointersEnd ==
  /\ pc = "pointers" /\ left = {}
  /\ pc' = "done" /\ owed' = owed \ Filed
  /\ UNCHANGED <<fact, lib, day, tables, request, progress, sound, late, deaths, requests>>

\* The pass returns its outcome, the lock is free, and the request is over.
Over ==
  /\ pc' = "idle"
  /\ written' = {} /\ wrote' = FALSE /\ full' = FALSE /\ cold' = FALSE
  /\ rebuild' = {} /\ todo' = {} /\ left' = {} /\ touched' = {} /\ sound' = FALSE /\ late' = FALSE
  /\ UNCHANGED <<fact, lib, day, plib, now, owed, requests>>

Return ==
  /\ pc = "done"
  /\ Over /\ UNCHANGED <<tables, deaths>>

-----------------------------------------------------------------------------
(* A pass that raises, or a process that dies: the lock is free, the        *)
(* request's state is gone, and the tables keep what had been written.      *)

Abandon == deaths < MaxDeaths /\ deaths' = deaths + 1 /\ Over

Die ==
  /\ pc \notin {"idle", "done"}
  /\ Abandon /\ UNCHANGED tables

\* Between the statement that removes a moved member's old buckets and the one
\* that files its new ones.
ApplyDies(i) ==
  /\ pc = "apply" /\ Foremost(i, todo)
  /\ Abandon /\ UNCHANGED <<built, pointer, value>>
  /\ held' = [held EXCEPT ![i.name] = {r \in @ : r \in SetBuckets(i)[i.name]}]

\* Between a grouping's rebuild and its stamp.
ReindexDies(i) ==
  /\ pc = "reindex" /\ Foremost(i, todo)
  /\ Abandon /\ UNCHANGED <<built, pointer, value>>
  /\ held' = [held EXCEPT ![i.name] = Wanted(i, now)]

\* Part way through one figure's rows.
RecomputeDies(p) ==
  /\ pc = "recompute" /\ Shallowest(p)
  /\ Abandon /\ UNCHANGED <<held, built, pointer>>
  /\ \E some \in SUBSET TouchedSubjects(p) :
       value' = [value EXCEPT ![p] = Recomputed(p, some)]

RemoveDepartedDies(p) ==
  /\ pc \in {"depart", "sweep"} /\ Foremost(p, left)
  /\ Abandon /\ UNCHANGED <<held, built, pointer>>
  /\ \E some \in SUBSET DepartedRows(p) : value' = [value EXCEPT ![p] = Without(p, some)]

BackfillDies(p) ==
  /\ pc \in {"backfill", "heal", "gaps"} /\ Shallowest(p)
  /\ Abandon /\ UNCHANGED <<held, built, pointer>>
  /\ \E some \in SUBSET BackfillRows(p) : value' = [value EXCEPT ![p] = With(p, some)]

-----------------------------------------------------------------------------

\* A teach swaps the world's library, and midnight passes.  A pass reads the
\* library and the instant it captured, and neither again, so nothing is lost
\* by letting both fall between passes.
Teach(L) ==
  /\ pc = "idle" /\ <<lib, L>> \in Deploys
  /\ lib' = L
  /\ UNCHANGED <<fact, day, tables, pc, request, progress, history>>

NewDay ==
  /\ pc = "idle" /\ day < MaxDay
  /\ day' = day + 1
  /\ UNCHANGED <<fact, lib, tables, pc, request, progress, history>>

Init ==
  /\ fact = [k \in Keys |-> None]
  /\ lib \in Libraries /\ plib = lib
  /\ day = 1 /\ now = 1
  /\ held = [n \in IndexNames |-> {}]
  /\ built = [n \in IndexNames |-> None]
  /\ pointer = [n \in FigureNames |-> None]
  /\ value = [p \in Plans |-> [c \in {} |-> None]]
  /\ pc = "idle"
  /\ written = {} /\ owed = {} /\ rebuild = {} /\ todo = {} /\ left = {} /\ touched = {}
  /\ wrote = FALSE /\ full = FALSE /\ cold = FALSE /\ sound = FALSE /\ late = FALSE
  /\ deaths = 0 /\ requests = 0

PassStep ==
  \/ \E n \in IndexNames : DropIndex(n)
  \/ Begin \/ ReturnEarly
  \/ \E i \in plib.indexes : ApplyIndex(i) \/ Reindex(i)
  \/ Applied \/ RecomputeEnds \/ ReindexEnds \/ RemoveDepartedEnds
  \/ BackfillEnds \/ PointersEnd \/ Return
  \/ \E p \in plib.figures :
       Recompute(p) \/ RemoveDeparted(p) \/ Backfill(p) \/ SetPointer(p)

Death ==
  \/ Die
  \/ \E i \in plib.indexes : ApplyDies(i) \/ ReindexDies(i)
  \/ \E p \in plib.figures :
       RecomputeDies(p) \/ RemoveDepartedDies(p) \/ BackfillDies(p)

Next ==
  \/ \E batch \in Batches, asked \in BOOLEAN : PostFacts(batch, asked)
  \/ \E asked \in BOOLEAN : PostRun(asked)
  \/ PassStep
  \/ Death
  \/ \E L \in Libraries : Teach(L)
  \/ NewDay

Spec == Init /\ [][Next]_vars

-----------------------------------------------------------------------------
(* What a pass promises.                                                   *)

\* A full pass leaves exactly the tables a rebuild from nothing would, whatever
\* crashed passes, dropped writes or old libraries had left in them: the
\* promise every escalation and every repair relies on.  (But for the rows of
\* pairs whose bucket emptied: the README says what happens to those.)
FullPassExact == pc = "done" /\ full => Agreed(plib, now)

\* A pass that finds a definition behind its pointer, carries no writes and
\* starts from tables that are what they claim, leaves what a full pass would,
\* though it rebuilds the pending figures and the stale groupings alone.  (No
\* span is clipped: a cold pass on a new day cascades nothing, and the README says so.)
Unclipped == \A i \in plib.indexes : ~i.clipped
DefinitionPassExact ==
  pc = "done" /\ cold /\ ~full /\ written = {} /\ sound /\ Unclipped
    => Agreed(plib, now)

\* The groupings whose records are subjects themselves, in buckets of their own.
Own ==
  {i \in Groupings :
     \A k \in Keys, d \in 1..MaxDay, f \in [Keys -> Bodies \union {None}] :
       KindOf[k] = i.kind /\ f[k] # None => \A c \in Cut(i, d, k, f) : c[1] = k}

\* The figures whose every input the pass marks them by: it marks none that has
\* no grouping for a field it reads or for its sequence; it takes a written record of a
\* figure's own kind for the subject, never for a member; a moved row for one of the reader's
\* subject, or of its bucket across scopes; and it knows no other bucket of a spread.
Followed(p) ==
  /\ p.scopeIndex = None => ~p.grain /\ p.fields = {}
  /\ p.across # None => p.sources = {}
  /\ p.scope \in p.fields => p.scopeIndex.kind # p.scope \/ p.scopeIndex \in Own
  /\ p.form = "total" => p.grain /\ \A q \in p.sources : q.grain
  /\ p.form = "spread" => p.grain /\ p.scopeIndex \in Own /\ \A q \in p.sources : ~q.grain
  /\ \A q \in p.sources : p.form = "total" <=> q.scope # p.scope

\* Rule 4: the warm pass, which files the written records and follows what they
\* touched through the figures, leaves exactly what a full pass would.  (Every
\* record belongs to a subject there is, every figure is followed, and no closing
\* sweep moved what was computed before it: the README says what happens to the rest.)
WarmPassExact ==
  pc = "done" /\ ~cold /\ sound /\ OwnersPresent(plib) /\ ~late
    /\ (\A p \in plib.figures : Followed(p)) => Agreed(plib, now)

\* A stamp is honest through every crash: a grouping that reads as current, so
\* that no pass will rebuild it, holds the rows its spec cuts today, but for the
\* records of a batch that no finished pass has filed.  (Until a deploy is taken
\* back after a death: the README says what happens then.)
StampHonest ==
  \A i \in lib.indexes :
    built[i.name] = Stamp(i, day) /\ (\A x \in owed : KindOf[x] \notin i.through) =>
      \A k \in Keys \ owed : KindOf[k] = i.kind =>
        BucketsHolding(i, k) = IF fact[k] = None THEN {} ELSE BucketsOf(i, day, k)

\* After a full pass, or a warm one through the facts door, every subject a
\* figure should have has a row, whatever a pass that died had left out.
GapsFilled ==
  pc = "done" /\ (full \/ (~cold /\ wrote)) =>
    \A p \in plib.figures : ScopesOf(p) \subseteq Subjects(p)

\* A pointer moves to a version only when that version's rows are the ones a
\* rebuild over the stored buckets and parts would leave.
PointerCertifies ==
  [][\A n \in FigureNames : pointer'[n] # pointer[n] => Current(pointer'[n])]_vars

(* What the documentation says of it, and the code does not do.            *)

\* docs/concepts.md, rule 4: a scoped run must leave exactly the state a full
\* run would.  A pass that is cold and carries writes does not file them.
ColdPassKeepsWrites ==
  pc = "done" /\ cold /\ ~full /\ sound /\ Unclipped /\ OwnersPresent(plib) => Agreed(plib, now)

=============================================================================
