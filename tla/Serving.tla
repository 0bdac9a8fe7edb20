------------------------------ MODULE Serving ------------------------------
(***************************************************************************)
(* What a pass pushes, and what a screen is left showing.                  *)
(*                                                                         *)
(* One tenant.  The facade (facade.py) runs an engine pass, works out from *)
(* the outcome which declarations' answers may have moved, settles its     *)
(* serve stamps and reports the names; the server then evaluates each      *)
(* moved name (engine/serve.py) and delivers it.  The tables are those of  *)
(* EnginePass, reduced to what an answer reads: how much a grouping holds, *)
(* one row per figure and version, the pointer, the groupings' stamps.     *)
(* A whole pass holds the tenant's lock and the library it captured, so it *)
(* is one step, and so is the delivery that follows it under that lock.    *)
(***************************************************************************)
EXTENDS Integers, FiniteSets, FiniteSetsExt

CONSTANTS
  Kinds,        \* the kinds of record
  IndexNames,   \* the names of the groupings
  Names,        \* the names of every other declaration
  Versions,     \* the declarations' version hashes
  Libraries,    \* the libraries the operator teaches
  Deploys,      \* the pairs of them a teach may go between, the first from None
  MaxHeld,      \* bound: how much of a kind is collected
  MaxRow,       \* bound: a figure's number
  MaxDay,       \* bound: days
  MaxPasses,    \* bound: passes
  MaxRaises,    \* bound: passes that raise
  None          \* no row, no stamp, no screen

\* A library is a record of functions, each from the names it declares:
\*   indexes      [version, kind, keeps]
\*   figures      [version, prose, indexes, reads, adds, bandReads, bandField,
\*                 bulk, turn]
\*   readings     [version, prose, source, bandReads]     (a live one: None)
\*   projections  [version, prose, kind, frm, reads, words]
\*   summaries    [version, prose, over, first]
\*   bundles      [version, prose, members]
\* bandField is the figure's scope where its band reads the subject's record; bulk says
\* that the figure is on the bulk surface, being neither sequenced nor split; turn is
\* its place in the order the engine computes figures in, by depth and as declared;
\* words are the figures a projection binds the band of; first says that the summary
\* is the one its projection is answered with, the first declared over it.
Stamped(L) == DOMAIN L.figures \union DOMAIN L.readings \union DOMAIN L.bundles
Paged(L) == DOMAIN L.projections \union DOMAIN L.summaries
Declared(L) == Stamped(L) \union Paged(L)

\* What the checker guarantees: a name is declared once, what is read is
\* declared and computed before, a tile holds no tile, and a figure's hash covers
\* its groupings' specs and its sources' versions.
ASSUME LibraryAssumption ==
  \A L \in Libraries :
    /\ Declared(L) \subseteq Names /\ DOMAIN L.indexes \subseteq IndexNames
    /\ \A i \in DOMAIN L.indexes : L.indexes[i].kind \in Kinds
    /\ DOMAIN L.figures \intersect (DOMAIN L.readings \union DOMAIN L.bundles \union Paged(L)) = {}
    /\ DOMAIN L.readings \intersect (DOMAIN L.bundles \union Paged(L)) = {}
    /\ DOMAIN L.bundles \intersect Paged(L) = {}
    /\ DOMAIN L.projections \intersect DOMAIN L.summaries = {}
    /\ \A f \in DOMAIN L.figures :
         /\ L.figures[f].version \in Versions /\ L.figures[f].adds \in Nat
         /\ L.figures[f].turn \in 1..Cardinality(DOMAIN L.figures)
         /\ L.figures[f].indexes \subseteq DOMAIN L.indexes
         /\ L.figures[f].reads \union L.figures[f].bandReads \subseteq DOMAIN L.figures
         /\ L.figures[f].bandField \in Kinds \union {None}
         /\ \A g \in L.figures[f].reads : L.figures[g].turn < L.figures[f].turn
    /\ \A r \in DOMAIN L.readings :
         /\ L.readings[r].source \in DOMAIN L.figures \union {None}
         /\ L.readings[r].bandReads \subseteq DOMAIN L.figures
    /\ \A p \in DOMAIN L.projections :
         /\ L.projections[p].kind \in Kinds /\ L.projections[p].frm \in DOMAIN L.indexes \union {None}
         /\ L.projections[p].reads \union L.projections[p].words \subseteq DOMAIN L.figures
    /\ \A s \in DOMAIN L.summaries : L.summaries[s].over \in DOMAIN L.projections
    /\ \A b \in DOMAIN L.bundles : L.bundles[b].members \subseteq Declared(L) \ DOMAIN L.bundles

\* What a pass reports.
Reports ==
  [moved : SUBSET Names, results : SUBSET Names, refreshed : SUBSET Names, wrote : SUBSET Kinds,
   sync : BOOLEAN, calm : BOOLEAN]

\* The names are finitely many, the bounds numbers, and no value is None.
ASSUME BoundsAssumption ==
  /\ IsFiniteSet(Names) /\ IsFiniteSet(IndexNames)
  /\ MaxHeld \in Nat /\ MaxRow \in Nat
  /\ None \notin Names \union Kinds \union IndexNames \union Versions \union Nat
  /\ None \notin Reports

\* Equal versions are equal declarations, but for what no hash covers: the prose, and
\* the places.
ASSUME HashAssumption ==
  \A L, M \in Libraries :
    /\ \A f \in DOMAIN L.figures \intersect DOMAIN M.figures :
         L.figures[f].version = M.figures[f].version =>
           /\ \A part \in {"indexes", "reads", "adds", "bandReads", "bandField", "bulk"} :
                L.figures[f][part] = M.figures[f][part]
           /\ \A i \in L.figures[f].indexes : L.indexes[i] = M.indexes[i]
           /\ \A g \in L.figures[f].reads : L.figures[g].version = M.figures[g].version
    /\ \A r \in DOMAIN L.readings \intersect DOMAIN M.readings :
         L.readings[r].version = M.readings[r].version =>
           \A part \in {"source", "bandReads"} : L.readings[r][part] = M.readings[r][part]
    /\ \A p \in DOMAIN L.projections \intersect DOMAIN M.projections :
         L.projections[p].version = M.projections[p].version =>
           /\ \A part \in {"kind", "frm", "reads", "words"} : L.projections[p][part] = M.projections[p][part]
           /\ L.projections[p].frm # None => L.indexes[L.projections[p].frm] = M.indexes[L.projections[p].frm]
    /\ \A s \in DOMAIN L.summaries \intersect DOMAIN M.summaries :
         L.summaries[s].version = M.summaries[s].version => L.summaries[s].over = M.summaries[s].over
    /\ \A b \in DOMAIN L.bundles \intersect DOMAIN M.bundles :
         L.bundles[b].version = M.bundles[b].version => L.bundles[b].members = M.bundles[b].members

\* No deploy gives a name to another kind of declaration: the pointers of the two
\* would share a key (facade.py:1042), and that is not modelled.
ASSUME KindAssumption ==
  \A L, M \in Libraries :
    /\ DOMAIN L.figures \intersect Declared(M) \subseteq DOMAIN M.figures
    /\ DOMAIN L.readings \intersect Declared(M) \subseteq DOMAIN M.readings
    /\ DOMAIN L.projections \intersect Declared(M) \subseteq DOMAIN M.projections
    /\ DOMAIN L.summaries \intersect Declared(M) \subseteq DOMAIN M.summaries
    /\ DOMAIN L.bundles \intersect Declared(M) \subseteq DOMAIN M.bundles

VARIABLES
  fact,      \* what is collected of each kind
  day,       \* the clock
  lib,       \* the library the server serves
  members,   \* how much each grouping holds
  built,     \* the version each grouping was built under
  row,       \* each figure's row under each version it was ever computed by
  pointer,   \* the version each figure was last computed by
  stamp,     \* what each declaration was last served under
  screen,    \* the last answer delivered of each watched name
  report,    \* the pass's report, until it is delivered
  settled,   \* history: the last pass delivered, under the library there is
  excused,   \* history: names whose answer moved with no pass to name them
  passes, raises

tables == <<members, built, row, pointer>>
vars == <<fact, day, lib, tables, stamp, screen, report, settled, excused, passes, raises>>

-----------------------------------------------------------------------------
(* An answer, by name, from the tables as they stand (engine/serve.py).    *)

\* A grouping the figure reads, or one a figure it reads does, holds a row.
AnyIndexHolds(L, held, f) ==
  LET holds[g \in DOMAIN L.figures] ==
        \/ \E i \in L.figures[g].indexes : held[i] > 0
        \/ \E below \in L.figures[g].reads : holds[below]
  IN holds[f]

Availability(f) ==
  CASE pointer[f] = None -> "never-computed"
    [] pointer[f] \notin {None, lib.figures[f].version} -> "behind-deploy"
    [] pointer[f] = lib.figures[f].version ->
         IF AnyIndexHolds(lib, members, f) THEN "ok" ELSE "nothing-collected"

Stored(f) == row[f][lib.figures[f].version]
Served(f) == IF Availability(f) = "ok" THEN Stored(f) ELSE None

\* The word a value earns: withheld unless every threshold is known.
Word(number, thresholds) ==
  CASE thresholds = {} -> None
    [] thresholds # {} /\ (None \in thresholds \/ number = None) -> "unknown"
    [] thresholds # {} /\ None \notin thresholds /\ number # None ->
         IF \A t \in thresholds : number >= t THEN "met" ELSE "short"

\* The goals a figure's band names, and the record's field if it reads one.
BandThresholds(f) ==
  {Served(g) : g \in lib.figures[f].bandReads}
  \union {IF fact[k] = 0 THEN None ELSE fact[k] : k \in {lib.figures[f].bandField} \ {None}}

Level(f) == Word(Served(f), BandThresholds(f))

AnswerFigure(f) ==
  [version |-> lib.figures[f].version, prose |-> lib.figures[f].prose,
   state |-> Availability(f), value |-> Served(f), level |-> Level(f)]

Refused == [state |-> "refused"]

\* A reading's windows summarise its source's stored rows, and move with the
\* clock; a live one is refused.
AnswerReading(r) ==
  LET plan == lib.readings[r]
  IN IF plan.source = None THEN Refused
     ELSE [version |-> plan.version, prose |-> plan.prose, window |-> day,
           state |-> Availability(plan.source), value |-> Served(plan.source),
           level |-> Word(Served(plan.source), {Served(g) : g \in plan.bandReads})]

\* The population is the kind, or the grouping a projection is from: withheld
\* where that grouping was not built under the definition this library holds.
Population(p) ==
  LET plan == lib.projections[p]
  IN CASE fact[plan.kind] = 0 -> "nothing-collected"
       [] fact[plan.kind] > 0 /\ plan.frm # None /\ built[plan.frm] # lib.indexes[plan.frm].version ->
            IF \A i \in IndexNames : built[i] = None THEN "never-computed" ELSE "behind-deploy"
       [] OTHER -> "ok"

Rowed(p) ==
  LET plan == lib.projections[p]
  IN IF Population(p) # "ok" THEN 0
     ELSE IF plan.frm = None THEN fact[plan.kind] ELSE members[plan.frm]

\* What a row reads: a figure that is not available is missing from it.
Columns(p) ==
  {<<f, Served(f)>> : f \in lib.projections[p].reads}
  \union {<<f, Level(f)>> : f \in lib.projections[p].words}

\* A summary is over the whole population, and over none that is withheld.
Summary(s) ==
  LET p == lib.summaries[s].over
  IN IF Population(p) = "ok" THEN <<s, lib.summaries[s].version, Rowed(p)>> ELSE <<>>

Leading(L, p) == {s \in DOMAIN L.summaries : L.summaries[s].over = p /\ L.summaries[s].first}

AnswerProjection(p) ==
  [version |-> lib.projections[p].version, prose |-> lib.projections[p].prose, at |-> day,
   state |-> Population(p), rows |-> Rowed(p),
   columns |-> IF Rowed(p) = 0 THEN {} ELSE Columns(p),
   summary |-> {Summary(s) : s \in Leading(lib, p)}]

\* A tile's member: its ordinary answer, or a summary without the rows.
AnswerMember(n) ==
  CASE n \in DOMAIN lib.figures -> AnswerFigure(n)
    [] n \in DOMAIN lib.readings -> AnswerReading(n)
    [] n \in DOMAIN lib.projections -> AnswerProjection(n)
    [] n \in DOMAIN lib.summaries ->
         [prose |-> lib.summaries[n].prose, at |-> day,
          state |-> Population(lib.summaries[n].over), summary |-> Summary(n)]

Servable(b) ==
  \A n \in lib.bundles[b].members \intersect DOMAIN lib.readings : lib.readings[n].source # None

AnswerBundle(b) ==
  IF ~Servable(b) THEN Refused
  ELSE [version |-> lib.bundles[b].version, prose |-> lib.bundles[b].prose,
        results |-> {<<n, AnswerMember(n)>> : n \in lib.bundles[b].members}]

\* A summary by name is answered by the projection it is over.
Answer(n) ==
  CASE n \in DOMAIN lib.bundles -> AnswerBundle(n)
    [] n \in DOMAIN lib.summaries -> AnswerProjection(lib.summaries[n].over)
    [] n \in DOMAIN lib.figures \union DOMAIN lib.readings \union DOMAIN lib.projections -> AnswerMember(n)

-----------------------------------------------------------------------------
(* The engine's pass over those tables (engine/engine.py).                 *)

Pending == {f \in DOMAIN lib.figures : pointer[f] # lib.figures[f].version}
Stale == {i \in DOMAIN lib.indexes : built[i] # lib.indexes[i].version}

\* What the pass files: everything if full, the stale groupings if cold, and
\* those of the written kinds as well if warm.
Reindexed(full) == IF full THEN DOMAIN lib.indexes ELSE Stale
Filed(wrote, full) ==
  Reindexed(full) \union
    IF full \/ Pending # {} THEN {} ELSE {i \in DOMAIN lib.indexes : lib.indexes[i].kind \in wrote}

MembersAfter(collected, wrote, full) ==
  [i \in IndexNames |->
     CASE i \in Filed(wrote, full) -> IF lib.indexes[i].keeps THEN collected[lib.indexes[i].kind] ELSE 0
       [] i \in DOMAIN lib.indexes \ Filed(wrote, full) -> members[i]
       [] i \notin DOMAIN lib.indexes -> 0]

\* A figure counts what all its groupings hold and adds what it reads.
Evaluate(f, held, below) ==
  LET plan == lib.figures[f]
      counted == IF plan.indexes = {} THEN 0 ELSE Min({held[i] : i \in plan.indexes})
  IN IF \E g \in plan.reads : below[g] = None THEN None
     ELSE Min({MaxRow, plan.adds + counted + MapThenSumSet(LAMBDA g : below[g], plan.reads)})

\* The rows the pass leaves: all if full, the pending ones if cold; if warm, those
\* over a filed grouping and the readers of what moved.
RowsAfter(held, filed, full) ==
  LET cold == full \/ Pending # {}
      after[f \in DOMAIN lib.figures] ==
        IF \/ full \/ f \in Pending
           \/ ~cold /\ \/ lib.figures[f].indexes \intersect filed # {}
                       \/ Stored(f) = None
                       \/ \E g \in lib.figures[f].reads : after[g] # Stored(g)
        THEN Evaluate(f, held, [g \in lib.figures[f].reads |-> after[g]])
        ELSE Stored(f)
  IN after

-----------------------------------------------------------------------------
(* What the facade reports of it (facade.py).                              *)

Stamp(n) ==
  LET d == CASE n \in DOMAIN lib.figures -> lib.figures[n]
             [] n \in DOMAIN lib.readings -> lib.readings[n]
             [] n \in DOMAIN lib.bundles -> lib.bundles[n]
             [] n \in DOMAIN lib.projections -> lib.projections[n]
             [] n \in DOMAIN lib.summaries -> lib.summaries[n]
  IN <<d.version, d.prose>>

Refreshed == {n \in Stamped(lib) : stamp[n] # Stamp(n)}

\* The projections a pass serves: all of them at the host's sync, and on a
\* definition-only pass those the change can have reached.
Reached(touched, reindexed) ==
  {p \in DOMAIN lib.projections :
     LET plan == lib.projections[p]
         read == plan.reads \union plan.words \union UNION {lib.figures[f].bandReads : f \in plan.words}
     IN {plan.frm} \intersect reindexed # {} \/ read \intersect touched # {} \/ stamp[p] # Stamp(p)}
  \union {lib.summaries[s].over : s \in {x \in DOMAIN lib.summaries : stamp[x] # Stamp(x)}}

\* Mutants: a goal's edge forgotten, for a figure and for a reading.
FigureMovesGoalless(f, touched) == f \in touched \union Refreshed
ReadingMovesGoalless(r, touched) == r \in Refreshed \/ lib.readings[r].source \in touched

FigureMoves(f, touched) ==
  f \in touched \union Refreshed \/ lib.figures[f].bandReads \intersect touched # {}
ReadingMoves(r, touched) ==
  \/ r \in Refreshed
  \/ lib.readings[r].source \in touched
  \/ lib.readings[r].bandReads \intersect touched # {}

\* A mutant of BundlesImpacted: a summary member is not followed.
BundlesImpactedBarSummaries(touched, pages) ==
  {b \in DOMAIN lib.bundles : Servable(b) /\
     \/ b \in Refreshed
     \/ \E n \in lib.bundles[b].members :
          \/ n \in DOMAIN lib.figures /\ FigureMoves(n, touched)
          \/ n \in DOMAIN lib.readings /\ ReadingMoves(n, touched)
          \/ n \in pages}

\* A tile moves exactly when a member does, by the member's own test.
BundlesImpacted(touched, pages) ==
  {b \in DOMAIN lib.bundles : Servable(b) /\
     \/ b \in Refreshed
     \/ \E n \in lib.bundles[b].members :
          \/ n \in DOMAIN lib.figures /\ FigureMoves(n, touched)
          \/ n \in DOMAIN lib.readings /\ ReadingMoves(n, touched)
          \/ n \in pages
          \/ n \in DOMAIN lib.summaries /\ lib.summaries[n].over \in pages}

Moved(touched, pages) ==
  touched \union Refreshed
  \union {r \in DOMAIN lib.readings : ReadingMoves(r, touched)}
  \union {f \in DOMAIN lib.figures : lib.figures[f].bandReads \intersect touched # {}}
  \union pages \union {s \in DOMAIN lib.summaries : lib.summaries[s].over \in pages}
  \union BundlesImpacted(touched, pages)

\* What the bulk surface carries of the same pass: no sequenced or split figure,
\* no summary of its own, nothing live; and, alone, the record-shaped threshold.
ServedInBulk(touched, pages, wrote) ==
  {f \in DOMAIN lib.figures : lib.figures[f].bulk /\
     (FigureMoves(f, touched) \/ (lib.figures[f].bandField \in wrote))}
  \union {r \in DOMAIN lib.readings : lib.readings[r].source # None /\ ReadingMoves(r, touched)}
  \union pages \union BundlesImpacted(touched, pages)

-----------------------------------------------------------------------------

\* What an answer is worked out from, one declaration at a time.
Downstream(S) ==
  LET figs == {f \in DOMAIN lib.figures : f \in S \/ lib.figures[f].bandReads \intersect S # {}}
      reads == {r \in DOMAIN lib.readings :
                  lib.readings[r].source \in S \/ lib.readings[r].bandReads \intersect S # {}}
      pages == {p \in DOMAIN lib.projections :
                  lib.projections[p].reads \intersect S # {} \/ lib.projections[p].words \intersect figs # {}}
      heads == {s \in DOMAIN lib.summaries : lib.summaries[s].over \in pages}
      tiles == {b \in DOMAIN lib.bundles :
                  lib.bundles[b].members \intersect (figs \union reads \union pages \union heads) # {}}
  IN figs \union reads \union pages \union heads \union tiles

\* Five ways an answer moves and no pass names it: the first or the last record
\* of what a figure reads, when its number stays; a definition taken back whose
\* old rows are still the right ones; a threshold on the subject's record; a tile
\* a deploy makes unservable, by making a member live; and a page that a deploy
\* drops the summary of, or brings it back to as it was.
Collected(held, touched) ==
  {f \in DOMAIN lib.figures \ touched :
     AnyIndexHolds(lib, members, f) # AnyIndexHolds(lib, held, f)}
TakenBack(touched) == Pending \ touched
Allowed(wrote) == {f \in DOMAIN lib.figures : lib.figures[f].bandField \in wrote}
TilesOver(S) == {b \in DOMAIN lib.bundles : lib.bundles[b].members \intersect S # {}}

Closed ==
  {b \in DOMAIN lib.bundles : ~Servable(b)
     /\ lib.bundles[b].members \intersect DOMAIN lib.readings \intersect Refreshed # {}}
Reheaded(L) ==
  LET pages == {p \in DOMAIN L.projections : Leading(lib, p) # Leading(L, p)}
  IN pages \union {s \in DOMAIN L.summaries : L.summaries[s].over \in pages}
     \union {b \in DOMAIN L.bundles : L.bundles[b].members \intersect pages # {}}

Unnamed(held, touched, wrote) ==
  Downstream(Collected(held, touched) \union TakenBack(touched))
  \union Allowed(wrote) \union TilesOver(Allowed(wrote)) \union Closed

BuiltAfter(full) ==
  [i \in IndexNames |->
     CASE i \in Reindexed(full) -> lib.indexes[i].version
       [] i \in DOMAIN lib.indexes \ Reindexed(full) -> built[i]
       [] i \notin DOMAIN lib.indexes -> None]

Tables(held, rows, pointed, full) ==
  /\ members' = held
  /\ built' = BuiltAfter(full)
  /\ row' = [f \in Names |-> IF f \in DOMAIN rows
                              THEN [row[f] EXCEPT ![lib.figures[f].version] = rows[f]] ELSE row[f]]
  /\ pointer' = [f \in Names |-> IF f \in pointed THEN lib.figures[f].version ELSE pointer[f]]

\* A mutant of Settle: the stamps under a prefixed key never settle.
SettlePages ==
  stamp' = [n \in Names |-> IF n \in Paged(lib) THEN Stamp(n) ELSE stamp[n]]

\* The stamps settle with the report: every projection's and summary's, and the
\* others' where they moved.
Settle ==
  stamp' = [n \in Names |-> IF n \in Declared(lib) THEN Stamp(n) ELSE stamp[n]]

\* A pass, by either door: POST /facts with a batch, POST /runs with none.  A
\* deletion escalates it.  The report is made of what the engine moved.
Run(collected, wrote, sync, full) ==
  LET held == MembersAfter(collected, wrote, full)
      rows == RowsAfter(held, Filed(wrote, full), full)
      touched == {f \in DOMAIN lib.figures : rows[f] # Stored(f)}
      pages == IF sync THEN DOMAIN lib.projections ELSE Reached(touched, Reindexed(full))
      moved == Moved(touched, pages)
  IN /\ Tables(held, rows, Pending, full)
     /\ Settle
     /\ report' = [moved |-> moved, results |-> ServedInBulk(touched, pages, wrote),
                   refreshed |-> Refreshed, wrote |-> wrote, sync |-> sync, calm |-> settled]
     /\ excused' = (excused \union Unnamed(held, touched, wrote)) \ moved

MayRun == report = None /\ passes < MaxPasses /\ passes' = passes + 1

Wrote(collected) == {k \in Kinds : collected[k] # fact[k]}
Deleted(collected) == \E k \in Kinds : collected[k] < fact[k]

PostFacts(collected) ==
  /\ MayRun
  /\ fact' = collected
  /\ Run(collected, Wrote(collected), TRUE, Deleted(collected))
  /\ UNCHANGED <<day, lib, screen, settled, raises>>

PostRun(full) ==
  /\ MayRun
  /\ Run(fact, {}, full, full)
  /\ UNCHANGED <<fact, day, lib, screen, settled, raises>>

\* Each watched name that moved is evaluated, once, and delivered.
Deliver ==
  /\ report # None
  /\ screen' = [n \in Names |-> IF n \in report.moved /\ screen[n] # None THEN Answer(n) ELSE screen[n]]
  /\ report' = None /\ settled' = TRUE
  /\ UNCHANGED <<fact, day, lib, tables, stamp, excused, passes, raises>>

\* A pass that raises: in the engine, some rows saved and no pointer moved; past
\* it, before the stamps settle; or in the delivery, after they did.  Nothing
\* remembers what had moved.
EngineRaises(collected) ==
  LET full == Deleted(collected)
      held == MembersAfter(collected, Wrote(collected), full)
      rows == RowsAfter(held, Filed(Wrote(collected), full), full)
  IN /\ MayRun /\ raises < MaxRaises /\ raises' = raises + 1
     /\ fact' = collected
     /\ \E turns \in 0..Cardinality(DOMAIN rows), pointed \in {{}, Pending} :
          LET saved == {f \in DOMAIN rows : lib.figures[f].turn <= turns} IN
          /\ pointed # {} => saved = DOMAIN rows
          /\ Tables(held, [f \in saved |-> rows[f]], pointed, full)
     /\ settled' = FALSE
     /\ UNCHANGED <<day, lib, stamp, screen, report>>
     /\ excused' = excused \union {n \in Declared(lib) : screen[n] # None /\ screen[n] # Answer(n)'}

DeliveryRaises ==
  /\ report # None /\ raises < MaxRaises /\ raises' = raises + 1
  /\ report' = None /\ settled' = FALSE
  /\ excused' = excused \union report.moved
  /\ UNCHANGED <<fact, day, lib, tables, stamp, screen, passes>>

\* A client connects and paints every name the library declares.
Connect ==
  /\ report = None
  /\ screen' = [n \in Names |-> IF n \in Declared(lib) THEN Answer(n) ELSE None]
  /\ excused' = {}
  /\ UNCHANGED <<fact, day, lib, tables, stamp, report, settled, passes, raises>>

\* A teach swaps the library, and ends the watch of a name it retires.  Taken
\* back before any pass, it changes answers painted in between, and leaves the
\* next pass nothing to find.
Teach(L) ==
  /\ report = None /\ <<lib, L>> \in Deploys
  /\ lib' = L
  /\ screen' = [n \in Names |-> IF n \in Declared(L) THEN screen[n] ELSE None]
  /\ settled' = FALSE
  /\ UNCHANGED <<fact, day, tables, stamp, report, passes, raises>>
  /\ excused' = excused \union Reheaded(L)
                \union IF settled THEN {} ELSE {n \in Declared(L) : screen'[n] # None /\ screen'[n] # Answer(n)'}

\* What is worded by the clock is behind it until it is next served.
NewDay ==
  /\ report = None /\ day < MaxDay
  /\ day' = day + 1
  /\ LET clocked == {r \in DOMAIN lib.readings : lib.readings[r].source # None} \union Paged(lib)
     IN excused' = excused \union clocked \union TilesOver(clocked)
  /\ UNCHANGED <<fact, lib, tables, stamp, screen, report, settled, passes, raises>>

Init ==
  /\ fact = [k \in Kinds |-> 0] /\ day = 1 /\ lib \in Libraries /\ <<None, lib>> \in Deploys
  /\ members = [i \in IndexNames |-> 0] /\ built = [i \in IndexNames |-> None]
  /\ row = [f \in Names |-> [v \in Versions |-> None]]
  /\ pointer = [f \in Names |-> None] /\ stamp = [n \in Names |-> None]
  /\ screen = [n \in Names |-> None] /\ report = None
  /\ settled = FALSE /\ excused = {} /\ passes = 0 /\ raises = 0

Next ==
  \/ \E collected \in [Kinds -> 0..MaxHeld] : PostFacts(collected)
  \/ \E full \in BOOLEAN : PostRun(full)
  \/ Deliver
  \/ \E collected \in [Kinds -> 0..MaxHeld] : EngineRaises(collected)
  \/ DeliveryRaises
  \/ Connect
  \/ \E L \in Libraries : Teach(L)
  \/ NewDay

Spec == Init /\ [][Next]_vars

-----------------------------------------------------------------------------

\* The screen-keeps-lying bug the serve stamps and the goals' edges are there to
\* close: once a pass is delivered, every watched name shows what asking for it
\* would answer, but for the names whose answer moved in one of the ways no pass
\* names, since they were last served.
ScreensCurrent ==
  report = None /\ settled =>
    \A n \in Declared(lib) \ excused : screen[n] # None => screen[n] = Answer(n)

\* facade.py, of RunReport.moved: every definition whose served answer this pass
\* may have changed.
MovedIsComplete ==
  report = None /\ settled =>
    \A n \in Declared(lib) : screen[n] # None => screen[n] = Answer(n)

\* A tile is named by a pass exactly when its own prose moved or a member is
\* named: neither a tile gone stale behind its member, nor one flickering.
TileFollowsMembers ==
  report # None =>
    \A b \in DOMAIN lib.bundles : Servable(b) =>
      (b \in report.moved <=>
         b \in report.refreshed \/ lib.bundles[b].members \intersect report.moved # {})

\* The answers carried in bulk are those of the names reported as moved that are
\* on the bulk surface at all, and the figures judged by a written record.
Unlisted ==
  {f \in DOMAIN lib.figures : ~lib.figures[f].bulk}
  \union {r \in DOMAIN lib.readings : lib.readings[r].source = None}
  \union DOMAIN lib.summaries \union {b \in DOMAIN lib.bundles : ~Servable(b)}
BulkAgrees ==
  report # None =>
    report.results = (report.moved \union Allowed(report.wrote)) \ Unlisted

\* A definition-only pass over a library whose last pass was delivered, with
\* nothing written since, names nothing and wakes nobody.
QuietPassIsSilent == report # None /\ report.calm /\ ~report.sync => report.moved = {}

=============================================================================
