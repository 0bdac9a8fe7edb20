# uratori in TLA+

uratori is a service that keeps *figures* over *facts*. A host pushes records
(facts); a library of definitions says how records fall into groupings and what
is computed over each group; a *pass* brings the stored groupings and numbers up
to date, mostly incrementally; and screens follow the answers over a websocket.
The bug this design lives in fear of is one kind of bug: a number that is stale
and says nothing about it. These modules state, check and prove where that cannot
happen, and show where it can.

Paths below are under `uratori/` in the repository unless they start with `docs/`.

## Inventory

| Component | State | Operations | What makes it hard | Correct when |
|---|---|---|---|---|
| Engine pass (`engine/engine.py`, `facade.py`) | none of its own; a pass has its marks (`touched`), its full/cold flags and the library it began with | `run`, through `execute`'s escalations | about a hundred statements that commit one by one, any of which may be the last; warm, cold and full branches; midnight; redeploys | a pass leaves what a rebuild from nothing would |
| Derived tables (`store/postgres.py`) | `figure_index` (which record is in which bucket), `index_built` (the spec each grouping was built under), `figure_value` (rows), `figure_pointer` (the version each figure was computed at) | `set_buckets_many`, `replace_index`, `set_index_stamp`, `save`, `remove`, `set_pointer` | no transaction spans two of them | a stamp or pointer never vouches for what is not there |
| Bucketing and evaluation (`engine/buckets.py`, `engine/evaluate.py`) | none | `buckets_of`, `evaluate` | which rows a number read is what decides which rows a change makes stale | a number reads exactly the rows its readers are indexed by |
| Facts door (`server/app.py` post_facts, `server/db.py`) | `fact` with `source_stamp`, `import_debt` | land a batch in one transaction, owe or run the pass, settle, log, reply | batches queue behind one another; snapshots race events; bulk imports defer their pass; a death between any two statements | what the tables do not describe is owed, and the next pass pays |
| Run doors (`post_run`, `server/ui.py` run_pass) | — | a pass without a batch | the library is captured before the lock | passes run for libraries in the order they were taught |
| Tenant removal (`db.remove_tenant`) | every table | eight deletes | no transaction | nothing of the tenant survives |
| Run log (`runtime.record_pass`, `db.record_run`) | `run_log` | insert, prune | failures are swallowed on purpose | the newest passes, in the order they ran |
| Teach and world (`put_schema`, `put_definitions`, `ui.save`, `lifespan`) | `engine_world`, `State.world`, the teach lock | compile, save, swap, retire subscriptions, restore at boot | a save may fail after it wrote; crashes between save and swap; pages of the editor outlive all of it; a build that refuses what the last one saved | the three doors are one durable register, and a restart serves what was served |
| Stream and hub (`server/app.py` stream, `server/hub.py`, `runtime.push_pass`) | each client's tenant, firehose flag and entries; the sockets | subscribe, unsubscribe, first paint, publish, serve entries, retire | every send is an await: passes, subscriptions, switches and teaches interleave | a screen shows its own board's current answer, or says why not |
| Carried figures (`engine/carry.py`) | rows where no record is | materialise, on a pass and on a read without the lock | a read and a pass write the same row from snapshots taken at different times | every bucket says what the last change before it says |
| Serving, stamps, moved sets (`facade.py`, `engine/serve.py`) | serve stamps among the pointers | answer, evaluate what moved, settle the stamps | which answers moved is worked out, not observed | every answer that changed is named by the pass that changed it, and no other |
| Windows and readings (`windows.py`, `engine/project.py`, `engine/serve.py`) | — | spans, ceilings, expansion; readings, projections, summaries | ends of spans; a declaration checked against one ceiling and served against another | what compiles can be answered |
| Language checker and versions (`lang/check.py`, `lang/plan.py`, `lang/hash.py`) | the library being built | a declaration of each kind checked, resolved, hashed | four and a half thousand lines of refusals that must add up to one promise: what compiles can be run, and a version that stands means what it meant | reads meet what they read; versions tell meanings apart |
| Language front end (`lang/lex.py`, `lang/parse.py`, `lang/ast.py`) | — | lex, parse | pure | — |
| Verification, working, rendering (`verify.py`, `engine/working.py`, `results.py`, most of `server/ui.py`) | — | pure refusals and read-only traces | pure | — |

How they meet: a *door* takes the tenant's `asyncio.Lock`, commits facts, runs
the pass, settles debts, logs, and pushes to the hub before it gives the lock
back. The library a door uses is captured from `State.world` before the lock.
Subscriptions take the same lock for their first answers; reads take no lock, and
still write, where they fill a carried figure. A teach takes a lock of its own,
saves, swaps the world, and then retires subscriptions, holding no tenant's lock.

## Modules

| Module | Models | Abstract in it |
|---|---|---|
| `EnginePass` | one tenant's derived tables and the pass, statement by statement | records are model values with a small body; a grouping's cut and a calculation's arithmetic are constants (`Cut`, `Calc`) |
| `MCEnginePass` | libraries of every shape the engine treats differently, for TLC | — |
| `EnginePass_proofs` | four inductive invariants (of a full pass, a definition pass, a warm pass, the stamps) and seven theorems | — |
| `FactsDoor` | one tenant behind its doors: queue, batch, debt, pass, log, removal, faults | the pass is reduced to what it files and which definitions it ran for |
| `MCFactsDoor` | what the clients ask | — |
| `FactsDoor_proofs` | the inductive invariants of the lock and the debt, of the line and the log, of the newest body; eight theorems | — |
| `Stream` | sockets, hub, passes as deliveries, teaches | an answer is a number that grows; a screen is the last frame per address |
| `Stream_proofs` | the inductive invariant of delivery, those of entries, and six theorems | — |
| `MCStream` | one client, two tenants, a teach that removes a definition | — |
| `Serving` | what a pass reports as moved, the serve stamps, and what a screen is left showing | a pass is one step, and so is a delivery; a grouping is how much it holds, a figure one row |
| `Serving_proofs` | what a pass reports (tiles, bulk answers, quiet passes) and what a screen is left showing; four theorems | — |
| `MCServing` | figures with goals, readings, a projection, summaries and tiles, and a rewrite of them all | — |
| `Carry` | one carried figure, written by passes and by reads, statement by statement | a bucket is a number, a record says one value |
| `Carry_proofs` | the span in closed form, what `materialise` writes, and three theorems | — |
| `Counting_proofs` | induction over numbers in its set form, least and greatest elements; cited by `Serving_proofs` and `Carry_proofs` | — |
| `MCCarry` | one subject, two records, four buckets, two values, a read in flight | — |
| `Register` | what the doors that teach promise together: one durable value | (abstract specification) |
| `World` | schema, source and library behind three doors, the database row, crashes and boots | which sources compile under which build and schema is a constant |
| `MCWorld` | two authors, schemas with and without kinds, two builds | — |
| `World_proofs` | the inductive invariant and four theorems, the refinement of `Register` among them | — |
| `Language` | the checker for facts, groups, measures and figures; how a figure's hash is made | names are pairs, ladders have one rung, a tree is a function of its places; no prose |
| `Answers` | the checker for readings, projections, summaries and tiles; what the engine and the serving do with what was accepted; an edit of the source | values are samples |
| `Answers_proofs` | the shape of what is stored and the meaning told from a version; three theorems | — |
| `Windows` | span arithmetic | — |
| `MCLanguage` | three kinds, five groups, and what an author may write over them, the wrong with the right | — |

The modules compose by contract: each takes from the next what that one's
properties promise. `FactsDoor` and `Stream` see the pass through the contract `EnginePass` checks:
for `FactsDoor`, a pass files everything when it is full, when it saw a deletion or
when its groupings are not the built ones; its own batch when warm; and nothing
when cold. For `Stream`, a pass moves some answers of the library it captured, and
`Serving` says which. `Serving` assumes of versions what `Answers` checks
(`HashAssumption`), and its tables are those of `EnginePass`, whole passes at a
time. `Carry` is the one part of a pass that runs beside another writer.
`Register` is refined by `World`; `Answers` extends `Language` and `Windows`.

### EnginePass and the code

`fact`, `held`, `built`, `value`, `pointer` are the five tables; `lib` is
`State.world.library` and `plib` the one the pass captured; `day` is the clock
and `now` the pass's instant; `pc` is where the pass is, with `todo` and `left`
its loop variables and `touched` the marks `_apply` and `_recompute` share.

A pass starts at `PostFacts` (the batch commits, then the pass) or `PostRun`.
`Begin` reads stamps and pointers and picks the branch: full, cold or warm.
The retired groupings go (`DropIndex`). Warm: `ApplyIndex` files the written
records grouping by grouping and marks what they touched, `Recompute` follows
the marks through the figures, deepest parts first. Cold or full: `Reindex`
replaces each wanted grouping and stamps it. A full pass then removes rows of
subjects that have gone (`RemoveDeparted`), and recomputes (`Backfill`); a cold
one backfills the pending figures; a warm one sweeps the gaps when it came
through the facts door. `SetPointer` comes last. `Die` and the `...Dies` actions
end the pass between two statements or inside one that commits row by row.
`Teach` swaps the library and `NewDay` turns the clock, at any time.

`owed`, `sound` and `late` are history, read by properties alone: the records of
batches no finished pass has filed; whether the pass began over tables that are
what they claim (`Sound`); and whether one of its closing sweeps has moved
something that a row already computed reads (`Unheard`).

### FactsDoor and the code

`lock` is the `asyncio.Lock` with its FIFO waiters, `pc[r]` the `await` a request
has reached, `ask[r]` what it asked with the deploy it captured. `Land` is the
one transaction of `post_facts` (deletes, then guarded upserts), `Owe` the debt's
statement, `Compute` `facade.run`, `Settle` `clear_deferred`, `Record` the log's
insert and prune, `Reply` the push and the response. `Raise`, `PassRaises`,
`RemovalRaises` and `RecordFails` are exceptions at each of those; `Crash` the
process's death and boot. `filed` is the body each record's buckets were last
cut from: `filed[k] = body` is what it means for a record to be described.

### Stream and the code

`joined`, `tenantOf`, `firehose`, `entries` are the hub's `Client`s; `socket[c]`
is the `await` a client's coroutine has reached, `pass[t]` a pass's. A snapshot
(`watching`, `holders`) is taken in one step and its sends are steps of their
own, for that is where the code awaits; what runs without an await (a teach's
swap and its retiring; a frame's capture of the library and its first
registration when the lock is free; a publish's snapshot and its first frame) is
one step. A client takes a frame labelled with the board it watches. A client
that hangs up is dropped at once; the code drops it at the next failing send,
which nobody can tell from it.

### Serving and the code

`members`, `built`, `row`, `pointer` are the tables; `stamp` is what
`_serve_stamps` keeps among the pointers; `screen` the last frame of each watched
name; `report` a `RunReport` on its way out. `Answer(n)` is what asking for a
name gives (`serve_figure`, `serve_reading`, `answer_projection`,
`answer_bundle`), worked out from the tables whenever it is asked, so a screen can be
compared with it at any moment. `Run` is `Uratori.run`: the engine's pass
(`MembersAfter`, `RowsAfter`), then `Moved`, the set the facade works out from
the rows that moved and the stamps that differ, then `Settle`. `Deliver`
evaluates every moved name and pushes it. `EngineRaises` is a pass that raises with
some rows saved, in the order the engine takes the figures in; `DeliveryRaises`
one whose frames never leave. `excused` is history: names whose answer moved with
no pass to name them (below).

### Carry and the code

A pass is `Post` (the batch), `File`, `Recompute` bucket by bucket, `Extend`
(the call of `materialise` that ends a pass) and `Return`; it holds the tenant's
lock. A read is `Read`, without it. Both fill through `TakeRows` (the rows held),
`TakeKeys` (the bucket keys), and `Write`, one statement a row, in the order of
`materialise`: `save_if_absent` for a row the snapshot lacked, `save` for one it
held, `remove` for a retired one. `SequenceToPresent` is the widening loop and its
cap, `Governing` the bisection. `told` is what the change stream last said of
each coordinate.

### World, Register and the code

`db` is the `engine_world` row, `served` is `State.world`, `teach` its
`asyncio.Lock`. `Ask` is a request up to the lock, `Take` the work under it up to
`save_world`, `Refuse` every 4xx, `Save` and `SaveFails` the database's answer,
`Swap` the assignment and the response. `Load` is the editor's page, which
carries the text it was rendered from, and `Stands` the comparison its save makes.
`Boot` is `lifespan`, under any build.

`World` implements `Register` under this mapping (`Promise`): `value` is the served
world's schema and source, or the row's while the process is down; `limbo` is the
row's value where it differs from the served one; `started[x]` is a write past
its refusals, from the world it was worked out from. `Take` is `Start`, `Save` is
`Reach`, `Swap` is `Acknowledge`, `SaveFails` is `Fail`, `Crash` is `Restart`, and
everything else stutters. What the register adds to the code is the guard of `Acknowledge`:
the write takes hold on the very value it was worked out from. Nobody compares
the two; the lock, held over two awaits, is why it is so.

### Language, Answers, Windows and the code

A source is built declaration by declaration, and a declaration is added if the
operator that translates its check says it stands: `FactsStand`, `IndexStands`,
`MeasureStands`, `FigureStands`, `ReadingStands`, `ProjectionStands`,
`SummaryStands`, `BundleStands` for `_fact_decl` to `_bundle`, each made of the
helpers of `_Checker` by their names. `FigurePlan`, `ReadingPlan`, `ProjectPlan`
are the plans, `Version`, `CalcHash`, `IndexHash` what is hashed. The second half
of `Answers` is the engine's side: `Stored(f)` is the set of coordinates
`_scopes_of` gives a figure, over the records each identifier space has (`Ids`) and
the buckets there are (`Tails`), and `Found` is what `_readers` looks up; `Aborts` is
where `_scalar` raises. `Edit` starts another source over the first, and `published`
is the first one's plans, each with what it meant (`meaning`: the names it uses
looked through). An expression is what stands at each place of its tree, a place
being the branches that lead there, so the recursions of `_Checker` over a tree
(`CalcKinds`, `RowKind`) and over the sets of a figure (`SpacesOf`) are recursive
functions. `Windows` is `windows.py`: a specification, the gate, the reach
under a rule, `each`, and a request's list.

## Runs

| Run | Instance | Asks |
|---|---|---|
| `engine_roster` | libraries `Roster1`, `Roster2`, `Roster3`, `Split`, `Empty`; 2 people, 1 task; a batch that fills the tables, and one of each record by itself; 3 requests, 1 death, deploys that drop a filter, a figure, and bring them back | does a pass leave what a rebuild would, with filters, roll-ups, pairs, identity hops and an empty library? |
| `engine_weekly` | clipped weekly spans with a spread and a cross-scope total, with a figure derived from the spread (`WeeklyDerived`), and with a total over weeks that stay (`WeeklyKept`); 3 requests, 1 death, midnight | the same of time-keyed figures, and are the stamps honest? |
| `facts_door` | 1 record, 3 versions of it, 2 requests in flight of 3, every door, 1 fault, 3 deploys of which the third takes the figures back, a log of 1 | debts, stale writes, order of the log, order of the libraries, answers |
| `stream` | 1 client, 2 tenants, 2 definitions, 2 passes, 2 frames, 1 fault, a teach that removes a definition | freshness, order, whose board, ended entries, answers |
| `serving` | 2 kinds, 3 groupings, 11 declarations of every kind; one deploy that rewrites one of each, makes a reading live and drops a summary, and is taken back; 3 passes, 2 days, 1 raise | does every screen show what asking would answer, and is no screen woken for nothing? |
| `carry` | 1 subject, 2 records, 4 buckets, a cap of 3; 2 batches, 2 reads, one at a time | what do the rows say while a read and a pass materialise at once? |
| `world` | 2 authors, 2 schemas, 3 sources, 2 builds; 4 requests, 1 crash | is the teach a durable register? |
| `language` | 3 kinds, 5 groups, every figure over a figure of the instance, readings, projections, summaries and tiles over them; one edit | does what compiles run, and do versions tell? |

Each of these passes. Four more state what a document or comment says and the
code does not do; TLC finds each violated:

| Run | Says | Does |
|---|---|---|
| `engine_cold_writes` | "a scoped run must leave exactly the state a full run would" (docs/concepts.md) | a batch that lands while any pointer is behind is never filed: the cold branch does not read it |
| `serving_moved` | a report names "every name whose current answer this pass may have changed" (facade.py; docs/http-api.md) | not where a number stands and the answer around it moved |
| `carry_retired` | rows the anchors no longer justify are retired (docs/language.md) | not when the subject's only change is withdrawn |
| `language_aborts` | "the checker refuses a bare read of a dimensioned figure" (evaluate.py) | not one of a sequenced figure: the pass raises, and every pass after |

### What each property is about

`EnginePass`. *FullPassExact*: after a full pass the tables equal a rebuild from
nothing, whatever they were. *WarmPassExact*: the same of a warm pass that began
with sound tables, over figures of the shapes its marks follow (`Followed`), and
whose sweeps moved nothing that was read before them (`late`). *DefinitionPassExact*: the same of a cold pass without
writes. *GapsFilled*: no subject without a row after a sync. *PointerCertifies*:
a pointer moves only over rows a rebuild would leave. *StampHonest*: a grouping
that reads as current is current.

`FactsDoor`. *OwedOrFiled*: a record the tables do not describe has a debt.
*NextPassPays*: no pass is acknowledged with the debt standing. *NewestBodyHeld*:
the newest stamped body is the one held. *LogFaithful*: the log is the newest
passes, in order, with one over the cap for each prune that failed.
*DeployedStaysComputed*: once a pass has computed figures that every library
taught since asks for too, no pass with an older library puts them behind (the
editor's apart). *Answered*: every request is answered.

`Stream`. *FollowedIsFresh*: what a client follows has been painted and is no
older than the last delivered pass. *NeverGoesBack*: nor ever older than what it
showed. *EntriesKeepToBoard*: an entry never shows another tenant's answer.
*NoneSilentInTime*: every entry stands on a deployed definition, but for the
entries registered late (below). *SubscribersAnswered*: every subscription is.

`Serving`. *ScreensCurrent*: once a pass is delivered, every watched name shows
what asking for it would answer, but for `excused` ones. *TileFollowsMembers*: a
tile is named exactly when a member is, though three separate tests decide. *BulkAgrees*: the
bulk surface and the stream tell the same story, though two functions compute it.
*QuietPassIsSilent*: a pass after which nothing could have changed names nothing,
so the stamps do settle.

`Carry`. *RowsInForce*: one calculation with three triggers gives one answer:
every bucket from a subject's first change on holds what the last change before
it says, or nothing yet. *ReadFindsFilled*: a read that no pass overlapped finds
its range filled. *ReportsKeepUp*: what was reported of a coordinate no read filled is what it
holds, at every step. Each leaves out what a read that overlaps a pass can spoil (below).

`World`. *RestartsAlike*: a restart under the build that saved brings the served
world back, refusal and all, and a ready server stores nothing it could not boot
from. *EditorsReplaceWhatTheySaw*: a save replaces the text its author had in
front of them. *Durable*: the doors implement `Register`. *EveryoneAnswered*:
every request is.

`Language` and `Answers`. *ReadersMeet*: in a library the checker accepts, and
written as docs/language.md asks (`Disciplined`), every read a pass makes finds
exactly one number at every address, and every band its threshold.
*AnswersMeet*: and every window, row and tile finds what it shows. *VersionsTell*:
across an edit, equal versions mean equal computations, down to the groups and
figures underneath (of sources in which a figure over a sequence is one: below).

### Bounds, and why they are enough

- **Engine.** Three requests: one to make tables, one to spoil or move them, one
  to repair. One death: after it the next pass starts from arbitrary partial
  tables, and a second death leaves nothing a first cannot. Two people and one
  task: a record can move between subjects, leave, and have its subject leave.
  Two tails: a bucket can retire and another stand. Two days: one midnight.
- **FactsDoor.** Keys do not interact, so one will do. Two requests in flight
  give every overlap (a queue has a head and a waiter); the third comes after
  both. A log that keeps one is pruned by the second pass. Two deploys reorder; the
  third, which asks for the first one's figures again, is what tells a version from the
  library it was computed for (`pointedFor`, a history variable). A batch lands alike
  whether it defers or not, so only the newest snapshot and the delete are
  deferred, too.
- **Stream.** Clients share nothing but the lock's queue, where a pass already
  stands for any other; two tenants are what a switch needs; two definitions one
  removed and one kept; two passes of one tenant, or one of each.
- **Serving.** Three passes: one to compute, one to move or to raise, one to show
  what that left. A grouping that holds something or nothing is all an answer's
  availability tells apart; a row of 0..2 tells a moved number from one that stands.
  One deploy changes one of each kind (a filter's version, a goal's, a summary's,
  prose alone), makes a reading live, drops a summary, and is taken back.
- **Carry.** Subjects do not interact. Two records make a change and an earlier
  or later one; four buckets under a cap of three reach past the cap; one read
  overlaps a pass, or two passes, and another follows it. (Two reads that overlap each
  other write from the same rows and keys what either would have written: the pass is
  what changes the rows under them.) Two batches set a change and withdraw, re-date or
  overwrite it.
- **World.** Two authors conflict; four requests are a schema, a source, and two
  saves over them; a crash at any of their steps, and a boot by either build.
- **Language.** A figure over a figure is where the checker's refusals meet: what
  a deeper chain adds is again a figure over a figure. The declarations are the
  product of the features (scope, split, sequence, groups, every kind of read), the
  nonsensical with the sensible, so that the checker's refusals are what keeps
  the properties true. One edit, from one library to another.

Deadlock is not checked: requests, frames and passes are bounded, so every run
ends. That nothing is stuck before is *Answered* and *SubscribersAnswered*.

### Fairness

`EnginePass` assumes none: its properties are of safety. `FactsDoor` and `Stream` assume weak
fairness of each request's, each socket's and each pass's next step. The event
loop resumes every coroutine whose wait is over; the pool's `command_timeout`
bounds each statement, which then raises; a send that cannot be made raises, and
the hub takes it for the client's going. Nothing is assumed of clients, teaches
or faults. The lock needs no fairness: `asyncio.Lock` is first come, first served.
`World` assumes weak fairness of the same three things for each author: the grant
of a free lock (in whatever order: the queue's order is not modelled), the
database's answer, good or bad, and the swap. Nothing makes a process that died
boot, and no property needs it. `Serving`, `Carry` and `Answers` have safety
properties only.

## Proofs

Every safety property of the passing runs is proved. Each theorem is for every value of the constants its module's
assumptions admit: any libraries, batches, requests, clients, bounds. TLC evaluates
the assumptions on each run's instance.

### EnginePass

Theorems: `TypeCorrect` (`TypeOK`), `FullPassIsExact`, `DefinitionPassIsExact`,
`WarmPassIsExact`, `StampsAreHonest`, `GapsAreFilled` (invariants of those
names), and `PointersCertify`, of every step.

Assumptions: `LibraryAssumption` (what a batch and a library are: names are
unique, a figure's groupings and parts are the library's own, parts are declared before
and shallower than what reads them), `ShapeAssumption` (what docs/language.md
says of a figure without a grouping of its own: no filters, sources of its own
scope, no second dimension over a sequence), `CutAssumption` (a record is
bucketed by itself and by what it is resolved through) and `BucketAssumption` (a
sequenced figure's grouping cuts records into buckets of its subjects, never into
the bare subject: lang/check.py:1445-1510).

- *A full pass.* `FullPassExact` is not inductive: at the last step it says what
  a dozen earlier ones did. `Exact` says it as the pass goes. *Branches*: which
  flags go with which place in the pass. *Regrouped*: the groupings already
  replaced are the ones a rebuild cuts. *Swept*: the figures already swept have no
  departed rows. *Ordered*: what is left to compute is deeper than what is done, so
  parts come before totals. *Recalculated*: the figures already computed agree with
  their parts as stored. *Gapless*: those a sync has gone through lack no row.
  *Behind*: a cold pass rebuilds every figure whose pointer is behind. With every
  loop finished these give `Agreed`.
- *A definition pass* (`Defined`) begins over tables that are what they claim
  (*Grounded*), leaves right the groupings it does not rebuild (*Settled*), and
  the figures it does not recompute read nothing it rewrites (*Standing*): the
  pending figures are closed under what reads them, because a version hashes the
  versions it reads.
- *A warm pass* (`Warm`) is rule 4 of docs/concepts.md, and the longest proof
  here. While the pass is warm and began sound (*Warming*): a grouping files every
  record where it belongs, but for the written ones in a grouping that is still to
  be filed (*InPlace*), and the figures it does not recompute outright read none
  that it does, and no grouping it rebuilds (*Apart*, from `HealedReaders`: the
  healed figures are the least set closed under readers). Then, as long as every
  subject is there and no sweep has moved what was read (*Following*): each row it
  follows is the one a rebuild would give, or is marked and still to be
  recomputed, or reads a written record still to be marked (*Accounted*); no followed
  row outlives its bucket (*Lasting*); no row is missing where nothing landed
  (*Complete*); parts are recomputed before totals (*Sorted*); and what the closing
  loops have been through is right and stays so (*Righted*). The step that carries
  the weight is that a recompute which moves a row has marked every row that reads
  it, for each of the shapes `_reader_keys` tells apart.
- *Stamps* (`Honest`). Two hypotheses, both of them ways the code does break the
  promise: `Timeless`, no grouping is an age filter (one's buckets move with
  the instant and its stamp does not, engine.py:1405; the cuts of
  `engine_weekly` are timeless); and `GoesForward`, no deploy takes a grouping
  back (below).

### FactsDoor

Theorems: `DoorInvariant`, `DoorsExclude` (whoever is past the lock is its head),
`WhatIsBehindIsOwed` (`OwedOrFiled`), `DebtsArePaid` (`NextPassPays`),
`LineAndLogInvariant`, `LogKeepsTheNewest` (`LogFaithful`), `DeployedFiguresStand`
(`DeployedStaysComputed`), `NewestIsHeld` (`NewestBodyHeld`). Assumption: `DoorAssumption`.

- *The debt.* `Locked` (only the head of the queue is past the lock), `Handlers`
  (which functions have which domains), `Covered` (a record that is behind
  without a debt is being landed by the request inside), `Paid` (a full pass yet
  to settle has filed everything) and `Settled` (a pass past its settling has
  left no debt). `OwedOrFiled` alone does not survive `Settle`: clearing a debt
  keeps it only because the pass before it, by the same request, filed
  everything, which `Paid` remembers, and because nobody else could land in
  between, which is `Locked`.
- *The line* (`Ordered`): a request captures its library and joins the queue in one
  step, so, the editor's apart, nobody waits behind a later library than its own
  (*InOrder*), nor is anybody in line older than the library whose pass moved the
  pointers last (*PointedBehind*). The next pass is therefore for a library between
  that one and the deployed one. Nothing is assumed of the order of the versions: a
  deploy may bring back figures of an earlier one.
- *The log* (`Logs`): it lies at the end of the passes that were logged (`AtEnd`),
  is all of them while it is short of the cap, and is over the cap by no more than the
  faults there were.
- *The newest body* (`Newest`): the record holds the newest landed version, or one
  that says the same. Hypothesis: `NoBodyReturns`, a record never goes back to
  a body it has left (below).

### Stream

Theorems: `DeliveryInvariant`, `TypeCorrect` (`TypeOK`), `FollowersAreFresh`
(`FollowedIsFresh`), `FramesKeepOrder` (`NeverGoesBack`), `EntriesKeep`
(`EntriesKeepToBoard`), `NoneGoSilent` (`NoneSilentInTime`). Assumption:
`StreamAssumption` (libraries are sets of names, the bounds are numbers, a
client is not the pass).

- *Frame*: a coroutine stands in its own board's queue and no other, and is past the wait only
  as its head. *Delivery*, of each client: no screen is ahead of the tables
  (*NoneAhead*); what a first paint has still to send is what the tables give
  (*PaintsTables*: it fetched under the lock a pass would need); what it follows it
  shows, no older than the last delivered pass (*Fresh*); and of what a pass under way
  moved, it shows the new answer or a frame is on its way (*Published*, *Served*).
  `FollowedIsFresh` is *Fresh*; that a frame never takes a screen back is *NoneAhead*
  with the frames' own answers being the tables'.
- The entries need `GoneAreBlank` beside them: a client that hangs up shows nothing
  and is told nothing, or a connection that starts afresh would begin with what the
  last one showed. That frames change one address of one screen is `OneFrame`, cited
  for each of the five sends.

### Serving

Theorems: `TilesFollowMembers`, `BulkCarriesTheMoved` (`BulkAgrees`),
`QuietPassesAreSilent` (`QuietPassIsSilent`) and `ScreensAreCurrent`
(`ScreensCurrent`), with the invariants `ReportInvariant`, `QuietInvariant` and
`ShownInvariant` they are read from. Assumptions: `LibraryAssumption` (a name is
declared once, what is read is declared and computed before), `BoundsAssumption`,
`HashAssumption` (equal versions are equal declarations, which is *VersionsTell*)
and `KindAssumption` (no deploy gives a name to another kind of declaration).

- The first two hold of each report by itself: `_bundles_impacted`'s three tests are
  the three the members are named by (`MemberMoves`, `TileMoves`).
- *Quiet*: after a delivered pass the pointers, stamps and groupings are the
  library's (*Settled*), and a figure computed again over the same
  groupings gets the number it has.
- *Shown* says what a screen may show: what asking would answer, or something the
  report that waits names, or something a deploy left for the next pass to name
  (`Due`), or a name in `excused`. Each step needs that an answer stays where every
  part it is worked out from stays: the lemmas `FigureSame` to `TileSame`, one per kind
  of declaration, and `Still`, `DueStays`, `RunLeaves` for a day, a deploy and a pass.

### Carry

Theorems: `ReportsHold` (`ReportsKeepUp`), `CarryInvariant`, `CarriedIsInForce`
(`RowsInForce`), `ReadsFindFilled` (`ReadFindsFilled`). Assumption: `CarryAssumption`
(subjects and records are numbers, finitely many records; the calendar and the
cap are not empty).

- `ReportsKeepUp` is inductive with the types alone.
- The rest: *Turns* (a read that is under way while a pass is, is one it overlapped);
  *Ahead* (a row ahead of the clock is a change's, or a change left it there);
  *Own* and *Computed* (a change's own row is the recompute's: no filler a pass
  left alone writes there); *Snapshots* (a filler's view of a subject may differ from the
  rows only where they have come right, and it is to write only what is right,
  `Faithful`); *Settled* (once a pass has materialised, every bucket in reach is right or
  empty). What `materialise` writes is worked out once (`WantedRight`), from the span's
  closed form (`SequenceIs`) and what the bisection finds (`GoverningIs`).

### World

Theorems: `TypeCorrect` (`TypeOK`), `RestartsChangeNothing` (`RestartsAlike`),
`SavesReplaceWhatTheySaw` (`EditorsReplaceWhatTheySaw`) and `DoorsAreDurable`
(`Durable`: initial states map to initial states, every step to a step of
`Register` or a stutter). Assumption: `WorldAssumption` (facts beside declared
kinds never compile, and the source that declares nothing always does; `None` is
nothing else).

- The invariant: `Typed`; `Asked` (what a request brings is what its door takes);
  `Alone` (a request past the lock holds it and was worked out from the world
  still served: the lock's whole point, and what `Acknowledge` asks);
  `Written` (past `saved`, the row is the request's world; otherwise the row may
  be anyone's whose save failed); `AllRestorable` (the served world and the one
  being saved are what `Restored` makes of their documents, under this build: a
  boot makes them so, and so does each door); `StaysReady` (a ready
  server's row can be booted from, though saves may have failed into it).

### Language and Answers

Theorems: `ReadersAlwaysMeet` (`ReadersMeet`), `AnswersAlwaysMeet` (`AnswersMeet`),
`VersionsAlwaysTell` (`VersionsTell`). They are about sources of any length over any
declarations; the run's sources have two figures. Assumptions, all of what
an author or a host may write: `NameFieldsOfKinds` (a field of a name is of a kind), `FiguresWritten` (the sets of a figure are a
sequence, and an expression is made of the parser's forms), `IndexesWritten` (a
composite group is a sequence of at least one part), `SomeRecords` and `SomeTails`
(a kind has records and a calendar buckets; `None` is neither), `TrailingStands` (the
windows of a request that names none, 30, 14 and 7 days, fit the widest bucket).

- *The order of a source* (`Ordered`): what is declared at which stage, and every
  name once. So a figure is found by its name, and a later one leaves those before it
  as they were (`FigureKept`).
- *What the refusals come to.* `Grouping`: a figure with sets has one group, of one
  part or two. `OwnGrainGoverns`, `NoGroupGrains`: its sequence is its group's or
  that of what it reads, never two. `ReadStanding`, `BandStanding`: a read is of an
  earlier figure, of this scope and these parts. `MembersOfOneKind`: a set holds ids
  of one space.
- *Where a figure is stored* (`Shaped`): at its subjects, alone, or crossed with the
  whole of one dimension, or with the buckets. This is what `ReadersMeet` lacks to
  be inductive: that a read finds one number says nothing of where a later reader of
  the reader will look. `GroupedShape` gets it from a figure's group, `OverShape`
  from the shapes of what it reads, and `ReadMeets` and `FoundAlone` give the
  property from it, one case per kind of read. Each conjunct of `Disciplined` is
  something the checker does not ask and the proof does (below).
- *The answers above* (`AnswersStand`): what the checker has made sure of a reading, a
  row and a tile stays so because a source only grows; with `Shaped` it gives
  `AnswersMeet`, and `ReachesAnyRule` that a span which fits a quarter fits any bucket.
- *Versions* (`VersionsStand`). A version is not its meaning: it leaves out the
  sequence, the scales, and of what is read it has only versions. `Told` says that
  the meaning of a plan is nonetheless a function of its version and of what its
  sources mean: the sequence is read off the group that is hashed and the sequences of
  the sources (`GrainIsTold`), and the hash of a tree tells the tree, since a
  calculation has no scales (`HashTells`, `CompiledTrees`). `Cited` says whose versions
  are inside. A figure that is added then means what any published figure of its version
  does (`MeansAlike`), by the same of what they read: the induction goes along the
  source, one figure at a time.

### Only model-checked

- The liveness properties (*Answered*, *SubscribersAnswered*, *EveryoneAnswered*), which
  it does not reach: it has no rule for fairness over `ENABLED`.
- The four runs that expect a violation show a counterexample, and need no proof.

The library's induction theorems take an operator as a parameter, which no
installed prover instantiates. Where a proof needs induction it goes over a *set*:
`CountingUp` (a set of numbers that holds 0 and each successor is all of them) gives
the sum of a figure's parts and `Carry`'s widening loop, and `HealedReaders` takes
a least closed set for the recursion over figures.

## What the properties leave out, and why

Where a property names an exception, the exception is something the code does.
Each of these was found by TLC when the property was stated without it, or by a
proof that would not go through, and most were then executed against the code.

- *An empty batch repairs gaps only.* The comment at engine.py:258-262 speaks of
  what a crashed pass left half-written: missing rows are filled, stale ones are
  not. `WarmPassExact` starts from sound tables.
- *Midnight and a deploy in one pass.* The clipped grouping is rebuilt and
  stamped, the pending figures alone recompute, and the other figures over it
  keep yesterday's numbers (docs/language.md:606-608 says they recompute).
  `DefinitionPassExact` is stated of unclipped spans.
- *Pairs whose bucket emptied.* A full pass neither recomputes nor removes them,
  and roll-ups total them (docs/language.md:1066-1067 promises a real 0).
- *A record whose subject is not there* (`OwnersPresent`) is counted by a full pass
  and not by a warm one.
- *A warm pass is a different calculation* from a full one in eight shapes, though
  docs/concepts.md:238-239 says it must not be (rule 4). TLC or the proof found each, running the code confirmed
  them, and the next full pass repairs all but the last. Two are about order, and are what
  `late` leaves out of `WarmPassExact`:
  - The sweep that fills missing rows comes after the cascade (engine.py:258) and
    marks no reader: what reads a filled row keeps what it computed without it.
  - A warm pass that rebuilds a stale grouping heals before it sweeps
    (engine.py:218-226): a total over weeks that its own grouping keeps, of a figure
    whose week has just retired, counts the row about to go.

  Six are shapes the marks do not follow, and are what `Followed` leaves out:
  - a figure whose members are of its subjects' own kind takes a written member for the
    subject (engine.py:588-600), and the subject it is a member of is not marked;
  - a derived figure that reads a field of its subject is not marked for it
    (engine.py:583, no grouping to look in), and a derived sequenced figure keeps an empty
    row at a bucket its source retired;
  - a roster figure totalling a figure of another scope is recomputed at the
    writer's own subject (engine.py:746, 773);
  - a total within one scope is recomputed only in the bucket that moved;
  - a spread over a grouping where several records share a bucket divides anew when one
    of them moves, and the others' buckets keep the old share;
  - a figure split `across` that reads another figure is given a row without its
    dimension, which survives even a full pass.
- *A filter dropped by one deploy and brought back by the next* is retired, rebuilt and
  stamped by a cold pass, and a figure that stood throughout is not computed over
  it: `Sound` names it, and `DefinitionPassExact` begins sound.
- *A deploy taken back after a death.* A pass that dies between `replace_index`
  and `set_index_stamp` leaves new buckets under the old stamp, and the old library reads
  them as current. `StampHonest` is checked without it, and `StampsAreHonest` assumes it away
  by name (`GoesForward`).
- *A library that declares nothing* returns before it retires anything
  (engine.py:83); what lands meanwhile is not filed.
- *A body that comes back.* A write with an unchanged body does not advance the
  stamp (postgres.py:645), so a snapshot read between two landings of one body
  is admitted over it (docs/http-api.md:364-366). In `facts_door` no body recurs, and
  `NewestIsHeld` assumes `NoBodyReturns`.
- *Orphans.* A batch that landed and whose request died before its pass or its
  debt, a pass that ran cold over it, and a removal that died part way leave
  records nothing owes: `OwedOrFiled` says so.
- *The editor's pass* captures its library before it waits for the database, and
  may run an older one last: `DeployedStaysComputed` exempts it.
- *Figures taught away and back.* The figures of the first library are computed, a
  second is taught that changes them, a request captures it and queues, and a
  third teach brings the first one's figures back. They read as computed already, and
  the queued pass then moves the pointers to the second library's: the deployed
  figures are behind until the next pass. `DeployedStaysComputed` and
  `DeployedFiguresStand` speak of figures that every library taught since they were
  computed asks for; the run's third deploy takes figures back, so it reaches this case.
- *Late entries.* A subscribe frame captures the library before its tenant's lock,
  and a teach retires entries without it (app.py:664): the entry is registered
  for a definition that is gone (docs/http-api.md:1030-1033), until the next teach.
- *A client that switches while a publish sends* gets the rest of the one board's
  answers labelled with the other (hub.py:111; docs/http-api.md:1047-1049).
  Entries are not affected, and *EntriesKeepToBoard* is about them.
- *Answers that move with no pass to name them* (`excused`; `serving_moved`). Five
  are the moved set's: the first or last record of what a figure reads, when its
  number stands; a library taken back before any pass; a threshold on a record; a
  tile with a member that becomes a live reading, which can no longer be served and
  is no longer looked at; and a deploy that drops the summary a projection is
  answered with, or brings it back. Two are nobody's: the clock, and what a
  pass that raised had moved.
- *A read that overlaps a pass* may write a carried row over a change: `spoiled`,
  until that bucket is recomputed. A bucket a read fills is reported by no pass: `filled`.
  A change that leaves a bucket the clock has not reached keeps an empty row there:
  `stranded`.
- *What the checker accepts and `Disciplined` does not*: a roll-up of a figure of
  another scope, `across` over a group of one part, an unbucketed figure over a
  sequence (`language_aborts`), arithmetic over a list or a word (of
  which the table of parts has none: engine.py:1172-1201). And a roll-up beside a
  sequence, which the proof would not let through: `sum(site.split) /
  site.monthly:{bucket}`, bucketed, is accepted, and executed it answers 0 in every
  month and leaves rows at the values of the split besides. A projection
  that is `scoped by` a group is accepted in a tile, where no scope is ever given
  and the whole population is served. A live reading's band may compare with a
  goal of another unit.
- *A threshold's scale.* Two definitions that differ in the unit of a threshold
  read off the record share a version (check.py:4055-4059; evaluate.py:712-718
  multiplies by it), so *VersionsTell* compares words under one scale. In a
  calculation a scale is parsed (parse.py:1294-1303) and then dropped: it says nothing.
- *`bucketed` is in no version*: check.py:4332-4344 says it mirrors the group's spec,
  which is hashed, and docs/language.md:1024-1032 that nothing rebuilds. That holds of a
  figure with a group (`GrainIsTold` proves it), and not of one over figures:
  where `x:{bucket}` is all it reads, adding or removing `bucketed` makes a sequence of
  a single number, or the reverse, under the same version. Executed: the months are
  never computed and the old row stays. `Sequenced`, the hypothesis of *VersionsTell*,
  is that a figure over a sequence is itself one.

## Not modelled

- *Engine*: labels and covered sets; the suppression of equal rewrites; the
  upgrade of stamps written before 0.7 (engine.py:110-123). Set expressions are a
  grouping's scope under filters. `MCCut` and `MCCalc` stand for `buckets_of` and
  `_eval_body`.
- *FactsDoor*: what verification refuses; several tenants, which share nothing.
- *Stream*: windows of entries, pings, frames that do not parse, a world without
  a library, names whose answers travel only by name (a summary's go inside its
  projection's). What a pass moved and did not deliver, because it raised, is not
  promised: `heard` counts delivered passes.
- *Serving*: pages and filters of one request; the text of a refusal.
- *Carry*: a carried figure that reads another's days; the calendar of a bucket.
- *World*: what a swap does to passes and subscriptions that are under way, which
  is in `FactsDoor`, `EnginePass` and `Stream`.
- *Language*: lexing and the grammar, a function of one text; ladders of several
  rungs; the suggestion of near names; display clauses, which no version hashes
  and no pass reads.
- *Verification* (`verify.py`) refuses a batch before any state changes, and each
  refusal is one condition with one test. *Working* (`engine/working.py`) repeats
  an evaluation for a reader and writes nothing. *Rendering* (`results.py`, most of
  `server/ui.py`) is text.

## Plan

All the modules of the plan are written, and every safety property is proved. What
is left, in this order:

1. `FactsDoor`, `Stream`: the safety half of the liveness properties, that no queue
   stands with nobody past it and none at its head to grant.
2. `Windows`: what a span reaches and where its ceilings bind, for every span.
3. `EnginePass`: `WarmPassIsExact` over more shapes (a derived sequence, a total
   within a scope), as far as the code's marks reach.
4. `World`: that the editor's page and the two doors admit one winner of any race.
