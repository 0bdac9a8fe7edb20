------------------------------- MODULE World -------------------------------
(***************************************************************************)
(* The deployment's world: the schema, the definitions' source, and the    *)
(* library the one compiles to under the other.                            *)
(*                                                                         *)
(* Three doors teach it: PUT /schema, PUT /definitions and the editor's    *)
(* save.  Each holds the teach lock from reading the served world, through *)
(* the await of the database, to swapping it.  The process may die between *)
(* any two steps, a save may fail with or without having reached the       *)
(* disc, and the build that boots may compile another language than the    *)
(* build that saved.  What a source compiles to is abstract: Accepted says *)
(* which sources compile under which build and schema.                     *)
(***************************************************************************)
EXTENDS Integers, FiniteSets

CONSTANTS
  Authors,   \* clients, each with a request at a time and a page it may edit
  Schemas, Sources, Builds,
  Empty,     \* the source that declares nothing
  Declares,  \* the schemas that declare kinds
  Teaches,   \* the sources that declare facts
  Accepted,  \* the <<build, source, schema>> that compile
  Strip,     \* a schema without its kinds, name fields and url fields
  MaxAsks, MaxCrashes,  \* bounds: requests, deaths
  None

Docs == [schema : Schemas, source : Sources \union {None}]
Libraries == [source : Sources, schema : Schemas \union {None}]
Worlds == [schema : Schemas, source : Sources \union {None},
           library : Libraries \union {None}, refusal : BOOLEAN]

\* Facts beside declared kinds never compile; the source that declares nothing does.
ASSUME WorldAssumption ==
  /\ Empty \in Sources \ Teaches /\ Declares \subseteq Schemas
  /\ Strip \in [Schemas -> Schemas \ Declares]
  /\ Accepted \subseteq Builds \X Sources \X Schemas
  /\ \A a \in Accepted : ~(a[2] \in Teaches /\ a[3] \in Declares)
  /\ \A b \in Builds, s \in Schemas : <<b, Empty, s>> \in Accepted
  /\ None \notin Schemas \union Sources \union Authors
  /\ None \notin Docs \union Libraries \union Worlds
  /\ MaxAsks \in Nat /\ MaxCrashes \in Nat
  /\ None \notin [from : Docs \union {None}, to : Docs]

VARIABLES
  db,      \* the engine_world row, or None
  served,  \* the world in memory, or None
  up,      \* the process runs
  build,   \* the build it runs
  teach,   \* who holds the teach lock
  req,     \* each author's request
  loaded,  \* the text each author's page was loaded with
  asks, crashes

vars == <<db, served, up, build, teach, req, loaded, asks, crashes>>

Idle == [pc |-> "idle", door |-> None, body |-> None, held |-> None, next |-> None]

Doc(w) == IF w = None THEN None ELSE [schema |-> w.schema, source |-> w.source]

TypeOK ==
  /\ db \in Docs \union {None} /\ served \in Worlds \union {None}
  /\ up \in BOOLEAN /\ build \in Builds
  /\ loaded \in [Authors -> Sources \union {None}]
  /\ asks \in 0..MaxAsks /\ crashes \in 0..MaxCrashes
  /\ \A x \in Authors :
       /\ req[x].pc \in {"idle", "waiting", "saving", "saved"}
       /\ req[x].pc \in {"saving", "saved"} => req[x].next \in Worlds
       /\ req[x].pc \in {"saving", "saved"} <=> teach = x

-----------------------------------------------------------------------------
(* Compiling.                                                              *)

Accepts(b, source, schema) == <<b, source, schema>> \in Accepted

\* The source that declares nothing compiles to the same library everywhere.
Library(source, schema) ==
  [source |-> source, schema |-> IF source = Empty THEN None ELSE schema]

World(schema, source, library, refusal) ==
  [schema |-> schema, source |-> source, library |-> library, refusal |-> refusal]

\* A source that brings its own facts retires the schema's kinds in one compile.
Adopted(source, schema) ==
  IF source \in Teaches /\ schema \in Declares THEN Strip[schema] ELSE schema

\* What the schema door makes of the held world: the held source compiled under
\* the new schema, refused where that breaks a library that works, allowed where
\* none did.  With no source, or the one that declares nothing, the library stays.
UnderSchema(w, schema) ==
  LET source == IF w = None THEN None ELSE w.source
      library == IF w = None THEN None ELSE w.library
  IN IF source \in {None, Empty} THEN {World(schema, source, library, FALSE)}
     ELSE IF Accepts(build, source, schema)
          THEN {World(schema, source, Library(source, schema), FALSE)}
          ELSE {World(schema, source, None, TRUE) : v \in {library} \intersect {None}}

\* What the definitions' doors make of it.
UnderSource(w, source) ==
  LET schema == Adopted(source, w.schema)
  IN IF Accepts(build, source, schema)
     THEN {World(schema, source, Library(source, schema), FALSE)} ELSE {}

\* A mutant of Restored: a source that is empty counts as none.
RestoredTruthy(b, d) ==
  IF d = None THEN None
  ELSE IF d.source \in {None, Empty} THEN World(d.schema, d.source, None, FALSE)
  ELSE IF Accepts(b, d.source, d.schema)
       THEN World(d.schema, d.source, Library(d.source, d.schema), FALSE)
       ELSE World(d.schema, d.source, None, TRUE)

\* What a boot makes of the stored row; a source this build refuses is kept, and
\* the server comes up unready, saying so.
Restored(b, d) ==
  IF d = None THEN None
  ELSE IF d.source = None THEN World(d.schema, None, None, FALSE)
  ELSE IF Accepts(b, d.source, d.schema)
       THEN World(d.schema, d.source, Library(d.source, d.schema), FALSE)
       ELSE World(d.schema, d.source, None, TRUE)

Text(w) == IF w.source = None THEN Empty ELSE w.source

-----------------------------------------------------------------------------

\* A mutant of LockFree: the doors do not wait for each other.
LockIgnored == TRUE

LockFree == teach = None

\* A mutant of Reply: a request that fails keeps the lock.
ReplyHolding(x) == req' = [req EXCEPT ![x] = Idle] /\ teach' = teach

\* The author has an answer, and the lock is free.
Reply(x) == req' = [req EXCEPT ![x] = Idle] /\ teach' = None

\* The definitions' door looks for a schema before it queues; the others after.
Ask(x, door, body) ==
  /\ up /\ req[x].pc = "idle" /\ asks < MaxAsks
  /\ door = "definitions" => served # None
  /\ door = "editor" => loaded[x] # None
  /\ req' = [req EXCEPT ![x] = [Idle EXCEPT !.pc = "waiting", !.door = door, !.body = body]]
  /\ asks' = asks + 1
  /\ UNCHANGED <<db, served, up, build, teach, loaded, crashes>>

\* A page of the editor is loaded; it outlives the process.
Load(x) ==
  /\ up /\ served # None /\ req[x].pc = "idle"
  /\ loaded' = [loaded EXCEPT ![x] = Text(served)]
  /\ UNCHANGED <<db, served, up, build, teach, req, asks, crashes>>

\* A mutant of Stands: a save is taken whatever has been taught since.
StandsAlways(x) == TRUE

\* A save names the text it edited, and is refused where that text has moved.
Stands(x) == loaded[x] = Text(served)

\* What the request would make of the world; nothing where it is refused.
Prepared(x) ==
  IF req[x].door = "schema" THEN UnderSchema(served, req[x].body)
  ELSE {w \in UnderSource(served, req[x].body) :
          req[x].door = "editor" => served # None /\ Stands(x)}

Take(x) ==
  /\ req[x].pc = "waiting" /\ LockFree
  /\ \E w \in Prepared(x) :
       /\ req' = [req EXCEPT ![x].pc = "saving", ![x].held = Doc(served), ![x].next = w]
       /\ teach' = x
  /\ UNCHANGED <<db, served, up, build, loaded, asks, crashes>>

Refuse(x) ==
  /\ req[x].pc = "waiting" /\ LockFree /\ Prepared(x) = {}
  /\ Reply(x)
  /\ UNCHANGED <<db, served, up, build, loaded, asks, crashes>>

Save(x) ==
  /\ req[x].pc = "saving"
  /\ db' = Doc(req[x].next)
  /\ req' = [req EXCEPT ![x].pc = "saved"]
  /\ UNCHANGED <<served, up, build, teach, loaded, asks, crashes>>

\* The database raises, with or without having written.
SaveFails(x) ==
  /\ req[x].pc = "saving"
  /\ db' \in {db, Doc(req[x].next)}
  /\ Reply(x)
  /\ UNCHANGED <<served, up, build, loaded, asks, crashes>>

\* The world in memory is swapped, and the author is answered.
Swap(x) ==
  /\ req[x].pc = "saved"
  /\ served' = req[x].next
  /\ Reply(x)
  /\ UNCHANGED <<db, up, build, loaded, asks, crashes>>

Crash ==
  /\ up /\ crashes < MaxCrashes /\ crashes' = crashes + 1
  /\ up' = FALSE /\ served' = None /\ teach' = None
  /\ req' = [x \in Authors |-> Idle]
  /\ UNCHANGED <<db, build, loaded, asks>>

\* The container that comes up, of whatever build, restores the stored world.
Boot ==
  /\ ~up /\ up' = TRUE
  /\ build' \in Builds
  /\ served' = Restored(build', db)
  /\ UNCHANGED <<db, teach, req, loaded, asks, crashes>>

Bodies(door) == IF door = "schema" THEN Schemas ELSE Sources

Init ==
  /\ db = None /\ served = None /\ up = TRUE /\ build \in Builds
  /\ teach = None /\ req = [x \in Authors |-> Idle] /\ loaded = [x \in Authors |-> None]
  /\ asks = 0 /\ crashes = 0

Next ==
  \/ \E x \in Authors :
       \/ \E door \in {"schema", "definitions", "editor"} :
            \E body \in Bodies(door) : Ask(x, door, body)
       \/ Load(x) \/ Take(x) \/ Refuse(x) \/ Save(x) \/ SaveFails(x) \/ Swap(x)
  \/ Crash \/ Boot

\* A queued request is granted the lock, and the database answers, one way or the
\* other; clients owe nothing, and nothing restarts the process.
Fairness ==
  \A x \in Authors :
    /\ WF_vars(Take(x) \/ Refuse(x))
    /\ WF_vars(Save(x) \/ SaveFails(x))
    /\ WF_vars(Swap(x))

Spec == Init /\ [][Next]_vars /\ Fairness

-----------------------------------------------------------------------------

\* A restart under the same build changes nothing: the stored row, where it is
\* the one served, restores to exactly the served world, ready or not, refusal
\* and all; and a server that is ready never stores what it could not boot from.
RestartsAlike ==
  up =>
    /\ db = Doc(served) => served = Restored(build, db)
    /\ served # None /\ served.library # None => Restored(build, db).library # None

\* An editor's save that takes hold replaces the very text its author had before
\* them, whatever was taught, lost or restarted since the page was loaded.
EditorsReplaceWhatTheySaw ==
  [][\A x \in Authors :
       req[x].pc = "saved" /\ req[x].door = "editor" /\ served' # served /\ up' =>
         loaded[x] = Text(served)]_vars

\* The doors together are one durable register of schema and source: while the
\* process is down, its value is what the row holds.
Promise == INSTANCE Register WITH
  Worlds <- Docs,
  value <- IF up THEN Doc(served) ELSE db,
  limbo <- IF up THEN {db} \ {Doc(served)} ELSE {},
  started <- [x \in Authors |->
                IF req[x].pc \in {"saving", "saved"}
                THEN [from |-> req[x].held, to |-> Doc(req[x].next)] ELSE None]

Durable == Promise!Spec

\* Every request is answered, unless the process dies first.
EveryoneAnswered ==
  \A x \in Authors : req[x].pc # "idle" ~> req[x].pc = "idle"

=============================================================================
