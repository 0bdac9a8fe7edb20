---------------------------- MODULE World_proofs ----------------------------
(***************************************************************************)
(* Proofs about World, for every set of authors, schemas, sources and      *)
(* builds, every relation of what compiles, and every bound: the doors     *)
(* implement Register, restarts change nothing, and an editor's save       *)
(* replaces the text its author saw.                                       *)
(***************************************************************************)
EXTENDS World, TLAPS

Doors == {"schema", "definitions", "editor"}

Asks == [pc : {"idle", "waiting", "saving", "saved"}, door : Doors \union {None},
         body : Schemas \union Sources \union {None},
         held : Docs \union {None}, next : Worlds \union {None}]

Typed ==
  /\ db \in Docs \union {None} /\ served \in Worlds \union {None}
  /\ up \in BOOLEAN /\ build \in Builds
  /\ req \in [Authors -> Asks]
  /\ loaded \in [Authors -> Sources \union {None}]
  /\ asks \in Nat /\ asks <= MaxAsks /\ crashes \in Nat /\ crashes <= MaxCrashes

\* A request names a body of its door's kind, and waits on a process that runs.
Asked ==
  \A x \in Authors : req[x].pc # "idle" =>
    /\ up /\ req[x].door \in Doors /\ req[x].body \in Bodies(req[x].door)
    /\ req[x].door = "definitions" => served # None

\* Past the lock a request is alone, and what it saw is what is served.
Inside(x) == req[x].pc \in {"saving", "saved"}

Alone ==
  \A x \in Authors :
    /\ Inside(x) <=> teach = x
    /\ Inside(x) => req[x].held = Doc(served) /\ req[x].next \in Worlds
    /\ Inside(x) /\ req[x].door = "editor" => served # None /\ loaded[x] = Text(served)

\* Between the save and the swap the row is the world about to be served.
Written == \A x \in Authors : req[x].pc = "saved" => db = Doc(req[x].next)

\* A world in memory, or about to be, is what its own document restores to.
Restorable(w) == w # None => w = Restored(build, Doc(w))

AllRestorable ==
  /\ Restorable(served)
  /\ \A x \in Authors : Inside(x) => Restorable(req[x].next)

Ready(w) == w # None /\ w.library # None

\* A server that is ready stores nothing it could not boot from.
StaysReady ==
  up /\ Ready(served) =>
    /\ Ready(Restored(build, db))
    /\ \A x \in Authors : Inside(x) => Ready(req[x].next)

Inv == Typed /\ Asked /\ Alone /\ Written /\ AllRestorable /\ StaysReady

-----------------------------------------------------------------------------
(* Compiling and restoring.                                                *)

LEMMA LibraryIsTyped ==
  ASSUME NEW source \in Sources, NEW schema \in Schemas
  PROVE  Library(source, schema) \in Libraries /\ Library(source, schema) # None
BY WorldAssumption DEF Library, Libraries

LEMMA WorldIsTyped ==
  ASSUME NEW schema \in Schemas, NEW source \in Sources \union {None},
         NEW library \in Libraries \union {None}, NEW refusal \in BOOLEAN
  PROVE  /\ World(schema, source, library, refusal) \in Worlds
         /\ World(schema, source, library, refusal) # None
         /\ Doc(World(schema, source, library, refusal)) = [schema |-> schema, source |-> source]
BY WorldAssumption DEF World, Worlds, Doc

LEMMA DocIsTyped ==
  ASSUME NEW w \in Worlds
  PROVE  Doc(w) \in Docs /\ Doc(w) # None
BY WorldAssumption DEF Doc, Docs, Worlds

\* Whatever is restored is typed, restores to itself, and keeps the document.
LEMMA RestoredIsTyped ==
  ASSUME NEW b \in Builds, NEW d \in Docs \union {None}
  PROVE  /\ Restored(b, d) \in Worlds \union {None}
         /\ Doc(Restored(b, d)) = d
<1>1. CASE d = None
  BY <1>1 DEF Restored, Doc
<1>2. CASE d # None
  <2>1. d \in Docs /\ d.schema \in Schemas /\ d.source \in Sources \union {None}
    BY <1>2 DEF Docs
  <2>2. d = [schema |-> d.schema, source |-> d.source]
    BY <2>1 DEF Docs
  <2>3. None \in Libraries \union {None} /\ TRUE \in BOOLEAN /\ FALSE \in BOOLEAN
    OBVIOUS
  <2>4. CASE d.source = None
    <3>1. Restored(b, d) = World(d.schema, None, None, FALSE)
      BY <1>2, <2>4 DEF Restored
    <3> QED
      BY <2>1, <2>2, <2>4, <3>1, WorldIsTyped
  <2>5. CASE d.source # None
    <3>1. d.source \in Sources
      BY <2>1, <2>5
    <3>2. Restored(b, d) \in {World(d.schema, d.source, Library(d.source, d.schema), FALSE),
                              World(d.schema, d.source, None, TRUE)}
      BY <1>2, <2>5 DEF Restored
    <3> QED
      BY <2>1, <2>2, <3>1, <3>2, WorldIsTyped, LibraryIsTyped
  <2> QED
    BY <2>4, <2>5
<1> QED
  BY <1>1, <1>2

LEMMA RestoredOf ==
  ASSUME NEW b, NEW schema \in Schemas, NEW source \in Sources \union {None}
  PROVE  LET d == [schema |-> schema, source |-> source] IN
         /\ source = None => Restored(b, d) = World(schema, None, None, FALSE)
         /\ source # None /\ Accepts(b, source, schema) =>
              Restored(b, d) = World(schema, source, Library(source, schema), FALSE)
         /\ source # None /\ ~Accepts(b, source, schema) =>
              Restored(b, d) = World(schema, source, None, TRUE)
<1> DEFINE d == [schema |-> schema, source |-> source]
<1>1. d \in Docs /\ d # None /\ d.schema = schema /\ d.source = source
  BY WorldAssumption DEF Docs
<1> HIDE DEF d
<1>2. /\ source = None => Restored(b, d) = World(schema, None, None, FALSE)
      /\ source # None /\ Accepts(b, source, schema) =>
           Restored(b, d) = World(schema, source, Library(source, schema), FALSE)
      /\ source # None /\ ~Accepts(b, source, schema) =>
           Restored(b, d) = World(schema, source, None, TRUE)
  BY <1>1 DEF Restored
<1> QED
  BY <1>2 DEF d

LEMMA RestoredOfNone ==
  ASSUME NEW b, NEW schema \in Schemas
  PROVE  Restored(b, [schema |-> schema, source |-> None]) = World(schema, None, None, FALSE)
<1>1. LET d == [schema |-> schema, source |-> None]
      IN  d # None /\ d.schema = schema /\ d.source = None
  BY WorldAssumption DEF Docs
<1> QED
  BY <1>1 DEF Restored

\* A source compiles to a world that restores to itself, and is ready.
LEMMA CompiledRestores ==
  ASSUME NEW schema \in Schemas, NEW source \in Sources, build \in Builds,
         Accepts(build, source, schema)
  PROVE  LET w == World(schema, source, Library(source, schema), FALSE)
         IN  w \in Worlds /\ Restorable(w) /\ Ready(w)
<1> DEFINE w == World(schema, source, Library(source, schema), FALSE)
<1>1. w \in Worlds /\ w # None /\ Doc(w) = [schema |-> schema, source |-> source]
  BY WorldIsTyped, LibraryIsTyped
<1>2. source # None
  BY WorldAssumption
<1>3. Restored(build, Doc(w)) = w
  BY <1>1, <1>2, RestoredOf
<1>4. w.library # None
  BY LibraryIsTyped DEF World
<1> QED
  BY <1>1, <1>3, <1>4 DEF Restorable, Ready

\* The definitions' doors prepare worlds that restore to themselves, ready.
LEMMA UnderSourceRestores ==
  ASSUME NEW w, NEW source \in Sources, w.schema \in Schemas, build \in Builds,
         NEW v \in UnderSource(w, source)
  PROVE  v \in Worlds /\ Restorable(v) /\ Ready(v)
<1>1. Adopted(source, w.schema) \in Schemas
  BY WorldAssumption DEF Adopted
<1>2. /\ Accepts(build, source, Adopted(source, w.schema))
      /\ v = World(Adopted(source, w.schema), source,
                   Library(source, Adopted(source, w.schema)), FALSE)
  BY DEF UnderSource
<1> QED
  BY <1>1, <1>2, CompiledRestores

\* The schema door's too; what it refuses to lose it keeps: a server that is
\* ready prepares only worlds that are.
LEMMA UnderSchemaRestores ==
  ASSUME NEW w \in Worlds \union {None}, Restorable(w), build \in Builds,
         NEW schema \in Schemas, NEW v \in UnderSchema(w, schema)
  PROVE  v \in Worlds /\ Restorable(v) /\ (Ready(w) => Ready(v))
<1> DEFINE source == IF w = None THEN None ELSE w.source
           library == IF w = None THEN None ELSE w.library
<1>1. source \in Sources \union {None} /\ library \in Libraries \union {None}
  BY DEF Worlds
<1>2. CASE source \in {None, Empty}
  <2>1. v = World(schema, source, library, FALSE)
    BY <1>2 DEF UnderSchema
  <2>2. v \in Worlds /\ v # None /\ Doc(v) = [schema |-> schema, source |-> source]
    BY <1>1, <2>1, WorldIsTyped
  <2>3. v.library = library
    BY <2>1 DEF World
  <2>4. Ready(w) => Ready(v)
    BY <2>2, <2>3 DEF Ready
  <2>5. CASE source = None
    <3>1. library = None
      <4>1. CASE w = None
        BY <4>1
      <4>2. CASE w # None
        <5>1. w \in Worlds /\ w.schema \in Schemas /\ w.source = None
          BY <2>5, <4>2 DEF Worlds
        <5>2. Doc(w) = [schema |-> w.schema, source |-> None]
          BY <4>2, <5>1 DEF Doc
        <5>3. Restored(build, Doc(w)) = World(w.schema, None, None, FALSE)
          BY <5>1, <5>2, RestoredOfNone
        <5>4. w.library = None
          BY <4>2, <5>3 DEF Restorable, World
        <5> QED
          BY <4>2, <5>4
      <4> QED
        BY <4>1, <4>2
    <3>2. Restored(build, Doc(v)) = World(schema, None, None, FALSE)
      BY <1>1, <2>2, <2>5, RestoredOf
    <3> QED
      BY <2>1, <2>2, <2>4, <2>5, <3>1, <3>2 DEF Restorable
  <2>6. CASE source = Empty
    <3>1. library = Library(Empty, schema)
      <4>1. w # None /\ w \in Worlds /\ w.source = Empty /\ w.schema \in Schemas
        BY <2>6, WorldAssumption DEF Worlds
      <4>2. Doc(w) = [schema |-> w.schema, source |-> Empty] /\ Empty \in Sources /\ Empty # None
        BY <4>1, WorldAssumption DEF Doc
      <4>3. Accepts(build, Empty, w.schema)
        BY <4>1, WorldAssumption DEF Accepts
      <4>4. w = World(w.schema, Empty, Library(Empty, w.schema), FALSE)
        BY <4>1, <4>2, <4>3, RestoredOf DEF Restorable
      <4> QED
        BY <4>1, <4>4 DEF World, Library
    <3> QED
      BY <2>1, <2>4, <2>6, <3>1, CompiledRestores, WorldAssumption DEF Accepts
  <2> QED
    BY <1>2, <2>5, <2>6
<1>3. CASE source \notin {None, Empty} /\ Accepts(build, source, schema)
  <2>1. v = World(schema, source, Library(source, schema), FALSE)
    BY <1>3 DEF UnderSchema
  <2> QED
    BY <1>1, <1>3, <2>1, CompiledRestores
<1>4. CASE source \notin {None, Empty} /\ ~Accepts(build, source, schema)
  <2>1. v = World(schema, source, None, TRUE) /\ library = None
    BY <1>4 DEF UnderSchema
  <2>2. v \in Worlds /\ v # None /\ Doc(v) = [schema |-> schema, source |-> source]
    BY <1>1, <2>1, WorldIsTyped
  <2>3. ~Ready(w)
    BY <2>1 DEF Ready
  <2>4. Restored(build, Doc(v)) = v
    BY <1>1, <1>4, <2>1, <2>2, RestoredOf
  <2> QED
    BY <2>2, <2>3, <2>4 DEF Restorable
<1> QED
  BY <1>2, <1>3, <1>4

-----------------------------------------------------------------------------
(* What a request past the lock prepared.                                  *)

LEMMA PreparedRestores ==
  ASSUME Inv, NEW x \in Authors, req[x].pc = "waiting", NEW v \in Prepared(x)
  PROVE  v \in Worlds /\ Restorable(v) /\ (Ready(served) => Ready(v))
<1>1. CASE req[x].door = "schema"
  <2>1. req[x].body \in Schemas /\ v \in UnderSchema(served, req[x].body)
    BY <1>1 DEF Inv, Asked, Prepared, Bodies
  <2> QED
    BY <2>1, UnderSchemaRestores DEF Inv, Typed, AllRestorable
<1>2. CASE req[x].door # "schema"
  <2>1. req[x].body \in Sources /\ v \in UnderSource(served, req[x].body)
    BY <1>2 DEF Inv, Asked, Prepared, Bodies, Doors
  <2>2. served # None
    BY <1>2 DEF Inv, Asked, Doors, Prepared
  <2>3. served.schema \in Schemas
    BY <2>2 DEF Inv, Typed, Worlds
  <2> QED
    BY <2>1, <2>3, UnderSourceRestores DEF Inv, Typed
<1> QED
  BY <1>1, <1>2

-----------------------------------------------------------------------------
(* The invariant is inductive.                                             *)

LEMMA InitInv == Init => Inv
<1> SUFFICES ASSUME Init PROVE Inv
  OBVIOUS
<1>1. \A x \in Authors : req[x] = Idle
  BY DEF Init
<1>2. \A x \in Authors : req[x].pc = "idle" /\ ~Inside(x) /\ teach # x
  BY <1>1, WorldAssumption DEF Idle, Inside, Init
<1>3. Idle \in Asks
  BY DEF Idle, Asks
<1>4. Typed
  BY <1>3, WorldAssumption DEF Init, Typed
<1>5. Asked /\ Alone /\ Written
  BY <1>2 DEF Asked, Alone, Written
<1>6. AllRestorable /\ StaysReady
  BY <1>2 DEF Init, AllRestorable, StaysReady, Restorable, Ready
<1> QED
  BY <1>4, <1>5, <1>6 DEF Inv

\* One author's request changes, and no other's.
LEMMA ReqMoves ==
  ASSUME Typed, NEW x \in Authors, NEW r \in Asks, req' = [req EXCEPT ![x] = r]
  PROVE  /\ req' \in [Authors -> Asks] /\ req'[x] = r
         /\ \A y \in Authors \ {x} : req'[y] = req[y]
BY DEF Typed

LEMMA IdleIsTyped == Idle \in Asks /\ Idle.pc = "idle"
BY DEF Idle, Asks

LEMMA AskKeeps ==
  ASSUME Inv, NEW x \in Authors, NEW door \in Doors, NEW body \in Bodies(door),
         Ask(x, door, body)
  PROVE  Inv'
<1> DEFINE r == [Idle EXCEPT !.pc = "waiting", !.door = door, !.body = body]
<1>1. r \in Asks /\ r.pc = "waiting" /\ r.door = door /\ r.body = body
  BY DEF Idle, Asks, Doors, Bodies
<1>2. /\ req' \in [Authors -> Asks] /\ req'[x] = r
      /\ \A y \in Authors \ {x} : req'[y] = req[y]
  <2> HIDE DEF r
  <2>1. req' = [req EXCEPT ![x] = r]
    BY DEF Ask, r
  <2> QED
    BY <1>1, <2>1, ReqMoves DEF Inv
<1> HIDE DEF r
<1>3. ~Inside(x) /\ ~Inside(x)' /\ \A y \in Authors \ {x} : Inside(y)' <=> Inside(y)
  BY <1>1, <1>2 DEF Ask, Inside
<1>4. Typed'
  BY <1>2, WorldAssumption DEF Ask, Inv, Typed
<1>5. Asked'
  BY <1>1, <1>2 DEF Ask, Inv, Asked
<1>6. Alone' /\ Written'
  BY <1>1, <1>2, <1>3 DEF Ask, Inv, Alone, Written
<1>7. \A y \in Authors : Inside(y)' => Inside(y) /\ req'[y].next = req[y].next
  BY <1>2, <1>3
<1>8. AllRestorable'
  BY <1>7 DEF Ask, Inv, AllRestorable, Restorable
<1>9. StaysReady'
  BY <1>7 DEF Ask, Inv, StaysReady, Ready
<1> QED
  BY <1>4, <1>5, <1>6, <1>8, <1>9 DEF Inv

LEMMA LoadKeeps ==
  ASSUME Inv, NEW x \in Authors, Load(x)
  PROVE  Inv'
<1>1. Text(served) \in Sources
  BY WorldAssumption DEF Load, Text, Inv, Typed, Worlds
<1>2. Typed'
  BY <1>1 DEF Load, Inv, Typed
<1>3. ~Inside(x) /\ \A y \in Authors \ {x} : loaded'[y] = loaded[y]
  BY DEF Load, Inside, Inv, Typed
<1>4. \A y \in Authors : Inside(y)' <=> Inside(y)
  BY DEF Load, Inside
<1>5. Alone'
  BY <1>3, <1>4 DEF Load, Inv, Alone
<1>6. Asked' /\ Written' /\ AllRestorable' /\ StaysReady'
  BY <1>4 DEF Load, Inv, Asked, Written, AllRestorable, StaysReady, Restorable, Ready
<1> QED
  BY <1>2, <1>5, <1>6 DEF Inv

LEMMA TakeKeeps ==
  ASSUME Inv, NEW x \in Authors, Take(x)
  PROVE  Inv'
<1>1. PICK w \in Prepared(x) :
        /\ req' = [req EXCEPT ![x].pc = "saving", ![x].held = Doc(served), ![x].next = w]
        /\ teach' = x
  BY DEF Take
<1>2. w \in Worlds /\ Restorable(w) /\ (Ready(served) => Ready(w))
  BY PreparedRestores DEF Take
<1>3. Doc(served) \in Docs \union {None}
  BY DocIsTyped DEF Inv, Typed, Doc
<1> DEFINE r == [req[x] EXCEPT !.pc = "saving", !.held = Doc(served), !.next = w]
<1>4. /\ r \in Asks /\ r.pc = "saving" /\ r.held = Doc(served) /\ r.next = w
      /\ r.door = req[x].door /\ r.body = req[x].body
  BY <1>2, <1>3 DEF Inv, Typed, Asks
<1>5. /\ req' \in [Authors -> Asks] /\ req'[x] = r
      /\ \A y \in Authors \ {x} : req'[y] = req[y]
  <2>1. req' = [req EXCEPT ![x] = r]
    BY <1>1 DEF Inv, Typed, Asks
  <2> HIDE DEF r
  <2> QED
    BY <1>4, <2>1, ReqMoves DEF Inv
<1> HIDE DEF r
<1>6. \A y \in Authors : ~Inside(y)
  BY WorldAssumption DEF Take, LockFree, Inv, Alone
<1>7. Inside(x)' /\ \A y \in Authors \ {x} : ~Inside(y)'
  BY <1>4, <1>5, <1>6 DEF Inside
<1>8. req[x].door = "editor" => served # None /\ loaded[x] = Text(served)
  BY DEF Prepared, Stands
<1>9. Typed'
  BY <1>5 DEF Take, Inv, Typed
<1>10. Asked'
  BY <1>4, <1>5 DEF Take, Inv, Asked
<1>11. Alone' /\ Written'
  BY <1>1, <1>2, <1>4, <1>5, <1>7, <1>8, ZenonT(40) DEF Take, Alone, Written, Inside
<1>12. AllRestorable'
  BY <1>2, <1>4, <1>5, <1>7 DEF Take, Inv, AllRestorable, Restorable
<1>13. StaysReady'
  BY <1>2, <1>4, <1>5, <1>7 DEF Take, Inv, StaysReady, Ready
<1> QED
  BY <1>9, <1>10, <1>11, <1>12, <1>13 DEF Inv

\* Whoever is answered is idle, and everyone else was waiting or idle.
LEMMA Replied ==
  ASSUME Inv, NEW x \in Authors, Reply(x), LockFree \/ Inside(x)
  PROVE  /\ req' \in [Authors -> Asks] /\ req'[x] = Idle /\ teach' = None
         /\ \A y \in Authors \ {x} : req'[y] = req[y]
         /\ \A y \in Authors : ~Inside(y)' /\ teach' # y
<1>1. /\ req' \in [Authors -> Asks] /\ req'[x] = Idle
      /\ \A y \in Authors \ {x} : req'[y] = req[y]
  BY IdleIsTyped, ReqMoves DEF Reply, Inv
<1>2. \A y \in Authors \ {x} : ~Inside(y)
  BY WorldAssumption DEF LockFree, Inv, Alone
<1>3. \A y \in Authors : ~Inside(y)'
  BY <1>1, <1>2, IdleIsTyped DEF Inside
<1> QED
  BY <1>1, <1>3, WorldAssumption DEF Reply

\* What a reply keeps whatever else its step does.
LEMMA RepliedKeeps ==
  ASSUME Inv, NEW x \in Authors, Reply(x), LockFree \/ Inside(x),
         UNCHANGED <<up, build, loaded, asks, crashes>>,
         db' \in Docs \union {None}, served' \in Worlds \union {None},
         served # None => served' # None, Restorable(served)',
         up /\ Ready(served') => Ready(Restored(build, db'))
  PROVE  Inv'
<1>1. Typed'
  BY Replied DEF Inv, Typed
<1>2. Asked'
  BY Replied, IdleIsTyped DEF Inv, Asked
<1>3. Alone' /\ Written'
  BY Replied DEF Alone, Written, Inside
<1>4. AllRestorable' /\ StaysReady'
  BY Replied DEF AllRestorable, StaysReady
<1> QED
  BY <1>1, <1>2, <1>3, <1>4 DEF Inv

LEMMA RefuseKeeps ==
  ASSUME Inv, NEW x \in Authors, Refuse(x)
  PROVE  Inv'
<1>1. Restorable(served)'
  BY DEF Refuse, Inv, AllRestorable, Restorable
<1>2. up /\ Ready(served') => Ready(Restored(build, db'))
  BY DEF Refuse, Inv, StaysReady, Ready
<1> QED
  BY <1>1, <1>2, RepliedKeeps DEF Refuse, Inv, Typed

LEMMA SaveFailsKeeps ==
  ASSUME Inv, NEW x \in Authors, SaveFails(x)
  PROVE  Inv'
<1>1. Inside(x) /\ req[x].next \in Worlds /\ Restorable(req[x].next)
  BY DEF SaveFails, Inside, Inv, Alone, AllRestorable
<1>2. db' \in Docs \union {None}
  BY <1>1, DocIsTyped DEF SaveFails, Inv, Typed
<1>3. Restorable(served)'
  BY DEF SaveFails, Inv, AllRestorable, Restorable
<1>4. up /\ Ready(served) => Ready(Restored(build, db))
  BY DEF Inv, StaysReady
<1>5. up /\ Ready(served) => Ready(Restored(build, Doc(req[x].next)))
  BY <1>1 DEF Inv, StaysReady, Restorable, Ready
<1>6. up /\ Ready(served') => Ready(Restored(build, db'))
  BY <1>4, <1>5 DEF SaveFails
<1> QED
  BY <1>1, <1>2, <1>3, <1>6, RepliedKeeps DEF SaveFails, Inv, Typed

LEMMA SwapKeeps ==
  ASSUME Inv, NEW x \in Authors, Swap(x)
  PROVE  Inv'
<1>1. Inside(x) /\ req[x].next \in Worlds /\ Restorable(req[x].next) /\ db = Doc(req[x].next)
  BY DEF Swap, Inside, Inv, Alone, AllRestorable, Written
<1>2. served' \in Worlds /\ served' # None
  BY <1>1, WorldAssumption DEF Swap
<1>3. Restorable(served)'
  BY <1>1 DEF Swap, Restorable
<1>4. up /\ Ready(served') => Ready(Restored(build, db'))
  BY <1>1 DEF Swap, Restorable, Ready
<1> QED
  BY <1>1, <1>2, <1>3, <1>4, RepliedKeeps DEF Swap, Inv, Typed

LEMMA SaveKeeps ==
  ASSUME Inv, NEW x \in Authors, Save(x)
  PROVE  Inv'
<1> DEFINE r == [req[x] EXCEPT !.pc = "saved"]
<1>1. /\ Inside(x) /\ req[x].next \in Worlds /\ Restorable(req[x].next)
      /\ \A y \in Authors \ {x} : ~Inside(y)
  BY DEF Save, Inside, Inv, Alone, AllRestorable
<1>2. /\ r \in Asks /\ r.pc = "saved" /\ r.held = req[x].held /\ r.next = req[x].next
      /\ r.door = req[x].door /\ r.body = req[x].body
  BY DEF Inv, Typed, Asks
<1>3. /\ req' \in [Authors -> Asks] /\ req'[x] = r
      /\ \A y \in Authors \ {x} : req'[y] = req[y]
  <2>1. req' = [req EXCEPT ![x] = r]
    BY DEF Save, Inv, Typed, Asks
  <2> HIDE DEF r
  <2> QED
    BY <1>2, <2>1, ReqMoves DEF Inv
<1> HIDE DEF r
<1>4. Inside(x)' /\ \A y \in Authors \ {x} : ~Inside(y)'
  BY <1>1, <1>2, <1>3 DEF Inside
<1>5. Typed'
  BY <1>1, <1>3, DocIsTyped DEF Save, Inv, Typed
<1>6. Asked'
  BY <1>2, <1>3 DEF Save, Inv, Asked
<1>7. Alone'
  BY <1>1, <1>2, <1>3, <1>4 DEF Save, Inv, Alone
<1>8. Written'
  BY <1>2, <1>3, <1>4 DEF Save, Written, Inside
<1>9. AllRestorable'
  BY <1>1, <1>2, <1>3, <1>4 DEF Save, Inv, AllRestorable, Restorable
<1>10. StaysReady'
  BY <1>1, <1>2, <1>3, <1>4 DEF Save, Inv, StaysReady, Restorable, Ready
<1> QED
  BY <1>5, <1>6, <1>7, <1>8, <1>9, <1>10 DEF Inv

LEMMA CrashKeeps == ASSUME Inv, Crash PROVE Inv'
<1>1. \A y \in Authors : req'[y] = Idle
  BY DEF Crash
<1>2. \A y \in Authors : req'[y].pc = "idle" /\ ~Inside(y)' /\ teach' # y
  BY <1>1, IdleIsTyped, WorldAssumption DEF Crash, Inside
<1>3. Typed'
  <2>1. req' \in [Authors -> Asks]
    BY IdleIsTyped DEF Crash
  <2>2. crashes' \in Nat /\ crashes' <= MaxCrashes
    BY WorldAssumption DEF Crash, Inv, Typed
  <2> QED
    BY <2>1, <2>2 DEF Crash, Inv, Typed
<1>4. Asked' /\ Alone' /\ Written'
  BY <1>2 DEF Asked, Alone, Written
<1>5. AllRestorable' /\ StaysReady'
  BY <1>2 DEF Crash, AllRestorable, StaysReady, Restorable
<1> QED
  BY <1>3, <1>4, <1>5 DEF Inv

LEMMA BootKeeps == ASSUME Inv, Boot PROVE Inv'
<1>1. \A y \in Authors : req[y].pc = "idle" /\ ~Inside(y) /\ ~Inside(y)'
  BY DEF Boot, Inside, Inv, Asked
<1>2. build' \in Builds /\ db \in Docs \union {None}
  BY DEF Boot, Inv, Typed
<1>3. served' \in Worlds \union {None} /\ Doc(served') = db
  BY <1>2, RestoredIsTyped DEF Boot
<1>4. Typed'
  BY <1>2, <1>3 DEF Boot, Inv, Typed
<1>5. Asked' /\ Alone' /\ Written'
  BY <1>1 DEF Boot, Inv, Asked, Alone, Written, Inside
<1>6. AllRestorable' /\ StaysReady'
  BY <1>1, <1>3 DEF Boot, AllRestorable, StaysReady, Restorable
<1> QED
  BY <1>4, <1>5, <1>6 DEF Inv

LEMMA NextKeeps == Inv /\ [Next]_vars => Inv'
<1> SUFFICES ASSUME Inv, [Next]_vars PROVE Inv'
  OBVIOUS
<1>1. CASE UNCHANGED vars
  BY <1>1 DEF vars, Inv, Typed, Asked, Alone, Written, AllRestorable, StaysReady,
              Restorable, Ready, Inside
<1>2. CASE Next
  BY <1>2, AskKeeps, LoadKeeps, TakeKeeps, RefuseKeeps, SaveKeeps, SaveFailsKeeps, SwapKeeps,
     CrashKeeps, BootKeeps DEF Next, Doors
<1> QED
  BY <1>1, <1>2

LEMMA Invariant == Spec => []Inv
BY InitInv, NextKeeps, PTL DEF Spec

-----------------------------------------------------------------------------
(* What it says.                                                           *)

\* Every reachable state is well typed, and the lock is its holder's alone.
THEOREM TypeCorrect == Spec => []TypeOK
<1>1. Inv => TypeOK
  <2> SUFFICES ASSUME Inv PROVE TypeOK
    OBVIOUS
  <2>1. \A x \in Authors : req[x].pc \in {"idle", "waiting", "saving", "saved"}
    BY DEF Inv, Typed, Asks
  <2>2. asks \in 0..MaxAsks /\ crashes \in 0..MaxCrashes
    BY WorldAssumption DEF Inv, Typed
  <2> QED
    BY <2>1, <2>2 DEF Inv, Typed, Alone, Inside, TypeOK
<1> QED
  BY <1>1, Invariant, PTL

\* A restart under the same build changes nothing (serve's restore in app.py, against
\* the three doors that save): the row served restores to exactly the served world,
\* and a server that is ready never stores what it could not boot from.
THEOREM RestartsChangeNothing == Spec => []RestartsAlike
<1>1. Inv => RestartsAlike
  <2> SUFFICES ASSUME Inv, up PROVE RestartsAlike
    BY DEF RestartsAlike
  <2>1. ASSUME db = Doc(served) PROVE served = Restored(build, db)
    <3>1. CASE served = None
      BY <2>1, <3>1 DEF Doc, Restored
    <3>2. CASE served # None
      BY <2>1, <3>2 DEF Inv, AllRestorable, Restorable
    <3> QED
      BY <3>1, <3>2
  <2>2. Ready(served) => Restored(build, db).library # None
    BY DEF Inv, StaysReady, Ready
  <2> QED
    BY <2>1, <2>2 DEF RestartsAlike, Ready
<1> QED
  BY <1>1, Invariant, PTL

\* An editor's save that takes hold (ui.py's save, its guard and its swap) replaces
\* the very text its author was shown, whatever was taught or restarted meanwhile.
THEOREM SavesReplaceWhatTheySaw == Spec => EditorsReplaceWhatTheySaw
<1> DEFINE Kept == \A x \in Authors :
              req[x].pc = "saved" /\ req[x].door = "editor" /\ served' # served /\ up' =>
                loaded[x] = Text(served)
<1>1. Inv => Kept
  BY DEF Inv, Alone, Inside
<1>2. Inv => [Kept]_vars
  BY <1>1
<1> QED
  BY <1>2, Invariant, PTL DEF EditorsReplaceWhatTheySaw

-----------------------------------------------------------------------------
(* The doors implement the register.                                       *)

\* The register's state, as the mapping of Promise gives it.
Value == IF up THEN Doc(served) ELSE db
Limbo == IF up THEN {db} \ {Doc(served)} ELSE {}
Started == [x \in Authors |->
              IF req[x].pc \in {"saving", "saved"}
              THEN [from |-> req[x].held, to |-> Doc(req[x].next)] ELSE None]

\* A step that moves nothing the register has.
LEMMA StutterImplements ==
  ASSUME Value' = Value, Limbo' = Limbo, Started' = Started
  PROVE  UNCHANGED Promise!vars
BY DEF Promise!vars, Value, Limbo, Started

\* A request moved that is not past the lock, before or after.
LEMMA OutsideImplements ==
  ASSUME UNCHANGED <<up, db, served>>,
         \A x \in Authors : (~Inside(x) /\ ~Inside(x)') \/ req'[x] = req[x]
  PROVE  UNCHANGED Promise!vars
<1>1. Started' = Started
  BY DEF Started, Inside
<1>2. Value' = Value /\ Limbo' = Limbo
  BY DEF Value, Limbo
<1> QED
  BY <1>1, <1>2, StutterImplements

LEMMA InitImplements == Init => Promise!Init
<1> SUFFICES ASSUME Init PROVE Promise!Init
  OBVIOUS
<1>1. \A x \in Authors : req[x].pc = "idle"
  BY IdleIsTyped DEF Init
<1>2. up /\ Doc(served) = None /\ db = None
  BY DEF Init, Doc
<1> QED
  BY <1>1, <1>2 DEF Promise!Init

LEMMA AskImplements ==
  ASSUME Inv, NEW x \in Authors, NEW door \in Doors, NEW body \in Bodies(door),
         Ask(x, door, body)
  PROVE  UNCHANGED Promise!vars
<1>1. \A y \in Authors \ {x} : req'[y] = req[y]
  BY DEF Ask, Inv, Typed
<1>2. req[x].pc = "idle" /\ req'[x].pc = "waiting"
  BY DEF Ask, Inv, Typed, Idle
<1>3. ~Inside(x) /\ ~Inside(x)'
  BY <1>2 DEF Inside
<1> QED
  BY <1>1, <1>3, OutsideImplements DEF Ask

LEMMA RefuseImplements ==
  ASSUME Inv, NEW x \in Authors, Refuse(x)
  PROVE  UNCHANGED Promise!vars
<1>1. ~Inside(x) /\ ~Inside(x)' /\ \A y \in Authors \ {x} : req'[y] = req[y]
  BY Replied DEF Refuse, Inside
<1> QED
  BY <1>1, OutsideImplements DEF Refuse

LEMMA TakeImplements ==
  ASSUME Inv, NEW x \in Authors, Take(x)
  PROVE  Promise!Next
<1>1. PICK w \in Prepared(x) :
        req' = [req EXCEPT ![x].pc = "saving", ![x].held = Doc(served), ![x].next = w]
  BY DEF Take
<1>2. Doc(w) \in Docs
  BY PreparedRestores, DocIsTyped DEF Take
<1>3. req'[x].pc = "saving" /\ req'[x].held = Doc(served) /\ req'[x].next = w
  BY <1>1 DEF Inv, Typed, Asks
<1>4. \A y \in Authors \ {x} : req'[y] = req[y]
  BY <1>1 DEF Inv, Typed
<1>5. Started[x] = None
  BY DEF Take, Started
<1>6. Started' = [Started EXCEPT ![x] = [from |-> Value, to |-> Doc(w)]]
  BY <1>3, <1>4 DEF Started, Value, Take, Inv, Asked
<1>7. Value' = Value /\ Limbo' = Limbo
  BY DEF Take, Value, Limbo
<1>8. Promise!Start(x)
  BY <1>2, <1>5, <1>6, <1>7 DEF Promise!Start, Started, Value, Limbo
<1> QED
  BY <1>8 DEF Promise!Next

\* Past the lock the register's write is the request's, from what is served.
LEMMA StartedInside ==
  ASSUME Inv, NEW x \in Authors, Inside(x)
  PROVE  /\ up /\ Value = Doc(served) /\ Limbo = {db} \ {Doc(served)} /\ Started[x] # None
         /\ Started[x].from = Doc(served) /\ Started[x].to = Doc(req[x].next)
<1>1. /\ Doc(req[x].next) \in Docs /\ Doc(served) \in Docs \union {None} /\ up
      /\ req[x].held = Doc(served)
  BY DocIsTyped DEF Inv, Typed, Asked, Alone, Inside, Doc
<1>2. Started[x] = [from |-> Doc(served), to |-> Doc(req[x].next)]
  BY <1>1 DEF Started, Inside
<1>3. [from |-> Doc(served), to |-> Doc(req[x].next)] # None
  BY <1>1, WorldAssumption
<1> QED
  BY <1>1, <1>2, <1>3 DEF Value, Limbo

LEMMA SaveImplements ==
  ASSUME Inv, NEW x \in Authors, Save(x)
  PROVE  Promise!Next
<1>1. Inside(x)
  BY DEF Save, Inside
<1>2. Started' = Started
  <2>1. \A y \in Authors \ {x} : req'[y] = req[y]
    BY DEF Save, Inv, Typed
  <2>2. req'[x].pc = "saved" /\ req'[x].held = req[x].held /\ req'[x].next = req[x].next
    BY DEF Save, Inv, Typed, Asks
  <2> QED
    BY <2>1, <2>2 DEF Save, Started
<1>3. Value' = Value /\ Limbo' = {Started[x].to} \ {Value}
  <2>1. up' /\ served' = served /\ db' = Doc(req[x].next)
    BY <1>1, StartedInside DEF Save
  <2>2. Value' = Doc(served) /\ Limbo' = {Doc(req[x].next)} \ {Doc(served)}
    BY <2>1 DEF Value, Limbo
  <2> QED
    BY <1>1, <2>2, StartedInside
<1>4. Promise!Reach(x)
  BY <1>1, <1>2, <1>3, StartedInside DEF Promise!Reach, Started, Value, Limbo
<1> QED
  BY <1>4 DEF Promise!Next

\* A reply ends the register's write.
LEMMA StartedEnds ==
  ASSUME Inv, NEW x \in Authors, Reply(x), Inside(x)
  PROVE  Started' = [Started EXCEPT ![x] = None]
<1>1. \A y \in Authors \ {x} : ~Inside(y)
  BY DEF Inv, Alone
<1>2. \A y \in Authors : Started'[y] = None
  BY Replied DEF Started, Inside
<1>3. \A y \in Authors \ {x} : Started[y] = None
  BY <1>1 DEF Started, Inside
<1> QED
  BY <1>2, <1>3 DEF Started

LEMMA SaveFailsImplements ==
  ASSUME Inv, NEW x \in Authors, SaveFails(x)
  PROVE  Promise!Next
<1>1. Inside(x)
  BY DEF SaveFails, Inside
<1>2. Started' = [Started EXCEPT ![x] = None]
  BY <1>1, StartedEnds DEF SaveFails
<1>3. Value' = Value /\ Limbo' \in {Limbo, {Started[x].to} \ {Value}}
  <2>1. up' /\ served' = served /\ db' \in {db, Doc(req[x].next)}
    BY <1>1, StartedInside DEF SaveFails
  <2>2. /\ Value' = Doc(served)
        /\ Limbo' \in {{db} \ {Doc(served)}, {Doc(req[x].next)} \ {Doc(served)}}
    BY <2>1 DEF Value, Limbo
  <2> QED
    BY <1>1, <2>2, StartedInside
<1>4. Promise!Fail(x)
  BY <1>1, <1>2, <1>3, StartedInside DEF Promise!Fail, Started, Value, Limbo
<1> QED
  BY <1>4 DEF Promise!Next

LEMMA SwapImplements ==
  ASSUME Inv, NEW x \in Authors, Swap(x)
  PROVE  Promise!Next
<1>1. Inside(x) /\ db = Doc(req[x].next)
  BY DEF Swap, Inside, Inv, Written
<1>2. Started' = [Started EXCEPT ![x] = None]
  BY <1>1, StartedEnds DEF Swap
<1>3. /\ Started[x].from = Value /\ Limbo \subseteq {Started[x].to}
      /\ Value' = Started[x].to /\ Limbo' = {}
  <2>1. up' /\ served' = req[x].next /\ db' = Doc(req[x].next)
    BY <1>1, StartedInside DEF Swap
  <2>2. Value' = Doc(req[x].next) /\ Limbo' = {}
    BY <2>1 DEF Value, Limbo
  <2> QED
    BY <1>1, <2>2, StartedInside
<1>4. Promise!Acknowledge(x)
  BY <1>1, <1>2, <1>3, StartedInside DEF Promise!Acknowledge, Started, Value, Limbo
<1> QED
  BY <1>4 DEF Promise!Next

LEMMA CrashImplements == ASSUME Inv, Crash PROVE Promise!Next
<1>1. Started' = [x \in Authors |-> None]
  BY IdleIsTyped DEF Crash, Started
<1>2. /\ Value' \in {Value} \union Limbo /\ Limbo' = {}
      /\ Limbo = {} => Value' = Value
  BY DEF Crash, Value, Limbo
<1>3. Promise!Restart
  BY <1>1, <1>2 DEF Promise!Restart, Started, Value, Limbo
<1> QED
  BY <1>3 DEF Promise!Next

LEMMA BootImplements == ASSUME Inv, Boot PROVE UNCHANGED Promise!vars
<1>1. Doc(served') = db
  BY RestoredIsTyped DEF Boot, Inv, Typed
<1>2. Value' = Value /\ Limbo' = Limbo
  BY <1>1 DEF Boot, Value, Limbo
<1>3. Started' = Started
  BY DEF Boot, Started
<1> QED
  BY <1>2, <1>3, StutterImplements

LEMMA NextImplements == Inv /\ [Next]_vars => [Promise!Next]_Promise!vars
<1> SUFFICES ASSUME Inv, [Next]_vars PROVE [Promise!Next]_Promise!vars
  OBVIOUS
<1>1. CASE UNCHANGED vars
  <2>1. Value' = Value /\ Limbo' = Limbo /\ Started' = Started
    BY <1>1 DEF vars, Value, Limbo, Started
  <2> QED
    BY <2>1, StutterImplements
<1>2. ASSUME NEW x \in Authors, Load(x) PROVE UNCHANGED Promise!vars
  BY <1>2, OutsideImplements DEF Load
<1>3. CASE Next
  BY <1>2, <1>3, AskImplements, RefuseImplements, TakeImplements, SaveImplements,
     SaveFailsImplements, SwapImplements, CrashImplements, BootImplements DEF Next, Doors
<1> QED
  BY <1>1, <1>3

\* The doors that teach (put_schema, put_definitions, the editor's save, and the boot
\* that restores) are together one durable register: nothing acknowledged is lost by
\* a restart, no write takes hold on a world it was not worked out from, and one that
\* failed comes back only with a restart, unless another overtook it.
THEOREM DoorsAreDurable == Spec => Durable
<1>1. Init => Promise!Init
  BY InitImplements
<1>2. Inv /\ [Next]_vars => [Promise!Next]_Promise!vars
  BY NextImplements
<1> QED
  BY <1>1, <1>2, Invariant, PTL DEF Spec, Durable, Promise!Spec

=============================================================================
