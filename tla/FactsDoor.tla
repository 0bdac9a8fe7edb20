----------------------------- MODULE FactsDoor ------------------------------
(***************************************************************************)
(* One tenant behind the service's doors: POST /facts, POST /runs, the     *)
(* editor's own pass, and DELETE /tenants (uratori/server/app.py, ui.py,   *)
(* db.py).  Requests overlap; the tenant's asyncio lock, granted in the    *)
(* order it was asked for, lets one through at a time.  The one inside     *)
(* commits its batch, leaves an import debt or runs the pass, settles the  *)
(* debt, logs, and answers: statements of their own, between any two of    *)
(* which it may raise or the process may die.                              *)
(*                                                                         *)
(* The pass itself is EnginePass.  What counts of it here is the body each *)
(* record was last filed under, and the definitions it ran for.            *)
(***************************************************************************)
EXTENDS Naturals, Sequences, SequencesExt, FiniteSets

CONSTANTS
  Keys,         \* record keys
  Requests,     \* the requests that may be in flight together
  BodyOf,       \* the provider's record at each of its versions: a sequence
  FiguresOf,    \* the version of the figures each teach deploys: a sequence
  GroupingsOf,  \* and of the groupings
  Asks,         \* what a client may ask
  RunKeep,      \* runs kept in the log
  MaxRequests,  \* bound on the requests
  MaxFaults,    \* bound on raises, crashes and failed log writes
  None          \* no record, no stamp, no version

Versions == DOMAIN BodyOf
Bodies == {BodyOf[v] : v \in Versions}
Deploys == DOMAIN FiguresOf

\* A batch writes some keys at the version its snapshot saw, stamped with it or
\* not, and deletes others.
Batches == {a.batch : a \in Asks}

ASSUME DoorAssumption ==
  /\ BodyOf \in Seq(Bodies) /\ None \notin Bodies /\ None \notin Nat
  /\ None \notin [body : Bodies, stamp : Versions \union {None}]
  /\ FiguresOf \in Seq(Nat) /\ Len(FiguresOf) >= 1 /\ DOMAIN GroupingsOf = Deploys
  /\ RunKeep \in Nat \ {0} /\ MaxRequests \in Nat /\ MaxFaults \in Nat
  /\ \A a \in Asks : a.door \in {"facts", "run", "editor", "removal"}
  /\ \A b \in Batches : b.deletes \subseteq Keys /\ DOMAIN b.writes \subseteq Keys
                        /\ \A k \in DOMAIN b.writes : b.writes[k] \in Versions

VARIABLES
  fact,      \* fact: key -> body and source_stamp, or None
  filed,     \* the body each record's buckets were last cut from
  pointed,   \* the figures the pointers name, or None
  stamped,   \* the groupings the buckets were built under, or None
  owing,     \* import_debt: whether the tenant has a row
  log,       \* run_log
  deploy,    \* the teach whose library the world holds
  lock,      \* who holds the tenant's lock and who waits for it, in order
  pc,        \* where each request is
  ask,       \* what it asked, and the deploy it captured
  moved,     \* the keys its batch moved
  pointedFor,  \* history: the deploy whose pass last moved the pointers, or 0
  newest,    \* history: the newest stamped version landed, None if spoiled
  orphans,   \* history: records whose landing no finished pass filed
  runs,      \* history: every pass, and whether it was logged
  arrived,   \* history: how many requests have come
  faults     \* history: how many faults have happened

tenant == <<fact, filed, pointed, stamped, owing, log>>
handlers == <<lock, pc, ask, moved>>
history == <<pointedFor, newest, orphans, runs, arrived, faults>>
vars == <<tenant, deploy, handlers, history>>

Idle == [door |-> "none"]

Places == {"free", "checking", "queued", "landed", "computed", "ran", "recorded"}
Inner == {"landed", "computed", "ran", "recorded"}

\* Whoever is past the lock is the one it was granted to.
OneInside == \A r \in Requests : pc[r] \in Inner => lock # <<>> /\ Head(lock) = r

-----------------------------------------------------------------------------
(* Asking.                                                                 *)

\* The library is captured, and the batch verified against it, before the lock
\* is asked for; the API's doors do not yield in between.  Deferring and
\* forcing the pass together is refused.
Arrive(r, a) ==
  /\ pc[r] = "free" /\ arrived < MaxRequests
  /\ ~(a.defer /\ a.full)
  /\ ask' = [ask EXCEPT ![r] = [door |-> a.door, batch |-> a.batch, defer |-> a.defer,
                                full |-> a.full, deploy |-> deploy]]
  /\ \/ a.door # "editor" /\ pc' = [pc EXCEPT ![r] = "queued"] /\ lock' = Append(lock, r)
     \/ a.door = "editor" /\ pc' = [pc EXCEPT ![r] = "checking"] /\ lock' = lock
  /\ arrived' = arrived + 1
  /\ UNCHANGED <<tenant, deploy, moved, pointedFor, newest, orphans, runs, faults>>

Finish(r) ==
  /\ pc' = [pc EXCEPT ![r] = "free"]
  /\ ask' = [ask EXCEPT ![r] = Idle]
  /\ moved' = [moved EXCEPT ![r] = {}]

\* The editor's door asks the database whether the tenant exists, with the
\* library already in hand, and queues after.
Check(r) ==
  /\ pc[r] = "checking"
  /\ \/ /\ \E k \in Keys : fact[k] # None
        /\ pc' = [pc EXCEPT ![r] = "queued"] /\ lock' = Append(lock, r)
        /\ UNCHANGED <<ask, moved>>
     \/ /\ \A k \in Keys : fact[k] = None
        /\ Finish(r) /\ lock' = lock
  /\ UNCHANGED <<tenant, deploy, history>>

-----------------------------------------------------------------------------
(* Inside the lock.                                                        *)

\* A mutant of Holds: whoever waits may be next.
HoldsAny(r) ==
  r \in Range(lock) /\ \A s \in Requests \ {r} : pc[s] \in {"free", "checking", "queued"}

Holds(r) == lock # <<>> /\ Head(lock) = r

\* A mutant of Admits: the last write to arrive wins.
AdmitsAny(held, stamp) == TRUE

\* The stale-write guard.  Either side without a stamp has nothing to compare.
Admits(held, stamp) == held.stamp = None \/ stamp = None \/ stamp >= held.stamp

Upsert(held, body, stamp) ==
  IF held = None \/ (held.body # body /\ Admits(held, stamp))
  THEN [body |-> body, stamp |-> stamp] ELSE held

\* The batch's one transaction: deletes, then writes.
Kept(b) == [k \in Keys |-> IF k \in b.deletes THEN None ELSE fact[k]]
Landed(b) ==
  [k \in Keys |->
     IF k \in DOMAIN b.writes
     THEN Upsert(Kept(b)[k], BodyOf[b.writes[k]], IF b.stamped THEN b.writes[k] ELSE None)
     ELSE Kept(b)[k]]

\* The newest version a stamped write has brought since the record was created.
NewestAfter(b, k) ==
  LET was == IF k \in b.deletes THEN 0 ELSE newest[k]
  IN CASE k \notin DOMAIN b.writes -> was
       [] k \in DOMAIN b.writes /\ (was = None \/ ~b.stamped) -> None
       [] k \in DOMAIN b.writes /\ was # None /\ b.stamped ->
            IF b.writes[k] > was THEN b.writes[k] ELSE was

Land(r) ==
  /\ pc[r] = "queued" /\ Holds(r) /\ ask[r].door = "facts"
  /\ LET b == ask[r].batch
     IN /\ fact' = Landed(b)
        /\ moved' = [moved EXCEPT ![r] = {k \in DOMAIN b.writes : Landed(b)[k] # Kept(b)[k]}]
        /\ newest' = [k \in Keys |-> NewestAfter(b, k)]
  /\ pc' = [pc EXCEPT ![r] = "landed"]
  /\ UNCHANGED <<filed, pointed, stamped, owing, log, deploy, lock, ask, pointedFor,
                 orphans, runs, arrived, faults>>

\* What landed and no pass has filed: the request's own writes and deletes.
Landing(r) ==
  IF ask[r].door = "facts" /\ pc[r] = "landed"
  THEN moved[r] \union {k \in ask[r].batch.deletes : filed[k] # None} ELSE {}

\* A deferred batch runs no pass and leaves a debt, in a statement of its own.
Owe(r) ==
  /\ pc[r] = "landed" /\ ask[r].defer
  /\ owing' = TRUE
  /\ runs' = Append(runs, [cause |-> "facts-deferred", deploy |-> ask[r].deploy])
  /\ pc' = [pc EXCEPT ![r] = "ran"]
  /\ UNCHANGED <<fact, filed, pointed, stamped, log, deploy, lock, ask, moved,
                 pointedFor, newest, orphans, arrived, faults>>

\* At the pass: a facts request that does not defer, or a run.
AtPass(r) ==
  \/ ask[r].door = "facts" /\ pc[r] = "landed" /\ ~ask[r].defer
  \/ ask[r].door \in {"run", "editor"} /\ pc[r] = "queued" /\ Holds(r)

\* A mutant of Full: the debt is not consulted.
FullAsked(r) == ask[r].full

\* Asked for, or owed.
Full(r) == ask[r].full \/ owing

\* A named delete escalates, too, but settles no debt.
Deleting(r) == ask[r].door = "facts" /\ ask[r].batch.deletes # {}

\* What the pass files: everything when full or when the groupings are not the
\* ones the buckets were built under; the batch alone when warm; and nothing
\* when it is cold, for a figure whose pointer is behind.
Cold(r) == pointed # FiguresOf[ask[r].deploy]
Rebuilds(r) == Full(r) \/ Deleting(r) \/ stamped # GroupingsOf[ask[r].deploy]
Files(r) ==
  CASE Rebuilds(r) -> Keys
    [] ~Rebuilds(r) /\ ~Cold(r) -> moved[r]
    [] ~Rebuilds(r) /\ Cold(r) -> {}

Refiled(keys) ==
  [k \in Keys |-> IF k \notin keys THEN filed[k]
                  ELSE IF fact[k] = None THEN None ELSE fact[k].body]

CauseOf(r) == IF ask[r].door = "facts" THEN "facts" ELSE "run"

Compute(r) ==
  /\ AtPass(r)
  /\ filed' = Refiled(Files(r))
  /\ pointed' = FiguresOf[ask[r].deploy] /\ pointedFor' = ask[r].deploy
  /\ stamped' = GroupingsOf[ask[r].deploy]
  /\ orphans' = (orphans \union Landing(r)) \ Files(r)
  /\ runs' = Append(runs, [cause |-> CauseOf(r), deploy |-> ask[r].deploy])
  /\ pc' = [pc EXCEPT ![r] = IF Full(r) THEN "computed" ELSE "ran"]
  /\ UNCHANGED <<fact, owing, log, deploy, lock, ask, moved, newest, arrived, faults>>

\* Settled after the pass actually ran.
Settle(r) ==
  /\ pc[r] = "computed"
  /\ owing' = FALSE
  /\ pc' = [pc EXCEPT ![r] = "ran"]
  /\ UNCHANGED <<fact, filed, pointed, stamped, log, deploy, lock, ask, moved, history>>

\* A mutant of Pruned: the oldest are kept.
PrunedNewest(entries) ==
  SubSeq(entries, 1, IF Len(entries) > RunKeep THEN RunKeep ELSE Len(entries))

\* The log keeps the newest RunKeep: inserted, then pruned.
Pruned(entries) ==
  SubSeq(entries, IF Len(entries) > RunKeep THEN Len(entries) - RunKeep + 1 ELSE 1, Len(entries))

Record(r) ==
  /\ pc[r] = "ran"
  /\ log' = Pruned(Append(log, Last(runs)))
  /\ pc' = [pc EXCEPT ![r] = "recorded"]
  /\ UNCHANGED <<fact, filed, pointed, stamped, owing, deploy, lock, ask, moved, history>>

\* The answers are pushed, the lock is released, and the response goes out.
Reply(r) ==
  /\ pc[r] = "recorded"
  /\ Finish(r) /\ lock' = Tail(lock)
  /\ UNCHANGED <<tenant, deploy, history>>

\* DELETE /tenants: one statement per table, in this order.
Tables == <<"fact", "pointer", "index", "built", "log", "debt">>
Erased(n) ==
  LET gone == {Tables[i] : i \in 1..n}
  IN /\ fact' = IF "fact" \in gone THEN [k \in Keys |-> None] ELSE fact
     /\ pointed' = IF "pointer" \in gone THEN None ELSE pointed
     /\ pointedFor' = IF "pointer" \in gone THEN 0 ELSE pointedFor
     /\ filed' = IF "index" \in gone THEN [k \in Keys |-> None] ELSE filed
     /\ stamped' = IF "built" \in gone THEN None ELSE stamped
     /\ log' = IF "log" \in gone THEN <<>> ELSE log
     /\ runs' = IF "log" \in gone THEN <<>> ELSE runs
     /\ owing' = IF "debt" \in gone THEN FALSE ELSE owing
     /\ newest' = IF "fact" \in gone THEN [k \in Keys |-> 0] ELSE newest

RemoveTenant(r) ==
  /\ pc[r] = "queued" /\ Holds(r) /\ ask[r].door = "removal"
  /\ Erased(Len(Tables))
  /\ orphans' = {}
  /\ Finish(r) /\ lock' = Tail(lock)
  /\ UNCHANGED <<deploy, arrived, faults>>

-----------------------------------------------------------------------------
(* Faults.  A request that raises releases the lock on its way out.        *)

\* A mutant of Released: the lock stays with the request that raised.
ReleasedNever(r) == lock

Released(r) == Tail(lock)

Raises(r) ==
  /\ faults < MaxFaults /\ faults' = faults + 1
  /\ Finish(r) /\ lock' = Released(r)
  /\ UNCHANGED <<deploy, arrived>>

\* A pass that ended and has yet to be logged.
Unlogged(r) == pc[r] \in {"computed", "ran"}
Logged == IF \E r \in Requests : Unlogged(r) THEN Front(runs) ELSE runs

\* In a statement that leaves nothing behind, or between two.
Raise(r) ==
  /\ Holds(r)
  /\ Raises(r)
  /\ orphans' = orphans \union Landing(r)
  /\ runs' = Logged
  /\ UNCHANGED <<tenant, pointedFor, newest>>

\* In the pass: with some of its filing done, or with its buckets stamped and
\* the pointers still behind.
DiesInPass(r) ==
  /\ AtPass(r)
  /\ Raises(r)
  /\ \/ \E some \in SUBSET Files(r) : filed' = Refiled(some) /\ stamped' = stamped
     \/ Rebuilds(r) /\ filed' = Refiled(Keys) /\ stamped' = GroupingsOf[ask[r].deploy]
  /\ orphans' = orphans \union Landing(r)
  /\ UNCHANGED <<fact, pointed, log, pointedFor, newest, runs>>

\* A mutant of PassRaises: a debt cleared up front is forgiven, not paid.
PassRaisesForgiven(r) == DiesInPass(r) /\ owing' = (owing /\ ~Full(r))

PassRaises(r) == DiesInPass(r) /\ owing' = owing

\* In the removal, with some tables emptied.
RemovalRaises(r) ==
  /\ pc[r] = "queued" /\ Holds(r) /\ ask[r].door = "removal"
  /\ Raises(r)
  /\ \E n \in 1..(Len(Tables) - 1) : Erased(n)
  /\ orphans' = Keys

\* A log write that fails is swallowed, before the insert or after it.
RecordFails(r) ==
  /\ pc[r] = "ran"
  /\ faults < MaxFaults /\ faults' = faults + 1
  /\ \/ log' = log /\ runs' = Front(runs)
     \/ log' = Append(log, Last(runs)) /\ runs' = runs
  /\ pc' = [pc EXCEPT ![r] = "recorded"]
  /\ UNCHANGED <<fact, filed, pointed, stamped, owing, deploy, lock, ask, moved,
                 pointedFor, newest, orphans, arrived>>

\* The process dies and boots again, with every request in it.
Crash ==
  /\ faults < MaxFaults /\ faults' = faults + 1
  /\ \E r \in Requests : pc[r] # "free"
  /\ lock' = <<>>
  /\ pc' = [r \in Requests |-> "free"]
  /\ ask' = [r \in Requests |-> Idle]
  /\ moved' = [r \in Requests |-> {}]
  /\ orphans' = orphans \union UNION {Landing(r) : r \in Requests}
  /\ runs' = Logged
  /\ UNCHANGED <<tenant, deploy, pointedFor, newest, arrived>>

-----------------------------------------------------------------------------

\* PUT /definitions, under a lock of its own.
Teach ==
  /\ deploy + 1 \in Deploys
  /\ deploy' = deploy + 1
  /\ UNCHANGED <<tenant, handlers, history>>

Init ==
  /\ fact = [k \in Keys |-> None] /\ filed = [k \in Keys |-> None]
  /\ pointed = None /\ stamped = None
  /\ owing = FALSE /\ log = <<>> /\ deploy = 1
  /\ lock = <<>>
  /\ pc = [r \in Requests |-> "free"]
  /\ ask = [r \in Requests |-> Idle]
  /\ moved = [r \in Requests |-> {}]
  /\ pointedFor = 0 /\ newest = [k \in Keys |-> 0]
  /\ orphans = {} /\ runs = <<>> /\ arrived = 0 /\ faults = 0

Proceed(r) ==
  Check(r) \/ Land(r) \/ Owe(r) \/ Compute(r) \/ Settle(r) \/ Record(r) \/ Reply(r) \/ RemoveTenant(r)

Next ==
  \/ \E r \in Requests, a \in Asks : Arrive(r, a)
  \/ \E r \in Requests : Proceed(r)
  \/ \E r \in Requests : Raise(r) \/ PassRaises(r) \/ RemovalRaises(r) \/ RecordFails(r)
  \/ Crash
  \/ Teach

Spec == Init /\ [][Next]_vars

\* The event loop resumes every coroutine whose wait is over, and a statement
\* ends or raises within the pool's command_timeout.
FairSpec == Spec /\ \A r \in Requests : WF_vars(Proceed(r))

-----------------------------------------------------------------------------
(* What the doors promise.                                                 *)

BodyHeld(k) == IF fact[k] = None THEN None ELSE fact[k].body

\* A record the tables do not describe is owed: whatever deferred batches,
\* passes that raise and restarts did in between, either the debt stands or the
\* record is filed as it is held.  (But for the orphans: what landed just before
\* its own request died, or under a pass that ran cold.)
OwedOrFiled ==
  (\A r \in Requests : pc[r] # "landed") =>
    \A k \in Keys \ orphans : owing \/ filed[k] = BodyHeld(k)

\* The next pass, whatever door it came through and whatever it asked, pays the
\* debt: no pass is acknowledged while one stands.
NextPassPays ==
  \A r \in Requests : pc[r] = "recorded" /\ ~ask[r].defer => ~owing

\* A snapshot read before another batch's event never puts the pre-event record
\* back, in whatever order batches queue, while every write of it is stamped.
NewestBodyHeld ==
  \A k \in Keys : newest[k] \notin {0, None} => BodyHeld(k) = BodyOf[newest[k]]

\* The log is the newest passes that were not swallowed, in the order they ran:
\* none missing, none out of order, and one over the cap for each write that
\* failed before it pruned, at the very most.
LogFaithful ==
  /\ IsSuffix(log, Logged)
  /\ Len(log) <= RunKeep + faults
  /\ Len(log) < RunKeep => log = Logged

\* Passes run for libraries in the order they were deployed: once a pass has
\* computed figures that every library taught since asks for too, only another
\* teach or the tenant's removal leaves them behind the deployed ones.  (But for
\* the editor's pass, which captures its library before it waits for the
\* database, and queues after.  And figures that were taught away and back again
\* without a pass are not safe: a pass queued for the library in between still
\* moves the pointers to that one's.)
AsDeployed == pointedFor # 0 /\ \A d \in pointedFor..deploy : FiguresOf[d] = pointed
FallsBehind == AsDeployed /\ deploy' = deploy /\ pointed' \notin {pointed, None}
DeployedStaysComputed ==
  [][FallsBehind => ask[Head(lock)].door = "editor"]_vars

\* Every request is answered, whatever raises ahead of it in the queue.
Answered == \A r \in Requests : pc[r] # "free" ~> pc[r] = "free"

=============================================================================
