------------------------------- MODULE Stream -------------------------------
(***************************************************************************)
(* The websocket: who follows what, and the frames they get.  Each socket  *)
(* has a coroutine that reads its frames (uratori/server/app.py, stream);  *)
(* each pass delivers what it moved before it gives its tenant's lock back *)
(* (runtime.py, push_pass; hub.py); and a teach ends the entries it leaves *)
(* without a definition.  Every send is an await, so the three interleave. *)
(*                                                                         *)
(* An answer is a number that grows as passes move it.  A screen holds the *)
(* last frame the client took for each address: a definition's name, under *)
(* the firehose or as an entry of its own.                                 *)
(***************************************************************************)
EXTENDS Naturals, Sequences, SequencesExt, FiniteSets

CONSTANTS
  Clients, Tenants, Names,
  LibraryOf,    \* the names each teach deploys: a sequence
  Unfetchable,  \* names whose fetch is refused (a live reading)
  Asks,         \* what a client may send
  MaxPasses,    \* bound on the passes
  MaxFrames,    \* bound on the frames the clients send
  MaxFaults,    \* bound on what raises
  None,
  Pass          \* a tenant's pass, among those that want its lock

Deploys == DOMAIN LibraryOf
Modes == {"all", "entry"}
Addresses == Modes \X Names

ASSUME StreamAssumption ==
  /\ LibraryOf \in Seq(SUBSET Names) /\ LibraryOf # <<>>
  /\ Unfetchable \subseteq Names
  /\ Pass \notin Clients /\ None \notin Tenants \union Names
  /\ None \notin [of : Tenants \union {None}, value : Nat]
  /\ MaxPasses \in Nat /\ MaxFrames \in Nat /\ MaxFaults \in Nat
  /\ \A a \in Asks : /\ a.type \in {"subscribe", "unsubscribe"} /\ a.mode \in Modes
                     /\ a.tenant \in Tenants /\ a.names \subseteq Names

VARIABLES
  deploy,    \* the teach whose library the world holds
  ending,    \* ended entries whose holders have yet to be told
  answer,    \* the answer each tenant's tables give, by name
  lock,      \* who holds a tenant's lock and who waits for it, in order
  joined,    \* whether the hub knows the client
  tenantOf,  \* client.tenant_id
  firehose,  \* client.firehose
  entries,   \* client.entries
  socket,    \* where the client's coroutine is
  pass,      \* where each tenant's pass is
  screen,    \* what the client shows at each address
  frames,    \* history: how many frames the clients have sent
  passes,    \* history: how many passes there have been
  heard,     \* history: the answers the last delivered passes left
  late,      \* history: entries registered for a library no longer deployed
  faults     \* history: how much has raised

interest == <<joined, tenantOf, firehose, entries>>
history == <<frames, passes, heard, late, faults>>
vars == <<deploy, ending, answer, lock, interest, socket, pass, screen, history>>

Reading == [at |-> "reading"]
Resting == [at |-> "idle"]
Blank == [a \in Addresses |-> None]
Shown(t, value) == [of |-> t, value |-> value]
Error == [of |-> None, value |-> 0]

TypeOK ==
  /\ deploy \in Deploys /\ ending \subseteq Clients \X Names
  /\ answer \in [Tenants -> [Names -> 0..MaxPasses]]
  /\ heard \in [Tenants -> [Names -> 0..MaxPasses]]
  /\ \A t \in Tenants : lock[t] \in Seq(Clients \union {Pass}) /\ IsInjective(lock[t])
  /\ joined \in [Clients -> BOOLEAN] /\ firehose \in [Clients -> BOOLEAN]
  /\ tenantOf \in [Clients -> Tenants \union {None}]
  /\ entries \in [Clients -> SUBSET Names] /\ late \in [Clients -> SUBSET Names]
  /\ \A c \in Clients : socket[c].at \in {"reading", "waiting", "painting", "entering"}
  /\ \A t \in Tenants :
       pass[t].at \in {"idle", "waiting", "running", "computed", "publishing", "serving"}
  /\ \A c \in Clients, a \in Addresses :
       screen[c][a] \in {None, Error} \union [of : Tenants, value : 0..MaxPasses]

Release(t) == lock' = [lock EXCEPT ![t] = Tail(@)]

-----------------------------------------------------------------------------
(* The client's coroutine.                                                 *)

Connect(c) ==
  /\ ~joined[c] /\ socket[c] = Reading /\ frames < MaxFrames
  /\ joined' = [joined EXCEPT ![c] = TRUE]
  /\ tenantOf' = [tenantOf EXCEPT ![c] = None]
  /\ firehose' = [firehose EXCEPT ![c] = FALSE]
  /\ entries' = [entries EXCEPT ![c] = {}]
  /\ late' = [late EXCEPT ![c] = {}]
  /\ UNCHANGED <<deploy, ending, answer, lock, socket, pass, screen, frames, passes, heard, faults>>

\* The frames a pass has still to send, without a client's.
Without(c) ==
  [t \in Tenants |-> IF pass[t].at \in {"publishing", "serving"}
                     THEN [pass[t] EXCEPT !.left = {f \in @ : f.to # c}] ELSE pass[t]]

\* A client that cannot be written to is dropped; its coroutine ends when it
\* next reads.
HangUp(c) ==
  /\ joined[c]
  /\ joined' = [joined EXCEPT ![c] = FALSE]
  /\ screen' = [screen EXCEPT ![c] = Blank]
  /\ ending' = {e \in ending : e[1] # c}
  /\ pass' = Without(c)
  /\ UNCHANGED <<deploy, answer, lock, tenantOf, firehose, entries, socket, history>>

Sends(c) ==
  /\ joined[c] /\ socket[c] = Reading /\ frames < MaxFrames
  /\ frames' = frames + 1

\* A frame that names entries drops those, one that names none drops all.
Unsubscribe(c, a) ==
  /\ Sends(c) /\ a.type = "unsubscribe"
  /\ \/ /\ a.mode = "all"
        /\ firehose' = [firehose EXCEPT ![c] = FALSE] /\ entries' = [entries EXCEPT ![c] = {}]
     \/ /\ a.mode = "entry"
        /\ firehose' = firehose /\ entries' = [entries EXCEPT ![c] = @ \ a.names]
  /\ UNCHANGED <<deploy, ending, answer, lock, joined, tenantOf, socket, pass, screen,
                 passes, heard, late, faults>>

\* Another tenant resets the interest; the firehose is open at once; the
\* library is captured; and the tenant's lock is asked for.  A lock that is free
\* is taken without a suspension: the frame is prompt.
Subscribe(c, a) ==
  LET switch == a.tenant # tenantOf[c]
  IN /\ Sends(c) /\ a.type = "subscribe"
     /\ tenantOf' = [tenantOf EXCEPT ![c] = a.tenant]
     /\ entries' = [entries EXCEPT ![c] = IF switch THEN {} ELSE @]
     /\ late' = [late EXCEPT ![c] = IF switch THEN {} ELSE @]
     /\ screen' = [screen EXCEPT ![c] = IF switch THEN Blank ELSE @]
     /\ firehose' = [firehose EXCEPT ![c] = a.mode = "all" \/ (@ /\ ~switch)]
     /\ socket' = [socket EXCEPT ![c] = [at |-> "waiting", mode |-> a.mode, left |-> a.names,
                        fetching |-> None, deploy |-> deploy, prompt |-> lock[a.tenant] = <<>>]]
     /\ lock' = [lock EXCEPT ![a.tenant] = Append(@, c)]
     /\ UNCHANGED <<deploy, ending, answer, joined, pass, passes, heard, faults>>

\* A mutant of Granted: the first answers are fetched without the lock.
GrantedAlways(t, who) == TRUE

Granted(t, who) == lock[t] # <<>> /\ Head(lock[t]) = who

\* The first paint: every answer of the captured library, fetched and then sent.
Paint(c) ==
  /\ socket[c].at = "waiting" /\ socket[c].mode = "all" /\ Granted(tenantOf[c], c)
  /\ socket' = [socket EXCEPT ![c] =
       [at |-> "painting", left |-> {<<n, answer[tenantOf[c]][n]>> : n \in LibraryOf[@.deploy]}]]
  /\ UNCHANGED <<deploy, ending, answer, lock, interest, pass, screen, history>>

\* A frame the client takes: it is connected, and the frame is for its board.
Takes(c, label) == joined[c] /\ label = tenantOf[c]

SendPaint(c) ==
  /\ socket[c].at = "painting"
  /\ \E part \in socket[c].left :
       /\ socket' = [socket EXCEPT ![c].left = @ \ {part}]
       /\ screen' = [screen EXCEPT ![c][<<"all", part[1]>>] =
                       IF joined[c] THEN Shown(tenantOf[c], part[2]) ELSE @]
  /\ UNCHANGED <<deploy, ending, answer, lock, interest, pass, history>>

\* Named entries: one after another, registered, fetched and sent.  Between two
\* of them, or before the first.
Between(c) ==
  \/ socket[c].at = "entering" /\ socket[c].fetching = None
  \/ socket[c].at = "waiting" /\ socket[c].mode = "entry" /\ Granted(tenantOf[c], c)

\* A name the captured library does not hold is refused, by name.
Refuse(c) ==
  /\ Between(c)
  /\ \E n \in socket[c].left \ LibraryOf[socket[c].deploy] :
       /\ socket' = [socket EXCEPT ![c].at = "entering", ![c].left = @ \ {n}]
       /\ screen' = [screen EXCEPT ![c][<<"entry", n>>] = IF joined[c] THEN Error ELSE @]
  /\ UNCHANGED <<deploy, ending, answer, lock, interest, pass, history>>

Register(c) ==
  /\ Between(c)
  /\ \E n \in socket[c].left \intersect LibraryOf[socket[c].deploy] :
       /\ socket' = [socket EXCEPT ![c].at = "entering", ![c].fetching = n, ![c].left = @ \ {n}]
       /\ entries' = [entries EXCEPT ![c] = @ \union {n}]
       /\ late' = [late EXCEPT ![c] = IF socket[c].deploy = deploy THEN @ ELSE @ \union {n}]
  /\ UNCHANGED <<deploy, ending, answer, lock, joined, tenantOf, firehose, pass, screen,
                 frames, passes, heard, faults>>

\* The fetched answer goes out; a fetch that is refused takes the entry back.
SendEntry(c) ==
  /\ socket[c].at = "entering" /\ socket[c].fetching # None
  /\ LET n == socket[c].fetching
         frame == IF n \in Unfetchable THEN Error ELSE Shown(tenantOf[c], answer[tenantOf[c]][n])
     IN /\ screen' = [screen EXCEPT ![c][<<"entry", n>>] = IF joined[c] THEN frame ELSE @]
        /\ entries' = [entries EXCEPT ![c] = @ \ (Unfetchable \intersect {n})]
  /\ socket' = [socket EXCEPT ![c].fetching = None]
  /\ UNCHANGED <<deploy, ending, answer, lock, joined, tenantOf, firehose, pass, history>>

\* The lock is given back, and the next frame is read.
Subscribed(c) ==
  /\ socket[c].at = "painting" \/ Between(c)
  /\ socket[c].left = {}
  /\ socket' = [socket EXCEPT ![c] = Reading]
  /\ Release(tenantOf[c])
  /\ UNCHANGED <<deploy, ending, answer, interest, pass, screen, history>>

\* A mutant of Unwound: the lock stays with a coroutine that has ended.
UnwoundNever(t) == lock

Unwound(t) == [lock EXCEPT ![t] = Tail(@)]

\* The database raises under a fetch: the socket's coroutine ends.
FetchRaises(c) ==
  /\ faults < MaxFaults /\ faults' = faults + 1
  /\ \/ socket[c].at = "waiting" /\ socket[c].mode = "all" /\ Granted(tenantOf[c], c)
     \/ socket[c].at = "entering" /\ socket[c].fetching # None
  /\ lock' = Unwound(tenantOf[c])
  /\ socket' = [socket EXCEPT ![c] = Reading]
  /\ joined' = [joined EXCEPT ![c] = FALSE]
  /\ screen' = [screen EXCEPT ![c] = Blank]
  /\ ending' = {e \in ending : e[1] # c}
  /\ pass' = Without(c)
  /\ UNCHANGED <<deploy, answer, tenantOf, firehose, entries, frames, passes, heard, late>>

-----------------------------------------------------------------------------
(* A pass, and its delivery.                                               *)

Goes(t, where) == pass' = [pass EXCEPT ![t] = where]

PassQueue(t) ==
  /\ pass[t] = Resting /\ passes < MaxPasses
  /\ passes' = passes + 1
  /\ lock' = [lock EXCEPT ![t] = Append(@, Pass)]
  /\ Goes(t, [at |-> "waiting", deploy |-> deploy])
  /\ UNCHANGED <<deploy, ending, answer, interest, socket, screen, frames, heard, late, faults>>

\* A mutant of Serves: the caller alone decides.
ServesAsked(t, lean) == ~lean

\* Whether the answers are evaluated for the firehose is settled beforehand:
\* hub.wants_everything.
Serves(t, lean) == ~lean \/ \E c \in Clients : joined[c] /\ tenantOf[c] = t /\ firehose[c]

PassStart(t) ==
  /\ pass[t].at = "waiting" /\ Granted(t, Pass)
  /\ \E lean \in BOOLEAN :
       Goes(t, [at |-> "running", deploy |-> pass[t].deploy, serve |-> Serves(t, lean)])
  /\ UNCHANGED <<deploy, ending, answer, lock, interest, socket, screen, history>>

PassCompute(t) ==
  /\ pass[t].at = "running"
  /\ \E moved \in SUBSET LibraryOf[pass[t].deploy] :
       /\ answer' = [answer EXCEPT ![t] = [n \in Names |-> IF n \in moved THEN @[n] + 1 ELSE @[n]]]
       /\ Goes(t, [at |-> "computed", moved |-> moved, serve |-> pass[t].serve])
  /\ UNCHANGED <<deploy, ending, lock, interest, socket, screen, history>>

\* Its values are committed, and it raises before it delivers them.
PassRaises(t) ==
  /\ pass[t].at = "computed"
  /\ faults < MaxFaults /\ faults' = faults + 1
  /\ Goes(t, Resting)
  /\ lock' = Unwound(t)
  /\ UNCHANGED <<deploy, ending, answer, interest, socket, screen, frames, passes, heard, late>>

Frames(names, whom) ==
  {[to |-> who[1], name |-> who[2], failed |-> FALSE] : who \in whom \X names}

\* A firehose frame is labelled with the tenant its client watches by then.
Result(t, f) ==
  screen' = [screen EXCEPT ![f.to][<<"all", f.name>>] =
               IF Takes(f.to, tenantOf[f.to]) THEN Shown(t, answer[t][f.name]) ELSE @]

\* Who watches is settled under the hub's lock, and the first frame sent to them
\* at once.
PassPublish(t) ==
  /\ pass[t].at = "computed"
  /\ LET watching == {c \in Clients : joined[c] /\ tenantOf[c] = t /\ firehose[c]}
         all == Frames(IF pass[t].serve THEN pass[t].moved ELSE {}, watching)
         Leaving(left) == Goes(t, [at |-> "publishing", moved |-> pass[t].moved, left |-> left])
     IN \/ all = {} /\ Leaving({}) /\ screen' = screen
        \/ \E f \in all : Leaving(all \ {f}) /\ Result(t, f)
  /\ UNCHANGED <<deploy, ending, answer, lock, interest, socket, history>>

SendResult(t) ==
  /\ pass[t].at = "publishing"
  /\ \E f \in pass[t].left : Goes(t, [pass[t] EXCEPT !.left = @ \ {f}]) /\ Result(t, f)
  /\ UNCHANGED <<deploy, ending, answer, lock, interest, socket, history>>

Holding(t, n) == {c \in Clients : joined[c] /\ tenantOf[c] = t /\ n \in entries[c]}

\* So is who holds the entries that moved.  One evaluation serves all of an
\* entry's holders, and one that fails is reported to all of them.
PassServe(t) ==
  /\ pass[t].at = "publishing" /\ pass[t].left = {}
  /\ \E failed \in SUBSET pass[t].moved :
       /\ failed # {} => faults < MaxFaults
       /\ faults' = IF failed = {} THEN faults ELSE faults + 1
       /\ Goes(t, [at |-> "serving", moved |-> pass[t].moved,
                   left |-> UNION {{[f EXCEPT !.failed = f.name \in failed] :
                                    f \in Frames({n}, Holding(t, n))} : n \in pass[t].moved}])
  /\ UNCHANGED <<deploy, ending, answer, lock, interest, socket, screen,
                 frames, passes, heard, late>>

\* A mutant of Labelled: an entry's frame is labelled as a firehose frame is.
LabelledThen(t, c) == tenantOf[c]

Labelled(t, c) == t

SendMoved(t) ==
  /\ pass[t].at = "serving"
  /\ \E f \in pass[t].left :
       /\ Goes(t, [pass[t] EXCEPT !.left = @ \ {f}])
       /\ screen' = [screen EXCEPT ![f.to][<<"entry", f.name>>] =
                       IF ~Takes(f.to, Labelled(t, f.to)) THEN @
                       ELSE IF f.failed THEN Error ELSE Shown(t, answer[t][f.name])]
  /\ UNCHANGED <<deploy, ending, answer, lock, interest, socket, history>>

PassDone(t) ==
  /\ pass[t].at = "serving" /\ pass[t].left = {}
  /\ heard' = [heard EXCEPT ![t] =
       [n \in Names |-> IF n \in pass[t].moved THEN answer[t][n] ELSE @[n]]]
  /\ Goes(t, Resting)
  /\ Release(t)
  /\ UNCHANGED <<deploy, ending, answer, interest, socket, screen, frames, passes, late, faults>>

-----------------------------------------------------------------------------
(* A teach.                                                                *)

\* A mutant of Doomed: entries are not retired.
DoomedNone(c, known) == {}

Doomed(c, known) == IF joined[c] THEN entries[c] \ known ELSE {}

\* A prompt frame runs from its capture to its first fetch in one go.
Prompt(c) == socket[c].at = "waiting" /\ socket[c].prompt

\* The swap and the retiring run without a suspension between them; telling
\* the holders does not.
Teach ==
  /\ deploy + 1 \in Deploys
  /\ \A c \in Clients : ~Prompt(c)
  /\ deploy' = deploy + 1
  /\ LET known == LibraryOf[deploy']
     IN /\ entries' = [c \in Clients |-> entries[c] \ Doomed(c, known)]
        /\ ending' = ending \union UNION {{c} \X Doomed(c, known) : c \in Clients}
  /\ UNCHANGED <<answer, lock, joined, tenantOf, firehose, socket, pass, screen, history>>

SendEnded ==
  /\ \E e \in ending :
       /\ ending' = ending \ {e}
       /\ screen' = [screen EXCEPT ![e[1]][<<"entry", e[2]>>] = Error]
  /\ UNCHANGED <<deploy, answer, lock, interest, socket, pass, history>>

-----------------------------------------------------------------------------

Init ==
  /\ deploy = 1 /\ ending = {}
  /\ answer = [t \in Tenants |-> [n \in Names |-> 0]]
  /\ lock = [t \in Tenants |-> <<>>]
  /\ joined = [c \in Clients |-> FALSE]
  /\ tenantOf = [c \in Clients |-> None]
  /\ firehose = [c \in Clients |-> FALSE]
  /\ entries = [c \in Clients |-> {}]
  /\ socket = [c \in Clients |-> Reading]
  /\ pass = [t \in Tenants |-> Resting]
  /\ screen = [c \in Clients |-> Blank]
  /\ frames = 0 /\ passes = 0 /\ faults = 0
  /\ heard = [t \in Tenants |-> [n \in Names |-> 0]]
  /\ late = [c \in Clients |-> {}]

Answering(c) ==
  Paint(c) \/ SendPaint(c) \/ Refuse(c) \/ Register(c) \/ SendEntry(c) \/ Subscribed(c)

Passing(t) ==
  \/ PassStart(t) \/ PassCompute(t) \/ PassPublish(t) \/ SendResult(t)
  \/ PassServe(t) \/ SendMoved(t) \/ PassDone(t)

Next ==
  \/ \E c \in Clients : Connect(c) \/ HangUp(c) \/ Answering(c) \/ FetchRaises(c)
  \/ \E c \in Clients, a \in Asks : Subscribe(c, a) \/ Unsubscribe(c, a)
  \/ \E t \in Tenants : PassQueue(t) \/ Passing(t) \/ PassRaises(t)
  \/ Teach \/ SendEnded

Spec == Init /\ [][Next]_vars

\* The event loop resumes whoever's wait is over; a send that cannot be made
\* raises, which the hub takes for the client's going.
FairSpec ==
  /\ Spec
  /\ \A c \in Clients : WF_vars(Answering(c))
  /\ \A t \in Tenants : WF_vars(Passing(t))

-----------------------------------------------------------------------------
(* What the stream promises.                                               *)

Follows(c, a) ==
  /\ joined[c] /\ socket[c] = Reading
  /\ \/ a[1] = "all" /\ firehose[c] /\ \A d \in Deploys : a[2] \in LibraryOf[d]
     \/ a[1] = "entry" /\ a[2] \in entries[c]

\* A screen is never stale with nothing saying so: whatever a client follows
\* has been painted, and shows an answer no older than the last pass to deliver
\* it, though the pass asked for no answers, began before the subscription, or
\* waited with it for the lock.
FollowedIsFresh ==
  \A c \in Clients, a \in Addresses :
    Follows(c, a) =>
      /\ screen[c][a] # None
      /\ screen[c][a].of = tenantOf[c] => screen[c][a].value >= heard[tenantOf[c]][a[2]]

\* Frames arrive in the order of the answers they carry: what a client sees of
\* its board never goes back to an older answer.
Older(c, a) ==
  /\ screen[c][a] \notin {None, Error} /\ screen'[c][a] \notin {None, Error}
  /\ screen'[c][a].of = screen[c][a].of /\ screen'[c][a].value < screen[c][a].value
NeverGoesBack == [][\A c \in Clients, a \in Addresses : ~Older(c, a)]_vars

\* What an entry's address shows is of the board its client watches, though the
\* client switched while a pass was delivering.
EntriesKeepToBoard ==
  \A c \in Clients, n \in Names :
    screen[c][<<"entry", n>>] \notin {None, Error} => screen[c][<<"entry", n>>].of = tenantOf[c]

\* Every entry stands on a deployed definition, or its holder has been told or
\* is about to be.  (But for the late ones, registered
\* against a library that a teach has just replaced: the README says which.)
NoneSilentInTime ==
  \A c \in Clients : joined[c] => entries[c] \subseteq LibraryOf[deploy] \union late[c]

\* A subscription is answered, whoever raises or hangs up with the lock in hand.
SubscribersAnswered == \A c \in Clients : socket[c] # Reading ~> socket[c] = Reading

=============================================================================
