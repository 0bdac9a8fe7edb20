---------------------------- MODULE Stream_proofs ----------------------------
(***************************************************************************)
(* Whose answers an entry shows, and what it stands on, proved for any     *)
(* clients, tenants, definitions and teaches.                              *)
(***************************************************************************)
EXTENDS Stream, SequenceTheorems, TLAPS

\* The maps the hub and the sockets keep have an entry for each client, and
\* each screen one for each address.
Mapped ==
  /\ DOMAIN joined = Clients /\ DOMAIN tenantOf = Clients /\ DOMAIN entries = Clients
  /\ DOMAIN late = Clients /\ DOMAIN socket = Clients /\ DOMAIN screen = Clients
  /\ \A c \in Clients : DOMAIN screen[c] = Addresses

\* Whoever has gone shows nothing, and is told nothing.
GoneAreBlank ==
  /\ \A c \in Clients : ~joined[c] => screen[c] = Blank
  /\ \A e \in ending : joined[e[1]]

Kept == Mapped /\ GoneAreBlank /\ EntriesKeepToBoard

\* One frame changes one address of one screen.
LEMMA OneFrame ==
  ASSUME DOMAIN screen = Clients, \A c \in Clients : DOMAIN screen[c] = Addresses,
         NEW d, NEW a, NEW v, screen' = [screen EXCEPT ![d][a] = v]
  PROVE  /\ DOMAIN screen' = Clients
         /\ \A c \in Clients : DOMAIN screen'[c] = Addresses
         /\ \A c \in Clients : c # d => screen'[c] = screen[c]
         /\ \A c \in Clients, b \in Addresses :
              screen'[c][b] = IF c = d /\ b = a THEN v ELSE screen[c][b]
         /\ d \in Clients => screen'[d] = [screen[d] EXCEPT ![a] = v]
OBVIOUS

\* A frame that changes nothing.
LEMMA SameFrame ==
  ASSUME NEW a
  PROVE  [Blank EXCEPT ![a] = Blank[a]] = Blank
BY DEF Blank

\* A frame taken by a client that is there, and of its own board at an entry's
\* address, or an error, keeps screens as they should be.
LEMMA FrameKeeps ==
  ASSUME Kept, NEW d, NEW mode, NEW n, NEW v,
         screen' = [screen EXCEPT ![d][<<mode, n>>] = v],
         UNCHANGED <<joined, tenantOf>>, DOMAIN entries' = Clients,
         DOMAIN late' = Clients, DOMAIN socket' = Clients, ending' \subseteq ending,
         d \in Clients => v = screen[d][<<mode, n>>] \/ joined[d],
         d \in Clients => \/ v = screen[d][<<mode, n>>] \/ mode = "all" \/ v = Error
                          \/ \E x : v = Shown(tenantOf[d], x)
  PROVE  Kept'
<1> USE DEF Kept, Mapped
<1>1. /\ DOMAIN screen' = Clients /\ \A c \in Clients : DOMAIN screen'[c] = Addresses
      /\ \A c \in Clients : c # d => screen'[c] = screen[c]
      /\ \A c \in Clients, b \in Addresses :
           screen'[c][b] = IF c = d /\ b = <<mode, n>> THEN v ELSE screen[c][b]
  BY OneFrame
<1>2. Mapped'
  BY <1>1
<1>3. GoneAreBlank'
  <2>1. ASSUME NEW c \in Clients, ~joined[c] PROVE screen'[c] = screen[c]
    <3>1. CASE c # d
      BY <3>1, <1>1
    <3>2. CASE c = d
      <4>1. screen'[d] = [screen[d] EXCEPT ![<<mode, n>>] = v]
        BY <3>2, OneFrame
      <4>2. screen[d] = Blank /\ v = Blank[<<mode, n>>]
        BY <2>1, <3>2 DEF GoneAreBlank
      <4> QED BY <4>1, <4>2, <3>2, SameFrame
    <3> QED BY <3>1, <3>2
  <2> QED BY <2>1 DEF GoneAreBlank, Blank
<1>4. EntriesKeepToBoard'
  <2> SUFFICES ASSUME NEW c \in Clients, NEW m \in Names,
                      screen'[c][<<"entry", m>>] \notin {None, Error}
               PROVE  screen'[c][<<"entry", m>>].of = tenantOf[c]
    BY DEF EntriesKeepToBoard
  <2>1. <<"entry", m>> \in Addresses
    BY DEF Addresses, Modes
  <2>2. CASE screen'[c][<<"entry", m>>] = screen[c][<<"entry", m>>]
    BY <2>2 DEF EntriesKeepToBoard
  <2>3. CASE c = d /\ mode = "entry" /\ n = m /\ v # screen[c][<<"entry", m>>]
    BY <2>1, <2>3, <1>1 DEF Shown
  <2> QED BY <1>1, <2>1, <2>2, <2>3
<1> QED BY <1>2, <1>3, <1>4

\* So does every firehose frame, whatever board it came from.
LEMMA ResultKeeps ==
  ASSUME Kept, NEW t, NEW f, Result(t, f), UNCHANGED <<interest, late, ending>>,
         DOMAIN socket' = Clients
  PROVE  Kept'
<1> DEFINE v == IF Takes(f.to, tenantOf[f.to]) THEN Shown(t, answer[t][f.name])
                ELSE screen[f.to][<<"all", f.name>>]
<1>1. screen' = [screen EXCEPT ![f.to][<<"all", f.name>>] = v]
  BY DEF Result
<1>2. v = screen[f.to][<<"all", f.name>>] \/ joined[f.to]
  BY DEF Takes
<1> HIDE DEF v
<1> QED BY <1>1, <1>2, FrameKeeps DEF Kept, Mapped, interest

LEMMA KeptInductive ==
  ASSUME Kept, [Next]_vars
  PROVE  Kept'
<1> USE DEF Kept
<1>1. ASSUME NEW c \in Clients, Connect(c) PROVE Kept'
  <2>1. \A d \in Clients : ~joined'[d] => screen'[d] = Blank
    BY <1>1 DEF Connect, Mapped, GoneAreBlank
  <2>2. \A e \in ending' : joined'[e[1]]
    BY <1>1 DEF Connect, Mapped, GoneAreBlank
  <2>3. screen[c] = Blank
    BY <1>1 DEF Connect, GoneAreBlank
  <2>4. EntriesKeepToBoard'
    <3>1. \A n \in Names : screen[c][<<"entry", n>>] = None
      BY <2>3 DEF Blank, Addresses, Modes
    <3>2. \A d \in Clients \ {c} : tenantOf'[d] = tenantOf[d]
      BY <1>1 DEF Connect, Mapped
    <3> QED BY <1>1, <3>1, <3>2 DEF Connect, EntriesKeepToBoard
  <2> QED BY <1>1, <2>1, <2>2, <2>4 DEF Connect, Mapped, GoneAreBlank
<1>2. ASSUME NEW c \in Clients, HangUp(c) PROVE Kept'
  <2>1. Mapped'
    BY <1>2 DEF HangUp, Mapped, Blank, history
  <2>2. GoneAreBlank'
    BY <1>2 DEF HangUp, Mapped, GoneAreBlank
  <2>3. EntriesKeepToBoard'
    BY <1>2 DEF HangUp, Mapped, EntriesKeepToBoard, Blank, Addresses, Modes
  <2> QED BY <2>1, <2>2, <2>3
<1>3. ASSUME NEW c \in Clients, NEW a \in Asks, Subscribe(c, a) PROVE Kept'
  BY <1>3 DEF Subscribe, Sends, Mapped, GoneAreBlank, EntriesKeepToBoard, Blank, Addresses, Modes
<1>4. ASSUME NEW c \in Clients, NEW a \in Asks, Unsubscribe(c, a) PROVE Kept'
  BY <1>4 DEF Unsubscribe, Sends, Mapped, GoneAreBlank, EntriesKeepToBoard
<1>5. ASSUME NEW c \in Clients, Answering(c) PROVE Kept'
  <2>1. CASE Paint(c)
    BY <2>1 DEF Paint, Mapped, GoneAreBlank, EntriesKeepToBoard, interest, history
  <2>2. CASE SendPaint(c)
    <3>1. PICK part \in socket[c].left :
            screen' = [screen EXCEPT ![c][<<"all", part[1]>>] =
                         IF joined[c] THEN Shown(tenantOf[c], part[2]) ELSE @]
      BY <2>2 DEF SendPaint
    <3> DEFINE v == IF joined[c] THEN Shown(tenantOf[c], part[2]) ELSE screen[c][<<"all", part[1]>>]
    <3>2. screen' = [screen EXCEPT ![c][<<"all", part[1]>>] = v]
      BY <3>1
    <3>3. v = screen[c][<<"all", part[1]>>] \/ joined[c]
      OBVIOUS
    <3> HIDE DEF v
    <3> QED BY <2>2, <3>2, <3>3, FrameKeeps DEF SendPaint, Mapped, interest, history
  <2>3. CASE Refuse(c)
    <3>1. PICK n : screen' = [screen EXCEPT ![c][<<"entry", n>>] = IF joined[c] THEN Error ELSE @]
      BY <2>3 DEF Refuse
    <3> DEFINE v == IF joined[c] THEN Error ELSE screen[c][<<"entry", n>>]
    <3>2. screen' = [screen EXCEPT ![c][<<"entry", n>>] = v]
      BY <3>1
    <3>3. v = screen[c][<<"entry", n>>] \/ (joined[c] /\ v = Error)
      OBVIOUS
    <3> HIDE DEF v
    <3> QED BY <2>3, <3>2, <3>3, FrameKeeps DEF Refuse, Mapped, interest, history
  <2>4. CASE Register(c)
    BY <2>4 DEF Register, Mapped, GoneAreBlank, EntriesKeepToBoard
  <2>5. CASE SendEntry(c)
    BY <2>5, FrameKeeps DEF SendEntry, Mapped, interest, history
  <2>6. CASE Subscribed(c)
    BY <2>6 DEF Subscribed, Mapped, GoneAreBlank, EntriesKeepToBoard, interest, history
  <2> QED BY <1>5, <2>1, <2>2, <2>3, <2>4, <2>5, <2>6 DEF Answering
<1>6. ASSUME NEW c \in Clients, FetchRaises(c) PROVE Kept'
  BY <1>6 DEF FetchRaises, Mapped, GoneAreBlank, EntriesKeepToBoard, Blank, Addresses, Modes
<1>7. ASSUME NEW t \in Tenants, Passing(t) PROVE Kept'
  <2>1. CASE PassStart(t) \/ PassCompute(t) \/ PassServe(t) \/ PassDone(t)
    BY <2>1 DEF PassStart, PassCompute, PassServe, PassDone, Mapped, GoneAreBlank,
                EntriesKeepToBoard, interest, history
  <2>2. CASE SendResult(t)
    BY <2>2, ResultKeeps DEF SendResult, Mapped, history
  <2>3. CASE PassPublish(t)
    <3>1. CASE screen' = screen
      BY <2>3, <3>1 DEF PassPublish, Mapped, interest, history, GoneAreBlank, EntriesKeepToBoard
    <3>2. ASSUME NEW f, Result(t, f) PROVE Kept'
      BY <2>3, <3>2, ResultKeeps DEF PassPublish, Mapped, history
    <3> QED BY <2>3, <3>1, <3>2 DEF PassPublish
  <2>4. CASE SendMoved(t)
    <3>1. PICK f \in pass[t].left :
            screen' = [screen EXCEPT ![f.to][<<"entry", f.name>>] =
                         IF ~Takes(f.to, Labelled(t, f.to)) THEN @
                         ELSE IF f.failed THEN Error ELSE Shown(t, answer[t][f.name])]
      BY <2>4 DEF SendMoved
    <3> DEFINE was == screen[f.to][<<"entry", f.name>>]
               v == IF ~Takes(f.to, Labelled(t, f.to)) THEN was
                    ELSE IF f.failed THEN Error ELSE Shown(t, answer[t][f.name])
    <3>2. screen' = [screen EXCEPT ![f.to][<<"entry", f.name>>] = v]
      BY <3>1
    <3>3. \/ v = was
          \/ joined[f.to] /\ (v = Error \/ \E x : v = Shown(tenantOf[f.to], x))
      BY DEF Takes, Labelled
    <3> HIDE DEF v
    <3> QED BY <2>4, <3>2, <3>3, FrameKeeps DEF SendMoved, Mapped, interest, history
  <2> QED BY <1>7, <2>1, <2>2, <2>3, <2>4 DEF Passing
<1>8. ASSUME NEW t \in Tenants, PassQueue(t) \/ PassRaises(t) PROVE Kept'
  BY <1>8 DEF PassQueue, PassRaises, Mapped, GoneAreBlank, EntriesKeepToBoard, interest
<1>9. CASE Teach
  BY <1>9 DEF Teach, Doomed, Mapped, GoneAreBlank, EntriesKeepToBoard, history
<1>10. CASE SendEnded
  <2>1. PICK e \in ending : /\ ending' = ending \ {e}
                            /\ screen' = [screen EXCEPT ![e[1]][<<"entry", e[2]>>] = Error]
    BY <1>10 DEF SendEnded
  <2>2. joined[e[1]]
    BY DEF GoneAreBlank
  <2> QED BY <1>10, <2>1, <2>2, FrameKeeps DEF SendEnded, Mapped, interest, history
<1>11. CASE UNCHANGED vars
  BY <1>11 DEF vars, interest, history, Mapped, GoneAreBlank, EntriesKeepToBoard
<1> QED BY <1>1, <1>2, <1>3, <1>4, <1>5, <1>6, <1>7, <1>8, <1>9, <1>10, <1>11 DEF Next

-----------------------------------------------------------------------------
(* Every entry stands on a deployed definition, or was registered late.    *)

LEMMA StandingInductive ==
  ASSUME Mapped, Mapped', NoneSilentInTime, [Next]_vars
  PROVE  NoneSilentInTime'
<1>1. ASSUME NEW c \in Clients, Connect(c) PROVE NoneSilentInTime'
  BY <1>1 DEF Connect, Mapped, NoneSilentInTime
<1>2. ASSUME NEW c \in Clients, HangUp(c) \/ FetchRaises(c) PROVE NoneSilentInTime'
  BY <1>2 DEF HangUp, FetchRaises, Mapped, NoneSilentInTime, history
<1>3. ASSUME NEW c \in Clients, NEW a \in Asks, Subscribe(c, a) \/ Unsubscribe(c, a)
      PROVE NoneSilentInTime'
  BY <1>3 DEF Subscribe, Unsubscribe, Sends, Mapped, NoneSilentInTime
<1>4. ASSUME NEW c \in Clients, Register(c) PROVE NoneSilentInTime'
  BY <1>4 DEF Register, Mapped, NoneSilentInTime
<1>5. ASSUME NEW c \in Clients, SendEntry(c) PROVE NoneSilentInTime'
  BY <1>5 DEF SendEntry, Mapped, NoneSilentInTime, history
<1>6. CASE Teach
  BY <1>6 DEF Teach, Doomed, Mapped, NoneSilentInTime, history
<1>7. ASSUME UNCHANGED <<deploy, joined, entries, late>> PROVE NoneSilentInTime'
  BY <1>7 DEF NoneSilentInTime
<1> QED
  BY <1>1, <1>2, <1>3, <1>4, <1>5, <1>6, <1>7
  DEF Next, Answering, Paint, SendPaint, Refuse, Subscribed, Passing, PassQueue, PassStart, PassCompute,
      PassPublish, SendResult, PassServe, SendMoved, PassDone, PassRaises, SendEnded, vars, interest, history

LEMMA InitKept == Init => Kept /\ NoneSilentInTime
BY DEF Init, Kept, Mapped, GoneAreBlank, EntriesKeepToBoard, NoneSilentInTime, Blank, Addresses, Modes

-----------------------------------------------------------------------------
(* The shape of what each part keeps.                                      *)

Asking ==
  [at : {"waiting", "entering"}, mode : Modes, left : SUBSET Names,
   fetching : Names \union {None}, deploy : Deploys, prompt : BOOLEAN]
Painting == [at : {"painting"}, left : SUBSET (Names \X Nat)]
Sockets == {Reading} \union Asking \union Painting

FrameSet == [to : Clients, name : Names, failed : BOOLEAN]

PassStates ==
  {Resting}
    \union [at : {"waiting"}, deploy : Deploys]
    \union [at : {"running"}, deploy : Deploys, serve : BOOLEAN]
    \union [at : {"computed"}, moved : SUBSET Names, serve : BOOLEAN]
    \union [at : {"publishing", "serving"}, moved : SUBSET Names, left : SUBSET FrameSet]

Views == {None, Error} \union [of : Tenants, value : Nat]
Screens == [Addresses -> Views]

Shaped ==
  /\ deploy \in Deploys /\ ending \subseteq Clients \X Names
  /\ answer \in [Tenants -> [Names -> Nat]] /\ heard \in [Tenants -> [Names -> Nat]]
  /\ joined \in [Clients -> BOOLEAN] /\ firehose \in [Clients -> BOOLEAN]
  /\ tenantOf \in [Clients -> Tenants \union {None}]
  /\ entries \in [Clients -> SUBSET Names] /\ late \in [Clients -> SUBSET Names]
  /\ socket \in [Clients -> Sockets] /\ pass \in [Tenants -> PassStates]
  /\ screen \in [Clients -> Screens]
  /\ passes \in 0..MaxPasses /\ faults \in Nat

\* A client that watches no board follows nothing.
BoardFirst == \A c \in Clients : tenantOf[c] = None => ~firehose[c] /\ entries[c] = {}

-----------------------------------------------------------------------------
(* A tenant's lock admits one.                                             *)

Waits(t, who) == \E i \in 1..Len(lock[t]) : lock[t][i] = who
Lines ==
  /\ DOMAIN lock = Tenants
  /\ \A t \in Tenants : lock[t] \in Seq(Clients \union {Pass}) /\ IsInjective(lock[t])

\* A coroutine waits for its board's lock alone, and a tenant's pass for its own;
\* whoever is past the wait holds it.
InLine ==
  /\ \A c \in Clients, t \in Tenants : Waits(t, c) <=> socket[c].at # "reading" /\ tenantOf[c] = t
  /\ \A c \in Clients : socket[c].at # "reading" => tenantOf[c] \in Tenants
  /\ \A t \in Tenants : Waits(t, Pass) <=> pass[t].at # "idle"

Inside ==
  /\ \A c \in Clients : socket[c].at \in {"painting", "entering"} => Granted(tenantOf[c], c)
  /\ \A t \in Tenants : pass[t].at \notin {"idle", "waiting"} => Granted(t, Pass)

-----------------------------------------------------------------------------
(* What a screen shows, what it may be behind of, and who makes it good.   *)

\* An answer has moved in no more passes than there have been.
Counted ==
  \A t \in Tenants, n \in Names :
    /\ heard[t][n] <= answer[t][n] /\ answer[t][n] <= passes
    /\ pass[t].at \in {"waiting", "running"} => answer[t][n] < passes

\* No screen is ahead of the tables.
NoneAhead(c) ==
  \A a \in Addresses :
    screen[c][a] \notin {None, Error} => screen[c][a].value <= answer[screen[c][a].of][a[2]]

\* What a first paint has still to send is what the tables give.
PaintsTables(c) ==
  socket[c].at = "painting" =>
    \A part \in socket[c].left : part[2] = answer[tenantOf[c]][part[1]]

\* Of what a client follows, what has been painted and is not being fetched anew.
PaintDue(c, n) ==
  \/ socket[c].at = "waiting" /\ socket[c].mode = "all"
  \/ socket[c].at = "painting" /\ \E part \in socket[c].left : part[1] = n
Watched(c, n) ==
  joined[c] /\ firehose[c] /\ (\A d \in Deploys : n \in LibraryOf[d]) /\ ~PaintDue(c, n)
Held(c, n) ==
  joined[c] /\ n \in entries[c] /\ ~(socket[c].at = "entering" /\ socket[c].fetching = n)

\* An address shows a frame, and one of this board's that is no older than value.
AtLeast(shown, t, value) == shown # None /\ (shown.of = t => shown.value >= value)
Follow(c, n, value) ==
  /\ Watched(c, n) => AtLeast(screen[c][<<"all", n>>], tenantOf[c], value)
  /\ Held(c, n) => AtLeast(screen[c][<<"entry", n>>], tenantOf[c], value)

Fresh(c) == \A n \in Names : Follow(c, n, heard[tenantOf[c]][n])

\* A pass that serves nobody has only first paints to leave behind.
NobodyUnserved(c) ==
  \A t \in Tenants :
    pass[t].at \in {"running", "computed"} /\ ~pass[t].serve =>
      (joined[c] /\ tenantOf[c] = t /\ firehose[c] =>
         socket[c].at = "waiting" /\ socket[c].mode = "all")

\* Of what a pass moved, whoever follows it shows it, or a frame is on its way.
Owed(t, c, n) == \E f \in pass[t].left : f.to = c /\ f.name = n
Published(c) ==
  \A t \in Tenants, n \in Names :
    pass[t].at \in {"publishing", "serving"} /\ tenantOf[c] = t /\ n \in pass[t].moved /\ Watched(c, n) =>
      \/ pass[t].at = "publishing" /\ Owed(t, c, n)
      \/ AtLeast(screen[c][<<"all", n>>], t, answer[t][n])
Served(c) ==
  \A t \in Tenants, n \in Names :
    pass[t].at = "serving" /\ tenantOf[c] = t /\ n \in pass[t].moved /\ Held(c, n) =>
      Owed(t, c, n) \/ AtLeast(screen[c][<<"entry", n>>], t, answer[t][n])

Delivered(c) ==
  /\ NoneAhead(c) /\ PaintsTables(c) /\ Fresh(c)
  /\ NobodyUnserved(c) /\ Published(c) /\ Served(c)

Frame == Shaped /\ BoardFirst /\ Lines /\ InLine /\ Inside /\ Counted
Delivery == \A c \in Clients : Delivered(c)

-----------------------------------------------------------------------------
(* Every step keeps the shape.                                             *)

LEMMA Libraries == 1 \in Deploys /\ \A d \in Deploys : LibraryOf[d] \subseteq Names
<1>1. LibraryOf \in Seq(SUBSET Names) /\ Len(LibraryOf) \in Nat \ {0}
  BY StreamAssumption, EmptySeq
<1> QED BY <1>1 DEF Deploys

\* One frame that is a view keeps a screen a screen.
LEMMA FrameShaped ==
  ASSUME screen \in [Clients -> Screens], NEW d, NEW a, NEW v,
         screen' = [screen EXCEPT ![d][a] = v], v \in Views \/ v = screen[d][a]
  PROVE  screen' \in [Clients -> Screens]
BY DEF Screens

\* What a coroutine is doing says what it keeps.
LEMMA SocketShapes ==
  ASSUME Shaped, NEW c \in Clients
  PROVE  /\ socket[c].at \in {"waiting", "entering"} => socket[c] \in Asking
         /\ socket[c].at = "painting" => socket[c] \in Painting
         /\ socket[c].at = "reading" => socket[c] = Reading
         /\ socket[c].at \in {"reading", "waiting", "entering", "painting"}
BY DEF Shaped, Sockets, Asking, Painting, Reading

LEMMA PassShapes ==
  ASSUME Shaped, NEW t \in Tenants
  PROVE  /\ pass[t].at \in {"idle", "waiting", "running", "computed", "publishing", "serving"}
         /\ pass[t].at = "idle" => pass[t] = Resting
         /\ pass[t].at = "waiting" => pass[t] \in [at : {"waiting"}, deploy : Deploys]
         /\ pass[t].at = "running" => pass[t] \in [at : {"running"}, deploy : Deploys, serve : BOOLEAN]
         /\ pass[t].at = "computed" =>
              pass[t] \in [at : {"computed"}, moved : SUBSET Names, serve : BOOLEAN]
         /\ pass[t].at \in {"publishing", "serving"} =>
              pass[t] \in [at : {"publishing", "serving"}, moved : SUBSET Names, left : SUBSET FrameSet]
BY DEF Shaped, PassStates, Resting

LEMMA FramesShaped ==
  ASSUME NEW names \in SUBSET Names, NEW whom \in SUBSET Clients
  PROVE  Frames(names, whom) \subseteq FrameSet
<1>1. FALSE \in BOOLEAN
  OBVIOUS
<1>2. ASSUME NEW who \in whom \X names
      PROVE  [to |-> who[1], name |-> who[2], failed |-> FALSE] \in FrameSet
  BY <1>1 DEF FrameSet
<1> QED BY <1>2 DEF Frames

LEMMA ShapedInductive ==
  ASSUME Shaped, InLine, [Next]_vars
  PROVE  Shaped'
<1>1. ASSUME NEW c \in Clients, Connect(c) PROVE Shaped'
  BY <1>1 DEF Connect, Shaped
<1>2. ASSUME NEW c \in Clients, HangUp(c) \/ FetchRaises(c) PROVE Shaped'
  <2>1. Without(c) \in [Tenants -> PassStates]
    <3>1. ASSUME NEW t \in Tenants PROVE Without(c)[t] \in PassStates
      <4>1. CASE pass[t].at \in {"publishing", "serving"}
        <5>1. pass[t] \in [at : {"publishing", "serving"}, moved : SUBSET Names, left : SUBSET FrameSet]
          BY <4>1, PassShapes
        <5>2. Without(c)[t] = [pass[t] EXCEPT !.left = {f \in @ : f.to # c}]
          BY <4>1 DEF Without
        <5> QED BY <5>1, <5>2 DEF PassStates
      <4>2. CASE pass[t].at \notin {"publishing", "serving"}
        BY <4>2 DEF Without, Shaped
      <4> QED BY <4>1, <4>2
    <3> QED BY <3>1 DEF Without
  <2>2. screen' \in [Clients -> Screens]
    BY <1>2 DEF HangUp, FetchRaises, Shaped, Blank, Screens, Views
  <2>3. socket' \in [Clients -> Sockets]
    BY <1>2 DEF HangUp, FetchRaises, Shaped, Sockets
  <2>4. ending' \subseteq ending /\ joined' = [joined EXCEPT ![c] = FALSE] /\ pass' = Without(c)
    BY <1>2 DEF HangUp, FetchRaises
  <2>5. /\ faults' \in Nat
        /\ UNCHANGED <<deploy, answer, tenantOf, firehose, entries, passes, heard, late>>
    BY <1>2 DEF HangUp, FetchRaises, Shaped, history
  <2> QED BY <2>1, <2>2, <2>3, <2>4, <2>5 DEF Shaped
<1>3. ASSUME NEW c \in Clients, NEW a \in Asks, Subscribe(c, a) PROVE Shaped'
  <2>1. a.tenant \in Tenants /\ a.mode \in Modes /\ a.names \subseteq Names
    BY StreamAssumption
  <2>2. socket' \in [Clients -> Sockets]
    BY <1>3, <2>1 DEF Subscribe, Shaped, Sockets, Asking
  <2>3. screen' \in [Clients -> Screens]
    BY <1>3 DEF Subscribe, Shaped, Blank, Screens, Views
  <2>4. firehose' \in [Clients -> BOOLEAN]
    BY <1>3 DEF Subscribe, Shaped
  <2>5. tenantOf' \in [Clients -> Tenants \union {None}]
    BY <1>3, <2>1 DEF Subscribe, Shaped
  <2>6. entries' \in [Clients -> SUBSET Names] /\ late' \in [Clients -> SUBSET Names]
    BY <1>3 DEF Subscribe, Shaped
  <2> QED BY <1>3, <2>2, <2>3, <2>4, <2>5, <2>6 DEF Subscribe, Shaped
<1>4. ASSUME NEW c \in Clients, NEW a \in Asks, Unsubscribe(c, a) PROVE Shaped'
  BY <1>4 DEF Unsubscribe, Shaped
<1>5. ASSUME NEW c \in Clients, Answering(c) PROVE Shaped'
  <2>1. CASE Paint(c)
    <3>1. socket[c] \in Asking /\ tenantOf[c] \in Tenants
      BY <2>1, SocketShapes DEF Paint, InLine
    <3>2. \A n \in LibraryOf[socket[c].deploy] : n \in Names /\ answer[tenantOf[c]][n] \in Nat
      BY <3>1, Libraries DEF Asking, Shaped
    <3>3. [at |-> "painting", left |-> {<<n, answer[tenantOf[c]][n]>> : n \in LibraryOf[socket[c].deploy]}]
            \in Painting
      BY <3>2 DEF Painting
    <3> QED BY <2>1, <3>3 DEF Paint, Shaped, Sockets, interest, history
  <2>2. CASE SendPaint(c)
    <3>1. socket[c] \in Painting
      BY <2>2, SocketShapes DEF SendPaint
    <3>2. tenantOf[c] \in Tenants
      BY <2>2 DEF SendPaint, InLine
    <3>3. PICK part \in socket[c].left :
            /\ socket' = [socket EXCEPT ![c].left = @ \ {part}]
            /\ screen' = [screen EXCEPT ![c][<<"all", part[1]>>] =
                            IF joined[c] THEN Shown(tenantOf[c], part[2]) ELSE @]
      BY <2>2 DEF SendPaint
    <3> DEFINE v == IF joined[c] THEN Shown(tenantOf[c], part[2]) ELSE screen[c][<<"all", part[1]>>]
    <3>4. v \in Views \/ v = screen[c][<<"all", part[1]>>]
      BY <3>1, <3>2 DEF Painting, Shown, Views
    <3>5. screen' = [screen EXCEPT ![c][<<"all", part[1]>>] = v]
      BY <3>3
    <3> HIDE DEF v
    <3>6. screen' \in [Clients -> Screens]
      BY <3>4, <3>5, FrameShaped DEF Shaped
    <3>7. [socket[c] EXCEPT !.left = @ \ {part}] \in Painting
      BY <3>1 DEF Painting
    <3>8. socket' \in [Clients -> Sockets]
      BY <3>3, <3>7 DEF Shaped, Sockets
    <3> QED BY <2>2, <3>6, <3>8 DEF SendPaint, Shaped, interest, history
  <2>3. CASE Refuse(c)
    <3>1. socket[c] \in Asking
      BY <2>3, SocketShapes DEF Refuse, Between
    <3>2. PICK n \in socket[c].left :
            /\ socket' = [socket EXCEPT ![c].at = "entering", ![c].left = @ \ {n}]
            /\ screen' = [screen EXCEPT ![c][<<"entry", n>>] = IF joined[c] THEN Error ELSE @]
      BY <2>3 DEF Refuse
    <3>3. screen' \in [Clients -> Screens]
      BY <3>2, FrameShaped DEF Shaped, Views
    <3>4. [socket[c] EXCEPT !.at = "entering", !.left = @ \ {n}] \in Asking
      BY <3>1 DEF Asking
    <3>5. socket' \in [Clients -> Sockets]
      BY <3>2, <3>4 DEF Shaped, Sockets
    <3> QED BY <2>3, <3>3, <3>5 DEF Refuse, Shaped, interest, history
  <2>4. CASE Register(c)
    <3>1. socket[c] \in Asking
      BY <2>4, SocketShapes DEF Register, Between
    <3>2. PICK n \in socket[c].left :
            /\ socket' = [socket EXCEPT ![c].at = "entering", ![c].fetching = n, ![c].left = @ \ {n}]
            /\ entries' = [entries EXCEPT ![c] = @ \union {n}]
            /\ late' = [late EXCEPT ![c] = IF socket[c].deploy = deploy THEN @ ELSE @ \union {n}]
      BY <2>4 DEF Register
    <3>3. n \in Names /\ [socket[c] EXCEPT !.at = "entering", !.fetching = n, !.left = @ \ {n}] \in Asking
      BY <3>1 DEF Asking
    <3>4. socket' \in [Clients -> Sockets]
      BY <3>2, <3>3 DEF Shaped, Sockets
    <3> QED BY <2>4, <3>2, <3>3, <3>4 DEF Register, Shaped
  <2>5. CASE SendEntry(c)
    <3>1. socket[c] \in Asking /\ tenantOf[c] \in Tenants
      BY <2>5, SocketShapes DEF SendEntry, InLine
    <3> DEFINE n == socket[c].fetching
               frame == IF n \in Unfetchable THEN Error ELSE Shown(tenantOf[c], answer[tenantOf[c]][n])
               v == IF joined[c] THEN frame ELSE screen[c][<<"entry", n>>]
    <3>2. n \in Names
      BY <2>5, <3>1 DEF SendEntry, Asking
    <3>3. v \in Views \/ v = screen[c][<<"entry", n>>]
      BY <3>1, <3>2 DEF Views, Shown, Shaped
    <3>4. screen' = [screen EXCEPT ![c][<<"entry", n>>] = v]
      BY <2>5 DEF SendEntry
    <3> HIDE DEF v
    <3>5. screen' \in [Clients -> Screens]
      BY <3>3, <3>4, FrameShaped DEF Shaped
    <3>6. [socket[c] EXCEPT !.fetching = None] \in Asking
      BY <3>1 DEF Asking
    <3>7. socket' \in [Clients -> Sockets]
      BY <2>5, <3>6 DEF SendEntry, Shaped, Sockets
    <3> QED BY <2>5, <3>5, <3>7 DEF SendEntry, Shaped, history
  <2>6. CASE Subscribed(c)
    BY <2>6 DEF Subscribed, Shaped, Sockets, interest, history
  <2> QED BY <1>5, <2>1, <2>2, <2>3, <2>4, <2>5, <2>6 DEF Answering
<1>6. ASSUME NEW t \in Tenants, PassQueue(t) \/ PassStart(t) \/ PassRaises(t) \/ PassDone(t)
      PROVE Shaped'
  <2>1. CASE PassQueue(t)
    BY <2>1, StreamAssumption DEF PassQueue, Goes, Shaped, PassStates, interest
  <2>2. CASE PassStart(t)
    <3>1. pass[t].deploy \in Deploys
      BY <2>2, PassShapes DEF PassStart
    <3>2. PICK lean \in BOOLEAN :
            Goes(t, [at |-> "running", deploy |-> pass[t].deploy, serve |-> Serves(t, lean)])
      BY <2>2 DEF PassStart
    <3>3. Serves(t, lean) \in BOOLEAN
      BY DEF Serves
    <3>4. pass' \in [Tenants -> PassStates]
      BY <3>1, <3>2, <3>3 DEF Goes, Shaped, PassStates
    <3> QED BY <2>2, <3>4 DEF PassStart, Shaped, interest, history
  <2>3. CASE PassRaises(t)
    BY <2>3 DEF PassRaises, Goes, Shaped, PassStates, interest
  <2>4. CASE PassDone(t)
    <3>1. heard' \in [Tenants -> [Names -> Nat]]
      BY <2>4 DEF PassDone, Shaped
    <3> QED BY <2>4, <3>1 DEF PassDone, Goes, Shaped, PassStates, interest
  <2> QED BY <1>6, <2>1, <2>2, <2>3, <2>4
<1>7. ASSUME NEW t \in Tenants, PassCompute(t) PROVE Shaped'
  <2>1. PICK moved \in SUBSET LibraryOf[pass[t].deploy] :
          /\ answer' = [answer EXCEPT ![t] = [n \in Names |-> IF n \in moved THEN @[n] + 1 ELSE @[n]]]
          /\ Goes(t, [at |-> "computed", moved |-> moved, serve |-> pass[t].serve])
    BY <1>7 DEF PassCompute
  <2>2. pass[t].deploy \in Deploys /\ pass[t].serve \in BOOLEAN
    BY <1>7, PassShapes DEF PassCompute
  <2>3. moved \subseteq Names
    BY <2>1, <2>2, Libraries
  <2>4. pass' \in [Tenants -> PassStates]
    BY <2>1, <2>2, <2>3 DEF Goes, Shaped, PassStates
  <2>5. answer' \in [Tenants -> [Names -> Nat]]
    BY <2>1 DEF Shaped
  <2> QED BY <1>7, <2>4, <2>5 DEF PassCompute, Shaped, interest, history
<1>8. ASSUME NEW t \in Tenants, NEW f \in FrameSet, Result(t, f)
      PROVE screen' \in [Clients -> Screens]
  <2> DEFINE v == IF Takes(f.to, tenantOf[f.to]) THEN Shown(t, answer[t][f.name])
                  ELSE screen[f.to][<<"all", f.name>>]
  <2>1. v \in Views \/ v = screen[f.to][<<"all", f.name>>]
    BY DEF Views, Shown, Shaped, FrameSet
  <2>2. screen' = [screen EXCEPT ![f.to][<<"all", f.name>>] = v]
    BY <1>8 DEF Result
  <2> HIDE DEF v
  <2> QED BY <2>1, <2>2, FrameShaped DEF Shaped
<1>9. ASSUME NEW t \in Tenants, PassPublish(t) PROVE Shaped'
  <2>1. pass[t].moved \subseteq Names
    BY <1>9, PassShapes DEF PassPublish
  <2> DEFINE watching == {c \in Clients : joined[c] /\ tenantOf[c] = t /\ firehose[c]}
             all == Frames(IF pass[t].serve THEN pass[t].moved ELSE {}, watching)
  <2>2. all \subseteq FrameSet
    BY <2>1, FramesShaped
  <2>3. /\ \/ Goes(t, [at |-> "publishing", moved |-> pass[t].moved, left |-> {}]) /\ screen' = screen
           \/ \E f \in all : /\ Goes(t, [at |-> "publishing", moved |-> pass[t].moved, left |-> all \ {f}])
                             /\ Result(t, f)
        /\ UNCHANGED <<deploy, ending, answer, lock, interest, socket, history>>
    BY <1>9 DEF PassPublish
  <2> HIDE DEF all
  <2>4. \E left \in SUBSET FrameSet :
          Goes(t, [at |-> "publishing", moved |-> pass[t].moved, left |-> left])
    BY <2>2, <2>3
  <2>5. pass' \in [Tenants -> PassStates]
    BY <2>1, <2>4 DEF Goes, Shaped, PassStates
  <2>6. screen' \in [Clients -> Screens]
    BY <1>8, <2>2, <2>3 DEF Shaped
  <2> QED BY <2>3, <2>5, <2>6 DEF Shaped, interest, history
<1>10. ASSUME NEW t \in Tenants, SendResult(t) \/ SendMoved(t) PROVE Shaped'
  <2>1. pass[t] \in [at : {"publishing", "serving"}, moved : SUBSET Names, left : SUBSET FrameSet]
    BY <1>10, PassShapes DEF SendResult, SendMoved
  <2>2. PICK f \in pass[t].left :
          /\ Goes(t, [pass[t] EXCEPT !.left = @ \ {f}])
          /\ Result(t, f)
               \/ screen' = [screen EXCEPT ![f.to][<<"entry", f.name>>] =
                               IF ~Takes(f.to, Labelled(t, f.to)) THEN @
                               ELSE IF f.failed THEN Error ELSE Shown(t, answer[t][f.name])]
    BY <1>10 DEF SendResult, SendMoved
  <2>3. f \in FrameSet
    BY <2>1, <2>2
  <2>4. [pass[t] EXCEPT !.left = @ \ {f}]
          \in [at : {"publishing", "serving"}, moved : SUBSET Names, left : SUBSET FrameSet]
    BY <2>1
  <2>5. pass' \in [Tenants -> PassStates]
    BY <2>2, <2>4 DEF Goes, Shaped, PassStates
  <2> DEFINE was == screen[f.to][<<"entry", f.name>>]
             v == IF ~Takes(f.to, Labelled(t, f.to)) THEN was
                  ELSE IF f.failed THEN Error ELSE Shown(t, answer[t][f.name])
  <2>6. v \in Views \/ v = was
    BY <2>3 DEF Views, Shown, Shaped, FrameSet
  <2>7. Result(t, f) \/ screen' = [screen EXCEPT ![f.to][<<"entry", f.name>>] = v]
    BY <2>2
  <2> HIDE DEF v
  <2>8. screen' \in [Clients -> Screens]
    BY <1>8, <2>3, <2>6, <2>7, FrameShaped DEF Shaped
  <2> QED BY <1>10, <2>5, <2>8 DEF SendResult, SendMoved, Shaped, interest, history
<1>11. ASSUME NEW t \in Tenants, PassServe(t) PROVE Shaped'
  <2>1. pass[t].moved \subseteq Names
    BY <1>11, PassShapes DEF PassServe
  <2>2. PICK failed \in SUBSET pass[t].moved :
          Goes(t, [at |-> "serving", moved |-> pass[t].moved,
                   left |-> UNION {{[f EXCEPT !.failed = f.name \in failed] :
                                    f \in Frames({n}, Holding(t, n))} : n \in pass[t].moved}])
    BY <1>11 DEF PassServe
  <2>3. ASSUME NEW n \in pass[t].moved, NEW f \in Frames({n}, Holding(t, n))
        PROVE  [f EXCEPT !.failed = f.name \in failed] \in FrameSet
    <3>1. f \in FrameSet
      BY <2>1, FramesShaped DEF Holding
    <3>2. (f.name \in failed) \in BOOLEAN
      OBVIOUS
    <3> QED BY <3>1, <3>2 DEF FrameSet
  <2>4. UNION {{[f EXCEPT !.failed = f.name \in failed] :
                f \in Frames({n}, Holding(t, n))} : n \in pass[t].moved} \subseteq FrameSet
    <3>1. ASSUME NEW g \in UNION {{[f EXCEPT !.failed = f.name \in failed] :
                                   f \in Frames({n}, Holding(t, n))} : n \in pass[t].moved}
          PROVE  g \in FrameSet
      <4>1. PICK n \in pass[t].moved :
              g \in {[f EXCEPT !.failed = f.name \in failed] : f \in Frames({n}, Holding(t, n))}
        OBVIOUS
      <4>2. PICK f \in Frames({n}, Holding(t, n)) : g = [f EXCEPT !.failed = f.name \in failed]
        BY <4>1
      <4> QED BY <2>3, <4>2
    <3> QED BY <3>1
  <2>5. pass' \in [Tenants -> PassStates]
    BY <2>1, <2>2, <2>4 DEF Goes, Shaped, PassStates
  <2>6. faults' \in Nat
    BY <1>11 DEF PassServe, Shaped
  <2> QED BY <1>11, <2>5, <2>6 DEF PassServe, Shaped, interest
<1>12. CASE Teach
  <2>1. entries' \in [Clients -> SUBSET Names]
    BY <1>12 DEF Teach, Shaped
  <2>2. ending' \subseteq Clients \X Names
    BY <1>12 DEF Teach, Shaped, Doomed
  <2> QED BY <1>12, <2>1, <2>2 DEF Teach, Shaped, history
<1>13. CASE SendEnded
  BY <1>13, FrameShaped DEF SendEnded, Shaped, Views, interest, history
<1>14. CASE UNCHANGED vars
  BY <1>14 DEF vars, interest, history, Shaped
<1> QED
  BY <1>1, <1>2, <1>3, <1>4, <1>5, <1>6, <1>7, <1>9, <1>10, <1>11, <1>12, <1>13, <1>14 DEF Next, Passing

-----------------------------------------------------------------------------
(* Whoever asks for a lock joins the end of its line; its holder leaves the *)
(* front.                                                                  *)

LEMMA EndOfLine ==
  ASSUME NEW S, NEW s \in Seq(S), IsInjective(s), NEW x \in S,
         \A i \in 1..Len(s) : s[i] # x
  PROVE  /\ Append(s, x) \in Seq(S) /\ IsInjective(Append(s, x))
         /\ \A y : (\E i \in 1..Len(Append(s, x)) : Append(s, x)[i] = y)
                     <=> y = x \/ \E i \in 1..Len(s) : s[i] = y
         /\ Append(s, x) # <<>>
         /\ s # <<>> => Head(Append(s, x)) = Head(s)
<1>1. /\ Append(s, x) \in Seq(S) /\ Len(Append(s, x)) = Len(s) + 1 /\ Len(s) \in Nat
      /\ \A i \in 1..Len(s) : Append(s, x)[i] = s[i]
      /\ Append(s, x)[Len(s) + 1] = x
  OBVIOUS
<1>2. DOMAIN Append(s, x) = 1..(Len(s) + 1) /\ DOMAIN s = 1..Len(s)
  BY <1>1
<1>3. IsInjective(Append(s, x))
  BY <1>1, <1>2 DEF IsInjective
<1>4. ASSUME NEW y
      PROVE  (\E i \in 1..Len(Append(s, x)) : Append(s, x)[i] = y)
               <=> y = x \/ \E i \in 1..Len(s) : s[i] = y
  BY <1>1
<1>5. Append(s, x) # <<>> /\ (s # <<>> => Head(Append(s, x)) = Head(s))
  BY <1>1
<1> QED BY <1>1, <1>3, <1>4, <1>5

LEMMA FrontOfLine ==
  ASSUME NEW S, NEW s \in Seq(S), IsInjective(s), s # <<>>
  PROVE  /\ Tail(s) \in Seq(S) /\ IsInjective(Tail(s))
         /\ \A y : (\E i \in 1..Len(Tail(s)) : Tail(s)[i] = y)
                     <=> y # Head(s) /\ \E i \in 1..Len(s) : s[i] = y
         /\ \E i \in 1..Len(s) : s[i] = Head(s)
<1>1. /\ Tail(s) \in Seq(S) /\ Len(Tail(s)) = Len(s) - 1 /\ Len(s) \in Nat \ {0}
      /\ \A i \in 1..Len(Tail(s)) : Tail(s)[i] = s[i + 1]
      /\ Head(s) = s[1]
  BY HeadTailProperties, EmptySeq
<1>2. DOMAIN Tail(s) = 1..(Len(s) - 1) /\ DOMAIN s = 1..Len(s)
  BY <1>1
<1>3. IsInjective(Tail(s))
  BY <1>1, <1>2 DEF IsInjective
<1>4. ASSUME NEW i \in 1..Len(s) PROVE s[i] = Head(s) <=> i = 1
  BY <1>1, <1>2 DEF IsInjective
<1>5. ASSUME NEW y
      PROVE  (\E i \in 1..Len(Tail(s)) : Tail(s)[i] = y)
               <=> y # Head(s) /\ \E i \in 1..Len(s) : s[i] = y
  <2>1. ASSUME NEW i \in 1..Len(Tail(s)), Tail(s)[i] = y
        PROVE  y # Head(s) /\ \E j \in 1..Len(s) : s[j] = y
    <3>1. i + 1 \in 1..Len(s) /\ i + 1 # 1 /\ s[i + 1] = y
      BY <2>1, <1>1
    <3> QED BY <3>1, <1>4
  <2>2. ASSUME NEW i \in 1..Len(s), s[i] = y, y # Head(s)
        PROVE  \E j \in 1..Len(Tail(s)) : Tail(s)[j] = y
    <3>1. i - 1 \in 1..Len(Tail(s)) /\ (i - 1) + 1 = i
      BY <2>2, <1>1, <1>4
    <3> QED BY <3>1, <2>2, <1>1
  <2> QED BY <2>1, <2>2
<1>6. \E i \in 1..Len(s) : s[i] = Head(s)
  BY <1>1
<1> QED BY <1>1, <1>3, <1>5, <1>6

LEMMA LockGrows ==
  ASSUME Lines, NEW t \in Tenants, NEW x \in Clients \union {Pass}, ~Waits(t, x),
         lock' = [lock EXCEPT ![t] = Append(@, x)]
  PROVE  /\ Lines'
         /\ \A u \in Tenants : \A y : Waits(u, y)' <=> Waits(u, y) \/ (u = t /\ y = x)
         /\ \A u \in Tenants : \A y : Granted(u, y) => Granted(u, y)'
<1>1. /\ lock'[t] \in Seq(Clients \union {Pass}) /\ IsInjective(lock'[t])
      /\ \A y : (\E i \in 1..Len(lock'[t]) : lock'[t][i] = y)
                  <=> y = x \/ \E i \in 1..Len(lock[t]) : lock[t][i] = y
      /\ lock'[t] # <<>>
      /\ lock[t] # <<>> => Head(lock'[t]) = Head(lock[t])
  <2>1. /\ lock'[t] = Append(lock[t], x) /\ lock[t] \in Seq(Clients \union {Pass})
        /\ IsInjective(lock[t]) /\ \A i \in 1..Len(lock[t]) : lock[t][i] # x
    BY DEF Lines, Waits
  <2> QED BY <2>1, EndOfLine
<1>2. DOMAIN lock' = Tenants /\ \A u \in Tenants \ {t} : lock'[u] = lock[u]
  BY DEF Lines
<1>3. Lines'
  BY <1>1, <1>2 DEF Lines
<1>4. ASSUME NEW u \in Tenants, NEW y PROVE Waits(u, y)' <=> Waits(u, y) \/ (u = t /\ y = x)
  BY <1>1, <1>2 DEF Waits
<1>5. ASSUME NEW u \in Tenants, NEW y, Granted(u, y) PROVE Granted(u, y)'
  BY <1>1, <1>2, <1>5 DEF Granted
<1> QED BY <1>3, <1>4, <1>5

LEMMA LockPasses ==
  ASSUME Lines, NEW t \in Tenants, NEW x \in Clients \union {Pass}, Granted(t, x),
         lock' = [lock EXCEPT ![t] = Tail(@)]
  PROVE  /\ Lines' /\ Waits(t, x)
         /\ \A u \in Tenants : \A y : Waits(u, y)' <=> Waits(u, y) /\ ~(u = t /\ y = x)
<1>1. /\ lock'[t] \in Seq(Clients \union {Pass}) /\ IsInjective(lock'[t])
      /\ \A y : (\E i \in 1..Len(lock'[t]) : lock'[t][i] = y)
                  <=> y # x /\ \E i \in 1..Len(lock[t]) : lock[t][i] = y
      /\ \E i \in 1..Len(lock[t]) : lock[t][i] = x
  <2>1. /\ lock'[t] = Tail(lock[t]) /\ lock[t] \in Seq(Clients \union {Pass})
        /\ IsInjective(lock[t]) /\ lock[t] # <<>> /\ Head(lock[t]) = x
    BY DEF Lines, Granted
  <2> DEFINE s == lock[t]
  <2>2. s \in Seq(Clients \union {Pass}) /\ IsInjective(s) /\ s # <<>> /\ Head(s) = x /\ lock'[t] = Tail(s)
    BY <2>1
  <2> HIDE DEF s
  <2>3. /\ Tail(s) \in Seq(Clients \union {Pass}) /\ IsInjective(Tail(s))
        /\ \A y : (\E i \in 1..Len(Tail(s)) : Tail(s)[i] = y)
                    <=> y # Head(s) /\ \E i \in 1..Len(s) : s[i] = y
        /\ \E i \in 1..Len(s) : s[i] = Head(s)
    BY <2>2, FrontOfLine
  <2>4. /\ lock'[t] \in Seq(Clients \union {Pass}) /\ IsInjective(lock'[t])
        /\ \A y : (\E i \in 1..Len(lock'[t]) : lock'[t][i] = y)
                    <=> y # x /\ \E i \in 1..Len(s) : s[i] = y
        /\ \E i \in 1..Len(s) : s[i] = x
    BY <2>2, <2>3
  <2> QED BY <2>4 DEF s
<1>2. DOMAIN lock' = Tenants /\ \A u \in Tenants \ {t} : lock'[u] = lock[u]
  BY DEF Lines
<1>3. Lines'
  BY <1>1, <1>2 DEF Lines
<1>4. ASSUME NEW u \in Tenants, NEW y PROVE Waits(u, y)' <=> Waits(u, y) /\ ~(u = t /\ y = x)
  <2>1. CASE u = t
    <3>1. (\E i \in 1..Len(lock'[t]) : lock'[t][i] = y)
            <=> y # x /\ \E i \in 1..Len(lock[t]) : lock[t][i] = y
      BY <1>1
    <3> QED BY <2>1, <3>1 DEF Waits
  <2>2. CASE u # t
    BY <1>2, <2>2 DEF Waits
  <2> QED BY <2>1, <2>2
<1> QED BY <1>1, <1>3, <1>4 DEF Waits

\* Two do not hold a lock at once.
LEMMA OneHolds ==
  \A t, x, y : Granted(t, x) /\ Granted(t, y) => x = y
BY DEF Granted

\* A step that leaves the lines alone, and lets past the wait only who holds.
LEMMA LineKept ==
  ASSUME Lines, InLine, Inside, lock' = lock,
         \A c \in Clients : /\ socket'[c].at # "reading" <=> socket[c].at # "reading"
                            /\ socket[c].at # "reading" => tenantOf'[c] = tenantOf[c]
                            /\ socket'[c].at \in {"painting", "entering"} =>
                                 socket[c].at \in {"painting", "entering"} \/ Granted(tenantOf[c], c),
         \A t \in Tenants : /\ pass'[t].at = "idle" <=> pass[t].at = "idle"
                            /\ pass'[t].at \notin {"idle", "waiting"} =>
                                 pass[t].at \notin {"idle", "waiting"} \/ Granted(t, Pass)
  PROVE  Lines' /\ InLine' /\ Inside'
<1>1. \A t, x : (Waits(t, x)' <=> Waits(t, x)) /\ (Granted(t, x)' <=> Granted(t, x))
  BY DEF Waits, Granted
<1>2. Lines'
  BY DEF Lines
<1>3. InLine'
  BY <1>1 DEF InLine
<1>4. Inside'
  <2>1. ASSUME NEW c \in Clients, socket'[c].at \in {"painting", "entering"}
        PROVE  Granted(tenantOf[c], c)'
    <3>1. tenantOf'[c] = tenantOf[c]
      BY <2>1
    <3>2. Granted(tenantOf[c], c)
      BY <2>1 DEF Inside
    <3> QED BY <3>1, <3>2 DEF Granted
  <2>2. ASSUME NEW t \in Tenants, pass'[t].at \notin {"idle", "waiting"}
        PROVE  Granted(t, Pass)'
    <3>1. Granted(t, Pass)
      BY <2>2 DEF Inside
    <3> QED BY <3>1 DEF Granted
  <2> QED BY <2>1, <2>2 DEF Inside, Granted
<1> QED BY <1>2, <1>3, <1>4

\* Dropping a client's frames leaves each pass where it is.
LEMMA WithoutKeeps ==
  ASSUME Shaped, NEW c
  PROVE  /\ DOMAIN Without(c) = Tenants
         /\ \A t \in Tenants :
              /\ Without(c)[t].at = pass[t].at
              /\ pass[t].at \notin {"publishing", "serving"} => Without(c)[t] = pass[t]
              /\ pass[t].at \in {"publishing", "serving"} =>
                   /\ Without(c)[t].moved = pass[t].moved
                   /\ Without(c)[t].left = {f \in pass[t].left : f.to # c}
<1>1. DOMAIN Without(c) = Tenants
  BY DEF Without
<1>2. ASSUME NEW t \in Tenants, pass[t].at \notin {"publishing", "serving"}
      PROVE  Without(c)[t] = pass[t]
  BY <1>2 DEF Without
<1>3. ASSUME NEW t \in Tenants, pass[t].at \in {"publishing", "serving"}
      PROVE  /\ Without(c)[t].at = pass[t].at
             /\ Without(c)[t].moved = pass[t].moved
             /\ Without(c)[t].left = {f \in pass[t].left : f.to # c}
  <2>1. pass[t] \in [at : {"publishing", "serving"}, moved : SUBSET Names, left : SUBSET FrameSet]
    BY <1>3, PassShapes
  <2>2. Without(c)[t] = [pass[t] EXCEPT !.left = {f \in @ : f.to # c}]
    BY <1>3 DEF Without
  <2> QED BY <2>1, <2>2
<1> QED BY <1>1, <1>2, <1>3

-----------------------------------------------------------------------------
(* Whatever happens, who is past the wait is who holds the lock.           *)

\* A subscription, or a pass, takes its place at the end of a line.
LEMMA LineJoined ==
  ASSUME Lines, InLine, Inside, NEW t \in Tenants, NEW x \in Clients \union {Pass}, ~Waits(t, x),
         lock' = [lock EXCEPT ![t] = Append(@, x)],
         \A c \in Clients \ {x} : /\ socket'[c] = socket[c]
                                  /\ socket[c].at # "reading" => tenantOf'[c] = tenantOf[c],
         x \in Clients => socket[x].at = "reading" /\ socket'[x].at = "waiting" /\ tenantOf'[x] = t,
         \A u \in Tenants : ~(x = Pass /\ u = t) => pass'[u].at = pass[u].at,
         x = Pass => pass'[t].at = "waiting"
  PROVE  Lines' /\ InLine' /\ Inside'
<1>1. /\ Lines'
      /\ \A u \in Tenants : \A y : Waits(u, y)' <=> Waits(u, y) \/ (u = t /\ y = x)
  BY LockGrows
<1>2. \A u \in Tenants : \A y : Granted(u, y) => lock'[u] # <<>> /\ Head(lock'[u]) = y
  BY LockGrows DEF Granted
<1>3. Pass \notin Clients
  BY StreamAssumption
<1>4. InLine'
  <2>1. ASSUME NEW c \in Clients, NEW u \in Tenants
        PROVE  Waits(u, c)' <=> socket'[c].at # "reading" /\ tenantOf'[c] = u
    <3>1. CASE c = x
      BY <1>1, <3>1 DEF InLine
    <3>2. CASE c # x
      BY <1>1, <3>2 DEF InLine
    <3> QED BY <3>1, <3>2
  <2>2. ASSUME NEW c \in Clients, socket'[c].at # "reading" PROVE tenantOf'[c] \in Tenants
    BY <2>2 DEF InLine
  <2>3. ASSUME NEW u \in Tenants PROVE Waits(u, Pass)' <=> pass'[u].at # "idle"
    <3>1. CASE x = Pass /\ u = t
      BY <1>1, <3>1
    <3>2. CASE ~(x = Pass /\ u = t)
      BY <1>1, <3>2 DEF InLine
    <3> QED BY <3>1, <3>2
  <2> QED BY <2>1, <2>2, <2>3 DEF InLine
<1>5. Inside'
  <2>1. ASSUME NEW c \in Clients, socket'[c].at \in {"painting", "entering"}
        PROVE  tenantOf'[c] \in Tenants /\ Granted(tenantOf'[c], c)
    <3>1. c # x
      BY <2>1
    <3>2. socket'[c] = socket[c] /\ tenantOf'[c] = tenantOf[c] /\ tenantOf[c] \in Tenants
      BY <2>1, <3>1 DEF InLine
    <3> QED BY <2>1, <3>2 DEF Inside
  <2>2. ASSUME NEW u \in Tenants, pass'[u].at \notin {"idle", "waiting"}
        PROVE  Granted(u, Pass)
    BY <2>2 DEF Inside
  <2> QED BY <1>2, <2>1, <2>2 DEF Inside, Granted
<1> QED BY <1>1, <1>4, <1>5

\* A holder leaves, and whoever waits longest is next.
LEMMA LineLeft ==
  ASSUME Lines, InLine, Inside, NEW t \in Tenants, NEW x \in Clients \union {Pass}, Granted(t, x),
         lock' = [lock EXCEPT ![t] = Tail(@)], tenantOf' = tenantOf,
         \A c \in Clients \ {x} : socket'[c] = socket[c],
         x \in Clients => tenantOf[x] = t /\ socket'[x].at = "reading",
         \A u \in Tenants : ~(x = Pass /\ u = t) => pass'[u].at = pass[u].at,
         x = Pass => pass'[t].at = "idle"
  PROVE  Lines' /\ InLine' /\ Inside'
<1>1. /\ Lines' /\ Waits(t, x)
      /\ \A u \in Tenants : \A y : Waits(u, y)' <=> Waits(u, y) /\ ~(u = t /\ y = x)
  BY LockPasses
<1>2. \A u \in Tenants \ {t} : lock'[u] = lock[u]
  BY DEF Lines
<1>3. Pass \notin Clients
  BY StreamAssumption
<1>4. InLine'
  <2>1. ASSUME NEW c \in Clients, NEW u \in Tenants
        PROVE  Waits(u, c)' <=> socket'[c].at # "reading" /\ tenantOf'[c] = u
    <3>1. CASE c = x
      <4>1. Waits(u, c)' <=> Waits(u, x) /\ u # t
        BY <1>1, <3>1
      <4>2. Waits(u, x) => u = t
        BY <3>1 DEF InLine
      <4> QED BY <4>1, <4>2, <3>1
    <3>2. CASE c # x
      BY <1>1, <3>2 DEF InLine
    <3> QED BY <3>1, <3>2
  <2>2. ASSUME NEW c \in Clients, socket'[c].at # "reading" PROVE tenantOf'[c] \in Tenants
    BY <2>2 DEF InLine
  <2>3. ASSUME NEW u \in Tenants PROVE Waits(u, Pass)' <=> pass'[u].at # "idle"
    <3>1. CASE x = Pass /\ u = t
      BY <1>1, <3>1
    <3>2. CASE ~(x = Pass /\ u = t)
      BY <1>1, <3>2 DEF InLine
    <3> QED BY <3>1, <3>2
  <2> QED BY <2>1, <2>2, <2>3 DEF InLine
<1>5. Inside'
  <2>1. ASSUME NEW c \in Clients, socket'[c].at \in {"painting", "entering"}
        PROVE  tenantOf[c] \in Tenants \ {t} /\ Granted(tenantOf[c], c)
    <3>1. c # x /\ socket'[c] = socket[c]
      BY <2>1
    <3>2. Granted(tenantOf[c], c) /\ tenantOf[c] \in Tenants
      BY <2>1, <3>1 DEF Inside, InLine
    <3> QED BY <3>1, <3>2, OneHolds
  <2>2. ASSUME NEW u \in Tenants, pass'[u].at \notin {"idle", "waiting"}
        PROVE  u # t /\ Granted(u, Pass)
    <3>1. ~(x = Pass /\ u = t) /\ Granted(u, Pass)
      BY <2>2 DEF Inside
    <3> QED BY <3>1, OneHolds
  <2> QED BY <1>2, <2>1, <2>2 DEF Inside, Granted
<1> QED BY <1>1, <1>4, <1>5

LEMMA LineInductive ==
  ASSUME Shaped, Lines, InLine, Inside, [Next]_vars
  PROVE  Lines' /\ InLine' /\ Inside'
<1> USE DEF Reading, Resting
<1>1. ASSUME NEW c \in Clients, Connect(c) PROVE Lines' /\ InLine' /\ Inside'
  BY <1>1, LineKept DEF Connect, Shaped
<1>2. ASSUME NEW c \in Clients, HangUp(c) PROVE Lines' /\ InLine' /\ Inside'
  BY <1>2, LineKept, WithoutKeeps DEF HangUp
<1>3. ASSUME NEW c \in Clients, NEW a \in Asks, Subscribe(c, a) PROVE Lines' /\ InLine' /\ Inside'
  <2>1. a.tenant \in Tenants
    BY StreamAssumption
  <2>2. socket[c].at = "reading"
    BY <1>3 DEF Subscribe, Sends
  <2>3. ~Waits(a.tenant, c)
    BY <2>1, <2>2 DEF InLine
  <2>4. c # Pass
    BY StreamAssumption
  <2>5. /\ \A d \in Clients \ {c} : socket'[d] = socket[d] /\ tenantOf'[d] = tenantOf[d]
        /\ socket'[c].at = "waiting" /\ tenantOf'[c] = a.tenant
        /\ lock' = [lock EXCEPT ![a.tenant] = Append(@, c)] /\ pass' = pass
    BY <1>3 DEF Subscribe, Shaped
  <2> QED BY <2>1, <2>2, <2>3, <2>4, <2>5, LineJoined
<1>4. ASSUME NEW c \in Clients, NEW a \in Asks, Unsubscribe(c, a) PROVE Lines' /\ InLine' /\ Inside'
  BY <1>4, LineKept DEF Unsubscribe
<1>5. ASSUME NEW c \in Clients, Answering(c), ~Subscribed(c) PROVE Lines' /\ InLine' /\ Inside'
  <2>1. /\ socket[c].at \in {"painting", "entering"} \/ Granted(tenantOf[c], c)
        /\ socket[c].at # "reading" /\ socket'[c].at # "reading"
        /\ \A d \in Clients \ {c} : socket'[d] = socket[d]
    <3>1. CASE Paint(c)
      BY <3>1 DEF Paint, Shaped
    <3>2. CASE SendPaint(c)
      <4>1. socket[c] \in Painting
        BY <3>2, SocketShapes DEF SendPaint
      <4> QED BY <3>2, <4>1 DEF SendPaint, Shaped, Painting
    <3>3. CASE Refuse(c) \/ Register(c) \/ SendEntry(c)
      <4>1. socket[c] \in Asking /\ (socket[c].at = "entering" \/ Granted(tenantOf[c], c))
        BY <3>3, SocketShapes DEF Refuse, Register, SendEntry, Between
      <4>2. /\ socket'[c].at \in {"entering", socket[c].at}
            /\ \A d \in Clients \ {c} : socket'[d] = socket[d]
        <5>1. CASE Refuse(c)
          BY <5>1, <4>1 DEF Refuse, Shaped, Asking
        <5>2. CASE Register(c)
          BY <5>2, <4>1 DEF Register, Shaped, Asking
        <5>3. CASE SendEntry(c)
          BY <5>3, <4>1 DEF SendEntry, Shaped, Asking
        <5> QED BY <3>3, <5>1, <5>2, <5>3
      <4> QED BY <4>1, <4>2 DEF Asking
    <3> QED BY <1>5, <3>1, <3>2, <3>3 DEF Answering
  <2>2. UNCHANGED <<lock, tenantOf, pass>>
    BY <1>5 DEF Answering, Paint, SendPaint, Refuse, Register, SendEntry, interest
  <2> QED BY <2>1, <2>2, LineKept
<1>6. ASSUME NEW c \in Clients, Subscribed(c) \/ FetchRaises(c) PROVE Lines' /\ InLine' /\ Inside'
  <2>1. socket[c].at # "reading"
    BY <1>6 DEF Subscribed, FetchRaises, Between
  <2>2. tenantOf[c] \in Tenants /\ c # Pass
    BY <2>1, StreamAssumption DEF InLine
  <2>3. Granted(tenantOf[c], c)
    BY <1>6 DEF Subscribed, FetchRaises, Between, Inside
  <2>4. /\ lock' = [lock EXCEPT ![tenantOf[c]] = Tail(@)] /\ tenantOf' = tenantOf
        /\ \A d \in Clients \ {c} : socket'[d] = socket[d]
        /\ socket'[c].at = "reading"
    BY <1>6 DEF Subscribed, FetchRaises, Release, Unwound, interest, Shaped
  <2>5. \A t \in Tenants : pass'[t].at = pass[t].at
    BY <1>6, WithoutKeeps DEF Subscribed, FetchRaises
  <2> QED BY <2>2, <2>3, <2>4, <2>5, LineLeft
<1>7. ASSUME NEW t \in Tenants, PassQueue(t) PROVE Lines' /\ InLine' /\ Inside'
  <2>1. ~Waits(t, Pass)
    BY <1>7 DEF PassQueue, InLine
  <2>2. /\ lock' = [lock EXCEPT ![t] = Append(@, Pass)] /\ UNCHANGED <<socket, tenantOf>>
        /\ \A u \in Tenants \ {t} : pass'[u].at = pass[u].at
        /\ pass'[t].at = "waiting"
    BY <1>7 DEF PassQueue, Goes, interest, Shaped
  <2> QED BY <2>1, <2>2, LineJoined, StreamAssumption
<1>8. ASSUME NEW t \in Tenants, PassDone(t) \/ PassRaises(t) PROVE Lines' /\ InLine' /\ Inside'
  <2>1. Granted(t, Pass)
    BY <1>8 DEF PassDone, PassRaises, Inside
  <2>2. /\ lock' = [lock EXCEPT ![t] = Tail(@)] /\ UNCHANGED <<socket, tenantOf>>
        /\ \A u \in Tenants \ {t} : pass'[u].at = pass[u].at
        /\ pass'[t].at = "idle"
    BY <1>8 DEF PassDone, PassRaises, Release, Unwound, Goes, interest, Shaped
  <2> QED BY <2>1, <2>2, LineLeft, StreamAssumption
<1>9. ASSUME NEW t \in Tenants, Passing(t), ~PassDone(t) PROVE Lines' /\ InLine' /\ Inside'
  <2>1. /\ pass[t].at # "idle" /\ (pass[t].at = "waiting" => Granted(t, Pass))
        /\ UNCHANGED <<lock, socket, tenantOf>>
    BY <1>9 DEF Passing, PassStart, PassCompute, PassPublish, SendResult, PassServe, SendMoved, interest
  <2>2. \E where : pass' = [pass EXCEPT ![t] = where] /\ where.at \notin {"idle", "waiting"}
    <3>1. CASE SendResult(t) \/ SendMoved(t)
      <4>1. pass[t] \in [at : {"publishing", "serving"}, moved : SUBSET Names, left : SUBSET FrameSet]
        BY <3>1, PassShapes DEF SendResult, SendMoved
      <4>2. PICK f : pass' = [pass EXCEPT ![t] = [pass[t] EXCEPT !.left = @ \ {f}]]
        BY <3>1 DEF SendResult, SendMoved, Goes
      <4>3. [pass[t] EXCEPT !.left = @ \ {f}].at = pass[t].at
        BY <4>1
      <4> QED BY <4>1, <4>2, <4>3
    <3>2. CASE PassStart(t)
      <4>1. PICK lean \in BOOLEAN :
              pass' = [pass EXCEPT ![t] = [at |-> "running", deploy |-> pass[t].deploy, serve |-> Serves(t, lean)]]
        BY <3>2 DEF PassStart, Goes
      <4>2. \A x, y : [at |-> "running", deploy |-> x, serve |-> y].at \notin {"idle", "waiting"}
        OBVIOUS
      <4> QED BY <4>1, <4>2
    <3>4. CASE PassCompute(t)
      BY <3>4 DEF PassCompute, Goes
    <3>5. CASE PassServe(t)
      BY <3>5 DEF PassServe, Goes
    <3>3. CASE PassPublish(t)
      BY <3>3 DEF PassPublish, Goes
    <3> QED BY <1>9, <3>1, <3>2, <3>3, <3>4, <3>5 DEF Passing
  <2>3. \A u \in Tenants \ {t} : pass'[u] = pass[u]
    BY <2>2 DEF Shaped
  <2>4. pass'[t].at \notin {"idle", "waiting"}
    BY <2>2 DEF Shaped
  <2> QED BY <2>1, <2>3, <2>4, LineKept DEF Inside
<1>10. CASE Teach \/ SendEnded \/ UNCHANGED vars
  BY <1>10, LineKept DEF Teach, SendEnded, vars, interest
<1> QED
  BY <1>1, <1>2, <1>3, <1>4, <1>5, <1>6, <1>7, <1>8, <1>9, <1>10 DEF Next, Answering, Passing

-----------------------------------------------------------------------------
(* Who follows nothing, and how far an answer has moved.                   *)

LEMMA BoardFirstInductive ==
  ASSUME Shaped, InLine, BoardFirst, [Next]_vars
  PROVE  BoardFirst'
<1> USE DEF BoardFirst
<1>1. None \notin Tenants
  BY StreamAssumption
<1>2. ASSUME NEW c \in Clients, Connect(c) PROVE BoardFirst'
  BY <1>2 DEF Connect, Shaped
<1>3. ASSUME NEW c \in Clients, NEW a \in Asks, Subscribe(c, a) PROVE BoardFirst'
  <2>1. a.tenant \in Tenants
    BY StreamAssumption
  <2> QED BY <1>1, <1>3, <2>1 DEF Subscribe, Shaped
<1>4. ASSUME NEW c \in Clients, NEW a \in Asks, Unsubscribe(c, a) PROVE BoardFirst'
  BY <1>4 DEF Unsubscribe, Shaped
<1>5. ASSUME NEW c \in Clients, Register(c) \/ SendEntry(c) PROVE BoardFirst'
  <2>1. tenantOf[c] # None
    BY <1>1, <1>5, ZenonT(40) DEF Register, SendEntry, Between, InLine
  <2> QED BY <1>5, <2>1 DEF Register, SendEntry, Shaped
<1>6. CASE Teach
  BY <1>6 DEF Teach, Shaped
<1>7. ASSUME UNCHANGED <<tenantOf, firehose, entries>> PROVE BoardFirst'
  BY <1>7
<1> QED
  BY <1>2, <1>3, <1>4, <1>5, <1>6, <1>7
  DEF Next, Answering, HangUp, FetchRaises, Paint, SendPaint, Refuse, Subscribed, Passing, PassQueue,
      PassStart, PassCompute, PassPublish, SendResult, PassServe, SendMoved, PassDone, PassRaises,
      SendEnded, vars, interest

LEMMA Sums == \A m, n \in Nat : (m <= n => m <= n + 1) /\ (m < n => m + 1 <= n) /\ (m <= n => m < n + 1)
OBVIOUS

LEMMA CountedInductive ==
  ASSUME Shaped, Counted, [Next]_vars
  PROVE  Counted'
<1>1. /\ passes \in Nat
      /\ \A t \in Tenants, n \in Names : answer[t][n] \in Nat /\ heard[t][n] \in Nat
  BY StreamAssumption DEF Shaped
<1>2. ASSUME UNCHANGED <<answer, heard, passes>>,
             \A t \in Tenants : pass'[t].at \in {"waiting", "running"} =>
                                  pass[t].at \in {"waiting", "running"}
      PROVE  Counted'
  BY <1>2 DEF Counted
<1>3. ASSUME NEW t \in Tenants, PassQueue(t) PROVE Counted'
  <2>1. UNCHANGED <<answer, heard>> /\ passes' = passes + 1
    BY <1>3 DEF PassQueue
  <2> QED BY <1>1, <2>1, Sums DEF Counted
<1>4. ASSUME NEW t \in Tenants, PassCompute(t) PROVE Counted'
  <2>1. PICK moved : /\ answer' = [answer EXCEPT ![t] = [n \in Names |-> IF n \in moved THEN @[n] + 1 ELSE @[n]]]
                     /\ pass' = [pass EXCEPT ![t] = [at |-> "computed", moved |-> moved, serve |-> pass[t].serve]]
    BY <1>4 DEF PassCompute, Goes
  <2>2. pass[t].at = "running" /\ UNCHANGED <<heard, passes>>
    BY <1>4 DEF PassCompute, history
  <2>3. pass'[t].at = "computed" /\ \A u \in Tenants \ {t} : pass'[u] = pass[u]
    BY <2>1 DEF Shaped
  <2>4. /\ \A n \in Names : answer'[t][n] = IF n \in moved THEN answer[t][n] + 1 ELSE answer[t][n]
        /\ \A u \in Tenants \ {t} : answer'[u] = answer[u]
    BY <2>1 DEF Shaped
  <2>5. ASSUME NEW n \in Names
        PROVE  heard'[t][n] <= answer'[t][n] /\ answer'[t][n] <= passes'
    <3>1. heard[t][n] <= answer[t][n] /\ answer[t][n] < passes /\ answer[t][n] <= passes
      BY <2>2 DEF Counted
    <3>2. CASE n \in moved
      BY <1>1, <2>2, <2>4, <3>1, <3>2, Sums
    <3>3. CASE n \notin moved
      BY <2>2, <2>4, <3>1, <3>3
    <3> QED BY <3>2, <3>3
  <2>6. ASSUME NEW u \in Tenants \ {t}, NEW n \in Names
        PROVE  /\ heard'[u][n] <= answer'[u][n] /\ answer'[u][n] <= passes'
               /\ pass'[u].at \in {"waiting", "running"} => answer'[u][n] < passes'
    BY <2>2, <2>3, <2>4 DEF Counted
  <2> QED BY <2>3, <2>5, <2>6 DEF Counted
<1>5. ASSUME NEW t \in Tenants, PassDone(t) PROVE Counted'
  <2>1. /\ heard' = [heard EXCEPT ![t] = [n \in Names |-> IF n \in pass[t].moved THEN answer[t][n] ELSE @[n]]]
        /\ UNCHANGED <<answer, passes>>
    BY <1>5 DEF PassDone
  <2>2. \A u \in Tenants : pass'[u].at \in {"waiting", "running"} => pass'[u] = pass[u]
    BY <1>5 DEF PassDone, Goes, Resting, Shaped
  <2>3. \A u \in Tenants, n \in Names : heard'[u][n] <= answer[u][n]
    BY <1>1, <2>1 DEF Counted, Shaped
  <2> QED BY <2>1, <2>2, <2>3 DEF Counted
<1>6. ASSUME NEW t \in Tenants,
             PassStart(t) \/ PassPublish(t) \/ SendResult(t) \/ PassServe(t) \/ SendMoved(t) \/ PassRaises(t)
      PROVE  Counted'
  <2>1. UNCHANGED <<answer, heard, passes>>
    BY <1>6 DEF PassStart, PassPublish, SendResult, PassServe, SendMoved, PassRaises, history
  <2>2. CASE PassStart(t)
    BY <1>2, <2>1, <2>2 DEF PassStart, Goes, Shaped
  <2>3. CASE ~PassStart(t)
    <3>1. \A u \in Tenants \ {t} : pass'[u] = pass[u]
      BY <1>6, <2>3 DEF PassPublish, SendResult, PassServe, SendMoved, PassRaises, Goes, Shaped
    <3>2. pass'[t].at \notin {"waiting", "running"}
      <4>1. CASE SendResult(t) \/ SendMoved(t)
        <5>1. pass[t] \in [at : {"publishing", "serving"}, moved : SUBSET Names, left : SUBSET FrameSet]
          BY <4>1, PassShapes DEF SendResult, SendMoved
        <5>2. PICK f : pass' = [pass EXCEPT ![t] = [pass[t] EXCEPT !.left = @ \ {f}]]
          BY <4>1 DEF SendResult, SendMoved, Goes
        <5> QED BY <5>1, <5>2 DEF Shaped
      <4>2. CASE PassPublish(t)
        <5>1. PICK left :
                pass' = [pass EXCEPT ![t] = [at |-> "publishing", moved |-> pass[t].moved, left |-> left]]
          BY <4>2 DEF PassPublish, Goes
        <5> QED BY <5>1 DEF Shaped
      <4>3. CASE PassServe(t)
        BY <4>3 DEF PassServe, Goes, Shaped
      <4>4. CASE PassRaises(t)
        BY <4>4 DEF PassRaises, Goes, Shaped, Resting
      <4> QED BY <1>6, <2>3, <4>1, <4>2, <4>3, <4>4
    <3> QED BY <1>2, <2>1, <3>1, <3>2
  <2> QED BY <2>2, <2>3
<1>7. ASSUME NEW c \in Clients, HangUp(c) \/ FetchRaises(c) PROVE Counted'
  BY <1>2, <1>7, WithoutKeeps DEF HangUp, FetchRaises, history
<1>8. ASSUME UNCHANGED <<answer, heard, passes, pass>> PROVE Counted'
  BY <1>2, <1>8
<1> QED
  BY <1>3, <1>4, <1>5, <1>6, <1>7, <1>8
  DEF Next, Answering, Connect, Subscribe, Unsubscribe, Paint, SendPaint, Refuse, Register, SendEntry,
      Subscribed, Passing, Teach, SendEnded, vars, interest, history

-----------------------------------------------------------------------------
(* What a step leaves of what a client is owed.                            *)

LEMMA NotNone ==
  /\ None \notin Tenants
  /\ Error # None /\ Error.of = None
  /\ \A t \in Tenants, x \in Nat : Shown(t, x) # None /\ Shown(t, x).of = t /\ Shown(t, x).value = x
<1>1. None \notin Tenants
  BY StreamAssumption
<1>2. \A t \in Tenants \union {None}, x \in Nat : [of |-> t, value |-> x] # None
  BY StreamAssumption
<1> QED BY <1>1, <1>2 DEF Error, Shown

\* A refusal says that the answer is not there, and an answer is never behind
\* itself, nor behind one of another board.
LEMMA FramesAreFresh ==
  /\ \A t \in Tenants : \A w : AtLeast(Error, t, w)
  /\ \A t \in Tenants, x \in Nat : AtLeast(Shown(t, x), t, x)
  /\ \A t, u \in Tenants, x \in Nat : \A w : t # u => AtLeast(Shown(t, x), u, w)
BY NotNone DEF AtLeast

LEMMA FreshEnough ==
  ASSUME NEW shown \in Views, NEW t \in Tenants, NEW w \in Nat, NEW x \in Nat, w <= x, AtLeast(shown, t, x)
  PROVE  AtLeast(shown, t, w)
<1>1. shown # None => shown.value \in Nat
  BY DEF Views, Error
<1> QED BY <1>1 DEF AtLeast

LEMMA Viewed ==
  ASSUME Shaped, NEW c \in Clients, NEW n \in Names
  PROVE  /\ screen[c][<<"all", n>>] \in Views /\ screen[c][<<"entry", n>>] \in Views
         /\ <<"all", n>> \in Addresses /\ <<"entry", n>> \in Addresses
<1>1. <<"all", n>> \in Addresses /\ <<"entry", n>> \in Addresses
  BY DEF Addresses, Modes
<1> QED BY <1>1 DEF Shaped, Screens

\* Whoever follows anything watches a board.
LEMMA FollowersWatch ==
  ASSUME Shaped, BoardFirst, NEW c \in Clients, NEW n \in Names, Watched(c, n) \/ Held(c, n)
  PROVE  tenantOf[c] \in Tenants
BY DEF Shaped, BoardFirst, Watched, Held

\* A step that leaves each pass where it is, and what it owes a client.
PassesKept(c) ==
  \A t \in Tenants :
    /\ pass'[t].at = pass[t].at
    /\ pass[t].at \notin {"publishing", "serving"} => pass'[t] = pass[t]
    /\ pass[t].at \in {"publishing", "serving"} =>
         /\ pass'[t].moved = pass[t].moved
         /\ \A f \in pass[t].left : f.to = c => f \in pass'[t].left

\* What a client follows after a step it followed before, and its screen kept it;
\* or the step showed it the answer that the tables give.
LEMMA ClientKept ==
  ASSUME Shaped, Shaped', BoardFirst', Counted, NEW c \in Clients, Delivered(c),
         UNCHANGED <<answer, heard>>, tenantOf'[c] = tenantOf[c], PassesKept(c),
         \A n \in Names : Watched(c, n)' =>
           \/ Watched(c, n) /\ screen'[c][<<"all", n>>] = screen[c][<<"all", n>>]
           \/ AtLeast(screen'[c][<<"all", n>>], tenantOf[c], answer[tenantOf[c]][n]),
         \A n \in Names : Held(c, n)' =>
           \/ Held(c, n) /\ screen'[c][<<"entry", n>>] = screen[c][<<"entry", n>>]
           \/ AtLeast(screen'[c][<<"entry", n>>], tenantOf[c], answer[tenantOf[c]][n])
  PROVE  Fresh(c)' /\ Published(c)' /\ Served(c)'
<1>1. ASSUME NEW n \in Names, tenantOf[c] \in Tenants
      PROVE  /\ answer[tenantOf[c]][n] \in Nat /\ heard[tenantOf[c]][n] \in Nat
             /\ heard[tenantOf[c]][n] <= answer[tenantOf[c]][n]
  BY <1>1 DEF Shaped, Counted
<1>2. ASSUME NEW n \in Names, Watched(c, n)' \/ Held(c, n)' PROVE tenantOf[c] \in Tenants
  <2>1. tenantOf'[c] # None
    BY <1>2 DEF BoardFirst, Watched, Held, Shaped
  <2> QED BY <2>1 DEF Shaped
<1>3. \A n \in Names : screen'[c][<<"all", n>>] \in Views /\ screen'[c][<<"entry", n>>] \in Views
  <2>1. screen' \in [Clients -> Screens]
    BY DEF Shaped
  <2>2. \A n \in Names : <<"all", n>> \in Addresses /\ <<"entry", n>> \in Addresses
    BY DEF Addresses, Modes
  <2> QED BY <2>1, <2>2 DEF Screens
<1>4. Fresh(c)'
  <2>1. ASSUME NEW n \in Names, Watched(c, n)'
        PROVE  AtLeast(screen'[c][<<"all", n>>], tenantOf[c], heard[tenantOf[c]][n])
    <3>1. CASE Watched(c, n) /\ screen'[c][<<"all", n>>] = screen[c][<<"all", n>>]
      BY <3>1 DEF Delivered, Fresh, Follow
    <3>2. CASE AtLeast(screen'[c][<<"all", n>>], tenantOf[c], answer[tenantOf[c]][n])
      BY <1>1, <1>2, <1>3, <2>1, <3>2, FreshEnough
    <3> QED BY <2>1, <3>1, <3>2
  <2>2. ASSUME NEW n \in Names, Held(c, n)'
        PROVE  AtLeast(screen'[c][<<"entry", n>>], tenantOf[c], heard[tenantOf[c]][n])
    <3>1. CASE Held(c, n) /\ screen'[c][<<"entry", n>>] = screen[c][<<"entry", n>>]
      BY <3>1 DEF Delivered, Fresh, Follow
    <3>2. CASE AtLeast(screen'[c][<<"entry", n>>], tenantOf[c], answer[tenantOf[c]][n])
      BY <1>1, <1>2, <1>3, <2>2, <3>2, FreshEnough
    <3> QED BY <2>2, <3>1, <3>2
  <2> QED BY <2>1, <2>2 DEF Fresh, Follow
<1>5. ASSUME NEW t \in Tenants, NEW n \in Names, Owed(t, c, n), pass[t].at \in {"publishing", "serving"}
      PROVE  Owed(t, c, n)'
  BY <1>5 DEF Owed, PassesKept
<1>6. Published(c)'
  <2> SUFFICES ASSUME NEW t \in Tenants, NEW n \in Names, pass'[t].at \in {"publishing", "serving"},
                      tenantOf[c] = t, n \in pass'[t].moved, Watched(c, n)'
               PROVE  \/ pass'[t].at = "publishing" /\ Owed(t, c, n)'
                      \/ AtLeast(screen'[c][<<"all", n>>], t, answer[t][n])
    BY DEF Published
  <2>1. pass'[t].at = pass[t].at /\ n \in pass[t].moved
    BY DEF PassesKept
  <2>2. CASE Watched(c, n) /\ screen'[c][<<"all", n>>] = screen[c][<<"all", n>>]
    <3>1. \/ pass[t].at = "publishing" /\ Owed(t, c, n)
          \/ AtLeast(screen[c][<<"all", n>>], t, answer[t][n])
      BY <2>1, <2>2 DEF Delivered, Published
    <3> QED BY <1>5, <2>1, <2>2, <3>1
  <2> QED BY <2>2
<1>7. Served(c)'
  <2> SUFFICES ASSUME NEW t \in Tenants, NEW n \in Names, pass'[t].at = "serving",
                      tenantOf[c] = t, n \in pass'[t].moved, Held(c, n)'
               PROVE  Owed(t, c, n)' \/ AtLeast(screen'[c][<<"entry", n>>], t, answer[t][n])
    BY DEF Served
  <2>1. pass'[t].at = pass[t].at /\ n \in pass[t].moved
    BY DEF PassesKept
  <2>2. CASE Held(c, n) /\ screen'[c][<<"entry", n>>] = screen[c][<<"entry", n>>]
    <3>1. Owed(t, c, n) \/ AtLeast(screen[c][<<"entry", n>>], t, answer[t][n])
      BY <2>1, <2>2 DEF Delivered, Served
    <3> QED BY <1>5, <2>1, <2>2, <3>1
  <2> QED BY <2>2
<1> QED BY <1>4, <1>6, <1>7

\* A frame that is the tables', or that refuses, puts no screen ahead of them.
LEMMA FrameNotAhead ==
  ASSUME Shaped, NEW c \in Clients, NoneAhead(c), NEW d, NEW a, NEW v,
         screen' = [screen EXCEPT ![d][a] = v], answer' = answer,
         \/ v = screen[d][a] \/ v = Error
         \/ a[2] \in Names /\ \E t \in Tenants : v = Shown(t, answer[t][a[2]])
  PROVE  NoneAhead(c)'
<1> SUFFICES ASSUME NEW b \in Addresses, screen'[c][b] \notin {None, Error}
             PROVE  screen'[c][b].value <= answer[screen'[c][b].of][b[2]]
  BY DEF NoneAhead
<1>1. CASE screen'[c][b] = screen[c][b]
  BY <1>1 DEF NoneAhead
<1>2. CASE screen'[c][b] # screen[c][b]
  <2>1. c = d /\ b = a /\ screen'[c][b] = v
    BY <1>2 DEF Shaped, Screens
  <2>2. PICK t \in Tenants : v = Shown(t, answer[t][a[2]])
    BY <1>2, <2>1
  <2>3. answer[t][b[2]] \in Nat
    BY <2>1, <1>2 DEF Shaped, Addresses, Modes
  <2>4. answer[t][b[2]] <= answer[t][b[2]]
    BY <2>3
  <2> QED BY <2>1, <2>2, <2>4 DEF Shown
<1> QED BY <1>1, <1>2

\* What a client's own doings, or another's, leave a client of.
LEMMA OthersDelivered ==
  ASSUME Shaped, Shaped', BoardFirst', Counted, NEW d \in Clients, Delivered(d),
         UNCHANGED <<answer, heard>>, PassesKept(d),
         joined'[d] = joined[d], tenantOf'[d] = tenantOf[d], firehose'[d] = firehose[d],
         entries'[d] \subseteq entries[d], socket'[d] = socket[d], screen'[d] = screen[d]
  PROVE  Delivered(d)'
<1>1. \A n \in Names : (Watched(d, n)' => Watched(d, n)) /\ (Held(d, n)' => Held(d, n))
  BY DEF Watched, PaintDue, Held
<1>2. Fresh(d)' /\ Published(d)' /\ Served(d)'
  BY <1>1, ClientKept
<1>3. NoneAhead(d)' /\ PaintsTables(d)'
  BY DEF Delivered, NoneAhead, PaintsTables
<1>4. NobodyUnserved(d)'
  BY DEF Delivered, NobodyUnserved, PassesKept
<1> QED BY <1>2, <1>3, <1>4 DEF Delivered

-----------------------------------------------------------------------------
(* A client's own steps leave it owed nothing they do not show it.         *)

\* A step of its own that leaves each pass as it is.
LEMMA OwnKept ==
  ASSUME Shaped, Shaped', BoardFirst', Counted, NEW c \in Clients, Delivered(c),
         UNCHANGED <<answer, heard, pass>>, tenantOf'[c] = tenantOf[c], NoneAhead(c)', PaintsTables(c)',
         \A t \in Tenants : pass[t].at \in {"running", "computed"} /\ tenantOf[c] = t
                              /\ joined'[c] /\ firehose'[c] =>
                            joined[c] /\ firehose[c] /\ socket'[c] = socket[c],
         \A n \in Names : Watched(c, n)' =>
           \/ Watched(c, n) /\ screen'[c][<<"all", n>>] = screen[c][<<"all", n>>]
           \/ AtLeast(screen'[c][<<"all", n>>], tenantOf[c], answer[tenantOf[c]][n]),
         \A n \in Names : Held(c, n)' =>
           \/ Held(c, n) /\ screen'[c][<<"entry", n>>] = screen[c][<<"entry", n>>]
           \/ AtLeast(screen'[c][<<"entry", n>>], tenantOf[c], answer[tenantOf[c]][n])
  PROVE  Delivered(c)'
<1>1. PassesKept(c)
  BY DEF PassesKept
<1>2. Fresh(c)' /\ Published(c)' /\ Served(c)'
  BY <1>1, ClientKept
<1>3. NobodyUnserved(c)'
  BY DEF Delivered, NobodyUnserved
<1> QED BY <1>2, <1>3 DEF Delivered

\* A client that has gone is owed nothing.
LEMMA GoneDelivered ==
  ASSUME Shaped, NEW c \in Clients, Delivered(c), HangUp(c) \/ FetchRaises(c)
  PROVE  Delivered(c)'
<1>1. /\ joined'[c] = FALSE /\ screen'[c] = Blank /\ UNCHANGED <<answer, tenantOf>>
      /\ socket'[c] = socket[c] \/ socket'[c] = Reading
  BY DEF HangUp, FetchRaises, Shaped
<1>2. NoneAhead(c)'
  BY <1>1 DEF NoneAhead, Blank
<1>3. PaintsTables(c)'
  BY <1>1 DEF Delivered, PaintsTables, Reading
<1> QED BY <1>1, <1>2, <1>3 DEF Delivered, Fresh, Follow, NobodyUnserved, Published, Served, Watched, Held

\* A new socket follows nothing.
LEMMA ConnectDelivered ==
  ASSUME Shaped, NEW c \in Clients, Delivered(c), Connect(c)
  PROVE  Delivered(c)'
<1>1. /\ firehose'[c] = FALSE /\ entries'[c] = {} /\ socket'[c] = Reading
      /\ UNCHANGED <<answer, screen>>
  BY DEF Connect, Shaped
<1>2. NoneAhead(c)' /\ PaintsTables(c)'
  BY <1>1 DEF Delivered, NoneAhead, PaintsTables, Reading
<1> QED BY <1>1, <1>2 DEF Delivered, Fresh, Follow, NobodyUnserved, Published, Served, Watched, Held

\* A subscription to everything awaits its first paint, one to another board has
\* nothing else, and one to entries changes nothing of the firehose.
LEMMA SubscribeDelivered ==
  ASSUME Shaped, Shaped', BoardFirst', Counted, NEW c \in Clients, Delivered(c),
         NEW a \in Asks, Subscribe(c, a)
  PROVE  Delivered(c)'
<1>1. /\ socket[c] = Reading /\ joined[c] /\ joined' = joined
      /\ tenantOf'[c] = a.tenant /\ a.mode \in {"all", "entry"}
      /\ socket'[c].at = "waiting" /\ socket'[c].mode = a.mode
      /\ UNCHANGED <<answer, heard, pass>>
  BY StreamAssumption DEF Subscribe, Sends, Shaped, Modes
<1>2. PaintsTables(c)'
  BY <1>1 DEF PaintsTables
<1>3. CASE a.tenant # tenantOf[c]
  <2>1. entries'[c] = {} /\ screen'[c] = Blank /\ (firehose'[c] <=> a.mode = "all")
    BY <1>3, ZenonT(40) DEF Subscribe, Shaped
  <2>2. \A n \in Names : ~Watched(c, n)' /\ ~Held(c, n)'
    BY <1>1, <2>1 DEF Watched, PaintDue, Held
  <2>3. NoneAhead(c)'
    BY <2>1 DEF NoneAhead, Blank
  <2>4. NobodyUnserved(c)'
    BY <1>1, <2>1 DEF NobodyUnserved
  <2> QED BY <1>2, <2>2, <2>3, <2>4 DEF Delivered, Fresh, Follow, Published, Served
<1>4. CASE a.tenant = tenantOf[c] /\ a.mode = "all"
  <2>1. entries'[c] = entries[c] /\ screen'[c] = screen[c] /\ tenantOf'[c] = tenantOf[c]
    BY <1>1, <1>4 DEF Subscribe, Shaped
  <2>2. PassesKept(c)
    BY <1>1 DEF PassesKept
  <2>3. \A n \in Names : ~Watched(c, n)' /\ (Held(c, n)' => Held(c, n))
    BY <1>1, <1>4, <2>1 DEF Watched, PaintDue, Held, Reading
  <2>4. Fresh(c)' /\ Published(c)' /\ Served(c)'
    BY <1>1, <2>1, <2>2, <2>3, ClientKept
  <2>5. NoneAhead(c)' /\ NobodyUnserved(c)'
    BY <1>1, <1>4, <2>1 DEF Delivered, NoneAhead, NobodyUnserved
  <2> QED BY <1>2, <2>4, <2>5 DEF Delivered
<1>5. CASE a.tenant = tenantOf[c] /\ a.mode = "entry"
  <2>1. /\ entries'[c] = entries[c] /\ screen'[c] = screen[c] /\ tenantOf'[c] = tenantOf[c]
        /\ firehose'[c] = firehose[c]
    BY <1>1, <1>5 DEF Subscribe, Shaped
  <2>2. PassesKept(c)
    BY <1>1 DEF PassesKept
  <2>3. \A n \in Names : (Watched(c, n)' => Watched(c, n)) /\ (Held(c, n)' => Held(c, n))
    BY <1>1, <1>5, <2>1 DEF Watched, PaintDue, Held, Reading
  <2>4. Fresh(c)' /\ Published(c)' /\ Served(c)'
    BY <1>1, <2>1, <2>2, <2>3, ClientKept
  <2>5. NoneAhead(c)' /\ NobodyUnserved(c)'
    BY <1>1, <1>5, <2>1 DEF Delivered, NoneAhead, NobodyUnserved, Reading
  <2> QED BY <1>2, <2>4, <2>5 DEF Delivered
<1> QED BY <1>1, <1>3, <1>4, <1>5

LEMMA UnsubscribeDelivered ==
  ASSUME Shaped, Shaped', BoardFirst', Counted, NEW c \in Clients, Delivered(c),
         NEW a \in Asks, Unsubscribe(c, a)
  PROVE  Delivered(c)'
<1>1. /\ UNCHANGED <<answer, heard, pass, tenantOf, socket, screen, joined>>
      /\ firehose'[c] \in {FALSE, firehose[c]} /\ entries'[c] \subseteq entries[c]
  <2>1. UNCHANGED <<answer, heard, pass, tenantOf, socket, screen, joined>>
    BY DEF Unsubscribe
  <2>2. CASE a.mode = "all" /\ firehose' = [firehose EXCEPT ![c] = FALSE] /\ entries' = [entries EXCEPT ![c] = {}]
    BY <2>1, <2>2 DEF Shaped
  <2>3. CASE firehose' = firehose /\ entries' = [entries EXCEPT ![c] = @ \ a.names]
    BY <2>1, <2>3 DEF Shaped
  <2> QED BY <2>2, <2>3 DEF Unsubscribe
<1>2. \A n \in Names : (Watched(c, n)' => Watched(c, n)) /\ (Held(c, n)' => Held(c, n))
  BY <1>1 DEF Watched, PaintDue, Held
<1>3. NoneAhead(c)' /\ PaintsTables(c)'
  BY <1>1 DEF Delivered, NoneAhead, PaintsTables
<1>4. firehose'[c] => firehose[c]
  BY <1>1 DEF Shaped
<1> QED BY <1>1, <1>2, <1>3, <1>4, OwnKept

\* Whoever is served, or waits no more, keeps a pass of its board from running.
LEMMA AloneInside ==
  ASSUME Inside, NEW c \in Clients,
         socket[c].at \in {"painting", "entering"} \/ Granted(tenantOf[c], c),
         NEW u \in Tenants, pass[u].at \notin {"idle", "waiting"}
  PROVE  u # tenantOf[c]
<1>1. c # Pass
  BY StreamAssumption
<1> QED BY <1>1, OneHolds DEF Inside

\* Every answer of a first paint is due from its fetch to its sending; and no
\* pass computes between the two.
LEMMA PaintDelivered ==
  ASSUME Shaped, Shaped', BoardFirst', Counted, InLine, Inside, NEW c \in Clients, Delivered(c), Paint(c)
  PROVE  Delivered(c)'
<1> DEFINE t == tenantOf[c]
           due == {<<n, answer[t][n]>> : n \in LibraryOf[socket[c].deploy]}
<1>1. /\ socket[c].at = "waiting" /\ socket[c] \in Asking /\ Granted(t, c)
      /\ socket'[c] = [at |-> "painting", left |-> due]
      /\ UNCHANGED <<answer, heard, pass, tenantOf, joined, firehose, entries, screen>>
  BY SocketShapes DEF Paint, Shaped, interest, history
<1>2. ASSUME NEW n \in Names PROVE ~Watched(c, n)' /\ (Held(c, n)' => Held(c, n))
  <2>1. socket[c].deploy \in Deploys
    BY <1>1 DEF Asking
  <2>2. ASSUME \A d \in Deploys : n \in LibraryOf[d]
        PROVE  \E part \in due : part[1] = n
    <3>1. <<n, answer[t][n]>> \in due
      BY <2>1, <2>2
    <3> QED BY <3>1
  <2> QED BY <1>1, <2>2 DEF Watched, PaintDue, Held
<1>3. PaintsTables(c)'
  <2>1. \A part \in due : part[2] = answer[t][part[1]]
    OBVIOUS
  <2> QED BY <1>1, <2>1 DEF PaintsTables
<1>4. NoneAhead(c)'
  BY <1>1 DEF Delivered, NoneAhead
<1>5. \A u \in Tenants : pass[u].at \in {"running", "computed"} => u # t
  BY <1>1, AloneInside
<1> HIDE DEF t, due
<1> QED BY <1>1, <1>2, <1>3, <1>4, <1>5, OwnKept DEF t

LEMMA SendPaintDelivered ==
  ASSUME Shaped, Shaped', BoardFirst', Counted, InLine, Inside, NEW c \in Clients, Delivered(c), SendPaint(c)
  PROVE  Delivered(c)'
<1> DEFINE t == tenantOf[c]
<1>1. PICK part \in socket[c].left :
        /\ socket' = [socket EXCEPT ![c].left = @ \ {part}]
        /\ screen' = [screen EXCEPT ![c][<<"all", part[1]>>] =
                        IF joined[c] THEN Shown(tenantOf[c], part[2]) ELSE @]
  BY DEF SendPaint
<1>2. /\ socket[c].at = "painting" /\ socket[c] \in Painting /\ t \in Tenants
      /\ UNCHANGED <<answer, heard, pass, tenantOf, joined, firehose, entries>>
  BY SocketShapes DEF SendPaint, InLine, interest, history
<1>3. part[1] \in Names /\ part[2] \in Nat /\ part[2] = answer[t][part[1]]
  BY <1>1, <1>2 DEF Painting, Delivered, PaintsTables
<1>4. socket'[c].at = "painting" /\ socket'[c].left = socket[c].left \ {part}
  BY <1>1, <1>2 DEF Painting, Shaped
<1> DEFINE v == IF joined[c] THEN Shown(t, part[2]) ELSE screen[c][<<"all", part[1]>>]
<1>5. screen' = [screen EXCEPT ![c][<<"all", part[1]>>] = v]
  BY <1>1
<1>6. v = screen[c][<<"all", part[1]>>] \/ v = Shown(t, answer[t][<<"all", part[1]>>[2]])
  BY <1>3
<1>7. joined[c] => v = Shown(t, answer[t][part[1]])
  BY <1>3
<1> HIDE DEF v
<1>8. NoneAhead(c)'
  BY <1>2, <1>3, <1>5, <1>6, FrameNotAhead DEF Delivered
<1>9. PaintsTables(c)'
  BY <1>2, <1>4 DEF Delivered, PaintsTables
<1>10. ASSUME NEW n \in Names, Watched(c, n)'
       PROVE  \/ Watched(c, n) /\ screen'[c][<<"all", n>>] = screen[c][<<"all", n>>]
              \/ AtLeast(screen'[c][<<"all", n>>], t, answer[t][n])
  <2>1. joined[c]
    BY <1>2, <1>10 DEF Watched
  <2>2. CASE n = part[1]
    <3>1. screen'[c][<<"all", n>>] = Shown(t, answer[t][n])
      BY <1>5, <1>7, <2>1, <2>2, Viewed, ZenonT(40) DEF Shaped, Screens
    <3>2. answer[t][n] \in Nat
      BY <1>2 DEF Shaped
    <3> QED BY <1>2, <3>1, <3>2, FramesAreFresh
  <2>3. CASE n # part[1]
    <3>1. screen'[c][<<"all", n>>] = screen[c][<<"all", n>>]
      BY <1>5, <2>3 DEF Shaped
    <3>2. Watched(c, n)
      BY <1>2, <1>4, <1>10, <2>3 DEF Watched, PaintDue
    <3> QED BY <3>1, <3>2
  <2> QED BY <2>2, <2>3
<1>11. ASSUME NEW n \in Names, Held(c, n)'
       PROVE  Held(c, n) /\ screen'[c][<<"entry", n>>] = screen[c][<<"entry", n>>]
  BY <1>2, <1>5, <1>11 DEF Held, Shaped
<1>12. \A u \in Tenants : pass[u].at \in {"running", "computed"} => u # t
  BY <1>2, AloneInside
<1> HIDE DEF t
<1> QED BY <1>2, <1>8, <1>9, <1>10, <1>11, <1>12, OwnKept DEF t


LEMMA NoNames == \A n \in Names : n # None
BY StreamAssumption

\* Between two entries, a coroutine is fetching none.
LEMMA BetweenShape ==
  ASSUME Shaped, InLine, NEW c \in Clients, Between(c)
  PROVE  /\ socket[c] \in Asking /\ tenantOf[c] \in Tenants
         /\ \/ socket[c].at = "entering" /\ socket[c].fetching = None
            \/ socket[c].at = "waiting" /\ socket[c].mode = "entry"
         /\ socket[c].at \in {"painting", "entering"} \/ Granted(tenantOf[c], c)
<1>1. \/ socket[c].at = "entering" /\ socket[c].fetching = None
      \/ socket[c].at = "waiting" /\ socket[c].mode = "entry" /\ Granted(tenantOf[c], c)
  BY DEF Between
<1>2. socket[c] \in Asking
  BY <1>1, SocketShapes
<1>3. tenantOf[c] \in Tenants
  BY <1>1 DEF InLine
<1> QED BY <1>1, <1>2, <1>3

LEMMA RefuseDelivered ==
  ASSUME Shaped, Shaped', BoardFirst', Counted, InLine, Inside, NEW c \in Clients, Delivered(c), Refuse(c)
  PROVE  Delivered(c)'
<1> DEFINE t == tenantOf[c]
<1>1. PICK n \in socket[c].left :
        /\ socket' = [socket EXCEPT ![c].at = "entering", ![c].left = @ \ {n}]
        /\ screen' = [screen EXCEPT ![c][<<"entry", n>>] = IF joined[c] THEN Error ELSE @]
  BY DEF Refuse
<1>2. /\ socket[c] \in Asking /\ t \in Tenants
      /\ \/ socket[c].at = "entering" /\ socket[c].fetching = None
         \/ socket[c].at = "waiting" /\ socket[c].mode = "entry"
      /\ socket[c].at \in {"painting", "entering"} \/ Granted(t, c)
      /\ UNCHANGED <<answer, heard, pass, tenantOf, joined, firehose, entries>>
  BY BetweenShape DEF Refuse, interest, history
<1>3. n \in Names /\ socket'[c].at = "entering"
  BY <1>1, <1>2 DEF Asking, Shaped
<1> DEFINE v == IF joined[c] THEN Error ELSE screen[c][<<"entry", n>>]
<1>4. screen' = [screen EXCEPT ![c][<<"entry", n>>] = v]
  BY <1>1
<1>5. (v = Error \/ v = screen[c][<<"entry", n>>]) /\ (joined[c] => v = Error)
  OBVIOUS
<1> HIDE DEF v
<1>6. NoneAhead(c)'
  BY <1>2, <1>4, <1>5, FrameNotAhead DEF Delivered
<1>7. PaintsTables(c)'
  BY <1>3 DEF PaintsTables
<1>8. ASSUME NEW m \in Names, Watched(c, m)'
      PROVE  Watched(c, m) /\ screen'[c][<<"all", m>>] = screen[c][<<"all", m>>]
  BY <1>2, <1>4, <1>8 DEF Watched, PaintDue, Shaped
<1>9. ASSUME NEW m \in Names, Held(c, m)'
      PROVE  \/ Held(c, m) /\ screen'[c][<<"entry", m>>] = screen[c][<<"entry", m>>]
             \/ AtLeast(screen'[c][<<"entry", m>>], t, answer[t][m])
  <2>1. joined[c] /\ m \in entries[c]
    BY <1>2, <1>9 DEF Held
  <2>2. CASE m = n
    <3>1. screen'[c][<<"entry", m>>] = Error
      BY <1>4, <1>5, <2>1, <2>2, Viewed DEF Shaped, Screens
    <3> QED BY <1>2, <3>1, FramesAreFresh
  <2>3. CASE m # n
    <3>1. screen'[c][<<"entry", m>>] = screen[c][<<"entry", m>>]
      BY <1>4, <2>3 DEF Shaped
    <3>2. Held(c, m)
      BY <1>2, <2>1, NoNames DEF Held
    <3> QED BY <3>1, <3>2
  <2> QED BY <2>2, <2>3
<1>10. \A u \in Tenants : pass[u].at \in {"running", "computed"} => u # t
  BY <1>2, AloneInside
<1> HIDE DEF t
<1> QED BY <1>2, <1>6, <1>7, <1>8, <1>9, <1>10, OwnKept DEF t

\* A name that has just been registered is being fetched.
LEMMA RegisterDelivered ==
  ASSUME Shaped, Shaped', BoardFirst', Counted, InLine, Inside, NEW c \in Clients, Delivered(c), Register(c)
  PROVE  Delivered(c)'
<1> DEFINE t == tenantOf[c]
<1>1. PICK n \in socket[c].left :
        /\ socket' = [socket EXCEPT ![c].at = "entering", ![c].fetching = n, ![c].left = @ \ {n}]
        /\ entries' = [entries EXCEPT ![c] = @ \union {n}]
  BY DEF Register
<1>2. /\ socket[c] \in Asking /\ t \in Tenants
      /\ \/ socket[c].at = "entering" /\ socket[c].fetching = None
         \/ socket[c].at = "waiting" /\ socket[c].mode = "entry"
      /\ socket[c].at \in {"painting", "entering"} \/ Granted(t, c)
      /\ UNCHANGED <<answer, heard, pass, tenantOf, joined, firehose, screen>>
  BY BetweenShape DEF Register
<1>3. /\ socket'[c].at = "entering" /\ socket'[c].fetching = n
      /\ entries'[c] = entries[c] \union {n}
  BY <1>1, <1>2 DEF Asking, Shaped
<1>4. NoneAhead(c)' /\ PaintsTables(c)'
  BY <1>2, <1>3 DEF Delivered, NoneAhead, PaintsTables
<1>5. ASSUME NEW m \in Names PROVE (Watched(c, m)' => Watched(c, m)) /\ (Held(c, m)' => Held(c, m))
  BY <1>2, <1>3, NoNames DEF Watched, PaintDue, Held
<1>6. \A u \in Tenants : pass[u].at \in {"running", "computed"} => u # t
  BY <1>2, AloneInside
<1> HIDE DEF t
<1> QED BY <1>2, <1>4, <1>5, <1>6, OwnKept DEF t

LEMMA SendEntryDelivered ==
  ASSUME Shaped, Shaped', BoardFirst', Counted, InLine, Inside, NEW c \in Clients, Delivered(c), SendEntry(c)
  PROVE  Delivered(c)'
<1> DEFINE t == tenantOf[c]
           n == socket[c].fetching
           frame == IF n \in Unfetchable THEN Error ELSE Shown(t, answer[t][n])
           v == IF joined[c] THEN frame ELSE screen[c][<<"entry", n>>]
<1>1. /\ socket[c].at = "entering" /\ socket[c] \in Asking /\ n \in Names /\ t \in Tenants
      /\ entries' = [entries EXCEPT ![c] = @ \ (Unfetchable \intersect {n})]
      /\ socket' = [socket EXCEPT ![c].fetching = None]
      /\ UNCHANGED <<answer, heard, pass, tenantOf, joined, firehose>>
  BY SocketShapes DEF SendEntry, InLine, history, Asking
<1>2. screen' = [screen EXCEPT ![c][<<"entry", n>>] = v]
  BY DEF SendEntry
<1>3. /\ socket'[c].at = "entering" /\ socket'[c].fetching = None
      /\ entries'[c] = entries[c] \ (Unfetchable \intersect {n})
  BY <1>1 DEF Asking, Shaped
<1>4. /\ v = screen[c][<<"entry", n>>] \/ v = Error \/ v = Shown(t, answer[t][<<"entry", n>>[2]])
      /\ joined[c] /\ n \notin Unfetchable => v = Shown(t, answer[t][n])
  OBVIOUS
<1> HIDE DEF v
<1>5. NoneAhead(c)'
  BY <1>1, <1>2, <1>4, FrameNotAhead DEF Delivered
<1>6. PaintsTables(c)'
  BY <1>3 DEF PaintsTables
<1>7. ASSUME NEW m \in Names, Watched(c, m)'
      PROVE  Watched(c, m) /\ screen'[c][<<"all", m>>] = screen[c][<<"all", m>>]
  BY <1>1, <1>2, <1>7 DEF Watched, PaintDue, Shaped
<1>8. ASSUME NEW m \in Names, Held(c, m)'
      PROVE  \/ Held(c, m) /\ screen'[c][<<"entry", m>>] = screen[c][<<"entry", m>>]
             \/ AtLeast(screen'[c][<<"entry", m>>], t, answer[t][m])
  <2>1. joined[c] /\ m \in entries[c] /\ ~(m = n /\ n \in Unfetchable)
    BY <1>1, <1>3, <1>8 DEF Held
  <2>2. CASE m = n
    <3>1. screen'[c][<<"entry", m>>] = Shown(t, answer[t][m])
      BY <1>1, <1>2, <1>4, <2>1, <2>2, Viewed DEF Shaped, Screens
    <3>2. answer[t][m] \in Nat
      BY <1>1 DEF Shaped
    <3> QED BY <1>1, <3>1, <3>2, FramesAreFresh
  <2>3. CASE m # n
    <3>1. screen'[c][<<"entry", m>>] = screen[c][<<"entry", m>>]
      BY <1>2, <2>3 DEF Shaped
    <3>2. Held(c, m)
      BY <2>1, <2>3 DEF Held
    <3> QED BY <3>1, <3>2
  <2> QED BY <2>2, <2>3
<1>9. \A u \in Tenants : pass[u].at \in {"running", "computed"} => u # t
  BY <1>1, AloneInside
<1> HIDE DEF t, n
<1> QED BY <1>1, <1>5, <1>6, <1>7, <1>8, <1>9, OwnKept DEF t

LEMMA SubscribedDelivered ==
  ASSUME Shaped, Shaped', BoardFirst', Counted, InLine, Inside, NEW c \in Clients, Delivered(c), Subscribed(c)
  PROVE  Delivered(c)'
<1>1. /\ socket[c].at = "painting" \/ Between(c)
      /\ socket[c].left = {} /\ socket'[c] = Reading
      /\ UNCHANGED <<answer, heard, pass, tenantOf, joined, firehose, entries, screen>>
  BY DEF Subscribed, Shaped, interest, history
<1>2. /\ \/ socket[c].at = "painting"
         \/ socket[c].at = "entering" /\ socket[c].fetching = None
         \/ socket[c].at = "waiting" /\ socket[c].mode = "entry"
      /\ socket[c].at \in {"painting", "entering"} \/ Granted(tenantOf[c], c)
  BY <1>1, BetweenShape
<1>3. NoneAhead(c)' /\ PaintsTables(c)'
  BY <1>1 DEF Delivered, NoneAhead, PaintsTables, Reading
<1>4. ASSUME NEW m \in Names PROVE (Watched(c, m)' => Watched(c, m)) /\ (Held(c, m)' => Held(c, m))
  BY <1>1, <1>2, NoNames DEF Watched, PaintDue, Held
<1>5. \A u \in Tenants : pass[u].at \in {"running", "computed"} => u # tenantOf[c]
  BY <1>2, AloneInside
<1> QED BY <1>1, <1>3, <1>4, <1>5, OwnKept

-----------------------------------------------------------------------------
(* A pass's steps: it owes a frame for whatever it moved, and gives the    *)
(* lock back when it owes none.                                            *)

LEMMA GoesTo ==
  ASSUME Shaped, NEW t \in Tenants, NEW where, Goes(t, where)
  PROVE  pass'[t] = where /\ \A u \in Tenants \ {t} : pass'[u] = pass[u]
BY DEF Goes, Shaped

SameClients == UNCHANGED <<joined, tenantOf, firehose, entries, socket>>

\* No address of a client's goes back behind the tables.
ShowsNoLess(c) ==
  \A a \in Addresses : \A w \in Nat :
    w <= answer[tenantOf[c]][a[2]] /\ AtLeast(screen[c][a], tenantOf[c], w) =>
      AtLeast(screen'[c][a], tenantOf[c], w)

LEMMA FrameShowsNoLess ==
  ASSUME Shaped, NEW c \in Clients, tenantOf[c] \in Tenants, NEW d, NEW a, NEW v,
         screen' = [screen EXCEPT ![d][a] = v],
         \/ v = screen[d][a] \/ v = Error
         \/ a[2] \in Names /\ \E t \in Tenants : v = Shown(t, answer[t][a[2]])
  PROVE  ShowsNoLess(c)
<1> SUFFICES ASSUME NEW b \in Addresses, NEW w \in Nat, w <= answer[tenantOf[c]][b[2]],
                    AtLeast(screen[c][b], tenantOf[c], w)
             PROVE  AtLeast(screen'[c][b], tenantOf[c], w)
  BY DEF ShowsNoLess
<1>1. CASE screen'[c][b] = screen[c][b]
  BY <1>1
<1>2. CASE screen'[c][b] # screen[c][b]
  <2>1. c = d /\ b = a /\ screen'[c][b] = v
    BY <1>2 DEF Shaped, Screens
  <2>2. CASE v = Error
    BY <2>1, <2>2, FramesAreFresh
  <2>3. ASSUME NEW t \in Tenants, v = Shown(t, answer[t][a[2]]), a[2] \in Names
        PROVE  AtLeast(screen'[c][b], tenantOf[c], w)
    <3>1. answer[t][a[2]] \in Nat
      BY <2>3 DEF Shaped
    <3>2. CASE t # tenantOf[c]
      BY <2>1, <2>3, <3>1, <3>2, FramesAreFresh
    <3>3. CASE t = tenantOf[c]
      <4>1. AtLeast(v, t, answer[t][a[2]]) /\ v \in Views
        BY <2>3, <3>1, FramesAreFresh DEF Views, Shown
      <4> QED BY <2>1, <3>1, <3>3, <4>1, FreshEnough
    <3> QED BY <3>2, <3>3
  <2> QED BY <1>2, <2>1, <2>2, <2>3
<1> QED BY <1>1, <1>2

\* What another board's pass does, and what every pass's step does to what has
\* been delivered already.
LEMMA PassStep ==
  ASSUME Shaped, BoardFirst, Counted, NEW c \in Clients, Delivered(c), SameClients, NEW t \in Tenants,
         \A u \in Tenants \ {t} : pass'[u] = pass[u] /\ heard'[u] = heard[u] /\ answer'[u] = answer[u],
         tenantOf[c] \in Tenants => ShowsNoLess(c),
         NoneAhead(c)', PaintsTables(c)',
         tenantOf[c] = t =>
           /\ heard' = heard \/ Fresh(c)'
           /\ NobodyUnserved(c)' /\ Published(c)' /\ Served(c)'
  PROVE  Delivered(c)'
<1>1. \A n \in Names : (Watched(c, n)' <=> Watched(c, n)) /\ (Held(c, n)' <=> Held(c, n))
  BY DEF SameClients, Watched, PaintDue, Held
<1>2. tenantOf' = tenantOf
  BY DEF SameClients
<1>3. ASSUME NEW n \in Names, Watched(c, n) \/ Held(c, n)
      PROVE  tenantOf[c] \in Tenants
  BY <1>3, FollowersWatch
<1>4. \A n \in Names, u \in Tenants : heard[u][n] \in Nat /\ answer[u][n] \in Nat /\ heard[u][n] <= answer[u][n]
  BY DEF Shaped, Counted
<1>5. \A n \in Names : <<"all", n>> \in Addresses /\ <<"entry", n>> \in Addresses
  BY DEF Addresses, Modes
<1>6. ASSUME NEW u \in Tenants, u = tenantOf[c], heard'[u] = heard[u] PROVE Fresh(c)'
  <2>1. ASSUME NEW n \in Names
        PROVE  /\ Watched(c, n) => AtLeast(screen'[c][<<"all", n>>], u, heard[u][n])
               /\ Held(c, n) => AtLeast(screen'[c][<<"entry", n>>], u, heard[u][n])
    BY <1>4, <1>5, <1>6 DEF Delivered, Fresh, Follow, ShowsNoLess
  <2> QED BY <1>1, <1>2, <1>6, <2>1 DEF Fresh, Follow
<1>7. CASE tenantOf[c] = t
  BY <1>6, <1>7 DEF Delivered
<1>8. CASE tenantOf[c] \in Tenants \ {t}
  <2> DEFINE u == tenantOf[c]
  <2>1. pass'[u] = pass[u] /\ heard'[u] = heard[u] /\ answer'[u] = answer[u]
    BY <1>8
  <2>2. Fresh(c)'
    BY <1>6, <1>8, <2>1
  <2>3. NobodyUnserved(c)'
    BY <1>8, <2>1 DEF Delivered, NobodyUnserved, SameClients
  <2>4. Published(c)'
    <3> SUFFICES ASSUME NEW n \in Names, pass[u].at \in {"publishing", "serving"}, n \in pass[u].moved,
                        Watched(c, n)
                 PROVE  \/ pass[u].at = "publishing" /\ Owed(u, c, n)
                        \/ AtLeast(screen'[c][<<"all", n>>], u, answer[u][n])
      BY <1>1, <1>2, <1>8, <2>1 DEF Published, Owed
    <3>1. \/ pass[u].at = "publishing" /\ Owed(u, c, n)
          \/ AtLeast(screen[c][<<"all", n>>], u, answer[u][n])
      BY <1>8 DEF Delivered, Published
    <3>2. answer[u][n] \in Nat /\ answer[u][n] <= answer[u][n] /\ <<"all", n>>[2] = n
      BY <1>4, <1>8
    <3> QED BY <1>5, <1>8, <3>1, <3>2 DEF ShowsNoLess
  <2>5. Served(c)'
    <3> SUFFICES ASSUME NEW n \in Names, pass[u].at = "serving", n \in pass[u].moved, Held(c, n)
                 PROVE  Owed(u, c, n) \/ AtLeast(screen'[c][<<"entry", n>>], u, answer[u][n])
      BY <1>1, <1>2, <1>8, <2>1 DEF Served, Owed
    <3>1. Owed(u, c, n) \/ AtLeast(screen[c][<<"entry", n>>], u, answer[u][n])
      BY <1>8 DEF Delivered, Served
    <3>2. answer[u][n] \in Nat /\ answer[u][n] <= answer[u][n] /\ <<"entry", n>>[2] = n
      BY <1>4, <1>8
    <3> QED BY <1>5, <1>8, <3>1, <3>2 DEF ShowsNoLess
  <2> QED BY <2>2, <2>3, <2>4, <2>5 DEF Delivered
<1>9. CASE tenantOf[c] \notin Tenants
  <2>1. \A n \in Names : ~Watched(c, n)' /\ ~Held(c, n)'
    BY <1>1, <1>3, <1>9
  <2>2. NobodyUnserved(c)'
    BY <1>2, <1>9 DEF NobodyUnserved
  <2> QED BY <2>1, <2>2 DEF Delivered, Fresh, Follow, Published, Served
<1> QED BY <1>7, <1>8, <1>9

\* A pass that has yet to publish owes nobody anything; one that serves nobody is
\* settled to when nobody listens.
LEMMA QuietDelivered ==
  ASSUME Shaped, Shaped', BoardFirst, Counted, InLine, Inside, NEW c \in Clients, Delivered(c), NEW t \in Tenants,
         PassQueue(t) \/ PassStart(t) \/ PassCompute(t) \/ PassRaises(t)
  PROVE  Delivered(c)'
<1>1. SameClients /\ UNCHANGED <<heard, screen>>
  BY DEF SameClients, PassQueue, PassStart, PassCompute, PassRaises, interest, history
<1>2. ShowsNoLess(c)
  BY <1>1 DEF ShowsNoLess
<1>3. /\ \A u \in Tenants \ {t} : pass'[u] = pass[u] /\ answer'[u] = answer[u]
      /\ pass'[t].at \in {"waiting", "running", "computed", "idle"}
      /\ pass'[t].at \in {"running", "computed"} /\ ~pass'[t].serve /\ tenantOf[c] = t
           /\ joined[c] /\ firehose[c] =>
         socket[c].at = "waiting" /\ socket[c].mode = "all"
      /\ \A u \in Tenants, n \in Names : answer[u][n] <= answer'[u][n]
      /\ answer' = answer \/ pass[t].at = "running"
  <2>1. CASE PassQueue(t)
    <3>1. pass'[t].at = "waiting" /\ \A u \in Tenants \ {t} : pass'[u] = pass[u]
      BY <2>1, GoesTo DEF PassQueue
    <3> QED BY <2>1, <3>1 DEF PassQueue, Shaped
  <2>2. CASE PassStart(t)
    <3>1. PICK lean \in BOOLEAN :
            Goes(t, [at |-> "running", deploy |-> pass[t].deploy, serve |-> Serves(t, lean)])
      BY <2>2 DEF PassStart
    <3>2. /\ pass'[t].at = "running" /\ pass'[t].serve = Serves(t, lean)
          /\ \A u \in Tenants \ {t} : pass'[u] = pass[u]
      BY <3>1, GoesTo
    <3>3. tenantOf[c] = t /\ joined[c] /\ firehose[c] => Serves(t, lean)
      BY DEF Serves
    <3> QED BY <2>2, <3>2, <3>3 DEF PassStart, Shaped
  <2>3. CASE PassCompute(t)
    <3>1. PICK moved :
            /\ answer' = [answer EXCEPT ![t] = [n \in Names |-> IF n \in moved THEN @[n] + 1 ELSE @[n]]]
            /\ Goes(t, [at |-> "computed", moved |-> moved, serve |-> pass[t].serve])
      BY <2>3 DEF PassCompute
    <3>2. /\ pass'[t].at = "computed" /\ pass'[t].serve = pass[t].serve
          /\ \A u \in Tenants \ {t} : pass'[u] = pass[u]
      BY <3>1, GoesTo
    <3>3. /\ \A u \in Tenants \ {t} : answer'[u] = answer[u]
          /\ \A n \in Names : answer'[t][n] = answer[t][n] + 1 \/ answer'[t][n] = answer[t][n]
          /\ \A u \in Tenants, n \in Names : answer[u][n] \in Nat
      BY <3>1 DEF Shaped
    <3>4. \A u \in Tenants, n \in Names : answer[u][n] <= answer'[u][n]
      BY <3>3
    <3>5. pass[t].at = "running" /\ ~pass[t].serve /\ tenantOf[c] = t /\ joined[c] /\ firehose[c] =>
            socket[c].at = "waiting" /\ socket[c].mode = "all"
      BY DEF Delivered, NobodyUnserved
    <3> QED BY <2>3, <3>2, <3>3, <3>4, <3>5 DEF PassCompute
  <2>4. CASE PassRaises(t)
    <3>1. pass'[t].at = "idle" /\ \A u \in Tenants \ {t} : pass'[u] = pass[u]
      BY <2>4, GoesTo DEF PassRaises, Resting
    <3> QED BY <2>4, <3>1 DEF PassRaises, Shaped
  <2> QED BY <2>1, <2>2, <2>3, <2>4
<1>4. NoneAhead(c)'
  <2> SUFFICES ASSUME NEW a \in Addresses, screen[c][a] \notin {None, Error}
               PROVE  screen[c][a].value <= answer'[screen[c][a].of][a[2]]
    BY <1>1 DEF NoneAhead
  <2>1. screen[c][a].of \in Tenants /\ screen[c][a].value \in Nat /\ a[2] \in Names
    BY DEF Shaped, Screens, Views, Addresses
  <2> DEFINE u == screen[c][a].of
  <2>2. screen[c][a].value <= answer[u][a[2]] /\ answer[u][a[2]] <= answer'[u][a[2]]
    BY <1>3, <2>1 DEF Delivered, NoneAhead
  <2>3. answer[u][a[2]] \in Nat
    BY <2>1 DEF Shaped
  <2>4. answer'[u][a[2]] \in Nat
    BY <2>1 DEF Shaped
  <2> HIDE DEF u
  <2>5. \A l, m, n \in Nat : l <= m /\ m <= n => l <= n
    OBVIOUS
  <2> QED BY <2>1, <2>2, <2>3, <2>4, <2>5 DEF u
<1>5. PaintsTables(c)'
  <2>1. CASE answer' = answer
    BY <1>1, <2>1 DEF Delivered, PaintsTables, SameClients
  <2>2. CASE pass[t].at = "running" /\ socket[c].at = "painting"
    <3>1. tenantOf[c] # t
      BY <2>2, AloneInside
    <3>2. \A part \in socket[c].left : part[2] = answer[tenantOf[c]][part[1]]
      BY <2>2 DEF Delivered, PaintsTables
    <3>3. answer'[tenantOf[c]] = answer[tenantOf[c]]
      BY <1>3, <2>2, <3>1 DEF InLine
    <3> QED BY <1>1, <3>2, <3>3 DEF PaintsTables, SameClients
  <2>3. CASE socket[c].at # "painting"
    BY <1>1, <2>3 DEF PaintsTables, SameClients
  <2> QED BY <1>3, <2>1, <2>2, <2>3
<1>6. ASSUME tenantOf[c] = t
      PROVE  NobodyUnserved(c)' /\ Published(c)' /\ Served(c)'
  <2>1. tenantOf'[c] = t
    BY <1>1, <1>6 DEF SameClients
  <2>2. NobodyUnserved(c)'
    BY <1>1, <1>3, <1>6, <2>1 DEF NobodyUnserved, SameClients
  <2>3. Published(c)' /\ Served(c)'
    BY <1>3, <2>1 DEF Published, Served
  <2> QED BY <2>2, <2>3
<1> QED BY <1>1, <1>2, <1>3, <1>4, <1>5, <1>6, PassStep

\* Each of the names goes to each of whom they are for.
LEMMA EachIsSent ==
  ASSUME NEW names, NEW whom, NEW c \in whom, NEW n \in names
  PROVE  \E f \in Frames(names, whom) : f.to = c /\ f.name = n
<1> DEFINE who == <<c, n>>
           f == [to |-> who[1], name |-> who[2], failed |-> FALSE]
<1>1. who \in whom \X names /\ who[1] = c /\ who[2] = n
  OBVIOUS
<1>2. f.to = who[1] /\ f.name = who[2]
  OBVIOUS
<1> HIDE DEF who
<1>3. f \in Frames(names, whom)
  BY <1>1 DEF Frames
<1> HIDE DEF f
<1> QED BY <1>1, <1>2, <1>3

\* A firehose frame shows whoever is there what the tables give.
LEMMA ResultShows ==
  ASSUME Shaped, NEW c \in Clients, NoneAhead(c), NEW t \in Tenants, NEW f \in FrameSet, Result(t, f),
         answer' = answer
  PROVE  /\ NoneAhead(c)' /\ (tenantOf[c] \in Tenants => ShowsNoLess(c))
         /\ \A n \in Names : screen'[c][<<"entry", n>>] = screen[c][<<"entry", n>>]
         /\ f.to = c /\ joined[c] => AtLeast(screen'[c][<<"all", f.name>>], t, answer[t][f.name])
<1> DEFINE v == IF Takes(f.to, tenantOf[f.to]) THEN Shown(t, answer[t][f.name])
                ELSE screen[f.to][<<"all", f.name>>]
<1>1. screen' = [screen EXCEPT ![f.to][<<"all", f.name>>] = v]
  BY DEF Result
<1>2. f.name \in Names /\ answer[t][f.name] \in Nat
  BY DEF FrameSet, Shaped
<1>3. /\ v = screen[f.to][<<"all", f.name>>] \/ v = Shown(t, answer[t][<<"all", f.name>>[2]])
      /\ joined[f.to] => v = Shown(t, answer[t][f.name])
  BY DEF Takes
<1> HIDE DEF v
<1>4. NoneAhead(c)'
  BY <1>1, <1>2, <1>3, FrameNotAhead
<1>5. tenantOf[c] \in Tenants => ShowsNoLess(c)
  BY <1>1, <1>2, <1>3, FrameShowsNoLess
<1>6. \A n \in Names : screen'[c][<<"entry", n>>] = screen[c][<<"entry", n>>]
  BY <1>1 DEF Shaped
<1>7. ASSUME f.to = c, joined[c] PROVE AtLeast(screen'[c][<<"all", f.name>>], t, answer[t][f.name])
  <2>1. screen'[c][<<"all", f.name>>] = v
    BY <1>1, <1>2, <1>7, Viewed DEF Shaped, Screens
  <2> QED BY <1>2, <1>3, <1>7, <2>1, FramesAreFresh
<1> QED BY <1>4, <1>5, <1>6, <1>7

\* A step of a pass that shows a firehose frame, or none, and that goes on
\* publishing.
LEMMA PublishingDelivered ==
  ASSUME Shaped, BoardFirst, Counted, NEW c \in Clients, Delivered(c), NEW t \in Tenants,
         SameClients, UNCHANGED <<answer, heard>>, NEW left,
         Goes(t, [at |-> "publishing", moved |-> pass[t].moved, left |-> left]),
         screen' = screen \/ \E f \in FrameSet : Result(t, f),
         tenantOf[c] = t => \A n \in Names : n \in pass[t].moved /\ Watched(c, n) =>
                              \/ \E f \in left : f.to = c /\ f.name = n
                              \/ AtLeast(screen'[c][<<"all", n>>], t, answer[t][n])
  PROVE  Delivered(c)'
<1>1. NoneAhead(c)' /\ (tenantOf[c] \in Tenants => ShowsNoLess(c))
  <2>1. CASE screen' = screen
    BY <2>1 DEF Delivered, NoneAhead, ShowsNoLess
  <2>2. CASE \E f \in FrameSet : Result(t, f)
    BY <2>2, ResultShows DEF Delivered
  <2> QED BY <2>1, <2>2
<1>2. PaintsTables(c)'
  BY DEF Delivered, PaintsTables, SameClients
<1>3. /\ pass'[t] = [at |-> "publishing", moved |-> pass[t].moved, left |-> left]
      /\ \A u \in Tenants \ {t} : pass'[u] = pass[u]
  BY GoesTo
<1>4. /\ pass'[t].at = "publishing" /\ pass'[t].moved = pass[t].moved /\ pass'[t].left = left
      /\ tenantOf' = tenantOf
  BY <1>3 DEF SameClients
<1>5. \A n \in Names : Watched(c, n)' <=> Watched(c, n)
  BY DEF SameClients, Watched, PaintDue
<1>6. ASSUME tenantOf[c] = t
      PROVE  NobodyUnserved(c)' /\ Published(c)' /\ Served(c)'
  <2>1. NobodyUnserved(c)' /\ Served(c)'
    BY <1>4, <1>6 DEF NobodyUnserved, Served
  <2>2. Published(c)'
    BY <1>4, <1>5, <1>6 DEF Published, Owed
  <2> QED BY <2>1, <2>2
<1> QED BY <1>1, <1>2, <1>3, <1>6, PassStep

\* Whoever listens is watching, and who is not settled to has nothing to hear.
LEMMA PassPublishDelivered ==
  ASSUME Shaped, BoardFirst, Counted, NEW c \in Clients, Delivered(c), NEW t \in Tenants, PassPublish(t)
  PROVE  Delivered(c)'
<1> DEFINE watching == {d \in Clients : joined[d] /\ tenantOf[d] = t /\ firehose[d]}
           all == Frames(IF pass[t].serve THEN pass[t].moved ELSE {}, watching)
<1>1. /\ pass[t].at = "computed" /\ SameClients /\ UNCHANGED <<answer, heard>>
      /\ pass[t] \in [at : {"computed"}, moved : SUBSET Names, serve : BOOLEAN]
  BY PassShapes DEF PassPublish, SameClients, interest, history
<1>2. \/ /\ all = {} /\ screen' = screen
         /\ Goes(t, [at |-> "publishing", moved |-> pass[t].moved, left |-> {}])
      \/ \E f \in all : /\ Goes(t, [at |-> "publishing", moved |-> pass[t].moved, left |-> all \ {f}])
                        /\ Result(t, f)
  BY DEF PassPublish
<1>3. all \subseteq FrameSet
  BY <1>1, FramesShaped
<1>4. ASSUME tenantOf[c] = t, NEW n \in pass[t].moved, Watched(c, n)
      PROVE  \E f \in all : f.to = c /\ f.name = n
  <2>1. pass[t].serve
    BY <1>1, <1>4 DEF Delivered, NobodyUnserved, Watched, PaintDue
  <2>2. c \in watching
    BY <1>4 DEF Watched
  <2> HIDE DEF watching
  <2> QED BY <2>1, <2>2, EachIsSent
<1>5. ASSUME NEW n \in Names, Watched(c, n) PROVE joined[c]
  BY <1>5 DEF Watched
<1> HIDE DEF watching, all
<1>6. CASE all = {} /\ screen' = screen /\ Goes(t, [at |-> "publishing", moved |-> pass[t].moved, left |-> {}])
  BY <1>1, <1>4, <1>6, PublishingDelivered
<1>7. ASSUME NEW f \in all, Result(t, f),
             Goes(t, [at |-> "publishing", moved |-> pass[t].moved, left |-> all \ {f}])
      PROVE  Delivered(c)'
  <2>1. ASSUME tenantOf[c] = t, NEW n \in Names, n \in pass[t].moved, Watched(c, n)
        PROVE  \/ \E g \in all \ {f} : g.to = c /\ g.name = n
               \/ AtLeast(screen'[c][<<"all", n>>], t, answer[t][n])
    <3>1. PICK g \in all : g.to = c /\ g.name = n
      BY <1>4, <2>1
    <3>2. CASE g = f
      BY <1>1, <1>3, <1>5, <1>7, <2>1, <3>1, <3>2, ResultShows DEF Delivered
    <3> QED BY <3>1, <3>2
  <2> QED BY <1>1, <1>3, <1>7, <2>1, PublishingDelivered
<1> QED BY <1>2, <1>6, <1>7

LEMMA SendResultDelivered ==
  ASSUME Shaped, BoardFirst, Counted, NEW c \in Clients, Delivered(c), NEW t \in Tenants, SendResult(t)
  PROVE  Delivered(c)'
<1>1. /\ pass[t].at = "publishing" /\ SameClients /\ UNCHANGED <<answer, heard>>
      /\ pass[t] \in [at : {"publishing", "serving"}, moved : SUBSET Names, left : SUBSET FrameSet]
  BY PassShapes DEF SendResult, SameClients, interest, history
<1>2. PICK f \in pass[t].left : Goes(t, [pass[t] EXCEPT !.left = @ \ {f}]) /\ Result(t, f)
  BY DEF SendResult
<1>3. f \in FrameSet
  BY <1>1, <1>2
<1>4. [pass[t] EXCEPT !.left = @ \ {f}] =
        [at |-> "publishing", moved |-> pass[t].moved, left |-> pass[t].left \ {f}]
  BY <1>1
<1>5. ASSUME tenantOf[c] = t, NEW n \in Names, n \in pass[t].moved, Watched(c, n)
      PROVE  \/ \E g \in pass[t].left \ {f} : g.to = c /\ g.name = n
             \/ AtLeast(screen'[c][<<"all", n>>], t, answer[t][n])
  <2>1. CASE AtLeast(screen[c][<<"all", n>>], t, answer[t][n])
    <3>1. ShowsNoLess(c)
      BY <1>1, <1>2, <1>3, <1>5, ResultShows DEF Delivered
    <3>2. answer[t][n] \in Nat
      BY <1>5 DEF Shaped
    <3>3. answer[t][n] <= answer[t][n]
      BY <3>2
    <3>4. <<"all", n>> \in Addresses /\ <<"all", n>>[2] = n
      BY <1>5, Viewed
    <3> QED BY <1>5, <2>1, <3>1, <3>2, <3>3, <3>4 DEF ShowsNoLess
  <2>2. ASSUME NEW g \in pass[t].left, g.to = c, g.name = n, g = f
        PROVE  AtLeast(screen'[c][<<"all", n>>], t, answer[t][n])
    <3>1. joined[c]
      BY <1>5 DEF Watched
    <3> QED BY <1>1, <1>2, <1>3, <2>2, <3>1, ResultShows DEF Delivered
  <2>3. \/ Owed(t, c, n) \/ AtLeast(screen[c][<<"all", n>>], t, answer[t][n])
    BY <1>1, <1>5 DEF Delivered, Published
  <2> QED BY <2>1, <2>2, <2>3 DEF Owed
<1> QED BY <1>1, <1>2, <1>3, <1>4, <1>5, PublishingDelivered

\* Whoever holds what moved is owed a frame, whether its evaluation failed or not;
\* the firehose has had its own.
LEMMA PassServeDelivered ==
  ASSUME Shaped, BoardFirst, Counted, NEW c \in Clients, Delivered(c), NEW t \in Tenants, PassServe(t)
  PROVE  Delivered(c)'
<1>1. /\ pass[t].at = "publishing" /\ pass[t].left = {} /\ SameClients
      /\ UNCHANGED <<answer, heard, screen>>
  BY DEF PassServe, SameClients, interest
<1>2. PICK failed \in SUBSET pass[t].moved :
        Goes(t, [at |-> "serving", moved |-> pass[t].moved,
                 left |-> UNION {{[f EXCEPT !.failed = f.name \in failed] :
                                  f \in Frames({n}, Holding(t, n))} : n \in pass[t].moved}])
  BY DEF PassServe
<1> DEFINE Owing(n) == {[f EXCEPT !.failed = f.name \in failed] : f \in Frames({n}, Holding(t, n))}
           left == UNION {Owing(n) : n \in pass[t].moved}
<1>3. /\ pass'[t].at = "serving" /\ pass'[t].moved = pass[t].moved /\ pass'[t].left = left
      /\ \A u \in Tenants \ {t} : pass'[u] = pass[u]
  <2>1. Goes(t, [at |-> "serving", moved |-> pass[t].moved, left |-> left])
    BY <1>2
  <2> HIDE DEF left
  <2> QED BY <2>1, GoesTo
<1>4. ASSUME tenantOf[c] = t, NEW n \in pass[t].moved, Held(c, n)
      PROVE  \E f \in left : f.to = c /\ f.name = n
  <2>1. c \in Holding(t, n)
    BY <1>4 DEF Held, Holding
  <2>2. PICK f \in Frames({n}, Holding(t, n)) : f.to = c /\ f.name = n
    BY <2>1, EachIsSent
  <2>3. f \in FrameSet
    <3>1. n \in Names
      BY <1>1, <1>4, PassShapes
    <3> QED BY <2>2, <3>1, FramesShaped DEF Holding
  <2>4. [f EXCEPT !.failed = f.name \in failed] \in Owing(n)
    BY <2>2
  <2>5. [f EXCEPT !.failed = f.name \in failed].to = c /\ [f EXCEPT !.failed = f.name \in failed].name = n
    BY <2>2, <2>3 DEF FrameSet
  <2> HIDE DEF Owing
  <2>6. [f EXCEPT !.failed = f.name \in failed] \in left
    BY <2>4
  <2> HIDE DEF left
  <2> QED BY <2>5, <2>6
<1> HIDE DEF left
<1>5. /\ tenantOf' = tenantOf
      /\ \A n \in Names : (Watched(c, n)' <=> Watched(c, n)) /\ (Held(c, n)' <=> Held(c, n))
  BY <1>1 DEF SameClients, Watched, PaintDue, Held
<1>6. ASSUME tenantOf[c] = t
      PROVE  NobodyUnserved(c)' /\ Published(c)' /\ Served(c)'
  <2>1. NobodyUnserved(c)'
    BY <1>3, <1>5, <1>6 DEF NobodyUnserved
  <2>2. ASSUME NEW n \in Names, n \in pass[t].moved, Watched(c, n)
        PROVE  AtLeast(screen[c][<<"all", n>>], t, answer[t][n])
    BY <1>1, <1>6, <2>2 DEF Delivered, Published, Owed
  <2>3. Published(c)'
    BY <1>1, <1>3, <1>5, <1>6, <2>2 DEF Published
  <2>4. Served(c)'
    BY <1>1, <1>3, <1>4, <1>5, <1>6 DEF Served, Owed
  <2> QED BY <2>1, <2>3, <2>4
<1>7. NoneAhead(c)' /\ PaintsTables(c)' /\ ShowsNoLess(c)
  BY <1>1 DEF Delivered, NoneAhead, PaintsTables, ShowsNoLess, SameClients
<1> QED BY <1>1, <1>3, <1>6, <1>7, PassStep

\* An entry's frame is for the board it is an entry of.
LEMMA SendMovedDelivered ==
  ASSUME Shaped, BoardFirst, Counted, NEW c \in Clients, Delivered(c), NEW t \in Tenants, SendMoved(t)
  PROVE  Delivered(c)'
<1>1. /\ pass[t].at = "serving" /\ SameClients /\ UNCHANGED <<answer, heard>>
      /\ pass[t] \in [at : {"publishing", "serving"}, moved : SUBSET Names, left : SUBSET FrameSet]
  BY PassShapes DEF SendMoved, SameClients, interest, history
<1>2. PICK f \in pass[t].left :
        /\ Goes(t, [pass[t] EXCEPT !.left = @ \ {f}])
        /\ screen' = [screen EXCEPT ![f.to][<<"entry", f.name>>] =
                         IF ~Takes(f.to, Labelled(t, f.to)) THEN @
                         ELSE IF f.failed THEN Error ELSE Shown(t, answer[t][f.name])]
  BY DEF SendMoved
<1>3. f.name \in Names /\ answer[t][f.name] \in Nat
  BY <1>1, <1>2 DEF FrameSet, Shaped
<1>4. /\ pass'[t].at = "serving" /\ pass'[t].moved = pass[t].moved /\ pass'[t].left = pass[t].left \ {f}
      /\ \A u \in Tenants \ {t} : pass'[u] = pass[u]
  <2>1. [pass[t] EXCEPT !.left = @ \ {f}] =
          [at |-> "serving", moved |-> pass[t].moved, left |-> pass[t].left \ {f}]
    BY <1>1
  <2> QED BY <1>2, <2>1, GoesTo
<1> DEFINE v == IF ~Takes(f.to, Labelled(t, f.to)) THEN screen[f.to][<<"entry", f.name>>]
                ELSE IF f.failed THEN Error ELSE Shown(t, answer[t][f.name])
<1>5. screen' = [screen EXCEPT ![f.to][<<"entry", f.name>>] = v]
  BY <1>2
<1>6. /\ \/ v = screen[f.to][<<"entry", f.name>>] \/ v = Error
         \/ v = Shown(t, answer[t][<<"entry", f.name>>[2]])
      /\ joined[f.to] /\ tenantOf[f.to] = t => v = Error \/ v = Shown(t, answer[t][f.name])
  BY DEF Takes, Labelled
<1> HIDE DEF v
<1>7. NoneAhead(c)'
  BY <1>1, <1>3, <1>5, <1>6, FrameNotAhead DEF Delivered
<1>8. tenantOf[c] \in Tenants => ShowsNoLess(c)
  BY <1>3, <1>5, <1>6, FrameShowsNoLess
<1>9. /\ tenantOf' = tenantOf
      /\ \A n \in Names : (Watched(c, n)' <=> Watched(c, n)) /\ (Held(c, n)' <=> Held(c, n))
  BY <1>1 DEF SameClients, Watched, PaintDue, Held
<1>10. ASSUME tenantOf[c] = t
       PROVE  NobodyUnserved(c)' /\ Published(c)' /\ Served(c)'
  <2>1. NobodyUnserved(c)'
    BY <1>4, <1>9, <1>10 DEF NobodyUnserved
  <2>2. Published(c)'
    <3>1. \A n \in Names : screen'[c][<<"all", n>>] = screen[c][<<"all", n>>]
      BY <1>5 DEF Shaped
    <3>2. ASSUME NEW n \in Names, n \in pass[t].moved, Watched(c, n)
          PROVE  AtLeast(screen[c][<<"all", n>>], t, answer[t][n])
      BY <1>1, <1>10, <3>2 DEF Delivered, Published
    <3> QED BY <1>1, <1>4, <1>9, <1>10, <3>1, <3>2 DEF Published
  <2>3. ASSUME NEW n \in Names, n \in pass[t].moved, Held(c, n)
        PROVE  \/ \E g \in pass[t].left \ {f} : g.to = c /\ g.name = n
               \/ AtLeast(screen'[c][<<"entry", n>>], t, answer[t][n])
    <3>1. CASE AtLeast(screen[c][<<"entry", n>>], t, answer[t][n])
      <4>1. answer[t][n] \in Nat
        BY <2>3 DEF Shaped
      <4>2. answer[t][n] <= answer[t][n]
        BY <4>1
      <4>3. <<"entry", n>> \in Addresses /\ <<"entry", n>>[2] = n
        BY <2>3, Viewed
      <4> QED BY <1>8, <1>10, <3>1, <4>1, <4>2, <4>3 DEF ShowsNoLess
    <3>2. ASSUME f.to = c, f.name = n PROVE AtLeast(screen'[c][<<"entry", n>>], t, answer[t][n])
      <4>1. joined[c]
        BY <2>3 DEF Held
      <4>2. screen'[c][<<"entry", n>>] = v
        BY <1>3, <1>5, <3>2, Viewed DEF Shaped, Screens
      <4>3. v = Error \/ v = Shown(t, answer[t][n])
        BY <1>6, <1>10, <3>2, <4>1
      <4> QED BY <1>3, <3>2, <4>2, <4>3, FramesAreFresh
    <3>3. Owed(t, c, n) \/ AtLeast(screen[c][<<"entry", n>>], t, answer[t][n])
      BY <1>1, <1>10, <2>3 DEF Delivered, Served
    <3> QED BY <3>1, <3>2, <3>3 DEF Owed
  <2>4. Served(c)'
    BY <1>1, <1>4, <1>9, <1>10, <2>3 DEF Served, Owed
  <2> QED BY <2>1, <2>2, <2>4
<1>11. PaintsTables(c)'
  BY <1>1 DEF Delivered, PaintsTables, SameClients
<1> QED BY <1>1, <1>4, <1>7, <1>8, <1>10, <1>11, PassStep

\* Nothing is left to send: whoever follows what moved has been shown it.
LEMMA PassDoneDelivered ==
  ASSUME Shaped, BoardFirst, Counted, NEW c \in Clients, Delivered(c), NEW t \in Tenants, PassDone(t)
  PROVE  Delivered(c)'
<1>1. /\ pass[t].at = "serving" /\ pass[t].left = {} /\ SameClients /\ UNCHANGED <<answer, screen>>
      /\ heard' = [heard EXCEPT ![t] =
           [n \in Names |-> IF n \in pass[t].moved THEN answer[t][n] ELSE @[n]]]
      /\ Goes(t, Resting)
  BY DEF PassDone, SameClients, interest
<1>2. pass'[t] = Resting /\ \A u \in Tenants \ {t} : pass'[u] = pass[u]
  BY <1>1, GoesTo
<1>3. pass'[t].at = "idle"
  BY <1>2 DEF Resting
<1>4. /\ \A u \in Tenants \ {t} : heard'[u] = heard[u]
      /\ \A n \in Names : heard'[t][n] = IF n \in pass[t].moved THEN answer[t][n] ELSE heard[t][n]
  BY <1>1 DEF Shaped
<1>5. /\ tenantOf' = tenantOf
      /\ \A n \in Names : (Watched(c, n)' <=> Watched(c, n)) /\ (Held(c, n)' <=> Held(c, n))
  BY <1>1 DEF SameClients, Watched, PaintDue, Held
<1>6. ASSUME tenantOf[c] = t
      PROVE  Fresh(c)' /\ NobodyUnserved(c)' /\ Published(c)' /\ Served(c)'
  <2>1. ASSUME NEW n \in Names
        PROVE  /\ Watched(c, n) => AtLeast(screen[c][<<"all", n>>], t, heard'[t][n])
               /\ Held(c, n) => AtLeast(screen[c][<<"entry", n>>], t, heard'[t][n])
    <3>1. CASE n \in pass[t].moved
      <4>1. /\ Watched(c, n) => AtLeast(screen[c][<<"all", n>>], t, answer[t][n])
            /\ Held(c, n) => AtLeast(screen[c][<<"entry", n>>], t, answer[t][n])
        BY <1>1, <1>6, <3>1 DEF Delivered, Published, Served, Owed
      <4> QED BY <1>4, <3>1, <4>1
    <3>2. CASE n \notin pass[t].moved
      BY <1>4, <1>6, <3>2 DEF Delivered, Fresh, Follow
    <3> QED BY <3>1, <3>2
  <2>2. Fresh(c)'
    BY <1>1, <1>5, <1>6, <2>1 DEF Fresh, Follow
  <2>3. NobodyUnserved(c)' /\ Published(c)' /\ Served(c)'
    BY <1>3, <1>5, <1>6 DEF NobodyUnserved, Published, Served
  <2> QED BY <2>2, <2>3
<1>7. NoneAhead(c)' /\ PaintsTables(c)' /\ ShowsNoLess(c)
  BY <1>1 DEF Delivered, NoneAhead, PaintsTables, ShowsNoLess, SameClients
<1> QED BY <1>1, <1>2, <1>4, <1>6, <1>7, PassStep

-----------------------------------------------------------------------------
(* What keeps each screen as fresh as it has to be.                        *)

\* A teach only takes entries away, and their holders are told.
LEMMA TeachDelivered ==
  ASSUME Shaped, Shaped', BoardFirst, BoardFirst', Counted, NEW c \in Clients, Delivered(c),
         Teach \/ SendEnded
  PROVE  Delivered(c)'
<1>1. CASE Teach
  <2>1. entries'[c] \subseteq entries[c]
    BY <1>1 DEF Teach, Shaped
  <2>2. PassesKept(c)
    BY <1>1 DEF Teach, PassesKept
  <2> QED BY <1>1, <2>1, <2>2, OthersDelivered DEF Teach, history
<1>2. CASE SendEnded
  <2>1. PICK e \in ending : screen' = [screen EXCEPT ![e[1]][<<"entry", e[2]>>] = Error]
    BY <1>2 DEF SendEnded
  <2>2. UNCHANGED <<answer, heard, pass, joined, tenantOf, firehose, entries, socket>>
    BY <1>2 DEF SendEnded, interest, history
  <2>3. NoneAhead(c)'
    BY <2>1, <2>2, FrameNotAhead DEF Delivered
  <2>4. PaintsTables(c)'
    BY <2>2 DEF Delivered, PaintsTables
  <2>5. ASSUME NEW n \in Names, Watched(c, n)'
        PROVE  Watched(c, n) /\ screen'[c][<<"all", n>>] = screen[c][<<"all", n>>]
    BY <2>1, <2>2, <2>5 DEF Watched, PaintDue, Shaped
  <2>6. ASSUME NEW n \in Names, Held(c, n)'
        PROVE  \/ Held(c, n) /\ screen'[c][<<"entry", n>>] = screen[c][<<"entry", n>>]
               \/ AtLeast(screen'[c][<<"entry", n>>], tenantOf[c], answer[tenantOf[c]][n])
    <3>1. Held(c, n) /\ tenantOf[c] \in Tenants
      BY <2>2, <2>6, FollowersWatch DEF Held
    <3>2. CASE screen'[c][<<"entry", n>>] = screen[c][<<"entry", n>>]
      BY <3>1, <3>2
    <3>3. CASE screen'[c][<<"entry", n>>] # screen[c][<<"entry", n>>]
      <4>1. screen'[c][<<"entry", n>>] = Error
        BY <2>1, <3>3, Viewed DEF Shaped, Screens
      <4> QED BY <3>1, <4>1, FramesAreFresh
    <3> QED BY <3>2, <3>3
  <2> QED BY <2>2, <2>3, <2>4, <2>5, <2>6, OwnKept
<1> QED BY <1>1, <1>2

\* What one client's step leaves of another.
LEMMA ClientStepAside ==
  ASSUME Shaped, Shaped', BoardFirst', Counted, NEW c \in Clients, NEW d \in Clients, c # d, Delivered(d),
         \/ Connect(c) \/ HangUp(c) \/ Answering(c) \/ FetchRaises(c)
         \/ \E a \in Asks : Subscribe(c, a) \/ Unsubscribe(c, a)
  PROVE  Delivered(d)'
<1> DEFINE Aside == /\ UNCHANGED <<answer, heard>>
                    /\ joined'[d] = joined[d] /\ tenantOf'[d] = tenantOf[d]
                    /\ firehose'[d] = firehose[d] /\ entries'[d] = entries[d]
                    /\ socket'[d] = socket[d] /\ screen'[d] = screen[d]
<1>1. Aside
  <2>1. CASE Connect(c)
    BY <2>1 DEF Connect, Shaped
  <2>2. CASE HangUp(c)
    BY <2>2 DEF HangUp, Shaped, history
  <2>3. CASE FetchRaises(c)
    BY <2>3 DEF FetchRaises, Shaped
  <2>4. ASSUME NEW a \in Asks, Subscribe(c, a) PROVE Aside
    BY <2>4 DEF Subscribe, Shaped
  <2>5. ASSUME NEW a \in Asks, Unsubscribe(c, a) PROVE Aside
    BY <2>5 DEF Unsubscribe, Shaped
  <2>6. CASE Paint(c)
    BY <2>6 DEF Paint, Shaped, interest, history
  <2>7. CASE SendPaint(c)
    BY <2>7 DEF SendPaint, Shaped, interest, history
  <2>8. CASE Refuse(c)
    BY <2>8 DEF Refuse, Shaped, interest, history
  <2>9. CASE Register(c)
    BY <2>9 DEF Register, Shaped
  <2>10. CASE SendEntry(c)
    BY <2>10 DEF SendEntry, Shaped, history
  <2>11. CASE Subscribed(c)
    BY <2>11 DEF Subscribed, Shaped, interest, history
  <2> QED BY <2>1, <2>2, <2>3, <2>4, <2>5, <2>6, <2>7, <2>8, <2>9, <2>10, <2>11 DEF Answering
<1>4. PassesKept(d)
  <2>1. CASE HangUp(c) \/ FetchRaises(c)
    <3>1. pass' = Without(c)
      BY <2>1 DEF HangUp, FetchRaises
    <3> QED BY <3>1, WithoutKeeps DEF PassesKept
  <2>2. CASE ~(HangUp(c) \/ FetchRaises(c))
    <3>1. pass' = pass
      BY <2>2 DEF Connect, Answering, Subscribe, Unsubscribe, Paint, SendPaint, Refuse,
                  Register, SendEntry, Subscribed
    <3> QED BY <3>1 DEF PassesKept
  <2> QED BY <2>1, <2>2
<1> QED BY <1>1, <1>4, OthersDelivered

LEMMA DeliveryInductive ==
  ASSUME Frame, Frame', Delivery, [Next]_vars
  PROVE  Delivery'
<1> USE DEF Frame
<1> SUFFICES ASSUME NEW c \in Clients, Delivered(c) PROVE Delivered(c)'
  BY DEF Delivery
<1>1. ASSUME Connect(c) \/ HangUp(c) \/ FetchRaises(c) PROVE Delivered(c)'
  BY <1>1, ConnectDelivered, GoneDelivered
<1>2. ASSUME NEW a \in Asks, Subscribe(c, a) \/ Unsubscribe(c, a) PROVE Delivered(c)'
  BY <1>2, SubscribeDelivered, UnsubscribeDelivered
<1>3. ASSUME Answering(c) PROVE Delivered(c)'
  BY <1>3, PaintDelivered, SendPaintDelivered, RefuseDelivered, RegisterDelivered, SendEntryDelivered,
     SubscribedDelivered DEF Answering
<1>4. ASSUME NEW d \in Clients, c # d,
             \/ Connect(d) \/ HangUp(d) \/ Answering(d) \/ FetchRaises(d)
             \/ \E a \in Asks : Subscribe(d, a) \/ Unsubscribe(d, a)
      PROVE  Delivered(c)'
  BY <1>4, ClientStepAside
<1>5. ASSUME NEW t \in Tenants, PassQueue(t) \/ Passing(t) \/ PassRaises(t) PROVE Delivered(c)'
  BY <1>5, QuietDelivered, PassPublishDelivered, SendResultDelivered, PassServeDelivered,
     SendMovedDelivered, PassDoneDelivered DEF Passing
<1>6. CASE Teach \/ SendEnded
  BY <1>6, TeachDelivered
<1>7. CASE UNCHANGED vars
  <2>1. PassesKept(c)
    BY <1>7 DEF vars, PassesKept
  <2> QED BY <1>7, <2>1, OthersDelivered DEF vars, interest, history
<1> QED BY <1>1, <1>2, <1>3, <1>4, <1>5, <1>6, <1>7 DEF Next

LEMMA FrameInductive ==
  ASSUME Frame, [Next]_vars
  PROVE  Frame'
BY ShapedInductive, BoardFirstInductive, LineInductive, CountedInductive DEF Frame

LEMMA InitFrame == Init => Frame /\ Delivery
<1> SUFFICES ASSUME Init PROVE Frame /\ Delivery
  OBVIOUS
<1>1. Shaped
  <2>1. screen \in [Clients -> Screens]
    BY DEF Init, Blank, Screens, Views
  <2>2. 1 \in Deploys
    BY Libraries
  <2>3. socket \in [Clients -> Sockets] /\ pass \in [Tenants -> PassStates]
    BY DEF Init, Sockets, PassStates
  <2> QED BY <2>1, <2>2, <2>3, StreamAssumption DEF Init, Shaped
<1>2. Lines
  BY DEF Init, Lines, IsInjective
<1>3. BoardFirst /\ InLine /\ Inside
  BY DEF Init, BoardFirst, InLine, Inside, Waits, Reading, Resting
<1>4. Counted
  BY StreamAssumption DEF Init, Counted, Resting
<1>5. ASSUME NEW c \in Clients PROVE Delivered(c)
  BY DEF Init, Delivered, NoneAhead, PaintsTables, Fresh, Follow, NobodyUnserved, Published, Served,
         Watched, Held, Blank, Reading, Resting
<1> QED BY <1>1, <1>2, <1>3, <1>4, <1>5 DEF Frame, Delivery

-----------------------------------------------------------------------------
(* Whatever is shown anew is what the tables give, or says there is none.  *)

Current(c, a) ==
  \/ screen'[c][a] = screen[c][a] \/ screen'[c][a] \in {None, Error}
  \/ \E t \in Tenants : screen'[c][a] = Shown(t, answer[t][a[2]])

LEMMA FrameCurrent ==
  ASSUME Shaped, NEW d, NEW b, NEW v, screen' = [screen EXCEPT ![d][b] = v],
         \/ v = screen[d][b] \/ v = Error
         \/ \E t \in Tenants : v = Shown(t, answer[t][b[2]]),
         NEW c \in Clients, NEW a \in Addresses
  PROVE  Current(c, a)
<1>1. screen'[c][a] = screen[c][a] \/ (c = d /\ a = b /\ screen'[c][a] = v)
  BY DEF Shaped, Screens
<1> QED BY <1>1 DEF Current

LEMMA BlankCurrent ==
  ASSUME Shaped, NEW d, screen' = [screen EXCEPT ![d] = Blank], NEW c \in Clients, NEW a \in Addresses
  PROVE  Current(c, a)
<1>1. screen'[c] = screen[c] \/ screen'[c] = Blank
  BY DEF Shaped
<1>2. Blank[a] = None
  BY DEF Blank
<1> QED BY <1>1, <1>2 DEF Current

LEMMA StepsShowTables ==
  ASSUME Frame, Delivery, [Next]_vars, NEW c \in Clients, NEW a \in Addresses
  PROVE  Current(c, a)
<1> USE DEF Frame
<1>1. ASSUME screen' = screen PROVE Current(c, a)
  BY <1>1 DEF Current
<1>2. ASSUME NEW d \in Clients, HangUp(d) \/ FetchRaises(d) PROVE Current(c, a)
  BY <1>2, BlankCurrent DEF HangUp, FetchRaises
<1>3. ASSUME NEW d \in Clients, NEW x \in Asks, Subscribe(d, x) PROVE Current(c, a)
  <2>1. screen' = [screen EXCEPT ![d] = Blank] \/ screen' = screen
    BY <1>3 DEF Subscribe, Shaped
  <2> QED BY <1>1, <2>1, BlankCurrent
<1>4. ASSUME NEW d \in Clients, SendPaint(d) PROVE Current(c, a)
  <2>1. PICK part \in socket[d].left :
          screen' = [screen EXCEPT ![d][<<"all", part[1]>>] =
                       IF joined[d] THEN Shown(tenantOf[d], part[2]) ELSE @]
    BY <1>4 DEF SendPaint
  <2>2. socket[d].at = "painting" /\ tenantOf[d] \in Tenants
    BY <1>4 DEF SendPaint, InLine
  <2>3. part[2] = answer[tenantOf[d]][part[1]]
    BY <2>1, <2>2 DEF Delivery, Delivered, PaintsTables
  <2> DEFINE v == IF joined[d] THEN Shown(tenantOf[d], part[2]) ELSE screen[d][<<"all", part[1]>>]
  <2>4. screen' = [screen EXCEPT ![d][<<"all", part[1]>>] = v]
    BY <2>1
  <2>5. v = screen[d][<<"all", part[1]>>] \/ v = Shown(tenantOf[d], answer[tenantOf[d]][<<"all", part[1]>>[2]])
    BY <2>3
  <2> HIDE DEF v
  <2> QED BY <2>2, <2>4, <2>5, FrameCurrent
<1>5. ASSUME NEW d \in Clients, Refuse(d) PROVE Current(c, a)
  <2>1. PICK n : screen' = [screen EXCEPT ![d][<<"entry", n>>] = IF joined[d] THEN Error ELSE @]
    BY <1>5 DEF Refuse
  <2> QED BY <2>1, FrameCurrent
<1>6. ASSUME NEW d \in Clients, SendEntry(d) PROVE Current(c, a)
  <2> DEFINE n == socket[d].fetching
             t == tenantOf[d]
             v == IF joined[d] THEN IF n \in Unfetchable THEN Error ELSE Shown(t, answer[t][n])
                  ELSE screen[d][<<"entry", n>>]
  <2>1. screen' = [screen EXCEPT ![d][<<"entry", n>>] = v]
    BY <1>6 DEF SendEntry
  <2>2. t \in Tenants
    BY <1>6 DEF SendEntry, InLine
  <2>3. v = screen[d][<<"entry", n>>] \/ v = Error \/ v = Shown(t, answer[t][<<"entry", n>>[2]])
    OBVIOUS
  <2> HIDE DEF v, n, t
  <2> QED BY <2>1, <2>2, <2>3, FrameCurrent
<1>7. ASSUME NEW t \in Tenants, NEW f, Result(t, f) PROVE Current(c, a)
  <2> DEFINE v == IF Takes(f.to, tenantOf[f.to]) THEN Shown(t, answer[t][f.name])
                  ELSE screen[f.to][<<"all", f.name>>]
  <2>1. screen' = [screen EXCEPT ![f.to][<<"all", f.name>>] = v]
    BY <1>7 DEF Result
  <2>2. v = screen[f.to][<<"all", f.name>>] \/ v = Shown(t, answer[t][<<"all", f.name>>[2]])
    OBVIOUS
  <2> HIDE DEF v
  <2> QED BY <2>1, <2>2, FrameCurrent
<1>8. ASSUME NEW t \in Tenants, SendMoved(t) PROVE Current(c, a)
  <2>1. PICK f \in pass[t].left :
          screen' = [screen EXCEPT ![f.to][<<"entry", f.name>>] =
                       IF ~Takes(f.to, Labelled(t, f.to)) THEN @
                       ELSE IF f.failed THEN Error ELSE Shown(t, answer[t][f.name])]
    BY <1>8 DEF SendMoved
  <2> DEFINE v == IF ~Takes(f.to, Labelled(t, f.to)) THEN screen[f.to][<<"entry", f.name>>]
                  ELSE IF f.failed THEN Error ELSE Shown(t, answer[t][f.name])
  <2>2. screen' = [screen EXCEPT ![f.to][<<"entry", f.name>>] = v]
    BY <2>1
  <2>3. \/ v = screen[f.to][<<"entry", f.name>>] \/ v = Error
        \/ v = Shown(t, answer[t][<<"entry", f.name>>[2]])
    OBVIOUS
  <2> HIDE DEF v
  <2> QED BY <2>2, <2>3, FrameCurrent
<1>9. CASE SendEnded
  BY <1>9, FrameCurrent DEF SendEnded
<1>10. ASSUME NEW t \in Tenants, PassPublish(t) \/ SendResult(t) PROVE Current(c, a)
  <2>1. screen' = screen \/ \E f : Result(t, f)
    BY <1>10 DEF PassPublish, SendResult
  <2> QED BY <1>1, <1>7, <2>1
<1> QED
  BY <1>1, <1>2, <1>3, <1>4, <1>5, <1>6, <1>8, <1>9, <1>10
  DEF Next, Answering, Connect, Unsubscribe, Paint, Register, Subscribed, Passing, PassQueue, PassStart,
      PassCompute, PassServe, PassDone, PassRaises, Teach, vars, interest, history

-----------------------------------------------------------------------------
(* The results.                                                            *)

\* The shape, who holds each lock, and what each screen and each pass's frames
\* say between them are kept by every step: the invariant behind the rest.
THEOREM DeliveryInvariant == Spec => [](Frame /\ Delivery)
BY InitFrame, FrameInductive, DeliveryInductive, PTL DEF Spec

\* Every variable has its type; a lock's line (runtime.py, write_lock) never holds
\* anyone twice, and no screen shows an answer of a pass that has not been.
THEOREM TypeCorrect == Spec => []TypeOK
<1>1. ASSUME Frame, Delivery PROVE TypeOK
  <2>1. passes \in Nat /\ MaxPasses \in Nat /\ passes <= MaxPasses
    BY <1>1, StreamAssumption DEF Frame, Shaped
  <2>2. \A t \in Tenants, n \in Names :
          /\ heard[t][n] \in Nat /\ answer[t][n] \in Nat
          /\ heard[t][n] <= answer[t][n] /\ answer[t][n] <= passes
    BY <1>1 DEF Frame, Shaped, Counted
  <2>3. \A t \in Tenants, n \in Names : heard[t][n] \in 0..MaxPasses /\ answer[t][n] \in 0..MaxPasses
    BY <2>1, <2>2
  <2>4. answer \in [Tenants -> [Names -> 0..MaxPasses]] /\ heard \in [Tenants -> [Names -> 0..MaxPasses]]
    BY <1>1, <2>3 DEF Frame, Shaped
  <2>5. ASSUME NEW c \in Clients, NEW a \in Addresses
        PROVE  screen[c][a] \in {None, Error} \union [of : Tenants, value : 0..MaxPasses]
    <3>1. screen[c][a] \in Views /\ a[2] \in Names
      BY <1>1 DEF Frame, Shaped, Screens, Addresses
    <3>2. CASE screen[c][a] \notin {None, Error}
      <4>1. screen[c][a] \in [of : Tenants, value : Nat]
        BY <3>1, <3>2 DEF Views
      <4>2. screen[c][a].value <= answer[screen[c][a].of][a[2]]
        BY <1>1, <3>2 DEF Delivery, Delivered, NoneAhead
      <4>3. answer[screen[c][a].of][a[2]] \in 0..MaxPasses
        BY <2>3, <3>1, <4>1
      <4>4. screen[c][a].value \in 0..MaxPasses
        BY <2>1, <4>1, <4>2, <4>3
      <4> QED BY <4>1, <4>4
    <3> QED BY <3>2
  <2>6. \A c \in Clients : socket[c].at \in {"reading", "waiting", "painting", "entering"}
    BY <1>1, SocketShapes DEF Frame
  <2>7. \A t \in Tenants :
          pass[t].at \in {"idle", "waiting", "running", "computed", "publishing", "serving"}
    BY <1>1, PassShapes DEF Frame
  <2> QED BY <1>1, <2>4, <2>5, <2>6, <2>7 DEF TypeOK, Frame, Shaped, Lines
<1> QED BY <1>1, DeliveryInvariant, PTL

\* Whoever follows an answer shows it, and none older than the last delivered pass
\* left, however the subscription, the passes and the teaches interleave
\* (app.py, stream; runtime.py, push_pass; hub.py, serve_entries).
THEOREM FollowersAreFresh == Spec => []FollowedIsFresh
<1>1. ASSUME Frame, Delivery PROVE FollowedIsFresh
  <2> SUFFICES ASSUME NEW c \in Clients, NEW a \in Addresses, Follows(c, a)
               PROVE  AtLeast(screen[c][a], tenantOf[c], heard[tenantOf[c]][a[2]])
    BY DEF FollowedIsFresh, AtLeast
  <2>1. a \in {<<"all", a[2]>>, <<"entry", a[2]>>} /\ a[2] \in Names /\ a[1] \in {"all", "entry"}
    BY DEF Addresses, Modes
  <2>2. Fresh(c)
    BY <1>1 DEF Delivery, Delivered
  <2>3. CASE a[1] = "all"
    <3>1. Watched(c, a[2]) /\ a = <<"all", a[2]>>
      BY <2>1, <2>3 DEF Follows, Watched, PaintDue, Reading
    <3> QED BY <2>1, <2>2, <3>1 DEF Fresh, Follow
  <2>4. CASE a[1] = "entry"
    <3>1. Held(c, a[2]) /\ a = <<"entry", a[2]>>
      BY <2>1, <2>4 DEF Follows, Held, Reading
    <3> QED BY <2>1, <2>2, <3>1 DEF Fresh, Follow
  <2> QED BY <2>1, <2>3, <2>4
<1> QED BY <1>1, DeliveryInvariant, PTL

\* A first paint, an entry's answer and a pass's frames reach a client in the
\* order of the answers they carry (app.py, stream; hub.py, publish).
THEOREM FramesKeepOrder == Spec => NeverGoesBack
<1>1. ASSUME Frame, Delivery, [Next]_vars, NEW c \in Clients, NEW a \in Addresses
      PROVE  ~Older(c, a)
  <2> SUFFICES ASSUME screen[c][a] \notin {None, Error}, screen'[c][a] \notin {None, Error},
                      screen'[c][a].of = screen[c][a].of
               PROVE  ~(screen'[c][a].value < screen[c][a].value)
    BY DEF Older
  <2>1. screen[c][a].of \in Tenants /\ screen[c][a].value \in Nat /\ a[2] \in Names
    BY <1>1 DEF Frame, Shaped, Screens, Views, Addresses
  <2>2. CASE screen'[c][a] = screen[c][a]
    BY <2>1, <2>2
  <2>3. ASSUME NEW t \in Tenants, screen'[c][a] = Shown(t, answer[t][a[2]])
        PROVE  ~(screen'[c][a].value < screen[c][a].value)
    <3>1. screen'[c][a].value = answer[t][a[2]] /\ screen[c][a].of = t
      BY <2>3 DEF Shown
    <3>2. screen[c][a].value <= answer[t][a[2]] /\ answer[t][a[2]] \in Nat
      BY <1>1, <2>1, <3>1 DEF Frame, Shaped, Delivery, Delivered, NoneAhead
    <3> QED BY <2>1, <3>1, <3>2
  <2> QED BY <1>1, <2>2, <2>3, StepsShowTables DEF Current
<1>2. ASSUME Frame, Delivery, [Next]_vars
      PROVE  [\A c \in Clients, a \in Addresses : ~Older(c, a)]_vars
  BY <1>1, <1>2
<1> QED BY <1>2, DeliveryInvariant, PTL DEF Spec, NeverGoesBack

\* Whatever a client switches to while a pass is delivering, an entry's address
\* shows its own board's answers (hub.py, serve_entries).
THEOREM EntriesKeep == Spec => []EntriesKeepToBoard
<1>1. Spec => []Kept
  BY InitKept, KeptInductive, PTL DEF Spec
<1>2. Kept => EntriesKeepToBoard
  BY DEF Kept
<1> QED BY <1>1, <1>2, PTL

\* Whatever a teach removes, no entry registered in time stands on it (hub.py,
\* retire_entries).
THEOREM NoneGoSilent == Spec => []NoneSilentInTime
<1>1. Kept => Mapped
  BY DEF Kept
<1>2. Spec => [](Kept /\ NoneSilentInTime)
  BY <1>1, InitKept, KeptInductive, StandingInductive, PTL DEF Spec
<1> QED BY <1>2, PTL

=============================================================================
