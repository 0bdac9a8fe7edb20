-------------------------- MODULE FactsDoor_proofs --------------------------
(***************************************************************************)
(* Proofs about FactsDoor, for every set of keys and requests, every       *)
(* provider history, every sequence of teaches and every bound.            *)
(***************************************************************************)
EXTENDS FactsDoor, SequenceTheorems, TLAPS

-----------------------------------------------------------------------------
(* The lock admits one.                                                    *)

Locked ==
  /\ lock \in Seq(Requests)
  /\ pc \in [Requests -> Places]
  /\ DOMAIN ask = Requests
  /\ OneInside

\* Whoever holds the lock is alone inside it.
LEMMA Alone ==
  ASSUME OneInside, NEW r \in Requests, Holds(r)
  PROVE  \A s \in Requests \ {r} : pc[s] \notin Inner
BY DEF OneInside, Holds

\* The holder may move on or leave; a request may only queue behind it.
LEMMA HolderMoves ==
  ASSUME Locked, NEW r \in Requests, Holds(r), NEW place \in Places,
         pc' = [pc EXCEPT ![r] = place], lock' = lock, DOMAIN ask' = Requests
  PROVE  Locked'
BY Alone DEF Locked, OneInside, Holds, Inner, Places

LEMMA HolderLeaves ==
  ASSUME Locked, NEW r \in Requests, Holds(r), Finish(r), lock' = Tail(lock)
  PROVE  Locked'
<1>1. \A s \in Requests : pc'[s] \notin Inner
  BY Alone DEF Finish, Locked, Inner
<1>2. lock' \in Seq(Requests)
  BY DEF Locked, Holds
<1>3. pc' \in [Requests -> Places] /\ DOMAIN ask' = Requests
  BY DEF Finish, Locked, Places
<1> QED
  BY <1>1, <1>2, <1>3 DEF Locked, OneInside

LEMMA Queues ==
  ASSUME Locked, NEW r \in Requests, pc[r] \notin Inner,
         pc' = [pc EXCEPT ![r] = "queued"], lock' = Append(lock, r), DOMAIN ask' = Requests
  PROVE  Locked'
<1>1. lock' \in Seq(Requests) /\ lock' # <<>>
  BY DEF Locked
<1>2. lock # <<>> => Head(lock') = Head(lock)
  BY DEF Locked
<1>3. \A s \in Requests : pc'[s] \in Inner => pc[s] \in Inner
  BY DEF Locked, Inner
<1> QED
  BY <1>1, <1>2, <1>3 DEF Locked, OneInside, Places

\* Every request past the lock holds it.
LEMMA InnerHolds ==
  ASSUME OneInside, NEW r \in Requests, pc[r] \in Inner
  PROVE  Holds(r)
BY DEF OneInside, Holds

LEMMA AtPassHolds ==
  ASSUME OneInside, NEW r \in Requests, AtPass(r)
  PROVE  Holds(r)
BY InnerHolds DEF AtPass, Inner

\* Whatever happens, the lock admits one.
LEMMA LockedInductive ==
  ASSUME Locked, [Next]_vars
  PROVE  Locked'
<1>1. ASSUME NEW r \in Requests, NEW a \in Asks, Arrive(r, a)
      PROVE  Locked'
  <2>1. CASE a.door # "editor"
    BY <1>1, <2>1, Queues DEF Arrive, Locked, Inner
  <2>2. CASE a.door = "editor"
    BY <1>1, <2>2 DEF Arrive, Locked, OneInside, Inner, Places
  <2> QED
    BY <2>1, <2>2
<1>2. ASSUME NEW r \in Requests, Check(r)
      PROVE  Locked'
  <2>1. CASE pc' = [pc EXCEPT ![r] = "queued"] /\ lock' = Append(lock, r) /\ UNCHANGED ask
    BY <1>2, <2>1, Queues DEF Check, Locked, Inner
  <2>2. CASE Finish(r) /\ lock' = lock
    BY <2>2 DEF Finish, Locked, OneInside, Inner, Places
  <2> QED
    BY <1>2, <2>1, <2>2 DEF Check
<1>3. ASSUME NEW r \in Requests, Land(r)
      PROVE  Locked'
  BY <1>3, HolderMoves DEF Land, Locked, Places
<1>4. ASSUME NEW r \in Requests, Owe(r) \/ Settle(r) \/ Record(r) \/ RecordFails(r)
      PROVE  Locked'
  <2>1. Holds(r)
    BY <1>4, InnerHolds DEF Owe, Settle, Record, RecordFails, Inner, Locked
  <2> QED
    BY <1>4, <2>1, HolderMoves DEF Owe, Settle, Record, RecordFails, Places, Locked
<1>5. ASSUME NEW r \in Requests, Compute(r)
      PROVE  Locked'
  BY <1>5, AtPassHolds, HolderMoves DEF Compute, Places, Locked
<1>6. ASSUME NEW r \in Requests, Reply(r)
      PROVE  Locked'
  <2>1. Holds(r)
    BY <1>6, InnerHolds DEF Reply, Inner, Locked
  <2> QED
    BY <1>6, <2>1, HolderLeaves DEF Reply
<1>7. ASSUME NEW r \in Requests, RemoveTenant(r)
      PROVE  Locked'
  BY <1>7, HolderLeaves DEF RemoveTenant
<1>8. ASSUME NEW r \in Requests, Raise(r) \/ PassRaises(r) \/ RemovalRaises(r)
      PROVE  Locked'
  <2>1. Holds(r)
    BY <1>8, AtPassHolds DEF Raise, PassRaises, DiesInPass, RemovalRaises, Locked
  <2>2. Finish(r) /\ lock' = Tail(lock)
    BY <1>8 DEF Raise, PassRaises, DiesInPass, RemovalRaises, Raises, Released
  <2> QED
    BY <2>1, <2>2, HolderLeaves
<1>9. CASE Crash
  BY <1>9 DEF Crash, Locked, OneInside, Inner, Places
<1>10. CASE Teach \/ UNCHANGED vars
  BY <1>10 DEF Teach, vars, handlers, Locked, OneInside
<1> QED
  BY <1>1, <1>2, <1>3, <1>4, <1>5, <1>6, <1>7, <1>8, <1>9, <1>10 DEF Next, Proceed

-----------------------------------------------------------------------------
(* What is not filed is owed, orphaned, or about to be filed.              *)

Behind(k) == ~owing /\ filed[k] # BodyHeld(k)

Covered == \A k \in Keys \ orphans : Behind(k) => \E r \in Requests : k \in Landing(r)

\* A full pass that has yet to settle its debt has filed everything.
Paid == \A r \in Requests : pc[r] = "computed" => \A k \in Keys : filed[k] = BodyHeld(k)

\* A pass past its settling has left no debt.
Settled == \A r \in Requests : pc[r] \in {"ran", "recorded"} /\ ~ask[r].defer => ~owing

Handlers == DOMAIN moved = Requests /\ DOMAIN fact = Keys /\ DOMAIN filed = Keys
IInv == Locked /\ Handlers /\ Covered /\ Paid /\ Settled

LEMMA HandlersInductive ==
  ASSUME Handlers, [Next]_vars
  PROVE  Handlers'
BY ZenonT(40)
DEF Handlers, Next, vars, tenant, handlers, history, Proceed, Arrive, Check, Land, Owe, Compute, Settle,
    Record, Reply, RemoveTenant, Raise, PassRaises, DiesInPass, RemovalRaises, RecordFails, Crash, Teach,
    Finish, Landed, Refiled, Erased, Raises

\* A step that leaves the records, their filing and the debt alone, and no
\* request that had landed, uncovers nothing.
LEMMA CoveredKept ==
  ASSUME Covered, UNCHANGED <<fact, filed, owing>>, orphans \subseteq orphans',
         \A s \in Requests : Landing(s) \subseteq Landing(s)' \union orphans'
  PROVE  Covered'
BY DEF Covered, Behind, BodyHeld

\* A request that is not inside, or that did not move, keeps what it landed.
LEMMA LandingKept ==
  ASSUME Locked, Handlers, NEW r \in Requests, NEW place, UNCHANGED filed,
         pc' = [pc EXCEPT ![r] = place],
         \A s \in Requests \ {r} : ask'[s] = ask[s] /\ moved'[s] = moved[s]
  PROVE  \A s \in Requests \ {r} : Landing(s)' = Landing(s)
BY DEF Landing, Locked

\* Where a holder does not touch the records, only it can stop covering.
LEMMA HolderCovers ==
  ASSUME Locked, Handlers, Covered, NEW r \in Requests, NEW place,
         UNCHANGED <<fact, filed, owing>>,
         pc' = [pc EXCEPT ![r] = place],
         \A s \in Requests \ {r} : ask'[s] = ask[s] /\ moved'[s] = moved[s],
         orphans \union Landing(r) \subseteq orphans'
  PROVE  Covered'
BY LandingKept, CoveredKept

\* No other request has landed anything while one holds the lock.
LEMMA OthersLandNothing ==
  ASSUME OneInside, NEW r \in Requests, Holds(r)
  PROVE  \A s \in Requests \ {r} : Landing(s) = {}
BY Alone DEF Landing, Inner

LEMMA CoveredInductive ==
  ASSUME IInv, [Next]_vars
  PROVE  Covered'
<1> USE DEF IInv
<1>1. ASSUME NEW r \in Requests, NEW a \in Asks, Arrive(r, a)
      PROVE  Covered'
  <2>1. \E place : pc' = [pc EXCEPT ![r] = place]
    BY <1>1 DEF Arrive
  <2>2. Landing(r) = {}
    BY <1>1 DEF Arrive, Landing
  <2> QED
    BY <1>1, <2>1, <2>2, HolderCovers DEF Arrive, tenant, Handlers, Locked
<1>2. ASSUME NEW r \in Requests, Check(r)
      PROVE  Covered'
  <2>1. \E place : pc' = [pc EXCEPT ![r] = place]
    BY <1>2 DEF Check, Finish
  <2>2. Landing(r) = {}
    BY <1>2 DEF Check, Landing
  <2>3. \A s \in Requests \ {r} : ask'[s] = ask[s] /\ moved'[s] = moved[s]
    BY <1>2 DEF Check, Finish, Handlers, Locked
  <2> QED
    BY <1>2, <2>1, <2>2, <2>3, HolderCovers DEF Check, tenant, history
<1>3. ASSUME NEW r \in Requests, Land(r)
      PROVE  Covered'
  <2> DEFINE b == ask[r].batch
  <2>1. Landing(r) = {} /\ ask[r].door = "facts"
    BY <1>3 DEF Land, Landing
  <2>2. \A s \in Requests \ {r} : Landing(s)' = Landing(s)
    BY <1>3, LandingKept DEF Land, Handlers, Locked
  <2>3. Landing(r)' = {k \in DOMAIN b.writes : Landed(b)[k] # Kept(b)[k]} \union {k \in b.deletes : filed[k] # None}
    BY <1>3, <2>1 DEF Land, Landing, Handlers, Locked
  <2>4. ASSUME NEW k \in Keys, Behind(k)', k \notin Landing(r)'
        PROVE  Behind(k)
    <3>1. fact' = Landed(b) /\ UNCHANGED <<filed, owing>>
      BY <1>3 DEF Land
    <3>2. CASE k \in DOMAIN b.writes
      <4>1. Landed(b)[k] = Kept(b)[k]
        BY <2>3, <2>4, <3>2
      <4>2. k \notin b.deletes \/ filed[k] = None
        BY <2>3, <2>4
      <4>3. CASE k \notin b.deletes
        BY <2>4, <3>1, <4>1, <4>3 DEF Behind, BodyHeld, Kept
      <4>4. CASE k \in b.deletes
        BY <2>4, <3>1, <4>1, <4>2, <4>4 DEF Behind, BodyHeld, Kept
      <4> QED
        BY <4>3, <4>4
    <3>3. CASE k \notin DOMAIN b.writes
      BY <2>3, <2>4, <3>1, <3>3 DEF Behind, BodyHeld, Landed, Kept
    <3> QED
      BY <3>2, <3>3
  <2> QED
    BY <1>3, <2>1, <2>2, <2>4 DEF Land, Covered
<1>4. ASSUME NEW r \in Requests, Owe(r)
      PROVE  Covered'
  BY <1>4 DEF Owe, Covered, Behind
<1>5. ASSUME NEW r \in Requests, Compute(r)
      PROVE  Covered'
  <2>1. \A s \in Requests \ {r} : Landing(s) = {}
    BY <1>5, AtPassHolds, OthersLandNothing DEF Compute, Locked
  <2>2. ASSUME NEW k \in Keys \ orphans', Behind(k)'
        PROVE  k \notin Files(r) /\ Behind(k)
    BY <1>5, <2>2 DEF Compute, Refiled, Behind, BodyHeld
  <2>3. ASSUME NEW k \in Keys \ orphans', Behind(k)'
        PROVE  k \notin orphans /\ k \notin Landing(r)
    BY <1>5, <2>2, <2>3 DEF Compute
  <2> QED
    BY <2>1, <2>2, <2>3 DEF Covered
<1>6. ASSUME NEW r \in Requests, Settle(r)
      PROVE  Covered'
  BY <1>6 DEF Settle, Paid, Covered, Behind, BodyHeld
<1>7. ASSUME NEW r \in Requests, Record(r) \/ Reply(r) \/ RecordFails(r)
      PROVE  Covered'
  <2>1. \E place : pc' = [pc EXCEPT ![r] = place]
    BY <1>7 DEF Record, Reply, RecordFails, Finish
  <2>2. Landing(r) = {}
    BY <1>7 DEF Record, Reply, RecordFails, Landing
  <2>3. \A s \in Requests \ {r} : ask'[s] = ask[s] /\ moved'[s] = moved[s]
    BY <1>7 DEF Record, Reply, RecordFails, Finish, Handlers, Locked
  <2>4. UNCHANGED <<fact, filed, owing, orphans>>
    BY <1>7 DEF Record, Reply, RecordFails, tenant, history
  <2> QED
    BY <2>1, <2>2, <2>3, <2>4, HolderCovers
<1>8. ASSUME NEW r \in Requests, RemoveTenant(r)
      PROVE  Covered'
  <2>1. "fact" \in {Tables[i] : i \in 1..Len(Tables)} /\ "index" \in {Tables[i] : i \in 1..Len(Tables)}
    <3>1. Tables[1] = "fact" /\ Tables[3] = "index" /\ Len(Tables) = 6
      BY DEF Tables
    <3> QED
      BY <3>1
  <2>2. \A k \in Keys : BodyHeld(k)' = None /\ filed'[k] = None
    BY <1>8, <2>1 DEF RemoveTenant, Erased, BodyHeld
  <2> QED
    BY <2>2 DEF Covered, Behind
<1>9. ASSUME NEW r \in Requests, Raise(r)
      PROVE  Covered'
  <2>1. pc' = [pc EXCEPT ![r] = "free"]
    BY <1>9 DEF Raise, Raises, Finish
  <2>2. \A s \in Requests \ {r} : ask'[s] = ask[s] /\ moved'[s] = moved[s]
    BY <1>9 DEF Raise, Raises, Finish, Handlers, Locked
  <2>3. UNCHANGED <<fact, filed, owing>> /\ orphans \union Landing(r) \subseteq orphans'
    BY <1>9 DEF Raise, tenant
  <2> QED
    BY <2>1, <2>2, <2>3, HolderCovers
<1>10. ASSUME NEW r \in Requests, PassRaises(r)
       PROVE  Covered'
  <2>1. \A s \in Requests \ {r} : Landing(s) = {}
    BY <1>10, AtPassHolds, OthersLandNothing DEF PassRaises, DiesInPass, Locked
  <2>2. ASSUME NEW k \in Keys, Behind(k)'
        PROVE  Behind(k)
    BY <1>10, <2>2 DEF PassRaises, DiesInPass, Refiled, Behind, BodyHeld
  <2> QED
    BY <1>10, <2>1, <2>2 DEF PassRaises, DiesInPass, Covered
<1>11. ASSUME NEW r \in Requests, RemovalRaises(r)
       PROVE  Covered'
  BY <1>11 DEF RemovalRaises, Covered
<1>12. CASE Crash
  <2>1. \A s \in Requests : Landing(s) \subseteq orphans'
    BY <1>12 DEF Crash
  <2> QED
    BY <1>12, <2>1, CoveredKept DEF Crash, tenant
<1>13. CASE Teach \/ UNCHANGED vars
  <2>1. \A s \in Requests : Landing(s)' = Landing(s)
    BY <1>13 DEF Teach, vars, tenant, handlers, Landing
  <2>2. UNCHANGED <<fact, filed, owing, orphans>>
    BY <1>13 DEF Teach, vars, tenant, history
  <2> QED
    BY <2>1, <2>2, CoveredKept
<1> QED
  BY <1>1, <1>2, <1>3, <1>4, <1>5, <1>6, <1>7, <1>8, <1>9, <1>10, <1>11, <1>12, <1>13 DEF Next, Proceed

\* While one request holds the lock, no other is past its pass.
LEMMA OthersNotInner ==
  ASSUME Locked, NEW r \in Requests, Holds(r), NEW place, pc' = [pc EXCEPT ![r] = place]
  PROVE  \A s \in Requests \ {r} : pc'[s] \notin Inner
BY Alone DEF Locked

LEMMA PaidInductive ==
  ASSUME IInv, [Next]_vars
  PROVE  Paid'
<1> USE DEF IInv
<1>1. ASSUME NEW r \in Requests, Land(r) \/ RemoveTenant(r) \/ PassRaises(r) \/ RemovalRaises(r)
      PROVE  Paid'
  <2>1. Holds(r)
    BY <1>1, AtPassHolds DEF Land, RemoveTenant, PassRaises, DiesInPass, RemovalRaises, Locked
  <2>2. pc' = [pc EXCEPT ![r] = "free"] \/ pc' = [pc EXCEPT ![r] = "landed"]
    BY <1>1 DEF Land, RemoveTenant, PassRaises, DiesInPass, RemovalRaises, Raises, Finish
  <2>3. \A s \in Requests : pc'[s] # "computed"
    BY <2>1, <2>2, OthersNotInner DEF Locked, Inner
  <2> QED
    BY <2>3 DEF Paid
<1>2. ASSUME NEW r \in Requests, Compute(r)
      PROVE  Paid'
  <2>1. \A s \in Requests \ {r} : pc'[s] # "computed"
    BY <1>2, AtPassHolds, OthersNotInner DEF Compute, Locked, Inner
  <2>2. CASE Full(r)
    BY <1>2, <2>1, <2>2 DEF Compute, Files, Rebuilds, Refiled, BodyHeld, Paid
  <2>3. CASE ~Full(r)
    BY <1>2, <2>1, <2>3 DEF Compute, Paid, Locked
  <2> QED
    BY <2>2, <2>3
<1>3. CASE UNCHANGED <<fact, filed>> /\ \A s \in Requests : pc'[s] = "computed" => pc[s] = "computed"
  BY <1>3 DEF Paid, BodyHeld
<1>4. ASSUME NEW r \in Requests,
             Check(r) \/ Owe(r) \/ Settle(r) \/ Record(r) \/ Reply(r) \/ Raise(r) \/ RecordFails(r)
      PROVE  Paid'
  BY <1>3, <1>4 DEF Check, Owe, Settle, Record, Reply, Raise, Raises, RecordFails, Finish, tenant, Locked
<1>5. ASSUME NEW r \in Requests, NEW a \in Asks, Arrive(r, a)
      PROVE  Paid'
  BY <1>3, <1>5 DEF Arrive, tenant, Locked
<1>6. CASE Crash \/ Teach \/ UNCHANGED vars
  BY <1>3, <1>6 DEF Crash, Teach, vars, tenant, handlers
<1> QED
  BY <1>1, <1>2, <1>4, <1>5, <1>6 DEF Next, Proceed

LEMMA SettledInductive ==
  ASSUME IInv, [Next]_vars
  PROVE  Settled'
<1> USE DEF IInv
<1>1. ASSUME NEW r \in Requests, Holds(r), NEW place, pc' = [pc EXCEPT ![r] = place],
             place \in {"ran", "recorded"} => ask'[r].defer \/ ~owing'
      PROVE  Settled'
  BY <1>1, OthersNotInner DEF Settled, Locked, Inner
<1>2. ASSUME NEW r \in Requests, Owe(r) \/ Settle(r) \/ Record(r) \/ RecordFails(r) \/ Reply(r)
      PROVE  Settled'
  <2>1. Holds(r)
    BY <1>2, InnerHolds DEF Owe, Settle, Record, RecordFails, Reply, Inner, Locked
  <2>2. CASE Owe(r)
    BY <1>1, <2>1, <2>2 DEF Owe
  <2>3. CASE Settle(r)
    BY <1>1, <2>1, <2>3 DEF Settle
  <2>4. CASE Record(r) \/ RecordFails(r)
    BY <1>1, <2>1, <2>4 DEF Record, RecordFails, Settled
  <2>5. CASE Reply(r)
    BY <1>1, <2>1, <2>5 DEF Reply, Finish
  <2> QED
    BY <1>2, <2>2, <2>3, <2>4, <2>5
<1>3. ASSUME NEW r \in Requests, Compute(r)
      PROVE  Settled'
  <2>1. Holds(r)
    BY <1>3, AtPassHolds DEF Compute, Locked
  <2>2. CASE Full(r)
    BY <1>1, <1>3, <2>1, <2>2 DEF Compute
  <2>3. CASE ~Full(r)
    BY <1>1, <1>3, <2>1, <2>3 DEF Compute, Full
  <2> QED
    BY <2>2, <2>3
<1>4. ASSUME NEW r \in Requests,
             Land(r) \/ RemoveTenant(r) \/ Raise(r) \/ PassRaises(r) \/ RemovalRaises(r)
      PROVE  Settled'
  <2>1. Holds(r)
    BY <1>4, AtPassHolds DEF Land, RemoveTenant, Raise, PassRaises, DiesInPass, RemovalRaises, Locked
  <2>2. pc' = [pc EXCEPT ![r] = "free"] \/ pc' = [pc EXCEPT ![r] = "landed"]
    BY <1>4 DEF Land, RemoveTenant, Raise, PassRaises, DiesInPass, RemovalRaises, Raises, Finish
  <2> QED
    BY <1>1, <2>1, <2>2
<1>5. ASSUME NEW r \in Requests, NEW a \in Asks, Arrive(r, a)
      PROVE  Settled'
  BY <1>5 DEF Arrive, tenant, Settled, Locked
<1>6. ASSUME NEW r \in Requests, Check(r)
      PROVE  Settled'
  BY <1>6 DEF Check, Finish, tenant, Settled, Locked
<1>7. CASE Crash \/ Teach \/ UNCHANGED vars
  BY <1>7 DEF Crash, Teach, vars, tenant, handlers, Settled
<1> QED
  BY <1>2, <1>3, <1>4, <1>5, <1>6, <1>7 DEF Next, Proceed

-----------------------------------------------------------------------------
(* Deploys go through the lock in the order they were captured.            *)

Known(r) ==
  /\ ask[r].door \in {"facts", "run", "editor", "removal"}
  /\ ask[r].batch \in Batches
  /\ ask[r].deploy \in 1..deploy

\* A request that has come asks what a client may ask, for a library deployed.
Wanted ==
  /\ deploy \in Deploys
  /\ \A r \in Requests : pc[r] # "free" => Known(r)
  /\ \A r \in Requests : pc[r] = "checking" => ask[r].door = "editor"

\* A request waits once, and only while it waits or is inside.
InLine ==
  /\ \A i \in 1..Len(lock) : pc[lock[i]] \in Inner \union {"queued"}
  /\ \A i, j \in 1..Len(lock) : i # j => lock[i] # lock[j]

\* But for the editor's, a request waits behind no later library than its own.
InOrder ==
  \A i, j \in 1..Len(lock) :
    i < j /\ ask[lock[j]].door # "editor" => ask[lock[i]].deploy <= ask[lock[j]].deploy

\* No one in line is older than the library whose pass moved the pointers last.
PointedBehind ==
  pointedFor # 0 =>
    /\ pointedFor \in 1..deploy
    /\ \A i \in 1..Len(lock) : ask[lock[i]].door # "editor" => pointedFor <= ask[lock[i]].deploy

Ordered == Wanted /\ InLine /\ InOrder /\ PointedBehind

\* The holder moves on inside; nothing in line changes place.
LEMMA LineKept ==
  ASSUME Locked, Ordered, NEW r \in Requests, pc[r] \in Inner \union {"queued"},
         NEW place \in Inner, pc' = [pc EXCEPT ![r] = place], UNCHANGED <<lock, ask, deploy>>
  PROVE  Wanted' /\ InLine' /\ InOrder'
<1>1. Wanted'
  BY DEF Ordered, Wanted, Known, Locked, Inner
<1>2. InLine'
  BY DEF Ordered, InLine, Locked, Inner
<1>3. InOrder'
  BY DEF Ordered, InOrder
<1> QED
  BY <1>1, <1>2, <1>3

\* The holder leaves: everyone moves up one place.
LEMMA LineMovesUp ==
  ASSUME Locked, Ordered, NEW r \in Requests, Holds(r), Finish(r), lock' = Tail(lock),
         deploy' = deploy
  PROVE  /\ Wanted' /\ InLine' /\ InOrder'
         /\ \A i \in 1..Len(lock') : i + 1 \in 1..Len(lock) /\ lock'[i] = lock[i + 1]
                                     /\ ask'[lock'[i]] = ask[lock[i + 1]]
<1>1. /\ lock # <<>> /\ r = lock[1] /\ Len(lock') = Len(lock) - 1 /\ Len(lock) \in Nat
      /\ \A i \in 1..Len(lock') : i + 1 \in 1..Len(lock) /\ lock'[i] = lock[i + 1]
  BY HeadTailProperties DEF Locked, Holds
<1>2. \A i \in 1..Len(lock') : lock'[i] \in Requests /\ lock'[i] # r
  BY <1>1 DEF Locked, Ordered, InLine
<1>3. \A i \in 1..Len(lock') : ask'[lock'[i]] = ask[lock[i + 1]] /\ pc'[lock'[i]] = pc[lock[i + 1]]
  BY <1>1, <1>2 DEF Finish, Locked
<1>4. Wanted'
  BY DEF Finish, Locked, Ordered, Wanted, Known
<1>5. InLine'
  <2>1. ASSUME NEW i \in 1..Len(lock')
        PROVE  pc'[lock'[i]] \in Inner \union {"queued"}
    BY <1>1, <1>3 DEF Ordered, InLine
  <2>2. ASSUME NEW i \in 1..Len(lock'), NEW j \in 1..Len(lock'), i # j
        PROVE  lock'[i] # lock'[j]
    <3>1. i + 1 \in 1..Len(lock) /\ j + 1 \in 1..Len(lock) /\ i + 1 # j + 1
      BY <1>1, <2>2
    <3> QED
      BY <1>1, <3>1 DEF Ordered, InLine
  <2> QED
    BY <2>1, <2>2 DEF InLine
<1>6. InOrder'
  BY <1>1, <1>3 DEF Ordered, InOrder
<1> QED
  BY <1>1, <1>3, <1>4, <1>5, <1>6

\* A request joins the line behind everyone in it.
LEMMA LineGrows ==
  ASSUME Locked, Ordered, NEW r \in Requests, pc[r] \notin Inner \union {"queued"},
         pc' = [pc EXCEPT ![r] = "queued"], lock' = Append(lock, r), deploy' = deploy,
         DOMAIN ask' = Requests, \A s \in Requests \ {r} : ask'[s] = ask[s],
         Known(r)', ask'[r].door # "editor" => ask'[r].deploy = deploy
  PROVE  Wanted' /\ InLine' /\ InOrder' /\ (UNCHANGED pointedFor => PointedBehind')
<1>1. /\ Len(lock) \in Nat /\ Len(lock') = Len(lock) + 1 /\ lock'[Len(lock) + 1] = r
      /\ \A i \in 1..Len(lock) : lock'[i] = lock[i] /\ lock[i] \in Requests
  BY DEF Locked
<1>2. \A i \in 1..Len(lock) : lock[i] # r
  BY DEF Ordered, InLine
<1>3. \A i \in 1..Len(lock) : ask'[lock'[i]] = ask[lock[i]] /\ pc'[lock'[i]] = pc[lock[i]]
  BY <1>1, <1>2 DEF Locked
<1>4. Wanted'
  BY DEF Locked, Ordered, Wanted, Known
<1>5. InLine'
  BY <1>1, <1>2, <1>3 DEF Locked, Ordered, InLine
<1>6. \A i \in 1..Len(lock) : ask[lock[i]].deploy \in 1..deploy
  BY <1>1 DEF Ordered, Wanted, InLine, Known, Inner
<1>7. deploy \in Nat
  BY DoorAssumption DEF Ordered, Wanted, Deploys
<1>8. InOrder'
  <2>1. SUFFICES ASSUME NEW i \in 1..Len(lock'), NEW j \in 1..Len(lock'), i < j,
                        ask'[lock'[j]].door # "editor"
                 PROVE  ask'[lock'[i]].deploy <= ask'[lock'[j]].deploy
    BY DEF InOrder
  <2>2. i \in 1..Len(lock)
    BY <1>1, <2>1
  <2>3. CASE j \in 1..Len(lock)
    BY <1>3, <2>1, <2>2, <2>3 DEF Ordered, InOrder
  <2>4. CASE j = Len(lock) + 1
    <3>1. ask'[lock'[j]].deploy = deploy /\ ask'[lock'[i]].deploy \in 1..deploy
      BY <1>1, <1>3, <1>6, <2>1, <2>2, <2>4
    <3> QED
      BY <1>7, <3>1
  <2>5. j \in 1..Len(lock) \/ j = Len(lock) + 1
    BY <1>1, <2>1
  <2> QED
    BY <2>3, <2>4, <2>5
<1>9. ASSUME UNCHANGED pointedFor
      PROVE  PointedBehind'
  BY <1>1, <1>3, <1>7, <1>9 DEF Ordered, PointedBehind
<1> QED
  BY <1>4, <1>5, <1>8, <1>9

\* Whoever is inside, or waits, is known.
LEMMA HolderKnown ==
  ASSUME Locked, Ordered, NEW r \in Requests, Holds(r)
  PROVE  Known(r) /\ pc[r] \in Inner \union {"queued"} /\ r = lock[1] /\ 1 \in 1..Len(lock)
<1>1. lock # <<>> /\ r = lock[1] /\ Len(lock) \in Nat \ {0}
  BY DEF Locked, Holds
<1> QED
  BY <1>1 DEF Ordered, InLine, Wanted, Inner

LEMMA OrderedInductive ==
  ASSUME Locked, Ordered, [Next]_vars
  PROVE  Ordered'
<1>1. ASSUME NEW r \in Requests, NEW a \in Asks, Arrive(r, a)
      PROVE  Ordered'
  <2>1. /\ pc[r] = "free" /\ DOMAIN ask' = Requests /\ \A s \in Requests \ {r} : ask'[s] = ask[s]
        /\ ask'[r].deploy = deploy /\ ask'[r].door = a.door /\ UNCHANGED <<pointedFor, deploy>>
        /\ ask'[r].batch = a.batch
    BY <1>1 DEF Arrive, Locked, tenant
  <2>2. Known(r)'
    BY <2>1, DoorAssumption DEF Known, Batches, Ordered, Wanted, Deploys
  <2>3. CASE a.door # "editor"
    BY <1>1, <2>1, <2>2, <2>3, LineGrows DEF Arrive, Ordered, Inner
  <2>4. CASE a.door = "editor"
    <3>1. pc' = [pc EXCEPT ![r] = "checking"] /\ lock' = lock
      BY <1>1, <2>4 DEF Arrive
    <3>2. \A i \in 1..Len(lock) : lock[i] \in Requests /\ lock[i] # r
      BY <2>1 DEF Locked, Ordered, InLine, Inner
    <3>3. Wanted'
      BY <2>1, <2>2, <2>4, <3>1 DEF Ordered, Wanted, Known, Locked
    <3>4. InLine' /\ InOrder' /\ PointedBehind'
      BY <2>1, <3>1, <3>2 DEF Ordered, InLine, InOrder, PointedBehind, Locked
    <3> QED
      BY <3>3, <3>4 DEF Ordered
  <2> QED
    BY <2>3, <2>4
<1>2. ASSUME NEW r \in Requests, Check(r)
      PROVE  Ordered'
  <2>1. pc[r] = "checking" /\ UNCHANGED <<pointedFor, deploy>> /\ Known(r) /\ ask[r].door = "editor"
    BY <1>2 DEF Check, history, Ordered, Wanted
  <2>2. CASE pc' = [pc EXCEPT ![r] = "queued"] /\ lock' = Append(lock, r) /\ UNCHANGED ask
    BY <2>1, <2>2, LineGrows DEF Ordered, Inner, Known, Locked
  <2>3. CASE Finish(r) /\ lock' = lock
    <3>1. \A i \in 1..Len(lock) : lock[i] \in Requests /\ lock[i] # r
      BY <2>1 DEF Locked, Ordered, InLine, Inner
    <3>2. Wanted'
      BY <2>1, <2>3 DEF Finish, Ordered, Wanted, Known, Locked
    <3>3. InLine' /\ InOrder' /\ PointedBehind'
      BY <2>1, <2>3, <3>1 DEF Finish, Ordered, InLine, InOrder, PointedBehind, Locked
    <3> QED
      BY <3>2, <3>3 DEF Ordered
  <2> QED
    BY <1>2, <2>2, <2>3 DEF Check
<1>3. ASSUME NEW r \in Requests,
             Land(r) \/ Owe(r) \/ Settle(r) \/ Record(r) \/ RecordFails(r)
      PROVE  Ordered'
  <2>1. Holds(r)
    BY <1>3, InnerHolds DEF Land, Owe, Settle, Record, RecordFails, Inner, Locked
  <2>2. pc[r] \in Inner \union {"queued"} /\ UNCHANGED <<lock, ask, deploy, pointedFor>>
    BY <1>3 DEF Land, Owe, Settle, Record, RecordFails, Inner, history
  <2>3. \E place \in Inner : pc' = [pc EXCEPT ![r] = place]
    BY <1>3 DEF Land, Owe, Settle, Record, RecordFails, Inner
  <2>4. Wanted' /\ InLine' /\ InOrder'
    BY <2>2, <2>3, LineKept
  <2>5. PointedBehind'
    BY <2>2 DEF Ordered, PointedBehind
  <2> QED
    BY <2>4, <2>5 DEF Ordered
<1>4. ASSUME NEW r \in Requests, Compute(r)
      PROVE  Ordered'
  <2>1. Holds(r) /\ UNCHANGED <<lock, ask, deploy>> /\ pointedFor' = ask[r].deploy
    BY <1>4, AtPassHolds DEF Compute, Locked
  <2>2. \E place \in Inner : pc' = [pc EXCEPT ![r] = place]
    BY <1>4 DEF Compute, Inner
  <2>3. Known(r) /\ r = lock[1] /\ pc[r] \in Inner \union {"queued"}
    BY <2>1, HolderKnown
  <2>4. Wanted' /\ InLine' /\ InOrder'
    BY <2>1, <2>2, <2>3, LineKept
  <2>5. PointedBehind'
    <3>1. ask[r].deploy \in 1..deploy /\ deploy \in Nat
      BY <2>3, DoorAssumption DEF Known, Ordered, Wanted, Deploys
    <3>2. \A i \in 1..Len(lock) : ask[lock[i]].door # "editor" => ask[r].deploy <= ask[lock[i]].deploy
      BY <2>3, <3>1 DEF Ordered, InOrder, Locked
    <3> QED
      BY <2>1, <3>1, <3>2 DEF PointedBehind
  <2> QED
    BY <2>4, <2>5 DEF Ordered
<1>5. ASSUME NEW r \in Requests,
             Reply(r) \/ RemoveTenant(r) \/ Raise(r) \/ PassRaises(r) \/ RemovalRaises(r)
      PROVE  Ordered'
  <2>1. Holds(r)
    BY <1>5, InnerHolds, AtPassHolds
    DEF Reply, RemoveTenant, Raise, PassRaises, DiesInPass, RemovalRaises, Inner, Locked
  <2>2. Finish(r) /\ lock' = Tail(lock) /\ deploy' = deploy
    BY <1>5 DEF Reply, RemoveTenant, Raise, PassRaises, DiesInPass, RemovalRaises, Raises, Released
  <2>3. pointedFor' = pointedFor \/ pointedFor' = 0
    BY <1>5 DEF Reply, RemoveTenant, Raise, PassRaises, DiesInPass, RemovalRaises, Erased, history
  <2>4. PointedBehind'
    BY <2>1, <2>2, <2>3, LineMovesUp DEF Ordered, PointedBehind
  <2> QED
    BY <2>1, <2>2, <2>4, LineMovesUp DEF Ordered
<1>6. CASE Crash
  <2>1. lock' = <<>> /\ Len(lock') = 0 /\ UNCHANGED <<deploy, pointedFor>> /\ \A r \in Requests : pc'[r] = "free"
    BY <1>6 DEF Crash, tenant
  <2> QED
    BY <2>1 DEF Ordered, Wanted, InLine, InOrder, PointedBehind
<1>7. CASE Teach
  <2>1. deploy' = deploy + 1 /\ deploy' \in Deploys /\ UNCHANGED <<lock, ask, pc, pointedFor>>
    BY <1>7 DEF Teach, handlers, history
  <2>2. deploy \in Nat
    BY DoorAssumption DEF Ordered, Wanted, Deploys
  <2>3. Wanted'
    BY <2>1, <2>2 DEF Ordered, Wanted, Known
  <2> QED
    BY <2>1, <2>2, <2>3 DEF Ordered, InLine, InOrder, PointedBehind
<1>8. CASE UNCHANGED vars
  BY <1>8 DEF vars, handlers, history, Ordered, Wanted, Known, InLine, InOrder, PointedBehind
<1> QED
  BY <1>1, <1>2, <1>3, <1>4, <1>5, <1>6, <1>7, <1>8 DEF Next, Proceed

\* Only a pass moves the pointers, and unless it came through the editor's door
\* only to the figures of a library captured since the pass before it.
LEMMA PassesDoNotFallBehind ==
  ASSUME Locked, Ordered, [Next]_vars, FallsBehind
  PROVE  ask[Head(lock)].door = "editor"
<1>1. PICK r \in Requests : Compute(r)
  BY DEF FallsBehind, Next, Proceed, vars, tenant, Arrive, Check, Land, Owe, Settle, Record, Reply,
         RemoveTenant, Raise, PassRaises, DiesInPass, RemovalRaises, RecordFails, Crash, Teach, Erased
<1>2. Holds(r) /\ pointed' = FiguresOf[ask[r].deploy]
  BY <1>1, AtPassHolds DEF Compute, Locked
<1>3. Known(r) /\ r = lock[1] /\ 1 \in 1..Len(lock)
  BY <1>2, HolderKnown
<1>4. SUFFICES ASSUME ask[r].door # "editor"
               PROVE  FALSE
  BY <1>2 DEF Holds
<1>5. pointedFor \in 1..deploy /\ pointedFor <= ask[r].deploy /\ ask[r].deploy \in 1..deploy
  BY <1>3, <1>4 DEF FallsBehind, AsDeployed, Ordered, PointedBehind, Known
<1>6. deploy \in Nat
  BY DoorAssumption DEF Ordered, Wanted, Deploys
<1>7. ask[r].deploy \in pointedFor..deploy
  BY <1>5, <1>6
<1>8. FiguresOf[ask[r].deploy] = pointed
  BY <1>7 DEF FallsBehind, AsDeployed
<1> QED
  BY <1>2, <1>8 DEF FallsBehind

-----------------------------------------------------------------------------
(* A record is held under the newest stamp, or one that means the same.    *)

\* A provider's record never goes back to a body it has left.
NoBodyReturns ==
  \A u, v, w \in Versions : u < v /\ v < w /\ BodyOf[u] = BodyOf[w] => BodyOf[v] = BodyOf[u]

HeldAt(held, n) ==
  /\ n \in Versions /\ held # None
  /\ held.stamp \in Versions /\ held.stamp <= n
  /\ held.body = BodyOf[held.stamp] /\ held.body = BodyOf[n]

\* Between a record and the newest version landed: neither, or that one held.
Abreast(held, n) == n # None => (n = 0 /\ held = None) \/ HeldAt(held, n)

Newest == DOMAIN newest = Keys /\ \A k \in Keys : Abreast(fact[k], newest[k])

\* A stamped write lands on a record that is abreast and leaves it abreast: an
\* older one is refused, or says what is held already.
LEMMA WriteKeepsAbreast ==
  ASSUME NoBodyReturns, NEW held, NEW n, n # None, Abreast(held, n), NEW w \in Versions
  PROVE  HeldAt(Upsert(held, BodyOf[w], w), IF w > n THEN w ELSE n)
<1>1. Versions \subseteq Nat \ {0} /\ None \notin Versions /\ \A v \in Versions : BodyOf[v] \in Bodies
  BY DoorAssumption DEF Versions, Bodies
<1>2. [body |-> BodyOf[w], stamp |-> w] # None
  BY <1>1, DoorAssumption
<1>3. CASE n = 0 /\ held = None
  BY <1>1, <1>2, <1>3 DEF Upsert, HeldAt
<1>4. CASE HeldAt(held, n)
  <2> DEFINE m == held.stamp
  <2>1. /\ n \in Versions /\ held # None /\ m \in Versions /\ m <= n
        /\ held.body = BodyOf[m] /\ held.body = BodyOf[n]
    BY <1>4 DEF HeldAt
  <2>2. n \in Nat /\ m \in Nat /\ w \in Nat /\ m # None /\ w # None
    BY <1>1, <2>1
  <2>3. CASE BodyOf[w] = held.body
    <3>1. Upsert(held, BodyOf[w], w) = held
      BY <2>1, <2>3 DEF Upsert
    <3>2. CASE w > n
      <4>1. HeldAt(held, w)
        BY <2>1, <2>2, <2>3, <3>2 DEF HeldAt
      <4> QED
        BY <3>1, <3>2, <4>1
    <3>3. CASE ~(w > n)
      BY <1>4, <3>1, <3>3
    <3> QED
      BY <3>2, <3>3
  <2>4. CASE BodyOf[w] # held.body /\ w < m
    <3>1. ~Admits(held, w)
      BY <2>2, <2>4 DEF Admits
    <3>2. Upsert(held, BodyOf[w], w) = held /\ ~(w > n)
      BY <2>1, <2>2, <2>4, <3>1 DEF Upsert
    <3> QED
      BY <1>4, <3>2
  <2>5. CASE BodyOf[w] # held.body /\ w > n
    <3>1. Admits(held, w)
      BY <2>1, <2>2, <2>5 DEF Admits
    <3> QED
      BY <1>2, <2>1, <2>2, <2>5, <3>1 DEF Upsert, HeldAt
  <2>6. CASE BodyOf[w] # held.body /\ m <= w /\ w <= n
    <3>1. w # m /\ w # n
      BY <2>1, <2>6
    <3>2. m < w /\ w < n
      BY <2>2, <2>6, <3>1
    <3> QED
      BY <2>1, <2>6, <3>2, ZenonT(40) DEF NoBodyReturns
  <2> QED
    BY <2>2, <2>3, <2>4, <2>5, <2>6
<1> QED
  BY <1>3, <1>4 DEF Abreast

LEMMA NewestInductive ==
  ASSUME NoBodyReturns, Locked, Handlers, Ordered, Newest, [Next]_vars
  PROVE  Newest'
<1>1. ASSUME NEW r \in Requests, Land(r)
      PROVE  Newest'
  <2> DEFINE b == ask[r].batch
  <2>1. b \in Batches
    BY <1>1 DEF Land, Ordered, Wanted, Known
  <2>2. fact' = Landed(b) /\ newest' = [k \in Keys |-> NewestAfter(b, k)]
    BY <1>1 DEF Land
  <2> HIDE DEF b
  <2>3. ASSUME NEW k \in Keys
        PROVE  Abreast(Landed(b)[k], NewestAfter(b, k))
    <3> DEFINE was == IF k \in b.deletes THEN 0 ELSE newest[k]
    <3>1. Abreast(Kept(b)[k], was)
      <4>1. CASE k \in b.deletes
        BY <4>1 DEF Kept, Abreast
      <4>2. CASE k \notin b.deletes
        BY <4>2 DEF Kept, Newest
      <4> QED
        BY <4>1, <4>2
    <3>2. CASE k \notin DOMAIN b.writes
      BY <3>1, <3>2 DEF Landed, NewestAfter
    <3>3. CASE k \in DOMAIN b.writes /\ (was = None \/ ~b.stamped)
      BY <3>3 DEF NewestAfter, Abreast
    <3>4. CASE k \in DOMAIN b.writes /\ was # None /\ b.stamped
      <4> DEFINE w == b.writes[k]
      <4>1. w \in Versions
        BY <2>1, <3>4, DoorAssumption
      <4>2. Landed(b)[k] = Upsert(Kept(b)[k], BodyOf[w], w)
        BY <3>4 DEF Landed
      <4>3. NewestAfter(b, k) = IF w > was THEN w ELSE was
        BY <3>4 DEF NewestAfter
      <4>4. HeldAt(Upsert(Kept(b)[k], BodyOf[w], w), IF w > was THEN w ELSE was)
        BY <3>1, <3>4, <4>1, WriteKeepsAbreast
      <4> QED
        BY <4>2, <4>3, <4>4 DEF Abreast
    <3> QED
      BY <3>2, <3>3, <3>4
  <2> QED
    BY <2>2, <2>3 DEF Newest
<1>2. ASSUME NEW r \in Requests, RemoveTenant(r) \/ RemovalRaises(r)
      PROVE  Newest'
  <2>1. PICK n \in 1..Len(Tables) : Erased(n)
    BY <1>2 DEF RemoveTenant, RemovalRaises, Tables
  <2>2. "fact" \in {Tables[i] : i \in 1..n}
    <3>1. Tables[1] = "fact" /\ 1 \in 1..n
      BY <2>1 DEF Tables
    <3> QED
      BY <3>1
  <2>3. fact' = [k \in Keys |-> None] /\ newest' = [k \in Keys |-> 0]
    BY <2>1, <2>2 DEF Erased
  <2> QED
    BY <2>3 DEF Newest, Abreast
<1>3. CASE UNCHANGED <<fact, newest>>
  BY <1>3 DEF Newest, Abreast, HeldAt
<1>4. ASSUME NEW r \in Requests,
             Check(r) \/ Owe(r) \/ Compute(r) \/ Settle(r) \/ Record(r) \/ Reply(r)
               \/ Raise(r) \/ PassRaises(r) \/ RecordFails(r)
      PROVE  UNCHANGED <<fact, newest>>
  BY <1>4 DEF Check, Owe, Compute, Settle, Record, Reply, Raise, PassRaises, DiesInPass, RecordFails,
              tenant, history
<1>5. ASSUME (\E r \in Requests, a \in Asks : Arrive(r, a)) \/ Crash \/ Teach \/ UNCHANGED vars
      PROVE  UNCHANGED <<fact, newest>>
  BY <1>5 DEF Arrive, Crash, Teach, vars, tenant, history
<1> QED
  BY <1>1, <1>2, <1>3, <1>4, <1>5 DEF Next, Proceed

-----------------------------------------------------------------------------
(* The log lies at the end of the passes that were not swallowed.          *)

AtEnd(s, t) ==
  /\ Len(s) <= Len(t)
  /\ \A i \in 1..Len(s) : s[i] = t[Len(t) - Len(s) + i]

RunEntries == [cause : {"facts-deferred", "facts", "run"}, deploy : Deploys]

Logs ==
  /\ log \in Seq(RunEntries) /\ runs \in Seq(RunEntries) /\ faults \in Nat
  /\ (\E r \in Requests : Unlogged(r)) => runs # <<>>
  /\ AtEnd(log, Logged)
  /\ Len(log) <= RunKeep + faults
  /\ Len(log) < RunKeep => log = Logged

\* What is at the end of a sequence stays there when both grow by the same.
LEMMA AtEndAppend ==
  ASSUME NEW S, NEW s \in Seq(S), NEW t \in Seq(S), NEW e \in S, AtEnd(s, t)
  PROVE  AtEnd(Append(s, e), Append(t, e))
<1> DEFINE a == Len(s)
           b == Len(t)
           x == Append(s, e)
           y == Append(t, e)
<1>1. a \in Nat /\ b \in Nat /\ a <= b /\ \A i \in 1..a : s[i] = t[b - a + i]
  BY DEF AtEnd
<1>2. Len(x) = a + 1 /\ Len(y) = b + 1
  OBVIOUS
<1>3. /\ \A i \in 1..a : x[i] = s[i]
      /\ \A i \in 1..b : y[i] = t[i]
      /\ x[a + 1] = e /\ y[b + 1] = e
  OBVIOUS
<1> HIDE DEF a, b, x, y
<1>4. ASSUME NEW i \in 1..(a + 1)
      PROVE  x[i] = y[(b + 1) - (a + 1) + i]
  <2>1. (b + 1) - (a + 1) + i = b - a + i
    BY <1>1
  <2>2. CASE i = a + 1
    <3>1. b - a + i = b + 1
      BY <1>1, <2>2
    <3> QED
      BY <1>3, <2>1, <2>2, <3>1
  <2>3. CASE i \in 1..a
    <3>1. b - a + i \in 1..b
      BY <1>1, <2>3
    <3> QED
      BY <1>1, <1>3, <2>1, <2>3, <3>1
  <2>4. i = a + 1 \/ i \in 1..a
    BY <1>1
  <2> QED
    BY <2>2, <2>3, <2>4
<1>5. AtEnd(x, y)
  BY <1>1, <1>2, <1>4 DEF AtEnd
<1> QED
  BY <1>5 DEF x, y

LEMMA AtEndItself ==
  ASSUME NEW S, NEW s \in Seq(S)
  PROVE  AtEnd(s, s) /\ AtEnd(<<>>, s)
BY DEF AtEnd

\* Pruning keeps the end, at most RunKeep of it, and everything when short.
LEMMA PrunedKeepsEnd ==
  ASSUME NEW S, NEW s \in Seq(S), NEW t \in Seq(S), AtEnd(s, t)
  PROVE  /\ Pruned(s) \in Seq(S) /\ AtEnd(Pruned(s), t)
         /\ Len(Pruned(s)) <= RunKeep
         /\ Len(Pruned(s)) < RunKeep => Pruned(s) = s
<1> DEFINE m == IF Len(s) > RunKeep THEN Len(s) - RunKeep + 1 ELSE 1
<1>1. RunKeep \in Nat \ {0} /\ Len(s) \in Nat /\ Len(t) \in Nat
  BY DoorAssumption
<1>2. m \in 1..(Len(s) + 1) /\ m <= Len(s) + 1
  BY <1>1
<1>3. /\ Pruned(s) \in Seq(S) /\ Len(Pruned(s)) = Len(s) - m + 1
      /\ \A i \in 1..(Len(s) - m + 1) : Pruned(s)[i] = s[m + i - 1]
  <2>1. \A i \in m..Len(s) : s[i] \in S
    BY <1>1, <1>2
  <2>2. Pruned(s) = SubSeq(s, m, Len(s))
    BY DEF Pruned
  <2> HIDE DEF m
  <2>3. m \in Int /\ Len(s) \in Int /\ m <= Len(s) + 1
    BY <1>1, <1>2
  <2>4. /\ SubSeq(s, m, Len(s)) \in Seq(S)
        /\ Len(SubSeq(s, m, Len(s))) = IF m <= Len(s) THEN Len(s) - m + 1 ELSE 0
        /\ \A i \in 1..(Len(s) - m + 1) : SubSeq(s, m, Len(s))[i] = s[m + i - 1]
    BY <2>1, <2>3, SubSeqProperties
  <2> QED
    BY <2>2, <2>3, <2>4
<1>4. AtEnd(Pruned(s), t)
  <2>1. ASSUME NEW i \in 1..(Len(s) - m + 1)
        PROVE  Pruned(s)[i] = t[Len(t) - (Len(s) - m + 1) + i]
    <3>1. m + i - 1 \in 1..Len(s)
      BY <1>1, <1>2
    <3>2. s[m + i - 1] = t[Len(t) - Len(s) + (m + i - 1)]
      BY <3>1 DEF AtEnd
    <3>3. Len(t) - Len(s) + (m + i - 1) = Len(t) - (Len(s) - m + 1) + i
      BY <1>1, <1>2
    <3> QED
      BY <1>3, <3>2, <3>3
  <2>2. Len(Pruned(s)) <= Len(t)
    BY <1>1, <1>2, <1>3 DEF AtEnd
  <2> QED
    BY <1>3, <2>1, <2>2 DEF AtEnd
<1>5. Len(Pruned(s)) <= RunKeep
  BY <1>1, <1>3
<1>6. ASSUME Len(Pruned(s)) < RunKeep
      PROVE  Pruned(s) = s
  <2>1. m = 1
    <3>1. CASE Len(s) > RunKeep
      BY <1>1, <1>3, <1>6, <3>1
    <3> QED
      BY <3>1
  <2> QED
    BY <2>1, SubSeqFull DEF Pruned
<1> QED
  BY <1>3, <1>4, <1>5, <1>6

\* It is what the library calls a suffix.
LEMMA AtEndIsSuffix ==
  ASSUME NEW S, NEW s \in Seq(S), NEW t \in Seq(S), AtEnd(s, t)
  PROVE  IsSuffix(s, t)
<1>1. /\ Len(s) \in Nat /\ Len(t) \in Nat /\ Len(s) <= Len(t)
      /\ Len(Reverse(s)) = Len(s) /\ Len(Reverse(t)) = Len(t)
      /\ Reverse(s) \in Seq(S) /\ Reverse(t) \in Seq(S)
  BY DEF Reverse, AtEnd
<1>2. ASSUME NEW i \in 1..Len(s)
      PROVE  Reverse(s)[i] = Reverse(t)[i]
  <2>1. Len(s) - i + 1 \in 1..Len(s) /\ i \in 1..Len(t)
    BY <1>1
  <2>2. s[Len(s) - i + 1] = t[Len(t) - Len(s) + (Len(s) - i + 1)]
    BY <2>1 DEF AtEnd
  <2>3. Len(t) - Len(s) + (Len(s) - i + 1) = Len(t) - i + 1
    BY <1>1, <2>1
  <2> QED
    BY <1>1, <2>1, <2>2, <2>3 DEF Reverse
<1>3. SubSeq(Reverse(s), 1, Len(s)) = SubSeq(Reverse(t), 1, Len(s))
  BY <1>1, <1>2
<1> QED
  BY <1>1, <1>3 DEF IsSuffix, IsPrefix

\* A sequence is its front and its last entry.
LEMMA FrontAndLast ==
  ASSUME NEW S, NEW s \in Seq(S)
  PROVE  /\ \A e \in S : Front(Append(s, e)) = s
         /\ s # <<>> => /\ Front(s) \in Seq(S) /\ Last(s) \in S
                        /\ Append(Front(s), Last(s)) = s
<1>1. ASSUME NEW e \in S
      PROVE  Front(Append(s, e)) = s
  BY DEF Front
<1>2. ASSUME s # <<>>
      PROVE  Front(s) \in Seq(S) /\ Last(s) \in S /\ Append(Front(s), Last(s)) = s
  <2>1. PICK f \in Seq(S), e \in S : s = Append(f, e)
    BY <1>2, SequenceEmptyOrAppend
  <2>2. Front(s) = f /\ Last(s) = e
    BY <2>1 DEF Front, Last
  <2> QED
    BY <2>1, <2>2
<1> QED
  BY <1>1, <1>2

AnyUnlogged == \E r \in Requests : Unlogged(r)

\* While a request that has yet to end a pass holds the lock, no pass is
\* unlogged; one that has ended its pass leaves the only one.
LEMMA UnloggedIsHolders ==
  ASSUME Locked, NEW r \in Requests, Holds(r)
  PROVE  AnyUnlogged <=> Unlogged(r)
BY Alone DEF AnyUnlogged, Unlogged, Locked, Inner

LEMMA UnloggedAfter ==
  ASSUME Locked, NEW r \in Requests, Holds(r), NEW place, pc' = [pc EXCEPT ![r] = place]
  PROVE  AnyUnlogged' <=> place \in {"computed", "ran"}
BY OthersNotInner DEF AnyUnlogged, Unlogged, Locked, Inner

\* A step that changes neither log nor passes, nor whether one is unlogged.
LEMMA LogsKept ==
  ASSUME Logs, UNCHANGED <<log, runs>>, faults' \in {faults, faults + 1},
         AnyUnlogged' <=> AnyUnlogged
  PROVE  Logs'
<1>1. Logged' = Logged
  BY DEF Logged, AnyUnlogged
<1>2. RunKeep \in Nat /\ faults \in Nat /\ Len(log) \in Nat /\ Len(log) <= RunKeep + faults
  BY DoorAssumption DEF Logs
<1>3. faults' \in Nat /\ Len(log') <= RunKeep + faults'
  BY <1>2
<1> QED
  BY <1>1, <1>3 DEF Logs, AnyUnlogged

\* A step after which every pass is logged, the unlogged one forgotten.
LEMMA LogsForget ==
  ASSUME Logs, log' = log, runs' = Logged, faults' = faults + 1, ~AnyUnlogged'
  PROVE  Logs'
<1>1. Logged' = Logged
  BY DEF Logged, AnyUnlogged
<1>2. Logged \in Seq(RunEntries)
  BY FrontAndLast DEF Logs, Logged
<1>3. RunKeep \in Nat /\ faults \in Nat /\ Len(log) \in Nat /\ Len(log) <= RunKeep + faults
  BY DoorAssumption DEF Logs
<1>4. faults' \in Nat /\ Len(log') <= RunKeep + faults'
  BY <1>3
<1> QED
  BY <1>1, <1>2, <1>4 DEF Logs, AnyUnlogged

\* A pass that ends is the last, and unlogged.
LEMMA LogsExtend ==
  ASSUME Logs, UNCHANGED <<log, faults>>, NEW e \in RunEntries, runs' = Append(runs, e),
         ~AnyUnlogged, AnyUnlogged'
  PROVE  Logs'
<1>1. Logged = runs /\ Logged' = Front(runs') /\ runs \in Seq(RunEntries)
  BY DEF Logged, AnyUnlogged, Logs
<1>2. Logged' = Logged
  BY <1>1, FrontAndLast
<1>3. runs' \in Seq(RunEntries) /\ runs' # <<>>
  BY <1>1, AppendProperties
<1> QED
  BY <1>2, <1>3 DEF Logs

\* The unlogged pass goes to the end of the log, pruned or not.
LEMMA LogsRecord ==
  ASSUME Logs, AnyUnlogged, ~AnyUnlogged', runs' = runs,
         \/ log' = Pruned(Append(log, Last(runs))) /\ faults' = faults
         \/ log' = Append(log, Last(runs)) /\ faults' = faults + 1
  PROVE  Logs'
<1> DEFINE grown == Append(log, Last(runs))
<1>1. /\ runs \in Seq(RunEntries) /\ runs # <<>> /\ log \in Seq(RunEntries) /\ faults \in Nat
      /\ Logged = Front(runs) /\ Logged' = runs /\ RunKeep \in Nat /\ Len(log) \in Nat
      /\ Len(log) <= RunKeep + faults
  BY DoorAssumption DEF Logs, Logged, AnyUnlogged
<1>2. Front(runs) \in Seq(RunEntries) /\ Last(runs) \in RunEntries /\ Append(Front(runs), Last(runs)) = runs
  BY <1>1, FrontAndLast
<1>3. grown \in Seq(RunEntries) /\ Len(grown) = Len(log) + 1
  BY <1>1, <1>2, AppendProperties
<1>4. AtEnd(grown, runs)
  BY <1>1, <1>2, AtEndAppend DEF Logs
<1>5. Len(log) < RunKeep => grown = runs
  BY <1>1, <1>2 DEF Logs
<1>6. CASE log' = Pruned(grown) /\ faults' = faults
  <2>1. /\ Pruned(grown) \in Seq(RunEntries) /\ AtEnd(Pruned(grown), runs)
        /\ Len(Pruned(grown)) <= RunKeep
        /\ Len(Pruned(grown)) < RunKeep => Pruned(grown) = grown
    BY <1>1, <1>3, <1>4, PrunedKeepsEnd
  <2>2. Len(Pruned(grown)) \in Nat
    BY <2>1
  <2>3. Len(log') <= RunKeep + faults'
    BY <1>1, <1>6, <2>1, <2>2
  <2>4. Len(log') < RunKeep => log' = runs
    BY <1>1, <1>3, <1>5, <1>6, <2>1
  <2> QED
    BY <1>1, <1>6, <2>1, <2>3, <2>4 DEF Logs, AnyUnlogged
<1>7. CASE log' = grown /\ faults' = faults + 1
  <2>1. faults' \in Nat /\ Len(log') <= RunKeep + faults' /\ (Len(log') < RunKeep => log' = runs)
    BY <1>1, <1>3, <1>5, <1>7
  <2> QED
    BY <1>1, <1>3, <1>4, <1>7, <2>1 DEF Logs, AnyUnlogged
<1> QED
  BY <1>6, <1>7

LEMMA LogsInductive ==
  ASSUME Locked, Ordered, Logs, [Next]_vars
  PROVE  Logs'
<1>1. ASSUME NEW r \in Requests, NEW a \in Asks, Arrive(r, a)
      PROVE  Logs'
  <2>1. AnyUnlogged' <=> AnyUnlogged
    BY <1>1 DEF Arrive, AnyUnlogged, Unlogged, Locked
  <2> QED
    BY <1>1, <2>1, LogsKept DEF Arrive, tenant
<1>2. ASSUME NEW r \in Requests, Check(r)
      PROVE  Logs'
  <2>1. AnyUnlogged' <=> AnyUnlogged
    BY <1>2 DEF Check, Finish, AnyUnlogged, Unlogged, Locked
  <2> QED
    BY <1>2, <2>1, LogsKept DEF Check, tenant, history
<1>3. ASSUME NEW r \in Requests, Land(r) \/ Settle(r) \/ Reply(r) \/ PassRaises(r)
      PROVE  Logs'
  <2>1. Holds(r)
    BY <1>3, InnerHolds, AtPassHolds
    DEF Land, Settle, Reply, PassRaises, DiesInPass, Inner, Locked
  <2>2. UNCHANGED <<log, runs>> /\ faults' \in {faults, faults + 1}
    BY <1>3 DEF Land, Settle, Reply, PassRaises, DiesInPass, Raises, tenant, history
  <2>3. \E place : pc' = [pc EXCEPT ![r] = place] /\ (Unlogged(r) <=> place \in {"computed", "ran"})
    BY <1>3 DEF Land, Settle, Reply, PassRaises, DiesInPass, Raises, Finish, AtPass, Unlogged
  <2> QED
    BY <2>1, <2>2, <2>3, UnloggedIsHolders, UnloggedAfter, LogsKept
<1>4. ASSUME NEW r \in Requests, Owe(r) \/ Compute(r)
      PROVE  Logs'
  <2>1. Holds(r) /\ ~Unlogged(r) /\ UNCHANGED <<log, faults>>
    BY <1>4, InnerHolds, AtPassHolds DEF Owe, Compute, AtPass, Inner, Unlogged, Locked
  <2>2. \E place \in {"computed", "ran"} : pc' = [pc EXCEPT ![r] = place]
    BY <1>4 DEF Owe, Compute
  <2>3. ask[r].deploy \in Deploys
    BY <2>1, HolderKnown, DoorAssumption DEF Known, Ordered, Wanted, Deploys
  <2>4. \E e \in RunEntries : runs' = Append(runs, e)
    BY <1>4, <2>3 DEF Owe, Compute, CauseOf, RunEntries
  <2> QED
    BY <2>1, <2>2, <2>4, UnloggedIsHolders, UnloggedAfter, LogsExtend
<1>5. ASSUME NEW r \in Requests, Record(r) \/ RecordFails(r)
      PROVE  Logs'
  <2>1. Holds(r) /\ Unlogged(r)
    BY <1>5, InnerHolds DEF Record, RecordFails, Inner, Unlogged, Locked
  <2>2. pc' = [pc EXCEPT ![r] = "recorded"]
    BY <1>5 DEF Record, RecordFails
  <2>3. AnyUnlogged /\ ~AnyUnlogged'
    <3>1. ~("recorded" \in {"computed", "ran"})
      OBVIOUS
    <3> QED
      BY <2>1, <2>2, <3>1, UnloggedIsHolders, UnloggedAfter
  <2>4. CASE log' = log /\ runs' = Front(runs) /\ faults' = faults + 1
    BY <2>3, <2>4, LogsForget DEF Logged, AnyUnlogged
  <2>5. CASE runs' = runs /\ \/ log' = Pruned(Append(log, Last(runs))) /\ faults' = faults
                             \/ log' = Append(log, Last(runs)) /\ faults' = faults + 1
    BY <2>3, <2>5, LogsRecord
  <2> QED
    BY <1>5, <2>4, <2>5 DEF Record, RecordFails, history
<1>6. ASSUME NEW r \in Requests, RemoveTenant(r) \/ RemovalRaises(r)
      PROVE  Logs'
  <2>1. Holds(r) /\ ~Unlogged(r) /\ faults' \in {faults, faults + 1}
    BY <1>6 DEF RemoveTenant, RemovalRaises, Raises, Unlogged
  <2>2. pc' = [pc EXCEPT ![r] = "free"]
    BY <1>6 DEF RemoveTenant, RemovalRaises, Raises, Finish
  <2>3. ~AnyUnlogged /\ ~AnyUnlogged'
    <3>1. ~("free" \in {"computed", "ran"})
      OBVIOUS
    <3> QED
      BY <2>1, <2>2, <3>1, UnloggedIsHolders, UnloggedAfter
  <2>4. UNCHANGED <<log, runs>> \/ (log' = <<>> /\ runs' = <<>>)
    BY <1>6 DEF RemoveTenant, RemovalRaises, Erased
  <2>5. CASE UNCHANGED <<log, runs>>
    BY <2>1, <2>3, <2>5, LogsKept
  <2>6. CASE log' = <<>> /\ runs' = <<>>
    <3>1. Logged' = <<>> /\ log' = <<>>
      BY <2>3, <2>6 DEF Logged, AnyUnlogged
    <3>2. /\ <<>> \in Seq(RunEntries) /\ AtEnd(<<>>, <<>>) /\ Len(<<>>) = 0
      BY EmptySeq, AtEndItself
    <3>3. RunKeep \in Nat /\ faults' \in Nat
      BY <2>1, DoorAssumption DEF Logs
    <3>4. Len(log') <= RunKeep + faults' /\ (Len(log') < RunKeep => log' = Logged')
      <4>1. Len(log') = 0
        BY <3>1
      <4>2. 0 <= RunKeep + faults'
        <5>1. \A m, n \in Nat : 0 <= m + n
          OBVIOUS
        <5> QED
          BY <3>3, <5>1
      <4> QED
        BY <3>1, <4>1, <4>2
    <3>5. log' \in Seq(RunEntries) /\ runs' \in Seq(RunEntries) /\ AtEnd(log', Logged')
      BY <2>6, <3>1, <3>2
    <3> QED
      BY <2>3, <3>3, <3>4, <3>5 DEF Logs, AnyUnlogged
  <2> QED
    BY <2>4, <2>5, <2>6
<1>7. ASSUME NEW r \in Requests, Raise(r)
      PROVE  Logs'
  <2>1. Holds(r) /\ pc' = [pc EXCEPT ![r] = "free"]
    BY <1>7 DEF Raise, Raises, Finish
  <2>2. ~AnyUnlogged'
    <3>1. ~("free" \in {"computed", "ran"})
      OBVIOUS
    <3> QED
      BY <2>1, <3>1, UnloggedAfter
  <2> QED
    BY <1>7, <2>2, LogsForget DEF Raise, Raises, tenant
<1>8. CASE Crash
  <2>1. ~AnyUnlogged'
    BY <1>8 DEF Crash, AnyUnlogged, Unlogged
  <2> QED
    BY <1>8, <2>1, LogsForget DEF Crash, tenant
<1>9. CASE Teach \/ UNCHANGED vars
  <2>1. AnyUnlogged' <=> AnyUnlogged
    BY <1>9 DEF Teach, vars, handlers, AnyUnlogged, Unlogged
  <2> QED
    BY <1>9, <2>1, LogsKept DEF Teach, vars, tenant, history
<1> QED
  BY <1>1, <1>2, <1>3, <1>4, <1>5, <1>6, <1>7, <1>8, <1>9 DEF Next, Proceed

-----------------------------------------------------------------------------
(* The promises.                                                           *)

\* The strengthened invariant holds from boot and through every step.
THEOREM DoorInvariant == Spec => []IInv
<1>1. Init => IInv
  BY DEF Init, IInv, Locked, OneInside, Handlers, Covered, Behind, Paid, Settled, Inner, Places, BodyHeld
<1>2. IInv /\ [Next]_vars => IInv'
  BY LockedInductive, HandlersInductive, CoveredInductive, PaidInductive, SettledInductive DEF IInv
<1> QED
  BY <1>1, <1>2, PTL DEF Spec

\* The lock admits one request at a time, whatever raises or dies inside it.
THEOREM DoorsExclude == Spec => []OneInside
<1>1. IInv => OneInside
  BY DEF IInv, Locked
<1> QED
  BY <1>1, DoorInvariant, PTL

\* A record the tables do not describe is owed a full pass, unless its own
\* request died or its pass ran cold.
THEOREM WhatIsBehindIsOwed == Spec => []OwedOrFiled
<1>1. IInv => OwedOrFiled
  BY DEF IInv, Covered, Behind, OwedOrFiled, Landing
<1> QED
  BY <1>1, DoorInvariant, PTL

\* No pass is acknowledged while a debt stands.
THEOREM DebtsArePaid == Spec => []NextPassPays
<1>1. IInv => NextPassPays
  BY DEF IInv, Settled, NextPassPays
<1> QED
  BY <1>1, DoorInvariant, PTL

\* Beside the lock and the debt: the line, and the log.
THEOREM LineAndLogInvariant == Spec => [](Locked /\ Ordered /\ Logs)
<1>1. Init => Ordered
  <2>1. Init => deploy \in Deploys /\ Len(lock) = 0
    BY DoorAssumption DEF Init, Deploys
  <2> QED
    BY <2>1 DEF Init, Ordered, Wanted, InLine, InOrder, PointedBehind
<1>2. Init => Logs
  <2>1. <<>> \in Seq(RunEntries) /\ AtEnd(<<>>, <<>>) /\ Len(<<>>) = 0 /\ RunKeep \in Nat
    BY EmptySeq, AtEndItself, DoorAssumption
  <2>2. Init => log = <<>> /\ runs = <<>> /\ faults = 0 /\ ~AnyUnlogged
    BY DEF Init, AnyUnlogged, Unlogged
  <2>3. Init => Logged = <<>>
    BY <2>2 DEF Logged, AnyUnlogged
  <2> QED
    BY <2>1, <2>2, <2>3 DEF Logs, AnyUnlogged
<1>3. Init => Locked
  BY DEF Init, Locked, OneInside, Inner, Places
<1>4. Locked /\ Ordered /\ Logs /\ [Next]_vars => (Locked /\ Ordered /\ Logs)'
  BY LockedInductive, OrderedInductive, LogsInductive
<1> QED
  BY <1>1, <1>2, <1>3, <1>4, PTL DEF Spec

\* The log is the newest passes that were not swallowed, in the order they ran,
\* whatever raised, died or failed to be written in between.
THEOREM LogKeepsTheNewest == Spec => []LogFaithful
<1>1. Logs => LogFaithful
  <2>1. Logs => Logged \in Seq(RunEntries)
    BY FrontAndLast DEF Logs, Logged
  <2> QED
    BY <2>1, AtEndIsSuffix DEF Logs, LogFaithful
<1> QED
  BY <1>1, LineAndLogInvariant, PTL

\* Once a pass has computed figures that every library taught since asks for too,
\* only the editor's pass, a teach or the tenant's removal leaves them behind: the
\* lock serves passes in the order their libraries were captured.  Of the order
\* of the versions nothing is assumed.
THEOREM DeployedFiguresStand == Spec => DeployedStaysComputed
<1>1. Locked /\ Ordered /\ [Next]_vars => [FallsBehind => ask[Head(lock)].door = "editor"]_vars
  BY PassesDoNotFallBehind
<1> QED
  BY <1>1, LineAndLogInvariant, PTL DEF Spec, DeployedStaysComputed

\* Where a provider's record never goes back to a body it has left, the newest
\* stamped version that landed is what is held, in whatever order batches queue.
THEOREM NewestIsHeld == ASSUME NoBodyReturns PROVE Spec => []NewestBodyHeld
<1>1. Init => Newest /\ Handlers
  BY DEF Init, Newest, Abreast, Handlers
<1>2. Locked /\ Ordered /\ Handlers /\ Newest /\ [Next]_vars => (Handlers /\ Newest)'
  BY HandlersInductive, NewestInductive
<1>3. Newest => NewestBodyHeld
  BY DEF Newest, Abreast, HeldAt, NewestBodyHeld, BodyHeld
<1> QED
  BY <1>1, <1>2, <1>3, LineAndLogInvariant, PTL DEF Spec

=============================================================================
