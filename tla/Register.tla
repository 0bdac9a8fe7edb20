------------------------------ MODULE Register ------------------------------
(***************************************************************************)
(* What the doors that teach a deployment promise together: one durable    *)
(* value.  A write is worked out from the value it saw and takes hold only *)
(* if that is still the value, though nobody compares the two; what was    *)
(* acknowledged is what is served, before a restart and after it; and a    *)
(* write nobody acknowledged either never happened or appears with a       *)
(* restart, unless another overtook it.                                    *)
(***************************************************************************)
CONSTANTS Authors, Worlds, None

VARIABLES
  value,    \* what is served, or None
  started,  \* each author's write: the value it saw and the one it brings
  limbo     \* the value on the disc, where it is not the one served

vars == <<value, started, limbo>>

Writes == [from : Worlds \union {None}, to : Worlds]

Init == value \in Worlds \union {None} /\ started = [x \in Authors |-> None] /\ limbo = {}

Start(x) ==
  /\ started[x] = None
  /\ \E w \in Worlds : started' = [started EXCEPT ![x] = [from |-> value, to |-> w]]
  /\ UNCHANGED <<value, limbo>>

\* The disc takes the write, whoever had one there before.
Reach(x) ==
  /\ started[x] # None
  /\ limbo' = {started[x].to} \ {value}
  /\ UNCHANGED <<value, started>>

\* The author is told: the write took hold, on the value it was worked out from.
Acknowledge(x) ==
  /\ started[x] # None /\ started[x].from = value
  /\ limbo \subseteq {started[x].to}
  /\ value' = started[x].to /\ limbo' = {}
  /\ started' = [started EXCEPT ![x] = None]

\* The author is told it failed, which says nothing of the disc.
Fail(x) ==
  /\ started[x] # None
  /\ started' = [started EXCEPT ![x] = None]
  /\ limbo' \in {limbo, {started[x].to} \ {value}}
  /\ UNCHANGED value

Restart ==
  /\ value' \in {value} \union limbo
  /\ limbo = {} => value' = value
  /\ limbo' = {} /\ started' = [x \in Authors |-> None]

Next ==
  \/ \E x \in Authors : Start(x) \/ Reach(x) \/ Acknowledge(x) \/ Fail(x)
  \/ Restart

Spec == Init /\ [][Next]_vars

=============================================================================
