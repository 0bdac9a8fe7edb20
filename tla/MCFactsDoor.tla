---------------------------- MODULE MCFactsDoor -----------------------------
(* Instances of FactsDoor: what the clients ask.                           *)
EXTENDS FactsDoor

CONSTANTS k1

Nothing == [writes |-> [k \in {} |-> 0], deletes |-> {}, stamped |-> TRUE]
Write(v) == [writes |-> [k \in {k1} |-> v], deletes |-> {}, stamped |-> TRUE]
Unstamped(v) == [Write(v) EXCEPT !.stamped = FALSE]
Delete == [Nothing EXCEPT !.deletes = {k1}]

Asked(door, batch, defer, full) ==
  [door |-> door, batch |-> batch, defer |-> defer, full |-> full]

\* Three stamped snapshots, an unstamped one and a delete; the newest snapshot
\* and the delete deferred, too.  A batch lands alike whether it defers or not.
Posts ==
  {Asked("facts", b, FALSE, FALSE) : b \in {Write(1), Write(2), Write(3), Unstamped(1), Delete}}
    \union {Asked("facts", b, TRUE, FALSE) : b \in {Write(3), Delete}}
Passes == {Asked("run", Nothing, FALSE, f) : f \in BOOLEAN}
EveryAsk ==
  Posts \union Passes
    \union {Asked("editor", Nothing, FALSE, FALSE), Asked("removal", Nothing, FALSE, FALSE)}

Distinct == <<"a", "b", "c">>

\* The second teach changes the figures and keeps the groupings; the third
\* takes the figures back.
FiguresTaught == <<1, 2, 1>>
GroupingsTaught == <<1, 1, 1>>

=============================================================================
