------------------------------ MODULE MCWorld ------------------------------
(***************************************************************************)
(* A small instance of World for TLC: a schema with kinds and one without, *)
(* a source of definitions over the kinds, one with its own facts, the     *)
(* empty one, and a newer build that refuses the former.                   *)
(***************************************************************************)
EXTENDS World

CONSTANTS a1, a2, kinds, bare, over, facts, empty, b1, b2

MCAuthors == {a1, a2}
MCSchemas == {kinds, bare}
MCSources == {over, facts, empty}
MCBuilds == {b1, b2}
MCDeclares == {kinds}
MCTeaches == {facts}
MCStrip == [s \in MCSchemas |-> bare]
MCAccepted ==
  {<<b, empty, s>> : b \in MCBuilds, s \in MCSchemas}
    \union {<<b1, over, kinds>>, <<b1, facts, bare>>, <<b2, facts, bare>>}

=============================================================================
