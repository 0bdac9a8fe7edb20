------------------------------ MODULE MCStream ------------------------------
(***************************************************************************)
(* Small instances of Stream for TLC.                                      *)
(***************************************************************************)
EXTENDS Stream

CONSTANTS c1, t1, t2, n1, n2

MCClients == {c1}
MCTenants == {t1, t2}
MCNames == {n1, n2}
MCTeaches == <<{n1, n2}, {n1}>>
MCUnfetchable == {n2}

Asked(type, mode, t, names) == [type |-> type, mode |-> mode, tenant |-> t, names |-> names]

\* Everything or two entries of one board, everything of the other; and both
\* ways of stopping.
MCAsks ==
  {Asked("subscribe", "all", t, {}) : t \in MCTenants}
  \union {Asked("subscribe", "entry", t1, MCNames)}
  \union {Asked("unsubscribe", "all", t1, {}), Asked("unsubscribe", "entry", t1, {n1})}

=============================================================================
