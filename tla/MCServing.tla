----------------------------- MODULE MCServing -----------------------------
(***************************************************************************)
(* Small instances of Serving for TLC.                                     *)
(***************************************************************************)
EXTENDS Serving, TLC

CONSTANTS issue, person, assigned, active, target, wip, goal, total, load, flow, live, watch, head, foot, tile, dead

MCKinds == {issue, person}
MCIndexNames == {assigned, active, target}
MCNames == {wip, goal, total, load, flow, live, watch, head, foot, tile, dead}
MCVersions == 1..2

Grouping(version, kind, keeps) == [version |-> version, kind |-> kind, keeps |-> keeps]
Figure(turn, version, prose, indexes, reads, bandReads, bandField, bulk) ==
  [version |-> version, prose |-> prose, indexes |-> indexes, reads |-> reads, adds |-> 0,
   bandReads |-> bandReads, bandField |-> bandField, bulk |-> bulk, turn |-> turn]
Written(version, prose) == [version |-> version, prose |-> prose]

\* Open issues against a person's target and allowance, a total over them that
\* is split, a reading and a list judged by the goal, and tiles of all of these.
\* v is the version of what counts an open issue; w of everything a summary
\* says; q is the prose.
MCLibrary(v, w, q) ==
  [indexes |-> assigned :> Grouping(1, issue, TRUE) @@ active :> Grouping(v, issue, v = 2)
               @@ target :> Grouping(1, person, TRUE),
   figures |-> wip :> Figure(1, v, q, {assigned, active}, {}, {}, None, TRUE)
               @@ goal :> Figure(2, w, q, {target}, {}, {}, None, TRUE)
               @@ total :> Figure(4, v, 1, {}, {wip}, {}, None, FALSE)
               @@ load :> Figure(3, 1, 1, {assigned}, {}, {goal}, person, TRUE),
   readings |-> flow :> (Written(1, q) @@ [source |-> wip, bandReads |-> {goal}])
                @@ live :> (Written(1, q) @@ [source |-> None, bandReads |-> {}]),
   projections |-> watch :> (Written(v, 1) @@ [kind |-> issue, frm |-> active, reads |-> {total}, words |-> {load}]),
   summaries |-> head :> (Written(w, 1) @@ [over |-> watch, first |-> TRUE])
                 @@ foot :> (Written(w, 1) @@ [over |-> watch, first |-> FALSE]),
   bundles |-> tile :> (Written(1, 1) @@ [members |-> {load, flow, foot}])
               @@ dead :> (Written(1, q) @@ [members |-> {live, goal}])]

\* Everything rewritten, the reading made live and the first summary dropped.
Rewritten ==
  [MCLibrary(2, 2, 2) EXCEPT
     !.readings = [@ EXCEPT ![flow] = Written(2, 1) @@ [source |-> None, bandReads |-> {}]],
     !.summaries = foot :> (Written(2, 1) @@ [over |-> watch, first |-> TRUE])]

MCLibraries == {MCLibrary(1, 1, 1), Rewritten}
\* A filter's definition, a goal's, a summary's and some prose go out together,
\* with a reading made live and a summary dropped, and are taken back.
MCDeploys ==
  {<<None, MCLibrary(1, 1, 1)>>, <<MCLibrary(1, 1, 1), Rewritten>>, <<Rewritten, MCLibrary(1, 1, 1)>>}

=============================================================================
