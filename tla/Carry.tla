------------------------------- MODULE Carry -------------------------------
(***************************************************************************)
(* One carried figure: `latest(...) carried forward` over a grouping that  *)
(* buckets records by subject and by time.                                 *)
(*                                                                         *)
(* A pass, alone under the tenant's lock, files the batch, recomputes the  *)
(* buckets it touched and then materialises: rows for the buckets nobody   *)
(* changed anything in, up to the present.  A read materialises too,       *)
(* without the lock: it takes its snapshot of the rows, then of the        *)
(* bucket keys, and writes row by row whatever the snapshot called for,    *)
(* while passes and other reads go on.  Records, buckets and instants are  *)
(* those of the model EnginePass; what is modelled here is carry.py, its   *)
(* two callers and the two ways the store writes a row.                    *)
(***************************************************************************)
EXTENDS Integers, Sequences, FiniteSets, FiniteSetsExt

CONSTANTS
  Subjects,   \* the subjects, numbers for their order
  Records,    \* the records, numbers for their order in time within a bucket
  LastLabel,  \* bound: the buckets are 1..LastLabel, 1 where the calendar begins
  Values,     \* what a record may say
  Cap,        \* MAX_CARRY_BUCKETS
  Readers,    \* the reads that may be in flight
  Pass,       \* the pass, where it materialises
  MaxPosts,   \* bound: batches
  MaxReads,   \* bound: reads
  None

Labels == 1..LastLabel
Coords == Subjects \X Labels
Fillers == Readers \union {Pass}

\* A row: the number, where there is one, and the records it is evidence of.
Rows == [value : Values \union {None}, members : SUBSET Records]

ASSUME CarryAssumption ==
  /\ Subjects \subseteq Nat /\ Records \subseteq Nat /\ IsFiniteSet(Records)
  /\ LastLabel \in Nat \ {0} /\ Cap \in Nat \ {0} /\ Pass \notin Readers
  /\ None \notin Rows /\ \A labels \in SUBSET Labels : labels # None

VARIABLES
  fact,     \* each record: whose, in which bucket, saying what
  index,    \* the grouping: which records each coordinate holds
  row,      \* the figure's rows
  told,     \* the number each coordinate was last reported to hold
  now,      \* the bucket the clock is in
  pass,     \* how far the pass has got, and what is left to recompute
  fill,     \* each filler's snapshot and the writes it has left
  posts, reads,
  raced,    \* history: the reads a pass has overlapped
  dirty,    \* history: such a read wrote since the last pass's snapshot
  spoiled,  \* history: buckets of changes such a read wrote over
  filled,   \* history: coordinates a read filled and no pass reported since
  stranded  \* history: rows ahead of the clock whose change has left

history == <<raced, dirty, spoiled, filled, stranded>>
vars == <<fact, index, row, told, now, pass, fill, posts, reads, history>>

Facts == [owner : Subjects, label : Labels, value : Values]
Off == [pc |-> "off", at |-> None, held |-> None, ops |-> {}]

-----------------------------------------------------------------------------
(* What a bucket says, and what is carried from it (carry.py).             *)

\* The buckets somebody changed something in.
Keys == {e[2] : e \in index}
LabelsOf(keys, s) == {c[2] : c \in {x \in keys : x[1] = s}}

\* The latest change in the bucket, and it alone as evidence; the empty answer
\* where the grouping has emptied it, for a carried figure is not retired there.
Evaluate(c) ==
  LET in == {e[1] : e \in {x \in index : x[2] = c}}
  IN IF in = {} THEN [value |-> None, members |-> {}]
     ELSE [value |-> fact[Max(in)].value, members |-> {Max(in)}]

\* The n most recent buckets ending at one: fewer only where the calendar begins.
LabelsBack(at, n) == Max({1, at - n + 1})..at

\* Asked for a span, the calendar reaches back to the first change or has no more.
Enough(got, span, earliest) == (got # {} /\ Min(got) <= earliest) \/ Cardinality(got) < span

\* The buckets from the first change through the present, found by asking for a
\* widening span; None where that reaches back past the cap.
SequenceToPresent(earliest, at) ==
  LET widen[span \in 1..Cap] ==
        IF Enough(LabelsBack(at, span), span, earliest) THEN LabelsBack(at, span)
        ELSE IF span < Cap THEN widen[Min({2 * span, Cap})]
        ELSE IF Cardinality(LabelsBack(at, Cap + 1)) <= Cap THEN LabelsBack(at, Cap + 1)
        ELSE None
      found == widen[1]
  IN IF found = None THEN None ELSE {l \in found : l >= earliest}

\* A mutant of Governing: the first change governs every later bucket.
GoverningFirst(anchors, l) == Min({a \in anchors : a <= l})

\* The latest change at or before a bucket.
Governing(anchors, l) == Max({0} \union {a \in anchors : a <= l})

\* A mutant of Retired: a subject's every row outside the sequence goes.
RetiredOutside(held, s, sequence, earliest) ==
  {c \in Coords : c[1] = s /\ c[2] \notin sequence /\ held[c] # None}

\* Rows before the first change were never in force.
Retired(held, s, sequence, earliest) ==
  {c \in Coords : c[1] = s /\ c[2] < earliest /\ held[c] # None}

\* The changes of a subject whose rows are computed.
Anchors(held, keys, s) == {l \in LabelsOf(keys, s) : held[<<s, l>>] # None}

Removals(held, s, sequence, earliest) ==
  {[coord |-> c, row |-> None, insert |-> FALSE] : c \in Retired(held, s, sequence, earliest)}

Carries(held, s, anchors, to) ==
  {[coord |-> <<s, l>>, row |-> held[<<s, Governing(anchors, l)>>], insert |-> held[<<s, l>>] = None] :
     l \in to}

\* What a snapshot calls for, one subject: nothing where nothing was ever set, or
\* its change is not computed yet, or the reach is refused.
Wanted(held, keys, s, at) ==
  LET anchors == Anchors(held, keys, s)
      sequence == SequenceToPresent(Min(anchors), at)
  IN IF anchors = {} \/ sequence = None THEN {}
     ELSE Removals(held, s, sequence, Min(anchors))
          \union {w \in Carries(held, s, anchors, sequence \ LabelsOf(keys, s)) : w.row # held[w.coord]}

Materialise(held, keys, at) == UNION {Wanted(held, keys, s, at) : s \in Subjects}

\* Subject by subject, the retired rows first, the others oldest first.
Before(v, w) ==
  \/ v.coord[1] < w.coord[1]
  \/ v.coord[1] = w.coord[1] /\ v.row = None /\ w.row # None
  \/ v.coord[1] = w.coord[1] /\ (v.row = None <=> w.row = None) /\ v.coord[2] < w.coord[2]

-----------------------------------------------------------------------------
(* A pass.                                                                 *)

PassRuns == pass.pc # "idle"
Overlapped == {x \in Readers : fill[x].pc # "off"}

\* A batch of one record, or none; removing one, or asking, makes the pass full.
Post(r, new, full) ==
  /\ ~PassRuns /\ posts < MaxPosts /\ posts' = posts + 1
  /\ new = None /\ fact[r] # None => full
  /\ fact' = [fact EXCEPT ![r] = new]
  /\ pass' = [pc |-> "file", touched |-> {}, record |-> r, full |-> full]
  /\ raced' = raced \union Overlapped
  /\ UNCHANGED <<index, row, told, now, fill, reads, dirty, spoiled, filled, stranded>>

Filing(r) == IF fact[r] = None THEN {} ELSE {<<r, <<fact[r].owner, fact[r].label>>>>}

\* The record is refiled, and the buckets it left and entered are to recompute:
\* all there are, and no other, if the pass is full.
File ==
  /\ pass.pc = "file"
  /\ LET r == pass.record
         left == {e \in index : e[1] = r}
     IN /\ index' = (index \ left) \union Filing(r)
        /\ pass' = [pass EXCEPT !.pc = "recompute",
                      !.touched = IF pass.full THEN {e[2] : e \in index'}
                                  ELSE {e[2] : e \in left \union Filing(r)}]
        /\ stranded' = (stranded \union {c \in {e[2] : e \in left} : c[2] > now})
                         \ {e[2] : e \in index'}
  /\ UNCHANGED <<fact, row, told, now, fill, posts, reads, raced, dirty, spoiled, filled>>

\* The number a row reports: a row that is not there reports nothing.
Number(r) == IF r = None THEN None ELSE r.value

\* A mutant of Report: a number that is the first to be set is no change.
ReportChanges(c, old, new) ==
  /\ told' = [told EXCEPT ![c] = IF Number(old) # Number(new) /\ old # None THEN Number(new) ELSE @]
  /\ filled' = IF Number(old) # Number(new) THEN filled \ {c} ELSE filled

\* A row is written, and reported where its number moved.
Report(c, old, new) ==
  /\ told' = [told EXCEPT ![c] = IF Number(old) # Number(new) \/ old = None THEN Number(new) ELSE @]
  /\ filled' = IF Number(old) # Number(new) \/ old = None THEN filled \ {c} ELSE filled

Recompute(c) ==
  /\ pass.pc = "recompute" /\ c \in pass.touched
  /\ row' = [row EXCEPT ![c] = Evaluate(c)]
  /\ Report(c, row[c], Evaluate(c))
  /\ pass' = [pass EXCEPT !.touched = @ \ {c}]
  /\ spoiled' = spoiled \ {c}
  /\ UNCHANGED <<fact, index, now, fill, posts, reads, raced, dirty, stranded>>

\* The last thing a pass does is to extend the figure to the present.
Extend ==
  /\ pass.pc = "recompute" /\ pass.touched = {}
  /\ pass' = [pass EXCEPT !.pc = "carry"]
  /\ fill' = [fill EXCEPT ![Pass] = [Off EXCEPT !.pc = "held", !.at = now]]
  /\ UNCHANGED <<fact, index, row, told, now, posts, reads, history>>

Return ==
  /\ pass.pc = "carry" /\ fill[Pass].pc = "off"
  /\ pass' = [pc |-> "idle", touched |-> {}, record |-> None, full |-> FALSE]
  /\ UNCHANGED <<fact, index, row, told, now, fill, posts, reads, history>>

-----------------------------------------------------------------------------
(* Materialising, by a pass or by a read.                                  *)

\* A mutant of FillAt: a read fills as far as it was asked to look.
FillAtAsked(asked) == asked

\* A caller's anchor may narrow what is reported and never move what is stored.
FillAt(asked) == Min({asked, now})

Read(x, asked) ==
  /\ fill[x].pc = "off" /\ reads < MaxReads /\ reads' = reads + 1
  /\ fill' = [fill EXCEPT ![x] = [Off EXCEPT !.pc = "held", !.at = FillAt(asked)]]
  /\ raced' = IF PassRuns THEN raced \union {x} ELSE raced
  /\ UNCHANGED <<fact, index, row, told, now, pass, posts, dirty, spoiled, filled, stranded>>

TakeRows(x) ==
  /\ fill[x].pc = "held"
  /\ fill' = [fill EXCEPT ![x].pc = "keys", ![x].held = row]
  /\ dirty' = IF x = Pass THEN FALSE ELSE dirty
  /\ UNCHANGED <<fact, index, row, told, now, pass, posts, reads, raced, spoiled, filled, stranded>>

TakeKeys(x) ==
  /\ fill[x].pc = "keys"
  /\ fill' = [fill EXCEPT ![x].pc = "write", ![x].held = None,
                ![x].ops = Materialise(fill[x].held, Keys, fill[x].at)]
  /\ UNCHANGED <<fact, index, row, told, now, pass, posts, reads, history>>

\* A row the snapshot lacked is inserted or nothing; one it held is overwritten,
\* whatever is there by now; a retired one is removed.
Write(x, w) ==
  LET lost == w.insert /\ row[w.coord] # None
      after == IF lost THEN row[w.coord] ELSE w.row
  IN /\ fill[x].pc = "write" /\ w \in fill[x].ops /\ \A v \in fill[x].ops : ~Before(v, w)
     /\ row' = [row EXCEPT ![w.coord] = after]
     /\ fill' = [fill EXCEPT ![x].ops = @ \ {w}]
     /\ stranded' = IF lost \/ w.row = None THEN stranded ELSE stranded \ {w.coord}
     /\ IF x = Pass
        THEN /\ IF lost THEN UNCHANGED <<told, filled>>
                ELSE told' = [told EXCEPT ![w.coord] = Number(w.row)] /\ filled' = filled \ {w.coord}
             /\ UNCHANGED <<dirty, spoiled>>
        ELSE /\ filled' = IF lost THEN filled ELSE filled \union {w.coord}
             /\ dirty' = (dirty \/ x \in raced)
             /\ spoiled' = IF x \in raced /\ ~lost /\ w.coord \in Keys
                           THEN spoiled \union {w.coord} ELSE spoiled
             /\ UNCHANGED told
     /\ UNCHANGED <<fact, index, now, pass, posts, reads, raced>>

\* A read serves the range once it has filled it.
Filled(x) ==
  /\ fill[x].pc = "write" /\ fill[x].ops = {}
  /\ fill' = [fill EXCEPT ![x] = Off]
  /\ raced' = raced \ {x}
  /\ UNCHANGED <<fact, index, row, told, now, pass, posts, reads, dirty, spoiled, filled, stranded>>

Tick ==
  /\ ~PassRuns /\ now < LastLabel
  /\ now' = now + 1
  /\ UNCHANGED <<fact, index, row, told, pass, fill, posts, reads, history>>

Init ==
  /\ fact = [r \in Records |-> None] /\ index = {}
  /\ row = [c \in Coords |-> None] /\ told = [c \in Coords |-> None]
  /\ now \in Labels
  /\ pass = [pc |-> "idle", touched |-> {}, record |-> None, full |-> FALSE]
  /\ fill = [x \in Fillers |-> Off]
  /\ posts = 0 /\ reads = 0
  /\ raced = {} /\ dirty = FALSE /\ spoiled = {} /\ filled = {} /\ stranded = {}

Next ==
  \/ \E r \in Records, new \in Facts \union {None}, full \in BOOLEAN : Post(r, new, full)
  \/ File \/ Extend \/ Return \/ Tick
  \/ \E c \in Coords : Recompute(c)
  \/ \E x \in Readers, asked \in Labels : Read(x, asked)
  \/ \E x \in Fillers :
       TakeRows(x) \/ TakeKeys(x) \/ Filled(x) \/ \E w \in fill[x].ops : Write(x, w)

Spec == Init /\ [][Next]_vars

-----------------------------------------------------------------------------

Quiet == ~PassRuns /\ ~dirty /\ raced = {}
Anchored(s) == LabelsOf(Keys, s)
\* Within reach of the present: the change is not further back than the cap.
InReach(s, l) == now - Min(Anchored(s)) < Cap /\ l <= now

\* The value in force, and its evidence: worked out from the records alone.
InForce(s, l) == Evaluate(<<s, Max({a \in Anchored(s) : a <= l})>>)

\* One calculation, three triggers: outside a pass, whatever reads filled, and
\* whatever reads a pass overlapped had written before it, every bucket of a
\* subject from its first change on says what the last change at or before it
\* says, or is not materialised yet; and no bucket before the first is left.
\* (But where such a read has written over a change itself, and where a
\* change left a bucket the clock had not reached.)
RowsInForce ==
  Quiet =>
    \A s \in Subjects : Anchored(s) # {} /\ (\A c \in spoiled : c[1] # s) =>
      \A l \in Labels :
        /\ l < Min(Anchored(s)) /\ InReach(s, Min(Anchored(s))) => row[<<s, l>>] = None
        /\ l >= Min(Anchored(s)) /\ <<s, l>> \notin stranded /\ (l \in Anchored(s) \/ InReach(s, l)) =>
             row[<<s, l>>] \in {InForce(s, l)} \union (IF l \in Anchored(s) THEN {} ELSE {None})

\* A read no pass overlapped finds every bucket it looks at filled, from the first
\* change on, with the value in force there and its evidence.
ReadFindsFilled ==
  \A x \in Readers :
    fill[x].pc = "write" /\ fill[x].ops = {} /\ x \notin raced /\ Quiet /\ spoiled = {} =>
      \A s \in Subjects : Anchored(s) # {} /\ fill[x].at - Min(Anchored(s)) < Cap =>
        \A l \in Min(Anchored(s))..fill[x].at : row[<<s, l>>] = InForce(s, l)

\* The change stream keeps up, whatever is under way: a coordinate's readers and
\* screens were told the number it holds, unless a read was the one to fill it.
ReportsKeepUp == \A c \in Coords \ filled : told[c] = Number(row[c])

\* docs/language.md, of rows the anchors no longer justify at all: they are
\* retired, because they would report a value that was never in force.
CarriedIsJustified ==
  pass.pc = "carry" /\ fill[Pass].pc = "off" /\ ~dirty /\ raced = {} =>
    \A c \in Coords : Number(row[c]) # None => \E a \in Anchored(c[1]) : a <= c[2]

=============================================================================
