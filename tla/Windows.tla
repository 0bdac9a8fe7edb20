------------------------------ MODULE Windows ------------------------------
(***************************************************************************)
(* Spans of stored buckets, counted back from the anchor: bucket 1 is the  *)
(* bucket the anchor falls in and both ends are inclusive.  The same gate  *)
(* stands at every door: the request's, the tile's window list, and the    *)
(* facade's own arguments.                                                 *)
(***************************************************************************)
EXTENDS Integers, SequencesExt

CONSTANTS
  MaxBuckets,    \* how many buckets one span may cover
  MaxReachDays,  \* how many days back a span may reach
  MaxWindows     \* how many windows one request may ask for

WindowSpec(first, last) == [first |-> first, last |-> last]

\* An argument: a span, or `each`, one window per bucket of it.
WindowArg(each, first, last) == [each |-> each, span |-> WindowSpec(first, last)]

MakeWindow(spec) == 1 <= spec.first /\ spec.first <= spec.last /\ spec.last <= MaxBuckets

\* The widest one bucket of a rule can be, in minutes; a fifth weekday is a quarter's.
BucketMinutes(rule) ==
  CASE rule = "minute"       -> 1
    [] rule = "15 minutes"   -> 15
    [] rule = "hour"         -> 60
    [] rule = "day"          -> 1440
    [] rule = "week"         -> 7 * 1440
    [] rule \in {"quarter", "fifth monday"} -> 92 * 1440
    [] OTHER                 -> 31 * 1440

ReachDays(spec, rule) == (spec.last * BucketMinutes(rule) + 1439) \div 1440
Reaches(spec, rule) == ReachDays(spec, rule) <= MaxReachDays

\* `each 1-12` and its twelve spellings are the same windows everywhere downstream.
Expand(arg) ==
  IF arg.each
  THEN [k \in 1..(arg.span.last - arg.span.first + 1) |->
          WindowSpec(arg.span.first + k - 1, arg.span.first + k - 1)]
  ELSE <<arg.span>>
ExpandAll(args) == FlattenSeq([i \in DOMAIN args |-> Expand(args[i])])

\* One request serves each window once, and no more than the ceiling.
WindowsStand(args) ==
  /\ \A i \in DOMAIN args : MakeWindow(args[i].span)
  /\ LET specs == ExpandAll(args) IN
     Len(specs) <= MaxWindows /\ IsInjective(specs)
=============================================================================
