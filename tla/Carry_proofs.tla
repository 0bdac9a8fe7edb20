----------------------------- MODULE Carry_proofs -----------------------------
(***************************************************************************)
(* A carried figure says what is in force and reports it, proved for any   *)
(* subjects, records, calendar, cap and reads.                             *)
(***************************************************************************)
EXTENDS Carry, Counting_proofs

(***************************************************************************)
(* The reach of the present (carry.py): the widening span, in closed form. *)
(***************************************************************************)

Low(at, n) == IF at - n + 1 >= 1 THEN at - n + 1 ELSE 1

LEMMA LabelsBackIs ==
  ASSUME NEW at \in Nat \ {0}, NEW n \in Nat \ {0}
  PROVE  /\ LabelsBack(at, n) = Low(at, n)..at /\ Low(at, n) \in 1..at
         /\ Min(LabelsBack(at, n)) = Low(at, n) /\ LabelsBack(at, n) # {}
         /\ Cardinality(LabelsBack(at, n)) = IF n <= at THEN n ELSE at
<1>1. Low(at, n) \in 1..at
  BY DEF Low
<1>2. Max({1, at - n + 1}) = Low(at, n)
  BY GreatestIs DEF Low
<1>3. LabelsBack(at, n) = Low(at, n)..at
  BY <1>2 DEF LabelsBack
<1> DEFINE low == Low(at, n)
<1>4. low \in Int /\ low <= at /\ low >= 1
  BY <1>1
<1>5. at - low + 1 = IF n <= at THEN n ELSE at
  BY DEF Low
<1> HIDE DEF low
<1>6. Min(low..at) = low
  <2> DEFINE S == low..at
  <2>1. S \in SUBSET Int /\ low \in S /\ \A y \in S : low <= y
    BY <1>4
  <2> HIDE DEF S
  <2>2. Min(S) = low
    BY <2>1, LeastIs
  <2> QED
    BY <2>2 DEF S
<1>7. Cardinality(low..at) = at - low + 1
  BY <1>4, FS_Interval
<1> QED
  BY <1>1, <1>3, <1>4, <1>5, <1>6, <1>7 DEF low

\* One widening, given those of greater spans.
Widened(widen, earliest, at, span) ==
  IF Enough(LabelsBack(at, span), span, earliest) THEN LabelsBack(at, span)
  ELSE IF span < Cap THEN widen[Min({2 * span, Cap})]
  ELSE IF Cardinality(LabelsBack(at, Cap + 1)) <= Cap THEN LabelsBack(at, Cap + 1)
  ELSE None

\* A span widens to a greater one.
LEMMA WiderIs ==
  ASSUME NEW span \in 1..Cap, span < Cap
  PROVE  Min({2 * span, Cap}) \in 1..Cap /\ Min({2 * span, Cap}) > span
<1>1. Cap \in Nat \ {0}
  BY CarryAssumption
<1> DEFINE S == {2 * span, Cap}
<1>2. S \in SUBSET Nat /\ S # {} /\ \A n \in S : n > span
  BY <1>1
<1>3. Cap \in S
  OBVIOUS
<1> HIDE DEF S
<1>4. Min(S) \in S /\ Min(S) <= Cap
  BY <1>2, <1>3, LeastNatural
<1> QED
  BY <1>1, <1>2, <1>4 DEF S

\* What one widening says: it reaches, widens, or is refused.
LEMMA WidenedIs ==
  ASSUME NEW widen, NEW earliest \in Nat \ {0}, NEW at \in Nat \ {0}, NEW span \in 1..Cap
  PROVE  Widened(widen, earliest, at, span) =
           IF Low(at, span) <= earliest THEN LabelsBack(at, span)
           ELSE IF span < Cap THEN widen[Min({2 * span, Cap})] ELSE None
<1> DEFINE got == LabelsBack(at, span)
           beyond == LabelsBack(at, Cap + 1)
<1>1. Cap \in Nat \ {0} /\ span \in Nat \ {0} /\ Cap + 1 \in Nat \ {0}
  BY CarryAssumption
<1>2. /\ got # {} /\ Min(got) = Low(at, span)
      /\ Cardinality(got) = IF span <= at THEN span ELSE at
  BY <1>1, LabelsBackIs
<1>3. Cardinality(beyond) = IF Cap + 1 <= at THEN Cap + 1 ELSE at
  BY <1>1, LabelsBackIs
<1> HIDE DEF got, beyond
<1>4. CASE Low(at, span) <= earliest
  BY <1>2, <1>4 DEF Widened, Enough, got
<1>5. CASE ~(Low(at, span) <= earliest)
  <2>1. span <= at
    BY <1>1, <1>5 DEF Low
  <2>2. Cardinality(got) = span /\ ~(Cardinality(got) < span)
    BY <1>1, <1>2, <2>1
  <2>3. CASE span < Cap
    BY <1>2, <1>5, <2>2, <2>3 DEF Widened, Enough, got
  <2>4. CASE ~(span < Cap)
    <3>1. span = Cap
      BY <1>1, <2>4
    <3>2. Cap + 1 <= at
      BY <1>1, <1>5, <3>1 DEF Low
    <3>3. ~(Cardinality(beyond) <= Cap)
      BY <1>1, <1>3, <3>2
    <3> QED
      BY <1>2, <1>5, <2>2, <3>1, <3>3 DEF Widened, Enough, got, beyond
  <2> QED
    BY <2>3, <2>4
<1> QED
  BY <1>4, <1>5

\* The buckets from a change through the present, where the cap reaches back to it.
LEMMA SequenceIs ==
  ASSUME NEW earliest \in Labels, NEW at \in Labels
  PROVE  SequenceToPresent(earliest, at) = IF at - earliest < Cap THEN earliest..at ELSE None
<1> DEFINE D == 1..Cap
           Row(a, span) == Widened(a, earliest, at, span)
           wider(span) == Min({2 * span, Cap})
           Upto(a, n) == \A span \in D : Cap - span <= n => a[span] = Row(a, span)
           S == {n \in Nat : \E a : a = [span \in D |-> a[span]] /\ Upto(a, n)}
           w == CHOOSE a : a = [span \in D |-> Row(a, span)]
           Right(span) == IF at - earliest < Cap
                          THEN \E k \in D : w[span] = LabelsBack(at, k) /\ Low(at, k) <= earliest
                          ELSE w[span] = None
           T == {n \in Nat : \A span \in D : Cap - span <= n => Right(span)}
<1>1. Cap \in Nat \ {0} /\ earliest \in Nat \ {0} /\ at \in Nat \ {0} /\ LastLabel \in Nat
  BY CarryAssumption DEF Labels
<1>2. \A span \in D : span < Cap => wider(span) \in D /\ wider(span) > span
  BY WiderIs
<1>3. \A a : \A span \in D : Row(a, span) =
                               IF Low(at, span) <= earliest THEN LabelsBack(at, span)
                               ELSE IF span < Cap THEN a[wider(span)] ELSE None
  BY <1>1, WidenedIs
<1>4. \A span \in D : span \in Nat /\ 1 <= span /\ span <= Cap /\ Cap - span \in Nat
  BY <1>1
<1>5. Cap \in D
  BY <1>1
<1>6. SequenceToPresent(earliest, at) = IF w[1] = None THEN None ELSE {l \in w[1] : l >= earliest}
  BY DEF SequenceToPresent, Widened
<1> HIDE DEF D, Row, wider
<1>7. 0 \in S
  <2> DEFINE z == [span \in D |-> Row(<<>>, span)]
  <2>1. \A span \in D : Cap - span <= 0 => span = Cap
    BY <1>1, <1>4
  <2>2. Upto(z, 0)
    BY <1>3, <2>1
  <2>3. z = [span \in D |-> z[span]]
    OBVIOUS
  <2> QED
    BY <2>2, <2>3
<1>8. ASSUME NEW n \in S PROVE n + 1 \in S
  <2>1. n \in Nat /\ n + 1 \in Nat
    OBVIOUS
  <2>2. PICK a : a = [span \in D |-> a[span]] /\ Upto(a, n)
    OBVIOUS
  <2> DEFINE b == [span \in D |-> IF Cap - span <= n THEN a[span] ELSE Row(a, span)]
  <2>3. ASSUME NEW span \in D, Cap - span <= n + 1 PROVE b[span] = Row(b, span)
    <3>1. span < Cap => wider(span) \in D /\ Cap - wider(span) <= n
      BY <1>1, <1>2, <1>4, <2>1, <2>3
    <3>2. span < Cap => b[wider(span)] = a[wider(span)]
      BY <3>1
    <3>3. Row(b, span) = Row(a, span)
      BY <1>3, <3>2
    <3>4. b[span] = Row(a, span)
      BY <2>2
    <3> QED
      BY <3>3, <3>4
  <2>4. b = [span \in D |-> b[span]]
    OBVIOUS
  <2> HIDE DEF b
  <2> QED
    BY <2>1, <2>3, <2>4
<1>9. w = [span \in D |-> Row(w, span)]
  <2>1. S \in SUBSET Nat
    OBVIOUS
  <2>2. Cap \in S
    <3> HIDE DEF S
    <3> QED
      BY <1>1, <1>7, <1>8, <2>1, CountingUp
  <2>3. PICK a : a = [span \in D |-> a[span]] /\ Upto(a, Cap)
    BY <2>2
  <2>4. a = [span \in D |-> Row(a, span)]
    BY <1>1, <1>4, <2>3
  <2> QED
    BY <2>4
<1>10. \A span \in D : w[span] = Row(w, span)
  <2> HIDE DEF w
  <2> QED
    BY <1>9
<1> HIDE DEF w
<1>11. ASSUME NEW span \in D, span < Cap => Right(wider(span)) PROVE Right(span)
  <2>1. w[span] = IF Low(at, span) <= earliest THEN LabelsBack(at, span)
                  ELSE IF span < Cap THEN w[wider(span)] ELSE None
    BY <1>3, <1>10
  <2>2. CASE Low(at, span) <= earliest
    <3>1. at - earliest < Cap
      BY <1>1, <1>4, <2>2 DEF Low
    <3> QED
      BY <2>1, <2>2, <3>1
  <2>3. CASE ~(Low(at, span) <= earliest) /\ span < Cap
    BY <1>11, <2>1, <2>3
  <2>4. CASE ~(Low(at, span) <= earliest) /\ ~(span < Cap)
    <3>1. span = Cap
      BY <1>1, <1>4, <2>4
    <3>2. ~(at - earliest < Cap)
      BY <1>1, <2>4, <3>1 DEF Low
    <3> QED
      BY <2>1, <2>4, <3>2
  <2> QED
    BY <2>2, <2>3, <2>4
<1> HIDE DEF Right
<1>12. 0 \in T
  <2>1. \A span \in D : Cap - span <= 0 => ~(span < Cap)
    BY <1>1, <1>4
  <2> QED
    BY <1>11, <2>1
<1>13. ASSUME NEW n \in T PROVE n + 1 \in T
  <2>1. n \in Nat /\ n + 1 \in Nat
    OBVIOUS
  <2>2. ASSUME NEW span \in D, Cap - span <= n + 1 PROVE Right(span)
    <3>1. span < Cap => wider(span) \in D /\ Cap - wider(span) <= n
      BY <1>1, <1>2, <1>4, <2>1, <2>2
    <3> QED
      BY <1>11, <3>1
  <2> QED
    BY <2>1, <2>2
<1>14. 1 \in D
  BY <1>1 DEF D
<1>15. Right(1)
  <2>1. T \in SUBSET Nat
    OBVIOUS
  <2>2. Cap \in T
    <3> HIDE DEF T
    <3> QED
      BY <1>1, <1>12, <1>13, <2>1, CountingUp
  <2> QED
    BY <1>1, <1>14, <2>2
<1>16. CASE at - earliest < Cap
  <2>1. PICK k \in D : w[1] = LabelsBack(at, k) /\ Low(at, k) <= earliest
    BY <1>15, <1>16 DEF Right
  <2>2. k \in Nat \ {0}
    BY <1>4
  <2>3. w[1] = Low(at, k)..at /\ Low(at, k) \in 1..at
    BY <1>1, <2>1, <2>2, LabelsBackIs
  <2>4. w[1] \in SUBSET Labels
    BY <1>1, <2>3 DEF Labels
  <2>5. w[1] # None
    BY <2>4, CarryAssumption
  <2>6. {l \in Low(at, k)..at : l >= earliest} = earliest..at
    BY <1>1, <2>1, <2>3
  <2> QED
    BY <1>6, <1>16, <2>3, <2>5, <2>6
<1>17. CASE ~(at - earliest < Cap)
  BY <1>6, <1>15, <1>17 DEF Right
<1> QED
  BY <1>16, <1>17

(***************************************************************************)
(* What a snapshot calls for (carry.py).                                   *)
(***************************************************************************)

Ops == [coord : Coords, row : Rows \union {None}, insert : BOOLEAN]
Board == [Coords -> Rows \union {None}]

LEMMA LabelsAre ==
  ASSUME NEW keys \in SUBSET Coords, NEW s \in Subjects
  PROVE  /\ LabelsOf(keys, s) \in SUBSET Labels
         /\ \A l \in Labels : l \in LabelsOf(keys, s) <=> <<s, l>> \in keys
  BY DEF LabelsOf, Coords

\* The first of some buckets is one of them.
LEMMA FirstIs ==
  ASSUME NEW anchors \in SUBSET Labels, anchors # {}
  PROVE  Min(anchors) \in anchors /\ Min(anchors) \in Labels /\ \A a \in anchors : Min(anchors) <= a
<1>1. anchors \in SUBSET Nat
  BY CarryAssumption DEF Labels
<1> QED
  BY <1>1, LeastNatural

\* The change that governs a bucket is the latest at or before it.
LEMMA GoverningIs ==
  ASSUME NEW anchors \in SUBSET Labels, NEW l \in Labels, NEW first \in anchors, first <= l
  PROVE  /\ Max({a \in anchors : a <= l}) \in anchors
         /\ Max({a \in anchors : a <= l}) <= l
         /\ l \in anchors => Max({a \in anchors : a <= l}) = l
         /\ Governing(anchors, l) = Max({a \in anchors : a <= l})
<1> DEFINE R == {a \in anchors : a <= l}
           Z == {0} \union {a \in anchors : a <= l}
<1>1. Labels \in SUBSET Nat /\ IsFiniteSet(Labels)
  <2>1. LastLabel \in Nat /\ 1 \in Int /\ LastLabel \in Int
    BY CarryAssumption
  <2>2. IsFiniteSet(1..LastLabel)
    BY <2>1, FS_Interval
  <2> QED
    BY <2>1, <2>2 DEF Labels
<1>2. R \in SUBSET Nat /\ R # {} /\ IsFiniteSet(R)
  BY <1>1, FS_Subset
<1>3. Max(R) \in R /\ \A a \in R : a <= Max(R)
  <2> HIDE DEF R
  <2> QED
    BY <1>2, GreatestNatural
<1>4. PICK m \in R : m = Max(R) /\ \A a \in R : a <= m
  BY <1>3
<1>5. Z \in SUBSET Int /\ m \in Z /\ \A a \in Z : a <= m
  <2>1. m \in Nat /\ \A a \in R : a \in Nat
    BY <1>2, <1>4
  <2> QED
    <3>1. Z = {0} \union R
      OBVIOUS
    <3> HIDE DEF Z, R
    <3>2. m \in R /\ m \in Nat
      BY <1>4, <2>1
    <3> QED
      BY <1>4, <2>1, <3>1, <3>2
<1>6. Max(Z) = m
  <2> HIDE DEF Z
  <2> QED
    BY <1>5, GreatestIs
<1>7. l \in anchors => m = l
  BY <1>1, <1>4
<1> QED
  BY <1>4, <1>6, <1>7 DEF Governing

\* What is carried to a bucket: the row of the change that governs it.
Carried(held, keys, s, l) ==
  IF l < Min(LabelsOf(keys, s)) THEN None
  ELSE held[<<s, Max({a \in LabelsOf(keys, s) : a <= l})>>]

\* One subject's writes, where there are any.
LEMMA WantedIs ==
  ASSUME NEW held \in Board, NEW keys \in SUBSET Coords, NEW s \in Subjects, NEW at \in Labels
  PROVE  /\ Anchors(held, keys, s) \in SUBSET LabelsOf(keys, s)
         /\ Wanted(held, keys, s, at) =
              IF Anchors(held, keys, s) = {} \/ at - Min(Anchors(held, keys, s)) >= Cap THEN {}
              ELSE Removals(held, s, {}, Min(Anchors(held, keys, s)))
                   \union {w \in Carries(held, s, Anchors(held, keys, s),
                                          (Min(Anchors(held, keys, s))..at) \ LabelsOf(keys, s)) :
                             w.row # held[w.coord]}
<1>1. PICK labels : labels = LabelsOf(keys, s)
  OBVIOUS
<1>2. PICK anchors : anchors = Anchors(held, keys, s)
  OBVIOUS
<1>3. PICK first : first = Min(anchors)
  OBVIOUS
<1>4. PICK q : q = SequenceToPresent(first, at)
  OBVIOUS
<1>5. anchors \in SUBSET labels
  BY <1>1, <1>2 DEF Anchors
<1>6. Removals(held, s, q, first) = Removals(held, s, {}, first)
  BY DEF Removals, Retired
<1>7. Wanted(held, keys, s, at) =
        IF anchors = {} \/ q = None THEN {}
        ELSE Removals(held, s, {}, first)
             \union {w \in Carries(held, s, anchors, q \ labels) : w.row # held[w.coord]}
  BY <1>1, <1>2, <1>3, <1>4, <1>6 DEF Wanted
<1>8. CASE anchors = {}
  BY <1>1, <1>2, <1>5, <1>7, <1>8
<1>9. CASE anchors # {}
  <2>1. first \in Labels
    BY <1>1, <1>3, <1>5, <1>9, LabelsAre, FirstIs
  <2>2. q = IF at - first < Cap THEN first..at ELSE None
    BY <1>4, <2>1, SequenceIs
  <2>3. at \in Int /\ first \in Int /\ Cap \in Int /\ first >= 1 /\ at <= LastLabel /\ LastLabel \in Int
    BY <2>1, CarryAssumption DEF Labels
  <2>4. first..at # None
    <3>1. first..at \in SUBSET Labels
      BY <2>3 DEF Labels
    <3> QED
      BY <3>1, CarryAssumption
  <2>5. q = None <=> at - first >= Cap
    BY <2>2, <2>3, <2>4
  <2>6. CASE at - first >= Cap
    BY <1>1, <1>2, <1>3, <1>5, <1>7, <2>5, <2>6
  <2>7. CASE ~(at - first >= Cap)
    <3>1. q = first..at
      BY <2>2, <2>3, <2>7
    <3> QED
      BY <1>1, <1>2, <1>3, <1>5, <1>7, <1>9, <2>5, <2>7, <3>1
  <2> QED
    BY <2>6, <2>7
<1> QED
  BY <1>8, <1>9

\* A write is of a bucket nobody changed anything in, not ahead of the instant.
LEMMA WantedShape ==
  ASSUME NEW held \in Board, NEW keys \in SUBSET Coords, NEW s \in Subjects, NEW at \in Labels,
         NEW w \in Wanted(held, keys, s, at)
  PROVE  /\ w \in Ops /\ w.coord[1] = s /\ w.coord \notin keys
         /\ w.row # None => w.coord[2] <= at
<1>1. PICK labels : labels = LabelsOf(keys, s)
  OBVIOUS
<1>2. PICK anchors : anchors = Anchors(held, keys, s)
  OBVIOUS
<1>3. PICK first : first = Min(anchors)
  OBVIOUS
<1>4. /\ anchors # {} /\ ~(at - first >= Cap)
      /\ w \in Removals(held, s, {}, first)
               \union {v \in Carries(held, s, anchors, (first..at) \ labels) : v.row # held[v.coord]}
  BY <1>1, <1>2, <1>3, WantedIs
<1>5. /\ labels \in SUBSET Labels /\ anchors \in SUBSET Labels
      /\ \A l \in Labels : l \in labels <=> <<s, l>> \in keys
      /\ \A l \in labels : held[<<s, l>>] # None => l \in anchors
  BY <1>1, <1>2, LabelsAre DEF Anchors
<1>6. first \in anchors /\ first \in Labels /\ \A a \in anchors : first <= a
  BY <1>3, <1>4, <1>5, FirstIs
<1>7. at \in Int /\ first \in Int /\ LastLabel \in Nat /\ Labels \in SUBSET Int
  BY <1>6, CarryAssumption DEF Labels
<1>8. CASE w \in Removals(held, s, {}, first)
  <2>1. PICK c \in Retired(held, s, {}, first) : w = [coord |-> c, row |-> None, insert |-> FALSE]
    BY <1>8 DEF Removals
  <2>2. c \in Coords /\ c[1] = s /\ c[2] < first /\ held[c] # None
    BY <2>1 DEF Retired
  <2>3. c = <<s, c[2]>> /\ c[2] \in Labels
    BY <2>2 DEF Coords
  <2>4. c[2] \notin labels
    <3> SUFFICES ASSUME c[2] \in labels PROVE FALSE
      OBVIOUS
    <3>1. PICK l : l = c[2]
      OBVIOUS
    <3>2. held[<<s, l>>] # None /\ l \in labels /\ l < first
      BY <2>2, <2>3, <3>1
    <3>3. first <= l /\ l \in Int
      BY <1>5, <1>6, <1>7, <3>2
    <3> QED
      BY <1>7, <3>2, <3>3
  <2> QED
    BY <1>5, <2>1, <2>2, <2>3, <2>4 DEF Ops
<1>9. CASE w \in Carries(held, s, anchors, (first..at) \ labels)
  <2>1. PICK l \in (first..at) \ labels :
          w = [coord |-> <<s, l>>, row |-> held[<<s, Governing(anchors, l)>>], insert |-> held[<<s, l>>] = None]
    BY <1>9 DEF Carries
  <2>2. l \in Labels /\ first <= l /\ l <= at
    BY <1>6, <1>7, <2>1 DEF Labels
  <2>3. PICK g : g = Governing(anchors, l)
    OBVIOUS
  <2>4. g \in anchors
    <3>1. PICK m : m = Max({a \in anchors : a <= l})
      OBVIOUS
    <3>2. anchors \in SUBSET Labels /\ l \in Labels /\ first \in anchors /\ first <= l
      BY <1>5, <1>6, <2>2
    <3>3. Max({a \in anchors : a <= l}) \in anchors /\ Governing(anchors, l) = Max({a \in anchors : a <= l})
      BY ONLY <3>2, GoverningIs
    <3>4. m \in anchors /\ Governing(anchors, l) = m
      BY ONLY <3>1, <3>3
    <3> QED
      BY <2>3, <3>4
  <2>5. <<s, l>> \in Coords /\ <<s, g>> \in Coords
    BY <1>5, <2>2, <2>4 DEF Coords
  <2>6. held[<<s, g>>] \in Rows \union {None}
    BY <2>5 DEF Board
  <2> QED
    BY <1>5, <2>1, <2>2, <2>3, <2>5, <2>6 DEF Ops
<1> QED
  BY <1>4, <1>8, <1>9

\* Where every change is computed, each write carries what governs its bucket, and
\* within reach no bucket that says otherwise is passed over.
LEMMA WantedRight ==
  ASSUME NEW held \in Board, NEW keys \in SUBSET Coords, NEW s \in Subjects, NEW at \in Labels,
         LabelsOf(keys, s) # {}, \A l \in LabelsOf(keys, s) : held[<<s, l>>] # None
  PROVE  /\ \A w \in Wanted(held, keys, s, at) :
              /\ w.row = Carried(held, keys, s, w.coord[2])
              /\ w.insert => held[w.coord] = None
         /\ at - Min(LabelsOf(keys, s)) < Cap =>
              \A l \in Labels : l < Min(LabelsOf(keys, s)) \/ l <= at =>
                \/ held[<<s, l>>] = Carried(held, keys, s, l)
                \/ \E w \in Wanted(held, keys, s, at) :
                     w.coord = <<s, l>> /\ w.row = Carried(held, keys, s, l)
<1>1. PICK labels : labels = LabelsOf(keys, s)
  OBVIOUS
<1>2. labels = Anchors(held, keys, s) /\ labels # {}
  BY <1>1 DEF Anchors
<1>3. PICK first : first = Min(labels)
  OBVIOUS
<1>4. Wanted(held, keys, s, at) =
        IF at - first >= Cap THEN {}
        ELSE Removals(held, s, {}, first)
             \union {w \in Carries(held, s, labels, (first..at) \ labels) : w.row # held[w.coord]}
  <2>1. PICK anchors : anchors = Anchors(held, keys, s)
    OBVIOUS
  <2>2. Wanted(held, keys, s, at) =
          IF anchors = {} \/ at - Min(anchors) >= Cap THEN {}
          ELSE Removals(held, s, {}, Min(anchors))
               \union {w \in Carries(held, s, anchors, (Min(anchors)..at) \ labels) : w.row # held[w.coord]}
    BY <1>1, <2>1, WantedIs, ZenonT(40)
  <2>3. anchors = labels
    BY <1>2, <2>1
  <2> QED
    BY <1>2, <1>3, <2>2, <2>3
<1>5. labels \in SUBSET Labels
  BY <1>1, LabelsAre
<1>6. first \in labels /\ first \in Labels /\ \A a \in labels : first <= a
  BY <1>2, <1>3, <1>5, FirstIs
<1>7. at \in Int /\ first \in Int /\ LastLabel \in Nat /\ Labels \in SUBSET Int /\ Cap \in Int
  BY <1>6, CarryAssumption DEF Labels
<1>8. \A l \in Labels : first <= l =>
        /\ Carried(held, keys, s, l) = held[<<s, Governing(labels, l)>>]
        /\ l \in labels => Carried(held, keys, s, l) = held[<<s, l>>]
  <2> TAKE l \in Labels
  <2> HAVE first <= l
  <2>1. PICK g : g = Max({a \in labels : a <= l})
    OBVIOUS
  <2>2. Governing(labels, l) = g /\ (l \in labels => g = l)
    BY <1>5, <1>6, <2>1, GoverningIs, SMTT(30)
  <2>3. ~(l < first)
    BY <1>7
  <2>4. Carried(held, keys, s, l) = held[<<s, g>>]
    BY <1>1, <1>3, <2>1, <2>3 DEF Carried
  <2> QED
    BY <2>2, <2>4
<1>9. \A l \in Labels : l < first => Carried(held, keys, s, l) = None
  BY <1>1, <1>3 DEF Carried
<1>10. ASSUME NEW w \in Wanted(held, keys, s, at)
       PROVE  w.row = Carried(held, keys, s, w.coord[2]) /\ (w.insert => held[w.coord] = None)
  <2>1. CASE w \in Removals(held, s, {}, first)
    <3>1. PICK c \in Retired(held, s, {}, first) : w = [coord |-> c, row |-> None, insert |-> FALSE]
      BY <2>1 DEF Removals
    <3>2. c \in Coords /\ c[2] < first
      BY <3>1 DEF Retired
    <3> QED
      BY <1>9, <3>1, <3>2 DEF Coords
  <2>2. CASE w \in Carries(held, s, labels, (first..at) \ labels)
    <3>1. PICK l \in (first..at) \ labels :
            w = [coord |-> <<s, l>>, row |-> held[<<s, Governing(labels, l)>>], insert |-> held[<<s, l>>] = None]
      BY <2>2 DEF Carries
    <3>2. l \in Labels /\ first <= l
      BY <1>6, <1>7, <3>1 DEF Labels
    <3> QED
      BY <1>8, <3>1, <3>2
  <2> QED
    BY <1>4, <2>1, <2>2
<1>11. ASSUME at - first < Cap, NEW l \in Labels, l < first \/ l <= at
       PROVE  \/ held[<<s, l>>] = Carried(held, keys, s, l)
              \/ \E w \in Wanted(held, keys, s, at) :
                   w.coord = <<s, l>> /\ w.row = Carried(held, keys, s, l)
  <2>1. /\ Wanted(held, keys, s, at) =
             Removals(held, s, {}, first)
             \union {w \in Carries(held, s, labels, (first..at) \ labels) : w.row # held[w.coord]}
        /\ <<s, l>> \in Coords
    BY <1>4, <1>7, <1>11 DEF Coords
  <2>2. CASE l < first
    <3> DEFINE w == [coord |-> <<s, l>>, row |-> None, insert |-> FALSE]
    <3>1. CASE held[<<s, l>>] # None
      <4>1. <<s, l>> \in Retired(held, s, {}, first)
        BY <2>1, <2>2, <3>1 DEF Retired
      <4>2. w \in Removals(held, s, {}, first)
        BY <4>1 DEF Removals
      <4> QED
        BY <1>9, <2>1, <2>2, <4>2
    <3> QED
      BY <1>9, <2>2, <3>1
  <2>3. CASE ~(l < first) /\ l \in labels
    <3>1. first <= l
      BY <1>7, <2>3
    <3> QED
      BY <1>8, <2>3, <3>1
  <2>4. CASE ~(l < first) /\ l \notin labels /\ held[<<s, l>>] # Carried(held, keys, s, l)
    <3> DEFINE w == [coord |-> <<s, l>>, row |-> held[<<s, Governing(labels, l)>>],
                     insert |-> held[<<s, l>>] = None]
    <3>1. l \in (first..at) \ labels /\ first <= l
      BY <1>7, <1>11, <2>4
    <3>2. w \in Carries(held, s, labels, (first..at) \ labels)
      BY <3>1 DEF Carries
    <3>3. w.row = Carried(held, keys, s, l)
      BY <1>8, <3>1
    <3>4. w \in Wanted(held, keys, s, at)
      BY <2>1, <2>4, <3>2, <3>3
    <3> QED
      BY <3>3, <3>4
  <2> QED
    BY <2>2, <2>3, <2>4
<1> QED
  BY <1>1, <1>3, <1>10, <1>11

LEMMA MaterialiseShape ==
  ASSUME NEW held \in Board, NEW keys \in SUBSET Coords, NEW at \in Labels,
         NEW w \in Materialise(held, keys, at)
  PROVE  /\ w \in Ops /\ w.coord \notin keys
         /\ w.row # None => w.coord[2] <= at
         /\ w \in Wanted(held, keys, w.coord[1], at)
<1>1. PICK s \in Subjects : w \in Wanted(held, keys, s, at)
  BY DEF Materialise
<1>2. w \in Ops /\ w.coord[1] = s /\ w.coord \notin keys /\ (w.row # None => w.coord[2] <= at)
  BY <1>1, WantedShape
<1> QED
  BY <1>1, <1>2

(***************************************************************************)
(* Types, and what each filler and the pass hold.                          *)
(***************************************************************************)

Fills == [pc : {"off", "held", "keys", "write"}, at : Labels \union {None},
          held : Board \union {None}, ops : SUBSET Ops]
Passes == [pc : {"idle", "file", "recompute", "carry"}, touched : SUBSET Coords,
           record : Records \union {None}, full : BOOLEAN]

Typed ==
  /\ fact \in [Records -> Facts \union {None}] /\ index \in SUBSET (Records \X Coords)
  /\ row \in Board /\ told \in [Coords -> Values \union {None}]
  /\ now \in Labels /\ pass \in Passes /\ fill \in [Fillers -> Fills]
  /\ raced \in SUBSET Readers /\ dirty \in BOOLEAN
  /\ spoiled \in SUBSET Coords /\ filled \in SUBSET Coords /\ stranded \in SUBSET Coords

\* A filed record says something, but for the one being filed anew; a filler that
\* is under way has an instant, a snapshot while it needs one, writes once it has
\* worked them out.
Formed ==
  /\ \A e \in index : fact[e[1]] \in Facts \/ (pass.pc = "file" /\ pass.record = e[1])
  /\ pass.pc = "file" => pass.record \in Records
  /\ \A x \in Fillers :
       /\ fill[x].pc # "off" => fill[x].at \in Labels
       /\ fill[x].pc = "keys" => fill[x].held \in Board
       /\ fill[x].pc # "write" => fill[x].ops = {}

Holds(c) == {e[1] : e \in {x \in index : x[2] = c}}

LEMMA HoldsIs ==
  ASSUME Typed, NEW c
  PROVE  /\ Holds(c) \in SUBSET Records
         /\ Holds(c) # {} => Max(Holds(c)) \in Holds(c)
         /\ \A r \in Holds(c) : <<r, c>> \in index
<1>1. Holds(c) \in SUBSET Records /\ \A r \in Holds(c) : <<r, c>> \in index
  BY DEF Holds, Typed
<1>2. Holds(c) # {} => Max(Holds(c)) \in Holds(c)
  <2>1. Holds(c) \in SUBSET Nat /\ IsFiniteSet(Holds(c))
    BY <1>1, CarryAssumption, FS_Subset
  <2> QED
    BY <2>1, GreatestNatural
<1> QED
  BY <1>1, <1>2

\* What a bucket says is a row, once no record is being filed.
LEMMA EvaluateIs ==
  ASSUME Typed, Formed, pass.pc # "file", NEW c \in Coords
  PROVE  Evaluate(c) \in Rows /\ Evaluate(c) # None
<1>1. Evaluate(c) = IF Holds(c) = {} THEN [value |-> None, members |-> {}]
                    ELSE [value |-> fact[Max(Holds(c))].value, members |-> {Max(Holds(c))}]
  BY DEF Evaluate, Holds
<1>2. PICK m : m = Max(Holds(c))
  OBVIOUS
<1>3. Holds(c) # {} => m \in Records /\ fact[m] \in Facts
  <2> SUFFICES ASSUME Holds(c) # {} PROVE m \in Records /\ fact[m] \in Facts
    OBVIOUS
  <2>1. m \in Holds(c) /\ m \in Records
    BY <1>2, HoldsIs
  <2>2. <<m, c>> \in index
    BY <2>1, HoldsIs
  <2>3. PICK e \in index : e = <<m, c>>
    BY <2>2
  <2>4. fact[e[1]] \in Facts
    BY DEF Formed
  <2> QED
    BY <2>1, <2>3, <2>4
<1>4. Evaluate(c) \in Rows
  BY <1>1, <1>2, <1>3 DEF Rows, Facts
<1> QED
  BY <1>4, CarryAssumption

LEMMA OffIs == Off \in Fills /\ Off.pc = "off" /\ Off.ops = {}
  BY DEF Off, Fills

LEMMA CoordsIs == \A c \in Coords : c[1] \in Subjects /\ c[2] \in Labels /\ c = <<c[1], c[2]>>
  BY DEF Coords

\* A filler's instant is never ahead of the clock.
LEMMA FillAtIs ==
  ASSUME now \in Labels, NEW asked \in Labels
  PROVE  FillAt(asked) \in Labels /\ FillAt(asked) <= now
<1> DEFINE S == {asked, now}
<1>1. S \in SUBSET Nat /\ S # {} /\ now \in S /\ S \in SUBSET Labels
  BY CarryAssumption DEF Labels
<1>2. Min(S) \in S /\ Min(S) <= now
  <2> HIDE DEF S
  <2> QED
    BY <1>1, LeastNatural
<1> QED
  BY <1>1, <1>2 DEF FillAt

LEMMA KeysAre == ASSUME Typed PROVE Keys \in SUBSET Coords
  BY DEF Typed, Keys

\* The next state of one filler, whatever else the step does.
LEMMA FillStep ==
  ASSUME Typed, Formed, NEW x \in Fillers, NEW g \in Fills, fill' = [fill EXCEPT ![x] = g],
         g.pc # "off" => g.at \in Labels, g.pc = "keys" => g.held \in Board, g.pc # "write" => g.ops = {}
  PROVE  /\ fill' \in [Fillers -> Fills]
         /\ fill'[x] = g /\ \A y \in Fillers \ {x} : fill'[y] = fill[y]
         /\ \A y \in Fillers :
              /\ fill'[y].pc # "off" => fill'[y].at \in Labels
              /\ fill'[y].pc = "keys" => fill'[y].held \in Board
              /\ fill'[y].pc # "write" => fill'[y].ops = {}
<1>1. fill \in [Fillers -> Fills]
  BY DEF Typed
<1>2. fill' \in [Fillers -> Fills]
  BY <1>1
<1>3. fill'[x] = g /\ \A y \in Fillers \ {x} : fill'[y] = fill[y]
  BY <1>1
<1>4. ASSUME NEW y \in Fillers
      PROVE  /\ fill'[y].pc # "off" => fill'[y].at \in Labels
             /\ fill'[y].pc = "keys" => fill'[y].held \in Board
             /\ fill'[y].pc # "write" => fill'[y].ops = {}
  BY <1>3 DEF Formed
<1> QED
  BY <1>2, <1>3, <1>4

\* What the steps of a filler make of it.
HeldAt(t) == [Off EXCEPT !.pc = "held", !.at = t]
WithRows(f) == [f EXCEPT !.pc = "keys", !.held = row]
WithOps(f) == [f EXCEPT !.pc = "write", !.held = None, !.ops = Materialise(f.held, Keys, f.at)]
Less(f, w) == [f EXCEPT !.ops = @ \ {w}]

LEMMA FillersAre ==
  ASSUME Typed, Formed, NEW x \in Fillers
  PROVE  /\ \A t \in Labels :
              HeldAt(t) \in Fills /\ HeldAt(t).pc = "held" /\ HeldAt(t).at = t /\ HeldAt(t).ops = {}
         /\ fill[x].pc = "held" =>
              /\ WithRows(fill[x]) \in Fills /\ WithRows(fill[x]).pc = "keys"
              /\ WithRows(fill[x]).at = fill[x].at /\ WithRows(fill[x]).held = row
              /\ WithRows(fill[x]).ops = {}
         /\ fill[x].pc = "keys" =>
              /\ WithOps(fill[x]) \in Fills /\ WithOps(fill[x]).pc = "write"
              /\ WithOps(fill[x]).at = fill[x].at
              /\ WithOps(fill[x]).ops = Materialise(fill[x].held, Keys, fill[x].at)
         /\ \A w : Less(fill[x], w) \in Fills /\ Less(fill[x], w).pc = fill[x].pc
                   /\ Less(fill[x], w).at = fill[x].at /\ Less(fill[x], w).ops = fill[x].ops \ {w}
                   /\ Less(fill[x], w).held = fill[x].held
<1>1. fill[x] \in Fills /\ row \in Board
  BY DEF Typed
<1>2. PICK f \in Fills : f = fill[x]
  BY <1>1
<1>3. \A t \in Labels :
        HeldAt(t) \in Fills /\ HeldAt(t).pc = "held" /\ HeldAt(t).at = t /\ HeldAt(t).ops = {}
  BY DEF HeldAt, Off, Fills
<1>4. fill[x].pc = "held" =>
        /\ WithRows(f) \in Fills /\ WithRows(f).pc = "keys" /\ WithRows(f).at = f.at
        /\ WithRows(f).held = row /\ WithRows(f).ops = {}
  BY <1>1, <1>2 DEF WithRows, Fills, Formed
<1>5. ASSUME fill[x].pc = "keys"
      PROVE  /\ WithOps(f) \in Fills /\ WithOps(f).pc = "write" /\ WithOps(f).at = f.at
             /\ WithOps(f).ops = Materialise(f.held, Keys, f.at)
  <2>1. f.held \in Board /\ f.at \in Labels /\ Keys \in SUBSET Coords
    BY <1>2, <1>5, KeysAre DEF Formed
  <2>2. PICK ops : ops = Materialise(f.held, Keys, f.at)
    OBVIOUS
  <2>3. ops \in SUBSET Ops
    BY <2>1, <2>2, MaterialiseShape
  <2>4. WithOps(f) = [f EXCEPT !.pc = "write", !.held = None, !.ops = ops]
    BY <2>2 DEF WithOps
  <2> QED
    BY <2>2, <2>3, <2>4 DEF Fills
<1>6. \A w : Less(f, w) \in Fills /\ Less(f, w).pc = f.pc /\ Less(f, w).at = f.at
             /\ Less(f, w).ops = f.ops \ {w} /\ Less(f, w).held = f.held
  BY DEF Less, Fills
<1> QED
  BY <1>2, <1>3, <1>4, <1>5, <1>6

\* Each step of a filler, as the next state of that one.
LEMMA FillMoves ==
  ASSUME Typed, Formed
  PROVE  /\ Extend => fill' = [fill EXCEPT ![Pass] = HeldAt(now)]
         /\ \A x \in Readers, asked \in Labels :
              Read(x, asked) => fill' = [fill EXCEPT ![x] = HeldAt(FillAt(asked))]
         /\ \A x \in Fillers :
              /\ TakeRows(x) => fill' = [fill EXCEPT ![x] = WithRows(fill[x])]
              /\ TakeKeys(x) => fill' = [fill EXCEPT ![x] = WithOps(fill[x])]
              /\ Filled(x) => fill' = [fill EXCEPT ![x] = Off]
              /\ \A w : Write(x, w) => fill' = [fill EXCEPT ![x] = Less(fill[x], w)]
<1>1. fill \in [Fillers -> Fills]
  BY DEF Typed
<1>2. Extend => fill' = [fill EXCEPT ![Pass] = HeldAt(now)]
  BY DEF Extend, HeldAt
<1>3. \A x \in Readers, asked \in Labels :
        Read(x, asked) => fill' = [fill EXCEPT ![x] = HeldAt(FillAt(asked))]
  BY DEF Read, HeldAt
<1>4. ASSUME NEW x \in Fillers
      PROVE  /\ TakeRows(x) => fill' = [fill EXCEPT ![x] = WithRows(fill[x])]
             /\ TakeKeys(x) => fill' = [fill EXCEPT ![x] = WithOps(fill[x])]
             /\ Filled(x) => fill' = [fill EXCEPT ![x] = Off]
             /\ \A w : Write(x, w) => fill' = [fill EXCEPT ![x] = Less(fill[x], w)]
  <2>1. fill[x] \in Fills
    BY <1>1
  <2>2. TakeRows(x) => fill' = [fill EXCEPT ![x] = WithRows(fill[x])]
    BY <1>1, <2>1 DEF TakeRows, WithRows, Fills
  <2>3. TakeKeys(x) => fill' = [fill EXCEPT ![x] = WithOps(fill[x])]
    <3>1. PICK ops : ops = Materialise(fill[x].held, Keys, fill[x].at)
      OBVIOUS
    <3> QED
      BY <1>1, <2>1, <3>1 DEF TakeKeys, WithOps, Fills
  <2>4. Filled(x) => fill' = [fill EXCEPT ![x] = Off]
    BY DEF Filled
  <2>5. \A w : Write(x, w) => fill' = [fill EXCEPT ![x] = Less(fill[x], w)]
    BY <1>1, <2>1 DEF Write, Less, Fills
  <2> QED
    BY <2>2, <2>3, <2>4, <2>5
<1> QED
  BY <1>2, <1>3, <1>4

\* A write under way, of a typed filler.
LEMMA WriteIs ==
  ASSUME Typed, Formed, NEW x \in Fillers, NEW w \in fill[x].ops
  PROVE  /\ w \in Ops /\ w.coord \in Coords /\ w.row \in Rows \union {None} /\ w.insert \in BOOLEAN
         /\ fill[x].pc = "write" /\ fill[x].at \in Labels
<1>1. fill[x] \in Fills
  BY DEF Typed
<1>2. w \in Ops
  BY <1>1 DEF Fills
<1> QED
  BY <1>1, <1>2 DEF Ops, Fills, Formed

LEMMA NumberIs == \A r \in Rows \union {None} : Number(r) \in Values \union {None}
  BY DEF Number, Rows

LEMMA Typing == Typed /\ Formed /\ [Next]_vars => Typed' /\ Formed'
<1> SUFFICES ASSUME Typed, Formed, [Next]_vars PROVE Typed' /\ Formed'
  OBVIOUS
<1> USE DEF Board
<1>1. ASSUME NEW r \in Records, NEW new \in Facts \union {None}, NEW full \in BOOLEAN, Post(r, new, full)
      PROVE  Typed' /\ Formed'
  <2>1. pass' \in Passes /\ pass'.pc = "file" /\ pass'.record = r
    BY <1>1 DEF Post, Passes
  <2>2. fact' \in [Records -> Facts \union {None}] /\ \A q \in Records : q # r => fact'[q] = fact[q]
    BY <1>1 DEF Post, Typed
  <2>3. raced' \in SUBSET Readers
    BY <1>1 DEF Post, Typed, Overlapped
  <2>4. Typed'
    BY <1>1, <2>1, <2>2, <2>3 DEF Post, Typed, history
  <2>5. \A e \in index' : fact'[e[1]] \in Facts \/ (pass'.pc = "file" /\ pass'.record = e[1])
    BY <1>1, <2>1, <2>2 DEF Post, Typed, Formed, PassRuns
  <2>6. Formed'
    BY <1>1, <2>1, <2>5 DEF Post, Formed
  <2> QED
    BY <2>4, <2>6
<1>2. CASE File
  <2>1. PICK r \in Records : r = pass.record
    BY <1>2 DEF File, Formed
  <2>2. Filing(r) \in SUBSET (Records \X Coords)
        /\ \A e \in Filing(r) : fact[r] \in Facts /\ e[1] = r
    BY <2>1 DEF Filing, Typed, Facts, Coords
  <2> DEFINE left == {e \in index : e[1] = r}
  <2>3. index' = (index \ left) \union Filing(r)
    BY <1>2, <2>1 DEF File
  <2>4. index' \in SUBSET (Records \X Coords) /\ left \in SUBSET (Records \X Coords)
    BY <2>2, <2>3 DEF Typed
  <2>5. \A e \in index' : fact[e[1]] \in Facts
    <3> TAKE e \in index'
    <3>1. CASE e \in index \ left
      BY <2>1, <3>1 DEF Formed
    <3>2. CASE e \in Filing(r)
      BY <2>2, <3>2
    <3> QED
      BY <2>3, <3>1, <3>2
  <2>6. PICK t : t = IF pass.full THEN {e[2] : e \in index'} ELSE {e[2] : e \in left \union Filing(r)}
    OBVIOUS
  <2>7. t \in SUBSET Coords
    BY <2>2, <2>4, <2>6
  <2>8. pass' = [pass EXCEPT !.pc = "recompute", !.touched = t]
    BY <1>2, <2>1, <2>6 DEF File
  <2>9. pass' \in Passes /\ pass'.pc = "recompute"
    BY <2>7, <2>8 DEF Typed, Passes
  <2>10. stranded' \in SUBSET Coords
    <3>1. PICK a : a = {c \in {e[2] : e \in left} : c[2] > now}
      OBVIOUS
    <3>2. PICK k : k = {e[2] : e \in index'}
      OBVIOUS
    <3>3. stranded' = (stranded \union a) \ k
      BY <1>2, <2>1, <3>1, <3>2 DEF File
    <3>4. a \in SUBSET Coords
      BY <2>4, <3>1
    <3> QED
      BY <3>3, <3>4 DEF Typed
  <2>11. Typed'
    BY <1>2, <2>4, <2>9, <2>10 DEF File, Typed
  <2>12. Formed'
    BY <1>2, <2>5, <2>9 DEF File, Formed
  <2> QED
    BY <2>11, <2>12
<1>3. CASE Extend
  <2>1. HeldAt(now) \in Fills /\ HeldAt(now).pc = "held" /\ HeldAt(now).at = now /\ HeldAt(now).ops = {}
        /\ now \in Labels /\ Pass \in Fillers
    BY FillersAre DEF Typed, Fillers
  <2>2. fill' = [fill EXCEPT ![Pass] = HeldAt(now)]
    BY <1>3, FillMoves
  <2>3. pass' \in Passes /\ pass'.pc = "carry" /\ pass.pc = "recompute"
    BY <1>3 DEF Extend, Typed, Passes
  <2>4. PICK g \in Fills : g = HeldAt(now)
    BY <2>1
  <2>5. /\ fill' \in [Fillers -> Fills]
        /\ \A y \in Fillers :
              /\ fill'[y].pc # "off" => fill'[y].at \in Labels
              /\ fill'[y].pc = "keys" => fill'[y].held \in Board
              /\ fill'[y].pc # "write" => fill'[y].ops = {}
    <3> HIDE DEF Board
    <3> QED
      BY <2>1, <2>2, <2>4, FillStep
  <2>6. Typed'
    BY <1>3, <2>3, <2>5 DEF Extend, Typed, history
  <2>7. Formed'
    BY <1>3, <2>3, <2>5 DEF Extend, Formed
  <2> QED
    BY <2>6, <2>7
<1>4. CASE Return
  <2>1. pass' \in Passes /\ pass'.pc = "idle" /\ pass.pc = "carry"
    BY <1>4 DEF Return, Passes
  <2> QED
    BY <1>4, <2>1 DEF Return, Typed, Formed, history
<1>5. CASE Tick
  <2>1. now' \in Labels
    BY <1>5, CarryAssumption DEF Tick, Typed, Labels
  <2> QED
    BY <1>5, <2>1 DEF Tick, Typed, Formed, history
<1>6. ASSUME NEW c \in Coords, Recompute(c) PROVE Typed' /\ Formed'
  <2>1. Evaluate(c) \in Rows /\ pass.pc = "recompute"
    BY <1>6, EvaluateIs DEF Recompute
  <2>2. PICK e \in Rows : e = Evaluate(c)
    BY <2>1
  <2>3. row' = [row EXCEPT ![c] = e] /\ row' \in Board
    BY <1>6, <2>2 DEF Recompute, Typed
  <2>4. pass' \in Passes /\ pass'.pc = "recompute"
    BY <1>6 DEF Recompute, Typed, Passes
  <2>5. told' \in [Coords -> Values \union {None}] /\ filled' \in SUBSET Coords
    <3>1. Number(e) \in Values \union {None}
      BY NumberIs
    <3>2. Report(c, row[c], e)
      BY <1>6, <2>2 DEF Recompute
    <3> QED
      BY <3>1, <3>2 DEF Report, Typed
  <2>6. Typed'
    BY <1>6, <2>3, <2>4, <2>5 DEF Recompute, Typed
  <2>7. Formed'
    BY <1>6, <2>1, <2>4 DEF Recompute, Formed
  <2> QED
    BY <2>6, <2>7
<1>7. ASSUME NEW x \in Fillers, NEW g \in Fills, fill' = [fill EXCEPT ![x] = g],
             g.pc # "off" => g.at \in Labels, g.pc = "keys" => g.held \in Board, g.pc # "write" => g.ops = {},
             UNCHANGED <<fact, index, row, told, now, pass, spoiled, filled, stranded>>,
             raced' \in SUBSET Readers, dirty' \in BOOLEAN
      PROVE  Typed' /\ Formed'
  <2>1. /\ fill' \in [Fillers -> Fills]
        /\ \A y \in Fillers :
              /\ fill'[y].pc # "off" => fill'[y].at \in Labels
              /\ fill'[y].pc = "keys" => fill'[y].held \in Board
              /\ fill'[y].pc # "write" => fill'[y].ops = {}
    <3> HIDE DEF Board
    <3> QED
      BY <1>7, FillStep
  <2>2. Typed'
    BY <1>7, <2>1 DEF Typed
  <2>3. Formed'
    BY <1>7, <2>1 DEF Formed
  <2> QED
    BY <2>2, <2>3
<1>8. ASSUME NEW x \in Readers, NEW asked \in Labels, Read(x, asked) PROVE Typed' /\ Formed'
  <2>1. PICK t \in Labels : t = FillAt(asked)
    BY FillAtIs DEF Typed
  <2>2. PICK g : g = HeldAt(t)
    OBVIOUS
  <2>3. g \in Fills /\ g.pc = "held" /\ g.at = t /\ g.ops = {} /\ x \in Fillers
    BY <2>2, FillersAre DEF Fillers
  <2>4. fill' = [fill EXCEPT ![x] = g]
    BY <1>8, <2>1, <2>2, FillMoves
  <2>5. /\ UNCHANGED <<fact, index, row, told, now, pass, spoiled, filled, stranded>>
        /\ raced' \in SUBSET Readers /\ dirty' \in BOOLEAN
    BY <1>8 DEF Read, Typed
  <2> QED
    BY <1>7, <2>3, <2>4, <2>5
<1>9. ASSUME NEW x \in Fillers, TakeRows(x) PROVE Typed' /\ Formed'
  <2>1. PICK g : g = WithRows(fill[x])
    OBVIOUS
  <2>2. g \in Fills /\ g.pc = "keys" /\ g.at = fill[x].at /\ g.held = row /\ g.ops = {} /\ g.at \in Labels
    BY <1>9, <2>1, FillersAre DEF TakeRows, Formed
  <2>3. fill' = [fill EXCEPT ![x] = g]
    BY <1>9, <2>1, FillMoves
  <2>4. /\ UNCHANGED <<fact, index, row, told, now, pass, spoiled, filled, stranded>>
        /\ raced' \in SUBSET Readers /\ dirty' \in BOOLEAN /\ row \in Board
    BY <1>9 DEF TakeRows, Typed
  <2> QED
    BY <1>7, <2>2, <2>3, <2>4
<1>10. ASSUME NEW x \in Fillers, TakeKeys(x) PROVE Typed' /\ Formed'
  <2>1. PICK g : g = WithOps(fill[x])
    OBVIOUS
  <2>2. g \in Fills /\ g.pc = "write" /\ g.at \in Labels
    BY <1>10, <2>1, FillersAre DEF TakeKeys, Formed
  <2>3. fill' = [fill EXCEPT ![x] = g]
    BY <1>10, <2>1, FillMoves
  <2>4. /\ UNCHANGED <<fact, index, row, told, now, pass, spoiled, filled, stranded>>
        /\ raced' \in SUBSET Readers /\ dirty' \in BOOLEAN
    BY <1>10 DEF TakeKeys, Typed, history
  <2> QED
    BY <1>7, <2>2, <2>3, <2>4
<1>11. ASSUME NEW x \in Fillers, Filled(x) PROVE Typed' /\ Formed'
  <2>1. fill' = [fill EXCEPT ![x] = Off]
    BY <1>11, FillMoves
  <2>2. /\ UNCHANGED <<fact, index, row, told, now, pass, spoiled, filled, stranded>>
        /\ raced' \in SUBSET Readers /\ dirty' \in BOOLEAN
    BY <1>11 DEF Filled, Typed
  <2> QED
    BY <1>7, <2>1, <2>2, OffIs
<1>12. ASSUME NEW x \in Fillers, NEW w \in fill[x].ops, Write(x, w) PROVE Typed' /\ Formed'
  <2>1. w.coord \in Coords /\ w.row \in Rows \union {None} /\ fill[x].pc = "write" /\ fill[x].at \in Labels
    BY WriteIs
  <2>2. PICK g : g = Less(fill[x], w)
    OBVIOUS
  <2>3. g \in Fills /\ g.pc = "write" /\ g.at \in Labels
    BY <2>1, <2>2, FillersAre
  <2>4. fill' = [fill EXCEPT ![x] = g]
    BY <1>12, <2>2, FillMoves
  <2>5. /\ fill' \in [Fillers -> Fills]
        /\ \A y \in Fillers :
              /\ fill'[y].pc # "off" => fill'[y].at \in Labels
              /\ fill'[y].pc = "keys" => fill'[y].held \in Board
              /\ fill'[y].pc # "write" => fill'[y].ops = {}
    <3> HIDE DEF Board
    <3> QED
      BY <2>3, <2>4, FillStep
  <2>6. PICK c \in Coords : c = w.coord
    BY <2>1
  <2>7. PICK v \in Rows \union {None} : v = w.row
    BY <2>1
  <2>8. row' \in Board
    <3>1. row[c] \in Rows \union {None}
      BY DEF Typed
    <3>2. PICK after \in Rows \union {None} : row' = [row EXCEPT ![c] = after]
      BY <1>12, <2>6, <2>7, <3>1 DEF Write
    <3> QED
      BY <3>2 DEF Typed
  <2>9. told' \in [Coords -> Values \union {None}]
    <3>1. PICK n \in Values \union {None} : n = Number(v)
      BY NumberIs
    <3>2. told' = told \/ told' = [told EXCEPT ![c] = n]
      BY <1>12, <2>6, <2>7, <3>1 DEF Write
    <3> QED
      BY <3>2 DEF Typed
  <2>10. stranded' \in SUBSET Coords /\ filled' \in SUBSET Coords /\ spoiled' \in SUBSET Coords
         /\ dirty' \in BOOLEAN
    BY <1>12, <2>1 DEF Write, Typed
  <2>11. UNCHANGED <<fact, index, now, pass, raced>>
    BY <1>12 DEF Write
  <2>12. Typed'
    BY <2>5, <2>8, <2>9, <2>10, <2>11 DEF Typed
  <2>13. Formed'
    BY <2>5, <2>11 DEF Formed
  <2> QED
    BY <2>12, <2>13
<1>13. CASE UNCHANGED vars
  BY <1>13 DEF vars, history, Typed, Formed
<1> QED
  BY <1>1, <1>2, <1>3, <1>4, <1>5, <1>6, <1>8, <1>9, <1>10, <1>11, <1>12, <1>13 DEF Next

(***************************************************************************)
(* The change stream keeps up.                                             *)
(***************************************************************************)

LEMMA InitTyped == Init => Typed /\ Formed
<1> SUFFICES ASSUME Init PROVE Typed /\ Formed
  OBVIOUS
<1>1. now \in Labels /\ fill = [x \in Fillers |-> Off] /\ index = {}
  BY DEF Init
<1>2. pass \in Passes /\ pass.pc = "idle"
  BY DEF Init, Passes
<1>3. fill \in [Fillers -> Fills]
  BY <1>1, OffIs
<1>4. Typed
  BY <1>1, <1>2, <1>3 DEF Init, Typed, Board
<1>5. Formed
  BY <1>1, <1>2, OffIs DEF Formed
<1> QED
  BY <1>4, <1>5

LEMMA Reporting == Typed /\ Formed /\ ReportsKeepUp /\ [Next]_vars => ReportsKeepUp'
<1> SUFFICES ASSUME Typed, Formed, ReportsKeepUp, [Next]_vars PROVE ReportsKeepUp'
  OBVIOUS
<1>1. row \in [Coords -> Rows \union {None}] /\ told \in [Coords -> Values \union {None}]
  BY DEF Typed, Board
<1>2. ASSUME NEW c \in Coords, Recompute(c) PROVE ReportsKeepUp'
  <2>1. PICK e : e = Evaluate(c)
    OBVIOUS
  <2>2. row' = [row EXCEPT ![c] = e] /\ Report(c, row[c], e)
    BY <1>2, <2>1 DEF Recompute
  <2>3. ASSUME NEW d \in Coords \ filled' PROVE told'[d] = Number(row'[d])
    <3>1. CASE d # c
      BY <1>1, <2>2, <2>3, <3>1 DEF Report, ReportsKeepUp
    <3>2. CASE d = c
      <4>1. row'[c] = e
        BY <1>1, <2>2
      <4>2. CASE Number(row[c]) # Number(e) \/ row[c] = None
        BY <1>1, <2>2, <3>2, <4>1, <4>2 DEF Report
      <4>3. CASE ~(Number(row[c]) # Number(e) \/ row[c] = None)
        <5>1. c \notin filled /\ told' = [told EXCEPT ![c] = @]
          BY <2>2, <2>3, <3>2, <4>3 DEF Report
        <5>2. told'[c] = Number(row[c])
          BY <1>1, <5>1 DEF ReportsKeepUp
        <5> QED
          BY <3>2, <4>1, <4>3, <5>2
      <4> QED
        BY <4>2, <4>3
    <3> QED
      BY <3>1, <3>2
  <2> QED
    BY <2>3 DEF ReportsKeepUp
<1>3. ASSUME NEW x \in Fillers, NEW w \in fill[x].ops, Write(x, w) PROVE ReportsKeepUp'
  <2>1. PICK c \in Coords : c = w.coord
    BY WriteIs
  <2>2. PICK v : v = w.row
    OBVIOUS
  <2>3. CASE w.insert /\ row[c] # None
    <3>1. row' = [row EXCEPT ![c] = row[c]] /\ told' = told
      BY <1>3, <2>1, <2>3 DEF Write
    <3>2. filled' = filled
      BY <1>3, <2>1, <2>3 DEF Write
    <3>3. row' = row
      BY <1>1, <3>1
    <3> QED
      BY <3>1, <3>2, <3>3 DEF ReportsKeepUp
  <2>4. CASE ~(w.insert /\ row[c] # None)
    <3>1. row' = [row EXCEPT ![c] = v]
      BY <1>3, <2>1, <2>2, <2>4 DEF Write
    <3>2. CASE x = Pass
      <4>1. told' = [told EXCEPT ![c] = Number(v)] /\ filled' = filled \ {c}
        BY <1>3, <2>1, <2>2, <2>4, <3>2 DEF Write
      <4> QED
        BY <1>1, <3>1, <4>1 DEF ReportsKeepUp
    <3>3. CASE x # Pass
      <4>1. told' = told /\ filled' = filled \union {c}
        BY <1>3, <2>1, <2>2, <2>4, <3>3 DEF Write
      <4> QED
        BY <1>1, <3>1, <4>1 DEF ReportsKeepUp
    <3> QED
      BY <3>2, <3>3
  <2> QED
    BY <2>3, <2>4
<1>4. UNCHANGED <<row, told, filled>> => ReportsKeepUp'
  BY DEF ReportsKeepUp
<1>5. ASSUME NEW r \in Records, NEW new \in Facts \union {None}, NEW full \in BOOLEAN, Post(r, new, full)
      PROVE  UNCHANGED <<row, told, filled>>
  BY <1>5 DEF Post
<1>6. File \/ Extend \/ Return \/ Tick \/ UNCHANGED vars => UNCHANGED <<row, told, filled>>
  BY DEF File, Extend, Return, Tick, vars, history
<1>7. ASSUME NEW x \in Readers, NEW asked \in Labels, Read(x, asked) PROVE UNCHANGED <<row, told, filled>>
  BY <1>7 DEF Read
<1>8. ASSUME NEW x \in Fillers, TakeRows(x) \/ TakeKeys(x) \/ Filled(x) PROVE UNCHANGED <<row, told, filled>>
  BY <1>8 DEF TakeRows, TakeKeys, Filled, history
<1> QED
  BY <1>2, <1>3, <1>4, <1>5, <1>6, <1>7, <1>8 DEF Next

\* Whatever is under way, a coordinate's readers and screens were told the number
\* it holds, unless a read was the one to fill it (what engine.py reports of a
\* recompute, and carry.py of a materialisation).
THEOREM ReportsHold == Spec => []ReportsKeepUp
<1>1. Init => Typed /\ Formed /\ ReportsKeepUp
  <2>1. Init => ReportsKeepUp
    BY DEF Init, ReportsKeepUp, Number
  <2> QED
    BY <2>1, InitTyped
<1>2. Typed /\ Formed /\ ReportsKeepUp /\ [Next]_vars => Typed' /\ Formed' /\ ReportsKeepUp'
  BY Typing, Reporting
<1> QED
  BY <1>1, <1>2, PTL DEF Spec

(***************************************************************************)
(* Who is under way, and what may lie ahead of the clock.                  *)
(***************************************************************************)

\* A pass materialises only where it carries; a read that is under way while a
\* pass is, is one the pass overlapped.
Turns ==
  /\ fill[Pass].pc # "off" => pass.pc = "carry" /\ fill[Pass].at = now
  /\ \A x \in raced : fill[x].pc # "off"
  /\ PassRuns => \A x \in Readers : fill[x].pc # "off" => x \in raced

\* A row ahead of the clock is a change's, or a change left it there.
Ahead ==
  /\ \A c \in Coords : c[2] > now /\ row[c] # None => c \in Keys \union stranded
  /\ pass.pc = "recompute" => \A c \in pass.touched : c[2] > now => c \in Keys \union stranded
  /\ \A x \in Fillers : fill[x].pc # "off" => fill[x].at <= now
  /\ \A x \in Fillers : \A w \in fill[x].ops : w.row # None => w.coord[2] <= fill[x].at

LEMMA PassIs == Pass \in Fillers /\ Pass \notin Readers /\ Fillers = Readers \union {Pass}
  BY CarryAssumption DEF Fillers

LEMMA TurnsHold == Typed /\ Formed /\ Turns /\ [Next]_vars => Turns'
<1> SUFFICES ASSUME Typed, Formed, Turns, [Next]_vars PROVE Turns'
  OBVIOUS
<1>0. raced \in SUBSET Readers /\ Pass \in Fillers /\ Pass \notin Readers /\ Readers \subseteq Fillers
      /\ Fillers = Readers \union {Pass}
  BY PassIs DEF Typed
<1>1. ASSUME NEW r \in Records, NEW new \in Facts \union {None}, NEW full \in BOOLEAN, Post(r, new, full)
      PROVE  Turns'
  <2>1. /\ fill' = fill /\ pass.pc = "idle" /\ raced' = raced \union Overlapped
    BY <1>1 DEF Post, PassRuns
  <2> QED
    BY <1>0, <2>1 DEF Turns, PassRuns, Overlapped
<1>2. CASE File
  <2>1. /\ fill' = fill /\ pass.pc = "file" /\ raced' = raced
    BY <1>2 DEF File
  <2> QED
    BY <1>0, <2>1 DEF Turns, PassRuns
<1>3. CASE Extend
  <2>1. fill' = [fill EXCEPT ![Pass] = HeldAt(now)]
    BY <1>3, FillMoves
  <2>2. HeldAt(now) \in Fills /\ HeldAt(now).pc = "held" /\ HeldAt(now).at = now /\ HeldAt(now).ops = {}
    BY FillersAre, PassIs DEF Typed
  <2>3. pass' = [pass EXCEPT !.pc = "carry"] /\ pass.pc = "recompute" /\ now' = now /\ raced' = raced
        /\ pass \in Passes
    BY <1>3 DEF Extend, history, Typed
  <2>4. fill'[Pass] = HeldAt(now) /\ \A y \in Fillers \ {Pass} : fill'[y] = fill[y]
    BY <2>1, <1>0 DEF Typed
  <2>5. pass'.pc = "carry"
    BY <2>3 DEF Passes
  <2> QED
    BY <1>0, <2>2, <2>3, <2>4, <2>5 DEF Turns, PassRuns
<1>4. CASE Return
  <2>1. fill' = fill /\ pass'.pc = "idle" /\ fill[Pass].pc = "off" /\ raced' = raced
    BY <1>4 DEF Return, history
  <2> QED
    BY <2>1 DEF Turns, PassRuns
<1>5. CASE Tick
  <2>1. fill' = fill /\ pass' = pass /\ pass.pc = "idle" /\ raced' = raced
    BY <1>5 DEF Tick, PassRuns, history
  <2> QED
    BY <2>1 DEF Turns, PassRuns
<1>6. ASSUME NEW c \in Coords, Recompute(c) PROVE Turns'
  <2>1. fill' = fill /\ pass.pc = "recompute" /\ raced' = raced
    BY <1>6 DEF Recompute
  <2> QED
    BY <1>0, <2>1 DEF Turns, PassRuns
<1>8. ASSUME NEW x \in Readers, NEW asked \in Labels, Read(x, asked) PROVE Turns'
  <2>1. PICK t \in Labels : t = FillAt(asked)
    BY FillAtIs DEF Typed
  <2>2. fill' = [fill EXCEPT ![x] = HeldAt(t)] /\ HeldAt(t).pc = "held" /\ x \in Fillers
    BY <1>0, <1>8, <2>1, FillMoves, FillersAre
  <2>3. fill'[x] = HeldAt(t) /\ \A y \in Fillers \ {x} : fill'[y] = fill[y]
    BY <2>2 DEF Typed
  <2>4. pass' = pass /\ now' = now /\ raced' = IF PassRuns THEN raced \union {x} ELSE raced
    BY <1>8 DEF Read
  <2> QED
    BY <1>0, <2>2, <2>3, <2>4 DEF Turns, PassRuns
<1>9. ASSUME NEW x \in Fillers, NEW g \in Fills, fill' = [fill EXCEPT ![x] = g],
             g.pc # "off", fill[x].pc # "off", g.at = fill[x].at, UNCHANGED <<pass, now, raced>>
      PROVE  Turns'
  <2>1. fill'[x] = g /\ \A y \in Fillers \ {x} : fill'[y] = fill[y]
    BY <1>9 DEF Typed
  <2> QED
    BY <1>0, <1>9, <2>1 DEF Turns, PassRuns
<1>10. ASSUME NEW x \in Fillers, TakeRows(x) PROVE Turns'
  <2>1. PICK g : g = WithRows(fill[x])
    OBVIOUS
  <2>2. g \in Fills /\ g.pc = "keys" /\ g.at = fill[x].at /\ fill[x].pc = "held"
    BY <1>10, <2>1, FillersAre DEF TakeRows
  <2>3. fill' = [fill EXCEPT ![x] = g] /\ UNCHANGED <<pass, now, raced>>
    BY <1>10, <2>1, FillMoves DEF TakeRows
  <2> QED
    BY <1>9, <2>2, <2>3
<1>11. ASSUME NEW x \in Fillers, TakeKeys(x) PROVE Turns'
  <2>1. PICK g : g = WithOps(fill[x])
    OBVIOUS
  <2>2. g \in Fills /\ g.pc = "write" /\ g.at = fill[x].at /\ fill[x].pc = "keys"
    BY <1>11, <2>1, FillersAre DEF TakeKeys
  <2>3. fill' = [fill EXCEPT ![x] = g] /\ UNCHANGED <<pass, now, raced>>
    BY <1>11, <2>1, FillMoves DEF TakeKeys, history
  <2> QED
    BY <1>9, <2>2, <2>3
<1>12. ASSUME NEW x \in Fillers, Filled(x) PROVE Turns'
  <2>1. fill' = [fill EXCEPT ![x] = Off] /\ UNCHANGED <<pass, now>> /\ raced' = raced \ {x}
    BY <1>12, FillMoves DEF Filled
  <2>2. fill'[x] = Off /\ \A y \in Fillers \ {x} : fill'[y] = fill[y]
    BY <2>1 DEF Typed
  <2> QED
    BY <1>0, <2>1, <2>2, OffIs DEF Turns, PassRuns
<1>13. ASSUME NEW x \in Fillers, NEW w \in fill[x].ops, Write(x, w) PROVE Turns'
  <2>1. PICK g : g = Less(fill[x], w)
    OBVIOUS
  <2>2. g \in Fills /\ g.pc = "write" /\ g.at = fill[x].at /\ fill[x].pc = "write"
    BY <2>1, FillersAre, WriteIs, ZenonT(40)
  <2>3. fill' = [fill EXCEPT ![x] = g] /\ UNCHANGED <<pass, now, raced>>
    BY <1>13, <2>1, FillMoves DEF Write
  <2> QED
    BY <1>9, <2>2, <2>3
<1>14. CASE UNCHANGED vars
  BY <1>14 DEF vars, history, Turns, PassRuns
<1> QED
  BY <1>1, <1>2, <1>3, <1>4, <1>5, <1>6, <1>8, <1>10, <1>11, <1>12, <1>13, <1>14 DEF Next

\* What a write does to its own bucket, and leaves alone.
LEMMA WriteDoes ==
  ASSUME Typed, Formed, NEW x \in Fillers, NEW w \in fill[x].ops, Write(x, w)
  PROVE  /\ w.coord \in Coords /\ w.row \in Rows \union {None} /\ fill[x].pc = "write"
         /\ \A c \in Coords : c # w.coord => row'[c] = row[c]
         /\ row'[w.coord] = IF w.insert /\ row[w.coord] # None THEN row[w.coord] ELSE w.row
         /\ stranded' = stranded \/ (stranded' = stranded \ {w.coord} /\ w.row # None /\ row'[w.coord] = w.row)
         /\ x \in raced => dirty'
         /\ x \notin raced => dirty' = dirty /\ spoiled' = spoiled
         /\ spoiled \subseteq spoiled'
         /\ w.coord \in Keys => w.coord \in spoiled' \/ row'[w.coord] = row[w.coord] \/ x \notin raced
         /\ fill'[x] = Less(fill[x], w) /\ Less(fill[x], w).ops = fill[x].ops \ {w}
         /\ Less(fill[x], w).pc = "write" /\ Less(fill[x], w).at = fill[x].at
         /\ \A y \in Fillers \ {x} : fill'[y] = fill[y]
         /\ UNCHANGED <<fact, index, now, pass, raced>>
<1>1. PICK c \in Coords : c = w.coord
  BY WriteIs
<1>2. PICK v \in Rows \union {None} : v = w.row
  BY WriteIs
<1>3. row \in [Coords -> Rows \union {None}] /\ raced \in SUBSET Readers /\ Pass \notin Readers
  BY PassIs DEF Typed, Board
<1>4. row' = [row EXCEPT ![c] = IF w.insert /\ row[c] # None THEN row[c] ELSE v]
  BY <1>1, <1>2, Write(x, w) DEF Write
<1>5. row'[c] = (IF w.insert /\ row[c] # None THEN row[c] ELSE v) /\ \A d \in Coords : d # c => row'[d] = row[d]
  BY <1>3, <1>4
<1>6. stranded' = stranded \/ (stranded' = stranded \ {c} /\ v # None /\ row'[c] = v)
  BY <1>1, <1>2, <1>5, Write(x, w) DEF Write
<1>a. PICK g : g = Less(fill[x], w)
  OBVIOUS
<1>b. g \in Fills /\ g.ops = fill[x].ops \ {w} /\ g.pc = "write" /\ g.at = fill[x].at /\ fill[x].pc = "write"
  BY <1>a, WriteIs, FillersAre, ZenonT(40)
<1>c. fill' = [fill EXCEPT ![x] = g]
  BY <1>a, Write(x, w), FillMoves
<1>d. fill'[x] = g /\ \A y \in Fillers \ {x} : fill'[y] = fill[y]
  BY <1>c DEF Typed
<1>e. UNCHANGED <<fact, index, now, pass, raced>>
  BY Write(x, w) DEF Write
<1>7. CASE x = Pass
  <2>1. dirty' = dirty /\ spoiled' = spoiled /\ x \notin raced
    BY <1>3, <1>7, Write(x, w) DEF Write
  <2> QED
    BY <1>1, <1>2, <1>5, <1>6, <1>a, <1>b, <1>d, <1>e, <2>1
<1>8. CASE x # Pass
  <2>1. /\ dirty' = (dirty \/ x \in raced)
        /\ spoiled' = IF x \in raced /\ ~(w.insert /\ row[c] # None) /\ c \in Keys
                      THEN spoiled \union {c} ELSE spoiled
    BY <1>1, <1>8, Write(x, w) DEF Write
  <2>2. dirty \in BOOLEAN
    BY DEF Typed
  <2>3. /\ x \in raced => dirty'
        /\ x \notin raced => dirty' = dirty
    BY <2>1, <2>2
  <2>4. /\ x \notin raced => spoiled' = spoiled
        /\ spoiled \subseteq spoiled'
        /\ c \in Keys => c \in spoiled' \/ row'[c] = row[c] \/ x \notin raced
    BY <1>5, <2>1
  <2> QED
    BY <1>1, <1>2, <1>5, <1>6, <1>a, <1>b, <1>d, <1>e, <2>3, <2>4
<1> QED
  BY <1>7, <1>8

\* What one filler's other steps leave alone.
LEMMA FillerKeeps ==
  ASSUME NEW x \in Fillers, TakeRows(x) \/ TakeKeys(x) \/ Filled(x)
  PROVE  UNCHANGED <<fact, index, row, now, pass, spoiled, stranded>>
  BY DEF TakeRows, TakeKeys, Filled, history

\* Filing leaves the other records' entries, and what the clock has not reached of
\* a bucket that is left stays accounted for.
LEMMA FileDoes ==
  ASSUME Typed, Formed, File
  PROVE  /\ \A c : c \in Keys \ Keys' =>
                \E e \in index : e[2] = c /\ e[1] = pass.record
         /\ \A c \in Coords : (\A e \in index \union index' : e[2] = c => e[1] # pass.record) =>
                \A e : e[2] = c => (e \in index <=> e \in index')
         /\ pass'.pc = "recompute"
         /\ \A c : c \in pass'.touched =>
                c \in Keys' \/ \E e \in index : e[2] = c /\ e[1] = pass.record
         /\ \A c \in Keys' : c \notin pass'.touched =>
                \A e \in index \union index' : e[2] = c => e[1] # pass.record
         /\ \A c \in stranded : c \in stranded' \/ c \in Keys'
         /\ \A e \in index : e[1] = pass.record /\ e[2][2] > now => e[2] \in stranded' \union Keys'
         /\ UNCHANGED <<fact, row, now, fill, raced, dirty, spoiled>>
<1>1. PICK r \in Records : r = pass.record
  BY DEF File, Formed
<1> DEFINE left == {e \in index : e[1] = r}
<1>2. PICK f : f = Filing(r)
  OBVIOUS
<1>3. \A e \in f : e[1] = r
  BY <1>2 DEF Filing
<1>4. index' = (index \ left) \union f
  BY <1>1, <1>2, File DEF File
<1>5. Keys' = {e[2] : e \in index'} /\ Keys = {e[2] : e \in index}
  BY DEF Keys
<1>6. PICK t : t = IF pass.full THEN Keys' ELSE {e[2] : e \in left \union f}
  OBVIOUS
<1>7. pass' = [pass EXCEPT !.pc = "recompute", !.touched = t]
  BY <1>1, <1>2, <1>5, <1>6, File DEF File
<1>8. pass'.pc = "recompute" /\ pass'.touched = t
  BY <1>7 DEF Typed, Passes
<1>9. PICK b : b = {e[2] : e \in left}
  OBVIOUS
<1>10. stranded' = (stranded \union {c \in b : c[2] > now}) \ Keys'
  BY <1>1, <1>5, <1>9, File DEF File
<1>11. \A c : c \in Keys \ Keys' => \E e \in index : e[2] = c /\ e[1] = r
  BY <1>4, <1>5
<1>12. ASSUME NEW c \in Coords, \A e \in index \union index' : e[2] = c => e[1] # r
       PROVE  \A e : e[2] = c => (e \in index <=> e \in index')
  BY <1>3, <1>4, <1>12
<1>13. ASSUME NEW c, c \in t PROVE c \in Keys' \/ \E e \in index : e[2] = c /\ e[1] = r
  <2>1. CASE pass.full
    BY <1>6, <1>13, <2>1
  <2>2. CASE ~pass.full
    <3>1. PICK e \in left \union f : e[2] = c
      BY <1>6, <1>13, <2>2
    <3>2. e \in left \/ e \in index'
      BY <1>4, <3>1
    <3> QED
      BY <1>5, <3>1, <3>2
  <2> QED
    BY <2>1, <2>2
<1>14. ASSUME NEW c \in Keys', c \notin t, NEW e \in index \union index', e[2] = c, e[1] = r PROVE FALSE
  <2>1. ~pass.full
    BY <1>6, <1>14
  <2>2. e \in left \union f
    BY <1>4, <1>14
  <2> QED
    BY <1>6, <1>14, <2>1, <2>2
<1>15. \A c \in stranded : c \in stranded' \/ c \in Keys'
  BY <1>10
<1>16. \A e \in index : e[1] = r /\ e[2][2] > now => e[2] \in stranded' \union Keys'
  BY <1>9, <1>10
<1>17. UNCHANGED <<fact, row, now, fill, raced, dirty, spoiled>>
  BY File DEF File
<1> QED
  BY <1>1, <1>8, <1>11, <1>12, <1>13, <1>14, <1>15, <1>16, <1>17

LEMMA AheadHolds == Typed /\ Formed /\ Ahead /\ [Next]_vars => Ahead'
<1> SUFFICES ASSUME Typed, Formed, Ahead, [Next]_vars PROVE Ahead'
  OBVIOUS
<1>0. row \in [Coords -> Rows \union {None}] /\ Fillers = Readers \union {Pass} /\ Pass \in Fillers
      /\ Labels \in SUBSET Nat /\ now \in Labels
  BY PassIs, CarryAssumption DEF Typed, Board, Labels
<1>1. ASSUME NEW r \in Records, NEW new \in Facts \union {None}, NEW full \in BOOLEAN, Post(r, new, full)
      PROVE  Ahead'
  <2>1. pass'.pc = "file" /\ UNCHANGED <<index, row, now, fill, stranded>>
    BY <1>1 DEF Post
  <2> QED
    BY <2>1 DEF Ahead, Keys
<1>2. CASE File
  <2>1. ASSUME NEW c \in Coords, c[2] > now, row[c] # None PROVE c \in Keys' \union stranded'
    <3>1. CASE c \in Keys /\ c \notin Keys'
      <4>1. PICK e \in index : e[2] = c /\ e[1] = pass.record
        BY <1>2, <3>1, FileDoes
      <4> QED
        BY <1>2, <2>1, <4>1, FileDoes
    <3> QED
      BY <1>2, <2>1, <3>1, FileDoes DEF Ahead
  <2>2. ASSUME NEW c \in pass'.touched, c[2] > now PROVE c \in Keys' \union stranded'
    BY <1>2, <2>2, FileDoes
  <2>3. UNCHANGED <<row, now, fill>> /\ pass'.pc = "recompute"
    BY <1>2, FileDoes
  <2> QED
    BY <2>1, <2>2, <2>3 DEF Ahead
<1>3. CASE Extend
  <2>1. HeldAt(now) \in Fills /\ HeldAt(now).pc = "held" /\ HeldAt(now).at = now /\ HeldAt(now).ops = {}
    BY FillersAre, PassIs DEF Typed
  <2>2. fill' = [fill EXCEPT ![Pass] = HeldAt(now)]
    BY <1>3, FillMoves
  <2>3. fill'[Pass] = HeldAt(now) /\ \A y \in Fillers \ {Pass} : fill'[y] = fill[y]
    BY <1>0, <2>2 DEF Typed
  <2>4. pass'.pc = "carry" /\ UNCHANGED <<index, row, now, stranded>>
    BY <1>3 DEF Extend, Typed, Passes, history
  <2> QED
    BY <1>0, <2>1, <2>3, <2>4 DEF Ahead, Keys
<1>4. CASE Return
  BY <1>4 DEF Return, Ahead, Keys, history
<1>5. CASE Tick
  <2>1. now' = now + 1 /\ pass.pc = "idle" /\ UNCHANGED <<index, row, pass, fill, stranded>>
    BY <1>5 DEF Tick, PassRuns, history
  <2>2. \A x \in Fillers : fill[x].pc # "off" => fill[x].at \in Labels
    BY DEF Formed
  <2>3. \A c \in Coords : c[2] \in Nat
    BY <1>0, CoordsIs
  <2> QED
    BY <1>0, <2>1, <2>2, <2>3 DEF Ahead, Keys
<1>6. ASSUME NEW c \in Coords, Recompute(c) PROVE Ahead'
  <2>1. /\ \A d \in Coords : d # c => row'[d] = row[d]
        /\ pass.pc = "recompute" /\ c \in pass.touched
        /\ UNCHANGED <<index, now, fill, stranded>>
    BY <1>0, <1>6 DEF Recompute
  <2>2. pass'.pc = "recompute" /\ pass'.touched \subseteq pass.touched
    BY <1>6, <2>1 DEF Recompute, Typed, Passes
  <2> QED
    BY <2>1, <2>2 DEF Ahead, Keys
<1>7. ASSUME NEW x \in Fillers, NEW g \in Fills, fill' = [fill EXCEPT ![x] = g],
             g.pc # "off" => g.at <= now, \A w \in g.ops : w.row # None => w.coord[2] <= g.at,
             UNCHANGED <<index, row, now, pass, stranded>>
      PROVE  Ahead'
  <2>1. fill'[x] = g /\ \A y \in Fillers \ {x} : fill'[y] = fill[y]
    BY <1>7 DEF Typed
  <2> QED
    BY <1>7, <2>1 DEF Ahead, Keys
<1>8. ASSUME NEW x \in Readers, NEW asked \in Labels, Read(x, asked) PROVE Ahead'
  <2>1. PICK t \in Labels : t = FillAt(asked) /\ t <= now
    BY <1>0, FillAtIs
  <2>2. PICK g : g = HeldAt(t)
    OBVIOUS
  <2>3. g \in Fills /\ g.at = t /\ g.ops = {} /\ x \in Fillers
    BY <1>0, <2>2, FillersAre
  <2>4. fill' = [fill EXCEPT ![x] = g] /\ UNCHANGED <<index, row, now, pass, stranded>>
    BY <1>8, <2>1, <2>2, FillMoves DEF Read
  <2> QED
    BY <1>7, <2>1, <2>3, <2>4
<1>9. ASSUME NEW x \in Fillers, TakeRows(x) PROVE Ahead'
  <2>1. PICK g : g = WithRows(fill[x])
    OBVIOUS
  <2>2. g \in Fills /\ g.at = fill[x].at /\ g.ops = {} /\ fill[x].pc = "held"
    BY <1>9, <2>1, FillersAre DEF TakeRows
  <2>3. fill' = [fill EXCEPT ![x] = g] /\ UNCHANGED <<index, row, now, pass, stranded>>
    BY <1>9, <2>1, FillMoves, FillerKeeps
  <2>4. g.at <= now
    BY <2>2 DEF Ahead
  <2> QED
    BY <1>7, <2>2, <2>3, <2>4
<1>10. ASSUME NEW x \in Fillers, TakeKeys(x) PROVE Ahead'
  <2>1. PICK g : g = WithOps(fill[x])
    OBVIOUS
  <2>2. g \in Fills /\ g.at = fill[x].at /\ g.ops = Materialise(fill[x].held, Keys, fill[x].at)
        /\ fill[x].pc = "keys" /\ fill[x].held \in Board /\ fill[x].at \in Labels /\ Keys \in SUBSET Coords
    BY <1>10, <2>1, FillersAre, KeysAre DEF TakeKeys, Formed
  <2>3. fill' = [fill EXCEPT ![x] = g] /\ UNCHANGED <<index, row, now, pass, stranded>>
    BY <1>10, <2>1, FillMoves, FillerKeeps
  <2>4. \A w \in g.ops : w.row # None => w.coord[2] <= g.at
    BY <2>2, MaterialiseShape
  <2>5. g.at <= now
    BY <2>2 DEF Ahead
  <2> QED
    BY <1>7, <2>2, <2>3, <2>4, <2>5
<1>11. ASSUME NEW x \in Fillers, Filled(x) PROVE Ahead'
  <2>1. fill' = [fill EXCEPT ![x] = Off] /\ UNCHANGED <<index, row, now, pass, stranded>>
    BY <1>11, FillMoves, FillerKeeps
  <2> QED
    BY <1>7, <2>1, OffIs
<1>12. ASSUME NEW x \in Fillers, NEW w \in fill[x].ops, Write(x, w) PROVE Ahead'
  <2>1. PICK c \in Coords : c = w.coord
    BY WriteIs
  <2>2. c[2] \in Nat /\ fill[x].at \in Nat /\ fill[x].pc = "write"
    BY <1>0, CoordsIs, WriteIs
  <2>3. w.row # None => ~(c[2] > now)
    BY <1>0, <2>1, <2>2 DEF Ahead
  <2>4. /\ \A d \in Coords : d # c => row'[d] = row[d]
        /\ row'[c] = (IF w.insert /\ row[c] # None THEN row[c] ELSE w.row)
        /\ stranded' = stranded \/ (stranded' = stranded \ {c} /\ w.row # None)
        /\ UNCHANGED <<index, now, pass>>
    BY <1>12, <2>1, WriteDoes
  <2>5. ASSUME NEW d \in Coords, d[2] > now, d \in stranded PROVE d \in stranded'
    BY <2>3, <2>4, <2>5
  <2>6. ASSUME NEW d \in Coords, d[2] > now, row'[d] # None PROVE row[d] # None
    BY <2>3, <2>4, <2>6
  <2>7. \A y \in Fillers : fill'[y].pc = fill[y].pc /\ fill'[y].at = fill[y].at /\ fill'[y].ops \subseteq fill[y].ops
    BY <1>12, WriteDoes
  <2>8. pass.touched \in SUBSET Coords
    BY DEF Typed, Passes
  <2> QED
    BY <2>4, <2>5, <2>6, <2>7, <2>8 DEF Ahead, Keys
<1>13. CASE UNCHANGED vars
  BY <1>13 DEF vars, history, Ahead, Keys
<1> QED
  BY <1>1, <1>2, <1>3, <1>4, <1>5, <1>6, <1>8, <1>9, <1>10, <1>11, <1>12, <1>13 DEF Next

(***************************************************************************)
(* A change's own row is the recompute's, whatever reads write.            *)
(***************************************************************************)

\* The fillers no pass has overlapped.
Live == {x \in Fillers \ raced : fill[x].pc # "off"}

\* The buckets a pass is yet to recompute.
Owed == IF pass.pc = "file" THEN {e[2] : e \in {d \in index : d[1] = pass.record}}
        ELSE IF pass.pc = "recompute" THEN pass.touched ELSE {}

Computed == \A c \in (Keys \ spoiled) \ Owed : row[c] = Evaluate(c)

Own == \A x \in Live : \A w \in fill[x].ops : w.coord \notin Keys

LEMMA NoneLive ==
  ASSUME Typed, Formed, Turns, pass.pc \in {"file", "recompute"}
  PROVE  Live = {}
  BY PassIs DEF Turns, Live, PassRuns

LEMMA AllRaced ==
  ASSUME Typed, Formed, Turns, NEW r, NEW new, NEW full, Post(r, new, full)
  PROVE  Live' = {}
<1>1. fill' = fill /\ raced' = raced \union Overlapped /\ fill[Pass].pc = "off"
  BY DEF Post, Turns, PassRuns
<1> QED
  BY <1>1, PassIs DEF Live, Overlapped

\* Nothing filed, nothing said anew: every bucket says what it said.
LEMMA SaysTheSame ==
  ASSUME UNCHANGED <<fact, index>>
  PROVE  /\ Keys' = Keys
         /\ \A c : Evaluate(c)' = Evaluate(c)
         /\ \A s : Anchored(s)' = Anchored(s)
  BY DEF Keys, Evaluate, Anchored, LabelsOf

LEMMA SaysTheSameOf ==
  ASSUME Typed, Formed, NEW c,
         \A e : e[2] = c => (e \in index <=> e \in index'),
         \A r \in Holds(c) : fact'[r] = fact[r]
  PROVE  Evaluate(c)' = Evaluate(c)
<1>1. PICK h : h = Holds(c)
  OBVIOUS
<1>2. {e[1] : e \in {x \in index' : x[2] = c}} = h /\ {e[1] : e \in {x \in index : x[2] = c}} = h
  BY <1>1 DEF Holds
<1>3. h # {} => Max(h) \in h
  BY <1>1, HoldsIs
<1>4. PICK m : m = Max(h)
  OBVIOUS
<1>5. h # {} => fact'[m] = fact[m]
  BY <1>1, <1>3, <1>4
<1>6. Evaluate(c) = IF h = {} THEN [value |-> None, members |-> {}]
                    ELSE [value |-> fact[m].value, members |-> {m}]
  BY <1>2, <1>4 DEF Evaluate
<1>7. Evaluate(c)' = IF h = {} THEN [value |-> None, members |-> {}]
                     ELSE [value |-> fact'[m].value, members |-> {m}]
  BY <1>2, <1>4 DEF Evaluate
<1> QED
  BY <1>5, <1>6, <1>7

LEMMA OwnHolds == Typed /\ Formed /\ Turns /\ Own /\ [Next]_vars => Own'
<1> SUFFICES ASSUME Typed, Formed, Turns, Own, [Next]_vars PROVE Own'
  OBVIOUS
<1>1. ASSUME NEW r \in Records, NEW new \in Facts \union {None}, NEW full \in BOOLEAN, Post(r, new, full)
      PROVE  Own'
  BY <1>1, AllRaced DEF Own
<1>2. CASE File
  <2>1. pass.pc = "file" /\ UNCHANGED <<fill, raced>>
    BY <1>2 DEF File
  <2>2. Live' = {}
    BY <2>1, NoneLive DEF Live
  <2> QED
    BY <2>2 DEF Own
<1>3. ASSUME NEW x \in Fillers, NEW g \in Fills, fill' = [fill EXCEPT ![x] = g], Keys' = Keys,
             raced \subseteq raced' \union {x}, \A w \in g.ops : w.coord \notin Keys \/ x \in raced'
      PROVE  Own'
  <2>1. fill'[x] = g /\ \A y \in Fillers \ {x} : fill'[y] = fill[y]
    BY <1>3 DEF Typed
  <2>2. ASSUME NEW y \in Live', NEW w \in fill'[y].ops PROVE w.coord \notin Keys
    <3>1. CASE y = x
      BY <1>3, <2>1, <2>2, <3>1 DEF Live
    <3>2. CASE y # x
      <4>1. y \in Live
        BY <1>3, <2>1, <2>2, <3>2 DEF Live
      <4> QED
        BY <2>1, <2>2, <3>2, <4>1 DEF Own, Live
    <3> QED
      BY <3>1, <3>2
  <2> QED
    BY <1>3, <2>2 DEF Own
<1>4. CASE Extend
  <2>1. HeldAt(now) \in Fills /\ HeldAt(now).ops = {} /\ Pass \in Fillers
    BY FillersAre, PassIs DEF Typed
  <2>2. fill' = [fill EXCEPT ![Pass] = HeldAt(now)]
    BY <1>4, FillMoves
  <2>3. Keys' = Keys /\ raced' = raced
    BY <1>4 DEF Extend, Keys, history
  <2>4. PICK g \in Fills : g = HeldAt(now)
    BY <2>1
  <2> QED
    BY <1>3, <2>1, <2>2, <2>3, <2>4
<1>5. Return \/ Tick \/ UNCHANGED vars => Own'
  BY DEF Return, Tick, vars, history, Own, Live, Keys
<1>6. ASSUME NEW c \in Coords, Recompute(c) PROVE Own'
  BY <1>6 DEF Recompute, Own, Live, Keys
<1>8. ASSUME NEW x \in Readers, NEW asked \in Labels, Read(x, asked) PROVE Own'
  <2>1. PICK t \in Labels : t = FillAt(asked)
    BY FillAtIs DEF Typed
  <2>2. PICK g : g = HeldAt(t)
    OBVIOUS
  <2>3. g \in Fills /\ g.ops = {} /\ x \in Fillers
    BY <2>2, FillersAre, PassIs
  <2>4. fill' = [fill EXCEPT ![x] = g] /\ Keys' = Keys /\ raced \subseteq raced'
    BY <1>8, <2>1, <2>2, FillMoves DEF Read, Keys
  <2> QED
    BY <1>3, <2>3, <2>4
<1>9. ASSUME NEW x \in Fillers, TakeRows(x) PROVE Own'
  <2>1. PICK g : g = WithRows(fill[x])
    OBVIOUS
  <2>2. g \in Fills /\ g.ops = {}
    BY <1>9, <2>1, FillersAre DEF TakeRows
  <2>3. fill' = [fill EXCEPT ![x] = g] /\ Keys' = Keys /\ raced' = raced
    BY <1>9, <2>1, FillMoves DEF TakeRows, Keys
  <2> QED
    BY <1>3, <2>2, <2>3
<1>10. ASSUME NEW x \in Fillers, TakeKeys(x) PROVE Own'
  <2>1. PICK g : g = WithOps(fill[x])
    OBVIOUS
  <2>2. g \in Fills /\ g.ops = Materialise(fill[x].held, Keys, fill[x].at)
        /\ fill[x].held \in Board /\ fill[x].at \in Labels /\ Keys \in SUBSET Coords
    BY <1>10, <2>1, FillersAre, KeysAre DEF TakeKeys, Formed
  <2>3. fill' = [fill EXCEPT ![x] = g] /\ Keys' = Keys /\ raced' = raced
    BY <1>10, <2>1, FillMoves DEF TakeKeys, Keys, history
  <2>4. \A w \in g.ops : w.coord \notin Keys
    BY <2>2, MaterialiseShape
  <2> QED
    BY <1>3, <2>2, <2>3, <2>4
<1>11. ASSUME NEW x \in Fillers, Filled(x) PROVE Own'
  <2>1. fill' = [fill EXCEPT ![x] = Off] /\ Keys' = Keys /\ raced' = raced \ {x}
    BY <1>11, FillMoves DEF Filled, Keys
  <2> QED
    BY <1>3, <2>1, OffIs
<1>12. ASSUME NEW x \in Fillers, NEW w \in fill[x].ops, Write(x, w) PROVE Own'
  <2>1. /\ fill'[x].ops \subseteq fill[x].ops /\ fill[x].pc = "write" /\ fill'[x].pc = "write"
        /\ \A y \in Fillers \ {x} : fill'[y] = fill[y]
        /\ Keys' = Keys /\ raced' = raced
    BY <1>12, WriteDoes, SaysTheSame
  <2> QED
    BY <2>1 DEF Own, Live
<1> QED
  BY <1>1, <1>2, <1>4, <1>5, <1>6, <1>8, <1>9, <1>10, <1>11, <1>12 DEF Next

LEMMA ComputedHolds == Typed /\ Formed /\ Turns /\ Own /\ Computed /\ [Next]_vars => Computed'
<1> SUFFICES ASSUME Typed, Formed, Turns, Own, Computed, [Next]_vars PROVE Computed'
  OBVIOUS
<1>0. Keys \in SUBSET Coords /\ row \in [Coords -> Rows \union {None}]
  BY KeysAre DEF Typed, Board
<1>1. ASSUME NEW r \in Records, NEW new \in Facts \union {None}, NEW full \in BOOLEAN, Post(r, new, full)
      PROVE  Computed'
  <2>1. /\ pass.pc = "idle" /\ pass'.pc = "file" /\ pass'.record = r
        /\ UNCHANGED <<index, row, spoiled>> /\ Keys' = Keys
        /\ \A q \in Records : q # r => fact'[q] = fact[q]
    BY <1>1 DEF Post, PassRuns, Keys, Typed
  <2>2. ASSUME NEW c \in Keys \ spoiled, c \notin Owed' PROVE row[c] = Evaluate(c)'
    <3>1. r \notin Holds(c)
      <4>1. Owed' = {e[2] : e \in {d \in index : d[1] = r}}
        BY <2>1 DEF Owed
      <4> SUFFICES ASSUME r \in Holds(c) PROVE FALSE
        OBVIOUS
      <4>2. <<r, c>> \in index
        BY HoldsIs
      <4>3. PICK e \in index : e = <<r, c>>
        BY <4>2
      <4>4. e[1] = r /\ e[2] = c
        BY <4>3
      <4> QED
        BY <2>2, <4>1, <4>4
    <3>2. \A q \in Holds(c) : fact'[q] = fact[q]
      BY <2>1, <3>1, HoldsIs
    <3>3. Evaluate(c)' = Evaluate(c)
      BY <2>1, <3>2, SaysTheSameOf
    <3>4. row[c] = Evaluate(c)
      BY <2>1, <2>2 DEF Computed, Owed
    <3> QED
      BY <3>3, <3>4
  <2> QED
    BY <2>1, <2>2 DEF Computed
<1>2. CASE File
  <2>1. pass.pc = "file" /\ pass'.pc = "recompute" /\ UNCHANGED <<fact, row, spoiled>>
    BY <1>2, FileDoes DEF File
  <2>2. ASSUME NEW c \in Keys' \ spoiled, c \notin pass'.touched PROVE row[c] = Evaluate(c)'
    <3>1. \A e \in index \union index' : e[2] = c => e[1] # pass.record
      BY <1>2, <2>2, FileDoes
    <3>2. PICK d \in index' : d[2] = c
      BY <2>2 DEF Keys
    <3>3. c \in Coords
      <4>1. Typed'
        BY Typing
      <4> QED
        BY <3>2, <4>1 DEF Typed
    <3>4. \A e : e[2] = c => (e \in index <=> e \in index')
      BY <1>2, <3>1, <3>3, FileDoes
    <3>5. c \in Keys
      BY <3>2, <3>4 DEF Keys
    <3>6. c \notin Owed
      BY <2>1, <3>1 DEF Owed
    <3>7. Evaluate(c)' = Evaluate(c)
      BY <2>1, <3>4, SaysTheSameOf
    <3> QED
      BY <2>2, <3>5, <3>6, <3>7 DEF Computed
  <2> QED
    BY <2>1, <2>2 DEF Computed, Owed
<1>3. ASSUME UNCHANGED <<fact, index, row, spoiled>>, Owed' = Owed PROVE Computed'
  BY <1>3, SaysTheSame DEF Computed
<1>4. CASE Extend
  <2>1. pass.pc = "recompute" /\ pass.touched = {} /\ pass'.pc = "carry"
        /\ UNCHANGED <<fact, index, row, spoiled>>
    BY <1>4 DEF Extend, Typed, Passes, history
  <2> QED
    BY <1>3, <2>1 DEF Owed
<1>5. CASE Return
  <2>1. pass.pc = "carry" /\ pass'.pc = "idle" /\ UNCHANGED <<fact, index, row, spoiled>>
    BY <1>5 DEF Return, history
  <2> QED
    BY <1>3, <2>1 DEF Owed
<1>6. Tick \/ UNCHANGED vars => Computed'
  <2>1. Tick \/ UNCHANGED vars => UNCHANGED <<fact, index, row, spoiled, pass>>
    BY DEF Tick, vars, history
  <2> QED
    BY <1>3, <2>1 DEF Owed
<1>7. ASSUME NEW c \in Coords, Recompute(c) PROVE Computed'
  <2>1. PICK v : v = Evaluate(c)
    OBVIOUS
  <2>2. row' = [row EXCEPT ![c] = v] /\ pass' = [pass EXCEPT !.touched = @ \ {c}]
        /\ pass.pc = "recompute" /\ spoiled' = spoiled \ {c} /\ UNCHANGED <<fact, index>>
    BY <1>7, <2>1 DEF Recompute
  <2>3. row'[c] = v /\ \A d \in Coords : d # c => row'[d] = row[d]
    BY <1>0, <2>2
  <2>4. pass'.pc = "recompute" /\ pass'.touched = pass.touched \ {c}
    BY <2>2 DEF Typed, Passes
  <2>5. ASSUME NEW d \in (Keys' \ spoiled') \ Owed' PROVE row'[d] = Evaluate(d)'
    <3>1. d \in Keys /\ Evaluate(d)' = Evaluate(d)
      BY <2>2, SaysTheSame
    <3>2. CASE d = c
      BY <2>1, <2>3, <3>1, <3>2
    <3>3. CASE d # c
      <4>1. d \in (Keys \ spoiled) \ Owed
        BY <2>2, <2>4, <2>5, <3>1, <3>3 DEF Owed
      <4> QED
        BY <1>0, <2>3, <3>1, <3>3, <4>1 DEF Computed
    <3> QED
      BY <3>2, <3>3
  <2> QED
    BY <2>5 DEF Computed
<1>8. ASSUME NEW x \in Readers, NEW asked \in Labels, Read(x, asked) PROVE Computed'
  <2>1. UNCHANGED <<fact, index, row, spoiled, pass>>
    BY <1>8 DEF Read
  <2> QED
    BY <1>3, <2>1 DEF Owed
<1>9. ASSUME NEW x \in Fillers, TakeRows(x) \/ TakeKeys(x) \/ Filled(x) PROVE Computed'
  <2>1. UNCHANGED <<fact, index, row, spoiled, pass>>
    BY <1>9, FillerKeeps
  <2> QED
    BY <1>3, <2>1 DEF Owed
<1>10. ASSUME NEW x \in Fillers, NEW w \in fill[x].ops, Write(x, w) PROVE Computed'
  <2>1. PICK c \in Coords : c = w.coord
    BY WriteIs
  <2>2. /\ \A d \in Coords : d # c => row'[d] = row[d]
        /\ c \in Keys => c \in spoiled' \/ row'[c] = row[c] \/ x \notin raced
        /\ spoiled \subseteq spoiled' /\ UNCHANGED <<fact, index, pass>> /\ fill[x].pc = "write"
    BY <1>10, <2>1, WriteDoes
  <2>3. x \notin raced => c \notin Keys
    BY <2>1, <2>2 DEF Own, Live
  <2>4. ASSUME NEW d \in (Keys' \ spoiled') \ Owed' PROVE row'[d] = Evaluate(d)'
    <3>1. d \in Keys /\ Evaluate(d)' = Evaluate(d) /\ Owed' = Owed
      BY <2>2, <2>4, SaysTheSame DEF Owed
    <3>2. row'[d] = row[d] /\ d \notin spoiled
      BY <1>0, <2>2, <2>3, <2>4, <3>1
    <3> QED
      BY <2>4, <3>1, <3>2 DEF Computed
  <2> QED
    BY <2>4 DEF Computed
<1> QED
  BY <1>1, <1>2, <1>4, <1>5, <1>6, <1>7, <1>8, <1>9, <1>10 DEF Next

(***************************************************************************)
(* What is in force, and what a snapshot no pass overlapped makes of it.   *)
(***************************************************************************)

First(s) == Min(Anchored(s))

\* No row where nothing was set yet; from then on what the last change says.
Right(s, l) == IF l < First(s) THEN None ELSE InForce(s, l)

\* No read a pass overlapped has written over a change of this subject.
Clean(s) == Anchored(s) # {} /\ \A c \in spoiled : c[1] # s

\* A filler's view of a subject: it holds every change's number, and a bucket may
\* differ from its snapshot only by being right; what it is to write is right, and
\* it passes over no bucket within its reach that is not.
Faithful(f, s) ==
  /\ f.pc = "keys" =>
       /\ \A l \in Labels : row[<<s, l>>] \in {f.held[<<s, l>>], Right(s, l)}
       /\ \A l \in Anchored(s) : f.held[<<s, l>>] = Evaluate(<<s, l>>)
  /\ \A w \in f.ops : w.coord[1] = s =>
       w.row = Right(s, w.coord[2]) /\ (w.insert => row[w.coord] \in {None, w.row})
  /\ f.pc = "write" /\ f.at - First(s) < Cap =>
       \A l \in Labels : l < First(s) \/ l <= f.at =>
         \/ row[<<s, l>>] = Right(s, l)
         \/ \E w \in f.ops : w.coord = <<s, l>> /\ w.row = Right(s, l)

Snapshots ==
  ~dirty => \A x \in Live, s \in Subjects : \A f \in {fill[x]} : Clean(s) => Faithful(f, s)

\* Once a pass has materialised, every bucket within reach of the present is right
\* or not filled yet, whatever the reads it did not overlap are writing.
Settled ==
  ~dirty /\ (pass.pc = "idle" \/ (pass.pc = "carry" /\ fill[Pass].pc = "off")) =>
    \A s \in Subjects : Clean(s) /\ now - First(s) < Cap =>
      \A l \in Labels :
        /\ l < First(s) => row[<<s, l>>] = None
        /\ First(s) <= l /\ l <= now /\ <<s, l>> \notin stranded => row[<<s, l>>] \in {None, Right(s, l)}

LEMMA AnchoredIs ==
  ASSUME Typed, NEW s \in Subjects
  PROVE  /\ Anchored(s) = LabelsOf(Keys, s) /\ Anchored(s) \in SUBSET Labels
         /\ \A l \in Labels : l \in Anchored(s) <=> <<s, l>> \in Keys
         /\ Anchored(s) # {} => First(s) \in Anchored(s) /\ First(s) \in Labels
                                /\ \A a \in Anchored(s) : First(s) <= a
<1>1. Anchored(s) = LabelsOf(Keys, s)
  BY DEF Anchored
<1>2. /\ Anchored(s) \in SUBSET Labels
      /\ \A l \in Labels : l \in Anchored(s) <=> <<s, l>> \in Keys
  <2>1. PICK k \in SUBSET Coords : k = Keys
    BY KeysAre
  <2>2. /\ LabelsOf(k, s) \in SUBSET Labels
        /\ \A l \in Labels : l \in LabelsOf(k, s) <=> <<s, l>> \in k
    BY LabelsAre
  <2> QED
    BY <1>1, <2>1, <2>2
<1>3. Anchored(s) # {} => First(s) \in Anchored(s) /\ First(s) \in Labels
                          /\ \A a \in Anchored(s) : First(s) <= a
  BY <1>2, FirstIs DEF First
<1> QED
  BY <1>1, <1>2, <1>3

LEMMA RightIs ==
  ASSUME Typed, Formed, pass.pc # "file", NEW s \in Subjects, Anchored(s) # {}, NEW l \in Labels
  PROVE  /\ l < First(s) => Right(s, l) = None
         /\ l >= First(s) => Right(s, l) = InForce(s, l) /\ Right(s, l) # None
         /\ l \in Anchored(s) => Right(s, l) = Evaluate(<<s, l>>) /\ l >= First(s)
         /\ \A held : (\A a \in Anchored(s) : held[<<s, a>>] = Evaluate(<<s, a>>)) =>
              Carried(held, Keys, s, l) = Right(s, l)
<1>1. /\ Anchored(s) = LabelsOf(Keys, s) /\ Anchored(s) \in SUBSET Labels
      /\ First(s) \in Anchored(s) /\ First(s) \in Labels /\ \A a \in Anchored(s) : First(s) <= a
  BY AnchoredIs
<1>2. Labels \in SUBSET Int
  BY CarryAssumption DEF Labels
<1>3. CASE l < First(s)
  <2>1. Right(s, l) = None
    BY <1>3 DEF Right
  <2>2. ~(l >= First(s))
    <3>1. PICK a \in Int : a = First(s)
      BY <1>1, <1>2
    <3>2. l \in Int /\ l < a
      BY <1>2, <1>3, <3>1
    <3>3. ~(l >= a)
      BY <3>2
    <3> QED
      BY <3>1, <3>3
  <2>3. l \notin Anchored(s)
    BY <1>1, <1>2, <2>2
  <2>4. \A held : Carried(held, Keys, s, l) = None
    BY <1>1, <1>3 DEF Carried, First
  <2> QED
    BY <2>1, <2>2, <2>3, <2>4
<1>4. CASE ~(l < First(s))
  <2>1. PICK m : m = Max({a \in Anchored(s) : a <= l})
    OBVIOUS
  <2>2. First(s) <= l /\ l >= First(s)
    <3>1. PICK a \in Int : a = First(s)
      BY <1>1, <1>2
    <3>2. l \in Int /\ ~(l < a)
      BY <1>2, <1>4, <3>1
    <3>3. a <= l /\ l >= a
      BY <3>2
    <3> QED
      BY <3>1, <3>3
  <2>3. m \in Anchored(s) /\ (l \in Anchored(s) => m = l)
    BY <1>1, <2>1, <2>2, GoverningIs
  <2>4. Right(s, l) = InForce(s, l) /\ InForce(s, l) = Evaluate(<<s, m>>)
    BY <1>4, <2>1 DEF Right, InForce
  <2>5. Evaluate(<<s, m>>) # None
    <3>1. <<s, m>> \in Coords
      BY <1>1, <2>3 DEF Coords
    <3> QED
      BY <3>1, EvaluateIs
  <2>6. \A held : Carried(held, Keys, s, l) = held[<<s, m>>]
    BY <1>1, <1>4, <2>1 DEF Carried, First
  <2> QED
    BY <1>4, <2>2, <2>3, <2>4, <2>5, <2>6
<1> QED
  BY <1>3, <1>4

LEMMA RightStays ==
  ASSUME UNCHANGED <<fact, index>>
  PROVE  /\ \A s : First(s)' = First(s) /\ Anchored(s)' = Anchored(s)
         /\ \A s, l : Right(s, l)' = Right(s, l) /\ InForce(s, l)' = InForce(s, l)
<1>1. \A s : Anchored(s)' = Anchored(s)
  BY SaysTheSame
<1>2. \A s : First(s)' = First(s)
  BY <1>1 DEF First
<1>3. ASSUME NEW s, NEW l PROVE InForce(s, l)' = InForce(s, l)
  <2>1. PICK m : m = Max({a \in Anchored(s) : a <= l})
    OBVIOUS
  <2>2. m = Max({a \in Anchored(s)' : a <= l})
    BY <1>1, <2>1
  <2>3. InForce(s, l) = Evaluate(<<s, m>>)
    BY <2>1 DEF InForce
  <2>4. InForce(s, l)' = Evaluate(<<s, m>>)'
    BY <2>2 DEF InForce, Evaluate
  <2>5. PICK c : c = <<s, m>>
    OBVIOUS
  <2>6. Evaluate(c)' = Evaluate(c)
    BY SaysTheSame
  <2> QED
    BY <2>3, <2>4, <2>5, <2>6 DEF Evaluate
<1> QED
  BY <1>1, <1>2, <1>3 DEF Right

\* A view stays faithful where buckets change only to become right.
LEMMA FaithfulStays ==
  ASSUME Typed, NEW f \in Fills, NEW s \in Subjects, Faithful(f, s), UNCHANGED <<fact, index>>,
         \A l \in Labels : row'[<<s, l>>] \in {row[<<s, l>>], Right(s, l)},
         NEW g \in Fills, g = f \/ (\E w \in f.ops : g = Less(f, w) /\ (w.coord[1] = s => row'[w.coord] = w.row))
  PROVE  Faithful(g, s)'
<1>1. /\ First(s)' = First(s) /\ Anchored(s)' = Anchored(s)
      /\ \A l : Right(s, l)' = Right(s, l)
      /\ \A c : Evaluate(c)' = Evaluate(c)
  BY RightStays, SaysTheSame
<1>2. g.pc = f.pc /\ g.at = f.at /\ g.held = f.held /\ g.ops \in SUBSET f.ops
      /\ \A w \in f.ops : w \in g.ops \/ (w.coord[1] = s => row'[w.coord] = w.row)
  BY DEF Less, Fills
<1>3. ASSUME g.pc = "keys"
      PROVE  /\ \A l \in Labels : row'[<<s, l>>] \in {g.held[<<s, l>>], Right(s, l)'}
             /\ \A l \in Anchored(s)' : g.held[<<s, l>>] = Evaluate(<<s, l>>)'
  <2>1. ASSUME NEW l \in Labels PROVE row'[<<s, l>>] \in {g.held[<<s, l>>], Right(s, l)'}
    BY <1>1, <1>2, <1>3 DEF Faithful
  <2>2. ASSUME NEW l \in Anchored(s) PROVE g.held[<<s, l>>] = Evaluate(<<s, l>>)'
    <3>1. PICK c : c = <<s, l>>
      OBVIOUS
    <3>2. g.held[c] = Evaluate(c)
      BY <1>2, <1>3, <3>1 DEF Faithful
    <3>3. Evaluate(c)' = Evaluate(c)
      BY <1>1
    <3>4. g.held[c] = Evaluate(c)'
      BY <3>2, <3>3
    <3> QED
      BY <3>1, <3>4 DEF Evaluate
  <2> QED
    BY <1>1, <2>1, <2>2
<1>4. ASSUME NEW w \in g.ops, w.coord[1] = s
      PROVE  w.row = Right(s, w.coord[2])' /\ (w.insert => row'[w.coord] \in {None, w.row})
  <2>1. PICK l : l = w.coord[2]
    OBVIOUS
  <2>2. w \in Ops /\ w.coord = <<s, l>> /\ l \in Labels
    BY <1>2, <1>4, <2>1, CoordsIs DEF Fills, Ops
  <2>3. w.row = Right(s, l) /\ (w.insert => row[w.coord] \in {None, w.row})
    BY <1>2, <1>4, <2>1 DEF Faithful
  <2>4. row'[<<s, l>>] \in {row[<<s, l>>], Right(s, l)}
    BY <2>2
  <2>5. Right(s, l)' = Right(s, l)
    BY <1>1
  <2>6. w.row = Right(s, l)'
    BY <2>3, <2>5
  <2>7. w.row = Right(s, w.coord[2])'
    BY <2>1, <2>6
  <2> QED
    BY <2>2, <2>3, <2>4, <2>7
<1>5. ASSUME g.pc = "write", g.at - First(s)' < Cap, NEW l \in Labels, l < First(s)' \/ l <= g.at
      PROVE  \/ row'[<<s, l>>] = Right(s, l)'
             \/ \E w \in g.ops : w.coord = <<s, l>> /\ w.row = Right(s, l)'
  <2>1. \/ row[<<s, l>>] = Right(s, l)
        \/ \E w \in f.ops : w.coord = <<s, l>> /\ w.row = Right(s, l)
    BY <1>1, <1>2, <1>5 DEF Faithful
  <2>2. CASE row[<<s, l>>] = Right(s, l)
    BY <1>1, <2>2
  <2>3. ASSUME NEW w \in f.ops, w.coord = <<s, l>>, w.row = Right(s, l)
        PROVE  row'[<<s, l>>] = Right(s, l)' \/ w \in g.ops
    BY <1>1, <1>2, <2>3
  <2> QED
    BY <1>1, <2>1, <2>2, <2>3
<1> QED
  BY <1>3, <1>4, <1>5 DEF Faithful

\* A filler that has asked for its instant, or taken the rows, or worked out its
\* writes, is faithful to a subject whose every change is computed.
LEMMA FaithfulBegins ==
  ASSUME Typed, Formed, Computed, pass.pc \notin {"file", "recompute"},
         NEW f \in Fills, NEW s \in Subjects, Clean(s), f.ops = {}, f.pc # "write",
         f.pc = "keys" => f.held = row
  PROVE  Faithful(f, s)
<1>1. ASSUME NEW l \in Anchored(s) PROVE row[<<s, l>>] = Evaluate(<<s, l>>)
  <2>1. <<s, l>> \in Keys
    BY AnchoredIs
  <2>2. PICK c : c = <<s, l>>
    OBVIOUS
  <2>3. c \notin spoiled /\ c \notin Owed
    BY <2>2 DEF Clean, Owed
  <2>4. row[c] = Evaluate(c)
    BY <2>1, <2>2, <2>3 DEF Computed
  <2> QED
    BY <2>2, <2>4
<1> QED
  BY <1>1 DEF Faithful

LEMMA FaithfulWrites ==
  ASSUME Typed, Formed, pass.pc # "file", NEW x \in Fillers, NEW s \in Subjects, Anchored(s) # {},
         NEW f, f = fill[x], f.pc = "keys", Faithful(f, s),
         NEW g, g = WithOps(f)
  PROVE  Faithful(g, s)
<1>1. f.held \in Board /\ f.at \in Labels /\ g \in Fills /\ g.pc = "write" /\ g.at = f.at
      /\ g.ops = Materialise(f.held, Keys, f.at)
  BY FillersAre DEF Formed
<1>2. PICK k \in SUBSET Coords : k = Keys
  BY KeysAre
<1>3. PICK held \in Board : held = f.held
  BY <1>1
<1>4. PICK at \in Labels : at = f.at
  BY <1>1
<1>5. PICK a : a = Anchored(s)
  OBVIOUS
<1>6. /\ a = LabelsOf(k, s) /\ a # {} /\ a \in SUBSET Labels
      /\ First(s) = Min(a) /\ First(s) \in Labels
  BY <1>2, <1>5, AnchoredIs DEF First
<1>7. /\ \A l \in Labels : row[<<s, l>>] \in {held[<<s, l>>], Right(s, l)}
      /\ \A l \in a : held[<<s, l>>] = Evaluate(<<s, l>>)
  BY <1>3, <1>5 DEF Faithful
<1>8. \A l \in a : held[<<s, l>>] # None
  BY <1>5, <1>6, <1>7, EvaluateIs DEF Coords
<1>9. \A l \in Labels : Carried(held, k, s, l) = Right(s, l)
  BY <1>2, <1>5, <1>7, RightIs
<1>10. /\ \A w \in Wanted(held, k, s, at) :
            /\ w.row = Carried(held, k, s, w.coord[2])
            /\ w.insert => held[w.coord] = None
       /\ at - Min(a) < Cap =>
            \A l \in Labels : l < Min(a) \/ l <= at =>
              \/ held[<<s, l>>] = Carried(held, k, s, l)
              \/ \E w \in Wanted(held, k, s, at) : w.coord = <<s, l>> /\ w.row = Carried(held, k, s, l)
  <2>2. LabelsOf(k, s) # {} /\ \A l \in LabelsOf(k, s) : held[<<s, l>>] # None
    BY <1>6, <1>8
  <2>3. /\ \A w \in Wanted(held, k, s, at) :
             /\ w.row = Carried(held, k, s, w.coord[2])
             /\ w.insert => held[w.coord] = None
        /\ at - Min(LabelsOf(k, s)) < Cap =>
             \A l \in Labels : l < Min(LabelsOf(k, s)) \/ l <= at =>
               \/ held[<<s, l>>] = Carried(held, k, s, l)
               \/ \E w \in Wanted(held, k, s, at) : w.coord = <<s, l>> /\ w.row = Carried(held, k, s, l)
    BY <2>2, WantedRight
  <2> QED
    BY <1>6, <2>3
<1>11. ASSUME NEW w \in g.ops, w.coord[1] = s
       PROVE  w.row = Right(s, w.coord[2]) /\ (w.insert => row[w.coord] \in {None, w.row})
  <2>1. w \in Materialise(held, k, at)
    BY <1>1, <1>2, <1>3, <1>4
  <2>2. w \in Wanted(held, k, s, at) /\ w \in Ops
    BY <1>11, <2>1, MaterialiseShape
  <2>3. PICK l : l = w.coord[2]
    OBVIOUS
  <2>4. l \in Labels /\ w.coord = <<s, l>>
    BY <1>11, <2>2, <2>3, CoordsIs DEF Ops
  <2>5. w.row = Right(s, l) /\ (w.insert => held[<<s, l>>] = None)
    BY <1>9, <1>10, <2>2, <2>3, <2>4
  <2> QED
    BY <1>7, <2>3, <2>4, <2>5
<1>12. ASSUME at - First(s) < Cap, NEW l \in Labels, l < First(s) \/ l <= at
       PROVE  \/ row[<<s, l>>] = Right(s, l)
              \/ \E w \in g.ops : w.coord = <<s, l>> /\ w.row = Right(s, l)
  <2>1. \/ held[<<s, l>>] = Carried(held, k, s, l)
        \/ \E w \in Wanted(held, k, s, at) : w.coord = <<s, l>> /\ w.row = Carried(held, k, s, l)
    BY <1>6, <1>10, <1>12
  <2>2. Wanted(held, k, s, at) \subseteq g.ops
    BY <1>1, <1>2, <1>3, <1>4 DEF Materialise
  <2> QED
    BY <1>7, <1>9, <2>1, <2>2
<1> QED
  BY <1>1, <1>4, <1>11, <1>12 DEF Faithful

\* What a live filler writes is right for a subject it is faithful to.
LEMMA LiveWritesRight ==
  ASSUME Typed, Formed, NEW x \in Fillers, NEW w \in fill[x].ops, Write(x, w), NEW s \in Subjects,
         w.coord[1] = s => Faithful(fill[x], s)
  PROVE  /\ \A l \in Labels : row'[<<s, l>>] \in {row[<<s, l>>], Right(s, l)}
         /\ w.coord[1] = s => row'[w.coord] = w.row /\ w.row = Right(s, w.coord[2])
<1>1. PICK c \in Coords : c = w.coord
  BY WriteIs
<1>2. c = <<c[1], c[2]>>
  BY CoordsIs
<1>3. /\ \A d \in Coords : d # c => row'[d] = row[d]
      /\ row'[c] = IF w.insert /\ row[c] # None THEN row[c] ELSE w.row
  BY <1>1, WriteDoes
<1>4. \A l \in Labels : <<s, l>> \in Coords
  BY DEF Coords
<1>5. CASE c[1] # s
  BY <1>1, <1>3, <1>4, <1>5
<1>6. CASE c[1] = s
  <2>1. w.row = Right(s, c[2]) /\ (w.insert => row[c] \in {None, w.row})
    BY <1>1, <1>6 DEF Faithful
  <2>2. row'[c] = w.row
    BY <1>3, <2>1
  <2>3. ASSUME NEW l \in Labels PROVE row'[<<s, l>>] \in {row[<<s, l>>], Right(s, l)}
    <3>1. CASE <<s, l>> = c
      <4>1. l = c[2]
        BY <3>1
      <4> QED
        BY <2>1, <2>2, <3>1, <4>1
    <3>2. CASE <<s, l>> # c
      BY <1>3, <1>4, <3>2
    <3> QED
      BY <3>1, <3>2
  <2> QED
    BY <1>1, <2>1, <2>2, <2>3
<1> QED
  BY <1>5, <1>6

LEMMA SnapshotsHold ==
  Typed /\ Formed /\ Turns /\ Computed /\ Snapshots /\ [Next]_vars => Snapshots'
<1> SUFFICES ASSUME Typed, Formed, Turns, Computed, Snapshots, [Next]_vars PROVE Snapshots'
  OBVIOUS
<1>0. Typed' /\ Formed' /\ row \in [Coords -> Rows \union {None}]
  BY Typing DEF Typed, Board
<1>1. Live' = {} => Snapshots'
  BY DEF Snapshots
<1>2. ASSUME NEW r \in Records, NEW new \in Facts \union {None}, NEW full \in BOOLEAN, Post(r, new, full)
      PROVE  Snapshots'
  BY <1>1, <1>2, AllRaced
<1>3. File => Snapshots'
  <2>1. File => pass.pc = "file" /\ UNCHANGED <<fill, raced>>
    BY DEF File
  <2> QED
    BY <1>1, <2>1, NoneLive DEF Live
<1>4. ASSUME NEW c \in Coords, Recompute(c) PROVE Snapshots'
  <2>1. pass.pc = "recompute" /\ UNCHANGED <<fill, raced>>
    BY <1>4 DEF Recompute
  <2> QED
    BY <1>1, <2>1, NoneLive DEF Live
\* Rows, filing and history stay; so do the fillers.
<1>5. Return \/ Tick \/ UNCHANGED vars => Snapshots'
  <2>1. Return \/ Tick \/ UNCHANGED vars => UNCHANGED <<fact, index, row, fill, raced, dirty, spoiled>>
    BY DEF Return, Tick, vars, history
  <2> SUFFICES ASSUME UNCHANGED <<fact, index, row, fill, raced, dirty, spoiled>> PROVE Snapshots'
    BY <2>1
  <2>2. ASSUME ~dirty, NEW x \in Live, NEW s \in Subjects, NEW f \in {fill[x]}, Clean(s)'
        PROVE  Faithful(f, s)'
    <3>1. Clean(s)
      BY <2>2, SaysTheSame DEF Clean
    <3>2. Faithful(f, s) /\ f \in Fills
      BY <2>2, <3>1 DEF Snapshots, Live, Typed
    <3> QED
      BY <3>2, FaithfulStays
  <2> QED
    BY <2>2 DEF Snapshots, Live
\* One filler moves; the rows stay.
<1>6. ASSUME NEW x \in Fillers, NEW g \in Fills, fill' = [fill EXCEPT ![x] = g],
             UNCHANGED <<fact, index, row, spoiled>>, dirty' = dirty, raced \ {x} = raced' \ {x},
             \A s \in Subjects : ~dirty /\ Clean(s) /\ x \in Live' => Faithful(g, s)
      PROVE  Snapshots'
  <2>1. fill'[x] = g /\ \A y \in Fillers \ {x} : fill'[y] = fill[y]
    BY <1>6 DEF Typed
  <2>2. ASSUME ~dirty, NEW y \in Live', NEW s \in Subjects, NEW f \in {fill'[y]}, Clean(s)'
        PROVE  Faithful(f, s)'
    <3>1. Clean(s)
      BY <1>6, <2>2, SaysTheSame DEF Clean
    <3>2. Faithful(f, s)
      <4>1. CASE y = x
        BY <1>6, <2>1, <2>2, <3>1, <4>1
      <4>2. CASE y # x
        <5>1. y \in Live /\ f = fill[y]
          BY <1>6, <2>1, <2>2, <4>2 DEF Live
        <5> QED
          BY <2>2, <3>1, <5>1 DEF Snapshots
      <4> QED
        BY <4>1, <4>2
    <3>3. f \in Fills
      BY <1>0, <2>2 DEF Typed, Live
    <3> QED
      BY <1>6, <3>2, <3>3, FaithfulStays
  <2> QED
    BY <1>6, <2>2 DEF Snapshots
<1>7. CASE Extend
  <2>1. HeldAt(now) \in Fills /\ HeldAt(now).pc = "held" /\ HeldAt(now).ops = {} /\ Pass \in Fillers
    BY FillersAre, PassIs DEF Typed
  <2>2. fill' = [fill EXCEPT ![Pass] = HeldAt(now)]
    BY <1>7, FillMoves
  <2>3. UNCHANGED <<fact, index, row, spoiled, raced, dirty>>
    BY <1>7 DEF Extend, history
  <2>4. PICK g \in Fills : g = HeldAt(now)
    BY <2>1
  <2>5. \A s \in Subjects : Faithful(g, s)
    BY <2>1, <2>4 DEF Faithful
  <2> QED
    BY <1>6, <2>1, <2>2, <2>3, <2>4, <2>5
<1>8. ASSUME NEW x \in Readers, NEW asked \in Labels, Read(x, asked) PROVE Snapshots'
  <2>1. PICK t \in Labels : t = FillAt(asked)
    BY FillAtIs DEF Typed
  <2>2. PICK g : g = HeldAt(t)
    OBVIOUS
  <2>3. g \in Fills /\ g.pc = "held" /\ g.ops = {} /\ x \in Fillers
    BY <2>2, FillersAre, PassIs
  <2>4. fill' = [fill EXCEPT ![x] = g] /\ UNCHANGED <<fact, index, row, spoiled, dirty>>
        /\ raced \ {x} = raced' \ {x}
    BY <1>8, <2>1, <2>2, FillMoves DEF Read
  <2>5. \A s \in Subjects : Faithful(g, s)
    BY <2>3 DEF Faithful
  <2> QED
    BY <1>6, <2>3, <2>4, <2>5
<1>9. ASSUME NEW x \in Fillers, TakeRows(x) PROVE Snapshots'
  <2>1. PICK g : g = WithRows(fill[x])
    OBVIOUS
  <2>2. g \in Fills /\ g.pc = "keys" /\ g.held = row /\ g.ops = {} /\ fill[x].pc = "held"
    BY <1>9, <2>1, FillersAre DEF TakeRows
  <2>3. fill' = [fill EXCEPT ![x] = g] /\ UNCHANGED <<fact, index, row, spoiled, raced>>
        /\ dirty' = IF x = Pass THEN FALSE ELSE dirty
    BY <1>9, <2>1, FillMoves DEF TakeRows
  <2>4. fill'[x] = g /\ \A y \in Fillers \ {x} : fill'[y] = fill[y]
    BY <2>3 DEF Typed
  <2>5. ASSUME NEW s \in Subjects, Clean(s), x \notin raced PROVE Faithful(g, s)
    <3>1. x \in Live
      BY <2>2, <2>5 DEF Live
    <3>2. pass.pc \notin {"file", "recompute"}
      BY <3>1, NoneLive
    <3> QED
      BY <2>2, <2>5, <3>2, FaithfulBegins
  <2>6. \A s \in Subjects : ~dirty /\ Clean(s) /\ x \in Live' => Faithful(g, s)
    <3>1. x \in Live' => x \notin raced
      BY <2>3 DEF Live
    <3> QED
      BY <2>5, <3>1
  <2>7. CASE x # Pass
    BY <1>6, <2>2, <2>3, <2>6, <2>7
  \* The pass is the only filler no pass has overlapped, and starts anew.
  <2>8. CASE x = Pass
    <3>1. Live' = {Pass} /\ Pass \notin raced
      <4>1. PassRuns /\ \A y \in Readers : fill[y].pc # "off" => y \in raced
        BY <2>2, <2>8 DEF Turns, PassRuns
      <4> QED
        BY <2>2, <2>3, <2>4, <2>8, <4>1, PassIs DEF Live, Typed
    <3>2. ASSUME NEW s \in Subjects, Clean(s)' PROVE Faithful(g, s)'
      <4>1. Clean(s)
        BY <2>3, <3>2, SaysTheSame DEF Clean
      <4>2. Faithful(g, s)
        BY <2>5, <2>8, <3>1, <4>1
      <4> QED
        BY <2>2, <2>3, <4>2, FaithfulStays
    <3> QED
      BY <2>4, <2>8, <3>1, <3>2 DEF Snapshots
  <2> QED
    BY <2>7, <2>8
<1>10. ASSUME NEW x \in Fillers, TakeKeys(x) PROVE Snapshots'
  <2>1. PICK g : g = WithOps(fill[x])
    OBVIOUS
  <2>2. g \in Fills /\ fill[x].pc = "keys"
    BY <1>10, <2>1, FillersAre DEF TakeKeys
  <2>3. fill' = [fill EXCEPT ![x] = g] /\ UNCHANGED <<fact, index, row, spoiled, raced, dirty>>
    BY <1>10, <2>1, FillMoves DEF TakeKeys, history
  <2>4. PICK f : f = fill[x]
    OBVIOUS
  <2>5. ASSUME NEW s \in Subjects, ~dirty, Clean(s), x \notin raced PROVE Faithful(g, s)
    <3>1. x \in Live
      BY <2>2, <2>5 DEF Live
    <3>2. pass.pc # "file"
      BY <3>1, NoneLive
    <3>3. Faithful(f, s)
      BY <2>4, <2>5, <3>1 DEF Snapshots
    <3> QED
      BY <2>1, <2>2, <2>4, <2>5, <3>2, <3>3, FaithfulWrites DEF Clean
  <2>6. \A s \in Subjects : ~dirty /\ Clean(s) /\ x \in Live' => Faithful(g, s)
    <3>1. x \in Live' => x \notin raced
      BY <2>3 DEF Live
    <3> QED
      BY <2>5, <3>1
  <2> QED
    BY <1>6, <2>2, <2>3, <2>6
<1>11. ASSUME NEW x \in Fillers, Filled(x) PROVE Snapshots'
  <2>1. fill' = [fill EXCEPT ![x] = Off] /\ UNCHANGED <<fact, index, row, spoiled, dirty>>
        /\ raced \ {x} = raced' \ {x}
    BY <1>11, FillMoves DEF Filled
  <2>2. fill'[x] = Off
    BY <2>1 DEF Typed
  <2>3. x \notin Live'
    BY <2>2, OffIs DEF Live
  <2> QED
    BY <1>6, <2>1, <2>3, OffIs
<1>12. ASSUME NEW x \in Fillers, NEW w \in fill[x].ops, Write(x, w) PROVE Snapshots'
  <2>1. PICK g : g = Less(fill[x], w)
    OBVIOUS
  <2>2. /\ fill'[x] = g /\ g \in Fills
        /\ \A y \in Fillers \ {x} : fill'[y] = fill[y]
        /\ x \in raced => dirty'
        /\ x \notin raced => dirty' = dirty /\ spoiled' = spoiled
        /\ UNCHANGED <<fact, index, raced>> /\ fill[x].pc = "write" /\ fill'[x].pc = "write"
    BY <1>12, <2>1, WriteDoes, FillersAre
  <2>3. CASE x \in raced
    BY <2>2, <2>3 DEF Snapshots
  <2>4. CASE x \notin raced
    <3>1. x \in Live
      BY <2>2, <2>4 DEF Live
    <3>2. ASSUME ~dirty, NEW y \in Live', NEW s \in Subjects, NEW f \in {fill'[y]}, Clean(s)'
          PROVE  Faithful(f, s)'
      <4>1. Clean(s)
        BY <2>2, <2>4, <3>2, SaysTheSame DEF Clean
      <4>2. Faithful(fill[x], s)
        BY <3>1, <3>2, <4>1 DEF Snapshots
      <4>3. /\ \A l \in Labels : row'[<<s, l>>] \in {row[<<s, l>>], Right(s, l)}
            /\ w.coord[1] = s => row'[w.coord] = w.row
        BY <1>12, <4>2, LiveWritesRight
      <4>4. y \in Live /\ y \in Fillers
        BY <2>2, <3>2 DEF Live
      <4>5. PICK h : h = fill[y]
        OBVIOUS
      <4>6. Faithful(h, s) /\ h \in Fills
        BY <3>2, <4>1, <4>4, <4>5 DEF Snapshots, Typed
      <4>7. f \in Fills /\ (f = h \/ (w \in h.ops /\ f = Less(h, w)))
        BY <2>1, <2>2, <3>2, <4>4, <4>5, <4>6
      <4> QED
        BY <2>2, <4>3, <4>6, <4>7, FaithfulStays
    <3> QED
      BY <2>2, <2>4, <3>2 DEF Snapshots
  <2> QED
    BY <2>3, <2>4
<1> QED
  BY <1>2, <1>3, <1>4, <1>5, <1>7, <1>8, <1>9, <1>10, <1>11, <1>12 DEF Next

LEMMA SettledHolds ==
  Typed /\ Formed /\ Turns /\ Ahead /\ Computed /\ Snapshots /\ Settled /\ [Next]_vars => Settled'
<1> SUFFICES ASSUME Typed, Formed, Turns, Ahead, Computed, Snapshots, Settled, [Next]_vars PROVE Settled'
  OBVIOUS
<1>0. row \in [Coords -> Rows \union {None}] /\ Labels \in SUBSET Int /\ now \in Labels /\ Cap \in Int
  BY CarryAssumption DEF Typed, Board, Labels
<1>1. ASSUME NEW r \in Records, NEW new \in Facts \union {None}, NEW full \in BOOLEAN, Post(r, new, full)
      PROVE  Settled'
  BY <1>1 DEF Post, Settled
<1>2. File => Settled'
  BY FileDoes DEF Settled
<1>3. CASE Extend
  <2>1. HeldAt(now).pc = "held"
    BY FillersAre, PassIs DEF Typed
  <2>2. fill' = [fill EXCEPT ![Pass] = HeldAt(now)]
    BY <1>3, FillMoves
  <2>3. fill'[Pass].pc = "held" /\ pass'.pc = "carry"
    BY <1>3, <2>1, <2>2, PassIs DEF Extend, Typed, Passes
  <2> QED
    BY <2>3 DEF Settled
<1>4. ASSUME NEW c \in Coords, Recompute(c) PROVE Settled'
  <2>1. pass'.pc = "recompute"
    BY <1>4 DEF Recompute, Typed, Passes
  <2> QED
    BY <2>1 DEF Settled
\* The rows, the clock and what is filed stay, and no pass has filled just now.
<1>5. ASSUME UNCHANGED <<fact, index, row, now, spoiled, stranded>>, ~dirty' => ~dirty,
             pass'.pc = "idle" => pass.pc = "idle" \/ (pass.pc = "carry" /\ fill[Pass].pc = "off"),
             pass'.pc = "carry" /\ fill'[Pass].pc = "off" => pass.pc = "carry" /\ fill[Pass].pc = "off"
      PROVE  Settled'
  <2>1. \A s : Clean(s)' = Clean(s) /\ First(s)' = First(s)
    BY <1>5, SaysTheSame, RightStays DEF Clean
  <2>2. \A s, l : Right(s, l)' = Right(s, l)
    BY <1>5, RightStays
  <2> QED
    BY <1>5, <2>1, <2>2 DEF Settled
<1>6. CASE Return
  BY <1>5, <1>6 DEF Return, history
<1>7. CASE UNCHANGED vars
  BY <1>5, <1>7 DEF vars, history
<1>8. ASSUME NEW x \in Readers, NEW asked \in Labels, Read(x, asked) PROVE Settled'
  <2>1. fill' = [fill EXCEPT ![x] = HeldAt(FillAt(asked))] /\ x # Pass
    BY <1>8, FillMoves, PassIs
  <2>2. fill'[Pass] = fill[Pass]
    BY <2>1, PassIs DEF Typed
  <2> QED
    BY <1>5, <1>8, <2>2 DEF Read
<1>9. ASSUME NEW x \in Fillers, TakeRows(x) PROVE Settled'
  <2>1. fill' = [fill EXCEPT ![x] = WithRows(fill[x])] /\ WithRows(fill[x]).pc = "keys"
    BY <1>9, FillMoves, FillersAre DEF TakeRows
  <2>2. x # Pass => fill'[Pass] = fill[Pass]
    BY <2>1, PassIs DEF Typed
  <2>3. x = Pass => pass'.pc = "carry" /\ fill'[Pass].pc = "keys"
    BY <1>9, <2>1, PassIs DEF Typed, TakeRows, Turns
  <2>4. CASE x = Pass
    BY <2>3, <2>4 DEF Settled
  <2>5. CASE x # Pass
    BY <1>5, <1>9, <2>2, <2>5 DEF TakeRows
  <2> QED
    BY <2>4, <2>5
<1>10. ASSUME NEW x \in Fillers, TakeKeys(x) PROVE Settled'
  <2>1. fill' = [fill EXCEPT ![x] = WithOps(fill[x])] /\ WithOps(fill[x]).pc = "write"
    BY <1>10, FillMoves, FillersAre DEF TakeKeys
  <2>2. fill'[Pass] = fill[Pass] \/ fill'[Pass].pc = "write"
    BY <2>1, PassIs DEF Typed
  <2>3. x = Pass => pass.pc = "carry"
    BY <1>10 DEF TakeKeys, Turns
  <2> QED
    BY <1>5, <1>10, <2>2, <2>3 DEF TakeKeys, history
\* The pass has filled: what it has written, and what it found, is right.
<1>11. ASSUME Filled(Pass) PROVE Settled'
  <2>1. PICK f \in Fills : f = fill[Pass]
    BY PassIs DEF Typed
  <2>2. f.pc = "write" /\ f.ops = {} /\ f.at = now /\ pass.pc = "carry"
    BY <1>11, <2>1 DEF Filled, Turns
  <2>3. Pass \in Live
    BY <2>1, <2>2, PassIs DEF Live, Typed
  <2>4. UNCHANGED <<fact, index, row, now, spoiled, stranded, dirty>>
    BY <1>11 DEF Filled
  <2>5. ASSUME ~dirty, NEW s \in Subjects, Clean(s), now - First(s) < Cap, NEW l \in Labels
        PROVE  l < First(s) \/ l <= now => row[<<s, l>>] = Right(s, l)
    <3>1. Faithful(f, s)
      BY <2>1, <2>3, <2>5 DEF Snapshots
    <3> QED
      BY <2>2, <2>5, <3>1 DEF Faithful
  <2>6. \A s : Clean(s)' = Clean(s) /\ First(s)' = First(s)
    BY <2>4, SaysTheSame, RightStays DEF Clean
  <2>7. \A s, l : Right(s, l)' = Right(s, l)
    BY <2>4, RightStays
  <2>8. \A s \in Subjects, l \in Labels : Clean(s) /\ l < First(s) => Right(s, l) = None
    BY <2>2, RightIs DEF Clean
  <2> QED
    BY <2>4, <2>5, <2>6, <2>7, <2>8 DEF Settled
<1>12. ASSUME NEW x \in Readers, Filled(x) PROVE Settled'
  <2>1. fill' = [fill EXCEPT ![x] = Off] /\ x # Pass
    BY <1>12, FillMoves, PassIs
  <2>2. fill'[Pass] = fill[Pass]
    BY <2>1, PassIs DEF Typed
  <2> QED
    BY <1>5, <1>12, <2>2 DEF Filled
\* The bucket the clock enters is a change's, or ahead of it nothing was written.
<1>13. CASE Tick
  <2>1. now' = now + 1 /\ pass.pc = "idle" /\ UNCHANGED <<fact, index, row, pass, fill, dirty, spoiled, stranded>>
    BY <1>13 DEF Tick, PassRuns, history
  <2>2. \A s : Clean(s)' = Clean(s) /\ First(s)' = First(s)
    BY <2>1, SaysTheSame, RightStays DEF Clean
  <2>3. \A s, l : Right(s, l)' = Right(s, l)
    BY <2>1, RightStays
  <2>0. PICK n : n = now'
    OBVIOUS
  <2>4. ASSUME ~dirty, NEW s \in Subjects, Clean(s), n - First(s) < Cap, NEW l \in Labels
        PROVE  /\ l < First(s) => row[<<s, l>>] = None
               /\ First(s) <= l /\ l <= n /\ <<s, l>> \notin stranded => row[<<s, l>>] \in {None, Right(s, l)}
    <3>1. PICK first \in Int : first = First(s)
      BY <1>0, <2>4, AnchoredIs DEF Clean
    <3>2. now - first < Cap /\ now \in Int /\ l \in Int
      BY <1>0, <2>0, <2>1, <2>4, <3>1
    <3>3. now - First(s) < Cap
      BY <3>1, <3>2
    <3>4. /\ l < First(s) => row[<<s, l>>] = None
          /\ First(s) <= l /\ l <= now /\ <<s, l>> \notin stranded => row[<<s, l>>] \in {None, Right(s, l)}
      BY <2>1, <2>4, <3>3 DEF Settled
    <3>5. ASSUME l > now, <<s, l>> \notin stranded, row[<<s, l>>] # None PROVE row[<<s, l>>] = Right(s, l)
      <4>1. PICK c \in Coords : c = <<s, l>>
        BY DEF Coords
      <4>2. c \in Keys
        BY <3>5, <4>1 DEF Ahead
      <4>3. c \notin spoiled /\ Owed = {}
        BY <2>1, <2>4, <4>1 DEF Clean, Owed
      <4>4. row[c] = Evaluate(c)
        BY <4>2, <4>3 DEF Computed
      <4>5. l \in Anchored(s)
        BY <4>1, <4>2, AnchoredIs
      <4>6. Right(s, l) = Evaluate(<<s, l>>)
        BY <2>1, <2>4, <4>5, RightIs
      <4> QED
        BY <4>1, <4>4, <4>6
    <3>6. l <= now \/ l > now
      BY <3>2
    <3> QED
      BY <3>4, <3>5, <3>6
  <2> QED
    BY <2>0, <2>1, <2>2, <2>3, <2>4 DEF Settled
<1>14. ASSUME NEW x \in Fillers, NEW w \in fill[x].ops, Write(x, w) PROVE Settled'
  <2>1. PICK c \in Coords : c = w.coord
    BY WriteIs
  <2>2. /\ fill[x].pc = "write" /\ fill'[x].pc = "write" /\ (x # Pass => fill'[Pass] = fill[Pass])
        /\ x \in raced => dirty'
        /\ x \notin raced => dirty' = dirty /\ spoiled' = spoiled
        /\ UNCHANGED <<fact, index, now, pass>>
        /\ stranded' = stranded \/ (stranded' = stranded \ {c} /\ w.row # None)
        /\ fill[x].at \in Labels
    BY <1>14, <2>1, WriteDoes, WriteIs, PassIs
  <2>3. CASE x \in raced
    BY <2>2, <2>3 DEF Settled
  <2>4. CASE x = Pass
    <3>1. pass'.pc = "carry"
      BY <2>2, <2>4 DEF Turns
    <3> QED
      BY <2>2, <2>4, <3>1 DEF Settled
  <2>5. CASE x \notin raced /\ x # Pass
    <3>1. x \in Live
      BY <2>2, <2>5 DEF Live
    <3>2. \A s : Clean(s)' = Clean(s) /\ First(s)' = First(s)
      BY <2>2, <2>5, SaysTheSame, RightStays DEF Clean
    <3>3. \A s, l : Right(s, l)' = Right(s, l)
      BY <2>2, RightStays
    <3>4. ASSUME ~dirty, pass.pc = "idle" \/ (pass.pc = "carry" /\ fill[Pass].pc = "off"),
                 NEW s \in Subjects, Clean(s), now - First(s) < Cap, NEW l \in Labels
          PROVE  /\ l < First(s) => row'[<<s, l>>] = None
                 /\ First(s) <= l /\ l <= now /\ <<s, l>> \notin stranded' =>
                      row'[<<s, l>>] \in {None, Right(s, l)}
      <4>1. Faithful(fill[x], s)
        BY <3>1, <3>4 DEF Snapshots
      <4>2. /\ row'[<<s, l>>] \in {row[<<s, l>>], Right(s, l)}
            /\ w.coord[1] = s => row'[w.coord] = w.row /\ w.row = Right(s, w.coord[2])
        BY <1>14, <4>1, LiveWritesRight
      <4>3. l < First(s) => Right(s, l) = None
        BY <3>4, RightIs DEF Clean
      <4>4. /\ l < First(s) => row[<<s, l>>] = None
            /\ First(s) <= l /\ l <= now /\ <<s, l>> \notin stranded => row[<<s, l>>] \in {None, Right(s, l)}
        BY <3>4 DEF Settled
      <4>5. ASSUME <<s, l>> \in stranded, <<s, l>> \notin stranded' PROVE row'[<<s, l>>] = Right(s, l)
        <5>1. c = <<s, l>>
          BY <2>2, <4>5
        <5> QED
          BY <2>1, <4>2, <5>1
      <4> QED
        BY <4>2, <4>3, <4>4, <4>5
    <3> QED
      BY <2>2, <2>5, <3>2, <3>3, <3>4 DEF Settled
  <2> QED
    BY <2>3, <2>4, <2>5
<1> QED
  BY <1>1, <1>2, <1>3, <1>4, <1>6, <1>7, <1>8, <1>9, <1>10, <1>11, <1>12, <1>13, <1>14, PassIs DEF Next

CarriedRight ==
  Typed /\ Formed /\ Turns /\ Ahead /\ Own /\ Computed /\ Snapshots /\ Settled

\* The invariant the two properties below rest on: a change's own row is computed
\* (Computed), no write under way is of such a row (Own), what an undisturbed
\* filler holds and is to write is right (Snapshots), and so is what the last pass
\* has left (Settled); the clock overtakes nothing that is not (Ahead).
THEOREM CarryInvariant == Spec => []CarriedRight
<1>1. Init => CarriedRight
  <2> SUFFICES ASSUME Init PROVE CarriedRight
    OBVIOUS
  <2>1. Typed /\ Formed
    BY InitTyped
  <2>2. fill = [x \in Fillers |-> Off] /\ index = {} /\ row = [c \in Coords |-> None]
        /\ pass.pc = "idle" /\ raced = {}
    BY DEF Init
  <2>3. Live = {} /\ Keys = {} /\ \A x \in Fillers : fill[x].pc = "off" /\ fill[x].ops = {}
    BY <2>2, OffIs DEF Live, Keys
  <2>4. \A s : Anchored(s) = {}
    BY <2>3 DEF Anchored, LabelsOf
  <2>5. Turns
    BY <2>2, <2>3, PassIs DEF Turns, PassRuns
  <2>6. Ahead
    BY <2>2, <2>3 DEF Ahead
  <2>7. Own /\ Computed /\ Snapshots
    BY <2>3 DEF Own, Computed, Snapshots
  <2>8. Settled
    BY <2>4 DEF Settled, Clean
  <2> QED
    BY <2>1, <2>5, <2>6, <2>7, <2>8 DEF CarriedRight
<1>2. CarriedRight /\ [Next]_vars => CarriedRight'
  BY Typing, TurnsHold, AheadHolds, OwnHolds, ComputedHolds, SnapshotsHold, SettledHolds DEF CarriedRight
<1> QED
  BY <1>1, <1>2, PTL DEF Spec

\* Whatever reads filled, and whatever reads a pass overlapped had written before
\* it, outside a pass a bucket says what is in force there or is not materialised,
\* and no bucket before the first change is left (carry.py materialise).
THEOREM CarriedIsInForce == Spec => []RowsInForce
<1>1. CarriedRight => RowsInForce
  <2> SUFFICES ASSUME CarriedRight, Quiet, NEW s \in Subjects, Anchored(s) # {},
                      \A c \in spoiled : c[1] # s, NEW l \in Labels
               PROVE  /\ l < First(s) /\ InReach(s, First(s)) => row[<<s, l>>] = None
                      /\ l >= First(s) /\ <<s, l>> \notin stranded /\ (l \in Anchored(s) \/ InReach(s, l)) =>
                           row[<<s, l>>] \in {InForce(s, l)} \union (IF l \in Anchored(s) THEN {} ELSE {None})
    BY DEF RowsInForce, First
  <2>1. Typed /\ Formed /\ Computed /\ Settled /\ pass.pc = "idle" /\ ~dirty /\ Clean(s) /\ Owed = {}
    BY DEF CarriedRight, Quiet, PassRuns, Clean, Owed
  <2>2. /\ l \in Anchored(s) => Right(s, l) = Evaluate(<<s, l>>) /\ Right(s, l) = InForce(s, l)
        /\ l >= First(s) => Right(s, l) = InForce(s, l)
    BY <2>1, RightIs
  <2>3. ASSUME l < First(s), InReach(s, First(s)) PROVE row[<<s, l>>] = None
    BY <2>1, <2>3 DEF Settled, InReach, First
  <2>4. ASSUME l \in Anchored(s) PROVE row[<<s, l>>] = InForce(s, l)
    <3>1. PICK c : c = <<s, l>>
      OBVIOUS
    <3>2. c \in Keys /\ c \notin spoiled
      BY <2>1, <2>4, <3>1, AnchoredIs DEF Clean
    <3>3. row[c] = Evaluate(c)
      BY <2>1, <3>2 DEF Computed
    <3> QED
      BY <2>2, <2>4, <3>1, <3>3
  <2>5. ASSUME l >= First(s), <<s, l>> \notin stranded, InReach(s, l) PROVE row[<<s, l>>] \in {None, InForce(s, l)}
    <3>1. First(s) \in Labels /\ Labels \in SUBSET Int
      BY <2>1, AnchoredIs, CarryAssumption DEF Labels
    <3>2. PICK first \in Int : first = First(s)
      BY <3>1
    <3>3. l \in Int /\ first <= l
      BY <2>5, <3>1, <3>2
    <3>4. First(s) <= l /\ l <= now /\ now - First(s) < Cap
      BY <2>5, <3>2, <3>3 DEF InReach, First
    <3> QED
      BY <2>1, <2>2, <2>5, <3>4 DEF Settled
  <2> QED
    BY <2>3, <2>4, <2>5
<1> QED
  BY <1>1, CarryInvariant, PTL

\* A read no pass overlapped finds every bucket it looks at filled, from the first
\* change on, with the value in force there (what a read of serve.py relies on).
THEOREM ReadsFindFilled == Spec => []ReadFindsFilled
<1>1. CarriedRight => ReadFindsFilled
  <2> SUFFICES ASSUME CarriedRight, NEW x \in Readers, fill[x].pc = "write", fill[x].ops = {}, x \notin raced,
                      Quiet, spoiled = {}, NEW s \in Subjects, Anchored(s) # {},
                      fill[x].at - First(s) < Cap, NEW l \in First(s)..fill[x].at
               PROVE  row[<<s, l>>] = InForce(s, l)
    BY DEF ReadFindsFilled, First
  <2>1. Typed /\ Formed /\ Snapshots /\ pass.pc = "idle" /\ ~dirty /\ Clean(s) /\ x \in Fillers
    BY PassIs DEF CarriedRight, Quiet, PassRuns, Clean
  <2>2. PICK f \in Fills : f = fill[x]
    BY <2>1 DEF Typed
  <2>3. Faithful(f, s)
    BY <2>1, <2>2 DEF Snapshots, Live
  <2>4. l \in Labels /\ l <= f.at /\ l >= First(s)
    <3>1. First(s) \in Labels /\ f.at \in Labels
      BY <2>1, <2>2, AnchoredIs DEF Formed
    <3>2. PICK a \in Labels, b \in Labels : a = First(s) /\ b = f.at
      BY <3>1
    <3>3. l \in a..b
      BY <2>2, <3>2
    <3>4. l \in Labels /\ l <= b /\ l >= a
      BY <3>3, CarryAssumption DEF Labels
    <3> QED
      BY <3>2, <3>4
  <2>5. row[<<s, l>>] = Right(s, l)
    BY <2>2, <2>3, <2>4 DEF Faithful
  <2> QED
    BY <2>1, <2>4, <2>5, RightIs DEF Clean
<1> QED
  BY <1>1, CarryInvariant, PTL

=============================================================================
