-------------------------- MODULE SequenceRegions --------------------------
(***************************************************************************)
(* The candidate regions of the sequence validator                         *)
(* (validation_sequence.go): a region stands for all the states in which   *)
(* between outer and outerMaximum iterations are complete, the matcher is  *)
(* at particle index, and has counted between low and high of its          *)
(* elements, where low and high are affine in the number of iterations.    *)
(* Particles are numbered from 1; the end of the body is one past the last.*)
(***************************************************************************)
EXTENDS Integers, Sequences, SequencesExt

CONSTANT Unbounded   \* maxOccurs="unbounded"

Line(slope, intercept) == [slope |-> slope, intercept |-> intercept]
Constant(n) == Line(0, n)
At(line, outer) == line.slope * outer + line.intercept
Plus(line, n) == [line EXCEPT !.intercept = @ + n]

(* newInstanceSequenceCandidate(0, 0, 0, true, false).                     *)
Initial == [outer |-> 0, outerMaximum |-> 0, index |-> 1, low |-> Constant(0),
            high |-> Constant(0), currentEmpty |-> TRUE, emptyRepeatBlocked |-> FALSE]

(* The states a region stands for.                                         *)
Points(r) ==
  UNION {{[done |-> o, at |-> r.index, count |-> n] : n \in At(r.low, o) .. At(r.high, o)} :
           o \in r.outer .. r.outerMaximum}

-----------------------------------------------------------------------------
(* Mutant: the quotient is truncated, as QuoRem leaves it.                 *)
FloorTruncated(n, d) ==
  LET size(k) == IF k < 0 THEN -k ELSE k
      quotient == size(n) \div size(d) IN
  IF (n < 0) = (d < 0) THEN quotient ELSE -quotient

(* floorBigIntQuotient and ceilBigIntQuotient, for divisors of either sign. *)
Floor(n, d) == IF d > 0 THEN n \div d ELSE (-n) \div (-d)
Ceil(n, d) == -Floor(-n, d)

(* sequenceCandidateOuterSubset: at most one region.                       *)
OuterSubset(r, minimum, maximum) ==
  LET lower == Max({r.outer, minimum})
      upper == Min({r.outerMaximum, maximum}) IN
  IF lower > upper THEN <<>>
  ELSE <<[r EXCEPT !.outer = lower, !.outerMaximum = upper]>>

(* sequenceCandidateOuterWhere: where the line is at most the limit, or at *)
(* least.                                                                  *)
WhereAtMost(r, line, limit) ==
  LET room == limit - line.intercept IN
  CASE line.slope = 0 -> IF room >= 0 THEN <<r>> ELSE <<>>
    [] line.slope > 0 -> OuterSubset(r, r.outer, Floor(room, line.slope))
    [] line.slope < 0 -> OuterSubset(r, Ceil(room, line.slope), r.outerMaximum)

WhereAtLeast(r, line, limit) ==
  LET room == limit - line.intercept IN
  CASE line.slope = 0 -> IF room <= 0 THEN <<r>> ELSE <<>>
    [] line.slope > 0 -> OuterSubset(r, Ceil(room, line.slope), r.outerMaximum)
    [] line.slope < 0 -> OuterSubset(r, r.outer, Floor(room, line.slope))

ConcatMap(Op(_), s) == FlattenSeq([i \in DOMAIN s |-> Op(s[i])])
Only(Test(_), s) == FlattenSeq([i \in DOMAIN s |-> IF Test(s[i]) THEN <<s[i]>> ELSE <<>>])

(* sequenceCandidateConsume: one more element of the particle, where its   *)
(* maximum allows; counts that reach the maximum are cut off.              *)
Consume(r, maximum) ==
  LET counted(s) == [s EXCEPT !.low = Plus(@, 1), !.high = Plus(@, 1)]
      cut(s) == [s EXCEPT !.low = Plus(@, 1), !.high = Constant(maximum)]
      segment(s) == LET below == WhereAtMost(s, s.high, maximum - 1)
                        reached == WhereAtLeast(s, s.high, maximum) IN
                    [i \in DOMAIN below |-> counted(below[i])]
                      \o [i \in DOMAIN reached |-> cut(reached[i])] IN
  IF maximum = Unbounded THEN <<counted(r)>>
  ELSE ConcatMap(segment, WhereAtMost(r, r.low, maximum - 1))

Restarted(r, index) == [r EXCEPT !.index = index, !.low = Constant(0), !.high = Constant(0)]

-----------------------------------------------------------------------------
SameState(r, s) ==
  /\ r.index = s.index
  /\ r.currentEmpty = s.currentEmpty
  /\ r.emptyRepeatBlocked = s.emptyRepeatBlocked

CountContainsAt(r, s, outer) ==
  At(r.low, outer) <= At(s.low, outer) /\ At(r.high, outer) >= At(s.high, outer)

(* sequenceCandidateContains for one existing region: lines that keep      *)
(* their order at both ends keep it between them.                          *)
ContainsRegion(r, s) ==
  /\ SameState(r, s)
  /\ r.outer <= s.outer /\ s.outerMaximum <= r.outerMaximum
  /\ CountContainsAt(r, s, s.outer) /\ CountContainsAt(r, s, s.outerMaximum)

(* sequenceCandidateIntegerIntervalsTouch.                                 *)
Touch(low, high, otherLow, otherHigh) == high + 1 >= otherLow /\ otherHigh + 1 >= low

CountsTouchAt(r, s, outer) ==
  Touch(At(r.low, outer), At(r.high, outer), At(s.low, outer), At(s.high, outer))

(* sequenceCandidateMerge: two regions over the same iterations with       *)
(* parallel lines, or with the same lines over adjoining iterations.       *)
Parallel(r, s) ==
  /\ r.outer = s.outer /\ r.outerMaximum = s.outerMaximum
  /\ r.low.slope = s.low.slope /\ r.high.slope = s.high.slope
  /\ CountsTouchAt(r, s, r.outer)

Adjoining(r, s) ==
  /\ r.low = s.low /\ r.high = s.high
  /\ Touch(r.outer, r.outerMaximum, s.outer, s.outerMaximum)

Mergeable(r, s) == SameState(r, s) /\ (Parallel(r, s) \/ Adjoining(r, s))

Merge(r, s) ==
  IF Parallel(r, s)
    THEN [r EXCEPT !.low.intercept = Min({@, s.low.intercept}),
                   !.high.intercept = Max({@, s.high.intercept})]
    ELSE [r EXCEPT !.outer = Min({@, s.outer}), !.outerMaximum = Max({@, s.outerMaximum})]

(* appendSequenceCandidateRegion: the first region that contains, is       *)
(* contained in, or merges with the candidate decides what happens next;   *)
(* each round but the last takes a region away.                            *)
AppendRound(t) ==
  LET meets(s) == ContainsRegion(s, t.new) \/ ContainsRegion(t.new, s) \/ Mergeable(s, t.new)
      i == SelectInSeq(t.regions, meets) IN
  IF i = 0 \/ ContainsRegion(t.regions[i], t.new) THEN t
  ELSE [regions |-> RemoveAt(t.regions, i),
        new |-> IF ContainsRegion(t.new, t.regions[i]) THEN t.new ELSE Merge(t.regions[i], t.new)]

AppendRegion(regions, r) ==
  LET round[n \in 0 .. Len(regions)] ==
        IF n = 0 THEN [regions |-> regions, new |-> r] ELSE AppendRound(round[n - 1])
      last == round[Len(regions)] IN
  IF \E s \in ToSet(last.regions) : ContainsRegion(s, last.new) THEN last.regions
  ELSE Append(last.regions, last.new)

AppendRegions(more) ==
  LET added[n \in 0 .. Len(more)] ==
        IF n = 0 THEN <<>> ELSE AppendRegion(added[n - 1], more[n]) IN
  added[Len(more)]

-----------------------------------------------------------------------------
(* sequenceCandidateBreakpoints: where regions begin and end, and where    *)
(* two lines, or a line and the neighbour of another, change their order.  *)
LineTransition(a, b, offset) ==
  LET slope == a.slope - b.slope
      limit == b.intercept + offset - a.intercept IN
  IF slope > 0 THEN Floor(limit, slope) + 1 ELSE Ceil(limit, slope)

Breakpoints(group) ==
  LET lines == FlattenSeq([i \in DOMAIN group |-> <<group[i].low, group[i].high>>])
      crossing == {c \in (DOMAIN lines) \X (DOMAIN lines) :
                     c[1] < c[2] /\ lines[c[1]].slope # lines[c[2]].slope} IN
  {r.outer : r \in ToSet(group)} \cup {r.outerMaximum + 1 : r \in ToSet(group)}
    \cup {LineTransition(lines[c[1]], lines[c[2]], offset) : c \in crossing, offset \in {-1, 0, 1}}

(* compactSequenceCandidateGroup, between two breakpoints: the regions     *)
(* that are active, by their counts at the first, those that touch joined. *)
ActiveAt(r, outer) == r.outer <= outer /\ outer <= r.outerMaximum

SortRegions(regions, before(_, _)) ==
  LET order(i, j) ==
        \/ before(regions[i], regions[j])
        \/ ~ before(regions[j], regions[i]) /\ i < j
      rank(i) == Cardinality({j \in DOMAIN regions : order(j, i)}) + 1 IN
  [k \in DOMAIN regions |-> regions[CHOOSE i \in DOMAIN regions : rank(i) = k]]

Ascending(S) ==
  [k \in 1 .. Cardinality(S) |-> CHOOSE n \in S : Cardinality({m \in S : m < n}) = k - 1]

(* The higher of two touching regions extends the lower one.               *)
Extend(r, s, outer) ==
  [r EXCEPT !.low = IF At(s.low, outer) < At(@, outer) THEN s.low ELSE @,
            !.high = IF At(s.high, outer) > At(@, outer) THEN s.high ELSE @]

Join(components, r, outer) ==
  LET n == Len(components) IN
  IF n = 0 \/ ~ CountsTouchAt(components[n], r, outer) THEN Append(components, r)
  ELSE [components EXCEPT ![n] = Extend(@, r, outer)]

Active(group, first) ==
  LET isActive(r) == ActiveAt(r, first)
      before(r, s) ==
        \/ At(r.low, first) < At(s.low, first)
        \/ At(r.low, first) = At(s.low, first) /\ At(r.high, first) < At(s.high, first) IN
  SortRegions(Only(isActive, group), before)

Components(group, first, last) ==
  LET active == Active(group, first)
      clipped(r) == [r EXCEPT !.outer = first, !.outerMaximum = last]
      joined[n \in 0 .. Len(active)] ==
        IF n = 0 THEN <<>> ELSE Join(joined[n - 1], clipped(active[n]), first) IN
  joined[Len(active)]

(* compactSequenceCandidateRows: regions of one iteration each, over       *)
(* consecutive iterations and with their counts on two lines, become one.  *)
(* The rows lie on the lines, so the quotients are exact.                  *)
FromRows(first, last) ==
  LET distance == last.outer - first.outer
      through(a, b) == LET slope == Floor(b - a, distance) IN Line(slope, a - slope * first.outer) IN
  [first EXCEPT !.outerMaximum = last.outer,
                !.low = through(At(first.low, first.outer), At(last.low, last.outer)),
                !.high = through(At(first.high, first.outer), At(last.high, last.outer))]

IsRow(r) == r.outer = r.outerMaximum

(* Mutant: only the lower count is compared.                               *)
RowMatchesLowOnly(r, region) == At(r.low, r.outer) = At(region.low, r.outer)

RowMatches(r, region) ==
  At(r.low, r.outer) = At(region.low, r.outer) /\ At(r.high, r.outer) = At(region.high, r.outer)

RowsUpTo(regions, i) ==
  {e \in i + 1 .. Len(regions) :
     /\ \A k \in i .. e : IsRow(regions[k]) /\ regions[k].outer = regions[i].outer + (k - i)
     /\ \A k \in i .. e : RowMatches(regions[k], FromRows(regions[i], regions[i + 1]))}

JoinRow(regions, t) ==
  LET ends == RowsUpTo(regions, t.next) IN
  CASE t.next > Len(regions) -> t
    [] t.next <= Len(regions) /\ ends = {} ->
         [next |-> t.next + 1, result |-> AppendRegion(t.result, regions[t.next])]
    [] t.next <= Len(regions) /\ ends # {} ->
         [next |-> Max(ends) + 1,
          result |-> AppendRegion(t.result, FromRows(regions[t.next], regions[Max(ends)]))]

JoinRows(regions) ==
  LET joined[n \in 0 .. Len(regions)] ==
        IF n = 0 THEN [next |-> 1, result |-> <<>>] ELSE JoinRow(regions, joined[n - 1]) IN
  joined[Len(regions)].result

CompactRows(regions) ==
  LET key(r) == <<r.outer, r.outerMaximum, At(r.low, r.outer), At(r.high, r.outer)>>
      before(r, s) ==
        \E k \in 1 .. 4 : key(r)[k] < key(s)[k] /\ \A j \in 1 .. k - 1 : key(r)[j] = key(s)[j] IN
  JoinRows(SortRegions(regions, before))

(* Mutant: the regions are not split at the breakpoints.                    *)
CompactGroupWhole(group) == CompactRows(AppendRegions(group))

CompactGroup(group) ==
  LET breakpoints == Ascending(Breakpoints(group))
      segment(i) == Components(group, breakpoints[i], breakpoints[i + 1] - 1) IN
  CompactRows(AppendRegions(FlattenSeq([i \in 1 .. Len(breakpoints) - 1 |-> segment(i)])))

(* compactSequenceCandidates: one group per particle and pair of flags.    *)
Compact(regions, end) ==
  LET flags == <<<<FALSE, FALSE>>, <<FALSE, TRUE>>, <<TRUE, FALSE>>, <<TRUE, TRUE>>>>
      group(n) ==
        LET belongs(r) ==
              /\ r.index = 1 + ((n - 1) \div 4)
              /\ <<r.currentEmpty, r.emptyRepeatBlocked>> = flags[1 + ((n - 1) % 4)] IN
        Only(belongs, regions) IN
  FlattenSeq([n \in 1 .. 4 * end |-> IF group(n) = <<>> THEN <<>> ELSE CompactGroup(group(n))])
=============================================================================
