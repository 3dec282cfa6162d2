---------------------------- MODULE SequenceMatch ----------------------------
(***************************************************************************)
(* The streaming validator of a direct sequence (validation_sequence.go):  *)
(* it follows the children of one element through every way to attribute   *)
(* them to the particles and iterations of the sequence, with regions      *)
(* (SequenceRegions) instead of single states.  A child is abstracted to   *)
(* the particles that declare its name, and, once its text is known, to    *)
(* those of them whose type accepts it.                                    *)
(***************************************************************************)
EXTENDS SequenceRegions

CONSTANTS
  Programs,  \* the compiled sequences of this instance
  MaxWord    \* bound on the children

Unknown == "unknown"    \* a name no particle has
NoName == "none yet"    \* of no child

(* A program: the occurrences of the sequence and, per particle, its name  *)
(* and occurrences.  Particles that cannot occur are not compiled.         *)
Maxima == Nat \cup {Unbounded}
IsRange(range) == range.max # Unbounded => range.max >= 1 /\ range.min <= range.max

ASSUME SequenceAssumption ==
  /\ MaxWord \in Nat
  /\ \A p \in Programs :
       /\ p.outer \in [min : Nat, max : Maxima] /\ IsRange(p.outer)
       /\ LET names == {p.particles[i].name : i \in DOMAIN p.particles} IN
            /\ p.particles \in Seq([name : names, min : Nat, max : Maxima])
            /\ names \cap {Unknown, NoName} = {}
       /\ \A i \in DOMAIN p.particles : IsRange(p.particles[i])

VARIABLES
  program,   \* instanceSequenceValidator.program
  phase,     \* between events, or in sequenceClosure
  frontier,  \* validator.frontier; the closure's result while it runs
  queue,     \* sequenceClosure's queue, from queueIndex on
  paths,     \* open.paths: the regions that fit the open child
  name,      \* the name of the open child
  previous,  \* validator.previous
  starts,    \* the frontier after the root's start tag
  code,      \* the code of the first diagnostic
  word       \* history: per completed child, the particles that accept it

vars == <<program, phase, frontier, queue, paths, name, previous, starts, code, word>>

Particles == DOMAIN program.particles
End == Len(program.particles) + 1
Names == {program.particles[i].name : i \in Particles}

(* sequenceBodyCanBeEmpty.                                                 *)
BodyCanBeEmpty == \A i \in Particles : program.particles[i].min = 0

(* sequenceCandidateStart: another iteration may begin.                    *)
StartOf(r) ==
  IF program.outer.max = Unbounded THEN <<r>>
  ELSE OuterSubset(r, r.outer, program.outer.max - 1)

(* Mutant: the minimum counts iterations that take nothing.                *)
OuterAllowedCountsEmpty(r) ==
  OuterSubset(r, program.outer.min, IF program.outer.max = Unbounded THEN r.outerMaximum
                                    ELSE program.outer.max)

(* sequenceCandidateOuterAllowedSubset: the content may end here.          *)
OuterAllowed(r) ==
  LET minimum == IF BodyCanBeEmpty THEN 0 ELSE program.outer.min IN
  OuterSubset(r, minimum, IF program.outer.max = Unbounded THEN r.outerMaximum
                          ELSE program.outer.max)

-----------------------------------------------------------------------------
(* sequenceClosure, the body of its loop: where a region leads without a   *)
(* child.  From the end of the body, into another iteration, unless two    *)
(* empty ones would follow each other ...                                  *)
NextIteration(r) ==
  LET begin(s) == [Restarted(s, 1) EXCEPT !.currentEmpty = TRUE,
                                          !.emptyRepeatBlocked = s.currentEmpty]
      mayBegin(s) == ~ (s.currentEmpty /\ s.emptyRepeatBlocked)
      starting == Only(mayBegin, StartOf(r)) IN
  [i \in DOMAIN starting |-> begin(starting[i])]

(* ... from the beginning of an iteration, back to where the content may   *)
(* end ...                                                                 *)
CountIsZero(r) ==
  \A outer \in {r.outer, r.outerMaximum} : At(r.low, outer) = 0 /\ At(r.high, outer) = 0

BeforeIteration(r) ==
  LET finish(s) == [Restarted(s, End) EXCEPT !.currentEmpty = FALSE,
                                             !.emptyRepeatBlocked = FALSE] IN
  IF r.index = 1 /\ r.currentEmpty /\ CountIsZero(r)
    THEN [i \in DOMAIN OuterAllowed(r) |-> finish(OuterAllowed(r)[i])]
    ELSE <<>>

(* ... and past a particle that has occurred often enough.  An iteration   *)
(* that took no child is not counted.                                      *)
PastParticle(r) ==
  LET skipped == WhereAtLeast(r, r.high, program.particles[r.index].min)
      pass(s) ==
        LET next == Restarted(s, s.index + 1) IN
        IF next.index = End /\ ~ next.currentEmpty
          THEN [next EXCEPT !.outer = @ + 1, !.outerMaximum = @ + 1]
          ELSE next IN
  [i \in DOMAIN skipped |-> pass(skipped[i])]

Successors(r) ==
  IF r.index = End THEN NextIteration(r) ELSE BeforeIteration(r) \o PastParticle(r)

Contained(regions, r) == \E i \in DOMAIN regions : ContainsRegion(regions[i], r)

(* A sequence without particles has no candidates at all.                  *)
BeginClosure(regions, then) ==
  /\ frontier' = <<>>
  /\ queue' = IF Particles = {} THEN <<>> ELSE regions
  /\ phase' = then

Closing == phase \in {"closing root", "closing child", "closing end"}

CloseRegion ==
  /\ Closing /\ queue # <<>>
  /\ LET r == Head(queue) IN
       IF Contained(frontier, r)
         THEN frontier' = frontier /\ queue' = Tail(queue)
         ELSE frontier' = Append(frontier, r) /\ queue' = Tail(queue) \o Successors(r)
  /\ UNCHANGED <<program, phase, paths, name, previous, starts, code, word>>

-----------------------------------------------------------------------------
Init ==
  /\ program \in Programs
  /\ phase = "closing root"
  /\ frontier = <<>> /\ queue = IF Particles = {} THEN <<>> ELSE <<Initial>>
  /\ paths = <<>> /\ name = Unknown /\ previous = NoName
  /\ starts = <<>>
  /\ code = "none"
  /\ word = <<>>

(* The closure is compacted and the next event awaited.                    *)
Closed ==
  /\ phase \in {"closing root", "closing child"} /\ queue = <<>>
  /\ frontier' = Compact(frontier, End)
  /\ phase' = "content"
  /\ starts' = IF phase = "closing root" THEN frontier' ELSE starts
  /\ UNCHANGED <<program, queue, paths, name, previous, code, word>>

-----------------------------------------------------------------------------
(* startElement of a child: the regions at a particle of its name that can *)
(* count one more.                                                         *)
Fitting(regions, n) ==
  LET fit(r) ==
        LET next == Consume(r, program.particles[r.index].max) IN
        IF r.index = End \/ program.particles[r.index].name # n THEN <<>>
        ELSE [i \in DOMAIN next |-> [next[i] EXCEPT !.currentEmpty = FALSE,
                                                    !.emptyRepeatBlocked = FALSE]] IN
  ConcatMap(fit, regions)

(* sequenceOuterMaximumReached.                                            *)
OuterMaximumReached ==
  /\ program.outer.max # Unbounded
  /\ \E r \in ToSet(frontier) : r.index = End /\ ActiveAt(r, program.outer.max)

(* Mutant: whether the child could begin an iteration is not asked.        *)
ChildFailureCodeAnyBegin(n) ==
  CASE OuterMaximumReached \/ n = previous -> "occurrence"
    [] ~ (OuterMaximumReached \/ n = previous) /\ n \in Names -> "order"
    [] OTHER -> "unexpected"

(* sequenceChildFailureCode of a sequence of precisionDecimal particles.   *)
(* starts is the closure that sequenceCanBeginWith computes again.         *)
ChildFailureCode(n) ==
  CASE \/ OuterMaximumReached /\ Fitting(starts, n) # <<>>
       \/ n = previous -> "occurrence"
    [] ~ (\/ OuterMaximumReached /\ Fitting(starts, n) # <<>>
          \/ n = previous) /\ n \in Names -> "order"
    [] OTHER -> "unexpected"

StartChild ==
  /\ phase = "content" /\ Len(word) < MaxWord
  /\ \E n \in Names \cup {Unknown} :
       /\ name' = n
       /\ paths' = Fitting(frontier, n)
       /\ IF paths' = <<>>
            THEN phase' = "rejected" /\ code' = ChildFailureCode(n) /\ frontier' = <<>>
            ELSE phase' = "child" /\ UNCHANGED <<code, frontier>>
  /\ UNCHANGED <<program, queue, previous, starts, word>>

(* endElement of a child: only the paths whose particle accepts its text   *)
(* go on; two particles of one name need not have the same type.           *)
EndChild ==
  /\ phase = "child"
  /\ \E accepting \in SUBSET {i \in Particles : program.particles[i].name = name} :
       LET accepts(r) == r.index \in accepting
           valid == Only(accepts, paths) IN
       /\ word' = Append(word, accepting)
       /\ IF valid = <<>>
            THEN phase' = "rejected" /\ code' = "value" /\ frontier' = <<>>
                 /\ UNCHANGED <<previous, queue>>
            ELSE BeginClosure(valid, "closing child") /\ previous' = name /\ code' = code
  /\ paths' = <<>>
  /\ UNCHANGED <<program, name, starts>>

(* A child with an element inside, or the parent with text.                *)
WrongContent ==
  /\ phase \in {"child", "content"}
  /\ phase' = "rejected" /\ code' = "content"
  /\ frontier' = IF phase = "child" THEN <<>> ELSE frontier
  /\ UNCHANGED <<program, queue, paths, name, previous, starts, word>>

(* endElement of the root: sequenceAccepts closes the frontier again.      *)
EndRoot ==
  /\ phase = "content"
  /\ BeginClosure(frontier, "closing end")
  /\ UNCHANGED <<program, paths, name, previous, starts, code, word>>

Decide ==
  LET closed == Compact(frontier, End)
      accepts == Particles = {} \/ \E r \in ToSet(closed) : r.index = End /\ OuterAllowed(r) # <<>> IN
  /\ phase = "closing end" /\ queue = <<>>
  /\ phase' = IF accepts THEN "accepted" ELSE "rejected"
  /\ code' = IF accepts THEN code ELSE "missing"
  /\ frontier' = closed
  /\ UNCHANGED <<program, queue, paths, name, previous, starts, word>>

Next ==
  \/ CloseRegion \/ Closed
  \/ StartChild \/ EndChild \/ WrongContent
  \/ EndRoot \/ Decide

Spec == Init /\ [][Next]_vars

-----------------------------------------------------------------------------
TypeOK ==
  /\ program \in Programs
  /\ phase \in {"closing root", "content", "child", "closing child", "closing end",
                "accepted", "rejected"}
  /\ \A r \in ToSet(frontier \o queue \o paths \o starts) :
       /\ r.index \in 1 .. End /\ {r.currentEmpty, r.emptyRepeatBlocked} \subseteq BOOLEAN
       /\ r.outer >= 0 /\ Points(r) # {}
  /\ name \in Names \cup {Unknown} /\ previous \in Names \cup {NoName}
  /\ code \in {"none", "occurrence", "order", "unexpected", "value", "content", "missing"}
  /\ word \in Seq(SUBSET Particles) /\ Len(word) <= MaxWord

(* The automaton of a program, one state at a time: done iterations are    *)
(* complete, and count elements of particle at have been taken; at is 0    *)
(* before the first child.                                                 *)
Skippable(p, i, j) == \A k \in i + 1 .. j - 1 : p.particles[k].min = 0
Below(n, maximum) == maximum = Unbounded \/ n < maximum
Enough(p, q) == q.at = 0 \/ q.count >= p.particles[q.at].min

Take(p, q, j) ==
  LET state(d, n) == [done |-> d, at |-> j, count |-> n] IN
  {s \in {state(q.done, q.count + 1)} : j = q.at /\ Below(q.count, p.particles[j].max)}
    \cup {s \in {state(q.done, 1)} : j > q.at /\ Enough(p, q) /\ Skippable(p, q.at, j)}
    \cup {s \in {state(q.done + 1, 1)} :
            /\ q.at # 0 /\ Enough(p, q) /\ Skippable(p, q.at, Len(p.particles) + 1)
            /\ Below(q.done + 1, p.outer.max) /\ Skippable(p, 0, j)}

Reached(p, children) ==
  LET after[n \in 0 .. Len(children)] ==
        IF n = 0 THEN {[done |-> 0, at |-> 0, count |-> 0]}
        ELSE UNION {Take(p, q, j) : q \in after[n - 1], j \in children[n]} IN
  after[Len(children)]

Declaring(n) == {i \in Particles : program.particles[i].name = n}
WithName == Append(word, Declaring(name))

(* The children may end in a state: its iteration is complete, and there   *)
(* are as many as the sequence asks for, empty ones included, and allows.  *)
Ends(p, q) ==
  LET end == Len(p.particles) + 1
      done == IF q.at = 0 THEN q.done ELSE q.done + 1 IN
  /\ q.at # 0 => Enough(p, q) /\ Skippable(p, q.at, end)
  /\ Skippable(p, 0, end) \/ done >= p.outer.min
  /\ p.outer.max = Unbounded \/ done <= p.outer.max

(* No state is lost (validation_sequence.go:638-665, 922-1056), whatever   *)
(* was merged, cut or extrapolated on the way: the paths of an open child  *)
(* hold every state of the automaton, and a child or an end is rejected    *)
(* only when no state takes it.                                            *)
NoStateLost ==
  /\ phase = "child" => Reached(program, WithName) \subseteq UNION {Points(r) : r \in ToSet(paths)}
  /\ code \in {"occurrence", "order", "unexpected"} => Reached(program, WithName) = {}
  /\ code = "value" => Reached(program, word) = {}
  /\ code = "missing" => \A q \in Reached(program, word) : ~ Ends(program, q)

(* The grammar, read off the occurrence ranges: the children are a number  *)
(* of bodies the sequence allows, each with a number of elements each      *)
(* particle allows, in order.                                              *)
UpTo(maximum, n) == IF maximum = Unbounded \/ maximum > n THEN n ELSE maximum

Bodies ==
  LET add(bodies, i) ==
        {b \o [k \in 1 .. n |-> i] : b \in bodies,
           n \in program.particles[i].min .. UpTo(program.particles[i].max, Len(word))}
      fits(b) == Len(b) <= Len(word) IN
  FoldLeft(LAMBDA bodies, i : {b \in add(bodies, i) : fits(b)}, {<<>>},
           [i \in Particles |-> i])

Repeated[n \in Nat] ==
  IF n = 0 THEN {<<>>}
  ELSE {b \in {r \o s : r \in Repeated[n - 1], s \in Bodies} : Len(b) <= Len(word)}

InGrammar ==
  LET most == UpTo(program.outer.max, Max({program.outer.min, Len(word)})) IN
  \E n \in program.outer.min .. most : \E attribution \in Repeated[n] :
    /\ Len(attribution) = Len(word)
    /\ \A i \in DOMAIN word : attribution[i] \in word[i]

(* Nor is a state invented: the paths of an open child hold states of the  *)
(* automaton only, and the verdict at the end of the parent is that of the *)
(* grammar (sequenceAccepts, validation_sequence.go:907-920).              *)
MatchesGrammar ==
  /\ phase = "child" => UNION {Points(r) : r \in ToSet(paths)} \subseteq Reached(program, WithName)
  /\ phase = "accepted" => InGrammar
  /\ code = "missing" => ~ InGrammar

(* Compaction leaves no state in two regions (validation_sequence.go:      *)
(* 1459-1537), so the frontier never holds more regions than the automaton *)
(* has states.                                                             *)
FrontierDisjoint ==
  phase = "content" =>
    \A i, j \in DOMAIN frontier :
      i # j /\ SameState(frontier[i], frontier[j]) => Points(frontier[i]) \cap Points(frontier[j]) = {}

(* The codes of a rejected child keep to validation.go:37-45: the child    *)
(* violates an occurrence bound only if it fits once all maxima are        *)
(* lifted; any other declared child is out of order; an unexpected one is  *)
(* not declared.                                                           *)
Lifted ==
  [outer |-> [program.outer EXCEPT !.max = Unbounded],
   particles |-> [i \in Particles |-> [program.particles[i] EXCEPT !.max = Unbounded]]]

CodesMeanWhatTheySay ==
  /\ code = "occurrence" => Reached(Lifted, WithName) # {}
  /\ code \in {"occurrence", "order"} => name \in Names
  /\ code = "unexpected" => name \notin Names
=============================================================================
