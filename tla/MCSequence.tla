------------------------------ MODULE MCSequence ------------------------------
(* TLC instance of SequenceMatch: one, two and three particles.             *)
EXTENDS SequenceMatch

Occurs(min, max) == [min |-> min, max |-> max]
Particle(n, range) == [name |-> n, min |-> range.min, max |-> range.max]
Program(outer, particles) == [outer |-> outer, particles |-> particles]

Inner == {Occurs(0, 1), Occurs(1, 1), Occurs(1, 2), Occurs(2, 3), Occurs(2, Unbounded)}
Outer == {Occurs(1, 1), Occurs(0, 2), Occurs(2, 3), Occurs(1, Unbounded)}

Singles == {Program(o, <<Particle("a", r)>>) : o \in Outer, r \in Inner}
Pairs ==
  {Program(o, <<Particle("a", r), Particle(n, s)>>) :
     o \in Outer, n \in {"a", "b"}, r \in Inner, s \in Inner}
Triples ==
  {Program(Occurs(1, 3), <<Particle("a", r), Particle("b", s), Particle("a", t)>>) :
     r \in Inner, s \in {Occurs(0, 1), Occurs(1, 2)}, t \in {Occurs(0, 1), Occurs(1, 2)}}
NoParticles == {Program(o, <<>>) : o \in Outer}

InstancePrograms == NoParticles \cup Singles \cup Pairs \cup Triples
=============================================================================
