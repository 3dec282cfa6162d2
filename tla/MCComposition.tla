---------------------------- MODULE MCComposition ----------------------------
(* TLC instance of Composition: every small reference list, and deeper     *)
(* forests, in which a root that declares no namespace imports k documents *)
(* of one, and those include one another.                                  *)
EXTENDS Composition

CONSTANTS ForestDocs, ForestEdges, Namespace

RootImports(k) == [i \in 1 .. k |-> [source |-> 1, target |-> i + 1, ref |-> Import(Namespace)]]

ForestIncludes(k) ==
  [1 .. k -> [source : 2 .. ForestDocs, target : 2 .. ForestDocs, ref : {Include}]]

ForestInit ==
  /\ \E k \in 1 .. ForestDocs - 1 : \E more \in 0 .. ForestEdges - k :
       edges \in {RootImports(k) \o es : es \in ForestIncludes(more)}
  /\ \A j \in DOMAIN edges : Follows(SubSeq(edges, 1, j - 1), edges[j])
  /\ declared = [d \in FoundBy(edges) |-> IF d = 1 THEN NoNS ELSE Namespace]
  /\ Begin

AllSpec == (Init \/ ForestInit) /\ [][Next]_vars /\ WF_vars(Next)
=============================================================================
