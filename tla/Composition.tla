----------------------------- MODULE Composition -----------------------------
(***************************************************************************)
(* The composition of discovered documents (schema_build.go): the          *)
(* namespaces that chameleon documents adopt from their includers, the     *)
(* check of every include and import, and the documents each document can  *)
(* see, computed with a union-find over the includes.  A document is its   *)
(* index in discovery order and the targetNamespace it declares.           *)
(***************************************************************************)
EXTENDS Naturals, Sequences

CONSTANTS
  Namespaces,  \* the values of targetNamespace
  NoNS,        \* no targetNamespace, no namespace attribute
  MaxDocs,     \* bound on the documents
  MaxEdges,    \* bound on the references
  References   \* the kinds of reference of this instance

(* What a reference asks for: an include, or an import of a namespace, of  *)
(* none, or with an empty namespace attribute.                             *)
Include == [kind |-> "include", urn |-> NoNS]
Empty == "empty"
Import(urn) == [kind |-> "import", urn |-> urn]
AllReferences == {Include} \cup {Import(urn) : urn \in Namespaces \cup {NoNS, Empty}}

ASSUME CompositionAssumption ==
  /\ NoNS \notin Namespaces /\ Empty \notin Namespaces /\ Empty # NoNS
  /\ MaxDocs \in Nat \ {0} /\ MaxEdges \in Nat
  /\ References \subseteq AllReferences

VARIABLES
  declared,   \* declared namespace per document (syntaxDocumentTargetNamespace)
  edges,      \* syntaxDiscoveryResult.edges
  effective,  \* namespace per document after adoption
  phase,      \* the function at work
  cursor,     \* the edge or document it is at
  inner,      \* the edge, while the imports of one document are followed
  rank,       \* the member, while an imported class is listed
  changed,    \* the current adoption pass adopted something
  parents,    \* union-find forest over the documents
  node,       \* where schemaVisibilityFind stands
  leftRoot,   \* the root of the edge's source, or of the document
  members,    \* per root, the documents of its class, in order
  visible     \* per finished document, the documents it sees, in order

inputs == <<declared, edges>>
namespaces == <<effective, changed>>
forest == <<parents, node, leftRoot>>
result == <<members, visible>>
vars == <<declared, edges, effective, phase, cursor, inner, rank, changed, parents, node,
          leftRoot, members, visible>>

Docs == DOMAIN declared
Present(namespace) == namespace # NoNS
IsInclude(i) == edges[i].ref.kind = "include"

(* The reference lists Discovery can hand over: references in               *)
(* the order of their source, each from a document already found to one    *)
(* already found or to the next new one.                                   *)
FoundBy(es) == {1} \cup {es[i].target : i \in DOMAIN es}
Edge == [source : 1 .. MaxDocs, target : 1 .. MaxDocs, ref : References]

Follows(es, e) ==
  /\ e.source \in FoundBy(es)
  /\ \A d \in 1 .. e.target - 1 : d \in FoundBy(es)
  /\ \A i \in DOMAIN es : es[i].source <= e.source

Discovered ==
  {es \in UNION {[1 .. k -> Edge] : k \in 0 .. MaxEdges} :
     \A i \in DOMAIN es : Follows(SubSeq(es, 1, i - 1), es[i])}

-----------------------------------------------------------------------------
Begin ==
  /\ effective = declared
  /\ phase = "adopt" /\ cursor = 1 /\ inner = 1 /\ rank = 1 /\ changed = FALSE
  /\ parents = [d \in Docs |-> d]
  /\ node = 1 /\ leftRoot = 1
  /\ members = [d \in Docs |-> <<>>]
  /\ visible = <<>>

Init ==
  /\ edges \in Discovered
  /\ declared \in [FoundBy(edges) -> Namespaces \cup {NoNS}]
  /\ Begin

-----------------------------------------------------------------------------
(* schemaApplyChameleonInclude: an include of a document that declares no  *)
(* namespace by one that has a namespace ...                               *)
Chameleon(i) ==
  /\ IsInclude(i)
  /\ ~ Present(declared[edges[i].target]) /\ Present(effective[edges[i].source])

Adopted(i) == Present(effective[edges[i].target])
Agrees(i) == effective[edges[i].target] = effective[edges[i].source]

(* ... hands the namespace down, once ...                                  *)
Adopt ==
  /\ phase = "adopt" /\ cursor <= Len(edges)
  /\ Chameleon(cursor) /\ ~ Adopted(cursor)
  /\ effective' = [effective EXCEPT ![edges[cursor].target] = effective[edges[cursor].source]]
  /\ changed' = TRUE
  /\ cursor' = cursor + 1
  /\ UNCHANGED <<inputs, phase, inner, rank, forest, result>>

(* ... and a second, different one is an error.                            *)
AdoptConflict ==
  /\ phase = "adopt" /\ cursor <= Len(edges)
  /\ Chameleon(cursor) /\ Adopted(cursor) /\ ~ Agrees(cursor)
  /\ phase' = "failed"
  /\ UNCHANGED <<inputs, namespaces, cursor, inner, rank, forest, result>>

AdoptSkip ==
  /\ phase = "adopt" /\ cursor <= Len(edges)
  /\ Chameleon(cursor) => Adopted(cursor) /\ Agrees(cursor)
  /\ cursor' = cursor + 1
  /\ UNCHANGED <<inputs, namespaces, phase, inner, rank, forest, result>>

(* Mutant: a single pass.                                                  *)
AdoptOnce ==
  /\ phase = "adopt" /\ cursor > Len(edges)
  /\ cursor' = 1 /\ changed' = FALSE
  /\ phase' = "validate"
  /\ UNCHANGED <<inputs, effective, inner, rank, forest, result>>

(* Mutant: the flag of the pass is not reset.                              *)
AdoptForever ==
  /\ phase = "adopt" /\ cursor > Len(edges)
  /\ cursor' = 1 /\ changed' = changed
  /\ phase' = IF changed THEN "adopt" ELSE "validate"
  /\ UNCHANGED <<inputs, effective, inner, rank, forest, result>>

(* Passes are repeated until one adopts nothing.                           *)
AdoptPass ==
  /\ phase = "adopt" /\ cursor > Len(edges)
  /\ cursor' = 1 /\ changed' = FALSE
  /\ phase' = IF changed THEN "adopt" ELSE "validate"
  /\ UNCHANGED <<inputs, effective, inner, rank, forest, result>>

-----------------------------------------------------------------------------
(* validateSchemaInclude.                                                  *)
ValidInclude(parent, declaredChild, effectiveChild) ==
  /\ Present(declaredChild) => parent = declaredChild
  /\ Present(parent) => effectiveChild = parent

(* Mutant: an import may name the importing namespace.                     *)
ValidImportOwn(urn, parent, child) ==
  IF urn # NoNS THEN urn # Empty /\ child = urn
  ELSE Present(parent) /\ ~ Present(child)

(* validateSchemaImport.                                                   *)
ValidImport(urn, parent, child) ==
  IF urn # NoNS THEN urn # Empty /\ urn # parent /\ child = urn
  ELSE Present(parent) /\ ~ Present(child)

(* validateSchemaCompositionEdge.                                          *)
ValidEdge(i) ==
  LET edge == edges[i] IN
  IF IsInclude(i)
    THEN ValidInclude(effective[edge.source], declared[edge.target], effective[edge.target])
    ELSE ValidImport(edge.ref.urn, effective[edge.source], declared[edge.target])

ValidateEdge ==
  /\ phase = "validate" /\ cursor <= Len(edges)
  /\ IF ValidEdge(cursor) THEN cursor' = cursor + 1 /\ phase' = phase
                          ELSE cursor' = cursor /\ phase' = "failed"
  /\ UNCHANGED <<inputs, namespaces, inner, rank, forest, result>>

Validated ==
  /\ phase = "validate" /\ cursor > Len(edges)
  /\ phase' = "parents" /\ cursor' = 1
  /\ UNCHANGED <<inputs, namespaces, inner, rank, forest, result>>

-----------------------------------------------------------------------------
(* schemaVisibilityFind, one turn of its loop: the node is pointed at its  *)
(* grandparent, and the search goes on there.                              *)
Finding == phase \in {"left", "right", "member", "self", "target"}
Found == Finding /\ parents[node] = node

FindHalve ==
  /\ Finding /\ parents[node] # node
  /\ parents' = [parents EXCEPT ![node] = parents[parents[node]]]
  /\ node' = parents[parents[node]]
  /\ UNCHANGED <<inputs, namespaces, phase, cursor, inner, rank, leftRoot, result>>

(* schemaVisibilityParents: every include joins its two documents.         *)
ParentsEdge ==
  /\ phase = "parents" /\ cursor <= Len(edges)
  /\ IF IsInclude(cursor)
       THEN phase' = "left" /\ node' = edges[cursor].source /\ cursor' = cursor
       ELSE cursor' = cursor + 1 /\ UNCHANGED <<phase, node>>
  /\ UNCHANGED <<inputs, namespaces, inner, rank, parents, leftRoot, result>>

UnionLeft ==
  /\ phase = "left" /\ Found
  /\ leftRoot' = node /\ node' = edges[cursor].target
  /\ phase' = "right"
  /\ UNCHANGED <<inputs, namespaces, cursor, inner, rank, parents, result>>

(* Mutant: the source, not its root, is linked.                            *)
UnionRightShallow ==
  /\ phase = "right" /\ Found
  /\ parents' = IF leftRoot < node THEN [parents EXCEPT ![node] = leftRoot]
                ELSE [parents EXCEPT ![edges[cursor].source] = node]
  /\ cursor' = cursor + 1
  /\ phase' = "parents"
  /\ UNCHANGED <<inputs, namespaces, inner, rank, node, leftRoot, result>>

(* schemaVisibilityUnion: the larger root is linked below the smaller.     *)
UnionRight ==
  /\ phase = "right" /\ Found
  /\ parents' = IF leftRoot < node THEN [parents EXCEPT ![node] = leftRoot]
                ELSE [parents EXCEPT ![leftRoot] = node]
  /\ cursor' = cursor + 1
  /\ phase' = "parents"
  /\ UNCHANGED <<inputs, namespaces, inner, rank, node, leftRoot, result>>

ParentsDone ==
  /\ phase = "parents" /\ cursor > Len(edges)
  /\ phase' = "member" /\ cursor' = 1 /\ node' = 1
  /\ UNCHANGED <<inputs, namespaces, inner, rank, parents, leftRoot, result>>

(* schemaVisibilityMembers: every document is listed under its root.       *)
MemberFound ==
  /\ phase = "member" /\ Found
  /\ members' = [members EXCEPT ![node] = Append(@, cursor)]
  /\ IF cursor + 1 \in Docs
       THEN cursor' = cursor + 1 /\ node' = cursor + 1 /\ phase' = phase
       ELSE cursor' = 1 /\ node' = 1 /\ phase' = "self"
  /\ UNCHANGED <<inputs, namespaces, inner, rank, parents, leftRoot, visible>>

-----------------------------------------------------------------------------
(* schemaDocumentVisibleSourcesAt: a document sees its own class ...       *)
SelfFound ==
  /\ phase = "self" /\ Found
  /\ visible' = Append(visible, members[node])
  /\ phase' = "imports" /\ inner' = 1
  /\ UNCHANGED <<inputs, namespaces, cursor, rank, forest, members>>

(* Mutant: the imports of an included document are followed too.           *)
ImportEdgeInherited ==
  /\ phase = "imports" /\ inner <= Len(edges)
  /\ IF ~ IsInclude(inner) /\ parents[edges[inner].source] = parents[cursor]
       THEN phase' = "target" /\ node' = edges[inner].target /\ inner' = inner
       ELSE inner' = inner + 1 /\ UNCHANGED <<phase, node>>
  /\ UNCHANGED <<inputs, namespaces, cursor, rank, parents, leftRoot, result>>

(* ... and, for every import of its own ...                                *)
ImportEdge ==
  /\ phase = "imports" /\ inner <= Len(edges)
  /\ IF ~ IsInclude(inner) /\ edges[inner].source = cursor
       THEN phase' = "target" /\ node' = edges[inner].target /\ inner' = inner
       ELSE inner' = inner + 1 /\ UNCHANGED <<phase, node>>
  /\ UNCHANGED <<inputs, namespaces, cursor, rank, parents, leftRoot, result>>

(* ... each member of the imported document's class that is not listed     *)
(* yet.                                                                    *)
TargetFound ==
  /\ phase = "target" /\ Found
  /\ phase' = "list" /\ rank' = 1
  /\ UNCHANGED <<inputs, namespaces, cursor, inner, forest, result>>

Listed(d) == {visible[d][i] : i \in DOMAIN visible[d]}

ListMember ==
  /\ phase = "list" /\ rank <= Len(members[node])
  /\ LET source == members[node][rank] IN
       visible' = IF source \in Listed(cursor) THEN visible
                  ELSE [visible EXCEPT ![cursor] = Append(@, source)]
  /\ rank' = rank + 1
  /\ UNCHANGED <<inputs, namespaces, phase, cursor, inner, forest, members>>

ListDone ==
  /\ phase = "list" /\ rank > Len(members[node])
  /\ phase' = "imports" /\ inner' = inner + 1
  /\ UNCHANGED <<inputs, namespaces, cursor, rank, forest, result>>

(* Mutant: one document too many.                                          *)
NextVisiblePastEnd ==
  /\ phase = "imports" /\ inner > Len(edges)
  /\ IF cursor \in Docs
       THEN cursor' = cursor + 1 /\ node' = cursor + 1 /\ phase' = "self"
       ELSE phase' = "done" /\ UNCHANGED <<cursor, node>>
  /\ UNCHANGED <<inputs, namespaces, inner, rank, parents, leftRoot, result>>

NextVisible ==
  /\ phase = "imports" /\ inner > Len(edges)
  /\ IF cursor + 1 \in Docs
       THEN cursor' = cursor + 1 /\ node' = cursor + 1 /\ phase' = "self"
       ELSE phase' = "done" /\ UNCHANGED <<cursor, node>>
  /\ UNCHANGED <<inputs, namespaces, inner, rank, parents, leftRoot, result>>

Next ==
  \/ Adopt \/ AdoptConflict \/ AdoptSkip \/ AdoptPass
  \/ ValidateEdge \/ Validated
  \/ FindHalve \/ ParentsEdge \/ UnionLeft \/ UnionRight \/ ParentsDone \/ MemberFound
  \/ SelfFound \/ ImportEdge \/ TargetFound \/ ListMember \/ ListDone \/ NextVisible

Spec == Init /\ [][Next]_vars
FairSpec == Spec /\ WF_vars(Next)

-----------------------------------------------------------------------------
Returned == phase \in {"done", "failed"}

TypeOK ==
  /\ declared \in [Docs -> Namespaces \cup {NoNS}]
  /\ edges \in Seq([source : Docs, target : Docs, ref : References])
  /\ effective \in [Docs -> Namespaces \cup {NoNS}]
  /\ phase \in {"adopt", "validate", "parents", "left", "right", "member", "self",
                "imports", "target", "list", "done", "failed"}
  /\ cursor \in 1 .. Len(edges) + Len(declared) + 1
  /\ inner \in 1 .. Len(edges) + 1 /\ rank \in 1 .. Len(declared) + 1
  /\ changed \in BOOLEAN
  /\ parents \in [Docs -> Docs] /\ node \in Docs /\ leftRoot \in Docs
  /\ members \in [Docs -> Seq(Docs)]
  /\ visible \in Seq(Seq(Docs))

Includes == {i \in DOMAIN edges : IsInclude(i)}

(* The namespaces a document can end up in: the one it declares, or else   *)
(* those that chains of includes through documents without a declaration   *)
(* bring to it.  Stated with closed sets: n is a candidate of d when every *)
(* set that holds the documents declaring n and is closed under such       *)
(* includes holds d.                                                       *)
Candidates(d) ==
  {n \in Namespaces :
     \A S \in SUBSET Docs :
       /\ \A e \in Docs : declared[e] = n => e \in S
       /\ \A i \in Includes :
            edges[i].source \in S /\ ~ Present(declared[edges[i].target]) => edges[i].target \in S
       => d \in S}

(* The fixpoint is independent of the order of the edges                   *)
(* (schema_build.go:917-970): a document is in the one namespace that      *)
(* includes bring to it, and in none when none is brought.                 *)
AdoptionComplete ==
  phase \notin {"adopt", "failed"} =>
    \A d \in Docs : Candidates(d) = {effective[d]} \ {NoNS}

OneOf(candidates) == IF candidates = {} THEN NoNS ELSE CHOOSE n \in candidates : TRUE

(* The verdict (schema_build.go:942-1080) is the one of a definition that  *)
(* knows no passes: every document has at most one candidate namespace,    *)
(* and every reference is valid for those.                                 *)
Acceptable ==
  LET final(d) == OneOf(Candidates(d)) IN
  /\ \A d \in Docs : \A m, n \in Candidates(d) : m = n
  /\ \A i \in DOMAIN edges :
       LET source == edges[i].source
           target == edges[i].target
           urn == edges[i].ref.urn IN
       \/ IsInclude(i) /\ declared[target] \in {NoNS, final(source)}
       \/ ~ IsInclude(i) /\ urn \in Namespaces \ {final(source)} /\ declared[target] = urn
       \/ ~ IsInclude(i) /\ urn = NoNS /\ final(source) # NoNS /\ declared[target] = NoNS

VerdictCorrect == Returned => (phase = "done" <=> Acceptable)

(* The forest and the includes joined so far have the same closed sets, so *)
(* they have the same classes (schema_build.go:1106-1132, 1174-1193): path *)
(* halving and linking neither merge nor split a class, at any moment.     *)
Joined == {i \in Includes : phase \notin {"adopt", "validate", "parents", "left", "right"} \/ i < cursor}

SplitByIncludes(S) == \E i \in Joined : (edges[i].source \in S) # (edges[i].target \in S)
SplitByParents(S) == \E d \in Docs : (d \in S) # (parents[d] \in S)

ForestMatchesIncludes ==
  phase \notin {"adopt", "validate", "failed"} =>
    \A S \in SUBSET Docs : SplitByIncludes(S) <=> SplitByParents(S)

(* The class of d: what every set that no include splits holds with d.     *)
Class(d) ==
  {e \in Docs : \A S \in SUBSET Docs :
     (\A i \in Includes : (edges[i].source \in S) = (edges[i].target \in S)) /\ d \in S => e \in S}

(* "Direct-reference visibility includes the include closure and imports   *)
(* declared by the referring document; an import declared only by an       *)
(* included child is not inherited by its includer"                        *)
(* (docs/decisions/0006-vertical-slice-cli.md:63-66), each document once.  *)
VisibilityMatchesReferences ==
  \A d \in DOMAIN visible :
    (d < cursor \/ phase = "done") =>
      LET sees == {visible[d][i] : i \in DOMAIN visible[d]}
          imported == {edges[i].target : i \in {j \in DOMAIN edges \ Includes : edges[j].source = d}} IN
      /\ sees = Class(d) \cup UNION {Class(t) : t \in imported}
      /\ \A i, j \in DOMAIN visible[d] : visible[d][i] = visible[d][j] => i = j

(* "Chameleon includes adopt the including target namespace" (doc.go:56):  *)
(* once a composition is accepted, both documents of every include are in  *)
(* the same namespace.                                                     *)
IncludesShareNamespace ==
  phase = "done" =>
    \A i \in Includes : effective[edges[i].source] = effective[edges[i].target]

(* The passes of the fixpoint and the loops of the search end              *)
(* (schema_build.go:927-939, 1174-1180), for cyclic includes too.          *)
Termination == <>Returned
=============================================================================
