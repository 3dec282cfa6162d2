------------------------- MODULE CompositionProofs -------------------------
(***************************************************************************)
(* Proofs about Composition, for any graph of documents: the type          *)
(* invariant, that adoption and the verdict are those of a definition      *)
(* without an order, that the union-find forest has the classes of the     *)
(* includes at every step, and that visibility is what the references say. *)
(***************************************************************************)
EXTENDS Composition, TLAPS, WellFoundedInduction

Joining == {"parents", "left", "right"}
Listing == {"member", "self", "imports", "target", "list", "done"}

(* The documents are numbered without a gap, and every place of the code   *)
(* is at a document and a reference there is.                              *)
PlacesSound ==
  /\ declared \in Seq(Namespaces \cup {NoNS}) /\ 1 \in Docs
  /\ phase \in {"adopt", "validate", "parents"} => cursor \in 1 .. Len(edges) + 1
  /\ phase \in {"left", "right"} => cursor \in DOMAIN edges /\ IsInclude(cursor)
  /\ phase \in {"member", "self", "imports", "target", "list"} => cursor \in Docs
  /\ phase \in {"target", "list"} =>
       inner \in DOMAIN edges /\ ~ IsInclude(inner) /\ edges[inner].source = cursor
  /\ phase = "self" => Len(visible) = cursor - 1
  /\ phase \in {"imports", "target", "list", "done"} => Len(visible) = cursor
  /\ phase = "done" => cursor = Len(declared)
  /\ phase \notin Listing => members = [d \in Docs |-> <<>>]
  /\ phase \notin Listing \/ phase = "member" => visible = <<>>
  /\ phase \in {"adopt", "validate"} => parents = [d \in Docs |-> d]
  /\ \A r \in Docs : Len(members[r]) <= IF phase = "member" THEN cursor - 1 ELSE Len(declared)

(* A namespace is adopted only along includes, and a pass that adopts      *)
(* nothing has found nothing to adopt.                                     *)
Settled(i) == Chameleon(i) => Agrees(i)

NamespacesSound ==
  /\ \A d \in Docs : Present(declared[d]) => effective[d] = declared[d]
  /\ \A d \in Docs : Present(effective[d]) => effective[d] \in Candidates(d)
  /\ phase = "adopt" /\ ~ changed => \A i \in DOMAIN edges : i < cursor => Settled(i)
  /\ phase \notin {"adopt", "failed"} => \A i \in DOMAIN edges : Settled(i)

VerdictSound ==
  /\ phase = "validate" => \A i \in DOMAIN edges : i < cursor => ValidEdge(i)
  /\ phase \in Joining \cup Listing => \A i \in DOMAIN edges : ValidEdge(i)
  /\ phase = "failed" => ~ Acceptable

(* Two documents are in one tree of the forest when no set that is closed  *)
(* under parents, both ways, tells them apart.  A search stays in its tree *)
(* and ends at a root.                                                     *)
Same(c, d) == \A S \in SUBSET Docs : ~ SplitByParents(S) => (c \in S <=> d \in S)
IsRoot(d) == parents[d] = d

ForestSound ==
  /\ ForestMatchesIncludes
  /\ phase = "left" => Same(node, edges[cursor].source)
  /\ phase = "right" =>
       Same(node, edges[cursor].target) /\ Same(leftRoot, edges[cursor].source) /\ IsRoot(leftRoot)
  /\ phase \in {"member", "self"} => Same(node, cursor)
  /\ phase \in {"target", "list"} => Same(node, edges[inner].target)
  /\ phase = "list" => IsRoot(node)

(* Every document before the cursor is a member of one root, its own.      *)
MembersSound ==
  /\ \A r \in Docs : \A k \in DOMAIN members[r] :
       /\ IsRoot(r) /\ Same(members[r][k], r)
       /\ phase = "member" => members[r][k] < cursor
       /\ \A l \in DOMAIN members[r] : k < l => members[r][k] < members[r][l]
  /\ phase \in Listing => \A d \in Docs : phase # "member" \/ d < cursor =>
       \E r \in Docs : \E k \in DOMAIN members[r] : members[r][k] = d

(* A finished document sees its class and those of all its imports, the    *)
(* one at work those of the imports so far.                                *)
ImportsOf(d, bound) == {j \in DOMAIN edges : ~ IsInclude(j) /\ edges[j].source = d /\ j < bound}
Sees(d, bound) == Class(d) \cup UNION {Class(edges[j].target) : j \in ImportsOf(d, bound)}

Finished(d) == d < cursor \/ phase = "done"

VisibleSound ==
  \A d \in DOMAIN visible :
    /\ \A i, j \in DOMAIN visible[d] : visible[d][i] = visible[d][j] => i = j
    /\ Finished(d) => Listed(d) = Sees(d, Len(edges) + 1)
    /\ phase \in {"imports", "target"} /\ d = cursor => Listed(d) = Sees(d, inner)
    /\ phase = "list" /\ d = cursor =>
         Listed(d) = Sees(d, inner) \cup {members[node][k] : k \in {l \in DOMAIN members[node] : l < rank}}

-----------------------------------------------------------------------------
(* The input                                                               *)

LEMMA Bounds ==
  /\ MaxDocs \in Nat /\ 1 \in 1 .. MaxDocs /\ NoNS \notin Namespaces
  /\ Empty \notin Namespaces /\ Empty # NoNS
  BY CompositionAssumption

(* Discovery numbers the documents it finds without a gap.                 *)
LEMMA FoundByIsInterval ==
  ASSUME NEW es \in Discovered
  PROVE  \E n \in Nat \ {0} : FoundBy(es) = 1 .. n
  <1> DEFINE Less == {ss \in Nat \X Nat : ss[1] < ss[2]}
             Free == (Nat \ {0}) \ FoundBy(es)
  <1>1. PICK k \in 0 .. MaxEdges : es \in [1 .. k -> Edge]
    BY DEF Discovered
  <1>2. \A i \in 1 .. k : Follows(SubSeq(es, 1, i - 1), es[i])
    BY <1>1 DEF Discovered
  <1>3. \A i \in 1 .. k : es[i].target \in 1 .. MaxDocs
    BY <1>1 DEF Edge
  <1>4. FoundBy(es) \subseteq 1 .. MaxDocs /\ 1 \in FoundBy(es)
    BY <1>1, <1>3, Bounds DEF FoundBy
  <1>5. ASSUME NEW i \in 1 .. k PROVE FoundBy(SubSeq(es, 1, i - 1)) \subseteq FoundBy(es)
    <2>1. es \in Seq(Edge) /\ Len(es) = k
      BY <1>1
    <2>2. DOMAIN SubSeq(es, 1, i - 1) = 1 .. i - 1 /\ \A j \in 1 .. i - 1 : SubSeq(es, 1, i - 1)[j] = es[j]
      BY <2>1
    <2> QED
      BY <1>1, <2>2 DEF FoundBy
  <1>6. ASSUME NEW d \in FoundBy(es), NEW c \in 1 .. d - 1 PROVE c \in FoundBy(es)
    <2>1. d # 1
      BY <1>6
    <2>2. PICK i \in 1 .. k : d = es[i].target
      BY <1>1, <2>1 DEF FoundBy
    <2>3. c \in FoundBy(SubSeq(es, 1, i - 1))
      BY <1>2, <2>2 DEF Follows
    <2> QED
      BY <1>5, <2>3
  <1>7. IsWellFoundedOn(Less, Nat)
    BY NatLessThanWellFounded DEF OpToRel
  <1>8. MaxDocs + 1 \in Free
    BY <1>4, Bounds
  <1>9. PICK m \in Free : \A j \in Free : ~ (<<j, m>> \in Less)
    <2> HIDE DEF Less, Free
    <2>1. Free \subseteq Nat
      BY DEF Free
    <2> QED
      BY <1>7, <1>8, <2>1, WFMin, Zenon
  <1>10. m \in Nat \ {0} /\ m # 1 /\ m \notin FoundBy(es)
    BY <1>4
  <1>11. \A j \in 1 .. m - 1 : j \in FoundBy(es)
    <2> TAKE j \in 1 .. m - 1
    <2>1. j \in Nat \ {0} /\ m \in Nat /\ j < m
      BY <1>10
    <2>2. <<j, m>> \in Less
      BY <2>1
    <2> QED
      BY <1>9, <2>1, <2>2
  <1>12. \A d \in FoundBy(es) : d \in 1 .. m - 1
    <2> TAKE d \in FoundBy(es)
    <2>1. d \in 1 .. MaxDocs
      BY <1>4
    <2>2. CASE d \in 1 .. m - 1
      BY <2>2
    <2>3. CASE d = m
      BY <1>10, <2>3
    <2>4. CASE m \in 1 .. d - 1
      BY <1>6, <1>10, <2>4
    <2> QED
      BY <1>10, <2>1, <2>2, <2>3, <2>4, Bounds
  <1>13. m - 1 \in Nat \ {0}
    BY <1>10
  <1> QED
    BY <1>11, <1>12, <1>13

LEMMA DiscoveredTyped ==
  ASSUME NEW es \in Discovered
  PROVE  /\ es \in Seq([source : FoundBy(es), target : FoundBy(es), ref : References])
         /\ Len(es) <= MaxEdges
  <1>1. PICK k \in 0 .. MaxEdges : es \in [1 .. k -> Edge]
    BY DEF Discovered
  <1>2. es \in Seq(Edge) /\ Len(es) = k
    BY <1>1
  <1>3. ASSUME NEW i \in 1 .. k
        PROVE  es[i] \in [source : FoundBy(es), target : FoundBy(es), ref : References]
    <2>1. es[i] \in Edge /\ es[i].target \in FoundBy(es)
      BY <1>1 DEF FoundBy
    <2>2. es[i].source \in FoundBy(SubSeq(es, 1, i - 1))
      BY <1>1 DEF Discovered, Follows
    <2>3. DOMAIN SubSeq(es, 1, i - 1) = 1 .. i - 1 /\ \A j \in 1 .. i - 1 : SubSeq(es, 1, i - 1)[j] = es[j]
      BY <1>2
    <2>4. es[i].source \in FoundBy(es)
      BY <1>1, <2>2, <2>3 DEF FoundBy
    <2> QED
      BY <2>1, <2>4 DEF Edge
  <1>4. ASSUME NEW S, \A i \in 1 .. k : es[i] \in S PROVE es \in Seq(S)
    BY <1>1, <1>4
  <1> DEFINE Known == [source : FoundBy(es), target : FoundBy(es), ref : References]
  <1>5. \A i \in 1 .. k : es[i] \in Known
    BY <1>3
  <1> HIDE DEF Known
  <1>6. es \in Seq(Known)
    BY <1>4, <1>5
  <1> QED
    BY <1>2, <1>6, CompositionAssumption DEF Known

-----------------------------------------------------------------------------
(* Types and places                                                        *)

Shaped == TypeOK /\ PlacesSound

LEMMA InitShaped == Init => Shaped
  <1> SUFFICES ASSUME Init PROVE Shaped
    OBVIOUS
  <1>1. PICK n \in Nat \ {0} : FoundBy(edges) = 1 .. n
    BY FoundByIsInterval DEF Init
  <1>2. declared \in [1 .. n -> Namespaces \cup {NoNS}] /\ Docs = 1 .. n
    BY <1>1 DEF Init, Docs
  <1>3. declared \in Seq(Namespaces \cup {NoNS}) /\ Len(declared) = n
    BY <1>2
  <1>4. edges \in Seq([source : Docs, target : Docs, ref : References])
    BY <1>1, <1>2, DiscoveredTyped DEF Init
  <1>5. Len(edges) \in Nat /\ DOMAIN edges = 1 .. Len(edges)
    BY <1>4
  <1>6. Begin
    BY DEF Init
  <1>7. TypeOK
    <2>1. visible \in Seq(Seq(Docs)) /\ members \in [Docs -> Seq(Docs)]
      BY <1>6 DEF Begin
    <2>2. parents \in [Docs -> Docs] /\ node \in Docs /\ leftRoot \in Docs
      BY <1>2, <1>6 DEF Begin
    <2>3. /\ cursor \in 1 .. Len(edges) + Len(declared) + 1
          /\ inner \in 1 .. Len(edges) + 1 /\ rank \in 1 .. Len(declared) + 1
      BY <1>3, <1>5, <1>6 DEF Begin
    <2>4. effective = declared /\ phase = "adopt" /\ changed = FALSE
      BY <1>6 DEF Begin
    <2> QED
      BY <1>2, <1>4, <2>1, <2>2, <2>3, <2>4 DEF TypeOK
  <1>8. PlacesSound
    <2>1. \A r \in Docs : Len(members[r]) = 0
      BY <1>6 DEF Begin
    <2> QED
      BY <1>2, <1>3, <1>5, <1>6, <2>1 DEF Begin, PlacesSound, Listing
  <1> QED
    BY <1>7, <1>8 DEF Shaped

LEMMA Shapes ==
  ASSUME Shaped
  PROVE  /\ Len(edges) \in Nat /\ DOMAIN edges = 1 .. Len(edges)
         /\ Len(declared) \in Nat \ {0} /\ Docs = 1 .. Len(declared)
         /\ \A i \in DOMAIN edges : edges[i].source \in Docs /\ edges[i].target \in Docs
         /\ Len(visible) \in Nat /\ DOMAIN visible = 1 .. Len(visible)
         /\ \A d \in DOMAIN visible : visible[d] \in Seq(Docs)
         /\ \A r \in Docs : members[r] \in Seq(Docs) /\ Len(members[r]) \in Nat
         /\ cursor \in Nat \ {0} /\ inner \in Nat \ {0} /\ rank \in Nat \ {0}
         /\ node \in Docs /\ leftRoot \in Docs
  <1>1. TypeOK /\ PlacesSound
    BY DEF Shaped
  <1>2. edges \in Seq([source : Docs, target : Docs, ref : References]) /\ visible \in Seq(Seq(Docs))
    BY <1>1 DEF TypeOK
  <1>3. declared \in Seq(Namespaces \cup {NoNS}) /\ 1 \in DOMAIN declared
    BY <1>1 DEF PlacesSound, Docs
  <1>4. Len(declared) \in Nat \ {0} /\ Docs = 1 .. Len(declared)
    BY <1>3 DEF Docs
  <1>5. Len(edges) \in Nat /\ DOMAIN edges = 1 .. Len(edges)
    BY <1>2
  <1>6. \A i \in DOMAIN edges : edges[i].source \in Docs /\ edges[i].target \in Docs
    <2>1. ASSUME NEW S, edges \in Seq(S) PROVE \A i \in DOMAIN edges : edges[i] \in S
      BY <2>1
    <2>2. \A i \in DOMAIN edges : edges[i] \in [source : Docs, target : Docs, ref : References]
      BY <1>2, <2>1, Zenon
    <2> QED
      BY <2>2
  <1>7. Len(visible) \in Nat /\ DOMAIN visible = 1 .. Len(visible) /\ \A d \in DOMAIN visible : visible[d] \in Seq(Docs)
    BY <1>2
  <1>8. \A r \in Docs : members[r] \in Seq(Docs) /\ Len(members[r]) \in Nat
    BY <1>1 DEF TypeOK
  <1>9. /\ cursor \in 1 .. Len(edges) + Len(declared) + 1
        /\ inner \in 1 .. Len(edges) + 1 /\ rank \in 1 .. Len(declared) + 1
        /\ node \in Docs /\ leftRoot \in Docs
    BY <1>1 DEF TypeOK
  <1>10. cursor \in Nat \ {0} /\ inner \in Nat \ {0} /\ rank \in Nat \ {0}
    BY <1>4, <1>5, <1>9
  <1> QED
    BY <1>4, <1>5, <1>6, <1>7, <1>8, <1>9, <1>10

LEMMA Lengths ==
  ASSUME Shaped
  PROVE  /\ Len(edges) \in Nat /\ DOMAIN edges = 1 .. Len(edges)
         /\ Len(declared) \in Nat \ {0} /\ Docs = 1 .. Len(declared)
         /\ cursor \in Nat \ {0} /\ inner \in Nat \ {0} /\ rank \in Nat \ {0}
  BY Shapes

(* The input does not change.                                              *)
LEMMA InputsKept == [Next]_vars => UNCHANGED inputs
  BY DEF Next, vars, inputs, Adopt, AdoptConflict, AdoptSkip, AdoptPass, ValidateEdge, Validated,
         FindHalve, ParentsEdge, UnionLeft, UnionRight, ParentsDone, MemberFound, SelfFound,
         ImportEdge, TargetFound, ListMember, ListDone, NextVisible

LEMMA StepShaped == Shaped /\ [Next]_vars => Shaped'
  <1> SUFFICES ASSUME Shaped, [Next]_vars PROVE Shaped'
    OBVIOUS
  <1>0. /\ declared' = declared /\ edges' = edges /\ Docs' = Docs
        /\ \A i : IsInclude(i)' = IsInclude(i)
    BY InputsKept DEF inputs, Docs, IsInclude
  <1>1. TypeOK /\ PlacesSound
    BY DEF Shaped
  <1>2. CASE Adopt
    <2>1. cursor \in DOMAIN edges /\ cursor + 1 \in 1 .. Len(edges) + Len(declared) + 1
      BY <1>2, Shapes DEF Adopt
    <2>11. effective \in [Docs -> Namespaces \cup {NoNS}] /\ edges[cursor].source \in Docs
      BY <1>1, <2>1, Shapes DEF TypeOK
    <2>12. effective' \in [Docs -> Namespaces \cup {NoNS}]
      BY <1>2, <2>11 DEF Adopt
    <2>2. TypeOK'
      BY <1>0, <1>1, <1>2, <2>1, <2>12 DEF Adopt, TypeOK, forest, result
    <2>3. PlacesSound'
      BY <1>0, <1>1, <1>2, Lengths DEF Adopt, PlacesSound, Listing, forest, result
    <2> QED
      BY <2>2, <2>3 DEF Shaped
  <1>3. CASE AdoptConflict
    <2>1. TypeOK'
      BY <1>0, <1>1, <1>3 DEF AdoptConflict, TypeOK, forest, result, namespaces
    <2>2. PlacesSound'
      BY <1>0, <1>1, <1>3 DEF AdoptConflict, PlacesSound, Listing, forest, result
    <2> QED
      BY <2>1, <2>2 DEF Shaped
  <1>4. CASE AdoptSkip
    <2>0. cursor + 1 \in 1 .. Len(edges) + Len(declared) + 1
      BY <1>1, <1>4, Shapes DEF AdoptSkip, PlacesSound
    <2>1. TypeOK'
      BY <1>0, <1>1, <1>4, <2>0 DEF AdoptSkip, TypeOK, forest, result, namespaces
    <2>2. PlacesSound'
      BY <1>0, <1>1, <1>4, Lengths DEF AdoptSkip, PlacesSound, Listing, forest, result
    <2> QED
      BY <2>1, <2>2 DEF Shaped
  <1>5. CASE AdoptPass
    <2>0. 1 \in 1 .. Len(edges) + Len(declared) + 1
      BY <1>1, <1>5, Shapes DEF AdoptPass, PlacesSound
    <2>1. TypeOK'
      BY <1>0, <1>1, <1>5, <2>0 DEF AdoptPass, TypeOK, forest, result
    <2>2. PlacesSound'
      BY <1>0, <1>1, <1>5, Lengths DEF AdoptPass, PlacesSound, Listing, forest, result
    <2> QED
      BY <2>1, <2>2 DEF Shaped
  <1>6. CASE ValidateEdge
    <2>0. cursor <= Len(edges) => cursor + 1 \in 1 .. Len(edges) + Len(declared) + 1
      BY <1>1, <1>6, Shapes DEF ValidateEdge, PlacesSound
    <2>1. TypeOK'
      BY <1>0, <1>1, <1>6, <2>0 DEF ValidateEdge, TypeOK, forest, result, namespaces
    <2>2. PlacesSound'
      BY <1>0, <1>1, <1>6, Lengths DEF ValidateEdge, PlacesSound, Listing, forest, result
    <2> QED
      BY <2>1, <2>2 DEF Shaped
  <1>7. CASE Validated
    <2>1. TypeOK'
      BY <1>0, <1>1, <1>7, Shapes DEF Validated, TypeOK, forest, result, namespaces
    <2>2. PlacesSound'
      BY <1>0, <1>1, <1>7, Lengths DEF Validated, PlacesSound, Listing, forest, result
    <2> QED
      BY <2>1, <2>2 DEF Shaped
  <1>8. CASE FindHalve
    <2>1. parents' \in [Docs -> Docs] /\ node' \in Docs
      BY <1>1, <1>8 DEF FindHalve, TypeOK
    <2>2. TypeOK'
      BY <1>0, <1>1, <1>8, <2>1 DEF FindHalve, TypeOK, result, namespaces
    <2>3. PlacesSound'
      BY <1>0, <1>1, <1>8 DEF FindHalve, Finding, PlacesSound, Listing, result
    <2> QED
      BY <2>2, <2>3 DEF Shaped
  <1>9. CASE ParentsEdge
    <2>0. cursor + 1 \in 1 .. Len(edges) + Len(declared) + 1 /\ edges[cursor].source \in Docs
      BY <1>1, <1>9, Shapes DEF ParentsEdge, PlacesSound
    <2>1. TypeOK'
      BY <1>0, <1>1, <1>9, <2>0 DEF ParentsEdge, TypeOK, result, namespaces
    <2>2. PlacesSound'
      BY <1>0, <1>1, <1>9, Lengths DEF ParentsEdge, PlacesSound, Listing, result
    <2> QED
      BY <2>1, <2>2 DEF Shaped
  <1>10. CASE UnionLeft
    <2>1. TypeOK'
      BY <1>0, <1>1, <1>10, Shapes DEF UnionLeft, TypeOK, PlacesSound, result, namespaces
    <2>2. PlacesSound'
      BY <1>0, <1>1, <1>10, Lengths DEF UnionLeft, PlacesSound, Listing, result
    <2> QED
      BY <2>1, <2>2 DEF Shaped
  <1>11. CASE UnionRight
    <2>1. parents' \in [Docs -> Docs]
      BY <1>1, <1>11, Shapes DEF UnionRight, TypeOK
    <2>0. cursor + 1 \in 1 .. Len(edges) + Len(declared) + 1
      BY <1>1, <1>11, Shapes DEF UnionRight, PlacesSound
    <2>2. TypeOK'
      BY <1>0, <1>1, <1>11, <2>0, <2>1 DEF UnionRight, TypeOK, result, namespaces
    <2>3. PlacesSound'
      BY <1>0, <1>1, <1>11, Lengths DEF UnionRight, PlacesSound, Listing, result
    <2> QED
      BY <2>2, <2>3 DEF Shaped
  <1>12. CASE ParentsDone
    <2>1. TypeOK'
      BY <1>0, <1>1, <1>12, Shapes DEF ParentsDone, TypeOK, result, namespaces
    <2>2. PlacesSound'
      BY <1>0, <1>1, <1>12, Lengths DEF ParentsDone, PlacesSound, Listing, result
    <2> QED
      BY <2>1, <2>2 DEF Shaped
  <1>13. CASE MemberFound
    <2>1. cursor \in Docs /\ node \in Docs /\ members \in [Docs -> Seq(Docs)]
      BY <1>1, <1>13, Shapes DEF MemberFound, TypeOK, PlacesSound
    <2>2. Append(members[node], cursor) \in Seq(Docs) /\ Len(Append(members[node], cursor)) = Len(members[node]) + 1
      BY <2>1
    <2>3. members' \in [Docs -> Seq(Docs)]
      BY <1>13, <2>1, <2>2 DEF MemberFound
    <2>4. \A r \in Docs : Len(members'[r]) <= cursor
      <3>1. \A r \in Docs : members'[r] = IF r = node THEN Append(members[node], cursor) ELSE members[r]
        BY <1>13, <2>1 DEF MemberFound
      <3>2. \A r \in Docs : Len(members[r]) <= cursor - 1 /\ Len(members[r]) \in Nat /\ cursor \in Nat
        BY <1>1, <1>13, Shapes DEF MemberFound, PlacesSound
      <3> DEFINE longer == Append(members[node], cursor)
      <3>3. Len(longer) = Len(members[node]) + 1 /\ Len(members[node]) <= cursor - 1
            /\ Len(members[node]) \in Nat
        BY <2>1, <2>2, <3>2
      <3>4. \A r \in Docs : members'[r] = IF r = node THEN longer ELSE members[r]
        BY <3>1
      <3> HIDE DEF longer
      <3> QED
        BY <3>2, <3>3, <3>4
    <2>5. cursor + 1 \in 1 .. Len(edges) + Len(declared) + 1 /\ 1 \in 1 .. Len(edges) + Len(declared) + 1
      BY <2>1, Shapes
    <2>6. 1 \in Docs
      BY <1>1 DEF PlacesSound
    <2>7. TypeOK'
      BY <1>0, <1>1, <1>13, <2>3, <2>5, <2>6 DEF MemberFound, TypeOK, namespaces
    <2>8. visible = <<>> => Len(visible) = 0
      OBVIOUS
    <2>9. \A r \in Docs : Len(members'[r]) <= IF phase' = "member" THEN cursor' - 1 ELSE Len(declared)
      <3>1. \/ phase' = "member" /\ cursor' - 1 = cursor
            \/ phase' # "member" /\ cursor <= Len(declared)
        BY <1>13, <2>1, Lengths DEF MemberFound
      <3>2. ASSUME NEW r \in Docs PROVE Len(members'[r]) \in Int
        BY <2>3, <3>2
      <3> QED
        BY <2>4, <3>1, <3>2, Lengths
    <2>10. PlacesSound'
      BY <1>0, <1>1, <1>13, <2>6, <2>8, <2>9 DEF MemberFound, PlacesSound, Listing
    <2> QED
      BY <2>7, <2>10 DEF Shaped
  <1>14. CASE SelfFound
    <2>1. node \in Docs /\ members[node] \in Seq(Docs) /\ visible \in Seq(Seq(Docs))
      BY <1>1, Shapes DEF TypeOK
    <2>2. visible' \in Seq(Seq(Docs)) /\ Len(visible') = Len(visible) + 1
      BY <1>14, <2>1 DEF SelfFound
    <2>3. 1 \in 1 .. Len(edges) + 1
      BY Shapes
    <2>4. TypeOK'
      BY <1>0, <1>1, <1>14, <2>2, <2>3 DEF SelfFound, TypeOK, forest, namespaces
    <2>5. Len(visible') = cursor
      BY <1>1, <1>14, <2>2, Shapes DEF SelfFound, PlacesSound
    <2>6. PlacesSound'
      BY <1>0, <1>1, <1>14, <2>5 DEF SelfFound, PlacesSound, Listing, forest
    <2> QED
      BY <2>4, <2>6 DEF Shaped
  <1>15. CASE ImportEdge
    <2>0. inner + 1 \in 1 .. Len(edges) + 1 /\ edges[inner].target \in Docs
      BY <1>1, <1>15, Shapes DEF ImportEdge, PlacesSound
    <2>1. TypeOK'
      BY <1>0, <1>1, <1>15, <2>0 DEF ImportEdge, TypeOK, result, namespaces
    <2>2. PlacesSound'
      BY <1>0, <1>1, <1>15, Lengths DEF ImportEdge, PlacesSound, Listing, result
    <2> QED
      BY <2>1, <2>2 DEF Shaped
  <1>16. CASE TargetFound
    <2>1. TypeOK'
      BY <1>0, <1>1, <1>16, Shapes DEF TargetFound, TypeOK, forest, result, namespaces
    <2>2. PlacesSound'
      BY <1>0, <1>1, <1>16, Lengths DEF TargetFound, PlacesSound, Listing, forest, result
    <2> QED
      BY <2>1, <2>2 DEF Shaped
  <1>17. CASE ListMember
    <2>1. /\ cursor \in Docs /\ node \in Docs /\ cursor \in DOMAIN visible
          /\ rank \in DOMAIN members[node] /\ Len(members[node]) <= Len(declared)
      BY <1>1, <1>17, Shapes DEF ListMember, PlacesSound
    <2>2. members[node][rank] \in Docs /\ visible[cursor] \in Seq(Docs)
      <3>1. members[node] \in Seq(Docs)
        BY <1>1, <2>1 DEF TypeOK
      <3>2. visible[cursor] \in Seq(Docs)
        BY <2>1, Shapes
      <3> QED
        BY <2>1, <3>1, <3>2
    <2>3. Append(visible[cursor], members[node][rank]) \in Seq(Docs)
      BY <2>2
    <2>4. visible \in Seq(Seq(Docs))
      BY <1>1 DEF TypeOK
    <2>5. visible' \in Seq(Seq(Docs)) /\ Len(visible') = Len(visible)
      <3> DEFINE S == Seq(Docs)
      <3>1. ASSUME NEW x \in S
            PROVE  /\ [visible EXCEPT ![cursor] = x] \in Seq(S)
                   /\ Len([visible EXCEPT ![cursor] = x]) = Len(visible)
        <4> HIDE DEF S
        <4>1. visible \in Seq(S)
          BY <2>4 DEF S
        <4> QED
          BY <2>1, <4>1
      <3> QED
        BY <1>17, <2>3, <2>4, <3>1 DEF ListMember
    <2>6. rank + 1 \in 1 .. Len(declared) + 1
      <3>1. members[node] \in Seq(Docs)
        BY <1>1, <2>1 DEF TypeOK
      <3>2. Len(members[node]) \in Nat /\ DOMAIN members[node] = 1 .. Len(members[node])
        BY <3>1
      <3> QED
        BY <2>1, <3>2, Lengths
    <2>7. TypeOK'
      BY <1>0, <1>1, <1>17, <2>5, <2>6 DEF ListMember, TypeOK, forest, namespaces
    <2>8. PlacesSound'
      BY <1>0, <1>1, <1>17, <2>5, Lengths DEF ListMember, PlacesSound, Listing, forest
    <2> QED
      BY <2>7, <2>8 DEF Shaped
  <1>18. CASE ListDone
    <2>0. inner + 1 \in 1 .. Len(edges) + 1
      BY <1>1, <1>18, Shapes DEF ListDone, PlacesSound
    <2>1. TypeOK'
      BY <1>0, <1>1, <1>18, <2>0 DEF ListDone, TypeOK, forest, result, namespaces
    <2>2. PlacesSound'
      BY <1>0, <1>1, <1>18, Lengths DEF ListDone, PlacesSound, Listing, forest, result
    <2> QED
      BY <2>1, <2>2 DEF Shaped
  <1>19. CASE NextVisible
    <2>0. cursor + 1 \in Docs => cursor + 1 \in 1 .. Len(edges) + Len(declared) + 1
      BY Lengths
    <2>1. TypeOK'
      BY <1>0, <1>1, <1>19, <2>0 DEF NextVisible, TypeOK, result, namespaces
    <2>2. PlacesSound'
      BY <1>0, <1>1, <1>19, Lengths DEF NextVisible, PlacesSound, Listing, result
    <2> QED
      BY <2>1, <2>2 DEF Shaped
  <1>20. CASE UNCHANGED vars
    BY <1>1, <1>20 DEF vars, Shaped, TypeOK, PlacesSound, Docs, IsInclude, Listing
  <1> QED
    BY <1>2, <1>3, <1>4, <1>5, <1>6, <1>7, <1>8, <1>9, <1>10, <1>11, <1>12, <1>13, <1>14, <1>15,
       <1>16, <1>17, <1>18, <1>19, <1>20 DEF Next

(* The state of a composition is well typed, and every place is at a       *)
(* document and a reference there is (newSchemaFromDiscoveryWithPolicy).   *)
THEOREM TypeCorrect == Spec => []TypeOK
  <1>1. Spec => []Shaped
    BY InitShaped, StepShaped, PTL DEF Spec
  <1>2. Shaped => TypeOK
    BY DEF Shaped
  <1> QED
    BY <1>1, <1>2, PTL

-----------------------------------------------------------------------------
(* Adoption and the verdict                                                *)

LEMMA CandidateDeclared ==
  ASSUME NEW d \in Docs, declared[d] \in Namespaces
  PROVE  declared[d] \in Candidates(d)
  BY DEF Candidates

LEMMA CandidateIncluded ==
  ASSUME Shaped, NEW i \in DOMAIN edges, IsInclude(i), NEW n \in Candidates(edges[i].source),
         ~ Present(declared[edges[i].target])
  PROVE  n \in Candidates(edges[i].target)
  BY Shapes DEF Candidates, Includes

LEMMA CandidatesKept ==
  ASSUME UNCHANGED inputs
  PROVE  \A d : Candidates(d)' = Candidates(d)
  BY DEF inputs, Candidates, Includes, IsInclude, Docs

Fixed == \A i \in DOMAIN edges : Settled(i)

(* A fixpoint hands every candidate down: the documents in a namespace are *)
(* a set that holds those that declare it and is closed under includes.    *)
LEMMA FixpointComplete ==
  ASSUME Shaped, NamespacesSound, Fixed
  PROVE  \A d \in Docs : Candidates(d) = {effective[d]} \ {NoNS}
  <1> TAKE d \in Docs
  <1>1. \A e \in Docs : effective[e] \in Namespaces \cup {NoNS} /\ declared[e] \in Namespaces \cup {NoNS}
    BY DEF Shaped, TypeOK
  <1>2. ASSUME NEW n \in Candidates(d) PROVE n = effective[d] /\ n # NoNS
    <2> DEFINE S == {e \in Docs : effective[e] = n}
    <2>1. n \in Namespaces /\ n # NoNS
      BY Bounds DEF Candidates
    <2>2. \A e \in Docs : declared[e] = n => e \in S
      BY <2>1 DEF NamespacesSound, Present
    <2>3. ASSUME NEW i \in Includes, edges[i].source \in S, ~ Present(declared[edges[i].target])
          PROVE  edges[i].target \in S
      <3>1. i \in DOMAIN edges /\ IsInclude(i) /\ edges[i].target \in Docs
        BY Shapes DEF Includes
      <3>2. Chameleon(i)
        BY <2>1, <2>3, <3>1 DEF Chameleon, Present
      <3> QED
        BY <2>3, <3>1, <3>2 DEF Fixed, Settled, Agrees
    <2>4. S \in SUBSET Docs
      OBVIOUS
    <2> HIDE DEF S
    <2>5. d \in S
      BY <2>2, <2>3, <2>4 DEF Candidates
    <2> QED
      BY <2>1, <2>5 DEF S
  <1>3. effective[d] # NoNS => effective[d] \in Candidates(d)
    BY DEF NamespacesSound, Present
  <1> QED
    BY <1>2, <1>3

(* At a fixpoint the definition of the verdict is the check of the edges.  *)
LEMMA VerdictAtFixpoint ==
  ASSUME Shaped, NamespacesSound, Fixed
  PROVE  Acceptable <=> \A i \in DOMAIN edges : ValidEdge(i)
  <1> DEFINE final(d) == OneOf(Candidates(d))
  <1>1. \A d \in Docs : Candidates(d) = {effective[d]} \ {NoNS}
    BY FixpointComplete
  <1>2. \A d \in Docs : final(d) = effective[d]
    <2> TAKE d \in Docs
    <2>1. CASE effective[d] = NoNS
      BY <1>1, <2>1 DEF OneOf
    <2>2. CASE effective[d] # NoNS
      <3>1. Candidates(d) = {effective[d]}
        BY <1>1, <2>2
      <3>2. (CHOOSE n \in Candidates(d) : TRUE) \in Candidates(d)
        BY <3>1
      <3> QED
        BY <3>1, <3>2 DEF OneOf
    <2> QED
      BY <2>1, <2>2
  <1> HIDE DEF final
  <1>3. \A d \in Docs : \A m, n \in Candidates(d) : m = n
    BY <1>1
  <1>4. ASSUME NEW i \in DOMAIN edges
        PROVE  LET source == edges[i].source
                   target == edges[i].target
                   urn == edges[i].ref.urn IN
               (\/ IsInclude(i) /\ declared[target] \in {NoNS, final(source)}
                \/ ~ IsInclude(i) /\ urn \in Namespaces \ {final(source)} /\ declared[target] = urn
                \/ ~ IsInclude(i) /\ urn = NoNS /\ final(source) # NoNS /\ declared[target] = NoNS)
               <=> ValidEdge(i)
    <2> DEFINE source == edges[i].source
               target == edges[i].target
               urn == edges[i].ref.urn
    <2>1. source \in Docs /\ target \in Docs /\ final(source) = effective[source]
      BY <1>2, Shapes
    <2>2. declared[target] \in Namespaces \cup {NoNS}
      BY <2>1 DEF Shaped, TypeOK
    <2>3. CASE IsInclude(i)
      <3>1. Settled(i)
        BY DEF Fixed
      <3>2. Present(declared[target]) => effective[target] = declared[target]
        BY <2>1 DEF NamespacesSound
      <3>3. ValidEdge(i) <=> ValidInclude(effective[source], declared[target], effective[target])
        BY <2>3 DEF ValidEdge
      <3>4. ValidInclude(effective[source], declared[target], effective[target])
              <=> declared[target] \in {NoNS, effective[source]}
        BY <2>3, <3>1, <3>2 DEF ValidInclude, Settled, Chameleon, Agrees, Present
      <3> QED
        BY <2>1, <2>3, <3>3, <3>4
    <2>4. CASE ~ IsInclude(i)
      <3>1. ValidEdge(i) <=> ValidImport(urn, effective[source], declared[target])
        BY <2>4 DEF ValidEdge
      <3>2. ValidImport(urn, effective[source], declared[target])
              <=> \/ urn \in Namespaces \ {effective[source]} /\ declared[target] = urn
                  \/ urn = NoNS /\ effective[source] # NoNS /\ declared[target] = NoNS
        BY <2>2, Bounds DEF ValidImport, Present
      <3> QED
        BY <2>1, <2>4, <3>1, <3>2
    <2> QED
      BY <2>3, <2>4
  <1> QED
    BY <1>3, <1>4 DEF Acceptable, final

(* Two namespaces for one document are never acceptable.                   *)
LEMMA ConflictRefused ==
  ASSUME Shaped, NamespacesSound, NEW i \in DOMAIN edges, Chameleon(i), Adopted(i), ~ Agrees(i)
  PROVE  ~ Acceptable
  <1>1. edges[i].source \in Docs /\ edges[i].target \in Docs
    BY Shapes
  <1>2. effective[edges[i].source] \in Candidates(edges[i].target)
    BY <1>1, CandidateIncluded DEF Chameleon, NamespacesSound
  <1>3. effective[edges[i].target] \in Candidates(edges[i].target)
    BY <1>1 DEF Adopted, NamespacesSound
  <1> QED
    BY <1>1, <1>2, <1>3 DEF Agrees, Acceptable

NamespacesInv == NamespacesSound /\ VerdictSound

(* Who has which namespace and what was checked changes in these steps.    *)
LEMMA InitNamespaces == Init => NamespacesInv
  <1> SUFFICES ASSUME Init PROVE NamespacesInv
    OBVIOUS
  <1>1. effective = declared /\ phase = "adopt" /\ cursor = 1
    BY DEF Init, Begin
  <1>2. Shaped
    BY InitShaped
  <1>3. \A d \in Docs : declared[d] \in Namespaces \cup {NoNS}
    BY <1>2 DEF Shaped, TypeOK
  <1>4. \A d \in Docs : Present(declared[d]) => declared[d] \in Candidates(d)
    BY <1>3, CandidateDeclared DEF Present
  <1>5. \A i \in DOMAIN edges : ~ (i < 1)
    BY <1>2, Shapes
  <1> QED
    BY <1>1, <1>4, <1>5 DEF NamespacesInv, NamespacesSound, VerdictSound, Joining, Listing

LEMMA StepNamespaces == Shaped /\ NamespacesInv /\ [Next]_vars => NamespacesInv'
  <1> SUFFICES ASSUME Shaped, NamespacesInv, [Next]_vars PROVE NamespacesInv'
    OBVIOUS
  <1>0. /\ declared' = declared /\ edges' = edges /\ Docs' = Docs
        /\ \A i : IsInclude(i)' = IsInclude(i) /\ \A d : Candidates(d)' = Candidates(d)
    BY InputsKept, CandidatesKept DEF inputs, Docs, IsInclude
  <1>1. NamespacesSound /\ VerdictSound
    BY DEF NamespacesInv
  <1>2. effective' = effective =>
          /\ \A i : Settled(i)' = Settled(i) /\ ValidEdge(i)' = ValidEdge(i)
    BY <1>0 DEF Settled, Chameleon, Agrees, ValidEdge
  <1>3. Acceptable' = Acceptable
    BY <1>0 DEF Acceptable
  <1>4. CASE Adopt
    <2> DEFINE s == edges[cursor].source
               t == edges[cursor].target
    <2>1. s \in Docs /\ t \in Docs /\ cursor \in DOMAIN edges
      BY <1>4, Shapes DEF Adopt
    <2>2. Chameleon(cursor) /\ ~ Present(effective[t])
      BY <1>4 DEF Adopt, Adopted
    <2>3. effective[s] \in Candidates(t)
      BY <1>1, <2>1, <2>2, CandidateIncluded DEF Chameleon, NamespacesSound
    <2>4. \A d \in Docs : effective'[d] = IF d = t THEN effective[s] ELSE effective[d]
      BY <1>4, <2>1 DEF Adopt, Shaped, TypeOK
    <2>5. ~ Present(declared[t])
      BY <2>2 DEF Chameleon
    <2>6. phase = "adopt" /\ phase' = phase /\ changed' = TRUE
      BY <1>4 DEF Adopt
    <2>7. NamespacesSound'
      BY <1>0, <1>1, <2>3, <2>4, <2>5, <2>6 DEF NamespacesSound, Present
    <2>8. VerdictSound'
      BY <2>6 DEF VerdictSound, Joining, Listing
    <2> QED
      BY <2>7, <2>8 DEF NamespacesInv
  <1>5. CASE AdoptConflict
    <2>1. effective' = effective /\ phase' = "failed"
      BY <1>5 DEF AdoptConflict, namespaces
    <2>2. ~ Acceptable
      BY <1>1, <1>5, Shapes, ConflictRefused DEF AdoptConflict
    <2> QED
      BY <1>0, <1>1, <1>3, <2>1, <2>2 DEF NamespacesInv, NamespacesSound, VerdictSound, Joining, Listing
  <1>6. CASE AdoptSkip
    <2>1. effective' = effective /\ changed' = changed /\ phase = "adopt" /\ phase' = phase /\ cursor' = cursor + 1
      BY <1>6 DEF AdoptSkip, namespaces
    <2>2. Settled(cursor)
      BY <1>6 DEF AdoptSkip, Settled
    <2>3. \A i \in DOMAIN edges : i < cursor + 1 => i < cursor \/ i = cursor
      BY Shapes
    <2>4. NamespacesSound'
      BY <1>0, <1>1, <1>2, <2>1, <2>2, <2>3 DEF NamespacesSound
    <2> QED
      BY <2>1, <2>4 DEF NamespacesInv, VerdictSound, Joining, Listing
  <1>7. CASE AdoptPass
    <2>1. effective' = effective /\ changed' = FALSE /\ cursor' = 1 /\ phase = "adopt"
          /\ phase' = IF changed THEN "adopt" ELSE "validate"
      BY <1>7 DEF AdoptPass
    <2>2. \A i \in DOMAIN edges : ~ (i < 1)
      BY Shapes
    <2>3. ~ changed => Fixed
      BY <1>1, <1>7, Shapes DEF AdoptPass, NamespacesSound, Fixed
    <2>4. NamespacesSound'
      BY <1>0, <1>1, <1>2, <2>1, <2>2, <2>3 DEF NamespacesSound, Fixed
    <2> QED
      BY <1>0, <2>1, <2>2, <2>4 DEF NamespacesInv, VerdictSound, Joining, Listing
  <1>8. CASE ValidateEdge
    <2>1. effective' = effective /\ phase = "validate"
          /\ IF ValidEdge(cursor) THEN cursor' = cursor + 1 /\ phase' = phase
                                  ELSE cursor' = cursor /\ phase' = "failed"
      BY <1>8 DEF ValidateEdge, namespaces
    <2>2. cursor \in DOMAIN edges /\ \A i \in DOMAIN edges : i < cursor + 1 => i < cursor \/ i = cursor
      BY <1>8, Shapes DEF ValidateEdge
    <2>3. ~ ValidEdge(cursor) => ~ Acceptable
      BY <1>1, <2>1, <2>2, VerdictAtFixpoint DEF NamespacesSound, Fixed
    <2>4. NamespacesSound'
      BY <1>0, <1>1, <1>2, <2>1 DEF NamespacesSound
    <2>5. VerdictSound'
      BY <1>0, <1>1, <1>2, <1>3, <2>1, <2>2, <2>3 DEF VerdictSound, Joining, Listing
    <2> QED
      BY <2>4, <2>5 DEF NamespacesInv
  <1>9. CASE Validated
    <2>1. effective' = effective /\ phase = "validate" /\ phase' = "parents"
      BY <1>9 DEF Validated, namespaces
    <2>2. \A i \in DOMAIN edges : ValidEdge(i)
      BY <1>1, <1>9, Shapes DEF Validated, VerdictSound
    <2> QED
      BY <1>0, <1>1, <1>2, <2>1, <2>2 DEF NamespacesInv, NamespacesSound, VerdictSound, Joining, Listing
  <1>10. ASSUME effective' = effective,
                \/ phase \in Joining \cup Listing /\ phase' \in Joining \cup Listing
                \/ UNCHANGED vars
         PROVE  NamespacesInv'
    BY <1>0, <1>1, <1>2, <1>3, <1>10
       DEF NamespacesInv, NamespacesSound, VerdictSound, Joining, Listing, vars
  <1>11. CASE FindHalve \/ ParentsEdge \/ UnionLeft \/ UnionRight \/ ParentsDone
    BY <1>10, <1>11 DEF FindHalve, Finding, ParentsEdge, UnionLeft, UnionRight, ParentsDone, namespaces,
                        Joining, Listing
  <1>12. CASE MemberFound \/ SelfFound \/ ImportEdge \/ TargetFound \/ ListMember \/ ListDone \/ NextVisible
    BY <1>10, <1>12 DEF MemberFound, SelfFound, ImportEdge, TargetFound, ListMember, ListDone, NextVisible,
                        namespaces, Joining, Listing
  <1>13. CASE UNCHANGED vars
    BY <1>10, <1>13 DEF vars
  <1> QED
    BY <1>4, <1>5, <1>6, <1>7, <1>8, <1>9, <1>11, <1>12, <1>13 DEF Next

LEMMA NamespacesAlways == Spec => [](Shaped /\ NamespacesInv)
  BY InitShaped, StepShaped, InitNamespaces, StepNamespaces, PTL DEF Spec

(* Once adoption is over every document is in the one namespace that       *)
(* includes bring to it, whatever the order of the references and however  *)
(* many passes it took (schemaEffectiveTargetNamespaces).                  *)
THEOREM AdoptionIsFixpoint == Spec => []AdoptionComplete
  <1>1. Shaped /\ NamespacesInv => AdoptionComplete
    BY FixpointComplete DEF NamespacesInv, NamespacesSound, Fixed, AdoptionComplete
  <1> QED
    BY <1>1, NamespacesAlways, PTL

(* A composition is accepted exactly when the definition that knows no     *)
(* passes accepts it (validateSchemaComposition).                          *)
THEOREM VerdictExact == Spec => []VerdictCorrect
  <1>1. Shaped /\ NamespacesInv => VerdictCorrect
    BY VerdictAtFixpoint
       DEF NamespacesInv, NamespacesSound, VerdictSound, Fixed, VerdictCorrect, Returned, Joining, Listing
  <1> QED
    BY <1>1, NamespacesAlways, PTL

-----------------------------------------------------------------------------
(* The forest                                                              *)

LEMMA SameFacts ==
  /\ \A c \in Docs : Same(c, parents[c]) /\ Same(c, c)
  /\ \A b, c, d : Same(b, c) /\ Same(c, d) => Same(b, d)
  /\ \A c, d : Same(c, d) => Same(d, c)
  BY DEF Same, SplitByParents

(* Pointing a node at its grandparent leaves the trees as they are.        *)
LEMMA HalvingKeepsTrees ==
  ASSUME Shaped, FindHalve
  PROVE  /\ \A S \in SUBSET Docs : SplitByParents(S)' <=> SplitByParents(S)
         /\ \A c, d : Same(c, d)' <=> Same(c, d)
         /\ \A d \in Docs : IsRoot(d) => parents'[d] = d
  <1>1. Docs' = Docs
    BY DEF FindHalve, inputs, Docs
  <1>2. parents \in [Docs -> Docs] /\ node \in Docs /\ parents[node] # node
    BY DEF Shaped, TypeOK, FindHalve
  <1> DEFINE p == parents[node]
             g == parents[p]
  <1>3. p \in Docs /\ g \in Docs /\ p # node
    BY <1>2
  <1>4. \A d \in Docs : parents'[d] = IF d = node THEN g ELSE parents[d]
    BY <1>2 DEF FindHalve
  <1> HIDE DEF g
  <1>5. parents[p] = g
    BY DEF g
  <1>6. parents'[p] = g /\ parents'[node] = g
    BY <1>2, <1>3, <1>4, <1>5
  <1>7. ASSUME NEW S \in SUBSET Docs PROVE SplitByParents(S)' <=> SplitByParents(S)
    <2>1. ASSUME ~ SplitByParents(S), NEW d \in Docs PROVE (d \in S) = (parents'[d] \in S)
      BY <1>2, <1>3, <1>4, <1>5, <2>1 DEF SplitByParents
    <2>2. ASSUME \A d \in Docs : (d \in S) = (parents'[d] \in S), NEW d \in Docs
          PROVE  (d \in S) = (parents[d] \in S)
      BY <1>2, <1>3, <1>4, <1>6, <2>2
    <2> QED
      BY <1>1, <2>1, <2>2 DEF SplitByParents
  <1>8. \A c, d : Same(c, d)' <=> Same(c, d)
    BY <1>1, <1>7 DEF Same
  <1> QED
    BY <1>2, <1>4, <1>7, <1>8 DEF IsRoot

(* Linking two roots makes one tree of two, and nothing else.              *)
LEMMA LinkingJoinsTrees ==
  ASSUME Shaped, UnionRight, IsRoot(leftRoot), NEW S \in SUBSET Docs
  PROVE  SplitByParents(S)' <=> SplitByParents(S) \/ (leftRoot \in S) # (node \in S)
  <1>1. Docs' = Docs /\ parents \in [Docs -> Docs] /\ node \in Docs /\ leftRoot \in Docs
    BY DEF UnionRight, inputs, Docs, Shaped, TypeOK
  <1>2. parents[node] = node /\ parents[leftRoot] = leftRoot
    BY DEF UnionRight, Found, IsRoot
  <1>3. \/ parents' = [parents EXCEPT ![node] = leftRoot]
        \/ parents' = [parents EXCEPT ![leftRoot] = node]
    BY DEF UnionRight
  <1>4. ASSUME NEW low \in Docs, NEW high \in Docs, parents[low] = low, parents[high] = high,
               parents' = [parents EXCEPT ![high] = low]
        PROVE  SplitByParents(S)' <=> SplitByParents(S) \/ (low \in S) # (high \in S)
    <2>1. \A d \in Docs : parents'[d] = IF d = high THEN low ELSE parents[d]
      BY <1>1, <1>4
    <2> QED
      BY <1>1, <1>4, <2>1 DEF SplitByParents
  <1> QED
    BY <1>1, <1>2, <1>3, <1>4

LEMMA InitForest == Init => ForestSound
  BY DEF Init, Begin, ForestSound, ForestMatchesIncludes

LEMMA StepForest == Shaped /\ ForestSound /\ [Next]_vars => ForestSound'
  <1> SUFFICES ASSUME Shaped, ForestSound, [Next]_vars PROVE ForestSound'
    OBVIOUS
  <1>0. /\ declared' = declared /\ edges' = edges /\ Docs' = Docs /\ Includes' = Includes
        /\ \A i : IsInclude(i)' = IsInclude(i)
    BY InputsKept DEF inputs, Docs, IsInclude, Includes
  <1>1. PlacesSound
    BY DEF Shaped
  (* Trees and joined includes that stay keep the correspondence.          *)
  <1>2. ASSUME parents' = parents
        PROVE  /\ \A S : SplitByParents(S)' = SplitByParents(S)
               /\ \A c, d : Same(c, d)' <=> Same(c, d)
               /\ \A d : IsRoot(d)' <=> IsRoot(d)
    BY <1>0, <1>2 DEF SplitByParents, Same, IsRoot
  <1>3. ASSUME \A S \in SUBSET Docs : SplitByParents(S)' <=> SplitByParents(S), Joined' = Joined,
               phase \notin {"adopt", "validate", "failed"}
        PROVE  ForestMatchesIncludes'
    BY <1>0, <1>3 DEF ForestSound, ForestMatchesIncludes, SplitByIncludes
  <1>4. CASE Adopt \/ AdoptConflict \/ AdoptSkip \/ AdoptPass \/ ValidateEdge
    <2>1. phase' \in {"adopt", "validate", "failed"}
      BY <1>4 DEF Adopt, AdoptConflict, AdoptSkip, AdoptPass, ValidateEdge
    <2> QED
      BY <2>1 DEF ForestSound, ForestMatchesIncludes
  <1>5. CASE Validated
    <2>1. phase' = "parents" /\ cursor' = 1 /\ parents' = parents /\ parents = [d \in Docs |-> d]
      BY <1>1, <1>5 DEF Validated, PlacesSound, forest
    <2>2. Joined' = {}
      BY <1>0, <2>1, Shapes DEF Joined, Includes
    <2> QED
      BY <1>0, <2>1, <2>2 DEF ForestSound, ForestMatchesIncludes, SplitByIncludes, SplitByParents
  <1>6. CASE FindHalve
    <2>1. phase' = phase /\ cursor' = cursor /\ inner' = inner /\ leftRoot' = leftRoot /\ Finding
      BY <1>6 DEF FindHalve, result
    <2>2. Joined' = Joined
      BY <1>0, <2>1 DEF Joined
    <2>3. ForestMatchesIncludes'
      BY <1>3, <1>6, <2>1, <2>2, HalvingKeepsTrees DEF Finding
    <2>4. parents \in [Docs -> Docs] /\ node \in Docs /\ leftRoot \in Docs /\ node' = parents[parents[node]]
      BY <1>6 DEF Shaped, TypeOK, FindHalve
    <2>5. \A d : Same(node, d) => Same(node', d)
      BY <2>4, SameFacts
    <2>6. \A c \in Docs : \A d : Same(c, d) => Same(c, d)'
      BY <1>6, HalvingKeepsTrees
    <2>7. IsRoot(leftRoot) => IsRoot(leftRoot)'
      BY <1>6, <2>1, <2>4, HalvingKeepsTrees DEF IsRoot
    <2>8. node' \in Docs
      BY <2>4
    <2>9. \A d : Same(node, d) => Same(node, d)'
      BY <2>5, <2>6, <2>8
    <2>10. phase \in {"member", "self"} => Same(node, cursor)'
      BY <2>1, <2>9 DEF ForestSound
    <2>11. phase = "left" => Same(node, edges[cursor].source)'
      BY <1>0, <2>1, <2>9 DEF ForestSound
    <2>12. phase \in {"target", "list"} => Same(node, edges[inner].target)'
      BY <1>0, <2>1, <2>9 DEF ForestSound
    <2>13. phase = "right" =>
             Same(node, edges[cursor].target)' /\ Same(leftRoot, edges[cursor].source)' /\ IsRoot(leftRoot)'
      BY <1>0, <2>1, <2>4, <2>6, <2>7, <2>9 DEF ForestSound
    <2> QED
      BY <2>1, <2>3, <2>10, <2>11, <2>12, <2>13 DEF ForestSound, Finding
  <1>7. CASE ParentsEdge
    <2>1. /\ phase = "parents" /\ parents' = parents
          /\ \/ phase' = "left" /\ cursor' = cursor /\ node' = edges[cursor].source /\ IsInclude(cursor)
             \/ phase' = "parents" /\ cursor' = cursor + 1 /\ ~ IsInclude(cursor)
      BY <1>7 DEF ParentsEdge
    <2>2. cursor \in DOMAIN edges
      BY <1>7, Shapes DEF ParentsEdge
    <2>3. Joined' = Joined
      BY <1>0, <2>1, <2>2, Shapes DEF Joined, Includes
    <2>4. ForestMatchesIncludes'
      BY <1>2, <1>3, <2>1, <2>3
    <2>5. phase' = "left" => Same(node, edges[cursor].source)'
      BY <1>0, <1>2, <2>1, <2>2, Shapes, SameFacts
    <2> QED
      BY <2>1, <2>4, <2>5 DEF ForestSound
  <1>8. CASE UnionLeft
    <2>1. /\ phase = "left" /\ phase' = "right" /\ parents' = parents /\ cursor' = cursor
          /\ leftRoot' = node /\ node' = edges[cursor].target /\ IsRoot(node)
      BY <1>8 DEF UnionLeft, Found, IsRoot
    <2>2. cursor \in DOMAIN edges /\ Same(node, edges[cursor].source)
      BY <1>1, <2>1 DEF PlacesSound, ForestSound
    <2>3. Joined' = Joined
      BY <1>0, <2>1 DEF Joined
    <2>4. ForestMatchesIncludes'
      BY <1>2, <1>3, <2>1, <2>3
    <2>5. Same(node, edges[cursor].target)' /\ Same(leftRoot, edges[cursor].source)' /\ IsRoot(leftRoot)'
      BY <1>0, <1>2, <2>1, <2>2, Shapes, SameFacts
    <2> QED
      BY <2>1, <2>4, <2>5 DEF ForestSound
  <1>9. CASE UnionRight
    <2>1. phase = "right" /\ phase' = "parents" /\ cursor' = cursor + 1
      BY <1>9 DEF UnionRight
    <2>2. cursor \in DOMAIN edges /\ IsInclude(cursor)
      BY <1>1, <2>1 DEF PlacesSound
    <2>3. Same(node, edges[cursor].target) /\ Same(leftRoot, edges[cursor].source) /\ IsRoot(leftRoot)
      BY <2>1 DEF ForestSound
    <2>4. Joined' = Joined \cup {cursor}
      BY <1>0, <2>1, <2>2, Shapes DEF Joined, Includes
    <2>5. ASSUME NEW S \in SUBSET Docs PROVE SplitByIncludes(S)' <=> SplitByParents(S)'
      <3>1. SplitByIncludes(S)' <=> SplitByIncludes(S)
                                     \/ (edges[cursor].source \in S) # (edges[cursor].target \in S)
        BY <1>0, <2>4 DEF SplitByIncludes
      <3>2. SplitByIncludes(S) <=> SplitByParents(S)
        BY <2>1 DEF ForestSound, ForestMatchesIncludes
      <3>3. SplitByParents(S)' <=> SplitByParents(S) \/ (leftRoot \in S) # (node \in S)
        BY <1>9, <2>3, LinkingJoinsTrees
      <3>4. ~ SplitByParents(S) => /\ (leftRoot \in S) = (edges[cursor].source \in S)
                                   /\ (node \in S) = (edges[cursor].target \in S)
        BY <2>3 DEF Same
      <3> QED
        BY <3>1, <3>2, <3>3, <3>4
    <2> QED
      BY <1>0, <2>1, <2>5 DEF ForestSound, ForestMatchesIncludes
  (* The later steps leave the forest alone, and searches start at the     *)
  (* document they are for.                                                *)
  <1>10. ASSUME phase \in {"parents"} \cup Listing, phase' \in Listing, parents' = parents,
                phase = "parents" => cursor > Len(edges)
         PROVE  ForestMatchesIncludes'
    <2>1. Joined' = Joined
      BY <1>0, <1>10, Shapes DEF Joined, Includes, Listing
    <2> QED
      BY <1>2, <1>3, <1>10, <2>1 DEF Listing
  <1>11. CASE ParentsDone
    <2>1. phase = "parents" /\ phase' = "member" /\ parents' = parents /\ cursor' = 1 /\ node' = 1
          /\ cursor > Len(edges) /\ 1 \in Docs
      BY <1>1, <1>11 DEF ParentsDone, PlacesSound
    <2>2. Same(node, cursor)'
      BY <1>2, <2>1, SameFacts
    <2> QED
      BY <1>10, <2>1, <2>2 DEF ForestSound, Listing
  <1>12. CASE MemberFound
    <2>1. phase = "member" /\ phase' \in {"member", "self"} /\ parents' = parents /\ cursor' = node' /\ node' \in Docs
      BY <1>1, <1>12 DEF MemberFound, PlacesSound
    <2>2. Same(node, cursor)'
      BY <1>2, <2>1, SameFacts
    <2> QED
      BY <1>10, <2>1, <2>2 DEF ForestSound, Listing
  <1>13. CASE SelfFound
    BY <1>10, <1>13 DEF SelfFound, ForestSound, Listing, forest
  <1>14. CASE ImportEdge
    <2>1. phase = "imports" /\ parents' = parents
          /\ \/ phase' = "imports"
             \/ phase' = "target" /\ node' = edges[inner].target /\ inner' = inner /\ inner \in DOMAIN edges
      BY <1>14, Shapes DEF ImportEdge
    <2>2. phase' = "target" => Same(node, edges[inner].target)'
      BY <1>0, <1>2, <2>1, Shapes, SameFacts
    <2> QED
      BY <1>10, <2>1, <2>2 DEF ForestSound, Listing
  <1>15. CASE TargetFound
    <2>1. phase = "target" /\ phase' = "list" /\ parents' = parents /\ node' = node /\ inner' = inner /\ IsRoot(node)
      BY <1>15 DEF TargetFound, Found, forest, IsRoot
    <2>2. Same(node, edges[inner].target)' /\ IsRoot(node)'
      BY <1>0, <1>2, <2>1 DEF ForestSound
    <2> QED
      BY <1>10, <2>1, <2>2 DEF ForestSound, Listing
  <1>16. CASE ListMember
    <2>1. phase = "list" /\ phase' = "list" /\ parents' = parents /\ node' = node /\ inner' = inner
      BY <1>16 DEF ListMember, forest
    <2>2. Same(node, edges[inner].target)' /\ IsRoot(node)'
      BY <1>0, <1>2, <2>1 DEF ForestSound
    <2> QED
      BY <1>10, <2>1, <2>2 DEF ForestSound, Listing
  <1>17. CASE ListDone
    BY <1>10, <1>17 DEF ListDone, ForestSound, Listing, forest
  <1>18. CASE NextVisible
    <2>1. phase = "imports" /\ parents' = parents
          /\ \/ phase' = "done"
             \/ (phase' = "self" /\ cursor' = node' /\ node' \in Docs)
      BY <1>18 DEF NextVisible
    <2>2. phase' = "self" => Same(node, cursor)'
      BY <1>2, <2>1, SameFacts
    <2> QED
      BY <1>10, <2>1, <2>2 DEF ForestSound, Listing
  <1>19. CASE UNCHANGED vars
    BY <1>0, <1>19 DEF vars, ForestSound, ForestMatchesIncludes, SplitByIncludes, SplitByParents, Joined, Same, IsRoot
  <1> QED
    BY <1>4, <1>5, <1>6, <1>7, <1>8, <1>9, <1>11, <1>12, <1>13, <1>14, <1>15, <1>16, <1>17, <1>18, <1>19
       DEF Next

LEMMA ForestAlways == Spec => [](Shaped /\ ForestSound)
  BY InitShaped, StepShaped, InitForest, StepForest, PTL DEF Spec

(* At every moment two documents are in one tree of the forest exactly     *)
(* when the includes joined so far connect them                            *)
(* (schemaVisibilityUnion, schemaVisibilityFind).                          *)
THEOREM ForestExact == Spec => []ForestMatchesIncludes
  <1>1. ForestSound => ForestMatchesIncludes
    BY DEF ForestSound
  <1> QED
    BY <1>1, ForestAlways, PTL

-----------------------------------------------------------------------------
(* The classes and what the documents see                                  *)

(* A tree has one root: what lies below a root is closed under parents,    *)
(* and without another root in it would still be all that lies below.      *)
LEMMA OneRoot ==
  ASSUME Shaped, NEW r \in Docs, NEW q \in Docs, IsRoot(r), IsRoot(q), Same(r, q)
  PROVE  r = q
  <1> DEFINE Holds(S) == r \in S /\ \A x \in Docs : parents[x] \in S => x \in S
             T == {d \in Docs : \A S \in SUBSET Docs : Holds(S) => d \in S}
  <1>1. \A x \in Docs : parents[x] \in Docs
    BY DEF Shaped, TypeOK
  <1>2. T \in SUBSET Docs /\ Holds(T)
    BY <1>1
  <1>3. ASSUME NEW d \in T, Holds(T \ {d}) PROVE FALSE
    <2>1. T \ {d} \in SUBSET Docs
      BY <1>2
    <2> QED
      BY <1>3, <2>1
  <1>4. ASSUME NEW d \in T, d # r, parents[d] \notin T \ {d} PROVE FALSE
    BY <1>2, <1>3, <1>4
  <1> HIDE DEF T
  <1>5. \A x \in T : parents[x] \in T
    BY <1>2, <1>4 DEF IsRoot
  <1>6. ~ SplitByParents(T)
    BY <1>1, <1>2, <1>5 DEF SplitByParents
  <1>7. q \in T
    BY <1>2, <1>6 DEF Same
  <1> QED
    BY <1>4, <1>7 DEF IsRoot

LEMMA ClassIsTree ==
  ASSUME Shaped, ForestSound, phase \in Listing, NEW d \in Docs
  PROVE  Class(d) = {c \in Docs : Same(c, d)}
  <1>1. Joined = Includes
    BY DEF Joined, Includes, Listing
  <1>2. \A S \in SUBSET Docs :
          ~ SplitByParents(S) <=> \A i \in Includes : (edges[i].source \in S) = (edges[i].target \in S)
    BY <1>1 DEF ForestSound, ForestMatchesIncludes, SplitByIncludes, Listing
  <1>3. ASSUME NEW S \in SUBSET Docs, ~ SplitByParents(S) PROVE ~ SplitByParents(Docs \ S)
    <2>1. \A x \in Docs : parents[x] \in Docs
      BY DEF Shaped, TypeOK
    <2> QED
      BY <1>3, <2>1 DEF SplitByParents
  <1>4. ASSUME NEW c \in Docs PROVE c \in Class(d) <=> Same(c, d)
    <2>1. c \in Class(d) <=> \A S \in SUBSET Docs : ~ SplitByParents(S) /\ d \in S => c \in S
      BY <1>2 DEF Class
    <2>2. ASSUME \A S \in SUBSET Docs : ~ SplitByParents(S) /\ d \in S => c \in S PROVE Same(c, d)
      <3> SUFFICES ASSUME NEW S \in SUBSET Docs, ~ SplitByParents(S), c \in S, d \notin S PROVE FALSE
        BY <2>2 DEF Same
      <3>1. Docs \ S \in SUBSET Docs /\ ~ SplitByParents(Docs \ S) /\ d \in Docs \ S
        BY <1>3
      <3> QED
        BY <2>2, <3>1
    <2>3. Same(c, d) => \A S \in SUBSET Docs : ~ SplitByParents(S) /\ d \in S => c \in S
      BY DEF Same
    <2> QED
      BY <2>1, <2>2, <2>3
  <1> QED
    BY <1>4 DEF Class

LEMMA MembersTyped ==
  ASSUME Shaped, NEW r \in Docs
  PROVE  /\ DOMAIN members[r] = 1 .. Len(members[r]) /\ Len(members[r]) \in Nat
         /\ \A k \in DOMAIN members[r] : members[r][k] \in Docs
  <1>1. members[r] \in Seq(Docs)
    BY Shapes
  <1> QED
    BY <1>1

MembersOf(r) == {members[r][k] : k \in DOMAIN members[r]}

LEMMA MembersAreClass ==
  ASSUME Shaped, ForestSound, MembersSound, phase \in Listing \ {"member"},
         NEW r \in Docs, NEW d \in Docs, IsRoot(r), Same(r, d)
  PROVE  MembersOf(r) = Class(d)
  <1>1. \A q \in Docs : \A k \in DOMAIN members[q] :
          IsRoot(q) /\ Same(members[q][k], q) /\ members[q][k] \in Docs
    BY MembersTyped DEF MembersSound
  <1>2. ASSUME NEW c \in MembersOf(r) PROVE c \in Docs /\ Same(c, d)
    BY <1>1, SameFacts DEF MembersOf
  <1>3. ASSUME NEW c \in Docs, Same(c, d) PROVE c \in MembersOf(r)
    <2>1. PICK q \in Docs : \E k \in DOMAIN members[q] : members[q][k] = c
      BY DEF MembersSound
    <2>2. IsRoot(q) /\ Same(c, q)
      BY <1>1, <2>1
    <2>3. Same(r, q)
      BY <1>3, <2>2, SameFacts
    <2>4. r = q
      BY <2>2, <2>3, OneRoot
    <2> QED
      BY <2>1, <2>4 DEF MembersOf
  <1>4. Class(d) = {c \in Docs : Same(c, d)}
    BY ClassIsTree
  <1> QED
    BY <1>2, <1>3, <1>4

LEMMA InitMembers == Init => MembersSound
  <1> SUFFICES ASSUME Init PROVE MembersSound
    OBVIOUS
  <1>1. \A r \in Docs : DOMAIN members[r] = {}
    BY DEF Init, Begin
  <1> QED
    BY <1>1 DEF Init, Begin, MembersSound, Listing

LEMMA StepMembers == Shaped /\ ForestSound /\ MembersSound /\ [Next]_vars => MembersSound'
  <1> SUFFICES ASSUME Shaped, ForestSound, MembersSound, [Next]_vars PROVE MembersSound'
    OBVIOUS
  <1>0. Docs' = Docs /\ Shaped'
    BY InputsKept, StepShaped DEF inputs, Docs
  <1>1. PlacesSound
    BY DEF Shaped
  <1>2. parents' = parents => /\ \A c, d : Same(c, d)' <=> Same(c, d)
                              /\ \A d : IsRoot(d)' <=> IsRoot(d)
    BY <1>0 DEF SplitByParents, Same, IsRoot
  (* Before the members are listed there are none.                         *)
  <1>3. ASSUME phase' \notin Listing PROVE MembersSound'
    <2>1. \A r \in Docs' : members'[r] = <<>>
      BY <1>0, <1>3 DEF Shaped, PlacesSound
    <2>2. \A r \in Docs' : DOMAIN members'[r] = {}
      BY <2>1
    <2> QED
      BY <1>3, <2>2 DEF MembersSound, Listing
  <1>4. CASE Adopt \/ AdoptConflict \/ AdoptSkip \/ AdoptPass \/ ValidateEdge \/ Validated
             \/ ParentsEdge \/ UnionLeft \/ UnionRight
    BY <1>3, <1>4 DEF Adopt, AdoptConflict, AdoptSkip, AdoptPass, ValidateEdge, Validated,
                      ParentsEdge, UnionLeft, UnionRight, Listing
  <1>5. CASE FindHalve
    <2>1. phase' = phase /\ cursor' = cursor /\ members' = members
      BY <1>5 DEF FindHalve, result
    <2>2. \A c, d : Same(c, d)' <=> Same(c, d)
      BY <1>5, HalvingKeepsTrees
    <2>3. \A d \in Docs : IsRoot(d) => IsRoot(d)'
      BY <1>5, HalvingKeepsTrees DEF IsRoot
    <2> QED
      BY <1>0, <2>1, <2>2, <2>3 DEF MembersSound
  <1>6. CASE ParentsDone
    <2>1. phase = "parents" /\ phase' = "member" /\ members' = members /\ cursor' = 1
      BY <1>6 DEF ParentsDone, result
    <2>2. \A r \in Docs : DOMAIN members[r] = {}
      BY <1>1, <2>1 DEF PlacesSound, Listing
    <2>3. \A d \in Docs : ~ (d < 1)
      BY Shapes
    <2> QED
      BY <1>0, <2>1, <2>2, <2>3 DEF MembersSound
  <1>7. CASE MemberFound
    <2>1. /\ phase = "member" /\ parents' = parents /\ IsRoot(node) /\ cursor \in Docs /\ node \in Docs
          /\ members \in [Docs -> Seq(Docs)]
      BY <1>1, <1>7 DEF MemberFound, Found, IsRoot, PlacesSound, Shaped, TypeOK
    <2>2. Same(cursor, node)
      BY <2>1, SameFacts DEF ForestSound
    <2> DEFINE longer == Append(members[node], cursor)
               last == Len(members[node]) + 1
    <2>3. \A r \in Docs : members'[r] = IF r = node THEN longer ELSE members[r]
      BY <1>7, <2>1 DEF MemberFound
    <2>4. /\ members[node] \in Seq(Docs) /\ last \in Nat \ {0} /\ DOMAIN members[node] = 1 .. last - 1
          /\ DOMAIN longer = 1 .. last /\ longer[last] = cursor
          /\ \A k \in 1 .. last - 1 : longer[k] = members[node][k]
      BY <2>1
    <2> HIDE DEF longer, last
    <2>5. cursor \in Nat /\ \A d \in Docs : d \in Nat
      BY Shapes
    <2>6. \A k \in DOMAIN longer : /\ Same(longer[k], node) /\ longer[k] \in Docs /\ longer[k] < cursor + 1
                                   /\ \A l \in DOMAIN longer : k < l => longer[k] < longer[l]
      <3> TAKE k \in DOMAIN longer
      <3>1. \A m \in 1 .. last - 1 : /\ Same(members[node][m], node) /\ members[node][m] \in Docs
                                     /\ members[node][m] < cursor
                                     /\ \A l \in 1 .. last - 1 : m < l => members[node][m] < members[node][l]
        BY <2>1, <2>4, MembersTyped DEF MembersSound
      <3>2. CASE k = last
        BY <2>1, <2>2, <2>4, <2>5, <3>2
      <3>3. CASE k \in 1 .. last - 1
        <4>1. longer[k] = members[node][k]
          BY <2>4, <3>3
        <4>2. \A l \in DOMAIN longer : l = last \/ l \in 1 .. last - 1
          BY <2>4
        <4>3. longer[k] \in Docs /\ longer[k] < cursor /\ Same(longer[k], node)
          BY <3>1, <3>3, <4>1
        <4>4. \A l \in DOMAIN longer : k < l => longer[k] < longer[l]
          BY <2>4, <3>1, <3>3, <4>1, <4>2, <4>3
        <4> QED
          BY <2>5, <4>3, <4>4
      <3> QED
        BY <2>4, <3>2, <3>3
    <2>7. phase' = "member" => cursor' = cursor + 1
      BY <1>7 DEF MemberFound
    <2>8. \A r \in Docs : \A k \in DOMAIN members[r] :
            /\ IsRoot(r) /\ Same(members[r][k], r) /\ members[r][k] \in Docs /\ members[r][k] < cursor
            /\ \A l \in DOMAIN members[r] : k < l => members[r][k] < members[r][l]
      BY <2>1, MembersTyped DEF MembersSound
    <2>9. ASSUME NEW r \in Docs, NEW k \in DOMAIN members'[r]
          PROVE  /\ IsRoot(r)' /\ Same(members'[r][k], r)
                 /\ phase' = "member" => members'[r][k] < cursor'
                 /\ \A l \in DOMAIN members'[r] : k < l => members'[r][k] < members'[r][l]
      <3>1. CASE r = node
        <4>1. members'[r] = longer
          BY <2>3, <3>1
        <4> QED
          BY <1>2, <2>1, <2>6, <2>7, <2>9, <3>1, <4>1
      <3>2. CASE r # node
        <4>1. members'[r] = members[r] /\ k \in DOMAIN members[r]
          BY <2>3, <2>9, <3>2
        <4>2. phase' = "member" => members[r][k] < cursor'
          BY <2>5, <2>7, <2>8, <4>1
        <4> QED
          BY <1>2, <2>1, <2>8, <4>1, <4>2
      <3> QED
        BY <3>1, <3>2
    <2>10. ASSUME NEW d \in Docs, phase' # "member" \/ d < cursor'
           PROVE  \E r \in Docs : \E k \in DOMAIN members'[r] : members'[r][k] = d
      <3>1. d < cursor \/ d = cursor
        BY <1>7, <2>7, <2>10, Shapes DEF MemberFound
      <3>2. CASE d < cursor
        <4>1. PICK r \in Docs : \E k \in DOMAIN members[r] : members[r][k] = d
          BY <2>1, <3>2 DEF MembersSound, Listing
        <4>3. PICK k \in DOMAIN members[r] : members[r][k] = d
          BY <4>1
        <4>2. k \in DOMAIN members'[r] /\ members'[r][k] = d
          BY <2>3, <2>4, <4>1, <4>3
        <4> QED
          BY <4>2
      <3>3. CASE d = cursor
        <4>1. last \in DOMAIN members'[node] /\ members'[node][last] = d
          BY <2>1, <2>3, <2>4, <3>3
        <4> QED
          BY <2>1, <4>1
      <3> QED
        BY <3>1, <3>2, <3>3
    <2> QED
      BY <1>0, <1>2, <2>1, <2>9, <2>10 DEF MembersSound
  <1>8. CASE SelfFound \/ ImportEdge \/ TargetFound \/ ListMember \/ ListDone \/ NextVisible
    <2>1. parents' = parents /\ members' = members /\ phase \in Listing \ {"member"} /\ phase' \in Listing \ {"member"}
      BY <1>8 DEF SelfFound, ImportEdge, TargetFound, ListMember, ListDone, NextVisible, forest, result, Listing
    <2> QED
      BY <1>0, <1>2, <2>1 DEF MembersSound
  <1>9. CASE UNCHANGED vars
    BY <1>0, <1>2, <1>9 DEF vars, MembersSound
  <1> QED
    BY <1>4, <1>5, <1>6, <1>7, <1>8, <1>9 DEF Next

LEMMA InitVisible == Init => VisibleSound
  BY DEF Init, Begin, VisibleSound

(* The members of one root are listed once.                                *)
LEMMA MembersDistinct ==
  ASSUME Shaped, MembersSound, NEW r \in Docs, NEW k \in DOMAIN members[r], NEW l \in DOMAIN members[r],
         members[r][k] = members[r][l]
  PROVE  k = l
  <1>1. k \in Nat /\ l \in Nat
    <2>1. DOMAIN members[r] = 1 .. Len(members[r]) /\ Len(members[r]) \in Nat
      BY MembersTyped
    <2> QED
      BY <2>1
  <1>2. ASSUME NEW i \in DOMAIN members[r], NEW j \in DOMAIN members[r], i < j
        PROVE  members[r][i] # members[r][j]
    <2>1. members[r][i] \in Nat /\ members[r][j] \in Nat /\ members[r][i] < members[r][j]
      <3>1. \A d \in Docs : d \in Nat
        BY Shapes
      <3>2. members[r][i] \in Docs /\ members[r][j] \in Docs
        BY MembersTyped
      <3> QED
        BY <1>2, <3>1, <3>2 DEF MembersSound
    <2> QED
      BY <2>1
  <1> QED
    BY <1>1, <1>2

LEMMA StepVisible ==
  Shaped /\ ForestSound /\ MembersSound /\ VisibleSound /\ [Next]_vars => VisibleSound'
  <1> SUFFICES ASSUME Shaped, ForestSound, MembersSound, VisibleSound, [Next]_vars PROVE VisibleSound'
    OBVIOUS
  <1>0. /\ edges' = edges /\ Shaped' /\ \A d : Class(d)' = Class(d)
        /\ \A d, bound : ImportsOf(d, bound)' = ImportsOf(d, bound)
        /\ \A d, bound : Sees(d, bound)' = Sees(d, bound)
    BY InputsKept, StepShaped DEF inputs, Docs, Class, Includes, IsInclude, ImportsOf, Sees
  <1>1. PlacesSound
    BY DEF Shaped
  <1>2. DOMAIN visible = 1 .. Len(visible) /\ Len(visible) \in Nat /\ cursor \in Nat
    BY Shapes
  (* Nothing is visible before the classes are known.                      *)
  <1>3. ASSUME phase' \notin Listing \/ phase' = "member" PROVE VisibleSound'
    <2>1. visible' = <<>>
      BY <1>0, <1>3 DEF Shaped, PlacesSound
    <2> QED
      BY <2>1 DEF VisibleSound
  <1>4. CASE Adopt \/ AdoptConflict \/ AdoptSkip \/ AdoptPass \/ ValidateEdge \/ Validated
             \/ ParentsEdge \/ UnionLeft \/ UnionRight \/ ParentsDone
    BY <1>3, <1>4 DEF Adopt, AdoptConflict, AdoptSkip, AdoptPass, ValidateEdge, Validated,
                      ParentsEdge, UnionLeft, UnionRight, ParentsDone, Listing
  <1>5. CASE FindHalve
    <2>1. phase' = phase /\ cursor' = cursor /\ inner' = inner /\ visible' = visible /\ phase # "list"
      BY <1>5 DEF FindHalve, Finding, result
    <2> QED
      BY <1>0, <2>1 DEF VisibleSound, Finished, Listed
  <1>6. CASE MemberFound
    <2>1. visible = <<>> /\ visible' = visible
      BY <1>1, <1>6 DEF MemberFound, PlacesSound
    <2> QED
      BY <2>1 DEF VisibleSound
  <1>7. CASE SelfFound
    <2>1. /\ phase = "self" /\ phase' = "imports" /\ inner' = 1 /\ cursor' = cursor
          /\ cursor \in Docs /\ node \in Docs /\ Len(visible) = cursor - 1 /\ IsRoot(node)
      BY <1>1, <1>7, Shapes DEF SelfFound, Found, PlacesSound, IsRoot
    <2>2. MembersOf(node) = Class(cursor)
      BY <2>1, MembersAreClass DEF ForestSound, Listing
    <2>3. /\ DOMAIN visible' = 1 .. cursor /\ visible'[cursor] = members[node]
          /\ \A d \in 1 .. cursor - 1 : visible'[d] = visible[d]
      <3>1. visible \in Seq(Seq(Docs)) /\ members[node] \in Seq(Docs)
        BY <2>1, Shapes DEF Shaped, TypeOK
      <3> QED
        BY <1>2, <1>7, <2>1, <3>1 DEF SelfFound
    <2>4. Sees(cursor, 1) = Class(cursor)
      <3>1. ImportsOf(cursor, 1) = {}
        BY Shapes DEF ImportsOf
      <3> QED
        BY <3>1 DEF Sees
    <2>5. \A k, l \in DOMAIN members[node] : members[node][k] = members[node][l] => k = l
      BY <2>1, MembersDistinct
    <2>6. \A d \in DOMAIN visible' : d # cursor => d \in DOMAIN visible /\ d < cursor
      BY <1>2, <2>1, <2>3
    <2>7. ASSUME NEW d \in DOMAIN visible', d # cursor
          PROVE  /\ \A i, j \in DOMAIN visible'[d] : visible'[d][i] = visible'[d][j] => i = j
                 /\ Listed(d)' = Sees(d, Len(edges) + 1)
      <3>1. visible'[d] = visible[d] /\ d \in DOMAIN visible /\ d < cursor
        BY <1>2, <2>3, <2>6, <2>7
      <3> QED
        BY <3>1 DEF VisibleSound, Finished, Listed
    <2>8. Listed(cursor)' = Sees(cursor, 1)
      <3>1. Listed(cursor)' = MembersOf(node)
        BY <2>1, <2>3 DEF Listed, MembersOf
      <3> QED
        BY <2>2, <2>4, <3>1
    <2>9. ~ (cursor < cursor)
      BY <1>2
    <2> QED
      BY <1>0, <2>1, <2>3, <2>5, <2>7, <2>8, <2>9 DEF VisibleSound, Finished
  <1>8. CASE ImportEdge
    <2>1. /\ phase = "imports" /\ cursor' = cursor /\ visible' = visible /\ inner \in DOMAIN edges
          /\ \/ phase' = "target" /\ inner' = inner
             \/ phase' = "imports" /\ inner' = inner + 1 /\ (IsInclude(inner) \/ edges[inner].source # cursor)
      BY <1>8, Shapes DEF ImportEdge, result
    <2>2. (IsInclude(inner) \/ edges[inner].source # cursor) => Sees(cursor, inner + 1) = Sees(cursor, inner)
      <3>1. (IsInclude(inner) \/ edges[inner].source # cursor)
              => ImportsOf(cursor, inner + 1) = ImportsOf(cursor, inner)
        BY Shapes DEF ImportsOf
      <3> QED
        BY <3>1 DEF Sees
    <2> QED
      BY <1>0, <2>1, <2>2 DEF VisibleSound, Finished, Listed
  <1>9. CASE TargetFound
    <2>1. phase = "target" /\ phase' = "list" /\ cursor' = cursor /\ inner' = inner /\ rank' = 1
          /\ visible' = visible /\ node' = node /\ members' = members /\ node \in Docs
      BY <1>9, Shapes DEF TargetFound, forest, result
    <2>2. {members[node][k] : k \in {l \in DOMAIN members[node] : l < 1}} = {}
      BY <2>1, MembersTyped, Shapes
    <2> QED
      BY <1>0, <2>1, <2>2 DEF VisibleSound, Finished, Listed
  <1>10. CASE ListMember
    <2> DEFINE source == members[node][rank]
               before == {members[node][k] : k \in {l \in DOMAIN members[node] : l < rank}}
               upTo == {members[node][k] : k \in {l \in DOMAIN members[node] : l < rank + 1}}
    <2>1. /\ phase = "list" /\ phase' = "list" /\ cursor' = cursor /\ inner' = inner /\ rank' = rank + 1
          /\ node' = node /\ members' = members /\ node \in Docs /\ cursor \in DOMAIN visible
      BY <1>1, <1>2, <1>10, Shapes DEF ListMember, forest, PlacesSound
    <2>2. rank \in DOMAIN members[node] /\ source \in Docs /\ visible[cursor] \in Seq(Docs)
      <3>1. /\ DOMAIN members[node] = 1 .. Len(members[node]) /\ Len(members[node]) \in Nat
            /\ \A k \in DOMAIN members[node] : members[node][k] \in Docs
        BY <2>1, MembersTyped
      <3>2. rank \in DOMAIN members[node]
        BY <1>10, <3>1, Lengths DEF ListMember
      <3>3. visible[cursor] \in Seq(Docs)
        BY <2>1, Shapes
      <3> QED
        BY <3>1, <3>2, <3>3
    <2>3. upTo = before \cup {source}
      <3>1. \A l \in DOMAIN members[node] : l < rank + 1 <=> l < rank \/ l = rank
        <4>1. DOMAIN members[node] = 1 .. Len(members[node]) /\ Len(members[node]) \in Nat /\ rank \in Nat
          BY <2>1, MembersTyped, Lengths
        <4> QED
          BY <4>1
      <3> QED
        BY <2>2, <3>1
    <2>4. Listed(cursor) = Sees(cursor, inner) \cup before
      BY <2>1 DEF VisibleSound
    <2>5. \A i, j \in DOMAIN visible[cursor] : visible[cursor][i] = visible[cursor][j] => i = j
      BY <2>1 DEF VisibleSound
    <2> HIDE DEF source, before, upTo
    <2>6. visible' = IF source \in Listed(cursor) THEN visible
                     ELSE [visible EXCEPT ![cursor] = Append(@, source)]
      BY <1>10 DEF ListMember, source
    <2>7. DOMAIN visible' = DOMAIN visible /\ \A d \in DOMAIN visible : d # cursor => visible'[d] = visible[d]
      BY <2>1, <2>6, Shapes DEF Shaped, TypeOK
    <2>8. /\ Listed(cursor)' = Listed(cursor) \cup {source}
          /\ \A i, j \in DOMAIN visible'[cursor] : visible'[cursor][i] = visible'[cursor][j] => i = j
      <3>1. CASE source \in Listed(cursor)
        BY <2>1, <2>5, <2>6, <3>1 DEF Listed
      <3>2. CASE source \notin Listed(cursor)
        <4> DEFINE old == visible[cursor]
                   new == Append(old, source)
                   last == Len(old) + 1
        <4>1. visible'[cursor] = new
          BY <1>2, <2>1, <2>6, <3>2 DEF Shaped, TypeOK
        <4>2. /\ last \in Nat \ {0} /\ DOMAIN old = 1 .. last - 1 /\ DOMAIN new = 1 .. last
              /\ new[last] = source /\ \A i \in 1 .. last - 1 : new[i] = old[i]
          BY <2>2
        <4>3. \A i \in DOMAIN old : old[i] # source
          BY <3>2 DEF Listed
        <4> HIDE DEF new, last
        <4>4. \A i \in DOMAIN new : i = last \/ i \in DOMAIN old
          BY <4>2
        <4>5. \A i, j \in DOMAIN new : new[i] = new[j] => i = j
          BY <2>5, <4>2, <4>3, <4>4
        <4>6. {new[i] : i \in DOMAIN new} = {old[i] : i \in DOMAIN old} \cup {source}
          BY <4>2, <4>4
        <4> QED
          BY <2>1, <4>1, <4>5, <4>6 DEF Listed
      <3> QED
        BY <3>1, <3>2
    <2>9. Listed(cursor)' = Sees(cursor, inner) \cup upTo
      BY <2>3, <2>4, <2>8
    <2>10. upTo = {members'[node'][k] : k \in {l \in DOMAIN members'[node'] : l < rank'}}
      BY <2>1 DEF upTo
    <2>11. ASSUME NEW d \in DOMAIN visible, d # cursor
           PROVE  /\ \A i, j \in DOMAIN visible'[d] : visible'[d][i] = visible'[d][j] => i = j
                  /\ Finished(d)' => Listed(d)' = Sees(d, Len(edges) + 1)
      BY <2>1, <2>7, <2>11 DEF VisibleSound, Finished, Listed
    <2>12. ~ Finished(cursor)'
      BY <1>2, <2>1 DEF Finished
    <2> QED
      BY <1>0, <2>1, <2>7, <2>8, <2>9, <2>10, <2>11, <2>12 DEF VisibleSound, Finished
  <1>11. CASE ListDone
    <2>1. /\ phase = "list" /\ phase' = "imports" /\ cursor' = cursor /\ inner' = inner + 1
          /\ visible' = visible /\ node \in Docs /\ rank > Len(members[node])
          /\ inner \in DOMAIN edges /\ ~ IsInclude(inner) /\ edges[inner].source = cursor
      BY <1>1, <1>11, Shapes DEF ListDone, result, PlacesSound
    <2> DEFINE before == {members[node][k] : k \in {l \in DOMAIN members[node] : l < rank}}
    <2>2. before = MembersOf(node)
      BY <2>1, MembersTyped, Shapes DEF MembersOf
    <2>3. MembersOf(node) = Class(edges[inner].target)
      BY <2>1, MembersAreClass, Shapes DEF ForestSound, Listing
    <2>4. Sees(cursor, inner + 1) = Sees(cursor, inner) \cup Class(edges[inner].target)
      <3>1. ImportsOf(cursor, inner + 1) = ImportsOf(cursor, inner) \cup {inner}
        BY <2>1, Shapes DEF ImportsOf
      <3> QED
        BY <3>1 DEF Sees
    <2>5. cursor \in DOMAIN visible => Listed(cursor) = Sees(cursor, inner + 1)
      BY <2>1, <2>2, <2>3, <2>4 DEF VisibleSound
    <2> QED
      BY <1>0, <2>1, <2>5 DEF VisibleSound, Finished, Listed
  <1>12. CASE NextVisible
    <2>1. /\ phase = "imports" /\ phase' \in {"self", "done"} /\ visible' = visible /\ inner > Len(edges)
          /\ Len(visible) = cursor
      BY <1>1, <1>12 DEF NextVisible, result, PlacesSound
    <2>2. inner = Len(edges) + 1
      <3>1. inner \in 1 .. Len(edges) + 1
        BY DEF Shaped, TypeOK
      <3>2. Len(edges) \in Nat
        BY Lengths
      <3> QED
        BY <2>1, <3>1, <3>2
    <2>3. \A d \in DOMAIN visible : d < cursor \/ d = cursor
      BY <1>2, <2>1
    <2>4. \A d \in DOMAIN visible : Listed(d) = Sees(d, Len(edges) + 1)
      BY <2>1, <2>2, <2>3 DEF VisibleSound, Finished
    <2> QED
      BY <1>0, <2>1, <2>4 DEF VisibleSound, Finished, Listed
  <1>13. CASE UNCHANGED vars
    BY <1>0, <1>13 DEF vars, VisibleSound, Finished, Listed
  <1> QED
    BY <1>4, <1>5, <1>6, <1>7, <1>8, <1>9, <1>10, <1>11, <1>12, <1>13 DEF Next

CompositionInv == Shaped /\ NamespacesInv /\ ForestSound /\ MembersSound /\ VisibleSound

(* The strengthened invariant of the whole composition.                    *)
THEOREM SoundAlways == Spec => []CompositionInv
  <1>1. Init => CompositionInv
    BY InitShaped, InitNamespaces, InitForest, InitMembers, InitVisible DEF CompositionInv
  <1>2. CompositionInv /\ [Next]_vars => CompositionInv'
    BY StepShaped, StepNamespaces, StepForest, StepMembers, StepVisible DEF CompositionInv
  <1> QED
    BY <1>1, <1>2, PTL DEF Spec

(* A document sees the classes of its own and of its direct imports, each  *)
(* document once (schemaDocumentVisibleSourcesAt).                         *)
THEOREM VisibilityExact == Spec => []VisibilityMatchesReferences
  <1>1. CompositionInv => VisibilityMatchesReferences
    <2> SUFFICES ASSUME CompositionInv, NEW d \in DOMAIN visible, d < cursor \/ phase = "done"
                 PROVE  LET sees == {visible[d][i] : i \in DOMAIN visible[d]}
                            imported == {edges[i].target : i \in {j \in DOMAIN edges \ Includes : edges[j].source = d}} IN
                        /\ sees = Class(d) \cup UNION {Class(t) : t \in imported}
                        /\ \A i, j \in DOMAIN visible[d] : visible[d][i] = visible[d][j] => i = j
      BY DEF VisibilityMatchesReferences
    <2>1. Shaped /\ VisibleSound /\ Finished(d)
      BY DEF CompositionInv, Finished
    <2>2. Listed(d) = Sees(d, Len(edges) + 1)
          /\ \A i, j \in DOMAIN visible[d] : visible[d][i] = visible[d][j] => i = j
      BY <2>1 DEF VisibleSound
    <2>3. ImportsOf(d, Len(edges) + 1) = {j \in DOMAIN edges \ Includes : edges[j].source = d}
      BY <2>1, Shapes DEF ImportsOf, Includes
    <2> DEFINE own == {j \in DOMAIN edges \ Includes : edges[j].source = d}
    <2>4. UNION {Class(t) : t \in {edges[i].target : i \in own}} = UNION {Class(edges[j].target) : j \in own}
      OBVIOUS
    <2> QED
      BY <2>2, <2>3, <2>4 DEF Listed, Sees
  <1> QED
    BY <1>1, SoundAlways, PTL
=============================================================================
