------------------------------ MODULE Discovery ------------------------------
(***************************************************************************)
(* The FIFO discovery of schema documents (discovery.go, resolver.go and   *)
(* the lifecycle of syntax.go's decoder): a root source and every source   *)
(* the resolver answers with are decoded or closed, identities are         *)
(* interned before a source is decoded, and any failure closes what is     *)
(* still queued.  The content of a document is abstracted to the number of *)
(* its include and import references; the resolver, the decoder and the    *)
(* readers are the environment and answer as they like.                    *)
(***************************************************************************)
EXTENDS Naturals, Sequences

CONSTANTS
  SourceIDs,   \* the identities a resolver can answer with
  NoID,        \* the empty SourceID, which is not valid
  MaxRefs      \* bound on the references of one document

ASSUME DiscoveryAssumption ==
  /\ NoID \notin SourceIDs
  /\ MaxRefs \in Nat

VARIABLES
  phase,        \* where the call is
  policyValid,  \* the caller passed a known LanguagePolicy
  hasResolver,  \* the caller passed a resolver
  streams,      \* every ResolvedSource received so far, by handle, in order
  drained,      \* handles whose stream was read to its end
  closed,       \* handles whose stream was closed
  reclosed,     \* handles whose stream was closed more than once
  queue,        \* syntaxDiscovery.queue: handles waiting to be decoded
  seen,         \* syntaxDiscovery.seen: interned identities
  documents,    \* syntaxDiscovery.documents, each with its reference count
  nextRef,      \* references of the last document already enqueued
  edges,        \* syntaxDiscovery.edges: <<source, target>> identities
  closeErrors,  \* handles whose Close returned an error
  reported      \* handles whose close error is in the returned diagnostics

vars == <<phase, policyValid, hasResolver, streams, drained, closed, reclosed,
          queue, seen, documents, nextRef, edges, closeErrors, reported>>

Phases == {"preflight", "decode", "refs", "done", "failed"}
Returned == phase \in {"done", "failed"}

(* A ResolvedSource value: its identity and which of its context and       *)
(* reader are not nil.                                                     *)
Sources == [id : SourceIDs \cup {NoID}, parts : SUBSET {"ctx", "reader"}]

Documents == [source : SourceIDs, refs : 0 .. MaxRefs]

HasReader(source) == "reader" \in source.parts

(* Mutant: the identity is not checked.                                    *)
validateWithoutID(source) == "ctx" \in source.parts /\ HasReader(source)

validateDiscoverySource(source) ==
  /\ "ctx" \in source.parts
  /\ source.id # NoID
  /\ HasReader(source)

Handles(s) == {s[i] : i \in DOMAIN s}
Readers(held, handles) == {h \in handles : HasReader(held[h])}

(* closeDiscoverySource on each handle of a set: a source without a reader *)
(* is left alone.  The decoder closes the source it decodes itself.        *)
Close(held, handles) ==
  /\ closed' = closed \cup Readers(held, handles)
  /\ reclosed' = reclosed \cup (closed \cap Readers(held, handles))

(* Mutant: finish drops close errors.                                      *)
FailDropsCloseErrors(held, handles) ==
  /\ Close(held, handles)
  /\ \E failing \in SUBSET Readers(held, handles) : closeErrors' = closeErrors \cup failing
  /\ streams' = held /\ queue' = <<>> /\ phase' = "failed"
  /\ UNCHANGED reported

(* An error return: Close is called on the handles and some of the calls   *)
(* fail; finish and closeDiscoverySourceOnError add each failure to the    *)
(* primary error.  "held" is streams with what this step received.         *)
Fail(held, handles) ==
  /\ Close(held, handles)
  /\ \E failing \in SUBSET Readers(held, handles) :
       /\ closeErrors' = closeErrors \cup failing
       /\ reported' = reported \cup failing
  /\ streams' = held
  /\ queue' = <<>>
  /\ phase' = "failed"

-----------------------------------------------------------------------------
Init ==
  /\ phase = "preflight"
  /\ policyValid \in BOOLEAN
  /\ hasResolver \in BOOLEAN
  /\ \E root \in Sources : streams = <<root>>
  /\ drained = {} /\ closed = {} /\ reclosed = {}
  /\ queue = <<>>
  /\ seen = {}
  /\ documents = <<>>
  /\ nextRef = 0
  /\ edges = <<>>
  /\ closeErrors = {}
  /\ reported = {}

(* The policy or the root source is not valid: the root is closed.         *)
RejectRoot ==
  /\ phase = "preflight"
  /\ ~ (policyValid /\ validateDiscoverySource(streams[1]))
  /\ Fail(streams, {1})
  /\ UNCHANGED <<policyValid, hasResolver, drained, seen, documents, nextRef, edges>>

AcceptRoot ==
  /\ phase = "preflight"
  /\ policyValid /\ validateDiscoverySource(streams[1])
  /\ seen' = {streams[1].id}
  /\ queue' = <<1>>
  /\ phase' = "decode"
  /\ UNCHANGED <<policyValid, hasResolver, streams, drained, closed, reclosed,
                 documents, nextRef, edges, closeErrors, reported>>

-----------------------------------------------------------------------------
(* The head of the queue is decoded, filtered and validated, and its       *)
(* references are collected: the stream is drained and closed.             *)
DecodeDocument ==
  /\ phase = "decode" /\ queue # <<>>
  /\ LET h == Head(queue) IN
       /\ Close(streams, {h})
       /\ drained' = drained \cup {h}
       /\ \E n \in 0 .. MaxRefs :
            documents' = Append(documents, [source |-> streams[h].id, refs |-> n])
  /\ queue' = Tail(queue)
  /\ nextRef' = 0
  /\ phase' = "refs"
  /\ UNCHANGED <<policyValid, hasResolver, streams, seen, edges, closeErrors, reported>>

(* The decoder, its Close, the conditional inclusion, the structure check  *)
(* or the reference collection fails.  The decoder has closed the stream   *)
(* in each case, drained unless reading failed; finish closes the rest of  *)
(* the queue, which no longer holds it.                                    *)
DecodeFailure ==
  /\ phase = "decode" /\ queue # <<>>
  /\ Fail(streams, Handles(queue))
  /\ drained' \in {drained, drained \cup {Head(queue)}}
  /\ UNCHANGED <<policyValid, hasResolver, seen, documents, nextRef, edges>>

-----------------------------------------------------------------------------
Parent == documents[Len(documents)].source
MoreRefs == phase = "refs" /\ nextRef < documents[Len(documents)].refs

(* enqueue: a reference without a resolver to answer it.                   *)
NoResolver ==
  /\ MoreRefs
  /\ ~ hasResolver
  /\ Fail(streams, Handles(queue))
  /\ UNCHANGED <<policyValid, hasResolver, drained, seen, documents, nextRef, edges>>

(* enqueue: Resolve fails, with or without a source beside its error, or   *)
(* answers with a source that is not valid; what came back is closed.      *)
ResolveFailure ==
  /\ MoreRefs
  /\ hasResolver
  /\ \E source \in Sources :
       Fail(Append(streams, source), {Len(streams) + 1} \cup Handles(queue))
  /\ UNCHANGED <<policyValid, hasResolver, drained, seen, documents, nextRef, edges>>

(* Mutant: a new source is put at the head of the queue.                   *)
EnqueueNewFirst ==
  /\ MoreRefs
  /\ hasResolver
  /\ \E source \in Sources :
       /\ validateDiscoverySource(source)
       /\ source.id \notin seen
       /\ streams' = Append(streams, source)
       /\ edges' = Append(edges, <<Parent, source.id>>)
       /\ seen' = seen \cup {source.id}
  /\ queue' = <<Len(streams) + 1>> \o queue
  /\ nextRef' = nextRef + 1
  /\ UNCHANGED <<phase, policyValid, hasResolver, drained, closed, reclosed,
                 documents, closeErrors, reported>>

(* enqueue: an identity not seen before is interned and queued.            *)
EnqueueNew ==
  /\ MoreRefs
  /\ hasResolver
  /\ \E source \in Sources :
       /\ validateDiscoverySource(source)
       /\ source.id \notin seen
       /\ streams' = Append(streams, source)
       /\ edges' = Append(edges, <<Parent, source.id>>)
       /\ seen' = seen \cup {source.id}
  /\ queue' = Append(queue, Len(streams) + 1)
  /\ nextRef' = nextRef + 1
  /\ UNCHANGED <<phase, policyValid, hasResolver, drained, closed, reclosed,
                 documents, closeErrors, reported>>

(* Mutants: a repeated source is left open; its reference leaves no edge.  *)
CloseRepeatedLeavesOpen ==
  /\ MoreRefs
  /\ hasResolver
  /\ \E source \in Sources :
       /\ validateDiscoverySource(source)
       /\ source.id \in seen
       /\ streams' = Append(streams, source)
       /\ edges' = Append(edges, <<Parent, source.id>>)
  /\ nextRef' = nextRef + 1
  /\ UNCHANGED <<phase, policyValid, hasResolver, drained, closed, reclosed, queue,
                 seen, documents, closeErrors, reported>>

CloseRepeatedWithoutEdge ==
  /\ MoreRefs
  /\ hasResolver
  /\ \E source \in Sources :
       /\ validateDiscoverySource(source)
       /\ source.id \in seen
       /\ streams' = Append(streams, source)
       /\ Close(streams', {Len(streams) + 1})
  /\ nextRef' = nextRef + 1
  /\ UNCHANGED <<phase, policyValid, hasResolver, drained, queue, seen,
                 documents, edges, closeErrors, reported>>

(* enqueue: a repeated or cyclic identity keeps its edge, and its stream   *)
(* is closed without being decoded.                                        *)
CloseRepeated ==
  /\ MoreRefs
  /\ hasResolver
  /\ \E source \in Sources :
       /\ validateDiscoverySource(source)
       /\ source.id \in seen
       /\ streams' = Append(streams, source)
       /\ edges' = Append(edges, <<Parent, source.id>>)
       /\ Close(streams', {Len(streams) + 1})
  /\ nextRef' = nextRef + 1
  /\ UNCHANGED <<phase, policyValid, hasResolver, drained, queue, seen,
                 documents, closeErrors, reported>>

(* enqueue: the Close of a repeated identity's stream fails, and with it   *)
(* the call.                                                               *)
CloseRepeatedFailure ==
  /\ MoreRefs
  /\ hasResolver
  /\ \E source \in Sources :
       /\ validateDiscoverySource(source)
       /\ source.id \in seen
       /\ edges' = Append(edges, <<Parent, source.id>>)
       /\ Fail(Append(streams, source), {Len(streams) + 1} \cup Handles(queue))
  /\ Len(streams) + 1 \in closeErrors'
  /\ UNCHANGED <<policyValid, hasResolver, drained, seen, documents, nextRef>>

(* Mutant: the loop waits for a queued source instead of testing for one.  *)
NextDocumentWaits ==
  /\ phase = "refs"
  /\ nextRef = documents[Len(documents)].refs
  /\ queue # <<>>
  /\ phase' = "decode"
  /\ UNCHANGED <<policyValid, hasResolver, streams, drained, closed, reclosed,
                 queue, seen, documents, nextRef, edges, closeErrors, reported>>

(* All references of the document are enqueued: back to the loop's head.   *)
NextDocument ==
  /\ phase = "refs"
  /\ nextRef = documents[Len(documents)].refs
  /\ phase' = "decode"
  /\ UNCHANGED <<policyValid, hasResolver, streams, drained, closed, reclosed,
                 queue, seen, documents, nextRef, edges, closeErrors, reported>>

(* Mutant: discovery returns with sources still queued.                    *)
CompleteEarly ==
  /\ phase = "decode"
  /\ phase' = "done"
  /\ UNCHANGED <<policyValid, hasResolver, streams, drained, closed, reclosed,
                 queue, seen, documents, nextRef, edges, closeErrors, reported>>

(* The queue is empty: the documents and the edges are returned.           *)
Complete ==
  /\ phase = "decode"
  /\ queue = <<>>
  /\ phase' = "done"
  /\ UNCHANGED <<policyValid, hasResolver, streams, drained, closed, reclosed,
                 queue, seen, documents, nextRef, edges, closeErrors, reported>>

Next ==
  \/ RejectRoot \/ AcceptRoot
  \/ DecodeDocument \/ DecodeFailure
  \/ NoResolver \/ ResolveFailure \/ EnqueueNew
  \/ CloseRepeated \/ CloseRepeatedFailure
  \/ NextDocument \/ Complete

Spec == Init /\ [][Next]_vars
FairSpec == Spec /\ WF_vars(Next)
-----------------------------------------------------------------------------
(* Types of the state.                                                     *)
TypeOK ==
  /\ phase \in Phases
  /\ policyValid \in BOOLEAN /\ hasResolver \in BOOLEAN
  /\ streams \in Seq(Sources)
  /\ drained \subseteq DOMAIN streams
  /\ closed \subseteq DOMAIN streams
  /\ reclosed \subseteq DOMAIN streams
  /\ queue \in Seq(Nat)
  /\ seen \subseteq SourceIDs
  /\ documents \in Seq(Documents)
  /\ nextRef \in 0 .. MaxRefs
  /\ edges \in Seq(SourceIDs \X SourceIDs)
  /\ closeErrors \subseteq DOMAIN streams
  /\ reported \subseteq DOMAIN streams

(* The streams still open are the queued ones: once the root has been      *)
(* looked at, a source with a reader is either in the queue or closed, and *)
(* none is ever closed twice, whatever failed in between.                  *)
ClosesMatchQueue ==
  /\ reclosed = {}
  /\ phase # "preflight" =>
       \A h \in DOMAIN streams :
         h \in closed <=> HasReader(streams[h]) /\ h \notin Handles(queue)

(* schema_parse.go:10-12 and 24-25: when ParseSchema returns, on success   *)
(* or on any error, every stream it was ever handed is closed exactly once.*)
EveryStreamClosedOnce ==
  Returned => reclosed = {} /\ \A h \in DOMAIN streams : HasReader(streams[h]) => h \in closed

(* No Close error is lost: it is in the diagnostics of the call, and a     *)
(* call that met one does not succeed (discovery.go:201-214).              *)
NoCloseErrorSwallowed ==
  /\ closeErrors \subseteq reported
  /\ closeErrors # {} => phase = "failed"

QueuedIDs == [i \in DOMAIN queue |-> streams[queue[i]].id]
Found == [i \in DOMAIN documents |-> documents[i].source] \o QueuedIDs
Named == <<streams[1].id>> \o [i \in DOMAIN edges |-> edges[i][2]]
FirstAt(s, x) == CHOOSE i \in DOMAIN s : s[i] = x /\ \A j \in 1 .. (i - 1) : s[j] # x

(* Breadth-first order: while the call runs, the decoded documents         *)
(* followed by the queue list every identity a reference has named, each   *)
(* once, in the order the references first named it.                       *)
DiscoveryOrder ==
  phase \in {"decode", "refs", "done"} =>
    /\ Handles(Found) = Handles(Named)
    /\ \A i, j \in DOMAIN Found :
         i < j => FirstAt(Named, Found[i]) < FirstAt(Named, Found[j])

(* A successful discovery is closed and complete: each document's          *)
(* references all left an edge, in document order, and each edge's target  *)
(* was decoded.                                                            *)
EdgesOf(d) == {i \in DOMAIN edges : edges[i][1] = d.source}
ClosureComplete ==
  phase = "done" =>
    /\ \A i \in DOMAIN documents :
         \E first \in 1 .. (Len(edges) + 1) :
           EdgesOf(documents[i]) = first .. (first + documents[i].refs - 1)
    /\ \A i \in DOMAIN edges : \E d \in Handles(documents) : d.source = edges[i][2]

(* Discovery ends, cyclic references included: identities are interned     *)
(* before a source is decoded, so each is decoded once.                    *)
Termination == <>Returned

Ledger == INSTANCE StreamLedger WITH
  open <- Readers(streams, DOMAIN streams) \ closed,
  closed <- closed \ reclosed,
  returned <- Returned

(* Discovery keeps the caller's contract on streams, step by step.         *)
LedgerSpec == Ledger!LedgerSpec
=============================================================================
