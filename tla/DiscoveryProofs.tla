--------------------------- MODULE DiscoveryProofs ---------------------------
(***************************************************************************)
(* Proofs about Discovery, for every set of identities and every bound on  *)
(* the references of a document: the type invariant, the accounting of     *)
(* Close calls, that each step keeps the caller's stream contract, and     *)
(* the order and the closure of what is returned.                          *)
(***************************************************************************)
EXTENDS Discovery, SequenceTheorems, TLAPS

(* Every queued handle names a valid source, and no handle is queued twice.*)
QueueSound ==
  \A i \in DOMAIN queue :
    queue[i] \in DOMAIN streams /\ validateDiscoverySource(streams[queue[i]])

QueueDistinct == \A i, j \in DOMAIN queue : queue[i] = queue[j] => i = j

(* What the phase says of the queue and of the document being expanded.    *)
PhaseSound ==
  /\ streams # <<>>
  /\ phase = "preflight" => Len(streams) = 1 /\ closed = {} /\ queue = <<>>
  /\ phase = "refs" => documents # <<>>
  /\ Returned => queue = <<>>

(* ClosesMatchQueue is not inductive alone: that a handle leaving the      *)
(* queue is closed for the first time needs the queue to hold it once, and *)
(* that it had a reader.                                                   *)
IInv == TypeOK /\ QueueSound /\ QueueDistinct /\ PhaseSound /\ ClosesMatchQueue

-----------------------------------------------------------------------------
(* A received source joins the streams under the next handle, and the      *)
(* handles in use keep their sources.                                      *)
LEMMA ReceivedFacts ==
  ASSUME NEW source \in Sources, NEW held \in Seq(Sources)
  PROVE  /\ Append(held, source) \in Seq(Sources)
         /\ Append(held, source) # <<>>
         /\ Len(held) + 1 \in Nat
         /\ Append(held, source)[Len(held) + 1] = source
         /\ \A h \in DOMAIN held : Append(held, source)[h] = held[h]
         /\ DOMAIN Append(held, source) = DOMAIN held \cup {Len(held) + 1}
         /\ Len(held) + 1 \notin DOMAIN held
  OBVIOUS

(* An error return closes exactly what was open: stated for the streams    *)
(* received so far and the ones this step received, whose handles are in   *)
(* the set it closes.                                                      *)
LEMMA FailFacts ==
  ASSUME IInv,
         NEW held \in Seq(Sources), NEW handles \in SUBSET DOMAIN held,
         DOMAIN streams \subseteq DOMAIN held, held # <<>>,
         \A h \in DOMAIN streams : held[h] = streams[h],
         Fail(held, handles),
         handles \cap closed = {},
         \A h \in DOMAIN held : HasReader(held[h]) /\ h \notin closed => h \in handles,
         \A h \in closed : HasReader(held[h])
  PROVE  /\ streams' \in Seq(Sources)
         /\ closed' \subseteq DOMAIN streams' /\ reclosed' \subseteq DOMAIN streams'
         /\ closeErrors' \subseteq DOMAIN streams' /\ reported' \subseteq DOMAIN streams'
         /\ queue' \in Seq(Nat) /\ phase' = "failed"
         /\ QueueSound' /\ QueueDistinct' /\ PhaseSound' /\ ClosesMatchQueue'
  <1>1. /\ streams' = held /\ queue' = <<>> /\ phase' = "failed"
        /\ closed' = closed \cup Readers(held, handles)
        /\ reclosed' = reclosed \cup (closed \cap Readers(held, handles))
        /\ \E failing \in SUBSET Readers(held, handles) :
             /\ closeErrors' = closeErrors \cup failing
             /\ reported' = reported \cup failing
    BY DEF Fail, Close
  <1>2. /\ closed \subseteq DOMAIN held /\ reclosed = {}
        /\ closeErrors \subseteq DOMAIN held /\ reported \subseteq DOMAIN held
    BY DEF IInv, TypeOK, ClosesMatchQueue
  <1>3. Readers(held, handles) = {h \in handles : HasReader(held[h])}
    BY DEF Readers
  <1>4. /\ closed' \subseteq DOMAIN held /\ reclosed' = {}
        /\ closeErrors' \subseteq DOMAIN held /\ reported' \subseteq DOMAIN held
    BY <1>1, <1>2, <1>3
  <1>5. QueueSound' /\ QueueDistinct' /\ queue' \in Seq(Nat)
    BY <1>1 DEF QueueSound, QueueDistinct
  <1>6. PhaseSound'
    BY <1>1 DEF PhaseSound, Returned
  <1>7. \A h \in DOMAIN held : h \in closed' <=> HasReader(held[h])
    BY <1>1, <1>3
  <1>8. ClosesMatchQueue'
    BY <1>1, <1>4, <1>7 DEF ClosesMatchQueue, Handles, HasReader
  <1> QED
    BY <1>1, <1>4, <1>5, <1>6, <1>8
(* What the invariant says of a state after the root was accepted.         *)
LEMMA QueueFacts ==
  ASSUME IInv, phase # "preflight"
  PROVE  /\ Handles(queue) \subseteq DOMAIN streams
         /\ Handles(queue) \cap closed = {}
         /\ \A h \in DOMAIN streams : HasReader(streams[h]) /\ h \notin closed => h \in Handles(queue)
         /\ \A h \in closed : HasReader(streams[h])
  BY DEF IInv, TypeOK, QueueSound, ClosesMatchQueue, Handles, validateDiscoverySource

(* Taking the head of a queue that holds no handle twice leaves exactly    *)
(* the other handles.                                                      *)
LEMMA TailFacts ==
  ASSUME NEW s \in Seq(Nat), s # <<>>,
         \A i, j \in DOMAIN s : s[i] = s[j] => i = j
  PROVE  /\ Head(s) = s[1] /\ 1 \in DOMAIN s
         /\ Tail(s) \in Seq(Nat)
         /\ \A i \in DOMAIN Tail(s) : i + 1 \in DOMAIN s /\ Tail(s)[i] = s[i + 1]
         /\ Handles(Tail(s)) = Handles(s) \ {Head(s)}
  <1> DEFINE t == Tail(s)
  <1>1. Len(s) \in Nat \ {0} /\ DOMAIN s = 1 .. Len(s)
    OBVIOUS
  <1>2. t \in Seq(Nat) /\ Len(t) = Len(s) - 1 /\ \A i \in 1 .. Len(t) : t[i] = s[i + 1]
    OBVIOUS
  <1>3. DOMAIN t = 1 .. (Len(s) - 1)
    BY <1>1, <1>2
  <1>4. Head(s) = s[1]
    OBVIOUS
  <1>5. \A i \in DOMAIN s : i # 1 => i - 1 \in DOMAIN t /\ t[i - 1] = s[i]
    BY <1>1, <1>2, <1>3
  <1>6. \A i \in DOMAIN t : i + 1 \in DOMAIN s /\ t[i] = s[i + 1] /\ i + 1 # 1
    BY <1>1, <1>2, <1>3
  <1>7. ASSUME NEW x \in Handles(t) PROVE x \in Handles(s) \ {Head(s)}
    <2>1. PICK i \in DOMAIN t : x = t[i]
      BY <1>7 DEF Handles
    <2>2. i + 1 \in DOMAIN s /\ x = s[i + 1] /\ i + 1 # 1 /\ 1 \in DOMAIN s
      BY <1>1, <1>6, <2>1
    <2>3. x # Head(s)
      BY <1>4, <2>2
    <2> QED
      BY <2>2, <2>3 DEF Handles
  <1>8. ASSUME NEW x \in Handles(s) \ {Head(s)} PROVE x \in Handles(t)
    <2>1. PICK i \in DOMAIN s : x = s[i]
      BY <1>8 DEF Handles
    <2>2. i # 1
      BY <1>4, <1>8, <2>1
    <2> QED
      BY <1>5, <2>1, <2>2 DEF Handles
  <1> HIDE DEF t
  <1>9. Handles(t) = Handles(s) \ {Head(s)}
    BY <1>7, <1>8
  <1> QED
    BY <1>1, <1>2, <1>4, <1>6, <1>9 DEF t

LEMMA InitInductive == Init => IInv
  <1> SUFFICES ASSUME Init PROVE IInv
    OBVIOUS
  <1>1. PICK root \in Sources : streams = <<root>>
    BY DEF Init
  <1>2. TypeOK
    <2>1. policyValid \in BOOLEAN /\ hasResolver \in BOOLEAN
      BY Zenon DEF Init
    <2>2. phase \in Phases /\ streams \in Seq(Sources) /\ queue \in Seq(Nat)
      BY <1>1 DEF Init, Phases
    <2>3. documents \in Seq(Documents) /\ edges \in Seq(SourceIDs \X SourceIDs) /\ nextRef \in 0 .. MaxRefs
      BY DiscoveryAssumption DEF Init
    <2>4. /\ drained \subseteq DOMAIN streams /\ closed \subseteq DOMAIN streams
          /\ reclosed \subseteq DOMAIN streams /\ seen \subseteq SourceIDs
          /\ closeErrors \subseteq DOMAIN streams /\ reported \subseteq DOMAIN streams
      BY DEF Init
    <2> QED
      BY <2>1, <2>2, <2>3, <2>4 DEF TypeOK
  <1>3. QueueSound /\ QueueDistinct /\ PhaseSound /\ ClosesMatchQueue
    BY <1>1 DEF Init, QueueSound, QueueDistinct, PhaseSound, Returned, ClosesMatchQueue
  <1> QED
    BY <1>2, <1>3 DEF IInv

(* An error return that also closes the source this step received.         *)
LEMMA FailReceived ==
  ASSUME IInv, phase = "refs", NEW source \in Sources,
         Fail(Append(streams, source), {Len(streams) + 1} \cup Handles(queue))
  PROVE  /\ streams' \in Seq(Sources) /\ DOMAIN streams \subseteq DOMAIN streams'
         /\ closed' \subseteq DOMAIN streams' /\ reclosed' \subseteq DOMAIN streams'
         /\ closeErrors' \subseteq DOMAIN streams' /\ reported' \subseteq DOMAIN streams'
         /\ queue' \in Seq(Nat) /\ phase' = "failed"
         /\ QueueSound' /\ QueueDistinct' /\ PhaseSound' /\ ClosesMatchQueue'
  <1> DEFINE held == Append(streams, source)
             handles == {Len(streams) + 1} \cup Handles(queue)
  <1>1. streams \in Seq(Sources) /\ closed \subseteq DOMAIN streams
    BY DEF IInv, TypeOK
  <1>2. /\ held \in Seq(Sources) /\ held # <<>>
        /\ held[Len(streams) + 1] = source
        /\ \A h \in DOMAIN streams : held[h] = streams[h]
        /\ DOMAIN held = DOMAIN streams \cup {Len(streams) + 1}
        /\ Len(streams) + 1 \notin DOMAIN streams
    BY <1>1, ReceivedFacts
  <1>3. /\ Handles(queue) \subseteq DOMAIN streams
        /\ Handles(queue) \cap closed = {}
        /\ \A h \in DOMAIN streams : HasReader(streams[h]) /\ h \notin closed => h \in Handles(queue)
        /\ \A h \in closed : HasReader(streams[h])
    BY QueueFacts
  <1>4. Fail(held, handles)
    OBVIOUS
  <1> HIDE DEF held
  <1>5. handles \in SUBSET DOMAIN held /\ handles \cap closed = {}
    BY <1>1, <1>2, <1>3
  <1>6. \A h \in DOMAIN held : HasReader(held[h]) /\ h \notin closed => h \in handles
    BY <1>1, <1>2, <1>3
  <1>7. \A h \in closed : HasReader(held[h])
    BY <1>1, <1>2, <1>3
  <1>8. streams' = held
    BY <1>4 DEF Fail
  <1>9. DOMAIN streams \subseteq DOMAIN held
    BY <1>2
  <1> HIDE DEF handles
  <1> QED
    BY <1>2, <1>4, <1>5, <1>6, <1>7, <1>8, <1>9, FailFacts

LEMMA StepInductive == IInv /\ [Next]_vars => IInv'
  <1> SUFFICES ASSUME IInv, [Next]_vars PROVE IInv'
    OBVIOUS
  <1> USE DiscoveryAssumption
  <1>t. TypeOK /\ QueueSound /\ QueueDistinct /\ PhaseSound /\ ClosesMatchQueue
    BY DEF IInv
  <1>1. CASE RejectRoot
    <2>1. /\ phase = "preflight" /\ Fail(streams, {1})
          /\ UNCHANGED <<policyValid, hasResolver, drained, seen, documents, nextRef, edges>>
      BY <1>1 DEF RejectRoot
    <2>2. closed = {} /\ streams # <<>> /\ Len(streams) = 1 /\ streams \in Seq(Sources)
      BY <1>t, <2>1 DEF PhaseSound, TypeOK
    <2>3. DOMAIN streams = {1}
      BY <2>2
    <2>4. /\ streams' \in Seq(Sources)
          /\ closed' \subseteq DOMAIN streams' /\ reclosed' \subseteq DOMAIN streams'
          /\ closeErrors' \subseteq DOMAIN streams' /\ reported' \subseteq DOMAIN streams'
          /\ queue' \in Seq(Nat) /\ phase' = "failed"
          /\ QueueSound' /\ QueueDistinct' /\ PhaseSound' /\ ClosesMatchQueue'
      BY <2>1, <2>2, <2>3, FailFacts
    <2>5. drained \subseteq DOMAIN streams' /\ streams' = streams
      BY <1>t, <2>1 DEF Fail, TypeOK
    <2>6. TypeOK'
      BY <1>t, <2>1, <2>4, <2>5 DEF TypeOK, Phases
    <2> QED
      BY <2>4, <2>6 DEF IInv
  <1>2. CASE AcceptRoot
    <2>1. /\ phase = "preflight" /\ phase' = "decode" /\ queue' = <<1>>
          /\ seen' = {streams[1].id} /\ validateDiscoverySource(streams[1])
          /\ UNCHANGED <<policyValid, hasResolver, streams, drained, closed, reclosed,
                         documents, nextRef, edges, closeErrors, reported>>
      BY <1>2 DEF AcceptRoot
    <2>2. /\ streams \in Seq(Sources) /\ Len(streams) = 1 /\ closed = {} /\ reclosed = {}
      BY <1>t, <2>1 DEF PhaseSound, TypeOK, ClosesMatchQueue
    <2>3. DOMAIN streams = {1} /\ streams[1] \in Sources
      BY <2>2
    <2>4. streams[1].id \in SourceIDs
      BY <2>1, <2>3 DEF Sources, validateDiscoverySource
    <2>5. TypeOK'
      BY <1>t, <2>1, <2>4 DEF TypeOK, Phases
    <2>6. QueueSound' /\ QueueDistinct' /\ PhaseSound'
      BY <1>t, <2>1, <2>3 DEF QueueSound, QueueDistinct, PhaseSound, Returned, validateDiscoverySource, HasReader
    <2>7. ClosesMatchQueue'
      BY <2>1, <2>2, <2>3 DEF ClosesMatchQueue, Handles
    <2> QED
      BY <2>5, <2>6, <2>7 DEF IInv
  <1>3. CASE DecodeDocument
    <2> DEFINE h == Head(queue)
    <2>1. /\ phase = "decode" /\ phase' = "refs" /\ queue # <<>> /\ queue' = Tail(queue)
          /\ Close(streams, {h}) /\ drained' = drained \cup {h} /\ nextRef' = 0
          /\ \E n \in 0 .. MaxRefs :
               documents' = Append(documents, [source |-> streams[h].id, refs |-> n])
          /\ UNCHANGED <<policyValid, hasResolver, streams, seen, edges, closeErrors, reported>>
      BY <1>3 DEF DecodeDocument
    <2>a. queue \in Seq(Nat)
      BY <1>t DEF TypeOK
    <2>b. \A i, j \in DOMAIN queue : queue[i] = queue[j] => i = j
      BY <1>t DEF QueueDistinct
    <2>2. /\ queue \in Seq(Nat) /\ h = queue[1] /\ 1 \in DOMAIN queue
          /\ queue' \in Seq(Nat)
          /\ \A i \in DOMAIN queue' : i + 1 \in DOMAIN queue /\ queue'[i] = queue[i + 1]
          /\ Handles(queue') = Handles(queue) \ {h}
      BY <2>1, <2>a, <2>b, TailFacts
    <2>c. queue[1] \in DOMAIN streams /\ validateDiscoverySource(streams[queue[1]])
      BY <1>t, <2>2 DEF QueueSound
    <2>d. h \in DOMAIN streams /\ validateDiscoverySource(streams[h])
      BY <2>2, <2>c
    <2>e. streams[h] \in Sources
      BY <1>t, <2>d DEF TypeOK
    <2>3. /\ h \in DOMAIN streams /\ validateDiscoverySource(streams[h])
          /\ streams[h].id \in SourceIDs /\ HasReader(streams[h])
      BY <2>d, <2>e DEF validateDiscoverySource, Sources
    <2>4. Handles(queue') = Handles(queue) \ {h}
      BY <2>2
    <2>5. h \notin closed /\ closed' = closed \cup {h} /\ reclosed' = {}
      BY <1>t, <2>1, <2>2, <2>3 DEF Close, Readers, ClosesMatchQueue, Handles
    <2>6. documents' \in Seq(Documents) /\ documents' # <<>>
      <3>1. PICK n \in 0 .. MaxRefs :
              documents' = Append(documents, [source |-> streams[h].id, refs |-> n])
        BY <2>1
      <3>2. [source |-> streams[h].id, refs |-> n] \in Documents
        BY <2>3 DEF Documents
      <3>3. documents \in Seq(Documents)
        BY <1>t DEF TypeOK
      <3> QED
        BY <3>1, <3>2, <3>3
    <2>7. TypeOK'
      BY <1>t, <2>1, <2>2, <2>3, <2>5, <2>6 DEF TypeOK, Phases
    <2>8. QueueSound' /\ QueueDistinct'
      <3>1. streams' = streams
        BY <2>1
      <3>2. QueueSound'
        <4>1. \A i \in DOMAIN queue : queue[i] \in DOMAIN streams /\ validateDiscoverySource(streams[queue[i]])
          BY <1>t DEF QueueSound
        <4>2. \A i \in DOMAIN queue' :
                queue'[i] \in DOMAIN streams /\ validateDiscoverySource(streams[queue'[i]])
          BY <2>2, <4>1
        <4> QED
          BY <3>1, <4>2 DEF QueueSound, validateDiscoverySource
      <3>3. ASSUME NEW i \in DOMAIN queue', NEW j \in DOMAIN queue', queue'[i] = queue'[j]
            PROVE  i = j
        <4>1. i + 1 = j + 1
          BY <2>b, <2>2, <3>3
        <4>2. i \in Nat /\ j \in Nat
          BY <2>2
        <4> QED
          BY <4>1, <4>2
      <3> QED
        BY <3>2, <3>3 DEF QueueDistinct
    <2>9. PhaseSound'
      BY <1>t, <2>1, <2>6 DEF PhaseSound, Returned
    <2>10. ClosesMatchQueue'
      BY <1>t, <2>1, <2>3, <2>4, <2>5 DEF ClosesMatchQueue
    <2> QED
      BY <2>7, <2>8, <2>9, <2>10 DEF IInv
  <1>4. CASE DecodeFailure
    <2>1. /\ phase = "decode" /\ queue # <<>> /\ Fail(streams, Handles(queue))
          /\ drained' \in {drained, drained \cup {Head(queue)}}
          /\ UNCHANGED <<policyValid, hasResolver, seen, documents, nextRef, edges>>
      BY <1>4 DEF DecodeFailure
    <2>2. streams \in Seq(Sources) /\ streams # <<>> /\ Head(queue) \in Handles(queue)
      BY <1>t, <2>1 DEF TypeOK, PhaseSound, Handles
    <2>3. Handles(queue) \subseteq DOMAIN streams
      BY <2>1, QueueFacts
    <2>4. /\ streams' \in Seq(Sources)
          /\ closed' \subseteq DOMAIN streams' /\ reclosed' \subseteq DOMAIN streams'
          /\ closeErrors' \subseteq DOMAIN streams' /\ reported' \subseteq DOMAIN streams'
          /\ queue' \in Seq(Nat) /\ phase' = "failed"
          /\ QueueSound' /\ QueueDistinct' /\ PhaseSound' /\ ClosesMatchQueue'
      BY <2>1, <2>2, QueueFacts, FailFacts
    <2>5. streams' = streams
      BY <2>1 DEF Fail
    <2>6. drained' \subseteq DOMAIN streams'
      BY <1>t, <2>1, <2>2, <2>3, <2>5 DEF TypeOK
    <2>7. TypeOK'
      BY <1>t, <2>1, <2>4, <2>6 DEF TypeOK, Phases
    <2> QED
      BY <2>4, <2>7 DEF IInv
  <1>5. CASE NoResolver
    <2>1. /\ phase = "refs" /\ Fail(streams, Handles(queue))
          /\ UNCHANGED <<policyValid, hasResolver, drained, seen, documents, nextRef, edges>>
      BY <1>5 DEF NoResolver, MoreRefs
    <2>2. streams \in Seq(Sources) /\ streams # <<>>
      BY <1>t DEF TypeOK, PhaseSound
    <2>3. /\ streams' \in Seq(Sources)
          /\ closed' \subseteq DOMAIN streams' /\ reclosed' \subseteq DOMAIN streams'
          /\ closeErrors' \subseteq DOMAIN streams' /\ reported' \subseteq DOMAIN streams'
          /\ queue' \in Seq(Nat) /\ phase' = "failed"
          /\ QueueSound' /\ QueueDistinct' /\ PhaseSound' /\ ClosesMatchQueue'
      BY <2>1, <2>2, QueueFacts, FailFacts
    <2>4. streams' = streams
      BY <2>1 DEF Fail
    <2>5. TypeOK'
      BY <1>t, <2>1, <2>3, <2>4 DEF TypeOK, Phases
    <2> QED
      BY <2>3, <2>5 DEF IInv
  <1>6. CASE ResolveFailure
    <2>1. PICK source \in Sources :
            Fail(Append(streams, source), {Len(streams) + 1} \cup Handles(queue))
      BY <1>6 DEF ResolveFailure
    <2>2. /\ phase = "refs"
          /\ UNCHANGED <<policyValid, hasResolver, drained, seen, documents, nextRef, edges>>
      BY <1>6 DEF ResolveFailure, MoreRefs
    <2>3. /\ streams' \in Seq(Sources) /\ DOMAIN streams \subseteq DOMAIN streams'
          /\ closed' \subseteq DOMAIN streams' /\ reclosed' \subseteq DOMAIN streams'
          /\ closeErrors' \subseteq DOMAIN streams' /\ reported' \subseteq DOMAIN streams'
          /\ queue' \in Seq(Nat) /\ phase' = "failed"
          /\ QueueSound' /\ QueueDistinct' /\ PhaseSound' /\ ClosesMatchQueue'
      BY <2>1, <2>2, FailReceived
    <2>4. TypeOK'
      BY <1>t, <2>2, <2>3 DEF TypeOK, Phases
    <2> QED
      BY <2>3, <2>4 DEF IInv
  <1>p. ASSUME MoreRefs
        PROVE  /\ phase = "refs" /\ Parent \in SourceIDs
               /\ nextRef + 1 \in 0 .. MaxRefs
    <2>1. documents \in Seq(Documents) /\ documents # <<>> /\ phase = "refs"
      BY <1>t, <1>p DEF TypeOK, PhaseSound, MoreRefs
    <2>2. documents[Len(documents)] \in Documents
      BY <2>1
    <2> QED
      BY <1>t, <1>p, <2>1, <2>2 DEF MoreRefs, Parent, Documents, TypeOK
  <1>7. CASE EnqueueNew
    <2>1. PICK source \in Sources :
            /\ validateDiscoverySource(source)
            /\ streams' = Append(streams, source)
            /\ edges' = Append(edges, <<Parent, source.id>>)
            /\ seen' = seen \cup {source.id}
      BY <1>7 DEF EnqueueNew
    <2>2. /\ MoreRefs /\ queue' = Append(queue, Len(streams) + 1) /\ nextRef' = nextRef + 1
          /\ UNCHANGED <<phase, policyValid, hasResolver, drained, closed, reclosed,
                         documents, closeErrors, reported>>
      BY <1>7 DEF EnqueueNew
    <2>3. /\ streams' \in Seq(Sources) /\ streams' # <<>>
          /\ Len(streams) + 1 \in Nat
          /\ streams'[Len(streams) + 1] = source
          /\ \A h \in DOMAIN streams : streams'[h] = streams[h]
          /\ DOMAIN streams' = DOMAIN streams \cup {Len(streams) + 1}
          /\ Len(streams) + 1 \notin DOMAIN streams
      BY <1>t, <2>1, ReceivedFacts DEF TypeOK
    <2>4. source.id \in SourceIDs /\ HasReader(source)
      BY <2>1 DEF validateDiscoverySource, Sources
    <2>5. edges' \in Seq(SourceIDs \X SourceIDs)
      BY <1>t, <1>p, <2>1, <2>2, <2>4 DEF TypeOK
    <2>6. /\ queue' \in Seq(Nat)
          /\ DOMAIN queue' = DOMAIN queue \cup {Len(queue) + 1} /\ Len(queue) + 1 \notin DOMAIN queue
          /\ queue'[Len(queue) + 1] = Len(streams) + 1
          /\ \A i \in DOMAIN queue : queue'[i] = queue[i]
      BY <1>t, <2>2, <2>3 DEF TypeOK
    <2>7. TypeOK'
      BY <1>t, <1>p, <2>1, <2>2, <2>3, <2>4, <2>5, <2>6 DEF TypeOK
    <2>8. QueueSound'
      BY <1>t, <2>1, <2>3, <2>6 DEF QueueSound, validateDiscoverySource, HasReader
    <2>9. QueueDistinct'
      BY <1>t, <2>3, <2>6 DEF QueueSound, QueueDistinct
    <2>10. PhaseSound'
      BY <1>t, <1>p, <2>2, <2>3 DEF PhaseSound, Returned
    <2>11. Handles(queue') = Handles(queue) \cup {Len(streams) + 1}
      BY <2>6 DEF Handles
    <2>12. ClosesMatchQueue'
      BY <1>t, <1>p, <2>2, <2>3, <2>4, <2>11 DEF ClosesMatchQueue, TypeOK
    <2> QED
      BY <2>7, <2>8, <2>9, <2>10, <2>12 DEF IInv
  <1>8. CASE CloseRepeated
    <2>1. PICK source \in Sources :
            /\ validateDiscoverySource(source)
            /\ streams' = Append(streams, source)
            /\ edges' = Append(edges, <<Parent, source.id>>)
            /\ Close(streams', {Len(streams) + 1})
      BY <1>8 DEF CloseRepeated
    <2>2. /\ MoreRefs /\ nextRef' = nextRef + 1
          /\ UNCHANGED <<phase, policyValid, hasResolver, drained, queue, seen,
                         documents, closeErrors, reported>>
      BY <1>8 DEF CloseRepeated
    <2>3. /\ streams' \in Seq(Sources) /\ streams' # <<>>
          /\ streams'[Len(streams) + 1] = source
          /\ \A h \in DOMAIN streams : streams'[h] = streams[h]
          /\ DOMAIN streams' = DOMAIN streams \cup {Len(streams) + 1}
          /\ Len(streams) + 1 \notin DOMAIN streams
      BY <1>t, <2>1, ReceivedFacts DEF TypeOK
    <2>4. source.id \in SourceIDs /\ HasReader(source)
      BY <2>1 DEF validateDiscoverySource, Sources
    <2>5. edges' \in Seq(SourceIDs \X SourceIDs)
      BY <1>t, <1>p, <2>1, <2>2, <2>4 DEF TypeOK
    <2>6. closed' = closed \cup {Len(streams) + 1} /\ reclosed' = {}
      BY <1>t, <2>1, <2>3, <2>4 DEF Close, Readers, ClosesMatchQueue, TypeOK
    <2>7. TypeOK'
      BY <1>t, <1>p, <2>2, <2>3, <2>5, <2>6 DEF TypeOK
    <2>8. QueueSound' /\ QueueDistinct'
      BY <1>t, <2>2, <2>3 DEF QueueSound, QueueDistinct, validateDiscoverySource, HasReader
    <2>9. PhaseSound'
      BY <1>t, <1>p, <2>2, <2>3 DEF PhaseSound, Returned
    <2>10. ClosesMatchQueue'
      BY <1>t, <1>p, <2>2, <2>3, <2>4, <2>6, QueueFacts DEF ClosesMatchQueue
    <2> QED
      BY <2>7, <2>8, <2>9, <2>10 DEF IInv
  <1>9. CASE CloseRepeatedFailure
    <2>1. PICK source \in Sources :
            /\ validateDiscoverySource(source)
            /\ edges' = Append(edges, <<Parent, source.id>>)
            /\ Fail(Append(streams, source), {Len(streams) + 1} \cup Handles(queue))
      BY <1>9 DEF CloseRepeatedFailure
    <2>2. /\ MoreRefs
          /\ UNCHANGED <<policyValid, hasResolver, drained, seen, documents, nextRef>>
      BY <1>9 DEF CloseRepeatedFailure
    <2>3. source.id \in SourceIDs
      BY <2>1 DEF validateDiscoverySource, Sources
    <2>4. edges' \in Seq(SourceIDs \X SourceIDs)
      BY <1>t, <1>p, <2>1, <2>2, <2>3 DEF TypeOK
    <2>5. /\ streams' \in Seq(Sources) /\ DOMAIN streams \subseteq DOMAIN streams'
          /\ closed' \subseteq DOMAIN streams' /\ reclosed' \subseteq DOMAIN streams'
          /\ closeErrors' \subseteq DOMAIN streams' /\ reported' \subseteq DOMAIN streams'
          /\ queue' \in Seq(Nat) /\ phase' = "failed"
          /\ QueueSound' /\ QueueDistinct' /\ PhaseSound' /\ ClosesMatchQueue'
      BY <1>p, <2>1, <2>2, FailReceived
    <2>6. TypeOK'
      BY <1>t, <2>2, <2>4, <2>5 DEF TypeOK, Phases
    <2> QED
      BY <2>5, <2>6 DEF IInv
  <1>10. CASE NextDocument
    <2>1. /\ phase = "refs" /\ phase' = "decode"
          /\ UNCHANGED <<policyValid, hasResolver, streams, drained, closed, reclosed,
                         queue, seen, documents, nextRef, edges, closeErrors, reported>>
      BY <1>10 DEF NextDocument
    <2> QED
      BY <1>t, <2>1 DEF IInv, TypeOK, Phases, QueueSound, QueueDistinct, PhaseSound,
           Returned, ClosesMatchQueue, validateDiscoverySource, HasReader, Handles
  <1>11. CASE Complete
    <2>1. /\ phase = "decode" /\ phase' = "done" /\ queue = <<>>
          /\ UNCHANGED <<policyValid, hasResolver, streams, drained, closed, reclosed,
                         queue, seen, documents, nextRef, edges, closeErrors, reported>>
      BY <1>11 DEF Complete
    <2> QED
      BY <1>t, <2>1 DEF IInv, TypeOK, Phases, QueueSound, QueueDistinct, PhaseSound,
           Returned, ClosesMatchQueue, validateDiscoverySource, HasReader, Handles
  <1>12. CASE UNCHANGED vars
    BY <1>t, <1>12 DEF vars, IInv, TypeOK, QueueSound, QueueDistinct, PhaseSound,
         Returned, ClosesMatchQueue, validateDiscoverySource, HasReader, Handles
  <1> QED
    BY <1>1, <1>2, <1>3, <1>4, <1>5, <1>6, <1>7, <1>8, <1>9, <1>10, <1>11, <1>12 DEF Next

-----------------------------------------------------------------------------
THEOREM Inductive == Spec => []IInv
  <1> QED
    BY InitInductive, StepInductive, PTL DEF Spec

(* The state of every discovery is well typed: in particular only valid    *)
(* identities are interned and linked by edges.                            *)
THEOREM TypeCorrect == Spec => []TypeOK
  <1>1. IInv => TypeOK
    BY DEF IInv
  <1> QED
    BY <1>1, Inductive, PTL

(* For every graph of documents, every resolver and every failure: what    *)
(* ParseSchema was handed is closed exactly once when it returns.          *)
THEOREM ClosedExactlyOnce == Spec => []EveryStreamClosedOnce
  <1>1. IInv => EveryStreamClosedOnce
    BY DEF IInv, PhaseSound, Returned, ClosesMatchQueue, EveryStreamClosedOnce, Handles
  <1> QED
    BY <1>1, Inductive, PTL

(* Every error a Close returns reaches the caller, and no call that met    *)
(* one reports success.                                                    *)
THEOREM CloseErrorsReported == Spec => []NoCloseErrorSwallowed
  <1>1. Init => NoCloseErrorSwallowed
    BY DEF Init, NoCloseErrorSwallowed
  <1>2. NoCloseErrorSwallowed /\ [Next]_vars => NoCloseErrorSwallowed'
    <2> SUFFICES ASSUME NoCloseErrorSwallowed, [Next]_vars PROVE NoCloseErrorSwallowed'
      OBVIOUS
    <2>1. ASSUME NEW held, NEW handles, Fail(held, handles)
          PROVE  NoCloseErrorSwallowed'
      BY <2>1 DEF Fail, NoCloseErrorSwallowed
    <2>2. CASE RejectRoot \/ DecodeFailure \/ NoResolver
      BY <2>1, <2>2 DEF RejectRoot, DecodeFailure, NoResolver
    <2>3. CASE ResolveFailure \/ CloseRepeatedFailure
      BY <2>1, <2>3 DEF ResolveFailure, CloseRepeatedFailure
    <2>4. CASE AcceptRoot \/ NextDocument \/ Complete
      BY <2>4 DEF AcceptRoot, NextDocument, Complete, NoCloseErrorSwallowed
    <2>5. CASE DecodeDocument
      BY <2>5 DEF DecodeDocument, NoCloseErrorSwallowed
    <2>6. CASE EnqueueNew \/ CloseRepeated
      BY <2>6 DEF EnqueueNew, CloseRepeated, MoreRefs, NoCloseErrorSwallowed
    <2>7. CASE UNCHANGED vars
      BY <2>7 DEF vars, NoCloseErrorSwallowed
    <2> QED
      BY <2>2, <2>3, <2>4, <2>5, <2>6, <2>7 DEF Next
  <1> QED
    BY <1>1, <1>2, PTL DEF Spec

-----------------------------------------------------------------------------
(* A step is taken before the call returns, forgets no stream, changes no  *)
(* source and takes back no Close.                                         *)
LEMMA StepMonotone ==
  ASSUME IInv, Next
  PROVE  /\ ~ Returned
         /\ closed \subseteq closed'
         /\ DOMAIN streams \subseteq DOMAIN streams'
         /\ \A h \in DOMAIN streams : streams'[h] = streams[h]
  <1>1. streams \in Seq(Sources)
    BY DEF IInv, TypeOK
  <1>2. ASSUME NEW held, NEW handles, Fail(held, handles)
        PROVE  streams' = held /\ closed \subseteq closed'
    BY <1>2 DEF Fail, Close
  <1>3. ASSUME NEW source \in Sources
        PROVE  /\ DOMAIN streams \subseteq DOMAIN Append(streams, source)
               /\ \A h \in DOMAIN streams : Append(streams, source)[h] = streams[h]
    BY <1>1, <1>3, ReceivedFacts
  <1>4. CASE RejectRoot
    BY <1>2, <1>4 DEF RejectRoot, Returned
  <1>5. CASE AcceptRoot \/ NextDocument \/ Complete
    BY <1>5 DEF AcceptRoot, NextDocument, Complete, Returned
  <1>6. CASE DecodeDocument
    BY <1>6 DEF DecodeDocument, Close, Returned
  <1>7. CASE DecodeFailure
    BY <1>2, <1>7 DEF DecodeFailure, Returned
  <1>8. CASE NoResolver
    BY <1>2, <1>8 DEF NoResolver, MoreRefs, Returned
  <1>9. CASE ResolveFailure
    <2>1. PICK source \in Sources :
            Fail(Append(streams, source), {Len(streams) + 1} \cup Handles(queue))
      BY <1>9 DEF ResolveFailure
    <2>2. streams' = Append(streams, source) /\ closed \subseteq closed'
      BY <1>2, <2>1
    <2> QED
      BY <1>3, <1>9, <2>2 DEF ResolveFailure, MoreRefs, Returned
  <1>10. CASE EnqueueNew
    BY <1>3, <1>10 DEF EnqueueNew, MoreRefs, Returned
  <1>11. CASE CloseRepeated
    BY <1>3, <1>11 DEF CloseRepeated, Close, MoreRefs, Returned
  <1>12. CASE CloseRepeatedFailure
    <2>1. PICK source \in Sources :
            Fail(Append(streams, source), {Len(streams) + 1} \cup Handles(queue))
      BY <1>12 DEF CloseRepeatedFailure
    <2>2. streams' = Append(streams, source) /\ closed \subseteq closed'
      BY <1>2, <2>1
    <2> QED
      BY <1>3, <1>12, <2>2 DEF CloseRepeatedFailure, MoreRefs, Returned
  <1> QED
    BY <1>4, <1>5, <1>6, <1>7, <1>8, <1>9, <1>10, <1>11, <1>12 DEF Next

LEMMA InitRefines == Init => Ledger!LedgerInit
  <1> SUFFICES ASSUME Init PROVE Ledger!LedgerInit
    OBVIOUS
  <1>1. PICK root \in Sources : streams = <<root>>
    BY DEF Init
  <1>2. DOMAIN streams = {1}
    BY <1>1
  <1>3. closed = {} /\ ~ Returned
    BY DEF Init, Returned
  <1> QED
    BY <1>2, <1>3 DEF Ledger!LedgerInit, Readers

LEMMA StepRefines ==
  IInv /\ IInv' /\ [Next]_vars => [Ledger!LedgerWork]_(Ledger!ledgerVars)
  <1> SUFFICES ASSUME IInv, IInv', [Next]_vars
               PROVE  [Ledger!LedgerWork]_(Ledger!ledgerVars)
    OBVIOUS
  <1> DEFINE Open == Readers(streams, DOMAIN streams) \ closed
  <1>1. CASE Next
    <2>1. reclosed = {} /\ reclosed' = {}
      BY DEF IInv, ClosesMatchQueue
    <2>2. /\ ~ Returned /\ closed \subseteq closed'
          /\ DOMAIN streams \subseteq DOMAIN streams'
          /\ \A h \in DOMAIN streams : streams'[h] = streams[h]
      BY <1>1, StepMonotone
    <2>3. Open \subseteq Open' \cup closed'
      BY <2>2 DEF Readers
    <2>4. Returned' => Open' = {}
      BY DEF IInv, PhaseSound, Returned, ClosesMatchQueue, Handles, Readers
    <2>5. Returned' \in BOOLEAN
      <3>1. CASE phase' \in {"done", "failed"}
        BY <3>1 DEF Returned
      <3>2. CASE phase' \notin {"done", "failed"}
        BY <3>2 DEF Returned
      <3> QED
        BY <3>1, <3>2
    <2> QED
      BY <2>1, <2>2, <2>3, <2>4, <2>5 DEF Ledger!LedgerWork
  <1>2. CASE UNCHANGED vars
    BY <1>2 DEF vars, Ledger!ledgerVars, Returned, Readers, HasReader
  <1> QED
    BY <1>1, <1>2

(* Discovery implements the caller's contract: whatever the documents, the *)
(* resolver and the readers do, its steps only receive and close streams,  *)
(* never reopen or forget one, and leave none open at the end.             *)
THEOREM KeepsContract == Spec => LedgerSpec
  <1>1. Ledger!LedgerInit /\ [][Ledger!LedgerWork]_(Ledger!ledgerVars) => LedgerSpec
    BY DEF LedgerSpec, Ledger!LedgerSpec
  <1> QED
    BY <1>1, InitRefines, StepRefines, Inductive, PTL DEF Spec

-----------------------------------------------------------------------------
(* What Discovery returns: documents come in the order the references      *)
(* first name them, and a success is closed under the references, each of  *)
(* which left its edge in document order.                                  *)

Active == phase \in {"decode", "refs", "done"}

(* The k-th entry is the first of its value.                               *)
IsFirst(s, k) == k \in DOMAIN s /\ \A j \in 1 .. (k - 1) : s[j] # s[k]
Names(s, k, x) == IsFirst(s, k) /\ s[k] = x

(* A sequence lists the values of another, each once, in the order of      *)
(* their first entries.                                                    *)
Lists(found, named) ==
  /\ Handles(found) = Handles(named)
  /\ \A i \in DOMAIN found : \E k \in DOMAIN named : Names(named, k, found[i])
  /\ \A i, j \in DOMAIN found : \A k, l \in DOMAIN named :
       i < j /\ Names(named, k, found[i]) /\ Names(named, l, found[j]) => k < l

(* The references of a document left one run of edges.                     *)
Expanded(d, refs) ==
  \E first \in 1 .. (Len(edges) + 1) : EdgesOf(documents[d]) = first .. (first + refs - 1)

(* Edges leave decoded documents only, all of each but of the one being    *)
(* expanded, whose edges are the last ones.                                *)
EdgesSound ==
  /\ \A i \in DOMAIN edges : \E d \in DOMAIN documents : edges[i][1] = documents[d].source
  /\ \A d \in DOMAIN documents :
       phase # "refs" \/ d # Len(documents) => Expanded(d, documents[d].refs)
  /\ phase = "refs" =>
       /\ Len(edges) - nextRef + 1 \in 1 .. (Len(edges) + 1)
       /\ EdgesOf(documents[Len(documents)]) = (Len(edges) - nextRef + 1) .. Len(edges)

(* The order is inductive because an identity is interned exactly when it  *)
(* is first named; that no two documents share a source, which separates   *)
(* their edges, follows from it.                                           *)
OrderInv ==
  Active => seen = Handles(Named) /\ Lists(Found, Named) /\ EdgesSound

-----------------------------------------------------------------------------
(* Sequences                                                               *)

LEMMA AppendFacts ==
  ASSUME NEW S, NEW s \in Seq(S), NEW x \in S
  PROVE  /\ Append(s, x) \in Seq(S) /\ Len(Append(s, x)) = Len(s) + 1
         /\ DOMAIN s = 1 .. Len(s) /\ Len(s) \in Nat
         /\ DOMAIN Append(s, x) = 1 .. (Len(s) + 1)
         /\ Append(s, x)[Len(s) + 1] = x
         /\ \A i \in 1 .. Len(s) : Append(s, x)[i] = s[i]
         /\ Handles(Append(s, x)) = Handles(s) \cup {x}
  <1>1. /\ Append(s, x) \in Seq(S) /\ Len(Append(s, x)) = Len(s) + 1
        /\ DOMAIN s = 1 .. Len(s) /\ Len(s) \in Nat
        /\ DOMAIN Append(s, x) = 1 .. (Len(s) + 1)
        /\ Append(s, x)[Len(s) + 1] = x
        /\ \A i \in 1 .. Len(s) : Append(s, x)[i] = s[i]
    OBVIOUS
  <1>2. ASSUME NEW y \in Handles(Append(s, x)) PROVE y \in Handles(s) \cup {x}
    BY <1>1 DEF Handles
  <1>3. ASSUME NEW y \in Handles(s) \cup {x} PROVE y \in Handles(Append(s, x))
    <2>1. CASE y = x
      BY <1>1, <2>1 DEF Handles
    <2>2. CASE y \in Handles(s)
      BY <1>1, <2>2 DEF Handles
    <2> QED
      BY <1>3, <2>1, <2>2
  <1> QED
    BY <1>1, <1>2, <1>3

LEMMA JoinFacts ==
  ASSUME NEW S, NEW s \in Seq(S), NEW t \in Seq(S)
  PROVE  /\ s \o t \in Seq(S) /\ Len(s \o t) = Len(s) + Len(t)
         /\ \A i \in 1 .. Len(s) : (s \o t)[i] = s[i]
         /\ \A i \in 1 .. Len(t) : (s \o t)[Len(s) + i] = t[i]
  OBVIOUS

LEMMA SameFirst ==
  ASSUME NEW S, NEW s \in Seq(S), NEW k \in DOMAIN s, NEW l \in DOMAIN s, NEW x,
         Names(s, k, x), Names(s, l, x)
  PROVE  k = l
  <1>1. k \in Nat /\ l \in Nat /\ k >= 1 /\ l >= 1
    OBVIOUS
  <1>2. ~ (k < l) /\ ~ (l < k)
    BY <1>1 DEF Names, IsFirst
  <1> QED
    BY <1>1, <1>2

(* Appending leaves the first entries where they are, and adds one when    *)
(* the value is new.                                                       *)
LEMMA AppendFirst ==
  ASSUME NEW S, NEW s \in Seq(S), NEW x \in S, NEW y \in Handles(s), NEW k \in 1 .. (Len(s) + 1)
  PROVE  Names(Append(s, x), k, y) <=> k \in DOMAIN s /\ Names(s, k, y)
  <1> DEFINE t == Append(s, x)
  <1>1. /\ DOMAIN s = 1 .. Len(s) /\ Len(s) \in Nat /\ DOMAIN t = 1 .. (Len(s) + 1)
        /\ \A i \in 1 .. Len(s) : t[i] = s[i]
    BY AppendFacts
  <1> HIDE DEF t
  <1>2. ASSUME Names(t, k, y) PROVE k \in DOMAIN s /\ Names(s, k, y)
    <2>1. PICK i \in 1 .. Len(s) : s[i] = y
      BY <1>1 DEF Handles
    <2>2. k # Len(s) + 1
      BY <1>1, <1>2, <2>1 DEF Names, IsFirst
    <2> QED
      BY <1>1, <1>2, <2>2 DEF Names, IsFirst
  <1>3. ASSUME k \in DOMAIN s, Names(s, k, y) PROVE Names(t, k, y)
    BY <1>1, <1>3 DEF Names, IsFirst
  <1> QED
    BY <1>2, <1>3 DEF t

LEMMA ListsKnown ==
  ASSUME NEW S, NEW found \in Seq(S), NEW named \in Seq(S), NEW x \in Handles(named),
         Lists(found, named)
  PROVE  Lists(found, Append(named, x))
  <1> DEFINE longer == Append(named, x)
  <1>1. x \in S /\ DOMAIN found = 1 .. Len(found)
    BY DEF Handles
  <1>2. /\ DOMAIN named = 1 .. Len(named) /\ Len(named) \in Nat /\ DOMAIN longer = 1 .. (Len(named) + 1)
        /\ Handles(longer) = Handles(named) \cup {x}
    BY <1>1, AppendFacts
  <1>3. \A i \in DOMAIN found : found[i] \in Handles(named)
    BY DEF Lists, Handles
  <1>4. ASSUME NEW i \in DOMAIN found, NEW k \in DOMAIN longer
        PROVE  Names(longer, k, found[i]) <=> k \in DOMAIN named /\ Names(named, k, found[i])
    BY <1>1, <1>2, <1>3, AppendFirst
  <1> HIDE DEF longer
  <1>5. \A i \in DOMAIN found : \E k \in DOMAIN longer : Names(longer, k, found[i])
    BY <1>2, <1>4 DEF Lists
  <1>6. \A i, j \in DOMAIN found : \A k, l \in DOMAIN longer :
          i < j /\ Names(longer, k, found[i]) /\ Names(longer, l, found[j]) => k < l
    BY <1>4 DEF Lists
  <1>7. Handles(found) = Handles(longer)
    BY <1>2 DEF Lists
  <1> QED
    BY <1>5, <1>6, <1>7 DEF Lists, longer

LEMMA ListsNew ==
  ASSUME NEW S, NEW found \in Seq(S), NEW named \in Seq(S), NEW x \in S, x \notin Handles(named),
         Lists(found, named)
  PROVE  Lists(Append(found, x), Append(named, x))
  <1> DEFINE longer == Append(named, x)
             more == Append(found, x)
  <1>1. /\ DOMAIN named = 1 .. Len(named) /\ Len(named) \in Nat /\ DOMAIN longer = 1 .. (Len(named) + 1)
        /\ Handles(longer) = Handles(named) \cup {x} /\ longer[Len(named) + 1] = x
        /\ \A i \in 1 .. Len(named) : longer[i] = named[i]
    BY AppendFacts
  <1>2. /\ DOMAIN found = 1 .. Len(found) /\ Len(found) \in Nat /\ DOMAIN more = 1 .. (Len(found) + 1)
        /\ Handles(more) = Handles(found) \cup {x} /\ more[Len(found) + 1] = x
        /\ \A i \in 1 .. Len(found) : more[i] = found[i]
    BY AppendFacts
  <1>3. \A i \in DOMAIN found : more[i] = found[i] /\ found[i] \in Handles(named)
    BY <1>2 DEF Lists, Handles
  <1>4. ASSUME NEW i \in DOMAIN found, NEW k \in DOMAIN longer
        PROVE  Names(longer, k, more[i]) <=> k \in DOMAIN named /\ Names(named, k, found[i])
    BY <1>1, <1>3, AppendFirst
  <1> HIDE DEF longer, more
  <1>5. ASSUME NEW k \in DOMAIN longer PROVE Names(longer, k, x) <=> k = Len(named) + 1
    <2>1. \A i \in 1 .. Len(named) : longer[i] # x
      BY <1>1 DEF Handles
    <2> QED
      BY <1>1, <2>1 DEF Names, IsFirst
  <1>6. ASSUME NEW i \in DOMAIN more PROVE \E k \in DOMAIN longer : Names(longer, k, more[i])
    <2>1. CASE i \in DOMAIN found
      BY <1>1, <1>4, <2>1 DEF Lists
    <2>2. CASE i = Len(found) + 1
      BY <1>1, <1>2, <1>5, <2>2
    <2> QED
      BY <1>2, <2>1, <2>2
  <1>7. ASSUME NEW i \in DOMAIN more, NEW j \in DOMAIN more, NEW k \in DOMAIN longer, NEW l \in DOMAIN longer,
               i < j, Names(longer, k, more[i]), Names(longer, l, more[j])
        PROVE  k < l
    <2>1. i \in DOMAIN found /\ k \in DOMAIN named /\ Names(named, k, found[i])
      BY <1>2, <1>4, <1>7
    <2>2. CASE j \in DOMAIN found
      BY <1>4, <1>7, <2>1, <2>2 DEF Lists
    <2>3. CASE j = Len(found) + 1
      BY <1>1, <1>2, <1>5, <1>7, <2>1, <2>3
    <2> QED
      BY <1>2, <2>2, <2>3
  <1>8. Handles(more) = Handles(longer)
    BY <1>1, <1>2 DEF Lists
  <1> QED
    BY <1>6, <1>7, <1>8 DEF Lists, longer, more

(* What is listed is listed once.                                          *)
LEMMA ListsOnce ==
  ASSUME NEW S, NEW found \in Seq(S), NEW named \in Seq(S), Lists(found, named),
         NEW i \in DOMAIN found, NEW j \in DOMAIN found, found[i] = found[j]
  PROVE  i = j
  <1>1. i \in Nat /\ j \in Nat
    OBVIOUS
  <1>2. PICK k \in DOMAIN named : Names(named, k, found[i])
    BY DEF Lists
  <1>3. k \in Nat
    OBVIOUS
  <1>4. ~ (i < j) /\ ~ (j < i)
    BY <1>2, <1>3 DEF Lists
  <1> QED
    BY <1>1, <1>4

-----------------------------------------------------------------------------
(* What was found and what was named                                       *)

IDs == SourceIDs \cup {NoID}

NamedIs ==
  /\ Named \in Seq(IDs) /\ Len(Named) = Len(edges) + 1 /\ Named[1] = streams[1].id
  /\ \A i \in 1 .. Len(edges) : Named[i + 1] = edges[i][2]

FoundIs ==
  /\ Found \in Seq(IDs) /\ Len(Found) = Len(documents) + Len(queue)
  /\ \A i \in 1 .. Len(documents) : Found[i] = documents[i].source
  /\ \A i \in 1 .. Len(queue) : Found[Len(documents) + i] = streams[queue[i]].id

(* What is well formed in a state of which the order is proven.            *)
Sound == TypeOK /\ QueueSound /\ PhaseSound

LEMMA NamedFacts == Sound => NamedIs
  <1> SUFFICES ASSUME Sound PROVE NamedIs
    OBVIOUS
  <1>0. streams \in Seq(Sources) /\ streams # <<>> /\ edges \in Seq(SourceIDs \X SourceIDs)
    BY DEF Sound, TypeOK, PhaseSound
  <1> DEFINE targets == [i \in DOMAIN edges |-> edges[i][2]]
             root == <<streams[1].id>>
  <1>1. streams[1] \in Sources /\ streams[1].id \in IDs
    <2>1. Len(streams) \in Nat \ {0} /\ \A h \in 1 .. Len(streams) : streams[h] \in Sources
      BY <1>0
    <2> QED
      BY <2>1 DEF Sources, IDs
  <1>2. /\ DOMAIN edges = 1 .. Len(edges) /\ Len(edges) \in Nat
        /\ \A i \in 1 .. Len(edges) : edges[i] \in SourceIDs \X SourceIDs
    BY <1>0
  <1>3. \A i \in 1 .. Len(edges) : edges[i][2] \in IDs
    BY <1>2 DEF IDs
  <1>4. targets \in Seq(IDs) /\ Len(targets) = Len(edges) /\ \A i \in 1 .. Len(edges) : targets[i] = edges[i][2]
    BY <1>2, <1>3
  <1>5. root \in Seq(IDs) /\ Len(root) = 1 /\ root[1] = streams[1].id
    BY <1>1
  <1> HIDE DEF targets, root
  <1>6. Named = root \o targets
    BY DEF Named, root, targets
  <1>7. /\ Named \in Seq(IDs) /\ Len(Named) = Len(root) + Len(targets)
        /\ \A i \in 1 .. Len(root) : Named[i] = root[i]
        /\ \A i \in 1 .. Len(targets) : Named[Len(root) + i] = targets[i]
    <2>1. /\ root \o targets \in Seq(IDs) /\ Len(root \o targets) = Len(root) + Len(targets)
          /\ \A i \in 1 .. Len(root) : (root \o targets)[i] = root[i]
          /\ \A i \in 1 .. Len(targets) : (root \o targets)[Len(root) + i] = targets[i]
      <3>1. root \in Seq(IDs) /\ targets \in Seq(IDs)
        BY <1>4, <1>5
      <3> QED
        BY <3>1, JoinFacts
    <2> QED
      BY <1>6, <2>1
  <1> HIDE DEF Named
  <1>8. ASSUME NEW i \in 1 .. Len(edges) PROVE Named[i + 1] = edges[i][2]
    BY <1>2, <1>4, <1>5, <1>7
  <1> QED
    BY <1>2, <1>4, <1>5, <1>7, <1>8 DEF NamedIs

LEMMA FoundFacts == Sound => FoundIs
  <1> SUFFICES ASSUME Sound PROVE FoundIs
    OBVIOUS
  <1>0. streams \in Seq(Sources) /\ documents \in Seq(Documents) /\ queue \in Seq(Nat) /\ QueueSound
    BY DEF Sound, TypeOK
  <1> DEFINE decoded == [i \in DOMAIN documents |-> documents[i].source]
  <1>1. /\ DOMAIN documents = 1 .. Len(documents) /\ Len(documents) \in Nat
        /\ \A i \in 1 .. Len(documents) : documents[i] \in Documents
        /\ DOMAIN queue = 1 .. Len(queue) /\ Len(queue) \in Nat
    BY <1>0
  <1>2. \A i \in 1 .. Len(documents) : documents[i].source \in IDs
    BY <1>1 DEF Documents, IDs
  <1>3. decoded \in Seq(IDs) /\ Len(decoded) = Len(documents)
        /\ \A i \in 1 .. Len(documents) : decoded[i] = documents[i].source
    BY <1>1, <1>2
  <1>4. \A i \in 1 .. Len(queue) : streams[queue[i]].id \in IDs
    <2>1. \A h \in DOMAIN streams : streams[h] \in Sources
      BY <1>0
    <2> QED
      BY <1>0, <1>1, <2>1 DEF QueueSound, Sources, IDs
  <1>5. QueuedIDs \in Seq(IDs) /\ Len(QueuedIDs) = Len(queue)
        /\ \A i \in 1 .. Len(queue) : QueuedIDs[i] = streams[queue[i]].id
    BY <1>1, <1>4 DEF QueuedIDs
  <1> HIDE DEF decoded
  <1>6. Found = decoded \o QueuedIDs
    BY DEF Found, decoded
  <1>7. /\ Found \in Seq(IDs) /\ Len(Found) = Len(decoded) + Len(QueuedIDs)
        /\ \A i \in 1 .. Len(decoded) : Found[i] = decoded[i]
        /\ \A i \in 1 .. Len(QueuedIDs) : Found[Len(decoded) + i] = QueuedIDs[i]
    <2>1. decoded \in Seq(IDs) /\ QueuedIDs \in Seq(IDs)
      BY <1>3, <1>5
    <2>2. /\ decoded \o QueuedIDs \in Seq(IDs) /\ Len(decoded \o QueuedIDs) = Len(decoded) + Len(QueuedIDs)
          /\ \A i \in 1 .. Len(decoded) : (decoded \o QueuedIDs)[i] = decoded[i]
          /\ \A i \in 1 .. Len(QueuedIDs) : (decoded \o QueuedIDs)[Len(decoded) + i] = QueuedIDs[i]
      BY <2>1, JoinFacts
    <2> QED
      BY <1>6, <2>2
  <1> HIDE DEF Found, QueuedIDs
  <1>8. \A i \in 1 .. Len(documents) : Found[i] = documents[i].source
    BY <1>3, <1>7
  <1>9. \A i \in 1 .. Len(queue) : Found[Len(documents) + i] = streams[queue[i]].id
    BY <1>3, <1>5, <1>7
  <1> QED
    BY <1>3, <1>5, <1>7, <1>8, <1>9 DEF FoundIs

LEMMA SequencesTyped ==
  ASSUME Sound
  PROVE  /\ streams \in Seq(Sources) /\ streams # <<>> /\ Len(streams) \in Nat
         /\ documents \in Seq(Documents) /\ DOMAIN documents = 1 .. Len(documents) /\ Len(documents) \in Nat
         /\ edges \in Seq(SourceIDs \X SourceIDs) /\ DOMAIN edges = 1 .. Len(edges) /\ Len(edges) \in Nat
         /\ queue \in Seq(Nat) /\ DOMAIN queue = 1 .. Len(queue) /\ Len(queue) \in Nat
         /\ Found \in Seq(IDs) /\ Len(Found) = Len(documents) + Len(queue)
         /\ DOMAIN Found = 1 .. Len(Found) /\ DOMAIN Named = 1 .. Len(Named)
         /\ Named \in Seq(IDs) /\ Len(Named) = Len(edges) + 1
  <1>1. streams \in Seq(Sources) /\ streams # <<>> /\ documents \in Seq(Documents)
        /\ edges \in Seq(SourceIDs \X SourceIDs) /\ queue \in Seq(Nat) /\ QueueSound
    BY DEF Sound, TypeOK, PhaseSound
  <1>2. Found \in Seq(IDs) /\ Len(Found) = Len(documents) + Len(queue)
    BY FoundFacts DEF FoundIs
  <1>3. Named \in Seq(IDs) /\ Len(Named) = Len(edges) + 1
    BY NamedFacts DEF NamedIs
  <1> HIDE DEF Found, Named
  <1> QED
    BY <1>1, <1>2, <1>3

(* Decoding the head of the queue moves its identity over: nothing is      *)
(* found, nothing named.                                                   *)
LEMMA DecodeKeepsFound ==
  ASSUME Sound, Sound', DecodeDocument
  PROVE  Found' = Found
  <1>1. PICK n \in 0 .. MaxRefs :
          /\ documents' = Append(documents, [source |-> streams[Head(queue)].id, refs |-> n])
          /\ queue # <<>> /\ queue' = Tail(queue) /\ streams' = streams
    BY DEF DecodeDocument
  <1> DEFINE d == [source |-> streams[Head(queue)].id, refs |-> n]
  <1>2. /\ queue \in Seq(Nat) /\ Len(queue) \in Nat \ {0} /\ Head(queue) = queue[1]
        /\ Len(queue') = Len(queue) - 1 /\ \A i \in 1 .. Len(queue') : queue'[i] = queue[i + 1]
    BY <1>1 DEF Sound, TypeOK
  <1>3. /\ documents \in Seq(Documents) /\ Len(documents) \in Nat /\ Len(documents') = Len(documents) + 1
        /\ documents'[Len(documents) + 1] = d
        /\ \A i \in 1 .. Len(documents) : documents'[i] = documents[i]
    BY <1>1 DEF Sound, TypeOK
  <1>4. /\ Found \in Seq(IDs) /\ Len(Found) = Len(documents) + Len(queue)
        /\ \A i \in 1 .. Len(documents) : Found[i] = documents[i].source
        /\ \A i \in 1 .. Len(queue) : Found[Len(documents) + i] = streams[queue[i]].id
    BY FoundFacts DEF FoundIs
  <1>5. /\ Found' \in Seq(IDs) /\ Len(Found') = Len(documents') + Len(queue')
        /\ \A i \in 1 .. Len(documents') : Found'[i] = documents'[i].source
        /\ \A i \in 1 .. Len(queue') : Found'[Len(documents') + i] = streams'[queue'[i]].id
    <2>1. (Sound => FoundIs)'
      BY FoundFacts, PTL
    <2> QED
      BY <2>1 DEF FoundIs
  <1> HIDE DEF Found
  <1>6. Len(Found') = Len(Found)
    BY <1>2, <1>3, <1>4, <1>5
  <1>7. ASSUME NEW i \in 1 .. Len(Found) PROVE Found'[i] = Found[i]
    <2>1. CASE i <= Len(documents)
      BY <1>3, <1>4, <1>5, <2>1
    <2>2. CASE i = Len(documents) + 1
      <3>1. Found'[i] = streams[queue[1]].id
        BY <1>2, <1>3, <1>5, <2>2
      <3>2. Found[i] = streams[queue[1]].id
        BY <1>2, <1>3, <1>4, <2>2
      <3> QED
        BY <3>1, <3>2
    <2>3. CASE i > Len(documents) + 1
      <3> DEFINE j == i - (Len(documents) + 1)
      <3>1. /\ j \in 1 .. Len(queue') /\ j + 1 \in 1 .. Len(queue)
            /\ i = Len(documents') + j /\ i = Len(documents) + (j + 1)
        BY <1>2, <1>3, <1>4, <2>3
      <3> HIDE DEF j
      <3>2. Found'[i] = streams[queue'[j]].id
        BY <1>1, <1>5, <3>1
      <3>3. Found[i] = streams[queue[j + 1]].id
        BY <1>4, <3>1
      <3> QED
        BY <1>2, <3>1, <3>2, <3>3
    <2> QED
      BY <1>3, <1>4, <2>1, <2>2, <2>3
  <1> QED
    BY <1>4, <1>5, <1>6, <1>7, SeqEqual

-----------------------------------------------------------------------------
(* Steps                                                                   *)

(* No two documents share a source, nor does a queued one with a document. *)
LEMMA SourcesDistinct ==
  ASSUME Sound, Lists(Found, Named)
  PROVE  /\ \A d, e \in DOMAIN documents : documents[d].source = documents[e].source => d = e
         /\ \A d \in DOMAIN documents, i \in DOMAIN queue : documents[d].source # streams[queue[i]].id
  <1>1. /\ DOMAIN documents = 1 .. Len(documents) /\ Len(documents) \in Nat
        /\ DOMAIN queue = 1 .. Len(queue) /\ Len(queue) \in Nat
        /\ Found \in Seq(IDs) /\ Named \in Seq(IDs) /\ DOMAIN Found = 1 .. Len(documents) + Len(queue)
    BY SequencesTyped
  <1>2. /\ \A i \in 1 .. Len(documents) : Found[i] = documents[i].source
        /\ \A i \in 1 .. Len(queue) : Found[Len(documents) + i] = streams[queue[i]].id
    BY FoundFacts DEF FoundIs
  <1>3. \A i, j \in DOMAIN Found : Found[i] = Found[j] => i = j
    BY <1>1, ListsOnce
  <1> HIDE DEF Found
  <1>4. ASSUME NEW d \in DOMAIN documents, NEW e \in DOMAIN documents, documents[d].source = documents[e].source
        PROVE  d = e
    <2>1. d \in DOMAIN Found /\ e \in DOMAIN Found /\ Found[d] = Found[e]
      BY <1>1, <1>2, <1>4
    <2> QED
      BY <1>3, <2>1
  <1>5. ASSUME NEW d \in DOMAIN documents, NEW i \in DOMAIN queue, documents[d].source = streams[queue[i]].id
        PROVE  FALSE
    <2>1. /\ d \in DOMAIN Found /\ Len(documents) + i \in DOMAIN Found /\ d # Len(documents) + i
          /\ Found[d] = Found[Len(documents) + i]
      BY <1>1, <1>2, <1>5
    <2> QED
      BY <1>3, <2>1
  <1> QED
    BY <1>4, <1>5

(* A reference adds its edge to the run of the document being expanded,    *)
(* and its target to the names.                                            *)
LEMMA EdgeAdded ==
  ASSUME Sound, Sound', Lists(Found, Named), EdgesSound, phase = "refs", phase' = "refs",
         nextRef' = nextRef + 1, documents' = documents, streams'[1].id = streams[1].id,
         NEW x \in SourceIDs, edges' = Append(edges, <<Parent, x>>)
  PROVE  EdgesSound' /\ Named' = Append(Named, x)
  <1> DEFINE last == Len(documents)
  <1>1. /\ edges \in Seq(SourceIDs \X SourceIDs) /\ DOMAIN edges = 1 .. Len(edges) /\ Len(edges) \in Nat
        /\ documents \in Seq(Documents) /\ DOMAIN documents = 1 .. last /\ last \in Nat
        /\ documents # <<>> /\ nextRef \in Nat
    BY SequencesTyped DEF Sound, TypeOK, PhaseSound
  <1>2. last \in DOMAIN documents /\ Parent = documents[last].source /\ Parent \in SourceIDs
    <2>1. last \in 1 .. last /\ documents[last] \in Documents
      BY <1>1
    <2> QED
      BY <1>1, <2>1 DEF Parent, Documents
  <1>3. <<Parent, x>> \in SourceIDs \X SourceIDs
    BY <1>2
  <1>4. /\ Len(edges') = Len(edges) + 1 /\ DOMAIN edges' = 1 .. (Len(edges) + 1)
        /\ edges'[Len(edges) + 1] = <<Parent, x>>
        /\ \A i \in 1 .. Len(edges) : edges'[i] = edges[i]
    BY <1>1, <1>3, AppendFacts
  <1>5. \A d \in DOMAIN documents : d # last => documents[d].source # Parent
    BY <1>2, SourcesDistinct
  <1>6. \A d \in DOMAIN documents : d # last => EdgesOf(documents[d])' = EdgesOf(documents[d])
    BY <1>1, <1>4, <1>5 DEF EdgesOf
  <1>7. EdgesOf(documents[last])' = EdgesOf(documents[last]) \cup {Len(edges) + 1}
    BY <1>1, <1>2, <1>4 DEF EdgesOf
  <1>8. \A i \in DOMAIN edges' : \E d \in DOMAIN documents : edges'[i][1] = documents[d].source
    BY <1>1, <1>2, <1>4 DEF EdgesSound
  <1>9. ASSUME NEW d \in DOMAIN documents, d # last PROVE Expanded(d, documents[d].refs)'
    <2>1. PICK first \in 1 .. (Len(edges) + 1) :
            EdgesOf(documents[d]) = first .. (first + documents[d].refs - 1)
      BY <1>9 DEF EdgesSound, Expanded
    <2>2. first \in 1 .. (Len(edges') + 1)
      BY <1>1, <1>4
    <2> QED
      BY <1>6, <1>9, <2>1, <2>2 DEF Expanded
  <1>10. /\ Len(edges') - nextRef' + 1 \in 1 .. (Len(edges') + 1)
         /\ EdgesOf(documents[last])' = (Len(edges') - nextRef' + 1) .. Len(edges')
    <2>1. /\ Len(edges) - nextRef + 1 \in 1 .. (Len(edges) + 1)
          /\ EdgesOf(documents[last]) = (Len(edges) - nextRef + 1) .. Len(edges)
      BY DEF EdgesSound
    <2>2. Len(edges') - nextRef' + 1 = Len(edges) - nextRef + 1
      BY <1>1, <1>4
    <2>3. \A k \in 1 .. (Len(edges) + 1) : (k .. Len(edges)) \cup {Len(edges) + 1} = k .. (Len(edges) + 1)
      BY <1>1
    <2> QED
      BY <1>1, <1>4, <1>7, <2>1, <2>2, <2>3
  <1>11. EdgesSound'
    BY <1>8, <1>9, <1>10 DEF EdgesSound
  <1>12. Named' = Append(Named, x)
    <2>1. NamedIs /\ NamedIs'
      <3>1. (Sound => NamedIs)'
        BY NamedFacts, PTL
      <3> QED
        BY <3>1, NamedFacts
    <2>2. x \in IDs
      BY DEF IDs
    <2>3. /\ Append(Named, x) \in Seq(IDs) /\ Len(Append(Named, x)) = Len(Named) + 1 /\ Len(Named) \in Nat
          /\ Append(Named, x)[Len(Named) + 1] = x
          /\ \A i \in 1 .. Len(Named) : Append(Named, x)[i] = Named[i]
      BY <2>1, <2>2, AppendFacts DEF NamedIs
    <2>4. Named' \in Seq(IDs) /\ Len(Named') = Len(Append(Named, x))
      BY <1>1, <1>4, <2>1, <2>3 DEF NamedIs
    <2> HIDE DEF Named
    <2>5. ASSUME NEW i \in 1 .. Len(Named') PROVE Named'[i] = Append(Named, x)[i]
      <3>1. CASE i = 1
        BY <1>1, <2>1, <2>3, <3>1 DEF NamedIs
      <3>2. CASE i > 1
        <4> DEFINE j == i - 1
        <4>1. i = j + 1 /\ j \in 1 .. Len(edges') /\ (j \in 1 .. Len(edges) \/ j = Len(edges) + 1)
          BY <1>1, <1>4, <2>1, <3>2 DEF NamedIs
        <4> HIDE DEF j
        <4>2. Named'[i] = edges'[j][2]
          BY <2>1, <4>1 DEF NamedIs
        <4>3. CASE j \in 1 .. Len(edges)
          BY <1>1, <1>4, <2>1, <2>3, <4>1, <4>2, <4>3 DEF NamedIs
        <4>4. CASE j = Len(edges) + 1
          BY <1>1, <1>4, <2>1, <2>3, <4>1, <4>2, <4>4 DEF NamedIs
        <4> QED
          BY <4>1, <4>3, <4>4
      <3> QED
        BY <1>1, <1>4, <2>1, <3>1, <3>2 DEF NamedIs
    <2> QED
      BY <2>3, <2>4, <2>5, SeqEqual
  <1> QED
    BY <1>11, <1>12

LEMMA AcceptOrdered ==
  ASSUME Sound, Sound', AcceptRoot, documents = <<>>, edges = <<>>
  PROVE  OrderInv'
  <1>1. /\ streams' = streams /\ documents' = <<>> /\ edges' = <<>> /\ seen' = {streams[1].id}
        /\ queue' = <<1>> /\ phase' = "decode"
    BY DEF AcceptRoot
  <1>2. NamedIs' /\ FoundIs'
    <2>1. (Sound => NamedIs)' /\ (Sound => FoundIs)'
      BY NamedFacts, FoundFacts, PTL
    <2> QED
      BY <2>1
  <1> DEFINE id == streams[1].id
  <1>3. Named' \in Seq(IDs) /\ Len(Named') = 1 /\ Named'[1] = id
    BY <1>1, <1>2 DEF NamedIs
  <1>4. Found' \in Seq(IDs) /\ Len(Found') = 1 /\ Found'[1] = id
    BY <1>1, <1>2 DEF FoundIs
  <1> HIDE DEF id, Named, Found
  <1>5. DOMAIN Found' = {1} /\ DOMAIN Named' = {1} /\ Handles(Found') = {id} /\ Handles(Named') = {id}
    BY <1>3, <1>4 DEF Handles
  <1>6. Lists(Found', Named')
    BY <1>3, <1>4, <1>5 DEF Lists, Names, IsFirst
  <1>7. EdgesSound'
    BY <1>1 DEF EdgesSound
  <1> QED
    BY <1>1, <1>5, <1>6, <1>7 DEF OrderInv, id

LEMMA DecodeOrdered ==
  ASSUME Sound, Sound', OrderInv, DecodeDocument
  PROVE  OrderInv'
  <1> DEFINE last == Len(documents) + 1
             new == [source |-> streams[Head(queue)].id, refs |-> documents'[last].refs]
  <1>1. /\ streams' = streams /\ edges' = edges /\ seen' = seen /\ nextRef' = 0 /\ phase' = "refs"
        /\ phase = "decode" /\ queue # <<>>
    BY DEF DecodeDocument
  <1>2. /\ documents \in Seq(Documents) /\ DOMAIN documents = 1 .. Len(documents) /\ Len(documents) \in Nat
        /\ queue \in Seq(Nat) /\ DOMAIN queue = 1 .. Len(queue) /\ Len(queue) \in Nat
        /\ edges \in Seq(SourceIDs \X SourceIDs) /\ DOMAIN edges = 1 .. Len(edges) /\ Len(edges) \in Nat
    BY SequencesTyped
  <1>3. PICK n \in 0 .. MaxRefs : documents' = Append(documents, [source |-> streams[Head(queue)].id, refs |-> n])
    BY DEF DecodeDocument
  <1>4. /\ Len(documents') = last /\ DOMAIN documents' = 1 .. last
        /\ documents'[last].source = streams[queue[1]].id /\ 1 \in DOMAIN queue
        /\ \A d \in 1 .. Len(documents) : documents'[d] = documents[d]
    BY <1>1, <1>2, <1>3
  <1>5. Found' = Found /\ Named' = Named
    <2>1. Found' = Found
      BY DecodeKeepsFound
    <2> QED
      BY <1>1, <2>1 DEF Named
  <1>6. seen = Handles(Named) /\ Lists(Found, Named) /\ EdgesSound
    BY <1>1 DEF OrderInv, Active
  <1>7. \A d \in DOMAIN documents : documents[d].source # documents'[last].source
    BY <1>4, <1>6, SourcesDistinct
  <1>8. EdgesOf(documents[Len(documents)])' = {}
    <2>1. \A i \in DOMAIN edges : edges[i][1] # documents'[last].source
      BY <1>6, <1>7 DEF EdgesSound
    <2> QED
      BY <1>1, <1>4, <2>1 DEF EdgesOf
  <1>9. \A i \in DOMAIN edges' : \E d \in DOMAIN documents' : edges'[i][1] = documents'[d].source
    BY <1>1, <1>2, <1>4, <1>6 DEF EdgesSound
  <1>10. ASSUME NEW d \in DOMAIN documents', d # last PROVE Expanded(d, documents[d].refs)'
    <2>1. d \in DOMAIN documents /\ documents'[d] = documents[d]
      BY <1>2, <1>4, <1>10
    <2>2. Expanded(d, documents[d].refs)
      BY <1>1, <1>6, <2>1 DEF EdgesSound
    <2> QED
      BY <1>1, <2>1, <2>2 DEF Expanded, EdgesOf
  <1>11. /\ Len(edges') - nextRef' + 1 \in 1 .. (Len(edges') + 1)
         /\ (Len(edges') - nextRef' + 1) .. Len(edges') = {}
    BY <1>1, <1>2
  <1>12. EdgesSound'
    BY <1>1, <1>4, <1>8, <1>9, <1>10, <1>11 DEF EdgesSound
  <1> QED
    BY <1>1, <1>5, <1>6, <1>12 DEF OrderInv

LEMMA EnqueueOrdered ==
  ASSUME IInv, Sound, Sound', OrderInv, EnqueueNew \/ CloseRepeated
  PROVE  OrderInv'
  <1>1. /\ phase = "refs" /\ phase' = "refs" /\ nextRef' = nextRef + 1 /\ documents' = documents
    BY DEF EnqueueNew, CloseRepeated, MoreRefs
  <1>2. PICK source \in Sources :
          /\ validateDiscoverySource(source)
          /\ streams' = Append(streams, source)
          /\ edges' = Append(edges, <<Parent, source.id>>)
          /\ \/ /\ source.id \notin seen /\ seen' = seen \cup {source.id}
                /\ queue' = Append(queue, Len(streams) + 1)
             \/ /\ source.id \in seen /\ seen' = seen /\ queue' = queue
    BY DEF EnqueueNew, CloseRepeated
  <1> DEFINE x == source.id
  <1>3. x \in SourceIDs /\ x \in IDs
    BY <1>2 DEF validateDiscoverySource, Sources, IDs
  <1>4. /\ streams \in Seq(Sources) /\ streams # <<>> /\ Len(streams) \in Nat
        /\ documents \in Seq(Documents) /\ DOMAIN documents = 1 .. Len(documents) /\ Len(documents) \in Nat
        /\ queue \in Seq(Nat) /\ DOMAIN queue = 1 .. Len(queue) /\ Len(queue) \in Nat
        /\ Found \in Seq(IDs) /\ Named \in Seq(IDs)
    BY SequencesTyped
  <1>5. /\ streams'[Len(streams) + 1] = source
        /\ \A h \in DOMAIN streams : streams'[h] = streams[h]
        /\ 1 \in DOMAIN streams
    BY <1>2, <1>4
  <1>6. seen = Handles(Named) /\ Lists(Found, Named) /\ EdgesSound
    BY <1>1 DEF OrderInv, Active
  <1>7. EdgesSound' /\ Named' = Append(Named, x)
    BY <1>1, <1>2, <1>3, <1>5, <1>6, EdgeAdded
  <1>8. Handles(Named') = Handles(Named) \cup {x}
    BY <1>3, <1>4, <1>7, AppendFacts
  <1>9. FoundIs /\ FoundIs'
    <2>1. (Sound => FoundIs)'
      BY FoundFacts, PTL
    <2> QED
      BY <2>1, FoundFacts
  <1>10. \A i \in 1 .. Len(queue) : queue[i] \in DOMAIN streams /\ streams'[queue[i]] = streams[queue[i]]
    BY <1>4, <1>5 DEF Sound, QueueSound
  <1> HIDE DEF x, Found, Named
  <1>11. CASE x \in seen /\ seen' = seen /\ queue' = queue
    <2>1. Len(Found') = Len(Found) /\ Found' \in Seq(IDs)
      BY <1>1, <1>9, <1>11 DEF FoundIs
    <2>2. ASSUME NEW i \in 1 .. Len(Found) PROVE Found'[i] = Found[i]
      <3>1. CASE i \in 1 .. Len(documents)
        BY <1>1, <1>9, <3>1 DEF FoundIs
      <3>2. CASE i > Len(documents)
        <4> DEFINE j == i - Len(documents)
        <4>1. i = Len(documents) + j /\ j \in 1 .. Len(queue)
          BY <1>4, <1>9, <3>2 DEF FoundIs
        <4> HIDE DEF j
        <4> QED
          <5>1. Found[i] = streams[queue[j]].id
            BY <1>9, <4>1 DEF FoundIs
          <5>2. Found'[i] = streams'[queue'[j]].id
            <6>1. documents' = documents /\ queue' = queue
              BY <1>1, <1>11
            <6> QED
              BY <1>9, <4>1, <6>1 DEF FoundIs
          <5>3. queue' = queue /\ streams'[queue[j]] = streams[queue[j]]
            BY <1>10, <1>11, <4>1
          <5> QED
            BY <5>1, <5>2, <5>3
      <3> QED
        BY <1>4, <1>9, <3>1, <3>2 DEF FoundIs
    <2>3. Found' = Found
      BY <1>4, <2>1, <2>2, SeqEqual
    <2>4. Lists(Found, Append(Named, x))
      BY <1>4, <1>6, <1>11, ListsKnown
    <2> QED
      BY <1>6, <1>7, <1>8, <1>11, <2>3, <2>4 DEF OrderInv
  <1>12. CASE x \notin seen /\ seen' = seen \cup {x} /\ queue' = Append(queue, Len(streams) + 1)
    <2>1. /\ Len(queue') = Len(queue) + 1 /\ queue'[Len(queue) + 1] = Len(streams) + 1
          /\ \A i \in 1 .. Len(queue) : queue'[i] = queue[i]
      BY <1>4, <1>12
    <2>2. /\ Append(Found, x) \in Seq(IDs) /\ Len(Append(Found, x)) = Len(Found) + 1
          /\ Append(Found, x)[Len(Found) + 1] = x
          /\ \A i \in 1 .. Len(Found) : Append(Found, x)[i] = Found[i]
      BY <1>3, <1>4, AppendFacts
    <2>3. Found' \in Seq(IDs) /\ Len(Found') = Len(Append(Found, x)) /\ Len(Found) \in Nat
      BY <1>1, <1>4, <1>9, <2>1, <2>2 DEF FoundIs
    <2>4. ASSUME NEW i \in 1 .. Len(Found') PROVE Found'[i] = Append(Found, x)[i]
      <3>1. CASE i \in 1 .. Len(documents)
        BY <1>1, <1>4, <1>9, <2>2, <3>1 DEF FoundIs
      <3>2. CASE i > Len(documents)
        <4> DEFINE j == i - Len(documents)
        <4>1. i = Len(documents) + j /\ j \in 1 .. Len(queue') /\ (j \in 1 .. Len(queue) \/ j = Len(queue) + 1)
          <5>1. Len(Found') = Len(documents) + (Len(queue) + 1)
            <6>1. Len(Found') = Len(documents') + Len(queue')
              BY <1>9 DEF FoundIs
            <6> QED
              BY <1>1, <1>4, <2>1, <6>1
          <5> QED
            <6>1. Len(documents) \in Nat /\ Len(queue) \in Nat /\ Len(queue') = Len(queue) + 1
              BY <1>4, <2>1
            <6>2. i \in Nat /\ i <= Len(documents) + (Len(queue) + 1)
              BY <5>1, <6>1
            <6> QED
              BY <3>2, <6>1, <6>2
        <4> HIDE DEF j
        <4>2. Found'[i] = streams'[queue'[j]].id
          BY <1>1, <1>9, <4>1 DEF FoundIs
        <4>3. CASE j \in 1 .. Len(queue)
          <5>1. i \in 1 .. Len(Found) /\ Found[i] = streams[queue[j]].id
            <6>1. Len(Found) = Len(documents) + Len(queue)
              BY <1>9 DEF FoundIs
            <6>2. i \in 1 .. Len(Found)
              BY <1>4, <4>1, <4>3, <6>1
            <6> QED
              BY <1>9, <4>1, <4>3, <6>2 DEF FoundIs
          <5>2. queue'[j] = queue[j] /\ streams'[queue[j]] = streams[queue[j]]
            BY <1>10, <2>1, <4>3
          <5>3. Append(Found, x)[i] = Found[i]
            BY <2>2, <5>1
          <5> QED
            BY <4>2, <5>1, <5>2, <5>3
        <4>4. CASE j = Len(queue) + 1
          BY <1>4, <1>5, <1>9, <2>1, <2>2, <4>1, <4>2, <4>4 DEF FoundIs, x
        <4> QED
          BY <4>1, <4>3, <4>4
      <3> QED
        BY <1>4, <1>9, <2>2, <2>3, <3>1, <3>2
    <2>5. Found' = Append(Found, x)
      BY <2>2, <2>3, <2>4, SeqEqual
    <2>6. Lists(Append(Found, x), Append(Named, x))
      BY <1>3, <1>4, <1>6, <1>12, ListsNew
    <2> QED
      BY <1>6, <1>7, <1>8, <1>12, <2>5, <2>6 DEF OrderInv
  <1> QED
    BY <1>2, <1>11, <1>12 DEF x

-----------------------------------------------------------------------------
(* The invariant                                                           *)

Fresh == phase = "preflight" => documents = <<>> /\ edges = <<>>

LEMMA SoundFacts == IInv => Sound
  BY DEF IInv, Sound

LEMMA InitOrdered == Init => Fresh /\ OrderInv
  BY DEF Init, Fresh, OrderInv, Active

LEMMA StepOrdered ==
  IInv /\ IInv' /\ Fresh /\ OrderInv /\ [Next]_vars => Fresh' /\ OrderInv'
  <1> SUFFICES ASSUME IInv, IInv', Fresh, OrderInv, [Next]_vars PROVE Fresh' /\ OrderInv'
    OBVIOUS
  <1>1. Sound /\ Sound'
    <2>1. (IInv => Sound)'
      BY SoundFacts, PTL
    <2> QED
      BY <2>1, SoundFacts
  <1>2. CASE UNCHANGED vars
    <2>1. /\ streams' = streams /\ queue' = queue /\ seen' = seen /\ documents' = documents /\ edges' = edges
          /\ phase' = phase /\ nextRef' = nextRef
      BY <1>2 DEF vars
    <2>2. Found' = Found /\ Named' = Named
      BY <2>1 DEF Found, QueuedIDs, Named
    <2> QED
      BY <2>1, <2>2 DEF Fresh, OrderInv, Active, EdgesSound, Expanded, EdgesOf
  <1>3. CASE RejectRoot \/ DecodeFailure \/ NoResolver \/ ResolveFailure \/ CloseRepeatedFailure
    <2>1. phase' = "failed"
      BY <1>3 DEF RejectRoot, DecodeFailure, NoResolver, ResolveFailure, CloseRepeatedFailure, Fail
    <2> QED
      BY <2>1 DEF Fresh, OrderInv, Active
  <1>4. CASE AcceptRoot
    <2>1. documents = <<>> /\ edges = <<>> /\ phase' = "decode"
      BY <1>4 DEF AcceptRoot, Fresh
    <2> QED
      BY <1>1, <1>4, <2>1, AcceptOrdered DEF Fresh
  <1>5. CASE DecodeDocument
    <2>1. phase' = "refs"
      BY <1>5 DEF DecodeDocument
    <2> QED
      BY <1>1, <1>5, <2>1, DecodeOrdered DEF Fresh
  <1>6. CASE EnqueueNew \/ CloseRepeated
    <2>1. phase' = "refs"
      BY <1>6 DEF EnqueueNew, CloseRepeated, MoreRefs
    <2> QED
      BY <1>1, <1>6, <2>1, EnqueueOrdered DEF Fresh
  <1>7. CASE NextDocument \/ Complete
    <2>1. /\ streams' = streams /\ queue' = queue /\ seen' = seen /\ documents' = documents /\ edges' = edges
          /\ phase \in {"decode", "refs"} /\ phase' \in {"decode", "done"}
          /\ phase = "refs" => nextRef = documents[Len(documents)].refs
      BY <1>7 DEF NextDocument, Complete
    <2>2. Found' = Found /\ Named' = Named
      BY <2>1 DEF Found, QueuedIDs, Named
    <2>3. seen = Handles(Named) /\ Lists(Found, Named) /\ EdgesSound
      BY <2>1 DEF OrderInv, Active
    <2>4. ASSUME NEW d \in DOMAIN documents PROVE Expanded(d, documents[d].refs)
      <3>1. CASE phase = "refs" /\ d = Len(documents)
        <4>1. /\ Len(edges) \in Nat /\ nextRef \in Nat
              /\ Len(edges) - nextRef + 1 \in 1 .. (Len(edges) + 1)
              /\ EdgesOf(documents[d]) = (Len(edges) - nextRef + 1) .. Len(edges)
          BY <1>1, <2>3, <3>1, SequencesTyped DEF EdgesSound, Sound, TypeOK
        <4>2. (Len(edges) - nextRef + 1) + nextRef - 1 = Len(edges)
          BY <4>1
        <4> QED
          BY <2>1, <3>1, <4>1, <4>2 DEF Expanded
      <3>2. CASE phase # "refs" \/ d # Len(documents)
        BY <2>3, <3>2 DEF EdgesSound
      <3> QED
        BY <3>1, <3>2
    <2>5. EdgesSound'
      BY <2>1, <2>3, <2>4 DEF EdgesSound, Expanded, EdgesOf
    <2> QED
      BY <2>1, <2>2, <2>3, <2>5 DEF Fresh, OrderInv
  <1> QED
    BY <1>2, <1>3, <1>4, <1>5, <1>6, <1>7 DEF Next

(* The order and the edges are as OrderInv says at every point of every    *)
(* discovery.                                                              *)
THEOREM OrderedAlways == Spec => []OrderInv
  <1>1. Spec => [](Fresh /\ OrderInv)
    BY InitOrdered, StepOrdered, Inductive, PTL DEF Spec
  <1> QED
    BY <1>1, PTL

(* However the resolver answers, documents and queue list each identity    *)
(* once, in the order the references first named it.                       *)
THEOREM BreadthFirst == Spec => []DiscoveryOrder
  <1>1. IInv /\ OrderInv => DiscoveryOrder
    <2> SUFFICES ASSUME IInv, OrderInv, Active PROVE
          /\ Handles(Found) = Handles(Named)
          /\ \A i, j \in DOMAIN Found : i < j => FirstAt(Named, Found[i]) < FirstAt(Named, Found[j])
      BY DEF DiscoveryOrder, Active
    <2>1. Found \in Seq(IDs) /\ Named \in Seq(IDs) /\ Lists(Found, Named)
          /\ DOMAIN Found = 1 .. Len(Found) /\ DOMAIN Named = 1 .. Len(Named)
      BY SoundFacts, SequencesTyped DEF OrderInv
    <2> HIDE DEF Found, Named
    <2>2. ASSUME NEW i \in DOMAIN Found
          PROVE  FirstAt(Named, Found[i]) \in DOMAIN Named /\ Names(Named, FirstAt(Named, Found[i]), Found[i])
      <3>1. PICK k \in DOMAIN Named : Names(Named, k, Found[i])
        BY <2>1 DEF Lists
      <3> QED
        BY <3>1 DEF FirstAt, Names, IsFirst
    <2> QED
      BY <2>1, <2>2 DEF Lists
  <1> QED
    BY <1>1, OrderedAlways, Inductive, PTL

(* A success is closed under references, and each document's references    *)
(* left their edges together and in document order.                        *)
THEOREM Closed == Spec => []ClosureComplete
  <1>1. IInv /\ OrderInv => ClosureComplete
    <2> SUFFICES ASSUME IInv, OrderInv, phase = "done" PROVE
          /\ \A i \in DOMAIN documents :
               \E first \in 1 .. (Len(edges) + 1) :
                 EdgesOf(documents[i]) = first .. (first + documents[i].refs - 1)
          /\ \A i \in DOMAIN edges : \E d \in Handles(documents) : d.source = edges[i][2]
      BY DEF ClosureComplete
    <2>1. Sound /\ Lists(Found, Named) /\ EdgesSound /\ queue = <<>>
      BY SoundFacts DEF OrderInv, Active, Sound, PhaseSound, Returned
    <2>2. ASSUME NEW i \in DOMAIN documents PROVE Expanded(i, documents[i].refs)
      BY <2>1 DEF EdgesSound
    <2>3. ASSUME NEW i \in DOMAIN edges PROVE \E d \in Handles(documents) : d.source = edges[i][2]
      <3>1. /\ i \in 1 .. Len(edges) /\ Len(edges) \in Nat /\ Len(queue) = 0
            /\ DOMAIN documents = 1 .. Len(documents) /\ Len(documents) \in Nat
            /\ Found \in Seq(IDs) /\ DOMAIN Found = 1 .. Len(documents)
            /\ Len(Named) = Len(edges) + 1 /\ DOMAIN Named = 1 .. Len(Named)
        <4>1. Len(queue) = 0
          BY <2>1
        <4>2. /\ DOMAIN edges = 1 .. Len(edges) /\ Len(edges) \in Nat
              /\ DOMAIN documents = 1 .. Len(documents) /\ Len(documents) \in Nat
              /\ Found \in Seq(IDs) /\ Len(Found) = Len(documents) + Len(queue) /\ DOMAIN Found = 1 .. Len(Found)
              /\ Len(Named) = Len(edges) + 1 /\ DOMAIN Named = 1 .. Len(Named)
          BY <2>1, SequencesTyped
        <4> HIDE DEF Found, Named
        <4> QED
          BY <4>1, <4>2
      <3>2. NamedIs /\ FoundIs
        BY <2>1, NamedFacts, FoundFacts
      <3> HIDE DEF Found, Named
      <3>3. i + 1 \in DOMAIN Named /\ Named[i + 1] = edges[i][2]
        BY <3>1, <3>2 DEF NamedIs
      <3>4. PICK d \in DOMAIN Found : Found[d] = edges[i][2]
        BY <2>1, <3>3 DEF Lists, Handles
      <3> QED
        BY <3>1, <3>2, <3>4 DEF FoundIs, Handles
    <2> QED
      BY <2>2, <2>3 DEF Expanded
  <1> QED
    BY <1>1, OrderedAlways, Inductive, PTL
=============================================================================
