--------------------------- MODULE BaseSyncProofs ---------------------------
(***************************************************************************)
(* Proofs about BaseSync, for every commit graph and every number of runs: *)
(* the type invariant, and that the runs keep BaseContract.                *)
(***************************************************************************)
EXTENDS BaseSync, TLAPS

(* An attempt: past its synchronized commit, past the update of the        *)
(* submodules, and in the verification that ends it.                       *)
Trying(s) == job[s].attempt > 0

Synced(s) == Trying(s) /\ ~ At(s, {"after"})

Updated(s) ==
  /\ Trying(s)
  /\ At(s, {"pinnedHead", "refetch", "refetchedHead", "reorigin", "layout", "status",
            "registered", "submodules", "final", "finalOrigin"})

Looking(s) ==
  /\ Trying(s)
  /\ At(s, {"status", "registered", "submodules", "final", "finalOrigin"})

Looked(s) ==
  /\ Trying(s)
  /\ At(s, {"registered", "submodules", "final"})

(* HEAD may move under a run, but only forward from the commit it          *)
(* synchronized; that commit is the origin/main of the attempt once the    *)
(* submodules are updated.                                                 *)
AfterSound(s) ==
  /\ Synced(s) => Contains(head, job[s].after)
  /\ Updated(s) \/ (Trying(s) /\ At(s, {"pins"})) => job[s].after = job[s].origin

(* What the last look at the primary showed: a commit between the          *)
(* synchronized one and HEAD at which it was clean and pinned.  When HEAD  *)
(* is then found at the synchronized commit, the two are one.              *)
LookSound(s) ==
  /\ Updated(s) => pins # NoPin
  /\ Looking(s) /\ Pinned => head \in settled[s]
  /\ Looked(s) => \E c \in settled[s] : Contains(c, job[s].after) /\ Contains(head, c)
  /\ At(s, {"finalOrigin"}) => job[s].after \in settled[s]

PhaseSound(s) ==
  /\ At(s, {"after", "recheck", "advance", "advanced", "pins", "pinnedHead", "refetch",
            "refetchedHead", "reorigin", "descend", "submodules", "final", "finalOrigin",
            "converge", "converged"}) => Trying(s)
  /\ At(s, {"idle", "fetch", "fetchedHead", "origin", "relation", "forward"}) => ~ Trying(s)

RunSound(s) == AfterSound(s) /\ LookSound(s) /\ PhaseSound(s)

IInv == TypeOK /\ \A s \in Runs : RunSound(s)

-----------------------------------------------------------------------------
(* Histories are reflexive, transitive and antisymmetric.                  *)
LEMMA HistoryFacts ==
  ASSUME NEW c \in Commits, NEW d \in Commits
  PROVE  /\ Contains(c, c)
         /\ \A e \in Commits : Contains(d, c) /\ Contains(e, d) => Contains(e, c)
         /\ Contains(c, d) /\ Contains(d, c) => c = d
  BY BaseAssumption DEF Contains

LEMMA IdleTyped == Idle \in Run
  BY BaseAssumption DEF Idle, Run, Phases, MaxAttempts

(* The fields a step may change keep a run typed.                          *)
LEMMA RunUpdates ==
  ASSUME NEW r \in Run, NEW at \in Phases
  PROVE  /\ [r EXCEPT !.at = at] \in Run
         /\ \A c \in Commits :
              /\ [r EXCEPT !.before = c, !.at = at] \in Run
              /\ [r EXCEPT !.after = c, !.at = at] \in Run
              /\ [r EXCEPT !.origin = c, !.at = at] \in Run
              /\ [r EXCEPT !.fetched = c, !.origin = c, !.at = at] \in Run
         /\ \A n \in 0 .. MaxAttempts : [r EXCEPT !.attempt = n, !.at = at] \in Run
         /\ \A m \in Commits \cup {NoMerge} :
              /\ [r EXCEPT !.at = at, !.merge = m] \in Run
              /\ \A c \in Commits : [r EXCEPT !.at = at, !.after = c, !.merge = m] \in Run
  BY DEF Run

LEMMA InitInvariant == Init => IInv
  <1> SUFFICES ASSUME Init PROVE IInv
    OBVIOUS
  <1>1. TypeOK
    <2>1. /\ remote \in Commits /\ tracking \in Commits /\ head \in Commits
          /\ dirty \in BOOLEAN /\ settled \in [Runs -> SUBSET Commits]
      BY BaseAssumption DEF Init
    <2>2. pins \in {NoPin} \cup {Pin[c] : c \in Commits}
      BY BaseAssumption DEF Init
    <2>3. job \in [Runs -> Run] /\ faults \in 0 .. MaxFaults
      BY IdleTyped, BaseAssumption DEF Init
    <2> QED
      BY <2>1, <2>2, <2>3 DEF TypeOK
  <1>2. ASSUME NEW s \in Runs PROVE RunSound(s)
    BY DEF Init, RunSound, AfterSound, LookSound, PhaseSound, Synced, Updated, Looking, Looked,
           Trying, Idle, At
  <1> QED
    BY <1>1, <1>2 DEF IInv

(* Every step of a run leaves the others where they are and itself in a    *)
(* typed state.                                                            *)
LEMMA JobTyped ==
  ASSUME TypeOK, NEW s \in Runs, SyncStep(s) \/ Fail(s)
  PROVE  job' \in [Runs -> Run]
  <1>1. /\ job[s] \in Run /\ head \in Commits /\ tracking \in Commits /\ remote \in Commits
        /\ job[s].attempt \in 0 .. MaxAttempts
    BY DEF TypeOK, Run
  <1>2. Retry(s) \in Run /\ FirstAttempt(s) \in Run
    <2>0. 1 \in 0 .. MaxAttempts
      BY DEF MaxAttempts
    <2>1. FirstAttempt(s) \in Run
      BY <1>1, RunUpdates, <2>0 DEF FirstAttempt, Phases
    <2>2. CASE job[s].attempt = MaxAttempts
      BY <2>1, <2>2, IdleTyped DEF Retry
    <2>3. CASE job[s].attempt # MaxAttempts
      <3>1. job[s].attempt + 1 \in 0 .. MaxAttempts
        BY <1>1, <2>3 DEF MaxAttempts
      <3>2. job[s].fetched \in Commits /\ Root \in Commits /\ "after" \in Phases
        BY <1>1, BaseAssumption DEF Run, Phases
      <3>3. \A n \in 0 .. MaxAttempts :
              [job[s] EXCEPT !.at = "after", !.attempt = n, !.origin = job[s].fetched, !.after = Root] \in Run
        BY <1>1, <3>2 DEF Run
      <3> DEFINE n == job[s].attempt + 1
      <3>4. Retry(s) = [job[s] EXCEPT !.at = "after", !.attempt = n, !.origin = job[s].fetched, !.after = Root]
        BY <1>1, <2>3 DEF Retry, Run
      <3>5. n \in 0 .. MaxAttempts
        BY <3>1
      <3> HIDE DEF n
      <3>6. [job[s] EXCEPT !.at = "after", !.attempt = n, !.origin = job[s].fetched, !.after = Root] \in Run
        BY <3>3, <3>5, Zenon
      <3> QED
        BY <2>1, <3>4, <3>6, Zenon
    <2> QED
      BY <2>2, <2>3
  <1>3. SUFFICES \E next \in Run : job' = [job EXCEPT ![s] = next]
    BY DEF TypeOK
  <1>4. CASE Start(s)
    <2> DEFINE merge == IF s \in Finishes THEN remote ELSE NoMerge
    <2>1. [Idle EXCEPT !.at = "layout", !.merge = merge] \in Run
      BY <1>1, IdleTyped, RunUpdates, BaseAssumption DEF Phases
    <2> QED
      BY <2>1, <1>4 DEF Start, Become
  <1>5. CASE ReadLayout(s)
    BY <1>1, <1>5 DEF ReadLayout, Become, Run, Phases
  <1>6. CASE ReadStatus(s)
    BY <1>1, <1>6, IdleTyped DEF ReadStatus, Check, Step, Become, Run, Phases
  <1>7. CASE RegisteredHead(s)
    BY <1>1, <1>7, IdleTyped DEF RegisteredHead, Check, Step, Become, Run, Phases
  <1>8. CASE Fetch(s)
    BY <1>1, <1>8 DEF Fetch, Step, Become, Run, Phases
  <1>9. CASE FetchedHead(s)
    <2>1. [job[s] EXCEPT !.before = Root, !.at = "origin"] \in Run
      BY <1>1, RunUpdates, BaseAssumption DEF Phases
    <2> QED
      BY <2>1, <1>9, IdleTyped DEF FetchedHead, Become
  <1>10. CASE FetchedOrigin(s)
    BY <1>1, <1>10 DEF FetchedOrigin, Become, Run, Phases
  <1>11. CASE Relation(s)
    BY <1>1, <1>2, <1>11, IdleTyped DEF Relation, Become, Run, Phases
  <1>12. CASE Merge(s)
    <2>1. AfterMerge(s) \in Run
      BY <1>1, <1>2, <1>12 DEF AfterMerge, Merge, At, Run, Phases
    <2> QED
      BY <2>1, <1>12, IdleTyped DEF Merge, Become
  <1>13. CASE ReadAfter(s)
    BY <1>1, <1>13 DEF ReadAfter, Become, Run, Phases
  <1>14. CASE Recheck(s)
    BY <1>1, <1>14, IdleTyped DEF Recheck, Become, Run, Phases
  <1>15. CASE ReadAdvanced(s)
    BY <1>1, <1>15, IdleTyped DEF ReadAdvanced, Become, Run, Phases
  <1>16. CASE UpdateSubmodules(s)
    BY <1>1, <1>16 DEF UpdateSubmodules, Step, Become, Run, Phases
  <1>17. CASE PinnedHead(s)
    BY <1>1, <1>17, IdleTyped DEF PinnedHead, Check, Step, Become, Run, Phases
  <1>18. CASE RefetchedOrigin(s)
    BY <1>1, <1>18, IdleTyped DEF RefetchedOrigin, Check, Step, Become, Run, Phases
  <1>19. CASE CheckSubmodules(s)
    BY <1>1, <1>19, IdleTyped DEF CheckSubmodules, Check, Step, Become, Run, Phases
  <1>20. CASE FinalHead(s)
    BY <1>1, <1>20, IdleTyped DEF FinalHead, Check, Step, Become, Run, Phases
  <1>21. CASE Succeed(s)
    <2>1. job[s].after \in Commits /\ job[s].merge \in Commits \cup {NoMerge}
      BY <1>1 DEF Run
    <2>2. [Idle EXCEPT !.at = "returned", !.after = job[s].after, !.merge = job[s].merge] \in Run
      BY <2>1, IdleTyped, RunUpdates DEF Phases
    <2> QED
      BY <2>2, <1>21 DEF Succeed, Become
  <1>22. CASE Exit(s)
    BY <1>22, IdleTyped DEF Exit, Become
  <1>23. CASE FinalOrigin(s)
    BY <1>1, <1>23, IdleTyped DEF FinalOrigin, Become, Run, Phases
  <1>24. CASE Converged(s)
    BY <1>2, <1>24, IdleTyped DEF Converged, Become
  <1>25. CASE Fail(s)
    BY <1>25, IdleTyped DEF Fail, Become
  <1> QED
    BY <1>4, <1>5, <1>6, <1>7, <1>8, <1>9, <1>10, <1>11, <1>12, <1>13, <1>14, <1>15, <1>16,
       <1>17, <1>18, <1>19, <1>20, <1>21, <1>22, <1>23, <1>24, <1>25 DEF SyncStep

(* A step taken by another: the run keeps its place, HEAD only moves       *)
(* forward, and a change of the primary is seen by its history.            *)
LEMMA OtherStep ==
  ASSUME TypeOK, TypeOK', NEW r \in Runs, RunSound(r),
         job'[r] = job[r], Contains(head', head), pins' = pins \/ pins' # NoPin,
         settled[r] \subseteq settled'[r], Pinned' => (Pinned /\ head' = head) \/ head' \in settled'[r]
  PROVE  RunSound(r)'
  <1>1. /\ Trying(r)' <=> Trying(r)
        /\ Synced(r)' <=> Synced(r)
        /\ Updated(r)' <=> Updated(r)
        /\ Looking(r)' <=> Looking(r)
        /\ Looked(r)' <=> Looked(r)
        /\ \A here : At(r, here)' <=> At(r, here)
    BY DEF Trying, Synced, Updated, Looking, Looked, At
  <1>2. /\ head \in Commits /\ head' \in Commits /\ job[r].after \in Commits
        /\ settled[r] \subseteq Commits
    BY DEF TypeOK, Run
  <1>3. \A c \in Commits : Contains(head, c) => Contains(head', c)
    BY <1>2, HistoryFacts
  <1>4. AfterSound(r)'
    <2>1. AfterSound(r)
      BY DEF RunSound
    <2>2. Synced(r)' => Contains(head', job'[r].after)
      BY <2>1, <1>1, <1>2, <1>3 DEF AfterSound
    <2>3. Updated(r)' \/ (Trying(r)' /\ At(r, {"pins"})') => job'[r].after = job'[r].origin
      BY <2>1, <1>1 DEF AfterSound
    <2> QED
      BY <2>2, <2>3 DEF AfterSound, Contains
  <1>5. LookSound(r)'
    <2>1. LookSound(r)
      BY DEF RunSound
    <2>2. Updated(r)' => pins' # NoPin
      BY <2>1, <1>1 DEF LookSound
    <2>3. Looking(r)' /\ Pinned' => head' \in settled'[r]
      BY <2>1, <1>1 DEF LookSound
    <2>4. Looked(r)' => \E c \in settled'[r] : Contains(c, job'[r].after) /\ Contains(head', c)
      BY <2>1, <1>1, <1>2, <1>3 DEF LookSound
    <2>5. At(r, {"finalOrigin"})' => job'[r].after \in settled'[r]
      BY <2>1, <1>1 DEF LookSound
    <2> QED
      BY <2>2, <2>3, <2>4, <2>5 DEF LookSound, Contains
  <1>6. PhaseSound(r)'
    BY <1>1 DEF RunSound, PhaseSound
  <1> QED
    BY <1>4, <1>5, <1>6 DEF RunSound

(* Own steps, phase by phase.  A run that is idle, or has only started,    *)
(* has nothing to keep.                                                    *)
LEMMA Resting ==
  ASSUME NEW s \in Runs, TypeOK', ~ Trying(s)',
         At(s, {"idle", "returned", "layout", "status", "registered", "fetch", "fetchedHead",
                "origin", "relation", "forward"})'
  PROVE  RunSound(s)'
  BY DEF RunSound, AfterSound, LookSound, PhaseSound, Trying, Synced, Updated, Looking, Looked, At

LEMMA Stopping ==
  ASSUME NEW s \in Runs, TypeOK, TypeOK', job'[s] = Idle
  PROVE  RunSound(s)'
  BY Resting DEF Trying, At, Idle

(* A new attempt begins: only its number matters.                          *)
LEMMA Attempting ==
  ASSUME NEW s \in Runs, TypeOK', At(s, {"after"})', Trying(s)'
  PROVE  RunSound(s)'
  BY DEF RunSound, AfterSound, LookSound, PhaseSound, Trying, Synced, Updated, Looking, Looked, At

LEMMA RetrySound ==
  ASSUME NEW s \in Runs, TypeOK, TypeOK', job'[s] = Retry(s)
  PROVE  RunSound(s)'
  <1>1. job[s] \in Run /\ job[s].attempt \in Nat
    BY DEF TypeOK, Run, MaxAttempts
  <1>2. CASE job[s].attempt = MaxAttempts
    BY <1>2, Stopping DEF Retry
  <1>3. CASE job[s].attempt # MaxAttempts
    <2>1. job'[s].at = "after" /\ job'[s].attempt = job[s].attempt + 1
      BY <1>1, <1>3 DEF Retry, Run
    <2> QED
      BY <1>1, <2>1, Attempting DEF At, Trying
  <1> QED
    BY <1>2, <1>3

LEMMA FirstSound ==
  ASSUME NEW s \in Runs, TypeOK, TypeOK', job'[s] = FirstAttempt(s)
  PROVE  RunSound(s)'
  <1>1. job'[s].at = "after" /\ job'[s].attempt = 1
    BY DEF FirstAttempt, TypeOK, Run
  <1> QED
    BY <1>1, Attempting DEF At, Trying

(* An attempt goes on from one place to another, with what it has read     *)
(* kept and the primary left alone: it owes what the new place owes.       *)
LEMMA GoingOn ==
  ASSUME NEW s \in Runs, TypeOK, TypeOK', RunSound(s), NEW next \in Phases,
         job'[s] = [job[s] EXCEPT !.at = next],
         UNCHANGED <<primary, settled>>,
         ~ At(s, {"after"}),
         next \in {"refetch", "refetchedHead", "reorigin", "layout"} => Updated(s),
         next \in {"submodules", "final"} => Looked(s),
         next \in {"refetch", "refetchedHead", "reorigin", "layout", "descend", "submodules", "final"}
           /\ Trying(s)
  PROVE  RunSound(s)'
  <1>1. /\ job[s] \in Run
        /\ job'[s].at = next /\ job'[s].attempt = job[s].attempt
        /\ job'[s].after = job[s].after /\ job'[s].origin = job[s].origin
    BY DEF TypeOK, Run
  <1>2. head' = head /\ (Pinned' <=> Pinned) /\ pins' = pins /\ settled' = settled
    BY DEF primary, Pinned
  <1> QED
    BY <1>1, <1>2 DEF RunSound, AfterSound, LookSound, PhaseSound, Trying, Synced, Updated,
                      Looking, Looked, At, Contains

LEMMA OwnStep ==
  ASSUME NEW s \in Runs, TypeOK, TypeOK', RunSound(s), SyncStep(s) \/ Fail(s)
  PROVE  RunSound(s)'
  <1>1. /\ job[s] \in Run /\ job \in [Runs -> Run]
        /\ head \in Commits /\ tracking \in Commits
        /\ job[s].attempt \in 0 .. MaxAttempts /\ job[s].after \in Commits
        /\ settled \in [Runs -> SUBSET Commits]
    BY DEF TypeOK, Run
  <1>2. \A next : Become(s, next) => job'[s] = next
    BY <1>1 DEF Become
  <1>3. CASE job'[s] = Idle
    BY <1>3, Stopping
  <1>4. CASE Start(s)
    <2>1. job'[s].at = "layout" /\ job'[s].attempt = 0
      BY <1>2, <1>4 DEF Start, Idle
    <2> QED
      BY <2>1, Resting DEF At, Trying
  <1>5. CASE ReadLayout(s)
    <2>1. /\ job'[s].at = "status" /\ job'[s].attempt = job[s].attempt
          /\ job'[s].after = job[s].after /\ job'[s].origin = job[s].origin
      BY <1>1, <1>2, <1>5 DEF ReadLayout, Run
    <2>2. head' = head /\ (Pinned' <=> Pinned) /\ pins' = pins /\ settled'[s] = Here
      BY <1>1, <1>5 DEF ReadLayout, primary, Pinned
    <2> QED
      BY <1>5, <2>1, <2>2 DEF ReadLayout, RunSound, AfterSound, LookSound, PhaseSound, Trying,
         Synced, Updated, Looking, Looked, At, Contains, Here
  <1>6. CASE ReadStatus(s) /\ job'[s] # Idle
    <2>1. /\ job'[s].at = "registered" /\ job'[s].attempt = job[s].attempt
          /\ job'[s].after = job[s].after /\ job'[s].origin = job[s].origin /\ Clean
          /\ At(s, {"status"})
      BY <1>1, <1>2, <1>6 DEF ReadStatus, Check, Step, Run
    <2>2. head' = head /\ (Pinned' <=> Pinned) /\ pins' = pins /\ settled' = settled
      BY <1>6 DEF ReadStatus, primary, Pinned
    <2>3. CASE ~ Trying(s)
      BY <2>1, <2>3, Resting DEF At, Trying
    <2>4. CASE Trying(s)
      <3>1. Pinned /\ head \in settled[s] /\ Contains(head, job[s].after)
        BY <2>1, <2>4 DEF RunSound, AfterSound, LookSound, Synced, Updated, Looking, At,
           Clean, Pinned
      <3>2. Contains(head, head)
        BY <1>1, HistoryFacts
      <3> QED
        BY <2>1, <2>2, <2>4, <3>1, <3>2 DEF RunSound, AfterSound, LookSound, PhaseSound, Trying,
           Synced, Updated, Looking, Looked, At, Contains
    <2> QED
      BY <2>3, <2>4
  <1>7. CASE RegisteredHead(s) /\ job'[s] # Idle
    <2>1. /\ job'[s] = [job[s] EXCEPT !.at = IF job[s].attempt = 0 THEN "fetch" ELSE "submodules"]
          /\ At(s, {"registered"}) /\ UNCHANGED <<primary, settled>>
      BY <1>2, <1>7 DEF RegisteredHead, Check, Step
    <2>2. CASE job[s].attempt = 0
      BY <1>1, <2>1, <2>2, Resting DEF At, Trying, Run
    <2>3. CASE job[s].attempt # 0
      <3>1. Trying(s) /\ Looked(s)
        BY <1>1, <2>1, <2>3 DEF Trying, Looked, At, MaxAttempts
      <3> QED
        BY <2>1, <2>3, <3>1, GoingOn DEF At, Phases
    <2> QED
      BY <2>2, <2>3
  <1>8. CASE Fetch(s)
    <2>1. UNCHANGED <<primary, settled>>
      BY <1>8 DEF Fetch
    <2>2. CASE At(s, {"fetch"})
      <3>1. job'[s].at = "fetchedHead" /\ job'[s].attempt = job[s].attempt /\ ~ Trying(s)
        BY <1>1, <1>2, <1>8, <2>2 DEF Fetch, Step, At, Run, RunSound, PhaseSound
      <3> QED
        BY <3>1, Resting DEF At, Trying
    <2>3. CASE At(s, {"refetch"})
      <3>1. job'[s] = [job[s] EXCEPT !.at = "refetchedHead"] /\ Trying(s) /\ Updated(s)
        BY <1>2, <1>8, <2>3 DEF Fetch, Step, At, RunSound, PhaseSound, Updated
      <3> QED
        BY <2>1, <2>3, <3>1, GoingOn DEF At, Phases
    <2> QED
      BY <1>8, <2>2, <2>3 DEF Fetch, At
  <1>9. CASE (FetchedHead(s) \/ FetchedOrigin(s)) /\ job'[s] # Idle
    <2>1. job'[s].at \in {"origin", "relation"} /\ job'[s].attempt = job[s].attempt /\ ~ Trying(s)
      BY <1>1, <1>2, <1>9 DEF FetchedHead, FetchedOrigin, At, Run, RunSound, PhaseSound
    <2> QED
      BY <2>1, Resting DEF At, Trying
  <1>10. CASE Relation(s) /\ job'[s] # Idle
    <2>1. ~ Trying(s)
      BY <1>10 DEF Relation, At, RunSound, PhaseSound
    <2>2. job'[s] = FirstAttempt(s) \/ job'[s] = [job[s] EXCEPT !.at = "forward"]
      BY <1>2, <1>10 DEF Relation
    <2>3. CASE job'[s] = [job[s] EXCEPT !.at = "forward"]
      BY <1>1, <2>1, <2>3, Resting DEF At, Trying, Run
    <2> QED
      BY <2>2, <2>3, FirstSound
  <1>11. CASE Merge(s) /\ job'[s] # Idle
    <2>1. job'[s] = AfterMerge(s) /\ At(s, {"forward", "advance", "descend", "converge"})
      BY <1>2, <1>11 DEF Merge
    <2>2. CASE At(s, {"forward"})
      BY <2>1, <2>2, FirstSound DEF AfterMerge, At
    <2>3. CASE At(s, {"descend"})
      BY <2>1, <2>3, RetrySound DEF AfterMerge, At
    <2>4. CASE At(s, {"advance", "converge"})
      <3>1. /\ job'[s].at \in {"advanced", "converged"} /\ job'[s].attempt = job[s].attempt
            /\ job'[s].after = job[s].after /\ Trying(s) /\ Contains(head, job[s].after)
        BY <1>1, <2>1, <2>4 DEF AfterMerge, At, Run, RunSound, PhaseSound, AfterSound, Synced
      <3>2. Contains(head', job[s].after)
        BY <1>1, <1>11, <3>1, HistoryFacts DEF Merge
      <3> QED
        BY <3>1, <3>2 DEF RunSound, AfterSound, LookSound, PhaseSound, Trying, Synced, Updated,
           Looking, Looked, At, Contains
    <2> QED
      BY <2>1, <2>2, <2>3, <2>4 DEF At
  <1>12. CASE ReadAfter(s)
    <2>1. /\ job'[s].at = "recheck" /\ job'[s].attempt = job[s].attempt /\ job'[s].after = head
          /\ Trying(s) /\ head' = head
      BY <1>1, <1>2, <1>12 DEF ReadAfter, At, Run, RunSound, PhaseSound, primary
    <2> QED
      BY <1>1, <2>1, HistoryFacts DEF RunSound, AfterSound, LookSound, PhaseSound, Trying, Synced,
         Updated, Looking, Looked, At, Contains
  <1>13. CASE Recheck(s) /\ job'[s] # Idle
    <2>1. /\ job'[s].at \in {"pins", "advance"} /\ job'[s].attempt = job[s].attempt
          /\ job'[s].after = job[s].after /\ head' = head
          /\ job'[s].at = "pins" => job'[s].after = job'[s].origin
      <3>1. CASE tracking = job[s].origin /\ job[s].after = tracking /\ HasMerge(s, tracking)
        BY <1>1, <1>2, <1>13, <3>1 DEF Recheck, Run, primary
      <3>2. CASE tracking # job[s].origin /\ Advanced(s)
        BY <1>1, <1>2, <1>13, <3>2 DEF Recheck, Run, primary
      <3> QED
        BY <1>2, <1>13, <3>1, <3>2 DEF Recheck
    <2>2. Trying(s) /\ Contains(head, job[s].after)
      BY <1>13 DEF Recheck, At, RunSound, PhaseSound, AfterSound, Synced
    <2> QED
      BY <2>1, <2>2 DEF RunSound, AfterSound, LookSound, PhaseSound, Trying, Synced, Updated,
         Looking, Looked, At, Contains
  <1>14. CASE ReadAdvanced(s) /\ job'[s] # Idle
    <2>1. /\ job'[s].at = "pins" /\ job'[s].attempt = job[s].attempt /\ job'[s].after = head
          /\ job'[s].origin = head /\ Trying(s) /\ head' = head
      BY <1>1, <1>2, <1>14 DEF ReadAdvanced, At, Run, RunSound, PhaseSound, primary
    <2> QED
      BY <1>1, <2>1, HistoryFacts DEF RunSound, AfterSound, LookSound, PhaseSound, Trying, Synced,
         Updated, Looking, Looked, At, Contains
  <1>15. CASE UpdateSubmodules(s)
    <2>1. /\ job'[s].at = "pinnedHead" /\ job'[s].attempt = job[s].attempt
          /\ job'[s].after = job[s].after /\ job'[s].origin = job[s].origin
          /\ Trying(s) /\ head' = head /\ At(s, {"pins"})
      BY <1>1, <1>2, <1>15 DEF UpdateSubmodules, Step, At, Run, RunSound, PhaseSound
    <2>2. pins' # NoPin
      BY <1>1, <1>15, BaseAssumption DEF UpdateSubmodules
    <2> QED
      BY <2>1, <2>2 DEF RunSound, AfterSound, LookSound, PhaseSound, Trying, Synced, Updated,
         Looking, Looked, At, Contains
  <1>16. CASE (PinnedHead(s) \/ RefetchedOrigin(s)) /\ job'[s] # Idle
    <2>1. /\ At(s, {"pinnedHead", "refetchedHead", "reorigin"}) /\ Trying(s) /\ Updated(s)
          /\ UNCHANGED <<primary, settled>>
      BY <1>16 DEF PinnedHead, RefetchedOrigin, At, RunSound, PhaseSound, Updated
    <2>2. \E next \in {"refetch", "reorigin", "layout", "descend"} :
            job'[s] = [job[s] EXCEPT !.at = next]
      BY <1>2, <1>16 DEF PinnedHead, RefetchedOrigin, Check, Step
    <2> QED
      BY <2>1, <2>2, GoingOn DEF At, Phases
  <1>17. CASE CheckSubmodules(s) /\ job'[s] # Idle
    <2>1. /\ At(s, {"submodules"}) /\ Trying(s) /\ Looked(s) /\ UNCHANGED <<primary, settled>>
          /\ job'[s] = [job[s] EXCEPT !.at = "final"]
      BY <1>2, <1>17 DEF CheckSubmodules, Check, Step, At, RunSound, PhaseSound, Looked
    <2> QED
      BY <2>1, GoingOn DEF At, Phases
  <1>18. CASE FinalHead(s) /\ job'[s] # Idle
    <2>1. /\ job'[s].at = "finalOrigin" /\ job'[s].attempt = job[s].attempt
          /\ job'[s].after = job[s].after /\ job'[s].origin = job[s].origin
          /\ At(s, {"final"}) /\ Trying(s) /\ head = job[s].after
      BY <1>1, <1>2, <1>18 DEF FinalHead, Check, Step, At, Run, RunSound, PhaseSound
    <2>2. head' = head /\ (Pinned' <=> Pinned) /\ pins' = pins /\ settled' = settled
      BY <1>18 DEF FinalHead, primary, Pinned
    <2>3. job[s].after \in settled[s]
      <3>1. PICK c \in settled[s] : Contains(c, job[s].after) /\ Contains(head, c)
        BY <2>1 DEF RunSound, LookSound, Looked, At
      <3> QED
        BY <1>1, <2>1, <3>1, HistoryFacts
    <2> QED
      BY <2>1, <2>2, <2>3 DEF RunSound, AfterSound, LookSound, PhaseSound, Trying, Synced, Updated,
         Looking, Looked, At, Contains
  <1>19. CASE Succeed(s)
    <2>1. job'[s].at = "returned" /\ job'[s].attempt = 0
      BY <1>2, <1>19 DEF Succeed, Idle
    <2> QED
      BY <2>1, Resting DEF At, Trying
  <1>20. CASE FinalOrigin(s) /\ job'[s] # Idle
    <2>1. /\ job'[s].at = "converge" /\ job'[s].attempt = job[s].attempt
          /\ job'[s].after = job[s].after /\ Trying(s) /\ head' = head
          /\ Contains(head, job[s].after)
      BY <1>1, <1>2, <1>20 DEF FinalOrigin, At, Run, RunSound, PhaseSound, AfterSound, Synced,
         primary
    <2> QED
      BY <2>1 DEF RunSound, AfterSound, LookSound, PhaseSound, Trying, Synced, Updated,
         Looking, Looked, At, Contains
  <1>21. CASE Converged(s)
    BY <1>2, <1>3, <1>21, RetrySound DEF Converged
  <1>22. CASE Exit(s) \/ Fail(s)
    BY <1>2, <1>3, <1>22 DEF Exit, Fail
  <1> QED
    BY <1>3, <1>4, <1>5, <1>6, <1>7, <1>8, <1>9, <1>10, <1>11, <1>12, <1>13, <1>14, <1>15, <1>16,
       <1>17, <1>18, <1>19, <1>20, <1>21, <1>22 DEF SyncStep

-----------------------------------------------------------------------------
(* What any step does to the primary: HEAD only moves forward, submodules  *)
(* are never taken away, and a history is told what it must know.          *)
LEMMA PrimaryMoves ==
  ASSUME TypeOK, Next
  PROVE  /\ remote' \in Commits /\ tracking' \in Commits /\ head' \in Commits
         /\ dirty' \in BOOLEAN /\ faults' \in 0 .. MaxFaults
         /\ pins' \in {NoPin} \cup {Pin[c] : c \in Commits}
         /\ pins' = pins \/ pins' # NoPin
         /\ Contains(head', head)
  <1>1. /\ remote \in Commits /\ tracking \in Commits /\ head \in Commits
        /\ dirty \in BOOLEAN /\ faults \in 0 .. MaxFaults /\ MaxFaults \in Nat
        /\ pins \in {NoPin} \cup {Pin[c] : c \in Commits}
        /\ Contains(head, head) /\ \A c \in Commits : Pin[c] # NoPin
    BY BaseAssumption, HistoryFacts DEF TypeOK
  <1>2. ASSUME NEW s \in Runs, SyncStep(s) \/ Fail(s)
        PROVE  /\ remote' = remote /\ dirty' = dirty
               /\ tracking' \in {tracking, remote}
               /\ head' \in {head, tracking} /\ Contains(head', head)
               /\ pins' \in {pins, Pin[head]}
    <2>1. CASE Merge(s)
      BY <1>1, <2>1 DEF Merge
    <2>2. CASE Fetch(s) \/ UpdateSubmodules(s)
      BY <1>1, <2>2 DEF Fetch, UpdateSubmodules, primary
    <2>3. CASE ~ Merge(s) /\ ~ Fetch(s) /\ ~ UpdateSubmodules(s)
      BY <1>1, <1>2, <2>3 DEF SyncStep, primary, Start, ReadLayout, ReadStatus, RegisteredHead,
         FetchedHead, FetchedOrigin, Relation, ReadAfter, Recheck, ReadAdvanced, PinnedHead,
         RefetchedOrigin, CheckSubmodules, FinalHead, Succeed, Exit, FinalOrigin, Converged, Fail
    <2> QED
      BY <2>1, <2>2, <2>3
  <1>3. ASSUME NEW s \in Runs, SyncStep(s) \/ Fail(s)
        PROVE  faults' \in 0 .. MaxFaults
    <2>1. CASE Fail(s)
      BY <1>1, <2>1 DEF Fail, Disturb
    <2>2. CASE SyncStep(s)
      BY <1>1, <2>2 DEF SyncStep, Start, ReadLayout, ReadStatus, RegisteredHead, Fetch, Merge,
         FetchedHead, FetchedOrigin, Relation, ReadAfter, Recheck, ReadAdvanced, PinnedHead,
         RefetchedOrigin, CheckSubmodules, FinalHead, Succeed, Exit, FinalOrigin, Converged,
         UpdateSubmodules
    <2> QED
      BY <1>3, <2>1, <2>2
  <1>4. CASE RemoteMerge \/ RemoteRewrite \/ OtherFetch
    BY <1>1, <1>4 DEF RemoteMerge, RemoteRewrite, OtherFetch, Disturb, primary
  <1>5. CASE Edit
    <2>1. dirty' \in BOOLEAN
      BY <1>5 DEF Edit
    <2>2. remote' = remote /\ tracking' = tracking /\ head' = head /\ pins' = pins /\ faults' \in 0 .. MaxFaults
      BY <1>1, <1>5 DEF Edit, Disturb
    <2> QED
      BY <1>1, <2>1, <2>2
  <1>6. CASE LocalCommit
    <2>1. /\ remote' = remote /\ tracking' = tracking /\ dirty' = dirty /\ pins' = pins
          /\ faults' \in 0 .. MaxFaults /\ head' \in Commits /\ Contains(head', head)
      BY <1>1, <1>6 DEF LocalCommit, Disturb
    <2> QED
      BY <1>1, <2>1
  <1> QED
    BY <1>1, <1>2, <1>3, <1>4, <1>5, <1>6 DEF Next

(* What any step does to the histories.                                    *)
LEMMA HistoriesMove ==
  ASSUME TypeOK, Next, NEW r \in Runs
  PROVE  /\ settled' \in [Runs -> SUBSET Commits]
         /\ settled'[r] \subseteq settled[r] \cup {head'}
         /\ ~ ReadLayout(r) =>
              /\ settled[r] \subseteq settled'[r]
              /\ (Pinned' => ((Pinned /\ head' = head) \/ head' \in settled'[r]))
  <1>1. settled \in [Runs -> SUBSET Commits] /\ head \in Commits /\ head' \in Commits
    BY PrimaryMoves DEF TypeOK
  <1>2. CASE Settle
    BY <1>1, <1>2 DEF Settle, Here
  <1>3. CASE \E s \in Runs : ReadLayout(s)
    <2>1. PICK s \in Runs : ReadLayout(s)
      BY <1>3
    <2>2. /\ settled' = [settled EXCEPT ![s] = Here] /\ Here \subseteq {head}
          /\ head' = head /\ (Pinned' <=> Pinned)
      BY <2>1 DEF ReadLayout, Here, primary, Pinned
    <2>3. settled' \in [Runs -> SUBSET Commits]
      BY <1>1, <2>2
    <2>4. r # s => settled'[r] = settled[r]
      BY <1>1, <2>2
    <2>5. r = s => settled'[r] = Here
      BY <1>1, <2>2
    <2> QED
      BY <2>1, <2>2, <2>3, <2>4, <2>5
  <1>4. CASE UNCHANGED <<primary, settled>>
    BY <1>1, <1>4 DEF primary, Pinned
  <1>5. ASSUME NEW s \in Runs, SyncStep(s) \/ Fail(s)
        PROVE  Settle \/ ReadLayout(s) \/ UNCHANGED <<primary, settled>>
    BY <1>5 DEF SyncStep, primary, Start, ReadStatus, RegisteredHead, Fetch, Merge,
       FetchedHead, FetchedOrigin, Relation, ReadAfter, Recheck, ReadAdvanced, PinnedHead,
       RefetchedOrigin, CheckSubmodules, FinalHead, Succeed, Exit, FinalOrigin, Converged,
       UpdateSubmodules, Fail
  <1>6. CASE RemoteMerge \/ RemoteRewrite \/ OtherFetch \/ Edit \/ LocalCommit
    BY <1>2, <1>4, <1>6 DEF RemoteMerge, RemoteRewrite, OtherFetch, Edit, LocalCommit
  <1> QED
    BY <1>2, <1>3, <1>4, <1>5, <1>6 DEF Next

(* A step of a run leaves the others where they are, and only Succeed      *)
(* returns.                                                                *)
LEMMA OneMoves ==
  ASSUME TypeOK, NEW s \in Runs, SyncStep(s) \/ Fail(s)
  PROVE  /\ \A r \in Runs \ {s} : job'[r] = job[r]
         /\ Succeed(s) \/ job'[s].at # "returned"
  <1>1. /\ job \in [Runs -> Run] /\ job[s] \in Run
        /\ \A next : Become(s, next) => job'[s] = next
    BY DEF TypeOK, Become
  <1>2. \A r \in Runs \ {s} : job'[r] = job[r]
    BY <1>1 DEF Become, SyncStep, Check, Step, Start, ReadLayout, ReadStatus, RegisteredHead, Fetch, Merge,
       FetchedHead, FetchedOrigin, Relation, ReadAfter, Recheck, ReadAdvanced, PinnedHead,
       RefetchedOrigin, CheckSubmodules, FinalHead, Succeed, Exit, FinalOrigin, Converged,
       UpdateSubmodules, Fail
  <1> SUFFICES Succeed(s) \/ job'[s].at # "returned"
    BY <1>2
  <1>3. Idle.at # "returned" /\ FirstAttempt(s).at # "returned" /\ Retry(s).at # "returned"
    BY <1>1 DEF Idle, FirstAttempt, Retry, Run
  <1>4. CASE Start(s) \/ Exit(s) \/ Fail(s) \/ Converged(s)
    BY <1>1, <1>3, <1>4 DEF Start, Exit, Fail, Converged, Idle
  <1>5. CASE Relation(s)
    <2>1. job'[s] \in {Idle, FirstAttempt(s), [job[s] EXCEPT !.at = "forward"]}
      BY <1>1, <1>5 DEF Relation
    <2> QED
      BY <1>1, <1>3, <2>1 DEF Run
  <1>6. CASE Merge(s)
    <2>1. job'[s] \in {Idle, AfterMerge(s)} /\ At(s, {"forward", "advance", "descend", "converge"})
      BY <1>1, <1>6 DEF Merge
    <2> QED
      BY <1>1, <1>3, <2>1 DEF AfterMerge, At, Run
  <1>7. CASE Recheck(s)
    BY <1>1, <1>3, <1>7 DEF Recheck, Run
  <1>8. CASE ReadLayout(s) \/ ReadStatus(s) \/ RegisteredHead(s) \/ Fetch(s) \/ FetchedHead(s)
    BY <1>1, <1>3, <1>8 DEF ReadLayout, ReadStatus, RegisteredHead, Fetch, FetchedHead, Check,
       Step, Run
  <1>9. CASE FetchedOrigin(s) \/ ReadAfter(s) \/ ReadAdvanced(s) \/ UpdateSubmodules(s)
    BY <1>1, <1>3, <1>9 DEF FetchedOrigin, ReadAfter, ReadAdvanced, UpdateSubmodules, Step, Run
  <1>10. CASE PinnedHead(s) \/ RefetchedOrigin(s) \/ CheckSubmodules(s) \/ FinalHead(s) \/ FinalOrigin(s)
    BY <1>1, <1>3, <1>10 DEF PinnedHead, RefetchedOrigin, CheckSubmodules, FinalHead, FinalOrigin,
       Check, Step, Run
  <1> QED
    BY <1>4, <1>5, <1>6, <1>7, <1>8, <1>9, <1>10 DEF SyncStep

LEMMA NextInvariant == IInv /\ [Next]_vars => IInv'
  <1> SUFFICES ASSUME IInv, [Next]_vars PROVE IInv'
    OBVIOUS
  <1>1. TypeOK /\ \A s \in Runs : RunSound(s)
    BY DEF IInv
  <1>2. CASE UNCHANGED vars
    <2>1. TypeOK'
      BY <1>1, <1>2 DEF vars, primary, TypeOK
    <2>2. ASSUME NEW s \in Runs PROVE RunSound(s)'
      BY <1>1, <1>2 DEF vars, primary, RunSound, AfterSound, LookSound, PhaseSound, Trying,
         Synced, Updated, Looking, Looked, At, Contains, Pinned
    <2> QED
      BY <2>1, <2>2 DEF IInv
  <1>3. CASE Next
    <2>1. TypeOK'
      <3>1. job' \in [Runs -> Run]
        <4>1. CASE \E s \in Runs : SyncStep(s) \/ Fail(s)
          BY <1>1, <4>1, JobTyped
        <4>2. CASE RemoteMerge \/ RemoteRewrite \/ OtherFetch \/ Edit \/ LocalCommit
          BY <1>1, <4>2 DEF TypeOK, RemoteMerge, RemoteRewrite, OtherFetch, Edit, LocalCommit
        <4> QED
          BY <1>3, <4>1, <4>2 DEF Next
      <3>2. settled' \in [Runs -> SUBSET Commits]
        <4>1. CASE Runs = {}
          <5>1. settled' = settled \/ settled' = [s \in Runs |-> settled[s] \cup Here']
            BY <1>3, <4>1 DEF Next, Settle, RemoteMerge, RemoteRewrite, OtherFetch, Edit, LocalCommit
          <5> QED
            BY <1>1, <4>1, <5>1 DEF TypeOK
        <4>2. CASE Runs # {}
          BY <1>1, <1>3, <4>2, HistoriesMove
        <4> QED
          BY <4>1, <4>2
      <3> QED
        BY <1>1, <1>3, <3>1, <3>2, PrimaryMoves DEF TypeOK
    <2>2. ASSUME NEW r \in Runs, job'[r] = job[r], ~ ReadLayout(r)
          PROVE  RunSound(r)'
      BY <1>1, <1>3, <2>1, <2>2, OtherStep, PrimaryMoves, HistoriesMove
    <2>3. ASSUME NEW r \in Runs PROVE RunSound(r)'
      <3>1. CASE SyncStep(r) \/ Fail(r)
        BY <1>1, <2>1, <3>1, OwnStep
      <3>2. CASE ~ (SyncStep(r) \/ Fail(r))
        <4>1. ~ ReadLayout(r)
          BY <3>2 DEF SyncStep
        <4>2. job'[r] = job[r]
          BY <1>1, <1>3, <3>2, OneMoves DEF Next, RemoteMerge, RemoteRewrite, OtherFetch, Edit,
             LocalCommit
        <4> QED
          BY <2>2, <4>1, <4>2
      <3> QED
        BY <3>1, <3>2
    <2> QED
      BY <2>1, <2>3 DEF IInv
  <1> QED
    BY <1>2, <1>3

(* Every state is well formed, and every run is where its own reads and    *)
(* the moves of the others allow it to be.                                 *)
THEOREM SoundAlways == Spec => []IInv
  <1> QED
    BY InitInvariant, NextInvariant, PTL DEF Spec

(* The type invariant (TypeOK), for every commit graph, every number of    *)
(* runs and every bound on the disturbances.                               *)
THEOREM TypeInvariant == Spec => []TypeOK
  <1>1. IInv => TypeOK
    BY DEF IInv
  <1> QED
    BY <1>1, SoundAlways, PTL

-----------------------------------------------------------------------------
LEMMA InitRefines == Init => Contract!ContractInit
  <1> SUFFICES ASSUME Init PROVE Contract!ContractInit
    OBVIOUS
  <1>1. Returned = {}
    BY DEF Init, Returned, At, Idle
  <1> QED
    BY <1>1, BaseAssumption DEF Init, Contract!ContractInit

LEMMA StepRefines ==
  ASSUME IInv, IInv', Next PROVE Contract!ContractNext
  <1>1. TypeOK /\ TypeOK' /\ \A s \in Runs : RunSound(s)
    BY DEF IInv
  <1>2. CASE \E s \in Runs : Succeed(s)
    <2>1. PICK s \in Runs : Succeed(s)
      BY <1>2
    <2>2. job[s].merge \in Commits \cup {NoMerge} /\ job[s] \in Run /\ job \in [Runs -> Run]
      BY <1>1 DEF TypeOK, Run
    <2>3. /\ tracking = job[s].origin /\ job[s].after = job[s].origin
          /\ job[s].merge # NoMerge => Contains(tracking, job[s].merge)
          /\ job[s].after \in settled[s]
      BY <1>1, <2>1 DEF Succeed, HasMerge, RunSound, AfterSound, LookSound, PhaseSound, Updated, At
    <2>4. /\ job'[s].after = job[s].after /\ job'[s].merge = job[s].merge
          /\ \A r \in Runs \ {s} : job'[r] = job[r]
      BY <2>1, <2>2 DEF Succeed, Become, Idle
    <2>5. Returned' \subseteq Returned \cup {[run |-> s, after |-> tracking, merge |-> job[s].merge]}
      BY <2>3, <2>4 DEF Returned, At
    <2>6. UNCHANGED <<head, tracking, settled>>
      BY <2>1 DEF Succeed, primary
    <2>7. Contract!Report(s)
      BY <2>2, <2>3, <2>5, <2>6 DEF Contract!Report, Contract!Contains, Contains
    <2> QED
      BY <2>7 DEF Contract!ContractNext
  <1>3. CASE ~ \E s \in Runs : Succeed(s)
    <2>1. ASSUME NEW r \in Runs, At(r, {"returned"})' PROVE job'[r] = job[r]
      <3>1. CASE \E s \in Runs : SyncStep(s) \/ Fail(s)
        BY <1>1, <1>3, <2>1, <3>1, OneMoves DEF At
      <3>2. CASE RemoteMerge \/ RemoteRewrite \/ OtherFetch \/ Edit \/ LocalCommit
        BY <3>2 DEF RemoteMerge, RemoteRewrite, OtherFetch, Edit, LocalCommit
      <3> QED
        BY <3>1, <3>2 DEF Next
    <2>2. Returned' \subseteq Returned
      BY <2>1 DEF Returned, At
    <2>3. \A s \in Runs : settled'[s] \subseteq settled[s] \cup {head'}
      BY <1>1, HistoriesMove
    <2>4. Contract!Move
      BY <1>1, <2>2, <2>3, PrimaryMoves DEF Contract!Move, Contract!Contains, Contains
    <2> QED
      BY <2>4 DEF Contract!ContractNext
  <1> QED
    BY <1>2, <1>3

(* Whatever the runs, the fetches, the merges and rewrites on GitHub and   *)
(* the people at the primary checkout do between two commands, the runs    *)
(* keep BaseContract: the primary's main never leaves its history, and a   *)
(* run that reports a commit reports the origin/main, with the required    *)
(* merge in it, at which the primary was clean and pinned since its last   *)
(* look (base.go:324-343, 426-522).                                        *)
THEOREM KeepsContract == Spec => ContractSpec
  <1>1. IInv /\ IInv' /\ [Next]_vars => [Contract!ContractNext]_(Contract!contractVars)
    <2>1. CASE UNCHANGED vars
      BY <2>1 DEF vars, primary, Contract!contractVars, Returned, At
    <2>2. ASSUME IInv, IInv', Next PROVE Contract!ContractNext
      BY <2>2, StepRefines
    <2> QED
      BY <2>1, <2>2
  <1> QED
    BY <1>1, InitRefines, SoundAlways, PTL DEF Spec, ContractSpec, Contract!ContractSpec
=============================================================================
