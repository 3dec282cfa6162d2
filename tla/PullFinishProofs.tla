-------------------------- MODULE PullFinishProofs --------------------------
(***************************************************************************)
(* Proofs about PullFinish, for any issues, any number of concurrent runs  *)
(* of pr finish and pr recover, and any number of faults: the type         *)
(* invariant, that what is merged was evaluated, that only proven          *)
(* artifacts are removed, and that a success leaves nothing of the packet. *)
(***************************************************************************)
EXTENDS PullFinish, TLAPS, WellFoundedInduction

(* A head that is merged is a commit of the claim that had a passing       *)
(* evaluation in this pull request, and so had the head of evidence that   *)
(* still passes.                                                           *)
HeadsSound ==
  \A n \in Pulls :
    /\ pull[n].head # None
    /\ pull[n].state = "merged" => pull[n].head \in Commits /\ pull[n].head \in passed[n]
    /\ evidence[n].is = "passed" => evidence[n].head \in passed[n]

(* The run's own branch never holds another run's commit and outlives its  *)
(* worktree, and a remote-tracking ref is stale only when the branch is    *)
(* gone or taken over.                                                     *)
RefsSound ==
  \A i \in Issues :
    /\ local[i] # Foreign
    /\ local[i] = None => worktree[i] = "none"
    /\ remote[i] \in Commits => tracking[i] = remote[i]

(* What a run knows of its head before the merge ...                       *)
HeadSound(s) ==
  /\ At(s, {"ready", "plan", "merge", "prove"}) =>
       job[s].head # None /\ job[s].head \in passed[job[s].pull]
  /\ At(s, {"ready"}) => s \in Finishers
  /\ At(s, {"merge"}) => job[s].head \in Commits
  /\ At(s, {"layout"}) \/ (s \in Recoverers /\ At(s, {"plan"})) =>
       Mine(s).state = "merged" /\ Mine(s).head = job[s].head

(* ... and of main and the Project after it; ...                           *)
OutcomeSound(s) ==
  /\ At(s, Closing \cup Cleaning) \/ (s \in Recoverers /\ At(s, {"plan"})) => based
  /\ At(s, Cleaning) => board = "Done"

(* ... the local branches it has proven are at the evaluated claim or at   *)
(* an ancestor.                                                            *)
ProvenSound(s) ==
  At(s, {"refs", "status", "remove", "list", "push", "untrack", "locals"}) =>
    \A i \in closes : job[s].proven[i] = None \/ job[s].proven[i] \in 0 .. Proof(job[s].head)[i]

(* What a run has cleaned up stays so: neither a worktree nor a local      *)
(* branch comes back, and a claim branch only as another run's.            *)
Gone(i) == remote[i] \notin Commits /\ tracking[i] \notin Commits

CleanupSound(s) ==
  /\ At(s, {"push", "untrack"}) => job[s].todo # {}
  /\ At(s, {"untrack"}) => remote[Current(s)] \notin Commits
  /\ At(s, {"refs", "status", "remove"}) => \A i \in closes \ job[s].todo : worktree[i] = "none"
  /\ At(s, {"list", "push", "untrack", "locals", "returned"}) => \A i \in closes : worktree[i] = "none"
  /\ At(s, {"list", "push", "untrack"}) => \A i \in closes \ job[s].todo : Gone(i)
  /\ At(s, {"locals", "returned"}) => \A i \in closes : Gone(i)
  /\ At(s, {"locals"}) => \A i \in closes \ job[s].todo : local[i] = None
  /\ At(s, {"returned"}) => \A i \in closes : local[i] = None

JobSound(s) == HeadSound(s) /\ OutcomeSound(s) /\ ProvenSound(s) /\ CleanupSound(s)

IInv == TypeOK /\ HeadsSound /\ RefsSound /\ \A s \in Runs : JobSound(s)

-----------------------------------------------------------------------------
(* Constants and helpers                                                   *)

LEMMA Shared ==
  /\ 0 \in Commits /\ 1 \in Commits /\ Commits \subseteq Nat /\ MaxCommit \in Commits /\ MaxCommit \in Nat
  /\ Foreign \notin Commits /\ None \notin Commits /\ Foreign # None
  /\ Commits \subseteq Shas /\ Foreign \in Shas /\ None \in Shas
  /\ Issues \subseteq Nat /\ Primary \in Issues
  /\ \A s \in Recoverers : s \notin Finishers
  BY FinishAssumption DEF Commits, Shas

(* The least of some issues is one of them.                                *)
LEMMA LowestIn ==
  ASSUME NEW claims, claims \subseteq Issues, claims # {}
  PROVE  Lowest(claims) \in claims
  <1> DEFINE Less == {ss \in Nat \X Nat : ss[1] < ss[2]}
  <1>1. IsWellFoundedOn(Less, Nat)
    BY NatLessThanWellFounded DEF OpToRel
  <1>2. claims \subseteq Nat
    BY Shared
  <1>3. ASSUME NEW i \in Nat, NEW j \in Nat, ~ (<<j, i>> \in Less) PROVE i <= j
    BY <1>3
  <1> HIDE DEF Less
  <1>4. PICK i \in claims : \A j \in claims : ~ (<<j, i>> \in Less)
    BY <1>1, <1>2, WFMin, Zenon
  <1>5. \A j \in claims : i <= j
    BY <1>2, <1>3, <1>4
  <1> QED
    BY <1>5 DEF Lowest

LEMMA CurrentIn ==
  ASSUME TypeOK, NEW s \in Runs, job[s].todo # {}
  PROVE  Current(s) \in job[s].todo /\ Current(s) \in closes /\ Current(s) \in Issues
  <1>1. job[s].todo \subseteq closes /\ closes \subseteq Issues
    BY DEF TypeOK, Typed
  <1> QED
    BY <1>1, LowestIn DEF Current

LEMMA IdleTyped == Idle \in Job /\ Idle.at = "idle" /\ Idle.todo = {}
  <1>1. [i \in Issues |-> None] \in [Issues -> Shas]
    BY Shared
  <1> QED
    BY <1>1, Shared DEF Idle, Job, Phases, Pulls

(* A run that goes on has its next state, the others keep theirs.          *)
LEMMA Moved ==
  ASSUME TypeOK, NEW s \in Runs, NEW next \in Job, Become(s, next)
  PROVE  /\ job' \in [Runs -> Job] /\ job'[s] = next
         /\ \A r \in Runs \ {s} : job'[r] = job[r]
  BY DEF TypeOK, Typed, Become

LEMMA Stepped ==
  ASSUME TypeOK, NEW s \in Runs, NEW next \in Phases, Step(s, next)
  PROVE  /\ job' \in [Runs -> Job]
         /\ job'[s].at = next /\ job'[s].pull = job[s].pull /\ job'[s].head = job[s].head
         /\ job'[s].todo = job[s].todo /\ job'[s].proven = job[s].proven
         /\ \A r \in Runs \ {s} : job'[r] = job[r]
  <1>1. job[s] \in Job
    BY DEF TypeOK, Typed
  <1>2. [job[s] EXCEPT !.at = next] \in Job
    BY <1>1 DEF Job
  <1> QED
    BY <1>1, <1>2, Moved DEF Step, Job

LEMMA InitInvariant == Init => IInv
  <1> SUFFICES ASSUME Init PROVE IInv
    OBVIOUS
  <1>1. Typed
    <2>1. pull \in [Pulls -> Pull]
      BY Shared DEF Init, Pull
    <2>2. evidence \in [Pulls -> [is : {"none", "asked", "passed", "failed", "void"}, head : Shas]]
      BY Shared DEF Init
    <2>3. remote \in [Issues -> Shas] /\ tracking \in [Issues -> Shas] /\ local \in [Issues -> Shas]
      BY Shared DEF Init
    <2>4. job \in [Runs -> Job]
      BY IdleTyped DEF Init
    <2> QED
      BY <2>1, <2>2, <2>3, <2>4, Shared DEF Init, Typed
  <1>2. \A s \in Runs : job[s] = Idle
    BY DEF Init
  <1>3. TypeOK
    BY <1>1, <1>2, IdleTyped DEF TypeOK, KnowsMerge, At, Closing, Cleaning
  <1>4. HeadsSound /\ RefsSound
    BY Shared DEF Init, HeadsSound, RefsSound
  <1>5. ASSUME NEW s \in Runs PROVE JobSound(s)
    BY <1>2, IdleTyped DEF JobSound, HeadSound, OutcomeSound, ProvenSound, CleanupSound, At, Closing, Cleaning
  <1> QED
    BY <1>3, <1>4, <1>5 DEF IInv

-----------------------------------------------------------------------------
(* What no step undoes                                                     *)

HeadsKept ==
  \A n \in Pulls :
    /\ pull[n].state = "merged" => pull'[n].state = "merged" /\ pull'[n].head = pull[n].head
    /\ passed[n] \subseteq passed'[n]

RefsKept ==
  \A i \in Issues :
    /\ worktree[i] = "none" => worktree'[i] = "none"
    /\ local[i] = None => local'[i] = None
    /\ remote[i] \notin Commits => remote'[i] \notin Commits
    /\ Gone(i) => Gone(i)'

Kept ==
  /\ closes' = closes /\ HeadsKept /\ RefsKept
  /\ based => based'
  /\ board = "Done" => board' = "Done"

RunAction(s) ==
  RunStep(s) \/ MarkReadyFails(s) \/ SynchronizeHalfway(s) \/ DeleteRemoteFails(s) \/ Fail(s)

(* Which commands of a run move what.                                      *)
LEMMA RunFrame ==
  ASSUME NEW s \in Runs, RunAction(s)
  PROVE  /\ closes' = closes /\ evidence' = evidence /\ passed' = passed
         /\ \/ pull' = pull
            \/ MarkReady(s) \/ MarkReadyFails(s) \/ CloseDraft(s) \/ CreateReplacement(s)
            \/ CreateFails(s) \/ ReopenDraft(s) \/ MergePull(s)
         /\ issue' = issue \/ issue' = "CLOSED"
         /\ board' = board \/ board' = "Done"
         /\ based' = based \/ based' = TRUE
         /\ primary' = primary \/ primary' = "stale"
         /\ remote' = remote \/ DeleteRemote(s) \/ DeleteRemoteFails(s)
         /\ tracking' = tracking \/ StartFinish(s) \/ DeleteRemote(s) \/ DeleteTracking(s)
         /\ local' = local \/ DeleteLocal(s)
         /\ worktree' = worktree \/ RemoveWorktree(s)
         /\ faults' = faults \/ faults' = faults + 1
  BY DEF RunAction, RunStep, Fail, Disturb, outcome, artifacts,
         StartFinish, ValidateFinish, MarkReady, MarkReadyFails, CloseDraft, CreateReplacement,
         CreateFails, ReopenDraft, PreparePlan, MergePull, MergeFails, ProveMerged, StartRecover,
         ReadMerged, ReadLayout, Synchronize, SynchronizeHalfway, PlanRecovery, ReadIssue, CloseIssue, RereadIssue,
         SetDone, Inspect, CheckRefs, CheckWorktrees, RemoveWorktree, RemovedWorktrees, ListRemote,
         DeleteRemote, DeleteRemoteFails, DeleteTracking, CheckLocals, DeleteLocal, Succeed, Exit

(* A merge binds the evaluated head, and nothing reopens a merged one.     *)
LEMMA RunPulls ==
  ASSUME IInv, NEW s \in Runs, RunAction(s)
  PROVE  pull' \in [Pulls -> Pull] /\ HeadsSound' /\ HeadsKept
  <1> USE DEF Mine, Mergeable
  <1>1. pull \in [Pulls -> Pull] /\ HeadsSound /\ job[s] \in Job /\ JobSound(s)
        /\ remote[Primary] \in Shas /\ evidence' = evidence /\ passed' = passed
    BY RunFrame, Shared DEF IInv, TypeOK, Typed
  <1>2. CASE pull' = pull
    BY <1>1, <1>2 DEF HeadsSound, HeadsKept
  <1>3. CASE MarkReady(s) \/ MarkReadyFails(s)
    <2>1. \E draft \in BOOLEAN : pull' = [pull EXCEPT ![job[s].pull].draft = draft]
      BY <1>3 DEF MarkReady, MarkReadyFails
    <2> QED
      BY <1>1, <2>1 DEF HeadsSound, HeadsKept, Job, Pull
  <1>4. CASE CloseDraft(s)
    <2> DEFINE n == job[s].pull
    <2>1. n \in Pulls /\ pull[n].state \in {"none", "open", "closed", "merged"}
      BY <1>1 DEF Job, Pull
    <2>2. \E state \in {"closed", "merged"} :
            /\ pull' = [pull EXCEPT ![n].state = state]
            /\ state = "merged" <=> pull[n].state = "merged"
      BY <1>1, <1>4, <2>1 DEF CloseDraft
    <2> QED
      BY <1>1, <2>1, <2>2 DEF HeadsSound, HeadsKept, Pull
  <1>5. CASE CreateReplacement(s) \/ CreateFails(s)
    <2>1. pull' = pull \/ (pull' = Created /\ Creatable)
      <3>1. CASE CreateReplacement(s)
        BY <3>1 DEF CreateReplacement
      <3>2. CASE CreateFails(s)
        <4>1. pull' \in {pull} \cup (IF Creatable THEN {Created} ELSE {})
          BY <3>2 DEF CreateFails
        <4> QED
          BY <4>1
      <3> QED
        BY <1>5, <3>1, <3>2
    <2>2. CASE pull' = Created /\ Creatable
      <3>1. [state |-> "open", draft |-> FALSE, head |-> remote[Primary]] \in Pull
        BY <1>1 DEF Pull
      <3>2. pull' = [pull EXCEPT ![2] = [state |-> "open", draft |-> FALSE, head |-> remote[Primary]]]
            /\ pull[2].state = "none" /\ remote[Primary] # None /\ 2 \in Pulls
        BY <2>2 DEF Creatable, Created, Pulls
      <3> QED
        BY <1>1, <3>1, <3>2 DEF HeadsSound, HeadsKept
    <2> QED
      BY <1>2, <2>1, <2>2
  <1>6. CASE ReopenDraft(s)
    BY <1>1, <1>6 DEF ReopenDraft, HeadsSound, HeadsKept, Job, Pull
  <1>7. CASE MergePull(s)
    <2>1. job[s].head \in Commits /\ job[s].head \in passed[job[s].pull]
      BY <1>1, <1>7 DEF MergePull, JobSound, HeadSound, At
    <2> QED
      BY <1>1, <1>7, <2>1 DEF MergePull, HeadsSound, HeadsKept, Job, Pull
  <1> QED
    BY RunFrame, <1>2, <1>3, <1>4, <1>5, <1>6, <1>7

(* A run only removes worktrees and refs.                                  *)
LEMMA RunRefs ==
  ASSUME IInv, NEW s \in Runs, RunAction(s)
  PROVE  /\ remote' \in [Issues -> Shas] /\ tracking' \in [Issues -> Shas] /\ local' \in [Issues -> Shas]
         /\ worktree' \in [Issues -> {"none", "clean", "dirty", "locked"}]
         /\ RefsSound' /\ RefsKept
  <1>1. /\ remote \in [Issues -> Shas] /\ tracking \in [Issues -> Shas] /\ local \in [Issues -> Shas]
        /\ worktree \in [Issues -> {"none", "clean", "dirty", "locked"}]
        /\ RefsSound /\ JobSound(s) /\ job[s] \in Job
    BY DEF IInv, TypeOK, Typed
  <1>2. CASE DeleteRemote(s) \/ DeleteRemoteFails(s)
    <2>1. local' = local /\ worktree' = worktree
      BY <1>2 DEF DeleteRemote, DeleteRemoteFails
    <2>2. \/ remote' = remote /\ tracking' = tracking
          \/ remote' = [remote EXCEPT ![Current(s)] = None] /\ tracking' = [tracking EXCEPT ![Current(s)] = None]
          \/ remote' = [remote EXCEPT ![Current(s)] = None] /\ tracking' = tracking
      BY <1>2 DEF DeleteRemote, DeleteRemoteFails
    <2> QED
      BY <1>1, <2>1, <2>2, Shared DEF RefsSound, RefsKept, Gone
  <1>3. CASE StartFinish(s)
    BY <1>1, <1>3, Shared DEF StartFinish, RefsSound, RefsKept, Gone
  <1>4. CASE DeleteTracking(s)
    <2>1. Current(s) \in Issues /\ remote[Current(s)] \notin Commits
      BY <1>1, <1>4, CurrentIn DEF DeleteTracking, JobSound, CleanupSound, At, IInv
    <2>2. remote' = remote /\ local' = local /\ worktree' = worktree
          /\ (tracking' = tracking \/ tracking' = [tracking EXCEPT ![Current(s)] = None])
      BY <1>4 DEF DeleteTracking
    <2> QED
      BY <1>1, <2>1, <2>2, Shared DEF RefsSound, RefsKept, Gone
  <1>5. CASE DeleteLocal(s)
    <2> DEFINE i == Lowest(job[s].todo)
    <2>1. remote' = remote /\ tracking' = tracking /\ worktree' = worktree
          /\ \/ local' = local
             \/ local' = [local EXCEPT ![i] = None]
      BY <1>5 DEF DeleteLocal
    <2>2. job[s].todo \subseteq closes /\ closes \subseteq Issues /\ job[s].todo # {} /\ At(s, {"locals"})
      BY <1>5 DEF IInv, TypeOK, Typed, DeleteLocal
    <2>3. worktree[i] = "none"
      BY <1>1, <2>2, LowestIn DEF JobSound, CleanupSound, At
    <2> HIDE DEF i
    <2> QED
      BY <1>1, <2>1, <2>3, Shared DEF RefsSound, RefsKept, Gone
  <1>6. CASE RemoveWorktree(s)
    <2>1. remote' = remote /\ tracking' = tracking /\ local' = local
          /\ \/ worktree' = worktree
             \/ worktree' = [worktree EXCEPT ![Lowest(job[s].todo \ Last(s))] = "none"]
      BY <1>6 DEF RemoveWorktree
    <2> QED
      BY <1>1, <2>1, Shared DEF RefsSound, RefsKept, Gone
  <1>7. CASE UNCHANGED artifacts
    BY <1>1, <1>7 DEF artifacts, RefsSound, RefsKept, Gone
  <1>8. DeleteRemote(s) \/ DeleteRemoteFails(s) \/ StartFinish(s) \/ DeleteTracking(s)
        \/ DeleteLocal(s) \/ RemoveWorktree(s) \/ UNCHANGED artifacts
    BY RunFrame DEF artifacts
  <1> QED
    BY <1>2, <1>3, <1>4, <1>5, <1>6, <1>7, <1>8

(* Everything but the runs themselves is well formed after a step.         *)
SharedSound ==
  /\ closes \subseteq Issues /\ Primary \in closes
  /\ pull \in [Pulls -> Pull]
  /\ evidence \in [Pulls -> [is : {"none", "asked", "passed", "failed", "void"}, head : Shas]]
  /\ issue \in {"OPEN", "CLOSED"} /\ board \in {"Picked", "Done"} /\ based \in BOOLEAN
  /\ primary \in {"fit", "apart", "stale"}
  /\ remote \in [Issues -> Shas] /\ tracking \in [Issues -> Shas] /\ local \in [Issues -> Shas]
  /\ worktree \in [Issues -> {"none", "clean", "dirty", "locked"}]
  /\ faults \in Nat
  /\ passed \in [Pulls -> SUBSET Shas]
  /\ HeadsSound /\ RefsSound

LEMMA RunKeeps ==
  ASSUME IInv, NEW s \in Runs, RunAction(s)
  PROVE  SharedSound' /\ Kept
  <1>1. Typed
    BY DEF IInv, TypeOK
  <1>2. /\ closes' = closes /\ evidence' = evidence /\ passed' = passed
        /\ issue' = issue \/ issue' = "CLOSED"
        /\ board' = board \/ board' = "Done"
        /\ based' = based \/ based' = TRUE
        /\ primary' = primary \/ primary' = "stale"
        /\ faults' = faults \/ faults' = faults + 1
    BY RunFrame
  <1>3. board' \in {"Picked", "Done"} /\ based' \in BOOLEAN /\ faults' \in Nat /\ issue' \in {"OPEN", "CLOSED"}
    <2>1. board \in {"Picked", "Done"} /\ based \in BOOLEAN /\ faults \in Nat /\ issue \in {"OPEN", "CLOSED"}
      BY <1>1 DEF Typed
    <2>2. based' \in BOOLEAN
      BY <1>2, <2>1, Zenon
    <2>3. faults' \in Nat
      BY <1>2, <2>1
    <2> QED
      BY <1>2, <2>1, <2>2, <2>3
  <1>4. primary' \in {"fit", "apart", "stale"}
    BY <1>1, <1>2 DEF Typed
  <1> QED
    BY <1>1, <1>2, <1>3, <1>4, RunPulls, RunRefs DEF Typed, SharedSound, Kept

Outside ==
  \/ Push \/ Commit \/ Challenge \/ Record \/ Void \/ AutoClose \/ Reopen
  \/ Disorder \/ ChangePrimary \/ TakeOver

(* What others do leaves merged pull requests alone, and nobody recreates  *)
(* a worktree, a local branch or the run's claim.                          *)
LEMMA OutsideKeeps ==
  ASSUME IInv, Outside
  PROVE  SharedSound' /\ Kept /\ job' = job
  <1>1. Typed /\ HeadsSound /\ RefsSound
    BY DEF IInv, TypeOK
  <1>2. SharedSound
    BY <1>1 DEF Typed, SharedSound
  <1>3. \A event : Disturb(event) => faults' \in Nat
    BY <1>1 DEF Disturb, Typed
  <1> USE DEF outcome, artifacts
  <1>4. CASE Push
    <2> DEFINE next == remote[Primary] + 1
    <2>1. /\ remote[Primary] \in Commits /\ local[Primary] \in Commits /\ worktree[Primary] # "none"
          /\ remote' = [remote EXCEPT ![Primary] = next]
          /\ tracking' = [tracking EXCEPT ![Primary] = next]
          /\ local' = [local EXCEPT ![Primary] = next]
          /\ pull' = [n \in Pulls |-> IF pull[n].state = "open" THEN [pull[n] EXCEPT !.head = next] ELSE pull[n]]
          /\ closes' = closes /\ evidence' = evidence /\ issue' = issue /\ board' = board /\ based' = based /\ primary' = primary
          /\ worktree' = worktree /\ job' = job /\ passed' = passed /\ faults' \in Nat
      BY <1>3, <1>4, Shared DEF Push, Commits
    <2>2. next \in Commits /\ next \in Shas /\ next # None /\ next # Foreign
      BY <1>4, Shared DEF Push, Commits
    <2> HIDE DEF next
    <2>3. pull' \in [Pulls -> Pull] /\ HeadsSound' /\ HeadsKept
      BY <1>2, <2>1, <2>2 DEF SharedSound, HeadsSound, HeadsKept, Pull
    <2>4. /\ remote' \in [Issues -> Shas] /\ tracking' \in [Issues -> Shas] /\ local' \in [Issues -> Shas]
          /\ RefsSound' /\ RefsKept
      BY <1>2, <2>1, <2>2, Shared DEF SharedSound, RefsSound, RefsKept, Gone
    <2> QED
      BY <1>2, <2>1, <2>3, <2>4 DEF SharedSound, Kept
  <1>5. CASE Commit
    <2>1. \E i \in Issues : local[i] \in Commits /\ local' = [local EXCEPT ![i] = MaxCommit]
      <3>1. PICK i \in Issues : local[i] \in 0 .. MaxCommit - 1 /\ local' = [local EXCEPT ![i] = MaxCommit]
        BY <1>5 DEF Commit
      <3>2. MaxCommit \in Nat
        BY Shared
      <3>3. local[i] \in Commits
        BY <3>1, <3>2 DEF Commits
      <3> QED
        BY <3>1, <3>3
    <2>2. UNCHANGED <<closes, pull, evidence, issue, board, based, primary, remote, tracking, worktree, job, passed>>
          /\ faults' \in Nat
      BY <1>3, <1>5 DEF Commit
    <2>3. local' \in [Issues -> Shas] /\ RefsSound' /\ RefsKept
      BY <1>2, <2>1, <2>2, Shared DEF SharedSound, RefsSound, RefsKept, Gone
    <2> QED
      BY <1>2, <2>2, <2>3 DEF SharedSound, Kept, HeadsSound, HeadsKept
  <1>6. CASE Challenge
    <2>1. \E n \in Pulls : evidence' = [evidence EXCEPT ![n].is = "asked"]
      BY <1>6 DEF Challenge
    <2>2. UNCHANGED <<closes, pull, issue, board, based, primary, remote, tracking, local, worktree, job, faults, passed>>
      BY <1>6 DEF Challenge
    <2>3. evidence' \in [Pulls -> [is : {"none", "asked", "passed", "failed", "void"}, head : Shas]] /\ HeadsSound'
      BY <1>2, <2>1, <2>2 DEF SharedSound, HeadsSound
    <2> QED
      BY <1>2, <2>2, <2>3 DEF SharedSound, Kept, HeadsKept, RefsSound, RefsKept, Gone
  <1>7. CASE Record
    <2>1. PICK n \in Pulls, verdict \in {"passed", "failed"} :
            /\ evidence' = [evidence EXCEPT ![n] = [is |-> verdict, head |-> pull[n].head]]
            /\ passed' = IF verdict = "passed" THEN [passed EXCEPT ![n] = @ \cup {pull[n].head}] ELSE passed
      BY <1>7 DEF Record
    <2>2. UNCHANGED <<closes, pull, issue, board, based, primary, remote, tracking, local, worktree, job, faults>>
      BY <1>7 DEF Record
    <2>3. pull[n].head \in Shas
      BY <1>2 DEF SharedSound, Pull
    <2>4. passed' \in [Pulls -> SUBSET Shas] /\ HeadsKept
      BY <1>2, <2>1, <2>2, <2>3 DEF SharedSound, HeadsKept
    <2>5. evidence' \in [Pulls -> [is : {"none", "asked", "passed", "failed", "void"}, head : Shas]] /\ HeadsSound'
      BY <1>2, <2>1, <2>2, <2>3 DEF SharedSound, HeadsSound
    <2> QED
      BY <1>2, <2>2, <2>4, <2>5 DEF SharedSound, Kept, RefsSound, RefsKept, Gone
  <1>8. CASE Void
    <2>1. \E n \in Pulls : evidence' = [evidence EXCEPT ![n].is = "void"]
      BY <1>8 DEF Void
    <2>2. UNCHANGED <<closes, pull, issue, board, based, primary, remote, tracking, local, worktree, job, passed>>
          /\ faults' \in Nat
      BY <1>3, <1>8 DEF Void
    <2>3. evidence' \in [Pulls -> [is : {"none", "asked", "passed", "failed", "void"}, head : Shas]] /\ HeadsSound'
      BY <1>2, <2>1, <2>2 DEF SharedSound, HeadsSound
    <2> QED
      BY <1>2, <2>2, <2>3 DEF SharedSound, Kept, HeadsKept, RefsSound, RefsKept, Gone
  <1>9. CASE AutoClose \/ Reopen
    <2>1. UNCHANGED <<closes, pull, evidence, board, based, primary, remote, tracking, local, worktree, job, passed>>
          /\ faults' \in Nat /\ issue' \in {"OPEN", "CLOSED"}
      BY <1>2, <1>3, <1>9 DEF AutoClose, Reopen, SharedSound
    <2> QED
      BY <1>2, <2>1 DEF SharedSound, Kept, HeadsSound, HeadsKept, RefsSound, RefsKept, Gone
  <1>10. CASE Disorder
    <2>1. \E i \in Issues : worktree[i] = "clean" /\ worktree' \in {[worktree EXCEPT ![i] = "dirty"],
                                                                  [worktree EXCEPT ![i] = "locked"]}
      BY <1>10 DEF Disorder
    <2>2. UNCHANGED <<closes, pull, evidence, issue, board, based, primary, remote, tracking, local, job, passed>>
          /\ faults' \in Nat
      BY <1>3, <1>10 DEF Disorder
    <2>3. worktree' \in [Issues -> {"none", "clean", "dirty", "locked"}] /\ RefsSound' /\ RefsKept
      BY <1>2, <2>1, <2>2 DEF SharedSound, RefsSound, RefsKept, Gone
    <2> QED
      BY <1>2, <2>2, <2>3 DEF SharedSound, Kept, HeadsSound, HeadsKept
  <1>11. CASE TakeOver
    <2>1. \E i \in Issues : /\ remote' = [remote EXCEPT ![i] = Foreign]
                            /\ tracking' = tracking \/ tracking' = [tracking EXCEPT ![i] = Foreign]
      BY <1>11 DEF TakeOver
    <2>2. UNCHANGED <<closes, pull, evidence, issue, board, based, primary, local, worktree, job, passed>>
          /\ faults' \in Nat
      BY <1>3, <1>11 DEF TakeOver
    <2>3. remote' \in [Issues -> Shas] /\ tracking' \in [Issues -> Shas] /\ RefsSound' /\ RefsKept
      BY <1>2, <2>1, <2>2, Shared DEF SharedSound, RefsSound, RefsKept, Gone
    <2> QED
      BY <1>2, <2>2, <2>3 DEF SharedSound, Kept, HeadsSound, HeadsKept
  <1>12. CASE ChangePrimary
    <2>1. UNCHANGED <<closes, pull, evidence, issue, board, based, remote, tracking, local, worktree, job, passed>>
          /\ faults' \in Nat /\ primary' \in {"fit", "apart", "stale"}
      BY <1>3, <1>12 DEF ChangePrimary
    <2> QED
      BY <1>2, <2>1 DEF SharedSound, Kept, HeadsSound, HeadsKept, RefsSound, RefsKept, Gone
  <1> QED
    BY <1>4, <1>5, <1>6, <1>7, <1>8, <1>9, <1>10, <1>11, <1>12 DEF Outside

(* What a run knows outlasts the steps of everyone else.                   *)
RunSound(s) == KnowsMerge(s) /\ job[s].todo \subseteq closes /\ JobSound(s)

LEMMA OtherSound ==
  ASSUME IInv, Kept, NEW s \in Runs, job'[s] = job[s]
  PROVE  RunSound(s)'
  <1>1. /\ RunSound(s) /\ closes' = closes /\ closes \subseteq Issues
        /\ job[s].pull \in Pulls /\ job[s].todo \subseteq Issues
    BY DEF IInv, TypeOK, Typed, RunSound, Kept, Job
  <1>2. (KnowsMerge(s) /\ job[s].todo \subseteq closes)'
    BY <1>1 DEF RunSound, KnowsMerge, At, Mine, Kept, HeadsKept
  <1>3. HeadSound(s)'
    BY <1>1 DEF RunSound, JobSound, HeadSound, At, Mine, Kept, HeadsKept
  <1>4. OutcomeSound(s)'
    BY <1>1 DEF RunSound, JobSound, OutcomeSound, At, Kept
  <1>5. ProvenSound(s)'
    BY <1>1 DEF RunSound, JobSound, ProvenSound, At, Proof
  <1>6. CleanupSound(s)'
    <2>1. job[s].todo # {} => Current(s) \in Issues
      BY CurrentIn DEF IInv
    <2>2. Current(s)' = Current(s)
      BY DEF Current
    <2>3. \A i \in Issues : Gone(i) => Gone(i)'
      BY DEF Kept, RefsKept
    <2> HIDE DEF Current, Gone
    <2> QED
      BY <1>1, <2>1, <2>2, <2>3 DEF RunSound, JobSound, CleanupSound, At, Kept, RefsKept
  <1> QED
    BY <1>2, <1>3, <1>4, <1>5, <1>6 DEF RunSound, JobSound

-----------------------------------------------------------------------------
(* What the commands of a run establish                                    *)

OwnSound(s) ==
  /\ job' \in [Runs -> Job] /\ \A r \in Runs \ {s} : job'[r] = job[r]
  /\ RunSound(s)'

LEMMA Ended ==
  ASSUME TypeOK, NEW s \in Runs, Become(s, Idle)
  PROVE  OwnSound(s)
  <1>1. /\ job' \in [Runs -> Job] /\ job'[s] = Idle
        /\ \A r \in Runs \ {s} : job'[r] = job[r]
    BY Moved, IdleTyped
  <1> QED
    BY <1>1, IdleTyped DEF OwnSound, RunSound, KnowsMerge, JobSound, HeadSound, OutcomeSound, ProvenSound,
                           CleanupSound, At, Closing, Cleaning

(* What a run knows in the state it goes on from.                          *)
LEMMA Known ==
  ASSUME IInv, NEW s \in Runs
  PROVE  /\ TypeOK /\ HeadsSound /\ RefsSound /\ RunSound(s) /\ job[s] \in Job
         /\ job[s].pull \in Pulls /\ job[s].head \in Shas /\ job[s].todo \subseteq Issues
         /\ closes \subseteq Issues /\ Primary \in closes
  BY DEF IInv, TypeOK, Typed, RunSound, Job

LEMMA BeforeMerge ==
  ASSUME IInv, Kept, NEW s \in Runs,
         \/ MarkReady(s) \/ MarkReadyFails(s) \/ CloseDraft(s) \/ CreateFails(s)
         \/ PreparePlan(s) \/ MergePull(s) \/ MergeFails(s)
  PROVE  OwnSound(s)
  <1>1. CASE Become(s, Idle)
    BY <1>1, Ended, Known
  <1>2. ASSUME NEW next \in {"plan", "close", "create", "reopen", "merge", "prove"}, Step(s, next),
               /\ next = "plan" => s \notin Recoverers
               /\ next \in {"plan", "prove"} => job[s].head # None /\ job[s].head \in passed[job[s].pull]
               /\ next = "merge" => /\ job[s].head \in Commits
                                    /\ job[s].head # None /\ job[s].head \in passed[job[s].pull]
        PROVE  OwnSound(s)
    <2>1. next \in Phases
      BY <1>2 DEF Phases
    <2>2. /\ job' \in [Runs -> Job]
          /\ job'[s].at = next /\ job'[s].pull = job[s].pull /\ job'[s].head = job[s].head
          /\ job'[s].todo = job[s].todo /\ job'[s].proven = job[s].proven
          /\ \A r \in Runs \ {s} : job'[r] = job[r]
      BY <1>2, <2>1, Stepped, Known
    <2>3. job[s].head \in passed[job[s].pull] => job[s].head \in passed'[job[s].pull]
      BY Known DEF Kept, HeadsKept
    <2>4. (KnowsMerge(s) /\ job[s].todo \subseteq closes)'
      BY <1>2, <2>2, Known DEF RunSound, Kept, KnowsMerge, At, Closing, Cleaning
    <2>5. HeadSound(s)'
      BY <1>2, <2>2, <2>3 DEF HeadSound, At
    <2>6. (OutcomeSound(s) /\ ProvenSound(s) /\ CleanupSound(s))'
      BY <1>2, <2>2 DEF OutcomeSound, ProvenSound, CleanupSound, At, Closing, Cleaning
    <2> QED
      BY <2>2, <2>4, <2>5, <2>6 DEF OwnSound, RunSound, JobSound
  <1>3. HeadSound(s) /\ job[s].pull \in Pulls
    BY Known DEF RunSound, JobSound
  <1>4. CASE MarkReady(s)
    BY <1>2, <1>3, <1>4, Shared DEF MarkReady, HeadSound, At
  <1>5. CASE MarkReadyFails(s) \/ CloseDraft(s) \/ CreateFails(s)
    BY <1>2, <1>5 DEF MarkReadyFails, CloseDraft, CreateFails
  <1>6. CASE PreparePlan(s)
    <2>1. local[Primary] \in Shas /\ local[Primary] # Foreign
      BY Known, Shared DEF TypeOK, Typed, RefsSound
    <2>2. job[s].head # None /\ job[s].head \in passed[job[s].pull]
      BY <1>3, <1>6 DEF PreparePlan, HeadSound, At
    <2>3. CASE local[Primary] = job[s].head
      <3>1. job[s].head \in Commits
        BY <2>1, <2>2, <2>3 DEF Shas
      <3> QED
        BY <1>1, <1>2, <1>6, <2>2, <3>1 DEF PreparePlan, Check
    <2>4. CASE local[Primary] # job[s].head
      BY <1>1, <1>6, <2>4 DEF PreparePlan, Check
    <2> QED
      BY <2>3, <2>4
  <1>7. CASE MergePull(s) \/ MergeFails(s)
    BY <1>2, <1>3, <1>7 DEF MergePull, MergeFails, HeadSound, At
  <1> QED
    BY <1>4, <1>5, <1>6, <1>7

(* A run starts knowing nothing, and learns the head from the pull request *)
(* it reads: a finishing run that the evaluation passes, a recovering run  *)
(* that it is merged.                                                      *)
LEMMA Starting ==
  ASSUME IInv, Kept, NEW s \in Runs, StartFinish(s) \/ StartRecover(s)
  PROVE  OwnSound(s)
  <1>1. PICK n \in Pulls : Become(s, [Idle EXCEPT !.at = "view", !.pull = n])
    BY DEF StartFinish, StartRecover
  <1> DEFINE next == [Idle EXCEPT !.at = "view", !.pull = n]
  <1>2. next \in Job /\ next.at = "view" /\ next.todo = {}
    BY IdleTyped DEF Job, Phases
  <1> HIDE DEF next
  <1>3. /\ job' \in [Runs -> Job] /\ job'[s].at = "view" /\ job'[s].todo = {}
        /\ \A r \in Runs \ {s} : job'[r] = job[r]
    BY <1>1, <1>2, Moved, Known DEF next
  <1> QED
    BY <1>3 DEF OwnSound, RunSound, KnowsMerge, JobSound, HeadSound, OutcomeSound, ProvenSound,
                CleanupSound, At, Closing, Cleaning

LEMMA Reading ==
  ASSUME IInv, Kept, NEW s \in Runs, ValidateFinish(s) \/ ReadMerged(s) \/ ReadLayout(s)
  PROVE  OwnSound(s)
  <1> DEFINE n == job[s].pull
  <1>1. /\ job[s] \in Job /\ n \in Pulls /\ pull[n] \in Pull /\ pull[n].head # None
        /\ RunSound(s) /\ HeadsSound /\ closes' = closes /\ closes \subseteq Issues
    BY Known DEF TypeOK, Typed, HeadsSound, Kept
  <1>2. ASSUME NEW next \in Job, Become(s, next), next.pull = n, next.todo = job[s].todo, next.head # None,
               \/ next.at \in {"ready", "plan"} /\ s \in Finishers /\ next.head \in passed[n]
               \/ next.at \in {"layout", "sync"} /\ Mine(s).state = "merged" /\ Mine(s).head = next.head
        PROVE  OwnSound(s)
    <2>1. /\ job' \in [Runs -> Job] /\ job'[s] = next
          /\ \A r \in Runs \ {s} : job'[r] = job[r]
      BY <1>2, Moved, Known
    <2>2. (KnowsMerge(s) /\ job[s].todo \subseteq closes)'
      BY <1>1, <1>2, <2>1 DEF RunSound, KnowsMerge, At, Mine, Closing, Cleaning, Kept, HeadsKept
    <2>3. HeadSound(s)'
      BY <1>1, <1>2, <2>1, Shared DEF HeadSound, At, Mine, Kept, HeadsKept
    <2>4. (OutcomeSound(s) /\ ProvenSound(s) /\ CleanupSound(s))'
      BY <1>2, <2>1, Shared DEF OutcomeSound, ProvenSound, CleanupSound, At, Closing, Cleaning
    <2> QED
      BY <2>1, <2>2, <2>3, <2>4 DEF OwnSound, RunSound, JobSound
  <1>3. CASE Become(s, Idle)
    BY <1>3, Ended, Known
  <1>4. CASE ValidateFinish(s)
    <2> DEFINE next == [job[s] EXCEPT !.head = Mine(s).head, !.at = IF Mine(s).draft THEN "ready" ELSE "plan"]
    <2>1. next \in Job /\ next.pull = n /\ next.todo = job[s].todo /\ next.head = pull[n].head
          /\ next.at \in {"ready", "plan"}
      BY <1>1 DEF Job, Phases, Mine, Pull
    <2>2. Passing(n) => pull[n].head \in passed[n]
      BY <1>1 DEF Passing, HeadsSound
    <2>3. s \in Finishers /\ (Become(s, Idle) \/ (Passing(n) /\ Become(s, next)))
      BY <1>4 DEF ValidateFinish
    <2> HIDE DEF next
    <2> QED
      BY <1>1, <1>2, <1>3, <2>1, <2>2, <2>3
  <1>5. CASE ReadMerged(s)
    <2> DEFINE next == [job[s] EXCEPT !.at = "layout", !.head = Mine(s).head]
    <2>1. next \in Job /\ next.pull = n /\ next.todo = job[s].todo /\ next.head = Mine(s).head
          /\ next.at = "layout" /\ next.head # None
      BY <1>1 DEF Job, Phases, Mine, Pull
    <2>2. Become(s, Idle) \/ (Mine(s).state = "merged" /\ Become(s, next))
      BY <1>5 DEF ReadMerged
    <2> HIDE DEF next
    <2> QED
      BY <1>1, <1>2, <1>3, <2>1, <2>2
  <1>6. CASE ReadLayout(s)
    <2> DEFINE next == [job[s] EXCEPT !.at = "sync", !.trees = {i \in closes : worktree[i] # "none"}]
    <2>1. Mine(s).state = "merged" /\ Mine(s).head = job[s].head
      BY <1>1, <1>6 DEF ReadLayout, RunSound, JobSound, HeadSound, At
    <2>2. next \in Job /\ next.pull = n /\ next.todo = job[s].todo /\ next.head = job[s].head
          /\ next.at = "sync" /\ next.head # None
      BY <1>1, <2>1 DEF Job, Phases, Mine
    <2>3. Become(s, next)
      BY <1>6 DEF ReadLayout
    <2> HIDE DEF next
    <2> QED
      BY <1>2, <2>1, <2>2, <2>3
  <1> QED
    BY <1>4, <1>5, <1>6

(* After the merge a run goes on only with the merged head, from main to   *)
(* the issue to the Project.                                               *)
LEMMA AfterMerge ==
  ASSUME IInv, Kept, NEW s \in Runs,
         \/ ProveMerged(s) \/ Synchronize(s) \/ PlanRecovery(s)
         \/ ReadIssue(s) \/ CloseIssue(s) \/ RereadIssue(s) \/ SetDone(s)
  PROVE  OwnSound(s)
  <1> DEFINE n == job[s].pull
             Merged == Mine(s).state = "merged" /\ Mine(s).head = job[s].head
  <1>1. /\ n \in Pulls /\ HeadsSound /\ closes' = closes
        /\ RunSound(s) /\ KnowsMerge(s) /\ HeadSound(s) /\ OutcomeSound(s)
    BY Known DEF RunSound, JobSound, Kept
  <1>2. ASSUME NEW next \in {"sync", "plan", "inspect"} \cup Closing, Step(s, next), Merged,
               next # "sync" => based',
               next = "inspect" => board' = "Done",
               next = "plan" => s \in Recoverers
        PROVE  OwnSound(s)
    <2>1. next \in Phases
      BY DEF Phases, Closing, Cleaning
    <2>2. /\ job' \in [Runs -> Job]
          /\ job'[s].at = next /\ job'[s].pull = n /\ job'[s].head = job[s].head
          /\ job'[s].todo = job[s].todo /\ job'[s].proven = job[s].proven
          /\ \A r \in Runs \ {s} : job'[r] = job[r]
      BY <1>2, <2>1, Stepped, Known
    <2>3. Mine(s)'.state = "merged" /\ Mine(s)'.head = job[s].head
          /\ job[s].head # None /\ job[s].head \in passed'[n]
      BY <1>1, <1>2, <2>2 DEF Mine, Kept, HeadsKept, HeadsSound
    <2>4. (KnowsMerge(s) /\ job[s].todo \subseteq closes)'
      BY <1>1, <2>2, <2>3 DEF RunSound, KnowsMerge, At
    <2>5. HeadSound(s)'
      BY <1>2, <2>2, <2>3 DEF HeadSound, At, Closing
    <2>6. OutcomeSound(s)'
      BY <1>2, <2>2 DEF OutcomeSound, At, Closing, Cleaning
    <2>7. (ProvenSound(s) /\ CleanupSound(s))'
      BY <2>2 DEF ProvenSound, CleanupSound, At, Closing
    <2> QED
      BY <2>2, <2>4, <2>5, <2>6, <2>7 DEF OwnSound, RunSound, JobSound
  <1>3. CASE Become(s, Idle)
    BY <1>3, Ended, Known
  <1>4. CASE ProveMerged(s)
    BY <1>2, <1>3, <1>4 DEF ProveMerged, Check
  <1>5. CASE Synchronize(s)
    <2>1. Merged
      BY <1>1, <1>5 DEF Synchronize, KnowsMerge, At
    <2>2. \/ based' /\ (Step(s, "issue") \/ (Step(s, "plan") /\ s \in Recoverers))
          \/ Become(s, Idle)
      BY <1>5 DEF Synchronize, Runs
    <2> QED
      BY <1>2, <1>3, <2>1, <2>2 DEF Closing
  <1>6. CASE PlanRecovery(s)
    <2>1. Merged /\ based'
      BY <1>1, <1>6 DEF PlanRecovery, HeadSound, OutcomeSound, At, Kept
    <2>2. Step(s, "issue") \/ Become(s, Idle)
      BY <1>6 DEF PlanRecovery, Check
    <2> QED
      BY <1>2, <1>3, <2>1, <2>2 DEF Closing
  <1>7. CASE ReadIssue(s) \/ CloseIssue(s) \/ RereadIssue(s) \/ SetDone(s)
    <2>1. At(s, Closing)
      BY <1>7 DEF ReadIssue, CloseIssue, RereadIssue, SetDone, At, Closing
    <2>2. Merged /\ based'
      BY <1>1, <2>1 DEF KnowsMerge, OutcomeSound, At, Kept
    <2>3. \/ \E next \in Closing : Step(s, next)
          \/ Step(s, "inspect") /\ board' = "Done"
          \/ Become(s, Idle)
      BY <1>7 DEF ReadIssue, CloseIssue, RereadIssue, SetDone, Check, Closing
    <2> QED
      BY <1>2, <1>3, <2>2, <2>3 DEF Closing
  <1> QED
    BY <1>4, <1>5, <1>6, <1>7

(* The commands of the cleanup: each goes on with the same merge and the   *)
(* same proven branches, and adds one thing to what is gone.               *)
Proving == {"refs", "status", "remove", "list", "push", "untrack", "locals"}

LEMMA CleaningOn ==
  ASSUME IInv, Kept, NEW s \in Runs, At(s, Cleaning),
         NEW next \in Job, Become(s, next), next.at \in Cleaning \ {"inspect"},
         next.pull = job[s].pull, next.head = job[s].head, next.todo \subseteq closes,
         ProvenSound(s)', CleanupSound(s)'
  PROVE  OwnSound(s)
  <1>1. /\ job' \in [Runs -> Job] /\ job'[s] = next
        /\ \A r \in Runs \ {s} : job'[r] = job[r]
    BY Moved, Known
  <1>2. /\ job[s].pull \in Pulls /\ KnowsMerge(s) /\ OutcomeSound(s) /\ closes' = closes
    BY Known DEF RunSound, JobSound, Kept
  <1>3. (KnowsMerge(s) /\ job[s].todo \subseteq closes)'
    BY <1>1, <1>2 DEF KnowsMerge, At, Mine, Kept, HeadsKept
  <1>4. HeadSound(s)'
    BY <1>1 DEF HeadSound, At, Cleaning
  <1>5. OutcomeSound(s)'
    BY <1>1, <1>2 DEF OutcomeSound, At, Cleaning, Kept
  <1> QED
    BY <1>1, <1>3, <1>4, <1>5 DEF OwnSound, RunSound, JobSound

(* A step that only moves on, with other claims to work on, keeps what is  *)
(* proven.                                                                 *)
LEMMA CleaningMoves ==
  ASSUME IInv, Kept, NEW s \in Runs, At(s, Proving),
         NEW next \in Cleaning \ {"inspect"}, NEW claims, claims \subseteq closes,
         Work(s, next, claims),
         /\ job'[s].at = next /\ job'[s].todo = claims => CleanupSound(s)'
  PROVE  OwnSound(s)
  <1> DEFINE to == [job[s] EXCEPT !.at = next, !.todo = claims]
  <1>1. /\ job[s] \in Job /\ closes \subseteq Issues /\ closes' = closes /\ ProvenSound(s)
    BY Known DEF RunSound, JobSound, Kept
  <1>2. /\ to \in Job /\ to.at = next /\ to.pull = job[s].pull /\ to.head = job[s].head
        /\ to.todo = claims /\ to.proven = job[s].proven
    BY <1>1 DEF Job, Phases
  <1>3. Become(s, to)
    BY DEF Work
  <1> HIDE DEF to
  <1>4. job'[s] = to
    BY <1>2, <1>3, Moved, Known
  <1>5. ProvenSound(s)'
    BY <1>1, <1>2, <1>4 DEF ProvenSound, At, Proving, Proof
  <1>6. At(s, Cleaning)
    BY DEF At, Proving, Cleaning
  <1> QED
    BY <1>2, <1>3, <1>4, <1>5, <1>6, CleaningOn

LEMMA Inspecting ==
  ASSUME IInv, Kept, NEW s \in Runs, Inspect(s)
  PROVE  OwnSound(s)
  <1> DEFINE proof == Proof(job[s].head)
             to == [job[s] EXCEPT !.at = "refs", !.todo = {i \in closes : worktree[i] # "none"}, !.trees = {},
                                  !.proven = [i \in Issues |-> IF i \in closes THEN local[i] ELSE None]]
  <1>1. /\ job[s] \in Job /\ closes \subseteq Issues /\ closes' = closes
        /\ local \in [Issues -> Shas] /\ worktree' = worktree
    BY Known DEF TypeOK, Typed, Kept, Inspect, artifacts
  <1>2. /\ to \in Job /\ to.at = "refs" /\ to.pull = job[s].pull /\ to.head = job[s].head
        /\ to.todo = {i \in closes : worktree[i] # "none"}
        /\ \A i \in closes : to.proven[i] = local[i]
    <2>1. [i \in Issues |-> IF i \in closes THEN local[i] ELSE None] \in [Issues -> Shas]
      BY <1>1, Shared
    <2> QED
      BY <1>1, <2>1 DEF Job, Phases, Cleaning
  <1>3. CASE Become(s, Idle)
    BY <1>3, Ended, Known
  <1>4. CASE Become(s, to) /\ \A i \in closes : LocalProven(i, proof)
    <2> HIDE DEF to
    <2>1. job'[s] = to
      BY <1>2, <1>4, Moved, Known
    <2>2. ProvenSound(s)'
      BY <1>1, <1>2, <1>4, <2>1 DEF ProvenSound, At, LocalProven, Proof
    <2>3. CleanupSound(s)'
      BY <1>1, <1>2, <2>1 DEF CleanupSound, At
    <2>4. At(s, Cleaning)
      BY DEF Inspect, At, Cleaning
    <2> QED
      BY <1>2, <1>4, <2>2, <2>3, <2>4, CleaningOn DEF Cleaning
  <1> QED
    BY <1>3, <1>4 DEF Inspect, ArtifactsProven

LEMMA StepIsWork ==
  ASSUME IInv, NEW s \in Runs, NEW next, Step(s, next)
  PROVE  Work(s, next, job[s].todo)
  <1>1. [job[s] EXCEPT !.at = next] = [job[s] EXCEPT !.at = next, !.todo = job[s].todo]
    BY Known DEF Job
  <1> QED
    BY <1>1 DEF Step, Work

LEMMA CleaningUp ==
  ASSUME IInv, Kept, NEW s \in Runs,
         \/ CheckRefs(s) \/ CheckWorktrees(s) \/ RemoveWorktree(s) \/ RemovedWorktrees(s)
         \/ ListRemote(s) \/ DeleteRemote(s) \/ DeleteTracking(s) \/ DeleteLocal(s)
  PROVE  OwnSound(s)
  <1> DEFINE claims == job[s].todo
  <1>1. /\ claims \subseteq closes /\ closes' = closes /\ closes \subseteq Issues /\ claims \subseteq Issues
        /\ CleanupSound(s) /\ RefsKept
        /\ remote \in [Issues -> Shas] /\ tracking \in [Issues -> Shas] /\ local \in [Issues -> Shas]
        /\ worktree \in [Issues -> {"none", "clean", "dirty", "locked"}]
    BY Known DEF TypeOK, Typed, RunSound, JobSound, Kept
  <1>2. CASE Become(s, Idle)
    BY <1>2, Ended, Known
  <1>3. CASE (CheckRefs(s) \/ CheckWorktrees(s)) /\ ~ Become(s, Idle)
    <2>1. PICK next \in {"status", "remove"} : Step(s, next)
      BY <1>3 DEF CheckRefs, CheckWorktrees, Check
    <2>2. At(s, {"refs", "status"})
      BY <1>3 DEF CheckRefs, CheckWorktrees, At
    <2>3. ASSUME job'[s].at = next, job'[s].todo = claims PROVE CleanupSound(s)'
      BY <1>1, <2>1, <2>2, <2>3 DEF CleanupSound, At, RefsKept
    <2> QED
      BY <1>1, <2>1, <2>2, <2>3, StepIsWork, CleaningMoves DEF At, Proving, Cleaning
  <1>4. CASE RemoveWorktree(s) /\ ~ Become(s, Idle)
    <2> DEFINE i == Lowest(claims \ Last(s))
    <2>1. /\ At(s, {"remove"}) /\ claims # {} /\ worktree' = [worktree EXCEPT ![i] = "none"]
          /\ Work(s, "remove", claims \ {i})
      BY <1>4 DEF RemoveWorktree
    <2>2. i \in Issues
      <3>1. claims \ Last(s) # {}
        BY <2>1 DEF Last
      <3> QED
        BY <1>1, <3>1, LowestIn
    <2> HIDE DEF i
    <2>3. ASSUME job'[s].at = "remove", job'[s].todo = claims \ {i} PROVE CleanupSound(s)'
      BY <1>1, <2>1, <2>2, <2>3 DEF CleanupSound, At, RefsKept
    <2> QED
      BY <1>1, <2>1, <2>3, CleaningMoves DEF At, Proving, Cleaning
  <1>5. CASE RemovedWorktrees(s)
    <2>1. At(s, {"remove"}) /\ claims = {} /\ Work(s, "list", closes)
      BY <1>5 DEF RemovedWorktrees
    <2>2. ASSUME job'[s].at = "list", job'[s].todo = closes PROVE CleanupSound(s)'
      BY <1>1, <2>1, <2>2 DEF CleanupSound, At, RefsKept
    <2> QED
      BY <1>1, <2>1, <2>2, CleaningMoves DEF At, Proving, Cleaning
  <1>6. CASE ListRemote(s) /\ ~ Become(s, Idle)
    <2>1. At(s, {"list"}) /\ claims # {} /\ remote' = remote
      BY <1>6 DEF ListRemote, artifacts
    <2>2. PICK next \in {"untrack", "push"} :
            Step(s, next) /\ (next = "untrack" => remote[Current(s)] = None)
      BY <1>6 DEF ListRemote, Check
    <2>3. ASSUME job'[s].at = next, job'[s].todo = claims PROVE CleanupSound(s)'
      <3>1. s \in Runs /\ Current(s)' = Current(s)
        BY <2>3 DEF Current
      <3> HIDE DEF Current
      <3> QED
        BY <1>1, <2>1, <2>2, <2>3, <3>1, Shared DEF CleanupSound, At, RefsKept
    <2> QED
      BY <1>1, <2>1, <2>2, <2>3, StepIsWork, CleaningMoves DEF At, Proving, Cleaning
  <1>7. CASE DeleteRemote(s) /\ ~ Become(s, Idle)
    <2>1. /\ At(s, {"push"}) /\ claims # {} /\ Step(s, "untrack")
          /\ remote' = [remote EXCEPT ![Current(s)] = None]
      BY <1>1, <1>7 DEF DeleteRemote, CleanupSound, At
    <2>2. remote'[Current(s)] = None
      BY <1>1, <2>1, CurrentIn, Known
    <2>3. ASSUME job'[s].at = "untrack", job'[s].todo = claims PROVE CleanupSound(s)'
      <3>1. Current(s)' = Current(s)
        BY <2>3 DEF Current
      <3> HIDE DEF Current
      <3> QED
        BY <1>1, <2>1, <2>2, <2>3, <3>1, Shared DEF CleanupSound, At, RefsKept
    <2> QED
      BY <1>1, <2>1, <2>3, StepIsWork, CleaningMoves DEF At, Proving, Cleaning
  <1>8. CASE DeleteTracking(s) /\ ~ Become(s, Idle)
    <2>0. PICK i : i = Current(s)
      OBVIOUS
    <2>1. /\ At(s, {"untrack"}) /\ tracking' = [tracking EXCEPT ![i] = None] /\ remote' = remote
          /\ Work(s, "list", claims \ {i})
      BY <1>8, <2>0 DEF DeleteTracking, Deleted
    <2>2. i \in Issues /\ remote[i] \notin Commits
      BY <1>1, <2>0, <2>1, CurrentIn, Known DEF CleanupSound, At
    <2>3. Gone(i)'
      BY <1>1, <2>1, <2>2, Shared DEF Gone
    <2>4. ASSUME job'[s].at = "list", job'[s].todo = claims \ {i} PROVE CleanupSound(s)'
      BY <1>1, <2>1, <2>2, <2>3, <2>4 DEF CleanupSound, At, RefsKept
    <2> QED
      BY <1>1, <2>1, <2>4, CleaningMoves DEF At, Proving, Cleaning
  <1>9. CASE DeleteLocal(s) /\ ~ Become(s, Idle)
    <2> DEFINE i == Lowest(claims)
    <2>1. /\ At(s, {"locals"}) /\ claims # {} /\ local' = [local EXCEPT ![i] = None]
          /\ Work(s, "locals", claims \ {i})
      BY <1>9 DEF DeleteLocal
    <2>2. i \in Issues
      BY <1>1, <2>1, LowestIn
    <2> HIDE DEF i
    <2>3. ASSUME job'[s].at = "locals", job'[s].todo = claims \ {i} PROVE CleanupSound(s)'
      BY <1>1, <2>1, <2>2, <2>3 DEF CleanupSound, At, RefsKept
    <2> QED
      BY <1>1, <2>1, <2>3, CleaningMoves DEF At, Proving, Cleaning
  <1> QED
    BY <1>2, <1>3, <1>4, <1>5, <1>6, <1>7, <1>8, <1>9

(* The local branches go last; then nothing is left.                       *)
LEMMA CleaningLast ==
  ASSUME IInv, Kept, NEW s \in Runs, CheckLocals(s) \/ Succeed(s)
  PROVE  OwnSound(s)
  <1>1. /\ closes' = closes /\ closes \subseteq Issues /\ job[s] \in Job /\ job[s].todo \subseteq closes
        /\ CleanupSound(s) /\ ProvenSound(s) /\ RefsKept /\ local \in [Issues -> Shas] /\ local' = local
    BY Known DEF TypeOK, Typed, RunSound, JobSound, Kept, CheckLocals, Succeed, artifacts
  <1>2. CASE Become(s, Idle)
    BY <1>2, Ended, Known
  <1>3. CASE CheckLocals(s) /\ ~ Become(s, Idle)
    <2> DEFINE to == [job[s] EXCEPT !.at = "locals", !.todo = {i \in closes : local[i] # None}]
    <2>1. At(s, {"list"}) /\ job[s].todo = {} /\ Become(s, to)
      BY <1>3 DEF CheckLocals
    <2>2. /\ to \in Job /\ to.at = "locals" /\ to.pull = job[s].pull /\ to.head = job[s].head
          /\ to.todo = {i \in closes : local[i] # None} /\ to.proven = job[s].proven
      BY <1>1 DEF Job, Phases, Cleaning
    <2> HIDE DEF to
    <2>3. job'[s] = to
      BY <2>1, <2>2, Moved, Known
    <2>4. CleanupSound(s)'
      BY <1>1, <2>1, <2>2, <2>3 DEF CleanupSound, At, RefsKept
    <2>5. ProvenSound(s)'
      BY <1>1, <2>1, <2>2, <2>3 DEF ProvenSound, At, Proof
    <2> QED
      BY <2>1, <2>2, <2>4, <2>5, CleaningOn DEF At, Cleaning
  <1>4. CASE Succeed(s)
    <2> DEFINE to == [Idle EXCEPT !.at = "returned", !.pull = job[s].pull, !.head = job[s].head]
    <2>1. At(s, {"locals"}) /\ job[s].todo = {} /\ Become(s, to)
      BY <1>4 DEF Succeed
    <2>2. /\ to \in Job /\ to.at = "returned" /\ to.pull = job[s].pull /\ to.head = job[s].head
          /\ to.todo = {}
      BY <1>1, IdleTyped DEF Job, Phases, Cleaning
    <2> HIDE DEF to
    <2>3. job'[s] = to
      BY <2>1, <2>2, Moved, Known
    <2>4. CleanupSound(s)' /\ ProvenSound(s)'
      BY <1>1, <2>1, <2>2, <2>3 DEF CleanupSound, ProvenSound, At, RefsKept
    <2> QED
      BY <2>1, <2>2, <2>4, CleaningOn DEF At, Cleaning
  <1>5. CheckLocals(s) \/ Succeed(s)
    OBVIOUS
  <1> QED
    BY <1>2, <1>3, <1>4, <1>5

LEMMA OwnStep ==
  ASSUME IInv, Kept, NEW s \in Runs, RunAction(s)
  PROVE  OwnSound(s)
  <1>1. CASE CreateReplacement(s) \/ ReopenDraft(s) \/ Exit(s) \/ Fail(s) \/ SynchronizeHalfway(s)
        \/ DeleteRemoteFails(s)
    <2>1. Become(s, Idle)
      BY <1>1 DEF CreateReplacement, ReopenDraft, Exit, Fail, SynchronizeHalfway, DeleteRemoteFails
    <2> QED
      BY <2>1, Ended, Known
  <1> QED
    BY <1>1, Starting, Reading, BeforeMerge, AfterMerge, Inspecting, CleaningUp, CleaningLast
       DEF RunAction, RunStep

-----------------------------------------------------------------------------
(* The invariant                                                           *)

LEMMA Together ==
  ASSUME SharedSound', job' \in [Runs -> Job], \A s \in Runs : RunSound(s)'
  PROVE  IInv'
  BY DEF IInv, SharedSound, TypeOK, Typed, RunSound

LEMMA StepInvariant == IInv /\ [Next]_vars => IInv'
  <1> SUFFICES ASSUME IInv, [Next]_vars PROVE IInv'
    OBVIOUS
  <1>1. CASE UNCHANGED vars
    <2>1. /\ closes' = closes /\ pull' = pull /\ evidence' = evidence /\ issue' = issue /\ board' = board
          /\ based' = based /\ primary' = primary /\ remote' = remote /\ tracking' = tracking /\ local' = local
          /\ worktree' = worktree /\ job' = job /\ faults' = faults /\ passed' = passed
      BY <1>1 DEF vars, outcome, artifacts
    <2>2. SharedSound
      BY DEF IInv, TypeOK, Typed, SharedSound
    <2>3. SharedSound' /\ Kept
      BY <2>1, <2>2 DEF SharedSound, HeadsSound, RefsSound, Kept, HeadsKept, RefsKept, Gone
    <2>4. job' \in [Runs -> Job]
      BY <2>1 DEF IInv, TypeOK, Typed
    <2>5. ASSUME NEW r \in Runs PROVE RunSound(r)'
      BY <2>1, <2>3, OtherSound
    <2> QED
      BY <2>3, <2>4, <2>5, Together
  <1>2. ASSUME NEW s \in Runs, RunAction(s) PROVE IInv'
    <2>1. SharedSound' /\ Kept
      BY <1>2, RunKeeps
    <2>2. OwnSound(s)
      BY <1>2, <2>1, OwnStep
    <2>3. ASSUME NEW r \in Runs PROVE RunSound(r)'
      BY <2>1, <2>2, OtherSound DEF OwnSound
    <2> QED
      BY <2>1, <2>2, <2>3, Together DEF OwnSound
  <1>3. CASE Outside
    <2>1. SharedSound' /\ Kept /\ job' = job
      BY <1>3, OutsideKeeps
    <2>2. job' \in [Runs -> Job]
      BY <2>1 DEF IInv, TypeOK, Typed
    <2>3. ASSUME NEW r \in Runs PROVE RunSound(r)'
      BY <2>1, OtherSound
    <2> QED
      BY <2>1, <2>2, <2>3, Together
  <1> QED
    BY <1>1, <1>2, <1>3 DEF Next, RunAction, Outside

(* The strengthened invariant holds of every execution.                    *)
THEOREM SoundAlways == Spec => []IInv
  BY InitInvariant, StepInvariant, PTL DEF Spec

(* The state is always well typed, and a run that deletes knows the merged *)
(* head and the claims it deletes.                                         *)
THEOREM TypeCorrect == Spec => []TypeOK
  <1>1. IInv => TypeOK
    BY DEF IInv
  <1> QED
    BY SoundAlways, <1>1, PTL

(* Whatever is pushed, asked or recorded between the checks of pr finish   *)
(* and the merge, and however many runs of it there are, the merged head   *)
(* had a passing evaluation in that pull request.                          *)
THEOREM MergesEvaluated == Spec => []MergedEvaluated
  <1>1. IInv => MergedEvaluated
    BY DEF IInv, HeadsSound, MergedEvaluated
  <1> QED
    BY SoundAlways, <1>1, PTL

(* A run that reports success has left nothing of the packet, and nobody   *)
(* brings anything of it back while the report stands.                     *)
THEOREM SuccessesComplete == Spec => []SuccessComplete
  <1>1. IInv => SuccessComplete
    <2> SUFFICES ASSUME IInv, NEW s \in Runs, At(s, {"returned"}) PROVE Complete(job[s].pull)
      BY DEF SuccessComplete
    <2>1. At(s, Cleaning)
      BY DEF At, Cleaning
    <2>2. Mine(s).state = "merged" /\ based /\ board = "Done" /\ Mine(s).head \in Commits
      BY <2>1, Known DEF RunSound, JobSound, KnowsMerge, OutcomeSound, HeadsSound, At, Mine, Cleaning
    <2>3. \A i \in closes : Gone(i) /\ worktree[i] = "none" /\ local[i] = None
      BY Known DEF RunSound, JobSound, CleanupSound, At
    <2>4. \A i \in closes : Proof(Mine(s).head)[i] \in Commits
      BY <2>2, Known, Shared DEF Proof
    <2> QED
      BY <2>2, <2>3, <2>4 DEF Complete, Left, Gone, Mine
  <1> QED
    BY SoundAlways, <1>1, PTL

(* Every removal is proven by the merge the removing run knows: the lease  *)
(* of the push and the checks of the tracking ref and the local branch     *)
(* bind each to the evaluated commit, also when other runs clean up the    *)
(* same packet or the branch was taken over in between.                    *)
LEMMA RunRemoves ==
  ASSUME IInv, NEW s \in Runs, RunAction(s)
  PROVE  RemovalProven
  <1> DEFINE n == job[s].pull
             proof == Proof(job[s].head)
  <1>1. /\ n \in Pulls /\ RefsSound /\ HeadsSound /\ RunSound(s)
        /\ job[s].todo \subseteq closes /\ closes \subseteq Issues
        /\ remote \in [Issues -> Shas] /\ tracking \in [Issues -> Shas] /\ local \in [Issues -> Shas]
        /\ worktree \in [Issues -> {"none", "clean", "dirty", "locked"}]
    BY Known DEF TypeOK, Typed, RunSound
  <1>2. ASSUME At(s, Cleaning), NEW i \in closes
        PROVE  Proven(i, proof[i], n) /\ proof[i] \in Commits
    <2>1. pull[n].state = "merged" /\ pull[n].head = job[s].head /\ based /\ board = "Done"
      BY <1>1, <1>2 DEF RunSound, KnowsMerge, JobSound, OutcomeSound, At, Mine
    <2>2. pull[n].head \in passed[n] /\ pull[n].head \in Commits
      BY <1>1, <2>1 DEF HeadsSound
    <2>3. proof[i] \in Commits
      BY <1>1, <2>1, <2>2, Shared DEF Proof
    <2> QED
      BY <2>1, <2>2, <2>3 DEF Proven
  <1>3. CASE DeleteRemote(s) \/ DeleteRemoteFails(s)
    <2>1. At(s, {"push"}) /\ job[s].todo # {}
      BY <1>1, <1>3 DEF DeleteRemote, DeleteRemoteFails, RunSound, JobSound, CleanupSound, At
    <2>2. PICK i \in closes : i = Current(s)
      BY <2>1, CurrentIn, Known
    <2>3. Proven(i, proof[i], n) /\ proof[i] \in Commits
      BY <1>2, <2>1 DEF At, Cleaning
    <2>4. /\ local' = local /\ worktree' = worktree
          /\ \/ remote' = remote /\ tracking' = tracking
             \/ /\ remote[i] = proof[i] /\ remote' = [remote EXCEPT ![i] = None]
                /\ tracking' = tracking \/ tracking' = [tracking EXCEPT ![i] = None]
      BY <1>3, <2>2 DEF DeleteRemote, DeleteRemoteFails
    <2>5. remote[i] = proof[i] => tracking[i] = proof[i]
      BY <1>1, <2>3 DEF RefsSound
    <2> HIDE DEF proof
    <2> QED
      BY <1>1, <2>3, <2>4, <2>5 DEF RemovalProven
  <1>4. CASE StartFinish(s)
    <2>1. tracking' = [tracking EXCEPT ![Primary] = remote[Primary]] /\ remote' = remote
          /\ local' = local /\ worktree' = worktree
          /\ local[Primary] = remote[Primary] /\ worktree[Primary] # "none"
      BY <1>4 DEF StartFinish
    <2>2. remote[Primary] # None
      BY <1>1, <2>1, Shared DEF RefsSound
    <2> QED
      BY <1>1, <2>1, <2>2, Shared DEF RemovalProven
  <1>5. CASE DeleteTracking(s)
    <2>1. At(s, {"untrack"}) /\ job[s].todo # {}
      BY <1>1, <1>5 DEF DeleteTracking, RunSound, JobSound, CleanupSound, At
    <2>2. PICK i \in closes : i = Current(s)
      BY <2>1, CurrentIn, Known
    <2>3. Proven(i, proof[i], n)
      BY <1>2, <2>1 DEF At, Cleaning
    <2>4. /\ remote' = remote /\ local' = local /\ worktree' = worktree
          /\ \/ tracking' = tracking
             \/ tracking[i] \in {proof[i], None} /\ tracking' = [tracking EXCEPT ![i] = None]
      BY <1>5, <2>2 DEF DeleteTracking
    <2> HIDE DEF proof
    <2> QED
      BY <1>1, <2>3, <2>4 DEF RemovalProven
  <1>6. CASE DeleteLocal(s)
    <2>1. At(s, {"locals"}) /\ job[s].todo # {}
      BY <1>6 DEF DeleteLocal
    <2>2. PICK i \in closes : i = Lowest(job[s].todo)
      BY <1>1, <2>1, LowestIn
    <2>3. Proven(i, proof[i], n) /\ proof[i] \in Commits
      BY <1>2, <2>1 DEF At, Cleaning
    <2>4. job[s].proven[i] = None \/ job[s].proven[i] \in 0 .. proof[i]
      BY <1>1, <2>1 DEF RunSound, JobSound, ProvenSound, At
    <2>5. /\ remote' = remote /\ tracking' = tracking /\ worktree' = worktree
          /\ \/ local' = local
             \/ local[i] \in {job[s].proven[i], None} /\ local' = [local EXCEPT ![i] = None]
      BY <1>6, <2>2 DEF DeleteLocal
    <2> HIDE DEF proof
    <2> QED
      BY <1>1, <2>3, <2>4, <2>5 DEF RemovalProven
  <1>7. CASE RemoveWorktree(s)
    <2>1. At(s, {"remove"}) /\ job[s].todo # {}
      BY <1>7 DEF RemoveWorktree
    <2>2. job[s].todo \ Last(s) # {}
      BY <2>1 DEF Last
    <2>3. PICK i \in closes : i = Lowest(job[s].todo \ Last(s))
      BY <1>1, <2>2, LowestIn
    <2>4. Proven(i, proof[i], n) /\ proof[i] \in Commits
      BY <1>2, <2>1 DEF At, Cleaning
    <2>5. /\ remote' = remote /\ tracking' = tracking /\ local' = local
          /\ \/ worktree' = worktree
             \/ worktree[i] # "locked" /\ worktree' = [worktree EXCEPT ![i] = "none"]
      BY <1>7, <2>3 DEF RemoveWorktree
    <2> HIDE DEF proof
    <2> QED
      BY <1>1, <2>4, <2>5 DEF RemovalProven
  <1>8. CASE UNCHANGED artifacts
    BY <1>8 DEF artifacts, RemovalProven
  <1> QED
    BY <1>3, <1>4, <1>5, <1>6, <1>7, <1>8, RunFrame DEF artifacts

(* What is removed, by whichever run, was proven: its pull request is      *)
(* merged with an evaluated head that main has and the Project shows, and  *)
(* it is at the commit that evaluation bound, or a local branch at an      *)
(* ancestor.                                                               *)
THEOREM CleanupProven == Spec => CleanupIsProven
  <1>1. IInv /\ [Next]_vars => [RemovalProven]_vars
    <2> SUFFICES ASSUME IInv, Next PROVE RemovalProven
      OBVIOUS
    <2>1. CASE \E s \in Runs : RunAction(s)
      BY <2>1, RunRemoves
    <2>2. CASE Outside
      <3>1. Typed
        BY DEF IInv, TypeOK
      <3>2. CASE Push
        <4>1. PICK next \in Commits :
                /\ remote' = [remote EXCEPT ![Primary] = next] /\ tracking' = [tracking EXCEPT ![Primary] = next]
                /\ local' = [local EXCEPT ![Primary] = next] /\ worktree' = worktree
          <5>1. remote[Primary] + 1 \in Commits
            BY <3>2, Shared DEF Push, Commits
          <5> QED
            BY <3>2, <5>1 DEF Push
        <4> QED
          BY <3>1, <4>1, Shared DEF Typed, RemovalProven
      <3>3. CASE Commit
        BY <3>1, <3>3, Shared DEF Commit, Typed, RemovalProven
      <3>4. CASE TakeOver
        BY <3>1, <3>4, Shared DEF TakeOver, Typed, RemovalProven
      <3>5. CASE Disorder
        BY <3>1, <3>5 DEF Disorder, Typed, RemovalProven
      <3>6. CASE Challenge \/ Record \/ Void \/ AutoClose \/ Reopen \/ ChangePrimary
        BY <3>6 DEF Challenge, Record, Void, AutoClose, Reopen, ChangePrimary, artifacts, RemovalProven
      <3> QED
        BY <2>2, <3>2, <3>3, <3>4, <3>5, <3>6 DEF Outside
    <2> QED
      BY <2>1, <2>2 DEF Next, RunAction, Outside
  <1> QED
    BY SoundAlways, <1>1, PTL DEF Spec, CleanupIsProven
=============================================================================
