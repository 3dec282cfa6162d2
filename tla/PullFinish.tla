----------------------------- MODULE PullFinish -----------------------------
(***************************************************************************)
(* The end of a work packet (pr.go, recovery.go, cleanup.go): pr finish    *)
(* merges an evaluated pull request, then brings main up, closes the       *)
(* primary issue, sets its Project status and removes the worktrees and    *)
(* refs of its claims; pr recover does what is left of that after the      *)
(* merge.  Every step is one gh or git command with the checks around it.  *)
(* Between any two, pushes, evaluations, people and other runs go on.      *)
(***************************************************************************)
EXTENDS Naturals, FiniteSets

CONSTANTS
  Issues,     \* the issues a pull request may close, as numbers
  Primary,    \* the one whose claim branch is the head of the pull request
  MaxCommit,  \* bound on the commits of a claim branch after its marker
  Foreign,    \* the commit of another run's claim on the same branch
  None,       \* no commit: the ref does not exist
  Finishers,  \* the runs of pr finish
  Recoverers, \* the runs of pr recover
  Events,     \* what may go wrong, or others may do, in this instance
  MaxFaults   \* bound on that

ASSUME FinishAssumption ==
  /\ Issues \subseteq Nat /\ IsFiniteSet(Issues) /\ Primary \in Issues
  /\ MaxCommit \in Nat \ {0}
  /\ Foreign \notin 0 .. MaxCommit /\ None \notin 0 .. MaxCommit /\ Foreign # None
  /\ Finishers \cap Recoverers = {}
  /\ Events \subseteq {"fail", "push", "commit", "void", "reopen", "dirty", "lock", "move", "primary"}
  /\ MaxFaults \in Nat

VARIABLES
  closes,    \* the issues the pull requests close
  pull,      \* the pull request and, once it is replaced, its replacement
  evidence,  \* per pull request, its evaluation comments
  issue,     \* the primary issue
  board,     \* its Project status
  based,     \* the primary checkout's main has the merge, as base.go reported
  primary,   \* what base.go makes of the primary checkout: fit, apart or stale
  remote,    \* per issue, its claim branch on GitHub
  tracking,  \* the remote-tracking ref of that branch
  local,     \* the local branch of the run
  worktree,  \* the worktree of that branch
  job,       \* where each run is, and what it knows
  faults,    \* how much has gone wrong so far
  passed     \* history: the heads that had a passing evaluation, per pull request

artifacts == <<remote, tracking, local, worktree>>
outcome == <<issue, board, based, primary>>
vars == <<closes, pull, evidence, outcome, artifacts, job, faults, passed>>

Runs == Finishers \cup Recoverers
Pulls == {1, 2}
Commits == 0 .. MaxCommit      \* 0 is the claim marker
Shas == Commits \cup {Foreign, None}

(* A run: its next command, its pull request, the evaluated head, the      *)
(* claims still to be worked on in this phase, the claims with a worktree  *)
(* in its layout, and the local branches it has proven.                    *)
Idle == [at |-> "idle", pull |-> 1, head |-> None, todo |-> {}, trees |-> {},
         proven |-> [i \in Issues |-> None]]

Become(s, next) == job' = [job EXCEPT ![s] = next]
At(s, here) == job[s].at \in here
Step(s, next) == Become(s, [job[s] EXCEPT !.at = next])
Check(s, ok, next) == IF ok THEN Step(s, next) ELSE Become(s, Idle)
Work(s, next, claims) == Become(s, [job[s] EXCEPT !.at = next, !.todo = claims])

Mine(s) == pull[job[s].pull]

(* The commits an evaluation binds the claims to (claimProofs): the head   *)
(* for the primary; the companion's branch, which must be included in that *)
(* head, as its first commit is.                                           *)
Proof(head) == [i \in Issues |-> IF i = Primary THEN head ELSE 1]
Mergeable(n, head) == pull[n].state = "open" /\ ~ pull[n].draft /\ pull[n].head = head

(* latestEvaluationPasses and latestPassingEvaluationReceipt, and their    *)
(* counterpart at the merge boundary (mergeBoundaryEvaluationReceipt): the *)
(* latest challenge is closed by a passing receipt for the head, its       *)
(* metadata still match, and nothing was posted after the merge.           *)
Passing(n) == evidence[n] = [is |-> "passed", head |-> pull[n].head]

(* validateCompanionClaim: the companion's claim is included in the head.  *)
CompanionsIncluded == \A i \in closes \ {Primary} : remote[i] = 1

Init ==
  /\ closes \in {{Primary}, Issues}
  /\ \E draft \in BOOLEAN :
       pull = [n \in Pulls |-> [state |-> IF n = 1 THEN "open" ELSE "none", draft |-> draft, head |-> 1]]
  /\ evidence = [n \in Pulls |-> [is |-> "none", head |-> 1]]
  /\ issue = "OPEN" /\ board = "Picked" /\ based = FALSE /\ primary = "fit"
  /\ remote = [i \in Issues |-> 1] /\ tracking = remote
  /\ \E own \in {0, 1} : local = [i \in Issues |-> IF i = Primary THEN 1 ELSE own]
  /\ worktree = [i \in Issues |-> "clean"]
  /\ job = [s \in Runs |-> Idle]
  /\ faults = 0
  /\ passed = [n \in Pulls |-> {}]

Same(i, proof) == {remote[i], tracking[i]} \subseteq {proof[i], None}

-----------------------------------------------------------------------------
(* Cleanup's view of the artifacts.  A local branch is proven if it is at  *)
(* the evaluated claim or at an ancestor, its marker at the earliest       *)
(* (validateRunLocalProof).                                                *)
LocalProven(i, proof) == local[i] = None \/ local[i] \in 0 .. proof[i]

(* validateMissingClaimArtifacts: if anything is left, something of every  *)
(* claim must be, of the primary only before the recovery.                 *)
NoneMissing(present, recovering) ==
  \/ present = {}
  \/ closes \subseteq present \cup (IF recovering THEN {Primary} ELSE {})

Present(proof) == {i \in closes : proof[i] \in {remote[i], tracking[i]} \/ local[i] # None}

(* validateClaimArtifactsWithEvidence with the run-local evidence.         *)
ArtifactsProven(proof, recovering) ==
  /\ \A i \in closes : Same(i, proof) /\ LocalProven(i, proof)
  /\ NoneMissing(Present(proof), recovering)

(* validateClaimArtifacts without that evidence, as a recovery plans:      *)
(* local branches of runs are not looked at, and a worktree of one is      *)
(* leftover.                                                               *)
ArtifactsFixed(proof, trees) ==
  /\ \A i \in closes : Same(i, proof)
  /\ NoneMissing({i \in closes : proof[i] \in {remote[i], tracking[i]}}, TRUE)
  /\ trees = {}

-----------------------------------------------------------------------------
(* finishPullRequest, in the worktree of the claim, which is as pushed     *)
(* (verifyClaim): the pull request and its evaluation.                     *)
StartFinish(s) ==
  /\ s \in Finishers /\ At(s, {"idle"})
  /\ worktree[Primary] # "none" /\ local[Primary] = remote[Primary]
  /\ tracking' = [tracking EXCEPT ![Primary] = remote[Primary]]
  /\ \E n \in Pulls : pull[n].state = "open" /\ Become(s, [Idle EXCEPT !.at = "view", !.pull = n])
  /\ UNCHANGED <<closes, pull, evidence, outcome, remote, local, worktree, faults, passed>>

ValidateFinish(s) ==
  /\ s \in Finishers /\ At(s, {"view"})
  /\ Become(s, IF Mine(s).state = "open" /\ CompanionsIncluded /\ Passing(job[s].pull)
                 THEN [job[s] EXCEPT !.head = Mine(s).head, !.at = IF Mine(s).draft THEN "ready" ELSE "plan"]
                 ELSE Idle)
  /\ UNCHANGED <<closes, pull, evidence, outcome, artifacts, faults, passed>>

(* gh pr ready; when it fails, having had its effect or not, the draft is  *)
(* replaced.                                                               *)
MarkReady(s) ==
  /\ At(s, {"ready"})
  /\ pull' = [pull EXCEPT ![job[s].pull].draft = FALSE]
  /\ Step(s, "plan")
  /\ UNCHANGED <<closes, evidence, outcome, artifacts, faults, passed>>

(* What is not the work of the runs happens a bounded number of times.     *)
Disturb(event) == event \in Events /\ faults < MaxFaults /\ faults' = faults + 1

MarkReadyFails(s) ==
  /\ Disturb("fail") /\ At(s, {"ready"})
  /\ \E draft \in BOOLEAN : pull' = [pull EXCEPT ![job[s].pull].draft = draft]
  /\ Step(s, "close")
  /\ UNCHANGED <<closes, evidence, outcome, artifacts, passed>>

-----------------------------------------------------------------------------
(* replaceDraftPullRequest: the draft is closed (GitHub keeps a merge of   *)
(* another run), ...                                                       *)
CloseDraft(s) ==
  /\ At(s, {"close"})
  /\ pull' = [pull EXCEPT ![job[s].pull].state = IF @ = "merged" THEN @ ELSE "closed"]
  /\ Step(s, "create")
  /\ UNCHANGED <<closes, evidence, outcome, artifacts, faults, passed>>

(* ... its replacement is created from the same branch, with no evaluation *)
(* of its own, and the run ends asking for one; ...                        *)
Created == [pull EXCEPT ![2] = [state |-> "open", draft |-> FALSE, head |-> remote[Primary]]]
Creatable == remote[Primary] # None /\ pull[2].state = "none"

CreateReplacement(s) ==
  /\ At(s, {"create"}) /\ Creatable
  /\ pull' = Created
  /\ Become(s, Idle)
  /\ UNCHANGED <<closes, evidence, outcome, artifacts, faults, passed>>

(* ... or creation fails, after it had its effect or before, and the draft *)
(* is reopened, which GitHub refuses once it is merged or beside another   *)
(* one from the branch.                                                    *)
CreateFails(s) ==
  /\ At(s, {"create"})
  /\ IF Creatable THEN Disturb("fail") ELSE UNCHANGED faults
  /\ pull' \in {pull} \cup (IF Creatable THEN {Created} ELSE {})
  /\ Step(s, "reopen")
  /\ UNCHANGED <<closes, evidence, outcome, artifacts, passed>>

ReopenDraft(s) ==
  /\ At(s, {"reopen"})
  /\ pull' = IF Mine(s).state = "closed" /\ \A n \in Pulls : pull[n].state # "open"
               THEN [pull EXCEPT ![job[s].pull].state = "open"] ELSE pull
  /\ Become(s, Idle)
  /\ UNCHANGED <<closes, evidence, outcome, artifacts, faults, passed>>

-----------------------------------------------------------------------------
(* prepareCleanupPlan: the evaluated head is checked out here, and the     *)
(* artifacts of all claims are proven before the merge.                    *)
PreparePlan(s) ==
  /\ s \in Finishers /\ At(s, {"plan"})
  /\ Check(s, /\ local[Primary] = job[s].head /\ worktree[Primary] # "none"
              /\ ArtifactsProven(Proof(job[s].head), FALSE), "merge")
  /\ UNCHANGED <<closes, pull, evidence, outcome, artifacts, faults, passed>>

(* mergeReadyPullRequest: a squash merge bound to the evaluated head.      *)
(* Mutant: it is not bound.                                                *)
MergePullUnbound(s) ==
  /\ At(s, {"merge"})
  /\ Mine(s).state = "open" /\ ~ Mine(s).draft
  /\ pull' = [pull EXCEPT ![job[s].pull].state = "merged"]
  /\ Step(s, "prove")
  /\ UNCHANGED <<closes, evidence, outcome, artifacts, faults, passed>>

MergePull(s) ==
  /\ At(s, {"merge"})
  /\ Mergeable(job[s].pull, job[s].head)
  /\ pull' = [pull EXCEPT ![job[s].pull].state = "merged"]
  /\ Step(s, "prove")
  /\ UNCHANGED <<closes, evidence, outcome, artifacts, faults, passed>>

(* A refusal, and an answer that is lost or makes no sense, is reconciled  *)
(* with what GitHub then reports (reconcileMergeOutcome).                  *)
MergeFails(s) ==
  /\ At(s, {"merge"})
  /\ IF Mergeable(job[s].pull, job[s].head) THEN Disturb("fail") ELSE UNCHANGED faults
  /\ Step(s, "prove")
  /\ UNCHANGED <<closes, pull, evidence, outcome, artifacts, passed>>

(* proveMergedPullRequest.  Mutant: a merge request is taken for a merge.  *)
ProveMergedTrusting(s) ==
  /\ At(s, {"prove"})
  /\ Check(s, Mine(s).head = job[s].head /\ Passing(job[s].pull), "sync")
  /\ UNCHANGED <<closes, pull, evidence, outcome, artifacts, faults, passed>>

ProveMerged(s) ==
  /\ At(s, {"prove"})
  /\ Check(s, Mine(s).state = "merged" /\ Mine(s).head = job[s].head /\ Passing(job[s].pull), "sync")
  /\ UNCHANGED <<closes, pull, evidence, outcome, artifacts, faults, passed>>

-----------------------------------------------------------------------------
(* recoverPullRequest: the merge and its evaluation, then the layout.      *)
StartRecover(s) ==
  /\ s \in Recoverers /\ At(s, {"idle"})
  /\ \E n \in Pulls : pull[n].state # "none" /\ Become(s, [Idle EXCEPT !.at = "view", !.pull = n])
  /\ UNCHANGED <<closes, pull, evidence, outcome, artifacts, faults, passed>>

ReadMerged(s) ==
  /\ s \in Recoverers /\ At(s, {"view"})
  /\ Become(s, IF Mine(s).state = "merged" /\ Passing(job[s].pull)
                 THEN [job[s] EXCEPT !.at = "layout", !.head = Mine(s).head] ELSE Idle)
  /\ UNCHANGED <<closes, pull, evidence, outcome, artifacts, faults, passed>>

ReadLayout(s) ==
  /\ At(s, {"layout"})
  /\ Become(s, [job[s] EXCEPT !.at = "sync", !.trees = {i \in closes : worktree[i] # "none"}])
  /\ UNCHANGED <<closes, pull, evidence, outcome, artifacts, faults, passed>>

(* synchronizeBase with the merge required: BaseContract says what a       *)
(* success means.  It refuses, on every run, a primary checkout that is    *)
(* apart (it has changes or commits of its own, is not on main, or main    *)
(* was rewritten) or stale.                                                *)
Synchronize(s) ==
  /\ At(s, {"sync"})
  /\ IF primary = "fit"
       THEN based' = TRUE /\ Step(s, IF s \in Finishers THEN "issue" ELSE "plan")
       ELSE UNCHANGED based /\ Become(s, Idle)
  /\ UNCHANGED <<closes, pull, evidence, issue, board, primary, artifacts, faults, passed>>

(* It ends between the merge into the primary and the update of its        *)
(* submodules: it is interrupted, that update fails, or main moved under   *)
(* every attempt.  The primary is stale (BaseSync's Repairs).              *)
SynchronizeHalfway(s) ==
  /\ Disturb("fail") /\ At(s, {"sync"})
  /\ primary = "fit" /\ primary' = "stale"
  /\ Become(s, Idle)
  /\ UNCHANGED <<closes, pull, evidence, issue, board, based, artifacts, passed>>

(* prepareRecoveryCleanupPlanWithProof, from the layout read before.       *)
PlanRecovery(s) ==
  /\ s \in Recoverers /\ At(s, {"plan"})
  /\ Check(s, Cardinality(closes) > 1 => ArtifactsFixed(Proof(job[s].head), job[s].trees), "issue")
  /\ UNCHANGED <<closes, pull, evidence, outcome, artifacts, faults, passed>>

-----------------------------------------------------------------------------
(* reconcileIssueClosed: the issue is read, closed unless GitHub did, and  *)
(* read again.                                                             *)
ReadIssue(s) ==
  /\ At(s, {"issue"})
  /\ Step(s, IF issue = "CLOSED" THEN "board" ELSE "closeIssue")
  /\ UNCHANGED <<closes, pull, evidence, outcome, artifacts, faults, passed>>

CloseIssue(s) ==
  /\ At(s, {"closeIssue"})
  /\ issue' = "CLOSED"
  /\ Step(s, "reread")
  /\ UNCHANGED <<closes, pull, evidence, board, based, primary, artifacts, faults, passed>>

RereadIssue(s) ==
  /\ At(s, {"reread"})
  /\ Check(s, issue = "CLOSED", "board")
  /\ UNCHANGED <<closes, pull, evidence, outcome, artifacts, faults, passed>>

(* setIssueProjectStatus.                                                  *)
SetDone(s) ==
  /\ At(s, {"board"})
  /\ board' = "Done"
  /\ Step(s, "inspect")
  /\ UNCHANGED <<closes, pull, evidence, issue, based, primary, artifacts, faults, passed>>

-----------------------------------------------------------------------------
(* cleanupClaims: a fresh layout, with the locks of its worktrees, the     *)
(* proof of every local branch, and the artifacts, ...                     *)
Inspect(s) ==
  /\ At(s, {"inspect"})
  /\ Become(s, IF /\ ArtifactsProven(Proof(job[s].head), s \in Recoverers)
                    /\ \A i \in closes : worktree[i] # "locked"
                 THEN [job[s] EXCEPT !.at = "refs", !.todo = {i \in closes : worktree[i] # "none"},
                                     !.trees = {}, !.proven = [i \in Issues |-> IF i \in closes THEN local[i] ELSE None]]
                 ELSE Idle)
  /\ UNCHANGED <<closes, pull, evidence, outcome, artifacts, faults, passed>>

(* ... the refs once more (validateClaimRefs), the worktrees               *)
(* (validateClaimWorktrees); ...                                           *)
CheckRefs(s) ==
  /\ At(s, {"refs"})
  /\ Check(s, \A i \in closes : Same(i, Proof(job[s].head)), "status")
  /\ UNCHANGED <<closes, pull, evidence, outcome, artifacts, faults, passed>>

CheckWorktrees(s) ==
  /\ At(s, {"status"})
  /\ Check(s, \A i \in job[s].todo : worktree[i] \in {"clean", "locked"}, "remove")
  /\ UNCHANGED <<closes, pull, evidence, outcome, artifacts, faults, passed>>

(* ... then the worktrees are removed by force, the finishing run's own    *)
(* last, ...                                                               *)
Last(s) == IF s \in Finishers /\ job[s].todo # {Primary} THEN {Primary} ELSE {}
Lowest(claims) == CHOOSE i \in claims : \A j \in claims : i <= j

RemoveWorktree(s) ==
  /\ At(s, {"remove"}) /\ job[s].todo # {}
  /\ LET i == Lowest(job[s].todo \ Last(s)) IN
       IF worktree[i] \in {"clean", "dirty"}
         THEN /\ worktree' = [worktree EXCEPT ![i] = "none"]
              /\ Work(s, "remove", job[s].todo \ {i})
         ELSE Become(s, Idle) /\ UNCHANGED worktree
  /\ UNCHANGED <<closes, pull, evidence, outcome, remote, tracking, local, faults, passed>>

RemovedWorktrees(s) ==
  /\ At(s, {"remove"}) /\ job[s].todo = {}
  /\ Work(s, "list", closes)
  /\ UNCHANGED <<closes, pull, evidence, outcome, artifacts, faults, passed>>

(* ... and the claim branches, in the order of the plan: the branch is     *)
(* listed, deleted with a lease on the proven commit, and so is the        *)
(* remote-tracking ref of a branch that is gone (deleteRemoteClaim).       *)
Current(s) == IF s \in Finishers /\ Primary \in job[s].todo THEN Primary ELSE Lowest(job[s].todo)
Deleted(s) == job[s].todo \ {Current(s)}

(* Mutant: a branch that is gone already is not skipped.                   *)
ListRemotePresent(s) ==
  /\ At(s, {"list"}) /\ job[s].todo # {}
  /\ Check(s, remote[Current(s)] = Proof(job[s].head)[Current(s)], "push")
  /\ UNCHANGED <<closes, pull, evidence, outcome, artifacts, faults, passed>>

ListRemote(s) ==
  /\ At(s, {"list"}) /\ job[s].todo # {}
  /\ IF remote[Current(s)] = None THEN Step(s, "untrack")
     ELSE Check(s, remote[Current(s)] = Proof(job[s].head)[Current(s)], "push")
  /\ UNCHANGED <<closes, pull, evidence, outcome, artifacts, faults, passed>>

(* Mutant: the push has no lease.                                          *)
DeleteRemoteUnleased(s) ==
  /\ At(s, {"push"})
  /\ remote' = [remote EXCEPT ![Current(s)] = None]
  /\ tracking' = [tracking EXCEPT ![Current(s)] = None]
  /\ Step(s, "untrack")
  /\ UNCHANGED <<closes, pull, evidence, outcome, local, worktree, faults, passed>>

DeleteRemote(s) ==
  /\ At(s, {"push"})
  /\ IF remote[Current(s)] = Proof(job[s].head)[Current(s)]
       THEN /\ remote' = [remote EXCEPT ![Current(s)] = None]
            /\ tracking' = [tracking EXCEPT ![Current(s)] = None]
            /\ Step(s, "untrack")
       ELSE Become(s, Idle) /\ UNCHANGED <<remote, tracking>>
  /\ UNCHANGED <<closes, pull, evidence, outcome, local, worktree, faults, passed>>

(* The answer to the push is lost: the branch is gone on GitHub, and its   *)
(* tracking ref is still there.                                            *)
DeleteRemoteFails(s) ==
  /\ Disturb("fail") /\ At(s, {"push"})
  /\ remote[Current(s)] = Proof(job[s].head)[Current(s)]
  /\ remote' = [remote EXCEPT ![Current(s)] = None]
  /\ Become(s, Idle)
  /\ UNCHANGED <<closes, pull, evidence, outcome, tracking, local, worktree, passed>>

(* Mutant: only a branch that was listed has its tracking ref removed.     *)
DeleteTrackingSkipped(s) ==
  /\ At(s, {"untrack"})
  /\ Work(s, "list", Deleted(s))
  /\ UNCHANGED <<closes, pull, evidence, outcome, artifacts, faults, passed>>

DeleteTracking(s) ==
  /\ At(s, {"untrack"})
  /\ IF tracking[Current(s)] \in {Proof(job[s].head)[Current(s)], None}
       THEN tracking' = [tracking EXCEPT ![Current(s)] = None] /\ Work(s, "list", Deleted(s))
       ELSE Become(s, Idle) /\ UNCHANGED tracking
  /\ UNCHANGED <<closes, pull, evidence, outcome, remote, local, worktree, faults, passed>>

(* removeRunLocalRefs: the proven branches are where they were, ...        *)
CheckLocals(s) ==
  /\ At(s, {"list"}) /\ job[s].todo = {}
  /\ Become(s, IF \A i \in closes : local[i] = job[s].proven[i]
                 THEN [job[s] EXCEPT !.at = "locals", !.todo = {i \in closes : local[i] # None}] ELSE Idle)
  /\ UNCHANGED <<closes, pull, evidence, outcome, artifacts, faults, passed>>

(* ... and are deleted if they still are.                                  *)
DeleteLocal(s) ==
  /\ At(s, {"locals"}) /\ job[s].todo # {}
  /\ LET i == Lowest(job[s].todo) IN
       IF local[i] \in {job[s].proven[i], None}
         THEN local' = [local EXCEPT ![i] = None] /\ Work(s, "locals", job[s].todo \ {i})
         ELSE Become(s, Idle) /\ UNCHANGED local
  /\ UNCHANGED <<closes, pull, evidence, outcome, remote, tracking, worktree, faults, passed>>

Succeed(s) ==
  /\ At(s, {"locals"}) /\ job[s].todo = {}
  /\ Become(s, [Idle EXCEPT !.at = "returned", !.pull = job[s].pull, !.head = job[s].head])
  /\ UNCHANGED <<closes, pull, evidence, outcome, artifacts, faults, passed>>

Exit(s) ==
  /\ At(s, {"returned"})
  /\ Become(s, Idle)
  /\ UNCHANGED <<closes, pull, evidence, outcome, artifacts, faults, passed>>

(* A command fails, before or after it had its effect, or the run dies:    *)
(* nothing is undone.                                                      *)
Fail(s) ==
  /\ Disturb("fail") /\ ~ At(s, {"idle", "returned"})
  /\ Become(s, Idle)
  /\ UNCHANGED <<closes, pull, evidence, outcome, artifacts, passed>>

-----------------------------------------------------------------------------
(* The Smith pushes another commit: an open pull request follows.          *)
Push ==
  /\ Disturb("push") /\ worktree[Primary] # "none"
  /\ remote[Primary] \in 0 .. MaxCommit - 1 /\ local[Primary] \in Commits
  /\ LET next == remote[Primary] + 1 IN
       /\ remote' = [remote EXCEPT ![Primary] = next]
       /\ tracking' = [tracking EXCEPT ![Primary] = next]
       /\ local' = [local EXCEPT ![Primary] = next]
       /\ pull' = [n \in Pulls |-> IF pull[n].state = "open" THEN [pull[n] EXCEPT !.head = next] ELSE pull[n]]
  /\ UNCHANGED <<closes, evidence, outcome, worktree, job, passed>>

(* A commit that is not pushed.                                            *)
Commit ==
  /\ Disturb("commit")
  /\ \E i \in Issues :
       /\ worktree[i] # "none" /\ local[i] \in 0 .. MaxCommit - 1
       /\ local' = [local EXCEPT ![i] = MaxCommit]
  /\ UNCHANGED <<closes, pull, evidence, outcome, remote, tracking, worktree, job, passed>>

(* The Examiner is asked for a verdict, and records one for the head.      *)
Challenge ==
  /\ \E n \in Pulls :
       /\ pull[n].state = "open" /\ evidence[n].is # "asked" /\ ~ Passing(n)
       /\ evidence' = [evidence EXCEPT ![n].is = "asked"]
  /\ UNCHANGED <<closes, pull, outcome, artifacts, job, faults, passed>>

Record ==
  /\ \E n \in Pulls, verdict \in {"passed", "failed"} :
       /\ pull[n].state = "open" /\ evidence[n].is = "asked"
       /\ remote[Primary] = pull[n].head /\ CompanionsIncluded
       /\ evidence' = [evidence EXCEPT ![n] = [is |-> verdict, head |-> pull[n].head]]
       /\ passed' = IF verdict = "passed" THEN [passed EXCEPT ![n] = @ \cup {pull[n].head}] ELSE passed
  /\ UNCHANGED <<closes, pull, outcome, artifacts, job, faults>>

(* A fresh challenge on a passing head, possibly posted as the merge       *)
(* happens, or an edit of the body: the evaluation no longer proves it.    *)
Void ==
  /\ Disturb("void")
  /\ \E n \in Pulls : pull[n].state \in {"open", "merged"} /\ evidence' = [evidence EXCEPT ![n].is = "void"]
  /\ UNCHANGED <<closes, pull, outcome, artifacts, job, passed>>

(* GitHub closes the issue some time after the merge; a person reopens it. *)
AutoClose ==
  /\ issue = "OPEN" /\ \E n \in Pulls : pull[n].state = "merged"
  /\ issue' = "CLOSED"
  /\ UNCHANGED <<closes, pull, evidence, board, based, primary, artifacts, job, faults, passed>>

Reopen ==
  /\ Disturb("reopen")
  /\ issue = "CLOSED" /\ issue' = "OPEN"
  /\ UNCHANGED <<closes, pull, evidence, board, based, primary, artifacts, job, passed>>

(* A person or an agent works in a claim's worktree, or locks it.          *)
Disorder ==
  /\ \/ Disturb("dirty") /\ \E i \in Issues : worktree[i] = "clean" /\ worktree' = [worktree EXCEPT ![i] = "dirty"]
     \/ Disturb("lock") /\ \E i \in Issues : worktree[i] = "clean" /\ worktree' = [worktree EXCEPT ![i] = "locked"]
  /\ UNCHANGED <<closes, pull, evidence, outcome, remote, tracking, local, job, passed>>

(* A person leaves the primary checkout apart from main, or repairs it.    *)
ChangePrimary ==
  /\ Disturb("primary")
  /\ primary' \in {"fit", "apart"} \ {primary}
  /\ UNCHANGED <<closes, pull, evidence, issue, board, based, artifacts, job, passed>>

(* Another run takes over an expired claim: the branch now holds its       *)
(* marker.  A branch with an open pull request is left alone.              *)
TakeOver ==
  /\ Disturb("move")
  /\ \E i \in Issues :
       /\ i = Primary => \A n \in Pulls : pull[n].state # "open"
       /\ remote' = [remote EXCEPT ![i] = Foreign]
       /\ tracking' \in {tracking, [tracking EXCEPT ![i] = Foreign]}
  /\ UNCHANGED <<closes, pull, evidence, outcome, local, worktree, job, passed>>

-----------------------------------------------------------------------------
RunStep(s) ==
  \/ StartFinish(s) \/ ValidateFinish(s) \/ MarkReady(s)
  \/ CloseDraft(s) \/ CreateReplacement(s) \/ CreateFails(s) \/ ReopenDraft(s)
  \/ PreparePlan(s) \/ MergePull(s) \/ MergeFails(s) \/ ProveMerged(s)
  \/ StartRecover(s) \/ ReadMerged(s) \/ ReadLayout(s) \/ Synchronize(s) \/ PlanRecovery(s)
  \/ ReadIssue(s) \/ CloseIssue(s) \/ RereadIssue(s) \/ SetDone(s)
  \/ Inspect(s) \/ CheckRefs(s) \/ CheckWorktrees(s) \/ RemoveWorktree(s) \/ RemovedWorktrees(s)
  \/ ListRemote(s) \/ DeleteRemote(s) \/ DeleteTracking(s) \/ CheckLocals(s) \/ DeleteLocal(s)
  \/ Succeed(s) \/ Exit(s)

Next ==
  \/ \E s \in Runs : RunStep(s) \/ MarkReadyFails(s) \/ SynchronizeHalfway(s) \/ DeleteRemoteFails(s) \/ Fail(s)
  \/ Push \/ Commit \/ Challenge \/ Record \/ Void \/ AutoClose \/ Reopen
  \/ Disorder \/ ChangePrimary \/ TakeOver

Spec == Init /\ [][Next]_vars

(* A recovery that is started goes on, and pr recover is run again and     *)
(* again, on every pull request; pr finish may stop anywhere, ...          *)
RecoverySpec ==
  /\ Spec
  /\ \A s \in Recoverers : WF_vars(RunStep(s))
  /\ \A s \in Recoverers : \A n \in Pulls : SF_vars(StartRecover(s) /\ job'[s].pull = n)

(* ... or it goes on, too.                                                 *)
FairSpec == RecoverySpec /\ \A s \in Finishers : WF_vars(RunStep(s))

-----------------------------------------------------------------------------
Pull == [state : {"none", "open", "closed", "merged"}, draft : BOOLEAN, head : Shas]
Closing == {"issue", "closeIssue", "reread", "board"}
Cleaning == {"inspect", "refs", "status", "remove", "list", "push", "untrack", "locals", "returned"}
Phases == {"idle", "view", "ready", "close", "create", "reopen", "plan", "merge", "prove", "layout", "sync"}
          \cup Closing \cup Cleaning
Job == [at : Phases, pull : Pulls, head : Shas,
        todo : SUBSET Issues, trees : SUBSET Issues, proven : [Issues -> Shas]]

(* Every state is one the code can be in, and a run that deletes knows the *)
(* merged pull request and the claims it deletes (finishMergedPullRequest, *)
(* recoverPullRequest).                                                    *)
Typed ==
  /\ closes \subseteq Issues /\ Primary \in closes
  /\ pull \in [Pulls -> Pull]
  /\ evidence \in [Pulls -> [is : {"none", "asked", "passed", "failed", "void"}, head : Shas]]
  /\ issue \in {"OPEN", "CLOSED"} /\ board \in {"Picked", "Done"} /\ based \in BOOLEAN
  /\ primary \in {"fit", "apart", "stale"}
  /\ remote \in [Issues -> Shas] /\ tracking \in [Issues -> Shas] /\ local \in [Issues -> Shas]
  /\ worktree \in [Issues -> {"none", "clean", "dirty", "locked"}]
  /\ job \in [Runs -> Job]
  /\ faults \in Nat
  /\ passed \in [Pulls -> SUBSET Shas]

KnowsMerge(s) ==
  At(s, {"sync"} \cup Closing \cup Cleaning) => Mine(s).state = "merged" /\ Mine(s).head = job[s].head

TypeOK == Typed /\ \A s \in Runs : KnowsMerge(s) /\ job[s].todo \subseteq closes

(* A head that is merged had a passing evaluation in this very pull        *)
(* request, whatever was pushed, asked or answered between the checks of   *)
(* pr finish and the merge (mergeReadyPullRequest, validateFinish...).     *)
MergedEvaluated == \A n \in Pulls : pull[n].state = "merged" => pull[n].head \in passed[n]

Left(i, proof) == proof[i] \in {remote[i], tracking[i]} \/ local[i] # None \/ worktree[i] # "none"
Complete(n) ==
  /\ pull[n].state = "merged" /\ based /\ board = "Done"
  /\ \A i \in closes : ~ Left(i, Proof(pull[n].head))

(* A run that reports success has left nothing of the work packet: main    *)
(* has the merge, the Project says Done, and no worktree, local branch,    *)
(* claim branch or tracking ref of its claims remains, even when several   *)
(* runs clean up at once or after one another (finishMergedPullRequest).   *)
SuccessComplete == \A s \in Runs : At(s, {"returned"}) => Complete(job[s].pull)

(* What is removed was proven: the pull request that closes the claim is   *)
(* merged with an evaluated head, main has it and the Project says so, and *)
(* a ref is deleted only at the commit that evaluation bound, a local      *)
(* branch at that or an ancestor (cleanupClaims).                          *)
Proven(i, sha, n) ==
  /\ pull[n].state = "merged" /\ pull[n].head \in passed[n] /\ based /\ board = "Done"
  /\ i \in closes /\ sha = Proof(pull[n].head)[i]

RemovalProven ==
  \A i \in Issues :
    /\ remote[i] # None /\ remote'[i] = None => \E n \in Pulls : Proven(i, remote[i], n)
    /\ tracking[i] # None /\ tracking'[i] = None => \E n \in Pulls : Proven(i, tracking[i], n)
    /\ local[i] # None /\ local'[i] = None =>
         \E n \in Pulls, sha \in Commits : Proven(i, sha, n) /\ local[i] \in 0 .. sha
    /\ worktree[i] # "none" /\ worktree'[i] = "none" =>
         worktree[i] # "locked" /\ \E n \in Pulls, sha \in Commits : Proven(i, sha, n)
CleanupIsProven == [][RemovalProven]_vars

(* Why a recovery may refuse for good: the primary checkout is not fit,    *)
(* the evaluation no longer proves the merge, a claim or a local branch is *)
(* not where it was evaluated, or a worktree holds something or is locked. *)
Held(n) ==
  \/ primary # "fit"
  \/ ~ Passing(n)
  \/ \E i \in closes : LET proof == Proof(pull[n].head) IN
       ~ Same(i, proof) \/ ~ LocalProven(i, proof) \/ worktree[i] \in {"dirty", "locked"}

(* The one it should not refuse for: a packet of two claims that still has *)
(* a worktree of a run, or only the branch of the primary.                 *)
Leftover(n) ==
  /\ Cardinality(closes) > 1
  /\ \E i \in closes :
       \/ worktree[i] # "none"
       \/ i # Primary /\ 1 \notin {remote[i], tracking[i]}

(* However pr finish ended after the merge, running pr recover again and   *)
(* again completes the packet, unless something holds it that a person     *)
(* must decide about (recoverPullRequest).                                 *)
Recovers ==
  <>[](\A n \in Pulls : pull[n].state = "merged" => Complete(n) \/ Held(n) \/ Leftover(n))

(* The same with nothing excused: "On cleanup failure preserve artifacts;  *)
(* run idempotent `go tool workflowctl pr recover PR`"                     *)
(* (.agents/skills/develop/SKILL.md:91-93).                                *)
RecoverConverges ==
  <>[](\A n \in Pulls : pull[n].state = "merged" => Complete(n) \/ Held(n))
=============================================================================
