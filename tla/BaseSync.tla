------------------------------ MODULE BaseSync ------------------------------
(***************************************************************************)
(* Base synchronization of workflowctl (base.go): runs that bring the      *)
(* primary checkout's main up to origin/main with its submodules at their  *)
(* pinned commits.  Every step is one git command with the checks that     *)
(* follow it; between any two of them another run, a fetch of another      *)
(* worktree of the clone, a merge on GitHub or a person in the primary     *)
(* checkout may move what the run has read.                                *)
(***************************************************************************)
EXTENDS Naturals

CONSTANTS
  Commits,  \* the commits that may come to exist
  Root,     \* where everything starts
  Past,     \* per commit, its history, itself included
  Pin,      \* per commit, the submodule commit it pins
  NoPin,    \* the submodules are not checked out
  NoMerge,  \* the required merge of a run that has none
  Syncs,    \* the runs of base-sync
  Finishes, \* the runs that end a pr finish or a pr recover
  Events,   \* what others do in this instance
  MaxFaults \* bound on the failures, rewrites, edits and local commits

ASSUME BaseAssumption ==
  /\ Root \in Commits /\ NoMerge \notin Commits
  /\ Past \in [Commits -> SUBSET Commits]
  /\ \A c \in Commits : c \in Past[c] /\ NoPin # Pin[c]
  /\ \A c, d \in Commits : c \in Past[d] => Past[c] \subseteq Past[d]
  /\ \A c, d \in Commits : c \in Past[d] /\ d \in Past[c] => c = d
  /\ Events \subseteq {"merge", "rewrite", "fetch", "edit", "commit", "fail"}
  /\ MaxFaults \in Nat

VARIABLES
  remote,    \* main on GitHub
  tracking,  \* refs/remotes/origin/main of the clone
  head,      \* HEAD of the primary checkout, on main
  dirty,     \* it has local changes
  pins,      \* the commit its submodules are at
  job,       \* where each run is, and what it has read
  faults,    \* failures, rewrites, edits and local commits so far
  settled    \* history: per run, where the primary was clean and pinned since its last layout

Runs == Syncs \cup Finishes
primary == <<head, dirty, pins>>
vars == <<remote, tracking, head, dirty, pins, job, faults, settled>>

MaxAttempts == 3   \* finishBaseSynchronization

Contains(tip, c) == c \in Past[tip]

(* A run: its next command, the merge it must find in main, HEAD as the    *)
(* last layout registered it, origin/main as first fetched and as the      *)
(* current attempt knows it, the synchronized commit, and the attempt.     *)
Idle == [at |-> "idle", merge |-> NoMerge, before |-> Root, fetched |-> Root,
         origin |-> Root, after |-> Root, attempt |-> 0]

Become(s, next) == job' = [job EXCEPT ![s] = next]
At(s, here) == job[s].at \in here
Step(s, next) == Become(s, [job[s] EXCEPT !.at = next])

(* A check that fails ends the run with an error.                          *)
Check(s, ok, next) == IF ok THEN Step(s, next) ELSE Become(s, Idle)

(* requireMergeContainment, requireMergeAtTip.                             *)
HasMerge(s, tip) == job[s].merge # NoMerge => Contains(tip, job[s].merge)

(* git status with untracked files and submodules (cleanPrimary), and git  *)
(* submodule status (checkPinnedSubmodules): a submodule that is not       *)
(* checked out does not make the checkout dirty, one at another commit     *)
(* does.                                                                   *)
Clean == ~ dirty /\ pins \in {NoPin, Pin[head]}
Pinned == ~ dirty /\ pins = Pin[head]

Here == IF Pinned THEN {head} ELSE {}
Settle == settled' = [s \in Runs |-> settled[s] \cup Here']

Init ==
  /\ remote = Root /\ tracking = Root
  /\ head = Root /\ dirty = FALSE
  /\ pins \in {NoPin, Pin[Root]}
  /\ job = [s \in Runs |-> Idle]
  /\ faults = 0
  /\ settled = [s \in Runs |-> {}]

-----------------------------------------------------------------------------
(* runBaseSync, or the synchronization that follows a merge on GitHub.     *)
Start(s) ==
  /\ At(s, {"idle"})
  /\ s \in Finishes => remote # Root
  /\ Become(s, [Idle EXCEPT !.at = "layout", !.merge = IF s \in Finishes THEN remote ELSE NoMerge])
  /\ UNCHANGED <<remote, tracking, primary, faults, settled>>

(* repositoryLayout: git worktree list registers HEAD of every worktree.   *)
ReadLayout(s) ==
  /\ At(s, {"layout"})
  /\ Become(s, [job[s] EXCEPT !.before = head, !.at = "status"])
  /\ settled' = [settled EXCEPT ![s] = Here]
  /\ UNCHANGED <<remote, tracking, primary, faults>>

(* cleanPrimary: the status, then HEAD, which must be the registered one.  *)
ReadStatus(s) ==
  /\ At(s, {"status"})
  /\ Check(s, Clean, "registered")
  /\ UNCHANGED <<remote, tracking, primary, faults, settled>>

RegisteredHead(s) ==
  /\ At(s, {"registered"})
  /\ Check(s, head = job[s].before, IF job[s].attempt = 0 THEN "fetch" ELSE "submodules")
  /\ UNCHANGED <<remote, tracking, primary, faults, settled>>

-----------------------------------------------------------------------------
(* fetchBase, and the refresh in updateAndCheckSubmodules.                 *)
Fetch(s) ==
  /\ At(s, {"fetch", "refetch"})
  /\ tracking' = remote
  /\ Step(s, IF job[s].at = "fetch" THEN "fetchedHead" ELSE "refetchedHead")
  /\ UNCHANGED <<remote, primary, faults, settled>>

FetchedHead(s) ==
  /\ At(s, {"fetchedHead"})
  /\ Become(s, IF head = job[s].before THEN [job[s] EXCEPT !.before = Root, !.at = "origin"] ELSE Idle)
  /\ UNCHANGED <<remote, tracking, primary, faults, settled>>

FetchedOrigin(s) ==
  /\ At(s, {"origin"})
  /\ Become(s, [job[s] EXCEPT !.fetched = tracking, !.origin = tracking, !.at = "relation"])
  /\ UNCHANGED <<remote, tracking, primary, faults, settled>>

(* commitRelation of HEAD and origin/main as it now is, then               *)
(* requireMergeContainment and rejectUnsafeBaseRelation.  (Mutant: the     *)
(* test of behind is inverted.)                                            *)
FirstAttempt(s) == [job[s] EXCEPT !.attempt = 1, !.at = "after"]

RelationInverted(s) ==
  /\ At(s, {"relation"})
  /\ Become(s, CASE ~ HasMerge(s, job[s].fetched) \/ ~ Contains(tracking, head) -> Idle
                 [] head # tracking -> FirstAttempt(s)
                 [] OTHER -> [job[s] EXCEPT !.at = "forward"])
  /\ UNCHANGED <<remote, tracking, primary, faults, settled>>

Relation(s) ==
  /\ At(s, {"relation"})
  /\ Become(s, CASE ~ HasMerge(s, job[s].fetched) \/ ~ Contains(tracking, head) -> Idle
                 [] head = tracking -> FirstAttempt(s)
                 [] OTHER -> [job[s] EXCEPT !.at = "forward"])
  /\ UNCHANGED <<remote, tracking, primary, faults, settled>>

-----------------------------------------------------------------------------
(* git merge --ff-only origin/main, whose origin/main is that of the       *)
(* moment, not the one read before (fastForwardBase,                       *)
(* advanceSynchronizedOrigin, requireSynchronizedOriginAdvance,            *)
(* finalizeBaseSnapshot).  A retry starts from the origin/main that was    *)
(* fetched first.  (Mutant: one attempt too many.)                         *)
RetryOnceMore(s) ==
  IF job[s].attempt > MaxAttempts THEN Idle
  ELSE [job[s] EXCEPT !.at = "after", !.attempt = @ + 1, !.origin = job[s].fetched, !.after = Root]

Retry(s) ==
  IF job[s].attempt = MaxAttempts THEN Idle
  ELSE [job[s] EXCEPT !.at = "after", !.attempt = @ + 1, !.origin = job[s].fetched, !.after = Root]

AfterMerge(s) ==
  CASE job[s].at = "forward" -> FirstAttempt(s)
    [] job[s].at = "advance" -> [job[s] EXCEPT !.at = "advanced"]
    [] job[s].at = "descend" -> Retry(s)
    [] job[s].at = "converge" -> [job[s] EXCEPT !.at = "converged"]

Merge(s) ==
  /\ At(s, {"forward", "advance", "descend", "converge"})
  /\ head' = IF Contains(tracking, head) THEN tracking ELSE head
  /\ Become(s, IF Contains(tracking, head) \/ Contains(head, tracking) THEN AfterMerge(s) ELSE Idle)
  /\ UNCHANGED <<remote, tracking, dirty, pins, faults>>
  /\ Settle

-----------------------------------------------------------------------------
(* readSynchronizedCommit: HEAD ...                                        *)
ReadAfter(s) ==
  /\ At(s, {"after"})
  /\ Become(s, [job[s] EXCEPT !.after = head, !.at = "recheck"])
  /\ UNCHANGED <<remote, tracking, primary, faults, settled>>

(* ... and origin/main.  Unchanged, HEAD must be at it; advanced           *)
(* (advanceSynchronizedOrigin), HEAD must be at one of the two, and is     *)
(* brought to the new one.                                                 *)
Advanced(s) ==
  /\ Contains(tracking, job[s].origin) /\ HasMerge(s, tracking)
  /\ job[s].after \in {job[s].origin, tracking}

Recheck(s) ==
  /\ At(s, {"recheck"})
  /\ Become(s,
       CASE tracking = job[s].origin /\ job[s].after = tracking /\ HasMerge(s, tracking) ->
              [job[s] EXCEPT !.at = "pins"]
         [] tracking # job[s].origin /\ Advanced(s) ->
              [job[s] EXCEPT !.origin = tracking,
                             !.at = IF job[s].after = tracking THEN "pins" ELSE "advance"]
         [] OTHER -> Idle)
  /\ UNCHANGED <<remote, tracking, primary, faults, settled>>

(* HEAD after the fast-forward must be the origin/main read before it.     *)
ReadAdvanced(s) ==
  /\ At(s, {"advanced"})
  /\ Become(s, IF head = job[s].origin THEN [job[s] EXCEPT !.after = head, !.at = "pins"] ELSE Idle)
  /\ UNCHANGED <<remote, tracking, primary, faults, settled>>

-----------------------------------------------------------------------------
(* updateAndCheckSubmodules: the submodules are checked out as HEAD pins   *)
(* them; HEAD is compared with the synchronized commit then and after      *)
(* another fetch.                                                          *)
UpdateSubmodules(s) ==
  /\ At(s, {"pins"})
  /\ pins' = Pin[head]
  /\ Step(s, "pinnedHead")
  /\ UNCHANGED <<remote, tracking, head, dirty, faults>>
  /\ Settle

PinnedHead(s) ==
  /\ At(s, {"pinnedHead", "refetchedHead"})
  /\ Check(s, head = job[s].after, IF job[s].at = "pinnedHead" THEN "refetch" ELSE "reorigin")
  /\ UNCHANGED <<remote, tracking, primary, faults, settled>>

(* origin/main again: unchanged, the attempt is completed; a descendant    *)
(* that has the merge (requireSynchronizedOriginAdvance) is merged and the *)
(* attempt repeated.                                                       *)
RefetchedOrigin(s) ==
  /\ At(s, {"reorigin"})
  /\ IF tracking = job[s].origin THEN Step(s, "layout")
     ELSE Check(s, Contains(tracking, job[s].origin) /\ HasMerge(s, tracking), "descend")
  /\ UNCHANGED <<remote, tracking, primary, faults, settled>>

(* checkPinnedSubmodules, after the fresh layout and cleanPrimary of       *)
(* completeBaseSynchronization.                                            *)
CheckSubmodules(s) ==
  /\ At(s, {"submodules"})
  /\ Check(s, pins = Pin[head], "final")
  /\ UNCHANGED <<remote, tracking, primary, faults, settled>>

-----------------------------------------------------------------------------
(* finalizeBaseSnapshot: HEAD once more, then origin/main once more.       *)
(* Mutant: the final HEAD is not compared.                                 *)
FinalHeadUnchecked(s) ==
  /\ At(s, {"final"})
  /\ Step(s, "finalOrigin")
  /\ UNCHANGED <<remote, tracking, primary, faults, settled>>

FinalHead(s) ==
  /\ At(s, {"final"})
  /\ Check(s, head = job[s].after, "finalOrigin")
  /\ UNCHANGED <<remote, tracking, primary, faults, settled>>

(* Unchanged, the run succeeds; a descendant that has the merge is merged, *)
(* HEAD must be at it then, and the attempt is repeated.                   *)
Succeed(s) ==
  /\ At(s, {"finalOrigin"}) /\ tracking = job[s].origin /\ HasMerge(s, tracking)
  /\ Become(s, [Idle EXCEPT !.at = "returned", !.after = job[s].after, !.merge = job[s].merge])
  /\ UNCHANGED <<remote, tracking, primary, faults, settled>>

Exit(s) ==
  /\ At(s, {"returned"})
  /\ Become(s, Idle)
  /\ UNCHANGED <<remote, tracking, primary, faults, settled>>

FinalOrigin(s) ==
  /\ At(s, {"finalOrigin"}) /\ ~ (tracking = job[s].origin /\ HasMerge(s, tracking))
  /\ Become(s, IF Contains(tracking, job[s].origin) /\ HasMerge(s, tracking)
                 THEN [job[s] EXCEPT !.origin = tracking, !.at = "converge"] ELSE Idle)
  /\ UNCHANGED <<remote, tracking, primary, faults, settled>>

Converged(s) ==
  /\ At(s, {"converged"})
  /\ Become(s, IF head = job[s].origin THEN Retry(s) ELSE Idle)
  /\ UNCHANGED <<remote, tracking, primary, faults, settled>>

(* What is not the work of runs and merges happens a bounded number of     *)
(* times.                                                                  *)
Disturb(event) == event \in Events /\ faults < MaxFaults /\ faults' = faults + 1

(* A command fails, or the run is killed: nothing is undone.               *)
Fail(s) ==
  /\ Disturb("fail") /\ ~ At(s, {"idle", "returned"})
  /\ Become(s, Idle)
  /\ UNCHANGED <<remote, tracking, primary, settled>>

-----------------------------------------------------------------------------
(* GitHub: pull requests are merged; somebody rewrites main.               *)
RemoteMerge ==
  /\ "merge" \in Events
  /\ \E c \in Commits \ {remote} : Contains(c, remote) /\ remote' = c
  /\ UNCHANGED <<tracking, primary, job, faults, settled>>

RemoteRewrite ==
  /\ Disturb("rewrite")
  /\ \E c \in Commits : ~ Contains(c, remote) /\ remote' = c
  /\ UNCHANGED <<tracking, primary, job, settled>>

(* Another worktree of the clone fetches: claim, sync and pr commands do.  *)
OtherFetch ==
  /\ "fetch" \in Events
  /\ tracking # remote /\ tracking' = remote
  /\ UNCHANGED <<remote, primary, job, faults, settled>>

(* A person edits the primary checkout, cleans it up, or commits there.    *)
Edit ==
  /\ Disturb("edit")
  /\ dirty' = ~ dirty
  /\ UNCHANGED <<remote, tracking, head, pins, job>>
  /\ Settle

LocalCommit ==
  /\ Disturb("commit")
  /\ \E c \in Commits \ {head} : Contains(c, head) /\ head' = c
  /\ UNCHANGED <<remote, tracking, dirty, pins, job>>
  /\ Settle

SyncStep(s) ==
  \/ Start(s) \/ ReadLayout(s) \/ ReadStatus(s) \/ RegisteredHead(s)
  \/ Fetch(s) \/ FetchedHead(s) \/ FetchedOrigin(s) \/ Relation(s) \/ Merge(s)
  \/ ReadAfter(s) \/ Recheck(s) \/ ReadAdvanced(s)
  \/ UpdateSubmodules(s) \/ PinnedHead(s) \/ RefetchedOrigin(s) \/ CheckSubmodules(s)
  \/ FinalHead(s) \/ Succeed(s) \/ Exit(s) \/ FinalOrigin(s) \/ Converged(s)

Next ==
  \/ \E s \in Runs : SyncStep(s) \/ Fail(s)
  \/ RemoteMerge \/ RemoteRewrite \/ OtherFetch \/ Edit \/ LocalCommit

Spec == Init /\ [][Next]_vars

(* base-sync is run again and again, and a run that is started goes on.    *)
FairSpec == Spec /\ \A s \in Runs : WF_vars(SyncStep(s))
-----------------------------------------------------------------------------
Phases == {"idle", "layout", "status", "registered", "fetch", "fetchedHead", "origin", "relation",
           "forward", "after", "recheck", "advance", "advanced", "pins", "pinnedHead", "refetch",
           "refetchedHead", "reorigin", "descend", "submodules", "final", "finalOrigin",
           "converge", "converged", "returned"}

Run == [at : Phases, merge : Commits \cup {NoMerge}, before : Commits, fetched : Commits,
        origin : Commits, after : Commits, attempt : 0 .. MaxAttempts]

TypeOK ==
  /\ remote \in Commits /\ tracking \in Commits
  /\ head \in Commits /\ dirty \in BOOLEAN
  /\ pins \in {NoPin} \cup {Pin[c] : c \in Commits}
  /\ job \in [Runs -> Run]
  /\ faults \in 0 .. MaxFaults
  /\ settled \in [Runs -> SUBSET Commits]

(* The contract (BaseContract): main never leaves its history behind, and  *)
(* whatever other runs, fetches, merges and people do between its          *)
(* commands, a run that returns names a commit that is origin/main, holds  *)
(* the merge asked for, and was once the clean primary with its pinned     *)
(* submodules since it last looked (base.go:324-343, 426-522).             *)
Returned == {[run |-> s, after |-> job[s].after, merge |-> job[s].merge] :
               s \in {r \in Runs : At(r, {"returned"})}}
Contract == INSTANCE BaseContract WITH main <- head, reports <- Returned
ContractSpec == Contract!ContractSpec

(* base-sync is repeated, and merges and disturbances end: the primary     *)
(* arrives at the remote main with its submodules pinned, unless a person  *)
(* left changes or commits of their own, or HEAD was moved without its     *)
(* submodules: nothing else keeps it away (base.go:324-343, 415-430).      *)
Stale == pins \notin {NoPin, Pin[head]}

Converges ==
  <>[]((head = remote /\ Pinned) \/ Stale \/ dirty \/ ~ Contains(remote, head))

(* "Requires canonical clean main equal to fetched origin/main plus        *)
(* recursive pins; repair stale launches with base-sync"                   *)
(* (.agents/skills/develop/SKILL.md:24-25).  The code moves HEAD and       *)
(* updates the submodules in two commands; a run that ends between them    *)
(* leaves a checkout its successors refuse as dirty.                       *)
Repairs == <>[](head = remote /\ Pinned)
=============================================================================
