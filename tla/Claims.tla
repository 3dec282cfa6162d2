------------------------------- MODULE Claims -------------------------------
(***************************************************************************)
(* The claim protocol of workflowctl (claim.go, sync.go and the            *)
(* publication half of pr.go) for one issue.  Runners, each with its own   *)
(* worktree of one shared clone, run commands against a git remote and     *)
(* GitHub; every step below is one git or gh call with the local work that *)
(* follows it, so that commands of several runners interleave between      *)
(* their calls.  The claim is the branch agent/issue-N on the remote: a    *)
(* push that is not forced creates it or fast-forwards it, and the newest  *)
(* marker in its history carries the run and the lease.                    *)
(***************************************************************************)
EXTENDS Naturals, Sequences

CONSTANTS
  Runners,     \* agents, each in a worktree of its own
  Lease,       \* claimDuration, in ticks
  Horizon,     \* bound on the clock
  MaxCommits,  \* bound on the commits made
  Allowed,     \* the commands each runner gives in this instance
  Humans       \* what people do to the issue and its pull request

ASSUME ClaimsAssumption ==
  /\ Lease \in Nat \ {0}
  /\ Horizon \in Nat /\ MaxCommits \in Nat
  /\ Allowed \in [Runners -> SUBSET {"acquire", "renew", "verify", "pr", "sync", "work",
                                     "handoff", "resume"}]
  /\ Humans \subseteq {"hand off", "triage", "close", "dismiss"}

VARIABLES
  now,         \* wall clock
  commits,     \* every commit made, by id: its newest marker and its history
  remote,      \* refs/heads/agent/issue-N on origin
  tracking,    \* refs/remotes/origin/agent/issue-N of the clone
  archive,     \* heads pushed to agent/archive/issue-N-*
  worktree,    \* per runner: the run its local branch names, and HEAD
  openPR,      \* an open pull request has the claim branch as its head
  issueOpen, needsHuman, status,    \* the GitHub issue and its Project item
  job,         \* where each runner's command is, and what it has read and made
  published,   \* history: every commit remote has pointed at
  granted      \* history: the leases runners were told they hold, until they end

gitVars == <<commits, remote, tracking, archive, worktree>>
issueVars == <<openPR, issueOpen, needsHuman, status>>
history == <<published, granted>>
vars == <<now, commits, remote, tracking, archive, worktree, openPR, issueOpen,
          needsHuman, status, job, published, granted>>

NoCommit == 0
CommitIds == 1 .. MaxCommits
Known == 0 .. Len(commits)
Statuses == {"Backlog", "Ready", "Picked", "Done"}

(* A commit: the run and lease of the newest marker in its history         *)
(* (readClaimMetadata, inspectRemoteClaim), whether it is that marker, and *)
(* the history, itself included.                                           *)
Commit == [run : CommitIds, lease : 0 .. Horizon + Lease, marker : BOOLEAN,
           past : SUBSET CommitIds]

IsAncestor(c, head) == c \in commits[head].past

(* git push without force: creates the ref or fast-forwards it.            *)
CanPush(head) == remote = NoCommit \/ IsAncestor(remote, head)

(* lease.After(now), in inspectRemoteClaim and validateClaimDeadline.      *)
Live(c) == commits[c].lease > now

(* Mutant: the local branch may be named after another run.                *)
validateWithoutRun(p) == Live(worktree[p].head)

validateClaim(p) ==
  /\ commits[worktree[p].head].run = worktree[p].run   \* validateClaimLocalBranch
  /\ Live(worktree[p].head)

Grant(run, c) ==
  granted' = {g \in granted \cup {[run |-> run, until |-> commits[c].lease]} : g.until > now}

(* A command: its next call, the claim head it has seen, the commit it has *)
(* made (or the HEAD a renewal started from), the Project status or pull   *)
(* request it has read.  ClaimResume has the steps of handoff and resume.  *)
HandoffPhases == {"handCheck", "handLabel", "handVerify", "handBacklog", "handFinal", "handPost"}
ResumePhases ==
  {"resHeads", "resPulls", "resIssue", "resItem", "resCreate", "resAdopt", "resPush", "resReread",
   "resVerify", "resVerifyRefs", "resTarget", "resTargetPulls", "resTargetItem", "resUnlabel",
   "resUnlabelled", "resPick"}

Phases ==
  {"idle", "inspect", "pulls", "escalate", "backlog", "setBacklog", "archive", "delete", "item",
   "issue", "commit", "push", "worktree", "record", "setPicked",
   "renewCheck", "renewCommit", "renewPush", "restore", "deadline",
   "prCheck", "prLookup", "prPush", "prHeads", "prDeadline", "prCreate",
   "syncList", "syncInspect", "syncIssue", "syncWrite"} \cup HandoffPhases \cup ResumePhases

Idle == [at |-> "idle", seen |-> NoCommit, made |-> NoCommit, read |-> "none"]

Start(p, command) == job[p].at = "idle" /\ command \in Allowed[p]
Become(p, next) == job' = [job EXCEPT ![p] = next]
Goto(p, next) == Become(p, IF next = "idle" THEN Idle ELSE [job[p] EXCEPT !.at = next])
StepTo(p, here, next) == job[p].at = here /\ Goto(p, next)

-----------------------------------------------------------------------------
Init ==
  /\ now = 0
  /\ commits = <<>>
  /\ remote = NoCommit /\ tracking = NoCommit /\ archive = {}
  /\ worktree = [p \in Runners |-> [run |-> NoCommit, head |-> NoCommit]]
  /\ openPR = FALSE
  /\ issueOpen = TRUE /\ needsHuman = FALSE
  /\ status = "Ready"
  /\ job = [p \in Runners |-> Idle]
  /\ published = {} /\ granted = {}

-----------------------------------------------------------------------------
(* claim acquire, and sync, list the remote claims ...                     *)
ListClaims(p) ==
  /\ \/ /\ Start(p, "acquire")
        /\ Become(p, [Idle EXCEPT !.at = IF remote = NoCommit THEN "item" ELSE "inspect",
                                  !.seen = remote])
     \/ /\ job[p].at = "syncList"
        /\ Become(p, [job[p] EXCEPT !.at = IF remote = NoCommit THEN "syncIssue" ELSE "syncInspect",
                                    !.seen = remote])
  /\ UNCHANGED <<now, gitVars, issueVars, history>>

(* ... and inspect the lease of the listed head after fetching the branch, *)
(* which fails when the branch is gone.  A live claim ends the acquisition *)
(* and is remembered by sync.  (Mutant: it is treated as stale.)           *)
InspectUnleased(p) ==
  /\ StepTo(p, "inspect", IF remote = NoCommit THEN "idle" ELSE "pulls")
  /\ tracking' = IF remote = NoCommit THEN tracking ELSE remote
  /\ UNCHANGED <<now, commits, remote, archive, worktree, issueVars, history>>

InspectClaim(p) ==
  /\ job[p].at = "inspect"
  /\ Goto(p, IF remote = NoCommit \/ Live(job[p].seen) THEN "idle" ELSE "pulls")
  /\ tracking' = IF remote = NoCommit THEN tracking ELSE remote
  /\ UNCHANGED <<now, commits, remote, archive, worktree, issueVars, history>>

(* archiveStaleClaim: an expired claim with an open pull request is        *)
(* escalated, any other is archived and its branch deleted.                *)
ListPulls(p) ==
  /\ StepTo(p, "pulls", IF openPR THEN "escalate" ELSE "archive")
  /\ UNCHANGED <<now, gitVars, issueVars, history>>

LabelStale(p) ==
  /\ StepTo(p, "escalate", "backlog")
  /\ needsHuman' = TRUE
  /\ UNCHANGED <<now, gitVars, openPR, issueOpen, status, history>>

ArchiveStale(p) ==
  /\ StepTo(p, "archive", "delete")
  /\ archive' = archive \cup {job[p].seen}
  /\ UNCHANGED <<now, commits, remote, tracking, worktree, issueVars, history>>

(* Mutant: the branch is deleted even when it moved since it was inspected. *)
DeleteUnleased(p) ==
  /\ StepTo(p, "delete", "item")
  /\ remote' = NoCommit /\ tracking' = NoCommit
  /\ openPR' = FALSE
  /\ UNCHANGED <<now, commits, archive, worktree, issueOpen, needsHuman, status, history>>

(* The deletion is leased to the inspected head; GitHub closes the pull    *)
(* request of a deleted branch.                                            *)
DeleteStale(p) ==
  /\ StepTo(p, "delete", IF remote = job[p].seen THEN "item" ELSE "idle")
  /\ IF remote = job[p].seen
       THEN remote' = NoCommit /\ tracking' = NoCommit /\ openPR' = FALSE
       ELSE UNCHANGED <<remote, tracking, openPR>>
  /\ UNCHANGED <<now, commits, archive, worktree, issueOpen, needsHuman, status, history>>

(* assertClaimable: the Project item is read, then the issue.              *)
ReadItem(p) ==
  /\ job[p].at = "item"
  /\ Become(p, [job[p] EXCEPT !.at = "issue", !.read = status])
  /\ UNCHANGED <<now, gitVars, issueVars, history>>

AssertClaimable(p) ==
  /\ StepTo(p, "issue", IF issueOpen /\ ~ needsHuman /\ job[p].read \in {"Ready", "Picked"}
                          THEN "commit" ELSE "idle")
  /\ UNCHANGED <<now, gitVars, issueVars, history>>

(* fetchMain and newClaimCommit: a marker of a fresh run on origin/main,   *)
(* which no claim branch is an ancestor of (pull requests are squashed).   *)
NewClaim(p) ==
  LET id == Len(commits) + 1 IN
  /\ job[p].at = "commit" /\ id <= MaxCommits
  /\ Become(p, [Idle EXCEPT !.at = "push", !.made = id])
  /\ commits' = Append(commits, [run |-> id, lease |-> now + Lease, marker |-> TRUE, past |-> {id}])
  /\ UNCHANGED <<now, remote, tracking, archive, worktree, issueVars, history>>

PushClaim(p) ==
  /\ StepTo(p, "push", IF CanPush(job[p].made) THEN "worktree" ELSE "idle")
  /\ IF CanPush(job[p].made)
       THEN /\ remote' = job[p].made /\ tracking' = job[p].made
            /\ published' = published \cup {job[p].made}
            /\ Grant(job[p].made, job[p].made)
       ELSE UNCHANGED <<remote, tracking, history>>
  /\ UNCHANGED <<now, commits, archive, worktree, issueVars>>

(* git worktree add: the branch named after the run starts at the tracking *)
(* ref, which is shared with the other runners of the clone.               *)
AddWorktree(p) ==
  /\ StepTo(p, "worktree", IF tracking = NoCommit THEN "idle" ELSE "record")
  /\ worktree' = IF tracking = NoCommit THEN worktree
                  ELSE [worktree EXCEPT ![p] = [run |-> job[p].made, head |-> tracking]]
  /\ UNCHANGED <<now, commits, remote, tracking, archive, issueVars, history>>

(* setIssueProjectStatus reads the item before it writes: "Picked" at the  *)
(* end of recordClaim, "Backlog" at the end of escalateStaleClaim.         *)
ReadProject(p) ==
  /\ \/ StepTo(p, "record", IF status = "Picked" THEN "idle" ELSE "setPicked")
     \/ StepTo(p, "backlog", IF status = "Backlog" THEN "idle" ELSE "setBacklog")
  /\ UNCHANGED <<now, gitVars, issueVars, history>>

SetProject(p) ==
  /\ \/ StepTo(p, "setPicked", "idle") /\ status' = "Picked"
     \/ StepTo(p, "setBacklog", "idle") /\ status' = "Backlog"
  /\ UNCHANGED <<now, gitVars, openPR, issueOpen, needsHuman, history>>

-----------------------------------------------------------------------------
(* fetchClaim and claimHeads: the branch is fetched, which fails when it   *)
(* is gone, and compared with HEAD.                                        *)
Heads(p) ==
  /\ worktree[p].run # NoCommit /\ remote # NoCommit
  /\ tracking' = remote

(* A renewal or a publication may be ahead of the remote, never beside it. *)
RenewHeads(p) ==
  /\ Start(p, "renew") /\ Heads(p)
  /\ Become(p, IF IsAncestor(remote, worktree[p].head)
                 THEN [Idle EXCEPT !.at = "renewCheck", !.made = worktree[p].head]
                 ELSE Idle)
  /\ UNCHANGED <<now, commits, remote, archive, worktree, issueVars, history>>

RenewCheck(p) ==
  /\ StepTo(p, "renewCheck", IF validateClaim(p) THEN "renewCommit" ELSE "idle")
  /\ UNCHANGED <<now, gitVars, issueVars, history>>

(* Mutant: the lease is counted from the previous one.                     *)
RenewFromLease(p) ==
  LET id == Len(commits) + 1
      head == worktree[p].head IN
  /\ job[p].at = "renewCommit" /\ id <= MaxCommits
  /\ Goto(p, "renewPush")
  /\ commits' = Append(commits, [run |-> worktree[p].run, lease |-> commits[head].lease + Lease,
                                 marker |-> TRUE, past |-> commits[head].past \cup {id}])
  /\ worktree' = [worktree EXCEPT ![p].head = id]
  /\ UNCHANGED <<now, remote, tracking, archive, issueVars, history>>

(* A new marker of the same run on HEAD, and update-ref of the local branch. *)
RenewCommit(p) ==
  LET id == Len(commits) + 1
      head == worktree[p].head IN
  /\ job[p].at = "renewCommit" /\ id <= MaxCommits
  /\ Goto(p, "renewPush")
  /\ commits' = Append(commits, [run |-> worktree[p].run, lease |-> now + Lease,
                                 marker |-> TRUE, past |-> commits[head].past \cup {id}])
  /\ worktree' = [worktree EXCEPT ![p].head = id]
  /\ UNCHANGED <<now, remote, tracking, archive, issueVars, history>>

(* Mutant: the push of a renewal is forced.                                *)
RenewForced(p) ==
  LET head == worktree[p].head IN
  /\ StepTo(p, "renewPush", "idle")
  /\ remote' = head /\ tracking' = head
  /\ published' = published \cup {head}
  /\ Grant(worktree[p].run, head)
  /\ UNCHANGED <<now, commits, archive, worktree, issueVars>>

RenewPush(p) ==
  LET head == worktree[p].head IN
  /\ StepTo(p, "renewPush", "idle")
  /\ CanPush(head)
  /\ remote' = head /\ tracking' = head
  /\ published' = published \cup {head}
  /\ Grant(worktree[p].run, head)
  /\ UNCHANGED <<now, commits, archive, worktree, issueVars>>

(* The push is rejected, or fails on the way with or without having        *)
(* reached the remote ...                                                  *)
RenewPushFails(p) ==
  LET head == worktree[p].head IN
  /\ StepTo(p, "renewPush", "restore")
  /\ \/ UNCHANGED <<remote, published>>
     \/ CanPush(head) /\ remote' = head /\ published' = published \cup {head}
  /\ UNCHANGED <<now, commits, tracking, archive, worktree, issueVars, granted>>

(* ... and the local branch is put back.                                   *)
RenewRestore(p) ==
  /\ StepTo(p, "restore", "idle")
  /\ worktree' = [worktree EXCEPT ![p].head = job[p].made]
  /\ UNCHANGED <<now, commits, remote, tracking, archive, issueVars, history>>

-----------------------------------------------------------------------------
(* claim verify; pr open calls it again after its push.                    *)
VerifyHeads(p) ==
  /\ Heads(p)
  /\ \/ Start(p, "verify") /\ Goto(p, IF worktree[p].head = remote THEN "deadline" ELSE "idle")
     \/ StepTo(p, "prHeads", IF worktree[p].head = remote THEN "prDeadline" ELSE "idle")
  /\ UNCHANGED <<now, commits, remote, archive, worktree, issueVars, history>>

VerifyDeadline(p) ==
  /\ \/ StepTo(p, "deadline", "idle")
     \/ StepTo(p, "prDeadline", IF validateClaim(p) THEN "prCreate" ELSE "idle")
  /\ IF validateClaim(p) THEN Grant(worktree[p].run, worktree[p].head) ELSE UNCHANGED granted
  /\ UNCHANGED <<now, gitVars, issueVars, published>>

(* pr open: verifyClaimForPush, the lookup of an open pull request, the    *)
(* push of HEAD, verifyClaim, and the lookup that creates a missing one.   *)
OpenHeads(p) ==
  /\ Start(p, "pr") /\ Heads(p)
  /\ Goto(p, IF IsAncestor(remote, worktree[p].head) THEN "prCheck" ELSE "idle")
  /\ UNCHANGED <<now, commits, remote, archive, worktree, issueVars, history>>

OpenCheck(p) ==
  /\ StepTo(p, "prCheck", IF validateClaim(p) THEN "prLookup" ELSE "idle")
  /\ UNCHANGED <<now, gitVars, issueVars, history>>

OpenLookup(p) ==
  /\ job[p].at = "prLookup"
  /\ Become(p, [job[p] EXCEPT !.at = "prPush", !.read = IF openPR THEN "open" ELSE "none"])
  /\ UNCHANGED <<now, gitVars, issueVars, history>>

OpenPush(p) ==
  LET head == worktree[p].head IN
  /\ StepTo(p, "prPush", IF CanPush(head) THEN "prHeads" ELSE "idle")
  /\ IF CanPush(head)
       THEN remote' = head /\ tracking' = head /\ published' = published \cup {head}
       ELSE UNCHANGED <<remote, tracking, published>>
  /\ UNCHANGED <<now, commits, archive, worktree, issueVars, granted>>

(* GitHub refuses a pull request without a head branch.                    *)
CreatePull(p) ==
  /\ StepTo(p, "prCreate", "idle")
  /\ openPR' = (openPR \/ (job[p].read = "none" /\ remote # NoCommit))
  /\ UNCHANGED <<now, gitVars, issueOpen, needsHuman, status, history>>

(* A commit of the runner's own.                                           *)
Work(p) ==
  LET id == Len(commits) + 1
      head == worktree[p].head IN
  /\ Start(p, "work") /\ head # NoCommit /\ id <= MaxCommits
  /\ commits' = Append(commits, [commits[head] EXCEPT !.marker = FALSE, !.past = @ \cup {id}])
  /\ worktree' = [worktree EXCEPT ![p].head = id]
  /\ UNCHANGED <<now, remote, tracking, archive, issueVars, job, history>>

-----------------------------------------------------------------------------
(* sync: the items, the claims (ListClaims), the issue, then the write.    *)
SyncItems(p) ==
  /\ Start(p, "sync")
  /\ Become(p, [Idle EXCEPT !.at = "syncList", !.read = status])
  /\ UNCHANGED <<now, gitVars, issueVars, history>>

SyncInspect(p) ==
  /\ job[p].at = "syncInspect"
  /\ IF remote = NoCommit
       THEN Become(p, Idle) /\ UNCHANGED tracking
       ELSE /\ Become(p, [job[p] EXCEPT !.at = "syncIssue",
                                        !.seen = IF Live(job[p].seen) THEN @ ELSE NoCommit])
            /\ tracking' = remote
  /\ UNCHANGED <<now, commits, remote, archive, worktree, issueVars, history>>

(* Mutant: an active claim is looked at before the needs-human label.      *)
desiredClaimFirst(claimed, was) ==
  CASE ~ issueOpen -> "Done"
    [] issueOpen /\ claimed -> "Picked"
    [] issueOpen /\ ~ claimed /\ needsHuman -> "Backlog"
    [] OTHER -> IF was \in {"Picked", "Done"} THEN "Ready" ELSE was

desiredStatus(claimed, was) ==
  CASE ~ issueOpen -> "Done"
    [] issueOpen /\ needsHuman -> "Backlog"
    [] issueOpen /\ ~ needsHuman /\ claimed -> "Picked"
    [] OTHER -> IF was \in {"Picked", "Done"} THEN "Ready" ELSE was

SyncIssue(p) ==
  LET desired == desiredStatus(job[p].seen # NoCommit, job[p].read) IN
  /\ job[p].at = "syncIssue"
  /\ Become(p, IF desired = job[p].read THEN Idle
                 ELSE [Idle EXCEPT !.at = "syncWrite", !.read = desired])
  /\ UNCHANGED <<now, gitVars, issueVars, history>>

SyncWrite(p) ==
  /\ StepTo(p, "syncWrite", "idle")
  /\ status' = job[p].read
  /\ UNCHANGED <<now, gitVars, openPR, issueOpen, needsHuman, history>>

-----------------------------------------------------------------------------
(* A command stops: a call failed, or the process died.                    *)
Abort(p) ==
  /\ job[p].at # "idle" /\ Goto(p, "idle")
  /\ UNCHANGED <<now, gitVars, issueVars, history>>

Tick ==
  /\ now < Horizon /\ now' = now + 1
  /\ granted' = {g \in granted : g.until > now'}
  /\ UNCHANGED <<gitVars, issueVars, job, published>>

(* People hand an issue off, triage it, close it, or close a pull request. *)
Human ==
  /\ \/ /\ "hand off" \in Humans
        /\ needsHuman' = TRUE /\ status' = "Backlog" /\ UNCHANGED <<openPR, issueOpen>>
     \/ /\ "triage" \in Humans
        /\ needsHuman' = FALSE /\ status' = "Ready" /\ UNCHANGED <<openPR, issueOpen>>
     \/ /\ "close" \in Humans
        /\ issueOpen' = FALSE /\ UNCHANGED <<openPR, needsHuman, status>>
     \/ /\ "dismiss" \in Humans
        /\ openPR' = FALSE /\ UNCHANGED <<issueOpen, needsHuman, status>>
  /\ UNCHANGED <<now, gitVars, job, history>>

(* The steps of sync, for the modules that run it beside the others.       *)
SyncStep(p) ==
  \/ SyncItems(p) \/ SyncInspect(p) \/ SyncIssue(p) \/ SyncWrite(p)
  \/ (job[p].at = "syncList" /\ ListClaims(p))

Step(p) ==
  \/ ListClaims(p) \/ InspectClaim(p) \/ ListPulls(p) \/ LabelStale(p)
  \/ ArchiveStale(p) \/ DeleteStale(p) \/ ReadItem(p) \/ AssertClaimable(p)
  \/ NewClaim(p) \/ PushClaim(p) \/ AddWorktree(p) \/ ReadProject(p) \/ SetProject(p)
  \/ RenewHeads(p) \/ RenewCheck(p) \/ RenewCommit(p) \/ RenewPush(p)
  \/ RenewPushFails(p) \/ RenewRestore(p)
  \/ VerifyHeads(p) \/ VerifyDeadline(p)
  \/ OpenHeads(p) \/ OpenCheck(p) \/ OpenLookup(p) \/ OpenPush(p) \/ CreatePull(p)
  \/ Work(p) \/ Abort(p)

Next == (\E p \in Runners : Step(p)) \/ Tick \/ Human

Spec == Init /\ [][Next]_vars

-----------------------------------------------------------------------------
TypeOK ==
  /\ now \in 0 .. Horizon
  /\ commits \in Seq(Commit) /\ Len(commits) <= MaxCommits
  /\ remote \in Known /\ tracking \in Known
  /\ archive \subseteq Known /\ published \subseteq Known
  /\ worktree \in [Runners -> [run : Known, head : Known]]
  /\ job \in [Runners -> [at : Phases, seen : Known, made : Known,
                         read : Statuses \cup {"open", "none"}]]
  /\ {openPR, issueOpen, needsHuman} \subseteq BOOLEAN
  /\ status \in Statuses
  /\ granted \subseteq [run : Known, until : 0 .. Horizon + Lease]

(* Leases are exclusive (claim.go:54-91, 256-350): of what acquire, renew  *)
(* and verify told the runners, what has not run out names a single run.   *)
(* A lost, late or repeated command, or an expiry between any two of its   *)
(* calls, must not let two runs hold the issue.                            *)
GrantsExclusive == \A g, h \in granted : g.run = h.run

(* No published work is lost (claim.go:135-165): every commit the claim    *)
(* branch ever pointed at is still in the history of the branch or of an   *)
(* archive.                                                                *)
PublishedPreserved ==
  \A c \in published :
    \/ remote # NoCommit /\ IsAncestor(c, remote)
    \/ \E head \in archive : IsAncestor(c, head)

(* The branch is a leased lock (ClaimLock): runs take it when it is free,  *)
(* extend it, and lose it only once the lease on the remote has run out.   *)
Lock == INSTANCE ClaimLock WITH
  Runs <- CommitIds, Nobody <- NoCommit,
  holder <- IF remote = NoCommit THEN NoCommit ELSE commits[remote].run,
  until <- IF remote = NoCommit THEN 0 ELSE commits[remote].lease
LockSpec == Lock!LockSpec

(* A sync that runs undisturbed repairs the Project (sync.go:22-94): once  *)
(* only sync runs, the item shows what the issue and the claim call for,   *)
(* whatever snapshot an earlier sync or command wrote from.                *)
Settled ==
  LET claimed == remote # NoCommit /\ Live(remote) IN
  /\ ~ issueOpen <=> status = "Done"
  /\ issueOpen /\ needsHuman => status = "Backlog"
  /\ issueOpen /\ ~ needsHuman => (claimed <=> status = "Picked")

OnlySync == \E p \in Runners : SyncStep(p)
SyncConverges == <>[][OnlySync]_vars => <>[]Settled

(* "archive expired PR-free claims; escalate expired PRs": an acquisition  *)
(* never deletes a branch that has an open pull request.                   *)
PullsPreserved ==
  [][openPR /\ remote # NoCommit => remote' # NoCommit]_vars
=============================================================================
