---------------------------- MODULE ClaimResume ----------------------------
(***************************************************************************)
(* Handing a claim off and resuming it (issue.go, claim_resume.go), beside *)
(* the commands of Claims.  An agent that stops without a pull request     *)
(* labels its issue needs-human, moves it to Backlog and posts a comment   *)
(* that binds the head of its claim.  Once the lease has run out,          *)
(* `claim resume --expected-head E` proves twice that nothing moved since, *)
(* renews the claim with one empty child of E, first locally and then on   *)
(* the remote, reads everything back, and only then takes the label off    *)
(* and sets the Project to Picked.  It is rerun after any failure.         *)
(*                                                                         *)
(* Not modelled: the bytes of the worktree, their digest and pending       *)
(* merges, the text of the comments, and the renewal of an unpublished     *)
(* source with its later integration.  A runner that acquires again has    *)
(* given up its earlier worktree.                                          *)
(***************************************************************************)
EXTENDS Claims

VARIABLES
  handoffs,   \* claim heads bound by a posted handoff comment
  proof       \* per runner: what its handoff or resume has read

resumeVars == <<handoffs, proof>>
allVars == <<vars, handoffs, proof>>

(* claimResumePreflight: both heads, the label and the Project status; the *)
(* preflight it is compared with ("sealed"), the lease of a renewal that   *)
(* no ref names yet, and the phase of the reconciliation.                  *)
Reading == [local : Known, remote : Known, needs : BOOLEAN, item : Statuses]
NoReading == [local |-> NoCommit, remote |-> NoCommit, needs |-> FALSE, item |-> "Ready"]
Nothing == [read |-> NoReading, sealed |-> NoReading, lease |-> 0, phase |-> "none"]

(* A command that ends forgets what it has read.                           *)
Keep(p, record) ==
  proof' = [proof EXCEPT ![p] = IF job'[p].at = "idle" THEN Nothing ELSE record]

ResumeInit == Init /\ handoffs = {} /\ proof = [p \in Runners |-> Nothing]

-----------------------------------------------------------------------------
(* handoff --needs-human: the issue must be open; the Project item read at *)
(* the start must not change until the command changes it.                 *)
HandoffRead(p) ==
  /\ Start(p, "handoff")
  /\ worktree[p].run # NoCommit /\ issueOpen
  /\ Become(p, [Idle EXCEPT !.at = "handCheck", !.seen = worktree[p].head, !.read = status])
  /\ UNCHANGED <<now, gitVars, issueVars, history, resumeVars>>

HandoffCheck(p) ==
  /\ job[p].at = "handCheck"
  /\ Goto(p, IF ~ issueOpen \/ status # job[p].read THEN "idle"
             ELSE IF needsHuman THEN "handVerify" ELSE "handLabel")
  /\ UNCHANGED <<now, gitVars, issueVars, history, resumeVars>>

HandoffLabel(p) ==
  /\ StepTo(p, "handLabel", "handVerify")
  /\ needsHuman' = TRUE
  /\ UNCHANGED <<now, gitVars, openPR, issueOpen, status, history, resumeVars>>

(* Behind the label and before the Project is written nothing else may     *)
(* have changed; an item that was in Backlog is not written.               *)
HandoffVerify(p) ==
  /\ StepTo(p, "handVerify",
            IF ~ issueOpen \/ ~ needsHuman \/ status # job[p].read THEN "idle"
            ELSE IF status = "Backlog" THEN "handFinal" ELSE "handBacklog")
  /\ UNCHANGED <<now, gitVars, issueVars, history, resumeVars>>

HandoffBacklog(p) ==
  /\ StepTo(p, "handBacklog", "handFinal")
  /\ status' = "Backlog"
  /\ UNCHANGED <<now, gitVars, openPR, issueOpen, needsHuman, history, resumeVars>>

(* The evidence is posted last, on a reread of both.                       *)
HandoffFinal(p) ==
  /\ StepTo(p, "handFinal", IF issueOpen /\ needsHuman /\ status = "Backlog"
                              THEN "handPost" ELSE "idle")
  /\ UNCHANGED <<now, gitVars, issueVars, history, resumeVars>>

HandoffPost(p) ==
  /\ StepTo(p, "handPost", "idle")
  /\ handoffs' = handoffs \cup {job[p].seen}
  /\ UNCHANGED <<now, gitVars, issueVars, history, proof>>

-----------------------------------------------------------------------------
(* The heads a proof binds.  Expected is the argument of the command.      *)
Expected(p) == job[p].seen

(* readCanonicalClaimCommit: an empty marker of the run on the expected    *)
(* head; validateExistingResumeCommit: whose lease has not run out.        *)
IsRenewal(c, expected) ==
  /\ c \notin commits[expected].past \cup {NoCommit} /\ commits[c].marker
  /\ commits[c].run = commits[expected].run
  /\ commits[c].past = commits[expected].past \cup {c}

ValidRenewal(c, expected) == IsRenewal(c, expected) /\ Live(c)

(* claimResumeRenewalPlan: nothing renewed yet, or one renewal, found      *)
(* locally, on the remote or on both.                                      *)
(* Mutant: a renewal that only the local branch has is not recognized.     *)
remoteOnlyPlan(expected, heads) ==
  /\ heads.local # expected => heads.local = heads.remote
  /\ heads.remote # expected => ValidRenewal(heads.remote, expected)

renewalPlan(expected, heads) ==
  /\ \A head \in {heads.local, heads.remote} \ {expected} : ValidRenewal(head, expected)
  /\ expected \notin {heads.local, heads.remote} => heads.local = heads.remote

Renewal(expected, heads) ==
  CASE heads.local # expected -> heads.local
    [] heads.local = expected /\ heads.remote # expected -> heads.remote
    [] OTHER -> NoCommit

(* validateResumeWorktreeHeads: no other worktree holds the issue.         *)
OnlyWorktree(p) == \A q \in Runners \ {p} : worktree[q].run = NoCommit

(* readClaimResumeProof, read once by the command and once more before it  *)
(* changes anything: HEAD and the remote head; the comment that binds the  *)
(* expected head, which must be a marker of this run that has expired.     *)
ResumeStart(p, expected) ==
  /\ Start(p, "resume")
  /\ expected \in handoffs /\ commits[expected].run = worktree[p].run
  /\ Become(p, [Idle EXCEPT !.at = "resHeads", !.seen = expected])
  /\ proof' = [proof EXCEPT ![p] = Nothing]
  /\ UNCHANGED <<now, gitVars, issueVars, history, handoffs>>

ResumeHeads(p) ==
  /\ StepTo(p, "resHeads", IF remote # NoCommit /\ commits[Expected(p)].marker /\ ~ Live(Expected(p))
                             THEN "resPulls" ELSE "idle")
  /\ Keep(p, [proof[p] EXCEPT !.read = [NoReading EXCEPT !.local = worktree[p].head,
                                                         !.remote = remote]])
  /\ UNCHANGED <<now, gitVars, issueVars, history, handoffs>>

(* No open pull request; a plan; no other worktree; the local branch and a *)
(* tracking ref where they were read (validateClaimResumeRefs).            *)
RefsMatch(p, local, onRemote) ==
  worktree[p].head = local /\ tracking \in {NoCommit, onRemote}

ResumePulls(p) ==
  LET r == proof[p].read IN
  /\ StepTo(p, "resPulls", IF ~ openPR /\ renewalPlan(Expected(p), r)
                                /\ OnlyWorktree(p) /\ RefsMatch(p, r.local, r.remote)
                             THEN "resIssue" ELSE "idle")
  /\ Keep(p, proof[p])
  /\ UNCHANGED <<now, gitVars, issueVars, history, handoffs>>

ResumeIssue(p) ==
  /\ StepTo(p, "resIssue", IF issueOpen THEN "resItem" ELSE "idle")
  /\ Keep(p, [proof[p] EXCEPT !.read.needs = needsHuman])
  /\ UNCHANGED <<now, gitVars, issueVars, history, handoffs>>

(* A first recovery needs the label and Backlog; the second proof must     *)
(* equal the first (sameClaimResumeProof).                                 *)
ResumeItem(p) ==
  LET r == [proof[p].read EXCEPT !.item = status]
      renewed == Renewal(Expected(p), r)
      first == proof[p].phase = "none" IN
  /\ StepTo(p, "resItem",
       IF \/ status \notin {"Backlog", "Picked"}
          \/ renewed = NoCommit /\ ~ (r.needs /\ status = "Backlog")
          \/ ~ first /\ r # proof[p].sealed THEN "idle"
       ELSE IF first THEN "resHeads"
       ELSE IF renewed = NoCommit THEN "resCreate" ELSE "resAdopt")
  /\ Keep(p, [proof[p] EXCEPT !.sealed = r, !.phase = "fresh"])
  /\ UNCHANGED <<now, gitVars, issueVars, history, handoffs>>

-----------------------------------------------------------------------------
(* createClaimResumeRenewal: a marker of the same run on the expected head *)
(* that no ref names yet; its lease is counted from now.                   *)
ResumeCreate(p) ==
  /\ StepTo(p, "resCreate", "resAdopt")
  /\ Keep(p, [proof[p] EXCEPT !.lease = now + Lease])
  /\ UNCHANGED <<now, gitVars, issueVars, history, handoffs>>

(* Mutant: the local branch is set whatever it points at.                  *)
adoptUnchecked(p) ==
  LET id == Len(commits) + 1
      expected == Expected(p) IN
  /\ job[p].at = "resAdopt" /\ id <= MaxCommits
  /\ Become(p, [job[p] EXCEPT !.at = "resPush", !.made = id])
  /\ commits' = Append(commits, [run |-> commits[expected].run, lease |-> proof[p].lease,
                                 marker |-> TRUE, past |-> commits[expected].past \cup {id}])
  /\ worktree' = [worktree EXCEPT ![p].head = id]
  /\ Keep(p, proof[p])
  /\ UNCHANGED <<now, remote, tracking, archive, issueVars, history, handoffs>>

(* adoptClaimResumeLocalRenewal: update-ref compares the branch with the   *)
(* expected head; a renewal found before is taken over.                    *)
AdoptNew(p) ==
  LET id == Len(commits) + 1
      expected == Expected(p) IN
  /\ Renewal(expected, proof[p].sealed) = NoCommit
  /\ worktree[p].head = expected /\ id <= MaxCommits
  /\ Become(p, [job[p] EXCEPT !.at = "resPush", !.made = id])
  /\ commits' = Append(commits, [run |-> commits[expected].run, lease |-> proof[p].lease,
                                 marker |-> TRUE, past |-> commits[expected].past \cup {id}])
  /\ worktree' = [worktree EXCEPT ![p].head = id]

AdoptFound(p) ==
  LET s == proof[p].sealed
      found == Renewal(Expected(p), s) IN
  /\ found # NoCommit
  /\ s.local = found \/ worktree[p].head = Expected(p)
  /\ Become(p, [job[p] EXCEPT !.at = "resPush", !.made = found])
  /\ worktree' = IF s.local = found THEN worktree ELSE [worktree EXCEPT ![p].head = found]
  /\ UNCHANGED commits

AdoptMoved(p) ==
  LET s == proof[p].sealed IN
  /\ worktree[p].head # Expected(p)
  /\ s.local # Renewal(Expected(p), s)
  /\ Become(p, Idle)
  /\ UNCHANGED <<commits, worktree>>

ResumeAdopt(p) ==
  /\ job[p].at = "resAdopt"
  /\ AdoptNew(p) \/ AdoptFound(p) \/ AdoptMoved(p)
  /\ Keep(p, proof[p])
  /\ UNCHANGED <<now, remote, tracking, archive, issueVars, history, handoffs>>

(* Mutant: the push is not leased to the expected head.                    *)
pushForced(p) ==
  LET head == job[p].made IN
  /\ StepTo(p, "resPush", IF proof[p].sealed.remote = head THEN "resVerify" ELSE "resReread")
  /\ remote' = head /\ tracking' = head /\ published' = published \cup {head}
  /\ Keep(p, proof[p])
  /\ UNCHANGED <<now, commits, archive, worktree, issueVars, granted, handoffs>>

(* pushClaimResumeRenewal: --force-with-lease on the expected head, unless *)
(* the remote had the renewal.  Whatever the push answers, the remote is   *)
(* read again.                                                             *)
ResumePush(p) ==
  LET head == job[p].made
      done == proof[p].sealed.remote = head IN
  /\ StepTo(p, "resPush", IF done THEN "resVerify" ELSE "resReread")
  /\ IF ~ done /\ remote = Expected(p)
       THEN remote' = head /\ tracking' = head /\ published' = published \cup {head}
       ELSE UNCHANGED <<remote, tracking, published>>
  /\ Keep(p, proof[p])
  /\ UNCHANGED <<now, commits, archive, worktree, issueVars, granted, handoffs>>

(* The push fails on the way, or its answer is lost: the tracking ref      *)
(* follows only an answered push.                                          *)
ResumePushLost(p) ==
  LET head == job[p].made IN
  /\ proof[p].sealed.remote # head
  /\ StepTo(p, "resPush", "resReread")
  /\ \/ UNCHANGED <<remote, published>>
     \/ remote = Expected(p) /\ remote' = head /\ published' = published \cup {head}
  /\ Keep(p, proof[p])
  /\ UNCHANGED <<now, commits, tracking, archive, worktree, issueVars, granted, handoffs>>

(* Mutant: a push whose answer says nothing is taken for done.             *)
rereadTrusting(p) ==
  /\ StepTo(p, "resReread", "resTarget")
  /\ Keep(p, [proof[p] EXCEPT !.phase = "label"])
  /\ UNCHANGED <<now, gitVars, issueVars, history, handoffs>>

ResumeReread(p) ==
  /\ StepTo(p, "resReread", IF remote = job[p].made THEN "resVerify" ELSE "idle")
  /\ Keep(p, proof[p])
  /\ UNCHANGED <<now, gitVars, issueVars, history, handoffs>>

(* verifyClaimResumeRenewal: HEAD, the lease of the renewal, the worktrees *)
(* and the remote; then no pull request, and the refs of the clone.        *)
ResumeVerify(p) ==
  LET head == job[p].made IN
  /\ StepTo(p, "resVerify", IF /\ worktree[p].head = head /\ ValidRenewal(head, Expected(p))
                               /\ OnlyWorktree(p) /\ remote = head
                              THEN "resVerifyRefs" ELSE "idle")
  /\ Keep(p, proof[p])
  /\ UNCHANGED <<now, gitVars, issueVars, history, handoffs>>

ResumeVerifyRefs(p) ==
  /\ StepTo(p, "resVerifyRefs", IF ~ openPR /\ RefsMatch(p, job[p].made, job[p].made)
                                  THEN "resTarget" ELSE "idle")
  /\ Keep(p, [proof[p] EXCEPT !.phase = "label"])
  /\ UNCHANGED <<now, gitVars, issueVars, history, handoffs>>

-----------------------------------------------------------------------------
(* readClaimResumeReconciliationTarget precedes each change on GitHub: the *)
(* issue is open, it has no open pull request, and the item ...            *)
TargetIssue(p) ==
  /\ StepTo(p, "resTarget", IF issueOpen THEN "resTargetPulls" ELSE "idle")
  /\ Keep(p, [proof[p] EXCEPT !.read.needs = needsHuman])
  /\ UNCHANGED <<now, gitVars, issueVars, history, handoffs>>

TargetPulls(p) ==
  /\ StepTo(p, "resTargetPulls", IF openPR THEN "idle" ELSE "resTargetItem")
  /\ Keep(p, proof[p])
  /\ UNCHANGED <<now, gitVars, issueVars, history, handoffs>>

(* ... is in Backlog or Picked.  reconcileClaimResumeIssue: the label goes *)
(* first (a first recovery still needs it, and Backlog), and the Project   *)
(* is written after one more reading and read back.                        *)
TargetHolds(p) ==
  /\ status \in {"Backlog", "Picked"}
  /\ \/ proof[p].phase # "label"
     \/ Renewal(Expected(p), proof[p].sealed) # NoCommit
     \/ proof[p].read.needs /\ status = "Backlog"

Reconciled(p) == TargetHolds(p) /\ ~ proof[p].read.needs /\ status = "Picked"

NextMutation(p) ==
  LET needs == proof[p].read.needs
      phase == proof[p].phase IN
  CASE ~ TargetHolds(p) -> "idle"
    [] phase = "label" /\ needs -> "resUnlabel"
    [] Reconciled(p) \/ phase = "check" \/ needs -> "idle"
    [] phase \in {"label", "labelled"} -> "resTarget"
    [] OTHER -> "resPick"

(* The end of a command that succeeds tells the runner it holds the claim. *)
TargetItem(p) ==
  LET next == NextMutation(p) IN
  /\ StepTo(p, "resTargetItem", next)
  /\ Keep(p, IF next = "resTarget" THEN [proof[p] EXCEPT !.phase = "write"] ELSE proof[p])
  /\ IF Reconciled(p)
       THEN Grant(worktree[p].run, job[p].made) ELSE UNCHANGED granted
  /\ UNCHANGED <<now, gitVars, issueVars, published, handoffs>>

(* reconcileClaimResumeNeedsHuman: whatever the removal answers, the issue *)
(* is read again.                                                          *)
RemoveLabel(p) ==
  /\ StepTo(p, "resUnlabel", "resUnlabelled")
  /\ needsHuman' = FALSE
  /\ Keep(p, proof[p])
  /\ UNCHANGED <<now, gitVars, openPR, issueOpen, status, history, handoffs>>

LabelReread(p) ==
  /\ StepTo(p, "resUnlabelled", IF issueOpen /\ ~ needsHuman THEN "resTarget" ELSE "idle")
  /\ Keep(p, [proof[p] EXCEPT !.phase = "labelled"])
  /\ UNCHANGED <<now, gitVars, issueVars, history, handoffs>>

SetPicked(p) ==
  /\ StepTo(p, "resPick", "resTarget")
  /\ status' = "Picked"
  /\ Keep(p, [proof[p] EXCEPT !.phase = "check"])
  /\ UNCHANGED <<now, gitVars, openPR, issueOpen, needsHuman, history, handoffs>>

MutationFails(p) ==
  /\ \/ /\ StepTo(p, "resUnlabel", "resUnlabelled")
        /\ Keep(p, proof[p])
     \/ /\ StepTo(p, "resPick", "resTarget")
        /\ Keep(p, [proof[p] EXCEPT !.phase = "check"])
  /\ UNCHANGED <<now, gitVars, issueVars, history, handoffs>>

-----------------------------------------------------------------------------
(* A commit is made in the worktree while its resume runs.                 *)
WorkMeanwhile(p) ==
  LET id == Len(commits) + 1
      head == worktree[p].head IN
  /\ "work" \in Allowed[p] /\ proof[p].phase # "none" /\ id <= MaxCommits
  /\ commits' = Append(commits, [commits[head] EXCEPT !.marker = FALSE, !.past = @ \cup {id}])
  /\ worktree' = [worktree EXCEPT ![p].head = id]
  /\ UNCHANGED <<now, remote, tracking, archive, issueVars, job, history, resumeVars>>

HandoffStep(p) ==
  \/ HandoffRead(p) \/ HandoffCheck(p) \/ HandoffLabel(p) \/ HandoffVerify(p)
  \/ HandoffBacklog(p) \/ HandoffFinal(p) \/ HandoffPost(p)

(* The steps of a resume none of whose changes fails.                      *)
ResumeStep(p) ==
  \/ (\E expected \in handoffs : ResumeStart(p, expected))
  \/ ResumeHeads(p) \/ ResumePulls(p) \/ ResumeIssue(p) \/ ResumeItem(p)
  \/ ResumeCreate(p) \/ ResumeAdopt(p) \/ ResumePush(p) \/ ResumeReread(p)
  \/ ResumeVerify(p) \/ ResumeVerifyRefs(p)
  \/ TargetIssue(p) \/ TargetPulls(p) \/ TargetItem(p)
  \/ RemoveLabel(p) \/ LabelReread(p) \/ SetPicked(p)

ClaimStep(p) ==
  /\ Step(p) \/ SyncStep(p)
  /\ Keep(p, proof[p])
  /\ UNCHANGED handoffs

ResumeNext ==
  \/ \E p \in Runners : ClaimStep(p) \/ HandoffStep(p) \/ ResumeStep(p)
                          \/ ResumePushLost(p) \/ MutationFails(p) \/ WorkMeanwhile(p)
  \/ (Tick \/ Human) /\ UNCHANGED resumeVars

ResumeSpec == ResumeInit /\ [][ResumeNext]_allVars

(* A started command goes on or fails.  Syncs are started again and again, *)
(* between the other commands of the runner that starts them.              *)
FairResumeSpec ==
  /\ ResumeSpec
  /\ \A p \in Runners :
       WF_allVars(job[p].at # "idle" /\ (ClaimStep(p) \/ HandoffStep(p) \/ ResumeStep(p)))
  /\ SF_allVars(\E p \in Runners : SyncItems(p) /\ ClaimStep(p))

-----------------------------------------------------------------------------
(* An agent's work survives (docs/operations.md:14, "preserve no-PR        *)
(* worktrees"): while a worktree belongs to a run, only a renewal, which   *)
(* is empty, may leave the history of its HEAD (the rollback of renewClaim,*)
(* claim.go:309-316); a commit never does, whenever it was made.           *)
WorkKept ==
  [][\A p \in Runners :
       worktree[p].run # NoCommit /\ worktree'[p].run = worktree[p].run =>
         \A c \in commits[worktree[p].head].past \ commits'[worktree'[p].head].past :
           commits[c].marker]_allVars

(* "no-source reconciles after renewal" (docs/operations.md:35): a resume  *)
(* takes the label of the handoff off only once its renewal is published   *)
(* and in the worktree.  The push may have failed, or its answer may be    *)
(* lost, in any attempt before.                                            *)
LabelHeldUntilRenewed ==
  [][\A p \in Runners : RemoveLabel(p) /\ needsHuman /\ ~ needsHuman' =>
       job[p].made \in published /\ IsAncestor(job[p].made, worktree[p].head)]_allVars

(* "Run `...` again" (claim_resume.go:23-31): a resume that stopped        *)
(* anywhere after it moved the local branch is completed by rerunning it,  *)
(* with sync running beside it: the claim renewed on the remote, the label *)
(* off, the Project Picked.  What it refuses for ever is named: the state  *)
(* of the issue, a pull request, a claim taken over, a second worktree,    *)
(* work on the local branch, and a renewal whose lease ran out first.      *)
(* This is about runners without `claim renew`: the local commit of a      *)
(* renewal that was interrupted looks the same.                            *)
Interrupted(p, expected) ==
  /\ expected \in handoffs /\ commits[expected].run = worktree[p].run
  /\ IsRenewal(worktree[p].head, expected)

Resumed(p) ==
  remote = worktree[p].head /\ ~ needsHuman /\ status = "Picked"

Refused(p) ==
  \/ ~ issueOpen \/ openPR \/ status \notin {"Backlog", "Picked"}
  \/ remote # worktree[p].head /\ remote \notin handoffs
  \/ ~ OnlyWorktree(p)
  \/ ~ Live(worktree[p].head)

Rerunning == \E p \in Runners : ResumeStep(p) \/ (SyncStep(p) /\ Keep(p, proof[p]) /\ UNCHANGED handoffs)

Rerun ==
  \E p \in Runners : \E expected \in handoffs :
    Interrupted(p, expected) /\ ResumeStart(p, expected)

ResumeConverges ==
  <>[][Rerunning]_allVars /\ SF_allVars(Rerun) =>
    <>[](\A p \in Runners, expected \in handoffs :
           Interrupted(p, expected) => Resumed(p) \/ Refused(p))
=============================================================================
