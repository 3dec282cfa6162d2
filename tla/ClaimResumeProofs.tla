------------------------- MODULE ClaimResumeProofs -------------------------
(***************************************************************************)
(* Proofs about ClaimResume, for any set of runners, any lease and any     *)
(* bounds: beside handoffs, resumes and sync the claim protocol keeps what *)
(* ClaimsProofs proves of it alone, an agent's work stays in its worktree, *)
(* and the label of a handoff stays until its renewal is published.        *)
(***************************************************************************)
EXTENDS ClaimResume, ClaimsProofs

SyncPhases == {"syncList", "syncInspect", "syncIssue", "syncWrite"}

ProofRecord ==
  [read : Reading, sealed : Reading, lease : 0 .. Horizon + Lease,
   phase : {"none", "fresh", "label", "labelled", "write", "check"}]

HandoffsTyped == handoffs \subseteq Made /\ proof \in [Runners -> ProofRecord]

(* What sync is about to write can be written.                             *)
SyncSound(command) == command.at \in SyncPhases => command.read \in Statuses

HandoffSound(command) == command.at \in HandoffPhases => command.seen # NoCommit

(* A new claim is of a run no worktree belongs to yet; putting a renewal   *)
(* back takes only empty commits away.                                     *)
RollbackSound(command, branch) ==
  /\ command.at \in {"push", "worktree"} => command.made # branch.run
  /\ command.at \in {"renewCheck", "renewCommit"} => command.made = branch.head
  /\ command.at \in {"renewPush", "restore"} =>
       \A c \in commits[branch.head].past \ commits[command.made].past : commits[c].marker

(* What a resume has established: whose head it resumes, which had run     *)
(* out; that what it found ahead of that head is a renewal of it; the      *)
(* lease of a renewal it makes; and, once it has verified its renewal,     *)
(* that it is published and in the history of HEAD.                        *)
Confirmed == {"resVerifyRefs", "resTarget", "resTargetPulls", "resTargetItem", "resUnlabel",
              "resUnlabelled", "resPick"}
Renewed == {"resPush", "resReread", "resVerify"} \cup Confirmed

Planned(expected, heads) ==
  \A head \in {heads.local, heads.remote} \ {expected} : IsRenewal(head, expected)

ResumeSound(command, branch, record) ==
  LET expected == command.seen IN
  /\ record.phase # "none" => command.at \in ResumePhases
  /\ command.at \in ResumePhases => expected \in Made /\ commits[expected].run = branch.run
  /\ command.at \in ResumePhases \ {"resHeads"} => ~ Live(expected)
  /\ command.at \in {"resIssue", "resItem"} => Planned(expected, record.read)
  /\ command.at \in {"resCreate", "resAdopt"} => Planned(expected, record.sealed)
  /\ command.at = "resAdopt" =>
       \/ Renewal(expected, record.sealed) # NoCommit
       \/ commits[expected].lease <= record.lease /\ record.lease <= now + Lease
  /\ command.at \in Renewed => IsRenewal(command.made, expected)
  /\ command.at \in Confirmed => command.made \in published /\ IsAncestor(command.made, branch.head)

CommandSound(p) ==
  /\ SyncSound(job[p]) /\ HandoffSound(job[p])
  /\ RollbackSound(job[p], worktree[p]) /\ ResumeSound(job[p], worktree[p], proof[p])

RInv == IInv /\ HandoffsTyped /\ \A p \in Runners : CommandSound(p)
-----------------------------------------------------------------------------
(* What the claim protocol needs of a step                                 *)

(* Places where a command has established nothing of the claim.            *)
Free == {"idle"} \cup SyncPhases \cup HandoffPhases \cup ResumePhases

LEMMA FreePlaces ==
  /\ Free \subseteq Phases
  /\ Free \cap {"inspect", "pulls", "archive", "delete", "push", "renewCheck", "renewCommit",
                "renewPush", "restore", "deadline", "prCheck", "prLookup", "prPush", "prHeads",
                "prDeadline"} = {}
  BY DEF Free, SyncPhases, HandoffPhases, ResumePhases, Phases

LEMMA FreeSound ==
  ASSUME NEW p \in Runners, worktree'[p].run # NoCommit => worktree'[p].head # NoCommit,
         job'[p].at \in Free
  PROVE  JobSound(p)'
  <1>1. ~ At(p, {"inspect", "pulls", "archive", "delete", "push", "renewCheck", "renewCommit",
                 "renewPush", "restore", "deadline", "prCheck", "prLookup", "prPush", "prHeads",
                 "prDeadline"})'
    BY FreePlaces DEF At
  <1> QED
    BY <1>1 DEF JobSound, StaleSound, MarkerSound, BranchSound, At

(* Any step of a runner keeps what the protocol needs if it only adds      *)
(* commits to histories of their run, moves the branch as a push does,     *)
(* and grants what is published.                                           *)
Adds ==
  /\ commits' \in Seq(Commit) /\ Len(commits') <= MaxCommits
  /\ Kept /\ Known \subseteq Known' /\ Histories'

Grants ==
  \/ granted' = granted
  \/ \E c \in Made : c \in published' /\ commits' = commits /\ Grant(commits[c].run, c)

LEMMA StepKeeps ==
  ASSUME IInv, NEW p \in Runners, now' = now, archive' = archive, Adds, Grants,
         UNCHANGED <<remote, published>> \/ (\E head \in Made : Pushed(head)),
         tracking' \in Known', IssueTyped', BranchTaken(p, Branch'), JobTaken(p, Job'),
         worktree'[p].run # NoCommit => worktree'[p].head # NoCommit, job'[p].at \in Free
  PROVE  IInv'
  <1>1. /\ TypeOK /\ RefsPublished /\ GrantsBacked /\ now \in Nat /\ Made \subseteq Known
        /\ NoCommit \notin archive' \ archive /\ archive \subseteq archive'
        /\ published \subseteq published' /\ Kept /\ Known \subseteq Known'
    BY MadeTyped DEF IInv, RefsSound, Adds, Pushed
  <1>2. RefsSound'
    <2>1. (RefsPublished /\ LiveHeld /\ PublishedPreserved)'
      BY <1>1, QuietKeepsRefs, PushKeepsRefs
    <2>2. GrantsBacked'
      <3>1. CASE granted' = granted
        BY <1>1, <3>1, GrantsKept DEF GrantsBacked
      <3>2. CASE \E c \in Made : c \in published' /\ commits' = commits /\ Grant(commits[c].run, c)
        BY <1>1, <3>2, GrantsAdded
      <3> QED
        BY <3>1, <3>2 DEF Grants
    <2> QED
      BY <2>1, <2>2 DEF RefsSound
  <1>3. TypeOK'
    <2>1. remote' \in Known' /\ published' \subseteq Known' /\ archive' \subseteq Known'
      BY <1>1 DEF TypeOK, Pushed
    <2>2. granted' \subseteq [run : Known', until : 0 .. Horizon + Lease]
      <3>1. CASE granted' = granted
        BY <1>1, <3>1 DEF TypeOK
      <3>2. ASSUME NEW c \in Made, Grant(commits[c].run, c)
            PROVE  granted' \subseteq [run : Known', until : 0 .. Horizon + Lease]
        <4>1. commits[c].run \in Known /\ commits[c].lease \in 0 .. Horizon + Lease
          BY <1>1, MadeTyped, Bounds DEF IInv, Histories
        <4> QED
          BY <1>1, <3>2, <4>1 DEF Grant, TypeOK
      <3> QED
        BY <3>1, <3>2 DEF Grants
    <2>3. worktree' \in [Runners -> Branch'] /\ job' \in [Runners -> Job']
      BY <1>1 DEF TypeOK, BranchTaken, JobTaken, Branch, Job, Reads
    <2>4. now' \in 0 .. Horizon /\ commits' \in Seq(Commit) /\ Len(commits') <= MaxCommits
      BY <1>1 DEF TypeOK, Adds
    <2> QED
      BY <2>1, <2>2, <2>3, <2>4 DEF TypeOK, Branch, Job, Reads, IssueTyped
  <1>4. ASSUME NEW q \in Runners PROVE JobSound(q)'
    <2>1. CASE q = p
      BY <2>1, FreeSound
    <2>2. CASE q # p
      <3>1. job'[q] = job[q] /\ worktree'[q] = worktree[q]
        BY <1>1, <2>2 DEF TypeOK, JobTaken, BranchTaken
      <3> QED
        BY <1>1, <3>1, OtherSound
    <2> QED
      BY <2>1, <2>2
  <1> QED
    BY <1>2, <1>3, <1>4 DEF IInv, Adds

(* A step that only reads, or changes the issue or the Project.            *)
LEMMA ReadingKeeps ==
  ASSUME IInv, NEW p \in Runners,
         UNCHANGED <<now, commits, remote, archive, worktree, published, granted>>,
         tracking' \in {tracking, remote}, IssueTyped', JobTaken(p, Job), job'[p].at \in Free
  PROVE  IInv'
  <1>1. TypeOK /\ Histories /\ JobSound(p) /\ now \in Nat
    BY MadeTyped DEF IInv
  <1>2. Made' = Made /\ Known' = Known /\ Job' = Job /\ Branch' = Branch
    BY DEF Made, Known, Job, Branch
  <1>3. Adds
    BY <1>1, <1>2, HistoriesKept, MadeTyped DEF Adds, Kept, TypeOK
  <1>4. BranchTaken(p, Branch') /\ tracking' \in Known' /\ JobTaken(p, Job')
    BY <1>1, <1>2 DEF TypeOK, BranchTaken, Branch, JobTaken
  <1>5. worktree'[p].run # NoCommit => worktree'[p].head # NoCommit
    BY <1>1 DEF JobSound, BranchSound
  <1> QED
    BY <1>3, <1>4, <1>5, StepKeeps DEF Grants

-----------------------------------------------------------------------------
(* What a resume has established                                           *)

LEMMA RInvMeans ==
  ASSUME RInv, NEW p \in Runners
  PROVE  /\ IInv /\ TypeOK /\ HandoffsTyped /\ CommandSound(p) /\ JobSound(p)
         /\ job[p] \in Job /\ job \in [Runners -> Job]
         /\ worktree[p] \in Branch /\ worktree \in [Runners -> Branch]
         /\ proof[p] \in ProofRecord /\ proof \in [Runners -> ProofRecord]
         /\ job[p].seen \in Known /\ job[p].made \in Known
         /\ worktree[p].head \in Known /\ worktree[p].run \in Known
         /\ Known = Made \cup {NoCommit} /\ NoCommit \notin Made
         /\ now \in Nat /\ handoffs \subseteq Made
  <1>1. IInv /\ TypeOK /\ HandoffsTyped /\ CommandSound(p) /\ JobSound(p)
    BY DEF RInv, IInv
  <1>2. job \in [Runners -> Job] /\ worktree \in [Runners -> Branch]
    BY <1>1 DEF TypeOK, Job, Reads, Branch
  <1>3. proof \in [Runners -> ProofRecord] /\ handoffs \subseteq Made
    BY <1>1 DEF HandoffsTyped
  <1>4. job[p] \in Job /\ worktree[p] \in Branch /\ proof[p] \in ProofRecord
    BY <1>2, <1>3
  <1> QED
    BY <1>1, <1>2, <1>3, <1>4, MadeTyped DEF Job, Branch

(* A renewal stays one: commits do not change.                             *)
LEMMA RenewalsKept ==
  ASSUME TypeOK, Kept, NEW c \in Known, NEW expected \in Made, IsRenewal(c, expected)
  PROVE  IsRenewal(c, expected)' /\ c \in Made
  <1>1. c \in Made
    BY MadeTyped DEF IsRenewal
  <1>2. commits'[c] = commits[c] /\ commits'[expected] = commits[expected]
    BY <1>1 DEF Kept
  <1> QED
    BY <1>1, <1>2 DEF IsRenewal

LEMMA PlansKept ==
  ASSUME TypeOK, Kept, NEW heads \in Reading, NEW expected \in Made, Planned(expected, heads)
  PROVE  Planned(expected, heads)'
  <1>1. heads.local \in Known /\ heads.remote \in Known
    BY DEF Reading
  <1>2. \A head \in {heads.local, heads.remote} \ {expected} : IsRenewal(head, expected)'
    BY <1>1, RenewalsKept DEF Planned
  <1> QED
    BY <1>2 DEF Planned

(* What a resume has established stays while its branch keeps its run and  *)
(* its HEAD only gets more history.                                        *)
LEMMA ResumeKept ==
  ASSUME RInv, NEW p \in Runners, Kept, now' \in Nat, now' >= now, published \subseteq published',
         job'[p] = job[p], proof'[p] = proof[p], worktree'[p].run = worktree[p].run,
         worktree[p].head \in Made =>
           \A c \in Made : IsAncestor(c, worktree[p].head) => IsAncestor(c, worktree[p].head)'
  PROVE  ResumeSound(job[p], worktree[p], proof[p])'
  <1> DEFINE expected == job[p].seen
  <1>1. /\ TypeOK /\ JobSound(p) /\ proof[p].read \in Reading
        /\ ResumeSound(job[p], worktree[p], proof[p])
        /\ proof[p].sealed \in Reading /\ proof[p].lease \in Nat
        /\ job[p].made \in Known /\ worktree[p].head \in Known /\ Known = Made \cup {NoCommit}
        /\ worktree[p].run \in Known /\ now \in Nat
    BY RInvMeans, Bounds DEF ProofRecord, CommandSound
  <1>2. /\ \A c \in Made : commits'[c] = commits[c]
        /\ \A c \in Made : Live(c)' => Live(c)
    BY <1>1, CommitsKept
  <1>3. CASE job[p].at \in ResumePhases
    <2>1. expected \in Made /\ commits'[expected] = commits[expected]
      BY <1>1, <1>2, <1>3 DEF ResumeSound
    <2>2. expected \in Made' /\ (~ Live(expected) => ~ Live(expected)')
      BY <1>2, <2>1 DEF Made, Kept
    <2>3. /\ Planned(expected, proof[p].read) => Planned(expected, proof[p].read)'
          /\ Planned(expected, proof[p].sealed) => Planned(expected, proof[p].sealed)'
      BY <1>1, <2>1, PlansKept
    <2>4. IsRenewal(job[p].made, expected) => IsRenewal(job[p].made, expected)' /\ job[p].made \in Made
      BY <1>1, <2>1, RenewalsKept
    <2>5. Renewal(expected, proof[p].sealed)' = Renewal(expected, proof[p].sealed)
      BY DEF Renewal
    <2>6. worktree[p].run # NoCommit /\ worktree[p].head \in Made
      BY <1>1, <1>3, <2>1, MadeTyped
      DEF ResumeSound, JobSound, BranchSound, CommitIds, NoCommit
    <2>7. proof[p].lease <= now + Lease => proof[p].lease <= now' + Lease
      BY <1>1, Bounds
    <2>8. Confirmed \subseteq Renewed
      BY DEF Renewed
    <2>9. job[p].at \in Confirmed =>
            job[p].made \in published' /\ IsAncestor(job[p].made, worktree[p].head)'
      BY <1>1, <2>4, <2>6, <2>8 DEF ResumeSound
    <2> QED
      BY <1>1, <1>3, <2>1, <2>2, <2>3, <2>4, <2>5, <2>7, <2>9 DEF ResumeSound
  <1>4. CASE job[p].at \notin ResumePhases
    BY <1>1, <1>4 DEF ResumeSound, ResumePhases, Renewed, Confirmed
  <1> QED
    BY <1>3, <1>4

(* What a command has established, other commands and the clock leave.     *)
LEMMA CommandKept ==
  ASSUME RInv, NEW p \in Runners, Kept, now' \in Nat, now' >= now, published \subseteq published',
         job'[p] = job[p], proof'[p] = proof[p], worktree'[p] = worktree[p]
  PROVE  CommandSound(p)'
  <1>1. /\ TypeOK /\ CommandSound(p) /\ JobSound(p)
        /\ job[p].made \in Known /\ worktree[p].head \in Known /\ Known = Made \cup {NoCommit}
    BY RInvMeans
  <1>2. /\ \A c \in Made : commits'[c] = commits[c]
        /\ \A c, head \in Made : IsAncestor(c, head)' <=> IsAncestor(c, head)
    BY <1>1, CommitsKept
  <1>3. SyncSound(job[p])' /\ HandoffSound(job[p])'
    BY <1>1 DEF CommandSound, SyncSound, HandoffSound
  <1>4. RollbackSound(job[p], worktree[p])'
    <2>1. job[p].at \in {"renewPush", "restore"} =>
            /\ job[p].made \in Made /\ worktree[p].head \in Made
            /\ commits[worktree[p].head].past \subseteq Made
      BY <1>1 DEF JobSound, MarkerSound, BranchSound, At, RInv, IInv, Histories
    <2>2. /\ job[p].at \in {"push", "worktree"} => job[p].made # worktree[p].run
          /\ job[p].at \in {"renewCheck", "renewCommit"} => job[p].made = worktree[p].head
      BY <1>1 DEF CommandSound, RollbackSound
    <2>3. job[p].at \in {"renewPush", "restore"} =>
            \A c \in commits'[worktree[p].head].past \ commits'[job[p].made].past : commits'[c].marker
      BY <1>1, <1>2, <2>1 DEF CommandSound, RollbackSound
    <2> QED
      BY <2>2, <2>3 DEF RollbackSound
  <1>5. worktree[p].head \in Made =>
          \A c \in Made : IsAncestor(c, worktree[p].head) => IsAncestor(c, worktree[p].head)'
    <2> DEFINE head == worktree[p].head
    <2>1. worktree'[p].head = head
      OBVIOUS
    <2> HIDE DEF head
    <2>2. head \in Made => \A c \in Made : IsAncestor(c, head) => c \in commits'[head].past
      BY <1>2 DEF IsAncestor
    <2>3. head \in Made => \A c \in Made : IsAncestor(c, head) => IsAncestor(c, worktree[p].head)'
      BY <2>1, <2>2 DEF IsAncestor
    <2> QED
      BY <2>3 DEF head
  <1> QED
    BY <1>3, <1>4, <1>5, ResumeKept DEF CommandSound

-----------------------------------------------------------------------------
(* Steps                                                                   *)

LEMMA NothingTyped == ASSUME TypeOK PROVE Nothing \in ProofRecord
  <1>1. NoCommit \in Known /\ 0 \in 0 .. Horizon + Lease
    BY MadeTyped, Bounds
  <1>2. NoReading \in Reading
    BY <1>1 DEF NoReading, Reading, Statuses
  <1> QED
    BY <1>1, <1>2 DEF Nothing, ProofRecord

(* A command that ends forgets what it has read.                           *)
LEMMA KeepFacts ==
  ASSUME RInv, NEW p \in Runners, NEW record, Keep(p, record)
  PROVE  /\ proof' = [proof EXCEPT ![p] = proof'[p]]
         /\ job'[p].at = "idle" => proof'[p] = Nothing
         /\ job'[p].at # "idle" => proof'[p] = record
  BY RInvMeans DEF Keep

LEMMA IdleSound ==
  ASSUME NEW p \in Runners, job'[p].at = "idle", proof'[p].phase = "none"
  PROVE  CommandSound(p)'
  <1>1. job'[p].at \notin SyncPhases \cup HandoffPhases \cup ResumePhases
    BY DEF SyncPhases, HandoffPhases, ResumePhases
  <1>2. Renewed \subseteq ResumePhases /\ Confirmed \subseteq ResumePhases
    BY DEF Renewed, Confirmed, ResumePhases
  <1> QED
    BY <1>1, <1>2 DEF CommandSound, SyncSound, HandoffSound, RollbackSound, ResumeSound

(* The steps of one runner leave what the others have established.         *)
LEMMA Carried ==
  ASSUME RInv, NEW p \in Runners, IInv', Kept, now' = now, published \subseteq published',
         JobTaken(p, Job'), BranchTaken(p, Branch'), proof' = [proof EXCEPT ![p] = proof'[p]],
         proof'[p] \in ProofRecord', handoffs' \subseteq Made', CommandSound(p)'
  PROVE  RInv'
  <1>1. /\ TypeOK /\ now \in Nat /\ job \in [Runners -> Job] /\ worktree \in [Runners -> Branch]
        /\ proof \in [Runners -> ProofRecord] /\ Known \subseteq Known'
    <2>1. Known \subseteq Known'
      BY RInvMeans DEF Kept, Known, IInv, TypeOK
    <2> QED
      BY <2>1, RInvMeans
  <1>2. HandoffsTyped'
    <2>1. Reading \subseteq Reading'
      BY <1>1 DEF Reading
    <2>2. ProofRecord \subseteq ProofRecord'
      BY <2>1 DEF ProofRecord
    <2> QED
      BY <1>1, <2>2 DEF HandoffsTyped
  <1>3. ASSUME NEW q \in Runners, q # p PROVE CommandSound(q)'
    <2>1. job'[q] = job[q] /\ worktree'[q] = worktree[q] /\ proof'[q] = proof[q]
      BY <1>1, <1>3 DEF JobTaken, BranchTaken
    <2> QED
      BY <1>1, <2>1, CommandKept
  <1> QED
    BY <1>2, <1>3 DEF RInv

(* A step of a resume that leaves the commits and the worktrees.           *)
LEMMA ResumeMoves ==
  ASSUME RInv, NEW p \in Runners, NEW next \in ResumePhases \cup {"idle"},
         NEW record \in ProofRecord, Goto(p, next), Keep(p, record),
         UNCHANGED <<now, commits, worktree, handoffs>>, published \subseteq published', IInv',
         next # "idle" => ResumeSound([job[p] EXCEPT !.at = next], worktree[p], record)
  PROVE  RInv'
  <1>1. /\ IInv /\ TypeOK /\ job[p] \in Job /\ now \in Nat /\ handoffs \subseteq Made
        /\ next \in Phases
    BY RInvMeans DEF Phases
  <1>2. /\ job'[p] \in Job /\ job'[p].at = next /\ JobTaken(p, Job)
        /\ next # "idle" => job'[p] = [job[p] EXCEPT !.at = next]
    BY <1>1, GotoFacts DEF JobTaken
  <1>3. /\ Made' = Made /\ Known' = Known /\ Job' = Job /\ Branch' = Branch /\ Kept
        /\ ProofRecord' = ProofRecord
    BY <1>1, MadeTyped DEF Made, Known, Job, Branch, Kept, ProofRecord, Reading
  <1>4. /\ proof' = [proof EXCEPT ![p] = proof'[p]] /\ proof'[p] \in ProofRecord
        /\ next = "idle" => proof'[p] = Nothing
        /\ next # "idle" => proof'[p] = record
    BY <1>1, <1>2, KeepFacts, NothingTyped
  <1>5. CommandSound(p)'
    <2>1. CASE next = "idle"
      BY <1>2, <1>4, <2>1, IdleSound DEF Nothing
    <2>2. CASE next # "idle"
      <3>1. job'[p].at \in ResumePhases
        BY <1>2, <2>2
      <3>2. SyncSound(job[p])' /\ HandoffSound(job[p])' /\ RollbackSound(job[p], worktree[p])'
        BY <3>1 DEF SyncSound, HandoffSound, RollbackSound, SyncPhases, HandoffPhases, ResumePhases
      <3>3. ResumeSound(job'[p], worktree'[p], proof'[p])
        BY <1>2, <1>4, <2>2
      <3>4. ResumeSound(job[p], worktree[p], proof[p])'
        BY <1>3, <3>3 DEF ResumeSound, Planned, IsRenewal, Renewal, Live, IsAncestor
      <3> QED
        BY <3>2, <3>4 DEF CommandSound
    <2> QED
      BY <2>1, <2>2
  <1>6. BranchTaken(p, Branch') /\ JobTaken(p, Job')
    BY <1>2, <1>3, RInvMeans DEF BranchTaken
  <1> QED
    BY <1>1, <1>3, <1>4, <1>5, <1>6, Carried

(* A step of a resume that changes nothing of the clone and the remote.    *)
LEMMA ResumeReads ==
  ASSUME RInv, NEW p \in Runners, NEW next \in ResumePhases \cup {"idle"},
         NEW record \in ProofRecord, Goto(p, next), Keep(p, record),
         UNCHANGED <<now, gitVars, published, granted, handoffs>>, IssueTyped',
         next # "idle" => ResumeSound([job[p] EXCEPT !.at = next], worktree[p], record)
  PROVE  RInv'
  <1>1. IInv /\ TypeOK /\ next \in Phases /\ next \in Free
    BY RInvMeans DEF Phases, Free
  <1>2. job'[p].at = next /\ JobTaken(p, Job)
    BY <1>1, GotoFacts DEF JobTaken
  <1>3. IInv'
    BY <1>1, <1>2, ReadingKeeps DEF gitVars
  <1> QED
    BY <1>3, ResumeMoves DEF gitVars

(* A resume goes on to a place that asks no more than where it was.        *)
LEMMA ResumeGoes ==
  ASSUME RInv, NEW p \in Runners, job[p].at \in ResumePhases, NEW next \in ResumePhases,
         NEW record \in ProofRecord
  PROVE  LET expected == job[p].seen IN
         ResumeSound([job[p] EXCEPT !.at = next], worktree[p], record) <=>
           /\ next # "resHeads" => ~ Live(expected)
           /\ next \in {"resIssue", "resItem"} => Planned(expected, record.read)
           /\ next \in {"resCreate", "resAdopt"} => Planned(expected, record.sealed)
           /\ next = "resAdopt" =>
                \/ Renewal(expected, record.sealed) # NoCommit
                \/ commits[expected].lease <= record.lease /\ record.lease <= now + Lease
           /\ next \in Renewed => IsRenewal(job[p].made, expected)
           /\ next \in Confirmed =>
                job[p].made \in published /\ IsAncestor(job[p].made, worktree[p].head)
  <1> DEFINE command == [job[p] EXCEPT !.at = next]
  <1>1. command.at = next /\ command.seen = job[p].seen /\ command.made = job[p].made
    BY RInvMeans DEF Job
  <1>2. job[p].seen \in Made /\ commits[job[p].seen].run = worktree[p].run
    BY RInvMeans DEF CommandSound, ResumeSound
  <1> HIDE DEF command
  <1>3. ResumeSound(command, worktree[p], record) <=>
           /\ next # "resHeads" => ~ Live(job[p].seen)
           /\ next \in {"resIssue", "resItem"} => Planned(job[p].seen, record.read)
           /\ next \in {"resCreate", "resAdopt"} => Planned(job[p].seen, record.sealed)
           /\ next = "resAdopt" =>
                \/ Renewal(job[p].seen, record.sealed) # NoCommit
                \/ commits[job[p].seen].lease <= record.lease /\ record.lease <= now + Lease
           /\ next \in Renewed => IsRenewal(job[p].made, job[p].seen)
           /\ next \in Confirmed =>
                job[p].made \in published /\ IsAncestor(job[p].made, worktree[p].head)
    BY <1>1, <1>2 DEF ResumeSound
  <1> QED
    BY <1>3 DEF command

LEMMA ProvingKeeps ==
  ASSUME RInv, NEW p \in Runners,
         ResumeHeads(p) \/ ResumePulls(p) \/ ResumeIssue(p) \/ ResumeItem(p) \/ ResumeCreate(p)
  PROVE  RInv'
  <1>1. /\ TypeOK /\ ResumeSound(job[p], worktree[p], proof[p]) /\ proof[p] \in ProofRecord
        /\ job[p].seen \in Known /\ worktree[p].head \in Known /\ remote \in Known /\ now \in Nat
        /\ status \in Statuses /\ needsHuman \in BOOLEAN /\ IssueTyped
        /\ proof[p].read \in Reading /\ proof[p].sealed \in Reading /\ now <= Horizon
    BY RInvMeans, MadeTyped DEF CommandSound, ProofRecord, TypeOK, IssueTyped
  <1>2. UNCHANGED <<now, gitVars, published, granted, handoffs>> /\ IssueTyped'
    BY <1>1 DEF ResumeHeads, ResumePulls, ResumeIssue, ResumeItem, ResumeCreate, history, issueVars,
       IssueTyped
  <1>3. CASE ResumeHeads(p)
    <2> DEFINE next == IF remote # NoCommit /\ commits[Expected(p)].marker /\ ~ Live(Expected(p))
                         THEN "resPulls" ELSE "idle"
               record == [proof[p] EXCEPT !.read = [NoReading EXCEPT !.local = worktree[p].head,
                                                                     !.remote = remote]]
    <2>1. job[p].at = "resHeads" /\ Goto(p, next) /\ Keep(p, record)
      BY <1>3 DEF ResumeHeads, StepTo
    <2>2. record \in ProofRecord
      <3>1. [NoReading EXCEPT !.local = worktree[p].head, !.remote = remote] \in Reading
        BY <1>1 DEF NoReading, Reading, Statuses
      <3> QED
        BY <1>1, <3>1 DEF ProofRecord
    <2>3. next \in ResumePhases \cup {"idle"} /\ job[p].at \in ResumePhases
      BY <2>1 DEF ResumePhases
    <2>4. ASSUME next # "idle"
          PROVE  ResumeSound([job[p] EXCEPT !.at = next], worktree[p], record)
      <3>1. next = "resPulls" /\ ~ Live(job[p].seen)
        BY <2>4 DEF Expected
      <3>2. next \in ResumePhases /\ next \notin Renewed \cup Confirmed
        BY <3>1 DEF ResumePhases, Renewed, Confirmed
      <3> HIDE DEF next, record
      <3> QED
        BY <2>2, <2>3, <3>1, <3>2, ResumeGoes
    <2> HIDE DEF next, record
    <2> QED
      BY <1>2, <2>1, <2>2, <2>3, <2>4, ResumeReads
  <1>4. CASE ResumePulls(p)
    <2> DEFINE r == proof[p].read
               next == IF ~ openPR /\ renewalPlan(Expected(p), r)
                           /\ OnlyWorktree(p) /\ RefsMatch(p, r.local, r.remote)
                         THEN "resIssue" ELSE "idle"
    <2>1. job[p].at = "resPulls" /\ Goto(p, next) /\ Keep(p, proof[p])
      BY <1>4 DEF ResumePulls, StepTo
    <2>2. next \in ResumePhases \cup {"idle"} /\ job[p].at \in ResumePhases \ {"resHeads"}
      BY <2>1 DEF ResumePhases
    <2>3. ASSUME next # "idle"
          PROVE  ResumeSound([job[p] EXCEPT !.at = next], worktree[p], proof[p])
      <3>1. next = "resIssue" /\ renewalPlan(job[p].seen, r)
        BY <2>3 DEF Expected
      <3>2. ~ Live(job[p].seen)
        BY <1>1, <2>2 DEF ResumeSound
      <3>3. Planned(job[p].seen, r)
        BY <3>1 DEF renewalPlan, Planned, ValidRenewal
      <3>4. next \in ResumePhases /\ next \notin Renewed \cup Confirmed
        BY <3>1 DEF ResumePhases, Renewed, Confirmed
      <3> HIDE DEF next
      <3> QED
        BY <1>1, <2>2, <3>1, <3>2, <3>3, <3>4, ResumeGoes
    <2> HIDE DEF next
    <2> QED
      BY <1>1, <1>2, <2>1, <2>2, <2>3, ResumeReads
  <1>5. CASE ResumeIssue(p)
    <2> DEFINE next == IF issueOpen THEN "resItem" ELSE "idle"
               record == [proof[p] EXCEPT !.read.needs = needsHuman]
    <2>1. job[p].at = "resIssue" /\ Goto(p, next) /\ Keep(p, record)
      BY <1>5 DEF ResumeIssue, StepTo
    <2>2. record \in ProofRecord
      BY <1>1 DEF ProofRecord, Reading
    <2>3. next \in ResumePhases \cup {"idle"} /\ job[p].at \in ResumePhases
      BY <2>1 DEF ResumePhases
    <2>4. ASSUME next # "idle"
          PROVE  ResumeSound([job[p] EXCEPT !.at = next], worktree[p], record)
      <3>1. next = "resItem" /\ ~ Live(job[p].seen) /\ Planned(job[p].seen, proof[p].read)
        BY <1>1, <2>1, <2>4 DEF ResumeSound, ResumePhases
      <3>2. record.read.local = proof[p].read.local /\ record.read.remote = proof[p].read.remote
        BY <1>1 DEF ProofRecord, Reading
      <3>3. Planned(job[p].seen, record.read)
        BY <3>1, <3>2 DEF Planned
      <3>4. next \in ResumePhases /\ next \notin Renewed \cup Confirmed
        BY <3>1 DEF ResumePhases, Renewed, Confirmed
      <3> HIDE DEF next, record
      <3> QED
        BY <2>2, <2>3, <3>1, <3>3, <3>4, ResumeGoes
    <2> HIDE DEF next, record
    <2> QED
      BY <1>2, <2>1, <2>2, <2>3, <2>4, ResumeReads
  <1>6. CASE ResumeItem(p)
    <2> DEFINE r == [proof[p].read EXCEPT !.item = status]
               renewed == Renewal(Expected(p), r)
               first == proof[p].phase = "none"
               next == IF \/ status \notin {"Backlog", "Picked"}
                          \/ renewed = NoCommit /\ ~ (r.needs /\ status = "Backlog")
                          \/ ~ first /\ r # proof[p].sealed THEN "idle"
                       ELSE IF first THEN "resHeads"
                       ELSE IF renewed = NoCommit THEN "resCreate" ELSE "resAdopt"
               record == [proof[p] EXCEPT !.sealed = r, !.phase = "fresh"]
    <2>1. job[p].at = "resItem" /\ Goto(p, next) /\ Keep(p, record)
      BY <1>6 DEF ResumeItem, StepTo
    <2>2. record \in ProofRecord /\ record.sealed = r
      BY <1>1 DEF ProofRecord, Reading
    <2>3. next \in ResumePhases \cup {"idle"} /\ job[p].at \in ResumePhases
      BY <2>1 DEF ResumePhases
    <2>4. ASSUME next # "idle"
          PROVE  ResumeSound([job[p] EXCEPT !.at = next], worktree[p], record)
      <3>1. /\ next \in {"resHeads", "resCreate", "resAdopt"}
            /\ next = "resAdopt" => Renewal(job[p].seen, r) # NoCommit
        BY <2>4 DEF Expected
      <3>2. ~ Live(job[p].seen) /\ Planned(job[p].seen, proof[p].read)
        BY <1>1, <2>1 DEF ResumeSound, ResumePhases
      <3>3. Planned(job[p].seen, r)
        BY <1>1, <3>2 DEF Planned, Reading
      <3>4. /\ next \in ResumePhases /\ next \notin Renewed \cup Confirmed
            /\ next \notin {"resIssue", "resItem"}
        BY <3>1 DEF ResumePhases, Renewed, Confirmed
      <3> HIDE DEF next, record, r
      <3> QED
        BY <2>2, <2>3, <3>1, <3>2, <3>3, <3>4, ResumeGoes
    <2> HIDE DEF next, record
    <2> QED
      BY <1>2, <2>1, <2>2, <2>3, <2>4, ResumeReads
  <1>7. CASE ResumeCreate(p)
    <2> DEFINE record == [proof[p] EXCEPT !.lease = now + Lease]
    <2>1. job[p].at = "resCreate" /\ Goto(p, "resAdopt") /\ Keep(p, record)
      BY <1>7 DEF ResumeCreate, StepTo
    <2>2. /\ record \in ProofRecord /\ record.sealed = proof[p].sealed
          /\ record.lease = now + Lease
      BY <1>1, Bounds DEF ProofRecord
    <2>3. "resAdopt" \in ResumePhases /\ job[p].at \in ResumePhases
      BY <2>1 DEF ResumePhases
    <2>4. ResumeSound([job[p] EXCEPT !.at = "resAdopt"], worktree[p], record)
      <3>1. ~ Live(job[p].seen) /\ Planned(job[p].seen, proof[p].sealed) /\ job[p].seen \in Made
        BY <1>1, <2>1, <2>3 DEF ResumeSound, ResumePhases
      <3>2. commits[job[p].seen].lease <= record.lease /\ record.lease <= now + Lease
        BY <1>1, <2>2, <3>1, MadeTyped, Bounds DEF Live
      <3>3. "resAdopt" \notin Renewed \cup Confirmed
        BY DEF Renewed, Confirmed
      <3> HIDE DEF record
      <3> QED
        BY <2>2, <2>3, <3>1, <3>2, <3>3, ResumeGoes
    <2> HIDE DEF record
    <2> QED
      BY <1>2, <2>1, <2>2, <2>3, <2>4, ResumeReads
  <1> QED
    BY <1>3, <1>4, <1>5, <1>6, <1>7

(* The steps behind the renewal.                                           *)
LEMMA RenewedReads ==
  ASSUME RInv, NEW p \in Runners, job[p].at \in Renewed, NEW next \in Renewed \cup {"idle"},
         NEW record \in ProofRecord, Goto(p, next), Keep(p, record),
         UNCHANGED <<now, gitVars, published, granted, handoffs>>, IssueTyped',
         next \in Confirmed =>
           \/ job[p].at \in Confirmed
           \/ job[p].made \in published /\ IsAncestor(job[p].made, worktree[p].head)
  PROVE  RInv'
  <1>1. /\ Renewed \subseteq ResumePhases
        /\ Renewed \cap {"resHeads", "resIssue", "resItem", "resCreate", "resAdopt"} = {}
    BY DEF Renewed, Confirmed, ResumePhases
  <1>2. ResumeSound(job[p], worktree[p], proof[p]) /\ "idle" \notin Renewed
    BY RInvMeans, <1>1 DEF CommandSound, ResumePhases
  <1>3. ASSUME next # "idle"
        PROVE  ResumeSound([job[p] EXCEPT !.at = next], worktree[p], record)
    <2>1. next \in Renewed /\ next \in ResumePhases /\ job[p].at \in ResumePhases
      BY <1>1, <1>3
    <2>2. ~ Live(job[p].seen) /\ IsRenewal(job[p].made, job[p].seen)
      BY <1>1, <1>2, <2>1 DEF ResumeSound
    <2>3. next \in Confirmed =>
            job[p].made \in published /\ IsAncestor(job[p].made, worktree[p].head)
      BY <1>2 DEF ResumeSound
    <2> QED
      BY <1>1, <2>1, <2>2, <2>3, ResumeGoes
  <1>4. next \in ResumePhases \cup {"idle"}
    BY <1>1
  <1> QED
    BY <1>3, <1>4, ResumeReads

LEMMA ReconcilingKeeps ==
  ASSUME RInv, NEW p \in Runners,
         \/ ResumeReread(p) \/ ResumeVerify(p) \/ ResumeVerifyRefs(p)
         \/ TargetIssue(p) \/ TargetPulls(p) \/ RemoveLabel(p) \/ LabelReread(p)
         \/ SetPicked(p) \/ MutationFails(p)
  PROVE  RInv'
  <1>1. /\ TypeOK /\ Histories /\ RefsPublished /\ proof[p] \in ProofRecord /\ IssueTyped
        /\ needsHuman \in BOOLEAN /\ ResumeSound(job[p], worktree[p], proof[p])
        /\ worktree[p].head \in Known /\ Known = Made \cup {NoCommit}
    BY RInvMeans DEF TypeOK, IssueTyped, RInv, IInv, RefsSound, CommandSound
  <1>2. UNCHANGED <<now, gitVars, published, granted, handoffs>>
    BY DEF ResumeReread, ResumeVerify, ResumeVerifyRefs, TargetIssue, TargetPulls, RemoveLabel,
       LabelReread, SetPicked, MutationFails, history
  <1>3. IssueTyped'
    BY <1>1 DEF ResumeReread, ResumeVerify, ResumeVerifyRefs, TargetIssue, TargetPulls, RemoveLabel,
       LabelReread, SetPicked, MutationFails, issueVars, IssueTyped, Statuses
  <1>4. /\ [proof[p] EXCEPT !.phase = "label"] \in ProofRecord
        /\ [proof[p] EXCEPT !.phase = "labelled"] \in ProofRecord
        /\ [proof[p] EXCEPT !.phase = "check"] \in ProofRecord
        /\ [proof[p] EXCEPT !.read.needs = needsHuman] \in ProofRecord
    BY <1>1 DEF ProofRecord, Reading
  <1>5. CASE ResumeReread(p)
    <2> DEFINE next == IF remote = job[p].made THEN "resVerify" ELSE "idle"
    <2>1. job[p].at = "resReread" /\ Goto(p, next) /\ Keep(p, proof[p])
      BY <1>5 DEF ResumeReread, StepTo
    <2>2. next \in Renewed \cup {"idle"} /\ next \notin Confirmed /\ job[p].at \in Renewed
      BY <2>1 DEF Renewed, Confirmed
    <2> HIDE DEF next
    <2> QED
      BY <1>1, <1>2, <1>3, <2>1, <2>2, RenewedReads
  <1>6. CASE ResumeVerify(p)
    <2> DEFINE head == job[p].made
               next == IF /\ worktree[p].head = head /\ ValidRenewal(head, Expected(p))
                          /\ OnlyWorktree(p) /\ remote = head
                         THEN "resVerifyRefs" ELSE "idle"
    <2>1. job[p].at = "resVerify" /\ Goto(p, next) /\ Keep(p, proof[p])
      BY <1>6 DEF ResumeVerify, StepTo
    <2>2. next \in Renewed \cup {"idle"} /\ job[p].at \in Renewed
      BY <2>1 DEF Renewed, Confirmed
    <2>3. ASSUME next \in Confirmed
          PROVE  head \in published /\ IsAncestor(head, worktree[p].head)
      <3>1. worktree[p].head = head /\ IsRenewal(head, Expected(p)) /\ remote = head
        BY <2>3 DEF Confirmed, ValidRenewal
      <3>2. head \in Made
        BY <1>1, <3>1 DEF IsRenewal
      <3> QED
        BY <1>1, <3>1, <3>2, MadeTyped DEF RefsPublished, Histories, IsAncestor
    <2> HIDE DEF next
    <2> QED
      BY <1>1, <1>2, <1>3, <2>1, <2>2, <2>3, RenewedReads
  <1>7. CASE ResumeVerifyRefs(p)
    <2> DEFINE next == IF ~ openPR /\ RefsMatch(p, job[p].made, job[p].made)
                         THEN "resTarget" ELSE "idle"
    <2>1. job[p].at = "resVerifyRefs" /\ Goto(p, next)
          /\ Keep(p, [proof[p] EXCEPT !.phase = "label"])
      BY <1>7 DEF ResumeVerifyRefs, StepTo
    <2>2. next \in Renewed \cup {"idle"} /\ job[p].at \in Renewed /\ job[p].at \in Confirmed
      BY <2>1 DEF Renewed, Confirmed
    <2> HIDE DEF next
    <2> QED
      BY <1>2, <1>3, <1>4, <2>1, <2>2, RenewedReads
  <1>8. CASE TargetIssue(p)
    <2> DEFINE next == IF issueOpen THEN "resTargetPulls" ELSE "idle"
    <2>1. job[p].at = "resTarget" /\ Goto(p, next)
          /\ Keep(p, [proof[p] EXCEPT !.read.needs = needsHuman])
      BY <1>8 DEF TargetIssue, StepTo
    <2>2. next \in Renewed \cup {"idle"} /\ job[p].at \in Renewed /\ job[p].at \in Confirmed
      BY <2>1 DEF Renewed, Confirmed
    <2> HIDE DEF next
    <2> QED
      BY <1>2, <1>3, <1>4, <2>1, <2>2, RenewedReads
  <1>9. CASE TargetPulls(p)
    <2> DEFINE next == IF openPR THEN "idle" ELSE "resTargetItem"
    <2>1. job[p].at = "resTargetPulls" /\ Goto(p, next) /\ Keep(p, proof[p])
      BY <1>9 DEF TargetPulls, StepTo
    <2>2. next \in Renewed \cup {"idle"} /\ job[p].at \in Renewed /\ job[p].at \in Confirmed
      BY <2>1 DEF Renewed, Confirmed
    <2> HIDE DEF next
    <2> QED
      BY <1>1, <1>2, <1>3, <2>1, <2>2, RenewedReads
  <1>10. CASE RemoveLabel(p)
    <2>1. job[p].at = "resUnlabel" /\ Goto(p, "resUnlabelled") /\ Keep(p, proof[p])
      BY <1>10 DEF RemoveLabel, StepTo
    <2>2. "resUnlabelled" \in Renewed /\ job[p].at \in Renewed /\ job[p].at \in Confirmed
      BY <2>1 DEF Renewed, Confirmed
    <2> QED
      BY <1>1, <1>2, <1>3, <2>1, <2>2, RenewedReads
  <1>11. CASE LabelReread(p)
    <2> DEFINE next == IF issueOpen /\ ~ needsHuman THEN "resTarget" ELSE "idle"
    <2>1. job[p].at = "resUnlabelled" /\ Goto(p, next)
          /\ Keep(p, [proof[p] EXCEPT !.phase = "labelled"])
      BY <1>11 DEF LabelReread, StepTo
    <2>2. next \in Renewed \cup {"idle"} /\ job[p].at \in Renewed /\ job[p].at \in Confirmed
      BY <2>1 DEF Renewed, Confirmed
    <2> HIDE DEF next
    <2> QED
      BY <1>2, <1>3, <1>4, <2>1, <2>2, RenewedReads
  <1>12. CASE SetPicked(p) \/ MutationFails(p)
    <2>1. \/ job[p].at = "resPick" /\ Goto(p, "resTarget")
             /\ Keep(p, [proof[p] EXCEPT !.phase = "check"])
          \/ job[p].at = "resUnlabel" /\ Goto(p, "resUnlabelled") /\ Keep(p, proof[p])
      BY <1>12 DEF SetPicked, MutationFails, StepTo
    <2>2. /\ {"resTarget", "resUnlabelled"} \subseteq Renewed
          /\ job[p].at \in Renewed /\ job[p].at \in Confirmed
      BY <2>1 DEF Renewed, Confirmed
    <2> QED
      BY <1>1, <1>2, <1>3, <1>4, <2>1, <2>2, RenewedReads
  <1> QED
    BY <1>5, <1>6, <1>7, <1>8, <1>9, <1>10, <1>11, <1>12

(* What a step of the protocol needs beside a grant or a push.             *)
LEMMA NothingMade ==
  ASSUME RInv, NEW p \in Runners, UNCHANGED <<now, commits, worktree>>
  PROVE  /\ Adds /\ BranchTaken(p, Branch') /\ Job' = Job /\ Known' = Known
         /\ worktree'[p].run # NoCommit => worktree'[p].head # NoCommit
  <1>1. TypeOK /\ Histories /\ JobSound(p) /\ now \in Nat /\ worktree \in [Runners -> Branch]
    BY RInvMeans DEF RInv, IInv
  <1>2. Made' = Made /\ Known' = Known /\ Job' = Job /\ Branch' = Branch
    BY DEF Made, Known, Job, Branch
  <1>3. Adds
    BY <1>1, <1>2, HistoriesKept, MadeTyped DEF Adds, Kept, TypeOK
  <1> QED
    BY <1>1, <1>2, <1>3 DEF BranchTaken, JobSound, BranchSound

(* The end of a resume tells the runner of a lease that is published.      *)
LEMMA TargetItemKeeps ==
  ASSUME RInv, NEW p \in Runners, TargetItem(p)
  PROVE  RInv'
  <1> DEFINE next == NextMutation(p)
             record == IF next = "resTarget" THEN [proof[p] EXCEPT !.phase = "write"] ELSE proof[p]
  <1>1. /\ job[p].at = "resTargetItem" /\ Goto(p, next) /\ Keep(p, record)
        /\ IF Reconciled(p) THEN Grant(worktree[p].run, job[p].made) ELSE UNCHANGED granted
        /\ UNCHANGED <<now, gitVars, issueVars, published, handoffs>>
    BY DEF TargetItem, StepTo
  <1>2. /\ IInv /\ TypeOK /\ IssueTyped /\ proof[p] \in ProofRecord
        /\ ResumeSound(job[p], worktree[p], proof[p])
        /\ job[p].made \in Known /\ job[p].seen \in Known /\ Known = Made \cup {NoCommit}
    BY RInvMeans DEF TypeOK, IssueTyped, CommandSound
  <1>3. next \in Renewed \cup {"idle"}
    BY DEF NextMutation, Renewed, Confirmed
  <1>4. /\ Renewed \subseteq ResumePhases /\ "idle" \notin Renewed
        /\ Renewed \cap {"resHeads", "resIssue", "resItem", "resCreate", "resAdopt"} = {}
        /\ job[p].at \in Renewed /\ job[p].at \in Confirmed
    BY <1>1 DEF Renewed, Confirmed, ResumePhases
  <1>5. record \in ProofRecord
    BY <1>2 DEF ProofRecord
  <1>6. /\ ~ Live(job[p].seen) /\ IsRenewal(job[p].made, job[p].seen)
        /\ job[p].seen \in Made /\ commits[job[p].seen].run = worktree[p].run
        /\ job[p].made \in published /\ IsAncestor(job[p].made, worktree[p].head)
    BY <1>2, <1>4 DEF ResumeSound
  <1> HIDE DEF next, record
  <1>7. next # "idle" => ResumeSound([job[p] EXCEPT !.at = next], worktree[p], record)
    BY <1>3, <1>4, <1>5, <1>6, ResumeGoes
  <1>8. IInv'
    <2>1. job[p].made \in Made /\ commits[job[p].made].run = worktree[p].run
      BY <1>2, <1>6 DEF IsRenewal
    <2>2. Grants
      BY <1>1, <1>6, <2>1 DEF Grants, gitVars
    <2>3. next \in Phases /\ next \in Free
      BY <1>3, <1>4 DEF Phases, Free
    <2>4. job'[p].at = next /\ JobTaken(p, Job)
      BY <1>1, <1>2, <2>3, GotoFacts DEF JobTaken
    <2>5. IssueTyped' /\ tracking' \in Known
      BY <1>1, <1>2 DEF IssueTyped, issueVars, TypeOK, gitVars
    <2> QED
      BY <1>1, <1>2, <2>2, <2>3, <2>4, <2>5, NothingMade, StepKeeps DEF gitVars
  <1> QED
    BY <1>1, <1>3, <1>4, <1>5, <1>7, <1>8, ResumeMoves DEF gitVars

(* The push takes the branch from the expected head to its renewal.        *)
LEMMA ResumePushKeeps ==
  ASSUME RInv, NEW p \in Runners, ResumePush(p) \/ ResumePushLost(p)
  PROVE  /\ RInv'
         /\ UNCHANGED <<now, commits, worktree>>
         /\ UNCHANGED <<remote, published>> \/ \E head \in Made : Pushed(head)
  <1> DEFINE head == job[p].made
  <1>1. PICK next \in {"resVerify", "resReread"} :
          /\ job[p].at = "resPush" /\ Goto(p, next) /\ Keep(p, proof[p])
          /\ UNCHANGED <<now, commits, archive, worktree, issueVars, granted, handoffs>>
          /\ tracking' \in {tracking, head}
          /\ \/ UNCHANGED <<remote, published>>
             \/ remote = Expected(p) /\ remote' = head /\ published' = published \cup {head}
    <2>1. CASE ResumePush(p)
      BY <2>1 DEF ResumePush, StepTo
    <2>2. CASE ResumePushLost(p)
      BY <2>2 DEF ResumePushLost, StepTo
    <2> QED
      BY <2>1, <2>2
  <1>2. /\ IInv /\ TypeOK /\ Histories /\ IssueTyped /\ proof[p] \in ProofRecord
        /\ ResumeSound(job[p], worktree[p], proof[p])
        /\ job[p].made \in Known /\ job[p].seen \in Known /\ Known = Made \cup {NoCommit}
    BY RInvMeans DEF TypeOK, IssueTyped, CommandSound, IInv
  <1>3. /\ next \in ResumePhases /\ job[p].at \in ResumePhases \ {"resHeads"}
        /\ job[p].at \in Renewed /\ next \notin Confirmed
        /\ next \notin {"resHeads", "resIssue", "resItem", "resCreate", "resAdopt"}
    BY <1>1 DEF ResumePhases, Renewed, Confirmed
  <1>4. ~ Live(job[p].seen) /\ IsRenewal(head, job[p].seen) /\ job[p].seen \in Made
    BY <1>2, <1>3 DEF ResumeSound
  <1>5. head \in Made
    BY <1>2, <1>4 DEF IsRenewal
  <1>6. ResumeSound([job[p] EXCEPT !.at = next], worktree[p], proof[p])
    BY <1>2, <1>3, <1>4, ResumeGoes
  <1>7. UNCHANGED <<remote, published>> \/ Pushed(head)
    <2>1. remote = Expected(p) => CanPush(head)
      BY <1>2, <1>4 DEF Expected, CanPush, IsAncestor, IsRenewal, Histories
    <2> QED
      BY <1>1, <2>1 DEF Pushed
  <1>8. IInv'
    <2>1. next \in Phases /\ next \in Free
      BY <1>3 DEF Phases, Free
    <2>2. job'[p].at = next /\ JobTaken(p, Job)
      BY <1>1, <1>2, <2>1, GotoFacts DEF JobTaken
    <2>3. IssueTyped' /\ tracking' \in Known
      BY <1>1, <1>2 DEF IssueTyped, issueVars, TypeOK
    <2> QED
      BY <1>1, <1>2, <1>5, <1>7, <2>1, <2>2, <2>3, NothingMade, StepKeeps DEF Grants
  <1>9. published \subseteq published'
    BY <1>7 DEF Pushed
  <1>10. RInv'
    BY <1>1, <1>2, <1>3, <1>6, <1>8, <1>9, ResumeMoves
  <1> QED
    BY <1>1, <1>5, <1>7, <1>10

LEMMA ResumeStartKeeps ==
  ASSUME RInv, NEW p \in Runners, NEW expected \in handoffs, ResumeStart(p, expected)
  PROVE  RInv'
  <1>1. /\ IInv /\ TypeOK /\ IssueTyped /\ now \in Nat /\ expected \in Made
        /\ commits[expected].run = worktree[p].run
        /\ job \in [Runners -> Job] /\ proof \in [Runners -> ProofRecord]
    BY RInvMeans DEF TypeOK, IssueTyped, ResumeStart
  <1>2. UNCHANGED <<now, gitVars, issueVars, published, granted, handoffs>>
    BY DEF ResumeStart, history
  <1>3. /\ job' = [job EXCEPT ![p] = [Idle EXCEPT !.at = "resHeads", !.seen = expected]]
        /\ job'[p].at = "resHeads" /\ job'[p].seen = expected /\ job'[p] \in Job
    <2>1. "resHeads" \in Phases /\ expected \in Known
      BY <1>1, MadeTyped DEF Phases, ResumePhases
    <2>2. /\ [Idle EXCEPT !.at = "resHeads", !.seen = expected] \in Job
          /\ [Idle EXCEPT !.at = "resHeads", !.seen = expected].at = "resHeads"
          /\ [Idle EXCEPT !.at = "resHeads", !.seen = expected].seen = expected
      BY <1>1, <2>1, IdleTyped DEF Job
    <2> QED
      BY <1>1, <2>2 DEF ResumeStart, Become
  <1>4. proof' = [proof EXCEPT ![p] = Nothing] /\ proof'[p] = Nothing
    BY <1>1 DEF ResumeStart
  <1>5. JobTaken(p, Job) /\ Made' = Made /\ Known' = Known /\ Job' = Job /\ Branch' = Branch
        /\ ProofRecord' = ProofRecord
    BY <1>2, <1>3 DEF JobTaken, Made, Known, Job, Branch, ProofRecord, Reading, gitVars
  <1>6. "resHeads" \in ResumePhases /\ "resHeads" \in Free
    BY DEF ResumePhases, Free
  <1>7. IInv'
    BY <1>1, <1>2, <1>3, <1>5, <1>6, ReadingKeeps DEF gitVars, issueVars, IssueTyped
  <1>8. CommandSound(p)'
    <2>1. "resHeads" \notin SyncPhases \cup HandoffPhases \cup Renewed
      BY DEF SyncPhases, HandoffPhases, Renewed, Confirmed
    <2>2. SyncSound(job[p])' /\ HandoffSound(job[p])' /\ RollbackSound(job[p], worktree[p])'
      BY <1>3, <2>1 DEF SyncSound, HandoffSound, RollbackSound
    <2>3. expected \in Made' /\ commits'[expected].run = worktree'[p].run
      BY <1>1, <1>2, <1>5 DEF gitVars
    <2>4. ResumeSound(job[p], worktree[p], proof[p])'
      BY <1>3, <1>4, <1>6, <2>1, <2>3 DEF ResumeSound, Nothing, Renewed
    <2> QED
      BY <2>2, <2>4 DEF CommandSound
  <1>9. Kept /\ BranchTaken(p, Branch') /\ handoffs' \subseteq Made'
    BY <1>1, <1>2, <1>5, RInvMeans, MadeTyped DEF Kept, BranchTaken, gitVars
  <1> QED
    BY <1>1, <1>2, <1>4, <1>5, <1>7, <1>8, <1>9, NothingTyped, Carried

(* Taking a renewal into the worktree, made now or found.                  *)
LEMMA AdoptedKeeps ==
  ASSUME RInv, NEW p \in Runners, NEW expected, job[p].at = "resAdopt", job[p].seen = expected,
         NEW made \in Made',
         Become(p, [job[p] EXCEPT !.at = "resPush", !.made = made]), Keep(p, proof[p]),
         Adds, IsRenewal(made, expected)', BranchTaken(p, Branch'),
         worktree'[p].run = worktree[p].run, worktree'[p].head # NoCommit,
         UNCHANGED <<now, remote, tracking, archive, issueVars, history, handoffs>>
  PROVE  RInv'
  <1>1. /\ IInv /\ TypeOK /\ IssueTyped /\ now \in Nat /\ job[p] \in Job /\ job \in [Runners -> Job]
        /\ proof[p] \in ProofRecord /\ ResumeSound(job[p], worktree[p], proof[p])
        /\ tracking \in Known /\ handoffs \subseteq Made
    BY RInvMeans DEF TypeOK, IssueTyped, CommandSound
  <1>2. /\ Kept /\ Known \subseteq Known' /\ Made \subseteq Made' /\ made \in Known'
        /\ Job \subseteq Job'
    <2>1. Kept /\ Known \subseteq Known'
      BY DEF Adds
    <2>2. Made \subseteq Made' /\ made \in Known'
      BY <1>1, <2>1 DEF Kept, Made, Known, TypeOK, Adds
    <2> QED
      BY <2>1, <2>2 DEF Job
  <1>3. /\ job'[p].at = "resPush" /\ job'[p].seen = job[p].seen /\ job'[p].made = made
        /\ JobTaken(p, Job')
    <2>1. "resPush" \in Phases
      BY DEF Phases, ResumePhases
    <2>2. [job[p] EXCEPT !.at = "resPush", !.made = made] \in Job'
      BY <1>1, <1>2, <2>1 DEF Job
    <2> QED
      BY <1>1, <2>2 DEF Become, JobTaken, Job
  <1>4. /\ "resPush" \in ResumePhases /\ "resPush" \in Free /\ "resPush" \in Renewed
        /\ "resPush" \notin SyncPhases \cup HandoffPhases \cup Confirmed
        /\ job[p].at \in ResumePhases \ {"resHeads"}
    BY DEF ResumePhases, Free, SyncPhases, HandoffPhases, Renewed, Confirmed
  <1>5. IInv'
    <2>1. IssueTyped' /\ tracking' \in Known' /\ published' = published /\ Grants
      BY <1>1, <1>2 DEF IssueTyped, issueVars, history, Grants
    <2> QED
      BY <1>1, <1>3, <1>4, <2>1, StepKeeps
  <1>6. proof'[p] = proof[p] /\ proof' = [proof EXCEPT ![p] = proof'[p]]
    BY <1>3, KeepFacts
  <1>7. proof'[p] \in ProofRecord'
    <2>1. Reading \subseteq Reading'
      BY <1>2 DEF Reading
    <2> QED
      BY <1>1, <1>6, <2>1 DEF ProofRecord
  <1>8. CommandSound(p)'
    <2>1. SyncSound(job[p])' /\ HandoffSound(job[p])' /\ RollbackSound(job[p], worktree[p])'
      BY <1>3, <1>4 DEF SyncSound, HandoffSound, RollbackSound
    <2>2. expected \in Made /\ commits[expected].run = worktree[p].run /\ ~ Live(expected)
      BY <1>1, <1>4 DEF ResumeSound
    <2>3. expected \in Made' /\ commits'[expected].run = worktree'[p].run /\ ~ Live(expected)'
      BY <1>2, <2>2 DEF Kept, Live
    <2>4. ResumeSound(job[p], worktree[p], proof[p])'
      BY <1>3, <1>4, <2>3 DEF ResumeSound
    <2> QED
      BY <2>1, <2>4 DEF CommandSound
  <1>9. handoffs' \subseteq Made' /\ published \subseteq published' /\ now' = now
    BY <1>1, <1>2 DEF history
  <1> QED
    BY <1>2, <1>3, <1>5, <1>6, <1>7, <1>8, <1>9, Carried

(* A step that only adds to the history of HEAD.                           *)
Grows(p) ==
  /\ Kept /\ BranchTaken(p, Branch')
  /\ commits[worktree[p].head].past \subseteq commits'[worktree'[p].head].past

(* A renewal made now: an empty child of the expected head.                *)
LEMMA AdoptNewKeeps ==
  ASSUME RInv, NEW p \in Runners, ResumeAdopt(p), AdoptNew(p)
  PROVE  RInv' /\ Grows(p)
  <1> PICK id, expected : id = Len(commits) + 1 /\ expected = job[p].seen
    OBVIOUS
  <1> DEFINE new == [run |-> commits[expected].run, lease |-> proof[p].lease,
                     marker |-> TRUE, past |-> commits[expected].past \cup {id}]
  <1>1. /\ job[p].at = "resAdopt" /\ Renewal(expected, proof[p].sealed) = NoCommit
        /\ worktree[p].head = expected /\ id <= MaxCommits
        /\ Become(p, [job[p] EXCEPT !.at = "resPush", !.made = id])
        /\ commits' = Append(commits, new) /\ worktree' = [worktree EXCEPT ![p].head = id]
        /\ Keep(p, proof[p])
        /\ UNCHANGED <<now, remote, tracking, archive, issueVars, history, handoffs>>
    BY DEF ResumeAdopt, AdoptNew, Expected
  <1>2. /\ IInv /\ TypeOK /\ Histories /\ now \in Nat /\ Len(commits) \in Nat
        /\ worktree \in [Runners -> Branch] /\ proof[p].lease \in 0 .. Horizon + Lease
        /\ ResumeSound(job[p], worktree[p], proof[p])
        /\ worktree[p].run \in Known
    BY RInvMeans, MadeTyped DEF IInv, CommandSound, ProofRecord
  <1>3. expected \in Made /\ commits[expected].lease <= proof[p].lease /\ proof[p].lease <= now + Lease
    BY <1>1, <1>2 DEF ResumeSound, ResumePhases
  <1>4. /\ id \in CommitIds /\ commits[expected] \in Commit /\ commits[expected].past \subseteq Made
        /\ commits[expected].run \in commits[expected].past
    BY <1>1, <1>2, <1>3, MadeTyped, Bounds DEF Histories, CommitIds
  <1>5. new \in Commit
    BY <1>2, <1>4 DEF Commit
  <1>6. /\ new.past = commits[expected].past \cup {id} /\ new.run = commits[expected].run
        /\ new.marker = TRUE /\ new.lease = proof[p].lease
    OBVIOUS
  <1> HIDE DEF new
  <1>7. /\ commits' \in Seq(Commit) /\ Len(commits') <= MaxCommits /\ Kept
        /\ Known \subseteq Known' /\ Made' = Made \cup {id} /\ commits'[id] = new
    BY <1>1, <1>2, <1>5, Appended
  <1>8. Histories'
    <2>1. \A a \in commits[expected].past :
            /\ commits[a].past \subseteq commits[expected].past
            /\ commits[a].run = new.run /\ commits[a].lease <= new.lease
      <3> SUFFICES ASSUME NEW a \in commits[expected].past
                   PROVE  /\ commits[a].past \subseteq commits[expected].past
                          /\ commits[a].run = new.run /\ commits[a].lease <= new.lease
        OBVIOUS
      <3>1. /\ commits[a].past \subseteq commits[expected].past
            /\ commits[a].run = new.run /\ commits[a].lease <= commits[expected].lease
        BY <1>2, <1>3, <1>6 DEF Histories
      <3>2. commits[a].lease \in Nat /\ commits[expected].lease \in Nat /\ new.lease \in Nat
        BY <1>2, <1>3, <1>4, <1>6, MadeTyped, Bounds
      <3> QED
        BY <1>3, <1>6, <3>1, <3>2
    <2> QED
      BY <1>1, <1>2, <1>3, <1>4, <1>5, <1>6, <2>1, HistoryExtended
  <1>9. IsRenewal(id, expected)'
    <2>1. id \notin Made /\ id # NoCommit /\ commits'[expected] = commits[expected]
      BY <1>2, <1>3, <1>7 DEF Made, NoCommit, Kept
    <2> QED
      BY <1>4, <1>6, <1>7, <2>1 DEF IsRenewal
  <1>10. /\ id \in Made' /\ id \in Known' /\ BranchTaken(p, Branch')
         /\ worktree'[p].run = worktree[p].run /\ worktree'[p].head # NoCommit
         /\ worktree'[p].head = id
    <2>1. id \in Made' /\ id # NoCommit /\ id \in Known'
      BY <1>2, <1>7 DEF NoCommit, Made, Known
    <2> QED
      BY <1>1, <1>2, <1>7, <2>1 DEF BranchTaken, Branch
  <1>11. Grows(p)
    BY <1>1, <1>6, <1>7, <1>10 DEF Grows
  <1> QED
    BY <1>1, <1>7, <1>8, <1>9, <1>10, <1>11, AdoptedKeeps DEF Adds

(* A renewal found before is taken over; a branch that moved ends it.      *)
LEMMA AdoptOldKeeps ==
  ASSUME RInv, NEW p \in Runners, ResumeAdopt(p), AdoptFound(p) \/ AdoptMoved(p)
  PROVE  RInv' /\ Grows(p)
  <1>1. /\ job[p].at = "resAdopt" /\ Keep(p, proof[p])
        /\ UNCHANGED <<now, remote, tracking, archive, issueVars, history, handoffs>>
        /\ UNCHANGED commits
    BY DEF ResumeAdopt, AdoptFound, AdoptMoved
  <1>2. /\ IInv /\ TypeOK /\ Histories /\ now \in Nat /\ worktree \in [Runners -> Branch]
        /\ JobSound(p) /\ worktree[p] \in Branch /\ job[p].seen \in Made
        /\ commits[job[p].seen].run = worktree[p].run /\ Planned(job[p].seen, proof[p].sealed)
        /\ proof[p].sealed \in Reading /\ IssueTyped /\ proof[p] \in ProofRecord
    BY <1>1, RInvMeans DEF IInv, CommandSound, ProofRecord, ResumeSound, ResumePhases, TypeOK,
       IssueTyped
  <1>3. Made' = Made /\ Known' = Known /\ Kept /\ Branch' = Branch /\ Adds
    <2>1. Made' = Made /\ Known' = Known /\ Kept /\ Branch' = Branch
      BY <1>1, <1>2, MadeTyped DEF Made, Known, Kept, Branch
    <2> QED
      BY <1>1, <1>2, <2>1, HistoriesKept DEF Adds, TypeOK
  <1>4. CASE AdoptFound(p)
    <2> PICK found, expected : found = Renewal(job[p].seen, proof[p].sealed) /\ expected = job[p].seen
      OBVIOUS
    <2>1. /\ found # NoCommit
          /\ Become(p, [job[p] EXCEPT !.at = "resPush", !.made = found])
          /\ \/ worktree' = worktree
             \/ worktree[p].head = expected /\ worktree' = [worktree EXCEPT ![p].head = found]
      BY <1>4 DEF AdoptFound, Expected
    <2>2. IsRenewal(found, expected) /\ found \in Known
      <3>1. found \in {proof[p].sealed.local, proof[p].sealed.remote} \ {expected}
        BY <2>1 DEF Renewal
      <3> QED
        BY <1>2, <3>1 DEF Planned, Reading
    <2>3. found \in Made' /\ IsRenewal(found, expected)'
      BY <1>2, <1>3, <2>2, RenewalsKept
    <2>4. worktree[p].run # NoCommit /\ worktree[p].head # NoCommit
      BY <1>2, MadeTyped DEF JobSound, BranchSound, CommitIds, NoCommit
    <2>5. /\ BranchTaken(p, Branch') /\ worktree'[p].run = worktree[p].run
          /\ worktree'[p].head # NoCommit
      BY <1>2, <1>3, <2>1, <2>2, <2>4 DEF BranchTaken, Branch
    <2>6. Grows(p)
      BY <1>1, <1>2, <1>3, <2>1, <2>2, <2>5 DEF Grows, IsRenewal, Branch
    <2> QED
      BY <1>1, <1>3, <2>1, <2>3, <2>5, <2>6, AdoptedKeeps
  <1>5. CASE AdoptMoved(p)
    <2>1. Goto(p, "idle") /\ worktree' = worktree
      BY <1>5 DEF AdoptMoved, Goto
    <2>2. UNCHANGED <<now, gitVars, published, granted, handoffs>> /\ IssueTyped'
      BY <1>1, <1>2, <2>1 DEF gitVars, history, issueVars, IssueTyped
    <2>3. Grows(p)
      BY <1>1, <1>2, <1>3, <2>1 DEF Grows, BranchTaken
    <2> QED
      BY <1>1, <1>2, <2>1, <2>2, <2>3, ResumeReads
  <1> QED
    BY <1>4, <1>5

(* A commit made while a resume runs leaves what the resume has verified   *)
(* in the history of HEAD.                                                 *)
LEMMA WorkKeeps ==
  ASSUME RInv, NEW p \in Runners, WorkMeanwhile(p)
  PROVE  RInv' /\ Grows(p)
  <1> PICK id, head : id = Len(commits) + 1 /\ head = worktree[p].head
    OBVIOUS
  <1> DEFINE new == [commits[head] EXCEPT !.marker = FALSE, !.past = @ \cup {id}]
  <1>1. /\ proof[p].phase # "none" /\ id <= MaxCommits
        /\ commits' = Append(commits, new) /\ worktree' = [worktree EXCEPT ![p].head = id]
        /\ UNCHANGED <<now, remote, tracking, archive, issueVars, job, history, handoffs, proof>>
    BY DEF WorkMeanwhile, resumeVars
  <1>2. /\ IInv /\ TypeOK /\ Histories /\ JobSound(p) /\ IssueTyped /\ now \in Nat
        /\ worktree \in [Runners -> Branch] /\ worktree[p].run \in Known /\ head \in Known
        /\ job \in [Runners -> Job] /\ job[p] \in Job
        /\ ResumeSound(job[p], worktree[p], proof[p]) /\ tracking \in Known
        /\ proof \in [Runners -> ProofRecord] /\ proof[p] \in ProofRecord
        /\ Len(commits) \in Nat /\ handoffs \subseteq Made
    BY RInvMeans, MadeTyped DEF IInv, CommandSound, TypeOK, IssueTyped
  <1>3. job[p].at \in ResumePhases
    BY <1>1, <1>2 DEF ResumeSound
  <1>4. head \in Made
    BY <1>2, <1>3, MadeTyped DEF ResumeSound, JobSound, BranchSound, CommitIds, NoCommit
  <1>5. /\ commits[head] \in Commit /\ id \in CommitIds
        /\ commits[head].past \subseteq Made /\ commits[head].run \in commits[head].past
        /\ commits[head].lease <= now + Lease
        /\ \A a \in commits[head].past :
             /\ commits[a].past \subseteq commits[head].past
             /\ commits[a].run = commits[head].run /\ commits[a].lease <= commits[head].lease
    <2>1. commits[head] \in Commit
      BY <1>2, <1>4, MadeTyped
    <2>2. id \in CommitIds
      BY <1>1, <1>2, Bounds DEF CommitIds
    <2> QED
      BY <1>2, <1>4, <2>1, <2>2 DEF Histories
  <1>6. /\ new \in Commit /\ new.past = commits[head].past \cup {id}
        /\ new.run = commits[head].run /\ new.lease = commits[head].lease
    BY <1>5 DEF Commit
  <1> HIDE DEF new
  <1>7. /\ commits' \in Seq(Commit) /\ Len(commits') <= MaxCommits /\ Kept
        /\ Known \subseteq Known' /\ Made' = Made \cup {id} /\ commits'[id] = new
    BY <1>1, <1>2, <1>6, Appended
  <1>8. Adds
    <2>1. Histories'
      BY <1>1, <1>2, <1>5, <1>6, HistoryExtended
    <2> QED
      BY <1>7, <2>1 DEF Adds
  <1>9. /\ worktree'[p].head = id /\ worktree'[p].run = worktree[p].run
        /\ id # NoCommit /\ BranchTaken(p, Branch')
    <2>1. id \in Known' /\ id # NoCommit
      BY <1>2, <1>7 DEF Known, Made, NoCommit
    <2> QED
      BY <1>1, <1>2, <1>7, <2>1 DEF BranchTaken, Branch
  <1>10. JobTaken(p, Job') /\ job'[p].at \in Free
    BY <1>1, <1>2, <1>3, <1>7 DEF JobTaken, Job, Free
  <1>11. IInv'
    <2>1. IssueTyped' /\ tracking' \in Known' /\ UNCHANGED <<remote, published>> /\ Grants
      BY <1>1, <1>2, <1>7 DEF IssueTyped, issueVars, history, Grants
    <2> QED
      BY <1>1, <1>2, <1>8, <1>9, <1>10, <2>1, StepKeeps
  <1>12. CommandSound(p)'
    <2>1. \A c \in Made : IsAncestor(c, worktree[p].head) => IsAncestor(c, worktree[p].head)'
      BY <1>2, <1>6, <1>7, <1>9 DEF IsAncestor
    <2>2. ResumeSound(job[p], worktree[p], proof[p])'
      BY <1>1, <1>2, <1>7, <1>9, <2>1, ResumeKept DEF history
    <2>3. job'[p].at \in ResumePhases
      BY <1>1, <1>3
    <2>4. SyncSound(job[p])' /\ HandoffSound(job[p])' /\ RollbackSound(job[p], worktree[p])'
      BY <2>3 DEF SyncSound, HandoffSound, RollbackSound, SyncPhases, HandoffPhases, ResumePhases
    <2> QED
      BY <2>2, <2>4 DEF CommandSound
  <1>13. RInv'
    <2>1. Reading \subseteq Reading'
      BY <1>7 DEF Reading
    <2>2. proof'[p] \in ProofRecord'
      BY <1>1, <1>2, <2>1 DEF ProofRecord
    <2>3. handoffs' \subseteq Made' /\ published \subseteq published' /\ now' = now
          /\ proof' = [proof EXCEPT ![p] = proof'[p]]
      BY <1>1, <1>2, <1>7 DEF history
    <2> QED
      BY <1>7, <1>9, <1>10, <1>11, <1>12, <2>2, <2>3, Carried
  <1> QED
    BY <1>6, <1>7, <1>9, <1>13 DEF Grows

-----------------------------------------------------------------------------
(* Handoff and sync, which establish nothing of the claim                  *)

Aside == {"idle"} \cup SyncPhases \cup HandoffPhases

LEMMA AsideKeeps ==
  ASSUME RInv, NEW p \in Runners, job[p].at \in Aside,
         UNCHANGED <<now, commits, remote, archive, worktree, published, granted>>,
         tracking' \in {tracking, remote}, IssueTyped', JobTaken(p, Job), job'[p].at \in Aside,
         SyncSound(job'[p]), HandoffSound(job'[p]),
         proof' = proof \/ Keep(p, proof[p]), handoffs' \subseteq Made
  PROVE  RInv'
  <1>1. /\ IInv /\ TypeOK /\ now \in Nat /\ ResumeSound(job[p], worktree[p], proof[p])
        /\ proof \in [Runners -> ProofRecord] /\ proof[p] \in ProofRecord
        /\ worktree \in [Runners -> Branch]
    BY RInvMeans DEF CommandSound
  <1>2. /\ Aside \cap (ResumePhases \cup Renewed \cup Confirmed) = {} /\ Aside \subseteq Free
        /\ Aside \cap {"push", "worktree", "renewCheck", "renewCommit", "renewPush", "restore"} = {}
    BY DEF Aside, SyncPhases, HandoffPhases, ResumePhases, Renewed, Confirmed, Free
  <1>3. proof[p].phase = "none"
    BY <1>1, <1>2 DEF ResumeSound
  <1>4. /\ proof' = [proof EXCEPT ![p] = proof'[p]] /\ proof'[p] \in ProofRecord
        /\ proof'[p].phase = "none"
    BY <1>1, <1>3, KeepFacts, NothingTyped DEF Nothing
  <1>5. IInv'
    BY <1>1, <1>2, ReadingKeeps
  <1>6. CommandSound(p)'
    <2>1. SyncSound(job[p])' /\ HandoffSound(job[p])'
      BY DEF SyncSound, HandoffSound
    <2>2. {"resIssue", "resItem", "resCreate", "resAdopt"} \subseteq ResumePhases
      BY DEF ResumePhases
    <2>3. RollbackSound(job[p], worktree[p])'
      BY <1>2 DEF RollbackSound
    <2>4. ResumeSound(job[p], worktree[p], proof[p])'
      BY <1>2, <1>4, <2>2 DEF ResumeSound
    <2> QED
      BY <2>1, <2>3, <2>4 DEF CommandSound
  <1>7. /\ Made' = Made /\ Known' = Known /\ Job' = Job /\ Branch' = Branch /\ Kept
        /\ ProofRecord' = ProofRecord
    BY <1>1, MadeTyped DEF Made, Known, Job, Branch, Kept, ProofRecord, Reading
  <1>8. BranchTaken(p, Branch')
    BY <1>1, <1>7 DEF BranchTaken
  <1> QED
    BY <1>4, <1>5, <1>6, <1>7, <1>8, Carried

LEMMA HandoffKeeps ==
  ASSUME RInv, NEW p \in Runners, HandoffStep(p)
  PROVE  RInv'
  <1>1. /\ TypeOK /\ IssueTyped /\ job[p] \in Job /\ job \in [Runners -> Job] /\ JobSound(p)
        /\ HandoffSound(job[p]) /\ handoffs \subseteq Made /\ worktree[p].head \in Known
        /\ job[p].seen \in Known /\ Known = Made \cup {NoCommit} /\ status \in Statuses
    BY RInvMeans DEF TypeOK, IssueTyped, CommandSound
  <1>2. /\ UNCHANGED <<now, gitVars, published, granted, proof>>
        /\ IssueTyped'
    BY <1>1 DEF HandoffStep, HandoffRead, HandoffCheck, HandoffLabel, HandoffVerify, HandoffBacklog,
       HandoffFinal, HandoffPost, history, resumeVars, issueVars, IssueTyped, Statuses
  <1>3. CASE HandoffRead(p)
    <2> DEFINE command == [Idle EXCEPT !.at = "handCheck", !.seen = worktree[p].head, !.read = status]
    <2>1. job[p].at = "idle" /\ job' = [job EXCEPT ![p] = command] /\ handoffs' = handoffs
          /\ worktree[p].run # NoCommit
      BY <1>3 DEF HandoffRead, Start, Become, resumeVars
    <2>2. /\ command \in Job /\ command.at = "handCheck" /\ command.seen = worktree[p].head
      BY <1>1, IdleTyped DEF Job, Phases, HandoffPhases, Reads
    <2>3. worktree[p].head # NoCommit
      BY <1>1, <2>1 DEF JobSound, BranchSound
    <2> HIDE DEF command
    <2>4. job'[p] = command /\ JobTaken(p, Job)
      BY <1>1, <2>1, <2>2 DEF JobTaken
    <2>5. "handCheck" \in Aside /\ "idle" \in Aside /\ "handCheck" \notin SyncPhases
      BY DEF Aside, HandoffPhases, SyncPhases
    <2> QED
      BY <1>1, <1>2, <2>1, <2>2, <2>3, <2>4, <2>5, AsideKeeps DEF gitVars, SyncSound, HandoffSound
  <1>4. ASSUME NEW next \in HandoffPhases \cup {"idle"}, job[p].at \in HandoffPhases, Goto(p, next),
               handoffs' \subseteq Made
        PROVE  RInv'
    <2>1. next \in Phases /\ next \in Aside /\ job[p].at \in Aside /\ next \notin SyncPhases
      BY <1>4 DEF Phases, Aside, SyncPhases, HandoffPhases
    <2>2. /\ job'[p].at = next /\ JobTaken(p, Job)
          /\ next # "idle" => job'[p] = [job[p] EXCEPT !.at = next]
      BY <1>1, <1>4, <2>1, GotoFacts DEF JobTaken
    <2>3. job[p].seen # NoCommit /\ "idle" \notin HandoffPhases
      BY <1>1, <1>4 DEF HandoffSound, HandoffPhases
    <2>4. SyncSound(job'[p]) /\ HandoffSound(job'[p])
      BY <1>1, <2>1, <2>2, <2>3 DEF SyncSound, HandoffSound, Job
    <2> QED
      BY <1>2, <1>4, <2>1, <2>2, <2>4, AsideKeeps DEF gitVars
  <1>5. CASE HandoffCheck(p)
    BY <1>1, <1>4, <1>5 DEF HandoffCheck, HandoffPhases, resumeVars
  <1>6. CASE HandoffLabel(p)
    BY <1>1, <1>4, <1>6 DEF HandoffLabel, StepTo, HandoffPhases, resumeVars
  <1>7. CASE HandoffVerify(p)
    BY <1>1, <1>4, <1>7 DEF HandoffVerify, StepTo, HandoffPhases, resumeVars
  <1>8. CASE HandoffBacklog(p)
    BY <1>1, <1>4, <1>8 DEF HandoffBacklog, StepTo, HandoffPhases, resumeVars
  <1>9. CASE HandoffFinal(p)
    BY <1>1, <1>4, <1>9 DEF HandoffFinal, StepTo, HandoffPhases, resumeVars
  <1>10. CASE HandoffPost(p)
    <2>1. job[p].at = "handPost" /\ Goto(p, "idle") /\ handoffs' = handoffs \cup {job[p].seen}
      BY <1>10 DEF HandoffPost, StepTo
    <2>2. job[p].at \in HandoffPhases
      BY <2>1 DEF HandoffPhases
    <2>3. job[p].seen \in Made
      BY <1>1, <2>2 DEF HandoffSound
    <2> QED
      BY <1>1, <1>4, <2>1, <2>2, <2>3
  <1> QED
    BY <1>3, <1>5, <1>6, <1>7, <1>8, <1>9, <1>10 DEF HandoffStep

LEMMA SyncKeeps ==
  ASSUME RInv, NEW p \in Runners, SyncStep(p), Keep(p, proof[p]), UNCHANGED handoffs
  PROVE  RInv'
  <1>1. /\ TypeOK /\ IssueTyped /\ job[p] \in Job /\ job \in [Runners -> Job]
        /\ SyncSound(job[p]) /\ handoffs \subseteq Made
        /\ Known = Made \cup {NoCommit} /\ status \in Statuses /\ remote \in Known
    BY RInvMeans DEF TypeOK, IssueTyped, CommandSound
  <1>2. /\ UNCHANGED <<now, commits, remote, archive, worktree, published, granted>>
        /\ tracking' \in {tracking, remote}
    BY DEF SyncStep, SyncItems, SyncInspect, SyncIssue, SyncWrite, ListClaims, gitVars, history
  <1>3. ASSUME NEW command \in Job, Become(p, command), command.at \in {"idle"} \cup SyncPhases,
               command.at \in SyncPhases => command.read \in Statuses,
               job[p].at \in {"idle"} \cup SyncPhases, IssueTyped'
        PROVE  RInv'
    <2>1. job'[p] = command /\ JobTaken(p, Job)
      BY <1>1, <1>3 DEF Become, JobTaken
    <2>2. command.at \in Aside /\ job[p].at \in Aside /\ command.at \notin HandoffPhases
      BY <1>3 DEF Aside, SyncPhases, HandoffPhases
    <2>3. SyncSound(job'[p]) /\ HandoffSound(job'[p])
      BY <1>3, <2>1, <2>2 DEF SyncSound, HandoffSound
    <2> QED
      BY <1>1, <1>2, <1>3, <2>1, <2>2, <2>3, AsideKeeps
  <1>4. /\ Idle \in Job /\ Idle.at = "idle" /\ NoCommit \in Known
        /\ \A place \in SyncPhases : place \in Phases
        /\ job[p].at \in SyncPhases => job[p].read \in Statuses
    BY <1>1, IdleTyped DEF Idle, SyncPhases, Phases, SyncSound
  <1>5. CASE SyncItems(p)
    <2> DEFINE command == [Idle EXCEPT !.at = "syncList", !.read = status]
    <2>1. job[p].at = "idle" /\ Become(p, command) /\ IssueTyped'
      BY <1>1, <1>5 DEF SyncItems, Start, issueVars, IssueTyped
    <2>2. command \in Job /\ command.at \in SyncPhases /\ command.read \in Statuses
      BY <1>1, <1>4 DEF Job, SyncPhases, Reads
    <2> HIDE DEF command
    <2> QED
      BY <1>3, <2>1, <2>2
  <1>6. CASE SyncInspect(p)
    <2> DEFINE command == [job[p] EXCEPT !.at = "syncIssue",
                                         !.seen = IF Live(job[p].seen) THEN @ ELSE NoCommit]
    <2>1. job[p].at = "syncInspect" /\ (Become(p, Idle) \/ Become(p, command)) /\ IssueTyped'
      BY <1>1, <1>6 DEF SyncInspect, issueVars, IssueTyped
    <2>2. command \in Job /\ command.at \in SyncPhases /\ command.read \in Statuses
          /\ job[p].at \in SyncPhases
      BY <1>1, <1>4, <2>1 DEF Job, SyncPhases
    <2> HIDE DEF command
    <2> QED
      BY <1>3, <1>4, <2>1, <2>2 DEF SyncPhases
  <1>7. CASE SyncIssue(p)
    <2> DEFINE desired == desiredStatus(job[p].seen # NoCommit, job[p].read)
               command == [Idle EXCEPT !.at = "syncWrite", !.read = desired]
    <2>1. job[p].at = "syncIssue" /\ (Become(p, Idle) \/ Become(p, command)) /\ IssueTyped'
      BY <1>1, <1>7 DEF SyncIssue, issueVars, IssueTyped
    <2>2. job[p].at \in SyncPhases /\ job[p].read \in Statuses
      BY <1>4, <2>1 DEF SyncPhases
    <2>3. desired \in Statuses
      BY <2>2 DEF desiredStatus, Statuses
    <2> HIDE DEF desired
    <2>4. command \in Job /\ command.at \in SyncPhases /\ command.read \in Statuses
      BY <1>1, <1>4, <2>3 DEF Job, SyncPhases, Reads
    <2> HIDE DEF command
    <2> QED
      BY <1>3, <1>4, <2>1, <2>2, <2>4 DEF SyncPhases
  <1>8. CASE SyncWrite(p)
    <2>1. job[p].at = "syncWrite" /\ Become(p, Idle) /\ status' = job[p].read
          /\ UNCHANGED <<openPR, issueOpen, needsHuman>>
      BY <1>8 DEF SyncWrite, StepTo, Goto
    <2>2. job[p].at \in SyncPhases
      BY <2>1 DEF SyncPhases
    <2>3. IssueTyped'
      BY <1>1, <1>4, <2>1, <2>2 DEF IssueTyped
    <2> QED
      BY <1>3, <1>4, <2>1, <2>2, <2>3 DEF SyncPhases
  <1>9. CASE job[p].at = "syncList" /\ ListClaims(p)
    <2> DEFINE command == [job[p] EXCEPT !.at = IF remote = NoCommit THEN "syncIssue" ELSE "syncInspect",
                                         !.seen = remote]
    <2>1. Become(p, command) /\ IssueTyped'
      BY <1>1, <1>9 DEF ListClaims, Start, issueVars, IssueTyped
    <2>2. job[p].at \in SyncPhases /\ command.at \in SyncPhases /\ command.read \in Statuses
          /\ command \in Job
      BY <1>1, <1>4, <1>9 DEF Job, SyncPhases
    <2> HIDE DEF command
    <2> QED
      BY <1>3, <2>1, <2>2
  <1> QED
    BY <1>5, <1>6, <1>7, <1>8, <1>9 DEF SyncStep

-----------------------------------------------------------------------------
(* The commands of the claim protocol                                      *)

(* Places where a command has established nothing that RInv adds.          *)
Plain == {"idle", "inspect", "pulls", "escalate", "backlog", "setBacklog", "archive", "delete",
          "item", "issue", "commit", "record", "setPicked", "deadline", "prCheck", "prLookup",
          "prPush", "prHeads", "prDeadline", "prCreate"}

LEMMA PlainSound ==
  ASSUME NEW p \in Runners, job'[p].at \in Plain, proof'[p].phase = "none"
  PROVE  CommandSound(p)'
  <1>1. /\ Plain \cap (SyncPhases \cup HandoffPhases \cup ResumePhases) = {}
        /\ Renewed \subseteq ResumePhases /\ Confirmed \subseteq ResumePhases
        /\ {"resIssue", "resItem", "resCreate", "resAdopt"} \subseteq ResumePhases
        /\ Plain \cap {"push", "worktree", "renewCheck", "renewCommit", "renewPush", "restore"} = {}
    BY DEF Plain, SyncPhases, HandoffPhases, ResumePhases, Renewed, Confirmed
  <1>2. SyncSound(job[p])' /\ HandoffSound(job[p])' /\ RollbackSound(job[p], worktree[p])'
    BY <1>1 DEF SyncSound, HandoffSound, RollbackSound
  <1>3. ResumeSound(job[p], worktree[p], proof[p])'
    BY <1>1 DEF ResumeSound
  <1> QED
    BY <1>2, <1>3 DEF CommandSound

(* Where a step of the protocol leads; only a failure leads out of a       *)
(* resume.                                                                 *)
LEMMA StepPlaces ==
  ASSUME IInv, NEW p \in Runners, Step(p)
  PROVE  /\ \/ job'[p].at \in Plain
            \/ NewClaim(p) \/ PushClaim(p) \/ RenewHeads(p) \/ RenewCheck(p) \/ RenewCommit(p)
            \/ RenewPushFails(p)
            \/ job[p].at = "syncList" /\ ListClaims(p)
         /\ job'[p].at = "idle" \/ job[p].at \notin ResumePhases
  <1>1. TypeOK /\ job[p] \in Job /\ job \in [Runners -> Job] /\ Plain \subseteq Phases
    BY DEF IInv, TypeOK, Job, Reads, Plain, Phases
  <1>2. \A next \in Plain : Goto(p, next) => job'[p].at \in Plain /\ job'[p].at = next
    BY <1>1, GotoFacts
  <1>3. CASE Abort(p)
    BY <1>2, <1>3 DEF Abort, Plain
  <1>4. ASSUME Step(p), ~ Abort(p)
        PROVE  job[p].at \notin ResumePhases
    BY <1>4 DEF Step, ListClaims, InspectClaim, ListPulls, LabelStale, ArchiveStale,
           DeleteStale, ReadItem, AssertClaimable, NewClaim, PushClaim, AddWorktree,
           ReadProject, SetProject, RenewHeads, RenewCheck, RenewCommit, RenewPush,
           RenewPushFails, RenewRestore, VerifyHeads, VerifyDeadline, OpenHeads,
           OpenCheck, OpenLookup, OpenPush, CreatePull, Work, Start, StepTo, ResumePhases
  <1>5. ASSUME ListClaims(p) \/ ReadItem(p) \/ OpenLookup(p) \/ Work(p)
        PROVE  job'[p].at \in Plain \/ (job[p].at = "syncList" /\ ListClaims(p))
    <2>1. ListClaims(p) /\ job[p].at # "syncList" => job'[p].at \in {"item", "inspect"}
      BY <1>1 DEF ListClaims, Become, Idle
    <2>2. ReadItem(p) => job'[p].at = "issue"
      BY <1>1 DEF ReadItem, Become, Job
    <2>3. OpenLookup(p) => job'[p].at = "prPush"
      BY <1>1 DEF OpenLookup, Become, Job
    <2>4. Work(p) => job'[p].at = "idle"
      BY DEF Work, Start
    <2> QED
      BY <1>5, <2>1, <2>2, <2>3, <2>4 DEF Plain
  <1>6. ASSUME \/ InspectClaim(p) \/ ListPulls(p) \/ LabelStale(p) \/ ArchiveStale(p)
               \/ DeleteStale(p) \/ AssertClaimable(p) \/ AddWorktree(p) \/ ReadProject(p)
               \/ SetProject(p) \/ RenewPush(p) \/ RenewRestore(p) \/ VerifyHeads(p)
               \/ VerifyDeadline(p) \/ OpenHeads(p) \/ OpenCheck(p) \/ OpenPush(p) \/ CreatePull(p)
        PROVE  \E next \in Plain : Goto(p, next)
    BY <1>6 DEF InspectClaim, ListPulls, LabelStale, ArchiveStale, DeleteStale, AssertClaimable,
       AddWorktree, ReadProject, SetProject, RenewPush, RenewRestore, VerifyHeads, VerifyDeadline,
       OpenHeads, OpenCheck, OpenPush, CreatePull, StepTo, Plain
  <1> QED
    BY <1>2, <1>3, <1>4, <1>5, <1>6 DEF Step

LEMMA ClaimKeeps ==
  ASSUME RInv, NEW p \in Runners, Step(p), Keep(p, proof[p]), UNCHANGED handoffs
  PROVE  RInv'
  <1>1. /\ IInv /\ TypeOK /\ JobSound(p) /\ job[p] \in Job /\ job \in [Runners -> Job]
        /\ worktree \in [Runners -> Branch] /\ worktree[p] \in Branch
        /\ SyncSound(job[p]) /\ RollbackSound(job[p], worktree[p])
        /\ ResumeSound(job[p], worktree[p], proof[p]) /\ proof[p] \in ProofRecord
        /\ worktree[p].run \in Known /\ worktree[p].head \in Known /\ job[p].made \in Known
        /\ Known = Made \cup {NoCommit} /\ Len(commits) \in Nat /\ handoffs \subseteq Made
    BY RInvMeans, MadeTyped DEF CommandSound
  <1>2. IInv'
    BY <1>1, StepInvariant
  <1>3. /\ Kept /\ Known \subseteq Known' /\ Made \subseteq Made' /\ now' = now
        /\ JobTaken(p, Job') /\ BranchTaken(p, Branch') /\ published \subseteq published'
    <2>1. published \subseteq published'
      BY <1>1, BranchStep DEF Pushed, Deleted
    <2> QED
      BY <1>1, <2>1, CommitsStep, StepFrame, JobStep, WorktreeStep
  <1>4. /\ proof' = [proof EXCEPT ![p] = proof'[p]] /\ proof'[p] \in ProofRecord'
        /\ proof'[p].phase = "none"
    <2>1. proof'[p] \in ProofRecord /\ proof' = [proof EXCEPT ![p] = proof'[p]]
      BY <1>1, KeepFacts, NothingTyped
    <2>2. Reading \subseteq Reading'
      BY <1>3 DEF Reading
    <2>3. proof'[p].phase = "none"
      BY <1>1, StepPlaces, KeepFacts DEF ResumeSound, Nothing
    <2> QED
      BY <2>1, <2>2, <2>3 DEF ProofRecord
  <1>5. \A next \in {"idle", "worktree", "renewCommit", "renewPush", "restore"} : Goto(p, next) =>
          job'[p].at = next /\ (next # "idle" => job'[p].made = job[p].made)
    <2>1. \A next \in Phases : Goto(p, next) =>
            /\ job'[p].at = next
            /\ next # "idle" => job'[p] = [job[p] EXCEPT !.at = next]
      BY <1>1, GotoFacts
    <2>2. \A next \in Phases : [job[p] EXCEPT !.at = next].made = job[p].made
      BY <1>1 DEF Job
    <2>3. {"idle", "worktree", "renewCommit", "renewPush", "restore"} \subseteq Phases
      BY DEF Phases
    <2> QED
      BY <2>1, <2>2, <2>3
  <1>6. ASSUME job'[p].at \in {"push", "worktree", "renewCheck", "renewCommit", "renewPush",
                               "restore"} \cup SyncPhases,
               SyncSound(job[p])', RollbackSound(job[p], worktree[p])'
        PROVE  CommandSound(p)'
    <2>1. job'[p].at \notin HandoffPhases \cup ResumePhases
      BY <1>6 DEF SyncPhases, HandoffPhases, ResumePhases
    <2>2. /\ Renewed \subseteq ResumePhases /\ Confirmed \subseteq ResumePhases
          /\ {"resIssue", "resItem", "resCreate", "resAdopt"} \subseteq ResumePhases
      BY DEF ResumePhases, Renewed, Confirmed
    <2>3. ResumeSound(job[p], worktree[p], proof[p])'
      BY <1>4, <2>1, <2>2 DEF ResumeSound
    <2> QED
      BY <1>6, <2>1, <2>3 DEF CommandSound, HandoffSound
  <1>7. CommandSound(p)'
    <2>1. CASE job'[p].at \in Plain
      BY <1>4, <2>1, PlainSound
    <2>2. CASE NewClaim(p)
      <3>1. job'[p].at = "push" /\ job'[p].made = Len(commits) + 1 /\ worktree' = worktree
        BY <1>1, <2>2 DEF NewClaim, Become, Idle
      <3>2. job'[p].made # worktree'[p].run
        BY <1>1, <3>1 DEF Made, NoCommit
      <3> QED
        BY <1>6, <3>1, <3>2 DEF SyncSound, RollbackSound, SyncPhases
    <2>3. CASE PushClaim(p)
      <3>1. job[p].at = "push" /\ worktree' = worktree /\ (Goto(p, "worktree") \/ Goto(p, "idle"))
        BY <2>3 DEF PushClaim, StepTo
      <3>2. \/ job'[p].at = "idle"
            \/ job'[p].at = "worktree" /\ job'[p].made = job[p].made
        BY <1>5, <3>1
      <3> QED
        BY <1>1, <1>4, <1>6, <3>1, <3>2, IdleSound DEF SyncSound, RollbackSound, SyncPhases
    <2>4. CASE RenewHeads(p)
      <3>1. /\ worktree' = worktree
            /\ \/ job'[p].at = "idle"
               \/ job'[p].at = "renewCheck" /\ job'[p].made = worktree[p].head
        BY <1>1, <2>4 DEF RenewHeads, Become, Idle
      <3> QED
        BY <1>4, <1>6, <3>1, IdleSound DEF SyncSound, RollbackSound, SyncPhases
    <2>5. CASE RenewCheck(p)
      <3>1. job[p].at = "renewCheck" /\ worktree' = worktree /\ (Goto(p, "renewCommit") \/ Goto(p, "idle"))
        BY <2>5 DEF RenewCheck, StepTo, gitVars
      <3>2. \/ job'[p].at = "idle"
            \/ job'[p].at = "renewCommit" /\ job'[p].made = job[p].made
        BY <1>5, <3>1
      <3> QED
        BY <1>1, <1>4, <1>6, <3>1, <3>2, IdleSound DEF SyncSound, RollbackSound, SyncPhases
    <2>6. CASE RenewCommit(p)
      <3> PICK id, head : id = Len(commits) + 1 /\ head = worktree[p].head
        OBVIOUS
      <3> DEFINE new == [run |-> worktree[p].run, lease |-> now + Lease, marker |-> TRUE,
                         past |-> commits[head].past \cup {id}]
      <3>1. /\ job[p].at = "renewCommit" /\ Goto(p, "renewPush")
            /\ commits' = Append(commits, new) /\ worktree' = [worktree EXCEPT ![p].head = id]
        BY <2>6 DEF RenewCommit
      <3>2. head \in Made /\ job[p].made = head
        BY <1>1, <3>1 DEF JobSound, BranchSound, At, RollbackSound
      <3>3. job'[p].at = "renewPush" /\ job'[p].made = head
        BY <1>5, <3>1, <3>2
      <3>4. /\ commits'[id] = new /\ commits'[head] = commits[head] /\ worktree'[p].head = id
        <4>1. commits \in Seq(Commit)
          BY <1>1 DEF TypeOK
        <4>2. commits'[id] = new
          BY <3>1, <4>1
        <4> HIDE DEF new
        <4> QED
          BY <1>1, <1>3, <3>1, <3>2, <4>2 DEF Kept, Branch
      <3>5. \A c \in commits'[id].past \ commits'[head].past : commits'[c].marker
        BY <3>4
      <3> HIDE DEF new
      <3>6. RollbackSound(job[p], worktree[p])'
        BY <3>3, <3>4, <3>5 DEF RollbackSound
      <3>7. SyncSound(job[p])'
        BY <3>3 DEF SyncSound, SyncPhases
      <3> QED
        BY <1>6, <3>3, <3>6, <3>7
    <2>7. CASE RenewPushFails(p)
      <3>1. job[p].at = "renewPush" /\ Goto(p, "restore") /\ UNCHANGED <<worktree, commits>>
        BY <2>7 DEF RenewPushFails, StepTo
      <3>2. job'[p].at = "restore" /\ job'[p].made = job[p].made
        BY <1>5, <3>1
      <3> QED
        BY <1>1, <1>6, <3>1, <3>2 DEF SyncSound, RollbackSound, SyncPhases
    <2>8. CASE job[p].at = "syncList" /\ ListClaims(p)
      <3>1. job'[p].at \in SyncPhases /\ job'[p].read = job[p].read
        <4> DEFINE command == [job[p] EXCEPT !.at = IF remote = NoCommit THEN "syncIssue" ELSE "syncInspect",
                                             !.seen = remote]
        <4>1. job' = [job EXCEPT ![p] = command]
          BY <2>8 DEF ListClaims, Start, Become
        <4>2. command.at \in SyncPhases /\ command.read = job[p].read
          BY <1>1 DEF Job, SyncPhases
        <4> HIDE DEF command
        <4> QED
          BY <1>1, <4>1, <4>2
      <3>2. job[p].read \in Statuses
        BY <1>1, <2>8 DEF SyncSound, SyncPhases
      <3> QED
        BY <1>6, <3>1, <3>2 DEF SyncSound, RollbackSound, SyncPhases
    <2> QED
      BY <1>1, <2>1, <2>2, <2>3, <2>4, <2>5, <2>6, <2>7, <2>8, StepPlaces
  <1> QED
    BY <1>1, <1>2, <1>3, <1>4, <1>7, Carried

-----------------------------------------------------------------------------
(* Every step                                                              *)

(* Time and people leave what the commands have established.               *)
LEMMA OutsideKeeps ==
  ASSUME RInv, ((Tick \/ Human) /\ UNCHANGED resumeVars) \/ UNCHANGED allVars
  PROVE  RInv'
  <1>1. /\ IInv /\ TypeOK /\ now \in Nat /\ HandoffsTyped
    BY MadeTyped DEF RInv, IInv
  <1>2. IInv'
    BY <1>1, TickInvariant, HumanInvariant, StutterInvariant DEF allVars
  <1>3. UNCHANGED <<commits, worktree, job, published, handoffs, proof>> /\ now' \in Nat /\ now' >= now
    <2>1. UNCHANGED <<commits, worktree, job, published, handoffs, proof>>
      BY DEF Tick, Human, resumeVars, allVars, vars, gitVars, history
    <2>2. now' = now \/ now' = now + 1
      BY DEF Tick, Human, allVars, vars
    <2> QED
      BY <1>1, <2>1, <2>2
  <1>4. Made' = Made /\ Known' = Known /\ Kept
    BY <1>1, <1>3, MadeTyped DEF Made, Known, Kept
  <1>5. HandoffsTyped'
    BY <1>1, <1>3, <1>4 DEF HandoffsTyped, ProofRecord, Reading
  <1>6. ASSUME NEW p \in Runners PROVE CommandSound(p)'
    BY <1>3, <1>4, CommandKept
  <1> QED
    BY <1>2, <1>5, <1>6 DEF RInv

LEMMA ResumeStepKeeps ==
  ASSUME RInv, NEW p \in Runners, ResumeStep(p) \/ ResumePushLost(p) \/ MutationFails(p)
  PROVE  RInv'
  <1>1. CASE \E expected \in handoffs : ResumeStart(p, expected)
    BY <1>1, ResumeStartKeeps
  <1>2. CASE ResumeAdopt(p)
    BY <1>2, AdoptNewKeeps, AdoptOldKeeps DEF ResumeAdopt
  <1> QED
    BY <1>1, <1>2, ProvingKeeps, ReconcilingKeeps, TargetItemKeeps, ResumePushKeeps DEF ResumeStep

LEMMA ResumeInitSound == ResumeInit => RInv
  <1> SUFFICES ASSUME ResumeInit PROVE RInv
    OBVIOUS
  <1>1. IInv /\ TypeOK
    BY InitInvariant DEF ResumeInit, IInv
  <1>2. HandoffsTyped
    BY <1>1, NothingTyped DEF ResumeInit, HandoffsTyped
  <1>3. ASSUME NEW p \in Runners PROVE CommandSound(p)
    <2>1. job[p].at = "idle" /\ proof[p].phase = "none"
      BY DEF ResumeInit, Init, Idle, Nothing
    <2>2. /\ "idle" \notin SyncPhases \cup HandoffPhases \cup ResumePhases
          /\ Renewed \subseteq ResumePhases /\ Confirmed \subseteq ResumePhases
      BY DEF SyncPhases, HandoffPhases, ResumePhases, Renewed, Confirmed
    <2> QED
      BY <2>1, <2>2 DEF CommandSound, SyncSound, HandoffSound, RollbackSound, ResumeSound
  <1> QED
    BY <1>1, <1>2, <1>3 DEF RInv

(* The strengthened invariant holds of every execution of claims, handoffs *)
(* and resumes: what the protocol needs, and beside it what each handoff   *)
(* and resume has read and verified when it acts on it.                    *)
THEOREM ResumeSoundAlways == ResumeSpec => []RInv
  <1>1. RInv /\ [ResumeNext]_allVars => RInv'
    <2> SUFFICES ASSUME RInv, [ResumeNext]_allVars PROVE RInv'
      OBVIOUS
    <2>1. CASE \E p \in Runners : ClaimStep(p)
      BY <2>1, ClaimKeeps, SyncKeeps DEF ClaimStep
    <2>2. CASE \E p \in Runners : HandoffStep(p)
      BY <2>2, HandoffKeeps
    <2>3. CASE \E p \in Runners : ResumeStep(p) \/ ResumePushLost(p) \/ MutationFails(p)
      BY <2>3, ResumeStepKeeps
    <2>4. CASE \E p \in Runners : WorkMeanwhile(p)
      BY <2>4, WorkKeeps
    <2>5. CASE ((Tick \/ Human) /\ UNCHANGED resumeVars) \/ UNCHANGED allVars
      BY <2>5, OutsideKeeps
    <2> QED
      BY <2>1, <2>2, <2>3, <2>4, <2>5 DEF ResumeNext
  <1> QED
    BY ResumeInitSound, <1>1, PTL DEF ResumeSpec

(* The state stays well typed with handoffs and resumes, and what they     *)
(* have read with it.                                                      *)
THEOREM ResumeTyped == ResumeSpec => [](TypeOK /\ HandoffsTyped)
  <1>1. RInv => TypeOK /\ HandoffsTyped
    BY DEF RInv, IInv
  <1> QED
    BY ResumeSoundAlways, <1>1, PTL

(* A resume that ends tells its runner of a lease too: of all that runners *)
(* were told they hold, what has not run out still names one run.          *)
THEOREM ResumeLeasesExclusive == ResumeSpec => []GrantsExclusive
  <1>1. RInv => GrantsExclusive
    BY Exclusive DEF RInv
  <1> QED
    BY ResumeSoundAlways, <1>1, PTL

(* The forced push of a resume loses no published commit.                  *)
THEOREM ResumeKeepsPublished == ResumeSpec => []PublishedPreserved
  <1>1. RInv => PublishedPreserved
    BY DEF RInv, IInv, RefsSound
  <1> QED
    BY ResumeSoundAlways, <1>1, PTL

(* A resume takes the label of the handoff off only once its renewal is    *)
(* published and in the history of HEAD, whatever became of its push.      *)
THEOREM LabelStays == ResumeSpec => LabelHeldUntilRenewed
  <1>1. RInv => (\A p \in Runners : RemoveLabel(p) /\ needsHuman /\ ~ needsHuman' =>
          job[p].made \in published /\ IsAncestor(job[p].made, worktree[p].head))
    <2> SUFFICES ASSUME RInv, NEW p \in Runners, RemoveLabel(p)
                 PROVE  job[p].made \in published /\ IsAncestor(job[p].made, worktree[p].head)
      OBVIOUS
    <2>1. job[p].at = "resUnlabel" /\ ResumeSound(job[p], worktree[p], proof[p])
      BY RInvMeans DEF RemoveLabel, StepTo, CommandSound
    <2> QED
      BY <2>1 DEF ResumeSound, Confirmed
  <1> QED
    BY ResumeSoundAlways, <1>1, PTL DEF LabelHeldUntilRenewed

-----------------------------------------------------------------------------
(* The work in the worktrees, and the lock                                 *)

(* The other steps of handoff, resume and sync leave the branches alone.   *)
LEMMA BesideQuiet ==
  ASSUME NEW p \in Runners,
         \/ SyncStep(p) \/ HandoffStep(p) \/ MutationFails(p)
         \/ ResumeStep(p) /\ ~ ResumeAdopt(p) /\ ~ ResumePush(p)
  PROVE  UNCHANGED <<now, commits, remote, worktree>>
  <1>1. CASE SyncStep(p)
    BY <1>1 DEF SyncStep, SyncItems, SyncInspect, SyncIssue, SyncWrite, ListClaims, gitVars
  <1>2. CASE HandoffStep(p) \/ MutationFails(p)
    BY <1>2 DEF HandoffStep, HandoffRead, HandoffCheck, HandoffLabel, HandoffVerify, HandoffBacklog,
       HandoffFinal, HandoffPost, MutationFails, gitVars
  <1>3. CASE ResumeStep(p) /\ ~ ResumeAdopt(p) /\ ~ ResumePush(p)
    BY <1>3 DEF ResumeStep, ResumeStart, ResumeHeads, ResumePulls, ResumeIssue, ResumeItem,
       ResumeCreate, ResumeReread, ResumeVerify, ResumeVerifyRefs, TargetIssue, TargetPulls,
       TargetItem, RemoveLabel, LabelReread, SetPicked, gitVars
  <1> QED
    BY <1>1, <1>2, <1>3

Lost(p) == commits[worktree[p].head].past \ commits'[worktree'[p].head].past

LEMMA HeadStays ==
  ASSUME RInv, NEW p \in Runners, Kept, worktree'[p] = worktree[p], worktree[p].run # NoCommit
  PROVE  Lost(p) = {}
  <1>1. worktree[p].head \in Made
    BY RInvMeans DEF JobSound, BranchSound
  <1> QED
    BY <1>1 DEF Kept, Lost

(* Of the claim protocol only the rollback of a renewal takes anything out *)
(* of the history of HEAD.                                                 *)
LEMMA ClaimLoses ==
  ASSUME RInv, NEW p \in Runners, NEW q \in Runners, Step(q),
         worktree[p].run # NoCommit, worktree'[p].run = worktree[p].run
  PROVE  \A c \in Lost(p) : commits[c].marker
  <1> PICK head, id : head = worktree[p].head /\ id = Len(commits) + 1
    OBVIOUS
  <1>1. /\ IInv /\ TypeOK /\ Kept /\ worktree \in [Runners -> Branch] /\ BranchTaken(q, Branch')
        /\ commits \in Seq(Commit)
    BY RInvMeans, CommitsStep, WorktreeStep DEF TypeOK
  <1>2. head \in Made /\ commits[head] \in Commit /\ commits'[head] = commits[head]
    BY <1>1, RInvMeans, MadeTyped DEF JobSound, BranchSound, Kept
  <1>3. CASE worktree'[p] = worktree[p]
    BY <1>1, <1>3, HeadStays
  <1>4. CASE q = p /\ AddWorktree(p)
    <2>1. job[p].made # worktree[p].run
      BY <1>4, RInvMeans DEF AddWorktree, StepTo, CommandSound, RollbackSound
    <2>2. worktree' = worktree
      BY <1>1, <1>4, <2>1 DEF AddWorktree, Branch
    <2> QED
      BY <1>3, <2>2
  <1>5. ASSUME NEW new, commits' = Append(commits, new), commits[head].past \subseteq new.past,
               worktree' = [worktree EXCEPT ![p].head = id]
        PROVE  Lost(p) = {}
    <2>1. commits'[id] = new /\ worktree'[p].head = id
      BY <1>1, <1>5 DEF Branch
    <2> QED
      BY <1>5, <2>1 DEF Lost
  <1>6. CASE q = p /\ RenewCommit(p)
    <2> DEFINE new == [run |-> worktree[p].run, lease |-> now + Lease, marker |-> TRUE,
                       past |-> commits[head].past \cup {id}]
    <2>1. commits' = Append(commits, new) /\ worktree' = [worktree EXCEPT ![p].head = id]
      BY <1>6 DEF RenewCommit
    <2>2. commits[head].past \subseteq new.past
      OBVIOUS
    <2> HIDE DEF new
    <2> QED
      BY <1>5, <2>1, <2>2
  <1>7. CASE q = p /\ Work(p)
    <2> DEFINE new == [commits[head] EXCEPT !.marker = FALSE, !.past = @ \cup {id}]
    <2>1. commits' = Append(commits, new) /\ worktree' = [worktree EXCEPT ![p].head = id]
      BY <1>7 DEF Work
    <2>2. commits[head].past \subseteq new.past
      BY <1>2 DEF Commit
    <2> HIDE DEF new
    <2> QED
      BY <1>5, <2>1, <2>2
  <1>8. CASE q = p /\ RenewRestore(p)
    <2>1. job[p].at = "restore" /\ commits' = commits /\ worktree'[p].head = job[p].made
      BY <1>1, <1>8 DEF RenewRestore, StepTo, Branch
    <2> QED
      BY <2>1, RInvMeans DEF CommandSound, RollbackSound, Lost
  <1>9. CASE q # p
    BY <1>1, <1>3, <1>9 DEF BranchTaken
  <1> QED
    BY <1>3, <1>4, <1>6, <1>7, <1>8, <1>9, StepFrame

(* A worktree that belongs to a run loses at most a renewal, which is      *)
(* empty, from the history of its HEAD: no acquisition, handoff or resume, *)
(* by whichever runner, discards a commit of the agent.                    *)
THEOREM WorkStays == ResumeSpec => WorkKept
  <1>1. RInv /\ [ResumeNext]_allVars =>
          \A p \in Runners :
            worktree[p].run # NoCommit /\ worktree'[p].run = worktree[p].run =>
              \A c \in Lost(p) : commits[c].marker
    <2> SUFFICES ASSUME RInv, [ResumeNext]_allVars, NEW p \in Runners,
                        worktree[p].run # NoCommit, worktree'[p].run = worktree[p].run
                 PROVE  \A c \in Lost(p) : commits[c].marker
      OBVIOUS
    <2>1. worktree \in [Runners -> Branch] /\ TypeOK
      BY RInvMeans
    <2>2. CASE UNCHANGED <<commits, worktree>>
      BY <2>1, <2>2, HeadStays, MadeTyped DEF Kept, Made
    <2>3. ASSUME NEW q \in Runners, Grows(q)
          PROVE  Lost(p) = {}
      <3>1. CASE q = p
        BY <2>3, <3>1 DEF Grows, Lost
      <3>2. CASE q # p
        BY <2>1, <2>3, <3>2, HeadStays DEF Grows, BranchTaken
      <3> QED
        BY <3>1, <3>2
    <2>4. CASE \E q \in Runners : ClaimStep(q)
      BY <2>2, <2>4, ClaimLoses, BesideQuiet DEF ClaimStep
    <2>5. CASE \E q \in Runners : WorkMeanwhile(q)
      BY <2>3, <2>5, WorkKeeps
    <2>6. CASE \E q \in Runners : ResumeAdopt(q)
      BY <2>3, <2>6, AdoptNewKeeps, AdoptOldKeeps DEF ResumeAdopt
    <2>7. CASE \E q \in Runners : ResumePush(q) \/ ResumePushLost(q)
      BY <2>2, <2>7, ResumePushKeeps
    <2>8. CASE \E q \in Runners : HandoffStep(q) \/ MutationFails(q)
                                    \/ (ResumeStep(q) /\ ~ ResumeAdopt(q) /\ ~ ResumePush(q))
      BY <2>2, <2>8, BesideQuiet
    <2>9. CASE Tick \/ Human \/ UNCHANGED allVars
      BY <2>2, <2>9 DEF Tick, Human, allVars, vars, gitVars
    <2> QED
      BY <2>4, <2>5, <2>6, <2>7, <2>8, <2>9 DEF ResumeNext
  <1> QED
    BY ResumeSoundAlways, <1>1, PTL DEF ResumeSpec, WorkKept, Lost

(* With resumes, whose push is forced, the claim branch is still a leased  *)
(* lock: a run loses it only once its lease on the remote has run out.     *)
THEOREM ResumeImplementsLock == ResumeSpec => LockSpec
  <1>1. ResumeInit => Lock!LockInit
    BY DEF ResumeInit, Init, Lock!LockInit
  <1>2. RInv /\ [ResumeNext]_allVars => [LockNext]_<<now, holder, until>>
    <2> SUFFICES ASSUME RInv, [ResumeNext]_allVars
                 PROVE  LockNext \/ UNCHANGED <<now, holder, until>>
      OBVIOUS
    <2>1. IInv
      BY DEF RInv
    <2>2. CASE UNCHANGED <<now, commits, remote>>
      BY <2>2 DEF holder, until
    <2>3. ASSUME Kept, UNCHANGED <<now, remote>>
          PROVE  UNCHANGED <<now, holder, until>>
      BY <2>1, <2>3, QuietLeavesLock
    <2>4. CASE \E q \in Runners : ClaimStep(q)
      BY <2>1, <2>2, <2>4, StepLocks, BesideQuiet DEF ClaimStep
    <2>5. CASE \E q \in Runners : WorkMeanwhile(q)
      BY <2>3, <2>5, WorkKeeps DEF Grows, WorkMeanwhile
    <2>6. CASE \E q \in Runners : ResumeAdopt(q)
      BY <2>3, <2>6, AdoptNewKeeps, AdoptOldKeeps DEF Grows, ResumeAdopt
    <2>7. CASE \E q \in Runners : ResumePush(q) \/ ResumePushLost(q)
      BY <2>1, <2>2, <2>7, ResumePushKeeps, PushLocks
    <2>8. CASE \E q \in Runners : HandoffStep(q) \/ MutationFails(q)
                                    \/ (ResumeStep(q) /\ ~ ResumeAdopt(q) /\ ~ ResumePush(q))
      BY <2>2, <2>8, BesideQuiet
    <2>9. CASE Tick \/ Human
      BY <2>1, <2>9, OutsideLocks
    <2>10. CASE UNCHANGED allVars
      BY <2>2, <2>10 DEF allVars, vars
    <2> QED
      BY <2>4, <2>5, <2>6, <2>7, <2>8, <2>9, <2>10 DEF ResumeNext
  <1>3. [LockNext]_<<now, holder, until>> =>
          [Lock!Take \/ Lock!Extend \/ Lock!Expire \/ Lock!Pass]_(Lock!LockVars)
    BY DEF LockNext, Lock!LockVars, holder, until
  <1> QED
    BY ResumeSoundAlways, <1>1, <1>2, <1>3, PTL DEF ResumeSpec, LockSpec, Lock!LockSpec

=============================================================================
