---------------------------- MODULE ClaimsProofs ----------------------------
(***************************************************************************)
(* Proofs about Claims, for any set of runners, any lease and any bounds:  *)
(* the type invariant, that leases are exclusive, that published work is   *)
(* kept, and that the claim branch implements the leased lock ClaimLock.   *)
(***************************************************************************)
EXTENDS Claims, TLAPS

Made == 1 .. Len(commits)

At(p, places) == job[p].at \in places

(* A commit carries its whole history, back to the marker its run is named *)
(* after, which is of one run, with leases that only grow; no lease is     *)
(* longer than one given now.                                              *)
Histories ==
  \A c \in Made :
    /\ c \in commits[c].past /\ commits[c].run \in commits[c].past
    /\ commits[c].past \subseteq Made
    /\ commits[c].lease <= now + Lease
    /\ \A a \in commits[c].past :
         /\ commits[a].past \subseteq commits[c].past
         /\ commits[a].run = commits[c].run
         /\ commits[a].lease <= commits[c].lease

RefsPublished ==
  /\ NoCommit \notin published \cup archive
  /\ remote = NoCommit \/ remote \in published

(* What was published and has not run out is in the history of the branch. *)
LiveHeld == \A c \in published : Live(c) => remote # NoCommit /\ IsAncestor(c, remote)

(* A runner is only told of a lease that was published.                    *)
GrantsBacked ==
  \A g \in granted :
    /\ g.until > now
    /\ \E c \in published : commits[c].run = g.run /\ commits[c].lease = g.until

(* What the command of a runner has established so far.  A claim about to  *)
(* be archived had run out when it was inspected, and one about to be      *)
(* deleted is archived; a new marker is of its own run; a renewal starts   *)
(* from a marker of the run of the local branch; what is verified was      *)
(* published.                                                              *)
StaleSound(p) ==
  /\ At(p, {"inspect", "pulls", "archive", "delete"}) => job[p].seen # NoCommit
  /\ At(p, {"pulls", "archive", "delete"}) => ~ Live(job[p].seen)
  /\ At(p, {"delete"}) => job[p].seen \in archive

MarkerSound(p) ==
  /\ At(p, {"push", "renewCheck", "renewCommit", "renewPush", "restore"}) => job[p].made # NoCommit
  /\ At(p, {"push"}) => /\ commits[job[p].made].past = {job[p].made}
                        /\ commits[job[p].made].run = job[p].made

BranchSound(p) ==
  LET head == worktree[p].head IN
  /\ worktree[p].run # NoCommit => head # NoCommit
  /\ At(p, {"renewCheck", "renewCommit", "renewPush", "restore", "deadline", "prCheck",
            "prLookup", "prPush", "prHeads", "prDeadline"}) => head # NoCommit
  /\ At(p, {"renewCommit", "renewPush"}) => commits[head].run = worktree[p].run
  /\ At(p, {"deadline", "prDeadline"}) => head \in published

JobSound(p) == StaleSound(p) /\ MarkerSound(p) /\ BranchSound(p)

RefsSound == RefsPublished /\ LiveHeld /\ GrantsBacked /\ PublishedPreserved

IInv == TypeOK /\ Histories /\ RefsSound /\ \A p \in Runners : JobSound(p)

-----------------------------------------------------------------------------
(* Commands                                                                *)

Reads == Statuses \cup {"open", "none"}
Job == [at : Phases, seen : Known, made : Known, read : Reads]
Branch == [run : Known, head : Known]

LEMMA Bounds == Lease \in Nat /\ Horizon \in Nat /\ MaxCommits \in Nat
  BY ClaimsAssumption

LEMMA IdleTyped == ASSUME TypeOK PROVE Idle \in Job
  <1>1. 0 \in Known
    BY DEF TypeOK, Known
  <1>2. "idle" \in Phases
    BY DEF Phases
  <1> QED
    BY <1>1, <1>2 DEF Idle, Job, NoCommit, Reads

(* A command that goes on keeps what it has read, one that ends forgets it. *)
LEMMA GotoFacts ==
  ASSUME TypeOK, NEW p \in Runners, NEW next \in Phases, Goto(p, next)
  PROVE  /\ job'[p] \in Job /\ job'[p].at = next
         /\ next # "idle" => job'[p] = [job[p] EXCEPT !.at = next]
         /\ job' = [job EXCEPT ![p] = job'[p]]
  <1>1. job[p] \in Job
    BY DEF TypeOK, Job, Reads
  <1>2. [job[p] EXCEPT !.at = next] \in Job
    BY <1>1 DEF Job
  <1>3. Idle.at = "idle"
    BY DEF Idle
  <1> QED
    BY <1>1, <1>2, <1>3, IdleTyped DEF Goto, Become, Job, TypeOK

LEMMA InitInvariant == Init => IInv
  <1> SUFFICES ASSUME Init PROVE IInv
    OBVIOUS
  <1>1. TypeOK
    <2>1. commits \in Seq(Commit) /\ Len(commits) = 0 /\ now = 0
      BY DEF Init
    <2>2. Known = {0}
      BY <2>1 DEF Known
    <2>3. worktree \in [Runners -> [run : Known, head : Known]]
      BY <2>2 DEF Init, NoCommit
    <2>4. Idle \in Job
      BY <2>2 DEF Idle, Job, NoCommit, Reads, Phases
    <2>5. job \in [Runners -> Job]
      BY <2>4 DEF Init
    <2>6. /\ remote \in Known /\ tracking \in Known
          /\ archive \subseteq Known /\ published \subseteq Known
      BY <2>2 DEF Init, NoCommit
    <2>7. {openPR, issueOpen, needsHuman} \subseteq BOOLEAN /\ status \in Statuses
      BY DEF Init, Statuses
    <2>8. now \in 0 .. Horizon /\ Len(commits) <= MaxCommits 
      BY <2>1, Bounds
    <2>9. granted \subseteq [run : Known, until : 0 .. Horizon + Lease]
      BY DEF Init
    <2> QED
      BY <2>1, <2>3, <2>5, <2>6, <2>7, <2>8, <2>9 DEF TypeOK, Job, Reads
  <1>2. Histories
    BY DEF Init, Histories, Made
  <1>3. RefsSound
    BY DEF Init, RefsSound, RefsPublished, LiveHeld, GrantsBacked, PublishedPreserved
  <1>4. ASSUME NEW p \in Runners PROVE JobSound(p)
    BY DEF Init, JobSound, StaleSound, MarkerSound, BranchSound, At, Idle
  <1> QED
    BY <1>1, <1>2, <1>3, <1>4 DEF IInv

-----------------------------------------------------------------------------
(* Steps                                                                   *)

(* Which commands move what.                                               *)
LEMMA StepFrame ==
  ASSUME NEW p \in Runners, Step(p)
  PROVE  /\ now' = now
         /\ commits' = commits \/ NewClaim(p) \/ RenewCommit(p) \/ Work(p)
         /\ \/ UNCHANGED <<remote, published>>
            \/ PushClaim(p) \/ RenewPush(p) \/ RenewPushFails(p) \/ OpenPush(p) \/ DeleteStale(p)
         /\ worktree' = worktree \/ AddWorktree(p) \/ RenewCommit(p) \/ RenewRestore(p) \/ Work(p)
         /\ granted' = granted \/ PushClaim(p) \/ RenewPush(p) \/ VerifyDeadline(p)
         /\ archive' = archive \/ ArchiveStale(p)
  <1>1. now' = now
    BY DEF Step, ListClaims, InspectClaim, ListPulls, LabelStale, ArchiveStale,
           DeleteStale, ReadItem, AssertClaimable, NewClaim, PushClaim, AddWorktree,
           ReadProject, SetProject, RenewHeads, RenewCheck, RenewCommit, RenewPush,
           RenewPushFails, RenewRestore, VerifyHeads, VerifyDeadline, OpenHeads,
           OpenCheck, OpenLookup, OpenPush, CreatePull, Work, Abort, gitVars, issueVars,
           history
  <1>2. commits' = commits \/ NewClaim(p) \/ RenewCommit(p) \/ Work(p)
    BY DEF Step, ListClaims, InspectClaim, ListPulls, LabelStale, ArchiveStale,
           DeleteStale, ReadItem, AssertClaimable, NewClaim, PushClaim, AddWorktree,
           ReadProject, SetProject, RenewHeads, RenewCheck, RenewCommit, RenewPush,
           RenewPushFails, RenewRestore, VerifyHeads, VerifyDeadline, OpenHeads,
           OpenCheck, OpenLookup, OpenPush, CreatePull, Work, Abort, gitVars, issueVars,
           history
  <1>3. \/ UNCHANGED <<remote, published>>
        \/ PushClaim(p) \/ RenewPush(p) \/ RenewPushFails(p) \/ OpenPush(p) \/ DeleteStale(p)
    BY DEF Step, ListClaims, InspectClaim, ListPulls, LabelStale, ArchiveStale,
           DeleteStale, ReadItem, AssertClaimable, NewClaim, PushClaim, AddWorktree,
           ReadProject, SetProject, RenewHeads, RenewCheck, RenewCommit, RenewPush,
           RenewPushFails, RenewRestore, VerifyHeads, VerifyDeadline, OpenHeads,
           OpenCheck, OpenLookup, OpenPush, CreatePull, Work, Abort, gitVars, issueVars,
           history
  <1>4. worktree' = worktree \/ AddWorktree(p) \/ RenewCommit(p) \/ RenewRestore(p) \/ Work(p)
    BY DEF Step, ListClaims, InspectClaim, ListPulls, LabelStale, ArchiveStale,
           DeleteStale, ReadItem, AssertClaimable, NewClaim, PushClaim, AddWorktree,
           ReadProject, SetProject, RenewHeads, RenewCheck, RenewCommit, RenewPush,
           RenewPushFails, RenewRestore, VerifyHeads, VerifyDeadline, OpenHeads,
           OpenCheck, OpenLookup, OpenPush, CreatePull, Work, Abort, gitVars, issueVars,
           history
  <1>5. granted' = granted \/ PushClaim(p) \/ RenewPush(p) \/ VerifyDeadline(p)
    BY DEF Step, ListClaims, InspectClaim, ListPulls, LabelStale, ArchiveStale,
           DeleteStale, ReadItem, AssertClaimable, NewClaim, PushClaim, AddWorktree,
           ReadProject, SetProject, RenewHeads, RenewCheck, RenewCommit, RenewPush,
           RenewPushFails, RenewRestore, VerifyHeads, VerifyDeadline, OpenHeads,
           OpenCheck, OpenLookup, OpenPush, CreatePull, Work, Abort, gitVars, issueVars,
           history
  <1>6. archive' = archive \/ ArchiveStale(p)
    BY DEF Step, ListClaims, InspectClaim, ListPulls, LabelStale, ArchiveStale,
           DeleteStale, ReadItem, AssertClaimable, NewClaim, PushClaim, AddWorktree,
           ReadProject, SetProject, RenewHeads, RenewCheck, RenewCommit, RenewPush,
           RenewPushFails, RenewRestore, VerifyHeads, VerifyDeadline, OpenHeads,
           OpenCheck, OpenLookup, OpenPush, CreatePull, Work, Abort, gitVars, issueVars,
           history
  <1> QED
    BY <1>1, <1>2, <1>3, <1>4, <1>5, <1>6

Kept == Len(commits) <= Len(commits') /\ \A c \in Made : commits'[c] = commits[c]

LEMMA Appended ==
  ASSUME TypeOK, NEW new \in Commit, commits' = Append(commits, new), Len(commits) + 1 <= MaxCommits
  PROVE  /\ commits' \in Seq(Commit) /\ Len(commits') = Len(commits) + 1
         /\ Kept /\ Known \subseteq Known' /\ Made' = Made \cup {Len(commits) + 1}
         /\ commits'[Len(commits) + 1] = new /\ Len(commits) + 1 \in CommitIds
  <1>1. commits \in Seq(Commit) /\ Len(commits) \in Nat
    BY DEF TypeOK
  <1>2. commits' \in Seq(Commit) /\ Len(commits') = Len(commits) + 1
    BY <1>1
  <1>3. Kept /\ commits'[Len(commits) + 1] = new
    BY <1>1, <1>2 DEF Kept, Made
  <1>4. Known \subseteq Known' /\ Made' = Made \cup {Len(commits) + 1}
    BY <1>1, <1>2 DEF Known, Made
  <1>5. Len(commits) + 1 \in CommitIds
    BY <1>1, Bounds DEF CommitIds
  <1> QED
    BY <1>2, <1>3, <1>4, <1>5

LEMMA MadeTyped ==
  ASSUME TypeOK
  PROVE  /\ \A c \in Made : commits[c] \in Commit
         /\ Made \subseteq CommitIds /\ Known = Made \cup {NoCommit} /\ NoCommit \notin Made
         /\ \A c \in Made : /\ commits[c].run \in CommitIds /\ commits[c].past \subseteq CommitIds
                            /\ commits[c].lease \in Nat /\ commits[c].lease <= Horizon + Lease
         /\ now \in Nat /\ now <= Horizon /\ Len(commits) \in Nat
  <1>1. commits \in Seq(Commit) /\ Len(commits) \in Nat /\ Len(commits) <= MaxCommits
    BY DEF TypeOK
  <1>2. \A c \in Made : commits[c] \in Commit
    BY <1>1 DEF Made
  <1>3. Made \subseteq CommitIds /\ Known = Made \cup {NoCommit} /\ NoCommit \notin Made
    BY <1>1, Bounds DEF Made, CommitIds, Known, NoCommit
  <1>4. \A c \in Made : /\ commits[c].run \in CommitIds /\ commits[c].past \subseteq CommitIds
                        /\ commits[c].lease \in Nat /\ commits[c].lease <= Horizon + Lease
    BY <1>2, Bounds DEF Commit
  <1>5. now \in Nat /\ now <= Horizon
    BY Bounds DEF TypeOK
  <1> QED
    BY <1>1, <1>2, <1>3, <1>4, <1>5

(* A commit made on a history of its own run, or on none, keeps Histories. *)
LEMMA HistoryExtended ==
  ASSUME TypeOK, Histories, now' = now, NEW new \in Commit, NEW base \in SUBSET Made,
         commits' = Append(commits, new), Len(commits) + 1 <= MaxCommits,
         new.past = base \cup {Len(commits) + 1}, new.run \in new.past, new.lease <= now + Lease,
         \A a \in base : /\ commits[a].past \subseteq base
                         /\ commits[a].run = new.run /\ commits[a].lease <= new.lease
  PROVE  Histories'
  <1> DEFINE id == Len(commits) + 1
  <1>1. /\ Made' = Made \cup {id} /\ commits'[id] = new
        /\ \A c \in Made : commits'[c] = commits[c]
    BY Appended DEF Kept
  <1>2. ASSUME NEW c \in Made
        PROVE  /\ c \in commits'[c].past /\ commits'[c].run \in commits'[c].past
               /\ commits'[c].past \subseteq Made'
               /\ commits'[c].lease <= now' + Lease
               /\ \A a \in commits'[c].past :
                    /\ commits'[a].past \subseteq commits'[c].past
                    /\ commits'[a].run = commits'[c].run
                    /\ commits'[a].lease <= commits'[c].lease
    <2>1. /\ commits'[c] = commits[c] /\ commits[c].past \subseteq Made
          /\ c \in commits[c].past /\ commits[c].run \in commits[c].past
          /\ commits[c].lease <= now + Lease
      BY <1>1 DEF Histories
    <2>2. \A a \in commits[c].past :
            /\ commits'[a] = commits[a] /\ commits[a].past \subseteq commits[c].past
            /\ commits[a].run = commits[c].run /\ commits[a].lease <= commits[c].lease
      BY <2>1, <1>1 DEF Histories
    <2> QED
      BY <2>1, <2>2, <1>1
  <1>3. new.lease \in Nat
    BY Bounds DEF Commit
  <1>4. \A a \in new.past :
          /\ commits'[a].past \subseteq new.past
          /\ commits'[a].run = new.run
          /\ commits'[a].lease <= new.lease
    <2> SUFFICES ASSUME NEW a \in new.past
                 PROVE  /\ commits'[a].past \subseteq new.past
                        /\ commits'[a].run = new.run
                        /\ commits'[a].lease <= new.lease
      OBVIOUS
    <2>1. CASE a = id
      BY <2>1, <1>1, <1>3
    <2>2. CASE a \in base
      <3>1. commits'[a] = commits[a]
        BY <2>2, <1>1
      <3> QED
        BY <2>2, <3>1
    <2> QED
      BY <2>1, <2>2
  <1>5. id \in new.past /\ new.past \subseteq Made' /\ new.lease <= now' + Lease
    BY <1>1
  <1>6. ASSUME NEW c \in Made', c \notin Made
        PROVE  /\ c \in commits'[c].past /\ commits'[c].run \in commits'[c].past
               /\ commits'[c].past \subseteq Made'
               /\ commits'[c].lease <= now' + Lease
               /\ \A a \in commits'[c].past :
                    /\ commits'[a].past \subseteq commits'[c].past
                    /\ commits'[a].run = commits'[c].run
                    /\ commits'[a].lease <= commits'[c].lease
    <2>1. c = id /\ commits'[c] = new
      BY <1>1, <1>6
    <2> QED
      BY <2>1, <1>4, <1>5
  <1> QED
    BY <1>2, <1>6 DEF Histories

LEMMA HistoriesKept ==
  ASSUME TypeOK, Histories, commits' = commits, now' \in Nat, now' >= now
  PROVE  Histories'
  <1>1. Made' = Made
    BY DEF Made
  <1>2. \A c \in Made : commits[c].lease <= now' + Lease
    BY MadeTyped, Bounds DEF Histories
  <1> QED
    BY <1>1, <1>2 DEF Histories

(* What a step does to the commits.                                        *)
LEMMA CommitsStep ==
  ASSUME IInv, NEW p \in Runners, Step(p)
  PROVE  /\ commits' \in Seq(Commit) /\ Len(commits') <= MaxCommits
         /\ Kept /\ Known \subseteq Known' /\ Made \subseteq Made' /\ Histories'
  <1>1. TypeOK /\ Histories /\ JobSound(p) /\ now' = now
    BY StepFrame DEF IInv
  <1>2. CASE commits' = commits
    <2>1. Made' = Made /\ Known' = Known /\ Kept
      BY <1>2, <1>1, MadeTyped DEF Made, Known, Kept
    <2> QED
      BY <1>1, <1>2, <2>1, MadeTyped, HistoriesKept DEF TypeOK
  <1>3. ASSUME NEW new \in Commit, commits' = Append(commits, new), Len(commits) + 1 <= MaxCommits
        PROVE  /\ commits' \in Seq(Commit) /\ Len(commits') <= MaxCommits
               /\ Kept /\ Known \subseteq Known' /\ Made \subseteq Made'
    BY <1>1, <1>3, Appended
  <1>4. CASE NewClaim(p)
    <2> DEFINE id == Len(commits) + 1
               new == [run |-> id, lease |-> now + Lease, marker |-> TRUE, past |-> {id}]
    <2>1. id \in CommitIds /\ id <= MaxCommits /\ commits' = Append(commits, new)
      BY <1>1, <1>4, MadeTyped, Bounds DEF NewClaim, CommitIds
    <2>2. new \in Commit
      BY <2>1, <1>1, MadeTyped, Bounds DEF Commit
    <2>3. Histories'
      <3>1. new.past = {} \cup {id} /\ new.run \in new.past /\ new.lease <= now + Lease
        BY <1>1, MadeTyped, Bounds
      <3> HIDE DEF new
      <3>2. {} \in SUBSET Made /\ \A a \in {} : FALSE
        OBVIOUS
      <3> QED
        BY <1>1, <2>1, <2>2, <3>1, <3>2, HistoryExtended
    <2> QED
      BY <1>3, <2>1, <2>2, <2>3
  <1>5. CASE RenewCommit(p)
    <2> DEFINE id == Len(commits) + 1
               head == worktree[p].head
               new == [run |-> worktree[p].run, lease |-> now + Lease, marker |-> TRUE,
                       past |-> commits[head].past \cup {id}]
    <2>1. /\ id \in CommitIds /\ id <= MaxCommits /\ commits' = Append(commits, new)
          /\ At(p, {"renewCommit"})
      BY <1>1, <1>5, MadeTyped, Bounds DEF RenewCommit, CommitIds, At
    <2>2. head \in Made /\ commits[head].run = worktree[p].run
      BY <1>1, <2>1, MadeTyped DEF JobSound, BranchSound, At, TypeOK
    <2>3. commits[head].past \subseteq Made /\ worktree[p].run \in commits[head].past /\
          \A a \in commits[head].past :
            /\ commits[a].past \subseteq commits[head].past
            /\ commits[a].run = worktree[p].run /\ commits[a].lease <= now + Lease
      BY <1>1, <2>2 DEF Histories
    <2>4. new \in Commit
      BY <1>1, <2>1, <2>2, <2>3, MadeTyped, Bounds DEF Commit
    <2>5. Histories'
      <3>1. /\ new.past = commits[head].past \cup {id} /\ new.lease = now + Lease
            /\ new.run = worktree[p].run /\ new.run \in new.past /\ new.lease <= now + Lease
        BY <1>1, <2>3, MadeTyped, Bounds
      <3> HIDE DEF new, head
      <3> QED
        BY <1>1, <2>1, <2>3, <2>4, <3>1, HistoryExtended
    <2> QED
      BY <1>3, <2>1, <2>4, <2>5
  <1>6. CASE Work(p)
    <2> DEFINE id == Len(commits) + 1
               head == worktree[p].head
               new == [commits[head] EXCEPT !.marker = FALSE, !.past = @ \cup {id}]
    <2>1. /\ id \in CommitIds /\ id <= MaxCommits /\ commits' = Append(commits, new)
          /\ head # NoCommit
      BY <1>1, <1>6, MadeTyped, Bounds DEF Work, CommitIds
    <2>2. head \in Made /\ commits[head] \in Commit
      BY <1>1, <2>1, MadeTyped DEF TypeOK
    <2>3. /\ commits[head].past \subseteq Made /\ commits[head].lease <= now + Lease
          /\ commits[head].run \in commits[head].past
          /\ \A a \in commits[head].past :
            /\ commits[a].past \subseteq commits[head].past
            /\ commits[a].run = commits[head].run /\ commits[a].lease <= commits[head].lease
      BY <1>1, <2>2 DEF Histories
    <2>4. /\ new.past = commits[head].past \cup {id} /\ new.lease = commits[head].lease
          /\ new.run = commits[head].run /\ new.run \in new.past
      BY <2>2, <2>3 DEF Commit
    <2>5. new \in Commit
      BY <2>1, <2>2 DEF Commit
    <2>6. Histories'
      <3> HIDE DEF new
      <3> QED
        BY <1>1, <2>1, <2>3, <2>4, <2>5, HistoryExtended
    <2> QED
      BY <1>3, <2>1, <2>5, <2>6
  <1> QED
    BY <1>2, <1>4, <1>5, <1>6, StepFrame

(* What a step does to the branch: a push creates or fast-forwards it, and *)
(* only a branch whose lease has run out, archived before, is deleted.     *)
Pushed(head) ==
  /\ CanPush(head)
  /\ remote' = head /\ published' = published \cup {head}
  /\ UNCHANGED <<now, commits>>

Deleted ==
  /\ remote # NoCommit /\ ~ Live(remote) /\ remote \in archive
  /\ remote' = NoCommit
  /\ UNCHANGED <<now, commits, published>>

LEMMA BranchStep ==
  ASSUME IInv, NEW p \in Runners, Step(p)
  PROVE  \/ UNCHANGED <<remote, published>>
         \/ \E head \in Made : Pushed(head)
         \/ Deleted
  <1>1. TypeOK /\ JobSound(p) /\ now' = now
    BY StepFrame DEF IInv
  <1>2. job[p].made \in Known /\ job[p].seen \in Known /\ worktree[p].head \in Known
    BY <1>1 DEF TypeOK
  <1>3. CASE PushClaim(p)
    <2>1. job[p].made \in Made
      BY <1>1, <1>2, <1>3, MadeTyped DEF PushClaim, StepTo, JobSound, MarkerSound, At
    <2>2. CASE CanPush(job[p].made)
      BY <2>1, <2>2, <1>3, <1>1 DEF PushClaim, Pushed
    <2>3. CASE ~ CanPush(job[p].made)
      BY <2>3, <1>3 DEF PushClaim, history
    <2> QED
      BY <2>2, <2>3
  <1>4. CASE RenewPush(p)
    <2>1. worktree[p].head \in Made
      BY <1>1, <1>2, <1>4, MadeTyped DEF RenewPush, StepTo, JobSound, BranchSound, At
    <2> QED
      BY <2>1, <1>4, <1>1 DEF RenewPush, Pushed
  <1>5. CASE RenewPushFails(p)
    <2>1. worktree[p].head \in Made
      BY <1>1, <1>2, <1>5, MadeTyped DEF RenewPushFails, StepTo, JobSound, BranchSound, At
    <2> QED
      BY <2>1, <1>5, <1>1 DEF RenewPushFails, Pushed
  <1>6. CASE OpenPush(p)
    <2>1. worktree[p].head \in Made
      BY <1>1, <1>2, <1>6, MadeTyped DEF OpenPush, StepTo, JobSound, BranchSound, At
    <2> QED
      BY <2>1, <1>6, <1>1 DEF OpenPush, Pushed
  <1>7. CASE DeleteStale(p)
    <2>1. job[p].seen # NoCommit /\ ~ Live(job[p].seen) /\ job[p].seen \in archive
      BY <1>1, <1>7 DEF DeleteStale, StepTo, JobSound, StaleSound, At
    <2>2. CASE remote = job[p].seen
      BY <2>1, <2>2, <1>7, <1>1 DEF DeleteStale, Deleted, history
    <2>3. CASE remote # job[p].seen
      BY <2>3, <1>7 DEF DeleteStale, history
    <2> QED
      BY <2>2, <2>3
  <1> QED
    BY <1>3, <1>4, <1>5, <1>6, <1>7, StepFrame

(* A runner is told of a lease only when its head is, or has just been,    *)
(* published.                                                              *)
LEMMA GrantStep ==
  ASSUME IInv, NEW p \in Runners, Step(p)
  PROVE  \/ granted' = granted
         \/ \E c \in Made : c \in published' /\ commits' = commits /\ Grant(commits[c].run, c)
  <1>1. TypeOK /\ JobSound(p)
    BY DEF IInv
  <1>2. job[p].made \in Known /\ worktree[p].head \in Known
    BY <1>1 DEF TypeOK
  <1>3. CASE PushClaim(p)
    <2>1. job[p].made \in Made /\ commits[job[p].made].run = job[p].made
      BY <1>1, <1>2, <1>3, MadeTyped DEF PushClaim, StepTo, JobSound, MarkerSound, At
    <2> QED
      BY <2>1, <1>3 DEF PushClaim, history
  <1>4. CASE RenewPush(p)
    <2>1. worktree[p].head \in Made /\ commits[worktree[p].head].run = worktree[p].run
      BY <1>1, <1>2, <1>4, MadeTyped DEF RenewPush, StepTo, JobSound, BranchSound, At
    <2> QED
      BY <2>1, <1>4 DEF RenewPush
  <1>5. CASE VerifyDeadline(p)
    <2>1. worktree[p].head \in Made /\ worktree[p].head \in published
      BY <1>1, <1>2, <1>5, MadeTyped DEF VerifyDeadline, StepTo, JobSound, BranchSound, At
    <2> QED
      BY <2>1, <1>5 DEF VerifyDeadline, validateClaim, gitVars
  <1> QED
    BY <1>3, <1>4, <1>5, StepFrame

LEMMA ArchiveStep ==
  ASSUME IInv, NEW p \in Runners, Step(p)
  PROVE  archive \subseteq archive' /\ NoCommit \notin archive' \ archive
  <1>1. CASE ArchiveStale(p)
    BY <1>1 DEF ArchiveStale, StepTo, IInv, JobSound, StaleSound, At
  <1> QED
    BY <1>1, StepFrame

(* Live(c) and IsAncestor(c, head) read only commits that stay.            *)
LEMMA CommitsKept ==
  ASSUME TypeOK, Kept, now' \in Nat, now' >= now
  PROVE  /\ \A c \in Made : Live(c)' => Live(c)
         /\ \A c \in Made : commits'[c] = commits[c]
         /\ \A c, head \in Made : IsAncestor(c, head)' <=> IsAncestor(c, head)
  BY MadeTyped DEF Live, IsAncestor, Kept

-----------------------------------------------------------------------------
(* The branch and what was said of it                                      *)

LEMMA RefsTyped ==
  ASSUME TypeOK, RefsPublished
  PROVE  published \subseteq Made /\ (remote # NoCommit => remote \in Made)
  BY MadeTyped DEF TypeOK, RefsPublished

(* A push takes the whole history of the branch along.                     *)
LEMMA PushTakesAlong ==
  ASSUME TypeOK, Histories, RefsPublished, NEW head \in Made, CanPush(head), remote # NoCommit
  PROVE  /\ commits[remote].run = commits[head].run
         /\ commits[remote].lease <= commits[head].lease
         /\ \A c : IsAncestor(c, remote) => IsAncestor(c, head)
  BY DEF Histories, CanPush, IsAncestor

LEMMA PushKeepsRefs ==
  ASSUME IInv, NEW head \in Made, Pushed(head), archive \subseteq archive',
         NoCommit \notin archive' \ archive
  PROVE  (RefsPublished /\ LiveHeld /\ PublishedPreserved)'
  <1>1. /\ TypeOK /\ Histories /\ RefsPublished /\ LiveHeld /\ PublishedPreserved
        /\ commits' = commits /\ now' = now /\ head # NoCommit /\ IsAncestor(head, head)
    BY MadeTyped DEF IInv, RefsSound, Pushed, Histories, IsAncestor
  <1>2. RefsPublished'
    BY <1>1 DEF Pushed, RefsPublished, NoCommit
  <1>3. LiveHeld'
    <2> SUFFICES ASSUME NEW c \in published', Live(c)'
                 PROVE  IsAncestor(c, head)
      BY <1>1 DEF LiveHeld, Pushed, IsAncestor
    <2>1. CASE c = head
      BY <2>1, <1>1
    <2>2. CASE c # head
      <3>1. c \in published /\ Live(c)
        BY <2>2, <1>1 DEF Pushed, Live
      <3> QED
        BY <3>1, <1>1, PushTakesAlong DEF LiveHeld, Pushed
    <2> QED
      BY <2>1, <2>2
  <1>4. PublishedPreserved'
    <2> SUFFICES ASSUME NEW c \in published'
                 PROVE  IsAncestor(c, head) \/ \E a \in archive : IsAncestor(c, a)
      BY <1>1 DEF PublishedPreserved, Pushed, IsAncestor
    <2>1. CASE c = head
      BY <2>1, <1>1
    <2>2. CASE c # head
      <3>1. c \in published
        BY <2>2 DEF Pushed
      <3> QED
        BY <3>1, <1>1, PushTakesAlong DEF PublishedPreserved, Pushed
    <2> QED
      BY <2>1, <2>2
  <1> QED
    BY <1>2, <1>3, <1>4

(* A branch that is deleted had run out, and with it all it holds.         *)
LEMMA DeleteKeepsRefs ==
  ASSUME IInv, Deleted, archive \subseteq archive', NoCommit \notin archive' \ archive
  PROVE  (RefsPublished /\ LiveHeld /\ PublishedPreserved)'
  <1>1. /\ TypeOK /\ Histories /\ RefsPublished /\ LiveHeld /\ PublishedPreserved
        /\ commits' = commits /\ now' = now /\ published' = published
        /\ remote \in Made /\ ~ Live(remote) /\ remote \in archive
    BY RefsTyped DEF IInv, RefsSound, Deleted
  <1>2. \A c : IsAncestor(c, remote) /\ c \in Made => ~ Live(c)
    BY <1>1, MadeTyped DEF Histories, IsAncestor, Live
  <1>3. LiveHeld'
    BY <1>1, <1>2, RefsTyped DEF LiveHeld, Live
  <1>4. RefsPublished' /\ PublishedPreserved'
    BY <1>1 DEF Deleted, RefsPublished, PublishedPreserved, IsAncestor
  <1> QED
    BY <1>3, <1>4

(* Other steps only make commits, archive heads, or let time pass.         *)
LEMMA QuietKeepsRefs ==
  ASSUME IInv, Kept, now' \in Nat, now' >= now, UNCHANGED <<remote, published>>,
         archive \subseteq archive', NoCommit \notin archive' \ archive
  PROVE  (RefsPublished /\ LiveHeld /\ PublishedPreserved)'
  <1>1. TypeOK /\ RefsPublished /\ LiveHeld /\ PublishedPreserved /\ archive \subseteq Known
    BY DEF IInv, RefsSound, TypeOK
  <1>2. /\ published \subseteq Made /\ (remote # NoCommit => remote \in Made)
        /\ archive \subseteq Made
    BY <1>1, RefsTyped, MadeTyped DEF RefsPublished
  <1>3. LiveHeld'
    BY <1>1, <1>2, CommitsKept DEF LiveHeld
  <1>4. PublishedPreserved'
    BY <1>1, <1>2, CommitsKept DEF PublishedPreserved
  <1> QED
    BY <1>1, <1>3, <1>4 DEF RefsPublished

LEMMA GrantsKept ==
  ASSUME IInv, Kept, published \subseteq published',
         \A g \in granted' : g \in granted /\ g.until > now'
  PROVE  GrantsBacked'
  <1>1. TypeOK /\ RefsPublished /\ GrantsBacked
    BY DEF IInv, RefsSound
  <1>2. \A c \in published : c \in published' /\ commits'[c] = commits[c]
    BY <1>1, RefsTyped DEF Kept
  <1> QED
    BY <1>1, <1>2 DEF GrantsBacked

LEMMA GrantsAdded ==
  ASSUME IInv, NEW c \in Made, c \in published', Grant(commits[c].run, c),
         UNCHANGED <<now, commits>>, published \subseteq published'
  PROVE  GrantsBacked'
  <1>1. GrantsBacked
    BY DEF IInv, RefsSound
  <1>2. \A g \in granted' :
          /\ g.until > now
          /\ g \in granted \/ (commits[c].run = g.run /\ commits[c].lease = g.until)
    BY DEF Grant
  <1> QED
    BY <1>1, <1>2 DEF GrantsBacked

LEMMA StepKeepsRefs ==
  ASSUME IInv, NEW p \in Runners, Step(p)
  PROVE  RefsSound'
  <1>1. /\ Kept /\ now' = now /\ now \in Nat
        /\ archive \subseteq archive' /\ NoCommit \notin archive' \ archive
    BY CommitsStep, StepFrame, ArchiveStep, MadeTyped DEF IInv
  <1>2. (RefsPublished /\ LiveHeld /\ PublishedPreserved)' /\ published \subseteq published'
    <2>1. CASE UNCHANGED <<remote, published>>
      BY <2>1, <1>1, QuietKeepsRefs
    <2>2. CASE \E head \in Made : Pushed(head)
      BY <2>2, <1>1, PushKeepsRefs DEF Pushed
    <2>3. CASE Deleted
      BY <2>3, <1>1, DeleteKeepsRefs DEF Deleted
    <2> QED
      BY <2>1, <2>2, <2>3, BranchStep
  <1>3. GrantsBacked'
    <2>1. CASE granted' = granted
      BY <2>1, <1>1, <1>2, GrantsKept DEF IInv, RefsSound, GrantsBacked
    <2>2. CASE \E c \in Made : c \in published' /\ commits' = commits /\ Grant(commits[c].run, c)
      BY <2>2, <1>1, <1>2, GrantsAdded
    <2> QED
      BY <2>1, <2>2, GrantStep
  <1> QED
    BY <1>2, <1>3 DEF RefsSound

-----------------------------------------------------------------------------
(* What the commands have established                                      *)

(* A step of another, or the passing of time, takes nothing of it away.    *)
LEMMA OtherSound ==
  ASSUME IInv, NEW q \in Runners, job'[q] = job[q], worktree'[q] = worktree[q],
         Kept, now' \in Nat, now' >= now, archive \subseteq archive', published \subseteq published'
  PROVE  JobSound(q)'
  <1>1. TypeOK /\ JobSound(q)
    BY DEF IInv
  <1>2. /\ job[q].seen \in Known /\ job[q].made \in Known /\ worktree[q].head \in Known
        /\ Known = Made \cup {NoCommit}
    BY <1>1, MadeTyped DEF TypeOK
  <1>3. /\ \A c \in Made : commits'[c] = commits[c]
        /\ \A c \in Made : Live(c)' => Live(c)
    BY <1>1, CommitsKept
  <1>4. StaleSound(q)'
    BY <1>1, <1>2, <1>3 DEF JobSound, StaleSound, At
  <1>5. MarkerSound(q)'
    BY <1>1, <1>2, <1>3 DEF JobSound, MarkerSound, At
  <1>6. BranchSound(q)'
    BY <1>1, <1>2, <1>3 DEF JobSound, BranchSound, At
  <1> QED
    BY <1>4, <1>5, <1>6 DEF JobSound

JobTaken(p, set) == job'[p] \in set /\ job' = [job EXCEPT ![p] = job'[p]]

(* A step moves its own command only, to a phase of the program.           *)
LEMMA JobStep ==
  ASSUME IInv, NEW p \in Runners, Step(p)
  PROVE  JobTaken(p, Job')
  <1>1. /\ TypeOK /\ job[p] \in Job /\ Known \subseteq Known' /\ job \in [Runners -> Job]
        /\ remote \in Known /\ worktree[p].head \in Known /\ status \in Reads
    BY CommitsStep DEF IInv, TypeOK, Job, Reads
  <1>2. Job \subseteq Job'
    BY <1>1 DEF Job
  <1>3. \A next \in Phases : Goto(p, next) => JobTaken(p, Job')
    BY <1>1, <1>2, GotoFacts DEF JobTaken
  <1>4. \A next : next \in Job' /\ Become(p, next) => JobTaken(p, Job')
    BY <1>1 DEF Become, JobTaken
  <1>5. Idle \in Job
    BY <1>1, IdleTyped
  <1>6. CASE ListClaims(p)
    BY <1>1, <1>2, <1>4, <1>5, <1>6 DEF ListClaims, Job, Phases
  <1>7. CASE ReadItem(p)
    BY <1>1, <1>2, <1>4, <1>7 DEF ReadItem, Job, Phases
  <1>8. CASE NewClaim(p)
    <2>1. Len(commits) + 1 \in Known'
      BY <1>1, <1>8 DEF NewClaim, Known, TypeOK
    <2> QED
      BY <1>1, <1>2, <1>4, <1>5, <1>8, <2>1 DEF NewClaim, Job, Phases
  <1>9. CASE RenewHeads(p)
    BY <1>1, <1>2, <1>4, <1>5, <1>9 DEF RenewHeads, Job, Phases
  <1>10. CASE OpenLookup(p)
    BY <1>1, <1>2, <1>4, <1>10 DEF OpenLookup, Job, Phases, Reads
  <1>11. CASE Work(p)
    BY <1>1, <1>2, <1>11 DEF Work, JobTaken
  <1>12. CASE InspectClaim(p)
    BY <1>3, <1>12 DEF InspectClaim, Phases
  <1>13. CASE ListPulls(p)
    BY <1>3, <1>13 DEF ListPulls, StepTo, Phases
  <1>14. CASE LabelStale(p)
    BY <1>3, <1>14 DEF LabelStale, StepTo, Phases
  <1>15. CASE ArchiveStale(p)
    BY <1>3, <1>15 DEF ArchiveStale, StepTo, Phases
  <1>16. CASE DeleteStale(p)
    BY <1>3, <1>16 DEF DeleteStale, StepTo, Phases
  <1>17. CASE AssertClaimable(p)
    BY <1>3, <1>17 DEF AssertClaimable, StepTo, Phases
  <1>18. CASE PushClaim(p)
    BY <1>3, <1>18 DEF PushClaim, StepTo, Phases
  <1>19. CASE AddWorktree(p)
    BY <1>3, <1>19 DEF AddWorktree, StepTo, Phases
  <1>20. CASE ReadProject(p)
    BY <1>3, <1>20 DEF ReadProject, StepTo, Phases
  <1>21. CASE SetProject(p)
    BY <1>3, <1>21 DEF SetProject, StepTo, Phases
  <1>22. CASE RenewCheck(p)
    BY <1>3, <1>22 DEF RenewCheck, StepTo, Phases
  <1>23. CASE RenewCommit(p)
    BY <1>3, <1>23 DEF RenewCommit, StepTo, Phases
  <1>24. CASE RenewPush(p)
    BY <1>3, <1>24 DEF RenewPush, StepTo, Phases
  <1>25. CASE RenewPushFails(p)
    BY <1>3, <1>25 DEF RenewPushFails, StepTo, Phases
  <1>26. CASE RenewRestore(p)
    BY <1>3, <1>26 DEF RenewRestore, StepTo, Phases
  <1>27. CASE VerifyHeads(p)
    BY <1>3, <1>27 DEF VerifyHeads, StepTo, Phases
  <1>28. CASE VerifyDeadline(p)
    BY <1>3, <1>28 DEF VerifyDeadline, StepTo, Phases
  <1>29. CASE OpenHeads(p)
    BY <1>3, <1>29 DEF OpenHeads, Phases
  <1>30. CASE OpenCheck(p)
    BY <1>3, <1>30 DEF OpenCheck, StepTo, Phases
  <1>31. CASE OpenPush(p)
    BY <1>3, <1>31 DEF OpenPush, StepTo, Phases
  <1>32. CASE CreatePull(p)
    BY <1>3, <1>32 DEF CreatePull, StepTo, Phases
  <1>33. CASE Abort(p)
    BY <1>3, <1>33 DEF Abort, Phases
  <1> QED
    BY <1>6, <1>7, <1>8, <1>9, <1>10, <1>11, <1>12, <1>13, <1>14, <1>15, <1>16, <1>17, <1>18,
       <1>19, <1>20, <1>21, <1>22, <1>23, <1>24, <1>25, <1>26, <1>27, <1>28, <1>29, <1>30, <1>31,
       <1>32, <1>33 DEF Step

BranchTaken(p, set) == worktree'[p] \in set /\ worktree' = [worktree EXCEPT ![p] = worktree'[p]]

(* A step moves the local branch of its own runner only, and a branch that *)
(* is named after a run has a head.                                        *)
LEMMA WorktreeStep ==
  ASSUME IInv, NEW p \in Runners, Step(p)
  PROVE  /\ BranchTaken(p, Branch')
         /\ worktree'[p].run # NoCommit => worktree'[p].head # NoCommit
         /\ worktree[p].head # NoCommit => worktree'[p].head # NoCommit
  <1>1. /\ TypeOK /\ JobSound(p) /\ worktree[p] \in Branch /\ Known \subseteq Known'
        /\ worktree \in [Runners -> Branch] /\ tracking \in Known /\ job[p].made \in Known
    BY CommitsStep DEF IInv, TypeOK, Branch
  <1>2. Branch \subseteq Branch'
    BY <1>1 DEF Branch
  <1>3. commits \in Seq(Commit) /\ Len(commits) \in Nat
    BY <1>1 DEF TypeOK
  <1>4. CASE worktree' = worktree
    BY <1>1, <1>2, <1>4 DEF BranchTaken, JobSound, BranchSound
  <1>5. CASE AddWorktree(p)
    BY <1>1, <1>2, <1>5 DEF AddWorktree, BranchTaken, Branch, JobSound, BranchSound
  <1>6. CASE RenewCommit(p) \/ Work(p)
    <2>1. worktree' = [worktree EXCEPT ![p].head = Len(commits) + 1] /\ Len(commits) + 1 \in Known'
      BY <1>3, <1>6 DEF RenewCommit, Work, Known
    <2> QED
      BY <1>1, <1>2, <1>3, <2>1 DEF BranchTaken, Branch, NoCommit
  <1>7. CASE RenewRestore(p)
    <2>1. job[p].made # NoCommit
      BY <1>1, <1>7 DEF RenewRestore, StepTo, JobSound, MarkerSound, At
    <2> QED
      BY <1>1, <1>2, <1>7, <2>1 DEF RenewRestore, BranchTaken, Branch
  <1> QED
    BY <1>4, <1>5, <1>6, <1>7, StepFrame

(* A command that has ended, or established nothing that lasts.            *)
LEMMA Resting ==
  ASSUME NEW p \in Runners, worktree'[p].run # NoCommit => worktree'[p].head # NoCommit,
         At(p, {"idle", "escalate", "backlog", "setBacklog", "item", "issue", "commit", "worktree",
                "record", "setPicked", "prCreate", "syncIssue", "syncInspect"})'
  PROVE  JobSound(p)'
  BY DEF JobSound, StaleSound, MarkerSound, BranchSound, At

LEMMA OwnSound ==
  ASSUME IInv, NEW p \in Runners, Step(p)
  PROVE  JobSound(p)'
  <1>1. /\ TypeOK /\ JobSound(p) /\ job[p] \in Job /\ job \in [Runners -> Job]
        /\ now' = now /\ now \in Nat /\ Kept
    BY CommitsStep, StepFrame, MadeTyped DEF IInv, TypeOK, Job, Reads
  <1>2. /\ worktree'[p].run # NoCommit => worktree'[p].head # NoCommit
        /\ worktree[p].head # NoCommit => worktree'[p].head # NoCommit
    BY WorktreeStep
  <1>3. \A next \in Phases : Goto(p, next) =>
          /\ job'[p].at = next
          /\ next # "idle" => job'[p] = [job[p] EXCEPT !.at = next]
    BY <1>1, GotoFacts
  <1>4. CASE LabelStale(p)
    BY <1>1, <1>2, <1>3, <1>4, Resting DEF LabelStale, StepTo, Phases, At
  <1>5. CASE DeleteStale(p)
    BY <1>1, <1>2, <1>3, <1>5, Resting DEF DeleteStale, StepTo, Phases, At
  <1>6. CASE ReadItem(p)
    BY <1>1, <1>2, <1>6, Resting DEF ReadItem, Become, At
  <1>7. CASE ReadProject(p)
    BY <1>1, <1>2, <1>3, <1>7, Resting DEF ReadProject, StepTo, Phases, At
  <1>8. CASE SetProject(p)
    BY <1>1, <1>2, <1>3, <1>8, Resting DEF SetProject, StepTo, Phases, At
  <1>9. CASE AssertClaimable(p)
    BY <1>1, <1>2, <1>3, <1>9, Resting DEF AssertClaimable, StepTo, Phases, At
  <1>10. CASE PushClaim(p)
    BY <1>1, <1>2, <1>3, <1>10, Resting DEF PushClaim, StepTo, Phases, At
  <1>11. CASE AddWorktree(p)
    BY <1>1, <1>2, <1>3, <1>11, Resting DEF AddWorktree, StepTo, Phases, At
  <1>12. CASE RenewPush(p)
    BY <1>1, <1>2, <1>3, <1>12, Resting DEF RenewPush, StepTo, Phases, At
  <1>13. CASE RenewRestore(p)
    BY <1>1, <1>2, <1>3, <1>13, Resting DEF RenewRestore, StepTo, Phases, At
  <1>14. CASE VerifyDeadline(p)
    BY <1>1, <1>2, <1>3, <1>14, Resting DEF VerifyDeadline, StepTo, Phases, At
  <1>15. CASE CreatePull(p)
    BY <1>1, <1>2, <1>3, <1>15, Resting DEF CreatePull, StepTo, Phases, At
  <1>16. CASE Abort(p)
    BY <1>1, <1>2, <1>3, <1>16, Resting DEF Abort, Phases, At
  <1>17. CASE Work(p)
    BY <1>1, <1>2, <1>17, Resting DEF Work, Start, At
  <1>18. CASE ListClaims(p)
    <2>1. CASE job[p].at = "syncList"
      BY <1>1, <1>2, <1>18, <2>1, Resting DEF ListClaims, Start, Become, Job, At, JobSound,
         StaleSound, MarkerSound, BranchSound
    <2>2. CASE job[p].at # "syncList" /\ remote = NoCommit
      BY <1>1, <1>2, <1>18, <2>2, Resting DEF ListClaims, Become, Idle, At
    <2>3. CASE job[p].at # "syncList" /\ remote # NoCommit
      <3>1. job'[p].at = "inspect" /\ job'[p].seen # NoCommit
        BY <1>1, <1>18, <2>3 DEF ListClaims, Become, Idle
      <3> QED
        BY <1>2, <3>1 DEF JobSound, StaleSound, MarkerSound, BranchSound, At, Job
    <2> QED
      BY <2>1, <2>2, <2>3
  <1>19. CASE InspectClaim(p)
    <2>1. /\ job[p].seen # NoCommit /\ worktree' = worktree /\ commits' = commits
          /\ Goto(p, IF remote = NoCommit \/ Live(job[p].seen) THEN "idle" ELSE "pulls")
      BY <1>1, <1>19 DEF InspectClaim, JobSound, StaleSound, At
    <2>2. CASE remote = NoCommit \/ Live(job[p].seen)
      BY <1>2, <1>3, <2>1, <2>2, Resting DEF Phases, At
    <2>3. CASE ~ (remote = NoCommit \/ Live(job[p].seen))
      <3>1. job'[p] = [job[p] EXCEPT !.at = "pulls"]
        BY <1>3, <2>1, <2>3 DEF Phases
      <3> QED
        BY <1>1, <1>2, <2>1, <2>3, <3>1 DEF JobSound, StaleSound, MarkerSound, BranchSound, At,
           Job, Live
    <2> QED
      BY <2>2, <2>3
  <1>20. CASE ListPulls(p)
    <2>1. /\ job[p].at = "pulls" /\ commits' = commits
          /\ Goto(p, IF openPR THEN "escalate" ELSE "archive")
      BY <1>20 DEF ListPulls, StepTo, gitVars
    <2>2. CASE openPR
      BY <1>2, <1>3, <2>1, <2>2, Resting DEF Phases, At
    <2>3. CASE ~ openPR
      <3>1. job'[p] = [job[p] EXCEPT !.at = "archive"]
        BY <1>3, <2>1, <2>3 DEF Phases
      <3> QED
        BY <1>1, <1>2, <2>1, <3>1 DEF JobSound, StaleSound, MarkerSound, BranchSound, At, Job, Live
    <2> QED
      BY <2>2, <2>3
  <1>21. CASE ArchiveStale(p)
    <2>1. /\ job[p].seen # NoCommit /\ ~ Live(job[p].seen) /\ job[p].seen \in archive'
          /\ commits' = commits /\ Goto(p, "delete")
      BY <1>1, <1>21 DEF ArchiveStale, StepTo, JobSound, StaleSound, At
    <2>2. job'[p] = [job[p] EXCEPT !.at = "delete"]
      BY <1>3, <2>1 DEF Phases
    <2> QED
      BY <1>1, <1>2, <2>1, <2>2 DEF JobSound, StaleSound, MarkerSound, BranchSound, At, Job, Live
  <1>22. CASE NewClaim(p)
    <2> DEFINE id == Len(commits) + 1
               new == [run |-> id, lease |-> now + Lease, marker |-> TRUE, past |-> {id}]
    <2>1. /\ commits' = Append(commits, new)
          /\ job'[p].at = "push" /\ job'[p].made = id
      BY <1>1, <1>22 DEF NewClaim, Become, Idle
    <2>2. commits'[id] = new /\ id # NoCommit
      BY <1>1, <2>1 DEF TypeOK, NoCommit
    <2>3. commits'[id].run = id /\ commits'[id].past = {id}
      BY <2>2
    <2> HIDE DEF id
    <2> QED
      BY <1>2, <2>1, <2>2, <2>3 DEF JobSound, StaleSound, MarkerSound, BranchSound, At, Job
  <1>23. CASE RenewHeads(p)
    <2>1. worktree[p].head # NoCommit /\ worktree' = worktree
      BY <1>1, <1>23 DEF RenewHeads, Heads, JobSound, BranchSound
    <2>2. CASE IsAncestor(remote, worktree[p].head)
      <3>1. job'[p].at = "renewCheck" /\ job'[p].made = worktree[p].head
        BY <1>1, <1>23, <2>2 DEF RenewHeads, Become, Idle
      <3> QED
        BY <1>2, <2>1, <3>1 DEF JobSound, StaleSound, MarkerSound, BranchSound, At, Job
    <2>3. CASE ~ IsAncestor(remote, worktree[p].head)
      BY <1>1, <1>2, <1>23, <2>3, Resting DEF RenewHeads, Become, Idle, At
    <2> QED
      BY <2>2, <2>3
  <1>24. CASE RenewCheck(p)
    <2>1. /\ job[p].at = "renewCheck" /\ worktree' = worktree /\ commits' = commits
          /\ Goto(p, IF validateClaim(p) THEN "renewCommit" ELSE "idle")
      BY <1>24 DEF RenewCheck, StepTo, gitVars
    <2>2. CASE validateClaim(p)
      <3>1. job'[p] = [job[p] EXCEPT !.at = "renewCommit"]
        BY <1>3, <2>1, <2>2 DEF Phases
      <3>2. commits[worktree[p].head].run = worktree[p].run
        BY <2>2 DEF validateClaim
      <3> QED
        BY <1>1, <1>2, <2>1, <3>1, <3>2 DEF JobSound, StaleSound, MarkerSound, BranchSound, At, Job
    <2>3. CASE ~ validateClaim(p)
      BY <1>2, <1>3, <2>1, <2>3, Resting DEF Phases, At
    <2> QED
      BY <2>2, <2>3
  <1>25. CASE RenewCommit(p)
    <2> DEFINE id == Len(commits) + 1
               new == [run |-> worktree[p].run, lease |-> now + Lease, marker |-> TRUE,
                       past |-> commits[worktree[p].head].past \cup {id}]
    <2>1. /\ job[p].at = "renewCommit" /\ Goto(p, "renewPush")
          /\ commits' = Append(commits, new) /\ worktree' = [worktree EXCEPT ![p].head = id]
      BY <1>25 DEF RenewCommit
    <2>2. job'[p] = [job[p] EXCEPT !.at = "renewPush"]
      BY <1>3, <2>1 DEF Phases
    <2>3. commits'[id] = new /\ id # NoCommit
      BY <1>1, <2>1 DEF TypeOK, NoCommit
    <2>4. worktree'[p].head = id /\ worktree'[p].run = worktree[p].run
      BY <1>1, <2>1 DEF TypeOK
    <2>5. job[p].made # NoCommit /\ commits'[id].run = worktree[p].run
      BY <1>1, <2>1, <2>3 DEF JobSound, MarkerSound, At
    <2> HIDE DEF id, new
    <2> QED
      BY <1>1, <2>2, <2>3, <2>4, <2>5 DEF JobSound, StaleSound, MarkerSound, BranchSound, At, Job
  <1>26. CASE RenewPushFails(p)
    <2>1. job[p].at = "renewPush" /\ Goto(p, "restore") /\ worktree' = worktree
      BY <1>26 DEF RenewPushFails, StepTo
    <2>2. job'[p] = [job[p] EXCEPT !.at = "restore"]
      BY <1>3, <2>1 DEF Phases
    <2> QED
      BY <1>1, <1>2, <2>1, <2>2 DEF JobSound, StaleSound, MarkerSound, BranchSound, At, Job
  <1>27. CASE VerifyHeads(p)
    <2>1. /\ worktree[p].head # NoCommit /\ worktree' = worktree /\ published' = published
          /\ \/ Goto(p, IF worktree[p].head = remote THEN "deadline" ELSE "idle")
             \/ Goto(p, IF worktree[p].head = remote THEN "prDeadline" ELSE "idle")
      BY <1>1, <1>27 DEF VerifyHeads, StepTo, Heads, JobSound, BranchSound, history
    <2>2. CASE worktree[p].head = remote
      <3>1. job'[p].at \in {"deadline", "prDeadline"}
        BY <1>3, <2>1, <2>2 DEF Phases
      <3>2. worktree[p].head \in published
        BY <2>1, <2>2 DEF IInv, RefsSound, RefsPublished
      <3> QED
        BY <1>2, <2>1, <3>1, <3>2 DEF JobSound, StaleSound, MarkerSound, BranchSound, At, Job
    <2>3. CASE worktree[p].head # remote
      BY <1>2, <1>3, <2>1, <2>3, Resting DEF Phases, At
    <2> QED
      BY <2>2, <2>3
  <1>28. CASE OpenHeads(p)
    <2>1. /\ worktree[p].head # NoCommit /\ worktree' = worktree
          /\ Goto(p, IF IsAncestor(remote, worktree[p].head) THEN "prCheck" ELSE "idle")
      BY <1>1, <1>28 DEF OpenHeads, Heads, JobSound, BranchSound
    <2>2. CASE IsAncestor(remote, worktree[p].head)
      <3>1. job'[p].at = "prCheck"
        BY <1>3, <2>1, <2>2 DEF Phases
      <3> QED
        BY <1>2, <2>1, <3>1 DEF JobSound, StaleSound, MarkerSound, BranchSound, At, Job
    <2>3. CASE ~ IsAncestor(remote, worktree[p].head)
      BY <1>2, <1>3, <2>1, <2>3, Resting DEF Phases, At
    <2> QED
      BY <2>2, <2>3
  <1>29. CASE OpenCheck(p)
    <2>1. /\ job[p].at = "prCheck" /\ worktree' = worktree
          /\ Goto(p, IF validateClaim(p) THEN "prLookup" ELSE "idle")
      BY <1>29 DEF OpenCheck, StepTo, gitVars
    <2>2. CASE validateClaim(p)
      <3>1. job'[p].at = "prLookup"
        BY <1>3, <2>1, <2>2 DEF Phases
      <3> QED
        BY <1>1, <1>2, <2>1, <3>1 DEF JobSound, StaleSound, MarkerSound, BranchSound, At, Job
    <2>3. CASE ~ validateClaim(p)
      BY <1>2, <1>3, <2>1, <2>3, Resting DEF Phases, At
    <2> QED
      BY <2>2, <2>3
  <1>30. CASE OpenLookup(p)
    <2>1. job[p].at = "prLookup" /\ job'[p].at = "prPush" /\ worktree' = worktree
      BY <1>1, <1>30 DEF OpenLookup, Become, Job, gitVars
    <2> QED
      BY <1>1, <1>2, <2>1 DEF JobSound, StaleSound, MarkerSound, BranchSound, At, Job
  <1>31. CASE OpenPush(p)
    <2>1. /\ job[p].at = "prPush" /\ worktree' = worktree
          /\ Goto(p, IF CanPush(worktree[p].head) THEN "prHeads" ELSE "idle")
      BY <1>31 DEF OpenPush, StepTo
    <2>2. CASE CanPush(worktree[p].head)
      <3>1. job'[p].at = "prHeads"
        BY <1>3, <2>1, <2>2 DEF Phases
      <3> QED
        BY <1>1, <1>2, <2>1, <3>1 DEF JobSound, StaleSound, MarkerSound, BranchSound, At, Job
    <2>3. CASE ~ CanPush(worktree[p].head)
      BY <1>2, <1>3, <2>1, <2>3, Resting DEF Phases, At
    <2> QED
      BY <2>2, <2>3
  <1> QED
    BY <1>4, <1>5, <1>6, <1>7, <1>8, <1>9, <1>10, <1>11, <1>12, <1>13, <1>14, <1>15, <1>16, <1>17,
       <1>18, <1>19, <1>20, <1>21, <1>22, <1>23, <1>24, <1>25, <1>26, <1>27, <1>28, <1>29, <1>30,
       <1>31 DEF Step

-----------------------------------------------------------------------------
(* The issue, the tracking ref, and all of it                              *)

IssueTyped == {openPR, issueOpen, needsHuman} \subseteq BOOLEAN /\ status \in Statuses

LEMMA IssueStep ==
  ASSUME IssueTyped, NEW p \in Runners, Step(p)
  PROVE  IssueTyped'
  <1>1. \/ UNCHANGED issueVars
        \/ LabelStale(p) \/ DeleteStale(p) \/ SetProject(p) \/ CreatePull(p)
    BY DEF Step, ListClaims, InspectClaim, ListPulls, LabelStale, ArchiveStale,
           DeleteStale, ReadItem, AssertClaimable, NewClaim, PushClaim, AddWorktree,
           ReadProject, SetProject, RenewHeads, RenewCheck, RenewCommit, RenewPush,
           RenewPushFails, RenewRestore, VerifyHeads, VerifyDeadline, OpenHeads,
           OpenCheck, OpenLookup, OpenPush, CreatePull, Work, Abort, gitVars,
           issueVars, history
  <1>2. CASE UNCHANGED issueVars
    BY <1>2 DEF IssueTyped, issueVars
  <1>3. CASE LabelStale(p)
    BY <1>3 DEF LabelStale, IssueTyped
  <1>4. CASE DeleteStale(p)
    BY <1>4 DEF DeleteStale, IssueTyped
  <1>5. CASE SetProject(p)
    BY <1>5 DEF SetProject, IssueTyped, Statuses
  <1>6. CASE CreatePull(p)
    BY <1>6 DEF CreatePull, IssueTyped
  <1> QED
    BY <1>1, <1>2, <1>3, <1>4, <1>5, <1>6

(* The tracking ref follows the remote one, before or after the step.      *)
LEMMA TrackingStep ==
  ASSUME NEW p \in Runners, Step(p)
  PROVE  tracking' \in {tracking, remote, remote', NoCommit}
  <1>1. \/ tracking' = tracking
        \/ InspectClaim(p) \/ DeleteStale(p) \/ PushClaim(p) \/ RenewHeads(p)
        \/ RenewPush(p) \/ VerifyHeads(p) \/ OpenHeads(p) \/ OpenPush(p)
    BY DEF Step, ListClaims, InspectClaim, ListPulls, LabelStale, ArchiveStale,
             DeleteStale, ReadItem, AssertClaimable, NewClaim, PushClaim, AddWorktree,
             ReadProject, SetProject, RenewHeads, RenewCheck, RenewCommit, RenewPush,
             RenewPushFails, RenewRestore, VerifyHeads, VerifyDeadline, OpenHeads,
             OpenCheck, OpenLookup, OpenPush, CreatePull, Work, Abort, gitVars,
             issueVars, history
  <1>2. CASE InspectClaim(p)
    BY <1>2 DEF InspectClaim
  <1>3. CASE DeleteStale(p)
    BY <1>3 DEF DeleteStale
  <1>4. CASE PushClaim(p)
    BY <1>4 DEF PushClaim
  <1>5. CASE RenewHeads(p)
    BY <1>5 DEF RenewHeads, Heads
  <1>6. CASE RenewPush(p)
    BY <1>6 DEF RenewPush
  <1>7. CASE VerifyHeads(p)
    BY <1>7 DEF VerifyHeads, Heads
  <1>8. CASE OpenHeads(p)
    BY <1>8 DEF OpenHeads, Heads
  <1>9. CASE OpenPush(p)
    BY <1>9 DEF OpenPush
  <1> QED
    BY <1>1, <1>2, <1>3, <1>4, <1>5, <1>6, <1>7, <1>8, <1>9

LEMMA StepTyped ==
  ASSUME IInv, NEW p \in Runners, Step(p)
  PROVE  TypeOK'
  <1>1. /\ TypeOK /\ RefsPublished /\ Made \subseteq Known /\ NoCommit \in Known
        /\ Known \subseteq Known' /\ commits' \in Seq(Commit) /\ Len(commits') <= MaxCommits
    BY CommitsStep, MadeTyped DEF IInv, RefsSound
  <1>2. now' \in 0 .. Horizon
    BY <1>1, StepFrame DEF TypeOK
  <1>3. remote' \in Known' /\ published' \subseteq Known'
    BY <1>1, BranchStep DEF TypeOK, Pushed, Deleted
  <1>4. tracking' \in Known'
    BY <1>1, <1>3, TrackingStep DEF TypeOK
  <1>5. archive' \subseteq Known'
    <2>1. archive' = archive \/ archive' = archive \cup {job[p].seen}
      BY StepFrame DEF ArchiveStale
    <2> QED
      BY <1>1, <2>1 DEF TypeOK
  <1>6. worktree' \in [Runners -> Branch']
    BY <1>1, WorktreeStep DEF TypeOK, BranchTaken, Branch
  <1>7. job' \in [Runners -> Job']
    BY <1>1, JobStep DEF TypeOK, JobTaken, Job, Reads
  <1>8. IssueTyped'
    BY <1>1, IssueStep DEF TypeOK, IssueTyped
  <1>9. granted' \subseteq [run : Known', until : 0 .. Horizon + Lease]
    <2>1. CASE granted' = granted
      BY <1>1, <2>1 DEF TypeOK
    <2>2. ASSUME NEW c \in Made, Grant(commits[c].run, c)
          PROVE  granted' \subseteq [run : Known', until : 0 .. Horizon + Lease]
      <3>1. commits[c].run \in Known /\ commits[c].lease \in 0 .. Horizon + Lease
        BY <1>1, MadeTyped, Bounds DEF IInv, Histories
      <3> QED
        BY <1>1, <2>2, <3>1 DEF Grant, TypeOK
    <2> QED
      BY <2>1, <2>2, GrantStep
  <1> QED
    BY <1>1, <1>2, <1>3, <1>4, <1>5, <1>6, <1>7, <1>8, <1>9
    DEF TypeOK, Branch, Job, Reads, IssueTyped

LEMMA StepInvariant ==
  ASSUME IInv, NEW p \in Runners, Step(p)
  PROVE  IInv'
  <1>1. TypeOK' /\ Histories' /\ RefsSound'
    BY StepTyped, CommitsStep, StepKeepsRefs
  <1>2. ASSUME NEW q \in Runners PROVE JobSound(q)'
    <2>1. CASE q = p
      BY <2>1, OwnSound
    <2>2. CASE q # p
      <3>1. job'[q] = job[q] /\ worktree'[q] = worktree[q]
        BY <2>2, JobStep, WorktreeStep DEF JobTaken, BranchTaken, IInv, TypeOK
      <3>2. /\ Kept /\ now' = now /\ now \in Nat /\ archive \subseteq archive'
            /\ published \subseteq published'
        BY CommitsStep, StepFrame, ArchiveStep, BranchStep, MadeTyped DEF IInv, Pushed, Deleted
      <3> QED
        BY <3>1, <3>2, OtherSound
    <2> QED
      BY <2>1, <2>2
  <1> QED
    BY <1>1, <1>2 DEF IInv

(* Time passes, and people act: only leases run out.                       *)
LEMMA TickInvariant == IInv /\ Tick => IInv'
  <1> SUFFICES ASSUME IInv, Tick PROVE IInv'
    OBVIOUS
  <1>1. /\ TypeOK /\ now \in Nat /\ now' \in Nat /\ now' >= now /\ commits' = commits /\ Kept
        /\ UNCHANGED <<remote, tracking, archive, worktree, job, published>> /\ UNCHANGED issueVars
    BY MadeTyped DEF IInv, Tick, Kept, Made, gitVars
  <1>2. Known' = Known
    BY <1>1 DEF Known
  <1>3. TypeOK'
    <2>1. now' \in 0 .. Horizon /\ granted' \subseteq granted
      BY <1>1, Bounds DEF Tick, TypeOK
    <2> QED
      BY <1>1, <1>2, <2>1 DEF TypeOK, issueVars
  <1>4. Histories'
    BY <1>1, HistoriesKept DEF IInv
  <1>5. RefsSound'
    <2>1. (RefsPublished /\ LiveHeld /\ PublishedPreserved)'
      BY <1>1, QuietKeepsRefs
    <2>2. GrantsBacked'
      BY <1>1, GrantsKept DEF Tick
    <2> QED
      BY <2>1, <2>2 DEF RefsSound
  <1>6. ASSUME NEW q \in Runners PROVE JobSound(q)'
    BY <1>1, OtherSound
  <1> QED
    BY <1>3, <1>4, <1>5, <1>6 DEF IInv

LEMMA HumanInvariant == IInv /\ Human => IInv'
  <1> SUFFICES ASSUME IInv, Human PROVE IInv'
    OBVIOUS
  <1>1. /\ TypeOK /\ IssueTyped /\ now \in Nat /\ Kept
        /\ UNCHANGED <<now, commits, remote, tracking, archive, worktree, job, published, granted>>
    <2>1. UNCHANGED <<now, commits, remote, tracking, archive, worktree, job, published, granted>>
      BY DEF Human, gitVars, history
    <2>2. TypeOK /\ IssueTyped
      BY DEF IInv, TypeOK, IssueTyped
    <2> QED
      BY <2>1, <2>2, MadeTyped DEF Kept, Made
  <1>2. Known' = Known
    BY <1>1 DEF Known
  <1>3. TypeOK'
    <2>1. IssueTyped'
      BY <1>1 DEF Human, IssueTyped, Statuses
    <2> QED
      BY <1>1, <1>2, <2>1 DEF TypeOK, IssueTyped
  <1>4. Histories'
    BY <1>1, HistoriesKept DEF IInv
  <1>5. RefsSound'
    <2>1. (RefsPublished /\ LiveHeld /\ PublishedPreserved)'
      BY <1>1, QuietKeepsRefs
    <2>2. GrantsBacked'
      BY <1>1, GrantsKept DEF IInv, RefsSound, GrantsBacked
    <2> QED
      BY <2>1, <2>2 DEF RefsSound
  <1>6. ASSUME NEW q \in Runners PROVE JobSound(q)'
    BY <1>1, OtherSound
  <1> QED
    BY <1>3, <1>4, <1>5, <1>6 DEF IInv

LEMMA StutterInvariant == IInv /\ UNCHANGED vars => IInv'
  BY DEF IInv, vars, TypeOK, Known, Histories, Made, RefsSound, RefsPublished, LiveHeld, Live,
         IsAncestor, GrantsBacked, PublishedPreserved, JobSound, StaleSound, MarkerSound,
         BranchSound, At

(* The strengthened invariant holds of every execution: what each runner   *)
(* has read and made relates to the branch, the archives and the leases as *)
(* the place of its command says.                                          *)
THEOREM SoundAlways == Spec => []IInv
  <1>1. IInv /\ [Next]_vars => IInv'
    BY StepInvariant, TickInvariant, HumanInvariant, StutterInvariant DEF Next
  <1> QED
    BY InitInvariant, <1>1, PTL DEF Spec


(* The state is always well typed.                                         *)
THEOREM TypeCorrect == Spec => []TypeOK
  <1>1. IInv => TypeOK
    BY DEF IInv
  <1> QED
    BY SoundAlways, <1>1, PTL

(* Every commit the branch ever pointed at is in the history of the branch *)
(* or of an archive.                                                       *)
THEOREM WorkPreserved == Spec => []PublishedPreserved
  <1>1. IInv => PublishedPreserved
    BY DEF IInv, RefsSound
  <1> QED
    BY SoundAlways, <1>1, PTL

(* The heads of live leases are all in the history of the branch, which is *)
(* of one run.                                                             *)
LEMMA Exclusive == IInv => GrantsExclusive
  <1> SUFFICES ASSUME IInv PROVE GrantsExclusive
    OBVIOUS
  <1>1. /\ TypeOK /\ Histories /\ RefsPublished /\ LiveHeld /\ GrantsBacked
        /\ published \subseteq Made /\ (remote # NoCommit => remote \in Made)
    BY RefsTyped DEF IInv, RefsSound
  <1>2. ASSUME NEW g \in granted
        PROVE  remote # NoCommit /\ g.run = commits[remote].run
    <2>1. PICK c \in published : commits[c].run = g.run /\ commits[c].lease = g.until
      BY <1>1 DEF GrantsBacked
    <2>2. Live(c)
      BY <1>1, <2>1 DEF GrantsBacked, Live
    <2>3. remote # NoCommit /\ c \in commits[remote].past
      BY <1>1, <2>1, <2>2 DEF LiveHeld, IsAncestor
    <2> QED
      BY <1>1, <2>1, <2>3 DEF Histories
  <1> QED
    BY <1>2 DEF GrantsExclusive

(* Of the leases runners were told they hold, those that have not run out  *)
(* name one run.                                                           *)
THEOREM LeasesExclusive == Spec => []GrantsExclusive
  BY SoundAlways, Exclusive, PTL

-----------------------------------------------------------------------------
(* The lock                                                                *)

holder == IF remote = NoCommit THEN NoCommit ELSE commits[remote].run
until == IF remote = NoCommit THEN 0 ELSE commits[remote].lease

LockNext == Lock!Take \/ Lock!Extend \/ Lock!Expire \/ Lock!Pass

(* A push takes a free lock or extends a held one.                         *)
LEMMA PushLocks ==
  ASSUME IInv, NEW head \in Made, Pushed(head)
  PROVE  LockNext
  <1>1. /\ TypeOK /\ Histories /\ RefsPublished /\ head # NoCommit
        /\ commits[head].run \in CommitIds /\ commits[head].lease \in Nat
        /\ holder' = commits[head].run /\ until' = commits[head].lease /\ now' = now
    BY MadeTyped DEF IInv, RefsSound, Pushed, holder, until
  <1>2. CASE remote = NoCommit
    <2>1. holder = NoCommit
      BY <1>2 DEF holder
    <2> QED
      BY <1>1, <2>1 DEF LockNext, Lock!Take, holder, until
  <1>3. CASE remote # NoCommit
    <2>1. /\ remote \in Made
          /\ commits[remote].run = commits[head].run /\ commits[remote].lease <= commits[head].lease
      BY <1>1, <1>3, PushTakesAlong, RefsTyped DEF Pushed
    <2>2. commits[remote].run # NoCommit /\ commits[remote].lease \in Nat
      BY <1>1, <2>1, MadeTyped DEF CommitIds, NoCommit
    <2>3. holder # NoCommit /\ holder' = holder /\ until' >= until /\ until' \in Nat
      BY <1>1, <1>3, <2>1, <2>2 DEF holder, until
    <2> QED
      BY <1>1, <2>3 DEF LockNext, Lock!Extend, holder, until
  <1> QED
    BY <1>2, <1>3

LEMMA DeleteUnlocks ==
  ASSUME IInv, Deleted
  PROVE  LockNext
  <1>1. /\ TypeOK /\ remote \in Made /\ commits[remote].run # NoCommit
        /\ commits[remote].lease \in Nat /\ now \in Nat
    BY MadeTyped, RefsTyped DEF IInv, RefsSound, Deleted, CommitIds, NoCommit
  <1>2. holder # NoCommit /\ until <= now
    BY <1>1 DEF Deleted, Live, holder, until
  <1>3. holder' = NoCommit /\ until' = 0 /\ now' = now
    BY DEF Deleted, holder, until
  <1> QED
    BY <1>2, <1>3 DEF LockNext, Lock!Expire, holder, until

LEMMA QuietLeavesLock ==
  ASSUME IInv, Kept, remote' = remote
  PROVE  holder' = holder /\ until' = until
  BY RefsTyped DEF IInv, RefsSound, Kept, holder, until

LEMMA StepLocks ==
  ASSUME IInv, NEW p \in Runners, Step(p)
  PROVE  LockNext \/ UNCHANGED <<now, holder, until>>
  <1>1. CASE UNCHANGED <<remote, published>>
    BY <1>1, CommitsStep, StepFrame, QuietLeavesLock
  <1> QED
    BY <1>1, BranchStep, PushLocks, DeleteUnlocks

LEMMA OutsideLocks ==
  ASSUME IInv, Tick \/ Human
  PROVE  LockNext \/ UNCHANGED <<now, holder, until>>
  <1>1. CASE Tick
    <2>1. Kept /\ remote' = remote /\ now \in Nat /\ now' \in Nat /\ now' > now
      BY <1>1, MadeTyped DEF IInv, Tick, gitVars, Kept, Made
    <2> QED
      BY <2>1, QuietLeavesLock DEF LockNext, Lock!Pass, holder, until
  <1>2. CASE Human
    BY <1>2 DEF Human, gitVars, holder, until
  <1> QED
    BY <1>1, <1>2

LEMMA LockStep ==
  ASSUME IInv, [Next]_vars
  PROVE  [LockNext]_<<now, holder, until>>
  <1>1. CASE UNCHANGED vars
    BY <1>1 DEF vars, holder, until
  <1> QED
    BY <1>1, StepLocks, OutsideLocks DEF Next

(* The claim branch is a leased lock: a run takes it when it is free, may  *)
(* extend it, and loses it only once the lease has run out.                *)
THEOREM ImplementsLock == Spec => LockSpec
  <1>1. Init => Lock!LockInit
    BY DEF Init, Lock!LockInit
  <1>2. IInv /\ [Next]_vars => [LockNext]_<<now, holder, until>>
    BY LockStep
  <1>3. [LockNext]_<<now, holder, until>> =>
          [Lock!Take \/ Lock!Extend \/ Lock!Expire \/ Lock!Pass]_(Lock!LockVars)
    BY DEF LockNext, Lock!LockVars, holder, until
  <1> QED
    BY SoundAlways, <1>1, <1>2, <1>3, PTL DEF Spec, LockSpec, Lock!LockSpec
=============================================================================
