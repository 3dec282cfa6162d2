----------------------------- MODULE Evaluation -----------------------------
(***************************************************************************)
(* The evaluation commands of workflowctl (evaluation.go): evaluation      *)
(* challenge asks for a verdict on the pull request as it reads now,       *)
(* evaluation record posts the verdict an Examiner run attested,           *)
(* evaluation resolve ends a challenge without one.  Each reads the        *)
(* comments, checks, posts, and reads again; the pull request, the clock   *)
(* and other controllers go on between any two of these.                   *)
(*                                                                         *)
(* A check that fails ends a command as its death does, and so does a post *)
(* whose answer is lost, applied or not: Stop.  Only a recording goes on   *)
(* after one, to reconcile copies of its receipt, as it does after an      *)
(* answered post.                                                          *)
(***************************************************************************)
EXTENDS EvaluationHistory

CONSTANTS
  Controllers,  \* the processes that run evaluation commands
  Runs,         \* Examiner runs, each of which attests at most once
  Views,        \* what the pull request can read as: head and body (with evidence)
  Skews,        \* how far a date a controller gives may be from GitHub's time: the
                \* difference of the clocks, less the time the post takes
  Horizon,      \* bound on GitHub's clock
  MaxComments,  \* bound on the comments
  MaxEdits      \* bound on the pushes and edits of the pull request

ASSUME EvaluationAssumption ==
  Views # {} /\ Skews \subseteq Int /\ Horizon \in Nat /\ MaxComments \in Nat /\ MaxEdits \in Nat

VARIABLES
  view,       \* the pull request as it reads now
  now,        \* GitHub's clock
  comments,   \* the comments of workflowctl, oldest first
  attested,   \* per run, the challenge and verdict it attests, or nothing yet
  issued,     \* the challenges evaluation challenge printed
  job,        \* per controller, where its command is and what it read
  reported,   \* the runs whose recording succeeded
  needsHuman, \* the issue was handed to people
  edits,      \* pushes and edits so far
  raced       \* history: one other than a challenge was posted after a comment
              \* its author had not read

world == <<view, now, attested, edits>>
results == <<issued, reported, needsHuman>>
vars == <<world, comments, job, results, raced>>

Nothing == [challenge |-> 0, verdict |-> "none"]
AnyView == CHOOSE v \in Views : TRUE

(* A command: its next step, how much of the history it has read, the view *)
(* it read with it, the view it validated first, its Examiner run, its     *)
(* challenge, the class whose duplicates it is closing, and whether it has *)
(* reconciled copies of a receipt.                                         *)
Idle == [pc |-> "idle", cmd |-> "none", seen |-> 0, view |-> AnyView, from |-> AnyView,
         run |-> "none", target |-> 0, class |-> 0, bound |-> FALSE, merged |-> FALSE]

(* What the clock of a controller may show.                                *)
Clock == {now + d : d \in Skews} \cap Nat

Become(c, next) == job' = [job EXCEPT ![c] = next]
At(c, pc) == job[c].pc = pc
Goto(c, pc) == Become(c, [job[c] EXCEPT !.pc = pc])

(* Mutant: one comment more is taken to be read than there is.             *)
ReadingTooFar(c, pc) == [job[c] EXCEPT !.pc = pc, !.seen = Len(comments) + 1, !.view = view]

(* What c has read, and reading all there is now.                          *)
History(c) == SubSeq(comments, 1, job[c].seen)
Reading(c, pc) == [job[c] EXCEPT !.pc = pc, !.seen = Len(comments), !.view = view]

(* postPullRequestComment                                                  *)
Post(c, comment, next) ==
  /\ Len(comments) < MaxComments
  /\ comments' = Append(comments, comment)
  /\ raced' = (raced \/ (comment.kind # "challenge" /\ Len(comments) # job[c].seen))
  /\ Become(c, [next EXCEPT !.seen = 0])
  /\ UNCHANGED <<world, results>>

Reads == UNCHANGED <<world, comments, results, raced>>

Init ==
  /\ view = AnyView /\ now = 0 /\ comments = <<>>
  /\ attested = [r \in Runs |-> Nothing]
  /\ issued = {} /\ reported = {} /\ needsHuman = FALSE
  /\ job = [c \in Controllers |-> Idle]
  /\ edits = 0 /\ raced = FALSE

-----------------------------------------------------------------------------
(* convergeEvaluationChallengeHistory, which every command starts with:    *)
(* close the duplicates of one class after the other, that of the oldest   *)
(* challenge first.  completeEvaluationChallenge does it for the class of  *)
(* its challenge.  The view must stay that of the class if it was when the *)
(* class was begun (validateCurrentView).                                  *)
Duplicated(h) ==
  LET unclosed == Unclosed(h)
  IN {k \in Classes(h) : Members(h, k) \cap unclosed # {}}
Open(c) == Members(History(c), job[c].class) \cap Unclosed(History(c))

Begin(c) ==
  /\ At(c, "converge") /\ Duplicated(History(c)) # {}
  /\ LET k == Min(Duplicated(History(c)))
     IN Become(c, [job[c] EXCEPT !.pc = "class", !.class = k, !.bound = job[c].view = comments[k].view])
  /\ Reads

(* A closure is not dated before the challenge that it closes, and is      *)
(* checked as if GitHub had created the comment at its date.               *)
ClosedAt(challenge, t) == Max({t, challenge.created, challenge.at})

Closure(c, at, created) ==
  [kind |-> "closure", canonical |-> job[c].class, duplicate |-> Min(Open(c)),
   at |-> at, created |-> created]

Close(c) ==
  /\ At(c, "class") /\ Open(c) # {}
  /\ \E t \in Clock :
       LET at == ClosedAt(comments[Min(Open(c))], t)
       IN /\ Readable(Append(History(c), Closure(c, at, at)))
          /\ Post(c, Closure(c, at, now), [job[c] EXCEPT !.pc = "closing"])

VerifyClosure(c) ==
  /\ At(c, "closing")
  /\ Readable(comments)
  /\ job[c].bound => view = comments[job[c].class].view
  /\ Become(c, Reading(c, "class"))
  /\ Reads

(* The class is done: read again and look for the next.                    *)
Completing(c) == job[c].cmd = "challenge" /\ job[c].target # 0

NextClass(c) ==
  /\ At(c, "class") /\ Open(c) = {} /\ ~ Completing(c)
  /\ Readable(comments)
  /\ Become(c, [Reading(c, "converge") EXCEPT !.class = 0])
  /\ Reads

Converged(c) == At(c, "converge") /\ Duplicated(History(c)) = {}

-----------------------------------------------------------------------------
(* requestEvaluation, up to the convergence.                               *)
Started(c, cmd) ==
  [Reading(c, "converge") EXCEPT !.cmd = cmd, !.from = IF cmd = "challenge" THEN view ELSE @]

StartChallenge(c) ==
  /\ At(c, "idle") /\ Readable(comments)
  /\ Become(c, Started(c, "challenge"))
  /\ Reads

(* completeEvaluationChallenge for challenge i.                            *)
Complete(c, i, next) ==
  Become(c, [next EXCEPT !.pc = "class", !.target = i, !.bound = TRUE,
               !.class = Canonical(SubSeq(comments, 1, next.seen))[i]])

(* A challenge for this very view is waiting: print that one again.        *)
Retry(c) ==
  /\ job[c].cmd = "challenge" /\ Converged(c)
  /\ Unconverged(History(c)) = {}
  /\ \E i \in Outstanding(History(c)) :
       /\ Outstanding(History(c)) = {i}
       /\ comments[i].view = job[c].view /\ \E t \in Clock : ValidAt(comments, i, t)
       /\ Complete(c, i, job[c])
  /\ Reads

(* proveEvaluationChallengeState: nothing has changed since the evidence   *)
(* was validated, but for the closures posted above.                       *)
ProveFresh(c) ==
  /\ job[c].cmd = "challenge"
  /\ job[c].view = job[c].from /\ view = job[c].from
  /\ Len(comments) = job[c].seen
  /\ Converged(c) /\ Unconverged(History(c)) = {} /\ Outstanding(History(c)) = {}
  /\ Goto(c, "ask")
  /\ Reads

PostChallenge(c) ==
  /\ At(c, "ask")
  /\ \E t \in Clock :
       Post(c, [kind |-> "challenge", view |-> job[c].from, at |-> t, created |-> now],
            [job[c] EXCEPT !.pc = "asked", !.target = Len(comments) + 1])

(* readEvaluationChallengeState                                            *)
VerifyChallenge(c) ==
  /\ At(c, "asked")
  /\ Readable(comments)
  /\ view = comments[job[c].target].view
  /\ Complete(c, job[c].target, Reading(c, "class"))
  /\ Reads

(* Mutant: the controller prints its own challenge, not the canonical one.  *)
OutputOwn(c) ==
  /\ At(c, "class") /\ Open(c) = {} /\ Completing(c)
  /\ Readable(comments) /\ Unconverged(comments) = {}
  /\ Outstanding(comments) = {Canonical(comments)[job[c].target]}
  /\ view = comments[job[c].target].view /\ \E t \in Clock : ValidAt(comments, job[c].target, t)
  /\ issued' = issued \cup {job[c].target}
  /\ Become(c, Idle)
  /\ UNCHANGED <<world, comments, reported, needsHuman, raced>>

(* The last read before the canonical challenge is printed.                *)
Output(c) ==
  /\ At(c, "class") /\ Open(c) = {} /\ Completing(c)
  /\ Readable(comments) /\ Unconverged(comments) = {}
  /\ LET k == Canonical(comments)[job[c].target]
     IN /\ Outstanding(comments) = {k}
        /\ Members(comments, k) \cap Unclosed(comments) = {}
        /\ view = comments[k].view
        /\ \E t \in Clock : ValidAt(comments, k, t) /\ ValidAt(comments, job[c].target, t)
        /\ issued' = issued \cup {k}
  /\ Become(c, Idle)
  /\ UNCHANGED <<world, comments, reported, needsHuman, raced>>

-----------------------------------------------------------------------------
(* postEvaluation.  A replay repeats a recording: a receipt of the run is  *)
(* there already, and it must be about the view.  A challenge may be       *)
(* recorded once, by one run, while it is valid, as the canonical one of a *)
(* class that has come to nothing else.                                    *)
RecordOf(h, r) == {s \in Receipts(h) : h[s].run = r}

Recordable(r) ==
  LET i == attested[r].challenge
      own == RecordOf(comments, r)
      class == Members(comments, Canonical(comments)[i])
  IN /\ \A s \in own : comments[s].view = view
     /\ own = {} => /\ comments[i].view = view /\ \E t \in Clock : ValidAt(comments, i, t)
                    /\ Canonical(comments)[i] = i
     /\ \A s \in Receipts(comments) \ own : comments[s].challenge # i
     /\ \A m \in class : Terminals(comments, m) \subseteq own

StartRecord(c, r) ==
  /\ At(c, "idle") /\ attested[r] # Nothing
  /\ Readable(comments) /\ Recordable(r)
  /\ Become(c, [Started(c, "record") EXCEPT !.run = r, !.target = attested[r].challenge])
  /\ Reads

(* convergeEvaluationReceiptGroup: close the later copies of the run's     *)
(* receipt, when those are the first to be closed.                         *)
Convergence(h) ==
  LET first == Min(Logical(h) \cap UNION {Group(h, r) : r \in Unconverged(h)})
  IN [kind |-> "convergence", canonical |-> first, closed |-> Group(h, first) \ {first}]

PostConvergence(c, next) ==
  LET h == History(c)
      first == h[Convergence(h).canonical]
  IN /\ Unconverged(h) # {}
     /\ first.run = job[c].run /\ first.view = job[c].view
     /\ Strict(Append(h, Convergence(h)))
     /\ Post(c, Convergence(h), [job[c] EXCEPT !.pc = next])

ConvergeReceipts(c) ==
  /\ job[c].cmd = "record" /\ ~ job[c].merged /\ Converged(c)
  /\ PostConvergence(c, "merging")

ConvergePosted(c) == At(c, "copies") /\ PostConvergence(c, "merged")

VerifyConvergence(c) ==
  /\ \E next \in {"merging", "merged"} :
       /\ At(c, next)
       /\ Become(c, [Reading(c, IF next = "merging" THEN "converge" ELSE "recorded") EXCEPT !.merged = TRUE])
  /\ Strict(comments)
  /\ \E r \in RecordOf(comments, job[c].run) : comments[r].view = view
  /\ Reads

(* After all convergence, an attestation that is recorded already ...      *)
Reconciled(c) == job[c].cmd = "record" /\ Converged(c) /\ Strict(History(c))

FindRecorded(c) ==
  /\ Reconciled(c)
  /\ \E r \in RecordOf(History(c), job[c].run) : comments[r].view = job[c].view
  /\ Goto(c, "recorded")
  /\ Reads

(* Mutant: a verdict is validated after the limit of failures is reached.   *)
ValidateUnlimited(c) ==
  /\ Reconciled(c)
  /\ RecordOf(History(c), job[c].run) = {}
  /\ Outcomes(History(c), job[c].target) = {}
  /\ comments[job[c].target].view = job[c].view
  /\ \E t \in Clock : ValidAt(comments, job[c].target, t)
  /\ Goto(c, "record")
  /\ Reads

(* ... or one that may be: its challenge is still the canonical one of a   *)
(* class without a verdict, fewer than the limit have failed, it is valid. *)
Validate(c) ==
  /\ Reconciled(c)
  /\ LET h == History(c)
         i == job[c].target
     IN /\ RecordOf(h, job[c].run) = {}
        /\ Canonical(h)[i] = i /\ Outcomes(h, i) = {}
        /\ Cardinality(Fails(h)) < FailureLimit
        /\ h[i].view = job[c].view /\ \E t \in Clock : ValidAt(h, i, t)
  /\ Goto(c, "record")
  /\ Reads

(* The claim branches have been looked up meanwhile (evaluationClaimProofs) *)
(* and the receipt is dated only now.                                      *)
PostReceipt(c) ==
  /\ At(c, "record")
  /\ \E t \in Clock :
       Post(c, [kind |-> "receipt", challenge |-> job[c].target, run |-> job[c].run,
                view |-> job[c].view, verdict |-> attested[job[c].run].verdict,
                round |-> Cardinality(Logical(History(c))) + 1, at |-> t, created |-> now],
            [job[c] EXCEPT !.pc = "posted"])

(* postAndVerifyEvaluationReceipt: reconcile copies, or report.            *)
VerifyReceipt(c) ==
  /\ At(c, "posted") /\ view = job[c].view
  /\ \/ /\ ReceiptsValid(comments) /\ Unconverged(comments) # {}
        /\ \A k \in Convergences(comments) : ConvergenceValid(comments, k)
        /\ Become(c, Reading(c, "copies"))
     \/ /\ Strict(comments)
        /\ RecordOf(comments, job[c].run) # {}
        /\ Become(c, Reading(c, "verified"))
  /\ Reads

(* reconcileExistingEvaluation, reconcileConvergedEvaluation and the end   *)
(* of postAndVerifyEvaluationReceipt: fewer failures than the limit.       *)
AtLimit(c) ==
  /\ Cardinality(Fails(History(c))) >= FailureLimit
  /\ At(c, "verified") => attested[job[c].run].verdict = "fail"

Report(c) ==
  /\ At(c, "recorded") \/ At(c, "verified")
  /\ ~ AtLimit(c)
  /\ reported' = reported \cup {job[c].run}
  /\ Become(c, Idle)
  /\ UNCHANGED <<world, comments, issued, needsHuman, raced>>

(* reconcileRecordedNeedsHuman: only the run whose receipt was the last    *)
(* failure hands the issue over.                                           *)
HandOver(c) ==
  /\ At(c, "recorded") \/ At(c, "verified")
  /\ AtLimit(c)
  /\ LET last == comments[LimitFailure(History(c))]
     IN last.run = job[c].run /\ last.view.head = job[c].view.head
  /\ needsHuman' = TRUE
  /\ reported' = reported \cup {job[c].run}
  /\ Become(c, Idle)
  /\ UNCHANGED <<world, comments, issued, raced>>

-----------------------------------------------------------------------------
(* prepareEvaluationResolution: the challenge i has come to nothing, also  *)
(* when read again; ...                                                    *)
StartResolve(c) ==
  /\ At(c, "idle") /\ Readable(comments)
  /\ \E i \in Outstanding(comments) : Become(c, [Started(c, "resolve") EXCEPT !.target = i])
  /\ Reads

Resolvable(h, i) == Strict(h) /\ i \in Outstanding(h)

PrepareResolution(c) ==
  /\ job[c].cmd = "resolve" /\ Converged(c)
  /\ Resolvable(History(c), job[c].target) /\ Resolvable(comments, job[c].target)
  /\ Become(c, Reading(c, "resolve"))
  /\ Reads

(* ... it has expired or its head is gone when the resolution is dated,    *)
(* which is checked as if GitHub had created the comment at that date.     *)
Resolution(c, at, created) ==
  [kind |-> "resolution", challenge |-> job[c].target, observed |-> job[c].view.head,
   at |-> at, created |-> created]

PostResolution(c) ==
  /\ At(c, "resolve")
  /\ \E t \in Clock :
       /\ Strict(Append(History(c), Resolution(c, t, t)))
       /\ Post(c, Resolution(c, t, now), Idle)

-----------------------------------------------------------------------------
Stop(c) ==
  /\ ~ At(c, "idle")
  /\ Become(c, Idle)
  /\ Reads

(* Pushes, edits, time, and an Examiner that looks at a printed challenge. *)
Edit(v) ==
  /\ edits < MaxEdits /\ v # view
  /\ view' = v /\ edits' = edits + 1
  /\ UNCHANGED <<now, attested, comments, job, results, raced>>

Tick ==
  /\ now < Horizon /\ now' = now + 1
  /\ UNCHANGED <<view, attested, edits, comments, job, results, raced>>

Examine(r, i, verdict) ==
  /\ attested[r] = Nothing
  /\ attested' = [attested EXCEPT ![r] = [challenge |-> i, verdict |-> verdict]]
  /\ UNCHANGED <<view, now, edits, comments, job, results, raced>>

Controller(c) ==
  \/ StartChallenge(c) \/ Retry(c) \/ ProveFresh(c) \/ PostChallenge(c) \/ VerifyChallenge(c) \/ Output(c)
  \/ \E r \in Runs : StartRecord(c, r)
  \/ Validate(c) \/ PostReceipt(c) \/ VerifyReceipt(c) \/ FindRecorded(c) \/ Report(c) \/ HandOver(c)
  \/ ConvergeReceipts(c) \/ ConvergePosted(c) \/ VerifyConvergence(c)
  \/ StartResolve(c) \/ PrepareResolution(c) \/ PostResolution(c)
  \/ Begin(c) \/ Close(c) \/ VerifyClosure(c) \/ NextClass(c)
  \/ Stop(c)

Next ==
  \/ \E c \in Controllers : Controller(c)
  \/ \E v \in Views : Edit(v)
  \/ Tick
  \/ \E r \in Runs, i \in issued, verdict \in {"pass", "fail"} : Examine(r, i, verdict)

Spec == Init /\ [][Next]_vars

-----------------------------------------------------------------------------
EvaluationChallenge == [kind : {"challenge"}, view : Views, at : Nat, created : Nat]
ChallengeClosure == [kind : {"closure"}, canonical : Nat, duplicate : Nat, at : Nat, created : Nat]
EvaluationReceipt == [kind : {"receipt"}, challenge : Nat, run : Runs, view : Views,
            verdict : {"pass", "fail"}, round : Nat, at : Nat, created : Nat]
ReceiptConvergence == [kind : {"convergence"}, canonical : Nat, closed : SUBSET Nat]
ChallengeResolution == [kind : {"resolution"}, challenge : Nat, observed : {v.head : v \in Views},
            at : Nat, created : Nat]
Comment == EvaluationChallenge \cup ChallengeClosure \cup EvaluationReceipt \cup ReceiptConvergence \cup ChallengeResolution

Places == {"idle", "converge", "class", "closing", "ask", "asked", "merging", "copies", "merged",
           "recorded", "record", "posted", "verified", "resolve"}

(* A command that has read at most the first n comments.                   *)
Command(n) ==
  [pc : Places, cmd : {"none", "challenge", "record", "resolve"}, seen : 0 .. n,
   view : Views, from : Views, run : Runs \cup {"none"}, target : 0 .. n, class : 0 .. n,
   bound : BOOLEAN, merged : BOOLEAN]

TypeOK ==
  /\ view \in Views /\ now \in 0 .. Horizon /\ edits \in 0 .. MaxEdits
  /\ comments \in Seq(Comment) /\ Len(comments) <= MaxComments
  /\ issued \subseteq Challenges(comments)
  /\ attested \in [Runs -> {Nothing} \cup [challenge : issued, verdict : {"pass", "fail"}]]
  /\ reported \subseteq {r \in Runs : attested[r] # Nothing}
  /\ job \in [Controllers -> Command(Len(comments))]
  /\ needsHuman \in BOOLEAN /\ raced \in BOOLEAN

(* Of the challenges that were printed for an Examiner at most one can     *)
(* still be given a verdict, however many controllers asked.               *)
OneIssuedOutstanding ==
  LET outstanding == Outstanding(comments)
  IN Cardinality({i \in issued : Canonical(comments)[i] \in outstanding}) <= 1

(* A recording that was reported stays: the run has one receipt that       *)
(* counts, with the attested verdict on the challenge it was given, about  *)
(* what that challenge asked about.                                        *)
RecordedStands ==
  \A r \in reported :
    LET own == Logical(comments) \cap RecordOf(comments, r)
    IN /\ Cardinality(own) = 1
       /\ \A s \in own :
            /\ comments[s].verdict = attested[r].verdict
            /\ comments[s].challenge = attested[r].challenge
            /\ comments[s].view = comments[attested[r].challenge].view

(* What allows a merge was earned: an Examiner run passed a challenge about *)
(* exactly what the pull request now reads, and no run failed that class.  *)
AuthorityEarned ==
  Authorizes(comments, view) =>
    \E r \in Runs :
      /\ attested[r].verdict = "pass"
      /\ comments[attested[r].challenge].view = view
      /\ \A s \in Receipts(comments) :
           s \in UNION {Terminals(comments, m) :
                          m \in Members(comments, Canonical(comments)[attested[r].challenge])}
             => comments[s].run = r

(* Once the failures have reached the limit nothing allows a merge any     *)
(* more: rounds are numbered without a gap and none follows the last.      *)
HandoffIsFinal ==
  Readable(comments) =>
    /\ Cardinality(Fails(comments)) <= FailureLimit
    /\ {comments[r].round : r \in Logical(comments)} = 1 .. Cardinality(Logical(comments))
    /\ Cardinality(Fails(comments)) = FailureLimit =>
         \A v \in Views : ~ Authorizes(comments, v)

(* A comment whose time spoils the history, although its author's clock is *)
(* within the tolerance: a receipt whose date misses the validity of its   *)
(* challenge (it expired meanwhile, or was created later by GitHub's       *)
(* clock), and a resolution for the expiry that GitHub created before it.  *)
Mistimed(h, i) ==
  \/ i \in Receipts(h) /\ ~ ValidAt(h, h[i].challenge, h[i].at)
  \/ /\ i \in Resolutions(h) /\ h[i].observed = h[h[i].challenge].view.head
     /\ ~ Expired(h, h[i].challenge, h[i].created)

ClocksAgree == Skews \subseteq - Tolerance .. Tolerance

(* While the clocks agree to the tolerance, challenges that race and       *)
(* closures of them never leave a history that no command accepts: only    *)
(* another comment that raced does, or a receipt or a resolution whose     *)
(* time is on the wrong side of a boundary of its challenge.               *)
ReadableUnlessSpoilt ==
  ClocksAgree =>
    \/ raced
    \/ \E i \in DOMAIN comments : Mistimed(comments, i)
    \/ Readable(comments)

=============================================================================
