------------------------- MODULE EvaluationHistory -------------------------
(***************************************************************************)
(* The evaluation history of a pull request (evaluation.go and             *)
(* evaluation_challenge_convergence.go): what the comments posted by       *)
(* workflowctl mean.  Comments are never edited or deleted, so a history   *)
(* is a sequence that grows, a controller's snapshot is a prefix of it,    *)
(* and a comment is named by its index.  Nobody holds a lock: controllers  *)
(* that race leave equivalent comments behind, which later comments        *)
(* reconcile, or contradictory ones, which no reader accepts any more.     *)
(*                                                                         *)
(* Comments:                                                               *)
(*   challenge    a request for a verdict on view (head, body, evidence)   *)
(*   closure      duplicate is closed in favour of canonical, of its class *)
(*   receipt      the verdict of an Examiner run on a challenge, its round *)
(*   convergence  closed receipts repeat the receipt canonical             *)
(*   resolution   a challenge ended without a verdict                      *)
(*                                                                         *)
(* All but a convergence carry two times: at, the date their author's      *)
(* clock gave (RequestedAt, ClosedAt, RecordedAt, ResolvedAt), and         *)
(* created, GitHub's own for the comment (CreatedAt), which never          *)
(* decreases along a history.                                              *)
(***************************************************************************)
EXTENDS Integers, Sequences, FiniteSets, FiniteSetsExt

CONSTANTS
  Duration,      \* evaluationChallengeDuration, in ticks
  Tolerance,     \* how far a date may be from GitHub's time (commentTimeMatches)
  FailureLimit   \* failing rounds after which people take over (3 in the code)

ASSUME HistoryAssumption ==
  Duration \in Nat \ {0} /\ Tolerance \in Nat /\ FailureLimit \in Nat \ {0}

Of(h, kind) == {i \in DOMAIN h : h[i].kind = kind}
Challenges(h) == Of(h, "challenge")
Receipts(h) == Of(h, "receipt")
Resolutions(h) == Of(h, "resolution")
Closures(h) == Of(h, "closure")
Convergences(h) == Of(h, "convergence")

(* commentTimeMatches                                                      *)
TimeMatches(comment) ==
  comment.at <= comment.created + Tolerance /\ comment.created <= comment.at + Tolerance

Expired(h, c, t) == h[c].at + Duration <= t

(* evaluationChallengeRecordValidAt                                        *)
ValidAt(h, c, t) ==
  h[c].created <= t /\ TimeMatches(h[c]) /\ h[c].at <= t /\ ~Expired(h, c, t)

(* evaluationChallengeMatchesReceipt                                       *)
MatchesReceipt(h, c, r) ==
  /\ h[r].challenge = c /\ h[r].view = h[c].view
  /\ c < r /\ h[c].created <= h[r].created
  /\ ValidAt(h, c, h[r].at)

(* evaluationChallengeMatchesResolution: after the expiry, by both times,  *)
(* or once the head was seen to have moved.                                *)
MatchesResolution(h, c, s) ==
  /\ h[s].challenge = c
  /\ c < s /\ h[c].created <= h[s].created /\ TimeMatches(h[s])
  /\ \/ h[s].observed # h[c].view.head
     \/ Expired(h, c, h[s].at) /\ Expired(h, c, h[s].created)

Terminals(h, c) == {r \in Receipts(h) : MatchesReceipt(h, c, r)}
                     \cup {s \in Resolutions(h) : MatchesResolution(h, c, s)}

(* Mutant: nothing joins a class that comes to something later, either.    *)
JoinedUnlessEnded(h, first, c) ==
  LET earlier == {d \in Challenges(h) : d < c}
      ended(d) == \E m \in earlier : first[m] = d /\ Terminals(h, m) # {}
      open == {d \in earlier : first[d] = d /\ h[d].view = h[c].view /\ ~ ended(d)}
  IN IF open = {} THEN c ELSE Min(open)

(* The classes of equivalent challenges, by their first member: a          *)
(* challenge joins the first class of its view that had no verdict and no  *)
(* resolution when it was posted.                                          *)
Joined(h, first, c) ==
  LET earlier == {d \in Challenges(h) : d < c}
      ended(d) == \E m \in earlier : first[m] = d /\ \E t \in Terminals(h, m) : t < c
      open == {d \in earlier : first[d] = d /\ h[d].view = h[c].view /\ ~ ended(d)}
  IN IF open = {} THEN c ELSE Min(open)

Canonical(h) ==
  LET first[c \in Challenges(h)] == Joined(h, first, c)
  IN first

Classes(h) == LET first == Canonical(h) IN {first[c] : c \in DOMAIN first}
Members(h, k) == LET first == Canonical(h) IN {c \in DOMAIN first : first[c] = k}

(* Mutant: copies of a receipt are the same only with the same times.      *)
FactsDated(receipt) == receipt

(* Equivalent receipts agree on all but when they were recorded.           *)
Facts(receipt) == [receipt EXCEPT !.at = 0, !.created = 0]
Group(h, r) == {s \in Receipts(h) : Facts(h[s]) = Facts(h[r])}

(* One receipt of each group counts, the first.                            *)
Logical(h) == {r \in Receipts(h) : r = Min(Group(h, r))}

SharesIdentifier(h, r, s) ==
  h[r].round = h[s].round \/ h[r].challenge = h[s].challenge \/ h[r].run = h[s].run

(* Receipts without a convergence that says so repeat an earlier one.      *)
Unconverged(h) ==
  {r \in Receipts(h) \ Logical(h) : \A k \in Convergences(h) : r \notin h[k].closed}

(* Duplicate challenges nobody has closed.                                 *)
Unclosed(h) ==
  {c \in Challenges(h) \ Classes(h) : \A k \in Closures(h) : h[k].duplicate # c}

(* What a class came to: the receipts that count and the resolutions.      *)
Outcomes(h, k) ==
  LET ends == UNION {Terminals(h, c) : c \in Members(h, k)}
  IN {IF h[t].kind = "receipt" THEN Min(Group(h, t)) ELSE t : t \in ends}

Outstanding(h) ==
  LET first == Canonical(h)
  IN {k \in DOMAIN first :
        first[k] = k /\ \A c \in DOMAIN first : first[c] = k => Terminals(h, c) = {}}

ReceiptsValid(h) ==
  /\ \A r \in Receipts(h) : MatchesReceipt(h, h[r].challenge, r) /\ TimeMatches(h[r])
  /\ \A r, s \in Receipts(h) : SharesIdentifier(h, r, s) => s \in Group(h, r)

(* A convergence names the first receipt of a group and every later one    *)
(* posted before it.                                                       *)
ConvergenceValid(h, k) ==
  LET prior == {r \in Group(h, h[k].canonical) : r < k}
  IN /\ h[k].canonical = Min(prior)
     /\ h[k].closed = prior \ {h[k].canonical} /\ h[k].closed # {}

(* A closure names the first challenge of a class and a later one, which   *)
(* no other closure names and which was there when it is dated.            *)
ClosureValid(h, k) ==
  LET canonical == h[k].canonical
      duplicate == h[k].duplicate
  IN /\ canonical < duplicate /\ duplicate < k
     /\ h[duplicate].created <= h[k].at /\ h[duplicate].at <= h[k].at /\ TimeMatches(h[k])
     /\ Canonical(h)[duplicate] = canonical
     /\ \A l \in Closures(h) \ {k} : h[l].duplicate # duplicate

(* A class comes to one thing (validateEvaluationTerminalConflicts).       *)
NoConflict(h) ==
  LET first == Canonical(h)
  IN \A s, t \in Receipts(h) \cup Resolutions(h) :
       s # t /\ first[h[s].challenge] = first[h[t].challenge]
         => h[s].kind = "receipt" /\ t \in Group(h, s)

(* validateEvaluationHistoryForConvergence: what every command demands of  *)
(* the first history it reads.                                             *)
Readable(h) ==
  /\ \A c \in Challenges(h) : TimeMatches(h[c])
  /\ ReceiptsValid(h)
  /\ \A k \in Convergences(h) : ConvergenceValid(h, k)
  /\ \A s \in Resolutions(h) : MatchesResolution(h, h[s].challenge, s)
  /\ \A k \in Closures(h) : ClosureValid(h, k)
  /\ NoConflict(h)

(* validateEvaluationHistory: nothing is left to reconcile either.         *)
Strict(h) == Readable(h) /\ Unconverged(h) = {} /\ Unclosed(h) = {}

Fails(h) == {r \in Logical(h) : h[r].verdict = "fail"}

(* thirdFailureReceipt                                                     *)
LimitFailure(h) ==
  CHOOSE r \in Fails(h) : Cardinality({s \in Fails(h) : s < r}) = FailureLimit - 1

(* Mutant: the receipt need not be about the head that is merged.          *)
AuthorizesAnyHead(h, view) ==
  /\ Strict(h) /\ Outstanding(h) = {} /\ Logical(h) # {}
  /\ h[Max(Logical(h))].verdict = "pass" /\ h[Max(Logical(h))].view.body = view.body
  /\ \E o \in Outcomes(h, Max(Classes(h))) : h[o].kind = "receipt"

(* latestPassingEvaluationReceipt: what pr finish demands before it merges *)
(* a pull request that reads as view.                                      *)
Authorizes(h, view) ==
  /\ Logical(h) # {}
  /\ LET latest == h[Max(Logical(h))]
     IN latest.view = view /\ latest.verdict = "pass"
  /\ Strict(h)
  /\ Outstanding(h) = {}
  /\ \E o \in Outcomes(h, Max(Classes(h))) : h[o].kind = "receipt"

=============================================================================
