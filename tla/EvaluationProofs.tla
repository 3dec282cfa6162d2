-------------------------- MODULE EvaluationProofs --------------------------
(***************************************************************************)
(* Proofs about Evaluation, for any controllers, Examiner runs and views   *)
(* of the pull request, any duration of a challenge, any limit of failures *)
(* and any number of comments: the type invariant, that one challenge at a *)
(* time is out for a verdict, that recorded verdicts stand, that authority *)
(* is earned, that the limit of failures is final, and what alone can      *)
(* spoil a history.  The last needs clocks that agree; the others hold     *)
(* whatever times the comments carry.                                      *)
(***************************************************************************)
EXTENDS Evaluation, TLAPS, WellFoundedInduction, FiniteSetTheorems

Prefix(n) == SubSeq(comments, 1, n)
Ends(h, k) == UNION {Terminals(h, m) : m \in Members(h, k)}

(* Comments name earlier comments, and GitHub's clock never goes back.     *)
WellFormed(h) ==
  /\ h \in Seq(Comment)
  /\ \A s \in Receipts(h) \cup Resolutions(h) : h[s].challenge \in Challenges(h) /\ h[s].challenge < s
  /\ \A k \in Closures(h) : {h[k].canonical, h[k].duplicate} \subseteq Challenges(h) \cap 1 .. k - 1
  /\ \A k \in Convergences(h) : h[k].canonical \in Receipts(h) /\ h[k].canonical < k

HistorySound ==
  /\ WellFormed(comments)
  /\ \A i \in Challenges(comments) : comments[i].created <= now

(* A receipt is what its run attested, about the view of its challenge.    *)
ReceiptsSound ==
  \A s \in Receipts(comments) :
    LET receipt == comments[s] IN
    /\ attested[receipt.run] = [challenge |-> receipt.challenge, verdict |-> receipt.verdict]
    /\ receipt.challenge \in issued
    /\ receipt.view = comments[receipt.challenge].view

(* A command that has posted knows nothing of the history until it reads   *)
(* again.                                                                  *)
Waiting == {"closing", "asked", "merging", "merged", "posted"}
Knows(command, t) == command.pc \in Waiting \/ t <= command.seen

(* Challenges are issued in the order they were posted in, each when the   *)
(* class of the one before had come to something, which whoever records a  *)
(* verdict on it has read.                                                 *)
InOrder ==
  /\ \A i \in issued :
       /\ Canonical(comments)[i] = i
       /\ \A k \in Outstanding(comments) : i <= k
  /\ \A i, j \in issued : i < j =>
       \E t \in Ends(comments, i) :
         /\ \A q \in Receipts(comments) : comments[q].challenge = j => t < q
         /\ \A c \in Controllers : job[c].cmd = "record" /\ job[c].target = j => Knows(job[c], t)

(* Rounds count the receipts that count, and a verdict is only given while *)
(* fewer than the limit have failed.                                       *)
Before(S, s) == {q \in S : q < s}

RoundsSound ==
  /\ Readable(comments) =>
       {comments[r].round : r \in Logical(comments)} = 1 .. Cardinality(Logical(comments))
  /\ \A s \in Logical(comments) : Readable(Prefix(s)) =>
       /\ comments[s].round = Cardinality(Before(Logical(comments), s)) + 1
       /\ Cardinality(Before(Fails(comments), s)) < FailureLimit

(* Once a run has a receipt in a history that can be read, all it records  *)
(* are copies.                                                             *)
CopiesOnly ==
  \A s, t \in Receipts(comments) :
    comments[s].run = comments[t].run /\ s < t /\ Readable(Prefix(s)) => t \in Group(comments, s)

HasRecorded(r) == \E s \in RecordOf(comments, r) : Readable(Prefix(s))

ReportsSound == \A r \in reported : HasRecorded(r)

(* What a command has established.                                         *)
Recording == {"merging", "copies", "merged", "recorded", "record", "posted", "verified"}

CommandSound(command) ==
  /\ command.cmd = "record" =>
       /\ command.run \in Runs /\ attested[command.run] # Nothing
       /\ command.target = attested[command.run].challenge
       /\ Knows(command, command.target)
  /\ command.cmd = "resolve" => command.target \in Challenges(comments)
  /\ command.cmd = "challenge" => command.target \in {0} \cup Challenges(comments)
  /\ command.pc = "idle" => command = Idle
  /\ command.pc \in Recording => command.cmd = "record"
  /\ command.pc \in {"ask", "asked"} => command.cmd = "challenge"
  /\ command.pc = "asked" => command.target \in Challenges(comments)
  /\ command.pc \in {"class", "closing"} => command.class \in Classes(comments)

PlaceSound(command) ==
  LET h == Prefix(command.seen)
      challenge == comments[command.target] IN
  /\ command.pc \in {"recorded", "verified"} => Strict(h) /\ RecordOf(h, command.run) # {}
  /\ command.pc = "record" =>
       /\ Strict(h) /\ RecordOf(h, command.run) = {} /\ Outcomes(h, command.target) = {}
       /\ Cardinality(Fails(h)) < FailureLimit
       /\ challenge.view = command.view
  /\ command.pc = "resolve" => command.cmd = "resolve" /\ Resolvable(h, command.target)

JobsSound == \A c \in Controllers : CommandSound(job[c]) /\ PlaceSound(job[c])

IInv ==
  /\ TypeOK /\ HistorySound /\ ReceiptsSound /\ InOrder /\ RoundsSound
  /\ CopiesOnly /\ ReportsSound /\ ReadableUnlessSpoilt /\ JobsSound

-----------------------------------------------------------------------------
(* The least and the greatest of some numbers.                             *)
LEMMA MinIn ==
  ASSUME NEW S, S \subseteq Nat, S # {}
  PROVE  Min(S) \in S /\ \A y \in S : Min(S) <= y
  <1> DEFINE Less == {ss \in Nat \X Nat : ss[1] < ss[2]}
  <1>1. IsWellFoundedOn(Less, Nat)
    BY NatLessThanWellFounded DEF OpToRel
  <1>2. ASSUME NEW i \in Nat, NEW j \in Nat, ~ (<<j, i>> \in Less) PROVE i <= j
    BY <1>2
  <1> HIDE DEF Less
  <1>3. PICK i \in S : \A j \in S : ~ (<<j, i>> \in Less)
    BY <1>1, WFMin, Zenon
  <1>4. \A j \in S : i <= j
    BY <1>2, <1>3
  <1> QED
    BY <1>4 DEF Min

LEMMA MaxIn ==
  ASSUME NEW n \in Nat, NEW S, S \subseteq 0 .. n, S # {}
  PROVE  Max(S) \in S /\ \A y \in S : y <= Max(S)
  <1> DEFINE bounds == {k \in Nat : \A y \in S : y <= k}
  <1>1. bounds \subseteq Nat /\ n \in bounds
    OBVIOUS
  <1> DEFINE m == Min(bounds)
  <1>2. m \in bounds /\ \A k \in bounds : m <= k
    <2> HIDE DEF bounds
    <2> QED
      BY <1>1, MinIn
  <1>3. m \in S
    <2>1. SUFFICES ASSUME m \notin S PROVE FALSE
      OBVIOUS
    <2>2. m \in Nat /\ \A y \in S : y <= m /\ y \in Nat
      BY <1>2
    <2>3. m # 0
      <3>1. PICK y \in S : y \in 0 .. n
        OBVIOUS
      <3>2. y <= m /\ y # m
        BY <2>1, <2>2, <3>1
      <3> HIDE DEF m
      <3> QED
        BY <3>1, <3>2
    <2>4. m - 1 \in bounds
      BY <2>1, <2>2, <2>3
    <2> HIDE DEF m, bounds
    <2> QED
      BY <1>2, <2>2, <2>4
  <1>4. \A y \in S : m >= y
    BY <1>2
  <1> HIDE DEF m
  <1> QED
    BY <1>3, <1>4 DEF Max

-----------------------------------------------------------------------------
(* Histories and their beginnings                                          *)

(* p is the first n comments of h.                                         *)
Cut(p, h, n) ==
  /\ n \in Nat /\ Len(h) \in Nat /\ n <= Len(h)
  /\ DOMAIN h = 1 .. Len(h) /\ DOMAIN p = 1 .. n /\ Len(p) = n
  /\ \A i \in 1 .. n : p[i] = h[i]

LEMMA PrefixCut ==
  ASSUME NEW S, NEW h \in Seq(S), NEW n \in 0 .. Len(h)
  PROVE  Cut(SubSeq(h, 1, n), h, n) /\ SubSeq(h, 1, n) \in Seq(S)
  BY DEF Cut

LEMMA WholeCut == ASSUME NEW S, NEW h \in Seq(S) PROVE Cut(h, h, Len(h))
  BY DEF Cut

LEMMA AppendCut ==
  ASSUME NEW S, NEW h \in Seq(S), NEW x \in S
  PROVE  /\ Cut(h, Append(h, x), Len(h)) /\ Append(h, x) \in Seq(S)
         /\ Len(Append(h, x)) = Len(h) + 1 /\ Append(h, x)[Len(h) + 1] = x
  BY DEF Cut

(* The beginning of a beginning is one.                                    *)
LEMMA CutOfCut ==
  ASSUME NEW p, NEW q, NEW h, NEW m, NEW n, Cut(p, h, m), Cut(q, h, n), m <= n
  PROVE  Cut(p, q, m)
  BY DEF Cut

LEMMA OfCut ==
  ASSUME NEW p, NEW h, NEW n, Cut(p, h, n), NEW kind
  PROVE  Of(p, kind) = Of(h, kind) \cap 1 .. n /\ Of(h, kind) \subseteq 1 .. Len(h)
  BY DEF Of, Cut

LEMMA TerminalsCut ==
  ASSUME NEW p, NEW h, NEW n, Cut(p, h, n), NEW c \in 1 .. n
  PROVE  Terminals(p, c) = Terminals(h, c) \cap 1 .. n
  <1>1. ASSUME NEW r \in 1 .. n
        PROVE  /\ MatchesReceipt(p, c, r) <=> MatchesReceipt(h, c, r)
               /\ MatchesResolution(p, c, r) <=> MatchesResolution(h, c, r)
    BY DEF Cut, MatchesReceipt, MatchesResolution, ValidAt, Expired, TimeMatches
  <1>2. /\ Receipts(p) = Receipts(h) \cap 1 .. n
        /\ Resolutions(p) = Resolutions(h) \cap 1 .. n
    BY OfCut DEF Receipts, Resolutions
  <1> QED
    BY <1>1, <1>2 DEF Terminals

LEMMA TerminalsLater ==
  ASSUME NEW h, NEW c, NEW t \in Terminals(h, c)
  PROVE  c < t /\ h[t].challenge = c /\ t \in Receipts(h) \cup Resolutions(h)
  BY DEF Terminals, MatchesReceipt, MatchesResolution

-----------------------------------------------------------------------------
(* Classes of challenges                                                   *)

(* Where a challenge joins depends on what was posted before it.           *)
LEMMA JoinedCut ==
  ASSUME NEW p, NEW h, NEW n, Cut(p, h, n), NEW f, NEW g, NEW c \in 1 .. n,
         \A d \in Challenges(h) : d < c => f[d] = g[d]
  PROVE  Joined(p, f, c) = Joined(h, g, c)
  <1> DEFINE earlier == {d \in Challenges(h) : d < c}
             endedIn(hist, first, d) == \E m \in earlier : first[m] = d /\ \E t \in Terminals(hist, m) : t < c
             open(hist, first) == {d \in earlier : first[d] = d /\ hist[d].view = hist[c].view
                                                     /\ ~ endedIn(hist, first, d)}
  <1>1. n \in Nat /\ Len(h) \in Nat /\ n <= Len(h) /\ \A i \in 1 .. n : p[i] = h[i]
    BY DEF Cut
  <1>2. earlier \subseteq 1 .. n
    BY <1>1, OfCut DEF Challenges
  <1>3. {d \in Challenges(p) : d < c} = earlier
    BY <1>1, <1>2, OfCut DEF Challenges
  <1>4. \A m \in earlier : f[m] = g[m] /\ (\E t \in Terminals(p, m) : t < c) = (\E t \in Terminals(h, m) : t < c)
    <2>1. \A m \in earlier : Terminals(p, m) = Terminals(h, m) \cap 1 .. n
      BY <1>2, TerminalsCut
    <2>2. ASSUME NEW m \in earlier, NEW t \in Terminals(h, m), t < c PROVE t \in 1 .. n
      <3>1. t \in Of(h, "receipt") \cup Of(h, "resolution")
        BY <2>2, TerminalsLater DEF Receipts, Resolutions
      <3>2. t \in 1 .. Len(h)
        BY <3>1, OfCut
      <3> QED
        BY <1>1, <2>2, <3>2
    <2> QED
      BY <2>1, <2>2
  <1>5. \A d : endedIn(p, f, d) <=> endedIn(h, g, d)
    BY <1>4
  <1>6. \A d \in earlier : p[d].view = h[d].view /\ p[c].view = h[c].view
    BY <1>1, <1>2
  <1>7. open(p, f) = open(h, g)
    <2> HIDE DEF endedIn, earlier
    <2> QED
      BY <1>4, <1>5, <1>6
  <1>8. Joined(p, f, c) = IF open(p, f) = {} THEN c ELSE Min(open(p, f))
    BY <1>3 DEF Joined
  <1>9. Joined(h, g, c) = IF open(h, g) = {} THEN c ELSE Min(open(h, g))
    BY DEF Joined
  <1> HIDE DEF open
  <1> QED
    BY <1>7, <1>8, <1>9

(* The classes are well defined: the challenges can be joined one after    *)
(* the other.                                                              *)
LEMMA CanonicalIs ==
  ASSUME NEW h, Cut(h, h, Len(h))
  PROVE  Canonical(h) = [c \in Challenges(h) |-> Joined(h, Canonical(h), c)]
  <1> DEFINE until(n) == {c \in Challenges(h) : c <= n}
             solves(g, n) == g = [c \in until(n) |-> Joined(h, g, c)]
             unsolved == {n \in Nat : ~ \E g : solves(g, n)}
  <1>1. Challenges(h) \subseteq 1 .. Len(h) /\ Len(h) \in Nat
    BY OfCut DEF Challenges, Cut
  <1>2. unsolved = {}
    <2>1. SUFFICES ASSUME unsolved # {} PROVE FALSE
      OBVIOUS
    <2> DEFINE n == Min(unsolved)
    <2>2. n \in unsolved /\ n \in Nat /\ \A m \in unsolved : n <= m
      <3> HIDE DEF solves
      <3>1. unsolved \subseteq Nat
        OBVIOUS
      <3> HIDE DEF unsolved
      <3> QED
        BY <2>1, <3>1, MinIn
    <2>3. CASE n = 0
      <3>1. until(0) = {}
        BY <1>1
      <3> DEFINE g == [c \in {} |-> 0]
      <3>2. g = [c \in until(0) |-> Joined(h, g, c)]
        BY <3>1
      <3>3. solves(g, 0)
        BY <3>2
      <3> HIDE DEF g, solves
      <3> QED
        BY <2>2, <2>3, <3>3
    <2>4. CASE n # 0
      <3>1. n - 1 \in Nat /\ n - 1 \notin unsolved
        <4> HIDE DEF unsolved, n
        <4> QED
          BY <2>2, <2>4
      <3>2. PICK f : solves(f, n - 1)
        <4> HIDE DEF solves, n
        <4> QED
          BY <3>1
      <3> HIDE DEF n
      <3> DEFINE g == [c \in until(n) |-> IF c < n THEN f[c] ELSE Joined(h, f, c)]
      <3>3. \A d \in until(n) : d < n => d \in until(n - 1) /\ f[d] = Joined(h, f, d)
        BY <1>1, <2>2, <3>2
      <3>4. ASSUME NEW c \in until(n) PROVE Joined(h, f, c) = Joined(h, g, c)
        <4>1. \A d \in Challenges(h) : d < c => f[d] = g[d]
          BY <1>1, <2>2, <3>4
        <4>2. c \in 1 .. Len(h)
          BY <1>1
        <4> HIDE DEF g
        <4> QED
          BY <4>1, <4>2, JoinedCut
      <3>5. \A c \in until(n) : g[c] = Joined(h, g, c)
        <4> HIDE DEF solves
        <4>1. \A c \in until(n) : c < n \/ c = n
          BY <1>1, <2>2
        <4>2. \A c \in until(n) : g[c] = Joined(h, f, c)
          BY <3>3, <4>1
        <4> HIDE DEF g
        <4> QED
          BY <3>4, <4>2
      <3>6. g = [c \in until(n) |-> g[c]]
        OBVIOUS
      <3>7. solves(g, n)
        <4> HIDE DEF g
        <4> QED
          BY <3>5, <3>6
      <3> HIDE DEF g, solves
      <3> QED
        BY <2>2, <3>7
    <2> QED
      BY <2>3, <2>4
  <1>3. PICK g : solves(g, Len(h))
    <2> HIDE DEF solves
    <2> QED
      BY <1>1, <1>2
  <1>4. until(Len(h)) = Challenges(h)
    BY <1>1
  <1>5. g = [c \in Challenges(h) |-> Joined(h, g, c)]
    BY <1>3, <1>4
  <1> QED
    BY <1>5 DEF Canonical

(* Later comments do not move a challenge to another class.                *)
LEMMA CanonicalCut ==
  ASSUME NEW p, NEW h, NEW n, Cut(p, h, n)
  PROVE  /\ DOMAIN Canonical(h) = Challenges(h)
         /\ Challenges(p) = Challenges(h) \cap 1 .. n
         /\ \A c \in Challenges(p) : Canonical(p)[c] = Canonical(h)[c]
  <1>1. Cut(p, p, Len(p)) /\ Cut(h, h, Len(h))
    BY DEF Cut
  <1>2. /\ Canonical(p) = [c \in Challenges(p) |-> Joined(p, Canonical(p), c)]
        /\ Canonical(h) = [c \in Challenges(h) |-> Joined(h, Canonical(h), c)]
    BY <1>1, CanonicalIs
  <1>3. Challenges(p) = Challenges(h) \cap 1 .. n
    BY OfCut DEF Challenges
  <1> DEFINE moved == {c \in Challenges(p) : Canonical(p)[c] # Canonical(h)[c]}
  <1>4. moved = {}
    <2>1. SUFFICES ASSUME moved # {} PROVE FALSE
      OBVIOUS
    <2>2. moved \subseteq Nat
      BY <1>3
    <2>3. PICK c \in moved : \A d \in moved : c <= d
      <3> HIDE DEF moved
      <3> QED
        BY <2>1, <2>2, MinIn
    <2>4. \A d \in Challenges(h) : d < c => Canonical(p)[d] = Canonical(h)[d]
      <3>1. c \in Nat /\ c <= n /\ n \in Nat
        BY <1>3, <2>3 DEF Cut
      <3>2. Challenges(h) \subseteq 1 .. Len(h)
        BY <1>1, OfCut DEF Challenges
      <3>3. \A d \in Challenges(h) : d < c => d \in Challenges(p) /\ ~ c <= d
        BY <1>3, <3>1, <3>2 DEF Cut
      <3> QED
        BY <2>3, <3>3
    <2>5. c \in 1 .. n
      BY <1>3, <2>3
    <2>6. Joined(p, Canonical(p), c) = Joined(h, Canonical(h), c)
      BY <2>4, <2>5, JoinedCut
    <2>7. c \in Challenges(p) /\ c \in Challenges(h)
      BY <1>3, <2>3
    <2>8. Canonical(p)[c] = Joined(p, Canonical(p), c) /\ Canonical(h)[c] = Joined(h, Canonical(h), c)
      BY <1>2, <2>7
    <2> QED
      BY <2>3, <2>6, <2>8
  <1> QED
    BY <1>2, <1>3, <1>4

(* The first member of a class speaks for it.                              *)
LEMMA CanonicalFacts ==
  ASSUME NEW h, Cut(h, h, Len(h)), NEW c \in Challenges(h)
  PROVE  LET k == Canonical(h)[c] IN
         /\ k \in Challenges(h) /\ k \in Nat /\ k <= c /\ Canonical(h)[k] = k /\ h[k].view = h[c].view
         /\ k # c => \A m \in Members(h, k) : m < c => \A t \in Terminals(h, m) : ~ t < c
  <1> DEFINE k == Canonical(h)[c]
             earlier == {d \in Challenges(h) : d < c}
             ended(d) == \E m \in earlier : Canonical(h)[m] = d /\ \E t \in Terminals(h, m) : t < c
             open == {d \in earlier : Canonical(h)[d] = d /\ h[d].view = h[c].view /\ ~ ended(d)}
  <1>1. Challenges(h) \subseteq 1 .. Len(h) /\ Len(h) \in Nat
    BY OfCut DEF Challenges, Cut
  <1>2. Canonical(h) = [d \in Challenges(h) |-> Joined(h, Canonical(h), d)]
    BY CanonicalIs
  <1>3. k = Joined(h, Canonical(h), c)
    BY <1>2
  <1>4. k = IF open = {} THEN c ELSE Min(open)
    BY <1>3 DEF Joined
  <1>5. CASE open = {}
    <2>1. k = c
      BY <1>4, <1>5
    <2> QED
      BY <1>1, <2>1
  <1>6. CASE open # {}
    <2>1. open \subseteq Nat
      BY <1>1
    <2>2. k \in open
      <3> HIDE DEF open, k
      <3> QED
        BY <1>4, <1>6, <2>1, MinIn
    <2>3. k \in Challenges(h) /\ k < c /\ Canonical(h)[k] = k /\ h[k].view = h[c].view /\ ~ ended(k)
      <3> HIDE DEF k, ended
      <3> QED
        BY <2>2
    <2>4. Members(h, k) = {m \in Challenges(h) : Canonical(h)[m] = k}
      BY <1>2 DEF Members
    <2>5. ASSUME NEW m \in Members(h, k), m < c, NEW t \in Terminals(h, m) PROVE ~ t < c
      <3> HIDE DEF k
      <3> QED
        BY <2>3, <2>4, <2>5
    <2> HIDE DEF k, open, ended
    <2>6. k \in Nat /\ k <= c
      BY <1>1, <2>3
    <2> QED
      BY <2>3, <2>5, <2>6 DEF k
  <1> QED
    BY <1>5, <1>6

LEMMA ClassFacts ==
  ASSUME NEW h, Cut(h, h, Len(h))
  PROVE  /\ Classes(h) = {k \in Challenges(h) : Canonical(h)[k] = k}
         /\ \A k : Members(h, k) = {c \in Challenges(h) : Canonical(h)[c] = k}
         /\ \A k : k \in Outstanding(h) <=> k \in Classes(h) /\ Ends(h, k) = {}
  <1>1. DOMAIN Canonical(h) = Challenges(h)
    BY CanonicalCut
  <1>2. \A c \in Challenges(h) : Canonical(h)[c] \in Challenges(h) /\ Canonical(h)[Canonical(h)[c]] = Canonical(h)[c]
    BY CanonicalFacts
  <1>3. Classes(h) = {k \in Challenges(h) : Canonical(h)[k] = k}
    BY <1>1, <1>2 DEF Classes
  <1>4. \A k : Members(h, k) = {c \in Challenges(h) : Canonical(h)[c] = k}
    BY <1>1 DEF Members
  <1>5. ASSUME NEW k PROVE k \in Outstanding(h) <=> k \in Classes(h) /\ Ends(h, k) = {}
    <2>1. k \in Outstanding(h) <=>
            /\ k \in Challenges(h) /\ Canonical(h)[k] = k
            /\ \A c \in Challenges(h) : Canonical(h)[c] = k => Terminals(h, c) = {}
      BY <1>1 DEF Outstanding
    <2>2. Ends(h, k) = {} <=> \A c \in Members(h, k) : Terminals(h, c) = {}
      BY DEF Ends
    <2> QED
      BY <1>3, <1>4, <2>1, <2>2
  <1> QED
    BY <1>3, <1>4, <1>5

LEMMA EndsIs ==
  ASSUME NEW h, Cut(h, h, Len(h)), NEW k, NEW t
  PROVE  t \in Ends(h, k) <=>
           \E c \in Challenges(h) : Canonical(h)[c] = k /\ t \in Terminals(h, c)
  BY ClassFacts DEF Ends

LEMMA EndsCut ==
  ASSUME NEW p, NEW h, NEW n, Cut(p, h, n), NEW k
  PROVE  /\ Ends(p, k) \subseteq Ends(h, k) \cap 1 .. n
         /\ Ends(h, k) \cap 1 .. n \subseteq Ends(p, k)
  <1>1. Cut(p, p, Len(p)) /\ Cut(h, h, Len(h)) /\ n \in Nat /\ Len(h) \in Nat /\ n <= Len(h)
    BY DEF Cut
  <1>2. /\ Challenges(p) = Challenges(h) \cap 1 .. n
        /\ \A c \in Challenges(p) : Canonical(p)[c] = Canonical(h)[c] /\ Terminals(p, c) = Terminals(h, c) \cap 1 .. n
    BY CanonicalCut, TerminalsCut
  <1>3. Challenges(h) \subseteq 1 .. Len(h)
    BY <1>1, OfCut DEF Challenges
  <1>4. ASSUME NEW t \in Ends(p, k) PROVE t \in Ends(h, k) \cap 1 .. n
    <2>1. PICK c \in Challenges(p) : Canonical(p)[c] = k /\ t \in Terminals(p, c)
      BY <1>1, <1>4, EndsIs
    <2> QED
      BY <1>1, <1>2, <2>1, EndsIs
  <1>5. ASSUME NEW t \in Ends(h, k), t \in 1 .. n PROVE t \in Ends(p, k)
    <2>1. PICK c \in Challenges(h) : Canonical(h)[c] = k /\ t \in Terminals(h, c)
      BY <1>1, <1>5, EndsIs
    <2>2. c < t
      BY <2>1, TerminalsLater
    <2>3. c \in Challenges(p)
      BY <1>1, <1>2, <1>3, <1>5, <2>1, <2>2
    <2> QED
      BY <1>1, <1>2, <1>5, <2>1, <2>3, EndsIs
  <1> QED
    BY <1>4, <1>5

(* A class that is waiting was waiting ever since its first challenge.     *)
LEMMA OutstandingCut ==
  ASSUME NEW p, NEW h, NEW n, Cut(p, h, n)
  PROVE  /\ Classes(p) = Classes(h) \cap 1 .. n
         /\ Outstanding(h) \cap 1 .. n \subseteq Outstanding(p)
  <1>1. Cut(p, p, Len(p)) /\ Cut(h, h, Len(h))
    BY DEF Cut
  <1>2. Classes(p) = Classes(h) \cap 1 .. n
    BY <1>1, ClassFacts, CanonicalCut
  <1>3. ASSUME NEW k \in Outstanding(h), k \in 1 .. n PROVE k \in Outstanding(p)
    <2>1. k \in Classes(h) /\ Ends(h, k) = {}
      BY <1>1, <1>3, ClassFacts
    <2>2. k \in Classes(p) /\ Ends(p, k) = {}
      BY <1>2, <1>3, <2>1, EndsCut
    <2> QED
      BY <1>1, <2>2, ClassFacts
  <1> QED
    BY <1>2, <1>3

-----------------------------------------------------------------------------
(* Receipts                                                                *)

LEMMA GroupCut ==
  ASSUME NEW p, NEW h, NEW n, Cut(p, h, n), NEW r \in 1 .. n
  PROVE  Group(p, r) = Group(h, r) \cap 1 .. n
  <1>1. Receipts(p) = Receipts(h) \cap 1 .. n
    BY OfCut DEF Receipts
  <1> QED
    BY <1>1 DEF Group, Cut

(* A receipt that counts has no copy before it.                            *)
LEMMA LogicalIs ==
  ASSUME NEW h, Cut(h, h, Len(h)), NEW r
  PROVE  r \in Logical(h) <=> r \in Receipts(h) /\ \A s \in Group(h, r) : ~ s < r
  <1>1. Receipts(h) \subseteq 1 .. Len(h) /\ Len(h) \in Nat
    BY OfCut DEF Receipts, Cut
  <1>2. ASSUME r \in Receipts(h) PROVE r \in Group(h, r) /\ Group(h, r) \subseteq Nat /\ r \in Nat
    BY <1>1, <1>2 DEF Group
  <1>3. ASSUME r \in Receipts(h)
        PROVE  Min(Group(h, r)) \in Group(h, r) /\ \A s \in Group(h, r) : Min(Group(h, r)) <= s
    BY <1>2, <1>3, MinIn
  <1> QED
    BY <1>1, <1>2, <1>3 DEF Logical

LEMMA LogicalCut ==
  ASSUME NEW p, NEW h, NEW n, Cut(p, h, n)
  PROVE  /\ Logical(p) = Logical(h) \cap 1 .. n
         /\ Fails(p) = Fails(h) \cap 1 .. n
         /\ \A r : RecordOf(p, r) = RecordOf(h, r) \cap 1 .. n
  <1>1. Cut(p, p, Len(p)) /\ Cut(h, h, Len(h)) /\ n \in Nat /\ Len(h) \in Nat /\ \A i \in 1 .. n : p[i] = h[i]
    BY DEF Cut
  <1>2. Receipts(p) = Receipts(h) \cap 1 .. n /\ Receipts(h) \subseteq 1 .. Len(h)
    BY OfCut DEF Receipts
  <1>3. ASSUME NEW r \in Receipts(p) PROVE r \in Logical(p) <=> r \in Logical(h)
    <2>1. Group(p, r) = Group(h, r) \cap 1 .. n
      BY <1>2, <1>3, GroupCut
    <2>2. \A s \in Group(h, r) : s < r => s \in 1 .. n
      BY <1>1, <1>2, <1>3 DEF Group
    <2>3. r \in Receipts(h)
      BY <1>2, <1>3
    <2> QED
      BY <1>1, <1>3, <2>1, <2>2, <2>3, LogicalIs
  <1>4. Logical(p) \subseteq Receipts(p) /\ Logical(h) \subseteq Receipts(h)
    BY DEF Logical
  <1>5. Logical(p) = Logical(h) \cap 1 .. n
    BY <1>2, <1>3, <1>4
  <1>6. Fails(p) = Fails(h) \cap 1 .. n
    BY <1>1, <1>5 DEF Fails
  <1>7. \A r : RecordOf(p, r) = RecordOf(h, r) \cap 1 .. n
    BY <1>1, <1>2 DEF RecordOf
  <1> QED
    BY <1>5, <1>6, <1>7

(* Every receipt is a copy of one that counts.                             *)
LEMMA FirstCopy ==
  ASSUME NEW h, Cut(h, h, Len(h)), NEW r \in Receipts(h)
  PROVE  Min(Group(h, r)) \in Logical(h) \cap Group(h, r) /\ Min(Group(h, r)) <= r
  <1>1. Receipts(h) \subseteq 1 .. Len(h) /\ Len(h) \in Nat
    BY OfCut DEF Receipts, Cut
  <1>2. r \in Group(h, r) /\ Group(h, r) \subseteq Nat /\ Group(h, r) \subseteq Receipts(h)
    BY <1>1 DEF Group
  <1> DEFINE s == Min(Group(h, r))
  <1>3. s \in Group(h, r) /\ \A t \in Group(h, r) : s <= t
    BY <1>2, MinIn
  <1>4. Group(h, s) = Group(h, r)
    BY <1>3 DEF Group
  <1>5. s \in Logical(h)
    BY <1>2, <1>3, <1>4 DEF Logical
  <1> QED
    BY <1>2, <1>3, <1>5

-----------------------------------------------------------------------------
(* Histories that can be read                                              *)

LEMMA WellFormedFacts ==
  ASSUME NEW h, WellFormed(h)
  PROVE  /\ Cut(h, h, Len(h)) /\ Len(h) \in Nat /\ DOMAIN h = 1 .. Len(h)
         /\ Challenges(h) \cup Receipts(h) \cup Resolutions(h) \cup Closures(h) \cup Convergences(h) \subseteq 1 .. Len(h)
  <1>1. Cut(h, h, Len(h))
    BY WholeCut DEF WellFormed
  <1> QED
    BY <1>1, OfCut DEF Cut, Challenges, Receipts, Resolutions, Closures, Convergences

LEMMA KindsCut ==
  ASSUME NEW p, NEW h, NEW n, Cut(p, h, n)
  PROVE  /\ Challenges(p) = Challenges(h) \cap 1 .. n /\ Receipts(p) = Receipts(h) \cap 1 .. n
         /\ Resolutions(p) = Resolutions(h) \cap 1 .. n /\ Closures(p) = Closures(h) \cap 1 .. n
         /\ Convergences(p) = Convergences(h) \cap 1 .. n
  BY OfCut DEF Challenges, Receipts, Resolutions, Closures, Convergences

LEMMA WellFormedCut ==
  ASSUME NEW h, WellFormed(h), NEW n \in 0 .. Len(h)
  PROVE  WellFormed(SubSeq(h, 1, n)) /\ Cut(SubSeq(h, 1, n), h, n)
  <1> DEFINE p == SubSeq(h, 1, n)
  <1>1. Cut(p, h, n) /\ p \in Seq(Comment)
    BY PrefixCut DEF WellFormed
  <1> HIDE DEF p
  <1>2. n \in Nat /\ \A i \in 1 .. n : p[i] = h[i]
    BY <1>1 DEF Cut
  <1>3. \A s \in Receipts(p) \cup Resolutions(p) : p[s].challenge \in Challenges(p) /\ p[s].challenge < s
    <2> TAKE s \in Receipts(p) \cup Resolutions(p)
    <2>1. s \in 1 .. n /\ p[s] = h[s] /\ s \in Receipts(h) \cup Resolutions(h)
      BY <1>1, <1>2, KindsCut
    <2>2. h[s].challenge \in Challenges(h) /\ h[s].challenge < s
      BY <2>1 DEF WellFormed
    <2>3. h[s].challenge \in 1 .. Len(h)
      BY <2>2, WellFormedFacts
    <2>4. h[s].challenge \in Challenges(p)
      BY <1>1, <1>2, <2>1, <2>2, <2>3, KindsCut
    <2> QED
      BY <2>1, <2>2, <2>4
  <1>4. \A k \in Closures(p) : {p[k].canonical, p[k].duplicate} \subseteq Challenges(p) \cap 1 .. k - 1
    <2> TAKE k \in Closures(p)
    <2>1. k \in 1 .. n /\ p[k] = h[k] /\ k \in Closures(h)
      BY <1>1, <1>2, KindsCut
    <2>2. {h[k].canonical, h[k].duplicate} \subseteq Challenges(h) \cap 1 .. k - 1
      BY <2>1 DEF WellFormed
    <2>3. {h[k].canonical, h[k].duplicate} \subseteq Challenges(h) \cap 1 .. n
      BY <1>2, <2>1, <2>2
    <2> QED
      BY <1>1, <2>1, <2>2, <2>3, KindsCut
  <1>5. \A k \in Convergences(p) : p[k].canonical \in Receipts(p) /\ p[k].canonical < k
    <2> TAKE k \in Convergences(p)
    <2>1. k \in 1 .. n /\ p[k] = h[k] /\ k \in Convergences(h)
      BY <1>1, <1>2, KindsCut
    <2>2. h[k].canonical \in Receipts(h) /\ h[k].canonical < k
      BY <2>1 DEF WellFormed
    <2>3. h[k].canonical \in 1 .. Len(h)
      BY <2>2, WellFormedFacts
    <2> QED
      BY <1>1, <1>2, <2>1, <2>2, <2>3, KindsCut
  <1> QED
    BY <1>1, <1>3, <1>4, <1>5 DEF WellFormed, p

(* What an old comment means does not depend on the new ones, except that  *)
(* they may close a duplicate twice.                                       *)
LEMMA MeaningCut ==
  ASSUME NEW p, NEW h, NEW n, Cut(p, h, n), WellFormed(p)
  PROVE  /\ \A r \in Receipts(p) : MatchesReceipt(p, p[r].challenge, r) <=> MatchesReceipt(h, h[r].challenge, r)
         /\ \A s \in Resolutions(p) : MatchesResolution(p, p[s].challenge, s) <=> MatchesResolution(h, h[s].challenge, s)
         /\ \A r, s \in Receipts(p) : /\ SharesIdentifier(p, r, s) <=> SharesIdentifier(h, r, s)
                                      /\ s \in Group(p, r) <=> s \in Group(h, r)
         /\ \A k \in Convergences(p) : ConvergenceValid(p, k) <=> ConvergenceValid(h, k)
         /\ \A k \in Closures(p) :
              ClosureValid(h, k) <=> /\ ClosureValid(p, k)
                                     /\ \A l \in Closures(h) \ Closures(p) : h[l].duplicate # h[k].duplicate
         /\ \A i \in Challenges(p) : p[i] = h[i]
         /\ \A s \in Receipts(p) \cup Resolutions(p) :
              p[s] = h[s] /\ Canonical(p)[p[s].challenge] = Canonical(h)[h[s].challenge]
  <1>1. /\ n \in Nat /\ Len(h) \in Nat /\ n <= Len(h) /\ \A i \in 1 .. n : p[i] = h[i]
        /\ Len(p) = n /\ Cut(p, p, n)
    BY DEF Cut
  <1>2. Challenges(p) \cup Receipts(p) \cup Resolutions(p) \cup Closures(p) \cup Convergences(p) \subseteq 1 .. n
    BY <1>1, WellFormedFacts
  <1>3. \A s \in Receipts(p) \cup Resolutions(p) :
          s \in 1 .. n /\ p[s].challenge \in 1 .. n /\ p[s].challenge \in Challenges(p)
    BY <1>2 DEF WellFormed
  <1>4. \A r \in Receipts(p) : MatchesReceipt(p, p[r].challenge, r) <=> MatchesReceipt(h, h[r].challenge, r)
    BY <1>1, <1>3 DEF MatchesReceipt, ValidAt, Expired, TimeMatches
  <1>5. \A s \in Resolutions(p) : MatchesResolution(p, p[s].challenge, s) <=> MatchesResolution(h, h[s].challenge, s)
    BY <1>1, <1>3 DEF MatchesResolution, Expired, TimeMatches
  <1>6. \A r, s \in Receipts(p) : SharesIdentifier(p, r, s) <=> SharesIdentifier(h, r, s)
    BY <1>1, <1>2 DEF SharesIdentifier
  <1>7. \A r, s \in Receipts(p) : s \in Group(p, r) <=> s \in Group(h, r)
    BY <1>2, GroupCut
  <1>8. ASSUME NEW k \in Convergences(p) PROVE ConvergenceValid(p, k) <=> ConvergenceValid(h, k)
    <2>1. k \in 1 .. n /\ p[k] = h[k] /\ p[k].canonical \in 1 .. n
      BY <1>1, <1>2, <1>8 DEF WellFormed
    <2>2. Group(p, p[k].canonical) = Group(h, p[k].canonical) \cap 1 .. n
      BY <2>1, GroupCut
    <2>3. Group(h, p[k].canonical) \subseteq 1 .. Len(h)
      BY <1>1, OfCut DEF Group, Receipts
    <2>4. {r \in Group(p, p[k].canonical) : r < k} = {r \in Group(h, h[k].canonical) : r < k}
      BY <1>1, <2>1, <2>2, <2>3
    <2> QED
      BY <2>1, <2>4 DEF ConvergenceValid
  <1>9. ASSUME NEW k \in Closures(p)
        PROVE  ClosureValid(h, k) <=> /\ ClosureValid(p, k)
                                      /\ \A l \in Closures(h) \ Closures(p) : h[l].duplicate # h[k].duplicate
    <2>1. /\ k \in 1 .. n /\ p[k] = h[k] /\ p[k].duplicate \in Challenges(p)
          /\ p[p[k].duplicate] = h[h[k].duplicate]
      BY <1>1, <1>2, <1>9 DEF WellFormed
    <2>2. Canonical(p)[p[k].duplicate] = Canonical(h)[h[k].duplicate]
      BY <2>1, CanonicalCut
    <2>3. Closures(p) = Closures(h) \cap 1 .. n /\ \A l \in Closures(p) : p[l] = h[l]
      BY <1>1, KindsCut
    <2> QED
      BY <1>9, <2>1, <2>2, <2>3 DEF ClosureValid, TimeMatches
  <1>10. \A s \in Receipts(p) \cup Resolutions(p) :
           p[s] = h[s] /\ Canonical(p)[p[s].challenge] = Canonical(h)[h[s].challenge]
    BY <1>1, <1>3, CanonicalCut
  <1>11. \A i \in Challenges(p) : p[i] = h[i]
    BY <1>1, <1>2
  <1> QED
    BY <1>4, <1>5, <1>6, <1>7, <1>8, <1>9, <1>10, <1>11

(* The beginning of a history that can be read can be read.                *)
LEMMA ReadableCut ==
  ASSUME NEW p, NEW h, NEW n, Cut(p, h, n), WellFormed(p), Readable(h)
  PROVE  Readable(p)
  <1>1. /\ Receipts(p) \subseteq Receipts(h) /\ Resolutions(p) \subseteq Resolutions(h)
        /\ Closures(p) \subseteq Closures(h) /\ Convergences(p) \subseteq Convergences(h)
        /\ Challenges(p) \subseteq Challenges(h)
    BY KindsCut
  <1>2. ReceiptsValid(p)
    BY <1>1, MeaningCut DEF Readable, ReceiptsValid
  <1>3. \A k \in Convergences(p) : ConvergenceValid(p, k)
    BY <1>1, MeaningCut DEF Readable
  <1>4. \A s \in Resolutions(p) : MatchesResolution(p, p[s].challenge, s)
    BY <1>1, MeaningCut DEF Readable
  <1>5. \A k \in Closures(p) : ClosureValid(p, k)
    BY <1>1, MeaningCut DEF Readable
  <1>6. NoConflict(p)
    <2> SUFFICES ASSUME NEW s \in Receipts(p) \cup Resolutions(p), NEW t \in Receipts(p) \cup Resolutions(p),
                        s # t, Canonical(p)[p[s].challenge] = Canonical(p)[p[t].challenge]
                 PROVE  p[s].kind = "receipt" /\ t \in Group(p, s)
      BY DEF NoConflict
    <2>1. Canonical(h)[h[s].challenge] = Canonical(h)[h[t].challenge] /\ p[s] = h[s]
      BY MeaningCut
    <2>2. s \in Receipts(h) \cup Resolutions(h) /\ t \in Receipts(h) \cup Resolutions(h)
      BY <1>1
    <2>3. h[s].kind = "receipt" /\ t \in Group(h, s)
      BY <2>1, <2>2 DEF Readable, NoConflict
    <2>4. s \in 1 .. n /\ t \in 1 .. n
      BY KindsCut
    <2>5. t \in Group(p, s)
      BY <2>3, <2>4, GroupCut
    <2> QED
      BY <2>1, <2>3, <2>5
  <1>7. \A i \in Challenges(p) : TimeMatches(p[i])
    BY <1>1, MeaningCut DEF Readable
  <1> QED
    BY <1>2, <1>3, <1>4, <1>5, <1>6, <1>7 DEF Readable

(* A history that can be read still can be when the new comments are       *)
(* valid, copy whatever they share something with, and end no class in a   *)
(* second way.                                                             *)
LEMMA ReadableGrows ==
  ASSUME NEW h, NEW g, NEW n, Cut(h, g, n), WellFormed(h), Readable(h),
         \A i \in Challenges(g) \ Challenges(h) : TimeMatches(g[i]),
         \A r \in Receipts(g) \ Receipts(h) :
           /\ MatchesReceipt(g, g[r].challenge, r) /\ TimeMatches(g[r])
           /\ \A s \in Receipts(g) : SharesIdentifier(g, r, s) => s \in Group(g, r),
         \A k \in Convergences(g) \ Convergences(h) : ConvergenceValid(g, k),
         \A s \in Resolutions(g) \ Resolutions(h) : MatchesResolution(g, g[s].challenge, s),
         \A k \in Closures(g) \ Closures(h) : ClosureValid(g, k),
         \A s \in (Receipts(g) \cup Resolutions(g)) \ (Receipts(h) \cup Resolutions(h)) :
           \A t \in Receipts(g) \cup Resolutions(g) :
             s # t /\ Canonical(g)[g[s].challenge] = Canonical(g)[g[t].challenge]
               => g[s].kind = "receipt" /\ t \in Group(g, s)
  PROVE  Readable(g)
  <1>1. \A r, s \in Receipts(g) : /\ SharesIdentifier(g, r, s) <=> SharesIdentifier(g, s, r)
                                  /\ s \in Group(g, r) <=> r \in Group(g, s)
    BY DEF SharesIdentifier, Group
  <1>2. ReceiptsValid(g)
    <2>1. \A r \in Receipts(g) : MatchesReceipt(g, g[r].challenge, r) /\ TimeMatches(g[r])
      BY MeaningCut DEF Readable, ReceiptsValid
    <2>2. ASSUME NEW r \in Receipts(g), NEW s \in Receipts(g), SharesIdentifier(g, r, s)
          PROVE  s \in Group(g, r)
      <3>1. CASE r \in Receipts(h) /\ s \in Receipts(h)
        BY <2>2, <3>1, MeaningCut DEF Readable, ReceiptsValid
      <3> QED
        BY <1>1, <2>2, <3>1
    <2> QED
      BY <2>1, <2>2 DEF ReceiptsValid
  <1>3. \A k \in Convergences(g) : ConvergenceValid(g, k)
    BY MeaningCut DEF Readable
  <1>4. \A s \in Resolutions(g) : MatchesResolution(g, g[s].challenge, s)
    BY MeaningCut DEF Readable
  <1>5. ASSUME NEW k \in Closures(g) PROVE ClosureValid(g, k)
    <2>1. CASE k \in Closures(h)
      <3>1. \A l \in Closures(g) \ Closures(h) : g[l].duplicate # g[k].duplicate
        BY <2>1 DEF ClosureValid
      <3> QED
        BY <2>1, <3>1, MeaningCut DEF Readable
    <2> QED
      BY <1>5, <2>1
  <1>6. NoConflict(g)
    <2> SUFFICES ASSUME NEW s \in Receipts(g) \cup Resolutions(g), NEW t \in Receipts(g) \cup Resolutions(g),
                        s # t, Canonical(g)[g[s].challenge] = Canonical(g)[g[t].challenge]
                 PROVE  g[s].kind = "receipt" /\ t \in Group(g, s)
      BY DEF NoConflict
    <2> DEFINE old == Receipts(h) \cup Resolutions(h)
    <2>1. CASE s \in old /\ t \in old
      <3>1. Canonical(h)[h[s].challenge] = Canonical(h)[h[t].challenge] /\ h[s] = g[s]
        BY <2>1, MeaningCut
      <3>2. h[s].kind = "receipt" /\ t \in Group(h, s)
        BY <2>1, <3>1 DEF Readable, NoConflict
      <3>3. s \in 1 .. n /\ t \in Group(g, s)
        BY <2>1, <3>2, KindsCut, GroupCut
      <3> QED
        BY <3>1, <3>2, <3>3
    <2>2. CASE s \notin old
      BY <2>2
    <2>3. CASE t \notin old
      <3>1. g[t].kind = "receipt" /\ s \in Group(g, t)
        BY <2>3
      <3>2. s \in Receipts(g) /\ t \in Receipts(g)
        <4>1. s \in Receipts(g)
          BY <3>1 DEF Group
        <4>2. t \in DOMAIN g
          BY DEF Receipts, Resolutions, Of
        <4> QED
          BY <3>1, <4>1, <4>2 DEF Receipts, Of
      <3> QED
        BY <1>1, <3>1, <3>2 DEF Receipts, Of
    <2> QED
      BY <2>1, <2>2, <2>3
  <1>7. \A i \in Challenges(g) : TimeMatches(g[i])
    BY MeaningCut DEF Readable
  <1> QED
    BY <1>2, <1>3, <1>4, <1>5, <1>6, <1>7 DEF Readable

LEMMA AppendKinds ==
  ASSUME NEW h, WellFormed(h), NEW x \in Comment
  PROVE  LET g == Append(h, x)
             e == Len(h) + 1 IN
         /\ Cut(h, g, Len(h)) /\ g \in Seq(Comment) /\ Len(g) = e /\ g[e] = x
         /\ Challenges(g) = Challenges(h) \cup {i \in {e} : x.kind = "challenge"}
         /\ Receipts(g) = Receipts(h) \cup {i \in {e} : x.kind = "receipt"}
         /\ Resolutions(g) = Resolutions(h) \cup {i \in {e} : x.kind = "resolution"}
         /\ Closures(g) = Closures(h) \cup {i \in {e} : x.kind = "closure"}
         /\ Convergences(g) = Convergences(h) \cup {i \in {e} : x.kind = "convergence"}
         /\ e \notin Challenges(h) \cup Receipts(h) \cup Resolutions(h) \cup Closures(h) \cup Convergences(h)
  <1> DEFINE g == Append(h, x)
             e == Len(h) + 1
  <1>1. Cut(h, g, Len(h)) /\ g \in Seq(Comment) /\ Len(g) = e /\ g[e] = x
    BY AppendCut DEF WellFormed
  <1>2. Len(h) \in Nat /\ DOMAIN g = 1 .. e /\ DOMAIN h = 1 .. Len(h) /\ \A i \in 1 .. Len(h) : h[i] = g[i]
    BY <1>1 DEF Cut
  <1> HIDE DEF g
  <1>3. \A kind : Of(g, kind) = Of(h, kind) \cup {i \in {e} : x.kind = kind} /\ e \notin Of(h, kind)
    BY <1>1, <1>2 DEF Of
  <1> QED
    BY <1>1, <1>3 DEF g, Challenges, Receipts, Resolutions, Closures, Convergences

(* A new comment adds to the comments of its kind.                         *)
LEMMA AppendKind ==
  ASSUME NEW h, WellFormed(h), NEW x \in Comment
  PROVE  LET g == Append(h, x)
             e == Len(h) + 1 IN
         /\ Cut(h, g, Len(h)) /\ g[e] = x
         /\ e \notin Challenges(h) \cup Receipts(h) \cup Resolutions(h) \cup Closures(h) \cup Convergences(h)
         /\ x.kind = "challenge" => Challenges(g) = Challenges(h) \cup {e}
         /\ x.kind # "challenge" => Challenges(g) = Challenges(h)
         /\ x.kind = "receipt" => Receipts(g) = Receipts(h) \cup {e}
         /\ x.kind # "receipt" => Receipts(g) = Receipts(h)
         /\ x.kind = "resolution" => Resolutions(g) = Resolutions(h) \cup {e}
         /\ x.kind # "resolution" => Resolutions(g) = Resolutions(h)
         /\ x.kind = "closure" => Closures(g) = Closures(h) \cup {e}
         /\ x.kind # "closure" => Closures(g) = Closures(h)
         /\ x.kind # "convergence" => Convergences(g) = Convergences(h)
  <1> DEFINE g == Append(h, x)
             e == Len(h) + 1
  <1>1. /\ Cut(h, g, Len(h)) /\ g[e] = x
        /\ e \notin Challenges(h) \cup Receipts(h) \cup Resolutions(h) \cup Closures(h) \cup Convergences(h)
    BY AppendKinds
  <1>2. /\ Challenges(g) = Challenges(h) \cup {i \in {e} : x.kind = "challenge"}
        /\ Receipts(g) = Receipts(h) \cup {i \in {e} : x.kind = "receipt"}
        /\ Resolutions(g) = Resolutions(h) \cup {i \in {e} : x.kind = "resolution"}
        /\ Closures(g) = Closures(h) \cup {i \in {e} : x.kind = "closure"}
        /\ Convergences(g) = Convergences(h) \cup {i \in {e} : x.kind = "convergence"}
    BY AppendKinds
  <1> HIDE DEF g, e
  <1>3. ASSUME NEW kind
        PROVE  /\ x.kind = kind => {i \in {e} : x.kind = kind} = {e}
               /\ x.kind # kind => {i \in {e} : x.kind = kind} = {}
    OBVIOUS
  <1>4. /\ x.kind = "challenge" => Challenges(g) = Challenges(h) \cup {e}
        /\ x.kind # "challenge" => Challenges(g) = Challenges(h)
        /\ x.kind = "receipt" => Receipts(g) = Receipts(h) \cup {e}
        /\ x.kind # "receipt" => Receipts(g) = Receipts(h)
        /\ x.kind = "resolution" => Resolutions(g) = Resolutions(h) \cup {e}
        /\ x.kind # "resolution" => Resolutions(g) = Resolutions(h)
        /\ x.kind = "closure" => Closures(g) = Closures(h) \cup {e}
        /\ x.kind # "closure" => Closures(g) = Closures(h)
        /\ x.kind # "convergence" => Convergences(g) = Convergences(h)
    BY <1>2, <1>3
  <1> QED
    BY <1>1, <1>4 DEF g, e

-----------------------------------------------------------------------------
(* Comments and commands                                                   *)

LEMMA Bounds ==
  /\ Duration \in Nat /\ Tolerance \in Nat /\ FailureLimit \in Nat /\ FailureLimit # 0 /\ Skews \subseteq Int
  /\ Horizon \in Nat /\ MaxComments \in Nat /\ MaxEdits \in Nat /\ AnyView \in Views
  BY HistoryAssumption, EvaluationAssumption DEF AnyView

LEMMA CommentTypes ==
  ASSUME NEW h \in Seq(Comment)
  PROVE  /\ \A i \in Challenges(h) : h[i] \in EvaluationChallenge
         /\ \A i \in Closures(h) : h[i] \in ChallengeClosure
         /\ \A i \in Receipts(h) : h[i] \in EvaluationReceipt
         /\ \A i \in Convergences(h) : h[i] \in ReceiptConvergence
         /\ \A i \in Resolutions(h) : h[i] \in ChallengeResolution
  <1>1. \A x \in EvaluationChallenge : x.kind = "challenge"
    BY DEF EvaluationChallenge
  <1>2. \A x \in ChallengeClosure : x.kind = "closure"
    BY DEF ChallengeClosure
  <1>3. \A x \in EvaluationReceipt : x.kind = "receipt"
    BY DEF EvaluationReceipt
  <1>4. \A x \in ReceiptConvergence : x.kind = "convergence"
    BY DEF ReceiptConvergence
  <1>5. \A x \in ChallengeResolution : x.kind = "resolution"
    BY DEF ChallengeResolution
  <1>6. \A i \in DOMAIN h : h[i] \in Comment
    OBVIOUS
  <1> QED
    BY <1>1, <1>2, <1>3, <1>4, <1>5, <1>6
    DEF Challenges, Closures, Receipts, Convergences, Resolutions, Of, Comment

(* Two receipts are copies when all but their dates agree.                 *)
LEMMA FactsAgree ==
  ASSUME NEW a \in EvaluationReceipt, NEW b \in EvaluationReceipt
  PROVE  Facts(a) = Facts(b) <=> /\ a.challenge = b.challenge /\ a.run = b.run /\ a.view = b.view
                                 /\ a.verdict = b.verdict /\ a.round = b.round
  <1>1. ASSUME NEW x \in EvaluationReceipt
        PROVE  /\ Facts(x).challenge = x.challenge /\ Facts(x).run = x.run /\ Facts(x).view = x.view
               /\ Facts(x).verdict = x.verdict /\ Facts(x).round = x.round
               /\ Facts(x) = [kind |-> "receipt", challenge |-> x.challenge, run |-> x.run, view |-> x.view,
                              verdict |-> x.verdict, round |-> x.round, at |-> 0, created |-> 0]
    <2> DEFINE undated == [x EXCEPT !.at = 0]
    <2>1. undated = [kind |-> "receipt", challenge |-> x.challenge, run |-> x.run, view |-> x.view,
                     verdict |-> x.verdict, round |-> x.round, at |-> 0, created |-> x.created]
      BY DEF EvaluationReceipt
    <2>2. Facts(x) = [undated EXCEPT !.created = 0]
      BY DEF Facts, EvaluationReceipt
    <2> HIDE DEF undated
    <2> QED
      BY <2>1, <2>2
  <1> QED
    BY <1>1

LEMMA CountsTyped ==
  ASSUME NEW h, WellFormed(h), NEW S, S \subseteq Receipts(h)
  PROVE  IsFiniteSet(S) /\ Cardinality(S) \in Nat
  <1>1. S \subseteq 1 .. Len(h) /\ Len(h) \in Nat
    BY WellFormedFacts
  <1>2. IsFiniteSet(1 .. Len(h))
    BY <1>1, FS_Interval
  <1>3. IsFiniteSet(S)
    BY <1>1, <1>2, FS_Subset
  <1> QED
    BY <1>3, FS_CardinalityType

LEMMA Counted ==
  ASSUME NEW h
  PROVE  /\ Logical(h) \subseteq Receipts(h) /\ Fails(h) \subseteq Logical(h)
         /\ Unconverged(h) \subseteq Receipts(h) /\ Unclosed(h) \subseteq Challenges(h) \ Classes(h)
         /\ \A r : RecordOf(h, r) \subseteq Receipts(h) /\ Group(h, r) \subseteq Receipts(h)
  BY DEF Logical, Fails, Unconverged, Unclosed, RecordOf, Group

(* What a command has read is a beginning of the history.                  *)
LEMMA Seen ==
  ASSUME TypeOK, HistorySound, NEW n \in 0 .. Len(comments)
  PROVE  WellFormed(Prefix(n)) /\ Cut(Prefix(n), comments, n) /\ Prefix(Len(comments)) = comments
  <1>1. WellFormed(Prefix(n)) /\ Cut(Prefix(n), comments, n)
    BY WellFormedCut DEF HistorySound, Prefix
  <1>2. Prefix(Len(comments)) = comments
    BY DEF TypeOK, Prefix
  <1> QED
    BY <1>1, <1>2

LEMMA JobTyped ==
  ASSUME TypeOK, HistorySound, NEW c \in Controllers
  PROVE  /\ job[c] \in Command(Len(comments)) /\ job[c].seen \in 0 .. Len(comments) /\ Len(comments) \in Nat
         /\ History(c) = Prefix(job[c].seen)
         /\ WellFormed(History(c)) /\ Cut(History(c), comments, job[c].seen)
  <1>1. job[c] \in Command(Len(comments)) /\ Len(comments) \in Nat
    BY DEF TypeOK
  <1>2. job[c].seen \in 0 .. Len(comments)
    BY <1>1 DEF Command
  <1>3. History(c) = Prefix(job[c].seen)
    BY DEF History, Prefix
  <1> QED
    BY <1>1, <1>2, <1>3, Seen

LEMMA ChallengesTyped ==
  ASSUME TypeOK, HistorySound
  PROVE  /\ Challenges(comments) \subseteq 1 .. Len(comments) /\ issued \subseteq Challenges(comments)
         /\ Classes(comments) \subseteq Challenges(comments) /\ 0 \notin Challenges(comments)
         /\ \A r \in Runs : attested[r] # Nothing =>
              attested[r].challenge \in issued /\ attested[r].verdict \in {"pass", "fail"}
  <1>1. WellFormed(comments)
    BY DEF HistorySound
  <1>2. \A r \in Runs : attested[r] # Nothing =>
              attested[r].challenge \in issued /\ attested[r].verdict \in {"pass", "fail"}
    BY DEF TypeOK
  <1> QED
    BY <1>1, <1>2, WellFormedFacts, ClassFacts DEF TypeOK

-----------------------------------------------------------------------------
(* The steps of a command that post nothing                                *)

(* A recording forgets nothing of what it has read, unless it has posted.  *)
Remembers(c, command) ==
  command.cmd = "record" =>
    \/ command.pc \in Waiting
    \/ command.seen = Len(comments)
    \/ /\ job[c].cmd = "record" /\ job[c].target = command.target
       /\ job[c].pc \notin Waiting /\ command.seen = job[c].seen

(* c is where command says, the history is as it was.                      *)
Becomes(c, command) ==
  /\ command \in Command(Len(comments)) /\ CommandSound(command) /\ PlaceSound(command) /\ Remembers(c, command)
  /\ job' = [job EXCEPT ![c] = command]

LEMMA IdleSound ==
  ASSUME TypeOK
  PROVE  /\ \A n \in Nat : Idle \in Command(n)
         /\ CommandSound(Idle) /\ PlaceSound(Idle)
  <1>1. \A n \in Nat : Idle \in Command(n)
    BY Bounds DEF Idle, Command, Places
  <1>2. Idle.cmd = "none" /\ Idle.pc = "idle" /\ Idle.target = 0
    BY DEF Idle
  <1>3. CommandSound(Idle)
    BY <1>2, Zenon DEF CommandSound, Recording
  <1>4. PlaceSound(Idle)
    BY <1>2 DEF PlaceSound
  <1> QED
    BY <1>1, <1>3, <1>4

LEMMA Stopping ==
  ASSUME TypeOK, HistorySound, NEW c \in Controllers, Become(c, Idle)
  PROVE  \E command : Becomes(c, command)
  <1>1. Idle.cmd = "none"
    BY DEF Idle
  <1>2. Becomes(c, Idle)
    BY <1>1, IdleSound, JobTyped DEF Becomes, Become, Remembers
  <1> QED
    BY <1>2

(* A command that goes on keeps what it has established, but for its       *)
(* place and what it has read.                                             *)
LEMMA Moving ==
  ASSUME TypeOK, HistorySound, NEW c \in Controllers, CommandSound(job[c]),
         NEW command \in Command(Len(comments)),
         command.cmd = job[c].cmd, command.target = job[c].target, command.run = job[c].run,
         command.pc # "idle", command.pc \in Recording => job[c].cmd = "record",
         command.pc \in {"ask", "asked"} => job[c].cmd = "challenge",
         command.pc = "asked" => job[c].target \in Challenges(comments),
         command.pc \in {"class", "closing"} => command.class \in Classes(comments),
         \/ command.pc \in Waiting
         \/ command.seen = Len(comments)
         \/ job[c].pc \notin Waiting /\ command.seen = job[c].seen,
         PlaceSound(command),
         Become(c, command)
  PROVE  Becomes(c, command)
  <1>1. job[c] \in Command(Len(comments)) /\ Len(comments) \in Nat
    BY JobTyped
  <1>2. job[c].seen \in Nat /\ job[c].target \in 0 .. Len(comments)
    BY <1>1 DEF Command
  <1>3. job[c].cmd = "record" => Knows(command, command.target)
    BY <1>2 DEF Knows, CommandSound
  <1>4. CommandSound(command)
    BY <1>3 DEF CommandSound
  <1>5. Remembers(c, command)
    BY DEF Remembers
  <1> QED
    BY <1>4, <1>5 DEF Becomes, Become

Sound == TypeOK /\ HistorySound /\ JobsSound

LEMMA BeginMoves ==
  ASSUME Sound, NEW c \in Controllers, Begin(c)
  PROVE  \E command : Becomes(c, command)
  <1>1. TypeOK /\ HistorySound /\ CommandSound(job[c]) /\ job[c].pc = "converge"
    BY DEF Sound, JobsSound, Begin, At
  <1> DEFINE k == Min(Duplicated(History(c)))
             command == [job[c] EXCEPT !.pc = "class", !.class = k, !.bound = job[c].view = comments[k].view]
  <1>2. Cut(History(c), comments, job[c].seen) /\ Cut(History(c), History(c), Len(History(c)))
        /\ job[c] \in Command(Len(comments))
    BY <1>1, JobTyped, WellFormedFacts
  <1>3. Classes(History(c)) \subseteq Challenges(History(c)) /\ Challenges(History(c)) \subseteq Nat
    BY <1>2, ClassFacts, OfCut DEF Challenges
  <1>4. k \in Classes(History(c))
    <2>1. Duplicated(History(c)) \subseteq Classes(History(c)) /\ Duplicated(History(c)) # {}
      BY DEF Duplicated, Begin
    <2> QED
      BY <1>3, <2>1, MinIn
  <1>5. k \in Classes(comments) /\ k \in 0 .. Len(comments)
    <2>1. k \in Classes(comments)
      BY <1>2, <1>4, OutstandingCut
    <2> QED
      BY <1>1, <2>1, ChallengesTyped
  <1>6. Become(c, command)
    BY DEF Begin
  <1> HIDE DEF k
  <1>7. /\ command \in Command(Len(comments)) /\ command.pc = "class" /\ command.class = k
        /\ command.cmd = job[c].cmd /\ command.target = job[c].target /\ command.run = job[c].run
        /\ command.seen = job[c].seen
    BY <1>2, <1>5 DEF Command, Places
  <1> HIDE DEF command
  <1>8. PlaceSound(command)
    BY <1>7 DEF PlaceSound
  <1>9. Becomes(c, command)
    BY <1>1, <1>5, <1>6, <1>7, <1>8, Moving DEF Recording, Waiting
  <1> QED
    BY <1>9

LEMMA Updated ==
  ASSUME NEW n \in Nat, NEW command \in Command(n),
         NEW place \in Places, NEW seen \in 0 .. n, NEW shown \in Views
  PROVE  [command EXCEPT !.pc = place, !.seen = seen, !.view = shown] \in Command(n)
  BY DEF Command

LEMMA Retargeted ==
  ASSUME NEW n \in Nat, NEW command \in Command(n), NEW run \in Runs, NEW target \in 0 .. n
  PROVE  [command EXCEPT !.run = run, !.target = target]
           \in [pc : {command.pc}, cmd : {command.cmd}, seen : {command.seen}, view : Views, from : Views,
               run : {run}, target : {target}, class : 0 .. n, bound : BOOLEAN, merged : BOOLEAN]
  BY DEF Command

(* Reading again all there is.                                             *)
LEMMA ReadAgain ==
  ASSUME TypeOK, HistorySound, NEW c \in Controllers, NEW place \in Places
  PROVE  /\ Reading(c, place) \in Command(Len(comments))
         /\ Reading(c, place).pc = place /\ Reading(c, place).seen = Len(comments)
         /\ Reading(c, place).view = view /\ Reading(c, place).cmd = job[c].cmd
         /\ Reading(c, place).target = job[c].target /\ Reading(c, place).run = job[c].run
         /\ Reading(c, place).class = job[c].class
         /\ Prefix(Reading(c, place).seen) = comments
  <1>1. job[c] \in Command(Len(comments)) /\ Len(comments) \in Nat /\ view \in Views
    BY JobTyped DEF TypeOK
  <1>2. Prefix(Len(comments)) = comments
    BY DEF Prefix, TypeOK
  <1>3. Reading(c, place) = [job[c] EXCEPT !.pc = place, !.seen = Len(comments), !.view = view]
    BY DEF Reading
  <1>4. Reading(c, place) \in Command(Len(comments))
    <2>1. Len(comments) \in 0 .. Len(comments)
      BY <1>1
    <2>2. [job[c] EXCEPT !.pc = place, !.seen = Len(comments), !.view = view] \in Command(Len(comments))
      BY <1>1, <2>1, Updated, Zenon
    <2> QED
      BY <1>3, <2>2
  <1>5. /\ Reading(c, place).pc = place /\ Reading(c, place).seen = Len(comments)
        /\ Reading(c, place).view = view /\ Reading(c, place).cmd = job[c].cmd
        /\ Reading(c, place).target = job[c].target /\ Reading(c, place).run = job[c].run
        /\ Reading(c, place).class = job[c].class
    BY <1>1, <1>3 DEF Command
  <1> QED
    BY <1>2, <1>4, <1>5

LEMMA PlacesNamed ==
  {"idle", "converge", "class", "closing", "ask", "asked", "merging", "copies", "merged",
   "recorded", "record", "posted", "verified", "resolve"} \subseteq Places
  BY DEF Places

LEMMA ConvergingMoves ==
  ASSUME Sound, NEW c \in Controllers, VerifyClosure(c) \/ NextClass(c)
  PROVE  \E command : Becomes(c, command)
  <1>1. TypeOK /\ HistorySound /\ CommandSound(job[c])
    BY DEF Sound, JobsSound
  <1>2. CASE VerifyClosure(c)
    <2>1. job[c].pc = "closing" /\ Become(c, Reading(c, "class"))
      BY <1>2 DEF VerifyClosure, At
    <2>2. job[c].class \in Classes(comments)
      BY <1>1, <2>1 DEF CommandSound
    <2>3. PlaceSound(Reading(c, "class"))
      BY <1>1, ReadAgain, PlacesNamed DEF PlaceSound
    <2>4. Becomes(c, Reading(c, "class"))
      BY <1>1, <2>1, <2>2, <2>3, ReadAgain, PlacesNamed, Moving DEF Recording, Waiting
    <2> QED
      BY <2>4
  <1>3. CASE NextClass(c)
    <2> DEFINE command == [Reading(c, "converge") EXCEPT !.class = 0]
    <2>1. Become(c, command)
      BY <1>3 DEF NextClass
    <2>2. /\ command \in Command(Len(comments)) /\ command.pc = "converge" /\ command.seen = Len(comments)
          /\ command.cmd = job[c].cmd /\ command.target = job[c].target /\ command.run = job[c].run
      <3> DEFINE read == Reading(c, "converge")
      <3>1. /\ read \in Command(Len(comments)) /\ read.pc = "converge" /\ read.seen = Len(comments)
            /\ read.cmd = job[c].cmd /\ read.target = job[c].target /\ read.run = job[c].run
            /\ Len(comments) \in Nat
        BY <1>1, ReadAgain, JobTyped, PlacesNamed
      <3> HIDE DEF read
      <3>2. command = [read EXCEPT !.class = 0]
        BY DEF read
      <3> QED
        BY <3>1, <3>2 DEF Command
    <2> HIDE DEF command
    <2>3. PlaceSound(command)
      BY <2>2 DEF PlaceSound
    <2>4. Becomes(c, command)
      BY <1>1, <2>1, <2>2, <2>3, Moving DEF Recording, Waiting
    <2> QED
      BY <2>4
  <1> QED
    BY <1>2, <1>3

(* A command that starts has read everything.                              *)
LEMMA Starts ==
  ASSUME TypeOK, HistorySound, NEW c \in Controllers, CommandSound(job[c]), At(c, "idle"),
         NEW cmd \in {"challenge", "record", "resolve"}
  PROVE  /\ Started(c, cmd) \in Command(Len(comments)) /\ Started(c, cmd).pc = "converge"
         /\ Started(c, cmd).seen = Len(comments) /\ Started(c, cmd).cmd = cmd
         /\ Started(c, cmd).target = 0 /\ Started(c, cmd).run = "none"
  <1> DEFINE read == Reading(c, "converge")
  <1>1. /\ read \in Command(Len(comments)) /\ read.pc = "converge" /\ read.seen = Len(comments)
        /\ Len(comments) \in Nat /\ view \in Views
    BY ReadAgain, JobTyped, PlacesNamed DEF TypeOK
  <1>2. read.target = 0 /\ read.run = "none"
    <2>1. job[c] = Idle
      BY DEF CommandSound, At
    <2> QED
      BY <2>1, ReadAgain, PlacesNamed DEF Idle
  <1>3. PICK from \in Views : Started(c, cmd) = [read EXCEPT !.cmd = cmd, !.from = from]
    <2>1. CASE cmd = "challenge"
      BY <1>1, <2>1 DEF Started
    <2>2. CASE cmd # "challenge"
      <3>1. Started(c, cmd) = [read EXCEPT !.cmd = cmd, !.from = read.from] /\ read.from \in Views
        BY <1>1, <2>2 DEF Started, Command
      <3> QED
        BY <3>1
    <2> QED
      BY <2>1, <2>2
  <1> HIDE DEF read
  <1> QED
    BY <1>1, <1>2, <1>3 DEF Command

LEMMA StartingMoves ==
  ASSUME Sound, NEW c \in Controllers,
         StartChallenge(c) \/ StartResolve(c) \/ \E r \in Runs : StartRecord(c, r)
  PROVE  \E command : Becomes(c, command)
  <1>1. TypeOK /\ HistorySound /\ CommandSound(job[c]) /\ Len(comments) \in Nat
    BY JobTyped DEF Sound, JobsSound
  <1>2. CASE StartChallenge(c)
    <2> DEFINE command == Started(c, "challenge")
    <2>1. At(c, "idle") /\ Become(c, command)
      BY <1>2 DEF StartChallenge
    <2>2. /\ command \in Command(Len(comments)) /\ command.pc = "converge" /\ command.cmd = "challenge"
          /\ command.target = 0
      BY <1>1, <2>1, Starts
    <2> HIDE DEF command
    <2>3. CommandSound(command) /\ PlaceSound(command)
      BY <2>2 DEF CommandSound, PlaceSound, Recording
    <2> QED
      BY <2>1, <2>2, <2>3 DEF Becomes, Become, Remembers
  <1>3. CASE StartResolve(c)
    <2>1. PICK i \in Outstanding(comments) : Become(c, [Started(c, "resolve") EXCEPT !.target = i])
      BY <1>3 DEF StartResolve
    <2> DEFINE start == Started(c, "resolve")
               command == [start EXCEPT !.target = i]
    <2>2. At(c, "idle")
      BY <1>3 DEF StartResolve
    <2>3. start \in Command(Len(comments)) /\ start.pc = "converge" /\ start.cmd = "resolve"
      BY <1>1, <2>2, Starts
    <2>4. i \in Challenges(comments) /\ i \in 0 .. Len(comments)
      <3>1. WellFormed(comments)
        BY <1>1 DEF HistorySound
      <3>2. i \in Classes(comments)
        BY <3>1, ClassFacts, WellFormedFacts
      <3> QED
        BY <1>1, <3>2, ChallengesTyped
    <2> HIDE DEF start
    <2>5. /\ command \in Command(Len(comments)) /\ command.pc = "converge" /\ command.cmd = "resolve"
          /\ command.target = i
      BY <2>3, <2>4 DEF Command
    <2>6. Become(c, command)
      BY <2>1 DEF start
    <2> HIDE DEF command
    <2>7. CommandSound(command) /\ PlaceSound(command)
      BY <2>4, <2>5 DEF CommandSound, PlaceSound, Recording
    <2> QED
      BY <2>5, <2>6, <2>7 DEF Becomes, Become, Remembers
  <1>4. CASE \E r \in Runs : StartRecord(c, r)
    <2>1. PICK r \in Runs : StartRecord(c, r)
      BY <1>4
    <2> DEFINE start == Started(c, "record")
               i == attested[r].challenge
               command == [start EXCEPT !.run = r, !.target = i]
    <2>2. At(c, "idle") /\ attested[r] # Nothing /\ Become(c, command)
      BY <2>1 DEF StartRecord
    <2>3. start \in Command(Len(comments)) /\ start.pc = "converge" /\ start.cmd = "record"
          /\ start.seen = Len(comments)
      BY <1>1, <2>2, Starts
    <2>4. i \in Challenges(comments) /\ i \in 1 .. Len(comments)
      BY <1>1, <2>2, ChallengesTyped
    <2> HIDE DEF start, i
    <2>5. /\ command \in Command(Len(comments)) /\ command.pc = "converge" /\ command.cmd = "record"
          /\ command.target = i /\ command.run = r /\ command.seen = Len(comments)
      <3>1. i \in 0 .. Len(comments)
        BY <1>1, <2>4
      <3>2. command \in [pc : {start.pc}, cmd : {start.cmd}, seen : {start.seen}, view : Views, from : Views,
                         run : {r}, target : {i}, class : 0 .. Len(comments), bound : BOOLEAN, merged : BOOLEAN]
        BY <1>1, <2>3, <3>1, Retargeted, Zenon
      <3>3. start.pc \in Places /\ start.cmd \in {"record"} /\ start.seen \in 0 .. Len(comments)
        BY <2>3 DEF Command
      <3> HIDE DEF command
      <3> QED
        BY <2>3, <3>1, <3>2, <3>3 DEF Command
    <2> HIDE DEF command
    <2>6. CommandSound(command)
      BY <1>1, <2>2, <2>4, <2>5 DEF CommandSound, Recording, Knows, i
    <2>7. PlaceSound(command)
      BY <2>5 DEF PlaceSound
    <2> QED
      BY <2>2, <2>5, <2>6, <2>7 DEF Becomes, Become, Remembers
  <1> QED
    BY <1>2, <1>3, <1>4

LEMMA Completed ==
  ASSUME NEW n \in Nat, NEW command \in Command(n), NEW i \in 0 .. n, NEW k \in 0 .. n
  PROVE  [command EXCEPT !.pc = "class", !.target = i, !.bound = TRUE, !.class = k]
           \in [pc : {"class"}, cmd : {command.cmd}, seen : {command.seen}, view : Views, from : Views,
               run : {command.run}, target : {i}, class : {k}, bound : BOOLEAN, merged : BOOLEAN]
  BY DEF Command

LEMMA CompletingMoves ==
  ASSUME Sound, NEW c \in Controllers, Retry(c) \/ VerifyChallenge(c)
  PROVE  \E command : Becomes(c, command)
  <1>1. TypeOK /\ HistorySound /\ CommandSound(job[c]) /\ Len(comments) \in Nat /\ WellFormed(comments)
    BY JobTyped DEF Sound, JobsSound, HistorySound
  <1>2. /\ job[c] \in Command(Len(comments)) /\ job[c].seen \in 0 .. Len(comments)
        /\ WellFormed(History(c)) /\ Cut(History(c), comments, job[c].seen)
    BY <1>1, JobTyped
  <1>3. ASSUME NEW next \in Command(Len(comments)), next.cmd = "challenge" \/ next.target = job[c].target,
               next.cmd = job[c].cmd, next.run = job[c].run,
               (next.seen = job[c].seen /\ job[c].pc \notin Waiting) \/ next.seen = Len(comments),
               NEW i \in Challenges(Prefix(next.seen)), next.cmd = "challenge" \/ i = next.target,
               Complete(c, i, next)
        PROVE  \E command : Becomes(c, command)
    <2> DEFINE k == Canonical(SubSeq(comments, 1, next.seen))[i]
               command == [next EXCEPT !.pc = "class", !.target = i, !.bound = TRUE, !.class = k]
    <2>1. next.seen \in 0 .. Len(comments)
      BY <1>1, <1>2, <1>3
    <2>2. Cut(Prefix(next.seen), comments, next.seen) /\ WellFormed(Prefix(next.seen))
      BY <1>1, <2>1, Seen
    <2>3. i \in Challenges(comments) /\ k = Canonical(comments)[i]
      BY <2>2, CanonicalCut DEF Prefix
    <2>4. k \in Classes(comments) /\ k \in 0 .. Len(comments) /\ i \in 0 .. Len(comments)
      <3>1. k \in Classes(comments)
        BY <1>1, <2>3, WellFormedFacts, ClassFacts, CanonicalFacts
      <3> HIDE DEF k
      <3> QED
        BY <1>1, <2>3, <3>1, ChallengesTyped
    <2>5. Become(c, command)
      BY <1>3 DEF Complete
    <2> HIDE DEF k
    <2>6. command \in [pc : {"class"}, cmd : {next.cmd}, seen : {next.seen}, view : Views, from : Views,
                       run : {next.run}, target : {i}, class : {k}, bound : BOOLEAN, merged : BOOLEAN]
      BY <1>1, <2>4, Completed, Zenon
    <2>7. command \in Command(Len(comments))
      <3>1. next.cmd \in {"none", "challenge", "record", "resolve"} /\ next.run \in Runs \cup {"none"}
        BY DEF Command
      <3> HIDE DEF command
      <3> QED
        BY <2>1, <2>4, <2>6, <3>1 DEF Command, Places
    <2> HIDE DEF command
    <2>8. /\ command.pc = "class" /\ command.cmd = next.cmd /\ command.seen = next.seen
          /\ command.run = next.run /\ command.target = i /\ command.class = k
      BY <2>6
    <2>9. PlaceSound(command)
      BY <2>8 DEF PlaceSound
    <2>10. CASE next.cmd = "challenge"
      <3>1. CommandSound(command)
        BY <2>3, <2>4, <2>8, <2>10 DEF CommandSound, Recording
      <3> QED
        BY <2>5, <2>7, <2>8, <2>9, <2>10, <3>1 DEF Becomes, Become, Remembers
    <2>11. CASE next.cmd # "challenge"
      <3>1. command.target = job[c].target /\ command.run = job[c].run /\ command.cmd = job[c].cmd
        BY <1>3, <2>8, <2>11
      <3>2. (job[c].pc \notin Waiting /\ command.seen = job[c].seen) \/ command.seen = Len(comments)
        BY <1>3, <2>8
      <3>3. Becomes(c, command)
        BY <1>1, <2>4, <2>5, <2>7, <2>8, <2>9, <3>1, <3>2, Moving DEF Recording
      <3> QED
        BY <3>3
    <2> QED
      BY <2>10, <2>11
  <1>4. CASE Retry(c)
    <2>1. job[c].pc = "converge" /\ job[c].cmd = "challenge"
      BY <1>4 DEF Retry, Converged, At
    <2>2. PICK i \in Outstanding(History(c)) : Complete(c, i, job[c])
      BY <1>4 DEF Retry
    <2>3. i \in Challenges(Prefix(job[c].seen))
      <3>1. i \in Challenges(History(c))
        BY <1>2, WellFormedFacts, ClassFacts
      <3> QED
        BY <3>1 DEF Prefix, History
    <2>4. job[c].pc \notin Waiting
      BY <2>1 DEF Waiting
    <2> QED
      BY <1>2, <1>3, <2>1, <2>2, <2>3, <2>4
  <1>5. CASE VerifyChallenge(c)
    <2> DEFINE next == Reading(c, "class")
    <2>1. job[c].pc = "asked" /\ Complete(c, job[c].target, next)
      BY <1>5 DEF VerifyChallenge, At
    <2>2. job[c].target \in Challenges(comments)
      BY <1>1, <2>1 DEF CommandSound
    <2>3. /\ next \in Command(Len(comments)) /\ next.cmd = job[c].cmd /\ next.target = job[c].target
          /\ next.run = job[c].run /\ next.seen = Len(comments) /\ Prefix(next.seen) = comments
      BY <1>1, ReadAgain, PlacesNamed
    <2> HIDE DEF next
    <2> QED
      BY <1>3, <2>1, <2>2, <2>3
  <1> QED
    BY <1>4, <1>5

LEMMA Gone ==
  ASSUME NEW n, NEW command \in Command(n), NEW place \in Places
  PROVE  /\ [command EXCEPT !.pc = place] \in Command(n)
         /\ [command EXCEPT !.pc = place].pc = place
         /\ [command EXCEPT !.pc = place].cmd = command.cmd /\ [command EXCEPT !.pc = place].run = command.run
         /\ [command EXCEPT !.pc = place].target = command.target /\ [command EXCEPT !.pc = place].seen = command.seen
         /\ [command EXCEPT !.pc = place].view = command.view
  BY DEF Command

(* What a controller validated it has read.                                *)
LEMMA ValidatingMoves ==
  ASSUME Sound, NEW c \in Controllers, ProveFresh(c) \/ FindRecorded(c) \/ Validate(c)
  PROVE  \E command : Becomes(c, command)
  <1>1. TypeOK /\ HistorySound /\ CommandSound(job[c]) /\ Len(comments) \in Nat
    BY JobTyped DEF Sound, JobsSound
  <1>2. /\ job[c] \in Command(Len(comments)) /\ job[c].seen \in 0 .. Len(comments)
        /\ History(c) = Prefix(job[c].seen) /\ Cut(History(c), comments, job[c].seen)
    BY <1>1, JobTyped
  <1>3. PICK place \in {"ask", "recorded", "record"} :
          /\ Become(c, [job[c] EXCEPT !.pc = place])
          /\ place = "ask" => ProveFresh(c)
          /\ place = "recorded" => FindRecorded(c)
          /\ place = "record" => Validate(c)
    BY DEF ProveFresh, FindRecorded, Validate, Goto
  <1>4. /\ job[c].pc = "converge" /\ (place \in {"recorded", "record"} => job[c].cmd = "record")
        /\ place = "ask" => job[c].cmd = "challenge"
    BY <1>3 DEF ProveFresh, FindRecorded, Validate, Reconciled, Converged, At
  <1> DEFINE command == [job[c] EXCEPT !.pc = place]
  <1>5. /\ command \in Command(Len(comments)) /\ command.pc = place
        /\ command.cmd = job[c].cmd /\ command.target = job[c].target /\ command.run = job[c].run
        /\ command.seen = job[c].seen /\ command.view = job[c].view
    BY <1>2, PlacesNamed, Gone
  <1>6. Become(c, command)
    BY <1>3
  <1> HIDE DEF command
  <1>7. PlaceSound(command)
    <2>1. CASE place = "ask"
      BY <1>5, <2>1 DEF PlaceSound
    <2>2. CASE place = "recorded"
      <3>1. Strict(Prefix(command.seen)) /\ RecordOf(Prefix(command.seen), command.run) # {}
        BY <1>2, <1>3, <1>5, <2>2 DEF FindRecorded, Reconciled
      <3> QED
        BY <1>5, <2>2, <3>1 DEF PlaceSound
    <2>3. CASE place = "record"
      <3> DEFINE h == History(c)
                 i == job[c].target
      <3>1. /\ Strict(h) /\ RecordOf(h, job[c].run) = {} /\ Outcomes(h, i) = {}
            /\ Cardinality(Fails(h)) < FailureLimit /\ h[i].view = job[c].view
        BY <1>3, <2>3 DEF Validate, Reconciled
      <3>2. h[i] = comments[i]
        <4>1. i \in Challenges(comments) /\ i \in 1 .. Len(comments)
          BY <1>1, <1>4, <2>3, ChallengesTyped DEF CommandSound
        <4>2. i <= job[c].seen
          BY <1>1, <1>4, <2>3 DEF CommandSound, Knows, Waiting
        <4> QED
          BY <1>2, <4>1, <4>2 DEF Cut
      <3> HIDE DEF h, i
      <3>3. /\ Strict(Prefix(command.seen)) /\ RecordOf(Prefix(command.seen), command.run) = {}
            /\ Outcomes(Prefix(command.seen), command.target) = {}
            /\ Cardinality(Fails(Prefix(command.seen))) < FailureLimit
            /\ comments[command.target].view = command.view
        BY <1>2, <1>5, <3>1, <3>2 DEF h, i
      <3> QED
        BY <1>5, <2>3, <3>3 DEF PlaceSound
    <2> QED
      BY <2>1, <2>2, <2>3
  <1>8. Becomes(c, command)
    <2>1. job[c].pc \notin Waiting /\ place # "idle" /\ place # "asked" /\ place \notin {"class", "closing"}
      BY <1>4 DEF Waiting
    <2>2. place \in Recording => job[c].cmd = "record"
      BY <1>4 DEF Recording
    <2> QED
      BY <1>1, <1>4, <1>5, <1>6, <1>7, <2>1, <2>2, Moving
  <1> QED
    BY <1>8

(* What it verified, it has just read.                                     *)
LEMMA VerifyingMoves ==
  ASSUME Sound, NEW c \in Controllers, VerifyReceipt(c) \/ VerifyConvergence(c) \/ PrepareResolution(c)
  PROVE  \E command : Becomes(c, command)
  <1>1. TypeOK /\ HistorySound /\ CommandSound(job[c])
    BY DEF Sound, JobsSound
  <1>2. CASE VerifyReceipt(c)
    <2>1. PICK place \in {"copies", "verified"} :
            /\ Become(c, Reading(c, place))
            /\ place = "verified" => Strict(comments) /\ RecordOf(comments, job[c].run) # {}
      BY <1>2 DEF VerifyReceipt
    <2>2. job[c].cmd = "record"
      BY <1>1, <1>2 DEF VerifyReceipt, At, CommandSound, Recording
    <2> DEFINE command == Reading(c, place)
    <2>3. /\ command \in Command(Len(comments)) /\ command.pc = place /\ command.seen = Len(comments)
          /\ command.cmd = job[c].cmd /\ command.target = job[c].target /\ command.run = job[c].run
          /\ Prefix(command.seen) = comments
      BY <1>1, <2>1, ReadAgain, PlacesNamed
    <2>4. Become(c, command)
      BY <2>1
    <2> HIDE DEF command
    <2>5. place = "verified" => Strict(Prefix(command.seen)) /\ RecordOf(Prefix(command.seen), command.run) # {}
      BY <2>1, <2>3
    <2>6. PlaceSound(command)
      BY <2>1, <2>3, <2>5 DEF PlaceSound
    <2>7. Becomes(c, command)
      BY <1>1, <2>1, <2>2, <2>3, <2>4, <2>6, Moving
    <2> QED
      BY <2>7
  <1>3. CASE VerifyConvergence(c)
    <2>1. PICK place \in {"converge", "recorded"} : Become(c, [Reading(c, place) EXCEPT !.merged = TRUE])
      BY <1>3 DEF VerifyConvergence
    <2> DEFINE read == Reading(c, place)
               command == [read EXCEPT !.merged = TRUE]
    <2>2. job[c].cmd = "record"
      BY <1>1, <1>3 DEF VerifyConvergence, At, CommandSound, Recording
    <2>3. Strict(comments) /\ RecordOf(comments, job[c].run) # {}
      BY <1>3 DEF VerifyConvergence
    <2>4. /\ read \in Command(Len(comments)) /\ read.pc = place /\ read.seen = Len(comments)
          /\ read.cmd = job[c].cmd /\ read.target = job[c].target /\ read.run = job[c].run
          /\ Prefix(read.seen) = comments
      BY <1>1, <2>1, ReadAgain, PlacesNamed
    <2> HIDE DEF read
    <2>5. /\ command \in Command(Len(comments)) /\ command.pc = place /\ command.seen = read.seen
          /\ command.cmd = job[c].cmd /\ command.target = job[c].target /\ command.run = job[c].run
      BY <2>4 DEF Command
    <2>6. Become(c, command)
      BY <2>1 DEF read
    <2> HIDE DEF command
    <2>7. Strict(Prefix(command.seen)) /\ RecordOf(Prefix(command.seen), command.run) # {}
      BY <2>3, <2>4, <2>5
    <2>8. PlaceSound(command)
      BY <2>1, <2>5, <2>7 DEF PlaceSound
    <2>9. Becomes(c, command)
      BY <1>1, <2>1, <2>2, <2>4, <2>5, <2>6, <2>8, Moving
    <2> QED
      BY <2>9
  <1>4. CASE PrepareResolution(c)
    <2> DEFINE command == Reading(c, "resolve")
    <2>1. job[c].cmd = "resolve" /\ Resolvable(comments, job[c].target) /\ Become(c, command)
      BY <1>4 DEF PrepareResolution
    <2>2. /\ command \in Command(Len(comments)) /\ command.pc = "resolve" /\ command.seen = Len(comments)
          /\ command.cmd = job[c].cmd /\ command.target = job[c].target /\ command.run = job[c].run
          /\ Prefix(command.seen) = comments
      BY <1>1, ReadAgain, PlacesNamed
    <2> HIDE DEF command
    <2>3. PlaceSound(command)
      BY <2>1, <2>2 DEF PlaceSound
    <2>4. Becomes(c, command)
      BY <1>1, <2>1, <2>2, <2>3, Moving DEF Recording, Waiting
    <2> QED
      BY <2>4
  <1> QED
    BY <1>2, <1>3, <1>4

-----------------------------------------------------------------------------
(* The steps of a command that post a comment                              *)

LEMMA Awaits ==
  ASSUME NEW n \in Nat, NEW command \in Command(n), NEW place \in Places
  PROVE  [command EXCEPT !.pc = place, !.seen = 0]
           \in [pc : {place}, cmd : {command.cmd}, seen : {0}, view : Views, from : Views, run : {command.run},
               target : {command.target}, class : {command.class}, bound : BOOLEAN, merged : BOOLEAN]
  BY DEF Command

LEMMA Unchanged ==
  ASSUME NEW n \in Nat, NEW command \in Command(n), command.seen = 0
  PROVE  [command EXCEPT !.seen = 0] = command
  BY DEF Command

(* The comment that is posted, and where the command goes.                 *)
LEMMA PostingMoves ==
  ASSUME Sound, NEW c \in Controllers,
         Close(c) \/ ConvergeReceipts(c) \/ ConvergePosted(c) \/ PostReceipt(c) \/ PostResolution(c)
  PROVE  \E command : Becomes(c, command)
  <1>1. TypeOK /\ HistorySound /\ CommandSound(job[c]) /\ job[c] \in Command(Len(comments)) /\ Len(comments) \in Nat
    BY JobTyped DEF Sound, JobsSound
  <1>2. CASE PostResolution(c)
    <2>1. Become(c, [Idle EXCEPT !.seen = 0])
      BY <1>2 DEF PostResolution, Post
    <2>2. [Idle EXCEPT !.seen = 0] = Idle
      <3>1. Idle \in Command(0) /\ Idle.seen = 0
        BY <1>1, IdleSound DEF Idle
      <3> QED
        BY <3>1, Unchanged
    <2>3. Become(c, Idle)
      BY <2>1, <2>2
    <2> QED
      BY <1>1, <2>3, Stopping
  <1>3. ASSUME NEW place \in {"closing", "merging", "merged", "posted"},
               Become(c, [[job[c] EXCEPT !.pc = place] EXCEPT !.seen = 0]),
               place = "closing" => job[c].pc = "class",
               place # "closing" => job[c].cmd = "record"
        PROVE  \E command : Becomes(c, command)
    <2> DEFINE command == [job[c] EXCEPT !.pc = place, !.seen = 0]
    <2>1. Become(c, command)
      <3>1. command = [[job[c] EXCEPT !.pc = place] EXCEPT !.seen = 0]
        BY <1>1 DEF Command
      <3> QED
        BY <1>3, <3>1
    <2>2. /\ command \in Command(Len(comments)) /\ command.pc = place
          /\ command.cmd = job[c].cmd /\ command.run = job[c].run
          /\ command.target = job[c].target /\ command.class = job[c].class
      <3>1. place \in Places
        BY <1>3, PlacesNamed
      <3>2. command \in [pc : {place}, cmd : {job[c].cmd}, seen : {0}, view : Views, from : Views, run : {job[c].run},
                         target : {job[c].target}, class : {job[c].class}, bound : BOOLEAN, merged : BOOLEAN]
        BY <1>1, <3>1, Awaits, Zenon
      <3>3. /\ job[c].cmd \in {"none", "challenge", "record", "resolve"} /\ job[c].run \in Runs \cup {"none"}
            /\ job[c].target \in 0 .. Len(comments) /\ job[c].class \in 0 .. Len(comments)
        BY <1>1 DEF Command
      <3> HIDE DEF command
      <3> QED
        BY <1>1, <3>1, <3>2, <3>3 DEF Command
    <2> HIDE DEF command
    <2>3. PlaceSound(command)
      BY <1>3, <2>2 DEF PlaceSound
    <2>4. place = "closing" => command.class \in Classes(comments)
      BY <1>1, <1>3, <2>2 DEF CommandSound
    <2>5. Becomes(c, command)
      BY <1>1, <1>3, <2>1, <2>2, <2>3, <2>4, Moving DEF Waiting, Recording
    <2> QED
      BY <2>5
  <1>4. CASE Close(c)
    <2>1. Become(c, [[job[c] EXCEPT !.pc = "closing"] EXCEPT !.seen = 0]) /\ job[c].pc = "class"
      BY <1>4 DEF Close, Post, At
    <2> QED
      BY <1>3, <2>1
  <1>5. CASE ConvergeReceipts(c)
    <2>1. Become(c, [[job[c] EXCEPT !.pc = "merging"] EXCEPT !.seen = 0]) /\ job[c].cmd = "record"
      BY <1>5 DEF ConvergeReceipts, PostConvergence, Post
    <2> QED
      BY <1>3, <2>1
  <1>6. CASE ConvergePosted(c)
    <2>1. Become(c, [[job[c] EXCEPT !.pc = "merged"] EXCEPT !.seen = 0]) /\ job[c].cmd = "record"
      BY <1>1, <1>6 DEF ConvergePosted, PostConvergence, Post, At, CommandSound, Recording
    <2> QED
      BY <1>3, <2>1
  <1>7. CASE PostReceipt(c)
    <2>1. Become(c, [[job[c] EXCEPT !.pc = "posted"] EXCEPT !.seen = 0]) /\ job[c].cmd = "record"
      BY <1>1, <1>7 DEF PostReceipt, Post, At, CommandSound, Recording
    <2> QED
      BY <1>3, <2>1
  <1> QED
    BY <1>2, <1>4, <1>5, <1>6, <1>7

(* Comments that name earlier comments leave a history well formed.        *)
LEMMA WellFormedGrows ==
  ASSUME NEW h, WellFormed(h), NEW x \in Comment,
         x.kind \in {"receipt", "resolution"} => x.challenge \in Challenges(h),
         x.kind = "closure" => x.canonical \in Challenges(h) /\ x.duplicate \in Challenges(h),
         x.kind = "convergence" => x.canonical \in Receipts(h)
  PROVE  WellFormed(Append(h, x))
  <1> DEFINE g == Append(h, x)
             e == Len(h) + 1
  <1>1. /\ Cut(h, g, Len(h)) /\ g \in Seq(Comment) /\ g[e] = x
        /\ Challenges(g) = Challenges(h) \cup {i \in {e} : x.kind = "challenge"}
        /\ Receipts(g) = Receipts(h) \cup {i \in {e} : x.kind = "receipt"}
        /\ Resolutions(g) = Resolutions(h) \cup {i \in {e} : x.kind = "resolution"}
        /\ Closures(g) = Closures(h) \cup {i \in {e} : x.kind = "closure"}
        /\ Convergences(g) = Convergences(h) \cup {i \in {e} : x.kind = "convergence"}
    BY AppendKinds
  <1>2. /\ Len(h) \in Nat
        /\ Challenges(h) \cup Receipts(h) \cup Resolutions(h) \cup Closures(h) \cup Convergences(h) \subseteq 1 .. Len(h)
    BY WellFormedFacts
  <1> HIDE DEF g
  <1>3. \A i \in 1 .. Len(h) : g[i] = h[i]
    BY <1>1 DEF Cut
  <1>4. ASSUME NEW s \in Receipts(g) \cup Resolutions(g) PROVE g[s].challenge \in Challenges(g) /\ g[s].challenge < s
    <2>1. CASE s \in Receipts(h) \cup Resolutions(h)
      <3>1. h[s].challenge \in Challenges(h) /\ h[s].challenge < s
        BY <2>1 DEF WellFormed
      <3> QED
        BY <1>1, <1>2, <1>3, <2>1, <3>1
    <2>2. CASE s \notin Receipts(h) \cup Resolutions(h)
      <3>1. s = e /\ x.kind \in {"receipt", "resolution"}
        BY <1>1, <1>4, <2>2
      <3>2. x.challenge \in Challenges(h) /\ x.challenge < e
        BY <1>2, <3>1
      <3> QED
        BY <1>1, <3>1, <3>2
    <2> QED
      BY <2>1, <2>2
  <1>5. ASSUME NEW k \in Closures(g) PROVE {g[k].canonical, g[k].duplicate} \subseteq Challenges(g) \cap 1 .. k - 1
    <2>1. CASE k \in Closures(h)
      <3>1. {h[k].canonical, h[k].duplicate} \subseteq Challenges(h) \cap 1 .. k - 1
        BY <2>1 DEF WellFormed
      <3> QED
        BY <1>1, <1>2, <1>3, <2>1, <3>1
    <2>2. CASE k \notin Closures(h)
      <3>1. k = e /\ x.kind = "closure"
        BY <1>1, <1>5, <2>2
      <3>2. {x.canonical, x.duplicate} \subseteq Challenges(h) \cap 1 .. e - 1
        BY <1>2, <3>1
      <3> QED
        BY <1>1, <3>1, <3>2
    <2> QED
      BY <2>1, <2>2
  <1>6. ASSUME NEW k \in Convergences(g) PROVE g[k].canonical \in Receipts(g) /\ g[k].canonical < k
    <2>1. CASE k \in Convergences(h)
      <3>1. h[k].canonical \in Receipts(h) /\ h[k].canonical < k
        BY <2>1 DEF WellFormed
      <3> QED
        BY <1>1, <1>2, <1>3, <2>1, <3>1
    <2>2. CASE k \notin Convergences(h)
      <3>1. k = e /\ x.kind = "convergence"
        BY <1>1, <1>6, <2>2
      <3>2. x.canonical \in Receipts(h) /\ x.canonical < e
        BY <1>2, <3>1
      <3> QED
        BY <1>1, <3>1, <3>2
    <2> QED
      BY <2>1, <2>2
  <1> QED
    BY <1>1, <1>4, <1>5, <1>6 DEF WellFormed, g

(* The date of the comment that is posted, and the comment.                *)
Date == comments'[Len(comments) + 1].at

ClosureOf(c) == Closure(c, Date, now)
ChallengeOf(c) == [kind |-> "challenge", view |-> job[c].from, at |-> Date, created |-> now]
ResolutionOf(c) == Resolution(c, Date, now)
ReceiptOf(c) ==
  [kind |-> "receipt", challenge |-> job[c].target, run |-> job[c].run, view |-> job[c].view,
   verdict |-> attested[job[c].run].verdict, round |-> Cardinality(Logical(History(c))) + 1,
   at |-> Date, created |-> now]

(* c posts comment x.                                                      *)
Posts(c, x) ==
  /\ x \in Comment /\ WellFormed(Append(comments, x))
  /\ comments' = Append(comments, x) /\ Len(comments) < MaxComments
  /\ raced' = (raced \/ (x.kind # "challenge" /\ Len(comments) # job[c].seen))
  /\ UNCHANGED <<world, results>>

LEMMA DateOf ==
  ASSUME TypeOK, NEW x, comments' = Append(comments, x)
  PROVE  Date = x.at
  <1>1. comments \in Seq(Comment \cup {x}) /\ x \in Comment \cup {x}
    BY DEF TypeOK
  <1>2. comments'[Len(comments) + 1] = x
    BY <1>1, AppendCut
  <1> QED
    BY <1>2 DEF Date

(* A clock that agrees with GitHub's gives dates that match its time.      *)
LEMMA ClockAgrees ==
  ASSUME ClocksAgree, now \in Nat, NEW t \in Clock
  PROVE  t \in Nat /\ t <= now + Tolerance /\ now <= t + Tolerance
  BY Bounds DEF ClocksAgree, Clock

LEMMA ClosedLate ==
  ASSUME NEW challenge \in EvaluationChallenge, NEW t \in Nat
  PROVE  /\ ClosedAt(challenge, t) \in {t, challenge.created, challenge.at}
         /\ t <= ClosedAt(challenge, t) /\ challenge.created <= ClosedAt(challenge, t)
         /\ challenge.at <= ClosedAt(challenge, t)
  <1> DEFINE S == {t, challenge.created, challenge.at}
  <1>1. challenge.created \in Nat /\ challenge.at \in Nat
    BY DEF EvaluationChallenge
  <1>2. S \subseteq 0 .. (t + challenge.created + challenge.at) /\ S # {} /\ t + challenge.created + challenge.at \in Nat
    BY <1>1
  <1>3. Max(S) \in S /\ \A y \in S : y <= Max(S)
    BY <1>2, MaxIn
  <1> QED
    BY <1>3 DEF ClosedAt

LEMMA ClosePosts ==
  ASSUME Sound, NEW c \in Controllers, Close(c)
  PROVE  /\ Posts(c, ClosureOf(c)) /\ ClosureOf(c) \in ChallengeClosure
         /\ \E t \in Clock : Date = ClosedAt(comments[Min(Open(c))], t)
         /\ comments[Min(Open(c))] \in EvaluationChallenge
         /\ job[c].class \in Classes(comments) /\ Min(Open(c)) \in Open(c) /\ Open(c) \subseteq Challenges(History(c))
  <1>1. TypeOK /\ HistorySound /\ WellFormed(comments) /\ job[c].class \in Classes(comments)
    BY DEF Sound, JobsSound, HistorySound, Close, At, CommandSound
  <1>2. /\ Challenges(History(c)) \subseteq Challenges(comments) /\ Challenges(comments) \subseteq Nat
    <2>1. Challenges(comments) \subseteq 1 .. Len(comments) /\ Len(comments) \in Nat
      BY <1>1, WellFormedFacts
    <2> QED
      BY <1>1, <2>1, JobTyped, CanonicalCut
  <1>3. Open(c) \subseteq Challenges(History(c))
    BY Counted DEF Open
  <1>4. Min(Open(c)) \in Open(c)
    BY <1>2, <1>3, MinIn DEF Close
  <1>5. Min(Open(c)) \in Challenges(comments) /\ job[c].class \in Challenges(comments)
    BY <1>1, <1>2, <1>3, <1>4, ChallengesTyped
  <1> DEFINE challenge == comments[Min(Open(c))]
  <1>6. PICK t \in Clock :
          Post(c, Closure(c, ClosedAt(challenge, t), now), [job[c] EXCEPT !.pc = "closing"])
    BY DEF Close
  <1>7. Date = ClosedAt(challenge, t)
    <2>1. /\ comments' = Append(comments, Closure(c, ClosedAt(challenge, t), now))
          /\ Closure(c, ClosedAt(challenge, t), now).at = ClosedAt(challenge, t)
      BY <1>6 DEF Post, Closure
    <2> QED
      BY <1>1, <2>1, DateOf
  <1>8. challenge \in EvaluationChallenge
    BY <1>1, <1>5, CommentTypes DEF TypeOK
  <1>9. Date \in Nat /\ now \in Nat
    <2>1. t \in Nat /\ challenge.created \in Nat /\ challenge.at \in Nat
      BY <1>8 DEF Clock, EvaluationChallenge
    <2> HIDE DEF challenge
    <2>2. ClosedAt(challenge, t) \in {t, challenge.created, challenge.at}
      BY <1>8, <2>1, ClosedLate
    <2> QED
      BY <1>1, <1>7, <2>1, <2>2, Bounds DEF TypeOK
  <1>10. ClosureOf(c) \in ChallengeClosure
    BY <1>2, <1>5, <1>9 DEF ClosureOf, Closure, ChallengeClosure
  <1>11. ClosureOf(c) \in Comment /\ ClosureOf(c).kind = "closure"
    BY <1>10 DEF Comment, ClosureOf, Closure
  <1>12. ClosureOf(c).canonical \in Challenges(comments) /\ ClosureOf(c).duplicate \in Challenges(comments)
    BY <1>5 DEF ClosureOf, Closure
  <1>13. WellFormed(Append(comments, ClosureOf(c)))
    BY <1>1, <1>11, <1>12, WellFormedGrows
  <1>14. Posts(c, ClosureOf(c))
    <2>1. Post(c, ClosureOf(c), [job[c] EXCEPT !.pc = "closing"])
      BY <1>6, <1>7 DEF ClosureOf
    <2> QED
      BY <1>11, <1>13, <2>1 DEF Posts, Post
  <1> QED
    BY <1>1, <1>3, <1>4, <1>7, <1>8, <1>10, <1>14

LEMMA ChallengePosts ==
  ASSUME Sound, NEW c \in Controllers, PostChallenge(c)
  PROVE  Posts(c, ChallengeOf(c)) /\ ChallengeOf(c) \in EvaluationChallenge /\ Date \in Clock
  <1>1. TypeOK /\ HistorySound /\ WellFormed(comments) /\ job[c] \in Command(Len(comments)) /\ now \in Nat
    BY JobTyped, Bounds DEF Sound, HistorySound, TypeOK
  <1> DEFINE next == [job[c] EXCEPT !.pc = "asked", !.target = Len(comments) + 1]
             dated(t) == [kind |-> "challenge", view |-> job[c].from, at |-> t, created |-> now]
  <1>2. PICK t \in Clock : Post(c, dated(t), next)
    BY DEF PostChallenge
  <1>3. Date = t
    <2>1. comments' = Append(comments, dated(t)) /\ dated(t).at = t
      BY <1>2 DEF Post
    <2> HIDE DEF dated
    <2> QED
      BY <1>1, <2>1, DateOf
  <1>4. ChallengeOf(c) \in EvaluationChallenge
    BY <1>1, <1>3 DEF ChallengeOf, EvaluationChallenge, Command, Clock
  <1>5. ChallengeOf(c) \in Comment /\ ChallengeOf(c).kind = "challenge"
    BY <1>4 DEF Comment, ChallengeOf
  <1>6. WellFormed(Append(comments, ChallengeOf(c)))
    BY <1>1, <1>5, WellFormedGrows
  <1>7. Posts(c, ChallengeOf(c))
    <2>1. Post(c, ChallengeOf(c), next)
      BY <1>2, <1>3 DEF ChallengeOf
    <2> QED
      BY <1>5, <1>6, <2>1 DEF Posts, Post
  <1> QED
    BY <1>3, <1>4, <1>7

LEMMA ReceiptPosts ==
  ASSUME Sound, NEW c \in Controllers, PostReceipt(c)
  PROVE  /\ Posts(c, ReceiptOf(c)) /\ ReceiptOf(c) \in EvaluationReceipt /\ job[c].pc = "record"
         /\ job[c].cmd = "record" /\ job[c].run \in Runs /\ attested[job[c].run] # Nothing
         /\ job[c].target = attested[job[c].run].challenge
         /\ job[c].target \in issued /\ job[c].target \in Challenges(comments) /\ job[c].target <= job[c].seen
         /\ Date \in Clock
  <1>1. TypeOK /\ HistorySound /\ WellFormed(comments) /\ CommandSound(job[c]) /\ now \in Nat /\ job[c].pc = "record"
    BY Bounds DEF Sound, HistorySound, JobsSound, TypeOK, PostReceipt, At
  <1>2. job[c] \in Command(Len(comments)) /\ Logical(History(c)) \subseteq Receipts(History(c)) /\ WellFormed(History(c))
    BY <1>1, JobTyped, Counted
  <1>3. /\ job[c].run \in Runs /\ attested[job[c].run] # Nothing /\ job[c].cmd = "record"
        /\ job[c].target = attested[job[c].run].challenge /\ job[c].target <= job[c].seen
    BY <1>1 DEF CommandSound, Recording, Knows, Waiting
  <1>4. job[c].target \in issued /\ job[c].target \in Challenges(comments) /\ attested[job[c].run].verdict \in {"pass", "fail"}
    BY <1>1, <1>3, ChallengesTyped
  <1> DEFINE next == [job[c] EXCEPT !.pc = "posted"]
             dated(t) == [kind |-> "receipt", challenge |-> job[c].target, run |-> job[c].run, view |-> job[c].view,
                          verdict |-> attested[job[c].run].verdict,
                          round |-> Cardinality(Logical(History(c))) + 1, at |-> t, created |-> now]
  <1>5. PICK t \in Clock : Post(c, dated(t), next)
    BY DEF PostReceipt
  <1>6. Date = t
    <2>1. comments' = Append(comments, dated(t)) /\ dated(t).at = t
      BY <1>5 DEF Post
    <2> HIDE DEF dated
    <2> QED
      BY <1>1, <2>1, DateOf
  <1>7. ReceiptOf(c) \in EvaluationReceipt
    <2>1. Cardinality(Logical(History(c))) + 1 \in Nat
      BY <1>2, CountsTyped
    <2>2. job[c].target \in Nat /\ job[c].view \in Views
      BY <1>2 DEF Command
    <2>3. Date \in Nat
      BY <1>6 DEF Clock
    <2> QED
      BY <1>1, <1>3, <1>4, <2>1, <2>2, <2>3 DEF ReceiptOf, EvaluationReceipt
  <1>8. ReceiptOf(c) \in Comment /\ ReceiptOf(c).kind = "receipt" /\ ReceiptOf(c).challenge \in Challenges(comments)
    BY <1>4, <1>7 DEF Comment, ReceiptOf
  <1>9. WellFormed(Append(comments, ReceiptOf(c)))
    BY <1>1, <1>8, WellFormedGrows
  <1>10. Posts(c, ReceiptOf(c))
    <2>1. Post(c, ReceiptOf(c), next)
      BY <1>5, <1>6 DEF ReceiptOf
    <2> QED
      BY <1>8, <1>9, <2>1 DEF Posts, Post
  <1> QED
    BY <1>1, <1>3, <1>4, <1>7, <1>10, <1>6

LEMMA ResolutionPosts ==
  ASSUME Sound, NEW c \in Controllers, PostResolution(c)
  PROVE  /\ Posts(c, ResolutionOf(c)) /\ ResolutionOf(c) \in ChallengeResolution /\ job[c].pc = "resolve"
         /\ job[c].target \in Challenges(comments)
         /\ Date \in Clock /\ Strict(Append(History(c), Resolution(c, Date, Date)))
         /\ Resolution(c, Date, Date) \in Comment
  <1>1. /\ TypeOK /\ HistorySound /\ WellFormed(comments) /\ CommandSound(job[c]) /\ PlaceSound(job[c])
        /\ now \in Nat /\ job[c].pc = "resolve"
    BY Bounds DEF Sound, HistorySound, JobsSound, TypeOK, PostResolution, At
  <1>2. job[c] \in Command(Len(comments)) /\ job[c].cmd = "resolve"
    BY <1>1, JobTyped DEF PlaceSound
  <1>3. job[c].target \in Challenges(comments)
    BY <1>1, <1>2 DEF CommandSound
  <1>4. PICK t \in Clock : Strict(Append(History(c), Resolution(c, t, t))) /\ Post(c, Resolution(c, t, now), Idle)
    BY DEF PostResolution
  <1>5. Date = t
    <2>1. comments' = Append(comments, Resolution(c, t, now)) /\ Resolution(c, t, now).at = t
      BY <1>4 DEF Post, Resolution
    <2> QED
      BY <1>1, <2>1, DateOf
  <1>6. ResolutionOf(c) \in ChallengeResolution /\ Resolution(c, Date, Date) \in ChallengeResolution
    BY <1>1, <1>2, <1>5 DEF ResolutionOf, Resolution, ChallengeResolution, Command, Clock
  <1>7. /\ ResolutionOf(c) \in Comment /\ Resolution(c, Date, Date) \in Comment
        /\ ResolutionOf(c).kind = "resolution" /\ ResolutionOf(c).challenge \in Challenges(comments)
    BY <1>3, <1>6 DEF Comment, ResolutionOf, Resolution
  <1>8. WellFormed(Append(comments, ResolutionOf(c)))
    BY <1>1, <1>7, WellFormedGrows
  <1>9. Posts(c, ResolutionOf(c))
    <2>1. Post(c, ResolutionOf(c), Idle)
      BY <1>4, <1>5 DEF ResolutionOf
    <2> QED
      BY <1>7, <1>8, <2>1 DEF Posts, Post
  <1> QED
    BY <1>1, <1>3, <1>4, <1>5, <1>6, <1>7, <1>9

LEMMA ConvergencePosts ==
  ASSUME Sound, NEW c \in Controllers, ConvergeReceipts(c) \/ ConvergePosted(c)
  PROVE  /\ Posts(c, Convergence(History(c))) /\ Convergence(History(c)) \in ReceiptConvergence
         /\ Convergence(History(c)).canonical \in Logical(History(c))
         /\ Unconverged(History(c)) # {} /\ Strict(Append(History(c), Convergence(History(c))))
  <1> DEFINE h == History(c)
             x == Convergence(h)
             firsts == Logical(h) \cap UNION {Group(h, r) : r \in Unconverged(h)}
  <1>1. TypeOK /\ HistorySound /\ WellFormed(comments) /\ Unconverged(h) # {} /\ Strict(Append(h, x))
    BY DEF Sound, HistorySound, ConvergeReceipts, ConvergePosted, PostConvergence
  <1>2. WellFormed(h) /\ Cut(h, comments, job[c].seen) /\ Cut(h, h, Len(h))
    BY <1>1, JobTyped, WellFormedFacts
  <1>3. Receipts(h) \subseteq Receipts(comments) /\ Receipts(comments) \subseteq Nat
    <2>1. Receipts(comments) \subseteq 1 .. Len(comments) /\ Len(comments) \in Nat
      BY <1>1, WellFormedFacts
    <2> QED
      BY <1>2, <2>1, KindsCut
  <1>4. x.kind = "convergence" /\ x.canonical = Min(firsts) /\ x.closed = Group(h, Min(firsts)) \ {Min(firsts)}
    BY DEF Convergence
  <1>5. Min(firsts) \in Logical(h)
    <2>1. PICK r \in Unconverged(h) : r \in Receipts(h)
      BY <1>1, Counted
    <2>2. Min(Group(h, r)) \in Logical(h) \cap Group(h, r)
      BY <1>2, <2>1, FirstCopy
    <2>3. firsts # {} /\ firsts \subseteq Logical(h) /\ Logical(h) \subseteq Nat
      BY <1>3, <2>1, <2>2, Counted
    <2> HIDE DEF firsts
    <2> QED
      BY <2>3, MinIn
  <1>6. Min(firsts) \in Receipts(comments) /\ Min(firsts) \in Nat /\ x.closed \subseteq Nat
    BY <1>3, <1>4, <1>5, Counted
  <1>7. x \in ReceiptConvergence
    <2>1. x = [kind |-> "convergence", canonical |-> x.canonical, closed |-> x.closed]
      BY DEF Convergence
    <2> HIDE DEF x, firsts
    <2> QED
      BY <1>4, <1>6, <2>1 DEF ReceiptConvergence
  <1>8. x \in Comment /\ x.canonical \in Receipts(comments)
    BY <1>4, <1>6, <1>7 DEF Comment
  <1>9. WellFormed(Append(comments, x))
    <2> HIDE DEF x
    <2> QED
      BY <1>1, <1>4, <1>8, WellFormedGrows
  <1>10. Posts(c, x)
    BY <1>8, <1>9 DEF Posts, ConvergeReceipts, ConvergePosted, PostConvergence, Post
  <1> QED
    BY <1>1, <1>4, <1>5, <1>7, <1>10

-----------------------------------------------------------------------------
(* What a command has established stands while others go on                *)

Grows ==
  /\ Cut(comments, comments', Len(comments)) /\ WellFormed(comments')
  /\ \A r \in Runs : attested[r] # Nothing => attested'[r] = attested[r]
  /\ now \in Nat /\ now' \in Nat /\ now <= now'

LEMMA CommandKept ==
  ASSUME TypeOK, HistorySound, Grows, NEW command \in Command(Len(comments)),
         CommandSound(command), PlaceSound(command)
  PROVE  command \in Command(Len(comments'))  /\ CommandSound(command)' /\ PlaceSound(command)'
  <1>1. /\ Len(comments) \in Nat /\ Len(comments') \in Nat /\ Len(comments) <= Len(comments')
        /\ \A i \in 1 .. Len(comments) : comments'[i] = comments[i]
    BY DEF Grows, Cut
  <1>2. command \in Command(Len(comments'))
    BY <1>1 DEF Command
  <1>3. Challenges(comments) \subseteq Challenges(comments') /\ Classes(comments) \subseteq Classes(comments')
    BY KindsCut, OutstandingCut DEF Grows
  <1>4. CommandSound(command)'
    BY <1>3 DEF CommandSound, Knows, Grows
  <1>5. Prefix(command.seen)' = Prefix(command.seen)
    <2>1. command.seen \in 0 .. Len(comments)
      BY DEF Command
    <2>2. /\ Cut(SubSeq(comments, 1, command.seen), comments, command.seen)
          /\ Cut(SubSeq(comments', 1, command.seen), comments', command.seen)
      <3>1. comments \in Seq(Comment) /\ comments' \in Seq(Comment)
        BY DEF TypeOK, Grows, WellFormed
      <3> QED
        BY <1>1, <2>1, <3>1, PrefixCut
    <2>3. SubSeq(comments', 1, command.seen) = SubSeq(comments, 1, command.seen)
      BY <1>1, <2>1
    <2> QED
      BY <2>3 DEF Prefix
  <1>6. command.cmd \in {"record", "resolve"} => command.target \in Challenges(comments)
    BY ChallengesTyped DEF CommandSound
  <1>7. ASSUME command.target \in Challenges(comments)
        PROVE  comments'[command.target] = comments[command.target]
    BY <1>1, <1>7, ChallengesTyped
  <1>8. command.pc = "record" => command.cmd = "record"
    BY DEF CommandSound, Recording
  <1>9. PlaceSound(command)'
    <2>1. command.pc \in {"record", "resolve"} => command.target \in Challenges(comments)
      BY <1>6, <1>8 DEF PlaceSound
    <2>2. command.pc \in {"record", "resolve"} => comments'[command.target] = comments[command.target]
      BY <1>7, <2>1
    <2> QED
      BY <1>5, <2>2 DEF PlaceSound
  <1> QED
    BY <1>2, <1>4, <1>9

(* A step of c, or of none.                                                *)
LEMMA JobsKept ==
  ASSUME Sound, Grows,
         \/ \E c \in Controllers, command \in Command(Len(comments')) :
              job' = [job EXCEPT ![c] = command] /\ CommandSound(command)' /\ PlaceSound(command)'
         \/ job' = job
  PROVE  job' \in [Controllers -> Command(Len(comments'))] /\ JobsSound'
  <1>1. job \in [Controllers -> Command(Len(comments))]
    BY DEF Sound, TypeOK
  <1>2. ASSUME NEW d \in Controllers, job'[d] = job[d]
        PROVE  job'[d] \in Command(Len(comments')) /\ CommandSound(job[d])' /\ PlaceSound(job[d])'
    <2>1. PICK command \in Command(Len(comments)) : command = job[d]
      BY <1>1, <1>2
    <2>2. CommandSound(command) /\ PlaceSound(command)
      BY <2>1 DEF Sound, JobsSound
    <2>3. command \in Command(Len(comments'))  /\ CommandSound(command)' /\ PlaceSound(command)'
      BY <2>2, CommandKept DEF Sound
    <2>4. job'[d] = command
      BY <1>2, <2>1
    <2>5. CommandSound(job[d])' /\ PlaceSound(job[d])'
      BY <2>3, <2>4
    <2> QED
      BY <2>3, <2>4, <2>5
  <1>3. ASSUME NEW c \in Controllers, NEW command \in Command(Len(comments')),
               job' = [job EXCEPT ![c] = command], CommandSound(command)', PlaceSound(command)'
        PROVE  job' \in [Controllers -> Command(Len(comments'))] /\ JobsSound'
    <2>1. ASSUME NEW d \in Controllers
          PROVE  job'[d] \in Command(Len(comments')) /\ CommandSound(job[d])' /\ PlaceSound(job[d])'
      <3>1. CASE d = c
        <4>1. job'[d] = command
          BY <1>1, <1>3, <3>1
        <4> QED
          BY <1>3, <4>1
      <3>2. CASE d # c
        <4>1. job'[d] = job[d]
          BY <1>1, <1>3, <3>2
        <4> QED
          BY <1>2, <4>1
      <3> QED
        BY <3>1, <3>2
    <2>2. job' = [d \in Controllers |-> job'[d]]
      BY <1>1, <1>3
    <2> QED
      BY <2>1, <2>2 DEF JobsSound
  <1>4. CASE job' = job
    BY <1>1, <1>2, <1>4 DEF JobsSound
  <1> QED
    BY <1>3, <1>4

Quiet(c) ==
  \/ StartChallenge(c) \/ StartResolve(c) \/ \E r \in Runs : StartRecord(c, r)
  \/ Retry(c) \/ VerifyChallenge(c) \/ ProveFresh(c) \/ FindRecorded(c) \/ Validate(c)
  \/ VerifyReceipt(c) \/ VerifyConvergence(c) \/ PrepareResolution(c)
  \/ Begin(c) \/ VerifyClosure(c) \/ NextClass(c)
  \/ Output(c) \/ Report(c) \/ HandOver(c) \/ Stop(c)

(* A step that posts nothing may print a challenge or report a recording.  *)
LEMMA QuietSteps ==
  ASSUME Sound, NEW c \in Controllers, Quiet(c)
  PROVE  /\ \E command : Becomes(c, command)
         /\ UNCHANGED <<world, comments, raced>>
         /\ \/ issued' = issued /\ ~ Output(c)
            \/ Output(c) /\ issued' = issued \cup {Canonical(comments)[job[c].target]}
                  /\ Canonical(comments)[job[c].target] \in Outstanding(comments)
         /\ \/ reported' = reported
            \/ reported' = reported \cup {job[c].run} /\ job[c].pc \in {"recorded", "verified"}
         /\ needsHuman' \in BOOLEAN
  <1>1. TypeOK /\ HistorySound
    BY DEF Sound
  <1>2. \E command : Becomes(c, command)
    <2>1. CASE Output(c) \/ Report(c) \/ HandOver(c) \/ Stop(c)
      <3>1. Become(c, Idle)
        BY <2>1 DEF Output, Report, HandOver, Stop
      <3> QED
        BY <1>1, <3>1, Stopping
    <2> QED
      BY <2>1, BeginMoves, ConvergingMoves, StartingMoves, CompletingMoves, ValidatingMoves, VerifyingMoves DEF Quiet
  <1>3. needsHuman \in BOOLEAN
    BY <1>1 DEF TypeOK
  <1>4. CASE Output(c)
    BY <1>2, <1>3, <1>4 DEF Output
  <1>5. CASE Report(c) \/ HandOver(c)
    <2>1. /\ UNCHANGED <<world, comments, raced, issued>> /\ job[c].pc \in {"recorded", "verified"}
          /\ reported' = reported \cup {job[c].run} /\ needsHuman' \in {needsHuman, TRUE}
      BY <1>5 DEF Report, HandOver, At
    <2>2. ~ Output(c)
      BY <2>1 DEF Output, At
    <2> QED
      BY <1>2, <1>3, <2>1, <2>2
  <1>6. CASE Reads /\ ~ Output(c)
    BY <1>2, <1>3, <1>6 DEF Reads, results
  <1>7. CASE ~ (Output(c) \/ Report(c) \/ HandOver(c))
    <2>1. Reads
      BY <1>7 DEF Quiet, StartChallenge, StartResolve, StartRecord, Retry, VerifyChallenge, ProveFresh, FindRecorded,
                  Validate, VerifyReceipt, VerifyConvergence, PrepareResolution, Begin, VerifyClosure, NextClass, Stop
    <2> QED
      BY <1>6, <1>7, <2>1
  <1> QED
    BY <1>4, <1>5, <1>7

Posting(c) ==
  Close(c) \/ PostChallenge(c) \/ PostReceipt(c) \/ PostResolution(c) \/ ConvergeReceipts(c) \/ ConvergePosted(c)

LEMMA PostGrows ==
  ASSUME Sound, NEW c, NEW x, Posts(c, x)
  PROVE  /\ Grows /\ Len(comments') = Len(comments) + 1 /\ comments'[Len(comments) + 1] = x
         /\ Len(comments) \in Nat /\ \A i \in 1 .. Len(comments) : comments'[i] = comments[i]
  <1>1. TypeOK /\ now \in Nat /\ x \in Comment /\ comments \in Seq(Comment)
    BY Bounds DEF Sound, TypeOK, Posts
  <1>2. /\ Cut(comments, Append(comments, x), Len(comments))
        /\ Len(Append(comments, x)) = Len(comments) + 1 /\ Append(comments, x)[Len(comments) + 1] = x
    BY <1>1, AppendCut
  <1>3. Grows
    BY <1>1, <1>2 DEF Posts, Grows, world
  <1>4. Len(comments) \in Nat /\ \A i \in 1 .. Len(comments) : comments'[i] = comments[i]
    BY <1>3 DEF Grows, Cut
  <1> QED
    BY <1>2, <1>3, <1>4 DEF Posts

LEMMA PostSteps ==
  ASSUME Sound, NEW c \in Controllers, Posting(c)
  PROVE  /\ \E x : Posts(c, x) /\ (x.kind = "challenge" => x.created = now)
         /\ \E command \in Command(Len(comments')) :
              /\ job' = [job EXCEPT ![c] = command] /\ CommandSound(command)' /\ PlaceSound(command)'
              /\ Remembers(c, command)
  <1>1. \E x : Posts(c, x) /\ (x.kind = "challenge" => x.created = now)
    <2>1. /\ ClosureOf(c).kind = "closure" /\ ReceiptOf(c).kind = "receipt" /\ ResolutionOf(c).kind = "resolution"
          /\ Convergence(History(c)).kind = "convergence" /\ ChallengeOf(c).created = now
      BY DEF ClosureOf, Closure, ReceiptOf, ResolutionOf, Resolution, Convergence, ChallengeOf
    <2> QED
      BY <2>1, ClosePosts, ChallengePosts, ReceiptPosts, ResolutionPosts, ConvergencePosts, Zenon DEF Posting
  <1>2. PICK x : Posts(c, x)
    BY <1>1
  <1>3. Grows /\ Len(comments') = Len(comments) + 1 /\ comments'[Len(comments) + 1] = x /\ Len(comments) \in Nat
    BY <1>2, PostGrows
  <1>4. CASE ~ PostChallenge(c)
    <2>1. PICK command : Becomes(c, command)
      BY <1>4, PostingMoves DEF Posting
    <2>2. command \in Command(Len(comments')) /\ CommandSound(command)' /\ PlaceSound(command)'
      BY <1>3, <2>1, CommandKept DEF Becomes, Sound
    <2> QED
      BY <1>1, <2>1, <2>2 DEF Becomes
  <1>5. CASE PostChallenge(c)
    <2> DEFINE i == Len(comments) + 1
    <2>1. job' = [job EXCEPT ![c] = [[job[c] EXCEPT !.pc = "asked", !.target = i] EXCEPT !.seen = 0]] /\ job[c].pc = "ask"
      BY <1>5 DEF PostChallenge, Post, Become, At
    <2>2. job[c] \in Command(Len(comments)) /\ job[c].cmd = "challenge"
      BY <2>1, JobTyped DEF Sound, JobsSound, CommandSound
    <2>3. [[job[c] EXCEPT !.pc = "asked", !.target = i] EXCEPT !.seen = 0]
            \in [pc : {"asked"}, cmd : {job[c].cmd}, seen : {0}, view : Views, from : Views, run : {job[c].run},
                target : {i}, class : 0 .. Len(comments), bound : BOOLEAN, merged : BOOLEAN]
      <3>1. i \in Nat
        BY <1>3
      <3>2. Len(comments) \in Nat
        BY <1>3
      <3>3. job[c] \in Command(Len(comments))
        BY <2>2
      <3> DEFINE last == Len(comments)
                 from == job[c]
      <3>4. last \in Nat /\ from \in Command(last)
        BY <3>2, <3>3
      <3> HIDE DEF i, last, from
      <3>5. [[from EXCEPT !.pc = "asked", !.target = i] EXCEPT !.seen = 0]
              \in [pc : {"asked"}, cmd : {from.cmd}, seen : {0}, view : Views, from : Views, run : {from.run},
                  target : {i}, class : 0 .. last, bound : BOOLEAN, merged : BOOLEAN]
        BY <3>1, <3>4 DEF Command
      <3> QED
        BY <3>5 DEF last, from
    <2>4. PICK command \in Command(i) :
            /\ job' = [job EXCEPT ![c] = command]
            /\ command.pc = "asked" /\ command.target = i /\ command.cmd = "challenge"
      <3>1. PICK command : command = [[job[c] EXCEPT !.pc = "asked", !.target = i] EXCEPT !.seen = 0]
        OBVIOUS
      <3>2. command \in [pc : {"asked"}, cmd : {job[c].cmd}, seen : {0}, view : Views, from : Views, run : {job[c].run},
                         target : {i}, class : 0 .. Len(comments), bound : BOOLEAN, merged : BOOLEAN]
        BY <2>3, <3>1
      <3>3. job[c].run \in Runs \cup {"none"}
        BY <2>2 DEF Command
      <3>4. command \in Command(i)
        BY <1>3, <2>2, <3>2, <3>3 DEF Command, Places
      <3> QED
        BY <2>1, <2>2, <3>1, <3>2, <3>4
    <2>5. i \in Challenges(comments')
      <3>1. comments' \in Seq(Comment) /\ x.kind = "challenge"
        <4>1. comments' = Append(comments, ChallengeOf(c)) /\ ChallengeOf(c).kind = "challenge"
          BY <1>5, ChallengePosts DEF Posts, ChallengeOf
        <4>2. comments'[i] = ChallengeOf(c)
          BY <1>5, ChallengePosts, PostGrows
        <4> QED
          BY <1>3, <4>1, <4>2 DEF Grows, WellFormed
      <3> QED
        BY <1>3, <3>1 DEF Challenges, Of
    <2>6. CommandSound(command)'
      BY <2>4, <2>5 DEF CommandSound, Recording
    <2>7. PlaceSound(command)'
      BY <2>4 DEF PlaceSound
    <2>8. command \in Command(Len(comments'))
      BY <1>3, <2>4
    <2>9. Remembers(c, command)
      BY <2>4 DEF Remembers
    <2> QED
      BY <1>1, <2>4, <2>6, <2>7, <2>8, <2>9
  <1> QED
    BY <1>4, <1>5

Examining == \E r \in Runs, i \in issued, verdict \in {"pass", "fail"} : Examine(r, i, verdict)
Outside == (\E v \in Views : Edit(v)) \/ Tick \/ Examining \/ UNCHANGED vars

LEMMA StepCases ==
  ASSUME [Next]_vars
  PROVE  (\E c \in Controllers : Quiet(c) \/ Posting(c)) \/ Outside
  BY DEF Next, Controller, Quiet, Posting, Outside, Examining

LEMMA GrowsStep ==
  ASSUME Sound, [Next]_vars
  PROVE  Grows
  <1>1. TypeOK /\ HistorySound /\ now \in Nat
    BY Bounds DEF Sound, TypeOK
  <1>2. ASSUME comments' = comments, now' \in {now, now + 1},
               \A r \in Runs : attested[r] # Nothing => attested'[r] = attested[r]
        PROVE  Grows
    <2>1. WellFormed(comments) /\ Cut(comments, comments, Len(comments))
      BY <1>1, WholeCut DEF HistorySound, TypeOK
    <2>2. WellFormed(comments') /\ Cut(comments, comments', Len(comments))
      BY <1>2, <2>1
    <2> QED
      BY <1>1, <1>2, <2>2 DEF Grows
  <1>3. CASE \E c \in Controllers : Quiet(c)
    <2>1. UNCHANGED <<world, comments, raced>>
      BY <1>3, QuietSteps
    <2> QED
      BY <1>2, <2>1 DEF world
  <1>4. CASE \E c \in Controllers : Posting(c)
    BY <1>4, PostSteps, PostGrows
  <1>5. CASE Outside
    <2>1. CASE Examining
      <3>1. PICK r \in Runs, i \in issued, verdict \in {"pass", "fail"} : Examine(r, i, verdict)
        BY <2>1 DEF Examining
      <3>2. attested \in [Runs -> {Nothing} \cup [challenge : issued, verdict : {"pass", "fail"}]]
        BY <1>1 DEF TypeOK
      <3>3. \A q \in Runs : attested[q] # Nothing => attested'[q] = attested[q]
        BY <3>1, <3>2 DEF Examine
      <3> QED
        BY <1>2, <3>1, <3>3 DEF Examine
    <2>2. CASE ~ Examining
      BY <1>2, <1>5, <2>2 DEF Outside, Edit, Tick, vars, world
    <2> QED
      BY <2>1, <2>2
  <1> QED
    BY <1>3, <1>4, <1>5, StepCases

LEMMA SoundStep ==
  ASSUME Sound, [Next]_vars
  PROVE  Sound'
  <1>1. TypeOK /\ HistorySound /\ JobsSound /\ Grows
    BY GrowsStep DEF Sound
  <1>2. ASSUME job' \in [Controllers -> Command(Len(comments'))], JobsSound',
               view' \in Views, now' \in 0 .. Horizon, edits' \in 0 .. MaxEdits,
               Len(comments') <= MaxComments, issued' \subseteq Challenges(comments'),
               attested' \in [Runs -> {Nothing} \cup [challenge : issued', verdict : {"pass", "fail"}]],
               reported' \subseteq {r \in Runs : attested'[r] # Nothing},
               needsHuman' \in BOOLEAN, raced' \in BOOLEAN,
               \A i \in Challenges(comments') : comments'[i].created <= now'
        PROVE  Sound'
    <2>1. comments' \in Seq(Comment) /\ WellFormed(comments')
      BY <1>1 DEF Grows, WellFormed
    <2>2. TypeOK'
      BY <1>2, <2>1 DEF TypeOK
    <2>3. HistorySound'
      BY <1>2, <2>1 DEF HistorySound
    <2> QED
      BY <1>2, <2>2, <2>3 DEF Sound
  <1>3. \A i \in Challenges(comments) : comments[i].created \in Nat /\ comments[i].created <= now
    BY <1>1, CommentTypes DEF TypeOK, HistorySound, EvaluationChallenge
  <1>4. CASE \E c \in Controllers : Quiet(c)
    <2>1. PICK c \in Controllers : Quiet(c)
      BY <1>4
    <2>2. PICK command : Becomes(c, command)
      BY <2>1, QuietSteps
    <2>3. UNCHANGED <<world, comments, raced>>
      BY <2>1, QuietSteps
    <2>4. command \in Command(Len(comments')) /\ CommandSound(command)' /\ PlaceSound(command)'
      BY <1>1, <2>2, CommandKept DEF Becomes
    <2>5. job' \in [Controllers -> Command(Len(comments'))] /\ JobsSound'
      BY <1>1, <2>2, <2>4, JobsKept DEF Becomes
    <2>6. issued \subseteq issued' /\ issued' \subseteq Challenges(comments')
      <3>1. Outstanding(comments) \subseteq Challenges(comments)
        BY <1>1, WellFormedFacts, ClassFacts DEF HistorySound
      <3>2. issued \subseteq Challenges(comments) /\ comments' = comments
        BY <1>1, <2>3 DEF TypeOK
      <3>3. \/ issued' = issued
            \/ issued' = issued \cup {Canonical(comments)[job[c].target]}
                 /\ Canonical(comments)[job[c].target] \in Outstanding(comments)
        BY <2>1, QuietSteps
      <3>4. issued \subseteq issued' /\ issued' \subseteq Challenges(comments)
        BY <3>1, <3>2, <3>3
      <3> QED
        BY <3>2, <3>4
    <2>7. reported' \subseteq {r \in Runs : attested'[r] # Nothing}
      <3>1. \/ reported' = reported
            \/ reported' = reported \cup {job[c].run} /\ job[c].pc \in {"recorded", "verified"}
        BY <2>1, QuietSteps
      <3>2. job[c].pc \in {"recorded", "verified"} => job[c].run \in Runs /\ attested[job[c].run] # Nothing
        BY <1>1 DEF JobsSound, CommandSound, Recording
      <3> QED
        BY <1>1, <2>3, <3>1, <3>2 DEF TypeOK, world
    <2>8. needsHuman' \in BOOLEAN
      BY <2>1, QuietSteps
    <2>9. attested' \in [Runs -> {Nothing} \cup [challenge : issued', verdict : {"pass", "fail"}]]
      BY <1>1, <2>3, <2>6 DEF TypeOK, world
    <2>10. \A i \in Challenges(comments') : comments'[i].created <= now'
      BY <1>3, <2>3 DEF world
    <2>11. view' \in Views /\ now' \in 0 .. Horizon /\ edits' \in 0 .. MaxEdits /\ Len(comments') <= MaxComments
           /\ raced' \in BOOLEAN
      BY <1>1, <2>3 DEF TypeOK, world
    <2> QED
      BY <1>2, <2>5, <2>6, <2>7, <2>8, <2>9, <2>10, <2>11
  <1>5. CASE \E c \in Controllers : Posting(c)
    <2>1. PICK c \in Controllers : Posting(c)
      BY <1>5
    <2>2. PICK x : Posts(c, x) /\ (x.kind = "challenge" => x.created = now)
      BY <2>1, PostSteps
    <2>3. job' \in [Controllers -> Command(Len(comments'))] /\ JobsSound'
      BY <1>1, <2>1, PostSteps, JobsKept
    <2>4. /\ Len(comments') = Len(comments) + 1 /\ comments'[Len(comments) + 1] = x
          /\ Len(comments) \in Nat /\ \A i \in 1 .. Len(comments) : comments'[i] = comments[i]
      BY <2>2, PostGrows
    <2>5. UNCHANGED <<world, results>> /\ raced' = (raced \/ (x.kind # "challenge" /\ Len(comments) # job[c].seen))
          /\ Len(comments) < MaxComments
      BY <2>2 DEF Posts
    <2>6. Challenges(comments) = Challenges(comments') \cap 1 .. Len(comments) /\ Challenges(comments') \subseteq 1 .. Len(comments')
      <3>1. Cut(comments, comments', Len(comments)) /\ WellFormed(comments')
        BY <1>1 DEF Grows
      <3> QED
        BY <3>1, KindsCut, WellFormedFacts
    <2>7. \A i \in Challenges(comments') : comments'[i].created <= now'
      <3>1. now' = now /\ now \in Nat
        BY <1>1, <2>5 DEF world, Grows
      <3>2. ASSUME NEW i \in Challenges(comments') PROVE comments'[i].created <= now
        <4>1. CASE i \in Challenges(comments)
          BY <1>3, <2>4, <2>6, <4>1
        <4>2. CASE i \notin Challenges(comments)
          <5>1. i = Len(comments) + 1
            BY <2>4, <2>6, <3>2, <4>2
          <5>2. x.kind = "challenge"
            BY <2>4, <3>2, <5>1 DEF Challenges, Of
          <5> QED
            BY <2>2, <2>4, <3>1, <5>1, <5>2
        <4> QED
          BY <4>1, <4>2
      <3> QED
        BY <3>1, <3>2
    <2>8. raced' \in BOOLEAN
      BY <1>1, <2>5 DEF TypeOK
    <2>9. /\ view' \in Views /\ now' \in 0 .. Horizon /\ edits' \in 0 .. MaxEdits /\ needsHuman' \in BOOLEAN
          /\ attested' \in [Runs -> {Nothing} \cup [challenge : issued', verdict : {"pass", "fail"}]]
          /\ reported' \subseteq {r \in Runs : attested'[r] # Nothing}
      BY <1>1, <2>5 DEF TypeOK, world, results
    <2>10. issued' \subseteq Challenges(comments')
      BY <1>1, <2>5, <2>6 DEF TypeOK, results
    <2>11. Len(comments') <= MaxComments
      BY <2>4, <2>5, Bounds
    <2> QED
      BY <1>2, <2>3, <2>7, <2>8, <2>9, <2>10, <2>11
  <1>6. CASE Outside
    <2>1. /\ UNCHANGED <<comments, job, results, raced>> /\ view' \in Views /\ now' \in 0 .. Horizon /\ now <= now'
          /\ edits' \in 0 .. MaxEdits
      BY <1>1, <1>6, Bounds DEF Outside, Edit, Tick, Examining, Examine, vars, world, results, TypeOK
    <2>2. job' \in [Controllers -> Command(Len(comments'))] /\ JobsSound'
      BY <1>1, <2>1, JobsKept
    <2>3. attested' \in [Runs -> {Nothing} \cup [challenge : issued', verdict : {"pass", "fail"}]]
      <3>1. attested \in [Runs -> {Nothing} \cup [challenge : issued, verdict : {"pass", "fail"}]] /\ issued' = issued
        BY <1>1, <2>1 DEF TypeOK, results
      <3>2. CASE Examining
        <4>1. PICK r \in Runs, i \in issued, verdict \in {"pass", "fail"} : Examine(r, i, verdict)
          BY <3>2 DEF Examining
        <4> QED
          BY <3>1, <4>1 DEF Examine
      <3>3. CASE ~ Examining
        <4>1. attested' = attested
          BY <1>6, <3>3 DEF Outside, Edit, Tick, vars, world
        <4> QED
          BY <3>1, <4>1
      <3> QED
        BY <3>2, <3>3
    <2>4. reported' \subseteq {r \in Runs : attested'[r] # Nothing}
      BY <1>1, <2>1 DEF TypeOK, Grows, results
    <2>5. \A i \in Challenges(comments') : comments'[i].created <= now'
      <3>1. now \in Nat /\ now' \in Nat /\ comments' = comments
        BY <1>1, <2>1 DEF Grows
      <3>2. \A i \in Challenges(comments) : comments[i].created <= now'
        BY <1>3, <2>1, <3>1
      <3> QED
        BY <3>1, <3>2
    <2>6. issued' \subseteq Challenges(comments') /\ Len(comments') <= MaxComments /\ needsHuman' \in BOOLEAN /\ raced' \in BOOLEAN
      BY <1>1, <2>1 DEF TypeOK, results
    <2> QED
      BY <1>2, <2>1, <2>2, <2>3, <2>4, <2>5, <2>6
  <1> QED
    BY <1>4, <1>5, <1>6, StepCases

-----------------------------------------------------------------------------
(* Receipts and reports                                                    *)

LEMMA GrowsFacts ==
  ASSUME TypeOK, Grows
  PROVE  /\ Len(comments) \in Nat /\ Len(comments') \in Nat /\ Len(comments) <= Len(comments')
         /\ \A i \in 1 .. Len(comments) : comments'[i] = comments[i]
         /\ Challenges(comments) = Challenges(comments') \cap 1 .. Len(comments)
         /\ Receipts(comments) = Receipts(comments') \cap 1 .. Len(comments)
         /\ Challenges(comments') \cup Receipts(comments') \cup Resolutions(comments') \subseteq 1 .. Len(comments')
         /\ \A n \in 0 .. Len(comments) : Prefix(n)' = Prefix(n)
  <1>1. /\ Len(comments) \in Nat /\ Len(comments') \in Nat /\ Len(comments) <= Len(comments')
        /\ \A i \in 1 .. Len(comments) : comments'[i] = comments[i]
    BY DEF Grows, Cut
  <1>2. /\ Challenges(comments) = Challenges(comments') \cap 1 .. Len(comments)
        /\ Receipts(comments) = Receipts(comments') \cap 1 .. Len(comments)
        /\ Challenges(comments') \cup Receipts(comments') \cup Resolutions(comments') \subseteq 1 .. Len(comments')
    BY KindsCut, WellFormedFacts DEF Grows
  <1>3. ASSUME NEW n \in 0 .. Len(comments) PROVE Prefix(n)' = Prefix(n)
    <2>1. comments \in Seq(Comment) /\ comments' \in Seq(Comment)
      BY DEF TypeOK, Grows, WellFormed
    <2>2. SubSeq(comments', 1, n) = SubSeq(comments, 1, n)
      BY <1>1, <2>1
    <2> QED
      BY <2>2 DEF Prefix
  <1> QED
    BY <1>1, <1>2, <1>3

(* Only a recording adds a receipt.                                        *)
LEMMA NewReceipt ==
  ASSUME Sound, [Next]_vars, NEW s \in Receipts(comments'), s \notin Receipts(comments)
  PROVE  \E c \in Controllers :
           /\ PostReceipt(c) /\ Posts(c, ReceiptOf(c)) /\ UNCHANGED <<world, results>>
           /\ s = Len(comments) + 1 /\ comments'[s] = ReceiptOf(c) /\ Len(comments') = s
  <1>1. TypeOK /\ HistorySound /\ Grows
    BY GrowsStep DEF Sound
  <1>2. /\ s \in 1 .. Len(comments') /\ s \notin 1 .. Len(comments)
        /\ Len(comments) \in Nat /\ Len(comments') \in Nat /\ Len(comments) <= Len(comments')
    BY <1>1, GrowsFacts
  <1>3. comments' # comments
    BY <1>2
  <1>4. PICK c \in Controllers : Posting(c)
    <2>1. ~ Outside
      BY <1>3 DEF Outside, Edit, Tick, Examining, Examine, vars
    <2>2. \A c \in Controllers : ~ Quiet(c)
      BY <1>3, QuietSteps
    <2> QED
      BY <2>1, <2>2, StepCases
  <1>5. comments'[s].kind = "receipt"
    BY DEF Receipts, Of
  <1>6. ASSUME NEW x, Posts(c, x) PROVE s = Len(comments) + 1 /\ comments'[s] = x /\ Len(comments') = s
    BY <1>2, <1>6, PostGrows
  <1>7. PostReceipt(c)
    <2>1. /\ ClosureOf(c).kind = "closure" /\ ResolutionOf(c).kind = "resolution"
          /\ Convergence(History(c)).kind = "convergence" /\ ChallengeOf(c).kind = "challenge"
      BY DEF ClosureOf, Closure, ResolutionOf, Resolution, Convergence, ChallengeOf
    <2>2. ~ Close(c)
      BY <1>5, <1>6, <2>1, ClosePosts
    <2>3. ~ PostChallenge(c)
      BY <1>5, <1>6, <2>1, ChallengePosts
    <2>4. ~ PostResolution(c)
      BY <1>5, <1>6, <2>1, ResolutionPosts
    <2>5. ~ ConvergeReceipts(c) /\ ~ ConvergePosted(c)
      BY <1>5, <1>6, <2>1, ConvergencePosts
    <2> QED
      BY <1>4, <2>2, <2>3, <2>4, <2>5 DEF Posting
  <1>8. Posts(c, ReceiptOf(c))
    BY <1>7, ReceiptPosts
  <1> QED
    BY <1>6, <1>7, <1>8 DEF Posts

LEMMA ResultsKept ==
  ASSUME Sound, [Next]_vars
  PROVE  /\ issued \subseteq issued' /\ reported \subseteq reported'
         /\ (issued' # issued \/ reported' # reported) => \E c \in Controllers : Quiet(c)
  <1>1. CASE \E c \in Controllers : Quiet(c)
    BY <1>1, QuietSteps
  <1>2. CASE \E c \in Controllers : Posting(c)
    BY <1>2, PostSteps DEF Posts, results
  <1>3. CASE Outside
    BY <1>3 DEF Outside, Edit, Tick, Examining, Examine, vars, results
  <1> QED
    BY <1>1, <1>2, <1>3, StepCases

LEMMA ReceiptsKept ==
  ASSUME Sound, ReceiptsSound, [Next]_vars
  PROVE  ReceiptsSound'
  <1>1. TypeOK /\ HistorySound /\ Grows /\ issued \subseteq issued'
    BY GrowsStep, ResultsKept DEF Sound
  <1>2. ASSUME NEW s \in Receipts(comments')
        PROVE  /\ attested'[comments'[s].run] = [challenge |-> comments'[s].challenge, verdict |-> comments'[s].verdict]
               /\ comments'[s].challenge \in issued'
               /\ comments'[s].view = comments'[comments'[s].challenge].view
    <2>1. CASE s \in Receipts(comments)
      <3>1. s \in 1 .. Len(comments) /\ comments'[s] = comments[s]
        BY <1>1, <2>1, GrowsFacts
      <3>2. comments[s] \in EvaluationReceipt
        BY <1>1, <2>1, CommentTypes DEF TypeOK
      <3>3. comments[s].run \in Runs /\ comments[s].verdict # "none"
        BY <3>2 DEF EvaluationReceipt
      <3>4. /\ attested[comments[s].run] = [challenge |-> comments[s].challenge, verdict |-> comments[s].verdict]
            /\ comments[s].challenge \in issued /\ comments[s].view = comments[comments[s].challenge].view
        BY <2>1 DEF ReceiptsSound
      <3>5. attested'[comments[s].run] = attested[comments[s].run]
        <4>1. attested[comments[s].run] # Nothing
          BY <3>3, <3>4 DEF Nothing
        <4> QED
          BY <1>1, <3>3, <4>1 DEF Grows
      <3>6. comments'[comments[s].challenge] = comments[comments[s].challenge]
        BY <1>1, <3>4, GrowsFacts, ChallengesTyped
      <3> QED
        BY <1>1, <3>1, <3>4, <3>5, <3>6
    <2>2. CASE s \notin Receipts(comments)
      <3>1. PICK c \in Controllers :
              /\ PostReceipt(c) /\ UNCHANGED <<world, results>> /\ comments'[s] = ReceiptOf(c)
        BY <2>2, NewReceipt
      <3>2. /\ job[c].pc = "record" /\ job[c].run \in Runs /\ attested[job[c].run] # Nothing
            /\ job[c].target = attested[job[c].run].challenge
            /\ job[c].target \in issued /\ job[c].target \in Challenges(comments)
        BY <3>1, ReceiptPosts
      <3>3. comments[job[c].target].view = job[c].view
        BY <3>2 DEF Sound, JobsSound, PlaceSound
      <3>4. attested[job[c].run] = [challenge |-> job[c].target, verdict |-> attested[job[c].run].verdict]
        <4>1. attested[job[c].run] \in [challenge : issued, verdict : {"pass", "fail"}]
          BY <1>1, <3>2 DEF TypeOK
        <4> QED
          BY <3>2, <4>1
      <3>5. /\ ReceiptOf(c).run = job[c].run /\ ReceiptOf(c).challenge = job[c].target
            /\ ReceiptOf(c).verdict = attested[job[c].run].verdict /\ ReceiptOf(c).view = job[c].view
        BY DEF ReceiptOf
      <3>6. comments'[job[c].target] = comments[job[c].target]
        BY <1>1, <3>2, GrowsFacts, ChallengesTyped
      <3> QED
        BY <3>1, <3>2, <3>3, <3>4, <3>5, <3>6 DEF world, results
    <2> QED
      BY <2>1, <2>2
  <1> QED
    BY <1>2 DEF ReceiptsSound

LEMMA ReportsKept ==
  ASSUME Sound, ReportsSound, [Next]_vars
  PROVE  ReportsSound'
  <1>1. TypeOK /\ HistorySound /\ Grows
    BY GrowsStep DEF Sound
  <1>2. ASSUME NEW r, HasRecorded(r) PROVE HasRecorded(r)'
    <2>1. PICK s \in RecordOf(comments, r) : Readable(Prefix(s))
      BY <1>2 DEF HasRecorded
    <2>2. s \in 1 .. Len(comments) /\ s \in Receipts(comments) /\ comments[s].run = r
      BY <1>1, <2>1, GrowsFacts DEF RecordOf
    <2>3. s \in RecordOf(comments', r)
      BY <1>1, <2>2, GrowsFacts DEF RecordOf
    <2>4. Readable(Prefix(s))'
      BY <1>1, <2>1, <2>2, GrowsFacts
    <2> QED
      BY <2>3, <2>4 DEF HasRecorded
  <1>3. ASSUME NEW c \in Controllers, job[c].pc \in {"recorded", "verified"} PROVE HasRecorded(job[c].run)
    <2> DEFINE n == job[c].seen
    <2>1. Strict(Prefix(n)) /\ RecordOf(Prefix(n), job[c].run) # {}
      BY <1>3 DEF Sound, JobsSound, PlaceSound
    <2>2. Cut(Prefix(n), comments, n) /\ n \in 0 .. Len(comments) /\ Len(comments) \in Nat
      BY <1>1, JobTyped
    <2>3. PICK s : s \in RecordOf(Prefix(n), job[c].run)
      BY <2>1
    <2>4. s \in RecordOf(comments, job[c].run) /\ s \in 1 .. n
      BY <2>2, <2>3, LogicalCut
    <2>5. WellFormed(Prefix(s)) /\ Cut(Prefix(s), comments, s)
      BY <1>1, <2>2, <2>4, Seen
    <2>6. Cut(Prefix(s), Prefix(n), s)
      BY <2>2, <2>4, <2>5, CutOfCut
    <2>7. Readable(Prefix(s))
      BY <2>1, <2>5, <2>6, ReadableCut DEF Strict
    <2> QED
      BY <2>4, <2>7 DEF HasRecorded
  <1>4. ASSUME NEW r \in reported' PROVE HasRecorded(r)
    <2>1. CASE r \in reported
      BY <2>1 DEF ReportsSound
    <2>2. CASE r \notin reported
      <3>1. PICK c \in Controllers : Quiet(c)
        BY <2>2, ResultsKept
      <3> QED
        BY <1>3, <1>4, <2>2, <3>1, QuietSteps
    <2> QED
      BY <2>1, <2>2
  <1> QED
    BY <1>2, <1>4 DEF ReportsSound

-----------------------------------------------------------------------------
(* The order of the challenges that were issued                            *)

LEMMA HistoryFacts ==
  ASSUME TypeOK, HistorySound
  PROVE  /\ WellFormed(comments) /\ Cut(comments, comments, Len(comments)) /\ Len(comments) \in Nat
         /\ Outstanding(comments) \subseteq Classes(comments) /\ Classes(comments) \subseteq Challenges(comments)
         /\ \A k \in Classes(comments) : Canonical(comments)[k] = k
         /\ \A k \in Classes(comments) \ Outstanding(comments) : Ends(comments, k) # {}
         /\ \A k : Ends(comments, k) \subseteq 1 .. Len(comments)
  <1>1. WellFormed(comments) /\ Cut(comments, comments, Len(comments)) /\ Len(comments) \in Nat
    BY WellFormedFacts DEF HistorySound
  <1>2. \A k : Ends(comments, k) \subseteq 1 .. Len(comments)
    BY <1>1, EndsCut
  <1> QED
    BY <1>1, <1>2, ClassFacts

(* Who records a verdict on j still knows what it knew.                    *)
LEMMA KnowsKept ==
  ASSUME Sound, [Next]_vars, NEW t \in 1 .. Len(comments), NEW j, NEW d \in Controllers,
         \A c \in Controllers : job[c].cmd = "record" /\ job[c].target = j => Knows(job[c], t),
         job'[d].cmd = "record", job'[d].target = j
  PROVE  Knows(job'[d], t)
  <1>1. TypeOK /\ HistorySound /\ Len(comments) \in Nat /\ job \in [Controllers -> Command(Len(comments))]
    BY JobTyped DEF Sound, TypeOK
  <1>2. ASSUME job'[d] = job[d] PROVE Knows(job'[d], t)
    BY <1>2
  <1>3. ASSUME NEW c \in Controllers, NEW command, job' = [job EXCEPT ![c] = command], Remembers(c, command)
        PROVE  Knows(job'[d], t)
    <2>1. CASE d = c
      <3>1. job'[d] = command
        BY <1>1, <1>3, <2>1
      <3>2. CASE command.pc \in Waiting \/ command.seen = Len(comments)
        BY <1>1, <3>1, <3>2 DEF Knows
      <3>3. CASE /\ job[c].cmd = "record" /\ job[c].target = command.target
                 /\ job[c].pc \notin Waiting /\ command.seen = job[c].seen
        BY <3>1, <3>3 DEF Knows
      <3> QED
        BY <1>3, <3>1, <3>2, <3>3 DEF Remembers
    <2>2. CASE d # c
      BY <1>1, <1>2, <1>3, <2>2
    <2> QED
      BY <2>1, <2>2
  <1>4. CASE \E c \in Controllers : Quiet(c)
    BY <1>3, <1>4, QuietSteps DEF Becomes
  <1>5. CASE \E c \in Controllers : Posting(c)
    BY <1>3, <1>5, PostSteps
  <1>6. CASE Outside
    <2>1. job' = job
      BY <1>6 DEF Outside, Edit, Tick, Examining, Examine, vars
    <2> QED
      BY <1>2, <2>1
  <1> QED
    BY <1>4, <1>5, <1>6, StepCases

LEMMA InOrderKept ==
  ASSUME Sound, ReceiptsSound, InOrder, [Next]_vars
  PROVE  InOrder'
  <1>1. TypeOK /\ HistorySound /\ Grows /\ issued \subseteq Challenges(comments)
    BY GrowsStep DEF Sound, TypeOK
  <1>2. /\ Challenges(comments) \subseteq 1 .. Len(comments) /\ Len(comments) \in Nat /\ Len(comments) <= Len(comments')
        /\ Receipts(comments) = Receipts(comments') \cap 1 .. Len(comments)
        /\ Receipts(comments') \subseteq 1 .. Len(comments') /\ Len(comments') \in Nat
        /\ \A i \in 1 .. Len(comments) : comments'[i] = comments[i]
    BY <1>1, GrowsFacts, ChallengesTyped
  <1>3. /\ \A i \in Challenges(comments) : Canonical(comments')[i] = Canonical(comments)[i]
        /\ Outstanding(comments') \cap 1 .. Len(comments) \subseteq Outstanding(comments)
        /\ \A k : Ends(comments, k) \subseteq Ends(comments', k)
        /\ Outstanding(comments') \subseteq 1 .. Len(comments')
    <2>1. Cut(comments, comments', Len(comments)) /\ WellFormed(comments') /\ Cut(comments', comments', Len(comments'))
      BY <1>1, WellFormedFacts DEF Grows
    <2>2. Outstanding(comments') \subseteq Challenges(comments')
      BY <2>1, ClassFacts
    <2>3. Challenges(comments') \subseteq 1 .. Len(comments')
      BY <2>1, WellFormedFacts
    <2> QED
      BY <2>1, <2>2, <2>3, CanonicalCut, OutstandingCut, EndsCut
  (* What holds of the issued challenges goes on holding.                  *)
  <1>4. ASSUME NEW i \in Challenges(comments), Canonical(comments)[i] = i, \A k \in Outstanding(comments) : i <= k
        PROVE  Canonical(comments')[i] = i /\ \A k \in Outstanding(comments') : i <= k
    <2>1. ASSUME NEW k \in Outstanding(comments') PROVE i <= k
      <3>1. i \in 1 .. Len(comments) /\ k \in 1 .. Len(comments')
        BY <1>2, <1>3
      <3>2. CASE k \in 1 .. Len(comments)
        BY <1>3, <1>4, <3>2
      <3>3. CASE k \notin 1 .. Len(comments)
        BY <1>2, <3>1, <3>3
      <3> QED
        BY <3>2, <3>3
    <2> QED
      BY <1>3, <1>4, <2>1
  <1>5. ASSUME NEW j, NEW t \in 1 .. Len(comments),
               \A q \in Receipts(comments) : comments[q].challenge = j => t < q,
               \A c \in Controllers : job[c].cmd = "record" /\ job[c].target = j => Knows(job[c], t)
        PROVE  /\ \A q \in Receipts(comments') : comments'[q].challenge = j => t < q
               /\ \A c \in Controllers : job'[c].cmd = "record" /\ job'[c].target = j => Knows(job'[c], t)
    <2>1. ASSUME NEW q \in Receipts(comments'), comments'[q].challenge = j PROVE t < q
      <3>1. CASE q \in 1 .. Len(comments)
        BY <1>2, <1>5, <2>1, <3>1
      <3>2. CASE q \notin 1 .. Len(comments)
        BY <1>2, <3>2
      <3> QED
        BY <3>1, <3>2
    <2>2. ASSUME NEW c \in Controllers, job'[c].cmd = "record", job'[c].target = j PROVE Knows(job'[c], t)
      BY <1>5, <2>2, KnowsKept
    <2> QED
      BY <2>1, <2>2
  <1>6. ASSUME NEW new, new \subseteq Challenges(comments), new \subseteq Outstanding(comments), issued' = issued \cup new,
               new # {} => Outstanding(comments) = new /\ \A k, l \in new : k = l
        PROVE  InOrder'
    <2>1. ASSUME NEW i \in issued'
          PROVE  i \in Challenges(comments) /\ Canonical(comments)[i] = i /\ \A k \in Outstanding(comments) : i <= k
      <3>1. CASE i \in issued
        BY <1>1, <3>1 DEF InOrder
      <3>2. CASE i \in new
        <4>1. i \in Classes(comments) /\ Outstanding(comments) = new /\ i \in 1 .. Len(comments)
          BY <1>1, <1>2, <1>6, <3>2, HistoryFacts
        <4>2. \A k \in Outstanding(comments) : k = i
          BY <1>6, <3>2
        <4>3. Canonical(comments)[i] = i
          BY <1>1, <4>1, HistoryFacts
        <4> QED
          BY <1>6, <3>2, <4>1, <4>2, <4>3
      <3> QED
        BY <1>6, <2>1, <3>1, <3>2
    <2>2. ASSUME NEW i \in issued', NEW j \in issued', i < j
          PROVE  \E t \in Ends(comments, i) :
                   /\ \A q \in Receipts(comments) : comments[q].challenge = j => t < q
                   /\ \A c \in Controllers : job[c].cmd = "record" /\ job[c].target = j => Knows(job[c], t)
      <3>1. CASE i \in issued /\ j \in issued
        BY <2>2, <3>1 DEF InOrder
      <3>2. CASE j \notin issued
        <4>1. j \in new /\ Outstanding(comments) = new /\ \A k \in new : k = j
          BY <1>6, <3>2
        <4>2. i \in Classes(comments) \ Outstanding(comments)
          <5>1. i \in Challenges(comments) /\ Canonical(comments)[i] = i
            BY <2>1
          <5>2. i \in Classes(comments)
            BY <1>1, <5>1, HistoryFacts, ClassFacts
          <5>3. i \in Nat /\ j \in Nat
            BY <1>2, <1>6, <4>1, <5>1
          <5> QED
            BY <2>2, <4>1, <5>2, <5>3
        <4>3. PICK t : t \in Ends(comments, i)
          BY <1>1, <4>2, HistoryFacts
        <4>4. \A q \in Receipts(comments) : comments[q].challenge # j
          BY <3>2 DEF ReceiptsSound
        <4>5. \A c \in Controllers : job[c].cmd = "record" => job[c].target # j
          <5>1. ASSUME NEW c \in Controllers, job[c].cmd = "record" PROVE job[c].target \in issued
            <6>1. job[c].run \in Runs /\ attested[job[c].run] # Nothing /\ job[c].target = attested[job[c].run].challenge
              BY <5>1 DEF Sound, JobsSound, CommandSound
            <6> QED
              BY <1>1, <6>1, ChallengesTyped
          <5> QED
            BY <3>2, <5>1
        <4> QED
          BY <4>3, <4>4, <4>5
      <3>3. CASE i \notin issued /\ j \in issued
        <4>1. i \in new /\ i \in Outstanding(comments)
          BY <1>6, <3>3
        <4>2. j <= i
          BY <3>3, <4>1 DEF InOrder
        <4>3. i \in Nat /\ j \in Nat
          BY <1>1, <1>2, <1>6, <3>3, <4>1
        <4> QED
          BY <2>2, <4>2, <4>3
      <3> QED
        BY <3>1, <3>2, <3>3
    <2>3. ASSUME NEW i \in issued', NEW j \in issued', i < j
          PROVE  \E t \in Ends(comments', i) :
                   /\ \A q \in Receipts(comments') : comments'[q].challenge = j => t < q
                   /\ \A c \in Controllers : job'[c].cmd = "record" /\ job'[c].target = j => Knows(job'[c], t)
      <3>1. PICK t \in Ends(comments, i) :
              /\ \A q \in Receipts(comments) : comments[q].challenge = j => t < q
              /\ \A c \in Controllers : job[c].cmd = "record" /\ job[c].target = j => Knows(job[c], t)
        BY <2>2, <2>3
      <3>2. t \in 1 .. Len(comments) /\ t \in Ends(comments', i)
        BY <1>1, <1>3, HistoryFacts
      <3>3. /\ \A q \in Receipts(comments') : comments'[q].challenge = j => t < q
            /\ \A c \in Controllers : job'[c].cmd = "record" /\ job'[c].target = j => Knows(job'[c], t)
        BY <1>5, <3>1, <3>2
      <3> QED
        BY <3>2, <3>3
    <2>4. \A i \in issued' : Canonical(comments')[i] = i /\ \A k \in Outstanding(comments') : i <= k
      BY <1>4, <2>1
    <2>5. \A i, j \in issued' : i < j =>
            \E t \in Ends(comments', i) :
              /\ \A q \in Receipts(comments') : comments'[q].challenge = j => t < q
              /\ \A c \in Controllers : job'[c].cmd = "record" /\ job'[c].target = j => Knows(job'[c], t)
      BY <2>3
    <2>6. (\A i \in issued : Canonical(comments)[i] = i /\ \A k \in Outstanding(comments) : i <= k)'
      BY <2>4, Zenon
    <2>7. (\A i, j \in issued : i < j =>
             \E t \in Ends(comments, i) :
               /\ \A q \in Receipts(comments) : comments[q].challenge = j => t < q
               /\ \A c \in Controllers : job[c].cmd = "record" /\ job[c].target = j => Knows(job[c], t))'
      BY <2>5, Zenon
    <2> QED
      BY <2>6, <2>7 DEF InOrder
  <1>7. CASE issued' = issued
    <2>1. PICK none : none = {}
      OBVIOUS
    <2>2. /\ none \subseteq Challenges(comments) /\ none \subseteq Outstanding(comments) /\ issued' = issued \cup none
          /\ ~ none # {}
      BY <1>7, <2>1
    <2> QED
      BY <1>6, <2>2
  <1>8. CASE issued' # issued
    <2>1. PICK c \in Controllers : Quiet(c)
      BY <1>8, ResultsKept
    <2> DEFINE k == Canonical(comments)[job[c].target]
    <2>2. Output(c) /\ issued' = issued \cup {k} /\ k \in Outstanding(comments)
      BY <1>8, <2>1, QuietSteps
    <2>3. Outstanding(comments) = {k}
      BY <2>2 DEF Output
    <2>4. k \in Challenges(comments)
      BY <1>1, <2>2, HistoryFacts
    <2> HIDE DEF k
    <2> QED
      BY <1>6, <2>2, <2>3, <2>4
  <1> QED
    BY <1>7, <1>8

-----------------------------------------------------------------------------
(* Rounds                                                                  *)

(* In a history that can be read one comment ends a class, a receipt with  *)
(* its copies.                                                             *)
LEMMA OneEnd ==
  ASSUME NEW h, WellFormed(h), Readable(h), NEW k, NEW s \in Receipts(h) \cup Resolutions(h),
         Canonical(h)[h[s].challenge] = k, NEW t \in Ends(h, k), s # t
  PROVE  s \in Receipts(h) /\ t \in Receipts(h) /\ t \in Group(h, s)
  <1>1. Cut(h, h, Len(h))
    BY WellFormedFacts
  <1>2. PICK m \in Challenges(h) : Canonical(h)[m] = k /\ t \in Terminals(h, m)
    BY <1>1, EndsIs
  <1>3. h[t].challenge = m /\ t \in Receipts(h) \cup Resolutions(h)
    BY <1>2, TerminalsLater
  <1>4. h[s].kind = "receipt" /\ t \in Group(h, s)
    BY <1>2, <1>3 DEF Readable, NoConflict
  <1>5. s \in DOMAIN h
    BY DEF Receipts, Resolutions, Of
  <1> QED
    BY <1>4, <1>5 DEF Group, Receipts, Of

(* A receipt that can be read ends the class of its challenge.             *)
LEMMA ReceiptEnds ==
  ASSUME NEW h, WellFormed(h), Readable(h), NEW s \in Receipts(h) \cup Resolutions(h)
  PROVE  s \in Ends(h, Canonical(h)[h[s].challenge])
  <1>1. Cut(h, h, Len(h)) /\ h[s].challenge \in Challenges(h)
    BY WellFormedFacts DEF WellFormed
  <1>2. s \in Terminals(h, h[s].challenge)
    BY DEF Terminals, Readable, ReceiptsValid
  <1> QED
    BY <1>1, <1>2, EndsIs

(* Between what a recording has read and the receipt it leads to there is  *)
(* no other that counts, if the history can be read so far: it would be    *)
(* about the same challenge, about one that had come to something else     *)
(* before, or about one issued after this one had.                         *)
LEMMA NoneBetween ==
  ASSUME NEW h, WellFormed(h), NEW n \in Nat,
         NEW s \in Logical(h), Readable(SubSeq(h, 1, s)), NEW q \in Logical(h), n < q, q < s,
         Canonical(h)[h[s].challenge] = h[s].challenge, Canonical(h)[h[q].challenge] = h[q].challenge,
         h[q].challenge < h[s].challenge => \E t \in Ends(h, h[q].challenge) : t <= n,
         h[s].challenge < h[q].challenge => \E t \in Ends(h, h[s].challenge) : t < q
  PROVE  FALSE
  <1> DEFINE p == SubSeq(h, 1, s)
             i == h[s].challenge
             j == h[q].challenge
  <1>1. s \in Receipts(h) /\ q \in Receipts(h) /\ Receipts(h) \subseteq 1 .. Len(h) /\ Len(h) \in Nat
    BY WellFormedFacts, Counted
  <1>2. WellFormed(p) /\ Cut(p, h, s) /\ s \in 0 .. Len(h) /\ q \in 1 .. s /\ s \in 1 .. s
    BY <1>1, WellFormedCut
  <1>3. Readable(p)
    OBVIOUS
  <1> HIDE DEF p
  <1>4. s \in Receipts(p) /\ q \in Receipts(p) /\ p[s] = h[s] /\ p[q] = h[q]
    BY <1>1, <1>2, KindsCut DEF Cut
  <1>5. q \notin Group(h, s)
    BY <1>1, LogicalIs, WellFormedFacts
  <1>6. q \notin Group(p, s)
    BY <1>2, <1>5, GroupCut
  <1>7. Canonical(p)[i] = i /\ Canonical(p)[j] = j
    BY <1>2, <1>4, MeaningCut
  <1>8. i \in Nat /\ j \in Nat
    <2>1. h[s] \in EvaluationReceipt /\ h[q] \in EvaluationReceipt
      BY <1>1, CommentTypes DEF WellFormed
    <2> QED
      BY <2>1 DEF EvaluationReceipt
  <1>9. CASE i = j
    <2>1. SharesIdentifier(p, s, q)
      BY <1>4, <1>9 DEF SharesIdentifier
    <2> QED
      BY <1>3, <1>4, <1>6, <2>1 DEF Readable, ReceiptsValid
  <1>10. CASE j < i
    <2>1. PICK t \in Ends(h, j) : t <= n
      BY <1>10
    <2>2. t \in 1 .. Len(h)
      BY WellFormedFacts, EndsCut
    <2>3. t \in Ends(p, j) /\ t < q /\ t # q
      BY <1>1, <1>2, <2>1, <2>2, EndsCut
    <2>4. t \in Group(p, q)
      BY <1>2, <1>3, <1>4, <1>7, <2>3, OneEnd
    <2>5. t \in Group(h, q)
      BY <1>2, <2>4, GroupCut
    <2> QED
      BY <2>3, <2>5, LogicalIs, WellFormedFacts
  <1>11. CASE i < j
    <2>1. PICK t \in Ends(h, i) : t < q
      BY <1>11
    <2>2. t \in 1 .. Len(h)
      BY WellFormedFacts, EndsCut
    <2>3. t \in Ends(p, i) /\ t < s /\ t # s
      BY <1>1, <1>2, <2>1, <2>2, EndsCut
    <2>4. t \in Group(p, s)
      BY <1>2, <1>3, <1>4, <1>7, <2>3, OneEnd
    <2>5. t \in Group(h, s)
      BY <1>2, <2>4, GroupCut
    <2> QED
      BY <2>3, <2>5, LogicalIs, WellFormedFacts
  <1> QED
    BY <1>8, <1>9, <1>10, <1>11

(* So a recording has counted right.                                       *)
LEMMA CountedRight ==
  ASSUME Sound, ReceiptsSound, InOrder, NEW c \in Controllers, job[c].pc = "record",
         NEW h, WellFormed(h), Cut(comments, h, Len(comments)),
         NEW s \in Logical(h), Readable(SubSeq(h, 1, s)), h[s].challenge = job[c].target,
         job[c].seen < s, s <= Len(comments) + 1
  PROVE  Before(Logical(h), s) = Logical(History(c)) /\ Before(Fails(h), s) = Fails(History(c))
  <1> DEFINE n == job[c].seen
             i == job[c].target
  <1>1. TypeOK /\ HistorySound
    BY DEF Sound
  <1>2. /\ WellFormed(History(c)) /\ Cut(History(c), comments, n) /\ n \in 0 .. Len(comments) /\ Len(comments) \in Nat
        /\ n \in Nat
    BY <1>1, JobTyped
  <1>3. Logical(History(c)) = Logical(comments) \cap 1 .. n /\ Fails(History(c)) = Fails(comments) \cap 1 .. n
    BY <1>2, LogicalCut
  <1>4. Logical(comments) = Logical(h) \cap 1 .. Len(comments) /\ Fails(comments) = Fails(h) \cap 1 .. Len(comments)
    BY LogicalCut
  <1>5. job[c].cmd = "record" /\ job[c].pc \notin Waiting /\ i \in issued
    <2>1. CommandSound(job[c])
      BY DEF Sound, JobsSound
    <2>2. job[c].cmd = "record" /\ job[c].pc \notin Waiting
      BY <2>1 DEF CommandSound, Recording, Waiting
    <2> QED
      BY <1>1, <2>1, <2>2, ChallengesTyped DEF CommandSound
  <1>6. /\ \A k \in issued : Canonical(h)[k] = k
        /\ \A k : Ends(comments, k) \subseteq Ends(h, k)
    <2>1. \A k \in issued : k \in Challenges(comments) /\ Canonical(comments)[k] = k
      BY <1>1, ChallengesTyped DEF InOrder
    <2> QED
      BY <2>1, CanonicalCut, EndsCut
  <1>7. ASSUME NEW q \in Logical(h), q < s, q \in 1 .. Len(comments) PROVE q \in 1 .. n
    <2> DEFINE j == comments[q].challenge
    <2>1. q \in Receipts(comments) /\ j \in issued /\ h[q] = comments[q]
      BY <1>4, <1>7, Counted DEF ReceiptsSound, Cut
    <2>2. j < i => \E t \in Ends(h, j) : t <= n
      <3>1. SUFFICES ASSUME j < i PROVE \E t \in Ends(h, j) : t <= n
        OBVIOUS
      <3>2. PICK t \in Ends(comments, j) : Knows(job[c], t)
        BY <1>5, <2>1, <3>1 DEF InOrder
      <3>3. t <= n
        BY <1>5, <3>2 DEF Knows
      <3> QED
        BY <1>6, <3>2, <3>3
    <2>3. i < j => \E t \in Ends(h, i) : t < q
      <3>1. SUFFICES ASSUME i < j PROVE \E t \in Ends(h, i) : t < q
        OBVIOUS
      <3>2. PICK t \in Ends(comments, i) : t < q
        BY <1>5, <2>1, <3>1 DEF InOrder
      <3> QED
        BY <1>6, <3>2
    <2>4. Canonical(h)[i] = i /\ Canonical(h)[j] = j /\ i = h[s].challenge /\ j = h[q].challenge
      BY <1>5, <1>6, <2>1
    <2> HIDE DEF i, j, n
    <2>5. ASSUME n < q PROVE FALSE
      <3>1. n \in Nat /\ q \in Logical(h) /\ q < s
        BY <1>2, <1>7
      <3> QED
        BY <2>2, <2>3, <2>4, <2>5, <3>1, NoneBetween
    <2> QED
      BY <1>2, <1>7, <2>5
  <1>8. s \in Nat /\ Logical(h) \subseteq Nat \ {0} /\ Fails(h) \subseteq Logical(h)
    <2>1. Receipts(h) \subseteq 1 .. Len(h) /\ Len(h) \in Nat
      BY WellFormedFacts
    <2> QED
      BY <2>1, Counted
  <1>9. ASSUME NEW q \in Logical(h) PROVE q < s <=> q \in 1 .. n
    <2> HIDE DEF n
    <2>1. q < s => q \in 1 .. Len(comments)
      BY <1>2, <1>8
    <2> QED
      BY <1>2, <1>7, <1>8, <2>1 DEF n
  <1> HIDE DEF n
  <1>10. 1 .. n \subseteq 1 .. Len(comments)
    BY <1>2
  <1> QED
    BY <1>3, <1>4, <1>8, <1>9, <1>10 DEF Before

(* A new receipt of a recording that counts is counted right.              *)
LEMMA NewRound ==
  ASSUME Sound, ReceiptsSound, InOrder, [Next]_vars,
         NEW s \in Logical(comments'), s \notin Receipts(comments), Readable(SubSeq(comments', 1, s))
  PROVE  /\ s = Len(comments) + 1 /\ Len(comments') = s
         /\ comments'[s].round = Cardinality(Before(Logical(comments'), s)) + 1
         /\ Cardinality(Before(Fails(comments'), s)) < FailureLimit
  <1>1. TypeOK /\ HistorySound /\ Grows
    BY GrowsStep DEF Sound
  <1>2. PICK c \in Controllers :
          /\ PostReceipt(c) /\ s = Len(comments) + 1 /\ comments'[s] = ReceiptOf(c) /\ Len(comments') = s
    BY NewReceipt, Counted
  <1>3. /\ job[c].pc = "record" /\ job[c].seen \in 0 .. Len(comments) /\ History(c) = Prefix(job[c].seen)
        /\ Len(comments) \in Nat
    BY <1>1, <1>2, ReceiptPosts, JobTyped
  <1>4. /\ ReceiptOf(c).challenge = job[c].target
        /\ ReceiptOf(c).round = Cardinality(Logical(History(c))) + 1
    BY DEF ReceiptOf
  <1>5. Before(Logical(comments'), s) = Logical(History(c)) /\ Before(Fails(comments'), s) = Fails(History(c))
    BY <1>1, <1>2, <1>3, <1>4, CountedRight DEF Grows
  <1>6. Cardinality(Fails(History(c))) < FailureLimit
    BY <1>3 DEF Sound, JobsSound, PlaceSound
  <1> QED
    BY <1>2, <1>4, <1>5, <1>6

LEMMA RoundsKept ==
  ASSUME Sound, ReceiptsSound, InOrder, RoundsSound, [Next]_vars
  PROVE  RoundsSound'
  <1> DEFINE n == Len(comments)
             rounds(h) == {h[r].round : r \in Logical(h)}
  <1>1. TypeOK /\ HistorySound /\ Grows /\ WellFormed(comments) /\ WellFormed(comments') /\ Cut(comments, comments', n)
    BY GrowsStep DEF Sound, Grows, HistorySound
  <1>2. /\ n \in Nat /\ \A i \in 1 .. n : comments'[i] = comments[i]
        /\ Receipts(comments) = Receipts(comments') \cap 1 .. n
        /\ \A m \in 0 .. n : Prefix(m)' = Prefix(m)
        /\ Receipts(comments') \subseteq 1 .. Len(comments') /\ Len(comments') \in Nat
    BY <1>1, GrowsFacts
  <1>3. /\ Logical(comments) = Logical(comments') \cap 1 .. n /\ Fails(comments) = Fails(comments') \cap 1 .. n
        /\ Logical(comments') \subseteq Receipts(comments') /\ Fails(comments') \subseteq Logical(comments')
    BY <1>1, LogicalCut, Counted
  <1>4. Readable(comments') => Readable(comments)
    BY <1>1, ReadableCut
  <1>5. \A r \in Logical(comments) : comments'[r] = comments[r]
    BY <1>2, <1>3
  <1> HIDE DEF n
  <1>6. ASSUME NEW s \in Logical(comments'), Readable(Prefix(s)')
        PROVE  /\ comments'[s].round = Cardinality(Before(Logical(comments'), s)) + 1
               /\ Cardinality(Before(Fails(comments'), s)) < FailureLimit
    <2>1. CASE s \in Receipts(comments)
      <3>1. s \in 1 .. n /\ s \in Logical(comments) /\ s \in 0 .. n
        BY <1>2, <1>3, <2>1
      <3>2. ASSUME NEW q \in Receipts(comments'), q < s PROVE q \in 1 .. n
        BY <1>2, <3>1, <3>2
      <3>3. /\ Before(Logical(comments'), s) = Before(Logical(comments), s)
            /\ Before(Fails(comments'), s) = Before(Fails(comments), s)
        BY <1>3, <3>2 DEF Before
      <3>4. Readable(Prefix(s))
        BY <1>2, <1>6, <3>1
      <3> QED
        BY <1>5, <3>1, <3>3, <3>4 DEF RoundsSound
    <2>2. CASE s \notin Receipts(comments)
      <3>1. Readable(SubSeq(comments', 1, s))
        BY <1>6 DEF Prefix
      <3> QED
        BY <2>2, <3>1, NewRound
    <2> QED
      BY <2>1, <2>2
  <1>7. ASSUME Readable(comments') PROVE rounds(comments') = 1 .. Cardinality(Logical(comments'))
    <2>1. rounds(comments) = 1 .. Cardinality(Logical(comments))
      BY <1>4, <1>7 DEF RoundsSound
    <2>2. CASE Logical(comments') \subseteq Receipts(comments)
      <3>1. Logical(comments') = Logical(comments)
        BY <1>2, <1>3, <2>2
      <3> QED
        BY <1>5, <2>1, <3>1
    <2>3. CASE ~ Logical(comments') \subseteq Receipts(comments)
      <3>1. PICK s \in Logical(comments') : s \notin Receipts(comments)
        BY <2>3
      <3>2. WellFormed(comments') /\ s \in 0 .. Len(comments')
        BY <1>1, <1>2, <1>3
      <3>3. Readable(SubSeq(comments', 1, s))
        <4>1. WellFormed(SubSeq(comments', 1, s)) /\ Cut(SubSeq(comments', 1, s), comments', s)
          BY <3>2, WellFormedCut
        <4> QED
          BY <1>7, <4>1, ReadableCut
      <3>4. s = n + 1 /\ Len(comments') = s /\ comments'[s].round = Cardinality(Before(Logical(comments'), s)) + 1
        BY <3>1, <3>3, NewRound DEF n
      <3>5. Logical(comments') = Logical(comments) \cup {s} /\ s \notin Logical(comments)
        <4>1. \A q \in Logical(comments') : q \in 1 .. n \/ q = s
          BY <1>2, <1>3, <3>4
        <4>2. s \notin 1 .. n
          BY <1>2, <3>4
        <4> QED
          BY <1>3, <3>1, <4>1, <4>2
      <3>6. Before(Logical(comments'), s) = Logical(comments)
        <4>1. \A q \in 1 .. n : q < s
          BY <1>2, <3>4
        <4>2. ~ s < s
          BY <1>2, <3>4
        <4> QED
          BY <1>3, <3>5, <4>1, <4>2 DEF Before
      <3> DEFINE count == Cardinality(Logical(comments))
      <3>7. IsFiniteSet(Logical(comments)) /\ count \in Nat
        BY <1>1, CountsTyped, Counted
      <3>8. Cardinality(Logical(comments')) = count + 1
        BY <3>5, <3>7, FS_AddElement
      <3>9. rounds(comments') = rounds(comments) \cup {count + 1}
        <4>1. \A r \in Logical(comments) : comments'[r].round = comments[r].round
          BY <1>5
        <4>2. comments'[s].round = count + 1
          BY <3>4, <3>6
        <4> HIDE DEF count
        <4> QED
          BY <3>5, <4>1, <4>2
      <3> HIDE DEF count, rounds
      <3>10. (1 .. count) \cup {count + 1} = 1 .. count + 1
        BY <3>7
      <3>11. rounds(comments) = 1 .. count
        BY <2>1 DEF count
      <3>12. rounds(comments') = 1 .. count + 1
        BY <3>9, <3>10, <3>11
      <3> QED
        BY <3>8, <3>12
    <2> QED
      BY <2>2, <2>3
  <1> QED
    BY <1>6, <1>7 DEF RoundsSound

LEMMA CopiesKept ==
  ASSUME Sound, ReceiptsSound, InOrder, RoundsSound, CopiesOnly, [Next]_vars
  PROVE  CopiesOnly'
  <1> DEFINE n == Len(comments)
  <1>1. TypeOK /\ HistorySound /\ Grows /\ WellFormed(comments) /\ WellFormed(comments') /\ Cut(comments, comments', n)
        /\ Cut(comments, comments, n)
    BY GrowsStep, HistoryFacts DEF Sound, Grows, HistorySound
  <1>2. /\ n \in Nat /\ \A i \in 1 .. n : comments'[i] = comments[i]
        /\ Receipts(comments) = Receipts(comments') \cap 1 .. n
        /\ \A m \in 0 .. n : Prefix(m)' = Prefix(m)
        /\ Receipts(comments') \subseteq 1 .. Len(comments') /\ Len(comments') \in Nat
    BY <1>1, GrowsFacts
  <1> HIDE DEF n
  <1>3. ASSUME NEW s \in Receipts(comments'), NEW t \in Receipts(comments'),
               comments'[s].run = comments'[t].run, s < t, Readable(Prefix(s)')
        PROVE  t \in Group(comments', s)
    <2>1. CASE t \in Receipts(comments)
      <3>1. s \in 1 .. n /\ t \in 1 .. n /\ s \in Receipts(comments) /\ s \in 0 .. n
        BY <1>2, <1>3, <2>1
      <3>2. Readable(Prefix(s))
        BY <1>2, <1>3, <3>1
      <3>3. t \in Group(comments, s)
        BY <1>2, <1>3, <2>1, <3>1, <3>2 DEF CopiesOnly
      <3> QED
        BY <1>1, <3>1, <3>3, GroupCut
    <2>2. CASE t \notin Receipts(comments)
      <3>1. PICK c \in Controllers : PostReceipt(c) /\ t = n + 1 /\ comments'[t] = ReceiptOf(c)
        BY <2>2, NewReceipt DEF n
      <3> DEFINE h == History(c)
                 r == job[c].run
                 i == job[c].target
                 f == Min(Group(comments, s))
      <3>2. /\ job[c].pc = "record" /\ ReceiptOf(c) \in EvaluationReceipt
            /\ ReceiptOf(c).run = r /\ ReceiptOf(c).challenge = i /\ ReceiptOf(c).view = job[c].view
            /\ ReceiptOf(c).verdict = attested[r].verdict /\ ReceiptOf(c).round = Cardinality(Logical(h)) + 1
            /\ i = attested[r].challenge
        BY <3>1, ReceiptPosts DEF ReceiptOf
      <3>3. /\ RecordOf(h, r) = {} /\ comments[i].view = job[c].view /\ Cut(h, comments, job[c].seen)
            /\ job[c].seen \in 0 .. n
        BY <1>1, <3>2, JobTyped DEF Sound, JobsSound, PlaceSound, n
      <3>4. s \in 1 .. n /\ s \in Receipts(comments) /\ comments[s].run = r
        BY <1>2, <1>3, <3>1, <3>2
      <3>5. f \in Logical(comments) /\ f \in Group(comments, s) /\ f <= s
        BY <1>1, <3>4, FirstCopy DEF n
      <3> HIDE DEF f
      <3>6. f \in Receipts(comments) /\ f \in 1 .. n
        BY <1>2, <3>5, Counted
      <3>7. comments[f] \in EvaluationReceipt /\ comments[s] \in EvaluationReceipt
        BY <1>1, <3>4, <3>6, CommentTypes DEF TypeOK
      <3>8. comments[f].run = r /\ Group(comments, f) = Group(comments, s)
        <4>1. Facts(comments[f]) = Facts(comments[s])
          BY <3>5 DEF Group
        <4>2. comments[f].run = r
          BY <3>4, <3>7, <4>1, FactsAgree
        <4> QED
          BY <4>1, <4>2 DEF Group
      <3>9. job[c].seen < f
        <4>1. f \in RecordOf(comments, r)
          BY <3>6, <3>8 DEF RecordOf
        <4>2. RecordOf(h, r) = RecordOf(comments, r) \cap 1 .. job[c].seen
          BY <3>3, LogicalCut
        <4>3. f \notin 1 .. job[c].seen
          BY <3>3, <4>1, <4>2
        <4> QED
          BY <1>2, <3>3, <3>6, <4>3
      <3>10. Readable(Prefix(f))
        <4>1. f \in 0 .. n /\ s \in 0 .. n
          BY <3>4, <3>6
        <4>2. Readable(Prefix(s))
          BY <1>2, <1>3, <4>1
        <4>3. /\ WellFormed(Prefix(f)) /\ Cut(Prefix(f), comments, f)
              /\ Cut(Prefix(s), comments, s)
          BY <1>1, <4>1, Seen DEF n
        <4>4. Cut(Prefix(f), Prefix(s), f)
          BY <3>5, <4>3, CutOfCut
        <4> QED
          BY <4>2, <4>3, <4>4, ReadableCut
      <3>11. /\ attested[r] = [challenge |-> comments[f].challenge, verdict |-> comments[f].verdict]
             /\ comments[f].view = comments[comments[f].challenge].view
        BY <3>6, <3>8 DEF ReceiptsSound
      <3>12. comments[f].challenge = i /\ comments[f].verdict = attested[r].verdict /\ comments[f].view = job[c].view
        BY <3>2, <3>3, <3>11
      <3>13. comments[f].round = Cardinality(Logical(h)) + 1
        <4>1. Before(Logical(comments), f) = Logical(h)
          <5>1. Readable(SubSeq(comments, 1, f)) /\ f <= n + 1 /\ comments[f].challenge = job[c].target
            BY <1>2, <3>6, <3>10, <3>12 DEF Prefix
          <5> QED
            BY <1>1, <3>2, <3>5, <3>9, <5>1, CountedRight DEF n
        <4>2. comments[f].round = Cardinality(Before(Logical(comments), f)) + 1
          BY <3>5, <3>10 DEF RoundsSound
        <4> QED
          BY <4>1, <4>2
      <3>14. Facts(comments'[t]) = Facts(comments[f])
        BY <3>1, <3>2, <3>7, <3>8, <3>12, <3>13, FactsAgree
      <3>15. Facts(comments[f]) = Facts(comments[s]) /\ comments'[s] = comments[s]
        BY <1>2, <3>4, <3>5 DEF Group
      <3> QED
        BY <1>3, <3>14, <3>15 DEF Group
    <2> QED
      BY <2>1, <2>2
  <1> QED
    BY <1>3 DEF CopiesOnly

-----------------------------------------------------------------------------
(* What alone spoils a history                                             *)

Timely(h) == \A i \in DOMAIN h : ~ Mistimed(h, i)

LEMMA NotSpoilt ==
  ASSUME Sound, ReadableUnlessSpoilt, ClocksAgree, NEW c \in Controllers, NEW x, Posts(c, x), ~ raced', Timely(comments')
  PROVE  /\ Readable(comments)
         /\ x.kind # "challenge" => History(c) = comments /\ Prefix(job[c].seen) = comments
  <1>1. TypeOK /\ HistorySound /\ Grows /\ WellFormed(comments)
    BY PostGrows DEF Sound, HistorySound
  <1>2. ~ raced /\ (x.kind # "challenge" => Len(comments) = job[c].seen)
    BY DEF Posts
  <1>3. Timely(comments)
    <2>1. Len(comments) \in Nat /\ DOMAIN comments = 1 .. Len(comments) /\ DOMAIN comments \subseteq DOMAIN comments'
      BY <1>1 DEF Grows, Cut
    <2>2. /\ Receipts(comments) \subseteq Receipts(comments') /\ Resolutions(comments) \subseteq Resolutions(comments')
      BY <1>1, KindsCut DEF Grows
    <2>3. \A i \in DOMAIN comments : comments'[i] = comments[i]
      BY <1>1, <2>1, GrowsFacts
    <2>4. ASSUME NEW i \in Receipts(comments) \cup Resolutions(comments), Mistimed(comments, i)
          PROVE  Mistimed(comments', i)
      <3>1. i \in DOMAIN comments /\ comments[i].challenge \in DOMAIN comments
        BY <1>1, <2>1, WellFormedFacts DEF WellFormed
      <3>2. comments'[i] = comments[i] /\ comments'[comments[i].challenge] = comments[comments[i].challenge]
        BY <2>3, <3>1
      <3> QED
        BY <2>2, <2>4, <3>2 DEF Mistimed, ValidAt, Expired, TimeMatches
    <2> QED
      BY <2>1, <2>4 DEF Timely, Mistimed
  <1>4. Readable(comments)
    BY <1>2, <1>3 DEF ReadableUnlessSpoilt, Timely
  <1>5. x.kind # "challenge" => History(c) = comments /\ Prefix(job[c].seen) = comments
    <2>1. Prefix(Len(comments)) = comments
      BY <1>1, Seen, HistoryFacts
    <2> QED
      BY <1>1, <1>2, <2>1, JobTyped
  <1> QED
    BY <1>4, <1>5

(* Challenges and closures.                                                *)
LEMMA ChallengesReadable ==
  ASSUME Sound, ReadableUnlessSpoilt, ClocksAgree, NEW c \in Controllers, ~ raced', Timely(comments'),
         PostChallenge(c) \/ Close(c)
  PROVE  Readable(comments')
  <1> DEFINE n == Len(comments)
             e == n + 1
  <1>1. TypeOK /\ HistorySound /\ WellFormed(comments) /\ Cut(comments, comments, n) /\ n \in Nat /\ now \in Nat
    BY HistoryFacts, Bounds DEF Sound, TypeOK
  <1>2. CASE PostChallenge(c)
    <2> DEFINE x == ChallengeOf(c)
    <2>1. /\ Posts(c, x) /\ x.kind = "challenge" /\ x \in Comment /\ comments' = Append(comments, x)
          /\ x.at = Date /\ x.created = now /\ Date \in Clock
      BY <1>2, ChallengePosts DEF ChallengeOf, Posts
    <2>2. Readable(comments)
      BY <2>1, NotSpoilt
    <2> HIDE DEF x
    <2>3. /\ Cut(comments, comments', n) /\ Receipts(comments') = Receipts(comments)
          /\ Resolutions(comments') = Resolutions(comments) /\ Closures(comments') = Closures(comments)
          /\ Convergences(comments') = Convergences(comments)
          /\ Challenges(comments') = Challenges(comments) \cup {e} /\ comments'[e] = x
      BY <1>1, <2>1, AppendKind
    <2>4. TimeMatches(comments'[e])
      BY <1>1, <2>1, <2>3, ClockAgrees DEF TimeMatches
    <2> QED
      BY <1>1, <2>2, <2>3, <2>4, ReadableGrows
  <1>3. CASE Close(c)
    <2> DEFINE x == ClosureOf(c)
               k == job[c].class
               d == Min(Open(c))
    <2>1. /\ Posts(c, x) /\ x.kind = "closure" /\ x \in Comment /\ comments' = Append(comments, x)
          /\ x.canonical = k /\ x.duplicate = d /\ x.at = Date /\ x.created = now
      BY <1>3, ClosePosts DEF ClosureOf, Closure, Posts
    <2>2. Readable(comments) /\ History(c) = comments
      BY <2>1, NotSpoilt
    <2>3. /\ k \in Classes(comments) /\ d \in Open(c) /\ comments[d] \in EvaluationChallenge
          /\ \E t \in Clock : Date = ClosedAt(comments[d], t)
      BY <1>3, ClosePosts
    <2> HIDE DEF x, k, d
    <2>4. /\ Cut(comments, comments', n) /\ comments'[e] = x /\ Receipts(comments') = Receipts(comments)
          /\ Resolutions(comments') = Resolutions(comments) /\ Closures(comments') = Closures(comments) \cup {e}
          /\ Convergences(comments') = Convergences(comments) /\ e \notin Closures(comments)
          /\ Challenges(comments') = Challenges(comments)
      BY <1>1, <2>1, AppendKind
    <2>5. d \in Challenges(comments) /\ Canonical(comments)[d] = k /\ d # k /\ \A l \in Closures(comments) : comments[l].duplicate # d
      <3>1. d \in Members(comments, k) /\ d \in Unclosed(comments)
        BY <2>2, <2>3 DEF Open, k
      <3>2. d \in Challenges(comments) /\ Canonical(comments)[d] = k
        BY <1>1, <3>1, ClassFacts
      <3> QED
        BY <2>3, <3>1, <3>2 DEF Unclosed
    <2>6. ClosureValid(comments', e)
      <3>1. k < d /\ d < e
        <4>1. k \in Nat /\ k <= d
          BY <1>1, <2>5, CanonicalFacts
        <4>2. d \in 1 .. n
          BY <1>1, <2>5, WellFormedFacts
        <4> QED
          BY <1>1, <2>5, <4>1, <4>2
      <3>2. Canonical(comments')[d] = k
        BY <2>4, <2>5, CanonicalCut
      <3>3. comments'[d].created <= x.at /\ comments'[d].at <= x.at /\ TimeMatches(x)
        <4> DEFINE challenge == comments[d]
        <4>1. PICK t \in Clock : Date = ClosedAt(challenge, t)
          BY <2>3
        <4>2. t \in Nat /\ t <= now + Tolerance /\ now <= t + Tolerance
          BY <1>1, ClockAgrees
        <4>3. /\ challenge.created \in Nat /\ challenge.at \in Nat /\ challenge.created <= now
              /\ challenge.at <= challenge.created + Tolerance
          BY <1>1, <2>2, <2>3, <2>5 DEF HistorySound, Readable, TimeMatches, EvaluationChallenge
        <4>4. comments'[d] = challenge
          BY <1>1, <2>4, <2>5, WellFormedFacts DEF Cut
        <4>5. challenge \in EvaluationChallenge
          BY <2>3
        <4> HIDE DEF challenge
        <4>6. /\ Date \in {t, challenge.created, challenge.at} /\ t <= Date
              /\ challenge.created <= Date /\ challenge.at <= Date
          BY <4>1, <4>2, <4>5, ClosedLate
        <4> QED
          BY <1>1, <2>1, <4>2, <4>3, <4>4, <4>6, Bounds DEF TimeMatches
      <3>4. \A l \in Closures(comments') \ {e} : comments'[l].duplicate # d
        <4>1. \A l \in Closures(comments) : comments'[l] = comments[l]
          <5>1. Closures(comments) \subseteq 1 .. n
            BY <1>1, WellFormedFacts
          <5> QED
            BY <2>4, <5>1 DEF Cut
        <4> QED
          BY <2>4, <2>5, <4>1
      <3> QED
        BY <2>1, <2>4, <3>1, <3>2, <3>3, <3>4 DEF ClosureValid
    <2> QED
      BY <1>1, <2>2, <2>4, <2>6, ReadableGrows
  <1> QED
    BY <1>2, <1>3

(* A comment about a class that has come to nothing contradicts no other.  *)
LEMMA EndReadable ==
  ASSUME NEW h, WellFormed(h), Readable(h), NEW x \in Comment, WellFormed(Append(h, x)),
         x.kind \in {"receipt", "resolution"},
         NEW i, i = x.challenge, i \in Challenges(h), Canonical(h)[i] = i, Ends(h, i) = {},
         x.kind = "receipt" =>
           /\ MatchesReceipt(Append(h, x), i, Len(h) + 1) /\ TimeMatches(x)
           /\ \A s \in Receipts(h) : ~ SharesIdentifier(Append(h, x), Len(h) + 1, s),
         x.kind = "resolution" => MatchesResolution(Append(h, x), i, Len(h) + 1)
  PROVE  Readable(Append(h, x))
  <1> DEFINE g == Append(h, x)
             e == Len(h) + 1
  <1>1. /\ Cut(h, g, Len(h)) /\ g[e] = x
        /\ x.kind = "receipt" => Receipts(g) = Receipts(h) \cup {e} /\ Resolutions(g) = Resolutions(h)
        /\ x.kind = "resolution" => Resolutions(g) = Resolutions(h) \cup {e} /\ Receipts(g) = Receipts(h)
        /\ Closures(g) = Closures(h) /\ Convergences(g) = Convergences(h) /\ Challenges(g) = Challenges(h)
        /\ e \notin Receipts(h) \cup Resolutions(h)
    BY AppendKind
  <1>2. MatchesReceipt(Append(h, x), i, Len(h) + 1) <=> MatchesReceipt(g, i, e)
    OBVIOUS
  <1>3. /\ x.kind = "receipt" => MatchesReceipt(g, i, e) /\ TimeMatches(x) /\ \A s \in Receipts(h) : ~ SharesIdentifier(g, e, s)
        /\ x.kind = "resolution" => MatchesResolution(g, i, e)
    OBVIOUS
  <1> HIDE DEF g, e
  <1>4. \A r \in Receipts(g) \ Receipts(h) :
          /\ MatchesReceipt(g, g[r].challenge, r) /\ TimeMatches(g[r])
          /\ \A s \in Receipts(g) : SharesIdentifier(g, r, s) => s \in Group(g, r)
    <2>1. ASSUME NEW r \in Receipts(g) \ Receipts(h)
          PROVE  /\ MatchesReceipt(g, g[r].challenge, r) /\ TimeMatches(g[r])
                 /\ \A s \in Receipts(g) : SharesIdentifier(g, r, s) => s \in Group(g, r)
      <3>1. r = e /\ x.kind = "receipt"
        BY <1>1, <2>1
      <3>2. MatchesReceipt(g, g[r].challenge, r) /\ TimeMatches(g[r])
        BY <1>1, <1>3, <3>1
      <3>3. e \in Group(g, e)
        BY <2>1, <3>1 DEF Group
      <3> QED
        BY <1>1, <1>3, <3>1, <3>2, <3>3
    <2> QED
      BY <2>1
  <1>5. \A s \in Resolutions(g) \ Resolutions(h) : MatchesResolution(g, g[s].challenge, s)
    BY <1>1, <1>3
  <1>6. ASSUME NEW s \in (Receipts(g) \cup Resolutions(g)) \ (Receipts(h) \cup Resolutions(h)),
               NEW t \in Receipts(g) \cup Resolutions(g), s # t,
               Canonical(g)[g[s].challenge] = Canonical(g)[g[t].challenge]
        PROVE  FALSE
    <2>1. s = e /\ t \in Receipts(h) \cup Resolutions(h)
      BY <1>1, <1>6
    <2>2. g[t] = h[t] /\ h[t].challenge \in Challenges(h)
      <3>1. t \in 1 .. Len(h)
        BY <2>1, WellFormedFacts
      <3>2. g[t] = h[t]
        BY <1>1, <3>1 DEF Cut
      <3> QED
        BY <2>1, <3>2 DEF WellFormed
    <2>3. Canonical(g)[g[t].challenge] = Canonical(h)[h[t].challenge] /\ Canonical(g)[g[s].challenge] = i
      BY <1>1, <2>1, <2>2, CanonicalCut, KindsCut
    <2>4. t \in Ends(h, i)
      BY <1>6, <2>1, <2>3, ReceiptEnds
    <2> QED
      BY <2>4
  <1>7. Readable(g)
    BY <1>1, <1>4, <1>5, <1>6, ReadableGrows
  <1> QED
    BY <1>7 DEF g

LEMMA ReceiptReadable ==
  ASSUME Sound, ReadableUnlessSpoilt, ClocksAgree, InOrder, RoundsSound, NEW c \in Controllers, ~ raced', Timely(comments'),
         PostReceipt(c)
  PROVE  Readable(comments')
  <1> DEFINE n == Len(comments)
             e == n + 1
             x == ReceiptOf(c)
             i == job[c].target
  <1>1. TypeOK /\ HistorySound /\ WellFormed(comments) /\ Cut(comments, comments, n) /\ n \in Nat
    BY HistoryFacts DEF Sound
  <1>2. /\ Posts(c, x) /\ x \in EvaluationReceipt /\ x \in Comment /\ comments' = Append(comments, x)
        /\ WellFormed(comments') /\ WellFormed(Append(comments, x))
        /\ job[c].pc = "record" /\ i \in issued /\ i \in Challenges(comments) /\ Date \in Clock
    BY ReceiptPosts DEF Posts
  <1>3. /\ x.kind = "receipt" /\ x.challenge = i /\ x.run = job[c].run /\ x.view = job[c].view
        /\ x.round = Cardinality(Logical(History(c))) + 1 /\ x.at = Date /\ x.created = now
    BY DEF ReceiptOf
  <1>4. Readable(comments) /\ History(c) = comments /\ Prefix(job[c].seen) = comments
    BY <1>2, <1>3, NotSpoilt
  <1>5. /\ RecordOf(comments, job[c].run) = {} /\ Outcomes(comments, i) = {} /\ comments[i].view = job[c].view
    BY <1>2, <1>4 DEF Sound, JobsSound, PlaceSound
  <1>6. Canonical(comments)[i] = i
    BY <1>2 DEF InOrder
  <1>7. Ends(comments, i) = {}
    BY <1>5 DEF Outcomes, Ends
  <1>8. /\ Cut(comments, comments', n) /\ comments'[e] = x /\ Receipts(comments') = Receipts(comments) \cup {e}
    BY <1>1, <1>2, <1>3, AppendKind
  <1>9. i \in 1 .. n /\ comments'[i] = comments[i] /\ comments[i].created <= now
    <2>1. i \in 1 .. n
      BY <1>1, <1>2, WellFormedFacts
    <2> QED
      BY <1>1, <1>2, <1>8, <2>1 DEF Cut, HistorySound
  <1> HIDE DEF x, i
  <1>10. MatchesReceipt(comments', i, e)
    <2>1. ValidAt(comments', comments'[e].challenge, comments'[e].at)
      <3>1. e \in DOMAIN comments' /\ e \in Receipts(comments')
        BY <1>8 DEF Receipts, Of
      <3> QED
        BY <3>1 DEF Timely, Mistimed
    <2>2. i < e
      BY <1>1, <1>9
    <2> QED
      BY <1>3, <1>5, <1>8, <1>9, <2>1, <2>2 DEF MatchesReceipt
  <1>11. ASSUME NEW s \in Receipts(comments) PROVE ~ SharesIdentifier(comments', e, s)
    <2>1. s \in 1 .. n /\ comments'[s] = comments[s]
      <3>1. s \in 1 .. n
        BY <1>1, WellFormedFacts
      <3> QED
        BY <1>8, <3>1 DEF Cut
    <2>2. comments[s].run # job[c].run
      BY <1>5 DEF RecordOf
    <2>3. comments[s].challenge # i
      BY <1>1, <1>4, <1>6, <1>7, ReceiptEnds
    <2>4. comments[s].round # Cardinality(Logical(comments)) + 1
      <3> DEFINE f == Min(Group(comments, s))
      <3>1. f \in Logical(comments) /\ f \in Group(comments, s)
        BY <1>1, FirstCopy
      <3> HIDE DEF f
      <3>2. f \in Receipts(comments) /\ Facts(comments[f]) = Facts(comments[s])
        BY <3>1, Counted DEF Group
      <3>3. comments[f] \in EvaluationReceipt /\ comments[s] \in EvaluationReceipt
        BY <1>1, <3>2, CommentTypes DEF TypeOK
      <3>4. comments[f].round = comments[s].round
        BY <3>2, <3>3, FactsAgree
      <3>5. {comments[r].round : r \in Logical(comments)} = 1 .. Cardinality(Logical(comments))
        BY <1>4 DEF RoundsSound
      <3>6. comments[f].round \in 1 .. Cardinality(Logical(comments))
        BY <3>1, <3>5
      <3>7. Cardinality(Logical(comments)) \in Nat
        BY <1>1, CountsTyped, Counted
      <3> QED
        BY <3>4, <3>6, <3>7
    <2> QED
      BY <1>3, <1>4, <1>8, <2>1, <2>2, <2>3, <2>4 DEF SharesIdentifier
  <1>12. Readable(Append(comments, x))
    <2>1. MatchesReceipt(Append(comments, x), i, Len(comments) + 1) /\ TimeMatches(x)
      <3>1. now \in Nat
        BY <1>1, Bounds DEF TypeOK
      <3>2. TimeMatches(x)
        BY <1>2, <1>3, <3>1, ClockAgrees DEF TimeMatches
      <3> QED
        BY <1>2, <1>10, <3>2
    <2>2. \A s \in Receipts(comments) : ~ SharesIdentifier(Append(comments, x), Len(comments) + 1, s)
      BY <1>2, <1>11
    <2>3. i = x.challenge /\ x.kind \in {"receipt", "resolution"} /\ ~ x.kind = "resolution"
      BY <1>3
    <2> QED
      BY <1>1, <1>2, <1>4, <1>6, <1>7, <2>1, <2>2, <2>3, EndReadable
  <1> QED
    BY <1>2, <1>12

LEMMA ResolutionReadable ==
  ASSUME Sound, ReadableUnlessSpoilt, ClocksAgree, NEW c \in Controllers, ~ raced', Timely(comments'), PostResolution(c)
  PROVE  Readable(comments')
  <1> DEFINE n == Len(comments)
             e == n + 1
             x == ResolutionOf(c)
             y == Resolution(c, Date, Date)
             i == job[c].target
  <1>1. TypeOK /\ HistorySound /\ WellFormed(comments) /\ Cut(comments, comments, n) /\ n \in Nat /\ now \in Nat
    BY HistoryFacts, Bounds DEF Sound, TypeOK
  <1>2. /\ Posts(c, x) /\ x \in Comment /\ comments' = Append(comments, x) /\ WellFormed(Append(comments, x))
        /\ job[c].pc = "resolve" /\ i \in Challenges(comments) /\ y \in Comment
        /\ Date \in Clock /\ Strict(Append(History(c), y))
    BY ResolutionPosts DEF Posts
  <1>3. /\ x.kind = "resolution" /\ x.challenge = i /\ x.observed = job[c].view.head /\ x.at = Date /\ x.created = now
        /\ y.kind = "resolution" /\ y.challenge = i /\ y.observed = job[c].view.head /\ y.at = Date
    BY DEF ResolutionOf, Resolution
  <1>4. Readable(comments) /\ History(c) = comments /\ Prefix(job[c].seen) = comments
    BY <1>2, <1>3, NotSpoilt
  <1>5. i \in Outstanding(comments)
    BY <1>2, <1>4 DEF Sound, JobsSound, PlaceSound, Resolvable
  <1>6. Canonical(comments)[i] = i /\ Ends(comments, i) = {}
    BY <1>1, <1>5, HistoryFacts, ClassFacts
  <1> HIDE DEF x, y, i
  <1>7. /\ Cut(comments, comments', n) /\ comments'[e] = x /\ Resolutions(comments') = Resolutions(comments) \cup {e}
    BY <1>1, <1>2, <1>3, AppendKind
  <1>8. i \in 1 .. n /\ comments'[i] = comments[i] /\ comments[i].created <= now
    <2>1. i \in 1 .. n
      BY <1>1, <1>2, WellFormedFacts
    <2> QED
      BY <1>1, <1>2, <1>7, <2>1 DEF Cut, HistorySound
  <1>9. x.observed # comments[i].view.head \/ Expired(comments, i, Date)
    <2> DEFINE g == Append(comments, y)
    <2>1. Readable(g)
      BY <1>2, <1>4 DEF Strict
    <2>2. Cut(comments, g, n) /\ g[e] = y /\ Resolutions(g) = Resolutions(comments) \cup {e}
      BY <1>1, <1>2, <1>3, AppendKind
    <2> HIDE DEF g
    <2>3. MatchesResolution(g, i, e)
      BY <1>3, <2>1, <2>2 DEF Readable
    <2>4. g[i] = comments[i]
      BY <1>8, <2>2 DEF Cut
    <2> QED
      BY <1>3, <2>2, <2>3, <2>4 DEF MatchesResolution, Expired
  <1>10. x.observed # comments[i].view.head \/ Expired(comments, i, now)
    <2>1. e \in DOMAIN comments' /\ e \in Resolutions(comments')
      BY <1>7 DEF Resolutions, Of
    <2> QED
      BY <1>3, <1>7, <1>8, <2>1 DEF Timely, Mistimed, Expired
  <1>11. MatchesResolution(comments', i, e)
    <2>1. i < e
      BY <1>1, <1>8
    <2>2. TimeMatches(x)
      BY <1>1, <1>2, <1>3, ClockAgrees DEF TimeMatches
    <2> QED
      BY <1>3, <1>7, <1>8, <1>9, <1>10, <2>1, <2>2 DEF MatchesResolution, Expired
  <1>12. Readable(Append(comments, x))
    <2>1. MatchesResolution(Append(comments, x), i, Len(comments) + 1)
      BY <1>2, <1>11
    <2>2. i = x.challenge /\ x.kind \in {"receipt", "resolution"} /\ ~ x.kind = "receipt"
      BY <1>3
    <2> QED
      BY <1>1, <1>2, <1>4, <1>6, <2>1, <2>2, EndReadable
  <1> QED
    BY <1>2, <1>12

LEMMA ReadableKept ==
  ASSUME Sound, InOrder, RoundsSound, ReadableUnlessSpoilt, [Next]_vars
  PROVE  ReadableUnlessSpoilt'
  <1>1. CASE UNCHANGED <<comments, raced>>
    BY <1>1 DEF ReadableUnlessSpoilt
  <1>2. ASSUME ClocksAgree, NEW c \in Controllers, Posting(c), ~ raced', Timely(comments') PROVE Readable(comments')
    <2>1. CASE PostChallenge(c) \/ Close(c)
      BY <1>2, <2>1, ChallengesReadable
    <2>2. CASE PostReceipt(c)
      BY <1>2, <2>2, ReceiptReadable
    <2>3. CASE PostResolution(c)
      BY <1>2, <2>3, ResolutionReadable
    <2>4. CASE ConvergeReceipts(c) \/ ConvergePosted(c)
      <3> DEFINE x == Convergence(History(c))
      <3>1. Posts(c, x) /\ Strict(Append(History(c), x)) /\ x.kind = "convergence" /\ comments' = Append(comments, x)
        BY <2>4, ConvergencePosts DEF Posts, Convergence
      <3>2. History(c) = comments
        BY <1>2, <3>1, NotSpoilt
      <3> QED
        BY <3>1, <3>2 DEF Strict
    <2> QED
      BY <1>2, <2>1, <2>2, <2>3, <2>4 DEF Posting
  <1>3. CASE \E c \in Controllers : Quiet(c)
    BY <1>1, <1>3, QuietSteps
  <1>4. CASE \E c \in Controllers : Posting(c)
    BY <1>2, <1>4 DEF ReadableUnlessSpoilt, Timely, ClocksAgree
  <1>5. CASE Outside
    <2>1. UNCHANGED <<comments, raced>>
      BY <1>5 DEF Outside, Edit, Tick, Examining, Examine, vars
    <2> QED
      BY <1>1, <2>1
  <1> QED
    BY <1>3, <1>4, <1>5, StepCases

-----------------------------------------------------------------------------
(* The invariant                                                           *)

LEMMA InvInit ==
  ASSUME Init
  PROVE  IInv
  <1>1. /\ comments = <<>> /\ view = AnyView /\ now = 0 /\ issued = {} /\ reported = {} /\ needsHuman = FALSE
        /\ attested = [r \in Runs |-> Nothing] /\ job = [c \in Controllers |-> Idle] /\ edits = 0 /\ raced = FALSE
    BY DEF Init
  <1>2. comments \in Seq(Comment) /\ Len(comments) = 0 /\ DOMAIN comments = {}
    BY <1>1
  <1>3. /\ Challenges(comments) = {} /\ Receipts(comments) = {} /\ Resolutions(comments) = {}
        /\ Closures(comments) = {} /\ Convergences(comments) = {}
    BY <1>2 DEF Challenges, Receipts, Resolutions, Closures, Convergences, Of
  <1>4. TypeOK
    <2>1. Idle \in Command(0)
      BY Bounds DEF Idle, Command, Places
    <2>2. job \in [Controllers -> Command(Len(comments))]
      BY <1>1, <1>2, <2>1
    <2>3. /\ view \in Views /\ now \in 0 .. Horizon /\ edits \in 0 .. MaxEdits /\ Len(comments) <= MaxComments
      BY <1>1, <1>2, Bounds
    <2>4. attested \in [Runs -> {Nothing} \cup [challenge : issued, verdict : {"pass", "fail"}]]
      BY <1>1
    <2>5. /\ issued \subseteq Challenges(comments) /\ reported \subseteq {r \in Runs : attested[r] # Nothing}
          /\ needsHuman \in BOOLEAN /\ raced \in BOOLEAN
      BY <1>1
    <2> QED
      BY <1>2, <2>2, <2>3, <2>4, <2>5 DEF TypeOK
  <1>5. WellFormed(comments) /\ HistorySound
    BY <1>2, <1>3 DEF WellFormed, HistorySound
  <1>6. ReceiptsSound /\ CopiesOnly /\ ReportsSound /\ InOrder
    BY <1>1, <1>3 DEF ReceiptsSound, CopiesOnly, ReportsSound, InOrder
  <1>7. Logical(comments) = {}
    BY <1>3, Counted
  <1>8. RoundsSound
    BY <1>7, FS_EmptySet DEF RoundsSound
  <1>9. ReadableUnlessSpoilt
    <2>1. Readable(comments)
      BY <1>3 DEF Readable, ReceiptsValid, NoConflict
    <2> QED
      BY <2>1 DEF ReadableUnlessSpoilt
  <1>10. JobsSound
    BY <1>1, <1>4, IdleSound DEF JobsSound
  <1> QED
    BY <1>4, <1>5, <1>6, <1>8, <1>9, <1>10 DEF IInv

(* The invariant of the evaluation commands is inductive.                  *)
THEOREM SoundAlways == Spec => []IInv
  <1>1. ASSUME IInv, [Next]_vars PROVE IInv'
    <2>1. Sound /\ ReceiptsSound /\ InOrder /\ RoundsSound /\ CopiesOnly /\ ReportsSound /\ ReadableUnlessSpoilt
      BY <1>1 DEF IInv, Sound
    <2>2. Sound'
      BY <1>1, <2>1, SoundStep
    <2>3. /\ ReceiptsSound' /\ InOrder' /\ RoundsSound' /\ CopiesOnly' /\ ReportsSound' /\ ReadableUnlessSpoilt'
      BY <1>1, <2>1, ReceiptsKept, InOrderKept, RoundsKept, CopiesKept, ReportsKept, ReadableKept
    <2> QED
      BY <2>2, <2>3 DEF IInv, Sound
  <1> QED
    BY <1>1, InvInit, PTL DEF Spec

-----------------------------------------------------------------------------
(* What it means                                                           *)

LEMMA OrderMeans ==
  ASSUME IInv
  PROVE  OneIssuedOutstanding
  <1> DEFINE S == {i \in issued : Canonical(comments)[i] \in Outstanding(comments)}
  <1>1. TypeOK /\ HistorySound /\ InOrder
    BY DEF IInv
  <1>2. issued \subseteq Nat
    BY <1>1, ChallengesTyped, HistoryFacts
  <1>3. ASSUME NEW i \in S, NEW j \in S PROVE i = j
    <2>1. i \in Outstanding(comments) /\ j \in Outstanding(comments)
      BY <1>1 DEF InOrder
    <2>2. i <= j /\ j <= i
      BY <1>1, <2>1 DEF InOrder
    <2> QED
      BY <1>2, <2>2
  <1>4. Cardinality(S) <= 1
    <2>1. CASE S = {}
      BY <2>1, FS_EmptySet
    <2>2. CASE S # {}
      <3>1. PICK i : S = {i}
        BY <1>3, <2>2
      <3>2. Cardinality({i}) = 1
        BY FS_Singleton
      <3> QED
        BY <3>1, <3>2
    <2> QED
      BY <2>1, <2>2
  <1> QED
    BY <1>4 DEF OneIssuedOutstanding

LEMMA CopiesMean ==
  ASSUME IInv
  PROVE  RecordedStands
  <1>1. TypeOK /\ HistorySound /\ ReceiptsSound /\ CopiesOnly /\ ReportsSound
    BY DEF IInv
  <1>2. WellFormed(comments) /\ Cut(comments, comments, Len(comments)) /\ Len(comments) \in Nat
        /\ Receipts(comments) \subseteq 1 .. Len(comments)
    BY <1>1, HistoryFacts, WellFormedFacts
  <1>3. ASSUME NEW r \in reported
        PROVE  \E f : Logical(comments) \cap RecordOf(comments, r) = {f}
    <2>1. PICK s \in RecordOf(comments, r) : Readable(Prefix(s))
      BY <1>1 DEF ReportsSound, HasRecorded
    <2>2. s \in Receipts(comments) /\ comments[s].run = r
      BY <2>1 DEF RecordOf
    <2> DEFINE f == Min(Group(comments, s))
    <2>3. f \in Logical(comments) /\ f \in Group(comments, s) /\ f <= s /\ f \in Receipts(comments)
      BY <1>2, <2>2, FirstCopy, Counted
    <2> HIDE DEF f
    <2>4. f \in RecordOf(comments, r)
      <3>1. comments[f] \in EvaluationReceipt /\ comments[s] \in EvaluationReceipt
        BY <1>1, <2>2, <2>3, CommentTypes DEF TypeOK
      <3>2. Facts(comments[f]) = Facts(comments[s])
        BY <2>3 DEF Group
      <3>3. comments[f].run = r
        BY <2>2, <3>1, <3>2, FactsAgree
      <3> QED
        BY <2>3, <3>3 DEF RecordOf
    <2>5. ASSUME NEW g \in Receipts(comments), g <= s PROVE Readable(Prefix(g))
      <3>1. g \in 0 .. Len(comments) /\ s \in 0 .. Len(comments)
        BY <1>2, <2>2
      <3>2. /\ WellFormed(Prefix(g)) /\ Cut(Prefix(g), comments, g) /\ Cut(Prefix(s), comments, s)
        BY <1>1, <3>1, Seen
      <3>3. Cut(Prefix(g), Prefix(s), g)
        BY <2>5, <3>2, CutOfCut
      <3> QED
        BY <2>1, <3>2, <3>3, ReadableCut
    <2>6. ASSUME NEW g \in Logical(comments) \cap RecordOf(comments, r) PROVE g = f
      <3>1. g \in Receipts(comments) /\ comments[g].run = comments[f].run /\ g \in Nat /\ f \in Nat /\ s \in Nat
        BY <1>2, <2>2, <2>3, <2>4 DEF RecordOf
      <3>2. CASE g < f
        <4>1. Readable(Prefix(g))
          BY <2>3, <2>5, <3>1, <3>2
        <4>2. f \in Group(comments, g)
          BY <1>1, <2>3, <3>1, <3>2, <4>1 DEF CopiesOnly
        <4>3. g \in Group(comments, f)
          BY <3>1, <4>2 DEF Group
        <4> QED
          BY <1>2, <2>3, <3>2, <4>3, LogicalIs
      <3>3. CASE f < g
        <4>1. Readable(Prefix(f))
          BY <2>3, <2>5
        <4>2. g \in Group(comments, f)
          BY <1>1, <2>3, <3>1, <3>3, <4>1 DEF CopiesOnly
        <4>3. f \in Group(comments, g)
          BY <2>3, <4>2 DEF Group
        <4> QED
          BY <1>2, <2>6, <3>3, <4>3, LogicalIs
      <3> QED
        BY <3>1, <3>2, <3>3
    <2> QED
      BY <2>3, <2>4, <2>6
  <1>4. ASSUME NEW r, NEW s \in Logical(comments) \cap RecordOf(comments, r)
        PROVE  /\ comments[s].verdict = attested[r].verdict
               /\ comments[s].challenge = attested[r].challenge
               /\ comments[s].view = comments[attested[r].challenge].view
    <2>1. s \in Receipts(comments) /\ comments[s].run = r
      BY DEF RecordOf
    <2>2. /\ attested[r] = [challenge |-> comments[s].challenge, verdict |-> comments[s].verdict]
          /\ comments[s].view = comments[comments[s].challenge].view
      BY <1>1, <2>1 DEF ReceiptsSound
    <2> QED
      BY <2>2
  <1>5. \A r \in reported : Cardinality(Logical(comments) \cap RecordOf(comments, r)) = 1
    BY <1>3, FS_Singleton
  <1> QED
    BY <1>4, <1>5 DEF RecordedStands

LEMMA ReceiptsMean ==
  ASSUME IInv
  PROVE  AuthorityEarned
  <1>1. TypeOK /\ HistorySound /\ ReceiptsSound
    BY DEF IInv
  <1>2. WellFormed(comments) /\ Cut(comments, comments, Len(comments)) /\ Len(comments) \in Nat
        /\ Receipts(comments) \subseteq 1 .. Len(comments)
    BY <1>1, HistoryFacts, WellFormedFacts
  <1> SUFFICES ASSUME Authorizes(comments, view)
               PROVE  \E r \in Runs :
                        /\ attested[r].verdict = "pass"
                        /\ comments[attested[r].challenge].view = view
                        /\ \A s \in Receipts(comments) :
                             s \in UNION {Terminals(comments, m) :
                                            m \in Members(comments, Canonical(comments)[attested[r].challenge])}
                               => comments[s].run = r
    BY DEF AuthorityEarned
  <1> DEFINE l == Max(Logical(comments))
             r == comments[l].run
             i == comments[l].challenge
  <1>3. /\ Readable(comments) /\ Logical(comments) # {}
        /\ comments[l].view = view /\ comments[l].verdict = "pass"
    BY DEF Authorizes, Strict
  <1>4. l \in Receipts(comments)
    <2>1. Logical(comments) \subseteq 0 .. Len(comments)
      BY <1>2, Counted
    <2> QED
      BY <1>2, <1>3, <2>1, MaxIn, Counted
  <1> HIDE DEF l
  <1>5. comments[l] \in EvaluationReceipt
    BY <1>1, <1>4, CommentTypes DEF TypeOK
  <1>6. r \in Runs /\ attested[r].verdict = "pass" /\ attested[r].challenge = i /\ comments[i].view = view
    <2>1. attested[r] = [challenge |-> i, verdict |-> comments[l].verdict] /\ comments[l].view = comments[i].view
      BY <1>1, <1>4 DEF ReceiptsSound
    <2>2. r \in Runs
      BY <1>5 DEF EvaluationReceipt
    <2> QED
      BY <1>3, <2>1, <2>2
  <1>7. ASSUME NEW s \in Receipts(comments), s \in Ends(comments, Canonical(comments)[i]) PROVE comments[s].run = r
    <2>1. CASE s = l
      BY <2>1
    <2>2. CASE s # l
      <3>1. s \in Group(comments, l)
        BY <1>2, <1>3, <1>4, <1>7, <2>2, OneEnd
      <3>2. Facts(comments[s]) = Facts(comments[l]) /\ comments[s] \in EvaluationReceipt
        BY <1>1, <3>1, CommentTypes DEF Group, TypeOK
      <3> QED
        BY <1>5, <3>2, FactsAgree
    <2> QED
      BY <2>1, <2>2
  <1> HIDE DEF r, i
  <1>8. \A s \in Receipts(comments) :
          s \in UNION {Terminals(comments, m) : m \in Members(comments, Canonical(comments)[attested[r].challenge])}
            => comments[s].run = r
    BY <1>6, <1>7 DEF Ends
  <1> QED
    BY <1>6, <1>8

LEMMA RoundsMean ==
  ASSUME IInv
  PROVE  HandoffIsFinal
  <1> SUFFICES ASSUME Readable(comments)
               PROVE  /\ Cardinality(Fails(comments)) <= FailureLimit
                      /\ {comments[r].round : r \in Logical(comments)} = 1 .. Cardinality(Logical(comments))
                      /\ Cardinality(Fails(comments)) = FailureLimit =>
                           \A v \in Views : ~ Authorizes(comments, v)
    BY DEF HandoffIsFinal
  <1> DEFINE L == Logical(comments)
             F == Fails(comments)
  <1>1. TypeOK /\ HistorySound /\ RoundsSound
    BY DEF IInv
  <1>2. WellFormed(comments) /\ Len(comments) \in Nat /\ L \subseteq 1 .. Len(comments) /\ F \subseteq L
        /\ L \subseteq 0 .. Len(comments) /\ F \subseteq 0 .. Len(comments)
    <2>1. WellFormed(comments) /\ Len(comments) \in Nat /\ L \subseteq 1 .. Len(comments) /\ F \subseteq L
      BY <1>1, HistoryFacts, WellFormedFacts, Counted
    <2> QED
      BY <2>1
  <1>3. ASSUME NEW s \in L PROVE Cardinality(Before(F, s)) < FailureLimit
    <2>1. s \in 0 .. Len(comments)
      BY <1>2
    <2>2. Readable(Prefix(s))
      BY <1>1, <2>1, Seen, ReadableCut
    <2> QED
      BY <1>1, <2>2 DEF RoundsSound
  <1>4. Cardinality(F) \in Nat /\ \A s : Cardinality(Before(F, s)) \in Nat /\ IsFiniteSet(Before(F, s))
    <2>1. F \subseteq Receipts(comments) /\ \A s : Before(F, s) \subseteq Receipts(comments)
      BY Counted DEF Before
    <2> QED
      BY <1>2, <2>1, CountsTyped
  <1>5. {comments[r].round : r \in L} = 1 .. Cardinality(L)
    BY <1>1 DEF RoundsSound
  <1> HIDE DEF L, F
  <1>6. Cardinality(F) <= FailureLimit
    <2>1. CASE F = {}
      BY <2>1, Bounds, FS_EmptySet
    <2>2. CASE F # {}
      <3> DEFINE m == Max(F)
      <3>1. m \in F /\ \A s \in F : s <= m
        BY <1>2, <2>2, MaxIn
      <3> HIDE DEF m
      <3>2. m \in L /\ m \in Nat /\ F \subseteq Nat
        BY <1>2, <3>1
      <3>3. F = Before(F, m) \cup {m} /\ m \notin Before(F, m)
        <4>1. ASSUME NEW s \in F PROVE s < m \/ s = m
          <5>1. s \in Nat /\ s <= m
            BY <3>1, <3>2
          <5> QED
            BY <3>2, <5>1
        <4>2. ~ m < m
          BY <3>2
        <4>3. Before(F, m) = {s \in F : s < m}
          BY DEF Before
        <4> QED
          BY <3>1, <4>1, <4>2, <4>3
      <3>4. Cardinality(F) = Cardinality(Before(F, m)) + 1
        BY <1>4, <3>3, FS_AddElement
      <3>5. Cardinality(Before(F, m)) < FailureLimit
        BY <1>3, <3>2
      <3> QED
        BY <1>4, <3>4, <3>5, Bounds
    <2> QED
      BY <2>1, <2>2
  <1>7. ASSUME Cardinality(F) = FailureLimit, NEW v, Authorizes(comments, v) PROVE FALSE
    <2> DEFINE m == Max(L)
    <2>1. L # {} /\ comments[m].verdict = "pass"
      BY <1>7 DEF Authorizes, L
    <2>2. m \in L /\ \A s \in L : s <= m
      BY <1>2, <2>1, MaxIn
    <2> HIDE DEF m
    <2>3. m \notin F
      BY <2>1 DEF F, Fails
    <2>4. F \subseteq Nat /\ m \in Nat
      BY <1>2, <2>2
    <2>5. Before(F, m) = F
      <3>1. ASSUME NEW s \in F PROVE s < m
        <4>1. s \in Nat /\ s <= m /\ s # m
          BY <1>2, <2>2, <2>3, <2>4
        <4> QED
          BY <2>4, <4>1
      <3>2. Before(F, m) = {s \in F : s < m}
        BY DEF Before
      <3> QED
        BY <3>1, <3>2
    <2>6. Cardinality(Before(F, m)) < FailureLimit
      BY <1>3, <2>2
    <2> QED
      BY <1>4, <1>7, <2>5, <2>6, Bounds
  <1> QED
    BY <1>5, <1>6, <1>7 DEF L, F

(* What the commands read, check and post is of the kinds the code knows,  *)
(* and no snapshot is longer than the history.                             *)
THEOREM TypeCorrect == Spec => []TypeOK
  <1>1. IInv => TypeOK
    BY DEF IInv
  <1> QED
    BY <1>1, SoundAlways, PTL

(* However many controllers ask for a verdict at once, at most one of the  *)
(* challenges printed for an Examiner can still be given one: a challenge  *)
(* is printed when it is the only one that waits, and a class that waits   *)
(* has waited since its first challenge.                                   *)
THEOREM OneOutstanding == Spec => []OneIssuedOutstanding
  BY SoundAlways, OrderMeans, PTL

(* A recording that was reported stays: whatever controllers record at the *)
(* same time, the run's later receipts are copies of the first, because a  *)
(* history that can be read has no room for another round in between.      *)
THEOREM RecordsStand == Spec => []RecordedStands
  BY SoundAlways, CopiesMean, PTL

(* Whenever latestPassingEvaluationReceipt allows a merge, an Examiner run *)
(* passed a challenge about what the pull request now reads, and none      *)
(* failed its class.                                                       *)
THEOREM AuthorityIsEarned == Spec => []AuthorityEarned
  BY SoundAlways, ReceiptsMean, PTL

(* The limit of failures is final: rounds are numbered without a gap, no   *)
(* more than the limit fail, and after the last nothing allows a merge.    *)
THEOREM LimitIsFinal == Spec => []HandoffIsFinal
  BY SoundAlways, RoundsMean, PTL

(* While the clocks agree to the tolerance, only a comment other than a    *)
(* challenge that races another, or a receipt or a resolution on the wrong *)
(* side of a boundary of its challenge, makes a history unreadable.        *)
THEOREM SpoiltOnlyByRacesAndTimes == Spec => []ReadableUnlessSpoilt
  <1>1. IInv => ReadableUnlessSpoilt
    BY DEF IInv
  <1> QED
    BY <1>1, SoundAlways, PTL

=============================================================================
