# Formal models of goxsd9

TLA+ models of the parts of goxsd9 whose control is hard to test, TLC
configurations that check them on small instances, and proofs TLAPS checks for
every value of the constants. Line numbers below are those of the sources the
definitions translate; `PROJECT.json` maps each definition to its lines.

goxsd9 is two programs in one repository:

- a Go library and command-line tool that reads XML Schema documents, builds
  an immutable schema, validates instances and generates Go code. It is
  sequential: no product code starts a goroutine. What is hard in it are
  failures in the middle of a call that owns resources, fixpoints and
  union-finds whose result must not depend on the order of the input, and
  symbolic algorithms that compress an exponential search;
- `workflowctl`, which agents in worktrees of one clone use to claim issues,
  publish and merge pull requests and keep a GitHub Project in step. Its
  processes run concurrently and share a git remote, the refs of the clone and
  GitHub: no call holds a lock over a second one.

## Inventory

| Part | Source | State it keeps | Operations | Hard behaviour | What makes it correct |
| --- | --- | --- | --- | --- | --- |
| Document discovery | `discovery.go`, `resolver.go`, `schema_parse.go` | queue, seen identities, documents, edges; the streams it owns | preflight, decode, enqueue, finish | an error at any point with streams queued, in hand and in the decoder; cycles | every stream closed once, no close error lost, each identity decoded once, breadth first, terminates |
| Syntax | `syntax.go`, `xml_lexical.go`, `loc.go` | decoder, scopes, positions | decode one document, drain, close | reader failures | closes what it decodes |
| Composition | `schema_build.go:685-1203` | effective namespaces, union-find, visibility lists | chameleon adoption, edge validation, visibility | order of the edges, cycles of includes, path halving | fixpoint and verdict independent of order; visibility exact |
| Components, identities, references | `schema_build.go`, `schema_phase.go`, `schema_identity.go`, `schema.go` | interned identities, declarations in source order | intern, declare, resolve, order derivations | cycles of groups, types and attribute groups; omission of 0/0 particles | identities interned before references; each cycle rejected once; order deterministic |
| Datatypes and facets | `datatype*.go`, `precision_decimal*.go`, `string_whitespace.go` | immutable types | narrow bounds and enumerations, compare, parse | boundaries of bounded integers, incomparable precisionDecimal values | a derived facet never widens its base; comparison is a partial order |
| Instance validation | `validation*.go`, `particle_occurrence.go`, `instance.go` | a frontier of regions of counters per open sequence | child, end, text | regions affine in an outer count are merged and compared | the frontier is the set of states of the reference automaton |
| Code generation | `codegen_*.go` | allocated names, output | plan, allocate names, render | names that collide after sanitizing | names unique, output deterministic |
| Conformance tooling | `internal/conformance`, `cmd/conformance` | catalog, plan, outcomes | load, plan, execute | cases that are excluded by policy | each case is counted once |
| Specification corpus | `internal/specs`, `cmd/specs` | files on disk, manifest | download, verify, convert, install, search | failure between verification and installation | what is installed has the digest of the manifest |
| Command-line tool | `cmd/goxsd9` | budgets, files | resolve, validate, generate | path policy, budgets | errors leave no partial output |
| Claims | `claim.go` | branch `agent/issue-N` with markers, archives, worktrees, Project item | acquire, renew, verify, release | other processes between any two calls, crashes, lost replies, expiry | leases exclusive, published work never lost |
| Synchronization | `sync.go`, `project*.go` | Project items | sync, pick | stale snapshots written back | converges when undisturbed |
| Pull requests | `pr*.go`, `closing.go`, `recovery.go` | pull request, evidence, merge | open, finish, recover | merges whose answer is lost; a draft closed before its replacement exists | merged once, never without its evaluated head, never without an open pull request |
| Base synchronization | `base.go` | `main`, `origin/main`, submodules | fetch, fast-forward, verify, at most three attempts | other worktrees move `origin/main` meanwhile | ends with HEAD = origin/main holding the required merge; loses no commit |
| Claim resume, archived release, cleanup | `claim_resume*.go`, `claim_archive.go`, `resume.go`, `cleanup.go` | refs, worktrees, handoff comments | handoff, resume, release, prune | partial failures, exact heads, lost pushes | an interrupted resume is completed by rerunning it; deletes only what is proven merged or archived |
| Evaluation | `evaluation*.go` | challenges, receipts, resolutions as comments | challenge, receipt, resolve, converge | changed heads, expiry, repeated receipts | authority is bound to the evaluated head |
| Other commands | `docs*.go`, `signals.go`, `coverage.go`, `fuzz.go`, `history.go`, `envoy.go`, `doctor.go`, `skill_eval.go`, `backlog.go` | none of their own | reports over one snapshot | - | - |

The product parts call one another in the order of the table's first seven
rows, once per `ParseSchema`: discovery owns the streams and calls the decoder
for each document; composition gets the documents and edges in discovery order
and reads nothing else; components are built from the result. The commands of
`workflowctl` interact only through what they write to git and GitHub.

## Modules

| Module | Models | Kind |
| --- | --- | --- |
| `Discovery` | the FIFO discovery with every error return | state machine |
| `StreamLedger` | what a caller of `ParseSchema` is promised about streams | abstract specification, implemented by `Discovery` |
| `DiscoveryProofs` | the inductive invariant of `Discovery` and its consequences, the breadth-first order and the closure of its result | theorems |
| `Composition` | chameleon adoption, edge validation, union-find, visibility | state machine |
| `CompositionProofs` | the invariants of `Composition`, stage by stage, and its four results | theorems |
| `MCComposition` | all small graphs, and deeper include forests, for `Composition` | instance |
| `Claims` | acquire, renew, verify and pr open of one issue, and the steps of sync | concurrent state machine |
| `ClaimLock` | the leased lock a claim branch is | abstract specification, implemented by `Claims` |
| `ClaimsProofs` | the inductive invariant of `Claims`, exclusive leases, work kept, and the refinement | theorems |
| `MCClaims` | interchangeable runners for `Claims` | instance |
| `ClaimResume` | issue handoff and claim resume, beside the commands of `Claims` | concurrent state machine, extends `Claims` |
| `ClaimResumeProofs` | the invariant of `ClaimResume` on top of that of `Claims`: work kept, the label, exclusive leases and the lock | theorems |
| `MCClaimResume` | one runner that resumes, one that takes over | instance |
| `BaseSync` | base-sync and the synchronization after a merge, with other runs, worktrees, merges and people | concurrent state machine |
| `BaseContract` | what base synchronization promises the other commands | abstract specification, implemented by `BaseSync` |
| `BaseSyncProofs` | the inductive invariant of `BaseSync`, and the refinement | theorems |
| `MCBaseSync` | a history of three commits and one off it | instance |
| `PullFinish` | pr finish, draft replacement, merge, pr recover, cleanup | concurrent state machine |
| `PullFinishProofs` | the inductive invariant of `PullFinish`, its safety properties and what a step may remove | theorems |
| `EvaluationHistory` | what a history of evaluation comments means | operators |
| `Evaluation` | evaluation challenge, record and resolve of several controllers | concurrent state machine |
| `EvaluationProofs` | the inductive invariant of `Evaluation`, stage by stage, and its six results | theorems |
| `MCEvaluation` | two views of a pull request, interchangeable controllers and runs | instance |
| `SequenceRegions` | affine candidate regions: cutting, merging, compaction | operators |
| `SequenceMatch` | the streaming validator of a direct sequence | state machine |
| `SequenceProofs` | the operators of `SequenceRegions`, the inductive invariant of `SequenceMatch` and its consequences | theorems |
| `MCSequence` | the programs `SequenceMatch` is checked with | instance |

### Discovery

State: `queue`, `seen`, `documents` and `edges` are the fields of
`syntaxDiscovery`; `streams` numbers every `ResolvedSource` the call receives,
and `drained`, `closed`, `reclosed`, `closeErrors` and `reported` say what
became of each. `phase` is the place in the code: before the root is looked at
(`preflight`), at the head of the loop (`decode`), in the loop over the
references of the last document (`refs`), returned. Each action is one turn of
a loop or one error return with the closing that follows it: `RejectRoot` and
`AcceptRoot` are the preflight, `DecodeDocument` and `DecodeFailure` one call
of the decoder with what comes after it, `NoResolver`, `ResolveFailure`,
`EnqueueNew`, `CloseRepeated` and `CloseRepeatedFailure` the exits of
`enqueue`, `Fail` the work of `finish`. A document is its number of
references; what the resolver, the decoder and the readers answer is free, an
invalid source beside an error and a source whose `Close` fails included. The
cancellation of the context is one of the resolver's failures: discovery
itself never looks at the context.

### Composition

The input is any reference list `Discovery` can hand over (`Discovered`:
references grouped by source, each from a found document to a found or the next
new one) with any declared namespaces. One action is one turn of a loop: an
edge of an adoption pass, an edge of the validation, one halving step of
`schemaVisibilityFind`, one union, one document listed under its root, one
import followed, one member of its class listed unless it is already
(`sourceIDInList`). The visibility lists keep the code's order. The component
tables that the same functions carry along are left out; they are not read
there.

### Claims

One issue, several runners. The git remote is the ref `remote`; the refs of
the clone that its worktrees share are `tracking`; a commit is the newest
marker in its history (the run and its lease) with the set of its ancestors,
which is what `merge-base --is-ancestor` and a push that is not forced look
at. A runner's `job` holds where its command is and what it has read and made:
every step is one git or gh call with the local work after it, so commands of
several runners interleave between any two calls, and `Abort` ends a command
at any of them (a failed call or a dead process). A push can reach the remote
and lose its reply (`RenewPushFails`). Time passes in ticks; a lease is
compared with the clock where the code compares it. `granted` and `published`
are history: the leases a runner has been told it holds, and every commit the
branch has pointed at.

Left out: markers integrated with a merge of main (claim.go:276-288, 368-381,
397-403); the legacy local branch name, which `validateClaimLocalBranch`
accepts beside the fixed one; the window of 100 commits in which
`inspectRemoteClaim` looks for a marker; markers of other issues; comments.
The last lookup of a pull request and its creation are one step, because
GitHub refuses a second pull request for a branch; so are the reading and the
writing of the `needs-human` label.

### ClaimResume

An agent that stops without a pull request hands its issue off (`HandoffRead`
to `HandoffPost`: label, Backlog, and a comment that binds the head of the
claim), and `claim resume` takes the claim up again once the lease has run
out. The module adds these two commands, and sync, to those of `Claims`
(`ClaimStep`), so that acquisitions, syncs and other commands come between any two of their
calls. `proof[p]` is what the command has read: `read` the preflight being
read, `sealed` the one it must equal (readClaimResumeProof runs twice,
`ResumeHeads` to `ResumeItem`), `phase` the place in the reconciliation. The
renewal is one empty commit on the expected head, created, adopted locally by
a compare-and-swap (`ResumeAdopt`), pushed with a lease on the expected head
(`ResumePush`, `ResumePushLost`), read back (`ResumeReread`, `ResumeVerify`,
`ResumeVerifyRefs`); then the label and the Project are changed, each behind a
reading of the issue, its pull requests and its item (`TargetIssue`,
`TargetPulls`, `TargetItem`). Every call can fail (`Abort`) or lose its answer
(`ResumePushLost`, `MutationFails`), and the agent can commit in the worktree
at any time (`WorkMeanwhile`).

What a reader of the code may want to know:

- Every recoverable error ends with "Run `...` again" (claim_resume.go:23-31).
  After a push whose answer was lost, running it again is not enough: the
  clone's tracking ref still names the old head, and validateClaimResumeRefs
  refuses it (2609-2618) until something fetches. `ResumeConverges` therefore
  has sync beside the reruns; with it, a resume that was interrupted anywhere
  is completed.
- A renewal that was adopted locally but not pushed before its lease ended can
  neither be resumed (resume.go:643-652 demands a live one) nor renewed: the
  claim has to be acquired anew. `Refused` names it.
- For a claim without an unpublished source, the reading before the label and
  the Project are changed (2905-2956) looks at neither the branch nor the
  lease, although the comment above it speaks of "the full live claim": a
  claim that expires and is taken over at this point loses its label.

Left out: the bytes of the worktree with their digest and pending merges, the
text of the comments, `--unpublished-local-head` with its later integration
(claim_resume_unpublished.go), `pr resume`, `release-archived`.

### BaseSync

State: `remote` is main on GitHub, `tracking` the clone's `origin/main`, and
`head`, `dirty` and `pins` the primary checkout: its HEAD (on main), whether it
has local changes, and the commit its submodules are at (`NoPin`: they are not
checked out, which `git status` does not report). A run is the place in the
code with what it has read: `before`, `fetched`, `origin`, `after` and
`attempt` are the locals of `synchronizeBase`, `finishBaseSynchronization` and
`finalizeBaseSnapshot`. One action is one git command with the checks behind
it. `Merge` is `git merge --ff-only origin/main` at its four places; it uses
the `origin/main` of that moment, and not the one the run has read. A retry
starts again from the `origin/main` that was fetched first (base.go:396-399,
426-439), so it may report a concurrent change where there was none: an error,
not an unsound success. Commits are numbers with a history (`Past`) and a pin.

The environment: other worktrees fetch (`OtherFetch`), pull requests are
merged, main is rewritten, a person edits or commits in the primary checkout,
and a command fails or the run dies at any step. `BaseContract` says what a
success means and is what the rest of `workflowctl` relies on: `PullFinish`
takes the whole synchronization by its outcome: it succeeds as the contract
says, refuses the checkout as it is, or ends halfway.

Left out: a primary checkout on another branch, or moved, is refused before
anything is changed.

### PullFinish

One work packet: the claims (`closes`) of the primary issue and possibly of a
companion, the pull request and, when the draft cannot be marked ready, its
replacement. Per claim, `remote`, `tracking`, `local` and `worktree` are what
cleanup must remove: the branch on GitHub, its tracking ref, the run's local
branch and its worktree. Commits are 0 (the claim marker) to `MaxCommit`, or
another run's (`Foreign`). `Proof` is what the evaluated head binds the claims
to; a companion's is its first commit. `primary` is what base synchronization
makes of the primary checkout: it is `fit`; `apart`, with changes or commits of
its own, not on main, or main was rewritten; or `stale`, with submodules of an
older commit.

The actions follow finishPullRequest (validation, `gh pr ready` or the
replacement, the plan, the merge and its reconciliation) and
recoverPullRequest (proof of the merge, layout, synchronization, plan), and
then both share issue, Project, and cleanup: the inspection of a fresh layout,
refs, worktrees, remote branch, tracking ref, local branches, in that order,
one command each. `Synchronize` succeeds on a fit checkout and refuses any
other, on this run and on each later one (base.go:254-261, 348-356), until a
person makes it fit again (`ChangePrimary`); `SynchronizeHalfway` is a
synchronization that ends between the merge and the submodules, the state that
the run `base_repair` finds. A failure may come before or after the effect of a
command (`MarkReadyFails`, `CreateFails`, `MergeFails`, `SynchronizeHalfway`,
`DeleteRemoteFails`, `Fail`).
Evaluations are asked for, recorded and voided at any time; `evidence` is the
outcome of a history (`Evaluation` has the histories).

What a reader of the code may want to know: worktrees are removed with
`--force` after a status check (cleanup.go:2127-2156), so an edit made between
the two is lost, which `CleanupIsProven` therefore does not exclude; a
challenge posted when the merge has happened makes the proof of the evaluation
invalid for good (recovery.go:180-249), and recovery refuses (`Held`); a draft
that is closed, whose replacement fails and whose reopening fails leaves no
open pull request.

Left out: title, evidence and check validation, which refuse without effect;
run-local branches of other runs, which are reported as preserved; the text of
histories.

### Evaluation

`comments` is the history of a pull request as the commands of `workflowctl`
write it: challenges, closures of duplicate challenges, receipts, convergences
of duplicate receipts, resolutions. Comments are not edited, so what a
controller has read is a prefix (`seen`). `EvaluationHistory` says what a
history means, in the terms of the code: which challenges are one (`Canonical`),
which receipts repeat one another (`Group`), what ends a class (`Outcomes`),
when a history can be read at all (`Readable`), when nothing is left to
reconcile (`Strict`), and when it allows a merge (`Authorizes`, which is
latestPassingEvaluationReceipt).

A comment has two times: the date its author gave it (`at`) and GitHub's time
of its creation (`created`). GitHub's clock is `now`. A controller dates by its
own (`Clock`), which differs from GitHub's time of the post by one of `Skews`:
the difference of the clocks, less the time the post takes. `Readable` has
every check the code makes on the two: dates within the `Tolerance` (the five
minutes of commentTimeMatches, `TimeMatches`), a receipt within the validity of
its challenge (`ValidAt`), a resolution for the expiry that is late by both
times (`MatchesResolution`), a closure that is not dated before what it closes
(`ClosureValid`).

Each action of `Evaluation` is one read with the checks behind it, or one
post. Between them the head of the pull request moves (`Edit`), challenges
expire (`Tick`), other controllers post, and a command ends (`Stop`): the death
of the process, a check that fails, a post whose answer is lost. A receipt is
checked against the clock before the claims are looked up and dated after that
(evaluation.go:1774, 1798), and the model keeps the two apart.

What a reader of the code may want to know: a history that no command accepts
allows no merge, for good. `ReadableUnlessSpoilt` says that clocks that differ
by no more than the tolerance (`ClocksAgree`) leave only these ways to one:

- Challenges that race, and receipts of one run that race, can be reconciled;
  but two controllers that close the same duplicate both post a closure, and
  no command reads the history from then on ("multiple authenticated
  controller closures"). The same holds for a receipt that races a resolution
  of its challenge.
- A receipt dated outside the validity of its challenge: after the expiry,
  because the lookup of the claims took that long, or before GitHub's creation
  of the challenge, by a clock that is behind (evaluation.go:4187).
- A resolution for the expiry that GitHub created before it: the controller's
  clock is ahead, if only by seconds, and the check before the post asks that
  clock alone (evaluation.go:4167, 4178). Nobody has to race for it.

The last two are `Mistimed`. What the property excludes is that challenges,
closures or convergences spoil a history by their times, and that anything
else does; the other properties hold whatever the clocks show.

Left out: the repair of transport errors within one command except for the
copies it can leave, markers of the older formats without digests, claim
proofs of companions, the status commands and historical readers, the text and
the authentication of comments, reasons of a resolution other than expiry and a
moved head. Resolution
is only started for outstanding challenges (others are refused without
effect); handing an issue to people is one step.

### SequenceMatch

One validator of one element whose type is a direct sequence. `program`,
`frontier` and `previous` are its fields, `paths` and `name` those of the open
child; `queue` is that of `sequenceClosure`, one turn of whose loop is one
`CloseRegion`, while `frontier` holds the loop's result. `StartChild` and
`EndChild` are the start and end tag of a child, `EndRoot`, its closure and
`Decide` the end tag of the parent, `WrongContent` nested elements, attributes
and text where there may be none. A region is `instanceSequenceCandidate`:
iterations from `outer` to `outerMaximum`, and counts between two lines in the
number of iterations; `SequenceRegions` has every operation on it, with the
divisions of negative numbers, the order of merging and the order of sorting
as in the code. Arithmetic is exact there too (`big.Int`).

A child is abstracted to its name, which decides the particles it is tried
with, and, at its end tag, to the set of those particles whose type accepts
its text: same-named particles may differ in type
(validation_sequence_test.go:329), since only named groups enforce that equal
names have equal types. The first error decides what the caller sees
(instance.go, `recordSemantic`), so the model stops there. `code` names the
diagnostic of a precisionDecimal sequence, the only kind with a code of its
own per reason; `missing` is reported with the occurrence code. What
`sequenceCanBeginWith` computes again is the closure after the root's start
tag, kept in `starts`.

The two references the matcher is compared with are written independently of
regions and of each other: `Reached` runs the automaton state by state, and
`InGrammar` enumerates the attributions the occurrence ranges allow.
`NoStateLost` says that the regions hold every state the automaton reaches and
that nothing is rejected that the automaton takes (`Ends` is where it may
stop); `MatchesGrammar` that they hold no other state, and that the verdict at
the end is the grammar's. The test in the repository that
compares with brute force has two particles with bounds up to 2.

## Runs

| Run | Question | Bounds, and why they are enough |
| --- | --- | --- |
| `discovery` | Does every stream get closed once and every close error reported, is the order breadth first, is the result complete, does it terminate, and does it refine `StreamLedger`? | 3 identities, at most 2 references per document: a queue of two, a repeated identity that is queued, decoded or the document itself, and cycles of length 1 to 3 occur |
| `composition` | Is adoption the order-free fixpoint, the verdict that of a definition without passes, visibility exact, do union and path halving keep exactly the classes of the includes, and is there an end? | every graph of up to 3 documents and 3 references with 2 namespaces: conflicts, chains that need a second pass, cycles, imports of one's own class; and forests of 4 documents with up to 6 references in one namespace, the smallest bound at which a search moves a node (path halving does nothing in a tree of depth 1) |
| `include_namespace` (violation) | Are both documents of an accepted include in one namespace? | 1 namespace suffices |
| `sequence` | Do the regions lose no state of the automaton and invent none after every child, is the verdict the grammar's, do compacted regions never overlap, do the codes mean what their comments say? | up to 5 children; every pair of particles of 5 occurrence ranges, of equal or different names, under 4 outer ranges; 20 triples under a maximum of 3; empty sequences: regions with slopes of both signs, rows that are joined and rows that must not be, counts cut at a maximum |
| `claims` | Are leases exclusive, is published work kept, is the branch a leased lock? | 2 runners, 3 commits and leases of 1 tick on a clock of 2: an acquisition, its renewals or a commit, a pull request, an expiry and a takeover while the first runner still works; people close pull requests |
| `claim_resume` | Does a resume keep all work, keep the label until its renewal is published, and arrive when it is run again after any interruption; does the Project settle once only sync runs? | 2 runners, one of which hands off, resumes, commits and synchronizes while the other takes over what has expired; 3 commits (a claim, and two renewals, commits or a second claim); leases of 1 tick on a clock of 1, so that the claim expires and its renewal does not. No `claim renew`, whose unpushed renewal would look like an interrupted resume; the theorems cover it |
| `claims_pulls` (violation) | Is an expired claim with a pull request never deleted? | 2 runners, 2 commits, people doing anything to the issue |
| `base_sync` | Does every interleaving of two runs keep `BaseContract`, and does base-sync arrive unless something of a person's stands in the way? | a base-sync and a synchronization after a merge; 3 commits of main, one of which moves the pin, and one off main; one rewrite, edit, local commit or failure: `origin/main` can move twice under a run, which makes it retry and advance |
| `base_repair` (violation) | Does base-sync repair every checkout that only merges and fetches have touched? | one run, no failure |
| `pull_finish` | Are only evaluated heads merged and only proven artifacts removed, does success mean nothing is left, and does a repeated pr recover complete the packet wherever pr finish stops? | one pr finish and one repeated pr recover; with and without a companion; 2 commits after the marker; any 2 of: failures, pushes, unpushed commits, voided evaluations, reopened issues, dirty or locked worktrees, take-overs, a primary checkout spoilt, repaired or left half-updated: a lost answer can meet a failure of the recovery, or a change by others. What `Held` names stays excepted for as long as it lasts |
| `pull_recover` (violation) | Does recovery complete a packet of two claims after one failure? | one failure |
| `evaluation` | Is one challenge at a time out for a verdict, do recorded verdicts stand, is authority earned, is the limit of failures final, and what can spoil a history? | 2 controllers, 2 Examiner runs, 2 heads, 4 comments, clocks a tick behind GitHub's or ahead of it with a tolerance of 1 (so a date may miss either side of every boundary), a challenge that expires after 1 tick, a limit of 1 failure, and one change from outside: the head moves or the clock ticks, not both (the state constraint `OneChange`): two challenges with a closure and a receipt, two receipts and their convergence, a receipt against a resolution occur |

The largest runs have between half a million and 3.6 million distinct states.
Most stop where nothing is left to do (a call that has returned, the bound of
the clock or of the comments), so they do not check deadlock; the liveness
properties say that the states where nothing more happens are the intended
ones. `pull_finish` and `pull_recover` never stop and do check it. The bounds
(`Horizon`, `MaxCommits`, `MaxFaults`, `MaxComments`, `MaxEdits`, `MaxCommit`)
stand in guards of the environment's actions, and of those that make a commit
or post a comment, only; the one state constraint is that of `evaluation`. The safety runs of `Claims` and `Evaluation` take
processes as symmetric; no liveness run does.

Fairness. `Discovery` and `Composition` are sequential calls: weak fairness of
`Next` says that the call runs on. Readers, decoder and resolver are assumed
to return. In `ClaimResume`, a command that has started takes another step or
aborts (weak fairness per runner; `Abort` is among the steps, so nothing is
assumed to succeed), and `sync` is started again and again, as the scheduled
jobs do (`.agents/skills`) (strong fairness of starting
it, since the runner that does is busy with other commands in between). Nothing makes a runner start any other command, a
person act or the clock advance. `SyncConverges` is conditional: it promises
a correct Project only to executions in which, from some time on, only sync
acts, and `ResumeConverges` an end of the resume only to those in which, from
some time on, nothing but resumes and syncs acts, no call fails, and the
resume is started again and again. In `BaseSync` weak fairness of each run says that base-sync is repeated
and goes on, as a launcher that finds a stale checkout does
(.agents/skills/develop/SKILL.md); in `PullFinish` a started pr recover goes on
(`RecoverySpec`; pr finish may stop for good at any call, only `pull_recover`
lets it go on, `FairSpec`), and pr recover is run again on every pull request (strong fairness of starting
it, since the one recovering process is busy with another in between), as the
same skill demands after a failure. Failures are bounded by `MaxFaults`, so
the liveness properties speak of executions in which they end.

## What the runs found

Four properties state what a document or comment says and fail:

- `PullsPreserved`: docs/operations.md:14-15 has expired claims with a pull
  request escalated. The list of pull requests is read before the archive and
  the deletion, and a holder that checked its lease before the expiry can
  create its pull request in between; the deletion is leased to the branch
  head, which a new pull request does not move. The commits are archived, so
  no work is lost (`PublishedPreserved`), but the pull request is closed and
  nobody is told.
- `IncludesShareNamespace`: doc.go:56 says that a chameleon include adopts the
  including namespace. A root without a namespace that includes a document
  which another includer gives a namespace is accepted
  (schema_build.go:1032-1050), with the two ends in different namespaces.
- `Repairs`: .agents/skills/develop/SKILL.md:24-25 has stale checkouts repaired
  with base-sync. HEAD is moved and the submodules are updated by two
  commands; a run that ends between them (three attempts against an
  `origin/main` that moves suffice, no command has to fail) leaves submodules
  of the old commit, which cleanPrimary (base.go:254-261) reports as dirty, so
  that every later run refuses. `Converges` says that nothing else keeps a
  repeated base-sync away.
- `RecoverConverges`: .agents/skills/develop/SKILL.md:91-93 calls pr recover
  idempotent. With a companion claim it plans without run-local evidence
  (recovery.go:319-323) and refuses the worktree that every acquisition
  registers; after a failure in the deletion of branches it refuses a
  companion branch that is gone (`Leftover`). `Recovers` says that a repeated
  pr recover stops short in no other case than these and what `Held` names: a
  primary checkout that is not fit, which includes the one `Repairs` is about;
  an evaluation that no longer proves the merge; a ref or worktree that is not
  as it was proven.

## Proofs

`DiscoveryProofs` proves, from `DiscoveryAssumption` alone (the invalid
identity is not an identity, the bound on references is a number), for any
set of identities, finite or not:

- `Inductive`: `Spec => []IInv`;
- `TypeCorrect`, `ClosedExactlyOnce`, `CloseErrorsReported`:
  `Spec => []` of `TypeOK`, `EveryStreamClosedOnce`, `NoCloseErrorSwallowed`;
- `KeepsContract`: `Spec => LedgerSpec`, the refinement of `StreamLedger`.

`EveryStreamClosedOnce` is not inductive: it says nothing until the call
returns. `ClosesMatchQueue` is what the loop keeps (a stream with a reader is
closed or queued, never both), and it needs two more facts to survive a step.
A handle is queued at most once, since otherwise closing the head would leave
a closed stream in the queue; and queued handles name valid sources that were
received, since otherwise an appended stream could already be in the queue.
`IInv` is the conjunction of these with `TypeOK` and the place-dependent facts
(there is a last document in `refs`; the queue is empty after the return). The proof has one step per action;
error returns share a lemma about `Fail`, receiving a source one about
`Append`. The refinement follows from `IInv` of the two states of a step: the
open streams are the queued ones (or the root before it is looked at), so a
step that empties the queue closes them all.

`BaseSyncProofs` proves, from `BaseAssumption` (histories are reflexive,
transitive and antisymmetric; `NoPin` is no pin), for any commit graph, any number of concurrent runs and any number of faults:

- `SoundAlways`: `Spec => []IInv`;
- `TypeInvariant`: `Spec => []TypeOK`;
- `KeepsContract`: `Spec => ContractSpec`, the refinement of `BaseContract`.

A run that returns must name a commit that was the clean, pinned primary since
the run last looked, although others moved the checkout between its commands.
`IInv` says for each run what its readings still mean: `AfterSound` (the
synchronized commit is in the history of HEAD, since main only moves forward,
and is the attempt's `origin/main` once the submodules are updated),
`LookSound` (since the last look at the primary there was a commit between the
synchronized one and HEAD at which it was clean and pinned) and `PhaseSound`
(which places belong to an attempt). When HEAD is then read once more and is
the synchronized commit, the two ends of "between" are one, by antisymmetry.
The steps of another run disturb this only by moving `head` forward or `pins`
to what `head` pins, which is one lemma (`OtherStep`); a run's own steps are
one lemma with a case per action (`OwnStep`). The contract then follows from
`IInv` at `Succeed`.

`DiscoveryProofs` goes on to what discovery returns, from `IInv` and the same
assumption:

- `OrderedAlways`: `Spec => []OrderInv`;
- `BreadthFirst`, `Closed`: `Spec => []` of `DiscoveryOrder` and
  `ClosureComplete`.

That the documents (decoded, then queued) are the root and the targets of the
edges in the order they are first named is inductive only together with
`seen = Handles(Named)`: an identity is interned exactly when it is first
named, which is what makes the queue grow at the moment an edge names
something new. That a document's edges are one run of the edge list
(`EdgesSound`) needs that no two documents have the same source, which is a
consequence of the order (`SourcesDistinct`). `Lists` says what "in the order
of first occurrence" means, and two lemmas say how it survives an append of a
known and of a new value (`ListsKnown`, `ListsNew`).

`ClaimsProofs` proves, from `ClaimsAssumption` (the lease, the horizon and the
bound on commits are numbers), for any set of runners:

- `SoundAlways`: `Spec => []IInv`;
- `TypeCorrect`, `WorkPreserved`, `LeasesExclusive`: `Spec => []` of `TypeOK`,
  `PublishedPreserved`, `GrantsExclusive`;
- `ImplementsLock`: `Spec => LockSpec`, the refinement of `ClaimLock`.

Two runs may only hold live grants if both grants are backed by published
commits that are live (`GrantsBacked`), both of which are in the history of
the branch (`LiveHeld`), and a history is of one run (`Histories`). `LiveHeld`
survives a deletion because the command deletes only the head it inspected,
which had run out (`StaleSound`), and a commit's ancestors have shorter leases
(`Histories`); it survives a push because an accepted push takes the old head
along (`PushTakesAlong`). The deleted head is in an archive ref by then, which
is what `PublishedPreserved` needs. A renewal must be of the run of the local
branch (`BranchSound`), or histories would mix runs. The commands of other
runners disturb none of what a command has established, since commits are only
added and archives only grow (`OtherSound`).

`ClaimResumeProofs` goes on from there, from the same assumption, for any set
of runners and any commands they may run, `claim renew` included:

- `ResumeSoundAlways`: `ResumeSpec => []RInv`;
- `ResumeTyped`, `ResumeLeasesExclusive`, `ResumeKeepsPublished`: `TypeOK`,
  `GrantsExclusive` and `PublishedPreserved` of `ResumeSpec`;
- `ResumeImplementsLock`: `ResumeSpec => LockSpec`;
- `LabelStays`, `WorkStays`: `ResumeSpec => LabelHeldUntilRenewed` and
  `WorkKept`, the two action properties of the run `claim_resume`.

`RInv` is the `IInv` of `Claims` and what handoffs, sync and resumes know. Every
new step either only reads (`ReadingKeeps`), or adds commits to histories of
their run, pushes what takes the old head along, and grants what is published
(`StepKeeps`), so `IInv` survives it and what follows from `IInv` carries over:
the push of a resume is forced with a lease on the expected head, which is in
the history of the renewal. `ResumeSound` says whose head is resumed and that
it had run out, that what was found ahead of it is a renewal, and that from
verification on (`Confirmed`) the renewal is published and in the history of
HEAD, which commits made meanwhile only extend (`ResumeKept`). `RollbackSound`
is what `WorkKept` needs of the other commands. The proof corrected a property:
`WorkKept` once said that a published commit never leaves the history of HEAD,
which is false when `claim renew` loses the answer of its push, since the
renewal is published and then rolled back locally; the instance, without
`claim renew`, could not show it. What stays true, and is proved, is that only
renewals leave, which are empty.

`PullFinishProofs` proves, from `FinishAssumption`, for any set of issues, any
number of finishing and recovering runs and any number of faults, an unfit
primary checkout among them:

- `SoundAlways`: `Spec => []IInv`;
- `TypeCorrect`, `MergesEvaluated`, `SuccessesComplete`: `Spec => []` of
  `TypeOK`, `MergedEvaluated`, `SuccessComplete`;
- `CleanupProven`: `Spec => CleanupIsProven`, an action property.

The invariant says of each place in a run what it has learned and what stays
true although others push, void evaluations and recover meanwhile: its head
had a passing evaluation in this pull request from validation to merge
(`HeadSound`); main holds the merge once the run has synchronized it, and the
board is Done once it has set it (`OutcomeSound`); the local branches it plans
to delete are in the history of the evaluated claim (`ProvenSound`); and what
it has removed does not come back (`CleanupSound`), which needs that nobody
recreates a worktree or a local branch and that a claim branch reappears only
as another run's (`RefsSound`). The proof was first attempted for several
finishers and found an error of the model that a run with one could not show: a draft
that another run has merged is not closed or reopened by replacing it, since
GitHub refuses both; `CloseDraft` and `ReopenDraft` now say so.

`CompositionProofs` proves, from `CompositionAssumption` (the absent namespace
and the empty one are not namespaces, there is a document, the bounds are
numbers), for every graph of any number of documents and references:

- `TypeCorrect`: `Spec => []TypeOK`;
- `AdoptionIsFixpoint`, `VerdictExact`: `Spec => []` of `AdoptionComplete` and
  `VerdictCorrect`;
- `ForestExact`: `Spec => []ForestMatchesIncludes`;
- `SoundAlways`: the conjunction of the stages' invariants;
- `VisibilityExact`: `Spec => []VisibilityMatchesReferences`.

The stages are proved one after the other, each from the invariant of the
earlier ones. In adoption, `NamespacesSound` says that a document has only
namespaces that includes bring to it and that a pass without a change has found
every include it has looked at settled. At the fixpoint, the documents that have a
namespace are a closed set (`FixpointComplete`), so nothing is missing; a
conflict means two candidates (`ConflictRefused`). The union-find is compared
with the includes through closed sets instead of paths: two documents are in
one tree when no set closed under parents, in both directions, separates them
(`Same`). Halving keeps these sets (`HalvingKeepsTrees`), linking two roots
joins exactly two trees (`LinkingJoinsTrees`), and a tree has one root
(`OneRoot`), all without induction on the forest. `MembersSound` and
`VisibleSound` say how far the two listing loops have come. The invariant of
the places (`PlacesSound`) needs that documents are found without a gap
(`FoundByIsInterval`): the least number that is not found would be the next
one a reference may name.

`EvaluationProofs` proves, from `EvaluationAssumption` (there is a view of the
pull request, the bounds and the skews are numbers) and `HistoryAssumption`
(a challenge is valid for a while, there is a limit of failures), for any
controllers, Examiner runs and views, any tolerance and any number of comments:

- `SoundAlways`: `Spec => []IInv`;
- `TypeCorrect`, `OneOutstanding`, `RecordsStand`, `AuthorityIsEarned`,
  `LimitIsFinal`, `SpoiltOnlyByRacesAndTimes`: `Spec => []` of all six invariants of
  the run `evaluation`.

A history is compared with its prefixes (`Cut`): comments are only added, so
classes, terminals and outcomes on a prefix are those of the whole history that
fit into it. `Canonical` is a recursive function whose value depends on
earlier challenges only (`CanonicalIs`), and no proof computes it: what is
needed is that a class is named by its first member, and that a challenge joins
a class only while the class has no outcome. The parts of the invariant are

- `InOrder`: challenges were printed in the order of their posting, each when
  the class before had come to something. Hence only the last one printed can
  wait for a verdict;
- `ReceiptsSound`: a receipt is what its run attested, about the view of its
  challenge. Authority follows from it and the conflict checks of `Readable`;
- `CopiesOnly` and `RoundsSound`: in a history that can be read, what lies
  between the receipt and what its author had read holds no round. A receipt
  there answers the same challenge (a copy or a conflict), or one printed
  earlier, whose class had ended, or one printed later, which needs this class
  to have ended (`NoneBetween`). So a round is the number of rounds
  before it plus one, and a run's later receipts copy its first;
- `ReportsSound`: a recording that was reported has its receipt in a prefix
  that can be read, from which `RecordedStands` follows by `CopiesOnly`;
- `ReadableUnlessSpoilt` is inductive with the others: a comment that races
  nothing and is not `Mistimed` was checked against the very history it extends
  (`ReadableGrows`), and clocks that agree give it a date that the checks on
  comment times accept (`ClockAgrees`; `ClosedLate` for closures, which are not
  dated before what they close). No other part assumes anything of the clocks;
- `JobsSound`: what a command has established at its place, which posts of
  others leave standing since its prefix is not changed by them.

`SequenceProofs` proves, from `SequenceAssumption` (occurrence ranges are
ranges of numbers, no particle has a reserved name), for any set of compiled
sequences of any length, any bounds and any children:

- `Inductive`: `Spec => []IInv`;
- `TypeCorrect`, `Disjoint`, `Codes`: `Spec => []` of `TypeOK`,
  `FrontierDisjoint` and `CodesMeanWhatTheySay`;
- `Complete`: `Spec => []NoStateLost`.

`IInv` says of every region that in each of its iterations its highest count
is one that a run of the automaton with all maxima lifted has or exceeds
(`Sound`; a path's also counts the open child, `Fit`). The maxima are lifted
because a count that reaches a maximum is cut to it and may then stand for a
state no run with the bound has. That is what makes the codes true: a child
that is refused although it could begin another iteration, or that repeats the
one before, would fit without the maxima (`CodesMean`). A region also begins
and ends at iterations it stands for (`Regions`), which cutting keeps because
the quotients round towards the inside. Compaction is one chapter of its own:
the breakpoints are finitely many, and between two neighbours no two lines of
a group change their order, so what is cut at the first iteration of a segment
is apart, and covers the group, in all of it; joining rows only joins what lies
on the lines of the first two; and appending joins what adjoins. So no state
is in two regions, none above the highest counts appears, and none is lost.

Completeness has an invariant of its own, `Kept`. A region is looked at
as a set of configurations (an iteration, a count, and the two flags of the
candidate), between which the closure moves without a child (`Goes`). While
the loop runs, what a found configuration goes to is found or queued
(`Spreading`); when the queue is empty, the frontier is a set that is closed
under `Goes` and has the configuration of each state reached (`Retains`);
compaction keeps it; and from such a set, whatever a child of a given name or
the end of the parent can do in the automaton, some configuration can do
(`TakeHeld`, `EndHeld`), past particles that need not occur and from
one iteration to the next. The paths of a child hold these (`Held`), and when
nothing is left of them, the automaton was stuck too (`Excused`).

The facts about sequences, folds and sorting that both need are proved first,
by the least counterexample instead of an induction theorem: minima exist, a
function defined by recursion exists and keeps what its steps keep, the ranks
of a finite order list its elements.

Only model-checked:

- liveness (`Termination`, `SyncConverges`, `ResumeConverges`, `Converges`,
  `Recovers`), and fairness with it: outside what the prover can do;
- `MatchesGrammar`. That no state is invented depends on which regions the
  code can reach: two regions are joined when their counts touch at the first
  iteration of a segment, and lines of different slopes would drift apart
  later in it, so that the joined region held states of neither. Which slopes
  meet is what an invariant would have to say. That the verdict is
  the grammar's is an induction over the attribution of the children.

## Not modelled

Text: the lexical level of XML, XSD patterns as Go regular expressions,
rendering of Go code and of diagnostics, Markdown and JSON records. Their
correctness is about characters, and tests with examples reach it better.
Reports of `workflowctl` read one snapshot and write a file. The parts in the
plan below are not modelled yet.

## Plan

1. The component phase of schema construction: identities interned before
   references, cycles of types, groups and derivations, omission of 0/0
   particles (schema_build.go:3700-9600), composed with `Composition`.
2. The rest of claim resume: unpublished sources and their integration
   (claim_resume_unpublished.go), pr resume (resume.go) and release-archived
   (claim_archive.go).
3. Pure algorithms as functions against reference definitions: occurrence
   arithmetic, the choice and scalar observers of instance validation, bounds
   narrowing, precisionDecimal comparison, name allocation.
