---------------------------- MODULE BaseContract ----------------------------
(***************************************************************************)
(* What base synchronization promises the rest of workflowctl (base.go     *)
(* and docs/operations.md): the primary checkout's main only ever moves    *)
(* forward, and a run reports a commit only while it is origin/main, when  *)
(* it contains the merge the run was asked for, and when the primary was   *)
(* seen clean on it with its submodules pinned.  How a run gets there, and *)
(* how many of them run at once, is not said.                              *)
(***************************************************************************)
CONSTANTS
  Commits,  \* the commits that may come to exist
  Past,     \* per commit, its history, itself included
  Runs,     \* the runs of base synchronization
  NoMerge   \* the required merge of a run that has none

VARIABLES
  main,      \* HEAD of the primary checkout, on main
  tracking,  \* refs/remotes/origin/main of the clone
  settled,   \* per run, where the primary was, clean and pinned, since it last looked
  reports    \* what runs have just returned: the commit, and the merge asked for

contractVars == <<main, tracking, settled, reports>>

Contains(tip, c) == c \in Past[tip]

ContractInit ==
  /\ main \in Commits /\ tracking \in Commits
  /\ settled = [s \in Runs |-> {}]
  /\ reports = {}

(* Fetches move origin/main, and a person or a fast-forward moves main,    *)
(* forward.                                                                *)
Move ==
  /\ tracking' \in Commits
  /\ main' \in Commits /\ Contains(main', main)
  /\ \A s \in Runs : settled'[s] \subseteq settled[s] \cup {main'}
  /\ reports' \subseteq reports

Report(s) ==
  /\ \E merge \in Commits \cup {NoMerge} :
       /\ merge # NoMerge => Contains(tracking, merge)
       /\ reports' \subseteq reports \cup {[run |-> s, after |-> tracking, merge |-> merge]}
  /\ tracking \in settled[s]
  /\ UNCHANGED <<main, tracking, settled>>

ContractNext == Move \/ \E s \in Runs : Report(s)
ContractSpec == ContractInit /\ [][ContractNext]_contractVars
=============================================================================
