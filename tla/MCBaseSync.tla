------------------------------ MODULE MCBaseSync ------------------------------
(* TLC instance of BaseSync: three commits of main, the last of which      *)
(* pins the submodules elsewhere, and a commit made off main.              *)
EXTENDS BaseSync

History(c) == CASE c = 0 -> {0} [] c = 1 -> {0, 1} [] c = 2 -> {0, 1, 2} [] c = 9 -> {0, 9}
MCPast == [c \in Commits |-> History(c)]
MCPin == [c \in Commits |-> IF c = 2 THEN "bumped" ELSE "pinned"]

=============================================================================
