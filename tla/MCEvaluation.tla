---------------------------- MODULE MCEvaluation ----------------------------
(* Instances of Evaluation for TLC.                                        *)
EXTENDS Evaluation, TLC

(* Two heads with the same body of the pull request.                       *)
MCViews == {[head |-> 1, body |-> 1], [head |-> 2, body |-> 1]}

(* The clock of a controller is a tick ahead of GitHub's or a tick behind. *)
(* (Clocks that agree are the same as clocks that are all ahead.)          *)
MCSkews == {-1, 1}

(* Either the pull request changes or the time to answer runs out.         *)
OneChange == now + edits <= 1

Symmetry == Permutations(Controllers) \cup Permutations(Runs)

=============================================================================
