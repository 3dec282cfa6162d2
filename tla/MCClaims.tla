------------------------------ MODULE MCClaims ------------------------------
(* TLC instances of Claims: runners are interchangeable in safety runs.    *)
EXTENDS Claims, TLC

ClaimCommands == [p \in Runners |-> {"acquire", "renew", "verify", "pr", "work"}]
PullCommands == [p \in Runners |-> {"acquire", "pr"}]

RunnerSymmetry == Permutations(Runners)
=============================================================================
