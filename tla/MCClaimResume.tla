--------------------------- MODULE MCClaimResume ---------------------------
(* TLC instance of ClaimResume: one runner claims, works, hands off,       *)
(* resumes and synchronizes; another takes over what has expired.          *)
EXTENDS ClaimResume

CONSTANTS p, q

Commands == [r \in Runners |->
  IF r = p THEN {"acquire", "handoff", "resume", "sync", "work"} ELSE {"acquire"}]
=============================================================================
