------------------------------ MODULE ClaimLock ------------------------------
(***************************************************************************)
(* What the claim branch of an issue promises to every run: a leased lock. *)
(* A run holds the issue until a time nobody can shorten; it may extend    *)
(* that time; only a lease that has run out can be taken away, and a free  *)
(* issue can be taken by any run, also by one that lost it.                *)
(***************************************************************************)
EXTENDS Naturals

CONSTANTS Runs, Nobody

VARIABLES now, holder, until

LockVars == <<now, holder, until>>

LockInit == now \in Nat /\ holder = Nobody /\ until = 0

Take ==
  /\ holder = Nobody
  /\ holder' \in Runs /\ until' \in Nat
  /\ UNCHANGED now

Extend ==
  /\ holder # Nobody /\ holder' = holder
  /\ until' \in Nat /\ until' >= until
  /\ UNCHANGED now

Expire ==
  /\ holder # Nobody /\ until <= now
  /\ holder' = Nobody /\ until' = 0
  /\ UNCHANGED now

Pass ==
  /\ now' \in Nat /\ now' > now
  /\ UNCHANGED <<holder, until>>

LockSpec == LockInit /\ [][Take \/ Extend \/ Expire \/ Pass]_LockVars
=============================================================================
