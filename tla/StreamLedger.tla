---------------------------- MODULE StreamLedger ----------------------------
(***************************************************************************)
(* What ParseSchema promises its caller about the streams it is handed     *)
(* (schema_parse.go:10-16 and the "closed exactly once" lifecycle tests):  *)
(* a stream is received open, is closed once, is never closed again, and   *)
(* the call returns only when no stream is left open.  The specification   *)
(* says nothing of documents, identities or the order of discovery.        *)
(***************************************************************************)
EXTENDS Naturals

VARIABLES
  open,      \* handles received and not closed yet
  closed,    \* handles closed, each of them once
  returned   \* whether the call has returned to its caller

ledgerVars == <<open, closed, returned>>

LedgerInit ==
  /\ open \in SUBSET {1}
  /\ closed = {}
  /\ returned = FALSE

(* One step of the call: it may receive streams it never held and close    *)
(* open ones, the new ones included; it forgets no stream, reopens none,   *)
(* and returns with nothing open.                                          *)
LedgerWork ==
  /\ ~ returned
  /\ closed \subseteq closed'
  /\ open \subseteq open' \cup closed'
  /\ open' \cap closed' = {}
  /\ returned' \in BOOLEAN
  /\ returned' => open' = {}

LedgerSpec == LedgerInit /\ [][LedgerWork]_ledgerVars
=============================================================================
