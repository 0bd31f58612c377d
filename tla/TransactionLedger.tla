------------------------- MODULE TransactionLedger -------------------------
(***************************************************************************)
(* What the console-session manager promises about database transactions,  *)
(* with no mutex, no clock, no HTTP call and no connection pool: every     *)
(* transaction is opened at most once, ends at most once, is committed     *)
(* only if none of its statements failed, and the number of transactions   *)
(* that are open at one time never exceeds the capacity.                   *)
(* ConsoleSessions implements this specification.                          *)
(***************************************************************************)
EXTENDS Naturals, FiniteSets

CONSTANTS
  Ids,     \* the transactions that may ever be opened
  Total    \* how many may be open at one time

VARIABLES
  outcome,  \* [Ids -> "none", "open", "committed" or "rolledback"]
  failed    \* the transactions one of whose statements was answered an error

vars == <<outcome, failed>>

Outcomes == {"none", "open", "committed", "rolledback"}

OpenNow == {i \in Ids : outcome[i] = "open"}

Init ==
  /\ outcome = [i \in Ids |-> "none"]
  /\ failed = {}

Open(i) ==
  /\ outcome[i] = "none"
  /\ Cardinality(OpenNow) < Total
  /\ outcome' = [outcome EXCEPT ![i] = "open"]
  /\ UNCHANGED failed

\* A failed statement may end the transaction in the same step.
Fail(i) ==
  /\ outcome[i] = "open"
  /\ failed' = failed \cup {i}
  /\ outcome' \in {outcome, [outcome EXCEPT ![i] = "rolledback"]}

Commit(i) ==
  /\ outcome[i] = "open"
  /\ i \notin failed
  /\ outcome' = [outcome EXCEPT ![i] = "committed"]
  /\ UNCHANGED failed

Rollback(i) ==
  /\ outcome[i] = "open"
  /\ outcome' = [outcome EXCEPT ![i] = "rolledback"]
  /\ UNCHANGED failed

Next == \E i \in Ids : Open(i) \/ Fail(i) \/ Commit(i) \/ Rollback(i)

Spec == Init /\ [][Next]_vars

=============================================================================
