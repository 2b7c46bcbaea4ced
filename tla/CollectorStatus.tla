-------------------------- MODULE CollectorStatus --------------------------
(***************************************************************************)
(* internal/collectorstatus, which every collector reports through, and    *)
(* how cmd/hm-api-server judges its rows.  Of a row of collector_status    *)
(* there is what the judgement reads: whether it ever succeeded, whether   *)
(* consecutive_failures is above zero, updated_at.  Without last_data_at,   *)
(* MarkDataSuccess is MarkSuccess.                                         *)
(***************************************************************************)
EXTENDS Integers

CONSTANT Nil

Row(T) == [succeeded : BOOLEAN, failing : BOOLEAN, updated : T]

\* A target that has not reported has no row.
NoRow == [succeeded |-> FALSE, failing |-> FALSE, updated |-> Nil]

MarkSuccess(row, now) ==
    [row EXCEPT !.succeeded = TRUE, !.failing = FALSE, !.updated = now]

MarkFailure(row, now) == [row EXCEPT !.failing = TRUE, !.updated = now]

\* Mutant: updated_at is not looked at.
StaleByFailures(row, now, staleAfter) ==
    row # NoRow /\ (~row.succeeded \/ row.failing)

\* A row that handleHealthDetails counts as stale: the service is degraded.
Stale(row, now, staleAfter) ==
    row # NoRow /\ (~row.succeeded \/ row.failing \/ row.updated < now - staleAfter)
=============================================================================
