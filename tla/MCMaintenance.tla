---------------------------- MODULE MCMaintenance ----------------------------
(***************************************************************************)
(* An admin request for a VACUUM and one for a cleanup (each may also be   *)
(* refused, and is then like any other request), a tick of the off-hours   *)
(* VACUUM, a background task and a row for the write queue.                *)
(***************************************************************************)
EXTENDS Maintenance

CONSTANTS vacuumNow, cleanNow, autoTick, task, row, sigterm

MCItem == {row}
MCKind == [i \in MCItem |-> "telemetry"]
MCCost == [i \in MCItem |-> 1]
MCRequest == {vacuumNow, cleanNow}
MCVacuum == {vacuumNow}
MCCleanup == {cleanNow}
MCAuto == {autoTick}
MCPause == {vacuumNow, autoTick}
MCJob == {task}
MCStop == {sigterm}

=============================================================================
