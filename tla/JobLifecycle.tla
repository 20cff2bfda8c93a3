---------------------------- MODULE JobLifecycle -----------------------------
(***************************************************************************)
(* What the gateway promises about one job, whoever asks and however often:*)
(* it is created once, it is claimed any number of times while it is       *)
(* alive, and the first verdict is the last.  This is the state machine of *)
(* ALLOWED_TRANSITIONS (apps/gateway/src/coordinator.ts) together with the *)
(* takeover that acquireDispatch adds to it, the claim of a job already in *)
(* flight; docs/adr/0001-durable-job-coordination.md draws it.             *)
(***************************************************************************)
EXTENDS JobRecord

VARIABLE status

Init == status = "NONE"

Create == status = "NONE" /\ status' = "QUEUED"

Claim == status \in LIVE_STATES /\ status' = "DISPATCHING"

Progress == status = "DISPATCHING" /\ status' = "PROCESSING"

Park == status \in {"DISPATCHING", "PROCESSING"} /\ status' = "RETRYING"

Settle == /\ status \in {"DISPATCHING", "PROCESSING"}
          /\ status' \in TERMINAL_STATES

Next == Create \/ Claim \/ Progress \/ Park \/ Settle

Spec == Init /\ [][Next]_status
=============================================================================
