------------------------------ MODULE JobRecord ------------------------------
(***************************************************************************)
(* The record a JobCoordinator durable object stores for its one job, and  *)
(* what each of its operations decides and writes.                         *)
(* Source: apps/gateway/src/coordinator.ts.                                *)
(*                                                                         *)
(* Of the stored fields the model keeps status, the producer's hand-off    *)
(* marker `enqueued` and the consumer's leaseExpiresAt (0: never leased).  *)
(* Identity, timestamps and per-transition meta decide nothing.            *)
(***************************************************************************)
EXTENDS Integers

TERMINAL_STATES == {"DONE", "FAILED", "REJECTED_FRAUD", "TERMINATED_TIMEOUT", "ERROR"}

LIVE_STATES == {"QUEUED", "DISPATCHING", "PROCESSING", "RETRYING"}

JobStatus == LIVE_STATES \cup TERMINAL_STATES

IsTerminal(status) == status \in TERMINAL_STATES

\* Mutants (X_Bug) are what a plausible mistake would have made of the definition
\* X that follows; see README.md.
ALLOWED_TRANSITIONS_Bug ==   \* the retry goes back through the start
  [ QUEUED      |-> {"DISPATCHING"},
    DISPATCHING |-> {"PROCESSING", "RETRYING"} \cup TERMINAL_STATES,
    PROCESSING  |-> {"RETRYING"} \cup TERMINAL_STATES,
    RETRYING    |-> {"QUEUED"} ]

\* Terminal states have no key: no edge leaves them.
ALLOWED_TRANSITIONS ==
  [ QUEUED      |-> {"DISPATCHING"},
    DISPATCHING |-> {"PROCESSING", "RETRYING"} \cup TERMINAL_STATES,
    PROCESSING  |-> {"RETRYING"} \cup TERMINAL_STATES,
    RETRYING    |-> {"DISPATCHING"} ]

Record == [status : JobStatus \cup {"NONE"}, enqueued : BOOLEAN, lease : Nat]

\* storage.get found nothing.
NoRecord == [status |-> "NONE", enqueued |-> FALSE, lease |-> 0]

Exists(r) == r.status # "NONE"

InFlight(r) == r.status \in {"DISPATCHING", "PROCESSING"}

-----------------------------------------------------------------------------
(* create *)

Created_Bug ==                \* born confirmed
  [NoRecord EXCEPT !.status = "QUEUED", !.enqueued = TRUE]

Created == [NoRecord EXCEPT !.status = "QUEUED"]

(* transition(to): it writes only along a legal edge; "missing" and        *)
(* "illegal" throw.                                                        *)
CanTransition_Bug(r, to) ==   \* terminal states are not sticky
  /\ Exists(r)
  /\ to # r.status
  /\ r.status \in LIVE_STATES => to \in ALLOWED_TRANSITIONS[r.status]

CanTransition(r, to) ==
  /\ r.status \in LIVE_STATES
  /\ to # r.status
  /\ to \in ALLOWED_TRANSITIONS[r.status]

TransitionThrows(r, to) ==
  \/ ~Exists(r)
  \/ /\ to # r.status
     /\ r.status \in LIVE_STATES
     /\ to \notin ALLOWED_TRANSITIONS[r.status]

Transitioned(r, to) == [r EXCEPT !.status = to]

(* markEnqueued *)
MarkedEnqueued(r) == [r EXCEPT !.enqueued = TRUE]

(* acquireDispatch({now, leaseMs}): exactly one of missing (it throws),    *)
(* terminal, busy and acquired.                                            *)
LeaseFresh(r, now) == r.lease > now

IsBusy_Bug(r, now) ==         \* a rendering job is not seen as owned
  r.status = "DISPATCHING" /\ LeaseFresh(r, now)

IsBusy(r, now) == InFlight(r) /\ LeaseFresh(r, now)

CanAcquire_Bug(r, now) ==     \* a finished job can be claimed
  Exists(r) /\ ~IsBusy(r, now)

CanAcquire(r, now) == r.status \in LIVE_STATES /\ ~IsBusy(r, now)

Acquired(r, now, leaseMs) ==
  [r EXCEPT !.status = "DISPATCHING", !.lease = now + leaseMs]
=============================================================================
