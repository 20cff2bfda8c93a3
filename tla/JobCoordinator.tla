--------------------------- MODULE JobCoordinator ----------------------------
(***************************************************************************)
(* One JobCoordinator durable object (apps/gateway/src/coordinator.ts)     *)
(* under every possible sequence of calls.                                 *)
(*                                                                         *)
(* The object runs one operation's storage access at a time, so an         *)
(* operation's storage.get ... storage.put is one action.  The KV          *)
(* projection that follows (projectToKv) is a second await on another      *)
(* service: while it is outstanding the object serves other calls, so it   *)
(* is an action of its own, and outstanding projections land in any order, *)
(* or fail.                                                                *)
(***************************************************************************)
EXTENDS JobRecord

CONSTANTS
  LeaseMs,       \* the lease a caller of acquireDispatch asks for
  MaxTime,       \* bound: the clock stops here
  MaxSkew,       \* bound: how old the `now` of a call may be on arrival
  MaxProjections \* bound: outstanding projections of one status

ASSUME ConstantsAssumption ==
  /\ LeaseMs \in Nat \ {0}
  /\ MaxTime \in Nat
  /\ MaxSkew \in Nat
  /\ MaxProjections \in Nat \ {0}

VARIABLES
  record,       \* storage: the authority
  kv,           \* the status under the KV key job:<dev>:<id>, or "NONE"
  projections,  \* [status -> how many projections of it are outstanding]
  clock         \* Date.now()

vars == <<record, kv, projections, clock>>

\* Storage holds a whole record or none: no operation stores part of one.
TypeOK ==
  /\ record \in Record
  /\ Exists(record) \/ record = NoRecord
  /\ kv \in JobStatus \cup {"NONE"}
  /\ projections \in [JobStatus -> Nat]
  /\ clock \in Nat

Init ==
  /\ record = NoRecord
  /\ kv = "NONE"
  /\ projections = [s \in JobStatus |-> 0]
  /\ clock = 0

-----------------------------------------------------------------------------
\* projectToKv is called: the put is under way.
StartProjection(s) ==
  /\ projections[s] < MaxProjections
  /\ projections' = [projections EXCEPT ![s] = @ + 1]

\* A repeated create returns the existing record and changes nothing.
Create ==
  /\ ~Exists(record)
  /\ record' = Created
  /\ StartProjection("QUEUED")
  /\ UNCHANGED <<kv, clock>>

Transition_Bug(to) ==         \* projects an unapplied transition too
  /\ Exists(record)
  /\ record' = IF CanTransition(record, to) THEN Transitioned(record, to) ELSE record
  /\ StartProjection(to)
  /\ UNCHANGED <<kv, clock>>

\* Any caller may ask for any status.  The noop, terminal and throwing
\* answers change nothing.
Transition(to) ==
  /\ CanTransition(record, to)
  /\ record' = Transitioned(record, to)
  /\ StartProjection(to)
  /\ UNCHANGED <<kv, clock>>

MarkEnqueued_Bug ==           \* spreads a missing record: stores the flag alone
  /\ ~record.enqueued
  /\ record' = MarkedEnqueued(record)
  /\ UNCHANGED <<kv, projections, clock>>

\* The one write without a projection.
MarkEnqueued ==
  /\ Exists(record)
  /\ ~record.enqueued
  /\ record' = MarkedEnqueued(record)
  /\ UNCHANGED <<kv, projections, clock>>

\* The caller read its own clock before the call: `now` may be stale when the
\* object evaluates it.  The busy and terminal answers change nothing.
AcquireDispatch(now) ==
  /\ CanAcquire(record, now)
  /\ record' = Acquired(record, now, LeaseMs)
  /\ StartProjection("DISPATCHING")
  /\ UNCHANGED <<kv, clock>>

\* An outstanding KV put takes effect.
LandProjection(s) ==
  /\ projections[s] > 0
  /\ projections' = [projections EXCEPT ![s] = @ - 1]
  /\ kv' = s
  /\ UNCHANGED <<record, clock>>

\* An outstanding KV put throws, or the object is evicted under it: the caller
\* gets a 500, the stored record stays.
FailProjection(s) ==
  /\ projections[s] > 0
  /\ projections' = [projections EXCEPT ![s] = @ - 1]
  /\ UNCHANGED <<record, kv, clock>>

Tick ==
  /\ clock < MaxTime
  /\ clock' = clock + 1
  /\ UNCHANGED <<record, kv, projections>>

Next ==
  \/ Create
  \/ \E to \in JobStatus : Transition(to)
  \/ MarkEnqueued
  \/ \E now \in {t \in 0..clock : clock - t <= MaxSkew} : AcquireDispatch(now)
  \/ \E s \in JobStatus : LandProjection(s) \/ FailProjection(s)
  \/ Tick

Spec == Init /\ [][Next]_vars

-----------------------------------------------------------------------------
(* Properties *)

\* A verdict the client can read in KV, now or once an outstanding projection
\* lands, is the verdict of the durable object: a projection never announces
\* an outcome storage does not hold, in whatever order projections land.
KvVerdictIsRecord ==
  \A s \in TERMINAL_STATES : kv = s \/ projections[s] > 0 => record.status = s

\* A job in flight under a lease changes hands only when that lease has run
\* out: with callers whose clocks lag, any two claims that are not separated
\* by a return to RETRYING are a full lease apart.
LeaseExclusion ==
  [][InFlight(record) /\ record'.lease # record.lease
       => record'.lease >= record.lease + LeaseMs]_vars

\* The test by which /api/jobs/create recognises an orphan to send again.
IsOrphan(r) == r.status = "QUEUED" /\ ~r.enqueued

\* Once a job was confirmed or claimed no sequence of calls makes it look like
\* an orphan again: from then on no create request reads it as one.  (One that
\* read the orphan before the claim still sends.)
OrphanOnce == [][Exists(record) /\ ~IsOrphan(record) => ~IsOrphan(record')]_vars

\* The object's status is a run of the abstract job lifecycle; in particular
\* the first verdict is the last.
Lifecycle == INSTANCE JobLifecycle WITH status <- record.status
ImplementsLifecycle == Lifecycle!Spec
=============================================================================
