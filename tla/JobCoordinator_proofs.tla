------------------------ MODULE JobCoordinator_proofs ------------------------
(***************************************************************************)
(* Proofs about one JobCoordinator durable object, for every lease length, *)
(* clock skew and number of outstanding projections.                       *)
(*                                                                         *)
(* The inductive invariant is TypeOK /\ KvVerdictIsRecord: the verdict     *)
(* clause says of projections still under way what it says of KV, and that *)
(* is what lets a projection land in any order.                            *)
(***************************************************************************)
EXTENDS JobCoordinator, JobRecord_proofs, TLAPS

\* Every operation of the object keeps a well-formed record, projection and
\* set of outstanding puts: a put lands or fails only if it was started.
LEMMA TypeStep == TypeOK /\ [Next]_vars => TypeOK'
<1> SUFFICES ASSUME TypeOK, [Next]_vars PROVE TypeOK'
  OBVIOUS
<1> USE ConstantsAssumption, StatusFacts DEF TypeOK, StartProjection
<1>1. CASE Create
  <2>1. record' \in Record /\ Exists(record')
    BY <1>1, RecordTypes, RecordStays DEF Create
  <2>2. projections' \in [JobStatus -> Nat] /\ kv' = kv /\ clock' = clock
    BY <1>1 DEF Create
  <2> QED BY <2>1, <2>2
<1>2. ASSUME NEW to \in JobStatus, Transition(to) PROVE TypeOK'
  <2>1. record' \in Record /\ Exists(record')
    BY <1>2, RecordTypes, RecordStays DEF Transition
  <2> QED BY <1>2, <2>1 DEF Transition
<1>3. CASE MarkEnqueued
  <2>1. record' \in Record /\ Exists(record')
    BY <1>3, RecordTypes, RecordStays DEF MarkEnqueued
  <2> QED BY <1>3, <2>1 DEF MarkEnqueued
<1>4. ASSUME NEW t \in 0..clock, AcquireDispatch(t) PROVE TypeOK'
  <2>1. t \in Nat /\ LeaseMs \in Nat
    OBVIOUS
  <2>2. record' = Acquired(record, t, LeaseMs)
    BY <1>4 DEF AcquireDispatch
  <2>3. record' \in Record /\ Exists(record')
    BY <2>1, <2>2, RecordTypes, RecordStays
  <2> QED BY <1>4, <2>3 DEF AcquireDispatch
<1>5. ASSUME NEW s \in JobStatus, LandProjection(s) PROVE TypeOK'
  BY <1>5 DEF LandProjection
<1>6. ASSUME NEW s \in JobStatus, FailProjection(s) PROVE TypeOK'
  BY <1>6 DEF FailProjection
<1>7. CASE Tick
  BY <1>7 DEF Tick
<1>8. CASE UNCHANGED vars
  BY <1>8 DEF vars
<1> QED BY <1>1, <1>2, <1>3, <1>4, <1>5, <1>6, <1>7, <1>8 DEF Next

\* The record, the KV projection and the outstanding puts of a JobCoordinator
\* keep their types through any sequence of calls.
THEOREM TypeCorrect == Spec => []TypeOK
<1>1. Init => TypeOK
  BY StatusFacts DEF Init, TypeOK, NoRecord, Record
<1> QED BY <1>1, TypeStep, PTL DEF Spec

-----------------------------------------------------------------------------
\* No operation lets KV, or a put on its way to KV, announce a verdict other
\* than the stored one.
LEMMA VerdictStep ==
  TypeOK /\ KvVerdictIsRecord /\ [Next]_vars => KvVerdictIsRecord'
<1> SUFFICES ASSUME TypeOK, KvVerdictIsRecord, [Next]_vars,
                    NEW v \in TERMINAL_STATES,
                    (kv = v \/ projections[v] > 0)'
             PROVE  record'.status = v
  BY DEF KvVerdictIsRecord
<1> USE StatusFacts DEF TypeOK
<1>live. record.status \notin TERMINAL_STATES => kv # v /\ projections[v] = 0
  \* Before the first verdict, none is in KV or under way.
  BY DEF KvVerdictIsRecord
<1>1. CASE Create
  <2>1. record.status \notin TERMINAL_STATES /\ v # "QUEUED"
    BY <1>1 DEF Create, Exists, LIVE_STATES, TERMINAL_STATES
  <2> QED BY <1>1, <2>1, <1>live DEF Create, StartProjection
<1>2. ASSUME NEW to \in JobStatus, Transition(to) PROVE record'.status = v
  <2>1. record.status \notin TERMINAL_STATES
    BY <1>2 DEF Transition, CanTransition
  <2>2. v = to
    BY <1>2, <2>1, <1>live DEF Transition, StartProjection
  <2> QED BY <1>2, <2>2 DEF Transition, Transitioned, Record
<1>3. CASE MarkEnqueued
  BY <1>3 DEF MarkEnqueued, MarkedEnqueued, KvVerdictIsRecord, Record
<1>4. ASSUME NEW t \in 0..clock, AcquireDispatch(t) PROVE record'.status = v
  <2>1. record.status \notin TERMINAL_STATES /\ v # "DISPATCHING"
    BY <1>4 DEF AcquireDispatch, CanAcquire, LIVE_STATES, TERMINAL_STATES
  <2> QED BY <1>4, <2>1, <1>live DEF AcquireDispatch, StartProjection
<1>5. ASSUME NEW s \in JobStatus, LandProjection(s) PROVE record'.status = v
  BY <1>5 DEF LandProjection, KvVerdictIsRecord
<1>6. ASSUME NEW s \in JobStatus, FailProjection(s) PROVE record'.status = v
  BY <1>6 DEF FailProjection, KvVerdictIsRecord
<1>7. CASE Tick
  BY <1>7 DEF Tick, KvVerdictIsRecord
<1>8. CASE UNCHANGED vars
  BY <1>8 DEF vars, KvVerdictIsRecord
<1> QED BY <1>1, <1>2, <1>3, <1>4, <1>5, <1>6, <1>7, <1>8 DEF Next

\* A verdict in KV is the verdict of the durable object, however late and in
\* whatever order the write-through puts of projectToKv land.
THEOREM VerdictMirrored == Spec => []KvVerdictIsRecord
<1>1. Init => TypeOK /\ KvVerdictIsRecord
  BY StatusFacts DEF Init, TypeOK, KvVerdictIsRecord, NoRecord, Record
<1> QED BY <1>1, TypeStep, VerdictStep, PTL DEF Spec

-----------------------------------------------------------------------------
\* Two claims of a job by acquireDispatch are a full lease apart unless the
\* job went back to RETRYING in between, whatever stale clocks callers send.
THEOREM LeaseExclusive == Spec => LeaseExclusion
<1> DEFINE Step == InFlight(record) /\ record'.lease # record.lease
                     => record'.lease >= record.lease + LeaseMs
<1>1. TypeOK /\ [Next]_vars => [Step]_vars
  <2> SUFFICES ASSUME TypeOK, Next, InFlight(record), record'.lease # record.lease
               PROVE  record'.lease >= record.lease + LeaseMs
    OBVIOUS
  <2> USE DEF TypeOK, Record
  <2>1. Exists(record)
    BY DEF Exists, InFlight
  <2>2. PICK t \in 0..clock : AcquireDispatch(t)
    \* Every other operation keeps the lease.
    BY <2>1 DEF Next, Create, Transition, Transitioned, MarkEnqueued,
                MarkedEnqueued, LandProjection, FailProjection, Tick
  <2>3. record.lease <= t
    BY <2>2 DEF AcquireDispatch, CanAcquire, IsBusy, LeaseFresh
  <2>4. record'.lease = t + LeaseMs
    BY <2>2 DEF AcquireDispatch, Acquired
  <2> QED BY <2>3, <2>4, ConstantsAssumption
<1> QED BY <1>1, TypeCorrect, PTL DEF Spec, LeaseExclusion

-----------------------------------------------------------------------------
\* A job confirmed or claimed once is never again the orphan (QUEUED and not
\* enqueued) that /api/jobs/create sends a second time.
THEOREM OrphanNeverAgain == Spec => OrphanOnce
<1> DEFINE Step == Exists(record) /\ ~IsOrphan(record) => ~IsOrphan(record')
<1>1. TypeOK /\ [Next]_vars => [Step]_vars
  <2> SUFFICES ASSUME TypeOK, Next, Exists(record), ~IsOrphan(record)
               PROVE  ~IsOrphan(record')
    OBVIOUS
  <2> USE DEF TypeOK, IsOrphan
  <2>1. CASE Create
    BY <2>1 DEF Create
  <2>2. ASSUME NEW to \in JobStatus, Transition(to) PROVE ~IsOrphan(record')
    <3>1. to # "QUEUED"
      BY <2>2, TransitionEdges DEF Transition
    <3> QED BY <2>2, <3>1 DEF Transition, Transitioned, Record
  <2>3. CASE MarkEnqueued
    BY <2>3 DEF MarkEnqueued, MarkedEnqueued, Record
  <2>4. ASSUME NEW t \in 0..clock, AcquireDispatch(t) PROVE ~IsOrphan(record')
    BY <2>4 DEF AcquireDispatch, Acquired, Record
  <2>5. ASSUME NEW s \in JobStatus, LandProjection(s) \/ FailProjection(s)
        PROVE  ~IsOrphan(record')
    BY <2>5 DEF LandProjection, FailProjection
  <2>6. CASE Tick
    BY <2>6 DEF Tick
  <2> QED BY <2>1, <2>2, <2>3, <2>4, <2>5, <2>6 DEF Next
<1> QED BY <1>1, TypeCorrect, PTL DEF Spec, OrphanOnce

-----------------------------------------------------------------------------
\* Every step of the durable object is a step of the abstract job lifecycle or
\* leaves the status alone: in particular the first verdict is the last.
THEOREM LifecycleRefined == Spec => ImplementsLifecycle
<1>1. Init => Lifecycle!Init
  BY DEF Init, Lifecycle!Init, NoRecord
<1>2. TypeOK /\ [Next]_vars => [Lifecycle!Next]_(record.status)
  <2> SUFFICES ASSUME TypeOK, [Next]_vars, record'.status # record.status
               PROVE  Lifecycle!Next
    OBVIOUS
  <2> USE DEF TypeOK, Record, Lifecycle!Next
  <2>0. Lifecycle!LIVE_STATES = LIVE_STATES /\ Lifecycle!TERMINAL_STATES = TERMINAL_STATES
    BY DEF Lifecycle!LIVE_STATES, LIVE_STATES, Lifecycle!TERMINAL_STATES, TERMINAL_STATES
  <2>1. CASE Create
    BY <2>1 DEF Create, Created, NoRecord, Exists, Lifecycle!Create
  <2>2. ASSUME NEW to \in JobStatus, Transition(to) PROVE Lifecycle!Next
    <3>1. record'.status = to
      BY <2>2 DEF Transition, Transitioned
    <3> QED BY <2>0, <2>2, <3>1, TransitionEdges
            DEF Transition, InFlight, Lifecycle!Claim, Lifecycle!Progress,
                Lifecycle!Park, Lifecycle!Settle
  <2>3. CASE MarkEnqueued
    BY <2>3 DEF MarkEnqueued, MarkedEnqueued
  <2>4. ASSUME NEW t \in 0..clock, AcquireDispatch(t) PROVE Lifecycle!Next
    BY <2>0, <2>4 DEF AcquireDispatch, CanAcquire, Acquired, Lifecycle!Claim
  <2>5. ASSUME NEW s \in JobStatus, LandProjection(s) \/ FailProjection(s)
        PROVE  Lifecycle!Next
    BY <2>5 DEF LandProjection, FailProjection
  <2>6. CASE Tick
    BY <2>6 DEF Tick
  <2>7. CASE UNCHANGED vars
    BY <2>7 DEF vars
  <2> QED BY <2>1, <2>2, <2>3, <2>4, <2>5, <2>6, <2>7 DEF Next
<1> QED BY <1>1, <1>2, TypeCorrect, PTL DEF Spec, ImplementsLifecycle, Lifecycle!Spec
=============================================================================
