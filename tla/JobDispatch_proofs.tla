------------------------- MODULE JobDispatch_proofs --------------------------
(***************************************************************************)
(* Proofs about the durable path of one job, end to end, for any number of *)
(* requests, consumers, messages, attempts, retries and faults.            *)
(***************************************************************************)
EXTENDS JobDispatch, JobRecord_proofs, TLAPS

\* What an invocation of the consumer knows at its program counter, and what
\* the queue knows of a message: with TypeOK, an inductive invariant.
Handling ==
  /\ \A c \in Consumers :
       /\ cpc[c] # "idle" => cmsg[c] \in Messages
       /\ cpc[c] \in {"result", "quarantine", "signal"} => IsTerminal(verdict[c])
       /\ cpc[c] = "put" /\ verdict[c] = "RETRYING" => attempt[c] < MaxAttempts
       /\ cpc[c] = "finalread" => kvJob # "NONE"
  /\ \A m \in Messages :
       /\ mstate[m] = "unsent" => tries[m] = 0
       /\ mstate[m] = "ready" => tries[m] <= MaxRetries

TypeInv == TypeOK /\ Handling

\* What outlives its caller is a put of some status.
LEMMA LateTyped ==
  ASSUME TypeInv, NEW statuses \in SUBSET JobStatus, OutlivedBy(statuses)
  PROVE  late' \subseteq JobStatus
BY DEF TypeInv, TypeOK, OutlivedBy

LEMMA PutForTyped ==
  ASSUME TypeInv, NEW c \in Consumers PROVE PutFor(c) \subseteq JobStatus
<1>1. PutFor(c) \in {{"DISPATCHING"}, {verdict[c]}, {}}
  BY DEF PutFor
<1> QED BY <1>1, StatusFacts DEF TypeInv, TypeOK

\* The end of an invocation leaves queue and consumer well-formed.
LEMMA FinishTyped ==
  ASSUME TypeInv, NEW c \in Consumers, cpc[c] # "idle",
         Ack(c) \/ Retry(c), kvJob' = kvJob \/ kvJob' # "NONE"
  PROVE  /\ mstate' \in [Messages -> {"unsent", "ready", "inflight", "acked", "dead"}]
         /\ tries' \in [Messages -> 0..MaxRetries + 1]
         /\ cpc' \in [Consumers -> ConsumerPC]
         /\ cmsg' \in [Consumers -> Messages \cup {NoMessage}]
         /\ attempt' \in [Consumers -> 1..MaxAttempts]
         /\ started' \in [Consumers -> Nat]
         /\ verdict' \in [Consumers -> JobStatus]
         /\ guarded' \in [Consumers -> BOOLEAN]
         /\ Handling'
<1> USE DEF TypeInv, TypeOK, Handling
<1>1. cmsg[c] \in Messages
  OBVIOUS
<1>2. PICK s \in {"acked", "dead", "ready"} :
        Finish(c, s) /\ (s = "ready" => tries[cmsg[c]] <= MaxRetries)
  BY <1>1, ConstantsAssumption DEF Ack, Retry, ReturnedState
<1>3. /\ mstate' = [mstate EXCEPT ![cmsg[c]] = s]
      /\ tries' = tries
      /\ cpc' = [cpc EXCEPT ![c] = "idle"]
      /\ cmsg' = [cmsg EXCEPT ![c] = NoMessage]
      /\ attempt' = [attempt EXCEPT ![c] = 1]
      /\ started' = [started EXCEPT ![c] = 0]
      /\ verdict' = [verdict EXCEPT ![c] = "QUEUED"]
      /\ guarded' = [guarded EXCEPT ![c] = FALSE]
  BY <1>2 DEF Finish
<1>4. /\ mstate' \in [Messages -> {"unsent", "ready", "inflight", "acked", "dead"}]
      /\ tries' \in [Messages -> 0..MaxRetries + 1]
      /\ cpc' \in [Consumers -> ConsumerPC]
      /\ cmsg' \in [Consumers -> Messages \cup {NoMessage}]
  BY <1>1, <1>3 DEF ConsumerPC
<1>5. /\ attempt' \in [Consumers -> 1..MaxAttempts]
      /\ started' \in [Consumers -> Nat]
      /\ verdict' \in [Consumers -> JobStatus]
      /\ guarded' \in [Consumers -> BOOLEAN]
  BY <1>3, ConstantsAssumption, StatusFacts
<1>6. ASSUME NEW d \in Consumers, cpc'[d] # "idle"
      PROVE  /\ cmsg'[d] = cmsg[d] /\ verdict'[d] = verdict[d] /\ attempt'[d] = attempt[d]
             /\ cpc'[d] = cpc[d]
  BY <1>3, <1>6
<1>7. ASSUME NEW m \in Messages
      PROVE  /\ mstate'[m] = "unsent" => tries'[m] = 0
             /\ mstate'[m] = "ready" => tries'[m] <= MaxRetries
  BY <1>1, <1>2, <1>3
<1>8. Handling'
  BY <1>6, <1>7
<1> QED BY <1>4, <1>5, <1>8

\* Producers touch the record, the projection, the charge and, to send, one
\* message nobody has sent yet.
LEMMA ProducerTyped ==
  ASSUME TypeInv, NEW p \in Producers, ProducerStep(p) \/ ProducerFails(p)
  PROVE  TypeInv'
<1> USE DEF TypeInv, TypeOK, Handling, ProducerPC, ProducerActive, ProducerGoto,
            gatewayVars, queueVars, consumerVars, attemptVars
<1>1. CASE PeekJob(p)
  BY <1>1 DEF PeekJob
<1>2. CASE ThrottleJob(p)
  BY <1>2 DEF ThrottleJob
<1>3. CASE CreateJob(p)
  BY <1>3, RecordTypes DEF CreateJob
<1>4. CASE ProjectCreated(p)
  BY <1>4, StatusFacts DEF ProjectCreated
<1>5. CASE ChargeQuota(p)
  BY <1>5 DEF ChargeQuota
<1>6. CASE SendMessage(p)
  BY <1>6, ConstantsAssumption DEF SendMessage
<1>7. CASE ConfirmHandOff(p)
  BY <1>7, RecordTypes DEF ConfirmHandOff
<1>8. CASE ProducerFails(p)
  <2>1. late' \subseteq JobStatus
    BY <1>8, LateTyped, StatusFacts DEF ProducerFails
  <2> QED BY <1>8, <2>1, ConstantsAssumption DEF ProducerFails
<1> QED BY <1>1, <1>2, <1>3, <1>4, <1>5, <1>6, <1>7, <1>8 DEF ProducerStep

\* A verdict about to be written; a RETRYING one leaves an attempt.
LEMMA WriteTyped ==
  ASSUME TypeInv, NEW c \in Consumers, NEW v \in JobStatus, NEW g \in BOOLEAN,
         cpc[c] # "idle", v = "RETRYING" => attempt[c] < MaxAttempts,
         WriteNext(c, v, g), started' \in [Consumers -> Nat],
         UNCHANGED <<now, gatewayVars, queueVars, ppc, cmsg, attempt, faults, late>>
  PROVE  TypeInv'
BY DEF TypeInv, TypeOK, Handling, ConsumerPC, WriteNext, gatewayVars, queueVars

\* The steps of a consumer that neither end its invocation nor fail.
LEMMA ConsumerTyped ==
  ASSUME TypeInv, NEW c \in Consumers, ConsumerStep(c), ~Ack(c), ~Retry(c)
  PROVE  TypeInv'
<1> USE DEF TypeInv, TypeOK, Handling, ConsumerPC, Goto, WriteNext,
            gatewayVars, queueVars, attemptVars
<1>1. CASE PeekAuthority(c)
  BY <1>1 DEF PeekAuthority
<1>2. CASE CheckProjection(c)
  BY <1>2, StatusFacts DEF CheckProjection, IsTerminal
<1>3. CASE HealAuthority(c)
  <2>1. record' = Transitioned(record, verdict[c]) /\ Goto(c, "heal", "healproject")
           /\ UNCHANGED <<queueVars, cmsg, attemptVars>>
    BY <1>3 DEF HealAuthority
  <2>2. record' \in Record
    BY <2>1, RecordTypes
  <2> QED BY <1>3, <2>1, <2>2 DEF HealAuthority
<1>4. CASE ClaimJob(c)
  <2>1. LeaseMs \in Nat
    BY ConstantsAssumption DEF LeaseMs
  <2>2. record' \in Record
    <3>1. Acquired(record, now, LeaseMs) \in Record
      BY <2>1, RecordTypes
    <3> QED BY <1>4, <3>1 DEF ClaimJob
  <2> QED BY <1>4, <2>2 DEF ClaimJob
<1>5. CASE ProjectClaim(c)
  BY <1>5, StatusFacts DEF ProjectClaim
<1>6. CASE EnterDispatch(c)
  <2>1. CASE WriteNext(c, "FAILED", FALSE)
    BY <1>6, <2>1, VerdictFacts, WriteTyped DEF EnterDispatch
  <2>2. CASE Goto(c, "gate", "mint") /\ UNCHANGED <<verdict, guarded>>
    BY <1>6, <2>2 DEF EnterDispatch
  <2> QED BY <1>6, <2>1, <2>2 DEF EnterDispatch
<1>7. CASE StartAttempt(c)
  <2>1. started' \in [Consumers -> Nat]
    BY <1>7 DEF StartAttempt
  <2>2. CASE WriteNext(c, "FAILED", TRUE)
    BY <1>7, <2>1, <2>2, VerdictFacts, WriteTyped DEF StartAttempt
  <2>3. CASE Goto(c, "mint", "fetch")
    BY <1>7, <2>1, <2>3 DEF StartAttempt
  <2> QED BY <1>7, <2>2, <2>3 DEF StartAttempt
<1>8. CASE WorkerAnswers(c)
  <2>1. CASE WriteNext(c, IF LastAttempt(c) THEN "FAILED" ELSE "RETRYING", TRUE)
    <3> DEFINE v == IF LastAttempt(c) THEN "FAILED" ELSE "RETRYING"
    <3>1. v \in JobStatus /\ (v = "RETRYING" => attempt[c] < MaxAttempts)
      BY VerdictFacts, StatusFacts, ConstantsAssumption DEF LastAttempt
    <3> QED BY <1>8, <2>1, <3>1, WriteTyped DEF WorkerAnswers
  <2>2. CASE WriteNext(c, "FAILED", TRUE)
    BY <1>8, <2>2, VerdictFacts, WriteTyped DEF WorkerAnswers
  <2>3. CASE /\ Goto(c, "fetch", "quarantine") /\ UNCHANGED guarded
             /\ verdict' = [verdict EXCEPT ![c] = "REJECTED_FRAUD"]
    BY <1>8, <2>3, VerdictFacts DEF WorkerAnswers
  <2>4. CASE /\ Goto(c, "fetch", "result") /\ UNCHANGED guarded
             /\ verdict' = [verdict EXCEPT ![c] = "DONE"]
    BY <1>8, <2>4, VerdictFacts DEF WorkerAnswers
  <2> QED BY <1>8, <2>1, <2>2, <2>3, <2>4 DEF WorkerAnswers
<1>9. CASE FetchThrows(c)
  BY <1>9 DEF FetchThrows
<1>10. CASE StoreResult(c)
  BY <1>10, StatusFacts DEF StoreResult, IsTerminal, LIVE_STATES
<1>11. CASE HandleError(c)
  <2>1. CASE /\ Goto(c, "catch", "quarantine")
             /\ verdict' = [verdict EXCEPT ![c] = "TERMINATED_TIMEOUT"]
             /\ guarded' = [guarded EXCEPT ![c] = FALSE]
    BY <1>11, <2>1, VerdictFacts DEF HandleError
  <2>2. CASE WriteNext(c, IF LastAttempt(c) THEN "ERROR" ELSE "RETRYING", FALSE)
    <3> DEFINE v == IF LastAttempt(c) THEN "ERROR" ELSE "RETRYING"
    <3>1. v \in JobStatus /\ (v = "RETRYING" => attempt[c] < MaxAttempts)
      BY VerdictFacts, StatusFacts, ConstantsAssumption DEF LastAttempt
    <3> QED BY <1>11, <2>2, <3>1, WriteTyped DEF HandleError
  <2> QED BY <1>11, <2>1, <2>2 DEF HandleError
<1>12. CASE QuarantineWorker(c)
  BY <1>12 DEF QuarantineWorker
<1>13. CASE SignalWorker(c)
  BY <1>13, StatusFacts DEF SignalWorker, IsTerminal, LIVE_STATES
<1>14. CASE WriteVerdict(c)
  BY <1>14, StatusFacts, ConstantsAssumption DEF WriteVerdict
<1>15. CASE ReadFinal(c)
  BY <1>15 DEF ReadFinal
<1>16. CASE SyncAuthority(c)
  <2>1. record' = Transitioned(record, verdict[c]) /\ Goto(c, "sync", "syncproject")
           /\ UNCHANGED <<queueVars, cmsg, attemptVars>>
    BY <1>16 DEF SyncAuthority
  <2>2. record' \in Record
    BY <2>1, RecordTypes
  <2> QED BY <1>16, <2>1, <2>2 DEF SyncAuthority
<1>17. CASE ProjectTransition(c)
  BY <1>17 DEF ProjectTransition
<1> QED BY <1>1, <1>2, <1>3, <1>4, <1>5, <1>6, <1>7, <1>8, <1>9, <1>10, <1>11, <1>12,
           <1>13, <1>14, <1>15, <1>16, <1>17 DEF ConsumerStep, BoundedStep

\* What any step of a consumer leaves of the record and the keys.
LEMMA StoresTyped ==
  ASSUME TypeInv, NEW c \in Consumers, ConsumerStep(c)
  PROVE  /\ cpc[c] # "idle"
         /\ record' \in Record
         /\ kvJob' \in JobStatus \cup {"NONE"} /\ (kvJob' = kvJob \/ kvJob' # "NONE")
         /\ kvResult' \in BOOLEAN /\ quarantined' \in BOOLEAN
         /\ UNCHANGED <<now, charged, ppc, faults, late>>
<1> USE StatusFacts DEF TypeInv, TypeOK, Goto, gatewayVars
<1>1. CASE HealAuthority(c)
  <2>1. Transitioned(record, verdict[c]) \in Record
    BY RecordTypes
  <2> QED BY <1>1, <2>1 DEF HealAuthority
<1>2. CASE ClaimJob(c)
  <2>1. LeaseMs \in Nat
    BY ConstantsAssumption DEF LeaseMs
  <2>2. Acquired(record, now, LeaseMs) \in Record
    BY <2>1, RecordTypes
  <2> QED BY <1>2, <2>2 DEF ClaimJob
<1>3. CASE SyncAuthority(c)
  <2>1. Transitioned(record, verdict[c]) \in Record
    BY RecordTypes
  <2> QED BY <1>3, <2>1 DEF SyncAuthority
<1>4. CASE ProjectClaim(c) \/ WriteVerdict(c) \/ ProjectTransition(c)
  BY <1>4 DEF ProjectClaim, WriteVerdict, ProjectTransition
<1>5. CASE StoreResult(c) \/ QuarantineWorker(c)
  BY <1>5 DEF StoreResult, QuarantineWorker
<1>6. CASE \/ PeekAuthority(c) \/ CheckProjection(c) \/ EnterDispatch(c) \/ StartAttempt(c)
           \/ WorkerAnswers(c) \/ FetchThrows(c) \/ HandleError(c) \/ SignalWorker(c)
           \/ ReadFinal(c)
  BY <1>6 DEF PeekAuthority, CheckProjection, EnterDispatch, StartAttempt, WorkerAnswers,
              FetchThrows, HandleError, SignalWorker, ReadFinal
<1> QED BY <1>1, <1>2, <1>3, <1>4, <1>5, <1>6 DEF ConsumerStep, BoundedStep

LEMMA TypeStep == TypeInv /\ [Next]_vars => TypeInv'
<1> SUFFICES ASSUME TypeInv, [Next]_vars PROVE TypeInv'
  OBVIOUS
<1>1. ASSUME NEW p \in Producers, ProducerStep(p) \/ ProducerFails(p) PROVE TypeInv'
  BY <1>1, ProducerTyped
<1>2. ASSUME NEW c \in Consumers, NEW m \in Messages, Deliver(c, m) PROVE TypeInv'
  BY <1>2, ConstantsAssumption
     DEF TypeInv, TypeOK, Handling, Deliver, Goto, ConsumerPC, gatewayVars, attemptVars
<1>3. ASSUME NEW m \in Messages, Redeliver(m) PROVE TypeInv'
  BY <1>3, ConstantsAssumption
     DEF TypeInv, TypeOK, Handling, Redeliver, gatewayVars, consumerVars, attemptVars
<1>4. ASSUME NEW c \in Consumers, ConsumerStep(c) PROVE TypeInv'
  <2>1. CASE Ack(c) \/ Retry(c)
    BY <1>4, <2>1, StoresTyped, FinishTyped DEF TypeInv, TypeOK
  <2>2. CASE ~Ack(c) /\ ~Retry(c)
    BY <1>4, <2>2, ConsumerTyped
  <2> QED BY <2>1, <2>2
<1>5. ASSUME NEW c \in Consumers, ConsumerThrows(c) \/ ConsumerCrashes(c) PROVE TypeInv'
  <2>0. late' \subseteq JobStatus
    BY <1>5, LateTyped, PutForTyped DEF ConsumerThrows, ConsumerCrashes, TypeInv, TypeOK
  <2>1. /\ faults' \in 0..MaxFaults /\ cpc[c] # "idle" /\ UNCHANGED <<now, gatewayVars, ppc>>
        /\ late' \subseteq JobStatus
    BY <1>5, <2>0, ConstantsAssumption DEF ConsumerThrows, ConsumerCrashes, TypeInv, TypeOK
  <2>2. CASE Ack(c) \/ Retry(c)
    BY <2>1, <2>2, FinishTyped DEF TypeInv, TypeOK, gatewayVars
  <2>3. CASE cpc' = [cpc EXCEPT ![c] = "catch"] /\ UNCHANGED <<queueVars, cmsg, attemptVars>>
    BY <2>1, <2>3 DEF TypeInv, TypeOK, Handling, ConsumerPC, gatewayVars, queueVars, attemptVars
  <2> QED BY <1>5, <2>2, <2>3 DEF ConsumerThrows, ConsumerCrashes
<1>6. CASE Tick
  BY <1>6 DEF Tick, TypeInv, TypeOK, Handling, gatewayVars, queueVars, consumerVars, attemptVars
<1>7. CASE UNCHANGED vars
  BY <1>7 DEF vars, TypeInv, TypeOK, Handling, gatewayVars, queueVars, consumerVars, attemptVars
<1>8. CASE LandLate
  <2>1. kvJob' \in JobStatus /\ late' \subseteq JobStatus
    BY <1>8 DEF LandLate, TypeInv, TypeOK
  <2>2. UNCHANGED <<now, record, kvResult, quarantined, charged, queueVars, ppc,
                    consumerVars, faults>>
    BY <1>8 DEF LandLate
  <2> QED BY <2>1, <2>2, StatusFacts
          DEF TypeInv, TypeOK, Handling, queueVars, consumerVars, attemptVars
<1> QED BY <1>1, <1>2, <1>3, <1>4, <1>5, <1>6, <1>7, <1>8 DEF Next

LEMMA TypeInit == Init => TypeInv
<1> SUFFICES ASSUME Init PROVE TypeInv
  OBVIOUS
<1>1. /\ now \in Nat /\ record \in Record /\ kvJob \in JobStatus \cup {"NONE"}
      /\ kvResult \in BOOLEAN /\ quarantined \in BOOLEAN /\ charged \in Nat
  BY DEF Init, NoRecord, Record
<1>2. /\ mstate \in [Messages -> {"unsent", "ready", "inflight", "acked", "dead"}]
      /\ tries \in [Messages -> 0..MaxRetries + 1]
      /\ ppc \in [Producers -> ProducerPC] /\ faults \in 0..MaxFaults
      /\ late \subseteq JobStatus
  BY ConstantsAssumption DEF Init, ProducerPC
<1>3. /\ cpc \in [Consumers -> ConsumerPC]
      /\ cmsg \in [Consumers -> Messages \cup {NoMessage}]
      /\ attempt \in [Consumers -> 1..MaxAttempts] /\ started \in [Consumers -> Nat]
      /\ verdict \in [Consumers -> JobStatus] /\ guarded \in [Consumers -> BOOLEAN]
  BY ConstantsAssumption, StatusFacts DEF Init, ConsumerPC
<1>4. Handling
  BY ConstantsAssumption DEF Init, Handling
<1> QED BY <1>1, <1>2, <1>3, <1>4 DEF TypeInv, TypeOK

\* Record, keys, queue and handlers stay well-formed: in particular no retry
\* goes past the last attempt, and no message is delivered more often than
\* max_retries allows.
THEOREM TypeCorrect == Spec => []TypeOK
<1>1. TypeInv => TypeOK
  BY DEF TypeInv
<1> QED BY <1>1, TypeInit, TypeStep, PTL DEF Spec

-----------------------------------------------------------------------------
\* The only writes of a consumer to the durable object.
LEMMA ConsumerWrites ==
  ASSUME NEW c \in Consumers, ConsumerStep(c)
  PROVE  \/ record' = record
         \/ /\ CanTransition(record, verdict[c]) /\ record' = Transitioned(record, verdict[c])
            /\ cpc[c] \in {"heal", "sync"}
         \/ /\ CanAcquire(record, now) /\ record' = Acquired(record, now, LeaseMs)
            /\ Goto(c, "claim", "claimproject")
<1>1. CASE HealAuthority(c) \/ SyncAuthority(c)
  BY <1>1 DEF HealAuthority, SyncAuthority
<1>2. CASE ClaimJob(c)
  BY <1>2 DEF ClaimJob
<1>3. CASE ~HealAuthority(c) /\ ~SyncAuthority(c) /\ ~ClaimJob(c)
  BY <1>3 DEF ConsumerStep, BoundedStep, PeekAuthority, CheckProjection, ProjectClaim, EnterDispatch,
              StartAttempt, WorkerAnswers, FetchThrows, StoreResult, HandleError,
              QuarantineWorker, SignalWorker, WriteVerdict, ReadFinal, ProjectTransition,
              gatewayVars
<1> QED BY <1>1, <1>2, <1>3

\* Nothing a consumer does creates the job, deletes it or marks it enqueued.
LEMMA ConsumerKeeps ==
  ASSUME TypeInv, NEW c \in Consumers, ConsumerStep(c)
  PROVE  /\ Exists(record') <=> Exists(record)
         /\ record'.enqueued = record.enqueued
         /\ record'.status # "QUEUED" \/ record' = record
<1> USE DEF TypeInv, TypeOK
<1>1. CASE record' = record
  BY <1>1
<1>2. CASE CanTransition(record, verdict[c]) /\ record' = Transitioned(record, verdict[c])
  <2>1. Exists(record) /\ verdict[c] \in JobStatus /\ verdict[c] # "QUEUED"
    BY <1>2, StatusFacts, TransitionEdges DEF CanTransition, Exists, LIVE_STATES
  <2> QED BY <1>2, <2>1, StatusFacts DEF Transitioned, Exists, Record
<1>3. CASE CanAcquire(record, now) /\ record' = Acquired(record, now, LeaseMs)
  BY <1>3 DEF CanAcquire, Acquired, Exists, Record, LIVE_STATES
<1> QED BY <1>1, <1>2, <1>3, ConsumerWrites

\* Who changes what: the record changes in a producer's or a consumer's step, the
\* charge and the producers' own state in a producer's only.
LEMMA OtherSteps ==
  ASSUME [Next]_vars
  PROVE  \/ \E p \in Producers : ProducerStep(p) \/ ProducerFails(p)
         \/ \E c \in Consumers : ConsumerStep(c) /\ UNCHANGED <<charged, ppc>>
         \/ UNCHANGED <<record, charged, ppc>>
<1>1. ASSUME NEW c \in Consumers, ConsumerStep(c) PROVE UNCHANGED <<charged, ppc>>
  BY <1>1 DEF ConsumerStep, BoundedStep, PeekAuthority, CheckProjection, HealAuthority, ClaimJob,
              ProjectClaim, EnterDispatch, StartAttempt, WorkerAnswers, FetchThrows,
              StoreResult, HandleError, QuarantineWorker, SignalWorker, WriteVerdict,
              ReadFinal, SyncAuthority, ProjectTransition, gatewayVars
<1> QED BY <1>1 DEF Next, Deliver, Redeliver, ConsumerThrows, ConsumerCrashes, LandLate, Tick,
                    vars, gatewayVars

-----------------------------------------------------------------------------
\* At most one request is between creating the job and charging for it, and
\* none is once it has been charged or while there is no job.
Uncharged == {p \in Producers : ppc[p] \in {"project", "charge"}}

ChargeInv ==
  /\ charged \in {0, 1}
  /\ \A p, q \in Uncharged : p = q
  /\ Uncharged # {} => charged = 0 /\ Exists(record)
  /\ charged = 1 => Exists(record)

LEMMA ChargeStep == TypeInv /\ ChargeInv /\ [Next]_vars => ChargeInv'
<1> SUFFICES ASSUME TypeInv, ChargeInv, [Next]_vars PROVE ChargeInv'
  OBVIOUS
<1> USE DEF ChargeInv, Uncharged
<1>1. ASSUME NEW p \in Producers, ProducerStep(p) \/ ProducerFails(p) PROVE ChargeInv'
  <2> USE DEF TypeInv, TypeOK, ProducerGoto, gatewayVars
  <2>1. CASE PeekJob(p) \/ ThrottleJob(p)
    BY <1>1, <2>1 DEF PeekJob, ThrottleJob
  <2>2. CASE CreateJob(p)
    <3>1. Exists(Created)
      BY DEF Exists, Created, NoRecord
    <3> QED BY <2>2, <3>1 DEF CreateJob
  <2>3. CASE ProjectCreated(p) \/ ChargeQuota(p) \/ SendMessage(p)
    BY <2>3 DEF ProjectCreated, ChargeQuota, SendMessage
  <2>4. CASE ConfirmHandOff(p)
    <3>1. Exists(record') <=> Exists(record)
      BY <2>4 DEF ConfirmHandOff, MarkedEnqueued, Exists, Record
    <3> QED BY <2>4, <3>1 DEF ConfirmHandOff
  <2>5. CASE ProducerFails(p)
    BY <2>5 DEF ProducerFails
  <2> QED BY <1>1, <2>1, <2>2, <2>3, <2>4, <2>5 DEF ProducerStep
<1>2. ASSUME NEW c \in Consumers, ConsumerStep(c), UNCHANGED <<charged, ppc>>
      PROVE  ChargeInv'
  BY <1>2, ConsumerKeeps
<1>3. CASE UNCHANGED <<record, charged, ppc>>
  BY <1>3
<1> QED BY <1>1, <1>2, <1>3, OtherSteps

\* However many requests race for one job, and wherever they fail, the device
\* is charged for it at most once.
THEOREM ChargedAtMostOnce == Spec => []ChargedOnce
<1>1. Init => ChargeInv
  BY DEF Init, ChargeInv, Uncharged
<1>2. ChargeInv => ChargedOnce
  BY DEF ChargeInv, ChargedOnce
<1> QED BY <1>1, <1>2, TypeInit, TypeStep, ChargeStep, PTL DEF Spec

-----------------------------------------------------------------------------
\* A producer confirms only after it sent, and nothing is unsent again.
MarkInv ==
  record.enqueued \/ (\E p \in Producers : ppc[p] = "mark") =>
    \E m \in Messages : mstate[m] # "unsent"

LEMMA SentStaysSent ==
  ASSUME TypeInv, [Next]_vars, NEW m \in Messages, mstate[m] # "unsent"
  PROVE  mstate'[m] # "unsent"
<1> USE DEF TypeInv, TypeOK
<1>1. ASSUME NEW c \in Consumers, Ack(c) \/ Retry(c) PROVE mstate'[m] # "unsent"
  BY <1>1 DEF Ack, Retry, Finish, ReturnedState
<1>2. ASSUME NEW p \in Producers, ProducerStep(p) \/ ProducerFails(p)
      PROVE  mstate'[m] # "unsent"
  BY <1>2 DEF ProducerStep, PeekJob, ThrottleJob, CreateJob, ProjectCreated, ChargeQuota,
              SendMessage, ConfirmHandOff, ProducerFails, queueVars
<1>3. ASSUME NEW c \in Consumers, ConsumerStep(c), ~Ack(c), ~Retry(c)
      PROVE  mstate'[m] # "unsent"
  BY <1>3 DEF ConsumerStep, BoundedStep, PeekAuthority, CheckProjection, HealAuthority, ClaimJob,
              ProjectClaim, EnterDispatch, StartAttempt, WorkerAnswers, FetchThrows,
              StoreResult, HandleError, QuarantineWorker, SignalWorker, WriteVerdict,
              ReadFinal, SyncAuthority, ProjectTransition, queueVars
<1>4. ASSUME NEW c \in Consumers, ConsumerThrows(c) \/ ConsumerCrashes(c), ~Ack(c), ~Retry(c)
      PROVE  mstate'[m] # "unsent"
  BY <1>4 DEF ConsumerThrows, ConsumerCrashes, queueVars
<1>5. ASSUME NEW n \in Messages, Redeliver(n) \/ \E c \in Consumers : Deliver(c, n)
      PROVE  mstate'[m] # "unsent"
  BY <1>5 DEF Deliver, Redeliver
<1>6. CASE LandLate \/ Tick \/ UNCHANGED vars
  BY <1>6 DEF LandLate, Tick, vars, queueVars
<1> QED BY <1>1, <1>2, <1>3, <1>4, <1>5, <1>6 DEF Next

LEMMA MarkStep == TypeInv /\ MarkInv /\ [Next]_vars => MarkInv'
<1> SUFFICES ASSUME TypeInv, MarkInv, [Next]_vars,
                    record'.enqueued \/ (\E p \in Producers : ppc'[p] = "mark")
             PROVE  \E m \in Messages : mstate'[m] # "unsent"
  BY DEF MarkInv
<1> USE DEF TypeInv, TypeOK
<1>1. CASE \E p \in Producers : SendMessage(p)
  BY <1>1 DEF SendMessage
<1>2. CASE record.enqueued \/ \E p \in Producers : ppc[p] = "mark"
  BY <1>2, SentStaysSent DEF MarkInv
<1>3. CASE /\ ~\E p \in Producers : SendMessage(p)
           /\ ~record.enqueued /\ ~\E p \in Producers : ppc[p] = "mark"
  \* Without a send, none of the steps of this case confirms.
  <2>1. ASSUME NEW p \in Producers, ProducerStep(p) \/ ProducerFails(p)
        PROVE  ~record'.enqueued /\ \A q \in Producers : ppc'[q] # "mark"
    BY <1>3, <2>1
       DEF ProducerStep, PeekJob, ThrottleJob, CreateJob, ProjectCreated, ChargeQuota,
           ConfirmHandOff, ProducerFails, ProducerGoto, gatewayVars, Created, NoRecord
  <2>2. ASSUME NEW c \in Consumers, ConsumerStep(c), UNCHANGED <<charged, ppc>>
        PROVE  ~record'.enqueued /\ \A q \in Producers : ppc'[q] # "mark"
    BY <1>3, <2>2, ConsumerKeeps
  <2>3. CASE UNCHANGED <<record, charged, ppc>>
    BY <1>3, <2>3
  <2> QED BY <2>1, <2>2, <2>3, OtherSteps
<1> QED BY <1>1, <1>2, <1>3

\* A job the durable object calls enqueued has had a message, so the orphan heal
\* overlooks none.
THEOREM MarkIsProof == Spec => []MarkProvesSend
<1>1. Init => MarkInv
  BY DEF Init, MarkInv, NoRecord
<1>2. MarkInv => MarkProvesSend
  BY DEF MarkInv, MarkProvesSend, Sent
<1> QED BY <1>1, <1>2, TypeInit, TypeStep, MarkStep, PTL DEF Spec

-----------------------------------------------------------------------------
\* A request past its create, or answered 202, belongs to a job that exists;
\* and unless something failed, an existing job has had its message, or the
\* request that will send it is under way.
AcceptInv ==
  /\ \A p \in Producers :
       ppc[p] \in {"project", "charge", "send", "mark", "accepted"} => Exists(record)
  /\ faults = 0 /\ Exists(record) =>
       Sent \/ \E q \in Producers : ppc[q] \in {"project", "charge", "send"}

\* The job, once created, exists for good; so does a fault, once counted.
LEMMA ExistsStays ==
  ASSUME TypeInv, [Next]_vars, Exists(record)
  PROVE  Exists(record')
<1> USE DEF TypeInv, TypeOK
<1>1. ASSUME NEW p \in Producers, ProducerStep(p) \/ ProducerFails(p)
      PROVE  Exists(record')
  BY <1>1 DEF ProducerStep, PeekJob, ThrottleJob, CreateJob, ProjectCreated, ChargeQuota,
              SendMessage, ConfirmHandOff, ProducerFails, gatewayVars, MarkedEnqueued,
              Exists, Record
<1>2. ASSUME NEW c \in Consumers, ConsumerStep(c) PROVE Exists(record')
  BY <1>2, ConsumerKeeps
<1> QED BY <1>1, <1>2, OtherSteps

LEMMA FaultsStay ==
  ASSUME TypeInv, [Next]_vars, faults' = 0
  PROVE  /\ faults = 0
         /\ \A p \in Producers : ~ProducerFails(p)
         /\ \A c \in Consumers : ~ConsumerThrows(c) /\ ~ConsumerCrashes(c)
<1> USE DEF TypeInv, TypeOK
<1>1. ASSUME NEW p \in Producers, ProducerStep(p) PROVE faults' = faults
  BY <1>1 DEF ProducerStep, PeekJob, ThrottleJob, CreateJob, ProjectCreated, ChargeQuota,
              SendMessage, ConfirmHandOff
<1>2. ASSUME NEW c \in Consumers, ConsumerStep(c) PROVE faults' = faults
  BY <1>2, StoresTyped
<1>3. ASSUME \/ LandLate \/ Tick \/ UNCHANGED vars \/ \E m \in Messages : Redeliver(m)
             \/ \E c \in Consumers, m \in Messages : Deliver(c, m)
      PROVE  faults' = faults
  BY <1>3 DEF LandLate, Tick, vars, Redeliver, Deliver
<1>4. \A p \in Producers : ~ProducerFails(p)
  BY DEF ProducerFails
<1>5. \A c \in Consumers : ~ConsumerThrows(c) /\ ~ConsumerCrashes(c)
  BY DEF ConsumerThrows, ConsumerCrashes
<1>6. faults' = faults
  BY <1>1, <1>2, <1>3, <1>4, <1>5 DEF Next
<1> QED BY <1>4, <1>5, <1>6

LEMMA AcceptStep == TypeInv /\ MarkInv /\ AcceptInv /\ [Next]_vars => AcceptInv'
<1> SUFFICES ASSUME TypeInv, MarkInv, AcceptInv, [Next]_vars PROVE AcceptInv'
  OBVIOUS
<1> USE DEF TypeInv, TypeOK, AcceptInv
<1>sent. Sent => Sent'
  BY SentStaysSent DEF Sent
<1>1. ASSUME NEW p \in Producers, ProducerStep(p) \/ ProducerFails(p) PROVE AcceptInv'
  <2> USE DEF ProducerGoto, gatewayVars
  <2>1. CASE PeekJob(p)
    <3>1. /\ UNCHANGED <<record, faults>>
          /\ ppc' = [ppc EXCEPT ![p] = "throttle"] \/
             (ppc' \in {[ppc EXCEPT ![p] = "send"], [ppc EXCEPT ![p] = "accepted"]}
                /\ Exists(record))
          /\ ppc[p] = "peek"
      BY <2>1 DEF PeekJob, Exists
    <3> QED BY <1>sent, <3>1
  <2>2. CASE ThrottleJob(p)
    BY <1>sent, <2>2 DEF ThrottleJob
  <2>3. CASE CreateJob(p)
    <3>1. Exists(Created)
      BY DEF Exists, Created, NoRecord
    <3> QED BY <1>sent, <2>3, <3>1 DEF CreateJob
  <2>4. CASE ProjectCreated(p) \/ ChargeQuota(p)
    BY <1>sent, <2>4 DEF ProjectCreated, ChargeQuota
  <2>5. CASE SendMessage(p)
    <3>1. Sent' /\ UNCHANGED record /\ ppc' = [ppc EXCEPT ![p] = "mark"] /\ ppc[p] = "send"
      BY <2>5 DEF SendMessage, Sent
    <3> QED BY <3>1
  <2>6. CASE ConfirmHandOff(p)
    <3>1. ppc[p] = "mark" /\ ppc' = [ppc EXCEPT ![p] = "accepted"]
      BY <2>6 DEF ConfirmHandOff
    <3>2. Sent' /\ Exists(record')
      BY <1>sent, <3>1, ExistsStays DEF MarkInv, Sent
    <3>3. \A q \in Producers \ {p} : ppc'[q] = ppc[q]
      BY <3>1
    <3> QED BY <3>2, <3>3
  <2>7. CASE ProducerFails(p)
    <3>1. faults' # 0 /\ UNCHANGED record
      BY <2>7 DEF ProducerFails
    <3>2. \/ ppc' = [ppc EXCEPT ![p] = "failed"]
          \/ ppc[p] = "mark" /\ ppc' = [ppc EXCEPT ![p] = "accepted"]
      BY <2>7 DEF ProducerFails
    <3> QED BY <3>1, <3>2
  <2> QED BY <1>1, <2>1, <2>2, <2>3, <2>4, <2>5, <2>6, <2>7 DEF ProducerStep
<1>2. ASSUME UNCHANGED ppc, Exists(record') <=> Exists(record), faults' = 0 => faults = 0
      PROVE  AcceptInv'
  BY <1>sent, <1>2
<1>3. ASSUME NEW c \in Consumers, ConsumerStep(c), UNCHANGED <<charged, ppc>>
      PROVE  AcceptInv'
  BY <1>2, <1>3, ConsumerKeeps, FaultsStay
<1>4. CASE UNCHANGED <<record, charged, ppc>>
  BY <1>2, <1>4, FaultsStay
<1> QED BY <1>1, <1>3, <1>4, OtherSteps

\* However many requests race for one job: as long as nothing fails, a 202
\* answered on another request's behalf is covered by a message sent or by a
\* request that is about to send it.
THEOREM AcceptedCarried == Spec => []AcceptedIsCarried
<1>1. Init => MarkInv /\ AcceptInv
  <2> SUFFICES ASSUME Init PROVE MarkInv /\ AcceptInv
    OBVIOUS
  <2>1. ~Exists(record) /\ ~record.enqueued /\ \A p \in Producers : ppc[p] = "peek"
    BY DEF Init, NoRecord, Exists
  <2> QED BY <2>1 DEF MarkInv, AcceptInv
<1>2. AcceptInv => AcceptedIsCarried
  BY DEF AcceptInv, AcceptedIsCarried
<1> QED BY <1>1, <1>2, TypeInit, TypeStep, MarkStep, AcceptStep, PTL DEF Spec

-----------------------------------------------------------------------------
\* DONE is never in KV, on its way there, in the record or about to be written by a consumer
\* without the result; only between the worker's answer and the store of the
\* result, or in the catch if that store threw, may a consumer hold it.
DoneInv ==
  /\ kvJob = "DONE" \/ record.status = "DONE" => kvResult
  /\ "DONE" \in late => kvResult
  /\ \A c \in Consumers : verdict[c] = "DONE" => kvResult \/ cpc[c] \in {"result", "catch"}

LEMMA DoneStep == TypeInv /\ DoneInv /\ [Next]_vars => DoneInv'
<1> SUFFICES ASSUME TypeInv, DoneInv, [Next]_vars PROVE DoneInv'
  OBVIOUS
<1> USE DEF TypeInv, TypeOK, DoneInv
<1>fin. ASSUME NEW c \in Consumers, Ack(c) \/ Retry(c), UNCHANGED kvResult,
               "DONE" \in late' => kvResult,
               kvJob' = "DONE" \/ record'.status = "DONE" => kvResult
        PROVE  DoneInv'
  BY <1>fin DEF Ack, Retry, Finish
<1>1. ASSUME NEW p \in Producers, ProducerStep(p) \/ ProducerFails(p) PROVE DoneInv'
  <2>1. CASE ProducerStep(p)
    BY <2>1 DEF ProducerStep, PeekJob, ThrottleJob, CreateJob, ProjectCreated, ChargeQuota,
                SendMessage, ConfirmHandOff, gatewayVars, consumerVars,
                attemptVars, Created, NoRecord, MarkedEnqueued, Record
  <2>2. CASE ProducerFails(p)
    BY <2>2 DEF ProducerFails, OutlivedBy, gatewayVars, consumerVars, attemptVars
  <2> QED BY <1>1, <2>1, <2>2
<1>2. ASSUME NEW c \in Consumers, ConsumerStep(c) PROVE DoneInv'
  <2> USE DEF Goto, WriteNext, gatewayVars, attemptVars
  <2>rec. record'.status = "DONE" => kvResult
    BY <1>2, ConsumerWrites DEF Transitioned, Acquired, Record
  <2>1. CASE PeekAuthority(c) \/ ClaimJob(c)
    BY <2>1, <2>rec, <1>fin DEF PeekAuthority, ClaimJob
  <2>2. CASE HealAuthority(c) \/ SyncAuthority(c)
    BY <2>2, <2>rec, <1>fin DEF HealAuthority, SyncAuthority
  <2>3. CASE CheckProjection(c) \/ ReadFinal(c)
    BY <2>3, <2>rec DEF CheckProjection, ReadFinal
  <2>4. CASE ProjectTransition(c)
    BY <2>4, <2>rec, <1>fin DEF ProjectTransition
  <2>5. CASE ProjectClaim(c) \/ QuarantineWorker(c) \/ SignalWorker(c)
    BY <2>5, <2>rec DEF ProjectClaim, QuarantineWorker, SignalWorker
  <2>6. CASE WorkerAnswers(c)
    BY <2>6, <2>rec DEF WorkerAnswers
  <2>7. CASE HandleError(c)
    BY <2>7, <2>rec DEF HandleError
  <2>8. CASE EnterDispatch(c) \/ StartAttempt(c) \/ FetchThrows(c)
    BY <2>8, <2>rec DEF EnterDispatch, StartAttempt, FetchThrows
  <2>9. CASE StoreResult(c)
    BY <2>9, <2>rec DEF StoreResult
  <2>10. CASE WriteVerdict(c)
    BY <2>10, <2>rec DEF WriteVerdict
  <2> QED BY <1>2, <2>1, <2>2, <2>3, <2>4, <2>5, <2>6, <2>7, <2>8, <2>9, <2>10
          DEF ConsumerStep, BoundedStep
<1>3. ASSUME NEW c \in Consumers, ConsumerThrows(c) \/ ConsumerCrashes(c) PROVE DoneInv'
  <2>1. "DONE" \in PutFor(c) => kvResult
    \* The object puts DONE when its record already says so.
    BY DEF PutFor
  <2>2. "DONE" \in late' => kvResult
    BY <1>3, <2>1 DEF ConsumerThrows, ConsumerCrashes, OutlivedBy
  <2> QED BY <1>3, <2>2, <1>fin DEF ConsumerThrows, ConsumerCrashes, gatewayVars, attemptVars
<1>4. ASSUME NEW c \in Consumers, NEW m \in Messages, Deliver(c, m) PROVE DoneInv'
  BY <1>4 DEF Deliver, Goto, gatewayVars, attemptVars
<1>5. ASSUME NEW m \in Messages, Redeliver(m) PROVE DoneInv'
  BY <1>5 DEF Redeliver, gatewayVars, consumerVars, attemptVars
<1>6. CASE LandLate \/ Tick \/ UNCHANGED vars
  BY <1>6 DEF LandLate, Tick, vars, gatewayVars, consumerVars, attemptVars
<1> QED BY <1>1, <1>2, <1>3, <1>4, <1>5, <1>6 DEF Next

\* Whoever reads DONE, the client in KV or a handler in the record, finds the
\* result's key: the store of the artifact comes first on every path.
THEOREM DoneMeansResult == Spec => []DoneHasResult
<1>1. Init => DoneInv
  BY DEF Init, DoneInv, NoRecord
<1>2. DoneInv => DoneHasResult
  BY DEF DoneInv, DoneHasResult
<1> QED BY <1>1, <1>2, TypeInit, TypeStep, DoneStep, PTL DEF Spec

=============================================================================
