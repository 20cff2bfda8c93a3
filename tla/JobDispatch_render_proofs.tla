---------------------- MODULE JobDispatch_render_proofs ----------------------
(***************************************************************************)
(* What follows from the lease of acquireDispatch, the abort timer and the *)
(* quarantine, for any number of consumers and duplicates, when nothing    *)
(* but the worker takes time.                                              *)
(*                                                                         *)
(* One render at a time: while the worker is not quarantined, at most one  *)
(* consumer is past its claim (Own), and the lease outlives what is left   *)
(* of its attempts: an attempt that is tried again was cut short by at     *)
(* least a tick.  Once it is, no consumer starts to render any more, and   *)
(* those that still may (Loop) only get fewer.                             *)
(*                                                                         *)
(* From it: what the durable object is told (Final, Reached), what becomes *)
(* of messages and jobs (CarryInv), and what becomes of a verdict that is  *)
(* in KV before the durable object has it (Standing).                      *)
(***************************************************************************)
EXTENDS JobDispatch_proofs, FiniteSetTheorems

Unclaimed == {"idle", "peek", "kvcheck", "heal", "healproject", "claim"}

\* The consumers that act on a claim.
Own == {c \in Consumers : cpc[c] \notin Unclaimed \cup {"signal"}}

\* The consumers that may yet open a request without passing the gate.
Loop ==
  {c \in Consumers :
     \/ cpc[c] \in {"mint", "fetch", "result", "catch", "quarantine", "signal"}
     \/ cpc[c] = "put" /\ (guarded[c] \/ verdict[c] = "RETRYING")}

\* The time of the attempts after the current one, and what the earlier ones saved.
Left(c) == (MaxAttempts - attempt[c]) * RenderMax
Slack(c) == IF attempt[c] = 1 THEN 0 ELSE 1

InAttempt(c) ==
  cpc[c] \in {"fetch", "result", "catch", "quarantine"} \/ (cpc[c] = "put" /\ guarded[c])

Budget(c) ==
  /\ record.lease > now
  /\ cpc[c] \in {"claimproject", "gate", "mint"} =>
       record.lease >= now + RenderMax + Left(c) + Slack(c)
  /\ InAttempt(c) =>
       /\ started[c] <= now /\ now <= started[c] + RenderMax
       /\ record.lease >= started[c] + RenderMax + Left(c) + Slack(c)
  /\ cpc[c] = "put" /\ verdict[c] = "RETRYING" => record.lease >= now + Left(c) + 1

Owner(c) ==
  /\ cpc[c] = "finalread" => kvJob # "RETRYING"
  /\ cpc[c] \in {"sync", "syncproject"} => verdict[c] # "RETRYING"
  /\ IsTerminal(record.status) \/ (InFlight(record) /\ Budget(c))

Phases ==
  \A c \in Consumers :
    /\ cpc[c] \in Unclaimed \cup {"claimproject", "gate"} => attempt[c] = 1
    /\ cpc[c] \in {"heal", "healproject"} => IsTerminal(verdict[c])
    /\ cpc[c] = "signal" => quarantined

\* Puts outlive their callers only where the constant allows it, after a fault.
LateInv == late # {} => LatePuts /\ faults > 0

RenderInv ==
  /\ TypeInv
  /\ Phases
  /\ LateInv
  /\ quarantined => \A c, d \in Loop : c = d
  /\ ~quarantined =>
       /\ "RETRYING" \notin late
       /\ \A c \in Own : Owner(c) /\ \A d \in Own : c = d

-----------------------------------------------------------------------------
LEMMA LeftFacts ==
  ASSUME TypeInv, NEW c \in Consumers
  PROVE  /\ Left(c) \in Nat
         /\ attempt[c] = 1 => LeaseMs = RenderMax + Left(c)
         /\ attempt[c] = 1 /\ MaxAttempts > 1 => Left(c) >= RenderMax
         /\ attempt'[c] = attempt[c] => Left(c)' = Left(c)
         /\ attempt'[c] = attempt[c] + 1 => Left(c)' = Left(c) - RenderMax
<1> DEFINE k == MaxAttempts - attempt[c]
<1>1. attempt[c] \in 1..MaxAttempts /\ MaxAttempts \in Nat /\ RenderMax \in Nat \ {0}
  BY ConstantsAssumption DEF TypeInv, TypeOK
<1>2. k \in Nat /\ Left(c) = k * RenderMax
  BY <1>1 DEF Left
<1>3. Left(c) \in Nat
  BY <1>1, <1>2
<1>4. ASSUME attempt[c] = 1 PROVE LeaseMs = RenderMax + Left(c)
  BY <1>1, <1>4 DEF LeaseMs, Left
<1>5. ASSUME k >= 1 PROVE k * RenderMax >= RenderMax
  BY <1>1, <1>2, <1>5
<1>6. ASSUME attempt'[c] = attempt[c] + 1 PROVE Left(c)' = Left(c) - RenderMax
  BY <1>1, <1>6 DEF Left
<1>7. ASSUME attempt'[c] = attempt[c] PROVE Left(c)' = Left(c)
  BY <1>7 DEF Left
<1>8. attempt[c] = 1 /\ MaxAttempts > 1 => k >= 1
  BY <1>1
<1> QED BY <1>2, <1>3, <1>4, <1>5, <1>6, <1>7, <1>8

\* A step of one consumer leaves what the others know alone.
Row(c) == <<cpc[c], attempt[c], started[c], verdict[c], guarded[c]>>

LEMMA OthersRest ==
  ASSUME TypeInv, NEW c \in Consumers, NEW d \in Consumers, c # d,
         ConsumerStep(c) \/ ConsumerThrows(c) \/ ConsumerCrashes(c)
  PROVE  Row(d)' = Row(d)
<1> USE DEF TypeInv, TypeOK, Row
<1>1. ASSUME NEW s, Finish(c, s) PROVE Row(d)' = Row(d)
  BY <1>1 DEF Finish
<1>2. CASE Ack(c) \/ Retry(c)
  BY <1>1, <1>2 DEF Ack, Retry
<1>3. CASE ~Ack(c) /\ ~Retry(c)
  <2> USE DEF Goto, WriteNext, attemptVars
  <2>1. CASE ConsumerThrows(c) \/ ConsumerCrashes(c)
    BY <1>3, <2>1 DEF ConsumerThrows, ConsumerCrashes
  <2>2. CASE \/ PeekAuthority(c) \/ CheckProjection(c) \/ HealAuthority(c) \/ ClaimJob(c)
             \/ ProjectClaim(c)
    BY <1>3, <2>2 DEF PeekAuthority, CheckProjection, HealAuthority, ClaimJob, ProjectClaim
  <2>3. CASE EnterDispatch(c) \/ StartAttempt(c)
    BY <2>3 DEF EnterDispatch, StartAttempt
  <2>4. CASE WorkerAnswers(c)
    BY <2>4 DEF WorkerAnswers
  <2>5. CASE HandleError(c)
    BY <2>5 DEF HandleError
  <2>6. CASE FetchThrows(c) \/ StoreResult(c) \/ QuarantineWorker(c) \/ SignalWorker(c)
    BY <2>6 DEF FetchThrows, StoreResult, QuarantineWorker, SignalWorker
  <2>7. CASE WriteVerdict(c) \/ ReadFinal(c)
    BY <2>7 DEF WriteVerdict, ReadFinal
  <2>8. CASE SyncAuthority(c) \/ ProjectTransition(c)
    BY <1>3, <2>8 DEF SyncAuthority, ProjectTransition
  <2> QED BY <2>1, <2>2, <2>3, <2>4, <2>5, <2>6, <2>7, <2>8 DEF ConsumerStep, BoundedStep
<1> QED BY <1>2, <1>3

\* The flag is never cleared, and only terminateWorker sets it.
LEMMA QuarantineStays ==
  ASSUME TypeInv, [Next]_vars
  PROVE  /\ quarantined => quarantined'
         /\ quarantined' # quarantined => \E c \in Consumers : QuarantineWorker(c)
<1>1. ASSUME NEW p \in Producers, ProducerStep(p) \/ ProducerFails(p)
      PROVE  quarantined' = quarantined
  BY <1>1 DEF ProducerStep, PeekJob, ThrottleJob, CreateJob, ProjectCreated, ChargeQuota,
              SendMessage, ConfirmHandOff, ProducerFails, gatewayVars
<1>2. ASSUME NEW c \in Consumers, ConsumerStep(c), ~QuarantineWorker(c)
      PROVE  quarantined' = quarantined
  BY <1>2 DEF ConsumerStep, BoundedStep, PeekAuthority, CheckProjection, HealAuthority, ClaimJob,
              ProjectClaim, EnterDispatch, StartAttempt, WorkerAnswers, FetchThrows,
              StoreResult, HandleError, SignalWorker, WriteVerdict, ReadFinal,
              SyncAuthority, ProjectTransition, gatewayVars
<1>3. ASSUME NEW c \in Consumers, QuarantineWorker(c) PROVE quarantined'
  BY <1>3 DEF QuarantineWorker
<1>4. ASSUME NEW c \in Consumers, ConsumerThrows(c) \/ ConsumerCrashes(c)
      PROVE  quarantined' = quarantined
  BY <1>4 DEF ConsumerThrows, ConsumerCrashes, gatewayVars
<1>5. ASSUME \/ LandLate \/ Tick \/ UNCHANGED vars \/ \E m \in Messages : Redeliver(m)
             \/ \E c \in Consumers, m \in Messages : Deliver(c, m)
      PROVE  quarantined' = quarantined
  BY <1>5 DEF LandLate, Tick, vars, Redeliver, Deliver, gatewayVars
<1> QED BY <1>1, <1>2, <1>3, <1>4, <1>5 DEF Next

\* What the step of a consumer makes of its own row, as far as Phases goes.
LEMMA ConsumerPhases ==
  ASSUME TypeInv, Phases, NEW c \in Consumers,
         ConsumerStep(c) \/ ConsumerThrows(c) \/ ConsumerCrashes(c)
  PROVE  /\ cpc'[c] \in Unclaimed \cup {"claimproject", "gate"} => attempt'[c] = 1
         /\ cpc'[c] \in {"heal", "healproject"} => IsTerminal(verdict'[c])
         /\ cpc'[c] = "signal" => quarantined'
<1> USE DEF TypeInv, TypeOK, Phases, Unclaimed
<1>1. CASE Ack(c) \/ Retry(c)
  BY <1>1 DEF Ack, Retry, Finish
<1>2. CASE ~Ack(c) /\ ~Retry(c)
  <2> USE DEF Goto, WriteNext, attemptVars
  <2>1. CASE ConsumerThrows(c) \/ ConsumerCrashes(c)
    BY <1>2, <2>1 DEF ConsumerThrows, ConsumerCrashes
  <2>2. CASE \/ PeekAuthority(c) \/ CheckProjection(c) \/ HealAuthority(c) \/ ClaimJob(c)
             \/ ProjectClaim(c)
    BY <1>2, <2>2 DEF PeekAuthority, CheckProjection, HealAuthority, ClaimJob, ProjectClaim
  <2>3. CASE EnterDispatch(c) \/ StartAttempt(c)
    BY <2>3 DEF EnterDispatch, StartAttempt
  <2>4. CASE WorkerAnswers(c) \/ HandleError(c)
    BY <2>4 DEF WorkerAnswers, HandleError
  <2>5. CASE FetchThrows(c) \/ StoreResult(c) \/ QuarantineWorker(c) \/ SignalWorker(c)
    BY <2>5 DEF FetchThrows, StoreResult, QuarantineWorker, SignalWorker
  <2>6. CASE WriteVerdict(c) \/ ReadFinal(c)
    BY <2>6 DEF WriteVerdict, ReadFinal
  <2>7. CASE SyncAuthority(c) \/ ProjectTransition(c)
    BY <1>2, <2>7 DEF SyncAuthority, ProjectTransition
  <2> QED BY <1>2, <2>1, <2>2, <2>3, <2>4, <2>5, <2>6, <2>7 DEF ConsumerStep, BoundedStep
<1> QED BY <1>1, <1>2

\* A consumer that acts is alone to change its row; producers, the queue and
\* the clock change none, except that a delivery wakes an idle consumer.
LEMMA WhoMoves ==
  ASSUME TypeInv, [Next]_vars
  PROVE  \/ \A d \in Consumers : Row(d)' = Row(d)
         \/ \E c \in Consumers, m \in Messages : Deliver(c, m)
         \/ \E c \in Consumers : ConsumerStep(c) \/ ConsumerThrows(c) \/ ConsumerCrashes(c)
<1>1. ASSUME NEW p \in Producers, ProducerStep(p) \/ ProducerFails(p)
      PROVE  consumerVars' = consumerVars
  BY <1>1 DEF ProducerStep, PeekJob, ThrottleJob, CreateJob, ProjectCreated, ChargeQuota,
              SendMessage, ConfirmHandOff, ProducerFails
<1>2. ASSUME NEW m \in Messages, Redeliver(m) PROVE consumerVars' = consumerVars
  BY <1>2 DEF Redeliver
<1>3. ASSUME LandLate \/ Tick \/ UNCHANGED vars PROVE consumerVars' = consumerVars
  BY <1>3 DEF LandLate, Tick, vars
<1>4. ASSUME consumerVars' = consumerVars PROVE \A d \in Consumers : Row(d)' = Row(d)
  BY <1>4 DEF consumerVars, attemptVars, Row
<1> QED BY <1>1, <1>2, <1>3, <1>4 DEF Next

LEMMA PhasesStep ==
  ASSUME TypeInv, Phases, [Next]_vars
  PROVE  Phases'
<1>1. ASSUME NEW d \in Consumers, Row(d)' = Row(d)
      PROVE  /\ cpc'[d] \in Unclaimed \cup {"claimproject", "gate"} => attempt'[d] = 1
             /\ cpc'[d] \in {"heal", "healproject"} => IsTerminal(verdict'[d])
             /\ cpc'[d] = "signal" => quarantined'
  BY <1>1, QuarantineStays DEF Phases, Row
<1>2. ASSUME NEW c \in Consumers, NEW m \in Messages, Deliver(c, m) PROVE Phases'
  BY <1>2, QuarantineStays
     DEF Deliver, Goto, attemptVars, gatewayVars, Phases, Unclaimed, TypeInv, TypeOK
<1>3. ASSUME NEW c \in Consumers, ConsumerStep(c) \/ ConsumerThrows(c) \/ ConsumerCrashes(c)
      PROVE  Phases'
  BY <1>1, <1>3, OthersRest, ConsumerPhases DEF Phases
<1>4. CASE \A d \in Consumers : Row(d)' = Row(d)
  BY <1>1, <1>4 DEF Phases
<1> QED BY <1>2, <1>3, <1>4, WhoMoves

-----------------------------------------------------------------------------
\* Once the worker is quarantined nobody gets past the gate.
LEMMA LoopShrinks ==
  ASSUME TypeInv, [Next]_vars, quarantined
  PROVE  Loop' \subseteq Loop
<1> SUFFICES ASSUME NEW c \in Consumers, c \in Loop' PROVE c \in Loop
  BY DEF Loop
<1> USE DEF TypeInv, TypeOK
<1>1. CASE Row(c)' = Row(c)
  BY <1>1 DEF Row, Loop
<1>2. CASE \E d \in Consumers, m \in Messages : Deliver(d, m)
  BY <1>2 DEF Deliver, Goto, attemptVars, Loop
<1>3. CASE ConsumerStep(c) \/ ConsumerThrows(c) \/ ConsumerCrashes(c)
  <2>1. CASE Ack(c) \/ Retry(c)
    BY <2>1 DEF Ack, Retry, Finish, Loop
  <2>2. CASE ~Ack(c) /\ ~Retry(c)
    <3> USE DEF Goto, WriteNext, attemptVars, Loop
    <3>1. CASE ConsumerThrows(c) \/ ConsumerCrashes(c)
      BY <2>2, <3>1 DEF ConsumerThrows, ConsumerCrashes
    <3>2. CASE \/ PeekAuthority(c) \/ CheckProjection(c) \/ HealAuthority(c) \/ ClaimJob(c)
               \/ ProjectClaim(c)
      BY <2>2, <3>2 DEF PeekAuthority, CheckProjection, HealAuthority, ClaimJob, ProjectClaim
    <3>3. CASE EnterDispatch(c)
      BY <3>3 DEF EnterDispatch
    <3>4. CASE cpc[c] \in {"mint", "fetch", "result", "catch", "quarantine", "signal"}
      BY <3>4
    <3>5. CASE WriteVerdict(c) \/ ReadFinal(c)
      BY <3>5 DEF WriteVerdict, ReadFinal
    <3>6. CASE SyncAuthority(c) \/ ProjectTransition(c)
      BY <2>2, <3>6 DEF SyncAuthority, ProjectTransition
    <3> QED BY <1>3, <3>1, <3>2, <3>3, <3>4, <3>5, <3>6
            DEF ConsumerStep, BoundedStep, StartAttempt, WorkerAnswers, FetchThrows, StoreResult,
                HandleError, QuarantineWorker, SignalWorker
  <2> QED BY <2>1, <2>2
<1> QED BY <1>1, <1>2, <1>3, WhoMoves, OthersRest

\* The consumer that quarantines the worker is the only one past its claim.
LEMMA LoopStarts ==
  ASSUME RenderInv, [Next]_vars, ~quarantined, quarantined'
  PROVE  \A c, d \in Loop' : c = d
<1>1. PICK c \in Consumers : QuarantineWorker(c)
  BY QuarantineStays DEF RenderInv
<1>2. c \in Own
  BY <1>1 DEF QuarantineWorker, Goto, Own, Unclaimed
<1>3. ASSUME NEW d \in Loop', d # c PROVE FALSE
  <2>1. d \in Consumers /\ Row(d)' = Row(d)
    BY <1>1, <1>3, OthersRest DEF ConsumerStep, BoundedStep, RenderInv, Loop
  <2>2. d \in Loop /\ d \notin Own
    BY <1>2, <1>3, <2>1 DEF RenderInv, Loop, Row
  <2>3. cpc[d] # "signal"
    BY <2>1 DEF RenderInv, Phases
  <2> QED BY <2>1, <2>2, <2>3 DEF Loop, Own, Unclaimed
<1> QED BY <1>3

-----------------------------------------------------------------------------
\* What the others may do to the record and the key of a job that has an owner.
Undisturbed ==
  /\ now' = now
  /\ kvJob' = kvJob \/ kvJob' # "RETRYING"
  /\ \/ IsTerminal(record'.status)
     \/ record'.status = record.status /\ record'.lease = record.lease

LEMMA OwnerFrame ==
  ASSUME TypeInv, NEW d \in Consumers, Owner(d), Row(d)' = Row(d), Undisturbed
  PROVE  Owner(d)'
<1>1. /\ cpc'[d] = cpc[d] /\ attempt'[d] = attempt[d] /\ started'[d] = started[d]
      /\ verdict'[d] = verdict[d] /\ guarded'[d] = guarded[d]
  BY DEF Row
<1>2. Left(d)' = Left(d) /\ Slack(d)' = Slack(d) /\ InAttempt(d)' = InAttempt(d)
  BY <1>1 DEF Left, Slack, InAttempt
<1>3. CASE IsTerminal(record'.status)
  BY <1>1, <1>3 DEF Owner, Undisturbed
<1>4. CASE record'.status = record.status /\ record'.lease = record.lease
  <2>1. InFlight(record)' = InFlight(record)
    BY <1>4 DEF InFlight
  <2>2. Budget(d) => Budget(d)'
    BY <1>1, <1>2, <1>4 DEF Undisturbed, Budget
  <2> QED BY <1>1, <1>4, <2>1, <2>2 DEF Owner, Undisturbed
<1> QED BY <1>3, <1>4 DEF Undisturbed

\* While there is an owner, a consumer past no claim neither disturbs it nor
\* becomes another.
LEMMA OutsiderStep ==
  ASSUME TypeInv, Phases, NEW c \in Consumers, cpc[c] \in Unclaimed,
         ConsumerStep(c) \/ ConsumerThrows(c) \/ ConsumerCrashes(c)
  PROVE  /\ (ClaimJob(c) /\ CanAcquire(record, now)) \/ cpc'[c] \in Unclaimed
         /\ (ClaimJob(c) /\ CanAcquire(record, now)) \/ Undisturbed
<1> USE DEF TypeInv, TypeOK, Unclaimed
<1>1. CASE ConsumerThrows(c) \/ ConsumerCrashes(c)
  <2>1. Ack(c) \/ Retry(c)
    BY <1>1 DEF ConsumerThrows, ConsumerCrashes
  <2>2. Undisturbed
    BY <1>1 DEF ConsumerThrows, ConsumerCrashes, gatewayVars, Undisturbed
  <2> QED BY <2>1, <2>2 DEF Ack, Retry, Finish
<1>2. CASE PeekAuthority(c) \/ CheckProjection(c)
  <2>1. UNCHANGED <<now, gatewayVars>>
    BY <1>2 DEF PeekAuthority, CheckProjection
  <2>2. CASE Ack(c)
    BY <2>1, <2>2 DEF Ack, Finish, gatewayVars, Undisturbed
  <2>3. CASE ~Ack(c)
    BY <1>2, <2>1, <2>3
       DEF PeekAuthority, CheckProjection, Goto, gatewayVars, Undisturbed
  <2> QED BY <2>2, <2>3
<1>3. CASE HealAuthority(c)
  <2>1. UNCHANGED <<now, kvJob>>
    BY <1>3 DEF HealAuthority
  <2>2. CASE Ack(c) /\ UNCHANGED record
    BY <2>1, <2>2 DEF Ack, Finish, Undisturbed
  <2>3. CASE record' = Transitioned(record, verdict[c]) /\ Goto(c, "heal", "healproject")
    <3>1. IsTerminal(verdict[c])
      BY <2>3 DEF Phases, Goto
    <3>2. record'.status = verdict[c]
      BY <2>3 DEF Transitioned, Record
    <3> QED BY <2>1, <2>3, <3>1, <3>2 DEF Goto, Undisturbed
  <2> QED BY <1>3, <2>2, <2>3 DEF HealAuthority
<1>4. CASE ClaimJob(c)
  <2>1. CASE (Ack(c) \/ Retry(c)) /\ UNCHANGED <<record, now, kvJob>>
    BY <2>1 DEF Ack, Retry, Finish, Undisturbed
  <2> QED BY <1>4, <2>1 DEF ClaimJob
<1>5. CASE ProjectTransition(c)
  <2>1. cpc[c] = "healproject" /\ Ack(c) /\ UNCHANGED <<now, record>> /\ kvJob' = verdict[c]
    BY <1>5 DEF ProjectTransition
  <2>2. IsTerminal(verdict[c])
    BY <2>1 DEF Phases
  <2>3. kvJob' # "RETRYING"
    BY <2>1, <2>2, StatusFacts DEF IsTerminal, TERMINAL_STATES
  <2> QED BY <2>1, <2>3 DEF Ack, Finish, Undisturbed
<1> QED BY <1>1, <1>2, <1>3, <1>4, <1>5
        DEF ConsumerStep, BoundedStep, ProjectClaim, EnterDispatch, StartAttempt, WorkerAnswers,
            FetchThrows, StoreResult, HandleError, QuarantineWorker, SignalWorker,
            WriteVerdict, ReadFinal, SyncAuthority, Goto

\* The owner's own steps keep within its budget.
LEMMA OwnerAdvance ==
  ASSUME TypeInv, Phases, NEW c \in Own, Owner(c), ~quarantined', TypeInv',
         ConsumerStep(c) \/ ConsumerThrows(c) \/ ConsumerCrashes(c)
  PROVE  c \notin Own' \/ Owner(c)'
<1>0. c \in Consumers
  BY DEF Own
<1> USE DEF TypeInv, TypeOK
<1>T. /\ now \in Nat /\ record.lease \in Nat /\ started[c] \in Nat
      /\ attempt[c] \in 1..MaxAttempts /\ RenderMax \in Nat \ {0} /\ Left(c) \in Nat
  BY <1>0, LeftFacts, ConstantsAssumption DEF Record
<1>fin. CASE Ack(c) \/ Retry(c)
  BY <1>0, <1>fin DEF Ack, Retry, Finish, Own, Unclaimed
<1>same. ASSUME UNCHANGED <<now, record>>, attempt'[c] = attempt[c],
                started'[c] = started[c], InAttempt(c)' => InAttempt(c),
                cpc'[c] \in {"finalread", "sync", "syncproject"} =>
                  cpc'[c] = cpc[c] /\ UNCHANGED Row(c) /\ UNCHANGED kvJob,
                cpc'[c] = "put" /\ verdict'[c] = "RETRYING" =>
                  InAttempt(c) /\ now < started[c] + RenderMax,
                cpc'[c] \in {"claimproject", "gate", "mint"} =>
                  cpc[c] \in {"claimproject", "gate", "mint"}
         PROVE  Owner(c)'
  <2>1. Left(c)' = Left(c) /\ Slack(c)' = Slack(c)
    BY <1>same DEF Left, Slack
  <2>2. Slack(c) \in {0, 1}
    BY DEF Slack
  <2>3. Budget(c) => Budget(c)'
    BY <1>T, <1>same, <2>1, <2>2 DEF Budget
  <2>4. InFlight(record)' = InFlight(record)
    BY <1>same DEF InFlight
  <2> QED BY <1>same, <2>3, <2>4 DEF Owner, Row
<1> USE DEF Goto, WriteNext, gatewayVars, attemptVars, InAttempt
<1>1. CASE ProjectClaim(c)
  <2>1. record' = record /\ now' = now /\ cpc'[c] = "gate" /\ UNCHANGED attemptVars
    BY <1>0, <1>1 DEF ProjectClaim
  <2>2. cpc[c] = "claimproject"
    BY <1>1 DEF ProjectClaim
  <2> QED BY <2>1, <2>2, <1>same
<1>2. CASE EnterDispatch(c)
  <2>1. cpc[c] = "gate" /\ UNCHANGED <<now, record, attempt, started>>
    BY <1>2 DEF EnterDispatch
  <2>2. \/ cpc'[c] = "mint"
        \/ cpc'[c] = "put" /\ verdict'[c] = "FAILED" /\ guarded'[c] = FALSE
    BY <1>0, <1>2 DEF EnterDispatch
  <2> QED BY <2>1, <2>2, <1>same
<1>3. CASE StartAttempt(c)
  <2>1. /\ cpc[c] = "mint" /\ UNCHANGED <<now, record, attempt>> /\ started'[c] = now
        /\ cpc'[c] = "fetch" \/ (cpc'[c] = "put" /\ verdict'[c] = "FAILED")
    BY <1>0, <1>3 DEF StartAttempt
  <2>2. Left(c)' = Left(c) /\ Slack(c)' = Slack(c) /\ Slack(c) \in {0, 1}
    BY <2>1 DEF Left, Slack
  <2>3. Budget(c) => Budget(c)'
    BY <1>T, <2>1, <2>2 DEF Budget
  <2> QED BY <2>1, <2>3 DEF Owner, InFlight
<1>4. CASE WorkerAnswers(c)
  <2>1. /\ cpc[c] = "fetch" /\ UNCHANGED <<now, record, attempt, started>>
        /\ cpc'[c] \in {"put", "quarantine", "result"}
    BY <1>0, <1>4 DEF WorkerAnswers
  <2>2. now < started[c] + RenderMax
    BY <1>4, <1>T DEF WorkerAnswers, Aborted, Elapsed
  <2> QED BY <2>1, <2>2, <1>same
<1>5. CASE FetchThrows(c) \/ StoreResult(c)
  <2>1. /\ cpc[c] \in {"fetch", "result"}
        /\ UNCHANGED <<now, record, attempt, started, verdict, guarded>>
        /\ cpc'[c] = "catch" \/ (cpc'[c] = "put" /\ IsTerminal(verdict[c]))
    BY <1>0, <1>5 DEF FetchThrows, StoreResult, Handling
  <2>2. IsTerminal(verdict[c]) => verdict[c] # "RETRYING"
    BY StatusFacts DEF IsTerminal, TERMINAL_STATES
  <2> QED BY <2>1, <2>2, <1>same
<1>6. CASE HandleError(c)
  <2>1. /\ cpc[c] = "catch" /\ UNCHANGED <<now, record, attempt, started>>
        /\ \/ cpc'[c] = "quarantine"
           \/ cpc'[c] = "put" /\ now < started[c] + RenderMax
    BY <1>0, <1>6, <1>T DEF HandleError, Aborted, Elapsed
  <2> QED BY <2>1, <1>same
<1>7. CASE QuarantineWorker(c) \/ SignalWorker(c)
  BY <1>7 DEF QuarantineWorker, SignalWorker, Phases, Own, Unclaimed
<1>8. CASE WriteVerdict(c)
  <2>1. /\ cpc[c] = "put" /\ UNCHANGED <<now, record, started, verdict>>
        /\ kvJob' = verdict[c]
        /\ \/ verdict[c] # "RETRYING" /\ cpc'[c] = "finalread" /\ attempt'[c] = attempt[c]
           \/ verdict[c] = "RETRYING" /\ cpc'[c] = "mint" /\ attempt'[c] = attempt[c] + 1
    BY <1>0, <1>8 DEF WriteVerdict
  <2>2. CASE cpc'[c] = "finalread"
    BY <2>1, <2>2 DEF Owner, Budget, InFlight
  <2>3. CASE cpc'[c] = "mint"
    <3>1. Left(c)' = Left(c) - RenderMax /\ Slack(c)' = 1
      BY <1>0, <1>T, <2>1, <2>3, LeftFacts DEF Slack
    <3>2. Budget(c) => Budget(c)'
      BY <1>T, <2>1, <2>3, <3>1 DEF Budget
    <3> QED BY <2>1, <2>3, <3>2 DEF Owner, InFlight
  <2> QED BY <2>1, <2>2, <2>3
<1>9. CASE ReadFinal(c)
  BY <1>0, <1>9 DEF ReadFinal, Owner, Budget, InFlight
<1>10. CASE SyncAuthority(c)
  <2>1. CASE /\ CanTransition(record, verdict[c]) /\ record' = Transitioned(record, verdict[c])
             /\ Goto(c, "sync", "syncproject") /\ UNCHANGED <<now, verdict>>
    <3>1. /\ record'.status = verdict[c] /\ record'.lease = record.lease
          /\ cpc'[c] = "syncproject" /\ verdict[c] # "RETRYING" /\ verdict' = verdict
      BY <1>0, <2>1 DEF Transitioned, Owner, Record
    <3>2. record'.status \in TERMINAL_STATES \/ InFlight(record')
      BY <2>1, <3>1, TransitionEdges DEF InFlight
    <3>3. Budget(c) => Budget(c)'
      BY <2>1, <3>1 DEF Budget
    <3>4. ~IsTerminal(record.status)
      BY <2>1, StatusFacts DEF CanTransition, IsTerminal
    <3> QED BY <3>1, <3>2, <3>3, <3>4 DEF Owner, IsTerminal, InFlight
  <2> QED BY <1>10, <1>fin, <2>1 DEF SyncAuthority
<1>11. CASE ProjectTransition(c)
  BY <1>11, <1>fin DEF ProjectTransition
<1>12. CASE ConsumerThrows(c) \/ ConsumerCrashes(c)
  <2>1. CASE /\ cpc[c] = "result" \/ (cpc[c] \in {"put", "quarantine"} /\ guarded[c])
             /\ cpc' = [cpc EXCEPT ![c] = "catch"]
             /\ UNCHANGED <<now, record, attempt, started>>
    BY <1>0, <2>1, <1>same
  <2> QED BY <1>12, <1>fin, <2>1 DEF ConsumerThrows, ConsumerCrashes
<1>13. CASE PeekAuthority(c) \/ CheckProjection(c) \/ HealAuthority(c) \/ ClaimJob(c)
  BY <1>13 DEF PeekAuthority, CheckProjection, HealAuthority, ClaimJob, Own, Unclaimed
<1> QED BY <1>1, <1>2, <1>3, <1>4, <1>5, <1>6, <1>7, <1>8, <1>9, <1>10, <1>11, <1>12,
           <1>13 DEF ConsumerStep, BoundedStep

\* A claim succeeds only when there is no owner, and starts with the full lease.
LEMMA ClaimStarts ==
  ASSUME RenderInv, ~quarantined, NEW c \in Consumers, ClaimJob(c), CanAcquire(record, now)
  PROVE  /\ Own = {}
         /\ c \in Own' => Owner(c)'
<1> USE DEF RenderInv, TypeInv, TypeOK
<1>T. /\ now \in Nat /\ RenderMax \in Nat \ {0} /\ Left(c) \in Nat /\ LeaseMs \in Nat
  BY LeftFacts, ConstantsAssumption DEF LeaseMs
<1>1. ASSUME NEW d \in Own PROVE FALSE
  <2>1. IsTerminal(record.status) \/ (InFlight(record) /\ record.lease > now)
    BY DEF Owner, Budget
  <2> QED BY <2>1, StatusFacts DEF CanAcquire, IsBusy, LeaseFresh, IsTerminal
<1>2. ASSUME c \in Own' PROVE Owner(c)'
  <2>1. cpc'[c] # "idle"
    BY <1>2 DEF Own, Unclaimed
  <2>2. ~Ack(c) /\ ~Retry(c)
    BY <2>1 DEF Ack, Retry, Finish
  <2>3. /\ record' = Acquired(record, now, LeaseMs) /\ cpc'[c] = "claimproject"
        /\ UNCHANGED <<now, attempt>> /\ attempt[c] = 1
    BY <2>2 DEF ClaimJob, Goto, attemptVars, Phases, Unclaimed
  <2>4. record'.status = "DISPATCHING" /\ record'.lease = now + LeaseMs
    BY <2>3 DEF Acquired, Record
  <2>5. Left(c)' = Left(c) /\ Slack(c)' = 0 /\ LeaseMs = RenderMax + Left(c)
    BY <2>3, LeftFacts DEF Slack
  <2>6. Budget(c)'
    BY <1>T, <2>3, <2>4, <2>5 DEF Budget, InAttempt
  <2> QED BY <2>3, <2>4, <2>6 DEF Owner, InFlight
<1> QED BY <1>1, <1>2

\* Time: only requests to the worker are open, and none is past its timer.
LEMMA TickOwner ==
  ASSUME TypeInv, PromptSteps, MaxAttempts > 1, Phases, Tick, NEW c \in Own, Owner(c)
  PROVE  Owner(c)'
<1> USE DEF TypeInv, TypeOK
<1>0. c \in Consumers
  BY DEF Own
<1>T. /\ now \in Nat /\ record.lease \in Nat /\ started[c] \in Nat
      /\ RenderMax \in Nat \ {0} /\ Left(c) \in Nat /\ now' = now + 1
  BY <1>0, LeftFacts, ConstantsAssumption DEF Record, Tick
<1>1. cpc[c] = "fetch" /\ now < started[c] + RenderMax
  <2>1. cpc[c] = "fetch"
    BY <1>0 DEF Tick, Own, Unclaimed
  <2>2. ~Aborted(c)
    BY <1>0, <2>1 DEF Tick
  <2> QED BY <1>T, <2>1, <2>2 DEF Aborted, Elapsed
<1>2. UNCHANGED <<record, kvJob, cpc, attempt, started, verdict, guarded>>
  BY DEF Tick, gatewayVars, consumerVars, attemptVars
<1>3. Left(c)' = Left(c) /\ Slack(c)' = Slack(c)
  BY <1>2 DEF Left, Slack
<1>4. (attempt[c] = 1 /\ Left(c) >= RenderMax) \/ Slack(c) = 1
  BY <1>0, LeftFacts DEF Slack
<1>5. Slack(c) \in {0, 1}
  BY DEF Slack
<1>6. Budget(c) => Budget(c)'
  BY <1>T, <1>1, <1>2, <1>3, <1>4, <1>5 DEF Budget, InAttempt
<1> QED BY <1>2, <1>6 DEF Owner, InFlight

\* What may become late: a create, a claim, or a verdict on its way back.
LEMMA LateGrows ==
  ASSUME TypeInv, Phases, [Next]_vars, NEW s \in late', s \notin late
  PROVE  /\ LatePuts
         /\ \/ s \in {"QUEUED", "DISPATCHING"} \/ IsTerminal(s)
            \/ \E c \in Consumers : cpc[c] = "syncproject" /\ s = verdict[c]
<1>1. ASSUME NEW statuses, OutlivedBy(statuses) PROVE LatePuts /\ s \in statuses
  BY <1>1 DEF OutlivedBy
<1>2. ASSUME NEW p \in Producers, ProducerFails(p) PROVE LatePuts /\ s = "QUEUED"
  <2>1. LatePuts /\ s \in (IF ppc[p] = "project" THEN {"QUEUED"} ELSE {})
    BY <1>1, <1>2 DEF ProducerFails
  <2> QED BY <2>1
<1>3. ASSUME NEW c \in Consumers, ConsumerCrashes(c)
      PROVE  /\ LatePuts
             /\ \/ s = "DISPATCHING" \/ IsTerminal(s)
                \/ cpc[c] = "syncproject" /\ s = verdict[c]
  <2>1. LatePuts /\ s \in PutFor(c)
    BY <1>1, <1>3 DEF ConsumerCrashes
  <2>2. \/ cpc[c] = "claimproject" /\ s = "DISPATCHING"
        \/ cpc[c] \in {"healproject", "syncproject"} /\ s = verdict[c]
    BY <2>1 DEF PutFor
  <2> QED BY <2>1, <2>2 DEF Phases
<1>4. ASSUME NEW p \in Producers, ProducerStep(p) PROVE FALSE
  BY <1>4 DEF ProducerStep, PeekJob, ThrottleJob, CreateJob, ProjectCreated, ChargeQuota,
              SendMessage, ConfirmHandOff
<1>5. ASSUME NEW c \in Consumers, ConsumerStep(c) PROVE FALSE
  BY <1>5, StoresTyped
<1> QED BY <1>2, <1>3, <1>4, <1>5
        DEF Next, Deliver, Redeliver, ConsumerThrows, LandLate, Tick, vars

\* Faults are only ever counted up.
LEMMA LateStep ==
  ASSUME TypeInv, Phases, LateInv, [Next]_vars
  PROVE  LateInv'
<1> USE DEF LateInv, TypeInv, TypeOK
<1>1. CASE late' = {}
  BY <1>1
<1>2. ASSUME NEW s \in late' PROVE LatePuts
  BY <1>2, LateGrows
<1>3. CASE faults' > 0
  BY <1>2, <1>3
<1>4. CASE ~(faults' > 0)
  <2>1. faults' = 0
    BY <1>4, TypeStep, ConstantsAssumption
  <2>2. /\ faults = 0
        /\ \A p \in Producers : ~ProducerFails(p)
        /\ \A c \in Consumers : ~ConsumerThrows(c) /\ ~ConsumerCrashes(c)
    BY <2>1, FaultsStay
  <2>3. late = {}
    BY <2>2
  <2>4. ASSUME NEW p \in Producers, ProducerStep(p) PROVE late' = late
    BY <2>4 DEF ProducerStep, PeekJob, ThrottleJob, CreateJob, ProjectCreated, ChargeQuota,
                SendMessage, ConfirmHandOff
  <2>5. ASSUME NEW c \in Consumers, ConsumerStep(c) PROVE late' = late
    BY <2>5, StoresTyped
  <2>6. ASSUME LandLate PROVE FALSE
    BY <2>3, <2>6 DEF LandLate
  <2>7. late' = late
    BY <2>2, <2>4, <2>5, <2>6 DEF Next, Deliver, Redeliver, Tick, vars
  <2> QED BY <2>3, <2>7
<1> QED BY <1>1, <1>3, <1>4

\* The invariant's second half, for as long as the worker is not quarantined.
Owned ==
  /\ "RETRYING" \notin late
  /\ \A c \in Own : Owner(c) /\ \A d \in Own : c = d

LEMMA OwnStep ==
  ASSUME PromptSteps, MaxAttempts > 1, RenderInv, TypeInv', [Next]_vars,
         ~quarantined, ~quarantined'
  PROVE  Owned'
<1> USE DEF RenderInv
<1>late. "RETRYING" \notin late'
  <2> SUFFICES ASSUME "RETRYING" \in late' PROVE FALSE
    OBVIOUS
  <2>1. "RETRYING" \notin {"QUEUED", "DISPATCHING"} /\ ~IsTerminal("RETRYING")
    BY DEF IsTerminal, TERMINAL_STATES
  <2>2. PICK c \in Consumers : cpc[c] = "syncproject" /\ verdict[c] = "RETRYING"
    BY <2>1, LateGrows
  <2> QED BY <2>2 DEF Own, Unclaimed, Owner
<1>frame. ASSUME \A d \in Consumers : Row(d)' = Row(d), Undisturbed PROVE Owned'
  <2>1. Own' = Own
    BY <1>frame DEF Own, Row
  <2>2. ASSUME NEW d \in Own PROVE Owner(d)'
    BY <1>frame, OwnerFrame DEF Own
  <2> QED BY <1>late, <2>1, <2>2 DEF Owned
<1>1. ASSUME NEW p \in Producers, ProducerStep(p) \/ ProducerFails(p) PROVE Owned'
  <2>1. \A d \in Consumers : Row(d)' = Row(d)
    BY <1>1 DEF ProducerStep, PeekJob, ThrottleJob, CreateJob, ProjectCreated, ChargeQuota,
                SendMessage, ConfirmHandOff, ProducerFails, consumerVars, attemptVars, Row
  <2>2. CASE Own = {}
    BY <1>late, <2>1, <2>2 DEF Own, Row, Owned
  <2>3. CASE Own # {}
    <3>1. Exists(record)
      BY <2>3, StatusFacts DEF Owner, InFlight, Exists, IsTerminal
    <3>2. Undisturbed
      BY <1>1, <3>1
         DEF ProducerStep, PeekJob, ThrottleJob, CreateJob, ProjectCreated, ChargeQuota,
             SendMessage, ConfirmHandOff, ProducerFails, gatewayVars, MarkedEnqueued,
             Undisturbed, TypeInv, TypeOK, Record
    <3> QED BY <1>frame, <2>1, <3>2
  <2> QED BY <2>2, <2>3
<1>2. ASSUME NEW c \in Consumers, ConsumerStep(c) \/ ConsumerThrows(c) \/ ConsumerCrashes(c)
      PROVE  Owned'
  <2>1. \A d \in Consumers \ {c} : Row(d)' = Row(d) /\ (d \in Own' <=> d \in Own)
    BY <1>2, OthersRest DEF Row, Own
  <2>2. CASE c \in Own
    <3>1. Own' \subseteq {c}
      BY <2>1, <2>2 DEF Own
    <3>2. c \notin Own' \/ Owner(c)'
      BY <1>2, <2>2, OwnerAdvance
    <3> QED BY <1>late, <3>1, <3>2 DEF Owned
  <2>3. CASE c \notin Own
    <3>1. cpc[c] \in Unclaimed
      BY <2>3 DEF Own, Phases
    <3>2. CASE ClaimJob(c) /\ CanAcquire(record, now)
      <4>1. Own' \subseteq {c}
        BY <2>1, <3>2, ClaimStarts DEF Own
      <4> QED BY <1>late, <3>2, <4>1, ClaimStarts DEF Owned
    <3>3. CASE ~(ClaimJob(c) /\ CanAcquire(record, now))
      <4>1. cpc'[c] \in Unclaimed /\ Undisturbed
        BY <1>2, <3>1, <3>3, OutsiderStep
      <4>2. Own' = Own
        BY <2>1, <2>3, <4>1 DEF Own
      <4>3. ASSUME NEW d \in Own PROVE Owner(d)'
        BY <2>1, <2>3, <4>1, OwnerFrame DEF Own
      <4> QED BY <1>late, <4>2, <4>3 DEF Owned
    <3> QED BY <3>2, <3>3
  <2> QED BY <2>2, <2>3
<1>3. ASSUME NEW c \in Consumers, NEW m \in Messages, Deliver(c, m) PROVE Owned'
  <2>1. /\ cpc[c] = "idle" /\ cpc' = [cpc EXCEPT ![c] = "peek"]
        /\ UNCHANGED <<now, record, kvJob, attempt, started, verdict, guarded>>
    BY <1>3 DEF Deliver, Goto, gatewayVars, attemptVars
  <2>2. Undisturbed
    BY <2>1 DEF Undisturbed
  <2>3. Own' = Own
    BY <2>1 DEF Own, Unclaimed, TypeInv, TypeOK
  <2>4. ASSUME NEW d \in Own PROVE Owner(d)'
    <3>1. d \in Consumers /\ d # c
      BY <2>1 DEF Own, Unclaimed
    <3>2. Row(d)' = Row(d)
      BY <2>1, <3>1 DEF Row, TypeInv, TypeOK
    <3> QED BY <2>2, <3>1, <3>2, OwnerFrame
  <2> QED BY <1>late, <2>3, <2>4 DEF Owned
<1>4. ASSUME NEW m \in Messages, Redeliver(m) PROVE Owned'
  BY <1>4, <1>frame
     DEF Redeliver, gatewayVars, consumerVars, attemptVars, Row, Undisturbed
<1>5. CASE Tick
  <2>1. Own' = Own
    BY <1>5 DEF Tick, consumerVars, Own
  <2> QED BY <1>late, <1>5, <2>1, TickOwner DEF Owned
<1>7. CASE LandLate
  <2>1. \A d \in Consumers : Row(d)' = Row(d)
    BY <1>7 DEF LandLate, consumerVars, attemptVars, Row
  <2>2. Undisturbed
    BY <1>7 DEF LandLate, Undisturbed
  <2> QED BY <1>frame, <2>1, <2>2
<1>6. CASE UNCHANGED vars
  BY <1>6, <1>frame DEF vars, gatewayVars, consumerVars, attemptVars, Row, Undisturbed
<1> QED BY <1>1, <1>2, <1>3, <1>4, <1>5, <1>6, <1>7 DEF Next

LEMMA RenderStep ==
  ASSUME PromptSteps, MaxAttempts > 1, RenderInv, [Next]_vars
  PROVE  RenderInv'
<1>1. TypeInv' /\ Phases' /\ LateInv'
  BY TypeStep, PhasesStep, LateStep DEF RenderInv
<1>2. quarantined \in BOOLEAN /\ quarantined' \in BOOLEAN
  BY <1>1 DEF RenderInv, TypeInv, TypeOK
<1>3. CASE quarantined'
  <2>1. CASE quarantined
    BY <1>1, <1>3, <2>1, LoopShrinks DEF RenderInv
  <2>2. CASE ~quarantined
    BY <1>1, <1>3, <2>2, LoopStarts DEF RenderInv
  <2> QED BY <2>1, <2>2
<1>4. CASE ~quarantined'
  <2>1. ~quarantined
    BY <1>4, QuarantineStays DEF RenderInv
  <2>2. Owned'
    BY <1>1, <1>4, <2>1, OwnStep
  <2> QED BY <1>1, <1>4, <2>2 DEF RenderInv, Owned
<1> QED BY <1>2, <1>3, <1>4

\* Two requests at the worker would be two consumers that own the job, or two
\* still in the loop of a quarantined worker.
LEMMA RenderOne == RenderInv => OneRenderAtATime
<1> SUFFICES ASSUME RenderInv PROVE Cardinality(Rendering) <= 1
  BY DEF OneRenderAtATime
<1>1. Rendering \subseteq Own /\ Rendering \subseteq Loop
  BY DEF Rendering, Own, Loop, Unclaimed
<1>2. \A c, d \in Rendering : c = d
  BY <1>1 DEF RenderInv, TypeInv, TypeOK
<1>3. CASE Rendering = {}
  BY <1>3, FS_EmptySet
<1>4. CASE Rendering # {}
  <2>1. PICK c : c \in Rendering
    BY <1>4
  <2>2. Rendering = {c}
    BY <1>2, <2>1
  <2>3. Cardinality({c}) = 1
    BY FS_Singleton
  <2> QED BY <2>2, <2>3
<1> QED BY <1>3, <1>4

\* Whatever duplicates the queue delivers, whatever crashes and throws, the
\* worker never renders one job twice at a time: provided that only the worker
\* takes time, and that the lease covers more than one attempt.
THEOREM OneRender ==
  ASSUME PromptSteps, MaxAttempts > 1
  PROVE  Spec => []OneRenderAtATime
<1>1. Init => RenderInv
  <2> SUFFICES ASSUME Init PROVE RenderInv
    OBVIOUS
  <2>1. Own = {} /\ Loop = {}
    BY DEF Init, Own, Loop, Unclaimed
  <2>2. Phases /\ LateInv /\ "RETRYING" \notin late
    BY DEF Init, Phases, LateInv
  <2> QED BY <2>1, <2>2, TypeInit DEF RenderInv
<1>2. RenderInv /\ [Next]_vars => RenderInv'
  BY RenderStep
<1> QED BY <1>1, <1>2, RenderOne, PTL DEF Spec

-----------------------------------------------------------------------------
(* The quarantined worker: a consumer whose attempt may still be tried      *)
(* again is alone with the job.                                             *)

InTry(c) == InAttempt(c) \/ cpc[c] = "signal"

\* The consumers that may yet write RETRYING, or have.
Live(c) ==
  \/ cpc[c] = "mint"
  \/ cpc[c] = "put" /\ verdict[c] = "RETRYING"
  \/ InTry(c) /\ now < started[c] + RenderMax

LeaseHolds(c) ==
  /\ cpc[c] = "mint" => record.lease >= now + RenderMax + Left(c) + Slack(c)
  /\ cpc[c] = "put" /\ verdict[c] = "RETRYING" => record.lease >= now + Left(c) + 1
  /\ InTry(c) /\ now < started[c] + RenderMax =>
       started[c] <= now /\ record.lease >= started[c] + RenderMax + Left(c) + Slack(c)

Sole(c) ==
  /\ \A d \in Consumers \ {c} : cpc[d] \in Unclaimed
  /\ IsTerminal(record.status) \/ (InFlight(record) /\ LeaseHolds(c))

SoleInv == quarantined => \A c \in Consumers : Live(c) => Sole(c)

\* What an invocation reads back at its end is no RETRYING of another's, nor is
\* what lands late.
Final ==
  /\ "RETRYING" \notin late
  /\ \A c \in Consumers :
       /\ cpc[c] = "finalread" => kvJob # "RETRYING"
       /\ cpc[c] \in {"sync", "syncproject"} => verdict[c] # "RETRYING"

LEMMA LiveShrinks ==
  ASSUME TypeInv, quarantined, NEW c \in Consumers, Live(c)', [Next]_vars
  PROVE  Live(c)
<1> USE DEF TypeInv, TypeOK
<1>T. now \in Nat /\ started[c] \in Nat /\ RenderMax \in Nat \ {0}
         /\ now' \in Nat /\ now <= now'
  <2>1. now' = now \/ now' = now + 1
    <3>1. ASSUME NEW p \in Producers, ProducerStep(p) \/ ProducerFails(p) PROVE now' = now
      BY <3>1 DEF ProducerStep, PeekJob, ThrottleJob, CreateJob, ProjectCreated, ChargeQuota,
                  SendMessage, ConfirmHandOff, ProducerFails
    <3> QED BY <3>1, StoresTyped
            DEF Next, Deliver, Redeliver, ConsumerThrows, ConsumerCrashes, LandLate, Tick, vars
  <2> QED BY <2>1, ConstantsAssumption
<1>1. CASE Row(c)' = Row(c)
  BY <1>1, <1>T DEF Row, Live, InTry, InAttempt
<1>2. CASE \E d \in Consumers, m \in Messages : Deliver(d, m)
  BY <1>2, <1>T DEF Deliver, Goto, attemptVars, Live, InTry, InAttempt
<1>3. CASE ConsumerStep(c) \/ ConsumerThrows(c) \/ ConsumerCrashes(c)
  <2> USE DEF Goto, WriteNext, attemptVars, Live, InTry, InAttempt
  <2>1. CASE Ack(c) \/ Retry(c)
    BY <2>1 DEF Ack, Retry, Finish
  <2>2. CASE ~Ack(c) /\ ~Retry(c)
    <3>1. CASE ConsumerThrows(c) \/ ConsumerCrashes(c)
      BY <2>2, <3>1, <1>T DEF ConsumerThrows, ConsumerCrashes
    <3>2. CASE \/ PeekAuthority(c) \/ CheckProjection(c) \/ HealAuthority(c) \/ ClaimJob(c)
               \/ ProjectClaim(c)
      BY <2>2, <3>2 DEF PeekAuthority, CheckProjection, HealAuthority, ClaimJob, ProjectClaim
    <3>3. CASE EnterDispatch(c) \/ StartAttempt(c)
      BY <3>3 DEF EnterDispatch, StartAttempt
    <3>4. CASE WorkerAnswers(c)
      BY <3>4, <1>T DEF WorkerAnswers, Aborted, Elapsed
    <3>5. CASE HandleError(c)
      BY <3>5, <1>T DEF HandleError, Aborted, Elapsed
    <3>6. CASE FetchThrows(c) \/ StoreResult(c) \/ QuarantineWorker(c) \/ SignalWorker(c)
      <4>1. IsTerminal(verdict[c]) => verdict[c] # "RETRYING"
        BY StatusFacts DEF IsTerminal, TERMINAL_STATES
      <4> QED BY <3>6, <4>1, <1>T
              DEF FetchThrows, StoreResult, QuarantineWorker, SignalWorker, Handling
    <3>7. CASE WriteVerdict(c) \/ ReadFinal(c)
      BY <3>7 DEF WriteVerdict, ReadFinal
    <3>8. CASE SyncAuthority(c) \/ ProjectTransition(c)
      BY <2>2, <3>8 DEF SyncAuthority, ProjectTransition
    <3> QED BY <1>3, <3>1, <3>2, <3>3, <3>4, <3>5, <3>6, <3>7, <3>8 DEF ConsumerStep, BoundedStep
  <2> QED BY <2>1, <2>2
<1> QED BY <1>1, <1>2, <1>3, WhoMoves, OthersRest

\* While it is live its lease runs, so that nobody can claim the job from it.
LEMMA LiveHoldsLease ==
  ASSUME TypeInv, NEW c \in Consumers, Live(c), Sole(c)
  PROVE  ~CanAcquire(record, now)
<1> USE DEF TypeInv, TypeOK
<1>T. /\ now \in Nat /\ record.lease \in Nat /\ started[c] \in Nat
      /\ RenderMax \in Nat \ {0} /\ Left(c) \in Nat /\ Slack(c) \in {0, 1}
  BY LeftFacts, ConstantsAssumption DEF Record, Slack
<1>1. CASE IsTerminal(record.status)
  BY <1>1, StatusFacts DEF CanAcquire, IsTerminal
<1>2. CASE InFlight(record) /\ LeaseHolds(c)
  <2>1. record.lease > now
    BY <1>T, <1>2 DEF Live, LeaseHolds
  <2> QED BY <1>2, <2>1 DEF CanAcquire, IsBusy, LeaseFresh
<1> QED BY <1>1, <1>2 DEF Sole

\* Its own steps keep within what the lease leaves it.
LEMMA LiveAdvance ==
  ASSUME TypeInv, NEW c \in Consumers, Live(c), Live(c)', InFlight(record), LeaseHolds(c),
         ConsumerStep(c) \/ ConsumerThrows(c) \/ ConsumerCrashes(c)
  PROVE  record' = record /\ LeaseHolds(c)'
<1> USE DEF TypeInv, TypeOK
<1>T. /\ now \in Nat /\ record.lease \in Nat /\ started[c] \in Nat
      /\ attempt[c] \in 1..MaxAttempts /\ RenderMax \in Nat \ {0} /\ Left(c) \in Nat
      /\ Slack(c) \in {0, 1}
  BY LeftFacts, ConstantsAssumption DEF Record, Slack
<1>fin. CASE Ack(c) \/ Retry(c)
  BY <1>fin DEF Ack, Retry, Finish, Live, InTry, InAttempt
<1>same. ASSUME UNCHANGED <<now, record>>, attempt'[c] = attempt[c],
                started'[c] = started[c], cpc'[c] # "mint", InTry(c),
                cpc'[c] = "put" /\ verdict'[c] = "RETRYING" => now < started[c] + RenderMax
         PROVE  record' = record /\ LeaseHolds(c)'
  <2>1. Left(c)' = Left(c) /\ Slack(c)' = Slack(c)
    BY <1>same DEF Left, Slack
  <2> QED BY <1>T, <1>same, <2>1 DEF LeaseHolds
<1> USE DEF Goto, WriteNext, gatewayVars, attemptVars, InAttempt, InTry
<1>1. CASE StartAttempt(c)
  <2>1. /\ cpc[c] = "mint" /\ UNCHANGED <<now, record, attempt>> /\ started'[c] = now
        /\ cpc'[c] = "fetch" \/ (cpc'[c] = "put" /\ verdict'[c] = "FAILED")
    BY <1>1 DEF StartAttempt
  <2>2. Left(c)' = Left(c) /\ Slack(c)' = Slack(c)
    BY <2>1 DEF Left, Slack
  <2> QED BY <1>T, <2>1, <2>2 DEF LeaseHolds
<1>2. CASE WorkerAnswers(c)
  <2>1. /\ cpc[c] = "fetch" /\ UNCHANGED <<now, record, attempt, started>>
        /\ cpc'[c] \in {"put", "quarantine", "result"}
    BY <1>2 DEF WorkerAnswers
  <2>2. now < started[c] + RenderMax
    BY <1>2, <1>T DEF WorkerAnswers, Aborted, Elapsed
  <2> QED BY <2>1, <2>2, <1>same
<1>3. CASE FetchThrows(c) \/ StoreResult(c) \/ QuarantineWorker(c) \/ SignalWorker(c)
  <2>1. /\ cpc[c] \in {"fetch", "result", "quarantine", "signal"}
        /\ UNCHANGED <<now, record, attempt, started, verdict, guarded>>
        /\ \/ cpc'[c] \in {"catch", "signal"}
           \/ cpc'[c] = "put" /\ IsTerminal(verdict[c])
    BY <1>3 DEF FetchThrows, StoreResult, QuarantineWorker, SignalWorker, Handling
  <2>2. IsTerminal(verdict[c]) => verdict[c] # "RETRYING"
    BY StatusFacts DEF IsTerminal, TERMINAL_STATES
  <2> QED BY <2>1, <2>2, <1>same
<1>4. CASE HandleError(c)
  <2>1. /\ cpc[c] = "catch" /\ UNCHANGED <<now, record, attempt, started>>
        /\ \/ cpc'[c] = "quarantine"
           \/ cpc'[c] = "put" /\ now < started[c] + RenderMax
    BY <1>4, <1>T DEF HandleError, Aborted, Elapsed
  <2> QED BY <2>1, <1>same
<1>5. CASE WriteVerdict(c)
  <2>1. /\ cpc[c] = "put" /\ verdict[c] = "RETRYING" /\ UNCHANGED <<now, record, started>>
        /\ cpc'[c] = "mint" /\ attempt'[c] = attempt[c] + 1
    BY <1>5 DEF WriteVerdict, Live
  <2>2. Left(c)' = Left(c) - RenderMax /\ Slack(c)' = 1
    BY <1>T, <2>1, LeftFacts DEF Slack
  <2> QED BY <1>T, <2>1, <2>2 DEF LeaseHolds
<1>6. CASE ConsumerThrows(c) \/ ConsumerCrashes(c)
  <2>1. CASE /\ cpc[c] = "result" \/ (cpc[c] \in {"put", "quarantine"} /\ guarded[c])
             /\ cpc' = [cpc EXCEPT ![c] = "catch"]
             /\ UNCHANGED <<now, record, attempt, started>>
    BY <2>1, <1>same
  <2> QED BY <1>6, <1>fin, <2>1 DEF ConsumerThrows, ConsumerCrashes
<1>7. CASE \/ PeekAuthority(c) \/ CheckProjection(c) \/ HealAuthority(c) \/ ClaimJob(c)
           \/ ProjectClaim(c) \/ EnterDispatch(c) \/ ReadFinal(c) \/ SyncAuthority(c)
           \/ ProjectTransition(c)
  BY <1>7 DEF PeekAuthority, CheckProjection, HealAuthority, ClaimJob, ProjectClaim,
              EnterDispatch, ReadFinal, SyncAuthority, ProjectTransition, Live
<1> QED BY <1>1, <1>2, <1>3, <1>4, <1>5, <1>6, <1>7 DEF ConsumerStep, BoundedStep

\* The others stay away from a live consumer and leave it the job.
LEMMA LiveUndisturbed ==
  ASSUME TypeInv, Phases, NEW c \in Consumers, Live(c), Sole(c),
         NEW d \in Consumers, d # c,
         ConsumerStep(d) \/ ConsumerThrows(d) \/ ConsumerCrashes(d)
  PROVE  cpc'[d] \in Unclaimed /\ Undisturbed
<1>1. ~CanAcquire(record, now)
  BY LiveHoldsLease
<1>2. cpc[d] \in Unclaimed
  BY DEF Sole
<1> QED BY <1>1, <1>2, OutsiderStep

\* Undisturbed, its own row the same: it keeps what it has.
LEMMA SoleFrame ==
  ASSUME NEW c \in Consumers, Live(c), Sole(c), Row(c)' = Row(c), Undisturbed,
         \A d \in Consumers \ {c} : cpc'[d] \in Unclaimed
  PROVE  Sole(c)'
<1>1. /\ cpc'[c] = cpc[c] /\ attempt'[c] = attempt[c] /\ started'[c] = started[c]
      /\ verdict'[c] = verdict[c] /\ guarded'[c] = guarded[c] /\ now' = now
  BY DEF Row, Undisturbed
<1>2. Left(c)' = Left(c) /\ Slack(c)' = Slack(c) /\ InTry(c)' = InTry(c)
  BY <1>1 DEF Left, Slack, InTry, InAttempt
<1>3. CASE IsTerminal(record'.status)
  BY <1>3 DEF Sole
<1>4. CASE record'.status = record.status /\ record'.lease = record.lease
  <2>1. LeaseHolds(c) => LeaseHolds(c)'
    BY <1>1, <1>2, <1>4 DEF LeaseHolds
  <2> QED BY <1>4, <2>1 DEF Sole, InFlight
<1> QED BY <1>3, <1>4 DEF Undisturbed

\* The consumer that quarantines the worker is alone with the job.
LEMMA SoleStarts ==
  ASSUME RenderInv, [Next]_vars, ~quarantined, quarantined', NEW c \in Consumers, Live(c)'
  PROVE  Sole(c)'
<1> USE DEF RenderInv
<1>1. PICK d \in Consumers : QuarantineWorker(d)
  BY QuarantineStays
<1>2. /\ d \in Own /\ Owner(d) /\ cpc[d] = "quarantine" /\ cpc' = [cpc EXCEPT ![d] = "signal"]
      /\ UNCHANGED <<now, record, attempt, started, verdict, guarded>>
  BY <1>1 DEF QuarantineWorker, Goto, Own, Unclaimed, attemptVars
<1>3. ASSUME NEW e \in Consumers \ {d} PROVE cpc'[e] = cpc[e] /\ cpc[e] \in Unclaimed
  BY <1>2, <1>3 DEF Own, Phases, TypeInv, TypeOK
<1>4. c = d
  <2>1. c # d => Live(c)
    BY <1>2, <1>3 DEF Live, InTry, InAttempt
  <2> QED BY <1>3, <2>1 DEF Live, InTry, InAttempt, Unclaimed
<1>5. cpc'[d] = "signal" /\ InAttempt(d)
  BY <1>2 DEF InAttempt, TypeInv, TypeOK
<1>6. Left(d)' = Left(d) /\ Slack(d)' = Slack(d)
  BY <1>2 DEF Left, Slack
<1>7. Budget(d) => LeaseHolds(d)'
  BY <1>2, <1>5, <1>6 DEF Budget, LeaseHolds
<1> QED BY <1>2, <1>3, <1>4, <1>7 DEF Sole, Owner, InFlight

LEMMA SoleStep ==
  ASSUME PromptSteps, RenderInv, SoleInv, Final, [Next]_vars
  PROVE  SoleInv'
<1> SUFFICES ASSUME quarantined', NEW c \in Consumers, Live(c)'
             PROVE  Sole(c)'
  BY DEF SoleInv
<1> USE DEF RenderInv
<1>1. CASE ~quarantined
  BY <1>1, SoleStarts
<1>2. CASE quarantined
  <2>0. Live(c) /\ Sole(c)
    BY <1>2, LiveShrinks DEF SoleInv
  <2>x. Exists(record)
    BY <2>0, StatusFacts DEF Sole, InFlight, Exists, IsTerminal
  <2>1. ASSUME \A d \in Consumers : Row(d)' = Row(d), Undisturbed PROVE Sole(c)'
    BY <2>0, <2>1, SoleFrame DEF Sole, Row
  <2>2. ASSUME NEW p \in Producers, ProducerStep(p) \/ ProducerFails(p) PROVE Sole(c)'
    <3>1. \A d \in Consumers : Row(d)' = Row(d)
      BY <2>2 DEF ProducerStep, PeekJob, ThrottleJob, CreateJob, ProjectCreated, ChargeQuota,
                  SendMessage, ConfirmHandOff, ProducerFails, consumerVars, attemptVars, Row
    <3>2. Undisturbed
      BY <2>2, <2>x
         DEF ProducerStep, PeekJob, ThrottleJob, CreateJob, ProjectCreated, ChargeQuota,
             SendMessage, ConfirmHandOff, ProducerFails, gatewayVars, MarkedEnqueued,
             Undisturbed, TypeInv, TypeOK, Record
    <3> QED BY <2>1, <3>1, <3>2
  <2>3. ASSUME NEW d \in Consumers, ConsumerStep(d) \/ ConsumerThrows(d) \/ ConsumerCrashes(d)
        PROVE  Sole(c)'
    <3>1. \A e \in Consumers \ {d} : Row(e)' = Row(e) /\ cpc'[e] = cpc[e]
      BY <2>3, OthersRest DEF Row
    <3>2. CASE d = c
      <4>1. \A e \in Consumers \ {c} : cpc'[e] \in Unclaimed
        BY <2>0, <3>1, <3>2 DEF Sole
      <4>2. CASE InFlight(record) /\ LeaseHolds(c)
        <5>1. record' = record /\ LeaseHolds(c)'
          BY <2>0, <2>3, <3>2, <4>2, LiveAdvance
        <5> QED BY <4>1, <4>2, <5>1 DEF Sole, InFlight
      <4>3. CASE IsTerminal(record.status)
        <5>1. IsTerminal(record'.status)
          <6>1. CASE ConsumerStep(c)
            BY <4>3, <6>1, ConsumerWrites, StatusFacts
               DEF CanTransition, CanAcquire, IsTerminal
          <6>2. CASE ConsumerThrows(c) \/ ConsumerCrashes(c)
            BY <4>3, <6>2 DEF ConsumerThrows, ConsumerCrashes, gatewayVars
          <6> QED BY <2>3, <3>2, <6>1, <6>2
        <5> QED BY <4>1, <5>1 DEF Sole
      <4> QED BY <2>0, <4>2, <4>3 DEF Sole
    <3>3. CASE d # c
      <4>1. cpc'[d] \in Unclaimed /\ Undisturbed
        BY <2>0, <2>3, <3>3, LiveUndisturbed
      <4>2. \A e \in Consumers \ {c} : cpc'[e] \in Unclaimed
        BY <2>0, <3>1, <4>1 DEF Sole
      <4>3. Row(c)' = Row(c)
        BY <3>1, <3>3
      <4> QED BY <2>0, <4>1, <4>2, <4>3, SoleFrame
    <3> QED BY <3>2, <3>3
  <2>4. ASSUME NEW d \in Consumers, NEW m \in Messages, Deliver(d, m) PROVE Sole(c)'
    <3>1. /\ cpc[d] = "idle" /\ cpc' = [cpc EXCEPT ![d] = "peek"]
          /\ UNCHANGED <<now, record, kvJob, attempt, started, verdict, guarded>>
      BY <2>4 DEF Deliver, Goto, gatewayVars, attemptVars
    <3>2. d # c
      BY <2>0, <3>1 DEF Live, InTry, InAttempt
    <3>3. Row(c)' = Row(c) /\ Undisturbed
      BY <3>1, <3>2 DEF Row, Undisturbed, TypeInv, TypeOK
    <3>4. \A e \in Consumers \ {c} : cpc'[e] \in Unclaimed
      BY <2>0, <3>1 DEF Sole, Unclaimed, TypeInv, TypeOK
    <3> QED BY <2>0, <3>3, <3>4, SoleFrame
  <2>5. ASSUME NEW m \in Messages, Redeliver(m) PROVE Sole(c)'
    BY <2>5, <2>1 DEF Redeliver, gatewayVars, consumerVars, attemptVars, Row, Undisturbed
  <2>6. CASE Tick
    <3>1. /\ UNCHANGED <<record, cpc, attempt, started, verdict, guarded>>
          /\ now' = now + 1 /\ cpc[c] \in {"idle", "fetch", "signal"}
      BY <2>6 DEF Tick, gatewayVars, consumerVars, attemptVars
    <3>2. Left(c)' = Left(c) /\ Slack(c)' = Slack(c) /\ InTry(c)' = InTry(c)
      BY <3>1 DEF Left, Slack, InTry, InAttempt
    <3>3. now \in Nat /\ started[c] \in Nat /\ RenderMax \in Nat
      BY ConstantsAssumption DEF TypeInv, TypeOK
    <3>4. LeaseHolds(c) => LeaseHolds(c)'
      BY <3>1, <3>2, <3>3 DEF LeaseHolds
    <3> QED BY <2>0, <3>1, <3>4 DEF Sole, InFlight
  <2>7. CASE UNCHANGED vars
    BY <2>7, <2>1 DEF vars, gatewayVars, consumerVars, attemptVars, Row, Undisturbed
  <2>8. CASE LandLate
    BY <2>8, <2>1
       DEF LandLate, Final, gatewayVars, consumerVars, attemptVars, Row, Undisturbed
  <2> QED BY <2>2, <2>3, <2>4, <2>5, <2>6, <2>7, <2>8 DEF Next
<1> QED BY <1>1, <1>2 DEF TypeInv, TypeOK

-----------------------------------------------------------------------------
(* What reaches the durable object.                                         *)

\* Who writes the key the client polls, and what.
LEMMA KvWrites ==
  ASSUME [Next]_vars
  PROVE  \/ kvJob' = kvJob
         \/ \E p \in Producers : ProjectCreated(p)
         \/ \E c \in Consumers : ProjectClaim(c) \/ WriteVerdict(c) \/ ProjectTransition(c)
         \/ LandLate
<1>1. ASSUME NEW p \in Producers, ProducerStep(p) \/ ProducerFails(p), ~ProjectCreated(p)
      PROVE  kvJob' = kvJob
  BY <1>1 DEF ProducerStep, PeekJob, ThrottleJob, CreateJob, ChargeQuota, SendMessage,
              ConfirmHandOff, ProducerFails, gatewayVars
<1>2. ASSUME NEW c \in Consumers, ConsumerStep(c),
             ~ProjectClaim(c), ~WriteVerdict(c), ~ProjectTransition(c)
      PROVE  kvJob' = kvJob
  BY <1>2 DEF ConsumerStep, BoundedStep, PeekAuthority, CheckProjection, HealAuthority, ClaimJob,
              EnterDispatch, StartAttempt, WorkerAnswers, FetchThrows, StoreResult,
              HandleError, QuarantineWorker, SignalWorker, ReadFinal, SyncAuthority,
              gatewayVars
<1> QED BY <1>1, <1>2
        DEF Next, Deliver, Redeliver, ConsumerThrows, ConsumerCrashes, Tick, vars, gatewayVars

LEMMA FinalInit == Init => Final
BY DEF Init, Final

LEMMA FinalStep ==
  ASSUME RenderInv, SoleInv, Final, [Next]_vars
  PROVE  Final'
<1> USE DEF RenderInv, TypeInv, TypeOK
<1>terminal. \A v : IsTerminal(v) => v # "RETRYING"
  BY StatusFacts DEF IsTerminal, TERMINAL_STATES
<1>1. ASSUME NEW c \in Consumers, cpc[c] = "finalread", cpc'[c] = "finalread"
      PROVE  kvJob' # "RETRYING"
  <2>1. kvJob # "RETRYING"
    BY <1>1 DEF Final
  <2>2. ASSUME NEW d \in Consumers, WriteVerdict(d), verdict[d] = "RETRYING" PROVE FALSE
    <3>1. cpc[d] = "put" /\ d # c /\ Live(d)
      BY <1>1, <2>2 DEF WriteVerdict, Live
    <3>2. CASE quarantined
      BY <1>1, <3>1, <3>2 DEF SoleInv, Sole, Unclaimed
    <3>3. CASE ~quarantined
      BY <1>1, <3>1, <3>3 DEF Own, Unclaimed
    <3> QED BY <3>2, <3>3
  <2>3. ASSUME NEW d \in Consumers, ProjectTransition(d) PROVE verdict[d] # "RETRYING"
    BY <2>3, <1>terminal DEF ProjectTransition, Phases, Final
  <2>4. CASE \E d \in Consumers : ProjectTransition(d)
    BY <2>3, <2>4 DEF ProjectTransition
  <2>5. CASE \E d \in Consumers : WriteVerdict(d)
    BY <2>2, <2>5 DEF WriteVerdict
  <2>6. CASE (\E p \in Producers : ProjectCreated(p)) \/ \E d \in Consumers : ProjectClaim(d)
    BY <2>6 DEF ProjectCreated, ProjectClaim
  <2>7. CASE LandLate
    BY <2>7 DEF LandLate, Final
  <2> QED BY <2>1, <2>4, <2>5, <2>6, <2>7, KvWrites
<1>late. "RETRYING" \notin late'
  <2> SUFFICES ASSUME "RETRYING" \in late' PROVE FALSE
    OBVIOUS
  <2>1. \E c \in Consumers : cpc[c] = "syncproject" /\ verdict[c] = "RETRYING"
    BY <1>terminal, LateGrows DEF Final
  <2> QED BY <2>1 DEF Final
<1>2. ASSUME NEW c \in Consumers, ConsumerStep(c) \/ ConsumerThrows(c) \/ ConsumerCrashes(c)
      PROVE  /\ cpc'[c] = "finalread" => kvJob' # "RETRYING"
             /\ cpc'[c] \in {"sync", "syncproject"} => verdict'[c] # "RETRYING"
  <2>1. CASE Ack(c) \/ Retry(c)
    BY <2>1 DEF Ack, Retry, Finish
  <2>2. CASE ~Ack(c) /\ ~Retry(c)
    <3> USE DEF Goto, WriteNext, attemptVars
    <3>1. CASE ConsumerThrows(c) \/ ConsumerCrashes(c)
      BY <2>2, <3>1 DEF ConsumerThrows, ConsumerCrashes
    <3>2. CASE \/ PeekAuthority(c) \/ CheckProjection(c) \/ HealAuthority(c) \/ ClaimJob(c)
               \/ ProjectClaim(c)
      BY <2>2, <3>2 DEF PeekAuthority, CheckProjection, HealAuthority, ClaimJob, ProjectClaim
    <3>3. CASE EnterDispatch(c) \/ StartAttempt(c) \/ WorkerAnswers(c)
      BY <3>3 DEF EnterDispatch, StartAttempt, WorkerAnswers
    <3>4. CASE \/ HandleError(c) \/ FetchThrows(c) \/ StoreResult(c) \/ QuarantineWorker(c)
               \/ SignalWorker(c)
      BY <3>4 DEF HandleError, FetchThrows, StoreResult, QuarantineWorker, SignalWorker
    <3>5. CASE WriteVerdict(c)
      BY <3>5 DEF WriteVerdict
    <3>6. CASE ReadFinal(c)
      BY <3>6 DEF ReadFinal, Final
    <3>7. CASE SyncAuthority(c) \/ ProjectTransition(c)
      BY <2>2, <3>7 DEF SyncAuthority, ProjectTransition, Final
    <3> QED BY <1>2, <3>1, <3>2, <3>3, <3>4, <3>5, <3>6, <3>7 DEF ConsumerStep, BoundedStep
  <2> QED BY <2>1, <2>2
<1>3. ASSUME NEW c \in Consumers, Row(c)' = Row(c)
      PROVE  /\ cpc'[c] = "finalread" => kvJob' # "RETRYING"
             /\ cpc'[c] \in {"sync", "syncproject"} => verdict'[c] # "RETRYING"
  BY <1>1, <1>3 DEF Row, Final
<1>4. ASSUME NEW c \in Consumers, NEW m \in Messages, Deliver(c, m)
      PROVE  /\ cpc'[c] = "peek"
             /\ \A d \in Consumers \ {c} : Row(d)' = Row(d)
  BY <1>4 DEF Deliver, Goto, attemptVars, Row
<1>5. CASE \E c \in Consumers, m \in Messages : Deliver(c, m)
  BY <1>late, <1>3, <1>4, <1>5 DEF Final
<1>6. CASE \E c \in Consumers : ConsumerStep(c) \/ ConsumerThrows(c) \/ ConsumerCrashes(c)
  BY <1>late, <1>2, <1>3, <1>6, OthersRest DEF Final
<1>7. CASE \A d \in Consumers : Row(d)' = Row(d)
  BY <1>late, <1>3, <1>7 DEF Final
<1> QED BY <1>5, <1>6, <1>7, WhoMoves

\* Of the statuses between claim and verdict the durable object sees only the
\* claim, and nobody is past a claim of a job that was never claimed.
Reached ==
  /\ record.status \in {"NONE", "QUEUED", "DISPATCHING"} \cup TERMINAL_STATES
  /\ kvJob # "PROCESSING" /\ "PROCESSING" \notin late
  /\ \A c \in Consumers :
       /\ verdict[c] # "PROCESSING"
       /\ cpc[c] \notin Unclaimed => Exists(record) /\ record.status # "QUEUED"
       /\ cpc[c] = "syncproject" => IsTerminal(verdict[c]) /\ IsTerminal(record.status)
       /\ cpc[c] = "put" => verdict[c] = "RETRYING" \/ IsTerminal(verdict[c])

LEMMA ReachedInit == Init => Reached
BY DEF Init, Reached, NoRecord, Unclaimed

\* The record moves to a claim or to a verdict, and stays claimed or settled.
LEMMA StatusMoves ==
  ASSUME TypeInv, Phases, Final, Reached, [Next]_vars
  PROVE  /\ record'.status \in {"NONE", "QUEUED", "DISPATCHING"} \cup TERMINAL_STATES
         /\ IsTerminal(record.status) => IsTerminal(record'.status)
         /\ Exists(record) => Exists(record')
         /\ Exists(record) /\ record.status # "QUEUED" => record'.status # "QUEUED"
<1> USE StatusFacts DEF TypeInv, TypeOK, IsTerminal, Exists
<1>1. ASSUME record'.status = record.status
      PROVE  /\ record'.status \in {"NONE", "QUEUED", "DISPATCHING"} \cup TERMINAL_STATES
             /\ IsTerminal(record.status) => IsTerminal(record'.status)
             /\ Exists(record) => Exists(record')
             /\ Exists(record) /\ record.status # "QUEUED" => record'.status # "QUEUED"
  BY <1>1 DEF Reached
<1>2. ASSUME NEW p \in Producers, ProducerStep(p) \/ ProducerFails(p)
      PROVE  \/ record'.status = record.status
             \/ record.status = "NONE" /\ record'.status = "QUEUED"
  BY <1>2 DEF ProducerStep, PeekJob, ThrottleJob, CreateJob, ProjectCreated, ChargeQuota,
              SendMessage, ConfirmHandOff, ProducerFails, gatewayVars, Created, NoRecord,
              MarkedEnqueued, Record
<1>3. ASSUME NEW c \in Consumers, ConsumerStep(c)
      PROVE  \/ record' = record
             \/ /\ record.status \in LIVE_STATES
                /\ record'.status \in {"DISPATCHING"} \cup TERMINAL_STATES
  <2>1. CASE /\ CanTransition(record, verdict[c]) /\ record' = Transitioned(record, verdict[c])
             /\ cpc[c] \in {"heal", "sync"}
    <3>1. record.status \in LIVE_STATES /\ record'.status = verdict[c]
      BY <2>1 DEF CanTransition, Transitioned, Record
    <3>2. CASE cpc[c] = "heal"
      BY <3>1, <3>2 DEF Phases
    <3>3. CASE cpc[c] = "sync"
      <4>1. record.status = "DISPATCHING" /\ verdict[c] \notin {"RETRYING", "PROCESSING"}
        BY <3>1, <3>3 DEF Final, Reached, Unclaimed
      <4>2. verdict[c] \in ALLOWED_TRANSITIONS["DISPATCHING"]
        BY <2>1, <4>1 DEF CanTransition
      <4>3. verdict[c] \in TERMINAL_STATES
        BY <4>1, <4>2 DEF ALLOWED_TRANSITIONS
      <4> QED BY <3>1, <4>3
    <3> QED BY <2>1, <3>2, <3>3
  <2>2. CASE CanAcquire(record, now) /\ record' = Acquired(record, now, LeaseMs)
    BY <2>2 DEF CanAcquire, Acquired, Record
  <2> QED BY <1>3, <2>1, <2>2, ConsumerWrites
<1>4. CASE UNCHANGED <<record, charged, ppc>>
  BY <1>1, <1>4
<1>5. CASE \E p \in Producers : ProducerStep(p) \/ ProducerFails(p)
  BY <1>1, <1>2, <1>5
<1>6. CASE \E c \in Consumers : ConsumerStep(c)
  <2>1. CASE record' = record
    BY <1>1, <2>1
  <2>2. CASE /\ record.status \in LIVE_STATES
             /\ record'.status \in {"DISPATCHING"} \cup TERMINAL_STATES
    <3>1. record'.status # "NONE" /\ record'.status # "QUEUED"
      BY <2>2 DEF TERMINAL_STATES
    <3> QED BY <2>2, <3>1
  <2> QED BY <1>3, <1>6, <2>1, <2>2
<1> QED BY <1>4, <1>5, <1>6, OtherSteps

LEMMA ReachedStep ==
  ASSUME TypeInv, Phases, Final, Reached, TypeInv', [Next]_vars
  PROVE  Reached'
<1> USE DEF TypeInv, TypeOK
<1>0. /\ record'.status \in {"NONE", "QUEUED", "DISPATCHING"} \cup TERMINAL_STATES
      /\ IsTerminal(record.status) => IsTerminal(record'.status)
      /\ Exists(record) => Exists(record')
      /\ Exists(record) /\ record.status # "QUEUED" => record'.status # "QUEUED"
  BY StatusMoves
<1>1. kvJob' # "PROCESSING"
  <2>1. CASE \E p \in Producers : ProjectCreated(p)
    BY <2>1 DEF ProjectCreated
  <2>2. CASE \E c \in Consumers : ProjectClaim(c) \/ WriteVerdict(c) \/ ProjectTransition(c)
    BY <2>2 DEF ProjectClaim, WriteVerdict, ProjectTransition, Reached
  <2>3. CASE LandLate
    BY <2>3 DEF LandLate, Reached
  <2> QED BY <2>1, <2>2, <2>3, KvWrites DEF Reached
<1>late. "PROCESSING" \notin late'
  <2>1. "PROCESSING" \notin {"QUEUED", "DISPATCHING"} /\ ~IsTerminal("PROCESSING")
    BY DEF IsTerminal, TERMINAL_STATES
  <2> QED BY <2>1, LateGrows DEF Reached
<1>2. ASSUME NEW c \in Consumers, Row(c)' = Row(c)
      PROVE  /\ verdict'[c] # "PROCESSING"
             /\ cpc'[c] \notin Unclaimed => Exists(record') /\ record'.status # "QUEUED"
             /\ cpc'[c] = "syncproject" => IsTerminal(verdict'[c]) /\ IsTerminal(record'.status)
             /\ cpc'[c] = "put" => verdict'[c] = "RETRYING" \/ IsTerminal(verdict'[c])
  BY <1>0, <1>2 DEF Row, Reached
<1>3. ASSUME NEW c \in Consumers, ConsumerStep(c) \/ ConsumerThrows(c) \/ ConsumerCrashes(c)
      PROVE  /\ verdict'[c] # "PROCESSING"
             /\ cpc'[c] \notin Unclaimed => Exists(record') /\ record'.status # "QUEUED"
             /\ cpc'[c] = "syncproject" => IsTerminal(verdict'[c]) /\ IsTerminal(record'.status)
             /\ cpc'[c] = "put" => verdict'[c] = "RETRYING" \/ IsTerminal(verdict'[c])
  <2>1. CASE Ack(c) \/ Retry(c)
    BY <2>1 DEF Ack, Retry, Finish, Unclaimed
  <2>2. CASE ~Ack(c) /\ ~Retry(c)
    <3> USE DEF Goto, WriteNext, attemptVars, Reached, Unclaimed
    <3>1. CASE ConsumerThrows(c) \/ ConsumerCrashes(c)
      BY <2>2, <3>1, <1>0 DEF ConsumerThrows, ConsumerCrashes
    <3>2. CASE PeekAuthority(c) \/ CheckProjection(c) \/ HealAuthority(c)
      BY <2>2, <3>2 DEF PeekAuthority, CheckProjection, HealAuthority
    <3>3. CASE ClaimJob(c)
      BY <2>2, <3>3 DEF ClaimJob, Acquired, Record, Exists
    <3>4. CASE ProjectClaim(c) \/ EnterDispatch(c) \/ StartAttempt(c)
      BY <1>0, <3>4, VerdictFacts DEF ProjectClaim, EnterDispatch, StartAttempt
    <3>5. CASE WorkerAnswers(c)
      BY <1>0, <3>5, VerdictFacts DEF WorkerAnswers
    <3>6. CASE HandleError(c)
      BY <1>0, <3>6, VerdictFacts DEF HandleError
    <3>7. CASE FetchThrows(c) \/ StoreResult(c) \/ QuarantineWorker(c) \/ SignalWorker(c)
      BY <1>0, <3>7 DEF FetchThrows, StoreResult, QuarantineWorker, SignalWorker, Handling
    <3>8. CASE WriteVerdict(c) \/ ReadFinal(c)
      BY <1>0, <3>8 DEF WriteVerdict, ReadFinal
    <3>9. CASE SyncAuthority(c)
      <4>1. /\ cpc[c] = "sync" /\ CanTransition(record, verdict[c])
            /\ record' = Transitioned(record, verdict[c])
            /\ cpc'[c] = "syncproject" /\ verdict'[c] = verdict[c]
        BY <2>2, <3>9 DEF SyncAuthority
      <4>2. record'.status = verdict[c] /\ record'.status # record.status
        BY <4>1 DEF Transitioned, Record, CanTransition
      <4>3. record.status \in LIVE_STATES /\ record.status # "QUEUED" /\ Exists(record)
        BY <4>1 DEF CanTransition
      <4>4. record.status = "DISPATCHING"
        BY <4>3, StatusFacts DEF Exists
      <4>5. IsTerminal(record'.status)
        BY <1>0, <4>2, <4>3, <4>4 DEF IsTerminal, Exists
      <4> QED BY <1>0, <4>1, <4>2, <4>3, <4>5
    <3>10. CASE ProjectTransition(c)
      BY <2>2, <3>10 DEF ProjectTransition
    <3> QED BY <1>3, <3>1, <3>2, <3>3, <3>4, <3>5, <3>6, <3>7, <3>8, <3>9, <3>10
            DEF ConsumerStep, BoundedStep
  <2> QED BY <2>1, <2>2
<1>4. CASE \E c \in Consumers, m \in Messages : Deliver(c, m)
  <2>1. PICK c \in Consumers : \E m \in Messages : Deliver(c, m)
    BY <1>4
  <2>2. cpc'[c] = "peek" /\ verdict' = verdict
    BY <2>1 DEF Deliver, Goto, attemptVars
  <2>3. \A d \in Consumers \ {c} : Row(d)' = Row(d)
    BY <2>1 DEF Deliver, Goto, attemptVars, Row
  <2> QED BY <1>0, <1>1, <1>late, <1>2, <2>2, <2>3 DEF Reached, Unclaimed
<1>5. CASE \E c \in Consumers : ConsumerStep(c) \/ ConsumerThrows(c) \/ ConsumerCrashes(c)
  BY <1>0, <1>1, <1>late, <1>2, <1>3, <1>5, OthersRest DEF Reached
<1>6. CASE \A d \in Consumers : Row(d)' = Row(d)
  BY <1>0, <1>1, <1>late, <1>2, <1>6 DEF Reached
<1> QED BY <1>4, <1>5, <1>6, WhoMoves

LEMMA ExclusiveInit == Init => RenderInv /\ SoleInv /\ Final /\ Reached
<1> SUFFICES ASSUME Init PROVE RenderInv /\ SoleInv
  BY FinalInit, ReachedInit
<1>1. Own = {} /\ Loop = {} /\ \A c \in Consumers : ~Live(c)
  BY DEF Init, Own, Loop, Unclaimed, Live, InTry, InAttempt
<1>2. Phases /\ LateInv /\ "RETRYING" \notin late
  BY DEF Init, Phases, LateInv
<1> QED BY <1>1, <1>2, TypeInit DEF RenderInv, SoleInv

\* What exclusive ownership gives the rest of the proofs.
ExclusiveInv == RenderInv /\ SoleInv /\ Final /\ Reached

LEMMA ExclusiveStep ==
  ASSUME PromptSteps, MaxAttempts > 1, ExclusiveInv, [Next]_vars
  PROVE  ExclusiveInv'
<1>1. RenderInv'
  BY RenderStep DEF ExclusiveInv
<1>2. SoleInv' /\ Final'
  BY SoleStep, FinalStep DEF ExclusiveInv
<1>3. Reached'
  BY <1>1, ReachedStep DEF ExclusiveInv, RenderInv
<1> QED BY <1>1, <1>2, <1>3 DEF ExclusiveInv

\* RETRYING and PROCESSING never reach the durable object: it sees the claim
\* and the verdict, so no verdict is ever refused as an illegal edge from a
\* state the consumer parked it in.
THEOREM ClaimsAndVerdicts ==
  ASSUME PromptSteps, MaxAttempts > 1
  PROVE  Spec => []OnlyClaimsAndVerdicts
<1>1. ExclusiveInv => OnlyClaimsAndVerdicts
  BY DEF ExclusiveInv, Reached, OnlyClaimsAndVerdicts
<1>2. Init => ExclusiveInv
  BY ExclusiveInit DEF ExclusiveInv
<1>3. ExclusiveInv /\ [Next]_vars => ExclusiveInv'
  BY ExclusiveStep
<1> QED BY <1>1, <1>2, <1>3, PTL DEF Spec

-----------------------------------------------------------------------------
(* Messages: each is handled by one invocation at a time, and as long as    *)
(* the job has no verdict something carries it.                             *)

Held ==
  /\ \A c \in Consumers : cpc[c] = "idle" <=> cmsg[c] = NoMessage
  /\ \A c \in Consumers : cpc[c] # "idle" => mstate[cmsg[c]] = "inflight"
  /\ \A c, d \in Consumers : cpc[c] # "idle" /\ cmsg[c] = cmsg[d] => c = d

\* Between the messages and the invocations a step ends one, starts one, sends
\* one, or does neither.
LEMMA QueueMoves ==
  ASSUME TypeInv, [Next]_vars
  PROVE  \/ /\ UNCHANGED <<mstate, cmsg>>
            /\ \A c \in Consumers : cpc'[c] = "idle" <=> cpc[c] = "idle"
         \/ \E c \in Consumers, s \in {"acked", "ready", "dead"} :
              cpc[c] # "idle" /\ Finish(c, s)
         \/ \E c \in Consumers, m \in Messages : Deliver(c, m)
         \/ /\ UNCHANGED <<cpc, cmsg>>
            /\ \E m \in Messages :
                 mstate[m] = "unsent" /\ mstate' = [mstate EXCEPT ![m] = "ready"]
<1> USE DEF TypeInv, TypeOK
<1> DEFINE Rest == /\ UNCHANGED <<mstate, cmsg>>
                   /\ \A c \in Consumers : cpc'[c] = "idle" <=> cpc[c] = "idle"
           Ends == \E c \in Consumers, s \in {"acked", "ready", "dead"} :
                     cpc[c] # "idle" /\ Finish(c, s)
           Sends == /\ UNCHANGED <<cpc, cmsg>>
                    /\ \E m \in Messages :
                         mstate[m] = "unsent" /\ mstate' = [mstate EXCEPT ![m] = "ready"]
<1>1. ASSUME NEW p \in Producers, ProducerStep(p) \/ ProducerFails(p) PROVE Rest \/ Sends
  <2>1. CASE SendMessage(p)
    BY <2>1 DEF SendMessage, consumerVars
  <2>2. CASE ~SendMessage(p)
    <3>1. UNCHANGED <<mstate, cmsg, cpc>>
      BY <1>1, <2>2
         DEF ProducerStep, PeekJob, ThrottleJob, CreateJob, ProjectCreated, ChargeQuota,
             ConfirmHandOff, ProducerFails, queueVars, consumerVars
    <3> QED BY <3>1
  <2> QED BY <2>1, <2>2
<1>2. ASSUME NEW c \in Consumers, cpc[c] # "idle", Ack(c) \/ Retry(c) PROVE Ends
  BY <1>2 DEF Ack, Retry, ReturnedState
<1>3. ASSUME NEW c \in Consumers, ConsumerStep(c), ~Ack(c), ~Retry(c) PROVE Rest
  <2> USE DEF Goto, WriteNext, queueVars, attemptVars
  <2>1. CASE \/ PeekAuthority(c) \/ CheckProjection(c) \/ HealAuthority(c) \/ ClaimJob(c)
             \/ ProjectClaim(c) \/ EnterDispatch(c) \/ StartAttempt(c)
    BY <1>3, <2>1 DEF PeekAuthority, CheckProjection, HealAuthority, ClaimJob, ProjectClaim,
                      EnterDispatch, StartAttempt
  <2>2. CASE WorkerAnswers(c) \/ HandleError(c)
    BY <2>2 DEF WorkerAnswers, HandleError
  <2>3. CASE FetchThrows(c) \/ StoreResult(c) \/ QuarantineWorker(c) \/ SignalWorker(c)
    BY <2>3 DEF FetchThrows, StoreResult, QuarantineWorker, SignalWorker
  <2>4. CASE WriteVerdict(c) \/ ReadFinal(c) \/ SyncAuthority(c) \/ ProjectTransition(c)
    BY <1>3, <2>4 DEF WriteVerdict, ReadFinal, SyncAuthority, ProjectTransition
  <2> QED BY <1>3, <2>1, <2>2, <2>3, <2>4 DEF ConsumerStep, BoundedStep
<1>4. ASSUME NEW c \in Consumers, ConsumerThrows(c) \/ ConsumerCrashes(c), ~Ack(c), ~Retry(c)
      PROVE  Rest
  BY <1>4 DEF ConsumerThrows, ConsumerCrashes, queueVars
<1>5. ASSUME NEW c \in Consumers, ConsumerThrows(c) \/ ConsumerCrashes(c) PROVE cpc[c] # "idle"
  BY <1>5 DEF ConsumerThrows, ConsumerCrashes
<1>6. ASSUME NEW m \in Messages, Redeliver(m) PROVE Sends
  BY <1>6 DEF Redeliver, consumerVars
<1>7. ASSUME LandLate \/ Tick \/ UNCHANGED vars PROVE Rest
  BY <1>7 DEF LandLate, Tick, vars, queueVars, consumerVars
<1> HIDE DEF Rest, Ends, Sends
<1>8. ASSUME NEW c \in Consumers, ConsumerStep(c) PROVE Rest \/ Ends
  BY <1>2, <1>3, <1>8, StoresTyped
<1>9. ASSUME NEW c \in Consumers, ConsumerThrows(c) \/ ConsumerCrashes(c) PROVE Rest \/ Ends
  BY <1>2, <1>4, <1>5, <1>9
<1>10. \/ Rest \/ Ends \/ Sends
       \/ \E c \in Consumers, m \in Messages : Deliver(c, m)
  BY <1>1, <1>6, <1>7, <1>8, <1>9 DEF Next
<1> QED BY <1>10 DEF Rest, Ends, Sends

LEMMA HeldStep ==
  ASSUME TypeInv, Held, [Next]_vars
  PROVE  Held'
<1> USE ConstantsAssumption DEF TypeInv, TypeOK, Held
<1>1. CASE /\ UNCHANGED <<mstate, cmsg>>
           /\ \A c \in Consumers : cpc'[c] = "idle" <=> cpc[c] = "idle"
  BY <1>1
<1>2. ASSUME NEW c \in Consumers, NEW s, cpc[c] # "idle", Finish(c, s) PROVE Held'
  <2>1. /\ cpc' = [cpc EXCEPT ![c] = "idle"] /\ cmsg' = [cmsg EXCEPT ![c] = NoMessage]
        /\ mstate' = [mstate EXCEPT ![cmsg[c]] = s] /\ cmsg[c] \in Messages
    BY <1>2 DEF Finish, Handling
  <2>2. ASSUME NEW d \in Consumers, d # c, cpc[d] # "idle"
        PROVE  cmsg[d] \in Messages /\ cmsg[d] # cmsg[c]
    BY <2>2 DEF Handling
  <2> QED BY <2>1, <2>2
<1>3. ASSUME NEW c \in Consumers, NEW m \in Messages, Deliver(c, m) PROVE Held'
  <2>1. /\ cpc' = [cpc EXCEPT ![c] = "peek"] /\ cmsg' = [cmsg EXCEPT ![c] = m]
        /\ mstate' = [mstate EXCEPT ![m] = "inflight"] /\ mstate[m] = "ready"
        /\ cpc[c] = "idle"
    BY <1>3 DEF Deliver, Goto
  <2>2. ASSUME NEW d \in Consumers, d # c, cpc[d] # "idle"
        PROVE  cmsg[d] \in Messages /\ cmsg[d] # m
    BY <2>1, <2>2 DEF Handling
  <2>3. ASSUME NEW d \in Consumers, d # c, cpc[d] = "idle" PROVE cmsg[d] = NoMessage
    BY <2>3
  <2> QED BY <2>1, <2>2, <2>3
<1>4. CASE /\ UNCHANGED <<cpc, cmsg>>
           /\ \E m \in Messages :
                mstate[m] = "unsent" /\ mstate' = [mstate EXCEPT ![m] = "ready"]
  BY <1>4 DEF Handling
<1> QED BY <1>1, <1>2, <1>3, <1>4, QueueMoves

BeforeClaim == {"peek", "kvcheck", "claim"}
AfterClaim ==
  {"claimproject", "gate", "mint", "fetch", "result", "catch", "quarantine", "signal", "put"}

\* Some message will be delivered again or lies in the dead-letter queue, or
\* some invocation is on its way to a verdict.  Without a fault, nothing but a
\* running claim may send a message back, so no job is left to the dead letters.
CarryInv ==
  /\ Held
  /\ InFlight(record) => Sent
  /\ ~LatePuts /\ Sent /\ ~Settled =>
       \/ \E m \in Messages : mstate[m] \in {"ready", "dead"}
       \/ \E c \in Consumers : cpc[c] \in BeforeClaim \cup AfterClaim
  /\ faults = 0 /\ Sent /\ ~Settled =>
       \/ \E c \in Consumers : cpc[c] \in AfterClaim
       \/ /\ ~InFlight(record)
          /\ \/ \E m \in Messages : mstate[m] = "ready"
             \/ \E c \in Consumers : cpc[c] \in BeforeClaim

\* No request writes its create-projection once the queue has had a message of
\* the job.  Two requests break it: the second sends the orphan of the first.
OnTime == Sent => \A p \in Producers : ppc[p] # "project"

\* An invocation on its way stays on it, until there is a verdict.
LEMMA SeekerStep ==
  ASSUME ExclusiveInv, NEW c \in Consumers, ConsumerStep(c), ~Settled, ~Settled'
  PROVE  /\ cpc[c] \in AfterClaim => cpc'[c] \in AfterClaim
         /\ cpc[c] \in BeforeClaim =>
              \/ cpc'[c] \in BeforeClaim \cup {"claimproject"}
              \/ InFlight(record) /\ Retry(c)
<1> USE DEF ExclusiveInv, RenderInv, TypeInv, TypeOK, Goto, WriteNext, BeforeClaim, AfterClaim
<1>1. CASE PeekAuthority(c) \/ CheckProjection(c)
  BY <1>1 DEF PeekAuthority, CheckProjection, Settled
<1>2. CASE ClaimJob(c)
  BY <1>2 DEF ClaimJob, Settled, IsBusy
<1>3. CASE ProjectClaim(c) \/ EnterDispatch(c) \/ StartAttempt(c)
  BY <1>3 DEF ProjectClaim, EnterDispatch, StartAttempt
<1>4. CASE WorkerAnswers(c) \/ HandleError(c)
  BY <1>4 DEF WorkerAnswers, HandleError
<1>5. CASE FetchThrows(c) \/ StoreResult(c) \/ QuarantineWorker(c) \/ SignalWorker(c)
  BY <1>5 DEF FetchThrows, StoreResult, QuarantineWorker, SignalWorker
<1>6. CASE WriteVerdict(c)
  BY <1>6 DEF WriteVerdict, Reached, Settled
<1>7. CASE HealAuthority(c) \/ ReadFinal(c) \/ SyncAuthority(c) \/ ProjectTransition(c)
  BY <1>7 DEF HealAuthority, ReadFinal, SyncAuthority, ProjectTransition
<1> QED BY <1>1, <1>2, <1>3, <1>4, <1>5, <1>6, <1>7 DEF ConsumerStep, BoundedStep

\* A fault on the way sends the message back, or leads into the catch.
LEMMA SeekerFails ==
  ASSUME TypeInv, NEW c \in Consumers, ConsumerThrows(c) \/ ConsumerCrashes(c),
         cpc[c] \in BeforeClaim \cup AfterClaim
  PROVE  cpc'[c] = "catch" \/ Retry(c)
BY DEF ConsumerThrows, ConsumerCrashes, BeforeClaim, AfterClaim, TypeInv, TypeOK

LEMMA RetryReturns ==
  ASSUME TypeInv, NEW c \in Consumers, cpc[c] # "idle", Retry(c)
  PROVE  \E m \in Messages : mstate'[m] \in {"ready", "dead"}
<1>1. cmsg[c] \in Messages
  BY DEF TypeInv, Handling
<1>2. mstate'[cmsg[c]] \in {"ready", "dead"}
  BY <1>1 DEF Retry, Finish, ReturnedState, TypeInv, TypeOK
<1> QED BY <1>1, <1>2

\* A verdict in KV that the durable object lacks gives way only to an
\* invocation past its claim.
LEMMA VerdictLapses ==
  ASSUME ExclusiveInv, OnTime, [Next]_vars, Sent, Settled, ~Settled',
         ~LatePuts \/ faults = 0
  PROVE  \E c \in Consumers : cpc'[c] \in AfterClaim
<1> USE DEF ExclusiveInv, RenderInv, TypeInv, TypeOK
<1>1. IsTerminal(kvJob) /\ ~IsTerminal(kvJob')
  BY StatusMoves DEF Settled
<1>2. ASSUME NEW c \in Consumers, ProjectClaim(c) \/ WriteVerdict(c)
      PROVE  \E d \in Consumers : cpc'[d] \in AfterClaim
  <2>1. CASE ProjectClaim(c)
    BY <2>1 DEF ProjectClaim, Goto, AfterClaim
  <2>2. CASE WriteVerdict(c)
    <3>1. verdict[c] = "RETRYING"
      BY <1>1, <2>2 DEF WriteVerdict, Reached
    <3> QED BY <2>2, <3>1 DEF WriteVerdict, Goto, AfterClaim
  <2> QED BY <1>2, <2>1, <2>2
<1>3. ASSUME NEW c \in Consumers, ProjectTransition(c) PROVE FALSE
  BY <1>1, <1>3 DEF ProjectTransition, Phases, Reached
<1>4. ASSUME NEW p \in Producers, ProjectCreated(p) PROVE FALSE
  BY <1>4 DEF ProjectCreated, ProducerGoto, OnTime
<1>5. ASSUME LandLate PROVE FALSE
  BY <1>5 DEF LandLate, LateInv
<1> QED BY <1>1, <1>2, <1>3, <1>4, <1>5, KvWrites

\* Only a claim takes the job in flight.
LEMMA FlightStarts ==
  ASSUME ExclusiveInv, [Next]_vars, InFlight(record')
  PROVE  \/ InFlight(record)
         \/ \E c \in Consumers : cpc[c] # "idle" /\ cpc'[c] = "claimproject"
<1> USE DEF ExclusiveInv, RenderInv, TypeInv, TypeOK, InFlight
<1>1. ASSUME NEW p \in Producers, ProducerStep(p) \/ ProducerFails(p)
      PROVE  record'.status = record.status \/ record'.status = "QUEUED"
  BY <1>1 DEF ProducerStep, PeekJob, ThrottleJob, CreateJob, ProjectCreated, ChargeQuota,
              SendMessage, ConfirmHandOff, ProducerFails, gatewayVars, Created, NoRecord,
              MarkedEnqueued, Record
<1>2. ASSUME NEW c \in Consumers, ConsumerStep(c), ~InFlight(record)
      PROVE  cpc[c] # "idle" /\ cpc'[c] = "claimproject"
  <2>1. CASE /\ CanTransition(record, verdict[c]) /\ record' = Transitioned(record, verdict[c])
             /\ cpc[c] \in {"heal", "sync"}
    <3>1. record.status \in LIVE_STATES /\ record'.status = verdict[c]
      BY <2>1 DEF CanTransition, Transitioned, Record
    <3>2. record.status = "QUEUED"
      BY <1>2, <3>1, StatusFacts DEF Reached, LIVE_STATES
    <3>3. cpc[c] = "heal"
      BY <2>1, <3>2 DEF Reached, Unclaimed
    <3>4. verdict[c] \in TERMINAL_STATES
      BY <3>3 DEF Phases, IsTerminal
    <3> QED BY <3>1, <3>4 DEF TERMINAL_STATES
  <2>2. CASE Goto(c, "claim", "claimproject")
    BY <2>2 DEF Goto
  <2> QED BY <1>2, <2>1, <2>2, ConsumerWrites
<1>3. CASE UNCHANGED <<record, charged, ppc>>
  BY <1>3
<1>4. CASE \E p \in Producers : ProducerStep(p) \/ ProducerFails(p)
  BY <1>1, <1>4
<1> QED BY <1>2, <1>3, <1>4, OtherSteps

\* A message that waits, or lies in the dead-letter queue, stays or is taken up.
LEMMA WaitingMoves ==
  ASSUME TypeInv, Held, [Next]_vars, NEW m \in Messages,
         mstate[m] \in {"ready", "dead"}
  PROVE  \/ mstate'[m] = mstate[m]
         \/ \E c \in Consumers : cpc'[c] = "peek"
<1> USE DEF TypeInv, TypeOK
<1>1. ASSUME NEW c \in Consumers, NEW s, cpc[c] # "idle", Finish(c, s)
      PROVE  mstate'[m] = mstate[m]
  <2>1. cmsg[c] # m
    BY <1>1 DEF Held
  <2> QED BY <1>1, <2>1 DEF Finish
<1>2. ASSUME NEW c \in Consumers, NEW n \in Messages, Deliver(c, n)
      PROVE  cpc'[c] = "peek"
  BY <1>2 DEF Deliver, Goto
<1>3. ASSUME NEW n \in Messages, mstate[n] = "unsent", mstate' = [mstate EXCEPT ![n] = "ready"]
      PROVE  mstate'[m] = mstate[m]
  BY <1>3
<1> QED BY <1>1, <1>2, <1>3, QueueMoves

\* The first message of the job is a request's, and waits.
LEMMA FirstMessage ==
  ASSUME TypeInv, Held, [Next]_vars, ~Sent, Sent'
  PROVE  \E m \in Messages : mstate'[m] = "ready"
<1> USE DEF TypeInv, TypeOK
<1>1. ASSUME NEW c \in Consumers, cpc[c] # "idle" PROVE FALSE
  BY <1>1 DEF Held, Handling, Sent
<1>2. ASSUME NEW c \in Consumers, NEW m \in Messages, Deliver(c, m) PROVE FALSE
  BY <1>2 DEF Deliver, Sent
<1>3. ASSUME UNCHANGED mstate PROVE FALSE
  BY <1>3 DEF Sent
<1>4. ASSUME NEW m \in Messages, mstate' = [mstate EXCEPT ![m] = "ready"]
      PROVE  mstate'[m] = "ready"
  BY <1>4
<1> QED BY <1>1, <1>2, <1>3, <1>4, QueueMoves

\* Another's step leaves an invocation where it is.
LEMMA StaysThere ==
  ASSUME TypeInv, [Next]_vars, NEW c \in Consumers, cpc[c] # "idle"
  PROVE  \/ cpc'[c] = cpc[c]
         \/ ConsumerStep(c) \/ ConsumerThrows(c) \/ ConsumerCrashes(c)
<1>1. CASE \A d \in Consumers : Row(d)' = Row(d)
  BY <1>1 DEF Row
<1>2. ASSUME NEW d \in Consumers, NEW m \in Messages, Deliver(d, m) PROVE cpc'[c] = cpc[c]
  BY <1>2 DEF Deliver, Goto, TypeInv, TypeOK
<1>3. ASSUME NEW d \in Consumers, d # c,
             ConsumerStep(d) \/ ConsumerThrows(d) \/ ConsumerCrashes(d)
      PROVE  cpc'[c] = cpc[c]
  BY <1>3, OthersRest DEF Row
<1> QED BY <1>1, <1>2, <1>3, WhoMoves

LEMMA CarryStep ==
  ASSUME ExclusiveInv, CarryInv, OnTime, [Next]_vars
  PROVE  CarryInv'
<1> USE DEF CarryInv
<1>t. TypeInv
  BY DEF ExclusiveInv, RenderInv
<1>1. Held'
  BY <1>t, HeldStep
<1>2. Sent => Sent'
  BY <1>t, SentStaysSent DEF Sent
<1>3. InFlight(record') => Sent'
  <2>1. ASSUME NEW c \in Consumers, cpc[c] # "idle" PROVE Sent
    BY <1>t, <2>1 DEF Held, TypeInv, Handling, Sent
  <2> QED BY <1>2, <2>1, FlightStarts
<1>4. ASSUME ~LatePuts, Sent', ~Settled'
      PROVE  \/ \E m \in Messages : mstate'[m] \in {"ready", "dead"}
             \/ \E c \in Consumers : cpc'[c] \in BeforeClaim \cup AfterClaim
  <2>1. CASE ~Sent
    BY <1>t, <1>4, <2>1, FirstMessage
  <2>2. CASE Sent /\ Settled
    BY <1>4, <2>2, VerdictLapses
  <2>3. CASE Sent /\ ~Settled
    <3>1. ASSUME NEW m \in Messages, mstate[m] \in {"ready", "dead"}
          PROVE  \/ \E n \in Messages : mstate'[n] \in {"ready", "dead"}
                 \/ \E c \in Consumers : cpc'[c] \in BeforeClaim \cup AfterClaim
      BY <1>t, <3>1, WaitingMoves DEF BeforeClaim
    <3>2. ASSUME NEW c \in Consumers, cpc[c] \in BeforeClaim \cup AfterClaim
          PROVE  \/ \E n \in Messages : mstate'[n] \in {"ready", "dead"}
                 \/ cpc'[c] \in BeforeClaim \cup AfterClaim
      <4>0. cpc[c] # "idle"
        BY <3>2 DEF BeforeClaim, AfterClaim
      <4>1. CASE cpc'[c] = cpc[c]
        BY <3>2, <4>1
      <4>2. CASE ConsumerStep(c)
        <5>1. cpc'[c] \in BeforeClaim \cup AfterClaim \/ Retry(c)
          BY <1>4, <2>3, <3>2, <4>2, SeekerStep DEF AfterClaim
        <5> QED BY <1>t, <4>0, <5>1, RetryReturns
      <4>3. CASE ConsumerThrows(c) \/ ConsumerCrashes(c)
        BY <1>t, <3>2, <4>0, <4>3, SeekerFails, RetryReturns DEF AfterClaim
      <4> QED BY <1>t, <4>0, <4>1, <4>2, <4>3, StaysThere
    <3> QED BY <1>4, <2>3, <3>1, <3>2
  <2> QED BY <2>1, <2>2, <2>3
<1>5. ASSUME faults' = 0, Sent', ~Settled'
      PROVE  \/ \E c \in Consumers : cpc'[c] \in AfterClaim
             \/ /\ ~InFlight(record')
                /\ \/ \E m \in Messages : mstate'[m] = "ready"
                   \/ \E c \in Consumers : cpc'[c] \in BeforeClaim
  <2>0. /\ faults = 0
        /\ \A c \in Consumers : ~ConsumerThrows(c) /\ ~ConsumerCrashes(c)
    BY <1>t, <1>5, FaultsStay
  <2>1. CASE ~Sent
    <3>1. ~InFlight(record')
      <4>1. ASSUME NEW c \in Consumers, cpc[c] # "idle" PROVE FALSE
        BY <1>t, <2>1, <4>1 DEF Held, TypeInv, Handling, Sent
      <4> QED BY <2>1, <4>1, FlightStarts
    <3> QED BY <1>t, <1>5, <2>1, <3>1, FirstMessage
  <2>2. CASE Sent /\ Settled
    BY <1>5, <2>0, <2>2, VerdictLapses
  <2>3. ASSUME NEW c \in Consumers, Sent, ~Settled, cpc[c] \in AfterClaim
        PROVE  cpc'[c] \in AfterClaim
    <3>1. cpc[c] # "idle"
      BY <2>3 DEF AfterClaim
    <3> QED BY <1>t, <1>5, <2>0, <2>3, <3>1, SeekerStep, StaysThere
  <2>4. CASE /\ Sent /\ ~Settled /\ ~InFlight(record)
             /\ \/ \E m \in Messages : mstate[m] = "ready"
                \/ \E c \in Consumers : cpc[c] \in BeforeClaim
    <3>1. CASE InFlight(record')
      BY <2>4, <3>1, FlightStarts DEF AfterClaim
    <3>2. CASE ~InFlight(record')
      <4>1. ASSUME NEW m \in Messages, mstate[m] = "ready"
            PROVE  mstate'[m] = "ready" \/ \E c \in Consumers : cpc'[c] \in BeforeClaim
        BY <1>t, <4>1, WaitingMoves DEF BeforeClaim
      <4>2. ASSUME NEW c \in Consumers, cpc[c] \in BeforeClaim
            PROVE  cpc'[c] \in BeforeClaim \cup AfterClaim
        <5>1. cpc[c] # "idle"
          BY <4>2 DEF BeforeClaim
        <5>2. CASE cpc'[c] = cpc[c]
          BY <4>2, <5>2
        <5>3. CASE ConsumerStep(c)
          BY <1>5, <2>4, <4>2, <5>3, SeekerStep DEF AfterClaim
        <5> QED BY <1>t, <2>0, <5>1, <5>2, <5>3, StaysThere
      <4> QED BY <2>4, <3>2, <4>1, <4>2
    <3> QED BY <3>1, <3>2
  <2> QED BY <2>0, <2>1, <2>2, <2>3, <2>4
<1> HIDE DEF CarryInv
<1> QED BY <1>1, <1>3, <1>4, <1>5 DEF CarryInv

\* What the invariant says of the acks and of the losses.
LEMMA CarriedAcks == ~LatePuts /\ ExclusiveInv /\ CarryInv => AcksOnlySettled
<1> SUFFICES ASSUME ~LatePuts, ExclusiveInv, CarryInv, Sent, ~Settled,
                    \A m \in Messages : mstate[m] \in {"unsent", "acked"}
             PROVE  FALSE
  BY DEF AcksOnlySettled
<1>1. PICK c \in Consumers : cpc[c] \in BeforeClaim \cup AfterClaim
  BY DEF CarryInv
<1>2. cpc[c] # "idle"
  BY <1>1 DEF BeforeClaim, AfterClaim
<1>3. cmsg[c] \in Messages /\ mstate[cmsg[c]] = "inflight"
  BY <1>2 DEF CarryInv, Held, ExclusiveInv, RenderInv, TypeInv, Handling
<1> QED BY <1>3

LEMMA CarriedLosses == ExclusiveInv /\ MarkInv /\ CarryInv => LossNeedsFault
<1> SUFFICES ASSUME ExclusiveInv, MarkInv, CarryInv, faults = 0, record.enqueued, ~Settled
             PROVE  \E m \in Messages : Pending(m)
  BY DEF LossNeedsFault, NoSilentLoss
<1>1. Sent
  BY DEF MarkInv, Sent
<1>2. ASSUME NEW c \in Consumers, cpc[c] \in BeforeClaim \cup AfterClaim
      PROVE  \E m \in Messages : Pending(m)
  <2>1. cpc[c] # "idle"
    BY <1>2 DEF BeforeClaim, AfterClaim
  <2>2. cmsg[c] \in Messages /\ mstate[cmsg[c]] = "inflight"
    BY <2>1 DEF CarryInv, Held, ExclusiveInv, RenderInv, TypeInv, Handling
  <2> QED BY <2>2 DEF Pending
<1>3. ASSUME NEW m \in Messages, mstate[m] = "ready" PROVE Pending(m)
  BY <1>3 DEF Pending
<1> QED BY <1>1, <1>2, <1>3 DEF CarryInv

LEMMA CarryInit == Init => Held /\ CarryInv /\ MarkInv
<1> SUFFICES ASSUME Init PROVE Held /\ CarryInv /\ MarkInv
  OBVIOUS
<1>1. ~Sent /\ ~InFlight(record)
  BY DEF Init, Sent, InFlight, NoRecord
<1>2. Held
  BY DEF Init, Held
<1>3. MarkInv
  BY DEF Init, MarkInv, NoRecord
<1> QED BY <1>1, <1>2, <1>3 DEF CarryInv

\* Whatever is duplicated, retried or crashed, and whoever takes a job over, an
\* ack drops no work: provided that no projection is late, neither a request's of
\* its create nor one whose caller is gone: it may wipe a verdict a handler has
\* already acted upon.
THEOREM AcksSettle ==
  ASSUME PromptSteps, MaxAttempts > 1, ~LatePuts
  PROVE  Spec /\ []OnTime => []AcksOnlySettled
<1> DEFINE Inv == ExclusiveInv /\ CarryInv
<1>1. Init => Inv
  BY ExclusiveInit, CarryInit DEF ExclusiveInv
<1>2. Inv /\ OnTime /\ [Next]_vars => Inv'
  BY ExclusiveStep, CarryStep
<1>3. Inv => AcksOnlySettled
  BY CarriedAcks
<1> QED BY <1>1, <1>2, <1>3, PTL DEF Spec

\* And under the same proviso a job is lost by a fault only: no number of
\* duplicates, busy claims or used-up redeliveries loses one.
THEOREM LossesNeedFaults ==
  ASSUME PromptSteps, MaxAttempts > 1
  PROVE  Spec /\ []OnTime => []LossNeedsFault
<1> DEFINE Inv == ExclusiveInv /\ CarryInv /\ MarkInv
<1>1. Init => Inv
  BY ExclusiveInit, CarryInit DEF ExclusiveInv
<1>2. Inv /\ OnTime /\ [Next]_vars => Inv'
  BY ExclusiveStep, CarryStep, MarkStep DEF ExclusiveInv, RenderInv
<1>3. Inv => LossNeedsFault
  BY CarriedLosses
<1> QED BY <1>1, <1>2, <1>3, PTL DEF Spec

-----------------------------------------------------------------------------
(* One request for the job: its own steps keep the order, so the proviso    *)
(* holds.                                                                   *)

LEMMA FirstSend ==
  ASSUME TypeInv, Held, [Next]_vars, ~Sent, Sent'
  PROVE  \E p \in Producers : SendMessage(p)
<1> SUFFICES ASSUME \A p \in Producers : ~SendMessage(p) PROVE UNCHANGED mstate
  BY DEF Sent
<1>1. \A c \in Consumers : cpc[c] = "idle"
  BY DEF Held, TypeInv, Handling, Sent
<1>2. ASSUME NEW p \in Producers, ProducerStep(p) \/ ProducerFails(p)
      PROVE  UNCHANGED mstate
  BY <1>2 DEF ProducerStep, PeekJob, ThrottleJob, CreateJob, ProjectCreated, ChargeQuota,
              ConfirmHandOff, ProducerFails, queueVars
<1>3. ASSUME NEW c \in Consumers, ConsumerStep(c) \/ ConsumerThrows(c) \/ ConsumerCrashes(c)
      PROVE  FALSE
  <2>1. cpc[c] # "idle"
    BY <1>3, StoresTyped DEF ConsumerThrows, ConsumerCrashes
  <2> QED BY <1>1, <2>1
<1>4. ASSUME NEW m \in Messages, mstate[m] \in {"ready", "inflight"} PROVE FALSE
  BY <1>4 DEF Sent
<1>5. CASE LandLate \/ Tick \/ UNCHANGED vars
  BY <1>5 DEF LandLate, Tick, vars, queueVars
<1> QED BY <1>2, <1>3, <1>4, <1>5 DEF Next, Deliver, Redeliver

LEMMA OnTimeStep ==
  ASSUME \A p, q \in Producers : p = q,
         TypeInv, Held, AcceptInv, OnTime, Sent => Exists(record), [Next]_vars
  PROVE  OnTime' /\ (Sent' => Exists(record'))
<1> USE DEF TypeInv, TypeOK
<1>1. ASSUME Sent' PROVE Exists(record')
  <2>1. CASE Sent
    BY <2>1, ExistsStays
  <2>2. CASE ~Sent
    <3>1. PICK q \in Producers : SendMessage(q)
      BY <1>1, <2>2, FirstSend
    <3> QED BY <3>1, ExistsStays DEF SendMessage, ProducerGoto, AcceptInv
  <2> QED BY <2>1, <2>2
<1>2. ASSUME Sent', NEW p \in Producers, ppc'[p] = "project" PROVE FALSE
  <2>1. CASE Sent
    <3>1. ppc[p] # "project" /\ Exists(record)
      BY <2>1 DEF OnTime
    <3>2. ASSUME NEW q \in Producers, ProducerStep(q) \/ ProducerFails(q) PROVE FALSE
      BY <1>2, <3>1, <3>2
         DEF ProducerStep, PeekJob, ThrottleJob, CreateJob, ProjectCreated, ChargeQuota,
             SendMessage, ConfirmHandOff, ProducerFails, ProducerGoto
    <3> QED BY <1>2, <3>1, <3>2, OtherSteps
  <2>2. CASE ~Sent
    <3>1. PICK q \in Producers : SendMessage(q)
      BY <1>2, <2>2, FirstSend
    <3>2. q = p
      OBVIOUS
    <3> QED BY <1>2, <3>1, <3>2 DEF SendMessage, ProducerGoto
  <2> QED BY <2>1, <2>2
<1> QED BY <1>1, <1>2 DEF OnTime

LEMMA OneIsOnTime ==
  ASSUME \A p, q \in Producers : p = q
  PROVE  Spec => []OnTime
<1> DEFINE Inv == /\ TypeInv /\ MarkInv /\ AcceptInv /\ Held /\ OnTime
                  /\ Sent => Exists(record)
<1>1. Init => Inv
  <2> SUFFICES ASSUME Init PROVE Inv
    OBVIOUS
  <2>1. ~Sent /\ ~Exists(record) /\ \A p \in Producers : ppc[p] = "peek"
    BY DEF Init, Sent, NoRecord, Exists
  <2>2. AcceptInv /\ OnTime
    BY <2>1 DEF AcceptInv, OnTime
  <2> QED BY <2>1, <2>2, TypeInit, CarryInit
<1>2. Inv /\ [Next]_vars => Inv'
  BY TypeStep, MarkStep, AcceptStep, HeldStep, OnTimeStep
<1>3. Inv => OnTime
  OBVIOUS
<1> QED BY <1>1, <1>2, <1>3, PTL DEF Spec

\* A client that asks for the job once: every message acked and no handler at
\* work means a verdict, after any crashes, retries and takeovers, as long as no
\* put outlives its caller.
THEOREM AcksSettleOneRequest ==
  ASSUME PromptSteps, MaxAttempts > 1, ~LatePuts, \A p, q \in Producers : p = q
  PROVE  Spec => []AcksOnlySettled
BY OneIsOnTime, AcksSettle, PTL

\* A client that asks for the job once loses it by a fault only.
THEOREM LossNeedsFaultOneRequest ==
  ASSUME PromptSteps, MaxAttempts > 1, \A p, q \in Producers : p = q
  PROVE  Spec => []LossNeedsFault
BY OneIsOnTime, LossesNeedFaults, PTL

-----------------------------------------------------------------------------
(* The verdict in KV, while nothing has failed and the worker is not        *)
(* quarantined: it stands until the durable object has it too.              *)

Calm == faults = 0 /\ ~quarantined

Standing ==
  /\ \A c \in Consumers : cpc[c] \in AfterClaim => ~Settled
  /\ IsTerminal(kvJob) /\ ~IsTerminal(record.status) =>
       \E c \in Consumers : cpc[c] = "finalread" \/ (cpc[c] = "sync" /\ IsTerminal(verdict[c]))
  /\ \A c \in Consumers : cpc[c] = "heal" =>
       /\ \A d \in Consumers : cpc[d] \notin AfterClaim
       /\ IsTerminal(record.status) \/ (InFlight(record) /\ record.lease > now)
  /\ \A c \in Consumers : cpc[c] = "healproject" => IsTerminal(record.status)

StandInv == Calm => Standing

\* An invocation between its claim and its sync owns the job, for longer than now.
LEMMA OwnerIsBusy ==
  ASSUME ExclusiveInv, ~quarantined, NEW c \in Own
  PROVE  /\ IsTerminal(record.status) \/ (InFlight(record) /\ record.lease > now)
         /\ \A d \in Own : c = d
BY DEF ExclusiveInv, RenderInv, Owner, Budget

LEMMA CalmStays ==
  ASSUME TypeInv, [Next]_vars, Calm'
  PROVE  /\ Calm
         /\ \A c \in Consumers : ~ConsumerThrows(c) /\ ~ConsumerCrashes(c)
         /\ \A p \in Producers : ~ProducerFails(p)
BY FaultsStay, QuarantineStays DEF Calm

\* Nobody can claim a job whose verdict is on its way to the durable object.
LEMMA VerdictBars ==
  ASSUME ExclusiveInv, Calm, Standing, Settled
  PROVE  ~CanAcquire(record, now)
<1>1. CASE IsTerminal(record.status)
  BY <1>1, StatusFacts DEF CanAcquire, IsTerminal
<1>2. CASE ~IsTerminal(record.status)
  <2>1. PICK c \in Consumers : cpc[c] \in {"finalread", "sync"}
    BY <1>2 DEF Standing, Settled
  <2>2. c \in Own
    BY <2>1 DEF Own, Unclaimed
  <2> QED BY <1>2, <2>2, OwnerIsBusy DEF CanAcquire, IsBusy, LeaseFresh, Calm
<1> QED BY <1>1, <1>2

\* Into the attempts leads only a claim.
LEMMA ClaimEnters ==
  ASSUME TypeInv, NEW c \in Consumers, ConsumerStep(c),
         cpc[c] \notin AfterClaim, cpc'[c] \in AfterClaim
  PROVE  /\ CanAcquire(record, now) /\ record' = Acquired(record, now, LeaseMs)
         /\ kvJob' = kvJob
<1> USE DEF TypeInv, TypeOK, AfterClaim, Goto
<1>1. CASE ClaimJob(c)
  BY <1>1 DEF ClaimJob, Ack, Retry, Finish
<1>2. CASE Ack(c) \/ Retry(c)
  BY <1>2 DEF Ack, Retry, Finish
<1>3. CASE ~ClaimJob(c) /\ ~Ack(c) /\ ~Retry(c)
  BY <1>3 DEF ConsumerStep, BoundedStep, PeekAuthority, CheckProjection, HealAuthority, ProjectClaim,
              EnterDispatch, StartAttempt, WorkerAnswers, FetchThrows, StoreResult,
              HandleError, QuarantineWorker, SignalWorker, WriteVerdict, ReadFinal,
              SyncAuthority, ProjectTransition
<1> QED BY <1>1, <1>2, <1>3

\* The durable object gets its verdict from a heal or a sync.
LEMMA VerdictWriter ==
  ASSUME TypeInv, [Next]_vars, ~IsTerminal(record.status), IsTerminal(record'.status)
  PROVE  \E c \in Consumers : ConsumerStep(c) /\ cpc[c] \in {"heal", "sync"}
<1> USE DEF TypeInv, TypeOK
<1>1. ASSUME NEW p \in Producers, ProducerStep(p) \/ ProducerFails(p)
      PROVE  record'.status = record.status \/ record'.status = "QUEUED"
  BY <1>1 DEF ProducerStep, PeekJob, ThrottleJob, CreateJob, ProjectCreated, ChargeQuota,
              SendMessage, ConfirmHandOff, ProducerFails, gatewayVars, Created, NoRecord,
              MarkedEnqueued, Record
<1>2. ~IsTerminal("QUEUED") /\ ~IsTerminal("DISPATCHING")
  BY DEF IsTerminal, TERMINAL_STATES
<1>3. ASSUME NEW c \in Consumers, ConsumerStep(c) PROVE cpc[c] \in {"heal", "sync"}
  <2>1. CASE CanAcquire(record, now) /\ record' = Acquired(record, now, LeaseMs)
    BY <1>2, <2>1 DEF Acquired, Record
  <2> QED BY <1>3, <2>1, ConsumerWrites
<1>4. CASE UNCHANGED <<record, charged, ppc>>
  BY <1>4
<1> QED BY <1>1, <1>2, <1>3, <1>4, OtherSteps

\* Time stands still and the claim lasts while a handler heals.
LEMMA PromptClock ==
  ASSUME PromptSteps, TypeInv, [Next]_vars, NEW c \in Consumers, cpc[c] = "heal"
  PROVE  now' = now
<1>1. ~Tick
  BY DEF Tick
<1>2. ASSUME NEW p \in Producers, ProducerStep(p) \/ ProducerFails(p) PROVE now' = now
  BY <1>2 DEF ProducerStep, PeekJob, ThrottleJob, CreateJob, ProjectCreated, ChargeQuota,
              SendMessage, ConfirmHandOff, ProducerFails
<1>3. ASSUME NEW d \in Consumers, ConsumerStep(d) \/ ConsumerThrows(d) \/ ConsumerCrashes(d)
      PROVE  now' = now
  BY <1>3, StoresTyped DEF ConsumerThrows, ConsumerCrashes
<1> QED BY <1>1, <1>2, <1>3 DEF Next, Deliver, Redeliver, LandLate, vars

LEMMA FlightLasts ==
  ASSUME ExclusiveInv, [Next]_vars, InFlight(record), ~CanAcquire(record, now),
         ~IsTerminal(record'.status)
  PROVE  InFlight(record') /\ record'.lease = record.lease
<1> USE DEF ExclusiveInv, RenderInv, TypeInv, TypeOK, InFlight
<1>1. record.status = "DISPATCHING"
  BY StatusFacts DEF Reached, IsTerminal, TERMINAL_STATES
<1>2. ASSUME NEW p \in Producers, ProducerStep(p) \/ ProducerFails(p)
      PROVE  record'.status = record.status /\ record'.lease = record.lease
  BY <1>1, <1>2
     DEF ProducerStep, PeekJob, ThrottleJob, CreateJob, ProjectCreated, ChargeQuota,
         SendMessage, ConfirmHandOff, ProducerFails, gatewayVars, MarkedEnqueued, Record,
         Exists
<1>3. ASSUME NEW c \in Consumers, ConsumerStep(c) PROVE record' = record
  <2>1. CASE /\ CanTransition(record, verdict[c]) /\ record' = Transitioned(record, verdict[c])
             /\ cpc[c] \in {"heal", "sync"}
    <3>1. record'.status = verdict[c] /\ verdict[c] \in ALLOWED_TRANSITIONS["DISPATCHING"]
      BY <1>1, <2>1 DEF CanTransition, Transitioned, Record
    <3>2. verdict[c] \in {"PROCESSING", "RETRYING"}
      BY <3>1 DEF ALLOWED_TRANSITIONS, IsTerminal
    <3>3. cpc[c] # "heal"
      BY <3>1 DEF Phases
    <3> QED BY <2>1, <3>2, <3>3 DEF Final, Reached
  <2> QED BY <1>3, <2>1, ConsumerWrites
<1>4. CASE UNCHANGED <<record, charged, ppc>>
  BY <1>4
<1> QED BY <1>1, <1>2, <1>3, <1>4, OtherSteps

LEMMA HealEnters ==
  ASSUME TypeInv, NEW c \in Consumers, ConsumerStep(c), cpc[c] # "heal", cpc'[c] = "heal"
  PROVE  CheckProjection(c) /\ IsTerminal(kvJob)
<1> USE DEF TypeInv, TypeOK, Goto, WriteNext
<1>1. CASE Ack(c) \/ Retry(c)
  BY <1>1 DEF Ack, Retry, Finish
<1>2. CASE CheckProjection(c)
  BY <1>2 DEF CheckProjection
<1>3. CASE ~CheckProjection(c) /\ ~Ack(c) /\ ~Retry(c)
  BY <1>3 DEF ConsumerStep, BoundedStep, PeekAuthority, HealAuthority, ClaimJob, ProjectClaim,
              EnterDispatch, StartAttempt, WorkerAnswers, FetchThrows, StoreResult,
              HandleError, QuarantineWorker, SignalWorker, WriteVerdict, ReadFinal,
              SyncAuthority, ProjectTransition
<1> QED BY <1>1, <1>2, <1>3

LEMMA HealProjects ==
  ASSUME TypeInv, Phases, NEW c \in Consumers, ConsumerStep(c),
         cpc[c] # "healproject", cpc'[c] = "healproject"
  PROVE  IsTerminal(record'.status)
<1> USE DEF TypeInv, TypeOK, Goto, WriteNext
<1>1. CASE Ack(c) \/ Retry(c)
  BY <1>1 DEF Ack, Retry, Finish
<1>2. CASE HealAuthority(c) /\ ~Ack(c)
  BY <1>2 DEF HealAuthority, Phases, Transitioned, Record
<1>3. CASE ~HealAuthority(c) /\ ~Ack(c) /\ ~Retry(c)
  BY <1>3 DEF ConsumerStep, BoundedStep, PeekAuthority, CheckProjection, ClaimJob, ProjectClaim,
              EnterDispatch, StartAttempt, WorkerAnswers, FetchThrows, StoreResult,
              HandleError, QuarantineWorker, SignalWorker, WriteVerdict, ReadFinal,
              SyncAuthority, ProjectTransition
<1> QED BY <1>1, <1>2, <1>3

LEMMA StandStep ==
  ASSUME PromptSteps, ExclusiveInv, ExclusiveInv', StandInv, [Next]_vars
  PROVE  StandInv'
<1> SUFFICES ASSUME Calm' PROVE Standing'
  BY DEF StandInv
<1> USE DEF ExclusiveInv, RenderInv, TypeInv, TypeOK
<1>1. /\ Calm /\ Standing
      /\ \A c \in Consumers : ~ConsumerThrows(c) /\ ~ConsumerCrashes(c)
  BY CalmStays DEF StandInv
<1>2. /\ IsTerminal(record.status) => IsTerminal(record'.status)
      /\ Exists(record) => Exists(record')
  BY StatusMoves
<1>land. ~LandLate
  BY <1>1 DEF LandLate, LateInv, Calm
<1>moves. ASSUME NEW c \in Consumers, cpc'[c] # cpc[c]
          PROVE  ConsumerStep(c) \/ (cpc[c] = "idle" /\ cpc'[c] = "peek")
  <2>1. CASE \A d \in Consumers : Row(d)' = Row(d)
    BY <1>moves, <2>1 DEF Row
  <2>2. ASSUME NEW d \in Consumers, NEW m \in Messages, Deliver(d, m)
        PROVE  cpc[c] = "idle" /\ cpc'[c] = "peek"
    BY <1>moves, <2>2 DEF Deliver, Goto
  <2>3. ASSUME NEW d \in Consumers, d # c, ConsumerStep(d) PROVE FALSE
    BY <1>moves, <2>3, OthersRest DEF Row
  <2> QED BY <1>1, <2>1, <2>2, <2>3, WhoMoves
<1>3. ASSUME NEW c \in Consumers, cpc'[c] \in AfterClaim PROVE ~Settled'
  <2>1. CASE cpc[c] \in AfterClaim
    <3>1. ~Settled /\ c \in Own
      BY <1>1, <2>1 DEF Standing, Own, AfterClaim, Unclaimed, Phases, Calm
    <3>2. ASSUME NEW d \in Own PROVE d = c
      BY <1>1, <3>1, OwnerIsBusy DEF Calm
    <3>3. ASSUME IsTerminal(record'.status) PROVE FALSE
      <4>1. PICK d \in Consumers : ConsumerStep(d) /\ cpc[d] \in {"heal", "sync"}
        BY <3>1, <3>3, VerdictWriter DEF Settled
      <4>2. CASE cpc[d] = "heal"
        BY <1>1, <2>1, <4>2 DEF Standing
      <4>3. CASE cpc[d] = "sync"
        BY <2>1, <3>2, <4>3 DEF Own, Unclaimed, AfterClaim
      <4> QED BY <4>1, <4>2, <4>3
    <3>4. ASSUME IsTerminal(kvJob') PROVE FALSE
      <4>1. ~IsTerminal("QUEUED") /\ ~IsTerminal("DISPATCHING") /\ ~IsTerminal("RETRYING")
        BY DEF IsTerminal, TERMINAL_STATES
      <4>2. ASSUME NEW p \in Producers, ProjectCreated(p) PROVE FALSE
        BY <3>4, <4>1, <4>2 DEF ProjectCreated
      <4>3. ASSUME NEW d \in Consumers, ProjectClaim(d) PROVE FALSE
        BY <3>4, <4>1, <4>3 DEF ProjectClaim
      <4>4. ASSUME NEW d \in Consumers, WriteVerdict(d) PROVE FALSE
        <5>1. d = c
          BY <3>2, <4>4 DEF WriteVerdict, Own, Unclaimed
        <5>2. cpc'[c] # "finalread"
          BY <1>3 DEF AfterClaim
        <5> QED BY <3>4, <4>1, <4>4, <5>1, <5>2 DEF WriteVerdict, Goto
      <4>5. ASSUME NEW d \in Consumers, ProjectTransition(d) PROVE FALSE
        <5>1. CASE cpc[d] = "syncproject"
          BY <2>1, <3>2, <5>1 DEF Own, Unclaimed, AfterClaim
        <5>2. CASE cpc[d] = "healproject"
          BY <1>1, <3>1, <5>2 DEF Standing, Settled
        <5> QED BY <4>5, <5>1, <5>2 DEF ProjectTransition
      <4> QED BY <1>land, <3>1, <3>4, <4>2, <4>3, <4>4, <4>5, KvWrites DEF Settled
    <3> QED BY <3>3, <3>4 DEF Settled
  <2>2. CASE cpc[c] \notin AfterClaim
    <3>1. ConsumerStep(c)
      BY <1>moves, <1>3, <2>2 DEF AfterClaim
    <3>2. /\ CanAcquire(record, now) /\ record' = Acquired(record, now, LeaseMs)
          /\ kvJob' = kvJob
      BY <1>3, <2>2, <3>1, ClaimEnters
    <3>3. ~Settled
      BY <1>1, <3>2, VerdictBars
    <3>4. record'.status = "DISPATCHING"
      BY <3>2 DEF Acquired, Record
    <3> QED BY <3>2, <3>3, <3>4 DEF Settled, IsTerminal, TERMINAL_STATES
  <2> QED BY <2>1, <2>2
<1>4. ASSUME IsTerminal(kvJob'), ~IsTerminal(record'.status)
      PROVE  \E c \in Consumers :
               cpc'[c] = "finalread" \/ (cpc'[c] = "sync" /\ IsTerminal(verdict'[c]))
  <2>1. CASE IsTerminal(kvJob)
    <3>1. PICK c \in Consumers : cpc[c] = "finalread" \/ (cpc[c] = "sync" /\ IsTerminal(verdict[c]))
      BY <1>1, <1>2, <1>4, <2>1 DEF Standing
    <3>2. CASE Row(c)' = Row(c)
      BY <3>1, <3>2 DEF Row
    <3>3. CASE ConsumerStep(c) /\ cpc[c] = "finalread"
      <4>1. ReadFinal(c)
        BY <3>3 DEF ConsumerStep, BoundedStep, PeekAuthority, CheckProjection, HealAuthority, ClaimJob,
                    ProjectClaim, EnterDispatch, StartAttempt, WorkerAnswers, FetchThrows,
                    StoreResult, HandleError, QuarantineWorker, SignalWorker, WriteVerdict,
                    SyncAuthority, ProjectTransition, Goto
      <4> QED BY <2>1, <4>1 DEF ReadFinal, Goto
    <3>4. CASE ConsumerStep(c) /\ cpc[c] = "sync" /\ IsTerminal(verdict[c])
      <4>1. SyncAuthority(c)
        BY <3>4 DEF ConsumerStep, BoundedStep, PeekAuthority, CheckProjection, HealAuthority, ClaimJob,
                    ProjectClaim, EnterDispatch, StartAttempt, WorkerAnswers, FetchThrows,
                    StoreResult, HandleError, QuarantineWorker, SignalWorker, WriteVerdict,
                    ReadFinal, ProjectTransition, Goto
      <4>2. record.status = "DISPATCHING"
        BY <1>2, <1>4, <3>4 DEF Reached, Unclaimed, Exists, IsTerminal
      <4>3. CanTransition(record, verdict[c]) /\ ~TransitionThrows(record, verdict[c])
        BY <3>4, <4>2, StatusFacts
           DEF CanTransition, TransitionThrows, ALLOWED_TRANSITIONS, LIVE_STATES,
               TERMINAL_STATES, IsTerminal, Exists
      <4>4. record' = Transitioned(record, verdict[c])
        BY <4>1, <4>3 DEF SyncAuthority
      <4> QED BY <1>4, <3>4, <4>4 DEF Transitioned, Record
    <3>5. Row(c)' = Row(c) \/ ConsumerStep(c)
      <4>1. ASSUME NEW d \in Consumers, NEW m \in Messages, Deliver(d, m)
            PROVE  Row(c)' = Row(c)
        BY <3>1, <4>1 DEF Deliver, Goto, Row, attemptVars
      <4>2. ASSUME NEW d \in Consumers, d # c, ConsumerStep(d) PROVE Row(c)' = Row(c)
        BY <4>2, OthersRest
      <4> QED BY <1>1, <4>1, <4>2, WhoMoves
    <3> QED BY <3>1, <3>2, <3>3, <3>4, <3>5
  <2>2. CASE ~IsTerminal(kvJob)
    <3>1. ~IsTerminal("QUEUED") /\ ~IsTerminal("DISPATCHING") /\ ~IsTerminal("RETRYING")
      BY DEF IsTerminal, TERMINAL_STATES
    <3>2. ASSUME NEW p \in Producers, ProjectCreated(p) PROVE FALSE
      BY <1>4, <3>1, <3>2 DEF ProjectCreated
    <3>3. ASSUME NEW d \in Consumers, ProjectClaim(d) PROVE FALSE
      BY <1>4, <3>1, <3>3 DEF ProjectClaim
    <3>4. ASSUME NEW d \in Consumers, WriteVerdict(d) PROVE cpc'[d] = "finalread"
      BY <1>4, <3>1, <3>4 DEF WriteVerdict, Goto
    <3>5. ASSUME NEW d \in Consumers, ProjectTransition(d) PROVE FALSE
      BY <1>1, <1>2, <1>4, <3>5 DEF ProjectTransition, Reached, Standing
    <3> QED BY <1>land, <1>4, <2>2, <3>2, <3>3, <3>4, <3>5, KvWrites
  <2> QED BY <2>1, <2>2
<1>5. ASSUME NEW c \in Consumers, cpc'[c] = "heal"
      PROVE  /\ \A d \in Consumers : cpc'[d] \notin AfterClaim
             /\ IsTerminal(record'.status) \/ (InFlight(record') /\ record'.lease > now')
  <2>1. CASE cpc[c] = "heal"
    <3>1. /\ \A d \in Consumers : cpc[d] \notin AfterClaim
          /\ IsTerminal(record.status) \/ (InFlight(record) /\ record.lease > now)
      BY <1>1, <2>1 DEF Standing
    <3>2. ~CanAcquire(record, now)
      BY <3>1, StatusFacts DEF CanAcquire, IsBusy, LeaseFresh, IsTerminal
    <3>3. ASSUME NEW d \in Consumers, cpc'[d] \in AfterClaim PROVE FALSE
      <4>1. ConsumerStep(d)
        BY <1>moves, <3>1, <3>3 DEF AfterClaim
      <4> QED BY <3>1, <3>2, <3>3, <4>1, ClaimEnters
    <3>4. now' = now
      BY <2>1, PromptClock
    <3>5. ASSUME InFlight(record), ~IsTerminal(record'.status)
          PROVE  InFlight(record') /\ record'.lease = record.lease
      BY <2>1, <3>2, <3>5, FlightLasts
    <3> QED BY <1>2, <3>1, <3>3, <3>4, <3>5
  <2>2. CASE cpc[c] # "heal"
    <3>1. CheckProjection(c) /\ IsTerminal(kvJob)
      BY <1>moves, <1>5, <2>2, HealEnters
    <3>2. /\ \A d \in Consumers : cpc[d] \notin AfterClaim
          /\ IsTerminal(record.status) \/
               \E d \in Consumers : cpc[d] = "finalread" \/ cpc[d] = "sync"
      BY <1>1, <3>1 DEF Standing, Settled
    <3>3. ASSUME NEW d \in Consumers, cpc[d] = "finalread" \/ cpc[d] = "sync"
          PROVE  IsTerminal(record.status) \/ (InFlight(record) /\ record.lease > now)
      BY <1>1, <3>3, OwnerIsBusy DEF Own, Unclaimed, Calm
    <3>4. /\ record' = record /\ now' = now
          /\ \A d \in Consumers : cpc'[d] = cpc[d] \/ cpc'[d] \notin AfterClaim
      BY <3>1 DEF CheckProjection, Goto, gatewayVars, AfterClaim
    <3> QED BY <3>2, <3>3, <3>4
  <2> QED BY <2>1, <2>2
<1>6. ASSUME NEW c \in Consumers, cpc'[c] = "healproject"
      PROVE  IsTerminal(record'.status)
  <2>1. CASE cpc[c] = "healproject"
    BY <1>1, <1>2, <2>1 DEF Standing
  <2>2. CASE cpc[c] # "healproject"
    BY <1>moves, <1>6, <2>2, HealProjects
  <2> QED BY <2>1, <2>2
<1> QED BY <1>3, <1>4, <1>5, <1>6 DEF Standing

\* A verdict the client has seen is not taken back by a duplicate, a retry or a
\* takeover: only by a fault, a quarantined worker or a late create-projection.
THEOREM RegressesNeedCauses ==
  ASSUME PromptSteps, MaxAttempts > 1
  PROVE  Spec => RegressNeedsCause
<1> DEFINE Inv == ExclusiveInv /\ StandInv
           Step == IsTerminal(kvJob) /\ ~IsTerminal(kvJob') =>
                     \/ faults > 0 \/ quarantined
                     \/ \E p \in Producers : ppc[p] = "project" /\ ppc'[p] # "project"
<1>1. Init => Inv
  <2> SUFFICES ASSUME Init PROVE Standing
    BY ExclusiveInit DEF ExclusiveInv, StandInv
  <2>1. ~IsTerminal(kvJob) /\ \A c \in Consumers : cpc[c] = "idle"
    BY DEF Init, IsTerminal, TERMINAL_STATES
  <2> QED BY <2>1 DEF Standing, AfterClaim
<1>2. Inv /\ [Next]_vars => Inv'
  <2> SUFFICES ASSUME Inv, [Next]_vars PROVE Inv'
    OBVIOUS
  <2>1. ExclusiveInv'
    BY ExclusiveStep
  <2> QED BY <2>1, StandStep
<1>3. Inv /\ [Next]_vars => [Step]_vars
  <2> SUFFICES ASSUME Inv, [Next]_vars, IsTerminal(kvJob), ~IsTerminal(kvJob'),
                      ~(faults > 0), ~quarantined
               PROVE  \E p \in Producers : ppc[p] = "project" /\ ppc'[p] # "project"
    OBVIOUS
  <2> USE DEF ExclusiveInv, RenderInv, TypeInv, TypeOK
  <2>1. Standing /\ Settled
    BY DEF StandInv, Calm, Settled
  <2>2. ASSUME NEW c \in Consumers, ProjectClaim(c) \/ WriteVerdict(c) PROVE FALSE
    BY <2>1, <2>2 DEF ProjectClaim, WriteVerdict, Goto, Standing, AfterClaim
  <2>3. ASSUME NEW c \in Consumers, ProjectTransition(c) PROVE FALSE
    BY <2>3 DEF ProjectTransition, Phases, Reached
  <2>4. ASSUME NEW p \in Producers, ProjectCreated(p)
        PROVE  ppc[p] = "project" /\ ppc'[p] # "project"
    BY <2>4 DEF ProjectCreated, ProducerGoto
  <2>5. ~LandLate
    BY ConstantsAssumption DEF LandLate, LateInv
  <2> QED BY <2>2, <2>3, <2>4, <2>5, KvWrites
<1> QED BY <1>1, <1>2, <1>3, PTL DEF Spec, RegressNeedsCause
=============================================================================
