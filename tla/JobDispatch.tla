----------------------------- MODULE JobDispatch -----------------------------
(***************************************************************************)
(* One job on the durable path of the gateway, end to end                  *)
(* (apps/gateway/src/index.ts, coordinator.ts, wrangler.toml):             *)
(*                                                                         *)
(*   producers   POST /api/jobs/create, one per HTTP request of the client *)
(*   record      the job's JobCoordinator durable object                   *)
(*   messages    the job-dispatch queue: at-least-once, max_retries, DLQ   *)
(*   consumers   handleJobQueue + dispatchToWorker, one per invocation     *)
(*   KV          job:, result: and quarantine: keys, the device's counter  *)
(*   worker      any answer, or none, to each render request               *)
(*                                                                         *)
(* Every await of a producer or consumer is a step: between two of them    *)
(* any other actor may run.  A KV get sees the last put that landed.       *)
(***************************************************************************)
EXTENDS JobRecord, FiniteSets

CONSTANTS
  Producers, Consumers, Messages,
  NoMessage,    \* what an idle consumer handles
  MaxAttempts,  \* MAX_DISPATCH_ATTEMPTS
  RenderMax,    \* MAX_RENDER_MS, the abort timer of one attempt
  RawFloor,     \* the too-fast floor before its cap
  MaxRetries,   \* max_retries of the queue consumer
  MaxTime,      \* bound: the clock stops here
  MaxFaults,    \* bound: crashes and throwing awaits
  PromptSteps,  \* TRUE: only a request to the worker takes time
  LatePuts      \* TRUE: a durable object's put may outlive its caller

ASSUME ConstantsAssumption ==
  /\ NoMessage \notin Messages
  /\ MaxAttempts \in Nat \ {0}
  /\ RenderMax \in Nat \ {0}
  /\ RawFloor \in Nat
  /\ MaxRetries \in Nat
  /\ MaxTime \in Nat
  /\ MaxFaults \in Nat
  /\ PromptSteps \in BOOLEAN
  /\ LatePuts \in BOOLEAN

VARIABLES
  now,          \* Date.now(), the same for every isolate
  record,       \* the durable object's storage
  kvJob,        \* status under job:<dev>:<id>, what the client polls
  kvResult,     \* result:<dev>:<id> is there
  quarantined,  \* quarantine:<worker> is there
  charged,      \* how often this job was counted against the device's quota
  mstate,       \* [Messages -> where the queue has it]
  tries,        \* [Messages -> deliveries so far]
  ppc,          \* [Producers -> next await]
  cpc,          \* [Consumers -> next await]
  cmsg,         \* [Consumers -> message being handled]
  attempt,      \* [Consumers -> attempt of dispatchToWorker's loop]
  started,      \* [Consumers -> when that attempt's timer was set]
  verdict,      \* [Consumers -> status about to be written]
  guarded,      \* [Consumers -> inside the try of the attempt]
  faults,       \* faults so far
  late          \* statuses a durable object still puts to KV for a dead caller

gatewayVars == <<record, kvJob, kvResult, quarantined, charged>>
queueVars == <<mstate, tries>>
attemptVars == <<attempt, started, verdict, guarded>>
consumerVars == <<cpc, cmsg, attemptVars>>
vars == <<now, gatewayVars, queueVars, ppc, consumerVars, faults, late>>

ProducerActive == {"throttle", "create", "project", "charge", "send", "mark"}
ProducerPC == ProducerActive \cup {"peek", "accepted", "rejected", "failed"}
ConsumerPC ==
  {"idle", "peek", "kvcheck", "heal", "healproject", "claim", "claimproject", "gate",
   "mint", "fetch", "result", "quarantine", "signal", "put", "catch",
   "finalread", "sync", "syncproject"}

\* Mutants (X_Bug): see README.md.
LeaseMs_Bug == RenderMax      \* the lease forgets the retry loop

LeaseMs == MaxAttempts * RenderMax

\* The floor is capped so that the plausible window cannot invert.
MinPlausible == IF RawFloor < RenderMax \div 2 THEN RawFloor ELSE RenderMax \div 2

TypeOK ==
  /\ now \in Nat
  /\ record \in Record
  /\ kvJob \in JobStatus \cup {"NONE"}
  /\ kvResult \in BOOLEAN
  /\ quarantined \in BOOLEAN
  /\ charged \in Nat
  /\ mstate \in [Messages -> {"unsent", "ready", "inflight", "acked", "dead"}]
  /\ tries \in [Messages -> 0..MaxRetries + 1]
  /\ ppc \in [Producers -> ProducerPC]
  /\ cpc \in [Consumers -> ConsumerPC]
  /\ cmsg \in [Consumers -> Messages \cup {NoMessage}]
  /\ attempt \in [Consumers -> 1..MaxAttempts]
  /\ started \in [Consumers -> Nat]
  /\ verdict \in [Consumers -> JobStatus]
  /\ guarded \in [Consumers -> BOOLEAN]
  /\ faults \in 0..MaxFaults
  /\ late \subseteq JobStatus

Init ==
  /\ now = 0
  /\ record = NoRecord
  /\ kvJob = "NONE"
  /\ kvResult = FALSE
  /\ quarantined \in BOOLEAN      \* another job may have quarantined the worker
  /\ charged = 0
  /\ mstate = [m \in Messages |-> "unsent"]
  /\ tries = [m \in Messages |-> 0]
  /\ ppc = [p \in Producers |-> "peek"]
  /\ cpc = [c \in Consumers |-> "idle"]
  /\ cmsg = [c \in Consumers |-> NoMessage]
  /\ attempt = [c \in Consumers |-> 1]
  /\ started = [c \in Consumers |-> 0]
  /\ verdict = [c \in Consumers |-> "QUEUED"]
  /\ guarded = [c \in Consumers |-> FALSE]
  /\ faults = 0
  /\ late = {}

-----------------------------------------------------------------------------
(* Producer: POST /api/jobs/create after its checks.  A client that        *)
(* resends the job is another producer.                                    *)

ProducerGoto(p, from, to) == ppc[p] = from /\ ppc' = [ppc EXCEPT ![p] = to]

\* coordinatorGet: new, an orphan to send again, or a plain repeat.
PeekJob(p) ==
  /\ \/ ~Exists(record) /\ ProducerGoto(p, "peek", "throttle")
     \/ /\ record.status = "QUEUED" /\ ~record.enqueued
        /\ ProducerGoto(p, "peek", "send")
     \/ /\ Exists(record)
        /\ record.status # "QUEUED" \/ record.enqueued
        /\ ProducerGoto(p, "peek", "accepted")
  /\ UNCHANGED <<now, gatewayVars, queueVars, consumerVars, faults, late>>

\* The quota check; module KvThrottle says how it decides.
ThrottleJob(p) ==
  /\ \/ ProducerGoto(p, "throttle", "create")
     \/ ProducerGoto(p, "throttle", "rejected")
  /\ UNCHANGED <<now, gatewayVars, queueVars, consumerVars, faults, late>>

CreateJob_Bug(p) ==           \* get-then-put: both racers create
  /\ record' = Created
  /\ ProducerGoto(p, "create", "project")
  /\ UNCHANGED <<now, kvJob, kvResult, quarantined, charged, queueVars, consumerVars,
                 faults, late>>

\* coordinatorCreate: the loser of a race is answered as a repeat.
CreateJob(p) ==
  /\ \/ /\ ~Exists(record)
        /\ record' = Created
        /\ ProducerGoto(p, "create", "project")
     \/ /\ Exists(record)
        /\ UNCHANGED record
        /\ ProducerGoto(p, "create", "accepted")
  /\ UNCHANGED <<now, kvJob, kvResult, quarantined, charged, queueVars, consumerVars,
                 faults, late>>

\* The durable object's write-through of the new record.
ProjectCreated(p) ==
  /\ ProducerGoto(p, "project", "charge")
  /\ kvJob' = "QUEUED"
  /\ UNCHANGED <<now, record, kvResult, quarantined, charged, queueVars, consumerVars,
                 faults, late>>

ChargeQuota_Bug(p) ==         \* the hand-off is confirmed without a send
  /\ ProducerGoto(p, "charge", "mark")
  /\ charged' = charged + 1
  /\ UNCHANGED <<now, record, kvJob, kvResult, quarantined, queueVars, consumerVars,
                 faults, late>>

ChargeQuota(p) ==
  /\ ProducerGoto(p, "charge", "send")
  /\ charged' = charged + 1
  /\ UNCHANGED <<now, record, kvJob, kvResult, quarantined, queueVars, consumerVars,
                 faults, late>>

SendMessage(p) ==
  /\ ProducerGoto(p, "send", "mark")
  /\ \E m \in Messages :
       /\ mstate[m] = "unsent"
       /\ mstate' = [mstate EXCEPT ![m] = "ready"]
  /\ UNCHANGED <<now, gatewayVars, tries, consumerVars, faults, late>>

ConfirmHandOff(p) ==
  /\ ProducerGoto(p, "mark", "accepted")
  /\ record' = MarkedEnqueued(record)
  /\ UNCHANGED <<now, kvJob, kvResult, quarantined, charged, queueVars, consumerVars,
                 faults, late>>

\* Who waits for projectToKv is gone; the durable object is not, and its put
\* may still land at any later time, or never.
OutlivedBy(statuses) ==
  late' \in {late} \cup (IF LatePuts THEN {late \cup statuses} ELSE {})

\* An await throws, or the isolate is evicted: no 202.  A throwing confirmation
\* is swallowed.
ProducerFails(p) ==
  /\ faults < MaxFaults
  /\ faults' = faults + 1
  /\ ppc[p] \in ProducerActive
  /\ \/ ppc' = [ppc EXCEPT ![p] = "failed"]
     \/ ProducerGoto(p, "mark", "accepted")
  /\ OutlivedBy(IF ppc[p] = "project" THEN {"QUEUED"} ELSE {})
  /\ UNCHANGED <<now, gatewayVars, queueVars, consumerVars>>

ProducerStep(p) ==
  \/ PeekJob(p) \/ ThrottleJob(p) \/ CreateJob(p) \/ ProjectCreated(p)
  \/ ChargeQuota(p) \/ SendMessage(p) \/ ConfirmHandOff(p)

-----------------------------------------------------------------------------
(* Queue.  A message not acked is delivered again until max_retries is     *)
(* spent, then moved to the dead-letter queue, which nobody consumes.      *)

Goto(c, from, to) == cpc[c] = from /\ cpc' = [cpc EXCEPT ![c] = to]

ReturnedState(m) == IF tries[m] > MaxRetries THEN "dead" ELSE "ready"

Deliver(c, m) ==
  /\ mstate[m] = "ready"
  /\ Goto(c, "idle", "peek")
  /\ cmsg' = [cmsg EXCEPT ![c] = m]
  /\ mstate' = [mstate EXCEPT ![m] = "inflight"]
  /\ tries' = [tries EXCEPT ![m] = @ + 1]
  /\ UNCHANGED <<now, gatewayVars, ppc, attemptVars, faults, late>>

\* At-least-once: a message in flight is delivered a second time.  The bound
\* leaves a message for every request that may still send one.
Redeliver(m) ==
  /\ mstate[m] = "inflight"
  /\ Cardinality({n \in Messages : mstate[n] = "unsent"})
       > Cardinality({p \in Producers : ppc[p] \in {"peek"} \cup ProducerActive})
  /\ \E n \in Messages :
       /\ mstate[n] = "unsent"
       /\ mstate' = [mstate EXCEPT ![n] = "ready"]
  /\ UNCHANGED <<now, gatewayVars, tries, ppc, consumerVars, faults, late>>

\* The end of one invocation of the handler.
Finish(c, state) ==
  /\ mstate' = [mstate EXCEPT ![cmsg[c]] = state]
  /\ cpc' = [cpc EXCEPT ![c] = "idle"]
  /\ cmsg' = [cmsg EXCEPT ![c] = NoMessage]
  /\ attempt' = [attempt EXCEPT ![c] = 1]
  /\ started' = [started EXCEPT ![c] = 0]
  /\ verdict' = [verdict EXCEPT ![c] = "QUEUED"]
  /\ guarded' = [guarded EXCEPT ![c] = FALSE]
  /\ UNCHANGED tries

Ack(c) == Finish(c, "acked")

Retry_Bug(c) == Ack(c)        \* the handler's catch acks

Retry(c) == Finish(c, ReturnedState(cmsg[c]))

-----------------------------------------------------------------------------
(* Consumer: handleJobQueue up to the claim.                               *)

\* (1) The durable object already has a verdict.
PeekAuthority(c) ==
  /\ cpc[c] = "peek"
  /\ \/ IsTerminal(record.status) /\ Ack(c)
     \/ /\ ~IsTerminal(record.status)
        /\ Goto(c, "peek", "kvcheck")
        /\ UNCHANGED <<queueVars, cmsg, attemptVars>>
  /\ UNCHANGED <<now, gatewayVars, ppc, faults, late>>

\* (2) KV has a verdict the durable object lacks.
CheckProjection(c) ==
  /\ \/ /\ IsTerminal(kvJob)
        /\ Goto(c, "kvcheck", "heal")
        /\ verdict' = [verdict EXCEPT ![c] = kvJob]
     \/ /\ ~IsTerminal(kvJob)
        /\ Goto(c, "kvcheck", "claim")
        /\ UNCHANGED verdict
  /\ UNCHANGED <<now, gatewayVars, queueVars, ppc, cmsg, attempt, started, guarded,
                 faults, late>>

\* Best effort: whatever the transition answers, the message is acked.
HealAuthority(c) ==
  /\ cpc[c] = "heal"
  /\ \/ /\ CanTransition(record, verdict[c])
        /\ record' = Transitioned(record, verdict[c])
        /\ Goto(c, "heal", "healproject")
        /\ UNCHANGED <<queueVars, cmsg, attemptVars>>
     \/ /\ ~CanTransition(record, verdict[c])
        /\ UNCHANGED record
        /\ Ack(c)
  /\ UNCHANGED <<now, kvJob, kvResult, quarantined, charged, ppc, faults, late>>

\* (3) acquireDispatch.
ClaimJob(c) ==
  /\ cpc[c] = "claim"
  /\ \/ IsTerminal(record.status) /\ Ack(c) /\ UNCHANGED record
     \/ IsBusy(record, now) /\ Retry(c) /\ UNCHANGED record
     \/ /\ CanAcquire(record, now)
        /\ record' = Acquired(record, now, LeaseMs)
        /\ Goto(c, "claim", "claimproject")
        /\ UNCHANGED <<queueVars, cmsg, attemptVars>>
  /\ UNCHANGED <<now, kvJob, kvResult, quarantined, charged, ppc, faults, late>>

ProjectClaim(c) ==
  /\ Goto(c, "claimproject", "gate")
  /\ kvJob' = "DISPATCHING"
  /\ UNCHANGED <<now, record, kvResult, quarantined, charged, queueVars, ppc, cmsg,
                 attemptVars, faults, late>>

-----------------------------------------------------------------------------
(* Consumer: dispatchToWorker.                                             *)

\* Write verdict v next; g: the write is inside the attempt's try.
WriteNext(c, v, g) ==
  /\ cpc' = [cpc EXCEPT ![c] = "put"]
  /\ verdict' = [verdict EXCEPT ![c] = v]
  /\ guarded' = [guarded EXCEPT ![c] = g]

\* Quarantine check and signing gate.
EnterDispatch(c) ==
  /\ cpc[c] = "gate"
  /\ \/ quarantined /\ WriteNext(c, "FAILED", FALSE)
     \/ ~quarantined /\ WriteNext(c, "FAILED", FALSE)      \* no signing key
     \/ ~quarantined /\ Goto(c, "gate", "mint") /\ UNCHANGED <<verdict, guarded>>
  /\ UNCHANGED <<now, gatewayVars, queueVars, ppc, cmsg, attempt, started,
                 faults, late>>

\* A fresh token per attempt; the timer starts.
StartAttempt(c) ==
  /\ cpc[c] = "mint"
  /\ started' = [started EXCEPT ![c] = now]
  /\ \/ WriteNext(c, "FAILED", TRUE)                       \* signing failed
     \/ /\ Goto(c, "mint", "fetch")
        /\ guarded' = [guarded EXCEPT ![c] = TRUE]
        /\ UNCHANGED verdict
  /\ UNCHANGED <<now, gatewayVars, queueVars, ppc, cmsg, attempt, faults, late>>

Elapsed(c) == now - started[c]

\* controller.signal.aborted: the timer of the attempt has fired.
Aborted(c) == Elapsed(c) >= RenderMax

LastAttempt_Bug(c) == attempt[c] > MaxAttempts

LastAttempt(c) == attempt[c] >= MaxAttempts

\* The worker answers before the timer fires.
WorkerAnswers(c) ==
  /\ cpc[c] = "fetch"
  /\ ~Aborted(c)
  /\ \/ WriteNext(c, IF LastAttempt(c) THEN "FAILED" ELSE "RETRYING", TRUE)  \* 5xx
     \/ WriteNext(c, "FAILED", TRUE)                                         \* 4xx
     \/ /\ Elapsed(c) < MinPlausible                                         \* fraud
        /\ Goto(c, "fetch", "quarantine")
        /\ verdict' = [verdict EXCEPT ![c] = "REJECTED_FRAUD"]
        /\ UNCHANGED guarded
     \/ /\ Elapsed(c) >= MinPlausible
        /\ Goto(c, "fetch", "result")
        /\ verdict' = [verdict EXCEPT ![c] = "DONE"]
        /\ UNCHANGED guarded
  /\ UNCHANGED <<now, gatewayVars, queueVars, ppc, cmsg, attempt, started,
                 faults, late>>

\* A network error, at any moment, or the abort.
FetchThrows(c) ==
  /\ Goto(c, "fetch", "catch")
  /\ UNCHANGED <<now, gatewayVars, queueVars, ppc, cmsg, attemptVars, faults, late>>

StoreResult_Bug(c) ==         \* DONE is published first
  /\ Goto(c, "result", "put")
  /\ kvJob' = "DONE"
  /\ UNCHANGED <<now, record, kvResult, quarantined, charged, queueVars, ppc, cmsg,
                 attemptVars, faults, late>>

\* The artifact is stored before the status turns DONE.
StoreResult(c) ==
  /\ Goto(c, "result", "put")
  /\ kvResult' = TRUE
  /\ UNCHANGED <<now, record, kvJob, quarantined, charged, queueVars, ppc, cmsg,
                 attemptVars, faults, late>>

\* The catch of the attempt.
HandleError(c) ==
  /\ cpc[c] = "catch"
  /\ \/ /\ Aborted(c)
        /\ Goto(c, "catch", "quarantine")
        /\ verdict' = [verdict EXCEPT ![c] = "TERMINATED_TIMEOUT"]
        /\ guarded' = [guarded EXCEPT ![c] = FALSE]
     \/ /\ ~Aborted(c)
        /\ WriteNext(c, IF LastAttempt(c) THEN "ERROR" ELSE "RETRYING", FALSE)
  /\ UNCHANGED <<now, gatewayVars, queueVars, ppc, cmsg, attempt, started,
                 faults, late>>

\* terminateWorker: the durable flag first, then the signal, whose request has
\* no timeout and whose failure is swallowed.
QuarantineWorker(c) ==
  /\ Goto(c, "quarantine", "signal")
  /\ quarantined' = TRUE
  /\ UNCHANGED <<now, record, kvJob, kvResult, charged, queueVars, ppc, cmsg,
                 attemptVars, faults, late>>

SignalWorker(c) ==
  /\ Goto(c, "signal", "put")
  /\ UNCHANGED <<now, gatewayVars, queueVars, ppc, cmsg, attemptVars, faults, late>>

\* setJob.  RETRYING goes round the loop, anything else returns.
WriteVerdict(c) ==
  /\ cpc[c] = "put"
  /\ kvJob' = verdict[c]
  /\ \/ /\ verdict[c] = "RETRYING"
        /\ Goto(c, "put", "mint")
        /\ attempt' = [attempt EXCEPT ![c] = @ + 1]
     \/ /\ verdict[c] # "RETRYING"
        /\ Goto(c, "put", "finalread")
        /\ UNCHANGED attempt
  /\ UNCHANGED <<now, record, kvResult, quarantined, charged, queueVars, ppc, cmsg,
                 started, verdict, guarded, faults, late>>

-----------------------------------------------------------------------------
(* Consumer: handleJobQueue after dispatchToWorker returned.               *)

ReadFinal(c) ==
  /\ Goto(c, "finalread", "sync")
  /\ verdict' = [verdict EXCEPT ![c] = kvJob]
  /\ UNCHANGED <<now, gatewayVars, queueVars, ppc, cmsg, attempt, started, guarded,
                 faults, late>>

SyncAuthority_Bug(c) ==       \* the durable object is never told
  /\ cpc[c] = "sync"
  /\ Ack(c)
  /\ UNCHANGED <<now, record, kvJob, kvResult, quarantined, charged, ppc, faults, late>>

\* An illegal edge throws, and the handler's catch retries the message.
SyncAuthority(c) ==
  /\ cpc[c] = "sync"
  /\ \/ TransitionThrows(record, verdict[c]) /\ Retry(c) /\ UNCHANGED record
     \/ /\ CanTransition(record, verdict[c])
        /\ record' = Transitioned(record, verdict[c])
        /\ Goto(c, "sync", "syncproject")
        /\ UNCHANGED <<queueVars, cmsg, attemptVars>>
     \/ /\ ~TransitionThrows(record, verdict[c])
        /\ ~CanTransition(record, verdict[c])
        /\ Ack(c)
        /\ UNCHANGED record
  /\ UNCHANGED <<now, kvJob, kvResult, quarantined, charged, ppc, faults, late>>

\* The durable object's write-through of a transition, then the ack.
ProjectTransition(c) ==
  /\ cpc[c] \in {"healproject", "syncproject"}
  /\ kvJob' = verdict[c]
  /\ Ack(c)
  /\ UNCHANGED <<now, record, kvResult, quarantined, charged, ppc, faults, late>>

-----------------------------------------------------------------------------
(* Failures and time.                                                      *)

\* An await throws without effect.  The heal swallows it, the attempt's try
\* hands it to its catch, anywhere else the handler's catch retries.
ConsumerThrows(c) ==
  /\ faults < MaxFaults
  /\ faults' = faults + 1
  /\ \/ cpc[c] \in {"heal", "healproject"} /\ Ack(c)
     \/ /\ \/ cpc[c] = "result"
           \/ cpc[c] \in {"put", "quarantine"} /\ guarded[c]
        /\ cpc' = [cpc EXCEPT ![c] = "catch"]
        /\ UNCHANGED <<queueVars, cmsg, attemptVars>>
     \/ /\ \/ cpc[c] \in {"peek", "kvcheck", "claim", "claimproject", "gate",
                          "finalread", "sync", "syncproject"}
           \/ cpc[c] \in {"put", "quarantine"} /\ ~guarded[c]
        /\ Retry(c)
  /\ UNCHANGED <<now, gatewayVars, ppc, late>>

\* What the durable object is putting to KV for a consumer.
PutFor(c) ==
  CASE cpc[c] = "claimproject" -> {"DISPATCHING"}
    [] cpc[c] \in {"healproject", "syncproject"} -> {verdict[c]}
    [] OTHER -> {}

\* The isolate is evicted: the message is neither acked nor retried, the queue
\* delivers it again.
ConsumerCrashes(c) ==
  /\ faults < MaxFaults
  /\ faults' = faults + 1
  /\ cpc[c] # "idle"
  /\ Retry(c)
  /\ OutlivedBy(PutFor(c))
  /\ UNCHANGED <<now, gatewayVars, ppc>>

LandLate ==
  /\ \E s \in late : kvJob' = s /\ late' = late \ {s}
  /\ UNCHANGED <<now, record, kvResult, quarantined, charged, queueVars, ppc,
                 consumerVars, faults>>

\* Time passes while a worker request is open or a lease is running; otherwise
\* nothing depends on it.  A due abort timer fires first.
Tick ==
  /\ now < MaxTime
  /\ record.lease > now \/ \E c \in Consumers : cpc[c] = "fetch"
  /\ \A c \in Consumers : cpc[c] = "fetch" => ~Aborted(c)
  /\ PromptSteps =>
       /\ late = {}
       /\ \A c \in Consumers : cpc[c] \in {"idle", "fetch", "signal"}
       /\ \A p \in Producers : ppc[p] \notin ProducerActive
  /\ now' = now + 1
  /\ UNCHANGED <<gatewayVars, queueVars, ppc, consumerVars, faults, late>>

-----------------------------------------------------------------------------
\* Steps that end: storage, KV and queue answer, and a render request has the
\* abort timer.
BoundedStep(c) ==
  \/ PeekAuthority(c) \/ CheckProjection(c) \/ HealAuthority(c)
  \/ ClaimJob(c) \/ ProjectClaim(c) \/ EnterDispatch(c) \/ StartAttempt(c)
  \/ WorkerAnswers(c) \/ FetchThrows(c) \/ StoreResult(c) \/ HandleError(c)
  \/ QuarantineWorker(c) \/ WriteVerdict(c)
  \/ ReadFinal(c) \/ SyncAuthority(c) \/ ProjectTransition(c)

ConsumerStep(c) == BoundedStep(c) \/ SignalWorker(c)

Next ==
  \/ \E p \in Producers : ProducerStep(p) \/ ProducerFails(p)
  \/ \E c \in Consumers, m \in Messages : Deliver(c, m)
  \/ \E m \in Messages : Redeliver(m)
  \/ \E c \in Consumers : ConsumerStep(c) \/ ConsumerThrows(c) \/ ConsumerCrashes(c)
  \/ LandLate
  \/ Tick

Spec == Init /\ [][Next]_vars

\* Invocations run to their end, the queue delivers what is ready, time passes.
\* Nothing makes a fault or a duplicate happen, and nothing makes the terminate
\* request end: it has no timer, and goes to a worker that may hang.
Fairness ==
  /\ \A p \in Producers : WF_vars(ProducerStep(p))
  /\ \A c \in Consumers : WF_vars(BoundedStep(c))
  /\ WF_vars(\E c \in Consumers, m \in Messages : Deliver(c, m))
  /\ WF_vars(Tick)

FairSpec == Spec /\ Fairness

-----------------------------------------------------------------------------
(* Properties *)

Rendering == {c \in Consumers : cpc[c] = "fetch"}

\* A message the queue will still deliver, or that is being handled.
Pending(m) == mstate[m] \in {"ready", "inflight"}

Sent == \E m \in Messages : mstate[m] # "unsent"

Settled == IsTerminal(record.status) \/ IsTerminal(kvJob)

\* A job shown as DONE, by KV or by the durable object, has its artifact: no
\* crash, retry, heal or takeover publishes DONE ahead of the result key.
DoneHasResult == kvJob = "DONE" \/ record.status = "DONE" => kvResult

\* However many requests race for one job, and however they fail, the device
\* is charged for it at most once, and only for a job that exists.
ChargedOnce == charged <= 1 /\ (charged = 1 => Exists(record))

\* `enqueued` is proof of a hand-off: a job that carries it has had a message,
\* so no orphan is hidden from the heal.
MarkProvesSend == record.enqueued => Sent

\* A repeat answered 202 on another request's behalf is no empty promise: unless
\* something failed, the job has had its message or a request on its way to
\* send one.
AcceptedIsCarried ==
  faults = 0 /\ (\E p \in Producers : ppc[p] = "accepted") =>
    Sent \/ \E q \in Producers : ppc[q] \in {"project", "charge", "send"}

\* Of two deliveries of one job, whatever duplicates, crashes and takeovers
\* led to them, never two have a request open at the worker.
OneRenderAtATime == Cardinality(Rendering) <= 1

\* Acknowledging never drops work: when every message ever sent has been acked
\* and no handler runs, the job has its verdict.
AcksOnlySettled ==
  (/\ Sent
   /\ \A m \in Messages : mstate[m] \in {"unsent", "acked"}
   /\ \A p \in Producers : ppc[p] # "send")
  => Settled

\* RETRYING is between the consumer and KV: whatever one delivery reads back of
\* another's progress, the durable object is told of claims and verdicts only,
\* so that it is never parked in a state from which no verdict is legal.
OnlyClaimsAndVerdicts ==
  record.status \in {"NONE", "QUEUED", "DISPATCHING"} \cup TERMINAL_STATES

\* When nothing fails, a job a client was told is accepted gets a verdict in
\* the durable object, through RETRYING rounds, hung renders and duplicate
\* deliveries alike: provided that every terminate request ends.  One that does
\* not holds the verdict it precedes back for as long.
SignalsEnd == \A c \in Consumers : []<>(cpc[c] # "signal")
AcceptedSettles ==
  [](faults = 0) /\ SignalsEnd =>
    ((\E p \in Producers : ppc[p] = "accepted") ~> IsTerminal(record.status))

(* Claims of the repository that do not hold: see README.md, Findings.     *)

\* index.ts:1088-1091: "a job can never be silently lost".
NoSilentLoss ==
  record.enqueued =>
    \/ Settled
    \/ \E m \in Messages : Pending(m)

\* index.ts:1108-1113: a verdict in KV is not dragged back off by a later
\* delivery; coordinator.ts:32-33: nothing regresses a terminal state.
KvVerdictSticky == [][IsTerminal(kvJob) => IsTerminal(kvJob')]_kvJob

\* index.ts:867-870: a quarantined worker is sent no job.
NoDispatchToQuarantined ==
  [][\A c \in Consumers : cpc[c] # "fetch" /\ cpc'[c] = "fetch" => ~quarantined]_vars

(* What is left of the first two of them.                                  *)

\* A job asked for once is lost by a fault only: duplicates, busy claims and
\* used-up redeliveries alone do not lose it.
LossNeedsFault == faults = 0 => NoSilentLoss

\* A verdict the client has seen is taken back off it only where the lease does
\* not cover its owner (a fault, or the signal to a quarantined worker), or by
\* the late projection of a create: never by a duplicate, a retry or a takeover.
RegressNeedsCause ==
  [][IsTerminal(kvJob) /\ ~IsTerminal(kvJob') =>
       \/ faults > 0 \/ quarantined
       \/ \E p \in Producers : ppc[p] = "project" /\ ppc'[p] # "project"]_vars
=============================================================================
