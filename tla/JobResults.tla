----------------------------- MODULE JobResults ------------------------------
(***************************************************************************)
(* Several jobs on one GPU worker, from the legacy create path to the      *)
(* client's download (apps/gateway/src/index.ts without the durable        *)
(* object): create and its background dispatch, the worker of module       *)
(* GpuWorker, the status poll and the download proxy.                      *)
(*                                                                         *)
(* A dispatch is one accepted create request; two of them may be for one   *)
(* job.  Its a-th attempt is the call <<d, a>> to the worker.  Timers and  *)
(* key lifetimes are events that may happen whenever the code waits.       *)
(***************************************************************************)
EXTENDS Naturals, FiniteSets

CONSTANTS
  Requests,        \* how many create requests are accepted
  None, Expired,   \* no key yet; a key whose lifetime is over
  MaxAttempts,     \* MAX_DISPATCH_ATTEMPTS
  Slots,
  MaxAged,         \* bound: how many tracks the passing hours make old
  MaxFaults        \* bound: restarts of the worker and lost isolates

ASSUME ResultsAssumption ==
  /\ Requests \in Nat
  /\ MaxAttempts \in Nat \ {0} /\ Slots \in Nat \ {0}
  /\ MaxAged \in Nat /\ MaxFaults \in Nat
  /\ None # Expired /\ {None, Expired} \cap ((1..Requests) \X (1..MaxAttempts)) = {}

VARIABLES
  call, flagged, finals, aged, restarts,    \* the worker
  kvJob,           \* [Jobs -> status under job:<dev>:<id>]
  kvResult,        \* [Jobs -> the call whose track result:<dev>:<id> names]
  quarantine,      \* quarantine:<worker> is there
  pc, job, attempt, \* of each dispatch
  reading,         \* jobs whose status poll has read DONE, and not yet the result
  evictions

Dispatches == 1..Requests
Jobs == 1..Requests         \* a job is named after its first request
Calls == Dispatches \X (1..MaxAttempts)
Worker == INSTANCE GpuWorker

kvVars == <<kvJob, kvResult, quarantine>>
dispatchVars == <<pc, job, attempt>>
workerVars == <<call, flagged, finals, aged, restarts>>
vars == <<workerVars, kvVars, dispatchVars, reading, evictions>>

Terminal == {"DONE", "FAILED"}       \* FAILED stands for every verdict but DONE
Status == Terminal \cup {"NONE", "QUEUED", "RETRYING"}
PC == {"idle", "peek", "put", "start", "fetch", "signal", "publish", "announce", "end",
       "lost"}

TypeOK ==
  /\ Worker!WorkerTypeOK
  /\ kvJob \in [Jobs -> Status]
  /\ kvResult \in [Jobs -> Calls \cup {None, Expired}]
  /\ quarantine \in BOOLEAN
  /\ pc \in [Dispatches -> PC]
  /\ job \in [Dispatches -> Jobs \cup {None}]
  /\ attempt \in [Dispatches -> 1..MaxAttempts]
  /\ reading \subseteq Jobs
  /\ evictions \in 0..MaxFaults

Init ==
  /\ Worker!WorkerInit
  /\ kvJob = [j \in Jobs |-> "NONE"] /\ kvResult = [j \in Jobs |-> None]
  /\ quarantine = FALSE
  /\ pc = [d \in Dispatches |-> "idle"] /\ job = [d \in Dispatches |-> None]
  /\ attempt = [d \in Dispatches |-> 1]
  /\ reading = {}
  /\ evictions = 0

At(d, from) == pc[d] = from
Goto(d, to) == pc' = [pc EXCEPT ![d] = to]
Call(d) == <<d, attempt[d]>>
SetJob(d, status) == kvJob' = [kvJob EXCEPT ![job[d]] = status]
Others == UNCHANGED <<reading, evictions>>

-----------------------------------------------------------------------------
(* POST /api/jobs/create without durable bindings.                         *)

Arrive(d) ==
  /\ At(d, "idle") /\ Goto(d, "peek")
  /\ \A e \in 1..(d - 1) : pc[e] # "idle"
  /\ \E j \in 1..d : job' = [job EXCEPT ![d] = j]
  /\ UNCHANGED <<workerVars, kvVars, attempt>> /\ Others

\* A known job is answered with its record.
Peek(d) ==
  /\ At(d, "peek") /\ Goto(d, IF kvJob[job[d]] = "NONE" THEN "put" ELSE "end")
  /\ UNCHANGED <<workerVars, kvVars, job, attempt>> /\ Others

PutJob(d) ==
  /\ At(d, "put")
  /\ \/ Goto(d, "end") /\ UNCHANGED kvJob         \* over the quota: 429
     \/ Goto(d, "start") /\ SetJob(d, "QUEUED")
  /\ UNCHANGED <<workerVars, kvResult, quarantine, job, attempt>> /\ Others

-----------------------------------------------------------------------------
(* background(dispatchToWorker).  A verdict that is not DONE is written in  *)
(* the step that reaches it.                                               *)

Conclude(d) == Goto(d, "end") /\ SetJob(d, "FAILED") /\ UNCHANGED <<call, attempt>>
Send(d) == call' = [call EXCEPT ![<<d, attempt'[d]>>] = "sent"]
DiskAndFlag == UNCHANGED <<flagged, finals, aged, restarts>>

\* A quarantined worker gets no job; nor does any without the signing key.
StartDispatch(d) ==
  /\ At(d, "start")
  /\ \/ Conclude(d)
     \/ ~quarantine /\ Goto(d, "fetch") /\ UNCHANGED <<attempt, kvJob>> /\ Send(d)
  /\ UNCHANGED <<kvResult, quarantine, job>> /\ DiskAndFlag /\ Others

Again(d) ==
  /\ SetJob(d, "RETRYING") /\ UNCHANGED pc
  /\ attempt' = [attempt EXCEPT ![d] = @ + 1] /\ Send(d)

Retry_Bug(d) == Again(d)       \* the loop runs once too often

Retry(d) ==
  \/ attempt[d] < MaxAttempts /\ Again(d)
  \/ attempt[d] = MaxAttempts /\ Conclude(d)

\* A track in time goes on to be published; 5xx is tried again, 4xx is final.
Answered(d) ==
  /\ At(d, "fetch")
  /\ \/ call[Call(d)] = "done" /\ Goto(d, "publish") /\ UNCHANGED <<call, attempt, kvJob>>
     \/ call[Call(d)] = "failed" /\ Retry(d)
     \/ call[Call(d)] = "refused" /\ Conclude(d)
  /\ UNCHANGED <<kvResult, quarantine, job>> /\ DiskAndFlag /\ Others

ConnectionLost(d) ==           \* the worker renders on
  /\ At(d, "fetch") /\ Retry(d)
  /\ UNCHANGED <<kvResult, quarantine, job>> /\ DiskAndFlag /\ Others

\* terminateWorker: the flag in KV first, then the request to the worker.
Quarantine(d) ==
  /\ Goto(d, "signal")
  /\ quarantine' = TRUE
  /\ UNCHANGED <<workerVars, kvJob, kvResult, job, attempt>> /\ Others

Distrust_Bug(d) ==             \* the attempt has no timer
  At(d, "fetch") /\ call[Call(d)] = "done" /\ Quarantine(d)

\* The timer fires, the answer possibly under way; or the answer is too fast.
Distrust(d) == At(d, "fetch") /\ Quarantine(d)

\* The request reaches the worker, or never does.
TerminateArrives(d) ==
  /\ At(d, "signal") /\ ~flagged /\ Worker!terminate
  /\ UNCHANGED <<kvVars, dispatchVars>> /\ Others

\* It has no timer: it ends when the worker answers or the connection breaks,
\* if ever, and only then the verdict is written.
TerminateEnds(d) ==
  /\ At(d, "signal") /\ Conclude(d)
  /\ UNCHANGED <<kvResult, quarantine, job>> /\ DiskAndFlag /\ Others

Publish_Bug(d) ==              \* the put is not awaited, and may have failed
  /\ At(d, "publish") /\ Goto(d, "announce")
  /\ kvResult' \in {kvResult, [kvResult EXCEPT ![job[d]] = Call(d)]}
  /\ UNCHANGED <<workerVars, kvJob, quarantine, job, attempt>> /\ Others

\* The artifact first, the status after it.
Publish(d) ==
  /\ At(d, "publish") /\ Goto(d, "announce")
  /\ kvResult' = [kvResult EXCEPT ![job[d]] = Call(d)]
  /\ UNCHANGED <<workerVars, kvJob, quarantine, job, attempt>> /\ Others

Announce(d) ==
  /\ At(d, "announce") /\ Goto(d, "end") /\ SetJob(d, "DONE")
  /\ UNCHANGED <<workerVars, kvResult, quarantine, job, attempt>> /\ Others

Evict(d) ==                    \* the isolate is gone: nobody goes on
  /\ pc[d] \in {"start", "fetch", "signal", "publish", "announce"}
  /\ evictions + restarts < MaxFaults /\ evictions' = evictions + 1
  /\ Goto(d, "lost")
  /\ UNCHANGED <<workerVars, kvVars, job, attempt, reading>>

-----------------------------------------------------------------------------
(* The client's side.                                                      *)

\* A day is longer than any dispatch, but for a terminate request.
Quiet == \A d \in Dispatches : pc[d] \in {"idle", "signal", "end", "lost"}

\* Both keys live a day; the result was written first, and goes first.  The key
\* of a job that never had a result is not followed to its end.
Expire(j) ==
  /\ kvJob[j] # "NONE" /\ kvResult[j] # None /\ Quiet
  /\ IF kvResult[j] \in Calls
       THEN kvResult' = [kvResult EXCEPT ![j] = Expired] /\ UNCHANGED kvJob
       ELSE kvJob' = [kvJob EXCEPT ![j] = "NONE"] /\ UNCHANGED kvResult
  /\ UNCHANGED <<workerVars, quarantine, dispatchVars>> /\ Others

\* GET /api/jobs/:jobId: DONE is looked into, any other status is the answer.
PollStatus(j) ==
  /\ kvJob[j] = "DONE" /\ reading' = reading \cup {j}
  /\ UNCHANGED <<workerVars, kvVars, dispatchVars, evictions>>

\* The second read: DONE with the result, or FINALIZING.
PollResult(j) ==
  /\ j \in reading /\ reading' = reading \ {j}
  /\ UNCHANGED <<workerVars, kvVars, dispatchVars, evictions>>

PollAnswer(j) == IF kvResult[j] \in Calls THEN "DONE" ELSE "FINALIZING"

\* What GET /api/jobs/:jobId/download can serve.
Downloadable(j) == kvJob[j] = "DONE" /\ kvResult[j] \in finals

WorkerStep == UNCHANGED <<kvVars, dispatchVars>> /\ Others

Next ==
  \/ \E d \in Dispatches : Arrive(d)
  \/ \E d \in Dispatches : Peek(d)
  \/ \E d \in Dispatches : PutJob(d)
  \/ \E d \in Dispatches : StartDispatch(d)
  \/ \E d \in Dispatches : Answered(d)
  \/ \E d \in Dispatches : ConnectionLost(d)
  \/ \E d \in Dispatches : Distrust(d)
  \/ \E d \in Dispatches : TerminateArrives(d)
  \/ \E d \in Dispatches : TerminateEnds(d)
  \/ \E d \in Dispatches : Publish(d)
  \/ \E d \in Dispatches : Announce(d)
  \/ \E d \in Dispatches : Evict(d)
  \/ \E j \in Jobs : Expire(j)
  \/ \E j \in Jobs : PollStatus(j)
  \/ \E j \in Jobs : PollResult(j)
  \/ WorkerStep /\ \E c \in Calls : Worker!Pipeline(c)
  \/ WorkerStep /\ \E c \in Calls : Worker!Fail(c)
  \/ WorkerStep /\ Worker!Age
  \/ WorkerStep /\ evictions + restarts < MaxFaults /\ Worker!Restart

\* The gateway's awaits end, the render request by its timer.  Nothing is assumed
\* of the worker, which may hang: so the terminate request need not end.
Gateway(d) ==
  Peek(d) \/ PutJob(d) \/ StartDispatch(d) \/ Answered(d) \/ Distrust(d) \/ Publish(d)
    \/ Announce(d)

Spec == Init /\ [][Next]_vars /\ \A d \in Dispatches : WF_vars(Gateway(d))

-----------------------------------------------------------------------------
(* Correctness *)

\* The track a finished job's result names is the job's own and can still be
\* downloaded, until it is older than the worker keeps tracks, whatever other
\* renders, retries and sweeps went on (index.ts:992, audio_engine.py:327).
DoneTrackIsThere ==
  \A j \in Jobs : kvResult[j] \in Calls =>
    job[kvResult[j][1]] = j /\ (kvJob[j] = "DONE" => Downloadable(j) \/ kvResult[j] \in aged)

\* A poll that answers FINALIZING has come too late, never too early: whatever
\* dispatches of the job come between its two reads, it has found DONE, and the
\* result that was there before is past its lifetime (index.ts:783, which denies
\* it of every finished job).
FinalizingIsExpiry ==
  \A j \in reading : PollAnswer(j) = "FINALIZING" => kvResult[j] = Expired

\* Every accepted job ends up with a verdict, however long it waits for the
\* slot and though the worker hangs: the timer runs from the request.  What can
\* leave it QUEUED or RETRYING is a lost isolate, or a terminate request that the
\* hung worker never answers, behind which the verdict waits.
Abandoned(j) == \E d \in Dispatches : job[d] = j /\ pc[d] \in {"signal", "lost"}
JobsSettle == <>[](\A j \in Jobs : kvJob[j] \in {"QUEUED", "RETRYING"} => Abandoned(j))
=============================================================================
