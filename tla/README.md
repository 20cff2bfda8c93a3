# TLA+ verification of OmniVoice's job system

OmniVoice dubs a video: a desktop client extracts the audio, uploads it, asks a
Cloudflare Worker (the *gateway*) for a render, polls for the verdict and muxes
the dubbed track it downloads. A GPU *worker* renders. What is hard is the life
of one job between these parts: the gateway runs on isolates that may be evicted
at any await, its queue delivers at least once, its key-value store (KV) is
written by several parties, and every render costs money.

Paths below are relative to `src/`; `index.ts` is `apps/gateway/src/index.ts`
and `coordinator.ts` is `apps/gateway/src/coordinator.ts`.

## Inventory

| Component | State | Operations | What makes it correct |
|---|---|---|---|
| **Job coordinator**, one durable object per job (`coordinator.ts`) | the stored record: status, `enqueued`, `leaseExpiresAt` | `get`, `create`, `transition`, `markEnqueued`, `acquireDispatch`; each write but one is projected to KV | the first verdict is the last; one owner per lease; a sent job never looks unsent; KV shows no verdict storage lacks |
| **Producer**, `POST /api/jobs/create` (`index.ts:458-655`) | none of its own; KV quota counter | check request, peek, heal an orphan, throttle, create, charge, send, mark; a legacy path without a durable object | a 202 means the job will be rendered; one charge per job |
| **Queue** `job-dispatch` (`apps/gateway/wrangler.toml:40-48`) | messages, delivery counts | deliver, redeliver, dead-letter | no job is lost |
| **Consumer**, `handleJobQueue` (`index.ts:1092-1170`) | none of its own | guard, heal from KV, claim, dispatch, sync, ack or retry | at most one render at a time; acks drop nothing |
| **Worker round-trip**, `dispatchToWorker` (`index.ts:864-1028`) | attempt, abort timer; KV `job:`, `result:`, `quarantine:` | up to three attempts, timing bounds, terminate and quarantine | DONE has its artifact; a distrusted worker gets no job |
| **Throttles** (`index.ts:443-448`, `577-600`, `636-640`, presign) | a KV counter with a lifetime | get, compare, put | quota per window, no starvation |
| **Poll and download** (`index.ts:765-860`) | reads KV | poll, FINALIZING, proxy the file | what is DONE can be fetched |
| **Kill switch** (`index.ts:398-423`, `scripts/kill-switch-monitor.mjs`) | one KV key | arm, clear, check | armed means no new spend; garbage never disarms |
| **Registration, presign** (`index.ts:426-454`, `666-762`, `r2presign.ts`) | device keys | throttle, store a key, sign a URL | bounded per address and device |
| **Input bounds** (`index.ts:267-378`, `limits.ts`, worker `main.py:162-342`) | none | accept or refuse a payload | the edge accepts only what the worker accepts |
| **GPU worker** (`apps/gpu-worker/src/main.py`) | semaphore, quarantine flag | process, terminate, serve a file | one heavy pipeline at a time; refuses when quarantined |
| **Render pipeline** (`model_manager.py`, `audio_service.py`, `tts_service.py`, `asr_service.py`) | temporary files, final files | download, ASR, translate, TTS, separate, mix, watermark, clean up | nothing intermediate outlives a job; reported steps really ran |
| **Audio engine** (`audio_engine.py`), **timecodes** | final files on disk | tempo chain, fit, mix, sweep | speed stays in range; no clip is silently lost |
| **Translation** (`translation_service.py`) | segments | translate, merge, self-review | ids and timings never change; review never worsens pacing |
| **Client** (`apps/client/src/App.tsx`, `lib/transport.ts`) | current job, poll token, stored job id | register, submit, poll, resume, reset, download | a stale poll never overwrites the current job |
| **Desktop shell** (`apps/client/src-tauri/src/main.rs`) | temporary files | extract, mux, save, clean up | a failed run leaves no file |
| **Signing** (`packages/crypto-utils`), **UI** | — | — | out of scope: cryptography, rendering |

How they interact: a producer calls the durable object (RPC), KV and the queue;
the queue calls the consumer; the consumer calls the durable object, KV and the
GPU worker; the durable object writes KV; the client only reads KV, through the
poll endpoint. KV is therefore written by four parties, two of them (a late
projection, a second consumer) at moments nobody chose. The hard behaviours are
the ones listed in `PROJECT.json` under "hazards": the two-await operations of the
durable object, crashes between store, send and mark, duplicate delivery during
a render of minutes, a lease as long as the render, a retry budget shorter than
the lease, and error paths that fall into the wrong `catch`.

## Modules

| Module | Models |
|---|---|
| `JobRecord` | the stored record and what each operation of the durable object decides and writes, as pure operators |
| `JobLifecycle` | abstract: the life of a job as everyone outside sees it |
| `JobCoordinator` (+ `MCJobCoordinator`) | the durable object alone, with its outstanding KV projections; implements `JobLifecycle` |
| `JobDispatch` (+ `MCJobDispatch`) | producers, durable object, queue, consumers, KV and worker together, for one job; the record changes only through the operators of `JobRecord` |
| `KvThrottle` (+ `MCKvThrottle`) | the device quota over a KV counter |
| `KillSwitch` | the admin endpoint, the billing monitor, the flag at each edge |
| `DeviceAccess` (+ `MCDeviceAccess`) | extends `KillSwitch`: keys and registration on the client, the checks before register, presign and create on the gateway |
| `GpuWorker` | the worker process: semaphore, quarantine flag, final tracks |
| `JobResults` (+ `MCJobResults`) | instantiates `GpuWorker`: the legacy create path and its background dispatches, result and status keys, poll, download |
| `ClientJob` (+ `MCClientJob`) | the desktop client's handlers, from picking a video to saving the dub |
| `JobRecord_proofs` | lemmas about the record's operators |
| `JobCoordinator_proofs`, `JobDispatch_proofs`, `JobDispatch_render_proofs`, `KvThrottle_proofs`, `DeviceAccess_proofs`, `JobResults_proofs`, `ClientJob_proofs` | theorems about the module each is named after |

### JobRecord, JobCoordinator

`record` is `storage`, `kv` the status under `job:<device>:<id>`, `projections`
the calls of `projectToKv` whose `KV_CACHE.put` has not finished. The runtime lets
a durable object run one operation's storage access at a time, so `storage.get`
through `storage.put` is one action (`Create`, `Transition`, `MarkEnqueued`,
`AcquireDispatch`). The put to KV that follows waits for another service, and other
calls run meanwhile: `LandProjection` and `FailProjection` take an outstanding one
in any order. `AcquireDispatch(now)` takes the caller's clock, which may lag.
Fields that decide nothing (identity, timestamps, meta) are left out; answers that
change nothing (repeat, noop, terminal, busy, errors) are the states where the
action is not enabled.

### JobDispatch

One action per await of `/api/jobs/create` (durable path) and of `handleJobQueue`
with `dispatchToWorker` inlined; the program counters `ppc` and `cpc` name the next
await.

| Code | Actions |
|---|---|
| create: peek / throttle / create / charge / send / mark | `PeekJob` (and the orphan heal, which goes straight to `send`), `ThrottleJob`, `CreateJob` + `ProjectCreated`, `ChargeQuota`, `SendMessage`, `ConfirmHandOff`, `ProducerFails` |
| queue | `Deliver`, `Redeliver` (a copy), `Ack`, `Retry`, dead-letter in `ReturnedState` |
| handleJobQueue before dispatch | `PeekAuthority`, `CheckProjection`, `HealAuthority`, `ClaimJob` + `ProjectClaim` |
| dispatchToWorker | `EnterDispatch`, `StartAttempt`, `WorkerAnswers`, `FetchThrows`, `StoreResult`, `HandleError`, `QuarantineWorker`, `SignalWorker`, `WriteVerdict` |
| handleJobQueue after dispatch | `ReadFinal`, `SyncAuthority` + `ProjectTransition` |
| exceptions, evictions | `ConsumerThrows` (to the attempt's catch, the heal's, or the handler's, by where the await is), `ConsumerCrashes` |
| a durable object whose caller is gone | `LandLate`: its `projectToKv` still lands (`late`, filled by `ProducerFails` and `ConsumerCrashes` through `OutlivedBy`) |

The worker is any answer at any time: 5xx, 4xx, success before or after the
too-fast floor, a network error, silence until the abort timer. Whether the
quota admits a request is left open here; `KvThrottle` says how it is decided.

Assumptions: the isolates' clocks agree; one KV location (a get sees the last put
that landed; the lag between edges is only modelled for the kill switch); KV keys outlive the run.
With `PromptSteps = TRUE` time passes only while a request to the worker, or a
terminate signal, is open: handler steps take no time beside a render of
minutes. That matters. The lease is exactly three abort timers
(`index.ts:1133-1134`), so with `PromptSteps = FALSE` a consumer that stalls
anywhere else for the rest of its lease is taken over while it still acts:
`OneRenderAtATime` fails, and two such consumers can both read the other's RETRYING
and ack. The code has no slack against it; the runs assume that no stall that
long happens outside the worker request.

`LatePuts` says whether a put to KV may outlive the caller that waits for it: the
durable object is not evicted with the isolate that called it, so its
`await this.projectToKv` (`coordinator.ts:119`, `199`) goes on. `dispatch_races` has it, the
other runs do not. `AcksOnlySettled` needs it FALSE. With two faults: a terminate request
outlasts the lease, a second delivery takes the job over and is lost while its claim is
projected, its redelivery finds the verdict that is now in KV and acks, though its best-effort heal throws,
and the DISPATCHING of the lost claim lands before the first handler reads its verdict back from KV
(`index.ts:1154`): it finds nothing to sync and acks.

### KvThrottle

`Check`, `CreateJob` and `Charge` are the get, the create and the put of one request;
the counter is an entry with an expiry that each put renews. `Concurrency` bounds the
overlap, which the code does not. `overlapped` is history: the requests that shared the
time between check and charge with another. `/api/auth/register` and `/api/uploads/presign` use the same
get, compare, put.

### KillSwitch, DeviceAccess

| Code | Actions |
|---|---|
| `POST /api/admin/kill-switch` | `OperatorCalls` over the three kinds of body |
| `kill-switch-monitor.mjs` | `MonitorReads`, `MonitorArms`, `MonitorFails` (refused, or the answer lost), `RestartMonitor` |
| KV replication | `Replicate`: an edge sees the flag now |
| boot effect (`App.tsx`), `keystore.ts` | `BootLoads`, `SaveKey`, `BootEnds`: a reload may fall between the store in IndexedDB and the two in localStorage |
| `register`, its answer | `Register`, `Registered` |
| `signPayload`, presign, create | `Sign` |
| the three handlers | `Gate` (`index.ts:427`, `458`, `667`), `Authenticate` (`432-440`, `462-494`, `671-726`), `Charge` (`441-448`, `728-738`), one chain for the three; `Work` is `RegisterDevice`, `MintUrls` or `AcceptJob`; `Forget` frees the request |
| the browser | `Reload`, `Evict` (drops IndexedDB, keeps localStorage) |

A key stands for a key pair. Turnstile, the replay window and the quota may refuse
anything; `KvThrottle` says how the quota is decided. The operator's calls, the
spending and the lag are unconstrained.

### GpuWorker, JobResults

A *call* is one request of one attempt to `/api/worker/process`. The worker is a
single asyncio loop, and its pipeline gives the loop away only while it awaits the
speech server, so the pipeline is `Acquire` (semaphore, sweep of old tracks, source
download) and `Finish` or `Fail` (everything after). `Receive` reads the quarantine flag before the semaphore, as the code
does: `terminate` changes nothing for a call that already waits. `Restart` loses
flag and requests and keeps the disk; `Age` is the passing of `WORKER_FINAL_TTL_S`,
and `aged` the tracks the next sweep removes or an earlier one has removed; `MaxAged`
bounds how often it passes. The temporary files of a run and their cleanup are not modelled.

| Code | Actions |
|---|---|
| create without bindings | `Arrive` (for a new job or one already asked for), `Peek`, `PutJob` |
| `background(dispatchToWorker)` | `StartDispatch`, `Answered`, `ConnectionLost`, `Publish`, `Announce`; `Evict` loses the isolate |
| timeout or fraud: `terminateWorker`, then the verdict | `Distrust` puts the quarantine key (`index.ts:1055`), `TerminateArrives` is the request reaching the worker (`1063`), `TerminateEnds` its end and the verdict (`968`, `1009`) |
| KV | `Expire`: the result key, written first, goes first |
| `GET /api/jobs/:jobId`, `/download` | `PollStatus` and `PollResult`, the two reads; `Downloadable` |

`JobDispatch` has `dispatchToWorker` await by await; here a failing verdict that no
terminate request precedes is written in the step that reaches it, `FAILED` stands for every verdict but DONE, and
what is added is a worker with a state of its own and several jobs on it. There is
one worker URL, and KV is one location: the lag between edges that FINALIZING is for is left
out, so that what remains is the order of the two keys. They expire only while no
dispatch runs (they live a day, a dispatch at most 45 minutes), but for one that waits
for a terminate request. The quarantine key's own expiry after a day is left out: the worker stays
quarantined.

### ClientJob

Every in-flight handler of `App.tsx` is a variable that holds what its closure
captured: `loops` (`pollJob`, whose token is current iff `owns`), `submit`
(`submitJob`), `extracting`, `picking`, `assembly` (`downloadAndMux`), `saving` (dialogs
the Save button opened). The guards are the `disabled` of the buttons and the early
returns. `server` is the gateway's verdict on a job, which the poll shows (or FINALIZING
instead of DONE); `Serve` moves it at any
time. Browser storage works: the `catch` of a failing `localStorage` write
(`App.tsx:56-62`) is left out. `Reload` keeps `stored` (localStorage), the temporary files and the server.
`FAILED` stands for every verdict but DONE; editing of subtitles and voices changes
only the payload and is left out.

## Runs

`X_Bug` definitions are mutants: the mistake a plausible edit of the code would make.
Each property of a passing run has one that breaks it under that run's own bounds.

| Run | Instance | Shows |
|---|---|---|
| `coordinator` | lease 3, time 6, lag 2, two outstanding projections per status; 240,079 states | `KvVerdictIsRecord`, `LeaseExclusion`, `OrphanOnce`, refinement of `JobLifecycle` |
| `dispatch_races` | 2 requests, 2 consumers, 3 messages, 1 fault, 3 attempts of 2 ticks, 1 retry, late puts; symmetric; 1.2 million states | `DoneHasResult`, `ChargedOnce`, `MarkProvesSend`, `OneRenderAtATime`, `AcceptedIsCarried`, `OnlyClaimsAndVerdicts`, `RegressNeedsCause` |
| `dispatch_recovery` | 1 request, 2 consumers, 2 messages, 2 faults, 2 attempts, fairness; 600,000 states | `AcksOnlySettled`, `LossNeedsFault`, `AcceptedSettles` |
| `dispatch_silent_loss` | 1 of each, 1 fault, max_retries 5 | violates `NoSilentLoss` (finding 1) |
| `dispatch_kv_regression` | 2 requests, no fault | violates `KvVerdictSticky` (finding 2) |
| `dispatch_quarantined` | 1 of each, 1 fault | violates `NoDispatchToQuarantined` (finding 3) |
| `throttle` | 6 requests, limit 2, window 2, time 5, overlap 3; 20,000 states | `QuietQuota`, `IdleWindowResets` |
| `throttle_refusal` | 4 requests, limit 2, window 3, one at a time | violates `RefusesOnlyOverQuota` (finding 4) |
| `access` | 2 edges, 1 request in flight, 2 keys, 2 devices, 2 reloads, threshold 1; 540,000 states | `ReadyDeviceCanSign`, `QuotaSpentByOwner`, `ClosedEdgesAdmitNobody`, `OnlyFalseDisarms`, `OverspendArms` |
| `results` | 2 requests (for one job or two), 2 attempts, 1 slot, 1 fault; 1.4 million states | `DoneTrackIsThere`, `FinalizingIsExpiry`, `JobsSettle` |
| `client` | 2 videos, 2 jobs, 1 poll per budget, 1 reload; 390,000 states | `ShownVerdictIsReal`, `RunningJobIsResumable`, `StatusTellsWork`, `SaveableOutputExists`, `OnlyAnEndForgets`, `StoredJobSettles` |
| `client_assembly` | the same, symmetric | violates `OutputMatchesJob` (finding 5) |

Deadlock is not checked: a request is answered, a queue drains and the bounded
clock stops; `AcceptedSettles`,
`JobsSettle` and `StoredJobSettles` are what exclude a stop that matters.

Why the bounds are enough. Two requests make every producer race, two
consumers every consumer race (a third only waits for the same lease); three
messages allow a heal, a duplicate and the original. One fault in `dispatch_races`
puts a failure into every race; two in `dispatch_recovery` allow a failure during
the recovery from another. The clock reaches a takeover: a lease is 6 (or 4)
ticks, time 9. `max_retries` 1 shows takeover and dead-lettering at a cost the
code's 5 would only multiply; `dispatch_silent_loss` uses 5. In `throttle` three requests at a time are the first number
where two can undo a third's count while a fourth comes alone. In `access` two
keys and two devices give a registration that is lost and tried again with a new key,
two edges an edge that lags; the gateway's handlers share nothing but the
registry, so one request at a time meets every change of it. In `results` two requests
are both a race for one job and two jobs contending for the slot, and two attempts a
retry that queues behind the render it gave up; one passing of the track lifetime separates old
tracks from fresh ones. In `client` two jobs are a
current and a replaced one; a second reload would only repeat the first, after which
memory is empty.

`AcksOnlySettled` and `LossNeedsFault` are checked with one request, because with two they
fail, for one reason: the create-projection of the first request, late, lands after the
second has sent the message (finding 2). Followed by a heal that throws it acks a job whose
verdict is in neither place; between a handler's write of the verdict and its read back
it turns the sync into an illegal edge, and the message is dead-lettered without any fault.
That there is no other reason is proved below.

Fairness (`FairSpec`): a handler once started runs on (isolates are scheduled; the
runtime ends an invocation only by an eviction, which is a fault), the queue
delivers what is ready, a render request ends because the abort timer
fires, and time passes. The terminate request (`index.ts:1063`) has no timer and goes to the
worker that was just found hung, so nothing makes it end: `SignalWorker` is outside the
fairness (`BoundedStep`). No fairness makes a fault or a duplicate occur.
`AcceptedSettles` is conditional on `faults = 0`, because with faults finding 1 is a
counterexample, and on `SignalsEnd`, because a terminate request that is never answered
holds back the verdict written after it. `ClientJob`: the resume effect runs, and a poll loop goes on because its
fetch has an answer or an error (it has no timeout, `App.tsx:336`: the webview ends it) and its timer fires; nothing is assumed of the
gateway or of the user. `DeviceAccess`: the monitor's loop runs (weak fairness) and its
arming calls do not fail for ever (strong fairness, because a failed call disables the
next until the spending is read again); nothing is assumed of the operator or of KV. `JobResults`: the
gateway's awaits end, the render request by the abort timer, and again not the terminate
request: `JobsSettle` excepts the jobs whose dispatch waits for one. Nothing is assumed
of the worker, which may hang for ever.

## Proofs

The proofs hold for every value of the constants that the named assumption in each
module admits; where a theorem needs more, it says so.

**`JobRecord_proofs`** has what both modules that use the record need: where an edge of
the transition table may lead, and that each operation writes a record.

**`JobCoordinator_proofs`**, for every lease length, clock lag and number of
outstanding projections:

- `TypeCorrect`, `VerdictMirrored`: the inductive invariant is
  `TypeOK /\ KvVerdictIsRecord`. The verdict clause must speak of outstanding
  projections as well as of KV: a put that lands takes its status from there. Its
  step rests on one fact, that while the record is alive no verdict is in KV or
  under way, so the transition that settles the job is the only source of one.
- `LeaseExclusive`: only `AcquireDispatch` changes the lease, and on a job in flight it
  does so when the old lease is at or before the caller's clock.
- `OrphanNeverAgain`: no edge of the transition table leads to QUEUED
  (`TransitionEdges`), and nothing resets `enqueued`.
- `LifecycleRefined`: each step maps to a step of `JobLifecycle` or leaves the status
  alone.

**`JobDispatch_proofs`**, for every number of requests, consumers, messages, attempts,
retries and faults. `TypeCorrect` needs `Handling`: a consumer that is not idle holds
a message, and a message that is ready has retries left. On top of that invariant:

- `ChargedAtMostOnce`: the charge belongs to the one request whose create made the
  record; while it is outstanding nothing has been charged.
- `MarkIsProof`: a producer that is about to confirm has sent, and nothing sent is unsent
  again.
- `DoneMeansResult`: wherever DONE is on its way (a verdict a consumer carries, a heal
  from KV, a projection), the result key is there already.
- `AcceptedCarried`: a request that is answered 202 saw a record, and while nothing fails the
  record's creator is on its way to the send, or has sent. A record that exists with
  nobody on that way and nothing sent takes a fault.

**`JobDispatch_render_proofs`** assumes `PromptSteps` (only the worker takes time; see
above what happens without it) and `MaxAttempts > 1`: the lease covers more than one
attempt (it is 3 in `index.ts:99`). With one attempt the lease and the abort timer end at
the same instant, and a takeover meets the request it replaces.

- `OneRender`. The invariant has two regimes. While the worker is not quarantined, at
  most one consumer is past its claim (`Own`) and the lease outlives what is left of its
  attempts (`Budget`): an attempt that is tried again was cut short by at least a tick,
  which is all the slack there is. Once the worker is quarantined nobody starts to render
  any more, and the consumers still in the attempt loop (`Loop`), at most one, only leave
  it.
- `ClaimsAndVerdicts`: RETRYING is in KV only while the consumer that wrote it has another
  attempt (`Final`), so nobody reads it back as a final status. Where the worker is
  quarantined the owner argument above is gone; what replaces it is that a consumer
  which may still write RETRYING is alone past its claim, with a lease that covers the
  attempts it has left (`Sole`). `Reached` adds that nobody is past the claim of a job that
  was never claimed, so a verdict is always a legal edge from DISPATCHING.
- `AcksSettle`, `LossesNeedFaults`, for any number of requests, under the proviso `OnTime`:
  once the queue has had a message of the job, no request is still to write its
  create-projection. The invariant (`CarryInv`) says who carries a job without a
  verdict: a message that waits, or is dead, or an invocation before or past its claim; and
  while nothing has failed, an invocation past its claim, or else the job is not in flight
  and a message waits or is being looked at, so that no busy answer can be the last one.
  It needs that a message is handled by one invocation at a time (`Held`).
  `AcksSettle`, also for one request, assumes `~LatePuts` besides, for the reason given above;
  the others hold with late puts (`LateInv`: only a fault leaves one).
- `AcksSettleOneRequest`, `LossNeedsFaultOneRequest` discharge the proviso for a job asked
  for once: the order of the request's own awaits gives it. The client asks once
  (`App.tsx:421`).
- `RegressesNeedCauses`: while nothing has failed and the worker is not quarantined, a verdict
  in KV that the durable object lacks is being carried there by the consumer that
  wrote it (`Standing`), whose lease still runs; so nobody else can claim, and nobody
  is left behind a claim to overwrite it. A late create-projection is what remains.

**`KvThrottle_proofs`**, for every limit and window. `IdleWindowFrees` rests on one
fact: a live counter was written when a job was created, a window before it expires.
`QuietQuotaHolds`, for any number of requests at once: a request that overlaps no other reads
a live counter that is at least the number of such requests charged in the window, since an
overlapping one can only write back what it read after the last of them was charged, plus one.
`OverlapQuota` assumes that two requests overlap at a time and says how far they overshoot, which
the code does not: a request that read k puts k + 1 over whatever was counted since. Its argument is a
potential: `Levels(k)` is twice the number of jobs a window can hold when the counter stands at k
and nobody is under way, `Stretch(a, b)` the same for two readings that differ, of which only
the lower counts in full.
The jobs of the window never exceed half of it, every put that charges a job raises it by
at least that job, and at the limit it is worth `Limit * (Limit + 3) / 2` jobs (`PairQuota`).

**`DeviceAccess_proofs`**, for every number of keys, devices, edges and requests.
`ReadyCanSign` needs what the client's storage says together: unless the browser dropped
something, a stored device id implies the stored keys and a registration of that very
key (`Stored`), and a client on its way to registration has no id yet (`Booting`).
`OwnerSpendsQuota`, `ClosedEdgesHold` and `FalseDisarms` follow the stages of a request and
the calls of the switch.

**`JobResults_proofs`**, for every number of jobs, attempts and slots. `TrackIsThere`
needs that the attempts a dispatch has not reached are unsent (`Ahead`), and that a
call that is done left its track (`Tracks`). `FinalizingMeansExpired` needs that a dispatch
about to announce, a job that is DONE and a poll between its reads all have had a
result (`Announced`), which nothing takes back but its expiry.

**`ClientJob_proofs`**, for every number of videos, jobs, polls and reloads. All six
theorems use one invariant, and its two other parts are facts the code does not state:
page 3 is entered only by a submission that ends or by the resume effect, so no
extraction or submission runs behind it (`ByStep`); and the token admits one polling loop,
which follows the job on the page until its verdict (`ByLoop`).

Only model-checked:

- `AcceptedSettles`, `JobsSettle`, `StoredJobSettles`, `OverspendArms`: liveness under
  fairness is beyond the proof system.
- What the `violation` runs refute.

## Findings

1. **A lost consumer loses the job** (`index.ts:1143`, `wrangler.toml:47`). A delivery
   that finds a fresh lease retries at once; the lease lasts 45 minutes by default
   and five immediate retries do not. When the owner was evicted, or its claim was
   stored and the projection of it threw (`coordinator.ts:199`), the message ends
   in `job-dispatch-dlq`, which nothing consumes, with the record DISPATCHING and
   `enqueued`: neither redelivery nor the orphan heal can reach it. The code
   says (`index.ts:1088-1091`) a job "can never be silently lost".
2. **KV goes from a verdict back to QUEUED** (`coordinator.ts:119`). The projection of
   `create` may land after a resent request's message has been rendered. The poll
   reads KV (the ADR says it reads the durable object), so the client sees a
   finished job as queued. A handler that reads it back after its own verdict cannot sync it
   (`index.ts:1154`): the message is retried until it is dead-lettered, though nothing
   failed. `RegressNeedsCause` and `LossNeedsFault` say that this is the only way without a
   fault or a quarantined worker.
3. **A quarantined worker is sent the same job again** (`index.ts:968`). The write of
   REJECTED_FRAUD sits in the attempt's `try`; if it throws, the `catch` takes it
   for a network error, and the quarantine key was read before the loop.
4. **The quota window never closes under steady use** (`index.ts:600`). Each charge
   renews the counter's lifetime.
5. **A page can offer, and save, another job's dub** (`App.tsx:553`). `downloadAndMux` is not
   tied to its job: Start over during the mux, then a new job, and the late answer
   sets `outputVideoPath` on the new job's page. The video is taken from the picker
   when the button is pressed (`App.tsx:535`), and a dialog opened before a submission may
   change it meanwhile. The comment at `App.tsx:528` and `tauri.ts:48` say the
   downloaded dub is put on the original video.

Divergences without a run of their own:

- The loser of a create race is answered 202 before the winner has sent anything
  (`index.ts:585-598`).
- The ADR (line 73) has the consumer return transient failures to the queue where the
  code retries inside one delivery.
- `main.py:354` reads the quarantine flag before the wait for the semaphore, so a call
  that waits is rendered after a terminate; and a healthy worker whose slot is busy for
  the length of the abort timer is quarantined (`docs/CODE_REVIEW.md:601` speaks of a
  hung one).
- Start over with an assembly or a save dialog in flight leaves the muxed file in the
  temporary directory: `resetAll` removes only the path it knows.
- Picking another video forgets `audioInfo` before the extracted audio is cleaned up.
- After a resume `videoPath` is null and step 1 is out of reach but through
  `resetAll`, which forgets the finished job (`App.tsx:535`).
- When the browser drops IndexedDB and keeps localStorage, boot makes a new key and keeps
  the old device id (`App.tsx:198-217`): after registering again all is well, but
  a reload before that is READY with an id whose registered key is another, and every
  signature fails. `ReadyDeviceCanSign` excludes it by `evicted`.
- A create whose answer was lost is submitted again under a new id (`App.tsx:421`): a
  second charge and a second render; the gateway's idempotency is per id.
- The monitor ends after arming (`kill-switch-monitor.mjs`); a manual clear is not
  followed by another arming until it is restarted.
- The quota is a read and a later write (`index.ts:577`, `600`), so requests of one device that
  overlap create more than "max NEW jobs per device per window" (`index.ts:56`, `79`): with a
  limit of 2, up to five in a window when two overlap (`OverlapQuota`), and the more the more
  overlap. `QuietQuota` says what is left of the limit.
- FINALIZING "only fires on cross-PoP eventual-consistency lag, never on a genuinely finished
  job" (`index.ts:783-784`), but the result key is written before the status and both live a
  day (`index.ts:1001`, `1027`): a poll in between finds a finished job FINALIZING until its status
  expires too. `FinalizingIsExpiry` says that nothing else does.
- A terminate request that is never answered (`index.ts:1063`, no `AbortController`) keeps
  TERMINATED_TIMEOUT from being written (`index.ts:1009`): the job of a
  hung worker keeps the status it had.
- A pipeline step that fails while it writes leaves what it had not yet returned: the
  Demucs directory (`audio_engine.py:94-139`), the extracted audio, a partial mix; the
  comment at `model_manager.py:190-197` says all intermediates are tracked.

## Not modelled

Input bounds (`limits.ts`, `main.py:162-342`) and timecodes: comparisons of one payload
with constants and two parsers, which unit tests enumerate; no state. Translation
and self-review, the tempo chain, the fit and the mix: sequential text and signal
processing around a language model and floats. What each pipeline step does to audio, its temporary files and their cleanup
(`model_manager.py:190-197`, `399`). Signatures, URL signing and the canonical JSON:
cryptography and encodings. The desktop shell's internals (path checks, ffmpeg
processes): its commands appear in `ClientJob` as steps that succeed or fail. The
worker's staging upload, which has no caller; components that only render; build and
provisioning scripts.
