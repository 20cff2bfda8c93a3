------------------------------ MODULE GpuWorker ------------------------------
(***************************************************************************)
(* The GPU worker process (apps/gpu-worker/src/main.py, model_manager.py,  *)
(* audio_engine.py): one event loop, a semaphore around the pipeline, the  *)
(* quarantine flag, and the final tracks the pipeline leaves.              *)
(*                                                                         *)
(* The pipeline gives the loop away only while it awaits the speech        *)
(* server: what it does before that (sweep, download, translation) and     *)
(* after it (separation, mix, watermark, cleanup) is one step each.        *)
(***************************************************************************)
EXTENDS Naturals, FiniteSets

CONSTANTS
  Calls,         \* requests to /api/worker/process
  Slots,         \* WORKER_MAX_CONCURRENT_JOBS
  MaxAged,       \* bound: how many tracks must be old before no more time passes
  MaxFaults      \* bound

VARIABLES
  call,          \* [Calls -> where the request is]
  flagged,       \* WORKER_STATE["quarantined"]
  finals,        \* calls with a final track on disk
  aged,          \* calls whose track is, or was, older than WORKER_FINAL_TTL_S
  restarts

workerVars == <<call, flagged, finals, aged, restarts>>

CallState == {"unsent", "sent", "waiting", "speaking", "done", "failed", "refused"}

WorkerTypeOK ==
  /\ call \in [Calls -> CallState]
  /\ flagged \in BOOLEAN
  /\ finals \subseteq Calls /\ aged \subseteq Calls
  /\ restarts \in 0..MaxFaults

WorkerInit ==
  /\ call = [c \in Calls |-> "unsent"]
  /\ flagged = FALSE
  /\ finals = {} /\ aged = {}
  /\ restarts = 0

InPipeline == {c \in Calls : call[c] = "speaking"}
Goes(c, from, to) == call[c] = from /\ call' = [call EXCEPT ![c] = to]

\* verify_gateway_jwt, the quarantine flag, the payload's validation.
Receive(c) ==
  /\ Goes(c, "sent", "refused") \/ (~flagged /\ Goes(c, "sent", "waiting"))
  /\ UNCHANGED <<flagged, finals, aged, restarts>>

\* A free slot: the pipeline sweeps old final tracks, then fetches the source.
Acquire(c) ==
  /\ Cardinality(InPipeline) < Slots
  /\ Goes(c, "waiting", "speaking")
  /\ finals' = finals \ aged
  /\ UNCHANGED <<flagged, aged, restarts>>

Finish_Bug(c) ==               \* without a watermark the result is the mix, and cleaned up
  /\ Goes(c, "speaking", "done")
  /\ finals' \in {finals, finals \cup {c}}
  /\ UNCHANGED <<flagged, aged, restarts>>

\* The answer names the final track, which the cleanup spares.
Finish(c) ==
  /\ Goes(c, "speaking", "done")
  /\ finals' = finals \cup {c}
  /\ UNCHANGED <<flagged, aged, restarts>>

\* Any step may raise: 500, or 422 for audio that does not match its md5.
Fail(c) ==
  /\ Goes(c, "speaking", "failed") \/ Goes(c, "speaking", "refused")
  /\ UNCHANGED <<flagged, finals, aged, restarts>>

\* From here on new requests are refused; those in the pipeline go on.
terminate == flagged' = TRUE /\ UNCHANGED <<call, finals, aged, restarts>>

Age ==                         \* WORKER_FINAL_TTL_S passes
  /\ Cardinality(aged) < MaxAged
  /\ finals \ aged # {} /\ aged' = aged \cup finals
  /\ UNCHANGED <<call, flagged, finals, restarts>>

\* The process dies and comes back: no flag, no requests; the disk stays.
Restart ==
  /\ restarts < MaxFaults /\ restarts' = restarts + 1
  /\ flagged' = FALSE
  /\ call' = [c \in Calls |->
       IF call[c] \in {"sent", "waiting", "speaking"} THEN "failed" ELSE call[c]]
  /\ UNCHANGED <<finals, aged>>

Pipeline(c) == Receive(c) \/ Acquire(c) \/ Finish(c)
=============================================================================
