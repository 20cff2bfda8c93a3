----------------------------- MODULE KvThrottle ------------------------------
(***************************************************************************)
(* The per-device quota of new jobs (apps/gateway/src/index.ts): a counter *)
(* under one KV key, read before a job is created and put back, with its   *)
(* lifetime renewed, after.  /api/auth/register and /api/uploads/presign   *)
(* throttle with the same get, compare, put on keys of their own.          *)
(*                                                                         *)
(* A request takes no time beside the window; up to Concurrency requests   *)
(* of one device overlap.  A request that fails between its create and its *)
(* charge, and leaves a job nobody counted, is module JobDispatch's.       *)
(***************************************************************************)
EXTENDS Integers, FiniteSets

CONSTANTS
  Requests,     \* requests for jobs nobody has asked for before
  Limit,        \* JOBS_RATE_LIMIT
  Window,       \* JOBS_WINDOW_S
  Concurrency,  \* bound: requests between their check and their charge; the
                \* code has none
  MaxTime       \* bound: the clock stops here

ASSUME ConstantsAssumption ==
  /\ IsFiniteSet(Requests)
  /\ Limit \in Nat \ {0}
  /\ Window \in Nat \ {0}
  /\ Concurrency \in Nat \ {0}
  /\ MaxTime \in Nat

VARIABLES
  now,
  counter,      \* the KV entry: count, and when it expires
  pc,           \* [Requests -> next await]
  saw,          \* [Requests -> jobsCount, as read]
  createdAt,    \* [Requests -> when its job was created; Never if not]
  overlapped    \* history, read by no action: requests that were under way
                \* together with another one

vars == <<now, counter, pc, saw, createdAt, overlapped>>

Never == -1

TypeOK ==
  /\ now \in Nat
  /\ counter \in [count : 0..Limit, expires : Nat]
  /\ pc \in [Requests -> {"idle", "create", "charge", "accepted", "rejected"}]
  /\ saw \in [Requests -> 0..Limit - 1]
  /\ createdAt \in [Requests -> Nat \cup {Never}]
  /\ overlapped \subseteq Requests

Init ==
  /\ now = 0
  /\ counter = [count |-> 0, expires |-> 0]
  /\ pc = [r \in Requests |-> "idle"]
  /\ saw = [r \in Requests |-> 0]
  /\ createdAt = [r \in Requests |-> Never]
  /\ overlapped = {}

Active == {r \in Requests : pc[r] \in {"create", "charge"}}

\* What KV_CACHE.get returns: an expired entry is gone.
JobsCount == IF now < counter.expires THEN counter.count ELSE 0

Admits_Bug == JobsCount <= Limit   \* off by one

Admits == JobsCount < Limit

\* Request r joins the ones under way.
Overlap(r) ==
  overlapped' = IF Active = {} THEN overlapped ELSE overlapped \cup Active \cup {r}

Check_Bug(r) ==                    \* a rejection renews the window too
  /\ pc[r] = "idle"
  /\ Cardinality(Active) < Concurrency
  /\ \/ /\ Admits
        /\ saw' = [saw EXCEPT ![r] = JobsCount]
        /\ pc' = [pc EXCEPT ![r] = "create"]
        /\ Overlap(r)
        /\ UNCHANGED counter
     \/ /\ ~Admits
        /\ pc' = [pc EXCEPT ![r] = "rejected"]
        /\ counter' = [counter EXCEPT !.expires = now + Window]
        /\ UNCHANGED <<saw, overlapped>>
  /\ UNCHANGED <<now, createdAt>>

\* The throttle check; a 429 changes nothing.
Check(r) ==
  /\ pc[r] = "idle"
  /\ Cardinality(Active) < Concurrency
  /\ \/ /\ Admits
        /\ saw' = [saw EXCEPT ![r] = JobsCount]
        /\ pc' = [pc EXCEPT ![r] = "create"]
        /\ Overlap(r)
     \/ /\ ~Admits
        /\ pc' = [pc EXCEPT ![r] = "rejected"]
        /\ UNCHANGED <<saw, overlapped>>
  /\ UNCHANGED <<now, counter, createdAt>>

\* coordinatorCreate: the job is new.
CreateJob(r) ==
  /\ pc[r] = "create"
  /\ pc' = [pc EXCEPT ![r] = "charge"]
  /\ createdAt' = [createdAt EXCEPT ![r] = now]
  /\ UNCHANGED <<now, counter, saw, overlapped>>

Charge_Bug(r) ==                   \* a later charge keeps the first one's window
  /\ pc[r] = "charge"
  /\ pc' = [pc EXCEPT ![r] = "accepted"]
  /\ counter' = [count |-> saw[r] + 1,
                 expires |-> IF now < counter.expires THEN counter.expires ELSE now + Window]
  /\ UNCHANGED <<now, saw, createdAt, overlapped>>

\* The count read before the create, plus one, for a whole new window.
Charge(r) ==
  /\ pc[r] = "charge"
  /\ pc' = [pc EXCEPT ![r] = "accepted"]
  /\ counter' = [count |-> saw[r] + 1, expires |-> now + Window]
  /\ UNCHANGED <<now, saw, createdAt, overlapped>>

Tick ==
  /\ now < MaxTime
  /\ Active = {}
  /\ now' = now + 1
  /\ UNCHANGED <<counter, pc, saw, createdAt, overlapped>>

Next ==
  \/ \E r \in Requests : Check(r) \/ CreateJob(r) \/ Charge(r)
  \/ Tick

Spec == Init /\ [][Next]_vars

-----------------------------------------------------------------------------
(* Properties *)

\* The jobs created in the window that ends now.
Recent == {r \in Requests : createdAt[r] # Never /\ createdAt[r] > now - Window}

\* JOBS_RATE_LIMIT as far as the code keeps it, for any number of requests at
\* once: of the jobs of a window, those whose request shared the time between
\* its check and its charge with no other are within the limit, whatever counts
\* overlapping requests wrote back in between.
QuietQuota == Cardinality(Recent \ overlapped) <= Limit

\* A device that created nothing for a whole window is free again: neither
\* rejections nor lost updates keep the counter alive.
IdleWindowResets == Recent = {} /\ Active = {} => JobsCount = 0

\* index.ts:79 (and 75-78): a quota of new jobs per window.  A request is refused
\* only when the window really holds Limit new jobs.
RefusesOnlyOverQuota ==
  [][\A r \in Requests :
       pc[r] # "rejected" /\ pc'[r] = "rejected" => Cardinality(Recent) >= Limit]_vars
=============================================================================
