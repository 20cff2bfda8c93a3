-------------------------- MODULE KvThrottle_proofs --------------------------
(***************************************************************************)
(* Proofs about the quota counter, for every limit, window and number of   *)
(* requests.  What holds of it rests on one fact: while the entry is alive *)
(* it was written when some job was created, a window before it expires.   *)
(***************************************************************************)
EXTENDS KvThrottle, FiniteSetTheorems, TLAPS

LEMMA TypeStep == TypeOK /\ [Next]_vars => TypeOK'
<1> SUFFICES ASSUME TypeOK, [Next]_vars PROVE TypeOK'
  OBVIOUS
<1> USE ConstantsAssumption DEF TypeOK
<1>1. ASSUME NEW r \in Requests, Check(r) PROVE TypeOK'
  <2>1. CASE Admits
    <3>1. JobsCount \in 0..Limit - 1
      BY <2>1 DEF Admits, JobsCount
    <3>2. overlapped' \subseteq Requests
      BY <1>1, <2>1 DEF Check, Overlap, Active
    <3> QED BY <1>1, <2>1, <3>1, <3>2 DEF Check
  <2>2. CASE ~Admits
    BY <1>1, <2>2 DEF Check
  <2> QED BY <2>1, <2>2
<1>2. ASSUME NEW r \in Requests, CreateJob(r) PROVE TypeOK'
  BY <1>2 DEF CreateJob
<1>3. ASSUME NEW r \in Requests, Charge(r) PROVE TypeOK'
  <2>1. saw[r] + 1 \in 0..Limit /\ now + Window \in Nat
    OBVIOUS
  <2> QED BY <1>3, <2>1 DEF Charge
<1>4. CASE Tick
  BY <1>4 DEF Tick
<1>5. CASE UNCHANGED vars
  BY <1>5 DEF vars
<1> QED BY <1>1, <1>2, <1>3, <1>4, <1>5 DEF Next

\* The counter never exceeds the limit, nor a request's reading of it.
THEOREM TypeCorrect == Spec => []TypeOK
<1>1. Init => TypeOK
  BY ConstantsAssumption DEF Init, TypeOK
<1> QED BY <1>1, TypeStep, PTL DEF Spec

-----------------------------------------------------------------------------
\* A request between its first and last step belongs to this instant; before
\* CreateJob it has no job.
InFlightIsNow ==
  \A r \in Requests :
    /\ pc[r] \in {"idle", "create", "rejected"} => createdAt[r] = Never
    /\ pc[r] = "charge" => createdAt[r] = now
    /\ createdAt[r] <= now

\* The entry was written by the charge of some job, a window before it expires.
CounterHasJob ==
  counter.expires > 0 =>
    \E r \in Requests : createdAt[r] # Never /\ createdAt[r] + Window = counter.expires

LEMMA InFlightStep == TypeOK /\ InFlightIsNow /\ [Next]_vars => InFlightIsNow'
<1> SUFFICES ASSUME TypeOK, InFlightIsNow, [Next]_vars, NEW q \in Requests
             PROVE  /\ pc'[q] \in {"idle", "create", "rejected"} => createdAt'[q] = Never
                    /\ pc'[q] = "charge" => createdAt'[q] = now'
                    /\ createdAt'[q] <= now'
  BY DEF InFlightIsNow
<1> USE DEF TypeOK, InFlightIsNow, Never
<1>1. ASSUME NEW r \in Requests, Check(r) \/ CreateJob(r) \/ Charge(r)
      PROVE  /\ pc'[q] \in {"idle", "create", "rejected"} => createdAt'[q] = Never
             /\ pc'[q] = "charge" => createdAt'[q] = now'
             /\ createdAt'[q] <= now'
  BY <1>1 DEF Check, CreateJob, Charge
<1>2. CASE Tick
  BY <1>2 DEF Tick, Active
<1>3. CASE UNCHANGED vars
  BY <1>3 DEF vars
<1> QED BY <1>1, <1>2, <1>3 DEF Next

LEMMA CounterStep ==
  TypeOK /\ InFlightIsNow /\ CounterHasJob /\ [Next]_vars => CounterHasJob'
<1> SUFFICES ASSUME TypeOK, InFlightIsNow, CounterHasJob, [Next]_vars, counter'.expires > 0
             PROVE  \E r \in Requests : createdAt'[r] # Never
                                          /\ createdAt'[r] + Window = counter'.expires
  BY DEF CounterHasJob
<1> USE ConstantsAssumption DEF TypeOK, Never
<1>1. ASSUME NEW r \in Requests, Charge(r)
      PROVE  createdAt'[r] # Never /\ createdAt'[r] + Window = counter'.expires
  BY <1>1 DEF Charge, InFlightIsNow
<1>2. ASSUME counter' = counter,
             \A r \in Requests : createdAt[r] # Never => createdAt'[r] = createdAt[r]
      PROVE  \E r \in Requests : createdAt'[r] # Never
                                   /\ createdAt'[r] + Window = counter'.expires
  BY <1>2 DEF CounterHasJob
<1>3. ASSUME NEW r \in Requests, CreateJob(r)
      PROVE  \A q \in Requests : createdAt[q] # Never => createdAt'[q] = createdAt[q]
  BY <1>3 DEF CreateJob, InFlightIsNow
<1> QED BY <1>1, <1>2, <1>3 DEF Next, Check, CreateJob, Tick, vars

\* However requests overlap, and whatever was refused meanwhile, a device that
\* created nothing for a whole window finds its quota untouched.
THEOREM IdleWindowFrees == Spec => []IdleWindowResets
<1> DEFINE Inv == TypeOK /\ InFlightIsNow /\ CounterHasJob
<1>1. Init => Inv
  BY ConstantsAssumption DEF Init, TypeOK, InFlightIsNow, CounterHasJob, Never
<1>2. Inv /\ [Next]_vars => Inv'
  BY TypeStep, InFlightStep, CounterStep
<1>3. Inv => IdleWindowResets
  BY ConstantsAssumption
     DEF TypeOK, CounterHasJob, IdleWindowResets, JobsCount, Recent, Never
<1> QED BY <1>1, <1>2, <1>3, PTL DEF Spec

-----------------------------------------------------------------------------
(* Jobs whose request overlapped no other: the quota is exact.             *)

\* The jobs of the window whose request has charged for them, and those of
\* them whose request was alone.
Charged == Recent \ Active
QuietJobs == Charged \ overlapped

\* The entry outlives the window of every job charged to it.  It, and every
\* reading of it a request still holds, counts at least the quiet jobs of that
\* window: what a slow request will write back is no less.
CountsQuiet ==
  /\ \A r \in Active : r \notin overlapped => Active = {r}
  /\ \A r \in Requests \ Active :
       createdAt[r] # Never => createdAt[r] + Window <= counter.expires
  /\ \A r \in Active : Cardinality(QuietJobs) <= saw[r]
  /\ Cardinality(QuietJobs) <= JobsCount

QuietInv == TypeOK /\ InFlightIsNow /\ CountsQuiet

LEMMA SetsFinite ==
  /\ IsFiniteSet(Recent) /\ Cardinality(Recent) \in Nat
  /\ IsFiniteSet(Active) /\ Cardinality(Active) \in Nat
  /\ IsFiniteSet(Charged) /\ Cardinality(Charged) \in Nat
  /\ IsFiniteSet(QuietJobs) /\ Cardinality(QuietJobs) \in Nat
<1>1. Recent \in SUBSET Requests /\ Active \in SUBSET Requests
         /\ Charged \in SUBSET Requests /\ QuietJobs \in SUBSET Requests
  BY DEF Recent, Active, Charged, QuietJobs
<1> QED BY <1>1, FS_Subset, FS_CardinalityType, ConstantsAssumption

\* A set within a finite set and one more element has at most one more.
LEMMA AtMostOneMore ==
  ASSUME NEW T, IsFiniteSet(T), NEW r, NEW S \in SUBSET (T \cup {r})
  PROVE  Cardinality(S) \in Nat /\ Cardinality(S) <= Cardinality(T) + 1
<1>1. IsFiniteSet(T \cup {r}) /\ Cardinality(T \cup {r}) <= Cardinality(T) + 1
  <2>1. Cardinality(T) \in Nat
    BY FS_CardinalityType
  <2>2. IsFiniteSet(T \cup {r})
    BY FS_AddElement
  <2>3. Cardinality(T \cup {r})
          = IF r \in T THEN Cardinality(T) ELSE Cardinality(T) + 1
    BY FS_AddElement
  <2> QED BY <2>1, <2>2, <2>3
<1>2. IsFiniteSet(S) /\ Cardinality(S) <= Cardinality(T \cup {r})
  BY <1>1, FS_Subset
<1>3. Cardinality(S) \in Nat /\ Cardinality(T \cup {r}) \in Nat /\ Cardinality(T) \in Nat
  BY <1>1, <1>2, FS_CardinalityType
<1> QED BY <1>1, <1>2, <1>3

LEMMA OneMore ==
  ASSUME NEW r, NEW S \in SUBSET (Charged \cup {r})
  PROVE  Cardinality(S) \in Nat /\ Cardinality(S) <= Cardinality(Charged) + 1
BY SetsFinite, AtMostOneMore

LEMMA CountsQuietStep ==
  ASSUME QuietInv, [Next]_vars PROVE CountsQuiet'
<1> USE ConstantsAssumption DEF QuietInv, TypeOK, Never
<1>count. JobsCount \in 0..Limit
  BY DEF JobsCount
<1>fewer. ASSUME QuietJobs' \in SUBSET QuietJobs
          PROVE  Cardinality(QuietJobs') \in Nat /\ Cardinality(QuietJobs') <= Cardinality(QuietJobs)
  BY <1>fewer, SetsFinite, FS_Subset, FS_CardinalityType
<1>1. ASSUME NEW r \in Requests, Check(r), Admits PROVE CountsQuiet'
  <2>1. /\ createdAt' = createdAt /\ counter' = counter /\ now' = now
        /\ Active' = Active \cup {r} /\ r \notin Active
    BY <1>1 DEF Check, Active
  <2>2. /\ JobsCount' = JobsCount /\ Recent' = Recent /\ saw'[r] = JobsCount
        /\ \A q \in Active : saw'[q] = saw[q]
    BY <1>1, <2>1 DEF Check, JobsCount, Active, Recent
  <2>3. overlapped' = IF Active = {} THEN overlapped ELSE overlapped \cup Active \cup {r}
    BY <1>1 DEF Check, Overlap
  <2>4. QuietJobs' \in SUBSET QuietJobs
    BY <2>1, <2>2, <2>3 DEF QuietJobs, Charged
  <2>5. Cardinality(QuietJobs') \in Nat /\ Cardinality(QuietJobs') <= Cardinality(QuietJobs)
    BY <2>4, <1>fewer
  <2>6. \A q \in Active' : q \notin overlapped' => Active' = {q}
    BY <2>1, <2>3
  <2>7. \A q \in Active' : Cardinality(QuietJobs') <= saw'[q]
    <3>1. \A q \in Active' : saw'[q] \in Nat /\ Cardinality(QuietJobs) <= saw'[q]
      BY <1>count, <2>1, <2>2 DEF CountsQuiet, Active
    <3> QED BY <2>5, <3>1, SetsFinite
  <2>8. Cardinality(QuietJobs') <= JobsCount'
    BY <1>count, <2>2, <2>5, SetsFinite DEF CountsQuiet
  <2>9. \A q \in Requests \ Active' : createdAt'[q] # -1 => createdAt'[q] + Window <= counter'.expires
    BY <2>1 DEF CountsQuiet
  <2> QED BY <2>6, <2>7, <2>8, <2>9 DEF CountsQuiet
<1>2. ASSUME NEW r \in Requests, Check(r), ~Admits PROVE CountsQuiet'
  <2>1. UNCHANGED <<now, counter, saw, createdAt, overlapped>> /\ Active' = Active
    BY <1>2 DEF Check, Active
  <2>2. JobsCount' = JobsCount /\ QuietJobs' = QuietJobs
    BY <2>1 DEF JobsCount, QuietJobs, Charged, Recent
  <2> QED BY <2>1, <2>2 DEF CountsQuiet
<1>3. ASSUME NEW r \in Requests, CreateJob(r) PROVE CountsQuiet'
  <2>1. /\ JobsCount' = JobsCount /\ Active' = Active /\ saw' = saw /\ counter' = counter
        /\ overlapped' = overlapped /\ r \in Active
    BY <1>3 DEF CreateJob, JobsCount, Active
  <2>2. QuietJobs' = QuietJobs
    BY <1>3, <2>1 DEF CreateJob, QuietJobs, Charged, Recent
  <2> QED BY <1>3, <2>1, <2>2 DEF CountsQuiet, CreateJob
<1>4. ASSUME NEW r \in Requests, Charge(r) PROVE CountsQuiet'
  <2>1. /\ r \in Active /\ Active' = Active \ {r} /\ saw' = saw /\ Recent' = Recent
        /\ overlapped' = overlapped /\ JobsCount' = saw[r] + 1 /\ saw[r] \in Nat
    BY <1>4 DEF Charge, Active, Recent, JobsCount
  <2>2. QuietJobs' \in SUBSET (QuietJobs \cup {r})
    BY <2>1 DEF QuietJobs, Charged
  <2>3. Cardinality(QuietJobs') \in Nat /\ Cardinality(QuietJobs') <= Cardinality(QuietJobs) + 1
    BY <2>2, SetsFinite, AtMostOneMore
  <2>4. Cardinality(QuietJobs') <= JobsCount'
    BY <2>1, <2>3, SetsFinite DEF CountsQuiet
  <2>5. ASSUME NEW q \in Active' PROVE Cardinality(QuietJobs') <= saw'[q]
    \* Another request is under way, so r's job is not a quiet one.
    <3>1. q \in Active /\ q # r /\ saw[q] \in Nat
      BY <2>1, <2>5 DEF Active
    <3>2. r \in overlapped
      BY <2>1, <3>1 DEF CountsQuiet
    <3>3. QuietJobs' \in SUBSET QuietJobs
      BY <2>1, <3>2 DEF QuietJobs, Charged
    <3>4. Cardinality(QuietJobs') \in Nat /\ Cardinality(QuietJobs') <= Cardinality(QuietJobs)
      BY <3>3, <1>fewer
    <3> QED BY <2>1, <3>1, <3>4, SetsFinite DEF CountsQuiet
  <2>6. ASSUME NEW q \in Requests, createdAt'[q] # Never
        PROVE  createdAt'[q] + Window <= counter'.expires
    BY <1>4, <2>6 DEF Charge, InFlightIsNow
  <2>7. \A q \in Active' : q \notin overlapped' => Active' = {q}
    BY <2>1 DEF CountsQuiet
  <2> QED BY <2>4, <2>5, <2>6, <2>7 DEF CountsQuiet
<1>5. CASE Tick
  <2>1. /\ Active = {} /\ Active' = {} /\ now' = now + 1
        /\ UNCHANGED <<counter, createdAt, overlapped>>
    BY <1>5 DEF Tick, Active
  <2>2. CASE now' < counter.expires
    <3>1. JobsCount' = JobsCount
      BY <2>1, <2>2 DEF JobsCount
    <3>2. QuietJobs' \in SUBSET QuietJobs
      BY <2>1 DEF QuietJobs, Charged, Recent
    <3>3. Cardinality(QuietJobs') \in Nat /\ Cardinality(QuietJobs') <= Cardinality(QuietJobs)
      BY <3>2, <1>fewer
    <3> QED BY <1>count, <2>1, <3>1, <3>3, SetsFinite DEF CountsQuiet
  <2>3. CASE ~(now' < counter.expires)
    <3>1. JobsCount' = 0
      BY <2>1, <2>3 DEF JobsCount
    <3>2. QuietJobs' = {}
      \* What the entry does not outlive is out of the window.
      BY <2>1, <2>3 DEF QuietJobs, Charged, Recent, CountsQuiet
    <3> QED BY <2>1, <3>1, <3>2, FS_EmptySet DEF CountsQuiet
  <2> QED BY <2>2, <2>3
<1>6. CASE UNCHANGED vars
  <2>1. JobsCount' = JobsCount /\ Active' = Active /\ QuietJobs' = QuietJobs
    BY <1>6 DEF vars, JobsCount, Active, QuietJobs, Charged, Recent
  <2> QED BY <1>6, <2>1 DEF vars, CountsQuiet
<1> QED BY <1>1, <1>2, <1>3, <1>4, <1>5, <1>6 DEF Next

\* For every limit, every window and any number of requests at once: at most
\* the limit of a window's new jobs come from requests that overlapped no
\* other, whatever the ones that did overlap wrote back.
THEOREM QuietQuotaHolds == Spec => []QuietQuota
<1>1. Init => QuietInv
  <2> SUFFICES ASSUME Init PROVE QuietInv
    OBVIOUS
  <2>1. Active = {} /\ QuietJobs = {} /\ JobsCount = 0
    BY ConstantsAssumption
       DEF Init, Active, QuietJobs, Charged, Recent, JobsCount, Never
  <2> QED BY <2>1, FS_EmptySet, ConstantsAssumption
          DEF Init, QuietInv, TypeOK, InFlightIsNow, CountsQuiet, Never
<1>2. QuietInv /\ [Next]_vars => QuietInv'
  BY TypeStep, InFlightStep, CountsQuietStep DEF QuietInv
<1>3. QuietInv => QuietQuota
  <2> SUFFICES ASSUME QuietInv PROVE Cardinality(Recent \ overlapped) <= Limit
    BY DEF QuietQuota
  <2> USE ConstantsAssumption DEF QuietInv, TypeOK
  <2>1. CASE \A r \in Active : r \in overlapped
    <3>1. QuietJobs = Recent \ overlapped
      BY <2>1 DEF QuietJobs, Charged
    <3> QED BY <3>1, SetsFinite DEF CountsQuiet, JobsCount
  <2>2. ASSUME NEW r \in Active, r \notin overlapped
        PROVE  Cardinality(Recent \ overlapped) <= Limit
    <3>1. Recent \ overlapped \in SUBSET (QuietJobs \cup {r})
      BY <2>2 DEF QuietJobs, Charged, CountsQuiet
    <3>2. /\ Cardinality(Recent \ overlapped) \in Nat
          /\ Cardinality(Recent \ overlapped) <= Cardinality(QuietJobs) + 1
      BY <3>1, SetsFinite, AtMostOneMore
    <3>3. Cardinality(QuietJobs) <= saw[r] /\ saw[r] \in 0..Limit - 1
      BY <2>2 DEF CountsQuiet, Active
    <3> QED BY <3>2, <3>3, SetsFinite
  <2> QED BY <2>1, <2>2
<1> QED BY <1>1, <1>2, <1>3, PTL DEF Spec

-----------------------------------------------------------------------------
(* Two overlapping requests: how far lost updates stretch the quota.  The  *)
(* slower of two sets the counter back from Limit to k + 1 after Limit - k *)
(* others, so a window can hold more than Limit new jobs: PairQuota is as  *)
(* many as it can be while no more than two requests overlap.              *)
(*                                                                         *)
(* Levels(k) is twice the number of jobs a window can hold when the        *)
(* counter stands at k and nobody is under way; of two readings of the     *)
(* counter only the lower one counts in full, because the request that     *)
(* holds it will set the counter back there.                               *)
PairQuota == Cardinality(Recent) <= (Limit * (Limit + 3)) \div 2

Levels(k) == k * (2 * Limit + 3 - k)

Stretch(a, b) ==
  IF a <= b THEN Levels(a) + 2 * (b - a) ELSE Levels(b) + 2 * (a - b)

\* From one reading of the counter to the next, at least two more jobs.
LEMMA LevelsRise ==
  ASSUME NEW m \in Nat, NEW k \in Nat, m <= k, k <= Limit
  PROVE  /\ Levels(m) \in Int /\ Levels(k) \in Int
         /\ Levels(k) - Levels(m) >= 4 * (k - m)
<1>0. Limit \in Nat \ {0}
  BY ConstantsAssumption
<1>1. Levels(m) \in Int /\ Levels(k) \in Int
  BY <1>0 DEF Levels
<1>2. Levels(k) - Levels(m) = (k - m) * (2 * Limit + 3 - k - m)
  BY <1>0 DEF Levels
<1>3. CASE m = k
  BY <1>1, <1>3
<1>4. CASE m < k
  <2> DEFINE d == k - m
             e == 2 * Limit + 3 - k - m
  <2>1. d \in Nat /\ e \in Nat /\ e >= 4
    BY <1>0, <1>4
  <2>2. d * e >= d * 4
    <3> HIDE DEF d, e
    <3>1. e - 4 \in Nat /\ d * e = d * 4 + d * (e - 4)
      BY <2>1
    <3>2. d * (e - 4) \in Nat
      BY <2>1, <3>1
    <3> QED BY <2>1, <3>1, <3>2
  <2> QED BY <1>1, <1>2, <2>1, <2>2
<1> QED BY <1>3, <1>4

LEMMA NextLevel ==
  ASSUME NEW k \in Nat
  PROVE  Levels(k + 1) = Levels(k) + 2 * (Limit - k) + 2
BY ConstantsAssumption DEF Levels

\* The last request under way charges: it sets the counter one above what it
\* read, and that level has room for everything created meanwhile.
LEMMA StretchAlone ==
  ASSUME NEW s \in 0..Limit - 1, NEW c \in 0..Limit
  PROVE  /\ Stretch(s, c) \in Int
         /\ Stretch(s, c) + 2 <= Stretch(s + 1, s + 1)
         /\ Stretch(s, c) + 2 <= Levels(Limit)
<1>0. Limit \in Nat /\ s \in Nat /\ c \in Nat /\ s + 1 \in Nat /\ s + 1 <= Limit
  BY ConstantsAssumption
<1>1. Stretch(s + 1, s + 1) = Levels(s + 1)
  BY <1>0, LevelsRise DEF Stretch
<1>2. Levels(Limit) - Levels(s + 1) >= 4 * (Limit - (s + 1))
         /\ Levels(s + 1) \in Int /\ Levels(Limit) \in Int /\ Levels(s) \in Int
         /\ Levels(s + 1) = Levels(s) + 2 * (Limit - s) + 2
  BY <1>0, LevelsRise, NextLevel
<1>3. CASE s <= c
  <2>1. Stretch(s, c) = Levels(s) + 2 * (c - s)
    BY <1>3 DEF Stretch
  <2> QED BY <1>0, <1>1, <1>2, <2>1
<1>4. CASE c < s
  <2>1. Stretch(s, c) = Levels(c) + 2 * (s - c)
    BY <1>0, <1>4 DEF Stretch
  <2>2. Levels(c) \in Int /\ Levels(s) - Levels(c) >= 4 * (s - c)
    BY <1>0, <1>4, LevelsRise
  <2> QED BY <1>0, <1>1, <1>2, <1>4, <2>1, <2>2
<1> QED BY <1>0, <1>3, <1>4

\* One of two requests under way charges: the other still holds its reading.
LEMMA StretchBeside ==
  ASSUME NEW s \in 0..Limit - 1, NEW k \in 0..Limit - 1
  PROVE  /\ Stretch(s, k) \in Int /\ Stretch(s, k) = Stretch(k, s)
         /\ Stretch(s, k) + 2 <= Stretch(k, s + 1)
         /\ Stretch(s, k) + 4 <= Levels(Limit)
<1>0. Limit \in Nat /\ s \in Nat /\ k \in Nat /\ s + 1 \in Nat
         /\ s + 1 <= Limit /\ k + 1 <= Limit
  BY ConstantsAssumption
<1>1. /\ Levels(Limit) - Levels(s) >= 4 * (Limit - s)
      /\ Levels(Limit) - Levels(k) >= 4 * (Limit - k)
      /\ Levels(s) \in Int /\ Levels(k) \in Int /\ Levels(Limit) \in Int
      /\ Levels(s + 1) = Levels(s) + 2 * (Limit - s) + 2
  <2>1. \A j \in {s, k} : Levels(j) \in Int /\ Levels(Limit) - Levels(j) >= 4 * (Limit - j)
    BY <1>0, LevelsRise
  <2>2. Levels(Limit) \in Int
    BY <1>0, LevelsRise
  <2>3. Levels(s + 1) = Levels(s) + 2 * (Limit - s) + 2
    BY <1>0, NextLevel
  <2> QED BY <2>1, <2>2, <2>3
<1>2. CASE k <= s
  <2>1. /\ Stretch(k, s) = Levels(k) + 2 * (s - k)
        /\ Stretch(s, k) = Levels(k) + 2 * (s - k)
        /\ Stretch(k, s + 1) = Levels(k) + 2 * (s + 1 - k)
    BY <1>0, <1>1, <1>2 DEF Stretch
  <2> QED BY <1>0, <1>1, <1>2, <2>1
<1>3. CASE s < k
  <2>1. /\ Stretch(s, k) = Levels(s) + 2 * (k - s)
        /\ Stretch(k, s) = Levels(s) + 2 * (k - s)
        /\ Stretch(k, s + 1) = Levels(s + 1) + 2 * (k - (s + 1))
    BY <1>0, <1>1, <1>3 DEF Stretch
  <2> QED BY <1>0, <1>1, <1>3, <2>1
<1> QED BY <1>0, <1>2, <1>3

\* Charged requests against the level the counter, or the requests under way,
\* will let it return to.
CountsStretched ==
  /\ \A r, q, s \in Active : r = q \/ q = s \/ r = s
  /\ \A r \in Requests \ Active :
       createdAt[r] # Never => createdAt[r] + Window <= counter.expires
  /\ Active = {} => 2 * Cardinality(Charged) <= Stretch(JobsCount, JobsCount)
  /\ \A r \in Active :
       Active = {r} => 2 * Cardinality(Charged) <= Stretch(saw[r], JobsCount)
  /\ \A r, q \in Active :
       r # q => 2 * Cardinality(Charged) <= Stretch(saw[r], saw[q])

OverlapInv == TypeOK /\ InFlightIsNow /\ CountsStretched

\* Two active requests fill the two places.
LEMMA TwoPlaces ==
  ASSUME TypeOK, Concurrency = 2, Cardinality(Active) < Concurrency, NEW r \in Active
  PROVE  Active = {r}
<1>1. IsFiniteSet(Active) /\ Cardinality(Active) \in Nat
  BY SetsFinite
<1>2. ASSUME NEW q \in Active, q # r PROVE FALSE
  <2>1. {r, q} \subseteq Active
    BY <1>2
  <2>2. IsFiniteSet({r}) /\ Cardinality({r}) = 1
    BY FS_Singleton
  <2>3. IsFiniteSet({r} \cup {q}) /\ Cardinality({r} \cup {q}) = 2
    BY <1>2, <2>2, FS_AddElement
  <2>4. Cardinality({r} \cup {q}) <= Cardinality(Active)
    BY <1>1, <2>1, FS_Subset
  <2> QED BY <1>1, <2>3, <2>4
<1> QED BY <1>2

LEMMA TwoMore ==
  ASSUME NEW r, NEW q, NEW S \in SUBSET (Charged \cup {r, q})
  PROVE  Cardinality(S) \in Nat /\ Cardinality(S) <= Cardinality(Charged) + 2
<1>1. S \ {q} \in SUBSET (Charged \cup {r})
  OBVIOUS
<1>2. Cardinality(S \ {q}) \in Nat /\ Cardinality(S \ {q}) <= Cardinality(Charged) + 1
  BY <1>1, OneMore
<1>3. IsFiniteSet(S)
  <2>1. IsFiniteSet(Charged)
    BY SetsFinite
  <2>2. IsFiniteSet({r, q})
    <3>1. IsFiniteSet({r} \cup {q})
      BY FS_Singleton, FS_AddElement
    <3>2. {r, q} = {r} \cup {q}
      OBVIOUS
    <3> QED BY <3>1, <3>2
  <2>3. IsFiniteSet(Charged \cup {r, q})
    BY <2>1, <2>2, FS_Union
  <2> QED BY <2>3, FS_Subset
<1>4. Cardinality(S) \in Nat
  BY <1>3, FS_CardinalityType
<1>5. CASE q \in S
  <2>1. Cardinality(S \ {q}) = Cardinality(S) - 1
    BY <1>3, <1>5, FS_RemoveElement
  <2> QED BY <1>2, <1>4, <2>1, SetsFinite
<1>6. CASE q \notin S
  <2>1. S \ {q} = S
    BY <1>6
  <2>2. Cardinality(S) <= Cardinality(Charged) + 1
    BY <1>2, <2>1
  <2> QED BY <1>4, <2>2, SetsFinite
<1> QED BY <1>5, <1>6

\* A charge: the request leaves, and its job counts from now on.
LEMMA ChargeStretches ==
  ASSUME OverlapInv, NEW r \in Requests, Charge(r) PROVE CountsStretched'
<1> USE ConstantsAssumption DEF OverlapInv, TypeOK, Never
<1>1. r \in Active /\ Active' = Active \ {r} /\ saw' = saw /\ Recent' = Recent
  BY DEF Charge, Active, Recent
<1>2. saw[r] \in 0..Limit - 1 /\ JobsCount' = saw[r] + 1 /\ JobsCount \in 0..Limit
  BY DEF Charge, JobsCount
<1>3. Charged' \in SUBSET (Charged \cup {r})
  BY <1>1 DEF Charged
<1>4. /\ Cardinality(Charged') \in Nat /\ Cardinality(Charged) \in Nat
      /\ Cardinality(Charged') <= Cardinality(Charged) + 1
  BY <1>3, OneMore, SetsFinite
<1>5. ASSUME NEW q \in Requests, createdAt'[q] # Never
      PROVE  createdAt'[q] + Window <= counter'.expires
  BY <1>5 DEF Charge, InFlightIsNow
<1>6. ASSUME Active' = {}
      PROVE  2 * Cardinality(Charged') <= Stretch(JobsCount', JobsCount')
  <2>1. Active = {r}
    BY <1>1, <1>6
  <2>2. 2 * Cardinality(Charged) <= Stretch(saw[r], JobsCount)
    BY <1>1, <2>1 DEF CountsStretched
  <2>3. Stretch(saw[r], JobsCount) \in Int
           /\ Stretch(saw[r], JobsCount) + 2 <= Stretch(saw[r] + 1, saw[r] + 1)
    BY <1>2, StretchAlone
  <2>4. Stretch(saw[r] + 1, saw[r] + 1) \in Int
    BY <1>2, LevelsRise DEF Stretch
  <2> HIDE DEF Stretch
  <2> QED BY <1>2, <1>4, <2>2, <2>3, <2>4
<1>7. ASSUME NEW q \in Active'
      PROVE  /\ Active' = {q}
             /\ 2 * Cardinality(Charged') <= Stretch(saw'[q], JobsCount')
  <2>1. q \in Active /\ q # r /\ saw[q] \in 0..Limit - 1
    BY <1>1, <1>7 DEF Active
  <2>2. Active' = {q}
    BY <1>1, <1>7, <2>1 DEF CountsStretched
  <2>3. 2 * Cardinality(Charged) <= Stretch(saw[r], saw[q])
    BY <1>1, <2>1 DEF CountsStretched
  <2>4. Stretch(saw[r], saw[q]) \in Int
           /\ Stretch(saw[r], saw[q]) + 2 <= Stretch(saw[q], saw[r] + 1)
    BY <1>2, <2>1, StretchBeside
  <2>5. Stretch(saw[q], saw[r] + 1) \in Int
    <3>1. saw[r] + 1 \in 0..Limit
      BY <1>2
    <3> QED BY <2>1, <3>1, StretchAlone
  <2> QED BY <1>1, <1>2, <1>4, <2>2, <2>3, <2>4, <2>5
<1> HIDE DEF OverlapInv, TypeOK
<1>8. \A x, y, z \in Active' : x = y \/ y = z \/ z = x
  BY <1>7
<1>9. \A x, y \in Active' :
        x # y => 2 * Cardinality(Charged') <= Stretch(saw'[x], saw'[y])
  BY <1>7
<1> QED BY <1>5, <1>6, <1>7, <1>8, <1>9 DEF CountsStretched

LEMMA CountsStretchedStep ==
  ASSUME Concurrency = 2, OverlapInv, [Next]_vars PROVE CountsStretched'
<1> USE ConstantsAssumption DEF OverlapInv, TypeOK, Never
<1>count. JobsCount \in 0..Limit
  BY DEF JobsCount
<1>1. ASSUME NEW r \in Requests, Check(r), Admits PROVE CountsStretched'
  <2>1. /\ createdAt' = createdAt /\ counter' = counter /\ Active' = Active \cup {r}
        /\ r \notin Active /\ pc[r] = "idle"
    BY <1>1 DEF Check, Active
  <2>2. /\ JobsCount' = JobsCount /\ saw'[r] = JobsCount
        /\ \A q \in Active : saw'[q] = saw[q]
    BY <1>1, <2>1 DEF Check, JobsCount, Active
  <2>3. Charged' = Charged
    BY <1>1, <2>1 DEF Check, Charged, Recent, InFlightIsNow
  <2>4. JobsCount \in 0..Limit - 1
    BY <1>1, <1>count DEF Admits
  <2>5. CASE Active = {}
    <3>1. Active' = {r}
      BY <2>1, <2>5
    <3>2. 2 * Cardinality(Charged') <= Stretch(saw'[r], JobsCount')
      BY <2>2, <2>3, <2>5 DEF CountsStretched
    <3> QED BY <2>1, <3>1, <3>2 DEF CountsStretched
  <2>6. ASSUME NEW q \in Active PROVE CountsStretched'
    <3>1. Active = {q} /\ Active' = {q, r} /\ q # r
      BY <1>1, <2>1, TwoPlaces DEF Check
    <3>2. 2 * Cardinality(Charged') <= Stretch(saw'[q], saw'[r])
      BY <2>2, <2>3, <3>1 DEF CountsStretched
    <3>3. saw'[q] \in 0..Limit - 1 /\ saw'[r] \in 0..Limit - 1
      BY <2>2, <2>4, <3>1 DEF Active
    <3>4. Stretch(saw'[q], saw'[r]) = Stretch(saw'[r], saw'[q])
      BY <3>3, StretchBeside
    <3>5. \A x, y \in Active' :
            x # y => 2 * Cardinality(Charged') <= Stretch(saw'[x], saw'[y])
      BY <3>1, <3>2, <3>4
    <3>6. \A x, y, z \in Active' : x = y \/ y = z \/ z = x
      BY <3>1
    <3>7. \A x \in Requests \ Active' :
            createdAt'[x] # -1 => createdAt'[x] + Window <= counter'.expires
      BY <2>1 DEF CountsStretched
    <3>8. Active' # {} /\ \A x \in Active' : Active' # {x}
      BY <3>1
    <3> QED BY <3>5, <3>6, <3>7, <3>8 DEF CountsStretched
  <2> QED BY <2>5, <2>6
<1>2. ASSUME NEW r \in Requests, Check(r), ~Admits PROVE CountsStretched'
  <2>1. UNCHANGED <<now, counter, saw, createdAt>> /\ Active' = Active
    BY <1>2 DEF Check, Active
  <2>2. JobsCount' = JobsCount /\ Charged' = Charged
    BY <2>1 DEF JobsCount, Charged, Recent
  <2> QED BY <2>1, <2>2 DEF CountsStretched
<1>3. ASSUME NEW r \in Requests, CreateJob(r) PROVE CountsStretched'
  <2>1. JobsCount' = JobsCount /\ Active' = Active /\ saw' = saw /\ counter' = counter
           /\ r \in Active
    BY <1>3 DEF CreateJob, JobsCount, Active
  <2>2. Charged' = Charged
    BY <1>3, <2>1 DEF CreateJob, Charged, Recent
  <2> QED BY <1>3, <2>1, <2>2 DEF CountsStretched, CreateJob
<1>4. ASSUME NEW r \in Requests, Charge(r) PROVE CountsStretched'
  BY <1>4, ChargeStretches
<1>5. CASE Tick
  <2>1. Active = {} /\ Active' = {} /\ now' = now + 1 /\ UNCHANGED <<counter, createdAt>>
    BY <1>5 DEF Tick, Active
  <2>2. \A q \in Requests \ Active' :
          createdAt'[q] # Never => createdAt'[q] + Window <= counter'.expires
    BY <2>1 DEF CountsStretched
  <2>3. CASE now' < counter.expires
    <3>1. JobsCount' = JobsCount
      BY <2>1, <2>3 DEF JobsCount
    <3>2. Charged' \in SUBSET Charged
      BY <2>1 DEF Charged, Recent
    <3>3. Cardinality(Charged') \in Nat /\ Cardinality(Charged') <= Cardinality(Charged)
      BY <3>2, SetsFinite, FS_Subset, FS_CardinalityType
    <3>4. Stretch(JobsCount, JobsCount) \in Int
      BY <1>count, LevelsRise DEF Stretch
    <3>5. 2 * Cardinality(Charged) <= Stretch(JobsCount, JobsCount)
      BY <2>1 DEF CountsStretched
    <3>6. 2 * Cardinality(Charged') <= Stretch(JobsCount', JobsCount')
      <4> HIDE DEF Stretch
      <4> QED BY <3>1, <3>3, <3>4, <3>5, SetsFinite
    <3> QED BY <2>1, <2>2, <3>6 DEF CountsStretched
  <2>4. CASE ~(now' < counter.expires)
    <3>1. JobsCount' = 0
      BY <2>1, <2>4 DEF JobsCount
    <3>2. Charged' = {}
      BY <2>1, <2>4 DEF Charged, Recent, CountsStretched
    <3>3. Stretch(0, 0) = 0
      BY DEF Stretch, Levels
    <3>4. 2 * Cardinality(Charged') <= Stretch(JobsCount', JobsCount')
      BY <3>1, <3>2, <3>3, FS_EmptySet
    <3> QED BY <2>1, <2>2, <3>4 DEF CountsStretched
  <2> QED BY <2>3, <2>4
<1>6. CASE UNCHANGED vars
  <2>1. JobsCount' = JobsCount /\ Active' = Active /\ Charged' = Charged
    BY <1>6 DEF vars, JobsCount, Active, Charged, Recent
  <2> QED BY <1>6, <2>1 DEF vars, CountsStretched
<1> QED BY <1>1, <1>2, <1>3, <1>4, <1>5, <1>6 DEF Next

\* What the potential leaves is what the quota is worth.
LEMMA StretchedQuota ==
  ASSUME Concurrency = 2, OverlapInv PROVE PairQuota
<1> USE ConstantsAssumption DEF OverlapInv, TypeOK
<1>count. JobsCount \in 0..Limit
  BY DEF JobsCount
<1>1. Levels(Limit) = Limit * (Limit + 3) /\ Levels(Limit) \in Int
  <2>1. 2 * Limit + 3 - Limit = Limit + 3
    OBVIOUS
  <2> QED BY <2>1, LevelsRise DEF Levels
<1>2. 2 * Cardinality(Recent) <= Levels(Limit)
  <2>0. Cardinality(Charged) \in Nat /\ Cardinality(Recent) \in Nat
    BY SetsFinite
  <2>1. CASE Active = {}
    <3>1. Charged = Recent
      BY <2>1 DEF Charged
    <3>2. 2 * Cardinality(Charged) <= Levels(JobsCount)
      <4>1. Stretch(JobsCount, JobsCount) = Levels(JobsCount)
        <5>1. Levels(JobsCount) \in Int
          BY <1>count, LevelsRise
        <5> QED BY <1>count, <5>1 DEF Stretch
      <4>2. 2 * Cardinality(Charged) <= Stretch(JobsCount, JobsCount)
        BY <2>1 DEF CountsStretched
      <4> QED BY <4>1, <4>2
    <3>3. Levels(JobsCount) \in Int /\ Levels(JobsCount) <= Levels(Limit)
      <4>1. Levels(JobsCount) \in Int
               /\ Levels(Limit) - Levels(JobsCount) >= 4 * (Limit - JobsCount)
        <5>1. JobsCount \in Nat /\ Limit \in Nat /\ JobsCount <= Limit /\ Limit <= Limit
          BY <1>count
        <5> HIDE DEF OverlapInv, TypeOK
        <5> QED BY <5>1, LevelsRise
      <4>2. Levels(Limit) \in Int
        BY <1>1
      <4> HIDE DEF OverlapInv, TypeOK
      <4> QED BY <1>count, <4>1, <4>2
    <3> QED BY <1>1, <2>0, <3>1, <3>2, <3>3
  <2>2. ASSUME NEW r \in Active, Active = {r} PROVE 2 * Cardinality(Recent) <= Levels(Limit)
    <3>1. Recent \in SUBSET (Charged \cup {r})
      BY <2>2 DEF Charged
    <3>2. Cardinality(Recent) <= Cardinality(Charged) + 1
      BY <3>1, OneMore
    <3>3. 2 * Cardinality(Charged) <= Stretch(saw[r], JobsCount)
      BY <2>2 DEF CountsStretched
    <3>4. Stretch(saw[r], JobsCount) \in Int
             /\ Stretch(saw[r], JobsCount) + 2 <= Levels(Limit)
      <4>1. saw[r] \in 0..Limit - 1
        BY DEF Active
      <4> QED BY <4>1, <1>count, StretchAlone
    <3> QED BY <1>1, <2>0, <3>2, <3>3, <3>4
  <2>3. ASSUME NEW r \in Active, NEW q \in Active, q # r
        PROVE  2 * Cardinality(Recent) <= Levels(Limit)
    <3>1. Recent \in SUBSET (Charged \cup {r, q})
      BY <2>3 DEF Charged, CountsStretched
    <3>2. Cardinality(Recent) <= Cardinality(Charged) + 2
      BY <3>1, TwoMore
    <3>3. 2 * Cardinality(Charged) <= Stretch(saw[r], saw[q])
      BY <2>3 DEF CountsStretched
    <3>4. Stretch(saw[r], saw[q]) \in Int
             /\ Stretch(saw[r], saw[q]) + 4 <= Levels(Limit)
      <4>1. saw[r] \in 0..Limit - 1 /\ saw[q] \in 0..Limit - 1
        BY DEF Active
      <4> QED BY <4>1, StretchBeside
    <3> QED BY <1>1, <2>0, <3>2, <3>3, <3>4
  <2> QED BY <2>1, <2>2, <2>3
<1>3. Cardinality(Recent) <= (Limit * (Limit + 3)) \div 2
  <2> DEFINE n == Limit * (Limit + 3)
  <2>1. n \in Int /\ 2 * Cardinality(Recent) <= n /\ Cardinality(Recent) \in Nat
    BY <1>1, <1>2, SetsFinite
  <2> HIDE DEF n
  <2>2. Cardinality(Recent) <= n \div 2
    BY <2>1
  <2> QED BY <2>2 DEF n
<1> QED BY <1>3 DEF PairQuota

\* Of two requests of one device that overlap again and again, the slower
\* writing an old count back each time, a window holds at most one job a level
\* more than 1 + ... + Limit.
THEOREM OverlapQuota == ASSUME Concurrency = 2 PROVE Spec => []PairQuota
<1>1. Init => OverlapInv
  <2> SUFFICES ASSUME Init PROVE OverlapInv
    OBVIOUS
  <2>1. Active = {} /\ Charged = {} /\ JobsCount = 0
    BY ConstantsAssumption DEF Init, Active, Charged, Recent, JobsCount, Never
  <2>2. Stretch(0, 0) = 0
    BY ConstantsAssumption DEF Stretch, Levels
  <2>3. CountsStretched
    BY <2>1, <2>2, FS_EmptySet DEF Init, CountsStretched
  <2> QED BY <2>3, ConstantsAssumption DEF Init, OverlapInv, TypeOK, InFlightIsNow, Never
<1>2. OverlapInv /\ [Next]_vars => OverlapInv'
  BY TypeStep, InFlightStep, CountsStretchedStep DEF OverlapInv
<1>3. OverlapInv => PairQuota
  BY StretchedQuota
<1> QED BY <1>1, <1>2, <1>3, PTL DEF Spec
=============================================================================
