-------------------------- MODULE JobRecord_proofs ---------------------------
(***************************************************************************)
(* Lemmas about the record of a job and the operations on it, for the      *)
(* proofs about JobCoordinator and JobDispatch.                            *)
(***************************************************************************)
EXTENDS JobRecord, TLAPS

\* What the statuses are, and where an edge may lead: the only facts of the
\* transition table the proofs use.
LEMMA StatusFacts ==
  /\ LIVE_STATES \cap TERMINAL_STATES = {}
  /\ "NONE" \notin JobStatus
  /\ {"QUEUED", "DISPATCHING", "PROCESSING", "RETRYING"} \subseteq JobStatus
  /\ TERMINAL_STATES \subseteq JobStatus
BY DEF LIVE_STATES, TERMINAL_STATES, JobStatus

LEMMA VerdictFacts ==
  ASSUME NEW v \in {"DONE", "FAILED", "REJECTED_FRAUD", "TERMINATED_TIMEOUT", "ERROR"}
  PROVE  IsTerminal(v) /\ v \in JobStatus /\ v # "RETRYING"
BY DEF IsTerminal, TERMINAL_STATES, JobStatus

LEMMA TransitionEdges ==
  ASSUME NEW r \in Record, NEW to, CanTransition(r, to)
  PROVE  /\ to # "QUEUED"
         /\ \/ r.status \in LIVE_STATES /\ to = "DISPATCHING"
            \/ r.status = "DISPATCHING" /\ to = "PROCESSING"
            \/ InFlight(r) /\ to = "RETRYING"
            \/ InFlight(r) /\ to \in TERMINAL_STATES
BY DEF CanTransition, ALLOWED_TRANSITIONS, InFlight, LIVE_STATES, TERMINAL_STATES, Record

\* What create, transition, markEnqueued and acquireDispatch write is a record.
LEMMA RecordTypes ==
  /\ Created \in Record
  /\ \A r \in Record :
       /\ \A to \in JobStatus : Transitioned(r, to) \in Record
       /\ MarkedEnqueued(r) \in Record
       /\ \A t \in Nat, l \in Nat : Acquired(r, t, l) \in Record
<1>1. "QUEUED" \in JobStatus /\ "DISPATCHING" \in JobStatus
  BY StatusFacts
<1>2. NoRecord \in Record
  BY DEF NoRecord, Record
<1>3. Created \in Record
  BY <1>1, <1>2 DEF Created, Record
<1>4. ASSUME NEW r \in Record, NEW t \in Nat, NEW l \in Nat
      PROVE  Acquired(r, t, l) \in Record
  <2>1. t + l \in Nat
    OBVIOUS
  <2> QED BY <1>1, <2>1 DEF Record, Acquired
<1>5. ASSUME NEW r \in Record
      PROVE  MarkedEnqueued(r) \in Record
  BY DEF Record, MarkedEnqueued
<1>6. ASSUME NEW r \in Record, NEW to \in JobStatus
      PROVE  Transitioned(r, to) \in Record
  BY DEF Record, Transitioned
<1> QED BY <1>3, <1>4, <1>5, <1>6

\* Each of them leaves a record behind, if it found one.
LEMMA RecordStays ==
  /\ Exists(Created)
  /\ \A r \in Record :
       /\ \A to \in JobStatus : Exists(Transitioned(r, to))
       /\ Exists(r) => Exists(MarkedEnqueued(r))
       /\ \A t \in Nat, l \in Nat : Exists(Acquired(r, t, l))
<1>1. Exists(Created)
  BY DEF Created, NoRecord, Exists
<1>2. ASSUME NEW r \in Record, NEW to \in JobStatus PROVE Exists(Transitioned(r, to))
  BY StatusFacts DEF Record, Transitioned, Exists
<1>3. ASSUME NEW r \in Record, Exists(r) PROVE Exists(MarkedEnqueued(r))
  BY <1>3 DEF Record, MarkedEnqueued, Exists
<1>4. ASSUME NEW r \in Record, NEW t \in Nat, NEW l \in Nat PROVE Exists(Acquired(r, t, l))
  BY DEF Record, Acquired, Exists
<1> QED BY <1>1, <1>2, <1>3, <1>4
=============================================================================
