-------------------------- MODULE JobResults_proofs --------------------------
(***************************************************************************)
(* Proofs about results and tracks, for any number of requests, jobs,      *)
(* attempts, slots, hours and faults.                                      *)
(*                                                                         *)
(* A call is made once: the attempts a dispatch has not reached are unsent *)
(* (Ahead).  A call that is done has left its track, which goes only when  *)
(* it is older than the worker keeps tracks (Tracks).  A job that is DONE, *)
(* or about to be, has had a result (Announced).                           *)
(***************************************************************************)
EXTENDS JobResults, TLAPS

Ahead ==
  \A d \in Dispatches :
    /\ \A a \in 1..MaxAttempts : a > attempt[d] => call[<<d, a>>] = "unsent"
    /\ pc[d] \in {"idle", "peek", "put", "start"} =>
         attempt[d] = 1 /\ call[<<d, 1>>] = "unsent"

Tracks ==
  /\ \A c \in Calls : call[c] = "done" => c \in finals \cup aged
  /\ \A d \in Dispatches : pc[d] = "publish" => call[Call(d)] = "done"
  /\ \A j \in Jobs : kvResult[j] \in Calls =>
       /\ job[kvResult[j][1]] = j /\ pc[kvResult[j][1]] # "idle"
       /\ kvResult[j] \in finals \cup aged

Announced ==
  /\ \A d \in Dispatches : pc[d] # "idle" => job[d] \in Jobs
  /\ \A d \in Dispatches : pc[d] = "announce" => kvResult[job[d]] # None
  /\ \A j \in Jobs : kvJob[j] = "DONE" => kvResult[j] # None
  /\ \A j \in reading : kvResult[j] # None

ResultsInv == TypeOK /\ Ahead /\ Tracks

-----------------------------------------------------------------------------
LEMMA CallFacts ==
  ASSUME TypeOK
  PROVE  /\ \A d \in Dispatches :
              /\ Call(d) \in Calls /\ Call(d)[1] = d /\ attempt[d] \in 1..MaxAttempts
              /\ \A a \in 1..MaxAttempts : <<d, a>> \in Calls
         /\ \A c \in Calls : c[1] \in Dispatches /\ c[2] \in 1..MaxAttempts /\ c = <<c[1], c[2]>>
         /\ 1 \in 1..MaxAttempts
<1>1. 1 \in 1..MaxAttempts
  BY ResultsAssumption
<1>2. \A c \in Calls : c[1] \in Dispatches /\ c[2] \in 1..MaxAttempts /\ c = <<c[1], c[2]>>
  BY DEF Calls
<1>3. \A d \in Dispatches, a \in 1..MaxAttempts : <<d, a>> \in Calls
  BY DEF Calls
<1> QED BY <1>1, <1>2, <1>3 DEF TypeOK, Call

\* A step of the worker, seen from the calls and the disk: what is done stays
\* done, what is unsent stays unsent, and a track goes only when it is aged.
WorkerMoves ==
  /\ Worker!WorkerTypeOK'
  /\ \A c \in Calls : call[c] = "unsent" <=> call'[c] = "unsent"
  /\ \A c \in Calls : call[c] = "done" => call'[c] = "done"
  /\ \A c \in Calls : call'[c] = "done" => call[c] = "done" \/ c \in finals'
  /\ finals \cup aged \subseteq finals' \cup aged'

LEMMA WorkerSteps ==
  ASSUME TypeOK,
         \/ \E c \in Calls : Worker!Pipeline(c)
         \/ \E c \in Calls : Worker!Fail(c)
         \/ Worker!terminate
         \/ Worker!Age
         \/ Worker!Restart
  PROVE  WorkerMoves
<1> USE DEF TypeOK, Worker!WorkerTypeOK, Worker!CallState, Worker!Goes, WorkerMoves
<1>1. ASSUME NEW c \in Calls, Worker!Receive(c) PROVE WorkerMoves
  BY <1>1 DEF Worker!Receive
<1>2. ASSUME NEW c \in Calls, Worker!Acquire(c) PROVE WorkerMoves
  BY <1>2 DEF Worker!Acquire
<1>3. ASSUME NEW c \in Calls, Worker!Finish(c) PROVE WorkerMoves
  BY <1>3 DEF Worker!Finish
<1>4. ASSUME NEW c \in Calls, Worker!Fail(c) PROVE WorkerMoves
  BY <1>4 DEF Worker!Fail
<1>5. CASE Worker!Age
  BY <1>5 DEF Worker!Age
<1>6. CASE Worker!Restart
  <2>1. restarts' \in 0..MaxFaults /\ restarts' # 0
    <3>1. restarts \in 0..MaxFaults /\ restarts < MaxFaults /\ restarts' = restarts + 1
      BY <1>6 DEF Worker!Restart
    <3> HIDE DEF TypeOK
    <3> QED BY <3>1, ResultsAssumption
  <2>2. /\ call' \in [Calls -> Worker!CallState]
        /\ \A c \in Calls : \/ call'[c] = call[c]
                            \/ call'[c] = "failed" /\ call[c] \notin {"unsent", "done"}
    BY <1>6 DEF Worker!Restart
  <2> QED BY <1>6, <2>1, <2>2 DEF Worker!Restart
<1>7. CASE Worker!terminate
  BY <1>7 DEF Worker!terminate
<1> QED BY <1>1, <1>2, <1>3, <1>4, <1>5, <1>6, <1>7 DEF Worker!Pipeline

LEMMA WorkerKeeps ==
  ASSUME ResultsInv, UNCHANGED <<kvVars, dispatchVars>>, Others, WorkerMoves
  PROVE  ResultsInv'
<1> USE DEF ResultsInv, WorkerMoves, kvVars, dispatchVars, Others
<1>1. TypeOK'
  BY DEF TypeOK
<1>2. Ahead'
  BY CallFacts DEF Ahead
<1>3. Tracks'
  <2>1. \A c \in Calls : call'[c] = "done" => c \in finals' \cup aged'
    BY DEF Tracks
  <2>2. \A d \in Dispatches : pc'[d] = "publish" => call'[Call(d)'] = "done"
    BY CallFacts DEF Tracks, Call
  <2>3. \A j \in Jobs : kvResult'[j] \in Calls =>
          /\ job'[kvResult'[j][1]] = j /\ pc'[kvResult'[j][1]] # "idle"
          /\ kvResult'[j] \in finals' \cup aged'
    BY DEF Tracks
  <2> QED BY <2>1, <2>2, <2>3 DEF Tracks
<1> QED BY <1>1, <1>2, <1>3

\* The next call of a dispatch has not been made: sending it disturbs none
\* that the worker has.
LEMMA SendFacts ==
  ASSUME ResultsInv, NEW d \in Dispatches, NEW a \in 1..MaxAttempts,
         call[<<d, a>>] = "unsent", call' = [call EXCEPT ![<<d, a>>] = "sent"],
         UNCHANGED <<finals, aged, restarts>>
  PROVE  /\ call' \in [Calls -> Worker!CallState]
         /\ \A c \in Calls : c # <<d, a>> => call'[c] = call[c]
         /\ \A c \in Calls : call'[c] = "done" <=> call[c] = "done"
<1>1. <<d, a>> \in Calls /\ call \in [Calls -> Worker!CallState]
  BY CallFacts DEF ResultsInv, TypeOK, Worker!WorkerTypeOK
<1> DEFINE n == <<d, a>>
<1>2. n \in Calls /\ call[n] = "unsent" /\ call' = [call EXCEPT ![n] = "sent"]
  BY <1>1
<1> HIDE DEF n
<1>3. /\ call' \in [Calls -> Worker!CallState]
      /\ \A c \in Calls : c # n => call'[c] = call[c]
      /\ \A c \in Calls : call'[c] = "done" <=> call[c] = "done"
  BY <1>1, <1>2 DEF Worker!CallState
<1> QED BY <1>3 DEF n

\* The steps of create and of the dispatch that send no call.
LEMMA QuietKeeps ==
  ASSUME ResultsInv, NEW d \in Dispatches, UNCHANGED <<call, finals, aged, restarts>>,
         flagged' \in BOOLEAN, evictions' \in 0..MaxFaults,
         attempt' = attempt, UNCHANGED reading,
         \/ Arrive(d) \/ Peek(d) \/ PutJob(d) \/ Publish(d) \/ Announce(d) \/ Evict(d)
         \/ StartDispatch(d) /\ Conclude(d)
         \/ Answered(d) \/ ConnectionLost(d) \/ Distrust(d) \/ TerminateEnds(d)
  PROVE  ResultsInv'
<1> USE DEF ResultsInv, At, Goto, SetJob, Conclude, kvVars, dispatchVars
<1>1. /\ pc \in [Dispatches -> PC] /\ job \in [Dispatches -> Jobs \cup {None}]
      /\ kvJob \in [Jobs -> Status] /\ kvResult \in [Jobs -> Calls \cup {None, Expired}]
      /\ call \in [Calls -> Worker!CallState]
  BY DEF TypeOK, Worker!WorkerTypeOK
<1>3. Worker!WorkerTypeOK'
  BY DEF TypeOK, Worker!WorkerTypeOK
\* Nothing of what the invariant says of calls and tracks moves, except where
\* the step publishes.
<1>keep. ASSUME NEW s \in PC, pc' = [pc EXCEPT ![d] = s],
                s \in {"idle", "peek", "put", "start"} =>
                  pc[d] \in {"idle", "peek", "put", "start"},
                s # "idle", s = "publish" => call[Call(d)] = "done",
                kvJob' \in [Jobs -> Status], quarantine' \in BOOLEAN,
                job' = job \/ (pc[d] = "idle" /\ \E j \in Jobs : job' = [job EXCEPT ![d] = j]),
                UNCHANGED kvResult
         PROVE  ResultsInv'
  <2>1. TypeOK'
    BY <1>1, <1>3, <1>keep DEF TypeOK
  <2>2. Ahead'
    BY <1>1, <1>keep DEF Ahead
  <2>3. Tracks'
    <3>1. \A e \in Dispatches : pc'[e] = "publish" => call'[Call(e)'] = "done"
      BY <1>1, <1>keep DEF Tracks, Call
    <3>2. \A j \in Jobs : kvResult'[j] \in Calls =>
            /\ job'[kvResult'[j][1]] = j /\ pc'[kvResult'[j][1]] # "idle"
            /\ kvResult'[j] \in finals' \cup aged'
      <4> SUFFICES ASSUME NEW j \in Jobs, kvResult[j] \in Calls
                   PROVE  job'[kvResult[j][1]] = j /\ pc'[kvResult[j][1]] # "idle"
        BY <1>keep DEF Tracks
      <4>1. kvResult[j][1] \in Dispatches
        BY <1>1, CallFacts
      <4>2. job[kvResult[j][1]] = j /\ pc[kvResult[j][1]] # "idle"
        BY DEF Tracks
      <4> QED BY <1>1, <1>keep, <4>1, <4>2
    <3> QED BY <3>1, <3>2 DEF Tracks
  <2> QED BY <2>1, <2>2, <2>3
<1>4. CASE Arrive(d)
  <2>1. PICK j \in Jobs : job' = [job EXCEPT ![d] = j]
    <3>1. d \in 1..Requests /\ \E j \in 1..d : job' = [job EXCEPT ![d] = j]
      BY <1>4 DEF Arrive, Dispatches
    <3>2. 1..d \subseteq 1..Requests
      <4> HIDE DEF ResultsInv
      <4> QED BY <3>1, ResultsAssumption
    <3> QED BY <3>1, <3>2 DEF Jobs
  <2> QED BY <1>1, <1>4, <1>keep, <2>1 DEF Arrive, PC, TypeOK
<1>5. CASE Peek(d)
  <2>1. PICK s \in {"put", "end"} : pc' = [pc EXCEPT ![d] = s]
    BY <1>5 DEF Peek
  <2> QED BY <1>1, <1>5, <1>keep, <2>1 DEF Peek, PC, TypeOK
<1>6. CASE PutJob(d)
  <2>1. PICK s \in {"end", "start"} : pc' = [pc EXCEPT ![d] = s]
    BY <1>6 DEF PutJob
  <2>2. kvJob' \in [Jobs -> Status]
    BY <1>1, <1>6 DEF PutJob, Status
  <2> QED BY <1>1, <1>6, <1>keep, <2>1, <2>2 DEF PutJob, PC, TypeOK
<1>7. CASE Publish(d)
  <2>0. /\ pc[d] = "publish" /\ pc' = [pc EXCEPT ![d] = "announce"] /\ Call(d) \in Calls
        /\ kvResult' = [kvResult EXCEPT ![job[d]] = Call(d)] /\ UNCHANGED job
        /\ Call(d)[1] = d /\ Call(d) \in finals \cup aged
    BY <1>7, CallFacts DEF Publish, Tracks
  <2>1. TypeOK'
    <3>1. /\ UNCHANGED <<kvJob, quarantine>> /\ kvResult' \in [Jobs -> Calls \cup {None, Expired}]
          /\ pc' \in [Dispatches -> PC]
      BY <1>1, <1>7, <2>0 DEF Publish, PC
    <3> QED BY <1>3, <2>0, <3>1 DEF TypeOK
  <2>2. Ahead'
    BY <1>1, <2>0 DEF Ahead
  <2>3. \A e \in Dispatches : pc'[e] = "publish" => call'[Call(e)'] = "done"
    BY <1>1, <2>0 DEF Tracks, Call
  <2>4. ASSUME NEW j \in Jobs, kvResult'[j] \in Calls
        PROVE  /\ job'[kvResult'[j][1]] = j /\ pc'[kvResult'[j][1]] # "idle"
               /\ kvResult'[j] \in finals' \cup aged'
    <3>1. CASE kvResult'[j] = kvResult[j]
      <4>1. kvResult[j][1] \in Dispatches
        BY <1>1, <2>4, <3>1, CallFacts
      <4> QED BY <1>1, <2>0, <2>4, <3>1, <4>1 DEF Tracks
    <3>2. CASE kvResult'[j] # kvResult[j]
      <4>1. j = job[d] /\ kvResult'[j] = Call(d)
        BY <1>1, <2>0, <3>2
      <4> QED BY <1>1, <2>0, <4>1
    <3> QED BY <3>1, <3>2
  <2>5. \A c \in Calls : call'[c] = "done" => c \in finals' \cup aged'
    BY DEF Tracks
  <2> QED BY <2>1, <2>2, <2>3, <2>4, <2>5 DEF Tracks
<1>8. CASE Announce(d)
  <2>1. kvJob' \in [Jobs -> Status]
    BY <1>1, <1>8 DEF Announce, Status, Terminal
  <2> QED BY <1>1, <1>8, <1>keep, <2>1 DEF Announce, PC, TypeOK
<1>9. CASE Evict(d)
  BY <1>1, <1>9, <1>keep DEF Evict, PC, TypeOK
<1>conclude. ASSUME Conclude(d), UNCHANGED <<kvResult, job>>, quarantine' \in BOOLEAN
             PROVE  ResultsInv'
  <2>1. kvJob' \in [Jobs -> Status]
    BY <1>1, <1>conclude DEF Status, Terminal
  <2> QED BY <1>1, <1>conclude, <1>keep, <2>1 DEF PC, TypeOK
<1>10. CASE StartDispatch(d) /\ Conclude(d)
  BY <1>10, <1>conclude DEF StartDispatch, TypeOK
<1>once. ~Again(d)
  <2>1. attempt \in [Dispatches -> 1..MaxAttempts]
    BY DEF TypeOK
  <2>2. attempt[d] \in Nat
    BY <2>1
  <2>3. ASSUME attempt' = [attempt EXCEPT ![d] = @ + 1] PROVE FALSE
    <3>1. attempt'[d] = attempt[d] + 1
      BY <2>1, <2>3
    <3> HIDE DEF ResultsInv
    <3> QED BY <2>2, <3>1
  <2> QED BY <2>3 DEF Again
<1>11. CASE Answered(d)
  <2>1. CASE call[Call(d)] = "done" /\ Goto(d, "publish") /\ UNCHANGED kvJob
    BY <1>1, <1>11, <1>keep, <2>1 DEF Answered, PC, TypeOK
  <2>2. CASE Conclude(d)
    BY <1>11, <1>conclude, <2>2 DEF Answered, TypeOK
  <2>3. ~Again(d)
    BY <1>once
  <2> QED BY <1>11, <2>1, <2>2, <2>3 DEF Answered, Retry
<1>12. CASE ConnectionLost(d)
  <2>1. ~Again(d)
    BY <1>once
  <2> QED BY <1>12, <1>conclude, <2>1 DEF ConnectionLost, Retry, TypeOK
<1>13. CASE Distrust(d)
  BY <1>1, <1>13, <1>keep DEF Distrust, Quarantine, PC, TypeOK
<1>14. CASE TerminateEnds(d)
  BY <1>14, <1>conclude DEF TerminateEnds, TypeOK
<1> QED BY <1>4, <1>5, <1>6, <1>7, <1>8, <1>9, <1>10, <1>11, <1>12, <1>13, <1>14

\* The steps of a dispatch that send its next call.
LEMMA SendKeeps ==
  ASSUME ResultsInv, NEW d \in Dispatches, Send(d), UNCHANGED <<kvResult, job>>,
         DiskAndFlag, Others, quarantine' = quarantine,
         \/ /\ pc[d] = "start" /\ Goto(d, "fetch") /\ UNCHANGED <<attempt, kvJob>>
         \/ pc[d] = "fetch" /\ Again(d) /\ attempt[d] < MaxAttempts
  PROVE  ResultsInv'
<1> DEFINE a == attempt'[d]
<1>0. /\ attempt \in [Dispatches -> 1..MaxAttempts] /\ pc \in [Dispatches -> PC]
      /\ kvJob \in [Jobs -> Status] /\ kvResult \in [Jobs -> Calls \cup {None, Expired}]
  BY DEF ResultsInv, TypeOK
<1>1. /\ attempt' \in [Dispatches -> 1..MaxAttempts] /\ a \in 1..MaxAttempts
      /\ a >= attempt[d] /\ call[<<d, a>>] = "unsent"
      /\ \A e \in Dispatches : e # d => attempt'[e] = attempt[e]
  <2>1. CASE UNCHANGED attempt /\ pc[d] = "start"
    <3>1. attempt[d] = 1 /\ call[<<d, 1>>] = "unsent" /\ a = attempt[d]
      BY <2>1 DEF ResultsInv, Ahead
    <3>2. attempt' \in [Dispatches -> 1..MaxAttempts] /\ a \in 1..MaxAttempts
          /\ \A e \in Dispatches : attempt'[e] = attempt[e]
      BY <1>0, <2>1
    <3>3. a >= attempt[d]
      BY <3>1
    <3> HIDE DEF a
    <3> QED BY <3>1, <3>2, <3>3
  <2>2. CASE Again(d) /\ attempt[d] < MaxAttempts
    <3>1. /\ attempt[d] \in 1..MaxAttempts /\ MaxAttempts \in Nat
          /\ attempt' = [attempt EXCEPT ![d] = @ + 1]
      BY <1>0, <2>2, ResultsAssumption DEF Again
    <3>2. attempt[d] + 1 \in 1..MaxAttempts /\ a = attempt[d] + 1 /\ a > attempt[d]
      <4> HIDE DEF ResultsInv
      <4> QED BY <1>0, <2>2, <3>1
    <3> HIDE DEF a
    <3>3. attempt' = [attempt EXCEPT ![d] = a] /\ a \in 1..MaxAttempts
      BY <3>1, <3>2
    <3>4. a \in Nat /\ attempt[d] \in Nat /\ a >= attempt[d]
      BY <3>1, <3>2
    <3>5. call[<<d, a>>] = "unsent"
      BY <3>2 DEF ResultsInv, Ahead
    <3> QED BY <1>0, <3>3, <3>4, <3>5
  <2> QED BY <2>1, <2>2
<1>2. call' = [call EXCEPT ![<<d, a>>] = "sent"] /\ UNCHANGED <<finals, aged, restarts>>
  BY DEF Send, DiskAndFlag
<1> HIDE DEF a
<1>3. /\ call' \in [Calls -> Worker!CallState]
      /\ \A c \in Calls : c # <<d, a>> => call'[c] = call[c]
      /\ \A c \in Calls : call'[c] = "done" <=> call[c] = "done"
  BY <1>1, <1>2, SendFacts
<1>4. /\ pc' \in [Dispatches -> PC] /\ pc'[d] = "fetch"
      /\ \A e \in Dispatches : e # d => pc'[e] = pc[e]
  BY <1>0 DEF Goto, Again, PC
<1>5. TypeOK'
  <2>1. kvJob' \in [Jobs -> Status]
    BY <1>0 DEF Again, SetJob, Status
  <2>2. Worker!WorkerTypeOK'
    BY <1>2, <1>3 DEF ResultsInv, TypeOK, Worker!WorkerTypeOK, DiskAndFlag
  <2> QED BY <1>1, <1>4, <2>1, <2>2 DEF ResultsInv, TypeOK, Others
<1>6. Ahead'
  <2>1. ASSUME NEW e \in Dispatches, NEW b \in 1..MaxAttempts, b > attempt'[e]
        PROVE  call'[<<e, b>>] = "unsent"
    <3>1. <<e, b>> # <<d, a>>
      BY <2>1 DEF a
    <3>2. <<e, b>> \in Calls /\ b > attempt[e]
      <4>1. e = d => b > attempt[d]
        BY <1>0, <1>1, <2>1 DEF a
      <4>2. <<e, b>> \in Calls
        BY DEF Calls
      <4> QED BY <1>1, <2>1, <4>1, <4>2
    <3> QED BY <1>3, <3>1, <3>2 DEF ResultsInv, Ahead
  <2>2. ASSUME NEW e \in Dispatches, pc'[e] \in {"idle", "peek", "put", "start"}
        PROVE  attempt'[e] = 1 /\ call'[<<e, 1>>] = "unsent"
    <3>1. e # d /\ pc[e] = pc'[e]
      BY <1>4, <2>2
    <3>2. <<e, 1>> \in Calls /\ <<e, 1>> # <<d, a>>
      BY <3>1, CallFacts DEF ResultsInv
    <3> QED BY <1>1, <1>3, <2>2, <3>1, <3>2 DEF ResultsInv, Ahead
  <2> QED BY <2>1, <2>2 DEF Ahead
<1>7. Tracks'
  <2>1. \A e \in Dispatches : pc'[e] = "publish" => call'[Call(e)'] = "done"
    <3> SUFFICES ASSUME NEW e \in Dispatches, pc'[e] = "publish"
                 PROVE  call'[Call(e)'] = "done"
      OBVIOUS
    <3>1. e # d /\ pc[e] = "publish" /\ Call(e)' = Call(e)
      BY <1>1, <1>4 DEF Call
    <3> QED BY <1>3, <3>1, CallFacts DEF ResultsInv, Tracks
  <2>2. \A j \in Jobs : kvResult'[j] \in Calls =>
          /\ job'[kvResult'[j][1]] = j /\ pc'[kvResult'[j][1]] # "idle"
          /\ kvResult'[j] \in finals' \cup aged'
    <3> SUFFICES ASSUME NEW j \in Jobs, kvResult[j] \in Calls
                 PROVE  /\ job[kvResult[j][1]] = j /\ pc'[kvResult[j][1]] # "idle"
                        /\ kvResult[j] \in finals \cup aged
      BY <1>2
    <3>1. kvResult[j][1] \in Dispatches
      BY <1>0, CallFacts DEF ResultsInv
    <3> QED BY <1>4, <3>1 DEF ResultsInv, Tracks
  <2> QED BY <1>2, <1>3, <2>1, <2>2 DEF ResultsInv, Tracks
<1> QED BY <1>5, <1>6, <1>7 DEF ResultsInv

\* Expiry and the client's poll only take away or read.
LEMMA ClientKeeps ==
  ASSUME ResultsInv, NEW j \in Jobs, Expire(j) \/ PollStatus(j) \/ PollResult(j)
  PROVE  ResultsInv'
<1> USE DEF ResultsInv, Expire, PollStatus, PollResult, workerVars, kvVars, dispatchVars, Others
<1>1. TypeOK'
  BY DEF TypeOK, Worker!WorkerTypeOK, Status
<1>2. Ahead'
  BY DEF Ahead
<1>3. Tracks'
  <2>1. \A i \in Jobs : kvResult'[i] \in Calls => kvResult'[i] = kvResult[i]
    BY ResultsAssumption DEF TypeOK, Calls, Dispatches
  <2> QED BY <2>1 DEF Tracks, Call
<1> QED BY <1>1, <1>2, <1>3

LEMMA ResultsStep == ResultsInv /\ [Next]_vars => ResultsInv'
<1> SUFFICES ASSUME ResultsInv, [Next]_vars PROVE ResultsInv'
  OBVIOUS
<1> USE DEF workerVars, kvVars, DiskAndFlag, Others
<1>T. TypeOK /\ evictions \in 0..MaxFaults /\ flagged \in BOOLEAN
  BY DEF ResultsInv, TypeOK, Worker!WorkerTypeOK
<1>1. ASSUME NEW d \in Dispatches, Arrive(d) \/ Peek(d) \/ PutJob(d) \/ Publish(d) \/ Announce(d)
      PROVE  ResultsInv'
  BY <1>1, <1>T, QuietKeeps DEF Arrive, Peek, PutJob, Publish, Announce
<1>2. ASSUME NEW d \in Dispatches, Evict(d) PROVE ResultsInv'
  <2>1. evictions + restarts < MaxFaults /\ evictions' = evictions + 1 /\ restarts \in Nat
    <3>1. restarts \in 0..MaxFaults
      BY <1>T DEF TypeOK, Worker!WorkerTypeOK
    <3>2. evictions + restarts < MaxFaults /\ evictions' = evictions + 1
      BY <1>2 DEF Evict
    <3> QED BY <3>1, <3>2
  <2>2. evictions' \in 0..MaxFaults
    BY <1>T, <2>1, ResultsAssumption
  <2> QED BY <1>2, <1>T, <2>2, QuietKeeps DEF Evict, dispatchVars
<1>3. ASSUME NEW d \in Dispatches, StartDispatch(d) PROVE ResultsInv'
  <2>1. CASE Conclude(d)
    BY <1>3, <1>T, <2>1, QuietKeeps DEF StartDispatch, Conclude
  <2>2. CASE ~Conclude(d)
    BY <1>3, <2>2, SendKeeps DEF StartDispatch, At
  <2> QED BY <2>1, <2>2
<1>4. ASSUME NEW d \in Dispatches, Answered(d) \/ ConnectionLost(d) PROVE ResultsInv'
  <2>1. CASE Again(d) /\ attempt[d] < MaxAttempts
    BY <1>4, <2>1, SendKeeps DEF Answered, ConnectionLost, At, Again
  <2>2. CASE UNCHANGED <<call, attempt>>
    BY <1>4, <1>T, <2>2, QuietKeeps DEF Answered, ConnectionLost
  <2> QED BY <1>4, <2>1, <2>2 DEF Answered, ConnectionLost, Retry, Conclude
<1>5. ASSUME NEW d \in Dispatches, Distrust(d) PROVE ResultsInv'
  BY <1>5, <1>T, QuietKeeps DEF Distrust, Quarantine
<1>6. ASSUME NEW j \in Jobs, Expire(j) \/ PollStatus(j) \/ PollResult(j) PROVE ResultsInv'
  BY <1>6, ClientKeeps
<1>7. ASSUME WorkerStep,
             \/ \E c \in Calls : Worker!Pipeline(c)
             \/ \E c \in Calls : Worker!Fail(c)
             \/ Worker!Age
             \/ Worker!Restart
      PROVE  ResultsInv'
  BY <1>7, <1>T, WorkerSteps, WorkerKeeps DEF WorkerStep
<1>8. CASE UNCHANGED vars
  <2>1. TypeOK'
    BY <1>8 DEF vars, dispatchVars, ResultsInv, TypeOK, Worker!WorkerTypeOK
  <2>2. Ahead' /\ Tracks'
    BY <1>8 DEF vars, dispatchVars, ResultsInv, Ahead, Tracks, Call
  <2> QED BY <2>1, <2>2 DEF ResultsInv
<1>9. ASSUME NEW d \in Dispatches, TerminateArrives(d) PROVE ResultsInv'
  BY <1>9, <1>T, WorkerSteps, WorkerKeeps DEF TerminateArrives
<1>10. ASSUME NEW d \in Dispatches, TerminateEnds(d) PROVE ResultsInv'
  BY <1>10, <1>T, QuietKeeps DEF TerminateEnds, Conclude
<1> QED BY <1>1, <1>2, <1>3, <1>4, <1>5, <1>6, <1>7, <1>8, <1>9, <1>10 DEF Next

LEMMA ResultsInit == Init => ResultsInv
<1> SUFFICES ASSUME Init PROVE ResultsInv
  OBVIOUS
<1> USE DEF Init, Worker!WorkerInit
<1>1. TypeOK
  <2>1. Worker!WorkerTypeOK
    <3>1. restarts \in 0..MaxFaults /\ call \in [Calls -> Worker!CallState]
      BY ResultsAssumption DEF Worker!CallState
    <3> QED BY <3>1 DEF Worker!WorkerTypeOK
  <2>2. /\ evictions \in 0..MaxFaults /\ 1 \in 1..MaxAttempts
        /\ attempt \in [Dispatches -> 1..MaxAttempts]
    BY ResultsAssumption
  <2>3. pc \in [Dispatches -> PC] /\ kvJob \in [Jobs -> Status]
    BY DEF PC, Status
  <2> QED BY <2>1, <2>2, <2>3 DEF TypeOK
<1>2. Ahead
  BY <1>1, CallFacts DEF Ahead
<1>3. Tracks
  BY ResultsAssumption DEF Tracks, Calls, Dispatches, Worker!CallState
<1> QED BY <1>1, <1>2, <1>3 DEF ResultsInv

LEMMA ResultsHold == Spec => []ResultsInv
BY ResultsInit, ResultsStep, PTL DEF Spec

-----------------------------------------------------------------------------
\* Worker, keys and dispatches stay well-formed: in particular no dispatch
\* goes past its last attempt.
THEOREM TypeCorrect == Spec => []TypeOK
<1>1. ResultsInv => TypeOK
  BY DEF ResultsInv
<1> QED BY <1>1, ResultsHold, PTL

\* A finished job's result names a track of its own, on the worker's disk until
\* it is too old, whatever other jobs, retries, restarts and sweeps went on.
THEOREM TrackIsThere == Spec => []DoneTrackIsThere
<1>1. ResultsInv => DoneTrackIsThere
  BY DEF ResultsInv, Tracks, DoneTrackIsThere, Downloadable
<1> QED BY <1>1, ResultsHold, PTL

\* What a poll has found DONE had a result before: nothing takes a result back
\* but the end of its lifetime.
LEMMA AnnouncedStep == TypeOK /\ Announced /\ [Next]_vars => Announced'
<1> SUFFICES ASSUME TypeOK, Announced, [Next]_vars PROVE Announced'
  OBVIOUS
<1> USE DEF At, Goto, SetJob, Others, kvVars, dispatchVars, workerVars
<1>0. /\ pc \in [Dispatches -> PC] /\ job \in [Dispatches -> Jobs \cup {None}]
      /\ kvJob \in [Jobs -> Status] /\ kvResult \in [Jobs -> Calls \cup {None, Expired}]
      /\ reading \subseteq Jobs
  BY DEF TypeOK
<1>1. \A c \in Calls : c # None
  BY ResultsAssumption DEF Calls, Dispatches
\* Most steps write no DONE and no result, and do not lead to announce.
<1>keep. ASSUME NEW d \in Dispatches, NEW s \in PC, NEW v \in Status,
                pc[d] # "idle", s \notin {"idle", "announce"}, v # "DONE",
                pc' = [pc EXCEPT ![d] = s] \/ pc' = pc,
                UNCHANGED <<job, kvResult, reading>>,
                kvJob' = [kvJob EXCEPT ![job[d]] = v] \/ kvJob' = kvJob
         PROVE  Announced'
  BY <1>0, <1>keep DEF Announced
<1>2. ASSUME NEW d \in Dispatches, Arrive(d) PROVE Announced'
  <2>1. PICK j \in 1..d : job' = [job EXCEPT ![d] = j]
    BY <1>2 DEF Arrive
  <2>2. j \in Jobs
    <3>1. Requests \in Nat /\ d \in 1..Requests
      BY ResultsAssumption DEF Dispatches
    <3> HIDE DEF TypeOK
    <3> QED BY <2>1, <3>1 DEF Jobs
  <2> QED BY <1>0, <1>2, <2>1, <2>2 DEF Arrive, Announced
<1>3. ASSUME NEW d \in Dispatches, Peek(d) PROVE Announced'
  <2>1. PICK s \in {"put", "end"} : pc' = [pc EXCEPT ![d] = s]
    BY <1>3 DEF Peek
  <2> QED BY <1>3, <2>1, <1>keep DEF Peek, PC, Status
<1>4. ASSUME NEW d \in Dispatches, PutJob(d) PROVE Announced'
  BY <1>4, <1>keep DEF PutJob, PC, Status
<1>conclude. ASSUME NEW d \in Dispatches, pc[d] # "idle", Conclude(d),
                    UNCHANGED <<job, kvResult, reading>>
             PROVE  Announced'
  BY <1>conclude, <1>keep DEF Conclude, PC, Status, Terminal
<1>again. ASSUME NEW d \in Dispatches, pc[d] # "idle", Again(d),
                 UNCHANGED <<job, kvResult, reading>>
          PROVE  Announced'
  BY <1>0, <1>again DEF Again, Announced
<1>5. ASSUME NEW d \in Dispatches, StartDispatch(d) PROVE Announced'
  <2>1. CASE Conclude(d)
    BY <1>5, <1>conclude, <2>1 DEF StartDispatch
  <2>2. CASE ~Conclude(d)
    BY <1>5, <1>keep, <2>2 DEF StartDispatch, PC, Status
  <2> QED BY <2>1, <2>2
<1>6. ASSUME NEW d \in Dispatches, Answered(d) \/ ConnectionLost(d) PROVE Announced'
  <2>1. pc[d] # "idle" /\ UNCHANGED <<job, kvResult, reading>>
    BY <1>6 DEF Answered, ConnectionLost
  <2>2. CASE Conclude(d)
    BY <1>conclude, <2>1, <2>2
  <2>3. CASE Again(d)
    BY <1>again, <2>1, <2>3
  <2>4. CASE Goto(d, "publish") /\ UNCHANGED kvJob
    BY <1>keep, <2>1, <2>4 DEF PC, Status
  <2> QED BY <1>6, <2>2, <2>3, <2>4 DEF Answered, ConnectionLost, Retry
<1>7. ASSUME NEW d \in Dispatches, Distrust(d) PROVE Announced'
  BY <1>7, <1>keep DEF Distrust, Quarantine, PC, Status
<1>8. ASSUME NEW d \in Dispatches, TerminateArrives(d) PROVE Announced'
  BY <1>8 DEF TerminateArrives, Announced
<1>9. ASSUME NEW d \in Dispatches, TerminateEnds(d) PROVE Announced'
  BY <1>9, <1>conclude DEF TerminateEnds
<1>10. ASSUME NEW d \in Dispatches, Publish(d) PROVE Announced'
  <2>1. Call(d) # None
    BY <1>1, CallFacts
  <2>2. /\ pc' = [pc EXCEPT ![d] = "announce"] /\ pc[d] = "publish"
        /\ kvResult' = [kvResult EXCEPT ![job[d]] = Call(d)]
        /\ UNCHANGED <<job, kvJob, reading>>
    BY <1>10 DEF Publish
  <2>3. \A j \in Jobs : kvResult[j] # None => kvResult'[j] # None
    BY <1>0, <2>1, <2>2
  <2>4. job[d] \in Jobs /\ kvResult'[job[d]] # None
    BY <1>0, <2>1, <2>2 DEF Announced
  <2> QED BY <1>0, <2>2, <2>3, <2>4 DEF Announced
<1>11. ASSUME NEW d \in Dispatches, Announce(d) PROVE Announced'
  BY <1>0, <1>11 DEF Announce, Announced
<1>12. ASSUME NEW d \in Dispatches, Evict(d) PROVE Announced'
  BY <1>12, <1>keep DEF Evict, PC, Status
<1>13. ASSUME NEW j \in Jobs, Expire(j) PROVE Announced'
  <2>1. CASE kvResult[j] \in Calls
    <3>1. \A i \in Jobs : kvResult[i] # None => kvResult'[i] # None
      BY <1>0, <1>13, <2>1, ResultsAssumption DEF Expire
    <3> QED BY <1>0, <1>13, <2>1, <3>1 DEF Expire, Announced
  <2>2. CASE kvResult[j] \notin Calls
    BY <1>0, <1>13, <2>2 DEF Expire, Announced
  <2> QED BY <2>1, <2>2
<1>14. ASSUME NEW j \in Jobs, PollStatus(j) \/ PollResult(j) PROVE Announced'
  BY <1>0, <1>14 DEF PollStatus, PollResult, Announced
<1>15. CASE WorkerStep
  BY <1>15 DEF WorkerStep, Announced
<1>16. CASE UNCHANGED vars
  BY <1>16 DEF vars, Announced
<1> QED BY <1>2, <1>3, <1>4, <1>5, <1>6, <1>7, <1>8, <1>9, <1>10, <1>11, <1>12, <1>13, <1>14,
           <1>15, <1>16 DEF Next

\* A status poll answers FINALIZING only for a result that was there and whose
\* lifetime is over.
THEOREM FinalizingMeansExpired == Spec => []FinalizingIsExpiry
<1>1. Init => Announced
  <2> SUFFICES ASSUME Init PROVE Announced
    OBVIOUS
  <2> QED BY DEF Init, Announced
<1>2. Spec => []Announced
  BY <1>1, AnnouncedStep, TypeCorrect, PTL DEF Spec
<1>3. TypeOK /\ Announced => FinalizingIsExpiry
  BY DEF TypeOK, Announced, FinalizingIsExpiry, PollAnswer
<1> QED BY <1>2, <1>3, TypeCorrect, PTL
=============================================================================
