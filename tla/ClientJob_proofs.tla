-------------------------- MODULE ClientJob_proofs ---------------------------
(***************************************************************************)
(* Proofs about the client's job flow, for any number of videos, jobs,     *)
(* polls and reloads.                                                      *)
(*                                                                         *)
(* The handlers in flight are kept apart by two facts nobody wrote down in *)
(* the code: page 3 is entered only by a submission that ends or by the    *)
(* resume effect, so no extraction or submission runs behind it (ByStep);  *)
(* and the token admits one polling loop, which follows the job on the     *)
(* page until its verdict (ByLoop).                                        *)
(***************************************************************************)
EXTENDS ClientJob, TLAPS

ByStep ==
  /\ ~ready => step = 1 /\ extracting = None /\ submit = None /\ loops = {}
  /\ step # 3 => jobId = None /\ jobStatus = None /\ jobResult = None
  /\ step = 3 => jobId # None /\ extracting = None /\ submit = None
  /\ stored # None => ~ready \/ step = 3
  /\ submit # None /\ submit.at = "upload" => server[submit.job] = "NAMED"

ByLoop ==
  /\ \A k, l \in loops : k.owns /\ l.owns => k = l
  /\ \A l \in loops : l.owns => step = 3 /\ l.job = jobId /\ jobStatus \notin Terminal

ClientInv ==
  /\ TypeOK /\ ByStep /\ ByLoop
  /\ ShownVerdictIsReal /\ RunningJobIsResumable /\ StatusTellsWork /\ SaveableOutputExists
-----------------------------------------------------------------------------
LEMMA StatusFacts ==
  /\ "QUEUED" \notin Terminal /\ "POLL_PAUSED" \notin Terminal /\ None \notin Videos \cup Jobs \cup Terminal
  /\ Terminal \subseteq Accepted /\ "QUEUED" \in Accepted /\ "NAMED" \notin Accepted
BY ClientAssumption DEF Terminal, Accepted

\* Whoever takes the token turns every other loop away.
LEMMA TokenTaken ==
  ASSUME loops \subseteq Loop
  PROVE  /\ Disowned \subseteq Loop
         /\ \A l \in Disowned : ~l.owns
         /\ \A j \in Jobs : PollJob(j) =>
              /\ loops' \subseteq Loop
              /\ \A k, l \in loops' : k.owns /\ l.owns => k = l
              /\ \A l \in loops' : l.owns => l.job = j
              /\ \E l \in loops' : l.owns
<1>1. Disowned \subseteq Loop /\ \A l \in Disowned : ~l.owns
  BY DEF Disowned, Loop
<1>2. ASSUME NEW j \in Jobs, PollJob(j)
      PROVE  /\ loops' \subseteq Loop
             /\ \A k, l \in loops' : k.owns /\ l.owns => k = l
             /\ \A l \in loops' : l.owns => l.job = j
             /\ \E l \in loops' : l.owns
  <2> DEFINE new == [job |-> j, left |-> Rounds, at |-> "ask", owns |-> TRUE]
  <2>1. new \in Loop /\ new.owns /\ new.job = j
    BY ClientAssumption DEF Loop
  <2>2. loops' = Disowned \cup {new}
    BY <1>2 DEF PollJob
  <2> HIDE DEF new
  <2> QED BY <1>1, <2>1, <2>2
<1> QED BY <1>1, <1>2

\* One round of a loop: gone, or the same loop a step further.
LEMMA LoopMoves ==
  ASSUME loops \subseteq Loop, NEW l \in loops,
         \A k, m \in loops : k.owns /\ m.owns => k = m,
         NEW n \in Loop, n.owns = l.owns, n.job = l.job,
         loops' = (loops \ {l}) \cup {n}
  PROVE  /\ loops' \subseteq Loop
         /\ \A k, m \in loops' : k.owns /\ m.owns => k = m
         /\ \A m \in loops' : m.owns => \E k \in loops : k.owns /\ k.job = m.job
         /\ (\E k \in loops' : k.owns) <=> (\E k \in loops : k.owns)
BY DEF Loop

LEMMA AskedLoop ==
  ASSUME NEW l \in Loop, l.left > 0
  PROVE  LET n == [l EXCEPT !.at = "answer", !.left = @ - 1]
         IN  n \in Loop /\ n.owns = l.owns /\ n.job = l.job
<1> DEFINE left == l.left - 1
<1>1. left \in 0..Rounds
  BY ClientAssumption DEF Loop
<1>2. l.left - 1 = left
  OBVIOUS
<1> HIDE DEF left
<1> QED BY <1>1, <1>2 DEF Loop

LEMMA ReloadTyped == TypeOK /\ Reload => TypeOK'
<1> SUFFICES ASSUME TypeOK, Reload PROVE TypeOK'
  OBVIOUS
<1>1. reloads' \in 0..MaxReloads
  BY ClientAssumption DEF TypeOK, Reload
<1>2. loops' \subseteq Loop /\ saving' \subseteq Output /\ step' \in 1..3
  BY DEF Reload
<1>3. /\ temp' \subseteq Output /\ stored' \in Jobs \cup {None}
      /\ origin' \in [Jobs -> Videos \cup {None}]
      /\ server' \in [Jobs -> Accepted \cup {"UNUSED", "NAMED", "SENT", "REFUSED"}]
  BY DEF TypeOK, Reload
<1> QED BY <1>1, <1>2, <1>3 DEF TypeOK, Reload

LEMMA InitHolds == Init => ClientInv
<1> SUFFICES ASSUME Init PROVE ClientInv
  OBVIOUS
<1> USE StatusFacts DEF Init
<1>1. TypeOK
  <2>1. server \in [Jobs -> Accepted \cup {"UNUSED", "NAMED", "SENT", "REFUSED"}]
    OBVIOUS
  <2>2. origin \in [Jobs -> Videos \cup {None}]
    OBVIOUS
  <2>3. loops \subseteq Loop /\ saving \subseteq Output /\ temp \subseteq Output
    OBVIOUS
  <2>4. step \in 1..3 /\ reloads \in 0..MaxReloads
    BY ClientAssumption
  <2> QED BY <2>1, <2>2, <2>3, <2>4 DEF TypeOK
<1>2. ByStep /\ ByLoop /\ ShownVerdictIsReal /\ RunningJobIsResumable
  BY DEF ByStep, ByLoop, ShownVerdictIsReal, RunningJobIsResumable, Terminal
<1>3. StatusTellsWork /\ SaveableOutputExists
  BY DEF StatusTellsWork, SaveableOutputExists
<1> QED BY <1>1, <1>2, <1>3 DEF ClientInv

\* The polling loop.
LEMMA PollingKeeps ==
  ASSUME ClientInv, NEW l \in loops, PollTop(l) \/ PollFails(l) \/ PollAnswer(l)
  PROVE  ClientInv'
<1> USE StatusFacts DEF ClientInv, TypeOK, ByStep, ByLoop, ShownVerdictIsReal, RunningJobIsResumable, StatusTellsWork, SaveableOutputExists,
    flowVars, prepVars, pickVars, jobVars, outputVars, fileVars, worldVars
<1>T. l \in Loop /\ loops \subseteq Loop
  OBVIOUS
<1>1. CASE PollTop(l)
  <2>1. CASE Withdraw(l)
    BY <1>1, <2>1 DEF PollTop, Withdraw
  <2>2. CASE Pause(l)
    BY <1>1, <2>2 DEF PollTop, Pause
  <2>3. CASE l.left > 0 /\ Ask(l)
    <3> DEFINE n == [l EXCEPT !.at = "answer", !.left = @ - 1]
    <3>1. n \in Loop /\ n.owns = l.owns /\ n.job = l.job
      BY <1>T, <2>3, AskedLoop
    <3>2. loops' = (loops \ {l}) \cup {n}
      BY <2>3 DEF Ask
    <3> HIDE DEF n
    <3>3. /\ loops' \subseteq Loop
          /\ \A k, m \in loops' : k.owns /\ m.owns => k = m
          /\ \A m \in loops' : m.owns => \E k \in loops : k.owns /\ k.job = m.job
          /\ (\E k \in loops' : k.owns) <=> (\E k \in loops : k.owns)
      BY <1>T, <3>1, <3>2, LoopMoves
    <3> QED BY <1>1, <2>3, <3>3 DEF PollTop, Ask
  <2> QED BY <1>1, <2>1, <2>2, <2>3 DEF PollTop
<1>2. CASE PollFails(l)
  <2>1. CASE ~l.owns
    BY <1>2, <2>1 DEF PollFails
  <2>2. CASE l.owns
    <3> DEFINE n == [l EXCEPT !.at = "ask"]
    <3>1. n \in Loop /\ n.owns = l.owns /\ n.job = l.job
      BY <1>T DEF Loop
    <3>2. loops' = (loops \ {l}) \cup {n}
      BY <1>2, <2>2 DEF PollFails
    <3> HIDE DEF n
    <3>3. /\ loops' \subseteq Loop
          /\ \A k, m \in loops' : k.owns /\ m.owns => k = m
          /\ \A m \in loops' : m.owns => \E k \in loops : k.owns /\ k.job = m.job
          /\ (\E k \in loops' : k.owns) <=> (\E k \in loops : k.owns)
      BY <1>T, <3>1, <3>2, LoopMoves
    <3> QED BY <1>2, <3>3 DEF PollFails
  <2> QED BY <2>1, <2>2
<1>3. CASE PollAnswer(l)
  <2>1. CASE Withdraw(l)
    BY <1>3, <2>1 DEF PollAnswer, Withdraw
  <2>2. CASE l.owns /\ ShowAnswer(l)
    <3>0. l.job = jobId /\ jobId \in Jobs
      BY <1>T, <2>2 DEF Loop
    <3>a. PICK answer \in Answers(l.job) :
            /\ jobStatus' = answer
            /\ jobResult' \in IF answer = "DONE" THEN {jobResult, l.job} ELSE {jobResult}
            /\ IF answer \in Terminal
                 THEN status' = "IDLE" /\ stored' = None /\ loops' = loops \ {l}
                 ELSE /\ loops' = (loops \ {l}) \cup {[l EXCEPT !.at = "ask"]}
                      /\ UNCHANGED <<status, stored>>
      BY <2>2 DEF ShowAnswer
    <3>b. /\ answer \in Accepted \cup {"FINALIZING"}
          /\ answer \in Terminal => answer = server[l.job]
      BY <1>3, <3>a DEF PollAnswer, Answers, Terminal, Accepted
    <3>1. CASE answer \in Terminal
      BY <1>3, <2>2, <3>0, <3>1, <3>a, <3>b DEF PollAnswer, Terminal
    <3>2. CASE answer \notin Terminal
      <4> DEFINE n == [l EXCEPT !.at = "ask"]
      <4>1. n \in Loop /\ n.owns = l.owns /\ n.job = l.job
        BY <1>T DEF Loop
      <4>2. loops' = (loops \ {l}) \cup {n}
        BY <3>2, <3>a
      <4> HIDE DEF n
      <4>3. /\ loops' \subseteq Loop
            /\ \A k, m \in loops' : k.owns /\ m.owns => k = m
            /\ \A m \in loops' : m.owns => \E k \in loops : k.owns /\ k.job = m.job
            /\ (\E k \in loops' : k.owns) <=> (\E k \in loops : k.owns)
        BY <1>T, <4>1, <4>2, LoopMoves
      <4> QED BY <1>3, <2>2, <3>0, <3>2, <3>a, <3>b, <4>3 DEF PollAnswer, Terminal
    <3> QED BY <3>1, <3>2
  <2> QED BY <1>3, <2>1, <2>2 DEF PollAnswer
<1> QED BY <1>1, <1>2, <1>3

\* Whatever starts a loop, or ends all of them.
LEMMA TokenKeeps ==
  ASSUME ClientInv, BecomeReady \/ ContinuePolling \/ SubmitAccepted \/ ResetAll \/ Reload
  PROVE  ClientInv'
<1> USE StatusFacts DEF ClientInv, TypeOK, ByStep, ByLoop, ShownVerdictIsReal, RunningJobIsResumable, StatusTellsWork, SaveableOutputExists,
    flowVars, prepVars, pickVars, jobVars, outputVars, fileVars, worldVars
<1>1. CASE BecomeReady
  <2>1. CASE stored = None
    BY <1>1, <2>1 DEF BecomeReady
  <2>2. CASE stored # None
    BY <1>1, <2>2, TokenTaken DEF BecomeReady
  <2> QED BY <2>1, <2>2
<1>2. CASE ContinuePolling
  BY <1>2, TokenTaken DEF ContinuePolling
<1>3. CASE SubmitAccepted
  <2>1. submit \in Submission
    BY <1>3 DEF SubmitAccepted
  <2>2. submit.job \in Jobs
    BY <2>1 DEF Submission
  <2> QED BY <1>3, <2>2, TokenTaken DEF SubmitAccepted
<1>4. CASE ResetAll
  BY <1>4, TokenTaken DEF ResetAll, Forget
<1>5. CASE Reload
  <2>2. TypeOK'
    BY <1>5, ReloadTyped
  <2> QED BY <1>5, <2>2 DEF Reload
<1> QED BY <1>1, <1>2, <1>3, <1>4, <1>5

\* Extraction and submission.
LEMMA PreparingKeeps ==
  ASSUME ClientInv,
         \/ OpenPicker \/ PickVideo \/ StartExtraction \/ FinishExtraction \/ Back
         \/ SubmitJob \/ SendCreate \/ SubmitFails \/ \E j \in Jobs : Serve(j)
  PROVE  ClientInv'
<1> USE StatusFacts DEF ClientInv, TypeOK, ByStep, ByLoop, ShownVerdictIsReal, RunningJobIsResumable, StatusTellsWork, SaveableOutputExists,
    flowVars, prepVars, pickVars, jobVars, outputVars, fileVars, worldVars
<1>1. CASE OpenPicker \/ PickVideo
  <2>1. /\ UNCHANGED <<extracting, submit, worldVars, outputVars, jobVars, flowVars>>
        /\ picking' \in BOOLEAN /\ {videoPath', audioInfo'} \subseteq Videos \cup {None}
    <3>1. CASE OpenPicker
      BY <3>1 DEF OpenPicker
    <3>2. CASE PickVideo
      <4>1. UNCHANGED <<extracting, submit, worldVars, outputVars, jobVars, flowVars>>
        BY <3>2 DEF PickVideo
      <4>2. /\ picking' = FALSE
            /\ \/ videoPath' \in Videos /\ audioInfo' = None
               \/ UNCHANGED <<videoPath, audioInfo>>
        BY <3>2 DEF PickVideo
      <4>3. {videoPath', audioInfo'} \subseteq Videos \cup {None}
        BY <4>2
      <4> QED BY <4>1, <4>2, <4>3
    <3> QED BY <1>1, <3>1, <3>2
  <2> QED BY <2>1
<1>2. CASE StartExtraction \/ FinishExtraction
  <2>1. CASE StartExtraction
    BY <2>1 DEF StartExtraction
  <2>2. CASE FinishExtraction
    <3>1. /\ extracting \in Videos /\ step # 3 /\ ready /\ submit = None
          /\ \A l \in loops : ~l.owns
      BY <2>2 DEF FinishExtraction
    <3>2. audioInfo' \in Videos \cup {None} /\ step' \in {step, 2}
      BY <2>2, <3>1 DEF FinishExtraction
    <3> QED BY <2>2, <3>1, <3>2 DEF FinishExtraction
  <2> QED BY <1>2, <2>1, <2>2
<1>3. CASE Back
  BY <1>3 DEF Back
<1>4. CASE SubmitJob
  <2>1. submit' \in Submission /\ submit' # None /\ submit'.job \in Jobs
    BY <1>4, ClientAssumption DEF SubmitJob, Submission
  <2>2. server' = [server EXCEPT ![submit'.job] = "NAMED"]
    BY <1>4 DEF SubmitJob
  <2> QED BY <1>4, <2>1, <2>2 DEF SubmitJob
<1>5. CASE SendCreate
  <2>1. submit \in Submission /\ submit.job \in Jobs /\ submit.audio \in Videos
    BY <1>5 DEF SendCreate, Submission
  <2>2. submit' \in Submission /\ submit'.at = "create"
    BY <1>5, <2>1 DEF SendCreate, Submission
  <2> QED BY <1>5, <2>1, <2>2, ClientAssumption DEF SendCreate
<1>6. CASE SubmitFails
  BY <1>6 DEF SubmitFails
<1>7. ASSUME NEW j \in Jobs, Serve(j) PROVE ClientInv'
  <2>1. PICK v \in Accepted \cup {"REFUSED"} : server' = [server EXCEPT ![j] = v]
    BY <1>7 DEF Serve
  <2>2. server[j] \notin Terminal \cup {"NAMED"}
    BY <1>7 DEF Serve, Terminal
  <2>3. \A i \in Jobs : server[i] \in Terminal \cup {"NAMED"} => server'[i] = server[i]
    BY <2>1, <2>2
  <2>4. submit # None => submit.job \in Jobs
    BY DEF Submission
  <2>5. "DONE" \in Terminal
    BY DEF Terminal
  <2>6. UNCHANGED <<origin, reloads, prepVars, outputVars, jobVars, flowVars>>
    BY <1>7 DEF Serve
  <2> QED BY <2>1, <2>3, <2>4, <2>5, <2>6
<1> QED BY <1>1, <1>2, <1>3, <1>4, <1>5, <1>6, <1>7

\* Assembly and saving.
LEMMA SavingKeeps ==
  ASSUME ClientInv,
         \/ DownloadAndMux \/ Downloaded \/ Muxed \/ AssemblyFails
         \/ OpenSaveDialog \/ SaveAssembled
  PROVE  ClientInv'
<1> USE StatusFacts DEF ClientInv, TypeOK, ByStep, ByLoop, ShownVerdictIsReal, RunningJobIsResumable, StatusTellsWork, SaveableOutputExists,
    flowVars, prepVars, pickVars, jobVars, outputVars, fileVars, worldVars
<1>1. CASE DownloadAndMux \/ Downloaded \/ AssemblyFails
  BY <1>1 DEF DownloadAndMux, Downloaded, AssemblyFails
<1>2. CASE Muxed
  BY <1>2 DEF Muxed, Output
<1>3. CASE OpenSaveDialog
  BY <1>3 DEF OpenSaveDialog
<1>4. CASE SaveAssembled
  BY <1>4 DEF SaveAssembled, SaveTo, Output
<1> QED BY <1>1, <1>2, <1>3, <1>4

LEMMA InvStep == ClientInv /\ [Next]_vars => ClientInv'
<1> SUFFICES ASSUME ClientInv, [Next]_vars PROVE ClientInv'
  OBVIOUS
<1>1. CASE UNCHANGED vars
  BY <1>1 DEF vars, ClientInv, TypeOK, ByStep, ByLoop, ShownVerdictIsReal, RunningJobIsResumable, StatusTellsWork, SaveableOutputExists,
    flowVars, prepVars, pickVars, jobVars, outputVars, fileVars, worldVars
<1> QED BY <1>1, PollingKeeps, TokenKeeps, PreparingKeeps, SavingKeeps DEF Next

LEMMA InvHolds == Spec => []ClientInv
BY InitHolds, InvStep, PTL DEF Spec
-----------------------------------------------------------------------------
\* Page, handlers in flight, polling loops and files stay well-formed: in
\* particular no loop asks beyond its budget.
THEOREM TypeCorrect == Spec => []TypeOK
<1>1. ClientInv => TypeOK
  BY DEF ClientInv
<1> QED BY <1>1, InvHolds, PTL

\* However loops replace each other, the verdict and the result on the screen
\* are the gateway's for the job on the screen.
THEOREM VerdictIsReal == Spec => []ShownVerdictIsReal
<1>1. ClientInv => ShownVerdictIsReal
  BY DEF ClientInv
<1> QED BY <1>1, InvHolds, PTL

\* A job shown without a verdict is the one a reload resumes.
THEOREM RunningIsResumable == Spec => []RunningJobIsResumable
<1>1. ClientInv => RunningJobIsResumable
  BY DEF ClientInv
<1> QED BY <1>1, InvHolds, PTL

\* The status the buttons look at says which handler is in flight.
THEOREM StatusIsTrue == Spec => []StatusTellsWork
<1>1. ClientInv => StatusTellsWork
  BY DEF ClientInv
<1> QED BY <1>1, InvHolds, PTL

\* What the Save button copies is in the temporary directory.
THEOREM SaveableExists == Spec => []SaveableOutputExists
<1>1. ClientInv => SaveableOutputExists
  BY DEF ClientInv
<1> QED BY <1>1, InvHolds, PTL

\* The stored job goes with its own verdict or with a new start, never because
\* another job was submitted or an older loop answered.
THEOREM ForgetsAtTheEnd == Spec => OnlyAnEndForgets
<1> DEFINE Forgets ==
      stored # None /\ stored' # stored =>
        server[stored] \in Terminal \/ (step = 3 /\ step' = 1)
<1>1. ClientInv /\ [Next]_vars => [Forgets]_vars
  <2> SUFFICES ASSUME ClientInv, Next, stored # None, stored' # stored
               PROVE  server[stored] \in Terminal \/ (step = 3 /\ step' = 1)
    OBVIOUS
  <2> USE DEF ClientInv, ByStep, ByLoop, RunningJobIsResumable
  <2>1. ASSUME NEW l \in loops, PollAnswer(l) PROVE server[stored] \in Terminal
    <3>1. CASE Withdraw(l)
      BY <2>1, <3>1 DEF PollAnswer, Withdraw
    <3>2. CASE l.owns /\ ShowAnswer(l)
      <4>1. PICK answer \in Answers(l.job) :
              IF answer \in Terminal THEN stored' = None ELSE UNCHANGED stored
        BY <3>2 DEF ShowAnswer
      <4> QED BY <2>1, <3>2, <4>1 DEF PollAnswer, Answers, Terminal
    <3> QED BY <2>1, <3>1, <3>2 DEF PollAnswer
  <2>2. CASE SubmitAccepted
    BY <2>2 DEF SubmitAccepted
  <2>3. CASE ResetAll
    BY <2>3 DEF ResetAll, Forget
  <2>4. CASE ~(SubmitAccepted \/ ResetAll \/ \E l \in loops : PollAnswer(l))
    BY <2>4
       DEF Next, BecomeReady, ContinuePolling, PollTop, PollFails, OpenPicker, PickVideo,
           StartExtraction, FinishExtraction, Back, SubmitJob, SendCreate, SubmitFails,
           Serve, DownloadAndMux, Downloaded, Muxed, AssemblyFails, OpenSaveDialog,
           SaveAssembled, Reload, flowVars
  <2> QED BY <2>1, <2>2, <2>3, <2>4
<1> QED BY <1>1, InvHolds, PTL DEF Spec, OnlyAnEndForgets
=============================================================================
