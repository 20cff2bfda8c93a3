------------------------------ MODULE ClientJob ------------------------------
(***************************************************************************)
(* The desktop client's job flow (apps/client/src/App.tsx): pick a video,  *)
(* extract its audio, submit a job, follow it, assemble and save the       *)
(* result, start over.                                                     *)
(*                                                                         *)
(* Handlers are async closures over the state of the render that created   *)
(* them: between two awaits any other handler may run, and what a handler  *)
(* captured may be out of date.  Each in-flight handler is a variable that *)
(* holds what it captured.  A reload loses every variable but localStorage *)
(* (stored), the temporary files and the server's jobs.                    *)
(***************************************************************************)
EXTENDS Naturals

CONSTANTS
  Videos, Jobs,
  None,
  Rounds,      \* polls that fit in CLIENT_POLL_BUDGET_MS
  MaxReloads   \* bound: reloads of the app

Terminal == {"DONE", "FAILED"}             \* FAILED stands for every verdict but DONE
Accepted == {"QUEUED"} \cup Terminal
Submission == [at: {"upload", "create"}, job: Jobs, audio: Videos]

ASSUME ClientAssumption ==
  /\ None \notin Videos \cup Jobs \cup Submission \cup Accepted
  /\ Rounds \in Nat \ {0}
  /\ MaxReloads \in Nat

VARIABLES
  ready,       \* identity = READY
  step,        \* 1 prepare, 2 edit and submit, 3 follow
  status,      \* what the buttons look at
  picking,     \* the open dialog of pickVideo
  videoPath,
  audioInfo,   \* the video the extracted audio comes from
  extracting,  \* the video startExtraction captured
  submit,      \* submitJob in flight: [at, job, audio]
  jobId, jobStatus,
  jobResult,   \* the job whose downloadUrl jobResult holds
  loops,       \* pollJob in flight: [job, left, at, owns]
  assembly,    \* downloadAndMux in flight: [at, job, video]; assembling
  saving,      \* outputs whose save dialog the Save button opened
  outputVideo, \* outputVideoPath: which job's dub on which video
  savedPath,   \* likewise, for the saved file
  stored,      \* localStorage[ACTIVE_JOB_KEY]
  temp,        \* muxed videos in the temporary directory
  server,      \* [Jobs -> what the gateway says of the job]
  origin,      \* [Jobs -> the video whose audio was submitted]
  reloads

flowVars == <<ready, step, status, loops, stored>>
pickVars == <<picking, videoPath, audioInfo, extracting>>
prepVars == <<pickVars, submit>>
jobVars == <<jobId, jobStatus, jobResult>>
fileVars == <<outputVideo, savedPath, temp>>
outputVars == <<assembly, saving, fileVars>>
worldVars == <<server, origin, reloads>>
vars == <<flowVars, prepVars, jobVars, outputVars, worldVars>>

Loop == [job: Jobs, left: 0..Rounds, at: {"ask", "answer"}, owns: BOOLEAN]
Output == [job: Jobs, video: Videos]

TypeOK ==
  /\ ready \in BOOLEAN /\ picking \in BOOLEAN
  /\ step \in 1..3
  /\ status \in {"IDLE", "EXTRACTING", "UPLOADING_AUDIO", "SUBMITTING", "PROCESSING"}
  /\ {videoPath, audioInfo, extracting} \subseteq Videos \cup {None}
  /\ submit \in Submission \cup {None}
  /\ {jobId, jobResult, stored} \subseteq Jobs \cup {None}
  /\ jobStatus \in Accepted \cup {"FINALIZING", "POLL_PAUSED", None}
  /\ loops \subseteq Loop
  /\ assembly = None \/ assembly \in [at: {"download", "mux", "save"}, job: Jobs, video: Videos]
  /\ {outputVideo, savedPath} \subseteq Output \cup {None}
  /\ saving \subseteq Output /\ temp \subseteq Output
  /\ server \in [Jobs -> Accepted \cup {"UNUSED", "NAMED", "SENT", "REFUSED"}]
  /\ origin \in [Jobs -> Videos \cup {None}]
  /\ reloads \in 0..MaxReloads

Init ==
  /\ step = 1 /\ status = "IDLE" /\ ready = FALSE /\ picking = FALSE
  /\ videoPath = None /\ audioInfo = None /\ extracting = None /\ submit = None
  /\ jobId = None /\ jobStatus = None /\ jobResult = None
  /\ loops = {} /\ assembly = None /\ saving = {}
  /\ outputVideo = None /\ savedPath = None
  /\ stored = None /\ temp = {} /\ reloads = 0
  /\ server = [j \in Jobs |-> "UNUSED"] /\ origin = [j \in Jobs |-> None]

-----------------------------------------------------------------------------
(* pollJob.  The token of a loop is current iff its owns is TRUE: whoever  *)
(* takes the token turns the owns of every other loop off.                 *)

Disowned == {[l EXCEPT !.owns = FALSE] : l \in loops}
PollJob(j) == loops' = Disowned \cup {[job |-> j, left |-> Rounds, at |-> "ask", owns |-> TRUE]}

Pause(l) ==                    \* out of budget: soft, the job stays stored
  /\ l.owns /\ l.left = 0
  /\ loops' = loops \ {l}
  /\ jobStatus' = "POLL_PAUSED" /\ status' = "IDLE"

Ask(l) ==
  /\ l.owns
  /\ loops' = (loops \ {l}) \cup {[l EXCEPT !.at = "answer", !.left = @ - 1]}
  /\ UNCHANGED <<jobStatus, status>>

Withdraw(l) ==                 \* the token is lost
  /\ ~l.owns
  /\ loops' = loops \ {l}
  /\ UNCHANGED <<jobStatus, status>>

PollTop_Bug(l) ==              \* one request beyond the budget
  /\ l.at = "ask"
  /\ Withdraw(l) \/ Pause(l) \/ Ask(l)
  /\ UNCHANGED <<ready, step, jobId, jobResult, stored, worldVars, prepVars, outputVars>>

\* The top of the loop: a lost token or a spent budget ends it.
PollTop(l) ==
  /\ l.at = "ask"
  /\ Withdraw(l) \/ Pause(l) \/ (l.left > 0 /\ Ask(l))
  /\ UNCHANGED <<ready, step, jobId, jobResult, stored, worldVars, prepVars, outputVars>>

\* Nothing to show: the network failed, or the answer was not 2xx.
PollFails(l) ==
  /\ l.at = "answer"
  /\ loops' = (loops \ {l}) \cup (IF l.owns THEN {[l EXCEPT !.at = "ask"]} ELSE {})
  /\ UNCHANGED <<ready, stored, step, status, worldVars, prepVars, outputVars, jobVars>>

\* A finished job whose result the gateway does not find is FINALIZING.
Answers(j) == {server[j]} \cup (IF server[j] = "DONE" THEN {"FINALIZING"} ELSE {})

ShowAnswer(l) ==
  \E answer \in Answers(l.job) :
    /\ jobStatus' = answer
    /\ jobResult' \in IF answer = "DONE" THEN {jobResult, l.job} ELSE {jobResult}
    /\ IF answer \in Terminal
         THEN status' = "IDLE" /\ stored' = None /\ loops' = loops \ {l}
         ELSE /\ loops' = (loops \ {l}) \cup {[l EXCEPT !.at = "ask"]}
              /\ UNCHANGED <<status, stored>>

PollAnswer_Bug(l) ==           \* no token check after the await
  /\ l.at = "answer" /\ server[l.job] \in Accepted
  /\ ShowAnswer(l)
  /\ UNCHANGED <<ready, step, jobId, worldVars, prepVars, outputVars>>

PollAnswer(l) ==
  /\ l.at = "answer" /\ server[l.job] \in Accepted
  /\ \/ Withdraw(l) /\ UNCHANGED <<jobResult, stored>>
     \/ l.owns /\ ShowAnswer(l)
  /\ UNCHANGED <<ready, step, jobId, worldVars, prepVars, outputVars>>

ContinuePolling ==             \* the button of POLL_PAUSED
  /\ step = 3 /\ jobStatus = "POLL_PAUSED" /\ status # "PROCESSING"
  /\ PollJob(jobId)
  /\ status' = "PROCESSING"
  /\ UNCHANGED <<ready, step, stored, worldVars, prepVars, outputVars, jobVars>>

BecomeReady_Bug ==             \* shows the stored job, polls nothing
  /\ ~ready /\ ready' = TRUE
  /\ jobId' = stored
  /\ step' = IF stored = None THEN step ELSE 3
  /\ UNCHANGED <<status, loops, jobStatus, jobResult, stored, worldVars, prepVars, outputVars>>

\* The identity is restored; the resume effect runs before any click.
BecomeReady ==
  /\ ~ready /\ ready' = TRUE
  /\ \/ /\ stored = None
        /\ UNCHANGED <<step, status, jobId, loops>>
     \/ /\ stored # None
        /\ jobId' = stored /\ step' = 3 /\ status' = "PROCESSING"
        /\ PollJob(stored)
  /\ UNCHANGED <<jobStatus, jobResult, stored, worldVars, prepVars, outputVars>>

-----------------------------------------------------------------------------
(* Step 1: pick a video and extract its audio.                             *)

OpenPicker ==
  /\ ready /\ step = 1 /\ ~picking
  /\ picking' = TRUE
  /\ UNCHANGED <<videoPath, audioInfo, extracting, submit, flowVars, jobVars, outputVars, worldVars>>

\* The dialog answers, or is cancelled, whatever the app does by then.
PickVideo ==
  /\ picking /\ picking' = FALSE
  /\ \/ /\ videoPath' \in Videos
        /\ audioInfo' = None
     \/ UNCHANGED <<videoPath, audioInfo>>
  /\ UNCHANGED <<extracting, submit, worldVars, outputVars, jobVars, flowVars>>

StartExtraction ==
  /\ ready /\ step = 1 /\ videoPath # None /\ status = "IDLE"
  /\ status' = "EXTRACTING" /\ extracting' = videoPath
  /\ UNCHANGED <<ready, step, picking, videoPath, audioInfo, submit, loops, stored, worldVars,
                 outputVars, jobVars>>

FinishExtraction ==
  /\ extracting # None /\ extracting' = None
  /\ status' = "IDLE"
  /\ \/ audioInfo' = extracting /\ step' = 2
     \/ UNCHANGED <<audioInfo, step>>          \* ffmpeg failed
  /\ UNCHANGED <<ready, picking, videoPath, submit, loops, stored, worldVars, outputVars, jobVars>>

Back ==                        \* enabled whatever the status
  /\ step = 2 /\ step' = 1
  /\ UNCHANGED <<ready, status, loops, stored, worldVars, prepVars, outputVars, jobVars>>

-----------------------------------------------------------------------------
(* Step 2: submitJob.  The id is new, so the gateway sees a new job.       *)

SubmitJob ==
  /\ step = 2 /\ status = "IDLE" /\ audioInfo # None
  /\ \E j \in Jobs :
       /\ server[j] = "UNUSED"
       /\ server' = [server EXCEPT ![j] = "NAMED"]
       /\ submit' = [at |-> "upload", job |-> j, audio |-> audioInfo]
  /\ status' = "UPLOADING_AUDIO"
  /\ UNCHANGED <<ready, step, loops, stored, origin, reloads, pickVars, outputVars, jobVars>>

\* uploadAudioForWorker returned the GET url: the create request leaves.
SendCreate ==
  /\ submit # None /\ submit.at = "upload"
  /\ submit' = [submit EXCEPT !.at = "create"]
  /\ status' = "SUBMITTING"
  /\ server' = [server EXCEPT ![submit.job] = "SENT"]
  /\ origin' = [origin EXCEPT ![submit.job] = submit.audio]
  /\ UNCHANGED <<ready, step, loops, stored, reloads, pickVars, outputVars, jobVars>>

\* Mint, upload or create failed, or the answer was lost; a request that
\* left may still be accepted.
SubmitFails ==
  /\ submit # None /\ submit' = None
  /\ status' = "IDLE"
  /\ UNCHANGED <<ready, step, loops, stored, worldVars, pickVars, outputVars, jobVars>>

\* 202: show the job, store it, poll it.
SubmitAccepted ==
  /\ submit # None /\ submit.at = "create" /\ server[submit.job] \in Accepted
  /\ submit' = None
  /\ jobId' = submit.job /\ jobStatus' = "QUEUED" /\ stored' = submit.job
  /\ step' = 3 /\ status' = "PROCESSING"
  /\ PollJob(submit.job)
  /\ UNCHANGED <<ready, jobResult, worldVars, pickVars, outputVars>>

\* The gateway: accepts or refuses a request, and one day concludes.
Serve(j) ==
  /\ \/ server[j] = "SENT" /\ server' = [server EXCEPT ![j] = "QUEUED"]
     \/ server[j] = "SENT" /\ server' = [server EXCEPT ![j] = "REFUSED"]
     \/ server[j] = "QUEUED" /\ \E v \in Terminal : server' = [server EXCEPT ![j] = v]
  /\ UNCHANGED <<origin, reloads, prepVars, outputVars, jobVars, flowVars>>

-----------------------------------------------------------------------------
(* Step 3: downloadAndMux and saveAssembled.                               *)

DownloadAndMux ==
  /\ step = 3 /\ jobStatus = "DONE" /\ jobResult # None /\ videoPath # None
  /\ assembly = None /\ outputVideo = None /\ savedPath = None
  /\ assembly' = [at |-> "download", job |-> jobResult, video |-> videoPath]
  /\ UNCHANGED <<saving, fileVars, prepVars, jobVars, flowVars, worldVars>>

\* The track is on disk: ffmpeg starts.
Downloaded ==
  /\ assembly # None /\ assembly.at = "download"
  /\ assembly' = [assembly EXCEPT !.at = "mux"]
  /\ UNCHANGED <<saving, fileVars, prepVars, jobVars, flowVars, worldVars>>

\* The muxed file is there; saveAssembled opens the dialog.
Muxed ==
  /\ assembly # None /\ assembly.at = "mux"
  /\ assembly' = [assembly EXCEPT !.at = "save"]
  /\ LET out == [job |-> assembly.job, video |-> assembly.video]
     IN outputVideo' = out /\ temp' = temp \cup {out}
  /\ UNCHANGED <<saving, savedPath, worldVars, prepVars, jobVars, flowVars>>

\* Download or mux failed: nothing but the error is left.
AssemblyFails ==
  /\ assembly # None /\ assembly.at \in {"download", "mux"}
  /\ assembly' = None
  /\ UNCHANGED <<saving, fileVars, prepVars, jobVars, flowVars, worldVars>>

OpenSaveDialog ==              \* the Save button; not awaited, not caught
  /\ step = 3 /\ jobStatus = "DONE" /\ jobResult # None /\ videoPath # None
  /\ assembly = None /\ outputVideo # None /\ savedPath = None
  /\ saving' = saving \cup {outputVideo}
  /\ UNCHANGED <<assembly, worldVars, prepVars, fileVars, jobVars, flowVars>>

SaveTo_Bug(out) ==             \* a cancelled dialog drops the file as well
  /\ temp' = temp \ {out}
  /\ \/ UNCHANGED <<savedPath, outputVideo>>
     \/ out \in temp /\ savedPath' = out /\ outputVideo' = None

\* The dialog's answer: cancelled, a path the copy fails for, or saved.
SaveTo(out) ==
  \/ UNCHANGED fileVars
  \/ /\ out \in temp
     /\ savedPath' = out /\ outputVideo' = None
     /\ temp' = temp \ {out}

SaveAssembled ==
  /\ \/ /\ assembly # None /\ assembly.at = "save"
        /\ SaveTo([job |-> assembly.job, video |-> assembly.video])
        /\ assembly' = None
        /\ UNCHANGED saving
     \/ /\ \E out \in saving : SaveTo(out) /\ saving' = saving \ {out}
        /\ UNCHANGED assembly
  /\ UNCHANGED <<worldVars, prepVars, jobVars, flowVars>>

-----------------------------------------------------------------------------
(* Starting over.                                                          *)

Forget ==
  /\ step = 3 /\ step' = 1
  /\ temp' = temp \ {outputVideo}
  /\ loops' = Disowned /\ stored' = None
  /\ videoPath' = None /\ audioInfo' = None
  /\ jobId' = None /\ jobStatus' = None /\ jobResult' = None
  /\ outputVideo' = None /\ savedPath' = None
  /\ UNCHANGED <<ready, picking, extracting, submit, assembly, saving, worldVars>>

ResetAll_Bug == Forget /\ UNCHANGED status    \* keeps the status of the loop it disowned

\* Always enabled: a poll, an assembly or a dialog may be in flight.
ResetAll == Forget /\ status' = "IDLE"

\* The app is closed or reloaded and starts again.
Reload ==
  /\ reloads < MaxReloads /\ reloads' = reloads + 1
  /\ step' = 1 /\ status' = "IDLE" /\ ready' = FALSE /\ picking' = FALSE
  /\ videoPath' = None /\ audioInfo' = None /\ extracting' = None /\ submit' = None
  /\ jobId' = None /\ jobStatus' = None /\ jobResult' = None
  /\ loops' = {} /\ assembly' = None /\ saving' = {}
  /\ outputVideo' = None /\ savedPath' = None
  /\ UNCHANGED <<stored, temp, server, origin>>

Next ==
  \/ BecomeReady \/ ContinuePolling
  \/ \E l \in loops : PollTop(l)
  \/ \E l \in loops : PollFails(l)
  \/ \E l \in loops : PollAnswer(l)
  \/ OpenPicker \/ PickVideo \/ StartExtraction \/ FinishExtraction \/ Back
  \/ SubmitJob \/ SendCreate \/ SubmitFails \/ SubmitAccepted
  \/ \E j \in Jobs : Serve(j)
  \/ DownloadAndMux \/ Downloaded \/ Muxed \/ AssemblyFails
  \/ OpenSaveDialog \/ SaveAssembled
  \/ ResetAll \/ Reload

\* The browser runs the effect and the loop; fetch and the timer settle.
Polling == \E l \in loops : PollTop(l) \/ PollFails(l) \/ PollAnswer(l)
Fairness == WF_vars(BecomeReady) /\ WF_vars(Polling)

Spec == Init /\ [][Next]_vars /\ Fairness

-----------------------------------------------------------------------------
(* Correctness *)

\* A verdict on the screen is the gateway's verdict on the job on the screen,
\* and so is the result: a poll that was replaced shows nothing (pollJob's owns).
ShownVerdictIsReal ==
  /\ jobStatus \in Terminal => jobId # None /\ jobStatus = server[jobId]
  /\ jobResult # None => jobResult = jobId /\ server[jobId] = "DONE"

\* A job that is shown without a verdict survives a reload: it is the stored
\* one, also while polling is paused (persistActiveJob, clearActiveJob).
RunningJobIsResumable ==
  jobId # None /\ jobStatus \notin Terminal => stored = jobId

\* The status that enables the buttons tells the truth: no spinner without
\* somebody working, and never two extractions or submissions at once.
StatusTellsWork ==
  /\ (status = "EXTRACTING") <=> (extracting # None)
  /\ (status \in {"UPLOADING_AUDIO", "SUBMITTING"}) <=> (submit # None)
  /\ (status = "PROCESSING") <=> (\E l \in loops : l.owns)

\* The file the Save button would copy is there, whichever dialogs and
\* cleanups ran (saveAssembled, resetAll).
SaveableOutputExists == outputVideo # None => outputVideo \in temp

\* A stored job is forgotten only for its own verdict, or by starting over.
OnlyAnEndForgets ==
  [][stored # None /\ stored' # stored =>
     server[stored] \in Terminal \/ (step = 3 /\ step' = 1)]_vars

\* A stored job does not hang: the app ends up with its verdict, with the
\* offer to continue, or starts over, whatever the gateway does.
StoredJobSettles ==
  \A j \in Jobs : stored = j ~> (stored # j \/ jobStatus = "POLL_PAUSED")

\* The file a finished job's page offers to save, or reports saved, is that
\* job's dub on the video the job was made from (App.tsx:528, tauri.ts:48).
OutputMatchesJob ==
  step = 3 /\ jobStatus = "DONE" =>
    \A out \in {outputVideo, savedPath} \ {None} :
      out.job = jobId /\ out.video = origin[out.job]
=============================================================================
