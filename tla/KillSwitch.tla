----------------------------- MODULE KillSwitch ------------------------------
(***************************************************************************)
(* The financial kill switch: the admin endpoint and the flag in KV        *)
(* (apps/gateway/src/index.ts), and the billing monitor that arms it       *)
(* (apps/gateway/scripts/kill-switch-monitor.mjs).                         *)
(*                                                                         *)
(* A handler reads the flag at its own edge location, which may lag behind *)
(* the last write (KV is eventually consistent).                           *)
(***************************************************************************)
EXTENDS Naturals

CONSTANTS
  Edges,       \* locations that serve requests
  Threshold,   \* SPEND_THRESHOLD_USD
  MaxSpend     \* bound

ASSUME KillSwitchAssumption ==
  /\ Threshold \in Nat \ {0}       \* the monitor refuses to start otherwise
  /\ MaxSpend \in Nat

VARIABLES
  spend,       \* what the billing API reports
  monitor,     \* "watching", "arming" (the POST is under way) or "exited"
  killSwitch,  \* KV_CACHE[KILL_SWITCH_KEY] = '1'
  edge,        \* [Edges -> the flag as read there]
  clearAsked   \* the last admin call said "active": false

switchVars == <<spend, monitor, killSwitch, edge, clearAsked>>

Body == {"true", "false", "garbled"}

SwitchTypeOK ==
  /\ spend \in 0..MaxSpend
  /\ monitor \in {"watching", "arming", "exited"}
  /\ killSwitch \in BOOLEAN
  /\ edge \in [Edges -> BOOLEAN]
  /\ clearAsked \in BOOLEAN

SwitchInit ==
  /\ spend = 0
  /\ monitor = "watching"
  /\ killSwitch = FALSE
  /\ edge = [e \in Edges |-> FALSE]
  /\ clearAsked = FALSE

isKillSwitchActive(e) == edge[e]

AdminCall_Bug(body) ==         \* a body that does not parse reads as {}
  /\ clearAsked' = (body = "false")
  /\ killSwitch' = (body = "true")

\* POST /api/admin/kill-switch with the right token; anything but a boolean
\* "active" is answered 400.
AdminCall(body) ==
  /\ clearAsked' = (body = "false")
  /\ killSwitch' = IF body = "garbled" THEN killSwitch ELSE body = "true"

OperatorCalls ==
  /\ \E body \in Body : AdminCall(body)
  /\ UNCHANGED <<spend, monitor, edge>>

Spend ==
  /\ spend < MaxSpend /\ spend' = spend + 1
  /\ UNCHANGED <<monitor, killSwitch, edge, clearAsked>>

\* readSpendUSD sees the threshold crossed; a failed or lower reading is
\* a step of the loop that changes nothing.
MonitorReads ==
  /\ monitor = "watching" /\ spend >= Threshold
  /\ monitor' = "arming"
  /\ UNCHANGED <<spend, killSwitch, edge, clearAsked>>

\* activateKillSwitch answered 200: the monitor stops.
MonitorArms ==
  /\ monitor = "arming" /\ monitor' = "exited"
  /\ AdminCall("true")
  /\ UNCHANGED <<spend, edge>>

MonitorFails_Bug ==            \* gives up for good
  /\ monitor = "arming" /\ monitor' = "exited"
  /\ UNCHANGED <<spend, killSwitch, edge, clearAsked>>

\* The call was refused or its answer lost: back to the loop.
MonitorFails ==
  /\ monitor = "arming" /\ monitor' = "watching"
  /\ \/ AdminCall("true")
     \/ UNCHANGED <<killSwitch, clearAsked>>
  /\ UNCHANGED <<spend, edge>>

RestartMonitor ==              \* by hand, or by the next cron run of ONESHOT
  /\ monitor = "exited" /\ monitor' = "watching"
  /\ UNCHANGED <<spend, killSwitch, edge, clearAsked>>

Replicate(e) ==
  /\ edge' = [edge EXCEPT ![e] = killSwitch]
  /\ UNCHANGED <<spend, monitor, killSwitch, clearAsked>>

SwitchNext ==
  \/ OperatorCalls \/ Spend
  \/ MonitorReads \/ MonitorArms \/ MonitorFails \/ RestartMonitor
  \/ \E e \in Edges : Replicate(e)

-----------------------------------------------------------------------------
\* Only an explicit "active": false disarms; a mangled call never does
\* (the comment at index.ts:405).
OnlyFalseDisarms == [][killSwitch /\ ~killSwitch' => clearAsked']_switchVars

\* While the monitor runs, spending past the threshold ends with the switch
\* on, whatever calls fail on the way.
OverspendArms == (spend >= Threshold /\ monitor # "exited") ~> killSwitch
=============================================================================
