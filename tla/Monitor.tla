------------------------------ MODULE Monitor -------------------------------
(* The Monitor plugin, for one observed plugin: it probes the plugin, has it*)
(* deactivated when it misbehaves, and activated again unless it failed too *)
(* often within a window of time.  What Thunder does with a plugin is       *)
(* modelled from the calls (IShell::Job, the notifications).  Measurements  *)
(* and intervals are left out: a misbehaving plugin is found at some time.  *)
EXTENDS Naturals

CONSTANTS
  RestartAllowed, \* HasRestartAllowed
  Limits,         \* values of _restartLimit, 0 is none
  Windows,        \* values of _restartWindow, 0 is none
  CountBits,      \* the width of _restartCount (32 in the code)
  MaxJobs         \* bound: deactivations submitted and not run

LimitsAssumption == Limits \subseteq Nat /\ Windows \subseteq Nat
WidthAssumption == CountBits \in Nat \ {0} /\ MaxJobs \in Nat /\ RestartAllowed \in BOOLEAN

VARIABLES
  plugin,         \* "healthy", "failing" or "deactivated"
  _active,        \* with _source set
  deactivate,     \* jobs that deactivate the plugin for a FAILURE
  activate,       \* whether a job that activates it is submitted
  _restartWindow, _restartLimit, _restartCount,
  windowOpen,     \* _restartWindowStart lies in the future
  decision,       \* history: what the last failure led to
  failures,       \* history: failures counted since the count began
  restarts        \* history: restarts among them

limitVars   == <<_restartWindow, _restartLimit>>
countVars   == <<_restartCount, decision, failures, restarts>>
monitorVars == <<plugin, _active, deactivate, activate, limitVars, windowOpen, countVars>>

(* The powers of two up to the width of the count.                         *)
TwoTo[n \in 0..CountBits] == IF n = 0 THEN 1 ELSE 2 * TwoTo[n - 1]

Bits == 0..(TwoTo[CountBits] - 1)

TypeOK ==
  /\ plugin \in {"healthy", "failing", "deactivated"}
  /\ _active \in BOOLEAN /\ activate \in BOOLEAN /\ windowOpen \in BOOLEAN
  /\ deactivate \in 0..MaxJobs
  /\ _restartWindow \in Windows /\ _restartLimit \in Limits
  /\ _restartCount \in Bits /\ failures \in Bits /\ restarts \in Bits
  /\ decision \in {"none", "Activate", "StoppedRestaring", "requested"}

Init ==
  /\ plugin = "deactivated" /\ _active = FALSE
  /\ deactivate = 0 /\ activate = FALSE
  /\ _restartWindow \in Windows /\ _restartLimit \in Limits /\ _restartCount = 0
  /\ windowOpen = FALSE
  /\ decision = "requested" /\ failures = 0 /\ restarts = 0

-----------------------------------------------------------------------------
(* Histories stop at the width of the count.                                *)
OneMore(n) == IF n \in Bits /\ n + 1 \in Bits THEN n + 1 ELSE n

(* RegisterRestart: the count grows by itself and one within the window;    *)
(* otherwise a window begins with this failure.                             *)
WithinWindow == windowOpen \/ _restartWindow = 0
Counted == IF WithinWindow THEN (_restartCount + _restartCount + 1) % TwoTo[CountBits] ELSE 0
(* Slip: one restart too many.                                              *)
MayRestartOnceMore(count) == _restartLimit = 0 \/ count <= _restartLimit

MayRestart(count) == _restartLimit = 0 \/ count < _restartLimit

RegisterRestart ==
  LET again == MayRestart(Counted) IN
  /\ _restartCount' = IF again THEN Counted ELSE 0
  /\ windowOpen' = (windowOpen \/ _restartWindow # 0)
  /\ failures' = IF WithinWindow THEN OneMore(failures) ELSE 1
  /\ restarts' = IF again THEN IF WithinWindow THEN OneMore(restarts) ELSE 1 ELSE restarts
  /\ activate' = (activate \/ again)
  /\ decision' = IF again THEN "Activate" ELSE "StoppedRestaring"

(* Deinitialized, for a failure or on request.                              *)
Deinitialized(failed) ==
  /\ _active' = FALSE
  /\ plugin' = "deactivated"
  /\ IF failed /\ RestartAllowed THEN RegisterRestart
     ELSE /\ decision' = "requested"
          /\ UNCHANGED <<activate, windowOpen, _restartCount, failures, restarts>>
  /\ UNCHANGED limitVars

(* Slip: the plugin is not probed again.                                    *)
ActivatedUnobserved ==
  /\ plugin = "deactivated"
  /\ plugin' = "healthy"
  /\ decision' = "none"
  /\ IF decision = "StoppedRestaring" THEN failures' = 0 /\ restarts' = 0
     ELSE UNCHANGED <<failures, restarts>>
  /\ UNCHANGED <<_active, deactivate, limitVars, windowOpen, _restartCount>>

(* Activated.  The histories of a count that was ended begin anew.          *)
Activated ==
  /\ plugin = "deactivated"
  /\ plugin' = "healthy" /\ _active' = TRUE
  /\ decision' = "none"
  /\ IF decision = "StoppedRestaring" THEN failures' = 0 /\ restarts' = 0
     ELSE UNCHANGED <<failures, restarts>>
  /\ UNCHANGED <<deactivate, limitVars, windowOpen, _restartCount>>

-----------------------------------------------------------------------------
(* Dispatch and Evaluate; also when the last deactivation has not run yet.  *)
Dispatch ==
  /\ _active /\ plugin = "failing" /\ deactivate < MaxJobs
  /\ deactivate' = deactivate + 1
  /\ UNCHANGED <<plugin, _active, activate, limitVars, windowOpen, countVars>>

DeactivateJob ==
  /\ deactivate > 0
  /\ deactivate' = deactivate - 1
  /\ IF plugin # "deactivated" THEN Deinitialized(TRUE)
     ELSE UNCHANGED <<plugin, _active, activate, limitVars, windowOpen, countVars>>

ActivateJob ==
  /\ activate
  /\ activate' = FALSE
  /\ IF plugin = "deactivated" THEN Activated
     ELSE UNCHANGED <<plugin, _active, deactivate, limitVars, windowOpen, countVars>>

-----------------------------------------------------------------------------
(* The plugin itself, its users, the window of time, and restartlimits.     *)
Misbehave ==
  /\ plugin = "healthy" /\ plugin' = "failing"
  /\ UNCHANGED <<_active, deactivate, activate, limitVars, windowOpen, countVars>>

Request ==
  \/ Activated /\ UNCHANGED activate
  \/ plugin # "deactivated" /\ Deinitialized(FALSE) /\ UNCHANGED deactivate

WindowEnds ==
  /\ windowOpen /\ windowOpen' = FALSE
  /\ UNCHANGED <<plugin, _active, deactivate, activate, limitVars, countVars>>

UpdateRestartLimits ==
  /\ _restartWindow' \in Windows /\ _restartLimit' \in Limits
  /\ UNCHANGED <<plugin, _active, deactivate, activate, windowOpen, countVars>>

Next ==
  \/ Dispatch \/ DeactivateJob \/ ActivateJob
  \/ Misbehave \/ Request \/ WindowEnds \/ UpdateRestartLimits

(* The job of the Monitor is scheduled again and again, those it submits are*)
(* run.                                                                     *)
Spec ==
  /\ Init /\ [][Next]_monitorVars
  /\ WF_monitorVars(Dispatch) /\ WF_monitorVars(DeactivateJob) /\ WF_monitorVars(ActivateJob)
-----------------------------------------------------------------------------
(* A plugin is restarted at most as often as its limit says before the      *)
(* Monitor gives up or a new window begins (MonitorObject::RegisterRestart).*)
RestartsAreLimited ==
  [][restarts' > restarts => _restartLimit = 0 \/ restarts' <= _restartLimit]_monitorVars

(* A plugin that misbehaves is up and healthy again, given up, or was       *)
(* stopped by request (MonitorObjects::Dispatch, Deinitialized).            *)
FailureIsHandled ==
  plugin = "failing" ~> plugin = "healthy" \/ decision \in {"StoppedRestaring", "requested"}
=============================================================================
