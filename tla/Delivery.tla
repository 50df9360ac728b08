------------------------------ MODULE Delivery -------------------------------
(* What the plugins that pass messages on must do in the end: a behaviour is*)
(* a behaviour of one of them, `service', while the others stay as they     *)
(* begin.                                                                   *)
EXTENDS Naturals

CONSTANTS
  (* RuntimeManager *)
  RuntimeApp, Inst, RuntimeAppOf, NumUids, MinPool, RuntimeFailing,
  (* AppGateway and AppNotifications *)
  GatewayClient, Asks, Missing, GatewayFailing,
  (* Analytics *)
  Event, Epoch,
  (* Monitor *)
  RestartAllowed, Limits, Windows, CountBits, MaxJobs,
  (* PackageDownloader *)
  DownloadId, DownloadCaller, Retries, MayDeinitialize, DownloadFailing,
  (* WindowManager *)
  DisplayCaller, ClientOf, MaxDeinits, WindowFailing,
  (* RDKShell *)
  ShellApp, ShellCall, ShellAppOf, KindOf, Installed, Workers, ShellFailing

VARIABLES
  service,
  (* RuntimeManager *)
  mOciContainerObject, mUserIdAvailablePool, mUserIdMap, mRuntimeAppInfo, status, container,
  uid, jobs, told,
  (* AppGateway and AppNotifications *)
  mSubscribers, leaving, subscriberJobs, mRegisteredNotifications, listening, emitJob, stopped,
  connection, mAppIdMap, wsJobs, asked, received, dropped,
  (* Analytics *)
  accepted, mActionQueue, mEventQueue, mSysTimeValid, timeAvailable, action, sent,
  (* Monitor *)
  plugin, _active, deactivate, activate, _restartWindow, _restartLimit, _restartCount,
  windowOpen, decision, failures, restarts,
  (* PackageDownloader *)
  mDownloadQueue, mInprogressDownload, at, done, attempt, httpStatus, file, reason, cancelled,
  bCancel, paused, calling, aborted,
  (* WindowManager *)
  gCreateDisplayRequests, clients, pc, posted, mResult, sRunning, shellThread, deinitialize,
  deinits,
  (* RDKShell, names it shares with the others prefixed *)
  gLaunchApplications, gDestroyApplications, gExternalDestroyApplications, gActivePluginsData,
  gStateNotifications, gDestroyMutex, shellCreateDisplayRequests, gKillClientRequests,
  shellPosted, shellPc, launchType, retried, result, running, shellPlugin, shellClients,
  undisplayed, untimely

RM == INSTANCE RuntimeManager
        WITH App <- RuntimeApp, AppOf <- RuntimeAppOf, Failing <- RuntimeFailing
AG == INSTANCE AppGateway WITH Client <- GatewayClient, Failing <- GatewayFailing
AN == INSTANCE Analytics
MO == INSTANCE Monitor
PD == INSTANCE PackageDownloader WITH Caller <- DownloadCaller, Failing <- DownloadFailing
WM == INSTANCE WindowManager WITH Caller <- DisplayCaller, Failing <- WindowFailing
RS == INSTANCE RDKShell
        WITH App <- ShellApp, Call <- ShellCall, AppOf <- ShellAppOf, Failing <- ShellFailing,
             gCreateDisplayRequests <- shellCreateDisplayRequests, posted <- shellPosted,
             pc <- shellPc, plugin <- shellPlugin, clients <- shellClients

ASSUME RuntimeManagerConstants ==
  RM!InstanceAssumption /\ RM!UidAssumption /\ RM!RunFailingAssumption
ASSUME AppGatewayConstants ==
  AG!AsksAssumption /\ AG!MissingAssumption /\ AG!ModuleAssumption
ASSUME AnalyticsConstants == AN!EpochAssumption
ASSUME MonitorConstants == MO!LimitsAssumption /\ MO!WidthAssumption
ASSUME PackageDownloaderConstants ==
  PD!DownloadIdAssumption /\ PD!RetriesAssumption /\ PD!AttemptFailingAssumption
ASSUME WindowManagerConstants == WM!ClientAssumption /\ WM!CompositorAssumption
ASSUME RDKShellConstants == RS!CallAssumption /\ RS!PoolAssumption

Service == {"RuntimeManager", "AppGateway", "Analytics", "Monitor", "PackageDownloader",
            "WindowManager", "RDKShell"}

runtimeVars   == <<mOciContainerObject, mUserIdAvailablePool, mUserIdMap, mRuntimeAppInfo,
                   status, container, uid, jobs, told>>
gatewayVars   == <<mSubscribers, leaving, subscriberJobs, mRegisteredNotifications, listening,
                   emitJob, stopped, connection, mAppIdMap, wsJobs, asked, received,
                   dropped>>
analyticsVars == <<accepted, mActionQueue, mEventQueue, mSysTimeValid, timeAvailable, action,
                   sent>>
monitorVars   == <<plugin, _active, deactivate, activate, _restartWindow, _restartLimit,
                   _restartCount, windowOpen, decision, failures, restarts>>
downloaderVars == <<mDownloadQueue, mInprogressDownload, at, done, attempt, httpStatus, file,
                    reason, cancelled, bCancel, paused, calling, aborted>>
windowVars    == <<gCreateDisplayRequests, clients, pc, posted, mResult, sRunning, shellThread,
                   deinitialize, deinits>>
shellVars     == <<gLaunchApplications, gDestroyApplications, gExternalDestroyApplications,
                   gActivePluginsData, gStateNotifications, gDestroyMutex,
                   shellCreateDisplayRequests, gKillClientRequests, shellPosted, shellPc,
                   launchType, retried, result, running, shellPlugin, shellClients,
                   undisplayed, untimely>>
vars == <<service, runtimeVars, gatewayVars, analyticsVars, monitorVars, downloaderVars,
          windowVars, shellVars>>

TypeOK ==
  /\ RM!TypeOK /\ AG!GatewayTypeOK /\ AN!TypeOK /\ MO!TypeOK /\ PD!TypeOK /\ WM!TypeOK
  /\ RS!TypeOK

Init ==
  /\ service \in Service
  /\ RM!Init /\ AG!GatewayInit /\ AN!Init /\ PD!Init /\ WM!Init /\ RS!Init
  /\ MO!Init /\ (service # "Monitor" => _restartWindow = 0 /\ _restartLimit = 0)

(* Steps of s alone.                                                        *)
Only(s) ==
  /\ service = s /\ UNCHANGED service
  /\ s # "RuntimeManager" => UNCHANGED runtimeVars
  /\ s # "AppGateway"     => UNCHANGED gatewayVars
  /\ s # "Analytics"      => UNCHANGED analyticsVars
  /\ s # "Monitor"        => UNCHANGED monitorVars
  /\ s # "PackageDownloader" => UNCHANGED downloaderVars
  /\ s # "WindowManager"  => UNCHANGED windowVars
  /\ s # "RDKShell"       => UNCHANGED shellVars

Next ==
  \/ Only("RuntimeManager") /\ RM!Next
  \/ Only("AppGateway")     /\ AG!Next
  \/ Only("Analytics")      /\ AN!Next
  \/ Only("Monitor")        /\ MO!Next
  \/ Only("PackageDownloader") /\ PD!Next
  \/ Only("WindowManager")  /\ WM!Next
  \/ Only("RDKShell")       /\ RS!Next

(* The fairness that each plugin's own specification states.  One condition *)
(* is enough for six of them, since a behaviour has steps of one only.    *)
Spec ==
  /\ Init /\ [][Next]_vars
  /\ WF_vars(\/ Only("RuntimeManager") /\ RM!WorkerPool
             \/ Only("AppGateway") /\ AG!Progress
             \/ Only("Analytics") /\ AN!Loop
             \/ Only("PackageDownloader") /\ PD!DownloaderRuns
             \/ Only("WindowManager") /\ WM!Background
             \/ Only("RDKShell") /\ RS!Runs)
  /\ WF_vars(Only("Monitor") /\ MO!Dispatch)
  /\ WF_vars(Only("Monitor") /\ MO!DeactivateJob)
  /\ WF_vars(Only("Monitor") /\ MO!ActivateJob)
-----------------------------------------------------------------------------
(* The properties of the plugins, stated where they are modelled.           *)
EndIsTold           == RM!EndIsTold
RequestIsAnswered   == AG!RequestIsAnswered
SubscriberIsServed  == AG!SubscriberIsServed
UptimeEventsInOrder == AN!UptimeEventsInOrder
EventIsSent         == AN!EventIsSent
RestartsAreLimited  == MO!RestartsAreLimited
FailureIsHandled    == MO!FailureIsHandled
DownloadIsReported  == PD!DownloadIsReported
DisplayIsAnswered   == WM!DisplayIsAnswered
CallsReturn         == RS!CallsReturn
=============================================================================
