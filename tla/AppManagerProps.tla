-------------------------- MODULE AppManagerProps ---------------------------
(* The properties of AppManager and of its composition with PackageManager. *)
EXTENDS AppManager

(* An instance that AppManager has asked the LifecycleManager to end is     *)
(* reported as closed, never as crashed, however its events are ordered:    *)
(* the mark set before UnloadApp or KillApp is still there when its UNLOADED*)
(* is delivered (LifecycleInterfaceConnector::terminateApp, killApp,        *)
(* OnAppLifecycleStateChanged).                                             *)
AskedIsMarked == asked # {} => terminating

(* Who waits for whom: for the connector's lock, for the LifecycleManager's *)
(* (held by the notifier while it delivers), for mAdminLock and for         *)
(* mAppManagerLock.                                                         *)
Thread == Client \cup {"worker", "notifier"}

WantsConnector(t) ==
  \/ t = "worker"   /\ wpc \in {"load", "connect"}
  \/ t = "notifier" /\ notifying # NoJob
  \/ t \in Client   /\ pc[t] \in {"close", "terminate", "kill", "getLoaded", "relock"}

WantsLifecycle(t) ==
  \/ t = "worker" /\ (wpc = "spawn" \/ (wpc = "resume" /\ Loaded(mAppInfo.inst)))
  \/ /\ t \in Client /\ Loaded(target[t])
     /\ pc[t] \in {"setPaused", "setSuspended", "setHibernated", "unload"}

WantsAdmin(t) == t = "worker" /\ wpc = "failed"
WantsQueue(t) == t \in Client /\ pc[t] \in Request

WaitsFor(t, u) ==
  \/ WantsConnector(t) /\ connOwner = u
  \/ WantsLifecycle(t) /\ notifying # NoJob /\ u = "notifier"
  \/ WantsAdmin(t) /\ adminOwner = u
  \/ WantsQueue(t) /\ queueOwner = u

(* The threads wait for one another in two ways only: whoever calls the     *)
(* LifecycleManager with the connector's lock held against the delivery of  *)
(* an event, and a worker whose request has failed against LaunchApp or     *)
(* PreloadApp.  Every other wait ends (AppManagerImplementation,            *)
(* LifecycleInterfaceConnector).                                            *)
KnownPair(t, u) == (t = "notifier" /\ WantsLifecycle(u)) \/ (WantsAdmin(t) /\ WantsQueue(u))

OnlyKnownDeadlocks ==
  /\ \A t, u \in Thread :
       WaitsFor(t, u) /\ WaitsFor(u, t) => KnownPair(t, u) \/ KnownPair(u, t)
  /\ \A t, u, w \in Thread : ~(WaitsFor(t, u) /\ WaitsFor(u, w) /\ WaitsFor(w, t))

(* An install that waits for a lock has a lock to wait for: the last unlock *)
(* of the package does not leave it behind (PackageManagerImplementation::  *)
(* Install, Unlock; without Uninstall calls, see the README).               *)
BlockedIsDue ==
  (\E v \in Version : installState[v] = "INSTALLATION_BLOCKED")
    => \E w \in Version : mLockCount[w] > 0

-----------------------------------------------------------------------------
(* Statements of the repository that the code does not keep. *)

(* LifecycleManagerImplementation.cpp:340, UnloadApp: "clients should use   *)
(* the onAppStateChange event to determine when the app is actually         *)
(* terminated": AppManager does not give up the version an instance was     *)
(* launched from before it is.                                              *)
VersionKeptUntilTerminated ==
  [][\A v \in Version :
       installState'[v] = "UNINSTALLED" /\ installState[v] # "UNINSTALLED"
         => ~(mAppInfo.version = v /\ Loaded(mAppInfo.inst))]_vars
=============================================================================
