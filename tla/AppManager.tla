----------------------------- MODULE AppManager -----------------------------
(* The AppManager plugin and one application: the API, the request worker,  *)
(* the connector to the LifecycleManager, composed with the PackageManager  *)
(* and with what the LifecycleManager was shown to promise (AppLifecycle).  *)
(*                                                                          *)
(* A step ends where the code may wait: for AppManager's mAdminLock, for    *)
(* mAppManagerLock (held by the worker while it serves a request), for the  *)
(* connector's mAdminLock, for the LifecycleManager's mAdminLock, or in the *)
(* timed wait of closeApp.  mAppInfo is read and written without a common   *)
(* lock; one access of it is one step.                                      *)
EXTENDS Integers, Sequences, FiniteSets

CONSTANTS
  Client,         \* threads that call the API
  Call,           \* the calls they make
  MaxRequests,    \* bound: launch and preload requests accepted
  MaxJobs,        \* bound: state changes announced and not yet delivered
  Policy,         \* policy files present: "none", "suspend" or "hibernate"
  Version, Failing, MaxLocks      \* see PackageManager

ASSUME CallAssumption ==
  Call \subseteq {"launch", "preload", "close", "terminate", "kill", "getLoaded"}
ASSUME RequestBoundAssumption == MaxRequests \in Nat /\ MaxJobs \in Nat
ASSUME ThreadAssumption == Client \cap {"worker", "notifier", "nobody"} = {}

VARIABLES
  cacheInitialized, installState, mLockCount, unpackedPath,
  mAppRequestList,
  accepted,       \* how many requests have been accepted
  mAppInfo,       \* the entry of the application, or NoEntry
  terminating,    \* mAppCurrentActionList has the application's mark
  pc, target,     \* per client: its place in a call and the instance it acts on
  closing,        \* clients whose TerminateApp was called by closeApp
  wpc, request,   \* the request worker's place and its request
  found,          \* the version the worker is going to lock
  adminOwner, queueOwner, connOwner,           \* who holds the locks
  unloads, erases,   \* worker-pool jobs of Unloaded events: before and after
                     \* the package is unlocked
  phase, jobs,    \* LifecycleManager: the contexts and the undelivered events
  notifying,      \* the event being delivered, with its mAdminLock held
  asked,          \* loaded instances that UnloadApp or KillApp was asked to end
  aborted         \* a dangling iterator was used

packageVars == <<cacheInitialized, installState, mLockCount, unpackedPath>>
queueVars   == <<mAppRequestList, accepted>>
workerVars  == <<wpc, request, found, queueOwner>>
infoVars    == <<mAppInfo, terminating>>
unloadVars  == <<unloads, erases>>
callVars    == <<pc, target, closing, adminOwner>>
contextVars == <<phase, jobs, notifying>>
vars == <<packageVars, queueVars, workerVars, infoVars, unloadVars, callVars, connOwner,
          contextVars, asked, aborted>>

(* Uninstall is left to the runs of PackageManager alone.                   *)
PM == INSTANCE PackageManager WITH Uninstaller <- {}, chosen <- <<>>

Inst == 1..MaxRequests
NoInst == 0
LM == INSTANCE AppLifecycle WITH Object <- Inst

Nobody == "nobody"
AppState == LM!LifecycleState \cup {"UNKNOWN"}
NoEntry == [present |-> FALSE, inst |-> NoInst, version |-> PM!NoVersion, newState |-> "UNKNOWN"]
NewEntry == [NoEntry EXCEPT !.present = TRUE]     \* what mAppInfo[appId] creates
Job == [inst : Inst, new : LM!LifecycleState]
NoJob == [inst |-> NoInst, new |-> "UNKNOWN"]
Request == {"launch", "preload"}

TypeOK ==
  /\ PM!TypeOK
  /\ mAppRequestList \in Seq(Request) /\ accepted \in 0..MaxRequests
  /\ mAppInfo \in [present : BOOLEAN, inst : Inst \cup {NoInst},
                   version : Version \cup {PM!NoVersion}, newState : AppState]
  /\ terminating \in BOOLEAN /\ aborted \in BOOLEAN
  /\ pc \in [Client -> Call \cup {"idle", "terminate", "setPaused", "waiting", "setSuspended",
                                  "setHibernated", "unload", "unlock", "relock"}]
  /\ target \in [Client -> Inst \cup {NoInst}] /\ closing \subseteq Client
  /\ wpc \in {"idle", "load", "list", "lock", "failed", "connect", "resume", "spawn"}
  /\ request \in Request /\ found \in Version \cup {PM!NoVersion}
  /\ adminOwner \in Client \cup {Nobody}
  /\ queueOwner \in {"worker", Nobody}
  /\ connOwner \in Client \cup {"worker", Nobody}
  /\ unloads \in Nat /\ erases \in Nat
  /\ phase \in [Inst -> LM!Phase]
  /\ jobs \subseteq Job /\ notifying \in Job \cup {NoJob}
  /\ asked \subseteq Inst

Init ==
  /\ PM!Init
  /\ mAppRequestList = <<>> /\ accepted = 0
  /\ mAppInfo = NoEntry /\ terminating = FALSE
  /\ pc = [c \in Client |-> "idle"] /\ target = [c \in Client |-> NoInst] /\ closing = {}
  /\ wpc = "idle" /\ request = "launch" /\ found = PM!NoVersion
  /\ adminOwner = Nobody /\ queueOwner = Nobody /\ connOwner = Nobody
  /\ unloads = 0 /\ erases = 0
  /\ phase = [i \in Inst |-> "absent"] /\ jobs = {} /\ notifying = NoJob
  /\ asked = {}
  /\ aborted = FALSE

-----------------------------------------------------------------------------
(* The LifecycleManager as the connector sees it.  getContext takes no lock.*)
Loaded(i) == i # NoInst /\ phase[i] \in LM!LifecycleState
LifecycleLockFree == notifying = NoJob

(* A call with an instance id fails at once when there is no context and    *)
(* waits for the LifecycleManager's lock otherwise.                         *)
CanCall(i) == Loaded(i) => LifecycleLockFree

(* A state change is announced: along the transition table, for whatever    *)
(* reason (a request, an event, the end of the container).                  *)
Announce(i, new) ==
  /\ LM!Announce(i, new)
  /\ Cardinality(jobs) < MaxJobs
  /\ jobs' = jobs \cup {[inst |-> i, new |-> new]}
  /\ UNCHANGED notifying
  /\ UNCHANGED <<packageVars, queueVars, workerVars, infoVars, unloadVars, callVars, connOwner,
                 asked, aborted>>

(* Dispatch, with the lock taken: an UNLOADED context is deleted first.     *)
TakeJob(j) ==
  /\ notifying = NoJob /\ j \in jobs
  /\ notifying' = j /\ jobs' = jobs \ {j}
  /\ IF j.new = "UNLOADED" THEN phase' = [phase EXCEPT ![j.inst] = "forgotten"]
                           ELSE UNCHANGED phase
  /\ UNCHANGED <<packageVars, queueVars, workerVars, infoVars, unloadVars, callVars, connOwner,
                 asked, aborted>>

-----------------------------------------------------------------------------
(* OnAppLifecycleStateChanged of the connector.  An Unloaded event takes the*)
(* application's mark away, by which the end is told from a crash.          *)
OnAppLifecycleStateChanged ==
  /\ notifying # NoJob /\ connOwner = Nobody
  /\ notifying' = NoJob
  /\ mAppInfo' = IF mAppInfo.present /\ mAppInfo.inst = notifying.inst
                 THEN [mAppInfo EXCEPT !.newState = notifying.new] ELSE mAppInfo
  /\ IF notifying.new = "UNLOADED"
     THEN terminating' = FALSE /\ asked' = asked \ {notifying.inst} /\ unloads' = unloads + 1
     ELSE UNCHANGED <<terminating, asked, unloads>>
  /\ UNCHANGED <<packageVars, queueVars, workerVars, erases, callVars, connOwner, phase, jobs,
                 aborted>>

(* packageUnLock.                                                           *)
PackageUnlock ==
  IF mAppInfo.present /\ mAppInfo.version # PM!NoVersion /\ mLockCount[mAppInfo.version] > 0
  THEN PM!Unlock(mAppInfo.version)
  ELSE UNCHANGED packageVars

(* Dispatch of APP_EVENT_UNLOADED: the package is unlocked under mAdminLock,*)
(* the entry is erased after it.                                            *)
UnloadedUnlock ==
  /\ unloads > 0 /\ adminOwner = Nobody
  /\ PackageUnlock
  /\ unloads' = unloads - 1 /\ erases' = erases + 1
  /\ UNCHANGED <<queueVars, workerVars, infoVars, callVars, connOwner, contextVars, asked,
                 aborted>>

removeAppInfoByAppId ==
  /\ erases > 0 /\ erases' = erases - 1
  /\ mAppInfo' = NoEntry
  /\ UNCHANGED <<packageVars, queueVars, workerVars, terminating, unloads, callVars, connOwner,
                 contextVars, asked, aborted>>

-----------------------------------------------------------------------------
(* The API.  Every call holds mAdminLock from beginning to end.             *)
Enter(c, call) ==
  /\ pc[c] = "idle" /\ adminOwner = Nobody
  /\ call \in Request => accepted < MaxRequests
  /\ pc' = [pc EXCEPT ![c] = call] /\ adminOwner' = c
  /\ UNCHANGED <<packageVars, queueVars, workerVars, infoVars, unloadVars, target, closing,
                 connOwner, contextVars, asked, aborted>>

(* The call returns; TerminateApp returns into closeApp if that called it.  *)
Return(c) ==
  /\ target' = [target EXCEPT ![c] = NoInst]
  /\ IF c \in closing
     THEN pc' = [pc EXCEPT ![c] = "relock"] /\ UNCHANGED <<adminOwner, closing>>
     ELSE pc' = [pc EXCEPT ![c] = "idle"] /\ adminOwner' = Nobody /\ UNCHANGED closing

Stay(c, to) == pc' = [pc EXCEPT ![c] = to] /\ UNCHANGED <<target, adminOwner, closing>>

(* LaunchApp and PreloadApp.                                                *)
PushRequest(c) ==
  /\ pc[c] \in Request /\ queueOwner = Nobody
  /\ mAppRequestList' = Append(mAppRequestList, pc[c]) /\ accepted' = accepted + 1
  /\ Return(c)
  /\ UNCHANGED <<packageVars, workerVars, infoVars, unloadVars, connOwner, contextVars,
                 asked, aborted>>

(* Slip: the contexts that are being deleted are taken in, too.             *)
GetAllApps(c) ==
  /\ pc[c] = "getLoaded" /\ connOwner = Nobody
  /\ mAppInfo' = IF \E i \in Inst : phase[i] # "absent"
                 THEN LET i == CHOOSE i \in Inst : phase[i] # "absent"
                          e == IF mAppInfo.present THEN mAppInfo ELSE NewEntry
                      IN [e EXCEPT !.inst = i, !.newState = phase[i]]
                 ELSE mAppInfo
  /\ Return(c)
  /\ UNCHANGED <<packageVars, queueVars, workerVars, terminating, unloadVars, connOwner,
                 contextVars, asked, aborted>>

(* getLoadedApps, with the connector's lock: the entry is made or corrected *)
(* from what the LifecycleManager says.                                     *)
GetLoadedApps(c) ==
  /\ pc[c] = "getLoaded" /\ connOwner = Nobody
  /\ mAppInfo' = IF \E i \in Inst : Loaded(i)
                 THEN LET i == CHOOSE i \in Inst : Loaded(i)
                          e == IF mAppInfo.present THEN mAppInfo ELSE NewEntry
                      IN [e EXCEPT !.inst = i, !.newState = phase[i]]
                 ELSE mAppInfo
  /\ Return(c)
  /\ UNCHANGED <<packageVars, queueVars, workerVars, terminating, unloadVars, connOwner,
                 contextVars, asked, aborted>>

(* Slip: killApp does not mark the application.                             *)
FindUnmarked(c) ==
  /\ pc[c] \in {"close", "terminate", "kill"} /\ connOwner = Nobody
  /\ IF mAppInfo.present /\ (pc[c] = "kill" => mAppInfo.inst # NoInst)
     THEN /\ terminating' = (terminating \/ pc[c] # "kill")
          /\ target' = [target EXCEPT ![c] = mAppInfo.inst]
          /\ connOwner' = c
          /\ pc' = [pc EXCEPT ![c] = IF pc[c] = "close" THEN "setPaused" ELSE "unload"]
          /\ UNCHANGED <<adminOwner, closing>>
     ELSE Return(c) /\ UNCHANGED <<terminating, connOwner>>
  /\ UNCHANGED <<packageVars, queueVars, workerVars, mAppInfo, unloadVars, contextVars, asked,
                 aborted>>

(* The beginning of closeApp, terminateApp and killApp: the entry is found  *)
(* and marked with the connector's lock held, which is kept for the call    *)
(* of the LifecycleManager.  killApp gives up without an instance id.       *)
FindEntry(c) ==
  /\ pc[c] \in {"close", "terminate", "kill"} /\ connOwner = Nobody
  /\ IF mAppInfo.present /\ (pc[c] = "kill" => mAppInfo.inst # NoInst)
     THEN /\ terminating' = TRUE
          /\ target' = [target EXCEPT ![c] = mAppInfo.inst]
          /\ connOwner' = c
          /\ pc' = [pc EXCEPT ![c] = IF pc[c] = "close" THEN "setPaused" ELSE "unload"]
          /\ UNCHANGED <<adminOwner, closing>>
     ELSE Return(c) /\ UNCHANGED <<terminating, connOwner>>
  /\ UNCHANGED <<packageVars, queueVars, workerVars, mAppInfo, unloadVars, contextVars, asked,
                 aborted>>

(* SetTargetAppState(PAUSED): closeApp then waits with the connector's lock *)
(* released.                                                                *)
SetPaused(c) ==
  /\ pc[c] = "setPaused" /\ CanCall(target[c])
  /\ connOwner' = Nobody
  /\ IF Loaded(target[c]) THEN Stay(c, "waiting") ELSE Return(c)
  /\ UNCHANGED <<packageVars, queueVars, workerVars, infoVars, unloadVars, contextVars,
                 asked, aborted>>

(* The wait is over: notified, timed out or woken for no reason.            *)
Waited(c) ==
  /\ pc[c] = "waiting" /\ connOwner = Nobody
  /\ IF mAppInfo.present /\ mAppInfo.newState = "PAUSED"
     THEN IF \E v \in Version : installState[v] \in PM!Blocked
          THEN /\ pc' = [pc EXCEPT ![c] = "terminate"] /\ closing' = closing \cup {c}
               /\ UNCHANGED <<target, adminOwner, connOwner>>
          ELSE IF Policy # "none"
          THEN Stay(c, "setSuspended") /\ connOwner' = c
          ELSE Return(c) /\ UNCHANGED connOwner
     ELSE Return(c) /\ UNCHANGED connOwner
  /\ UNCHANGED <<packageVars, queueVars, workerVars, infoVars, unloadVars, contextVars,
                 asked, aborted>>

(* SetTargetAppState(SUSPENDED), and (HIBERNATED) if the policy says so.    *)
SetSuspended(c) ==
  /\ pc[c] \in {"setSuspended", "setHibernated"} /\ CanCall(target[c])
  /\ IF pc[c] = "setSuspended" /\ Policy = "hibernate" /\ Loaded(target[c])
     THEN Stay(c, "setHibernated") /\ UNCHANGED connOwner
     ELSE Return(c) /\ connOwner' = Nobody
  /\ UNCHANGED <<packageVars, queueVars, workerVars, infoVars, unloadVars, contextVars,
                 asked, aborted>>

(* UnloadApp or KillApp of the LifecycleManager.                            *)
UnloadApp(c) ==
  /\ pc[c] = "unload" /\ CanCall(target[c])
  /\ connOwner' = Nobody
  /\ IF Loaded(target[c]) THEN Stay(c, "unlock") /\ asked' = asked \cup {target[c]}
                          ELSE Return(c) /\ UNCHANGED asked
  /\ UNCHANGED <<packageVars, queueVars, workerVars, infoVars, unloadVars, contextVars,
                 aborted>>

(* TerminateApp and KillApp unlock the package when they have asked for the *)
(* end of the application.                                                  *)
UnlockPackage(c) ==
  /\ pc[c] = "unlock"
  /\ PackageUnlock
  /\ Return(c)
  /\ UNCHANGED <<queueVars, workerVars, infoVars, unloadVars, connOwner, contextVars,
                 asked, aborted>>

(* closeApp takes the connector's lock again when TerminateApp returns.     *)
Relock(c) ==
  /\ pc[c] = "relock" /\ connOwner = Nobody
  /\ pc' = [pc EXCEPT ![c] = "idle"] /\ adminOwner' = Nobody /\ closing' = closing \ {c}
  /\ UNCHANGED <<packageVars, queueVars, workerVars, infoVars, unloadVars, target, connOwner,
                 contextVars, asked, aborted>>

-----------------------------------------------------------------------------
(* AppManagerWorkerThread: mAppManagerLock is held until the request is done.*)
WorkerTo(to) == wpc' = to /\ UNCHANGED <<request, queueOwner>>
WorkerDone   == wpc' = "idle" /\ queueOwner' = Nobody /\ request' = "launch"

TakeRequest ==
  /\ wpc = "idle" /\ queueOwner = Nobody /\ mAppRequestList # <<>>
  /\ request' = Head(mAppRequestList) /\ mAppRequestList' = Tail(mAppRequestList)
  /\ wpc' = "load" /\ queueOwner' = "worker" /\ found' = PM!NoVersion
  /\ UNCHANGED <<packageVars, accepted, infoVars, unloadVars, callVars, connOwner, contextVars,
                 asked, aborted>>

(* Slip: the connector's lock is kept.                                      *)
IsAppLoadedLocked ==
  /\ wpc = "load" /\ connOwner = Nobody
  /\ IF /\ \E i \in Inst : Loaded(i)
        /\ mAppInfo.present /\ mAppInfo.newState \in {"SUSPENDED", "PAUSED", "HIBERNATED"}
     THEN WorkerTo("connect") ELSE WorkerTo("list")
  /\ connOwner' = "worker"
  /\ UNCHANGED <<packageVars, queueVars, found, infoVars, unloadVars, callVars, contextVars,
                 asked, aborted>>

(* packageLock: isAppLoaded takes the connector's lock.  An application that*)
(* is recorded as suspended, paused or hibernated keeps its lock.           *)
IsAppLoaded ==
  /\ wpc = "load" /\ connOwner = Nobody
  /\ IF /\ \E i \in Inst : Loaded(i)
        /\ mAppInfo.present /\ mAppInfo.newState \in {"SUSPENDED", "PAUSED", "HIBERNATED"}
     THEN WorkerTo("connect") ELSE WorkerTo("list")
  /\ UNCHANGED <<packageVars, queueVars, found, infoVars, unloadVars, callVars, connOwner,
                 contextVars, asked, aborted>>

(* The first version that is INSTALLED, if any.                             *)
ListPackages ==
  /\ wpc = "list"
  /\ found' = PM!First({v \in Version : installState[v] = "INSTALLED"})
  /\ IF found' = PM!NoVersion THEN WorkerTo("failed") ELSE WorkerTo("lock")
  /\ UNCHANGED <<packageVars, queueVars, infoVars, unloadVars, callVars, connOwner, contextVars,
                 asked, aborted>>

(* The Lock of the PackageManager, and createOrUpdatePackageInfoByAppId.  A *)
(* package without a path stays locked although the request fails.          *)
LockPackage ==
  /\ wpc = "lock"
  /\ \/ /\ PM!Lock(found)
        /\ IF unpackedPath'[found]
           THEN /\ mAppInfo' = [IF mAppInfo.present THEN mAppInfo ELSE NewEntry
                                  EXCEPT !.version = found]
                /\ WorkerTo("connect")
           ELSE UNCHANGED mAppInfo /\ WorkerTo("failed")
     \/ /\ "lock" \in Failing
        /\ UNCHANGED <<packageVars, mAppInfo>> /\ WorkerTo("failed")
  /\ found' = PM!NoVersion
  /\ UNCHANGED <<queueVars, terminating, unloadVars, callVars, connOwner, contextVars,
                 asked, aborted>>

(* IsInstalled takes mAdminLock.                                            *)
RequestFails ==
  /\ wpc = "failed" /\ adminOwner = Nobody
  /\ WorkerDone
  /\ UNCHANGED <<packageVars, queueVars, found, infoVars, unloadVars, callVars, connOwner,
                 contextVars, asked, aborted>>

(* launch and preLoadApp; launch looks for the entry and keeps the iterator.*)
Connect ==
  /\ wpc = "connect" /\ connOwner = Nobody
  /\ connOwner' = "worker"
  /\ IF /\ request = "launch" /\ \E i \in Inst : Loaded(i)
        /\ mAppInfo.present /\ mAppInfo.newState = "SUSPENDED"
     THEN WorkerTo("resume") ELSE WorkerTo("spawn")
  /\ UNCHANGED <<packageVars, queueVars, found, infoVars, unloadVars, callVars, contextVars,
                 asked, aborted>>

(* SetTargetAppState(ACTIVE) through the iterator.                          *)
Resume ==
  /\ wpc = "resume"
  /\ IF mAppInfo.present THEN CanCall(mAppInfo.inst) /\ UNCHANGED aborted
                         ELSE aborted' = TRUE
  /\ connOwner' = Nobody /\ WorkerDone
  /\ UNCHANGED <<packageVars, queueVars, found, infoVars, unloadVars, callVars, contextVars,
                 asked>>

(* SpawnApp: a new context when there is none, which has reached LOADING    *)
(* when the call returns.  launch writes the entry through its iterator,    *)
(* which dangles if the entry was missing or has been erased meanwhile: only*)
(* this thread makes entries while it holds the connector's lock.           *)
SpawnApp ==
  /\ wpc = "spawn" /\ LifecycleLockFree
  /\ \E i \in Inst :
       /\ IF \E k \in Inst : Loaded(k)
          THEN Loaded(i) /\ UNCHANGED <<phase, jobs>>
          ELSE /\ phase[i] = "absent" /\ \A k \in Inst : k < i => phase[k] # "absent"
               /\ phase' = [phase EXCEPT ![i] = "LOADING"]
               /\ jobs' = jobs \cup {[inst |-> i, new |-> "LOADING"]}
       /\ IF mAppInfo.present \/ request = "preload"
          THEN /\ mAppInfo' = [IF mAppInfo.present THEN mAppInfo ELSE NewEntry
                                 EXCEPT !.inst = i]
               /\ UNCHANGED aborted
          ELSE aborted' = TRUE /\ UNCHANGED mAppInfo
  /\ connOwner' = Nobody /\ WorkerDone
  /\ UNCHANGED <<packageVars, queueVars, found, terminating, unloadVars, callVars, notifying,
                 asked>>

-----------------------------------------------------------------------------
(* The PackageManager starts, and installs for its other callers.           *)
PackageStep ==
  /\ \/ PM!InitializeState
     \/ \E v \in Version : PM!Install(v)
  /\ UNCHANGED <<queueVars, workerVars, infoVars, unloadVars, callVars, connOwner, contextVars,
                 asked, aborted>>

LifecycleStep ==
  \/ \E i \in Inst, new \in LM!LifecycleState : Announce(i, new)
  \/ \E j \in jobs : TakeJob(j)
  \/ OnAppLifecycleStateChanged

CallStep(c) ==
  \/ \E call \in Call : Enter(c, call)
  \/ PushRequest(c) \/ GetLoadedApps(c) \/ FindEntry(c) \/ SetPaused(c) \/ Waited(c)
  \/ SetSuspended(c) \/ UnloadApp(c) \/ UnlockPackage(c) \/ Relock(c)

WorkerStep ==
  \/ TakeRequest \/ IsAppLoaded \/ ListPackages \/ LockPackage \/ RequestFails
  \/ Connect \/ Resume \/ SpawnApp

Next ==
  /\ ~aborted
  /\ \/ PackageStep \/ LifecycleStep \/ UnloadedUnlock \/ removeAppInfoByAppId \/ WorkerStep
     \/ \E c \in Client : CallStep(c)

Spec == Init /\ [][Next]_vars
=============================================================================
