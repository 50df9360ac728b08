# Verification of the RDK application-management plugins

TLA+ models of the plugins of this repository, the configurations that check
them with TLC, and proofs about them for TLAPS. The repository is a set of
Thunder plugins for RDK set-top boxes. Its core is the chain that turns "launch
this app" into a running container: AppManager, PackageManager,
DownloadManager, LifecycleManager, RuntimeManager, OCIContainer and
RDKWindowManager; around it stand the services these lean on (StorageManager,
PreinstallManager, PersistentStore, Monitor) and those that applications talk to
(AppGateway, AppNotifications, Analytics). All paths below are relative to `src/`.

Contents: [Inventory](#inventory) - [Modules](#modules) -
[From code to model](#from-code-to-model) - [Properties and runs](#properties-and-runs) -
[Divergences](#divergences-found) - [Known behaviour](#known-behaviour) -
[Fairness](#fairness) - [Proofs](#proofs) - [Not modelled](#what-is-not-modelled) -
[Plan](#plan) - [Running](#running)

## Inventory

How the parts call each other:

    clients -> AppManager -> LifecycleManager -> RuntimeManager -> OCIContainer -> Dobby
                  |                |    ^              |
                  |                |    +--- events ---+   (worker-pool jobs)
                  |                +-> RDKWindowManager -> compositor thread
                  +-> PackageManager (lock, unlock) <- PreinstallManager
                                   +-> StorageManager -> PersistentStore
    apps -> AppGateway -> resolvers, AppNotifications -> notifying plugins

Every plugin has API threads (whoever calls), most have a worker thread of their
own, and all submit jobs to the one worker pool, whose threads may run them in
another order than they were submitted.

### LifecycleManager

*State.* A list of `ApplicationContext` objects (application id, instance id,
current state object, target state, a semaphore that says LOADING was reached,
and the four fields of an interrupted transition: `mPendingStateTransition`,
`mPendingStates`, `mPendingOldState`, `mPendingEventName`); one process-wide
queue `gRequests` with `gRequestMutex` and `gRequestSemaphore`; `sRunning`; the
table `mPossibleStateTransitions`; `mAdminLock`.

*Operations.* `SpawnApp`, `SetTargetAppState`, `UnloadApp`, `KillApp`,
`CloseApp` add requests; the request handler thread takes them one at a time and
walks the context through the states (`StateHandler::changeState`); each state's
`handle()` calls RuntimeManager or RDKWindowManager; their notifications and the
plugin's own state changes become worker-pool jobs (`Dispatch`).

*Interaction.* Clients and jobs exclude each other by `mAdminLock`. The request
handler thread does not take it: it meets the others at `gRequestMutex`, which it
holds during a whole batch of transitions, and at the fields of the contexts.

*Hard behaviour.* A transition that must wait for an event (the container runs,
the first frame was drawn, the container ended) is interrupted and continued by
the *next request*, whatever that asks for. Events may come before the wait is
recorded, or after the context has moved on. `SpawnApp` waits for the thread
with `mAdminLock` held. A failed request is never removed. Contexts are deleted
by a job while pointers to them sit in the queue or in a client.

*Correct means:* the kept rest of a path fits the state of the context; the changes
submitted are a walk of the table; a context is not forgotten while its container
runs, unless RuntimeManager said it had stopped it; an instance is run once; no wake-up is lost;
callers return; the queue is emptied;
the thread ends.

### DownloadManager

*State.* Two FIFO queues (priority and regular), the download in hand
(`mCurrentDownload`), the run flag, per download its priority, retries and
cancel mark, the curl handle with its `bCancel` and pause state.

*Operations.* `Download`, `Pause`, `Resume`, `Cancel`, `Delete`, `Progress`,
`RateLimit`, `Initialize`, `Deinitialize`; the thread `downloaderRoutine`.

*Hard behaviour.* `mCurrentDownload` is used under `mAdminLock` by the calls and
written without it by the thread; the condition variable is waited on without a
predicate; a cancel is looked at only between two attempts.

*Correct means:* nothing accepted is lost or handled twice; order within a
priority; a success has its file; a download in hand is reported; one that is
queued behind it is taken.

### AppManager

*State.* `mAppInfo` per application (instance id, package version, last state
heard of), the request list with its worker thread, the connector's
`mAppCurrentActionList` and `mAppIdAwaitingPause`. Locks: AppManager's
`mAdminLock` (held by a whole API call), `mAppManagerLock` (held by the worker
while it serves a request), the connector's `mAdminLock`.

*Hard behaviour.* The connector calls the LifecycleManager with its lock held, and
the LifecycleManager, with its own lock held, calls the connector back.
`mAppInfo` has no lock of its own; iterators into it are kept across calls.
`closeApp` waits for PAUSED without a predicate and then calls TerminateApp. The
package is unlocked both by the call that asks for the end and by the job of the
UNLOADED event.

*Correct means:* an asked-for end is not reported as a crash; a package operation
that is delayed by a lock has a lock to wait for; threads do not wait for each
other in a circle.

### The other components

| component | state | operations | hard behaviour, and what correct means |
|---|---|---|---|
| RuntimeManager, OCIContainer | `mRuntimeAppInfo`, the pool of user ids, container descriptors | run, terminate, kill, hibernate, wake | ids are taken by application id and given back by instance id; reports travel through two jobs; a failed start is reported in a flag. No id is shared or lost; the end of a container is told |
| PackageManager | per version: install state, lock count, path | install, uninstall, lock, unlock | an operation on a locked version is delayed and completed by the last unlock; Uninstall chooses its version before it takes the lock. A locked version is never given up |
| PackageManager: downloads | queue, download in hand, `done` | download, pause, resume, cancel, delete | the download in hand is used without a lock; nothing bounds a transfer. Every accepted download is reported, unless a transfer never ends |
| PreinstallManager | list of packages to install | StartPreinstall | the list of installed packages is read up to the first that is not. Nothing newer is left out, nothing older installed |
| StorageManager | quota per app in memory and in PersistentStore, directories | create, get, delete, clear | failures and a kill between the three copies. No call promises space that is not there; a restart keeps quotas it can read |
| PersistentStore | tables of SQLite with triggers, backup | set value, set limit, delete | a set is two statements; a start may restore a backup. Sizes stay within their limits |
| RDKWindowManager | clients, request queue, compositor thread | create display, keys | callers wait on a semaphore without a time limit. They are answered |
| AppGateway, AppNotifications | connections, app ids, subscriber map, registrations | resolve, respond, subscribe, emit | jobs overtake each other; registrations outlive subscribers; a request may be given up with a line in the log. Other requests are answered, subscribers served |
| Analytics | action queue, event queue, time | send event | events without a timestamp wait for the time, which is looked at only when no event comes. All are sent, in order |
| Monitor | restart count and window per plugin | probe, deactivate, activate | limits change while they count. Restarts stay within the limit, misbehaviour is handled |
| USBMassStorage | records of mounts, listed devices, jobs; the mounts of the kernel | mount at boot-up, on events and in calls; unmount | the lists are changed by jobs under a lock and by boot-up and calls without it; a directory is chosen, made and mounted on in three steps. What is recorded is mounted, there and for one device only |
| USBDevice | devices of libusb | list, bind, unbind | little state of its own |
| Telemetry, TelemetryMetrics, CloudStore, SharedStorage, UserSettings, Migration | records or files | setters and getters | thin; their state is external |
| RDKShell | marks of launches and destroys, known plugins, handlers, request queues | launch, destroy, suspend, notifications of the framework | calls hold a worker of the pool their jobs need, one of them a mutex; other clients activate and deactivate the same plugins; results of displays are ignored. What is kept agrees with the framework; calls return |
| ResourceManager, MessageControl, NativeJS, SceneSet, FbSettings, RustAdapter, WebBridge | wrappers and adapters | forwarding | little logic of their own |
| helpers, Tests, build files | - | - | - |

## Modules

| module | what it is |
|---|---|
| `LifecycleStates` | the states, the transition table, `Edge` and `Walk` |
| `StatePath`, `StatePathWalk` | `isValidTransition` as a recursive function, `getStatePath`; the walk along a path for every pair of states |
| `LifecycleManager` | the plugin: contexts, queue, request handler thread, clients, jobs, containers |
| `AppLifecycle` | the abstract specification: the state changes submitted for one context |
| `LifecycleManagerProps`, `MCLifecycleManager` | properties, the refinement mapping; the constants of the `lm_*` runs |
| `DownloadManager`, `DownloadManagerProps` | the DownloadManager and its properties |
| `AppManager`, `AppManagerProps` | AppManager with its connector, composed with an INSTANCE of `PackageManager` and with `AppLifecycle`, the abstract specification that LifecycleManager implements |
| `PackageManager`, `PackageDownloader` | installs and locks of a package; its downloads |
| `RuntimeManager` | RuntimeManager, UserIdManager and OCIContainer against Dobby |
| `WindowManager` | CreateDisplay of RDKWindowManager against its compositor thread |
| `StorageManager`, `PreinstallManager`, `PersistentStore` | the services around the core |
| `AppGateway` | extends `AppNotifications`: connections, requests and subscriptions together |
| `RDKShell` | launch, destroy and suspend of RDKShell against the framework's pool and plugin states |
| `USBMassStorage` | mounts of USB devices and the records of them |
| `Analytics`, `Monitor` | the event queues; the restart limits |
| `Services`, `Delivery` | safety, and delivery, of the plugins that share no state, one of them per behaviour, for any values of their constants |
| `MCServices`, `MCDelivery` | the constants of the runs `services` and `delivery` |
| `MCRuntimeManager`, `MCPreinstallManager` | constants of two runs |
| `LifecycleManager_proofs`, `DownloadManager_proofs`, `AppManager_proofs`, `RuntimeManager_proofs`, `RDKShell_proofs` | theorems and proofs of these modules |
| `Storage_proofs` | those of StorageManager and PersistentStore |
| `Services_proofs` | those of PackageManager, PreinstallManager and USBMassStorage, and the theorems of `Services` |
| `Delivery_proofs` | those of AppGateway, Analytics, Monitor, PackageDownloader and WindowManager, and the theorems of `Delivery` |

`Services` and `Delivery` choose a `service` at the beginning; only its
variables change. It is a union, not a product: no interaction between these
plugins is claimed, and the properties of each are those of its own specification.
Their constants are those of the plugins, renamed where two plugins use one name, and
their assumptions (`MonitorConstants`, `PackageManagerConstants`, ...) are the
plugins' own, which TLC evaluates for the values of the runs.

Some modules contain definitions marked *Slip*: forms of a definition with a
plausible mistake (a dropped test, a forgotten reset, a changed order). No
specification uses them. Putting one in the place of the definition beside it
makes a property fail; `PROJECT.json` ("mutants") names the pairs, and they show
that the property depends on that piece of the code.

## From code to model

### LifecycleManager

*Contexts* are numbered in the order of creation; `loaded` is the list
`mLoadedApplications`, and a context outside it is freed memory. A use of a freed
context is undefined behaviour: either the process dies (`ClientUsesFreed`,
`WorkerUsesFreed` set `aborted`) or the stale fields are still there and the code
goes on, which the ordinary actions do.

*Clients* look a context up without the lock (`SpawnApp` ... `CloseApp`), then
take `mAdminLock` (`SpawnNew`, `MarkTarget`), push (`PushRequest`, which needs
`gRequestMutex`) and post (`PostRequest`), and, on a first launch, wait for
LOADING with the lock held (`AwaitLoading`). `CloseApp` is a kill that may be
followed by a spawn with a lookup of its own.

*Jobs* are a set, since the pool runs them in any order. `HandleUnloaded` deletes
the context, `HandleAwaited` is `addStateTransitionRequest`, `HandleTerminated`
is onTerminated with its two requests on an unexpected exit. The jobs for
other state changes only call observers and are not kept: `announced` is the change
submitted last, not the one an observer heard last. In what order the pool calls the
observers is not modelled here; the UNLOADED job deletes the context before it calls them.

*The request handler thread* has a program counter `wpc`: `wait` and `stuck` are
the wait on the semaphore (after the queue was drained, or after a failure),
`drain` the loop over the queue, `walk` the loop of `changeState`, and `run`,
`render`, `terminate` the time between a call to another plugin taking effect and
its return, in which the event it provokes may already be handled. An entry of
the path is one action per kind of state (`EnterLoading`, `EnterInitializing`,
`EnterActive`, ...), each with its failing variant. `Interrupt` keeps the
remaining path, `ContinuePath` resumes it.

*The path search* enters as the constant `PathOf`. Its only assumption,
`PathAssumption`, is that a path starts at the current state and follows the table;
the runs give it the value of the search itself (`SearchedPaths`), so TLC
evaluates the assumption for the paths of the code.

*Stopping.* `StopContainer` is Terminate or Kill of RuntimeManager: the container
stops, or Dobby fails and RuntimeManager answers ERROR_NONE all the same ("stop" in
`Failing`); an error it does answer is `EnterTerminatingFails`. `ran` and
`unstopped` are history variables: how often an instance was run, and which stops
failed behind a success.

*Abstractions.* A forced and an unforced termination are one call. The result of
`Run` is ignored by the code, so a failing run leaves no container.
`SendIntentToActiveApp` submits an event from ACTIVE to ACTIVE and changes nothing,
`notifyOnFailure` calls another observer interface than the state changes; both are left out. State change
times, ids, intents and telemetry are left out. A new instance id is the next
number (`MaxInst` of them). The lookup of `CloseApp` and the lookup inside the
`KillApp` it calls are one step.

### DownloadManager

A download is named by its number. `Download` and `pickDownloadJob` are atomic
(`mQueueMutex`); a call that tests, compares and uses `mCurrentDownload` is three
steps (`CallControl`/`CallDelete`, `Compare`, `Use...`), between which the thread
may reset it; if it does, the use of the null pointer ends the process (`UseNull`).
The thread's `wpc` follows `downloaderRoutine` line by line, with `park` for
having decided to wait and `wait` for being on the condition variable; a spurious
wake-up is possible. `TransferSucceeds`, `TransferFails`, `NotFound` are the ways
`curl_easy_perform` ends; a paused transfer does not progress but may break off.
The file at a locator is absent, partial or complete. `curl_easy_init` and the
creation of the directory are taken to succeed. Delays and the Internet check of
`Download` are left out (a refused call changes nothing).

### AppManager

One application, with all its instances. A step ends where the code may wait:
for one of the three locks, for the LifecycleManager's lock, or in the timed wait
of `closeApp`. `adminOwner`, `queueOwner` and `connOwner` are the locks; a call
holds `mAdminLock` from `Enter` to `Return`. `FindEntry` is the beginning of
`closeApp`, `terminateApp` and `killApp`, which mark the application and keep the
connector's lock for the call that follows (`SetPaused`, `UnloadApp`). `Waited`
is the end of the wait by a notification, the timeout or a spurious wake-up: the
code does not tell them apart. The worker's `wpc` follows `packageLock`, then
`launch` or `preLoadApp`.

The LifecycleManager is its abstract specification: a context may take any step of
`AppLifecycle` (`Announce`), the change becomes a job, and the job is delivered
with the LifecycleManager's lock held (`TakeJob`, `OnAppLifecycleStateChanged`).
The package is the whole of `PackageManager` except Uninstall: `LockPackage`,
`PackageUnlock` and installs by others act on its state. `aborted` is the use of
an iterator whose entry has been erased.

### PackageManager and its downloads

`Install`, `Lock` and `Unlock` hold `mtxState` throughout and are one step;
`Uninstall` picks its version before (`ChooseVersion`). `Unlock` of the last lock
runs the delayed operation. The map's order of versions, which decides which
version a lookup finds, is the order of the numbers. Failures of the package
library and of the storage calls are the constant `Failing`. In
`PackageDownloader` every access of `mInprogressDownload` and `done` outside
`mMutex` is a step of its own (`next`, `look`, `locked`, `block`), as is the
window in `Pause`, `Resume`, `Cancel` and `Delete` between the test (`FindInprogress`) and
the use (`Uses`). A paused transfer ends only when it is resumed or cancelled.

### RuntimeManager and OCIContainer

An API call holds `mRuntimeManagerImplLock` and is one step, with the call of
OCIContainer in it. Dobby's container is `container`; `stateListener` turns its
end into a job of OCIContainer, which submits one of RuntimeManager, which looks
the instance up and tells the LifecycleManager (`told`). The key of the user-id map
is whatever string is passed, so `mUserIdMap` is over applications *and* instances.

### The services

`StorageManager`: the entry, the property in PersistentStore and the directory of an
application are three variables; `CreateStorage` changes them in the order of the
code, with `KilledInCreateStorage` and `KilledInDeleteStorage` for the process ending between
them, and `populateAppInfoCacheFromStoragePath` for a start, which gives a directory whose
property is not there or cannot be read ("GET") a quota of 0. `failed` is a history variable:
whose quota was last set, or read by a start, in vain. `PersistentStore`: the statements of
a call are steps, the triggers are guards (`ns_maxsize`, `item_maxsize`,
`item_limit`...), sizes are lengths; a start may find the file damaged and restore
the backup. `PreinstallManager`: the listed states come in the order of the map, a
version is what `sscanf` reads of it. `WindowManager`: a caller's check, its push
and its wait are steps; `Frame` serves the queue. `AppNotifications`: the check,
the call of the module and the record of a job are steps, since the job takes its
mutex for the first and the last only. `AppGateway`: a message is a job, resolving
it is a second one, the answer a third; `Missing` are the three ways in which a request is
given up (`Drop`), and `dropped` records it. `Analytics`: one step is one round of
`ActionLoop`; `OtherEvent` is an event that the model does not follow and that the loop
handles instead of looking at the time, as often as it comes. `Monitor`: the job of the Monitor,
those that deactivate and
activate, and Thunder's notifications; `_restartCount` has the width `CountBits`.

### RDKShell

A call is a record of locations (`pc`): launch goes from its mark (`MarkLaunch`) over the
search and the clone of the plugin, its display and its activation to the handler, the
state and the visibility, and takes the mark away (`EndLaunch`); destroy hides, marks,
locks `gDestroyMutex`, deactivates, and undoes the last two; suspend joins in at its
visibility. `activate` and `deactivate` are a job of the framework's pool: `queued`
until a worker is free (`CanRun`), then `running` through the handlers
(`handleInitialize`, `handleDeactivated`, `handleDeinitialized`), each critical section a
step, then `finished`. A launch and the job of an activation ask for a display in the same way
(`isClientExists`: two sections, `IsRequested` and `IsClient`); `AfterDisplay` tells them apart.
`Frame` is a round of `shellThread`, with `gRdkShellMutex` held; it may be refused a
display, and nobody looks at the result (`undisplayed`). An activation may fail after
`handleInitialize` and is then only deinitialized (`ActivationFails`). `launch` looks into
`gActivePluginsData` without its mutex (`FindPlugin`), and registers its handler with any
plugin that hands out IStateControl, which one does from its activation until the end of its
deactivation (`HasStateControl`); `untimely` records the handlers registered while the plugin was
not active. Plugin states, the pool and the clients of the compositor are external.

### USBMassStorage

`at[t]` is where a thread is: `boot` (MountDevicesOnBootUp), `job` (Dispatch holds
`_adminLock` throughout, so one job runs at a time), and the clients. `DeviceMount` is the
same code for all: a free number is found (`NextPartition`), its directory made (`Mkdir`),
the partition mounted (`DoMount`), the mount recorded (`Record`), each a step, since the
threads share no lock. Two threads in the lists at once are undefined behaviour: the
insertion may be lost or the process end (`Racing`, `aborted`). `Umount` goes through the
records of a device one by one, `EraseEntry` forgets them all. The kernel
(`directories`, `mounted`), the USBDevice plugin (`plugged`) and the order in which the
pool runs jobs are external. Calls may come while `Configure` is still at boot-up: the framework,
which could prevent it, is external too.

## Properties and runs

| run | question | checks | distinct states |
|---|---|---|---|
| `lm_races` | two clients, one app: launches, retargets, unloads, kills, closes with respawn, an exit; everything but the termination may fail, and Dobby's stop behind a success | `PendingCoherent`, `AnnouncedWhereItIs`, `NoLostWakeUp`, `ChangesInOrder` | 911 000 |
| `lm_failures` | two apps, every call may fail, the termination too, openly or behind a success; targets HIBERNATED and (invalid) UNLOADED | `ForgottenOnlyWhenStopped`, `RunOncePerInstance` | 2.3 million |
| `lm_live` | do callers return and is the queue emptied when nothing fails, and does the thread end after Deinitialize? | `SpawnReturns`, `QueueEmpties`, `WorkerEnds` | 156 000 |
| `dm_races` | two downloads; pause, resume, cancel and rate limit at every step, failures, deletes, shutdown | `Accounted`, `InOrder`, `SuccessHasFile`, `InHandIsReported`, `QueuedWhileBusyIsTaken` | 254 000 |
| `am_upgrades` | one app launched, preloaded, closed, terminated and killed while a second version is installed | `TypeOK`, `AskedIsMarked`, `OnlyKnownDeadlocks`, `BlockedIsDue` | 652 000 |
| `services` | the safety of the state path search, PackageManager, StorageManager, RuntimeManager, PersistentStore, PreinstallManager, RDKShell, USBMassStorage | `TypeOK`, `FoundIffReachable`, `CallsDoNotOvercommit`, `RestartKeepsQuota`, `UidNotShared`, `StoreIsBounded`, `NothingNewerIsLeftOut`, `NotActivatedToTerminate`, `ShellKnowsThePlugins`, `RecordedIsMounted`, `UninstalledOnlyUnlocked` | 1.4 million |
| `delivery` | what RuntimeManager, AppGateway with AppNotifications, Analytics, Monitor, PackageDownloader, WindowManager and RDKShell owe in the end | `TypeOK`, `UptimeEventsInOrder`, `EndIsTold`, `RequestIsAnswered`, `SubscriberIsServed`, `EventIsSent`, `RestartsAreLimited`, `FailureIsHandled`, `DownloadIsReported`, `DisplayIsAnswered`, `CallsReturn` | 219 000 |
| `lm_unload_swallowed`, `lm_spawn_blocked`, `am_version_kept`, `rm_run_fails`, `pi_older` | statements the code does not keep | one each, violated | - |

*Bounds and why they are enough.*

- `lm_*`: one app and two calls produce every pair of overlapping operations,
  which is what the protocol of lock, queue and context can mix up; two instance
  ids let a relaunch and an unexpected exit meet the remains of the first
  instance. A second app is there where one app's failure must meet another's
  request (`lm_failures`, `lm_spawn_blocked`). `MaxCalls = 2` also bounds the
  contexts. One client that makes three calls (4 million states) satisfies
  the same properties; it is not kept as a run because it takes minutes, and the
  theorems hold for any number.
- `dm_races`: of two downloads one is in hand while the other waits in either
  queue; `retries = 0` (two attempts) exercises the retry, the cancel between
  attempts and the last attempt.
- `am_upgrades`: one client suffices for the races that matter, since API calls
  exclude each other by `mAdminLock`; its opponents are the worker, the notifier
  and the jobs of UNLOADED. Two requests give two instances, so that the end of
  the first meets the launch of the second; two versions and two locks give an
  install that is delayed and then completed.
- `services`: three versions, so that a lookup by order can miss the blocked one
  between the others; two applications that share a capacity of 4, where every store and directory operation may
  fail and the process may be killed in two of them; three
  user ids of which one is kept back, so that the pool runs short; a value that replaces
  another and a limit below the default; two packages of two versions whose order
  as strings (10 before 2) differs from their order as versions;
  one call of RDKShell of each kind for the same application, since each pair shares a mark,
  a handler or a request, and a destroy of another one that competes for `gDestroyMutex`;
  two USB devices of one partition, one event, and three numbers of directories for the three
  threads that mount at once (boot-up, a job, a client), so that they compete for the first; `rmdir`
  does not fail there, which would double the states (the theorem holds when it does).
- `delivery`: two clients of one event, of which one listens and stops and the other listens or
  calls a method (`AskedFor`); three events, one with a timestamp, and others that keep the loop
  busy as long as they like; two downloads and a caller that pauses, resumes, cancels and
  deletes; two callers for the same display; restart
  limits of 0, 1 and 3 with and without a window, in a counter of 3 bits;
  four calls of RDKShell on three workers, which can exhaust them: without its
  exception `CallsReturn` is violated.

The calls being bounded, the systems really stop, and `CHECK_DEADLOCK FALSE` says
so. Symmetry is used for the clients only, in `lm_races`.

*`Over`.* Two TERMINATING requests left by an unexpected exit can relaunch an app
from UNLOADED, end it and relaunch it again; each time a new instance id is taken.
The model has only `MaxInst`, so the liveness properties of LifecycleManager end at
the point where the next one would be needed (`Over`), as they do when the process
has died.

*Refinement.* `ChangesInOrder` is `AppLifecycle!AbstractSpec` under the mapping
"absent until created, forgotten when deleted, otherwise the last state submitted": it
is about the order of submission by the request handler thread. It holds also when Run,
RenderReady, Hibernate, Wake and Dobby's stop fail. It does not hold when
RuntimeManager answers a stop with an error: TERMINATING has been announced, the request is
retried with its own target, and TERMINATING -> ACTIVE may be announced. No document
promises otherwise, so `lm_failures`, in which the termination fails too, checks the
containers, not the announcements. AppManager is checked against `AppLifecycle`, that is,
under the assumption that no stop is answered with an error; its model delivers the changes
as jobs in any order.

*`OnlyKnownDeadlocks`* says that threads wait for each other in two ways only; both
are real (see below). Everything else, and every circle of three, is excluded.

## Divergences found

Each has a run that finds it and a quotation in `PROJECT.json` ("findings").

- `lm_unload_swallowed`: `UnloadApp` during a launch is consumed as the event
  the launch waits for. The app becomes ACTIVE and stays.
- `lm_spawn_blocked`: a failed request heads the queue for ever; the next
  `SpawnApp`, of any app, never returns and keeps `mAdminLock`.
- `am_version_kept`: TerminateApp unlocks the package when the end has been asked
  for. A delayed install of another version is completed by that unlock, and the
  version the app still runs from is given up.
- `rm_run_fails`: a container that does not start is reported by OCIContainer in
  `success`, beside ERROR_NONE; `Run` logs it and returns ERROR_NONE.
- `pi_older`: the list of installed packages is read up to the first one that is not
  INSTALLED; packages behind it are installed again.

## Known behaviour

What the models show and no document of the repository denies; the properties are
stated so that they leave exactly this out.

- *LifecycleManager:* an `onAppRunning` handled before `Run` has returned is dropped,
  and the launch stops in INITIALIZING. A TERMINATING request that finds the context
  UNLOADED (the second one of an unexpected exit) loads and runs the app again. When
  Dobby fails to stop a container, RuntimeManager logs it and answers ERROR_NONE; the
  context waits in TERMINATING for an end that does not come, and the next request deletes it
  with the container running (the `unstopped` of `ForgottenOnlyWhenStopped`).
- *DownloadManager:* the notification of `Deinitialize`, or of a `Download`, can be lost
  between the thread's test and its wait; then the join, or the download, waits for ever.
- *AppManager:* the connector, calling the LifecycleManager with its lock held, and the
  LifecycleManager, calling the connector, can wait for each other; so can the worker,
  whose request has failed and who asks IsInstalled for `mAdminLock`, and LaunchApp,
  which holds it and waits for `mAppManagerLock`. An erased entry may be used through an
  iterator (`aborted`). A launch that fails after the lock leaves the package locked.
- *PackageManager:* an Uninstall whose version is stale, or a second delayed operation,
  stays blocked although nothing is locked (hence `BlockedIsDue` without Uninstall), and so
  does a second delayed install when the first fails as the last lock goes; a
  blocked version loses its path.
- *PackageDownloader:* a Cancel before `downloadFile` is lost; Pause, Resume, Cancel and Delete
  may use the download in hand when there is none; a transfer that is paused and not resumed, or
  that stalls, never ends, for no time limit is set, and what is queued behind it is not taken;
  `done` is set and notified without `mMutex`, so
  that the join of Deinitialize may hang.
- *RuntimeManager:* user ids are never given back, so more applications than ids share
  none but the later ones get none.
- *RDKWindowManager:* `sRunning` is never true again after a Deinitialize, so a
  reactivated plugin serves no request; requests left at the end are not answered.
- *StorageManager:* a start takes whatever property it finds for the quota of a directory,
  without looking whether it fits. The property may be left over: from a directory that was
  lost, from a kill before it was deleted, from a DELETE or SET that failed, or because an earlier
  start could not read it and gave 0. Such a start can promise more than there is; afterwards
  every promise is checked against what is left.
- *AppNotifications:* the subscriber map, keyed by events, is asked for the module, so
  every subscription submits a job and may be recorded twice; an unsubscribe may pass a
  later subscribe, after which nobody reports the event; Cleanup never unregisters.
- *AppGateway:* a request is not answered when its handler succeeds over COM-RPC with an empty
  resolution, or when the resolver or the responder is missing.
- *Analytics:* the time is looked at only after three seconds without an event; events that come
  more often keep those without a timestamp waiting for ever. Those that wait are dropped at shutdown.
- *PersistentStore:* a value that replaces another is counted twice against the limits; the
  default limit caps a higher one that was set; a kill between the removal of a damaged
  file and the restored backup leaves an empty store; SetValue returns success when the
  namespace is gone between its statements.
- *RDKShell:* a handler that launch registers after `handleDeactivated`, or before an
  activation that fails, stays, and the next launch of that callsign registers none. A plugin
  whose display createDisplay refused is active without one. A plugin that exists, but whose
  type is the only one known as active, is cloned again. The mark of a launch is one per
  callsign: of two that overlap, the first to end
  takes it away, and a destroy gets in while the other is in progress. `activate` and
  `deactivate` wait without a limit for a job of the pool whose worker the caller holds,
  destroy with `gDestroyMutex` held. As many such callers as there are workers wait for
  ever (`PoolIsExhausted`). That a JSON-RPC call holds a worker is a fact of the framework,
  not of this repository.
- *USBMassStorage:* a mount whose record is lost, or is erased because another mount of
  the device has been unmounted, is never unmounted; a record made by a call after its
  device's unmount job stays; `OnDevicePluggedIn` looks for the mounts of a device with an
  empty name, so a device that boot-up has mounted is mounted once more; when the jobs of a
  quick unplug and replug are swapped, the device stays unmounted.
- *Monitor:* the counter grows as 2c + 1, so that a limit of 3 is reached at the third
  failure of a window (the second without a window), and not at the fourth; a second, stale
  deactivation kills the restarted plugin.

## Fairness

LifecycleManager: weak fairness of each client's own steps, of each thread's push
and post, of the jobs, of the request handler thread and of each container. It is
justified by the scheduler (a runnable thread runs), by the worker pool (a job is
run in the end) and, for containers, by RuntimeManager (a started container comes
up and draws, a stopped one ends). A client need not call, a container need not
exit, and nothing is assumed about the order of jobs.

DownloadManager: strong fairness of the downloader thread, because it competes for
`mAdminLock` with calls that may come again and again; weak fairness of the call
that holds the lock and of the join; strong fairness of the end of a transfer as
long as it is not paused or has been cancelled. That a transfer ends is an assumption about
servers and networks; the code sets no time limit. A spurious wake-up and the next call of a
client are not promised: that is
why a lost notification stays lost.

The models of `delivery`: weak fairness of the plugin's own thread and of the worker
pool, as the scheduler and the pool give it. Where these do finitely many things
between two steps of the environment, the fairness of their union is enough and is
stated so; the three jobs of Monitor, which may go on for ever, have one condition
each. Calls, plug-ins that misbehave, the time becoming available, a Deinitialize are
never promised, nor is the end of a transfer of PackageDownloader: HttpClient sets curl no time
limit and a paused transfer may stay so, hence the first disjunct of `DownloadIsReported`. And
`EventIsSent` assumes what the code needs to look at the time: that, until it knows the time,
its wait runs out again and again.

RDKShell: weak fairness of all that threads, jobs of the pool and frames of `shellThread`
do, of which there is finitely much; calls are never promised. `CallsReturn` is excused
only by a pool that is exhausted for ever.

## Proofs

Proved for all values of the constants that satisfy the named assumptions, which TLC
evaluates in the runs.

| theorem | statement | assumptions |
|---|---|---|
| `LifecycleManager_proofs!TypeCorrect` | `Spec => []TypeOK` | `ThreadAssumption`, `TargetAssumption`, `BoundAssumption`, `PathAssumption` |
| `LifecycleManager_proofs!PendingIsCoherent` | `Spec => []PendingCoherent` | the same |
| `LifecycleManager_proofs!NoWakeUpIsLost` | `Spec => []NoLostWakeUp` | the same |
| `LifecycleManager_proofs!RunsOncePerInstance` | `Spec => []RunOncePerInstance` | the same |
| `LifecycleManager_proofs!ForgetsOnlyStopped` | `Spec => ForgottenOnlyWhenStopped` | the same |
| `LifecycleManager_proofs!AnnouncedIsWhereItIs` | `Spec => []AnnouncedWhereItIs` | the same |
| `LifecycleManager_proofs!ImplementsAppLifecycle` | `Spec => ChangesInOrder` | the same, and `"terminate" \notin Failing` |
| `DownloadManager_proofs!TypeCorrect` | `Spec => []TypeOK` | `OptionAssumption`, `DownloadBoundAssumption` |
| `DownloadManager_proofs!NothingLost` | `Spec => []Accounted` | the same |
| `DownloadManager_proofs!ReportedInOrder` | `Spec => []InOrder` | the same |
| `DownloadManager_proofs!SuccessesHaveTheirFile` | `Spec => SuccessHasFile` | the same |
| `AppManager_proofs!AskedStaysMarked` | `Spec => []AskedIsMarked` | `CallAssumption`, `RequestBoundAssumption`, `ThreadAssumption` |
| `AppManager_proofs!TypeCorrect` | `Spec => []TypeOK` | the same, `VersionAssumption`, `LockBoundAssumption` |
| `AppManager_proofs!NoOtherDeadlock` | `Spec => []OnlyKnownDeadlocks` | the same five |
| `AppManager_proofs!NoInstallIsLeftBehind` | `Spec => []BlockedIsDue` | the same five, `AtMostTwo` versions, `InstallsSucceed` |
| `RuntimeManager_proofs!TypeCorrect` | `Spec => []TypeOK` | `InstanceAssumption`, `UidAssumption` |
| `RuntimeManager_proofs!NoUidIsShared` | `Spec => []UidNotShared` | the same |
| `RuntimeManager_proofs!EveryUidIsAccounted` | `Spec => []UidsAccounted` | the same |
| `RDKShell_proofs!TypeCorrect` | `Spec => []TypeOK` | `CallAssumption` |
| `RDKShell_proofs!PluginsAreKnown` | `Spec => []ShellKnowsThePlugins` | the same |
| `Storage_proofs!StorageTypeCorrect` | StorageManager: `Spec => []TypeOK` | `SizeAssumption`, `AppsAreFinite` |
| `Storage_proofs!CallsNeverOvercommit` | `Spec => CallsDoNotOvercommit` | the same |
| `Storage_proofs!RestartsKeepQuotas` | `Spec => []RestartKeepsQuota` | the same |
| `Storage_proofs!StoreTypeCorrect` | PersistentStore: `Spec => []TypeOK` | `LengthAssumption`, `MaximumAssumption`, `NamesAreFinite` |
| `Storage_proofs!StoreStaysBounded` | `Spec => []StoreIsBounded` | the same |
| `Services_proofs!ServicesTypeCorrect` | `Spec => []TypeOK` | the constants' (below), `AppsAreFinite`, `NamesAreFinite` |
| `Services_proofs!UnlockedBeforeUninstall` | `Spec => UninstalledOnlyUnlocked` | the constants' |
| `Services_proofs!PromisesFit` | `Spec => CallsDoNotOvercommit` | the constants', `AppsAreFinite` |
| `Services_proofs!QuotasSurviveRestarts` | `Spec => []RestartKeepsQuota` | the constants', `AppsAreFinite` |
| `Services_proofs!UidsAreNotShared` | `Spec => []UidNotShared` | the constants' |
| `Services_proofs!TablesStayBounded` | `Spec => []StoreIsBounded` | the constants', `NamesAreFinite` |
| `Services_proofs!NewerIsTried` | `Spec => []NothingNewerIsLeftOut` | the constants' |
| `Services_proofs!ShellKnowsItsPlugins` | `Spec => []ShellKnowsThePlugins` | the constants' |
| `Services_proofs!RecordsStayMounted` | `Spec => []RecordedIsMounted` | the constants' |
| `Delivery_proofs!DeliveryTypeCorrect` | `Spec => []TypeOK` | the constants' |
| `Delivery_proofs!UptimeEventsStayInOrder` | `Spec => []UptimeEventsInOrder` | the constants' |
| `Delivery_proofs!RestartsStayLimited` | `Spec => RestartsAreLimited` | the constants' |
| `Delivery_proofs!AnswersWereAskedFor` | `Spec => []OnlyWhatWasAsked` | the constants' |
| `Delivery_proofs!DownloadsAreReportedOnce` | `Spec => []ReportedOnce` | the constants' |
| `Delivery_proofs!NoDisplayRequestIsLost` | `Spec => []NoRequestIsLost` | the constants' |

*Services and Delivery* state for all the plugins together what the runs `services` and
`delivery` check, so that each theorem is about the formula a run names. "The
constants'" are the assumptions of `Services` and `Delivery`, one per plugin. That
applications, names and keys are finitely many is what makes a sum over them mean
something. The proofs of the composition are short: a step is one of each plugin or leaves
its variables alone (`StepOfEach`), so the conjunction of the plugins' inductive invariants
(`ServicesInv`, `DeliveryInv`) is inductive. The proof modules of RuntimeManager, RDKShell and
Storage are used by INSTANCE, with their lemmas; `RT!UidInv` is then the invariant of
`RuntimeManager_proofs` for these constants, and that `RT!Next` and `RM!Next` are the same
step is shown action by action (`SameStorage` and its like).

*LifecycleManager.* None of the three is inductive alone, not even the types: that
the job of UNLOADED names an instance rests on the path being legal. The inductive
invariant `IInv` adds to them: `Hands` (while the thread is inside `changeState` the
queue has a head, its context is not pending, and the rest of the path is a walk
from its state), `Requests` (a thread about to add a request knows its context and
state), `Locked` (who adds a request or awaits LOADING holds `mAdminLock`) and
`Named` (a context that has left UNLOADED has an instance id). `PendingCoherent`
needs `Hands`, for `Interrupt` stores the rest of the path in hand; `NoLostWakeUp`
needs `Locked`, so that a post in progress is not forgotten when another thread
moves. Each action has a lemma of its own; the frame conditions shared by the steps
of clients, of jobs and of the thread are stated once (`ThreadMoves`, `InTheLoop`).

Three invariants come on top of `IInv`. `RInv` ties a context to its container: instance
ids are used once (`Instances`), the instance of a context in LOADING has not been run
unless the thread is just doing it (`NotYetRun`), and past TERMINATING its container rests:
it has ended, is stopping or is in `unstopped` (`Stopped`), also when the UNLOADED job comes
late. It gives `RunOncePerInstance` and `ForgottenOnlyWhenStopped`. `SInv` says what was
submitted of each context at each step of the walk (`Shown`), which between two
steps is `AnnouncedWhereItIs`. The proof of that one showed the property to be wrong as it
stood: it allowed a wrong TERMINATING only while the request that failed was still queued,
but a later request may find the context where it wants it and announce nothing. A run with a failing
termination has that counterexample; the property now says that a TERMINATING may stay
wrong when terminations can fail, and nothing else ever. `KInv` (contexts not yet created were never
announced) completes what the refinement needs: `ImplementsAppLifecycle` maps each
step to a step of `AppLifecycle` or a stutter, by action. Its hypothesis is needed for
the reason just given: after a failed stop TERMINATING is followed by, say, ACTIVE.

*DownloadManager.* `Accounted` needs to know where the thread is: between pick and
reset, and nowhere else, something is in hand, and only at `reset` has it been reported.
`InOrder` follows from the order of the queues and from what is in hand being older
than all that is queued with its priority. The lemmas about
`Head`, `Tail` and `Append` of an increasing sequence are stated once and cited.
`SuccessHasFile` needs that Success is decided with the file complete and reported
before anybody can ask to delete it (`FileInv`: who deletes names a download that has been reported).

*AppManager.* That an instance asked to end is still marked needs two facts besides
(`MarkInv`): who stands between the mark and the call of the LifecycleManager holds the
connector's lock (`Held`), so no delivery of an UNLOADED takes the mark away in between;
and one instance at a time is loaded or has its end delivered (`Single`), so the
delivery that erases the mark is that of the asked instance.
`AppInv` adds the rest. `OnlyKnownDeadlocks` needs `Order`: a client is in a call exactly while
it owns `mAdminLock`, so one client at a time is, and the connector's lock is held at
four places only. Each thread waits for what its place says (`Waits`), and of
all pairs and triples the two known ones remain. The types need `Room` (an API call that
accepts a request has seen room for it). `BlockedIsDue` is an invariant of PackageManager under
the calls that AppManager makes (`Due`: of two versions, an older one that is blocked waits for the
lock of the newer). Its hypotheses mark where the code stops keeping
it: with three versions two installs can be delayed and the last `Unlock` completes only one; and
when a delayed install fails as the last lock goes, the other one that waits stays blocked. TLC has both
counterexamples (three versions; three requests with `"install"` in `Failing`).

*PackageManager.* Each step that gives a version up looks at its locks under
`mtxState`; `UninstalledOnlyUnlocked` therefore needs no more than the types. The work is in
`Unlock`, which completes a delayed install or uninstall of *another* version
than the one unlocked.

*PreinstallManager.* `PreinstallInv`: once the filter is past, every package of the
directory is still in the list, was tried, or is no newer than a version that was listed as
installed (`Served`). What the filter drops is served (`LeftOutIsServed`): the
version it was compared with is among those before the first entry that is not installed, so it
is installed, and of two versions one is as new as the other, which is where the order
of versions comes in. The loop that erases from the list (`Filtered`) is a function on
its prefixes; that it keeps all that is not dropped is proved by taking the shortest prefix
for which it would not. `AtLeastAsNew` compares the four numbers one after the other, so the
theorem holds for numbers of any size.

*Analytics.* `UptimeEventsInOrder` says of the events with an uptime that one which was accepted
before another one is not sent after it. `AnalyticsInv` carries the order of acceptance
(`Sooner`) through all places: no event is
in two of them (`Kept`), each queue is sorted by it (`InOrder`), and what is further on its
way comes before what is behind it (`Passed`); only among the events sent may those
with a timestamp of their own be anywhere. The order would break if the event queue could hold
something when the time is valid; it is empty then.

*Monitor.* The count is 2c + 1 modulo 2^`CountBits`, so it takes only the values
2^k - 1 (`Counts`) and wraps from the largest to itself. Unless the plugin was given up,
restarts are at most one more than the count (`MonitorInv`); the comparison of the count with
the limit then bounds the
restarts, for every width, every limit and every change of the limits. `Powers` are the
lemmas about `TwoTo`, a recursive function. The assumption `CountBits > 0` is new: with a width of
0 the type invariant says nothing sensible, and the code has 32.

*PackageDownloader.* A download is queued once, or in hand, or reported (`DownloadInv`), and
`at` tells which: between `attempt` and `notify` it is in hand and not reported, at `reset` it is in hand and
has been. `ReportedOnce` follows. The assumption that "none" is no id (`DownloadIdAssumption`) was
implicit. What the other calls do with a stale download in hand changes no
place, so these races do not matter here.

*WindowManager.* `WindowInv`: while `sRunning`, a caller who waits has its request in the
queue or its semaphore posted, and a request in the queue belongs to a caller who waits and has
not been posted. `Frame` therefore answers what it takes, and `NoRequestIsLost` is what
`DisplayIsAnswered` rests on. It ends with `sRunning`, as the code's promise does.

*AppGateway.* `GatewayInv`: a job that carries an answer, or the event, is due to its connection,
and a subscriber has asked to listen. Jobs may run in any order, and a message may
still be on its way after the connection has closed; nothing reaches one that did not ask.

*RuntimeManager.* An id is shared or lost unless the name given back never holds one.
`UidInv` says so (`Owned`: instance ids have no entry, an application's id is that of all
its runs), that ids are in the pool once and in the map once and never in both
(`Distinct`), and that each is in one of them (`Complete`). `Distinct` and `Complete` give
`UidsAccounted`, `Owned` and `Distinct` give `UidNotShared`.
No run checks `UidsAccounted`: it is proved.

*RDKShell.* `ShellKnowsThePlugins` speaks of the states in which a plugin rests; that it
holds again when a job ends needs to be known at each of the job's steps. `ShellInv` says
that one job at a time moves a plugin, and in which direction (`Jobs`); that a
request belongs to a call that waits for it (`Requests`), so that a kill is never in the queue while an
activation asks for a display; and what each step of a job has already done to clients, known
plugins, handlers and marks (`Displays`, `Known`, `Handlers`, `Marks`). No exclusion of
launch and destroy is needed, nor `gDestroyMutex`: what is kept is right even when they
overlap. `Failed` says where an activation that was given up can be, so that what is left of it is
cleaned up by the same steps as a deactivation; the two ways in which something does stay, or is not there,
are the history variables of the property.

*USBMassStorage.* What keeps the threads apart is not a lock but `mkdir`, which only one of
two succeeds in. `UsbInv` says so: a thread between `Mkdir` and `Record` has a directory
of its own, and until it has recorded its mount nobody else knows of it (`Hands`); a directory
has one mount at most (`Kernel`). `Records` is then kept by `Umount` too: the records
that it has gone past are no longer counted, since `EraseEntry` will drop them
(`Live`). Steps that touch none of this are covered by one lemma (`Aside`).

*StorageManager.* What an application weighs is its quota or, if that is more, what it
has used; `NoOvercommit` says that the weights fit. A step of a call is either one in which no weight
grows (`WeightFalls`, `LighterFits`) or the success of `CreateStorage`, which has
just seen that the new quota fits (`EnoughFits`). A start that gives no application more than it
had lets no weight grow either; the others are the exception that `CallsDoNotOvercommit` makes, and TLC
has an overcommitting start for each reason listed under Known behaviour. The step needs the types only.
`RestartKeepsQuota`, which looks only where there is an entry and whose property could be set and
read, is inductive by itself.

*PersistentStore.* `StoreInv` bounds the tables and the backup alike, because a start may take
the one for the other. An insert changes one row, hence one namespace's sum and the total by the same
amount, which the triggers have allowed for (`InsertBounded`); a deletion lets no sum grow
(`SmallerBounded`). Two callers between their statements do each other no harm, since the triggers look
again.

Both rest on lemmas about sums over a finite set. `MapThenSumSet` takes an operator as argument,
which no lemma can here; `Sum` is the same fold of a function, shown equal where
it is used (`SpaceIsASum`, `ReservationIsASum`, `NsSizeIsASum`, `TotalIsASum`). That the fold exists is
proved by taking a least size for which it would not (`FoldExists`); that sums grow
(`SumGrows`), add (`SumAdds`) and change by what one element changes (`SumChanges`), by taking a
least set for which they would not (`LeastSet`).

*Only model-checked.* All liveness properties (their proof needs ENABLED): `SpawnReturns`,
`QueueEmpties`, `WorkerEnds`, `InHandIsReported`, `QueuedWhileBusyIsTaken` and, in `delivery`,
`EndIsTold`, `RequestIsAnswered`, `SubscriberIsServed`, `EventIsSent`, `FailureIsHandled`,
`DownloadIsReported`, `DisplayIsAnswered`, `CallsReturn`. And the two properties of the path
search, `FoundIffReachable` and `NotActivatedToTerminate`: the search is a recursive function over
paths and visited sets, what it finds for every table would need induction over data, and for the one
table of the code `services` is exhaustive. Every other property of a passing run is a theorem.

## What is not modelled

The components marked so in `PROJECT.json`. Wrappers (ResourceManager,
MessageControl, RustAdapter, WebBridge, CloudStore, SharedStorage, Telemetry, ...) forward
calls; a model would restate them.
`DobbySpecGenerator` writes a text. USBDevice lists what libusb reports.

Within the modelled plugins:

- *LifecycleManager:* `GetLoadedApps`, `IsAppLoaded`, `SendIntentToActiveApp`,
  `AppReady`, `StateChangeComplete`, `onFailure`, observers and telemetry, which no
  transition depends on; the race of a callback with `Unregister`; the memory of a state
  object deleted while it is read; the client that waits in SpawnApp when the plugin is
  deinitialised.
- *DownloadManager:* restarts (ids start again), the contents of answers (any status but
  404 counts as success), the error that only `fclose` would report, thread safety
  inside libcurl.
- *AppManager:* `SendIntent`, the properties, `ClearAppData`, `GetInstalledApps`,
  `OnAppInstallationStatus`; several applications, which meet only at the locks.
- *RuntimeManager, OCIContainer:* `Suspend` and `Resume`, `GetInfo`, `Annotate`, the
  stubs `Mount` and `Unmount`, onStateChanged events, Rialto.
- *PackageManager:* configuration, listings, notifications, and `RateLimit` and `Progress` of
  its downloads.
- *RDKWindowManager:* keys, focus, visibility, inactivity.
- *RDKShell:* the calls of the compositor library under its mutex (bounds, scale, opacity,
  keys, ...), URLs and configurations, events and deferred launches, hibernation, factory
  mode, `Deinitialize`, plugins without a configuration, the iterator over `gActivePluginsData` that
  an erasure invalidates.
- *USBMassStorage:* notifications, `GetPartitionInfo`, devices of other classes; that a line
  of /proc/partitions may match the path of another device (sda and sdaa).
- *AppGateway:* the resolver's configuration, permissions, connection notifications.
- *PersistentStore:* time to live, getters, notifications. *Monitor:* memory
  statistics. *Analytics:* names, formats, backends.

The compositions that are checked are AppManager with PackageManager and the abstract
LifecycleManager, and AppGateway with AppNotifications. LifecycleManager and
RuntimeManager are each checked with the other in the form of what it promises: a
started container comes up, its end is told (`EndIsTold`).

## Plan

1. A composed run of `LifecycleManager` with `RuntimeManager` in the place of its
   containers, on one app (the product of the two state spaces is large).
2. Proofs: `NotActivatedToTerminate` for the table of the code, by cases over its eight
   states; a refinement of `PackageDownloader` to the promise `ReportedOnce` makes.
3. `Suspend` and `Resume` of RuntimeManager;
   hibernation, deferred launches and `Deinitialize` of RDKShell.

## Running

    tlc -config lm_races.cfg    MCLifecycleManager.tla
    tlc -config dm_races.cfg    DownloadManagerProps.tla
    tlc -config am_upgrades.cfg AppManagerProps.tla
    tlc -config services.cfg    MCServices.tla
    tlc -config delivery.cfg    MCDelivery.tla
    tlapm LifecycleManager_proofs.tla      (and the other seven *_proofs modules)

Each run takes between some seconds and three minutes, each proof module one to five minutes.
