------------------------------ MODULE RDKShell -------------------------------
(* launch, destroy and suspend of the RDKShell plugin, its handlers of the  *)
(* framework's notifications (MonitorClients) and its shellThread.  A call  *)
(* over JSON-RPC holds a worker of the framework's pool while it runs, and  *)
(* activate and deactivate submit a job to the same pool and wait for it.   *)
(* The framework itself - plugin states, clones, the pool - is external.    *)
(* gRdkShellMutex, gPluginDataMutex and gLaunchDestroyMutex, where they are *)
(* held, are held for one step.  Names of applications are callsigns;       *)
(* bounds, scale, URL, configuration, events, hibernation and Deinitialize  *)
(* are left out; every plugin has a configuration with a clientidentifier,  *)
(* as launch gives it.                                                      *)
EXTENDS Naturals, FiniteSets, Sequences, SequencesExt

CONSTANTS
  App,
  Call,           \* each is made once
  AppOf,
  KindOf,         \* "launch", "destroy", "suspend", or by others: "activate", "deactivate"
  Installed,      \* the applications whose plugin need not be cloned first
  Workers,        \* the size of the framework's pool
  Failing         \* "type", "clone", "display", "activate", "state": what may not be there or
                  \* be refused

Kind == {"launch", "destroy", "suspend", "activate", "deactivate"}

CallAssumption == AppOf \in [Call -> App] /\ KindOf \in [Call -> Kind] /\ Installed \subseteq App
PoolAssumption == Workers \in Nat /\ Failing \subseteq {"type", "clone", "display", "activate", "state"}

VARIABLES
  gLaunchApplications, gDestroyApplications, gExternalDestroyApplications,
  gActivePluginsData,
  gStateNotifications,  \* the callsigns with a handler
  gDestroyMutex,        \* the calls that hold it, one at most
  gCreateDisplayRequests, gKillClientRequests,
  posted,               \* the calls whose request has been served
  pc, launchType, retried, result,
  running,              \* the calls whose job a worker, or another client, executes
  plugin,               \* external: state of each plugin
  clients,              \* external: the clients with a display
  undisplayed,          \* the clients whose CreateDisplayRequest got mResult FALSE
  untimely              \* history: the handlers registered while the plugin was not active

markVars    == <<gLaunchApplications, gDestroyApplications, gExternalDestroyApplications>>
knownVars   == <<gActivePluginsData, gStateNotifications, untimely>>
requestVars == <<gCreateDisplayRequests, gKillClientRequests, posted>>
callVars    == <<launchType, retried, result>>
displayVars == <<clients, undisplayed>>
shellVars   == <<markVars, knownVars, gDestroyMutex, requestVars, pc, callVars, running, plugin,
                 displayVars>>

At == {"idle", "find", "clone", "exists", "listed", "missing", "creating", "configure",
       "queued", "activation", "initialized", "deactivated", "unregister", "kill", "killing",
       "deinitialized", "forgotten", "finished", "setup", "setState", "visible",
       "tell", "end", "mark", "lock", "unlock", "unmark", "request", "returned"}

TypeOK ==
  /\ gLaunchApplications \subseteq App /\ gDestroyApplications \subseteq App
  /\ gExternalDestroyApplications \subseteq App
  /\ gActivePluginsData \subseteq App /\ gStateNotifications \subseteq App
  /\ gDestroyMutex \subseteq Call /\ \A c, d \in gDestroyMutex : c = d
  /\ gCreateDisplayRequests \in Seq(Call) /\ gKillClientRequests \in Seq(Call)
  /\ posted \subseteq Call /\ retried \subseteq Call /\ running \subseteq Call
  /\ pc \in [Call -> At]
  /\ launchType \in [Call -> {"UNKNOWN", "CREATE", "ACTIVATE"}]
  /\ result \in [Call -> BOOLEAN]
  /\ plugin \in [App -> {"absent", "deactivated", "activation", "activated", "deactivation"}]
  /\ clients \subseteq App /\ undisplayed \subseteq App /\ untimely \subseteq App

Init ==
  /\ gLaunchApplications = {} /\ gDestroyApplications = {}
  /\ gExternalDestroyApplications = {}
  /\ gActivePluginsData = {} /\ gStateNotifications = {} /\ gDestroyMutex = {}
  /\ gCreateDisplayRequests = <<>> /\ gKillClientRequests = <<>> /\ posted = {}
  /\ pc = [c \in Call |-> "idle"] /\ launchType = [c \in Call |-> "UNKNOWN"]
  /\ retried = {} /\ result = [c \in Call |-> TRUE]
  /\ running = {}
  /\ plugin = [a \in App |-> IF a \in Installed THEN "deactivated" ELSE "absent"]
  /\ clients = {} /\ undisplayed = {} /\ untimely = {}
-----------------------------------------------------------------------------
Goto(c, from, to) == pc[c] = from /\ pc' = [pc EXCEPT ![c] = to]

OverRpc(c)    == KindOf[c] \in {"launch", "destroy", "suspend"}
InProgress(c) == pc[c] \notin {"idle", "returned"}
BusyWorkers   == Cardinality({c \in Call : OverRpc(c) /\ InProgress(c)})
                   + Cardinality({c \in running : OverRpc(c)})
WorkerIsFree  == BusyWorkers < Workers

BeingDestroyed(a) == a \in gDestroyApplications \cup gExternalDestroyApplications

(* Other clients of the framework activate and deactivate plugins on threads*)
(* of their own.                                                            *)
ArriveFromOutside(c) ==
  /\ ~OverRpc(c)
  /\ Goto(c, "idle", "queued")
  /\ UNCHANGED <<markVars, knownVars, gDestroyMutex, requestVars, callVars, running, plugin,
                 displayVars>>
-----------------------------------------------------------------------------
(* launchWrapper                                                            *)
MarkLaunch(c) ==
  /\ KindOf[c] = "launch" /\ WorkerIsFree /\ pc[c] = "idle"
  /\ IF AppOf[c] \in gDestroyApplications
     THEN pc' = [pc EXCEPT ![c] = "returned"] /\ UNCHANGED gLaunchApplications
     ELSE /\ pc' = [pc EXCEPT ![c] = "find"]
          /\ gLaunchApplications' = gLaunchApplications \cup {AppOf[c]}
  /\ UNCHANGED <<gDestroyApplications, gExternalDestroyApplications, knownVars, gDestroyMutex,
                 requestVars, callVars, running, plugin, displayVars>>

(* gActivePluginsData is read without gPluginDataMutex; that an iterator    *)
(* meets an erasure is left out.  When the type is found there, the         *)
(* framework is not asked for the plugin, and one that exists is cloned     *)
(* again.  The type may also not exist.                                     *)
FindPlugin(c) ==
  /\ \/ /\ AppOf[c] \in gActivePluginsData \/ plugin[AppOf[c]] # "absent"
        /\ Goto(c, "find", "configure")
     \/ AppOf[c] \notin gActivePluginsData /\ Goto(c, "find", "clone")
     \/ /\ "type" \in Failing /\ plugin[AppOf[c]] = "absent"
        /\ AppOf[c] \notin gActivePluginsData
        /\ Goto(c, "find", "end")
  /\ UNCHANGED <<markVars, knownVars, gDestroyMutex, requestVars, callVars, running, plugin,
                 displayVars>>

(* The status of the clone is only logged.                                  *)
Clone(c) ==
  /\ Goto(c, "clone", "exists")
  /\ launchType' = [launchType EXCEPT ![c] = "CREATE"]
  /\ \/ plugin' = [plugin EXCEPT ![AppOf[c]] = IF @ = "absent" THEN "deactivated" ELSE @]
     \/ "clone" \in Failing /\ UNCHANGED plugin
  /\ UNCHANGED <<markVars, knownVars, gDestroyMutex, requestVars, retried, result, running,
                 displayVars>>

(* What follows the display is, in a job, the rest of handleInitialize.     *)
AfterDisplay(c) == IF c \in running THEN "initialized" ELSE "configure"

IsRequested(c) ==
  /\ Goto(c, "exists", IF \E r \in ToSet(gCreateDisplayRequests) : AppOf[r] = AppOf[c]
                       THEN AfterDisplay(c) ELSE "listed")
  /\ UNCHANGED <<markVars, knownVars, gDestroyMutex, requestVars, callVars, running, plugin,
                 displayVars>>

IsClient(c) ==
  /\ Goto(c, "listed", IF AppOf[c] \in clients THEN AfterDisplay(c) ELSE "missing")
  /\ UNCHANGED <<markVars, knownVars, gDestroyMutex, requestVars, callVars, running, plugin,
                 displayVars>>

CreateDisplay(c) ==
  /\ Goto(c, "missing", "creating")
  /\ gCreateDisplayRequests' = Append(gCreateDisplayRequests, c)
  /\ UNCHANGED <<markVars, knownVars, gDestroyMutex, gKillClientRequests, posted, callVars,
                 running, plugin, displayVars>>

AwaitDisplay(c) ==
  /\ c \in posted
  /\ Goto(c, "creating", AfterDisplay(c))
  /\ posted' = posted \ {c}
  /\ UNCHANGED <<markVars, knownVars, gDestroyMutex, gCreateDisplayRequests,
                 gKillClientRequests, callVars, running, plugin, displayVars>>

(* The configuration is merged and set; then a plugin that is not (being)   *)
(* activated, or is not there, is activated.                                *)
Configure(c) ==
  /\ pc[c] = "configure"
  /\ IF launchType[c] = "UNKNOWN" /\ plugin[AppOf[c]] \in {"activation", "activated"}
     THEN pc' = [pc EXCEPT ![c] = "setup"] /\ UNCHANGED launchType
     ELSE /\ pc' = [pc EXCEPT ![c] = "queued"]
          /\ launchType' = [launchType EXCEPT ![c] = IF @ = "UNKNOWN" THEN "ACTIVATE" ELSE @]
  /\ UNCHANGED <<markVars, knownVars, gDestroyMutex, requestVars, retried, result, running,
                 plugin, displayVars>>
-----------------------------------------------------------------------------
(* activate and deactivate: a job of the pool, for which the caller waits.  *)
(* A plugin that is activated tells handleInitialize, one that is           *)
(* deactivated handleDeactivated and then handleDeinitialized, all in the   *)
(* thread of the job; the framework refuses what does not fit the state.    *)
Activates(c) == KindOf[c] \in {"launch", "activate"}
CanRun(c)    == OverRpc(c) => WorkerIsFree

Activate(c) ==
  /\ Activates(c) /\ CanRun(c)
  /\ plugin[AppOf[c]] = "deactivated"
  /\ Goto(c, "queued", "exists")
  /\ running' = running \cup {c}
  /\ plugin' = [plugin EXCEPT ![AppOf[c]] = "activation"]
  /\ UNCHANGED <<markVars, knownVars, gDestroyMutex, requestVars, callVars, displayVars>>

ActivateAtOnce(c) ==
  /\ Activates(c) /\ CanRun(c)
  /\ \/ plugin[AppOf[c]] = "activated" /\ result' = [result EXCEPT ![c] = TRUE]
     \/ /\ "activate" \in Failing \/ plugin[AppOf[c]] \notin {"deactivated", "activated"}
        /\ result' = [result EXCEPT ![c] = FALSE]
  /\ Goto(c, "queued", "finished")
  /\ UNCHANGED <<markVars, knownVars, gDestroyMutex, requestVars, launchType, retried, running,
                 plugin, displayVars>>

(* handleInitialize, once the display is there                              *)
Remember(c) ==
  /\ Goto(c, "initialized", "activation")
  /\ gActivePluginsData' = gActivePluginsData \cup {AppOf[c]}
  /\ UNCHANGED <<markVars, gStateNotifications, untimely, gDestroyMutex, requestVars, callVars, running,
                 plugin, displayVars>>

Activated(c) ==
  /\ Goto(c, "activation", "finished")
  /\ plugin' = [plugin EXCEPT ![AppOf[c]] = "activated"]
  /\ result' = [result EXCEPT ![c] = TRUE]
  /\ running' = running \ {c}
  /\ UNCHANGED <<markVars, knownVars, gDestroyMutex, requestVars, launchType, retried, displayVars>>

(* Its Initialize fails: it is only deinitialized.                          *)
ActivationFails(c) ==
  /\ "activate" \in Failing
  /\ Goto(c, "activation", "kill")
  /\ UNCHANGED <<markVars, knownVars, gDestroyMutex, requestVars, callVars, running, plugin,
                 displayVars>>

Deactivate(c) ==
  /\ ~Activates(c) /\ CanRun(c)
  /\ plugin[AppOf[c]] = "activated"
  /\ Goto(c, "queued", "deactivated")
  /\ running' = running \cup {c}
  /\ plugin' = [plugin EXCEPT ![AppOf[c]] = "deactivation"]
  /\ UNCHANGED <<markVars, knownVars, gDestroyMutex, requestVars, callVars, displayVars>>

DeactivateAtOnce(c) ==
  /\ ~Activates(c) /\ CanRun(c)
  /\ plugin[AppOf[c]] # "activated"
  /\ Goto(c, "queued", "finished")
  /\ result' = [result EXCEPT ![c] = FALSE]
  /\ UNCHANGED <<markVars, knownVars, gDestroyMutex, requestVars, launchType, retried, running,
                 plugin, displayVars>>

(* handleDeactivated                                                        *)
MarkExternal(c) ==
  /\ Goto(c, "deactivated", "unregister")
  /\ gExternalDestroyApplications' = IF AppOf[c] \in gDestroyApplications
                                     THEN gExternalDestroyApplications
                                     ELSE gExternalDestroyApplications \cup {AppOf[c]}
  /\ UNCHANGED <<gLaunchApplications, gDestroyApplications, knownVars, gDestroyMutex,
                 requestVars, callVars, running, plugin, displayVars>>

Unregister(c) ==
  /\ Goto(c, "unregister", "kill")
  /\ gStateNotifications' = gStateNotifications \ {AppOf[c]}
  /\ untimely' = untimely \ {AppOf[c]}
  /\ UNCHANGED <<markVars, gActivePluginsData, gDestroyMutex, requestVars, callVars, running,
                 plugin, displayVars>>

(* handleDeinitialized                                                      *)
KillClient(c) ==
  /\ Goto(c, "kill", "killing")
  /\ gKillClientRequests' = Append(gKillClientRequests, c)
  /\ UNCHANGED <<markVars, knownVars, gDestroyMutex, gCreateDisplayRequests, posted, callVars,
                 running, plugin, displayVars>>

AwaitKill(c) ==
  /\ c \in posted
  /\ Goto(c, "killing", "deinitialized")
  /\ posted' = posted \ {c}
  /\ UNCHANGED <<markVars, knownVars, gDestroyMutex, gCreateDisplayRequests,
                 gKillClientRequests, callVars, running, plugin, displayVars>>

Forget(c) ==
  /\ Goto(c, "deinitialized", "forgotten")
  /\ gActivePluginsData' = gActivePluginsData \ {AppOf[c]}
  /\ UNCHANGED <<markVars, gStateNotifications, untimely, gDestroyMutex, requestVars, callVars, running,
                 plugin, displayVars>>

Deinitialized(c) ==
  /\ Goto(c, "forgotten", "finished")
  /\ gExternalDestroyApplications' = gExternalDestroyApplications \ {AppOf[c]}
  /\ plugin' = [plugin EXCEPT ![AppOf[c]] = "deactivated"]
  /\ result' = [result EXCEPT ![c] = ~Activates(c)]
  /\ running' = running \ {c}
  /\ UNCHANGED <<gLaunchApplications, gDestroyApplications, knownVars, gDestroyMutex,
                 requestVars, launchType, retried, displayVars>>

(* The caller goes on; a launch tries a second time.                        *)
JobIsDone(c) ==
  /\ Goto(c, "finished",
          IF ~OverRpc(c) THEN "returned"
          ELSE IF KindOf[c] = "destroy" THEN "unlock"
          ELSE IF result[c] THEN "setup"
          ELSE IF c \in retried THEN "end" ELSE "queued")
  /\ retried' = IF result[c] THEN retried ELSE retried \cup {c}
  /\ UNCHANGED <<markVars, knownVars, gDestroyMutex, requestVars, launchType, result, running,
                 plugin, displayVars>>
-----------------------------------------------------------------------------
(* The interface that a plugin has from its activation until the end of its *)
(* deactivation, if it has one at all.                                      *)
HasStateControl(a) == plugin[a] \in {"activation", "activated", "deactivation"}

MayLackStateControl(a) == "state" \in Failing \/ plugin[a] # "activated"

(* Slip: the handler is kept though there is nothing to register it with.   *)
RegisterUnchecked(c) ==
  /\ Goto(c, "setup", "setState")
  /\ gStateNotifications' = gStateNotifications \cup {AppOf[c]}
  /\ UNCHANGED <<markVars, gActivePluginsData, untimely, gDestroyMutex, requestVars, callVars,
                 running, plugin, displayVars>>

(* launchWrapper goes on: a handler for the application's own state.  One   *)
(* that is registered after handleDeactivated, or before an activation that *)
(* fails, stays behind.                                                     *)
RegisterNotification(c) ==
  /\ Goto(c, "setup", "setState")
  /\ \/ /\ AppOf[c] \notin gStateNotifications /\ HasStateControl(AppOf[c])
        /\ gStateNotifications' = gStateNotifications \cup {AppOf[c]}
        /\ untimely' = IF plugin[AppOf[c]] = "activated" THEN untimely
                       ELSE untimely \cup {AppOf[c]}
     \/ /\ AppOf[c] \in gStateNotifications \/ MayLackStateControl(AppOf[c])
        /\ UNCHANGED <<gStateNotifications, untimely>>
  /\ UNCHANGED <<markVars, gActivePluginsData, gDestroyMutex, requestVars, callVars, running,
                 plugin, displayVars>>

SetState(c) ==
  /\ Goto(c, "setState", "visible")
  /\ \/ plugin[AppOf[c]] = "activated" /\ UNCHANGED result
     \/ /\ "state" \in Failing \/ plugin[AppOf[c]] # "activated"
        /\ result' = [result EXCEPT ![c] = FALSE]
  /\ UNCHANGED <<markVars, knownVars, gDestroyMutex, requestVars, launchType, retried, running,
                 plugin, displayVars>>

(* setVisibility, of all three calls: a browser that is known and is not    *)
(* being destroyed is told with gDestroyMutex held.                         *)
IsTold(a) == a \in gActivePluginsData /\ ~BeingDestroyed(a)

AfterVisible(c) == CASE KindOf[c] = "launch"  -> "end"
                     [] KindOf[c] = "destroy" -> "mark"
                     [] OTHER -> "returned"

SetVisibility(c) ==
  /\ Goto(c, "visible", IF IsTold(AppOf[c]) THEN "tell" ELSE AfterVisible(c))
  /\ UNCHANGED <<markVars, knownVars, gDestroyMutex, requestVars, callVars, running, plugin,
                 displayVars>>

Tell(c) ==
  /\ gDestroyMutex = {}
  /\ Goto(c, "tell", AfterVisible(c))
  /\ UNCHANGED <<markVars, knownVars, gDestroyMutex, requestVars, callVars, running, plugin,
                 displayVars>>

EndLaunch(c) ==
  /\ Goto(c, "end", "returned")
  /\ gLaunchApplications' = gLaunchApplications \ {AppOf[c]}
  /\ UNCHANGED <<gDestroyApplications, gExternalDestroyApplications, knownVars, gDestroyMutex,
                 requestVars, callVars, running, plugin, displayVars>>
-----------------------------------------------------------------------------
(* suspendWrapper                                                           *)
Suspend(c) ==
  /\ KindOf[c] = "suspend" /\ WorkerIsFree
  /\ Goto(c, "idle", IF BeingDestroyed(AppOf[c]) THEN "returned" ELSE "request")
  /\ UNCHANGED <<markVars, knownVars, gDestroyMutex, requestVars, callVars, running, plugin,
                 displayVars>>

RequestSuspend(c) ==
  /\ gDestroyMutex = {}
  /\ \/ HasStateControl(AppOf[c]) /\ Goto(c, "request", "visible")
     \/ MayLackStateControl(AppOf[c]) /\ Goto(c, "request", "returned")
  /\ UNCHANGED <<markVars, knownVars, gDestroyMutex, requestVars, callVars, running, plugin,
                 displayVars>>
-----------------------------------------------------------------------------
(* destroyWrapper: the application is hidden (setVisibility) whether or not *)
(* it may be destroyed.                                                     *)
ArriveToDestroy(c) ==
  /\ KindOf[c] = "destroy" /\ WorkerIsFree
  /\ Goto(c, "idle", "visible")
  /\ UNCHANGED <<markVars, knownVars, gDestroyMutex, requestVars, callVars, running, plugin,
                 displayVars>>

MarkDestroy(c) ==
  /\ pc[c] = "mark"
  /\ IF AppOf[c] \in gLaunchApplications
     THEN pc' = [pc EXCEPT ![c] = "returned"] /\ UNCHANGED gDestroyApplications
     ELSE /\ pc' = [pc EXCEPT ![c] = "lock"]
          /\ gDestroyApplications' = gDestroyApplications \cup {AppOf[c]}
  /\ UNCHANGED <<gLaunchApplications, gExternalDestroyApplications, knownVars, gDestroyMutex,
                 requestVars, callVars, running, plugin, displayVars>>

Lock(c) ==
  /\ gDestroyMutex = {}
  /\ Goto(c, "lock", "queued")
  /\ gDestroyMutex' = gDestroyMutex \cup {c}
  /\ UNCHANGED <<markVars, knownVars, requestVars, callVars, running, plugin, displayVars>>

(* Slip: the mutex is given back only when the plugin could be deactivated. *)
UnlockOnSuccess(c) ==
  /\ Goto(c, "unlock", "unmark")
  /\ gDestroyMutex' = IF result[c] THEN gDestroyMutex \ {c} ELSE gDestroyMutex
  /\ UNCHANGED <<markVars, knownVars, requestVars, callVars, running, plugin, displayVars>>

Unlock(c) ==
  /\ Goto(c, "unlock", "unmark")
  /\ gDestroyMutex' = gDestroyMutex \ {c}
  /\ UNCHANGED <<markVars, knownVars, requestVars, callVars, running, plugin, displayVars>>

EndDestroy(c) ==
  /\ Goto(c, "unmark", "returned")
  /\ gDestroyApplications' = gDestroyApplications \ {AppOf[c]}
  /\ UNCHANGED <<gLaunchApplications, gExternalDestroyApplications, knownVars, gDestroyMutex,
                 requestVars, callVars, running, plugin, displayVars>>
-----------------------------------------------------------------------------
(* shellThread serves all requests of a frame, the displays first; nobody   *)
(* looks at their mResult.                                                  *)
Clients(requests) == {AppOf[c] : c \in ToSet(requests)}

Frame ==
  /\ gCreateDisplayRequests # <<>> \/ gKillClientRequests # <<>>
  /\ \E refused \in (IF "display" \in Failing THEN SUBSET Clients(gCreateDisplayRequests)
                     ELSE {{}}) :
       /\ clients' = (clients \cup (Clients(gCreateDisplayRequests) \ refused))
                       \ Clients(gKillClientRequests)
       /\ undisplayed' = (undisplayed \ Clients(gCreateDisplayRequests)) \cup refused
  /\ posted' = posted \cup ToSet(gCreateDisplayRequests) \cup ToSet(gKillClientRequests)
  /\ gCreateDisplayRequests' = <<>> /\ gKillClientRequests' = <<>>
  /\ UNCHANGED <<markVars, knownVars, gDestroyMutex, pc, callVars, running, plugin>>
-----------------------------------------------------------------------------
Launch(c) ==
  \/ FindPlugin(c) \/ Clone(c) \/ Configure(c) \/ RegisterNotification(c) \/ SetState(c)
  \/ SetVisibility(c) \/ Tell(c) \/ EndLaunch(c)

Display(c) == IsRequested(c) \/ IsClient(c) \/ CreateDisplay(c) \/ AwaitDisplay(c)

Job(c) ==
  \/ Activate(c) \/ ActivateAtOnce(c) \/ Remember(c) \/ Activated(c) \/ ActivationFails(c)
  \/ Deactivate(c) \/ DeactivateAtOnce(c) \/ MarkExternal(c) \/ Unregister(c)
  \/ KillClient(c) \/ AwaitKill(c) \/ Forget(c) \/ Deinitialized(c) \/ JobIsDone(c)

Destroy(c) == MarkDestroy(c) \/ Lock(c) \/ Unlock(c) \/ EndDestroy(c)

Runs ==
  \/ Frame
  \/ \E c \in Call : Launch(c) \/ Display(c) \/ Job(c) \/ RequestSuspend(c) \/ Destroy(c)

Calls ==
  \E c \in Call :
    MarkLaunch(c) \/ Suspend(c) \/ ArriveToDestroy(c) \/ ArriveFromOutside(c)

Next == Runs \/ Calls

(* Threads get on, the pool runs its jobs and shellThread draws its frames. *)
(* They have finitely much to do, so fairness of the union is enough.       *)
Spec == Init /\ [][Next]_shellVars /\ WF_shellVars(Runs)
-----------------------------------------------------------------------------
(* What RDKShell keeps of an application agrees with the framework: an      *)
(* active one is known, does not count as being destroyed by others, for    *)
(* suspend and setVisibility would be refused, and has a display unless     *)
(* createDisplay refused it one; one that is not active has left nothing    *)
(* behind, so the next activation begins anew, but a handler that was       *)
(* registered while the plugin was being activated or deactivated           *)
(* (handleInitialize, handleDeactivated, handleDeinitialized, launchWrapper,*)
(* whatever calls overlap).                                                 *)
ShellKnowsThePlugins ==
  \A a \in App :
    /\ plugin[a] = "activated" =>
         /\ a \in gActivePluginsData \ gExternalDestroyApplications
         /\ a \in clients \cup Clients(gCreateDisplayRequests) \cup undisplayed
    /\ plugin[a] \in {"absent", "deactivated"} =>
         a \notin gActivePluginsData \cup gExternalDestroyApplications
                    \cup (gStateNotifications \ untimely)

PoolIsExhausted ==
  /\ ~WorkerIsFree
  /\ \A c \in Call : OverRpc(c) /\ InProgress(c) =>
       pc[c] \in {"queued", "lock", "tell", "request"} /\ c \notin running

(* In the end every call that was made has returned, unless each worker is  *)
(* held by a call that waits for a job of the same pool or for gDestroyMutex*)
(* (activate, deactivate, sem_wait, gDestroyMutex, shellThread).            *)
CallsReturn == <>[](PoolIsExhausted \/ \A c \in Call : ~InProgress(c))
=============================================================================
