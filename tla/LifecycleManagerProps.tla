----------------------- MODULE LifecycleManagerProps ------------------------
(* The properties of LifecycleManager.                                     *)
EXTENDS LifecycleManager

(* The request handler thread is inside changeState for x.                 *)
InHand(x) == wpc \in {"walk", "run", "render", "terminate"} /\ gRequests # <<>> /\ Cur = x

AwaitedIn(s) == CASE s = "INITIALIZING" -> "onAppRunning"
                  [] s = "ACTIVE"       -> "onFirstFrame"
                  [] s = "TERMINATING"  -> "onAppTerminating"
                  [] OTHER              -> "none"

(* A context that waits for an event waits in the state where that event is *)
(* due, and what it kept of its path (mPendingStates) starts at that state  *)
(* and is a legal walk; a context that does not wait, and is not in the     *)
(* hands of the request handler thread, has nothing left of an earlier wait *)
(* (StateHandler::changeState, State.cpp).                                  *)
Coherent(x) ==
  /\ pending[x] =>
       /\ pendingStates[x] # <<>> /\ pendingStates[x][1] = state[x]
       /\ Walk(pendingStates[x])
       /\ pendingEvent[x] = AwaitedIn(state[x]) /\ pendingEvent[x] # "none"
  /\ ~pending[x] /\ ~InHand(x) => pendingStates[x] = <<>> /\ pendingEvent[x] = "none"

PendingCoherent == \A x \in Ctx : Coherent(x)

(* What has been announced of a context is where it is: while it waits in   *)
(* INITIALIZING or ACTIVE the announcement lags one edge behind.  The only   *)
(* announcement that may be wrong is TERMINATING, sent before a stop that    *)
(* then fails; it stays wrong while later requests find nothing to announce  *)
(* (changeState, sendEvent).                                                *)
AnnouncedWhereItIs ==
  \A x \in 1..created :
    ~InHand(x) =>
      \/ announced[x] = state[x]
      \/ /\ pending[x] /\ state[x] \in {"INITIALIZING", "ACTIVE"}
         /\ announced[x] = pendingOld[x] /\ Edge(pendingOld[x], state[x])
      \/ "terminate" \in Failing /\ announced[x] = "TERMINATING"

(* No wake-up of the request handler thread is lost: when it has drained    *)
(* the queue and waits, a request added since is covered by a post of the   *)
(* semaphore, made or about to be made (StateTransitionHandler).            *)
Posting == \E t \in Thread : thread[t].pc = "post"

NoLostWakeUp == wpc = "wait" /\ gRequests # <<>> => gSem > 0 \/ Posting

(* A context is deleted only when its container was never started, is       *)
(* stopping, or has ended; or when RuntimeManager had answered ERROR_NONE   *)
(* to a stop that Dobby failed, which the LifecycleManager cannot see.      *)
(* Whatever an error told it of, and whichever path, retry or continuation  *)
(* led to UNLOADED, no other live container loses its context               *)
(* (handleStateChangeEvent; State.cpp, TerminatingState::handle).           *)
ForgottenOnlyWhenStopped ==
  [][\A x \in loaded \ loaded' :
       /\ inst[x] # NoInst
       /\ \/ container[inst[x]] \in {"none", "stopping", "gone"}
          \/ inst[x] \in unstopped]_vars

(* RuntimeManager::Run is called at most once for an instance id, be the    *)
(* earlier call successful, still in progress or failed, and whatever is    *)
(* retried or continued later (InitializingState::handle).                  *)
RunOncePerInstance == \A i \in Inst : ran[i] <= 1

(* The state changes the request handler thread submits for a context       *)
(* (sendEvent; jobs that call OnAppLifecycleStateChanged), in the order in  *)
(* which it submits them, walk the transition table edge by edge, and the   *)
(* context is deleted only after UNLOADED was submitted.  Of the order in   *)
(* which the pool delivers them nothing is claimed; an intent for an active *)
(* app, sent as ACTIVE to ACTIVE, is no change of state, and the failures   *)
(* of notifyOnFailure are calls of another interface.                       *)
Submitted == INSTANCE AppLifecycle WITH
  Object <- Ctx,
  phase  <- [x \in Ctx |-> IF x > created THEN "absent"
                           ELSE IF x \notin loaded THEN "forgotten"
                           ELSE announced[x]]

ChangesInOrder == Submitted!AbstractSpec

-----------------------------------------------------------------------------
(* Liveness. *)

(* The behaviour ends here for the model: the process has died, or the      *)
(* request handler thread needs an instance id beyond the bound MaxInst.    *)
Over == aborted \/ (Walking("LOADING") /\ uuid = MaxInst)

(* SpawnApp returns although it waits, with mAdminLock held, for the        *)
(* request handler thread to bring the new context to LOADING; unless the   *)
(* plugin is deinitialised meanwhile.                                       *)
SpawnReturns ==
  \A c \in Client :
    thread[c].pc = "await" ~> (thread[c].pc = "idle" \/ ~sRunning \/ Over)

(* Every queued request is dealt with, as long as the plugin runs.          *)
QueueEmpties == []<>(gRequests = <<>> \/ ~sRunning \/ Over)

(* The request handler thread ends once the plugin is deinitialised.        *)
WorkerEnds == ~sRunning ~> (wpc = "ended" \/ Over)

-----------------------------------------------------------------------------
(* Statements of the repository that the code does not keep. *)

(* LifecycleManagerImplementation.cpp:339, UnloadApp: "Moves the app        *)
(* through the lifecycle states till it ultimately ends in app container    *)
(* being terminated."                                                       *)
Unloading(i) == \E c \in Client : thread[c].pc = "unload" /\ inst[thread[c].ctx] = i

UnloadTerminates ==
  \A i \in Inst : Unloading(i) ~> (container[i] = "gone" \/ Over)

(* LifecycleManagerImplementation.cpp:249, SpawnApp: "This will be an       *)
(* asynchronous call": it returns whatever becomes of other apps.           *)
SpawnIsAsynchronous ==
  \A c \in Client : thread[c].pc = "await" ~> (thread[c].pc # "await" \/ Over)
=============================================================================
